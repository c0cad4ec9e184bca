--------------------------- MODULE SessionHolders ---------------------------
(***************************************************************************)
\* What hangs on a login session and must end with it: the terminal's
\* WebSockets (routes/terminal.ts), the terminal's enabling
\* (services/terminal-gate.ts, routes/terminal-access.ts) and the unlocking
\* of a project's database (services/database-unlock.ts,
\* routes/project-database.ts), composed with the store of Sessions.  They
\* hear of a revocation from `onRevoked` and ask `isActive` in between.
\* 
\* The setup is over (the terminal must be enabled); one project's
\* database.
(***************************************************************************)
EXTENDS Sessions

CONSTANTS
    Conn,        \* WebSockets
    NoConn,      \* no WebSocket
    Job,         \* requests to unlock the database in progress at the same time
    PruneAt,     \* how many counters `prune` lets live (256)
    MaxLocks     \* how often a counter may be raised (a bound)

ASSUME HoldersAssumption == NoConn \notin Conn /\ PruneAt \in Nat

VARIABLES
    conn,        \* each WebSocket: where it is and its session
    owner,       \* the WebSocket that has the terminal
    gate,        \* the sessions the terminal is enabled for
    admitted,    \* sessions whose requests passed the hook: their handlers may still run
    unlocked,    \* the sessions the database is unlocked for
    counted,     \* the keys of `generations`
    generation,  \* its values, 0 without a key
    unlocking    \* the requests to unlock: session, ticket, locked meanwhile

terminal == <<conn, owner, gate, admitted>>
database == <<unlocked, counted, generation, unlocking>>
held == <<terminal, database>>
allVars == <<vars, held>>

Away == [at |-> "none", session |-> NoSession]
Ended == [at |-> "ended", session |-> NoSession]
Idle == [session |-> NoSession, ticket |-> 0, locked |-> FALSE]

-----------------------------------------------------------------------------
\* The terminal.

\* Registered in `bySession`: the owner and one replaced but not yet closed.
Attached(k) == conn[k].at \in {"open", "replaced"}

\* `endForSession` on every attached WebSocket of these sessions.
ConnsEnded(S) ==
    conn' = [k \in Conn |->
               IF Attached(k) /\ conn[k].session \in S THEN Ended ELSE conn[k]]

\* The request's hook resolves the session of the handshake.
Handshake(k, s) ==
    /\ loaded = "yes"
    /\ Valid(s)
    /\ conn[k] = Away
    /\ conn' = [conn EXCEPT ![k] = [at |-> "resolved", session |-> s]]
    /\ UNCHANGED <<vars, owner, gate, admitted, database>>

\* The terminal is off for this session: closed with 4403.
OpenDisabled(k) ==
    /\ conn[k].at = "resolved"
    /\ Active(conn[k].session) /\ conn[k].session \notin gate
    /\ conn' = [conn EXCEPT ![k] = Away]
    /\ UNCHANGED <<vars, owner, gate, admitted, database>>

OwnerOpen == owner # NoConn /\ conn[owner].at = "open"

\* In use by another client: the new WebSocket is closed with 4009.
OpenBusy(k) ==
    /\ conn[k].at = "resolved"
    /\ Active(conn[k].session) => conn[k].session \in gate
    /\ OwnerOpen
    /\ conn' = [conn EXCEPT ![k] = Away]
    /\ UNCHANGED <<vars, owner, gate, admitted, database>>

\* Mutant: the session is not asked again when the WebSocket opens.
OpenTrusts(k) ==
    /\ conn[k].at = "resolved"
    /\ Active(conn[k].session) => conn[k].session \in gate
    /\ owner' = k
    /\ conn' = [j \in Conn |->
                  IF j = k THEN [conn[k] EXCEPT !.at = "open"]
                  ELSE IF j = owner /\ OwnerOpen
                    THEN [conn[j] EXCEPT !.at = "replaced"]
                  ELSE conn[j]]
    /\ UNCHANGED <<vars, gate, admitted, database>>

\* It takes the terminal, from the same client's older WebSocket if there is
\* one, and is ended at once if its session ended after the handshake.
Open(k) ==
    /\ conn[k].at = "resolved"
    /\ Active(conn[k].session) => conn[k].session \in gate
    /\ owner' = k
    /\ conn' = [j \in Conn |->
                  IF j = k
                    THEN IF Active(conn[k].session)
                           THEN [conn[k] EXCEPT !.at = "open"]
                           ELSE Ended
                  ELSE IF j = owner /\ OwnerOpen
                    THEN [conn[j] EXCEPT !.at = "replaced"]
                  ELSE conn[j]]
    /\ UNCHANGED <<vars, gate, admitted, database>>

\* A frame of a session that is gone, past its time or no longer enabled ends
\* the WebSocket instead of reaching the shell; the timer of `expiresAt` too.
FrameRefused(k) ==
    /\ Attached(k)
    /\ ~Active(conn[k].session) \/ conn[k].session \notin gate
    /\ conn' = [conn EXCEPT ![k] = Ended]
    /\ UNCHANGED <<vars, owner, gate, admitted, database>>

\* The close event: of an ended or replaced WebSocket, or a browser that left.
Closed(k) ==
    /\ conn[k].at \in {"open", "replaced", "ended"}
    /\ conn' = [conn EXCEPT ![k] = Away]
    /\ owner' = IF owner = k THEN NoConn ELSE owner
    /\ UNCHANGED <<vars, gate, admitted, database>>

\* The hook resolves the cookie of a request to enable the terminal, to unlock
\* the database or to lock it.  The handler runs later, whatever the session is
\* by then.
Admit(s) ==
    /\ loaded = "yes"
    /\ Valid(s)
    /\ admitted' = admitted \union {s}
    /\ UNCHANGED <<vars, conn, owner, gate, database>>

\* The person confirmed who they are (or failed to).
Enable(s) ==
    /\ s \in admitted
    /\ gate' \in {gate, gate \union {s}}
    /\ UNCHANGED <<vars, conn, owner, admitted, database>>

\* The window or the idle time is over, or the button was pressed.
GateEnds(s) ==
    /\ s \in gate
    /\ gate' = gate \ {s}
    /\ ConnsEnded({s})
    /\ UNCHANGED <<vars, owner, admitted, database>>

-----------------------------------------------------------------------------
\* The database.

\* `prune`: with many counters, those of sessions that are not active go.
Kept == IF Cardinality(counted) < PruneAt THEN counted ELSE {s \in counted : Active(s)}

\* Mutant: a key that is not there counts as -1, as of an index not found.
ValueNotFound(s) == IF s \in Kept THEN generation[s] ELSE 0 - 1

\* `generations.get(key) ?? 0`.
Value(s) == IF s \in Kept THEN generation[s] ELSE 0

Counters(s, n) ==
    /\ counted' = Kept \union {s}
    /\ generation' = [t \in Session |-> IF t = s THEN n ELSE Value(t)]

\* The request takes its ticket; the confirmation and the backup follow.
AskUnlock(j, s) ==
    /\ s \in admitted
    /\ unlocking[j] = Idle
    /\ Counters(s, Value(s))
    /\ unlocking' = [unlocking EXCEPT ![j] = [session |-> s, ticket |-> Value(s), locked |-> FALSE]]
    /\ UNCHANGED <<vars, terminal, unlocked>>

\* Mutant: the grant only compares the tickets.
MayGrantByTicket(j) == unlocking[j].ticket = generation[unlocking[j].session]

\* The two checks of `grant`.
MayGrant(j) ==
    /\ unlocking[j].ticket = generation[unlocking[j].session]
    /\ Active(unlocking[j].session)

\* The backup ended: granted if no lock and no end of the session came first.
Grant(j) ==
    /\ unlocking[j] # Idle
    /\ unlocked' = IF MayGrant(j) THEN unlocked \union {unlocking[j].session} ELSE unlocked
    /\ unlocking' = [unlocking EXCEPT ![j] = Idle]
    /\ UNCHANGED <<vars, terminal, counted, generation>>

\* The confirmation or the backup failed.
UnlockFails(j) ==
    /\ unlocking[j] # Idle
    /\ unlocking' = [unlocking EXCEPT ![j] = Idle]
    /\ UNCHANGED <<vars, terminal, unlocked, counted, generation>>

MarkLocked(S) ==
    unlocking' = [j \in Job |->
                    IF unlocking[j].session \in S
                      THEN [unlocking[j] EXCEPT !.locked = TRUE] ELSE unlocking[j]]

\* Mutant: the counter is only raised when there was something to lock.
LockIfUnlocked(s) ==
    /\ s \in admitted
    /\ Value(s) < MaxLocks
    /\ Counters(s, IF s \in unlocked THEN Value(s) + 1 ELSE Value(s))
    /\ unlocked' = unlocked \ {s}
    /\ MarkLocked({s})
    /\ UNCHANGED <<vars, terminal>>

\* "Lock now": raises the counter even with nothing unlocked yet.
Lock(s) ==
    /\ s \in admitted
    /\ Value(s) < MaxLocks
    /\ Counters(s, Value(s) + 1)
    /\ unlocked' = unlocked \ {s}
    /\ MarkLocked({s})
    /\ UNCHANGED <<vars, terminal>>

\* The project is deleted: every unlock and every request for one is over.
ForgetProject ==
    /\ \A s \in counted : generation[s] < MaxLocks
    /\ counted # {}
    /\ unlocked' = {}
    /\ generation' = [s \in Session |-> IF s \in counted THEN generation[s] + 1 ELSE generation[s]]
    /\ MarkLocked(Session)
    /\ UNCHANGED <<vars, terminal, counted>>

\* `live`: the time is over, or the session is found not to be active.
UnlockEnds(s) ==
    /\ s \in unlocked
    /\ unlocked' = unlocked \ {s}
    /\ UNCHANGED <<vars, terminal, counted, generation, unlocking>>

-----------------------------------------------------------------------------
\* The store's steps, and what the listeners do in them.

\* The sessions `onRevoked` names: those a revocation took out (not `load`).
Revoked == IF Head(queue) = Boot THEN {} ELSE Leaving

RevokedHeard ==
    /\ Synced
    /\ ConnsEnded(Revoked)
    /\ gate' = gate \ Revoked
    /\ unlocked' = unlocked \ Revoked
    /\ counted' = counted \ Revoked
    /\ generation' = [s \in Session |-> IF s \in Revoked THEN 0 ELSE generation[s]]
    /\ UNCHANGED <<owner, admitted, unlocking>>

\* A new password disables the terminal for everyone.
PasswordChanged(r) ==
    /\ PasswordWritten(r)
    /\ gate' = {}
    /\ ConnsEnded(gate)
    /\ UNCHANGED <<owner, admitted, database>>

Died ==
    /\ Crash \/ PowerCut
    /\ conn' = [k \in Conn |-> Away]
    /\ owner' = NoConn
    /\ gate' = {}
    /\ admitted' = {}
    /\ unlocked' = {}
    /\ counted' = {}
    /\ generation' = [s \in Session |-> 0]
    /\ unlocking' = [j \in Job |-> Idle]

Alone ==
    /\ \/ \E r \in Request, s \in Session : Asks(r, s)
       \/ \E r \in Request : Done(r) \/ Logout(r) \/ Restart(r)
       \/ Load \/ Turn \/ Rename \/ SaveFails
       \/ \E s \in Session : Expire(s)
    /\ UNCHANGED held

HeldInit ==
    /\ Init
    /\ conn = [k \in Conn |-> Away]
    /\ owner = NoConn
    /\ gate = {}
    /\ admitted = {}
    /\ unlocked = {}
    /\ counted = {}
    /\ generation = [s \in Session |-> 0]
    /\ unlocking = [j \in Job |-> Idle]

HeldNext ==
    \/ Alone
    \/ RevokedHeard
    \/ \E r \in Request : PasswordChanged(r)
    \/ Died
    \/ \E k \in Conn, s \in Session : Handshake(k, s)
    \/ \E k \in Conn : OpenDisabled(k) \/ OpenBusy(k) \/ Open(k) \/ FrameRefused(k) \/ Closed(k)
    \/ \E s \in Session : Admit(s) \/ Enable(s) \/ GateEnds(s)
    \/ \E j \in Job, s \in Session : AskUnlock(j, s)
    \/ \E j \in Job : Grant(j) \/ UnlockFails(j)
    \/ \E s \in Session : Lock(s) \/ UnlockEnds(s)
    \/ ForgetProject

HeldSpec == HeldInit /\ [][HeldNext]_allVars

-----------------------------------------------------------------------------
\* Properties.

\* The variables of terminal.ts, terminal-gate.ts and database-unlock.ts keep
\* their types.
HeldTypeOK ==
    /\ conn \in [Conn -> [at : {"none", "resolved", "open", "replaced", "ended"},
                          session : Session \union {NoSession}]]
    /\ owner \in Conn \union {NoConn}
    /\ gate \subseteq Session
    /\ admitted \subseteq Session
    /\ unlocked \subseteq Session
    /\ counted \subseteq Session
    /\ generation \in [Session -> Nat]
    /\ unlocking \in [Job -> [session : Session \union {NoSession}, ticket : Nat, locked : BOOLEAN]]

\* No WebSocket stays attached to the shell for a session whose end was
\* answered, nor for one the terminal is not enabled for: whatever the order
\* of the handshake, the logout, the change of password, the end of the
\* enabling and the opening (terminal.ts:159-171, 216-221, 293-299).
NoOrphanTerminal ==
    \A k \in Conn : Attached(k) =>
        told[conn[k].session] \notin {"off", "denied"} /\ conn[k].session \in gate

\* No database stays unlocked for a session whose end was answered, even when
\* the unlock was asked before and granted after (database-unlock.ts:113-114).
NoOrphanUnlock == \A s \in unlocked : told[s] \notin {"off", "denied"}

\* A lock pressed (or the project deleted) while a request to unlock waits for
\* its backup is not undone by that request (database-unlock.ts:51-55).
LockWins ==
    [][\A j \in Job : unlocking[j].locked /\ unlocking'[j] = Idle
           => unlocked' \subseteq unlocked]_allVars
=============================================================================
