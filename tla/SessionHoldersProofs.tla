------------------------ MODULE SessionHoldersProofs ------------------------
(***************************************************************************)
(* Proofs about SessionHolders: for any number of sessions, requests,       *)
(* WebSockets and requests to unlock, nothing that hangs on a session stays  *)
(* when its end was answered, and a lock is not undone by an unlock asked    *)
(* before it.                                                               *)
(***************************************************************************)
EXTENDS SessionHolders, SessionsProofs

\* Below the 256 counters at which `prune` begins to work.
FewCounters == \A S \in SUBSET Session : Cardinality(S) < PruneAt

\* The sessions somebody has the cookie of, and those whose end was not answered.
Known == {"on", "off", "unsure"}
Alive == {"on", "unsure"}

-----------------------------------------------------------------------------
(* The inductive invariant. *)

\* What hangs on a session hangs on one whose end was not answered.
Hanging ==
    /\ \A k \in Conn : conn[k].at = "resolved" =>
          conn[k].session \in Session /\ told[conn[k].session] \in Known
    /\ \A k \in Conn : Attached(k) =>
          /\ conn[k].session \in Session
          /\ told[conn[k].session] \in Alive
          /\ conn[k].session \in gate
    /\ \A s \in unlocked : told[s] \in Alive
    /\ \A j \in Job : unlocking[j] # Idle =>
          unlocking[j].session \in Session /\ told[unlocking[j].session] \in Known

\* Nothing hangs on a session before the list is loaded.
Quiet ==
    loaded # "yes" =>
        /\ \A k \in Conn : conn[k].at = "none"
        /\ unlocked = {}
        /\ \A j \in Job : unlocking[j] = Idle

\* A request that was overtaken by a lock has an old ticket or a dead session.
Tickets ==
    /\ \A s \in Session : s \notin counted => generation[s] = 0
    /\ \A j \in Job : unlocking[j] # Idle =>
          \/ told[unlocking[j].session] = "off"
          \/ /\ unlocking[j].session \in counted
             /\ unlocking[j].ticket <= generation[unlocking[j].session]
    /\ \A j \in Job : unlocking[j].locked =>
          /\ unlocking[j] # Idle
          /\ \/ told[unlocking[j].session] = "off"
             \/ unlocking[j].ticket < generation[unlocking[j].session]

\* A request past the hook is of a session that was answered, since the list was
\* loaded.
Admitted ==
    /\ \A s \in admitted : told[s] \in Known
    /\ loaded # "yes" => admitted = {}

HInv == IInv /\ HeldTypeOK /\ Hanging /\ Quiet /\ Admitted

-----------------------------------------------------------------------------
(* The steps of the store. *)

\* A step of the composition is a step of the store, or leaves it alone.
LEMMA StoreStep == [HeldNext]_allVars => [Next]_vars
  BY DEF HeldNext, Handles, allVars, Alone, RevokedHeard, PasswordChanged, Died, Next, Handshake, OpenDisabled,
         OpenBusy, Open, FrameRefused, Closed, Admit, Enable, GateEnds, AskUnlock, Grant,
         UnlockFails, Lock, UnlockEnds, ForgetProject

\* The steps that end no session: no revocation on disk, no crash.
Calm ==
    \/ \E r \in Request, s \in Session : Asks(r, s)
    \/ \E r \in Request : Handles(r)
    \/ Load \/ Turn \/ Rename \/ SaveFails
    \/ \E s \in Session : Expire(s)

\* What a step that ends no session keeps of the answers and of the loading.
LEMMA CalmKeeps ==
    ASSUME IInv, Calm
    PROVE  /\ \A s \in Session : told[s] \in Known => told'[s] \in Known
           /\ \A s \in Session : told[s] \in Alive => told'[s] \in Alive
           /\ \A s \in Session : told[s] = "off" => told'[s] = "off"
           /\ loaded = "yes" => loaded' = "yes"
<1> USE DEF Known, Alive, IInv, TypeOK
<1>1. CASE \E r \in Request, s \in Session : Asks(r, s)
  BY <1>1, AskFacts
<1>2. CASE \E r \in Request : Handles(r)
  BY <1>2, HandlesFacts
<1>3. CASE Load
  BY <1>3 DEF Load
<1>4. CASE Turn
  BY <1>4 DEF Turn, Answer
<1>5. CASE Rename
  BY <1>5 DEF Rename
<1>6. CASE SaveFails
  <2>1. \A s \in Arriving : told[s] = "asked"
    BY <1>6, ArrivingAsked DEF SaveFails
  <2> QED BY <1>6, <2>1 DEF SaveFails, Answer
<1>7. CASE \E s \in Session : Expire(s)
  BY <1>7 DEF Expire, store
<1> QED BY <1>1, <1>2, <1>3, <1>4, <1>5, <1>6, <1>7 DEF Calm

\* What a save that reached the disk keeps: it ends only what leaves the list.
LEMMA SyncedKeeps ==
    ASSUME IInv, Synced
    PROVE  /\ \A s \in Session : told[s] \in Known => told'[s] \in Known
           /\ \A s \in Session : told[s] \in Alive /\ s \notin Leaving => told'[s] \in Alive
           /\ \A s \in Session : told[s] = "off" => told'[s] = "off"
           /\ \A s \in Leaving : told'[s] = "off"
           /\ loaded = "yes" => loaded' = "yes"
           /\ Head(queue) = Boot => loaded # "yes"
<1> USE DEF Known, Alive, IInv, TypeOK
<1>1. \A s \in Arriving : told[s] = "asked"
  BY ArrivingAsked DEF Synced
<1>2. Leaving \subseteq Session /\ Leaving \intersect Arriving = {}
  BY DEF Leaving, Arriving
<1>3. queue # <<>>
  BY DEF Synced, Logins
<1>4. Head(queue) = Boot => loaded # "yes"
  BY <1>3 DEF Loading
<1>5. \A s \in Session : told'[s] = IF s \in Arriving THEN "on"
                                   ELSE IF s \in Leaving THEN "off" ELSE told[s]
  BY DEF Synced
<1>6. loaded = "yes" => loaded' = "yes"
  BY DEF Synced, Answer
<1> QED BY <1>1, <1>2, <1>4, <1>5, <1>6

\* A session found active by a request that knew it is not ended.
LEMMA ActiveAlive ==
    ASSUME IInv, NEW s \in Session, told[s] \in Known, Active(s)
    PROVE  told[s] \in Alive
  BY DEF IInv, Answers, Active, Known, Alive

-----------------------------------------------------------------------------
(* Types. *)

\* The records of the WebSockets and of the requests to unlock.
Conns == [Conn -> [at : {"none", "resolved", "open", "replaced", "ended"},
                   session : Session \union {NoSession}]]
Unlocks == [Job -> [session : Session \union {NoSession}, ticket : Nat, locked : BOOLEAN]]

\* Ending WebSockets keeps their type.
LEMMA ConnsEndedType ==
    ASSUME conn \in Conns, NEW S, ConnsEnded(S)
    PROVE  conn' \in Conns
  BY DEF Conns, ConnsEnded, Ended

\* A counter read through `prune` is a number.
LEMMA CounterType ==
    ASSUME HeldTypeOK, NEW s \in Session
    PROVE  /\ Value(s) \in Nat /\ Kept \subseteq Session
           /\ \A n \in Nat : Counters(s, n) =>
                counted' \subseteq Session /\ generation' \in [Session -> Nat]
<1>1. \A t \in Session : Value(t) \in Nat
  BY DEF HeldTypeOK, Value
<1>2. Kept \subseteq Session
  BY DEF HeldTypeOK, Kept
<1> QED BY <1>1, <1>2 DEF Counters

\* The types are kept.
LEMMA HeldTypeStep ==
    ASSUME HInv, [HeldNext]_allVars
    PROVE  HeldTypeOK'
<1> USE DEF HInv
<1>0. /\ conn \in Conns /\ unlocking \in Unlocks /\ owner \in Conn \union {NoConn}
      /\ gate \subseteq Session /\ admitted \subseteq Session /\ unlocked \subseteq Session
      /\ counted \subseteq Session /\ generation \in [Session -> Nat]
  BY DEF HeldTypeOK, Conns, Unlocks
<1>q. ASSUME /\ conn' \in Conns /\ unlocking' \in Unlocks /\ owner' \in Conn \union {NoConn}
             /\ gate' \subseteq Session /\ admitted' \subseteq Session /\ unlocked' \subseteq Session
             /\ counted' \subseteq Session /\ generation' \in [Session -> Nat]
      PROVE  HeldTypeOK'
  BY <1>q DEF HeldTypeOK, Conns, Unlocks
<1> USE DEF held, terminal, database
<1>1. CASE Alone
  BY <1>0, <1>1, <1>q DEF Alone
<1>2. CASE RevokedHeard
  <2>1. conn' \in Conns
    BY <1>0, <1>2, ConnsEndedType DEF RevokedHeard
  <2>2. generation' \in [Session -> Nat]
    BY <1>0, <1>2 DEF RevokedHeard
  <2> QED BY <1>0, <1>2, <1>q, <2>1, <2>2 DEF RevokedHeard
<1>3. ASSUME NEW r \in Request, PasswordChanged(r)
      PROVE  HeldTypeOK'
  <2>1. conn' \in Conns
    BY <1>0, <1>3, ConnsEndedType DEF PasswordChanged
  <2> QED BY <1>0, <1>3, <1>q, <2>1 DEF PasswordChanged
<1>4. CASE Died
  <2>1. conn' \in Conns /\ unlocking' \in Unlocks
    BY <1>4 DEF Died, Away, Idle, Conns, Unlocks
  <2> QED BY <1>4, <1>q, <2>1 DEF Died
<1>5. ASSUME NEW k \in Conn, NEW s \in Session, Handshake(k, s)
      PROVE  HeldTypeOK'
  <2>1. conn' \in Conns
    BY <1>0, <1>5 DEF Handshake, Conns
  <2> QED BY <1>0, <1>5, <1>q, <2>1 DEF Handshake
<1>6. ASSUME NEW k \in Conn, OpenDisabled(k) \/ OpenBusy(k) \/ FrameRefused(k) \/ Closed(k)
      PROVE  HeldTypeOK'
  <2>1. conn' \in Conns
    BY <1>0, <1>6 DEF OpenDisabled, OpenBusy, FrameRefused, Closed, Conns, Away, Ended
  <2> QED BY <1>0, <1>6, <1>q, <2>1 DEF OpenDisabled, OpenBusy, FrameRefused, Closed
<1>7. ASSUME NEW k \in Conn, Open(k)
      PROVE  HeldTypeOK'
  <2>1. conn' \in Conns
    BY <1>0, <1>7 DEF Open, Conns, Ended
  <2> QED BY <1>0, <1>7, <1>q, <2>1 DEF Open
<1>8. ASSUME NEW s \in Session, Admit(s) \/ Enable(s) \/ GateEnds(s)
      PROVE  HeldTypeOK'
  <2>1. conn' \in Conns
    BY <1>0, <1>8, ConnsEndedType DEF Admit, Enable, GateEnds
  <2> QED BY <1>0, <1>8, <1>q, <2>1 DEF Admit, Enable, GateEnds
<1>9. ASSUME NEW j \in Job, NEW s \in Session, AskUnlock(j, s)
      PROVE  HeldTypeOK'
  <2>1. Value(s) \in Nat /\ counted' \subseteq Session /\ generation' \in [Session -> Nat]
    BY <1>9, CounterType DEF AskUnlock
  <2>2. unlocking' \in Unlocks
    BY <1>0, <1>9, <2>1 DEF AskUnlock, Unlocks
  <2> QED BY <1>0, <1>9, <1>q, <2>1, <2>2 DEF AskUnlock
<1>10. ASSUME NEW j \in Job, Grant(j) \/ UnlockFails(j)
       PROVE  HeldTypeOK'
  <2>0. Idle \in [session : Session \union {NoSession}, ticket : Nat, locked : BOOLEAN]
    BY DEF Idle
  <2>1. unlocking' \in Unlocks
    BY <1>0, <1>10, <2>0 DEF Grant, UnlockFails, Unlocks
  <2>2. unlocked' \subseteq Session
    BY <1>0, <1>10 DEF Grant, UnlockFails, Hanging
  <2> QED BY <1>0, <1>10, <1>q, <2>1, <2>2 DEF Grant, UnlockFails
<1>11. ASSUME NEW s \in Session, Lock(s)
       PROVE  HeldTypeOK'
  <2>1. Value(s) + 1 \in Nat
    BY CounterType
  <2>2. counted' \subseteq Session /\ generation' \in [Session -> Nat]
    BY <1>11, <2>1, CounterType DEF Lock
  <2>3. unlocking' \in Unlocks
    BY <1>0, <1>11 DEF Lock, MarkLocked, Unlocks
  <2> QED BY <1>0, <1>11, <1>q, <2>2, <2>3 DEF Lock
<1>12. CASE ForgetProject
  <2>1. unlocking' \in Unlocks
    BY <1>0, <1>12 DEF ForgetProject, MarkLocked, Unlocks
  <2>2. generation' \in [Session -> Nat]
    BY <1>0, <1>12 DEF ForgetProject
  <2> QED BY <1>0, <1>12, <1>q, <2>1, <2>2 DEF ForgetProject
<1>13. ASSUME NEW s \in Session, UnlockEnds(s)
       PROVE  HeldTypeOK'
  BY <1>0, <1>13, <1>q DEF UnlockEnds
<1>14. CASE UNCHANGED allVars
  BY <1>0, <1>14, <1>q DEF allVars
<1> QED BY <1>1, <1>2, <1>3, <1>4, <1>5, <1>6, <1>7, <1>8, <1>9, <1>10, <1>11, <1>12, <1>13, <1>14
        DEF HeldNext

-----------------------------------------------------------------------------
(* What hangs on a session. *)

\* A step that ends no session and touches nothing held keeps what hangs.
LEMMA HangingCalm ==
    ASSUME HInv, UNCHANGED <<conn, gate, unlocked, unlocking>>,
           \A s \in Session : told[s] \in Known => told'[s] \in Known,
           \A s \in Session : told[s] \in Alive => told'[s] \in Alive
    PROVE  Hanging'
  BY DEF HInv, Hanging, Attached, HeldTypeOK

\* What hangs on a session keeps hanging on one whose end was not answered.
LEMMA HangingStep ==
    ASSUME HInv, [HeldNext]_allVars
    PROVE  Hanging'
<1> USE DEF HInv, held, terminal, database, Known, Alive
<1>0. conn \in Conns /\ unlocking \in Unlocks
  BY DEF HeldTypeOK, Conns, Unlocks
<1>i. Idle.session = NoSession /\ NoSession \notin Session
  BY SessionsAssumption DEF Idle
<1>c. ASSUME NEW S, ConnsEnded(S)
      PROVE  \A k \in Conn :
                /\ conn'[k].at \in {"resolved", "open", "replaced"} => conn'[k] = conn[k]
                /\ Attached(k)' => conn[k].session \notin S
  BY <1>0, <1>c DEF ConnsEnded, Attached, Ended, Conns
<1>1. CASE Alone
  <2>1. Calm
    BY <1>1 DEF Alone, Calm, Handles
  <2> QED BY <1>1, <2>1, CalmKeeps, HangingCalm DEF Alone
<1>2. CASE RevokedHeard
  <2>1. ConnsEnded(Revoked) /\ gate' = gate \ Revoked /\ unlocked' = unlocked \ Revoked
        /\ unlocking' = unlocking /\ Synced
    BY <1>2 DEF RevokedHeard
  <2>2. CASE Head(queue) = Boot
    <3>1. loaded # "yes"
      BY <2>1, <2>2, SyncedKeeps
    <3>2. unlocked = {} /\ (\A k \in Conn : conn[k].at = "none") /\ \A j \in Job : unlocking[j] = Idle
      BY <3>1 DEF Quiet
    <3>3. \A k \in Conn : conn'[k].at \notin {"resolved", "open", "replaced"}
      BY <1>c, <2>1, <3>2
    <3> QED BY <2>1, <3>2, <3>3 DEF Hanging, Attached
  <2>3. CASE Head(queue) # Boot
    <3>1. Revoked = Leaving
      BY <2>3 DEF Revoked
    <3>2. \A s \in Session : /\ told[s] \in Known => told'[s] \in Known
                             /\ told[s] \in Alive /\ s \notin Leaving => told'[s] \in Alive
      BY <2>1, SyncedKeeps
    <3>3. \A k \in Conn : conn'[k].at = "resolved" =>
            conn'[k].session \in Session /\ told'[conn'[k].session] \in Known
      BY <1>c, <2>1, <3>2 DEF Hanging
    <3>4. ASSUME NEW k \in Conn, Attached(k)'
          PROVE  /\ conn'[k].session \in Session
                 /\ told'[conn'[k].session] \in Alive
                 /\ conn'[k].session \in gate'
      <4>1. Attached(k) /\ conn'[k] = conn[k] /\ conn[k].session \notin Leaving
        BY <1>c, <2>1, <3>1, <3>4 DEF Attached
      <4> QED BY <2>1, <3>1, <3>2, <4>1 DEF Hanging
    <3>5. \A s \in unlocked' : told'[s] \in Alive
      BY <2>1, <3>1, <3>2 DEF Hanging, HeldTypeOK
    <3>6. \A j \in Job : unlocking'[j] # Idle =>
            unlocking'[j].session \in Session /\ told'[unlocking'[j].session] \in Known
      BY <2>1, <3>2 DEF Hanging
    <3> QED BY <3>3, <3>4, <3>5, <3>6 DEF Hanging
  <2> QED BY <2>2, <2>3
<1>3. ASSUME NEW r \in Request, PasswordChanged(r)
      PROVE  Hanging'
  <2>1. Calm
    BY <1>3 DEF PasswordChanged, Calm, Handles
  <2>2. \A s \in Session : /\ told[s] \in Known => told'[s] \in Known
                           /\ told[s] \in Alive => told'[s] \in Alive
    BY <2>1, CalmKeeps
  <2>3. ConnsEnded(gate) /\ gate' = {} /\ UNCHANGED <<unlocked, unlocking>>
    BY <1>3 DEF PasswordChanged
  <2>4. \A k \in Conn : ~Attached(k)'
    BY <1>c, <2>3 DEF Hanging, Attached
  <2>5. \A k \in Conn : conn'[k].at = "resolved" =>
          conn'[k].session \in Session /\ told'[conn'[k].session] \in Known
    BY <1>c, <2>2, <2>3 DEF Hanging
  <2>6. \A s \in unlocked' : told'[s] \in Alive
    BY <2>2, <2>3 DEF Hanging, HeldTypeOK
  <2>7. \A j \in Job : unlocking'[j] # Idle =>
          unlocking'[j].session \in Session /\ told'[unlocking'[j].session] \in Known
    BY <2>2, <2>3 DEF Hanging
  <2> QED BY <2>4, <2>5, <2>6, <2>7 DEF Hanging
<1>4. CASE Died
  BY <1>4 DEF Died, Hanging, Away, Attached
<1>5. ASSUME NEW k \in Conn, NEW s \in Session, Handshake(k, s)
      PROVE  Hanging'
  <2>1. /\ conn' = [conn EXCEPT ![k] = [at |-> "resolved", session |-> s]]
        /\ told[s] \in Known /\ UNCHANGED <<told, gate, unlocked, unlocking>>
    BY <1>5 DEF Handshake, Valid, vars
  <2>2. conn'[k] = [at |-> "resolved", session |-> s] /\ \A i \in Conn : i # k => conn'[i] = conn[i]
    BY <1>0, <2>1 DEF Conns
  <2> QED BY <2>1, <2>2 DEF Hanging, Attached
<1>6. ASSUME NEW k \in Conn, OpenDisabled(k) \/ OpenBusy(k) \/ FrameRefused(k) \/ Closed(k)
      PROVE  Hanging'
  <2>1. UNCHANGED <<told, gate, unlocked, unlocking>> /\ \A i \in Conn : i # k => conn'[i] = conn[i]
    BY <1>0, <1>6 DEF OpenDisabled, OpenBusy, FrameRefused, Closed, vars, Conns
  <2>2. conn'[k].at \in {"none", "ended"}
    BY <1>0, <1>6 DEF OpenDisabled, OpenBusy, FrameRefused, Closed, Conns, Away, Ended
  <2> QED BY <2>1, <2>2 DEF Hanging, Attached
<1>7. ASSUME NEW k \in Conn, Open(k)
      PROVE  Hanging'
  <2>1. /\ UNCHANGED <<told, gate, unlocked, unlocking>> /\ conn[k].at = "resolved"
        /\ Active(conn[k].session) => conn[k].session \in gate
    BY <1>7 DEF Open, vars
  <2>2. ASSUME NEW i \in Conn, i # k
        PROVE  /\ conn'[i].session = conn[i].session
               /\ Attached(i)' <=> Attached(i)
               /\ conn'[i].at = "resolved" => conn[i].at = "resolved"
    BY <1>0, <1>7, <2>2 DEF Open, Conns, OwnerOpen, Attached
  <2>3. /\ conn[k].session \in Session /\ told[conn[k].session] \in Known
    BY <2>1 DEF Hanging
  <2>4. Attached(k)' => conn'[k].session = conn[k].session /\ Active(conn[k].session)
    BY <1>0, <1>7 DEF Open, Conns, Attached, Ended
  <2>5. conn'[k].at # "resolved"
    BY <1>0, <1>7 DEF Open, Conns, Ended
  <2>6. Active(conn[k].session) => told[conn[k].session] \in Alive
    BY <2>3, ActiveAlive
  <2> QED BY <2>1, <2>2, <2>3, <2>4, <2>5, <2>6 DEF Hanging
<1>8. ASSUME NEW s \in Session, Admit(s) \/ Enable(s)
      PROVE  Hanging'
  <2>1. UNCHANGED <<told, conn, unlocked, unlocking>> /\ gate \subseteq gate'
    BY <1>8 DEF Admit, Enable, vars
  <2> QED BY <2>1 DEF Hanging, Attached
<1>9. ASSUME NEW s \in Session, GateEnds(s)
      PROVE  Hanging'
  <2>1. UNCHANGED <<told, unlocked, unlocking>> /\ gate' = gate \ {s} /\ ConnsEnded({s})
    BY <1>9 DEF GateEnds, vars
  <2>2. ASSUME NEW k \in Conn, Attached(k)'
        PROVE  Attached(k) /\ conn'[k] = conn[k] /\ conn[k].session # s
    BY <1>c, <2>1, <2>2 DEF Attached
  <2> QED BY <1>c, <2>1, <2>2 DEF Hanging
<1>10. ASSUME NEW j \in Job, NEW s \in Session, AskUnlock(j, s)
       PROVE  Hanging'
  <2>1. UNCHANGED <<told, conn, gate, unlocked>> /\ told[s] \in Known
    BY <1>10 DEF AskUnlock, Admitted, vars
  <2>2. unlocking'[j].session = s /\ \A i \in Job : i # j => unlocking'[i] = unlocking[i]
    BY <1>0, <1>10 DEF AskUnlock, Unlocks
  <2> QED BY <2>1, <2>2 DEF Hanging, Attached
<1>11. ASSUME NEW j \in Job, Grant(j) \/ UnlockFails(j)
       PROVE  Hanging'
  <2>1. UNCHANGED <<told, conn, gate>> /\ unlocking[j] # Idle /\ unlocking' = [unlocking EXCEPT ![j] = Idle]
    BY <1>11 DEF Grant, UnlockFails, vars
  <2>2. \A i \in Job : unlocking'[i] # Idle => unlocking'[i] = unlocking[i]
    BY <1>0, <2>1 DEF Unlocks
  <2>3. unlocking[j].session \in Session /\ told[unlocking[j].session] \in Known
    BY <2>1 DEF Hanging
  <2>4. \A s \in unlocked' : s \in unlocked \/ (s = unlocking[j].session /\ Active(s))
    BY <1>11 DEF Grant, UnlockFails, MayGrant
  <2>5. \A s \in unlocked' : told[s] \in Alive
    BY <2>3, <2>4, ActiveAlive DEF Hanging
  <2> QED BY <2>1, <2>2, <2>5 DEF Hanging, Attached
<1>12. ASSUME NEW S, MarkLocked(S), S \subseteq Session, UNCHANGED <<told, conn, gate>>, unlocked' \subseteq unlocked
       PROVE  Hanging'
  <2>1. \A j \in Job : /\ unlocking'[j].session = unlocking[j].session
                       /\ unlocking[j] = Idle => unlocking'[j] = Idle
    BY <1>0, <1>i, <1>12 DEF MarkLocked, Unlocks
  <2> QED BY <1>12, <2>1 DEF Hanging, Attached
<1>13. ASSUME NEW s \in Session, Lock(s)
       PROVE  Hanging'
  BY <1>12, <1>13 DEF Lock, vars
<1>14. CASE ForgetProject
  BY <1>12, <1>14 DEF ForgetProject, vars
<1>15. ASSUME NEW s \in Session, UnlockEnds(s)
       PROVE  Hanging'
  BY <1>15 DEF UnlockEnds, vars, Hanging, Attached
<1>16. CASE UNCHANGED allVars
  BY <1>16 DEF allVars, vars, Hanging, Attached
<1> QED BY <1>1, <1>2, <1>3, <1>4, <1>5, <1>6, <1>7, <1>8, <1>9, <1>10, <1>11, <1>13, <1>14, <1>15, <1>16
        DEF HeldNext

-----------------------------------------------------------------------------
(* Before the list is loaded. *)

\* Nothing hangs on a session before the list is loaded.
LEMMA QuietStep ==
    ASSUME HInv, [HeldNext]_allVars
    PROVE  Quiet'
<1> USE DEF HInv, held, terminal, database
<1>0. conn \in Conns /\ unlocking \in Unlocks
  BY DEF HeldTypeOK, Conns, Unlocks
<1>i. Idle.session = NoSession /\ NoSession \notin Session
  BY SessionsAssumption DEF Idle
<1>n. ASSUME NEW S, ConnsEnded(S), \A k \in Conn : conn[k].at = "none"
      PROVE  \A k \in Conn : conn'[k].at = "none"
  BY <1>n DEF ConnsEnded, Attached
<1>m. ASSUME NEW S, MarkLocked(S), S \subseteq Session, \A j \in Job : unlocking[j] = Idle
      PROVE  \A j \in Job : unlocking'[j] = Idle
  BY <1>i, <1>m DEF MarkLocked
<1>1. CASE Alone
  <2>1. loaded = "yes" => loaded' = "yes"
    BY <1>1, CalmKeeps DEF Alone, Calm, Handles
  <2> QED BY <1>1, <2>1 DEF Alone, Quiet
<1>2. CASE RevokedHeard
  <2>1. loaded = "yes" => loaded' = "yes"
    BY <1>2, SyncedKeeps DEF RevokedHeard
  <2> QED BY <1>n, <1>2, <2>1 DEF RevokedHeard, Quiet
<1>3. ASSUME NEW r \in Request, PasswordChanged(r)
      PROVE  Quiet'
  <2>1. loaded = "yes" => loaded' = "yes"
    BY <1>3, CalmKeeps DEF PasswordChanged, Calm, Handles
  <2> QED BY <1>n, <1>3, <2>1 DEF PasswordChanged, Quiet
<1>4. CASE Died
  BY <1>4 DEF Died, Quiet, Away
<1>5. ASSUME NEW k \in Conn, NEW s \in Session, Handshake(k, s)
      PROVE  Quiet'
  BY <1>5 DEF Handshake, Quiet, vars, store
<1>6. ASSUME NEW k \in Conn,
             OpenDisabled(k) \/ OpenBusy(k) \/ Open(k) \/ FrameRefused(k) \/ Closed(k)
      PROVE  Quiet'
  <2>1. conn[k].at # "none" /\ UNCHANGED loaded
    BY <1>6 DEF OpenDisabled, OpenBusy, Open, FrameRefused, Closed, Attached, vars, store
  <2> QED BY <2>1 DEF Quiet
<1>7. ASSUME NEW s \in Session, Admit(s) \/ Enable(s) \/ GateEnds(s)
      PROVE  Quiet'
  <2>1. UNCHANGED <<loaded, unlocked, unlocking>>
    BY <1>7 DEF Admit, Enable, GateEnds, vars, store
  <2>2. (\A k \in Conn : conn[k].at = "none") => \A k \in Conn : conn'[k].at = "none"
    BY <1>n, <1>7 DEF Admit, Enable, GateEnds
  <2> QED BY <2>1, <2>2 DEF Quiet
<1>8. ASSUME NEW j \in Job, NEW s \in Session, AskUnlock(j, s)
      PROVE  Quiet'
  BY <1>8 DEF AskUnlock, Quiet, Admitted, vars, store
<1>9. ASSUME NEW j \in Job, Grant(j) \/ UnlockFails(j)
      PROVE  Quiet'
  <2>1. unlocking[j] # Idle /\ UNCHANGED loaded
    BY <1>9 DEF Grant, UnlockFails, vars, store
  <2> QED BY <2>1 DEF Quiet
<1>10. ASSUME NEW s \in Session, Lock(s)
       PROVE  Quiet'
  BY <1>10 DEF Lock, Quiet, Admitted, vars, store
<1>11. CASE ForgetProject
  <2>1. UNCHANGED <<loaded, conn>> /\ unlocked' = {} /\ MarkLocked(Session)
    BY <1>11 DEF ForgetProject, vars, store
  <2> QED BY <1>m, <2>1 DEF Quiet
<1>12. ASSUME NEW s \in Session, UnlockEnds(s)
       PROVE  Quiet'
  BY <1>12 DEF UnlockEnds, Quiet, vars, store
<1>13. CASE UNCHANGED allVars
  BY <1>13 DEF allVars, vars, store, Quiet
<1> QED BY <1>1, <1>2, <1>3, <1>4, <1>5, <1>6, <1>7, <1>8, <1>9, <1>10, <1>11, <1>12, <1>13
        DEF HeldNext

\* Requests past the hook keep being of sessions that were answered.
LEMMA AdmittedStep ==
    ASSUME HInv, [HeldNext]_allVars
    PROVE  Admitted'
<1> USE DEF HInv, held, terminal
<1>0. admitted \subseteq Session
  BY DEF HeldTypeOK
<1>1. ASSUME UNCHANGED admitted, loaded = "yes" => loaded' = "yes",
             \A s \in Session : told[s] \in Known => told'[s] \in Known
      PROVE  Admitted'
  BY <1>0, <1>1 DEF Admitted
<1>2. CASE Alone
  BY <1>1, <1>2, CalmKeeps DEF Alone, Calm, Handles
<1>3. CASE RevokedHeard
  BY <1>1, <1>3, SyncedKeeps DEF RevokedHeard
<1>4. ASSUME NEW r \in Request, PasswordChanged(r)
      PROVE  Admitted'
  BY <1>1, <1>4, CalmKeeps DEF PasswordChanged, Calm, Handles
<1>5. CASE Died
  BY <1>5 DEF Died, Admitted
<1>6. ASSUME NEW s \in Session, Admit(s)
      PROVE  Admitted'
  BY <1>6 DEF Admit, Admitted, Valid, Known, vars, store
<1>7. CASE ~Alone /\ ~RevokedHeard /\ ~(\E r \in Request : PasswordChanged(r)) /\ ~Died
           /\ ~(\E s \in Session : Admit(s))
  <2>1. UNCHANGED <<admitted, loaded, told>>
    BY <1>7 DEF HeldNext, Handshake, OpenDisabled, OpenBusy, Open, FrameRefused, Closed, Enable,
                GateEnds, AskUnlock, Grant, UnlockFails, Lock, ForgetProject, UnlockEnds,
                allVars, vars, store
  <2> QED BY <1>1, <2>1
<1> QED BY <1>2, <1>3, <1>4, <1>5, <1>6, <1>7

-----------------------------------------------------------------------------
(* The tickets. *)

\* Below the limit of `prune` the counters are an ordinary table.
LEMMA CountersPlain ==
    ASSUME FewCounters, HeldTypeOK, Tickets, NEW s \in Session
    PROVE  /\ Value(s) = generation[s]
           /\ \A n \in Nat : Counters(s, n) =>
                counted' = counted \union {s} /\ generation' = [generation EXCEPT ![s] = n]
<1>1. Kept = counted
  BY DEF FewCounters, HeldTypeOK, Kept
<1>2. \A t \in Session : Value(t) = generation[t]
  BY <1>1 DEF Value, Tickets
<1> QED BY <1>1, <1>2 DEF Counters, HeldTypeOK

\* Raising counters, and marking the requests they overtake, keeps the tickets.
LEMMA RaisedTickets ==
    ASSUME HInv, Tickets, NEW S \in SUBSET Session, MarkLocked(S), UNCHANGED told,
           counted \subseteq counted', generation' \in [Session -> Nat],
           \A s \in Session : s \notin counted' => generation'[s] = 0,
           \A s \in Session : generation[s] <= generation'[s],
           \A s \in S : s \in counted => generation[s] < generation'[s]
    PROVE  Tickets'
<1>0. /\ unlocking \in Unlocks /\ generation \in [Session -> Nat]
      /\ Idle.session = NoSession /\ Idle.locked = FALSE /\ NoSession \notin Session
  BY SessionsAssumption DEF HInv, HeldTypeOK, Unlocks, Idle
<1>1. ASSUME NEW j \in Job
      PROVE  /\ unlocking'[j].session = unlocking[j].session
             /\ unlocking'[j].ticket = unlocking[j].ticket
             /\ unlocking'[j].locked <=> unlocking[j].locked \/ unlocking[j].session \in S
             /\ unlocking'[j] # Idle <=> unlocking[j] # Idle
  <2>1. CASE unlocking[j].session \in S
    BY <1>0, <2>1 DEF MarkLocked, Unlocks
  <2>2. CASE unlocking[j].session \notin S
    BY <1>0, <2>2 DEF MarkLocked, Unlocks
  <2> QED BY <2>1, <2>2
<1>2. ASSUME NEW j \in Job, unlocking'[j] # Idle
      PROVE  /\ \/ told[unlocking[j].session] = "off"
                \/ /\ unlocking[j].session \in counted'
                   /\ unlocking[j].ticket <= generation'[unlocking[j].session]
             /\ unlocking'[j].locked =>
                  \/ told[unlocking[j].session] = "off"
                  \/ unlocking[j].ticket < generation'[unlocking[j].session]
  <2>1. unlocking[j] # Idle /\ unlocking[j].session \in Session /\ unlocking[j].ticket \in Nat
    BY <1>0, <1>1, <1>2 DEF HInv, Hanging, Unlocks
  <2>2. generation'[unlocking[j].session] >= generation[unlocking[j].session]
        /\ generation[unlocking[j].session] \in Nat
    BY <1>0, <2>1
  <2>3. CASE told[unlocking[j].session] = "off"
    BY <2>3
  <2>4. CASE told[unlocking[j].session] # "off"
    <3>1. unlocking[j].session \in counted /\ unlocking[j].ticket <= generation[unlocking[j].session]
      BY <2>1, <2>4 DEF Tickets
    <3>2. unlocking[j].locked => unlocking[j].ticket < generation[unlocking[j].session]
      BY <2>1, <2>4 DEF Tickets
    <3>3. unlocking[j].session \in S =>
            generation[unlocking[j].session] < generation'[unlocking[j].session]
      BY <3>1
    <3> QED BY <1>1, <2>1, <2>2, <3>1, <3>2, <3>3
  <2> QED BY <2>3, <2>4
<1>3. \A j \in Job : unlocking'[j].locked => unlocking'[j] # Idle
  <2>1. ASSUME NEW j \in Job, unlocking'[j].locked
        PROVE  unlocking'[j] # Idle
    <3>1. CASE unlocking[j].locked
      BY <1>1, <3>1 DEF Tickets
    <3>2. CASE unlocking[j].session \in S
      BY <1>0, <1>1, <3>2
    <3> QED BY <1>1, <2>1, <3>1, <3>2
  <2> QED BY <2>1
<1> QED BY <1>1, <1>2, <1>3 DEF Tickets

\* The tickets keep saying which requests were overtaken.
LEMMA TicketsStep ==
    ASSUME FewCounters, HInv, Tickets, [HeldNext]_allVars
    PROVE  Tickets'
<1> USE DEF HInv, held, terminal, database
<1>0. /\ unlocking \in Unlocks /\ generation \in [Session -> Nat] /\ counted \subseteq Session
  BY DEF HeldTypeOK, Unlocks
<1>1. ASSUME UNCHANGED database, \A s \in Session : told[s] = "off" => told'[s] = "off"
      PROVE  Tickets'
  BY <1>1 DEF Tickets, Hanging
<1>2. CASE Alone
  BY <1>1, <1>2, CalmKeeps DEF Alone, Calm, Handles
<1>3. CASE RevokedHeard
  <2>1. /\ counted' = counted \ Revoked /\ unlocking' = unlocking /\ Synced
        /\ \A s \in Session : generation'[s] = IF s \in Revoked THEN 0 ELSE generation[s]
    BY <1>3 DEF RevokedHeard
  <2>2. \A s \in Session : told[s] = "off" \/ s \in Revoked => told'[s] = "off"
    BY <2>1, SyncedKeeps DEF Revoked
  <2>3. \A j \in Job : unlocking[j] # Idle => unlocking[j].session \in Session
    BY DEF Hanging
  <2> QED BY <2>1, <2>2, <2>3 DEF Tickets
<1>4. ASSUME NEW r \in Request, PasswordChanged(r)
      PROVE  Tickets'
  BY <1>1, <1>4, CalmKeeps DEF PasswordChanged, Calm, Handles
<1>5. CASE Died
  BY <1>5 DEF Died, Tickets, Idle
<1>6. ASSUME NEW k \in Conn,
             \/ \E s \in Session : Handshake(k, s)
             \/ OpenDisabled(k) \/ OpenBusy(k) \/ Open(k) \/ FrameRefused(k) \/ Closed(k)
      PROVE  Tickets'
  BY <1>1, <1>6 DEF Handshake, OpenDisabled, OpenBusy, Open, FrameRefused, Closed, vars
<1>7. ASSUME NEW s \in Session, Admit(s) \/ Enable(s) \/ GateEnds(s)
      PROVE  Tickets'
  BY <1>1, <1>7 DEF Admit, Enable, GateEnds, vars
<1>8. ASSUME NEW j \in Job, NEW s \in Session, AskUnlock(j, s)
      PROVE  Tickets'
  <2>1. counted' = counted \union {s} /\ generation' = [generation EXCEPT ![s] = generation[s]]
    BY <1>8, CountersPlain, CounterType DEF AskUnlock
  <2>2. generation' = generation
    BY <1>0, <2>1
  <2>3. /\ unlocking'[j] = [session |-> s, ticket |-> generation[s], locked |-> FALSE]
        /\ \A i \in Job : i # j => unlocking'[i] = unlocking[i]
    BY <1>0, <1>8, CountersPlain DEF AskUnlock, Unlocks
  <2>4. UNCHANGED told /\ generation[s] \in Nat
    BY <1>0, <1>8 DEF AskUnlock, vars
  <2> QED BY <2>1, <2>2, <2>3, <2>4 DEF Tickets
<1>9. ASSUME NEW j \in Job, Grant(j) \/ UnlockFails(j)
      PROVE  Tickets'
  <2>1. UNCHANGED <<told, counted, generation>>
    BY <1>9 DEF Grant, UnlockFails, vars
  <2>2. /\ unlocking'[j] = Idle
        /\ \A i \in Job : i # j => unlocking'[i] = unlocking[i]
    BY <1>0, <1>9 DEF Grant, UnlockFails, Unlocks
  <2>3. Idle.locked = FALSE
    BY DEF Idle
  <2>4. \A i \in Job : unlocking'[i] # Idle \/ unlocking'[i].locked => unlocking'[i] = unlocking[i]
    BY <2>2, <2>3
  <2> QED BY <2>1, <2>4 DEF Tickets
<1>10. ASSUME NEW s \in Session, Lock(s)
       PROVE  Tickets'
  <2>1. generation[s] + 1 \in Nat /\ Value(s) = generation[s]
    BY <1>0, CountersPlain
  <2>2. counted' = counted \union {s} /\ generation' = [generation EXCEPT ![s] = generation[s] + 1]
    BY <1>10, <2>1, CountersPlain DEF Lock
  <2>3. generation' \in [Session -> Nat]
    BY <1>0, <2>1, <2>2
  <2>4. \A t \in Session : generation[t] <= generation'[t]
    BY <1>0, <2>2
  <2>5. generation[s] < generation'[s]
    BY <1>0, <2>2
  <2>6. \A t \in Session : t \notin counted' => generation'[t] = 0
    BY <1>0, <2>2 DEF Tickets
  <2>7. MarkLocked({s}) /\ UNCHANGED told
    BY <1>10 DEF Lock, vars
  <2> QED BY <2>2, <2>3, <2>4, <2>5, <2>6, <2>7, RaisedTickets
<1>11. CASE ForgetProject
  <2>1. /\ generation' = [s \in Session |-> IF s \in counted THEN generation[s] + 1 ELSE generation[s]]
        /\ MarkLocked(Session) /\ UNCHANGED <<counted, told>>
    BY <1>11 DEF ForgetProject, vars
  <2>2. generation' \in [Session -> Nat]
    BY <1>0, <2>1
  <2>3. \A t \in Session : generation[t] <= generation'[t]
    BY <1>0, <2>1
  <2>4. \A t \in Session : t \in counted => generation[t] < generation'[t]
    BY <1>0, <2>1
  <2>5. \A t \in Session : t \notin counted' => generation'[t] = 0
    BY <1>0, <2>1 DEF Tickets
  <2> QED BY <2>1, <2>2, <2>3, <2>4, <2>5, RaisedTickets
<1>12. ASSUME NEW s \in Session, UnlockEnds(s)
       PROVE  Tickets'
  BY <1>12 DEF UnlockEnds, Tickets, vars
<1>13. CASE UNCHANGED allVars
  BY <1>1, <1>13 DEF allVars, vars
<1> QED BY <1>2, <1>3, <1>4, <1>5, <1>6, <1>7, <1>8, <1>9, <1>10, <1>11, <1>12, <1>13 DEF HeldNext

\* A request that a lock overtook grants nothing.
LEMMA OvertakenGrant ==
    ASSUME HInv, Tickets, [HeldNext]_allVars,
           NEW j \in Job, unlocking[j].locked, unlocking'[j] = Idle
    PROVE  unlocked' \subseteq unlocked
<1> USE DEF HInv, held, database
<1>0. unlocking \in Unlocks /\ generation \in [Session -> Nat]
  BY DEF HeldTypeOK, Unlocks
<1>1. unlocking[j] # Idle /\ unlocking[j].session \in Session
  BY DEF Tickets, Hanging
<1>2. ASSUME NEW i \in Job, Grant(i)
      PROVE  unlocked' \subseteq unlocked
  <2>1. i = j
    BY <1>0, <1>1, <1>2 DEF Grant, Unlocks
  <2>2. CASE told[unlocking[j].session] = "off"
    <3>1. ~Active(unlocking[j].session)
      BY <1>1, <2>2 DEF IInv, Answers, Active
    <3> QED BY <1>2, <2>1, <3>1 DEF Grant, MayGrant
  <2>3. CASE unlocking[j].ticket < generation[unlocking[j].session]
    <3>1. unlocking[j].ticket \in Nat /\ generation[unlocking[j].session] \in Nat
      BY <1>0, <1>1 DEF Unlocks
    <3> QED BY <1>2, <2>1, <2>3, <3>1 DEF Grant, MayGrant
  <2> QED BY <2>2, <2>3 DEF Tickets
<1>3. ASSUME ~(\E i \in Job : Grant(i))
      PROVE  unlocked' \subseteq unlocked
  BY <1>3 DEF HeldNext, Alone, RevokedHeard, PasswordChanged, Died, Handshake, OpenDisabled,
              OpenBusy, Open, FrameRefused, Closed, Admit, Enable, GateEnds, AskUnlock,
              UnlockFails, Lock, ForgetProject, UnlockEnds, allVars
<1> QED BY <1>2, <1>3

-----------------------------------------------------------------------------
(* Theorems. *)

\* The invariant holds at first.
LEMMA HeldStart == HeldInit => HInv /\ Tickets
<1> SUFFICES ASSUME HeldInit PROVE HInv /\ Tickets
  OBVIOUS
<1>1. conn \in Conns /\ unlocking \in Unlocks
  BY DEF HeldInit, Conns, Unlocks, Away, Idle
<1>2. HeldTypeOK
  BY <1>1 DEF HeldInit, HeldTypeOK, Conns, Unlocks
<1>3. Hanging /\ Quiet /\ Admitted /\ Tickets
  BY DEF HeldInit, Hanging, Quiet, Admitted, Tickets, Attached, Away, Idle
<1>4. IInv
  BY Start DEF HeldInit
<1> QED BY <1>2, <1>3, <1>4 DEF HInv

\* Every step keeps the invariant.
LEMMA HeldStep == HInv /\ [HeldNext]_allVars => HInv'
<1> SUFFICES ASSUME HInv, [HeldNext]_allVars PROVE HInv'
  OBVIOUS
<1>1. IInv'
  BY StoreStep, Keep DEF HInv
<1> QED BY <1>1, HeldTypeStep, HangingStep, QuietStep, AdmittedStep DEF HInv

\* The invariant of the composition.
LEMMA HeldInvariant == HeldSpec => []HInv
  BY HeldStart, HeldStep, PTL DEF HeldSpec

\* The composition only takes the steps of the store: what is proved of the
\* store alone holds with everything that hangs on its sessions.
THEOREM StoreImplemented == HeldSpec => Spec
<1>1. HeldInit => Init
  BY DEF HeldInit
<1> QED BY <1>1, StoreStep, PTL DEF HeldSpec, Spec

\* Every value keeps its type, for every number of WebSockets and requests.
THEOREM HeldTypeCorrect == HeldSpec => []HeldTypeOK
<1>1. HInv => HeldTypeOK
  BY DEF HInv
<1> QED BY <1>1, HeldInvariant, PTL

\* No WebSocket stays attached for a session whose end was answered, nor for
\* one the terminal is not enabled for.
THEOREM TerminalEnds == HeldSpec => []NoOrphanTerminal
<1>1. HInv => NoOrphanTerminal
  BY DEF HInv, Hanging, NoOrphanTerminal, Alive
<1> QED BY <1>1, HeldInvariant, PTL

\* No database stays unlocked for a session whose end was answered.
THEOREM UnlockEndsToo == HeldSpec => []NoOrphanUnlock
<1>1. HInv => NoOrphanUnlock
  BY DEF HInv, Hanging, NoOrphanUnlock, Alive
<1> QED BY <1>1, HeldInvariant, PTL

\* Below the 256 counters of `prune`, a lock is never undone by an unlock asked
\* before it.
THEOREM LockIsKept ==
    ASSUME FewCounters
    PROVE  HeldSpec => LockWins
<1>1. HInv /\ Tickets /\ [HeldNext]_allVars => Tickets'
  BY TicketsStep
<1>2. HInv /\ Tickets /\ [HeldNext]_allVars
        => [\A j \in Job : unlocking[j].locked /\ unlocking'[j] = Idle
              => unlocked' \subseteq unlocked]_allVars
  BY OvertakenGrant
<1> QED BY <1>1, <1>2, HeldStart, HeldStep, PTL DEF HeldSpec, LockWins
=============================================================================
