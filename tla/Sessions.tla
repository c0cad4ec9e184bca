------------------------------ MODULE Sessions ------------------------------
(***************************************************************************)
\* The panel's login sessions: apps/server/src/services/session-store.ts,
\* the steps of writeFileAtomic (json-file.ts) that put sessions.json in
\* its place, and the requests of routes/auth.ts, routes/setup-restart.ts
\* and plugins/auth.ts that change the list.
\* 
\* Every change waits in one queue (`persist`), is applied in memory when
\* its turn comes, written, and taken back if the write fails.  The
\* process may die between any two steps, and the power may be cut.
(***************************************************************************)
EXTENDS Naturals, Sequences, FiniteSets

CONSTANTS
    Session,     \* session identifiers (random, never used twice)
    UserOf,      \* the account of each session
    MaxExpired,  \* how many sessions may pass their time (a bound)
    Request,     \* HTTP requests in progress at the same time
    Boot,        \* the queue's name for the change `load` makes
    NoSession,   \* no session
    Faults       \* which faults happen: "write", "nosync", "crash", "power"

ASSUME SessionsAssumption ==
    /\ Boot \notin Request
    /\ NoSession \notin Session
    /\ DOMAIN UserOf = Session

VARIABLES
    sessions,    \* `this.sessions`
    loaded,      \* `this.loading`: "no", "drop" (in progress), "yes"
    queue,       \* the changes handed to `persist`, in the order of the calls
    saving,      \* the head's save: "idle", "temp" (temporary written), "renamed"
    before,      \* `antes`, the list to go back to while a save runs
    disk,        \* what sessions.json holds
    durable,     \* what it may hold after a power cut
    refused,     \* the file system refused to sync the directory since it last did
    expired,     \* the sessions past `expiresAt`
    call,        \* what each request is doing
    told         \* what people were told of each session

store == <<sessions, loaded, queue, saving, before>>
files == <<disk, durable, refused>>
vars == <<store, files, expired, call, told>>

Kinds == {"login", "logout", "expired", "resolved", "others", "restart"}

Free == [kind |-> "none", session |-> NoSession]

-----------------------------------------------------------------------------
\* The list and the queue.

\* `isActive`: in the list in memory and not past its time.
Active(s) == s \in sessions /\ s \notin expired

\* A request with this session's cookie passes `resolve`: the cookie only
\* leaves the panel with the answer of the login.
Valid(s) == told[s] \in {"on", "off", "unsure"} /\ Active(s)

\* The sessions a change of the queue takes out of the list.
Goes(t) ==
    IF t = Boot THEN expired
    ELSE {s \in Session :
            \/ call[t].kind \in {"logout", "expired"} /\ s = call[t].session
            \/ /\ call[t].kind = "others"
               /\ s # call[t].session
               /\ UserOf[s] = UserOf[call[t].session]
            \/ call[t].kind = "restart"}

\* The session a change puts in the list.
Comes(t) ==
    IF t # Boot /\ call[t].kind = "login" THEN {call[t].session} ELSE {}

\* The list after the change: `change()` only runs in its turn.
After(t) == (sessions \ Goes(t)) \union Comes(t)

\* What the running save adds to the file, and what it takes from it.
Arriving == sessions \ before
Leaving == before \ sessions

\* The caller of the head gets its answer and the queue goes on.
Answer ==
    /\ queue' = Tail(queue)
    /\ saving' = "idle"
    /\ before' = {}
    /\ IF Head(queue) = Boot
         THEN loaded' = "yes" /\ call' = call
         ELSE loaded' = loaded /\ call' = [call EXCEPT ![Head(queue)] = Free]

-----------------------------------------------------------------------------
\* Requests.

Queue(r, kind, s) ==
    /\ loaded = "yes"
    /\ call[r] = Free
    /\ call' = [call EXCEPT ![r] = [kind |-> kind, session |-> s]]
    /\ queue' = Append(queue, r)
    /\ UNCHANGED <<sessions, loaded, saving, before, files, expired>>

\* A login that passed every check: a new random identifier for `create`.
Login(r, s) ==
    /\ told[s] = "unborn"
    /\ Queue(r, "login", s)
    /\ told' = [told EXCEPT ![s] = "asked"]

\* `resolve` meets a session past its time: refused, and taken off the list.
MeetExpired(r, s) ==
    /\ s \in sessions \intersect expired
    /\ told[s] \in {"on", "off", "unsure"}
    /\ Queue(r, "expired", s)
    /\ UNCHANGED told

\* The hook resolves the cookie.  The handler runs later, after reading the
\* account and checking passwords and codes: the session may be gone by then.
Resolve(r, s) ==
    /\ loaded = "yes"
    /\ call[r] = Free
    /\ Valid(s)
    /\ call' = [call EXCEPT ![r] = [kind |-> "resolved", session |-> s]]
    /\ UNCHANGED <<store, files, expired, told>>

\* The handler changes nothing here: a check failed, users.json could not be
\* written, or the route has nothing to do with the list.
Done(r) ==
    /\ call[r].kind = "resolved"
    /\ call' = [call EXCEPT ![r] = Free]
    /\ UNCHANGED <<store, files, expired, told>>

\* The handler asks for a change of the list.
Change(r, kind) ==
    /\ call[r].kind = "resolved"
    /\ call' = [call EXCEPT ![r] = [kind |-> kind, session |-> call[r].session]]
    /\ queue' = Append(queue, r)
    /\ UNCHANGED <<sessions, loaded, saving, before, files, expired, told>>

\* The logout, and the routes that find the session's account gone.
Logout(r) == Change(r, "logout")

\* "Start over" ends every session.
Restart(r) == Change(r, "restart")

\* Mutant: hands the session to the queue instead of the change.
PasswordWrittenSession(r) ==
    /\ call[r].kind = "resolved"
    /\ call' = [call EXCEPT ![r] = [kind |-> "others", session |-> call[r].session]]
    /\ queue' = Append(queue, call[r].session)
    /\ UNCHANGED <<sessions, loaded, saving, before, files, expired, told>>

\* The new password is on disk: the account's other sessions are to end.
PasswordWritten(r) == Change(r, "others")

-----------------------------------------------------------------------------
\* `load` and `persist`.

\* The first use reads the file and queues the removal of the expired ones.
Load ==
    /\ loaded = "no"
    /\ sessions' = disk
    /\ loaded' = "drop"
    /\ queue' = <<Boot>>
    /\ UNCHANGED <<saving, before, files, expired, call, told>>

\* The head's turn: its change is applied, and saved if it changed anything.
Turn ==
    /\ saving = "idle"
    /\ queue # <<>>
    /\ IF After(Head(queue)) = sessions
         THEN Answer /\ UNCHANGED sessions
         ELSE /\ sessions' = After(Head(queue))
              /\ before' = sessions
              /\ saving' = "temp"
              /\ UNCHANGED <<loaded, queue, call>>
    /\ UNCHANGED <<files, expired, told>>

\* The temporary takes the file's place.
Rename ==
    /\ saving = "temp"
    /\ disk' = sessions
    /\ durable' = durable \union {sessions}
    /\ saving' = "renamed"
    /\ UNCHANGED <<sessions, loaded, queue, before, refused, expired, call, told>>

\* Mutant: a failed write does not take the change back.
SaveFailsKeeps ==
    /\ "write" \in Faults
    /\ saving = "temp"
    /\ told' = [s \in Session |-> IF s \in Arriving THEN "denied" ELSE told[s]]
    /\ Answer
    /\ UNCHANGED <<sessions, files, expired>>

\* Mutant: the change whose write failed is never settled.
SaveFailsJams ==
    /\ "write" \in Faults
    /\ saving = "temp"
    /\ sessions' = before
    /\ saving' = "failed"
    /\ UNCHANGED <<loaded, queue, before, files, expired, call, told>>

\* The temporary could not be written or renamed: the file is what it was, the
\* list goes back to what it was and the caller gets storage_write_failed (the
\* load and `resolve` ignore it).
SaveFails ==
    /\ "write" \in Faults
    /\ saving = "temp"
    /\ sessions' = before
    /\ told' = [s \in Session |-> IF s \in Arriving THEN "denied" ELSE told[s]]
    /\ Answer
    /\ UNCHANGED <<files, expired>>

\* Mutant: the caller does not wait for the write.
SyncedEarly ==
    /\ saving # "idle"
    /\ refused' \in {b \in BOOLEAN : b => "nosync" \in Faults}
    /\ durable' = {disk}
    /\ told' = [s \in Session |-> IF s \in Arriving THEN "on"
                                  ELSE IF s \in Leaving THEN "off" ELSE told[s]]
    /\ Answer
    /\ UNCHANGED <<sessions, disk, expired>>

\* Mutant: a refused sync counts as a failed write.
SyncedStrict ==
    /\ saving = "renamed"
    /\ refused' \in {b \in BOOLEAN : b => "nosync" \in Faults}
    /\ durable' = {disk}
    /\ sessions' = IF refused' THEN before ELSE sessions
    /\ told' = [s \in Session |-> IF s \in Arriving THEN IF refused' THEN "denied" ELSE "on"
                                  ELSE IF s \in Leaving /\ ~refused' THEN "off" ELSE told[s]]
    /\ Answer
    /\ UNCHANGED <<disk, expired>>

\* The directory is synced, or refuses to be, which is ignored: the change is
\* kept and the caller told so.
Synced ==
    /\ saving = "renamed"
    /\ refused' \in {b \in BOOLEAN : b => "nosync" \in Faults}
    /\ durable' = {disk}
    /\ told' = [s \in Session |-> IF s \in Arriving THEN "on"
                                  ELSE IF s \in Leaving THEN "off" ELSE told[s]]
    /\ Answer
    /\ UNCHANGED <<sessions, disk, expired>>

-----------------------------------------------------------------------------
\* The rest of the world.

Expire(s) ==
    /\ Cardinality(expired) < MaxExpired
    /\ told[s] # "unborn"
    /\ s \notin expired
    /\ expired' = expired \union {s}
    /\ UNCHANGED <<store, files, call, told>>

\* What memory held is gone; a caller without an answer knows nothing.
MemoryLost ==
    /\ sessions' = {}
    /\ loaded' = "no"
    /\ queue' = <<>>
    /\ saving' = "idle"
    /\ before' = {}
    /\ call' = [r \in Request |-> Free]
    /\ told' = [s \in Session |->
                  IF told[s] = "asked" THEN "lost"
                  ELSE IF saving = "renamed" /\ s \in Leaving THEN "unsure"
                  ELSE told[s]]
    /\ UNCHANGED expired

Crash == "crash" \in Faults /\ MemoryLost /\ UNCHANGED files

\* A power cut may also take back the renames that no sync followed.  While the
\* file system refuses to sync the directory the code promises nothing.
PowerCut ==
    /\ "power" \in Faults
    /\ ~refused
    /\ MemoryLost
    /\ disk' \in durable
    /\ durable' = {disk'}
    /\ UNCHANGED refused

Asks(r, s) ==
    \/ Login(r, s)
    \/ MeetExpired(r, s)
    \/ Resolve(r, s)

Handles(r) ==
    \/ Done(r)
    \/ Logout(r)
    \/ Restart(r)
    \/ PasswordWritten(r)

Init ==
    /\ disk \in SUBSET Session
    /\ durable = {disk}
    /\ refused = FALSE
    /\ sessions = {}
    /\ loaded = "no"
    /\ queue = <<>>
    /\ saving = "idle"
    /\ before = {}
    /\ expired = {}
    /\ call = [r \in Request |-> Free]
    /\ told = [s \in Session |-> IF s \in disk THEN "on" ELSE "unborn"]

Next ==
    \/ \E r \in Request, s \in Session : Asks(r, s)
    \/ \E r \in Request : Handles(r)
    \/ Load \/ Turn \/ Rename \/ SaveFails \/ Synced
    \/ \E s \in Session : Expire(s)
    \/ Crash \/ PowerCut

Spec == Init /\ [][Next]_vars

\* The event loop runs the queue, and every call to the file system returns.
FairSpec ==
    /\ Spec
    /\ WF_vars(Turn)
    /\ WF_vars(Rename \/ SaveFails)
    /\ WF_vars(Synced)

-----------------------------------------------------------------------------
\* Properties.

\* The variables keep their types: what the store, the file and the requests
\* of session-store.ts may hold.
TypeOK ==
    /\ sessions \subseteq Session
    /\ loaded \in {"no", "drop", "yes"}
    /\ queue \in Seq(Request \union {Boot})
    /\ saving \in {"idle", "temp", "renamed"}
    /\ before \subseteq Session
    /\ disk \subseteq Session
    /\ durable \subseteq SUBSET Session
    /\ refused \in BOOLEAN
    /\ expired \subseteq Session
    /\ call \in [Request -> [kind : Kinds \union {"none"},
                             session : Session \union {NoSession}]]
    /\ told \in [Session -> {"unborn", "asked", "on", "off", "denied", "unsure", "lost"}]

\* sessions.json never contradicts an answer: a login that was answered is in
\* the file unless its end is being written; a session whose end was answered,
\* a login that was refused and one never asked are not in it -- through
\* concurrent requests, failed writes, crashes and power cuts.  ("Uma sessao
\* dada como encerrada nao pode voltar a valer depois de um reinicio",
\* session-store.ts:11-13.)
RecordAgrees ==
    \A s \in Session :
        /\ told[s] = "on" => s \in disk \/ (saving = "renamed" /\ s \in Leaving)
        /\ told[s] \in {"off", "denied", "unborn"} => s \notin disk

\* Between two saves the list in memory is the one on disk: what a failed
\* write changed is taken back, and nothing else with it (session-store.ts:212).
MemoryIsRecord == loaded # "no" /\ saving = "idle" => sessions = disk

\* A session whose end was answered, or a login that was refused, is not valid
\* for any request, not even while another change is being written.
EndedForGood == \A s \in Session : told[s] \in {"off", "denied"} => s \notin sessions

\* Every change handed to the queue is answered (unless the process dies): a
\* failed write does not stop the ones behind it.
Waits(r) == \E i \in DOMAIN queue : queue[i] = r
Answered == \A r \in Request : Waits(r) ~> ~Waits(r)
=============================================================================
