--------------------------- MODULE SessionsProofs ---------------------------
(***************************************************************************)
(* Proofs about Sessions: for any number of sessions, accounts and         *)
(* requests, with every fault allowed, the file never contradicts an        *)
(* answer, the list in memory is the one on disk between two saves, and a   *)
(* session whose end was answered stays ended.                              *)
(***************************************************************************)
EXTENDS Sessions, TLAPS

-----------------------------------------------------------------------------
(* The inductive invariant. *)

\* Where the list in memory, the file and what a power cut may leave agree.
Copies ==
    /\ disk \in durable
    /\ saving = "idle" => before = {}
    /\ loaded = "no" => sessions = {} /\ saving = "idle" /\ queue = <<>>
    /\ MemoryIsRecord
    /\ saving = "temp" => disk = before
    /\ saving = "renamed" => disk = sessions

\* What each answer says of the list, the file and its older copies.
Answers ==
    \A s \in Session :
        /\ told[s] = "on" =>
              \A d \in durable : s \in d \/ (saving = "renamed" /\ d = disk /\ s \in Leaving)
        /\ told[s] \in {"off", "denied", "unborn"} =>
              s \notin sessions /\ s \notin before /\ \A d \in durable : s \notin d
        /\ told[s] = "asked" =>
              /\ s \notin before
              /\ s \in sessions => saving # "idle"
              /\ \A d \in durable : s \in d => saving = "renamed" /\ d = disk

\* A login's session belongs to that login alone, and only it can be arriving.
Logins ==
    /\ \A r \in Request : call[r].kind = "login" =>
          call[r].session \in Session /\ told[call[r].session] = "asked"
    /\ \A q, r \in Request :
          call[q].kind = "login" /\ call[r].kind = "login" /\ call[q].session = call[r].session
              => q = r
    /\ saving # "idle" => queue # <<>> /\ Arriving \subseteq Comes(Head(queue))

\* Before the list is loaded there is no request, and `load` comes first.
Loading ==
    /\ loaded # "yes" => \A r \in Request : call[r].kind = "none"
    /\ loaded = "drop" => queue = <<Boot>>
    /\ loaded = "yes" => \A i \in 1 .. Len(queue) : queue[i] # Boot

IInv == TypeOK /\ Copies /\ Answers /\ Logins /\ Loading

-----------------------------------------------------------------------------
(* Types. *)

\* The sessions a change takes out and puts in are sessions.
LEMMA ChangeType ==
    ASSUME TypeOK, queue # <<>>
    PROVE  /\ Head(queue) \in Request \union {Boot}
           /\ Goes(Head(queue)) \subseteq Session
           /\ Comes(Head(queue)) \subseteq Session \union {NoSession}
           /\ Tail(queue) \in Seq(Request \union {Boot})
<1>1. /\ Head(queue) \in Request \union {Boot}
      /\ Tail(queue) \in Seq(Request \union {Boot})
  BY DEF TypeOK
<1> QED BY <1>1, SessionsAssumption DEF TypeOK, Goes, Comes

\* An answer keeps the types of the queue and of the requests.
LEMMA AnswerType ==
    ASSUME TypeOK, queue # <<>>, Answer
    PROVE  /\ queue' \in Seq(Request \union {Boot})
           /\ saving' = "idle" /\ before' = {}
           /\ loaded' \in {"no", "drop", "yes"}
           /\ call' \in [Request -> [kind : Kinds \union {"none"},
                                     session : Session \union {NoSession}]]
  BY ChangeType DEF TypeOK, Answer, Free

\* The requests' records.
Calls == [Request -> [kind : Kinds \union {"none"}, session : Session \union {NoSession}]]

\* A new request keeps the type of the records.
LEMMA NewCall ==
    ASSUME call \in Calls, NEW r \in Request, NEW k \in Kinds, NEW s \in Session,
           call' = [call EXCEPT ![r] = [kind |-> k, session |-> s]]
    PROVE  call' \in Calls
<1>1. [kind |-> k, session |-> s] \in [kind : Kinds \union {"none"}, session : Session \union {NoSession}]
  OBVIOUS
<1> QED BY <1>1 DEF Calls

\* What asking does to the variables.
LEMMA AskFacts ==
    ASSUME TypeOK, NEW r \in Request, NEW s \in Session, Asks(r, s)
    PROVE  /\ call' \in Calls
           /\ call[r] = Free /\ loaded = "yes"
           /\ \E k \in Kinds : call' = [call EXCEPT ![r] = [kind |-> k, session |-> s]]
           /\ queue' \in {queue, Append(queue, r)}
           /\ UNCHANGED <<sessions, loaded, saving, before, disk, durable, refused, expired>>
           /\ \/ told' = told /\ call'[r].kind # "login"
              \/ /\ told[s] = "unborn" /\ told' = [told EXCEPT ![s] = "asked"]
                 /\ call'[r].kind = "login"
<1>0. call \in Calls
  BY DEF TypeOK, Calls
<1>1. CASE Login(r, s)
  <2>1. call' = [call EXCEPT ![r] = [kind |-> "login", session |-> s]]
    BY <1>1 DEF Login, Queue
  <2>2. call' \in Calls /\ call'[r].kind = "login"
    BY <2>1, <1>0, NewCall DEF Kinds, Calls
  <2> QED BY <2>1, <2>2, <1>1 DEF Login, Queue, files, Kinds
<1>2. CASE MeetExpired(r, s)
  <2>1. call' = [call EXCEPT ![r] = [kind |-> "expired", session |-> s]]
    BY <1>2 DEF MeetExpired, Queue
  <2>2. call' \in Calls /\ call'[r].kind = "expired"
    BY <2>1, <1>0, NewCall DEF Kinds, Calls
  <2> QED BY <2>1, <2>2, <1>2 DEF MeetExpired, Queue, files, Kinds
<1>3. CASE Resolve(r, s)
  <2>1. call' = [call EXCEPT ![r] = [kind |-> "resolved", session |-> s]]
    BY <1>3 DEF Resolve
  <2>2. call' \in Calls /\ call'[r].kind = "resolved"
    BY <2>1, <1>0, NewCall DEF Kinds, Calls
  <2> QED BY <2>1, <2>2, <1>3 DEF Resolve, store, files, Kinds
<1> QED BY <1>1, <1>2, <1>3 DEF Asks

\* What a handler does to the variables.
LEMMA HandlesFacts ==
    ASSUME TypeOK, NEW r \in Request, Handles(r)
    PROVE  /\ call' \in Calls
           /\ call[r].kind = "resolved" /\ call'[r].kind \in {"none", "logout", "restart", "others"}
           /\ \A q \in Request : q # r => call'[q] = call[q]
           /\ queue' \in {queue, Append(queue, r)}
           /\ UNCHANGED <<sessions, loaded, saving, before, disk, durable, refused, expired, told>>
<1>0. call \in Calls
  BY DEF TypeOK, Calls
<1>1. CASE Done(r)
  BY <1>0, <1>1 DEF Done, Calls, Free, store, files
<1>2. ASSUME NEW k \in {"logout", "restart", "others"}, Change(r, k)
      PROVE  /\ call' \in Calls
             /\ call[r].kind = "resolved" /\ call'[r].kind = k
             /\ \A q \in Request : q # r => call'[q] = call[q]
             /\ queue' = Append(queue, r)
             /\ UNCHANGED <<sessions, loaded, saving, before, disk, durable, refused, expired, told>>
  <2>1. call' = [call EXCEPT ![r] = [kind |-> k, session |-> call[r].session]]
    BY <1>2 DEF Change
  <2>2. [kind |-> k, session |-> call[r].session]
          \in [kind : Kinds \union {"none"}, session : Session \union {NoSession}]
    BY <1>0 DEF Calls, Kinds
  <2> QED BY <1>0, <1>2, <2>1, <2>2 DEF Change, Calls, files
<1>3. CASE Logout(r)
  BY <1>2, <1>3 DEF Logout
<1>4. CASE Restart(r)
  BY <1>2, <1>4 DEF Restart
<1>5. CASE PasswordWritten(r)
  BY <1>2, <1>5 DEF PasswordWritten
<1> QED BY <1>1, <1>3, <1>4, <1>5 DEF Handles

\* The types are kept.
LEMMA TypeStep ==
    ASSUME IInv, [Next]_vars
    PROVE  TypeOK'
<1> USE DEF IInv
<1>1. ASSUME NEW r \in Request, NEW s \in Session, Asks(r, s)
      PROVE  TypeOK'
  <2>1. queue' \in {queue, Append(queue, r)}
    BY <1>1, AskFacts
  <2>2. queue' \in Seq(Request \union {Boot})
    BY <2>1 DEF TypeOK
  <2> QED BY <1>1, <2>2, AskFacts DEF TypeOK, Calls
<1>2. ASSUME NEW r \in Request, Handles(r)
      PROVE  TypeOK'
  <2>1. queue' \in {queue, Append(queue, r)}
    BY <1>2, HandlesFacts
  <2>2. queue' \in Seq(Request \union {Boot})
    BY <2>1 DEF TypeOK
  <2> QED BY <1>2, <2>2, HandlesFacts DEF TypeOK, Calls
<1>3. CASE Load
  BY <1>3 DEF Load, TypeOK, files
<1>4. CASE Turn
  <2>1. queue # <<>> BY <1>4 DEF Turn
  <2>2. CASE After(Head(queue)) = sessions
    BY <1>4, <2>1, <2>2, AnswerType DEF Turn, TypeOK, files
  <2>3. CASE After(Head(queue)) # sessions
    <3>1. PICK t \in Request \union {Boot} : t = Head(queue)
      BY <2>1, ChangeType
    <3>2. Comes(t) \subseteq Session
      BY <3>1, <2>1 DEF Comes, Logins
    <3>3. After(t) \subseteq Session
      BY <3>2 DEF After, TypeOK
    <3> QED BY <1>4, <2>3, <3>1, <3>3 DEF Turn, TypeOK, files
  <2> QED BY <2>2, <2>3
<1>5. CASE Rename
  BY <1>5 DEF Rename, TypeOK
<1>6. CASE SaveFails
  BY <1>6, AnswerType DEF SaveFails, TypeOK, Logins, files
<1>7. CASE Synced
  <2>1. queue # <<>> BY <1>7 DEF Synced, Logins
  <2>2. durable' \subseteq SUBSET Session
    BY <1>7 DEF Synced, TypeOK
  <2>3. told' \in [Session -> {"unborn", "asked", "on", "off", "denied", "unsure", "lost"}]
    BY <1>7 DEF Synced, TypeOK
  <2>4. refused' \in BOOLEAN
    BY <1>7 DEF Synced
  <2>5. /\ queue' \in Seq(Request \union {Boot})
        /\ saving' = "idle" /\ before' = {} /\ loaded' \in {"no", "drop", "yes"}
        /\ call' \in Calls
    BY <1>7, <2>1, AnswerType DEF Synced, Calls
  <2>6. UNCHANGED <<sessions, disk, expired>>
    BY <1>7 DEF Synced
  <2> QED BY <2>2, <2>3, <2>4, <2>5, <2>6 DEF TypeOK, Calls
<1>8. ASSUME NEW s \in Session, Expire(s)
      PROVE  TypeOK'
  BY <1>8 DEF Expire, TypeOK, files, store
<1>9. CASE Crash
  BY <1>9 DEF Crash, MemoryLost, TypeOK, files, Free
<1>10. CASE PowerCut
  BY <1>10 DEF PowerCut, MemoryLost, TypeOK, Free
<1>11. CASE UNCHANGED vars
  BY <1>11 DEF vars, store, files, TypeOK
<1> QED BY <1>1, <1>2, <1>3, <1>4, <1>5, <1>6, <1>7, <1>8, <1>9, <1>10, <1>11 DEF Next

-----------------------------------------------------------------------------
(* The copies of the list. *)

\* The list, the file and the older contents of the file keep agreeing.
LEMMA CopiesStep ==
    ASSUME IInv, [Next]_vars
    PROVE  Copies'
<1> USE DEF IInv, Copies, MemoryIsRecord
<1>1. ASSUME NEW r \in Request, NEW s \in Session, Asks(r, s)
      PROVE  Copies'
  BY <1>1, AskFacts
<1>2. ASSUME NEW r \in Request, Handles(r)
      PROVE  Copies'
  <2>1. loaded # "no"
    BY <1>2, HandlesFacts DEF Loading
  <2> QED BY <1>2, <2>1, HandlesFacts
<1>3. CASE Load
  BY <1>3 DEF Load, files
<1>4. CASE Turn
  BY <1>4 DEF Turn, Answer, files
<1>5. CASE Rename
  BY <1>5 DEF Rename
<1>6. CASE SaveFails
  BY <1>6 DEF SaveFails, Answer, files
<1>7. CASE Synced
  BY <1>7 DEF Synced, Answer
<1>8. ASSUME NEW s \in Session, Expire(s)
      PROVE  Copies'
  BY <1>8 DEF Expire, files, store
<1>9. CASE Crash
  BY <1>9 DEF Crash, MemoryLost, files
<1>10. CASE PowerCut
  BY <1>10 DEF PowerCut, MemoryLost
<1>11. CASE UNCHANGED vars
  BY <1>11 DEF vars, store, files
<1> QED BY <1>1, <1>2, <1>3, <1>4, <1>5, <1>6, <1>7, <1>8, <1>9, <1>10, <1>11 DEF Next

-----------------------------------------------------------------------------
(* The requests. *)

\* Each login keeps its session to itself.
LEMMA LoginsStep ==
    ASSUME IInv, [Next]_vars
    PROVE  Logins'
<1> USE DEF IInv, Logins
<1>0. /\ call \in Calls
      /\ \A r \in Request : call[r].kind = "login" => call[r].session # NoSession
  BY SessionsAssumption DEF TypeOK, Calls
<1>1. ASSUME NEW r \in Request, NEW s \in Session, Asks(r, s)
      PROVE  Logins'
  <2>1. PICK k \in Kinds : call' = [call EXCEPT ![r] = [kind |-> k, session |-> s]]
    BY <1>1, AskFacts
  <2>2. call[r].kind = "none"
    BY <1>1, AskFacts DEF Free
  <2>3. /\ call'[r] = [kind |-> k, session |-> s]
        /\ \A q \in Request : q # r => call'[q] = call[q]
    BY <1>0, <2>1 DEF Calls
  <2>4. \/ told' = told /\ k # "login"
        \/ told[s] = "unborn" /\ told' = [told EXCEPT ![s] = "asked"]
    BY <1>1, <2>3, AskFacts
  <2>5. \A q \in Request : call'[q].kind = "login" =>
            call'[q].session \in Session /\ told'[call'[q].session] = "asked"
    BY <2>3, <2>4 DEF TypeOK
  <2>6. \A q \in Request : q # r /\ call'[q].kind = "login" /\ k = "login" => call'[q].session # s
    BY <2>3, <2>4
  <2>7. \A p, q \in Request :
            call'[p].kind = "login" /\ call'[q].kind = "login" /\ call'[p].session = call'[q].session
              => p = q
    BY <2>3, <2>6
  <2>8. ASSUME saving' # "idle"
        PROVE  queue' # <<>> /\ Arriving' \subseteq Comes(Head(queue))'
    <3>1. /\ queue # <<>> /\ Arriving \subseteq Comes(Head(queue))
          /\ queue' \in {queue, Append(queue, r)} /\ Arriving' = Arriving
      BY <1>1, <2>8, AskFacts DEF Arriving
    <3>2. queue' # <<>> /\ Head(queue') = Head(queue) /\ Head(queue) \in Request \union {Boot}
      BY <3>1 DEF TypeOK
    <3>3. Comes(Head(queue)) \subseteq Comes(Head(queue))'
      BY <2>2, <2>3, <3>2 DEF Comes
    <3> QED BY <3>1, <3>2, <3>3
  <2> QED BY <2>5, <2>7, <2>8
<1>2. ASSUME NEW r \in Request, Handles(r)
      PROVE  Logins'
  <2>1. /\ call[r].kind # "login" /\ call'[r].kind # "login"
        /\ \A q \in Request : q # r => call'[q] = call[q]
        /\ told' = told
    BY <1>2, HandlesFacts
  <2>2. /\ \A q \in Request : call'[q].kind = "login" =>
             call'[q].session \in Session /\ told'[call'[q].session] = "asked"
        /\ \A p, q \in Request :
             call'[p].kind = "login" /\ call'[q].kind = "login" /\ call'[p].session = call'[q].session
               => p = q
    BY <2>1
  <2>3. ASSUME saving' # "idle"
        PROVE  queue' # <<>> /\ Arriving' \subseteq Comes(Head(queue))'
    <3>1. /\ queue # <<>> /\ Arriving \subseteq Comes(Head(queue))
          /\ queue' \in {queue, Append(queue, r)} /\ Arriving' = Arriving
      BY <1>2, <2>3, HandlesFacts DEF Arriving
    <3>2. queue' # <<>> /\ Head(queue') = Head(queue) /\ Head(queue) \in Request \union {Boot}
      BY <3>1 DEF TypeOK
    <3>3. Comes(Head(queue)) \subseteq Comes(Head(queue))'
      BY <2>1, <3>2 DEF Comes
    <3> QED BY <3>1, <3>2, <3>3
  <2> QED BY <2>2, <2>3
<1>3. ASSUME queue # <<>>, Answer,
             \A s \in Session : told'[s] # told[s] => s \in Arriving \/ s \in Leaving,
             saving # "idle" \/ told' = told,
             Arriving \subseteq Comes(Head(queue)),
             \A s \in Leaving : told[s] # "asked"
      PROVE  Logins'
  <2>1. Head(queue) \in Request \union {Boot}
    BY <1>3 DEF TypeOK
  <2>2. \A q \in Request : call'[q].kind = "login" => q # Head(queue) /\ call'[q] = call[q]
    BY <1>0, <1>3, <2>1, SessionsAssumption DEF Answer, Free, Calls
  <2>3. \A q \in Request : call'[q].kind = "login" => call[q].session \notin Arriving
    BY <1>3, <2>1, <2>2 DEF Comes
  <2>4. \A q \in Request : call'[q].kind = "login" => told'[call[q].session] = "asked"
    BY <1>3, <2>2, <2>3
  <2>5. saving' = "idle"
    BY <1>3 DEF Answer
  <2> QED BY <2>2, <2>4, <2>5
<1>4. CASE Load
  BY <1>4 DEF Load, Copies
<1>5. CASE Turn
  <2>1. queue # <<>> /\ told' = told
    BY <1>5 DEF Turn
  <2>2. CASE Answer
    <3>1. saving' = "idle"
      BY <2>2 DEF Answer
    <3>2. Head(queue) \in Request \union {Boot}
      BY <2>1 DEF TypeOK
    <3>3. \A q \in Request : call'[q].kind = "login" => call'[q] = call[q]
      BY <1>0, <2>2, <3>2 DEF Answer, Free, Calls
    <3> QED BY <2>1, <3>1, <3>3
  <2>3. CASE ~Answer
    <3>1. sessions' = After(Head(queue)) /\ before' = sessions /\ UNCHANGED <<queue, call>>
      BY <1>5, <2>3 DEF Turn
    <3>2. Arriving' \subseteq Comes(Head(queue))
      BY <3>1 DEF Arriving, After
    <3>3. Comes(Head(queue))' = Comes(Head(queue))
      BY <3>1 DEF Comes
    <3> QED BY <2>1, <3>1, <3>2, <3>3
  <2> QED BY <2>2, <2>3
<1>6. CASE Rename
  BY <1>6 DEF Rename, Arriving, Comes
<1>7. CASE SaveFails
  <2>1. queue # <<>> /\ Arriving \subseteq Comes(Head(queue)) /\ saving # "idle" /\ Answer
    BY <1>7 DEF SaveFails
  <2>2. \A s \in Session : told'[s] # told[s] => s \in Arriving \/ s \in Leaving
    BY <1>7 DEF SaveFails, TypeOK
  <2>3. \A s \in Leaving : told[s] # "asked"
    BY DEF Answers, Leaving, TypeOK
  <2> QED BY <1>3, <2>1, <2>2, <2>3
<1>8. CASE Synced
  <2>1. queue # <<>> /\ Arriving \subseteq Comes(Head(queue)) /\ saving # "idle" /\ Answer
    BY <1>8 DEF Synced
  <2>2. \A s \in Session : told'[s] # told[s] => s \in Arriving \/ s \in Leaving
    BY <1>8 DEF Synced, TypeOK
  <2>3. \A s \in Leaving : told[s] # "asked"
    BY DEF Answers, Leaving, TypeOK
  <2> QED BY <1>3, <2>1, <2>2, <2>3
<1>9. ASSUME NEW s \in Session, Expire(s)
      PROVE  Logins'
  BY <1>9 DEF Expire, store, Arriving, Comes
<1>10. CASE Crash \/ PowerCut
  BY <1>10 DEF Crash, PowerCut, MemoryLost, Free
<1>11. CASE UNCHANGED vars
  BY <1>11 DEF vars, store, Arriving, Comes
<1> QED BY <1>1, <1>2, <1>4, <1>5, <1>6, <1>7, <1>8, <1>9, <1>10, <1>11 DEF Next

\* The list is loaded before any request, and by one change alone.
LEMMA LoadingStep ==
    ASSUME IInv, [Next]_vars
    PROVE  Loading'
<1> USE DEF IInv, Loading
<1>1. ASSUME NEW r \in Request, NEW s \in Session, Asks(r, s)
      PROVE  Loading'
  <2>1. loaded = "yes" /\ loaded' = "yes" /\ queue' \in {queue, Append(queue, r)} /\ r # Boot
    BY <1>1, AskFacts, SessionsAssumption
  <2> QED BY <2>1 DEF TypeOK
<1>2. ASSUME NEW r \in Request, Handles(r)
      PROVE  Loading'
  <2>1. loaded = "yes" /\ loaded' = "yes" /\ queue' \in {queue, Append(queue, r)} /\ r # Boot
    BY <1>2, HandlesFacts, SessionsAssumption DEF TypeOK
  <2> QED BY <2>1 DEF TypeOK
<1>3. ASSUME queue # <<>>, Answer
      PROVE  Loading'
  <2>1. CASE loaded = "drop"
    BY <1>3, <2>1 DEF Answer
  <2>2. CASE loaded # "drop"
    <3>1. loaded = "yes"
      BY <1>3, <2>2 DEF Copies, TypeOK
    <3>2. /\ loaded' = "yes"
          /\ Len(queue') = Len(queue) - 1
          /\ \A i \in 1 .. Len(queue') : queue'[i] = queue[i + 1]
      BY <1>3, <3>1 DEF Answer, TypeOK
    <3>3. Len(queue) \in Nat
      BY DEF TypeOK
    <3> QED BY <3>1, <3>2, <3>3
  <2> QED BY <2>1, <2>2
<1>4. CASE Load
  BY <1>4 DEF Load
<1>5. CASE Turn
  BY <1>3, <1>5 DEF Turn
<1>6. CASE Rename
  BY <1>6 DEF Rename
<1>7. CASE SaveFails \/ Synced
  BY <1>3, <1>7 DEF SaveFails, Synced, Logins
<1>8. ASSUME NEW s \in Session, Expire(s)
      PROVE  Loading'
  BY <1>8 DEF Expire, store
<1>9. CASE Crash \/ PowerCut
  BY <1>9 DEF Crash, PowerCut, MemoryLost, Free
<1>10. CASE UNCHANGED vars
  BY <1>10 DEF vars, store
<1> QED BY <1>1, <1>2, <1>4, <1>5, <1>6, <1>7, <1>8, <1>9, <1>10 DEF Next

-----------------------------------------------------------------------------
(* The answers. *)

\* The arriving session is one whose login is still asking.
LEMMA ArrivingAsked ==
    ASSUME IInv, saving # "idle", NEW s \in Arriving
    PROVE  s \in Session /\ told[s] = "asked"
<1>1. /\ queue # <<>> /\ s \in Comes(Head(queue)) /\ Head(queue) \in Request \union {Boot}
  BY DEF IInv, Logins, TypeOK
<1> QED BY <1>1 DEF Comes, IInv, Logins

\* What the answers say stays true.
LEMMA AnswersStep ==
    ASSUME IInv, [Next]_vars
    PROVE  Answers'
<1> USE DEF IInv, Answers
<1>0. durable \subseteq SUBSET Session /\ disk \in durable /\ sessions \subseteq Session /\ before \subseteq Session
  BY DEF TypeOK, Copies
<1>1. ASSUME NEW r \in Request, NEW s \in Session, Asks(r, s)
      PROVE  Answers'
  <2>1. /\ UNCHANGED <<sessions, saving, before, disk, durable>>
        /\ told' = told \/ (told[s] = "unborn" /\ told' = [told EXCEPT ![s] = "asked"])
    BY <1>1, AskFacts
  <2> QED BY <2>1 DEF TypeOK, Leaving
<1>2. ASSUME NEW r \in Request, Handles(r)
      PROVE  Answers'
  BY <1>2, HandlesFacts DEF Leaving
<1>3. CASE Load
  BY <1>0, <1>3 DEF Load, files, Copies, Leaving
<1>4. CASE Turn
  <2>1. CASE Answer
    BY <1>4, <2>1 DEF Turn, Answer, Copies, files, Leaving
  <2>2. CASE ~Answer
    <3>1. /\ sessions' = After(Head(queue)) /\ before' = sessions /\ saving' = "temp"
          /\ UNCHANGED <<files, told, queue, call>> /\ queue # <<>> /\ saving = "idle"
      BY <1>4, <2>2 DEF Turn
    <3>2. \A s \in Session : s \in After(Head(queue)) => s \in sessions \/ told[s] = "asked"
      BY <3>1 DEF After, Comes, Logins, TypeOK
    <3> QED BY <3>1, <3>2 DEF files, Leaving
  <2> QED BY <2>1, <2>2
<1>5. CASE Rename
  <2>1. /\ saving = "temp" /\ disk' = sessions /\ durable' = durable \union {sessions}
        /\ saving' = "renamed" /\ UNCHANGED <<sessions, before, told>>
    BY <1>5 DEF Rename
  <2>2. disk = before
    BY <2>1 DEF Copies
  <2>3. ASSUME NEW s \in Session, told[s] = "on"
        PROVE  \A d \in durable' : s \in d \/ (d = disk' /\ s \in before \ sessions)
    BY <1>0, <2>1, <2>2, <2>3
  <2> QED BY <2>1, <2>3 DEF Leaving
<1>6. CASE SaveFails
  <2>1. /\ saving = "temp" /\ sessions' = before /\ saving' = "idle" /\ before' = {}
        /\ UNCHANGED files
        /\ \A s \in Session : told'[s] = IF s \in Arriving THEN "denied" ELSE told[s]
    BY <1>6 DEF SaveFails, Answer
  <2>2. ASSUME NEW s \in Session, s \in Arriving
        PROVE  s \notin before /\ \A d \in durable : s \notin d
    BY <2>1, <2>2, ArrivingAsked
  <2> QED BY <2>1, <2>2 DEF files, Leaving, Copies
<1>7. CASE Synced
  <2>1. /\ saving = "renamed" /\ durable' = {disk} /\ saving' = "idle" /\ before' = {}
        /\ UNCHANGED <<sessions, disk>>
        /\ \A s \in Session : told'[s] = IF s \in Arriving THEN "on"
                                         ELSE IF s \in Leaving THEN "off" ELSE told[s]
    BY <1>7 DEF Synced, Answer
  <2>2. disk = sessions
    BY <2>1 DEF Copies
  <2>3. \A s \in Arriving : told[s] = "asked"
    BY <2>1, ArrivingAsked
  <2>4. \A s \in Session : told[s] = "on" /\ s \notin Leaving => s \in disk
    BY <1>0
  <2>5. \A s \in Session : told[s] = "asked" /\ s \notin Arriving => s \notin sessions
    BY DEF Arriving
  <2> QED BY <2>1, <2>2, <2>3, <2>4, <2>5 DEF Leaving, Arriving
<1>8. ASSUME NEW s \in Session, Expire(s)
      PROVE  Answers'
  BY <1>8 DEF Expire, files, store, Leaving
<1>9. CASE Crash \/ PowerCut
  <2>1. /\ sessions' = {} /\ before' = {} /\ saving' = "idle" /\ durable' \subseteq durable
        /\ \A s \in Session : told'[s] = IF told[s] = "asked" THEN "lost"
                                         ELSE IF saving = "renamed" /\ s \in Leaving THEN "unsure"
                                         ELSE told[s]
    BY <1>9 DEF Crash, PowerCut, MemoryLost, files
  <2> QED BY <2>1
<1>10. CASE UNCHANGED vars
  BY <1>10 DEF vars, store, files, Leaving
<1> QED BY <1>1, <1>2, <1>3, <1>4, <1>5, <1>6, <1>7, <1>8, <1>9, <1>10 DEF Next

-----------------------------------------------------------------------------
(* Theorems. *)

\* The invariant holds at first.
LEMMA Start == Init => IInv
<1> SUFFICES ASSUME Init PROVE IInv
  OBVIOUS
<1>1. call \in [Request -> [kind : Kinds \union {"none"}, session : Session \union {NoSession}]]
  BY DEF Init, Free
<1>2. queue \in Seq(Request \union {Boot})
  BY DEF Init
<1>3. durable \subseteq SUBSET Session /\ refused \in BOOLEAN
  BY DEF Init
<1>4. TypeOK
  BY <1>1, <1>2, <1>3 DEF Init, TypeOK
<1>5. Copies /\ Answers
  BY DEF Init, Copies, MemoryIsRecord, Answers
<1>6. Logins /\ Loading
  BY DEF Init, Logins, Loading, Free
<1> QED BY <1>4, <1>5, <1>6 DEF IInv

\* Every step keeps the invariant.
LEMMA Keep == IInv /\ [Next]_vars => IInv'
  BY TypeStep, CopiesStep, AnswersStep, LoginsStep, LoadingStep DEF IInv

\* The invariant of the specification.
LEMMA Invariant == Spec => []IInv
  BY Start, Keep, PTL DEF Spec

\* Every value keeps its type, for every number of sessions and requests.
THEOREM TypeCorrect == Spec => []TypeOK
<1>1. IInv => TypeOK
  BY DEF IInv
<1> QED BY <1>1, Invariant, PTL

\* sessions.json never contradicts an answer, through concurrent requests, failed
\* writes, crashes and power cuts.
THEOREM FileKeepsItsWord == Spec => []RecordAgrees
<1>1. IInv => RecordAgrees
  BY DEF IInv, RecordAgrees, Answers, Copies
<1> QED BY <1>1, Invariant, PTL

\* Between two saves the list in memory is the one on disk.
THEOREM ListIsFile == Spec => []MemoryIsRecord
<1>1. IInv => MemoryIsRecord
  BY DEF IInv, Copies
<1> QED BY <1>1, Invariant, PTL

\* A session whose end was answered, or a login that was refused, is never valid.
THEOREM EndedStaysEnded == Spec => []EndedForGood
<1>1. IInv => EndedForGood
  BY DEF IInv, EndedForGood, Answers
<1> QED BY <1>1, Invariant, PTL
=============================================================================
