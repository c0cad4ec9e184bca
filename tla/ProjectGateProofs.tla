--------------------------- MODULE ProjectGateProofs ---------------------------
(***************************************************************************)
(* What ProjectGate promises for every set of requests and every number of *)
(* restarts.  The argument: whoever is at work left a mark in memory that  *)
(* the check of the next one sees (Marked), so two never work together     *)
(* (Exclusive), so at most one job is "running" in memory and, because     *)
(* every save writes the whole list of jobs, in the file (OneRunning).     *)
(***************************************************************************)
EXTENDS ProjectGate, FiniteSetTheorems, TLAPS

\* The mark of each stage.  Once the project left the list nobody is let in, so
\* the marks of its jobs may be gone.
Marked ==
    /\ \A r \in Request : stage[r] \in {"preparing", "saving"} => starting
    /\ \A r \in Request : stage[r] = "holding" => held
    /\ present => \A r \in Request : stage[r] \in {"saving", "running"} => jobs[r] = "running"
    /\ boot = "recovering" => starting

\* At most one job of a list is "running".
AtMostOne(list) ==
    \A r, s \in Request : list[r] = "running" /\ list[s] = "running" => r = s

OneRunning ==
    /\ \A r \in Request : stage[r] = "preparing" => \A s \in Request : jobs[s] # "running"
    /\ AtMostOne(jobs)
    /\ AtMostOne(disk.jobs)
    /\ \A r, s \in interrupted : r = s

---------------------------------------------------------------------------
(* Types *)

\* The end of a request keeps the types of what it changes.
LEMMA EndsType ==
    ASSUME TypeOK, NEW r \in Request, Ends(r)
    PROVE  stage' \in [Request -> Stage] /\ maintenance' \in Nat
BY DEF TypeOK, Ends, Goes, Stage

\* Every variable keeps its type, whatever the requests and the restarts.
THEOREM TypeCorrect == Spec => []TypeOK
<1>1. Init => TypeOK
  <2> SUFFICES ASSUME Init PROVE TypeOK
    OBVIOUS
  <2>1. jobs \in [Request -> Job] /\ stage \in [Request -> Stage]
    BY DEF Init, Job, Stage
  <2>2. disk \in [jobs : [Request -> Job], present : BOOLEAN]
    BY <2>1 DEF Init
  <2>3. QED
    BY <2>1, <2>2 DEF Init, TypeOK
<1>2. TypeOK /\ [Next]_vars => TypeOK'
  <2> SUFFICES ASSUME TypeOK, [Next]_vars PROVE TypeOK'
    OBVIOUS
  <2>1. ASSUME NEW r \in Request, Reserve(r) PROVE TypeOK'
    BY <2>1 DEF TypeOK, Reserve, Goes, Stage, booting
  <2>2. ASSUME NEW r \in Request, PrepareFails(r) PROVE TypeOK'
    BY <2>2, EndsType DEF TypeOK, PrepareFails, booting
  <2>3. ASSUME NEW r \in Request, PushJob(r) PROVE TypeOK'
    BY <2>3 DEF TypeOK, PushJob, Goes, Stage, Job, booting
  <2>4. ASSUME NEW r \in Request, SaveJob(r) PROVE TypeOK'
    BY <2>4 DEF TypeOK, SaveJob, Goes, Stage, booting
  <2>5. ASSUME NEW r \in Request, SaveJobFails(r) PROVE TypeOK'
    BY <2>5, EndsType DEF TypeOK, SaveJobFails, booting
  <2>6. ASSUME NEW r \in Request, EndJob(r) PROVE TypeOK'
    <3>1. jobs' \in [Request -> Job]
      BY <2>6 DEF TypeOK, EndJob, Job
    <3>2. stage' \in [Request -> Stage] /\ maintenance' \in Nat
      BY <2>6, EndsType DEF TypeOK, EndJob, Goes, Stage
    <3>3. QED
      BY <2>6, <3>1, <3>2 DEF TypeOK, EndJob, booting
  <2>7. CASE SaveEnd
    BY <2>7 DEF TypeOK, SaveEnd, memory, requests, booting
  <2>8. ASSUME NEW r \in Request, AskHold(r) PROVE TypeOK'
    BY <2>8 DEF TypeOK, AskHold, Goes, Stage, booting
  <2>9. ASSUME NEW r \in Request, Hold(r) PROVE TypeOK'
    BY <2>9 DEF TypeOK, Hold, Goes, Stage, booting
  <2>10. ASSUME NEW r \in Request, GiveUp(r) PROVE TypeOK'
    BY <2>10, EndsType DEF TypeOK, GiveUp, booting
  <2>11. ASSUME NEW r \in Request, Release(r) PROVE TypeOK'
    BY <2>11, EndsType DEF TypeOK, Release, booting
  <2>12. ASSUME NEW r \in Request, Republish(r) PROVE TypeOK'
    BY <2>12 DEF TypeOK, Republish, Goes, Stage, booting
  <2>13. ASSUME NEW r \in Request, RepublishRefused(r) PROVE TypeOK'
    BY <2>13, EndsType DEF TypeOK, RepublishRefused, booting
  <2>14. ASSUME NEW r \in Request, AskChange(r) PROVE TypeOK'
    BY <2>14 DEF TypeOK, AskChange, Goes, Stage, memory, booting
  <2>15. ASSUME NEW r \in Request, Change(r) PROVE TypeOK'
    BY <2>15, EndsType DEF TypeOK, Change, booting
  <2>16. ASSUME NEW r \in Request, Delete(r) PROVE TypeOK'
    BY <2>16 DEF TypeOK, Delete, Goes, Stage, Job, booting
  <2>17. ASSUME NEW r \in Request, Forget(r) PROVE TypeOK'
    BY <2>17, EndsType DEF TypeOK, Forget, booting
  <2>18. CASE Crash
    <3>1. disk.jobs \in [Request -> Job] /\ disk.present \in BOOLEAN
      BY DEF TypeOK
    <3>2. jobs' \in [Request -> Job]
      BY <2>18, <3>1 DEF Crash, Job
    <3>3. stage' \in [Request -> Stage]
      BY <2>18 DEF Crash, Stage, TypeOK
    <3>4. interrupted' \subseteq Request /\ present' \in BOOLEAN
      BY <2>18, <3>1 DEF Crash
    <3>5. crashes' \in Nat /\ maintenance' \in Nat
      <4>1. crashes \in Nat
        BY DEF TypeOK
      <4>2. QED
        BY <2>18, <4>1 DEF Crash
    <3>6. /\ starting' = FALSE /\ held' = FALSE /\ unsaved' = FALSE /\ boot' = "pending"
          /\ kind' = kind /\ republished' = republished /\ lost' = lost /\ disk' = disk
      BY <2>18 DEF Crash
    <3>7. kind' \in [Request -> Kind] /\ republished' \subseteq Request /\ lost' \subseteq Request
          /\ disk' \in [jobs : [Request -> Job], present : BOOLEAN]
      BY <3>6 DEF TypeOK
    <3>8. QED
      BY <3>2, <3>3, <3>4, <3>5, <3>6, <3>7, Zenon DEF TypeOK
  <2>19. CASE Restart
    BY <2>19 DEF TypeOK, Restart, BootReserve, BootRelease, BootWrite, memory, requests
  <2>20. CASE UNCHANGED vars
    BY <2>20 DEF TypeOK, vars, memory, requests, booting
  <2>21. QED
    BY <2>1, <2>2, <2>3, <2>4, <2>5, <2>6, <2>7, <2>8, <2>9, <2>10, <2>11, <2>12, <2>13,
       <2>14, <2>15, <2>16, <2>17, <2>18, <2>19, <2>20
    DEF Next, Ask, Step
<1>3. QED
  BY <1>1, <1>2, PTL DEF Spec

---------------------------------------------------------------------------
(* Nobody works with anybody else *)

\* Who is let in finds nobody at work: each of them left a mark.
LEMMA FreeMeansNobody ==
    ASSUME Marked, present, ~Busy
    PROVE  boot # "recovering" /\ \A r \in Request : ~Active(r)
BY DEF Marked, Busy, DeployRunning, Active

\* A step that only takes one request out of Active, or moves it between stages
\* that are not Active, leaves the marks and the exclusion as they are.
LEMMA QuietStep ==
    ASSUME TypeOK, Marked, Exclusive, NEW r \in Request, NEW s \in Stage, Goes(r, s),
           s \notin {"preparing", "saving", "running", "holding"},
           UNCHANGED <<starting, held, present, boot>>,
           \A q \in Request \ {r} : jobs'[q] = jobs[q]
    PROVE  Marked' /\ Exclusive'
<1>1. stage'[r] = s /\ \A q \in Request \ {r} : stage'[q] = stage[q]
  BY DEF Goes, TypeOK
<1>2. \A q \in Request : Active(q)' => q # r /\ Active(q)
  BY <1>1 DEF Active
<1>3. Exclusive'
  BY <1>2 DEF Exclusive
<1>4. Marked'
  BY <1>1 DEF Marked
<1>5. QED
  BY <1>3, <1>4

\* The marks and the exclusion hold together.
THEOREM Reservations == Spec => [](Marked /\ Exclusive)
<1>1. Init => Marked /\ Exclusive
  BY DEF Init, Marked, Exclusive, Active
<1>2. TypeOK /\ Marked /\ Exclusive /\ [Next]_vars => (Marked /\ Exclusive)'
  <2> SUFFICES ASSUME TypeOK, Marked, Exclusive, [Next]_vars PROVE (Marked /\ Exclusive)'
    OBVIOUS
  <2>1. ASSUME NEW r \in Request, Reserve(r) PROVE (Marked /\ Exclusive)'
    <3>1. present /\ boot # "recovering" /\ \A q \in Request : ~Active(q)
      BY <2>1, FreeMeansNobody DEF Reserve
    <3>2. stage'[r] = "preparing" /\ \A q \in Request \ {r} : stage'[q] = stage[q]
      BY <2>1 DEF Reserve, Goes, TypeOK
    <3>3. Exclusive'
      BY <2>1, <3>1, <3>2 DEF Exclusive, Active, Reserve, booting
    <3>4. Marked'
      BY <2>1, <3>1, <3>2 DEF Marked, Active, Reserve, booting
    <3>5. QED
      BY <3>3, <3>4
  <2>2. ASSUME NEW r \in Request, PrepareFails(r) \/ SaveJobFails(r) PROVE (Marked /\ Exclusive)'
    <3>1. stage[r] \in {"preparing", "saving"}
      BY <2>2 DEF PrepareFails, SaveJobFails
    <3>2. boot # "recovering" /\ \A q \in Request \ {r} : ~Active(q)
      BY <3>1 DEF Exclusive, Active
    <3>3. stage'[r] = "done" /\ \A q \in Request \ {r} : stage'[q] = stage[q]
      BY <2>2 DEF PrepareFails, SaveJobFails, Ends, Goes, TypeOK
    <3>4. UNCHANGED <<held, present, boot>>
      BY <2>2 DEF PrepareFails, SaveJobFails, booting
    <3>5. QED
      BY <3>2, <3>3, <3>4 DEF Marked, Exclusive, Active
  <2>3. ASSUME NEW r \in Request, PushJob(r) PROVE (Marked /\ Exclusive)'
    <3>1. stage[r] = "preparing" /\ stage'[r] = "saving"
          /\ \A q \in Request \ {r} : stage'[q] = stage[q]
      BY <2>3 DEF PushJob, Goes, TypeOK
    <3>2. boot # "recovering" /\ \A q \in Request \ {r} : ~Active(q)
      BY <3>1 DEF Exclusive, Active
    <3>3. jobs'[r] = "running" /\ UNCHANGED <<starting, held, present, boot>>
      BY <2>3 DEF PushJob, TypeOK, booting
    <3>4. starting
      BY <3>1 DEF Marked
    <3>5. QED
      BY <3>1, <3>2, <3>3, <3>4 DEF Marked, Exclusive, Active
  <2>4. ASSUME NEW r \in Request, SaveJob(r) PROVE (Marked /\ Exclusive)'
    <3>1. stage[r] = "saving" /\ stage'[r] = "running"
          /\ \A q \in Request \ {r} : stage'[q] = stage[q]
      BY <2>4 DEF SaveJob, Goes, TypeOK
    <3>2. boot # "recovering" /\ \A q \in Request \ {r} : ~Active(q)
      BY <3>1 DEF Exclusive, Active
    <3>3. UNCHANGED <<held, present, boot, jobs>>
      BY <2>4 DEF SaveJob, booting
    <3>4. present => jobs[r] = "running"
      BY <3>1 DEF Marked
    <3>5. QED
      BY <3>1, <3>2, <3>3, <3>4 DEF Marked, Exclusive, Active
  <2>5. ASSUME NEW r \in Request, EndJob(r) PROVE (Marked /\ Exclusive)'
    <3>1. \E s \in {"waiting", "done"} : Goes(r, s)
      BY <2>5 DEF EndJob, Ends
    <3>2. \A q \in Request \ {r} : jobs'[q] = jobs[q]
      BY <2>5 DEF EndJob, TypeOK
    <3>3. UNCHANGED <<starting, held, present, boot>>
      BY <2>5 DEF EndJob, booting
    <3>4. QED
      BY <3>1, <3>2, <3>3, QuietStep DEF Stage
  <2>6. CASE SaveEnd
    BY <2>6 DEF SaveEnd, memory, requests, booting, Marked, Exclusive, Active
  <2>7. ASSUME NEW r \in Request, Hold(r) PROVE (Marked /\ Exclusive)'
    <3>1. present /\ boot # "recovering" /\ \A q \in Request : ~Active(q)
      BY <2>7, FreeMeansNobody DEF Hold
    <3>2. stage'[r] = "holding" /\ \A q \in Request \ {r} : stage'[q] = stage[q]
      BY <2>7 DEF Hold, Goes, TypeOK
    <3>3. held' = TRUE /\ UNCHANGED <<starting, present, boot, jobs>>
      BY <2>7 DEF Hold, booting
    <3>4. QED
      BY <3>1, <3>2, <3>3 DEF Marked, Exclusive, Active
  <2>8. ASSUME NEW r \in Request, Release(r) \/ Republish(r) PROVE (Marked /\ Exclusive)'
    <3>1. stage[r] = "holding" /\ stage'[r] \in {"done", "releasing"}
          /\ \A q \in Request \ {r} : stage'[q] = stage[q]
      BY <2>8 DEF Release, Republish, Ends, Goes, TypeOK
    <3>2. boot # "recovering" /\ \A q \in Request \ {r} : ~Active(q)
      BY <3>1 DEF Exclusive, Active
    <3>3. UNCHANGED <<starting, present, boot, jobs>>
      BY <2>8 DEF Release, Republish, booting
    <3>4. QED
      BY <3>1, <3>2, <3>3 DEF Marked, Exclusive, Active
  <2>9. ASSUME NEW r \in Request, AskHold(r) \/ GiveUp(r) \/ RepublishRefused(r) \/ AskChange(r)
                                  \/ Change(r) \/ Forget(r)
        PROVE  (Marked /\ Exclusive)'
    <3>1. \E s \in {"waiting", "acting", "done"} : Goes(r, s)
      BY <2>9 DEF AskHold, GiveUp, RepublishRefused, AskChange, Change, Forget, Ends
    <3>2. UNCHANGED <<starting, held, present, boot, jobs>>
      BY <2>9 DEF AskHold, GiveUp, RepublishRefused, AskChange, Change, Forget, memory, booting
    <3>3. QED
      BY <3>1, <3>2, QuietStep DEF Stage
  <2>10. ASSUME NEW r \in Request, Delete(r) PROVE (Marked /\ Exclusive)'
    <3>1. stage'[r] = "removing" /\ \A q \in Request \ {r} : stage'[q] = stage[q]
      BY <2>10 DEF Delete, Goes, TypeOK
    <3>2. present' = FALSE /\ UNCHANGED <<starting, held, boot>>
      BY <2>10 DEF Delete, booting
    <3>3. QED
      BY <3>1, <3>2 DEF Marked, Exclusive, Active
  <2>11. CASE Crash
    <3>1. \A q \in Request : stage'[q] \in {"none", "done"}
      BY <2>11 DEF Crash
    <3>2. boot' = "pending"
      BY <2>11 DEF Crash
    <3>3. QED
      BY <3>1, <3>2 DEF Marked, Exclusive, Active
  <2>12. CASE BootReserve
    <3>1. UNCHANGED <<held, jobs, present, stage>>
      BY <2>12 DEF BootReserve, requests
    <3>2. CASE present /\ ~Busy
      <4>1. starting' = TRUE /\ \A q \in Request : ~Active(q)
        BY <2>12, <3>2, FreeMeansNobody DEF BootReserve
      <4>2. QED
        BY <3>1, <4>1 DEF Marked, Exclusive, Active
    <3>3. CASE ~(present /\ ~Busy)
      <4>1. boot' = "writing" /\ starting' = starting
        BY <2>12, <3>3 DEF BootReserve
      <4>2. QED
        BY <3>1, <4>1 DEF Marked, Exclusive, Active
    <3>4. QED
      BY <3>2, <3>3
  <2>13. CASE BootRelease
    <3>1. boot' = "writing" /\ UNCHANGED <<held, jobs, present, stage>>
      BY <2>13 DEF BootRelease, requests
    <3>2. \A q \in Request : ~Active(q)
      BY <2>13 DEF BootRelease, Exclusive
    <3>3. QED
      BY <3>1, <3>2 DEF Marked, Exclusive, Active
  <2>14. CASE BootWrite
    BY <2>14 DEF BootWrite, memory, requests, Marked, Exclusive, Active
  <2>15. CASE UNCHANGED vars
    BY <2>15 DEF vars, memory, requests, booting, Marked, Exclusive, Active
  <2>16. QED
    BY <2>1, <2>2, <2>3, <2>4, <2>5, <2>6, <2>7, <2>8, <2>9, <2>10, <2>11, <2>12, <2>13,
       <2>14, <2>15
    DEF Next, Ask, Step, Restart
<1>3. QED
  BY <1>1, <1>2, TypeCorrect, PTL DEF Spec

\* Two deploys, backups, restores or recoveries never work on the project together.
THEOREM ExclusiveHolds == Spec => []Exclusive
BY Reservations, PTL

\* The Docker cleanup sees whoever is at work on a project that exists.
THEOREM CleanupSeesHolds == Spec => []CleanupSees
<1>1. Marked => CleanupSees
  BY DEF Marked, CleanupSees, CleanupWaits, DeployRunning, Active
<1>2. QED
  BY <1>1, Reservations, PTL

---------------------------------------------------------------------------
(* At most one job is running, in memory and in the file *)

\* A step that starts no job and lets nobody in keeps at most one running, in memory
\* and in the file; so does a file that takes the list in memory.
LEMMA FewerRunning ==
    ASSUME OneRunning,
           \A q \in Request : stage'[q] = "preparing" => stage[q] = "preparing",
           \A q \in Request : jobs'[q] = "running" => jobs[q] = "running",
           \/ \A q \in Request : disk.jobs'[q] = "running" => disk.jobs[q] = "running"
           \/ \A q \in Request : disk.jobs'[q] = "running" => jobs[q] = "running",
           \/ interrupted' \subseteq interrupted
           \/ interrupted' \subseteq Request /\ \A q \in interrupted' : disk.jobs[q] = "running"
    PROVE  OneRunning'
<1>1. AtMostOne(jobs)'
  BY DEF OneRunning, AtMostOne
<1>2. AtMostOne(disk.jobs)'
  BY DEF OneRunning, AtMostOne
<1>3. \A q \in Request : stage'[q] = "preparing" => \A s \in Request : jobs'[s] # "running"
  BY DEF OneRunning
<1>4. \A q, s \in interrupted' : q = s
  BY DEF OneRunning, AtMostOne
<1>5. QED
  BY <1>1, <1>2, <1>3, <1>4 DEF OneRunning

\* A request that moves on, to a stage that is not "preparing", lets nobody in.
LEMMA MovesOn ==
    ASSUME TypeOK, NEW r \in Request, NEW s \in Stage \ {"preparing"}, Goes(r, s)
    PROVE  \A q \in Request : stage'[q] = "preparing" => stage[q] = "preparing"
BY DEF Goes, TypeOK

\* What is written is the list of now, so the file never tells of two.
THEOREM OneRunningHolds == Spec => []OneRunning
<1>1. Init => OneRunning
  BY DEF Init, OneRunning, AtMostOne
<1>2. TypeOK /\ Marked /\ Exclusive /\ OneRunning /\ [Next]_vars => OneRunning'
  <2> SUFFICES ASSUME TypeOK, Marked, Exclusive, OneRunning, [Next]_vars PROVE OneRunning'
    OBVIOUS
  <2>1. ASSUME NEW r \in Request, Reserve(r) PROVE OneRunning'
    <3>1. \A q \in Request : jobs[q] # "running"
      BY <2>1 DEF Reserve, Busy, DeployRunning
    <3>2. UNCHANGED <<jobs, disk, interrupted>>
      BY <2>1 DEF Reserve, booting
    <3>3. QED
      BY <3>1, <3>2 DEF OneRunning, AtMostOne
  <2>2. ASSUME NEW r \in Request, PushJob(r) PROVE OneRunning'
    <3>1. stage[r] = "preparing" /\ \A q \in Request : jobs[q] # "running"
      BY <2>2 DEF PushJob, OneRunning
    <3>2. \A q \in Request \ {r} : jobs'[q] # "running"
      BY <2>2, <3>1 DEF PushJob, TypeOK
    <3>3. \A q \in Request : stage'[q] # "preparing"
      BY <2>2, <3>1 DEF PushJob, Goes, TypeOK, Exclusive, Active
    <3>4. UNCHANGED <<disk, interrupted>>
      BY <2>2 DEF PushJob, booting
    <3>5. QED
      BY <3>2, <3>3, <3>4 DEF OneRunning, AtMostOne
  <2>3. ASSUME NEW r \in Request, SaveJob(r) PROVE OneRunning'
    <3>1. disk.jobs' = jobs
      BY <2>3 DEF SaveJob, TypeOK
    <3>2. UNCHANGED <<jobs, interrupted>> /\ Goes(r, "running")
      BY <2>3 DEF SaveJob, booting
    <3>3. QED
      BY <3>1, <3>2, FewerRunning, MovesOn DEF Stage
  <2>4. ASSUME NEW r \in Request, EndJob(r) PROVE OneRunning'
    <3>1. \A q \in Request : jobs'[q] = "running" => jobs[q] = "running"
      BY <2>4 DEF EndJob, TypeOK
    <3>2. \E s \in {"waiting", "done"} : Goes(r, s)
      BY <2>4 DEF EndJob, Ends
    <3>3. UNCHANGED <<disk, interrupted>>
      BY <2>4 DEF EndJob, booting
    <3>4. QED
      BY <3>1, <3>2, <3>3, FewerRunning, MovesOn DEF Stage
  <2>5. CASE SaveEnd
    <3>1. disk.jobs' \in {disk.jobs, jobs}
      BY <2>5 DEF SaveEnd, TypeOK
    <3>2. UNCHANGED <<jobs, stage, interrupted>>
      BY <2>5 DEF SaveEnd, memory, requests, booting
    <3>3. QED
      BY <3>1, <3>2, FewerRunning
  <2>6. ASSUME NEW r \in Request, PrepareFails(r) \/ SaveJobFails(r) \/ AskHold(r) \/ Hold(r)
                                  \/ GiveUp(r) \/ Release(r) \/ Republish(r)
                                  \/ RepublishRefused(r) \/ AskChange(r) \/ Change(r)
        PROVE  OneRunning'
    <3>1. \E s \in {"done", "waiting", "holding", "releasing", "acting"} : Goes(r, s)
      BY <2>6 DEF PrepareFails, SaveJobFails, AskHold, Hold, GiveUp, Release, Republish,
                  RepublishRefused, AskChange, Change, Ends
    <3>2. UNCHANGED <<jobs, disk, interrupted>>
      BY <2>6 DEF PrepareFails, SaveJobFails, AskHold, Hold, GiveUp, Release, Republish,
                  RepublishRefused, AskChange, Change, memory, booting
    <3>3. QED
      BY <3>1, <3>2, FewerRunning, MovesOn DEF Stage
  <2>7. ASSUME NEW r \in Request, Delete(r) PROVE OneRunning'
    <3>1. \A q \in Request : jobs'[q] = "none"
      BY <2>7 DEF Delete
    <3>2. disk.jobs' \in {disk.jobs, jobs'}
      BY <2>7 DEF Delete, TypeOK
    <3>3. Goes(r, "removing") /\ UNCHANGED interrupted
      BY <2>7 DEF Delete, booting
    <3>4. QED
      BY <3>1, <3>2, <3>3, FewerRunning, MovesOn DEF Stage
  <2>8. ASSUME NEW r \in Request, Forget(r) PROVE OneRunning'
    <3>1. disk.jobs' = disk.jobs
      BY <2>8 DEF Forget, TypeOK
    <3>2. Goes(r, "done") /\ UNCHANGED <<jobs, interrupted>>
      BY <2>8 DEF Forget, Ends, booting
    <3>3. QED
      BY <3>1, <3>2, FewerRunning, MovesOn DEF Stage
  <2>9. CASE Crash
    <3>1. \A q \in Request : jobs'[q] # "running" /\ stage'[q] # "preparing"
      BY <2>9 DEF Crash
    <3>2. interrupted' = {q \in Request : disk.jobs[q] = "running"} /\ UNCHANGED disk
      BY <2>9 DEF Crash
    <3>3. QED
      BY <3>1, <3>2, FewerRunning
  <2>10. CASE Restart
    <3>1. UNCHANGED <<jobs, stage>> /\ interrupted' \in {interrupted, {}}
      BY <2>10 DEF Restart, BootReserve, BootRelease, BootWrite, memory, requests
    <3>2. disk.jobs' \in {disk.jobs, jobs}
      BY <2>10 DEF Restart, BootReserve, BootRelease, BootWrite, TypeOK
    <3>3. QED
      BY <3>1, <3>2, FewerRunning
  <2>11. CASE UNCHANGED vars
    BY <2>11, FewerRunning DEF vars, memory, requests, booting
  <2>12. QED
    BY <2>1, <2>2, <2>3, <2>4, <2>5, <2>6, <2>7, <2>8, <2>9, <2>10, <2>11 DEF Next, Ask, Step
<1>3. QED
  BY <1>1, <1>2, TypeCorrect, Reservations, PTL DEF Spec

\* The boot finds at most one interrupted deploy of the project.
THEOREM OneInterruptedHolds == Spec => []OneInterrupted
<1>1. TypeOK /\ OneRunning => OneInterrupted
  <2> SUFFICES ASSUME TypeOK, OneRunning PROVE Cardinality(interrupted) <= 1
    BY DEF OneInterrupted
  <2>1. CASE interrupted = {}
    BY <2>1, FS_EmptySet
  <2>2. CASE interrupted # {}
    <3>1. PICK r \in interrupted : interrupted = {r}
      BY <2>2 DEF OneRunning
    <3>2. Cardinality(interrupted) = 1
      BY <3>1, FS_Singleton
    <3>3. QED
      BY <3>2
  <2>3. QED
    BY <2>1, <2>2
<1>2. QED
  BY <1>1, TypeCorrect, OneRunningHolds, PTL

---------------------------------------------------------------------------
(* A busy project is busy because of somebody *)

\* A step of a request that had no mark of its own takes no mark from anybody.
LEMMA OwnersStay ==
    ASSUME TypeOK, BusyHasOwner, NEW r \in Request, NEW s \in Stage, Goes(r, s),
           stage[r] \notin {"preparing", "saving", "running", "holding"},
           UNCHANGED <<starting, held, boot, lost>>,
           \A q \in Request : jobs'[q] = "running" => jobs[q] = "running"
    PROVE  BusyHasOwner'
<1>1. \A q \in Request : stage[q] \in {"preparing", "saving", "running", "holding"}
                           => stage'[q] = stage[q]
  BY DEF Goes, TypeOK
<1>2. \A q \in Request : jobs'[q] = "running" => stage'[q] \in {"saving", "running"} \/ q \in lost'
  BY <1>1 DEF BusyHasOwner
<1>3. starting' => boot' = "recovering" \/ \E q \in Request : stage'[q] \in {"preparing", "saving"}
  BY <1>1 DEF BusyHasOwner
<1>4. held' => \E q \in Request : stage'[q] = "holding"
  BY <1>1 DEF BusyHasOwner
<1>5. QED
  BY <1>2, <1>3, <1>4 DEF BusyHasOwner

\* No reservation outlives its operation, and the only job that stays "running" with
\* nobody behind it is the one whose first save failed.
THEOREM BusyHasOwnerHolds == Spec => []BusyHasOwner
<1>1. Init => BusyHasOwner
  BY DEF Init, BusyHasOwner
<1>2. TypeOK /\ Exclusive /\ BusyHasOwner /\ [Next]_vars => BusyHasOwner'
  <2> SUFFICES ASSUME TypeOK, Exclusive, BusyHasOwner, [Next]_vars PROVE BusyHasOwner'
    OBVIOUS
  <2>1. ASSUME NEW r \in Request, Reserve(r) PROVE BusyHasOwner'
    <3>1. stage'[r] = "preparing" /\ \A q \in Request : jobs[q] # "running"
      BY <2>1 DEF Reserve, Goes, TypeOK, Busy, DeployRunning
    <3>2. ~held /\ UNCHANGED <<held, jobs, lost>>
      BY <2>1 DEF Reserve, Busy
    <3>3. QED
      BY <3>1, <3>2 DEF BusyHasOwner
  <2>2. ASSUME NEW r \in Request, PrepareFails(r) \/ SaveJob(r) \/ SaveJobFails(r)
        PROVE  BusyHasOwner'
    <3>1. stage[r] \in {"preparing", "saving"} /\ starting' = FALSE
          /\ \A q \in Request \ {r} : stage'[q] = stage[q]
      BY <2>2 DEF PrepareFails, SaveJob, SaveJobFails, Ends, Goes, TypeOK
    <3>2. UNCHANGED <<held, jobs>>
      BY <2>2 DEF PrepareFails, SaveJob, SaveJobFails
    <3>3. \/ PrepareFails(r) /\ stage[r] = "preparing" /\ lost' = lost
          \/ stage'[r] = "running" /\ lost' = lost
          \/ lost' = lost \cup {r}
      BY <2>2 DEF PrepareFails, SaveJob, SaveJobFails, Goes, TypeOK
    <3>4. \A q \in Request : jobs'[q] = "running" => stage'[q] \in {"saving", "running"} \/ q \in lost'
      BY <3>1, <3>2, <3>3 DEF BusyHasOwner
    <3>5. held' => \E q \in Request : stage'[q] = "holding"
      BY <3>1, <3>2 DEF BusyHasOwner
    <3>6. QED
      BY <3>1, <3>4, <3>5 DEF BusyHasOwner
  <2>3. ASSUME NEW r \in Request, PushJob(r) PROVE BusyHasOwner'
    <3>1. stage[r] = "preparing" /\ stage'[r] = "saving"
          /\ \A q \in Request \ {r} : stage'[q] = stage[q]
      BY <2>3 DEF PushJob, Goes, TypeOK
    <3>2. \A q \in Request \ {r} : jobs'[q] = jobs[q]
      BY <2>3 DEF PushJob, TypeOK
    <3>3. UNCHANGED <<held, lost>>
      BY <2>3 DEF PushJob
    <3>4. QED
      BY <3>1, <3>2, <3>3 DEF BusyHasOwner
  <2>4. ASSUME NEW r \in Request, EndJob(r) PROVE BusyHasOwner'
    <3>1. stage[r] = "running" /\ \A q \in Request \ {r} : stage'[q] = stage[q]
      BY <2>4 DEF EndJob, Ends, Goes, TypeOK
    <3>2. jobs'[r] # "running" /\ \A q \in Request \ {r} : jobs'[q] = jobs[q]
      BY <2>4 DEF EndJob, TypeOK
    <3>3. UNCHANGED <<starting, held, boot, lost>>
      BY <2>4 DEF EndJob, booting
    <3>4. QED
      BY <3>1, <3>2, <3>3 DEF BusyHasOwner
  <2>5. ASSUME NEW r \in Request, Hold(r) PROVE BusyHasOwner'
    <3>1. stage[r] = "waiting" /\ stage'[r] = "holding"
          /\ \A q \in Request \ {r} : stage'[q] = stage[q]
      BY <2>5 DEF Hold, Goes, TypeOK
    <3>2. UNCHANGED <<starting, jobs, boot, lost>>
      BY <2>5 DEF Hold, booting
    <3>3. QED
      BY <3>1, <3>2 DEF BusyHasOwner
  <2>6. ASSUME NEW r \in Request, Release(r) \/ Republish(r) PROVE BusyHasOwner'
    <3>1. stage[r] = "holding" /\ held' = FALSE
          /\ \A q \in Request \ {r} : stage'[q] = stage[q]
      BY <2>6 DEF Release, Republish, Ends, Goes, TypeOK
    <3>2. UNCHANGED <<starting, jobs, boot, lost>>
      BY <2>6 DEF Release, Republish, booting
    <3>3. QED
      BY <3>1, <3>2 DEF BusyHasOwner
  <2>7. ASSUME NEW r \in Request, AskHold(r) \/ GiveUp(r) \/ RepublishRefused(r) \/ AskChange(r)
                                  \/ Change(r) \/ Delete(r) \/ Forget(r)
        PROVE  BusyHasOwner'
    <3>1. \E s \in {"waiting", "acting", "removing", "done"} : Goes(r, s)
      BY <2>7 DEF AskHold, GiveUp, RepublishRefused, AskChange, Change, Delete, Forget, Ends
    <3>2. stage[r] \in {"none", "waiting", "releasing", "acting", "removing"}
      BY <2>7 DEF AskHold, GiveUp, RepublishRefused, AskChange, Change, Delete, Forget
    <3>3. UNCHANGED <<starting, held, boot, lost>>
      BY <2>7 DEF AskHold, GiveUp, RepublishRefused, AskChange, Change, Delete, Forget,
                  memory, booting
    <3>4. \A q \in Request : jobs'[q] = "running" => jobs[q] = "running"
      BY <2>7 DEF AskHold, GiveUp, RepublishRefused, AskChange, Change, Delete, Forget, memory
    <3>5. QED
      BY <3>1, <3>2, <3>3, <3>4, OwnersStay DEF Stage
  <2>8. CASE SaveEnd
    BY <2>8 DEF SaveEnd, memory, requests, booting, BusyHasOwner
  <2>9. CASE Crash
    <3>1. starting' = FALSE /\ held' = FALSE /\ \A q \in Request : jobs'[q] # "running"
      BY <2>9 DEF Crash
    <3>2. QED
      BY <3>1 DEF BusyHasOwner
  <2>10. CASE BootReserve
    <3>1. UNCHANGED <<held, jobs, stage, lost>>
      BY <2>10 DEF BootReserve, requests
    <3>2. boot' = "recovering" \/ (starting' = starting /\ boot # "recovering")
      BY <2>10 DEF BootReserve
    <3>3. QED
      BY <3>1, <3>2 DEF BusyHasOwner
  <2>11. CASE BootRelease
    BY <2>11 DEF BootRelease, requests, BusyHasOwner
  <2>12. CASE BootWrite
    BY <2>12 DEF BootWrite, memory, requests, BusyHasOwner
  <2>13. CASE UNCHANGED vars
    BY <2>13 DEF vars, memory, requests, booting, BusyHasOwner
  <2>14. QED
    BY <2>1, <2>2, <2>3, <2>4, <2>5, <2>6, <2>7, <2>8, <2>9, <2>10, <2>11, <2>12, <2>13
    DEF Next, Ask, Step, Restart
<1>3. QED
  BY <1>1, <1>2, TypeCorrect, ExclusiveHolds, PTL DEF Spec

---------------------------------------------------------------------------
(* The count of maintenances *)

LEMMA RestoringFinite == IsFiniteSet(Restoring)
BY RequestAssumption, FS_Subset DEF Restoring

\* The end of a request takes its maintenance away, and only its own.
LEMMA EndsCounts ==
    ASSUME TypeOK, MaintenanceCounts, NEW r \in Request, Ends(r), kind' = kind,
           stage[r] \notin {"none", "done"}
    PROVE  MaintenanceCounts'
<1>1. stage'[r] = "done" /\ \A q \in Request \ {r} : stage'[q] = stage[q]
  BY DEF Ends, Goes, TypeOK
<1>2. CASE kind[r] \in Restores
  <2>1. r \in Restoring /\ Restoring' = Restoring \ {r}
    BY <1>1, <1>2 DEF Restoring
  <2>2. Cardinality(Restoring') = Cardinality(Restoring) - 1
    BY <2>1, RestoringFinite, FS_RemoveElement
  <2>3. Cardinality(Restoring) \in Nat /\ Cardinality(Restoring') \in Nat
    BY <2>1, RestoringFinite, FS_RemoveElement, FS_CardinalityType
  <2>4. maintenance' = IF maintenance > 1 THEN maintenance - 1 ELSE 0
    BY <1>2 DEF Ends
  <2>5. QED
    BY <2>2, <2>3, <2>4 DEF MaintenanceCounts
<1>3. CASE kind[r] \notin Restores
  <2>1. Restoring' = Restoring
    BY <1>1, <1>3 DEF Restoring
  <2>2. QED
    BY <1>3, <2>1 DEF MaintenanceCounts, Ends
<1>4. QED
  BY <1>2, <1>3

\* A request that is neither begun nor ended keeps the count; so does one that is no
\* restore.
LEMMA CountStays ==
    ASSUME TypeOK, MaintenanceCounts, NEW r \in Request, NEW s \in Stage \ {"none", "done"},
           Goes(r, s), UNCHANGED <<kind, maintenance>>,
           stage[r] \notin {"none", "done"} \/ kind[r] \notin Restores
    PROVE  MaintenanceCounts'
<1>1. Restoring' = Restoring
  BY DEF Restoring, Goes, TypeOK
<1>2. QED
  BY <1>1 DEF MaintenanceCounts

\* The monitor is silent exactly while a restore is in progress.
THEOREM MaintenanceHolds == Spec => []MaintenanceCounts
<1>1. Init => MaintenanceCounts
  <2> SUFFICES ASSUME Init PROVE MaintenanceCounts
    OBVIOUS
  <2>1. Restoring = {} /\ maintenance = 0
    BY DEF Init, Restoring
  <2>2. QED
    BY <2>1, FS_EmptySet DEF MaintenanceCounts
<1>2. TypeOK /\ MaintenanceCounts /\ [Next]_vars => MaintenanceCounts'
  <2> SUFFICES ASSUME TypeOK, MaintenanceCounts, [Next]_vars PROVE MaintenanceCounts'
    OBVIOUS
  <2>1. ASSUME NEW r \in Request,
               Reserve(r) \/ PushJob(r) \/ SaveJob(r) \/ Hold(r) \/ Republish(r) \/ AskChange(r)
                 \/ Delete(r)
        PROVE  MaintenanceCounts'
    <3>1. \E s \in {"preparing", "saving", "running", "holding", "releasing", "acting", "removing"} :
            Goes(r, s)
      BY <2>1 DEF Reserve, PushJob, SaveJob, Hold, Republish, AskChange, Delete
    <3>2. UNCHANGED <<kind, maintenance>>
      BY <2>1 DEF Reserve, PushJob, SaveJob, Hold, Republish, AskChange, Delete, memory
    <3>3. stage[r] \notin {"none", "done"} \/ kind[r] \notin Restores
      BY <2>1 DEF Reserve, PushJob, SaveJob, Hold, Republish, AskChange, Delete, Restores
    <3>4. QED
      BY <3>1, <3>2, <3>3, CountStays DEF Stage
  <2>2. ASSUME NEW r \in Request,
               PrepareFails(r) \/ SaveJobFails(r) \/ GiveUp(r) \/ Release(r)
                 \/ RepublishRefused(r) \/ Change(r) \/ Forget(r)
        PROVE  MaintenanceCounts'
    <3>1. Ends(r) /\ kind' = kind /\ stage[r] \notin {"none", "done"}
      BY <2>2 DEF PrepareFails, SaveJobFails, GiveUp, Release, RepublishRefused, Change, Forget
    <3>2. QED
      BY <3>1, EndsCounts
  <2>3. ASSUME NEW r \in Request, EndJob(r) PROVE MaintenanceCounts'
    <3>1. kind' = kind /\ stage[r] = "running"
      BY <2>3 DEF EndJob
    <3>2. Ends(r) \/ (Goes(r, "waiting") /\ UNCHANGED maintenance)
      BY <2>3 DEF EndJob
    <3>3. QED
      BY <3>1, <3>2, EndsCounts, CountStays DEF Stage
  <2>4. ASSUME NEW r \in Request, AskHold(r) PROVE MaintenanceCounts'
    <3>1. stage[r] = "none" /\ stage'[r] = "waiting" /\ kind' = kind
          /\ \A q \in Request \ {r} : stage'[q] = stage[q]
      BY <2>4 DEF AskHold, Goes, TypeOK
    <3>2. CASE kind[r] \in Restores
      <4>1. r \notin Restoring /\ Restoring' = Restoring \cup {r}
        BY <3>1, <3>2 DEF Restoring
      <4>2. Cardinality(Restoring') = Cardinality(Restoring) + 1
        BY <4>1, RestoringFinite, FS_AddElement
      <4>3. maintenance' = maintenance + 1
        BY <2>4, <3>2 DEF AskHold
      <4>4. QED
        BY <4>2, <4>3 DEF MaintenanceCounts
    <3>3. CASE kind[r] \notin Restores
      <4>1. Restoring' = Restoring
        BY <3>1, <3>3 DEF Restoring
      <4>2. maintenance' = maintenance
        BY <2>4, <3>3 DEF AskHold, TypeOK
      <4>3. QED
        BY <4>1, <4>2 DEF MaintenanceCounts
    <3>4. QED
      BY <3>2, <3>3
  <2>5. CASE Crash
    <3>1. Restoring' = {} /\ maintenance' = 0
      BY <2>5 DEF Crash, Restoring
    <3>2. QED
      BY <3>1, FS_EmptySet DEF MaintenanceCounts
  <2>6. CASE SaveEnd \/ Restart \/ UNCHANGED vars
    <3>1. UNCHANGED <<maintenance, kind, stage>>
      BY <2>6 DEF SaveEnd, Restart, BootReserve, BootRelease, BootWrite, vars, memory, requests
    <3>2. QED
      BY <3>1 DEF MaintenanceCounts, Restoring
  <2>7. QED
    BY <2>1, <2>2, <2>3, <2>4, <2>5, <2>6 DEF Next, Ask, Step
<1>3. QED
  BY <1>1, <1>2, TypeCorrect, PTL DEF Spec
=============================================================================
