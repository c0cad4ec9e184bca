------------------------------ MODULE ProjectGate ------------------------------
(***************************************************************************)
(* Who may work on ONE project of the panel, and when: the reservations    *)
(* that deploy-service.ts keeps in memory (`starting`, `backupHeld`,       *)
(* `maintenance`, the jobs themselves), the operations that take them      *)
(* (deploy and recreate, backup, restore, restore from an upload, stop and *)
(* start, delete) and the boot that finds the jobs a restart interrupted.  *)
(*                                                                         *)
(* The panel is one Node process: what runs between two awaits is one      *)
(* step, and every await lets any other request in.  Checking and marking  *)
(* a reservation is one step; stop, start and delete check and mark        *)
(* nothing.                                                                *)
(*                                                                         *)
(* Simplifications: a refused request (409, 404) changes nothing and is    *)
(* not a step; the 45 minutes a restore waits for its own deploy are left  *)
(* out (it waits to the end); what the operations do is in BlueGreen.      *)
(***************************************************************************)
EXTENDS Naturals, FiniteSets

CONSTANTS
    Request,     \* the operations asked for during the life of the project (a bound)
    MaxCrashes   \* bound: restarts of the panel

ASSUME RequestAssumption == IsFiniteSet(Request)
ASSUME CrashAssumption == MaxCrashes \in Nat

Kind   == {"deploy", "backup", "restore", "upload", "change", "delete"}
Stage  == {"none", "preparing", "saving", "running", "waiting", "holding", "releasing",
           "acting", "removing", "done"}
Job    == {"none", "running", "success", "failed"}
Holds    == {"backup", "restore", "upload"}   \* take holdProject
Restores == {"restore", "upload"}             \* take holdMaintenance too

VARIABLES
    starting,     \* the project is in `starting`
    held,         \* the project is in `backupHeld`
    maintenance,  \* the project's count in `maintenance`
    jobs,         \* `jobs` in memory: a deploy's job is named as the request
    present,      \* the project is in `projects`
    kind, stage,  \* what each request asks for and where it is
    republished,  \* the restores that already published the project
    unsaved,      \* the end of a job is not in the file yet
    lost,         \* the jobs whose first save failed (history)
    interrupted,  \* `interruptedJobs`
    boot,         \* recoverInterruptedDeploys
    disk,         \* the files: the jobs and whether the project is listed
    crashes

memory == <<starting, held, maintenance, jobs, present>>
requests == <<kind, stage, republished>>
booting == <<interrupted, boot>>
vars == <<memory, requests, unsaved, lost, booting, disk, crashes>>

\* assertNoDeployRunning and assertNotBusy.
DeployRunning == starting \/ \E r \in Request : jobs[r] = "running"
BusyIgnoringHolds == DeployRunning   \* mutant: a hold does not keep a deploy out
Busy == DeployRunning \/ held

\* Mutant: a deploy counts from its job on.
CleanupWaitsForJobs == held \/ maintenance > 0 \/ \E r \in Request : jobs[r] = "running"

\* hasActiveDeploys and hasHeldProjects, which make the Docker cleanup wait.
CleanupWaits == DeployRunning \/ held \/ maintenance > 0

TypeOK ==
    /\ starting \in BOOLEAN /\ held \in BOOLEAN /\ present \in BOOLEAN /\ unsaved \in BOOLEAN
    /\ maintenance \in Nat /\ crashes \in Nat
    /\ jobs \in [Request -> Job]
    /\ kind \in [Request -> Kind] /\ stage \in [Request -> Stage]
    /\ republished \subseteq Request /\ lost \subseteq Request /\ interrupted \subseteq Request
    /\ boot \in {"pending", "recovering", "writing", "done"}
    /\ disk \in [jobs : [Request -> Job], present : BOOLEAN]

Init ==
    /\ starting = FALSE /\ held = FALSE /\ maintenance = 0
    /\ jobs = [r \in Request |-> "none"]
    /\ present = TRUE
    /\ kind \in [Request -> Kind]
    /\ stage = [r \in Request |-> "none"]
    /\ republished = {} /\ unsaved = FALSE /\ lost = {} /\ interrupted = {}
    /\ boot = "done"
    /\ disk = [jobs |-> jobs, present |-> TRUE]
    /\ crashes = 0

Goes(r, s) == stage' = [stage EXCEPT ![r] = s]

\* Mutant: every hold ends a maintenance.
EndsAnyHold(r) ==
    /\ Goes(r, "done")
    /\ maintenance' = maintenance - (IF kind[r] \in Holds THEN 1 ELSE 0)

\* The end of a request; a restore ends its maintenance, never below zero.
Ends(r) ==
    /\ Goes(r, "done")
    /\ maintenance' = IF kind[r] \notin Restores THEN maintenance
                      ELSE IF maintenance > 1 THEN maintenance - 1 ELSE 0

---------------------------------------------------------------------------
(* Deploy and recreate *)

\* reserveProject: nothing is awaited between the check and the mark.
Reserve(r) ==
    /\ \/ stage[r] = "none" /\ kind[r] = "deploy"
       \/ stage[r] = "releasing"                     \* the deploy a restore asks for
    /\ present /\ ~Busy
    /\ starting' = TRUE
    /\ Goes(r, "preparing")
    /\ UNCHANGED <<held, maintenance, jobs, present, kind, republished, unsaved, lost, booting,
                   disk, crashes>>

\* Mutant: a refusal keeps the reservation.
PrepareFailsReserved(r) ==
    /\ stage[r] = "preparing"
    /\ Ends(r)
    /\ UNCHANGED <<starting, held, jobs, present, kind, republished, unsaved, lost, booting, disk,
                   crashes>>

\* Detection, variables, guardrails: refused, and the reservation is given back.
PrepareFails(r) ==
    /\ stage[r] = "preparing"
    /\ starting' = FALSE
    /\ Ends(r)
    /\ UNCHANGED <<held, jobs, present, kind, republished, unsaved, lost, booting, disk, crashes>>

PushJob(r) ==
    /\ stage[r] = "preparing"
    /\ jobs' = [jobs EXCEPT ![r] = "running"]
    /\ Goes(r, "saving")
    /\ UNCHANGED <<starting, held, maintenance, present, kind, republished, unsaved, lost, booting,
                   disk, crashes>>

\* Mutant: only the new job is written, not the list of now.
SaveJobOnly(r) ==
    /\ stage[r] = "saving"
    /\ disk' = [disk EXCEPT !.jobs[r] = jobs[r]]
    /\ starting' = FALSE
    /\ Goes(r, "running")
    /\ UNCHANGED <<held, maintenance, jobs, present, kind, republished, unsaved, lost, booting, crashes>>

\* The job is in the file: its body starts and the reservation is given back.
SaveJob(r) ==
    /\ stage[r] = "saving"
    /\ disk' = [disk EXCEPT !.jobs = jobs]
    /\ starting' = FALSE
    /\ Goes(r, "running")
    /\ UNCHANGED <<held, maintenance, jobs, present, kind, republished, unsaved, lost, booting, crashes>>

\* The save fails: the request ends, the job stays "running" without a body.
SaveJobFails(r) ==
    /\ stage[r] = "saving"
    /\ starting' = FALSE
    /\ lost' = lost \cup {r}
    /\ Ends(r)
    /\ UNCHANGED <<held, jobs, present, kind, republished, unsaved, booting, disk, crashes>>

\* The body ends; a job that a delete took out of the list ends unseen.  A restore
\* whose deploy succeeded goes back to wait for the project.
EndJob(r) ==
    /\ stage[r] = "running"
    /\ \E result \in {"success", "failed"} :
         /\ jobs' = [jobs EXCEPT ![r] = IF @ = "none" THEN "none" ELSE result]
         /\ IF kind[r] = "restore" /\ result = "success"
            THEN Goes(r, "waiting") /\ UNCHANGED maintenance
            ELSE Ends(r)
    /\ unsaved' = TRUE
    /\ UNCHANGED <<starting, held, present, kind, republished, lost, booting, disk, crashes>>

\* The last save of a job: it may fail, and is only warned of.
SaveEnd ==
    /\ unsaved /\ unsaved' = FALSE
    /\ disk' \in {disk, [disk EXCEPT !.jobs = jobs]}
    /\ UNCHANGED <<memory, requests, lost, booting, crashes>>

---------------------------------------------------------------------------
(* Backup and restore *)

\* The maintenance of a restore begins before it waits for the project.
AskHold(r) ==
    /\ stage[r] = "none" /\ kind[r] \in Holds /\ present
    /\ maintenance' = maintenance + (IF kind[r] \in Restores THEN 1 ELSE 0)
    /\ Goes(r, "waiting")
    /\ UNCHANGED <<starting, held, jobs, present, kind, republished, unsaved, lost, booting, disk,
                   crashes>>

\* holdProject, tried again and again by holdProjectDuring.
Hold(r) ==
    /\ stage[r] = "waiting" /\ present /\ ~Busy
    /\ held' = TRUE
    /\ Goes(r, "holding")
    /\ UNCHANGED <<starting, maintenance, jobs, present, kind, republished, unsaved, lost, booting,
                   disk, crashes>>

\* Mutant: who gives up leaves the maintenance on.
GiveUpSilent(r) ==
    /\ stage[r] = "waiting" /\ (Busy \/ ~present)
    /\ Goes(r, "done")
    /\ UNCHANGED <<memory, kind, republished, unsaved, lost, booting, disk, crashes>>

\* The wait has an end (an upload does not wait at all).
GiveUp(r) ==
    /\ stage[r] = "waiting" /\ (Busy \/ ~present)
    /\ Ends(r)
    /\ UNCHANGED <<starting, held, jobs, present, kind, republished, unsaved, lost, booting, disk,
                   crashes>>

\* Mutant: the hold outlives its operation.
ReleaseNothing(r) ==
    /\ stage[r] = "holding"
    /\ Ends(r)
    /\ UNCHANGED <<starting, held, jobs, present, kind, republished, unsaved, lost, booting, disk,
                   crashes>>
Release(r) ==
    /\ stage[r] = "holding"
    /\ held' = FALSE
    /\ Ends(r)
    /\ UNCHANGED <<starting, jobs, present, kind, republished, unsaved, lost, booting, disk, crashes>>

\* A restore into a project without containers publishes it first: the project is
\* let go of for the time of that deploy, which is refused if somebody else came.
Republish(r) ==
    /\ stage[r] = "holding" /\ kind[r] = "restore" /\ r \notin republished
    /\ held' = FALSE
    /\ republished' = republished \cup {r}
    /\ Goes(r, "releasing")
    /\ UNCHANGED <<starting, maintenance, jobs, present, kind, unsaved, lost, booting, disk, crashes>>
RepublishRefused(r) ==
    /\ stage[r] = "releasing" /\ (Busy \/ ~present)
    /\ Ends(r)
    /\ UNCHANGED <<starting, held, jobs, present, kind, republished, unsaved, lost, booting, disk,
                   crashes>>

---------------------------------------------------------------------------
(* Stop, start and delete: checked, never reserved *)

AskChange(r) ==
    /\ stage[r] = "none" /\ kind[r] \in {"change", "delete"} /\ present /\ ~DeployRunning
    /\ Goes(r, "acting")
    /\ UNCHANGED <<memory, kind, republished, unsaved, lost, booting, disk, crashes>>

Change(r) ==
    /\ stage[r] = "acting" /\ kind[r] = "change"
    /\ Ends(r)
    /\ UNCHANGED <<starting, held, jobs, present, kind, republished, unsaved, lost, booting, disk,
                   crashes>>

\* The containers are gone: the project and its jobs leave the lists, the jobs the
\* file too (best effort); the list of projects is written at the very end.
Delete(r) ==
    /\ stage[r] = "acting" /\ kind[r] = "delete"
    /\ present' = FALSE
    /\ jobs' = [q \in Request |-> "none"]
    /\ disk' \in {disk, [disk EXCEPT !.jobs = jobs']}
    /\ Goes(r, "removing")
    /\ UNCHANGED <<starting, held, maintenance, kind, republished, unsaved, lost, booting, crashes>>
Forget(r) ==
    /\ stage[r] = "removing"
    /\ disk' = [disk EXCEPT !.present = FALSE]
    /\ Ends(r)
    /\ UNCHANGED <<starting, held, jobs, present, kind, republished, unsaved, lost, booting, crashes>>

---------------------------------------------------------------------------
(* Restart of the panel *)

\* Nothing in memory survives.  A job still "running" in the file becomes a failed
\* one in memory, and the file keeps saying so until the recovery ends.
Crash ==
    /\ crashes < MaxCrashes /\ crashes' = crashes + 1
    /\ starting' = FALSE /\ held' = FALSE /\ maintenance' = 0 /\ unsaved' = FALSE
    /\ stage' = [r \in Request |-> IF stage[r] = "none" THEN "none" ELSE "done"]
    /\ interrupted' = {r \in Request : disk.jobs[r] = "running"}
    /\ jobs' = [r \in Request |-> IF disk.jobs[r] = "running" THEN "failed" ELSE disk.jobs[r]]
    /\ present' = disk.present
    /\ boot' = "pending"
    /\ UNCHANGED <<kind, republished, lost, disk>>

\* recoverInterruptedDeploys runs beside the requests and reserves as they do; it
\* skips a project that somebody reserved first.
BootReserve ==
    /\ boot = "pending"
    /\ IF present /\ ~Busy
       THEN starting' = TRUE /\ boot' = "recovering"
       ELSE boot' = "writing" /\ UNCHANGED starting
    /\ UNCHANGED <<held, maintenance, jobs, present, requests, unsaved, lost, interrupted, disk,
                   crashes>>
BootRelease ==
    /\ boot = "recovering"
    /\ starting' = FALSE
    /\ boot' = "writing"
    /\ UNCHANGED <<held, maintenance, jobs, present, requests, unsaved, lost, interrupted, disk,
                   crashes>>

\* Only when a job was interrupted; the save may fail.
BootWrite ==
    /\ boot = "writing" /\ boot' = "done"
    /\ disk' \in {disk, [disk EXCEPT !.jobs = IF interrupted = {} THEN @ ELSE jobs]}
    /\ interrupted' = {}
    /\ UNCHANGED <<memory, requests, unsaved, lost, crashes>>

\* Work that goes on by itself once begun, for one request.
Step(r) ==
    \/ PrepareFails(r) \/ PushJob(r) \/ SaveJob(r) \/ SaveJobFails(r) \/ EndJob(r)
    \/ Hold(r) \/ GiveUp(r) \/ Release(r) \/ Republish(r) \/ RepublishRefused(r)
    \/ Change(r) \/ Delete(r) \/ Forget(r)
    \/ stage[r] = "releasing" /\ Reserve(r)
Ask(r) == (stage[r] = "none" /\ Reserve(r)) \/ AskHold(r) \/ AskChange(r)
Restart == BootReserve \/ BootRelease \/ BootWrite

Next == (\E r \in Request : Ask(r) \/ Step(r)) \/ SaveEnd \/ Crash \/ Restart

Spec == Init /\ [][Next]_vars

\* Every operation that began goes on: promises settle, polls are repeated, a job's
\* body has time limits on each command it runs.
FairSpec == Spec /\ WF_vars(Restart) /\ \A r \in Request : WF_vars(Step(r))

---------------------------------------------------------------------------
(* What must hold *)

\* The requests that work on the containers or the data under a reservation.
Active(r) == stage[r] \in {"preparing", "saving", "running", "holding"}

\* A deploy, a backup, a restore and the recovery at boot never work on the project
\* at the same time: neither two deploys clicked together, nor one that starts while
\* a restore let the project go to publish it.
Exclusive ==
    /\ \A r, s \in Request : Active(r) /\ Active(s) => r = s
    /\ boot = "recovering" => \A r \in Request : ~Active(r)

\* The cleanup of Docker waits for all of them (of a project that exists).
CleanupSees == present => \A r \in Request : Active(r) => CleanupWaits

\* The file never tells of two interrupted deploys of the project, whatever saves
\* failed: the boot recovers each one with the start time of that job.
OneInterrupted == Cardinality(interrupted) <= 1

\* A project is busy because of somebody: of a live job, except one whose first save
\* failed.
BusyHasOwner ==
    /\ \A r \in Request : jobs[r] = "running" => stage[r] \in {"saving", "running"} \/ r \in lost
    /\ starting => boot = "recovering" \/ \E r \in Request : stage[r] \in {"preparing", "saving"}
    /\ held => \E r \in Request : stage[r] = "holding"

\* The monitor is silent ("maintenance") exactly while some restore is in progress;
\* two at a time do not end each other's silence.
Restoring == {r \in Request : kind[r] \in Restores /\ stage[r] \notin {"none", "done"}}
MaintenanceCounts == maintenance = Cardinality(Restoring)

\* Whoever has the project gives it back, unless a job lost its first save.
GetsFree == Busy ~> (~Busy \/ lost # {})

\* "Parar, iniciar e remover durante um deploy brigariam com ele [...]: recusa na hora"
\* (assertNoDeployRunning): none of them is at work while a deploy is.
ChangesKeepOut ==
    \A r, s \in Request :
        stage[r] = "acting" => stage[s] \notin {"preparing", "saving", "running"}
=============================================================================
