------------------------- MODULE BlueGreenDockerProofs -------------------------
(***************************************************************************)
(* Proofs about BlueGreen as long as no docker command has failed: reloads  *)
(* may be refused, the panel may die at any step, a person may stop the     *)
(* project at any moment, swaps may be possible or not.  The last running   *)
(* container is then taken down only where the code means to, at boot and   *)
(* while a leftover is settled too, and the alias picked for a new version  *)
(* belongs to nobody else.                                                 *)
(***************************************************************************)
EXTENDS BlueGreenProofs

-----------------------------------------------------------------------------
(* What holds whatever happens. *)

\* A version is the number of a deploy that began; a stop() names versions that
\* were there when it was asked for, before the deploy in progress began.
Numbered == \A n \in Names : ctr[n].ver <= deploys
Named == \A v \in stopping : v <= deploys /\ (pc # "idle" => v < deploys)

\* A container has the alias of the project and at most one other.
Pair(s) == \E x \in Alias : s \subseteq {"slug", x}
TwoNames == (\A n \in Names : Pair(ctr[n].alias)) /\ Pair(job.joining)

\* Promotion ends a swap, an undo or a recovery; who began one gets the answer.
Promotes == pc \in {"promote", "promote_join", "rename"}
SwapBegun == {"drop", "run", "wait", "alias", "alias_join", "repoint", "reprobe", "rmprev", "keepold",
              "rmold", "stopold"}
Returns == pc \in SwapBegun => job.ret = "swap"

\* Until it renames or removes the old version a job has done neither.
Untouched == SettleSteps \cup (SwapBegun \ {"stopold"}) \cup
    {"recover", "recover_alias", "recover_join", "recover_next", "recover_stop", "recover_keep",
     "recover_rename", "notice", "plan"}
Before == pc \in Untouched \/ (Promotes /\ job.ret = "recover") => ~job.renamed /\ ~job.removedOld

\* The file says "running" from the beginning of a job to the end of it, or of its recovery.
Open == pc \notin {"idle", "down", "bootsync"} /\ job.caller # "bootsettle" => disk.status = "running"

\* The new version runs from its start to the end of the deploy: a stop() asked for
\* before the deploy began does not name it.
NewUp ==
    /\ pc \in NewRuns \/ (Promotes /\ job.ret = "swap") => Running("next") /\ ctr["next"].ver = deploys
    /\ pc \in {"proxy", "health", "finish", "success", "save_project"} =>
           Running("current") /\ ctr["current"].ver = deploys

\* What the settling of a leftover and the recovery rest on while they take others away.
Holds ==
    ~disk.stopped =>
        /\ pc \in {"settle_back", "settle_stop", "settle_leave", "settle_rm"} => Running("current")
        /\ pc \in {"recover_stop", "recover_keep"} => Running("next")
        /\ pc \in {"boot_rename", "boot_rm", "boot_rename2"} => Running("previous")

Always == Numbered /\ Named /\ TwoNames /\ Returns /\ Before /\ Open /\ NewUp /\ Holds

-----------------------------------------------------------------------------
(* What the docker commands do to each container. *)

LEMMA Effects ==
    ASSUME ctr \in Machine
    PROVE  /\ Names = {"current", "next", "previous"}
           /\ Absent.ver = 0 /\ ~Absent.run /\ Absent.alias = {}
           /\ \A n \in Names :
                 /\ Remove(n)[n] = Absent
                 /\ Stop(n)[n].ver = ctr[n].ver /\ ~Stop(n)[n].run /\ Stop(n)[n].alias = ctr[n].alias
                 /\ Leave(n)[n].ver = ctr[n].ver /\ Leave(n)[n].run = ctr[n].run /\ Leave(n)[n].alias = {}
                 /\ Begin(n)[n].ver = ctr[n].ver /\ Begin(n)[n].run = (ctr[n].ver # 0)
                 /\ Begin(n)[n].alias = ctr[n].alias
                 /\ \A a : /\ Join(n, a)[n].ver = ctr[n].ver /\ Join(n, a)[n].run = ctr[n].run
                           /\ Join(n, a)[n].alias \in {a, {}}
                 /\ \A a, up : /\ Create(n, a, up)[n].ver = deploys /\ Create(n, a, up)[n].run = up
                               /\ Create(n, a, up)[n].alias = a
                 /\ \A m \in Names \ {n} :
                       /\ Remove(n)[m] = ctr[m] /\ Stop(n)[m] = ctr[m] /\ Leave(n)[m] = ctr[m]
                       /\ Begin(n)[m] = ctr[m]
                       /\ \A a : Join(n, a)[m] = ctr[m]
                       /\ \A a, up : Create(n, a, up)[m] = ctr[m]
                       /\ Rename(m, n)[n] = ctr[m] /\ Rename(m, n)[m] = Absent
                       /\ \A k \in Names \ {m, n} : Rename(m, n)[k] = ctr[k]
<1>1. Names = {"current", "next", "previous"} /\ Absent.ver = 0 /\ ~Absent.run /\ Absent.alias = {}
  BY DEF Names, Absent
<1>2. ASSUME NEW n \in Names
      PROVE  /\ Remove(n)[n] = Absent
             /\ Stop(n)[n].ver = ctr[n].ver /\ ~Stop(n)[n].run /\ Stop(n)[n].alias = ctr[n].alias
             /\ Leave(n)[n].ver = ctr[n].ver /\ Leave(n)[n].run = ctr[n].run /\ Leave(n)[n].alias = {}
  BY DEF Remove, Stop, Leave, Machine, Container
<1>3. ASSUME NEW n \in Names
      PROVE  Begin(n)[n].ver = ctr[n].ver /\ Begin(n)[n].run = (ctr[n].ver # 0)
             /\ Begin(n)[n].alias = ctr[n].alias
  BY DEF Begin, Exists, Machine, Container
<1>4. ASSUME NEW n \in Names, NEW a
      PROVE  /\ Join(n, a)[n].ver = ctr[n].ver /\ Join(n, a)[n].run = ctr[n].run
             /\ Join(n, a)[n].alias \in {a, {}}
  BY DEF Join, Exists, Machine, Container
<1>5. ASSUME NEW n \in Names, NEW a, NEW up
      PROVE  /\ Create(n, a, up)[n].ver = deploys /\ Create(n, a, up)[n].run = up
             /\ Create(n, a, up)[n].alias = a
  BY DEF Create, Machine
<1>6. ASSUME NEW n \in Names, NEW m \in Names \ {n}
      PROVE  /\ Remove(n)[m] = ctr[m] /\ Stop(n)[m] = ctr[m] /\ Leave(n)[m] = ctr[m]
             /\ Begin(n)[m] = ctr[m]
             /\ \A a : Join(n, a)[m] = ctr[m]
             /\ \A a, up : Create(n, a, up)[m] = ctr[m]
             /\ Rename(m, n)[n] = ctr[m] /\ Rename(m, n)[m] = Absent
             /\ \A k \in Names \ {m, n} : Rename(m, n)[k] = ctr[k]
  BY DEF Remove, Stop, Leave, Begin, Join, Create, Rename, Machine
<1>7. QED
  BY <1>1, <1>2, <1>3, <1>4, <1>5, <1>6

-----------------------------------------------------------------------------
(* It is inductive. *)

\* No command but `docker run` makes a version, and none but it and `docker network
\* connect` gives an alias.
LEMMA QuietKeeps ==
    ASSUME ctr \in Machine, NEW c, Quiet(c), NEW n \in Names
    PROVE  \/ c[n].ver = 0 /\ c[n].alias = {}
           \/ \E m \in Names : c[n].ver = ctr[m].ver /\ c[n].alias \in {ctr[m].alias, {}, job.joining}
<1>1. CASE c = ctr
  BY <1>1
<1>2. CASE \E k \in Names : c \in {Remove(k), Stop(k), Leave(k)}
  <2>1. PICK k \in Names : c \in {Remove(k), Stop(k), Leave(k)}
    BY <1>2
  <2>2. CASE k = n
    BY <2>1, <2>2, Effects
  <2>3. CASE k # n
    BY <2>1, <2>3, Effects
  <2>4. QED
    BY <2>2, <2>3
<1>3. CASE \E k \in Names : c = Join(k, job.joining)
  <2>1. PICK k \in Names : c = Join(k, job.joining)
    BY <1>3
  <2>2. CASE k = n
    BY <2>1, <2>2, Effects
  <2>3. CASE k # n
    BY <2>1, <2>3, Effects
  <2>4. QED
    BY <2>2, <2>3
<1>4. CASE \E k, m \in Names : c = Rename(k, m)
  <2>1. PICK k \in Names, m \in Names : c = Rename(k, m)
    BY <1>4
  <2>2. c[n] \in {ctr[n], ctr[k], Absent}
    BY <2>1 DEF Rename, Machine
  <2>3. QED
    BY <2>2, Effects
<1>5. QED
  BY <1>1, <1>2, <1>3, <1>4 DEF Quiet

LEMMA NumberedStep == ASSUME Typed, Numbered, [Next]_vars PROVE Numbered'
<1> USE DEF Numbered
<1>1. ctr \in Machine /\ deploys \in Nat
  BY DEF Typed
<1>2. CASE Panel
  <2>1. deploys' = deploys
    BY <1>2, PanelKeeps
  <2>2. CASE Quiet(ctr')
    <3>1. ASSUME NEW n \in Names PROVE ctr'[n].ver <= deploys
      BY <1>1, <2>2, QuietKeeps
    <3>2. QED
      BY <2>1, <3>1
  <2>3. CASE Creates \/ Begins
    BY <1>1, <2>1, <2>3, Effects DEF Creates, Begins
  <2>4. QED
    BY <1>2, <2>2, <2>3, PanelWorks
<1>3. CASE Stopped
  BY <1>1, <1>3, StoppedKeeps DEF Stopped
<1>4. CASE PersonStart
  BY <1>1, <1>4, Effects DEF PersonStart
<1>5. CASE StartDeploy
  <2>1. \A n \in Names : ctr[n].ver \in Nat
    BY <1>1 DEF Machine, Container
  <2>2. QED
    BY <1>1, <1>5, <2>1 DEF StartDeploy
<1>6. CASE UNCHANGED <<ctr, deploys>>
  BY <1>6
<1>7. QED
  BY <1>2, <1>3, <1>4, <1>5, <1>6
     DEF Next, Crash, Boot, AskStop, OtherCompute, OtherLoad, CaddyRestart, vars

LEMMA NamedStep == ASSUME Typed, BootWorks, Numbered, Named, [Next]_vars PROVE Named'
<1> USE DEF Named
<1>1. deploys \in Nat /\ stopping \subseteq Nat
  BY DEF Typed
<1>2. CASE Panel
  BY <1>2, PanelKeeps, PanelGoes
<1>3. CASE StartDeploy
  BY <1>1, <1>3 DEF StartDeploy
<1>4. CASE Crash \/ Stopped
  BY <1>4 DEF Crash, Stopped
<1>5. CASE Boot
  BY <1>5 DEF Boot, BootWorks
<1>6. CASE AskStop
  BY <1>6 DEF AskStop, Numbered, Names
<1>7. CASE UNCHANGED <<pc, deploys, stopping>>
  BY <1>7
<1>8. QED
  BY <1>2, <1>3, <1>4, <1>5, <1>6, <1>7
     DEF Next, PersonStart, OtherCompute, OtherLoad, CaddyRestart, vars

\* What is to be joined: the aliases of one container and the alias of the project.
LEMMA JoiningIs ==
    ASSUME Typed, Panel
    PROVE  \/ job'.joining = job.joining
           \/ pc = "alias" /\ job'.joining = {"slug", job.alias}
           \/ \E n \in Names : job'.joining = {"slug"} \cup ctr[n].alias
<1>1. CASE Settle
  BY <1>1 DEF Typed, Jobs, Settle, SettleClean, SettleStopped, SettlePromote, SettleCheck, SettleSync,
         SettleRelease, SettleBack, SettleRemove, Applies, Refused, Tries, Does, Fails
<1>2. CASE Direct
  BY <1>2 DEF Direct, PlanDirect, DirectClear, DirectRun, RunsInto, Renames, Tries, Does, Fails
<1>3. CASE Swap
  <2>1. CASE PlanSwap \/ DropLeftover \/ StartNext \/ NextReady \/ NextUnhealthy \/ DropFailed \/ AliasNext
             \/ Repoint \/ Reprobe
    BY <2>1 DEF Typed, Jobs, PlanSwap, DropLeftover, StartNext, NextReady, NextUnhealthy,
         DropFailed, AliasNext, Moves, Repoint, Reprobe, RunsInto, Applies, Refused, Tries, Does, Fails
  <2>2. CASE RemovePrevious \/ KeepOld \/ StopOld \/ RemoveOld \/ PromoteNext \/ RenameNext
    BY <2>2 DEF Typed, Jobs, Names, RemovePrevious, KeepOld, StopOld,
         RemoveOld, PromoteNext, RenameNext, Tries, Does, Fails
  <2>3. QED
    BY <1>3, <2>1, <2>2 DEF Swap
<1>4. CASE Undo
  BY <1>4 DEF Typed, Jobs, Undo, Abort, AbortStart, AbortCheck, AbortRepoint, AbortRemove,
         Renames, Applies, Refused, Tries, Does, Fails
<1>5. CASE Ending
  BY <1>5 DEF Ending, Proxy, Healthy, Unhealthy, Finish, Rollback, Succeed, Fail,
         Save, Saves, Renames, Applies, Refused, Tries, Does, Fails
<1>6. CASE Recover
  BY <1>6 DEF Typed, Jobs, Names, Recover, RecoverCurrent, RecoverAlias, RecoverDown, RecoverNext,
         RecoverPromote, BootMain, BootSave, BootSync, Saves, Renames, Applies, Refused, Tries,
         Does, Fails
<1>7. CASE Notice \/ BuildFails
  BY <1>7, NoticeAt DEF BuildFails
<1>8. QED
  BY <1>1, <1>2, <1>3, <1>4, <1>5, <1>6, <1>7 DEF Panel

LEMMA TwoNamesStep == ASSUME Typed, Aliased, TwoNames, [Next]_vars PROVE TwoNames'
<1>1. ctr \in Machine /\ "slug" \in Alias
  BY DEF Typed, Alias
<1>2. Pair({}) /\ Pair({"slug"})
  BY <1>1 DEF Pair
<1>3. (\A n \in Names : Pair(ctr[n].alias)) /\ Pair(job.joining)
  BY DEF TwoNames
<1>4. ASSUME pc \in {"run", "alias"} PROVE Pair({job.alias}) /\ Pair({"slug", job.alias})
  BY <1>4 DEF Pair, Aliased, Typed, Jobs, Upstream
<1>5. CASE Panel
  <2>1. Pair(job'.joining)
    <3>1. ASSUME NEW n \in Names PROVE Pair({"slug"} \cup ctr[n].alias)
      BY <1>3 DEF Pair
    <3>2. QED
      BY <1>3, <1>4, <1>5, <3>1, JoiningIs
  <2>2. ASSUME NEW n \in Names PROVE Pair(ctr'[n].alias)
    <3>1. CASE Quiet(ctr')
      BY <1>1, <1>2, <1>3, <3>1, QuietKeeps
    <3>2. CASE Creates
      <4>1. PICK k \in Names, up \in BOOLEAN, a \in {{"slug"}, {job.alias}} :
                  ctr' = Create(k, a, up) /\ (a = {"slug"} \/ pc = "run")
        BY <3>2 DEF Creates
      <4>2. Pair(a)
        BY <1>2, <1>4, <4>1
      <4>3. CASE k = n
        BY <1>1, <4>1, <4>2, <4>3, Effects
      <4>4. CASE k # n
        BY <1>1, <1>3, <4>1, <4>4, Effects
      <4>5. QED
        BY <4>3, <4>4
    <3>3. CASE Begins
      BY <1>1, <1>3, <3>3, Effects DEF Begins
    <3>4. QED
      BY <1>5, <3>1, <3>2, <3>3, PanelWorks
  <2>3. QED
    BY <2>1, <2>2 DEF TwoNames, Pair
<1>6. CASE StartDeploy \/ Crash
  BY <1>2, <1>3, <1>6 DEF StartDeploy, Crash, IdleJob, TwoNames, Pair
<1>7. CASE Boot
  BY <1>2, <1>3, <1>7 DEF Boot, IdleJob, TwoNames, Pair
<1>8. CASE Stopped
  <2>1. \A n \in Names : Stop(n)[n].alias = ctr[n].alias
    BY <1>1, Effects
  <2>2. \A n \in Names : ctr'[n].alias = ctr[n].alias
    BY <1>8, <2>1 DEF Stopped
  <2>3. QED
    BY <1>3, <1>8, <2>2 DEF Stopped, TwoNames, Pair
<1>9. CASE PersonStart
  <2>1. \A n \in Names : ctr'[n].alias = ctr[n].alias
    BY <1>1, <1>9, Effects DEF PersonStart
  <2>2. QED
    BY <1>3, <1>9, <2>1 DEF PersonStart, TwoNames, Pair
<1>10. CASE UNCHANGED <<ctr, job>>
  BY <1>3, <1>10 DEF TwoNames, Pair
<1>11. QED
  BY <1>5, <1>6, <1>7, <1>8, <1>9, <1>10
     DEF Next, AskStop, OtherCompute, OtherLoad, CaddyRestart, vars

LEMMA ReturnsStep == ASSUME Typed, Returns, [Next]_vars PROVE Returns'
<1> USE DEF Returns, SwapBegun
<1>1. job \in Jobs
  BY DEF Typed
<1>2. CASE Settle
  BY <1>2 DEF Settle, SettleClean, SettleStopped, SettlePromote, SettleCheck, SettleSync,
     SettleRelease, SettleBack, SettleRemove, Applies, Refused, Tries, Does, Fails, AfterSettle
<1>3. CASE Direct
  BY <1>3 DEF Direct, PlanDirect, DirectClear, DirectRun, RunsInto, Renames, Tries, Does, Fails
<1>4. CASE PlanSwap \/ DropLeftover \/ StartNext \/ NextReady \/ NextUnhealthy \/ DropFailed \/ AliasNext
  BY <1>1, <1>4 DEF Jobs, PlanSwap, DropLeftover, StartNext, NextReady, NextUnhealthy, DropFailed, AliasNext,
     Moves, RunsInto, Tries, Does, Fails
<1>5. CASE Repoint \/ Reprobe \/ RemovePrevious \/ KeepOld \/ StopOld \/ RemoveOld
  BY <1>1, <1>5 DEF Jobs, Repoint, Reprobe, RemovePrevious, KeepOld, StopOld, RemoveOld, Applies, Refused,
     Tries, Does, Fails
<1>6. CASE PromoteNext \/ RenameNext
  BY <1>6 DEF PromoteNext, RenameNext, PromoteFailed, AfterSettle, Does, Fails
<1>7. CASE Undo
  BY <1>7 DEF Undo, Abort, AbortStart, AbortCheck, AbortRepoint, AbortRemove,
     Renames, Applies, Refused, Tries, Does, Fails
<1>8. CASE Ending
  BY <1>8 DEF Ending, Proxy, Healthy, Unhealthy, Finish, Rollback, Succeed, Fail, Save, Saves,
     Renames, Applies, Refused, Tries, Does, Fails, AfterProxyFailure
<1>9. CASE Recover
  BY <1>9 DEF Recover, RecoverCurrent, RecoverAlias, RecoverDown, RecoverNext,
     RecoverPromote, BootMain, BootSave, BootSync, Saves, Renames, Applies, Refused, Tries,
     Does, Fails, AfterRecover, RecoverFailed, AfterSettle
<1>10. CASE Notice \/ BuildFails
  BY <1>10, NoticeAt DEF BuildFails
<1>11. CASE StartDeploy \/ Crash \/ Boot
  BY <1>11 DEF StartDeploy, Crash, Boot
<1>12. CASE UNCHANGED <<pc, job>>
  BY <1>12
<1>13. QED
  BY <1>2, <1>3, <1>4, <1>5, <1>6, <1>7, <1>8, <1>9, <1>10, <1>11, <1>12
     DEF Next, Panel, Swap, AskStop, Stopped, PersonStart, OtherCompute, OtherLoad, CaddyRestart, vars

LEMMA BeforeStep == ASSUME Typed, Callers, Returns, Before, [Next]_vars PROVE Before'
<1> USE DEF Before, Untouched, SwapBegun, SettleSteps, Promotes
<1>1. job \in Jobs
  BY DEF Typed
<1>2. CASE Settle
  <2>1. job'.renamed = job.renamed /\ job'.removedOld = job.removedOld
    BY <1>1, <1>2 DEF Jobs, Settle, SettleClean, SettleStopped, SettlePromote, SettleCheck, SettleSync,
       SettleRelease, SettleBack, SettleRemove, Applies, Refused, Tries, Does, Fails
  <2>2. QED
    BY <1>2, <2>1, SettleAt
<1>3. CASE Direct
  BY <1>3 DEF Direct, PlanDirect, DirectClear, DirectRun, RunsInto, Renames, Tries, Does, Fails
<1>4. CASE PlanSwap \/ DropLeftover \/ StartNext \/ NextReady \/ NextUnhealthy \/ DropFailed \/ AliasNext
  BY <1>1, <1>4 DEF Jobs, PlanSwap, DropLeftover, StartNext, NextReady, NextUnhealthy, DropFailed, AliasNext,
     Moves, RunsInto, Tries, Does, Fails
<1>5. CASE Repoint \/ Reprobe \/ RemovePrevious \/ KeepOld \/ StopOld \/ RemoveOld
  BY <1>1, <1>5 DEF Returns, Jobs, Repoint, Reprobe, RemovePrevious, KeepOld, StopOld, RemoveOld, Applies, Refused,
     Tries, Does, Fails
<1>6. CASE PromoteNext
  BY <1>1, <1>6 DEF Callers, Jobs, PromoteNext, PromoteFailed, AfterSettle, Does, Fails
<1>7. CASE RenameNext
  BY <1>1, <1>7 DEF Callers, Jobs, RenameNext, PromoteFailed, AfterSettle, Does, Fails
<1>8. CASE Undo
  BY <1>1, <1>8 DEF Jobs, Undo, Abort, AbortStart, AbortCheck, AbortRepoint, AbortRemove,
     Renames, Applies, Refused, Tries, Does, Fails
<1>9. CASE Ending
  BY <1>9 DEF Ending, Proxy, Healthy, Unhealthy, Finish, Rollback, Succeed, Fail, Save, Saves,
     Renames, Applies, Refused, Tries, Does, Fails, AfterProxyFailure
<1>10. CASE Recover
  BY <1>1, <1>10 DEF Jobs, Recover, RecoverCurrent, RecoverAlias, RecoverDown, RecoverNext,
     RecoverPromote, BootMain, BootSave, BootSync, Saves, Renames, Applies, Refused, Tries,
     Does, Fails, AfterRecover, RecoverFailed, AfterSettle
<1>11. CASE Notice \/ BuildFails
  BY <1>11, NoticeAt DEF BuildFails
<1>12. CASE StartDeploy \/ Crash \/ Boot
  <2>1. /\ ~IdleJob.renamed /\ ~IdleJob.removedOld
        /\ \A c : LET j == [IdleJob EXCEPT !.caller = c, !.ret = "recover"] IN ~j.renamed /\ ~j.removedOld
    BY DEF IdleJob
  <2>2. CASE StartDeploy \/ Crash
    BY <2>1, <2>2 DEF StartDeploy, Crash
  <2>3. CASE Boot
    BY <2>1, <2>3 DEF Boot
  <2>4. QED
    BY <1>12, <2>2, <2>3
<1>13. CASE UNCHANGED <<pc, job>>
  BY <1>13
<1>14. QED
  BY <1>2, <1>3, <1>4, <1>5, <1>6, <1>7, <1>8, <1>9, <1>10, <1>11, <1>12, <1>13
     DEF Next, Panel, Swap, AskStop, Stopped, PersonStart, OtherCompute, OtherLoad, CaddyRestart, vars

LEMMA OpenStep == ASSUME Typed, Open, [Next]_vars PROVE Open'
<1> USE DEF Open
<1>1. disk \in Disks
  BY DEF Typed
<1>2. CASE Save
  BY <1>1, <1>2 DEF Save, Saves, Disks
<1>3. CASE BootSave
  BY <1>3 DEF BootSave, Saves
<1>4. CASE Panel /\ ~Save /\ ~BootSave
  <2>1. disk' = disk
    <3>1. CASE Ending
      BY <1>4, <3>1 DEF Ending, Proxy, Healthy, Unhealthy, Finish, Rollback, Succeed, Fail,
         Renames, Applies, Refused, Tries, Does, Fails
    <3>2. CASE Recover
      BY <1>4, <3>2 DEF Recover, RecoverCurrent, RecoverAlias, RecoverDown, RecoverNext,
         RecoverPromote, BootMain, BootSync, Renames, Applies, Refused, Tries, Does, Fails
    <3>3. CASE Settle \/ Direct \/ Swap \/ Undo \/ Notice \/ BuildFails
      <4>1. pc \notin {"save_project", "save_job", "save_failed", "bootsave"}
        BY <3>3, SettleAt, DirectAt, SwapAt, UndoAt, NoticeAt DEF SettleSteps, PromoteSteps, BuildFails
      <4>2. QED
        BY <1>4, <4>1, PanelKeeps
    <3>4. QED
      BY <1>4, <3>1, <3>2, <3>3 DEF Panel
  <2>2. QED
    BY <1>4, <2>1, PanelKeeps, PanelGoes
<1>5. CASE StartDeploy
  BY <1>1, <1>5 DEF StartDeploy, Disks
<1>6. CASE Crash
  BY <1>6 DEF Crash
<1>7. CASE Boot
  BY <1>7, IdleJobIs DEF Boot
<1>8. CASE Stopped \/ PersonStart
  BY <1>1, <1>8 DEF Stopped, PersonStart, Disks
<1>9. CASE UNCHANGED <<pc, job, disk>>
  BY <1>9
<1>10. QED
  BY <1>2, <1>3, <1>4, <1>5, <1>6, <1>7, <1>8, <1>9
     DEF Next, AskStop, OtherCompute, OtherLoad, CaddyRestart, vars

LEMMA NewUpStep ==
    ASSUME Typed, Callers, Returns, Numbered, Named, NewUp, [Next]_vars
    PROVE  NewUp'
<1> USE DEF NewUp, NewRuns, Promotes, Running
<1>1. ctr \in Machine /\ job \in Jobs /\ deploys \in Nat /\ {"current", "next", "previous"} = Names
  BY DEF Typed, Names
<1>2. CASE Settle
  BY <1>2 DEF Settle, SettleClean, SettleStopped, SettlePromote, SettleCheck, SettleSync,
     SettleRelease, SettleBack, SettleRemove, Applies, Refused, Tries, Does, Fails, AfterSettle
<1>3. CASE Direct
  <2>1. /\ Create("current", {"slug"}, TRUE)["current"].run
        /\ Create("current", {"slug"}, TRUE)["current"].ver = deploys
    BY <1>1 DEF Create, Machine
  <2>2. QED
    BY <2>1, <1>3 DEF Direct, PlanDirect, DirectClear, DirectRun, RunsInto, Renames, Tries, Does, Fails
<1>4. CASE PlanSwap \/ DropLeftover \/ NextReady \/ NextUnhealthy \/ DropFailed
  BY <1>4 DEF PlanSwap, DropLeftover, NextReady, NextUnhealthy, DropFailed, Tries, Does, Fails
<1>5. CASE StartNext
  <2>1. /\ Create("next", {job.alias}, TRUE)["next"].run
        /\ Create("next", {job.alias}, TRUE)["next"].ver = deploys
    BY <1>1 DEF Create, Machine
  <2>2. QED
    BY <1>5, <2>1 DEF StartNext, RunsInto, Does, Fails
<1>6. CASE AliasNext
  BY <1>1, <1>6, Effects DEF AliasNext, Moves, Does, Fails
<1>7. CASE Repoint \/ Reprobe
  BY <1>7 DEF Repoint, Reprobe, Applies, Refused, Does
<1>8. CASE RemovePrevious \/ KeepOld \/ StopOld \/ RemoveOld
  BY <1>1, <1>8, Effects DEF RemovePrevious, KeepOld, StopOld, RemoveOld, Tries, Does, Fails
<1>9. CASE PromoteNext
  <2>1. \A a : Join("next", a)["next"].run = ctr["next"].run /\ Join("next", a)["next"].ver = ctr["next"].ver
    BY <1>1, Effects
  <2>2. Leave("next")["next"].run = ctr["next"].run /\ Leave("next")["next"].ver = ctr["next"].ver
    BY <1>1, Effects
  <2>3. \/ pc \in {"promote", "promote_join"} /\ pc' \in {"promote_join", "rename"} /\ job'.ret = job.ret
             /\ ctr' \in {ctr, Leave("next"), Join("next", job.joining)} /\ deploys' = deploys
        \/ pc' \in {"abort", "fail", "bootsave", "save_failed", "idle", "notice"}
    BY <1>1, <1>9 DEF Jobs, PromoteNext, PromoteFailed, AfterSettle, Does, Fails
  <2>4. QED
    BY <2>1, <2>2, <2>3
<1>10. CASE RenameNext
  <2>1. \/ /\ ctr' = Rename("next", "current") /\ deploys' = deploys /\ pc = "rename"
           /\ pc' = "proxy" => job.ret = "swap"
           /\ pc' \in {"proxy", "fail", "bootsave", "settle_check"}
        \/ pc' \in {"abort", "fail", "bootsave", "save_failed", "idle", "notice"}
    BY <1>1, <1>10 DEF Jobs, RenameNext, PromoteFailed, AfterSettle, Does, Fails
  <2>2. Rename("next", "current")["current"] = ctr["next"]
    BY <1>1, Effects
  <2>3. QED
    BY <2>1, <2>2
<1>11. CASE Undo
  <2>1. pc' = "promote" => job'.ret = "abort"
    BY <1>1, <1>11 DEF Jobs, Undo, Abort, AbortStart, AbortCheck, AbortRepoint, AbortRemove,
       Renames, Applies, Refused, Tries, Does, Fails
  <2>2. pc' \in {"ab_start", "ab_check", "ab_repoint", "ab_stop", "ab_leave", "ab_drop", "fail", "promote"}
    BY <1>11 DEF Undo, Abort, AbortStart, AbortCheck, AbortRepoint, AbortRemove,
       Renames, Applies, Refused, Tries, Does, Fails
  <2>3. QED
    BY <2>1, <2>2
<1>12. CASE Ending
  BY <1>1, <1>12, Effects DEF Ending, Proxy, Healthy, Unhealthy, Finish, Rollback, Succeed, Fail, Save, Saves,
     Renames, Applies, Refused, Tries, Does, Fails, AfterProxyFailure
<1>13. CASE Recover
  <2>1. pc' = "promote" => job'.ret = "recover"
    BY <1>1, <1>13 DEF Callers, Jobs, Recover, RecoverCurrent, RecoverAlias, RecoverDown, RecoverNext,
       RecoverPromote, BootMain, BootSave, BootSync, Saves, Renames, Applies, Refused, Tries,
       Does, Fails, AfterRecover, RecoverFailed, AfterSettle
  <2>2. pc' \notin NewRuns \cup {"promote_join", "rename", "proxy", "health", "finish", "success", "save_project"}
    BY <1>13 DEF Recover, RecoverCurrent, RecoverAlias, RecoverDown, RecoverNext,
       RecoverPromote, BootMain, BootSave, BootSync, Saves, Renames, Applies, Refused, Tries,
       Does, Fails, AfterRecover, RecoverFailed, AfterSettle
  <2>3. QED
    BY <2>1, <2>2
<1>14. CASE Notice \/ BuildFails
  BY <1>14, NoticeAt DEF BuildFails
<1>15. CASE StartDeploy \/ Crash \/ Boot
  BY <1>15 DEF StartDeploy, Crash, Boot
<1>16. CASE Stopped
  <2>1. \A n \in Names : pc # "idle" /\ ctr[n].ver = deploys => ctr'[n] = ctr[n]
    BY <1>1, <1>16 DEF Stopped, Named
  <2>2. QED
    BY <1>1, <1>16, <2>1 DEF Stopped
<1>17. CASE PersonStart
  BY <1>17 DEF PersonStart
<1>18. CASE UNCHANGED <<ctr, pc, job, deploys>>
  BY <1>18
<1>19. QED
  BY <1>2, <1>3, <1>4, <1>5, <1>6, <1>7, <1>8, <1>9, <1>10, <1>11, <1>12, <1>13, <1>14, <1>15, <1>16, <1>17, <1>18
     DEF Next, Panel, Swap, AskStop, OtherCompute, OtherLoad, CaddyRestart, vars

LEMMA HoldsStep == ASSUME Typed, Real, Callers, Holds, [Next]_vars PROVE Holds'
<1> USE DEF Running
<1>1. ctr \in Machine /\ disk \in Disks /\ {"current", "next", "previous"} = Names
  BY DEF Typed, Names
<1>2. CASE Panel
  <2>1. ~disk'.stopped => ~disk.stopped \/ pc' = "save_job"
    BY <1>2, PanelKeeps
  <2>2. ASSUME ~disk.stopped
        PROVE  /\ pc' \in {"settle_back", "settle_stop", "settle_leave", "settle_rm"} => ctr'["current"].run
               /\ pc' \in {"recover_stop", "recover_keep"} => ctr'["next"].run
               /\ pc' \in {"boot_rename", "boot_rm", "boot_rename2"} => ctr'["previous"].run
    <3>1. /\ pc \in {"settle_back", "settle_stop", "settle_leave", "settle_rm"} => ctr["current"].run
          /\ pc \in {"recover_stop", "recover_keep"} => ctr["next"].run
          /\ pc \in {"boot_rename", "boot_rm", "boot_rename2"} => ctr["previous"].run
      BY <2>2 DEF Holds
    <3>2. CASE Settle
      BY <1>1, <3>1, <3>2, Effects DEF Settle, SettleClean, SettleStopped, SettlePromote, SettleCheck, SettleSync,
         SettleRelease, SettleBack, SettleRemove, SeesRunning, Applies, Refused, Tries, Does, Fails, AfterSettle
    <3>3. CASE Direct
      BY <3>3 DEF Direct, PlanDirect, DirectClear, DirectRun, RunsInto, Renames, Tries, Does, Fails
    <3>4. CASE PlanSwap \/ DropLeftover \/ StartNext \/ NextReady \/ NextUnhealthy \/ DropFailed \/ AliasNext
               \/ Repoint \/ Reprobe \/ RemovePrevious \/ KeepOld \/ StopOld \/ RemoveOld
      BY <3>4 DEF PlanSwap, DropLeftover, StartNext, NextReady, NextUnhealthy, DropFailed, AliasNext,
         Moves, Repoint, Reprobe, RemovePrevious, KeepOld, StopOld, RemoveOld, RunsInto, Applies, Refused,
         Tries, Does, Fails
    <3>5. CASE PromoteNext \/ RenameNext
      BY <3>5 DEF PromoteNext, RenameNext, PromoteFailed, AfterSettle, Does, Fails
    <3>6. CASE Undo
      BY <3>6 DEF Undo, Abort, AbortStart, AbortCheck, AbortRepoint, AbortRemove,
         Renames, Applies, Refused, Tries, Does, Fails
    <3>7. CASE Ending
      BY <3>7 DEF Ending, Proxy, Healthy, Unhealthy, Finish, Rollback, Succeed, Fail, Save, Saves,
         Renames, Applies, Refused, Tries, Does, Fails, AfterProxyFailure
    <3>8. CASE RecoverCurrent \/ RecoverAlias \/ RecoverDown
      BY <3>8 DEF RecoverCurrent, RecoverAlias, RecoverDown, Tries,
         Does, Fails, AfterRecover, RecoverFailed, AfterSettle
    <3>9. CASE RecoverNext \/ RecoverPromote
      BY <1>1, <3>1, <3>9, Effects DEF RecoverNext, RecoverPromote, Renames, Tries,
         Does, Fails, AfterRecover, AfterSettle
    <3>10. CASE BootMain \/ BootSave \/ BootSync
      BY <1>1, <3>1, <3>10, Effects DEF BootMain, BootSave, BootSync, Saves, Renames, Applies, Refused, Tries,
         Does, Fails
    <3>11. CASE Notice \/ BuildFails
      BY <3>11, NoticeAt DEF BuildFails
    <3>12. QED
      BY <1>2, <3>2, <3>3, <3>4, <3>5, <3>6, <3>7, <3>8, <3>9, <3>10, <3>11 DEF Panel, Swap, Recover
  <2>3. QED
    BY <2>1, <2>2 DEF Holds
<1>3. CASE StartDeploy \/ Crash \/ Boot
  BY <1>3 DEF Holds, StartDeploy, Crash, Boot
<1>4. CASE Stopped
  BY <1>1, <1>4 DEF Holds, Stopped, Disks
<1>5. CASE PersonStart
  BY <1>5 DEF Holds, PersonStart
<1>6. CASE UNCHANGED <<ctr, pc, disk>>
  BY <1>6 DEF Holds
<1>7. QED
  BY <1>2, <1>3, <1>4, <1>5, <1>6
     DEF Next, AskStop, OtherCompute, OtherLoad, CaddyRestart, vars

LEMMA AlwaysStep == ASSUME IInv, Always, [Next]_vars PROVE Always'
<1>1. Typed /\ Aliased /\ Real /\ Callers /\ BootWorks
  BY Types DEF IInv
<1>2. QED
  BY <1>1, NumberedStep, NamedStep, TwoNamesStep, ReturnsStep, BeforeStep, OpenStep, NewUpStep, HoldsStep
     DEF Always

-----------------------------------------------------------------------------
(* What holds as long as no docker command has failed. *)

Answers == troubles["faults"] = 0

\* Where the settling is over, and nothing new has begun, no leftover runs.
Gone == pc \in {"recover_alias", "recover_join", "settle_check", "settle_sync", "notice", "plan",
                "drop", "run"} => ~Running("next")

\* The alias picked is on no other version that runs.
Picked == pc \in {"drop", "run", "wait"} =>
              \A n \in {"current", "previous"} : Running(n) => job.alias \notin ctr[n].alias

\* The name a container is about to take is free; the recovery promotes the leftover
\* when nothing else runs.
Cleared ==
    /\ pc \in {"l_rename", "keepold"} => ~Exists("previous")
    /\ pc \in {"l_stop", "l_run", "rb_rename", "boot_rename2", "stopold"} => ~Exists("current")
    /\ Promotes /\ job.ret = "swap" => ~Exists("current")
    /\ pc \in {"recover_next", "recover_stop", "recover_keep", "recover_rename"} => ~Running("current")
    /\ pc \in {"recover_keep", "recover_rename"} => ~Running("previous")
    /\ Promotes /\ job.ret = "recover" => ~Running("previous")

\* A swap is only undone with its old version running, untouched.
Abandoned ==
    ~disk.stopped =>
        /\ pc \in {"abort", "ab_check"} => Running("current") /\ ~job.renamed /\ ~job.removedOld
        /\ pc # "ab_start" /\ ~(Promotes /\ job.ret = "abort")

\* A previous version runs only beside the current one, but for the moment in
\* which it has left that name and was not stopped yet, or is about to take it back.
Away ==
    \/ pc \in {"stopold", "l_stop", "l_run", "rollback", "rb_rename"} \/ Promotes
    \/ pc = "down" /\ disk.status = "running"
    \/ /\ job.caller = "boot"
       /\ pc \in {"recover", "recover_next", "recover_stop", "boot_main", "boot_rename", "boot_rm",
                  "boot_rename2"}
Led == ~disk.stopped /\ Running("previous") => Running("current") \/ Away

Answered == Gone /\ Picked /\ Cleared /\ Abandoned /\ Led
DockerInv == Always /\ (Answers => Answered)

-----------------------------------------------------------------------------
(* What the shared routines come to when no command fails. *)

LEMMA Surely ==
    ASSUME Typed, Answers'
    PROVE  /\ ~Spend("faults")
           /\ \A l, m, c : ~Fails(l, m, c) /\ (Tries(l, m, c) => Does(l, m, c))
           /\ \A n : (SeesRunning(n) => Running(n)) /\ (SeesNotRunning(n) => ~Running(n))
           /\ \A l, m, n, ok, bad : Renames(l, m, n, ok, bad) =>
                 \/ CanRename(m, n) /\ Does(l, ok, Rename(m, n))
                 \/ ~CanRename(m, n) /\ Does(l, bad, ctr)
           /\ \A n, a, l, ok, bad : RunsInto(n, a, l, ok, bad) =>
                 \/ ~Exists(n) /\ Does(l, ok, Create(n, a, TRUE))
                 \/ Exists(n) /\ Does(l, bad, ctr)
<1>0. troubles \in Counts /\ "faults" \in AllTroubles
  BY DEF Typed, AllTroubles
<1>1. ~Spend("faults")
  BY <1>0 DEF Spend, Counts, Answers
<1>2. \A l, m, c : ~Fails(l, m, c)
  BY <1>1 DEF Fails
<1>3. \A n : (SeesRunning(n) => Running(n)) /\ (SeesNotRunning(n) => ~Running(n))
  BY <1>1 DEF SeesRunning, SeesNotRunning
<1>4. \A l, m, c : Tries(l, m, c) => Does(l, m, c)
  BY <1>2 DEF Tries
<1>5. \A l, m, n, ok, bad : Renames(l, m, n, ok, bad) =>
          \/ CanRename(m, n) /\ Does(l, ok, Rename(m, n))
          \/ ~CanRename(m, n) /\ Does(l, bad, ctr)
  BY <1>2 DEF Renames
<1>6. \A n, a, l, ok, bad : RunsInto(n, a, l, ok, bad) =>
          \/ ~Exists(n) /\ Does(l, ok, Create(n, a, TRUE))
          \/ Exists(n) /\ Does(l, bad, ctr)
  BY <1>2 DEF RunsInto
<1>7. QED
  BY <1>1, <1>2, <1>3, <1>4, <1>5, <1>6

\* A command that failed is not forgotten.
LEMMA SpendKeeps ==
    ASSUME Typed, NEW w \in AllTroubles, NEW what \in AllTroubles, Spend(what)
    PROVE  troubles'[w] = 0 => troubles[w] = 0
  BY DEF Spend, Typed, Counts

LEMMA PanelSpends == ASSUME Panel PROVE troubles' = troubles \/ Spend("faults") \/ Spend("refusals")
<1>1. CASE Settle
  BY <1>1 DEF Settle, SettleClean, SettleStopped, SettlePromote, SettleCheck, SettleSync, SettleRelease,
     SettleBack, SettleRemove, SeesRunning, SeesNotRunning, Applies, Refused, Accepts, Refuses, Tries, Does, Fails
<1>2. CASE Direct
  BY <1>2 DEF Direct, PlanDirect, DirectClear, DirectRun, RunsInto, Renames, SeesNotRunning, Tries, Does, Fails
<1>3. CASE Swap
  BY <1>3 DEF Swap, PlanSwap, DropLeftover, StartNext, NextReady, NextUnhealthy, DropFailed, AliasNext,
     Repoint, Reprobe, RemovePrevious, KeepOld, StopOld, RemoveOld, PromoteNext, RenameNext, RunsInto,
     Applies, Refused, Accepts, Refuses, Tries, Does, Fails
<1>4. CASE Undo
  BY <1>4 DEF Undo, Abort, AbortStart, AbortCheck, AbortRepoint, AbortRemove, SeesRunning, SeesNotRunning,
     Renames, Applies, Refused, Accepts, Refuses, Tries, Does, Fails
<1>5. CASE Ending
  BY <1>5 DEF Ending, Proxy, Healthy, Unhealthy, Finish, Rollback, Succeed, Fail, Save, Saves,
     Renames, Applies, Refused, Accepts, Refuses, Tries, Does, Fails
<1>6. CASE Recover
  BY <1>6 DEF Recover, RecoverCurrent, RecoverAlias, RecoverDown, RecoverNext, RecoverPromote, BootMain,
     BootSave, BootSync, Saves, SeesRunning, SeesNotRunning, Renames, Applies, Refused, Accepts, Refuses,
     Tries, Does, Fails
<1>7. CASE Notice \/ BuildFails
  BY <1>7 DEF Notice, BuildFails, Applies, Refused, Accepts, Refuses
<1>8. QED
  BY <1>1, <1>2, <1>3, <1>4, <1>5, <1>6, <1>7 DEF Panel

LEMMA SpentOnce ==
    ASSUME Typed, [Next]_vars, NEW w \in AllTroubles, troubles'[w] = 0
    PROVE  troubles[w] = 0
<1>1. troubles' = troubles \/ \E what \in AllTroubles : Spend(what)
  <2>1. {"faults", "refusals", "crashes", "stops", "reboots"} = AllTroubles
    BY DEF AllTroubles
  <2>2. QED
    BY <2>1, PanelSpends DEF Next, StartDeploy, Crash, Boot, AskStop, Stopped, PersonStart, OtherCompute,
       OtherLoad, CaddyRestart, vars
<1>2. QED
  BY <1>1, SpendKeeps

LEMMA GoneStep == ASSUME Typed, Callers, Gone, [Next]_vars, Answers' PROVE Gone'
<1> USE DEF Gone, Running
<1>1. ctr \in Machine /\ {"current", "next", "previous"} = Names
  BY DEF Typed, Names
<1>2. /\ ~Remove("next")["next"].run /\ ~Stop("next")["next"].run /\ ~Rename("next", "current")["next"].run
      /\ Leave("current")["next"] = ctr["next"] /\ \A a : Join("current", a)["next"] = ctr["next"]
  BY <1>1 DEF Remove, Stop, Rename, Leave, Join, Absent, Machine, Container
<1>3. CASE Settle
  <2>1. pc \in SettleSteps /\ job.caller # "boot"
    BY <1>3, SettleAt DEF Callers
  <2>2. \A r : AfterSettle(r) \in {"idle", "save_failed", "notice"}
    BY DEF AfterSettle
  <2>3. AfterSettle("failed") # "notice" /\ AfterSettle("refused") # "notice"
    BY <2>1 DEF AfterSettle, Typed, Jobs
  <2>4. CASE SettleClean \/ SettlePromote \/ SettleRelease
    BY <2>4, Surely DEF SettleClean, SettlePromote, SettleRelease
  <2>5. CASE SettleStopped
    <3>1. pc' = AfterSettle("stopped") /\ ctr' = Stop("next")
      BY <2>5, Surely DEF SettleStopped, Does
    <3>2. QED
      BY <1>2, <3>1
  <2>6. CASE SettleCheck \/ SettleSync \/ SettleBack
    BY <2>2, <2>3, <2>6 DEF SettleCheck, SettleSync, SettleBack, Applies, Refused
  <2>7. CASE SettleRemove
    BY <1>2, <2>7, Surely DEF SettleRemove, Does
  <2>8. QED
    BY <1>3, <2>4, <2>5, <2>6, <2>7 DEF Settle
<1>4. CASE Direct
  BY <1>4 DEF Direct, PlanDirect, DirectClear, DirectRun, RunsInto, Renames, Tries, Does, Fails
<1>5. CASE PlanSwap \/ DropLeftover \/ StartNext \/ NextReady \/ NextUnhealthy \/ DropFailed \/ AliasNext
           \/ Repoint \/ Reprobe \/ RemovePrevious \/ KeepOld \/ StopOld \/ RemoveOld
  <2>1. CASE DropLeftover
    BY <1>2, <2>1, Surely DEF DropLeftover, Does
  <2>2. CASE PlanSwap \/ StartNext \/ NextReady \/ NextUnhealthy \/ DropFailed \/ AliasNext
             \/ Repoint \/ Reprobe \/ RemovePrevious \/ KeepOld \/ StopOld \/ RemoveOld
    BY <2>2 DEF PlanSwap, StartNext, NextReady, NextUnhealthy, DropFailed, AliasNext, Moves, Repoint, Reprobe,
       RemovePrevious, KeepOld, StopOld, RemoveOld, RunsInto, Applies, Refused, Tries, Does, Fails
  <2>3. QED
    BY <1>5, <2>1, <2>2
<1>6. CASE PromoteNext \/ RenameNext
  <2>1. PromoteFailed \in {"abort", "fail", "bootsave", "idle", "save_failed"}
    <3>1. pc \in {"promote", "promote_join", "rename"}
      BY <1>6 DEF PromoteNext, RenameNext, Does, Fails
    <3>2. job.caller # "bootsettle" /\ job.caller # "boot" => job.caller = "deploy"
      BY DEF Typed, Jobs
    <3>3. QED
      BY <3>2 DEF PromoteFailed, AfterSettle
  <2>2. CASE PromoteNext
    BY <2>1, <2>2 DEF PromoteNext, Does, Fails
  <2>3. CASE RenameNext
    BY <1>2, <2>1, <2>3 DEF RenameNext, Does, Fails
  <2>4. QED
    BY <1>6, <2>2, <2>3
<1>7. CASE Undo
  BY <1>7 DEF Undo, Abort, AbortStart, AbortCheck, AbortRepoint, AbortRemove,
     Renames, Applies, Refused, Tries, Does, Fails
<1>8. CASE Ending
  BY <1>8 DEF Ending, Proxy, Healthy, Unhealthy, Finish, Rollback, Succeed, Fail, Save, Saves,
     Renames, Applies, Refused, Tries, Does, Fails, AfterProxyFailure
<1>9. CASE Recover
  BY <1>2, <1>9, Surely DEF Recover, RecoverCurrent, RecoverAlias, RecoverDown, RecoverNext,
     RecoverPromote, BootMain, BootSave, BootSync, Saves, Applies, Refused, Does, AfterRecover
<1>10. CASE Notice \/ BuildFails
  BY <1>10, NoticeAt DEF BuildFails
<1>11. CASE StartDeploy \/ Crash \/ Boot \/ PersonStart
  BY <1>11 DEF StartDeploy, Crash, Boot, PersonStart
<1>12. CASE Stopped
  BY <1>1, <1>12, StoppedKeeps DEF Stopped
<1>13. CASE UNCHANGED <<ctr, pc>>
  BY <1>13
<1>14. QED
  BY <1>3, <1>4, <1>5, <1>6, <1>7, <1>8, <1>9, <1>10, <1>11, <1>12, <1>13
     DEF Next, Panel, Swap, AskStop, OtherCompute, OtherLoad, CaddyRestart, vars

\* pickNextAlias: with three aliases one is free, since at most two versions run and
\* each has one alias of a swap.
LEMMA PickIsFree ==
    ASSUME Typed, TwoNames, ~Running("next")
    PROVE  \A n \in {"current", "previous"} : Running(n) => PickNextAlias(Taken({})) \notin ctr[n].alias
<1>1. \A n \in {"current", "previous"} : Running(n) => ctr[n].alias \subseteq Taken({})
  BY DEF Taken, Names
<1>2. Taken({}) \subseteq ctr["current"].alias \cup ctr["previous"].alias
  BY DEF Taken, Names
<1>3. PICK x \in Alias, y \in Alias : ctr["current"].alias \subseteq {"slug", x} /\ ctr["previous"].alias \subseteq {"slug", y}
  BY DEF TwoNames, Pair, Names
<1>4. Taken({}) \subseteq {"slug", x, y}
  BY <1>2, <1>3
<1>5. PickNextAlias(Taken({})) \notin Taken({})
  BY <1>4 DEF PickNextAlias
<1>6. QED
  BY <1>1, <1>5

LEMMA PickedStep == ASSUME Typed, TwoNames, Gone, Picked, [Next]_vars, Answers' PROVE Picked'
<1> USE DEF Picked, Running
<1>1. ctr \in Machine /\ job \in Jobs /\ {"current", "next", "previous"} = Names
  BY DEF Typed, Names
<1>2. /\ \A n \in {"current", "previous"} : Remove("next")[n] = ctr[n]
      /\ \A n \in {"current", "previous"} : \A a, up : Create("next", a, up)[n] = ctr[n]
  BY <1>1 DEF Remove, Create, Machine
<1>3. CASE Settle
  BY <1>3 DEF Settle, SettleClean, SettleStopped, SettlePromote, SettleCheck, SettleSync,
     SettleRelease, SettleBack, SettleRemove, Applies, Refused, Tries, Does, Fails, AfterSettle
<1>4. CASE Direct
  BY <1>4 DEF Direct, PlanDirect, DirectClear, DirectRun, RunsInto, Renames, Tries, Does, Fails
<1>5. CASE PlanSwap
  <2>1. job'.alias = PickNextAlias(Taken({})) /\ ctr' = ctr
    BY <1>1, <1>5, Surely DEF PlanSwap, Jobs
  <2>2. ~Running("next")
    BY <1>5 DEF PlanSwap, Gone
  <2>3. QED
    BY <2>1, <2>2, PickIsFree
<1>6. CASE DropLeftover \/ StartNext
  <2>1. /\ pc \in {"drop", "run"} /\ job' = job
        /\ ctr' \in {ctr, Remove("next")} \/ \E up \in BOOLEAN : ctr' = Create("next", {job.alias}, up)
    BY <1>6 DEF DropLeftover, StartNext, RunsInto, Tries, Does, Fails
  <2>2. \A n \in {"current", "previous"} : ctr'[n] = ctr[n]
    BY <1>2, <2>1
  <2>3. QED
    BY <2>1, <2>2
<1>7. CASE NextReady \/ NextUnhealthy \/ DropFailed \/ AliasNext
           \/ Repoint \/ Reprobe \/ RemovePrevious \/ KeepOld \/ StopOld \/ RemoveOld
  BY <1>7 DEF NextReady, NextUnhealthy, DropFailed, AliasNext,
     Moves, Repoint, Reprobe, RemovePrevious, KeepOld, StopOld, RemoveOld, Applies, Refused, Tries, Does, Fails
<1>8. CASE PromoteNext \/ RenameNext
  BY <1>8 DEF PromoteNext, RenameNext, PromoteFailed, AfterSettle, Does, Fails
<1>9. CASE Undo
  BY <1>9 DEF Undo, Abort, AbortStart, AbortCheck, AbortRepoint, AbortRemove,
     Renames, Applies, Refused, Tries, Does, Fails
<1>10. CASE Ending
  BY <1>10 DEF Ending, Proxy, Healthy, Unhealthy, Finish, Rollback, Succeed, Fail, Save, Saves,
     Renames, Applies, Refused, Tries, Does, Fails, AfterProxyFailure
<1>11. CASE Recover
  BY <1>11 DEF Recover, RecoverCurrent, RecoverAlias, RecoverDown, RecoverNext,
     RecoverPromote, BootMain, BootSave, BootSync, Saves, Renames, Applies, Refused, Tries,
     Does, Fails, AfterRecover, RecoverFailed, AfterSettle
<1>12. CASE Notice \/ BuildFails
  BY <1>12, NoticeAt DEF BuildFails
<1>13. CASE StartDeploy \/ Crash \/ Boot \/ PersonStart
  BY <1>13 DEF StartDeploy, Crash, Boot, PersonStart
<1>14. CASE Stopped
  <2>1. \A n \in Names : Stop(n)[n].alias = ctr[n].alias
    BY <1>1, Effects
  <2>2. \A n \in Names : ctr'[n].alias = ctr[n].alias /\ (ctr'[n].run => ctr[n].run)
    BY <1>1, <1>14, <2>1, StoppedKeeps DEF Stopped
  <2>3. QED
    BY <1>1, <1>14, <2>2 DEF Stopped
<1>15. CASE UNCHANGED <<ctr, pc, job>>
  BY <1>15
<1>16. QED
  BY <1>3, <1>4, <1>5, <1>6, <1>7, <1>8, <1>9, <1>10, <1>11, <1>12, <1>13, <1>14, <1>15
     DEF Next, Panel, Swap, AskStop, OtherCompute, OtherLoad, CaddyRestart, vars

LEMMA ClearedStep ==
    ASSUME Typed, Callers, Returns, Cleared, [Next]_vars, Answers'
    PROVE  Cleared'
<1> USE DEF Cleared, Promotes, Running, Exists
<1>1. ctr \in Machine /\ job \in Jobs /\ {"current", "next", "previous"} = Names
  BY DEF Typed, Names
<1>2. /\ Absent.ver = 0 /\ ~Absent.run
      /\ Remove("previous")["previous"] = Absent /\ Remove("previous")["current"] = ctr["current"]
      /\ Remove("current")["current"] = Absent /\ Remove("current")["previous"] = ctr["previous"]
      /\ Rename("current", "previous")["current"] = Absent /\ Rename("current", "previous")["previous"] = ctr["current"]
      /\ Stop("previous")["current"] = ctr["current"]
  BY <1>1 DEF Remove, Stop, Rename, Absent, Machine, Container
<1>3. ~Stop("previous")["previous"].run
  BY <1>1 DEF Stop, Machine, Container
<1>4. CASE Settle
  BY <1>4 DEF Settle, SettleClean, SettleStopped, SettlePromote, SettleCheck, SettleSync,
     SettleRelease, SettleBack, SettleRemove, Applies, Refused, Tries, Does, Fails, AfterSettle
<1>5. CASE Direct
  <2>1. CASE PlanDirect \/ DirectRun
    BY <2>1 DEF PlanDirect, DirectRun, RunsInto, Does, Fails
  <2>2. CASE DirectClear
    BY <1>2, <2>2, Surely DEF DirectClear, CanRename, Does
  <2>3. QED
    BY <1>5, <2>1, <2>2 DEF Direct
<1>6. CASE PlanSwap \/ DropLeftover \/ StartNext \/ NextReady \/ NextUnhealthy \/ DropFailed \/ AliasNext
           \/ Repoint \/ Reprobe
  BY <1>6 DEF PlanSwap, DropLeftover, StartNext, NextReady, NextUnhealthy, DropFailed, AliasNext,
     Moves, Repoint, Reprobe, RunsInto, Applies, Refused, Tries, Does, Fails
<1>7. CASE RemovePrevious \/ KeepOld
  BY <1>2, <1>7, Surely DEF RemovePrevious, KeepOld, Does
<1>8. CASE StopOld \/ RemoveOld
  <2>1. pc' = "promote" /\ job'.ret = "swap" /\ ~Exists("current")'
    BY <1>1, <1>2, <1>8, Surely DEF StopOld, RemoveOld, Returns, SwapBegun, Jobs
  <2>2. QED
    BY <2>1
<1>9. CASE PromoteNext
  <2>1. pc \in {"promote", "promote_join"} /\ pc' \in {"promote_join", "rename"} /\ job'.ret = job.ret
    BY <1>1, <1>9, Surely DEF Jobs, PromoteNext, Does
  <2>2. /\ Leave("next")["current"] = ctr["current"] /\ Leave("next")["previous"] = ctr["previous"]
        /\ \A a : /\ Join("next", a)["current"] = ctr["current"]
                  /\ Join("next", a)["previous"] = ctr["previous"]
    BY <1>1 DEF Leave, Join, Machine
  <2>3. ctr'["current"] = ctr["current"] /\ ctr'["previous"] = ctr["previous"]
    BY <1>9, <2>2 DEF PromoteNext, Does, Fails
  <2>4. QED
    BY <2>1, <2>3
<1>10. CASE RenameNext
  BY <1>10 DEF RenameNext, PromoteFailed, AfterSettle, Does, Fails
<1>11. CASE Undo
  <2>1. pc' = "promote" => job'.ret = "abort"
    BY <1>1, <1>11 DEF Jobs, Undo, Abort, AbortStart, AbortCheck, AbortRepoint, AbortRemove,
       Renames, Applies, Refused, Tries, Does, Fails
  <2>2. pc' \in {"ab_start", "ab_check", "ab_repoint", "ab_stop", "ab_leave", "ab_drop", "fail", "promote"}
    BY <1>11 DEF Undo, Abort, AbortStart, AbortCheck, AbortRepoint, AbortRemove,
       Renames, Applies, Refused, Tries, Does, Fails
  <2>3. QED
    BY <2>1, <2>2
<1>12. CASE Ending
  <2>1. CASE Rollback
    BY <1>2, <2>1, Surely DEF Rollback, Does
  <2>2. CASE Proxy \/ Healthy \/ Unhealthy \/ Finish \/ Succeed \/ Fail \/ Save
    BY <2>2 DEF Proxy, Healthy, Unhealthy, Finish, Succeed, Fail, Save, Saves,
       Applies, Refused, Tries, Does, Fails, AfterProxyFailure
  <2>3. QED
    BY <1>12, <2>1, <2>2 DEF Ending
<1>13. CASE RecoverCurrent \/ RecoverAlias
  BY <1>13 DEF RecoverCurrent, RecoverAlias, Tries, Does, Fails, AfterRecover, RecoverFailed, AfterSettle
<1>14. CASE RecoverDown \/ RecoverNext
  BY <1>14, Surely DEF RecoverDown, RecoverNext, Does, AfterRecover
<1>15. CASE RecoverPromote
  <2>1. pc \in {"recover_stop", "recover_keep", "recover_rename"} /\ job' = job
    BY <1>15, Surely DEF RecoverPromote, Does
  <2>2. job.ret = "recover" /\ job.ret # "swap"
    BY <2>1 DEF Callers
  <2>3. pc' \in {"recover_keep", "recover_rename", "promote"}
    BY <1>15 DEF RecoverPromote, Renames, Tries, Does, Fails
  <2>4. ~ctr'["previous"].run
    BY <1>2, <1>3, <1>15, Surely DEF RecoverPromote, Does
  <2>5. pc' # "promote" => ~ctr'["current"].run
    BY <1>2, <1>15, Surely DEF RecoverPromote, Does
  <2>6. QED
    BY <2>1, <2>2, <2>3, <2>4, <2>5
<1>16. CASE BootMain \/ BootSave \/ BootSync
  BY <1>2, <1>16, Surely DEF BootMain, BootSave, BootSync, Saves, Applies, Refused, Does
<1>17. CASE Notice \/ BuildFails
  BY <1>17, NoticeAt DEF BuildFails
<1>18. CASE StartDeploy \/ Crash \/ Boot \/ PersonStart
  BY <1>18 DEF StartDeploy, Crash, Boot, PersonStart
<1>19. CASE Stopped
  BY <1>1, <1>19, StoppedKeeps DEF Stopped
<1>20. CASE UNCHANGED <<ctr, pc, job>>
  BY <1>20
<1>21. QED
  BY <1>4, <1>5, <1>6, <1>7, <1>8, <1>9, <1>10, <1>11, <1>12, <1>13, <1>14, <1>15, <1>16, <1>17, <1>18,
     <1>19, <1>20
     DEF Next, Panel, Swap, Recover, AskStop, OtherCompute, OtherLoad, CaddyRestart, vars

LEMMA AbandonedStep ==
    ASSUME IInv, Always, Cleared, Abandoned, [Next]_vars, Answers'
    PROVE  Abandoned'
<1> USE DEF Abandoned, Promotes, Running
<1>1. Typed /\ ctr \in Machine /\ job \in Jobs /\ disk \in Disks /\ {"current", "next", "previous"} = Names
  BY Types DEF IInv, Typed, Names
<1>2. CASE Panel
  <2>1. ~disk'.stopped => ~disk.stopped \/ pc' = "save_job"
    BY <1>1, <1>2, PanelKeeps
  <2>2. ASSUME ~disk.stopped
        PROVE  /\ pc' \in {"abort", "ab_check"} => ctr'["current"].run /\ ~job'.renamed /\ ~job'.removedOld
               /\ pc' # "ab_start" /\ ~(pc' \in {"promote", "promote_join", "rename"} /\ job'.ret = "abort")
    <3>1. /\ pc \in {"abort", "ab_check"} => ctr["current"].run /\ ~job.renamed /\ ~job.removedOld
          /\ pc # "ab_start" /\ ~(pc \in {"promote", "promote_join", "rename"} /\ job.ret = "abort")
          /\ pc \in OldRuns => ctr["current"].run
          /\ \A n \in Names : ctr[n].ver = 0 => ~ctr[n].run
      BY <2>2 DEF IInv, Sides, Real, Sound
    <3>2. CASE Settle
      BY <3>2 DEF Settle, SettleClean, SettleStopped, SettlePromote, SettleCheck, SettleSync,
         SettleRelease, SettleBack, SettleRemove, Applies, Refused, Tries, Does, Fails, AfterSettle
    <3>3. CASE Direct
      BY <3>3 DEF Direct, PlanDirect, DirectClear, DirectRun, RunsInto, Renames, Tries, Does, Fails
    <3>4. CASE PlanSwap \/ DropLeftover \/ StartNext \/ NextReady \/ NextUnhealthy \/ DropFailed
               \/ RemovePrevious
      BY <3>4 DEF PlanSwap, DropLeftover, StartNext, NextReady, NextUnhealthy, DropFailed,
         RemovePrevious, RunsInto, Tries, Does, Fails
    <3>5. CASE AliasNext
      BY <3>5, <1>1, Surely DEF AliasNext, Moves, Does
    <3>6. CASE Repoint \/ Reprobe
      <4>1. pc \in {"repoint", "reprobe"} /\ ctr' = ctr /\ job' = job
        BY <3>6 DEF Repoint, Reprobe, Applies, Refused, Does
      <4>2. ctr["current"].run /\ ~job.renamed /\ ~job.removedOld
        BY <3>1, <4>1 DEF OldRuns, Always, Before, Untouched, SwapBegun
      <4>3. pc' \in {"reprobe", "rmprev", "rmold", "abort"}
        BY <3>6 DEF Repoint, Reprobe, Applies, Refused, Does
      <4>4. QED
        BY <4>1, <4>2, <4>3
    <3>7. CASE KeepOld
      <4>1. pc = "keepold"
        BY <1>1, <3>7, Surely DEF KeepOld, Does
      <4>2. CanRename("current", "previous")
        BY <1>1, <3>1, <4>1 DEF OldRuns, Cleared, CanRename, Exists
      <4>3. pc' = "stopold"
        BY <1>1, <3>7, <4>2, Surely DEF KeepOld
      <4>4. QED
        BY <4>3
    <3>8. CASE StopOld \/ RemoveOld
      <4>1. pc \in {"stopold", "rmold"} /\ pc' = "promote" /\ job'.ret = job.ret
        BY <1>1, <3>8, Surely DEF StopOld, RemoveOld, Jobs
      <4>2. job.ret = "swap"
        BY <4>1 DEF Always, Returns, SwapBegun
      <4>3. QED
        BY <4>1, <4>2
    <3>9. CASE PromoteNext
      BY <1>1, <3>1, <3>9, Surely DEF Jobs, PromoteNext, Does
    <3>10. CASE RenameNext
      <4>1. pc = "rename" /\ job.ret # "abort"
        BY <1>1, <3>1, <3>10, Surely DEF RenameNext, Does
      <4>2. job.ret = "swap" => CanRename("next", "current")
        BY <1>1, <3>1, <4>1 DEF Always, NewUp, Cleared, CanRename, Exists
      <4>3. job.ret # "swap" => PromoteFailed \in {"bootsave", "idle", "save_failed", "notice"}
        BY <4>1 DEF PromoteFailed, AfterSettle
      <4>4. pc' \in {"proxy", "fail", "bootsave", "settle_check", "idle", "save_failed", "notice"}
        BY <1>1, <3>10, <4>2, <4>3, Surely DEF RenameNext, Does
      <4>5. QED
        BY <4>4
    <3>11. CASE Abort \/ AbortStart
      BY <1>1, <3>1, <3>11, Surely DEF Abort, AbortStart, Does
    <3>12. CASE AbortCheck
      BY <1>1, <3>1, <3>12, Surely DEF AbortCheck
    <3>13. CASE AbortRepoint \/ AbortRemove
      BY <3>13 DEF AbortRepoint, AbortRemove, Applies, Refused, Tries, Does, Fails
    <3>14. CASE Ending
      BY <3>14 DEF Ending, Proxy, Healthy, Unhealthy, Finish, Rollback, Succeed, Fail, Save, Saves,
         Renames, Applies, Refused, Tries, Does, Fails, AfterProxyFailure
    <3>15. CASE Recover
      <4>1. pc' = "promote" => job'.ret = "recover"
        BY <1>1, <3>15 DEF IInv, Callers, Jobs, Recover, RecoverCurrent, RecoverAlias, RecoverDown, RecoverNext,
           RecoverPromote, BootMain, BootSave, BootSync, Saves, Renames, Applies, Refused, Tries,
           Does, Fails, AfterRecover, RecoverFailed, AfterSettle
      <4>2. pc' \notin {"abort", "ab_check", "ab_start", "promote_join", "rename"}
        BY <3>15 DEF Recover, RecoverCurrent, RecoverAlias, RecoverDown, RecoverNext,
           RecoverPromote, BootMain, BootSave, BootSync, Saves, Renames, Applies, Refused, Tries,
           Does, Fails, AfterRecover, RecoverFailed, AfterSettle
      <4>3. QED
        BY <4>1, <4>2
    <3>16. CASE Notice \/ BuildFails
      BY <3>16, NoticeAt DEF BuildFails
    <3>17. QED
      BY <1>2, <3>2, <3>3, <3>4, <3>5, <3>6, <3>7, <3>8, <3>9, <3>10, <3>11, <3>12, <3>13, <3>14, <3>15, <3>16
         DEF Panel, Swap, Undo
  <2>3. QED
    BY <2>1, <2>2
<1>3. CASE StartDeploy \/ Crash \/ Boot \/ PersonStart
  BY <1>3 DEF StartDeploy, Crash, Boot, PersonStart
<1>4. CASE Stopped
  BY <1>1, <1>4 DEF Stopped, Disks
<1>5. CASE UNCHANGED <<ctr, pc, job, disk>>
  BY <1>5
<1>6. QED
  BY <1>2, <1>3, <1>4, <1>5
     DEF Next, AskStop, OtherCompute, OtherLoad, CaddyRestart, vars

\* The last step of a promotion finds its name free when it ends a swap.
LEMMA RenameWorks ==
    ASSUME IInv, Always, Cleared, pc = "rename", job.ret = "swap"
    PROVE  CanRename("next", "current") /\ Running("next")
<1>1. "next" \in Names /\ \A n \in Names : ctr[n].ver = 0 => ~ctr[n].run
  BY DEF IInv, Real, Sound, Names
<1>2. QED
  BY <1>1 DEF Always, NewUp, Promotes, Cleared, CanRename, Exists, Running

LEMMA LedStep ==
    ASSUME IInv, Always, Cleared, Abandoned, Led, [Next]_vars, Answers'
    PROVE  Led'
<1> SUFFICES ASSUME ~disk'.stopped, ctr'["previous"].run
             PROVE  ctr'["current"].run \/ Away'
  BY DEF Led, Running
<1> USE DEF Running, Promotes
<1>1. Typed /\ ctr \in Machine /\ job \in Jobs /\ disk \in Disks /\ {"current", "next", "previous"} = Names
  BY Types DEF IInv, Typed, Names
<1>2. /\ ~Absent.run /\ Remove("previous")["previous"] = Absent
      /\ \A n \in Names : Rename("previous", "current")["previous"] = Absent
      /\ ~Stop("previous")["previous"].run
  BY <1>1 DEF Remove, Stop, Rename, Absent, Machine, Container
<1>3. \A n \in Names : ctr[n].ver = 0 => ~ctr[n].run
  BY DEF IInv, Real, Sound
<1>4. ASSUME ~disk.stopped, ctr["previous"].run, ~ctr["current"].run PROVE Away
  BY <1>4 DEF Led
<1>5. ASSUME ctr'["current"] = ctr["current"], ctr'["previous"] = ctr["previous"], ~disk.stopped, ~Away
      PROVE  ctr'["current"].run
  BY <1>4, <1>5
<1>6. CASE Panel
  <2>1. ~disk.stopped \/ pc = "save_project"
    BY <1>1, <1>6, PanelKeeps
  <2>2. job'.caller = job.caller
    BY <1>1, <1>6, PanelKeeps
  <2>3. /\ Leave("next")["current"] = ctr["current"] /\ Leave("next")["previous"] = ctr["previous"]
        /\ Stop("next")["current"] = ctr["current"] /\ Stop("next")["previous"] = ctr["previous"]
        /\ Remove("next")["current"] = ctr["current"] /\ Remove("next")["previous"] = ctr["previous"]
        /\ \A a : /\ Join("next", a)["current"] = ctr["current"]
                  /\ Join("next", a)["previous"] = ctr["previous"]
        /\ \A a, up : /\ Create("next", a, up)["current"] = ctr["current"]
                      /\ Create("next", a, up)["previous"] = ctr["previous"]
    BY <1>1 DEF Leave, Stop, Remove, Join, Create, Machine
  <2>4. CASE Settle
    <3>1. ctr'["current"] = ctr["current"] /\ ctr'["previous"] = ctr["previous"]
      BY <2>3, <2>4 DEF Settle, SettleClean, SettleStopped, SettlePromote, SettleCheck, SettleSync,
         SettleRelease, SettleBack, SettleRemove, Applies, Refused, Tries, Does, Fails
    <3>2. pc \in SettleSteps
      BY <2>4, SettleAt
    <3>3. QED
      BY <1>5, <2>1, <3>1, <3>2 DEF Away, SettleSteps
  <2>5. CASE Direct
    <3>1. CASE PlanDirect
      BY <1>5, <2>1, <3>1 DEF PlanDirect, Away
    <3>2. CASE DirectClear
      BY <1>1, <1>2, <3>2, Surely DEF DirectClear, Does, Away
    <3>3. CASE DirectRun
      <4>1. pc = "l_run"
        BY <1>1, <3>3, Surely DEF DirectRun, Does
      <4>2. ~Exists("current")
        BY <4>1 DEF Cleared
      <4>3. ctr' = Create("current", {"slug"}, TRUE)
        BY <1>1, <3>3, <4>2, Surely DEF DirectRun, Does
      <4>4. QED
        BY <1>1, <4>3 DEF Create, Machine
    <3>4. QED
      BY <2>5, <3>1, <3>2, <3>3 DEF Direct
  <2>6. CASE PlanSwap \/ DropLeftover \/ StartNext \/ NextReady \/ NextUnhealthy \/ DropFailed \/ AliasNext
             \/ Repoint \/ Reprobe
    <3>1. ctr'["current"] = ctr["current"] /\ ctr'["previous"] = ctr["previous"]
      BY <2>3, <2>6 DEF PlanSwap, DropLeftover, StartNext, NextReady, NextUnhealthy, DropFailed, AliasNext,
         Moves, Repoint, Reprobe, RunsInto, Applies, Refused, Tries, Does, Fails
    <3>2. pc \in {"plan", "drop", "run", "wait", "drop_failed", "alias", "alias_join", "repoint", "reprobe"}
      BY <2>6 DEF PlanSwap, DropLeftover, StartNext, NextReady, NextUnhealthy, DropFailed, AliasNext,
         Repoint, Reprobe, RunsInto, Applies, Refused, Tries, Does, Fails
    <3>3. QED
      BY <1>5, <2>1, <3>1, <3>2 DEF Away
  <2>7. CASE RemovePrevious
    BY <1>1, <1>2, <2>7, Surely DEF RemovePrevious, Does
  <2>8. CASE KeepOld
    <3>1. pc = "keepold" /\ (pc' = "stopold" \/ ctr' = ctr)
      BY <2>8 DEF KeepOld, Does, Fails
    <3>2. QED
      BY <1>5, <2>1, <3>1 DEF Away
  <2>9. CASE StopOld \/ RemoveOld
    BY <1>1, <2>9, Surely DEF StopOld, RemoveOld, Away
  <2>10. CASE PromoteNext
    BY <1>1, <2>10, Surely DEF PromoteNext, Does, Away
  <2>11. CASE RenameNext
    <3>1. pc = "rename" /\ (ctr' = ctr \/ ctr' = Rename("next", "current"))
      BY <2>11 DEF RenameNext, Does, Fails
    <3>2. ctr'["previous"] = ctr["previous"]
      BY <1>1, <3>1 DEF Rename, Machine
    <3>3. job.ret # "recover"
      BY <3>1, <3>2 DEF Cleared
    <3>4. job.ret # "abort"
      BY <2>1, <3>1 DEF Abandoned
    <3>5. job.ret = "swap"
      BY <1>1, <3>3, <3>4 DEF Jobs
    <3>6. CanRename("next", "current") /\ Running("next")
      BY <3>1, <3>5, RenameWorks
    <3>7. ctr' = Rename("next", "current")
      BY <1>1, <2>11, <3>6, Surely DEF RenameNext, Does
    <3>8. ctr'["current"] = ctr["next"]
      BY <1>1, <3>7 DEF Rename, Machine
    <3>9. QED
      BY <3>6, <3>8
  <2>12. CASE Undo
    <3>1. pc \in {"abort", "ab_check", "ab_repoint", "ab_stop", "ab_leave", "ab_drop"}
      BY <2>1, <2>12, UndoAt DEF Abandoned
    <3>2. pc = "abort" => ~job.renamed
      BY <2>1, <3>1 DEF Abandoned
    <3>3. ctr'["current"] = ctr["current"] /\ ctr'["previous"] = ctr["previous"]
      BY <2>3, <2>12, <3>1, <3>2 DEF Undo, Abort, AbortStart, AbortCheck, AbortRepoint, AbortRemove,
         Renames, Applies, Refused, Tries, Does, Fails
    <3>4. QED
      BY <1>5, <2>1, <3>1, <3>3 DEF Away
  <2>13. CASE Proxy \/ Healthy \/ Unhealthy \/ Succeed \/ Fail
    <3>1. ctr' = ctr /\ pc \in {"proxy", "health", "success", "fail"}
      BY <2>13 DEF Proxy, Healthy, Unhealthy, Succeed, Fail, Applies, Refused, Does
    <3>2. QED
      BY <1>5, <2>1, <3>1 DEF Away
  <2>14. CASE Finish
    <3>1. pc = "finish" /\ (ctr' = ctr \/ ctr' = Remove("previous"))
      BY <1>1, <2>14, Surely DEF Finish, Does
    <3>2. QED
      BY <1>2, <1>5, <2>1, <3>1 DEF Away
  <2>15. CASE Save
    <3>1. ctr' = ctr /\ pc \in {"save_project", "save_job", "save_failed"}
      BY <2>15 DEF Save, Saves
    <3>2. pc = "save_project" => ctr["current"].run
      BY DEF Always, NewUp
    <3>3. QED
      BY <1>5, <2>1, <3>1, <3>2 DEF Away
  <2>16. CASE Rollback
    <3>1. CASE pc = "rollback"
      BY <1>1, <2>16, <3>1, Surely DEF Rollback, Does, Away
    <3>2. CASE pc = "rb_rename"
      <4>1. ~CanRename("previous", "current") => ~Exists("previous")
        BY <3>2 DEF Cleared, CanRename
      <4>2. ctr' = Rename("previous", "current") \/ (ctr' = ctr /\ ~Exists("previous"))
        BY <1>1, <2>16, <3>2, <4>1, Surely DEF Rollback, Does
      <4>3. QED
        BY <1>1, <1>2, <1>3, <4>2 DEF Exists
    <3>3. CASE pc = "rb_start"
      <4>1. ctr' = Begin("current")
        BY <1>1, <2>16, <3>3, Surely DEF Rollback, Does
      <4>2. ctr'["previous"] = ctr["previous"] /\ (ctr["current"].ver # 0 => ctr'["current"].run)
        BY <1>1, <4>1 DEF Begin, Exists, Machine, Container
      <4>3. ctr["current"].run
        BY <1>4, <2>1, <3>3, <4>2 DEF Away
      <4>4. QED
        BY <1>1, <1>3, <4>2, <4>3
    <3>4. QED
      BY <1>1, <2>16, <3>1, <3>2, <3>3, Surely DEF Rollback, Does
  <2>17. CASE RecoverCurrent
    BY <1>1, <2>3, <2>17, Surely DEF RecoverCurrent, Does
  <2>18. CASE RecoverAlias
    <3>1. /\ Leave("current")["previous"] = ctr["previous"] /\ Leave("current")["current"].run = ctr["current"].run
          /\ Join("current", job.joining)["previous"] = ctr["previous"]
          /\ Join("current", job.joining)["current"].run = ctr["current"].run
      BY <1>1 DEF Leave, Join, Exists, Machine, Container
    <3>2. pc \in {"recover_alias", "recover_join"}
      BY <2>18 DEF RecoverAlias, Does, Fails
    <3>3. ctr' \in {ctr, Leave("current"), Join("current", job.joining)}
      BY <2>18 DEF RecoverAlias, Does, Fails
    <3>4. ctr'["previous"] = ctr["previous"] /\ ctr'["current"].run = ctr["current"].run
      BY <3>1, <3>3
    <3>5. QED
      BY <1>4, <2>1, <3>2, <3>4 DEF Away
  <2>19. CASE RecoverDown
    <3>1. pc = "recover" /\ pc' = "recover_next" /\ ctr' = ctr /\ ~ctr["current"].run
      BY <1>1, <2>19, Surely DEF RecoverDown
    <3>2. job.caller = "boot"
      BY <1>4, <2>1, <3>1 DEF Away
    <3>3. QED
      BY <2>2, <3>1, <3>2 DEF Away
  <2>20. CASE RecoverNext
    <3>1. pc = "recover_next" /\ pc' \in {"recover_stop", AfterRecover} /\ ctr' \in {ctr, Remove("next")}
      BY <1>1, <2>20, Surely DEF RecoverNext, Does
    <3>2. job.caller = "boot"
      BY <1>4, <2>1, <2>3, <3>1 DEF Away, Cleared
    <3>3. QED
      BY <2>2, <3>1, <3>2 DEF Away, AfterRecover
  <2>21. CASE RecoverPromote
    <3>1. Rename("current", "previous")["previous"] = ctr["current"] /\ Remove("current")["previous"] = ctr["previous"]
      BY <1>1 DEF Rename, Remove, Machine
    <3>2. ~ctr'["previous"].run
      BY <1>1, <1>2, <2>21, <3>1, Surely DEF RecoverPromote, Does, Cleared
    <3>3. QED
      BY <3>2
  <2>22. CASE BootMain
    <3>0. job.caller = "boot"
      BY <1>1, <2>22, Surely DEF BootMain, Does, IInv, Callers, BootSteps
    <3>1. CASE pc = "boot_main"
      BY <1>1, <2>22, <2>2, <3>0, <3>1, Surely DEF BootMain, Does, Away
    <3>2. CASE pc = "boot_rename"
      BY <1>1, <1>2, <2>22, <2>2, <3>0, <3>2, Surely DEF BootMain, Does, Away
    <3>3. CASE pc = "boot_rm"
      BY <1>1, <2>22, <2>2, <3>0, <3>3, Surely DEF BootMain, Does, Away
    <3>4. CASE pc = "boot_rename2"
      <4>1. ~CanRename("previous", "current") => ~Exists("previous")
        BY <3>4 DEF Cleared, CanRename
      <4>2. ctr' = Rename("previous", "current") \/ (ctr' = ctr /\ ~Exists("previous"))
        BY <1>1, <2>22, <3>4, <4>1, Surely DEF BootMain, Does
      <4>3. QED
        BY <1>1, <1>2, <1>3, <4>2 DEF Exists
    <3>5. QED
      BY <1>1, <2>22, <3>1, <3>2, <3>3, <3>4, Surely DEF BootMain, Does
  <2>23. CASE BootSave \/ BootSync
    <3>1. ctr' = ctr /\ pc \in {"bootsave", "bootsync"}
      BY <2>23 DEF BootSave, BootSync, Saves, Applies, Refused
    <3>2. QED
      BY <1>5, <2>1, <3>1 DEF Away
  <2>24. CASE Notice \/ BuildFails
    <3>1. ctr' = ctr /\ pc \in {"notice", "plan"}
      BY <2>24, NoticeAt DEF BuildFails
    <3>2. QED
      BY <1>5, <2>1, <3>1 DEF Away
  <2>25. QED
    BY <1>6, <2>4, <2>5, <2>6, <2>7, <2>8, <2>9, <2>10, <2>11, <2>12, <2>13, <2>14, <2>15, <2>16, <2>17,
       <2>18, <2>19, <2>20, <2>21, <2>22, <2>23, <2>24 DEF Panel, Swap, Ending, Recover
<1>7. CASE StartDeploy
  <2>1. ctr' = ctr /\ pc = "idle" /\ ~disk.stopped
    BY <1>1, <1>7 DEF StartDeploy, Disks
  <2>2. QED
    BY <1>5, <2>1 DEF Away
<1>8. CASE Crash
  <2>1. ctr' = ctr /\ disk' = disk /\ pc' = "down" /\ pc # "down"
    BY <1>8 DEF Crash
  <2>2. CASE ~Away
    BY <1>5, <2>1, <2>2
  <2>3. CASE Away
    <3>1. ctr["previous"].run /\ ~disk.stopped
      BY <2>1
    <3>2. pc \in {"stopold", "l_stop", "l_run", "rollback", "rb_rename"} => job.caller # "bootsettle"
      BY DEF IInv, Callers, DeploySteps
    <3>3. pc \in {"promote", "promote_join", "rename"} => job.caller # "bootsettle"
      BY <1>1, <3>1 DEF Cleared, IInv, Callers
    <3>4. pc \notin {"idle", "down", "bootsync"} /\ job.caller # "bootsettle"
      BY <2>1, <2>3, <3>2, <3>3 DEF Away
    <3>5. disk.status = "running"
      BY <3>4 DEF Always, Open
    <3>6. QED
      BY <2>1, <3>5 DEF Away
  <2>4. QED
    BY <2>2, <2>3
<1>9. CASE Boot
  <2>1. ctr' = ctr /\ disk' = disk /\ pc = "down"
    BY <1>9 DEF Boot
  <2>2. CASE disk.status = "running"
    <3>1. pc' = "recover" /\ job'.caller = "boot"
      BY <1>9, <2>1, <2>2, IdleJobIs DEF Boot
    <3>2. QED
      BY <3>1 DEF Away
  <2>3. CASE disk.status # "running"
    BY <1>5, <2>1, <2>3 DEF Away
  <2>4. QED
    BY <2>2, <2>3
<1>10. CASE Stopped
  BY <1>1, <1>10 DEF Stopped, Disks
<1>11. CASE PersonStart
  BY <1>1, <1>11 DEF PersonStart, Begin, Exists, Machine, Container
<1>12. CASE UNCHANGED <<ctr, pc, job, disk>>
  BY <1>4, <1>12 DEF Away
<1>13. QED
  BY <1>6, <1>7, <1>8, <1>9, <1>10, <1>11, <1>12
     DEF Next, AskStop, OtherCompute, OtherLoad, CaddyRestart, vars

LEMMA DockerInit == ASSUME Init PROVE DockerInv
<1> USE DEF Promotes, Running
<1>1. /\ pc = "idle" /\ disk.stopped = FALSE /\ stopping = {} /\ deploys = 0
      /\ \A n \in Names : ctr[n].ver = 0 /\ ctr[n].alias = {} /\ ~ctr[n].run
      /\ "previous" \in Names
  <2>1. disk \in [kind : Kinds, status : {"none"}, stopped : {FALSE}, published : {0}]
    BY DEF Init
  <2>2. disk.stopped \in {FALSE}
    BY <2>1
  <2>3. QED
    BY <2>2 DEF Init, Absent, Names
<1>2. job.joining = {} /\ Pair({})
  BY DEF Init, IdleJob, Pair, Alias
<1>3. Always
  <2>1. \A n \in Names : Pair(ctr[n].alias)
    BY <1>1, <1>2
  <2>2. ~job.renamed /\ ~job.removedOld
    BY DEF Init, IdleJob
  <2>3. Numbered /\ Named /\ TwoNames
    BY <1>1, <1>2, <2>1 DEF Numbered, Named, TwoNames
  <2>4. Returns /\ Before /\ Open
    BY <1>1, <2>2 DEF Returns, SwapBegun, Before, Open
  <2>5. NewUp /\ Holds
    BY <1>1 DEF NewUp, NewRuns, Holds
  <2>6. QED
    BY <2>3, <2>4, <2>5 DEF Always
<1>4. Answered
  BY <1>1 DEF Answered, Gone, Picked, Cleared, Abandoned, Led
<1>5. QED
  BY <1>3, <1>4 DEF DockerInv

LEMMA DockerStep == ASSUME IInv, DockerInv, [Next]_vars PROVE DockerInv'
<1>1. Typed /\ Callers /\ Always
  BY Types DEF IInv, DockerInv
<1>2. Always'
  BY <1>1, AlwaysStep
<1>3. ASSUME Answers' PROVE Answered'
  <2>1. "faults" \in AllTroubles
    BY DEF AllTroubles
  <2>2. Answered
    BY <1>1, <1>3, <2>1, SpentOnce DEF Answers, DockerInv
  <2>3. Gone' /\ Picked' /\ Cleared'
    BY <1>1, <1>3, <2>2, GoneStep, PickedStep, ClearedStep DEF Answered, Always
  <2>4. Abandoned' /\ Led'
    BY <1>1, <1>3, <2>2, AbandonedStep, LedStep DEF Answered
  <2>5. QED
    BY <2>3, <2>4 DEF Answered
<1>4. QED
  BY <1>2, <1>3 DEF DockerInv

LEMMA DockerInvariant == Spec => [](IInv /\ DockerInv)
<1>1. Init => IInv /\ DockerInv
  BY InvInit, DockerInit
<1>2. IInv /\ DockerInv /\ [Next]_vars => (IInv /\ DockerInv)'
  BY InvStep, DockerStep
<1>3. QED
  BY <1>1, <1>2, PTL DEF Spec

-----------------------------------------------------------------------------
(* The theorems. *)

\* While a new version is probed by the alias picked for it (pickNextAlias), no other
\* running container of the project answers by that alias, so the answer is its own:
\* whatever was left behind by refused reloads, by a panel that died in the middle of
\* a swap or by a person's stop, as long as no docker command failed.
THEOREM ProbeIsExclusive == Spec => []AliasExclusive
<1>1. DockerInv => AliasExclusive
  <2>1. SUFFICES ASSUME DockerInv, pc = "wait", Answers, NEW n \in Names, Running(n), job.alias \in ctr[n].alias
                 PROVE  n = "next"
    BY DEF AliasExclusive, Without, Answers
  <2>2. QED
    BY <2>1 DEF DockerInv, Answered, Picked, Names
<1>2. QED
  BY <1>1, DockerInvariant, PTL

\* One step that leaves nothing running.
LEMMA LastStep ==
    ASSUME IInv, DockerInv, [Next]_vars, Online, Online', Alive, ~Alive', Answers'
    PROVE  pc \in {"rollback", "l_stop", "l_rm"}
<1> USE DEF Running
<1>1. /\ Typed /\ ctr \in Machine /\ {"current", "next", "previous"} = Names
      /\ ~disk.stopped /\ ~disk'.stopped
      /\ \A n \in Names : ctr[n].ver = 0 => ~ctr[n].run
  BY Types DEF IInv, Typed, Names, Online, Real, Sound
<1>2. Always /\ Answered
  <2>1. "faults" \in AllTroubles
    BY DEF AllTroubles
  <2>2. QED
    BY <1>1, <2>1, SpentOnce DEF Answers, DockerInv
<1>3. PICK m \in Names : ctr[m].run
  BY DEF Alive
<1>4. \A n \in Names : ~ctr'[n].run
  BY DEF Alive
<1>5. ctr' # ctr
  BY <1>3, <1>4
<1>6. ASSUME NEW k \in Names, NEW n \in Names, k # n, CanRename(k, n) PROVE ctr' # Rename(k, n)
  <2>1. Rename(k, n)[n] = ctr[k] /\ \A i \in Names \ {k, n} : Rename(k, n)[i] = ctr[i]
    BY <1>1, <1>6 DEF Rename, Machine
  <2>2. ~ctr[n].run
    BY <1>1, <1>6 DEF CanRename, Exists
  <2>3. QED
    BY <1>3, <1>4, <2>1, <2>2
<1>7. ASSUME NEW k \in Names, NEW n \in Names, k # n, ctr[k].run PROVE ctr' \notin {Remove(n), Stop(n)}
  BY <1>1, <1>4, <1>7 DEF Remove, Stop, Machine
<1>8. \A n \in Names : ctr' # Leave(n) /\ ctr' # Begin(n) /\ \A a : ctr' # Join(n, a)
  BY <1>1, <1>3, <1>4 DEF Leave, Begin, Join, Exists, Machine, Container
<1>9. SUFFICES ASSUME pc \notin {"rollback", "l_stop", "l_rm"} PROVE FALSE
  OBVIOUS
<1>10. pc \notin SwapSteps
  BY AliveStep
<1>11. CASE Settle
  <2>1. CASE SettleStopped
    BY <1>1, <2>1 DEF SettleStopped
  <2>2. CASE SettleRemove
    <3>1. pc \in {"settle_stop", "settle_leave", "settle_rm"} /\ ctr' \in {Stop("next"), Leave("next"), Remove("next")}
      BY <1>1, <2>2, Surely DEF SettleRemove, Does
    <3>2. ctr["current"].run
      BY <1>1, <1>2, <3>1 DEF Always, Holds
    <3>3. QED
      BY <1>1, <1>7, <1>8, <3>1, <3>2
  <2>3. CASE SettleClean \/ SettlePromote \/ SettleCheck \/ SettleSync \/ SettleRelease \/ SettleBack
    BY <1>5, <2>3 DEF SettleClean, SettlePromote, SettleCheck, SettleSync, SettleRelease, SettleBack,
       Applies, Refused
  <2>4. QED
    BY <1>11, <2>1, <2>2, <2>3 DEF Settle
<1>12. CASE Direct
  <2>1. CASE PlanDirect
    BY <1>5, <2>1 DEF PlanDirect
  <2>2. CASE DirectClear /\ pc = "l_rmprev"
    <3>1. ctr' = Remove("previous")
      BY <1>1, <2>2, Surely DEF DirectClear, Does
    <3>2. ctr["current"].run \/ ctr["next"].run
      BY <1>1, <1>2, <1>3, <2>2 DEF Answered, Led, Away, Promotes
    <3>3. QED
      BY <1>1, <1>7, <3>1, <3>2
  <2>3. CASE DirectClear /\ pc = "l_rename"
    BY <1>1, <1>5, <1>6, <2>3, Surely DEF DirectClear, Does
  <2>4. CASE DirectRun
    <3>1. Create("current", {"slug"}, TRUE)["current"].run
      BY <1>1 DEF Create, Machine
    <3>2. ctr' = Create("current", {"slug"}, TRUE)
      BY <1>1, <1>5, <2>4, Surely DEF DirectRun, Does
    <3>3. QED
      BY <1>1, <1>4, <3>1, <3>2
  <2>5. CASE DirectClear
    BY <1>1, <1>9, <2>2, <2>3, <2>5, Surely DEF DirectClear, Does
  <2>6. QED
    BY <1>12, <2>1, <2>4, <2>5 DEF Direct
<1>13. CASE Swap \/ Undo
  BY <1>5, <1>10, <1>13, SwapAt, UndoAt DEF SwapSteps, PromoteSteps, Swap, PlanSwap, BuildFails, DropLeftover,
     StartNext, NextReady, NextUnhealthy, DropFailed, AliasNext, Repoint, Reprobe, RemovePrevious, KeepOld,
     StopOld, RemoveOld, PromoteNext, RenameNext, RunsInto, Applies, Refused, Tries, Does, Fails
<1>14. CASE Ending
  <2>1. CASE Finish
    <3>1. pc = "finish" /\ ctr' = Remove("previous")
      BY <1>1, <1>5, <2>1, Surely DEF Finish, Does
    <3>2. ctr["current"].run
      BY <1>2, <3>1 DEF Always, NewUp
    <3>3. QED
      BY <1>1, <1>7, <3>1, <3>2
  <2>2. CASE Rollback
    BY <1>1, <1>5, <1>6, <1>8, <1>9, <2>2, Surely DEF Rollback, Does
  <2>3. CASE Proxy \/ Healthy \/ Unhealthy \/ Succeed \/ Fail \/ Save
    BY <1>5, <2>3 DEF Proxy, Healthy, Unhealthy, Succeed, Fail, Save, Saves, Applies, Refused, Does
  <2>4. QED
    BY <1>14, <2>1, <2>2, <2>3 DEF Ending
<1>15. CASE Recover
  <2>1. CASE RecoverCurrent
    <3>1. ctr' = Remove("next") /\ ctr["current"].run
      BY <1>1, <2>1, Surely DEF RecoverCurrent, Does
    <3>2. QED
      BY <1>1, <1>7, <3>1
  <2>2. CASE RecoverAlias \/ RecoverDown
    BY <1>1, <1>5, <1>8, <2>2, Surely DEF RecoverAlias, RecoverDown, Does
  <2>3. CASE RecoverNext
    <3>1. ctr' = Remove("next") /\ ~ctr["next"].run
      BY <1>1, <1>5, <2>3, Surely DEF RecoverNext, Does
    <3>2. QED
      BY <1>1, <1>3, <1>7, <3>1
  <2>4. CASE RecoverPromote
    <3>1. pc \in {"recover_stop", "recover_keep", "recover_rename"}
      BY <1>1, <2>4, Surely DEF RecoverPromote, Does
    <3>2. CASE pc = "recover_rename"
      BY <1>1, <1>5, <1>6, <2>4, <3>2, Surely DEF RecoverPromote, Does
    <3>3. CASE pc # "recover_rename"
      <4>1. ctr["next"].run
        BY <1>1, <1>2, <3>1, <3>3 DEF Always, Holds
      <4>2. ctr' \in {Stop("previous"), Remove("previous"), Remove("current")}
        BY <1>1, <1>5, <2>4, <3>3, Surely DEF RecoverPromote, Does
      <4>3. QED
        BY <1>1, <1>7, <4>1, <4>2
    <3>4. QED
      BY <3>2, <3>3
  <2>5. CASE BootMain
    <3>1. CASE pc = "boot_rm"
      <4>1. ctr["previous"].run
        BY <1>1, <1>2, <3>1 DEF Always, Holds
      <4>2. ctr' = Remove("current")
        BY <1>1, <1>5, <2>5, <3>1, Surely DEF BootMain, Does
      <4>3. QED
        BY <1>1, <1>7, <4>1, <4>2
    <3>2. CASE pc # "boot_rm"
      BY <1>1, <1>5, <1>6, <2>5, <3>2, Surely DEF BootMain, Does
    <3>3. QED
      BY <3>1, <3>2
  <2>6. CASE BootSave \/ BootSync
    BY <1>5, <2>6 DEF BootSave, BootSync, Saves, Applies, Refused
  <2>7. QED
    BY <1>15, <2>1, <2>2, <2>3, <2>4, <2>5, <2>6 DEF Recover
<1>16. CASE Notice \/ BuildFails
  BY <1>5, <1>16, NoticeAt DEF BuildFails
<1>17. CASE Stopped
  BY <1>1, <1>17 DEF Stopped, Typed, Disks
<1>18. CASE PersonStart
  BY <1>1, <1>8, <1>18 DEF PersonStart
<1>19. QED
  BY <1>5, <1>11, <1>12, <1>13, <1>14, <1>15, <1>16, <1>17, <1>18
     DEF Next, Panel, StartDeploy, Crash, Boot, AskStop, OtherCompute, OtherLoad, CaddyRestart, vars

\* As long as no docker command fails, the last running container of a project that
\* is online is taken down only by rollbackNodeServer, which removes the version that
\* failed before it starts the previous one, and by a deploy without a swap, which
\* takes the old version down first: never by a swap, by the recovery of an
\* interrupted deploy, by the settling of a leftover or by the end of a deploy.
THEOREM LastIsKept == Spec => LastContainer
<1>1. IInv /\ DockerInv /\ [Next]_vars
        => [Online /\ Online' /\ Alive /\ ~Alive' /\ Without({"faults"})'
              => pc \in {"rollback", "l_stop", "l_rm"}]_vars
  BY LastStep DEF Without, Answers
<1>2. QED
  BY <1>1, DockerInvariant, PTL DEF Spec, LastContainer

=============================================================================
