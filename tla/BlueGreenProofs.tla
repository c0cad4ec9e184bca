--------------------------- MODULE BlueGreenProofs ---------------------------
(***************************************************************************)
(* Proofs about BlueGreen with every trouble allowed, any number of them    *)
(* and of deploys: its types, that no step of a swap or of its undoing      *)
(* takes the last running container, and that nothing but a deploy or a     *)
(* person brings back a project that a person stopped.                      *)
(***************************************************************************)
EXTENDS BlueGreen, TLAPS

-----------------------------------------------------------------------------
(* The inductive invariant. *)

\* A container that does not exist does not run.
Sound(c) == \A n \in Names : c[n].ver = 0 => ~c[n].run
Real == Sound(ctr)

\* Before the first deploy there is nothing to recover or to settle.
Unborn ==
    deploys = 0 =>
        /\ disk.status # "running"
        /\ \A n \in Names : ctr[n].ver = 0
        /\ pc \in {"idle", "down"} \/ (pc = "settle" /\ job.caller = "bootsettle")

\* Where only a deploy can be, where the boot can, and who shares a routine.
DeploySteps == {"notice", "plan", "l_rmprev", "l_rename", "l_stop", "l_rm", "l_run",
                "drop", "run", "wait", "drop_failed", "alias", "alias_join", "repoint",
                "reprobe", "rmprev", "keepold", "stopold", "rmold",
                "abort", "ab_start", "ab_check", "ab_repoint", "ab_stop", "ab_leave", "ab_drop",
                "proxy", "health", "finish", "success", "fail",
                "save_project", "save_job", "save_failed"}
SettleSteps == {"settle", "settle_check", "settle_sync", "settle_back", "settle_stop",
                "settle_leave", "settle_rm"}
BootSteps   == {"boot_main", "boot_rename", "boot_rm", "boot_rename2", "bootsave", "bootsync"}
Callers ==
    /\ pc \in DeploySteps => job.caller = "deploy"
    /\ pc \in SettleSteps => job.caller # "boot"
    /\ pc \in BootSteps => job.caller = "boot"
    /\ pc \in {"rollback", "rb_rename", "rb_start"} => job.caller # "bootsettle"
    /\ pc \in {"recover_next", "recover_stop", "recover_keep", "recover_rename"} => job.ret = "recover"
    /\ pc \in {"promote", "promote_join", "rename"} => job.ret = "recover" \/ job.caller = "deploy"

\* The boot's recovery works only on a project that nobody stopped, and a stop()
\* does not outlive the panel.
BootWorks ==
    /\ pc = "down" => stopping = {}
    /\ job.caller = "boot" /\ pc \notin {"idle", "bootsave", "bootsync"} =>
           ~disk.stopped /\ stopping = {}

\* From its plan to its proxy a swap knows the alias of the new container.
Aliased == pc \in {"drop", "run", "wait", "alias", "alias_join", "repoint"} =>
               job.alias # NoAlias

\* Where the old version must run, and where the new one must.
OldRuns == {"drop", "run", "wait", "drop_failed", "alias", "alias_join", "repoint",
            "reprobe", "rmprev", "keepold", "rmold",
            "ab_repoint", "ab_stop", "ab_leave", "ab_drop"}
NewRuns == {"wait", "alias", "alias_join", "repoint", "reprobe", "rmprev", "keepold",
            "stopold", "rmold"}
Sides == ~disk.stopped => /\ pc \in OldRuns => Running("current")
                          /\ pc \in NewRuns => Running("next")

IInv == TypeOK /\ Aliased /\ Real /\ Unborn /\ Callers /\ BootWorks /\ Sides

-----------------------------------------------------------------------------
(* Types. *)

Points == Queued \cup
    {"idle", "down", "settle", "settle_check", "settle_stop", "settle_leave",
     "settle_rm", "plan", "l_rmprev", "l_rename", "l_stop", "l_rm", "l_run",
     "drop", "run", "wait", "drop_failed", "alias", "alias_join", "reprobe",
     "rmprev", "keepold", "stopold", "rmold", "promote", "promote_join",
     "rename", "health", "finish", "save_project", "save_job", "save_failed",
     "abort", "ab_start", "ab_check", "ab_stop", "ab_leave", "ab_drop",
     "rollback", "rb_rename", "rb_start", "recover", "recover_alias",
     "recover_join", "recover_stop", "recover_keep", "recover_rename",
     "boot_main", "boot_rename", "boot_rm", "boot_rename2", "bootsave", "recover_next"}
Machine  == [Names -> Container]
Proxies  == [loaded : Alias, file : Alias]
Upstream == Alias \cup {NoAlias}
Jobs == [alias : Upstream, moved : BOOLEAN, renamed : BOOLEAN, stopped : BOOLEAN,
         removedOld : BOOLEAN, swapped : BOOLEAN, held : Upstream, joining : SUBSET Alias,
         caller : {"deploy", "bootsettle", "boot"}, ret : {"swap", "abort", "recover"}]
Disks == [kind : Kinds, status : {"none", "running", "failed", "success"}, stopped : BOOLEAN,
          published : Nat]
Counts == [AllTroubles -> Nat]

Typed == /\ ctr \in Machine /\ caddy \in Proxies /\ other \in Upstream
         /\ swapUpstream \in Upstream /\ job \in Jobs /\ pc \in Points /\ disk \in Disks
         /\ deploys \in Nat /\ probed \subseteq Nat /\ stopping \subseteq Nat
         /\ troubles \in Counts

LEMMA Types == TypeOK <=> Typed
  BY DEF TypeOK, Typed, Machine, Proxies, Upstream, Jobs, Points, Disks, Counts

\* Every docker command leaves containers.
LEMMA CommandTypes ==
    ASSUME ctr \in Machine, deploys \in Nat
    PROVE  /\ \A n \in Names : Remove(n) \in Machine /\ Stop(n) \in Machine
                               /\ Begin(n) \in Machine /\ Leave(n) \in Machine
           /\ \A m, n \in Names : Rename(m, n) \in Machine
           /\ \A n \in Names, a \in SUBSET Alias : Join(n, a) \in Machine
           /\ \A n \in Names, a \in SUBSET Alias, up \in BOOLEAN : Create(n, a, up) \in Machine
<1>1. Absent \in Container
  BY DEF Absent, Container
<1>2. ASSUME NEW n \in Names PROVE Remove(n) \in Machine
  BY <1>1 DEF Remove, Machine
<1>3. ASSUME NEW n \in Names PROVE Stop(n) \in Machine
  BY DEF Stop, Machine, Container
<1>4. ASSUME NEW n \in Names PROVE Begin(n) \in Machine
  BY DEF Begin, Exists, Machine, Container
<1>5. ASSUME NEW n \in Names PROVE Leave(n) \in Machine
  BY DEF Leave, Machine, Container
<1>6. ASSUME NEW m \in Names, NEW n \in Names PROVE Rename(m, n) \in Machine
  BY <1>1 DEF Rename, Machine
<1>7. ASSUME NEW n \in Names, NEW a \in SUBSET Alias PROVE Join(n, a) \in Machine
  BY DEF Join, Exists, Machine, Container
<1>8. ASSUME NEW n \in Names, NEW a \in SUBSET Alias, NEW up \in BOOLEAN PROVE Create(n, a, up) \in Machine
  BY DEF Create, Machine, Container
<1>9. QED
  BY <1>2, <1>3, <1>4, <1>5, <1>6, <1>7, <1>8

LEMMA SpendTypes ==
    ASSUME troubles \in Counts
    PROVE  /\ \A what \in AllTroubles : Spend(what) => troubles' \in Counts
           /\ \A n \in Names : SeesRunning(n) \/ SeesNotRunning(n) => troubles' \in Counts
<1>1. ASSUME NEW what \in AllTroubles, Spend(what) PROVE troubles' \in Counts
  BY <1>1 DEF Spend, Counts
<1>2. "faults" \in AllTroubles
  BY DEF AllTroubles
<1>3. QED
  BY <1>1, <1>2 DEF SeesRunning, SeesNotRunning

\* A docker command keeps the types of everything else.
LEMMA CommandStep ==
    ASSUME Typed, NEW l, NEW m \in Points, NEW c \in Machine, Does(l, m, c) \/ Fails(l, m, c)
    PROVE  Typed'
<1>1. "faults" \in AllTroubles
  BY DEF AllTroubles
<1>2. troubles' \in Counts
  BY <1>1, SpendTypes DEF Does, Fails, Typed
<1>3. QED
  BY <1>2 DEF Does, Fails, Typed

LEMMA TriesStep ==
    ASSUME Typed, NEW l, NEW m \in Points, NEW c \in Machine, Tries(l, m, c)
    PROVE  Typed'
<1>1. ctr \in Machine
  BY DEF Typed
<1>2. QED
  BY <1>1, CommandStep DEF Tries

LEMMA RenamesStep ==
    ASSUME Typed, NEW l, NEW ok \in Points, NEW bad \in Points, NEW m \in Names, NEW n \in Names,
           Renames(l, m, n, ok, bad)
    PROVE  Typed'
<1>1. ctr \in Machine /\ Rename(m, n) \in Machine
  BY CommandTypes DEF Typed
<1>2. QED
  BY <1>1, CommandStep DEF Renames

\* A reload of the proxy, taken or refused.
LEMMA ReloadTypes ==
    ASSUME Typed, NEW l, NEW u \in Alias, NEW m \in Points, Applies(l, u, m) \/ Refused(l, u, m)
    PROVE  /\ caddy' \in Proxies /\ troubles' \in Counts /\ pc' \in Points
           /\ UNCHANGED <<ctr, other, deploys, probed, stopping>>
<1>1. "refusals" \in AllTroubles
  BY DEF AllTroubles
<1>2. CASE Applies(l, u, m)
  BY <1>2 DEF Applies, Accepts, Proxies, Typed
<1>3. CASE Refused(l, u, m)
  <2>1. troubles' \in Counts
    BY <1>1, <1>3, SpendTypes DEF Refused, Refuses, Typed
  <2>2. caddy' \in Proxies
    BY <1>3 DEF Refused, Refuses, Proxies, Typed
  <2>3. QED
    BY <1>3, <2>1, <2>2 DEF Refused, Refuses
<1>4. QED
  BY <1>2, <1>3

LEMMA UpstreamTypes ==
    ASSUME Typed
    PROVE  UpstreamFor \in Alias /\ NoAlias \in Upstream /\ Alias \subseteq Upstream /\ "slug" \in Alias
  BY DEF Typed, UpstreamFor, Upstream, Alias, NoAlias

LEMMA NextPoints ==
    /\ \A r : AfterSettle(r) \in Points
    /\ PromoteFailed \in Points /\ AfterProxyFailure \in Points
    /\ AfterRecover \in Points /\ RecoverFailed \in Points
  BY DEF AfterSettle, PromoteFailed, AfterProxyFailure, AfterRecover, RecoverFailed, Points, Queued

\* The job's fields, one at a time.
LEMMA JobTypes ==
    ASSUME Typed
    PROVE  /\ IdleJob \in Jobs
           /\ \A a \in Upstream : [job EXCEPT !.alias = a, !.ret = "swap"] \in Jobs
           /\ \A a \in Upstream : [job EXCEPT !.held = a] \in Jobs
           /\ \A a \in SUBSET Alias : [job EXCEPT !.joining = a] \in Jobs
           /\ \A b \in BOOLEAN : /\ [job EXCEPT !.moved = b] \in Jobs
                                 /\ [job EXCEPT !.renamed = b] \in Jobs
                                 /\ [job EXCEPT !.stopped = b] \in Jobs
                                 /\ [job EXCEPT !.removedOld = b] \in Jobs
                                 /\ [job EXCEPT !.swapped = b] \in Jobs
           /\ \A r \in {"abort", "recover"} : [job EXCEPT !.ret = r] \in Jobs
  BY DEF Typed, IdleJob, Jobs, Upstream, NoAlias

LEMMA IdleJobIs ==
    /\ IdleJob.caller = "deploy" /\ IdleJob.ret = "swap"
    /\ \A c : LET j == [IdleJob EXCEPT !.caller = c, !.ret = "recover"]
              IN  j.caller = c /\ j.ret = "recover"
  BY DEF IdleJob

LEMMA BootJob == \A c \in {"boot", "bootsettle"} : [IdleJob EXCEPT !.caller = c, !.ret = "recover"] \in Jobs
<1>1. IdleJob \in Jobs
  BY DEF IdleJob, Jobs, Upstream
<1>2. \A j \in Jobs, c \in {"boot", "bootsettle"} : [j EXCEPT !.caller = c, !.ret = "recover"] \in Jobs
  BY DEF Jobs
<1>3. QED
  BY <1>1, <1>2

\* The record of the deploy.
LEMMA DiskTypes ==
    ASSUME Typed
    PROVE  /\ [disk EXCEPT !.status = "running"] \in Disks
           /\ [disk EXCEPT !.status = "failed"] \in Disks
           /\ [disk EXCEPT !.status = "success"] \in Disks
           /\ \A b \in BOOLEAN : [disk EXCEPT !.stopped = b] \in Disks
           /\ [disk EXCEPT !.stopped = FALSE, !.published = deploys] \in Disks
  BY DEF Typed, Disks

LEMMA SettleTypes == ASSUME Typed, Settle PROVE Typed'
<1> USE NextPoints, CommandTypes, UpstreamTypes, JobTypes, SpendTypes
<1>1. ctr \in Machine /\ deploys \in Nat /\ troubles \in Counts /\ swapUpstream \in Upstream
      /\ job.held \in Upstream
  BY DEF Typed, Jobs
<1>2. /\ {"recover", "settle_sync", "settle_back", "settle_stop", "settle_leave", "settle_rm"} \subseteq Points
      /\ {"next", "current"} \subseteq Names
  BY DEF Points, Queued, Names
<1>3. CASE SettleClean
  BY <1>1, <1>2, <1>3 DEF SettleClean, Typed
<1>4. CASE SettleStopped
  BY <1>1, <1>2, <1>4, TriesStep DEF SettleStopped
<1>5. CASE SettlePromote
  BY <1>1, <1>2, <1>5 DEF SettlePromote, Typed
<1>6. CASE SettleCheck
  BY <1>1, <1>2, <1>6 DEF SettleCheck, Typed
<1>7. CASE SettleSync
  BY <1>1, <1>2, <1>7, ReloadTypes DEF SettleSync, Typed
<1>8. CASE SettleRelease
  BY <1>1, <1>2, <1>8 DEF SettleRelease, Typed
<1>9. CASE SettleBack
  BY <1>1, <1>2, <1>9, ReloadTypes DEF SettleBack, Typed
<1>10. CASE SettleRemove
  BY <1>1, <1>2, <1>10, TriesStep DEF SettleRemove
<1>11. QED
  BY <1>3, <1>4, <1>5, <1>6, <1>7, <1>8, <1>9, <1>10 DEF Settle

\* A `docker run` leaves a container or nothing.
LEMMA RunsTypes ==
    ASSUME Typed, NEW n \in Names, NEW a \in SUBSET Alias, NEW l, NEW ok \in Points, NEW bad \in Points,
           RunsInto(n, a, l, ok, bad)
    PROVE  Typed'
<1>1. ctr \in Machine /\ \A up \in BOOLEAN : Create(n, a, up) \in Machine
  BY CommandTypes DEF Typed
<1>2. QED
  BY <1>1, CommandStep DEF RunsInto

LEMMA DirectTypes == ASSUME Typed, Direct PROVE Typed'
<1> USE NextPoints, CommandTypes, SpendTypes
<1>1. ctr \in Machine /\ deploys \in Nat /\ troubles \in Counts
  BY DEF Typed
<1>2. /\ {"l_rmprev", "l_rename", "l_stop", "l_rm", "l_run", "proxy", "rollback", "fail"} \subseteq Points
      /\ {"current", "previous"} \subseteq Names /\ {"slug"} \in SUBSET Alias
  BY DEF Points, Queued, Names, Alias
<1>3. CASE PlanDirect
  BY <1>1, <1>2, <1>3 DEF PlanDirect, Typed
<1>4. CASE DirectClear
  BY <1>1, <1>2, <1>4, TriesStep, RenamesStep DEF DirectClear
<1>5. CASE DirectRun
  BY <1>1, <1>2, <1>5, RunsTypes DEF DirectRun
<1>6. QED
  BY <1>3, <1>4, <1>5 DEF Direct

LEMMA SwapTypes == ASSUME Typed, Aliased, Swap PROVE Typed'
<1> USE NextPoints, CommandTypes, UpstreamTypes, JobTypes, SpendTypes
<1>1. /\ ctr \in Machine /\ deploys \in Nat /\ troubles \in Counts /\ swapUpstream \in Upstream
      /\ probed \subseteq Nat /\ job.alias \in Upstream /\ job.joining \in SUBSET Alias
  BY DEF Typed, Jobs
<1>2. /\ {"drop", "run", "wait", "drop_failed", "fail", "alias", "alias_join", "repoint", "reprobe",
          "abort", "rmprev", "rmold", "keepold", "stopold", "promote", "promote_join",
          "rename", "proxy", "bootsave", "settle_check"} \subseteq Points
      /\ {"next", "current", "previous"} \subseteq Names
  BY DEF Points, Queued, Names
<1>3. job.alias # NoAlias => job.alias \in Alias
  BY <1>1 DEF Upstream
<1>4. \A n \in Names : ctr[n].alias \in SUBSET Alias /\ ctr[n].ver \in Nat
  BY <1>1 DEF Machine, Container
<1>5. CASE PlanSwap
  <2>1. \A t : PickNextAlias(t) \in Upstream
    BY DEF PickNextAlias, Upstream, Alias
  <2>2. job' \in Jobs
    <3>1. CASE job' = [job EXCEPT !.alias = PickNextAlias(Taken({})), !.ret = "swap"]
      BY <2>1, <3>1
    <3>2. CASE \E n \in Names : job' = [job EXCEPT !.alias = PickNextAlias(Taken({n})), !.ret = "swap"]
      <4>1. PICK n \in Names : job' = [job EXCEPT !.alias = PickNextAlias(Taken({n})), !.ret = "swap"]
        BY <3>2
      <4>2. QED
        BY <2>1, <4>1
    <3>3. QED
      BY <1>5, <3>1, <3>2 DEF PlanSwap
  <2>3. troubles' \in Counts
    <3>1. "faults" \in AllTroubles
      BY DEF AllTroubles
    <3>2. QED
      BY <1>1, <1>5, <3>1 DEF PlanSwap
  <2>4. QED
    BY <1>2, <1>5, <2>2, <2>3 DEF PlanSwap, Typed
<1>6. CASE DropLeftover
  BY <1>1, <1>2, <1>6, TriesStep DEF DropLeftover
<1>7. CASE StartNext
  <2>1. {job.alias} \in SUBSET Alias
    <3>1. pc = "run"
      BY <1>7 DEF StartNext, RunsInto, Does, Fails
    <3>2. QED
      BY <1>3, <3>1 DEF Aliased
  <2>2. QED
    BY <1>2, <1>7, <2>1, RunsTypes DEF StartNext
<1>8. CASE NextReady
  BY <1>1, <1>2, <1>4, <1>8 DEF NextReady, Typed
<1>9. CASE NextUnhealthy
  BY <1>2, <1>9 DEF NextUnhealthy, Typed
<1>10. CASE DropFailed
  BY <1>1, <1>2, <1>10, TriesStep DEF DropFailed
<1>11. CASE AliasNext
  <2>1. ASSUME pc = "alias" \/ pc = "alias_join" PROVE {"slug", job.alias} \in SUBSET Alias
    BY <1>3, <2>1 DEF Aliased
  <2>2. CASE Fails("alias", "abort", ctr) \/ Fails("alias_join", "abort", ctr)
    BY <1>1, <1>2, <2>2, CommandStep
  <2>3. CASE pc = "alias" /\ pc' = "alias_join" /\ ctr' = Leave("next")
             /\ job' = [job EXCEPT !.joining = {"slug", job.alias}]
             /\ UNCHANGED <<caddy, other, swapUpstream, disk, deploys, probed, troubles, stopping>>
    BY <1>1, <1>2, <2>1, <2>3 DEF Typed
  <2>4. ASSUME NEW c \in Machine, Moves(c), troubles' \in Counts,
               UNCHANGED <<caddy, other, disk, deploys, probed, stopping>>
        PROVE  Typed'
    BY <1>1, <1>2, <2>4 DEF Moves, Typed
  <2>5. "faults" \in AllTroubles
    BY DEF AllTroubles
  <2>6. QED
    BY <1>1, <1>2, <1>11, <2>2, <2>3, <2>4, <2>5 DEF AliasNext
<1>12. CASE Repoint
  <2>1. job.alias \in Alias
    BY <1>3, <1>12 DEF Aliased, Repoint, Applies, Refused
  <2>2. QED
    BY <1>2, <1>12, <2>1, ReloadTypes DEF Repoint, Typed
<1>13. CASE Reprobe
  BY <1>1, <1>2, <1>13, CommandStep DEF Reprobe
<1>14. CASE RemovePrevious
  BY <1>1, <1>2, <1>14, TriesStep DEF RemovePrevious
<1>15. CASE KeepOld
  <2>1. CASE Does("keepold", "abort", ctr) \/ Fails("keepold", "abort", ctr)
    BY <1>1, <1>2, <2>1, CommandStep
  <2>2. CASE ctr' = Rename("current", "previous") /\ job' = [job EXCEPT !.renamed = TRUE] /\ pc' = "stopold"
             /\ UNCHANGED <<caddy, other, swapUpstream, disk, deploys, probed, troubles, stopping>>
    BY <1>1, <1>2, <2>2 DEF Typed
  <2>3. QED
    BY <1>15, <2>1, <2>2 DEF KeepOld
<1>16. CASE StopOld
  <2>1. CASE Fails("stopold", "abort", ctr) \/ Fails("stopold", "abort", Stop("previous"))
    BY <1>1, <1>2, <2>1, CommandStep
  <2>2. CASE ctr' = Stop("previous") /\ job' = [job EXCEPT !.stopped = TRUE] /\ pc' = "promote"
             /\ UNCHANGED <<caddy, other, swapUpstream, disk, deploys, probed, troubles, stopping>>
    BY <1>1, <1>2, <2>2 DEF Typed
  <2>3. QED
    BY <1>16, <2>1, <2>2 DEF StopOld
<1>17. CASE RemoveOld
  <2>1. CASE Fails("rmold", "abort", ctr)
    BY <1>1, <1>2, <2>1, CommandStep
  <2>2. CASE ctr' = Remove("current") /\ job' = [job EXCEPT !.removedOld = TRUE] /\ pc' = "promote"
             /\ UNCHANGED <<caddy, other, swapUpstream, disk, deploys, probed, troubles, stopping>>
    BY <1>1, <1>2, <2>2 DEF Typed
  <2>3. QED
    BY <1>17, <2>1, <2>2 DEF RemoveOld
<1>18. CASE PromoteNext
  <2>1. CASE \E m \in Points, c \in {ctr, Join("next", job.joining)} :
                 \/ Does("promote", m, c) \/ Fails("promote", m, c)
                 \/ Does("promote_join", m, c) \/ Fails("promote_join", m, c)
    BY <1>1, <1>2, <2>1, CommandStep
  <2>2. CASE pc' = "promote_join" /\ ctr' = Leave("next")
             /\ job' = [job EXCEPT !.joining = {"slug"} \cup ctr["next"].alias]
             /\ UNCHANGED <<caddy, other, swapUpstream, disk, deploys, probed, troubles, stopping>>
    <3>1. {"slug"} \cup ctr["next"].alias \in SUBSET Alias
      BY <1>2, <1>4
    <3>2. QED
      BY <1>1, <1>2, <2>2, <3>1 DEF Typed
  <2>3. QED
    BY <1>2, <1>18, <2>1, <2>2 DEF PromoteNext
<1>19. CASE RenameNext
  <2>1. CASE Does("rename", PromoteFailed, ctr) \/ Fails("rename", PromoteFailed, ctr)
    BY <1>1, <1>2, <2>1, CommandStep
  <2>2. CASE /\ ctr' = Rename("next", "current")
             /\ job' = [job EXCEPT !.swapped = (job.ret = "swap")]
             /\ swapUpstream' \in {NoAlias, swapUpstream}
             /\ pc' \in {"proxy", "fail", "bootsave", "settle_check"}
             /\ UNCHANGED <<caddy, other, disk, deploys, probed, troubles, stopping>>
    BY <1>1, <1>2, <2>2 DEF Typed
  <2>3. QED
    BY <1>19, <2>1, <2>2 DEF RenameNext
<1>20. QED
  BY <1>5, <1>6, <1>7, <1>8, <1>9, <1>10, <1>11, <1>12, <1>13, <1>14, <1>15, <1>16, <1>17, <1>18, <1>19
     DEF Swap

LEMMA UndoTypes == ASSUME Typed, Undo PROVE Typed'
<1> USE CommandTypes, UpstreamTypes, JobTypes, SpendTypes
<1>1. ctr \in Machine /\ deploys \in Nat /\ troubles \in Counts /\ swapUpstream \in Upstream
  BY DEF Typed
<1>2. /\ {"ab_start", "ab_check", "ab_repoint", "ab_drop", "promote", "ab_stop", "fail",
          "ab_leave"} \subseteq Points
      /\ {"next", "current", "previous"} \subseteq Names
  BY DEF Points, Queued, Names
<1>3. CASE Abort
  BY <1>1, <1>2, <1>3, RenamesStep, CommandStep DEF Abort
<1>4. CASE AbortStart
  BY <1>1, <1>2, <1>4, TriesStep DEF AbortStart
<1>5. CASE AbortCheck
  BY <1>1, <1>2, <1>5 DEF AbortCheck, Typed
<1>6. CASE AbortRepoint
  BY <1>1, <1>2, <1>6, ReloadTypes DEF AbortRepoint, Typed
<1>7. CASE AbortRemove
  BY <1>1, <1>2, <1>7, TriesStep DEF AbortRemove
<1>8. QED
  BY <1>3, <1>4, <1>5, <1>6, <1>7 DEF Undo

LEMMA EndingTypes == ASSUME Typed, Ending PROVE Typed'
<1> USE NextPoints, CommandTypes, UpstreamTypes, DiskTypes
<1>1. ctr \in Machine /\ deploys \in Nat /\ probed \subseteq Nat
  BY DEF Typed
<1>2. /\ {"health", "finish", "success", "rb_rename", "rb_start", "bootsave", "fail",
          "save_project", "save_failed", "save_job", "idle"} \subseteq Points
      /\ {"current", "previous"} \subseteq Names
  BY DEF Points, Queued, Names
<1>3. CASE Proxy
  BY <1>1, <1>2, <1>3, ReloadTypes DEF Proxy, Typed
<1>4. CASE Healthy
  <2>1. ctr["current"].ver \in Nat
    BY <1>1, <1>2 DEF Machine, Container
  <2>2. QED
    BY <1>1, <1>2, <1>4, <2>1 DEF Healthy, Typed
<1>5. CASE Unhealthy
  BY <1>1, <1>2, <1>5, CommandStep DEF Unhealthy
<1>6. CASE Finish
  BY <1>1, <1>2, <1>6, TriesStep DEF Finish
<1>7. CASE Rollback
  BY <1>1, <1>2, <1>7, TriesStep, RenamesStep DEF Rollback
<1>8. CASE Succeed
  BY <1>1, <1>2, <1>8, ReloadTypes DEF Succeed, Typed
<1>9. CASE Fail
  BY <1>1, <1>2, <1>9, ReloadTypes DEF Fail, Typed
<1>10. CASE Save
  BY <1>1, <1>2, <1>10 DEF Save, Saves, Typed
<1>11. QED
  BY <1>3, <1>4, <1>5, <1>6, <1>7, <1>8, <1>9, <1>10 DEF Ending

LEMMA RecoverTypes == ASSUME Typed, Recover PROVE Typed'
<1> USE NextPoints, CommandTypes, UpstreamTypes, JobTypes, DiskTypes, SpendTypes
<1>1. /\ ctr \in Machine /\ deploys \in Nat /\ troubles \in Counts /\ job.joining \in SUBSET Alias
  BY DEF Typed, Jobs
<1>2. /\ {"recover_alias", "recover_join", "recover_next", "recover_stop", "recover_keep",
          "promote", "recover_rename", "bootsave", "boot_rename", "rollback", "boot_rm",
          "boot_rename2", "bootsync", "idle"} \subseteq Points
      /\ {"next", "current", "previous"} \subseteq Names
  BY DEF Points, Queued, Names
<1>3. CASE RecoverCurrent
  BY <1>1, <1>2, <1>3, TriesStep DEF RecoverCurrent
<1>4. CASE RecoverAlias
  <2>1. CASE \E m \in Points, c \in {ctr, Join("current", job.joining)} :
                 \/ Does("recover_alias", m, c) \/ Fails("recover_alias", m, c)
                 \/ Does("recover_join", m, c) \/ Fails("recover_join", m, c)
    BY <1>1, <1>2, <2>1, CommandStep
  <2>2. CASE pc' = "recover_join" /\ ctr' = Leave("current")
             /\ job' = [job EXCEPT !.joining = {"slug"} \cup ctr["current"].alias]
             /\ UNCHANGED <<caddy, other, swapUpstream, disk, deploys, probed, troubles, stopping>>
    <3>1. {"slug"} \cup ctr["current"].alias \in SUBSET Alias
      BY <1>1, <1>2 DEF Machine, Container
    <3>2. QED
      BY <1>1, <1>2, <2>2, <3>1 DEF Typed
  <2>3. QED
    BY <1>2, <1>4, <2>1, <2>2 DEF RecoverAlias
<1>5. CASE RecoverDown
  BY <1>1, <1>2, <1>5 DEF RecoverDown, Typed
<1>6. CASE RecoverNext
  BY <1>1, <1>2, <1>6, TriesStep, CommandStep DEF RecoverNext
<1>7. CASE RecoverPromote
  BY <1>1, <1>2, <1>7, TriesStep, CommandStep, RenamesStep DEF RecoverPromote
<1>8. CASE BootMain
  <2>1. CASE pc = "boot_main"
             /\ UNCHANGED <<ctr, caddy, other, swapUpstream, job, disk, deploys, probed, stopping>>
             /\ (SeesRunning("current") \/ SeesNotRunning("current"))
             /\ pc' \in {"bootsave", "boot_rename", "rollback"}
    BY <1>1, <1>2, <2>1 DEF Typed
  <2>2. QED
    BY <1>1, <1>2, <1>8, <2>1, TriesStep, RenamesStep DEF BootMain
<1>9. CASE BootSave
  BY <1>1, <1>2, <1>9 DEF BootSave, Saves, Typed
<1>10. CASE BootSync
  BY <1>1, <1>2, <1>10, ReloadTypes DEF BootSync, Typed
<1>11. QED
  BY <1>3, <1>4, <1>5, <1>6, <1>7, <1>8, <1>9, <1>10 DEF Recover

LEMMA PanelTypes == ASSUME Typed, Aliased, Panel PROVE Typed'
<1>1. CASE Notice
  <2>1. "plan" \in Points
    BY DEF Points
  <2>2. QED
    BY <1>1, <2>1, ReloadTypes, UpstreamTypes DEF Notice, Typed
<1>2. CASE BuildFails
  BY <1>2 DEF BuildFails, Typed, Points, Queued
<1>3. QED
  BY <1>1, <1>2, SettleTypes, DirectTypes, SwapTypes, UndoTypes, EndingTypes, RecoverTypes DEF Panel

LEMMA TypedStep == ASSUME Typed, Aliased, [Next]_vars PROVE Typed'
<1>0. deploys + 1 \in Nat
  BY DEF Typed
<1> USE CommandTypes, UpstreamTypes, JobTypes, DiskTypes, SpendTypes
<1>1. ctr \in Machine /\ deploys \in Nat /\ troubles \in Counts /\ other \in Upstream /\ caddy \in Proxies
      /\ disk \in Disks
  BY DEF Typed
<1>2. {"settle", "down", "bootsave", "recover"} \subseteq Points /\ {"next", "current"} \subseteq Names
      /\ AllTroubles = {"faults", "refusals", "crashes", "stops", "reboots"}
  BY DEF Points, Queued, Names, AllTroubles
<1>3. CASE StartDeploy
  <2>1. deploys' \in Nat
    BY <1>0, <1>3 DEF StartDeploy
  <2>2. job' \in Jobs /\ disk' \in Disks
    BY <1>3 DEF StartDeploy
  <2>3. QED
    BY <1>2, <1>3, <2>1, <2>2 DEF StartDeploy, Typed
<1>4. CASE Crash
  BY <1>1, <1>2, <1>4 DEF Crash, Typed
<1>5. CASE Boot
  <2>1. other' \in Upstream
    BY <1>5 DEF Boot, BootReloads
  <2>2. job' \in Jobs
    BY <1>5, BootJob DEF Boot
  <2>3. QED
    BY <1>1, <1>2, <1>5, <2>1, <2>2 DEF Boot, Typed
<1>6. CASE AskStop
  <2>1. \A n \in Names : ctr[n].ver \in Nat
    BY <1>1 DEF Machine, Container
  <2>2. stopping' \subseteq Nat
    BY <1>2, <1>6, <2>1 DEF AskStop
  <2>3. QED
    BY <1>1, <1>2, <1>6, <2>2 DEF AskStop, Typed
<1>7. CASE Stopped
  <2>1. ctr' \in Machine
    <3>1. ASSUME NEW n \in Names PROVE Stop(n)[n] \in Container /\ ctr[n] \in Container
      BY <1>1 DEF Machine
    <3>2. QED
      BY <1>7, <3>1 DEF Stopped, Machine
  <2>2. QED
    BY <1>1, <1>7, <2>1 DEF Stopped, Typed
<1>8. CASE PersonStart
  BY <1>1, <1>2, <1>8 DEF PersonStart, Typed
<1>9. CASE OtherCompute
  BY <1>1, <1>9 DEF OtherCompute, Typed
<1>10. CASE OtherLoad
  <2>1. other \in Alias
    BY <1>1, <1>10 DEF OtherLoad, Upstream
  <2>2. caddy' \in Proxies
    <3>1. [loaded |-> other, file |-> other] \in Proxies /\ [caddy EXCEPT !.file = other] \in Proxies
      BY <1>1, <2>1 DEF Proxies
    <3>2. QED
      BY <1>1, <1>10, <3>1 DEF OtherLoad
  <2>3. troubles' \in Counts
    BY <1>1, <1>2, <1>10 DEF OtherLoad
  <2>4. QED
    BY <1>10, <2>2, <2>3 DEF OtherLoad, Typed
<1>11. CASE CaddyRestart
  <2>1. caddy' \in Proxies
    BY <1>1, <1>11 DEF CaddyRestart, Proxies
  <2>2. QED
    BY <1>1, <1>2, <1>11, <2>1 DEF CaddyRestart, Typed
<1>12. CASE UNCHANGED vars
  BY <1>12 DEF vars, Typed
<1>13. QED
  BY <1>3, <1>4, <1>5, <1>6, <1>7, <1>8, <1>9, <1>10, <1>11, <1>12, PanelTypes DEF Next

-----------------------------------------------------------------------------
(* Where the panel is at each of its steps, and what they leave alone. *)

LEMMA SettleAt == ASSUME Settle PROVE pc \in SettleSteps
  BY DEF Settle, SettleClean, SettleStopped, SettlePromote, SettleCheck, SettleSync,
         SettleRelease, SettleBack, SettleRemove, Applies, Refused, Tries, Does, Fails, SettleSteps

LEMMA DirectAt == ASSUME Direct PROVE pc \in {"plan", "l_rmprev", "l_rename", "l_stop", "l_rm", "l_run"}
  BY DEF Direct, PlanDirect, DirectClear, DirectRun, RunsInto, Renames, Tries, Does, Fails

PromoteSteps == {"promote", "promote_join", "rename"}
LEMMA SwapAt ==
    ASSUME Swap
    PROVE  pc \in {"plan", "drop", "run", "wait", "drop_failed", "alias", "alias_join", "repoint",
                   "reprobe", "rmprev", "keepold", "stopold", "rmold"} \cup PromoteSteps
  BY DEF Swap, PlanSwap, DropLeftover, StartNext, NextReady, NextUnhealthy, DropFailed, AliasNext,
         Repoint, Reprobe, RemovePrevious, KeepOld, StopOld, RemoveOld, PromoteNext, RenameNext,
         RunsInto, Applies, Refused, Tries, Does, Fails, PromoteSteps

LEMMA UndoAt ==
    ASSUME Undo
    PROVE  pc \in {"abort", "ab_start", "ab_check", "ab_repoint", "ab_stop", "ab_leave", "ab_drop"}
  BY DEF Undo, Abort, AbortStart, AbortCheck, AbortRepoint, AbortRemove,
         Renames, Applies, Refused, Tries, Does, Fails

LEMMA EndingAt ==
    ASSUME Ending
    PROVE  pc \in {"proxy", "health", "finish", "success", "fail", "save_project", "save_job",
                   "save_failed", "rollback", "rb_rename", "rb_start"}
  BY DEF Ending, Proxy, Healthy, Unhealthy, Finish, Rollback, Succeed, Fail, Save, Saves,
         Renames, Applies, Refused, Tries, Does, Fails

LEMMA RecoverAt ==
    ASSUME Recover
    PROVE  pc \in {"recover", "recover_alias", "recover_join", "recover_next", "recover_stop",
                   "recover_keep", "recover_rename"} \cup BootSteps
  BY DEF Recover, RecoverCurrent, RecoverAlias, RecoverDown, RecoverNext, RecoverPromote, BootMain,
         BootSave, BootSync, Saves, Renames, Applies, Refused, Tries, Does, Fails, BootSteps

LEMMA NoticeAt == ASSUME Notice PROVE pc = "notice" /\ pc' = "plan" /\ UNCHANGED <<ctr, job, disk>>
  BY DEF Notice, Applies, Refused

\* No step of the panel changes who called, counts a deploy, or undoes a stop but
\* the last of a deploy that worked.
LEMMA PanelKeeps ==
    ASSUME Typed, Panel
    PROVE  /\ job'.caller = job.caller /\ deploys' = deploys /\ stopping' = stopping
           /\ \/ disk' = disk
              \/ pc = "save_project" /\ pc' = "save_job" /\ ~disk'.stopped
              \/ pc \in {"save_job", "save_failed", "bootsave"} /\ disk'.stopped = disk.stopped
                   /\ disk'.published = disk.published
<1>1. CASE Settle
  BY <1>1 DEF Typed, Jobs, Settle, SettleClean, SettleStopped, SettlePromote, SettleCheck, SettleSync,
         SettleRelease, SettleBack, SettleRemove, Applies, Refused, Tries, Does, Fails
<1>2. CASE Direct
  BY <1>2 DEF Direct, PlanDirect, DirectClear, DirectRun, RunsInto, Renames, Tries, Does, Fails
<1>3. CASE Swap
  BY <1>3 DEF Typed, Jobs, Swap, PlanSwap, DropLeftover, StartNext, NextReady, NextUnhealthy,
         DropFailed, AliasNext, Moves, Repoint, Reprobe, RemovePrevious, KeepOld, StopOld,
         RemoveOld, PromoteNext, RenameNext, RunsInto, Applies, Refused, Tries, Does, Fails
<1>4. CASE Undo
  BY <1>4 DEF Typed, Jobs, Undo, Abort, AbortStart, AbortCheck, AbortRepoint, AbortRemove,
         Renames, Applies, Refused, Tries, Does, Fails
<1>5. CASE Ending
  BY <1>5 DEF Typed, Disks, Ending, Proxy, Healthy, Unhealthy, Finish, Rollback, Succeed, Fail,
         Save, Saves, Renames, Applies, Refused, Tries, Does, Fails
<1>6. CASE Recover
  BY <1>6 DEF Typed, Jobs, Disks, Recover, RecoverCurrent, RecoverAlias, RecoverDown, RecoverNext,
         RecoverPromote, BootMain, BootSave, BootSync, Saves, Renames, Applies, Refused, Tries,
         Does, Fails
<1>7. CASE Notice \/ BuildFails
  BY <1>7 DEF Notice, BuildFails, Applies, Refused
<1>8. QED
  BY <1>1, <1>2, <1>3, <1>4, <1>5, <1>6, <1>7 DEF Panel

\* The panel does nothing when it is down or idle, does not go down by itself, and
\* ends an interrupted deploy with what the boot writes.
LEMMA PanelGoes ==
    ASSUME Panel
    PROVE  /\ pc \notin {"idle", "down"} /\ pc' # "down"
           /\ pc \in {"bootsave", "bootsync"} => pc' \in {"bootsync", "idle"}
<1>1. CASE Settle
  BY <1>1, SettleAt DEF SettleSteps, Settle, SettleClean, SettleStopped, SettlePromote, SettleCheck,
     SettleSync, SettleRelease, SettleBack, SettleRemove, Applies, Refused, Tries, Does, Fails, AfterSettle
<1>2. CASE Direct
  BY <1>2, DirectAt DEF Direct, PlanDirect, DirectClear, DirectRun, RunsInto, Renames, Tries, Does, Fails
<1>3. CASE Swap
  BY <1>3, SwapAt DEF PromoteSteps, Swap, PlanSwap, DropLeftover, StartNext, NextReady, NextUnhealthy,
     DropFailed, AliasNext, Moves, Repoint, Reprobe, RemovePrevious, KeepOld, StopOld, RemoveOld,
     PromoteNext, RenameNext, RunsInto, Applies, Refused, Tries, Does, Fails, PromoteFailed, AfterSettle
<1>4. CASE Undo
  BY <1>4, UndoAt DEF Undo, Abort, AbortStart, AbortCheck, AbortRepoint, AbortRemove,
     Renames, Applies, Refused, Tries, Does, Fails
<1>5. CASE Ending
  BY <1>5, EndingAt DEF Ending, Proxy, Healthy, Unhealthy, Finish, Rollback, Succeed, Fail, Save, Saves,
     Renames, Applies, Refused, Tries, Does, Fails, AfterProxyFailure
<1>6. CASE Recover
  BY <1>6, RecoverAt DEF BootSteps, Recover, RecoverCurrent, RecoverAlias, RecoverDown, RecoverNext,
     RecoverPromote, BootMain, BootSave, BootSync, Saves, Renames, Applies, Refused, Tries, Does,
     Fails, AfterRecover, RecoverFailed, AfterSettle
<1>7. CASE Notice \/ BuildFails
  BY <1>7, NoticeAt DEF BuildFails
<1>8. QED
  BY <1>1, <1>2, <1>3, <1>4, <1>5, <1>6, <1>7 DEF Panel

\* What a step of the panel does to the containers: a command that starts none, a
\* `docker run` of a deploy, or the old version begun again.
Quiet(c) ==
    \/ c = ctr
    \/ \E n \in Names : c \in {Remove(n), Stop(n), Leave(n)}
    \/ \E n \in Names : c = Join(n, job.joining)
    \/ \E m, n \in Names : c = Rename(m, n)
Creates == \E n \in Names, up \in BOOLEAN :
               \/ pc = "l_run" /\ ctr' = Create(n, {"slug"}, up)
               \/ pc = "run" /\ ctr' = Create(n, {job.alias}, up)
Begins  == pc \in {"ab_start", "rb_start"} /\ ctr' = Begin("current")

LEMMA PanelWorks == ASSUME Panel PROVE Quiet(ctr') \/ Creates \/ Begins
<1>1. {"current", "next", "previous"} \subseteq Names
  BY DEF Names
<1>2. CASE Settle
  BY <1>1, <1>2 DEF Quiet, Settle, SettleClean, SettleStopped, SettlePromote, SettleCheck, SettleSync,
         SettleRelease, SettleBack, SettleRemove, Applies, Refused, Tries, Does, Fails
<1>3. CASE Direct
  <2>1. CASE PlanDirect \/ DirectClear
    BY <1>1, <2>1 DEF Quiet, PlanDirect, DirectClear, Renames, Tries, Does, Fails
  <2>2. CASE DirectRun
    BY <1>1, <2>2 DEF Quiet, Creates, DirectRun, RunsInto, Does, Fails
  <2>3. QED
    BY <1>3, <2>1, <2>2 DEF Direct
<1>4. CASE Swap
  <2>1. CASE StartNext
    BY <1>1, <2>1 DEF Quiet, Creates, StartNext, RunsInto, Does, Fails
  <2>2. CASE AliasNext \/ PromoteNext
    BY <1>1, <2>2 DEF Quiet, AliasNext, Moves, PromoteNext, Does, Fails
  <2>3. CASE PlanSwap \/ DropLeftover \/ NextReady \/ NextUnhealthy \/ DropFailed \/ Repoint
             \/ Reprobe \/ RemovePrevious \/ KeepOld \/ StopOld \/ RemoveOld \/ RenameNext
    BY <1>1, <2>3 DEF Quiet, PlanSwap, DropLeftover, NextReady, NextUnhealthy, DropFailed, Repoint,
         Reprobe, RemovePrevious, KeepOld, StopOld, RemoveOld, RenameNext, Applies, Refused,
         Tries, Does, Fails
  <2>4. QED
    BY <1>4, <2>1, <2>2, <2>3 DEF Swap
<1>5. CASE Undo
  BY <1>1, <1>5 DEF Quiet, Begins, Undo, Abort, AbortStart, AbortCheck, AbortRepoint, AbortRemove,
         Renames, Applies, Refused, Tries, Does, Fails
<1>6. CASE Ending
  BY <1>1, <1>6 DEF Quiet, Begins, Ending, Proxy, Healthy, Unhealthy, Finish, Rollback, Succeed, Fail,
         Save, Saves, Renames, Applies, Refused, Tries, Does, Fails
<1>7. CASE Recover
  BY <1>1, <1>7 DEF Quiet, Recover, RecoverCurrent, RecoverAlias, RecoverDown, RecoverNext,
         RecoverPromote, BootMain, BootSave, BootSync, Saves, Renames, Applies, Refused, Tries,
         Does, Fails
<1>8. CASE Notice \/ BuildFails
  BY <1>8 DEF Quiet, Notice, BuildFails, Applies, Refused
<1>9. QED
  BY <1>2, <1>3, <1>4, <1>5, <1>6, <1>7, <1>8 DEF Panel

-----------------------------------------------------------------------------
(* The invariant is inductive. *)

\* No command makes a container that does not exist run, and none but `docker run`
\* and `docker start` brings up a project that is down.
LEMMA QuietSound ==
    ASSUME ctr \in Machine, Real, NEW c, Quiet(c)
    PROVE  Sound(c) /\ (~Alive => \A n \in Names : ~c[n].run)
<1>1. Absent.ver = 0 /\ Absent.run = FALSE
  BY DEF Absent
<1>2. CASE c = ctr
  BY <1>2 DEF Real, Sound, Alive, Running
<1>3. CASE \E n \in Names : c = Remove(n)
  BY <1>1, <1>3 DEF Real, Sound, Alive, Running, Remove, Machine
<1>4. CASE \E n \in Names : c = Stop(n)
  BY <1>4 DEF Real, Sound, Alive, Running, Stop, Machine, Container
<1>5. CASE \E n \in Names : c = Leave(n)
  BY <1>5 DEF Real, Sound, Alive, Running, Leave, Machine, Container
<1>6. CASE \E n \in Names : c = Join(n, job.joining)
  BY <1>6 DEF Real, Sound, Alive, Running, Join, Exists, Machine, Container
<1>7. CASE \E m, n \in Names : c = Rename(m, n)
  BY <1>1, <1>7 DEF Real, Sound, Alive, Running, Rename, Machine
<1>8. QED
  BY <1>2, <1>3, <1>4, <1>5, <1>6, <1>7 DEF Quiet

LEMMA BeginSound == ASSUME ctr \in Machine, Real, NEW n \in Names PROVE Sound(Begin(n))
  BY DEF Real, Sound, Begin, Exists, Machine, Container

\* What a person's stop does to the containers.
LEMMA StoppedKeeps ==
    ASSUME ctr \in Machine, Stopped
    PROVE  \A n \in Names : ctr'[n].ver = ctr[n].ver /\ (ctr'[n].run => ctr[n].run)
<1>1. ASSUME NEW n \in Names PROVE Stop(n)[n].ver = ctr[n].ver /\ ~Stop(n)[n].run
  BY DEF Stop, Machine, Container
<1>2. QED
  BY <1>1 DEF Stopped

LEMMA RealStep == ASSUME Typed, Real, Unborn, [Next]_vars PROVE Real'
<1>1. ctr \in Machine /\ Real' = Sound(ctr')
  BY DEF Typed, Real, Sound
<1>2. CASE Panel
  <2>1. CASE Quiet(ctr')
    BY <1>1, <2>1, QuietSound
  <2>2. CASE Creates
    <3>1. deploys # 0
      BY <2>2 DEF Creates, Unborn
    <3>2. QED
      BY <1>1, <2>2, <3>1 DEF Creates, Create, Real, Sound, Machine
  <2>3. CASE Begins
    <3>1. "current" \in Names
      BY DEF Names
    <3>2. QED
      BY <1>1, <2>3, <3>1, BeginSound DEF Begins
  <2>4. QED
    BY <1>2, <2>1, <2>2, <2>3, PanelWorks
<1>3. CASE Stopped
  BY <1>1, <1>3, StoppedKeeps DEF Real, Sound
<1>4. CASE PersonStart
  <2>1. "current" \in Names
    BY DEF Names
  <2>2. QED
    BY <1>1, <1>4, <2>1, BeginSound DEF PersonStart
<1>5. CASE UNCHANGED ctr
  BY <1>5 DEF Real, Sound
<1>6. QED
  BY <1>2, <1>3, <1>4, <1>5
     DEF Next, StartDeploy, Crash, Boot, AskStop, OtherCompute, OtherLoad, CaddyRestart, vars

LEMMA UnbornStep == ASSUME Typed, Real, Unborn, [Next]_vars PROVE Unborn'
<1> SUFFICES ASSUME deploys' = 0
             PROVE  /\ disk'.status # "running"
                    /\ \A n \in Names : ctr'[n].ver = 0
                    /\ pc' \in {"idle", "down"} \/ (pc' = "settle" /\ job'.caller = "bootsettle")
  BY DEF Unborn
<1>1. ~StartDeploy
  BY DEF StartDeploy, Typed
<1>2. deploys = 0
  BY <1>1, PanelKeeps
     DEF Next, Crash, Boot, AskStop, Stopped, PersonStart, OtherCompute, OtherLoad, CaddyRestart, vars
<1>3. /\ disk.status # "running"
      /\ \A n \in Names : ctr[n].ver = 0 /\ ~Running(n) /\ ~Exists(n)
      /\ pc \in {"idle", "down"} \/ (pc = "settle" /\ job.caller = "bootsettle")
  BY <1>2 DEF Unborn, Real, Sound, Running, Exists
<1>4. "next" \in Names /\ "current" \in Names
  BY DEF Names
<1>5. CASE Panel
  <2>1. Settle
    BY <1>3, <1>5, DirectAt, SwapAt, UndoAt, EndingAt, RecoverAt, NoticeAt
       DEF Panel, BuildFails, PromoteSteps, BootSteps
  <2>2. SettleClean
    BY <1>3, <1>4, <2>1 DEF Settle, SettleStopped, SettlePromote, SettleCheck, SettleSync, SettleRelease,
       SettleBack, SettleRemove, Applies, Refused, Tries, Does, Fails
  <2>3. QED
    BY <1>3, <2>2 DEF SettleClean, AfterSettle
<1>6. CASE Crash
  BY <1>3, <1>6 DEF Crash
<1>7. CASE Boot
  BY <1>3, <1>7 DEF Boot, IdleJob
<1>8. CASE Stopped
  <2>1. disk'.status = disk.status
    BY <1>8 DEF Stopped, Typed, Disks
  <2>2. ctr \in Machine
    BY DEF Typed
  <2>3. QED
    BY <1>3, <1>8, <2>1, <2>2, StoppedKeeps DEF Stopped
<1>9. CASE AskStop \/ PersonStart \/ OtherCompute \/ OtherLoad \/ CaddyRestart \/ UNCHANGED vars
  BY <1>3, <1>4, <1>9 DEF AskStop, PersonStart, OtherCompute, OtherLoad, CaddyRestart, vars
<1>10. QED
  BY <1>1, <1>5, <1>6, <1>7, <1>8, <1>9 DEF Next

\* Nothing but a boot, a crash and a deploy that begins changes who called.
LEMMA CallersStep == ASSUME Typed, Callers, [Next]_vars PROVE Callers'
<1> USE DEF Callers, DeploySteps, SettleSteps, BootSteps
<1>1. job \in Jobs
  BY DEF Typed
<1>2. CASE Settle
  BY <1>1, <1>2 DEF Settle, SettleClean, SettleStopped, SettlePromote, SettleCheck, SettleSync,
     SettleRelease, SettleBack, SettleRemove, Applies, Refused, Tries, Does, Fails, AfterSettle, Jobs
<1>3. CASE Direct
  <2>1. job' = job /\ job.caller = "deploy"
    BY <1>3, DirectAt DEF Direct, PlanDirect, DirectClear, DirectRun, RunsInto, Renames, Tries, Does, Fails
  <2>2. pc' \in {"l_rmprev", "l_rename", "l_stop", "l_rm", "l_run", "proxy", "rollback", "fail"}
    BY <1>3 DEF Direct, PlanDirect, DirectClear, DirectRun, RunsInto, Renames, Tries, Does, Fails
  <2>3. QED
    BY <2>1, <2>2
<1>4. CASE Swap
  <2>1. CASE PlanSwap \/ DropLeftover \/ StartNext \/ NextReady \/ NextUnhealthy \/ DropFailed \/ AliasNext
             \/ Repoint \/ Reprobe \/ RemovePrevious
    BY <1>1, <2>1 DEF Jobs, PlanSwap, DropLeftover, StartNext, NextReady, NextUnhealthy, DropFailed, AliasNext,
       Moves, Repoint, Reprobe, RemovePrevious, RunsInto, Applies, Refused, Tries, Does, Fails
  <2>2. CASE KeepOld \/ StopOld \/ RemoveOld
    BY <1>1, <2>2 DEF Jobs, KeepOld, StopOld, RemoveOld, Does, Fails
  <2>3. CASE PromoteNext
    BY <1>1, <2>3 DEF Jobs, PromoteNext, PromoteFailed, AfterSettle, Does, Fails
  <2>4. CASE RenameNext
    BY <1>1, <2>4 DEF Jobs, RenameNext, PromoteFailed, AfterSettle, Does, Fails
  <2>5. QED
    BY <1>4, <2>1, <2>2, <2>3, <2>4 DEF Swap
<1>5. CASE Undo
  BY <1>1, <1>5 DEF Jobs, Undo, Abort, AbortStart, AbortCheck, AbortRepoint, AbortRemove,
     Renames, Applies, Refused, Tries, Does, Fails
<1>6. CASE Ending
  <2>1. job' = job
    BY <1>6 DEF Ending, Proxy, Healthy, Unhealthy, Finish, Rollback, Succeed, Fail, Save, Saves,
       Renames, Applies, Refused, Tries, Does, Fails
  <2>2. CASE Rollback
    BY <1>1, <2>1, <2>2 DEF Jobs, Rollback, Renames, Tries, Does, Fails
  <2>3. CASE Proxy \/ Healthy \/ Unhealthy \/ Finish \/ Succeed \/ Fail \/ Save
    <3>1. job.caller = "deploy"
      BY <2>3 DEF Proxy, Healthy, Unhealthy, Finish, Succeed, Fail, Save, Saves, Applies, Refused,
         Tries, Does, Fails
    <3>2. pc' \in {"health", "finish", "success", "rollback", "fail", "save_project", "save_failed",
                   "save_job", "idle"}
      BY <2>3 DEF Proxy, Healthy, Unhealthy, Finish, Succeed, Fail, Save, Saves, Applies, Refused,
         Tries, Does, Fails, AfterProxyFailure
    <3>3. QED
      BY <2>1, <3>1, <3>2
  <2>4. QED
    BY <1>6, <2>2, <2>3 DEF Ending
<1>7. CASE Recover
  BY <1>1, <1>7 DEF Jobs, Recover, RecoverCurrent, RecoverAlias, RecoverDown, RecoverNext,
     RecoverPromote, BootMain, BootSave, BootSync, Saves, Renames, Applies, Refused, Tries,
     Does, Fails, AfterRecover, RecoverFailed, AfterSettle
<1>8. CASE Notice \/ BuildFails
  BY <1>8, NoticeAt DEF BuildFails
<1>9. CASE StartDeploy \/ Crash \/ Boot
  <2>1. CASE StartDeploy \/ Crash
    BY <2>1, IdleJobIs DEF StartDeploy, Crash
  <2>2. CASE Boot
    BY <2>2, IdleJobIs DEF Boot
  <2>3. QED
    BY <1>9, <2>1, <2>2
<1>10. CASE UNCHANGED <<pc, job>>
  BY <1>10
<1>11. QED
  BY <1>2, <1>3, <1>4, <1>5, <1>6, <1>7, <1>8, <1>9, <1>10
     DEF Next, Panel, AskStop, Stopped, PersonStart, OtherCompute, OtherLoad, CaddyRestart, vars

LEMMA BootWorksStep == ASSUME Typed, Callers, BootWorks, [Next]_vars PROVE BootWorks'
<1> USE DEF BootWorks
<1>1. CASE Panel
  <2>1. /\ job'.caller = job.caller /\ stopping' = stopping
        /\ disk'.stopped = disk.stopped \/ (pc = "save_project" /\ ~disk'.stopped)
    BY <1>1, PanelKeeps
  <2>2. /\ pc # "idle" /\ pc' # "down"
        /\ pc \in {"bootsave", "bootsync"} => pc' \in {"bootsync", "idle"}
    BY <1>1, PanelGoes
  <2>3. QED
    BY <2>1, <2>2 DEF Callers, DeploySteps
<1>2. CASE StartDeploy \/ Crash
  BY <1>2, IdleJobIs DEF StartDeploy, Crash
<1>3. CASE Boot
  <2>1. CASE disk.status = "running" /\ ~disk.stopped
    BY <1>3, <2>1 DEF Boot
  <2>2. CASE disk.status = "running" /\ disk.stopped
    BY <1>3, <2>2 DEF Boot
  <2>3. CASE disk.status # "running"
    <3>1. job'.caller = "bootsettle" /\ pc' = "settle"
      BY <1>3, <2>3, IdleJobIs DEF Boot
    <3>2. QED
      BY <3>1
  <2>4. QED
    BY <2>1, <2>2, <2>3
<1>4. CASE AskStop \/ PersonStart
  BY <1>4 DEF AskStop, PersonStart
<1>5. CASE Stopped
  BY <1>5 DEF Stopped
<1>6. CASE UNCHANGED <<pc, job, disk, stopping>>
  BY <1>6
<1>7. QED
  BY <1>1, <1>2, <1>3, <1>4, <1>5, <1>6 DEF Next, OtherCompute, OtherLoad, CaddyRestart, vars

LEMMA AliasedStep == ASSUME Typed, Aliased, [Next]_vars PROVE Aliased'
<1> USE DEF Aliased
<1>1. CASE Settle
  <2>1. pc' \in SettleSteps \cup {"recover", "notice", "save_failed", "idle"}
    BY <1>1 DEF Settle, SettleClean, SettleStopped, SettlePromote, SettleCheck, SettleSync,
       SettleRelease, SettleBack, SettleRemove, Applies, Refused, Tries, Does, Fails, AfterSettle,
       SettleSteps
  <2>2. QED
    BY <2>1 DEF SettleSteps
<1>2. CASE Direct
  BY <1>2 DEF Direct, PlanDirect, DirectClear, DirectRun, RunsInto, Renames, Tries, Does, Fails
<1>3. CASE Swap
  <2>1. CASE PlanSwap
    <3>1. \A t : PickNextAlias(t) # NoAlias
      BY DEF PickNextAlias, NoAlias
    <3>2. \E t : job'.alias = PickNextAlias(t)
      BY <2>1 DEF PlanSwap, Typed, Jobs
    <3>3. QED
      BY <3>1, <3>2
  <2>2. CASE DropLeftover \/ StartNext \/ NextReady \/ NextUnhealthy \/ DropFailed \/ AliasNext
             \/ Repoint \/ Reprobe \/ RemovePrevious \/ KeepOld \/ StopOld \/ RemoveOld
    BY <2>2 DEF Typed, Jobs, DropLeftover, StartNext, NextReady, NextUnhealthy, DropFailed, AliasNext,
       Moves, Repoint, Reprobe, RemovePrevious, KeepOld, StopOld, RemoveOld, RunsInto, Applies, Refused,
       Tries, Does, Fails
  <2>3. CASE PromoteNext \/ RenameNext
    BY <2>3 DEF PromoteNext, RenameNext, PromoteFailed, AfterSettle, Does, Fails
  <2>4. QED
    BY <1>3, <2>1, <2>2, <2>3 DEF Swap
<1>4. CASE Undo
  BY <1>4 DEF Undo, Abort, AbortStart, AbortCheck, AbortRepoint, AbortRemove,
     Renames, Applies, Refused, Tries, Does, Fails
<1>5. CASE Ending
  BY <1>5 DEF Ending, Proxy, Healthy, Unhealthy, Finish, Rollback, Succeed, Fail, Save, Saves,
     Renames, Applies, Refused, Tries, Does, Fails, AfterProxyFailure
<1>6. CASE Recover
  BY <1>6 DEF Recover, RecoverCurrent, RecoverAlias, RecoverDown, RecoverNext,
     RecoverPromote, BootMain, BootSave, BootSync, Saves, Renames, Applies, Refused, Tries,
     Does, Fails, AfterRecover, RecoverFailed, AfterSettle
<1>7. CASE Notice \/ BuildFails
  BY <1>7, NoticeAt DEF BuildFails
<1>8. CASE StartDeploy \/ Crash \/ Boot
  BY <1>8 DEF StartDeploy, Crash, Boot
<1>9. CASE UNCHANGED <<pc, job>>
  BY <1>9
<1>10. QED
  BY <1>1, <1>2, <1>3, <1>4, <1>5, <1>6, <1>7, <1>8, <1>9
     DEF Next, Panel, AskStop, Stopped, PersonStart, OtherCompute, OtherLoad, CaddyRestart, vars

LEMMA SidesStep == ASSUME Typed, Real, Callers, Sides, [Next]_vars PROVE Sides'
<1> DEFINE Two == OldRuns \cup NewRuns
<1> SUFFICES ASSUME ~disk'.stopped, pc' \in Two
             PROVE  /\ pc' \in OldRuns => ctr'["current"].run
                    /\ pc' \in NewRuns => ctr'["next"].run
  BY DEF Sides, Running
<1> USE DEF OldRuns, NewRuns
<1>1. /\ {"current", "next", "previous"} \subseteq Names /\ ctr \in Machine
      /\ "current" # "next" /\ "next" # "previous" /\ "previous" # "current"
  BY DEF Names, Typed
<1>2. ASSUME ~disk.stopped PROVE (pc \in OldRuns => ctr["current"].run) /\ (pc \in NewRuns => ctr["next"].run)
  BY <1>2 DEF Sides, Running
<1>3. CASE Panel
  <2>0. /\ Remove("next")["current"].run = ctr["current"].run
        /\ Stop("next")["current"].run = ctr["current"].run
        /\ Leave("next")["current"].run = ctr["current"].run
        /\ Leave("next")["next"].run = ctr["next"].run
        /\ \A a : /\ Join("next", a)["current"].run = ctr["current"].run
                  /\ Join("next", a)["next"].run = ctr["next"].run
        /\ \A a, up : Create("next", a, up)["current"].run = ctr["current"].run
        /\ \A a : Create("next", a, TRUE)["next"].run = TRUE
        /\ Remove("previous")["current"].run = ctr["current"].run
        /\ Remove("previous")["next"].run = ctr["next"].run
        /\ Rename("current", "previous")["next"].run = ctr["next"].run
    BY <1>1 DEF Remove, Stop, Leave, Join, Create, Rename, Machine
  <2>1. ~disk.stopped \/ pc' = "save_job"
    BY <1>3, PanelKeeps
  <2>2. ~disk.stopped
    BY <2>1
  <2>3. (pc \in OldRuns => ctr["current"].run) /\ (pc \in NewRuns => ctr["next"].run)
    BY <1>2, <2>2
  <2>4. CASE Swap
    <3>1. CASE PlanSwap
      BY <3>1 DEF PlanSwap, Running
    <3>2. CASE DropLeftover
      BY <2>3, <3>2, <2>0 DEF DropLeftover, Tries, Does, Fails
    <3>3. CASE StartNext
      BY <2>3, <3>3, <2>0 DEF StartNext, RunsInto, Does, Fails
    <3>4. CASE NextReady \/ NextUnhealthy
      BY <2>3, <3>4 DEF NextReady, NextUnhealthy
    <3>5. CASE DropFailed
      BY <3>5 DEF DropFailed, Tries, Does, Fails
    <3>6. CASE AliasNext
      BY <2>3, <3>6, <2>0 DEF AliasNext, Moves, Does, Fails
    <3>7. CASE Repoint \/ Reprobe
      BY <2>3, <3>7 DEF Repoint, Reprobe, Applies, Refused, Does
    <3>8. CASE RemovePrevious
      BY <2>3, <3>8, <2>0 DEF RemovePrevious, Tries, Does, Fails
    <3>9. CASE KeepOld
      BY <2>3, <3>9, <2>0 DEF KeepOld, Does, Fails
    <3>10. CASE StopOld \/ RemoveOld
      BY <3>10 DEF StopOld, RemoveOld, Fails
    <3>11. CASE PromoteNext
      BY <3>11 DEF PromoteNext, PromoteFailed, AfterSettle, Does, Fails
    <3>12. CASE RenameNext
      BY <3>12 DEF RenameNext, PromoteFailed, AfterSettle, Does, Fails
    <3>13. QED
      BY <2>4, <3>1, <3>2, <3>3, <3>4, <3>5, <3>6, <3>7, <3>8, <3>9, <3>10, <3>11, <3>12 DEF Swap
  <2>5. CASE Undo
    <3>1. CASE Abort \/ AbortStart
      BY <3>1 DEF Abort, AbortStart, Renames, Tries, Does, Fails
    <3>2. CASE AbortCheck
      BY <3>2 DEF AbortCheck, SeesRunning, Running
    <3>3. CASE AbortRepoint
      BY <2>3, <3>3 DEF AbortRepoint, Applies, Refused
    <3>4. CASE AbortRemove
      BY <2>3, <3>4, <2>0 DEF AbortRemove, Tries, Does, Fails
    <3>5. QED
      BY <2>5, <3>1, <3>2, <3>3, <3>4 DEF Undo
  <2>6. CASE Settle
    BY <2>6 DEF Settle, SettleClean, SettleStopped, SettlePromote, SettleCheck, SettleSync,
       SettleRelease, SettleBack, SettleRemove, Applies, Refused, Tries, Does, Fails, AfterSettle
  <2>7. CASE Direct
    BY <2>7 DEF Direct, PlanDirect, DirectClear, DirectRun, RunsInto, Renames, Tries, Does, Fails
  <2>8. CASE Ending
    BY <2>8 DEF Ending, Proxy, Healthy, Unhealthy, Finish, Rollback, Succeed, Fail, Save, Saves,
       Renames, Applies, Refused, Tries, Does, Fails, AfterProxyFailure
  <2>9. CASE Recover
    BY <2>9 DEF Recover, RecoverCurrent, RecoverAlias, RecoverDown, RecoverNext,
       RecoverPromote, BootMain, BootSave, BootSync, Saves, Renames, Applies, Refused, Tries,
       Does, Fails, AfterRecover, RecoverFailed, AfterSettle
  <2>10. CASE Notice \/ BuildFails
    BY <2>10, NoticeAt DEF BuildFails
  <2>11. QED
    BY <1>3, <2>4, <2>5, <2>6, <2>7, <2>8, <2>9, <2>10 DEF Panel
<1>4. CASE StartDeploy \/ Crash \/ Boot
  BY <1>4 DEF StartDeploy, Crash, Boot
<1>5. CASE AskStop \/ PersonStart
  BY <1>5 DEF AskStop, PersonStart
<1>6. CASE Stopped
  <2>1. disk'.stopped
    BY <1>6 DEF Stopped, Typed, Disks
  <2>2. QED
    BY <2>1
<1>7. CASE UNCHANGED <<ctr, pc, disk>>
  BY <1>2, <1>7
<1>8. QED
  BY <1>3, <1>4, <1>5, <1>6, <1>7 DEF Next, OtherCompute, OtherLoad, CaddyRestart, vars

LEMMA InvInit == ASSUME Init PROVE IInv
<1>1. /\ Absent.ver = 0 /\ Absent.run = FALSE /\ Absent \in Container
      /\ ctr = [n \in Names |-> Absent]
  BY DEF Init, Absent, Container
<1>2. Typed
  <2>1. ctr \in Machine
    BY <1>1 DEF Machine
  <2>2. job \in Jobs
    BY DEF Init, IdleJob, Jobs, Upstream
  <2>3. /\ disk \in Disks
        /\ troubles \in Counts
        /\ caddy \in Proxies
    <3>1. disk \in Disks
      <4>1. disk \in [kind : Kinds, status : {"none"}, stopped : {FALSE}, published : {0}]
        BY DEF Init
      <4>2. disk.kind \in Kinds /\ disk.status \in {"none"} /\ disk.published \in {0}
        BY <4>1
      <4>3. disk.stopped \in {FALSE}
        BY <4>1
      <4>4. disk = [kind |-> disk.kind, status |-> disk.status, stopped |-> disk.stopped,
                    published |-> disk.published]
        BY <4>1
      <4>5. disk.stopped \in BOOLEAN
        BY <4>3
      <4>6. disk.published \in Nat /\ disk.status \in {"none", "running", "failed", "success"}
        BY <4>2
      <4>7. QED
        BY <4>2, <4>4, <4>5, <4>6 DEF Disks
    <3>2. troubles \in Counts
      BY DEF Init, Counts
    <3>3. caddy \in Proxies
      BY DEF Init, Proxies, Alias
    <3>4. QED
      BY <3>1, <3>2, <3>3
  <2>4. QED
    BY <2>1, <2>2, <2>3 DEF Init, Typed, Upstream, Points
<1>3. Real /\ Unborn
  BY <1>1 DEF Init, Real, Sound, Unborn
<1>4. Callers /\ BootWorks /\ Aliased /\ Sides
  BY DEF Init, Callers, BootWorks, Aliased, Sides, DeploySteps, SettleSteps, BootSteps, OldRuns, NewRuns
<1>5. QED
  BY <1>2, <1>3, <1>4, Types DEF IInv

LEMMA TypesNext == TypeOK' <=> Typed'
  BY DEF TypeOK, Typed, Machine, Proxies, Upstream, Jobs, Points, Disks, Counts

LEMMA InvStep == ASSUME IInv, [Next]_vars PROVE IInv'
<1>1. Typed /\ Aliased /\ Real /\ Unborn /\ Callers /\ BootWorks /\ Sides
  BY Types DEF IInv
<1>2. Typed' /\ Aliased' /\ Real' /\ Unborn' /\ Callers' /\ BootWorks' /\ Sides'
  BY <1>1, TypedStep, AliasedStep, RealStep, UnbornStep, CallersStep, BootWorksStep, SidesStep
<1>3. QED
  BY <1>2, TypesNext DEF IInv

LEMMA Invariant == Spec => []IInv
<1>1. Init => IInv
  BY InvInit
<1>2. IInv /\ [Next]_vars => IInv'
  BY InvStep
<1>3. QED
  BY <1>1, <1>2, PTL DEF Spec

-----------------------------------------------------------------------------
(* The theorems. *)

\* Every state has the types the modules give it, whatever goes wrong and however
\* often the project is deployed: in particular a swap never points the proxy at
\* the alias of no container, and a container's version is a deploy's number.
THEOREM TypeCorrect == Spec => []TypeOK
<1>1. IInv => TypeOK
  BY DEF IInv
<1>2. QED
  BY <1>1, Invariant, PTL

\* One step of a swap or of its undoing.
LEMMA AliveStep ==
    ASSUME IInv, [Next]_vars, pc \in SwapSteps, Online, Alive
    PROVE  Alive'
<1>1. /\ Names = {"current", "next", "previous"} /\ ctr \in Machine
      /\ \A n \in Names : ctr[n].ver = 0 => ~ctr[n].run
      /\ pc \in OldRuns => ctr["current"].run
      /\ pc \in NewRuns => ctr["next"].run
      /\ \E n \in Names : ctr[n].run
  BY Types DEF IInv, Typed, Real, Sound, Sides, Online, Running, Names, Alive
<1>2. SUFFICES \E n \in Names : ctr'[n].run
  BY DEF Alive, Running
<1>3. CASE ctr' = ctr
  BY <1>1, <1>3
<1>4. CASE ctr' = Leave("next") \/ \E a : ctr' = Join("next", a)
  <2>1. \A n \in Names : Leave("next")[n].run = ctr[n].run /\ \A a : Join("next", a)[n].run = ctr[n].run
    BY <1>1 DEF Leave, Join, Machine
  <2>2. QED
    BY <1>1, <1>4, <2>1
<1>5. CASE pc \in OldRuns /\ (ctr' \in {Remove("next"), Stop("next"), Remove("previous")}
                             \/ \E a, up : ctr' = Create("next", a, up))
  BY <1>1, <1>5 DEF Remove, Stop, Create, Machine
<1>6. CASE pc \in NewRuns /\ ctr' \in {Remove("current"), Stop("previous")}
  BY <1>1, <1>6 DEF Remove, Stop, Machine
<1>7. CASE \E m \in {"current", "next", "previous"}, n \in {"current", "previous"} :
               m # n /\ CanRename(m, n) /\ ctr' = Rename(m, n)
  <2>1. PICK m \in Names, n \in Names : m # n /\ CanRename(m, n) /\ ctr' = Rename(m, n)
    BY <1>1, <1>7
  <2>2. ~ctr[n].run
    BY <1>1, <2>1 DEF CanRename, Exists
  <2>3. \A k \in Names \ {m, n} : ctr'[k].run = ctr[k].run
    BY <1>1, <2>1 DEF Rename, Machine
  <2>4. ctr'[n].run = ctr[m].run
    BY <1>1, <2>1 DEF Rename, Machine
  <2>5. QED
    BY <1>1, <2>1, <2>2, <2>3, <2>4
<1>8. CASE ctr' = Begin("current")
  BY <1>1, <1>8 DEF Begin, Exists, Machine, Container
<1>9. CASE Panel
  <2>1. Swap \/ Undo
    BY <1>9, SettleAt, DirectAt, EndingAt, RecoverAt, NoticeAt
       DEF Panel, BuildFails, SwapSteps, SettleSteps, BootSteps
  <2>2. CASE Undo
    <3>1. CASE Abort
      BY <1>3, <1>7, <3>1 DEF Abort, Renames, Does, Fails
    <3>2. CASE AbortStart
      BY <1>3, <1>8, <3>2 DEF AbortStart, Tries, Does, Fails
    <3>3. CASE AbortCheck \/ AbortRepoint
      BY <1>3, <3>3 DEF AbortCheck, AbortRepoint, Applies, Refused
    <3>4. CASE pc = "ab_leave" /\ AbortRemove
      BY <1>3, <1>4, <3>4 DEF AbortRemove, Tries, Does, Fails
    <3>5. CASE pc # "ab_leave" /\ AbortRemove
      BY <1>3, <1>5, <3>5 DEF OldRuns, AbortRemove, Tries, Does, Fails
    <3>6. QED
      BY <2>2, <3>1, <3>2, <3>3, <3>4, <3>5 DEF Undo
  <2>3. CASE PlanSwap \/ NextReady \/ NextUnhealthy \/ Repoint \/ Reprobe
    BY <1>3, <2>3 DEF PlanSwap, NextReady, NextUnhealthy, Repoint, Reprobe, Applies, Refused, Does
  <2>4. CASE DropLeftover \/ StartNext \/ DropFailed \/ RemovePrevious
    BY <1>3, <1>5, <2>4 DEF OldRuns, DropLeftover, StartNext, DropFailed, RemovePrevious, RunsInto,
       Tries, Does, Fails
  <2>5. CASE AliasNext \/ PromoteNext
    BY <1>3, <1>4, <2>5 DEF AliasNext, Moves, PromoteNext, Does, Fails
  <2>6. CASE KeepOld \/ RenameNext
    BY <1>3, <1>7, <2>6 DEF KeepOld, RenameNext, Does, Fails
  <2>7. CASE StopOld \/ RemoveOld
    BY <1>3, <1>6, <2>7 DEF NewRuns, StopOld, RemoveOld, Fails
  <2>8. QED
    BY <2>1, <2>2, <2>3, <2>4, <2>5, <2>6, <2>7 DEF Swap
<1>10. CASE Stopped \/ PersonStart
  BY <1>10 DEF Stopped, PersonStart, Online, SwapSteps
<1>11. QED
  BY <1>3, <1>9, <1>10
     DEF Next, StartDeploy, Crash, Boot, AskStop, OtherCompute, OtherLoad, CaddyRestart, vars

\* No command of a swap or of its undoing (performSwap, abort, promoteNext), failed
\* ones included, stops or removes the last running container of a project that is
\* online, whatever the panel, docker, Caddy and a person do in between.
THEOREM SwapKeepsRunning == Spec => SwapKeepsAlive
<1>1. IInv /\ [Next]_vars => [(pc \in SwapSteps) /\ Online /\ Alive => (Alive')]_vars
  BY AliveStep
<1>2. QED
  BY <1>1, Invariant, PTL DEF Spec, SwapKeepsAlive

\* One step on a project that a person stopped.
LEMMA StoppedStep ==
    ASSUME IInv, [Next]_vars, disk.stopped, disk'.stopped, ~Alive, Alive'
    PROVE  job.caller = "deploy"
<1>1. Typed /\ ctr \in Machine /\ Real
  BY Types DEF IInv, Typed
<1>2. \E n \in Names : ctr'[n].run /\ ~ctr[n].run
  BY DEF Alive, Running
<1>3. CASE Panel
  <2>1. CASE Quiet(ctr')
    BY <1>1, <1>2, <2>1, QuietSound
  <2>2. CASE Creates
    BY <2>2 DEF Creates, IInv, Callers, DeploySteps
  <2>3. CASE Begins
    <3>1. CASE pc = "ab_start"
      BY <3>1 DEF IInv, Callers, DeploySteps
    <3>2. CASE pc = "rb_start"
      BY <1>1, <3>2 DEF IInv, Callers, BootWorks, Typed, Jobs
    <3>3. QED
      BY <2>3, <3>1, <3>2 DEF Begins
  <2>4. QED
    BY <1>3, <2>1, <2>2, <2>3, PanelWorks
<1>4. CASE Stopped
  BY <1>1, <1>2, <1>4, StoppedKeeps
<1>5. CASE PersonStart
  BY <1>1, <1>5 DEF PersonStart, Typed, Disks
<1>6. CASE UNCHANGED ctr
  BY <1>2, <1>6
<1>7. QED
  BY <1>3, <1>4, <1>5, <1>6
     DEF Next, StartDeploy, Crash, Boot, AskStop, OtherCompute, OtherLoad, CaddyRestart, vars

\* A project that a person stopped is brought back by nothing but a deploy or a
\* person: not by the recovery of an interrupted deploy, nor by the settling of a
\* leftover at the boot (recoverInterruptedDeploy, settleAbandonedSwap).
THEOREM StopStays == Spec => StopIsKept
<1>1. IInv /\ [Next]_vars
        => [disk.stopped /\ disk'.stopped /\ ~Alive /\ Alive' => job.caller = "deploy"]_vars
  BY StoppedStep
<1>2. QED
  BY <1>1, Invariant, PTL DEF Spec, StopIsKept

=============================================================================
