------------------------- MODULE BlueGreenVisitorProofs -------------------------
(***************************************************************************)
(* Proofs about BlueGreen for the visitors of a project.  First one whose  *)
(* deploys are the only ones at work on it, with a proxy that may refuse   *)
(* any reload and restart at any moment, and swaps possible or not: what a *)
(* later reload can load is always somebody's who runs, so that visitors   *)
(* are cut off only by whoever takes the last version down.  Then a static *)
(* site, which has no previous version to fall back on, with one crash of  *)
(* the panel anywhere.                                                     *)
(***************************************************************************)
EXTENDS BlueGreenDockerProofs

-----------------------------------------------------------------------------
(* The inductive invariant. *)

\* Only deploys are at work: no command failed, the panel stayed up and nobody stopped
\* the project.
Fair == Without({"faults", "crashes", "stops"})
OnDuty ==
    /\ stopping = {} /\ ~disk.stopped /\ job.caller = "deploy"
    /\ pc \notin {"down", "settle_check", "settle_sync", "promote_join", "ab_start", "recover",
                  "recover_alias", "recover_join", "recover_next", "recover_stop", "recover_keep",
                  "recover_rename"}
    /\ pc \in {"promote", "rename"} => job.ret = "swap"

\* Where the proxy has been moved to the new version, where it may have been, where
\* only that version is left, and where it has been moved back.
Replacing == {"stopold", "promote", "rename"}
Draining  == {"reprobe", "rmprev", "keepold", "rmold"} \cup Replacing
Moved     == {"repoint", "abort", "ab_check", "ab_repoint"} \cup Draining
Back      == {"settle_stop", "settle_leave", "settle_rm", "ab_stop", "ab_leave", "ab_drop"}

\* Where a deploy works on the only version.
Single == {"l_rmprev", "l_rename", "l_stop", "l_rm", "l_run", "proxy", "health", "finish", "success",
           "save_project", "save_job", "rollback", "rb_rename", "rb_start"}

\* Who answers by the alias of the project, and by the one of the swap.
InService ==
    /\ \A n \in {"current", "previous"} : Exists(n) => "slug" \in ctr[n].alias
    /\ Running("previous") => pc \in {"stopold", "l_stop"}
    /\ Running("next") => (Running("current") /\ pc \notin Single) \/ pc \in Replacing
Apart ==
    /\ pc = "run" => ~Exists("next")
    /\ pc \in {"wait", "drop_failed", "alias"} => ctr["next"].alias = {job.alias}
    /\ pc = "alias_join" => job.joining = {"slug", job.alias} /\ ctr["next"].alias = {}
    /\ pc \in Moved =>
           /\ Running("next") /\ ctr["next"].alias = {"slug", job.alias}
           /\ swapUpstream = job.alias /\ job.moved

\* Every upstream that a reload may load belongs to a version that runs: the one in
\* memory, the one to be put back there, the one computed, the one in the file.  Only
\* the one that is loaded may be nobody's any more.
NextBy(u) == Running("next") /\ {"slug", u} \subseteq ctr["next"].alias
Kept ==
    /\ swapUpstream # NoAlias =>
           NextBy(swapUpstream) /\ pc \in Moved \cup {"idle", "settle", "fail", "save_failed"}
    /\ pc = "settle_back" /\ job.held # NoAlias => NextBy(job.held)
Computed ==
    \/ other \in {NoAlias, "slug", swapUpstream}
    \/ pc = "settle_back" /\ other = job.held
    \/ /\ pc = "proxy" /\ other = job.alias /\ other \in ctr["current"].alias
       /\ caddy.loaded = other /\ caddy.file = other
Filed ==
    \/ caddy.file \in {caddy.loaded, "slug", swapUpstream}
    \/ pc = "settle_back" /\ caddy.file = job.held
Loaded ==
    /\ pc \in Back => caddy.loaded = "slug" /\ caddy.file = "slug"
    /\ pc \in Draining => /\ caddy.loaded = job.alias /\ caddy.file = job.alias
                        /\ other \in {NoAlias, job.alias}

Visited == OnDuty /\ InService /\ Apart /\ Kept /\ Computed /\ Filed /\ Loaded
VisitorInv == Fair => Visited

-----------------------------------------------------------------------------
(* It is inductive. *)

LEMMA FairBefore == ASSUME Typed, [Next]_vars, Fair' PROVE Fair /\ Answers'
<1>1. {"faults", "crashes", "stops"} \subseteq AllTroubles
  BY DEF AllTroubles
<1>2. \A w \in {"faults", "crashes", "stops"} : troubles'[w] = 0
  BY DEF Fair, Without
<1>3. QED
  BY <1>1, <1>2, SpentOnce DEF Fair, Without, Answers

\* Neither the panel dies nor a person stops the project.
LEMMA NobodyElse ==
    ASSUME Typed, OnDuty, Fair'
    PROVE  ~Crash /\ ~Boot /\ ~AskStop /\ ~Stopped
<1>1. \A w \in {"crashes", "stops"} : ~Spend(w)
  BY DEF Typed, Counts, AllTroubles, Spend, Fair, Without
<1>2. QED
  BY <1>1 DEF OnDuty, Crash, Boot, AskStop, Stopped

\* What every step of a deploy may rely on.
Base == IInv /\ DockerInv /\ Visited /\ Fair /\ Fair' /\ Answers'
LEMMA Grounds ==
    ASSUME Base
    PROVE  /\ Typed /\ ctr \in Machine /\ job \in Jobs /\ disk \in Disks
           /\ {"current", "next", "previous"} = Names
           /\ Absent.ver = 0 /\ ~Absent.run
           /\ \A n \in Names : ctr[n].ver = 0 => ~ctr[n].run
           /\ Always /\ Answered /\ OnDuty /\ Sides /\ Callers
           /\ caddy.file # NoAlias /\ caddy.loaded # NoAlias
  BY Types DEF Alias, NoAlias, Proxies, Base, IInv, DockerInv, Typed, Names, Absent, Real, Sound, Visited, Fair, Without, Answers

LEMMA VisitSettle == ASSUME Base, Settle PROVE Visited'
<1> USE DEF Visited, OnDuty, InService, Apart, Kept, NextBy, Computed, Filed, Loaded, Replacing, Draining, Moved,
        Back, Single, Running, Exists
<1>1. /\ Typed /\ ctr \in Machine /\ job \in Jobs /\ {"current", "next", "previous"} = Names
      /\ ~disk.stopped /\ job.caller = "deploy" /\ Absent.ver = 0 /\ ~Absent.run
      /\ caddy.file # NoAlias
  BY Grounds
<1>2. Visited /\ Answers'
  BY DEF Base
<1>3. CASE SettleClean
  <2>1. pc = "settle" /\ ~Running("next")
    BY <1>1, <1>2, <1>3, Surely DEF SettleClean
  <2>2. pc' = "notice" /\ UNCHANGED <<ctr, caddy, other, swapUpstream, job, disk, deploys, probed, stopping>>
    BY <1>1, <1>3 DEF SettleClean, AfterSettle
  <2>3. QED
    BY <1>2, <2>1, <2>2
<1>4. CASE SettleStopped \/ SettlePromote \/ SettleCheck \/ SettleSync
  <2>1. ~SettleStopped
    BY <1>1 DEF SettleStopped
  <2>2. ~SettlePromote
    BY <1>1, <1>2, Surely DEF SettlePromote
  <2>3. ~SettleCheck /\ ~SettleSync
    BY <1>2 DEF SettleCheck, SettleSync, Applies, Refused
  <2>4. QED
    BY <1>4, <2>1, <2>2, <2>3
<1>5. CASE SettleRelease
  <2>1. /\ pc = "settle" /\ pc' = "settle_back" /\ swapUpstream' = NoAlias
        /\ UNCHANGED <<ctr, caddy, other, disk, stopping>>
    BY <1>5 DEF SettleRelease
  <2>2. job'.held = swapUpstream /\ job'.alias = job.alias /\ job'.caller = job.caller
    BY <1>1, <1>5 DEF SettleRelease, Jobs
  <2>3. QED
    BY <1>2, <2>1, <2>2
<1>6. CASE SettleBack
  <2>1. pc = "settle_back" /\ UpstreamFor = "slug"
    BY <1>2, <1>6 DEF SettleBack, Applies, Refused, UpstreamFor
  <2>2. CASE Applies("settle_back", UpstreamFor, "settle_stop") /\ UNCHANGED swapUpstream
    <3>1. /\ pc' = "settle_stop" /\ caddy'.loaded = "slug" /\ caddy'.file = "slug" /\ other' = NoAlias
          /\ UNCHANGED <<ctr, swapUpstream, job, disk, stopping>>
      BY <1>6, <2>1, <2>2 DEF SettleBack, Applies, Accepts
    <3>2. QED
      BY <1>2, <2>1, <3>1
  <2>3. CASE Refused("settle_back", UpstreamFor, AfterSettle("refused")) /\ swapUpstream' = job.held
    <3>1. /\ pc' = "save_failed" /\ caddy' \in {caddy, [caddy EXCEPT !.file = "slug"]} /\ other' = NoAlias
          /\ other = NoAlias
          /\ UNCHANGED <<ctr, job, disk, stopping>>
      BY <1>1, <1>6, <2>1, <2>3 DEF SettleBack, Refused, Refuses, AfterSettle
    <3>2. caddy'.loaded = caddy.loaded /\ caddy'.file \in {caddy.file, "slug"}
      BY <1>1, <3>1 DEF Typed, Proxies
    <3>3. QED
      BY <1>1, <1>2, <2>1, <2>3, <3>1, <3>2
  <2>4. QED
    BY <1>6, <2>2, <2>3 DEF SettleBack
<1>7. CASE SettleRemove
  <2>1. /\ \/ pc = "settle_stop" /\ pc' = "settle_leave" /\ ctr' = Stop("next")
           \/ pc = "settle_leave" /\ pc' = "settle_rm" /\ ctr' = Leave("next")
           \/ pc = "settle_rm" /\ pc' = "notice" /\ ctr' = Remove("next")
        /\ UNCHANGED <<caddy, other, swapUpstream, job, disk, stopping>>
    BY <1>1, <1>2, <1>7, Surely DEF SettleRemove, Does, AfterSettle
  <2>2. /\ ctr'["current"] = ctr["current"] /\ ctr'["previous"] = ctr["previous"]
        /\ ctr'["next"].run => ctr["next"].run
    BY <1>1, <2>1 DEF Stop, Leave, Remove, Machine, Container
  <2>3. QED
    BY <1>1, <1>2, <2>1, <2>2
<1>8. QED
  BY <1>3, <1>4, <1>5, <1>6, <1>7 DEF Settle

LEMMA VisitDirect == ASSUME Base, Direct PROVE Visited'
<1> USE DEF Visited, OnDuty, InService, Apart, Kept, NextBy, Computed, Filed, Loaded, Replacing, Draining, Moved,
        Back, Single, Running, Exists
<1>1. /\ Typed /\ ctr \in Machine /\ {"current", "next", "previous"} = Names
      /\ Absent.ver = 0 /\ ~Absent.run /\ Cleared
      /\ \A n \in Names : ctr[n].ver = 0 => ~ctr[n].run
  BY Grounds DEF Answered
<1>2. Visited /\ Answers'
  BY DEF Base
<1>3. CASE PlanDirect
  <2>1. pc = "plan" /\ pc' \in {"l_rmprev", "l_rm"} /\ UNCHANGED <<ctr, caddy, other, swapUpstream, job, disk, stopping>>
    BY <1>3 DEF PlanDirect
  <2>2. ~Running("next")
    BY <2>1, Grounds DEF Answered, Gone
  <2>3. QED
    BY <1>2, <2>1, <2>2
<1>4. CASE DirectClear
  <2>1. UNCHANGED <<caddy, other, swapUpstream, job, disk, stopping>>
    BY <1>1, <1>2, <1>4, Surely DEF DirectClear, Does
  <2>2. CASE pc \in {"l_rmprev", "l_rm", "l_stop"}
    <3>1. /\ pc = "l_rmprev" => pc' = "l_rename" /\ ctr' = Remove("previous")
          /\ pc = "l_rm" => pc' = "l_run" /\ ctr' = Remove("current")
          /\ pc = "l_stop" => pc' = "l_run" /\ ctr' = Stop("previous")
      BY <1>1, <1>2, <1>4, <2>2, Surely DEF DirectClear, Does
    <3>2. \A n \in Names : /\ ctr'[n].ver # 0 => ctr'[n] = ctr[n] \/ (ctr'[n].alias = ctr[n].alias /\ ctr[n].ver # 0)
                           /\ ctr'[n].run => ctr[n].run
      BY <1>1, <2>2, <3>1 DEF Remove, Stop, Machine, Container
    <3>3. pc = "l_stop" => ~ctr'["previous"].run
      BY <1>1, <3>1 DEF Stop, Machine, Container
    <3>4. QED
      BY <1>1, <1>2, <2>1, <2>2, <3>1, <3>2, <3>3
  <2>3. CASE pc = "l_rename"
    <3>1. \/ CanRename("current", "previous") /\ pc' = "l_stop" /\ ctr' = Rename("current", "previous")
          \/ pc' = "l_run" /\ ctr' = ctr
      BY <1>1, <1>2, <1>4, <2>3, Surely DEF DirectClear, Does
    <3>2. CASE pc' = "l_stop" /\ ctr' = Rename("current", "previous") /\ CanRename("current", "previous")
      <4>1. /\ ctr'["current"] = Absent /\ ctr'["previous"] = ctr["current"] /\ ctr'["next"] = ctr["next"]
            /\ ctr["current"].ver # 0
        BY <1>1, <3>2 DEF Rename, Machine, CanRename
      <4>2. QED
        BY <1>1, <1>2, <2>1, <2>3, <3>2, <4>1
    <3>3. CASE pc' = "l_run" /\ ctr' = ctr
      BY <1>2, <2>1, <2>3, <3>3
    <3>4. QED
      BY <3>1, <3>2, <3>3
  <2>4. QED
    BY <1>1, <1>2, <1>4, <2>2, <2>3, Surely DEF DirectClear, Does
<1>5. CASE DirectRun
  <2>1. pc = "l_run"
    BY <1>5 DEF DirectRun, RunsInto, Does, Fails
  <2>2. ~Exists("current")
    BY <1>1, <2>1 DEF Cleared
  <2>3. /\ pc' = "proxy" /\ ctr' = Create("current", {"slug"}, TRUE)
        /\ UNCHANGED <<caddy, other, swapUpstream, job, disk, stopping>>
    BY <1>1, <1>2, <1>5, <2>2, Surely DEF DirectRun, Does
  <2>4. /\ ctr'["current"].alias = {"slug"} /\ ctr'["next"] = ctr["next"] /\ ctr'["previous"] = ctr["previous"]
    BY <1>1, <2>3 DEF Create, Machine
  <2>5. swapUpstream = NoAlias
    BY <1>2, <2>1
  <2>6. OnDuty' /\ Apart' /\ Kept' /\ Computed' /\ Filed' /\ Loaded'
    BY <1>2, <2>1, <2>3, <2>5
  <2>7. InService'
    BY <1>2, <2>1, <2>3, <2>4
  <2>8. QED
    BY <2>6, <2>7
<1>6. QED
  BY <1>3, <1>4, <1>5 DEF Direct

LEMMA VisitBegin ==
    ASSUME Base, PlanSwap \/ DropLeftover \/ StartNext \/ NextReady \/ NextUnhealthy \/ DropFailed \/ AliasNext
    PROVE  Visited'
<1> USE DEF Visited, OnDuty, InService, Apart, Kept, NextBy, Computed, Filed, Loaded, Replacing, Draining, Moved,
        Back, Single, Running, Exists
<1>1. /\ Typed /\ ctr \in Machine /\ job \in Jobs /\ {"current", "next", "previous"} = Names
      /\ Absent.ver = 0 /\ ~Absent.run /\ caddy.file # NoAlias
      /\ \A n \in Names : ctr[n].ver = 0 => ~ctr[n].run
      /\ pc \in OldRuns => ctr["current"].run
      /\ pc \in NewRuns => ctr["next"].run
  BY Grounds DEF Sides
<1>2. Visited /\ Answers'
  BY DEF Base
<1>3. CASE PlanSwap
  <2>1. /\ pc = "plan" /\ pc' = "drop" /\ swapUpstream' = NoAlias /\ UNCHANGED <<ctr, caddy, other, disk, stopping>>
        /\ job'.caller = job.caller
    BY <1>1, <1>2, <1>3, Surely DEF PlanSwap, Jobs
  <2>2. QED
    BY <1>2, <2>1
<1>4. CASE DropLeftover \/ DropFailed
  <2>1. /\ \/ pc = "drop" /\ pc' = "run"
           \/ pc = "drop_failed" /\ pc' = "fail"
        /\ ctr' = Remove("next")
        /\ UNCHANGED <<caddy, other, swapUpstream, job, disk, stopping>>
    BY <1>1, <1>2, <1>4, Surely DEF DropLeftover, DropFailed, Does
  <2>2. ctr'["next"] = Absent /\ ctr'["current"] = ctr["current"] /\ ctr'["previous"] = ctr["previous"]
    BY <1>1, <2>1 DEF Remove, Machine
  <2>3. QED
    BY <1>1, <1>2, <2>1, <2>2
<1>5. CASE StartNext
  <2>1. pc = "run"
    BY <1>1, <1>2, <1>5, Surely DEF StartNext, Does
  <2>2. pc' = "wait" /\ ctr' = Create("next", {job.alias}, TRUE)
        /\ UNCHANGED <<caddy, other, swapUpstream, job, disk, stopping>>
    BY <1>1, <1>2, <1>5, <2>1, Surely DEF StartNext, Does
  <2>3. /\ ctr'["next"].alias = {job.alias} /\ ctr'["current"] = ctr["current"] /\ ctr'["previous"] = ctr["previous"]
    BY <1>1, <2>2 DEF Create, Machine
  <2>4. QED
    BY <1>1, <1>2, <2>1, <2>2, <2>3 DEF OldRuns
<1>6. CASE NextReady \/ NextUnhealthy
  <2>1. /\ pc = "wait" /\ pc' \in {"alias", "drop_failed"}
        /\ UNCHANGED <<ctr, caddy, other, swapUpstream, job, disk, stopping>>
    BY <1>6 DEF NextReady, NextUnhealthy
  <2>2. QED
    BY <1>2, <2>1
<1>7. CASE AliasNext /\ pc = "alias"
  <2>1. /\ pc' = "alias_join" /\ ctr' = Leave("next") /\ job' = [job EXCEPT !.joining = {"slug", job.alias}]
        /\ UNCHANGED <<caddy, other, swapUpstream, disk, stopping>>
    BY <1>1, <1>2, <1>7, Surely DEF AliasNext, Does
  <2>2. /\ ctr'["next"].run = ctr["next"].run /\ ctr'["next"].alias = {}
        /\ ctr'["current"] = ctr["current"] /\ ctr'["previous"] = ctr["previous"]
    BY <1>1, <2>1 DEF Leave, Machine, Container
  <2>3. job'.joining = {"slug", job'.alias} /\ job'.caller = job.caller
    BY <1>1, <2>1 DEF Jobs
  <2>4. QED
    BY <1>2, <1>7, <2>1, <2>2, <2>3
<1>8. CASE AliasNext /\ pc # "alias"
  <2>1. /\ pc = "alias_join" /\ pc' = "repoint" /\ ctr' = Join("next", job.joining)
        /\ job' = [job EXCEPT !.moved = TRUE] /\ swapUpstream' = job.alias
        /\ UNCHANGED <<caddy, other, disk, stopping>>
    BY <1>1, <1>2, <1>8, Surely DEF AliasNext, Moves
  <2>2. ctr["next"].run /\ ctr["current"].run /\ ctr["next"].ver # 0
    BY <1>1, <2>1 DEF OldRuns, NewRuns
  <2>3. /\ ctr'["next"].run /\ ctr'["next"].alias = {"slug", job.alias}
        /\ ctr'["current"] = ctr["current"] /\ ctr'["previous"] = ctr["previous"]
    BY <1>1, <1>2, <2>1, <2>2 DEF Join, Machine, Container
  <2>4. job'.alias = job.alias /\ job'.moved /\ job'.caller = job.caller
    BY <1>1, <2>1 DEF Jobs
  <2>5. swapUpstream = NoAlias
    BY <1>2, <2>1
  <2>6. QED
    BY <1>1, <1>2, <2>1, <2>2, <2>3, <2>4, <2>5
<1>9. QED
  BY <1>3, <1>4, <1>5, <1>6, <1>7, <1>8

LEMMA VisitTake ==
    ASSUME Base, Repoint \/ Reprobe \/ RemovePrevious \/ KeepOld \/ StopOld \/ RemoveOld \/ PromoteNext \/ RenameNext
    PROVE  Visited'
<1> USE DEF Visited, OnDuty, InService, Apart, Kept, NextBy, Computed, Filed, Loaded, Replacing, Draining, Moved,
        Back, Single, Running, Exists
<1>1. /\ Typed /\ ctr \in Machine /\ job \in Jobs /\ caddy \in Proxies /\ {"current", "next", "previous"} = Names
      /\ Absent.ver = 0 /\ ~Absent.run /\ caddy.file # NoAlias /\ Cleared /\ Always
      /\ \A n \in Names : ctr[n].ver = 0 => ~ctr[n].run
      /\ pc \in OldRuns => ctr["current"].run
  BY Grounds DEF Sides, Answered, Typed
<1>2. Visited /\ Answers'
  BY DEF Base
<1>3. CASE Repoint
  <2>1. pc = "repoint" /\ swapUpstream = job.alias /\ UNCHANGED <<ctr, swapUpstream, job, disk, stopping>>
    BY <1>2, <1>3 DEF Repoint, Applies, Refused
  <2>2. ctr["current"].run
    BY <1>1, <2>1 DEF OldRuns
  <2>3. CASE Applies("repoint", job.alias, "reprobe")
    <3>1. pc' = "reprobe" /\ caddy'.loaded = job.alias /\ caddy'.file = job.alias /\ other' = NoAlias
      BY <2>3 DEF Applies, Accepts
    <3>2. QED
      BY <1>2, <2>1, <2>2, <3>1
  <2>4. CASE Refused("repoint", job.alias, "abort")
    <3>1. /\ pc' = "abort" /\ other' = NoAlias /\ caddy'.loaded = caddy.loaded
          /\ caddy'.file \in {caddy.file, job.alias}
      BY <1>1, <2>4 DEF Refused, Refuses, Proxies
    <3>2. QED
      BY <1>1, <1>2, <2>1, <2>2, <3>1
  <2>5. QED
    BY <1>3, <2>3, <2>4 DEF Repoint
<1>4. CASE Reprobe
  <2>1. /\ pc = "reprobe" /\ pc' \in {"rmprev", "rmold", "abort"}
        /\ UNCHANGED <<ctr, caddy, other, swapUpstream, job, disk, stopping>>
    BY <1>4 DEF Reprobe, Does
  <2>2. ctr["current"].run
    BY <1>1, <2>1 DEF OldRuns
  <2>3. QED
    BY <1>2, <2>1, <2>2
<1>5. CASE RemovePrevious
  <2>1. /\ pc = "rmprev" /\ pc' = "keepold" /\ ctr' = Remove("previous")
        /\ UNCHANGED <<caddy, other, swapUpstream, job, disk, stopping>>
    BY <1>1, <1>2, <1>5, Surely DEF RemovePrevious, Does
  <2>2. ctr'["previous"] = Absent /\ ctr'["current"] = ctr["current"] /\ ctr'["next"] = ctr["next"]
    BY <1>1, <2>1 DEF Remove, Machine
  <2>3. QED
    BY <1>1, <1>2, <2>1, <2>2
<1>6. CASE KeepOld
  <2>1. pc = "keepold"
    BY <1>6 DEF KeepOld, Does, Fails
  <2>2. CanRename("current", "previous")
    BY <1>1, <2>1 DEF OldRuns, Cleared, CanRename
  <2>3. /\ pc' = "stopold" /\ ctr' = Rename("current", "previous") /\ job' = [job EXCEPT !.renamed = TRUE]
        /\ UNCHANGED <<caddy, other, swapUpstream, disk, stopping>>
    BY <1>1, <1>2, <1>6, <2>2, Surely DEF KeepOld
  <2>4. /\ ctr'["current"] = Absent /\ ctr'["previous"] = ctr["current"] /\ ctr'["next"] = ctr["next"]
        /\ ctr["current"].ver # 0
    BY <1>1, <2>2, <2>3 DEF Rename, Machine, CanRename
  <2>5. job'.alias = job.alias /\ job'.caller = job.caller /\ job'.moved = job.moved
    BY <1>1, <2>3 DEF Jobs
  <2>6. QED
    BY <1>1, <1>2, <2>1, <2>3, <2>4, <2>5
<1>7. CASE StopOld
  <2>1. /\ pc = "stopold" /\ pc' = "promote" /\ ctr' = Stop("previous") /\ job' = [job EXCEPT !.stopped = TRUE]
        /\ UNCHANGED <<caddy, other, swapUpstream, disk, stopping>>
    BY <1>1, <1>2, <1>7, Surely DEF StopOld
  <2>2. /\ ctr'["previous"].ver = ctr["previous"].ver /\ ctr'["previous"].alias = ctr["previous"].alias
        /\ ~ctr'["previous"].run
        /\ ctr'["current"] = ctr["current"] /\ ctr'["next"] = ctr["next"]
    BY <1>1, <2>1 DEF Stop, Machine, Container
  <2>3. /\ job'.alias = job.alias /\ job'.caller = job.caller /\ job'.moved = job.moved
        /\ job'.ret = "swap"
    BY <1>1, <2>1 DEF Jobs, Always, Returns, SwapBegun
  <2>4. QED
    BY <1>2, <2>1, <2>2, <2>3
<1>8. CASE RemoveOld
  <2>1. /\ pc = "rmold" /\ pc' = "promote" /\ ctr' = Remove("current") /\ job' = [job EXCEPT !.removedOld = TRUE]
        /\ UNCHANGED <<caddy, other, swapUpstream, disk, stopping>>
    BY <1>1, <1>2, <1>8, Surely DEF RemoveOld
  <2>2. ctr'["current"] = Absent /\ ctr'["previous"] = ctr["previous"] /\ ctr'["next"] = ctr["next"]
    BY <1>1, <2>1 DEF Remove, Machine
  <2>3. /\ job'.alias = job.alias /\ job'.caller = job.caller /\ job'.moved = job.moved
        /\ job'.ret = "swap"
    BY <1>1, <2>1 DEF Jobs, Always, Returns, SwapBegun
  <2>4. QED
    BY <1>1, <1>2, <2>1, <2>2, <2>3
<1>9. CASE PromoteNext
  <2>1. pc \in {"promote", "promote_join"}
    BY <1>9 DEF PromoteNext, Does, Fails
  <2>2. pc = "promote" /\ "slug" \in ctr["next"].alias
    BY <1>2, <2>1
  <2>3. pc' = "rename" /\ UNCHANGED <<ctr, caddy, other, swapUpstream, job, disk, stopping>>
    BY <1>1, <1>2, <1>9, <2>2, Surely DEF PromoteNext, Does
  <2>4. QED
    BY <1>2, <2>2, <2>3
<1>10. CASE RenameNext
  <2>1. pc = "rename"
    BY <1>10 DEF RenameNext, Does, Fails
  <2>2. CanRename("next", "current") /\ job.ret = "swap"
    BY <1>2, <2>1, Grounds, RenameWorks DEF Base, Answered
  <2>3. /\ pc' = "proxy" /\ ctr' = Rename("next", "current")
        /\ job' = [job EXCEPT !.swapped = (job.ret = "swap")] /\ swapUpstream' = NoAlias
        /\ UNCHANGED <<caddy, other, disk, stopping>>
    BY <1>1, <1>2, <1>10, <2>2, Surely DEF RenameNext, Does
  <2>4. ctr'["next"] = Absent /\ ctr'["current"] = ctr["next"] /\ ctr'["previous"] = ctr["previous"]
    BY <1>1, <2>3 DEF Rename, Machine
  <2>5. job'.alias = job.alias /\ job'.caller = job.caller
    BY <1>1, <2>3 DEF Jobs
  <2>6. QED
    BY <1>1, <1>2, <2>1, <2>3, <2>4, <2>5
<1>11. QED
  BY <1>3, <1>4, <1>5, <1>6, <1>7, <1>8, <1>9, <1>10

LEMMA VisitUndo == ASSUME Base, Undo PROVE Visited'
<1> USE DEF Visited, OnDuty, InService, Apart, Kept, NextBy, Computed, Filed, Loaded, Replacing, Draining, Moved,
        Back, Single, Running, Exists
<1>1. /\ Typed /\ ctr \in Machine /\ job \in Jobs /\ caddy \in Proxies /\ {"current", "next", "previous"} = Names
      /\ Absent.ver = 0 /\ ~Absent.run /\ caddy.file # NoAlias /\ Abandoned
      /\ pc \in OldRuns => ctr["current"].run
  BY Grounds DEF Sides, Answered, Typed
<1>2. Visited /\ Answers'
  BY DEF Base
<1>3. CASE Abort \/ AbortStart \/ AbortCheck
  <2>1. pc \in {"abort", "ab_check"}
    BY <1>2, <1>3, Surely DEF Abort, AbortStart, AbortCheck, Does, Fails, Tries, Renames
  <2>2. ctr["current"].run /\ ~job.renamed /\ ~job.removedOld /\ job.moved
    BY <1>1, <1>2, <2>1 DEF Abandoned
  <2>3. pc' \in {"ab_check", "ab_repoint"} /\ UNCHANGED <<ctr, caddy, other, swapUpstream, job, disk, stopping>>
    BY <1>1, <1>2, <1>3, <2>1, <2>2, Surely DEF Abort, AbortStart, AbortCheck, Does
  <2>4. QED
    BY <1>2, <2>1, <2>2, <2>3
<1>4. CASE AbortRepoint
  <2>1. pc = "ab_repoint" /\ UNCHANGED <<ctr, job, disk, stopping>>
    BY <1>4 DEF AbortRepoint, Applies, Refused
  <2>2. ctr["current"].run
    BY <1>1, <2>1 DEF OldRuns
  <2>3. CASE Applies("ab_repoint", "slug", "ab_stop") /\ swapUpstream' = NoAlias
    <3>1. pc' = "ab_stop" /\ caddy'.loaded = "slug" /\ caddy'.file = "slug" /\ other' = NoAlias
      BY <2>3 DEF Applies, Accepts
    <3>2. QED
      BY <1>2, <2>1, <2>2, <2>3, <3>1
  <2>4. CASE Refused("ab_repoint", "slug", "fail") /\ UNCHANGED swapUpstream
    <3>1. /\ pc' = "fail" /\ other' = NoAlias /\ caddy'.loaded = caddy.loaded
          /\ caddy'.file \in {caddy.file, "slug"}
      BY <1>1, <2>4 DEF Refused, Refuses, Proxies
    <3>2. QED
      BY <1>1, <1>2, <2>1, <2>2, <2>4, <3>1
  <2>5. QED
    BY <1>4, <2>3, <2>4 DEF AbortRepoint
<1>5. CASE AbortRemove
  <2>1. /\ \/ pc = "ab_stop" /\ pc' = "ab_leave" /\ ctr' = Stop("next")
           \/ pc = "ab_leave" /\ pc' = "ab_drop" /\ ctr' = Leave("next")
           \/ pc = "ab_drop" /\ pc' = "fail" /\ ctr' = Remove("next")
        /\ UNCHANGED <<caddy, other, swapUpstream, job, disk, stopping>>
    BY <1>1, <1>2, <1>5, Surely DEF AbortRemove, Does
  <2>2. /\ ctr'["current"] = ctr["current"] /\ ctr'["previous"] = ctr["previous"]
        /\ ctr'["next"].run => ctr["next"].run
    BY <1>1, <2>1 DEF Stop, Leave, Remove, Machine, Container
  <2>3. swapUpstream = NoAlias
    BY <1>2, <2>1
  <2>4. QED
    BY <1>1, <1>2, <2>1, <2>2, <2>3
<1>6. QED
  BY <1>3, <1>4, <1>5 DEF Undo

LEMMA VisitEnding == ASSUME Base, Ending PROVE Visited'
<1> USE DEF Visited, OnDuty, InService, Apart, Kept, NextBy, Computed, Filed, Loaded, Replacing, Draining, Moved,
        Back, Single, Running, Exists
<1>1. /\ Typed /\ ctr \in Machine /\ caddy \in Proxies /\ disk \in Disks /\ {"current", "next", "previous"} = Names
      /\ Absent.ver = 0 /\ ~Absent.run /\ caddy.file # NoAlias
      /\ \A n \in Names : ctr[n].ver = 0 => ~ctr[n].run
      /\ job.caller = "deploy" /\ Cleared
  BY Grounds DEF Answered, Typed
<1>2. Visited /\ Answers'
  BY DEF Base
<1>3. CASE Proxy
  <2>1. pc = "proxy" /\ swapUpstream = NoAlias /\ UNCHANGED <<ctr, swapUpstream, job, disk, stopping>>
    BY <1>2, <1>3 DEF Proxy, Applies, Refused
  <2>2. CASE Applies("proxy", "slug", "health")
    <3>1. pc' = "health" /\ caddy'.loaded = "slug" /\ caddy'.file = "slug" /\ other' = NoAlias
      BY <2>2 DEF Applies, Accepts
    <3>2. QED
      BY <1>2, <2>1, <3>1
  <2>3. CASE Refused("proxy", "slug", AfterProxyFailure)
    <3>1. /\ pc' \in {"rollback", "fail"} /\ other' = NoAlias /\ caddy'.loaded = caddy.loaded
          /\ caddy'.file \in {caddy.file, "slug"}
      BY <1>1, <2>3 DEF Refused, Refuses, Proxies, AfterProxyFailure
    <3>2. QED
      BY <1>1, <1>2, <2>1, <3>1
  <2>4. QED
    BY <1>3, <2>2, <2>3 DEF Proxy
<1>4. CASE Healthy \/ Unhealthy
  <2>1. /\ pc = "health" /\ pc' \in {"finish", "rollback", "fail"}
        /\ UNCHANGED <<ctr, caddy, other, swapUpstream, job, disk, stopping>>
    BY <1>4 DEF Healthy, Unhealthy, Does, AfterProxyFailure
  <2>2. QED
    BY <1>2, <2>1
<1>5. CASE Finish
  <2>1. /\ pc = "finish" /\ pc' = "success" /\ ctr' \in {ctr, Remove("previous")}
        /\ UNCHANGED <<caddy, other, swapUpstream, job, disk, stopping>>
    BY <1>1, <1>2, <1>5, Surely DEF Finish, Does
  <2>2. /\ ctr'["current"] = ctr["current"] /\ ctr'["next"] = ctr["next"]
        /\ ctr'["previous"] \in {ctr["previous"], Absent}
    BY <1>1, <2>1 DEF Remove, Machine
  <2>3. QED
    BY <1>1, <1>2, <2>1, <2>2
<1>6. CASE Rollback
  <2>1. /\ \/ pc = "rollback" /\ pc' = "rb_rename" /\ ctr' = Remove("current")
           \/ pc = "rb_rename" /\ pc' \in {"rb_start", "fail"} /\ ctr' \in {ctr, Rename("previous", "current")}
           \/ pc = "rb_start" /\ pc' = "fail" /\ ctr' = Begin("current")
        /\ UNCHANGED <<caddy, other, swapUpstream, job, disk, stopping>>
    BY <1>1, <1>2, <1>6, Surely DEF Rollback, Does
  <2>2. /\ ctr'["next"] = ctr["next"]
        /\ ctr'["previous"] \in {ctr["previous"], Absent}
        /\ \/ ctr'["current"] \in {ctr["current"], ctr["previous"], Absent}
           \/ ctr'["current"].ver = ctr["current"].ver /\ ctr'["current"].alias = ctr["current"].alias
    <3>1. CASE ctr' = Remove("current") \/ ctr' = Rename("previous", "current")
      <4>1. /\ ctr'["next"] = ctr["next"] /\ ctr'["previous"] \in {ctr["previous"], Absent}
            /\ ctr'["current"] \in {ctr["previous"], Absent}
        BY <1>1, <3>1 DEF Remove, Rename, Machine
      <4>2. QED
        BY <4>1
    <3>2. CASE ctr' = Begin("current")
      BY <1>1, <3>2 DEF Begin, Machine, Container
    <3>3. QED
      BY <1>1, <2>1, <3>1, <3>2
  <2>3. swapUpstream = NoAlias /\ ~ctr["next"].run /\ ~ctr["previous"].run
    BY <1>2, <2>1
  <2>4. InService'
    BY <1>1, <1>2, <2>1, <2>2, <2>3
  <2>5. OnDuty' /\ Apart' /\ Kept' /\ Computed' /\ Filed' /\ Loaded'
    BY <1>2, <2>1, <2>3
  <2>6. QED
    BY <2>4, <2>5
<1>7. CASE Succeed \/ Fail
  <2>1. pc \in {"success", "fail"} /\ UNCHANGED <<ctr, swapUpstream, job, disk, stopping>>
    BY <1>7 DEF Succeed, Fail, Applies, Refused
  <2>2. CASE Applies("success", UpstreamFor, "save_project") \/ Applies("fail", UpstreamFor, "save_failed")
    <3>1. /\ pc' \in {"save_project", "save_failed"} /\ (pc = "success" <=> pc' = "save_project")
          /\ caddy'.loaded = UpstreamFor /\ caddy'.file = UpstreamFor
          /\ other' = NoAlias
      BY <2>2 DEF Applies, Accepts
    <3>2. QED
      BY <1>2, <2>1, <3>1 DEF UpstreamFor
  <2>3. CASE Refused("success", UpstreamFor, "save_project") \/ Refused("fail", UpstreamFor, "save_failed")
    <3>1. /\ pc' \in {"save_project", "save_failed"} /\ (pc = "success" <=> pc' = "save_project")
          /\ other' = NoAlias /\ caddy'.loaded = caddy.loaded
          /\ caddy'.file \in {caddy.file, UpstreamFor}
      BY <1>1, <2>3 DEF Refused, Refuses, Proxies
    <3>2. QED
      BY <1>1, <1>2, <2>1, <3>1 DEF UpstreamFor
  <2>4. CASE pc = "fail" /\ pc' = "save_failed" /\ UNCHANGED <<caddy, other>>
    BY <1>2, <2>1, <2>4
  <2>5. QED
    BY <1>7, <2>2, <2>3, <2>4 DEF Succeed, Fail
<1>8. CASE Save
  <2>1. /\ pc \in {"save_project", "save_job", "save_failed"} /\ pc' \in {"save_job", "idle"}
        /\ (pc = "save_project" <=> pc' = "save_job")
        /\ UNCHANGED <<ctr, caddy, other, swapUpstream, job, stopping>>
    BY <1>8 DEF Save, Saves
  <2>2. ~disk'.stopped
    BY <1>1, <1>2, <1>8 DEF Save, Saves, Disks
  <2>3. QED
    BY <1>2, <2>1, <2>2
<1>9. QED
  BY <1>3, <1>4, <1>5, <1>6, <1>7, <1>8 DEF Ending

LEMMA VisitPanel == ASSUME Base, Panel PROVE Visited'
<1> USE DEF Visited, OnDuty, InService, Apart, Kept, NextBy, Computed, Filed, Loaded, Replacing, Draining, Moved,
        Back, Single, Running, Exists
<1>1. Typed /\ caddy \in Proxies /\ caddy.file # NoAlias /\ Callers /\ job.caller = "deploy"
  BY Grounds DEF Typed
<1>2. Visited
  BY DEF Base
<1>3. CASE Notice
  <2>1. pc = "notice" /\ pc' = "plan" /\ UNCHANGED <<ctr, swapUpstream, job, disk, stopping>>
    BY <1>3 DEF Notice, Applies, Refused
  <2>2. swapUpstream = NoAlias /\ UpstreamFor = "slug"
    BY <1>2, <2>1 DEF UpstreamFor
  <2>3. /\ other' \in {NoAlias, other}
        /\ \/ caddy'.loaded = "slug" /\ caddy'.file = "slug"
           \/ caddy'.loaded = caddy.loaded /\ caddy'.file \in {caddy.file, "slug"}
    BY <1>1, <1>3, <2>2 DEF Notice, Applies, Accepts, Refused, Refuses, Proxies
  <2>4. QED
    BY <1>1, <1>2, <2>1, <2>2, <2>3
<1>4. CASE BuildFails
  <2>1. pc = "plan" /\ pc' = "fail" /\ UNCHANGED <<ctr, caddy, other, swapUpstream, job, disk, stopping>>
    BY <1>4 DEF BuildFails
  <2>2. QED
    BY <1>2, <2>1
<1>5. ~Recover
  <2>1. ~RecoverCurrent /\ ~RecoverAlias /\ ~RecoverDown /\ ~RecoverNext /\ ~RecoverPromote
    BY <1>2 DEF RecoverCurrent, RecoverAlias, RecoverDown, RecoverNext, RecoverPromote, Tries, Renames, Does, Fails
  <2>2. pc \notin BootSteps
    BY <1>1 DEF Callers
  <2>3. ~BootMain /\ ~BootSave /\ ~BootSync
    BY <2>2 DEF BootSteps, BootMain, BootSave, BootSync, Saves, Applies, Refused, Tries, Renames, Does, Fails
  <2>4. QED
    BY <2>1, <2>3 DEF Recover
<1>6. QED
  BY <1>3, <1>4, <1>5, VisitSettle, VisitDirect, VisitBegin, VisitTake, VisitUndo, VisitEnding DEF Panel, Swap

LEMMA VisitStep == ASSUME Base, [Next]_vars PROVE Visited'
<1> USE DEF Visited, OnDuty, InService, Apart, Kept, NextBy, Computed, Filed, Loaded, Replacing, Draining, Moved,
        Back, Single, Running, Exists
<1>1. /\ Typed /\ ctr \in Machine /\ caddy \in Proxies /\ disk \in Disks /\ {"current", "next", "previous"} = Names
      /\ caddy.file # NoAlias /\ OnDuty /\ Fair'
  BY Grounds DEF Typed, Base
<1>2. Visited
  BY DEF Base
<1>3. CASE UNCHANGED vars
  BY <1>2, <1>3 DEF vars
<1>4. CASE StartDeploy
  <2>1. /\ pc = "idle" /\ pc' = "settle" /\ job' = IdleJob
        /\ UNCHANGED <<ctr, caddy, other, swapUpstream, stopping>>
    BY <1>4 DEF StartDeploy
  <2>2. ~disk'.stopped /\ job'.caller = "deploy"
    BY <1>1, <1>4, <2>1 DEF StartDeploy, Disks, IdleJob
  <2>3. QED
    BY <1>2, <2>1, <2>2
<1>5. CASE PersonStart
  <2>1. /\ pc = "idle" /\ pc' = pc /\ ctr' = Begin("current")
        /\ UNCHANGED <<caddy, other, swapUpstream, job, stopping>>
    BY <1>2, <1>5 DEF PersonStart
  <2>2. ~disk'.stopped
    BY <1>1, <1>5 DEF PersonStart, Disks
  <2>3. /\ ctr'["next"] = ctr["next"] /\ ctr'["previous"] = ctr["previous"]
        /\ ctr'["current"].ver = ctr["current"].ver /\ ctr'["current"].alias = ctr["current"].alias
        /\ ctr["current"].ver # 0 => ctr'["current"].run
    BY <1>1, <2>1 DEF Begin, Machine, Container
  <2>4. ctr["current"].ver # 0
    BY <1>5 DEF PersonStart
  <2>5. QED
    BY <1>1, <1>2, <2>1, <2>2, <2>3, <2>4
<1>6. CASE OtherCompute
  <2>1. /\ pc \notin Queued /\ pc' = pc /\ other' = UpstreamFor
        /\ UNCHANGED <<ctr, caddy, swapUpstream, job, disk, stopping>>
    BY <1>6 DEF OtherCompute
  <2>2. pc \in Moved => UpstreamFor = job.alias
    <3>1. SUFFICES ASSUME pc \in Moved PROVE UpstreamFor = job.alias
      OBVIOUS
    <3>2. swapUpstream = job.alias /\ ctr["next"].alias = {"slug", job.alias}
      BY <1>2, <3>1
    <3>3. ctr["next"].alias \subseteq Alias
      BY <1>1 DEF Machine, Container
    <3>4. job.alias # NoAlias
      BY <3>2, <3>3 DEF Alias, NoAlias
    <3>5. QED
      BY <3>2, <3>4 DEF UpstreamFor
  <2>3. QED
    BY <1>1, <1>2, <2>1, <2>2 DEF UpstreamFor
<1>7. CASE OtherLoad
  <2>1. /\ other # NoAlias /\ other' = NoAlias /\ pc' = pc
        /\ UNCHANGED <<ctr, swapUpstream, job, disk, stopping>>
    BY <1>7 DEF OtherLoad
  <2>2. \/ caddy'.loaded = other /\ caddy'.file = other
        \/ caddy'.loaded = caddy.loaded /\ caddy'.file \in {caddy.file, other}
    BY <1>1, <1>7 DEF OtherLoad, Proxies
  <2>3. QED
    BY <1>1, <1>2, <2>1, <2>2
<1>8. CASE CaddyRestart
  <2>1. pc' = pc /\ UNCHANGED <<ctr, other, swapUpstream, job, disk, stopping>>
    BY <1>8 DEF CaddyRestart
  <2>2. caddy'.loaded = caddy.file /\ caddy'.file = caddy.file
    BY <1>1, <1>8 DEF CaddyRestart, Proxies
  <2>3. QED
    BY <1>1, <1>2, <2>1, <2>2
<1>9. QED
  BY <1>1, <1>3, <1>4, <1>5, <1>6, <1>7, <1>8, VisitPanel, NobodyElse DEF Next

LEMMA VisitorInit == ASSUME Init PROVE VisitorInv
<1>1. /\ ctr = [n \in Names |-> Absent] /\ caddy = [loaded |-> "slug", file |-> "slug"]
      /\ other = NoAlias /\ swapUpstream = NoAlias /\ job = IdleJob /\ pc = "idle" /\ ~disk.stopped
      /\ stopping = {}
  BY DEF Init
<1>2. \A n \in {"current", "next", "previous"} : ctr[n].ver = 0 /\ ~ctr[n].run
  BY <1>1 DEF Names, Absent
<1>3. OnDuty /\ InService /\ Apart
  BY <1>1, <1>2 DEF OnDuty, InService, Apart, IdleJob, Moved, Draining, Replacing, Running, Exists
<1>4. Kept /\ Computed /\ Filed /\ Loaded
  BY <1>1, <1>2 DEF Kept, Computed, Filed, Loaded, Back, Draining, Replacing
<1>5. QED
  BY <1>3, <1>4 DEF VisitorInv, Visited

LEMMA VisitorStep == ASSUME IInv, DockerInv, VisitorInv, [Next]_vars PROVE VisitorInv'
<1>1. SUFFICES ASSUME Fair' PROVE Visited'
  BY DEF VisitorInv
<1>2. Typed
  BY Types DEF IInv
<1>3. Base
  BY <1>1, <1>2, FairBefore DEF Base, VisitorInv
<1>4. QED
  BY <1>3, VisitStep

LEMMA VisitorInvariant == Spec => [](IInv /\ DockerInv /\ VisitorInv)
<1>1. Init => VisitorInv
  BY VisitorInit
<1>2. IInv /\ DockerInv /\ VisitorInv /\ [Next]_vars => VisitorInv'
  BY VisitorStep
<1>3. QED
  BY <1>1, <1>2, DockerInvariant, PTL DEF Spec

-----------------------------------------------------------------------------
(* What a visitor gets. *)

\* Somebody who runs answers by an upstream.
Somebody(u) == \E n \in Names : ctr[n].run /\ u \in ctr[n].alias

LEMMA ReachedIs == (Reached # {} <=> Somebody(caddy.loaded)) /\ (Reached' # {} <=> Somebody(caddy.loaded)')
  BY DEF Reached, Somebody, Running

\* As long as visitors are served at all, each upstream that a reload may bring next
\* is served.
LEMMA Answerable ==
    ASSUME IInv, Visited, Somebody(caddy.loaded)
    PROVE  /\ Somebody("slug")
           /\ swapUpstream # NoAlias => Somebody(swapUpstream)
           /\ other # NoAlias => Somebody(other)
           /\ Somebody(caddy.file)
<1> USE DEF Running, Exists
<1>1. /\ ctr \in Machine /\ {"current", "next", "previous"} = Names /\ caddy.file # NoAlias
      /\ \A n \in Names : ctr[n].ver = 0 => ~ctr[n].run
  BY Types DEF Alias, NoAlias, Proxies, IInv, Typed, Names, Real, Sound
<1>2. InService /\ Apart /\ Kept /\ Computed /\ Filed
  BY DEF Visited
<1>3. Somebody("slug")
  <2>1. PICK n \in Names : ctr[n].run
    BY DEF Somebody
  <2>2. CASE n \in {"current", "previous"}
    BY <1>1, <1>2, <2>1, <2>2 DEF Somebody, InService
  <2>3. CASE n = "next"
    BY <1>1, <1>2, <2>1, <2>3 DEF Somebody, InService, Apart, Moved, Draining
  <2>4. QED
    BY <1>1, <2>1, <2>2, <2>3
<1>4. \A u : NextBy(u) => Somebody(u)
  BY <1>1 DEF NextBy, Somebody
<1>5. swapUpstream # NoAlias => Somebody(swapUpstream)
  BY <1>2, <1>4 DEF Kept
<1>6. pc = "settle_back" /\ job.held # NoAlias => Somebody(job.held)
  BY <1>2, <1>4 DEF Kept
<1>7. other # NoAlias => Somebody(other)
  BY <1>2, <1>3, <1>5, <1>6 DEF Computed
<1>8. Somebody(caddy.file)
  BY <1>1, <1>2, <1>3, <1>5, <1>6 DEF Filed
<1>9. QED
  BY <1>3, <1>5, <1>7, <1>8

\* As long as only deploys are at work and docker does what it is told, no reload that
\* may come next cuts off the visitors that are served, whoever asked for it and
\* whenever its upstream was computed: applyProxyConfig never writes a map of the past.
THEOREM NextReloadServes == Spec => []UpstreamsAnswer
<1>1. IInv /\ VisitorInv => UpstreamsAnswer
  <2>1. SUFFICES ASSUME IInv, VisitorInv, Fair, Reached # {}
                 PROVE  \A u \in {"slug", UpstreamFor, other, caddy.file} \ {NoAlias} :
                            \E n \in Names : Running(n) /\ u \in ctr[n].alias
    BY DEF UpstreamsAnswer, Fair
  <2>2. Somebody(caddy.loaded)
    BY <2>1, ReachedIs
  <2>3. \A u \in {"slug", UpstreamFor, other, caddy.file} \ {NoAlias} : Somebody(u)
    BY <2>1, <2>2, Answerable DEF VisitorInv, UpstreamFor
  <2>4. QED
    BY <2>3 DEF Somebody, Running
<1>2. QED
  BY <1>1, VisitorInvariant, PTL

\* Nor does a reload cut them off when it comes.
LEMMA ReloadServes ==
    ASSUME Base, Somebody(caddy.loaded), UNCHANGED ctr,
           \/ \E l, m : \E u \in {UpstreamFor, "slug", swapUpstream} :
                  u # NoAlias /\ (Applies(l, u, m) \/ Refused(l, u, m))
           \/ OtherLoad \/ CaddyRestart \/ UNCHANGED caddy
    PROVE  Somebody(caddy.loaded)'
<1>1. caddy \in Proxies
  BY Grounds DEF Typed
<1>2. \A u : Somebody(u)' <=> Somebody(u)
  BY DEF Somebody
<1>3. caddy'.loaded \in {caddy.loaded, caddy.file, UpstreamFor, "slug", swapUpstream} \/ caddy'.loaded = other
  BY <1>1 DEF Applies, Accepts, Refused, Refuses, OtherLoad, CaddyRestart, Proxies
<1>4. Somebody(caddy'.loaded)
  BY <1>1, <1>3, Answerable DEF Base, UpstreamFor, Applies, Accepts, Refused, Refuses, OtherLoad, CaddyRestart, Proxies
<1>5. QED
  BY <1>4 DEF Somebody

\* A docker command that touches one container cuts off only those who were on it.
LEMMA CommandServes ==
    ASSUME Base, [Next]_vars, Somebody(caddy.loaded), ~Somebody(caddy.loaded)', caddy' = caddy
    PROVE  \/ pc \in {"rollback", "l_stop", "l_rm"}
           \/ pc \in {"drop_failed", "alias"} /\ caddy.loaded = job.alias
<1> USE DEF Running, Exists
<1>1. /\ Typed /\ ctr \in Machine /\ {"current", "next", "previous"} = Names /\ Absent.ver = 0 /\ ~Absent.run
      /\ \A n \in Names : ctr[n].ver = 0 => ~ctr[n].run
      /\ OnDuty /\ Cleared /\ Gone /\ Callers /\ Fair' /\ Answers'
      /\ InService /\ Apart /\ Loaded /\ Holds
      /\ pc \in OldRuns => ctr["current"].run
  <2>1. ~disk.stopped /\ Sides
    BY Grounds DEF OnDuty
  <2>2. pc \in OldRuns => ctr["current"].run
    BY <2>1 DEF Sides
  <2>3. QED
    BY <2>2, Grounds DEF Base, Visited, Answered, Always
<1>2. PICK n \in Names : ctr[n].run /\ caddy.loaded \in ctr[n].alias
  BY DEF Somebody
<1>3. /\ \A k \in Names : ~(ctr'[k].run /\ caddy.loaded \in ctr'[k].alias)
      /\ ctr' # ctr
  BY DEF Somebody
<1>4. CASE Settle
  <2>1. CASE SettleRemove
    <3>1. /\ pc \in {"settle_stop", "settle_leave", "settle_rm"}
          /\ ctr' \in {Stop("next"), Leave("next"), Remove("next")}
      BY <1>1, <2>1, Surely DEF SettleRemove, Does
    <3>2. ctr'["current"] = ctr["current"]
      BY <1>1, <3>1 DEF Stop, Leave, Remove, Machine
    <3>3. ctr["current"].run /\ ctr["current"].ver # 0 /\ caddy.loaded = "slug"
      BY <1>1, <3>1 DEF Holds, OnDuty, Loaded, Back
    <3>4. QED
      BY <1>1, <1>3, <3>2, <3>3 DEF InService
  <2>2. CASE SettleStopped
    BY <1>1, <2>2 DEF SettleStopped, OnDuty
  <2>3. QED
    BY <1>3, <1>4, <2>1, <2>2
       DEF Settle, SettleClean, SettlePromote, SettleCheck, SettleSync, SettleRelease, SettleBack, Applies, Refused
<1>5. CASE Direct
  <2>1. CASE DirectClear
    <3>1. \/ pc \in {"l_rm", "l_stop"}
          \/ pc = "l_rmprev" /\ ctr' = Remove("previous")
          \/ ctr' = Rename("current", "previous") /\ CanRename("current", "previous")
      BY <1>1, <1>3, <2>1, Surely DEF DirectClear, Does
    <3>2. CASE pc = "l_rmprev" /\ ctr' = Remove("previous")
      <4>1. n # "previous"
        BY <1>1, <1>2, <3>2 DEF InService
      <4>2. ctr'[n] = ctr[n]
        BY <1>1, <3>2, <4>1 DEF Remove, Machine
      <4>3. QED
        BY <1>2, <1>3, <4>2
    <3>3. CASE ctr' = Rename("current", "previous") /\ CanRename("current", "previous")
      <4>1. ctr'["previous"] = ctr["current"] /\ ctr'["next"] = ctr["next"] /\ ctr["previous"].ver = 0
        BY <1>1, <3>3 DEF Rename, CanRename, Machine
      <4>2. QED
        BY <1>1, <1>2, <1>3, <4>1
    <3>4. QED
      BY <3>1, <3>2, <3>3
  <2>2. CASE DirectRun
    <3>1. ctr' = Create("current", {"slug"}, TRUE) /\ ~Exists("current")
      BY <1>1, <1>3, <2>2, Surely DEF DirectRun, Does
    <3>2. n # "current"
      BY <1>1, <1>2, <3>1
    <3>3. ctr'[n] = ctr[n]
      BY <1>1, <3>1, <3>2 DEF Create, Machine
    <3>4. QED
      BY <1>2, <1>3, <3>3
  <2>3. QED
    BY <1>3, <1>5, <2>1, <2>2 DEF Direct, PlanDirect
<1>6. CASE DropLeftover \/ StartNext \/ DropFailed
  <2>1. \/ pc = "drop" /\ ctr' = Remove("next")
        \/ ~Exists("next") /\ ctr' = Create("next", {job.alias}, TRUE)
        \/ pc = "drop_failed" /\ ctr' = Remove("next")
    BY <1>1, <1>3, <1>6, Surely DEF DropLeftover, StartNext, DropFailed, Does
  <2>2. n # "next" => ctr'[n] = ctr[n]
    BY <1>1, <2>1 DEF Remove, Create, Machine
  <2>3. n = "next"
    BY <1>2, <1>3, <2>2
  <2>4. pc = "drop_failed"
    BY <1>1, <1>2, <2>1, <2>3 DEF Gone
  <2>5. QED
    BY <1>1, <1>2, <2>3, <2>4 DEF Apart
<1>7. CASE AliasNext
  <2>1. \/ pc = "alias" /\ ctr' = Leave("next")
        \/ pc = "alias_join" /\ ctr' = Join("next", job.joining)
    BY <1>1, <1>3, <1>7, Surely DEF AliasNext, Moves
  <2>2. n # "next" => ctr'[n] = ctr[n]
    BY <1>1, <2>1 DEF Leave, Join, Machine
  <2>3. n = "next"
    BY <1>2, <1>3, <2>2
  <2>4. QED
    BY <1>1, <1>2, <2>1, <2>3 DEF Apart
<1>8. CASE RemovePrevious \/ StopOld \/ RemoveOld
  <2>1. \/ pc = "rmprev" /\ ctr' = Remove("previous")
        \/ pc = "stopold" /\ ctr' = Stop("previous")
        \/ pc = "rmold" /\ ctr' = Remove("current")
    BY <1>1, <1>8, Surely DEF RemovePrevious, StopOld, RemoveOld, Does
  <2>2. ctr'["next"] = ctr["next"]
    BY <1>1, <2>1 DEF Remove, Stop, Machine
  <2>3. ctr["next"].run /\ caddy.loaded \in ctr["next"].alias
    BY <1>1, <2>1 DEF Apart, Loaded, Moved, Draining, Replacing
  <2>4. QED
    BY <1>1, <1>3, <2>2, <2>3
<1>9. CASE KeepOld \/ RenameNext
  <2>1. \/ CanRename("current", "previous") /\ ctr' = Rename("current", "previous")
        \/ CanRename("next", "current") /\ ctr' = Rename("next", "current")
    BY <1>1, <1>3, <1>9, Surely DEF KeepOld, RenameNext, Does
  <2>2. \E k \in Names : ctr'[k] = ctr[n]
    BY <1>1, <1>2, <2>1 DEF Rename, CanRename, Machine
  <2>3. QED
    BY <1>2, <1>3, <2>2
<1>10. CASE PromoteNext
  <2>1. pc \in {"promote", "promote_join"}
    BY <1>10 DEF PromoteNext, Does, Fails
  <2>2. pc = "promote" /\ "slug" \in ctr["next"].alias
    BY <1>1, <2>1 DEF OnDuty, Apart, Moved, Draining, Replacing
  <2>3. QED
    BY <1>1, <1>3, <1>10, <2>2, Surely DEF PromoteNext, Does
<1>11. CASE Undo
  <2>1. CASE AbortRemove
    <3>1. /\ pc \in {"ab_stop", "ab_leave", "ab_drop"}
          /\ ctr' \in {Stop("next"), Leave("next"), Remove("next")}
      BY <1>1, <2>1, Surely DEF AbortRemove, Does
    <3>2. ctr'["current"] = ctr["current"]
      BY <1>1, <3>1 DEF Stop, Leave, Remove, Machine
    <3>3. ctr["current"].run /\ ctr["current"].ver # 0 /\ caddy.loaded = "slug"
      BY <1>1, <3>1 DEF OldRuns, Loaded, Back
    <3>4. QED
      BY <1>1, <1>3, <3>2, <3>3 DEF InService
  <2>2. CASE Abort \/ AbortStart
    <3>1. pc \in {"abort", "ab_start"}
      BY <2>2, Surely DEF Abort, AbortStart, Renames, Tries, Does, Fails
    <3>2. pc = "abort" /\ ~job.renamed
      BY <1>1, <3>1, Grounds DEF OnDuty, Answered, Abandoned
    <3>3. QED
      BY <1>1, <1>3, <2>2, <3>2, Surely DEF Abort, AbortStart, Tries, Does
  <2>3. QED
    BY <1>3, <1>11, <2>1, <2>2 DEF Undo, AbortCheck, AbortRepoint, Applies, Refused
<1>12. CASE Ending
  <2>1. CASE Finish
    <3>1. pc = "finish" /\ ctr' = Remove("previous")
      BY <1>1, <1>3, <2>1, Surely DEF Finish, Does
    <3>2. n # "previous"
      BY <1>1, <1>2, <3>1 DEF InService
    <3>3. ctr'[n] = ctr[n]
      BY <1>1, <3>1, <3>2 DEF Remove, Machine
    <3>4. QED
      BY <1>2, <1>3, <3>3
  <2>2. CASE Rollback
    <3>1. \/ pc = "rollback"
          \/ CanRename("previous", "current") /\ ctr' = Rename("previous", "current")
          \/ ctr' = Begin("current")
      BY <1>1, <1>3, <2>2, Surely DEF Rollback, Does
    <3>2. CASE CanRename("previous", "current") /\ ctr' = Rename("previous", "current")
      <4>1. \E k \in Names : ctr'[k] = ctr[n]
        BY <1>1, <1>2, <3>2 DEF Rename, CanRename, Machine
      <4>2. QED
        BY <1>2, <1>3, <4>1
    <3>3. CASE ctr' = Begin("current")
      <4>1. ctr'[n].alias = ctr[n].alias /\ ctr'[n].run
        BY <1>1, <1>2, <3>3 DEF Begin, Machine, Container
      <4>2. QED
        BY <1>2, <1>3, <4>1
    <3>4. QED
      BY <3>1, <3>2, <3>3
  <2>3. QED
    BY <1>3, <1>12, <2>1, <2>2
       DEF Ending, Proxy, Healthy, Unhealthy, Does, Succeed, Fail, Save, Saves, Applies, Refused
<1>13. CASE PersonStart
  <2>1. ctr'[n].alias = ctr[n].alias /\ ctr'[n].run
    BY <1>1, <1>2, <1>13 DEF PersonStart, Begin, Machine, Container
  <2>2. QED
    BY <1>2, <1>3, <2>1
<1>14. ~Recover
  <2>1. ~RecoverCurrent /\ ~RecoverAlias /\ ~RecoverDown /\ ~RecoverNext /\ ~RecoverPromote
    BY <1>1 DEF OnDuty, RecoverCurrent, RecoverAlias, RecoverDown, RecoverNext, RecoverPromote, Tries, Renames,
            Does, Fails
  <2>2. pc \notin BootSteps
    BY <1>1 DEF Callers, OnDuty
  <2>3. ~BootMain /\ ~BootSave /\ ~BootSync
    BY <2>2 DEF BootSteps, BootMain, BootSave, BootSync, Saves, Applies, Refused, Tries, Renames, Does, Fails
  <2>4. QED
    BY <2>1, <2>3 DEF Recover
<1>15. QED
  <2>1. ~(Notice \/ BuildFails \/ PlanSwap \/ NextReady \/ NextUnhealthy \/ Repoint \/ Reprobe
          \/ StartDeploy \/ OtherCompute \/ OtherLoad \/ CaddyRestart \/ UNCHANGED vars)
    BY <1>3 DEF Notice, BuildFails, PlanSwap, NextReady, NextUnhealthy, Repoint, Reprobe, Does, Applies, Refused,
            StartDeploy, OtherCompute, OtherLoad, CaddyRestart, vars
  <2>2. ~Crash /\ ~Boot /\ ~AskStop /\ ~Stopped
    BY <1>1, NobodyElse
  <2>3. QED
    BY <1>4, <1>5, <1>6, <1>7, <1>8, <1>9, <1>10, <1>11, <1>12, <1>13, <1>14, <2>1, <2>2 DEF Next, Panel, Swap

\* One step that leaves visitors with nobody.
LEMMA OutageStep ==
    ASSUME Base, [Next]_vars, Somebody(caddy.loaded), ~Somebody(caddy.loaded)'
    PROVE  \/ pc \in {"rollback", "l_stop", "l_rm"}
           \/ pc \in {"drop_failed", "alias"} /\ caddy.loaded = job.alias
<1>1. Typed /\ OnDuty /\ Callers /\ Fair' /\ Answers' /\ Kept /\ Apart
  BY Grounds DEF Base, Visited
<1>2. SUFFICES ASSUME caddy' # caddy PROVE FALSE
  BY CommandServes
<1>3. \/ SettleBack \/ SettleSync \/ Notice \/ Repoint \/ AbortRepoint \/ Proxy \/ Succeed \/ Fail \/ BootSync
      \/ OtherLoad \/ CaddyRestart
  <2>1. ~Crash /\ ~Boot /\ ~AskStop /\ ~Stopped
    BY <1>1, NobodyElse
  <2>2. Panel \/ OtherLoad \/ CaddyRestart
    BY <1>2, <2>1 DEF Next, vars, StartDeploy, PersonStart, OtherCompute
  <2>3. CASE Settle
    BY <1>2, <2>3 DEF Settle, SettleClean, SettleStopped, SettlePromote, SettleCheck, SettleRelease, SettleRemove,
              Tries, Does, Fails
  <2>4. CASE Direct \/ BuildFails \/ Recover
    BY <1>2, <2>4 DEF Direct, PlanDirect, DirectClear, DirectRun, RunsInto, BuildFails, Recover, RecoverCurrent,
              RecoverAlias, RecoverDown, RecoverNext, RecoverPromote, BootMain, BootSave, Saves, Renames,
              Tries, Does, Fails
  <2>5. CASE Swap
    BY <1>2, <2>5 DEF Swap, PlanSwap, DropLeftover, StartNext, RunsInto, NextReady, NextUnhealthy, DropFailed,
              AliasNext, Moves, Reprobe, RemovePrevious, KeepOld, StopOld, RemoveOld, PromoteNext, RenameNext,
              Tries, Does, Fails
  <2>6. CASE Undo
    BY <1>2, <2>6 DEF Undo, Abort, AbortStart, AbortCheck, AbortRemove, Renames, Tries, Does, Fails
  <2>7. CASE Ending
    BY <1>2, <2>7 DEF Ending, Healthy, Unhealthy, Finish, Rollback, Save, Saves, Renames, Tries, Does, Fails
  <2>8. QED
    BY <2>2, <2>3, <2>4, <2>5, <2>6, <2>7 DEF Panel
<1>4. ctr' = ctr
  BY <1>2, <1>3 DEF SettleBack, SettleSync, Notice, Repoint, AbortRepoint, Proxy, Succeed, Fail, BootSync,
            OtherLoad, CaddyRestart, Applies, Refused
<1>5. pc = "repoint" => swapUpstream = job.alias /\ job.alias # NoAlias
  <2>1. pc = "repoint" => swapUpstream = job.alias /\ job.alias \in ctr["next"].alias
    BY <1>1 DEF Apart, Moved
  <2>2. ctr["next"].alias \subseteq Alias
    BY <1>1 DEF Typed, Machine, Names, Container
  <2>3. QED
    BY <2>1, <2>2 DEF Alias, NoAlias
<1>6. UpstreamFor # NoAlias /\ "slug" # NoAlias
  BY DEF UpstreamFor, NoAlias
<1>7. \/ \E l, m : \E u \in {UpstreamFor, "slug", swapUpstream} :
              u # NoAlias /\ (Applies(l, u, m) \/ Refused(l, u, m))
      \/ OtherLoad \/ CaddyRestart
  <2>1. CASE Repoint
    <3>1. pc = "repoint"
      BY <2>1 DEF Repoint, Applies, Refused
    <3>2. Applies("repoint", swapUpstream, "reprobe") \/ Refused("repoint", swapUpstream, "abort")
      BY <1>5, <2>1, <3>1 DEF Repoint
    <3>3. QED
      BY <1>5, <3>1, <3>2
  <2>2. CASE SettleBack \/ SettleSync \/ Notice \/ Succeed \/ Fail \/ BootSync
    <3>1. \E l, m : Applies(l, UpstreamFor, m) \/ Refused(l, UpstreamFor, m)
      BY <1>2, <2>2 DEF SettleBack, SettleSync, Notice, Succeed, Fail, BootSync
    <3>2. QED
      BY <1>6, <3>1
  <2>3. CASE AbortRepoint \/ Proxy
    <3>1. \E l, m : Applies(l, "slug", m) \/ Refused(l, "slug", m)
      BY <2>3 DEF AbortRepoint, Proxy
    <3>2. QED
      BY <1>6, <3>1
  <2>4. QED
    BY <1>3, <2>1, <2>2, <2>3
<1>8. QED
  BY <1>4, <1>7, ReloadServes

\* While only deploys are at work, a published project that answers goes on
\* answering at every step, whatever reload is refused, whoever else asks for one and
\* whenever Caddy restarts: who leaves it without an answer is rollbackNodeServer, a
\* deploy without a swap, which takes the old version down first, or the new version
\* of a swap that has the visitors already, because the proxy was left on its alias
\* by reloads refused in a row and pickNextAlias found that alias free.
THEOREM OnlyRollbackCutsOff == Spec => OutageOnlyByRollback
<1>1. IInv /\ DockerInv /\ VisitorInv /\ [Next]_vars
        => [Online /\ Online' /\ Reached # {} /\ Reached' = {} /\ Without({"faults", "crashes", "stops"})'
              => \/ pc \in {"rollback", "l_stop", "l_rm"}
                 \/ pc \in {"drop_failed", "alias"} /\ caddy.loaded = job.alias]_vars
  <2>1. SUFFICES ASSUME IInv, DockerInv, VisitorInv, [Next]_vars, Reached # {}, Reached' = {}, Fair'
                 PROVE  \/ pc \in {"rollback", "l_stop", "l_rm"}
                        \/ pc \in {"drop_failed", "alias"} /\ caddy.loaded = job.alias
    BY DEF Fair, Without
  <2>2. Typed
    BY <2>1, Types DEF IInv
  <2>3. Base
    BY <2>1, <2>2, FairBefore DEF Base, VisitorInv
  <2>4. QED
    BY <2>1, <2>3, ReachedIs, OutageStep
<1>2. QED
  BY <1>1, VisitorInvariant, PTL DEF Spec, OutageOnlyByRollback

-----------------------------------------------------------------------------
(* A static site, which keeps no previous version, and at most one crash of the panel:
   nobody else is there to answer when the current version is gone. *)

Site == Without({"faults", "refusals", "stops"}) /\ troubles["crashes"] <= 1 /\ ~HasPrevious

\* Where the boot goes on with the deploy it found interrupted, where a deploy swaps,
\* since when the new version has the alias of the project, and where no such
\* deploy gets.
Resumed   == {"recover", "recover_alias", "recover_next", "recover_stop", "promote", "rename", "boot_main",
              "bootsave", "bootsync"}
Taking    == {"repoint", "reprobe", "rmold", "promote", "rename", "abort", "ab_check", "ab_repoint"}
Swapping  == {"drop", "run", "wait", "drop_failed", "alias", "alias_join", "ab_stop", "ab_leave", "ab_drop"}
             \cup Taking
Elsewhere == {"settle_check", "settle_sync", "settle_back", "settle_stop", "settle_leave", "settle_rm",
              "rmprev", "keepold", "stopold", "promote_join", "ab_start", "l_rmprev", "l_rename", "l_stop",
              "rollback", "rb_rename", "rb_start", "recover_join", "recover_keep", "recover_rename",
              "boot_rename", "boot_rm", "boot_rename2"}

\* A deploy cut short by a crash, the recovery of one, and a swap under way.
Interrupted == pc = "down" /\ disk.status = "running"
Resuming    == job.caller = "boot" /\ pc \in Resumed
InSwap      == job.caller = "deploy" /\ pc \in Swapping
Pointing    == job.caller = "deploy" /\ pc \in Taking

\* The job that crashed was the first to: who is at work, and since when.
AtWork ==
    /\ stopping = {} /\ ~disk.stopped /\ pc \notin Elsewhere
    /\ troubles["crashes"] = 0 => job.caller = "deploy" /\ pc # "down"
    /\ job.caller = "deploy" => pc \notin Resumed \ {"promote", "rename"}
    /\ job.caller = "deploy" /\ pc \in {"promote", "rename"} => job.ret = "swap"
    /\ job.caller = "bootsettle" => pc \in {"idle", "settle"}
    /\ job.caller = "boot" => pc = "idle" \/ (pc \in Resumed /\ job.ret = "recover")

\* The current version answers, but for the moment in which the new one, which answers
\* already, is alone.
LeftTo(points) == Interrupted \/ (Resuming /\ pc \in points)
InPlace ==
    /\ ~Exists("previous")
    /\ Exists("current") => Running("current") /\ "slug" \in ctr["current"].alias
    /\ disk.published # 0 => Exists("current") \/ Running("next")
    /\ Running("next") =>
           InSwap \/ LeftTo({"recover", "recover_next", "recover_stop", "promote", "rename"})
    /\ Running("next") /\ ~Exists("current") =>
           /\ "slug" \in ctr["next"].alias
           /\ pc \in {"promote", "rename"} \/ LeftTo({"recover", "recover_next", "recover_stop"})
    /\ Pointing => Running("next") /\ "slug" \in ctr["next"].alias /\ job.moved
    /\ pc \in {"promote", "rename"} => ~Exists("current") /\ Running("next")
    /\ pc = "recover_alias" => Exists("current")
    /\ pc \in {"l_rm", "l_run"} => ~Exists("current")
    /\ pc = "alias_join" => job.joining = {"slug", job.alias}

\* The proxy is on the alias of the project, but while it is moved, or while a
\* recovery has not written it again.
Told ==
    /\ caddy.file = caddy.loaded
    /\ swapUpstream # NoAlias => Pointing
    /\ ~Pointing /\ pc # "proxy" =>
           /\ other \in {NoAlias, "slug"}
           /\ ~Interrupted /\ ~Resuming => caddy.loaded = "slug"

Attended == AtWork /\ InPlace /\ Told
SiteInv == Site => Attended

-----------------------------------------------------------------------------
(* This is inductive too. *)

LEMMA SpentBefore ==
    ASSUME Typed, [Next]_vars, NEW w \in AllTroubles
    PROVE  /\ troubles[w] \in Nat /\ troubles'[w] \in Nat /\ troubles[w] <= troubles'[w]
           /\ Spend(w) => troubles'[w] = troubles[w] + 1
<1>1. troubles' = troubles \/ \E what \in AllTroubles : Spend(what)
  <2>1. {"faults", "refusals", "crashes", "stops", "reboots"} = AllTroubles
    BY DEF AllTroubles
  <2>2. QED
    BY <2>1, PanelSpends DEF Next, StartDeploy, Crash, Boot, AskStop, Stopped, PersonStart, OtherCompute,
       OtherLoad, CaddyRestart, vars
<1>2. troubles \in Counts
  BY DEF Typed
<1>3. ASSUME NEW what \in AllTroubles, Spend(what)
      PROVE  troubles'[w] = IF w = what THEN troubles[w] + 1 ELSE troubles[w]
  BY <1>2, <1>3 DEF Spend, Counts
<1>4. troubles[w] \in Nat
  BY <1>2 DEF Counts
<1>5. QED
  BY <1>1, <1>3, <1>4

\* A project keeps its kind.
LEMMA KindStays == ASSUME Typed, [Next]_vars PROVE disk'.kind = disk.kind
<1>1. disk \in Disks
  BY DEF Typed
<1>2. CASE Panel
  <2>1. Save \/ BootSave \/ disk' = disk
    BY <1>2 DEF Panel, Notice, BuildFails, Applies, Refused, Does, Fails, Tries, Renames, RunsInto,
       Settle, SettleClean, SettleStopped, SettlePromote, SettleCheck, SettleSync, SettleRelease, SettleBack,
       SettleRemove, Direct, PlanDirect, DirectClear, DirectRun,
       Swap, PlanSwap, DropLeftover, StartNext, NextReady, NextUnhealthy, DropFailed, AliasNext, Moves, Repoint,
       Reprobe, RemovePrevious, KeepOld, StopOld, RemoveOld, PromoteNext, RenameNext,
       Undo, Abort, AbortStart, AbortCheck, AbortRepoint, AbortRemove,
       Ending, Proxy, Healthy, Unhealthy, Finish, Rollback, Succeed, Fail,
       Recover, RecoverCurrent, RecoverAlias, RecoverDown, RecoverNext, RecoverPromote, BootMain, BootSync
  <2>2. QED
    BY <1>1, <2>1 DEF Save, BootSave, Saves, Disks
<1>3. CASE StartDeploy \/ Stopped \/ PersonStart
  BY <1>1, <1>3 DEF StartDeploy, Stopped, PersonStart, Disks
<1>4. CASE Crash \/ Boot \/ AskStop \/ OtherCompute \/ OtherLoad \/ CaddyRestart \/ UNCHANGED vars
  BY <1>4 DEF Crash, Boot, AskStop, OtherCompute, OtherLoad, CaddyRestart, vars
<1>5. QED
  BY <1>2, <1>3, <1>4 DEF Next

LEMMA SiteBefore == ASSUME Typed, [Next]_vars, Site' PROVE Site /\ Answers'
<1>1. {"faults", "refusals", "crashes", "stops"} \subseteq AllTroubles
  BY DEF AllTroubles
<1>2. /\ \A w \in {"faults", "refusals", "stops"} : troubles'[w] = 0
      /\ troubles'["crashes"] <= 1 /\ disk'.kind = "static"
  BY DEF Site, Without, HasPrevious, Kind
<1>3. \A w \in {"faults", "refusals", "stops"} : troubles[w] = 0
  BY <1>1, <1>2, SpentOnce
<1>4. troubles["crashes"] <= 1
  BY <1>1, <1>2, SpentBefore
<1>5. QED
  BY <1>2, <1>3, <1>4, KindStays DEF Site, Without, HasPrevious, Kind, Answers

\* What every step there may rely on.
SiteBase == IInv /\ DockerInv /\ Attended /\ Site /\ Site' /\ Answers' /\ [Next]_vars
LEMMA SiteGrounds ==
    ASSUME SiteBase
    PROVE  /\ Typed /\ ctr \in Machine /\ job \in Jobs /\ caddy \in Proxies /\ disk \in Disks
           /\ {"current", "next", "previous"} = Names
           /\ Absent.ver = 0 /\ ~Absent.run
           /\ \A n \in Names : ctr[n].ver = 0 => ~ctr[n].run
           /\ Always /\ Answered /\ Sides /\ Callers /\ Answers'
           /\ AtWork /\ InPlace /\ Told
           /\ Kind = "static" /\ ~HasPrevious /\ "slug" # NoAlias
  BY Types DEF NoAlias, SiteBase, IInv, DockerInv, Typed, Names, Absent, Real, Sound, Attended, Site, Without,
     Answers, HasPrevious

\* What happens there to a reload, a crash or a stop.
LEMMA SiteSurely ==
    ASSUME SiteBase
    PROVE  /\ ~Spend("refusals") /\ ~Spend("stops") /\ (\A l, u, m : ~Refused(l, u, m))
           /\ Spend("crashes") => troubles["crashes"] = 0 /\ troubles'["crashes"] # 0
           /\ troubles'["crashes"] = 0 => troubles["crashes"] = 0
<1>1. Typed /\ {"refusals", "crashes", "stops"} \subseteq AllTroubles
  BY SiteGrounds DEF AllTroubles
<1>2. troubles'["refusals"] = 0 /\ troubles'["stops"] = 0 /\ troubles'["crashes"] <= 1
  BY DEF SiteBase, Site, Without
<1>3. ~Spend("refusals") /\ ~Spend("stops")
  BY <1>1, <1>2, SpentBefore DEF SiteBase
<1>4. Spend("crashes") => troubles["crashes"] = 0 /\ troubles'["crashes"] # 0
  BY <1>1, <1>2, SpentBefore DEF SiteBase
<1>5. troubles'["crashes"] = 0 => troubles["crashes"] = 0
  BY <1>1, SpentOnce DEF SiteBase
<1>6. QED
  BY <1>3, <1>4, <1>5 DEF Refused, Refuses

LEMMA SiteSettle == ASSUME SiteBase, Settle PROVE Attended'
<1> USE DEF Attended, AtWork, InPlace, Told, Resumed, Taking, Swapping, Elsewhere, Interrupted, Resuming, InSwap,
        Pointing, LeftTo, Running, Exists
<1>1. Attended /\ Typed /\ Callers /\ Answers' /\ {"current", "next", "previous"} = Names /\ job.caller \in {"deploy", "bootsettle", "boot"}
  BY SiteGrounds DEF Jobs
<1>2. pc = "settle" /\ job.caller # "boot"
  BY <1>1, SettleAt DEF SettleSteps, Callers
<1>3. ~Running("next")
  BY <1>1, <1>2
<1>4. SettleClean
  BY <1>1, <1>2, <1>3, Surely DEF Settle, SettleStopped, SettlePromote, SettleCheck, SettleSync, SettleRelease,
     SettleBack, SettleRemove, Applies, Refused, Does, SeesNotRunning
<1>5. /\ pc' = IF job.caller = "bootsettle" THEN "idle" ELSE "notice"
      /\ UNCHANGED <<ctr, caddy, other, swapUpstream, job, disk, stopping>>
  BY <1>1, <1>2, <1>4 DEF SettleClean, AfterSettle
<1>6. troubles'["crashes"] = 0 => troubles["crashes"] = 0
  BY SiteSurely
<1>7. QED
  BY <1>1, <1>2, <1>5, <1>6

LEMMA SiteDirect == ASSUME SiteBase, SwapSetting = {TRUE}, Direct PROVE Attended'
<1> USE DEF Attended, AtWork, InPlace, Told, Resumed, Taking, Swapping, Elsewhere, Interrupted, Resuming, InSwap,
        Pointing, LeftTo, Running, Exists
<1>1. /\ Attended /\ Typed /\ Callers /\ Answers' /\ {"current", "next", "previous"} = Names
      /\ ctr \in Machine /\ Kind = "static" /\ Absent.ver = 0 /\ ~Absent.run
  BY SiteGrounds
<1>2. pc \in {"plan", "l_rm", "l_run"} /\ job.caller = "deploy"
  BY <1>1, DirectAt DEF Callers, DeploySteps
<1>3. troubles'["crashes"] = 0 => troubles["crashes"] = 0
  BY SiteSurely
<1>4. CASE PlanDirect
  <2>1. /\ pc = "plan" /\ pc' = "l_rm" /\ ~Running("current")
        /\ UNCHANGED <<ctr, caddy, other, swapUpstream, job, disk, stopping>>
    BY <1>1, <1>4, Surely DEF PlanDirect
  <2>2. QED
    BY <1>1, <1>2, <1>3, <2>1
<1>5. CASE DirectClear
  <2>1. /\ pc = "l_rm" /\ pc' = "l_run" /\ ctr' = Remove("current")
        /\ UNCHANGED <<caddy, other, swapUpstream, job, disk, stopping>>
    BY <1>1, <1>2, <1>5, Surely DEF DirectClear, Does
  <2>2. ctr'["current"] = Absent /\ ctr'["next"] = ctr["next"] /\ ctr'["previous"] = ctr["previous"]
    BY <1>1, <2>1 DEF Remove, Machine
  <2>3. QED
    BY <1>1, <1>2, <1>3, <2>1, <2>2
<1>6. CASE DirectRun
  <2>1. pc = "l_run"
    BY <1>6 DEF DirectRun, RunsInto, Does, Fails
  <2>2. /\ pc' = "proxy" /\ ctr' = Create("current", {"slug"}, TRUE)
        /\ UNCHANGED <<caddy, other, swapUpstream, job, disk, stopping>>
    BY <1>1, <1>6, <2>1, Surely DEF DirectRun, Does
  <2>3. /\ ctr'["current"].alias = {"slug"} /\ ctr'["current"].run
        /\ ctr'["next"] = ctr["next"] /\ ctr'["previous"] = ctr["previous"]
    BY <1>1, <2>2 DEF Create, Machine
  <2>4. ~ctr["next"].run
    BY <1>1, <1>2, <2>1
  <2>5. QED
    BY <1>1, <1>2, <1>3, <2>1, <2>2, <2>3, <2>4
<1>7. QED
  BY <1>4, <1>5, <1>6 DEF Direct

LEMMA SiteBegin ==
    ASSUME SiteBase, PlanSwap \/ DropLeftover \/ StartNext \/ NextReady \/ NextUnhealthy \/ DropFailed \/ AliasNext
    PROVE  Attended'
<1> USE DEF Attended, AtWork, InPlace, Told, Resumed, Taking, Swapping, Elsewhere, Interrupted, Resuming, InSwap,
        Pointing, LeftTo, Running, Exists
<1>1. /\ Attended /\ Typed /\ Callers /\ Answers' /\ {"current", "next", "previous"} = Names
      /\ ctr \in Machine /\ job \in Jobs /\ Kind = "static" /\ Absent.ver = 0 /\ ~Absent.run
      /\ \A n \in Names : ctr[n].ver = 0 => ~ctr[n].run
  BY SiteGrounds
<1>2. /\ pc \in {"plan", "drop", "run", "wait", "drop_failed", "alias", "alias_join"}
      /\ job.caller = "deploy"
  <2>1. pc \in {"plan", "drop", "run", "wait", "drop_failed", "alias", "alias_join"}
    BY DEF PlanSwap, DropLeftover, StartNext, NextReady, NextUnhealthy, DropFailed, AliasNext, Tries, RunsInto,
       Does, Fails
  <2>2. QED
    BY <1>1, <2>1 DEF Callers, DeploySteps
<1>3. troubles'["crashes"] = 0 => troubles["crashes"] = 0
  BY SiteSurely
<1>4. pc \in OldRuns => ctr["current"].run /\ ctr["current"].ver # 0
  BY <1>1, SiteGrounds DEF Sides
<1>5. pc \in NewRuns => ctr["next"].run /\ ctr["next"].ver # 0
  BY <1>1, SiteGrounds DEF Sides
<1>6. CASE PlanSwap
  <2>1. /\ pc = "plan" /\ pc' = "drop" /\ swapUpstream' = NoAlias /\ UNCHANGED <<ctr, caddy, other, disk, stopping>>
        /\ job'.caller = job.caller
    BY <1>1, <1>6, Surely DEF PlanSwap, Jobs
  <2>2. QED
    BY <1>1, <1>2, <1>3, <2>1
<1>7. CASE DropLeftover \/ DropFailed
  <2>1. /\ \/ pc = "drop" /\ pc' = "run"
           \/ pc = "drop_failed" /\ pc' = "fail"
        /\ ctr' = Remove("next")
        /\ UNCHANGED <<caddy, other, swapUpstream, job, disk, stopping>>
    BY <1>1, <1>7, Surely DEF DropLeftover, DropFailed, Does
  <2>2. ctr'["next"] = Absent /\ ctr'["current"] = ctr["current"] /\ ctr'["previous"] = ctr["previous"]
    BY <1>1, <2>1 DEF Remove, Machine
  <2>3. ctr["current"].ver # 0
    BY <1>4, <2>1 DEF OldRuns
  <2>4. QED
    BY <1>1, <1>2, <1>3, <2>1, <2>2, <2>3
<1>8. CASE StartNext
  <2>1. /\ pc = "run" /\ pc' \in {"wait", "drop_failed"} /\ ctr' \in {ctr, Create("next", {job.alias}, TRUE)}
        /\ UNCHANGED <<caddy, other, swapUpstream, job, disk, stopping>>
    <3>1. \/ Does("run", "wait", Create("next", {job.alias}, TRUE))
          \/ Does("run", "drop_failed", ctr)
      BY <1>1, <1>8, Surely DEF StartNext
    <3>2. QED
      BY <3>1 DEF Does
  <2>2. ctr'["current"] = ctr["current"] /\ ctr'["previous"] = ctr["previous"]
    BY <1>1, <2>1 DEF Create, Machine
  <2>3. ctr["current"].ver # 0
    BY <1>4, <2>1 DEF OldRuns
  <2>4. QED
    BY <1>1, <1>2, <1>3, <2>1, <2>2, <2>3
<1>9. CASE NextReady \/ NextUnhealthy
  <2>1. /\ pc = "wait" /\ pc' \in {"alias", "drop_failed"}
        /\ UNCHANGED <<ctr, caddy, other, swapUpstream, job, disk, stopping>>
    BY <1>9 DEF NextReady, NextUnhealthy
  <2>2. QED
    BY <1>1, <1>2, <1>3, <2>1
<1>10. CASE AliasNext /\ pc = "alias"
  <2>1. /\ pc' = "alias_join" /\ ctr' = Leave("next") /\ job' = [job EXCEPT !.joining = {"slug", job.alias}]
        /\ UNCHANGED <<caddy, other, swapUpstream, disk, stopping>>
    BY <1>1, <1>10, Surely DEF AliasNext, Does
  <2>2. ctr'["current"] = ctr["current"] /\ ctr'["previous"] = ctr["previous"] /\ ctr'["next"].run = ctr["next"].run
    BY <1>1, <2>1 DEF Leave, Machine, Container
  <2>3. job'.joining = {"slug", job'.alias} /\ job'.caller = job.caller
    BY <1>1, <2>1 DEF Jobs
  <2>4. ctr["current"].ver # 0
    BY <1>4, <1>10 DEF OldRuns
  <2>5. QED
    BY <1>1, <1>2, <1>3, <1>10, <2>1, <2>2, <2>3, <2>4
<1>11. CASE AliasNext /\ pc # "alias"
  <2>1. /\ pc = "alias_join" /\ pc' = "repoint" /\ ctr' = Join("next", job.joining)
        /\ job' = [job EXCEPT !.moved = TRUE]
        /\ UNCHANGED <<caddy, other, disk, stopping>>
    BY <1>1, <1>11, Surely DEF AliasNext, Moves
  <2>2. ctr["next"].run /\ ctr["next"].ver # 0 /\ ctr["current"].ver # 0
    BY <1>4, <1>5, <2>1 DEF OldRuns, NewRuns
  <2>3. /\ ctr'["next"].run /\ "slug" \in ctr'["next"].alias
        /\ ctr'["current"] = ctr["current"] /\ ctr'["previous"] = ctr["previous"]
    BY <1>1, <2>1, <2>2 DEF Join, Machine, Container
  <2>4. job'.moved /\ job'.caller = job.caller
    BY <1>1, <2>1 DEF Jobs
  <2>5. QED
    BY <1>1, <1>2, <1>3, <2>1, <2>2, <2>3, <2>4
<1>12. QED
  BY <1>6, <1>7, <1>8, <1>9, <1>10, <1>11

LEMMA SiteTake ==
    ASSUME SiteBase,
           Repoint \/ Reprobe \/ RemovePrevious \/ KeepOld \/ StopOld \/ RemoveOld \/ PromoteNext \/ RenameNext
    PROVE  Attended'
<1> USE DEF Attended, AtWork, InPlace, Told, Resumed, Taking, Swapping, Elsewhere, Interrupted, Resuming, InSwap,
        Pointing, LeftTo, Running, Exists
<1>1. /\ Attended /\ Typed /\ Callers /\ Answers' /\ {"current", "next", "previous"} = Names
      /\ ctr \in Machine /\ job \in Jobs /\ caddy \in Proxies /\ ~HasPrevious /\ Absent.ver = 0 /\ ~Absent.run
      /\ \A n \in Names : ctr[n].ver = 0 => ~ctr[n].run
      /\ Always /\ "slug" # NoAlias
  BY SiteGrounds
<1>2. troubles'["crashes"] = 0 => troubles["crashes"] = 0
  BY SiteSurely
<1>3. ~(RemovePrevious \/ KeepOld \/ StopOld)
  BY <1>1 DEF RemovePrevious, KeepOld, StopOld, Tries, Does, Fails
<1>4. CASE Repoint
  <2>1. /\ pc = "repoint" /\ pc' = "reprobe" /\ caddy'.loaded = caddy'.file /\ other' = NoAlias
        /\ UNCHANGED <<ctr, swapUpstream, job, disk, stopping>>
    BY <1>4, SiteSurely DEF Repoint, Applies, Accepts
  <2>2. job.caller = "deploy"
    BY <1>1, <2>1 DEF Callers, DeploySteps
  <2>3. QED
    BY <1>1, <1>2, <2>1, <2>2
<1>5. CASE Reprobe
  <2>1. /\ pc = "reprobe" /\ pc' \in {"rmold", "abort"}
        /\ UNCHANGED <<ctr, caddy, other, swapUpstream, job, disk, stopping>>
    BY <1>1, <1>5 DEF Reprobe, Does
  <2>2. job.caller = "deploy"
    BY <1>1, <2>1 DEF Callers, DeploySteps
  <2>3. QED
    BY <1>1, <1>2, <2>1, <2>2
<1>6. CASE RemoveOld
  <2>1. /\ pc = "rmold" /\ pc' = "promote" /\ ctr' = Remove("current") /\ job' = [job EXCEPT !.removedOld = TRUE]
        /\ UNCHANGED <<caddy, other, swapUpstream, disk, stopping>>
    BY <1>1, <1>6, Surely DEF RemoveOld
  <2>2. ctr'["current"] = Absent /\ ctr'["previous"] = ctr["previous"] /\ ctr'["next"] = ctr["next"]
    BY <1>1, <2>1 DEF Remove, Machine
  <2>3. job.caller = "deploy"
    BY <1>1, <2>1 DEF Callers, DeploySteps
  <2>4. job'.caller = job.caller /\ job'.moved = job.moved /\ job'.ret = "swap"
    BY <1>1, <2>1 DEF Jobs, Always, Returns, SwapBegun
  <2>5. QED
    BY <1>1, <1>2, <2>1, <2>2, <2>3, <2>4
<1>7. CASE PromoteNext
  <2>1. pc \in {"promote", "promote_join"}
    BY <1>7 DEF PromoteNext, Does, Fails
  <2>2. pc = "promote" /\ "slug" \in ctr["next"].alias
    BY <1>1, <2>1
  <2>3. pc' = "rename" /\ UNCHANGED <<ctr, caddy, other, swapUpstream, job, disk, stopping>>
    BY <1>1, <1>7, <2>2, Surely DEF PromoteNext, Does
  <2>4. QED
    BY <1>1, <1>2, <2>2, <2>3
<1>8. CASE RenameNext
  <2>1. pc = "rename"
    BY <1>8 DEF RenameNext, Does, Fails
  <2>2. /\ CanRename("next", "current") /\ "slug" \in ctr["next"].alias /\ ctr["next"].run
        /\ ctr["next"].ver # 0
    BY <1>1, <2>1 DEF CanRename
  <2>3. /\ ctr' = Rename("next", "current") /\ job' = [job EXCEPT !.swapped = (job.ret = "swap")]
        /\ job.ret = "swap" => pc' = "proxy" /\ swapUpstream' = NoAlias
        /\ job.ret = "recover" /\ job.caller = "boot" => pc' = "bootsave" /\ swapUpstream' = swapUpstream
        /\ UNCHANGED <<caddy, other, disk, stopping>>
    BY <1>1, <1>8, <2>1, <2>2, Surely DEF RenameNext, Does
  <2>4. ctr'["next"] = Absent /\ ctr'["current"] = ctr["next"] /\ ctr'["previous"] = ctr["previous"]
    BY <1>1, <2>3 DEF Rename, Machine
  <2>5. job'.caller = job.caller /\ job'.ret = job.ret
    BY <1>1, <2>3 DEF Jobs
  <2>6. CASE job.ret = "swap"
    <3>1. job.caller = "deploy"
      BY <1>1, <2>1, <2>6 DEF Jobs
    <3>2. pc' = "proxy" /\ swapUpstream' = NoAlias
      BY <2>3, <2>6
    <3>3. QED
      BY <1>1, <1>2, <2>2, <2>3, <2>4, <2>5, <3>1, <3>2
  <2>7. CASE job.ret # "swap"
    <3>1. job.caller = "boot" /\ job.ret = "recover"
      BY <1>1, <2>1, <2>7 DEF Jobs
    <3>2. pc' = "bootsave" /\ swapUpstream' = swapUpstream
      BY <2>3, <3>1
    <3>3. QED
      BY <1>1, <1>2, <2>1, <2>2, <2>3, <2>4, <2>5, <3>1, <3>2
  <2>8. QED
    BY <2>6, <2>7
<1>9. QED
  BY <1>3, <1>4, <1>5, <1>6, <1>7, <1>8

LEMMA SiteUndo == ASSUME SiteBase, Undo PROVE Attended'
<1> USE DEF Attended, AtWork, InPlace, Told, Resumed, Taking, Swapping, Elsewhere, Interrupted, Resuming, InSwap,
        Pointing, LeftTo, Running, Exists
<1>1. /\ Attended /\ Typed /\ Callers /\ Answers' /\ {"current", "next", "previous"} = Names
      /\ ctr \in Machine /\ Absent.ver = 0 /\ ~Absent.run
      /\ \A n \in Names : ctr[n].ver = 0 => ~ctr[n].run
      /\ Abandoned /\ Sides
  BY SiteGrounds DEF Answered
<1>2. troubles'["crashes"] = 0 => troubles["crashes"] = 0
  BY SiteSurely
<1>3. job.caller = "deploy" /\ pc # "ab_start"
  BY <1>1, UndoAt DEF Callers, DeploySteps
<1>4. /\ pc \in {"abort", "ab_check"} => ctr["current"].run /\ ~job.renamed /\ ~job.removedOld
      /\ pc \in OldRuns => ctr["current"].run
  BY <1>1 DEF Abandoned, Sides
<1>5. CASE Abort \/ AbortStart \/ AbortCheck
  <2>1. pc \in {"abort", "ab_check"}
    BY <1>3, <1>5 DEF Abort, AbortStart, AbortCheck, Does, Fails, Tries, Renames
  <2>2. pc' \in {"ab_check", "ab_repoint"} /\ UNCHANGED <<ctr, caddy, other, swapUpstream, job, disk, stopping>>
    BY <1>1, <1>3, <1>4, <1>5, <2>1, Surely DEF Abort, AbortStart, AbortCheck, Does
  <2>3. QED
    BY <1>1, <1>2, <1>3, <2>1, <2>2
<1>6. CASE AbortRepoint
  <2>1. /\ pc = "ab_repoint" /\ pc' = "ab_stop" /\ caddy'.loaded = "slug" /\ caddy'.file = "slug"
        /\ other' = NoAlias /\ swapUpstream' = NoAlias
        /\ UNCHANGED <<ctr, job, disk, stopping>>
    BY <1>6, SiteSurely DEF AbortRepoint, Applies, Accepts
  <2>2. QED
    BY <1>1, <1>2, <1>3, <2>1
<1>7. CASE AbortRemove
  <2>1. /\ \/ pc = "ab_stop" /\ pc' = "ab_leave" /\ ctr' = Stop("next")
           \/ pc = "ab_leave" /\ pc' = "ab_drop" /\ ctr' = Leave("next")
           \/ pc = "ab_drop" /\ pc' = "fail" /\ ctr' = Remove("next")
        /\ UNCHANGED <<caddy, other, swapUpstream, job, disk, stopping>>
    BY <1>1, <1>7, Surely DEF AbortRemove, Does
  <2>2. /\ ctr'["current"] = ctr["current"] /\ ctr'["previous"] = ctr["previous"]
        /\ pc' = "fail" => ~ctr'["next"].run
    BY <1>1, <2>1 DEF Stop, Leave, Remove, Machine, Container
  <2>3. ctr["current"].ver # 0
    BY <1>1, <1>4, <2>1 DEF OldRuns
  <2>4. QED
    BY <1>1, <1>2, <1>3, <2>1, <2>2, <2>3
<1>8. QED
  BY <1>5, <1>6, <1>7 DEF Undo

LEMMA SiteEnding == ASSUME SiteBase, Ending \/ Notice \/ BuildFails PROVE Attended'
<1> USE DEF Attended, AtWork, InPlace, Told, Resumed, Taking, Swapping, Elsewhere, Interrupted, Resuming, InSwap,
        Pointing, LeftTo, Running, Exists
<1>1. /\ Attended /\ Typed /\ Callers /\ Answers' /\ {"current", "next", "previous"} = Names
      /\ disk \in Disks /\ Kind = "static"
      /\ \A n \in Names : ctr[n].ver = 0 => ~ctr[n].run
      /\ Always
  BY SiteGrounds
<1>2. troubles'["crashes"] = 0 => troubles["crashes"] = 0
  BY SiteSurely
<1>3. /\ pc \in {"proxy", "health", "finish", "success", "fail", "save_project", "save_job", "save_failed",
                 "notice", "plan"}
      /\ job.caller = "deploy"
  <2>1. pc \in {"proxy", "health", "finish", "success", "fail", "save_project", "save_job", "save_failed",
                "notice", "plan"}
    BY <1>1, EndingAt, NoticeAt DEF BuildFails
  <2>2. QED
    BY <1>1, <2>1 DEF Callers, DeploySteps
<1>4. swapUpstream = NoAlias /\ UpstreamFor = "slug"
  BY <1>1, <1>3 DEF UpstreamFor
<1>5. CASE Proxy \/ Notice \/ Succeed \/ Fail
  <2>1. /\ UNCHANGED <<ctr, swapUpstream, job, disk, stopping>>
        /\ \/ caddy'.loaded = "slug" /\ caddy'.file = "slug" /\ other' = NoAlias
           \/ UNCHANGED <<caddy, other>> /\ pc \in {"notice", "fail"}
        /\ \/ pc = "proxy" /\ pc' = "health"
           \/ pc = "notice" /\ pc' = "plan"
           \/ pc = "success" /\ pc' = "save_project"
           \/ pc = "fail" /\ pc' = "save_failed"
    BY <1>4, <1>5, SiteSurely DEF Proxy, Notice, Succeed, Fail, Applies, Accepts
  <2>2. QED
    BY <1>1, <1>2, <1>3, <1>4, <2>1
<1>6. CASE Healthy \/ Unhealthy \/ Finish \/ BuildFails
  <2>1. /\ pc \in {"health", "finish", "plan"} /\ pc' \in {"finish", "success", "fail"}
        /\ UNCHANGED <<ctr, caddy, other, swapUpstream, job, disk, stopping>>
    BY <1>1, <1>6, Surely DEF Healthy, Unhealthy, Finish, BuildFails, AfterProxyFailure, Does
  <2>2. QED
    BY <1>1, <1>2, <1>3, <2>1
<1>7. CASE Save
  <2>1. /\ pc \in {"save_project", "save_job", "save_failed"} /\ pc' \in {"save_job", "idle"}
        /\ UNCHANGED <<ctr, caddy, other, swapUpstream, job, stopping>>
    BY <1>7 DEF Save, Saves
  <2>2. /\ ~disk'.stopped
        /\ disk'.published # disk.published => pc = "save_project"
    BY <1>1, <1>7 DEF Save, Saves, Disks
  <2>3. pc = "save_project" => ctr["current"].ver # 0
    BY <1>1 DEF Always, NewUp
  <2>4. QED
    BY <1>1, <1>2, <1>3, <2>1, <2>2, <2>3
<1>8. ~Rollback
  BY <1>3 DEF Rollback, Tries, Renames, Does, Fails
<1>9. QED
  BY <1>5, <1>6, <1>7, <1>8 DEF Ending

LEMMA SiteRecover == ASSUME SiteBase, Recover PROVE Attended'
<1> USE DEF Attended, AtWork, InPlace, Told, Resumed, Taking, Swapping, Elsewhere, Interrupted, Resuming, InSwap,
        Pointing, LeftTo, Running, Exists
<1>1. /\ Attended /\ Typed /\ Callers /\ Answers' /\ {"current", "next", "previous"} = Names
      /\ ctr \in Machine /\ job \in Jobs /\ disk \in Disks /\ Absent.ver = 0 /\ ~Absent.run
      /\ \A n \in Names : ctr[n].ver = 0 => ~ctr[n].run
      /\ Cleared /\ Holds
  BY SiteGrounds DEF Answered, Always
<1>2. troubles'["crashes"] = 0 => troubles["crashes"] = 0
  BY SiteSurely
<1>3. /\ pc \in {"recover", "recover_alias", "recover_next", "recover_stop", "boot_main", "bootsave", "bootsync"}
      /\ job.caller = "boot" /\ job.ret = "recover"
  BY <1>1, RecoverAt DEF BootSteps, Jobs
<1>4. swapUpstream = NoAlias /\ UpstreamFor = "slug"
  BY <1>1, <1>3 DEF UpstreamFor
<1>5. CASE RecoverCurrent
  <2>1. /\ pc = "recover" /\ pc' = "recover_alias" /\ ctr' = Remove("next") /\ ctr["current"].run
        /\ UNCHANGED <<caddy, other, swapUpstream, job, disk, stopping>>
    BY <1>1, <1>5, Surely DEF RecoverCurrent, Does
  <2>2. /\ ctr'["next"] = Absent /\ ctr'["current"] = ctr["current"] /\ ctr'["previous"] = ctr["previous"]
        /\ ctr["current"].ver # 0
    BY <1>1, <2>1 DEF Remove, Machine
  <2>3. QED
    BY <1>1, <1>2, <1>3, <2>1, <2>2
<1>6. CASE RecoverAlias
  <2>1. pc = "recover_alias" /\ "slug" \in ctr["current"].alias
    BY <1>1, <1>3, <1>6 DEF RecoverAlias, Does, Fails
  <2>2. pc' = "boot_main" /\ UNCHANGED <<ctr, caddy, other, swapUpstream, job, disk, stopping>>
    BY <1>1, <1>3, <1>6, <2>1, Surely DEF RecoverAlias, AfterRecover, Does
  <2>3. QED
    BY <1>1, <1>2, <1>3, <2>1, <2>2
<1>7. CASE RecoverDown
  <2>1. /\ pc = "recover" /\ pc' = "recover_next" /\ UNCHANGED <<ctr, caddy, other, swapUpstream, disk, stopping>>
        /\ job'.caller = job.caller /\ job'.ret = "recover"
    BY <1>1, <1>7 DEF RecoverDown, Jobs
  <2>2. QED
    BY <1>1, <1>2, <1>3, <2>1
<1>8. CASE RecoverNext
  <2>1. pc = "recover_next" /\ ctr["current"].ver = 0
    BY <1>1, <1>8, Surely DEF RecoverNext, Does, Cleared
  <2>2. /\ \/ ctr["next"].run /\ pc' = "recover_stop" /\ ctr' = ctr
           \/ ~ctr["next"].run /\ pc' = "boot_main" /\ ctr' = Remove("next")
        /\ UNCHANGED <<caddy, other, swapUpstream, job, disk, stopping>>
    BY <1>1, <1>3, <1>8, <2>1, Surely DEF RecoverNext, AfterRecover, Does
  <2>3. /\ ctr'["current"] = ctr["current"] /\ ctr'["previous"] = ctr["previous"]
        /\ ctr'["next"] \in {ctr["next"], Absent}
    BY <1>1, <2>2 DEF Remove, Machine
  <2>4. QED
    BY <1>1, <1>2, <1>3, <2>1, <2>2, <2>3
<1>9. CASE RecoverPromote
  <2>1. pc = "recover_stop"
    BY <1>1, <1>3, <1>9, Surely DEF RecoverPromote, Renames, Does
  <2>2. ctr["current"].ver = 0 /\ ~ctr["previous"].run /\ ctr["next"].run
    BY <1>1, <2>1 DEF Cleared, Holds
  <2>3. pc' = "promote" /\ UNCHANGED <<ctr, caddy, other, swapUpstream, job, disk, stopping>>
    BY <1>1, <1>9, <2>1, <2>2, Surely DEF RecoverPromote, Does
  <2>4. QED
    BY <1>1, <1>2, <1>3, <2>1, <2>2, <2>3
<1>10. CASE BootMain
  <2>1. pc = "boot_main" /\ ctr["previous"].ver = 0
    BY <1>1, <1>3, <1>10, Surely DEF BootMain, Renames, Does
  <2>2. pc' = "bootsave" /\ UNCHANGED <<ctr, caddy, other, swapUpstream, job, disk, stopping>>
    BY <1>1, <1>10, <2>1, Surely DEF BootMain, Renames, Does
  <2>3. QED
    BY <1>1, <1>2, <1>3, <2>1, <2>2
<1>11. CASE BootSave
  <2>1. pc = "bootsave" /\ pc' = "bootsync" /\ UNCHANGED <<ctr, caddy, other, swapUpstream, job, stopping>>
    BY <1>11 DEF BootSave, Saves
  <2>2. ~disk'.stopped /\ disk'.published = disk.published
    BY <1>1, <1>11 DEF BootSave, Saves, Disks
  <2>3. QED
    BY <1>1, <1>2, <1>3, <2>1, <2>2
<1>12. CASE BootSync
  <2>1. /\ pc = "bootsync" /\ pc' = "idle" /\ caddy'.loaded = "slug" /\ caddy'.file = "slug" /\ other' = NoAlias
        /\ UNCHANGED <<ctr, swapUpstream, job, disk, stopping>>
    BY <1>4, <1>12, SiteSurely DEF BootSync, Applies, Accepts
  <2>2. QED
    BY <1>1, <1>2, <1>3, <2>1
<1>13. QED
  BY <1>5, <1>6, <1>7, <1>8, <1>9, <1>10, <1>11, <1>12 DEF Recover

LEMMA SiteCrash == ASSUME SiteBase, Crash \/ Boot PROVE Attended'
<1> USE DEF Attended, AtWork, InPlace, Told, Resumed, Taking, Swapping, Elsewhere, Interrupted, Resuming, InSwap,
        Pointing, LeftTo, Running, Exists
<1>1. /\ Attended /\ Typed /\ {"current", "next", "previous"} = Names /\ job \in Jobs
      /\ \A n \in Names : ctr[n].ver = 0 => ~ctr[n].run
      /\ Always
  BY SiteGrounds
<1>2. CASE Crash
  <2>1. /\ pc' = "down" /\ job' = IdleJob /\ stopping' = {} /\ other' = NoAlias /\ swapUpstream' = NoAlias
        /\ UNCHANGED <<ctr, caddy, disk>>
    BY <1>2 DEF Crash
  <2>2. troubles["crashes"] = 0 /\ troubles'["crashes"] # 0
    BY <1>2, SiteSurely DEF Crash
  <2>3. job'.caller = "deploy"
    BY <2>1 DEF IdleJob
  <2>4. pc # "idle" => disk.status = "running"
    BY <1>1, <2>2 DEF Always, Open
  <2>5. AtWork'
    BY <1>1, <2>1, <2>2, <2>3
  <2>6. InPlace'
    BY <1>1, <2>1, <2>2, <2>3, <2>4
  <2>7. Told'
    BY <1>1, <2>1, <2>2, <2>3, <2>4
  <2>8. QED
    BY <2>5, <2>6, <2>7
<1>3. CASE Boot
  <2>1. /\ pc = "down" /\ UNCHANGED <<ctr, caddy, swapUpstream, disk, troubles, stopping>>
        /\ disk.status = "running" => pc' = "recover"
        /\ disk.status # "running" => pc' = "settle"
    BY <1>1, <1>3 DEF Boot
  <2>2. /\ disk.status = "running" => job'.caller = "boot" /\ job'.ret = "recover"
        /\ disk.status # "running" => job'.caller = "bootsettle"
    BY <1>3 DEF Boot, IdleJob
  <2>3. swapUpstream = NoAlias /\ other' \in {NoAlias, "slug"}
    BY <1>1, <1>3, <2>1 DEF Boot, BootReloads, UpstreamFor
  <2>4. QED
    BY <1>1, <2>1, <2>2, <2>3
<1>4. QED
  BY <1>2, <1>3

LEMMA SiteStep == ASSUME SiteBase, SwapSetting = {TRUE} PROVE Attended'
<1> USE DEF Attended, AtWork, InPlace, Told, Resumed, Taking, Swapping, Elsewhere, Interrupted, Resuming, InSwap,
        Pointing, LeftTo, Running, Exists
<1>1. /\ Attended /\ Typed /\ {"current", "next", "previous"} = Names /\ ctr \in Machine /\ disk \in Disks
      /\ \A n \in Names : ctr[n].ver = 0 => ~ctr[n].run
  BY SiteGrounds
<1>2. troubles'["crashes"] = 0 => troubles["crashes"] = 0
  BY SiteSurely
<1>3. CASE Panel
  BY <1>3, SiteSettle, SiteDirect, SiteBegin, SiteTake, SiteUndo, SiteEnding, SiteRecover DEF Panel, Swap
<1>4. CASE UNCHANGED vars
  BY <1>1, <1>4 DEF vars
<1>5. CASE StartDeploy
  <2>1. /\ pc = "idle" /\ pc' = "settle" /\ job' = IdleJob
        /\ UNCHANGED <<ctr, caddy, other, swapUpstream, stopping>>
    BY <1>5 DEF StartDeploy
  <2>2. ~disk'.stopped /\ disk'.published = disk.published /\ job'.caller = "deploy"
    BY <1>1, <1>5, <2>1 DEF StartDeploy, Disks, IdleJob
  <2>3. QED
    BY <1>1, <1>2, <2>1, <2>2
<1>6. CASE AskStop \/ Stopped
  BY <1>1, <1>6, SiteSurely DEF AskStop, Stopped
<1>7. CASE PersonStart
  <2>1. /\ pc = "idle" /\ pc' = pc /\ ctr' = Begin("current")
        /\ UNCHANGED <<caddy, other, swapUpstream, job, stopping>>
    BY <1>1, <1>7 DEF PersonStart
  <2>2. ~disk'.stopped /\ disk'.published = disk.published /\ disk'.status = disk.status
    BY <1>1, <1>7 DEF PersonStart, Disks
  <2>3. /\ ctr'["next"] = ctr["next"] /\ ctr'["previous"] = ctr["previous"]
        /\ ctr'["current"].ver = ctr["current"].ver /\ ctr'["current"].alias = ctr["current"].alias
        /\ ctr["current"].ver # 0 => ctr'["current"].run
    BY <1>1, <2>1 DEF Begin, Machine, Container
  <2>4. QED
    BY <1>1, <1>2, <2>1, <2>2, <2>3
<1>8. CASE OtherCompute
  <2>1. /\ pc \notin Queued /\ pc' = pc /\ other' = UpstreamFor
        /\ UNCHANGED <<ctr, caddy, swapUpstream, job, disk, stopping>>
    BY <1>8 DEF OtherCompute
  <2>2. QED
    BY <1>1, <1>2, <2>1 DEF UpstreamFor
<1>9. CASE OtherLoad
  <2>1. /\ other # NoAlias /\ other' = NoAlias /\ pc' = pc /\ caddy'.loaded = other /\ caddy'.file = other
        /\ UNCHANGED <<ctr, swapUpstream, job, disk, stopping>>
    BY <1>9, SiteSurely DEF OtherLoad
  <2>2. QED
    BY <1>1, <1>2, <2>1
<1>10. CASE CaddyRestart
  <2>1. /\ pc' = pc /\ UNCHANGED <<ctr, other, swapUpstream, job, disk, stopping>>
    BY <1>10 DEF CaddyRestart
  <2>2. caddy'.loaded = caddy.file /\ caddy'.file = caddy.file
    BY <1>1, <1>10 DEF CaddyRestart, Typed, Proxies
  <2>3. QED
    BY <1>1, <1>2, <2>1, <2>2
<1>11. QED
  BY <1>3, <1>4, <1>5, <1>6, <1>7, <1>8, <1>9, <1>10, SiteCrash DEF SiteBase, Next

LEMMA SiteInit == ASSUME Init PROVE SiteInv
<1>1. /\ ctr = [n \in Names |-> Absent] /\ caddy = [loaded |-> "slug", file |-> "slug"]
      /\ other = NoAlias /\ swapUpstream = NoAlias /\ job = IdleJob /\ pc = "idle" /\ stopping = {}
      /\ ~disk.stopped /\ disk.published = 0
  BY DEF Init
<1>2. \A n \in {"current", "next", "previous"} : ctr[n].ver = 0 /\ ~ctr[n].run
  BY <1>1 DEF Names, Absent
<1>3. AtWork /\ InPlace
  BY <1>1, <1>2 DEF AtWork, InPlace, IdleJob, Resumed, Taking, Elsewhere, Pointing, Running, Exists
<1>4. Told
  BY <1>1 DEF Told
<1>5. QED
  BY <1>3, <1>4 DEF SiteInv, Attended

LEMMA SiteInvStep ==
    ASSUME IInv, DockerInv, SiteInv, [Next]_vars, SwapSetting = {TRUE}
    PROVE  SiteInv'
<1>1. SUFFICES ASSUME Site' PROVE Attended'
  BY DEF SiteInv
<1>2. Typed
  BY Types DEF IInv
<1>3. SiteBase
  BY <1>1, <1>2, SiteBefore DEF SiteBase, SiteInv
<1>4. QED
  BY <1>3, SiteStep

LEMMA SiteInvariant == ASSUME SwapSetting = {TRUE} PROVE Spec => [](IInv /\ SiteInv)
<1>1. Init => SiteInv
  BY SiteInit
<1>2. IInv /\ DockerInv /\ SiteInv /\ [Next]_vars => SiteInv'
  BY SiteInvStep
<1>3. QED
  BY <1>1, <1>2, DockerInvariant, PTL DEF Spec

\* A static site that can be swapped keeps no previous version to fall back on, and
\* yet one crash of the panel, at any step of any deploy, of the promotion and of the
\* last reload too, leaves it with an answer once the boot's recovery or the deploy is
\* over, as long as docker and Caddy do what they are told.
THEOREM SiteServes == ASSUME SwapSetting = {TRUE} PROVE Spec => []IdleServes
<1>1. IInv /\ SiteInv => IdleServes
  <2>1. SUFFICES ASSUME IInv, SiteInv, Site, pc = "idle", disk.published # 0
                 PROVE  Reached # {}
    BY DEF IdleServes, Site, Without, Online
  <2>2. AtWork /\ InPlace /\ Told
    BY <2>1 DEF SiteInv, Attended
  <2>3. ~Interrupted /\ ~Resuming /\ ~Pointing /\ ~InSwap
    BY <2>1 DEF Interrupted, Resuming, Resumed, Pointing, Taking, InSwap, Swapping
  <2>4. ~Running("next")
    BY <2>1, <2>2, <2>3 DEF InPlace, LeftTo
  <2>5. Running("current") /\ "slug" \in ctr["current"].alias /\ caddy.loaded = "slug"
    BY <2>1, <2>2, <2>3, <2>4 DEF InPlace, Told
  <2>6. QED
    BY <2>5 DEF Reached, Names
<1>2. QED
  BY <1>1, SiteInvariant, PTL

=============================================================================
