-------------------------- MODULE BlueGreenCalmProofs --------------------------
(***************************************************************************)
(* Proofs about BlueGreen in calm weather: builds, probes and versions may  *)
(* fail and Caddy may restart, at any time and any number of times, but no  *)
(* docker command fails, Caddy takes what it is given, the panel stays up   *)
(* and every project that runs can be swapped.  There the deploy is what    *)
(* blue-green.ts promises: a sequence of clean switches between versions.   *)
(***************************************************************************)
EXTENDS BlueGreenProofs, FiniteSetTheorems

Calm == Troubles \subseteq {"reboots"} /\ SwapSetting = {TRUE}

-----------------------------------------------------------------------------
(* The inductive invariant: what each step of the deploy may rely on. *)

\* A version that may be left to serve alone: it has the alias of the project and
\* at most one other, and one that began beside another answered its probe.
Good(n) ==
    /\ ctr[n].ver # 0
    /\ "slug" \in ctr[n].alias
    /\ \E x \in Alias : ctr[n].alias \subseteq {"slug", x}
    /\ ctr[n].alias = {"slug"} \/ ctr[n].ver \in probed
Published(n) == HasPrevious /\ disk.published # 0 => ctr[n].ver = disk.published

\* The version in service before this deploy, and one the deploy began.
Old(n)      == Good(n) /\ Published(n) /\ ctr[n].ver < deploys
Begun(n, a) == ctr[n].ver = deploys /\ deploys # 0 /\ ctr[n].run /\ ctr[n].alias = a
None(n)     == ctr[n] = Absent

\* Where a deploy is before it touches anything or after it put everything back, ...
Resting == {"idle", "settle", "notice", "plan", "fail", "save_failed", "save_job"}
\* ... where a container begins without a swap, and where it swaps:
Directly == {"l_rmprev", "l_rename", "l_rm", "l_run"}
Beside   == {"drop", "run", "wait", "drop_failed", "alias", "alias_join", "repoint"}
Taking   == {"reprobe", "rmprev", "keepold", "rmold", "abort", "ab_check", "ab_repoint"}
Replacing   == {"stopold", "promote", "rename"}
Undoing  == {"ab_stop", "ab_leave", "ab_drop"}
Watched  == {"health", "finish", "rollback"}
Steps    == Resting \cup Directly \cup Beside \cup Taking \cup Replacing \cup Undoing \cup Watched
            \cup {"proxy", "success", "save_project", "rb_rename", "rb_start"}

\* The proxy on the project's alias, or on the one of the new version.
OnSlug == /\ caddy.loaded = "slug" /\ caddy.file = "slug" /\ other \in {NoAlias, "slug"}
          /\ swapUpstream = NoAlias
OnNew  == caddy.loaded = job.alias /\ caddy.file = job.alias /\ other \in {NoAlias, job.alias}
NewAlias == {"slug", job.alias}

Peace == stopping = {} /\ ~disk.stopped /\ job.caller = "deploy" /\ pc \in Steps
AtRest ==
    pc \in Resting =>
        /\ OnSlug /\ None("next") /\ None("previous")
        /\ \/ ctr["current"].run /\ Good("current") /\ Published("current")
           \/ None("current") /\ disk.published = 0
        /\ ctr["current"].ver <= deploys
        /\ pc \in {"settle", "notice", "plan"} => ctr["current"].ver < deploys
AtDirect ==
    pc \in Directly =>
        OnSlug /\ None("next") /\ None("previous") /\ None("current") /\ disk.published = 0 /\ deploys # 0
Fresh ==
    pc \in {"settle", "notice", "plan"} \cup Beside \cup Taking => ~job.renamed /\ ~job.removedOld
Swapping ==
    pc \in Beside \cup Taking \cup Replacing =>
        /\ job.alias \in Alias /\ job.alias # "slug" /\ job.ret = "swap" /\ deploys # 0
AtBeside ==
    pc \in Beside =>
        /\ ctr["current"].run /\ Old("current") /\ job.alias \notin ctr["current"].alias /\ None("previous")
        /\ pc = "repoint" => swapUpstream = job.alias /\ job.moved
        /\ pc # "repoint" => swapUpstream = NoAlias
        /\ caddy.loaded = "slug" /\ caddy.file = "slug" /\ other \in {NoAlias, "slug"}
        /\ pc \in {"drop", "run"} => None("next")
        /\ pc \in {"wait", "drop_failed", "alias"} => Begun("next", {job.alias})
        /\ pc = "alias_join" => Begun("next", {}) /\ job.joining = NewAlias
        /\ pc = "repoint" => Begun("next", NewAlias)
        /\ pc \in {"alias", "alias_join", "repoint"} => deploys \in probed
AtTaking ==
    pc \in Taking \cup Replacing =>
        /\ OnNew /\ swapUpstream = job.alias /\ Begun("next", NewAlias) /\ deploys \in probed
        /\ pc \in Taking => /\ ctr["current"].run /\ Old("current") /\ job.alias \notin ctr["current"].alias
                            /\ None("previous") /\ job.moved
        /\ pc \in Replacing => None("current")
        /\ pc \in {"rmprev", "keepold", "stopold"} => HasPrevious
        /\ pc = "rmold" => ~HasPrevious
        /\ pc = "stopold" => Old("previous") /\ job.alias \notin ctr["previous"].alias
        /\ pc \in {"promote", "rename"} =>
               \/ HasPrevious /\ Old("previous") /\ ~ctr["previous"].run
               \/ ~HasPrevious /\ None("previous")
AtUndoing ==
    pc \in Undoing =>
        /\ OnSlug /\ ctr["current"].run /\ Old("current") /\ None("previous")
        /\ ctr["next"].ver = deploys /\ deploys # 0 /\ deploys \in probed
        /\ pc = "ab_stop" => ctr["next"].run /\ "slug" \in ctr["next"].alias
        /\ pc # "ab_stop" => ~ctr["next"].run

\* What is kept of the old version until the new one is found healthy.
Aside == \/ HasPrevious /\ Old("previous") /\ ~ctr["previous"].run /\ (Kind = "node" \/ job.swapped)
         \/ None("previous") /\ (HasPrevious => disk.published = 0)
AtProxy ==
    pc = "proxy" =>
        /\ None("next") /\ Aside /\ swapUpstream = NoAlias
        /\ \/ /\ OnNew /\ Begun("current", NewAlias) /\ deploys \in probed
              /\ job.alias \in Alias /\ job.alias # "slug"
           \/ OnSlug /\ Begun("current", {"slug"})
AtServed ==
    pc \in Watched => /\ OnSlug /\ None("next") /\ Aside /\ Good("current") /\ ctr["current"].run
                      /\ ctr["current"].ver = deploys
                      /\ pc = "rollback" => HasPrevious
AtSuccess ==
    pc \in {"success", "save_project"} =>
        /\ OnSlug /\ None("next") /\ None("previous")
        /\ Good("current") /\ ctr["current"].run /\ ctr["current"].ver = deploys
AtRollback ==
    pc \in {"rb_rename", "rb_start"} =>
        /\ OnSlug /\ None("next") /\ HasPrevious
        /\ pc = "rb_rename" => None("current") /\ Aside
        /\ pc = "rb_start" => None("previous") /\ Old("current") /\ ~ctr["current"].run

CalmInv == /\ Peace /\ Fresh /\ Swapping
           /\ AtRest /\ AtDirect /\ AtBeside /\ AtTaking /\ AtUndoing
           /\ AtProxy /\ AtServed /\ AtSuccess /\ AtRollback

\* The versions a visitor may reach, from where the deploy is.
Both == {"repoint", "ab_stop"}
NewOnly == Taking \cup Replacing
Seen == IF pc \in Both THEN {ctr["current"].ver, deploys}
        ELSE IF pc \in NewOnly THEN {deploys}
        ELSE IF ctr["current"].run THEN {ctr["current"].ver}
        ELSE {}

-----------------------------------------------------------------------------
(* Nothing goes wrong but builds and versions. *)

LEMMA NoTrouble ==
    ASSUME Calm
    PROVE  /\ ~Spend("faults") /\ ~Spend("refusals") /\ ~Spend("crashes") /\ ~Spend("stops")
           /\ TRUE \in SwapSetting /\ FALSE \notin SwapSetting
  BY DEF Calm, Spend

\* What the shared routines come to.
LEMMA Surely ==
    ASSUME Calm
    PROVE  /\ \A l, m, c : ~Fails(l, m, c) /\ (Tries(l, m, c) => Does(l, m, c))
           /\ \A l, u, m : ~Refused(l, u, m)
           /\ \A n : (SeesRunning(n) => Running(n)) /\ (SeesNotRunning(n) => ~Running(n))
           /\ \A l, m, n, ok, bad : Renames(l, m, n, ok, bad) =>
                 \/ CanRename(m, n) /\ Does(l, ok, Rename(m, n))
                 \/ ~CanRename(m, n) /\ Does(l, bad, ctr)
           /\ \A n, a, l, ok, bad : RunsInto(n, a, l, ok, bad) =>
                 \/ ~Exists(n) /\ Does(l, ok, Create(n, a, TRUE))
                 \/ Exists(n) /\ Does(l, bad, ctr)
<1>1. \A l, m, c : ~Fails(l, m, c)
  BY NoTrouble DEF Fails
<1>2. \A l, u, m : ~Refused(l, u, m)
  BY NoTrouble DEF Refused, Refuses
<1>3. \A n : (SeesRunning(n) => Running(n)) /\ (SeesNotRunning(n) => ~Running(n))
  BY NoTrouble DEF SeesRunning, SeesNotRunning
<1>4. \A l, m, c : Tries(l, m, c) => Does(l, m, c)
  BY <1>1 DEF Tries
<1>5. \A l, m, n, ok, bad : Renames(l, m, n, ok, bad) =>
          \/ CanRename(m, n) /\ Does(l, ok, Rename(m, n))
          \/ ~CanRename(m, n) /\ Does(l, bad, ctr)
  BY <1>1 DEF Renames
<1>6. \A n, a, l, ok, bad : RunsInto(n, a, l, ok, bad) =>
          \/ ~Exists(n) /\ Does(l, ok, Create(n, a, TRUE))
          \/ Exists(n) /\ Does(l, bad, ctr)
  BY <1>1 DEF RunsInto
<1>7. QED
  BY <1>1, <1>2, <1>3, <1>4, <1>5, <1>6

\* The parts of the state a step of the deploy may rely on.
LEMMA Parts ==
    ASSUME Typed
    PROVE  /\ ctr \in Machine /\ deploys \in Nat /\ job \in Jobs /\ disk \in Disks /\ caddy \in Proxies
           /\ Names = {"current", "next", "previous"}
           /\ Absent.ver = 0 /\ Absent.run = FALSE /\ Absent.alias = {}
  BY DEF Typed, Names, Absent

LEMMA CalmSettle == ASSUME Calm, Typed, CalmInv, Settle PROVE CalmInv'
<1> USE DEF Peace, Fresh, Swapping, AtRest, AtDirect, AtBeside, AtTaking, AtUndoing, AtProxy, AtServed,
        AtSuccess, AtRollback, Resting, Directly, Beside, Taking, Replacing, Undoing, Watched, Steps
<1>1. pc = "settle"
  BY SettleAt DEF CalmInv, SettleSteps
<1>2. None("next") /\ ~disk.stopped /\ job.caller = "deploy"
  BY <1>1 DEF CalmInv
<1>3. ~Running("next")
  BY <1>2, Parts DEF None, Running
<1>4. SettleClean
  BY <1>1, <1>3, Surely DEF Settle, SettleStopped, SettlePromote, SettleCheck, SettleSync, SettleRelease,
     SettleBack, SettleRemove, Applies, Does
<1>5. pc' = "notice" /\ UNCHANGED <<ctr, caddy, other, swapUpstream, job, disk, deploys, probed, stopping>>
  BY <1>2, <1>4 DEF SettleClean, AfterSettle
<1>6. QED
  BY <1>1, <1>5 DEF CalmInv, Good, Published, Old, Begun, None, OnSlug, OnNew, NewAlias, Aside, HasPrevious, Kind

LEMMA CalmDirect == ASSUME Calm, Typed, CalmInv, Direct PROVE CalmInv'
<1> USE DEF Peace, Fresh, Swapping, AtRest, AtDirect, AtBeside, AtTaking, AtUndoing, AtProxy, AtServed,
        AtSuccess, AtRollback, Resting, Directly, Beside, Taking, Replacing, Undoing, Watched, Steps
<1>1. CASE PlanDirect
  <2>1. pc = "plan" /\ ~ctr["current"].run
    BY <1>1, NoTrouble, Surely DEF PlanDirect, Running
  <2>2. None("current") /\ disk.published = 0 /\ deploys # 0
    BY <2>1, Parts DEF CalmInv, None
  <2>3. /\ pc' \in {"l_rmprev", "l_rm"}
        /\ UNCHANGED <<ctr, caddy, other, swapUpstream, job, disk, deploys, probed, stopping>>
    BY <1>1 DEF PlanDirect
  <2>4. QED
    BY <2>1, <2>2, <2>3 DEF CalmInv, Good, Published, Old, Begun, None, OnSlug, OnNew, NewAlias, Aside, HasPrevious, Kind
<1>2. CASE DirectClear
  <2>1. pc \in Directly
    BY <1>2, Surely DEF CalmInv, DirectClear, Does
  <2>2. None("current") /\ None("next") /\ None("previous") /\ ctr \in Machine
    BY <2>1, Parts DEF CalmInv
  <2>3. Remove("previous") = ctr /\ Remove("current") = ctr
    BY <2>2, Parts DEF Remove, None, Machine
  <2>4. ~CanRename("current", "previous")
    BY <2>2, Parts DEF None, CanRename, Exists
  <2>5. /\ pc' \in {"l_rename", "l_run"}
        /\ UNCHANGED <<ctr, caddy, other, swapUpstream, job, disk, deploys, probed, stopping>>
    BY <1>2, <2>1, <2>3, <2>4, Surely DEF DirectClear, Does
  <2>6. QED
    BY <2>1, <2>5 DEF CalmInv, Good, Published, Old, Begun, None, OnSlug, OnNew, NewAlias, Aside, HasPrevious, Kind
<1>3. CASE DirectRun
  <2>1. /\ pc = "l_run" /\ pc' = "proxy" /\ ctr' = Create("current", {"slug"}, TRUE)
        /\ UNCHANGED <<caddy, other, swapUpstream, job, disk, deploys, probed, troubles, stopping>>
    <3>1. pc = "l_run"
      BY <1>3, Surely DEF DirectRun, Does
    <3>2. ~Exists("current")
      BY <3>1, Parts DEF CalmInv, Exists, None
    <3>3. QED
      BY <1>3, <3>1, <3>2, Surely DEF DirectRun, Does
  <2>2. /\ ctr'["current"].ver = deploys /\ ctr'["current"].run /\ ctr'["current"].alias = {"slug"}
        /\ ctr'["next"] = ctr["next"] /\ ctr'["previous"] = ctr["previous"]
    BY <2>1, Parts DEF Create, Machine
  <2>3. QED
    BY <2>1, <2>2, Parts DEF CalmInv, Good, Published, Old, Begun, None, OnSlug, OnNew, NewAlias, Aside, HasPrevious, Kind
<1>4. QED
  BY <1>1, <1>2, <1>3 DEF Direct

\* pickNextAlias: an alias that the container in service does not have.
LEMMA PickIsNew ==
    ASSUME Calm, Typed, CalmInv, pc = "plan", ctr["current"].run
    PROVE  LET a == PickNextAlias(Taken({})) IN a \in {"a", "b"} /\ a \notin ctr["current"].alias
<1>1. Good("current") /\ None("next") /\ None("previous")
  BY Parts DEF CalmInv, AtRest, Resting, None
<1>2. Taken({}) = ctr["current"].alias
  <2>1. {m \in Names : Running(m)} \ {} = {"current"}
    BY <1>1, Parts DEF None, Running
  <2>2. Taken({}) = UNION {ctr[n].alias : n \in {"current"}}
    BY <2>1 DEF Taken
  <2>3. QED
    BY <2>2
<1>3. "a" \notin ctr["current"].alias \/ "b" \notin ctr["current"].alias
  BY <1>1 DEF Good
<1>4. QED
  BY <1>2, <1>3 DEF PickNextAlias

LEMMA CalmBegin ==
    ASSUME Calm, Typed, CalmInv, PlanSwap \/ DropLeftover \/ StartNext \/ NextReady \/ NextUnhealthy \/ DropFailed
    PROVE  CalmInv'
<1> USE DEF Peace, Fresh, Swapping, AtRest, AtDirect, AtBeside, AtTaking, AtUndoing, AtProxy, AtServed,
        AtSuccess, AtRollback, Resting, Directly, Beside, Taking, Replacing, Undoing, Watched, Steps
<1>1. CASE PlanSwap
  <2>1. pc = "plan" /\ ctr["current"].run
    BY <1>1 DEF PlanSwap, Running
  <2>2. job' = [job EXCEPT !.alias = PickNextAlias(Taken({})), !.ret = "swap"]
    BY <1>1, NoTrouble DEF PlanSwap
  <2>3. /\ job'.alias \in {"a", "b"} /\ job'.alias \notin ctr["current"].alias /\ job'.ret = "swap"
        /\ job'.renamed = job.renamed /\ job'.removedOld = job.removedOld /\ job'.caller = job.caller
    BY <2>1, <2>2, PickIsNew, Parts DEF Jobs
  <2>4. Good("current") /\ Published("current") /\ ctr["current"].ver < deploys
    BY <2>1, Parts DEF CalmInv, None
  <2>5. ctr["current"].ver \in Nat /\ ctr["current"].ver # 0
    BY <2>4, Parts DEF Good, Machine, Container
  <2>6. deploys # 0
    BY <2>4, <2>5, Parts
  <2>7. /\ pc' = "drop" /\ swapUpstream' = NoAlias
        /\ UNCHANGED <<ctr, caddy, other, disk, deploys, probed, stopping>>
    BY <1>1 DEF PlanSwap
  <2>8. QED
    BY <2>1, <2>3, <2>4, <2>6, <2>7 DEF Alias, CalmInv, Good, Published, Old, Begun, None, OnSlug, OnNew, NewAlias, Aside, HasPrevious, Kind
<1>2. CASE DropLeftover
  <2>1. pc = "drop" /\ pc' = "run" /\ ctr' = Remove("next")
        /\ UNCHANGED <<caddy, other, swapUpstream, job, disk, deploys, probed, troubles, stopping>>
    BY <1>2, Surely DEF DropLeftover, Does
  <2>2. ctr' = ctr
    BY <2>1, Parts DEF CalmInv, None, Remove, Machine
  <2>3. QED
    BY <2>1, <2>2 DEF CalmInv, Good, Published, Old, Begun, None, OnSlug, OnNew, NewAlias, Aside, HasPrevious, Kind
<1>3. CASE StartNext
  <2>1. pc = "run"
    BY <1>3, Surely DEF StartNext, Does
  <2>2. ~Exists("next")
    BY <2>1, Parts DEF CalmInv, None, Exists
  <2>3. pc' = "wait" /\ ctr' = Create("next", {job.alias}, TRUE)
        /\ UNCHANGED <<caddy, other, swapUpstream, job, disk, deploys, probed, troubles, stopping>>
    BY <1>3, <2>2, Surely DEF StartNext, Does
  <2>4. /\ ctr'["next"].ver = deploys /\ ctr'["next"].run /\ ctr'["next"].alias = {job.alias}
        /\ ctr'["current"] = ctr["current"] /\ ctr'["previous"] = ctr["previous"]
    BY <2>3, Parts DEF Create, Machine
  <2>5. QED
    BY <2>1, <2>3, <2>4 DEF CalmInv, Good, Published, Old, Begun, None, OnSlug, OnNew, NewAlias, Aside, HasPrevious, Kind
<1>4. CASE NextReady
  <2>1. pc = "wait" /\ pc' = "alias" /\ probed' = probed \cup {deploys}
        /\ UNCHANGED <<ctr, caddy, other, swapUpstream, job, disk, deploys, troubles, stopping>>
    BY <1>4 DEF NextReady, CalmInv, Begun
  <2>2. QED
    BY <2>1 DEF CalmInv, Good, Published, Old, Begun, None, OnSlug, OnNew, NewAlias, Aside, HasPrevious, Kind
<1>5. CASE NextUnhealthy
  BY <1>5 DEF NextUnhealthy, CalmInv, Good, Published, Old, Begun, None, OnSlug, OnNew, NewAlias, Aside, HasPrevious, Kind
<1>6. CASE DropFailed
  <2>1. pc = "drop_failed" /\ pc' = "fail" /\ ctr' = Remove("next")
        /\ UNCHANGED <<caddy, other, swapUpstream, job, disk, deploys, probed, troubles, stopping>>
    BY <1>6, Surely DEF DropFailed, Does
  <2>2. /\ ctr'["next"] = Absent
        /\ ctr'["current"] = ctr["current"] /\ ctr'["previous"] = ctr["previous"]
    BY <2>1, Parts DEF Remove, Machine
  <2>3. ctr["current"].ver < deploys => ctr["current"].ver <= deploys
    BY Parts DEF Machine, Container
  <2>4. QED
    BY <2>1, <2>2, <2>3 DEF CalmInv, Good, Published, Old, Begun, None, OnSlug, OnNew, NewAlias, Aside, HasPrevious, Kind
<1>7. QED
  BY <1>1, <1>2, <1>3, <1>4, <1>5, <1>6

LEMMA CalmTake ==
    ASSUME Calm, Typed, CalmInv, AliasNext \/ Repoint \/ Reprobe \/ RemovePrevious \/ KeepOld \/ StopOld
                                 \/ RemoveOld \/ PromoteNext \/ RenameNext
    PROVE  CalmInv'
<1> USE DEF Peace, Fresh, Swapping, AtRest, AtDirect, AtBeside, AtTaking, AtUndoing, AtProxy, AtServed,
        AtSuccess, AtRollback, Resting, Directly, Beside, Taking, Replacing, Undoing, Watched, Steps
<1>1. CASE AliasNext
  <2>1. CASE pc = "alias"
    <3>1. /\ pc' = "alias_join" /\ ctr' = Leave("next") /\ job' = [job EXCEPT !.joining = {"slug", job.alias}]
          /\ UNCHANGED <<caddy, other, swapUpstream, disk, deploys, probed, troubles, stopping>>
      BY <1>1, <2>1, NoTrouble, Surely DEF AliasNext
    <3>2. /\ ctr'["next"].ver = ctr["next"].ver /\ ctr'["next"].run = ctr["next"].run
          /\ ctr'["next"].alias = {}
          /\ ctr'["current"] = ctr["current"] /\ ctr'["previous"] = ctr["previous"]
      BY <3>1, Parts DEF Leave, Machine, Container
    <3>3. /\ job'.alias = job.alias /\ job'.ret = job.ret /\ job'.joining = NewAlias
          /\ job'.renamed = job.renamed /\ job'.removedOld = job.removedOld /\ job'.caller = job.caller
      BY <3>1, Parts DEF Jobs, NewAlias
    <3>4. QED
      BY <2>1, <3>1, <3>2, <3>3 DEF CalmInv, Good, Published, Old, Begun, None, OnSlug, OnNew, NewAlias, Aside, HasPrevious, Kind
  <2>2. CASE pc = "alias_join"
    <3>1. /\ pc' = "repoint" /\ ctr' = Join("next", job.joining) /\ job' = [job EXCEPT !.moved = TRUE]
          /\ swapUpstream' = job.alias
          /\ UNCHANGED <<caddy, other, disk, deploys, probed, troubles, stopping>>
      BY <1>1, <2>2, Surely DEF AliasNext, Moves
    <3>2. Exists("next")
      BY <2>2 DEF CalmInv, Begun, Exists
    <3>3. /\ ctr'["next"].ver = ctr["next"].ver /\ ctr'["next"].run = ctr["next"].run
          /\ ctr'["next"].alias = job.joining
          /\ ctr'["current"] = ctr["current"] /\ ctr'["previous"] = ctr["previous"]
      BY <3>1, <3>2, Parts DEF Join, Machine, Container
    <3>4. /\ job'.alias = job.alias /\ job'.ret = job.ret /\ job'.moved = TRUE
          /\ job'.renamed = job.renamed /\ job'.removedOld = job.removedOld /\ job'.caller = job.caller
      BY <3>1, Parts DEF Jobs
    <3>5. QED
      BY <2>2, <3>1, <3>3, <3>4 DEF CalmInv, Good, Published, Old, Begun, None, OnSlug, OnNew, NewAlias, Aside, HasPrevious, Kind
  <2>3. QED
    BY <1>1, <2>1, <2>2, NoTrouble, Surely DEF AliasNext
<1>2. CASE Repoint
  <2>1. /\ pc = "repoint" /\ pc' = "reprobe" /\ other = NoAlias /\ other' = NoAlias
        /\ caddy' = [loaded |-> job.alias, file |-> job.alias]
        /\ UNCHANGED <<ctr, swapUpstream, job, disk, deploys, probed, troubles, stopping>>
    BY <1>2, Surely DEF Repoint, Applies, Accepts
  <2>2. caddy'.loaded = job.alias /\ caddy'.file = job.alias
    BY <2>1
  <2>3. QED
    BY <2>1, <2>2 DEF CalmInv, Good, Published, Old, Begun, None, OnSlug, OnNew, NewAlias, Aside, HasPrevious, Kind
<1>3. CASE Reprobe
  <2>1. /\ pc = "reprobe" /\ pc' \in {"rmprev", "rmold", "abort"}
        /\ pc' = "rmprev" => HasPrevious
        /\ pc' = "rmold" => ~HasPrevious
        /\ UNCHANGED <<ctr, caddy, other, swapUpstream, job, disk, deploys, probed, troubles, stopping>>
    BY <1>3 DEF Reprobe, Does
  <2>2. QED
    BY <2>1 DEF CalmInv, Good, Published, Old, Begun, None, OnSlug, OnNew, NewAlias, Aside, HasPrevious, Kind
<1>4. CASE RemovePrevious
  <2>1. /\ pc = "rmprev" /\ pc' = "keepold" /\ ctr' = Remove("previous")
        /\ UNCHANGED <<caddy, other, swapUpstream, job, disk, deploys, probed, troubles, stopping>>
    BY <1>4, Surely DEF RemovePrevious, Does
  <2>2. ctr' = ctr
    BY <2>1, Parts DEF CalmInv, None, Remove, Machine
  <2>3. QED
    BY <2>1, <2>2 DEF CalmInv, Good, Published, Old, Begun, None, OnSlug, OnNew, NewAlias, Aside, HasPrevious, Kind
<1>5. CASE KeepOld
  <2>1. pc = "keepold"
    BY <1>5, Surely DEF KeepOld, Does
  <2>2. CanRename("current", "previous")
    BY <2>1, Parts DEF CalmInv, Old, Good, None, CanRename, Exists
  <2>3. /\ pc' = "stopold" /\ ctr' = Rename("current", "previous") /\ job' = [job EXCEPT !.renamed = TRUE]
        /\ UNCHANGED <<caddy, other, swapUpstream, disk, deploys, probed, troubles, stopping>>
    BY <1>5, <2>2, Surely DEF KeepOld
  <2>4. ctr'["current"] = Absent /\ ctr'["previous"] = ctr["current"] /\ ctr'["next"] = ctr["next"]
    BY <2>3, Parts DEF Rename, Machine
  <2>5. job'.alias = job.alias /\ job'.ret = job.ret /\ job'.caller = job.caller
    BY <2>3, Parts DEF Jobs
  <2>6. QED
    BY <2>1, <2>3, <2>4, <2>5 DEF CalmInv, Good, Published, Old, Begun, None, OnSlug, OnNew, NewAlias, Aside, HasPrevious, Kind
<1>6. CASE StopOld
  <2>1. /\ pc = "stopold" /\ pc' = "promote" /\ ctr' = Stop("previous") /\ job' = [job EXCEPT !.stopped = TRUE]
        /\ UNCHANGED <<caddy, other, swapUpstream, disk, deploys, probed, troubles, stopping>>
    BY <1>6, Surely DEF StopOld
  <2>2. /\ ctr'["previous"].ver = ctr["previous"].ver /\ ctr'["previous"].alias = ctr["previous"].alias
        /\ ~ctr'["previous"].run
        /\ ctr'["current"] = ctr["current"] /\ ctr'["next"] = ctr["next"]
    BY <2>1, Parts DEF Stop, Machine, Container
  <2>3. job'.alias = job.alias /\ job'.ret = job.ret /\ job'.caller = job.caller
    BY <2>1, Parts DEF Jobs
  <2>4. QED
    BY <2>1, <2>2, <2>3 DEF CalmInv, Good, Published, Old, Begun, None, OnSlug, OnNew, NewAlias, Aside, HasPrevious, Kind
<1>7. CASE RemoveOld
  <2>1. /\ pc = "rmold" /\ pc' = "promote" /\ ctr' = Remove("current") /\ job' = [job EXCEPT !.removedOld = TRUE]
        /\ UNCHANGED <<caddy, other, swapUpstream, disk, deploys, probed, troubles, stopping>>
    BY <1>7, Surely DEF RemoveOld
  <2>2. ctr'["current"] = Absent /\ ctr'["previous"] = ctr["previous"] /\ ctr'["next"] = ctr["next"]
    BY <2>1, Parts DEF Remove, Machine
  <2>3. job'.alias = job.alias /\ job'.ret = job.ret /\ job'.caller = job.caller
    BY <2>1, Parts DEF Jobs
  <2>4. QED
    BY <2>1, <2>2, <2>3 DEF CalmInv, Good, Published, Old, Begun, None, OnSlug, OnNew, NewAlias, Aside, HasPrevious, Kind
<1>8. CASE PromoteNext
  <2>1. pc \in {"promote", "promote_join"}
    BY <1>8, Surely DEF PromoteNext, Does
  <2>2. pc = "promote"
    BY <2>1 DEF CalmInv
  <2>3. "slug" \in ctr["next"].alias
    BY <2>2 DEF CalmInv, Begun, NewAlias
  <2>4. pc' = "rename" /\ UNCHANGED <<ctr, caddy, other, swapUpstream, job, disk, deploys, probed, stopping>>
    BY <1>8, <2>2, <2>3, Surely DEF PromoteNext, Does
  <2>5. QED
    BY <2>2, <2>4 DEF CalmInv, Good, Published, Old, Begun, None, OnSlug, OnNew, NewAlias, Aside, HasPrevious, Kind
<1>9. CASE RenameNext
  <2>1. pc = "rename"
    BY <1>9, Surely DEF RenameNext, Does
  <2>2. CanRename("next", "current") /\ job.ret = "swap"
    BY <2>1, Parts DEF CalmInv, Begun, None, CanRename, Exists
  <2>3. /\ pc' = "proxy" /\ ctr' = Rename("next", "current") 
        /\ job' = [job EXCEPT !.swapped = (job.ret = "swap")]
        /\ swapUpstream' = NoAlias
        /\ UNCHANGED <<caddy, other, disk, deploys, probed, troubles, stopping>>
    <3>1. /\ ctr' = Rename("next", "current") /\ job' = [job EXCEPT !.swapped = (job.ret = "swap")]
          /\ UNCHANGED <<caddy, other, disk, deploys, probed, troubles, stopping>>
          /\ swapUpstream' = IF job.ret = "swap" THEN NoAlias ELSE swapUpstream
          /\ pc' = CASE job.ret = "swap" -> "proxy"
                     [] job.ret = "abort" -> "fail"
                     [] job.caller = "boot" -> "bootsave"
                     [] OTHER -> "settle_check"
      BY <1>9, <2>2, Surely DEF RenameNext
    <3>2. job.ret = "swap" /\ job.ret # "abort" /\ job.caller # "boot"
      BY <2>2 DEF CalmInv
    <3>3. pc' = "proxy"
      BY <3>1, <3>2
    <3>4. QED
      BY <2>2, <3>1, <3>3
  <2>4. ctr'["next"] = Absent /\ ctr'["current"] = ctr["next"] /\ ctr'["previous"] = ctr["previous"]
    BY <2>3, Parts DEF Rename, Machine
  <2>5. job'.alias = job.alias /\ job'.ret = job.ret /\ job'.caller = job.caller /\ job'.swapped
    BY <2>2, <2>3, Parts DEF Jobs
  <2>6. QED
    BY <2>1, <2>3, <2>4, <2>5 DEF CalmInv, Good, Published, Old, Begun, None, OnSlug, OnNew, NewAlias, Aside, HasPrevious, Kind
<1>10. QED
  BY <1>1, <1>2, <1>3, <1>4, <1>5, <1>6, <1>7, <1>8, <1>9

LEMMA CalmUndo == ASSUME Calm, Typed, CalmInv, Undo PROVE CalmInv'
<1> USE DEF Peace, Fresh, Swapping, AtRest, AtDirect, AtBeside, AtTaking, AtUndoing, AtProxy, AtServed,
        AtSuccess, AtRollback, Resting, Directly, Beside, Taking, Replacing, Undoing, Watched, Steps
<1>1. CASE Abort
  <2>1. pc = "abort"
    BY <1>1, Surely DEF Abort, Does
  <2>2. ~job.renamed
    BY <2>1 DEF CalmInv
  <2>3. pc' = "ab_check"
        /\ UNCHANGED <<ctr, caddy, other, swapUpstream, job, disk, deploys, probed, stopping>>
    BY <1>1, <2>2 DEF Abort, Does
  <2>4. QED
    BY <2>1, <2>3 DEF CalmInv, Good, Published, Old, Begun, None, OnSlug, OnNew, NewAlias, Aside, HasPrevious, Kind
<1>2. CASE AbortStart
  BY <1>2, Surely DEF CalmInv, AbortStart, Does
<1>3. CASE AbortCheck
  <2>1. pc = "ab_check" /\ ctr["current"].run /\ ~job.removedOld /\ job.moved
    BY <1>3 DEF AbortCheck, CalmInv
  <2>2. pc' = "ab_repoint"
        /\ UNCHANGED <<ctr, caddy, other, swapUpstream, job, disk, deploys, probed, stopping>>
    BY <1>3, <2>1, Surely DEF AbortCheck, Running
  <2>3. QED
    BY <2>1, <2>2 DEF CalmInv, Good, Published, Old, Begun, None, OnSlug, OnNew, NewAlias, Aside, HasPrevious, Kind
<1>4. CASE AbortRepoint
  <2>1. /\ pc = "ab_repoint" /\ pc' = "ab_stop" /\ other = NoAlias /\ other' = NoAlias
        /\ caddy' = [loaded |-> "slug", file |-> "slug"] /\ swapUpstream' = NoAlias
        /\ UNCHANGED <<ctr, job, disk, deploys, probed, troubles, stopping>>
    BY <1>4, Surely DEF AbortRepoint, Applies, Accepts
  <2>2. caddy'.loaded = "slug" /\ caddy'.file = "slug"
    BY <2>1
  <2>3. QED
    BY <2>1, <2>2 DEF CalmInv, Good, Published, Old, Begun, None, OnSlug, OnNew, NewAlias, Aside, HasPrevious, Kind
<1>5. CASE AbortRemove
  <2>1. /\ \/ pc = "ab_stop" /\ pc' = "ab_leave" /\ ctr' = Stop("next")
           \/ pc = "ab_leave" /\ pc' = "ab_drop" /\ ctr' = Leave("next")
           \/ pc = "ab_drop" /\ pc' = "fail" /\ ctr' = Remove("next")
        /\ UNCHANGED <<caddy, other, swapUpstream, job, disk, deploys, probed, troubles, stopping>>
    BY <1>5, Surely DEF AbortRemove, Does
  <2>2. /\ ctr'["current"] = ctr["current"] /\ ctr'["previous"] = ctr["previous"]
        /\ pc # "ab_drop" => ctr'["next"].ver = ctr["next"].ver
        /\ pc = "ab_stop" => ~ctr'["next"].run
        /\ pc = "ab_leave" => ctr'["next"].run = ctr["next"].run
        /\ pc = "ab_drop" => ctr'["next"] = Absent
    BY <2>1, Parts DEF Stop, Leave, Remove, Machine, Container
  <2>3. ctr["current"].ver < deploys => ctr["current"].ver <= deploys
    BY Parts DEF Machine, Container
  <2>4. QED
    BY <2>1, <2>2, <2>3 DEF CalmInv, Good, Published, Old, Begun, None, OnSlug, OnNew, NewAlias, Aside, HasPrevious, Kind
<1>6. QED
  BY <1>1, <1>2, <1>3, <1>4, <1>5 DEF Undo

LEMMA CalmEnding == ASSUME Calm, Typed, CalmInv, Ending PROVE CalmInv'
<1> USE DEF Peace, Fresh, Swapping, AtRest, AtDirect, AtBeside, AtTaking, AtUndoing, AtProxy, AtServed,
        AtSuccess, AtRollback, Resting, Directly, Beside, Taking, Replacing, Undoing, Watched, Steps
<1>1. CASE Proxy
  <2>1. /\ pc = "proxy" /\ pc' = "health" /\ other = NoAlias /\ other' = NoAlias
        /\ caddy' = [loaded |-> "slug", file |-> "slug"]
        /\ UNCHANGED <<ctr, swapUpstream, job, disk, deploys, probed, troubles, stopping>>
    BY <1>1, Surely DEF Proxy, Applies, Accepts
  <2>2. caddy'.loaded = "slug" /\ caddy'.file = "slug"
    BY <2>1
  <2>3. Good("current") /\ ctr["current"].run /\ ctr["current"].ver = deploys
    BY <2>1 DEF CalmInv, Good, Begun, NewAlias, Alias
  <2>4. QED
    BY <2>1, <2>2, <2>3 DEF CalmInv, Good, Published, Old, Begun, None, OnSlug, OnNew, NewAlias, Aside, HasPrevious, Kind
<1>2. CASE Healthy
  <2>1. pc = "health" /\ pc' = "finish" /\ probed' = probed \cup {ctr["current"].ver}
        /\ UNCHANGED <<ctr, caddy, other, swapUpstream, job, disk, deploys, troubles, stopping>>
    BY <1>2 DEF Healthy
  <2>2. QED
    BY <2>1 DEF CalmInv, Good, Published, Old, Begun, None, OnSlug, OnNew, NewAlias, Aside, HasPrevious, Kind
<1>3. CASE Unhealthy
  <2>1. /\ pc = "health" /\ pc' \in {"rollback", "fail"}
        /\ pc' = "rollback" => HasPrevious
        /\ pc' = "fail" => Kind # "node" /\ ~(Kind = "dockerfile" /\ job.swapped)
        /\ UNCHANGED <<ctr, caddy, other, swapUpstream, job, disk, deploys, probed, troubles, stopping>>
    BY <1>3 DEF Unhealthy, AfterProxyFailure, Does, HasPrevious
  <2>2. Kind \in {"node", "dockerfile", "static"}
    BY Parts, KindsAssumption DEF Kind, Disks
  <2>3. pc' = "fail" => None("previous") /\ Published("current")
    BY <2>1, <2>2, Parts DEF CalmInv, Aside, Published, HasPrevious
  <2>4. ctr["current"].ver <= deploys
    BY <2>1, Parts DEF CalmInv
  <2>5. QED
    BY <2>1, <2>3, <2>4 DEF CalmInv, Good, Published, Old, Begun, None, OnSlug, OnNew, NewAlias, Aside, HasPrevious, Kind
<1>4. CASE Finish
  <2>1. /\ pc = "finish" /\ pc' = "success"
        /\ \/ (Kind = "node" \/ (Kind = "dockerfile" /\ job.swapped)) /\ ctr' = Remove("previous")
           \/ ~(Kind = "node" \/ (Kind = "dockerfile" /\ job.swapped)) /\ ctr' = ctr
        /\ UNCHANGED <<caddy, other, swapUpstream, job, disk, deploys, probed, troubles, stopping>>
    BY <1>4, Surely DEF Finish, Does
  <2>2. Kind \in {"node", "dockerfile", "static"}
    BY Parts, KindsAssumption DEF Kind, Disks
  <2>3. ctr'["previous"] = Absent /\ ctr'["current"] = ctr["current"] /\ ctr'["next"] = ctr["next"]
    BY <1>4, <2>1, <2>2, Surely, Parts DEF Finish, Does, CalmInv, Aside, None, HasPrevious, Remove, Machine
  <2>4. QED
    BY <2>1, <2>3 DEF CalmInv, Good, Published, Old, Begun, None, OnSlug, OnNew, NewAlias, Aside, HasPrevious, Kind
<1>5. CASE Rollback
  <2>1. pc \in {"rollback", "rb_rename", "rb_start"} /\ job.caller = "deploy"
    BY <1>5, Surely DEF Rollback, Does, CalmInv
  <2>2. CASE pc = "rollback"
    <3>1. /\ pc' = "rb_rename" /\ ctr' = Remove("current")
          /\ UNCHANGED <<caddy, other, swapUpstream, job, disk, deploys, probed, troubles, stopping>>
      BY <1>5, <2>2, Surely DEF Rollback, Does
    <3>2. ctr'["current"] = Absent /\ ctr'["previous"] = ctr["previous"] /\ ctr'["next"] = ctr["next"]
      BY <3>1, Parts DEF Remove, Machine
    <3>3. QED
      BY <2>2, <3>1, <3>2 DEF CalmInv, Good, Published, Old, Begun, None, OnSlug, OnNew, NewAlias, Aside, HasPrevious, Kind
  <2>3. CASE pc = "rb_rename" /\ Exists("previous")
    <3>1. CanRename("previous", "current")
      BY <2>3, Parts DEF CalmInv, None, CanRename, Exists
    <3>2. /\ pc' = "rb_start" /\ ctr' = Rename("previous", "current")
          /\ UNCHANGED <<caddy, other, swapUpstream, job, disk, deploys, probed, troubles, stopping>>
      BY <1>5, <2>3, <3>1, Surely DEF Rollback, Does
    <3>3. ctr'["current"] = ctr["previous"] /\ ctr'["previous"] = Absent /\ ctr'["next"] = ctr["next"]
      BY <3>2, Parts DEF Rename, Machine
    <3>4. Old("previous") /\ ~ctr["previous"].run
      BY <2>3, Parts DEF CalmInv, Aside, None, Exists
    <3>5. QED
      BY <2>3, <3>2, <3>3, <3>4 DEF CalmInv, Good, Published, Old, Begun, None, OnSlug, OnNew, NewAlias, Aside, HasPrevious, Kind
  <2>4. CASE pc = "rb_rename" /\ ~Exists("previous")
    <3>1. /\ pc' = "fail"
          /\ UNCHANGED <<ctr, caddy, other, swapUpstream, job, disk, deploys, probed, troubles, stopping>>
      BY <1>5, <2>1, <2>4, Surely DEF Rollback, Does, CanRename
    <3>2. None("previous") /\ None("current") /\ disk.published = 0
      BY <2>4 DEF CalmInv, Aside, Old, Good, Exists
    <3>3. ctr["current"].ver <= deploys
      BY <3>2, Parts DEF None
    <3>4. QED
      BY <2>4, <3>1, <3>2, <3>3 DEF CalmInv, Good, Published, Old, Begun, None, OnSlug, OnNew, NewAlias, Aside, HasPrevious, Kind
  <2>5. CASE pc = "rb_start"
    <3>1. /\ pc' = "fail" /\ ctr' = Begin("current")
          /\ UNCHANGED <<caddy, other, swapUpstream, job, disk, deploys, probed, troubles, stopping>>
      BY <1>5, <2>1, <2>5, Surely DEF Rollback, Does
    <3>2. Old("current") /\ Exists("current")
      BY <2>5 DEF CalmInv, Old, Good, Exists
    <3>3. /\ ctr'["current"].ver = ctr["current"].ver /\ ctr'["current"].alias = ctr["current"].alias
          /\ ctr'["current"].run
          /\ ctr'["previous"] = ctr["previous"] /\ ctr'["next"] = ctr["next"]
      BY <3>1, <3>2, Parts DEF Begin, Machine, Container
    <3>4. ctr["current"].ver < deploys => ctr["current"].ver <= deploys
      BY Parts DEF Machine, Container
    <3>5. QED
      BY <2>5, <3>1, <3>2, <3>3, <3>4 DEF CalmInv, Good, Published, Old, Begun, None, OnSlug, OnNew, NewAlias, Aside, HasPrevious, Kind
  <2>6. QED
    BY <2>1, <2>2, <2>3, <2>4, <2>5
<1>6. CASE Succeed
  <2>1. /\ pc = "success" /\ pc' = "save_project" /\ other = NoAlias /\ other' = NoAlias
        /\ caddy' = [loaded |-> UpstreamFor, file |-> UpstreamFor]
        /\ UNCHANGED <<ctr, swapUpstream, job, disk, deploys, probed, troubles, stopping>>
    BY <1>6, Surely DEF Succeed, Applies, Accepts
  <2>2. UpstreamFor = "slug"
    BY <2>1 DEF CalmInv, OnSlug, UpstreamFor
  <2>3. caddy'.loaded = "slug" /\ caddy'.file = "slug"
    BY <2>1, <2>2
  <2>4. QED
    BY <2>1, <2>3 DEF CalmInv, Good, Published, Old, Begun, None, OnSlug, OnNew, NewAlias, Aside, HasPrevious, Kind
<1>7. CASE Fail
  <2>1. pc = "fail" /\ pc' = "save_failed"
        /\ \/ other' = NoAlias /\ caddy' = [loaded |-> UpstreamFor, file |-> UpstreamFor]
           \/ UNCHANGED <<caddy, other>>
        /\ UNCHANGED <<ctr, swapUpstream, job, disk, deploys, probed, troubles, stopping>>
    BY <1>7, Surely DEF Fail, Applies, Accepts
  <2>2. UpstreamFor = "slug"
    BY <2>1 DEF CalmInv, OnSlug, UpstreamFor
  <2>3. caddy'.loaded = "slug" /\ caddy'.file = "slug" /\ other' \in {NoAlias, "slug"}
    BY <2>1, <2>2 DEF CalmInv, OnSlug
  <2>4. QED
    BY <2>1, <2>3 DEF CalmInv, Good, Published, Old, Begun, None, OnSlug, OnNew, NewAlias, Aside, HasPrevious, Kind
<1>8. CASE Save
  <2>1. CASE Saves("save_project", "save_job", [disk EXCEPT !.stopped = FALSE, !.published = deploys])
    <3>1. disk'.published = deploys /\ ~disk'.stopped /\ disk'.kind = disk.kind
      BY <2>1, Parts DEF Saves, Disks
    <3>2. ctr["current"].ver <= deploys
      BY <2>1, Parts DEF Saves, CalmInv
    <3>3. QED
      BY <2>1, <3>1, <3>2 DEF Saves, CalmInv, Good, Published, Old, Begun, None, OnSlug, OnNew, NewAlias, Aside, HasPrevious, Kind
  <2>2. CASE \/ Saves("save_job", "idle", [disk EXCEPT !.status = "success"])
             \/ Saves("save_failed", "idle", [disk EXCEPT !.status = "failed"])
    <3>1. disk'.published = disk.published /\ disk'.stopped = disk.stopped /\ disk'.kind = disk.kind
      BY <2>2, Parts DEF Saves, Disks
    <3>2. QED
      BY <2>2, <3>1 DEF Saves, CalmInv, Good, Published, Old, Begun, None, OnSlug, OnNew, NewAlias, Aside, HasPrevious, Kind
  <2>3. QED
    BY <1>8, <2>1, <2>2 DEF Save
<1>9. QED
  BY <1>1, <1>2, <1>3, <1>4, <1>5, <1>6, <1>7, <1>8 DEF Ending

LEMMA CalmStep == ASSUME Calm, Typed, CalmInv, [Next]_vars PROVE CalmInv'
<1> USE DEF Peace, Fresh, Swapping, AtRest, AtDirect, AtBeside, AtTaking, AtUndoing, AtProxy, AtServed,
        AtSuccess, AtRollback, Resting, Directly, Beside, Taking, Replacing, Undoing, Watched, Steps
<1>1. CASE StartDeploy
  <2>1. /\ pc = "idle" /\ pc' = "settle" /\ deploys' = deploys + 1 /\ job' = IdleJob
        /\ disk' = [disk EXCEPT !.status = "running"]
        /\ UNCHANGED <<ctr, caddy, other, swapUpstream, probed, troubles, stopping>>
    BY <1>1 DEF StartDeploy
  <2>2. disk'.published = disk.published /\ disk'.stopped = disk.stopped /\ disk'.kind = disk.kind
    BY <2>1, Parts DEF Disks
  <2>3. job'.caller = "deploy" /\ ~job'.renamed /\ ~job'.removedOld
    BY <2>1 DEF IdleJob
  <2>4. ctr["current"].ver < deploys' /\ ctr["current"].ver <= deploys'
    <3>1. ctr["current"].ver <= deploys
      BY <2>1 DEF CalmInv
    <3>2. QED
      BY <2>1, <3>1, Parts DEF Machine, Container
  <2>5. QED
    BY <2>1, <2>2, <2>3, <2>4 DEF CalmInv, Good, Published, Old, Begun, None, OnSlug, OnNew, NewAlias, Aside, HasPrevious, Kind
<1>2. CASE Panel
  <2>1. CASE Notice
    <3>1. pc = "notice" /\ pc' = "plan"
          /\ \/ other' = NoAlias /\ caddy' = [loaded |-> UpstreamFor, file |-> UpstreamFor]
             \/ UNCHANGED <<caddy, other>>
          /\ UNCHANGED <<ctr, swapUpstream, job, disk, deploys, probed, troubles, stopping>>
      BY <2>1, Surely DEF Notice, Applies, Accepts
    <3>2. UpstreamFor = "slug"
      BY <3>1 DEF CalmInv, OnSlug, UpstreamFor
    <3>3. caddy'.loaded = "slug" /\ caddy'.file = "slug" /\ other' \in {NoAlias, "slug"}
      BY <3>1, <3>2 DEF CalmInv, OnSlug
    <3>4. QED
      BY <3>1, <3>3 DEF CalmInv, Good, Published, Old, Begun, None, OnSlug, OnNew, NewAlias, Aside, HasPrevious, Kind
  <2>2. CASE BuildFails
    <3>1. ctr["current"].ver < deploys => ctr["current"].ver <= deploys
      BY Parts DEF Machine, Container
    <3>2. QED
      BY <2>2, <3>1 DEF BuildFails, CalmInv, Good, Published, Old, Begun, None, OnSlug, OnNew, NewAlias, Aside, HasPrevious, Kind
  <2>3. CASE Recover
    BY <2>3, RecoverAt DEF CalmInv, BootSteps
  <2>4. QED
    BY <1>2, <2>1, <2>2, <2>3, CalmSettle, CalmDirect, CalmBegin, CalmTake, CalmUndo, CalmEnding
       DEF Panel, Swap
<1>3. CASE Boot
  BY <1>3 DEF Boot, CalmInv
<1>4. CASE Crash \/ AskStop
  BY <1>4, NoTrouble DEF Crash, AskStop
<1>5. CASE Stopped
  BY <1>5 DEF Stopped, CalmInv
<1>6. CASE PersonStart
  <2>1. /\ pc = "idle" /\ Exists("current") /\ ctr' = Begin("current")
        /\ disk' = [disk EXCEPT !.stopped = FALSE]
        /\ UNCHANGED <<caddy, swapUpstream, job, pc, deploys, probed, troubles, stopping>>
    BY <1>6 DEF PersonStart
  <2>2. other' = other
    BY <1>6 DEF PersonStart, CalmInv
  <2>3. /\ ctr'["current"].ver = ctr["current"].ver /\ ctr'["current"].alias = ctr["current"].alias
        /\ ctr'["current"].run
        /\ ctr'["previous"] = ctr["previous"] /\ ctr'["next"] = ctr["next"]
    BY <2>1, Parts DEF Begin, Machine, Container
  <2>4. disk'.published = disk.published /\ ~disk'.stopped /\ disk'.kind = disk.kind
    BY <2>1, Parts DEF Disks
  <2>5. Good("current") /\ Published("current")
    BY <2>1, Parts DEF CalmInv, None, Exists
  <2>6. QED
    BY <2>1, <2>2, <2>3, <2>4, <2>5 DEF CalmInv, Good, Published, Old, Begun, None, OnSlug, OnNew, NewAlias, Aside, HasPrevious, Kind
<1>7. CASE OtherCompute
  <2>1. /\ pc \notin Queued /\ other' = UpstreamFor
        /\ UNCHANGED <<ctr, caddy, swapUpstream, job, pc, disk, deploys, probed, troubles, stopping>>
    BY <1>7 DEF OtherCompute
  <2>2. UpstreamFor = IF swapUpstream # NoAlias THEN swapUpstream ELSE "slug"
    BY DEF UpstreamFor
  <2>3. job.alias \in Alias => job.alias # NoAlias
    BY DEF Alias, NoAlias
  <2>4. QED
    BY <2>1, <2>2, <2>3 DEF Queued, CalmInv, Good, Published, Old, Begun, None, OnSlug, OnNew, NewAlias, Aside, HasPrevious, Kind
<1>8. CASE OtherLoad
  <2>1. /\ other # NoAlias /\ other' = NoAlias /\ caddy' = [loaded |-> other, file |-> other]
        /\ UNCHANGED <<ctr, swapUpstream, job, pc, disk, deploys, probed, troubles, stopping>>
    BY <1>8, NoTrouble DEF OtherLoad
  <2>2. caddy'.loaded = other /\ caddy'.file = other
    BY <2>1
  <2>3. QED
    BY <2>1, <2>2 DEF CalmInv, Good, Published, Old, Begun, None, OnSlug, OnNew, NewAlias, Aside, HasPrevious, Kind
<1>9. CASE CaddyRestart
  <2>1. /\ caddy'.loaded = caddy.file /\ caddy'.file = caddy.file
        /\ UNCHANGED <<ctr, other, swapUpstream, job, pc, disk, deploys, probed, stopping>>
    BY <1>9, Parts DEF CaddyRestart, Proxies
  <2>2. QED
    BY <2>1 DEF CalmInv, Good, Published, Old, Begun, None, OnSlug, OnNew, NewAlias, Aside, HasPrevious, Kind
<1>10. CASE UNCHANGED vars
  BY <1>10 DEF vars, CalmInv, Good, Published, Old, Begun, None, OnSlug, OnNew, NewAlias, Aside, HasPrevious, Kind
<1>11. QED
  BY <1>1, <1>2, <1>3, <1>4, <1>5, <1>6, <1>7, <1>8, <1>9, <1>10 DEF Next

LEMMA CalmInit == ASSUME Init PROVE CalmInv
<1>1. /\ \A n \in Names : ctr[n] = Absent
      /\ caddy.loaded = "slug" /\ caddy.file = "slug" /\ other = NoAlias /\ swapUpstream = NoAlias
      /\ job.caller = "deploy" /\ pc = "idle" /\ deploys = 0 /\ stopping = {}
  BY DEF Init, IdleJob
<1>2. Typed
  BY InvInit, Types DEF IInv
<1>3. disk.published = 0 /\ disk.stopped = FALSE
  <2>1. disk \in [kind : Kinds, status : {"none"}, stopped : {FALSE}, published : {0}]
    BY DEF Init
  <2>2. disk.published \in {0}
    BY <2>1
  <2>3. disk.stopped \in {FALSE}
    BY <2>1
  <2>4. QED
    BY <2>2, <2>3
<1>4. QED
  BY <1>1, <1>2, <1>3, Parts DEF CalmInv, Peace, Fresh, Swapping, AtRest, AtDirect, AtBeside, AtTaking, AtUndoing, AtProxy, AtServed,
        AtSuccess, AtRollback,
     Resting, Directly, Beside, Taking, Replacing, Undoing, Watched, Steps, None, OnSlug

LEMMA CalmInvariant == ASSUME Calm PROVE Spec => [](Typed /\ CalmInv)
<1>1. Init => Typed /\ CalmInv
  BY InvInit, CalmInit, Types DEF IInv
<1>2. IInv /\ CalmInv /\ [Next]_vars => CalmInv'
  BY CalmStep, Types DEF IInv
<1>3. IInv => Typed
  BY Types DEF IInv
<1>4. QED
  BY <1>1, <1>2, <1>3, Invariant, PTL DEF Spec

-----------------------------------------------------------------------------
(* What visitors see. *)

LEMMA ReachedIs == ASSUME Typed, CalmInv PROVE Reached = Seen
<1> USE DEF Peace, Fresh, Swapping, AtRest, AtDirect, AtBeside, AtTaking, AtUndoing, AtProxy, AtServed,
        AtSuccess, AtRollback, Resting, Directly, Beside, Taking, Replacing, Undoing, Watched, Steps,
        Good, Old, Begun, None, OnSlug, OnNew, NewAlias, Aside, Both, NewOnly
<1> DEFINE Answers(n) == ctr[n].run /\ caddy.loaded \in ctr[n].alias
<1>1. ~Answers("previous")
  BY Parts DEF CalmInv
<1>2. Answers("next") <=> pc \in Both \cup NewOnly
  BY Parts DEF CalmInv
<1>3. Answers("current") <=> pc \notin NewOnly /\ ctr["current"].run
  BY Parts DEF CalmInv
<1>4. pc \in Both => ctr["current"].run
  BY DEF CalmInv
<1>5. pc \in Both \cup NewOnly => ctr["next"].ver = deploys
  BY DEF CalmInv
<1>6. Reached = {ctr[n].ver : n \in {m \in Names : Answers(m)}}
  BY DEF Reached, Running
<1> HIDE DEF Answers
<1>7. CASE pc \in Both
  <2>1. {m \in Names : Answers(m)} = {"current", "next"}
    BY <1>1, <1>2, <1>3, <1>4, <1>7, Parts
  <2>2. QED
    BY <1>5, <1>6, <1>7, <2>1 DEF Seen
<1>8. CASE pc \in NewOnly
  <2>1. {m \in Names : Answers(m)} = {"next"}
    BY <1>1, <1>2, <1>3, <1>8, Parts
  <2>2. QED
    BY <1>5, <1>6, <1>8, <2>1 DEF Seen
<1>9. CASE pc \notin Both \cup NewOnly /\ ctr["current"].run
  <2>1. {m \in Names : Answers(m)} = {"current"}
    BY <1>1, <1>2, <1>3, <1>9, Parts
  <2>2. QED
    BY <1>6, <1>9, <2>1 DEF Seen
<1>10. CASE pc \notin Both \cup NewOnly /\ ~ctr["current"].run
  <2>1. {m \in Names : Answers(m)} = {}
    BY <1>1, <1>2, <1>3, <1>10, Parts
  <2>2. QED
    BY <1>6, <1>10, <2>1 DEF Seen
<1>11. QED
  BY <1>7, <1>8, <1>9, <1>10

\* In calm weather a published project always answers, but between the two commands
\* of rollbackNodeServer that put the previous version back, for any number of
\* deploys, good or bad, and of restarts of Caddy.
THEOREM AlwaysServed == ASSUME Calm PROVE Spec => []Served
<1>1. ASSUME Typed, CalmInv, Online, pc \notin {"rb_rename", "rb_start"} PROVE Seen # {}
  BY <1>1 DEF CalmInv, Online, Seen, Both, NewOnly, Peace, Fresh, Swapping, AtRest, AtDirect, AtBeside, AtTaking, AtUndoing, AtProxy, AtServed,
        AtSuccess, AtRollback,
     Resting, Directly, Beside, Taking, Replacing, Undoing, Watched, Steps, Begun
<1>2. Typed /\ CalmInv => Served
  BY <1>1, ReachedIs DEF Served
<1>3. QED
  BY <1>2, CalmInvariant, PTL

\* In calm weather visitors are split between two versions at most while the proxy
\* is being moved, never while the old version is drained and never after the job.
THEOREM NeverMixed == ASSUME Calm PROVE Spec => []NoMix
<1>1. ASSUME Typed, CalmInv, pc \notin Both PROVE ~(Cardinality(Seen) > 1)
  <2>1. Cardinality({}) = 0 /\ \A v : Cardinality({v}) = 1
    BY FS_EmptySet, FS_Singleton
  <2>2. Seen = {} \/ \E v : Seen = {v}
    BY <1>1 DEF Seen
  <2>3. QED
    BY <2>1, <2>2
<1>2. Typed /\ CalmInv => NoMix
  BY <1>1, ReachedIs DEF NoMix, Both
<1>3. QED
  BY <1>2, CalmInvariant, PTL

\* In calm weather a version that began beside another gets visitors only after it
\* answered the probe of phase 2.
THEOREM ProbedFirst == ASSUME Calm PROVE Spec => []OnlyProbed
<1>1. ASSUME Typed, CalmInv, NEW n \in Names, Running(n), caddy.loaded \in ctr[n].alias,
             ctr[n].alias # {"slug"}
      PROVE  ctr[n].ver \in probed
  BY <1>1, Parts DEF CalmInv, Running, Peace, Fresh, Swapping, AtRest, AtDirect, AtBeside, AtTaking, AtUndoing, AtProxy, AtServed,
        AtSuccess, AtRollback,
     Resting, Directly, Beside, Taking, Replacing, Undoing, Watched, Steps, Good, Old, Begun, None, OnSlug, OnNew, NewAlias, Aside
<1>2. Typed /\ CalmInv => OnlyProbed
  BY <1>1 DEF OnlyProbed
<1>3. QED
  BY <1>2, CalmInvariant, PTL

\* In calm weather a deploy that fails leaves visitors on the version of the last
\* deploy that succeeded (deployedSource and deployedCommit tell the truth).
THEOREM FailureIsUndone == ASSUME Calm PROVE Spec => []FailureKeepsPublished
<1>1. ASSUME Typed, CalmInv, HasPrevious, pc = "idle", Online PROVE Seen = {disk.published}
  BY <1>1 DEF CalmInv, Online, Seen, Both, NewOnly, Peace, Fresh, Swapping, AtRest, AtDirect, AtBeside, AtTaking, AtUndoing, AtProxy, AtServed,
        AtSuccess, AtRollback,
     Resting, Directly, Beside, Taking, Replacing, Undoing, Watched, Steps, Published
<1>2. Typed /\ CalmInv => FailureKeepsPublished
  BY <1>1, ReachedIs DEF FailureKeepsPublished
<1>3. QED
  BY <1>2, CalmInvariant, PTL

-----------------------------------------------------------------------------
(* What visitors see is a sequence of clean switches. *)

Alone == ~(pc \in Both \cup NewOnly)
Stays == /\ ctr'["current"].run <=> ctr["current"].run
         /\ (ctr["current"].run => ctr'["current"].ver = ctr["current"].ver)
Appears == Seen = {} /\ \E v : Seen' = {v}
Joins   == \E v, w : v # w /\ Seen = {v} /\ Seen' = {v, w}
Leaves  == \E v, w : v # w /\ Seen = {v, w} /\ (Seen' = {v} \/ Seen' = {w})
Vanish  == \E v : Seen = {v} /\ Seen' = {}

\* The steps that change what visitors see are six.
LEMMA SeenStep ==
    ASSUME Calm, Typed, CalmInv, CalmInv', [Next]_vars
    PROVE  Seen' = Seen \/ Appears \/ Joins \/ Leaves \/ Vanish
<1> USE DEF Resting, Directly, Beside, Taking, Replacing, Undoing, Watched, Steps, Both, NewOnly
<1>1. ASSUME Alone, Alone', Stays PROVE Seen' = Seen
  BY <1>1 DEF Alone, Stays, Seen
<1>2. ASSUME pc \in NewOnly, pc' \in NewOnly, deploys' = deploys PROVE Seen' = Seen
  BY <1>2 DEF Seen
<1>3. CASE pc = "alias_join" /\ pc' = "repoint" /\ deploys' = deploys /\ ctr'["current"] = ctr["current"]
  <2>1. ctr["current"].run /\ ctr["current"].ver # deploys
    BY <1>3, Parts DEF CalmInv, AtBeside, Old, Machine, Container
  <2>2. Seen = {ctr["current"].ver} /\ Seen' = {ctr["current"].ver, deploys}
    BY <1>3, <2>1 DEF Seen
  <2>3. QED
    BY <2>1, <2>2 DEF Joins
<1>4. CASE pc = "repoint" /\ pc' = "reprobe" /\ deploys' = deploys
  <2>1. ctr["current"].ver # deploys
    BY <1>4, Parts DEF CalmInv, AtBeside, Old, Machine, Container
  <2>2. Seen = {ctr["current"].ver, deploys} /\ Seen' = {deploys}
    BY <1>4 DEF Seen
  <2>3. QED
    BY <2>1, <2>2 DEF Leaves
<1>5. CASE pc = "ab_repoint" /\ pc' = "ab_stop" /\ deploys' = deploys /\ ctr' = ctr
  <2>1. ctr["current"].ver # deploys
    BY <1>5, Parts DEF CalmInv, AtTaking, Old, Machine, Container
  <2>2. Seen = {deploys} /\ Seen' = {deploys, ctr["current"].ver}
    BY <1>5 DEF Seen
  <2>3. QED
    BY <2>1, <2>2 DEF Joins
<1>6. CASE pc = "ab_stop" /\ pc' = "ab_leave" /\ ctr'["current"] = ctr["current"]
  <2>1. ctr["current"].run /\ ctr["current"].ver # deploys
    BY <1>6, Parts DEF CalmInv, AtUndoing, Old, Machine, Container
  <2>2. Seen = {ctr["current"].ver, deploys} /\ Seen' = {ctr["current"].ver}
    BY <1>6, <2>1 DEF Seen
  <2>3. QED
    BY <2>1, <2>2 DEF Leaves
<1>7. CASE pc = "rollback" /\ pc' = "rb_rename"
  <2>1. Seen = {ctr["current"].ver}
    BY <1>7 DEF CalmInv, AtServed, Seen
  <2>2. Seen' = {}
    BY <1>7, Parts DEF CalmInv, AtRollback, None, Seen
  <2>3. QED
    BY <2>1, <2>2 DEF Vanish
<1>8. CASE pc \in {"l_run", "rb_start"} /\ Alone'
  <2>1. Seen = {}
    BY <1>8, Parts DEF CalmInv, AtDirect, AtRollback, None, Seen
  <2>2. Seen' = {} \/ Seen' = {ctr'["current"].ver}
    BY <1>8 DEF Alone, Seen
  <2>3. QED
    BY <2>1, <2>2 DEF Appears
<1>9. CASE pc = "rename" /\ pc' = "proxy" /\ deploys' = deploys
  <2>1. ctr'["current"].ver = deploys /\ ctr'["current"].run
    BY <1>9 DEF CalmInv, AtProxy, Begun
  <2>2. QED
    BY <1>9, <2>1 DEF Seen
<1>10. CASE Settle
  <2>1. pc = "settle" /\ ctr' = ctr /\ Alone'
    BY <1>10, Surely DEF CalmInv, Peace, Alone, Settle, SettleClean, SettleStopped, SettlePromote, SettleCheck,
       SettleSync, SettleRelease, SettleBack, SettleRemove, Applies, Does, AfterSettle
  <2>2. QED
    BY <1>1, <2>1 DEF Alone, Stays
<1>11. CASE Direct
  <2>1. pc = "plan" \/ pc \in Directly
    BY <1>11, DirectAt DEF CalmInv, Peace
  <2>2. CASE pc = "plan"
    <3>1. ctr' = ctr /\ pc' \in Directly
      BY <1>11, <2>2 DEF Direct, PlanDirect, DirectClear, DirectRun, RunsInto, Renames, Tries, Does, Fails
    <3>2. QED
      BY <1>1, <2>2, <3>1 DEF Alone, Stays
  <2>3. CASE pc = "l_run"
    <3>1. Alone'
      BY <1>11, <2>3 DEF Alone, Direct, PlanDirect, DirectClear, DirectRun, RunsInto, Renames, Tries, Does,
         Fails
    <3>2. QED
      BY <1>8, <2>3, <3>1
  <2>4. CASE pc \in Directly \ {"l_run"}
    <3>1. pc' \in {"l_rename", "l_stop", "l_run"}
      BY <1>11, <2>4, Surely DEF Direct, PlanDirect, DirectClear, DirectRun, Does
    <3>2. ~ctr["current"].run /\ ~ctr'["current"].run
      BY <2>4, <3>1, Parts DEF CalmInv, Peace, AtDirect, None
    <3>3. QED
      BY <1>1, <2>4, <3>1, <3>2 DEF Alone, Stays
  <2>5. QED
    BY <2>1, <2>2, <2>3, <2>4
<1>12. CASE PlanSwap \/ DropLeftover \/ StartNext \/ NextReady \/ NextUnhealthy \/ DropFailed
  <2>1. Remove("next")["current"] = ctr["current"] /\ \A a, up : Create("next", a, up)["current"] = ctr["current"]
    BY Parts DEF Remove, Create, Machine
  <2>2. ctr'["current"] = ctr["current"] /\ Alone /\ Alone'
    BY <1>12, <2>1 DEF Alone, PlanSwap, DropLeftover, StartNext, NextReady, NextUnhealthy, DropFailed,
       RunsInto, Tries, Does, Fails
  <2>3. QED
    BY <1>1, <2>2 DEF Stays
<1>13. CASE AliasNext
  <2>1. /\ Leave("next")["current"] = ctr["current"]
        /\ \A a : Join("next", a)["current"] = ctr["current"]
    BY Parts DEF Leave, Join, Machine
  <2>2. CASE pc = "alias"
    <3>1. pc' = "alias_join" /\ ctr'["current"] = ctr["current"]
      BY <1>13, <2>1, <2>2, NoTrouble, Surely DEF AliasNext
    <3>2. QED
      BY <1>1, <2>2, <3>1 DEF Alone, Stays
  <2>3. CASE pc = "alias_join"
    <3>1. pc' = "repoint" /\ ctr'["current"] = ctr["current"] /\ deploys' = deploys
      BY <1>13, <2>1, <2>3, Surely DEF AliasNext, Moves
    <3>2. QED
      BY <1>3, <2>3, <3>1
  <2>4. QED
    BY <1>13, <2>2, <2>3, NoTrouble, Surely DEF AliasNext
<1>14. CASE Repoint
  BY <1>4, <1>14, Surely DEF Repoint, Applies
<1>15. CASE Reprobe \/ RemovePrevious \/ KeepOld \/ StopOld \/ RemoveOld
  BY <1>2, <1>15, Surely DEF Reprobe, RemovePrevious, KeepOld, StopOld, RemoveOld, Does
<1>16. CASE PromoteNext
  <2>1. pc = "promote" /\ "slug" \in ctr["next"].alias
    <3>1. pc = "promote"
      BY <1>16, Surely DEF CalmInv, Peace, PromoteNext, Does
    <3>2. QED
      BY <3>1 DEF CalmInv, AtTaking, Begun, NewAlias
  <2>2. QED
    BY <1>2, <1>16, <2>1, Surely DEF PromoteNext, Does
<1>17. CASE RenameNext
  <2>1. pc = "rename" /\ deploys' = deploys
    BY <1>17, Surely DEF RenameNext, Does
  <2>2. job.ret = "swap" /\ job.ret # "abort" /\ job.caller # "boot"
    BY <2>1 DEF CalmInv, Peace, Swapping
  <2>3. PromoteFailed = "abort"
    BY <2>2 DEF PromoteFailed
  <2>4. CASE CanRename("next", "current")
    <3>1. pc' = CASE job.ret = "swap" -> "proxy"
                  [] job.ret = "abort" -> "fail"
                  [] job.caller = "boot" -> "bootsave"
                  [] OTHER -> "settle_check"
      BY <1>17, <2>4, Surely DEF RenameNext
    <3>2. pc' = "proxy"
      BY <2>2, <3>1
    <3>3. QED
      BY <1>9, <2>1, <3>2
  <2>5. CASE ~CanRename("next", "current")
    <3>1. pc' = "abort"
      BY <1>17, <2>3, <2>5, Surely DEF RenameNext, Does
    <3>2. QED
      BY <1>2, <2>1, <3>1
  <2>6. QED
    BY <2>4, <2>5
<1>18. CASE Abort \/ AbortStart \/ AbortCheck
  <2>1. pc \in {"abort", "ab_check"} /\ deploys' = deploys
    BY <1>18, Surely DEF CalmInv, Peace, Abort, AbortStart, AbortCheck, Does
  <2>2. ~job.renamed /\ job.moved
    BY <2>1 DEF CalmInv, Fresh, AtTaking
  <2>3. pc' \in {"ab_check", "ab_repoint", "promote"}
    BY <1>18, <2>1, <2>2 DEF Abort, AbortStart, AbortCheck, Tries, Does, Fails
  <2>4. QED
    BY <1>2, <2>1, <2>3
<1>19. CASE AbortRepoint
  BY <1>5, <1>19, Surely DEF AbortRepoint, Applies
<1>20. CASE AbortRemove
  <2>1. /\ Stop("next")["current"] = ctr["current"] /\ Leave("next")["current"] = ctr["current"]
        /\ Remove("next")["current"] = ctr["current"]
    BY Parts DEF Stop, Leave, Remove, Machine
  <2>2. /\ \/ pc = "ab_stop" /\ pc' = "ab_leave"
           \/ Alone /\ Alone'
        /\ ctr'["current"] = ctr["current"]
    BY <1>20, <2>1, Surely DEF AbortRemove, Does, Alone
  <2>3. QED
    BY <1>1, <1>6, <2>2 DEF Stays
<1>21. CASE Proxy \/ Healthy \/ Unhealthy \/ Finish \/ Succeed \/ Fail \/ Save
  <2>1. Remove("previous")["current"] = ctr["current"]
    BY Parts DEF Remove, Machine
  <2>2. ctr'["current"] = ctr["current"] /\ Alone /\ Alone'
    BY <1>21, <2>1, Surely DEF Alone, Proxy, Healthy, Unhealthy, Finish, Succeed, Fail, Save, Saves, Applies,
       Does, AfterProxyFailure
  <2>3. QED
    BY <1>1, <2>2 DEF Stays
<1>22. CASE Rollback
  <2>1. job.caller = "deploy"
    BY DEF CalmInv, Peace
  <2>2. CASE pc = "rollback"
    BY <1>7, <1>22, <2>2, Surely DEF Rollback, Does
  <2>3. CASE pc = "rb_start"
    <3>1. pc' = "fail"
      BY <1>22, <2>1, <2>3, Surely DEF Rollback, Does
    <3>2. QED
      BY <1>8, <2>3, <3>1 DEF Alone
  <2>4. CASE pc = "rb_rename"
    <3>1. pc' = "rb_start" \/ (pc' = "fail" /\ ctr' = ctr)
      BY <1>22, <2>1, <2>4, Surely DEF Rollback, Does
    <3>2. ~ctr["current"].run /\ ~ctr'["current"].run
      BY <2>4, <3>1, Parts DEF CalmInv, AtRollback, None
    <3>3. QED
      BY <1>1, <2>4, <3>1, <3>2 DEF Alone, Stays
  <2>5. QED
    BY <1>22, <2>2, <2>3, <2>4, Surely DEF Rollback, Does
<1>23. CASE Notice \/ BuildFails
  <2>1. ctr' = ctr /\ Alone /\ Alone'
    BY <1>23, NoticeAt DEF BuildFails, Alone
  <2>2. QED
    BY <1>1, <2>1 DEF Stays
<1>24. CASE Recover
  BY <1>24, RecoverAt DEF CalmInv, Peace, BootSteps
<1>25. CASE Panel
  BY <1>10, <1>11, <1>12, <1>13, <1>14, <1>15, <1>16, <1>17, <1>18, <1>19, <1>20, <1>21, <1>22, <1>23,
     <1>24, <1>25 DEF Panel, Swap, Undo, Ending
<1>26. CASE StartDeploy
  BY <1>1, <1>26 DEF StartDeploy, Alone, Stays
<1>27. CASE Crash \/ Boot \/ AskStop \/ Stopped
  BY <1>27, NoTrouble DEF CalmInv, Peace, Crash, Boot, AskStop, Stopped
<1>28. CASE PersonStart
  <2>1. pc = "idle" /\ pc' = pc /\ Exists("current") /\ ctr' = Begin("current")
    BY <1>28 DEF PersonStart
  <2>2. ctr["current"].run
    BY <2>1, Parts DEF CalmInv, AtRest, None, Exists
  <2>3. ctr'["current"].run = TRUE /\ ctr'["current"].ver = ctr["current"].ver
    BY <2>1, Parts DEF Begin, Exists, Machine, Container
  <2>4. QED
    BY <1>1, <2>1, <2>2, <2>3, Parts DEF Alone, Stays, Machine, Container
<1>29. CASE OtherCompute \/ OtherLoad \/ CaddyRestart \/ UNCHANGED vars
  BY <1>29 DEF OtherCompute, OtherLoad, CaddyRestart, vars, Seen
<1>30. QED
  BY <1>25, <1>26, <1>27, <1>28, <1>29 DEF Next

SeenRight == Reached = Seen

\* In calm weather every deploy, good or bad, is for the visitors what ZeroDowntime
\* says: a site appears, moves to another version or back through a moment in which
\* both answer, or goes dark, and never jumps.
THEOREM SwitchesAreClean == ASSUME Calm PROVE Spec => SwitchesCleanly
<1>1. Init => Switch!Init
  <2>1. ASSUME Init PROVE Reached = {}
    BY <2>1 DEF Init, Reached, Running, Absent
  <2>2. QED
    BY <2>1 DEF Switch!Init
<1>2. ASSUME Typed, CalmInv, CalmInv', [Next]_vars, SeenRight, SeenRight'
      PROVE  [Switch!Next]_Reached
  <2>1. Reached = Seen /\ Reached' = Seen'
    BY <1>2 DEF SeenRight
  <2>2. CASE Seen' = Seen
    BY <2>1, <2>2
  <2>3. CASE Appears
    BY <2>1, <2>3 DEF Appears, Switch!Next, Switch!Appear, Switch!One
  <2>4. CASE Joins
    BY <2>1, <2>4 DEF Joins, Switch!Next, Switch!Overlap, Switch!One, Switch!Two
  <2>5. CASE Leaves
    BY <2>1, <2>5 DEF Leaves, Switch!Next, Switch!Narrow, Switch!One, Switch!Two
  <2>6. CASE Vanish
    BY <2>1, <2>6 DEF Vanish, Switch!Next, Switch!Dark, Switch!One
  <2>7. QED
    BY <1>2, <2>2, <2>3, <2>4, <2>5, <2>6, SeenStep
<1>3. Typed /\ CalmInv => SeenRight
  BY ReachedIs DEF SeenRight
<1>4. QED
  BY <1>1, <1>2, <1>3, CalmInvariant, PTL DEF Spec, SwitchesCleanly, Switch!Spec

=============================================================================
