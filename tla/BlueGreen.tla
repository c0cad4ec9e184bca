------------------------------- MODULE BlueGreen -------------------------------
(***************************************************************************)
(* The deploy of ONE single-container project (Next.js, Dockerfile or      *)
(* static site): the zero-downtime swap of packages/deploy/src/            *)
(* blue-green.ts, the engine that drives it (engine.ts: deploy, runSwap,   *)
(* settleAbandonedSwap, rollbackNodeServer, recoverInterruptedDeploy) and  *)
(* the part of the deploy job that touches the proxy (deploy-service.ts).  *)
(*                                                                         *)
(* Docker, the central Caddy and the panel process are three independent   *)
(* parties.  Docker and Caddy survive a panel crash; the engine's memory   *)
(* (swapUpstream, the job in progress) does not.  Every docker command is  *)
(* a step of its own, so a crash, a visitor or another project's reload of *)
(* the proxy can fall between any two of them.                             *)
(*                                                                         *)
(* Simplifications: ports are left out (servingPort only changes the port  *)
(* part of the upstream), so are images, mail networks and the publish     *)
(* folder of static sites; the build is one step that works or fails; the  *)
(* connections a visitor already holds are not tracked.                    *)
(***************************************************************************)
EXTENDS Naturals, FiniteSets, Functions

CONSTANTS
    Kinds,        \* project.detection.type: "node", "dockerfile" or "static"
    SwapSetting,  \* the answers planSwap may get from the setting, ports and volumes
    Troubles,     \* what may go wrong or get in the way (AllTroubles)
    MaxDeploys,   \* bound: deploys started
    MaxTroubles   \* bound: troubles altogether

\* A docker command fails; Caddy rejects a configuration or fails to reload it; the
\* panel restarts; a person stops the project; the Caddy container restarts.
AllTroubles == {"faults", "refusals", "crashes", "stops", "reboots"}

ASSUME KindsAssumption == Kinds \subseteq {"node", "dockerfile", "static"}
ASSUME SettingAssumption == SwapSetting \subseteq BOOLEAN
ASSUME TroublesAssumption == Troubles \subseteq AllTroubles
ASSUME BoundAssumption == MaxDeploys \in Nat /\ MaxTroubles \in Nat

Names   == {"current", "next", "previous"}
Alias   == {"slug", "a", "b", "c"}
NoAlias == "none"

\* A container: the version (number of the deploy that created it, 0 when there
\* is no container), whether it runs, its aliases on the proxy network, and the
\* deploy during which the panel stopped it.
Container == [ver : Nat, run : BOOLEAN, alias : SUBSET Alias, fin : Nat]
Absent    == [ver |-> 0, run |-> FALSE, alias |-> {}, fin |-> 0]

\* performSwap's state, the deploy's arguments and who called a shared routine.
IdleJob == [alias |-> NoAlias, moved |-> FALSE, renamed |-> FALSE, stopped |-> FALSE,
            removedOld |-> FALSE, swapped |-> FALSE, held |-> NoAlias,
            joining |-> {}, caller |-> "deploy", ret |-> "swap"]

VARIABLES
    ctr,           \* Docker: name -> Container
    caddy,         \* Caddy: the upstream in use and the one in the file it would load
    other,         \* a reload of the proxy asked by someone else, computed and not loaded yet
    swapUpstream,  \* engine memory: temporary upstream of the project
    job,           \* engine memory: the deploy or the recovery in progress
    pc,            \* where the panel is
    disk,          \* what the panel wrote: type, status of the last job, stoppedAt, published
    deploys,       \* deploys started so far
    probed,        \* versions that answered a probe (history)
    troubles,      \* how many of each trouble happened so far
    stopping       \* versions of the containers a person's stop() is stopping

vars == <<ctr, caddy, other, swapUpstream, job, pc, disk, deploys, probed, troubles, stopping>>

---------------------------------------------------------------------------
(* Docker and Caddy *)

Exists(n)  == ctr[n].ver # 0
Running(n) == ctr[n].run
Kind == disk.kind
HasPrevious == Kind # "static"   \* a static site keeps no previous container

Remove(n)    == [ctr EXCEPT ![n] = Absent]
Rename(m, n) == [ctr EXCEPT ![m] = Absent, ![n] = ctr[m]]
Stop(n)      == [ctr EXCEPT ![n].run = FALSE,
                            ![n].fin = IF Running(n) THEN deploys ELSE @]
Begin(n)     == [ctr EXCEPT ![n].run = Exists(n)]
Create(n, a, up) == [ctr EXCEPT ![n] = [ver |-> deploys, run |-> up, alias |-> a, fin |-> 0]]
Leave(n)     == [ctr EXCEPT ![n].alias = {}]
Join(n, a)   == [ctr EXCEPT ![n].alias = IF Exists(n) THEN a ELSE {}]

Spend(what) == /\ what \in Troubles
               /\ SumFunction(troubles) < MaxTroubles
               /\ troubles' = [troubles EXCEPT ![what] = @ + 1]

\* `docker inspect` tells the truth, or fails and every caller takes that for
\* "not running".
SeesRunning(n)    == Running(n) /\ UNCHANGED troubles
SeesNotRunning(n) == \/ ~Running(n) /\ UNCHANGED troubles
                     \/ Running(n) /\ Spend("faults")

\* A docker command of the panel, and the same command failing.
Does(l, m, c)  == /\ pc = l /\ pc' = m /\ ctr' = c
                  /\ UNCHANGED <<caddy, other, swapUpstream, job, disk, deploys, probed, troubles, stopping>>
Fails(l, m, c) == /\ pc = l /\ pc' = m /\ ctr' = c /\ Spend("faults")
                  /\ UNCHANGED <<caddy, other, swapUpstream, job, disk, deploys, probed, stopping>>

\* A command whose result the code ignores.
Tries(l, m, c) == Does(l, m, c) \/ Fails(l, m, ctr)

\* `docker rename` fails by itself without the first name or with the second.
CanRename(m, n) == Exists(m) /\ ~Exists(n)
Renames(l, m, n, ok, bad) ==
    \/ CanRename(m, n) /\ Does(l, ok, Rename(m, n))
    \/ ~CanRename(m, n) /\ Does(l, bad, ctr)
    \/ Fails(l, bad, ctr)

\* Mutant: a reload asked by somebody else forgets the temporary upstream.
UpstreamForSlug == "slug"
UpstreamFor == IF swapUpstream # NoAlias THEN swapUpstream ELSE "slug"

\* Caddy takes the configuration, or rejects the candidate (nothing changes), or
\* keeps running with the old one although the file is already the new one.
\* Either way only when the queue reaches this call.
Accepts(u) == other = NoAlias /\ caddy' = [loaded |-> u, file |-> u] /\ UNCHANGED <<other, troubles>>
Refuses(u) == /\ other = NoAlias /\ Spend("refusals")
              /\ caddy' \in {caddy, [caddy EXCEPT !.file = u]} /\ UNCHANGED other

\* A step of the panel that waits for the proxy: what the engine's memory becomes
\* is said by the caller.
Applies(l, u, m) == pc = l /\ Accepts(u) /\ pc' = m /\ UNCHANGED <<ctr, deploys, probed, stopping>>
Refused(l, u, m) == pc = l /\ Refuses(u) /\ pc' = m /\ UNCHANGED <<ctr, deploys, probed, stopping>>

\* Where the panel waits in the proxy's queue: a later call goes after it.
Queued == {"settle_sync", "settle_back", "notice", "repoint", "proxy", "success",
           "fail", "ab_repoint", "bootsync"}

TypeOK ==
    /\ ctr \in [Names -> Container]
    /\ caddy \in [loaded : Alias, file : Alias]
    /\ other \in Alias \cup {NoAlias}
    /\ swapUpstream \in Alias \cup {NoAlias}
    /\ job \in [alias : Alias \cup {NoAlias}, moved : BOOLEAN, renamed : BOOLEAN,
                stopped : BOOLEAN, removedOld : BOOLEAN, swapped : BOOLEAN,
                held : Alias \cup {NoAlias}, joining : SUBSET Alias,
                caller : {"deploy", "bootsettle", "boot"},
                ret : {"swap", "abort", "recover"}]
    /\ pc \in Queued \cup
              {"idle", "down", "settle", "settle_check", "settle_stop", "settle_leave",
               "settle_rm", "plan", "l_rmprev", "l_rename", "l_stop", "l_rm", "l_run",
               "drop", "run", "wait", "drop_failed", "alias", "alias_join", "reprobe",
               "rmprev", "keepold", "stopold", "rmold", "promote", "promote_join",
               "rename", "health", "finish", "save_project", "save_job", "save_failed", "abort", "ab_start", "ab_check",
               "ab_stop", "ab_leave", "ab_drop", "rollback", "rb_rename", "rb_start",
               "recover", "recover_alias", "recover_join", "recover_stop",
               "recover_keep", "recover_rename", "boot_main", "boot_rename", "boot_rm", "boot_rename2", "bootsave", "recover_next"}
    /\ disk \in [kind : Kinds, status : {"none", "running", "failed", "success"}, stopped : BOOLEAN,
                 published : Nat]
    /\ deploys \in Nat
    /\ probed \subseteq Nat
    /\ stopping \subseteq Nat
    /\ troubles \in [AllTroubles -> Nat]

Init ==
    /\ ctr = [n \in Names |-> Absent]
    /\ caddy = [loaded |-> "slug", file |-> "slug"]
    /\ other = NoAlias
    /\ swapUpstream = NoAlias
    /\ job = IdleJob
    /\ pc = "idle"
    /\ disk \in [kind : Kinds, status : {"none"}, stopped : {FALSE}, published : {0}]
    /\ deploys = 0
    /\ probed = {}
    /\ stopping = {}
    /\ troubles = [w \in AllTroubles |-> 0]

---------------------------------------------------------------------------
(* The job begins; a leftover of an earlier swap is settled (settleAbandonedSwap) *)

StartDeploy ==
    /\ pc = "idle" /\ deploys < MaxDeploys
    /\ deploys' = deploys + 1
    /\ disk' = [disk EXCEPT !.status = "running"]
    /\ job' = IdleJob
    /\ pc' = "settle"
    /\ UNCHANGED <<ctr, caddy, other, swapUpstream, probed, troubles, stopping>>

\* Where settleAbandonedSwap goes back to: a deploy stops at "failed" and
\* "refused" without touching anything, the boot only logs.
AfterSettle(result) ==
    CASE job.caller = "bootsettle" -> "idle"
      [] job.caller = "deploy" /\ result \in {"failed", "refused"} -> "save_failed"
      [] OTHER -> "notice"

SettleClean ==
    /\ pc = "settle" /\ SeesNotRunning("next")
    /\ pc' = AfterSettle("clean")
    /\ UNCHANGED <<ctr, caddy, other, swapUpstream, job, disk, deploys, probed, stopping>>

SettleStopped ==
    /\ Running("next") /\ disk.stopped
    /\ Tries("settle", AfterSettle("stopped"), Stop("next"))

\* The current container does not run: the leftover is the only one that serves.
SettlePromote ==
    /\ pc = "settle" /\ Running("next") /\ ~disk.stopped /\ SeesNotRunning("current")
    /\ pc' = "recover"
    /\ UNCHANGED <<ctr, caddy, other, swapUpstream, job, disk, deploys, probed, stopping>>

SettleCheck ==
    /\ pc = "settle_check"
    /\ \/ SeesRunning("current") /\ swapUpstream' = NoAlias /\ pc' = "settle_sync"
       \/ SeesNotRunning("current") /\ pc' = AfterSettle("failed") /\ UNCHANGED swapUpstream
    /\ UNCHANGED <<ctr, caddy, other, job, disk, deploys, probed, stopping>>

SettleSync ==
    /\ \/ Applies("settle_sync", UpstreamFor, AfterSettle("promoted"))
       \/ Refused("settle_sync", UpstreamFor, AfterSettle("promoted"))
    /\ UNCHANGED <<swapUpstream, job, disk>>

\* Both run: the proxy goes back to the current one before the leftover leaves.
SettleRelease ==
    /\ pc = "settle" /\ Running("next") /\ ~disk.stopped /\ SeesRunning("current")
    /\ job' = [job EXCEPT !.held = swapUpstream]
    /\ swapUpstream' = NoAlias
    /\ pc' = "settle_back"
    /\ UNCHANGED <<ctr, caddy, other, disk, deploys, probed, stopping>>

SettleBack ==
    /\ \/ Applies("settle_back", UpstreamFor, "settle_stop") /\ UNCHANGED swapUpstream
       \/ Refused("settle_back", UpstreamFor, AfterSettle("refused")) /\ swapUpstream' = job.held
    /\ UNCHANGED <<job, disk>>

SettleRemove ==
    \/ Tries("settle_stop", "settle_leave", Stop("next"))
    \/ Tries("settle_leave", "settle_rm", Leave("next"))
    \/ Tries("settle_rm", AfterSettle("cleared"), Remove("next"))

\* The notice "Atualizando" goes on; a project never published needs no reload.
Notice ==
    /\ IF disk.published # 0
       THEN \/ Applies("notice", UpstreamFor, "plan")
            \/ Refused("notice", UpstreamFor, "plan")
       ELSE pc = "notice" /\ pc' = "plan" /\ UNCHANGED <<ctr, caddy, other, deploys, probed, troubles, stopping>>
    /\ UNCHANGED <<swapUpstream, job, disk>>

---------------------------------------------------------------------------
(* How this deploy replaces the container (planSwap) *)

BuildFails ==
    /\ pc = "plan" /\ pc' = "fail"
    /\ UNCHANGED <<ctr, caddy, other, swapUpstream, job, disk, deploys, probed, troubles, stopping>>

\* An alias that no container has, but for those known to be stopped and one that
\* could not be read.
Taken(unread) == UNION {ctr[n].alias : n \in {m \in Names : Running(m)} \ unread}
\* Mutant: the first alias, whoever answers by it.
PickFirstAlias(taken) == "a"
PickNextAlias(taken) == CASE "a" \notin taken -> "a"
                          [] "a" \in taken /\ "b" \notin taken -> "b"
                          [] OTHER -> "c"

\* Mutant: the names of the swap are built without the alias picked.
PlanSwapNoAlias ==
    /\ pc = "plan" /\ TRUE \in SwapSetting /\ Running("current")
    /\ swapUpstream' = NoAlias /\ job' = [job EXCEPT !.ret = "swap"]
    /\ pc' = "drop"
    /\ UNCHANGED <<ctr, caddy, other, disk, deploys, probed, troubles, stopping>>

PlanSwap ==
    /\ pc = "plan" /\ TRUE \in SwapSetting /\ Running("current")
    /\ \/ job' = [job EXCEPT !.alias = PickNextAlias(Taken({})), !.ret = "swap"] /\ UNCHANGED troubles
       \/ /\ Spend("faults")
          /\ \E n \in Names :
               job' = [job EXCEPT !.alias = PickNextAlias(Taken({n})), !.ret = "swap"]
    /\ swapUpstream' = NoAlias
    /\ pc' = "drop"
    /\ UNCHANGED <<ctr, caddy, other, disk, deploys, probed, stopping>>

PlanDirect ==
    /\ pc = "plan"
    /\ \/ FALSE \in SwapSetting /\ UNCHANGED troubles
       \/ TRUE \in SwapSetting /\ SeesNotRunning("current")
    /\ pc' = IF Kind = "node" THEN "l_rmprev" ELSE "l_rm"
    /\ UNCHANGED <<ctr, caddy, other, swapUpstream, job, disk, deploys, probed, stopping>>

\* Without the swap: the old container leaves first (Next.js keeps it stopped).
DirectClear ==
    \/ Tries("l_rmprev", "l_rename", Remove("previous"))
    \/ Tries("l_rm", "l_run", Remove("current"))
    \/ Renames("l_rename", "current", "previous", "l_stop", "l_run")
    \/ Tries("l_stop", "l_run", Stop("previous"))

\* A `docker run` that fails may leave nothing, a created container, or a running
\* one (the mail network could not be joined).
RunsInto(n, a, l, okAt, failAt) ==
    \/ ~Exists(n) /\ Does(l, okAt, Create(n, a, TRUE))
    \/ ~Exists(n) /\ \E up \in BOOLEAN : Fails(l, failAt, Create(n, a, up))
    \/ ~Exists(n) /\ Fails(l, failAt, ctr)
    \/ Exists(n) /\ Does(l, failAt, ctr)

DirectRun == RunsInto("current", {"slug"}, "l_run", "proxy",
                      IF Kind = "node" THEN "rollback" ELSE "fail")

---------------------------------------------------------------------------
(* The swap (performSwap) *)

\* Phase 1: the new container beside the current one, alone under its alias.
DropLeftover == Tries("drop", "run", Remove("next"))
\* Mutant: the new container is born with the alias of the project too.
StartNextShared == RunsInto("next", {"slug", job.alias}, "run", "wait", "drop_failed")
StartNext    == RunsInto("next", {job.alias}, "run", "wait", "drop_failed")

\* Phase 2: it answers, or it does not in time.
NextReady ==
    /\ pc = "wait" /\ pc' = "alias"
    /\ probed' = probed \cup {ctr["next"].ver}
    /\ UNCHANGED <<ctr, caddy, other, swapUpstream, job, disk, deploys, troubles, stopping>>
NextUnhealthy ==
    /\ pc = "wait" /\ pc' = "drop_failed"
    /\ UNCHANGED <<ctr, caddy, other, swapUpstream, job, disk, deploys, probed, troubles, stopping>>
DropFailed == Tries("drop_failed", "fail", Remove("next"))

\* Phase 3: the alias of the project, then at once the proxy.
Moves(c) == /\ ctr' = c /\ pc' = "repoint"
            /\ job' = [job EXCEPT !.moved = TRUE]
            /\ swapUpstream' = job.alias
\* Mutant: the new container only keeps its temporary alias.
AliasNextAlone ==
    \/ Does("alias", "alias_join", Leave("next"))
    \/ pc = "alias_join" /\ Moves(Join("next", {job.alias}))
         /\ UNCHANGED <<caddy, other, disk, deploys, probed, troubles, stopping>>
AliasNext ==
    \/ /\ pc = "alias" /\ pc' = "alias_join"
       /\ ctr' = Leave("next")
       /\ job' = [job EXCEPT !.joining = {"slug", job.alias}]
       /\ UNCHANGED <<caddy, other, swapUpstream, disk, deploys, probed, troubles, stopping>>
    \/ /\ pc = "alias" /\ Spend("faults") /\ Moves(ctr)   \* unreadable: left as it is
       /\ UNCHANGED <<caddy, other, disk, deploys, probed, stopping>>
    \/ Fails("alias", "abort", ctr)
    \/ /\ pc = "alias_join" /\ Moves(Join("next", job.joining))
       /\ UNCHANGED <<caddy, other, disk, deploys, probed, troubles, stopping>>
    \/ Fails("alias_join", "abort", ctr)

Repoint ==
    /\ \/ Applies("repoint", job.alias, "reprobe")
       \/ Refused("repoint", job.alias, "abort")
    /\ UNCHANGED <<swapUpstream, job, disk>>

\* It must still answer with the traffic on it; then the current one is drained.
Reprobe ==
    \/ Does("reprobe", IF HasPrevious THEN "rmprev" ELSE "rmold", ctr)
    \/ Does("reprobe", "abort", ctr)

\* Phase 4: the current one is kept aside (or removed, in a static site).
RemovePrevious == Tries("rmprev", "keepold", Remove("previous"))
KeepOld ==
    \/ /\ pc = "keepold" /\ CanRename("current", "previous")
       /\ ctr' = Rename("current", "previous")
       /\ job' = [job EXCEPT !.renamed = TRUE] /\ pc' = "stopold"
       /\ UNCHANGED <<caddy, other, swapUpstream, disk, deploys, probed, troubles, stopping>>
    \/ ~CanRename("current", "previous") /\ Does("keepold", "abort", ctr)
    \/ Fails("keepold", "abort", ctr)
StopOld ==
    \/ /\ pc = "stopold" /\ ctr' = Stop("previous")
       /\ job' = [job EXCEPT !.stopped = TRUE] /\ pc' = "promote"
       /\ UNCHANGED <<caddy, other, swapUpstream, disk, deploys, probed, troubles, stopping>>
    \/ Fails("stopold", "abort", ctr)
    \/ Fails("stopold", "abort", Stop("previous"))   \* stopped, the answer was lost
RemoveOld ==
    \/ /\ pc = "rmold" /\ ctr' = Remove("current")
       /\ job' = [job EXCEPT !.removedOld = TRUE] /\ pc' = "promote"
       /\ UNCHANGED <<caddy, other, swapUpstream, disk, deploys, probed, troubles, stopping>>
    \/ Fails("rmold", "abort", ctr)

\* promoteNext, the last step of the swap, of an abort that keeps the new version
\* and of a recovery.
PromoteFailed == CASE job.ret = "swap" -> "abort"
                   [] job.ret = "abort" -> "fail"
                   [] job.caller = "boot" -> "bootsave"
                   [] OTHER -> AfterSettle("failed")
\* Mutant: it is connected again although it already has the alias.
PromoteReconnects ==
    \/ /\ pc = "promote" /\ pc' = "promote_join"
       /\ ctr' = Leave("next")
       /\ job' = [job EXCEPT !.joining = {"slug"} \cup ctr["next"].alias]
       /\ UNCHANGED <<caddy, other, swapUpstream, disk, deploys, probed, troubles, stopping>>
    \/ Does("promote_join", "rename", Join("next", job.joining))
PromoteNext ==
    \/ "slug" \in ctr["next"].alias /\ Does("promote", "rename", ctr)
    \/ /\ pc = "promote" /\ "slug" \notin ctr["next"].alias
       /\ pc' = "promote_join"
       /\ ctr' = Leave("next")
       /\ job' = [job EXCEPT !.joining = {"slug"} \cup ctr["next"].alias]
       /\ UNCHANGED <<caddy, other, swapUpstream, disk, deploys, probed, troubles, stopping>>
    \/ Fails("promote", "rename", ctr)          \* unreadable: left as it is
    \/ "slug" \notin ctr["next"].alias /\ Fails("promote", PromoteFailed, ctr)
    \/ Does("promote_join", "rename", Join("next", job.joining))
    \/ Fails("promote_join", PromoteFailed, ctr)

RenameNext ==
    \/ /\ pc = "rename" /\ CanRename("next", "current")
       /\ ctr' = Rename("next", "current")
       /\ job' = [job EXCEPT !.swapped = (job.ret = "swap")]
       /\ swapUpstream' = IF job.ret = "swap" THEN NoAlias ELSE swapUpstream
       /\ pc' = CASE job.ret = "swap" -> "proxy"
                  [] job.ret = "abort" -> "fail"
                  [] job.caller = "boot" -> "bootsave"
                  [] OTHER -> "settle_check"
       /\ UNCHANGED <<caddy, other, disk, deploys, probed, troubles, stopping>>
    \/ ~CanRename("next", "current") /\ Does("rename", PromoteFailed, ctr)
    \/ Fails("rename", PromoteFailed, ctr)

---------------------------------------------------------------------------
(* Undoing a swap that failed (abort) *)

Abort ==
    IF job.renamed
    THEN LET after == IF job.stopped THEN "ab_start" ELSE "ab_check" IN
         Renames("abort", "previous", "current", after, after)
    ELSE Does("abort", "ab_check", ctr)

AbortStart == Tries("ab_start", "ab_check", Begin("current"))

\* The current one is back, or the new one is the only one left.
\* Mutant: the old version is taken for running.
AbortCheckTrusts ==
    Does("ab_check", IF job.moved THEN "ab_repoint" ELSE "ab_drop", ctr)
AbortCheck ==
    /\ pc = "ab_check"
    /\ \/ /\ ~job.removedOld /\ SeesRunning("current")
          /\ pc' = IF job.moved THEN "ab_repoint" ELSE "ab_drop"
          /\ UNCHANGED job
       \/ /\ IF job.removedOld THEN UNCHANGED troubles ELSE SeesNotRunning("current")
          /\ pc' = "promote"
          /\ job' = [job EXCEPT !.ret = "abort"]
    /\ UNCHANGED <<ctr, caddy, other, swapUpstream, disk, deploys, probed, stopping>>

\* Mutants: the new version stays although the proxy went back, leaves although the
\* proxy did not, and leaves with its alias still the upstream to compute.
AbortKeepsNext ==
    Applies("ab_repoint", "slug", "fail") /\ swapUpstream' = NoAlias /\ UNCHANGED <<job, disk>>
AbortInsists ==
    /\ \/ Applies("ab_repoint", "slug", "ab_stop")
       \/ Refused("ab_repoint", "slug", "ab_stop")
    /\ swapUpstream' = NoAlias /\ UNCHANGED <<job, disk>>
AbortHolds ==
    /\ Applies("ab_repoint", "slug", "ab_stop") \/ Refused("ab_repoint", "slug", "fail")
    /\ UNCHANGED <<swapUpstream, job, disk>>

\* Only a proxy that took the way back lets go of the temporary upstream.
AbortRepoint ==
    /\ \/ Applies("ab_repoint", "slug", "ab_stop") /\ swapUpstream' = NoAlias
       \/ Refused("ab_repoint", "slug", "fail") /\ UNCHANGED swapUpstream
    /\ UNCHANGED <<job, disk>>

AbortRemove ==
    \/ Tries("ab_stop", "ab_leave", Stop("next"))
    \/ Tries("ab_leave", "ab_drop", Leave("next"))
    \/ Tries("ab_drop", "fail", Remove("next"))

---------------------------------------------------------------------------
(* Steps 4 and 5 of the deploy, and its end *)

\* Mutant: nothing is put back.
NoRollback == "fail"

\* Next.js, and a Dockerfile that swapped, put the previous container back.
AfterProxyFailure == IF Kind = "node" \/ (Kind = "dockerfile" /\ job.swapped)
                     THEN "rollback" ELSE "fail"

Proxy ==
    /\ \/ Applies("proxy", "slug", "health")
       \/ Refused("proxy", "slug", AfterProxyFailure)
    /\ UNCHANGED <<swapUpstream, job, disk>>

Healthy ==
    /\ pc = "health" /\ pc' = "finish"
    /\ probed' = probed \cup {ctr["current"].ver}
    /\ UNCHANGED <<ctr, caddy, other, swapUpstream, job, disk, deploys, troubles, stopping>>
Unhealthy == Does("health", AfterProxyFailure, ctr)

Finish == Tries("finish", "success",
                IF Kind = "node" \/ (Kind = "dockerfile" /\ job.swapped)
                THEN Remove("previous") ELSE ctr)

Rollback ==
    LET back == IF job.caller = "boot" THEN "bootsave" ELSE "fail" IN
    \/ Tries("rollback", "rb_rename", Remove("current"))
    \/ Renames("rb_rename", "previous", "current", "rb_start", back)
    \/ Tries("rb_start", back, Begin("current"))

\* The end of the job: the notice goes off with the last reload, then what
\* happened is written, the project first and the job after it.
Succeed ==
    /\ \/ Applies("success", UpstreamFor, "save_project")
       \/ Refused("success", UpstreamFor, "save_project")
    /\ UNCHANGED <<swapUpstream, job, disk>>

Fail ==
    /\ IF disk.published # 0
       THEN \/ Applies("fail", UpstreamFor, "save_failed")
            \/ Refused("fail", UpstreamFor, "save_failed")
       ELSE pc = "fail" /\ pc' = "save_failed" /\ UNCHANGED <<ctr, caddy, other, deploys, probed, troubles, stopping>>
    /\ UNCHANGED <<swapUpstream, job, disk>>

Saves(l, m, d) == /\ pc = l /\ pc' = m /\ disk' = d
                  /\ UNCHANGED <<ctr, caddy, other, swapUpstream, job, deploys, probed, troubles, stopping>>
\* Mutant: the end of a failed job is written again and again.
SaveStuck ==
    \/ Saves("save_project", "save_job", [disk EXCEPT !.stopped = FALSE, !.published = deploys])
    \/ Saves("save_job", "idle", [disk EXCEPT !.status = "success"])
    \/ Saves("save_failed", "save_failed", [disk EXCEPT !.status = "failed"])
Save ==
    \/ Saves("save_project", "save_job", [disk EXCEPT !.stopped = FALSE, !.published = deploys])
    \/ Saves("save_job", "idle", [disk EXCEPT !.status = "success"])
    \/ Saves("save_failed", "idle", [disk EXCEPT !.status = "failed"])

---------------------------------------------------------------------------
(* The panel stops and starts again *)

Crash ==
    /\ pc # "down" /\ Spend("crashes")
    /\ pc' = "down"
    /\ other' = NoAlias /\ swapUpstream' = NoAlias /\ job' = IdleJob /\ stopping' = {}
    /\ UNCHANGED <<ctr, caddy, disk, deploys, probed>>

\* The boot asks for a reload of its own and goes on without waiting for it: always
\* after an interrupted deploy or with a domain for the panel, never in a tunnel
\* without one.
BootReloads == IF disk.status = "running" THEN {UpstreamFor} ELSE {UpstreamFor, NoAlias}

\* Mutant: a project that a person stopped is recovered too.
BootRestarts ==
    /\ pc = "down"
    /\ pc' = IF disk.status = "running" THEN "recover" ELSE "settle"
    /\ job' = [IdleJob EXCEPT !.caller = IF disk.status = "running" THEN "boot" ELSE "bootsettle",
                              !.ret = "recover"]
    /\ other' \in BootReloads
    /\ UNCHANGED <<ctr, caddy, swapUpstream, disk, deploys, probed, troubles, stopping>>

\* A job still "running" in the file is an interrupted deploy.
Boot ==
    /\ pc = "down"
    /\ IF disk.status = "running"
       THEN /\ pc' = IF disk.stopped THEN "bootsave" ELSE "recover"
            /\ job' = [IdleJob EXCEPT !.caller = "boot", !.ret = "recover"]
       ELSE /\ pc' = "settle"
            /\ job' = [IdleJob EXCEPT !.caller = "bootsettle", !.ret = "recover"]
    /\ other' \in BootReloads
    /\ UNCHANGED <<ctr, caddy, swapUpstream, disk, deploys, probed, troubles, stopping>>

\* recoverSwap: "null" goes on with the caller, a promotion ends at RenameNext.
AfterRecover == IF job.caller = "boot" THEN "boot_main" ELSE "settle_check"
RecoverFailed == IF job.caller = "boot" THEN "bootsave" ELSE AfterSettle("failed")

\* The current one runs: the new one leaves, and the current one must answer by
\* the alias of the project.
RecoverCurrent ==
    /\ pc = "recover" /\ Running("current")
    /\ Tries("recover", "recover_alias", Remove("next"))
RecoverAlias ==
    \/ "slug" \in ctr["current"].alias /\ Does("recover_alias", AfterRecover, ctr)
    \/ /\ pc = "recover_alias" /\ "slug" \notin ctr["current"].alias
       /\ pc' = "recover_join"
       /\ ctr' = Leave("current")
       /\ job' = [job EXCEPT !.joining = {"slug"} \cup ctr["current"].alias]
       /\ UNCHANGED <<caddy, other, swapUpstream, disk, deploys, probed, troubles, stopping>>
    \/ Fails("recover_alias", AfterRecover, ctr)     \* unreadable: left as it is
    \/ "slug" \notin ctr["current"].alias /\ Fails("recover_alias", RecoverFailed, ctr)
    \/ Does("recover_join", AfterRecover, Join("current", job.joining))
    \/ Fails("recover_join", RecoverFailed, ctr)

\* The current one does not run.
RecoverDown ==
    /\ pc = "recover" /\ SeesNotRunning("current")
    /\ pc' = "recover_next"
    /\ job' = [job EXCEPT !.ret = "recover"]
    /\ UNCHANGED <<ctr, caddy, other, swapUpstream, disk, deploys, probed, stopping>>
\* Mutant: the new one leaves whether it runs or not.
RecoverDrops == Tries("recover_next", AfterRecover, Remove("next"))
RecoverNext ==
    \/ Running("next") /\ Does("recover_next", "recover_stop", ctr)
    \/ ~Running("next") /\ Tries("recover_next", AfterRecover, Remove("next"))
    \/ Fails("recover_next", AfterRecover, ctr)              \* "does not exist"
    \/ Fails("recover_next", AfterRecover, Remove("next"))   \* "does not run"
RecoverPromote ==
    \/ LET to == IF Exists("current") THEN "recover_keep" ELSE "promote" IN
       IF Running("previous") THEN Tries("recover_stop", to, Stop("previous"))
                              ELSE Does("recover_stop", to, ctr)
    \/ HasPrevious /\ Tries("recover_keep", "recover_rename", Remove("previous"))
    \/ ~HasPrevious /\ Tries("recover_keep", "promote", Remove("current"))
    \/ Renames("recover_rename", "current", "previous", "promote", "promote")

\* What is left of recoverInterruptedDeploy: the previous one never stopped, or
\* was stopped by this very deploy.
BootMain ==
    \/ SeesRunning("current") /\ pc = "boot_main" /\ pc' = "bootsave"
         /\ UNCHANGED <<ctr, caddy, other, swapUpstream, job, disk, deploys, probed, stopping>>
    \/ /\ pc = "boot_main" /\ SeesNotRunning("current")
       /\ pc' = CASE Running("previous") -> "boot_rename"
                  [] ~Running("previous") /\ Exists("previous")
                       /\ ctr["previous"].fin = deploys -> "rollback"
                  [] OTHER -> "bootsave"
       /\ UNCHANGED <<ctr, caddy, other, swapUpstream, job, disk, deploys, probed, stopping>>
    \/ Renames("boot_rename", "previous", "current", "bootsave", "boot_rm")
    \/ Tries("boot_rm", "boot_rename2", Remove("current"))
    \/ Renames("boot_rename2", "previous", "current", "bootsave", "bootsave")

\* The job is written as failed, and only then the proxy is written again.
BootSave == Saves("bootsave", "bootsync", [disk EXCEPT !.status = "failed"])
BootSync ==
    /\ \/ Applies("bootsync", UpstreamFor, "idle")
       \/ Refused("bootsync", UpstreamFor, "idle")
    /\ UNCHANGED <<swapUpstream, job, disk>>

---------------------------------------------------------------------------
(* A person stops and starts the project; everybody else's reloads *)

\* stop() takes the leftover of a swap too, start() does not.  stop() takes no
\* reservation: it names the containers, and a deploy may begin before docker
\* answers and stoppedAt is written.  Both end with a reload of the proxy, which
\* waits its turn: when the queue is busy it is one of OtherCompute's.
AskStop ==
    /\ pc = "idle" /\ stopping = {} /\ Spend("stops")
    /\ stopping' = {ctr[n].ver : n \in {"current", "next"}} \ {0}
    /\ stopping' # {}
    /\ UNCHANGED <<ctr, caddy, other, swapUpstream, job, pc, disk, deploys, probed>>
Stopped ==
    /\ stopping # {}
    /\ ctr' = [n \in Names |-> IF ctr[n].ver \in stopping THEN Stop(n)[n] ELSE ctr[n]]
    /\ disk' = [disk EXCEPT !.stopped = TRUE]
    /\ stopping' = {}
    /\ other' = IF pc \in Queued \/ other # NoAlias THEN other ELSE UpstreamFor
    /\ UNCHANGED <<caddy, swapUpstream, job, pc, deploys, probed, troubles>>
PersonStart ==
    /\ pc = "idle" /\ Exists("current")
    /\ ctr' = Begin("current")
    /\ disk' = [disk EXCEPT !.stopped = FALSE]
    /\ other' = IF disk.stopped /\ other = NoAlias THEN UpstreamFor ELSE other
    /\ UNCHANGED <<caddy, swapUpstream, job, pc, deploys, probed, troubles, stopping>>

\* Another project, a certificate, a retry: the whole file is computed when the
\* queue gets there and loaded some time later.
OtherCompute ==
    /\ pc \notin Queued \cup {"down"} /\ other = NoAlias
    /\ other' = UpstreamFor
    /\ UNCHANGED <<ctr, caddy, swapUpstream, job, pc, disk, deploys, probed, troubles, stopping>>
OtherLoad ==
    /\ other # NoAlias /\ other' = NoAlias
    /\ \/ caddy' = [loaded |-> other, file |-> other] /\ UNCHANGED troubles
       \/ Spend("refusals") /\ caddy' \in {caddy, [caddy EXCEPT !.file = other]}
    /\ UNCHANGED <<ctr, swapUpstream, job, pc, disk, deploys, probed, stopping>>

\* Caddy restarts and loads what is in its file.
CaddyRestart ==
    /\ Spend("reboots")
    /\ caddy' = [caddy EXCEPT !.loaded = caddy.file]
    /\ UNCHANGED <<ctr, other, swapUpstream, job, pc, disk, deploys, probed, stopping>>

Settle == SettleClean \/ SettleStopped \/ SettlePromote \/ SettleCheck \/ SettleSync
          \/ SettleRelease \/ SettleBack \/ SettleRemove
Direct == PlanDirect \/ DirectClear \/ DirectRun
Swap   == PlanSwap \/ DropLeftover \/ StartNext \/ NextReady \/ NextUnhealthy \/ DropFailed
          \/ AliasNext \/ Repoint \/ Reprobe \/ RemovePrevious \/ KeepOld \/ StopOld
          \/ RemoveOld \/ PromoteNext \/ RenameNext
Undo   == Abort \/ AbortStart \/ AbortCheck \/ AbortRepoint \/ AbortRemove
Ending == Proxy \/ Healthy \/ Unhealthy \/ Finish \/ Rollback \/ Succeed \/ Fail \/ Save
Recover == RecoverCurrent \/ RecoverAlias \/ RecoverDown \/ RecoverNext \/ RecoverPromote
           \/ BootMain \/ BootSave \/ BootSync

Panel == Settle \/ Notice \/ BuildFails \/ Direct \/ Swap \/ Undo \/ Ending \/ Recover

Next == StartDeploy \/ Panel \/ Crash \/ Boot \/ AskStop \/ Stopped \/ PersonStart
        \/ OtherCompute \/ OtherLoad \/ CaddyRestart

Spec == Init /\ [][Next]_vars

\* The panel goes on with what it began, restarts after a crash (the container has
\* a restart policy) and the reload in the queue ends, well or badly.
FairSpec == Spec /\ WF_vars(Panel) /\ WF_vars(Boot) /\ WF_vars(OtherLoad)

---------------------------------------------------------------------------
(* What must hold *)

\* The versions a new visitor may reach: who answers by the upstream in use.
Reached == {ctr[n].ver : n \in {m \in Names : Running(m) /\ caddy.loaded \in ctr[m].alias}}

\* None of these happened so far.
Without(what) == \A w \in what : troubles[w] = 0

\* Some deploy succeeded and nobody stopped the project since.
Online == disk.published # 0 /\ ~disk.stopped /\ stopping = {}
Alive  == \E n \in Names : Running(n)

\* The commands of performSwap and of its undoing.
SwapSteps == {"drop", "run", "wait", "drop_failed", "alias", "alias_join", "repoint",
              "reprobe", "rmprev", "keepold", "stopold", "rmold", "promote",
              "promote_join", "rename", "abort", "ab_start", "ab_check", "ab_repoint",
              "ab_stop", "ab_leave", "ab_drop"}

\* A published project always answers, whatever step the deploy is at and whoever
\* else reloads the proxy; only rollbackNodeServer, which removes the failed
\* version before it starts the previous one, opens a gap.
Served == Online => Reached # {} \/ pc \in {"rb_rename", "rb_start"}

\* Visitors are split between two versions only while the proxy is being moved to
\* the new one (or back, when the swap is undone): never while the old version is
\* drained, never after it was stopped, never once the job is over.
NoMix == Cardinality(Reached) > 1 =>
             pc \in {"repoint", "abort", "ab_check", "ab_repoint", "ab_stop"}

\* A version started beside the current one gets visitors only after it answered
\* the probe of phase 2 (its temporary alias tells it from a direct deploy).
OnlyProbed ==
    Online => \A n \in Names :
        Running(n) /\ caddy.loaded \in ctr[n].alias /\ ctr[n].alias # {"slug"}
            => ctr[n].ver \in probed

\* A deploy that fails leaves visitors on the version of the last deploy that
\* succeeded, the one deployedSource and deployedCommit tell.
FailureKeepsPublished ==
    HasPrevious /\ pc = "idle" /\ Online => Reached = {disk.published}

\* pickNextAlias: while the new version is probed by its alias, no other running
\* container answers by it, so the probe cannot approve a broken version.
AliasExclusive ==
    pc = "wait" /\ Without({"faults"}) =>
        {n \in Names : Running(n) /\ job.alias \in ctr[n].alias} \subseteq {"next"}

\* While visitors are served, they still are after any reload that may come next: the
\* one computed from swapUpstream now, the one that waits in the queue with an
\* upstream computed earlier, and the file that a Caddy that restarts reads, which a
\* refused reload may have left ahead of it.
UpstreamsAnswer ==
    Without({"faults", "crashes", "stops"}) /\ Reached # {} =>
        \A u \in {"slug", UpstreamFor, other, caddy.file} \ {NoAlias} :
            \E n \in Names : Running(n) /\ u \in ctr[n].alias

\* With nothing in progress a published project answers.
IdleServes ==
    pc = "idle" /\ Online /\ ~HasPrevious /\ troubles["crashes"] <= 1
      /\ Without({"faults", "refusals", "stops"}) => Reached # {}

\* No command of a swap or of its undoing, failed ones included, stops or removes
\* the last running container of the project.
SwapKeepsAlive == [][(pc \in SwapSteps) /\ Online /\ Alive => (Alive')]_vars

\* While no docker command has failed, the last running container is only ever taken
\* down by rollbackNodeServer or by a deploy without a swap, which removes the version
\* in service first: not by a swap, not by the boot's recovery, not by settling a
\* leftover.
LastContainer ==
    [][Online /\ Online' /\ Alive /\ ~Alive' /\ Without({"faults"})'
         => pc \in {"rollback", "l_stop", "l_rm"}]_vars

\* The same for visitors: a reload that is refused, or that somebody else asked
\* for, never cuts them off by itself.  When enough reloads in a row are refused the
\* proxy may still be on the alias of a version that a rollback took away, the next
\* deploy may pick that alias again, and then its new version has the visitors
\* before it is probed: who leaves with it, or with its alias, was on nothing else.
OutageOnlyByRollback ==
    [][Online /\ Online' /\ Reached # {} /\ Reached' = {} /\ Without({"faults", "crashes", "stops"})'
         => \/ pc \in {"rollback", "l_stop", "l_rm"}
            \/ pc \in {"drop_failed", "alias"} /\ caddy.loaded = job.alias]_vars

\* A project that a person stopped stays stopped until a person starts it or a
\* deploy runs: neither the boot's recovery nor the settling of a leftover brings
\* a version back, not even one that the interrupted deploy had stopped.
StopIsKept ==
    [][disk.stopped /\ disk'.stopped /\ ~Alive /\ Alive' => job.caller = "deploy"]_vars

\* Whatever the panel began, a deploy, an undo or a recovery, comes to an end.
JobEnds == pc # "idle" ~> pc = "idle"

\* Visitors are not split between two versions for ever.
MixEnds == Cardinality(Reached) > 1 ~> Cardinality(Reached) <= 1

\* What visitors see is a sequence of clean switches (ZeroDowntime).
Switch == INSTANCE ZeroDowntime WITH seen <- Reached
SwitchesCleanly == Switch!Spec
=============================================================================
