# A verification project for tws-panel

tws-panel is a self-hosted deploy panel: one Node process (Fastify) that drives
Docker, a central Caddy proxy and a mail server on one machine, keeps its state
in JSON files and offers it over HTTP to a React client.  The modules beside
this file model the parts of it where steps of several parties interleave and
where a crash hurts most: **the replacement of a running site by a new version**
(`BlueGreen`), **the reservations that keep two operations off one project**
(`ProjectGate`), **the restore of the panel's own data** (`PanelRestore`), and
**the login sessions with what hangs on them** (`Sessions`, `SessionHolders`).  `PROJECT.json` ties every definition to the lines it
translates; this file is the explanation.

Contents: 1 inventory, 2 the modules, 3 what is checked, 4 what is proved,
5 what was found, 6 what is not modelled, 7 plan.

## 1. Inventory

| component | code | state | operations | what is hard |
|---|---|---|---|---|
| Zero-downtime swap | `packages/deploy/src/blue-green.ts` | containers `-app`, `-app-next`, `-app-previous` and their aliases; `state` of one swap | `performSwap`, its `abort`, `pickNextAlias`, `promoteNext`, `recoverSwap` | every docker command may fail, the panel may die between any two, others reload the proxy meanwhile |
| Deploy engine | `packages/deploy/src/engine.ts` | `swapUpstream`, `swapped`, `restored`, `updating`, the proxy's queue; all in memory | `deploy`, `runSwap`, `settleAbandonedSwap`, `recoverInterruptedDeploy`, `rollbackNodeServer`, `stop`, `start`, `remove`, `recreate` | the map must tell where Caddy points; boot has to decide from what it finds in Docker |
| Caddy driver | `packages/deploy/src/caddy.ts` | the file in the container, the configuration loaded | `apply` (validate, push, reload), `ensureRunning` | push and reload are two steps: a failed reload is only seen at the next restart |
| Deploy service | `apps/server/src/services/deploy-service.ts` | `projects`, `jobs` (memory and file), `starting`, `backupHeld`, `maintenance`, `interruptedJobs`, a retry timer | start a deploy or a recreate, stop, start, delete, hold, boot recovery | an await between a check and its use; saves that fail; work that survives the request |
| Backup and restore | `backup-service.ts`, `upload-restore.ts` | a queue of records, staging folders, containers stopped | backup, restore (republishing first), restore from an upload, restore check | hold, let go, deploy, hold again; swaps of volumes to undo |
| Restore of the panel | `panel-restore.ts`, `stagePanel`, `restaurar-painel.sh` | a marker, a progress file, four directories | stage, `applyPendingPanelRestore` at boot: prepare, swap, undo, note, clean | crash in any phase, during the undo too; a write that fails after memory moved on; a script that works beside the panel before it stops it |
| Atomic files, keys | `json-file.ts` | temporary file, file, lock per path | `writeFileAtomic`, `createFileOnce`, `loadOrCreateKey`, `JsonFile.update` | crash between write, rename and sync; two creators |
| Deploy history | `deploy-jobs.ts` | list of jobs | `trimJobs`, `capLogs`, `advanceSteps`, `finishSteps` | limits per project and overall; never a running job |
| Docker cleanup | `docker-cleanup-service.ts` | working flag, schedule | run, verify | must wait for whoever uses an image |
| Sessions and login | `session-store.ts`, `login-limiter.ts`, `two-factor.ts` | sessions, the queue of saves, attempts in flight, last code step | create, resolve, revoke, persist, check | revocation racing a save; a failed save; parallel attempts |
| Terminal and database access | `routes/terminal.ts`, `terminal-gate.ts`, `database-unlock.ts` | WebSockets, owner, enabled sessions, unlocks and their counters | open, enable, disable, ask, grant, lock | what was checked in the hook is used later, after the session ended |
| MCP approvals, tokens | `mcp-approvals.ts`, `api-token-store.ts` | pending actions | request, decide, consume, expire | consumed once, decided once |
| E-mail | `mail-service.ts`, `packages/mailer` | Stalwart's own, a send log | mailboxes, domains, queue | an external server's state |
| Monitoring, notifications | `monitor-service.ts`, `metrics-*.ts`, `notification-service.ts` | samples, alerts sent | sample, evaluate, send | silence during maintenance |
| Domains, certificates | `dynamic-domains.ts`, `certificate-service.ts`, `panel-domain.ts` | names, certificates | check DNS, ask for a reload | reloads at any time |
| Compose, detection, guardrails | `packages/deploy/src/compose-*.ts`, `detect.ts`, `rules.ts` | none | pure functions of files | large tables |
| Shell, SQL, logs, scan | `terminal-service.ts`, `database-service.ts`, `project-logs.ts`, `packages/security` | open streams | relay | external processes |
| HTTP routes, web client | `apps/server/src/routes`, `apps/web` | none of their own | translate requests | - |

How they interact.  A request reserves a project in the deploy service, which
starts a job; the job calls the engine, which runs docker commands one after
another and asks for reloads of Caddy through **one queue shared by every
project**.  What a reload writes for a project is computed when its turn comes,
from the engine's memory (`upstreamFor`).  A backup or a restore reserves the
same project by its own set, and counts in `maintenance`, which the monitor
reads.  A restart loses all memory; Docker, Caddy and the files stay.  Every
request passes the hook of `plugins/auth.ts`, which resolves its session; the
handler runs later.  The session store tells the terminal, its gate and the database
unlocks which sessions it revoked, once the file says so, and they ask it
`isActive` in between.

Correctness, per component, in the order of importance for the people who use
the panel:

* swap and engine: a published site keeps answering; visitors are not split
  between versions; a bad version gets no visitors; a failure leaves the old
  version; recovery never takes away the last container; nothing is started that
  a person stopped; every job ends.
* deploy service: one operation at a time per project; the file never tells of
  two running jobs; every reservation is given back; the cleanup sees them all.
* restore of the panel, files: all of the old state or all of the new one; the old
  one is never lost; the panel comes up again.
* sessions: what was answered is what the file says; an ended session does not come
  back, and nothing it opened stays open.
* approvals: what was consumed is not used again.

## 2. The modules

| module | lines | models |
|---|---|---|
| `BlueGreen` | 775 | one project of kind Next.js (`node`), Dockerfile or static: a deploy with or without the swap, its undo, its rollback, a panel crash and the recovery at boot, a person's stop and start, other projects' reloads, restarts of Caddy |
| `ZeroDowntime` | 25 | the abstract promise to visitors: the set of versions a new visitor may reach moves through overlaps, never by a jump |
| `BlueGreenClaims` | 23 | statements of the repository's documents that the code does not keep, one run each |
| `BlueGreenProofs` | 1302 | the theorems about `BlueGreen` with every trouble |
| `BlueGreenCalmProofs` | 1140 | the theorems about `BlueGreen` when no command fails and the panel stays up, refinement included |
| `BlueGreenDockerProofs` | 1548 | the theorems about `BlueGreen` as long as no docker command has failed: refused reloads, crashes and stops at any step |
| `BlueGreenVisitorProofs` | 1806 | on top of it, the theorems about who answers a visitor: a proxy that refuses reloads, and a static site whose panel dies |
| `ProjectGate` | 356 | everybody who may work on one project, with the awaits between their steps |
| `ProjectGateProofs` | 698 | the theorems about `ProjectGate` |
| `PanelRestore` | 609 | the staging of a backup of the panel, by the panel or step by step by `restaurar-painel.sh`, and every phase, error and crash of the switch at the next start |
| `PanelSwitch` | 47 | the abstract promise: the services that read the data see whole versions, each the last one or the one offered |
| `PanelRestoreMC` | 12 | a small installation for the runs `panel` and `claim_undo` |
| `PanelRestoreProofs` | 1766 | the theorems about `PanelRestore`, refinement included |
| `Sessions` | 359 | the session store: its list, its queue, the steps of the atomic write, crashes, power cuts, and what people were told |
| `SessionHolders` | 326 | `Sessions` composed with the terminal's WebSockets, the terminal's gate and the unlocking of a database |
| `SessionsMC`, `SessionHoldersMC` | 11, 11 | accounts and symmetry for the runs |
| `SessionsProofs`, `SessionHoldersProofs` | 574, 788 | the theorems about them |

`BlueGreen` and `ProjectGate` meet at one point: `ProjectGate` says that the jobs
of `BlueGreen` follow one another (`Exclusive`), which `BlueGreen` takes for
granted by having one `pc`.  What is *not* kept apart, a person's stop, overlaps a
deploy in both.

### BlueGreen

| variable | in the program |
|---|---|
| `ctr` | Docker: the containers `-app`/`-web`, `-next`, `-app-previous`: version, running, aliases on `paas-net`, deploy during which it was stopped (`FinishedAt`) |
| `caddy` | the upstream loaded and the one in the file (pushed before the reload) |
| `other` | the reload in the queue that belongs to somebody else: computed, not loaded yet |
| `swapUpstream` | `DeployEngine.swapUpstream` for the project |
| `job`, `pc` | the locals of `performSwap` and the place of the panel in it, in the engine and in the job |
| `disk` | `projects.json` and `deploy-jobs.json`: type, status of the last job, `stoppedAt`, version published |
| `deploys`, `troubles` | counters (bounds) |
| `probed`, `stopping` | versions that answered a probe (history); containers a stop in progress named |

One action is one docker command or one reload.  `Does`, `Fails` and `Tries` say
whether the code looks at the result: `Tries` is a command whose failure is
ignored, `Fails` one that takes another path, with the effects the command may
have had all the same (a `docker run` that leaves a container behind, a `docker
stop` that worked and whose answer was lost).  `SeesNotRunning` is an inspect that
fails and is read as "not running", as `isRunning` does.  `Accepts` and `Refuses`
are the two ends of a reload, and a refusal may leave the new file behind.

The control points follow the code: `settle*` is `settleAbandonedSwap`, `plan`
`planSwap`, `l_*` the deploy without a swap, `drop` to `rename` the four phases of
`performSwap`, `ab_*` its `abort`, `proxy` and `health` steps 4 and 5 of the
deploy, `rb_*` `rollbackNodeServer`, `save_*` the writes of the job's end,
`recover*` `recoverSwap` and `boot*` what surrounds it at boot.

Left out on purpose: ports (`servingPort`; the upstream is only an alias, so the
second reload of a rollback to another port is not there), images and their
pruning, mail networks, the publish folder of a static site, what a person's
`remove` does, connections a visitor already holds, a crash of the machine.  The
build, with ingestion and guardrails, is one step that works or fails.

### ProjectGate

| variable | in the program |
|---|---|
| `starting`, `held`, `maintenance` | the project's part of `starting`, `backupHeld`, `maintenance` |
| `jobs`, `disk.jobs` | the deploy jobs in memory and in `deploy-jobs.json`; a job is named as its request |
| `present`, `disk.present` | the project is in the list of projects |
| `kind`, `stage`, `republished` | the requests: what they ask for, between which awaits they are |
| `unsaved`, `lost` | a last save still to be tried; jobs whose first save failed |
| `interrupted`, `boot` | `interruptedJobs` and the place of `recoverInterruptedDeploys` |

Node runs one piece of code at a time, so everything between two awaits is one
action and every await is a place where any other request may come in.
`Reserve` checks and marks in one step because `reserveProject` awaits nothing;
`AskChange` and `Change` are two, because `stop`, `start` and `deleteProject`
check, then await Docker, and mark nothing.  A save writes the list of the moment.
A crash drops the memory and reads the file back (`load`).

### PanelRestore

| variable | in the program |
|---|---|
| `data`, `staged`, `safety`, `previous` | the data directory, `.restaurar-painel/`, `antes-da-restauracao/`, `antes-da-restauracao.anterior/`: each name with the version of the item under it |
| `hasStaged`, `marker`, `progress` | whether the staging folder exists; the two JSON files beside it |
| `log` | what `backups-history.json` says of restores, kept per version of that file because the file itself is moved |
| `step`, `phase`, `asked` | the place of the process in `applyPendingPanelRestore`; `progress.phase` and `progress.marker` in memory |
| `job`, `ssh`, `issued` | the restore job of the panel that is up; where `restaurar-painel.sh` is; how many restores were asked for |
| `before`, `incoming` | history: the version of the last time the panel was up, and the one in the staging folder when the switch began |

One action is one rename, one removal or one write.  `Save` and `SaveFails` keep the
order of `save()`: memory first, then the file.  The names are those that tell the
cases apart: the history, a directory (`mail`; a rename onto a directory that is not
empty fails), items only some versions have, a preserved name, and one of
`ARCHIVE_EXTRAS`.  `Crash` is a kill at any step of a start, `Stop` one while the panel
is up.  `Faults` says which errors happen; the modes of the files, the audit log and
`afterApplied` are left out.  `panel-restore.ts` runs alone, before any service; the one
process beside it is `restaurar-painel.sh`, whose steps are actions of their own.  It looks at
the progress file (`SshCheck`, line 67), may wait for a password, and stops the
panel wherever it is by then (`SshStop`); from there to its `docker start` the panel is held
off (`Held`), while the script empties the folder, extracts, prunes and writes the
marker in place.  `SshFails` and `SshClean` are its error path (lines 118-121), `SshCut` is the script
being killed, or failing to clean, with whatever part of the folder or of the marker that leaves.
One script runs at a time, and nobody else starts the container while it works.

### Sessions and SessionHolders

| variable | in the program |
|---|---|
| `sessions`, `loaded`, `queue`, `saving`, `before` | `this.sessions`, `this.loading`, the chain `writing`, the steps of the save of its head, and `antes` |
| `disk`, `durable`, `refused` | what `sessions.json` holds, what it may hold after a power cut, and whether the last sync of the directory was refused |
| `expired` | sessions past `expiresAt` |
| `call` | each request: passed the hook (`resolved`), or waiting in the queue with a change |
| `told` | history: what people were told of each session |
| `conn`, `owner`, `gate` | each WebSocket and its session, `owner`, the entries of `TerminalGate` |
| `unlocked`, `counted`, `generation`, `unlocking` | the entries and `generations` of `DatabaseUnlock`, and the requests that wait for a backup |
| `admitted` | sessions whose requests to enable, unlock or lock passed the hook: their handlers may still run, however late |

A change is a function applied when its turn comes, as `persist` does, so `Goes` and
`Comes` are computed from the list of that moment.  `writeFileAtomic` is three steps
(temporary, rename, sync): a failure of the first two takes the change back, a
refused sync does not, a crash keeps the rename and a power cut may not.
`SessionHolders` conjoins each step of the store with what its listeners do:
`RevokedHeard` is `Synced` with the notices of `onRevoked`, all in one piece of
JavaScript; `Alone` lists the steps nobody listens to.  It takes the setup as over and
one project's database.  Enabling asks for a password and may succeed or fail; which
password it was is not modelled.

## 3. What is checked

| run | bounds | properties | shows |
|---|---|---|---|
| `swap` | 3 deploys, all kinds, swap possible, one Caddy restart | `Served`, `NoMix`, `OnlyProbed`, `FailureKeepsPublished`, `SwitchesCleanly`, `MixEnds` | without faults, good and bad deploys are a sequence of clean switches (a refinement of `ZeroDowntime`) |
| `troubles` | 2 deploys, with and without the swap, 4 troubles of every sort | `TypeOK`, `SwapKeepsAlive`, `LastContainer`, `StopIsKept` | what holds even when commands fail, reloads are refused, the panel dies, a person stops the site |
| `endings` | 3 deploys of `node` and `static` projects, 3 troubles (faults, refusals, crashes, restarts of Caddy) | `IdleServes`, `AliasExclusive`, `UpstreamsAnswer`, `OutageOnlyByRollback`, `JobEnds` | every job and recovery ends, a probe reaches only its version, no reload to come cuts visitors off |
| `gate` | 3 requests of any kinds, 1 restart | `TypeOK`, `Exclusive`, `CleanupSees`, `OneInterrupted`, `BusyHasOwner`, `MaintenanceCounts`, `GetsFree` | nobody works on a project together, and everybody gives it back |
| `panel` | 3 restores, 4 troubles, 7 names; every error but the three of `Tolerable` (section 4) | `TypeOK`, `NeverHalf`, `NothingLost`, `CopyKept`, `HistoryTrue`, `SwitchesWhole`, `ComesUp` | the panel comes up again, with one whole version (a refinement of `PanelSwitch`), and loses nothing on the way |
| `sessions` | 3 sessions of 2 accounts, 2 requests, 1 expiry, every fault | `TypeOK`, `RecordAgrees`, `MemoryIsRecord`, `EndedForGood`, `Answered` | answers, file and memory agree; a failed write stops nobody |
| `holders` | 2 sessions, 1 request, 2 WebSockets, 1 unlock, 2 locks, failing writes and crashes | `HeldTypeOK`, `NoOrphanTerminal`, `NoOrphanUnlock`, `LockWins` | nothing outlives its session, in whatever order hook, handler, notice and backup come |
| `claim_boot`, `claim_map`, `claim_down`, `claim_stop`, `claim_undo` | as small as the counterexample needs | one each | section 5 |

**Why the bounds are enough.**  A swap needs one deploy to set up and one to swap;
the third meets what the second left (an alias in use, a leftover, a previous
container of another deploy), and from then on the aliases `a` and `b` alternate.
With two deploys and four troubles (`troubles`, 796 thousand states) a failing undo of
a failing swap can still be followed by a crash and by a failing step of the recovery.
Three reloads refused in a row leave Caddy on the alias of a
version that is gone, which the next deploy picks (section 5): `endings` (423 thousand
states, with liveness) therefore has three deploys and three troubles.
The theorems of section 4 remove these bounds.  A third alias (`c`) is taken only when a
leftover and the current container hold the other two.  In `gate` two requests are enough for
any conflict and the third passes between the release and the second hold of a
restore.  The theorems of section 4 remove the bound on requests and restarts.
In `panel` (110 thousand states) the third restore meets both copies in use, and
four troubles let a failed switch, its failed undo and a crash in the resumed undo
happen to the same restore; three restores also let the script refill the folder of a
request that waits, fail, and be run again.  In `sessions` (714 thousand) three sessions are the
least that give "the others of this account" something to keep and something to
end, and two requests put one change behind another in the queue.  `holders` (1.06
million) needs two sessions to tell an ended one from another, two WebSockets for a
replacement and two locks for a counter that goes up twice while an unlock waits;
`PruneAt` has the value of the code, which two sessions never reach.  The
theorems remove these bounds too.

**Preconditions of the properties.**  Some properties speak only of histories
without certain troubles, because the code cannot or does not promise more:
`AliasExclusive` of `BlueGreen` without failing commands (an unreadable container hides its
alias), `LastContainer` without them too, `UpstreamsAnswer` and `OutageOnlyByRollback` without crashes
and stops either (section 5 has the crash), `IdleServes` for static sites with one crash
only (with a second, between the save of the interrupted job and the last reload of its
recovery, nothing writes the proxy again).  `FailureKeepsPublished` is about the kinds that keep a previous container:
a static site whose health check fails after the swap stays on the new version.
The properties of `PanelRestore` are promised without the three troubles of `Tolerable`, which
the `Faults` of the run `panel` leave out; what the code does with each is in section 5.

**Fairness.**  `FairSpec` of `BlueGreen` is weak fairness of the panel's own next
step, of its restart (the container has a restart policy) and of the reload in the
queue: every docker command and every wait of the code has a deadline, so a step
that is enabled ends.  No fairness is assumed of people, of other projects or of
Caddy's restarts.  In `ProjectGate` the steps of each request and of the boot are weakly
fair, for the same reason (a poll is repeated, a promise settles); asking for
something is not, and neither is the last save.  In `PanelRestore` the steps of a start are
weakly fair: Docker starts the container again (`restart: unless-stopped`; after a script
that was cut with the panel stopped, a person does) and nobody holds that process up.  So are
the steps of the script once it has stopped the panel, which only wait for commands; the
wait for a password before that is not, and `ComesUp` does not need it.  Errors and crashes are
bounded by `MaxTroubles`, so `ComesUp` reads "once the disk stops failing".  In `Sessions` the turn of the queue and the
return of each call to the file system are fair; requests, expiries and
crashes are not.  `troubles`, `holders` and three of the claims need no fairness;
`claim_undo` has the fairness of `panel`, and its counterexample is a panel that
starts and fails for ever.  `gate`, `claim_stop`, `panel` and `claim_undo` turn the deadlock check off
because a history of so many requests, or of so many troubles, really ends.

**Mutants.**  Each property is paired in `PROJECT.json` with a change to one
mapped definition, of the kind a bug in that code would be, under which TLC finds
the property violated: the undo that lets go of the proxy although it was refused,
the alias taken without looking, the save of one job instead of the list, the hold
that is never released.

## 4. What is proved

### ProjectGate

`ProjectGateProofs` proves with TLAPS, for every finite set of requests (the one
assumption, `RequestAssumption`; there are finitely many HTTP requests in the life
of a process) and every number of restarts:

| theorem | statement |
|---|---|
| `TypeCorrect` | `Spec => []TypeOK` |
| `Reservations` | `Spec => [](Marked /\ Exclusive)` |
| `ExclusiveHolds` | `Spec => []Exclusive` |
| `CleanupSeesHolds` | `Spec => []CleanupSees` |
| `OneRunningHolds` | `Spec => []OneRunning` |
| `OneInterruptedHolds` | `Spec => []OneInterrupted` |
| `BusyHasOwnerHolds` | `Spec => []BusyHasOwner` |
| `MaintenanceHolds` | `Spec => []MaintenanceCounts` |

The argument.  `Exclusive` alone is not inductive: it does not say why the next
check would notice who is at work.  `Marked` says it: a request that prepares or
saves has `starting` set, one that holds has `held` set, one whose job runs has the
job "running" in the list (unless the project left the list, and then nobody is
let in), and the recovery has `starting` set.  A new worker is let in only by
`Busy = FALSE`, so there is no other (lemma `FreeMeansNobody`); every other action
moves one request along and keeps or hands over its mark.  `OneRunning` rests on
that: a job enters the list only when no other runs, and since every save writes
the whole list, the file and what a restart reads back from it have at most one
too.  `MaintenanceCounts` is an induction on its own: each action adds to or takes
from the set of restores in progress exactly what it adds to or takes from the
count; the `ELSE 0` of `Ends` (the code never goes below zero) is never taken, which
the proof shows through the cardinality of that set.

### BlueGreen

`BlueGreenProofs` proves, for any kinds of project, any bounds on deploys and
troubles and **every trouble** (failing commands, refused or half-applied reloads,
crashes, stops, restarts of Caddy), from the module's assumptions on its constants:

| theorem | statement |
|---|---|
| `TypeCorrect` | `Spec => []TypeOK` |
| `SwapKeepsRunning` | `Spec => SwapKeepsAlive` |
| `StopStays` | `Spec => StopIsKept` |

The argument.  `SwapKeepsAlive` speaks of a step, and a step does not tell which
version may be removed: `Sides` does.  From the plan until the old version is
stopped, and again from the moment the undo has checked it, `current` runs; from its
start until it takes over, `next` runs.  Every command of the swap then stops or
removes one side while the other runs.  That survives a failing command because
the code looks at the state again before it goes on (`ab_check`, `reprobe`), and
survives a person's stop because the property then says nothing (`Online`).  `Callers`
says who called the shared routines, so that `promote` in a swap is told from
`promote` at boot; `BootWorks` that the recovery at boot works only on a project nobody
stopped, with no `stop()` left over from before, from which `StopIsKept` follows;
`Unborn` and `Real` that nothing runs that does not exist and nothing is recovered
before the first deploy.

`BlueGreenCalmProofs` adds the assumption `Calm`: builds, probes and versions may
fail and Caddy may restart, as often as they like, but no docker command fails, Caddy refuses
nothing, the panel stays up, nobody presses stop, and every project that runs can be swapped.
These are the troubles of the run `swap`, without its bounds on deploys and restarts.  A
direct deploy of a running project takes it down by design, and section 5 tells what
failing commands, refusals and crashes can do to the five.

| theorem | statement |
|---|---|
| `AlwaysServed` | `Calm` gives `Spec => []Served` |
| `NeverMixed` | `Calm` gives `Spec => []NoMix` |
| `ProbedFirst` | `Calm` gives `Spec => []OnlyProbed` |
| `FailureIsUndone` | `Calm` gives `Spec => []FailureKeepsPublished` |
| `SwitchesAreClean` | `Calm` gives `Spec => SwitchesCleanly`, the refinement of `ZeroDowntime` |

The argument.  `CalmInv` says for each phase which containers exist, which run, under
which aliases, and where the proxy points: beside the old version (`AtBeside`), with the proxy
on the new one (`AtTaking`), undoing, before the last reload (`AtProxy`), being watched
(`AtServed`), rolled back.  A version may stay alone only if it is `Good`: it has
the project's alias and at most one other, and it answered its probe if it began
beside another.  From that, `Reached` is computed as a function of the phase (`Seen`,
lemma `ReachedIs`), and the safety theorems are read off it.  For the refinement, seven
steps change `Seen` (a first start, the alias that is joined, the reload to the new
version, the undo's reload and stop, the two ends of a rollback), and each is a step of
`ZeroDowntime`; every other one is a stutter.  TLC
checked `CalmInv` with four deploys before it was proved.

`BlueGreenDockerProofs` and `BlueGreenVisitorProofs` lie between the two: they assume nothing
of `Troubles` nor of the bounds, and speak of the histories in which certain troubles did
not happen so far.  A property that begins with `Without` needs an invariant that does
too (`Answers => ...`, `Fair => ...`, `Site => ...`); it is inductive because a trouble that has not
happened after a step had not happened before it (`SpentOnce`).

| theorem | statement | histories |
|---|---|---|
| `ProbeIsExclusive` | `Spec => []AliasExclusive` | no docker command failed |
| `LastIsKept` | `Spec => LastContainer` | no docker command failed |
| `NextReloadServes` | `Spec => []UpstreamsAnswer` | no command failed, no crash, no stop |
| `OnlyRollbackCutsOff` | `Spec => OutageOnlyByRollback` | no command failed, no crash, no stop |
| `SiteServes` | `SwapSetting = {TRUE}` gives `Spec => []IdleServes` | static, no command failed, no refusal, no stop, one crash |

The argument for the first two.  `DockerInv` has a part that holds whatever happens
(`Always`: a version is the number of a deploy that began, a stop names versions older
than the deploy in progress, a container has the project's alias and at most one other, the
version a deploy starts runs until its end) and one that a failing command breaks
(`Answered`).  `Gone` says that no leftover runs from the end of the settling until the new
version starts, `Picked` that the alias is on nobody else who runs: pickNextAlias has three
aliases for two containers that may have one each (`PickIsFree`).  For the last
container, `Cleared` says that the name a container is about to take is free, so that no rename
fails and leaves the code on a path of its own, `Abandoned` that an undo always finds the old version
as it was, and `Led` that a previous version runs alone only where it is on its way:
set aside and not stopped yet, or about to get its name back at boot.  Each step
that stops or removes a container then leaves another one running, but those the property names.

For visitors, `Visited` relates four upstreams: the one in Caddy's memory, the one in its
file, the one a reload has computed and the one in `swapUpstream`.  A refusal may leave any
two of them different, but each of the last three is answered by a version that runs
(`Kept`, `Computed`, `Filed`, `NextReloadServes`), so no reload and no restart of Caddy cuts
anybody off (`ReloadServes`).  The first one may be nobody's; where a version is
taken away, `Loaded` and `Apart` say that Caddy is on the other one (`CommandServes`).  The one
exception was found by this proof: section 5.

`SiteServes` is about recovery.  `Attended` follows a deploy through its one crash: before it, the
current version answers until the new one, which has the project's alias by then, is alone; after it
(`Interrupted`, `Resuming`) the boot either finds the current one or promotes the
other; and Caddy, wherever the crash left it, is written again before the recovery ends (`Told`).
The assumption on `SwapSetting` is about projects that can be swapped: a deploy without a swap
removes the version in service first, and a crash right then leaves nothing.

### PanelRestore

`PanelRestoreProofs` proves, for every set of names, every content of every
version and any number of restores and troubles, from the module's
`ConstantsAssumption` and from `Tolerable`:

| theorem | statement |
|---|---|
| `TypeCorrect` | `Spec => []TypeOK` |
| `NeverHalfSwapped` | `Spec => []NeverHalf` |
| `NothingIsLost` | `Spec => []NothingLost` |
| `CopyIsKept` | `Spec => []CopyKept` |
| `HistoryIsTrue` | `Spec => []HistoryTrue` |
| `SwitchImplemented` | `Spec => SwitchesWhole` |

`Tolerable` excludes three troubles, with each of which some of these properties are false
(section 5): "conclude", the failed write of the last phase; "unguarded", a removal or an
extraction that stops in the middle and leaves part of a version in the staging folder
beside the marker of a request; "overtaken", the script stopping the panel inside a
swap that began after its only look at the progress file.  Everything else may happen any number
of times: swaps that begin and end between that look and the `docker stop`, extractions that fail at any
point, removals that stop where nothing asks for the folder.

The argument.  For each phase the invariant says where every item is: `salvando`
has each item of the old version in `data` or in `safety`; `aplicando` has all of them in
`safety` and each of the new one in `staged` or in `data`; the two phases of the
undo are the same pictures read backwards (`Places`).  A second part (`Order`) ties
marker, staging folder, progress file and script together: while a restore job or the script fills the
folder there is no progress file, and a folder that the next start would use, or that its
author has finished (`Trusted`), holds one version, later than the present one.  A third (`Control`) says that
the phase in memory and the one in the file differ only at the catch.  `NeverHalf`
is then the end of each phase: nothing is left to move, hence the data is
one version.  `CopyKept` and `HistoryTrue` need a fourth part about the history
(`LogInv`), because the file that tells of a restore is itself among the items moved.
The refinement follows: the only step that brings the panel up chooses between the
version before and the one that was offered.

### Sessions and SessionHolders

`SessionsProofs` and `SessionHoldersProofs` prove, for any number of sessions,
requests, WebSockets, unlocks and faults:

| theorem | statement |
|---|---|
| `TypeCorrect` | `Spec => []TypeOK` |
| `FileKeepsItsWord` | `Spec => []RecordAgrees` |
| `ListIsFile` | `Spec => []MemoryIsRecord` |
| `EndedStaysEnded` | `Spec => []EndedForGood` |
| `StoreImplemented` | `HeldSpec => Spec` |
| `HeldTypeCorrect` | `HeldSpec => []HeldTypeOK` |
| `TerminalEnds` | `HeldSpec => []NoOrphanTerminal` |
| `UnlockEndsToo` | `HeldSpec => []NoOrphanUnlock` |
| `LockIsKept` | `FewCounters` gives `HeldSpec => LockWins` |

The argument for the store.  `Copies` says which of memory, `before`, file and
what a power cut may leave are equal in each step of a save; `Answers` ties `told` to
them; `Logins` says that a login in the queue is for a session nobody has seen,
once in the queue; `Loading` that the change of the load is alone in the queue.  A session
whose end was answered is then neither in the file nor in any list a failed
write could go back to.  For what hangs on it: every attached WebSocket and every
unlock belongs to a session whose end was not answered (`Hanging`), before the list
is loaded there is none (`Quiet`), and whoever waits passed the hook with a session
that was answered (`Admitted`).  The notice that comes with an end's answer finds all that
hang on it; what opens or is granted later asks `isActive`, and a session whose
end was answered is in no list.  `LockIsKept` needs that an
overtaken ticket is less than the counter or its session has ended, and
`FewCounters` (fewer sessions than `PruneAt`), because `prune` could otherwise
drop the counter of a session that is being revoked, whose revocation then fails.

### What is only model-checked

Liveness (`GetsFree`, `JobEnds`, `MixEnds`, `ComesUp`, `Answered`), which is out of the
prover's reach.  Every invariant and every action property that a passing run checks
is proved; the five of `BlueGreenCalmProofs` only under `Calm`, outside which they are not claimed,
and the other conditional ones under the conditions they state.  The inductive invariants
were checked by TLC on the instances of the runs before they were proved.

## 5. What was found

Five statements of the repository that the code does not keep; each has a run that
ends with the counterexample.

* `claim_boot`: after a restart with both versions up, the boot removes the new one
  without waiting for the reload that takes visitors off it.
* `claim_map`: `swapUpstream` outlives the next deploy when the leftover was settled
  as "stopped"; the first reload after that deploy points at a stopped container.
* `claim_down`: a restart between the rename and the start of a rollback is reported
  as "down" although the published version is there, stopped under its usual name.
* `claim_stop`: stop, start and delete are checked and not reserved, so a deploy may
  begin while they are at work.
* `claim_undo`: when the write of the last phase of a restore of the panel fails,
  memory already says `concluindo`; the undo then skips the withdrawal of the backup's
  items and gives the old ones back on top of them, which fails at every start:
  the panel never comes up again.  Without a directory among the items it would come
  up with files of the backup mixed in.

Other behaviours met while modelling, which shaped the preconditions above: three
reloads refused in a row (the last one of a swap, the one after its rollback, the first one of
the next deploy) leave Caddy on the alias of the version the rollback removed; no container has that
alias any more, so `pickNextAlias` (`blue-green.ts:120`) may give it to the next version, which
then gets the visitors before it is probed, and leaves with them if the probe fails; the
final reload of a swap refused, then a rollback that removes the version Caddy
uses (`engine.ts:2351` reports the site as up; it is not until the next reload);
visitors are split again during the three seconds of the undo, besides the moment
the documents name (`blue-green.ts:256`); when the way forward is half-applied and the
way back is refused, Caddy may stay on the shared alias with both versions behind it;
one unreadable inspect in phase 3 makes `promoteNext` leave and join the network
with the traffic on it; a failed direct deploy restarts the containers of a project
a person had stopped; a failed first save leaves a job "running" until the
next restart (`lost`); the two last saves of a recreate are not guarded from each other.

In the restore of the panel: the job that stages a backup while the marker of an
earlier one still waits removes the folder first and leaves that marker, so a restart
in between restores a folder half prepared, with the preserved names still in it
(they are skipped).

Two more breaks of what the restore of the panel promises were met, and the runs leave them out by
name.  Adding either word to the `Faults` of `panel.cfg` gives the counterexamples.

* "overtaken": `restaurar-painel.sh` looks for the progress file once, at line 67, and stops the panel
  after the archive was tested and a password typed (79-99).  A panel that restarts in between with a
  request of its own begins a swap, is stopped inside it, and the script empties and refills the staging
  folder that still held part of the other version.  The next start goes on from the
  progress file: it mixes two versions, or loses the items that were only in the folder (`NeverHalf`,
  `SwitchesWhole`), or finds a directory where it must move one and never
  comes up (`ComesUp`).  The script says that a swap left halfway is not touched
  (`restaurar-painel.sh:34-36`), and why (65-66); a second look after `docker stop` would keep the promise.
* "unguarded": with the marker of an earlier request in place, the staging folder is removed or filled again
  before that marker goes, by `stagePanel` (`backup-service.ts:3550`), by a cancelled preparation
  (`panel-restore.ts:139`) or by the script (109-110).  Stopped there, the next start
  takes the part that is in the folder for the whole backup (`NeverHalf`, `SwitchesWhole`).  The script's own error
  path removes both (118-121), so only a script that is killed, or whose cleanup fails too, gets there.

In the sessions: while a revocation is being written its session is not active, so a
frame of the terminal or a check of the unlock in that window ends them although
the write may fail (`session-store.ts:15` says that a failed revocation drops
nothing).  With 256 counters or more, a revocation that fails can bring a session
back with its counter at zero, which an older ticket may match.  A request to enable
the terminal that was confirmed with the old password still enables it after the
change (`terminal-access.ts:94`; `routes/auth.ts:410` says otherwise).  Enabling it
for a session that has ended is harmless: nothing opens for it.

In the files: `loadOrCreateKey` that finds an invalid file may move aside the valid one
another process has just made; `JsonFile.update` moves an unreadable file aside before it
writes, so a failed write leaves none.

## 6. What is not modelled, and why

Compose projects, detection, ingestion, guardrails and the web client have no shared
state of their own; the shell, SQL and log streams are relays; e-mail and certificates
are mostly configuration of external servers.  Metrics and alerts are thresholds over
numbers.  Time is abstracted everywhere: a deadline is a choice, and the comparison of
Docker's clock with the panel's is replaced by the number of the deploy.

Near the modelled parts, and left out: the login limiter, the second factor and the
codes by e-mail (`Sessions` begins where a login has passed every check); the API tokens
and MCP approvals; the terminal opened with the setup token; the creation of keys and
`JsonFile.update`; the volumes and containers a restore of a project swaps and stops;
the retry chain of the proxy with its generation counter; the limits of the
deploy history.  A power cut is not modelled while the file system refuses to
sync a directory, because the code then promises nothing.

## 7. Plan

What this project would grow by, in order:

1. More about `BlueGreen` with refused reloads and crashes: a form of `NoMix` and of
   `OnlyProbed` that allows for them, with its theorem.
2. The restore of a project (`upload-restore.ts`, `restoreProject`): volumes and
   containers that are swapped and must come back, composed with `ProjectGate`.
3. The retry chain of the proxy (`deploy-service.ts`): its generation counter, and
   that the proxy ends up with the last configuration asked for.
4. The login limiter and the second factor in front of `Sessions`: attempts in flight,
   a code used twice.
5. Keys and `JsonFile.update`: two creators, and an update that is never lost.
