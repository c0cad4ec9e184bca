---------------------------- MODULE PanelRestore ----------------------------
(***************************************************************************)
(* Restoring the panel's own data (panel-restore.ts).  With the panel up,  *)
(* backup-service.ts leaves the extracted backup in a staging folder and a *)
(* marker beside it, and the panel restarts.  The next start, before any   *)
(* service reads the disk, moves the present data to a safety copy and the *)
(* staged items to their place, one rename at a time, with the phase in a  *)
(* progress file.  An error undoes the swap, a crash at any point leaves   *)
(* it for the next start.                                                  *)
(* restaurar-painel.sh leaves the same folder and marker from outside, and *)
(* stops the panel for the time it takes.                                  *)
(*                                                                         *)
(* A folder is a function from names to the version of the item it holds.  *)
(* Version 0 is the installation's own data, version v that of the v-th    *)
(* backup somebody asked to restore.  The panel's services rewrite their   *)
(* files all the time; here the data of a version stays that version.      *)
(***************************************************************************)
EXTENDS Integers, FiniteSets

CONSTANTS
    Name,        \* entries of the data directory and of a backup
    Dir,         \* the ones that are directories: a rename does not replace them
    Preserved,   \* PANEL_PRESERVED: never moved
    Extra,       \* ARCHIVE_EXTRAS: in a backup, and no data of the panel
    History,     \* backups-history.json
    Restores,    \* bound: how many restores are asked for
    Has,         \* Has[v]: the names the data of version v has
    Faults,      \* what may go wrong on the disk, see Fault
    MaxTroubles  \* bound: failures and crashes in a behaviour

Version == 0..Restores
None == -1          \* no item, no marker
Bad == -2           \* a marker file cut in the middle

\* "conclude" is the write of the phase "concluindo".  "unguarded": a removal or an
\* extraction stops in the middle and leaves part of a version in the staging folder
\* with the marker of a request beside it.  "overtaken": restaurar-painel.sh stops
\* the panel inside a swap that began after its only look at the progress file.
Fault == {"extract", "prepare", "move", "save", "conclude", "undo", "note", "clean",
          "unguarded", "overtaken"}

ASSUME ConstantsAssumption ==
    /\ Restores \in Nat
    /\ MaxTroubles \in Nat
    /\ Faults \subseteq Fault
    /\ Dir \subseteq Name
    /\ Preserved \subseteq Name
    /\ Extra \subseteq Name \ Preserved
    /\ Has \in [Version -> SUBSET (Name \ (Preserved \union Extra))]
    /\ History \notin Dir
    /\ \A v \in Version : History \in Has[v]

VARIABLES
    data,        \* the data directory
    staged,      \* backups/.restaurar-painel
    hasStaged,   \* does that folder exist?
    safety,      \* backups/_painel/antes-da-restauracao
    previous,    \* backups/_painel/antes-da-restauracao.anterior
    marker,      \* .restaurar-painel.json: the restore it asks for
    progress,    \* .restaurar-painel.progresso.json
    step,        \* where the process is
    phase,       \* progress.phase in memory
    asked,       \* progress.marker in memory: the restore being done
    job,         \* the restore job of the panel that is up
    ssh,         \* where restaurar-painel.sh is
    issued,      \* how many restores were asked for
    log,         \* what backups-history.json says of restores, in each version of it
    before,      \* the version of the last time the panel was up
    incoming,    \* the version in the staging folder when the swap began
    troubles     \* failures and crashes so far

files == <<data, staged, hasStaged, safety, previous, marker, progress, log>>
ghosts == <<before, incoming>>
vars == <<files, step, phase, asked, job, ssh, issued, ghosts, troubles>>

Swapping == {"salvando", "aplicando"}
Phases == Swapping \union {"concluindo", "desfazendo-retirando", "desfazendo-devolvendo"}
InMemory == Phases \union {"preparar", "cancelar", "nenhuma"}
Steps == {"off", "up", "older", "aside", "begin", "move", "save", "catch",
          "note", "clean staged", "clean marker", "clean progress"}
\* restaurar-painel.sh keeps the panel off from its `docker stop` to its `docker start`.
Held == {"stopped", "wiped", "filled", "pruned", "ready", "failed"}
Content == Version \union {None}
Folder == [Name -> Content]
NoProgress == [phase |-> "nenhuma", for |-> None]

Empty == [n \in Name |-> None]
\* The data of a version in an installation: what is preserved is always its own.
Data(v) == [n \in Name |-> IF n \in Preserved THEN 0 ELSE IF n \in Has[v] THEN v ELSE None]
\* What the swap moves of a version, and what a backup of it holds when extracted.
Items(v) == [n \in Name |-> IF n \in Has[v] THEN v ELSE None]
Archive(v) == [n \in Name |-> IF n \in Has[v] \union Preserved \union Extra THEN v ELSE None]
WithoutPreserved(folder) == [n \in Name |-> IF n \in Preserved THEN None ELSE folder[n]]

Init ==
    /\ data = Data(0)
    /\ staged = Empty /\ hasStaged = FALSE
    /\ safety = Empty /\ previous = Empty
    /\ marker = None /\ progress = NoProgress
    /\ step = "up" /\ phase = "nenhuma" /\ asked = None
    /\ job = "idle" /\ ssh = "none" /\ issued = 0
    /\ log = {}
    /\ before = 0 /\ incoming = None
    /\ troubles = 0

---------------------------------------------------------------------------
(* With the panel up: stagePanel of backup-service.ts *)

\* A restore job starts: refused with a swap half done, else the old staging
\* folder goes.  The marker of an earlier request may still be there.
ClearStaging ==
    /\ step = "up" /\ job = "idle"
    /\ issued < Restores
    /\ progress = NoProgress
    /\ staged' = Empty /\ hasStaged' = FALSE
    /\ job' = "fill" /\ issued' = issued + 1
    /\ UNCHANGED <<data, safety, previous, marker, progress, log, step, phase, asked, ssh, ghosts, troubles>>

\* The extracted backup is renamed to the staging folder.
FillStaging ==
    /\ job = "fill"
    /\ staged' = Archive(issued) /\ hasStaged' = TRUE
    /\ job' = "adapt"
    /\ UNCHANGED <<data, safety, previous, marker, progress, log, step, phase, asked, ssh, issued, ghosts, troubles>>

\* What this installation keeps leaves the staging folder; restoreCaddy,
\* adaptRestoredPanel and reconcileStagedPanel change files inside it.
AdaptStaging ==
    /\ job = "adapt"
    /\ staged' = WithoutPreserved(staged)
    /\ job' = "mark"
    /\ UNCHANGED <<data, hasStaged, safety, previous, marker, progress, log, step, phase, asked, ssh, issued, ghosts, troubles>>

\* The marker: from here the next start swaps.  The restart is asked for.
MarkStaging ==
    /\ job = "mark"
    /\ marker' = issued
    /\ job' = "idle"
    /\ UNCHANGED <<data, staged, hasStaged, safety, previous, progress, log, step, phase, asked, ssh, issued, ghosts, troubles>>

Trouble(kind) ==
    /\ kind \in Faults
    /\ troubles < MaxTroubles
    /\ troubles' = troubles + 1

\* Any of those steps fails: the job ends as failed and the folder stays as it is.
StagingFails ==
    /\ job # "idle"
    /\ Trouble("extract")
    /\ job' = "idle"
    /\ UNCHANGED <<files, step, phase, asked, ssh, issued, ghosts>>

Parts(folder) == {[n \in Name |-> IF n \in gone THEN None ELSE folder[n]] : gone \in SUBSET Name}
Whole(folder) ==
    \E v \in Version : \A n \in Name \ (Preserved \union Extra) : folder[n] = Items(v)[n]

\* Part of a version with the marker of a request beside it: the next start uses it.
Misleads == marker \in Version /\ hasStaged /\ ~Whole(staged)

---------------------------------------------------------------------------
(* The process *)

Forgets ==
    /\ step' = "off" /\ phase' = "nenhuma" /\ asked' = None /\ job' = "idle"

\* `docker start`, or Docker itself (restart: unless-stopped), may start the panel.
Startable == step = "off" /\ ssh \notin Held

\* The panel stops or is restarted, at any moment of a restore job.
Stop ==
    /\ step = "up"
    /\ Forgets
    /\ UNCHANGED <<files, ssh, issued, ghosts, troubles>>

\* Killed in the middle of a start.
Crash ==
    /\ step \notin {"up", "off"}
    /\ troubles < MaxTroubles
    /\ troubles' = troubles + 1
    /\ Forgets
    /\ UNCHANGED <<files, ssh, issued, ghosts>>

\* The panel is up with the data as they are.
Up == step' = "up" /\ phase' = "nenhuma" /\ asked' = None /\ before' = data[History]

FirstStep(ph) ==
    CASE ph = "concluindo" -> "note"
      [] OTHER -> "move"

\* Mutant: only the swap is resumed, not its undoing.
ResumeSwap ==
    /\ Startable /\ progress.phase \in Swapping
    /\ phase' = progress.phase /\ asked' = progress.for
    /\ step' = "move"
    /\ UNCHANGED <<files, job, ssh, issued, ghosts, troubles>>

\* A start that finds a progress file goes on from its phase.
Resume ==
    /\ Startable /\ progress # NoProgress
    /\ phase' = progress.phase /\ asked' = progress.for
    /\ step' = FirstStep(progress.phase)
    /\ hasStaged' = (hasStaged \/ progress.phase = "desfazendo-retirando")
    /\ UNCHANGED <<data, staged, safety, previous, marker, progress, log, job, ssh, issued, ghosts, troubles>>

\* Mutant: the folder alone asks for a restore, whatever the marker says.
AskedByFolder == hasStaged

Asked == marker \in Version /\ hasStaged

\* A start with nothing to restore; a marker that means nothing is removed.
NothingToDo ==
    /\ Startable /\ progress = NoProgress /\ ~Asked
    /\ marker' = None
    /\ Up
    /\ UNCHANGED <<data, staged, hasStaged, safety, previous, progress, log, job, ssh, issued, incoming, troubles>>

\* Mutant: every start with a marker begins anew, also with a swap half done.
PrepareAnew ==
    /\ Startable /\ marker \in Version
    /\ phase' = "preparar" /\ asked' = marker
    /\ step' = IF safety # Empty THEN "older" ELSE "begin"
    /\ UNCHANGED <<files, job, ssh, issued, ghosts, troubles>>

\* Mutant: the older copy goes even when there is no newer one.
PrepareDrops ==
    /\ Startable /\ progress = NoProgress /\ Asked
    /\ phase' = "preparar" /\ asked' = marker
    /\ step' = "older"
    /\ UNCHANGED <<files, job, ssh, issued, ghosts, troubles>>

\* A start that finds a marker and its folder prepares a swap.
Prepare ==
    /\ Startable /\ progress = NoProgress /\ Asked
    /\ phase' = "preparar" /\ asked' = marker
    /\ step' = IF safety # Empty THEN "older" ELSE "begin"
    /\ UNCHANGED <<files, job, ssh, issued, ghosts, troubles>>

\* The copy of the restore before the last goes, the last one takes its place.
DropOlder ==
    /\ step = "older"
    /\ previous' = Empty
    /\ step' = "aside"
    /\ UNCHANGED <<data, staged, hasStaged, safety, marker, progress, log, phase, asked, job, ssh, issued, ghosts, troubles>>

SetAside ==
    /\ step = "aside"
    /\ previous' = safety /\ safety' = Empty
    /\ step' = "begin"
    /\ UNCHANGED <<data, staged, hasStaged, marker, progress, log, phase, asked, job, ssh, issued, ghosts, troubles>>

\* save("salvando"): from here the progress file rules.
Begin ==
    /\ step = "begin"
    /\ progress' = [phase |-> "salvando", for |-> asked]
    /\ phase' = "salvando" /\ step' = "move"
    /\ incoming' = staged[History]
    /\ UNCHANGED <<data, staged, hasStaged, safety, previous, marker, log, asked, job, ssh, issued, before, troubles>>

\* Anything of the preparation fails: the request is cancelled.
PrepareFails ==
    /\ step \in {"older", "aside", "begin"}
    /\ Trouble("prepare")
    /\ phase' = "cancelar" /\ step' = "clean staged"
    /\ UNCHANGED <<files, asked, job, ssh, issued, ghosts>>

---------------------------------------------------------------------------
(* The moves: moveAll *)

\* The names each phase still has to move.
ToMove(ph) ==
    CASE ph \in {"salvando", "desfazendo-retirando"} -> {n \in Name \ Preserved : data[n] # None}
      [] ph = "aplicando" -> {n \in Name \ (Preserved \union Extra) : staged[n] # None}
      [] ph = "desfazendo-devolvendo" -> {n \in Name : safety[n] # None}
      [] OTHER -> {}

\* A rename replaces a file; onto a directory it fails.
Fits(n, to) == n \in Dir => to[n] = None
Leaves(n, from) == [from EXCEPT ![n] = None]
Enters(n, to, item) == [to EXCEPT ![n] = item]

MoveToSafety(n) ==
    /\ phase = "salvando" /\ n \in ToMove(phase) /\ Fits(n, safety)
    /\ data' = Leaves(n, data) /\ safety' = Enters(n, safety, data[n])
    /\ UNCHANGED staged

MoveToData(n) ==
    /\ phase = "aplicando" /\ n \in ToMove(phase) /\ Fits(n, data)
    /\ staged' = Leaves(n, staged) /\ data' = Enters(n, data, staged[n])
    /\ UNCHANGED safety

Withdraw(n) ==
    /\ phase = "desfazendo-retirando" /\ n \in ToMove(phase) /\ Fits(n, staged)
    /\ data' = Leaves(n, data) /\ staged' = Enters(n, staged, data[n])
    /\ UNCHANGED safety

GiveBack(n) ==
    /\ phase = "desfazendo-devolvendo" /\ n \in ToMove(phase) /\ Fits(n, data)
    /\ safety' = Leaves(n, safety) /\ data' = Enters(n, data, safety[n])
    /\ UNCHANGED staged

Move ==
    /\ step = "move"
    /\ \E n \in Name : MoveToSafety(n) \/ MoveToData(n) \/ Withdraw(n) \/ GiveBack(n)
    /\ UNCHANGED <<hasStaged, previous, marker, progress, log, step, phase, asked, job, ssh, issued, ghosts, troubles>>

MovesEnd ==
    /\ step = "move" /\ ToMove(phase) = {}
    /\ step' = IF phase = "desfazendo-devolvendo" THEN "note" ELSE "save"
    /\ UNCHANGED <<files, phase, asked, job, ssh, issued, ghosts, troubles>>

NextPhase(ph) ==
    CASE ph = "salvando" -> "aplicando"
      [] ph = "aplicando" -> "concluindo"
      [] OTHER -> "desfazendo-devolvendo"

\* save(phase): the memory first, then the file.
Save ==
    /\ step = "save"
    /\ phase' = NextPhase(phase)
    /\ progress' = [progress EXCEPT !.phase = NextPhase(phase)]
    /\ step' = FirstStep(NextPhase(phase))
    /\ UNCHANGED <<data, staged, hasStaged, safety, previous, marker, log, asked, job, ssh, issued, ghosts, troubles>>

\* The write fails: the file has the old phase and the memory the new one.
SaveFails ==
    /\ step = "save"
    /\ Trouble(IF phase = "aplicando" THEN "conclude" ELSE "save")
    /\ IF phase \in Swapping
       THEN step' = "catch" /\ phase' = NextPhase(phase) /\ UNCHANGED <<asked, job>>
       ELSE Forgets
    /\ UNCHANGED <<files, ssh, issued, ghosts>>

\* A rename fails: in the swap it is undone, in the undoing the panel does not start.
MoveFails ==
    /\ step = "move" /\ ToMove(phase) # {}
    /\ \/ Trouble(IF phase \in Swapping THEN "move" ELSE "undo")
       \/ \* a directory stands where the item goes: no start gets further
          /\ phase = "desfazendo-devolvendo"
          /\ \E n \in ToMove(phase) : ~Fits(n, data)
          /\ UNCHANGED troubles
    /\ IF phase \in Swapping
       THEN step' = "catch" /\ UNCHANGED <<phase, asked, job>>
       ELSE Forgets
    /\ UNCHANGED <<files, ssh, issued, ghosts>>

\* Mutant: the undoing never withdraws the items of the backup.
UndoGivesBack(ph) == "desfazendo-devolvendo"

\* The catch of the swap: which phase undoes it depends on the phase in memory.
UndoPhase(ph) == IF ph = "aplicando" THEN "desfazendo-retirando" ELSE "desfazendo-devolvendo"

Catch ==
    /\ step = "catch"
    /\ phase' = UndoPhase(phase)
    /\ progress' = [progress EXCEPT !.phase = UndoPhase(phase)]
    /\ step' = "move"
    /\ hasStaged' = (hasStaged \/ UndoPhase(phase) = "desfazendo-retirando")
    /\ UNCHANGED <<data, staged, safety, previous, marker, log, asked, job, ssh, issued, ghosts, troubles>>

CatchFails ==
    /\ step = "catch"
    /\ Trouble("save")
    /\ Forgets
    /\ UNCHANGED <<files, ssh, issued, ghosts>>

---------------------------------------------------------------------------
(* The end: appendHistory and cleanup *)

\* Mutant: an undone restore is recorded as done.
StatusDone == "success"

Status == IF phase = "concluindo" THEN "success" ELSE "failed"

\* The record goes into the history file that is in the data directory now, once
\* per request.
Note ==
    /\ step = "note"
    /\ IF \E r \in log : r.restore = asked /\ r.in = data[History]
       THEN UNCHANGED log
       ELSE log' = log \union {[restore |-> asked, status |-> Status, in |-> data[History], from |-> before]}
    /\ IF phase = "cancelar"
       THEN Up
       ELSE step' = "clean staged" /\ UNCHANGED <<phase, asked, before>>
    /\ UNCHANGED <<data, staged, hasStaged, safety, previous, marker, progress, job, ssh, issued, incoming, troubles>>

CleanStaged ==
    /\ step = "clean staged"
    /\ staged' = Empty /\ hasStaged' = FALSE
    /\ step' = "clean marker"
    /\ UNCHANGED <<data, safety, previous, marker, progress, log, phase, asked, job, ssh, issued, ghosts, troubles>>

CleanMarker ==
    /\ step = "clean marker"
    /\ marker' = None
    /\ step' = "clean progress"
    /\ UNCHANGED <<data, staged, hasStaged, safety, previous, progress, log, phase, asked, job, ssh, issued, ghosts, troubles>>

\* The progress file goes last; a cancelled request never had one and is noted now.
CleanProgress ==
    /\ step = "clean progress"
    /\ progress' = NoProgress
    /\ IF phase = "cancelar"
       THEN step' = "note" /\ UNCHANGED <<phase, asked, before, incoming>>
       ELSE Up /\ incoming' = None
    /\ UNCHANGED <<data, staged, hasStaged, safety, previous, marker, log, job, ssh, issued, troubles>>

\* An error in the note or the cleanup: the panel does not start.
EndFails ==
    /\ \/ step = "note" /\ Trouble("note")
       \/ step \in {"clean staged", "clean marker", "clean progress"} /\ Trouble("clean")
    /\ Forgets
    /\ UNCHANGED <<files, ssh, issued, ghosts>>

\* rm of the staging folder stops in the middle: some of its items are gone.
RemovalStops ==
    /\ step = "clean staged" \/ (step = "up" /\ job = "idle" /\ progress = NoProgress)
    /\ staged' \in Parts(staged)
    /\ UNCHANGED <<data, hasStaged, safety, previous, marker, progress, log, ssh, issued, ghosts>>
    /\ Trouble(IF progress = NoProgress /\ Misleads' THEN "unguarded" ELSE "clean")
    /\ Forgets

---------------------------------------------------------------------------
(* restaurar-painel.sh, beside the panel until it stops it.  Its steps with   *)
(* _caddy touch one of the names of Extra, which no swap moves.               *)

inPlace == <<data, safety, previous, progress, log>>

\* The only look at the progress file.  The archive is tested and a password
\* asked for afterwards, with the panel still at work.
SshCheck ==
    /\ ssh = "none" /\ issued < Restores
    /\ progress = NoProgress
    /\ ssh' = "checked"
    /\ UNCHANGED <<files, step, phase, asked, job, issued, ghosts, troubles>>

\* No password, a wrong one or a broken archive.
SshGivesUp ==
    /\ ssh = "checked"
    /\ ssh' = "none"
    /\ UNCHANGED <<files, step, phase, asked, job, issued, ghosts, troubles>>

\* `docker stop`, wherever the panel is by now.
SshStop ==
    /\ ssh = "checked" /\ issued < Restores
    /\ IF progress = NoProgress THEN UNCHANGED troubles ELSE Trouble("overtaken")
    /\ ssh' = "stopped" /\ issued' = issued + 1
    /\ Forgets
    /\ UNCHANGED <<files, ghosts>>

SshWipe ==
    /\ ssh = "stopped"
    /\ staged' = Empty /\ hasStaged' = TRUE
    /\ ssh' = "wiped"
    /\ UNCHANGED <<inPlace, marker, step, phase, asked, job, issued, ghosts, troubles>>

SshExtract ==
    /\ ssh = "wiped"
    /\ staged' = Archive(issued)
    /\ ssh' = "filled"
    /\ UNCHANGED <<inPlace, hasStaged, marker, step, phase, asked, job, issued, ghosts, troubles>>

\* It removes four of the preserved names; no swap moves any of them.
SshPrune ==
    /\ ssh = "filled"
    /\ staged' = WithoutPreserved(staged)
    /\ ssh' = "pruned"
    /\ UNCHANGED <<inPlace, hasStaged, marker, step, phase, asked, job, issued, ghosts, troubles>>

SshMark ==
    /\ ssh = "pruned"
    /\ marker' = issued
    /\ ssh' = "ready"
    /\ UNCHANGED <<inPlace, staged, hasStaged, step, phase, asked, job, issued, ghosts, troubles>>

\* `docker start`, after the request or after the cleanup of a failed one.
SshStart ==
    /\ ssh = "ready"
    /\ ssh' = "none"
    /\ UNCHANGED <<files, step, phase, asked, job, issued, ghosts, troubles>>

\* What a command of the script that stops in the middle leaves of the folder and
\* of the marker, which is written in place.
HalfDone ==
    /\ staged' \in (CASE ssh \in {"stopped", "failed"} -> Parts(staged)
                      [] ssh = "wiped" -> Parts(Archive(issued))
                      [] OTHER -> {staged})
    /\ hasStaged' \in {hasStaged} \union (IF ssh \in {"stopped", "failed"} /\ staged' = Empty THEN {FALSE} ELSE {})
    /\ marker' \in {marker} \union (IF ssh = "pruned" THEN {Bad} ELSE {})

\* The extraction ends with an error, which the script sees.
SshFails ==
    /\ ssh \in {"stopped", "wiped", "filled", "pruned"}
    /\ HalfDone
    /\ Trouble("extract")
    /\ ssh' = "failed"
    /\ UNCHANGED <<inPlace, step, phase, asked, job, issued, ghosts>>

\* Mutant: after a failed extraction the script starts the panel with what is there.
SshStartsAnyway ==
    /\ ssh = "failed"
    /\ ssh' = "none"
    /\ UNCHANGED <<files, step, phase, asked, job, issued, ghosts, troubles>>

\* The folder and the marker go, an earlier request with them.
SshClean ==
    /\ ssh = "failed"
    /\ staged' = Empty /\ hasStaged' = FALSE
    /\ marker' = None
    /\ ssh' = "ready"
    /\ UNCHANGED <<inPlace, step, phase, asked, job, issued, ghosts, troubles>>

\* The script itself is killed, or its cleanup fails (`|| true`); the panel is
\* started by a person.
SshCut ==
    /\ ssh \in Held
    /\ HalfDone
    /\ UNCHANGED <<inPlace, step, phase, asked, job, issued, ghosts>>
    /\ Trouble(IF Misleads' THEN "unguarded" ELSE "extract")
    /\ ssh' = "none"

Staging == ClearStaging \/ FillStaging \/ AdaptStaging \/ MarkStaging

BootStep ==
    \/ Resume \/ NothingToDo \/ Prepare \/ DropOlder \/ SetAside \/ Begin
    \/ Move \/ MovesEnd \/ Save \/ Catch
    \/ Note \/ CleanStaged \/ CleanMarker \/ CleanProgress

Troubled ==
    \/ StagingFails \/ PrepareFails \/ SaveFails \/ MoveFails \/ CatchFails
    \/ EndFails \/ RemovalStops \/ Crash \/ SshFails \/ SshCut

SshStep == SshWipe \/ SshExtract \/ SshPrune \/ SshMark \/ SshClean \/ SshStart

Next == Staging \/ SshCheck \/ SshGivesUp \/ SshStop \/ SshStep \/ Stop \/ BootStep \/ Troubled

Spec == Init /\ [][Next]_vars

\* Docker (restart: unless-stopped), or a person when the script left the panel stopped,
\* starts the container again; the start of the panel goes on while nothing fails, and so
\* does the script once it has stopped the panel.  Before that it may wait for a
\* password for ever.
FairSpec == Spec /\ WF_vars(BootStep) /\ WF_vars(SshStep)

---------------------------------------------------------------------------
(* Properties.  They are promised while the write of "concluindo" does not    *)
(* fail, no part of a version stays in the staging folder beside a marker     *)
(* and the script does not stop the panel inside a swap: with "conclude",     *)
(* "unguarded" or "overtaken" among the Faults the code breaks its promise.   *)

TypeOK ==
    /\ data \in Folder /\ staged \in Folder /\ safety \in Folder /\ previous \in Folder
    /\ hasStaged \in BOOLEAN
    /\ marker \in Version \union {None, Bad}
    /\ progress \in [phase : Phases \union {"nenhuma"}, for : Content]
    /\ step \in Steps /\ phase \in InMemory /\ asked \in Content
    /\ job \in {"idle", "fill", "adapt", "mark"} /\ ssh \in Held \union {"none", "checked"}
    /\ issued \in Version
    /\ log \subseteq [restore : Content, status : {"success", "failed"}, in : Content, from : Content]
    /\ before \in Version /\ incoming \in Content
    /\ troubles \in 0..MaxTroubles

\* The panel never comes up with part of the data of one version and part of
\* another ("O painel não vai subir com metade dos dados trocada"): restorePanelAtBoot
\* lets the services read only a whole version, whatever rename or write other than
\* that of "concluindo" failed, wherever a start was killed and whoever, the panel or
\* restaurar-painel.sh, was filling the staging folder and stopped or failed in it.
NeverHalf == step = "up" => \E v \in Version : data = Data(v)

\* Until the panel comes up again, every item of the version before is in place or
\* in the safety copy: no sequence of renames, errors, crashes and resumed phases
\* loses one or overwrites it.
NothingLost ==
    \A n \in Has[before] : data[n] = before \/ safety[n] = before

\* The state before the last restore applied stays whole in one of the two copies
\* until another restore is applied: preparing a second restore, its failure, its
\* undoing and a crash in each of them never discard it.
CopyKept ==
    \A r \in log : r.status = "success" /\ r.in = before =>
        safety = Items(r.from) \/ previous = Items(r.from)

\* The history of the panel that came up tells what happened to its data: a record
\* of success stands in data that changed and a record of failure in data that did
\* not, and the restore that brought the present data is recorded exactly once.
HistoryTrue ==
    /\ \A r \in log : r.status = "success" <=> r.in # r.from
    /\ step = "up" /\ before # 0 =>
           \E r \in log : r.in = before /\ r.status = "success"
    /\ \A q, r \in log : q.in = r.in /\ q.status = "success" /\ r.status = "success" => q = r

\* The panel sees what PanelSwitch promises: each time it comes up it has the version
\* of the last time or the one offered since, also when the script refills the staging
\* folder after a request of the panel, or the panel swaps between the script's look
\* at the progress file and its `docker stop`.
Pending == progress = NoProgress /\ Asked /\ step # "clean marker"
Offered ==
    IF progress.phase \in Phases THEN incoming
    ELSE IF Pending THEN staged[History] ELSE None
Switch == INSTANCE PanelSwitch WITH
    Nothing <- None,
    shown <- IF step = "up" THEN data[History] ELSE None,
    last <- before,
    offered <- Offered
SwitchesWhole == Switch!Spec

\* A panel whose disk stops failing comes up again: no phase of an interrupted swap and
\* no staging folder, however it was left, make every later start fail.
ComesUp == []<>(step = "up")
=============================================================================
