-------------------------- MODULE PanelRestoreProofs --------------------------
(***************************************************************************)
(* What PanelRestore promises for every set of names, every number of      *)
(* restores and every number of failures and crashes, as long as the write *)
(* of "concluindo" does not fail, no half-filled staging folder is left    *)
(* beside a marker, and restaurar-painel.sh does not stop the panel inside *)
(* a swap (Tolerable).                                                     *)
(*                                                                         *)
(* The argument: the phase in the progress file, which only a rename of a  *)
(* whole file changes, says between which two folders each item is         *)
(* (Places), so that whoever resumes, however the last start ended, finds  *)
(* items only where the phase looks for them.                              *)
(***************************************************************************)
EXTENDS PanelRestore, TLAPS

Tolerable == Faults \intersect {"conclude", "unguarded", "overtaken"} = {}

Movable == Name \ Preserved

\* The item of version v with that name is in one of the two folders and in no other.
Between(n, v, one, other) ==
    \/ one[n] = Items(v)[n] /\ other[n] = None
    \/ one[n] = None /\ other[n] = Items(v)[n]

Holds(folder, v) == \A n \in Movable : folder[n] = Items(v)[n]
StagedIs(v) == \A n \in Movable \ Extra : staged[n] = Items(v)[n]

\* Where the items are while the progress file has each phase.
PreservedStay == \A n \in Preserved : data[n] = 0 /\ safety[n] = None
Saving == (\A n \in Movable : Between(n, before, data, safety)) /\ StagedIs(incoming) /\ hasStaged
Applying ==
    /\ Holds(safety, before)
    /\ \A n \in Movable \ Extra : Between(n, incoming, staged, data)
    /\ \A n \in Extra : data[n] = None
Concluded == Holds(safety, before) /\ Holds(data, incoming)
Returning == \A n \in Movable : Between(n, before, safety, data)
AtRest == data = Data(before)

Places ==
    /\ PreservedStay
    /\ progress = NoProgress => AtRest
    /\ progress.phase = "salvando" => Saving
    /\ progress.phase \in {"aplicando", "desfazendo-retirando"} => Applying
    /\ progress.phase = "concluindo" => Concluded
    /\ progress.phase = "desfazendo-devolvendo" => Returning

\* The staging folder is one somebody finished, or is about to ask for.
Trusted ==
    \/ Asked /\ ssh \notin {"wiped", "failed"}
    \/ job \in {"adapt", "mark"}
    \/ ssh \in {"filled", "pruned"}

\* The versions asked for later are the greater ones, and only somebody who found
\* no swap half done is filling the staging folder.
Order ==
    /\ before <= issued
    /\ job # "idle" => progress = NoProgress /\ step = "up"
    /\ ssh \in Held => progress = NoProgress /\ step = "off" /\ job = "idle"
    /\ job = "fill" \/ ssh \in Held => before < issued
    /\ progress = NoProgress =>
         /\ staged[History] # None => before < staged[History] /\ staged[History] <= issued
         /\ Trusted => Whole(staged)
    /\ progress # NoProgress => incoming \in Version /\ before < incoming /\ incoming <= issued

\* Where the process is, by the phase in the file and the one in memory.
Ending == {"note", "clean staged", "clean marker", "clean progress"}
Control ==
    /\ progress = NoProgress =>
         /\ step \notin {"move", "save", "catch"}
         /\ step \in {"older", "aside", "begin"} => phase = "preparar" /\ Asked
         /\ step = "begin" => safety = Empty
         /\ step = "aside" => previous = Empty
         /\ step \in Ending => phase = "cancelar"
    /\ progress # NoProgress =>
         /\ progress.phase \in Phases
         /\ step \in {"off", "move", "save", "catch"} \union Ending
         /\ step # "off" => asked = progress.for
         /\ step \in {"move", "save"} \union Ending => phase = progress.phase
         /\ step = "move" => phase # "concluindo"
         /\ step = "save" => phase \in Swapping \union {"desfazendo-retirando"} /\ ToMove(phase) = {}
         /\ step = "catch" =>
              /\ phase \in Swapping /\ progress.phase \in Swapping
              /\ phase # progress.phase => progress.phase = "salvando" /\ ToMove("salvando") = {}
         /\ step \in Ending => phase \in {"concluindo", "desfazendo-devolvendo"} /\ ToMove(phase) = {}
    /\ step \in {"clean marker", "clean progress"} \/ (step = "note" /\ progress = NoProgress)
         => ~hasStaged /\ staged[History] = None

IInv == TypeOK /\ Places /\ Order /\ Control

---------------------------------------------------------------------------
(* Types *)

LEMMA FoldersType ==
    /\ Empty \in Folder
    /\ \A v \in Version : Data(v) \in Folder /\ Items(v) \in Folder /\ Archive(v) \in Folder
    /\ \A folder \in Folder : WithoutPreserved(folder) \in Folder
    /\ 0 \in Version /\ Version \subseteq Nat /\ None \notin Version /\ Bad \notin Version
BY ConstantsAssumption DEF Empty, Data, Items, Archive, WithoutPreserved, Folder, Content, Version, None, Bad

LEMMA HistoryType == History \in Name /\ \A folder \in Folder : folder[History] \in Content
<1>1. History \in Has[0] /\ Has[0] \subseteq Name
  BY ConstantsAssumption, FoldersType
<1>2. QED
  BY <1>1 DEF Folder

\* The tables of phases, one equation per phase.
LEMMA PhaseTables ==
    /\ NextPhase("salvando") = "aplicando" /\ NextPhase("aplicando") = "concluindo"
    /\ NextPhase("desfazendo-retirando") = "desfazendo-devolvendo"
    /\ \A ph : NextPhase(ph) \in {"aplicando", "concluindo", "desfazendo-devolvendo"}
    /\ FirstStep("concluindo") = "note"
    /\ \A ph : ph # "concluindo" => FirstStep(ph) = "move"
    /\ UndoPhase("aplicando") = "desfazendo-retirando"
    /\ \A ph : ph # "aplicando" => UndoPhase(ph) = "desfazendo-devolvendo"
BY DEF NextPhase, FirstStep, UndoPhase

LEMMA ToMoveIs ==
    /\ ToMove("salvando") = {n \in Name \ Preserved : data[n] # None}
    /\ ToMove("desfazendo-retirando") = {n \in Name \ Preserved : data[n] # None}
    /\ ToMove("aplicando") = {n \in Name \ (Preserved \union Extra) : staged[n] # None}
    /\ ToMove("desfazendo-devolvendo") = {n \in Name : safety[n] # None}
    /\ ToMove("concluindo") = {}
BY DEF ToMove

\* What a removal or an extraction that stops in the middle leaves.
LEMMA PartsAre ==
    ASSUME NEW folder \in Folder, NEW part \in Parts(folder)
    PROVE  part \in Folder /\ \A n \in Name : part[n] \in {None, folder[n]}
BY DEF Parts, Folder, Content

LEMMA HalfDoneType ==
    ASSUME TypeOK, HalfDone
    PROVE  staged' \in Folder /\ hasStaged' \in BOOLEAN /\ marker' \in Version \union {None, Bad}
<1>1. staged' \in Folder
  <2>1. CASE ssh \in {"stopped", "failed"}
    BY <2>1, PartsAre DEF HalfDone, TypeOK
  <2>2. CASE ssh = "wiped"
    BY <2>2, PartsAre, FoldersType DEF HalfDone, TypeOK
  <2>3. CASE ssh \notin {"stopped", "failed", "wiped"}
    BY <2>3 DEF HalfDone, TypeOK
  <2>4. QED
    BY <2>1, <2>2, <2>3
<1>2. QED
  BY <1>1 DEF HalfDone, TypeOK

\* Every variable keeps its type, whatever fails: only coming up, which makes the
\* version of the history the one the panel runs with, needs more than the types.
LEMMA TypeStep ==
    ASSUME TypeOK, [Next]_vars, step' = "up" /\ step # "up" => data[History] \in Version
    PROVE  TypeOK'
<1> USE FoldersType, HistoryType, PhaseTables
<1>0. ASSUME NEW kind, Trouble(kind) PROVE troubles' \in 0..MaxTroubles
  BY <1>0, ConstantsAssumption DEF TypeOK, Trouble
<1>1. CASE ClearStaging
  <2>1. issued + 1 \in Version
    BY <1>1, ConstantsAssumption DEF TypeOK, ClearStaging, Version
  <2>2. QED
    BY <1>1, <2>1 DEF TypeOK, ClearStaging, ghosts
<1>2. CASE FillStaging
  BY <1>2 DEF TypeOK, FillStaging, ghosts
<1>3. CASE AdaptStaging
  BY <1>3 DEF TypeOK, AdaptStaging, ghosts
<1>4. CASE MarkStaging
  BY <1>4 DEF TypeOK, MarkStaging, ghosts
<1>5. CASE StagingFails
  BY <1>0, <1>5 DEF TypeOK, StagingFails, files, ghosts
<1>6. CASE SshCheck \/ SshGivesUp \/ SshStart
  BY <1>6 DEF TypeOK, SshCheck, SshGivesUp, SshStart, files, ghosts, Held
<1>31. CASE SshStop
  <2>1. issued + 1 \in Version
    BY <1>31, ConstantsAssumption DEF TypeOK, SshStop, Version
  <2>2. troubles' \in 0..MaxTroubles
    BY <1>0, <1>31 DEF TypeOK, SshStop
  <2>3. QED
    BY <1>31, <2>1, <2>2 DEF TypeOK, SshStop, Forgets, files, ghosts, Steps, InMemory, Content, Held
<1>32. CASE SshWipe \/ SshExtract \/ SshPrune \/ SshMark \/ SshClean
  <2>1. /\ staged' \in Folder /\ hasStaged' \in BOOLEAN /\ marker' \in Version \union {None, Bad}
        /\ ssh' \in Held
    BY <1>32 DEF TypeOK, SshWipe, SshExtract, SshPrune, SshMark, SshClean, Held
  <2>2. UNCHANGED <<data, safety, previous, progress, log, step, phase, asked, job, issued, before, incoming, troubles>>
    BY <1>32 DEF SshWipe, SshExtract, SshPrune, SshMark, SshClean, inPlace, ghosts
  <2>3. QED
    BY <2>1, <2>2 DEF TypeOK
<1>33. CASE SshFails \/ SshCut
  <2>1. /\ staged' \in Folder /\ hasStaged' \in BOOLEAN /\ marker' \in Version \union {None, Bad}
    BY <1>33, HalfDoneType DEF SshFails, SshCut
  <2>2. ssh' \in Held \union {"none", "checked"} /\ troubles' \in 0..MaxTroubles
    BY <1>0, <1>33 DEF SshFails, SshCut, Held
  <2>3. UNCHANGED <<data, safety, previous, progress, log, step, phase, asked, job, issued, before, incoming>>
    BY <1>33 DEF SshFails, SshCut, inPlace, ghosts
  <2>4. QED
    BY <2>1, <2>2, <2>3 DEF TypeOK
<1>7. CASE Stop
  BY <1>7 DEF TypeOK, Stop, Forgets, files, ghosts, Steps, InMemory, Content
<1>8. CASE Crash
  <2>1. troubles' \in 0..MaxTroubles
    BY <1>8, ConstantsAssumption DEF TypeOK, Crash
  <2>2. QED
    BY <1>8, <2>1 DEF TypeOK, Crash, Forgets, files, ghosts, Steps, InMemory, Content
<1>9. CASE Resume
  BY <1>9 DEF TypeOK, Resume, ghosts, Steps, InMemory, Content, NoProgress
<1>10. CASE NothingToDo
  BY <1>10 DEF TypeOK, NothingToDo, Startable, Up, Steps, InMemory, Content
<1>11. CASE Prepare
  BY <1>11 DEF TypeOK, Prepare, Asked, files, ghosts, Steps, InMemory, Content
<1>12. CASE DropOlder
  BY <1>12 DEF TypeOK, DropOlder, ghosts, Steps
<1>13. CASE SetAside
  BY <1>13 DEF TypeOK, SetAside, ghosts, Steps
<1>14. CASE Begin
  BY <1>14 DEF TypeOK, Begin, Steps, InMemory, Phases, Swapping
<1>15. CASE PrepareFails
  BY <1>0, <1>15 DEF TypeOK, PrepareFails, files, ghosts, Steps, InMemory
<1>16. CASE Move
  <2>1. data' \in Folder /\ staged' \in Folder /\ safety' \in Folder
    BY <1>16 DEF TypeOK, Move, MoveToSafety, MoveToData, Withdraw, GiveBack, Leaves, Enters, Folder, Content
  <2>2. QED
    BY <1>16, <2>1 DEF TypeOK, Move, ghosts
<1>17. CASE MovesEnd
  BY <1>17 DEF TypeOK, MovesEnd, files, ghosts, Steps
<1>18. CASE MoveFails
  BY <1>0, <1>18 DEF TypeOK, MoveFails, Forgets, files, ghosts, Steps, InMemory, Content
<1>19. CASE Save
  BY <1>19 DEF TypeOK, Save, ghosts, Steps, InMemory, Phases, Swapping
<1>20. CASE SaveFails
  <2>1. troubles' \in 0..MaxTroubles
    BY <1>0, <1>20 DEF SaveFails
  <2>2. CASE phase \in Swapping
    <3>1. phase' \in InMemory
      BY <1>20, <2>2 DEF SaveFails, InMemory, Phases, Swapping
    <3>2. QED
      BY <1>20, <2>1, <2>2, <3>1 DEF TypeOK, SaveFails, files, ghosts, Steps
  <2>3. CASE phase \notin Swapping
    BY <1>20, <2>1, <2>3 DEF TypeOK, SaveFails, Forgets, files, ghosts, Steps, InMemory, Content
  <2>4. QED
    BY <2>2, <2>3
<1>21. CASE Catch
  BY <1>21 DEF TypeOK, Catch, ghosts, Steps, InMemory, Phases, Swapping
<1>22. CASE CatchFails
  BY <1>0, <1>22 DEF TypeOK, CatchFails, Forgets, files, ghosts, Steps, InMemory, Content
<1>23. CASE Note
  <2>1. log' \subseteq [restore : Content, status : {"success", "failed"}, in : Content, from : Content]
    <3>1. Status \in {"success", "failed"}
      BY DEF Status
    <3>2. data[History] \in Content /\ before \in Content /\ asked \in Content
      BY DEF TypeOK, Content
    <3>3. [restore |-> asked, status |-> Status, in |-> data[History], from |-> before]
            \in [restore : Content, status : {"success", "failed"}, in : Content, from : Content]
      BY <3>1, <3>2
    <3>4. QED
      BY <1>23, <3>3 DEF TypeOK, Note
  <2>2. CASE phase = "cancelar"
    BY <1>23, <2>1, <2>2 DEF TypeOK, Note, Up, Steps, InMemory, Content
  <2>3. CASE phase # "cancelar"
    BY <1>23, <2>1, <2>3 DEF TypeOK, Note, Steps
  <2>4. QED
    BY <2>2, <2>3
<1>24. CASE CleanStaged
  BY <1>24 DEF TypeOK, CleanStaged, ghosts, Steps
<1>25. CASE CleanMarker
  BY <1>25 DEF TypeOK, CleanMarker, ghosts, Steps
<1>26. CASE CleanProgress
  <2>1. CASE phase = "cancelar"
    BY <1>26, <2>1 DEF TypeOK, CleanProgress, NoProgress, Content, Steps
  <2>2. CASE phase # "cancelar"
    BY <1>26, <2>2 DEF TypeOK, CleanProgress, NoProgress, Up, Content, Steps, InMemory
  <2>3. QED
    BY <2>1, <2>2
<1>27. CASE EndFails
  BY <1>0, <1>27 DEF TypeOK, EndFails, Forgets, files, ghosts, Steps, InMemory, Content
<1>28. CASE RemovalStops
  <2>1. staged' \in Folder
    BY <1>28, PartsAre DEF TypeOK, RemovalStops
  <2>2. QED
    BY <1>0, <1>28, <2>1 DEF TypeOK, RemovalStops, Forgets, ghosts, Steps, InMemory, Content
<1>29. CASE UNCHANGED vars
  BY <1>29 DEF TypeOK, vars, files, ghosts
<1>30. QED
  BY <1>1, <1>2, <1>3, <1>4, <1>5, <1>6, <1>7, <1>8, <1>9, <1>10, <1>11, <1>12, <1>13, <1>14, <1>15,
     <1>16, <1>17, <1>18, <1>19, <1>20, <1>21, <1>22, <1>23, <1>24, <1>25, <1>26, <1>27, <1>28, <1>29,
     <1>31, <1>32, <1>33
  DEF Next, Staging, SshStep, BootStep, Troubled

---------------------------------------------------------------------------
(* Where the items are *)

\* What a version is, name by name.
LEMMA ItemsIs ==
    ASSUME NEW v \in Version
    PROVE  /\ History \in Movable \ Extra /\ Items(v)[History] = v
           /\ \A n \in Has[v] : n \in Movable /\ Items(v)[n] = v
           /\ \A n \in Extra : n \in Movable /\ Items(v)[n] = None
           /\ \A n \in Movable : n \in Name /\ Data(v)[n] = Items(v)[n]
           /\ \A n \in Preserved : n \in Name /\ n \notin Movable /\ Data(v)[n] = 0
           /\ \A n \in Name : n \in Movable \/ n \in Preserved
<1>1. Has[v] \subseteq Name \ (Preserved \union Extra) /\ History \in Has[v]
  BY ConstantsAssumption
<1>2. Extra \subseteq Name \ Preserved /\ Preserved \subseteq Name
  BY ConstantsAssumption
<1>3. QED
  BY <1>1, <1>2 DEF Movable, Items, Data

\* A folder of items of one version and of what is preserved is that version's data.
LEMMA WholeData ==
    ASSUME NEW v \in Version, NEW folder \in Folder,
           Holds(folder, v), \A n \in Preserved : folder[n] = 0
    PROVE  folder = Data(v)
<1>1. \A n \in Name : folder[n] = Data(v)[n]
  BY ItemsIs DEF Holds
<1>2. QED
  BY <1>1 DEF Folder, Data

LEMMA DataVersion == \A v \in Version : Data(v)[History] = v
BY ItemsIs

\* A staging folder holds the items of one version at most.
LEMMA StagedVersion == \A v \in Version : StagedIs(v) => staged[History] = v
BY ItemsIs DEF StagedIs

LEMMA ArchiveIs ==
    ASSUME NEW v \in Version, NEW n \in Movable \ Extra
    PROVE  Archive(v)[n] = Items(v)[n] /\ WithoutPreserved(staged)[n] = staged[n]
BY DEF Archive, Items, WithoutPreserved, Movable

LEMMA WholeIs == Whole(staged) <=> \E v \in Version : StagedIs(v)
<1>1. Name \ (Preserved \union Extra) = Movable \ Extra
  BY DEF Movable
<1>2. QED
  BY <1>1 DEF Whole, StagedIs

\* The places do not depend on where the process is.
LEMMA PlacesKept ==
    ASSUME Places, UNCHANGED <<data, staged, hasStaged, safety, progress, before, incoming>>
    PROVE  Places'
BY DEF Places, PreservedStay, AtRest, Saving, StagedIs, Applying, Concluded, Returning, Holds, Between

\* One rename takes an item from one of its two places to the other.
LEMMA Renamed ==
    ASSUME NEW v \in Version, NEW n \in Name, NEW m \in Name,
           NEW one \in Folder, NEW other \in Folder,
           Between(m, v, one, other), n = m => one[n] # None
    PROVE  Between(m, v, Leaves(n, one), Enters(n, other, one[n]))
BY DEF Between, Leaves, Enters, Folder

LEMMA MovePlaces ==
    ASSUME IInv, Move
    PROVE  Places'
<1> USE DEF IInv
<1>1. phase = progress.phase /\ progress # NoProgress /\ before \in Version /\ incoming \in Version
  BY DEF Move, Control, Order, TypeOK
<1>2. UNCHANGED <<hasStaged, progress, before, incoming>>
  BY DEF Move, ghosts
<1>3. PICK n \in Name : MoveToSafety(n) \/ MoveToData(n) \/ Withdraw(n) \/ GiveBack(n)
  BY DEF Move
<1>4. data \in Folder /\ staged \in Folder /\ safety \in Folder
  BY DEF TypeOK
<1>5. n \in Movable
  <2>1. CASE n \in Preserved
    BY <1>3, <2>1, <1>1, ToMoveIs DEF MoveToSafety, MoveToData, Withdraw, GiveBack, Places, PreservedStay
  <2>2. QED
    BY <2>1 DEF Movable
<1>6. PreservedStay'
  <2>1. \A m \in Preserved : m \in Name /\ m # n
    BY <1>5, ConstantsAssumption DEF Movable
  <2>2. \A m \in Preserved : data'[m] = data[m] /\ safety'[m] = safety[m]
    BY <1>3, <1>4, <2>1 DEF MoveToSafety, MoveToData, Withdraw, GiveBack, Leaves, Enters, Folder
  <2>3. QED
    BY <2>2 DEF Places, PreservedStay
<1>7. CASE MoveToSafety(n)
  <2>1. progress.phase = "salvando" /\ data[n] # None /\ Saving
    BY <1>1, <1>7, ToMoveIs DEF MoveToSafety, Places
  <2>2. \A m \in Movable : Between(m, before, data', safety')
    BY <1>1, <1>4, <1>7, <2>1, Renamed DEF MoveToSafety, Saving, Movable
  <2>3. Saving'
    BY <1>2, <1>7, <2>1, <2>2 DEF MoveToSafety, Saving, StagedIs, Between
  <2>4. QED
    BY <1>2, <1>6, <2>1, <2>3 DEF Places, NoProgress
<1>8. CASE MoveToData(n)
  <2>1. progress.phase = "aplicando" /\ n \in Movable \ Extra /\ staged[n] # None /\ Applying
    BY <1>1, <1>5, <1>8, ToMoveIs DEF MoveToData, Places
  <2>2. \A m \in Movable \ Extra : Between(m, incoming, staged', data')
    BY <1>1, <1>4, <1>8, <2>1, Renamed DEF MoveToData, Applying, Movable
  <2>3. \A m \in Extra : data'[m] = None
    BY <1>4, <1>8, <2>1, ItemsIs, <1>1 DEF MoveToData, Applying, Enters, Folder, Movable
  <2>4. Applying'
    BY <1>2, <1>8, <2>1, <2>2, <2>3 DEF MoveToData, Applying, Holds, Between
  <2>5. QED
    BY <1>2, <1>6, <2>1, <2>4 DEF Places, NoProgress
<1>9. CASE Withdraw(n)
  <2>1. progress.phase = "desfazendo-retirando" /\ data[n] # None /\ Applying
    BY <1>1, <1>9, ToMoveIs DEF Withdraw, Places
  <2>2. n \notin Extra
    BY <2>1 DEF Applying
  <2>3. \A m \in Movable \ Extra : Between(m, incoming, data, staged)
    BY <2>1 DEF Applying, Between
  <2>4. \A m \in Movable \ Extra : Between(m, incoming, data', staged')
    BY <1>1, <1>4, <1>9, <2>1, <2>3, Renamed DEF Withdraw, Movable
  <2>5. \A m \in Movable \ Extra : Between(m, incoming', staged', data')
    BY <1>2, <2>4 DEF Between
  <2>6. \A m \in Extra : data'[m] = None
    BY <1>4, <1>9, <2>1, <2>2, ItemsIs, <1>1 DEF Withdraw, Applying, Leaves, Folder, Movable
  <2>7. Applying'
    BY <1>2, <1>9, <2>1, <2>5, <2>6 DEF Withdraw, Applying, Holds, Between
  <2>8. QED
    BY <1>2, <1>6, <2>1, <2>7 DEF Places, NoProgress
<1>10. CASE GiveBack(n)
  <2>1. progress.phase = "desfazendo-devolvendo" /\ safety[n] # None /\ Returning
    BY <1>1, <1>10, ToMoveIs DEF GiveBack, Places
  <2>2. \A m \in Movable : Between(m, before, safety', data')
    BY <1>1, <1>4, <1>10, <2>1, Renamed DEF GiveBack, Returning, Movable
  <2>3. Returning'
    BY <1>2, <2>2 DEF Returning, Between
  <2>4. QED
    BY <1>2, <1>6, <2>1, <2>3 DEF Places, NoProgress
<1>11. QED
  BY <1>3, <1>7, <1>8, <1>9, <1>10

\* With every move of a phase done, the places are those of the next phase.
LEMMA PhaseDone ==
    ASSUME IInv
    PROVE  /\ progress.phase = "salvando" /\ ToMove("salvando") = {} => Applying /\ Returning
           /\ progress.phase = "salvando" => Returning
           /\ progress.phase = "aplicando" /\ ToMove("aplicando") = {} => Concluded
           /\ progress.phase = "desfazendo-retirando" /\ ToMove("desfazendo-retirando") = {} => Returning
<1> USE DEF IInv
<1>1. progress.phase = "salvando" => Saving /\ before \in Version /\ incoming \in Version
  BY DEF Places, Order, NoProgress, TypeOK
<1>2. progress.phase \in {"aplicando", "desfazendo-retirando"} => Applying /\ before \in Version /\ incoming \in Version
  BY DEF Places, Order, NoProgress, TypeOK
<1>3. progress.phase = "salvando" => Returning
  BY <1>1 DEF Saving, Returning, Between
<1>4. ASSUME progress.phase = "salvando", ToMove("salvando") = {} PROVE Applying
  <2>1. \A n \in Movable : data[n] = None
    BY <1>4, ToMoveIs DEF Movable
  <2>2. Holds(safety, before)
    BY <1>1, <1>4, <2>1 DEF Saving, Holds, Between
  <2>3. \A n \in Movable \ Extra : Between(n, incoming, staged, data)
    BY <1>1, <1>4, <2>1 DEF Saving, StagedIs, Between
  <2>4. QED
    BY <1>1, <1>4, <2>1, <2>2, <2>3, ItemsIs DEF Applying
<1>5. ASSUME progress.phase = "aplicando", ToMove("aplicando") = {} PROVE Concluded
  <2>1. \A n \in Movable \ Extra : staged[n] = None
    BY <1>5, ToMoveIs DEF Movable
  <2>2. \A n \in Movable \ Extra : data[n] = Items(incoming)[n]
    BY <1>2, <1>5, <2>1 DEF Applying, Between
  <2>3. \A n \in Extra : data[n] = Items(incoming)[n]
    BY <1>2, <1>5, ItemsIs DEF Applying
  <2>4. QED
    BY <1>2, <1>5, <2>2, <2>3 DEF Applying, Concluded, Holds
<1>6. ASSUME progress.phase = "desfazendo-retirando", ToMove("desfazendo-retirando") = {} PROVE Returning
  <2>1. \A n \in Movable : data[n] = None
    BY <1>6, ToMoveIs DEF Movable
  <2>2. QED
    BY <1>2, <1>6, <2>1 DEF Applying, Holds, Returning, Between
<1>7. QED
  BY <1>3, <1>4, <1>5, <1>6

\* The actions of the start that save a phase, and the last one of a restore.
LEMMA BootPlaces ==
    ASSUME IInv, Tolerable
    PROVE  /\ Begin => Places'
           /\ Save => Places'
           /\ Catch => Places'
           /\ CleanProgress => Places'
<1> USE DEF IInv
<1>1. ASSUME Begin PROVE Places'
  <2>1. progress = NoProgress /\ hasStaged /\ safety = Empty /\ before \in Version
    <3>1. step = "begin" /\ before \in Version
      BY <1>1 DEF Begin, TypeOK
    <3>2. progress = NoProgress
      BY <3>1 DEF Control, Ending
    <3>3. QED
      BY <3>1, <3>2 DEF Control, Asked
  <2>2. data = Data(before)
    BY <2>1 DEF Places, AtRest
  <2>3. PICK v \in Version : StagedIs(v)
    <3>1. Asked /\ ssh \notin Held
      BY <1>1, <2>1 DEF Begin, Control, Order
    <3>2. QED
      BY <2>1, <3>1, WholeIs DEF Order, Trusted, Held
  <2>4. incoming' = v
    BY <1>1, <2>3, StagedVersion DEF Begin
  <2>5. \A n \in Movable : Between(n, before, data, safety)
    BY <2>1, <2>2, ItemsIs DEF Between, Empty
  <2>6. \A n \in Preserved : data[n] = 0 /\ safety[n] = None
    BY <2>1, <2>2, ItemsIs DEF Empty
  <2>7. Saving'
    BY <1>1, <2>1, <2>3, <2>4, <2>5 DEF Begin, Saving, StagedIs, Between
  <2>8. progress'.phase = "salvando" /\ progress' # NoProgress
    BY <1>1 DEF Begin, NoProgress
  <2>9. PreservedStay'
    BY <1>1, <2>6 DEF Begin, PreservedStay
  <2>10. QED
    BY <2>7, <2>8, <2>9 DEF Places
<1>2. ASSUME Save PROVE Places'
  <2>1. phase = progress.phase /\ ToMove(phase) = {} /\ progress # NoProgress
        /\ phase \in {"salvando", "aplicando", "desfazendo-retirando"}
    BY <1>2 DEF Save, Control, Swapping, NoProgress
  <2>2. progress' # NoProgress /\ progress'.phase = NextPhase(phase)
    BY <1>2, PhaseTables DEF Save, TypeOK, NoProgress
  <2>3. PreservedStay'
    BY <1>2 DEF Save, Places, PreservedStay
  <2>4. UNCHANGED <<data, staged, safety, before, incoming>>
    BY <1>2 DEF Save, ghosts
  <2>5. CASE phase = "salvando"
    <3>1. Applying'
      BY <2>1, <2>4, <2>5, PhaseDone DEF Applying, Holds, Between
    <3>2. QED
      BY <2>2, <2>3, <2>5, <3>1, PhaseTables DEF Places
  <2>6. CASE phase = "aplicando"
    <3>1. Concluded'
      BY <2>1, <2>4, <2>6, PhaseDone DEF Concluded, Holds
    <3>2. QED
      BY <2>2, <2>3, <2>6, <3>1, PhaseTables DEF Places
  <2>7. CASE phase = "desfazendo-retirando"
    <3>1. Returning'
      BY <2>1, <2>4, <2>7, PhaseDone DEF Returning, Between
    <3>2. QED
      BY <2>2, <2>3, <2>7, <3>1, PhaseTables DEF Places
  <2>8. QED
    BY <2>1, <2>5, <2>6, <2>7
<1>3. ASSUME Catch PROVE Places'
  <2>1. /\ progress # NoProgress /\ phase \in Swapping /\ progress.phase \in Swapping
        /\ phase # progress.phase => progress.phase = "salvando" /\ ToMove("salvando") = {}
    BY <1>3 DEF Catch, Control
  <2>2. progress' # NoProgress /\ progress'.phase = UndoPhase(phase)
    BY <1>3, PhaseTables DEF Catch, TypeOK, NoProgress
  <2>3. PreservedStay'
    BY <1>3 DEF Catch, Places, PreservedStay
  <2>4. UNCHANGED <<data, staged, safety, before, incoming>>
    BY <1>3 DEF Catch, ghosts
  <2>5. CASE phase = "aplicando"
    <3>1. Applying
      BY <2>1, <2>5, PhaseDone DEF Places, Swapping
    <3>2. Applying'
      BY <2>4, <3>1 DEF Applying, Holds, Between
    <3>3. QED
      BY <2>2, <2>3, <2>5, <3>2, PhaseTables DEF Places
  <2>6. CASE phase = "salvando"
    <3>1. Returning'
      BY <2>1, <2>4, <2>6, PhaseDone DEF Returning, Between, Swapping
    <3>2. QED
      BY <2>2, <2>3, <2>6, <3>1, PhaseTables DEF Places
  <2>7. QED
    BY <2>1, <2>5, <2>6 DEF Swapping
<1>4. ASSUME CleanProgress PROVE Places'
  <2>1. PreservedStay'
    BY <1>4 DEF CleanProgress, Places, PreservedStay
  <2>2. data \in Folder /\ before \in Version /\ before' \in {before, data[History]}
    BY <1>4 DEF CleanProgress, Up, TypeOK
  <2>3. AtRest'
    <3>1. CASE progress = NoProgress
      BY <1>4, <2>2, <3>1, DataVersion DEF CleanProgress, Places, AtRest
    <3>2. CASE progress # NoProgress
      <4>1. phase = progress.phase /\ phase \in {"concluindo", "desfazendo-devolvendo"} /\ ToMove(phase) = {}
            /\ incoming \in Version
        BY <1>4, <3>2 DEF CleanProgress, Control, Ending, Order
      <4>2. before' = data[History] /\ UNCHANGED data
        BY <1>4, <4>1 DEF CleanProgress, Up
      <4>3. CASE phase = "concluindo"
        <5>1. data = Data(incoming)
          BY <2>2, <4>1, <4>3, WholeData DEF Places, Concluded, PreservedStay
        <5>2. QED
          BY <4>1, <4>2, <5>1, DataVersion DEF AtRest
      <4>4. CASE phase = "desfazendo-devolvendo"
        <5>1. \A n \in Movable : safety[n] = None
          BY <4>1, <4>4, ToMoveIs DEF Movable
        <5>2. Holds(data, before)
          BY <4>1, <4>4, <5>1 DEF Places, Returning, Between, Holds
        <5>3. data = Data(before)
          BY <2>2, <5>2, WholeData DEF Places, PreservedStay
        <5>4. QED
          BY <2>2, <4>2, <5>3, DataVersion DEF AtRest
      <4>5. QED
        BY <4>1, <4>3, <4>4
    <3>3. QED
      BY <3>1, <3>2
  <2>4. QED
    BY <1>4, <2>1, <2>3 DEF CleanProgress, Places, NoProgress
<1>5. QED
  BY <1>1, <1>2, <1>3, <1>4

\* The script at work on the staging folder, with the panel stopped.
Extracting ==
    \/ SshWipe \/ SshExtract \/ SshPrune \/ SshMark \/ SshClean
    \/ SshFails \/ SshCut

LEMMA ExtractingKeeps ==
    ASSUME IInv, Extracting
    PROVE  /\ UNCHANGED <<data, safety, previous, progress, log, step, phase, asked, job, issued, before, incoming>>
           /\ ssh \in Held /\ progress = NoProgress /\ step = "off" /\ job = "idle"
<1>1. UNCHANGED <<data, safety, previous, progress, log, step, phase, asked, job, issued, before, incoming>>
  BY DEF Extracting, SshWipe, SshExtract, SshPrune, SshMark, SshClean, SshFails, SshCut, inPlace, ghosts
<1>2. ssh \in Held
  BY DEF Extracting, SshWipe, SshExtract, SshPrune, SshMark, SshClean, SshFails, SshCut, Held
<1>3. QED
  BY <1>1, <1>2 DEF IInv, Order

\* The actions that leave every item and the phase in the file where they are.
Quiet ==
    \/ SshCheck \/ SshGivesUp \/ SshStop \/ SshStart
    \/ MarkStaging \/ StagingFails \/ Stop \/ Crash \/ Prepare \/ DropOlder
    \/ PrepareFails \/ MovesEnd \/ MoveFails \/ SaveFails \/ CatchFails \/ CleanMarker \/ EndFails
    \/ UNCHANGED vars

LEMMA PlacesStep ==
    ASSUME IInv, Tolerable, [Next]_vars
    PROVE  Places'
<1> USE DEF IInv
<1>1. CASE Quiet
  <2>1. UNCHANGED <<data, staged, hasStaged, safety, progress, before, incoming>>
    BY <1>1 DEF Quiet, MarkStaging, StagingFails, Stop, Crash, Prepare, DropOlder, PrepareFails,
                MovesEnd, MoveFails, SaveFails, CatchFails, CleanMarker, EndFails,
                SshCheck, SshGivesUp, SshStop, SshStart, vars, files, ghosts
  <2>2. QED
    BY <2>1, PlacesKept
<1>2. CASE ClearStaging \/ FillStaging \/ AdaptStaging \/ Extracting
  <2>1. UNCHANGED <<data, safety, progress, before, incoming>>
    BY <1>2, ExtractingKeeps DEF ClearStaging, FillStaging, AdaptStaging, ghosts
  <2>2. progress = NoProgress
    BY <1>2, ExtractingKeeps DEF ClearStaging, FillStaging, AdaptStaging, Order
  <2>3. QED
    BY <2>1, <2>2 DEF Places, PreservedStay, AtRest, NoProgress
<1>3. CASE Resume
  <2>1. UNCHANGED <<data, staged, safety, progress, before, incoming>> /\ (hasStaged => hasStaged')
    BY <1>3 DEF Resume, ghosts
  <2>2. QED
    BY <2>1 DEF Places, PreservedStay, AtRest, Saving, StagedIs, Applying, Concluded, Returning, Holds, Between
<1>4. CASE NothingToDo
  <2>1. UNCHANGED <<data, staged, hasStaged, safety, progress, incoming>> /\ before' = data[History]
    BY <1>4 DEF NothingToDo, Up
  <2>2. before' = before
    BY <1>4, <2>1, DataVersion DEF NothingToDo, Places, AtRest, TypeOK
  <2>3. QED
    BY <2>1, <2>2, PlacesKept
<1>5. CASE SetAside
  <2>1. progress = NoProgress
    BY <1>5 DEF SetAside, Control, Ending
  <2>2. UNCHANGED <<data, progress, before>> /\ safety' = Empty
    BY <1>5 DEF SetAside, ghosts
  <2>3. QED
    BY <2>1, <2>2, ConstantsAssumption DEF Places, PreservedStay, AtRest, NoProgress, Empty
<1>6. CASE Note
  <2>1. UNCHANGED <<data, staged, hasStaged, safety, progress, incoming>> /\ before' \in {before, data[History]}
        /\ (before' # before => phase = "cancelar")
    BY <1>6 DEF Note, Up
  <2>2. before' = before
    <3>1. phase = "cancelar" => progress = NoProgress
      BY <1>6 DEF Note, Control, Ending
    <3>2. QED
      BY <2>1, <3>1, DataVersion DEF Places, AtRest, TypeOK
  <2>3. QED
    BY <2>1, <2>2, PlacesKept
<1>7. CASE CleanStaged \/ RemovalStops
  <2>1. UNCHANGED <<data, safety, progress, before, incoming>>
    BY <1>7 DEF CleanStaged, RemovalStops, ghosts
  <2>2. progress = NoProgress \/ progress.phase \in {"concluindo", "desfazendo-devolvendo"}
    <3>1. CASE step = "clean staged"
      BY <3>1 DEF Control, Ending
    <3>2. CASE step # "clean staged"
      BY <1>7, <3>2 DEF CleanStaged, RemovalStops
    <3>3. QED
      BY <3>1, <3>2
  <2>3. QED
    BY <2>1, <2>2 DEF Places, PreservedStay, AtRest, Concluded, Returning, Holds, Between, NoProgress
<1>8. QED
  BY <1>1, <1>2, <1>3, <1>4, <1>5, <1>6, <1>7, MovePlaces, BootPlaces
  DEF Next, Staging, SshStep, Extracting, BootStep, Troubled, Quiet

---------------------------------------------------------------------------
(* Which version comes next, and where the process is *)

\* Filling the staging folder, by the panel or by the script.
LEMMA FilledIs ==
    ASSUME IInv, FillStaging \/ SshExtract
    PROVE  staged'[History] = issued /\ Whole(staged)'
<1>1. issued \in Version /\ staged' = Archive(issued)
  BY DEF IInv, TypeOK, FillStaging, SshExtract
<1>2. \A n \in Movable \ Extra : staged'[n] = Items(issued)[n]
  BY <1>1, ArchiveIs
<1>3. QED
  BY <1>1, <1>2, ItemsIs DEF Whole, Movable

\* What is moved is not touched when the preserved items leave the folder.
LEMMA AdaptedIs ==
    ASSUME IInv, AdaptStaging \/ SshPrune
    PROVE  staged'[History] = staged[History] /\ (Whole(staged) => Whole(staged)')
<1>1. staged' = WithoutPreserved(staged) /\ 0 \in Version
  BY FoldersType DEF AdaptStaging, SshPrune
<1>2. \A n \in Movable \ Extra : staged'[n] = staged[n]
  BY <1>1, ArchiveIs
<1>3. QED
  BY <1>1, <1>2, ItemsIs DEF Whole, Movable

\* The script changes the staging folder and the marker, and no start trusts what
\* it has not finished.
LEMMA ExtractingOrder ==
    ASSUME IInv, Tolerable, Extracting
    PROVE  Order'
<1> USE DEF IInv
<1>0. /\ UNCHANGED <<progress, step, job, issued, before, incoming>>
      /\ ssh \in Held /\ progress = NoProgress /\ step = "off" /\ job = "idle"
      /\ Version \subseteq Nat /\ issued \in Version /\ before \in Version /\ before < issued
      /\ staged \in Folder /\ History \in Name /\ Empty[History] = None
  BY ExtractingKeeps, FoldersType, HistoryType DEF TypeOK, Order, Empty
<1>1. staged'[History] # None => before < staged'[History] /\ staged'[History] <= issued
  <2>1. CASE SshExtract
    BY <1>0, <2>1, FilledIs
  <2>2. CASE SshPrune
    BY <1>0, <2>2, AdaptedIs DEF Order
  <2>3. CASE SshWipe \/ SshClean
    BY <1>0, <2>3 DEF SshWipe, SshClean
  <2>4. CASE SshMark
    BY <1>0, <2>4 DEF SshMark, Order
  <2>5. CASE SshFails \/ SshCut
    <3>1. CASE ssh = "wiped"
      <4>1. staged' \in Parts(Archive(issued)) /\ Archive(issued) \in Folder
        BY <1>0, <2>5, <3>1, FoldersType DEF SshFails, SshCut, HalfDone
      <4>2. staged'[History] \in {None, Archive(issued)[History]}
        BY <1>0, <4>1, PartsAre
      <4>3. Archive(issued)[History] = issued
        BY <1>0, ArchiveIs, ItemsIs
      <4>4. before < issued /\ issued <= issued
        BY <1>0
      <4>5. QED
        BY <4>2, <4>3, <4>4
    <3>2. CASE ssh # "wiped"
      <4>1. staged' \in Parts(staged) \/ staged' = staged
        BY <2>5, <3>2 DEF SshFails, SshCut, HalfDone
      <4>2. staged'[History] \in {None, staged[History]}
        BY <1>0, <4>1, PartsAre
      <4>3. QED
        BY <1>0, <4>2 DEF Order
    <3>3. QED
      BY <3>1, <3>2
  <2>6. QED
    BY <2>1, <2>2, <2>3, <2>4, <2>5 DEF Extracting
<1>2. Trusted' => Whole(staged)'
  <2>0. /\ job' = "idle" /\ (Trusted => Whole(staged))
        /\ (Trusted' => (Asked' /\ ssh' \notin {"wiped", "failed"}) \/ ssh' \in {"filled", "pruned"})
    BY <1>0 DEF Order, Trusted
  <2>1. CASE SshExtract
    BY <2>1, FilledIs
  <2>2. CASE SshPrune
    BY <2>0, <2>2, AdaptedIs DEF SshPrune, Trusted
  <2>3. CASE SshWipe \/ SshFails
    BY <2>0, <2>3 DEF SshWipe, SshFails
  <2>4. CASE SshMark
    BY <2>0, <2>4 DEF SshMark, Trusted, Whole
  <2>5. CASE SshClean
    BY <2>0, <2>5 DEF SshClean, Asked
  <2>6. CASE SshCut
    BY <2>0, <2>6 DEF SshCut, Trouble, Tolerable, Misleads, Asked
  <2>7. QED
    BY <2>1, <2>2, <2>3, <2>4, <2>5, <2>6 DEF Extracting
<1>3. ssh' \in Held => progress' = NoProgress /\ step' = "off" /\ job' = "idle"
  BY <1>0
<1>4. QED
  BY <1>0, <1>1, <1>2, <1>3 DEF Order

LEMMA OrderStep ==
    ASSUME IInv, Tolerable, [Next]_vars
    PROVE  Order'
<1> USE DEF IInv
<1>0. /\ Version \subseteq Nat /\ issued \in Version /\ before \in Version
      /\ staged \in Folder /\ History \in Name /\ Empty[History] = None
      /\ "up" # "off" /\ "idle" \notin {"fill", "adapt", "mark"}
  BY FoldersType, HistoryType DEF TypeOK, Empty
<1>1. CASE ClearStaging
  <2>1. progress = NoProgress /\ step = "up" /\ ssh \notin Held /\ UNCHANGED <<progress, step, ssh, before>>
        /\ staged' = Empty /\ ~hasStaged' /\ job' = "fill" /\ issued' = issued + 1
    BY <1>1 DEF ClearStaging, ghosts, Order
  <2>2. before <= issued' /\ before < issued'
    <3>1. before \in Nat /\ issued \in Nat /\ before <= issued
      BY <1>0 DEF Order
    <3>2. QED
      BY <2>1, <3>1
  <2>3. ~Trusted'
    BY <2>1 DEF Trusted, Asked, Held
  <2>4. QED
    BY <1>0, <2>1, <2>2, <2>3 DEF Order
<1>2. CASE FillStaging
  <2>1. progress = NoProgress /\ step = "up" /\ before < issued /\ ssh \notin Held
        /\ job' = "adapt" /\ UNCHANGED <<progress, step, ssh, issued, before>>
    BY <1>2 DEF FillStaging, Order, ghosts
  <2>2. staged'[History] = issued /\ Whole(staged)'
    BY <1>2, FilledIs
  <2>3. before <= issued /\ issued <= issued
    <3>1. before \in Nat /\ issued \in Nat /\ before <= issued
      BY <1>0 DEF Order
    <3>2. QED
      BY <3>1
  <2>4. before' < staged'[History] /\ staged'[History] <= issued' /\ before' <= issued'
    BY <2>1, <2>2, <2>3
  <2>5. progress' = NoProgress /\ step' = "up" /\ ssh' \notin Held /\ job' # "fill"
    BY <2>1
  <2>6. QED
    BY <2>2, <2>4, <2>5 DEF Order
<1>3. CASE AdaptStaging
  <2>1. progress = NoProgress /\ step = "up" /\ ssh \notin Held /\ Whole(staged)
        /\ job' = "mark" /\ UNCHANGED <<progress, step, ssh, issued, before>>
    BY <1>3 DEF AdaptStaging, Order, Trusted, ghosts
  <2>2. QED
    BY <1>3, <2>1, AdaptedIs DEF Order
<1>4. CASE Extracting
  BY <1>4, ExtractingOrder
<1>5. CASE SshStop
  <2>1. progress = NoProgress
    BY <1>5 DEF SshStop, Trouble, Tolerable
  <2>2. /\ UNCHANGED <<progress, staged, hasStaged, marker, before>> /\ issued' = issued + 1
        /\ ssh = "checked" /\ ssh' = "stopped" /\ step' = "off" /\ job' = "idle"
    BY <1>5 DEF SshStop, Forgets, files, ghosts
  <2>3. before < issued' /\ before <= issued' /\ \A v \in Content : v <= issued => v <= issued'
    <3>1. before \in Nat /\ issued \in Nat /\ before <= issued /\ Content \subseteq Int
      BY <1>0 DEF Order, Content, None
    <3>2. QED
      BY <2>2, <3>1
  <2>4. staged'[History] # None => before' < staged'[History] /\ staged'[History] <= issued'
    BY <1>0, <2>1, <2>2, <2>3, HistoryType DEF Order
  <2>5. Trusted' => Whole(staged)'
    BY <2>1, <2>2 DEF Order, Trusted, Asked, Whole
  <2>6. QED
    BY <2>1, <2>2, <2>3, <2>4, <2>5 DEF Order
<1>6. CASE SshCheck \/ SshGivesUp \/ SshStart
  <2>1. UNCHANGED <<progress, staged, hasStaged, marker, step, job, issued, before, incoming>>
        /\ ssh' \in {"none", "checked"} /\ ssh \notin {"wiped", "failed"}
    BY <1>6 DEF SshCheck, SshGivesUp, SshStart, files, ghosts
  <2>2. ssh' \notin Held
    BY <2>1 DEF Held
  <2>3. Trusted' => Trusted
    BY <2>1 DEF Trusted, Asked
  <2>4. QED
    BY <2>1, <2>2, <2>3 DEF Order, Whole
<1>7. CASE MarkStaging
  <2>1. progress = NoProgress /\ step = "up" /\ ssh \notin Held /\ Whole(staged)
        /\ job' = "idle" /\ UNCHANGED <<progress, step, ssh, staged, issued, before>>
    BY <1>7 DEF MarkStaging, Order, Trusted, ghosts
  <2>2. QED
    BY <2>1 DEF Order, Whole
<1>8. CASE StagingFails \/ Prepare \/ DropOlder \/ SetAside \/ PrepareFails \/ MovesEnd
            \/ Stop \/ Crash \/ CatchFails \/ EndFails \/ SaveFails \/ MoveFails \/ UNCHANGED vars
  <2>1. UNCHANGED <<progress, staged, hasStaged, marker, ssh, issued, before, incoming>>
    BY <1>8 DEF StagingFails, Prepare, DropOlder, SetAside, PrepareFails, MovesEnd, Stop, Crash,
                CatchFails, EndFails, SaveFails, MoveFails, Forgets, vars, files, ghosts
  <2>2. job' = "idle" \/ (job' = job /\ step' = step)
    BY <1>8 DEF StagingFails, Prepare, DropOlder, SetAside, PrepareFails, MovesEnd, Stop, Crash,
                CatchFails, EndFails, SaveFails, MoveFails, Startable, Forgets, vars, files, ghosts, Order
  <2>3. ssh \in Held => step' = "off" /\ job' = "idle"
    BY <1>8 DEF StagingFails, Prepare, DropOlder, SetAside, PrepareFails, MovesEnd, Stop, Crash,
                CatchFails, EndFails, SaveFails, MoveFails, Startable, Forgets, vars, Order
  <2>4. Trusted' => Trusted
    BY <2>1, <2>2 DEF Trusted, Asked
  <2>5. QED
    BY <1>0, <2>1, <2>2, <2>3, <2>4 DEF Order, Whole
<1>9. CASE Resume
  <2>1. progress # NoProgress /\ job = "idle" /\ ssh \notin Held
    BY <1>9 DEF Resume, Startable, Order
  <2>2. QED
    BY <1>9, <2>1 DEF Resume, Order, ghosts
<1>10. CASE NothingToDo
  <2>1. /\ UNCHANGED <<staged, hasStaged, progress, job, ssh, issued, incoming>> /\ before' = before
        /\ progress = NoProgress /\ job = "idle" /\ ssh \notin Held /\ marker' = None
    BY <1>10, DataVersion DEF NothingToDo, Startable, Up, Places, AtRest, Order, TypeOK
  <2>2. ~Trusted'
    BY <2>1, FoldersType DEF Trusted, Asked, Held
  <2>3. QED
    BY <2>1, <2>2 DEF Order
<1>11. CASE Begin
  <2>1. progress = NoProgress
    BY <1>11 DEF Begin, Control, Ending
  <2>2. Asked /\ job = "idle" /\ ssh \notin Held
    BY <1>11, <2>1 DEF Begin, Control, Order
  <2>3. PICK v \in Version : StagedIs(v)
    BY <2>1, <2>2, WholeIs DEF Order, Trusted, Held
  <2>4. incoming' = v /\ staged[History] = v /\ v # None
    BY <1>11, <2>3, StagedVersion, FoldersType DEF Begin
  <2>5. before < v /\ v <= issued
    BY <2>1, <2>4 DEF Order
  <2>6. progress' # NoProgress /\ UNCHANGED <<job, ssh, issued, before>>
    BY <1>11 DEF Begin, NoProgress
  <2>7. QED
    BY <2>2, <2>4, <2>5, <2>6 DEF Order
<1>12. CASE Move \/ Save \/ Catch
  <2>1. progress # NoProgress /\ job = "idle" /\ ssh \notin Held
    BY <1>12 DEF Move, Save, Catch, Control, Order
  <2>2. progress' # NoProgress /\ UNCHANGED <<job, ssh, issued, before, incoming>>
    BY <1>12, <2>1, PhaseTables DEF Move, Save, Catch, NoProgress, TypeOK, ghosts
  <2>3. QED
    BY <2>1, <2>2 DEF Order
<1>13. CASE Note
  <2>1. UNCHANGED <<staged, hasStaged, marker, progress, job, ssh, issued, incoming>>
        /\ job = "idle" /\ ssh \notin Held
        /\ before' \in {before, data[History]} /\ (before' # before => phase = "cancelar")
    BY <1>13 DEF Note, Up, Order
  <2>2. before' = before
    <3>1. phase = "cancelar" => progress = NoProgress
      BY <1>13 DEF Note, Control, Ending
    <3>2. QED
      BY <2>1, <3>1, DataVersion DEF Places, AtRest, TypeOK
  <2>3. QED
    BY <2>1, <2>2 DEF Order, Trusted, Asked, Whole
<1>14. CASE CleanStaged
  <2>1. job = "idle" /\ ssh \notin Held /\ ~hasStaged' /\ staged'[History] = None
        /\ UNCHANGED <<progress, job, ssh, issued, before, incoming>>
    BY <1>0, <1>14 DEF CleanStaged, Order, ghosts
  <2>2. ~Trusted'
    BY <2>1 DEF Trusted, Asked, Held
  <2>3. QED
    BY <2>1, <2>2 DEF Order
<1>15. CASE CleanMarker
  <2>1. job = "idle" /\ ssh \notin Held /\ ~hasStaged' /\ staged'[History] = None
        /\ UNCHANGED <<progress, job, ssh, issued, before, incoming>>
    BY <1>15 DEF CleanMarker, Order, Control, ghosts
  <2>2. ~Trusted'
    BY <2>1 DEF Trusted, Asked, Held
  <2>3. QED
    BY <2>1, <2>2 DEF Order
<1>16. CASE CleanProgress
  <2>1. job = "idle" /\ ssh \notin Held /\ ~hasStaged /\ staged[History] = None
        /\ UNCHANGED <<job, ssh, staged, hasStaged, issued>>
    BY <1>16 DEF CleanProgress, Order, Control
  <2>2. progress' = NoProgress /\ ~Trusted'
    <3>1. progress' = NoProgress
      BY <1>16 DEF CleanProgress
    <3>2. ~hasStaged' /\ job' = "idle" /\ ssh' \notin {"filled", "pruned"}
      BY <2>1 DEF Held
    <3>3. QED
      BY <3>1, <3>2 DEF Trusted, Asked
  <2>3. before' <= issued
    <3>1. CASE progress = NoProgress
      BY <1>16, <3>1, DataVersion DEF CleanProgress, Up, Places, AtRest, TypeOK, Order
    <3>2. CASE progress # NoProgress
      <4>1. data[History] \in {before, incoming}
        BY <1>0, <3>2, <1>16, ItemsIs, ToMoveIs
        DEF CleanProgress, Control, Ending, Places, Concluded, Returning, Holds, Between, Order
      <4>2. QED
        BY <1>0, <1>16, <3>2, <4>1 DEF CleanProgress, Up, Order
    <3>3. QED
      BY <3>1, <3>2
  <2>4. QED
    BY <2>1, <2>2, <2>3 DEF Order
<1>17. CASE RemovalStops
  <2>1. ssh \notin Held /\ job' = "idle" /\ staged' \in Parts(staged)
        /\ UNCHANGED <<progress, ssh, issued, before, incoming>>
    BY <1>17 DEF RemovalStops, Forgets, Order, ghosts
  <2>2. staged'[History] \in {None, staged[History]}
    BY <1>0, <2>1, PartsAre
  <2>3. progress = NoProgress /\ Trusted' => Whole(staged)'
    BY <1>17, <2>1 DEF RemovalStops, Trouble, Tolerable, Misleads, Trusted, Asked, Held
  <2>4. QED
    BY <2>1, <2>2, <2>3 DEF Order
<1>18. QED
  BY <1>1, <1>2, <1>3, <1>4, <1>5, <1>6, <1>7, <1>8, <1>9, <1>10, <1>11, <1>12, <1>13, <1>14, <1>15,
     <1>16, <1>17
  DEF Next, Staging, SshStep, Extracting, BootStep, Troubled

\* What a phase still has to move depends on the folders alone.
LEMMA ToMoveKept ==
    ASSUME UNCHANGED <<data, staged, safety>>
    PROVE  \A ph : (ToMove(ph) = {}) <=> (ToMove(ph) = {})'
BY DEF ToMove

LEMMA ToMoveEnd ==
    ASSUME UNCHANGED <<data, safety>>, UNCHANGED phase,
           phase \in {"concluindo", "desfazendo-devolvendo"}, ToMove(phase) = {}
    PROVE  ToMove(phase)' = {}
<1>1. CASE phase = "concluindo"
  BY <1>1 DEF ToMove
<1>2. CASE phase = "desfazendo-devolvendo"
  BY <1>2 DEF ToMove
<1>3. QED
  BY <1>1, <1>2

LEMMA ControlStep ==
    ASSUME IInv, Tolerable, [Next]_vars
    PROVE  Control'
<1> USE DEF IInv
<1>1. CASE step' = "off" /\ UNCHANGED progress
  BY <1>1 DEF Control, Ending
<1>2. CASE Staging
  <2>1. step = "up" /\ progress = NoProgress /\ UNCHANGED <<step, progress>>
    BY <1>2 DEF Staging, ClearStaging, FillStaging, AdaptStaging, MarkStaging, Order
  <2>2. QED
    BY <2>1 DEF Control, Ending
<1>3. CASE StagingFails
  <2>1. step = "up" /\ progress = NoProgress /\ UNCHANGED <<step, progress>>
    BY <1>3 DEF StagingFails, files, Order
  <2>2. QED
    BY <2>1 DEF Control, Ending
<1>4. CASE Resume
  <2>1. progress # NoProgress /\ progress.phase \in Phases /\ UNCHANGED progress
        /\ phase' = progress.phase /\ asked' = progress.for /\ step' = FirstStep(progress.phase)
        /\ UNCHANGED <<data, staged, safety>>
    BY <1>4 DEF Resume, Control
  <2>2. CASE progress.phase = "concluindo"
    <3>1. ToMove(phase)' = {}
      BY <2>1, <2>2, ToMoveIs, ToMoveKept
    <3>2. QED
      BY <2>1, <2>2, <3>1, PhaseTables DEF Control, Ending
  <2>3. CASE progress.phase # "concluindo"
    BY <2>1, <2>3, PhaseTables DEF Control, Ending
  <2>4. QED
    BY <2>2, <2>3
<1>5. CASE NothingToDo
  <2>1. step' = "up" /\ progress' = NoProgress
    BY <1>5 DEF NothingToDo, Up
  <2>2. QED
    BY <2>1 DEF Control, Ending
<1>6. CASE Prepare
  <2>1. progress' = NoProgress /\ phase' = "preparar" /\ Asked'
        /\ (step' = "older" \/ (step' = "begin" /\ safety' = Empty))
    BY <1>6 DEF Prepare, Asked, files
  <2>2. QED
    BY <2>1 DEF Control, Ending
<1>7. CASE DropOlder \/ SetAside
  <2>1. progress = NoProgress
    BY <1>7 DEF DropOlder, SetAside, Control, Ending
  <2>2. step \in {"older", "aside"} /\ UNCHANGED <<progress, phase, hasStaged, marker>>
        /\ ((step' = "aside" /\ previous' = Empty) \/ (step' = "begin" /\ safety' = Empty))
    BY <1>7 DEF DropOlder, SetAside
  <2>3. QED
    BY <2>1, <2>2 DEF Control, Asked, Ending
<1>8. CASE Begin
  <2>1. progress' = [phase |-> "salvando", for |-> asked] /\ asked' = asked /\ phase' = "salvando" /\ step' = "move"
    BY <1>8 DEF Begin
  <2>2. progress' # NoProgress /\ progress'.phase = "salvando" /\ progress'.for = asked
    BY <2>1 DEF NoProgress
  <2>3. QED
    BY <2>1, <2>2 DEF Control, Ending, Phases, Swapping
<1>9. CASE PrepareFails
  <2>1. progress = NoProgress /\ UNCHANGED progress /\ phase' = "cancelar" /\ step' = "clean staged"
    BY <1>9 DEF PrepareFails, files, Control, Ending
  <2>2. QED
    BY <2>1 DEF Control, Ending
<1>10. CASE Move
  <2>1. step = "move" /\ progress # NoProgress /\ UNCHANGED <<progress, step, phase, asked>>
    BY <1>10 DEF Move, Control
  <2>2. QED
    BY <2>1 DEF Control, Ending
<1>11. CASE MovesEnd
  <2>1. step = "move" /\ progress # NoProgress /\ UNCHANGED <<progress, phase, asked>>
        /\ phase = progress.phase /\ phase # "concluindo" /\ phase \in Phases /\ asked = progress.for
        /\ ToMove(phase) = {}
        /\ step' = IF phase = "desfazendo-devolvendo" THEN "note" ELSE "save"
    BY <1>11 DEF MovesEnd, files, Control
  <2>2. ToMove(phase)' = {}
    BY <1>11, <2>1, ToMoveKept DEF MovesEnd, files
  <2>3. QED
    BY <2>1, <2>2 DEF Control, Ending, Phases
<1>12. CASE Save
  <2>1. step = "save" /\ progress # NoProgress /\ asked = progress.for /\ asked' = asked
        /\ UNCHANGED <<data, staged, safety>>
    BY <1>12 DEF Save, Control
  <2>2. progress' = [phase |-> phase', for |-> progress.for]
        /\ phase' \in {"aplicando", "concluindo", "desfazendo-devolvendo"} /\ step' = FirstStep(phase')
    BY <1>12, PhaseTables DEF Save, TypeOK
  <2>3. progress' # NoProgress /\ progress'.phase = phase' /\ progress'.for = asked' /\ phase' \in Phases
    BY <2>1, <2>2 DEF NoProgress, Phases, Swapping
  <2>4. CASE phase' = "concluindo"
    <3>1. ToMove(phase)' = {} /\ step' = "note"
      BY <2>1, <2>2, <2>4, ToMoveIs, ToMoveKept, PhaseTables
    <3>2. QED
      BY <2>3, <2>4, <3>1 DEF Control, Ending
  <2>5. CASE phase' # "concluindo"
    <3>1. step' = "move"
      BY <2>2, <2>5, PhaseTables
    <3>2. QED
      BY <2>3, <2>5, <3>1 DEF Control, Ending
  <2>6. QED
    BY <2>4, <2>5
<1>13. CASE SaveFails
  <2>1. step = "save" /\ progress # NoProgress /\ UNCHANGED progress /\ ToMove(phase) = {}
        /\ phase = progress.phase /\ asked = progress.for
    BY <1>13 DEF SaveFails, files, Control
  <2>2. CASE phase \in Swapping
    <3>1. phase = "salvando"
      BY <1>13, <2>2 DEF SaveFails, Trouble, Tolerable, Swapping
    <3>2. step' = "catch" /\ phase' = "aplicando" /\ asked' = asked
      BY <1>13, <3>1, PhaseTables DEF SaveFails, Swapping
    <3>3. ToMove("salvando")' = {}
      BY <1>13, <2>1, <3>1, ToMoveKept DEF SaveFails, files
    <3>4. QED
      BY <2>1, <3>1, <3>2, <3>3 DEF Control, Ending, Swapping, Phases
  <2>3. CASE phase \notin Swapping
    BY <1>1, <1>13, <2>1, <2>3 DEF SaveFails, Forgets
  <2>4. QED
    BY <2>2, <2>3
<1>14. CASE MoveFails
  <2>1. step = "move" /\ progress # NoProgress /\ UNCHANGED progress /\ phase = progress.phase /\ asked = progress.for
    BY <1>14 DEF MoveFails, files, Control
  <2>2. CASE phase \in Swapping
    <3>1. step' = "catch" /\ UNCHANGED <<phase, asked>>
      BY <1>14, <2>2 DEF MoveFails
    <3>2. QED
      BY <2>1, <2>2, <3>1 DEF Control, Ending, Phases
  <2>3. CASE phase \notin Swapping
    BY <1>1, <1>14, <2>1, <2>3 DEF MoveFails, Forgets
  <2>4. QED
    BY <2>2, <2>3
<1>15. CASE Catch
  <2>1. step = "catch" /\ progress # NoProgress /\ asked = progress.for /\ asked' = asked /\ phase' = UndoPhase(phase)
    BY <1>15 DEF Catch, Control
  <2>2. phase' \in {"desfazendo-retirando", "desfazendo-devolvendo"}
    BY <2>1 DEF UndoPhase
  <2>3. progress' = [phase |-> phase', for |-> progress.for] /\ step' = "move"
    BY <1>15 DEF Catch, TypeOK
  <2>4. progress' # NoProgress /\ progress'.phase = phase' /\ progress'.for = asked' /\ phase' \in Phases
    BY <2>1, <2>2, <2>3 DEF NoProgress, Phases
  <2>5. QED
    BY <2>2, <2>3, <2>4 DEF Control, Ending
<1>16. CASE Note
  <2>1. step = "note" /\ UNCHANGED <<data, staged, safety, progress>>
    BY <1>16 DEF Note
  <2>2. CASE phase = "cancelar"
    <3>1. progress = NoProgress
      BY <2>1, <2>2 DEF Control, Ending
    <3>2. step' = "up" /\ progress' = NoProgress
      BY <1>16, <2>1, <2>2, <3>1 DEF Note, Up
    <3>3. QED
      BY <3>2 DEF Control, Ending
  <2>3. CASE phase # "cancelar"
    <3>1. step' = "clean staged" /\ UNCHANGED <<phase, asked>> /\ progress # NoProgress
      BY <1>16, <2>1, <2>3 DEF Note, Control, Ending
    <3>2. ToMove(phase)' = {}
      BY <2>1, <3>1, ToMoveKept DEF Control, Ending
    <3>3. QED
      BY <2>1, <3>1, <3>2 DEF Control, Ending
  <2>4. QED
    BY <2>2, <2>3
<1>17. CASE CleanStaged \/ CleanMarker
  <2>1. step \in Ending /\ step' \in {"clean marker", "clean progress"} /\ ~hasStaged'
        /\ staged'[History] = None /\ UNCHANGED <<data, safety, progress, phase, asked>>
    <3>1. CASE CleanStaged
      BY <3>1, HistoryType DEF CleanStaged, Empty, Ending
    <3>2. CASE CleanMarker
      BY <3>2 DEF CleanMarker, Ending, Control
    <3>3. QED
      BY <1>17, <3>1, <3>2
  <2>2. CASE progress = NoProgress
    BY <2>1, <2>2 DEF Control, Ending
  <2>3. CASE progress # NoProgress
    <3>1. phase \in {"concluindo", "desfazendo-devolvendo"} /\ ToMove(phase) = {}
      BY <2>1, <2>3 DEF Control
    <3>2. ToMove(phase)' = {}
      BY <2>1, <3>1, ToMoveEnd
    <3>3. QED
      BY <2>1, <2>3, <3>1, <3>2 DEF Control, Ending
  <2>4. QED
    BY <2>2, <2>3
<1>18. CASE CleanProgress
  <2>1. progress' = NoProgress /\ (step' = "up" \/ (step' = "note" /\ phase' = "cancelar")) /\ ~hasStaged'
        /\ staged'[History] = None
    BY <1>18 DEF CleanProgress, Up, Control
  <2>2. QED
    BY <2>1 DEF Control, Ending
<1>19. CASE RemovalStops
  <2>1. step' = "off" /\ UNCHANGED progress
    BY <1>19 DEF RemovalStops, Forgets
  <2>2. QED
    BY <1>1, <2>1
<1>20. CASE Stop \/ Crash \/ SshStop \/ Extracting \/ CatchFails \/ EndFails
  <2>1. step' = "off" /\ UNCHANGED progress
    BY <1>20, ExtractingKeeps DEF Stop, Crash, SshStop, CatchFails, EndFails, Forgets, files
  <2>2. QED
    BY <1>1, <2>1
<1>21. CASE SshCheck \/ SshGivesUp \/ SshStart \/ UNCHANGED vars
  <2>1. UNCHANGED <<data, staged, hasStaged, safety, previous, marker, progress, step, phase, asked>>
    BY <1>21 DEF SshCheck, SshGivesUp, SshStart, vars, files
  <2>2. \A ph : (ToMove(ph) = {}) <=> (ToMove(ph) = {})'
    BY <2>1, ToMoveKept
  <2>3. QED
    BY <2>1, <2>2 DEF Control, Asked, ToMove
<1>22. QED
  BY <1>2, <1>3, <1>4, <1>5, <1>6, <1>7, <1>8, <1>9, <1>10, <1>11, <1>12, <1>13, <1>14, <1>15, <1>16,
     <1>17, <1>18, <1>19, <1>20, <1>21
  DEF Next, Staging, SshStep, Extracting, BootStep, Troubled

---------------------------------------------------------------------------
(* The safety of the swap *)

LEMMA InitFacts == Init => IInv
<1> SUFFICES ASSUME Init PROVE IInv
  OBVIOUS
<1>1. TypeOK
  <2>1. 0 \in 0..MaxTroubles
    BY ConstantsAssumption
  <2>2. NoProgress \in [phase : Phases \union {"nenhuma"}, for : Content]
    BY DEF NoProgress, Content
  <2>3. None \in Content /\ 0 \in Version
    BY FoldersType DEF Content
  <2>4. QED
    BY <2>1, <2>2, <2>3, FoldersType DEF Init, TypeOK, Steps, InMemory
<1>2. Places
  <2>1. 0 \in Version /\ data = Data(0) /\ safety = Empty /\ progress.phase = "nenhuma" /\ before = 0
    BY FoldersType DEF Init, NoProgress
  <2>2. PreservedStay
    BY <2>1, ItemsIs DEF PreservedStay, Empty
  <2>3. QED
    BY <2>1, <2>2 DEF Places, AtRest
<1>3. Order
  <2>1. 0 <= 0 /\ Empty[History] = None
    BY HistoryType DEF Empty
  <2>2. QED
    BY <2>1, FoldersType DEF Init, Order, Trusted, Asked, Held
<1>4. Control
  BY DEF Init, Control, Ending
<1>5. QED
  BY <1>1, <1>2, <1>3, <1>4 DEF IInv

\* The panel comes up with the version it had or with the one that was swapped in.
LEMMA VersionFound ==
    ASSUME IInv, NothingToDo \/ Note \/ CleanProgress
    PROVE  data[History] \in {before, incoming} /\ data[History] \in Version
<1> USE DEF IInv
<1>1. before \in Version /\ (progress # NoProgress => incoming \in Version)
  BY DEF TypeOK, Order
<1>2. CASE progress = NoProgress
  BY <1>1, <1>2, DataVersion DEF Places, AtRest
<1>3. CASE progress # NoProgress
  <2>1. phase = progress.phase /\ phase \in {"concluindo", "desfazendo-devolvendo"} /\ ToMove(phase) = {}
    BY <1>3 DEF NothingToDo, Note, CleanProgress, Control, Ending
  <2>2. QED
    BY <1>1, <1>3, <2>1, ItemsIs, ToMoveIs DEF Places, Concluded, Returning, Holds, Between
<1>4. QED
  BY <1>2, <1>3

LEMMA IInvStep ==
    ASSUME IInv, Tolerable, [Next]_vars
    PROVE  IInv'
<1>1. step' = "up" /\ step # "up" => NothingToDo \/ Note \/ CleanProgress
  BY DEF Next, vars, Staging, ClearStaging, FillStaging, AdaptStaging, MarkStaging, Stop,
         SshStep, SshCheck, SshGivesUp, SshStop, SshStart, SshWipe, SshExtract, SshPrune, SshMark,
         SshClean, SshFails, SshCut, BootStep, Resume, FirstStep, Prepare, DropOlder, SetAside, Begin, Move, MovesEnd, Save, Catch,
         CleanStaged, CleanMarker, Troubled, StagingFails, PrepareFails, SaveFails, MoveFails,
         CatchFails, EndFails, RemovalStops, Crash, Forgets
<1>2. TypeOK'
  BY <1>1, TypeStep, VersionFound DEF IInv
<1>3. QED
  BY <1>2, PlacesStep, OrderStep, ControlStep DEF IInv

\* In every state the variables keep their types.
THEOREM TypeCorrect == ASSUME Tolerable PROVE Spec => []TypeOK
<1>1. IInv /\ [Next]_vars => IInv'
  BY IInvStep
<1>2. IInv => TypeOK
  BY DEF IInv
<1>3. QED
  BY <1>1, <1>2, InitFacts, PTL DEF Spec

\* For every set of names, number of restores, tolerable failures and crashes, and with
\* restaurar-painel.sh at any of its steps beside the panel, the panel only comes up
\* with the data of one version, whole.
THEOREM NeverHalfSwapped == ASSUME Tolerable PROVE Spec => []NeverHalf
<1>1. IInv /\ [Next]_vars => IInv'
  BY IInvStep
<1>2. IInv => NeverHalf
  BY DEF IInv, NeverHalf, Control, Ending, Places, AtRest, TypeOK
<1>3. QED
  BY <1>1, <1>2, InitFacts, PTL DEF Spec

\* Whatever tolerable failure happens and wherever the start is killed, each item of the version before
\* is in the data directory or in the safety copy.
THEOREM NothingIsLost == ASSUME Tolerable PROVE Spec => []NothingLost
<1>1. IInv /\ [Next]_vars => IInv'
  BY IInvStep
<1>2. ASSUME IInv PROVE NothingLost
  <2> USE <1>2 DEF IInv
  <2>1. before \in Version /\ (progress = NoProgress \/ progress.phase \in Phases)
    BY DEF TypeOK, Control
  <2>2. \A n \in Has[before] : n \in Movable /\ Items(before)[n] = before /\ Data(before)[n] = before /\ before # None
    BY <2>1, ItemsIs, FoldersType
  <2>3. CASE progress = NoProgress
    BY <2>2, <2>3 DEF Places, AtRest, NothingLost
  <2>4. CASE progress.phase = "salvando"
    BY <2>2, <2>4 DEF Places, Saving, Between, NothingLost
  <2>5. CASE progress.phase \in {"aplicando", "desfazendo-retirando", "concluindo"}
    BY <2>2, <2>5 DEF Places, Applying, Concluded, Holds, NothingLost
  <2>6. CASE progress.phase = "desfazendo-devolvendo"
    BY <2>2, <2>6 DEF Places, Returning, Between, NothingLost
  <2>7. QED
    BY <2>1, <2>3, <2>4, <2>5, <2>6 DEF Phases, Swapping
<1>3. QED
  BY <1>1, <1>2, InitFacts, PTL DEF Spec

---------------------------------------------------------------------------
(* What the history tells, and the copies it answers for *)

Success == {r \in log : r.status = "success"}

\* A record belongs to a version the panel ran with, or to the one being concluded.
Records ==
    /\ \A r \in log :
         /\ r.in \in Version /\ r.from \in Version
         /\ r.status = "success" <=> r.in # r.from
         /\ \/ r.in <= before
            \/ progress.phase = "concluindo" /\ r.in = incoming /\ r.from = before /\ r.restore = progress.for
    /\ \A q, r \in Success : q.in = r.in => q = r

Told ==
    /\ before # 0 => \E r \in Success : r.in = before
    /\ progress.phase = "concluindo" /\ step \in {"clean staged", "clean marker", "clean progress"}
         => \E r \in Success : r.in = incoming

\* The state before the last swap is in the copy, and in the older one from the
\* moment a newer swap may take its place.
Copies ==
    /\ \A r \in Success : r.in = before =>
         IF progress = NoProgress
         THEN safety = Items(r.from) \/ (safety = Empty /\ previous = Items(r.from))
         ELSE previous = Items(r.from)
    /\ step \in {"older", "aside"} => safety # Empty

LogInv == Records /\ Told /\ Copies

LEMMA ItemsNotEmpty == \A v \in Version : Items(v) # Empty /\ Items(v) \in Folder
<1>1. \A v \in Version : Items(v)[History] # Empty[History]
  BY ItemsIs, HistoryType, FoldersType DEF Empty
<1>2. QED
  BY <1>1, FoldersType

\* The copy made by a swap that was applied is the whole version before.
LEMMA CopyMade ==
    ASSUME IInv, progress.phase = "concluindo"
    PROVE  safety = Items(before)
<1>1. before \in Version /\ safety \in Folder /\ Holds(safety, before) /\ \A n \in Preserved : safety[n] = None
  BY DEF IInv, TypeOK, Places, Concluded, PreservedStay
<1>2. \A n \in Name : safety[n] = Items(before)[n]
  <2>1. \A n \in Preserved : Items(before)[n] = None
    BY <1>1, ConstantsAssumption DEF Items
  <2>2. QED
    BY <1>1, <2>1 DEF Holds, Movable
<1>3. QED
  BY <1>1, <1>2, ItemsNotEmpty DEF Folder

LEMMA LogKept ==
    ASSUME LogInv, IInv, UNCHANGED <<log, safety, previous, progress, before, incoming>>,
           step' \in {"clean staged", "clean marker", "clean progress"}
             => step \in {"clean staged", "clean marker", "clean progress"} \/ progress.phase # "concluindo",
           step' \in {"older", "aside"} => safety # Empty
    PROVE  LogInv'
BY DEF LogInv, Records, Told, Copies, Success

LEMMA NoteLog ==
    ASSUME LogInv, IInv, Note
    PROVE  LogInv'
<1> DEFINE record == [restore |-> asked, status |-> Status, in |-> data[History], from |-> before]
<1>1. UNCHANGED <<safety, previous, progress, incoming>>
  BY DEF Note
<1>2. before \in Version /\ data[History] \in Version /\ step = "note"
  BY VersionFound DEF IInv, TypeOK, Note
<1>3. CASE progress.phase = "concluindo"
  <2>1. phase = "concluindo" /\ asked = progress.for /\ incoming \in Version /\ before < incoming /\ progress # NoProgress
    BY <1>2, <1>3 DEF IInv, Control, Ending, Order, NoProgress
  <2>2. data[History] = incoming
    BY <1>3, <2>1, ItemsIs DEF IInv, Places, Concluded, Holds
  <2>3. before' = before /\ step' = "clean staged"
    BY <2>1 DEF Note
  <2>4. incoming # before /\ ~(incoming <= before)
    BY <1>2, <2>1, FoldersType
  <2>5. CASE \E r \in log : r.restore = asked /\ r.in = data[History]
    <3>1. UNCHANGED log
      BY <2>5 DEF Note
    <3>2. PICK r \in log : r.restore = asked /\ r.in = incoming
      BY <2>2, <2>5
    <3>3. r \in Success
      BY <2>4, <3>2 DEF LogInv, Records, Success
    <3>4. QED
      BY <1>1, <2>3, <3>1, <3>2, <3>3 DEF LogInv, Records, Told, Copies, Success
  <2>6. CASE ~ \E r \in log : r.restore = asked /\ r.in = data[History]
    <3>1. log' = log \union {record}
      BY <2>6 DEF Note
    <3>2. \A r \in log : r.in # incoming
      BY <2>1, <2>2, <2>4, <2>6 DEF LogInv, Records
    <3>3. record.status = "success" /\ record.in = incoming /\ record.from = before /\ record.restore = progress.for
      BY <2>1, <2>2 DEF Status
    <3>4. Success' = Success \union {record}
      BY <3>1, <3>3 DEF Success
    <3>5. Records'
      <4>1. \A r \in log' : r \in log \/ r = record
        BY <3>1
      <4>2. \A q, r \in Success' : q.in = r.in => q = r
        BY <3>2, <3>3, <3>4 DEF LogInv, Records, Success
      <4>3. UNCHANGED <<progress, incoming, before>>
        BY <1>1, <2>3
      <4>4. record.in \in Version /\ record.from \in Version /\ record.in # record.from
        BY <1>2, <2>1, <2>4, <3>3
      <4>5. QED
        BY <1>3, <3>3, <4>1, <4>2, <4>3, <4>4 DEF LogInv, Records
    <3>6. Told'
      BY <1>1, <2>3, <3>3, <3>4 DEF LogInv, Told
    <3>7. Copies'
      BY <1>1, <2>3, <2>4, <3>3, <3>4 DEF LogInv, Copies
    <3>8. QED
      BY <3>5, <3>6, <3>7 DEF LogInv
  <2>7. QED
    BY <2>5, <2>6
<1>4. CASE progress.phase # "concluindo"
  <2>1. phase # "concluindo" /\ data[History] = before
    <3>1. CASE progress = NoProgress
      BY <1>2, <3>1, DataVersion DEF IInv, Control, Ending, Places, AtRest
    <3>2. CASE progress # NoProgress
      <4>1. progress.phase = "desfazendo-devolvendo" /\ phase = progress.phase /\ ToMove(phase) = {}
        BY <1>2, <1>4, <3>2 DEF IInv, Control, Ending
      <4>2. QED
        BY <1>2, <4>1, ItemsIs, ToMoveIs DEF IInv, Places, Returning, Between
    <3>3. QED
      BY <3>1, <3>2
  <2>2. before' = before /\ step' \in {"up", "clean staged"}
    BY <2>1 DEF Note, Up
  <2>3. record.status = "failed" /\ record.in = before /\ record.from = before
    BY <2>1 DEF Status
  <2>4. log' = log \/ log' = log \union {record}
    BY DEF Note
  <2>5. Success' = Success
    BY <2>3, <2>4 DEF Success
  <2>6. before <= before
    BY <1>2, FoldersType
  <2>7. Records'
    BY <1>1, <1>2, <2>2, <2>3, <2>4, <2>5, <2>6 DEF LogInv, Records
  <2>8. Told' /\ Copies'
    BY <1>1, <1>4, <2>2, <2>5 DEF LogInv, Told, Copies
  <2>9. QED
    BY <2>7, <2>8 DEF LogInv
<1>5. QED
  BY <1>3, <1>4

LEMMA InitLog == Init => LogInv
BY DEF Init, LogInv, Records, Told, Copies, Success

\* The steps that change the copies, the phase or the version the panel runs with.
LEMMA CopyLog ==
    ASSUME LogInv, IInv, IInv', Tolerable
    PROVE  /\ DropOlder => LogInv'
           /\ SetAside => LogInv'
           /\ Begin => LogInv'
           /\ Move => LogInv'
           /\ CleanProgress => LogInv'
<1>0. before \in Version /\ \A r \in log : r.from \in Version /\ Items(r.from) # Empty
  BY ItemsNotEmpty DEF IInv, TypeOK, LogInv, Records
<1>1. ASSUME DropOlder PROVE LogInv'
  <2>1. progress = NoProgress /\ safety # Empty /\ progress.phase # "concluindo"
    BY <1>1 DEF DropOlder, IInv, Control, Ending, LogInv, Copies, NoProgress
  <2>2. step' = "aside" /\ UNCHANGED <<safety, progress, log, before, incoming>>
    BY <1>1 DEF DropOlder, ghosts
  <2>3. QED
    BY <2>1, <2>2 DEF LogInv, Records, Told, Copies, Success
<1>2. ASSUME SetAside PROVE LogInv'
  <2>1. progress = NoProgress /\ safety # Empty /\ progress.phase # "concluindo"
    BY <1>2 DEF SetAside, IInv, Control, Ending, LogInv, Copies, NoProgress
  <2>2. step' = "begin" /\ previous' = safety /\ safety' = Empty /\ UNCHANGED <<progress, log, before, incoming>>
    BY <1>2 DEF SetAside, ghosts
  <2>3. QED
    BY <2>1, <2>2 DEF LogInv, Records, Told, Copies, Success
<1>3. ASSUME Begin PROVE LogInv'
  <2>0. step = "begin"
    BY <1>3 DEF Begin
  <2>1. progress = NoProgress /\ progress.phase # "concluindo"
    <3>1. progress = NoProgress
      BY <2>0 DEF IInv, Control, Ending
    <3>2. QED
      BY <3>1 DEF NoProgress
  <2>2. safety = Empty
    BY <2>0, <2>1 DEF IInv, Control
  <2>3. step' = "move" /\ progress'.phase = "salvando" /\ progress' # NoProgress /\ UNCHANGED <<log, previous, before>>
    <3>1. step' = "move" /\ progress' = [phase |-> "salvando", for |-> asked] /\ UNCHANGED <<log, previous, before>>
      BY <1>3 DEF Begin
    <3>2. QED
      BY <3>1 DEF NoProgress
  <2>4. \A r \in Success : r.in = before => previous = Items(r.from)
    BY <1>0, <2>1, <2>2 DEF LogInv, Copies, Success
  <2>5. Copies'
    BY <2>3, <2>4 DEF Copies, Success
  <2>6. Records' /\ Told'
    BY <2>1, <2>3 DEF LogInv, Records, Told, Success
  <2>7. QED
    BY <2>5, <2>6 DEF LogInv
<1>4. ASSUME Move PROVE LogInv'
  <2>1. step = "move" /\ progress # NoProgress /\ UNCHANGED <<previous, progress, log, step, before, incoming>>
    BY <1>4 DEF Move, IInv, Control, ghosts
  <2>2. QED
    BY <2>1 DEF LogInv, Records, Told, Copies, Success
<1>5. ASSUME CleanProgress PROVE LogInv'
  <2>0. step = "clean progress" /\ step' \in {"note", "up"} /\ progress' = NoProgress
        /\ UNCHANGED <<safety, previous, log>>
    BY <1>5 DEF CleanProgress, Up
  <2>1. data[History] \in Version /\ before' \in {before, data[History]}
    BY <1>5, VersionFound DEF CleanProgress, Up
  <2>2. CASE progress = NoProgress
    <3>1. before' = before
      BY <1>0, <2>1, <2>2, DataVersion DEF IInv, Places, AtRest
    <3>2. QED
      BY <2>0, <2>2, <3>1 DEF LogInv, Records, Told, Copies, Success, NoProgress
  <2>3. CASE progress # NoProgress /\ progress.phase = "concluindo"
    <3>1. phase # "cancelar" /\ before < incoming /\ incoming \in Version /\ data[History] = incoming
      BY <2>0, <2>3, ItemsIs DEF IInv, Control, Ending, Order, Places, Concluded, Holds
    <3>2. before' = incoming
      BY <1>5, <3>1 DEF CleanProgress, Up
    <3>3. PICK r \in Success : r.in = incoming
      BY <2>0, <2>3 DEF LogInv, Told
    <3>4. before <= incoming /\ incoming <= incoming /\ ~(incoming <= before)
          /\ \A v \in Version : v <= before => v <= incoming
      BY <1>0, <3>1, FoldersType
    <3>5. r.from = before
      BY <3>3, <3>4 DEF LogInv, Records, Success
    <3>6. safety = Items(before)
      BY <2>3, CopyMade
    <3>7. Records'
      BY <2>0, <3>2, <3>4 DEF LogInv, Records, Success
    <3>8. Told'
      BY <2>0, <3>2, <3>3 DEF Told, NoProgress, Success
    <3>9. Copies'
      BY <2>0, <3>2, <3>3, <3>5, <3>6 DEF LogInv, Records, Copies, Success
    <3>10. QED
      BY <3>7, <3>8, <3>9 DEF LogInv
  <2>4. CASE progress # NoProgress /\ progress.phase # "concluindo"
    <3>1. progress.phase = "desfazendo-devolvendo" /\ ToMove("desfazendo-devolvendo") = {}
      BY <2>0, <2>4 DEF IInv, Control, Ending
    <3>2. safety = Empty
      <4>1. \A n \in Name : safety[n] = None
        BY <3>1, ToMoveIs
      <4>2. safety \in Folder
        BY DEF IInv, TypeOK
      <4>3. QED
        BY <4>1, <4>2 DEF Folder, Empty
    <3>3. before' = before
      <4>1. Items(before)[History] = before /\ History \in Movable
        BY <1>0, ItemsIs
      <4>2. safety[History] = None
        BY <3>2, HistoryType DEF Empty
      <4>3. data[History] = before
        BY <3>1, <4>1, <4>2 DEF IInv, Places, Returning, Between
      <4>4. QED
        BY <2>1, <4>3
    <3>4. QED
      BY <2>0, <2>4, <3>2, <3>3 DEF LogInv, Records, Told, Copies, Success, NoProgress
  <2>5. QED
    BY <2>2, <2>3, <2>4
<1>6. QED
  BY <1>1, <1>2, <1>3, <1>4, <1>5

SshQuiet == SshCheck \/ SshGivesUp \/ SshStop \/ SshStart

LEMMA LogStep ==
    ASSUME LogInv, IInv, IInv', Tolerable, [Next]_vars
    PROVE  LogInv'
<1>1. CASE Staging \/ StagingFails \/ SshQuiet \/ Extracting \/ Stop \/ Crash \/ Resume \/ PrepareFails \/ Save
            \/ MovesEnd \/ MoveFails \/ SaveFails \/ Catch \/ CatchFails \/ CleanStaged \/ CleanMarker
            \/ EndFails \/ RemovalStops \/ Prepare \/ UNCHANGED vars
  <2>1. UNCHANGED <<log, safety, previous, before, incoming>>
    BY <1>1, ExtractingKeeps DEF Staging, ClearStaging, FillStaging, AdaptStaging, MarkStaging, StagingFails,
         SshQuiet, SshCheck, SshGivesUp, SshStop, SshStart,
         Stop, Crash, Resume, PrepareFails, Save, MovesEnd, MoveFails, SaveFails, Catch, CatchFails,
         CleanStaged, CleanMarker, EndFails, RemovalStops, Prepare, vars, files, ghosts
  <2>2. CASE Save \/ Catch
    <3>1. progress # NoProgress /\ progress' # NoProgress /\ step' \in {"note", "move"}
      <4>1. step \in {"save", "catch"} /\ step' \in {"note", "move"}
        BY <2>2, PhaseTables DEF Save, Catch
      <4>2. progress # NoProgress
        BY <4>1 DEF IInv, Control
      <4>3. progress'.phase \in {"aplicando", "concluindo", "desfazendo-devolvendo", "desfazendo-retirando"}
        BY <2>2, PhaseTables DEF Save, Catch, IInv, TypeOK
      <4>4. QED
        BY <4>1, <4>2, <4>3 DEF NoProgress
    <3>2. progress.phase # "concluindo"
      BY <2>2, <3>1 DEF Save, Catch, IInv, Control, Swapping
    <3>3. QED
      BY <2>1, <3>1, <3>2 DEF LogInv, Records, Told, Copies, Success
  <2>3. CASE ~(Save \/ Catch)
    <3>1. UNCHANGED progress
      BY <1>1, <2>3, ExtractingKeeps DEF Staging, ClearStaging, FillStaging, AdaptStaging, MarkStaging,
         StagingFails, SshQuiet, SshCheck, SshGivesUp, SshStop, SshStart,
         Stop, Crash, Resume, PrepareFails, MovesEnd, MoveFails, SaveFails, CatchFails,
         CleanStaged, CleanMarker, EndFails, RemovalStops, Prepare, vars, files
    <3>2. CASE CleanStaged \/ CleanMarker
      BY <2>1, <3>1, <3>2, LogKept DEF CleanStaged, CleanMarker
    <3>3. CASE PrepareFails
      <4>1. progress = NoProgress /\ step' = "clean staged"
        BY <3>3 DEF PrepareFails, IInv, Control, Ending
      <4>2. QED
        BY <2>1, <3>1, <4>1, LogKept DEF NoProgress
    <3>4. CASE Prepare
      <4>1. step' \in {"older", "begin"} /\ (step' = "older" => safety # Empty)
        BY <3>4 DEF Prepare
      <4>2. QED
        BY <2>1, <3>1, <4>1, LogKept
    <3>5. CASE Staging \/ StagingFails \/ SshQuiet \/ Extracting \/ Stop \/ Crash \/ Resume
            \/ MovesEnd \/ MoveFails \/ SaveFails \/ CatchFails \/ EndFails \/ RemovalStops
      <4>1. step' = step \/ step' \in {"off", "note", "move", "save", "catch"}
        BY <3>5, PhaseTables, ExtractingKeeps DEF Staging, ClearStaging, FillStaging, AdaptStaging, MarkStaging,
           StagingFails, SshQuiet, SshCheck, SshGivesUp, SshStop, SshStart, Stop, Crash, Resume, MovesEnd, MoveFails, SaveFails, CatchFails, EndFails,
           RemovalStops, Forgets
      <4>2. QED
        BY <2>1, <3>1, <4>1, LogKept DEF LogInv, Copies
    <3>6. CASE UNCHANGED vars
      BY <2>1, <3>1, <3>6, LogKept DEF vars, LogInv, Copies
    <3>7. QED
      BY <1>1, <2>3, <3>2, <3>3, <3>4, <3>5, <3>6
  <2>4. QED
    BY <2>2, <2>3
<1>2. CASE NothingToDo
  <2>1. UNCHANGED <<log, safety, previous, progress, incoming>> /\ step' = "up" /\ before' = data[History]
        /\ progress = NoProgress /\ before \in Version
    BY <1>2 DEF NothingToDo, Up, IInv, TypeOK
  <2>2. before' = before
    BY <2>1, DataVersion DEF IInv, Places, AtRest
  <2>3. QED
    BY <2>1, <2>2, LogKept
<1>3. QED
  BY <1>1, <1>2, NoteLog, CopyLog DEF Next, SshStep, SshQuiet, Extracting, BootStep, Troubled

LEMMA Invariants == ASSUME Tolerable PROVE Spec => [](IInv /\ LogInv)
<1>1. Init => IInv /\ LogInv
  BY InitFacts, InitLog
<1>2. IInv /\ LogInv /\ [Next]_vars => (IInv /\ LogInv)'
  BY IInvStep, LogStep
<1>3. QED
  BY <1>1, <1>2, PTL DEF Spec

\* The state before the last restore applied is whole in one of the two copies,
\* through any number of later restores that fail, are cancelled or undone.
THEOREM CopyIsKept == ASSUME Tolerable PROVE Spec => []CopyKept
<1>1. IInv /\ LogInv => CopyKept
  BY DEF IInv, LogInv, Copies, Success, CopyKept
<1>2. QED
  BY <1>1, Invariants, PTL

\* The records of the history agree with what happened to the data, and the version
\* the panel runs with was recorded once.
THEOREM HistoryIsTrue == ASSUME Tolerable PROVE Spec => []HistoryTrue
<1>1. IInv /\ LogInv => HistoryTrue
  BY DEF LogInv, Records, Told, Success, HistoryTrue
<1>2. QED
  BY <1>1, Invariants, PTL

---------------------------------------------------------------------------
(* The detailed restore implements PanelSwitch *)

Shown == IF step = "up" THEN data[History] ELSE None

LEMMA SwitchStep ==
    ASSUME IInv, IInv', Tolerable, [Next]_vars
    PROVE  [Switch!Next]_<<Shown, before, Offered>>
<1> USE DEF IInv
<1>0. Offered' \in Version \union {None} /\ before \in Version
  BY HistoryType DEF TypeOK, Offered, Content
<1>1. ASSUME Shown' = Shown, before' = before
      PROVE  [Switch!Next]_<<Shown, before, Offered>>
  BY <1>0, <1>1 DEF Switch!Next, Switch!Offer, Switch!Forget, Shown
<1>2. ASSUME step # "up", step' # "up", UNCHANGED before
      PROVE  [Switch!Next]_<<Shown, before, Offered>>
  BY <1>1, <1>2 DEF Shown
<1>3. CASE Staging \/ StagingFails
  <2>1. step = "up" /\ UNCHANGED <<step, data, before>>
    BY <1>3 DEF Staging, ClearStaging, FillStaging, AdaptStaging, MarkStaging, StagingFails, Order, files, ghosts
  <2>2. QED
    BY <1>1, <2>1 DEF Shown
<1>10. CASE SshCheck \/ SshGivesUp \/ SshStart
  BY <1>1, <1>10 DEF SshCheck, SshGivesUp, SshStart, files, ghosts, Shown
<1>4. CASE (Stop \/ SshStop) /\ step = "up"
  <2>1. step = "up" /\ step' = "off" /\ UNCHANGED <<data, staged, hasStaged, marker, progress, before, incoming>>
    BY <1>4 DEF Stop, SshStop, Forgets, files, ghosts
  <2>2. Shown' = None /\ UNCHANGED <<before, Offered>>
    BY <2>1 DEF Shown, Offered, Pending, Asked
  <2>3. QED
    BY <2>2 DEF Switch!Next, Switch!GoDown, Shown
<1>5. CASE NothingToDo \/ (step' = "up" /\ (Note \/ CleanProgress))
  <2>1. step # "up" /\ step' = "up" /\ UNCHANGED data /\ progress' = NoProgress
        /\ before' = data[History] /\ (hasStaged' => marker' = None)
    <3>1. CASE NothingToDo
      BY <3>1 DEF NothingToDo, Startable, Up
    <3>2. CASE Note /\ step' = "up"
      <4>1. phase = "cancelar" /\ step = "note"
        BY <3>2 DEF Note
      <4>2. progress = NoProgress /\ ~hasStaged
        BY <4>1 DEF Control, Ending
      <4>3. QED
        BY <3>2, <4>1, <4>2 DEF Note, Up
    <3>3. CASE CleanProgress /\ step' = "up"
      <4>1. ~hasStaged /\ step = "clean progress"
        BY <3>3 DEF CleanProgress, Control
      <4>2. phase # "cancelar"
        BY <3>3, <4>1 DEF CleanProgress
      <4>3. QED
        BY <3>3, <4>1, <4>2 DEF CleanProgress, Up
    <3>4. QED
      BY <1>5, <3>1, <3>2, <3>3
  <2>2. Shown = None /\ Shown' = before'
    BY <2>1 DEF Shown
  <2>3. Offered' = None
    BY <2>1, FoldersType DEF Offered, Pending, Asked, NoProgress, Phases, Swapping
  <2>4. before' \in {before, Offered} \ {None}
    <3>1. data[History] \in {before, incoming} /\ data[History] \in Version
      BY <1>5, VersionFound
    <3>2. CASE progress = NoProgress
      BY <1>0, <2>1, <3>2, DataVersion, FoldersType DEF Places, AtRest
    <3>3. CASE progress # NoProgress
      BY <2>1, <3>1, <3>3, FoldersType DEF Control, Offered
    <3>4. QED
      BY <3>2, <3>3
  <2>5. QED
    BY <2>2, <2>3, <2>4 DEF Switch!Next, Switch!ComeUp, Shown
<1>6. CASE Extracting \/ (SshStop /\ step # "up") \/ Crash \/ Resume \/ Prepare \/ DropOlder \/ SetAside \/ Begin \/ PrepareFails \/ Move
            \/ MovesEnd \/ Save \/ SaveFails \/ MoveFails \/ Catch \/ CatchFails \/ CleanStaged \/ CleanMarker
            \/ EndFails \/ (step' # "up" /\ (Note \/ CleanProgress))
  <2>1. step # "up" /\ step' # "up" /\ UNCHANGED before
    <3>5. CASE Extracting \/ (SshStop /\ step # "up")
      BY <3>5, ExtractingKeeps DEF SshStop, Forgets, ghosts
    <3>1. CASE Crash \/ EndFails \/ PrepareFails \/ SaveFails \/ MoveFails \/ CatchFails
      BY <3>1 DEF Crash, EndFails, PrepareFails, SaveFails, MoveFails, CatchFails, Forgets, ghosts
    <3>2. CASE Resume \/ Prepare \/ DropOlder \/ SetAside \/ Begin \/ Move \/ MovesEnd \/ Save \/ Catch
      BY <3>2, PhaseTables DEF Resume, Prepare, Startable, DropOlder, SetAside, Begin, Move, MovesEnd, Save, Catch, ghosts
    <3>3. CASE CleanStaged \/ CleanMarker \/ (step' # "up" /\ (Note \/ CleanProgress))
      BY <3>3 DEF CleanStaged, CleanMarker, Note, CleanProgress, Up, ghosts
    <3>4. QED
      BY <1>6, <3>1, <3>2, <3>3, <3>5
  <2>2. QED
    BY <1>2, <2>1
<1>7. CASE RemovalStops
  <2>1. CASE step # "up"
    BY <1>2, <1>7, <2>1 DEF RemovalStops, Forgets, ghosts
  <2>2. CASE step = "up"
    <3>1. /\ step' = "off" /\ progress = NoProgress /\ staged' \in Parts(staged)
          /\ UNCHANGED <<data, hasStaged, marker, progress, before>>
      BY <1>7, <2>2 DEF RemovalStops, Forgets, ghosts
    <3>2. Asked' => staged'[History] = staged[History]
      <4>1. ASSUME Asked' PROVE staged'[History] = staged[History]
        <5>1. Whole(staged)'
          BY <1>7, <3>1, <4>1 DEF RemovalStops, Trouble, Tolerable, Misleads, Asked
        <5>2. staged'[History] \in Version
          BY <5>1, ItemsIs DEF Whole, Movable
        <5>3. staged'[History] \in {None, staged[History]}
          BY <3>1, PartsAre, HistoryType DEF TypeOK
        <5>4. QED
          BY <5>2, <5>3, FoldersType
      <4>2. QED
        BY <4>1
    <3>3. Shown' = None /\ UNCHANGED <<before, Offered>>
      BY <2>2, <3>1, <3>2 DEF Shown, Offered, Pending, Asked, NoProgress, Phases, Swapping
    <3>4. QED
      BY <3>3 DEF Switch!Next, Switch!GoDown, Shown
  <2>3. QED
    BY <2>1, <2>2
<1>8. CASE UNCHANGED vars
  BY <1>1, <1>8 DEF vars, files, ghosts, Shown
<1>9. QED
  BY <1>3, <1>4, <1>5, <1>6, <1>7, <1>8, <1>10 DEF Next, SshStep, Extracting, Stop, BootStep, Troubled

\* Every behaviour of the restore and of the script, with crashes and tolerable failures, is a behaviour of
\* the abstract switch: the services see only the last version or the one offered.
THEOREM SwitchImplemented == ASSUME Tolerable PROVE Spec => SwitchesWhole
<1>1. Init => Switch!Init
  <2>1. ASSUME Init PROVE Switch!Init
    <3>1. data[History] = 0 /\ 0 \in Version
      BY <2>1, DataVersion, FoldersType DEF Init
    <3>2. Offered = None
      BY <2>1, FoldersType DEF Init, Offered, Pending, Asked, NoProgress, Phases, Swapping
    <3>3. QED
      BY <2>1, <3>1, <3>2 DEF Init, Switch!Init
  <2>2. QED
    BY <2>1
<1>2. IInv /\ IInv' /\ [Next]_vars => [Switch!Next]_<<Shown, before, Offered>>
  BY SwitchStep
<1>3. QED
  BY <1>1, <1>2, Invariants, PTL DEF Spec, SwitchesWhole, Switch!Spec, Shown

===============================================================================
