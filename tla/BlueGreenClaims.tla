--------------------------- MODULE BlueGreenClaims ---------------------------
(***************************************************************************)
(* What comments and documents of the repository say of the swap and the   *)
(* code does not keep.  Each is checked alone, by a run that is expected   *)
(* to find the counterexample told in PROJECT.json "findings".             *)
(***************************************************************************)
EXTENDS BlueGreen

\* "nunca deixa o site sem container atendendo" (recoverSwap and its document):
\* no step of the boot's recovery takes from visitors what answered them.
BootNeverCuts ==
    [][pc = "recover" /\ job.caller = "boot" /\ Online /\ Reached # {} => Reached' # {}]_vars

\* "o mapa é solto no começo do próximo deploy": no temporary upstream outlives
\* the next deploy.
MapReleased == pc \in {"proxy", "health", "finish"} => swapUpstream = NoAlias

\* "`down`: não há container rodando e não há anterior para religar"
\* (recoverInterruptedDeploy): the published version is really gone.
DownIsTrue ==
    [][pc = "boot_main" /\ pc' = "bootsave" /\ ~Alive
         => \A n \in Names : disk.published # 0 => ctr[n].ver # disk.published]_vars
=============================================================================
