-------------------------- MODULE SessionHoldersMC --------------------------
(***************************************************************************)
(* The administrator's sessions, with what hangs on them.  The WebSockets   *)
(* are interchangeable.                                                     *)
(***************************************************************************)
EXTENDS SessionHolders, TLC

MCUserOf == [s \in Session |-> "admin"]

Interchangeable == Permutations(Conn) \union Permutations(Session)
=============================================================================
