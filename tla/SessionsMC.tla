----------------------------- MODULE SessionsMC -----------------------------
(***************************************************************************)
(* Two accounts: the administrator's two sessions and one of another       *)
(* account.                                                                 *)
(***************************************************************************)
EXTENDS Sessions

CONSTANTS s1, s2, s3

MCUserOf == [s \in Session |-> IF s = s3 THEN "other" ELSE "admin"]
=============================================================================
