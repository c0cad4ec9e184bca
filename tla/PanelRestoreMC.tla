--------------------------- MODULE PanelRestoreMC ---------------------------
(***************************************************************************)
(* A small installation: the history and a directory that every version    *)
(* has, a file every version has, one only the even versions have, one     *)
(* only the odd ones have, a preserved name and one of ARCHIVE_EXTRAS.      *)
(***************************************************************************)
EXTENDS PanelRestore

CONSTANTS history, mail, keys, users, secrets, token, readme

MCHas == [v \in Version |-> {history, mail, keys} \union (IF v % 2 = 1 THEN {secrets} ELSE {users})]
=============================================================================
