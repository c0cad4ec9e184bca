----------------------------- MODULE PanelSwitch -----------------------------
(***************************************************************************)
(* What restoring the panel promises to the services that read its data:   *)
(* whenever the panel is up they see the data of ONE version, whole, and   *)
(* that version is the one of the last time it was up or the one a person  *)
(* offered since.  How many crashes, failed disks and starts it takes to   *)
(* come up again does not show.                                            *)
(***************************************************************************)
CONSTANTS Version,   \* the states of the panel's data: the first and one per backup
          Nothing    \* no version

VARIABLES shown,     \* the version the services read, Nothing while the panel is down
          last,      \* the version of the last time the panel was up
          offered    \* the backup that waits to be put in place

Init ==
    /\ shown \in Version
    /\ last = shown
    /\ offered = Nothing

Offer(v) ==
    /\ offered' = v
    /\ UNCHANGED <<shown, last>>

Forget ==
    /\ offered' = Nothing
    /\ UNCHANGED <<shown, last>>

GoDown ==
    /\ shown' = Nothing
    /\ UNCHANGED <<last, offered>>

\* The only step that changes the version, and only to the one that was offered.
ComeUp ==
    /\ shown = Nothing
    /\ shown' \in {last, offered} \ {Nothing}
    /\ last' = shown'
    /\ offered' = Nothing

Next ==
    \/ \E v \in Version : Offer(v)
    \/ Forget
    \/ GoDown
    \/ ComeUp

Spec == Init /\ [][Next]_<<shown, last, offered>>
=============================================================================
