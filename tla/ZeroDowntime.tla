---------------------------- MODULE ZeroDowntime ----------------------------
(***************************************************************************)
(* What a zero-downtime swap promises to the visitors of a site, without   *)
(* containers, aliases or a proxy: `seen` is the set of versions a new     *)
(* visitor may reach.  Once published, a site moves from one version to    *)
(* another through a moment in which both answer, or back the same way: it *)
(* never jumps.  It may go dark, which is how a rollback that removes the  *)
(* new version first looks from outside.                                   *)
(***************************************************************************)
VARIABLE seen

One == \E v \in seen : seen = {v}
Two == \E v, w \in seen : v # w /\ seen = {v, w}

Init == seen = {}

Appear  == seen = {} /\ One'
Overlap == One /\ Two' /\ seen \subseteq seen'
Narrow  == Two /\ One' /\ seen' \subseteq seen
Dark    == One /\ seen' = {}

Next == Appear \/ Overlap \/ Narrow \/ Dark

Spec == Init /\ [][Next]_seen
=============================================================================
