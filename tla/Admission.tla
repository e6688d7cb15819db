----------------------------- MODULE Admission -----------------------------
(***************************************************************************)
(* What the gateway promises about inference (README.md:394-412: "the demo *)
(* accepts one request at a time", "enforced by an exact slot lock"):      *)
(* handlers enter one at a time and only when nobody is inside.            *)
(***************************************************************************)
CONSTANT Handlers

VARIABLE inside   \* handlers whose inference has been admitted and not ended

AdmissionInit == inside = {}

Enter(h) == inside = {} /\ inside' = {h}

Leave(h) == h \in inside /\ inside' = inside \ {h}

AdmissionNext == \E h \in Handlers : Enter(h) \/ Leave(h)

AdmissionSpec == AdmissionInit /\ [][AdmissionNext]_inside
=============================================================================
