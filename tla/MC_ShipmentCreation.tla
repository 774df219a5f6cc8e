------------------------ MODULE MC_ShipmentCreation ------------------------
(***************************************************************************)
(* Instances of ShipmentCreation for TLC: k1, k2 and k3 are keyed calls    *)
(* with one reference, p1 a plain create with it; b1, b2 and b3 give no    *)
(* reference, b1 and b2 keyed, b3 plain.                                   *)
(***************************************************************************)
EXTENDS ShipmentCreation, TLC

CONSTANTS k1, k2, k3, p1, b1, b2, b3, order

MC_ReferenceOf == [c \in Caller |-> IF c \in {b1, b2, b3} THEN Blank ELSE order]

\* Keyed calls with one reference can be exchanged.
MC_Symmetry == Permutations({k1, k2, k3}) \cup Permutations({b1, b2})
=============================================================================
