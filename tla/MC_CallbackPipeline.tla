------------------------ MODULE MC_CallbackPipeline ------------------------
(***************************************************************************)
(* Instances of CallbackPipeline for TLC.  r1 and r2 deliver one payload   *)
(* for shipment s1, r3 delivers another one for s1, and r4 names a         *)
(* shipment without a row.                                                 *)
(***************************************************************************)
EXTENDS CallbackPipeline, TLC

CONSTANTS r1, r2, r3, r4, s1, s2, p1, p2

MC_ShipmentOf == [r \in Request |-> IF r = r4 THEN s2 ELSE s1]
MC_PayloadOf == [r \in Request |-> IF r = r3 THEN p2 ELSE p1]

MC_Status == {"label_ready", "in_transit", "delivered"}

MC_StatusOf == (p1 :> "in_transit") @@ (p2 :> "delivered")

\* The part of the core library's state machine between these statuses; a
\* repeated report of the current status is accepted.
MC_Edge ==
    {<<"label_ready", "in_transit">>, <<"in_transit", "delivered">>}
        \cup {<<s, s>> : s \in MC_Status}

\* The two deliveries of one payload can be exchanged.
MC_Symmetry == Permutations({r1, r2})
=============================================================================
