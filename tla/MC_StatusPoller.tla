--------------------------- MODULE MC_StatusPoller ---------------------------
(***************************************************************************)
(* An instance of StatusPoller for TLC: the oldest shipment is silent.     *)
(***************************************************************************)
EXTENDS StatusPoller

MC_Pending == {"label_ready", "in_transit"}

\* "delivered" stands for every status the task does not select.
MC_Status == MC_Pending \cup {"delivered"}

MC_Progress == {<<"label_ready", "in_transit">>, <<"in_transit", "delivered">>}

\* Moves the tests show to be allowed (test_fsm_integration.py:28-29,
\* test_admin.py:112-130), and staying (test_same_status_transition_is_allowed).
\* A row that has missed "in_transit" cannot catch up.
MC_Edge == MC_Progress \cup {<<s, s>> : s \in MC_Status}
=============================================================================
