------------------------ MODULE MC_ShipmentWriters ------------------------
(***************************************************************************)
(* Instances of ShipmentWriters for TLC: a callback, a poll, a change form *)
(* and a deletion about s1, a second callback that says it has arrived,    *)
(* and a bulk action on s1 and s2.                                         *)
(***************************************************************************)
EXTENDS ShipmentWriters, TLC

CONSTANTS callback, arrival, poll, form, mark, delete, s1, s2

MC_Status == {"label_ready", "in_transit", "delivered"}

\* Moves the tests show to be allowed (test_fsm_integration.py:28-29,
\* test_admin.py:112-130).
MC_Moves == {<<"label_ready", "in_transit">>, <<"in_transit", "delivered">>}

\* And staying (test_same_status_transition_is_allowed).
MC_Edge == MC_Moves \cup {<<s, s>> : s \in MC_Status}

MC_Kind ==
    [w \in Writer |->
        CASE w \in {callback, arrival} -> "callback"
          [] w = poll -> "poll"
          [] w = form -> "form"
          [] w = mark -> "admin"
          [] w = delete -> "delete"]

MC_Selected == [w \in Writer |-> IF w = mark THEN {s1, s2} ELSE {s1}]

\* The provider may answer one attempt of the poll so, and the next otherwise.
MC_New ==
    [w \in Writer |->
        CASE w \in {callback, form, mark} -> {"in_transit"}
          [] w = arrival -> {"delivered"}
          [] w = poll -> {"in_transit", "delivered"}
          [] w = delete -> {}]
=============================================================================
