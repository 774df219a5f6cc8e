------------------------- MODULE OnceOnlyCallbacks -------------------------
(***************************************************************************)
(* What the webhook endpoint promises, with no threads, no locks and no    *)
(* tables: every delivery of a callback gets one verdict, a payload that   *)
(* took effect does not take effect again while it is remembered, and the  *)
(* status of a shipment only moves along an edge of the state machine.     *)
(* CallbackPipeline implements this module (PROPERTY OnceOnly).            *)
(***************************************************************************)
EXTENDS Integers

CONSTANTS
    Request,      \* deliveries of a callback
    Stored,       \* shipments that exist
    Status,       \* statuses of a shipment
    Edge,         \* legal moves of the status
    ShipmentOf,   \* the shipment a delivery names
    PayloadOf,    \* the payload a delivery carries
    StatusOf      \* the status a payload reports

VARIABLES
    status,       \* the status of every stored shipment
    verdict,      \* what became of each delivery
    remembered    \* the (shipment, payload) pairs that took effect lately

vars == <<status, verdict, remembered>>

Key(r) == <<ShipmentOf[r], PayloadOf[r]>>

Init ==
    /\ status \in [Stored -> Status]
    /\ verdict = [r \in Request |-> "none"]
    /\ remembered = {}

\* The payload takes effect: once, and along an edge.
Apply(r) ==
    LET s == ShipmentOf[r]
        new == StatusOf[PayloadOf[r]]
    IN  /\ verdict[r] = "none"
        /\ s \in Stored
        /\ Key(r) \notin remembered
        /\ <<status[s], new>> \in Edge
        /\ status' = [status EXCEPT ![s] = new]
        /\ verdict' = [verdict EXCEPT ![r] = "applied"]
        /\ remembered' = remembered \cup {Key(r)}

\* The delivery has no effect at all.
Decline(r) ==
    /\ verdict[r] = "none"
    /\ verdict' = [verdict EXCEPT ![r] = "declined"]
    /\ UNCHANGED <<status, remembered>>

\* The window of some payloads has passed.
Forget(K) ==
    /\ remembered' = remembered \ K
    /\ UNCHANGED <<status, verdict>>

Next ==
    \/ \E r \in Request : Apply(r) \/ Decline(r)
    \/ \E K \in SUBSET remembered : Forget(K)

Spec == Init /\ [][Next]_vars
=============================================================================
