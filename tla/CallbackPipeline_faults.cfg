\* Every fault at once, two deliveries of one payload and one of another for the
\* same shipment: what must hold whatever goes wrong.
SPECIFICATION Spec
CONSTANTS
    r1 = r1
    r2 = r2
    r3 = r3
    r4 = r4
    s1 = s1
    s2 = s2
    p1 = p1
    p2 = p2
    None = None
    Request = {r1, r2, r3}
    ShipmentId = {s1, s2}
    Stored = {s1}
    Payload = {p1, p2}
    Status <- MC_Status
    Edge <- MC_Edge
    ShipmentOf <- MC_ShipmentOf
    PayloadOf <- MC_PayloadOf
    StatusOf <- MC_StatusOf
    Faults = {"crash", "dedup_error", "dedup_raises", "release_error", "store_error", "slow"}
INVARIANTS
    TypeOK
    DecidesOnCurrentRow
    OnlyAppliedShows
PROPERTIES
    LegalTransitions
SYMMETRY MC_Symmetry
CHECK_DEADLOCK FALSE
