\* One claim is skipped: its handler's release deletes the claim of the other.
SPECIFICATION Spec
CONSTANTS
    r1 = r1
    r2 = r2
    r3 = r3
    r4 = r4
    s1 = s1
    s2 = s2
    p1 = p1
    p2 = p2
    None = None
    Request = {r1, r2}
    ShipmentId = {s1, s2}
    Stored = {s1}
    Payload = {p1, p2}
    Status <- MC_Status
    Edge <- MC_Edge
    ShipmentOf <- MC_ShipmentOf
    PayloadOf <- MC_PayloadOf
    StatusOf <- MC_StatusOf
    Faults = {"dedup_error"}
CHECK_DEADLOCK FALSE
PROPERTY CommittedClaimSurvives
