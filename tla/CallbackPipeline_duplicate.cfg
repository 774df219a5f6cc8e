\* No fault of the server at all: a duplicate is acknowledged while the first
\* delivery, which then fails, is still in flight.
SPECIFICATION Spec
CONSTANTS
    r1 = r1
    r2 = r2
    r3 = r3
    r4 = r4
    s1 = s1
    s2 = s2
    p1 = p1
    p2 = p2
    None = None
    Request = {r1, r2}
    ShipmentId = {s1, s2}
    Stored = {s1}
    Payload = {p1, p2}
    Status <- MC_Status
    Edge <- MC_Edge
    ShipmentOf <- MC_ShipmentOf
    PayloadOf <- MC_PayloadOf
    StatusOf <- MC_StatusOf
    Faults = {}
CHECK_DEADLOCK FALSE
INVARIANT DuplicateIsAccountedFor
