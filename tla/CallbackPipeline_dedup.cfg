\* Every handler really claims and none outlives the window, but workers die,
\* releases fail and the store raises: processing is once-only.  r4 names a
\* shipment that has no row.
SPECIFICATION Spec
CONSTANTS
    r1 = r1
    r2 = r2
    r3 = r3
    r4 = r4
    s1 = s1
    s2 = s2
    p1 = p1
    p2 = p2
    None = None
    provider = provider
    edgeProxy = edgeProxy
    innerProxy = innerProxy
    garbage = garbage
    blank = blank
    malformed = malformed
    Blank = blank
    Malformed = malformed
    Entry <- MC_Entry
    TrustedProxies <- MC_TrustedProxies
    Claims <- MC_Claims
    Routes <- MC_Routes
    Request = {r1, r2, r4}
    ShipmentId = {s1, s2}
    Stored = {s1}
    Payload = {p1, p2}
    Status <- MC_Status
    Edge <- MC_Edge
    ShipmentOf <- MC_ShipmentOf
    PayloadOf <- MC_PayloadOf
    StatusOf <- MC_StatusOf
    Faults = {"crash", "dedup_raises", "release_error"}
INVARIANTS
    OneProcessorPerPayload
    SuccessRemembered
    TransientFailureQueued
    SourceIsTheClient
    DuplicateHasOriginal
PROPERTIES
    ImplementsOnceOnly
    CommittedClaimSurvives
CHECK_DEADLOCK FALSE
