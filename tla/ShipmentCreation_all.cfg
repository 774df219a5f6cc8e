\* Concurrent creates and deletions, with and without a reference.
SPECIFICATION Spec
CONSTANTS
    k1 = k1
    k2 = k2
    k3 = k3
    p1 = p1
    b1 = b1
    b2 = b2
    b3 = b3
    order = order
    Blank = Blank
    None = None
    Caller = {k1, k2, k3, p1, b1, b2, b3}
    Keyed = {k1, k2, k3, b1, b2}
    Reference = {order}
    ReferenceOf <- MC_ReferenceOf
SYMMETRY MC_Symmetry
INVARIANTS
    TypeOK
    SameShipment
    LosersGetTheShipment
PROPERTY
    ImplementsGetOrCreate
CHECK_DEADLOCK FALSE
