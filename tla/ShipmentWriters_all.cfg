\* A callback, a poll, a form, a deletion and a bulk action about the same row.
SPECIFICATION FairSpec
CONSTANTS
    callback = callback
    arrival = arrival
    poll = poll
    form = form
    mark = mark
    delete = delete
    s1 = s1
    s2 = s2
    None = None
    Shipment = {s1, s2}
    Writer = {callback, poll, form, mark, delete}
    MaxRetries = 2
    Status <- MC_Status
    Edge <- MC_Edge
    Kind <- MC_Kind
    Selected <- MC_Selected
    New <- MC_New
INVARIANTS
    TypeOK
    CallbackIsIsolated
PROPERTIES
    CallbackMovesAreLegal
    CheckedWritesFollowMoves
    DeletionIsFinal
    ImplementsAtomicCallbacks
    WritersFinish
CHECK_DEADLOCK FALSE
