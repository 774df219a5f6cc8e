\* Two callbacks commit between the snapshot and the save of a bulk action.
SPECIFICATION Spec
CONSTANTS
    callback = callback
    arrival = arrival
    poll = poll
    form = form
    mark = mark
    delete = delete
    s1 = s1
    s2 = s2
    None = None
    Shipment = {s1, s2}
    Writer = {callback, arrival, mark}
    MaxRetries = 2
    Status <- MC_Status
    Edge <- MC_Moves
    Kind <- MC_Kind
    Selected <- MC_Selected
    New <- MC_New
PROPERTY
    AdminMovesAreLegal
CHECK_DEADLOCK FALSE
