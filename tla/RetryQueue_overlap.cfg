\* Two runs at once: the background task and the management command.
SPECIFICATION FairSpec
CONSTANTS
    c1 = c1
    c2 = c2
    Processor = {c1, c2}
    N = 2
    MaxAttempts = 2
    Limit = 1
    MaxAborts = 0
INVARIANTS
    SucceededWasApplied
    NotGivenUpEarly
PROPERTIES
    EveryRowSettles
CHECK_DEADLOCK FALSE
