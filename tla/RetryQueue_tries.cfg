\* Two runs at once replay a row more often than max_attempts.
SPECIFICATION Spec
CONSTANTS
    c1 = c1
    c2 = c2
    Processor = {c1, c2}
    N = 1
    MaxAttempts = 2
    Limit = 1
    MaxAborts = 0
INVARIANT
    TriesBounded
CHECK_DEADLOCK FALSE
