\* One run at a time, some cut short: the background task alone.
SPECIFICATION FairSpec
CONSTANTS
    c1 = c1
    c2 = c2
    Processor = {c1}
    N = 3
    MaxAttempts = 2
    Limit = 2
    MaxAborts = 2
INVARIANTS
    TypeOK
    TriesBounded
PROPERTIES
    SettledIsFinal
    ImplementsLedger
    EveryRowSettles
CHECK_DEADLOCK FALSE
