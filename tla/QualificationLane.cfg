SPECIFICATION QualSpec
CONSTANTS
    Canaries = {k1}
    Closes = {x1}
    Workers = {w1}
    NoWorker = NoWorker
    Size = 2
    ActionTTL = 2
    LeaseTime = 1
    MaxAge = 0
    MaxReserved = 1
    MaxTime = 2
    LastCanary = 0
CHECK_DEADLOCK FALSE
INVARIANTS
    QualTypeOK
    ReservedWhileExposed
    ExposureExact
    OneMutationAtATime
    UnsentWasNeverSent
PROPERTIES
    GrantedOnce
    UnsentCanaryIsFreed
