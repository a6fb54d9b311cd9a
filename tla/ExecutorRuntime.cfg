\* Two processes and one takeover: the second process can go all the way to a
\* send while the first is held up anywhere.
SPECIFICATION ExecutorSpec
CONSTANTS
    Instances = {i1, i2}
    Reasons = {"internal_error"}
    Durations = {1}
    LeaseSeconds = 1
    MaxDrainSteps = 1
    MaxSkew = 0
    MaxTime = 1
    MaxStarts = 2
    NoInstance = NoInstance
    NoReason = NoReason
VIEW WithoutRevision
CHECK_DEADLOCK FALSE
INVARIANT ExecutorTypeOK
INVARIANT RowReadable
INVARIANT ReadyWasReconciled
PROPERTY HaltOutlivesOwners
PROPERTY RuntimeMovesWhenLapsed
PROPERTY SendsUnderOwnAuthority
PROPERTY StopEndsProcess
