SPECIFICATION LaneSpec
CONSTANTS
    r1 = r1
    r2 = r2
    r3 = r3
    r4 = r4
    w1 = w1
    w2 = w2
    i1 = i1
    ambiguity = ambiguity
    Recoveries = {r1, r2}
    Incidents = {ambiguity, i1}
    Ambiguity = ambiguity
    Workers = {w1, w2}
    Positions = {0, 1}
    Leases = {1}
    PermitTTL = 1
    MaxSkew = 0
    MaxTime = 2
    MaxToken = 9
    OriginalExpiry = 1
    Settlement = 1
    MaxEvidenceAge = 0
    MaxFailures = 0
    LastFailure = 2
    NoWorker = NoWorker
    NoIncident = NoIncident
    NoRecovery = NoRecovery
SYMMETRY MCSymmetry
INVARIANTS
    RecoveryTypeOK
    OneFencePerNonce
    FencedBeforeOtherActions
PROPERTIES
    ClosedStaysClosed
    RecoveryPassesWhileAlive
    ImplementsOneShot
CHECK_DEADLOCK FALSE
