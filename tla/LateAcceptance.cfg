SPECIFICATION DispatchSpec
CONSTANTS
    c1 = c1
    w1 = w1
    w2 = w2
    i1 = i1
    i2 = i2
    Commands = {c1}
    Workers = {w1, w2}
    Recoveries = {}
    IncidentIds = {i1, i2}
    Roles = {"entry", "protective_stop"}
    LegReports <- MCLegReports
    VenueReports <- MCVenueReports
    Positions = {0, 1}
    Quantity = 1
    Loss <- MCLoss
    QualificationLoss = 1
    MaxReservedLoss = 1
    GrantExpiry = 4
    TicketExpiry <- MCExpiry
    EffectiveExpiry <- MCExpiry
    Leases = {2}
    PreflightTTL = 2
    RoleTTL = 2
    MaxEvidenceAge = 1
    MaxSkew = 0
    MaxTime = 3
    MaxToken = 3
    NoWorker = NoWorker
    NoCommand = NoCommand
SYMMETRY MCSymmetry
INVARIANTS
    OutcomeIsReconcilable
CHECK_DEADLOCK FALSE
