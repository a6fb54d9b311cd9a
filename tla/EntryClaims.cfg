SPECIFICATION FairEntrySpec
CONSTANTS
    c1 = c1
    c2 = c2
    w1 = w1
    w2 = w2
    i1 = i1
    i2 = i2
    Commands = {c1}
    Workers = {w1, w2}
    Recoveries = {}
    IncidentIds = {i1}
    Roles = {"entry", "protective_stop"}
    LegReports <- MCFewReports
    Positions = {0}
    Quantity = 1
    Loss <- MCLoss
    QualificationLoss = 1
    MaxReservedLoss = 3
    GrantExpiry = 4
    TicketExpiry <- MCTicketExpiry
    EffectiveExpiry <- MCEffectiveExpiry
    Leases = {1}
    PreflightTTL = 2
    RoleTTL = 2
    MaxSkew = 1
    MaxTime = 4
    MaxToken = 3
    NoWorker = NoWorker
    NoCommand = NoCommand
PROPERTIES
    ClaimsLapseBeforeTheyMove
    OnlyFlatEvidenceEndsSent
    UnsentRiskIsReleased
CHECK_DEADLOCK FALSE
