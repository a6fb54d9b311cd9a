SPECIFICATION EntrySpec
CONSTANTS
    c1 = c1
    c2 = c2
    w1 = w1
    w2 = w2
    i1 = i1
    i2 = i2
    Commands = {c1, c2}
    Workers = {w1}
    Recoveries = {}
    IncidentIds = {i1}
    Roles = {"entry", "protective_stop"}
    LegReports <- MCPartialReports
    Positions <- MCPositions
    Quantity = 2
    Loss <- MCLoss
    QualificationLoss = 1
    MaxReservedLoss = 3
    GrantExpiry = 4
    TicketExpiry <- MCTicketExpiry
    EffectiveExpiry <- MCEffectiveExpiry
    Leases = {1}
    PreflightTTL = 1
    RoleTTL = 1
    MaxSkew = 0
    MaxTime = 2
    MaxToken = 2
    NoWorker = NoWorker
    NoCommand = NoCommand
SYMMETRY MCSymmetry
INVARIANTS
    RowsAgree
    OneNonterminalCommand
    ReservationExact
    AttemptBelongsToClaim
    AuthorizedIsNeverUnsent
    BadProtectionHalts
PROPERTIES
    HaltLiftsOnlyFlat
CHECK_DEADLOCK FALSE
