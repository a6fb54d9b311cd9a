SPECIFICATION NonceSpec
CONSTANTS
    r1 = r1
    r2 = r2
    q1 = q1
    q2 = q2
    q3 = q3
    place = place
    close = close
    a1 = a1
    a2 = a2
    Calls = {r1, r2, q1, q2, q3}
    Plain = {r1, r2}
    Phases = {place, close}
    Authorities = {a1, a2}
    Phase <- MCPhase
    Authority <- MCAuthority
    Issued <- MCIssued
    ExpiresAfter <- MCExpiresAfter
    Instants = {0, 1, 3}
    MaxFutureDrift = 1
INVARIANTS
    NoncesUnique
    OneNoncePerPhase
    ReservationsBelowWatermark
CHECK_DEADLOCK FALSE
