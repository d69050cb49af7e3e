CONSTANTS
    a = a
    b = b
    e1 = e1
    e2 = e2
    e3 = e3
    sA = sA
    sB = sB
    forged = forged
    empty = empty
    other = other
    NoPath = empty
    Path <- Paths
    Instance = {a}
    Event = {e1}
    Secret = {sA, sB, forged}
    SecretOf <- SecretOfA
    Deliveries <- OneEvent
    Request = {r1}
    EmitterWired = FALSE
    TTL = 1
    MaxClock = 0
    MaxRun = 1
SPECIFICATION FairSpec
PROPERTIES
    ClaimSettles
CHECK_DEADLOCK FALSE
