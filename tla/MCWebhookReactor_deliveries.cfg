CONSTANTS
    a = a
    b = b
    e1 = e1
    e2 = e2
    e3 = e3
    sA = sA
    sB = sB
    forged = forged
    empty = empty
    other = other
    NoPath = empty
    Path <- Paths
    Instance = {a, b}
    Event = {e1}
    Secret = {sA, sB, forged}
    SecretOf <- SecretsOf
    Deliveries <- Outcomes
    Request = {r1, r2}
    EmitterWired = TRUE
    TTL = 0
    MaxClock = 1
    MaxRun = 2
SPECIFICATION FairSpec
CONSTRAINT TickOrRestart
ACTION_CONSTRAINT HandlersArePrompt
INVARIANTS
    TypeOK
    AnsweredMeansClaimed
    OnlyAuthenticRelayed
    CountersTellRelayed
PROPERTIES
    RelayPromise
    DeliverySettles
    ClaimSettles
    SweepTerminates
CHECK_DEADLOCK FALSE
