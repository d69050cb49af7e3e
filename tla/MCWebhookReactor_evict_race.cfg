CONSTANTS
    a = a
    b = b
    e1 = e1
    e2 = e2
    e3 = e3
    sA = sA
    sB = sB
    forged = forged
    empty = empty
    other = other
    NoPath = empty
    Path <- Paths
    Instance = {a}
    Event = {e1, e2, e3}
    Secret = {sA, sB, forged}
    SecretOf <- SecretOfA
    Deliveries <- ThreeEvents
    Request = {r1, r2, r3, r4, r5}
    EmitterWired = FALSE
    TTL = 0
    MaxClock = 1
    MaxRun = 1
SPECIFICATION Spec
SYMMETRY Symmetry
CONSTRAINT OneHandlerAtATime
ACTION_CONSTRAINT GoroutinesArePrompt
INVARIANTS
    WindowHonoured
CHECK_DEADLOCK FALSE
