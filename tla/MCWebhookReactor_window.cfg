CONSTANTS
    a = a
    b = b
    e1 = e1
    e2 = e2
    e3 = e3
    sA = sA
    sB = sB
    forged = forged
    empty = empty
    other = other
    NoPath = empty
    Path <- Paths
    Instance = {a}
    Event = {e1, e2}
    Secret = {sA, sB, forged}
    SecretOf <- SecretOfA
    Deliveries <- TwoEvents
    Request = {r1, r2, r3, r4}
    EmitterWired = FALSE
    TTL = 0
    MaxClock = 2
    MaxRun = 1
SPECIFICATION Spec
SYMMETRY RequestsAndEvents
CONSTRAINT Running
ACTION_CONSTRAINT HandlersArePrompt
INVARIANTS
    FirstWindowHonoured
    WindowUnlessSweepsRace
    SweepLeavesNoExpired
CHECK_DEADLOCK FALSE
