CONSTANTS
    i = i
    j = j
    acct = acct
    platform = platform
    u1 = u1
    u2 = u2
    nourl = nourl
    w1 = w1
    w2 = w2
    w3 = w3
    noendpoint = noendpoint
    v1 = v1
    v2 = v2
    unset = unset
    k1 = k1
    k2 = k2
    nokey = nokey
    nobody = nobody
    c1 = c1
    c2 = c2
    Call = {c1, c2, c3}
    Instance = {i, j}
    Account = {}
    Platform = platform
    Url = {u1}
    NoUrl = nourl
    Endpoint = {w1, w2}
    Handmade = {}
    NoEndpoint = noendpoint
    Field = {"metadata"}
    Value = {v1}
    Default = v1
    Unset = unset
    CallerKey = {}
    NoKey = nokey
    Gate = {"sink"}
    Nobody = nobody
    Outside = outside
    Bound <- Unbound
    OptedIn = {i, j}
    Requests <- Copies
    Rotates = TRUE
    MaxGeneration = 2
SPECIFICATION Spec
INVARIANTS
    AttemptUnique
    SecretStaysHome
    ProvisionedIsNew
    ConflictMeansSameAttempt
ACTION_CONSTRAINT NoHandover
SYMMETRY Symmetry
CHECK_DEADLOCK FALSE
