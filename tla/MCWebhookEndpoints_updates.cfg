CONSTANTS
    i = i
    j = j
    acct = acct
    platform = platform
    u1 = u1
    u2 = u2
    nourl = nourl
    w1 = w1
    w2 = w2
    w3 = w3
    noendpoint = noendpoint
    v1 = v1
    v2 = v2
    unset = unset
    k1 = k1
    k2 = k2
    nokey = nokey
    nobody = nobody
    c1 = c1
    c2 = c2
    Call = {c1, c2}
    Instance = {i, j}
    Account = {acct}
    Platform = platform
    Url = {u1, u2}
    NoUrl = nourl
    Endpoint = {w1, w2, w3}
    Handmade = {w3}
    NoEndpoint = noendpoint
    Field = {"metadata"}
    Value = {v1, v2}
    Default = v1
    Unset = unset
    CallerKey = {k1, k2}
    NoKey = nokey
    Gate = {"sink"}
    Nobody = nobody
    Outside = outside
    Bound <- BoundToAcct
    OptedIn = {i, j}
    Requests <- Everything
    Rotates = FALSE
    MaxGeneration = 1
SPECIFICATION FairSpec
INVARIANTS
    TypeOK
    StaysInAccount
    OwnKeySuffices
PROPERTIES
    OnlyOwnersUpdate
    OwnershipKept
    RegistryPromise
    CallsEnd
CONSTRAINT Related
ACTION_CONSTRAINT OthersMeetCalls
CHECK_DEADLOCK FALSE
