CONSTANTS
    i = i
    j = j
    acct = acct
    platform = platform
    o1 = o1
    o2 = o2
    customer = customer
    intent = intent
    subscription = subscription
    noobject = noobject
    k1 = k1
    nokey = nokey
    Call = {c1}
    Instance = {i, j}
    Account = {acct}
    Platform = platform
    Object = {o1, o2, customer, intent, subscription}
    NoObject = noobject
    Standing <- Older
    Outside = outside
    Touched = {}
    CallerKey = {k1}
    NoKey = nokey
    Bound <- BoundToAcct
    Requests <- Orders
SPECIFICATION Spec
INVARIANTS
    DocumentedInputsHeeded
CHECK_DEADLOCK FALSE
