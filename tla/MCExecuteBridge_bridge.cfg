CONSTANTS
    acct = acct
    other = other
    platform = platform
    creds = creds
    nocreds = nocreds
    absent = absent
    secret = secret
    payload = payload
    garbage = garbage
    Reader = {c1}
    Scope = {platform, acct}
    DefaultLimit = 1
    MaxLimit = 2
    MaxId = 3
    Half = 8
    NotANumber = garbage
    Now = {1, 2}
    DefaultTolerance = 3
    Listed <- File
    FromFile = TRUE
    EnvId = 0
    Platform = platform
    NoCreds = nocreds
    Absent = absent
    Untrimmed <- Blanks
    Requests <- All
SPECIFICATION FairSpec
INVARIANTS
    TypeOK
    OnceEach
    MoreIsTrue
    ActsForItsInstance
    OneDispatcher
    AnswersHold
    ProvisionRedacted
    CatalogueServed
    ValidIffGenuine
PROPERTIES
    TwoPagesAtMost
    CallAnswered
CHECK_DEADLOCK FALSE
