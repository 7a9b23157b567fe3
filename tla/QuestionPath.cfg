SPECIFICATION Spec
CONSTANTS
    ana = ana
    h1 = h1  h2 = h2
    Users = {ana}
    Handlers = {h1, h2}
    Limit = 1
    MaxBuckets = 1
    WindowLength = 2
    TokenLife = 0
    Skew = 1
    Modes = {"store", "embedded", "open"}
    Threshold = 1
    MaxClock = 3
    MaxCount = 2
    MaxTokens = 2
    MaxVersion = 2
SYMMETRY HandlerSymmetry
INVARIANTS
    TypeOK
    AdmittedWithinLimit
    BucketsPurged
    AnswersGoverned
    FreshAnswersAreFresh
PROPERTIES
    RemovedMembersKeptOut
