SPECIFICATION Spec
CONSTANTS
    m1 = m1  m2 = m2  m3 = m3
    user = user
    editor = editor  approver = approver
    r1 = r1  r2 = r2
    Metrics = {m1, m2, m3}
    Entities = {user}
    Drafts <- RatioDrafts
    Asked <- SecondVersions
    Actors = {editor, approver}
    Memberships <- PromotedEditor
    Requests = {r1, r2}
    MaxVersion = 2
    MaxRevision = 7
    MaxClock = 2
    MaxReform = 4
    MaxSkew = 0
SYMMETRY RequestSymmetry
INVARIANTS
    TypeOK
    OneActiveVersion
    NoLostUpdate
    AuditExplainsStatus
    RunsChronological
PROPERTIES
    RoleChangesBind
    HistoryKept
    VerifiedOnLatestRun
    RunsFitCatalog
    RegistrySpec
CHECK_DEADLOCK FALSE
