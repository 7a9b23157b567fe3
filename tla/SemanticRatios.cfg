SPECIFICATION Spec
CONSTANTS
    m1 = m1  m2 = m2  m3 = m3
    user = user
    editor = editor  approver = approver
    r1 = r1  r2 = r2
    Metrics = {m1, m2, m3}
    Entities = {user}
    Drafts <- RatioDrafts
    Asked <- SecondVersions
    Actors = {editor, approver}
    Memberships <- FixedRoles
    Requests = {r1}
    MaxVersion = 2
    MaxRevision = 11
    MaxClock = 2
    MaxReform = 0
    MaxSkew = 0
INVARIANT ActiveVersionsCompile
CHECK_DEADLOCK FALSE
