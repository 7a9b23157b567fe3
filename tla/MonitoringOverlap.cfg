SPECIFICATION Spec
CONSTANTS
    revenue = revenue  signups = signups
    mail = mail  slack = slack
    i1 = i1  i2 = i2
    Rules = {revenue}
    RuleRecords <- Edited
    Destinations = {mail}
    Invocations = {i1, i2}
    Batch = 2
    Fragile = {}
    Aborts = TRUE
    MaxHour = 1
SYMMETRY InvocationSymmetry
INVARIANTS
    TypeOK
    AttemptsBounded
    DeliveriesTrue
PROPERTIES
    LedgerSpec
