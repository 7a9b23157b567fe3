SPECIFICATION Spec
CONSTANTS
    revenue = revenue  signups = signups
    mail = mail  slack = slack
    i1 = i1  i2 = i2
    Rules = {revenue}
    RuleRecords <- Switched
    Destinations = {mail}
    Invocations = {i1}
    Batch = 2
    Fragile = {revenue}
    Aborts = TRUE
    MaxHour = 3
INVARIANTS
    AlertsSpaced
