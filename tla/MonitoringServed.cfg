SPECIFICATION FairSpec
CONSTANTS
    revenue = revenue  signups = signups
    mail = mail  slack = slack
    i1 = i1  i2 = i2
    Rules = {revenue, signups}
    RuleRecords <- Hourly
    Destinations = {mail}
    Invocations = {i1, i2}
    Batch = 2
    Fragile = {}
    Aborts = FALSE
    MaxHour = 0
PROPERTIES
    EveryDueRuleEvaluated
