SPECIFICATION HourlySpec
CONSTANTS
    revenue = revenue  signups = signups
    mail = mail  slack = slack
    i1 = i1  i2 = i2
    Rules = {revenue, signups}
    RuleRecords <- Staggered
    Destinations = {mail}
    Invocations = {i1}
    Batch = 1
    Fragile = {}
    Aborts = FALSE
    MaxHour = 1
PROPERTY
    EveryRuleClaimed
