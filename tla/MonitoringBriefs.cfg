SPECIFICATION AnsweringSpec
CONSTANTS
    revenue = revenue  signups = signups
    mail = mail  slack = slack
    i1 = i1  i2 = i2
    Rules = {revenue, signups}
    RuleRecords <- Hourly
    Destinations = {mail}
    Invocations = {i1}
    Batch = 2
    Fragile = {revenue}
    Aborts = FALSE
    MaxHour = 1
PROPERTY
    EveryRunBriefed
