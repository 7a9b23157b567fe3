SPECIFICATION Spec
CONSTANTS
    handler = handler
    Callers = {handler}
    Codes = {"42703", "57014"}
    Months <- MCMonths
    MaximumRangeDays = 30
    Dimensions <- MCDimensions
    SegmentOf <- MCSegmentOf
    MaximumRows = 3
    Scenarios <- MCScenarios
    Events <- MCEvents
INVARIANTS
    TypeOK
    ClientsReleased
    FirstErrorThrown
    ClaimsCiteEvidence
    SegmentsReconcile
    ConcentrationExplains
    HighConfidenceEarned
    PeriodsComplete
    FunnelOrdered
    RetentionMatured
PROPERTIES
    PromiseSpec
    EveryAnalysisEnds
\* A handler serves one request and ends.
CHECK_DEADLOCK FALSE
