SPECIFICATION MCSpec
CHECK_DEADLOCK FALSE
CONSTANTS
    Packages = {"core", "leaf"}
    Histories <- MCHistories
    RetainedPins <- MCRetainedPins
    RetainedTools = 1
    Cohort <- MCCohort
    CohortPins <- MCCohortPins
    MaxFaults = 1
    MaxDispatches = 1
    MaxAttempts = 2
INVARIANTS
    LatestIsQualified
    VerdictIsTrue
    CandidateIsTrue
PROPERTIES
    NeverBackwards
    PendingIsReleased
