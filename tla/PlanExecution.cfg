SPECIFICATION FairSpec
CONSTANTS
    p1 = p1
    p2 = p2
    t1 = t1
    t2 = t2
    Plans = {p1, p2}
    Targets = {t1, t2}
    Nobody = Nobody
    Steps <- MCSteps
    LockBuffer = 2
    Approvals = {TRUE, FALSE}
    HasLedger = FALSE
    MaxCrashes = 1
INVARIANTS
    TypeOK
    WorkIsLocked
    LocksReturned
    DependenciesHold
    AbortEndsThePlan
    OutcomeIsDecided
PROPERTIES
    TargetsAreExclusive
    PlanEnds
