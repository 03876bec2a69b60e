SPECIFICATION Spec
CONSTANTS
    Objectives = {o1}
    Workers = {w1, w2}
    Policy <- MCPolicy
    TriggerSafeMode = {TRUE, FALSE}
    BridgeSetsSuccess = TRUE
    MaxGeneration = 4
    MaxCrashes = 1
SYMMETRY MCSymmetry
INVARIANTS
    TypeOK
    FailureAccounting
    BreakerHolds
    GenerationIsExclusive
    AdmissionStillValid
PROPERTY OnlyTheLeaseWrites
