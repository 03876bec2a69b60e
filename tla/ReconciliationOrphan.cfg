SPECIFICATION FairSpec
CONSTANTS
    Objectives = {o1}
    Workers = {w1}
    Policy <- MCPolicy
    TriggerSafeMode = {FALSE}
    BridgeSetsSuccess = TRUE
    MaxGeneration = 2
    MaxCrashes = 1
PROPERTY AdmissionIsBounded
