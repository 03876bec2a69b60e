SPECIFICATION FairSpec
CONSTANTS
    Objectives = {o1}
    Workers = {w1, w2}
    Policy <- MCPolicyMissing
    TriggerSafeMode = {FALSE}
    BridgeSetsSuccess = TRUE
    MaxGeneration = 2
    MaxCrashes = 2
PROPERTY LeaseIsBounded
