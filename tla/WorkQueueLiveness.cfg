SPECIFICATION FairSpec
CONSTANTS
    Items = {1, 2}
    Rank <- MCRank
    Retryable = {1}
    Gated = {1}
    Replaceable = {}
    HasRecovery = FALSE
    Workers = {"w1"}
    Cycles = {"c1"}
    Placements <- MCPlacements
    Outcomes <- MCOutcomes
    Leases = {"l1", "l2"}
    None = None
    Old = Old
    MaxTrouble = 1
PROPERTIES RunningEnds Served
CHECK_DEADLOCK FALSE
