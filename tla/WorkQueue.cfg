SPECIFICATION Spec
CONSTANTS
    Items = {1}
    Rank <- MCRank
    Retryable = {1}
    Gated = {}
    Replaceable = {1}
    HasRecovery = TRUE
    Workers = {"w1", "w2"}
    Cycles = {"c1", "c2"}
    Placements <- MCPlacements
    Outcomes <- MCOutcomes
    Leases = {l1, l2, l3}
    None = None
    Old = Old
    MaxTrouble = 1
SYMMETRY MCSymmetry
INVARIANTS TypeOK ExecutedOnce
PROPERTIES TerminalIsFinal WorkIsGoverned
CHECK_DEADLOCK FALSE
