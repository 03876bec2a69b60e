SPECIFICATION Spec
CONSTANTS
    Actions <- MCActions
    Wildcard = "*"
    MaxAmount = 1
    Roots <- MCRoots
    Requests <- MCRequests
    Calls = {c1, c2}
    MaxDelegationDepth = 3
    MaxWarrants = 4
    MaxTime = 2
SYMMETRY MCSymmetry
INVARIANTS TypeOK AuthorityOnlyShrinks ExpiryIsInherited CascadeReaches
CHECK_DEADLOCK FALSE
