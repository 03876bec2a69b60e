SPECIFICATION Spec
CONSTANTS
    Warrants = {w1, w2}
    Genesis = Genesis
    Calls = {c1, c2}
    MaxChain = 5
    MaxAnchors = 1
SYMMETRY MCSymmetry
INVARIANTS TypeOK ChainVerifies AnchorsHold ChainedIsSaved ProofsVerify
CHECK_DEADLOCK FALSE
