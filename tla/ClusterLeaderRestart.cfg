CONSTANTS
    Nodes = {n1, n2, n3}
    NoNode = NoNode
    VoteAfter = 1
    NodeFailAfter = 1
    MaxTerm = 1
    MaxFaults = 2
SPECIFICATION SpecRestart
SYMMETRY NodeSymmetry
CHECK_DEADLOCK FALSE
INVARIANT NeverWrongLeader
