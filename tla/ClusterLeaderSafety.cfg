CONSTANTS
    Nodes = {n1, n2, n3}
    NoNode = NoNode
    VoteAfter = 2
    NodeFailAfter = 1
    MaxTerm = 2
    MaxFaults = 1
SPECIFICATION Spec
SYMMETRY NodeSymmetry
CONSTRAINT OneCheckWaits
CHECK_DEADLOCK FALSE
INVARIANTS OneLeaderPerTerm NeverWrongLeader
PROPERTY DeposedByHigherTerm
