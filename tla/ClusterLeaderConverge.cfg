CONSTANTS
    Nodes = {n1, n2, n3}
    NoNode = NoNode
    VoteAfter = 1
    NodeFailAfter = 1
    MaxTerm = 2
    MaxFaults = 2
SPECIFICATION FairInTurn

CHECK_DEADLOCK FALSE
PROPERTY RingsConverge
