CONSTANTS
    None = None
    Edges <- MCOpenEdges
    Class <- MCClass
    Levels <- MCLevels
    Times <- MCTimes
SPECIFICATION Spec
INVARIANT TraversalComplete
