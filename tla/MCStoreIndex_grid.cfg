CONSTANTS
    None = None
    Edges <- MCEdges
    Class <- MCClass
    Levels <- MCLevels
    Times <- MCTimes
SPECIFICATION Spec
INVARIANT GridLookupComplete
