CONSTANTS
    None = None
    Edges <- MCEdges
    Class <- MCClass
    Levels <- MCLevels
    Times <- MCTimes
SPECIFICATION Spec
INVARIANTS
    TypeOK
    LookupSound
    IndexMatchesHeld
