CONSTANTS
    E1 = E1
    E2 = E2
    X1 = X1
    None = None
    Events <- MCEvents
    EvTs <- MCEvTs
    ExtIds <- MCExtIds
    ExtDs <- MCExtDs
    ExtTs <- MCExtTs
    ExtOrigin = ExtOrigin
    RetTs <- MCRetTs
    WithStop = TRUE
    Shapes <- MCShapes
    Self = "self"
    Peer = "peer"
    Central = "central"
    Route <- MCRoute
    UseCentral = TRUE
    MaxVer = 6
    App <- MCApp
SPECIFICATION Spec
INVARIANTS
    TypeOK
    ConsistentAtRest
    RetractedNotHeld
    IndexAgreesWithDeltas
PROPERTY
    LoopTerminates
CHECK_DEADLOCK FALSE
