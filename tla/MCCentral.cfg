CONSTANTS
    Packages <- MCPackages
    TS <- MCTS
    Faulty = TRUE
SPECIFICATION DSpec
INVARIANTS
    TypeOK
    RetractedNeverStored
    ExitOkOnlyIfDelivered
PROPERTY
    CentralConvergesToArrived
    ShutdownCompletes
CHECK_DEADLOCK FALSE
