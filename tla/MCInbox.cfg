CONSTANT Updates <- MCUpdates
SPECIFICATION Spec
INVARIANTS
    TypeOK
    Conservation
PROPERTY
    QueuedEventuallyPopped
CHECK_DEADLOCK FALSE
