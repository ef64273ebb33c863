CONSTANT Updates <- MCUpdates
SPECIFICATION Spec
INVARIANT StopDrainsQueue
CHECK_DEADLOCK FALSE
