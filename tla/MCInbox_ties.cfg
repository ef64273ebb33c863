CONSTANT Updates <- MCUpdates
SPECIFICATION Spec
PROPERTY TiesInInsertionOrder
CHECK_DEADLOCK FALSE
