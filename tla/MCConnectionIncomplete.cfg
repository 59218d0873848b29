SPECIFICATION Spec
CONSTANT MaxRequests = 1
INVARIANT IncompleteRetained
CHECK_DEADLOCK FALSE
