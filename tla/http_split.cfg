CONSTANT Scenarios <- Segmented
SPECIFICATION Spec
INVARIANT NeverBadRequest
CHECK_DEADLOCK FALSE
