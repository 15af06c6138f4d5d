CONSTANT Scenarios <- Slow
SPECIFICATION Spec
INVARIANT AnswersInTurn
CHECK_DEADLOCK FALSE
