CONSTANT Scenarios <- Varied
SPECIFICATION FairSpec
INVARIANTS IInv RightAnswers OwnAnswers ErrorIsLast LinePerAnswer MethodAssigned
PROPERTY AllAnswered
CHECK_DEADLOCK FALSE
