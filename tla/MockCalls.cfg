CONSTANTS
  Thread = {t1, t2}
  Objects <- MCObjects
  Owned = {"second"}
  Argument = {1, 2}
  Declared <- MCDeclared
  Reaction = "kFail"
  Sequence = {"s", "r"}
  ClearingActions <- MCClearing
  Unbounded = 99
  MaxCalls = 5
  None = None
SPECIFICATION Spec
CHECK_DEADLOCK FALSE
INVARIANTS
  SequencesRespected
  EachActionOnce
  ErrorsAreReported
PROPERTY
  CallsReturn
