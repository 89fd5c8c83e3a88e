CONSTANTS
  Thread = {main, w1, w2}
  Main = main
  Id = {i1, i2}
  Local = {l1}
  MaxGets = 2
  MaxGen = 1
  None = None
SPECIFICATION Spec
CHECK_DEADLOCK FALSE
INVARIANTS
  MutexExcludes
  ValuesHaveOneOwner
PROPERTIES
  ExitedThreadsLeaveNothing
