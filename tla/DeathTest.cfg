CONSTANTS
  Site = {"loop", "last"}
  Code = {0, 1, 3}
  Body <- MCBody
  ChildBodies <- MCChildBodies
  Styles = {"windows", "threadsafe", "fast", "unknown"}
  None = None
SPECIFICATION Spec
CHECK_DEADLOCK FALSE
INVARIANTS
  HandlesOutliveStartup
  RunsItsOwnStatement
  OutcomeIsWhatHappened
PROPERTY
  EveryDeathTestConcludes
