CONSTANTS
  Registered <- MCRegistered
  SuiteOf <- MCSuiteOf
  FixtureOf <- MCFixtureOf
  DeathSuites = {"CDeathTest"}
  Disabled = {"c2"}
  Environments <- MCEnvironments
  FlagSettings <- MCFlagSettings
  Outcomes <- MCOutcomes
  None = None
SPECIFICATION Spec
CHECK_DEADLOCK FALSE
INVARIANTS
  VerdictCoversAllIterations
  SelectedTestsRunOnce
  FixturesComplete
  ReportsTellTheRun
PROPERTIES
  TornDownInReverse
  Returns
