CONSTANTS
  TextAt <- MCTextAt
  NumberAt <- MCNumberAt
  Character <- MCCharacter
  FilterTexts <- MCFilterTexts
  FullNames <- MCFullNames
  Expressions <- MCExpressions
  SearchedTexts <- MCSearchedTexts
  FilterLength = 4
  NameLength = 3
  PathLength = 5
  TextLength = 3
  Elements = 3
  ExponentCount = 8
  FractionCount = 4
  RegexLength = 4
  StringLength = 3
  IntMax = 99
  ClauseCount = 4
  StatementCount = 5
  CourseLength = 4
  ReportingThreads = {1, 2}
  ScopeDepth = 2
  ReportCount = 4
  Mockable <- MCMockable
  MockUse <- MCMockUse
  Behaviors = {0, 3}
  Setters = 2
SPECIFICATION Spec
CHECK_DEADLOCK FALSE
INVARIANTS
  PatternsFindTheirWords
  ListenersTellWhatHappened
  MatchersDoAsTheySay
  EncodedTextsReadBack
  FlagsAreTaken
  ParametersAllRegistered
  ComparisonsDecideAndShow
  StatementsMeanTheirClauses
  RegistryKnowsTheLiving
  ActionsKeepTheirValues
  FailuresReachTheirResult
