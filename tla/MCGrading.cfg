SPECIFICATION Spec
CONSTANTS
  MaxDepth = 60
  MaxTypeHeight = 6
  MaxHeight = 12
  Names <- AllNames
  Values <- AllValues
  Suites <- AllSuites
  Submissions <- Decorated
  Unit = 120
INVARIANTS TypeOK OnlyCastsFail StaticGuarantee GradualGuarantee PrecisionIsDistance CarefulToolsEarn
CHECK_DEADLOCK FALSE
