SPECIFICATION Spec
CONSTANTS
  MaxDepth = 60
  MaxTypeHeight = 6
  MaxHeight = 12
  Names <- AllNames
  Values <- AllValues
  Suites <- AllSuites
  Submissions <- Decorated
  Unit = 120
PROPERTY EquallyPreciseIsGraded
CHECK_DEADLOCK FALSE
