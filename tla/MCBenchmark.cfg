SPECIFICATION BenchSpec
CONSTANTS
  MaxDepth = 30
  MaxTypeHeight = 6
  MaxHeight = 10
  Names <- AllNames
  Values = {}
  MaxNesting = 4
  Fillers <- SomeTypes
  Inputs <- AllInputs
  Contexts <- AllContexts
  PipeRoom = 12
  KnownCompatible <- Known
INVARIANTS TypeOK InferenceSucceeds ContextSafe CostIsCoercions FlowsWellFormed BehaviourPreserved MigrationUnlessAscribed SafeIsCompatible KnownIsCompatible
PROPERTY EveryToolJudged
CHECK_DEADLOCK FALSE
