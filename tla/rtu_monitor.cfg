SPECIFICATION Spec
CONSTANTS
  Queries <- MCQueries
  Tags <- MCTags
  DefaultUnit = 1
  MaxAsks = 3
INVARIANTS TypeOK WrongRegistersNeedAMiss HeardTagsAreGood
CHECK_DEADLOCK FALSE
