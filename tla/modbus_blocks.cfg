SPECIFICATION Spec
CONSTANTS
  Functions = {"holding_register", "coil"}
  MaxGap = 1
  Limit <- MCLimit
  DefaultUnit = 1
  Names = {"a", "b", "c"}
  TagLists <- MCTagLists
INVARIANTS TypeOK PlanCoversTags PlanIsFrugal TagsGetTheirOwnItems
CHECK_DEADLOCK FALSE
