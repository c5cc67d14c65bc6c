SPECIFICATION Spec
CONSTANTS
  Order <- MCOrder
INVARIANTS ResourcesAreShared NothingIsLeft SetupFailsForGood
  RestartsAreReported
PROPERTIES SuiteEnds
CHECK_DEADLOCK FALSE
