SPECIFICATION Spec
CONSTANTS
  Order <- MCOrder
INVARIANT TornDownInTheEnd
CHECK_DEADLOCK FALSE
