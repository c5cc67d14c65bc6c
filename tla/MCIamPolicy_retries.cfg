SPECIFICATION Spec
CONSTANTS
  j1 = j1  j2 = j2  m1 = m1  m2 = m2  wiUser = wiUser  none = none  cond = cond
  Jobs = {j1}
  Roles = {wiUser}
  Members = {m1, m2}
  Conditions = {none}
  NoCondition = none
  None = None
  ApiAttempts = 2
  MaxRounds = 2
  MaxCalls = 2
  MaxOutside = 1
INVARIANTS ReturnedIsFenced
PROPERTIES CallsReturn
CHECK_DEADLOCK FALSE
