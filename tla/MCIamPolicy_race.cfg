SPECIFICATION Spec
CONSTANTS
  j1 = j1  j2 = j2  m1 = m1  m2 = m2  wiUser = wiUser  none = none  cond = cond
  Jobs = {j1, j2}
  Roles = {wiUser}
  Members = {m1, m2}
  Conditions = {none, cond}
  NoCondition = none
  None = None
  ApiAttempts = 1
  MaxRounds = 2
  MaxCalls = 1
  MaxOutside = 1
SYMMETRY MCSymmetry
INVARIANTS UniqueBindings WritesAreFresh
PROPERTIES IsAtomicUpdate
CHECK_DEADLOCK FALSE
