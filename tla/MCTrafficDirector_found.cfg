SPECIFICATION Spec
CONSTANT Suites <- OnlyAppNet
INVARIANT LeaksAreFound
CHECK_DEADLOCK FALSE
