SPECIFICATION Spec
CONSTANT Suites <- All
INVARIANTS
  TypeOK ForcedCleanupRemoves LeaksAreExplained IdentityOutlivesWorkload
  RunsAreRecorded
PROPERTIES NothingForgotten TearDownEnds
CHECK_DEADLOCK FALSE
