SPECIFICATION Spec
CONSTANT Suites <- All
INVARIANTS
  TypeOK DeletionByNameIsComplete RoutingLeaksAreFound LeaksAreExplained
PROPERTIES ForeignFirewallKept EventuallyCleaned
CHECK_DEADLOCK FALSE
