SPECIFICATION Spec
CONSTANT Suites <- OnlyFirewalls
INVARIANT InterruptedCreateIsCleaned
CHECK_DEADLOCK FALSE
