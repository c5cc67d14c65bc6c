SPECIFICATION Spec
CONSTANTS
  Pods <- TwoPods
  PreStopHook = TRUE
  MaxFaults = 1
INVARIANTS
  TypeOK HooksAreReleased FlushRacesOnce NothingIsLeftBehind
PROPERTIES CleanupSucceeds CollectorsEnd
CHECK_DEADLOCK FALSE
