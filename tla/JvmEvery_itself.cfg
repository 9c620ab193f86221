SPECIFICATION EverySpec
CONSTANTS
  Every = {"e1","e2"}
  Interval = 1
  MaxClock = 2
  Late = {"e2"}
  Stoppable = {"e2"}
  Counted = {"e1"}
  MaxEvents = 2
  MaxSet = 1
INVARIANT RunsNoMoreThanSetByItself
CHECK_DEADLOCK FALSE
