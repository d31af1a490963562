\* Any write may raise, and events are logged until after the stop.
CONSTANTS
  MaxEvents = 5
  WriteErrors = TRUE
SPECIFICATION FairSpec
INVARIANTS FileInOrder StopFlushes NothingForgotten
PROPERTIES LogsAsPromised StopEnds WrittenEventually
CHECK_DEADLOCK FALSE
