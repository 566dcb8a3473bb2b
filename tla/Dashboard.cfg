CONSTANTS
  Release = {1, 2}
  Mine = {2}
  Key = {"y", "d", "g", "p", "s", "j", "tab", "q", "enter", "esc"}
  MaxTyped = 1
  LogCap = 2
  RingCap = 1
  WireCap = 5
  PipeCap = 1
  MaxEvents = 2
  Budget = 4
  None = None
SPECIFICATION FairSpec
CHECK_DEADLOCK FALSE
INVARIANT TypeOK
INVARIANT DeletesWhatWasConfirmed
INVARIANT ActsOnTheRow
INVARIANT EventsInOrder
PROPERTY EventsReachTheLog
