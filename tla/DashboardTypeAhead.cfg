CONSTANTS
  Release = {1, 2}
  Mine = {2}
  Key = {"d", "y", "esc"}
  MaxTyped = 2
  LogCap = 2
  RingCap = 1
  WireCap = 5
  PipeCap = 1
  MaxEvents = 0
  Budget = 6
  None = None
SPECIFICATION Spec
CHECK_DEADLOCK FALSE
INVARIANT DeletesWhatWasConfirmed
