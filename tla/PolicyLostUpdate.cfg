CONSTANTS
  Rule = {"follow a", "alias"}
  Handler = {"h1"}
  Ctl = {}
  Top = {"t1"}
  Apart = FALSE
  Leaves = {}
  MaxEdits = 2
  MaxStops = 0
  None = None
SPECIFICATION FairSpec
CHECK_DEADLOCK FALSE
PROPERTY EditsAtomic
