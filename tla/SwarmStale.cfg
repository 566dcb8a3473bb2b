CONSTANTS
  Rule = {"pub", "alias"}
  Handler = {"h1", "h2"}
  Ctl = {}
  Top = {}
  Apart = FALSE
  Leaves = {}
  MaxEdits = 2
  MaxStops = 1
  Publisher = {"pub"}
  Self = "me"
  Peer = {"x"}
  JoinFails = FALSE
  SaveFails = TRUE
  None = None
SPECIFICATION SwarmFairSpec
CHECK_DEADLOCK FALSE
INVARIANT TopicsFollowTheFile
