CONSTANTS
  Rule = {"pub", "alias"}
  Handler = {"h1"}
  Ctl = {"c1"}
  Top = {"t1"}
  Apart = TRUE
  Leaves = {"settle", "neighbors", "peers", "subscribe"}
  MaxEdits = 2
  MaxStops = 1
  Publisher = {"pub"}
  Self = "me"
  Peer = {"x"}
  JoinFails = FALSE
  SaveFails = TRUE
  None = None
SPECIFICATION SwarmFairSpec
CHECK_DEADLOCK FALSE
INVARIANT TopicsFollowTheFile
INVARIANT NeighborsIntroduced
PROPERTY EditsAtomic
PROPERTY PeersDurable
PROPERTY TopicJoined
