SPECIFICATION Spec
CONSTANTS
  r1 = r1
  t1 = t1
  t2 = t2
  None = None
  Publisher = pub
  Replica = {r1}
  Task = {t1}
  Home <- SoloHome
  Tag <- ThreeTags
  Policies <- LastThree
  Kinds = {"announce", "sync"}
  MayFail = FALSE
  MaxClock = 4
  PerSecond = 1
  Manifest = {m1}
  Referrer = {}
PROPERTY SyncCatchesUp
