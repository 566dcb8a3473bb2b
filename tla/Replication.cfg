SPECIFICATION Spec
CONSTANTS
  r1 = r1
  t1 = t1
  t2 = t2
  None = None
  Publisher = pub
  Replica = {r1}
  Task = {t1, t2}
  Home <- OneHome
  Tag <- TwoTags
  Policies <- NoneOrPinned
  Kinds = {"announce", "sync", "pull", "policy", "gc", "rm"}
  MayFail = TRUE
  MaxClock = 2
  PerSecond = 1
  Manifest = {m1}
  Referrer = {ref}
VIEW View
SYMMETRY Alike
INVARIANTS TypeOK QuietWindow
PROPERTY SyncCatchesUp
