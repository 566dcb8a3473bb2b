SPECIFICATION Spec
CONSTANTS
  r1 = r1
  t1 = t1
  t2 = t2
  None = None
  Publisher = pub
  Replica = {r1}
  Task = {t1, t2}
  Home <- OneHome
  Tag <- TwoTags
  Policies <- Changing
  Kinds = {"sync", "policy"}
  MayFail = FALSE
  MaxClock = 2
  PerSecond = 1
  Manifest = {m1}
  Referrer = {}
PROPERTY PinsStay
