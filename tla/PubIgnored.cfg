SPECIFICATION Spec
CONSTANTS
  g1 = g1
  g2 = g2
  m1 = m1
  m2 = m2
  s1 = s1
  s2 = s2
  t1 = t1
  t2 = t2
  Tag = {g1}
  Manifest = {m1, m2}
  Referrer = {s1}
  Task = {t1}
  Apart = FALSE
  MayDelete = TRUE
  MaxClock = 1
  None = None
SYMMETRY Alike
INVARIANT PutTakesEffect
