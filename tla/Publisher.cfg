\* With PROPERTY NeverRollsBack TLC shows the put that writes an older record.
SPECIFICATION Spec
CONSTANTS
  g1 = g1
  g2 = g2
  m1 = m1
  m2 = m2
  s1 = s1
  s2 = s2
  t1 = t1
  t2 = t2
  Tag = {g1, g2}
  Manifest = {m1, m2}
  Referrer = {s1, s2}
  Task = {t1, t2}
  Apart = TRUE
  MayDelete = TRUE
  MaxClock = 2
  None = None
SYMMETRY Alike
VIEW View
INVARIANTS TypeOK ReferrersAttached
PROPERTY NewerWins
