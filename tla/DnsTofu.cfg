SPECIFICATION DnsSpec
CONSTANTS
  k1 = k1
  k2 = k2
  t1 = t1
  t2 = t2
  t3 = t3
  Domain = {z1}
  Publisher = {k1, k2}
  Task = {t1, t2, t3}
  Negative = Negative
  Unusable = Unusable
  Nothing = Nothing
SYMMETRY Alike
INVARIANTS DnsTypeOK OneKeyPerPin AnswersDurable
