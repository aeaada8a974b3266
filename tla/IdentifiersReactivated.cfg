\* Two phones, one tag, two targets: a revoked identifier is active again.
SPECIFICATION Spec
CONSTANTS
  Ids = {i1, i2}
  Targets = {t1, t2}
  Phones = {p1, p2}
  Taggers = {p1, p2}
  Tags = {g1}
  None = None
PROPERTIES RevokedStaysRevoked
CHECK_DEADLOCK FALSE
