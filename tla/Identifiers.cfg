\* Three phones, of which one only reads, one tag, two targets and two identifiers.
\* Liveness beside the safety, so no symmetry.  It stops when identifiers are used up.
SPECIFICATION FairSpec
CONSTANTS
  Ids = {i1, i2}
  Targets = {t1, t2}
  Phones = {p1, p2, p3}
  Taggers = {p1, p2}
  Tags = {g1}
  None = None
INVARIANTS OneLivePerTarget NoCallHangs
PROPERTIES ReplacementHasNoGap WrittenTagWakes
CHECK_DEADLOCK FALSE
