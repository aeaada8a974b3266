\* Two borrowers finalize drafts of the same two items and check items out directly.
\* The ids and revisions of the instance run out, so a behaviour may end.
CHECK_DEADLOCK FALSE
CONSTANTS
  ann = ann
  bob = bob
  forAnn = forAnn
  forBob = forBob
  d1 = d1
  d2 = d2
  s1 = s1
  s2 = s2
  c1 = c1
  c2 = c2
  NoBorrower = NoBorrower
  NoView = NoView
  Nothing = Nothing
  Users = {ann, bob}
  Owners = {}
  Borrowers = {forAnn, forBob}
  ProfileOf <- RivalProfiles
  Devices = {d1, d2}
  UserOf <- RivalUserOf
  Items = {1, 2}
  Sessions = {s1, s2}
  Checkouts = {c1, c2}
  MaxRevision = 4
  Archivable = {}
SPECIFICATION Spec
SYMMETRY IdSymmetry
INVARIANTS
  OneActiveCheckoutPerItem
  DeadlockNeedsDirectCheckout
  BorrowersOnlyForThemselves
  NobodyHangs
