\* Two devices of one user edit and finalize shared drafts of two items.
\* The ids and revisions of the instance run out, so a behaviour may end.
CHECK_DEADLOCK FALSE
CONSTANTS
  ann = ann
  bob = bob
  forAnn = forAnn
  forBob = forBob
  d1 = d1
  d2 = d2
  s1 = s1
  s2 = s2
  c1 = c1
  c2 = c2
  NoBorrower = NoBorrower
  NoView = NoView
  Nothing = Nothing
  Users = {ann}
  Owners = {}
  Borrowers = {forAnn}
  ProfileOf <- AnnProfile
  Devices = {d1, d2}
  UserOf <- SharedUserOf
  Items = {1, 2}
  Sessions = {s1, s2}
  Checkouts = {c1, c2}
  MaxRevision = 4
  Archivable = {2}
SPECIFICATION Spec
SYMMETRY SharedSymmetry
INVARIANTS
  TypeOK
  RevisionIdentifiesContent
  NobodyHangs
PROPERTIES
  ConfirmedContentIsCheckedOut
  CompletionChecksEveryItem
  SettledSessionsFrozen
  ImplementsLending
