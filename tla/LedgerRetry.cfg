SPECIFICATION Spec

CONSTANTS
  ann = ann
  bob = bob
  k1 = k1
  t1 = t1
  t2 = t2
  c1 = c1
  n1 = n1
  n2 = n2
  s1 = s1
  s2 = s2
  NoKey = NoKey
  NoHash = NoHash
  Admins <- MCAdmins
  Users = {ann, bob}
  Keys = {k1}
  Texts = {t1, t2}
  Cats = {c1}
  Names = {n1}
  Slots = {s1, s2}
  Kinds <- RetryKinds
  MaxRows = 2
  MaxBatch = 1

SYMMETRY SlotSymmetry

CHECK_DEADLOCK FALSE

INVARIANTS
  TypeOK
  ExactlyOnce
  LiveHashUnique
PROPERTIES
  IdsAreFresh
  ImplementsSubmissions
