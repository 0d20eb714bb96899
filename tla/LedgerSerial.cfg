SPECIFICATION Spec

CONSTANTS
  ann = ann
  bob = bob
  k1 = k1
  t1 = t1
  t2 = t2
  c1 = c1
  n1 = n1
  n2 = n2
  s1 = s1
  s2 = s2
  NoKey = NoKey
  NoHash = NoHash
  Admins <- MCAdmins
  Users = {ann, bob}
  Keys = {}
  Texts = {t1, t2}
  Cats = {c1}
  Names = {n1, n2}
  Slots = {s1}
  Kinds <- SerialKinds
  MaxRows = 2
  MaxBatch = 2

CHECK_DEADLOCK FALSE

INVARIANTS
  HashTruthful
  NoEditInTrash
  AuditTellsState
PROPERTIES
  OnlyTrashIsDestroyed
  BootAnchorsLedger
