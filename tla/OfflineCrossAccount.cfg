SPECIFICATION BoundedSpec

CONSTANTS
  ann = ann
  bob = bob
  t1 = t1
  t2 = t2
  None = None
  Users = {ann, bob}
  Tabs = {t1, t2}
  MaxCaptures = 1
  MaxAttempts = 1
  MaxFaults = 3
  Kinds <- SwitchKinds

SYMMETRY TabSymmetry

CHECK_DEADLOCK FALSE

INVARIANTS
  NoCrossAccountReplay
