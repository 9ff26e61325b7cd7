SPECIFICATION Spec
CONSTANTS
  Unset = Unset
  Nobody = Nobody
  EmptyMap = EmptyMap
  Absent = Absent
  Foreign = Foreign
  CRs <- OneCR
  Manifests <- PlainManifests
  Specs <- PlainSpecs
  Plan <- RbacPlan
  DriftKinds = {"ClusterRole"}
  Resyncs = FALSE
  MaxLag = 2
  MaxUid = 2
  MaxEdits = 0
  MaxDeletes = 2
  MaxDrifts = 1
  MaxFaults = 1
  MaxRestarts = 1
\* Once the users stop, the system may settle and do nothing more.
CHECK_DEADLOCK FALSE
INVARIANTS
  NoOrphanedRBAC
  ProtectionInv
  LifeInv
PROPERTIES
  GuardedLife
