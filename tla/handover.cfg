SPECIFICATION HandoverSpec
CONSTANTS
  Unset = Unset
  Nobody = Nobody
  EmptyMap = EmptyMap
  Absent = Absent
  Foreign = Foreign
  CRs <- OneCR
  Manifests <- EmptiedManifests
  Specs <- EmptiedSpecs
  Plan <- MixedPlan
  DriftKinds = {}
  Resyncs = FALSE
  MaxLag = 1
  MaxUid = 2
  MaxEdits = 1
  MaxDeletes = 1
  MaxDrifts = 0
  MaxFaults = 0
  MaxRestarts = 1
\* Once the users stop, the system may settle and do nothing more.
CHECK_DEADLOCK FALSE
INVARIANTS
  QuietMeansApplied
  SuccessionInv
PROPERTIES
  LivingRBACOutlivesHandover
