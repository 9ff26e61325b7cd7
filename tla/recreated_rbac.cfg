SPECIFICATION Spec
CONSTANTS
  Unset = Unset
  Nobody = Nobody
  EmptyMap = EmptyMap
  Absent = Absent
  Foreign = Foreign
  CRs <- OneCR
  Manifests <- PlainManifests
  Specs <- PlainSpecs
  Plan <- RolePlan
  DriftKinds = {}
  Resyncs = FALSE
  MaxLag = 2
  MaxUid = 2
  MaxEdits = 0
  MaxDeletes = 1
  MaxDrifts = 0
  MaxFaults = 0
  MaxRestarts = 0
\* Once the users stop, the system may settle and do nothing more.
CHECK_DEADLOCK FALSE
INVARIANTS
  QuietMeansRBACApplied
