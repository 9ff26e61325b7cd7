SPECIFICATION Spec
CONSTANTS
  Unset = Unset
  Nobody = Nobody
  EmptyMap = EmptyMap
  Absent = Absent
  Foreign = Foreign
  CRs <- OneCR
  Manifests <- EmptyRulesManifests
  Specs <- EmptyRulesSpecs
  Plan <- RolePlan
  DriftKinds = {}
  Resyncs = FALSE
  MaxLag = 2
  MaxUid = 1
  MaxEdits = 2
  MaxDeletes = 1
  MaxDrifts = 0
  MaxFaults = 1
  MaxRestarts = 0
\* Once the users stop, the system may settle and do nothing more.
CHECK_DEADLOCK FALSE
PROPERTIES
  CleanedBeforeRelease
  NoLostEdit
