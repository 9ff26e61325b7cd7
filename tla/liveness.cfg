SPECIFICATION FairSpec
CONSTANTS
  Unset = Unset
  Nobody = Nobody
  EmptyMap = EmptyMap
  Absent = Absent
  Foreign = Foreign
  CRs <- OneCR
  Manifests <- MovedManifests
  Specs <- MovedSpecs
  Plan <- ConfigPlan
  DriftKinds = {}
  Resyncs = FALSE
  MaxLag = 1
  MaxUid = 2
  MaxEdits = 1
  MaxDeletes = 1
  MaxDrifts = 0
  MaxFaults = 1
  MaxRestarts = 0
\* Once the users stop, the system may settle and do nothing more.
CHECK_DEADLOCK FALSE
PROPERTIES
  DeletionCompletes
  LeavesNothing
  Converges
  NoLostEdit
