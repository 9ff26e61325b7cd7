SPECIFICATION FairSpec
CONSTANTS
  Unset = Unset
  Nobody = Nobody
  EmptyMap = EmptyMap
  Absent = Absent
  Foreign = Foreign
  CRs <- OneCR
  Manifests <- RenameManifests
  Specs <- RenameSpecs
  Plan <- RbacPlan
  DriftKinds = {"ClusterRoleBinding"}
  Resyncs = TRUE
  MaxLag = 1
  MaxUid = 2
  MaxEdits = 1
  MaxDeletes = 1
  MaxDrifts = 1
  MaxFaults = 0
  MaxRestarts = 0
\* Once the users stop, the system may settle and do nothing more.
CHECK_DEADLOCK FALSE
PROPERTIES
  RBACConverges
  RefusalIsReported
