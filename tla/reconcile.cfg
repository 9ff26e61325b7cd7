SPECIFICATION Spec
CONSTANTS
  Unset = Unset
  Nobody = Nobody
  EmptyMap = EmptyMap
  Absent = Absent
  Foreign = Foreign
  CRs <- OneCR
  Manifests <- CoreManifests
  Specs <- CoreSpecs
  Plan <- HubPlan
  DriftKinds = {"ConfigMap", "Deployment"}
  Resyncs = TRUE
  MaxLag = 2
  MaxUid = 1
  MaxEdits = 1
  MaxDeletes = 0
  MaxDrifts = 1
  MaxFaults = 1
  MaxRestarts = 1
\* Once the users stop, the system may settle and do nothing more.
CHECK_DEADLOCK FALSE
INVARIANTS
  TypeOK
  QuietMeansApplied
  NothingForgotten
PROPERTIES
  RestIsKept
