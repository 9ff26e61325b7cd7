SPECIFICATION FairSpec
CONSTANTS
  Unset = Unset
  Nobody = Nobody
  EmptyMap = EmptyMap
  Absent = Absent
  Foreign = Foreign
  CRs <- OneCR
  Manifests <- PlainManifests
  Specs <- PlainSpecs
  Plan <- WatchedPlan
  DriftKinds = {}
  Resyncs = FALSE
  MaxLag = 1
  MaxUid = 1
  MaxEdits = 0
  MaxDeletes = 0
  MaxDrifts = 0
  MaxFaults = 0
  MaxRestarts = 0
\* Once the users stop, the system may settle and do nothing more.
CHECK_DEADLOCK FALSE
INVARIANTS
  QuietMeansApplied
PROPERTIES
  Settles
