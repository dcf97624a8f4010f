CONSTANTS
  e1 = e1
  e2 = e2
  e3 = e3
  P = 2
  Artifacts <- ReplayArtifacts
  Ids = {e1, e2, e3}
  PartitionOf <- TwoLineages
  QueueMax = 2
  MaxExpired = 1
  MaxOthers = 2

SPECIFICATION FairSpec
INVARIANTS
  TypeOK
  RangeIsArtifact
  FailureHasCause
  DiagnosisIsExact
PROPERTIES
  ProducerEnds
  DiagnosisEnds
CHECK_DEADLOCK FALSE
