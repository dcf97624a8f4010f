CONSTANTS
  N = 3
  Retries <- RetryOnce
  Workers = {w1, w2}
  Checksums = {c1, c2}
  Root = Root
  Revisions = {r1, r2}
  MaxRuns = 3
  MaxFaults = 2

SPECIFICATION FairSpec
INVARIANTS
  TypeOK
  NoHoles
  CompleteWhenSucceeded
  ReceiptChain
  FinishedIsQuiet
PROPERTIES
  SuccessIsReused
  RunEnds
  RerunsSucceed
CHECK_DEADLOCK FALSE
