CONSTANTS
  N = 2
  Retries <- RetryOnce
  Workers = {w1, w2}
  Checksums = {c1}
  Root = Root
  Revisions = {r1}
  MaxRuns = 1
  MaxFaults = 2

SPECIFICATION Spec
PROPERTY ReceiptsAreReused
CHECK_DEADLOCK FALSE
