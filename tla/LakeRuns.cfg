CONSTANTS
  NULL = NULL
  BLANK = BLANK
  MaxFailures = 1
  MaxTrouble = 1
  MaxAttempts = 2
  Target = 1
  Factor = 2
  GateSize = 2
  Bodies <- RawBodies
  HandMade <- HandMadeFiles

SPECIFICATION Spec
INVARIANTS
  TypeOK
  VerifiersAreExact
  FailuresHaveCauses
PROPERTIES
  KeepsLedger
  RunsAdvance
