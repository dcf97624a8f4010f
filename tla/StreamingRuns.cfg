CONSTANTS
  P = 2
  Ids = {1, 2, 3}
  TimeOf <- Times
  Ranges <- ProducerRanges
  Delay = 2
  MaxOffsets = 1
  MaxExecutions = 2
  MaxOthers = 2

SPECIFICATION Spec
INVARIANTS
  TypeOK
  OutcomesAreExact
PROPERTIES
  RestartAddsNothing
