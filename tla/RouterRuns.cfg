CONSTANTS
  P = 2
  Q = 2
  Sources <- FixtureRanges
  MaxAttempts = 2
  QueueMax = 2
  MaxOthers = 1

SPECIFICATION FairSpec
INVARIANTS
  TypeOK
  RoutedExactly
PROPERTIES
  RouterEnds
CHECK_DEADLOCK FALSE
