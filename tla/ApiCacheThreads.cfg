CONSTANTS
  k1 = k1
  k2 = k2
  k3 = k3
  NoKey = NoKey
  Keys = {k1, k2, k3}
  Workers = {w1, w2}
  MaxEntries = 2
  MaxEntryBytes = 3
  MaxTotalBytes = 3
  TTL = 2
  Size <- GrowingSize
  MaxVersion = 1
  MaxTime = 2
  MaxRequests = 4
  MaxFaults = 1

SPECIFICATION Spec
INVARIANTS
  TypeOK
  BooksAgree
PROPERTIES
  AnswersAreRecent
  EvictsForRoom
SYMMETRY Interchangeable
CHECK_DEADLOCK FALSE
