CONSTANTS
  m1 = m1
  m2 = m2
  m3 = m3
  e1 = e1
  e2 = e2
  e3 = e3
  h1 = h1
  h2 = h2
  NoManifest = NoManifest
  NoEvent = NoEvent
  NoRow = NoRow
  NoContent = NoContent
  Events = {e1, e2, e3}
  Hashes = {h1, h2}
  Loaders = {l1}
  Manifests = {m1, m2}
  Rows <- SharedRows
  Hash <- SameHash
  Declared <- RowCount

SPECIFICATION Spec
INVARIANTS
  KeyNamesAdmittedLoad
