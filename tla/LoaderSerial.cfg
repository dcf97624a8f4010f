CONSTANTS
  m1 = m1
  m2 = m2
  m3 = m3
  m4 = m4
  e1 = e1
  e2 = e2
  e3 = e3
  h1 = h1
  h2 = h2
  NoManifest = NoManifest
  NoEvent = NoEvent
  NoRow = NoRow
  NoContent = NoContent
  Events = {e1, e2, e3}
  Hashes = {h1, h2}
  Loaders = {l1}
  Manifests = {m1, m2, m3, m4}
  Rows <- ReadRows
  Hash <- ReadHash
  Declared <- ReadCount
  Position <- Places
  Selected = {e1, e2, e3}
  PageLimit = 1
  Detection <- Detections
  Iteration <- Iterations
  Sequence <- Sequences

SPECIFICATION ReadSpec
INVARIANTS
  RecountReconciles
  PagesAreComplete
PROPERTIES
  KeepsContract
  VerdictsAreExact
