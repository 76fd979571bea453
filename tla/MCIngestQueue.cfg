SPECIFICATION Spec
CONSTANTS
  p = p
  q = q
  h = h
  Paths = {p, q}
  NoPath = NoPath
  NoHash = NoHash
  NoClient = NoClient
  Bytes <- SameBytes
  Manifests <- OneManifest
  Clients = {c1, c2}
  Workers = {w1, w2}
  MaxAttempts = 2
  MaxRows = 3
SYMMETRY Symmetry
INVARIANTS TypeOK AnsweredIsEnqueued OneJobPerVideo CompleteIsIndexed
