SPECIFICATION Spec
CONSTANTS
  p = p
  q = q
  h = h
  Paths = {p, q}
  NoPath = NoPath
  NoHash = NoHash
  NoClient = NoClient
  Bytes <- SameBytes
  Manifests <- OneManifest
  Clients = {c1}
  Workers = {w1}
  MaxAttempts = 2
  MaxRows = 3
INVARIANT ReingestIsNoOp
