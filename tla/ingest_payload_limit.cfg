SPECIFICATION Spec
CONSTANTS
  Self = owner
  Roots = {org}
  Nodes = {n1, n2}
  Topic <- MCTopic
  Scopes <- MCScopes
  Lifetimes = {0, 1}
  Sizes <- MCSizes
  EnvelopeBytes = 64
  MaxPayloadBytes <- MCMaxPayloadBytes
  MaxIngestHexBytes <- MCMaxIngestHexBytes
  NoGrant = NoGrant
  MaxTime = 2
  MaxLinks = 1
INVARIANT
  FullPayloadAccepted
