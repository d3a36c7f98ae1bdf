SPECIFICATION FairSpec
CONSTANTS
  e1 = e1
  e2 = e2
  a1 = a1
  a2 = a2
  a3 = a3
  c1 = c1
  c2 = c2
  c3 = c3
  b1 = b1
  Candidates = {c1, c2, c3}
  Envelopes = {}
  Nonces = {n1, n2, n3}
  Projectors = {b1}
  EventCli = {}
  TTL = 2
  MaxTime = 1
  LastFault = 1
  MaxFaults = 2
  Compiled = {e1, e2}
  ArtifactsOf <- MCArtifactsOf
  Origin <- MCOrigin
  DigestOrder <- InOrder
  Unsound = {a3}
  ByHand = {e1}
  Bridge = b1
  MaxAttempts = 2
  MaxPerPass = 2
  MaxByHand = 1
INVARIANTS RetiredFairly OneCandidatePerArtifact
PROPERTIES EnvelopeRetires CandidateIsChallenged
CHECK_DEADLOCK FALSE
