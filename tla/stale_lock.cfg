SPECIFICATION Spec
CONSTANTS
  c1 = c1
  c2 = c2
  n1 = n1
  n2 = n2
  n3 = n3
  p1 = p1
  i1 = i1
  m1 = m1
  m2 = m2
  a1 = a1
  a2 = a2
  d1 = d1
  t1 = t1
  t2 = t2
  Candidates = {c1}
  Envelopes = {}
  Nonces <- TwoNonces
  Projectors = {p1}
  EventCli = {}
  Importers = {i1}
  Promoters = {m1, m2}
  Artifacts = {a1, a2}
  Destinations = {d1}
  Targets = {t1}
  ArtifactOf <- SameArtifact
  DestinationOf <- OneDestination
  TargetOf <- CanariedOnT1
  Reproducible = {c1}
  Raising = {}
  Rank <- InOrder
  ByHand = {}
  TTL = 1
  Skew = 0
  StaleAfter = 0
  PromptHolders = TRUE
  MaxTime = 2
  MaxFaults = 1
  LastFault = 2
PROPERTIES PublicationHoldsLock
SYMMETRY PairSymmetry
CHECK_DEADLOCK FALSE
