SPECIFICATION FairSpec
CONSTANTS
  Candidates = {}
  Envelopes = {q1}
  Nonces = {n1, n2, n3}
  Projectors = {p1}
  EventCli = {p1}
  TTL = 1
  MaxTime = 2
  LastFault = 2
  MaxFaults = 1
  Projector = p1
  Thresholds = {1}
  MaxPackets = 2
  MaxCount = 1
  NoBaseline = NoBaseline
INVARIANTS IncreasesAreReported BoundedReissue
  
CHECK_DEADLOCK FALSE
