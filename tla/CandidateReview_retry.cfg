SPECIFICATION FairSpec
CONSTANTS
  c1 = c1
  c2 = c2
  c3 = c3
  s1 = s1
  r1 = r1
  r2 = r2
  NoEntity = NoEntity
  NoDecision = NoDecision
  NoCandidate = NoCandidate
  Candidates <- ThreeCandidates
  Seeds <- MCSeeds
  Requests <- TwoRequests
  Asks <- Unanimous
  StrongMatch <- AllMatch
  Deletable <- NoneDeletable
  MaxFailures = 1
CHECK_DEADLOCK FALSE
INVARIANTS
  StoresAgree
PROPERTIES
  RetryDecides
  RequestsEnd
  ImplementsLifecycle
