SPECIFICATION Spec
CONSTANTS
  c1 = c1
  c2 = c2
  c3 = c3
  s1 = s1
  r1 = r1
  r2 = r2
  NoEntity = NoEntity
  NoDecision = NoDecision
  NoCandidate = NoCandidate
  Candidates <- TwoCandidates
  Seeds <- MCSeeds
  Requests <- TwoRequests
  Asks <- EveryAsk
  StrongMatch <- AllMatch
  Deletable <- SeedDeletable
  MaxFailures = 1
SYMMETRY RequestSymmetry
CHECK_DEADLOCK FALSE
INVARIANTS
  TypeOK
  EvidenceBeforeTerminal
  CommittedIsInGraph
  CommittedIsMentioned
PROPERTIES
  RematchSparesDecided
  DecisionsStand
