SPECIFICATION SpecScreens
CONSTANTS
  a = a
  b = b
  c = c
  knows = knows
  loves = loves
  person = person
  place = place
  s1 = s1
  s2 = s2
  s3 = s3
  r1 = r1
  v1 = v1
  v2 = v2
  Ada = Ada
  Bea = Bea
  Duo = Duo
  NoValue = NoValue
  NoSpan = NoSpan
  NoNode = NoNode
  NoEdge = NoEdge
  NoMention = NoMention
  Everyone = Everyone
  Entities <- MCEntities
  Predicates <- MCPredicates
  Types <- MCTypes
  Names <- MCNames
  Values <- MCValues
  Spans <- MCSpans
  Named <- MCNamed
  TagEntity <- MCTagEntity
  InitialNodes <- MCNodes
  InitialEdges <- MCEdges
  InitialMentions <- MCMentions
  Extent <- MCExtent
  Rank <- MCRank
  Alike <- MCAlike
  Near <- MCNear
  Elsewhere <- MCElsewhere
  Asks <- RetagAsks
  Requests <- OneRequest
  MaxFailures <- NoFailures
  Looks <- TwoLooks
  Scenes <- NoScreens
  Dismissable <- BothWays
  GivenOut = 3
  MaxEdits = 2
  SummaryLimit = 1
INVARIANTS RetagShows
CHECK_DEADLOCK FALSE
