SPECIFICATION Spec
CONSTANTS
  a = a
  b = b
  c = c
  n = n
  knows = knows
  loves = loves
  person = person
  place = place
  s1 = s1
  s2 = s2
  r1 = r1
  Ada = Ada
  Bea = Bea
  Cid = Cid
  Dan = Dan
  red = red
  blue = blue
  NoValue = NoValue
  NoSpan = NoSpan
  NoNode = NoNode
  NoEdge = NoEdge
  NoMention = NoMention
  Everyone = Everyone
  Entities <- MCEntities
  Predicates <- MCPredicates
  Types <- MCTypes
  Names <- MCNames
  Values <- MCValues
  Spans <- MCSpans
  Named <- MCNamed
  TagEntity <- MCTagEntity
  InitialNodes <- MCNodes
  InitialEdges <- MCEdges
  InitialMentions <- MCMentions
  GivenOut = 3
  Asks <- AllAsks
  Requests <- OneRequest
  MaxEdits = 3
  MaxFailures <- NoFailures
INVARIANTS TypeOK UndoIsExact HandleNamesOneEdge
PROPERTY RedoIsLogged
CHECK_DEADLOCK FALSE
