SPECIFICATION Spec
CONSTANTS
  x1 = x1
  x2 = x2
  a = a
  b = b
  a2 = a2
  e1 = e1
  e2 = e2
  e3 = e3
  r1 = r1
  r2 = r2
  jan = jan
  ola = ola
  knows = knows
  NoEntity = NoEntity
  NoEdge = NoEdge
  Predicates <- MCPredicates
  Relations <- TwoRelations
  Candidates <- MCCandidates
  Entities <- ThreeEntities
  Keys <- MCKeys
  KeyOf <- MCKeyOf
  Surface <- SameSurface
  Requests <- TwoRequests
  Editable = TRUE
  MaxFailures = 1
INVARIANTS TypeOK EdgesJoinCommitted OneEdgePerFact WrittenUnlessEdited
PROPERTY DecisionStands
SYMMETRY Symmetry
CHECK_DEADLOCK FALSE
