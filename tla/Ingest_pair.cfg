SPECIFICATION Spec
CONSTANTS
  jan = jan
  janek = janek
  ola = ola
  r1 = r1
  r2 = r2
  knows = knows
  NoName = NoName
  NotStaged = NotStaged
  N = 2
  Runs <- TwoRuns
  Names <- ThreeNames
  Seeds <- JanKnown
  Triples <- MCTriples
  Readings <- TwoParagraphs
  Likeness <- LooseLikeness
  MaxRetries = 1
  MaxPosts = 2
  ReviewDuringRuns = TRUE
INVARIANTS TypeOK StagedWhole ProgressIsReal
CHECK_DEADLOCK FALSE
