SPECIFICATION FairSpec
CONSTANTS
  jan = jan
  janek = janek
  ola = ola
  r1 = r1
  r2 = r2
  knows = knows
  NoName = NoName
  NotStaged = NotStaged
  N = 3
  Runs <- OneRun
  Names <- ThreeNames
  Seeds <- NoSeeds
  Triples <- MCTriples
  Readings <- ThreeParagraphs
  Likeness <- MCLikeness
  MaxRetries = 2
  MaxPosts = 3
  ReviewDuringRuns = FALSE
INVARIANTS StagedOnce NoMissedMatch
PROPERTIES ImplementsStoryIngest RunsEnd
CHECK_DEADLOCK FALSE
