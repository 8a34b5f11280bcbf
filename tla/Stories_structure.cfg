SPECIFICATION Spec
CONSTANTS
  u1 = u1
  p0 = p0
  r1 = r1
  r2 = r2
  NoProject = NoProject
  NoText = NoText
  NoStory = NoStory
  NoTree = NoTree
  NoLock = NoLock
  Uploads = {u1}
  OldProjects = {p0}
  Structurings = {r1, r2}
  Texts <- MCTexts
  Proposals <- MCProposals
  MaxRetries = 1
  MaxInputWords = 7
  MaxCrashes = 1
CHECK_DEADLOCK FALSE
INVARIANTS
  StoryIsWhole
PROPERTIES
  StructureIsFinal
  RequestsEnd
