SPECIFICATION Spec
CONSTANTS
  c1 = c1
  c2 = c2
  Scanner = Scanner
  NoImage = NoImage
  Clients = {c1, c2}
  CombineLimit = 2
  PageLimit = 4
  Scenes <- AllScenes
\* A deleted or unreadable scan takes no more requests.
CHECK_DEADLOCK FALSE
INVARIANTS
  MetaWellFormed
  ImagesSurviveApart
  CombinedPagesDiffer
  GoneIsGone
