SPECIFICATION Spec
CONSTANTS
  ImageWidth = 2
  StripeLines = 1
  InkLimit <- Limit
  IntBits = 3
  Dirs = {1, 2, 3, 4}
  Scenes <- AllScenes
\* The scenes are finite: nothing is left to do in the end.
CHECK_DEADLOCK FALSE
INVARIANTS
  TypeOK
  PageShowsItsSide
  BlankBacksAreDropped
  ReplyIsOfThePage
  NoDirLeftBehind
