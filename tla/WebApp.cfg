SPECIFICATION FairSpec
CONSTANTS
  j1 = j1
  j2 = j2
  NoJob = NoJob
  Jobs = {j1, j2}
  MaxPages = 2
  Scenes <- AllScenes
\* The user may stop, and there may be no scan left to look at.
CHECK_DEADLOCK FALSE
INVARIANTS
  TypeOK
  EditsHitTheViewedPage
  SelectionShowsWhatWasPicked
  SelectionSettles
  StartButtonFollowsTheScan
PROPERTIES
  OverlayComesDown
  WatchEnds
