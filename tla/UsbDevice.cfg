SPECIFICATION FairSpec
CONSTANTS
  Openers = {scan, poll1, poll2}
  Nobody = Nobody
INVARIANTS
  NothingLeaks
PROPERTY ClaimIsReleased
