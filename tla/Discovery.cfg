CONSTANTS
  a = a
  b = b
  c = c
  d = d
  Domains = {a, b, c, d}
  Junk = Junk
  Lists <- MCLists
  Top = 4
  MaxPerCycle = 3
  HNMax = 1
  FeedMax = 1
  Fits = 3
  Idle = Idle
  MaxCrashes = 1
SPECIFICATION FairSpec
INVARIANTS TypeOK CursorCovered LimitKept
PROPERTY WalkOffersWhatFits
CHECK_DEADLOCK FALSE
