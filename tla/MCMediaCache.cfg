\* Two threads, two clips, a cache for one of them; one death, one bad encoding.
SPECIFICATION Spec
CONSTANTS
  small = small
  large = large
  Workers = {w1, w2}
  Clips = {small, large}
  Size <- Sizes
  Limit = 2
  Retention = 1
  MaxClock = 2
  MaxKills = 1
  MaxErrors = 1
INVARIANTS
  OnlyWholeClipsPublished
  UndisturbedAnswered
  SizeBoundedAtRest
SYMMETRY Threads
CHECK_DEADLOCK FALSE
