SPECIFICATION Spec
CONSTANTS
  Intervals = {4, 20}
  Pages = {"none", "network"}
  SECOND = 4
  WARM_UP = 1
  STALE = 20
  WorkTimes = {0}
INVARIANT PageFiguresReal
CHECK_DEADLOCK FALSE
