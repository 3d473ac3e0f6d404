SPECIFICATION Spec
CONSTANTS
  Intervals = {2}
  Pages = {"none", "network", "gpu", "disks"}
  SECOND = 2
  WARM_UP = 1
  STALE = 4
  WorkTimes = {0, 1}
INVARIANTS TypeOK NoLostWakeup ProcessFiguresReal PageFiguresReal
PROPERTIES ShownListsPresent SlowPassesPaced ImplementsRegister QuitEnds NoOrphan
CHECK_DEADLOCK FALSE
