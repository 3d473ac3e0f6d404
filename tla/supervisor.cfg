SPECIFICATION MCSpec
CONSTANTS
  MAX_DELAY = 30
  MAX_POWER = 5
  HEALTHY = 60
  Names = {"sda", "sdb"}
  Drives = {"A", "B"}
  Ranks = {0, 7}
  Lengths = {2, 3}
  CanOversize = TRUE
  Chips <- MCChips
  Fixed <- MCBoard
  Boards = {"nct"}
  NoDevice = ""
  STALE = 1
  Widgets = {"left", "right"}
  Keys = {"a", "b"}
  Values = {0, 1}
  PATIENCE = 1
  MaxEdits = 2
INVARIANTS RestartsSlow GraphsTrue
PROPERTIES NoStartOnceGone Recovers EditsConverge SensorsFollow
CHECK_DEADLOCK FALSE
