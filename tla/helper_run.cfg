SPECIFICATION MCSpec
CONSTANTS
  OUTPUT_LIMIT = 3
  TIMEOUT = 2
  PIPE = 2
  Mounts <- MCMounts
  Fixed <- MCLocal
  VOLUME_LIMIT = 2
  CACHE = 1
  Keys = {1, 2}
  Users = {"a", "b"}
  Other = "b"
  RANGE = 2
  USABLE = 2
  SOCKET_SCAN_LIMIT = 1
  MaxCount = 2
INVARIANTS TypeOK NothingLeft NothingMissing OneHelperPerMount VolumesListed
PROPERTIES RunReturns ListFollows FiguresTrue
CHECK_DEADLOCK FALSE
