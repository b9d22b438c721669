SPECIFICATION FsSpec
CONSTANTS
  Paths <- MCPaths
  Plans <- MCPlans
  Iterators = {i1, i2}
  MaxWatchDirs = 4
CHECK_DEADLOCK FALSE
INVARIANTS WatchesFollowTheTree HoldIsBounded EventsArrive
