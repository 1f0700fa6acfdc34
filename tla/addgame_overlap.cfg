CONSTANTS
  g1 = g1  g2 = g2  g3 = g3
  Cols = 1
  Rows = 1
  AppIds <- OneGame
  WithIcon = {g1}
  SortKey <- Initials
  Textures = {1, 2, 3, 4}
  Preload = 1
  Batch = 1
  LoadsPerFrame = 1
  Overlap = TRUE
  Faults = {"services"}
  MaxVisits = 2
  MaxScans = 3
  MaxTasks = 0
SPECIFICATION FairSpec
PROPERTIES LoopReleased
CHECK_DEADLOCK FALSE
