CONSTANTS
  g1 = g1  g2 = g2  g3 = g3
  Cols = 1
  Rows = 2
  AppIds <- ThreeGames
  WithIcon = {g1, g3}
  SortKey <- Initials
  Textures = {1, 2, 3, 4}
  Preload = 1
  Batch = 1
  LoadsPerFrame = 1
  Overlap = FALSE
  Faults = {"services"}
  MaxVisits = 2
  MaxScans = 3
  MaxTasks = 1
SPECIFICATION FairSpec
INVARIANTS CursorInList ListComplete TexturesOwned DialogShowsList
PROPERTIES IconsArrive
CHECK_DEADLOCK FALSE
