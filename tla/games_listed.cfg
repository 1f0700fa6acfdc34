CONSTANTS
  g1 = g1  g2 = g2  v1 = v1  n1 = n1
  Games = {g1, g2}
  Versions = {v1}
  NoVersion = none
  Names = {n1}
  Favorites = favorites
  FirstDirs <- TwoDirs
  FirstFiles <- OneFile
  Faults = {"open", "short", "rename", "mkdir", "remove", "services", "crash"}
  MaxStarts = 2
  MaxEdits = 3
  MaxRacedEdits = 2
SPECIFICATION Spec
INVARIANTS TypeOK ListSurvivesRestart ListedOnce AllListed KeysNameGames
PROPERTIES OthersSpared
CHECK_DEADLOCK FALSE
