CONSTANTS
  g1 = g1  g2 = g2  g3 = g3  m1 = m1  m2 = m2  z1 = z1  z2 = z2
  Games = {g1}
  NewGames = {g3}
  Names = {m1, m2, z1, z2}
  Zips = {z1}
  FirstMods <- OneMod
  CancelAdds = TRUE
  Faults = {"add", "copy"}
  MaxAdds = 2
  MaxCopies = 2
  MaxTasks = 3
SPECIFICATION FairSpec
INVARIANTS TypeOK UninstallNotStopped ListMatchesCard IndexNamesList
PROPERTIES CopyTasksExclusive FiledWhereChosen FrameLoopReleased DialogStaysWhileCopying OutcomeRecordedUnlessLeft CopyReported
