CONSTANTS
  g1 = g1  g2 = g2  g3 = g3  m1 = m1  m2 = m2  z1 = z1  z2 = z2
  Games = {g1, g2}
  NewGames = {}
  Names = {m1, m2, z1, z2}
  Zips = {z1}
  FirstMods <- TwoMods
  CancelAdds = TRUE
  Faults = {}
  MaxAdds = 1
  MaxCopies = 2
  MaxTasks = 3
SPECIFICATION Spec
PROPERTY OutcomeRecorded
