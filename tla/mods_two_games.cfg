SPECIFICATION Spec
CONSTANTS
  m1 = m1
  m2 = m2
  m3 = m3
  user = user
  shared = shared
  own1 = own1
  own2 = own2
  own3 = own3
  x = x
  y = y
  g1 = g1
  g2 = g2
  Missing = Missing
  Partial = Partial
  Mods <- MCMods
  User <- user
  Files <- MCFiles
  Contents <- MCContents
  Games = {g1, g2}
  Crc <- CrcShared
  Game <- TwoGames
  Kind <- Mixed
  Faults <- NoFaults
  MaxCount = 2
PROPERTIES UnlistedMeansUnshared
