CONSTANTS
  m1 = m1  m2 = m2  m3 = m3  m4 = m4  m5 = m5  m6 = m6  tF = tF  tG = tG  t = t
  Mods = {m1, m2, m3, m4, m5, m6}
  Types = {tF, tG}
  NoType = NoType
  Texts = {t}
  FirstDirs <- FiveMods
  FirstFiles <- OneFile
  Zips = {m1, m6}
  Place <- Places
  NoFavorites = NoFavorites
  Faults = {"open", "short", "rename", "rmdir"}
  MaxEdits = 3
SPECIFICATION Spec
INVARIANTS CursorShown NamesKept KeysNameMods PathsOnCard
