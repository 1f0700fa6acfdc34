------------------------------ MODULE ModList ------------------------------
(***************************************************************************)
(* The list of the mods of one game: their names, descriptions and types,  *)
(* their removal and the cursor.  Entering the list reads the directories  *)
(* of the game and mod_name.json; each operation changes the card, the     *)
(* file, the list or all of them.  A directory <<name, type, on>> is       *)
(* called NAME[T]$: the type may be missing and the '$' stands for an      *)
(* installed mod.  It is a key of the file too, where README.md promises   *)
(* names for the directories of mods.                                      *)
(***************************************************************************)
EXTENDS FiniteSets, SequencesExt, ModCursor

CONSTANTS
  Mods,        \* MOD_NAME of mods and of archives in the drop folder
  Types,       \* "[F]", "[G]", ...
  NoType,      \* NONE_TYPE_TEXT
  Texts,       \* what the user may type
  FirstDirs,   \* directories of the game when the program starts, as dirs
  FirstFiles,  \* what mod_name.json may hold then
  Zips,        \* archives in the drop folder
  Place,       \* where Sort_Mod puts a directory among the others
  NoFavorites, \* "favorites$180" is not a key of mod_name.json
  Faults,      \* "open", "short" (JsonStore), "rename", "rmdir"
  MaxEdits     \* bound on the operations

Dirs == Mods \X (Types \union {NoType}) \X BOOLEAN

ASSUME ModsAssumption ==
  /\ NoType \notin Types /\ Zips \subseteq Mods
  /\ DOMAIN FirstDirs \subseteq Dirs /\ IsFiniteSet(DOMAIN FirstDirs)
  /\ \A d \in DOMAIN FirstDirs : FirstDirs[d] \in 0..2
ASSUME PlaceAssumption ==
  /\ Place \in [Dirs -> Nat]
  /\ \A x, y \in Dirs : Place[x] = Place[y] => x = y
ASSUME BoundAssumption == MaxEdits \in Nat

INSTANCE JsonStore WITH Favorites <- NoFavorites, Strings <- Texts

(* The file as the program writes it: an object for each mod with a name or *)
(* a description, under the directory of the mod when it is not installed.  *)
(* A value of another kind is replaced when a text is given.                *)
Fields == {"display_name", "description"}
Member == Dirs \X (Texts \union Seq(Fields \X Texts))

ASSUME TextsAssumption ==
  /\ NoFavorites \notin Dirs
  /\ \A t \in Texts : t \notin Seq(Fields \X Texts)
ASSUME FilesAssumption == \A o \in FirstFiles :
  /\ o \in Seq(Member)
  /\ \A d \in Dirs : Once(o, d)
  /\ \A d \in Dirs : Has(o, d) =>
       /\ ~d[3]
       /\ \E on \in BOOLEAN : <<d[1], d[2], on>> \in DOMAIN FirstDirs

VARIABLES
  menu,     \* "list" (the games) or "mods"
  dirs,     \* the directories on the card: 1 for a single ZIP, 0 for an empty
            \* one, 2 for a folder or several ZIPs, which are not removed
  inbox,    \* archives in the drop folder
  file,     \* mod_name.json
  cache,    \* mod_name_cache: the members LoadModNameMapping has read
  modInfo,  \* mod_info: MOD_PATH, MOD_NAME, MOD_TYPE, MOD_STATE, MOD_NAME2
  cursor,   \* mod_index, mod_start, mod_ypos, mod_yoff
  edits,
  given,    \* the texts the user last gave to each mod <<name, type>> (ghost)
  spoiled,  \* those whose record in the file is not kept (ghost)
  half      \* those an operation left between card and list (ghost)

ghosts == <<edits, given, spoiled, half>>
vars   == <<menu, dirs, inbox, file, cache, modInfo, cursor, ghosts>>

NotGiven == [field \in Fields |-> "nothing"]

Init ==
  /\ menu = "list" /\ dirs = FirstDirs /\ inbox = Zips
  /\ \E o \in FirstFiles : file = [torn |-> FALSE, members |-> o]
  /\ cache = <<>> /\ modInfo = <<>> /\ cursor = AtTop
  /\ edits = 0 /\ spoiled = {} /\ half = {}
  /\ given = [m \in Mods \X (Types \union {NoType}) |-> NotGiven]

-----------------------------------------------------------------------------
(* The names *)

LoadModNameMapping(f) ==
  IF f.torn THEN <<>>
  ELSE Keep(f.members, {i \in DOMAIN f.members : IsObject(f.members[i][2])})

(* The last of several members with a key wins.  An object without a name   *)
(* is called by its key, a mod without an object by its directory.          *)
Record(c, m, type) ==
  LET Of == {i \in DOMAIN c : c[i][1] = <<m, type, FALSE>>}
  IN  IF Of = {} THEN <<>> ELSE c[CHOOSE i \in Of : \A j \in Of : j <= i][2]
Known(c, m, type) == \E i \in DOMAIN c : c[i][1] = <<m, type, FALSE>>
Value(o, field)   == o[Find(o, field)][2]

GetMappedModName(c, m, type) ==
  CASE ~Known(c, m, type) -> m
    [] Known(c, m, type) /\ Has(Record(c, m, type), "display_name")
         -> Value(Record(c, m, type), "display_name")
    [] OTHER -> <<m, type>>

GetModDescription(c, m, type) ==
  IF Known(c, m, type) /\ Has(Record(c, m, type), "description")
    THEN Value(Record(c, m, type), "description") ELSE "nothing"

(* FastScanModInfo and Sort_Mod: installed mods first, then those with a    *)
(* type; which of two names comes first is left to Place.                   *)
EntryOf(c, d) == [path |-> d, name |-> d[1], type |-> d[2], on |-> d[3],
                  shown |-> GetMappedModName(c, d[1], d[2])]
OnCard == DOMAIN dirs
Nth(i) == CHOOSE d \in OnCard :
            Cardinality({x \in OnCard : Place[x] < Place[d]}) = i - 1
FastScanModInfo(c) == [i \in 1..Cardinality(OnCard) |-> EntryOf(c, Nth(i))]

-----------------------------------------------------------------------------
(* Moving about *)

OpenGame ==
  /\ menu = "list" /\ menu' = "mods"
  /\ cursor' = AtTop
  /\ cache' = LoadModNameMapping(file)
  /\ modInfo' = FastScanModInfo(cache')
  /\ UNCHANGED <<dirs, inbox, file, ghosts>>

(* The list, the cache and the cursor stay, but no other menu reads them    *)
(* and OpenGame sets them all: the model forgets them here.                 *)
Leave ==
  /\ menu = "mods" /\ menu' = "list"
  /\ cache' = <<>> /\ modInfo' = <<>> /\ cursor' = AtTop /\ half' = {}
  /\ UNCHANGED <<dirs, inbox, file, edits, given, spoiled>>

Move ==
  /\ menu = "mods" /\ modInfo # <<>>
  /\ cursor' \in Moves(cursor, Len(modInfo)) \ {cursor}
  /\ UNCHANGED <<menu, dirs, inbox, file, cache, modInfo, ghosts>>

-----------------------------------------------------------------------------
(* The menu of a mod *)

Position == cursor.index + 1
Selected == modInfo[Position]
Id(e)    == <<e.name, e.type>>

Ask ==
  /\ menu = "mods" /\ modInfo # <<>> /\ edits < MaxEdits
  /\ edits' = edits + 1 /\ menu' = menu

Spoil(ids, when) == spoiled' = IF when THEN spoiled \union ids ELSE spoiled

(* Mutation of GetModDirName: the type is left out of the key.              *)
GetModDirNameUntyped == <<Selected.name, NoType, Selected.on>>
GetModDirName == Selected.path

(* Of an installed mod and one moved away no name is looked up under the    *)
(* key of its path; an installed mod and another of its name share one.     *)
Twin(m, type) == \A on \in BOOLEAN : <<m, type, on>> \in OnCard
Unkept == \/ Selected.path[3] \/ Selected.path \notin OnCard
          \/ Twin(Selected.name, Selected.type)

changemodname == \E t \in Texts :
  /\ Ask
  /\ \E w \in Rewritten(file,
                PutNested(file.members, GetModDirName, "display_name", t)) :
       /\ file' = w.file
       /\ modInfo' = IF w.ok THEN [modInfo EXCEPT ![Position].shown = t] ELSE modInfo
       /\ given' = IF w.ok THEN [given EXCEPT ![Id(Selected)].display_name = t] ELSE given
       /\ Spoil({Id(Selected)}, w.ok /\ Unkept)
  /\ UNCHANGED <<dirs, inbox, cache, cursor, half>>

changemoddescription == \E t \in Texts :
  /\ Ask
  /\ \E w \in Rewritten(file,
                PutNested(file.members, GetModDirName, "description", t)) :
       /\ file' = w.file
       /\ cache' = IF w.ok THEN LoadModNameMapping(w.file) ELSE cache
       /\ given' = IF w.ok THEN [given EXCEPT ![Id(Selected)].description = t] ELSE given
       /\ Spoil({Id(Selected)}, w.ok /\ Unkept)
  /\ UNCHANGED <<dirs, inbox, modInfo, cursor, half>>

(* Mutation of Retyped: an installed mod loses its '$'.                     *)
RetypedUnmarked(mod, type) == <<mod.name, type, FALSE>>
(* Where the code would put a directory; renaming one to its own name may   *)
(* succeed or fail.                                                         *)
Retyped(mod, type) == <<mod.name, type, mod.on>>
MayRename(old, new) == old \in OnCard /\ (new \notin OnCard \/ new = old)
MayNotRename(old, new) == "rename" \in Faults \/ old \notin OnCard \/ new \in OnCard
Renamed(old, new) == [x \in (OnCard \ {old}) \union {new} |->
                        IF x = new THEN dirs[old] ELSE dirs[x]]

(* The directory is renamed first.  When its key cannot be renamed after    *)
(* it, MOD_PATH and MOD_TYPE keep naming what is not on the card any more.  *)
Dialog_MODLIST_TYPE_Menu == \E type \in Types :
  /\ Ask
  /\ LET old == Selected.path  new == Retyped(Selected, type)
         ids == {Id(Selected), <<Selected.name, type>>}
     IN  \/ /\ MayNotRename(old, new)
            /\ UNCHANGED <<dirs, file, cache, modInfo, given, spoiled, half>>
         \/ /\ MayRename(old, new)
            /\ dirs' = Renamed(old, new)
            /\ \E w \in Rewritten(file, RenameOrCreate(file.members,
                          GetModDirName, <<Selected.name, type, FALSE>>)) :
                 /\ file' = w.file
                 /\ IF w.ok
                    THEN /\ modInfo' = [modInfo EXCEPT ![Position].path = new,
                                                       ![Position].type = type]
                         /\ cache' = LoadModNameMapping(w.file)
                         /\ given' = [given EXCEPT ![Id(Selected)] = NotGiven,
                                        ![<<Selected.name, type>>] = given[Id(Selected)]]
                         /\ half' = IF Id(Selected) \in half THEN half \union ids
                                    ELSE half
                    ELSE /\ half' = half \union ids
                         /\ UNCHANGED <<modInfo, cache, given>>
                 /\ Spoil(ids, ~w.ok \/ Selected.path[3] \/ Id(Selected) \in spoiled
                               \/ <<Selected.name, type, TRUE>> \in OnCard)
  /\ UNCHANGED <<inbox, cursor>>

(* Removemodechecklegality and Removemodesingezipmod: what is one ZIP goes  *)
(* back to the drop folder, under another name when its own is taken there. *)
Without(d) == [x \in OnCard \ {d} |-> dirs[x]]
MovedBack(m) == \E n \in IF m \in inbox THEN Mods \ inbox ELSE {m} :
                  inbox' = inbox \union {n}
MayRemove == /\ Ask /\ ~Selected.on /\ Len(modInfo) > 1
             /\ Selected.path \in OnCard /\ dirs[Selected.path] = 1
RemoveEntry == /\ modInfo' = RemoveAt(modInfo, Position)
               /\ cursor' = Shrunk(cursor, Len(modInfo) - 1)
               /\ given' = [given EXCEPT ![Id(Selected)] = NotGiven]

(* Mutation of RemoveMod: the key stays in the file.                        *)
RemoveModUnrecorded ==
  /\ MayRemove /\ MovedBack(Selected.name) /\ RemoveEntry
  /\ dirs' = Without(Selected.path)
  /\ UNCHANGED <<file, cache, spoiled, half>>

(* Neither the directory, now empty, nor the key need go.  The last mod of  *)
(* a game takes the game with it (GameList).                                *)
RemoveMod ==
  /\ MayRemove /\ MovedBack(Selected.name) /\ RemoveEntry
  /\ \/ dirs' = Without(Selected.path) /\ UNCHANGED half
     \/ /\ "rmdir" \in Faults
        /\ dirs' = [dirs EXCEPT ![Selected.path] = 0]
        /\ half' = half \union {Id(Selected)}
  /\ \E w \in Pruned(file, Drop(file.members, Selected.path)) :
       file' = w.file /\ Spoil({Id(Selected)}, ~w.ok \/ Selected.path \in DOMAIN dirs')
  /\ UNCHANGED cache

(* After an installation or uninstallation ModManager models.               *)
ChangeModName ==
  /\ Ask
  /\ LET old == Selected.path  new == <<old[1], old[2], ~Selected.on>>
     IN  /\ old[3] = Selected.on
         /\ MayRename(old, new)
         /\ dirs' = Renamed(old, new)
         /\ modInfo' = [modInfo EXCEPT ![Position].path = new, ![Position].on = ~Selected.on]
  /\ UNCHANGED <<inbox, file, cache, cursor, given, spoiled, half>>

With(d, n) == [x \in OnCard \union {d} |-> IF x = d THEN n ELSE dirs[x]]

(* Dialog_APPENDMOD_Menu for one archive.  A directory that is there        *)
(* already is listed once more; when the archive cannot be moved into it,   *)
(* the directory stays.                                                     *)
AppendMod == \E m \in inbox :
  LET new   == <<m, NoType, FALSE>>
      there == new \in OnCard
      old   == IF there THEN dirs[new] ELSE 0
  IN  /\ Ask
      /\ \/ /\ inbox' = inbox \ {m}
            /\ dirs' = With(new, IF old < 2 THEN old + 1 ELSE 2)
            /\ modInfo' = Append(modInfo, [path |-> new, name |-> m, type |-> NoType,
                                           on |-> FALSE, shown |-> m])
            /\ half' = IF there \/ <<m, NoType, TRUE>> \in OnCard
                       THEN half \union {<<m, NoType>>} ELSE half
         \/ /\ "rename" \in Faults
            /\ dirs' = With(new, old) /\ half' = half \union {<<m, NoType>>}
            /\ UNCHANGED <<inbox, modInfo>>
      /\ UNCHANGED <<file, cache, cursor, given, spoiled>>

Next == \/ OpenGame \/ Leave \/ Move \/ changemodname \/ changemoddescription
        \/ Dialog_MODLIST_TYPE_Menu \/ RemoveMod \/ ChangeModName \/ AppendMod

Spec == Init /\ [][Next]_vars

-----------------------------------------------------------------------------
(* Properties *)

(* The selected mod exists and is on the screen, where it is drawn, however *)
(* the cursor moved, pages were turned and mods were removed.               *)
CursorShown == menu = "mods" /\ modInfo # <<>> => Shown(cursor, Len(modInfo))

(* The name and the description the user gave to a mod that was not         *)
(* installed are shown whenever its list is, whatever is done to it and to  *)
(* others: types change, mods are installed, removed and added.  Left out   *)
(* are mods named or retyped while installed, operations that failed half   *)
(* way (spoiled), and a file that a failed write has cut off.               *)
NamesKept ==
  menu = "mods" /\ ~file.torn =>
    \A i \in DOMAIN modInfo :
      LET e == modInfo[i]  g == given[Id(e)]
      IN  Id(e) \notin spoiled \union half =>
            /\ g.display_name \in {"nothing", e.shown}
            /\ g.description \in {"nothing", GetModDescription(cache, e.name, e.type)}

(* Every key of the file is the directory of a mod, without its '$': a mod  *)
(* that is added again does not find the name of the removed one.           *)
KeysNameMods ==
  ~file.torn =>
    \A i \in DOMAIN file.members :
      LET k == file.members[i][1]
      IN  <<k[1], k[2]>> \in spoiled \/ (~k[3] /\ \E on \in BOOLEAN : <<k[1], k[2], on>> \in OnCard)

(* What the handlers take from the list is on the card: each entry's path   *)
(* exists and is made of its name, type and state, and no mod of the game   *)
(* is missing.  Left out are mods an operation left half way since the      *)
(* list was read.                                                           *)
PathsOnCard ==
  menu = "mods" =>
    /\ \A i \in DOMAIN modInfo :
         LET e == modInfo[i]
         IN  Id(e) \in half \/ (e.path \in OnCard /\ e.path = <<e.name, e.type, e.on>>)
    /\ \A d \in OnCard : <<d[1], d[2]>> \in half \/ \E i \in DOMAIN modInfo : modInfo[i].path = d
=============================================================================
