------------------------------ MODULE GameList ------------------------------
(***************************************************************************)
(* The list of games and the file that keeps their names and favourites,   *)
(* /mods2/game_name.json.  At the start of the program a thread scans      *)
(* /mods2 (FastScanNames) while the constructor of App reads the file;     *)
(* then the user renames games, marks favourites, changes versions, adds   *)
(* and removes games, each time on the card, in the file and in the list.  *)
(* A directory of /mods2 is <<game, version>>.                             *)
(***************************************************************************)
EXTENDS Naturals, Sequences, SequencesExt

CONSTANTS
  Games, Versions, NoVersion,
  Names,       \* what the user or the console may call a game
  Favorites,   \* the key "favorites$180"
  FirstDirs,   \* directories on the card at first
  FirstFiles,  \* what game_name.json may hold then
  Faults,      \* "open", "short" (JsonStore), "rename", "mkdir", "remove",
               \* "services", "crash"
  MaxStarts,   \* bounds on the history: starts of the program, operations,
  MaxEdits, MaxRacedEdits   \* and operations when its scan has raced

ASSUME DirsAssumption ==
  /\ NoVersion \notin Versions
  /\ FirstDirs \subseteq Games \X (Versions \union {NoVersion})
ASSUME BoundsAssumption == {MaxStarts, MaxEdits, MaxRacedEdits} \subseteq Nat

Dirs    == Games \X (Versions \union {NoVersion})
Strings == Names \union Games        \* a game without a name goes by its own
INSTANCE JsonStore

(* The file as the program writes it: the favourites in one object, without *)
(* repetition, and the other games beside it, none of them twice.  A        *)
(* version that is renamed without having been recorded gets an empty       *)
(* object for a name.                                                      *)
Member == ({Favorites} \X Seq(Dirs \X Strings)) \union (Dirs \X (Strings \union {<<>>}))
Nested(o)  == IF Has(o, Favorites) THEN o[Find(o, Favorites)][2] ELSE <<>>
InFile(o, d) == Has(o, d) \/ Has(Nested(o), d)
Neat(o)    == Once(o, Favorites) /\ \A d \in Dirs : Once(Nested(o), d)

ASSUME ObjectsAssumption ==
  /\ Favorites \notin Dirs
  /\ \A s \in Strings : s \notin Seq(Dirs \X Strings)
ASSUME FilesAssumption == \A o \in FirstFiles :
  /\ o \in Seq(Member) /\ Neat(o)
  /\ \A d \in Dirs : /\ InFile(o, d) => d \in FirstDirs
                     /\ ~(Has(o, d) /\ Has(Nested(o), d)) /\ Once(o, d)

VARIABLES
  dirs,      \* the game directories on the card
  bare,      \* those in which the scan counts no mod: empty, without title
             \* id, or every mod's name has a dot in it
  left,      \* those an operation left there without listing them (ghost)
  file,      \* game_name.json
  main,      \* the frame loop: "off", "load", "wait" (LOAD), "list" (LIST)
  toLoad,    \* <<directory, name, favourite>> LoadGameNameMapping has still to store
  names,     \* game_name_cache; a directory without entry shows its game
  favArray, nonArray,   \* favorites_games_array, non_favorites_games_array,
             \* without the order the scan sorts them in
  scan,      \* the scan: "start", "merge", "names", "done", "failed"
  unlisted,  \* dir_paths of scanmodgamedir
  pending,   \* <<directory, favourite, place>>: rest of merged_games
  entries,   \* the list, without its order; see Entry
  job,       \* what the user asked for, and how far it is
  starts, edits,
  raced,     \* the scan read what the constructor was still loading (ghost)
  spoiled    \* games an operation left half recorded (ghost)

card   == <<dirs, bare, left>>
memory == <<toLoad, names, favArray, nonArray, scan, unlisted, pending>>
ghosts == <<starts, edits, raced>>
vars   == <<card, file, main, memory, entries, job, ghosts, spoiled>>

(* Copy 2 is put into a list that holds an entry of its directory already,  *)
(* so that a second entry never coincides with the first.                   *)
Entry == [dir : Dirs, name : Strings, fav : BOOLEAN, copy : 1..2]
Listed(d) == \E e \in entries : e.dir = d
Copy(d)   == IF Listed(d) THEN 2 ELSE 1
NoJob == [op |-> "none"]

FreshMemory ==
  /\ toLoad = <<>> /\ names = [d \in Dirs |-> d[1]]
  /\ favArray = <<>> /\ nonArray = <<>>
  /\ scan = "start" /\ unlisted = {} /\ pending = {}

Init ==
  /\ dirs = FirstDirs /\ bare = {} /\ left = {}
  /\ \E o \in FirstFiles : file = [torn |-> FALSE, members |-> o]
  /\ main = "load" /\ FreshMemory
  /\ entries = {} /\ job = NoJob
  /\ starts = 1 /\ edits = 0 /\ raced = FALSE /\ spoiled = {}

-----------------------------------------------------------------------------
(* The constructor of App, beside the scan it has started *)

MembersToLoadAny ==
  LET Loaded(m) == IF m[1] = Favorites
                     THEN [i \in DOMAIN m[2] |-> Append(m[2][i], TRUE)]
                     ELSE <<Append(m, FALSE)>>
  IN  FlattenSeq([i \in DOMAIN file.members |-> Loaded(file.members[i])])

MembersToLoad ==
  LET Loaded(m) == IF m[1] = Favorites
                     THEN [i \in DOMAIN m[2] |-> Append(m[2][i], TRUE)]
                     ELSE IF IsObject(m[2]) THEN <<>> ELSE <<Append(m, FALSE)>>
  IN  FlattenSeq([i \in DOMAIN file.members |-> Loaded(file.members[i])])

LoadGameNameMapping ==
  /\ main = "load" /\ toLoad = <<>>
  /\ main' = "loading"
  /\ toLoad' = IF file.torn THEN <<>> ELSE MembersToLoad
  /\ UNCHANGED <<card, file, names, favArray, nonArray, scan, unlisted,
                 pending, entries, job, ghosts, spoiled>>

StoreName ==
  /\ main = "loading" /\ toLoad # <<>>
  /\ LET d == Head(toLoad)[1]  fav == Head(toLoad)[3]
     IN  /\ names' = [names EXCEPT ![d] = Head(toLoad)[2]]
         /\ favArray' = IF fav THEN Append(favArray, d) ELSE favArray
         /\ nonArray' = IF fav THEN nonArray ELSE Append(nonArray, d)
  /\ toLoad' = Tail(toLoad)
  /\ UNCHANGED <<card, file, main, scan, unlisted, pending, entries,
                 job, ghosts, spoiled>>

Constructed ==
  /\ main = "loading" /\ toLoad = <<>>
  /\ main' = "wait"
  /\ UNCHANGED <<card, file, memory, entries, job, ghosts, spoiled>>

-----------------------------------------------------------------------------
(* FastScanNames, on its own thread; a step on an array is taken as atomic. *)

Racing   == main \in {"load", "loading"}
ScanFrame == UNCHANGED <<card, file, main, toLoad, names, favArray, nonArray,
                         job, starts, edits, spoiled>>

NoServices ==
  /\ main # "off" /\ scan = "start" /\ "services" \in Faults
  /\ scan' = "failed"
  /\ ScanFrame /\ UNCHANGED <<unlisted, pending, entries, raced>>

(* The directories on the card that are not in the arrays already.          *)
ScanDirsNamedAgain ==
  /\ main # "off" /\ scan = "start"
  /\ unlisted' = dirs \ ToSet(favArray)
  /\ scan' = "merge"
  /\ raced' = Racing
  /\ ScanFrame /\ UNCHANGED <<pending, entries>>
ScanDirs ==
  /\ main # "off" /\ scan = "start"
  /\ unlisted' = dirs \ (ToSet(favArray) \union ToSet(nonArray))
  /\ scan' = "merge"
  /\ raced' = Racing
  /\ ScanFrame /\ UNCHANGED <<pending, entries>>

(* merged_games: a directory as often as the arrays hold it.                *)
Places(a, fav) == {<<a[i], fav, i>> : i \in DOMAIN a}
MergeDirsRecorded ==
  /\ scan = "merge"
  /\ pending' = Places(favArray, TRUE) \union Places(nonArray, FALSE)
  /\ unlisted' = {} /\ scan' = "names"
  /\ raced' = (raced \/ Racing)
  /\ ScanFrame /\ UNCHANGED entries
MergeDirs ==
  /\ scan = "merge"
  /\ pending' = Places(favArray, TRUE) \union Places(nonArray, FALSE)
                \union {<<d, FALSE, 0>> : d \in unlisted}
  /\ unlisted' = {} /\ scan' = "names"
  /\ raced' = (raced \/ Racing)
  /\ ScanFrame /\ UNCHANGED entries

(* Favourites first; a directory of the file that is not on the card, or    *)
(* one in which the scan counts no mod, is passed over.                    *)
ScanName ==
  /\ scan = "names"
  /\ \E p \in pending :
       /\ p[2] \/ \A q \in pending : ~q[2]
       /\ pending' = pending \ {p}
       /\ IF p[1] \in dirs \ bare
            THEN entries' = entries \union
                      {[dir |-> p[1], name |-> names[p[1]], fav |-> p[2],
                        copy |-> Copy(p[1])]}
            ELSE UNCHANGED entries
  /\ raced' = (raced \/ Racing)
  /\ ScanFrame /\ UNCHANGED <<unlisted, scan>>

ScanDone ==
  /\ scan = "names" /\ pending = {}
  /\ scan' = "done"
  /\ ScanFrame /\ UNCHANGED <<unlisted, pending, entries, raced>>

Scan == NoServices \/ ScanDirs \/ MergeDirs \/ ScanName \/ ScanDone

(* UpdateLoad shows the list as soon as it has an entry. *)
ShowList ==
  /\ main = "wait" /\ (entries # {} \/ scan \in {"done", "failed"})
  /\ main' = "list"
  /\ UNCHANGED <<card, file, memory, entries, job, ghosts, spoiled>>

-----------------------------------------------------------------------------
(* What the user does with a game of the list.  A scan may still run.       *)

MayEdit == /\ main = "list" /\ job = NoJob
           /\ edits < IF raced THEN MaxRacedEdits ELSE MaxEdits

Ask(op, e, arg) ==
  /\ MayEdit
  /\ job' = [op |-> op, entry |-> e, arg |-> arg, at |-> 1]
  /\ edits' = edits + 1
  /\ spoiled' = IF raced THEN spoiled \union {e.dir[1]} ELSE spoiled
  /\ UNCHANGED <<card, file, main, memory, entries, starts, raced>>

AskGame ==
  \/ \E e \in entries :
       \/ \E n \in Names : Ask("changegamename", e, n)
       \/ \E v \in Versions : Ask("changemodversion", e, v)
       \/ Ask("RemoveGame", e, NoVersion)
       \/ Ask(IF e.fav THEN "notfavorite" ELSE "tofavorite", e, NoVersion)
  \/ \E g \in Games, n \in Names :
       Ask("addgame", [dir |-> <<g, NoVersion>>, name |-> n, fav |-> FALSE,
                          copy |-> 1], NoVersion)

(* Mods are added to a game of the list or removed from it (see ModList).   *)
ModsChange ==
  /\ MayEdit
  /\ \E e \in entries : e.dir \in dirs /\ bare' \in {bare \ {e.dir}, bare \union {e.dir}}
  /\ edits' = edits + 1
  /\ UNCHANGED <<dirs, left, file, main, memory, entries, job, starts,
                 raced, spoiled>>

Doing(op, step) == job # NoJob /\ job.op = op /\ job.at = step
Done     == job' = NoJob
NextStep == job' = [job EXCEPT !.at = @ + 1]
Dir      == job.entry.dir
EntryIn(d) == [job.entry EXCEPT !.dir = d, !.copy = Copy(d)]
Amend(new) == entries' = (entries \ {job.entry}) \union {new}
Spoil(half) == spoiled' = IF half THEN spoiled \union {Dir[1]} ELSE spoiled
JobFrame == UNCHANGED <<main, memory, ghosts>>

Named(o, d, n)    == Put(o, d, n)
Favored(o, d, n)  == PutNested(o, Favorites, d, n)

changegamename ==
  /\ Doing("changegamename", 1)
  /\ \E r \in Rewritten(file, IF job.entry.fav THEN Favored(file.members, Dir, job.arg)
                                               ELSE Named(file.members, Dir, job.arg)) :
       /\ file' = r.file
       /\ IF r.ok THEN Amend([job.entry EXCEPT !.name = job.arg]) ELSE UNCHANGED entries
  /\ Done /\ JobFrame /\ UNCHANGED <<card, spoiled>>

(* The name leaves one place of the file before it enters the other. *)
tofavorite ==
  \/ /\ Doing("tofavorite", 1)
     /\ \E r \in Pruned(file, Drop(file.members, Dir)) :
          file' = r.file /\ (IF r.ok THEN NextStep ELSE Done)
     /\ JobFrame /\ UNCHANGED <<card, entries, spoiled>>
  \/ /\ Doing("tofavorite", 2)
     /\ \E r \in Rewritten(file, Favored(file.members, Dir, job.entry.name)) :
          /\ file' = r.file /\ Spoil(~r.ok)
          /\ IF r.ok THEN Amend([job.entry EXCEPT !.fav = TRUE]) ELSE UNCHANGED entries
     /\ Done /\ JobFrame /\ UNCHANGED card

notfavorite ==
  \/ /\ Doing("notfavorite", 1)
     /\ \E r \in Pruned(file, DropNested(file.members, Favorites, Dir)) :
          file' = r.file /\ (IF r.ok THEN NextStep ELSE Done)
     /\ JobFrame /\ UNCHANGED <<card, entries, spoiled>>
  \/ /\ Doing("notfavorite", 2)
     /\ \E r \in Rewritten(file, Named(file.members, Dir, job.entry.name)) :
          /\ file' = r.file /\ Spoil(~r.ok)
          /\ IF r.ok THEN Amend([job.entry EXCEPT !.fav = FALSE]) ELSE UNCHANGED entries
     /\ Done /\ JobFrame /\ UNCHANGED card

(* Only a member at the root follows the directory's new name: the name of  *)
(* a favourite stays below "favorites$180" under the old one.               *)
NewDir == <<Dir[1], job.arg>>
changemodversion ==
  \/ /\ Doing("changemodversion", 1)
     /\ \/ /\ NewDir \notin dirs /\ Dir \in dirs
           /\ dirs' = (dirs \ {Dir}) \union {NewDir}
           /\ bare' = IF Dir \in bare THEN (bare \ {Dir}) \union {NewDir} ELSE bare
           /\ NextStep
        \/ /\ NewDir \in dirs \/ Dir \notin dirs \/ "rename" \in Faults
           /\ Done /\ UNCHANGED <<dirs, bare>>
     /\ JobFrame /\ UNCHANGED <<left, file, entries, spoiled>>
  \/ /\ Doing("changemodversion", 2)
     /\ \E r \in Rewritten(file, RenameOrCreate(file.members, Dir, NewDir)) :
          file' = r.file /\ Spoil(~r.ok \/ job.entry.fav)
     /\ Amend(EntryIn(NewDir))
     /\ Done /\ JobFrame /\ UNCHANGED card

(* Refused when a mod is installed or cannot be moved out, and then some    *)
(* mods are gone already.  That a directory cannot be removed goes          *)
(* unnoticed: the game leaves the list and the file but not the card.      *)
RemoveGame ==
  \/ /\ Doing("RemoveGame", 1)
     /\ \/ /\ Dir \in dirs /\ NextStep
           /\ \/ dirs' = dirs \ {Dir} /\ bare' = bare \ {Dir} /\ UNCHANGED left
              \/ /\ "remove" \in Faults /\ bare' \in {bare, bare \union {Dir}}
                 /\ left' = left \union {Dir} /\ UNCHANGED dirs
        \/ /\ Done /\ bare' \in {bare, bare \union (dirs \intersect {Dir})}
           /\ UNCHANGED <<dirs, left>>
     /\ JobFrame /\ UNCHANGED <<file, entries, spoiled>>
  \/ /\ Doing("RemoveGame", 2)
     /\ \E r \in Pruned(file, DropNested(file.members, Favorites, Dir)) :
          file' = r.file /\ Spoil(~r.ok)
     /\ NextStep /\ JobFrame /\ UNCHANGED <<card, entries>>
  \/ /\ Doing("RemoveGame", 3)
     /\ \E r \in Pruned(file, Drop(file.members, Dir)) :
          file' = r.file /\ Spoil(~r.ok)
     /\ entries' = entries \ {job.entry}
     /\ Done /\ JobFrame /\ UNCHANGED card

(* The worker of Dialog_ADDGAME_Menu (see AppTasks).  It refuses a game     *)
(* whose directory is there.  It ends without listing the game when the     *)
(* second directory cannot be made, or when B stops it before an archive.   *)
(* Archives that cannot be moved are passed over: none may be left.        *)
AddGame ==
  \/ /\ Doing("addgame", 1)
     /\ \/ (Dir \in dirs \/ "mkdir" \in Faults) /\ Done /\ UNCHANGED card
        \/ /\ Dir \notin dirs /\ dirs' = dirs \union {Dir}
           /\ bare' \in {bare, bare \union {Dir}}
           /\ \/ NextStep /\ UNCHANGED left
              \/ Done /\ left' = left \union {Dir}
     /\ JobFrame /\ UNCHANGED <<file, entries, spoiled>>
  \/ /\ Doing("addgame", 2)
     /\ \E r \in Rewritten(file, Named(file.members, Dir, job.entry.name)) :
          file' = r.file /\ Spoil(~r.ok)
     /\ entries' = entries \union {EntryIn(Dir)}
     /\ Done /\ JobFrame /\ UNCHANGED card

Edit == \/ changegamename \/ tofavorite \/ notfavorite \/ changemodversion
        \/ RemoveGame \/ AddGame

-----------------------------------------------------------------------------
Forget ==
  /\ toLoad' = <<>> /\ names' = [d \in Dirs |-> d[1]]
  /\ favArray' = <<>> /\ nonArray' = <<>>
  /\ scan' = "start" /\ unlisted' = {} /\ pending' = {}
  /\ entries' = {} /\ job' = NoJob /\ raced' = FALSE /\ left' = {}

Quit ==
  /\ main \in {"wait", "list"} /\ job = NoJob
  /\ main' = "off" /\ Forget
  /\ UNCHANGED <<dirs, bare, file, starts, edits, spoiled>>

(* Between operations a power loss leaves what Quit leaves. *)
Crash ==
  /\ "crash" \in Faults /\ job # NoJob
  /\ main' = "off" /\ Forget /\ Spoil(TRUE)
  /\ UNCHANGED <<dirs, bare, file, starts, edits>>

Start ==
  /\ main = "off" /\ starts < MaxStarts
  /\ main' = "load" /\ starts' = starts + 1
  /\ UNCHANGED <<card, file, memory, entries, job, edits, raced, spoiled>>

Next == \/ LoadGameNameMapping \/ StoreName \/ Constructed \/ Scan \/ ShowList
        \/ AskGame \/ ModsChange \/ Edit \/ Quit \/ Crash \/ Start

Spec == Init /\ [][Next]_vars

-----------------------------------------------------------------------------
(* Properties *)

TypeOK ==
  /\ dirs \subseteq Dirs /\ bare \subseteq dirs /\ left \subseteq Dirs
  /\ file.torn \in BOOLEAN
  /\ main \in {"off", "load", "loading", "wait", "list"}
  /\ names \in [Dirs -> Strings]
  /\ favArray \in Seq(Dirs) /\ nonArray \in Seq(Dirs)
  /\ scan \in {"start", "merge", "names", "done", "failed"}
  /\ unlisted \subseteq Dirs /\ pending \subseteq Dirs \X BOOLEAN \X Nat
  /\ entries \subseteq Entry
  /\ job = NoJob \/ job.entry \in Entry
  /\ spoiled \subseteq Games

(* What the next start would show of a directory. *)
Own(o, d) == {i \in DOMAIN o : o[i][1] = d /\ ~IsObject(o[i][2])}
Recorded(o, d) ==
  IF Has(Nested(o), d) THEN [name |-> Nested(o)[Find(Nested(o), d)][2], fav |-> TRUE]
  ELSE [name |-> IF Own(o, d) = {} THEN d[1] ELSE o[Max(Own(o, d))][2], fav |-> FALSE]

Settled   == job = NoJob /\ ~raced /\ ~file.torn
Spoilt(d) == d[1] \in spoiled

(* A game shows the name and the star the next start will read for it: list, *)
(* card and file agree whenever no operation is under way.                  *)
ListSurvivesRestart ==
  Settled => \A e \in entries : ~Spoilt(e.dir) =>
    /\ e.dir \in dirs
    /\ Recorded(file.members, e.dir) = [name |-> e.name, fav |-> e.fav]

(* No game is in the list twice, though scanmodgamedir puts two arrays and  *)
(* the card's directories one after the other and the user edits while the  *)
(* scan runs: no two entries are of one directory.  Excepted are games an   *)
(* operation left half recorded, which the file may name in both places.   *)
ListedOnce ==
  ~raced => \A e, f \in entries : e.dir = f.dir /\ ~Spoilt(e.dir) => e = f

(* When the scan is over, every game directory with a mod the scan counts   *)
(* is in the list, however the scan raced with the constructor.  Excepted,  *)
(* until the next start, are the directories an operation has left there    *)
(* while it listed nothing: an addition that was stopped or failed half     *)
(* way, a removal whose directory could not be removed.                    *)
AllListed ==
  scan = "done" /\ job = NoJob =>
    \A d \in dirs \ (bare \union left) : Listed(d)

(* The file names no directory that is gone: a game that is added again     *)
(* does not come back with an old star.                                     *)
KeysNameGames ==
  Settled => \A d \in Dirs : ~Spoilt(d) /\ InFile(file.members, d) => d \in dirs

(* Whatever one operation does or fails to do, what the next start shows of *)
(* every other game stays the same, unless the file is torn.                *)
OthersSpared ==
  [][~file'.torn => \A d \in Dirs : Recorded(file.members, d)' # Recorded(file.members, d) =>
       job # NoJob /\ job.entry.dir[1] = d[1]]_vars
=============================================================================
