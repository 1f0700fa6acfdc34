--------------------------- MODULE GameListProofs ---------------------------
(***************************************************************************)
(* Proofs about GameList for any games, versions, names and faults, and    *)
(* any file the program may have left.  First, from the list and the card  *)
(* alone: no game directory is missing once the scan is over, however it   *)
(* raced with the constructor.  Then the types, and what an operation does *)
(* to the record of other games.  Last, what the list, the card and        *)
(* game_name.json agree on: no key without a directory, no directory       *)
(* listed twice, and a list that is the one the next start shows.          *)
(***************************************************************************)
EXTENDS GameList, ObjectsProofs, TLAPS

USE DEF card

Idle == main \in {"off", "load", "loading", "wait"} /\ job = NoJob /\ entries = {}

(* A directory reaches the list through one of the sources of the scan, or  *)
(* by the operation that creates it.                                       *)
OnTheWay(d) ==
  CASE scan = "start" -> TRUE
    [] scan = "merge" -> d \in ToSet(favArray) \union ToSet(nonArray) \union unlisted
    [] scan = "names" -> \E b, i : <<d, b, i>> \in pending
    [] OTHER -> scan = "failed"
Arriving(d) == job # NoJob /\ job.at = 2
               /\ \/ job.op = "changemodversion" /\ d = NewDir
                  \/ job.op = "addgame" /\ d = Dir

(* The directory an operation has renamed or removed is gone, unless it     *)
(* could not be removed.                                                   *)
Leaving == job # NoJob /\ (\/ job.op = "changemodversion" /\ job.at = 2
                           \/ job.op = "RemoveGame" /\ job.at \in {2, 3})

(* The form of entries and operations, whatever the names in them. *)
IsEntry(e) == \E d, n, f, x : e = [dir |-> d, name |-> n, fav |-> f, copy |-> x]
IsJob(j)   == \E op, e, a, k : IsEntry(e) /\ j = [op |-> op, entry |-> e, arg |-> a, at |-> k]

ListInv ==
  /\ \A e \in entries : IsEntry(e)
  /\ job # NoJob => IsJob(job)
  /\ scan \in {"start", "merge", "names", "done", "failed"}
  /\ scan \in {"start", "merge"} => Idle
  /\ main \in {"off", "load"} => toLoad = <<>>
  /\ favArray \in Seq(ToSet(favArray)) /\ nonArray \in Seq(ToSet(nonArray))
  /\ Leaving => Dir \notin dirs \/ Dir \in left
  /\ \A d \in dirs \ (bare \union left) : OnTheWay(d) \/ Listed(d) \/ Arriving(d)

LEMMA NoDirs == <<>> \in Seq(ToSet(<<>>))
BY EmptySeq

LEMMA ListInvInit == Init => ListInv
BY NoDirs DEF Init, ListInv, FreshMemory, Idle, Leaving, OnTheWay, NoJob

LEMMA LoadPreserves ==
  ASSUME ListInv, LoadGameNameMapping \/ Constructed \/ StoreName \/ ShowList
  PROVE  ListInv'
<1> USE DEF ListInv, Leaving, OnTheWay, Listed, Arriving, Idle, NewDir, Dir
<1>1. CASE LoadGameNameMapping
  BY <1>1 DEF LoadGameNameMapping
<1>2. CASE Constructed
  BY <1>2 DEF Constructed, memory
<1>3. CASE StoreName
  <2>1. PICK d : /\ favArray' = favArray \/ favArray' = Append(favArray, d)
                 /\ nonArray' = nonArray \/ nonArray' = Append(nonArray, d)
    BY <1>3 DEF StoreName
  <2>2. /\ ToSet(favArray) \subseteq ToSet(favArray')
        /\ ToSet(nonArray) \subseteq ToSet(nonArray')
        /\ favArray' \in Seq(ToSet(favArray')) /\ nonArray' \in Seq(ToSet(nonArray'))
    <3>1. /\ ToSet(favArray) \subseteq ToSet(Append(favArray, d))
          /\ Append(favArray, d) \in Seq(ToSet(Append(favArray, d)))
      BY AppendSet
    <3>2. /\ ToSet(nonArray) \subseteq ToSet(Append(nonArray, d))
          /\ Append(nonArray, d) \in Seq(ToSet(Append(nonArray, d)))
      BY AppendSet
    <3> QED BY <2>1, <3>1, <3>2
  <2>3. UNCHANGED <<card, scan, unlisted, pending, entries, job>> /\ main = "loading" /\ main' = main
    BY <1>3 DEF StoreName
  <2> QED BY <2>2, <2>3
<1>4. CASE ShowList
  BY <1>4 DEF ShowList, memory
<1>5. QED
  BY <1>1, <1>2, <1>3, <1>4

LEMMA ScanPreserves ==
  ASSUME ListInv, Scan
  PROVE  ListInv'
<1> USE DEF ListInv, Leaving, OnTheWay, Listed, Arriving, Idle, NewDir, Dir, ScanFrame
<1>1. CASE NoServices
  BY <1>1 DEF NoServices
<1>2. CASE ScanDirs
  BY <1>2 DEF ScanDirs
<1>3. CASE MergeDirs
  <2>1. /\ scan = "merge" /\ scan' = "names"
        /\ pending' = Places(favArray, TRUE) \union Places(nonArray, FALSE)
                      \union {<<d, FALSE, 0>> : d \in unlisted}
        /\ UNCHANGED <<card, main, toLoad, favArray, nonArray, entries, job>>
    BY <1>3 DEF MergeDirs
  <2>2. ASSUME NEW d, OnTheWay(d)
        PROVE  OnTheWay(d)'
    <3>1. CASE d \in ToSet(favArray)
      <4>1. PICK i \in DOMAIN favArray : d = favArray[i]
        BY <3>1 DEF ToSet
      <4>2. <<d, TRUE, i>> \in pending'
        BY <2>1, <4>1 DEF Places
      <4> QED BY <2>1, <4>2
    <3>2. CASE d \in ToSet(nonArray)
      <4>1. PICK i \in DOMAIN nonArray : d = nonArray[i]
        BY <3>2 DEF ToSet
      <4>2. <<d, FALSE, i>> \in pending'
        BY <2>1, <4>1 DEF Places
      <4> QED BY <2>1, <4>2
    <3>3. CASE d \in unlisted
      <4>1. <<d, FALSE, 0>> \in pending'
        BY <2>1, <3>3
      <4> QED BY <2>1, <4>1
    <3> QED BY <2>1, <2>2, <3>1, <3>2, <3>3
  <2> HIDE DEF OnTheWay
  <2> QED BY <2>1, <2>2
<1>4. CASE ScanName
  <2>1. PICK p \in pending :
          /\ pending' = pending \ {p}
          /\ entries' = IF p[1] \in dirs \ bare
                          THEN entries \union {[dir |-> p[1], name |-> names[p[1]], fav |-> p[2],
                                                copy |-> Copy(p[1])]}
                          ELSE entries
    BY <1>4 DEF ScanName
  <2>2. /\ scan = "names" /\ UNCHANGED <<card, main, toLoad, scan, favArray, nonArray, unlisted, job>>
    BY <1>4 DEF ScanName
  <2>3. ASSUME NEW d \in dirs \ (bare \union left)
        PROVE  OnTheWay(d)' \/ Listed(d)' \/ Arriving(d)'
    <3>1. CASE Listed(d)
      BY <2>1, <3>1
    <3>2. CASE Arriving(d)
      BY <2>2, <3>2
    <3>3. CASE OnTheWay(d)
      <4>1. PICK b, i : <<d, b, i>> \in pending
        BY <2>2, <3>3
      <4>2. CASE p = <<d, b, i>>
        <5>1. [dir |-> d, name |-> names[d], fav |-> p[2], copy |-> Copy(p[1])] \in entries'
          BY <2>1, <4>2
        <5>2. QED
          BY <5>1
      <4>3. CASE p # <<d, b, i>>
        BY <2>1, <2>2, <4>1, <4>3
      <4>4. QED
        BY <4>2, <4>3
    <3>4. QED
      BY <3>1, <3>2, <3>3
  <2>4. \A e \in entries' : IsEntry(e)
    BY <2>1 DEF IsEntry
  <2>5. QED
    BY <2>2, <2>3, <2>4
<1>5. CASE ScanDone
  BY <1>5 DEF ScanDone
<1>6. QED
  BY <1>1, <1>2, <1>3, <1>4, <1>5 DEF Scan

LEMMA AskPreserves ==
  ASSUME ListInv, AskGame
  PROVE  ListInv'
<1>1. PICK op, e, arg : Ask(op, e, arg) /\ IsEntry(e)
  <2>1. \A g, n : IsEntry([dir |-> <<g, NoVersion>>, name |-> n, fav |-> FALSE,
                         copy |-> 1])
    BY DEF IsEntry
  <2>2. QED
    BY <2>1 DEF AskGame, ListInv
<1>2. job' = [op |-> op, entry |-> e, arg |-> arg, at |-> 1] /\ job = NoJob
  BY <1>1 DEF Ask, MayEdit
<1>3. IsJob(job')
  BY <1>1, <1>2 DEF IsJob
<1>4. ~Leaving' /\ (\A d : ~Arriving(d)) /\ (\A d : ~Arriving(d)')
  BY <1>2 DEF Leaving, Arriving
<1>5. QED
  BY <1>1, <1>2, <1>3, <1>4 DEF Ask, MayEdit, ListInv, OnTheWay, Listed, Idle, memory

(* An operation that leaves the card, amends at most its own entry and      *)
(* keeps that entry's directory, and then ends or goes on with a step that  *)
(* neither brings nor takes a directory.                                   *)
LEMMA AmendPreserves ==
  ASSUME ListInv, job # NoJob, ~Leaving, JobFrame, UNCHANGED card,
         NEW new, IsEntry(new), new.dir = Dir,
         \A d : ~Arriving(d),
         Amend(new) \/ UNCHANGED entries,
         job' = NoJob \/ (NextStep /\ job.op \in {"tofavorite", "notfavorite"})
  PROVE  ListInv'
<1>1. PICK op, e, a, k : IsEntry(e) /\ job = [op |-> op, entry |-> e, arg |-> a, at |-> k]
  BY DEF ListInv, IsJob
<1>2. job' = NoJob \/ (job' = [op |-> op, entry |-> e, arg |-> a, at |-> k + 1]
                        /\ op \in {"tofavorite", "notfavorite"})
  BY <1>1 DEF NextStep
<1>3. job' # NoJob => IsJob(job')
  BY <1>1, <1>2 DEF IsJob
<1>4. ~Leaving' /\ \A d : ~Arriving(d)'
  BY <1>2 DEF Leaving, Arriving, NoJob
<1>5. \A d : Listed(d) => Listed(d)'
  BY DEF Listed, Amend, Dir
<1>6. \A d : OnTheWay(d) => OnTheWay(d)'
  BY DEF OnTheWay, JobFrame, memory
<1>7. \A d \in dirs' \ (bare' \union left') : OnTheWay(d)' \/ Listed(d)' \/ Arriving(d)'
  BY <1>5, <1>6 DEF ListInv
<1>8. \A f \in entries' : IsEntry(f)
  BY DEF ListInv, Amend
<1>9. scan \notin {"start", "merge"}
  BY DEF ListInv, Idle
<1>10. QED
  BY <1>3, <1>4, <1>7, <1>8, <1>9 DEF ListInv, JobFrame, memory

LEMMA EntryInForm ==
  ASSUME NEW d, NEW n, NEW f, NEW y, NEW v,
         job.entry = [dir |-> d, name |-> n, fav |-> f, copy |-> y]
  PROVE  EntryIn(v) = [dir |-> v, name |-> n, fav |-> f, copy |-> Copy(v)]
<1>1. EntryIn(v) = [[job.entry EXCEPT !.dir = v] EXCEPT !.copy = Copy(v)]
  BY DEF EntryIn
<1>2. [job.entry EXCEPT !.dir = v] = [dir |-> v, name |-> n, fav |-> f, copy |-> y]
  OBVIOUS
<1>3. \A z : [[dir |-> v, name |-> n, fav |-> f, copy |-> y] EXCEPT !.copy = z]
          = [dir |-> v, name |-> n, fav |-> f, copy |-> z]
  OBVIOUS
<1> QED BY <1>1, <1>2, <1>3

LEMMA EditPreserves ==
  ASSUME ListInv, Edit
  PROVE  ListInv'
<1>0. job # NoJob
  BY DEF Edit, changegamename, tofavorite, notfavorite, changemodversion, RemoveGame, AddGame, Doing
<1>a. PICK op, e, a, k : IsEntry(e) /\ job = [op |-> op, entry |-> e, arg |-> a, at |-> k]
  BY <1>0 DEF ListInv, IsJob
<1>b. PICK d, n, f, y : e = [dir |-> d, name |-> n, fav |-> f, copy |-> y]
  BY <1>a DEF IsEntry
<1>h. job.entry = [dir |-> d, name |-> n, fav |-> f, copy |-> y] /\ Dir = d
  BY <1>a, <1>b DEF Dir
<1>c. /\ \A m : IsEntry([job.entry EXCEPT !.name = m]) /\ [job.entry EXCEPT !.name = m].dir = Dir
      /\ \A b : IsEntry([job.entry EXCEPT !.fav = b]) /\ [job.entry EXCEPT !.fav = b].dir = Dir
  <2>2. ASSUME NEW m
        PROVE  IsEntry([job.entry EXCEPT !.name = m]) /\ [job.entry EXCEPT !.name = m].dir = Dir
    <3>1. [job.entry EXCEPT !.name = m] = [dir |-> d, name |-> m, fav |-> f, copy |-> y]
      BY <1>h
    <3>2. QED
      BY <1>h, <3>1 DEF IsEntry
  <2>3. ASSUME NEW b
        PROVE  IsEntry([job.entry EXCEPT !.fav = b]) /\ [job.entry EXCEPT !.fav = b].dir = Dir
    <3>1. [job.entry EXCEPT !.fav = b] = [dir |-> d, name |-> n, fav |-> b, copy |-> y]
      BY <1>h
    <3>2. QED
      BY <1>h, <3>1 DEF IsEntry
  <2>4. QED
    BY <2>2, <2>3
<1>1. CASE changegamename
  BY <1>0, <1>1, <1>c, AmendPreserves DEF changegamename, Done, Doing, Leaving, Arriving
<1>2. CASE tofavorite
  BY <1>0, <1>2, <1>c, AmendPreserves DEF tofavorite, Done, Doing, Leaving, Arriving
<1>3. CASE notfavorite
  BY <1>0, <1>3, <1>c, AmendPreserves DEF notfavorite, Done, Doing, Leaving, Arriving
<1>9. scan \notin {"start", "merge"}
  BY <1>0 DEF ListInv, Idle
<1>d. \A x \in Nat : [job EXCEPT !.at = x] = [op |-> op, entry |-> e, arg |-> a, at |-> x]
  BY <1>a
<1>e. \A x \in Nat : job.at = x /\ NextStep =>
        /\ job' = [op |-> op, entry |-> e, arg |-> a, at |-> x + 1]
        /\ IsJob(job') /\ NewDir' = NewDir /\ Dir' = Dir
  BY <1>a, <1>d DEF NextStep, IsJob, NewDir, Dir
<1>f. \A x : OnTheWay(x) /\ JobFrame => OnTheWay(x)'
  BY DEF OnTheWay, JobFrame, memory
<1>g. CASE /\ Done /\ UNCHANGED entries /\ JobFrame /\ \A x : ~Arriving(x)
           /\ dirs' \ (bare' \union left') \subseteq dirs \ (bare \union left)
  BY <1>9, <1>f, <1>g DEF Done, ListInv, Listed, Arriving, Leaving, JobFrame, memory
<1>4. CASE changemodversion
  <2>1. CASE Doing("changemodversion", 1) /\ NextStep
    <3>1. job.op = "changemodversion" /\ job.at = 1
      BY <2>1 DEF Doing
    <3>2. job' # NoJob /\ job'.op = "changemodversion" /\ job'.at = 2
      BY <1>a, <1>e, <2>1, <3>1 DEF NoJob
    <3>3. /\ NewDir \notin dirs /\ Dir \in dirs /\ dirs' = (dirs \ {Dir}) \union {NewDir}
          /\ bare' \subseteq (bare \ {Dir}) \union {NewDir} /\ bare \ {Dir} \subseteq bare'
          /\ JobFrame /\ UNCHANGED <<left, entries>> /\ Dir # NewDir
      BY <1>4, <3>1, <3>2 DEF changemodversion, Doing, Done
    <3>4. QED
      BY <1>9, <1>e, <1>f, <2>1, <3>1, <3>2, <3>3
      DEF ListInv, Listed, Arriving, Leaving, JobFrame, memory
  <2>2. CASE Doing("changemodversion", 1) /\ ~NextStep
    BY <1>4, <1>g, <2>2 DEF changemodversion, Doing, Arriving
  <2>3. CASE Doing("changemodversion", 2)
    <3>1. /\ Amend(EntryIn(NewDir))
          /\ job' = NoJob /\ JobFrame /\ UNCHANGED card
          /\ job.op = "changemodversion" /\ job.at = 2
      BY <1>4, <2>3 DEF changemodversion, Doing, Done
    <3>2. EntryIn(NewDir) = [dir |-> NewDir, name |-> n, fav |-> f, copy |-> Copy(NewDir)]
      BY <1>h, EntryInForm
    <3>3. Dir \notin dirs \/ Dir \in left
      BY <1>0, <3>1 DEF ListInv, Leaving
    <3>4. \A x \in dirs \ left : Listed(x) \/ Arriving(x) => Listed(x)'
      BY <3>1, <3>2, <3>3 DEF Listed, Arriving, Amend, Dir
    <3>5. \A g \in entries' : IsEntry(g)
      BY <3>1, <3>2 DEF ListInv, Amend, IsEntry
    <3>6. QED
      BY <1>9, <1>f, <3>1, <3>4, <3>5 DEF ListInv, Leaving, JobFrame, memory
  <2>4. QED
    BY <1>4, <2>1, <2>2, <2>3 DEF changemodversion
<1>5. CASE RemoveGame
  <2>1. CASE Doing("RemoveGame", 1) /\ NextStep
    <3>1. /\ \/ dirs' = dirs \ {Dir} /\ bare' = bare \ {Dir} /\ left' = left
             \/ dirs' = dirs /\ bare \subseteq bare' /\ left' = left \union {Dir}
          /\ JobFrame /\ UNCHANGED entries /\ job.op = "RemoveGame" /\ job.at = 1
      BY <1>5, <2>1 DEF RemoveGame, Doing, Done, NextStep, NoJob
    <3>2. QED
      BY <1>9, <1>e, <1>f, <2>1, <3>1 DEF ListInv, Listed, Arriving, Leaving, JobFrame, memory
  <2>2. CASE Doing("RemoveGame", 1) /\ ~NextStep
    BY <1>5, <1>g, <2>2 DEF RemoveGame, Doing, Arriving
  <2>3. CASE Doing("RemoveGame", 2)
    <3>1. /\ NextStep /\ JobFrame /\ UNCHANGED <<card, entries>> /\ job.op = "RemoveGame" /\ job.at = 2
      BY <1>5, <2>3 DEF RemoveGame, Doing
    <3>2. QED
      BY <1>0, <1>9, <1>e, <1>f, <3>1 DEF ListInv, Listed, Arriving, Leaving, JobFrame, memory
  <2>4. CASE Doing("RemoveGame", 3)
    <3>1. /\ entries' = entries \ {job.entry} /\ job' = NoJob /\ JobFrame /\ UNCHANGED card
          /\ job.op = "RemoveGame" /\ job.at = 3
      BY <1>5, <2>4 DEF RemoveGame, Doing, Done
    <3>2. Dir \notin dirs \/ Dir \in left
      BY <1>0, <3>1 DEF ListInv, Leaving
    <3>3. QED
      BY <1>9, <1>f, <3>1, <3>2 DEF ListInv, Listed, Arriving, Leaving, JobFrame, memory, Dir
  <2>5. QED
    BY <1>5, <2>1, <2>2, <2>3, <2>4 DEF RemoveGame
<1>6. CASE AddGame
  <2>1. CASE Doing("addgame", 1) /\ NextStep
    <3>1. /\ dirs' = dirs \union {Dir} /\ bare \subseteq bare' /\ left' = left /\ JobFrame /\ UNCHANGED entries /\ job.op = "addgame" /\ job.at = 1
      BY <1>6, <2>1 DEF AddGame, Doing, Done, NextStep, NoJob
    <3>2. job' # NoJob /\ job'.op = "addgame" /\ job'.at = 2
      BY <1>a, <1>e, <2>1, <3>1 DEF NoJob
    <3>3. QED
      BY <1>9, <1>e, <1>f, <2>1, <3>1, <3>2 DEF ListInv, Listed, Arriving, Leaving, JobFrame, memory
  <2>2. CASE Doing("addgame", 1) /\ ~NextStep
    <3>1. /\ Done /\ JobFrame /\ UNCHANGED entries /\ job.at = 1
          /\ \/ UNCHANGED card
             \/ dirs' = dirs \union {Dir} /\ bare \subseteq bare' /\ left' = left \union {Dir}
      BY <1>6, <2>2 DEF AddGame, Doing
    <3>2. \A x : ~Arriving(x)
      BY <3>1 DEF Arriving
    <3> QED BY <1>g, <3>1, <3>2
  <2>3. CASE Doing("addgame", 2)
    <3>1. /\ entries' = entries \union {EntryIn(Dir)}
          /\ job' = NoJob /\ JobFrame /\ UNCHANGED card
          /\ job.op = "addgame" /\ job.at = 2
      BY <1>6, <2>3 DEF AddGame, Doing, Done
    <3>3. /\ EntryIn(Dir).dir = Dir
          /\ IsEntry(EntryIn(Dir))
      <4>1. EntryIn(Dir) = [dir |-> d, name |-> n, fav |-> f, copy |-> Copy(Dir)]
        BY <1>h, EntryInForm
      <4>2. \A z : LET g == [dir |-> d, name |-> n, fav |-> f, copy |-> z]
                   IN  g.dir = d /\ IsEntry(g)
        BY DEF IsEntry
      <4> QED BY <1>h, <4>1, <4>2
    <3>2. QED
      BY <1>9, <1>f, <3>1, <3>3 DEF ListInv, Listed, Arriving, Leaving, JobFrame, memory, Dir
  <2>4. QED
    BY <1>6, <2>1, <2>2, <2>3 DEF AddGame
<1>7. QED
  BY <1>1, <1>2, <1>3, <1>4, <1>5, <1>6 DEF Edit

(* Mods that come and go change what the next scan counts, not this list.   *)
LEMMA ModsPreserve ==
  ASSUME ListInv, ModsChange
  PROVE  ListInv'
<1>1. PICK e \in entries : bare \ {e.dir} \subseteq bare'
  BY DEF ModsChange
<1>2. UNCHANGED <<dirs, left, main, memory, entries, job>>
  BY DEF ModsChange
<1>3. \A d : /\ OnTheWay(d) <=> OnTheWay(d)'
             /\ Listed(d) <=> Listed(d)'
             /\ Arriving(d) <=> Arriving(d)'
  BY <1>2 DEF OnTheWay, Listed, Arriving, NewDir, Dir, memory
<1>4. Listed(e.dir)
  BY DEF Listed
<1>5. Leaving' <=> Leaving
  BY <1>2 DEF Leaving
<1> QED BY <1>1, <1>2, <1>3, <1>4, <1>5 DEF ListInv, Idle, Dir, memory

LEMMA SessionPreserves ==
  ASSUME ListInv, Quit \/ Crash \/ Start \/ UNCHANGED vars
  PROVE  ListInv'
<1> USE DEF ListInv, Leaving, OnTheWay, Listed, Arriving, Idle, NoJob
<1>1. CASE Quit
  BY <1>1, NoDirs DEF Quit, Forget
<1>2. CASE Crash
  BY <1>2, NoDirs DEF Crash, Forget
<1>3. CASE Start
  BY <1>3 DEF Start, memory, NewDir, Dir
<1>4. CASE UNCHANGED vars
  BY <1>4 DEF vars, memory, NewDir, Dir
<1>5. QED
  BY <1>1, <1>2, <1>3, <1>4

(* When the scan has ended without failing and no operation is half way,    *)
(* every directory of /mods2 in which the scan counts a mod is in the list, *)
(* but for those that an addition or a removal of this start has left.      *)
THEOREM NoGameMissing == Spec => []AllListed
<1>1. Init => ListInv
  BY ListInvInit
<1>2. ListInv /\ [Next]_vars => ListInv'
  BY LoadPreserves, ScanPreserves, AskPreserves, EditPreserves, ModsPreserve, SessionPreserves
  DEF Next
<1>3. ListInv => AllListed
  BY DEF ListInv, AllListed, OnTheWay, Listed, Arriving, NoJob
<1>4. QED
  BY <1>1, <1>2, <1>3, PTL DEF Spec

-----------------------------------------------------------------------------
(* What the operations on the file keep *)

Nest == Seq(Dirs \X Strings)

(* The two files agree on what they hold of d.                              *)
SameView(t, o, d) ==
  /\ Has(t, d) <=> Has(o, d)
  /\ Has(Nested(t), d) <=> Has(Nested(o), d)
  /\ Recorded(t, d) = Recorded(o, d)
  /\ Once(o, d) => Once(t, d)

LEMMA FavoritesFound ==
  ASSUME NEW o \in Seq(Member), Has(o, Favorites)
  PROVE  /\ Find(o, Favorites) \in 1..Len(o) /\ Find(o, Favorites) \in DOMAIN o
         /\ o[Find(o, Favorites)][1] = Favorites
         /\ o[Find(o, Favorites)][2] \in Nest /\ IsObject(o[Find(o, Favorites)][2])
<1> DEFINE p == Find(o, Favorites)
<1>1. p \in 1..Len(o) /\ o[p][1] = Favorites
  BY FindFirst
<1>2. DOMAIN o = 1..Len(o)
  BY LenProperties
<1>3. o[p] \in Member
  BY <1>1, ElementOfSeq
<1> HIDE DEF p
<1>4. o[p][2] \in Nest
  BY <1>1, <1>3, ObjectsAssumption DEF Member, Nest
<1>5. IsObject(o[p][2])
  BY <1>4, ObjectsAssumption DEF IsObject, Nest
<1> QED BY <1>1, <1>2, <1>4, <1>5 DEF p

LEMMA NestedIs ==
  ASSUME NEW o \in Seq(Member)
  PROVE  Nested(o) \in Nest
BY FavoritesFound, EmptySeq DEF Nested, Nest

(* A file that differs in keys other than d.                                *)
LEMMA RootSame ==
  ASSUME NEW o \in Seq(Member), NEW t \in Seq(Member), NEW K, SameBut(t, o, K),
         NEW d, d \notin K
  PROVE  /\ Has(t, d) <=> Has(o, d)
         /\ Own(t, d) = {} <=> Own(o, d) = {}
         /\ Own(o, d) # {} => t[Max(Own(t, d))] = o[Max(Own(o, d))]
<1>1. Own(t, d) = Having(t, d, Strings) /\ Own(o, d) = Having(o, d, Strings)
  BY DEF Own, Having, IsObject
<1>2. Has(t, d) <=> Has(o, d)
  BY SameHas
<1>3. /\ Having(t, d, Strings) = {} <=> Having(o, d, Strings) = {}
      /\ Having(o, d, Strings) # {} => t[Max(Having(t, d, Strings))] = o[Max(Having(o, d, Strings))]
  BY SameLast
<1> QED BY <1>1, <1>2, <1>3

LEMMA RootChange ==
  ASSUME NEW o \in Seq(Member), Neat(o), NEW t \in Seq(Member),
         NEW K \in SUBSET Dirs, SameBut(t, o, K)
  PROVE  /\ Nested(t) = Nested(o) /\ Neat(t)
         /\ \A d \in Dirs \ K : SameView(t, o, d)
<1>1. Favorites \notin K
  BY ObjectsAssumption
<1>2. Has(t, Favorites) <=> Has(o, Favorites)
  BY <1>1, RootSame
<1>3. Has(o, Favorites) => t[Find(t, Favorites)] = o[Find(o, Favorites)]
  BY <1>1, SameFirst
<1>4. Nested(t) = Nested(o)
  BY <1>2, <1>3 DEF Nested
<1>5. Once(t, Favorites)
  BY <1>1, SameOnce DEF Neat
<1>6. Neat(t)
  BY <1>4, <1>5 DEF Neat
<1>7. ASSUME NEW d \in Dirs \ K
      PROVE  SameView(t, o, d)
  <2>1. /\ Has(t, d) <=> Has(o, d)
        /\ Own(t, d) = {} <=> Own(o, d) = {}
        /\ Own(o, d) # {} => t[Max(Own(t, d))] = o[Max(Own(o, d))]
    BY RootSame
  <2>2. Once(o, d) => Once(t, d)
    BY SameOnce
  <2> QED BY <1>4, <2>1, <2>2 DEF SameView, Recorded
<1> QED BY <1>4, <1>6, <1>7

LEMMA LastIsOwn ==
  ASSUME NEW o \in Seq(Member), NEW d, Own(o, d) # {}
  PROVE  Max(Own(o, d)) \in Own(o, d) /\ \A i \in Own(o, d) : Max(Own(o, d)) >= i
<1>1. Len(o) \in Nat /\ Own(o, d) \in SUBSET (1..Len(o))
  BY LenProperties DEF Own
<1> QED BY <1>1, GreatestFound

(* Writing a name at the root.                                              *)
LEMMA NamedKeeps ==
  ASSUME NEW o \in Seq(Member), Neat(o), NEW k \in Dirs, NEW n \in Strings
  PROVE  LET t == Named(o, k, n)
         IN  /\ t \in Seq(Member) /\ Neat(t) /\ Nested(t) = Nested(o) /\ Has(t, k)
             /\ Once(t, k) /\ \A d \in Dirs \ {k} : SameView(t, o, d)
             /\ ~Has(Nested(o), k) => Recorded(t, k) = [name |-> n, fav |-> FALSE]
<1> DEFINE t == Put(o, k, n)
<1>1. <<k, n>> \in Member
  BY DEF Member
<1>2. /\ t \in Seq(Member) /\ Has(t, k) /\ SameBut(t, o, {k}) /\ Once(t, k)
      /\ \A i \in DOMAIN t : t[i][1] = k => t[i] = <<k, n>>
  BY <1>1, PutSame
<1> HIDE DEF t
<1>3. /\ Nested(t) = Nested(o) /\ Neat(t)
      /\ \A d \in Dirs \ {k} : SameView(t, o, d)
  BY <1>2, RootChange
<1>4. ~Has(Nested(o), k) => Recorded(t, k) = [name |-> n, fav |-> FALSE]
  <2>1. Own(t, k) # {}
    <3>1. PICK i \in DOMAIN t : t[i][1] = k
      BY <1>2 DEF Has
    <3>2. t[i][2] = n
      BY <1>2, <3>1
    <3> QED BY <3>1, <3>2 DEF Own, IsObject
  <2>2. Max(Own(t, k)) \in Own(t, k)
    BY <1>2, <2>1, LastIsOwn
  <2>3. t[Max(Own(t, k))][2] = n
    <3>1. t[Max(Own(t, k))] = <<k, n>>
      BY <1>2, <2>2 DEF Own
    <3> QED BY <3>1
  <2>4. ~Has(Nested(o), k) => ~Has(Nested(t), k)
    BY <1>3
  <2> QED BY <2>1, <2>3, <2>4 DEF Recorded
<1> QED BY <1>2, <1>3, <1>4 DEF t, Named

(* Removing the name at the root.                                           *)
LEMMA DropKeeps ==
  ASSUME NEW o \in Seq(Member), Neat(o), NEW k \in Dirs
  PROVE  LET t == Drop(o, k)
         IN  /\ t \in Seq(Member) /\ Neat(t) /\ Nested(t) = Nested(o) /\ ~Has(t, k)
             /\ \A d \in Dirs \ {k} : SameView(t, o, d)
<1>1. Drop(o, k) \in Seq(Member) /\ ~Has(Drop(o, k), k) /\ SameBut(Drop(o, k), o, {k})
  BY DropSame
<1> QED BY <1>1, RootChange

(* Renaming a directory at the root, or recording that it has no name.      *)
LEMMA RenameKeeps ==
  ASSUME NEW o \in Seq(Member), Neat(o), NEW k \in Dirs, NEW k2 \in Dirs, k # k2, k[1] = k2[1]
  PROVE  LET t == RenameOrCreate(o, k, k2)
         IN  /\ t \in Seq(Member) /\ Neat(t) /\ Nested(t) = Nested(o) /\ ~Has(t, k) /\ Has(t, k2)
             /\ \A d \in Dirs \ {k, k2} : SameView(t, o, d)
             /\ ~InFile(o, k2) /\ ~Has(Nested(o), k) => Recorded(t, k2) = Recorded(o, k)
             /\ ~InFile(o, k2) /\ Once(o, k) => Once(t, k2)
<1> DEFINE t == RenameOrCreate(o, k, k2)
<1>1. DOMAIN o = 1..Len(o) /\ Len(o) \in Nat /\ \A i \in DOMAIN o : o[i] \in Member
  <2>1. DOMAIN o = 1..Len(o) /\ Len(o) \in Nat
    BY LenProperties
  <2>2. \A i \in 1..Len(o) : o[i] \in Member
    BY ElementOfSeq
  <2> QED BY <2>1, <2>2
<1>2. CASE Has(o, k)
  <2>1. t = [i \in DOMAIN o |-> IF o[i][1] = k THEN <<k2, o[i][2]>> ELSE o[i]]
    BY <1>2 DEF RenameOrCreate
  <2> HIDE DEF t
  <2>2. \A i \in DOMAIN o : o[i][1] = k => <<k2, o[i][2]>> \in Member
    BY <1>1, ObjectsAssumption DEF Member
  <2>3. \A i \in DOMAIN o : t[i] \in Member
    BY <1>1, <2>1, <2>2
  <2>4. t \in Seq(Member) /\ DOMAIN t = DOMAIN o
    <3>1. DOMAIN t = 1..Len(o) /\ t = [i \in 1..Len(o) |-> t[i]]
      BY <1>1, <2>1
    <3>2. t \in [1..Len(o) -> Member]
      BY <1>1, <2>3, <3>1
    <3>3. Seq(Member) = UNION {[1..n -> Member] : n \in Nat}
      BY SeqDef
    <3>4. t \in Seq(Member)
      BY <1>1, <3>2, <3>3, Zenon
    <3> QED BY <2>1, <3>4
  <2>5. \A i \in DOMAIN o : \/ o[i][1] = k /\ t[i] = <<k2, o[i][2]>>
                            \/ o[i][1] # k /\ t[i] = o[i]
    BY <2>1
  <2>6. SameBut(t, o, {k, k2})
    <3>1. DOMAIN o \subseteq Nat
      BY <1>1
    <3>2. \A i \in DOMAIN o : t[i] = o[i] \/ (o[i][1] \in {k, k2} /\ t[i][1] \in {k, k2})
      BY <2>5
    <3> QED BY <2>4, <3>1, <3>2, MappedSame
  <2>7. /\ Nested(t) = Nested(o) /\ Neat(t)
        /\ \A d \in Dirs \ {k, k2} : SameView(t, o, d)
    BY <2>4, <2>6, RootChange
  <2>8. ~Has(t, k) /\ Has(t, k2)
    BY <1>2, <2>4, <2>5 DEF Has
  <2>9. ASSUME ~InFile(o, k2), ~Has(Nested(o), k)
        PROVE  Recorded(t, k2) = Recorded(o, k)
    <3>1. \A i \in DOMAIN o : o[i][1] # k2
      BY <2>9 DEF InFile, Has
    <3>2. \A i \in DOMAIN o : (t[i][1] = k2 <=> o[i][1] = k) /\ (o[i][1] = k => t[i][2] = o[i][2])
      BY <2>5, <3>1
    <3>3. Own(t, k2) = Own(o, k)
      BY <2>4, <3>2 DEF Own
    <3>4. Own(o, k) # {} => t[Max(Own(o, k))][2] = o[Max(Own(o, k))][2]
      <4> SUFFICES ASSUME Own(o, k) # {} PROVE t[Max(Own(o, k))][2] = o[Max(Own(o, k))][2]
        OBVIOUS
      <4>1. Max(Own(o, k)) \in Own(o, k)
        BY LastIsOwn
      <4> QED BY <3>2, <4>1 DEF Own
    <3> QED BY <2>7, <2>9, <3>3, <3>4 DEF Recorded, InFile
  <2>10. ~InFile(o, k2) /\ Once(o, k) => Once(t, k2)
    BY <2>4, <2>5 DEF InFile, Has, Once
  <2> QED BY <2>4, <2>7, <2>8, <2>9, <2>10 DEF t
<1>3. CASE ~Has(o, k)
  <2>1. t = Put(o, k2, <<>>) /\ <<k2, <<>>>> \in Member
    BY <1>3 DEF RenameOrCreate, Member
  <2>2. /\ t \in Seq(Member) /\ Has(t, k2) /\ SameBut(t, o, {k2}) /\ Once(t, k2)
        /\ \A i \in DOMAIN t : t[i][1] = k2 => t[i] = <<k2, <<>>>>
    BY <2>1, PutSame
  <2> HIDE DEF t
  <2>3. /\ Nested(t) = Nested(o) /\ Neat(t)
        /\ \A d \in Dirs \ {k2} : SameView(t, o, d)
    BY <2>2, RootChange
  <2>4. ~Has(t, k)
    BY <1>3, <2>3 DEF SameView
  <2>5. IsObject(<<>>)
    BY ObjectsAssumption, EmptySeq DEF IsObject
  <2>6. Own(t, k2) = {} /\ Own(o, k) = {}
    BY <1>3, <2>2, <2>5 DEF Own, Has
  <2>7. ~InFile(o, k2) /\ ~Has(Nested(o), k) => Recorded(t, k2) = Recorded(o, k)
    BY <2>3, <2>6 DEF Recorded, InFile
  <2> QED BY <2>2, <2>3, <2>4, <2>7 DEF t
<1> QED BY <1>2, <1>3

LEMMA SecondReplaced ==
  ASSUME NEW a, NEW b, NEW x
  PROVE  [<<a, b>> EXCEPT ![2] = x] = <<a, x>>
OBVIOUS

(* The members of "favorites$180" replaced by x.                            *)
LEMMA InPlace ==
  ASSUME NEW o \in Seq(Member), Neat(o), Has(o, Favorites), NEW x \in Nest,
         NEW t, t = [o EXCEPT ![Find(o, Favorites)][2] = x]
  PROVE  t \in Seq(Member) /\ Nested(t) = x /\ Once(t, Favorites) /\ SameBut(t, o, {Favorites})
<1> DEFINE p == Find(o, Favorites)
           q == Find(t, Favorites)
<1>1. DOMAIN o = 1..Len(o) /\ Len(o) \in Nat
  BY LenProperties
<1>2. p \in 1..Len(o) /\ o[p][1] = Favorites
  BY FavoritesFound
<1>3. o[p] = <<Favorites, o[p][2]>>
  <2>1. o[p] \in Member
    BY <1>2, ElementOfSeq
  <2> HIDE DEF p
  <2> QED BY <1>2, <2>1 DEF Member
<1>4. t = [o EXCEPT ![p] = <<Favorites, x>>]
  <2>1. t = [o EXCEPT ![p] = [o[p] EXCEPT ![2] = x]]
    OBVIOUS
  <2>2. [o[p] EXCEPT ![2] = x] = <<Favorites, x>>
    BY <1>3, SecondReplaced
  <2> QED BY <2>1, <2>2
<1> HIDE DEF p
<1>5. <<Favorites, x>> \in Member
  BY DEF Member, Nest
<1>6. /\ t \in Seq(Member) /\ DOMAIN t = DOMAIN o /\ t[p] = <<Favorites, x>>
      /\ \A i \in DOMAIN o : i # p => t[i] = o[i]
  <2>1. t \in Seq(Member)
    <3> DEFINE m == <<Favorites, x>>
    <3>1. m \in Member /\ t = [o EXCEPT ![p] = m]
      BY <1>4, <1>5
    <3> HIDE DEF m
    <3>2. [o EXCEPT ![p] = m] \in Seq(Member)
      BY <1>2, <3>1, ExceptSeq, Zenon
    <3> QED BY <3>1, <3>2
  <2> QED BY <1>1, <1>2, <1>4, <2>1
<1>7. SameBut(t, o, {Favorites})
  <2>1. DOMAIN o \subseteq Nat
    BY <1>1
  <2>2. \A i \in DOMAIN o : t[i] = o[i] \/ (o[i][1] \in {Favorites} /\ t[i][1] \in {Favorites})
    BY <1>2, <1>6
  <2> QED BY <1>6, <2>1, <2>2, MappedSame
<1>8. \A i \in DOMAIN t : t[i][1] = Favorites => i = p
  BY <1>1, <1>2, <1>6 DEF Neat, Once
<1>9. Once(t, Favorites)
  BY <1>8 DEF Once
<1>10. Has(t, Favorites)
  BY <1>1, <1>2, <1>6 DEF Has
<1>11. q \in DOMAIN t /\ t[q][1] = Favorites
  <2>1. t \in Seq(Member)
    BY <1>6
  <2> QED BY <1>10, <2>1, FavoritesFound, Zenon
<1>12. Nested(t) = x
  BY <1>6, <1>8, <1>10, <1>11 DEF Nested
<1> QED BY <1>6, <1>7, <1>9, <1>12

(* A file that differs in the favourites only, and there in k.              *)
LEMMA NestChange ==
  ASSUME NEW o \in Seq(Member), Neat(o), NEW t \in Seq(Member), Once(t, Favorites),
         SameBut(t, o, {Favorites}), NEW k \in Dirs, SameBut(Nested(t), Nested(o), {k}),
         Once(Nested(t), k)
  PROVE  /\ Neat(t)
         /\ \A d \in Dirs : (Has(t, d) <=> Has(o, d)) /\ (Once(o, d) => Once(t, d))
         /\ \A d \in Dirs \ {k} : SameView(t, o, d)
<1>1. Nested(o) \in Nest /\ Nested(t) \in Nest
  BY NestedIs
<1>2. ASSUME NEW d \in Dirs
      PROVE  /\ Has(t, d) <=> Has(o, d)
             /\ Own(t, d) = {} <=> Own(o, d) = {}
             /\ Own(o, d) # {} => t[Max(Own(t, d))] = o[Max(Own(o, d))]
             /\ Once(o, d) => Once(t, d)
  <2>1. d \notin {Favorites}
    BY ObjectsAssumption
  <2>2. Once(o, d) => Once(t, d)
    BY <2>1, SameOnce
  <2> QED BY <2>1, <2>2, RootSame
<1>3. ASSUME NEW d \in Dirs \ {k}
      PROVE  /\ Has(Nested(t), d) <=> Has(Nested(o), d)
             /\ Has(Nested(o), d) =>
                  Nested(t)[Find(Nested(t), d)] = Nested(o)[Find(Nested(o), d)]
             /\ Once(Nested(t), d)
  <2>1. d \notin {k}
    OBVIOUS
  <2>2. Has(Nested(t), d) <=> Has(Nested(o), d)
    BY <2>1, SameHas
  <2>3. Has(Nested(o), d) => Nested(t)[Find(Nested(t), d)] = Nested(o)[Find(Nested(o), d)]
    BY <1>1, <2>1, SameFirst DEF Nest
  <2>4. Once(Nested(o), d)
    BY DEF Neat
  <2>5. Once(Nested(t), d)
    BY <1>1, <2>1, <2>4, SameOnce DEF Nest
  <2> QED BY <2>2, <2>3, <2>5
<1>4. Neat(t)
  BY <1>3 DEF Neat
<1>5. ASSUME NEW d \in Dirs \ {k}
      PROVE  SameView(t, o, d)
  <2>1. /\ Has(t, d) <=> Has(o, d)
        /\ Own(t, d) = {} <=> Own(o, d) = {}
        /\ Own(o, d) # {} => t[Max(Own(t, d))] = o[Max(Own(o, d))]
        /\ Once(o, d) => Once(t, d)
    BY <1>2
  <2>2. /\ Has(Nested(t), d) <=> Has(Nested(o), d)
        /\ Has(Nested(o), d) =>
             Nested(t)[Find(Nested(t), d)] = Nested(o)[Find(Nested(o), d)]
    BY <1>3
  <2> QED BY <2>1, <2>2 DEF SameView, Recorded
<1> QED BY <1>2, <1>4, <1>5

(* Writing a name below "favorites$180".                                    *)
LEMMA FavoredKeeps ==
  ASSUME NEW o \in Seq(Member), Neat(o), NEW k \in Dirs, NEW n \in Strings
  PROVE  LET t == Favored(o, k, n)
         IN  /\ t \in Seq(Member) /\ Neat(t) /\ Has(Nested(t), k)
             /\ \A d \in Dirs : (Has(t, d) <=> Has(o, d)) /\ (Once(o, d) => Once(t, d))
             /\ \A d \in Dirs \ {k} : SameView(t, o, d)
             /\ Recorded(t, k) = [name |-> n, fav |-> TRUE]
<1> DEFINE t == Favored(o, k, n)
           x == Put(Nested(o), k, n)
<1>1. Nested(o) \in Nest
  BY NestedIs
<1>2. /\ x \in Nest /\ Has(x, k) /\ SameBut(x, Nested(o), {k}) /\ Once(x, k)
      /\ \A i \in DOMAIN x : x[i][1] = k => x[i] = <<k, n>>
  <2>1. <<k, n>> \in Dirs \X Strings
    OBVIOUS
  <2> DEFINE P == Dirs \X Strings
             q == Nested(o)
  <2>2. q \in Seq(P) /\ <<k, n>> \in P
    BY <1>1, <2>1 DEF Nest
  <2> HIDE DEF P, q
  <2>3. /\ Put(q, k, n) \in Seq(P) /\ Has(Put(q, k, n), k) /\ SameBut(Put(q, k, n), q, {k})
        /\ \A i \in DOMAIN Put(q, k, n) : Put(q, k, n)[i][1] = k => Put(q, k, n)[i] = <<k, n>>
        /\ Once(Put(q, k, n), k)
    BY <2>2, PutSame
  <2> QED BY <2>3 DEF P, q, Nest
<1>3. t \in Seq(Member) /\ Nested(t) = x /\ Once(t, Favorites) /\ SameBut(t, o, {Favorites})
  <2>1. CASE Has(o, Favorites)
    <3>1. t = [o EXCEPT ![Find(o, Favorites)][2] = x]
      BY <2>1, FavoritesFound DEF Favored, PutNested, Nested
    <3> HIDE DEF t, x
    <3> QED BY <1>2, <2>1, <3>1, InPlace
  <2>2. CASE ~Has(o, Favorites)
    <3> DEFINE m == <<Favorites, <<<<k, n>>>>>>
    <3>1. t = <<m>> \o o
      BY <2>2 DEF Favored, PutNested, AddNested
    <3>2. x = <<<<k, n>>>>
      <4>1. Nested(o) = <<>> /\ ~Has(<<>>, k)
        BY <2>2 DEF Nested, Has
      <4> QED BY <4>1 DEF Put
    <3>3. m \in Member /\ m[1] = Favorites /\ m[2] = x
      <4>1. m \in {Favorites} \X Nest
        BY <1>2, <3>2
      <4> QED BY <3>2, <4>1 DEF Member, Nest
    <3> HIDE DEF t, x, m
    <3>4. /\ t \in Seq(Member) /\ t[1] = m /\ 1 \in DOMAIN t
          /\ SameBut(t, o, {Favorites}) /\ Once(t, Favorites)
      <4>1. /\ <<m>> \o o \in Seq(Member) /\ (<<m>> \o o)[1] = m /\ 1 \in DOMAIN (<<m>> \o o)
            /\ SameBut(<<m>> \o o, o, {m[1]})
            /\ ~Has(o, m[1]) => Once(<<m>> \o o, m[1])
        BY <3>3, FrontSame, Zenon
      <4> QED BY <2>2, <3>1, <3>3, <4>1
    <3>5. Has(t, Favorites)
      BY <3>3, <3>4 DEF Has
    <3>6. Find(t, Favorites) = 1
      BY <3>3, <3>4, <3>5, FavoritesFound DEF Once
    <3>7. Nested(t) = x
      BY <3>3, <3>4, <3>5, <3>6 DEF Nested
    <3> QED BY <3>4, <3>7
  <2> QED BY <2>1, <2>2
<1> HIDE DEF t, x
<1>4. /\ Neat(t)
      /\ \A d \in Dirs : (Has(t, d) <=> Has(o, d)) /\ (Once(o, d) => Once(t, d))
      /\ \A d \in Dirs \ {k} : SameView(t, o, d)
  BY <1>2, <1>3, NestChange
<1>5. Recorded(t, k) = [name |-> n, fav |-> TRUE]
  <2>1. Find(x, k) \in DOMAIN x /\ x[Find(x, k)][1] = k
    <3>1. DOMAIN x = 1..Len(x)
      BY <1>2, LenProperties DEF Nest
    <3> QED BY <1>2, <3>1, FindFirst DEF Nest
  <2>2. x[Find(x, k)][2] = n
    <3>1. x[Find(x, k)] = <<k, n>>
      BY <1>2, <2>1
    <3> QED BY <3>1
  <2> QED BY <1>2, <1>3, <2>2 DEF Recorded
<1> QED BY <1>2, <1>3, <1>4, <1>5 DEF t

(* Removing a name below "favorites$180".                                   *)
LEMMA DropNestedKeeps ==
  ASSUME NEW o \in Seq(Member), Neat(o), NEW k \in Dirs
  PROVE  LET t == DropNested(o, Favorites, k)
         IN  /\ t \in Seq(Member) /\ Neat(t) /\ ~Has(Nested(t), k)
             /\ \A d \in Dirs : (Has(t, d) <=> Has(o, d)) /\ (Once(o, d) => Once(t, d))
             /\ \A d \in Dirs \ {k} : SameView(t, o, d)
<1> DEFINE t == DropNested(o, Favorites, k)
           x == Drop(Nested(o), k)
<1>1. CASE Has(o, Favorites)
  <2>1. t = [o EXCEPT ![Find(o, Favorites)][2] = x]
    BY <1>1, FavoritesFound DEF DropNested, Nested
  <2>2. x \in Nest /\ ~Has(x, k) /\ SameBut(x, Nested(o), {k})
    BY NestedIs, DropSame DEF Nest
  <2>3. Once(x, k)
    BY <2>2 DEF Once, Has
  <2> HIDE DEF t, x
  <2>4. t \in Seq(Member) /\ Nested(t) = x /\ Once(t, Favorites) /\ SameBut(t, o, {Favorites})
    BY <1>1, <2>1, <2>2, InPlace
  <2>5. /\ Neat(t)
        /\ \A d \in Dirs : (Has(t, d) <=> Has(o, d)) /\ (Once(o, d) => Once(t, d))
        /\ \A d \in Dirs \ {k} : SameView(t, o, d)
    BY <2>2, <2>3, <2>4, NestChange
  <2> QED BY <2>2, <2>4, <2>5 DEF t
<1>2. CASE ~Has(o, Favorites)
  <2>1. t = o /\ Nested(o) = <<>> /\ ~Has(<<>>, k)
    BY <1>2 DEF DropNested, Nested, Has
  <2> QED BY <2>1 DEF SameView
<1> QED BY <1>1, <1>2

-----------------------------------------------------------------------------
(* What the constructor loads *)

Item    == Dirs \X Strings \X BOOLEAN
Loading == Seq(Item)

(* The last of the members in L that speaks of d names it n. *)
Ends(L, d, n) ==
  \E i \in DOMAIN L : L[i][1] = d /\ L[i][2] = n /\ \A j \in DOMAIN L : j > i => L[j][1] # d
Speaks(L, d, b) == \E i \in DOMAIN L : L[i][1] = d /\ L[i][3] = b
SpeaksOnce(L, d, b) ==
  \A i, j \in DOMAIN L : L[i][1] = d /\ L[i][3] = b /\ L[j][1] = d /\ L[j][3] = b => i = j

(* What one member of the file contributes.                                 *)
Block(m) ==
  IF m[1] = Favorites THEN [i \in DOMAIN m[2] |-> Append(m[2][i], TRUE)]
  ELSE IF IsObject(m[2]) THEN <<>> ELSE <<Append(m, FALSE)>>

(* e is the item of d, with the name n and the star b.                      *)
IsItem(e, d, n, b) == e[1] = d /\ e[2] = n /\ e[3] = b

LEMMA Flagged ==
  ASSUME NEW A, NEW B, NEW m \in A \X B, NEW C, NEW c \in C
  PROVE  Append(m, c) \in A \X B \X C /\ IsItem(Append(m, c), m[1], m[2], c)
<1>1. Append(m, c) = <<m[1], m[2], c>>
  BY PairOfTwo, Third
<1> QED BY <1>1 DEF IsItem

LEMMA BlockIs ==
  ASSUME NEW m \in Member
  PROVE  /\ Block(m) \in Loading
         /\ m[1] = Favorites =>
              /\ m[2] \in Nest /\ DOMAIN Block(m) = DOMAIN m[2]
              /\ \A x \in DOMAIN m[2] : IsItem(Block(m)[x], m[2][x][1], m[2][x][2], TRUE)
         /\ m[1] # Favorites => \A x \in DOMAIN Block(m) :
              x = 1 /\ m[2] \in Strings /\ IsItem(Block(m)[x], m[1], m[2], FALSE)
         /\ m[1] # Favorites /\ m[2] \in Strings => 1 \in DOMAIN Block(m)
<1>1. CASE m[1] = Favorites
  <2> DEFINE q == m[2]
             N == Len(q)
  <2>1. q \in Nest
    BY <1>1, ObjectsAssumption DEF Member, Nest
  <2>2. N \in Nat /\ DOMAIN q = 1..N
    BY <2>1, LenProperties DEF Nest
  <2>3. \A x \in 1..N : q[x] \in Dirs \X Strings
    BY <2>1, ElementOfSeq DEF Nest
  <2>4. \A x \in 1..N : Append(q[x], TRUE) \in Item /\ IsItem(Append(q[x], TRUE), q[x][1], q[x][2], TRUE)
    <3> SUFFICES ASSUME NEW x \in 1..N
                 PROVE  Append(q[x], TRUE) \in Item /\ IsItem(Append(q[x], TRUE), q[x][1], q[x][2], TRUE)
      OBVIOUS
    <3> DEFINE e == q[x]
    <3>1. e \in Dirs \X Strings /\ TRUE \in BOOLEAN
      BY <2>3
    <3> HIDE DEF e
    <3>2. Append(e, TRUE) \in Dirs \X Strings \X BOOLEAN /\ IsItem(Append(e, TRUE), e[1], e[2], TRUE)
      BY <3>1, Flagged, ZenonT(60)
    <3> QED BY <3>2 DEF e, Item
  <2>5. Block(m) = [x \in 1..N |-> Append(q[x], TRUE)]
    BY <1>1, <2>2 DEF Block
  <2> HIDE DEF q, N
  <2>6. Block(m) \in [1..N -> Item]
    BY <2>4, <2>5
  <2>7. Block(m) \in Loading
    <3>1. Seq(Item) = UNION {[1..n -> Item] : n \in Nat}
      BY SeqDef
    <3> QED BY <2>2, <2>6, <3>1, Zenon DEF Loading
  <2>8. DOMAIN Block(m) = DOMAIN q /\ \A x \in DOMAIN q : IsItem(Block(m)[x], q[x][1], q[x][2], TRUE)
    BY <2>2, <2>4, <2>5
  <2> QED BY <1>1, <2>1, <2>7, <2>8 DEF q
<1>2. CASE m[1] # Favorites /\ IsObject(m[2])
  <2>1. Block(m) = <<>> /\ DOMAIN <<>> = {} /\ m[2] \notin Strings
    BY <1>2 DEF Block, IsObject
  <2> QED BY <1>2, <2>1, EmptySeq DEF Loading
<1>3. CASE m[1] # Favorites /\ ~IsObject(m[2])
  <2>1. m[1] \in Dirs /\ m[2] \in Strings /\ m \in Dirs \X (Strings \union {<<>>})
    BY <1>3 DEF Member, IsObject
  <2> DEFINE c == Append(m, FALSE)
  <2>2. m \in Dirs \X Strings
    BY <2>1
  <2>3. c \in Item /\ IsItem(c, m[1], m[2], FALSE)
    <3>1. FALSE \in BOOLEAN
      OBVIOUS
    <3>2. Append(m, FALSE) \in Dirs \X Strings \X BOOLEAN /\ IsItem(Append(m, FALSE), m[1], m[2], FALSE)
      BY <2>2, <3>1, Flagged, ZenonT(60)
    <3> QED BY <3>2 DEF c, Item
  <2>4. Block(m) = <<c>>
    BY <1>3 DEF Block
  <2> HIDE DEF c
  <2>5. <<c>> \in Seq(Item) /\ DOMAIN <<c>> = {1} /\ <<c>>[1] = c
    BY <2>3, OneElement
  <2> QED BY <1>3, <2>1, <2>3, <2>4, <2>5 DEF Loading
<1> QED BY <1>1, <1>2, <1>3

LEMMA LoadedList ==
  ASSUME file.members \in Seq(Member), Neat(file.members)
  PROVE  /\ MembersToLoad \in Loading
         /\ \A d \in Dirs :
              /\ Speaks(MembersToLoad, d, TRUE) <=> Has(Nested(file.members), d)
              /\ Speaks(MembersToLoad, d, FALSE) => Has(file.members, d)
              /\ SpeaksOnce(MembersToLoad, d, TRUE)
              /\ Once(file.members, d) => SpeaksOnce(MembersToLoad, d, FALSE)
              /\ ~(Has(file.members, d) /\ Has(Nested(file.members), d)) =>
                   \/ Ends(MembersToLoad, d, Recorded(file.members, d).name)
                   \/ /\ d[1] = Recorded(file.members, d).name
                      /\ \A b \in BOOLEAN : ~Speaks(MembersToLoad, d, b)
<1> DEFINE o == file.members
           L == MembersToLoad
           N == Len(o)
           s == [i \in 1..N |-> Block(o[i])]
           M == Len(L)
<1>1. N \in Nat /\ DOMAIN o = 1..N
  BY LenProperties
<1>2. \A i \in 1..N : o[i] \in Member
  BY ElementOfSeq
<1>3. L = FlattenSeq(s)
  BY <1>1 DEF MembersToLoad, Block
<1>a. o \in Seq(Member) /\ Neat(o)
  OBVIOUS
<1> HIDE DEF o, N, L
<1>4. s \in Seq(Loading) /\ Len(s) = N
  <2>1. s \in [1..N -> Loading]
    BY <1>2, BlockIs
  <2>2. Seq(Loading) = UNION {[1..n -> Loading] : n \in Nat}
    BY SeqDef
  <2>3. DOMAIN s = 1..N
    OBVIOUS
  <2> HIDE DEF s
  <2>4. s \in Seq(Loading)
    BY <1>1, <2>1, <2>2, Zenon
  <2>5. DOMAIN s = 1..Len(s) /\ Len(s) \in Nat
    BY <2>4, LenProperties
  <2>6. Len(s) = N
    BY <1>1, <2>3, <2>5
  <2> QED BY <2>4, <2>6
<1>5. L \in Loading /\ Flat(L, s, N)
  <2> HIDE DEF s
  <2> QED BY <1>3, <1>4, FlattenIsFlat DEF Loading
<1>6. M \in Nat /\ DOMAIN L = 1..M
  BY <1>5, LenProperties DEF Loading
<1>7. PICK src : FlatBy(src, L, M, s, N)
  BY <1>5 DEF Flat
<1> DEFINE B(i) == Block(o[i])
<1>8. /\ \A i \in 1..M : src[i] \in 1..N
      /\ \A i, j \in 1..M : i < j => src[i] <= src[j]
      /\ \A i \in 1..M : \E x \in DOMAIN B(src[i]) : L[i] = B(src[i])[x]
      /\ \A m \in 1..N : \A x \in DOMAIN B(m) : \E i \in 1..M : src[i] = m /\ L[i] = B(m)[x]
      /\ \A i, j \in 1..M : i # j /\ src[i] = src[j] =>
           \E x, y \in DOMAIN B(src[i]) : x # y /\ L[i] = B(src[i])[x] /\ L[j] = B(src[i])[y]
  <2>1. \A m \in 1..N : s[m] = B(m)
    OBVIOUS
  <2> HIDE DEF s, B, M
  <2>2. /\ src \in [1..M -> 1..N]
        /\ \A i, j \in 1..M : i < j => src[i] <= src[j]
        /\ \A i \in 1..M : \E x \in DOMAIN s[src[i]] : L[i] = s[src[i]][x]
        /\ \A m \in 1..N : \A x \in DOMAIN s[m] : \E i \in 1..M : src[i] = m /\ L[i] = s[m][x]
        /\ \A i, j \in 1..M : i # j /\ src[i] = src[j] =>
             \E x, y \in DOMAIN s[src[i]] : x # y /\ L[i] = s[src[i]][x] /\ L[j] = s[src[i]][y]
    BY <1>7 DEF FlatBy
  <2>3. \A i \in 1..M : src[i] \in 1..N /\ s[src[i]] = B(src[i])
    BY <2>1, <2>2
  <2>4. \A m \in 1..N : \A x \in DOMAIN B(m) : \E i \in 1..M : src[i] = m /\ L[i] = B(m)[x]
    BY <2>1, <2>2, SMTT(30)
  <2>5. \A i \in 1..M : \E x \in DOMAIN B(src[i]) : L[i] = B(src[i])[x]
    BY <2>2, <2>3
  <2>6. ASSUME NEW i \in 1..M, NEW j \in 1..M, i # j, src[i] = src[j]
        PROVE  \E x, y \in DOMAIN B(src[i]) : x # y /\ L[i] = B(src[i])[x] /\ L[j] = B(src[i])[y]
    <3>1. PICK x, y \in DOMAIN s[src[i]] : x # y /\ L[i] = s[src[i]][x] /\ L[j] = s[src[i]][y]
      BY <2>2, <2>6
    <3>2. s[src[i]] = B(src[i])
      BY <2>3
    <3> QED BY <3>1, <3>2
  <2> QED BY <2>2, <2>3, <2>4, <2>5, <2>6
<1> HIDE DEF s, M
<1> DEFINE q == Nested(o)
<1>9. \A i \in 1..N : o[i][1] = Favorites =>
        /\ o[i][2] = q /\ q \in Nest /\ DOMAIN B(i) = DOMAIN q
        /\ \A x \in DOMAIN q : IsItem(B(i)[x], q[x][1], q[x][2], TRUE)
  <2> SUFFICES ASSUME NEW i \in 1..N, o[i][1] = Favorites
               PROVE  /\ o[i][2] = q /\ q \in Nest /\ DOMAIN B(i) = DOMAIN q
                      /\ \A x \in DOMAIN q : IsItem(B(i)[x], q[x][1], q[x][2], TRUE)
    OBVIOUS
  <2>1. Has(o, Favorites)
    BY <1>1 DEF Has
  <2>2. Find(o, Favorites) \in DOMAIN o /\ o[Find(o, Favorites)][1] = Favorites
    BY <1>a, <2>1, FavoritesFound
  <2>3. Find(o, Favorites) = i
    BY <1>1, <1>a, <2>2 DEF Neat, Once
  <2>4. o[i][2] = q
    BY <2>1, <2>3 DEF Nested
  <2>5. /\ o[i][2] \in Nest /\ DOMAIN B(i) = DOMAIN o[i][2]
        /\ \A x \in DOMAIN o[i][2] : IsItem(B(i)[x], o[i][2][x][1], o[i][2][x][2], TRUE)
    BY <1>2, BlockIs
  <2> QED BY <2>4, <2>5
<1>10. \A i \in 1..N : o[i][1] # Favorites => \A x \in DOMAIN B(i) :
         x = 1 /\ o[i][2] \in Strings /\ IsItem(B(i)[x], o[i][1], o[i][2], FALSE)
  BY <1>2, BlockIs
<1>11. \A i \in 1..N : o[i][1] # Favorites /\ o[i][2] \in Strings => 1 \in DOMAIN B(i)
  BY <1>2, BlockIs
<1>12. (\E i \in 1..N : o[i][1] = Favorites) \/ q = <<>>
  BY <1>1 DEF Nested, Has
<1> HIDE DEF q, B
<1>13. ASSUME NEW j \in 1..M
       PROVE  \/ \E x \in DOMAIN q : IsItem(L[j], q[x][1], q[x][2], TRUE)
              \/ /\ src[j] \in 1..N /\ o[src[j]][1] # Favorites /\ o[src[j]][2] \in Strings
                 /\ IsItem(L[j], o[src[j]][1], o[src[j]][2], FALSE)
  <2>1. PICK x \in DOMAIN B(src[j]) : L[j] = B(src[j])[x]
    BY <1>8
  <2>2. src[j] \in 1..N
    BY <1>8
  <2> QED BY <1>9, <1>10, <2>1, <2>2
<1>14. ASSUME NEW x \in DOMAIN q
       PROVE  \E j \in 1..M : IsItem(L[j], q[x][1], q[x][2], TRUE)
  <2>1. PICK i \in 1..N : o[i][1] = Favorites
    BY <1>12
  <2>2. x \in DOMAIN B(i) /\ IsItem(B(i)[x], q[x][1], q[x][2], TRUE)
    BY <1>9, <2>1
  <2>3. PICK j \in 1..M : src[j] = i /\ L[j] = B(i)[x]
    BY <1>8, <2>2
  <2> QED BY <2>2, <2>3
<1>15. ASSUME NEW i \in 1..N, o[i][1] # Favorites, o[i][2] \in Strings
       PROVE  \E j \in 1..M : src[j] = i /\ IsItem(L[j], o[i][1], o[i][2], FALSE)
  <2>1. 1 \in DOMAIN B(i) /\ IsItem(B(i)[1], o[i][1], o[i][2], FALSE)
    BY <1>10, <1>11, <1>15
  <2>2. PICK j \in 1..M : src[j] = i /\ L[j] = B(i)[1]
    BY <1>8, <2>1
  <2> QED BY <2>1, <2>2
<1>16. ASSUME NEW d \in Dirs
       PROVE  /\ Speaks(L, d, TRUE) <=> Has(q, d)
              /\ Speaks(L, d, FALSE) => Has(o, d)
  <2>1. ASSUME Speaks(L, d, TRUE) PROVE Has(q, d)
    <3>1. PICK j \in 1..M : L[j][1] = d /\ L[j][3] = TRUE
      BY <1>6, <2>1 DEF Speaks
    <3>2. PICK x \in DOMAIN q : IsItem(L[j], q[x][1], q[x][2], TRUE)
      BY <1>13, <3>1 DEF IsItem
    <3> QED BY <3>1, <3>2 DEF Has, IsItem
  <2>2. ASSUME Has(q, d) PROVE Speaks(L, d, TRUE)
    <3>1. PICK x \in DOMAIN q : q[x][1] = d
      BY <2>2 DEF Has
    <3>2. PICK j \in 1..M : IsItem(L[j], q[x][1], q[x][2], TRUE)
      BY <1>14
    <3> QED BY <1>6, <3>1, <3>2 DEF Speaks, IsItem
  <2>3. ASSUME Speaks(L, d, FALSE) PROVE Has(o, d)
    <3>1. PICK j \in 1..M : L[j][1] = d /\ L[j][3] = FALSE
      BY <1>6, <2>3 DEF Speaks
    <3>2. src[j] \in 1..N /\ IsItem(L[j], o[src[j]][1], o[src[j]][2], FALSE)
      BY <1>13, <3>1 DEF IsItem
    <3> QED BY <1>1, <3>1, <3>2 DEF Has, IsItem
  <2> QED BY <2>1, <2>2, <2>3
<1>17. ASSUME NEW d \in Dirs, ~(Has(o, d) /\ Has(q, d))
       PROVE  \/ Ends(L, d, Recorded(o, d).name)
              \/ /\ d[1] = Recorded(o, d).name
                 /\ \A b \in BOOLEAN : ~Speaks(L, d, b)
  <2> DEFINE J == {j \in 1..M : L[j][1] = d}
             z == Max(J)
  <2>1. CASE J = {}
    <3>1. \A b : ~Speaks(L, d, b)
      BY <1>6, <2>1 DEF Speaks
    <3>2. ~Has(q, d)
      BY <1>16, <3>1
    <3>3. Own(o, d) = {}
      <4> SUFFICES ASSUME NEW i \in 1..N, o[i][1] = d, o[i][2] \in Strings PROVE FALSE
        BY <1>1 DEF Own, IsObject
      <4>1. d # Favorites
        BY ObjectsAssumption
      <4>2. PICK j \in 1..M : src[j] = i /\ IsItem(L[j], o[i][1], o[i][2], FALSE)
        BY <1>15, <4>1
      <4> QED BY <2>1, <4>2 DEF IsItem
    <3>4. Recorded(o, d).name = d[1]
      BY <3>2, <3>3 DEF Recorded, q
    <3> QED BY <3>1, <3>4
  <2>2. CASE J # {}
    <3>1. z \in J /\ \A y \in J : z >= y
      <4>1. J \in SUBSET (1..M)
        OBVIOUS
      <4> HIDE DEF J
      <4> QED BY <1>6, <2>2, <4>1, GreatestFound
    <3>2. z \in 1..M /\ L[z][1] = d /\ \A y \in 1..M : y > z => L[y][1] # d
      <4>1. z \in 1..M /\ L[z][1] = d
        BY <3>1
      <4>2. \A y \in J : ~(y > z)
        <5>1. \A y \in J : y \in 1..M
          OBVIOUS
        <5> HIDE DEF z, J
        <5> QED BY <1>6, <3>1, <4>1, <5>1
      <4> HIDE DEF z
      <4> QED BY <4>1, <4>2
    <3> HIDE DEF z, J
    <3>3. L[z][2] = Recorded(o, d).name
      <4>1. CASE Has(q, d)
        <5>1. \A i \in 1..N : o[i][1] # d
          BY <1>1, <1>17, <4>1 DEF Has
        <5>2. PICK x \in DOMAIN q : IsItem(L[z], q[x][1], q[x][2], TRUE)
          BY <1>13, <3>2, <5>1 DEF IsItem
        <5>3. q \in Nest /\ Once(q, d)
          BY <1>a, NestedIs DEF q, Neat
        <5>4. Find(q, d) \in DOMAIN q /\ q[Find(q, d)][1] = d
          <6>1. DOMAIN q = 1..Len(q)
            BY <5>3, LenProperties DEF Nest
          <6> QED BY <4>1, <5>3, <6>1, FindFirst DEF Nest
        <5>5. x = Find(q, d)
          BY <3>2, <5>2, <5>3, <5>4 DEF Once, IsItem
        <5>6. Recorded(o, d).name = q[Find(q, d)][2]
          BY <4>1 DEF Recorded, q
        <5> QED BY <5>2, <5>5, <5>6 DEF IsItem
      <4>2. CASE ~Has(q, d)
        <5>1. \A x \in DOMAIN q : q[x][1] # d
          BY <4>2 DEF Has
        <5>2. /\ src[z] \in 1..N /\ o[src[z]][1] # Favorites /\ o[src[z]][2] \in Strings
              /\ IsItem(L[z], o[src[z]][1], o[src[z]][2], FALSE)
          BY <1>13, <3>2, <5>1 DEF IsItem
        <5>3. src[z] \in Own(o, d) /\ L[z][2] = o[src[z]][2]
          BY <1>1, <3>2, <5>2 DEF Own, IsObject, IsItem
        <5>4. \A i \in Own(o, d) : i <= src[z]
          <6> SUFFICES ASSUME NEW i \in 1..N, o[i][1] = d, o[i][2] \in Strings, ~(i <= src[z])
                       PROVE  FALSE
            BY <1>1 DEF Own, IsObject
          <6>1. o[i][1] # Favorites
            BY ObjectsAssumption
          <6>2. PICK j \in 1..M : src[j] = i /\ IsItem(L[j], o[i][1], o[i][2], FALSE)
            BY <1>15, <6>1
          <6>3. L[j][1] = d
            BY <6>2 DEF IsItem
          <6>4. ~(j > z)
            BY <3>2, <6>3
          <6>5. j = z \/ j < z
            BY <1>6, <3>2, <6>4
          <6>6. src[z] \in Nat /\ i \in Nat
            BY <1>1, <5>2
          <6> QED BY <1>8, <3>2, <6>2, <6>5, <6>6
        <5>5. Max(Own(o, d)) = src[z]
          <6>1. Max(Own(o, d)) \in Own(o, d) /\ Max(Own(o, d)) >= src[z]
            BY <1>a, <5>3, LastIsOwn
          <6>2. Max(Own(o, d)) <= src[z] /\ Max(Own(o, d)) \in 1..N
            BY <1>1, <5>4, <6>1 DEF Own
          <6> QED BY <1>1, <5>2, <6>1, <6>2
        <5>6. Recorded(o, d).name = o[src[z]][2]
          BY <4>2, <5>3, <5>5 DEF Recorded, q
        <5> QED BY <5>3, <5>6
      <4> QED BY <4>1, <4>2
    <3>4. Ends(L, d, Recorded(o, d).name)
      BY <1>6, <3>2, <3>3 DEF Ends
    <3> QED BY <3>4
  <2> QED BY <2>1, <2>2
<1>18. ASSUME NEW i \in 1..M, NEW j \in 1..M, i # j, src[i] = src[j]
       PROVE  o[src[i]][1] = Favorites
  <2>1. PICK x, y \in DOMAIN B(src[i]) : x # y
    BY <1>8, <1>18
  <2>2. src[i] \in 1..N
    BY <1>8
  <2> QED BY <1>10, <2>1, <2>2
<1>19. ASSUME NEW d \in Dirs PROVE SpeaksOnce(L, d, TRUE)
  <2> SUFFICES ASSUME NEW i \in 1..M, NEW j \in 1..M, i # j, L[i][1] = d, L[i][3] = TRUE,
                      L[j][1] = d, L[j][3] = TRUE
               PROVE  FALSE
    BY <1>6 DEF SpeaksOnce
  <2>1. src[i] \in 1..N /\ src[j] \in 1..N
    BY <1>8
  <2>2. o[src[i]][1] = Favorites /\ o[src[j]][1] = Favorites
    <3>1. PICK x \in DOMAIN B(src[i]) : L[i] = B(src[i])[x]
      BY <1>8
    <3>2. PICK y \in DOMAIN B(src[j]) : L[j] = B(src[j])[y]
      BY <1>8
    <3> QED BY <1>10, <2>1, <3>1, <3>2 DEF IsItem
  <2>3. src[i] = src[j]
    BY <1>1, <1>a, <2>1, <2>2 DEF Neat, Once
  <2>4. PICK x, y \in DOMAIN B(src[i]) : x # y /\ L[i] = B(src[i])[x] /\ L[j] = B(src[i])[y]
    BY <1>8, <2>3
  <2>5. x \in DOMAIN q /\ y \in DOMAIN q /\ q[x][1] = d /\ q[y][1] = d
    BY <1>9, <2>1, <2>2, <2>4 DEF IsItem
  <2>6. Once(q, d)
    BY <1>a DEF Neat, q
  <2> QED BY <2>4, <2>5, <2>6 DEF Once
<1>20. ASSUME NEW d \in Dirs, Once(o, d) PROVE SpeaksOnce(L, d, FALSE)
  <2> SUFFICES ASSUME NEW i \in 1..M, NEW j \in 1..M, i # j, L[i][1] = d, L[i][3] = FALSE,
                      L[j][1] = d, L[j][3] = FALSE
               PROVE  FALSE
    BY <1>6 DEF SpeaksOnce
  <2>1. /\ src[i] \in 1..N /\ o[src[i]][1] # Favorites /\ o[src[i]][1] = d
        /\ src[j] \in 1..N /\ o[src[j]][1] = d
    BY <1>13 DEF IsItem
  <2>2. src[i] = src[j]
    BY <1>1, <1>20, <2>1 DEF Once
  <2> QED BY <1>18, <2>1, <2>2
<1> QED BY <1>5, <1>16, <1>17, <1>19, <1>20 DEF L, o, q

-----------------------------------------------------------------------------
(* Types *)

File == [torn : BOOLEAN, members : Seq(Member)]
Ops  == {"changegamename", "changemodversion", "RemoveGame", "tofavorite", "notfavorite", "addgame"}

JobOK == job # NoJob =>
  /\ job.op \in Ops /\ job.entry \in Entry /\ job.at \in {1, 2, 3}
  /\ job.op = "changegamename" => job.arg \in Names /\ job.at = 1
  /\ job.op = "changemodversion" => job.arg \in Versions
  /\ job.op = "changemodversion" /\ job.at = 2 => NewDir # Dir
  /\ job.op # "RemoveGame" => job.at # 3
  /\ job.op = "tofavorite" => ~job.entry.fav
  /\ job.op = "notfavorite" => job.entry.fav
  /\ job.op = "addgame" => ~job.entry.fav

Typed == TypeOK /\ file \in File /\ Neat(file.members) /\ toLoad \in Loading /\ JobOK

LEMMA TypedInit == Init => Typed
<1> SUFFICES ASSUME Init PROVE Typed
  OBVIOUS
<1>1. PICK o \in FirstFiles : file = [torn |-> FALSE, members |-> o]
  BY DEF Init
<1>2. file \in File /\ Neat(file.members)
  BY <1>1, FilesAssumption DEF File
<1>3. toLoad \in Loading
  BY EmptySeq DEF Init, FreshMemory, Loading
<1>6. favArray \in Seq(Dirs) /\ nonArray \in Seq(Dirs)
  BY EmptySeq DEF Init, FreshMemory
<1>4. names \in [Dirs -> Strings]
  BY DEF Init, FreshMemory, Dirs, Strings
<1>5. dirs \subseteq Dirs
  BY DirsAssumption DEF Init, Dirs
<1> QED BY <1>2, <1>3, <1>4, <1>5, <1>6 DEF Init, FreshMemory, Typed, TypeOK, JobOK, File

LEMMA HeadAndTail ==
  ASSUME toLoad \in Loading, toLoad # <<>>
  PROVE  /\ Head(toLoad)[1] \in Dirs /\ Head(toLoad)[2] \in Strings /\ Head(toLoad)[3] \in BOOLEAN
         /\ Tail(toLoad) \in Loading
<1>1. Head(toLoad) \in Item /\ Tail(toLoad) \in Seq(Item)
  BY HeadTailProperties DEF Loading
<1> QED BY <1>1 DEF Item, Loading

LEMMA TypedLoad ==
  ASSUME Typed, LoadGameNameMapping \/ StoreName \/ Constructed \/ ShowList
  PROVE  Typed'
<1> USE DEF Typed, TypeOK, JobOK, NewDir, Dir
<1>1. CASE LoadGameNameMapping
  <2>1. file.members \in Seq(Member)
    BY DEF File
  <2>2. MembersToLoad \in Loading /\ <<>> \in Loading
    BY <2>1, LoadedList, EmptySeq DEF Loading
  <2> QED BY <1>1, <2>2 DEF LoadGameNameMapping, ghosts
<1>2. CASE StoreName
  <2>1. /\ Head(toLoad)[1] \in Dirs /\ Head(toLoad)[2] \in Strings
        /\ Tail(toLoad) \in Loading
    BY <1>2, HeadAndTail DEF StoreName
  <2>2. names' \in [Dirs -> Strings]
    BY <1>2, <2>1 DEF StoreName
  <2>3. favArray' \in Seq(Dirs) /\ nonArray' \in Seq(Dirs)
    BY <1>2, <2>1, AppendProperties DEF StoreName
  <2> QED BY <1>2, <2>1, <2>2, <2>3 DEF StoreName, ghosts
<1>3. CASE Constructed
  BY <1>3 DEF Constructed, memory, ghosts
<1>4. CASE ShowList
  BY <1>4 DEF ShowList, memory, ghosts
<1> QED BY <1>1, <1>2, <1>3, <1>4

LEMMA CopyTyped == \A d : Copy(d) \in 1..2
BY DEF Copy

LEMMA PlacesTyped ==
  ASSUME NEW a \in Seq(Dirs), NEW b \in BOOLEAN
  PROVE  /\ DOMAIN a \subseteq Nat /\ \A i \in DOMAIN a : a[i] \in Dirs
         /\ Places(a, b) \subseteq Dirs \X BOOLEAN \X Nat
<1>1. DOMAIN a = 1..Len(a) /\ Len(a) \in Nat /\ \A i \in 1..Len(a) : a[i] \in Dirs
  BY LenProperties, ElementOfSeq
<1> QED BY <1>1 DEF Places

LEMMA TypedScan ==
  ASSUME Typed, Scan
  PROVE  Typed'
<1> USE DEF Typed, TypeOK, JobOK, NewDir, Dir, ScanFrame
<1>1. CASE NoServices
  BY <1>1 DEF NoServices
<1>2. CASE ScanDirs
  BY <1>2 DEF ScanDirs
<1>3. CASE MergeDirs
  <2>1. /\ Places(favArray, TRUE) \subseteq Dirs \X BOOLEAN \X Nat
        /\ Places(nonArray, FALSE) \subseteq Dirs \X BOOLEAN \X Nat
    BY PlacesTyped
  <2>2. {<<d, FALSE, 0>> : d \in unlisted} \subseteq Dirs \X BOOLEAN \X Nat
    <3>1. \A d \in unlisted : d \in Dirs
      OBVIOUS
    <3> HIDE DEF Typed, TypeOK
    <3>2. \A d \in unlisted : <<d, FALSE, 0>> \in Dirs \X BOOLEAN \X Nat
      BY <3>1
    <3> QED BY <3>2
  <2>3. pending' \subseteq Dirs \X BOOLEAN \X Nat /\ unlisted' = {} /\ scan' = "names" /\ UNCHANGED entries
    BY <1>3, <2>1, <2>2 DEF MergeDirs
  <2>4. UNCHANGED <<card, file, main, toLoad, names, favArray, nonArray, job, spoiled>>
    BY <1>3 DEF MergeDirs
  <2> QED BY <2>3, <2>4
<1>4. CASE ScanName
  <2>1. PICK p \in pending :
          /\ pending' = pending \ {p}
          /\ entries' = IF p[1] \in dirs \ bare
                          THEN entries \union {[dir |-> p[1], name |-> names[p[1]], fav |-> p[2],
                                                copy |-> Copy(p[1])]}
                          ELSE entries
    BY <1>4 DEF ScanName
  <2>2. p[1] \in Dirs /\ p[2] \in BOOLEAN
    OBVIOUS
  <2>3. [dir |-> p[1], name |-> names[p[1]], fav |-> p[2], copy |-> Copy(p[1])] \in Entry
    <3>1. Copy(p[1]) \in 1..2
      BY CopyTyped
    <3> QED BY <2>2, <3>1 DEF Entry
  <2>4. entries' \subseteq Entry /\ pending' \subseteq Dirs \X BOOLEAN \X Nat
    BY <2>1, <2>3
  <2> QED BY <1>4, <2>4 DEF ScanName
<1>5. CASE ScanDone
  BY <1>5 DEF ScanDone
<1> QED BY <1>1, <1>2, <1>3, <1>4, <1>5 DEF Scan

IsAsk(op, e, arg) ==
  /\ Ask(op, e, arg) /\ op \in Ops /\ e \in Entry
  /\ op # "addgame" => e \in entries
  /\ op = "changegamename" => arg \in Names
  /\ op = "changemodversion" => arg \in Versions
  /\ op \in {"tofavorite", "addgame"} => ~e.fav
  /\ op = "notfavorite" => e.fav
  /\ op = "addgame" => e.dir[2] = NoVersion

LEMMA AskedForm ==
  ASSUME Typed, AskGame
  PROVE  \E op, e, arg : IsAsk(op, e, arg)
<1>1. \A e \in entries : e \in Entry /\ e.fav \in BOOLEAN
  BY DEF Typed, TypeOK, Entry
<1>2. CASE \E e \in entries, n \in Names : Ask("changegamename", e, n)
  <2>1. \E e \in entries, n \in Names : IsAsk("changegamename", e, n)
    BY <1>1, <1>2 DEF IsAsk, Ops
  <2> QED BY <2>1
<1>3. CASE \E e \in entries, v \in Versions : Ask("changemodversion", e, v)
  <2>1. \E e \in entries, v \in Versions : IsAsk("changemodversion", e, v)
    BY <1>1, <1>3 DEF IsAsk, Ops
  <2> QED BY <2>1
<1>4. CASE \E e \in entries : Ask("RemoveGame", e, NoVersion)
  <2>1. \E e \in entries : IsAsk("RemoveGame", e, NoVersion)
    BY <1>1, <1>4 DEF IsAsk, Ops
  <2> QED BY <2>1
<1>5. CASE \E e \in entries : Ask(IF e.fav THEN "notfavorite" ELSE "tofavorite", e, NoVersion)
  <2>1. \E e \in entries : IsAsk("notfavorite", e, NoVersion) \/ IsAsk("tofavorite", e, NoVersion)
    BY <1>1, <1>5 DEF IsAsk, Ops
  <2> QED BY <2>1
<1>6. CASE \E g \in Games, n \in Names :
             Ask("addgame", [dir |-> <<g, NoVersion>>, name |-> n, fav |-> FALSE,
                              copy |-> 1], NoVersion)
  <2>1. PICK g \in Games, n \in Names :
             Ask("addgame", [dir |-> <<g, NoVersion>>, name |-> n, fav |-> FALSE,
                              copy |-> 1], NoVersion)
    BY <1>6
  <2> DEFINE e == [dir |-> <<g, NoVersion>>, name |-> n, fav |-> FALSE, copy |-> 1]
  <2>2. e \in Entry /\ e.fav = FALSE /\ e.dir[2] = NoVersion
    BY DEF Entry, Dirs, Strings
  <2> HIDE DEF e
  <2>3. Ask("addgame", e, NoVersion)
    BY <2>1 DEF e
  <2>4. IsAsk("addgame", e, NoVersion)
    BY <2>2, <2>3 DEF IsAsk, Ops
  <2> QED BY <2>4
<1> QED BY <1>2, <1>3, <1>4, <1>5, <1>6 DEF AskGame

LEMMA JobAsked ==
  ASSUME NEW op, NEW e, NEW arg, IsAsk(op, e, arg)
  PROVE  /\ job' # NoJob /\ job'.op = op /\ job'.entry = e /\ job'.arg = arg /\ job'.at = 1
         /\ IsJob(job') <=> IsEntry(e)
<1>1. job' = [op |-> op, entry |-> e, arg |-> arg, at |-> 1]
  BY DEF IsAsk, Ask
<1> QED BY <1>1 DEF NoJob, IsJob

LEMMA JobNext ==
  ASSUME ListInv, job # NoJob, NextStep, job.at \in Nat
  PROVE  /\ job' # NoJob /\ job'.op = job.op /\ job'.entry = job.entry /\ job'.arg = job.arg
         /\ job'.at = job.at + 1 /\ Dir' = Dir /\ NewDir' = NewDir
<1>1. PICK op, e, a, k : job = [op |-> op, entry |-> e, arg |-> a, at |-> k]
  BY DEF ListInv, IsJob
<1>2. job' = [op |-> op, entry |-> e, arg |-> a, at |-> k + 1]
  BY <1>1 DEF NextStep
<1> QED BY <1>1, <1>2 DEF NoJob, Dir, NewDir

LEMMA TypedAsk ==
  ASSUME Typed, AskGame
  PROVE  Typed'
<1>1. PICK op, e, arg : IsAsk(op, e, arg)
  BY AskedForm
<1>2. job' # NoJob /\ job'.op = op /\ job'.entry = e /\ job'.arg = arg /\ job'.at = 1
  BY <1>1, JobAsked
<1>3. JobOK'
  BY <1>1, <1>2 DEF JobOK, IsAsk
<1>4. spoiled' \subseteq Games
  <2>1. e.dir[1] \in Games
    BY <1>1 DEF IsAsk, Entry, Dirs
  <2> QED BY <1>1, <2>1 DEF IsAsk, Ask, Typed, TypeOK
<1>5. job'.entry \in Entry
  BY <1>1, <1>2 DEF IsAsk
<1> QED BY <1>1, <1>3, <1>4, <1>5 DEF IsAsk, Ask, Typed, TypeOK, memory

(* What rewriting the file f with the members o comes to.                   *)
Outcome(r, f, o) ==
  /\ r.file \in File
  /\ \/ r.ok = TRUE /\ f.torn = FALSE /\ r.file.members = o
     \/ r.ok = FALSE /\ r.file.members = f.members /\ (f.torn = TRUE => r.file.torn = TRUE)

LEMMA RewrittenIs ==
  ASSUME NEW f \in File, NEW o \in Seq(Member), NEW r \in Rewritten(f, o)
  PROVE  Outcome(r, f, o)
<1> DEFINE g == [f EXCEPT !.members = o]
           h == [f EXCEPT !.torn = TRUE]
           k == [torn |-> TRUE, members |-> o]
<1>1. g \in File /\ g.torn = f.torn /\ g.members = o
  BY DEF File
<1>2. h \in File /\ h.torn = TRUE /\ h.members = f.members
  BY DEF File
<1>3. k \in File /\ k.members = o
  BY DEF File
<1>4. \/ ~f.torn /\ r = [file |-> g, ok |-> TRUE]
      \/ r = [file |-> f, ok |-> FALSE]
      \/ r = [file |-> h, ok |-> FALSE]
      \/ ~f.torn /\ r = [file |-> k, ok |-> TRUE]
  BY DEF Rewritten
<1> HIDE DEF g, h, k
<1>5. CASE ~f.torn /\ r = [file |-> g, ok |-> TRUE]
  <2>1. f.torn = FALSE
    BY <1>5 DEF File
  <2> QED BY <1>1, <1>5, <2>1 DEF Outcome
<1>6. CASE r = [file |-> f, ok |-> FALSE]
  BY <1>6 DEF Outcome
<1>7. CASE r = [file |-> h, ok |-> FALSE]
  BY <1>2, <1>7 DEF Outcome
<1>8. CASE ~f.torn /\ r = [file |-> k, ok |-> TRUE]
  <2>1. f.torn = FALSE
    BY <1>8 DEF File
  <2> QED BY <1>3, <1>8, <2>1 DEF Outcome
<1> QED BY <1>4, <1>5, <1>6, <1>7, <1>8

LEMMA PrunedIs ==
  ASSUME NEW f \in File, NEW o \in Seq(Member), NEW r \in Pruned(f, o)
  PROVE  Outcome(r, f, o)
<1>1. CASE ~f.torn /\ o = f.members
  <2>1. r = [file |-> f, ok |-> TRUE]
    BY <1>1 DEF Pruned
  <2>2. f.torn = FALSE
    BY <1>1 DEF File
  <2> QED BY <1>1, <2>1, <2>2 DEF Outcome
<1>2. CASE ~(~f.torn /\ o = f.members)
  BY <1>2, RewrittenIs DEF Pruned
<1> QED BY <1>1, <1>2

(* The directories an operation is about. *)
Touched == IF job.op = "changemodversion" THEN {Dir, NewDir} ELSE {Dir}

LEMMA Amended ==
  ASSUME NEW e \in Entry
  PROVE  /\ \A n \in Strings : [e EXCEPT !.name = n]
                             = [dir |-> e.dir, name |-> n, fav |-> e.fav, copy |-> e.copy]
         /\ \A b \in BOOLEAN : [e EXCEPT !.fav = b]
                             = [dir |-> e.dir, name |-> e.name, fav |-> b, copy |-> e.copy]
         /\ e = [dir |-> e.dir, name |-> e.name, fav |-> e.fav, copy |-> e.copy]
         /\ e.dir \in Dirs /\ e.name \in Strings /\ e.fav \in BOOLEAN /\ e.copy \in 1..2
BY DEF Entry

LEMMA EntryInIs ==
  ASSUME job.entry \in Entry, NEW d \in Dirs
  PROVE  /\ EntryIn(d) \in Entry /\ EntryIn(d).dir = d
         /\ EntryIn(d).name = job.entry.name /\ EntryIn(d).fav = job.entry.fav
<1> DEFINE e == job.entry
<1>1. /\ e = [dir |-> e.dir, name |-> e.name, fav |-> e.fav, copy |-> e.copy]
      /\ e.name \in Strings /\ e.fav \in BOOLEAN
  BY Amended
<1>2. EntryIn(d) = [dir |-> d, name |-> e.name, fav |-> e.fav, copy |-> Copy(d)]
  BY <1>1, EntryInForm
<1>3. Copy(d) \in 1..2
  BY CopyTyped
<1> QED BY <1>1, <1>2, <1>3 DEF Entry

LEMMA JobFacts ==
  ASSUME Typed, job # NoJob
  PROVE  /\ job.op \in Ops /\ job.entry \in Entry /\ job.at \in {1, 2, 3}
         /\ Dir \in Dirs /\ job.entry.name \in Strings /\ job.entry.fav \in BOOLEAN
         /\ job.op = "changegamename" => job.arg \in Strings
         /\ job.op = "changemodversion" => NewDir \in Dirs /\ NewDir[1] = Dir[1]
         /\ Dir[1] \in Games
<1>1. job.op \in Ops /\ job.entry \in Entry /\ job.at \in {1, 2, 3}
  BY DEF Typed, JobOK
<1>2. Dir \in Dirs /\ job.entry.name \in Strings /\ job.entry.fav \in BOOLEAN
  BY <1>1 DEF Entry, Dir
<1>3. Dir[1] \in Games
  BY <1>2 DEF Dirs
<1>4. job.op = "changegamename" => job.arg \in Strings
  BY DEF Typed, JobOK, Strings
<1>5. job.op = "changemodversion" => NewDir \in Dirs /\ NewDir[1] = Dir[1]
  BY <1>3 DEF Typed, JobOK, NewDir, Dirs
<1> QED BY <1>1, <1>2, <1>3, <1>4, <1>5

(* The file after an operation: as it was, or rewritten with the members o, *)
(* which tell the same of the directories the operation is not about.      *)
Writes(o, r) ==
  /\ o \in Seq(Member) /\ Neat(o) /\ Outcome(r, file, o) /\ file' = r.file
  /\ \A d \in Dirs \ Touched : SameView(o, file.members, d)

LEMMA EditWrites ==
  ASSUME Typed, Edit
  PROVE  UNCHANGED file \/ \E o, r : Writes(o, r)
<1> DEFINE M == file.members
<1>1. job # NoJob
  BY DEF Edit, changegamename, tofavorite, notfavorite, changemodversion, RemoveGame, AddGame, Doing
<1>2. M \in Seq(Member) /\ Neat(M) /\ file \in File
  BY DEF Typed, File
<1> HIDE DEF M
<1>3. ASSUME NEW o \in Seq(Member), Neat(o), \A d \in Dirs \ Touched : SameView(o, M, d),
             \E r \in Rewritten(file, o) \union Pruned(file, o) : file' = r.file
      PROVE  \E p, r : Writes(p, r)
  <2>1. PICK r \in Rewritten(file, o) \union Pruned(file, o) : file' = r.file
    BY <1>3
  <2>2. Outcome(r, file, o)
    BY <1>2, RewrittenIs, PrunedIs
  <2>3. Writes(o, r)
    BY <1>3, <2>1, <2>2 DEF Writes, M
  <2> QED BY <2>3
<1>4. /\ Dir \in Dirs /\ job.entry.name \in Strings /\ Dir \in Touched
      /\ job.op = "changegamename" => job.arg \in Strings
      /\ job.op = "changemodversion" => NewDir \in Dirs /\ NewDir[1] = Dir[1] /\ NewDir \in Touched
  BY <1>1, JobFacts DEF Touched
<1>5. \A n \in Strings : LET o == Named(M, Dir, n) IN
        o \in Seq(Member) /\ Neat(o) /\ \A d \in Dirs \ Touched : SameView(o, M, d)
  BY <1>2, <1>4, NamedKeeps
<1>6. \A n \in Strings : LET o == Favored(M, Dir, n) IN
        o \in Seq(Member) /\ Neat(o) /\ \A d \in Dirs \ Touched : SameView(o, M, d)
  BY <1>2, <1>4, FavoredKeeps
<1>7. LET o == Drop(M, Dir) IN
        o \in Seq(Member) /\ Neat(o) /\ \A d \in Dirs \ Touched : SameView(o, M, d)
  BY <1>2, <1>4, DropKeeps
<1>8. LET o == DropNested(M, Favorites, Dir) IN
        o \in Seq(Member) /\ Neat(o) /\ \A d \in Dirs \ Touched : SameView(o, M, d)
  BY <1>2, <1>4, DropNestedKeeps
<1>9. job.op = "changemodversion" /\ NewDir # Dir => LET o == RenameOrCreate(M, Dir, NewDir) IN
        o \in Seq(Member) /\ Neat(o) /\ \A d \in Dirs \ Touched : SameView(o, M, d)
  BY <1>2, <1>4, RenameKeeps
<1>10. CASE changegamename
  BY <1>3, <1>4, <1>5, <1>6, <1>10 DEF changegamename, Doing, M
<1>11. CASE tofavorite
  BY <1>3, <1>4, <1>6, <1>7, <1>11 DEF tofavorite, M
<1>12. CASE notfavorite
  BY <1>3, <1>4, <1>5, <1>8, <1>12 DEF notfavorite, M
<1>13. CASE changemodversion
  <2>1. CASE Doing("changemodversion", 1)
    BY <1>13, <2>1 DEF changemodversion, Doing
  <2>2. CASE Doing("changemodversion", 2)
    <3>1. job.op = "changemodversion" /\ NewDir # Dir
      BY <2>2 DEF Doing, Typed, JobOK
    <3>2. \E r \in Rewritten(file, RenameOrCreate(M, Dir, NewDir)) : file' = r.file
      BY <1>13, <2>2 DEF changemodversion, Doing, M
    <3> QED BY <1>3, <1>9, <3>1, <3>2
  <2> QED BY <1>13, <2>1, <2>2 DEF changemodversion
<1>14. CASE RemoveGame
  BY <1>3, <1>7, <1>8, <1>14 DEF RemoveGame, M
<1>15. CASE AddGame
  BY <1>3, <1>4, <1>5, <1>15 DEF AddGame, M
<1> QED BY <1>10, <1>11, <1>12, <1>13, <1>14, <1>15 DEF Edit

LEMMA FileKept ==
  ASSUME Typed, Edit
  PROVE  /\ file' \in File /\ Neat(file'.members)
         /\ file'.torn = FALSE => file.torn = FALSE
         /\ \A d \in Dirs \ Touched : SameView(file'.members, file.members, d)
<1>1. file \in File /\ Neat(file.members) /\ file.torn \in BOOLEAN
  BY DEF Typed, File
<1>2. CASE UNCHANGED file
  BY <1>1, <1>2 DEF SameView
<1>3. CASE \E o, r : Writes(o, r)
  <2>1. PICK o, r : Writes(o, r)
    BY <1>3
  <2> QED BY <1>1, <2>1 DEF Writes, Outcome, SameView
<1> QED BY <1>2, <1>3, EditWrites

(* What becomes of the operation, the card and the list in a step of it.    *)
LEMMA JobStep ==
  ASSUME Typed, ListInv, Edit
  PROVE  /\ job # NoJob /\ JobFrame
         /\ \/ job' = NoJob
            \/ /\ NextStep /\ UNCHANGED entries
               /\ job.at \in {1, 2} /\ job.op # "changegamename"
               /\ job.op # "RemoveGame" => job.at = 1
               /\ job.op = "changemodversion" => NewDir # Dir
         /\ dirs' \subseteq dirs \union Touched
         /\ dirs \subseteq dirs' \union Touched
         /\ bare' \subseteq dirs' /\ left' \subseteq left \union {Dir}
         /\ \E new \in Entry : new.dir \in Touched /\ entries' \subseteq entries \union {new}
         /\ \A e \in entries : e.dir # Dir => e \in entries'
         /\ spoiled' = spoiled \/ spoiled' = spoiled \union {Dir[1]}
<1>1. job # NoJob
  BY DEF Edit, changegamename, tofavorite, notfavorite, changemodversion, RemoveGame, AddGame, Doing
<1> DEFINE e == job.entry
<1>2. /\ Dir \in Dirs /\ e \in Entry /\ e.dir = Dir /\ Dir \in Touched
      /\ job.op = "changegamename" => job.arg \in Strings
      /\ job.op = "changemodversion" => NewDir \in Dirs /\ NewDir \in Touched
  BY <1>1, JobFacts DEF Touched, Dir
<1>3. /\ \A n \in Strings : [e EXCEPT !.name = n] \in Entry /\ [e EXCEPT !.name = n].dir = Dir
      /\ \A b \in BOOLEAN : [e EXCEPT !.fav = b] \in Entry /\ [e EXCEPT !.fav = b].dir = Dir
      /\ \A d \in Dirs : EntryIn(d) \in Entry /\ EntryIn(d).dir = d
  <2>1. \A d \in Dirs : EntryIn(d) \in Entry /\ EntryIn(d).dir = d
    BY <1>2, EntryInIs
  <2>2. /\ e = [dir |-> Dir, name |-> e.name, fav |-> e.fav, copy |-> e.copy]
        /\ e.name \in Strings /\ e.fav \in BOOLEAN /\ e.copy \in 1..2 /\ Dir \in Dirs
    BY <1>2, Amended
  <2> HIDE DEF e
  <2>3. \A n \in Strings : [e EXCEPT !.name = n] \in Entry /\ [e EXCEPT !.name = n].dir = Dir
    BY <2>2 DEF Entry
  <2>4. \A b \in BOOLEAN : [e EXCEPT !.fav = b] \in Entry /\ [e EXCEPT !.fav = b].dir = Dir
    BY <2>2 DEF Entry
  <2> QED BY <2>1, <2>3, <2>4
<1> DEFINE Lists == /\ \E new \in Entry : new.dir \in Touched /\ entries' \subseteq entries \union {new}
                    /\ \A f \in entries : f.dir # Dir => f \in entries'
<1> HIDE DEF e
<1>4. ASSUME NEW new \in Entry, new.dir \in Touched,
             \/ Amend(new)
             \/ UNCHANGED entries
             \/ entries' = entries \ {e}
             \/ entries' = entries \union {new}
      PROVE  Lists
  BY <1>2, <1>4 DEF Amend, e
<1> HIDE DEF Lists
<1>a. UNCHANGED entries => Lists
  BY <1>2, <1>4
<1>b. /\ \A n \in Strings : Amend([e EXCEPT !.name = n]) => Lists
      /\ \A b \in BOOLEAN : Amend([e EXCEPT !.fav = b]) => Lists
  BY <1>2, <1>3, <1>4
<1>c. \A d \in Dirs : d \in Touched /\ Amend(EntryIn(d)) => Lists
  BY <1>3, <1>4
<1> DEFINE Goes == \/ job' = NoJob
                   \/ /\ NextStep /\ UNCHANGED entries
                      /\ job.at \in {1, 2} /\ job.op # "changegamename"
                      /\ job.op # "RemoveGame" => job.at = 1
                      /\ job.op = "changemodversion" => NewDir # Dir
           Card == /\ dirs' \subseteq dirs \union Touched /\ dirs \subseteq dirs' \union Touched
                   /\ bare' \subseteq dirs' /\ left' \subseteq left \union {Dir}
           Ghost == spoiled' = spoiled \/ spoiled' = spoiled \union {Dir[1]}
<1>d. bare \subseteq dirs
  BY DEF Typed, TypeOK
<1>5. CASE changegamename
  <2>1. job.op = "changegamename" /\ job' = NoJob /\ JobFrame /\ UNCHANGED <<card, spoiled>>
    BY <1>5 DEF changegamename, Doing, Done
  <2>2. Amend([e EXCEPT !.name = job.arg]) \/ UNCHANGED entries
    BY <1>5 DEF changegamename, e
  <2>3. Lists
    BY <1>2, <1>a, <1>b, <2>1, <2>2
  <2> QED BY <1>1, <1>d, <2>1, <2>3 DEF Lists
<1>6. CASE tofavorite \/ notfavorite
  <2>1. /\ job.op \in {"tofavorite", "notfavorite"} /\ JobFrame /\ UNCHANGED card
        /\ job' = NoJob \/ (NextStep /\ job.at = 1)
        /\ \/ \E b \in BOOLEAN : Amend([e EXCEPT !.fav = b])
           \/ UNCHANGED entries
        /\ spoiled' = spoiled \/ spoiled' = spoiled \union {Dir[1]}
    <3>1. CASE tofavorite
      BY <3>1 DEF tofavorite, Doing, Done, Spoil, e
    <3>2. CASE notfavorite
      BY <3>2 DEF notfavorite, Doing, Done, Spoil, e
    <3> QED BY <1>6, <3>1, <3>2
  <2>2. job' = NoJob \/ UNCHANGED entries
    BY <1>6 DEF tofavorite, notfavorite, Done
  <2>3. Lists
    BY <1>a, <1>b, <2>1
  <2> QED BY <1>1, <1>d, <2>1, <2>2, <2>3 DEF Lists
<1>7. CASE changemodversion
  <2>1. CASE Doing("changemodversion", 1)
    <3>1. /\ job.op = "changemodversion" /\ job.at = 1 /\ JobFrame /\ UNCHANGED <<entries, spoiled>>
          /\ \/ job' = NoJob /\ UNCHANGED card
             \/ /\ NextStep /\ NewDir # Dir /\ dirs' = (dirs \ {Dir}) \union {NewDir}
                /\ bare' \subseteq (bare \ {Dir}) \union {NewDir} /\ UNCHANGED left
      BY <1>7, <2>1 DEF changemodversion, Doing, Done
    <3> QED BY <1>1, <1>2, <1>a, <1>d, <3>1 DEF Lists
  <2>2. CASE Doing("changemodversion", 2)
    <3>1. /\ job.op = "changemodversion" /\ job' = NoJob /\ JobFrame /\ UNCHANGED card
          /\ Amend(EntryIn(NewDir))
          /\ spoiled' = spoiled \/ spoiled' = spoiled \union {Dir[1]}
      BY <1>7, <2>2 DEF changemodversion, Doing, Done, Spoil, e
    <3>2. Lists
      BY <1>2, <1>c, <3>1
    <3> QED BY <1>1, <1>d, <3>1, <3>2 DEF Lists
  <2> QED BY <1>7, <2>1, <2>2 DEF changemodversion
<1>8. CASE RemoveGame
  <2>1. /\ job.op = "RemoveGame" /\ JobFrame
        /\ job' = NoJob \/ (NextStep /\ UNCHANGED entries /\ job.at \in {1, 2})
        /\ \/ dirs' = dirs \ {Dir} /\ bare' = bare \ {Dir}
           \/ dirs' = dirs /\ bare' \subseteq bare \union (dirs \intersect {Dir})
        /\ left' \subseteq left \union {Dir}
        /\ entries' = entries \/ entries' = entries \ {e}
        /\ spoiled' = spoiled \/ spoiled' = spoiled \union {Dir[1]}
    BY <1>8 DEF RemoveGame, Doing, Done, Spoil, e
  <2>2. Lists
    BY <1>2, <1>4, <2>1
  <2> QED BY <1>1, <1>2, <1>d, <2>1, <2>2 DEF Lists
<1>9. CASE AddGame
  <2>1. /\ job.op = "addgame" /\ JobFrame
        /\ job' = NoJob \/ (NextStep /\ UNCHANGED entries /\ job.at = 1)
        /\ \/ UNCHANGED <<dirs, bare>>
           \/ dirs' = dirs \union {Dir} /\ bare' \subseteq bare \union {Dir}
        /\ left' \subseteq left \union {Dir}
        /\ entries' = entries \/ entries' = entries \union {EntryIn(Dir)}
        /\ spoiled' = spoiled \/ spoiled' = spoiled \union {Dir[1]}
    BY <1>9 DEF AddGame, Doing, Done, Spoil, e
  <2>2. Lists
    BY <1>2, <1>3, <1>4, <2>1
  <2> QED BY <1>1, <1>2, <1>d, <2>1, <2>2 DEF Lists
<1> QED BY <1>5, <1>6, <1>7, <1>8, <1>9 DEF Edit

LEMMA TypedEdit ==
  ASSUME Typed, ListInv, Edit
  PROVE  Typed'
<1>1. /\ job # NoJob /\ JobFrame /\ Touched \subseteq Dirs
      /\ dirs' \subseteq dirs \union Touched /\ bare' \subseteq dirs'
      /\ left' \subseteq left \union {Dir} /\ Dir \in Dirs
      /\ spoiled' \subseteq spoiled \union {Dir[1]} /\ Dir[1] \in Games
      /\ \E new \in Entry : entries' \subseteq entries \union {new}
  BY JobStep, JobFacts DEF Touched
<1>2. file' \in File /\ Neat(file'.members) /\ file'.torn \in BOOLEAN
  BY FileKept DEF File
<1>3. (job' = NoJob \/ job'.entry \in Entry) /\ JobOK'
  <2>1. CASE job' = NoJob
    BY <2>1 DEF JobOK
  <2>2. CASE NextStep /\ job.at \in {1, 2} /\ job.op # "changegamename"
             /\ (job.op # "RemoveGame" => job.at = 1)
             /\ (job.op = "changemodversion" => NewDir # Dir)
    <3>1. /\ job' # NoJob /\ job'.op = job.op /\ job'.entry = job.entry /\ job'.arg = job.arg
          /\ job'.at = job.at + 1 /\ Dir' = Dir /\ NewDir' = NewDir
      BY <1>1, <2>2, JobNext
    <3>2. job'.at \in {2, 3} /\ (job.op # "RemoveGame" => job'.at = 2)
      BY <2>2, <3>1
    <3>3. /\ job.op \in Ops /\ job.entry \in Entry
          /\ job.op = "changemodversion" => job.arg \in Versions
          /\ job.op = "tofavorite" => ~job.entry.fav
          /\ job.op = "notfavorite" => job.entry.fav
          /\ job.op = "addgame" => ~job.entry.fav
      BY <1>1 DEF Typed, JobOK
    <3>4. JobOK'
      BY <2>2, <3>1, <3>2, <3>3 DEF JobOK
    <3> QED BY <3>1, <3>3, <3>4
  <2> QED BY <2>1, <2>2, JobStep
<1>4. TypeOK'
  BY <1>1, <1>2, <1>3 DEF Typed, TypeOK, JobFrame, memory
<1> QED BY <1>1, <1>2, <1>3, <1>4 DEF Typed, JobFrame, memory

LEMMA TypedSession ==
  ASSUME Typed, Quit \/ Crash \/ Start \/ UNCHANGED vars
  PROVE  Typed'
<1> USE DEF Typed, TypeOK, JobOK, NewDir, Dir
<1>1. ASSUME Forget, UNCHANGED <<dirs, bare, file>>, main' = "off", spoiled' \subseteq Games
      PROVE  Typed'
  <2>1. toLoad' \in Loading /\ names' \in [Dirs -> Strings]
    BY <1>1, EmptySeq DEF Forget, Loading, Dirs, Strings
  <2>2. <<>> \in Seq(Dirs)
    BY EmptySeq
  <2> QED BY <1>1, <2>1, <2>2 DEF Forget
<1>2. CASE Quit
  BY <1>1, <1>2 DEF Quit
<1>3. CASE Crash
  <2>1. Dir[1] \in Games
    BY <1>3, JobFacts DEF Crash
  <2> QED BY <1>1, <1>3, <2>1 DEF Crash, Spoil
<1>4. CASE Start
  BY <1>4 DEF Start, memory
<1>5. CASE UNCHANGED vars
  BY <1>5 DEF vars, memory, ghosts
<1> QED BY <1>2, <1>3, <1>4, <1>5

LEMMA TypedMods ==
  ASSUME Typed, ModsChange
  PROVE  Typed'
BY DEF Typed, TypeOK, JobOK, NewDir, Dir, ModsChange, memory

(* The invariant behind the next theorem. *)
TypedInv == Typed /\ ListInv

LEMMA TypedInvStep == TypedInv /\ [Next]_vars => TypedInv'
BY LoadPreserves, ScanPreserves, AskPreserves, EditPreserves, ModsPreserve,
   SessionPreserves, TypedLoad, TypedScan, TypedAsk, TypedEdit, TypedMods, TypedSession DEF TypedInv, Next

(* The variables keep their types: in particular the list, the arrays and   *)
(* the file only ever hold directories and names that may exist.            *)
THEOREM GamesTyped == Spec => []TypeOK
<1>1. Init => TypedInv
  BY TypedInit, ListInvInit DEF TypedInv
<1>2. TypedInv => TypeOK
  BY DEF TypedInv, Typed
<1> QED BY <1>1, <1>2, TypedInvStep, PTL DEF Spec

(* What one operation does to game_name.json changes what the next start    *)
(* shows of no other game, in whichever way its rewriting ends.             *)
THEOREM OtherGamesSpared == Spec => OthersSpared
<1> DEFINE Spares == ~file'.torn => \A d \in Dirs :
             Recorded(file.members, d)' # Recorded(file.members, d) =>
               job # NoJob /\ job.entry.dir[1] = d[1]
<1>1. Init => TypedInv
  BY TypedInit, ListInvInit DEF TypedInv
<1>2. ASSUME TypedInv, [Next]_vars PROVE Spares
  <2>1. CASE UNCHANGED file
    BY <2>1
  <2>2. CASE Edit
    <3>1. /\ job # NoJob
          /\ \A d \in Dirs \ Touched : SameView(file'.members, file.members, d)
      BY <1>2, <2>2, JobStep, FileKept DEF TypedInv
    <3>2. \A d \in Touched : job.entry.dir[1] = d[1]
      BY <1>2, <3>1, JobFacts DEF TypedInv, Touched, Dir
    <3> QED BY <3>1, <3>2 DEF SameView
  <2>3. Edit \/ UNCHANGED file
    BY <1>2 DEF Next, vars, LoadGameNameMapping, StoreName, Constructed, Scan, NoServices, ScanDirs,
       MergeDirs, ScanName, ScanDone, ScanFrame, ShowList, AskGame, Ask, ModsChange, Quit, Crash, Start
  <2> QED BY <2>1, <2>2, <2>3
<1>3. Spec => [][Spares]_vars
  BY <1>1, <1>2, TypedInvStep, PTL DEF Spec
<1> QED BY <1>3 DEF OthersSpared

-----------------------------------------------------------------------------
(* What the list, the card and the file agree on, step by step *)

(* The array a holds d at most once, or will when the constructor is done.  *)
StoresOnce(a, L, d, b) ==
  /\ \A i, j \in DOMAIN a : a[i] = d /\ a[j] = d => i = j
  /\ SpeaksOnce(L, d, b)
  /\ d \in ToSet(a) => ~Speaks(L, d, b)

(* What the constructor has stored of a whole file, and what it still has   *)
(* to store; nothing of a torn one.                                        *)
LoadedOf(d) ==
  /\ d \in ToSet(favArray) \/ Speaks(toLoad, d, TRUE) <=> Has(Nested(file.members), d)
  /\ d \in ToSet(nonArray) \/ Speaks(toLoad, d, FALSE) => Has(file.members, d)
  /\ StoresOnce(favArray, toLoad, d, TRUE)
  /\ ~Spoilt(d) => StoresOnce(nonArray, toLoad, d, FALSE)
  /\ ~Spoilt(d) =>
       \/ Ends(toLoad, d, Recorded(file.members, d).name)
       \/ /\ names[d] = Recorded(file.members, d).name
          /\ \A b \in BOOLEAN : ~Speaks(toLoad, d, b)
Loaded ==
  /\ file.torn = TRUE => toLoad = <<>> /\ favArray = <<>> /\ nonArray = <<>>
  /\ file.torn = FALSE => \A d \in Dirs : LoadedOf(d)

LoadInv ==
  /\ main \in {"off", "load"} =>
       favArray = <<>> /\ nonArray = <<>> /\ names = [d \in Dirs |-> d[1]] /\ toLoad = <<>>
  /\ main = "off" => scan = "start"
  /\ scan = "start" => raced = FALSE
  /\ main \in {"wait", "list"} => toLoad = <<>>
  /\ job # NoJob => main = "list"
  /\ scan # "names" => pending = {}
  /\ raced = FALSE /\ scan \in {"merge", "names"} => main \notin {"load", "loading"}
  /\ raced = FALSE /\ scan \in {"start", "merge"} /\ main \in {"loading", "wait"} => Loaded
  /\ raced = FALSE /\ scan = "merge" =>
       unlisted = dirs \ (ToSet(favArray) \union ToSet(nonArray))

(* The directory the operation is about to take away.                       *)
Gone(d) == Leaving /\ d = Dir

(* The file has d in one place, and only if it is on the card.              *)
FileOf(d) == file.torn = FALSE =>
  /\ InFile(file.members, d) => d \in dirs \/ Gone(d)
  /\ ~(Has(file.members, d) /\ Has(Nested(file.members), d))
  /\ Once(file.members, d)

(* What the scan is about to list is on the card, not yet listed, and to be *)
(* listed once.                                                            *)
PendingOf(d) == \A p \in pending : p[1] = d =>
  /\ d \in dirs /\ ~Listed(d) /\ ~Arriving(d)
  /\ \A q \in pending : q[1] = d => q = p
  /\ file.torn = FALSE => Recorded(file.members, d) = [name |-> names[d], fav |-> p[2]]

HalfDone(e) == job # NoJob /\ job.entry = e /\ job.at # 1
               /\ job.op \in {"tofavorite", "notfavorite", "RemoveGame"}

EntryOf(d) == \A e \in entries : e.dir = d =>
  /\ d \in dirs \/ Gone(d)
  /\ ~Arriving(d)
  /\ \A f \in entries : f.dir = d => f = e
  /\ file.torn = FALSE /\ ~HalfDone(e) => Recorded(file.members, d) = [name |-> e.name, fav |-> e.fav]

(* What an operation that is half way has left, and still builds on.        *)
HalfWay ==
  /\ job.op # "addgame" => job.entry \in entries
  /\ Arriving(Dir) => Dir \in dirs
  /\ job.op = "changemodversion" /\ job.at = 2 => NewDir \in dirs
  /\ file.torn = FALSE =>
       /\ job.op = "changemodversion" /\ job.at = 2 => ~InFile(file.members, NewDir)
       /\ job.op \in {"addgame", "tofavorite"} /\ job.at = 2 => ~InFile(file.members, Dir)
       /\ job.op = "notfavorite" /\ job.at = 2 => ~Has(Nested(file.members), Dir)
       /\ job.op = "RemoveGame" /\ job.at = 3 => ~Has(Nested(file.members), Dir)

JobOf(d) == job # NoJob /\ Dir = d => raced = FALSE /\ HalfWay

Agrees(d) == ~Spoilt(d) =>
  /\ FileOf(d) /\ JobOf(d)
  /\ raced = FALSE => PendingOf(d) /\ EntryOf(d)

AgreeInv == TypedInv /\ raced \in BOOLEAN /\ LoadInv /\ \A d \in Dirs : Agrees(d)

LEMMA SpeaksTail ==
  ASSUME NEW L \in Loading, L # <<>>, NEW d
  PROVE  /\ \A b : Speaks(L, d, b) <=> (Head(L)[1] = d /\ Head(L)[3] = b) \/ Speaks(Tail(L), d, b)
         /\ \A n : Ends(L, d, n) =>
              \/ Ends(Tail(L), d, n)
              \/ Head(L)[1] = d /\ Head(L)[2] = n /\ \A b : ~Speaks(Tail(L), d, b)
         /\ \A b : SpeaksOnce(L, d, b) =>
              /\ SpeaksOnce(Tail(L), d, b)
              /\ Head(L)[1] = d /\ Head(L)[3] = b => ~Speaks(Tail(L), d, b)
<1> DEFINE T == Tail(L)
           N == Len(L)
<1>1. N \in Nat /\ N # 0 /\ DOMAIN L = 1..N /\ L[1] = Head(L)
  BY EmptySeq, LenProperties, HeadTailProperties DEF Loading
<1>2. Len(T) = N - 1 /\ DOMAIN T = 1..(N - 1) /\ \A i \in 1..(N - 1) : T[i] = L[i + 1]
  <2>1. T \in Seq(Item) /\ Len(T) = N - 1 /\ \A i \in 1..Len(T) : T[i] = L[i + 1]
    BY HeadTailProperties DEF Loading
  <2> HIDE DEF T, N
  <2>2. DOMAIN T = 1..Len(T)
    BY <2>1, LenProperties
  <2> QED BY <2>1, <2>2
<1> HIDE DEF T, N
<1>3. \A i \in 1..N : i = 1 \/ (i - 1 \in 1..(N - 1) /\ L[i] = T[i - 1])
  BY <1>1, <1>2
<1>4. \A i \in 1..(N - 1) : i + 1 \in 1..N
  BY <1>1
<1>5. ASSUME NEW b
      PROVE  Speaks(L, d, b) <=> (Head(L)[1] = d /\ Head(L)[3] = b) \/ Speaks(T, d, b)
  <2>1. ASSUME Speaks(L, d, b)
        PROVE  (Head(L)[1] = d /\ Head(L)[3] = b) \/ Speaks(T, d, b)
    <3>1. PICK i \in 1..N : L[i][1] = d /\ L[i][3] = b
      BY <1>1, <2>1 DEF Speaks
    <3>2. CASE i = 1
      BY <1>1, <3>1, <3>2
    <3>3. CASE i # 1
      BY <1>2, <1>3, <3>1, <3>3 DEF Speaks
    <3> QED BY <3>2, <3>3
  <2>2. Head(L)[1] = d /\ Head(L)[3] = b => Speaks(L, d, b)
    BY <1>1 DEF Speaks
  <2>3. Speaks(T, d, b) => Speaks(L, d, b)
    BY <1>1, <1>2, <1>4 DEF Speaks
  <2> QED BY <2>1, <2>2, <2>3
<1>6. ASSUME NEW n, Ends(L, d, n)
      PROVE  \/ Ends(T, d, n)
             \/ Head(L)[1] = d /\ Head(L)[2] = n /\ \A b : ~Speaks(T, d, b)
  <2>1. PICK i \in 1..N : L[i][1] = d /\ L[i][2] = n /\ \A j \in 1..N : j > i => L[j][1] # d
    BY <1>1, <1>6 DEF Ends
  <2>2. CASE i = 1
    <3>1. \A j \in 1..(N - 1) : T[j][1] # d
      BY <1>1, <1>2, <1>4, <2>1, <2>2
    <3> QED BY <1>1, <1>2, <2>1, <2>2, <3>1 DEF Speaks
  <2>3. CASE i # 1
    <3>1. i - 1 \in 1..(N - 1) /\ L[i] = T[i - 1]
      BY <1>3, <2>3
    <3>2. \A j \in 1..(N - 1) : j > i - 1 => T[j][1] # d
      BY <1>1, <1>2, <1>4, <2>1
    <3> QED BY <1>2, <2>1, <3>1, <3>2 DEF Ends
  <2> QED BY <2>2, <2>3
<1>7. ASSUME NEW b, SpeaksOnce(L, d, b)
      PROVE  SpeaksOnce(T, d, b)
  <2> SUFFICES ASSUME NEW i \in 1..(N - 1), NEW j \in 1..(N - 1),
                      T[i][1] = d, T[i][3] = b, T[j][1] = d, T[j][3] = b
               PROVE  i = j
    BY <1>2 DEF SpeaksOnce
  <2>1. i + 1 \in 1..N /\ j + 1 \in 1..N /\ L[i + 1] = T[i] /\ L[j + 1] = T[j]
    BY <1>2, <1>4
  <2>2. i + 1 = j + 1
    BY <1>1, <1>7, <2>1 DEF SpeaksOnce
  <2> QED BY <1>1, <2>2
<1>8. ASSUME NEW b, SpeaksOnce(L, d, b), Head(L)[1] = d, Head(L)[3] = b, Speaks(T, d, b)
      PROVE  FALSE
  <2>1. PICK i \in 1..(N - 1) : T[i][1] = d /\ T[i][3] = b
    BY <1>2, <1>8 DEF Speaks
  <2>2. i + 1 \in 1..N /\ L[i + 1] = T[i] /\ 1 \in 1..N
    BY <1>1, <1>2, <1>4
  <2>3. i + 1 = 1
    BY <1>1, <1>8, <2>1, <2>2 DEF SpeaksOnce
  <2> QED BY <1>1, <2>3
<1> QED BY <1>5, <1>6, <1>7, <1>8 DEF T

(* What StoreName does to one of the arrays.                                *)
LEMMA StoredOnce ==
  ASSUME NEW L \in Loading, L # <<>>, NEW a \in Seq(Dirs), NEW b \in BOOLEAN,
         NEW c, c = IF Head(L)[3] = b THEN Append(a, Head(L)[1]) ELSE a, NEW d
  PROVE  /\ d \in ToSet(c) <=> d \in ToSet(a) \/ (Head(L)[1] = d /\ Head(L)[3] = b)
         /\ StoresOnce(a, L, d, b) => StoresOnce(c, Tail(L), d, b)
<1> DEFINE k == Head(L)[1]
           n == Len(a)
           e == Append(a, k)
<1>1. /\ Speaks(L, d, b) <=> (k = d /\ Head(L)[3] = b) \/ Speaks(Tail(L), d, b)
      /\ SpeaksOnce(L, d, b) =>
           /\ SpeaksOnce(Tail(L), d, b)
           /\ k = d /\ Head(L)[3] = b => ~Speaks(Tail(L), d, b)
  BY SpeaksTail
<1>2. a \in Seq(ToSet(a)) /\ n \in Nat /\ DOMAIN a = 1..n
  <2>1. n \in Nat /\ DOMAIN a = 1..n
    BY LenProperties
  <2>2. a = [i \in 1..n |-> a[i]] /\ \A i \in 1..n : a[i] \in ToSet(a)
    BY <2>1, ElementOfSeq DEF ToSet
  <2>3. a \in [1..n -> ToSet(a)]
    BY <2>2
  <2>4. Seq(ToSet(a)) = UNION {[1..m -> ToSet(a)] : m \in Nat}
    BY SeqDef
  <2> QED BY <2>1, <2>3, <2>4, Zenon
<1>3. /\ ToSet(e) = ToSet(a) \union {k} /\ DOMAIN e = DOMAIN a \union {n + 1}
      /\ \A i \in DOMAIN a : e[i] = a[i]
      /\ e[n + 1] = k
  BY <1>2, AppendSet
<1> HIDE DEF e, k, n
<1>4. CASE Head(L)[3] = b
  <2>1. c = e
    BY <1>4 DEF e, k
  <2>2. ASSUME StoresOnce(a, L, d, b)
        PROVE  StoresOnce(e, Tail(L), d, b)
    <3>1. k = d => d \notin ToSet(a) /\ ~Speaks(Tail(L), d, b)
      BY <1>1, <1>4, <2>2 DEF StoresOnce
    <3>2. \A i, j \in DOMAIN e : e[i] = d /\ e[j] = d => i = j
      <4>1. \A i \in DOMAIN a : a[i] \in ToSet(a)
        BY DEF ToSet
      <4> QED BY <1>3, <2>2, <3>1, <4>1 DEF StoresOnce
    <3>3. d \in ToSet(e) => ~Speaks(Tail(L), d, b)
      BY <1>1, <1>3, <2>2, <3>1 DEF StoresOnce
    <3> QED BY <1>1, <2>2, <3>2, <3>3 DEF StoresOnce
  <2> QED BY <1>3, <1>4, <2>1, <2>2 DEF k
<1>5. CASE Head(L)[3] # b
  BY <1>1, <1>5 DEF StoresOnce, k
<1> QED BY <1>4, <1>5

LEMMA StoredOf ==
  ASSUME Typed, StoreName, NEW d \in Dirs, LoadedOf(d)
  PROVE  LoadedOf(d)'
<1> DEFINE h == Head(toLoad)
           o == file.members
<1>1. /\ toLoad \in Loading /\ toLoad # <<>> /\ toLoad' = Tail(toLoad)
      /\ names' = [names EXCEPT ![h[1]] = h[2]] /\ names \in [Dirs -> Strings]
      /\ favArray' = IF h[3] THEN Append(favArray, h[1]) ELSE favArray
      /\ nonArray' = IF h[3] THEN nonArray ELSE Append(nonArray, h[1])
      /\ favArray \in Seq(Dirs) /\ nonArray \in Seq(Dirs)
      /\ file' = file /\ spoiled' = spoiled
  BY DEF StoreName, Typed, TypeOK
<1>2. h[1] \in Dirs /\ h[3] \in BOOLEAN
  BY <1>1, HeadAndTail
<1>3. /\ \A b : Speaks(toLoad, d, b) <=> (h[1] = d /\ h[3] = b) \/ Speaks(toLoad', d, b)
      /\ \A n : Ends(toLoad, d, n) =>
              \/ Ends(toLoad', d, n)
              \/ h[1] = d /\ h[2] = n /\ \A b : ~Speaks(toLoad', d, b)
  BY <1>1, SpeaksTail
<1> DEFINE n == Recorded(o, d).name
<1>4. /\ d \in ToSet(favArray) \/ Speaks(toLoad, d, TRUE) <=> Has(Nested(o), d)
      /\ d \in ToSet(nonArray) \/ Speaks(toLoad, d, FALSE) => Has(o, d)
      /\ StoresOnce(favArray, toLoad, d, TRUE)
      /\ ~Spoilt(d) => StoresOnce(nonArray, toLoad, d, FALSE)
      /\ ~Spoilt(d) => \/ Ends(toLoad, d, n)
                       \/ names[d] = n /\ \A b \in BOOLEAN : ~Speaks(toLoad, d, b)
  BY DEF LoadedOf
<1>5. /\ d \in ToSet(favArray') <=> d \in ToSet(favArray) \/ (h[1] = d /\ h[3] = TRUE)
      /\ StoresOnce(favArray', toLoad', d, TRUE)
  <2>1. favArray' = IF h[3] = TRUE THEN Append(favArray, h[1]) ELSE favArray
    BY <1>1, <1>2
  <2> QED BY <1>1, <1>4, <2>1, StoredOnce
<1>6. /\ d \in ToSet(nonArray') <=> d \in ToSet(nonArray) \/ (h[1] = d /\ h[3] = FALSE)
      /\ ~Spoilt(d) => StoresOnce(nonArray', toLoad', d, FALSE)
  <2>1. nonArray' = IF h[3] = FALSE THEN Append(nonArray, h[1]) ELSE nonArray
    BY <1>1, <1>2
  <2>2. /\ d \in ToSet(nonArray') <=> d \in ToSet(nonArray) \/ (h[1] = d /\ h[3] = FALSE)
        /\ StoresOnce(nonArray, toLoad, d, FALSE) => StoresOnce(nonArray', Tail(toLoad), d, FALSE)
    BY <1>1, <2>1, StoredOnce
  <2> QED BY <1>1, <1>4, <2>2
<1> HIDE DEF h, o, n
<1>7. names'[d] = IF d = h[1] THEN h[2] ELSE names[d]
  BY <1>1, <1>2
<1>8. d \in ToSet(favArray') \/ Speaks(toLoad', d, TRUE) <=> Has(Nested(o), d)
  BY <1>3, <1>4, <1>5
<1>9. d \in ToSet(nonArray') \/ Speaks(toLoad', d, FALSE) => Has(o, d)
  BY <1>3, <1>4, <1>6
<1>10. ~Spoilt(d) => \/ Ends(toLoad', d, n)
                     \/ names'[d] = n /\ \A b \in BOOLEAN : ~Speaks(toLoad', d, b)
  BY <1>2, <1>3, <1>4, <1>7
<1> QED BY <1>1, <1>5, <1>6, <1>8, <1>9, <1>10 DEF LoadedOf, Spoilt, n, o

LEMMA LoadKeepsLoadInv ==
  ASSUME AgreeInv, LoadGameNameMapping \/ StoreName \/ Constructed \/ ShowList
  PROVE  LoadInv'
<1> USE DEF AgreeInv, LoadInv
<1>1. CASE LoadGameNameMapping
  <2>1. /\ main = "load" /\ main' = "loading" /\ favArray = <<>> /\ nonArray = <<>>
        /\ \A d \in Dirs : names[d] = d[1]
        /\ toLoad' = IF file.torn THEN <<>> ELSE MembersToLoad
        /\ UNCHANGED <<dirs, file, names, favArray, nonArray, scan, unlisted, pending, job, raced, spoiled>>
    BY <1>1 DEF LoadGameNameMapping, ghosts
  <2>2. file.members \in Seq(Member) /\ Neat(file.members) /\ file.torn \in BOOLEAN
    BY DEF TypedInv, Typed, File
  <2>3. ASSUME NEW d \in Dirs, file.torn = FALSE
        PROVE  LoadedOf(d)'
    <3>1. ~Spoilt(d) => /\ ~(Has(file.members, d) /\ Has(Nested(file.members), d))
                        /\ Once(file.members, d)
      BY <2>3 DEF Agrees, FileOf
    <3>2. toLoad' = MembersToLoad
      BY <2>1, <2>3
    <3>3. /\ Speaks(toLoad', d, TRUE) <=> Has(Nested(file.members), d)
          /\ Speaks(toLoad', d, FALSE) => Has(file.members, d)
          /\ SpeaksOnce(toLoad', d, TRUE)
          /\ ~Spoilt(d) => SpeaksOnce(toLoad', d, FALSE)
          /\ ~Spoilt(d) =>
               \/ Ends(toLoad', d, Recorded(file.members, d).name)
               \/ /\ d[1] = Recorded(file.members, d).name
                  /\ \A b \in BOOLEAN : ~Speaks(toLoad', d, b)
      BY <2>2, <3>1, <3>2, LoadedList
    <3>4. /\ d \in ToSet(favArray') \/ Speaks(toLoad', d, TRUE) <=> Has(Nested(file.members), d)
          /\ d \in ToSet(nonArray') \/ Speaks(toLoad', d, FALSE) => Has(file.members, d)
          /\ StoresOnce(favArray', toLoad', d, TRUE)
          /\ ~Spoilt(d)' => StoresOnce(nonArray', toLoad', d, FALSE)
      <4>1. favArray' = <<>> /\ nonArray' = <<>> /\ (~Spoilt(d)' => ~Spoilt(d))
        BY <2>1 DEF Spoilt
      <4>2. ToSet(<<>>) = {} /\ DOMAIN <<>> = {}
        BY EmptySeq, LenProperties DEF ToSet
      <4> QED BY <3>3, <4>1, <4>2 DEF StoresOnce
    <3>5. ~Spoilt(d)' =>
               \/ Ends(toLoad', d, Recorded(file.members, d).name)
               \/ /\ names'[d] = Recorded(file.members, d).name
                  /\ \A b \in BOOLEAN : ~Speaks(toLoad', d, b)
      BY <2>1, <3>3 DEF Spoilt
    <3> QED BY <2>1, <3>4, <3>5 DEF LoadedOf
  <2>4. Loaded'
    BY <2>1, <2>3 DEF Loaded
  <2> QED BY <2>1, <2>4
<1>2. CASE StoreName
  <2>1. /\ main = "loading" /\ toLoad # <<>>
        /\ UNCHANGED <<dirs, file, main, scan, unlisted, pending, job, raced, spoiled>>
    BY <1>2 DEF StoreName, ghosts
  <2>2. Loaded => Loaded'
    BY <1>2, <2>1, StoredOf DEF Loaded, TypedInv
  <2> QED BY <2>1, <2>2
<1>3. CASE Constructed
  <2>1. /\ main = "loading" /\ main' = "wait" /\ toLoad = <<>>
        /\ UNCHANGED <<dirs, file, toLoad, names, favArray, nonArray, scan, unlisted, pending, job, raced, spoiled>>
    BY <1>3 DEF Constructed, memory, ghosts
  <2>2. Loaded => Loaded'
    BY <2>1 DEF Loaded, LoadedOf, Spoilt
  <2> QED BY <2>1, <2>2
<1>4. CASE ShowList
  <2>1. /\ main = "wait" /\ main' = "list" /\ (entries # {} \/ scan \in {"done", "failed"})
        /\ UNCHANGED <<dirs, toLoad, favArray, nonArray, scan, unlisted, pending, raced>>
    BY <1>4 DEF ShowList, memory, ghosts
  <2> QED BY <2>1
<1> QED BY <1>1, <1>2, <1>3, <1>4

LEMMA ScanKeepsLoadInv ==
  ASSUME AgreeInv, Scan
  PROVE  LoadInv' /\ raced' \in BOOLEAN
<1> USE DEF AgreeInv, LoadInv, ScanFrame
<1>1. Loaded /\ UNCHANGED <<file, toLoad, names, favArray, nonArray, spoiled>> => Loaded'
  BY DEF Loaded, LoadedOf, Spoilt
<1>2. scan = "start" => main \in {"off", "load", "loading", "wait"}
  BY DEF TypedInv, ListInv, Idle
<1>3. CASE NoServices
  BY <1>3 DEF NoServices
<1>4. CASE ScanDirs
  <2>1. /\ scan = "start" /\ main # "off" /\ scan' = "merge"
        /\ unlisted' = dirs \ (ToSet(favArray) \union ToSet(nonArray))
        /\ raced' = Racing
        /\ UNCHANGED <<dirs, file, main, toLoad, names, favArray, nonArray, job, spoiled, pending>>
    BY <1>4 DEF ScanDirs
  <2>3. Racing \in BOOLEAN /\ (~Racing => main \notin {"load", "loading"})
    BY DEF Racing
  <2> HIDE DEF AgreeInv, LoadInv, ScanFrame
  <2>4. raced' \in BOOLEAN
    BY <2>1, <2>3
  <2>5. raced' = FALSE => main \notin {"load", "loading"}
    BY <2>1, <2>3
  <2>2. raced' \in BOOLEAN /\ (raced' = FALSE => main = "wait")
    BY <1>2, <2>1, <2>4, <2>5
  <2> USE DEF AgreeInv, LoadInv, ScanFrame
  <2> QED BY <1>1, <2>1, <2>2
<1>5. CASE MergeDirs
  <2>1. /\ scan = "merge" /\ scan' = "names"
        /\ raced' = (raced \/ Racing)
        /\ UNCHANGED <<dirs, file, main, toLoad, names, favArray, nonArray, job, spoiled>>
    BY <1>5 DEF MergeDirs
  <2>2. raced' \in BOOLEAN /\ (raced' = FALSE => main \notin {"load", "loading"})
    BY <2>1 DEF Racing
  <2> QED BY <2>1, <2>2
<1>6. CASE ScanName
  <2>1. /\ scan = "names" /\ scan' = "names"
        /\ raced' = (raced \/ Racing)
        /\ UNCHANGED <<dirs, file, main, toLoad, names, favArray, nonArray, job, spoiled>>
    BY <1>6 DEF ScanName
  <2>2. raced' \in BOOLEAN /\ (raced' = FALSE => main \notin {"load", "loading"})
    BY <2>1 DEF Racing
  <2> QED BY <2>1, <2>2
<1>7. CASE ScanDone
  BY <1>7 DEF ScanDone
<1> QED BY <1>3, <1>4, <1>5, <1>6, <1>7 DEF Scan

LEMMA UserKeepsLoadInv ==
  ASSUME AgreeInv, AskGame \/ ModsChange \/ Edit
  PROVE  LoadInv' /\ raced' = raced
<1> USE DEF AgreeInv, LoadInv
<1>1. main = "list" /\ UNCHANGED <<main, memory, raced>>
  <2>1. CASE AskGame
    BY <2>1 DEF AskGame, Ask, MayEdit
  <2>2. CASE ModsChange
    BY <2>2 DEF ModsChange, MayEdit
  <2>3. CASE Edit
    BY <2>3, JobStep DEF JobFrame, ghosts, TypedInv
  <2> QED BY <2>1, <2>2, <2>3
<1>2. scan \notin {"start", "merge"}
  BY <1>1 DEF TypedInv, ListInv, Idle
<1> QED BY <1>1, <1>2 DEF memory

LEMMA SessionKeepsLoadInv ==
  ASSUME AgreeInv, Quit \/ Crash \/ Start \/ UNCHANGED vars
  PROVE  LoadInv' /\ raced' \in BOOLEAN
<1> USE DEF AgreeInv, LoadInv
<1>1. CASE Quit
  BY <1>1 DEF Quit, Forget
<1>2. CASE Crash
  BY <1>2 DEF Crash, Forget
<1>3. CASE Start
  BY <1>3 DEF Start, memory
<1>4. CASE UNCHANGED vars
  <2>1. UNCHANGED <<dirs, file, main, toLoad, names, favArray, nonArray, scan, unlisted, pending, job, raced, spoiled>>
    BY <1>4 DEF vars, memory, ghosts
  <2>2. Loaded => Loaded'
    BY <2>1 DEF Loaded, LoadedOf, Spoilt
  <2> QED BY <2>1, <2>2
<1> QED BY <1>1, <1>2, <1>3, <1>4

(* A step that leaves alone what concerns d.                                *)
LEMMA FrameAgrees ==
  ASSUME NEW d \in Dirs, Agrees(d),
         Spoilt(d) => Spoilt(d)',
         raced' = raced,
         d \in dirs' <=> d \in dirs,
         file'.torn = FALSE => file.torn = FALSE /\ SameView(file'.members, file.members, d),
         \A p : p[1] = d => (p \in pending' <=> p \in pending),
         pending = {} \/ names' = names,
         \A e : e.dir = d => (e \in entries' <=> e \in entries),
         Gone(d)' <=> Gone(d), Arriving(d)' <=> Arriving(d),
         \A e \in entries : e.dir = d => (HalfDone(e)' <=> HalfDone(e)),
         ~Spoilt(d)' => JobOf(d)'
  PROVE  Agrees(d)'
<1> DEFINE M == file.members
           N == file'.members
<1> SUFFICES ASSUME ~Spoilt(d)' PROVE FileOf(d)' /\ JobOf(d)' /\ (raced' = FALSE => PendingOf(d)' /\ EntryOf(d)')
  BY DEF Agrees
<1>1. FileOf(d) /\ (raced = FALSE => PendingOf(d) /\ EntryOf(d))
  BY DEF Agrees
<1>2. file'.torn = FALSE =>
        /\ file.torn = FALSE
        /\ Has(N, d) <=> Has(M, d)
        /\ Has(Nested(N), d) <=> Has(Nested(M), d)
        /\ Recorded(N, d) = Recorded(M, d)
        /\ Once(M, d) => Once(N, d)
  BY DEF SameView
<1>3. FileOf(d)'
  BY <1>1, <1>2 DEF FileOf, InFile
<1>4. Listed(d)' <=> Listed(d)
  BY DEF Listed
<1>5. ASSUME raced = FALSE
      PROVE  PendingOf(d)'
  <2> SUFFICES ASSUME NEW p \in pending', p[1] = d
               PROVE  /\ d \in dirs' /\ ~Listed(d)' /\ ~Arriving(d)'
                      /\ \A q \in pending' : q[1] = d => q = p
                      /\ file'.torn = FALSE => Recorded(N, d) = [name |-> names'[d], fav |-> p[2]]
    BY DEF PendingOf
  <2>1. p \in pending /\ names' = names
    OBVIOUS
  <2>2. /\ d \in dirs /\ ~Listed(d) /\ ~Arriving(d)
        /\ \A q \in pending : q[1] = d => q = p
        /\ file.torn = FALSE => Recorded(M, d) = [name |-> names[d], fav |-> p[2]]
    BY <1>1, <1>5, <2>1 DEF PendingOf
  <2> QED BY <1>2, <1>4, <2>1, <2>2
<1>6. ASSUME raced = FALSE
      PROVE  EntryOf(d)'
  <2> SUFFICES ASSUME NEW e \in entries', e.dir = d
               PROVE  /\ d \in dirs' \/ Gone(d)'
                      /\ ~Arriving(d)'
                      /\ \A f \in entries' : f.dir = d => f = e
                      /\ file'.torn = FALSE /\ ~HalfDone(e)' =>
                           Recorded(N, d) = [name |-> e.name, fav |-> e.fav]
    BY DEF EntryOf
  <2>1. e \in entries
    OBVIOUS
  <2>2. /\ d \in dirs \/ Gone(d)
        /\ ~Arriving(d)
        /\ \A f \in entries : f.dir = d => f = e
        /\ file.torn = FALSE /\ ~HalfDone(e) => Recorded(M, d) = [name |-> e.name, fav |-> e.fav]
    BY <1>1, <1>6, <2>1 DEF EntryOf
  <2> QED BY <1>2, <2>1, <2>2
<1> QED BY <1>3, <1>5, <1>6

LEMMA LoadAgrees ==
  ASSUME AgreeInv, LoadGameNameMapping \/ StoreName \/ Constructed \/ ShowList,
         NEW d \in Dirs
  PROVE  Agrees(d)'
<1>1. UNCHANGED <<dirs, file, pending, entries, job, raced, spoiled>>
  BY DEF LoadGameNameMapping, StoreName, Constructed, ShowList, memory, ghosts
<1>2. Agrees(d)
  BY DEF AgreeInv
<1>3. CASE raced = TRUE
  <2>1. (FileOf(d)' /\ JobOf(d)') \/ Spoilt(d)'
    BY <1>1, <1>2, <1>3 DEF Agrees, FileOf, Gone, Leaving, JobOf, Dir, Spoilt
  <2>2. raced' # FALSE
    BY <1>1, <1>3
  <2> QED BY <2>1, <2>2 DEF Agrees
<1>4. CASE raced = FALSE
  <2>1. pending = {} \/ names' = names
    BY <1>4 DEF AgreeInv, LoadInv, LoadGameNameMapping, StoreName, Constructed, ShowList, memory
  <2>2. /\ Spoilt(d) <=> Spoilt(d)'
        /\ Gone(d) <=> Gone(d)'
        /\ Arriving(d) <=> Arriving(d)'
        /\ \A e : HalfDone(e)' <=> HalfDone(e)
    BY <1>1 DEF Spoilt, Gone, Leaving, Arriving, HalfDone, Dir, NewDir
  <2>3. JobOf(d) => JobOf(d)'
    BY <1>1 DEF JobOf, HalfWay, Arriving, Dir, NewDir
  <2>4. ~Spoilt(d) => JobOf(d)
    BY <1>2 DEF Agrees
  <2>5. SameView(file'.members, file.members, d)
    BY <1>1 DEF SameView
  <2> QED BY <1>1, <1>2, <2>1, <2>2, <2>3, <2>4, <2>5, FrameAgrees
<1> QED BY <1>3, <1>4 DEF AgreeInv

LEMMA SessionAgrees ==
  ASSUME AgreeInv, Quit \/ Crash \/ Start \/ ModsChange \/ UNCHANGED vars, NEW d \in Dirs
  PROVE  Agrees(d)'
<1>1. Agrees(d)
  BY DEF AgreeInv
<1>2. CASE Quit \/ Crash
  <2>1. /\ UNCHANGED <<dirs, file>> /\ entries' = {} /\ pending' = {} /\ job' = NoJob
        /\ spoiled \subseteq spoiled'
        /\ job # NoJob => Dir[1] \in spoiled'
    BY <1>2 DEF Quit, Crash, Forget, Spoil
  <2>2. PendingOf(d)' /\ EntryOf(d)' /\ JobOf(d)'
    BY <2>1 DEF PendingOf, EntryOf, JobOf
  <2>3. Spoilt(d)' \/ FileOf(d)'
    BY <1>1, <2>1 DEF Agrees, FileOf, Gone, Leaving, Spoilt
  <2> QED BY <2>2, <2>3 DEF Agrees
<1>3. CASE Start \/ ModsChange \/ UNCHANGED vars
  <2>1. UNCHANGED <<dirs, file, pending, names, entries, job, raced, spoiled>>
    BY <1>3 DEF Start, ModsChange, vars, memory, ghosts
  <2>2. /\ Spoilt(d) <=> Spoilt(d)'
        /\ Gone(d) <=> Gone(d)'
        /\ Arriving(d) <=> Arriving(d)'
        /\ \A e : HalfDone(e)' <=> HalfDone(e)
    BY <2>1 DEF Spoilt, Gone, Leaving, Arriving, HalfDone, Dir, NewDir
  <2>3. JobOf(d) => JobOf(d)'
    BY <2>1 DEF JobOf, HalfWay, Arriving, Dir, NewDir
  <2>4. ~Spoilt(d) => JobOf(d)
    BY <1>1 DEF Agrees
  <2>5. SameView(file'.members, file.members, d)
    BY <2>1 DEF SameView
  <2> QED BY <1>1, <2>1, <2>2, <2>3, <2>4, <2>5, FrameAgrees
<1> QED BY <1>2, <1>3

LEMMA AskAgrees ==
  ASSUME AgreeInv, AskGame, NEW d \in Dirs
  PROVE  Agrees(d)'
<1>0. Agrees(d)
  BY DEF AgreeInv
<1>1. PICK op, e, arg : IsAsk(op, e, arg)
  BY AskedForm DEF AgreeInv, TypedInv
<1>2. /\ job' # NoJob /\ job'.op = op /\ job'.entry = e /\ job'.at = 1
      /\ UNCHANGED <<dirs, file, pending, names, entries, raced>>
      /\ Dir' = e.dir
      /\ op # "addgame" => e \in entries
      /\ spoiled' = IF raced THEN spoiled \union {e.dir[1]} ELSE spoiled
      /\ job = NoJob
  BY <1>1, JobAsked DEF IsAsk, Ask, MayEdit, memory, Dir
<1>3. /\ Spoilt(d) => Spoilt(d)'
      /\ Gone(d) <=> Gone(d)'
      /\ Arriving(d) <=> Arriving(d)'
      /\ \A f : HalfDone(f)' <=> HalfDone(f)
  BY <1>2 DEF Spoilt, Gone, Leaving, Arriving, HalfDone
<1>4. ~Spoilt(d)' => JobOf(d)'
  <2> SUFFICES ASSUME ~Spoilt(d)', e.dir = d
               PROVE  raced' = FALSE /\ HalfWay'
    BY <1>2 DEF JobOf, Dir
  <2>1. raced \in BOOLEAN /\ raced # TRUE
    BY <1>2 DEF AgreeInv, Spoilt
  <2>2. raced' = FALSE
    BY <1>2, <2>1
  <2>3. job'.at = 1 /\ ~Arriving(e.dir)' /\ (job'.op # "addgame" => job'.entry \in entries')
    BY <1>2 DEF Arriving
  <2>4. HalfWay'
    BY <1>2, <2>3 DEF HalfWay
  <2> QED BY <2>2, <2>4
<1>5. SameView(file'.members, file.members, d)
  BY <1>2 DEF SameView
<1> QED BY <1>0, <1>2, <1>3, <1>4, <1>5, FrameAgrees

LEMMA MergeAgrees ==
  ASSUME AgreeInv, MergeDirs, NEW d \in Dirs, ~Spoilt(d), raced' = FALSE
  PROVE  PendingOf(d)'
<1> DEFINE o == file.members
<1>1. /\ scan = "merge" /\ UNCHANGED <<dirs, file, names, job>>
      /\ pending' = Places(favArray, TRUE) \union Places(nonArray, FALSE)
                    \union {<<c, FALSE, 0>> : c \in unlisted}
      /\ raced' = (raced \/ Racing) /\ UNCHANGED entries
  BY DEF MergeDirs, ScanFrame
<1>2. raced = FALSE
  BY <1>1 DEF AgreeInv
<1>3. job = NoJob /\ entries = {} /\ main = "wait"
  BY <1>1, <1>2 DEF AgreeInv, TypedInv, ListInv, Idle, LoadInv
<1>4. unlisted = dirs \ (ToSet(favArray) \union ToSet(nonArray)) /\ Loaded /\ toLoad = <<>>
  BY <1>1, <1>2, <1>3 DEF AgreeInv, LoadInv
<1>5. /\ \A b : ~Speaks(<<>>, d, b)
      /\ \A n : ~Ends(<<>>, d, n)
  BY DEF Speaks, Ends
<1>6. ASSUME NEW p \in pending', p[1] = d
      PROVE  \/ \E i \in DOMAIN favArray : p = <<d, TRUE, i>> /\ favArray[i] = d /\ d \in ToSet(favArray)
             \/ \E i \in DOMAIN nonArray : p = <<d, FALSE, i>> /\ nonArray[i] = d /\ d \in ToSet(nonArray)
             \/ p = <<d, FALSE, 0>> /\ d \in unlisted
  <2>1. CASE p \in Places(favArray, TRUE)
    <3>1. PICK i \in DOMAIN favArray : p = <<favArray[i], TRUE, i>>
      BY <2>1 DEF Places
    <3> QED BY <1>6, <3>1 DEF ToSet
  <2>2. CASE p \in Places(nonArray, FALSE)
    <3>1. PICK i \in DOMAIN nonArray : p = <<nonArray[i], FALSE, i>>
      BY <2>2 DEF Places
    <3> QED BY <1>6, <3>1 DEF ToSet
  <2>3. CASE p \in {<<c, FALSE, 0>> : c \in unlisted}
    <3>1. PICK c \in unlisted : p = <<c, FALSE, 0>>
      BY <2>3
    <3>2. c = d
      BY <1>6, <3>1
    <3> QED BY <3>1, <3>2
  <2> QED BY <1>1, <2>1, <2>2, <2>3
<1>7. file.torn = FALSE => (InFile(o, d) => d \in dirs) /\ ~(Has(o, d) /\ Has(Nested(o), d))
  BY <1>3 DEF AgreeInv, Agrees, FileOf, Gone, Leaving
<1>8. file.torn = FALSE =>
        /\ d \in ToSet(favArray) <=> Has(Nested(o), d)
        /\ d \in ToSet(nonArray) => Has(o, d)
        /\ \A i, j \in DOMAIN favArray : favArray[i] = d /\ favArray[j] = d => i = j
        /\ \A i, j \in DOMAIN nonArray : nonArray[i] = d /\ nonArray[j] = d => i = j
        /\ names[d] = Recorded(o, d).name
  BY <1>4, <1>5 DEF Loaded, LoadedOf, StoresOnce
<1>9. file.torn = TRUE => d \notin ToSet(favArray) /\ d \notin ToSet(nonArray)
  <2>1. ToSet(<<>>) = {}
    BY EmptySeq, LenProperties DEF ToSet
  <2> QED BY <1>4, <2>1 DEF Loaded
<1>10. file.torn \in BOOLEAN
  BY DEF AgreeInv, TypedInv, Typed, File
<1>11. /\ Has(Nested(o), d) => Recorded(o, d) = [name |-> Recorded(o, d).name, fav |-> TRUE]
       /\ ~Has(Nested(o), d) => Recorded(o, d) = [name |-> Recorded(o, d).name, fav |-> FALSE]
  BY DEF Recorded
<1>12. ASSUME NEW p \in pending', p[1] = d
       PROVE  /\ d \in dirs
              /\ \A q \in pending' : q[1] = d => q = p
              /\ file.torn = FALSE => Recorded(o, d) = [name |-> names[d], fav |-> p[2]]
  <2>1. CASE file.torn = TRUE
    <3>1. d \in unlisted /\ \A q \in pending' : q[1] = d => q = <<d, FALSE, 0>>
      BY <1>6, <1>9, <1>12, <2>1
    <3> QED BY <1>4, <1>12, <2>1, <3>1
  <2>2. CASE file.torn = FALSE
    <3>1. d \in dirs
      BY <1>4, <1>6, <1>7, <1>8, <1>12, <2>2 DEF InFile
    <3>2. CASE d \in ToSet(favArray)
      <4>1. d \notin ToSet(nonArray) /\ d \notin unlisted /\ Has(Nested(o), d)
        BY <1>4, <1>7, <1>8, <2>2, <3>2
      <4>2. \A q \in pending' : q[1] = d =>
              \E i \in DOMAIN favArray : q = <<d, TRUE, i>> /\ favArray[i] = d
        BY <1>6, <4>1
      <4>3. PICK i \in DOMAIN favArray : p = <<d, TRUE, i>> /\ favArray[i] = d
        BY <1>12, <4>2
      <4>4. ASSUME NEW q \in pending', q[1] = d PROVE q = p
        <5>1. PICK j \in DOMAIN favArray : q = <<d, TRUE, j>> /\ favArray[j] = d
          BY <4>2, <4>4
        <5>2. i = j
          BY <1>8, <2>2, <4>3, <5>1
        <5> QED BY <4>3, <5>1, <5>2
      <4>5. p[2] = TRUE
        BY <4>3
      <4> QED BY <1>8, <1>11, <2>2, <3>1, <4>1, <4>4, <4>5
    <3>3. CASE d \in ToSet(nonArray)
      <4>1. d \notin ToSet(favArray) /\ d \notin unlisted /\ ~Has(Nested(o), d)
        BY <1>4, <1>7, <1>8, <2>2, <3>3
      <4>2. \A q \in pending' : q[1] = d =>
              \E i \in DOMAIN nonArray : q = <<d, FALSE, i>> /\ nonArray[i] = d
        BY <1>6, <4>1
      <4>3. PICK i \in DOMAIN nonArray : p = <<d, FALSE, i>> /\ nonArray[i] = d
        BY <1>12, <4>2
      <4>4. ASSUME NEW q \in pending', q[1] = d PROVE q = p
        <5>1. PICK j \in DOMAIN nonArray : q = <<d, FALSE, j>> /\ nonArray[j] = d
          BY <4>2, <4>4
        <5>2. i = j
          BY <1>8, <2>2, <4>3, <5>1
        <5> QED BY <4>3, <5>1, <5>2
      <4>5. p[2] = FALSE
        BY <4>3
      <4> QED BY <1>8, <1>11, <2>2, <3>1, <4>1, <4>4, <4>5
    <3>4. CASE d \notin ToSet(favArray) /\ d \notin ToSet(nonArray)
      <4>1. \A q \in pending' : q[1] = d => q = <<d, FALSE, 0>>
        BY <1>6, <3>4
      <4>2. p = <<d, FALSE, 0>> /\ ~Has(Nested(o), d)
        BY <1>8, <1>12, <2>2, <3>4, <4>1
      <4>3. p[2] = FALSE
        BY <4>2
      <4> QED BY <1>8, <1>11, <2>2, <3>1, <4>1, <4>2, <4>3
    <3> QED BY <3>2, <3>3, <3>4
  <2> QED BY <1>10, <2>1, <2>2
<1>13. ~Listed(d)' /\ ~Arriving(d)'
  BY <1>1, <1>3 DEF Listed, Arriving
<1> HIDE DEF o
<1>14. /\ dirs' = dirs /\ names' = names /\ file' = file
  BY <1>1
<1> QED BY <1>12, <1>13, <1>14 DEF PendingOf, o

LEMMA ListedAgrees ==
  ASSUME AgreeInv, ScanName, NEW d \in Dirs, ~Spoilt(d), raced' = FALSE
  PROVE  PendingOf(d)' /\ EntryOf(d)'
<1> DEFINE o == file.members
<1>1. PICK p \in pending :
        /\ pending' = pending \ {p}
        /\ entries' = IF p[1] \in dirs \ bare
                        THEN entries \union {[dir |-> p[1], name |-> names[p[1]], fav |-> p[2],
                                              copy |-> Copy(p[1])]}
                        ELSE entries
  BY DEF ScanName
<1>2. UNCHANGED <<dirs, file, names, job>> /\ raced' = (raced \/ Racing)
  BY DEF ScanName, ScanFrame
<1>3. raced = FALSE
  BY <1>2 DEF AgreeInv
<1>4. PendingOf(d) /\ EntryOf(d)
  BY <1>3 DEF AgreeInv, Agrees
<1>6. /\ Gone(d)' <=> Gone(d)
      /\ Arriving(d)' <=> Arriving(d)
      /\ \A e : HalfDone(e)' <=> HalfDone(e)
  BY <1>2 DEF Gone, Leaving, Arriving, HalfDone, Dir, NewDir
<1> DEFINE new == [dir |-> p[1], name |-> names[p[1]], fav |-> p[2], copy |-> Copy(p[1])]
<1>7. entries' = entries \/ entries' = entries \union {new}
  BY <1>1
<1>8. new.dir = p[1] /\ new.name = names[p[1]] /\ new.fav = p[2]
  OBVIOUS
<1> HIDE DEF new
<1>9. CASE p[1] = d
  <2>2. /\ d \in dirs /\ ~Listed(d) /\ ~Arriving(d)
        /\ \A q \in pending : q[1] = d => q = p
        /\ file.torn = FALSE => Recorded(o, d) = [name |-> names[d], fav |-> p[2]]
    BY <1>4, <1>9 DEF PendingOf
  <2>3. \A q \in pending' : q[1] # d
    BY <1>1, <2>2
  <2>4. PendingOf(d)'
    BY <2>3 DEF PendingOf
  <2>5. \A e \in entries' : e.dir = d => e = new
    BY <1>7, <2>2 DEF Listed
  <2>6. /\ d \in dirs' /\ ~Arriving(d)'
        /\ file'.torn = FALSE => Recorded(file'.members, d) = [name |-> new.name, fav |-> new.fav]
    BY <1>2, <1>6, <1>8, <1>9, <2>2
  <2>7. EntryOf(d)'
    BY <2>5, <2>6 DEF EntryOf
  <2> QED BY <2>4, <2>7
<1>10. CASE p[1] # d
  <2>1. \A e : e.dir = d => (e \in entries' <=> e \in entries)
    BY <1>7, <1>8, <1>10
  <2>2. \A q : q[1] = d => (q \in pending' <=> q \in pending)
    BY <1>1, <1>10
  <2>3. PendingOf(d)'
    BY <1>2, <1>4, <1>6, <2>1, <2>2 DEF PendingOf, Listed
  <2>4. EntryOf(d)'
    BY <1>2, <1>4, <1>6, <2>1 DEF EntryOf
  <2> QED BY <2>3, <2>4
<1> QED BY <1>9, <1>10

LEMMA ScanAgrees ==
  ASSUME AgreeInv, Scan, NEW d \in Dirs
  PROVE  Agrees(d)'
<1>0. Agrees(d)
  BY DEF AgreeInv
<1>1. /\ UNCHANGED <<dirs, file, names, job, spoiled>> /\ entries \subseteq entries'
      /\ job # NoJob => raced' = raced
  <2>1. job # NoJob => ~Racing /\ scan # "start"
    BY DEF AgreeInv, LoadInv, Racing, TypedInv, ListInv, Idle
  <2>2. UNCHANGED <<dirs, file, names, job, spoiled>> /\ entries \subseteq entries'
    BY DEF Scan, NoServices, ScanDirs, MergeDirs, ScanName, ScanDone, ScanFrame
  <2>3. raced' = raced \/ (raced' = Racing /\ scan = "start") \/ raced' = (raced \/ Racing)
    BY DEF Scan, NoServices, ScanDirs, MergeDirs, ScanName, ScanDone, ScanFrame
  <2>4. ~Racing => (raced \/ Racing) = raced
    BY DEF AgreeInv
  <2> QED BY <2>1, <2>2, <2>3, <2>4
<1>2. /\ Spoilt(d) <=> Spoilt(d)'
      /\ Gone(d) <=> Gone(d)'
      /\ Arriving(d) <=> Arriving(d)'
      /\ \A e : HalfDone(e)' <=> HalfDone(e)
  BY <1>1 DEF Spoilt, Gone, Leaving, Arriving, HalfDone, Dir, NewDir
<1>3. FileOf(d) => FileOf(d)'
  BY <1>1, <1>2 DEF FileOf
<1>4. JobOf(d) => JobOf(d)'
  BY <1>1 DEF JobOf, HalfWay, Arriving, Dir, NewDir
<1> SUFFICES ASSUME ~Spoilt(d), raced' = FALSE
             PROVE  PendingOf(d)' /\ EntryOf(d)'
  BY <1>0, <1>2, <1>3, <1>4 DEF Agrees
<1>5. CASE MergeDirs
  <2>1. entries' = {}
    BY <1>5 DEF MergeDirs, AgreeInv, TypedInv, ListInv, Idle
  <2> QED BY <1>5, <2>1, MergeAgrees DEF EntryOf
<1>6. CASE ScanName
  BY <1>6, ListedAgrees
<1>7. CASE NoServices \/ ScanDirs \/ ScanDone
  <2>1. entries' = entries /\ (pending' = pending) /\ (pending = {} \/ raced' = raced)
    BY <1>7 DEF NoServices, ScanDirs, ScanDone, AgreeInv, LoadInv
  <2>2. scan = "start" => raced = FALSE
    BY DEF AgreeInv, LoadInv
  <2>3. raced = FALSE
    BY <1>7, <2>2 DEF NoServices, ScanDirs, ScanDone
  <2>4. PendingOf(d) /\ EntryOf(d)
    BY <1>0, <2>3 DEF Agrees
  <2>5. PendingOf(d)'
    BY <1>1, <1>2, <2>1, <2>4 DEF PendingOf, Listed
  <2>6. EntryOf(d)'
    BY <1>1, <1>2, <2>1, <2>4 DEF EntryOf
  <2> QED BY <2>5, <2>6
<1> QED BY <1>5, <1>6, <1>7 DEF Scan

(* What an operation on an unspoilt game of the list finds.                 *)
LEMMA Found ==
  ASSUME AgreeInv, job # NoJob, ~Spoilt(Dir)
  PROVE  /\ Dir \in Dirs /\ raced = FALSE /\ HalfWay
         /\ FileOf(Dir) /\ PendingOf(Dir) /\ EntryOf(Dir)
         /\ job.op # "addgame" =>
              /\ job.entry \in entries
              /\ \A p \in pending : p[1] # Dir
              /\ \A f \in entries : f.dir = Dir => f = job.entry
              /\ Dir \in dirs \/ Leaving
              /\ file.torn = FALSE /\ ~HalfDone(job.entry) =>
                   Recorded(file.members, Dir) = [name |-> job.entry.name, fav |-> job.entry.fav]
<1>1. Dir \in Dirs
  BY JobFacts DEF AgreeInv, TypedInv
<1>2. raced = FALSE /\ HalfWay /\ FileOf(Dir) /\ PendingOf(Dir) /\ EntryOf(Dir)
  BY <1>1 DEF AgreeInv, Agrees, JobOf
<1>3. ASSUME job.op # "addgame"
      PROVE  /\ job.entry \in entries
             /\ \A p \in pending : p[1] # Dir
             /\ \A f \in entries : f.dir = Dir => f = job.entry
             /\ Dir \in dirs \/ Leaving
             /\ file.torn = FALSE /\ ~HalfDone(job.entry) =>
                  Recorded(file.members, Dir) = [name |-> job.entry.name, fav |-> job.entry.fav]
  <2>1. job.entry \in entries /\ job.entry.dir = Dir
    BY <1>2, <1>3 DEF HalfWay, Dir
  <2>2. Listed(Dir)
    BY <2>1 DEF Listed
  <2>3. \A p \in pending : p[1] # Dir
    BY <1>2, <2>2 DEF PendingOf
  <2>4. /\ \A f \in entries : f.dir = Dir => f = job.entry
        /\ Dir \in dirs \/ Leaving
        /\ file.torn = FALSE /\ ~HalfDone(job.entry) =>
             Recorded(file.members, Dir) = [name |-> job.entry.name, fav |-> job.entry.fav]
    BY <1>2, <2>1 DEF EntryOf, Gone
  <2> QED BY <2>1, <2>3, <2>4
<1> QED BY <1>1, <1>2, <1>3

(* The entry says of its game what the file says.                           *)
LEMMA FoundStar ==
  ASSUME AgreeInv, job # NoJob, ~Spoilt(Dir), job.op # "addgame", ~HalfDone(job.entry),
         file.torn = FALSE
  PROVE  /\ job.entry.fav = TRUE => Has(Nested(file.members), Dir) /\ ~Has(file.members, Dir)
         /\ job.entry.fav = FALSE => ~Has(Nested(file.members), Dir)
<1>1. Recorded(file.members, Dir) = [name |-> job.entry.name, fav |-> job.entry.fav] /\ FileOf(Dir)
  BY Found
<1>2. Recorded(file.members, Dir).fav = job.entry.fav
  BY <1>1
<1>3. /\ job.entry.fav = TRUE => Has(Nested(file.members), Dir)
      /\ job.entry.fav = FALSE => ~Has(Nested(file.members), Dir)
  BY <1>2 DEF Recorded
<1> QED BY <1>1, <1>3 DEF FileOf

(* An operation that is refused, or whose first rewriting fails.            *)
LEMMA FailAgrees ==
  ASSUME AgreeInv, job # NoJob, job.at = 1, job' = NoJob,
         UNCHANGED <<dirs, entries, spoiled, memory, raced>>,
         file'.members = file.members, file'.torn = FALSE => file.torn = FALSE,
         NEW d \in Dirs
  PROVE  Agrees(d)'
<1>1. Agrees(d)
  BY DEF AgreeInv
<1>2. /\ Spoilt(d) => Spoilt(d)'
      /\ Gone(d) <=> Gone(d)'
      /\ Arriving(d) <=> Arriving(d)'
      /\ \A e : HalfDone(e)' <=> HalfDone(e)
      /\ JobOf(d)'
      /\ SameView(file'.members, file.members, d)
  BY DEF Spoilt, Gone, Leaving, Arriving, HalfDone, JobOf, SameView
<1> QED BY <1>1, <1>2, FrameAgrees DEF memory

(* The directories an operation is not about.                               *)
LEMMA OthersAgree ==
  ASSUME AgreeInv, Edit, NEW d \in Dirs \ Touched
  PROVE  Agrees(d)'
<1>1. Agrees(d) /\ Typed /\ ListInv
  BY DEF AgreeInv, TypedInv
<1>2. /\ job # NoJob /\ UNCHANGED <<pending, names, raced>>
      /\ dirs' \subseteq dirs \union Touched
      /\ dirs \subseteq dirs' \union Touched
      /\ \E new \in Entry : new.dir \in Touched /\ entries' \subseteq entries \union {new}
      /\ \A e \in entries : e.dir # Dir => e \in entries'
      /\ spoiled \subseteq spoiled'
  BY <1>1, JobStep DEF JobFrame, memory, ghosts
<1>3. \/ job' = NoJob
      \/ job' # NoJob /\ job'.op = job.op /\ job'.entry = job.entry /\ Dir' = Dir /\ NewDir' = NewDir
  BY <1>1, JobStep, JobNext
<1>4. d # Dir /\ (job.op = "changemodversion" => d # NewDir)
  BY DEF Touched
<1>5. /\ Spoilt(d) => Spoilt(d)'
      /\ ~Gone(d) /\ ~Gone(d)' /\ ~Arriving(d) /\ ~Arriving(d)' /\ JobOf(d)'
  BY <1>2, <1>3, <1>4 DEF Spoilt, Gone, Leaving, Arriving, JobOf
<1>6. \A e : e.dir = d => ~HalfDone(e) /\ ~HalfDone(e)'
  BY <1>3, <1>4 DEF HalfDone, Dir
<1>7. \A e : e.dir = d => (e \in entries' <=> e \in entries)
  BY <1>2, <1>4
<1>8. file'.torn = FALSE => file.torn = FALSE /\ SameView(file'.members, file.members, d)
  BY <1>1, FileKept
<1>9. d \in dirs' <=> d \in dirs
  BY <1>2
<1> QED BY <1>1, <1>2, <1>5, <1>6, <1>7, <1>8, <1>9, FrameAgrees

(* An operation that ends with a new entry for the same directory, or none. *)
LEMMA EndAgrees ==
  ASSUME AgreeInv, job # NoJob, ~Spoilt(Dir), job' = NoJob, UNCHANGED <<memory, raced>>,
         \A p \in pending : p[1] # Dir,
         NEW new,
         \/ \A f \in entries' : f.dir # Dir
         \/ /\ \A f \in entries' : f.dir = Dir => f = new
            /\ Dir \in dirs'
            /\ file'.torn = FALSE => Recorded(file'.members, Dir) = [name |-> new.name, fav |-> new.fav],
         file'.torn = FALSE =>
           /\ InFile(file'.members, Dir) => Dir \in dirs'
           /\ ~(Has(file'.members, Dir) /\ Has(Nested(file'.members), Dir))
           /\ Once(file'.members, Dir)
  PROVE  \A d : d = Dir => Agrees(d)'
<1> SUFFICES ASSUME NEW d, d = Dir PROVE FileOf(d)' /\ JobOf(d)' /\ PendingOf(d)' /\ EntryOf(d)'
  BY DEF Agrees
<1>1. FileOf(d)' /\ JobOf(d)'
  BY DEF FileOf, JobOf
<1>2. PendingOf(d)'
  BY DEF PendingOf, memory
<1>3. EntryOf(d)'
  BY DEF EntryOf, Arriving
<1> QED BY <1>1, <1>2, <1>3

(* An operation that goes on with its second or third step.                 *)
LEMMA GoOnAgrees ==
  ASSUME AgreeInv, job # NoJob, ~Spoilt(Dir), NextStep,
         job.op \in {"tofavorite", "notfavorite", "RemoveGame"},
         UNCHANGED <<entries, memory, raced>>,
         Dir \in dirs' \/ Leaving',
         file'.torn = FALSE =>
           /\ ~(Has(file'.members, Dir) /\ Has(Nested(file'.members), Dir))
           /\ Once(file'.members, Dir),
         file'.torn = FALSE =>
           /\ job.op = "tofavorite" => ~InFile(file'.members, Dir)
           /\ job.op = "notfavorite" => ~Has(Nested(file'.members), Dir)
           /\ job.op = "RemoveGame" /\ job.at = 2 => ~Has(Nested(file'.members), Dir)
  PROVE  \A d : d = Dir => Agrees(d)'
<1>1. Typed /\ ListInv /\ job.at \in {1, 2, 3}
  BY DEF AgreeInv, TypedInv, Typed, JobOK
<1>2. /\ job' # NoJob /\ job'.op = job.op /\ job'.entry = job.entry
      /\ job'.at = job.at + 1 /\ Dir' = Dir
  BY <1>1, JobNext
<1>3. /\ Dir \in Dirs /\ raced = FALSE /\ job.entry \in entries
      /\ \A p \in pending : p[1] # Dir
      /\ \A f \in entries : f.dir = Dir => f = job.entry
  BY Found
<1> SUFFICES ASSUME NEW d, d = Dir PROVE FileOf(d)' /\ JobOf(d)' /\ PendingOf(d)' /\ EntryOf(d)'
  BY DEF Agrees
<1>4. FileOf(d)'
  BY <1>2 DEF FileOf, Gone
<1>5. ~Arriving(d)'
  BY <1>2 DEF Arriving
<1>6. HalfWay'
  <2>1. job'.at = 3 => job.at = 2
    BY <1>1, <1>2
  <2> QED BY <1>2, <1>3, <1>5, <2>1 DEF HalfWay
<1>7. PendingOf(d)'
  BY <1>3 DEF PendingOf, memory
<1>8. \A f \in entries' : f.dir = d => HalfDone(f)' /\ f = job.entry
  <2>1. job'.at # 1
    BY <1>1, <1>2
  <2> QED BY <1>2, <1>3, <2>1 DEF HalfDone
<1>9. d \in dirs' \/ Gone(d)'
  BY <1>2 DEF Gone
<1>10. EntryOf(d)'
  BY <1>5, <1>8, <1>9 DEF EntryOf
<1> QED BY <1>3, <1>4, <1>6, <1>7, <1>10 DEF JobOf

LEMMA Rewriting ==
  ASSUME AgreeInv, NEW o \in Seq(Member), NEW r \in Rewritten(file, o) \union Pruned(file, o),
         file' = r.file
  PROVE  /\ r.ok \in BOOLEAN
         /\ r.ok = TRUE => file.torn = FALSE /\ file'.members = o
         /\ r.ok = FALSE => file'.members = file.members /\ (file'.torn = FALSE => file.torn = FALSE)
<1>1. file \in File
  BY DEF AgreeInv, TypedInv, Typed
<1>2. Outcome(r, file, o)
  BY <1>1, RewrittenIs, PrunedIs
<1> QED BY <1>1, <1>2 DEF Outcome, File

LEMMA FileNow ==
  ASSUME AgreeInv, job # NoJob
  PROVE  /\ file.members \in Seq(Member) /\ Neat(file.members) /\ Dir \in Dirs
         /\ job.entry.name \in Strings /\ job.entry.fav \in BOOLEAN /\ job.entry \in Entry
         /\ job.op = "changegamename" => job.arg \in Strings
         /\ job.op = "changemodversion" => NewDir \in Dirs /\ NewDir[1] = Dir[1]
BY JobFacts DEF AgreeInv, TypedInv, Typed, File

LEMMA OnceIfAbsent == \A o, d : ~Has(o, d) => Once(o, d)
BY DEF Has, Once

LEMMA RenamedAgrees ==
  ASSUME AgreeInv, changegamename
  PROVE  \A d \in Touched : Agrees(d)'
<1> DEFINE M == file.members
           e == job.entry
           o == IF e.fav THEN Favored(M, Dir, job.arg) ELSE Named(M, Dir, job.arg)
<1>1. /\ job # NoJob /\ job.op = "changegamename" /\ job.at = 1 /\ job' = NoJob
      /\ UNCHANGED <<dirs, spoiled, memory, raced>>
  BY DEF changegamename, Doing, Done, JobFrame, ghosts
<1>2. PICK r \in Rewritten(file, o) :
        /\ file' = r.file
        /\ IF r.ok THEN Amend([e EXCEPT !.name = job.arg]) ELSE UNCHANGED entries
  BY DEF changegamename
<1>3. /\ M \in Seq(Member) /\ Neat(M) /\ Dir \in Dirs /\ job.arg \in Strings
      /\ e.fav \in BOOLEAN /\ e \in Entry /\ e.dir = Dir
  BY <1>1, FileNow DEF Dir
<1>4. [e EXCEPT !.name = job.arg] = [dir |-> Dir, name |-> job.arg, fav |-> e.fav, copy |-> e.copy]
  BY <1>3, Amended
<1> DEFINE new == [dir |-> Dir, name |-> job.arg, fav |-> e.fav, copy |-> e.copy]
<1>5. new.dir = Dir /\ new.name = job.arg /\ new.fav = e.fav
  OBVIOUS
<1> HIDE DEF new, e
<1> SUFFICES ASSUME ~Spoilt(Dir) PROVE \A d : d = Dir => Agrees(d)'
  BY <1>1 DEF Touched, Agrees, Spoilt
<1>6. ~Leaving /\ ~HalfDone(e)
  BY <1>1 DEF Leaving, HalfDone
<1>7. /\ e \in entries /\ Dir \in dirs
      /\ \A p \in pending : p[1] # Dir
      /\ \A f \in entries : f.dir = Dir => f = e
  BY <1>1, <1>6, Found DEF e
<1>8. file.torn = FALSE =>
        /\ e.fav = TRUE => Has(Nested(M), Dir) /\ ~Has(M, Dir)
        /\ e.fav = FALSE => ~Has(Nested(M), Dir)
        /\ Once(M, Dir)
  BY <1>1, <1>6, Found, FoundStar DEF e, FileOf
<1>9. /\ o \in Seq(Member)
      /\ file.torn = FALSE => /\ Recorded(o, Dir) = [name |-> new.name, fav |-> new.fav]
                              /\ ~(Has(o, Dir) /\ Has(Nested(o), Dir))
                              /\ Once(o, Dir)
  <2>1. CASE e.fav = TRUE
    <3>1. o = Favored(M, Dir, job.arg)
      BY <2>1
    <3> HIDE DEF o
    <3>2. /\ Favored(M, Dir, job.arg) \in Seq(Member)
          /\ Has(Favored(M, Dir, job.arg), Dir) <=> Has(M, Dir)
          /\ Once(M, Dir) => Once(Favored(M, Dir, job.arg), Dir)
          /\ Recorded(Favored(M, Dir, job.arg), Dir) = [name |-> job.arg, fav |-> TRUE]
      BY <1>3, FavoredKeeps
    <3> QED BY <1>5, <1>8, <2>1, <3>1, <3>2
  <2>2. CASE e.fav = FALSE
    <3>1. o = Named(M, Dir, job.arg)
      BY <2>2
    <3> QED BY <1>3, <1>5, <1>8, <2>2, <3>1, NamedKeeps
  <2> QED BY <1>3, <2>1, <2>2
<1> HIDE DEF o
<1>10. /\ r.ok \in BOOLEAN
       /\ r.ok = TRUE => file.torn = FALSE /\ file'.members = o
       /\ r.ok = FALSE => file'.members = M /\ (file'.torn = FALSE => file.torn = FALSE)
  BY <1>2, <1>9, Rewriting
<1>11. CASE r.ok = TRUE
  <2>1. entries' = (entries \ {e}) \union {new}
    BY <1>2, <1>4, <1>11 DEF Amend, new, e
  <2>2. \A f \in entries' : f.dir = Dir => f = new
    BY <1>7, <2>1
  <2> QED BY <1>1, <1>7, <1>9, <1>10, <1>11, <2>2, EndAgrees
<1>12. CASE r.ok = FALSE
  BY <1>1, <1>2, <1>3, <1>10, <1>12, FailAgrees
<1> QED BY <1>10, <1>11, <1>12

LEMMA StarredAgrees ==
  ASSUME AgreeInv, tofavorite
  PROVE  \A d \in Touched : Agrees(d)'
<1> DEFINE M == file.members
           e == job.entry
<1>1. job # NoJob /\ job.op = "tofavorite" /\ UNCHANGED <<dirs, memory, raced>>
  BY DEF tofavorite, Doing, JobFrame, ghosts
<1>2. /\ M \in Seq(Member) /\ Neat(M) /\ Dir \in Dirs /\ e.name \in Strings
      /\ e.fav = FALSE /\ e \in Entry /\ e.dir = Dir
  BY <1>1, FileNow DEF Dir, AgreeInv, TypedInv, Typed, JobOK
<1>3. [e EXCEPT !.fav = TRUE] = [dir |-> Dir, name |-> e.name, fav |-> TRUE, copy |-> e.copy]
  BY <1>2, Amended
<1> DEFINE new == [dir |-> Dir, name |-> e.name, fav |-> TRUE, copy |-> e.copy]
<1>4. new.dir = Dir /\ new.name = e.name /\ new.fav = TRUE
  OBVIOUS
<1> HIDE DEF new, e
<1> SUFFICES ASSUME Dir[1] \notin spoiled' PROVE \A d : d = Dir => Agrees(d)'
  BY <1>1 DEF Touched, Agrees, Spoilt
<1>5. spoiled \subseteq spoiled'
  BY DEF tofavorite, Spoil
<1>6. ~Spoilt(Dir) /\ ~Leaving
  BY <1>1, <1>5 DEF Leaving, Spoilt
<1>7. /\ e \in entries /\ Dir \in dirs
      /\ \A p \in pending : p[1] # Dir
      /\ \A f \in entries : f.dir = Dir => f = e
      /\ HalfWay
  BY <1>1, <1>6, Found DEF e
<1>8. CASE Doing("tofavorite", 1)
  <2>1. PICK r \in Pruned(file, Drop(M, Dir)) : file' = r.file /\ (IF r.ok THEN NextStep ELSE Done)
    BY <1>8 DEF tofavorite, Doing
  <2>2. job.at = 1 /\ UNCHANGED <<entries, spoiled>>
    BY <1>8 DEF tofavorite, Doing
  <2>3. file.torn = FALSE => ~Has(Nested(M), Dir)
    BY <1>1, <1>2, <1>6, <2>2, FoundStar DEF HalfDone, e
  <2>4. Drop(M, Dir) \in Seq(Member) /\ Nested(Drop(M, Dir)) = Nested(M) /\ ~Has(Drop(M, Dir), Dir)
    BY <1>2, DropKeeps
  <2>5. /\ r.ok \in BOOLEAN
        /\ r.ok = TRUE => file.torn = FALSE /\ file'.members = Drop(M, Dir)
        /\ r.ok = FALSE => file'.members = M /\ (file'.torn = FALSE => file.torn = FALSE)
    BY <2>1, <2>4, Rewriting
  <2>6. CASE r.ok = TRUE
    <3>1. ~InFile(file'.members, Dir) /\ ~Has(file'.members, Dir)
      BY <2>3, <2>4, <2>5, <2>6 DEF InFile
    <3> QED BY <1>1, <1>6, <1>7, <2>1, <2>2, <2>6, <3>1, GoOnAgrees, OnceIfAbsent
  <2>7. CASE r.ok = FALSE
    BY <1>1, <1>2, <2>1, <2>2, <2>5, <2>7, FailAgrees DEF Done
  <2> QED BY <2>5, <2>6, <2>7
<1>9. CASE ~Doing("tofavorite", 1)
  <2>1. PICK r \in Rewritten(file, Favored(M, Dir, e.name)) :
          /\ file' = r.file /\ Spoil(~r.ok)
          /\ IF r.ok THEN Amend([e EXCEPT !.fav = TRUE]) ELSE UNCHANGED entries
    BY <1>9 DEF tofavorite, Doing, e
  <2>2. job.at = 2 /\ job' = NoJob
    BY <1>9 DEF tofavorite, Doing, Done
  <2>3. /\ Favored(M, Dir, e.name) \in Seq(Member)
        /\ Has(Favored(M, Dir, e.name), Dir) <=> Has(M, Dir)
        /\ Recorded(Favored(M, Dir, e.name), Dir) = [name |-> e.name, fav |-> TRUE]
    BY <1>2, FavoredKeeps
  <2>4. /\ r.ok \in BOOLEAN
        /\ r.ok = TRUE => file.torn = FALSE /\ file'.members = Favored(M, Dir, e.name)
    BY <2>1, <2>3, Rewriting
  <2>5. r.ok = TRUE
    BY <2>1, <2>4 DEF Spoil
  <2>6. ~Has(M, Dir)
    BY <1>1, <1>7, <2>2, <2>4, <2>5 DEF HalfWay, InFile
  <2>7. entries' = (entries \ {e}) \union {new}
    BY <1>3, <2>1, <2>5 DEF Amend, new, e
  <2>8. \A f \in entries' : f.dir = Dir => f = new
    BY <1>7, <2>7
  <2>9. /\ Recorded(file'.members, Dir) = [name |-> new.name, fav |-> new.fav]
        /\ ~Has(file'.members, Dir) /\ Once(file'.members, Dir) /\ Dir \in dirs'
    BY <1>1, <1>4, <1>7, <2>3, <2>4, <2>5, <2>6, OnceIfAbsent
  <2> QED BY <1>1, <1>6, <1>7, <2>2, <2>8, <2>9, EndAgrees
<1> QED BY <1>8, <1>9 DEF tofavorite

LEMMA UnstarredAgrees ==
  ASSUME AgreeInv, notfavorite
  PROVE  \A d \in Touched : Agrees(d)'
<1> DEFINE M == file.members
           e == job.entry
<1>1. job # NoJob /\ job.op = "notfavorite" /\ UNCHANGED <<dirs, memory, raced>>
  BY DEF notfavorite, Doing, JobFrame, ghosts
<1>2. /\ M \in Seq(Member) /\ Neat(M) /\ Dir \in Dirs /\ e.name \in Strings
      /\ e.fav = TRUE /\ e \in Entry /\ e.dir = Dir
  BY <1>1, FileNow DEF Dir, AgreeInv, TypedInv, Typed, JobOK
<1>3. [e EXCEPT !.fav = FALSE] = [dir |-> Dir, name |-> e.name, fav |-> FALSE, copy |-> e.copy]
  BY <1>2, Amended
<1> DEFINE new == [dir |-> Dir, name |-> e.name, fav |-> FALSE, copy |-> e.copy]
<1>4. new.dir = Dir /\ new.name = e.name /\ new.fav = FALSE
  OBVIOUS
<1> HIDE DEF new, e
<1> SUFFICES ASSUME Dir[1] \notin spoiled' PROVE \A d : d = Dir => Agrees(d)'
  BY <1>1 DEF Touched, Agrees, Spoilt
<1>5. spoiled \subseteq spoiled'
  BY DEF notfavorite, Spoil
<1>6. ~Spoilt(Dir) /\ ~Leaving
  BY <1>1, <1>5 DEF Leaving, Spoilt
<1>7. /\ e \in entries /\ Dir \in dirs
      /\ \A p \in pending : p[1] # Dir
      /\ \A f \in entries : f.dir = Dir => f = e
      /\ HalfWay /\ FileOf(Dir)
  BY <1>1, <1>6, Found DEF e
<1>8. CASE Doing("notfavorite", 1)
  <2> DEFINE o == DropNested(M, Favorites, Dir)
  <2>1. PICK r \in Pruned(file, o) : file' = r.file /\ (IF r.ok THEN NextStep ELSE Done)
    BY <1>8 DEF notfavorite, Doing
  <2>2. job.at = 1 /\ UNCHANGED <<entries, spoiled>>
    BY <1>8 DEF notfavorite, Doing
  <2>3. o \in Seq(Member) /\ ~Has(Nested(o), Dir) /\ (Once(M, Dir) => Once(o, Dir))
    BY <1>2, DropNestedKeeps
  <2> HIDE DEF o
  <2>4. /\ r.ok \in BOOLEAN
        /\ r.ok = TRUE => file.torn = FALSE /\ file'.members = o
        /\ r.ok = FALSE => file'.members = M /\ (file'.torn = FALSE => file.torn = FALSE)
    BY <2>1, <2>3, Rewriting
  <2>5. CASE r.ok = TRUE
    <3>1. file'.members = o /\ ~Has(Nested(file'.members), Dir) /\ Once(file'.members, Dir)
      BY <1>7, <2>3, <2>4, <2>5 DEF FileOf
    <3> QED BY <1>1, <1>6, <1>7, <2>1, <2>2, <2>5, <3>1, GoOnAgrees
  <2>6. CASE r.ok = FALSE
    BY <1>1, <1>2, <2>1, <2>2, <2>4, <2>6, FailAgrees DEF Done
  <2> QED BY <2>4, <2>5, <2>6
<1>9. CASE ~Doing("notfavorite", 1)
  <2>1. PICK r \in Rewritten(file, Named(M, Dir, e.name)) :
          /\ file' = r.file /\ Spoil(~r.ok)
          /\ IF r.ok THEN Amend([e EXCEPT !.fav = FALSE]) ELSE UNCHANGED entries
    BY <1>9 DEF notfavorite, Doing, e
  <2>2. job.at = 2 /\ job' = NoJob
    BY <1>9 DEF notfavorite, Doing, Done
  <2>3. /\ Named(M, Dir, e.name) \in Seq(Member) /\ Nested(Named(M, Dir, e.name)) = Nested(M)
        /\ Once(Named(M, Dir, e.name), Dir)
        /\ ~Has(Nested(M), Dir) => Recorded(Named(M, Dir, e.name), Dir) = [name |-> e.name, fav |-> FALSE]
    BY <1>2, NamedKeeps
  <2>4. /\ r.ok \in BOOLEAN
        /\ r.ok = TRUE => file.torn = FALSE /\ file'.members = Named(M, Dir, e.name)
    BY <2>1, <2>3, Rewriting
  <2>5. r.ok = TRUE
    BY <2>1, <2>4 DEF Spoil
  <2>6. ~Has(Nested(M), Dir)
    BY <1>1, <1>7, <2>2, <2>4, <2>5 DEF HalfWay
  <2>7. entries' = (entries \ {e}) \union {new}
    BY <1>3, <2>1, <2>5 DEF Amend, new, e
  <2>8. \A f \in entries' : f.dir = Dir => f = new
    BY <1>7, <2>7
  <2>9. /\ Recorded(file'.members, Dir) = [name |-> new.name, fav |-> new.fav]
        /\ ~Has(Nested(file'.members), Dir) /\ Once(file'.members, Dir) /\ Dir \in dirs'
    BY <1>1, <1>4, <1>7, <2>3, <2>4, <2>5, <2>6
  <2> QED BY <1>1, <1>6, <1>7, <2>2, <2>8, <2>9, EndAgrees
<1> QED BY <1>8, <1>9 DEF notfavorite

LEMMA VersionAgrees ==
  ASSUME AgreeInv, changemodversion
  PROVE  \A d \in Touched : Agrees(d)'
<1> DEFINE M == file.members
           e == job.entry
<1>1. job # NoJob /\ job.op = "changemodversion" /\ UNCHANGED <<memory, raced>>
  BY DEF changemodversion, Doing, JobFrame, ghosts
<1>2. /\ M \in Seq(Member) /\ Neat(M) /\ Dir \in Dirs /\ e.name \in Strings
      /\ e.fav \in BOOLEAN /\ e \in Entry /\ e.dir = Dir
      /\ NewDir \in Dirs /\ NewDir[1] = Dir[1] /\ Typed /\ ListInv
  BY <1>1, FileNow DEF Dir, AgreeInv, TypedInv
<1>3. spoiled \subseteq spoiled'
  BY DEF changemodversion, Spoil
<1> SUFFICES ASSUME Dir[1] \notin spoiled' PROVE \A d \in Touched : Agrees(d)'
  BY <1>1, <1>2 DEF Touched, Agrees, Spoilt
<1>4. ~Spoilt(Dir) /\ ~Spoilt(NewDir)
  BY <1>2, <1>3 DEF Spoilt
<1>5. /\ e \in entries /\ (Dir \in dirs \/ Leaving)
      /\ \A p \in pending : p[1] # Dir
      /\ \A f \in entries : f.dir = Dir => f = e
      /\ HalfWay /\ FileOf(Dir) /\ EntryOf(Dir) /\ raced = FALSE
      /\ file.torn = FALSE => Recorded(M, Dir) = [name |-> e.name, fav |-> e.fav]
  BY <1>1, <1>4, Found DEF HalfDone
<1>6. FileOf(NewDir) /\ PendingOf(NewDir) /\ EntryOf(NewDir)
  BY <1>2, <1>4, <1>5 DEF AgreeInv, Agrees
<1>7. CASE Doing("changemodversion", 1)
  <2>1. job.at = 1 /\ ~Leaving /\ UNCHANGED <<file, entries, spoiled>>
    BY <1>7 DEF changemodversion, Doing, Leaving
  <2>2. CASE job' = NoJob /\ UNCHANGED dirs
    BY <1>1, <1>2, <2>1, <2>2, FailAgrees DEF Touched
  <2>3. CASE ~(job' = NoJob /\ UNCHANGED dirs)
    <3>1. NewDir \notin dirs /\ Dir \in dirs /\ dirs' = (dirs \ {Dir}) \union {NewDir} /\ NextStep
      BY <1>7, <2>3 DEF changemodversion, Doing, Done
    <3>2. /\ job' # NoJob /\ job'.op = "changemodversion" /\ job'.entry = e
          /\ job'.at = 2 /\ Dir' = Dir /\ NewDir' = NewDir
      BY <1>1, <1>2, <2>1, <3>1, JobNext
    <3>3. NewDir # Dir
      BY <3>1
    <3>4. /\ \A p \in pending : p[1] # NewDir
          /\ \A f \in entries : f.dir # NewDir
          /\ file.torn = FALSE => ~InFile(M, NewDir)
      BY <1>6, <2>1, <3>1, <3>3 DEF FileOf, PendingOf, EntryOf, Gone
    <3>5. Gone(Dir)' /\ ~Arriving(Dir)' /\ ~Gone(NewDir)'
      BY <3>2, <3>3 DEF Gone, Leaving, Arriving
    <3>6. ASSUME NEW d, d = Dir PROVE Agrees(d)'
      <4>1. FileOf(d)'
        BY <1>5, <2>1, <3>2, <3>5, <3>6 DEF FileOf
      <4>2. PendingOf(d)'
        BY <1>1, <1>5, <3>6 DEF PendingOf, memory
      <4>3. EntryOf(d)'
        BY <1>5, <2>1, <3>2, <3>5, <3>6 DEF EntryOf
      <4>4. HalfWay'
        BY <1>5, <2>1, <3>1, <3>2, <3>4, <3>5 DEF HalfWay
      <4> QED BY <1>1, <1>5, <4>1, <4>2, <4>3, <4>4 DEF Agrees, JobOf
    <3>7. ASSUME NEW d, d = NewDir PROVE Agrees(d)'
      <4>1. FileOf(d)'
        BY <1>6, <2>1, <3>1, <3>4, <3>7 DEF FileOf
      <4>2. PendingOf(d)'
        BY <1>1, <3>4, <3>7 DEF PendingOf, memory
      <4>3. EntryOf(d)'
        BY <2>1, <3>4, <3>7 DEF EntryOf
      <4>4. JobOf(d)'
        BY <3>2, <3>3, <3>7 DEF JobOf
      <4> QED BY <4>1, <4>2, <4>3, <4>4 DEF Agrees
    <3> QED BY <1>1, <3>6, <3>7 DEF Touched
  <2> QED BY <2>2, <2>3
<1>8. CASE ~Doing("changemodversion", 1)
  <2> DEFINE o == RenameOrCreate(M, Dir, NewDir)
             new == EntryIn(NewDir)
  <2>1. PICK r \in Rewritten(file, o) : file' = r.file /\ Spoil(~r.ok \/ e.fav)
    BY <1>8 DEF changemodversion
  <2>2. job.at = 2 /\ job' = NoJob /\ UNCHANGED dirs /\ Amend(EntryIn(NewDir))
    BY <1>8 DEF changemodversion, Doing, Done
  <2>4. new.dir = NewDir /\ new.name = e.name /\ new.fav = e.fav
    BY <1>2, EntryInIs
  <2>5. entries' = (entries \ {e}) \union {new}
    BY <2>2 DEF Amend
  <2> HIDE DEF new
  <2>6. NewDir # Dir
    BY <1>1, <1>2, <2>2 DEF Typed, JobOK
  <2>7. /\ o \in Seq(Member) /\ Nested(o) = Nested(M) /\ ~Has(o, Dir)
        /\ ~InFile(M, NewDir) /\ ~Has(Nested(M), Dir) => Recorded(o, NewDir) = Recorded(M, Dir)
        /\ ~InFile(M, NewDir) /\ Once(M, Dir) => Once(o, NewDir)
    BY <1>2, <2>6, RenameKeeps
  <2> HIDE DEF o
  <2>8. /\ r.ok \in BOOLEAN
        /\ r.ok = TRUE => file.torn = FALSE /\ file'.members = o
    BY <2>1, <2>7, Rewriting
  <2>9. r.ok = TRUE /\ e.fav = FALSE
    BY <1>2, <2>1, <2>8 DEF Spoil
  <2>10. ~Has(Nested(M), Dir)
    <3>1. Recorded(M, Dir).fav = FALSE
      BY <1>5, <2>8, <2>9
    <3> QED BY <3>1 DEF Recorded
  <2>11. NewDir \in dirs /\ ~InFile(M, NewDir)
    BY <1>1, <1>5, <2>2, <2>8, <2>9 DEF HalfWay
  <2>12. Arriving(NewDir)
    BY <1>1, <2>2 DEF Arriving
  <2>13. /\ \A p \in pending : p[1] # NewDir
         /\ \A f \in entries : f.dir # NewDir
    BY <1>6, <2>12 DEF PendingOf, EntryOf
  <2>14. Recorded(o, NewDir) = [name |-> new.name, fav |-> new.fav]
    BY <1>5, <2>4, <2>7, <2>8, <2>9, <2>10, <2>11
  <2>15. ASSUME NEW d, d = Dir PROVE Agrees(d)'
    <3>1. ~InFile(o, Dir) /\ Once(o, Dir)
      BY <2>7, <2>10, OnceIfAbsent DEF InFile
    <3>2. FileOf(d)'
      BY <2>8, <2>9, <2>15, <3>1 DEF FileOf, InFile
    <3>3. PendingOf(d)'
      BY <1>1, <1>5, <2>15 DEF PendingOf, memory
    <3>4. EntryOf(d)'
      BY <1>5, <2>4, <2>5, <2>6, <2>15 DEF EntryOf
    <3>5. JobOf(d)'
      BY <2>2 DEF JobOf
    <3> QED BY <3>2, <3>3, <3>4, <3>5 DEF Agrees
  <2>16. ASSUME NEW d, d = NewDir PROVE Agrees(d)'
    <3>1. ~(Has(o, NewDir) /\ Has(Nested(o), NewDir)) /\ Once(o, NewDir)
      BY <1>5, <2>7, <2>8, <2>9, <2>11 DEF InFile, FileOf
    <3>2. FileOf(d)'
      BY <2>2, <2>8, <2>9, <2>11, <2>16, <3>1 DEF FileOf
    <3>3. PendingOf(d)'
      BY <1>1, <2>13, <2>16 DEF PendingOf, memory
    <3>4. \A f \in entries' : f.dir = d => f = new
      BY <2>5, <2>13, <2>16
    <3>5. ~Arriving(d)'
      BY <2>2 DEF Arriving
    <3>6. Recorded(file'.members, d) = [name |-> new.name, fav |-> new.fav]
      BY <2>8, <2>9, <2>14, <2>16
    <3>7. EntryOf(d)'
      BY <2>2, <2>11, <2>16, <3>4, <3>5, <3>6 DEF EntryOf
    <3>8. JobOf(d)'
      BY <2>2 DEF JobOf
    <3> QED BY <3>2, <3>3, <3>7, <3>8 DEF Agrees
  <2> QED BY <1>1, <2>15, <2>16 DEF Touched
<1> QED BY <1>7, <1>8

LEMMA RemovedAgrees ==
  ASSUME AgreeInv, RemoveGame
  PROVE  \A d \in Touched : Agrees(d)'
<1> DEFINE M == file.members
           e == job.entry
<1>1. job # NoJob /\ job.op = "RemoveGame" /\ UNCHANGED <<memory, raced>>
  BY DEF RemoveGame, Doing, JobFrame, ghosts
<1>2. /\ M \in Seq(Member) /\ Neat(M) /\ Dir \in Dirs /\ Typed /\ ListInv
      /\ e.dir = Dir
  BY <1>1, FileNow DEF Dir, AgreeInv, TypedInv
<1>3. spoiled \subseteq spoiled'
  BY DEF RemoveGame, Spoil
<1> SUFFICES ASSUME Dir[1] \notin spoiled' PROVE \A d : d = Dir => Agrees(d)'
  BY <1>1 DEF Touched, Agrees, Spoilt
<1>4. ~Spoilt(Dir)
  BY <1>3 DEF Spoilt
<1>5. /\ \A p \in pending : p[1] # Dir
      /\ \A f \in entries : f.dir = Dir => f = e
      /\ HalfWay /\ FileOf(Dir)
  BY <1>1, <1>4, Found
<1>6. file.torn = FALSE => ~(Has(M, Dir) /\ Has(Nested(M), Dir)) /\ Once(M, Dir)
  BY <1>5 DEF FileOf
<1>7. ASSUME NextStep, job.at \in {1, 2} PROVE Leaving'
  BY <1>1, <1>2, <1>7, JobNext DEF Leaving
<1>8. CASE Doing("RemoveGame", 1)
  <2>1. job.at = 1 /\ UNCHANGED <<file, entries, spoiled>>
    BY <1>8 DEF RemoveGame, Doing
  <2>2. CASE job' = NoJob /\ UNCHANGED dirs
    BY <1>1, <1>2, <2>1, <2>2, FailAgrees
  <2>3. CASE ~(job' = NoJob /\ UNCHANGED dirs)
    <3>1. NextStep
      BY <1>8, <2>3 DEF RemoveGame, Doing, Done
    <3>2. Leaving'
      BY <1>7, <2>1, <3>1
    <3>3. file'.torn = FALSE => /\ ~(Has(file'.members, Dir) /\ Has(Nested(file'.members), Dir))
                                /\ Once(file'.members, Dir)
      BY <1>6, <2>1
    <3>4. /\ job.op # "tofavorite" /\ job.op # "notfavorite" /\ job.at # 2
          /\ job.op \in {"tofavorite", "notfavorite", "RemoveGame"} /\ UNCHANGED entries
      BY <1>1, <2>1
    <3> QED BY <1>1, <1>4, <3>1, <3>2, <3>3, <3>4, GoOnAgrees
  <2> QED BY <2>2, <2>3
<1>9. CASE Doing("RemoveGame", 2)
  <2> DEFINE o == DropNested(M, Favorites, Dir)
  <2>1. PICK r \in Pruned(file, o) : file' = r.file /\ Spoil(~r.ok)
    BY <1>9 DEF RemoveGame, Doing
  <2>2. job.at = 2 /\ NextStep /\ UNCHANGED <<dirs, entries>>
    BY <1>9 DEF RemoveGame, Doing
  <2>3. o \in Seq(Member) /\ ~Has(Nested(o), Dir) /\ (Once(M, Dir) => Once(o, Dir))
    BY <1>2, DropNestedKeeps
  <2> HIDE DEF o
  <2>4. /\ r.ok \in BOOLEAN
        /\ r.ok = TRUE => file.torn = FALSE /\ file'.members = o
    BY <2>1, <2>3, Rewriting
  <2>5. r.ok = TRUE
    BY <2>1, <2>4 DEF Spoil
  <2>6. ~Has(Nested(file'.members), Dir) /\ Once(file'.members, Dir)
    BY <1>6, <2>3, <2>4, <2>5
  <2> QED BY <1>1, <1>4, <1>7, <2>2, <2>6, GoOnAgrees
<1>10. CASE Doing("RemoveGame", 3)
  <2> DEFINE o == Drop(M, Dir)
  <2>1. PICK r \in Pruned(file, o) : file' = r.file /\ Spoil(~r.ok)
    BY <1>10 DEF RemoveGame, Doing
  <2>2. job.at = 3 /\ job' = NoJob /\ UNCHANGED dirs /\ entries' = entries \ {e}
    BY <1>10 DEF RemoveGame, Doing, Done
  <2>3. o \in Seq(Member) /\ Nested(o) = Nested(M) /\ ~Has(o, Dir)
    BY <1>2, DropKeeps
  <2> HIDE DEF o
  <2>4. /\ r.ok \in BOOLEAN
        /\ r.ok = TRUE => file.torn = FALSE /\ file'.members = o
    BY <2>1, <2>3, Rewriting
  <2>5. r.ok = TRUE
    BY <2>1, <2>4 DEF Spoil
  <2>6. ~Has(Nested(M), Dir)
    BY <1>1, <1>5, <2>2, <2>4, <2>5 DEF HalfWay
  <2>7. ~InFile(file'.members, Dir) /\ ~Has(file'.members, Dir) /\ Once(file'.members, Dir)
    BY <2>3, <2>4, <2>5, <2>6, OnceIfAbsent DEF InFile
  <2>8. \A f \in entries' : f.dir # Dir
    BY <1>5, <2>2
  <2> QED BY <1>1, <1>4, <1>5, <2>2, <2>7, <2>8, EndAgrees
<1> QED BY <1>8, <1>9, <1>10 DEF RemoveGame

LEMMA AddedAgrees ==
  ASSUME AgreeInv, AddGame
  PROVE  \A d \in Touched : Agrees(d)'
<1> DEFINE M == file.members
           e == job.entry
<1>1. job # NoJob /\ job.op = "addgame" /\ UNCHANGED <<memory, raced>>
  BY DEF AddGame, Doing, JobFrame, ghosts
<1>2. /\ M \in Seq(Member) /\ Neat(M) /\ Dir \in Dirs /\ Typed /\ ListInv
      /\ e.dir = Dir /\ e.name \in Strings /\ e.fav = FALSE /\ e \in Entry
  BY <1>1, FileNow DEF Dir, AgreeInv, TypedInv, Typed, JobOK
<1>3. spoiled \subseteq spoiled'
  BY DEF AddGame, Spoil
<1> SUFFICES ASSUME Dir[1] \notin spoiled' PROVE \A d : d = Dir => Agrees(d)'
  BY <1>1 DEF Touched, Agrees, Spoilt
<1>4. ~Spoilt(Dir)
  BY <1>3 DEF Spoilt
<1>5. raced = FALSE /\ HalfWay /\ FileOf(Dir) /\ PendingOf(Dir) /\ EntryOf(Dir)
  BY <1>4, <1>1, Found
<1>6. CASE Doing("addgame", 1)
  <2>1. job.at = 1 /\ ~Leaving /\ UNCHANGED <<file, entries, spoiled>>
    BY <1>1, <1>6 DEF AddGame, Doing, Leaving
  <2>2. CASE job' = NoJob /\ UNCHANGED dirs
    BY <1>1, <1>2, <2>1, <2>2, FailAgrees
  <2>3. CASE ~(job' = NoJob /\ UNCHANGED dirs)
    <3>1. Dir \notin dirs /\ dirs' = dirs \union {Dir} /\ (NextStep \/ job' = NoJob)
      BY <1>6, <2>3 DEF AddGame, Doing, Done
    <3>2. NextStep => /\ job' # NoJob /\ job'.op = "addgame" /\ job'.entry = e
                      /\ job'.at = 2 /\ Dir' = Dir
      BY <1>1, <1>2, <2>1, JobNext
    <3>3. /\ \A p \in pending : p[1] # Dir
          /\ \A f \in entries : f.dir # Dir
          /\ file.torn = FALSE => ~InFile(M, Dir)
      BY <1>5, <2>1, <3>1 DEF FileOf, PendingOf, EntryOf, Gone
    <3> SUFFICES ASSUME NEW d, d = Dir PROVE Agrees(d)'
      OBVIOUS
    <3>4. FileOf(d)'
      BY <2>1, <3>1, <3>3, OnceIfAbsent DEF FileOf, InFile
    <3>5. PendingOf(d)'
      BY <1>1, <3>3 DEF PendingOf, memory
    <3>6. EntryOf(d)'
      BY <2>1, <3>3 DEF EntryOf
    <3>7. NextStep => HalfWay'
      BY <2>1, <3>1, <3>2, <3>3 DEF HalfWay
    <3> QED BY <1>1, <1>5, <3>1, <3>4, <3>5, <3>6, <3>7 DEF Agrees, JobOf
  <2> QED BY <2>2, <2>3
<1>7. CASE ~Doing("addgame", 1)
  <2> DEFINE o == Named(M, Dir, e.name)
  <2>1. PICK r \in Rewritten(file, o) : file' = r.file /\ Spoil(~r.ok)
    BY <1>7 DEF AddGame
  <2>2. job.at = 2 /\ job' = NoJob /\ UNCHANGED dirs /\ entries' = entries \union {EntryIn(Dir)}
    BY <1>7 DEF AddGame, Doing, Done
  <2> DEFINE new == EntryIn(Dir)
  <2>e. new.dir = Dir /\ new.name = e.name /\ new.fav = e.fav
    BY <1>2, EntryInIs
  <2> HIDE DEF new
  <2>3. /\ o \in Seq(Member) /\ Nested(o) = Nested(M) /\ Once(o, Dir)
        /\ ~Has(Nested(M), Dir) => Recorded(o, Dir) = [name |-> e.name, fav |-> FALSE]
    BY <1>2, NamedKeeps
  <2> HIDE DEF o
  <2>4. /\ r.ok \in BOOLEAN
        /\ r.ok = TRUE => file.torn = FALSE /\ file'.members = o
    BY <2>1, <2>3, Rewriting
  <2>5. r.ok = TRUE
    BY <2>1, <2>4 DEF Spoil
  <2>6. Arriving(Dir)
    BY <1>1, <2>2 DEF Arriving
  <2>7. Dir \in dirs /\ ~Has(Nested(M), Dir)
    BY <1>1, <1>5, <2>2, <2>4, <2>5, <2>6 DEF HalfWay, InFile
  <2>8. /\ \A p \in pending : p[1] # Dir
        /\ \A f \in entries : f.dir # Dir
    BY <1>5, <2>6 DEF PendingOf, EntryOf
  <2>9. \A f \in entries' : f.dir = Dir => f = new
    BY <2>2, <2>8 DEF new
  <2>10. /\ Recorded(file'.members, Dir) = [name |-> new.name, fav |-> new.fav]
         /\ ~Has(Nested(file'.members), Dir) /\ Once(file'.members, Dir) /\ Dir \in dirs'
    BY <1>2, <2>e, <2>2, <2>3, <2>4, <2>5, <2>7
  <2> QED BY <1>1, <1>4, <2>2, <2>8, <2>9, <2>10, EndAgrees
<1> QED BY <1>6, <1>7

-----------------------------------------------------------------------------
(* The list, the card and the file agree *)

LEMMA AgreeInit == Init => AgreeInv
<1> SUFFICES ASSUME Init PROVE AgreeInv
  OBVIOUS
<1>1. TypedInv
  BY TypedInit, ListInvInit DEF TypedInv
<1>2. raced = FALSE /\ job = NoJob /\ main = "load" /\ entries = {} /\ dirs = FirstDirs /\ FreshMemory
  BY DEF Init
<1>3. LoadInv
  BY <1>2 DEF LoadInv, FreshMemory
<1>4. ASSUME NEW d \in Dirs PROVE Agrees(d)
  <2>1. PICK o \in FirstFiles : file = [torn |-> FALSE, members |-> o]
    BY DEF Init
  <2>2. file.members = o
    BY <2>1
  <2>3. FileOf(d)
    BY <1>2, <2>2, FilesAssumption DEF FileOf
  <2>4. PendingOf(d) /\ EntryOf(d) /\ JobOf(d)
    BY <1>2 DEF PendingOf, EntryOf, JobOf, FreshMemory
  <2> QED BY <2>3, <2>4 DEF Agrees
<1> QED BY <1>1, <1>2, <1>3, <1>4 DEF AgreeInv

LEMMA EditAgrees ==
  ASSUME AgreeInv, Edit, NEW d \in Dirs
  PROVE  Agrees(d)'
<1>1. CASE d \notin Touched
  BY <1>1, OthersAgree
<1>2. CASE d \in Touched
  BY <1>2, RenamedAgrees, StarredAgrees, UnstarredAgrees, VersionAgrees, RemovedAgrees, AddedAgrees
  DEF Edit
<1> QED BY <1>1, <1>2

LEMMA AgreeStep == AgreeInv /\ [Next]_vars => AgreeInv'
<1> SUFFICES ASSUME AgreeInv, [Next]_vars PROVE AgreeInv'
  OBVIOUS
<1>1. TypedInv'
  BY TypedInvStep DEF AgreeInv
<1>2. CASE LoadGameNameMapping \/ StoreName \/ Constructed \/ ShowList
  <2>1. raced' = raced
    BY <1>2 DEF LoadGameNameMapping, StoreName, Constructed, ShowList, ghosts
  <2>2. raced' \in BOOLEAN
    BY <2>1 DEF AgreeInv
  <2>3. \A d \in Dirs : Agrees(d)'
    BY <1>2, LoadAgrees
  <2> QED BY <1>1, <1>2, <2>2, <2>3, LoadKeepsLoadInv DEF AgreeInv
<1>3. CASE Scan
  <2>1. \A d \in Dirs : Agrees(d)'
    BY <1>3, ScanAgrees
  <2> QED BY <1>1, <1>3, <2>1, ScanKeepsLoadInv DEF AgreeInv
<1>4. CASE AskGame \/ ModsChange \/ Edit
  <2>1. \A d \in Dirs : Agrees(d)'
    BY <1>4, AskAgrees, SessionAgrees, EditAgrees
  <2>2. raced' \in BOOLEAN /\ LoadInv'
    BY <1>4, UserKeepsLoadInv DEF AgreeInv
  <2> QED BY <1>1, <2>1, <2>2 DEF AgreeInv
<1>5. CASE Quit \/ Crash \/ Start \/ UNCHANGED vars
  <2>1. \A d \in Dirs : Agrees(d)'
    BY <1>5, SessionAgrees
  <2> QED BY <1>1, <1>5, <2>1, SessionKeepsLoadInv DEF AgreeInv
<1> QED BY <1>2, <1>3, <1>4, <1>5 DEF Next

(* game_name.json names no directory that is gone from the card, so a game  *)
(* that is added again does not come back with an old name or star.         *)
THEOREM FileNamesTheCard == Spec => []KeysNameGames
<1>1. ASSUME AgreeInv PROVE KeysNameGames
  <2> SUFFICES ASSUME Settled, NEW d \in Dirs, ~Spoilt(d), InFile(file.members, d)
               PROVE  d \in dirs
    BY DEF KeysNameGames
  <2>1. job = NoJob /\ file.torn = FALSE
    BY <1>1 DEF Settled, AgreeInv, TypedInv, Typed, File
  <2> QED BY <1>1, <2>1 DEF AgreeInv, Agrees, FileOf, Gone, Leaving
<1> QED BY <1>1, AgreeInit, AgreeStep, PTL DEF Spec

(* The scan merges three sources while the user edits what it has already   *)
(* listed, and no game is in the list twice.                                *)
THEOREM NoGameTwice == Spec => []ListedOnce
<1>1. ASSUME AgreeInv PROVE ListedOnce
  <2> SUFFICES ASSUME ~raced, NEW e \in entries, NEW f \in entries, e.dir = f.dir, ~Spoilt(e.dir)
               PROVE  e = f
    BY DEF ListedOnce
  <2>1. e.dir \in Dirs
    BY <1>1 DEF AgreeInv, TypedInv, Typed, TypeOK, Entry
  <2>2. raced = FALSE
    BY <1>1 DEF AgreeInv
  <2>3. EntryOf(e.dir)
    BY <1>1, <2>1, <2>2 DEF AgreeInv, Agrees
  <2> QED BY <2>3 DEF EntryOf
<1> QED BY <1>1, AgreeInit, AgreeStep, PTL DEF Spec

(* Every game shows the name and the star that the file will show after a   *)
(* restart, unless a failed or interrupted operation left it half recorded. *)
THEOREM ListIsThatOfTheFile == Spec => []ListSurvivesRestart
<1>1. ASSUME AgreeInv PROVE ListSurvivesRestart
  <2> SUFFICES ASSUME Settled, NEW e \in entries, ~Spoilt(e.dir)
               PROVE  /\ e.dir \in dirs
                      /\ Recorded(file.members, e.dir) = [name |-> e.name, fav |-> e.fav]
    BY DEF ListSurvivesRestart
  <2>1. e.dir \in Dirs
    BY <1>1 DEF AgreeInv, TypedInv, Typed, TypeOK, Entry
  <2>2. raced = FALSE /\ job = NoJob /\ file.torn = FALSE
    BY <1>1 DEF Settled, AgreeInv, TypedInv, Typed, File
  <2>3. EntryOf(e.dir)
    BY <1>1, <2>1, <2>2 DEF AgreeInv, Agrees
  <2> QED BY <2>2, <2>3 DEF EntryOf, Gone, Leaving, HalfDone
<1> QED BY <1>1, AgreeInit, AgreeStep, PTL DEF Spec

=============================================================================
