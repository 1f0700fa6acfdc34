------------------------- MODULE AddGameListProofs -------------------------
(* The list of games to add, for any console, grid, batch and number of     *)
(* scans, whether or not they overlap: its types, its cursor, its dialogs   *)
(* and its textures; and that it is complete unless scans overlapped.       *)
EXTENDS AddGameList, TLAPS

-----------------------------------------------------------------------------
(* The grid *)

LEMMA PagesDivide ==
  ASSUME NEW i \in Nat, NEW p \in Nat \ {0}
  PROVE  /\ i \div p \in Nat /\ i % p \in 0..(p - 1)
         /\ i = (i \div p) * p + (i % p)
         /\ (i \div p) * p \in Nat
         /\ i >= p => (i \div p) * p >= p
         /\ i % p <= i
  OBVIOUS

LEMMA PagePositive == Page \in Nat \ {0} /\ (Rows - 1) * Cols = Page - Cols
  BY GridAssumption DEF Page

(* No key takes the cursor out of a list of n games. *)
LEMMA MovesKept ==
  ASSUME NEW n \in Nat, NEW i \in 0..(n - 1)
  PROVE  Moves(i, n) \subseteq 0..(n - 1)
<1>1. PICK k \in Nat : /\ k = i % Page /\ k <= i
                       /\ PageStart(i) \in Nat /\ i = PageStart(i) + k
                       /\ i >= Page => PageStart(i) >= Page
  <2>1. i \in Nat /\ Page \in Nat \ {0}
    BY PagePositive
  <2>2. /\ i % Page \in 0..(Page - 1) /\ i % Page <= i
        /\ (i \div Page) * Page \in Nat /\ i = (i \div Page) * Page + (i % Page)
        /\ i >= Page => (i \div Page) * Page >= Page
    BY <2>1, PagesDivide, Zenon
  <2> QED
    BY <2>1, <2>2 DEF PageStart
<1>2. /\ Column(i) \in 0..(Cols - 1) /\ Row(i) \in Nat
      /\ Row(i) > 0 => k >= Cols
  <2>1. /\ k % Cols \in 0..(Cols - 1) /\ k \div Cols \in Nat
    BY PagesDivide, GridAssumption, Zenon
  <2>2. k < Cols => k \div Cols = 0
    BY GridAssumption
  <2>3. Column(i) = k % Cols /\ Row(i) = k \div Cols
    BY <1>1, Zenon DEF Column, Row
  <2> QED
    BY <1>1, <2>1, <2>2, <2>3, GridAssumption
<1>3. Row(i) > 0 => i - Cols \in Nat
  BY <1>1, <1>2, GridAssumption
<1>4. Down(i, n) \in 0..(n - 1)
  BY <1>1, <1>2, PagePositive, GridAssumption DEF Down
<1>5. Up(i) \in 0..(n - 1)
  BY <1>1, <1>2, <1>3, PagePositive, GridAssumption DEF Up
<1>6. /\ Left(i) \in 0..(n - 1) /\ Right(i, n) \in 0..(n - 1)
      /\ PageBack(i) \in 0..(n - 1) /\ PageOn(i, n) \in 0..(n - 1)
  BY PagePositive DEF Left, Right, PageBack, PageOn
<1> QED
  BY <1>4, <1>5, <1>6 DEF Moves

-----------------------------------------------------------------------------
(* The threads: each holds the games it has yet to list. *)

Places  == {"new", "begun", "next", "read", "submit", "flush", "ended"}
Threads == [pc : Places, todo : Seq(Games), stop : BOOLEAN, last : Nat, visit : Nat]

ScansTyped ==
  /\ nextId \in Nat /\ visits \in Nat
  /\ scans \in Seq(Threads)
  /\ \A w \in DOMAIN scans : scans[w].pc = "read" => scans[w].todo # <<>>

LEMMA TailTyped ==
  ASSUME NEW S, NEW s \in Seq(S), s # <<>>
  PROVE  Tail(s) \in Seq(S)
  OBVIOUS

(* What thread w becomes: games to list whenever it reads the next one. *)
Becomes(w, t) ==
  /\ t \in Threads /\ scans' = [scans EXCEPT ![w] = t]
  /\ t.pc = "read" => t.todo # <<>>

(* A thread hands its games on one by one and never reads beyond the last. *)
LEMMA ThreadStep ==
  ASSUME ScansTyped, NEW w \in DOMAIN scans, Scan(w)
  PROVE  ScansTyped'
<1> USE DEF ScansTyped
<1>1. AppIds \in Seq(Games)
  BY AppIdsAssumption DEF Games
<1>2. visits' = visits
  BY DEF Scan, ScanBegin, GetAllApplicationIds, NoServices, ScanNext, ScanAdd,
         ScanSubmit, ScanEnd, ScanFrame, ghosts
<1>3. nextId' \in Nat
  BY DEF Scan, ScanBegin, GetAllApplicationIds, NoServices, ScanNext, ScanAdd,
         ScanSubmit, ScanEnd, ScanFrame
<1>4. scans[w] \in Threads
  OBVIOUS
<1>5. \E t : Becomes(w, t)
  <2>1. CASE ScanBegin(w)
    <3>1. Becomes(w, [scans[w] EXCEPT !.pc = "begun"])
      BY <1>4, <2>1 DEF ScanBegin, Places, Threads, Becomes
    <3> QED
      BY <3>1, Zenon
  <2>2. CASE GetAllApplicationIds(w)
    <3>1. Becomes(w, [scans[w] EXCEPT !.pc = "next", !.todo = AppIds])
      BY <1>4, <2>2, <1>1 DEF GetAllApplicationIds, Places, Threads, Becomes
    <3> QED
      BY <3>1, Zenon
  <2>3. CASE NoServices(w) \/ ScanEnd(w)
    <3>1. Becomes(w, [scans[w] EXCEPT !.pc = "ended", !.todo = <<>>])
      <4>1. scans' = [scans EXCEPT ![w].pc = "ended", ![w].todo = <<>>]
        BY <2>3 DEF NoServices, ScanEnd, Ended
      <4>2. <<>> \in Seq(Games)
        OBVIOUS
      <4> QED
        BY <1>4, <4>1, <4>2 DEF Places, Threads, Becomes
    <3> QED
      BY <3>1, Zenon
  <2>4. CASE ScanNext(w)
    <3>1. PICK q \in {"flush", "read"} :
            /\ scans' = [scans EXCEPT ![w].pc = q]
            /\ q = "read" => scans[w].todo # <<>>
      BY <2>4 DEF ScanNext
    <3>2. Becomes(w, [scans[w] EXCEPT !.pc = q])
      BY <1>4, <3>1 DEF Places, Threads, Becomes
    <3> QED
      BY <3>2, Zenon
  <2>5. CASE ScanAdd(w)
    <3>1. Tail(scans[w].todo) \in Seq(Games)
      <4>1. scans[w].todo \in Seq(Games) /\ scans[w].todo # <<>>
        BY <1>4, <2>5 DEF ScanAdd, Threads
      <4> QED
        BY <4>1, Zenon, TailTyped
    <3>2. PICK q \in {"submit", "next"} :
            scans' = [scans EXCEPT ![w].todo = Tail(@), ![w].last = nextId,
                                   ![w].pc = q]
      BY <2>5 DEF ScanAdd
    <3>3. Becomes(w, [scans[w] EXCEPT !.todo = Tail(scans[w].todo),
                                      !.last = nextId, !.pc = q])
      BY <1>4, <3>1, <3>2 DEF Places, Threads, Becomes
    <3> QED
      BY <3>3, Zenon
  <2>6. CASE ScanSubmit(w)
    <3>1. Becomes(w, [scans[w] EXCEPT !.pc = "next"])
      BY <1>4, <2>6 DEF ScanSubmit, Places, Threads, Becomes
    <3> QED
      BY <3>1, Zenon
  <2> QED
    BY <2>1, <2>2, <2>3, <2>4, <2>5, <2>6 DEF Scan
<1>6. PICK t : Becomes(w, t)
  BY <1>5, Zenon
<1>7. scans' \in Seq(Threads) /\ DOMAIN scans' = DOMAIN scans
  BY <1>6 DEF Becomes
<1>8. \A v \in DOMAIN scans' : scans'[v].pc = "read" => scans'[v].todo # <<>>
  BY <1>6 DEF Becomes
<1> QED
  BY <1>2, <1>3, <1>7, <1>8

-----------------------------------------------------------------------------
(* The cursor and the dialogs *)

Entry == [game : Games, id : Nat, image : Textures \union {0}]

(* What the open dialog showed is still at its place in the list. *)
Agree ==
  dialog # "none" =>
    /\ Len(shown) <= Len(entries)
    /\ \A i \in DOMAIN shown : shown[i] = entries[i].game

(* No dialog is open while keys are read, so none sees the list sorted or    *)
(* cleared.                                                                  *)
Quiet == at \in {"update", "join", "input", "stop", "clear"} => dialog = "none"

ListTyped ==
  /\ entries \in Seq(Entry) /\ shown \in Seq(Games)
  /\ index \in Nat /\ held \in Nat

Inv == ScansTyped /\ ListTyped /\ Quiet /\ CursorInList /\ Agree

LEMMA EmptyTyped ==
  <<>> \in Seq(Threads) /\ <<>> \in Seq(Entry) /\ <<>> \in Seq(Games)
  OBVIOUS

LEMMA InvInit == Init => Inv
  BY EmptyTyped DEF Init, Inv, ScansTyped, ListTyped, Quiet, CursorInList, Agree

(* A thread appends to the list and touches nothing else of it. *)
LEMMA InvScan ==
  ASSUME Inv, NEW w \in DOMAIN scans, Scan(w)
  PROVE  Inv'
<1>1. ScansTyped'
  BY ThreadStep DEF Inv
<1>2. UNCHANGED <<at, dialog, shown, index, held>>
  BY DEF Scan, ScanBegin, GetAllApplicationIds, NoServices, ScanNext, ScanAdd,
         ScanSubmit, ScanEnd, ScanFrame, list
<1>3. entries' = entries \/ \E e \in Entry : entries' = Append(entries, e)
  <2>1. CASE ScanAdd(w)
    <3>1. Head(scans[w].todo) \in Games
      <4>1. scans[w].todo \in Seq(Games) /\ scans[w].todo # <<>>
        <5>1. scans[w] \in Threads
          BY DEF Inv, ScansTyped
        <5>2. scans[w].todo # <<>>
          BY <2>1 DEF ScanAdd, Inv, ScansTyped
        <5> QED
          BY <5>1, <5>2 DEF Threads
      <4> QED
        BY <4>1
    <3>2. [game |-> Head(scans[w].todo), id |-> nextId, image |-> 0] \in Entry
      BY <3>1 DEF Entry, Inv, ScansTyped
    <3> QED
      BY <2>1, <3>2 DEF ScanAdd
  <2>2. CASE ~ScanAdd(w)
    BY <2>2 DEF Scan, ScanBegin, GetAllApplicationIds, NoServices, ScanNext,
                ScanSubmit, ScanEnd
  <2> QED
    BY <2>1, <2>2
<1>4. CASE entries' = entries
  BY <1>1, <1>2, <1>4 DEF Inv, ListTyped, Quiet, CursorInList, Agree
<1>5. ASSUME NEW e \in Entry, entries' = Append(entries, e)
      PROVE  Inv'
  <2>1. ListTyped' /\ CursorInList'
    BY <1>2, <1>5 DEF Inv, ListTyped, CursorInList
  <2>2. Quiet'
    BY <1>2 DEF Inv, Quiet
  <2>3. Agree'
    BY <1>2, <1>5 DEF Inv, ListTyped, Agree
  <2> QED
    BY <1>1, <2>1, <2>2, <2>3 DEF Inv
<1> QED
  BY <1>3, <1>4, <1>5

(* The callback of a task changes the image of at most one entry. *)
LEMMA LoadedStep ==
  ASSUME NEW id, Loaded(id)
  PROVE  \/ UNCHANGED <<entries, textures>>
         \/ \E i \in DOMAIN entries, t \in Textures \ textures :
              /\ entries' = [entries EXCEPT ![i].image = t]
              /\ textures' = (textures \union {t}) \ {entries[i].image}
<1> DEFINE new == CHOOSE t \in Textures : t \notin textures
           i   == CHOOSE j \in DOMAIN entries : entries[j].id = id
<1>1. CASE /\ Textures \ textures # {}
           /\ \E j \in DOMAIN entries : entries[j].id = id /\ entries[j].game \in WithIcon
  <2>1. new \in Textures \ textures
    BY <1>1, Zenon
  <2>2. i \in DOMAIN entries
    BY <1>1, Zenon
  <2>3. /\ entries' = [entries EXCEPT ![i].image = new]
        /\ textures' = (textures \union {new}) \ {entries[i].image}
    BY <1>1, Zenon DEF Loaded
  <2> HIDE DEF new, i
  <2> QED
    BY <2>1, <2>2, <2>3, Zenon
<1>2. CASE ~(/\ Textures \ textures # {}
             /\ \E j \in DOMAIN entries : entries[j].id = id /\ entries[j].game \in WithIcon)
  BY <1>2, Zenon DEF Loaded
<1> QED
  BY <1>1, <1>2

LEMMA InvLoad ==
  ASSUME Inv, LoadIcon
  PROVE  Inv'
<1>1. /\ UNCHANGED <<at, dialog, shown, index, held, scans, nextId, visits>>
      /\ \E id : Loaded(id)
  BY DEF LoadIcon, list, thread, ghosts
<1>2. CASE entries' = entries
  BY <1>1, <1>2 DEF Inv, ScansTyped, ListTyped, Quiet, CursorInList, Agree
<1>3. ASSUME NEW i \in DOMAIN entries, NEW t \in Textures,
             entries' = [entries EXCEPT ![i].image = t]
      PROVE  Inv'
  <2>1. /\ entries' \in Seq(Entry) /\ Len(entries') = Len(entries)
        /\ \A j \in DOMAIN entries : entries'[j].game = entries[j].game
    <3>1. entries \in Seq(Entry) /\ entries[i] \in Entry
      BY DEF Inv, ListTyped
    <3>2. PICK e \in Entry : /\ e.game = entries[i].game
                            /\ entries' = [entries EXCEPT ![i] = e]
      <4>1. [entries[i] EXCEPT !.image = t] \in Entry
        BY <3>1 DEF Entry
      <4>2. [entries[i] EXCEPT !.image = t].game = entries[i].game
        BY <3>1 DEF Entry
      <4> QED
        BY <1>3, <4>1, <4>2, Zenon
    <3> QED
      BY <3>1, <3>2
  <2> QED
    BY <1>1, <2>1 DEF Inv, ScansTyped, ListTyped, Quiet, CursorInList, Agree
<1> QED
  BY <1>1, <1>2, <1>3, LoadedStep

(* Steps of the frame loop that leave list and threads alone. *)
LEMMA InvCalm ==
  ASSUME Inv,
         \/ LoadsDone \/ KeepDialog \/ CloseDialog \/ AddGame \/ OpenAddGame
         \/ StayInList \/ NoScanNeeded \/ Joined \/ NoKey \/ Stopped
         \/ LoadAddGameVisibleAreaIcons \/ SkipIcons
  PROVE  Inv'
<1> USE DEF list, icons, thread, ghosts, Calm
<1>1. /\ UNCHANGED <<entries, index, scans, nextId>>
      /\ visits' = visits \/ visits' = visits + 1
      /\ held' = held \/ held' = 0
  BY DEF LoadsDone, KeepDialog, CloseDialog, AddGame, OpenAddGame, StayInList,
         NoScanNeeded, Joined, NoKey, Stopped, LoadAddGameVisibleAreaIcons, SkipIcons
<1>2. ScansTyped'
  BY <1>1 DEF Inv, ScansTyped
<1>3. UNCHANGED <<dialog, shown>> \/ shown' = <<>>
  BY DEF LoadsDone, KeepDialog, CloseDialog, AddGame, OpenAddGame, StayInList,
         NoScanNeeded, Joined, NoKey, Stopped, LoadAddGameVisibleAreaIcons,
         SkipIcons
<1>4. Quiet'
  BY DEF LoadsDone, KeepDialog, CloseDialog, AddGame, OpenAddGame, StayInList,
         NoScanNeeded, Joined, NoKey, Stopped, LoadAddGameVisibleAreaIcons,
         SkipIcons, Inv, Quiet
<1>5. ListTyped'
  <2>1. shown' \in Seq(Games)
    BY <1>3, EmptyTyped DEF Inv, ListTyped
  <2>2. held' \in Nat /\ index' \in Nat /\ entries' \in Seq(Entry)
    BY <1>1 DEF Inv, ListTyped
  <2> QED
    BY <2>1, <2>2 DEF ListTyped
<1>6. CursorInList'
  BY <1>1 DEF Inv, CursorInList
<1>7. Agree'
  <2>1. CASE UNCHANGED <<dialog, shown>>
    BY <1>1, <2>1 DEF Inv, Agree
  <2>2. CASE shown' = <<>>
    <3>1. Len(shown') <= Len(entries') /\ DOMAIN shown' = {}
      BY <1>5, <2>2 DEF ListTyped
    <3> QED
      BY <3>1 DEF Agree
  <2> QED
    BY <1>3, <2>1, <2>2
<1> QED
  BY <1>2, <1>4, <1>5, <1>6, <1>7 DEF Inv

(* Steps that start a thread or ask one to stop. *)
LEMMA InvThreads ==
  ASSUME Inv, StartScan \/ Back \/ Quit
  PROVE  Inv'
<1>1. UNCHANGED <<entries, index, dialog, shown, nextId, visits>>
  BY DEF StartScan, Back, Quit, list, ghosts
<1>2. Quiet'
  BY DEF StartScan, Back, Quit, list, Inv, Quiet
<1>3. scans \in Seq(Threads) /\ visits \in Nat
  BY DEF Inv, ScansTyped
<1>4. CASE StartScan
  <2> DEFINE t == [pc |-> "new", todo |-> <<>>, stop |-> FALSE, last |-> 0,
                   visit |-> visits]
  <2>1. t \in Threads /\ t.pc # "read"
    BY <1>3 DEF Threads, Places
  <2>2. scans' = Append(scans, t) /\ held' = Len(scans')
    BY <1>4 DEF StartScan
  <2> HIDE DEF t
  <2>3. ScansTyped' /\ held' \in Nat
    BY <1>1, <1>3, <2>1, <2>2 DEF Inv, ScansTyped
  <2> QED
    BY <1>1, <1>2, <2>3 DEF Inv, ListTyped, CursorInList, Agree
<1>5. CASE Back \/ Quit
  <2>1. /\ held' = held
        /\ scans' = scans \/ scans' = [scans EXCEPT ![held].stop = TRUE]
    BY <1>5 DEF Back, Quit, thread
  <2>2. ScansTyped'
    <3>1. CASE scans' = scans \/ held \notin DOMAIN scans
      <4>1. scans' = scans
        BY <1>3, <2>1, <3>1
      <4> QED
        BY <1>1, <4>1 DEF Inv, ScansTyped
    <3>2. CASE scans' # scans /\ held \in DOMAIN scans
      <4>1. PICK t \in Threads : /\ t.pc = scans[held].pc /\ t.todo = scans[held].todo
                                /\ scans' = [scans EXCEPT ![held] = t]
        <5>1. scans[held] \in Threads
          BY <1>3, <3>2
        <5>2. /\ [scans[held] EXCEPT !.stop = TRUE] \in Threads
              /\ [scans[held] EXCEPT !.stop = TRUE].pc = scans[held].pc
              /\ [scans[held] EXCEPT !.stop = TRUE].todo = scans[held].todo
          BY <5>1 DEF Threads
        <5> QED
          BY <2>1, <3>2, <5>2, Zenon
      <4> QED
        BY <1>1, <1>3, <3>2, <4>1 DEF Inv, ScansTyped
    <3> QED
      BY <3>1, <3>2
  <2> QED
    BY <1>1, <1>2, <2>1, <2>2 DEF Inv, ListTyped, CursorInList, Agree
<1> QED
  BY <1>4, <1>5

(* Steps that move the cursor, or open a dialog, of the list as it is. *)
LEMMA InvKeys ==
  ASSUME Inv, SelectFound \/ Move \/ OpenDialog
  PROVE  Inv'
<1> USE DEF Key, Calm, thread, ghosts, list
<1>1. UNCHANGED <<entries, scans, nextId, visits, held>>
  BY DEF SelectFound, Move, OpenDialog
<1>2. ScansTyped'
  BY <1>1 DEF Inv, ScansTyped
<1>3. Quiet'
  BY DEF SelectFound, Move, OpenDialog, Inv, Quiet
<1>4. entries \in Seq(Entry) /\ shown \in Seq(Games)
  BY DEF Inv, ListTyped
<1>5. CASE SelectFound
  <2>1. dialog # "none" /\ dialog' = "none" /\ shown' = <<>>
    BY <1>5 DEF SelectFound
  <2>2. PICK i \in DOMAIN shown : index' = i - 1
    BY <1>5 DEF SelectFound
  <2>3. index' \in Nat /\ index' < Len(entries)
    BY <1>4, <2>1, <2>2 DEF Inv, Agree
  <2> QED
    BY <1>1, <1>2, <1>3, <2>1, <2>3 DEF Inv, ListTyped, CursorInList, Agree
<1>6. CASE Move
  <2>1. Len(entries) \in Nat /\ index \in 0..(Len(entries) - 1)
    BY <1>4, <1>6 DEF Move, Inv, ListTyped, CursorInList
  <2>2. index' \in 0..(Len(entries) - 1)
    BY <1>6, <2>1, MovesKept, Zenon DEF Move
  <2>3. UNCHANGED <<dialog, shown>>
    BY <1>6 DEF Move
  <2> QED
    BY <1>1, <1>2, <1>3, <2>1, <2>2, <2>3 DEF Inv, ListTyped, CursorInList, Agree
<1>7. CASE OpenDialog
  <2>1. index' = index /\ shown' = [i \in DOMAIN entries |-> entries[i].game]
    BY <1>7 DEF OpenDialog, GamesOf
  <2>2. \A i \in DOMAIN entries : entries[i].game \in Games
    <3>1. \A i \in DOMAIN entries : entries[i] \in Entry
      BY <1>4
    <3> QED
      BY <3>1 DEF Entry
  <2>3. shown' \in Seq(Games) /\ Len(shown') = Len(entries)
    BY <1>4, <2>1, <2>2
  <2> QED
    BY <1>1, <1>2, <1>3, <2>1, <2>3 DEF Inv, ListTyped, CursorInList, Agree
<1> QED
  BY <1>5, <1>6, <1>7

(* Steps that put the list in another order or empty it. *)
LEMMA InvSort ==
  ASSUME Inv, SortList
  PROVE  Inv'
<1>1. /\ UNCHANGED <<dialog, shown, scans, nextId, visits, held>>
      /\ index' = 0 /\ at = "input" /\ at' = "icons" /\ entries # <<>>
  BY DEF SortList, Key, thread, ghosts
<1>2. PICK p \in Bijection(DOMAIN entries, DOMAIN entries) :
        entries' = [i \in DOMAIN entries |-> entries[p[i]]]
  BY DEF SortList
<1>3. entries \in Seq(Entry) /\ dialog = "none"
  BY <1>1 DEF Inv, ListTyped, Quiet
<1>4. \A i \in DOMAIN entries : p[i] \in DOMAIN entries
  BY <1>2 DEF Bijection, Injection
<1>5. entries' \in Seq(Entry) /\ Len(entries') = Len(entries) /\ Len(entries) > 0
  BY <1>1, <1>2, <1>3, <1>4
<1>6. ScansTyped' /\ Quiet'
  BY <1>1, <1>3 DEF Inv, ScansTyped, Quiet
<1> QED
  BY <1>1, <1>3, <1>5, <1>6 DEF Inv, ListTyped, CursorInList, Agree

LEMMA InvClear ==
  ASSUME Inv, clearaddgamelist \/ FreeTextures
  PROVE  Inv'
<1>1. /\ UNCHANGED <<scans, nextId, visits>> /\ held' \in {held, 0}
      /\ entries' = <<>> /\ index' = 0 /\ at' \in {"icons", "off"}
      /\ (shown' = shown /\ dialog' = "none") \/ shown' = <<>>
  BY DEF clearaddgamelist, FreeTextures, ghosts, Inv, Quiet
<1>2. ScansTyped' /\ Quiet' /\ CursorInList'
  BY <1>1 DEF Inv, ScansTyped, Quiet, CursorInList
<1>3. ListTyped'
  <2>1. shown' \in Seq(Games) /\ entries' \in Seq(Entry)
    BY <1>1, EmptyTyped DEF Inv, ListTyped
  <2>2. index' \in Nat /\ held' \in Nat
    BY <1>1 DEF Inv, ListTyped
  <2> QED
    BY <2>1, <2>2 DEF ListTyped
<1>4. Agree'
  <2>1. CASE dialog' = "none"
    BY <2>1 DEF Agree
  <2>2. CASE shown' = <<>>
    <3>1. Len(shown') <= Len(entries') /\ DOMAIN shown' = {}
      BY <1>1, <2>2
    <3> QED
      BY <3>1 DEF Agree
  <2> QED
    BY <1>1, <2>1, <2>2
<1> QED
  BY <1>2, <1>3, <1>4 DEF Inv

(* Whatever the threads and the user do, the cursor stays in the list and a  *)
(* dialog's rows stay those of the list.                                     *)
LEMMA InvNext == Inv /\ [Next]_vars => Inv'
<1> SUFFICES ASSUME Inv, [Next]_vars PROVE Inv'
  OBVIOUS
<1>1. CASE FrameLoop
  BY <1>1, InvCalm, InvThreads, InvKeys, InvSort, InvClear, InvLoad, Zenon
     DEF FrameLoop
<1>2. CASE Quit
  BY <1>2, InvThreads, Zenon
<1>3. ASSUME NEW w \in DOMAIN scans, Scan(w) PROVE Inv'
  BY <1>3, InvScan, Zenon
<1>4. CASE UNCHANGED vars
  BY <1>4 DEF vars, list, thread, ghosts, Inv, ScansTyped, ListTyped, Quiet,
              CursorInList, Agree
<1> QED
  BY <1>1, <1>2, <1>3, <1>4 DEF Next

LEMMA InvKept == Spec => []Inv
  BY InvInit, InvNext, PTL DEF Spec

(* The cursor never leaves the list: for any console, grid and number of     *)
(* scans beside each other, Dialog_ADDGAME_Menu reads an entry that exists.  *)
THEOREM CursorStaysInList == Spec => []CursorInList
<1>1. Inv => CursorInList
  BY DEF Inv
<1> QED
  BY <1>1, InvKept, PTL

(* While a dialog is open the list agrees with what it showed, however many  *)
(* threads add to the list meanwhile.                                        *)
THEOREM DialogShowsTheList == Spec => []DialogShowsList
<1>1. Inv => DialogShowsList
  <2> SUFFICES ASSUME Inv, dialog # "none" PROVE IsPrefix(shown, GamesOf(entries))
    BY DEF DialogShowsList
  <2>1. /\ shown \in Seq(Games) /\ entries \in Seq(Entry)
        /\ Len(shown) <= Len(entries)
        /\ \A i \in DOMAIN shown : shown[i] = entries[i].game
    BY DEF Inv, ListTyped, Agree
  <2> DEFINE games == [i \in DOMAIN entries |-> entries[i].game]
  <2>2. \A i \in DOMAIN entries : entries[i].game \in Games
    <3>1. \A i \in DOMAIN entries : entries[i] \in Entry
      BY <2>1
    <3> QED
      BY <3>1 DEF Entry
  <2>3. /\ games \in Seq(Games) /\ Len(games) = Len(entries)
        /\ \A i \in 1..Len(shown) : games[i] = shown[i]
    BY <2>1, <2>2
  <2> HIDE DEF games
  <2>4. SubSeq(shown, 1, Len(shown)) = SubSeq(games, 1, Len(shown))
    BY <2>1, <2>3
  <2> QED
    BY <2>1, <2>3, <2>4 DEF IsPrefix, GamesOf, games
<1> QED
  BY <1>1, InvKept, PTL

-----------------------------------------------------------------------------
(* The textures *)

Distinct(es) ==
  \A i, j \in DOMAIN es : es[i].image = es[j].image /\ i # j => es[i].image = 0

(* A new entry has no texture. *)
LEMMA OwnedScan ==
  ASSUME Inv, TexturesOwned, NEW w \in DOMAIN scans, Scan(w)
  PROVE  TexturesOwned'
<1>1. textures' = textures
  BY DEF Scan, ScanBegin, GetAllApplicationIds, NoServices, ScanNext, ScanAdd,
         ScanSubmit, ScanEnd, ScanFrame
<1>2. \/ entries' = entries
      \/ \E g : entries' = Append(entries, [game |-> g, id |-> nextId, image |-> 0])
  BY Zenon DEF Scan, ScanBegin, GetAllApplicationIds, NoServices, ScanNext, ScanAdd,
         ScanSubmit, ScanEnd
<1>3. CASE entries' = entries
  BY <1>1, <1>3 DEF TexturesOwned, Imaged
<1>4. ASSUME NEW g, entries' = Append(entries, [game |-> g, id |-> nextId, image |-> 0])
      PROVE  TexturesOwned'
  <2> DEFINE n == Len(entries) + 1
  <2>1. /\ DOMAIN entries' = DOMAIN entries \union {n} /\ entries'[n].image = 0
        /\ \A i \in DOMAIN entries : entries'[i] = entries[i]
    BY <1>4 DEF Inv, ListTyped
  <2> HIDE DEF n
  <2>2. Imaged(entries') = Imaged(entries)
    BY <2>1 DEF Imaged
  <2>3. Distinct(entries) => Distinct(entries')
    BY <2>1 DEF Distinct
  <2> QED
    BY <1>1, <2>2, <2>3 DEF TexturesOwned, Distinct
<1> QED
  BY <1>2, <1>3, <1>4

(* A loaded icon takes a texture nobody had, and frees the one it replaces. *)
LEMMA OwnedLoad ==
  ASSUME Inv, TexturesOwned, LoadIcon
  PROVE  TexturesOwned'
<1>1. \E id : Loaded(id)
  BY DEF LoadIcon
<1>2. CASE UNCHANGED <<entries, textures>>
  BY <1>2 DEF TexturesOwned, Imaged
<1>3. ASSUME NEW i \in DOMAIN entries, NEW t \in Textures \ textures,
             entries' = [entries EXCEPT ![i].image = t],
             textures' = (textures \union {t}) \ {entries[i].image}
      PROVE  TexturesOwned'
  <2>1. entries \in Seq(Entry) /\ entries[i] \in Entry
    BY DEF Inv, ListTyped
  <2>2. [entries[i] EXCEPT !.image = t].image = t
    BY <2>1 DEF Entry
  <2>3. /\ DOMAIN entries' = DOMAIN entries /\ entries'[i].image = t
        /\ \A j \in DOMAIN entries \ {i} : entries'[j] = entries[j]
    BY <1>3, <2>1, <2>2
  <2>4. t # 0 /\ t \notin Imaged(entries) /\ t # entries[i].image
    BY TexturesAssumption DEF TexturesOwned, Imaged
  <2>5. Distinct(entries')
    BY <2>3, <2>4 DEF TexturesOwned, Imaged, Distinct
  <2>6. \A u : u \in Imaged(entries') <=> u \in textures'
    <3> TAKE u
    <3>1. CASE u = t
      BY <1>3, <2>3, <2>4, <3>1 DEF Imaged
    <3>2. CASE u # t
      BY <1>3, <2>3, <3>2 DEF TexturesOwned, Imaged
    <3> QED
      BY <3>1, <3>2
  <2> QED
    BY <2>5, <2>6 DEF TexturesOwned, Distinct
<1> QED
  BY <1>1, <1>2, <1>3, LoadedStep

(* Sorting hands no texture from one entry to another. *)
LEMMA OwnedSort ==
  ASSUME Inv, TexturesOwned, SortList
  PROVE  TexturesOwned'
<1>1. textures' = textures
  BY DEF SortList, Key
<1>2. PICK p \in Bijection(DOMAIN entries, DOMAIN entries) :
        entries' = [i \in DOMAIN entries |-> entries[p[i]]]
  BY DEF SortList
<1>3. /\ \A i \in DOMAIN entries : p[i] \in DOMAIN entries
      /\ \A i, j \in DOMAIN entries : p[i] = p[j] => i = j
      /\ \A i \in DOMAIN entries : \E j \in DOMAIN entries : p[j] = i
  BY <1>2 DEF Bijection, Injection, Surjection, IsInjective
<1>4. DOMAIN entries' = DOMAIN entries /\ \A i \in DOMAIN entries : entries'[i] = entries[p[i]]
  BY <1>2
<1>5. Imaged(entries') = Imaged(entries)
  <2>1. ASSUME NEW i \in DOMAIN entries
        PROVE  \E j \in DOMAIN entries : entries[j].image = entries'[i].image
    BY <1>3, <1>4, Zenon
  <2>2. ASSUME NEW i \in DOMAIN entries
        PROVE  \E j \in DOMAIN entries : entries'[j].image = entries[i].image
    <3>1. PICK j \in DOMAIN entries : p[j] = i
      BY <1>3, Zenon
    <3>2. entries'[j].image = entries[i].image
      BY <1>4, <3>1, Zenon
    <3> QED
      BY <3>2, Zenon
  <2>3. Imaged(entries') \subseteq Imaged(entries)
    BY <1>4, <2>1, ZenonT(40) DEF Imaged
  <2>4. Imaged(entries) \subseteq Imaged(entries')
    BY <1>4, <2>2, ZenonT(40) DEF Imaged
  <2> QED
    BY <2>3, <2>4, Zenon
<1>6. Distinct(entries')
  <2> SUFFICES ASSUME NEW i \in DOMAIN entries, NEW j \in DOMAIN entries, i # j,
                      entries'[i].image = entries'[j].image
               PROVE  entries'[i].image = 0
    BY <1>4, Zenon DEF Distinct
  <2>1. p[i] # p[j] /\ entries[p[i]].image = entries[p[j]].image
    BY <1>3, <1>4, Zenon
  <2>2. entries[p[i]].image = 0
    BY <1>3, <2>1, Zenon DEF TexturesOwned
  <2> QED
    BY <1>4, <2>2, Zenon
<1> QED
  BY <1>1, <1>5, <1>6 DEF TexturesOwned, Distinct

LEMMA OwnedNext == Inv /\ TexturesOwned /\ [Next]_vars => TexturesOwned'
<1> SUFFICES ASSUME Inv, TexturesOwned, [Next]_vars PROVE TexturesOwned'
  OBVIOUS
<1>1. CASE UNCHANGED <<entries, textures>>
  BY <1>1 DEF TexturesOwned, Imaged
<1>2. CASE clearaddgamelist \/ FreeTextures
  <2>1. entries' = <<>> /\ textures' = {}
    BY <1>2 DEF clearaddgamelist, FreeTextures, TexturesOwned
  <2> QED
    BY <2>1 DEF TexturesOwned, Imaged
<1>3. \/ UNCHANGED <<entries, textures>> \/ clearaddgamelist \/ FreeTextures
      \/ LoadIcon \/ SortList \/ \E w \in DOMAIN scans : Scan(w)
  BY DEF Next, FrameLoop, LoadsDone, KeepDialog, CloseDialog, AddGame, OpenAddGame,
         StayInList, NoScanNeeded, Joined, NoKey, Stopped, Back, StartScan, Quit,
         SelectFound, Move, OpenDialog, LoadAddGameVisibleAreaIcons, SkipIcons,
         Calm, Key, vars, icons
<1> QED
  BY <1>1, <1>2, <1>3, OwnedScan, OwnedLoad, OwnedSort

(* No texture is lost or shared, for any number of icons queued, textures,   *)
(* clears and sorts.                                                         *)
THEOREM NoTextureLost == Spec => []TexturesOwned
<1>1. Init => TexturesOwned
  BY DEF Init, TexturesOwned, Imaged
<1>2. Inv /\ TexturesOwned /\ [Next]_vars => TexturesOwned'
  BY OwnedNext
<1> QED
  BY <1>1, <1>2, InvKept, PTL DEF Spec

-----------------------------------------------------------------------------
(* The whole list *)

(* The list has every game of the console, in some order.                   *)
Complete == Len(entries) = Len(AppIds) /\ Range(GamesOf(entries)) = Games
Whole    == entries = <<>> \/ Complete

(* What a thread has yet to list follows what is listed.                    *)
Rest(todo) ==
  /\ Len(entries) + Len(todo) = Len(AppIds)
  /\ \A i \in 1..Len(entries) : entries[i].game = AppIds[i]
  /\ \A i \in 1..Len(todo) : todo[i] = AppIds[Len(entries) + i]

(* One thread at a time fills the list, and only a thread that was stopped  *)
(* leaves a part of it, which is cleared before a key is read again.        *)
Filling ==
  Alive(held) =>
    /\ scans[held].pc \in {"new", "begun"} => entries = <<>>
    /\ scans[held].pc \notin {"new", "begun"} => Rest(scans[held].todo)
    /\ scans[held].pc = "flush" => scans[held].todo = <<>> \/ scans[held].stop
    /\ scans[held].stop => at \in {"stop", "quit"}
InTurn ==
  /\ \A w \in DOMAIN scans : Alive(w) => w = held
  /\ at # "join" /\ (at \in {"clear", "off"} => ~Alive(held))
  /\ running = (Alive(held) /\ scans[held].pc # "new")
  /\ Filling
  /\ ~Alive(held) /\ at \notin {"stop", "clear", "quit"} => Whole

OneScan == ~overlooked => InTurn

LEMMA SameGames ==
  ASSUME Len(entries') = Len(entries), DOMAIN entries' = DOMAIN entries,
         Inv, \A i \in DOMAIN entries : entries'[i].game = entries[i].game,
         entries' = <<>> <=> entries = <<>>
  PROVE  /\ Whole => Whole'
         /\ \A t : Rest(t) => Rest(t)'
<1>1. DOMAIN entries = 1..Len(entries)
  BY DEF Inv, ListTyped
<1>2. GamesOf(entries') = GamesOf(entries)
  BY DEF GamesOf
<1>3. Whole => Whole'
  BY <1>2 DEF Whole, Complete
<1>4. ASSUME NEW t, Rest(t)
      PROVE  Rest(t)'
  BY <1>1, <1>4 DEF Rest
<1> QED
  BY <1>3, <1>4

(* A thread that has handed on every game leaves the whole list.            *)
LEMMA RestWhole ==
  ASSUME Inv, Rest(<<>>)
  PROVE  Whole
<1>1. /\ entries \in Seq(Entry) /\ DOMAIN entries = 1..Len(entries) /\ Len(entries) \in Nat
      /\ AppIds \in Seq(Games)
  BY AppIdsAssumption DEF Inv, ListTyped, Games
<1>2. Len(entries) = Len(AppIds)
  BY <1>1 DEF Rest
<1>3. DOMAIN AppIds = DOMAIN entries
  BY <1>1, <1>2
<1>4. \A i \in DOMAIN entries : GamesOf(entries)[i] = AppIds[i]
  BY <1>1 DEF Rest, GamesOf
<1>5. DOMAIN GamesOf(entries) = DOMAIN entries
  BY DEF GamesOf
<1>6. Range(GamesOf(entries)) = Range(AppIds)
  BY <1>3, <1>4, <1>5 DEF Range
<1> QED
  BY <1>2, <1>6 DEF Whole, Complete, Games

LEMMA InTurnInit == Init => OneScan
<1> SUFFICES ASSUME Init PROVE InTurn
  BY DEF OneScan
<1>1. DOMAIN scans = {}
  BY DEF Init
<1>2. entries = <<>> /\ running = FALSE /\ at = "frame"
  BY DEF Init
<1> QED
  BY <1>1, <1>2 DEF InTurn, Filling, Whole, Alive

(* Steps of a frame that leave the threads and the games of the list.       *)
LEMMA InTurnCalm ==
  ASSUME Inv, InTurn,
         \/ LoadIcon \/ LoadsDone \/ KeepDialog \/ CloseDialog \/ AddGame \/ SelectFound
         \/ OpenAddGame \/ StayInList \/ NoScanNeeded \/ Joined \/ NoKey \/ Move
         \/ OpenDialog \/ LoadAddGameVisibleAreaIcons \/ SkipIcons
  PROVE  InTurn'
<1> USE DEF list, icons, thread, ghosts, Calm, Key
<1>1. /\ UNCHANGED <<scans, held, running>>
      /\ at \notin {"stop", "clear", "quit", "off"}
      /\ at' \notin {"join", "stop", "clear", "quit", "off"}
  BY DEF LoadIcon, LoadsDone, KeepDialog, CloseDialog, AddGame, SelectFound, OpenAddGame,
         StayInList, NoScanNeeded, Joined, NoKey, Move, OpenDialog,
         LoadAddGameVisibleAreaIcons, SkipIcons, InTurn
<1> DEFINE Alike == /\ Len(entries') = Len(entries) /\ DOMAIN entries' = DOMAIN entries
                    /\ \A i \in DOMAIN entries : entries'[i].game = entries[i].game
                    /\ entries' = <<>> <=> entries = <<>>
<1>2. Alike
  <2>1. CASE entries' = entries
    BY <2>1
  <2>2. ASSUME NEW i \in DOMAIN entries, NEW t \in Textures,
               entries' = [entries EXCEPT ![i].image = t]
        PROVE  Alike
    <3>1. entries \in Seq(Entry) /\ entries[i] \in Entry
      BY DEF Inv, ListTyped
    <3>2. PICK e \in Entry : /\ e.game = entries[i].game
                            /\ entries' = [entries EXCEPT ![i] = e]
      <4>1. [entries[i] EXCEPT !.image = t] \in Entry
        BY <3>1 DEF Entry
      <4>2. [entries[i] EXCEPT !.image = t].game = entries[i].game
        BY <3>1 DEF Entry
      <4> QED
        BY <2>2, <4>1, <4>2, Zenon
    <3> QED
      BY <3>1, <3>2
  <2>3. CASE LoadIcon
    <3>1. \E id : Loaded(id)
      BY <2>3 DEF LoadIcon
    <3> QED
      BY <2>1, <2>2, <3>1, LoadedStep
  <2>4. CASE ~LoadIcon
    <3>1. entries' = entries
      BY <2>4 DEF LoadsDone, KeepDialog, CloseDialog, AddGame, SelectFound, OpenAddGame,
             StayInList, NoScanNeeded, Joined, NoKey, Move, OpenDialog,
             LoadAddGameVisibleAreaIcons, SkipIcons
    <3> QED
      BY <2>1, <3>1
  <2> QED
    BY <2>3, <2>4
<1>3. (Whole => Whole') /\ \A t : Rest(t) => Rest(t)'
  BY <1>2, SameGames
<1>4. \A w : Alive(w)' <=> Alive(w)
  BY <1>1 DEF Alive
<1>5. Filling'
  BY <1>1, <1>2, <1>3, <1>4 DEF InTurn, Filling
<1>6. ~Alive(held)' /\ at' \notin {"stop", "clear", "quit"} => Whole'
  BY <1>1, <1>3, <1>4 DEF InTurn
<1> QED
  BY <1>1, <1>4, <1>5, <1>6 DEF InTurn

(* A scan is started when none is on its way.                               *)
LEMMA InTurnStart ==
  ASSUME Inv, InTurn, StartScan, ~overlooked'
  PROVE  InTurn'
<1> DEFINE t == [pc |-> "new", todo |-> <<>>, stop |-> FALSE, last |-> 0, visit |-> visits]
           n == Len(scans) + 1
<1>1. /\ ~Alive(held) /\ at' = "input" /\ entries = <<>> /\ ~running
      /\ scans' = Append(scans, t) /\ held' = Len(scans')
      /\ UNCHANGED <<entries, running>>
  BY DEF StartScan, NeedsScan, ghosts
<1>2. scans \in Seq(Threads) /\ Len(scans) \in Nat /\ DOMAIN scans = 1..Len(scans)
  BY DEF Inv, ScansTyped
<1>3. /\ held' = n /\ DOMAIN scans' = DOMAIN scans \union {n}
      /\ scans'[n] = t
      /\ \A w \in DOMAIN scans : scans'[w] = scans[w]
  BY <1>1, <1>2
<1>4. t.pc = "new" /\ t.stop = FALSE
  OBVIOUS
<1> HIDE DEF t, n
<1>5. \A w \in DOMAIN scans : scans[w].pc = "ended"
  BY <1>1 DEF InTurn, Alive
<1>6. /\ \A w \in DOMAIN scans' : Alive(w)' => w = n
      /\ Alive(held)' /\ scans'[held'] = t
  BY <1>3, <1>4, <1>5 DEF Alive
<1>7. Filling'
  BY <1>1, <1>4, <1>6 DEF Filling
<1>8. running' = (Alive(held)' /\ scans'[held'].pc # "new")
  BY <1>1, <1>4, <1>6 DEF InTurn
<1> QED
  BY <1>1, <1>3, <1>6, <1>7, <1>8 DEF InTurn

(* B and the end of the program ask the thread to stop and wait for it.     *)
LEMMA InTurnStop ==
  ASSUME Inv, InTurn, Back \/ Quit, ~overlooked'
  PROVE  InTurn'
<1>1. UNCHANGED <<entries, held, running>> /\ at' \in {"clear", "stop", "quit"}
  BY DEF Back, Quit, icons
<1>2. at' = "clear" => ~Alive(held)
  <2> SUFFICES ASSUME at' = "clear" PROVE ~Alive(held)
    OBVIOUS
  <2>1. (NeedsScan /\ ~Alive(held)) \/ held = 0
    BY DEF Back, Quit
  <2> QED
    BY <2>1 DEF Alive, Inv, ScansTyped
<1>3. /\ DOMAIN scans' = DOMAIN scans
      /\ \A w \in DOMAIN scans : scans'[w].pc = scans[w].pc /\ scans'[w].todo = scans[w].todo
      /\ held \in DOMAIN scans /\ scans'[held].stop => scans[held].stop \/ at' \in {"stop", "quit"}
  <2>1. scans' = scans \/ scans' = [scans EXCEPT ![held].stop = TRUE]
    BY DEF Back, Quit
  <2>2. scans \in Seq(Threads)
    BY DEF Inv, ScansTyped
  <2>3. \A w \in DOMAIN scans : scans[w] \in Threads
    BY <2>2
  <2>4. CASE scans' = scans
    BY <2>4
  <2>5. CASE scans' = [scans EXCEPT ![held].stop = TRUE] /\ scans' # scans
    <3>1. at' \in {"stop", "quit"}
      BY <2>5 DEF Back, Quit
    <3> QED
      BY <2>2, <2>3, <2>5, <3>1 DEF Threads
  <2> QED
    BY <2>1, <2>4, <2>5
<1>4. \A w \in DOMAIN scans : Alive(w)' <=> Alive(w)
  BY <1>3 DEF Alive
<1>5. Alive(held)' <=> Alive(held)
  BY <1>1, <1>3 DEF Alive
<1>6. at' \notin {"stop", "quit"} => ~Alive(held)'
  BY <1>1, <1>2, <1>5
<1>7. Filling'
  <2> SUFFICES ASSUME Alive(held)' PROVE Filling'
    BY DEF Filling
  <2>1. Alive(held) /\ held \in DOMAIN scans /\ at' \in {"stop", "quit"}
    BY <1>1, <1>5, <1>6 DEF Alive
  <2>2. scans'[held].pc = scans[held].pc /\ scans'[held].todo = scans[held].todo
    BY <1>3, <2>1
  <2>3. \A t : Rest(t)' <=> Rest(t)
    BY <1>1 DEF Rest
  <2>4. scans[held].stop => scans'[held].stop
    <3>1. scans \in Seq(Threads) /\ scans[held] \in Threads
      BY <2>1 DEF Inv, ScansTyped
    <3> QED
      BY <2>1, <3>1 DEF Back, Quit, Threads
  <2> QED
    BY <1>1, <2>1, <2>2, <2>3, <2>4 DEF InTurn, Filling
<1>8. running' = (Alive(held)' /\ scans'[held'].pc # "new")
  BY <1>1, <1>3, <1>5 DEF InTurn, Alive
<1> QED
  BY <1>1, <1>2, <1>3, <1>4, <1>5, <1>7, <1>8 DEF InTurn

LEMMA InTurnClear ==
  ASSUME Inv, InTurn, Stopped \/ clearaddgamelist \/ FreeTextures
  PROVE  InTurn'
<1>1. scans' = scans /\ held' \in {held, 0} /\ ~Alive(held)
      /\ at' \in {"clear", "icons", "off"}
  BY DEF Stopped, clearaddgamelist, FreeTextures, InTurn
<1>2. \A w \in DOMAIN scans' : ~Alive(w)'
  BY <1>1 DEF InTurn, Alive
<1>3. ~Alive(held)'
  BY <1>1, <1>2 DEF Alive
<1>4. running' = FALSE
  BY <1>1 DEF Stopped, clearaddgamelist, FreeTextures, InTurn
<1>5. at' = "clear" \/ entries' = <<>>
  BY DEF Stopped, clearaddgamelist, FreeTextures
<1> QED
  BY <1>1, <1>2, <1>3, <1>4, <1>5 DEF InTurn, Filling, Whole

(* Y sorts a whole list only.                                               *)
LEMMA InTurnSort ==
  ASSUME Inv, InTurn, SortList
  PROVE  InTurn'
<1>1. /\ UNCHANGED <<scans, held, running>> /\ ~running
      /\ at = "input" /\ at' = "icons" /\ entries # <<>>
  BY DEF SortList, Key, thread
<1>2. ~Alive(held) /\ Complete
  BY <1>1 DEF InTurn, Filling, Whole
<1>3. PICK p \in Bijection(DOMAIN entries, DOMAIN entries) :
        entries' = [i \in DOMAIN entries |-> entries[p[i]]]
  BY DEF SortList
<1>4. /\ \A i \in DOMAIN entries : p[i] \in DOMAIN entries
      /\ \A i \in DOMAIN entries : \E j \in DOMAIN entries : p[j] = i
  BY <1>3 DEF Bijection, Injection, Surjection
<1>5. DOMAIN entries' = DOMAIN entries /\ \A i \in DOMAIN entries : entries'[i] = entries[p[i]]
  BY <1>3
<1>6. Len(entries') = Len(entries)
  BY <1>3, <1>4 DEF Inv, ListTyped
<1>7. Range(GamesOf(entries')) = Range(GamesOf(entries))
  <2>1. Range(GamesOf(entries)) = {entries[i].game : i \in DOMAIN entries}
    BY DEF Range, GamesOf
  <2>2. Range(GamesOf(entries')) = {entries[p[i]].game : i \in DOMAIN entries}
    BY <1>5 DEF Range, GamesOf
  <2>3. ASSUME NEW i \in DOMAIN entries
        PROVE  entries[i].game \in {entries[p[j]].game : j \in DOMAIN entries}
    <3>1. PICK j \in DOMAIN entries : p[j] = i
      BY <1>4, Zenon
    <3> QED
      BY <3>1
  <2> QED
    <3> DEFINE S == {entries[i].game : i \in DOMAIN entries}
               T == {entries[p[i]].game : i \in DOMAIN entries}
    <3>1. S \subseteq T
      BY <2>3
    <3>2. T \subseteq S
      BY <1>4
    <3>3. S = T
      BY <3>1, <3>2
    <3> HIDE DEF S, T
    <3> QED
      BY <2>1, <2>2, <3>3 DEF S, T
<1>8. Whole'
  BY <1>2, <1>6, <1>7 DEF Complete, Whole
<1>9. \A w : Alive(w)' <=> Alive(w)
  BY <1>1 DEF Alive
<1> QED
  BY <1>1, <1>2, <1>8, <1>9 DEF InTurn, Filling

(* Thread w is at p with the games t to list, and nothing else has changed.  *)
Goes(w, p, t) ==
  /\ DOMAIN scans' = DOMAIN scans
  /\ \A v \in DOMAIN scans : v # w => scans'[v] = scans[v]
  /\ scans'[w].pc = p /\ scans'[w].todo = t /\ scans'[w].stop = scans[w].stop

(* The games t follow what will then be listed.                             *)
RestAfter(t) ==
  /\ Len(entries') + Len(t) = Len(AppIds)
  /\ \A i \in 1..Len(entries') : entries'[i].game = AppIds[i]
  /\ \A i \in 1..Len(t) : t[i] = AppIds[Len(entries') + i]

LEMMA ThreadGoes ==
  ASSUME ScansTyped, NEW w \in DOMAIN scans, NEW p, NEW t,
         \/ scans' = [scans EXCEPT ![w].pc = p] /\ t = scans[w].todo
         \/ scans' = [scans EXCEPT ![w].pc = p, ![w].todo = t]
         \/ scans' = [scans EXCEPT ![w].todo = t, ![w].last = nextId, ![w].pc = p]
  PROVE  Goes(w, p, t)
<1>1. scans \in Seq(Threads) /\ scans[w] \in Threads
  BY DEF ScansTyped
<1>2. DOMAIN scans' = DOMAIN scans /\ \A v \in DOMAIN scans : v # w => scans'[v] = scans[v]
  BY <1>1
<1>3. scans'[w].pc = p /\ scans'[w].todo = t /\ scans'[w].stop = scans[w].stop
  BY <1>1, ZenonT(60) DEF Threads
<1> QED
  BY <1>2, <1>3 DEF Goes

(* A thread that goes on alone, whether or not it was asked to stop.        *)
LEMMA InTurnGoes ==
  ASSUME Inv, InTurn, NEW w \in DOMAIN scans, Alive(w), NEW p, NEW t, Goes(w, p, t),
         UNCHANGED <<at, held>>,
         p \notin {"new", "ended"}, running' = TRUE,
         p = "begun" => entries' = <<>>,
         p # "begun" => RestAfter(t),
         p = "flush" => t = <<>> \/ scans[w].stop
  PROVE  InTurn'
<1>1. w = held /\ held' = held
  BY DEF InTurn
<1>2. /\ scans'[held'].pc = p /\ scans'[held'].todo = t /\ scans'[held'].stop = scans[held].stop
      /\ Alive(held)'
  BY <1>1 DEF Goes, Alive
<1>3. \A v \in DOMAIN scans' : Alive(v)' => v = held'
  BY <1>1 DEF InTurn, Goes, Alive
<1>4. Filling'
  <2>1. p # "begun" => Rest(scans[held].todo)'
    BY <1>2 DEF Rest, RestAfter
  <2> QED
    BY <1>1, <1>2, <2>1 DEF Filling, InTurn
<1>5. running' = (Alive(held)' /\ scans'[held'].pc # "new")
  BY <1>2
<1> QED
  BY <1>1, <1>2, <1>3, <1>4, <1>5 DEF InTurn

(* A thread that ends.                                                      *)
LEMMA InTurnEnds ==
  ASSUME Inv, InTurn, NEW w \in DOMAIN scans, Alive(w), Goes(w, "ended", <<>>),
         UNCHANGED <<at, held, entries>>, running' = FALSE,
         at \in {"stop", "quit"} \/ Whole
  PROVE  InTurn'
<1>1. w = held /\ held' = held
  BY DEF InTurn
<1>2. \A v \in DOMAIN scans' : ~Alive(v)'
  BY <1>1 DEF InTurn, Goes, Alive
<1>3. ~Alive(held)'
  BY <1>2 DEF Alive
<1>4. Whole => Whole'
  BY DEF Whole, Complete
<1> QED
  BY <1>1, <1>2, <1>3, <1>4 DEF InTurn, Filling

LEMMA InTurnScan ==
  ASSUME Inv, InTurn, NEW w \in DOMAIN scans, Scan(w)
  PROVE  InTurn'
<1>1. /\ UNCHANGED <<at, held>>
      /\ Alive(w)
  BY DEF Scan, ScanBegin, GetAllApplicationIds, NoServices, ScanNext, ScanAdd,
         ScanSubmit, ScanEnd, ScanFrame, Alive
<1>2. w = held
  BY <1>1 DEF InTurn
<1>3. /\ scans[w].pc \in {"new", "begun"} => entries = <<>>
      /\ scans[w].pc \notin {"new", "begun"} => Rest(scans[w].todo)
      /\ scans[w].pc = "flush" => scans[w].todo = <<>> \/ scans[w].stop
      /\ scans[w].stop => at \in {"stop", "quit"}
      /\ scans[w].pc # "new" => running = TRUE
  BY <1>1, <1>2 DEF InTurn, Filling
<1>4. /\ ScansTyped /\ scans[w] \in Threads /\ scans[w].todo \in Seq(Games)
      /\ scans[w].pc = "read" => scans[w].todo # <<>>
      /\ entries \in Seq(Entry) /\ AppIds \in Seq(Games)
  <2>1. ScansTyped /\ scans \in Seq(Threads) /\ entries \in Seq(Entry)
    BY DEF Inv, ScansTyped, ListTyped
  <2>2. scans[w] \in Threads
    BY <2>1
  <2>3. AppIds \in Seq(Games)
    BY AppIdsAssumption DEF Games
  <2> QED
    BY <2>1, <2>2, <2>3 DEF ScansTyped, Threads
<1>5. CASE ScanBegin(w)
  <2>1. Goes(w, "begun", scans[w].todo) /\ running' = TRUE /\ entries' = <<>>
    BY <1>3, <1>4, <1>5, ThreadGoes DEF ScanBegin
  <2> QED
    BY <1>1, <2>1, InTurnGoes
<1>6. CASE GetAllApplicationIds(w)
  <2>1. Goes(w, "next", AppIds) /\ running' = TRUE /\ entries' = <<>>
    BY <1>3, <1>4, <1>6, ThreadGoes DEF GetAllApplicationIds
  <2>2. RestAfter(AppIds)
    BY <1>4, <2>1 DEF RestAfter
  <2> QED
    BY <1>1, <2>1, <2>2, InTurnGoes
<1>7. CASE NoServices(w)
  <2>1. Goes(w, "ended", <<>>) /\ running' = FALSE /\ entries' = entries
    BY <1>4, <1>7, ThreadGoes DEF NoServices, Ended
  <2>2. Whole
    BY <1>3, <1>7 DEF NoServices, Whole
  <2> QED
    BY <1>1, <2>1, <2>2, InTurnEnds
<1>8. CASE ScanNext(w)
  <2>1. PICK p \in {"flush", "read"} :
          /\ scans' = [scans EXCEPT ![w].pc = p]
          /\ p = "flush" => scans[w].todo = <<>> \/ scans[w].stop
    BY <1>8 DEF ScanNext
  <2>2. Goes(w, p, scans[w].todo)
    BY <1>4, <2>1, ThreadGoes
  <2>3. /\ scans[w].pc = "next" /\ UNCHANGED <<entries, running>>
    BY <1>8 DEF ScanNext
  <2>4. RestAfter(scans[w].todo) /\ running' = TRUE
    BY <1>3, <2>3 DEF Rest, RestAfter
  <2> QED
    BY <1>1, <2>1, <2>2, <2>4, InTurnGoes
<1>9. CASE ScanAdd(w)
  <2> DEFINE todo == scans[w].todo
             e == [game |-> Head(todo), id |-> nextId, image |-> 0]
  <2>1. PICK p \in {"submit", "next"} :
          scans' = [scans EXCEPT ![w].todo = Tail(todo), ![w].last = nextId, ![w].pc = p]
    BY <1>9 DEF ScanAdd
  <2>2. Goes(w, p, Tail(todo))
    BY <1>4, <2>1, ThreadGoes
  <2>3. /\ scans[w].pc = "read" /\ running' = running
        /\ entries' = Append(entries, e)
    BY <1>9 DEF ScanAdd
  <2>4. todo \in Seq(Games) /\ todo # <<>> /\ Rest(todo)
    BY <1>3, <1>4, <2>3
  <2>5. e.game = todo[1]
    BY <2>4
  <2> HIDE DEF e
  <2>6. /\ Len(entries') = Len(entries) + 1 /\ Len(entries) \in Nat
        /\ entries'[Len(entries) + 1] = e
        /\ \A i \in 1..Len(entries) : entries'[i] = entries[i]
    BY <1>4, <2>3
  <2> HIDE DEF todo
  <2>7. /\ Len(Tail(todo)) = Len(todo) - 1 /\ Len(todo) \in Nat \ {0}
        /\ \A i \in 1..Len(Tail(todo)) : Tail(todo)[i] = todo[i + 1]
    BY <2>4
  <2>8. /\ Len(entries) + Len(todo) = Len(AppIds)
        /\ \A i \in 1..Len(entries) : entries[i].game = AppIds[i]
        /\ \A i \in 1..Len(todo) : todo[i] = AppIds[Len(entries) + i]
    BY <2>4 DEF Rest
  <2>9. RestAfter(Tail(todo))
    <3>1. Len(entries') + Len(Tail(todo)) = Len(AppIds)
      BY <2>6, <2>7, <2>8
    <3>2. ASSUME NEW i \in 1..Len(entries')
          PROVE  entries'[i].game = AppIds[i]
      <4>1. CASE i = Len(entries) + 1
        BY <2>5, <2>6, <2>7, <2>8, <4>1
      <4>2. CASE i # Len(entries) + 1
        BY <2>6, <2>8, <4>2
      <4> QED
        BY <4>1, <4>2
    <3>3. ASSUME NEW i \in 1..Len(Tail(todo))
          PROVE  Tail(todo)[i] = AppIds[Len(entries') + i]
      <4>1. i + 1 \in 1..Len(todo) /\ Tail(todo)[i] = todo[i + 1]
        BY <2>7
      <4>2. todo[i + 1] = AppIds[Len(entries) + (i + 1)]
        BY <2>8, <4>1
      <4>3. Len(entries) + (i + 1) = Len(entries') + i
        BY <2>6, <2>7
      <4> QED
        BY <4>1, <4>2, <4>3
    <3> QED
      BY <3>1, <3>2, <3>3 DEF RestAfter
  <2>10. running' = TRUE
    BY <1>3, <2>3
  <2> QED
    BY <1>1, <2>2, <2>9, <2>10, InTurnGoes
<1>10. CASE ScanSubmit(w)
  <2>1. /\ Goes(w, "next", scans[w].todo) /\ UNCHANGED <<entries, running>>
        /\ scans[w].pc = "submit"
    BY <1>4, <1>10, ThreadGoes DEF ScanSubmit
  <2>2. RestAfter(scans[w].todo) /\ running' = TRUE
    BY <1>3, <2>1 DEF Rest, RestAfter
  <2> QED
    BY <1>1, <2>1, <2>2, InTurnGoes
<1>11. CASE ScanEnd(w)
  <2>1. /\ Goes(w, "ended", <<>>) /\ running' = FALSE /\ entries' = entries
        /\ scans[w].pc = "flush"
    BY <1>4, <1>11, ThreadGoes DEF ScanEnd, Ended
  <2>2. at \in {"stop", "quit"} \/ Whole
    BY <1>3, <2>1, RestWhole
  <2> QED
    BY <1>1, <2>1, <2>2, InTurnEnds
<1> QED
  BY <1>5, <1>6, <1>7, <1>8, <1>9, <1>10, <1>11 DEF Scan

LEMMA OneScanNext == Inv /\ OneScan /\ [Next]_vars => OneScan'
<1> SUFFICES ASSUME Inv, InTurn, [Next]_vars, ~overlooked' PROVE InTurn'
  <2>1. ASSUME [Next]_vars, ~overlooked'
        PROVE  ~overlooked
    BY <2>1 DEF Next, FrameLoop, Quit, LoadIcon, LoadsDone, KeepDialog, CloseDialog, AddGame,
         OpenAddGame, StayInList, NoScanNeeded, Joined, NoKey, Stopped, Back, StartScan,
         clearaddgamelist, SortList, SelectFound, Move, OpenDialog, FreeTextures,
         LoadAddGameVisibleAreaIcons, SkipIcons, Key, vars, ghosts, Scan, ScanBegin,
         GetAllApplicationIds, NoServices, ScanNext, ScanAdd, ScanSubmit, ScanEnd, ScanFrame
  <2> QED
    BY <2>1 DEF OneScan
<1>1. CASE UNCHANGED vars
  <2>1. UNCHANGED <<at, entries, scans, held, running>>
    BY <1>1 DEF vars, thread
  <2> QED
    BY <2>1 DEF InTurn, Filling, Whole, Complete, Rest, Alive
<1>2. CASE Next
  BY <1>2, InTurnCalm, InTurnStart, InTurnStop, InTurnClear, InTurnSort, InTurnScan
     DEF Next, FrameLoop
<1> QED
  BY <1>1, <1>2

(* A list that can be sorted has every game of the console once: no scan    *)
(* that was stopped or that failed left its part behind.                    *)
THEOREM ListIsComplete == Spec => []ListComplete
<1>1. Inv /\ OneScan => ListComplete
  <2> SUFFICES ASSUME Inv, InTurn, at = "input", ~running, entries # <<>>
               PROVE  Complete
    BY DEF OneScan, ListComplete, Complete
  <2>1. ~Alive(held)
    BY DEF InTurn, Filling
  <2> QED
    BY <2>1 DEF InTurn, Whole
<1> QED
  BY <1>1, InTurnInit, OneScanNext, InvKept, PTL DEF Spec

=============================================================================
