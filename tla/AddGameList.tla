---------------------------- MODULE AddGameList ----------------------------
(***************************************************************************)
(* The list of the console's games, from which one is added (menu          *)
(* ADDGAMELIST).  On entry a thread scans the console's titles             *)
(* (FastScanAllGames) and appends them to entries_AddGame, while the frame *)
(* loop moves the cursor, sorts, opens dialogs over the list and turns     *)
(* cached icons into textures, a few per frame, through the queue of       *)
(* ResourceLoadManager.  B stops the scan and clears the list.             *)
(* The queue's lock and the icons of the main list are left out.           *)
(***************************************************************************)
EXTENDS AddGrid, Sequences, SequencesExt

CONSTANTS
  AppIds,         \* the console's games, in the order GetAllApplicationIds finds
  WithIcon,       \* those whose metadata hold an icon that decodes
  SortKey,        \* a game's place in the alphabet
  Textures,       \* what nvgCreateImageMem may return
  Preload,        \* PRELOAD_BUFFER
  Batch,          \* BATCH_SIZE
  LoadsPerFrame,  \* MAX_ICON_LOADS_PER_FRAME
  Overlap,        \* whether a scan may start while another is on its way
  Faults,         \* "services": the scan may fail to start
  MaxVisits, MaxScans, MaxTasks   \* bounds: visits, scans, tasks the user piles up

ASSUME AppIdsAssumption == AppIds \in Seq(Range(AppIds)) /\ IsInjective(AppIds)
ASSUME TexturesAssumption == 0 \notin Textures
ASSUME AddGameBounds ==
  /\ {Preload, Batch, MaxVisits, MaxScans, MaxTasks} \subseteq Nat
  /\ LoadsPerFrame \in Nat \ {0} /\ Overlap \in BOOLEAN

VARIABLES
  menu,      \* "list", "addgame"
  at,        \* where in a frame the frame loop is
  loads,     \* icon_loads_this_frame
  dialog,    \* "none", "pick", "search", "progress"
  shown,     \* the games of the list when the open dialog was shown
  index,     \* index_AddGame, from 0
  sortType,  \* sort_type_AddGame
  loaded,    \* last_addgame_loaded_range, <<>> for {SIZE_MAX, SIZE_MAX}
  entries,   \* entries_AddGame: game, unique_id, and image (0 for the default)
  textures,  \* textures that exist
  nextId,    \* unique_id
  urgent, preload,   \* pending_tasks of priority 0 and 1, oldest first
  scans,     \* every thread ever assigned to async_thread, in order
  held,      \* the one async_thread holds, 0 when it is not valid
  running,   \* addgame_scan_running
  visits,
  overlooked \* UpdateAddGameList took a scan on its way for none (ghost)

list   == <<index, sortType, loaded>>
icons  == <<loads, textures, urgent, preload>>
thread == <<scans, held, running, nextId>>
ghosts == <<visits, overlooked>>
vars   == <<menu, at, dialog, shown, list, entries, icons, thread, ghosts>>

Games       == Range(AppIds)
GamesOf(es) == [i \in DOMAIN es |-> es[i].game]
Imaged(es)  == {es[i].image : i \in DOMAIN es} \ {0}
Alive(w)    == w \in DOMAIN scans /\ scans[w].pc # "ended"

Init ==
  /\ menu = "list" /\ at = "frame" /\ dialog = "none" /\ shown = <<>>
  /\ index = 0 /\ sortType = 0 /\ loaded = <<>> /\ entries = <<>>
  /\ loads = 0 /\ textures = {} /\ urgent = <<>> /\ preload = <<>>
  /\ scans = <<>> /\ held = 0 /\ running = FALSE /\ nextId = 1
  /\ visits = 0 /\ overlooked = FALSE

-----------------------------------------------------------------------------
(* FastScanAllGames, on thread w *)

ScanFrame == UNCHANGED <<menu, at, dialog, shown, list, loads, textures,
                         preload, held, ghosts>>
Ended(w) == [scans EXCEPT ![w].pc = "ended", ![w].todo = <<>>]

ScanBegin(w) ==
  /\ scans[w].pc = "new"
  /\ scans' = [scans EXCEPT ![w].pc = "begun"]
  /\ running' = TRUE
  /\ ScanFrame /\ UNCHANGED <<entries, urgent, nextId>>

GetAllApplicationIds(w) ==
  /\ scans[w].pc = "begun"
  /\ scans' = [scans EXCEPT ![w].pc = "next", ![w].todo = AppIds]
  /\ ScanFrame /\ UNCHANGED <<entries, urgent, running, nextId>>

NoServices(w) ==
  /\ scans[w].pc = "begun" /\ "services" \in Faults /\ Len(scans) < MaxScans
  /\ scans' = Ended(w) /\ running' = FALSE
  /\ ScanFrame /\ UNCHANGED <<entries, urgent, nextId>>

ScanNext(w) ==
  /\ scans[w].pc = "next"
  /\ scans' = [scans EXCEPT ![w].pc =
                 IF scans[w].todo = <<>> \/ scans[w].stop THEN "flush" ELSE "read"]
  /\ ScanFrame /\ UNCHANGED <<entries, urgent, running, nextId>>

ScanAdd(w) ==
  LET g     == Head(scans[w].todo)
      first == Len(AppIds) - Len(scans[w].todo) < Batch
  IN  /\ scans[w].pc = "read"
      /\ entries' = Append(entries, [game |-> g, id |-> nextId, image |-> 0])
      /\ nextId' = nextId + 1
      /\ scans' = [scans EXCEPT ![w].todo = Tail(@), ![w].last = nextId,
                     ![w].pc = IF first /\ g \in WithIcon THEN "submit" ELSE "next"]
      /\ ScanFrame /\ UNCHANGED <<urgent, running>>

ScanSubmitWhenEmpty(w) ==
  /\ scans[w].pc = "submit" /\ urgent = <<>>
  /\ urgent' = Append(urgent, scans[w].last)
  /\ scans' = [scans EXCEPT ![w].pc = "next"]
  /\ ScanFrame /\ UNCHANGED <<entries, running, nextId>>
ScanSubmit(w) ==
  /\ scans[w].pc = "submit"
  /\ urgent' = Append(urgent, scans[w].last)
  /\ scans' = [scans EXCEPT ![w].pc = "next"]
  /\ ScanFrame /\ UNCHANGED <<entries, running, nextId>>

ScanEndSorted(w) ==
  /\ scans[w].pc = "flush"
  /\ entries' = SortSeq(entries, LAMBDA a, b : SortKey[a.game] < SortKey[b.game])
  /\ scans' = Ended(w) /\ running' = FALSE
  /\ ScanFrame /\ UNCHANGED <<urgent, nextId>>
ScanEnd(w) ==
  /\ scans[w].pc = "flush"
  /\ scans' = Ended(w) /\ running' = FALSE
  /\ ScanFrame /\ UNCHANGED <<entries, urgent, nextId>>

Scan(w) ==
  \/ ScanBegin(w) \/ GetAllApplicationIds(w) \/ NoServices(w) \/ ScanNext(w)
  \/ ScanAdd(w) \/ ScanSubmit(w) \/ ScanEnd(w)

-----------------------------------------------------------------------------
(* The frame loop: processFrameLoads, in every menu *)

(* The callback of a task: the entry with this id, if the list still has it, *)
(* gets a texture of its own and loses the one it had.                       *)
LoadedKeeping(id) ==
  LET new == CHOOSE t \in Textures : t \notin textures
      i   == CHOOSE j \in DOMAIN entries : entries[j].id = id
  IN  IF /\ Textures \ textures # {}
         /\ \E j \in DOMAIN entries : entries[j].id = id /\ entries[j].game \in WithIcon
        THEN /\ entries' = [entries EXCEPT ![i].image = new]
             /\ textures' = textures \union {new}
        ELSE UNCHANGED <<entries, textures>>
Loaded(id) ==
  LET new == CHOOSE t \in Textures : t \notin textures
      i   == CHOOSE j \in DOMAIN entries : entries[j].id = id
  IN  IF /\ Textures \ textures # {}
         /\ \E j \in DOMAIN entries : entries[j].id = id /\ entries[j].game \in WithIcon
        THEN /\ entries' = [entries EXCEPT ![i].image = new]
             /\ textures' = (textures \union {new}) \ {entries[i].image}
        ELSE UNCHANGED <<entries, textures>>

LoadIcon ==
  /\ at = "frame" /\ loads < LoadsPerFrame
  /\ \/ urgent # <<>> /\ Loaded(Head(urgent))
        /\ urgent' = Tail(urgent) /\ UNCHANGED preload
     \/ urgent = <<>> /\ preload # <<>> /\ Loaded(Head(preload))
        /\ preload' = Tail(preload) /\ UNCHANGED urgent
  /\ loads' = loads + 1
  /\ UNCHANGED <<menu, at, dialog, shown, list, thread, ghosts>>

LoadsDone ==
  /\ at = "frame"
  /\ loads = LoadsPerFrame \/ (urgent = <<>> /\ preload = <<>>)
  /\ at' = IF dialog = "none" THEN "update" ELSE "dialog"
  /\ loads' = 0
  /\ UNCHANGED <<menu, dialog, shown, list, entries, textures, urgent,
                 preload, thread, ghosts>>

-----------------------------------------------------------------------------
(* Dialogs over the list, and the menu the list is opened from *)

Calm == UNCHANGED <<loads, textures, urgent, preload, thread>>

KeepDialog ==
  /\ at = "dialog" /\ at' = "frame"
  /\ Calm /\ UNCHANGED <<menu, dialog, shown, list, entries, ghosts>>

CloseDialog ==
  /\ at = "dialog" /\ at' = "frame"
  /\ dialog' = "none" /\ shown' = <<>>
  /\ Calm /\ UNCHANGED <<menu, list, entries, ghosts>>

(* Dialog_ADDGAME_Menu takes the game from entries_AddGame[index_AddGame].   *)
AddGame ==
  /\ at = "dialog" /\ at' = "frame"
  /\ dialog = "pick" /\ dialog' = "progress" /\ shown' = <<>>
  /\ Calm /\ UNCHANGED <<menu, list, entries, ghosts>>

SelectFound ==
  /\ at = "dialog" /\ at' = "frame"
  /\ dialog = "search" /\ dialog' = "none"
  /\ index' \in {i - 1 : i \in DOMAIN shown} /\ shown' = <<>>
  /\ Calm /\ UNCHANGED <<menu, sortType, loaded, entries, ghosts>>

OpenAddGame ==
  /\ at = "update" /\ at' = "frame"
  /\ menu = "list" /\ visits < MaxVisits
  /\ menu' = "addgame" /\ visits' = visits + 1
  /\ Calm /\ UNCHANGED <<dialog, shown, list, entries, overlooked>>

StayInList ==
  /\ at = "update" /\ at' = "frame" /\ menu = "list"
  /\ Calm /\ UNCHANGED <<menu, dialog, shown, list, entries, ghosts>>

-----------------------------------------------------------------------------
(* UpdateAddGameList *)

NeedsScan == entries = <<>> /\ ~running

(* Assigning to async_thread starts the new thread and then waits for the    *)
(* one it held.                                                              *)
StartScan ==
  /\ at = "update" /\ menu = "addgame" /\ NeedsScan /\ Len(scans) < MaxScans
  /\ Overlap \/ ~Alive(held)
  /\ scans' = Append(scans,
       [pc |-> "new", todo |-> <<>>, stop |-> FALSE, last |-> 0, visit |-> visits])
  /\ held' = Len(scans')
  /\ at' = IF Alive(held) THEN "join" ELSE "input"
  /\ overlooked' = (overlooked \/ Alive(held))
  /\ UNCHANGED <<menu, dialog, shown, list, entries, icons, running, nextId, visits>>

NoScanNeeded ==
  /\ at = "update" /\ menu = "addgame" /\ ~NeedsScan /\ at' = "input"
  /\ Calm /\ UNCHANGED <<menu, dialog, shown, list, entries, ghosts>>

Joined ==
  /\ at = "join" /\ ~Alive(held - 1) /\ at' = "input"
  /\ Calm /\ UNCHANGED <<menu, dialog, shown, list, entries, ghosts>>

NoKey ==
  /\ at = "input" /\ at' = "icons"
  /\ Calm /\ UNCHANGED <<menu, dialog, shown, list, entries, ghosts>>

(* B.  While nothing is listed and no scan has begun none is stopped.        *)
Back ==
  /\ at = "input"
  /\ IF NeedsScan \/ held = 0
       THEN at' = "clear" /\ UNCHANGED scans
       ELSE at' = "stop" /\ scans' = [scans EXCEPT ![held].stop = TRUE]
  /\ sortType' = IF NeedsScan THEN sortType ELSE 0
  /\ overlooked' = (overlooked \/ (NeedsScan /\ Alive(held)))
  /\ UNCHANGED <<menu, dialog, shown, index, loaded, entries, icons, held,
                 running, nextId, visits>>

StoppedAtOnce ==
  /\ at = "stop" /\ at' = "clear" /\ held' = 0
  /\ UNCHANGED <<menu, dialog, shown, list, entries, icons, scans, running,
                 nextId, ghosts>>
Stopped ==
  /\ at = "stop" /\ ~Alive(held) /\ at' = "clear" /\ held' = 0
  /\ UNCHANGED <<menu, dialog, shown, list, entries, icons, scans, running,
                 nextId, ghosts>>

ClearKeepsRange ==
  /\ at = "clear" /\ at' = "icons" /\ menu' = "list"
  /\ textures' = textures \ Imaged(entries) /\ entries' = <<>>
  /\ running' = FALSE /\ index' = 0
  /\ UNCHANGED <<dialog, shown, sortType, loaded, loads, urgent, preload,
                 scans, held, nextId, ghosts>>
clearaddgamelist ==
  /\ at = "clear" /\ at' = "icons" /\ menu' = "list"
  /\ textures' = textures \ Imaged(entries) /\ entries' = <<>>
  /\ running' = FALSE /\ index' = 0 /\ loaded' = <<>>
  /\ UNCHANGED <<dialog, shown, sortType, loads, urgent, preload, scans, held,
                 nextId, ghosts>>

(* The other keys need a list. *)
Key ==
  /\ at = "input" /\ at' = "icons" /\ entries # <<>>
  /\ Len(urgent) + Len(preload) <= MaxTasks
  /\ UNCHANGED <<menu, loads, textures, urgent, preload, thread, ghosts>>

Move ==
  /\ Key
  /\ index' \in Moves(index, Len(entries))
  /\ UNCHANGED <<dialog, shown, sortType, loaded, entries>>

Sorted(es, way) ==
  \A i, j \in DOMAIN es : i < j =>
    IF way = 1 THEN SortKey[es[i].game] <= SortKey[es[j].game]
               ELSE SortKey[es[i].game] >= SortKey[es[j].game]

(* Y.  Sort2 leaves games of one initial in any order. *)
SortList ==
  /\ Key /\ ~running
  /\ sortType' = 1 - sortType
  /\ \E p \in Bijection(DOMAIN entries, DOMAIN entries) :
       /\ entries' = [i \in DOMAIN entries |-> entries[p[i]]]
       /\ Sorted(entries', sortType')
  /\ loaded' = <<>> /\ index' = 0
  /\ UNCHANGED <<dialog, shown>>

OpenDialog ==
  /\ Key
  /\ dialog' \in {"pick", "search"} /\ shown' = GamesOf(entries)
  /\ UNCHANGED <<list, entries>>

-----------------------------------------------------------------------------
(* LoadAddGameVisibleAreaIcons, after every UpdateAddGameList *)

Visible(i) == PageStart(index) < i /\ i <= PageStart(index) + Page

LoadVisible ==
  LET end     == Min({PageStart(index) + Page, Len(entries)})
      range   == <<PageStart(index), end>>
      Missing(i) == entries[i].image = 0 /\ entries[i].game \in WithIcon
      Ids(S)  == LET in == SelectSeq([i \in DOMAIN entries |-> i],
                                     LAMBDA i : i \in S /\ Missing(i))
                 IN  [k \in DOMAIN in |-> entries[in[k]].id]
  IN  IF range = loaded
        THEN UNCHANGED <<loaded, urgent, preload>>
        ELSE /\ loaded' = range
             /\ urgent'  = urgent \o Ids(PageStart(index) + 1 .. end)
             /\ preload' = preload \o Ids(end + 1 .. end + Preload)

LoadAddGameVisibleAreaIcons ==
  /\ at = "icons" /\ at' = "frame" /\ entries # <<>>
  /\ LoadVisible
  /\ UNCHANGED <<menu, dialog, shown, index, sortType, entries, loads,
                 textures, thread, ghosts>>

(* It returns at once on an empty list and within 100 ms of its last turn. *)
SkipIcons ==
  /\ at = "icons" /\ at' = "frame"
  /\ Calm /\ UNCHANGED <<menu, dialog, shown, list, entries, ghosts>>

-----------------------------------------------------------------------------
(* ~App: the applet may stop before any frame. *)

Quit ==
  /\ at = "frame" /\ loads = 0 /\ at' = "quit"
  /\ scans' = IF held = 0 THEN scans ELSE [scans EXCEPT ![held].stop = TRUE]
  /\ UNCHANGED <<menu, dialog, shown, list, entries, icons, held, running,
                 nextId, ghosts>>

FreeTextures ==
  /\ at = "quit" /\ ~Alive(held) /\ at' = "off" /\ held' = 0
  /\ textures' = textures \ Imaged(entries) /\ entries' = <<>>
  /\ index' = 0 /\ shown' = <<>> /\ urgent' = <<>> /\ preload' = <<>>
  /\ UNCHANGED <<menu, dialog, sortType, loaded, loads, scans, running, nextId,
                 ghosts>>

-----------------------------------------------------------------------------
FrameLoop ==
  \/ LoadIcon \/ LoadsDone \/ KeepDialog \/ CloseDialog \/ AddGame \/ SelectFound
  \/ OpenAddGame \/ StayInList \/ StartScan \/ NoScanNeeded \/ Joined
  \/ NoKey \/ Back \/ Stopped \/ clearaddgamelist \/ Move \/ SortList
  \/ OpenDialog \/ LoadAddGameVisibleAreaIcons \/ SkipIcons \/ FreeTextures

Next == FrameLoop \/ Quit \/ \E w \in DOMAIN scans : Scan(w)

Spec == Init /\ [][Next]_vars

(* The frame loop and the threads keep running, and a frame comes in which   *)
(* the 100 ms are over.                                                      *)
FairSpec ==
  /\ Spec /\ WF_vars(FrameLoop)
  /\ \A w \in 1..MaxScans : WF_vars(w \in DOMAIN scans /\ Scan(w))
  /\ SF_vars(LoadAddGameVisibleAreaIcons)
-----------------------------------------------------------------------------
(* The cursor never leaves the list, though the list is filled by a thread,  *)
(* sorted, searched and cleared: entries_AddGame[index_AddGame] is read      *)
(* without a check by Dialog_ADDGAME_Menu.                                   *)
CursorInList == index < Len(entries) \/ (entries = <<>> /\ index = 0)

(* A list without a scan on its way, as sorting demands, has every game of   *)
(* the console once: no stopped or failed scan left its part behind.  It     *)
(* needs that no scan was taken for none before it raised its flag.          *)
ListComplete ==
  ~overlooked /\ at = "input" /\ ~running /\ entries # <<>> =>
    Len(entries) = Len(AppIds) /\ Range(GamesOf(entries)) = Games

(* Each texture belongs to one entry, however often and late its icon was    *)
(* asked for: none is lost when a list is sorted, cleared or scanned again,  *)
(* and none is left when the program ends.                                   *)
TexturesOwned ==
  /\ textures = Imaged(entries)
  /\ \A i, j \in DOMAIN entries :
       entries[i].image = entries[j].image /\ i # j => entries[i].image = 0

(* Positions in the list a dialog was opened with name the same games until  *)
(* it closes, while the scan goes on: the game found is the game selected,   *)
(* the game mods were picked for is the game they are added to.              *)
DialogShowsList == dialog # "none" => IsPrefix(shown, GamesOf(entries))

(* A visible game with an icon gets it, unless the user turns the page,      *)
(* opens a dialog or leaves, however few textures a frame makes and whatever *)
(* was queued before.                                                        *)
Looking(g, image) ==
  /\ menu = "addgame" /\ dialog = "none" /\ at \notin {"stop", "clear", "quit", "off"}
  /\ \E i \in DOMAIN entries :
       entries[i].game = g /\ Visible(i) /\ image = (entries[i].image # 0)
IconsArrive == \A g \in WithIcon : Looking(g, FALSE) ~> ~Looking(g, FALSE)

(* B, leaving the program and starting a scan wait for a thread inside a     *)
(* frame: the wait ends, since no thread needs the frame loop.               *)
LoopReleased == at \in {"join", "stop", "quit"} ~> at \notin {"join", "stop", "quit"}
=============================================================================
