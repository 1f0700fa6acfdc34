------------------------------ MODULE AppTasks ------------------------------
(***************************************************************************)
(* The dialogs of App and the two futures behind them: copy_task, which    *)
(* installs or uninstalls one mod, and add_task, which files archives of   *)
(* the drop folder as mods of a game.  The frame loop (App::Update) runs   *)
(* one handler per frame; a dialog that is shown takes the frame.  The     *)
(* workers of the futures run beside it and write mod_info, entries and    *)
(* index.  What an installation does to the card is the matter of          *)
(* ModManager: here it is one step with a result.                          *)
(***************************************************************************)
EXTENDS Integers, Sequences, SequencesExt

CONSTANTS
  Games,       \* games whose directory is on the card when App starts
  NewGames,    \* games of the console that are not
  Names,       \* names of mods and of archives
  Zips,        \* archives in /mods2/0000-add-mod-0000
  FirstMods,   \* <<game, name>> of the mods on the card
  CancelAdds,  \* whether the user presses B while archives are added
  Faults,      \* what may fail: "copy" the installers, "add" mkdir and rename
  MaxAdds, MaxCopies, MaxTasks  \* bounds on the tasks one session starts

ASSUME FirstModsAssumption == FirstMods \subseteq Games \X Names
ASSUME ZipsAssumption == Zips \subseteq Names
ASSUME FiniteAssumption == IsFiniteSet(Games) /\ IsFiniteSet(FirstMods) /\ IsFiniteSet(Zips)
ASSUME BoundsAssumption == {MaxAdds, MaxCopies, MaxTasks} \subseteq Nat

VARIABLES
  menu,         \* menu_mode
  index,        \* entries[index] is the game the lists are about
  listOf,       \* the game FastScanModInfo last read (ghost)
  modInfo,      \* mod_info: [game, name, on], the directory and MOD_STATE
  modIndex,     \* mod_index
  dialog,       \* "none", "ask" and "tell" (CONFIRM), "pick", "progress"
  ask,          \* what newdialog_callback starts
  offered,      \* the archives appendmodscan listed in the open dialog
  uninstalling, \* mod_uninstalling
  cleaning,     \* clean_button
  copy,         \* copy_task: its number, future, stop_source and mod
  adds,         \* every worker ever assigned to add_task, in order
  addTask,      \* the worker add_task holds, 0 when it is not valid
  entries,      \* entries: the games of the list
  gameDirs,     \* directories of games under /mods2
  dirs,         \* <<game, name>>: directories of mods without a '$'
  marked,       \* <<game, name>>: those whose name ends in '$'
  inbox         \* files of the drop folder

screen == <<menu, index, listOf, modIndex>>
card   == <<gameDirs, dirs, marked, inbox>>
vars   == <<screen, modInfo, dialog, ask, offered, uninstalling,
            cleaning, copy, adds, addTask, entries, card>>

AllGames == Games \union NewGames
Ops      == {"install", "uninstall"}
NoCopy   == [n |-> 0, valid |-> FALSE, op |-> "install", mod |-> "none",
             pc |-> "ended", stop |-> FALSE, result |-> FALSE]

Entry(d, on) == [game |-> d[1], name |-> d[2], on |-> on]
Listing(g) == {e \in {Entry(d, FALSE) : d \in dirs} \union {Entry(d, TRUE) : d \in marked} : e.game = g}

Init ==
  /\ menu = "list" /\ index = 1 /\ modIndex = 1
  /\ entries = SetToSeq(Games) /\ listOf = "none" /\ modInfo = <<>>
  /\ dialog = "none" /\ ask = "none" /\ offered = {}
  /\ uninstalling = FALSE /\ cleaning = FALSE /\ copy = NoCopy
  /\ adds = <<>> /\ addTask = 0
  /\ gameDirs = Games /\ inbox = Zips
  /\ marked \in SUBSET FirstMods /\ dirs = FirstMods \ marked

-----------------------------------------------------------------------------
(* The menus.  Assigning to add_task releases the future it held, and a     *)
(* std::async future joins its thread: until then the frame loop stands.    *)

Running(w) == adds[w].pc # "ended"
Blocked    == \E w \in DOMAIN adds : w # Len(adds) /\ Running(w)

MenuActiveAlways == ~Blocked
MenuActive       == ~Blocked /\ dialog = "none"

OpenGameKeepsIndex == \E i \in DOMAIN entries :
  /\ MenuActive /\ menu = "list"
  /\ menu' = "modlist" /\ index' = i /\ listOf' = entries[i]
  /\ modInfo' = SetToSeq(Listing(entries[i])) /\ UNCHANGED modIndex
  /\ UNCHANGED <<dialog, ask, offered, uninstalling, cleaning, copy,
                 adds, addTask, entries, card>>
OpenGame == \E i \in DOMAIN entries :
  /\ MenuActive /\ menu = "list"
  /\ menu' = "modlist" /\ index' = i /\ listOf' = entries[i]
  /\ modInfo' = SetToSeq(Listing(entries[i])) /\ modIndex' = 1
  /\ UNCHANGED <<dialog, ask, offered, uninstalling, cleaning, copy,
                 adds, addTask, entries, card>>

ChangeMenu ==
  /\ MenuActive
  /\ \/ menu = "list" /\ menu' = "addgame"
     \/ menu # "list" /\ menu' = "list"
  /\ UNCHANGED <<index, listOf, modIndex, modInfo, dialog, ask, offered, uninstalling, cleaning, copy, adds, addTask, entries, card>>

MoveCursor ==
  /\ MenuActive /\ menu = "modlist"
  /\ modIndex' \in DOMAIN modInfo \ {modIndex}
  /\ UNCHANGED <<menu, index, listOf, modInfo, dialog, ask, offered, uninstalling, cleaning, copy, adds, addTask, entries, card>>

(* A asks to install or uninstall the mod, Y to clean it whatever its state. *)
AskCopy ==
  /\ MenuActive /\ menu = "modlist" /\ modInfo # <<>>
  /\ cleaning' \in {cleaning, TRUE}
  /\ ask' = IF cleaning' \/ modInfo[modIndex].on THEN "uninstall" ELSE "install"
  /\ dialog' = "ask"
  /\ UNCHANGED <<screen, modInfo, offered, uninstalling, copy, adds,
                 addTask, entries, card>>

AskAdd ==
  /\ MenuActive /\ menu # "list"
  /\ menu = "modlist" => modInfo # <<>>
  /\ dialog' = "pick" /\ offered' = inbox
  /\ UNCHANGED <<screen, modInfo, ask, uninstalling, cleaning, copy,
                 adds, addTask, entries, card>>

-----------------------------------------------------------------------------
(* The dialogs *)

Dismiss ==
  /\ ~Blocked
  /\ dialog \in {"tell", "pick"} /\ dialog' = "none"
  /\ offered' = {}
  /\ UNCHANGED <<screen, modInfo, ask, uninstalling, cleaning,
                 copy, adds, addTask, entries, card>>

Refuse ==
  /\ ~Blocked
  /\ dialog = "ask" /\ dialog' = "none" /\ cleaning' = FALSE
  /\ ask' = "none"
  /\ UNCHANGED <<screen, modInfo, offered, uninstalling, copy,
                 adds, addTask, entries, card>>

(* ModInstalled and ModUninstalled *)
StillCopyingIgnored == FALSE
StillCopying == copy.valid /\ copy.pc = "running"

MoreTasks == copy.n + Len(adds) < MaxTasks

StartCopy ==
  /\ ~Blocked
  /\ dialog = "ask" /\ ~StillCopying /\ copy.n < MaxCopies /\ MoreTasks
  /\ dialog' = "progress"
  /\ uninstalling' = (uninstalling \/ ask = "uninstall")
  /\ copy' = [n |-> copy.n + 1, valid |-> TRUE, op |-> ask,
              mod |-> <<modInfo[modIndex].game, modInfo[modIndex].name>>,
              pc |-> "running", stop |-> FALSE, result |-> FALSE]
  /\ ask' = "none"
  /\ UNCHANGED <<screen, modInfo, offered, cleaning, adds, addTask,
                 entries, card>>

NotReady ==
  /\ ~Blocked
  /\ dialog = "ask" /\ StillCopying
  /\ dialog' = "tell"
  /\ ask' = "none"
  /\ UNCHANGED <<screen, modInfo, offered, uninstalling, cleaning, copy,
                 adds, addTask, entries, card>>

(* Dialog_APPENDMOD_Menu adds to the game of entries[index],                *)
(* Dialog_ADDGAME_Menu to a game of the console's list.                     *)
StartAdd == \E S \in SUBSET offered \ {{}}, g \in AllGames :
  /\ ~Blocked
  /\ dialog = "pick" /\ Len(adds) < MaxAdds /\ MoreTasks
  /\ menu = "modlist" => g = entries[index]
  /\ adds' = Append(adds, [new |-> menu = "addgame", game |-> g,
                           todo |-> SetToSeq(S), pc |-> "start", stop |-> FALSE])
  /\ addTask' = Len(adds')
  /\ dialog' = "progress" /\ offered' = {}
  /\ UNCHANGED <<screen, modInfo, ask, uninstalling, cleaning,
                 copy, entries, card>>

(* newUpdateDialogCopyProgress, B pressed.  B does nothing else while the    *)
(* dialog of an uninstallation is shown.                                    *)
MayStopCopyAlways == copy.valid
MayStopCopy == ~uninstalling /\ copy.valid

StopCopyHides ==
  /\ ~Blocked
  /\ dialog = "progress" /\ MayStopCopy
  /\ copy' = [copy EXCEPT !.stop = TRUE]
  /\ dialog' = "tell"
  /\ UNCHANGED <<screen, modInfo, ask, offered, uninstalling, cleaning, adds,
                 addTask, entries, card>>
StopCopy ==
  /\ ~Blocked
  /\ dialog = "progress" /\ MayStopCopy
  /\ copy' = [copy EXCEPT !.stop = TRUE]
  /\ UNCHANGED <<screen, modInfo, dialog, ask, offered, uninstalling,
                 cleaning, adds, addTask, entries, card>>

LeaveAdd ==
  /\ CancelAdds
  /\ ~Blocked
  /\ dialog = "progress" /\ ~MayStopCopy /\ addTask # 0
  /\ adds' = [adds EXCEPT ![addTask].stop = TRUE]
  /\ dialog' = "tell"
  /\ UNCHANGED <<screen, modInfo, ask, offered, uninstalling, cleaning, copy,
                 addTask, entries, card>>

(* Reading mod_info[mod_index] of an empty list yields anything.            *)
Selected == IF modIndex \in DOMAIN modInfo
            THEN {modInfo[modIndex]}
            ELSE [game : {"none"}, name : {"none"}, on : BOOLEAN]

(* The rename fails when MOD_PATH is not on the card or its new name is.    *)
Renamed(e) ==
  LET d == <<e.game, e.name>>
  IN  IF e.on
      THEN d \in marked \ dirs /\ marked' = marked \ {d} /\ dirs' = dirs \union {d}
      ELSE d \in dirs \ marked /\ dirs' = dirs \ {d} /\ marked' = marked \union {d}
NotRenamed(e) ==
  <<e.game, e.name>> \notin (IF e.on THEN marked \ dirs ELSE dirs \ marked)

(* Mutations of ChangeModName: the name or the list alone is changed. *)
ChangeModNameUnlisted(e) ==
  \/ Renamed(e) /\ UNCHANGED modInfo
  \/ NotRenamed(e) /\ UNCHANGED <<dirs, marked, modInfo>>
ChangeModNameListed(e) ==
  /\ modInfo' = [k \in DOMAIN modInfo |->
                   IF k = modIndex THEN [modInfo[k] EXCEPT !.on = ~e.on] ELSE modInfo[k]]
  /\ UNCHANGED <<dirs, marked>>
ChangeModName(e) ==
  \/ Renamed(e) /\ modInfo' = [modInfo EXCEPT ![modIndex].on = ~e.on]
  \/ NotRenamed(e) /\ UNCHANGED <<dirs, marked, modInfo>>

CopyReady == copy.valid /\ copy.pc = "ended"

CollectCopy == \E e \in Selected :
  /\ ~Blocked
  /\ dialog = "progress" /\ CopyReady
  /\ copy' = [NoCopy EXCEPT !.n = copy.n]
  /\ cleaning' = FALSE
  /\ dialog' = "tell"
  /\ uninstalling' = (uninstalling /\ copy.stop)
  /\ IF copy.result /\ ~copy.stop /\ (cleaning => e.on)
     THEN ChangeModName(e)
     ELSE UNCHANGED <<dirs, marked, modInfo>>
  /\ UNCHANGED <<screen, ask, offered, adds, addTask, entries, gameDirs, inbox>>

AddReady == addTask # 0 /\ ~Running(addTask)

CollectAdd ==
  /\ ~Blocked
  /\ dialog = "progress" /\ ~CopyReady /\ AddReady
  /\ addTask' = 0
  /\ dialog' = "tell"
  /\ UNCHANGED <<screen, modInfo, ask, offered, uninstalling, cleaning, copy,
                 adds, entries, card>>

-----------------------------------------------------------------------------
(* The worker of copy_task *)

RunCopy == \E ok \in BOOLEAN :
  /\ copy.pc = "running"
  /\ ~ok => "copy" \in Faults \/ copy.stop
  /\ copy' = [copy EXCEPT !.pc = "ended", !.result = ok]
  /\ UNCHANGED <<screen, modInfo, dialog, ask, offered, uninstalling,
                 cleaning, adds, addTask, entries, card>>

-----------------------------------------------------------------------------
(* The workers of add_task *)

uiOnly == <<menu, listOf, modIndex, dialog, ask, offered, uninstalling,
            cleaning, copy, addTask>>

End(w) == adds' = [adds EXCEPT ![w].pc = "ended", ![w].todo = <<>>]

(* The game's directory: when it is there the game counts as added already. *)
AddDirectory(w) ==
  /\ adds[w].pc = "start"
  /\ \/ /\ adds[w].new => adds[w].game \notin gameDirs
        /\ gameDirs' = gameDirs \union {adds[w].game}
        /\ adds' = [adds EXCEPT ![w].pc = "next"]
     \/ /\ adds[w].new /\ adds[w].game \in gameDirs
        /\ End(w) /\ UNCHANGED gameDirs
     \/ /\ adds[w].new /\ adds[w].game \notin gameDirs /\ "add" \in Faults
        /\ gameDirs' \in {gameDirs, gameDirs \union {adds[w].game}}
        /\ End(w)
  /\ UNCHANGED <<uiOnly, index, modInfo, entries, dirs, marked, inbox>>

AddNext(w) ==
  /\ adds[w].pc = "next" /\ adds[w].todo # <<>>
  /\ IF adds[w].stop THEN End(w) ELSE adds' = [adds EXCEPT ![w].pc = "file"]
  /\ UNCHANGED <<uiOnly, index, modInfo, entries, card>>

AdvancedRetry(w, filed) ==
  IF filed THEN [adds EXCEPT ![w].pc = "next", ![w].todo = Tail(adds[w].todo)]
  ELSE adds
Advanced(w, filed) ==
  [adds EXCEPT ![w].pc = "next", ![w].todo = Tail(adds[w].todo)]

DestinationShown(w) == entries[index]
Destination(w) == adds[w].game

FileZip(w) ==
  LET zip == Head(adds[w].todo) IN
  /\ adds[w].pc = "file" /\ zip \in inbox
  /\ inbox' = inbox \ {zip}
  /\ dirs' = dirs \union {<<Destination(w), zip>>}
  /\ adds' = Advanced(w, TRUE)
  /\ modInfo' = IF adds[w].new THEN modInfo
                ELSE Append(modInfo, [game |-> Destination(w), name |-> zip, on |-> FALSE])
  /\ UNCHANGED <<uiOnly, index, entries, gameDirs, marked>>

(* mkdir or rename fails: the directory made for the archive stays.         *)
SkipZip(w) ==
  /\ adds[w].pc = "file"
  /\ "add" \in Faults \/ Head(adds[w].todo) \notin inbox
  /\ adds' = Advanced(w, FALSE)
  /\ dirs' \in {dirs, dirs \union {<<Destination(w), Head(adds[w].todo)>>}}
  /\ UNCHANGED <<uiOnly, index, modInfo, entries, gameDirs, marked, inbox>>

AddDone(w) ==
  /\ adds[w].pc = "next" /\ adds[w].todo = <<>>
  /\ IF adds[w].new THEN adds' = [adds EXCEPT ![w].pc = "list"] ELSE End(w)
  /\ UNCHANGED <<uiOnly, index, modInfo, entries, card>>

ListGame(w) ==
  /\ adds[w].pc = "list"
  /\ entries' = <<adds[w].game>> \o entries
  /\ adds' = [adds EXCEPT ![w].pc = "home"]
  /\ UNCHANGED <<uiOnly, index, modInfo, card>>

ResetIndex(w) ==
  /\ adds[w].pc = "home"
  /\ index' = 1
  /\ End(w)
  /\ UNCHANGED <<uiOnly, modInfo, entries, card>>

AddStep(w) == \/ AddDirectory(w) \/ AddNext(w) \/ FileZip(w) \/ SkipZip(w)
              \/ AddDone(w) \/ ListGame(w) \/ ResetIndex(w)

-----------------------------------------------------------------------------
Frame == \/ OpenGame \/ ChangeMenu \/ MoveCursor \/ AskCopy \/ AskAdd
         \/ Dismiss \/ Refuse \/ StartCopy \/ NotReady \/ StartAdd
         \/ StopCopy \/ LeaveAdd \/ CollectCopy \/ CollectAdd

Next == Frame \/ RunCopy \/ \E w \in DOMAIN adds : AddStep(w)

Spec == Init /\ [][Next]_vars

(* A thread that was started runs; the frame loop polls the futures as long *)
(* as a progress dialog is shown.  The user owes nothing.                   *)
Fairness == /\ WF_vars(RunCopy) /\ WF_vars(CollectCopy) /\ WF_vars(CollectAdd)
            /\ \A w \in 1..MaxAdds : WF_vars(w \in DOMAIN adds /\ AddStep(w))

FairSpec == Spec /\ Fairness

-----------------------------------------------------------------------------
(* Properties *)

TypeOK ==
  /\ menu \in {"list", "modlist", "addgame"} /\ dialog \in {"none", "ask", "tell", "pick", "progress"}
  /\ index = 1 \/ index \in DOMAIN entries
  /\ modIndex = 1 \/ modIndex \in DOMAIN modInfo
  /\ modInfo \in Seq([game : AllGames, name : Names, on : BOOLEAN])
  /\ ask \in Ops \union {"none"} /\ offered \subseteq Zips
  /\ uninstalling \in BOOLEAN /\ cleaning \in BOOLEAN
  /\ copy.n \in 0..MaxCopies /\ copy.op \in Ops /\ copy.pc \in {"running", "ended"}
  /\ addTask \in 0..Len(adds)
  /\ entries \in Seq(AllGames) /\ gameDirs \subseteq AllGames
  /\ dirs \union marked \subseteq AllGames \X Names /\ inbox \subseteq Zips

(* B never reaches the token of an uninstallation, whatever was left        *)
(* unfinished or uncollected before it: mod_uninstalling covers exactly     *)
(* that, although it outlives the task it was set for.                      *)
UninstallNotStopped == copy.valid /\ copy.op = "uninstall" => uninstalling /\ ~copy.stop

(* A second installation or uninstallation never starts beside one that     *)
(* still runs, even when the dialog of the first is gone: ModInstalled and  *)
(* ModUninstalled look at the future, not at the dialog.                    *)
CopyTasksExclusive == [][copy.pc = "running" => copy'.n = copy.n]_vars

(* Archives end in the game they were chosen for, wherever the user has     *)
(* gone since: the worker uses the path captured when it was started.       *)
FiledWhereChosen ==
  [][\A z \in inbox \ inbox' : \E w \in DOMAIN adds :
       adds[w].pc = "file" /\ z = Head(adds[w].todo) /\ dirs' = dirs \union {<<adds[w].game, z>>}]_vars

(* The frame loop that waits for a replaced worker is released.             *)
FrameLoopReleased == Blocked ~> ~Blocked

(* LeaveAdd sets the token of the worker it leaves, and adds forgets none.  *)
NoAddLeft == \A w \in DOMAIN adds : ~adds[w].stop

(* The progress dialog of an installation or uninstallation stays until the *)
(* task has ended (app.cpp:7663: the dialog is not hidden at once, the user *)
(* interface changes when the task is done), as long as no add was left     *)
(* whose result the dialog then takes for its own.                          *)
DialogStaysWhileCopying ==
  [][NoAddLeft /\ dialog = "progress" /\ copy.pc = "running" => dialog' = "progress"]_vars

(* The outcome of a task that succeeded is recorded in the name of the mod  *)
(* the task was about before the future is let go: the '$' is there after   *)
(* an installation, gone after an uninstallation.                           *)
Recorded(task) ==
  CopyReady /\ copy.result /\ ~copy.stop /\ (~task.valid \/ task.n # copy.n)
    => (copy.mod \in marked') = (copy.op = "install")
OutcomeRecorded == [][Recorded(copy')]_vars

(* It is, as long as no add was left with B: until then the dialog of every *)
(* task is there to collect it, and the cursor still names its mod.  Left   *)
(* out are a directory that cannot be renamed because the other of its two  *)
(* names exists, and a list with two entries for one directory.             *)
ListedTwice == \E i, j \in DOMAIN modInfo : i # j /\ modInfo[i].name = modInfo[j].name
BothNamesThere == copy.valid /\ copy.mod \in dirs \intersect marked
OutcomeRecordedUnlessLeft ==
  [][NoAddLeft /\ ~ListedTwice /\ ~BothNamesThere => Recorded(copy')]_vars

(* The list of mods is that of the card as long as no add was left and no   *)
(* archive was filed under the name of a listed mod, which is then listed   *)
(* twice: every entry is a mod of the shown game, its state as the name of  *)
(* its directory says, and the list lacks only directories made for an      *)
(* archive that could not be moved there and is still in the drop folder.   *)
ListMatchesCard ==
  menu = "modlist" /\ NoAddLeft /\ ~ListedTwice =>
    /\ ToSet(modInfo) \subseteq Listing(listOf)
    /\ \A e \in Listing(listOf) \ ToSet(modInfo) : e.name \in inbox

(* The game the handlers of the mod list act on, entries[index], is the one *)
(* whose mods are shown: the worker of an add resets index and prepends to  *)
(* entries only while its dialog keeps the user out of the list of mods.    *)
IndexNamesList == menu = "modlist" /\ NoAddLeft => entries[index] = listOf

(* Every installation and uninstallation that ended is reported, unless an  *)
(* add is left whose dialog closes in its stead.                            *)
CopyReported == CopyReady ~> (~CopyReady \/ ~NoAddLeft)
=============================================================================
