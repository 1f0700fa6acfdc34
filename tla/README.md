# NX Mod Manager in TLA+

NX Mod Manager is a Nintendo Switch homebrew program that installs game mods to
the SD card.  This directory keeps TLA+ models of its core logic beside the
code, TLC configurations that check them on small instances, and TLAPS proofs
of the results that should hold for every instance.

## 1. The system: inventory

The program is one process with a frame loop on the main thread (`App::Loop`:
poll the controller, update, draw) and a few tasks that run on threads of their
own (`util::async`, `src/src/async.hpp`), each with a stop token and a future
that the frame loop polls.

| Component | State | Operations | Interacts with |
|---|---|---|---|
| Mod installation engine (`mod_manager.cpp`) | `/atmosphere`, the '$' in a mod directory's name, `cached_conflicting_files`, `cached_target_files`, `cached_created_directories` | install from a folder or a zip, uninstall, roll back, record shared files | runs on `App::copy_task`; reads and writes `mod_file_common.json` through JsonManager; reports through `copy_progress` |
| JSON store (`json_manager.cpp`) | the files `mod_name.json`, `game_name.json`, `mod_file_common.json` | create, read, update, remove a key; deduplicate | called from the engine's thread, the add task and the frame loop |
| Task and dialog protocol (`app.cpp`) | `copy_task`, `add_task`, `show_newdialog` and the dialog type, `mod_uninstalling`, `clean_button`, `copy_progress` | start a task, poll it, cancel it with B, report it | engine, add task, frame loop |
| Adding games and mods (`app.cpp` 4894-5344, 5956-6002) | `mod_info`, `entries`, the directories below `/mods2` | move a zip into a mod directory, create a game directory | runs on `add_task`; writes the lists the frame loop draws |
| Removing games and mods (`mod_manager.cpp` 1957-2240, `app.cpp` 4672-4781) | directories below `/mods2`, the two JSON files, `mod_info`, `entries` | remove a mod that is not installed, remove a game and its mods | frame loop |
| List of mods (`app.cpp` 2072-2210, 2804-2878, 3846-3945, 4529-4607, 4894-4955) | `mod_info`, `mod_name_cache`, `mod_index`, `mod_start`, `mod_ypos`, `mod_yoff`, `mod_name.json` | read the directories and names of a game, name, describe, give a type, remove | JSON store, engine (the '$'), add task |
| Scanning (`app.cpp` 2487-3373) | `entries`, `entries_AddGame`, `finished_scanning`, `addgame_scan_running` | list the games with mods, list all games | runs on `async_thread`; shares its lists with the frame loop under mutexes |
| Icon loading (`app.cpp` 205-283, 3373-3722) | a priority queue of load tasks, flags of every entry | submit, process a few tasks per frame | entries, NanoVG |
| List navigation (`app.cpp` 1731-2485, 7332-7490) | `index`, `start`, `yoff`, `ypos` of each list | move by a line or a page, hold a button | controller, draw |
| Controller (`app.cpp` 327-453) | `counter`, `step`, held buttons | poll | every update |
| Audio (`audio_manager.cpp`) | the mixer, the sounds, `initialized_`, the initialisation thread | initialise in the background, play, stop, clean up | frame loop, `~App` |
| MTP server (`mtp_manager.cpp`, `lib/libhaze`) | the server's status, the flags of session and transfer under `m_mutex`; for a file a ring of one buffer between a reader and a writer | start, stop, callbacks; sessions, sending and receiving a file | frame loop, libhaze's thread, the reader and writer it starts |
| GPU command buffers (`app.cpp` 4355-4494) | two command buffers and their fences | prepare, submit, wait | draw |
| Language and keyboard (`lang_manager.cpp`, `keyboard_helper.hpp`), drawing (`Draw*`, `nvg_util.cpp`) | text, pixels | | |
| Vendored: miniz, yyjson, NanoVG, stb, Pinyin tables | | | |

What is hard in it: an operation of many file system calls can be stopped by
the user, by the end of the process, by an error or by a power loss between any
two of them; the bookkeeping of shared files has to stay right over any history
of installations and uninstallations; the frame loop and the tasks share flags,
dialogs and lists; the server's threads share a buffer, the connection and a
mutex that the frame loop takes too; and the JSON files are rewritten in place.  `PROJECT.json`
lists every such hazard at its line, with the properties that cover it.

What makes each part correct:

- *Engine*: an installed mod has all its files with their own content; an
  uninstallation takes exactly the files no other installed mod needs; an
  operation that is stopped is undone; B never stops an uninstallation; every
  operation ends and is reported.
- *JSON store*: an update of one key leaves the others as they are, whatever
  fails; a key that was removed or renamed is gone.
- *Tasks and dialogs*: no two installations overlap; a result is recorded for
  the mod it is about; the lists and the index agree with the card.
- *Games and their names*: list, card and `game_name.json` agree; no game is
  missing or listed twice, though the scan, the constructor and the user work
  at the same time.
- *Mods and their names*: the name a mod was given stays with it while its
  type changes, it is installed, and others come and go; the list names what is
  on the card; no key outlives its mod.
- *Scan of the console's games and icons*: a list that is ready has every game
  once; the cursor stays in it while it is filled, sorted, searched and
  cleared; an open dialog agrees with it; a texture belongs to one entry and is
  deleted once; an icon that is looked at comes; leaving never hangs.
- *List navigation*: the cursor is in the list and on the screen.
- *MTP server*: bytes arrive in order; a success is complete; the flags the
  page shows are true; a received file ends where its data ends; stopping
  returns, at any moment.
- *Audio*: what was opened is closed once, on whichever path.

## 2. Modules

| Module | What it is |
|---|---|
| `FileOwnership` | abstract: a card with owners of files, an operation is one step |
| `ModManager` | the installation engine, the frame loop that starts and collects an operation, crashes and restarts |
| `ModManagerInv` | the inductive invariants of the engine |
| `ModManagerProofs` | theorems about `ModManager`: types, no installed mod loses a file |
| `ModManagerOwnership` | theorems about `ModManager`: it implements `FileOwnership`, counts are exact |
| `MCModManager` | three mods around one shared file, for TLC |
| `AppTasks` | `copy_task`, `add_task`, the dialogs, the lists the workers write |
| `AppTasksProofs`, `MCAppTasks` | theorems and instances |
| `Objects` | JSON objects as yyjson keeps them: look up, remove and write a member |
| `ObjectsProofs` | what these operations keep of the other members |
| `JsonStore` | the operations of JsonManager on a JSON object, and what a rewriting can leave; uses `Objects` |
| `GameList` | names and favourites of games: scan, constructor, the user's operations, restarts; uses `JsonStore` |
| `GameListProofs`, `MCGameList` | theorems and instance |
| `AddGrid` | the cursor arithmetic of a grid of games, as operators |
| `AddGameList` | the list of games to add: scan threads, frame loop, queue of icons; uses `AddGrid` |
| `AddGameListProofs`, `MCAddGameList` | theorems and instances |
| `ModCursor` | the cursor arithmetic of the list of mods, as operators |
| `ModList` | the list of mods of a game, its names, types and removals; uses `JsonStore` and `ModCursor` |
| `ModListProofs`, `MCModList` | theorems and instance |
| `Copying` | abstract: a stream of known length is copied |
| `FileTransfer` | one file through libhaze: caller, reader, writer and the ring between them |
| `MtpServer` | the frame loop, `MtpManager`, libhaze's thread; moves files by `FileTransfer` |
| `MtpServerProofs` | theorems about `FileTransfer` and `MtpServer` |

`ModManager` and `AppTasks` meet at the future: the engine is one step with a
result in `AppTasks`, the dialogs are `Begin`, `Cancel` and `CollectResult` in
`ModManager`.  `AppTasks` and `GameList` meet at the end of the add task, which
creates, names and lists a game.  `AddGameList` is where the game of that task
is picked: `AddGame` opens the progress dialog whose task `AppTasks` models.
`ModList` and `ModManager` meet at the '$': `ChangeModName` is what the list
does when an operation of the engine has succeeded.  `AppendMod` files an
archive in one step in `ModList`; the worker's own steps are those of
`AppTasks`.  `MtpServer` extends `FileTransfer`: each of its steps is a step of
the transfer or leaves it alone.  The server and the rest meet nowhere but in
the files below `/mods2`, which the program reads when a list is opened.

### The mod installation engine

`ModManager.tla` models one operation at a time (the code refuses to start a
second one) as the sequence of file system calls and decisions it makes, and
the frame loop that starts it, cancels it and collects its result.  The state
on the card is `fs` (content of every target path), `common`
(`mod_file_common.json` of every game), `torn` (games whose file no longer
parses) and `installed` ('$' in the directory's name; the member `User` stands
for files the user put there by hand and never leaves).  The ghost `cut` has the
files whose end the code cannot know to be missing: it was lost in an `fclose`
whose result is ignored or in a read that came back short, the file could not
be removed, or the power went while it was written.  `cached` is
`cached_conflicting_files`, which outlives an operation.  `pc`, `todo`,
`fresh`, `made` and `result` are the running task's place and local lists.

| Action | Code |
|---|---|
| `Classify` | `getModInstallType` |
| `ScanNew`, `ScanShared`, `ScanConflict`, `ScanEnd` | the first pass of `installModFromFolder` / `installModFromZipDirect` |
| `MakeDirectories` | `createDirectoriesBatch` |
| `OpenTarget`, `WriteTarget`, `AbortCopy`, `CopyEnd` | `copyFilesBatch` / `extractMod` |
| `RemoveCopied`, `RollbackEnd` | `cleanupCopiedFilesAndDirectories` and its twin |
| `RecordConflict`, `RecordEnd` | `CachedConflictingFiles` |
| `CountFilesToRemove` | `CountModFilesToRemoveWithProgress` / the zip's list |
| `Deduplicate` | `ProcessModFileCommonDeduplication` |
| `RemoveTarget`, `RemoveEnd` | `RemoveModFilesFromCache` |
| `Begin`, `Cancel`, `CollectResult` | `MODinstallORuninstall`, `newUpdateDialogCopyProgress` |
| `Close`, `Reopen` | `~App` and the next start |
| `Crash` | the process or the power is gone between two calls |

What may go wrong is a parameter, `Faults`: pairs of a fault and the operation
it may strike.  The abstract specification is `FileOwnership.tla`: a card with
owners, on which a mod is installed at once or not at all.  `CommittedCard`
maps the detailed state to it by hiding what the running operation has done so
far.
A second operation is refused by the code (`StillCopying`, checked
in `AppTasks`), so `ModManager` has one operation at a time.

### Tasks and dialogs

`AppTasks.tla` is the frame loop with its menus and dialogs, one action per
handler, and the workers beside it.  A dialog that is shown takes the frame
(`MenuActive`).  `copy` is `copy_task` with its stop source; `adds` are all
workers ever started for adding and `addTask` the one the member still holds:
B in the progress dialog of an add hides the dialog and leaves the worker
running (`LeaveAdd`).  Assigning over a future of `std::async` joins its thread,
which holds the frame loop (`Blocked`).  A directory is in `dirs` under its
plain name and in `marked` with the '$', and both may exist.  `NoAddLeft` says
that no add was left with B; most properties hold as long as none was, and
section 6 says what happens after.

| State | Code | | Action | Code |
|---|---|---|---|---|
| `menu` | `menu_mode` | | `OpenGame`, `ChangeMenu`, `MoveCursor` | `UpdateList`, `UpdateModList` |
| `index`, `entries` | the same | | `AskCopy`, `AskAdd` | the option menus |
| `modInfo`, `modIndex` | `mod_info`, `mod_index` | | `Dismiss`, `Refuse` | the confirm dialogs |
| `dialog`, `ask`, `offered` | `show_newdialog`, the callback | | `StartCopy`, `NotReady` | `ModInstalled`, `ModUninstalled` |
| `uninstalling`, `cleaning` | `mod_uninstalling`, `clean_button` | | `StartAdd` | `Dialog_APPENDMOD_Menu`, `Dialog_ADDGAME_Menu` |
| `gameDirs`, `dirs`, `marked`, `inbox` | directories below `/mods2`, '$', the drop folder | | `StopCopy`, `LeaveAdd`, `CollectCopy`, `CollectAdd` | `newUpdateDialogCopyProgress` |
| | | | `RunCopy`, `AddStep` | the workers |

### Names and favourites of games

A JSON object is the sequence of its members, as yyjson keeps them: `Put`
replaces the first member with the key and removes the others, renaming a key
does not look for the new one, and a nested object that is missing enters at
the front for `favorites$180`.  `Rewritten` gives what can become of a file:
the new members, the old ones, or a torn file on which no operation succeeds.

`GameList.tla` has three actors.  The constructor of `App` starts the scan and
then reads `game_name.json` (`LoadGameNameMapping`, `StoreName`).  The scan
(`ScanDirs` to `ScanDone`) lists the directories, leaves out those of the
arrays, merges favourites, named games and the rest, and appends an entry per
directory in which it counts a mod.  The arrays, like the code's vectors, are
sequences and may hold a directory twice; so may what they are merged into
(`Places`) and the list, in which a second entry of a directory has a `copy` of
its own and never coincides with the first.  That neither happens is for the
program to see to, and is what `ListedOnce` says.  The frame loop shows the list
with the first entry and takes the user's operations, which run in steps a power
loss can separate.  Adding a game can be refused, stopped or fail half way;
removing one can fail, or leave a directory that cannot be removed.

| State | Code |
|---|---|
| `dirs` | directories below `/mods2`, `<<game, version>>` |
| `bare` | those in which the scan counts no mod: empty, without a directory for the title id, or every mod's name has a dot (`app.cpp:2788`, `3073`) |
| `file` | `/mods2/game_name.json` |
| `main` | before, in and after the constructor; `MenuMode` LOAD and LIST |
| `toLoad`, `names`, `favArray`, `nonArray` | the rest of the file to load, `game_name_cache`, the two arrays in the order they are loaded |
| `scan`, `unlisted`, `pending` | where `FastScanNames` is, `dir_paths`, the rest of `merged_games` by place |
| `entries` | the list, without its order; see `Entry` and `Copy` |
| `job` | the operation the user asked for, its entry and its step |
| `raced`, `spoiled`, `left` | ghosts: the scan read what the constructor was still loading; games an operation left half recorded; directories an operation of this start left on the card without listing them |

`ModsChange` stands for mods added to a game of the list or removed from it,
which `ModList` models: all the scan sees of it is whether it counts one.
`raced`, `spoiled` and `left` say where the code does not keep its promise, so that the
properties can say that it does everywhere else (section 6).

### The list of games to add

The list of the console's games (`ADDGAMELIST`) is filled by a thread of
`async_thread` while the frame loop shows it.  `AddGameList.tla` has the frame
loop at a place in its frame, `at`: it loads icons (`processFrameLoads`, in
every menu), gives the frame to an open dialog or to the menu, and in
ADDGAMELIST polls the scan, takes one key and asks for the icons of the visible
page.  Between any two of these the threads take their steps.

| State | Code | | Action | Code |
|---|---|---|---|---|
| `entries`, `nextId` | `entries_AddGame`, `unique_id` | | `ScanBegin` to `ScanEnd` | `FastScanAllGames` and what it calls |
| `index`, `sortType`, `loaded` | `index_AddGame`, `sort_type_AddGame`, `last_addgame_loaded_range` | | `StartScan`, `NoScanNeeded`, `Joined` | the head of `UpdateAddGameList`, assignment to `async_thread` |
| `scans`, `held`, `running` | the threads, the one `async_thread` holds, `addgame_scan_running` | | `Back`, `Stopped`, `clearaddgamelist` | B |
| `urgent`, `preload` | `pending_tasks` by priority | | `Move`, `SortList`, `OpenDialog` | the other keys |
| `textures`, `loads` | NanoVG's images, `icon_loads_this_frame` | | `LoadAddGameVisibleAreaIcons`, `LoadIcon`, `LoadsDone` | the same, `processFrameLoads` |
| `dialog`, `shown` | the open dialog and the list as it was then | | `SelectFound`, `AddGame`, `CloseDialog` | the dialogs |
| `overlooked` | ghost: a scan on its way was taken for none | | `Quit`, `FreeTextures` | `~App` |

A task names its entry by `unique_id`, so that one which outlives the list it
was queued for finds nothing (`Loaded`).  A thread raises
`addgame_scan_running` only when it runs, so a frame that comes first finds an
empty list and no scan, and starts another; the assignment then waits for the
older one.  `Overlap` says whether the model lets that happen.

### The list of mods

`ModList.tla` is sequential: the handlers of the list run on the frame loop.
What makes it hard is that four things must agree over any history: the
directories, `mod_name.json`, the list with its cache, and the cursor.  A
directory `<<name, type, on>>` stands for `NAME[T]$`; the file's keys are the
directories without the '$'.

| State | Code | | Action | Code |
|---|---|---|---|---|
| `menu` | `menu_mode` | | `OpenGame` | `FastScanModInfo`, `LoadModNameMapping`, `Sort_Mod` |
| `dirs` | directories of the game; what is in each | | `Leave`, `Move` | `UpdateModList` |
| `inbox` | archives in the drop folder | | `changemodname`, `changemoddescription` | the same |
| `file`, `cache` | `mod_name.json`, `mod_name_cache` | | `Dialog_MODLIST_TYPE_Menu` | the same |
| `modInfo` | `mod_info` | | `RemoveMod` | the same, `Removemodechecklegality`, `Removemodesingezipmod`, `Removemodeformodlist` |
| `cursor` | `mod_index`, `mod_start`, `mod_ypos`, `mod_yoff` | | `ChangeModName` | the same |
| `given`, `spoiled`, `half` | ghosts: what the user typed for each mod; mods whose record the file does not keep; mods an operation left between card and list | | `AppendMod` | `Dialog_APPENDMOD_Menu` |

### Files over MTP

`FileTransfer.tla` has three threads: the caller (`TransferInternal`, which
copies a small file alone), the reader and the writer.  A critical section of
`mutex` is one step, cut where it waits on a condition variable.  A thread that
was woken goes on without looking at the ring again, as in the code
(`Woken`, the places `getgot`, `setgot` and `lookgot`), which is safe only
because the ring has one slot and because of the order in which `read_running`,
the results and `uevent` change.  Bytes are counted in packets.

| State | Code | | Action | Code |
|---|---|---|---|---|
| `reader`, `rbuf` | `readFuncInternal`, its buffer | | `ReadLoop`, `IsWriteBufFull`, `WriterGone`, `Read`, `SetWriteBuf`, `EndRead` | the same, `readFunc` |
| `writer`, `wbuf` | `writeFuncInternal`, its buffer | | `WriteLoop`, `GetWriteBuf`, `Write`, `EndWrite` | the same, `writeFunc` |
| `caller` | `TransferInternal` | | `AloneRead`, `AloneWrite`, `NoThread`, `Signalled`, `WakeAllThreads`, `BothEnded` | the same; `NoThread` is its return when a thread cannot be created or the reader not started |
| `slot`, `r_index`, `w_index` | `RingBuf` | | `RequestStop`, `Renew` | the event of `ConsoleMainLoop` |
| `read_offset`, `write_offset`, the flags and results | `ThreadData` | | | |
| `target` | what has arrived | | | |

`Copying.tla` is what a transfer promises: what arrives was read before, and a
success is complete.

`MtpServer.tla` puts it between libhaze's thread (`haze`), which takes one
request after another, and the frame loop (`ui`), whose keys look at the
status and at the transfer flag in critical sections of their own.

| State | Code | | Action | Code |
|---|---|---|---|---|
| `m_status`, `m_is_connected`, `m_transfer_in_progress`, `m_mutex` | the same | | `EnterMtp`, `ToggleMtp`, `CheckActive`, `KeyB`, `Answer` | `UpdateMTP` and its dialogs |
| `haze`, `m_session_open` | libhaze's thread, its session | | `StartMtp`, `StopMtp`, `Exit`, `Quit` | the same, `haze::Exit`, `~MtpManager` |
| `len`, `announced` | length of the received file on the card; a ghost: its announced rest could not be cut off | | `Request`, `OpenSession`, `CloseSession`, `OtherRequest` | `HandleRequest` |
| `ui`, `after` | where the frame loop is | | `BeginFile`, `WriteFile`, `EndFile`, `ThreadEnds` | `SendObject`, `GetObject`, their callbacks; `LoopProcess` |

## 3. What TLC checks

| Run | Instance and bounds | What it shows |
|---|---|---|
| `mods_no_fault` | three mods, a folder and two zips, sharing one file, each with one of its own; no faults | shared counts are exact; the card implements `FileOwnership` |
| `mods_install_faults` | a folder and two zips, overlapping and conflicting, and a file of the user's; cancellation, exit, I/O errors and failing renames in installations; counts up to 3 | no installed mod loses a file, an installation touches only what it created, the card implements `FileOwnership` up to files left behind |
| `mods_all_faults` | every fault in every operation, with power loss, files that cannot be removed and ends of files lost in `fclose`; mods the installers refuse | types, B never stops an uninstallation, a file that is cut off stays only where the code does not look or cannot act, every operation ends |
| `tasks_left` | one game on the card and one to add, two adds, two installations or uninstallations, an archive that two workers may move; adds left with B; adds and operations that fail | no uninstallation is stopped, no two operations overlap, archives end where they were chosen for, lists and index agree with the card, outcomes are recorded and reported, the frame loop is never held for good |
| `games_listed` | two games, one starred, one named, one version; two starts, three operations, or two when the scan has raced with the constructor (`MaxRacedEdits`); failing writes, torn file, noticed or not, failing rename, mkdir and removal, adds that are stopped, games whose last mod goes, services not available, power loss | list, card and file agree; no game missing or doubled; no operation changes another game |
| `addgame_listed` | a console of three games, two with an icon, two with the same initial, a page of two; one icon per frame, one preloaded, a batch of one; two visits, services that may fail; no overlap | list, cursor, dialogs and textures agree, icons come |
| `addgame_overlap` | one game, up to three scans, one beside another | the frame loop is released, though the list may be doubled |
| `modlist_kept` | five mods (one row more than the screen shows), one typed, one installed, one a folder; two archives, one with the name of a mod; two types; three operations with any number of visits and cursor moves; renames, removals and writes that fail | names, keys, paths and cursor agree with card and list |
| `mtp_served` | files of 2 and 5 packets, buffers of 2, both directions, any number of files, sessions, stops and restarts; reads, writes and truncations that fail, threads that cannot be had | bytes in order, a transfer implements `Copying`, flags true, files end with their data, stopping returns |
| `mods_two_games`, `tasks_lost_result`, `mtp_received` | | violations, section 6 |

*Why the bounds are enough.*  Shared counts matter with at least three owners
(two extra ones), conflicts with two contents, and losing a foreign file with
one mod that contains another: `MCModManager` has all three.  The history of
the engine is not bounded; the counts are (`MaxCount`), since repeated failed
installations raise a count without end.  In `AppTasks` two adds and two
installations are enough for a task that was left and one that is collected
in its place or refused beside it; `MaxTasks` bounds both together, as it
does in `AddGameList` the tasks a user piles up by turning pages.  In
`GameList` three operations
reach rename, remove and re-add of one game, the second start shows what the
file kept, and two games are what `OthersSpared` needs.  In `AddGameList` three
games on pages of two give a full and a partial page, a tie and an order to
sort, an icon in the visible page and one to preload; the second visit finds
tasks and a thread of the first; `MaxScans` bounds the scans that fail or
overlap.  In `ModList` three operations (`MaxEdits`) reach name, retype and
remove of one mod, and retype, remove and re-add; an addition gives a sixth
row, which pages turn over and a removal shrinks.  In `FileTransfer` two
packets are one buffer, which the caller copies alone when it sends, and five
are two full buffers and a rest: the ring is full, empty and wraps.

*Deadlock* is checked in every run but `games_listed`, the two of
`AddGameList` and the two of `MtpServer`, where the program ends with the last
`Quit`.

*Fairness.*  `ModManager`: the task's thread runs, the frame loop polls its
future in every frame, and a program that is closed is opened again (weak
fairness on their disjunction).  `AppTasks`: threads that were started run, and
the frame loop polls the futures as long as a progress dialog is shown.
`AddGameList`: every thread and the frame loop run (weak fairness), and
`LoadAddGameVisibleAreaIcons`, which returns at once within 100 ms of its last
turn, does its work in some frame (strong fairness, as frames keep coming
while the 100 ms pass).  `MtpServer`: every thread runs and the card answers; the USB side is
only promised to answer a stop, so that reading from it or writing to it is
fair when `stop` is set (`WaitForImpl` waits for both).  The
user, the faults and the power supply owe nothing.  Weak fairness is what a
preemptive scheduler and a loop without blocking calls give; a frame loop that
does block is modelled (`Blocked`), and that it is released is a property.

## 4. What is proved

Every invariant, action property and refinement of the passing runs is
proved for every value of the constants that satisfies the
named assumptions of the modules; only liveness is left to TLC (section 5).

| Theorem | Property | Argument |
|---|---|---|
| `ModManagerProofs!TypeCorrect` | `TypeOK` | inductive by itself |
| `ModManagerProofs!InstalledNeverLost` | `InstalledComplete` | `IInv`; assumes `SharedWithinGame` and `OnlyInstallFaults` |
| `ModManagerProofs!UninstallNotCancelled` | `UninstallUncancelled` | `uninstalling` covers every uninstallation that runs |
| `ModManagerProofs!InstallationSparesOthers` | `InstallSparesOthers` | what is written was missing, what is removed is in `made` |
| `ModManagerOwnership!NoTruncatedFileLeft` | `NoTruncatedFile` | `CutOff`: a file that is cut off is in `cut` or in `made` of an installation that still copies or rolls back; no assumption on the faults |
| `ModManagerOwnership!LeakyOwnershipImplemented` | `ImplementsLeakyOwnership` | `OwnershipInv`; assumes `SharedWithinGame`, `OnlyInstallFaults` and `NothingLeftBehind` |
| `ModManagerOwnership!CountsAreExact` | `CountsExact` | `ExactInv`; assumes `Undisturbing` |
| `ModManagerOwnership!OwnershipImplemented` | `ImplementsOwnership` | `ExactInv`; assumes `Undisturbing` |
| `AppTasksProofs!TasksTyped` | `TypeOK` | inductive with `Guarded` |
| `AppTasksProofs!UninstallSafeFromB` | `UninstallNotStopped` | the flag outlives its task and is never reset while one runs |
| `AppTasksProofs!CopyTasksNeverOverlap` | `CopyTasksExclusive` | a start looks at the future, not at the dialog |
| `AppTasksProofs!IndexNamesTheList` | `IndexNamesList` | `IInv`: `Shown` |
| `AppTasksProofs!ListIsThatOfTheCard` | `ListMatchesCard` | `IInv`: `Fits` |
| `AppTasksProofs!ArchivesEndWhereChosen` | `FiledWhereChosen` | only a worker takes an archive, and files it in its own game |
| `AppTasksProofs!DialogOutlastsTheCopy` | `DialogStaysWhileCopying` | `IInv`: `Alone` |
| `AppTasksProofs!OutcomeIsRecorded` | `OutcomeRecordedUnlessLeft` | `IInv`: `AtCursor` and `Fits` |
| `GameListProofs!NoGameMissing` | `AllListed` | `ListInv`; no assumption on races or faults |
| `GameListProofs!GamesTyped` | `TypeOK` | `TypedInv`: the shape of the file and of the running operation |
| `GameListProofs!OtherGamesSpared` | `OthersSpared` | `TypedInv`, and what an operation on an object keeps of the others (`ObjectsProofs`) |
| `GameListProofs!FileNamesTheCard` | `KeysNameGames` | `AgreeInv`: `FileOf` |
| `GameListProofs!NoGameTwice` | `ListedOnce` | `AgreeInv`: the two arrays hold each directory once (`StoredOnce`), `PendingOf` and `EntryOf` |
| `GameListProofs!ListIsThatOfTheFile` | `ListSurvivesRestart` | `AgreeInv`: `EntryOf` |
| `AddGameListProofs!CursorStaysInList` | `CursorInList` | `Inv`, and `MovesKept`: no key takes the cursor out of a list of any length on any grid |
| `AddGameListProofs!DialogShowsTheList` | `DialogShowsList` | `Inv`: threads only append, and no dialog is open where keys are read (`Quiet`) |
| `AddGameListProofs!NoTextureLost` | `TexturesOwned` | inductive on top of `Inv`'s types |
| `AddGameListProofs!ListIsComplete` | `ListComplete` | `OneScan` on top of `Inv` |
| `MtpServerProofs!BytesInOrder` | `InOrder` | what every buffer holds follows on what the one ahead of it holds |
| `MtpServerProofs!TransferCopies` | `ImplementsCopying` | that, and who has ended by when; assumes that no source ends early (`"short" \notin Faults`) |
| `MtpServerProofs!ServerTransfers` | | every step of the server is a step of `FileTransfer` or leaves it alone |
| `MtpServerProofs!FlagsAreTrue` | `FlagsTrue` | what each place of the two threads says of the flags |
| `MtpServerProofs!NoAnnouncedRest` | `FileEndsWithData` | `len` under what the transfer has written, and `announced` |
| `MtpServerProofs!ServedInOrder` | `InOrder` | `ServerTransfers` and `BytesInOrder` |
| `ModListProofs!CursorStaysShown` | `CursorShown` | the cursor arithmetic keeps the cursor shown for a list of any length |
| `ModListProofs!ListIsWhatIsOnCard` | `PathsOnCard` | `CursorInv` and `PathInv` |
| `ModListProofs!FileNamesTheMods` | `KeysNameMods` | `FileInv` on top of these |
| `ModListProofs!GivenNamesAreShown` | `NamesKept` | `NamesInv` on top of these |

**Engine.** `InstalledComplete` is not inductive: that an uninstallation takes
no file of another mod depends on the counts, and these on what the
installations before it remembered.  `ModManagerInv!IInv` adds `Counted` (a
file's count is at least the number of its installed owners less one, which
tolerates the overcounts that refused installations cause), where the task is
(`Placed`), what an installation has seen and written (`Scanned`), what it will
record (`Remembered`), and that what an uninstallation is about to delete
belongs to no one else (`Removable`).  The two assumptions are needed: without
them TLC reaches a lost file (section 6 and the hazards of uninstallations that
fail).

The refinement of `FileOwnership` with leaks needs `OwnershipInv`, which adds
that a file that is cut off will still be written or cleared away
(`Unfinished`), that only an installation has made anything and nothing once it
is refused (`Made`), and that what an uninstallation has deleted so far had no
other owner (`Deleted`), so that hiding it gives the card of before.
`NothingLeftBehind` excludes from installations the power loss and the two
faults with which a roll-back really leaves a file of its own behind or copies
half of one.  The faults of `mods_install_faults` satisfy the three assumptions.

Exact refinement and exact counts need `ExactInv`: no operation is undone
(`Undisturbed`), an installation has remembered exactly the files it found
there (`RememberedExactly`), the count is the number of owners less one, or is
about to be brought up to it (`CountedExactly`), and a file nobody owns is on its way in or
out (`Owned`).  `Undisturbing` says that the mods agree on their shared files,
each has a file of its own, and nothing fails: the instance of `mods_no_fault`.

**Tasks.** `AppTasksProofs!IInv` is `Guarded` (what holds of `copy_task` and
its flag whatever is left), the types, and, as long as no add was left with B,
four facts no one of which is inductive alone: one task at a time, behind the
progress dialog (`Alone`); a worker adds to the game that is shown, from
archives still in the drop folder (`Chosen`); the task is about the mod at the
cursor (`AtCursor`); and the list is that of the card, less what was filed this
moment (`Shown`).  A token set by `LeaveAdd` stays set (`LeftForGood`), which is
why the hypothesis `NoAddLeft` of a state speaks of all states before it.

**Games.** `AllListed` needs `ListInv`: until the scan is over a directory is on
its way through one of the scan's sources (`OnTheWay`), it is listed, or the
operation that creates it is about to list it (`Arriving`); nothing edits while
the scan still collects directories (`Idle`); and what an operation has renamed
or removed is gone (`Leaving`).  The invariant does not mention `raced`: the
race of the scan with the constructor can double a game or cost its star, but
loses none.

The other properties of `GameList` compare list, card and file between steps of
three actors, and need `AgreeInv`.  Until the scan looks, the arrays and the
rest of the file to load are together what the file says (`LoadInv`); of each
directory that is not spoiled the file has one record, and only if it is on the
card or just being taken away (`FileOf`); what the scan is about to list is
neither listed nor about to be, and what it will show is what the file says
(`PendingOf`); so is what is listed, except while an operation on that very
entry is half way (`EntryOf`); and an operation that is half way finds what it
left (`JobOf`).  A torn file is excused where it is looked at, and
`raced = FALSE` only where the scan takes part: keys and card agree in spite of
the race.

**Scan of the console's games.** `CursorInList` needs `Inv` in
`AddGameListProofs`: the search dialog sets the cursor to a place in the list it
was opened with, which is a place in today's list because only threads have
changed it since (`Agree`), and that holds because sorting and clearing happen
where no dialog is open (`Quiet`).  None of `CursorInList`, `DialogShowsList`
and `TexturesOwned` assumes that scans do not overlap.  `ListComplete` does:
`OneScan` says that unless a scan was overlooked, only the thread `async_thread`
holds is alive, what it has yet to list follows what is listed (`Rest`), and
only a thread that was stopped leaves a part, which is cleared before a key is
read again (`InTurn`).

**Mods.** `CursorShown` is proved with `CursorInv`: the list is a sequence, the
directories are finitely many (so that the list just read has their number),
the list is empty outside its menu, and the cursor is `Shown`.  `PathInv` adds
that each entry is made of its directory and that only mods marked `half` are
twice in the list or missing from it.  `FileInv`: each key is the plain
directory of a mod on the card, or its mod is spoiled (`KeyOK`), and of each mod
that is not spoiled the file has at most one record, with what was given
(`Claim`).  `NamesInv`: list and cache show what was given.  The step that needs
all of them is a type given to a mod: the cache is read again from the file, so
`FileInv` must hold after the step, and an entry that is now the same mod as
another one was spoiled or half by then.

**Objects.** `ObjectsProofs` says of `Keep`, `Drop` and `Put`, for objects of any
length and with repeated keys, that the members with other keys are the same
ones in the same order, and which member `Find` gives.  The library's induction
theorems cannot be applied here (they take an operator as a parameter), so
`Iterated` and its like argue from the least counterexample, which exists
because `<` on the naturals is well-founded.

**MTP.** `InOrder` needs to know that no thread is woken while the ring is not
as it expects: `getgot` with an empty ring or `setgot` with a full one can only
come from the caller, which wakes the others after one of them has signalled
its end.  The invariant says who may have been woken for nothing (only a thread
whose partner has ended), and that a writer which then takes an empty buffer
leaves.  For `TransferCopies` it says that a writer which ends well has written
everything, so that a success needs both results and is complete.
`ServerTransfers` is what carries both over to the server: it is proved from
the definitions of the actions alone.

*Assumptions on the files.*  `GameList!FilesAssumption` and
`ModList!FilesAssumption` say that the file the program first finds is one it
could have written itself: keys once, favourites in one object, keys of
directories that exist.  `GameList!ObjectsAssumption` and
`ModList!TextsAssumption` say that a string is not an object and that
`favorites$180` is no directory.  A file edited by hand, and directories deleted
by hand while it names them, are outside of what is proved; TLC evaluates the
assumptions on the files of its instances.

## 5. What is only model-checked

Liveness is beyond the prover, so these stay with TLC: `TaskEnds`,
`FrameLoopReleased`, `CopyReported`, `IconsArrive`, `LoopReleased` and
`StopReturns`, each under the fairness of section 3.  The three violations of
section 6 are counterexamples TLC finds, and need no proof.  That each
property would notice a plausible mistake in the code is shown by the mutants in
`PROJECT.json`, on the instances.

## 6. Where the code and its comments disagree

Checked as violations, each with the quoted comment in `PROJECT.json`:

- `mods_two_games`: files shared by mods of two game directories are counted in
  neither `mod_file_common.json`.
- `tasks_lost_result`: the result of an installation whose dialog a left add
  has closed is replaced by the next task.
- `mtp_received`: when a computer sends less than it announced, the reader has
  enlarged its buffer for a read that brings nothing and flushes it with the
  rest: the file holds bytes that were never received
  (`threaded_file_transfer.cpp:274`).

Excused by a ghost or by the faults of a run, because the code does lose
something there:

- Shared files remembered by an installation that was refused are recorded for
  the next mod that succeeds (`mod_manager.cpp:1429`): counts are exact only
  without faults, and at least right with them (`Counted`).
- An uninstallation that fails or is cut off by a power loss after the
  deduplication has lowered the counts; repeating it lowers them again.
- The end of a file is lost unnoticed in `fclose`, whose result is ignored
  (`mod_manager.cpp:200`, `1641`, `1823`; with the 32 MB buffer of `setvbuf` a
  small file reaches the card only there), or in a short read, which ends a copy
  like its regular end (`mod_manager.cpp:191`): a file that is cut off counts as
  installed (`cut`, the fault `"short"`).
- Files a roll-back cannot remove stay (`mod_manager.cpp:2400`), cut off or
  whole (`cut`, the fault `"remove"`).
- `WriteJsonFile` ignores `fclose`, too: a rewriting that tears the file may be
  reported as a success (`Rewritten`).
- B after the installer's last look at its token: the installation is complete,
  reported as cancelled and not marked.
- The scan is started before the constructor has read `game_name.json`
  (`app.cpp:3813`, `3833`), without a lock: a game can be listed twice, without
  its star or without its name (`raced`).
- `changemodversion` of a favourite renames no key, as the key lies below
  `favorites$180`: name and star are gone at the next start (`spoiled`).
- A frame between the start of a scan and its first instruction starts another
  (`app.cpp:2217`, `3221`): the list of games to add is doubled, and B does not
  stop a scan that has not begun (`overlooked`, `Overlap`).
- A mod named while it is installed gets the key `dir$`
  (`app.cpp:4942`), under which no name is looked up; a type given to an
  installed mod looks for that key too, and a key that is renamed may meet one
  that is there (`spoiled`).
- `Dialog_MODLIST_TYPE_Menu` renames the directory first; when the key cannot be
  renamed, `MOD_PATH` and `MOD_TYPE` keep naming the old directory until the
  list is read again (`app.cpp:4946`).  A directory that cannot be removed, now
  empty, is missing from the list until then (`half`).
- An archive filed under the name of an existing directory is listed twice, and
  shares one key with an installed mod of its name; a directory cannot be
  renamed when the other of its two names exists, and the result of the
  operation is then lost (`BothNamesThere`, `ListedTwice`, `half`).
- A mod with a type whose object in the file has no `display_name` is called by
  its key.  `files_copied` counts every selected archive as filed, though one
  that cannot be moved is skipped (`app.cpp:5019`).
- A game whose add is stopped (`app.cpp:5184`) or fails after its directory was
  made is on the card, perhaps with mods, counts as added already and is in no
  list until the next start; so is a game that left the list though its
  directory could not be removed (`left`).  A game in whose directory the scan
  counts no mod is not listed at the next start, and cannot be added again
  either (`bare`).
- `SendObject` ignores whether the truncation to what was received succeeds
  (`ptp_responder_ptp_operations.cpp:514`): a failing card may leave the announced
  length (`announced`).
- A reader that ends early wakes nobody (`threaded_file_transfer.cpp:220`): a
  writer that asks for a buffer between the last one and `read_running = false`
  waits without a timeout, and so does `StopMtp`.  The model reaches this with
  sources that end early (`"short"`); `StopReturns` is checked without them.
- `ForceCloseSession` calls no callback: a session that an error has closed
  stays shown as connected, hence the one direction in `FlagsTrue`.  The keys
  look at the transfer flag and stop the server in two critical sections
  (`app.cpp:1424`), so that a transfer which begins between them is cut without
  a question.
- `tofavorite` and `notfavorite` remove the name before they add it elsewhere;
  `RemoveGame` and the add task ignore what the JSON calls return (`spoiled`).

## 7. What is not modelled, and abstractions

- Text, layout, progress numbers, sounds, pixels, Pinyin order, free space.
- Steps on a container are atomic although the code takes no lock for some of
  them (`mod_info.push_back`, the arrays of the scan): the outcomes of a torn
  container are undefined.
- The server's page (names, speed, progress), the file system proxies of
  `mtp_manager.cpp` (lines 1-735) and the contents of requests other than
  sending and receiving a file: such a request is one step that succeeds or
  fails.  A file of unknown length is a source that ends early.
- `ModList` has one game and leaves out the removal of its last mod, which
  removes the game (`GameList`), the order of names of one rank (`Place`) and
  the lists other menus keep: the list is forgotten when it is left.
- Directories below `/atmosphere` have no owner in the model.
- `InstalledComplete`, `InstallSparesOthers` and the refinements are checked
  without the fault `"short"`, so they say nothing of a write that is lost in
  `fclose`; and without `"remove"`, so they say nothing of what a roll-back
  cannot clear away.  Only `NoTruncatedFile`, `TypeOK`, `UninstallUncancelled`
  and `TaskEnds` are checked with them.  (`InstallSparesOthers` is proved
  whatever the faults.)
- When the writer's thread cannot be started (`threaded_file_transfer.cpp:376`)
  the reader goes on with data that is gone; that is undefined and left out.
- `unique_id`, the counter of entries that scan and add worker raise without a
  lock, is not in `GameList`, which tells entries apart by their directory.
- The frame loop and the add worker may rewrite `game_name.json` at the same
  time; `GameList` has one operation at a time, so this lost update is not in
  it.
- `AddGameList` leaves out the lock of the icon queue, what a thread asks of
  `avm` and the icon cache, the icons of the main list, and the fields of an
  entry that are read without the mutex of `entries_AddGame`.
- The components marked `not_modelled` in `PROJECT.json`, with their reasons:
  audio and the counters of the controller share no state with mods and games,
  the command buffers alternate on one thread, and drawing keeps none.
- Third-party code (yyjson, miniz, NanoVG, stb), more than half of
  the repository's lines, is left to its own projects: the models use what the
  program relies on of it, an ordered object with duplicate keys and an archive
  as a set of files with checksums.

## 8. Plan

In this order:

1. The main list: its cursor (that of `ModCursor` without removal) and the
   icons of its visible part, which share the queue with `AddGameList`.
2. The early end of a source in `FileTransfer`: a repaired `GetWriteBuf` and
   `EndRead`, with which `StopReturns` and `TruncatedToReceived` hold.
3. Audio initialisation beside `Cleanup`, if it carries more than the one
   hazard listed.
4. Proofs: `Counted` without `SharedWithinGame`, in the form the code keeps it
   per game directory; that the operations of `JsonStore` implement a map from
   keys to values as long as no key is repeated (`Claim` and `FileOf` say so for
   the two files); and the safety of the modules above as they are written.
