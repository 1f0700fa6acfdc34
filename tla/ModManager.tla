----------------------------- MODULE ModManager -----------------------------
(***************************************************************************)
(* Installing and uninstalling mods, the core of the program.              *)
(*                                                                         *)
(* A mod is a directory /mods2/<game>/<id>/<mod>, or the single .zip in    *)
(* it.  Installing copies its files to /atmosphere, uninstalling deletes   *)
(* them, and a trailing '$' in the directory's name records that the mod   *)
(* is installed.  Two mods may carry the same file with the same content:  *)
(* mod_file_common.json, one per game, counts the extra owners of such a   *)
(* file, and an uninstallation deletes only the files it does not list.    *)
(*                                                                         *)
(* An operation runs on a thread of its own (ModManager::getModInstallType *)
(* under App::ModInstalled or App::ModUninstalled) and polls a stop token; *)
(* the frame loop sets the token when B is pressed and, when the future is *)
(* ready, reports the result and renames the directory                     *)
(* (App::newUpdateDialogCopyProgress).  One action is one file system call *)
(* or one decision between two of them, so that a stop, an error, the end  *)
(* of the process or a power loss can come between any two.                *)
(***************************************************************************)
EXTENDS Naturals, FiniteSets

CONSTANTS
  Mods,       \* the mods that lie in /mods2
  User,       \* stands for the files put in /atmosphere by hand
  Files,      \* the target paths under /atmosphere
  Contents,   \* file contents, told apart as GetFileCrc32 tells them apart
  Missing,    \* content of a path where there is no file
  Partial,    \* content of a file that was opened for writing, not completed
  Games,      \* the /mods2/<game>/<id> directories
  Game,       \* Game[m]: the game directory that mod m lies in
  Kind,       \* Kind[m]: how getModInstallType and the installers see m
  Crc,        \* Crc[m][f]: the content mod m has for f, or Missing
  Faults,     \* <<fault, op>>: what may go wrong during an operation op
  MaxCount    \* bound: no installation once a file is recorded this often

Owners == Mods \cup {User}
Ops == {"install", "uninstall"}

(* "io": a directory or file cannot be opened, read, written or created,   *)
(* and the code notices.  "short": the end of a file is lost and it does   *)
(* not, see WriteTarget.  "json": mod_file_common.json is not updated.     *)
(* "clean": see Begin.                                                     *)
FaultKinds == {"cancel", "exit", "crash", "torn", "io", "short", "remove",
               "json", "rename", "clean"}

(* "stray" is a zip whose first level is not only contents/exefs_patches.  *)
Kinds == {"folder", "zip", "stray", "neither"}

ASSUME OwnersAssumption ==
  /\ IsFiniteSet(Mods)
  /\ User \notin Mods

ASSUME ContentsAssumption ==
  /\ Missing \notin Contents
  /\ Partial \notin Contents
  /\ Missing # Partial
  /\ Crc \in [Owners -> [Files -> Contents \cup {Missing}]]

ASSUME ModsAssumption ==
  /\ Game \in [Mods -> Games]
  /\ Kind \in [Mods -> Kinds]
  /\ Faults \subseteq FaultKinds \X Ops
  /\ MaxCount \in Nat

(* The target paths of the files that mod m carries.                       *)
FilesOf(m) == {f \in Files : Crc[m][f] # Missing}

VARIABLES
  (* on the SD card *)
  fs,            \* content of every target path
  common,        \* mod_file_common.json of every game: extra owners of a file
  torn,          \* games whose mod_file_common.json no longer parses
  installed,     \* owners whose files count as installed ('$' in the name)
  cut,           \* not in the code: files known to have lost their end
  (* in the ModManager object *)
  cached,        \* cached_conflicting_files: how often each path is in it
  (* the running task: its place in the code and its local lists *)
  pc,
  op,            \* operation_type
  mod,           \* the mod it works on (App::mod_index)
  todo,          \* files to scan, or cached_target_files to remove
  fresh,         \* files_to_extract / file_info_list: not written yet
  made,          \* extracted_files / copied_files_list: to undo
  result,        \* what getModInstallType returns
  (* in the App object *)
  stop,          \* stop_requested() of copy_task
  closing,       \* ~App is waiting for the task
  uninstalling,  \* mod_uninstalling
  clean          \* clean_button

card == <<fs, common, torn, installed, cut>>
lists == <<todo, fresh, made>>
flags == <<stop, closing, uninstalling, clean>>
vars == <<card, cached, pc, op, mod, lists, result, flags>>

PCs == {"idle", "classify", "scan", "mkdir", "copy", "rollback", "conflicts",
        "count", "dedup", "remove", "done"}

Fault(kind) == <<kind, op>> \in Faults

Nothing == [f \in Files |-> 0]

Init ==
  /\ fs = Crc[User]
  /\ common = [g \in Games |-> Nothing]
  /\ torn = {}
  /\ installed = {User}
  /\ cut = {}
  /\ cached = Nothing
  /\ pc = "idle"
  /\ op = "install"
  /\ mod \in Mods
  /\ todo = {} /\ fresh = {} /\ made = {}
  /\ result = FALSE
  /\ stop = FALSE /\ closing = FALSE /\ uninstalling = FALSE /\ clean = FALSE

-----------------------------------------------------------------------------
(* The task: getModInstallType and the installer it selects.               *)

Goto(label) == pc' = label

Finish(value) == Goto("done") /\ result' = value

(* The task works for App::ModInstalled or App::ModUninstalled: nothing it *)
(* does changes the '$' names or the App's flags.                          *)
TaskFrame == UNCHANGED <<installed, cut, op, mod, flags>>

(* The same for the steps that open, write or remove a target, which say   *)
(* themselves what happens to cut.  It records the only losses that the    *)
(* code has no answer to: an end of file that was lost without a sign, a   *)
(* file that the clean-up could not remove, and one cut off at power loss. *)
FileFrame == UNCHANGED <<installed, op, mod, flags>>

(* The directory is listed, the stop token polled, the kind dispatched on. *)
Classify ==
  /\ pc = "classify"
  /\ \/ /\ stop \/ Kind[mod] = "neither" \/ Fault("io")
        /\ Finish(FALSE)
        /\ UNCHANGED todo
     \/ /\ ~stop
        /\ Kind[mod] # "neither"
        /\ Goto(IF op = "install" THEN "scan" ELSE "count")
        /\ todo' = FilesOf(mod)
        /\ UNCHANGED result
  /\ TaskFrame
  /\ UNCHANGED <<fs, common, torn, cached, fresh, made>>

(* Mutation of ScanNew: a file that is not shared is remembered as well.   *)
ScanNew(f) ==
  /\ pc = "scan" /\ ~stop
  /\ f \in todo
  /\ fs[f] = Missing
  /\ todo' = todo \ {f}
  /\ fresh' = fresh \cup {f}
  /\ TaskFrame
  /\ UNCHANGED <<fs, common, torn, cached, pc, made, result>>

(* ...one that is there with the same CRC32 is remembered as shared...     *)
ScanShared(f) ==
  /\ pc = "scan" /\ ~stop
  /\ f \in todo
  /\ fs[f] = Crc[mod][f]
  /\ todo' = todo \ {f}
  /\ cached' = [cached EXCEPT ![f] = @ + 1]
  /\ TaskFrame
  /\ UNCHANGED <<fs, common, torn, pc, fresh, made, result>>

(* Mutation of ScanConflict: the file is overwritten.                      *)
ScanConflictOverwritten(f) ==
  /\ pc = "scan" /\ ~stop
  /\ f \in todo
  /\ fs[f] \notin {Missing, Crc[mod][f]}
  /\ todo' = todo \ {f}
  /\ fresh' = fresh \cup {f}
  /\ TaskFrame
  /\ UNCHANGED <<fs, common, torn, cached, pc, made, result>>

(* ...and one with another CRC32 ends the installation.                    *)
ScanConflict(f) ==
  /\ pc = "scan" /\ ~stop
  /\ f \in todo
  /\ fs[f] \notin {Missing, Crc[mod][f]}
  /\ Finish(FALSE)
  /\ TaskFrame
  /\ UNCHANGED <<fs, common, torn, cached, lists>>

(* The pass is over, by a stop, an error or at its end; a zip's first      *)
(* level is only looked at now.                                            *)
ScanEnd ==
  /\ pc = "scan"
  /\ \/ /\ stop \/ (todo = {} /\ Kind[mod] = "stray") \/ Fault("io")
        /\ Finish(FALSE)
     \/ /\ ~stop /\ todo = {} /\ Kind[mod] # "stray"
        /\ Goto("mkdir")
        /\ UNCHANGED result
  /\ TaskFrame
  /\ UNCHANGED <<fs, common, torn, cached, lists>>

(* createDirectoriesBatch, then copyFilesBatch or extractMod is entered,   *)
(* which refuses an empty list.  Directories are not part of the state.    *)
MakeDirectories ==
  /\ pc = "mkdir"
  /\ \/ /\ stop \/ fresh = {} \/ Fault("io")
        /\ Finish(FALSE)
     \/ /\ ~stop /\ fresh # {}
        /\ Goto("copy")
        /\ UNCHANGED result
  /\ TaskFrame
  /\ UNCHANGED <<fs, common, torn, cached, lists>>

Open(f) == f \in fresh /\ f \in made

(* The next file is recorded for the clean-up, then opened for writing.    *)
OpenTarget(f) ==
  /\ pc = "copy" /\ ~stop
  /\ f \in fresh
  /\ ~ \E g \in Files : Open(g)
  /\ made' = made \cup {f}
  /\ fs' = [fs EXCEPT ![f] = Partial]
  /\ cut' = cut \ {f}
  /\ FileFrame
  /\ UNCHANGED <<common, torn, cached, pc, todo, fresh, result>>

(* The file is written to its end and closed.  Its end can be lost without *)
(* a sign: a read that comes back short leaves the loop, and what is still *)
(* in the 32 MB buffer of setvbuf, a whole small file, reaches the card in *)
(* fclose, whose result is ignored.  The file counts as written then, too. *)
WriteTarget(f) ==
  /\ pc = "copy" /\ ~stop
  /\ Open(f)
  /\ \/ /\ fs' = [fs EXCEPT ![f] = Crc[mod][f]]
        /\ UNCHANGED cut
     \/ /\ Fault("short")
        /\ cut' = cut \cup {f}
        /\ UNCHANGED fs
  /\ fresh' = fresh \ {f}
  /\ FileFrame
  /\ UNCHANGED <<common, torn, cached, pc, todo, made, result>>

(* Mutation of AbortCopy: the clean-up is forgotten.                       *)
AbortCopyUncleaned ==
  /\ pc = "copy"
  /\ fresh # {}
  /\ stop \/ Fault("io")
  /\ Finish(FALSE)
  /\ TaskFrame
  /\ UNCHANGED <<fs, common, torn, cached, lists>>

(* A stop, or an error that the code notices, before the next file counts  *)
(* as written: it cannot be opened, or fread or fwrite reports the error.  *)
AbortCopy ==
  /\ pc = "copy"
  /\ fresh # {}
  /\ stop \/ Fault("io")
  /\ Goto("rollback")
  /\ TaskFrame
  /\ UNCHANGED <<fs, common, torn, cached, lists, result>>

(* Mutation of CopyEnd: the shared files are not recorded.                 *)
CopyEndUnrecorded ==
  /\ pc = "copy"
  /\ fresh = {}
  /\ Finish(TRUE)
  /\ TaskFrame
  /\ UNCHANGED <<fs, common, torn, cached, lists>>

CopyEnd ==
  /\ pc = "copy"
  /\ fresh = {}
  /\ Goto("conflicts")
  /\ TaskFrame
  /\ UNCHANGED <<fs, common, torn, cached, lists, result>>

(* cleanupCopiedFilesAndDirectories and its twin _forError.                *)
RemoveCopied(f) ==
  /\ pc = "rollback"
  /\ f \in made
  /\ made' = made \ {f}
  /\ \/ /\ fs' = [fs EXCEPT ![f] = Missing]
        /\ UNCHANGED cut
     \/ /\ Fault("remove")
        /\ cut' = cut \cup {f}
        /\ UNCHANGED fs
  /\ FileFrame
  /\ UNCHANGED <<common, torn, cached, pc, todo, fresh, result>>

RollbackEnd ==
  /\ pc = "rollback"
  /\ made = {}
  /\ Finish(FALSE)
  /\ TaskFrame
  /\ UNCHANGED <<fs, common, torn, cached, lists>>

(* CachedConflictingFiles: one more owner for every remembered path, in    *)
(* the game of the mod just installed.  A failed update is not noticed.    *)
RecordConflict(f) ==
  /\ pc = "conflicts"
  /\ cached[f] > 0
  /\ cached' = [cached EXCEPT ![f] = @ - 1]
  /\ \/ /\ Game[mod] \notin torn
        /\ common' = [common EXCEPT ![Game[mod]][f] = @ + 1]
     \/ /\ Game[mod] \in torn \/ Fault("json")
        /\ UNCHANGED common
  /\ TaskFrame
  /\ UNCHANGED <<fs, torn, pc, lists, result>>

RecordEnd ==
  /\ pc = "conflicts"
  /\ \A f \in Files : cached[f] = 0
  /\ Finish(TRUE)
  /\ TaskFrame
  /\ UNCHANGED <<fs, common, torn, cached, lists>>

(* Uninstallation: the files of the mod are listed.  A stop or an error    *)
(* ends it, but a folder's walk that was cut short, or could not open a    *)
(* directory, goes on with the files it has seen.                          *)
CountFilesToRemove ==
  /\ pc = "count"
  /\ \/ /\ stop \/ (todo = {} /\ Kind[mod] = "folder") \/ Fault("io")
        /\ Finish(FALSE)
        /\ UNCHANGED todo
     \/ /\ stop \/ Fault("io")
        /\ Kind[mod] = "folder"
        /\ todo' \in (SUBSET todo) \ {{}}
        /\ Goto("dedup")
        /\ UNCHANGED result
     \/ /\ ~stop /\ (todo # {} \/ Kind[mod] # "folder")
        /\ Goto("dedup")
        /\ UNCHANGED <<todo, result>>
  /\ TaskFrame
  /\ UNCHANGED <<fs, common, torn, cached, fresh, made>>

(* Mutations of the two definitions below: an owner too many is needed to  *)
(* keep a file; no file, or every file of the mod, loses an owner.         *)
UnlistedOffByOne == {f \in todo : common[Game[mod]][f] <= 1}
LoweredNever == {}
LoweredAlways == todo

(* The files that mod_file_common.json does not list are to be deleted...  *)
Unlisted == {f \in todo : common[Game[mod]][f] = 0}

(* ...and every other one loses an owner.                                  *)
Lowered == todo \ Unlisted

(* ProcessModFileCommonDeduplication, which writes the file back.          *)
Deduplicate ==
  /\ pc = "dedup"
  /\ todo' = Unlisted
  /\ \/ common' = [common EXCEPT ![Game[mod]] =
                     [f \in Files |-> IF f \in Lowered THEN @[f] - 1 ELSE @[f]]]
     \/ Fault("json") /\ UNCHANGED common
  /\ Goto("remove")
  /\ result' = TRUE
  /\ TaskFrame
  /\ UNCHANGED <<fs, torn, cached, fresh, made>>

(* RemoveModFilesFromCache: a file that cannot be removed spoils the       *)
(* result, and the loop goes on; a stop leaves it.                         *)
RemoveTarget(f) ==
  /\ pc = "remove" /\ ~stop
  /\ f \in todo
  /\ todo' = todo \ {f}
  /\ \/ /\ fs' = [fs EXCEPT ![f] = Missing]
        /\ UNCHANGED result
     \/ /\ Fault("remove") /\ fs[f] # Missing
        /\ result' = FALSE
        /\ UNCHANGED fs
  /\ TaskFrame
  /\ UNCHANGED <<common, torn, cached, pc, fresh, made>>

(* Mutation of RemoveEnd: a stop does not leave the loop.                  *)
RemoveEndUnstopped ==
  /\ pc = "remove"
  /\ todo = {} /\ Goto("done") /\ UNCHANGED result
  /\ TaskFrame
  /\ UNCHANGED <<fs, common, torn, cached, lists>>

RemoveEnd ==
  /\ pc = "remove"
  /\ \/ stop /\ todo # {} /\ Finish(FALSE)
     \/ todo = {} /\ Goto("done") /\ UNCHANGED result
  /\ TaskFrame
  /\ UNCHANGED <<fs, common, torn, cached, lists>>

TaskStep ==
  \/ Classify \/ ScanEnd \/ MakeDirectories
  \/ AbortCopy \/ CopyEnd \/ RollbackEnd \/ RecordEnd
  \/ CountFilesToRemove \/ Deduplicate \/ RemoveEnd
  \/ \E f \in Files : \/ ScanNew(f) \/ ScanShared(f) \/ ScanConflict(f)
                      \/ OpenTarget(f) \/ WriteTarget(f)
                      \/ RemoveCopied(f) \/ RecordConflict(f)
                      \/ RemoveTarget(f)

-----------------------------------------------------------------------------
(* The App: frames of the main thread.                                     *)

(* A (or Y, which sets clean_button) on a mod and a confirmed dialog:      *)
(* MODinstallORuninstall, then ModInstalled or ModUninstalled.  Y on a mod *)
(* without '$', the forced clean-up, is the fault "clean".                 *)
Begin(m, y) ==
  LET forced == clean \/ y
      remove == forced \/ m \in installed
      limit  == \A f \in FilesOf(m) : cached[f] + common[Game[m]][f] < MaxCount
  IN /\ pc = "idle" /\ ~closing
     /\ forced => m \in installed \/ <<"clean", "uninstall">> \in Faults
     /\ remove \/ limit
     /\ Goto("classify")
     /\ op' = IF remove THEN "uninstall" ELSE "install"
     /\ mod' = m
     /\ uninstalling' = (uninstalling \/ remove)
     /\ clean' = forced
     /\ stop' = FALSE
     /\ result' = FALSE
     /\ todo' = {} /\ fresh' = {} /\ made' = {}
     /\ UNCHANGED <<card, cached, closing>>

(* Mutation of Cancel: B also stops an uninstallation.                     *)
CancelAny ==
  /\ pc # "idle" /\ ~closing /\ ~stop
  /\ Fault("cancel")
  /\ stop' = TRUE
  /\ UNCHANGED <<card, cached, pc, op, mod, lists, result>>
  /\ UNCHANGED <<closing, uninstalling, clean>>

(* B in the progress dialog; ignored while mod_uninstalling is set.        *)
Cancel ==
  /\ pc # "idle" /\ ~closing /\ ~stop
  /\ Fault("cancel")
  /\ ~uninstalling
  /\ stop' = TRUE
  /\ UNCHANGED <<card, cached, pc, op, mod, lists, result>>
  /\ UNCHANGED <<closing, uninstalling, clean>>

(* ChangeModName: the directory gets or loses its '$'.                     *)
ToggleInstalled ==
  IF mod \in installed THEN installed \ {mod} ELSE installed \cup {mod}

(* A stop request wins over the result, and a forced clean-up of a mod     *)
(* without '$' has nothing to rename.  The mutation ignores the result.    *)
RenamesAnyway == ~stop /\ (mod \in installed \/ ~clean)
Renames == ~stop /\ result /\ (mod \in installed \/ ~clean)

(* The future is ready: newUpdateDialogCopyProgress.                       *)
CollectResult ==
  /\ pc = "done" /\ ~closing
  /\ Goto("idle")
  /\ \/ Renames /\ installed' = ToggleInstalled
     \/ (~Renames \/ Fault("rename")) /\ UNCHANGED installed
  /\ uninstalling' = (stop /\ uninstalling)
  /\ clean' = FALSE
  /\ stop' = FALSE
  /\ todo' = {} /\ fresh' = {} /\ made' = {}
  /\ UNCHANGED <<fs, common, torn, cut, cached, op, mod, result, closing>>

(* The app is closed: ~App requests a stop and waits for the thread.       *)
Close ==
  /\ ~closing
  /\ pc = "idle" \/ Fault("exit")
  /\ closing' = TRUE
  /\ stop' = (pc # "idle")
  /\ UNCHANGED <<card, cached, pc, op, mod, lists, result, uninstalling, clean>>

(* The process is gone, what it kept in memory with it, and starts again.  *)
Restart ==
  /\ Goto("idle")
  /\ cached' = Nothing
  /\ todo' = {} /\ fresh' = {} /\ made' = {}
  /\ stop' = FALSE /\ closing' = FALSE /\ uninstalling' = FALSE /\ clean' = FALSE
  /\ UNCHANGED <<fs, installed, op, mod, result>>

Reopen ==
  /\ closing /\ pc \in {"idle", "done"}
  /\ Restart
  /\ UNCHANGED <<common, torn, cut>>

(* Power loss between two calls.  While mod_file_common.json is rewritten  *)
(* ("torn") it may also be left cut off: WriteJsonFile truncates it first, *)
(* and a file that does not parse lists nothing and takes no update.       *)
Crash ==
  /\ pc # "idle"
  /\ Fault("crash")
  /\ Restart
  /\ cut' = cut \cup {f \in Files : fs[f] = Partial}
  /\ \/ UNCHANGED <<common, torn>>
     \/ /\ Fault("torn") /\ pc \in {"conflicts", "dedup"}
        /\ common' = [common EXCEPT ![Game[mod]] = Nothing]
        /\ torn' = torn \cup {Game[mod]}

Next ==
  \/ TaskStep
  \/ \E m \in Mods, y \in BOOLEAN : Begin(m, y)
  \/ Cancel \/ CollectResult \/ Close \/ Reopen \/ Crash

Spec == Init /\ [][Next]_vars

(* The task's thread runs and the frame loop polls it: both go on.  The    *)
(* user, the faults and the power supply owe nothing.                      *)
FairSpec == Spec /\ WF_vars(TaskStep \/ CollectResult \/ Reopen)
-----------------------------------------------------------------------------
(* Properties.                                                             *)

TypeOK ==
  /\ fs \in [Files -> Contents \cup {Missing, Partial}]
  /\ common \in [Games -> [Files -> Nat]]
  /\ torn \subseteq Games
  /\ installed \subseteq Owners
  /\ cut \subseteq Files
  /\ cached \in [Files -> Nat]
  /\ pc \in PCs /\ op \in Ops /\ mod \in Mods
  /\ todo \subseteq Files /\ fresh \subseteq Files /\ made \subseteq Files
  /\ result \in BOOLEAN
  /\ stop \in BOOLEAN /\ closing \in BOOLEAN
  /\ uninstalling \in BOOLEAN /\ clean \in BOOLEAN

(* The installed owners of a file, and those that remain if the running    *)
(* uninstallation is taken as done.                                        *)
Holders(f) == {m \in installed : f \in FilesOf(m)}

Removing(m) == op = "uninstall" /\ mod = m /\ pc \in {"remove", "done"}

(* A mod that is shown as installed has all its files under /atmosphere,   *)
(* each with its own content, until its uninstallation starts to delete:   *)
(* no installation, cancellation, failure or uninstallation of another mod *)
(* takes one away, nor a file that was put there by hand.  That holds as   *)
(* long as no end of a file is lost unnoticed (no fault "short").          *)
InstalledComplete ==
  \A m \in installed : ~Removing(m) =>
    \A f \in FilesOf(m) : fs[f] = Crc[m][f]

(* A file that was cut off while it was written outlives its operation     *)
(* only where the code cannot help it: a stop or an error that it notices, *)
(* at any file, in any number of installations one after the other, has    *)
(* every half-written file removed, and the files left are those whose end *)
(* was lost in an unchecked fclose or read, that could not be removed, or  *)
(* that were being written when the power went.                            *)
NoTruncatedFile ==
  pc \notin {"copy", "rollback"} => \A f \in Files : fs[f] = Partial => f \in cut

(* Between operations mod_file_common.json counts exactly the extra owners *)
(* of every file, whatever the order of installations and uninstallations. *)
CountsExact ==
  pc = "idle" =>
    \A m \in Mods : \A f \in FilesOf(m) :
      common[Game[m]][f] = IF Holders(f) = {} THEN 0
                                             ELSE Cardinality(Holders(f)) - 1

(* B never interrupts an uninstallation: once the shared counts have been  *)
(* lowered only the end of the process keeps the files from being deleted. *)
UninstallUncancelled ==
  op = "uninstall" /\ pc # "idle" /\ ~closing => ~stop

(* An installation never overwrites or deletes a file it has not created.  *)
InstallSparesOthers ==
  [][op = "install" => \A f \in Files :
       fs'[f] # fs[f] => fs[f] = Missing \/ f \in made]_vars

(* Every operation ends and is reported, whatever happens to it.           *)
TaskEnds == pc # "idle" ~> pc = "idle"

(* When a game has no mod_file_common.json, all files of a mod of it can   *)
(* be deleted: none belongs to another installed mod.                      *)
UnlistedMeansUnshared ==
  [][pc = "remove" => \A f \in Files :
       fs'[f] # fs[f] => Holders(f) \subseteq {mod}]_vars

(* The card as the abstract specification sees it: what the running        *)
(* operation has done so far is not there yet.                             *)
CommittedCard ==
  [f \in Files |->
     IF op = "install" /\ f \in made THEN Missing
     ELSE IF Removing(mod) /\ mod \in installed /\ f \in FilesOf(mod) THEN Crc[mod][f]
     ELSE fs[f]]

Ownership == INSTANCE FileOwnership WITH card <- CommittedCard, Leaks <- FALSE
LeakyOwnership == INSTANCE FileOwnership WITH card <- CommittedCard, Leaks <- TRUE

(* Installing and uninstalling implement FileOwnership: exactly when       *)
(* nothing fails, and up to files left behind when installations are       *)
(* cancelled or fail.  Neither allows for an end of a file that is lost    *)
(* unnoticed (fault "short").                                              *)
ImplementsOwnership == Ownership!Spec
ImplementsLeakyOwnership == LeakyOwnership!Spec
=============================================================================
