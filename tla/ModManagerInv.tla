--------------------------- MODULE ModManagerInv ---------------------------
(***************************************************************************)
(* The inductive invariant behind ModManager's InstalledComplete.          *)
(*                                                                         *)
(* The heart of it is Counted: mod_file_common.json may count too many     *)
(* owners of a file (cached_conflicting_files outlives a failed            *)
(* installation), never too few, so that an uninstallation may leave a     *)
(* file behind but does not take one from another mod.                     *)
(***************************************************************************)
EXTENDS ModManager

(* The mods that carry the same file lie in the same game directory.       *)
SharedWithinGame ==
  \A m, n \in Mods : FilesOf(m) \cap FilesOf(n) # {} => Game[m] = Game[n]

(* What may go wrong is confined to installations.                         *)
OnlyInstallFaults ==
  Faults \subseteq {"cancel", "exit", "crash", "io", "remove", "rename"} \X {"install"}

(* Past the deduplication the mod being uninstalled no longer counts.      *)
Going(m) ==
  op = "uninstall" /\ mod = m /\ (pc = "remove" \/ (pc = "done" /\ result))

Staying(f) == {m \in installed : f \in FilesOf(m) /\ ~Going(m)}

Count(m, f) == common[Game[m]][f]

Complete ==
  \A m \in installed : ~Going(m) => \A f \in FilesOf(m) : fs[f] = Crc[m][f]

Counted ==
  /\ torn = {}
  /\ \A m \in Mods : \A f \in FilesOf(m) : Cardinality(Staying(f)) <= Count(m, f) + 1

InstallPCs == {"scan", "mkdir", "copy", "rollback", "conflicts"}
UninstallPCs == {"count", "dedup", "remove"}

(* The task's place in the code fits its operation and the mod's state.    *)
Placed ==
  /\ pc \in InstallPCs => op = "install"
  /\ pc \in UninstallPCs => op = "uninstall"
  /\ pc # "idle" /\ op = "install" => mod \notin installed
  /\ pc # "idle" /\ op = "uninstall" =>
       mod \in installed /\ ~stop /\ ~closing
  /\ pc = "idle" => ~clean

(* What the installation has seen, remembered, and written so far.         *)
Scanned ==
  /\ pc = "classify" => fresh = {} /\ made = {}
  /\ pc \in InstallPCs =>
       /\ todo \cup fresh \cup made \subseteq FilesOf(mod)
       /\ \A f \in fresh \cup made : Staying(f) = {}
       /\ pc # "rollback" =>
            /\ \A f \in fresh \ made : fs[f] = Missing
            /\ \A f \in made \ fresh : fs[f] = Crc[mod][f]

Remembered ==
  /\ pc \in {"scan", "mkdir", "copy"} =>
       \A f \in FilesOf(mod) \ (todo \cup fresh \cup made) :
         cached[f] > 0 /\ fs[f] = Crc[mod][f]
  /\ pc \in {"mkdir", "copy", "conflicts"} => todo = {}
  /\ pc = "conflicts" =>
       \A f \in FilesOf(mod) :
         /\ fs[f] = Crc[mod][f]
         /\ Cardinality(Staying(f)) <= Count(mod, f) + cached[f]
  /\ pc = "done" /\ op = "install" /\ result =>
       \A f \in FilesOf(mod) :
         /\ fs[f] = Crc[mod][f]
         /\ Cardinality(Staying(f)) <= Count(mod, f)

(* What the uninstallation is about to delete belongs to no one else.      *)
Removable ==
  /\ pc = "dedup" => todo = FilesOf(mod)
  /\ pc = "count" => todo = FilesOf(mod)
  /\ pc = "remove" => result
  /\ pc = "remove" => \A f \in todo : f \in FilesOf(mod) /\ Staying(f) = {}

IInv ==
  TypeOK /\ Complete /\ Counted /\ Placed /\ Scanned /\ Remembered /\ Removable

-----------------------------------------------------------------------------
(* No truncated file, and FileOwnership up to files left behind.            *)

(* An installation is not cut off by a power loss, and what it clears away  *)
(* goes: nothing but its last look at the token comes between it and its    *)
(* clean-up.                                                                *)
NothingLeftBehind ==
  Faults \cap ({"crash", "short", "remove"} \X {"install"}) = {}

(* A file that is cut off is one the installation has still to write, or to *)
(* clear away.                                                              *)
Unfinished ==
  \A f \in Files : fs[f] = Partial =>
    /\ pc \in {"copy", "rollback"} /\ f \in made
    /\ pc = "copy" => f \in fresh

(* The same without that assumption: what is cut off and left behind is     *)
(* known to have lost its end.                                              *)
CutOff ==
  \A f \in Files : fs[f] = Partial =>
    \/ f \in cut
    \/ /\ pc \in {"copy", "rollback"} /\ f \in made
       /\ pc = "copy" => f \in fresh

(* Only an installation that writes or has written, and is not undone yet,  *)
(* has made anything.                                                       *)
Made ==
  /\ made \subseteq FilesOf(mod)
  /\ op = "uninstall" => made = {}
  /\ pc \in {"idle", "classify", "scan", "mkdir"} => made = {}
  /\ pc = "done" /\ ~result => made = {}

(* What the uninstallation has deleted so far belonged to no one else.      *)
Deleted ==
  \A m \in Mods : Going(m) =>
    \A f \in FilesOf(m) : fs[f] = Crc[m][f] \/ (fs[f] = Missing /\ Staying(f) = {})

OwnershipInv == IInv /\ Unfinished /\ Made /\ Deleted

-----------------------------------------------------------------------------
(* Exact counts, and FileOwnership exactly.                                 *)

(* No mod conflicts with another or with the user's files, none is refused  *)
(* for its form or for having no file of its own.                           *)
Compatible ==
  /\ \A m, n \in Owners : \A f \in FilesOf(m) \cap FilesOf(n) : Crc[m][f] = Crc[n][f]
  /\ \A m \in Mods : Kind[m] # "stray"
  /\ \A m \in Mods : \E f \in FilesOf(m) : \A n \in Owners \ {m} : f \notin FilesOf(n)

(* Every operation goes through to its end.                                 *)
Undisturbed ==
  /\ ~stop
  /\ op = "install" => ~clean
  /\ closing => pc = "idle"
  /\ pc # "rollback"
  /\ pc \in InstallPCs \cup UninstallPCs => Kind[mod] # "neither"
  /\ pc = "done" => result \/ Kind[mod] = "neither"
  /\ pc = "done" /\ op = "uninstall" /\ result => todo = {}

(* What an installation has remembered is what it shares.                   *)
RememberedExactly ==
  \A f \in Files :
    /\ pc \notin InstallPCs => cached[f] = 0
    /\ pc \in InstallPCs /\ f \notin FilesOf(mod) => cached[f] = 0
    /\ pc \in {"scan", "mkdir", "copy"} /\ f \in FilesOf(mod) =>
         cached[f] = IF f \in todo \cup fresh \cup made THEN 0 ELSE 1

(* The extra owners of a file: the mod being installed counts from the time *)
(* it is recorded.                                                          *)
CountedExactly ==
  \A m \in Mods : \A f \in FilesOf(m) :
    LET owners == Cardinality(Staying(f))
        extra  == IF owners = 0 THEN 0 ELSE owners - 1
    IN  Count(m, f) =
          IF f \in FilesOf(mod) /\ pc = "conflicts" THEN owners - cached[f]
          ELSE IF f \in FilesOf(mod) /\ pc = "done" /\ op = "install" /\ result THEN owners
          ELSE extra

(* A file that nobody owns is on its way in or out.                         *)
Owned ==
  \A f \in Files :
    fs[f] # Missing => \/ Staying(f) # {} \/ f \in made
                       \/ pc = "remove" /\ f \in todo

Undisturbing == SharedWithinGame /\ Compatible /\ Faults = {}

ExactInv ==
  OwnershipInv /\ Undisturbed /\ RememberedExactly /\ CountedExactly /\ Owned
=============================================================================
