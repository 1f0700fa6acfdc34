--------------------------- MODULE FileOwnership ---------------------------
(***************************************************************************)
(* What installing and uninstalling promise about the SD card: a file is   *)
(* there as long as one of its owners is installed, with the content that  *)
(* owner wants, and it goes with the last of them.  An operation is one    *)
(* step here.                                                              *)
(***************************************************************************)
CONSTANTS
  Mods, User, Files, Contents, Missing, Crc,
  Leaks        \* TRUE: files may be left behind, but never one taken away

FilesOf(m) == {f \in Files : Crc[m][f] # Missing}

VARIABLES
  installed,   \* the owners that count as installed
  card         \* content of every path

vars == <<installed, card>>

Init == installed = {User} /\ card = Crc[User]

Held(f, owners) == \E m \in owners : f \in FilesOf(m)

(* The mod's files are added; none of them was there with another content. *)
Install(m) ==
  /\ m \notin installed
  /\ \A f \in FilesOf(m) : card[f] \in {Missing, Crc[m][f]}
  /\ installed' = installed \cup {m}
  /\ card' = [f \in Files |-> IF f \in FilesOf(m) THEN Crc[m][f] ELSE card[f]]

(* The mod's files go, except those another installed owner needs.         *)
Uninstall(m) ==
  /\ m \in installed
  /\ installed' = installed \ {m}
  /\ card' \in [Files -> Contents \cup {Missing}]
  /\ \A f \in Files :
       \/ card'[f] = card[f] /\ (Leaks \/ Held(f, installed') \/ f \notin FilesOf(m))
       \/ card'[f] = Missing /\ f \in FilesOf(m) /\ ~Held(f, installed')

(* An installation that is reported as cancelled leaves files of its mod.  *)
Leave(m) ==
  /\ Leaks
  /\ m \notin installed
  /\ \A f \in FilesOf(m) : card[f] \in {Missing, Crc[m][f]}
  /\ card' = [f \in Files |-> IF f \in FilesOf(m) THEN Crc[m][f] ELSE card[f]]
  /\ UNCHANGED installed

Next == \E m \in Mods : Install(m) \/ Uninstall(m) \/ Leave(m)

Spec == Init /\ [][Next]_vars
=============================================================================
