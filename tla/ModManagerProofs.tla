-------------------------- MODULE ModManagerProofs --------------------------
(***************************************************************************)
(* Proofs about ModManager for any mods, files, contents and games.        *)
(***************************************************************************)
EXTENDS ModManagerInv, FiniteSetTheorems, TLAPS

(***************************************************************************)
(* Every variable keeps its type.                                          *)
(***************************************************************************)

LEMMA ContentType ==
  ASSUME NEW m \in Owners, NEW f \in Files
  PROVE  Crc[m][f] \in Contents \cup {Missing}
BY ContentsAssumption

LEMMA InitType == Init => TypeOK
<1> SUFFICES ASSUME Init PROVE TypeOK
  OBVIOUS
<1>1. fs \in [Files -> Contents \cup {Missing, Partial}]
  BY ContentsAssumption DEF Init, Owners
<1> QED
  BY <1>1 DEF Init, TypeOK, Nothing, Owners, Ops, PCs

LEMMA ScanType ==
  ASSUME TypeOK, NEW f \in Files,
         ScanNew(f) \/ ScanShared(f) \/ ScanConflict(f)
  PROVE  TypeOK'
<1> USE DEF TypeOK, TaskFrame, flags, lists, Goto, Finish, PCs
<1>1. CASE ScanNew(f)
  BY <1>1 DEF ScanNew
<1>2. CASE ScanShared(f)
  BY <1>2 DEF ScanShared
<1>3. CASE ScanConflict(f)
  BY <1>3 DEF ScanConflict
<1> QED
  BY <1>1, <1>2, <1>3

LEMMA CopyType ==
  ASSUME TypeOK, NEW f \in Files,
         OpenTarget(f) \/ WriteTarget(f) \/ RemoveCopied(f)
  PROVE  TypeOK'
<1> USE DEF TypeOK, FileFrame, flags, lists, Goto, Finish, PCs
<1>1. CASE OpenTarget(f)
  BY <1>1 DEF OpenTarget
<1>2. CASE WriteTarget(f)
  <2>1. Crc[mod][f] \in Contents \cup {Missing}
    BY ContentType DEF Owners
  <2> QED
    BY <1>2, <2>1 DEF WriteTarget
<1>3. CASE RemoveCopied(f)
  BY <1>3 DEF RemoveCopied
<1> QED
  BY <1>1, <1>2, <1>3

LEMMA AccountType ==
  ASSUME TypeOK, NEW f \in Files,
         RecordConflict(f) \/ RemoveTarget(f)
  PROVE  TypeOK'
<1> USE DEF TypeOK, TaskFrame, flags, lists, Goto, Finish, PCs
<1>1. CASE RecordConflict(f)
  <2>1. Game[mod] \in Games
    BY ModsAssumption
  <2>2. cached[f] - 1 \in Nat
    BY <1>1 DEF RecordConflict
  <2>3. cached' \in [Files -> Nat]
    BY <1>1, <2>2 DEF RecordConflict
  <2> DEFINE counted == [common[Game[mod]] EXCEPT ![f] = @ + 1]
  <2>4. counted \in [Files -> Nat]
    BY <2>1
  <2>5. common' \in {common, [common EXCEPT ![Game[mod]] = counted]}
    BY <1>1 DEF RecordConflict
  <2>6. common' \in [Games -> [Files -> Nat]]
    BY <2>1, <2>4, <2>5
  <2> QED
    BY <1>1, <2>3, <2>6 DEF RecordConflict
<1>2. CASE RemoveTarget(f)
  BY <1>2 DEF RemoveTarget
<1> QED
  BY <1>1, <1>2

LEMMA DeduplicateType ==
  ASSUME TypeOK, Deduplicate
  PROVE  TypeOK'
<1> USE DEF TypeOK, TaskFrame, flags, lists, Goto, PCs
<1>1. Game[mod] \in Games
  BY ModsAssumption
<1>2. todo' = {f \in todo : common[Game[mod]][f] = 0}
  BY DEF Deduplicate, Unlisted
<1>3. \A f \in todo \ todo' : common[Game[mod]][f] - 1 \in Nat
  BY <1>1, <1>2
<1>4. common' \in [Games -> [Files -> Nat]]
  <2>1. \A f \in Lowered : common[Game[mod]][f] - 1 \in Nat
    BY <1>2, <1>3 DEF Lowered, Unlisted
  <2> DEFINE c == [f \in Files |-> IF f \in Lowered THEN common[Game[mod]][f] - 1
                                                   ELSE common[Game[mod]][f]]
  <2>2. c \in [Files -> Nat]
    BY <1>1, <2>1
  <2>3. common' = [common EXCEPT ![Game[mod]] = c] \/ common' = common
    BY DEF Deduplicate
  <2> HIDE DEF c
  <2> QED BY <1>1, <2>2, <2>3
<1> QED
  BY <1>2, <1>4 DEF Deduplicate, Unlisted, Lowered

LEMMA PhaseType ==
  ASSUME TypeOK,
         \/ Classify \/ ScanEnd \/ MakeDirectories \/ AbortCopy \/ CopyEnd
         \/ RollbackEnd \/ RecordEnd \/ CountFilesToRemove \/ RemoveEnd
  PROVE  TypeOK'
<1> USE DEF TypeOK, TaskFrame, flags, lists, Goto, Finish, PCs
<1>1. CASE Classify
  BY <1>1 DEF Classify, FilesOf
<1>2. CASE ScanEnd \/ MakeDirectories \/ AbortCopy \/ CopyEnd
  BY <1>2 DEF ScanEnd, MakeDirectories, AbortCopy, CopyEnd
<1>3. CASE RollbackEnd \/ RecordEnd \/ RemoveEnd
  BY <1>3 DEF RollbackEnd, RecordEnd, RemoveEnd
<1>4. CASE CountFilesToRemove
  BY <1>4 DEF CountFilesToRemove
<1> QED
  BY <1>1, <1>2, <1>3, <1>4

LEMMA AppType ==
  ASSUME TypeOK,
         \/ \E m \in Mods, y \in BOOLEAN : Begin(m, y)
         \/ Cancel \/ CollectResult \/ Close \/ Reopen \/ Crash
  PROVE  TypeOK'
<1> USE DEF TypeOK, flags, lists, card, Goto, PCs
<1>1. CASE \E m \in Mods, y \in BOOLEAN : Begin(m, y)
  BY <1>1 DEF Begin, Ops
<1>2. CASE Cancel \/ Close
  BY <1>2 DEF Cancel, Close
<1>3. CASE CollectResult
  BY <1>3 DEF CollectResult, Renames, ToggleInstalled, Owners
<1>4. CASE Reopen
  BY <1>4 DEF Reopen, Restart, Nothing
<1>5. CASE Crash
  <2>1. Game[mod] \in Games
    BY ModsAssumption
  <2>2. common' \in [Games -> [Files -> Nat]] /\ torn' \subseteq Games
    BY <1>5, <2>1 DEF Crash, Nothing
  <2> QED
    BY <1>5, <2>2 DEF Crash, Restart, Nothing
<1> QED
  BY <1>1, <1>2, <1>3, <1>4, <1>5

LEMMA StepType == TypeOK /\ [Next]_vars => TypeOK'
<1> SUFFICES ASSUME TypeOK, [Next]_vars PROVE TypeOK'
  OBVIOUS
<1>1. CASE TaskStep
  BY <1>1, ScanType, CopyType, AccountType, DeduplicateType, PhaseType DEF TaskStep
<1>2. CASE ~TaskStep /\ Next
  BY <1>2, AppType DEF Next
<1>3. CASE UNCHANGED vars
  BY <1>3 DEF TypeOK, vars, card, lists, flags
<1> QED
  BY <1>1, <1>2, <1>3

(* Every variable of the model keeps its type, whatever the faults.        *)
THEOREM TypeCorrect == Spec => []TypeOK
BY InitType, StepType, PTL DEF Spec

-----------------------------------------------------------------------------
(***************************************************************************)
(* No installed mod loses a file.                                          *)
(***************************************************************************)

LEMMA StayingFinite ==
  ASSUME TypeOK, NEW f \in Files
  PROVE  IsFiniteSet(Staying(f)) /\ Cardinality(Staying(f)) \in Nat
<1>1. IsFiniteSet(Owners)
  BY OwnersAssumption, FS_AddElement DEF Owners
<1>2. Staying(f) \in SUBSET Owners
  BY DEF Staying, TypeOK
<1> QED
  BY <1>1, <1>2, FS_Subset, FS_CardinalityType

(* An installation's steps leave the owners of every file as they are.     *)
LEMMA StayingInstall ==
  ASSUME op = "install", UNCHANGED <<op, installed>>
  PROVE  \A f \in Files : Staying(f)' = Staying(f)
BY DEF Staying, Going

LEMMA ScanInv ==
  ASSUME IInv, NEW f \in Files,
         ScanNew(f) \/ ScanShared(f) \/ ScanConflict(f)
  PROVE  IInv'
<1>1. TypeOK'
  BY ScanType DEF IInv
<1>2. /\ op = "install" /\ mod \in Mods
      /\ UNCHANGED <<fs, common, torn, installed, op, mod, stop, closing, clean>>
  BY DEF IInv, TypeOK, Placed, InstallPCs, ScanNew, ScanShared, ScanConflict, TaskFrame, flags
<1>3. \A g \in Files : Staying(g)' = Staying(g)
  BY <1>2, StayingInstall
<1>4. Complete' /\ Counted'
  BY <1>2, <1>3 DEF IInv, Complete, Counted, Count, Going, FilesOf
<1>5. Placed' /\ Removable'
  BY <1>2 DEF IInv, Placed, Removable, InstallPCs, UninstallPCs, Goto, Finish, TypeOK, PCs,
              ScanNew, ScanShared, ScanConflict
<1>6. CASE ScanNew(f)
  <2>1. Staying(f) = {}
    BY <1>2, <1>6, ContentsAssumption
       DEF IInv, Complete, Staying, ScanNew, FilesOf, Going
  <2>2. Scanned'
    BY <1>2, <1>3, <1>6, <2>1 DEF IInv, TypeOK, Scanned, ScanNew, InstallPCs, FilesOf
  <2>3. Remembered'
    BY <1>2, <1>3, <1>6 DEF IInv, Remembered, ScanNew
  <2> QED
    BY <1>1, <1>4, <1>5, <2>2, <2>3 DEF IInv
<1>7. CASE ScanShared(f)
  <2>2. Scanned'
    BY <1>2, <1>3, <1>7 DEF IInv, TypeOK, Scanned, ScanShared, InstallPCs, FilesOf
  <2>3. Remembered'
    BY <1>2, <1>3, <1>7 DEF IInv, TypeOK, Remembered, ScanShared, FilesOf
  <2> QED
    BY <1>1, <1>4, <1>5, <2>2, <2>3 DEF IInv
<1>8. CASE ScanConflict(f)
  BY <1>1, <1>2, <1>4, <1>5, <1>8
     DEF IInv, Scanned, Remembered, ScanConflict, Finish, Goto, InstallPCs
<1> QED
  BY <1>6, <1>7, <1>8

(* The phases of an installation that neither write nor count.             *)
LEMMA ScanEndInv ==
  ASSUME IInv, ScanEnd \/ MakeDirectories
  PROVE  IInv'
<1>1. TypeOK'
  BY PhaseType DEF IInv
<1>2. /\ op = "install" /\ mod \in Mods
      /\ UNCHANGED <<fs, common, torn, cached, installed, op, mod, todo, fresh, made>>
      /\ UNCHANGED <<stop, closing, clean>>
  BY DEF IInv, TypeOK, Placed, InstallPCs, ScanEnd, MakeDirectories, TaskFrame, flags, lists
<1>3. \A g \in Files : Staying(g)' = Staying(g)
  BY <1>2, StayingInstall
<1>4. Complete' /\ Counted'
  BY <1>2, <1>3 DEF IInv, Complete, Counted, Count, Going, FilesOf
<1>5. Placed' /\ Removable'
  BY <1>2 DEF IInv, Placed, Removable, InstallPCs, UninstallPCs, Goto, Finish, TypeOK, PCs,
              ScanEnd, MakeDirectories
<1>6. Scanned'
  BY <1>2, <1>3 DEF IInv, Scanned, InstallPCs, ScanEnd, MakeDirectories, Goto, Finish, FilesOf
<1>7. Remembered'
  BY <1>2, <1>3 DEF IInv, Remembered, ScanEnd, MakeDirectories, Goto, Finish
<1> QED
  BY <1>1, <1>4, <1>5, <1>6, <1>7 DEF IInv

(* Writing touches only files that no installed mod has.                   *)
LEMMA WriteInv ==
  ASSUME IInv, NEW f \in Files, OnlyInstallFaults,
         OpenTarget(f) \/ WriteTarget(f) \/ RemoveCopied(f)
  PROVE  IInv'
<1>1. TypeOK'
  BY CopyType DEF IInv
<1>2. /\ op = "install" /\ mod \in Mods /\ pc \in {"copy", "rollback"}
      /\ UNCHANGED <<common, torn, cached, installed, op, mod, todo, pc, stop, closing, clean>>
  BY DEF IInv, TypeOK, Placed, InstallPCs, OpenTarget, WriteTarget, RemoveCopied,
         FileFrame, flags
<1>3. \A g \in Files : Staying(g)' = Staying(g)
  BY <1>2, StayingInstall
<1>4. Staying(f) = {} /\ f \in FilesOf(mod)
  BY <1>2 DEF IInv, Scanned, InstallPCs, OpenTarget, WriteTarget, RemoveCopied, Open, FilesOf
<1>5. \A g \in Files \ {f} : fs'[g] = fs[g]
  BY DEF IInv, TypeOK, OpenTarget, WriteTarget, RemoveCopied
<1>6. Complete'
  <2> SUFFICES ASSUME NEW m \in installed, ~Going(m)', NEW g \in FilesOf(m)
               PROVE  fs'[g] = Crc[m][g]
    BY <1>2 DEF Complete, FilesOf
  <2>1. ~Going(m) /\ g \in Files
    BY <1>2 DEF Going, FilesOf
  <2>2. g # f
    BY <1>4, <2>1 DEF Staying
  <2> QED
    BY <1>5, <2>1, <2>2 DEF IInv, Complete
<1>7. Counted'
  BY <1>2, <1>3 DEF IInv, Counted, Count, FilesOf
<1>8. Placed' /\ Removable'
  BY <1>2 DEF IInv, Placed, Removable, InstallPCs, UninstallPCs
<1>9. CASE OpenTarget(f)
  <2>1. Scanned'
    BY <1>2, <1>3, <1>4, <1>5, <1>9 DEF IInv, TypeOK, Scanned, OpenTarget, InstallPCs, FilesOf, Open
  <2>2. Remembered'
    BY <1>2, <1>3, <1>5, <1>9 DEF IInv, Remembered, OpenTarget, FilesOf
  <2> QED
    BY <1>1, <1>6, <1>7, <1>8, <2>1, <2>2 DEF IInv
<1>10. CASE WriteTarget(f)
  <2>1. fs' = [fs EXCEPT ![f] = Crc[mod][f]]
    BY <1>2, <1>10 DEF WriteTarget, Fault, OnlyInstallFaults
  <2>2. Scanned'
    BY <1>2, <1>3, <1>4, <1>5, <1>10, <2>1
       DEF IInv, TypeOK, Scanned, WriteTarget, InstallPCs, FilesOf, Open
  <2>3. Remembered'
    BY <1>2, <1>3, <1>5, <1>10 DEF IInv, Remembered, WriteTarget, FilesOf, Open
  <2> QED
    BY <1>1, <1>6, <1>7, <1>8, <2>2, <2>3 DEF IInv
<1>11. CASE RemoveCopied(f)
  <2>1. Scanned' /\ Remembered'
    BY <1>2, <1>3, <1>11 DEF IInv, Scanned, Remembered, RemoveCopied, InstallPCs, FilesOf
  <2> QED
    BY <1>1, <1>6, <1>7, <1>8, <2>1 DEF IInv
<1> QED
  BY <1>9, <1>10, <1>11

LEMMA CopyEndInv ==
  ASSUME IInv, AbortCopy \/ CopyEnd \/ RollbackEnd
  PROVE  IInv'
<1>1. TypeOK'
  BY PhaseType DEF IInv
<1>2. /\ op = "install" /\ mod \in Mods
      /\ UNCHANGED <<fs, common, torn, cached, installed, op, mod, todo, fresh, made>>
      /\ UNCHANGED <<stop, closing, clean>>
  BY DEF IInv, TypeOK, Placed, InstallPCs, AbortCopy, CopyEnd, RollbackEnd,
         TaskFrame, flags, lists
<1>3. \A g \in Files : Staying(g)' = Staying(g)
  BY <1>2, StayingInstall
<1>4. Complete' /\ Counted'
  BY <1>2, <1>3 DEF IInv, Complete, Counted, Count, Going, FilesOf
<1>5. Placed' /\ Removable'
  BY <1>2 DEF IInv, Placed, Removable, InstallPCs, UninstallPCs, Goto, Finish, TypeOK, PCs,
              AbortCopy, CopyEnd, RollbackEnd
<1>6. Scanned'
  BY <1>2, <1>3 DEF IInv, Scanned, InstallPCs, AbortCopy, CopyEnd, RollbackEnd, Goto,
                    Finish, FilesOf
<1>7. CASE AbortCopy \/ RollbackEnd
  <2>1. Remembered'
    BY <1>2, <1>3, <1>7 DEF IInv, Remembered, AbortCopy, RollbackEnd, Goto, Finish
  <2> QED
    BY <1>1, <1>4, <1>5, <1>6, <2>1 DEF IInv
<1>8. CASE CopyEnd
  <2>1. pc = "copy" /\ pc' = "conflicts" /\ fresh = {} /\ todo = {}
    BY <1>8 DEF IInv, Remembered, CopyEnd, Goto
  <2>2. ASSUME NEW f \in FilesOf(mod)
        PROVE  /\ fs[f] = Crc[mod][f]
               /\ Cardinality(Staying(f)) <= Count(mod, f) + cached[f]
    <3>1. f \in Files /\ cached[f] \in Nat /\ Count(mod, f) \in Nat
      BY <1>2, ModsAssumption DEF IInv, TypeOK, FilesOf, Count
    <3>2. CASE f \in made
      <4>1. fs[f] = Crc[mod][f] /\ Staying(f) = {}
        BY <2>1, <3>2 DEF IInv, Scanned, InstallPCs
      <4> QED
        BY <3>1, <4>1, FS_EmptySet
    <3>3. CASE f \notin made
      <4>1. cached[f] > 0 /\ fs[f] = Crc[mod][f]
        BY <2>1, <3>3 DEF IInv, Remembered
      <4>2. Cardinality(Staying(f)) <= Count(mod, f) + 1
        BY <1>2 DEF IInv, Counted
      <4> QED
        BY <3>1, <4>1, <4>2, StayingFinite DEF IInv
    <3> QED
      BY <3>2, <3>3
  <2>3. Remembered'
    BY <1>2, <1>3, <2>1, <2>2 DEF Remembered, FilesOf, Count
  <2> QED
    BY <1>1, <1>4, <1>5, <1>6, <2>3 DEF IInv
<1> QED
  BY <1>7, <1>8

(* Moving a remembered path into mod_file_common.json keeps the sum.       *)
LEMMA RecordInv ==
  ASSUME IInv, NEW f \in Files, OnlyInstallFaults, RecordConflict(f)
  PROVE  IInv'
<1>1. TypeOK'
  BY AccountType DEF IInv
<1>2. /\ op = "install" /\ mod \in Mods /\ pc = "conflicts"
      /\ UNCHANGED <<fs, torn, installed, op, mod, pc, todo, fresh, made>>
      /\ UNCHANGED <<stop, closing, clean>>
  BY DEF IInv, TypeOK, Placed, InstallPCs, RecordConflict, TaskFrame, flags, lists
<1>3. \A g \in Files : Staying(g)' = Staying(g)
  BY <1>2, StayingInstall
<1>4. /\ common' = [common EXCEPT ![Game[mod]][f] = @ + 1]
      /\ cached' = [cached EXCEPT ![f] = @ - 1]
  BY <1>2 DEF RecordConflict, OnlyInstallFaults, Fault, IInv, Counted
<1>5. \A m \in Mods, g \in Files :
        /\ Count(m, g) \in Nat
        /\ Count(m, g)' \in {Count(m, g), Count(m, g) + 1}
        /\ Game[m] = Game[mod] =>
             Count(m, g)' = IF g = f THEN Count(m, g) + 1 ELSE Count(m, g)
  BY <1>2, <1>4, ModsAssumption DEF IInv, TypeOK, Count
<1>6. Complete'
  BY <1>2 DEF IInv, Complete, Going, FilesOf
<1>7. Counted'
  <2> SUFFICES ASSUME NEW m \in Mods, NEW g \in FilesOf(m)
               PROVE  Cardinality(Staying(g)') <= Count(m, g)' + 1
    BY <1>2 DEF IInv, Counted, FilesOf
  <2>1. g \in Files /\ Cardinality(Staying(g)) <= Count(m, g) + 1
    BY DEF IInv, Counted, FilesOf
  <2> QED
    BY <1>3, <1>5, <2>1, StayingFinite DEF IInv
<1>8. Placed' /\ Removable' /\ Scanned'
  BY <1>2, <1>3 DEF IInv, Placed, Removable, Scanned, InstallPCs, UninstallPCs, FilesOf
<1>9. Remembered'
  <2>1. ASSUME NEW g \in FilesOf(mod)
        PROVE  /\ fs[g] = Crc[mod][g]
               /\ Cardinality(Staying(g)') <= Count(mod, g)' + cached'[g]
    <3>1. /\ g \in Files /\ fs[g] = Crc[mod][g]
          /\ Cardinality(Staying(g)) <= Count(mod, g) + cached[g]
      BY <1>2 DEF IInv, Remembered, FilesOf
    <3>2. cached[g] \in Nat /\ cached'[g] = IF g = f THEN cached[g] - 1 ELSE cached[g]
      BY <1>4, <3>1 DEF IInv, TypeOK
    <3> QED
      BY <1>2, <1>3, <1>5, <3>1, <3>2, StayingFinite DEF IInv
  <2> QED
    BY <1>2, <2>1 DEF IInv, Remembered, FilesOf
<1> QED
  BY <1>1, <1>6, <1>7, <1>8, <1>9 DEF IInv

LEMMA RecordEndInv ==
  ASSUME IInv, RecordEnd
  PROVE  IInv'
<1>1. TypeOK'
  BY PhaseType DEF IInv
<1>2. /\ op = "install" /\ mod \in Mods /\ pc = "conflicts" /\ pc' = "done" /\ result'
      /\ UNCHANGED <<fs, common, torn, cached, installed, op, mod, todo, fresh, made>>
      /\ UNCHANGED <<stop, closing, clean>>
  BY DEF IInv, TypeOK, Placed, InstallPCs, RecordEnd, TaskFrame, flags, lists, Finish, Goto
<1>3. \A g \in Files : Staying(g)' = Staying(g)
  BY <1>2, StayingInstall
<1>4. Complete' /\ Counted'
  BY <1>2, <1>3 DEF IInv, Complete, Counted, Count, Going, FilesOf
<1>5. Placed' /\ Removable' /\ Scanned'
  BY <1>2 DEF IInv, Placed, Removable, Scanned, InstallPCs, UninstallPCs
<1>6. \A f \in FilesOf(mod) :
        /\ fs[f] = Crc[mod][f]
        /\ Cardinality(Staying(f)) <= Count(mod, f)
  <2> SUFFICES ASSUME NEW f \in FilesOf(mod)
               PROVE  /\ fs[f] = Crc[mod][f]
                      /\ Cardinality(Staying(f)) <= Count(mod, f)
    OBVIOUS
  <2>1. f \in Files /\ cached[f] = 0 /\ Count(mod, f) \in Nat
    BY ModsAssumption, <1>2 DEF RecordEnd, FilesOf, Count, IInv, TypeOK
  <2>2. fs[f] = Crc[mod][f] /\ Cardinality(Staying(f)) <= Count(mod, f) + cached[f]
    BY <1>2 DEF IInv, Remembered
  <2> QED
    BY <2>1, <2>2
<1>7. Remembered'
  BY <1>2, <1>3, <1>6 DEF Remembered, FilesOf, Count
<1> QED
  BY <1>1, <1>4, <1>5, <1>7 DEF IInv

LEMMA ClassifyInv ==
  ASSUME IInv, Classify
  PROVE  IInv'
<1>1. TypeOK'
  BY PhaseType DEF IInv
<1>2. /\ mod \in Mods /\ op \in Ops /\ pc = "classify"
      /\ UNCHANGED <<fs, common, torn, cached, installed, op, mod, fresh, made>>
      /\ UNCHANGED <<stop, closing, clean>>
  BY DEF IInv, TypeOK, Classify, TaskFrame, flags
<1>3. \/ pc' = "done" /\ ~result'
      \/ op = "install" /\ pc' = "scan" /\ todo' = FilesOf(mod)
      \/ op = "uninstall" /\ pc' = "count" /\ todo' = FilesOf(mod)
  BY <1>2 DEF Classify, Finish, Goto, Ops
<1>4. \A g \in Files : Staying(g)' = Staying(g)
  BY <1>2, <1>3 DEF Staying, Going, FilesOf
<1>5. Complete' /\ Counted'
  BY <1>2, <1>3, <1>4 DEF IInv, Complete, Counted, Count, Going, FilesOf
<1>6. Placed' /\ Removable'
  BY <1>2, <1>3 DEF IInv, Placed, Removable, InstallPCs, UninstallPCs, FilesOf
<1>7. fresh = {} /\ made = {}
  BY <1>2 DEF IInv, Scanned
<1>8. Scanned' /\ Remembered'
  BY <1>2, <1>3, <1>4, <1>7 DEF IInv, Scanned, Remembered, InstallPCs, FilesOf
<1> QED
  BY <1>1, <1>5, <1>6, <1>8 DEF IInv

LEMMA CountFilesInv ==
  ASSUME IInv, OnlyInstallFaults, CountFilesToRemove
  PROVE  IInv'
<1>1. TypeOK'
  BY PhaseType DEF IInv
<1>2. /\ mod \in Mods /\ op = "uninstall" /\ pc = "count" /\ ~stop
      /\ UNCHANGED <<fs, common, torn, cached, installed, op, mod, todo, fresh, made>>
      /\ UNCHANGED <<stop, closing, clean>>
  BY DEF IInv, TypeOK, Placed, UninstallPCs, CountFilesToRemove, TaskFrame, flags, Fault,
         OnlyInstallFaults
<1>3. (pc' = "done" /\ ~result') \/ pc' = "dedup"
  BY <1>2 DEF CountFilesToRemove, Finish, Goto, Fault, OnlyInstallFaults
<1>4. \A g \in Files : Staying(g)' = Staying(g)
  BY <1>2, <1>3 DEF Staying, Going, FilesOf
<1>5. Complete' /\ Counted'
  BY <1>2, <1>3, <1>4 DEF IInv, Complete, Counted, Count, Going, FilesOf
<1>6. Placed' /\ Removable' /\ Scanned' /\ Remembered'
  BY <1>2, <1>3, <1>4 DEF IInv, Placed, Removable, Scanned, Remembered,
                          InstallPCs, UninstallPCs, FilesOf
<1> QED
  BY <1>1, <1>5, <1>6 DEF IInv

(* A listed file loses one owner and one count; an unlisted one had no     *)
(* other owner.                                                            *)
LEMMA DeduplicateInv ==
  ASSUME IInv, SharedWithinGame, OnlyInstallFaults, Deduplicate
  PROVE  IInv'
<1>1. TypeOK'
  BY DeduplicateType DEF IInv
<1>2. /\ mod \in Mods /\ mod \in installed /\ ~stop /\ ~closing
      /\ op = "uninstall" /\ pc = "dedup" /\ pc' = "remove" /\ result'
      /\ todo = FilesOf(mod)
      /\ UNCHANGED <<fs, torn, cached, installed, op, mod, fresh, made>>
      /\ UNCHANGED <<stop, closing, clean>>
  BY DEF IInv, TypeOK, Placed, UninstallPCs, Removable, Deduplicate, TaskFrame, flags, Goto
<1>3. /\ todo' = {f \in todo : common[Game[mod]][f] = 0}
      /\ common' = [common EXCEPT ![Game[mod]] =
                      [f \in Files |-> IF f \in todo \ todo' THEN @[f] - 1 ELSE @[f]]]
  BY <1>2 DEF Deduplicate, Unlisted, Lowered, OnlyInstallFaults, Fault
<1>4. \A f \in Files : Staying(f)' = Staying(f) \ {mod}
  BY <1>2 DEF Staying, Going, FilesOf
<1>5. \A f \in FilesOf(mod) : f \in Files /\ mod \in Staying(f)
  BY <1>2 DEF Staying, Going, FilesOf
<1>6. \A f \in FilesOf(mod) :
        Cardinality(Staying(f)') = Cardinality(Staying(f)) - 1
  BY <1>4, <1>5, StayingFinite, FS_RemoveElement DEF IInv
<1>7. \A m \in Mods, f \in Files : Count(m, f) \in Nat
  BY ModsAssumption DEF Count, IInv, TypeOK
<1>8. Complete'
  BY <1>2 DEF IInv, Complete, Going, FilesOf
<1>9. Counted'
  <2> SUFFICES ASSUME NEW m \in Mods, NEW f \in FilesOf(m)
               PROVE  Cardinality(Staying(f)') <= Count(m, f)' + 1
    BY <1>2 DEF IInv, Counted, FilesOf
  <2>1. /\ f \in Files /\ Cardinality(Staying(f)) \in Nat
        /\ Cardinality(Staying(f)) <= Count(m, f) + 1
    BY StayingFinite DEF IInv, Counted, FilesOf
  <2>2. CASE f \in FilesOf(mod)
    <3>1. Game[m] = Game[mod] /\ Game[mod] \in Games
      BY <1>2, <2>2, ModsAssumption DEF SharedWithinGame
    <3>2. Count(m, f)' = IF Count(m, f) = 0 THEN 0 ELSE Count(m, f) - 1
      BY <1>2, <1>3, <2>1, <2>2, <3>1 DEF Count, IInv, TypeOK
    <3> QED
      BY <1>6, <1>7, <2>1, <2>2, <3>2
  <2>3. CASE f \notin FilesOf(mod)
    <3>1. Count(m, f)' = Count(m, f)
      BY <1>2, <1>3, <2>1, <2>3, ModsAssumption DEF Count, IInv, TypeOK
    <3>2. Staying(f)' = Staying(f)
      BY <1>4, <2>1, <2>3 DEF Staying
    <3> QED
      BY <2>1, <3>1, <3>2
  <2> QED
    BY <2>2, <2>3
<1>10. Removable'
  <2> SUFFICES ASSUME NEW f \in todo'
               PROVE  f \in FilesOf(mod) /\ Staying(f)' = {}
    BY <1>2 DEF Removable, FilesOf
  <2>1. f \in FilesOf(mod) /\ f \in Files /\ Count(mod, f) = 0
    BY <1>2, <1>3 DEF Count, FilesOf
  <2>2. Cardinality(Staying(f)') <= 0
    BY <1>2, <1>6, <1>7, <2>1, StayingFinite DEF IInv, Counted
  <2>3. IsFiniteSet(Staying(f)') /\ Cardinality(Staying(f)') \in Nat
    BY <1>4, <2>1, StayingFinite, FS_Subset, FS_CardinalityType DEF IInv
  <2> QED
    BY <2>1, <2>2, <2>3, FS_EmptySet
<1>11. Placed' /\ Scanned' /\ Remembered'
  BY <1>2 DEF IInv, Placed, Scanned, Remembered, InstallPCs, UninstallPCs
<1> QED
  BY <1>1, <1>8, <1>9, <1>10, <1>11 DEF IInv

(* Deleting takes files that no mod but the leaving one has.               *)
LEMMA RemoveInv ==
  ASSUME IInv, NEW f \in Files, OnlyInstallFaults, RemoveTarget(f)
  PROVE  IInv'
<1>1. TypeOK'
  BY AccountType DEF IInv
<1>2. /\ mod \in Mods /\ op = "uninstall" /\ pc = "remove" /\ todo' = todo \ {f}
      /\ f \in todo /\ fs' = [fs EXCEPT ![f] = Missing]
      /\ UNCHANGED <<common, torn, cached, installed, op, mod, pc, result, fresh, made>>
      /\ UNCHANGED <<stop, closing, clean>>
  BY DEF IInv, TypeOK, Placed, UninstallPCs, RemoveTarget, TaskFrame, flags, Fault,
         OnlyInstallFaults
<1>3. \A g \in Files : Staying(g)' = Staying(g)
  BY <1>2 DEF Staying, Going, FilesOf
<1>4. Staying(f) = {}
  BY <1>2 DEF IInv, Removable
<1>5. Complete'
  <2> SUFFICES ASSUME NEW m \in installed, ~Going(m)', NEW g \in FilesOf(m)
               PROVE  fs'[g] = Crc[m][g]
    BY <1>2 DEF Complete, FilesOf
  <2>1. ~Going(m) /\ g \in Files /\ g # f
    BY <1>2, <1>4 DEF Going, FilesOf, Staying
  <2> QED
    BY <1>2, <2>1 DEF IInv, TypeOK, Complete
<1>6. Counted'
  BY <1>2, <1>3 DEF IInv, Counted, Count, FilesOf
<1>7. Placed' /\ Removable' /\ Scanned' /\ Remembered'
  BY <1>2, <1>3 DEF IInv, Placed, Removable, Scanned, Remembered, InstallPCs,
                    UninstallPCs, FilesOf
<1> QED
  BY <1>1, <1>5, <1>6, <1>7 DEF IInv

LEMMA RemoveEndInv ==
  ASSUME IInv, RemoveEnd
  PROVE  IInv'
<1>1. TypeOK'
  BY PhaseType DEF IInv
<1>2. /\ op = "uninstall" /\ pc = "remove" /\ pc' = "done" /\ result /\ result' = result
      /\ UNCHANGED <<fs, common, torn, cached, installed, op, mod, todo, fresh, made>>
      /\ UNCHANGED <<stop, closing, clean>>
  BY DEF IInv, Placed, Removable, UninstallPCs, RemoveEnd, TaskFrame, flags, lists, Goto
<1>3. \A g \in Files : Staying(g)' = Staying(g)
  BY <1>2 DEF Staying, Going, FilesOf
<1>4. Complete' /\ Counted'
  BY <1>2, <1>3 DEF IInv, Complete, Counted, Count, Going, FilesOf
<1>5. Placed' /\ Removable' /\ Scanned' /\ Remembered'
  BY <1>2 DEF IInv, Placed, Removable, Scanned, Remembered, InstallPCs, UninstallPCs
<1> QED
  BY <1>1, <1>4, <1>5 DEF IInv

-----------------------------------------------------------------------------
(* The App's steps.                                                        *)

LEMMA BeginInv ==
  ASSUME IInv, OnlyInstallFaults, NEW m \in Mods, NEW y \in BOOLEAN, Begin(m, y)
  PROVE  IInv'
<1>1. TypeOK'
  BY AppType DEF IInv
<1>2. /\ pc = "idle" /\ pc' = "classify" /\ mod' = m /\ ~closing' /\ ~stop'
      /\ todo' = {} /\ fresh' = {} /\ made' = {}
      /\ UNCHANGED <<fs, common, torn, installed>>
  BY DEF Begin, Goto, card
<1>3. /\ op' = "install" => m \notin installed
      /\ op' = "uninstall" => m \in installed
  BY DEF Begin, OnlyInstallFaults, IInv, Placed
<1>4. \A g \in Files : Staying(g)' = Staying(g)
  BY <1>2 DEF Staying, Going, FilesOf
<1>5. Complete' /\ Counted'
  BY <1>2, <1>4 DEF IInv, Complete, Counted, Count, Going, FilesOf
<1>6. Placed' /\ Removable' /\ Scanned' /\ Remembered'
  BY <1>2, <1>3 DEF Placed, Removable, Scanned, Remembered, InstallPCs, UninstallPCs
<1> QED
  BY <1>1, <1>5, <1>6 DEF IInv

(* A stop request reaches installations only.                              *)
LEMMA StopInv ==
  ASSUME IInv, OnlyInstallFaults, Cancel \/ Close
  PROVE  IInv'
<1>1. TypeOK'
  BY AppType DEF IInv
<1>2. /\ pc # "idle" => op = "install"
      /\ UNCHANGED <<fs, common, torn, installed, cached, pc, op, mod>>
      /\ UNCHANGED <<todo, fresh, made, result, clean>>
  BY DEF Cancel, Close, Fault, OnlyInstallFaults, card, lists
<1>3. \A g \in Files : Staying(g)' = Staying(g)
  BY <1>2 DEF Staying, Going, FilesOf
<1>4. Complete' /\ Counted'
  BY <1>2, <1>3 DEF IInv, Complete, Counted, Count, Going, FilesOf
<1>5. Placed' /\ Removable' /\ Scanned' /\ Remembered'
  BY <1>2, <1>3 DEF IInv, Placed, Removable, Scanned, Remembered, InstallPCs,
                    UninstallPCs, FilesOf, Count
<1> QED
  BY <1>1, <1>4, <1>5 DEF IInv

(* When the '$' is set, the new owner is already counted; when it is       *)
(* removed, the old one has not been counted since the deduplication.      *)
LEMMA CollectInv ==
  ASSUME IInv, SharedWithinGame, OnlyInstallFaults, CollectResult
  PROVE  IInv'
<1>1. TypeOK'
  BY AppType DEF IInv
<1>2. /\ pc = "done" /\ pc' = "idle" /\ op \in Ops /\ mod \in Mods
      /\ UNCHANGED <<fs, common, torn, cached, op, mod, result, closing>>
      /\ ~clean' /\ ~Going(mod)'
  BY DEF IInv, TypeOK, CollectResult, Goto, Going
<1>3. \A m : ~Going(m)'
  BY <1>2 DEF Going
<1>4. Placed' /\ Removable' /\ Scanned' /\ Remembered'
  BY <1>2 DEF Placed, Removable, Scanned, Remembered, InstallPCs, UninstallPCs
<1>5. CASE op = "install" /\ installed' # installed
  <2>1. installed' = installed \cup {mod} /\ mod \notin installed /\ result
    BY <1>2, <1>5 DEF CollectResult, Renames, ToggleInstalled, IInv, Placed
  <2>2. \A f \in FilesOf(mod) :
          /\ fs[f] = Crc[mod][f]
          /\ Cardinality(Staying(f)) <= Count(mod, f)
    BY <1>2, <1>5, <2>1 DEF IInv, Remembered
  <2>3. \A m : ~Going(m)
    BY <1>5 DEF Going
  <2>4. Complete'
    BY <1>2, <2>1, <2>2, <2>3 DEF IInv, Complete, FilesOf
  <2>5. \A f \in Files : f \in FilesOf(mod) => Staying(f)' = Staying(f) \cup {mod}
    BY <1>3, <2>1, <2>3 DEF Staying, FilesOf
  <2>6. \A f \in Files : f \notin FilesOf(mod) => Staying(f)' = Staying(f)
    BY <1>3, <2>1, <2>3 DEF Staying, FilesOf
  <2>7. Counted'
    <3> SUFFICES ASSUME NEW m \in Mods, NEW f \in FilesOf(m)
                 PROVE  Cardinality(Staying(f)') <= Count(m, f) + 1
      BY <1>2 DEF IInv, Counted, FilesOf, Count
    <3>1. f \in Files /\ Count(m, f) \in Nat
      BY ModsAssumption DEF FilesOf, Count, IInv, TypeOK
    <3>2. CASE f \in FilesOf(mod)
      <4>1. Count(m, f) = Count(mod, f)
        BY <1>2, <3>2 DEF SharedWithinGame, Count
      <4>2. mod \notin Staying(f)
        BY <2>1 DEF Staying
      <4>3. Cardinality(Staying(f)') = Cardinality(Staying(f)) + 1
        BY <2>5, <3>1, <3>2, <4>2, StayingFinite, FS_AddElement DEF IInv
      <4> QED
        BY <2>2, <3>1, <3>2, <4>1, <4>3, StayingFinite DEF IInv
    <3>3. CASE f \notin FilesOf(mod)
      BY <2>6, <3>1, <3>3 DEF IInv, Counted
    <3> QED
      BY <3>2, <3>3
  <2> QED
    BY <1>1, <1>4, <2>4, <2>7 DEF IInv
<1>6. CASE op = "uninstall" /\ result
  <2>1. installed' = installed \ {mod}
    BY <1>2, <1>6 DEF CollectResult, Renames, ToggleInstalled, IInv, Placed, Fault, OnlyInstallFaults
  <2>2. \A m : Going(m) <=> m = mod
    BY <1>2, <1>6 DEF Going
  <2>3. \A f \in Files : Staying(f)' = Staying(f)
    BY <1>3, <2>1, <2>2 DEF Staying, FilesOf
  <2>4. Complete' /\ Counted'
    BY <1>2, <2>1, <2>2, <2>3 DEF IInv, Complete, Counted, Count, FilesOf
  <2> QED
    BY <1>1, <1>4, <2>4 DEF IInv
<1>7. CASE (op = "install" \/ ~result) /\ installed' = installed
  <2>1. \A m : ~Going(m)
    BY <1>2, <1>7 DEF Going
  <2>2. \A f \in Files : Staying(f)' = Staying(f)
    BY <1>3, <1>7, <2>1 DEF Staying, FilesOf
  <2>3. Complete' /\ Counted'
    BY <1>2, <1>7, <2>1, <2>2 DEF IInv, Complete, Counted, Count, FilesOf
  <2> QED
    BY <1>1, <1>4, <2>3 DEF IInv
<1>8. op = "uninstall" /\ ~result => installed' = installed
  BY <1>2 DEF CollectResult, Renames
<1> QED
  BY <1>2, <1>5, <1>6, <1>7, <1>8 DEF Ops

(* Whatever an interrupted installation leaves, no mod counts on it.       *)
LEMMA RestartInv ==
  ASSUME IInv, OnlyInstallFaults, Reopen \/ Crash
  PROVE  IInv'
<1>1. TypeOK'
  BY AppType DEF IInv
<1>2. /\ pc # "idle" => op = "install"
      /\ pc' = "idle" /\ ~clean'
      /\ UNCHANGED <<fs, common, torn, installed, op, mod>>
  BY DEF Reopen, Crash, Restart, Goto, Fault, OnlyInstallFaults, IInv, TypeOK, Ops, Placed
<1>3. \A m : ~Going(m) /\ ~Going(m)'
  BY <1>2 DEF Going
<1>4. \A g \in Files : Staying(g)' = Staying(g)
  BY <1>2, <1>3 DEF Staying, FilesOf
<1>5. Complete' /\ Counted'
  BY <1>2, <1>3, <1>4 DEF IInv, Complete, Counted, Count, FilesOf
<1>6. Placed' /\ Removable' /\ Scanned' /\ Remembered'
  BY <1>2 DEF Placed, Removable, Scanned, Remembered, InstallPCs, UninstallPCs
<1> QED
  BY <1>1, <1>5, <1>6 DEF IInv

LEMMA InitInv == Init => IInv
<1> SUFFICES ASSUME Init PROVE IInv
  OBVIOUS
<1>1. TypeOK
  BY InitType
<1>2. Complete /\ Placed /\ Scanned /\ Remembered /\ Removable
  BY DEF Init, Complete, Placed, Scanned, Remembered, Removable, InstallPCs, UninstallPCs
<1>3. Counted
  <2> SUFFICES ASSUME NEW m \in Mods, NEW f \in FilesOf(m)
               PROVE  Cardinality(Staying(f)) <= Count(m, f) + 1
    BY DEF Counted, Init
  <2>1. f \in Files /\ Count(m, f) = 0
    BY ModsAssumption DEF FilesOf, Count, Init, Nothing
  <2>2. Staying(f) \subseteq {User}
    BY DEF Staying, Init
  <2>3. Cardinality({User}) = 1 /\ IsFiniteSet({User})
    BY FS_Singleton
  <2>4. Cardinality(Staying(f)) <= 1
    BY <2>2, <2>3, FS_Subset
  <2> QED
    BY <2>1, <2>4
<1> QED
  BY <1>1, <1>2, <1>3 DEF IInv

LEMMA StepInv ==
  SharedWithinGame /\ OnlyInstallFaults /\ IInv /\ [Next]_vars => IInv'
<1> SUFFICES ASSUME SharedWithinGame, OnlyInstallFaults, IInv, [Next]_vars PROVE IInv'
  OBVIOUS
<1>1. CASE TaskStep
  BY <1>1, ClassifyInv, ScanInv, ScanEndInv, WriteInv, CopyEndInv, RecordInv, RecordEndInv,
     CountFilesInv, DeduplicateInv, RemoveInv, RemoveEndInv DEF TaskStep
<1>2. CASE \E m \in Mods, y \in BOOLEAN : Begin(m, y)
  BY <1>2, BeginInv
<1>3. CASE Cancel \/ Close \/ CollectResult \/ Reopen \/ Crash
  BY <1>3, StopInv, CollectInv, RestartInv
<1>4. CASE UNCHANGED vars
  <2>1. TypeOK'
    BY <1>4, StepType DEF IInv
  <2>2. \A g \in Files : Staying(g)' = Staying(g)
    BY <1>4 DEF vars, card, lists, flags, Staying, Going, FilesOf
  <2> QED
    BY <1>4, <2>1, <2>2
       DEF vars, card, lists, flags, IInv, Complete, Counted, Count, Placed, Scanned,
           Remembered, Removable, Going, FilesOf
<1> QED
  BY <1>1, <1>2, <1>3, <1>4 DEF Next

(* While things go wrong with installations only (B, exit, power loss,     *)
(* failing writes, deletions and renames), and mods of different games     *)
(* share no file, an installed mod never loses a file to another mod.      *)
THEOREM InstalledNeverLost ==
  ASSUME SharedWithinGame, OnlyInstallFaults
  PROVE  Spec => []InstalledComplete
<1>1. IInv => InstalledComplete
  BY DEF IInv, Complete, InstalledComplete, Going, Removing
<1>2. Init => IInv
  BY InitInv
<1>3. IInv /\ [Next]_vars => IInv'
  BY StepInv
<1> QED
  BY <1>1, <1>2, <1>3, PTL DEF Spec

-----------------------------------------------------------------------------
(***************************************************************************)
(* What holds of every operation, whatever goes wrong.                     *)
(***************************************************************************)

(* The phases belong to their operation, mod_uninstalling is set as long   *)
(* as an uninstallation runs, and a file that waits to be written is not   *)
(* there yet.                                                              *)
Discipline ==
  /\ pc \in InstallPCs => op = "install"
  /\ pc \in UninstallPCs => op = "uninstall"
  /\ op = "uninstall" /\ pc # "idle" => uninstalling /\ (stop => closing)
  /\ pc = "classify" => fresh = {}
  /\ pc \in InstallPCs \ {"rollback"} => \A f \in fresh \ made : fs[f] = Missing

LEMMA DisciplineTask ==
  ASSUME TypeOK, Discipline, TaskStep
  PROVE  Discipline'
<1> USE DEF Discipline, TypeOK, TaskFrame, FileFrame, flags, lists, Goto, Finish, InstallPCs,
            UninstallPCs
<1>1. CASE Classify
  BY <1>1 DEF Classify, Ops
<1>2. CASE ScanEnd \/ MakeDirectories \/ AbortCopy \/ CopyEnd \/ RollbackEnd \/ RecordEnd
  BY <1>2 DEF ScanEnd, MakeDirectories, AbortCopy, CopyEnd, RollbackEnd, RecordEnd
<1>3. CASE CountFilesToRemove \/ Deduplicate \/ RemoveEnd
  BY <1>3 DEF CountFilesToRemove, Deduplicate, RemoveEnd
<1>4. ASSUME NEW f \in Files, ScanNew(f) \/ ScanShared(f) \/ ScanConflict(f)
      PROVE  Discipline'
  BY <1>4 DEF ScanNew, ScanShared, ScanConflict
<1>5. ASSUME NEW f \in Files, OpenTarget(f) \/ WriteTarget(f)
      PROVE  Discipline'
  BY <1>5 DEF OpenTarget, WriteTarget, Open
<1>6. ASSUME NEW f \in Files, RemoveCopied(f) \/ RecordConflict(f) \/ RemoveTarget(f)
      PROVE  Discipline'
  BY <1>6 DEF RemoveCopied, RecordConflict, RemoveTarget
<1> QED
  BY <1>1, <1>2, <1>3, <1>4, <1>5, <1>6 DEF TaskStep

LEMMA DisciplineStep == TypeOK /\ Discipline /\ [Next]_vars => Discipline'
<1> SUFFICES ASSUME TypeOK, Discipline, [Next]_vars PROVE Discipline'
  OBVIOUS
<1> USE DEF Discipline, flags, lists, card, InstallPCs, UninstallPCs
<1>1. CASE TaskStep
  BY <1>1, DisciplineTask
<1>2. ASSUME NEW m \in Mods, NEW y \in BOOLEAN, Begin(m, y)
      PROVE  Discipline'
  BY <1>2 DEF Begin, Goto
<1>3. CASE Cancel \/ Close
  BY <1>3 DEF Cancel, Close
<1>4. CASE CollectResult \/ Reopen \/ Crash
  BY <1>4 DEF CollectResult, Renames, Reopen, Crash, Restart, Goto
<1>5. CASE UNCHANGED vars
  BY <1>5 DEF vars
<1> QED
  BY <1>1, <1>2, <1>3, <1>4, <1>5 DEF Next

LEMMA DisciplineHolds == Spec => [](TypeOK /\ Discipline)
<1>1. Init => TypeOK /\ Discipline
  BY InitType DEF Init, Discipline, InstallPCs, UninstallPCs
<1> QED
  BY <1>1, StepType, DisciplineStep, PTL DEF Spec

(* B reaches no uninstallation: the only stop request it can see is the    *)
(* one of ~App.                                                            *)
THEOREM UninstallNotCancelled == Spec => []UninstallUncancelled
<1>1. Discipline => UninstallUncancelled
  BY DEF Discipline, UninstallUncancelled
<1> QED
  BY <1>1, DisciplineHolds, PTL

(* Whatever fails and whenever it is stopped, an installation changes only *)
(* paths where there was no file, and files it has itself created.         *)
THEOREM InstallationSparesOthers == Spec => InstallSparesOthers
<1>1. ASSUME TypeOK, Discipline, [Next]_vars, op = "install", NEW f \in Files, fs'[f] # fs[f]
      PROVE  fs[f] = Missing \/ f \in made
  <2> USE DEF TypeOK, Discipline, InstallPCs, UninstallPCs
  <2>1. CASE TaskStep
    <3>1. ASSUME NEW g \in Files, OpenTarget(g) \/ WriteTarget(g) \/ RemoveCopied(g)
          PROVE  fs[f] = Missing \/ f \in made
      BY <1>1, <3>1 DEF OpenTarget, WriteTarget, RemoveCopied, Open
    <3>2. ASSUME NEW g \in Files, RemoveTarget(g)
          PROVE  FALSE
      BY <1>1, <3>2 DEF RemoveTarget
    <3> QED
      BY <1>1, <2>1, <3>1, <3>2
         DEF TaskStep, Classify, ScanNew, ScanShared, ScanConflict, ScanEnd,
             MakeDirectories, AbortCopy, CopyEnd, RollbackEnd, RecordConflict,
             RecordEnd, CountFilesToRemove, Deduplicate, RemoveEnd
  <2>2. CASE ~TaskStep
    BY <1>1, <2>2
       DEF Next, Begin, Cancel, CollectResult, Close, Reopen, Crash, Restart, vars, card
  <2> QED
    BY <2>1, <2>2
<1>2. TypeOK /\ Discipline /\ [Next]_vars =>
        [op = "install" => \A f \in Files :
           fs'[f] # fs[f] => fs[f] = Missing \/ f \in made]_vars
  BY <1>1
<1> QED
  BY <1>2, DisciplineHolds, PTL DEF Spec, InstallSparesOthers
=============================================================================
