------------------------- MODULE ModManagerOwnership -------------------------
(***************************************************************************)
(* Proofs of which truncated files ModManager leaves, and that it implements*)
(* FileOwnership: up to files left behind when installations are cancelled *)
(* or fail, and exactly, with exact counts, when nothing goes wrong.       *)
(***************************************************************************)
EXTENDS ModManagerProofs

(***************************************************************************)
(* No truncated file.                                                      *)
(***************************************************************************)

LEMMA UnfinishedTask ==
  ASSUME NothingLeftBehind, TypeOK, Discipline, Unfinished, TaskStep
  PROVE  Unfinished'
<1> USE DEF Unfinished, TypeOK, TaskFrame, FileFrame, lists, Goto, Finish
<1>1. CASE Classify \/ ScanEnd \/ MakeDirectories \/ RecordEnd
  BY <1>1 DEF Classify, ScanEnd, MakeDirectories, RecordEnd
<1>2. CASE AbortCopy \/ CopyEnd \/ RollbackEnd
  BY <1>2 DEF AbortCopy, CopyEnd, RollbackEnd
<1>3. CASE CountFilesToRemove \/ Deduplicate \/ RemoveEnd
  BY <1>3 DEF CountFilesToRemove, Deduplicate, RemoveEnd
<1>4. ASSUME NEW f \in Files, ScanNew(f) \/ ScanShared(f) \/ ScanConflict(f) \/ RecordConflict(f)
      PROVE  Unfinished'
  BY <1>4 DEF ScanNew, ScanShared, ScanConflict, RecordConflict
<1>5. ASSUME NEW f \in Files, OpenTarget(f)
      PROVE  Unfinished'
  BY <1>5 DEF OpenTarget
<1>6. ASSUME NEW f \in Files, WriteTarget(f)
      PROVE  Unfinished'
  <2>1. op = "install" /\ fs' = [fs EXCEPT ![f] = Crc[mod][f]]
    BY <1>6 DEF WriteTarget, Fault, NothingLeftBehind, Discipline, InstallPCs
  <2>2. Crc[mod][f] # Partial
    BY ContentType, ContentsAssumption DEF Owners
  <2> QED
    BY <1>6, <2>1, <2>2 DEF WriteTarget
<1>7. ASSUME NEW f \in Files, RemoveCopied(f)
      PROVE  Unfinished'
  <2>1. op = "install" /\ fs' = [fs EXCEPT ![f] = Missing]
    BY <1>7 DEF RemoveCopied, Fault, NothingLeftBehind, Discipline, InstallPCs
  <2> QED
    BY <1>7, <2>1, ContentsAssumption DEF RemoveCopied
<1>8. ASSUME NEW f \in Files, RemoveTarget(f)
      PROVE  Unfinished'
  BY <1>8, ContentsAssumption DEF RemoveTarget
<1> QED
  BY <1>1, <1>2, <1>3, <1>4, <1>5, <1>6, <1>7, <1>8 DEF TaskStep

LEMMA UnfinishedStep ==
  ASSUME NothingLeftBehind, TypeOK, Discipline, Unfinished, [Next]_vars
  PROVE  Unfinished'
<1>1. CASE TaskStep
  BY <1>1, UnfinishedTask
<1>2. ASSUME NEW m \in Mods, NEW y \in BOOLEAN, Begin(m, y)
      PROVE  Unfinished'
  BY <1>2 DEF Begin, Unfinished, card
<1>3. CASE Cancel \/ Close \/ CollectResult \/ Reopen
  BY <1>3 DEF Cancel, Close, CollectResult, Reopen, Restart, Unfinished, card, lists
<1>4. CASE Crash
  <2>1. pc \notin {"copy", "rollback"}
    BY <1>4 DEF Crash, Fault, NothingLeftBehind, Discipline, InstallPCs
  <2> QED
    BY <1>4, <2>1 DEF Crash, Restart, Unfinished
<1>5. CASE UNCHANGED vars
  BY <1>5 DEF vars, card, lists, Unfinished
<1> QED
  BY <1>1, <1>2, <1>3, <1>4, <1>5 DEF Next

LEMMA CutOffTask ==
  ASSUME TypeOK, CutOff, TaskStep
  PROVE  CutOff'
<1> USE DEF CutOff, TypeOK, lists, Goto, Finish
<1>1. CASE Classify \/ ScanEnd \/ MakeDirectories \/ RecordEnd
  BY <1>1 DEF Classify, ScanEnd, MakeDirectories, RecordEnd, TaskFrame
<1>2. CASE AbortCopy \/ CopyEnd \/ RollbackEnd
  BY <1>2 DEF AbortCopy, CopyEnd, RollbackEnd, TaskFrame
<1>3. CASE CountFilesToRemove \/ Deduplicate \/ RemoveEnd
  BY <1>3 DEF CountFilesToRemove, Deduplicate, RemoveEnd, TaskFrame
<1>4. ASSUME NEW f \in Files, ScanNew(f) \/ ScanShared(f) \/ ScanConflict(f) \/ RecordConflict(f)
      PROVE  CutOff'
  BY <1>4 DEF ScanNew, ScanShared, ScanConflict, RecordConflict, TaskFrame
<1>5. ASSUME NEW f \in Files, OpenTarget(f)
      PROVE  CutOff'
  BY <1>5 DEF OpenTarget, FileFrame
<1>6. ASSUME NEW f \in Files, WriteTarget(f)
      PROVE  CutOff'
  <2>1. Crc[mod][f] # Partial
    BY ContentType, ContentsAssumption DEF Owners
  <2> QED
    BY <1>6, <2>1 DEF WriteTarget, FileFrame
<1>7. ASSUME NEW f \in Files, RemoveCopied(f)
      PROVE  CutOff'
  BY <1>7, ContentsAssumption DEF RemoveCopied, FileFrame
<1>8. ASSUME NEW f \in Files, RemoveTarget(f)
      PROVE  CutOff'
  BY <1>8, ContentsAssumption DEF RemoveTarget, TaskFrame
<1> QED
  BY <1>1, <1>2, <1>3, <1>4, <1>5, <1>6, <1>7, <1>8 DEF TaskStep

LEMMA CutOffStep ==
  ASSUME TypeOK, CutOff, [Next]_vars
  PROVE  CutOff'
<1>1. CASE TaskStep
  BY <1>1, CutOffTask
<1>2. ASSUME NEW m \in Mods, NEW y \in BOOLEAN, Begin(m, y)
      PROVE  CutOff'
  BY <1>2 DEF Begin, CutOff, card
<1>3. CASE Cancel \/ Close \/ CollectResult \/ Reopen
  BY <1>3 DEF Cancel, Close, CollectResult, Reopen, Restart, CutOff, card, lists
<1>4. CASE Crash
  BY <1>4 DEF Crash, Restart, CutOff
<1>5. CASE UNCHANGED vars
  BY <1>5 DEF vars, card, lists, CutOff
<1> QED
  BY <1>1, <1>2, <1>3, <1>4, <1>5 DEF Next

(* Whatever faults there are, a file that is cut off outlives its operation *)
(* only if its end was lost where the code does not look (fclose, a short   *)
(* read), if it could not be removed, or if the power went: no stop and no  *)
(* error that the code notices leaves one.                                  *)
THEOREM NoTruncatedFileLeft == Spec => []NoTruncatedFile
<1>1. Init => CutOff
  <2> SUFFICES ASSUME Init PROVE CutOff
    OBVIOUS
  <2>1. \A f \in Files : fs[f] # Partial
    BY ContentType, ContentsAssumption DEF Init, Owners
  <2> QED
    BY <2>1 DEF CutOff
<1>2. TypeOK /\ CutOff /\ [Next]_vars => CutOff'
  BY CutOffStep
<1>3. CutOff => NoTruncatedFile
  BY DEF CutOff, NoTruncatedFile
<1> QED
  BY <1>1, <1>2, <1>3, DisciplineHolds, PTL DEF Spec

-----------------------------------------------------------------------------
(***************************************************************************)
(* FileOwnership with leaks.                                               *)
(***************************************************************************)

LEMMA MadeTask ==
  ASSUME IInv, Made, TaskStep
  PROVE  Made'
<1> USE DEF Made, IInv, TypeOK, Placed, Scanned, InstallPCs, UninstallPCs, FilesOf,
            TaskFrame, FileFrame, lists, Goto, Finish
<1>1. CASE Classify \/ ScanEnd \/ MakeDirectories \/ RecordEnd
  BY <1>1 DEF Classify, ScanEnd, MakeDirectories, RecordEnd
<1>2. CASE AbortCopy \/ CopyEnd \/ RollbackEnd
  BY <1>2 DEF AbortCopy, CopyEnd, RollbackEnd
<1>3. CASE CountFilesToRemove \/ Deduplicate \/ RemoveEnd
  BY <1>3 DEF CountFilesToRemove, Deduplicate, RemoveEnd, Ops
<1>4. ASSUME NEW f \in Files, ScanNew(f) \/ ScanShared(f) \/ ScanConflict(f) \/ RecordConflict(f)
      PROVE  Made'
  BY <1>4 DEF ScanNew, ScanShared, ScanConflict, RecordConflict
<1>5. ASSUME NEW f \in Files, OpenTarget(f) \/ WriteTarget(f) \/ RemoveCopied(f)
      PROVE  Made'
  BY <1>5 DEF OpenTarget, WriteTarget, RemoveCopied
<1>6. ASSUME NEW f \in Files, RemoveTarget(f)
      PROVE  Made'
  BY <1>6 DEF RemoveTarget
<1> QED
  BY <1>1, <1>2, <1>3, <1>4, <1>5, <1>6 DEF TaskStep

LEMMA MadeStep ==
  ASSUME IInv, Made, [Next]_vars
  PROVE  Made'
<1>1. CASE TaskStep
  BY <1>1, MadeTask
<1>2. ASSUME NEW m \in Mods, NEW y \in BOOLEAN, Begin(m, y)
      PROVE  Made'
  BY <1>2 DEF Begin, Made
<1>3. CASE Cancel \/ Close
  BY <1>3 DEF Cancel, Close, Made, lists, FilesOf
<1>4. CASE CollectResult \/ Reopen \/ Crash
  BY <1>4 DEF CollectResult, Reopen, Crash, Restart, Goto, Made
<1>5. CASE UNCHANGED vars
  BY <1>5 DEF vars, lists, Made, FilesOf
<1> QED
  BY <1>1, <1>2, <1>3, <1>4, <1>5 DEF Next

(* As long as the uninstallation goes on and nobody else touches the card,  *)
(* only what it deletes itself changes.                                    *)
LEMMA DeletedStep ==
  ASSUME IInv, OnlyInstallFaults, Deleted, [Next]_vars
  PROVE  Deleted'
<1> SUFFICES ASSUME NEW m \in Mods, Going(m)', NEW f \in FilesOf(m)
             PROVE  (fs[f] = Crc[m][f] \/ (fs[f] = Missing /\ Staying(f) = {}))'
  BY DEF Deleted, FilesOf
<1> f \in Files
  BY DEF FilesOf
<1>1. CASE Deduplicate
  <2>1. m = mod /\ m \in installed /\ pc = "dedup" /\ fs' = fs
    BY <1>1 DEF Deduplicate, Going, TaskFrame, IInv, Placed, UninstallPCs
  <2> QED
    BY <2>1 DEF IInv, Complete, Going
<1>2. ASSUME NEW g \in Files, RemoveTarget(g)
      PROVE  (fs[f] = Crc[m][f] \/ (fs[f] = Missing /\ Staying(f) = {}))'
  <2>1. /\ m = mod /\ Going(m) /\ g \in todo
        /\ \A h \in Files : Staying(h)' = Staying(h)
    BY <1>2 DEF RemoveTarget, Going, TaskFrame, Staying, FilesOf, IInv, Removable
  <2>2. fs' \in {fs, [fs EXCEPT ![g] = Missing]}
    BY <1>2 DEF RemoveTarget
  <2>3. Staying(g) = {}
    BY <1>2, <2>1 DEF RemoveTarget, IInv, Removable
  <2> QED
    BY <2>1, <2>2, <2>3 DEF Deleted, IInv, TypeOK
<1>3. CASE RemoveEnd
  <2>1. Going(m) /\ fs' = fs /\ Staying(f)' = Staying(f)
    BY <1>3 DEF RemoveEnd, Going, TaskFrame, Staying, FilesOf, Goto, Finish
  <2> QED
    BY <2>1 DEF Deleted
<1>4. CASE (Cancel \/ Close \/ UNCHANGED vars)
  <2>1. Going(m) /\ fs' = fs /\ Staying(f)' = Staying(f)
    BY <1>4 DEF Cancel, Close, vars, card, lists, Going, Staying, FilesOf
  <2> QED
    BY <2>1 DEF Deleted
<1>5. ASSUME NEW g \in Files,
             \/ ScanNew(g) \/ ScanShared(g) \/ ScanConflict(g)
             \/ OpenTarget(g) \/ WriteTarget(g) \/ RemoveCopied(g) \/ RecordConflict(g)
      PROVE  FALSE
  BY <1>5 DEF ScanNew, ScanShared, ScanConflict, OpenTarget, WriteTarget, RemoveCopied,
              RecordConflict, Going, IInv, Placed, InstallPCs, TaskFrame, FileFrame
<1>6. CASE \/ Classify \/ ScanEnd \/ MakeDirectories \/ AbortCopy \/ CopyEnd
           \/ RollbackEnd \/ RecordEnd \/ CountFilesToRemove
  BY <1>6 DEF Classify, ScanEnd, MakeDirectories, AbortCopy, CopyEnd, RollbackEnd,
              RecordEnd, CountFilesToRemove, Going, IInv, Placed, InstallPCs, TaskFrame,
              Goto, Finish
<1>7. CASE \/ \E n \in Mods, y \in BOOLEAN : Begin(n, y)
           \/ CollectResult \/ Reopen \/ Crash
  BY <1>7 DEF Begin, CollectResult, Reopen, Crash, Restart, Goto, Going
<1> QED
  BY <1>1, <1>2, <1>3, <1>4, <1>5, <1>6, <1>7 DEF Next, TaskStep

(* What the abstract card shows of the operation that runs.                 *)
CommittedIs ==
  /\ op = "install" => CommittedCard = [f \in Files |-> IF f \in made THEN Missing ELSE fs[f]]
  /\ op = "uninstall" /\ ~Going(mod) => CommittedCard = fs
  /\ op = "uninstall" /\ Going(mod) =>
       CommittedCard = [f \in Files |-> IF f \in FilesOf(mod) THEN Crc[mod][f] ELSE fs[f]]
  /\ made = {} /\ pc \notin {"remove", "done"} => CommittedCard = fs

LEMMA CommittedCardIs == IInv /\ Made => CommittedIs
<1> SUFFICES ASSUME IInv, Made PROVE CommittedIs
  OBVIOUS
<1> USE DEF CommittedIs
<1> USE DEF CommittedCard, Removing
<1>1. fs = [f \in Files |-> fs[f]]
  BY DEF IInv, TypeOK
<1>2. CASE op = "install"
  BY <1>1, <1>2
<1>3. CASE op = "uninstall"
  <2>1. made = {} /\ (pc \in {"remove", "done"} => mod \in installed)
    BY <1>3 DEF Made, IInv, Placed
  <2>2. ~Going(mod) => CommittedCard = fs
    <3> SUFFICES ASSUME ~Going(mod)
                 PROVE  \A f \in Files : CommittedCard[f] = fs[f]
      BY <1>1
    <3> QED
      BY <1>3, <2>1 DEF IInv, Complete, Removable
  <2>3. Going(mod) => CommittedCard =
                        [f \in Files |-> IF f \in FilesOf(mod) THEN Crc[mod][f] ELSE fs[f]]
    BY <1>3, <2>1 DEF Going
  <2> QED
    BY <1>1, <1>3, <2>1, <2>2, <2>3
<1> QED
  BY <1>2, <1>3 DEF IInv, TypeOK, Ops

LEMMA CommittedCardWillBe == (IInv /\ Made => CommittedIs)'
BY CommittedCardIs, PTL

(* No step of the task changes the abstract card.                           *)
LEMMA TaskStutters ==
  ASSUME OwnershipInv, OwnershipInv', OnlyInstallFaults, NothingLeftBehind, TaskStep
  PROVE  UNCHANGED <<installed, CommittedCard>>
<1> USE DEF OwnershipInv
<1>0. CommittedIs /\ CommittedIs'
  BY CommittedCardIs, CommittedCardWillBe
<1>1. UNCHANGED <<installed, op, mod>>
  BY DEF TaskStep, Classify, ScanNew, ScanShared, ScanConflict, ScanEnd, MakeDirectories,
         OpenTarget, WriteTarget, AbortCopy, CopyEnd, RemoveCopied, RollbackEnd,
         RecordConflict, RecordEnd, CountFilesToRemove, Deduplicate, RemoveTarget,
         RemoveEnd, TaskFrame, FileFrame
<1>2. CASE op = "install"
  <2>1. /\ CommittedCard = [f \in Files |-> IF f \in made THEN Missing ELSE fs[f]]
        /\ CommittedCard' = [f \in Files |-> IF f \in made' THEN Missing ELSE fs'[f]]
    BY <1>1, <1>2, <1>0 DEF CommittedIs
  <2>2. ASSUME NEW f \in Files, OpenTarget(f)
        PROVE  CommittedCard' = CommittedCard
    BY <1>2, <2>1, <2>2 DEF OpenTarget, IInv, TypeOK, Scanned, InstallPCs
  <2>3. ASSUME NEW f \in Files, WriteTarget(f)
        PROVE  CommittedCard' = CommittedCard
    <3>1. \A g \in Files : g # f => fs'[g] = fs[g]
      BY <2>3 DEF WriteTarget, IInv, TypeOK
    <3> QED
      BY <2>1, <2>3, <3>1 DEF WriteTarget, Open
  <2>4. ASSUME NEW f \in Files, RemoveCopied(f)
        PROVE  CommittedCard' = CommittedCard
    <3>1. fs' = [fs EXCEPT ![f] = Missing]
      BY <1>2, <2>4 DEF RemoveCopied, Fault, NothingLeftBehind
    <3> QED
      BY <2>1, <2>4, <3>1 DEF RemoveCopied, IInv, TypeOK
  <2>5. CASE UNCHANGED <<fs, made>>
    BY <1>1, <2>1, <2>5
  <2>6. ASSUME NEW f \in Files, RemoveTarget(f)
        PROVE  FALSE
    BY <1>2, <2>6 DEF RemoveTarget, IInv, Placed, UninstallPCs
  <2> QED
    BY <1>1, <2>2, <2>3, <2>4, <2>5, <2>6
       DEF TaskStep, Classify, ScanNew, ScanShared, ScanConflict, ScanEnd,
           MakeDirectories, AbortCopy, CopyEnd, RollbackEnd, RecordConflict,
           RecordEnd, CountFilesToRemove, Deduplicate, RemoveEnd, lists
<1>3. CASE op = "uninstall"
  <2>1. CASE Deduplicate
    <3>1. mod \in Mods /\ mod \in installed /\ ~Going(mod) /\ fs' = fs
      BY <1>3, <2>1 DEF Deduplicate, IInv, TypeOK, Placed, UninstallPCs, Going
    <3>2. Going(mod)'
      BY <1>1, <1>3, <2>1 DEF Deduplicate, Goto, Going
    <3>3. \A f \in FilesOf(mod) : fs[f] = Crc[mod][f]
      BY <3>1 DEF IInv, Complete
    <3>4. CommittedCard' = [f \in Files |-> IF f \in FilesOf(mod) THEN Crc[mod][f] ELSE fs[f]]
      BY <1>1, <1>3, <3>1, <3>2, <1>0 DEF CommittedIs, FilesOf, Going
    <3>5. CommittedCard' = fs
      BY <3>3, <3>4 DEF IInv, TypeOK
    <3> QED
      BY <1>1, <1>3, <3>1, <3>5, <1>0 DEF CommittedIs
  <2>2. ASSUME NEW f \in Files, RemoveTarget(f)
        PROVE  CommittedCard' = CommittedCard
    <3>1. Going(mod) /\ Going(mod)' /\ f \in FilesOf(mod)
      BY <1>1, <1>3, <2>2 DEF RemoveTarget, Going, IInv, Removable
    <3>2. \A g \in Files : g # f => fs'[g] = fs[g]
      BY <2>2 DEF RemoveTarget, IInv, TypeOK
    <3>3. CommittedCard = [g \in Files |-> IF g \in FilesOf(mod) THEN Crc[mod][g] ELSE fs[g]]
      BY <1>3, <3>1, <1>0 DEF CommittedIs
    <3>4. CommittedCard' = [g \in Files |-> IF g \in FilesOf(mod) THEN Crc[mod][g] ELSE fs'[g]]
      BY <1>1, <1>3, <3>1, <1>0 DEF CommittedIs, Going, FilesOf
    <3> QED
      BY <3>1, <3>2, <3>3, <3>4
  <2>3. CASE RemoveEnd
    <3>1. Going(mod) /\ Going(mod)' /\ fs' = fs
      <4>1. pc = "remove" /\ fs' = fs /\ ~stop /\ result
        BY <1>3, <2>3 DEF RemoveEnd, IInv, Removable, Placed
      <4>2. pc' = "done" /\ result'
        BY <2>3, <4>1 DEF RemoveEnd, Goto
      <4> QED
        BY <1>1, <1>3, <4>1, <4>2 DEF Going
    <3>2. CommittedCard = [g \in Files |-> IF g \in FilesOf(mod) THEN Crc[mod][g] ELSE fs[g]]
      BY <1>3, <3>1, <1>0 DEF CommittedIs
    <3>3. CommittedCard' = [g \in Files |-> IF g \in FilesOf(mod) THEN Crc[mod][g] ELSE fs[g]]
      BY <1>1, <1>3, <3>1, <1>0 DEF CommittedIs, Going, FilesOf
    <3> QED
      BY <1>1, <3>2, <3>3
  <2>4. CASE Classify \/ CountFilesToRemove
    <3>1. ~Going(mod) /\ ~Going(mod)' /\ fs' = fs
      BY <1>1, <2>4 DEF Classify, CountFilesToRemove, Going, Goto, Finish
    <3> QED
      BY <1>1, <1>3, <3>1, <1>0 DEF CommittedIs, Going
  <2>5. ASSUME NEW g \in Files,
               \/ ScanNew(g) \/ ScanShared(g) \/ ScanConflict(g)
               \/ OpenTarget(g) \/ WriteTarget(g) \/ RemoveCopied(g) \/ RecordConflict(g)
        PROVE  FALSE
    BY <1>3, <2>5 DEF ScanNew, ScanShared, ScanConflict, OpenTarget, WriteTarget, RemoveCopied,
                      RecordConflict, IInv, Placed, InstallPCs
  <2>6. ~(ScanEnd \/ MakeDirectories \/ AbortCopy \/ CopyEnd \/ RollbackEnd \/ RecordEnd)
    BY <1>3 DEF ScanEnd, MakeDirectories, AbortCopy, CopyEnd, RollbackEnd, RecordEnd,
                IInv, Placed, InstallPCs
  <2> QED
    BY <1>1, <2>1, <2>2, <2>3, <2>4, <2>5, <2>6 DEF TaskStep
<1> QED
  BY <1>2, <1>3 DEF IInv, TypeOK, Ops

(* An installation that is over has brought the mod's files, and no other.  *)
LEMMA InstalledCard ==
  ASSUME OwnershipInv, op = "install", pc = "done", result
  PROVE  /\ \A f \in FilesOf(mod) : CommittedCard[f] \in {Missing, Crc[mod][f]}
         /\ fs = [f \in Files |-> IF f \in FilesOf(mod) THEN Crc[mod][f] ELSE CommittedCard[f]]
<1>1. CommittedCard = [f \in Files |-> IF f \in made THEN Missing ELSE fs[f]]
  BY CommittedCardIs DEF CommittedIs, OwnershipInv
<1>2. made \subseteq FilesOf(mod) /\ \A f \in FilesOf(mod) : fs[f] = Crc[mod][f]
  BY DEF OwnershipInv, Made, IInv, Remembered
<1>3. \A f \in Files :
        fs[f] = IF f \in FilesOf(mod) THEN Crc[mod][f] ELSE CommittedCard[f]
  BY <1>1, <1>2
<1> QED
  BY <1>1, <1>2, <1>3 DEF OwnershipInv, IInv, TypeOK, FilesOf

(* The steps of the App that report nothing change nothing.                 *)
LEMMA AppStutters ==
  ASSUME OwnershipInv, OwnershipInv', OnlyInstallFaults, NothingLeftBehind,
         \/ \E m \in Mods, y \in BOOLEAN : Begin(m, y)
         \/ Cancel \/ Close \/ Crash \/ UNCHANGED vars
  PROVE  UNCHANGED <<installed, CommittedCard>>
<1> USE DEF OwnershipInv
<1>0. CommittedIs /\ CommittedIs'
  BY CommittedCardIs, CommittedCardWillBe
<1>1. ASSUME NEW m \in Mods, NEW y \in BOOLEAN, Begin(m, y)
      PROVE  UNCHANGED <<installed, CommittedCard>>
  <2>1. made = {} /\ made' = {} /\ pc = "idle" /\ pc' = "classify"
    BY <1>1 DEF Begin, Goto, Made
  <2>2. CommittedCard = fs /\ CommittedCard' = fs'
    BY <1>0, <2>1 DEF CommittedIs
  <2> QED
    BY <1>1, <2>2 DEF Begin, card
<1>2. CASE Cancel \/ Close \/ UNCHANGED vars
  BY <1>2 DEF Cancel, Close, vars, card, lists, CommittedCard, Removing, FilesOf
<1>3. CASE Crash
  BY <1>3 DEF Crash, Fault, OnlyInstallFaults, NothingLeftBehind, IInv, TypeOK, Ops
<1> QED
  BY <1>1, <1>2, <1>3

(* Nothing is shown of an operation once it is over.                        *)
LEMMA IdleCard ==
  ASSUME OwnershipInv', CollectResult \/ Reopen
  PROVE  CommittedCard' = fs /\ fs' = fs
<1>1. CommittedIs'
  BY CommittedCardWillBe DEF OwnershipInv
<1>2. pc' = "idle" /\ made' = {} /\ fs' = fs
  BY DEF CollectResult, Reopen, Restart, Goto
<1> QED
  BY <1>1, <1>2 DEF CommittedIs

(* An installation whose result is lost, or is not good, has left all its   *)
(* files or none.                                                          *)
LEMMA LeaveRefines ==
  ASSUME OwnershipInv, OwnershipInv', CollectResult \/ Reopen,
         op = "install", pc = "done", installed' = installed
  PROVE  LeakyOwnership!Next \/ UNCHANGED <<installed, CommittedCard>>
<1>1. CommittedCard' = fs
  BY IdleCard
<1>2. mod \in Mods /\ mod \notin installed
  BY DEF OwnershipInv, IInv, TypeOK, Placed
<1>3. CASE result
  <2>1. LeakyOwnership!Leave(mod)
    BY <1>1, <1>2, <1>3, InstalledCard DEF LeakyOwnership!Leave, LeakyOwnership!FilesOf, FilesOf
  <2> QED
    BY <1>2, <2>1 DEF LeakyOwnership!Next
<1>4. CASE ~result
  <2>1. made = {}
    BY <1>4 DEF OwnershipInv, Made
  <2>2. CommittedCard = [f \in Files |-> fs[f]]
    BY <2>1, CommittedCardIs DEF OwnershipInv, CommittedIs
  <2> QED
    BY <1>1, <2>2 DEF OwnershipInv, IInv, TypeOK
<1> QED
  BY <1>3, <1>4

LEMMA InstallRefines ==
  ASSUME OwnershipInv, OwnershipInv', CollectResult, op = "install"
  PROVE  LeakyOwnership!Next \/ UNCHANGED <<installed, CommittedCard>>
<1>1. CASE installed' = installed
  BY <1>1, LeaveRefines DEF CollectResult
<1>2. CASE Renames /\ installed' = ToggleInstalled
  <2>1. mod \in Mods /\ mod \notin installed /\ result /\ pc = "done"
    BY <1>2 DEF CollectResult, Renames, OwnershipInv, IInv, TypeOK, Placed
  <2>2. installed' = installed \cup {mod} /\ CommittedCard' = fs
    BY <1>2, <2>1, IdleCard DEF ToggleInstalled
  <2>3. LeakyOwnership!Install(mod)
    BY <2>1, <2>2, InstalledCard DEF LeakyOwnership!Install, LeakyOwnership!FilesOf, FilesOf
  <2> QED
    BY <2>1, <2>3 DEF LeakyOwnership!Next
<1> QED
  BY <1>1, <1>2 DEF CollectResult

(* An uninstallation that is over has deleted only what nobody else owns.   *)
LEMMA UninstalledCard ==
  ASSUME OwnershipInv, op = "uninstall", pc = "done", result
  PROVE  /\ fs \in [Files -> Contents \cup {Missing}]
         /\ \A f \in Files :
              \/ fs[f] = CommittedCard[f]
              \/ /\ fs[f] = Missing /\ f \in FilesOf(mod)
                 /\ \A m \in installed \ {mod} : f \notin FilesOf(m)
<1>1. Going(mod) /\ mod \in Mods
  BY DEF Going, OwnershipInv, IInv, TypeOK
<1>2. CommittedCard = [f \in Files |-> IF f \in FilesOf(mod) THEN Crc[mod][f] ELSE fs[f]]
  BY <1>1, CommittedCardIs DEF CommittedIs, OwnershipInv
<1>3. \A f \in Files : fs[f] # Partial
  BY DEF OwnershipInv, Unfinished
<1>4. \A f \in FilesOf(mod) : fs[f] = Crc[mod][f] \/ (fs[f] = Missing /\ Staying(f) = {})
  BY <1>1 DEF OwnershipInv, Deleted
<1>5. \A f \in Files : Staying(f) = {} => \A m \in installed \ {mod} : f \notin FilesOf(m)
  BY DEF Staying, Going
<1> QED
  BY <1>2, <1>3, <1>4, <1>5 DEF OwnershipInv, IInv, TypeOK, FilesOf

LEMMA UninstallRefines ==
  ASSUME OwnershipInv, OwnershipInv', OnlyInstallFaults, CollectResult, op = "uninstall"
  PROVE  LeakyOwnership!Next \/ UNCHANGED <<installed, CommittedCard>>
<1>1. /\ mod \in Mods /\ mod \in installed /\ ~stop /\ pc = "done"
      /\ CommittedCard' = fs
  BY IdleCard DEF CollectResult, OwnershipInv, IInv, TypeOK, Placed
<1>2. CASE result
  <2>1. installed' = installed \ {mod}
    BY <1>1, <1>2 DEF CollectResult, Renames, ToggleInstalled, Fault, OnlyInstallFaults
  <2>2. \A f \in Files :
          \/ CommittedCard'[f] = CommittedCard[f]
          \/ /\ CommittedCard'[f] = Missing /\ f \in FilesOf(mod)
             /\ ~ LeakyOwnership!Held(f, installed')
    BY <1>1, <1>2, <2>1, UninstalledCard
       DEF LeakyOwnership!Held, LeakyOwnership!FilesOf, FilesOf
  <2>3. LeakyOwnership!Uninstall(mod)
    BY <1>1, <1>2, <2>1, <2>2, UninstalledCard
       DEF LeakyOwnership!Uninstall, LeakyOwnership!FilesOf, FilesOf
  <2> QED
    BY <1>1, <2>3 DEF LeakyOwnership!Next
<1>3. CASE ~result
  <2>1. ~Going(mod) /\ installed' = installed
    BY <1>1, <1>3 DEF Going, CollectResult, Renames
  <2>2. CommittedCard = fs
    BY <2>1, CommittedCardIs DEF CommittedIs, OwnershipInv
  <2> QED
    BY <1>1, <2>1, <2>2
<1> QED
  BY <1>2, <1>3

LEMMA ReopenRefines ==
  ASSUME OwnershipInv, OwnershipInv', Reopen
  PROVE  LeakyOwnership!Next \/ UNCHANGED <<installed, CommittedCard>>
<1>1. installed' = installed /\ CommittedCard' = fs
  BY IdleCard DEF Reopen, Restart
<1>2. CASE pc = "idle"
  <2>1. CommittedCard = fs
    BY <1>2, CommittedCardIs DEF CommittedIs, OwnershipInv, Made
  <2> QED
    BY <1>1, <2>1
<1>3. CASE pc = "done"
  <2>1. op = "install"
    BY <1>3 DEF Reopen, OwnershipInv, IInv, TypeOK, Ops, Placed
  <2> QED
    BY <1>1, <1>3, <2>1, LeaveRefines
<1> QED
  BY <1>2, <1>3 DEF Reopen

LEMMA OwnershipInvStep ==
  ASSUME SharedWithinGame, OnlyInstallFaults, NothingLeftBehind,
         OwnershipInv, Discipline, [Next]_vars
  PROVE  OwnershipInv'
BY StepInv, UnfinishedStep, MadeStep, DeletedStep DEF OwnershipInv, IInv

LEMMA OwnershipInvInit == Init => OwnershipInv
<1> SUFFICES ASSUME Init PROVE OwnershipInv
  OBVIOUS
<1>1. \A f \in Files : fs[f] # Partial
  BY ContentType, ContentsAssumption DEF Init, Owners
<1> QED
  BY <1>1, InitInv DEF OwnershipInv, Init, Unfinished, Made, Deleted, Going

(* Whatever is cancelled, closed or fails while a mod is installed, a file  *)
(* is there as long as an installed mod needs it and with the content that  *)
(* mod wants; an operation that ends badly leaves all files of its mod or   *)
(* none.                                                                   *)
THEOREM LeakyOwnershipImplemented ==
  ASSUME SharedWithinGame, OnlyInstallFaults, NothingLeftBehind
  PROVE  Spec => ImplementsLeakyOwnership
<1>1. Init => LeakyOwnership!Init
  <2> SUFFICES ASSUME Init PROVE LeakyOwnership!Init
    OBVIOUS
  <2>1. CommittedIs
    BY OwnershipInvInit, CommittedCardIs DEF OwnershipInv
  <2>2. CommittedCard = fs
    BY <2>1 DEF CommittedIs, Init
  <2> QED
    BY <2>2 DEF Init, LeakyOwnership!Init
<1>2. OwnershipInv /\ OwnershipInv' /\ [Next]_vars => [LeakyOwnership!Next]_(LeakyOwnership!vars)
  <2> SUFFICES ASSUME OwnershipInv, OwnershipInv', [Next]_vars
               PROVE  LeakyOwnership!Next \/ UNCHANGED <<installed, CommittedCard>>
    BY DEF LeakyOwnership!vars
  <2> QED
    BY TaskStutters, AppStutters, InstallRefines, UninstallRefines, ReopenRefines
       DEF Next, OwnershipInv, IInv, TypeOK, Ops
<1>3. OwnershipInv /\ Discipline /\ [Next]_vars => OwnershipInv'
  BY OwnershipInvStep
<1> QED
  BY <1>1, <1>2, <1>3, OwnershipInvInit, DisciplineHolds, PTL
     DEF Spec, ImplementsLeakyOwnership, LeakyOwnership!Spec

-----------------------------------------------------------------------------
(***************************************************************************)
(* Exact counts, and FileOwnership exactly, when nothing goes wrong.       *)
(***************************************************************************)

LEMMA Quiet ==
  ASSUME Undisturbing
  PROVE  OnlyInstallFaults /\ NothingLeftBehind /\ \A kind : ~Fault(kind)
BY DEF Undisturbing, OnlyInstallFaults, NothingLeftBehind, Fault

(* A file that is there and not of the running operation has an owner.      *)
LEMMA OwnerThere ==
  ASSUME ExactInv, NEW f \in Files, fs[f] # Missing, f \notin made, pc # "remove"
  PROVE  \E m \in installed : m \in Staying(f) /\ f \in FilesOf(m) /\ fs[f] = Crc[m][f]
BY DEF ExactInv, OwnershipInv, IInv, Owned, Complete, Staying

(* A scan meets no conflict, and leaves files to be written.                *)
LEMMA ScanQuiet ==
  ASSUME Undisturbing, ExactInv
  PROVE  /\ \A f \in Files : ~ScanConflict(f)
         /\ pc = "mkdir" => fresh # {}
         /\ pc = "count" => todo # {}
<1>1. /\ mod \in Mods /\ mod \in Owners /\ installed \subseteq Owners
      /\ pc = "scan" => made = {} /\ todo \subseteq FilesOf(mod)
  BY DEF ExactInv, OwnershipInv, IInv, TypeOK, Made, Scanned, InstallPCs, Owners
<1>2. ASSUME NEW f \in Files, ScanConflict(f)
      PROVE  FALSE
  <2>1. f \in FilesOf(mod) /\ fs[f] \notin {Missing, Crc[mod][f]} /\ made = {} /\ pc = "scan"
    BY <1>1, <1>2 DEF ScanConflict
  <2>2. PICK m \in installed : f \in FilesOf(m) /\ fs[f] = Crc[m][f]
    BY <2>1, OwnerThere
  <2> QED
    BY <1>1, <2>1, <2>2 DEF Undisturbing, Compatible
<1>3. PICK f \in FilesOf(mod) : \A n \in Owners \ {mod} : f \notin FilesOf(n)
  BY <1>1 DEF Undisturbing, Compatible
<1>4. ASSUME pc = "mkdir", fresh = {}
      PROVE  FALSE
  <2>1. todo = {} /\ made = {} /\ mod \notin installed
    BY <1>4 DEF ExactInv, OwnershipInv, IInv, TypeOK, Made, Placed, Remembered, InstallPCs
  <2>2. fs[f] # Missing /\ f \in Files
    BY <1>3, <1>4, <2>1 DEF ExactInv, OwnershipInv, IInv, Remembered, FilesOf
  <2>3. PICK m \in installed : f \in FilesOf(m)
    BY <1>4, <2>1, <2>2, OwnerThere
  <2> QED
    BY <1>1, <1>3, <2>1, <2>3
<1>5. ASSUME pc = "count", todo = {}
      PROVE  FALSE
  BY <1>3, <1>5 DEF ExactInv, OwnershipInv, IInv, Removable
<1> QED
  BY <1>2, <1>4, <1>5

LEMMA UndisturbedTask ==
  ASSUME Undisturbing, ExactInv, TaskStep
  PROVE  Undisturbed'
<1> USE Quiet DEF Undisturbed, ExactInv, TaskFrame, FileFrame, flags, lists, Goto, Finish,
                  InstallPCs, UninstallPCs
<1>1. CASE Classify
  BY <1>1 DEF Classify
<1>2. CASE ScanEnd \/ MakeDirectories
  <2>1. Kind[mod] # "stray"
    BY DEF Undisturbing, Compatible, OwnershipInv, IInv, TypeOK
  <2> QED
    BY <1>2, <2>1, ScanQuiet DEF ScanEnd, MakeDirectories
<1>3. CASE AbortCopy \/ CopyEnd \/ RollbackEnd \/ RecordEnd
  <2>1. pc = "conflicts" => op = "install"
    BY DEF OwnershipInv, IInv, Placed
  <2> QED
    BY <1>3, <2>1 DEF AbortCopy, CopyEnd, RollbackEnd, RecordEnd
<1>4. CASE CountFilesToRemove
  <2>1. pc = "count" => todo # {}
    BY ScanQuiet
  <2> QED
    BY <1>4, <2>1 DEF CountFilesToRemove
<1>5. CASE Deduplicate
  BY <1>5 DEF Deduplicate
<1>6. CASE RemoveEnd
  <2>1. result /\ op = "uninstall"
    BY <1>6 DEF RemoveEnd, OwnershipInv, IInv, Placed, Removable
  <2> QED
    BY <1>6, <2>1 DEF RemoveEnd
<1>7. ASSUME NEW f \in Files, \/ ScanNew(f) \/ ScanShared(f) \/ OpenTarget(f) \/ WriteTarget(f)
                              \/ RemoveCopied(f) \/ RecordConflict(f) \/ RemoveTarget(f)
      PROVE  Undisturbed'
  BY <1>7 DEF ScanNew, ScanShared, OpenTarget, WriteTarget, RemoveCopied, RecordConflict,
              RemoveTarget
<1> QED
  BY <1>1, <1>2, <1>3, <1>4, <1>5, <1>6, <1>7, ScanQuiet DEF TaskStep

LEMMA UndisturbedStep ==
  ASSUME Undisturbing, ExactInv, [Next]_vars
  PROVE  Undisturbed'
<1>1. CASE TaskStep
  BY <1>1, UndisturbedTask
<1> USE Quiet DEF Undisturbed, ExactInv, flags, lists, Goto, InstallPCs, UninstallPCs
<1>2. ASSUME NEW m \in Mods, NEW y \in BOOLEAN, Begin(m, y)
      PROVE  Undisturbed'
  BY <1>2 DEF Begin
<1>3. CASE Close
  <2>1. pc = "idle" /\ pc' = "idle" /\ stop' = FALSE /\ UNCHANGED <<op, clean>>
    BY <1>3 DEF Close
  <2> QED
    BY <2>1
<1>4. CASE Cancel \/ Crash \/ CollectResult \/ Reopen
  BY <1>4 DEF Cancel, Crash, CollectResult, Reopen, Restart
<1>5. CASE UNCHANGED vars
  BY <1>5 DEF vars
<1> QED
  BY <1>1, <1>2, <1>3, <1>4, <1>5 DEF Next

(* What the report of an operation that went well changes.                  *)
LEMMA CollectedQuiet ==
  ASSUME Undisturbing, ExactInv, CollectResult
  PROVE  /\ pc = "done" /\ pc' = "idle" /\ made' = {}
         /\ UNCHANGED <<fs, common, cached, op, mod>>
         /\ op = "install" /\ result =>
              mod \notin installed /\ installed' = installed \cup {mod}
         /\ op = "uninstall" /\ result =>
              mod \in installed /\ installed' = installed \ {mod}
         /\ ~result => installed' = installed
BY Quiet DEF CollectResult, Goto, Renames, ToggleInstalled, ExactInv, Undisturbed, OwnershipInv,
             IInv, Placed

LEMMA StayingCollected ==
  ASSUME Undisturbing, ExactInv, CollectResult, NEW f \in Files
  PROVE  Staying(f)' = IF op = "install" /\ result /\ f \in FilesOf(mod)
                       THEN Staying(f) \cup {mod} ELSE Staying(f)
<1>1. \A m : ~Going(m)'
  BY CollectedQuiet DEF Going
<1>2. CASE op = "install"
  BY <1>1, <1>2, CollectedQuiet DEF Staying, Going, FilesOf, ExactInv, OwnershipInv, IInv, TypeOK
<1>3. CASE op = "uninstall"
  <2>1. \A m : Going(m) <=> m = mod /\ result
    BY <1>3, CollectedQuiet DEF Going
  <2> QED
    BY <1>1, <1>3, <2>1, CollectedQuiet DEF Staying, FilesOf, ExactInv, OwnershipInv, IInv, TypeOK
<1> QED
  BY <1>2, <1>3 DEF ExactInv, OwnershipInv, IInv, TypeOK, Ops

(* Before an operation is reported only the deduplication changes the       *)
(* owners of a file.                                                       *)
LEMMA StayingKept ==
  ASSUME Undisturbing, ExactInv, [Next]_vars, ~Deduplicate, ~CollectResult, NEW f \in Files
  PROVE  Staying(f)' = Staying(f)
<1>1. CASE TaskStep
  <2>1. UNCHANGED <<installed, op, mod>>
    BY <1>1 DEF TaskStep, Classify, ScanNew, ScanShared, ScanConflict, ScanEnd, MakeDirectories,
           OpenTarget, WriteTarget, AbortCopy, CopyEnd, RemoveCopied, RollbackEnd,
           RecordConflict, RecordEnd, CountFilesToRemove, RemoveTarget, RemoveEnd,
           TaskFrame, FileFrame
  <2>2. CASE op = "install"
    BY <2>1, <2>2, StayingInstall
  <2>3. CASE op = "uninstall"
    <3>1. CASE Classify \/ CountFilesToRemove
      <4>1. \A m : ~Going(m) /\ ~Going(m)'
        BY <3>1 DEF Classify, CountFilesToRemove, Going, Goto, Finish
      <4> QED
        BY <2>1, <4>1 DEF Staying, FilesOf
    <3>2. CASE RemoveEnd
      <4>1. pc = "remove" /\ result /\ ~stop
        BY <3>2 DEF RemoveEnd, ExactInv, Undisturbed, OwnershipInv, IInv, Removable
      <4>2. pc' = "done" /\ result'
        BY <3>2, <4>1 DEF RemoveEnd, Goto
      <4>3. \A m : Going(m)' <=> Going(m)
        BY <2>1, <4>1, <4>2 DEF Going
      <4> QED
        BY <2>1, <4>3 DEF Staying, FilesOf
    <3>3. ASSUME NEW g \in Files, RemoveTarget(g)
          PROVE  Staying(f)' = Staying(f)
      <4>1. \A m : Going(m)' <=> Going(m)
        BY <2>1, <3>3 DEF RemoveTarget, Going
      <4> QED
        BY <2>1, <4>1 DEF Staying, FilesOf
    <3>4. ASSUME NEW g \in Files,
                 \/ ScanNew(g) \/ ScanShared(g) \/ ScanConflict(g)
                 \/ OpenTarget(g) \/ WriteTarget(g) \/ RemoveCopied(g) \/ RecordConflict(g)
          PROVE  FALSE
      BY <2>3, <3>4 DEF ScanNew, ScanShared, ScanConflict, OpenTarget, WriteTarget, RemoveCopied,
                        RecordConflict, ExactInv, OwnershipInv, IInv, Placed, InstallPCs
    <3>5. ~(ScanEnd \/ MakeDirectories \/ AbortCopy \/ CopyEnd \/ RollbackEnd \/ RecordEnd)
      BY <2>3 DEF ScanEnd, MakeDirectories, AbortCopy, CopyEnd, RollbackEnd, RecordEnd,
                  ExactInv, OwnershipInv, IInv, Placed, InstallPCs
    <3> QED
      BY <1>1, <3>1, <3>2, <3>3, <3>4, <3>5 DEF TaskStep
  <2> QED
    BY <2>2, <2>3 DEF ExactInv, OwnershipInv, IInv, TypeOK, Ops
<1>2. ASSUME NEW m \in Mods, NEW y \in BOOLEAN, Begin(m, y)
      PROVE  Staying(f)' = Staying(f)
  <2>1. \A n : ~Going(n) /\ ~Going(n)'
    BY <1>2 DEF Begin, Going, Goto
  <2> QED
    BY <1>2, <2>1 DEF Staying, FilesOf, Begin, card
<1>3. CASE Close \/ UNCHANGED vars
  BY <1>3 DEF Close, vars, card, lists, Staying, Going, FilesOf
<1>4. CASE Reopen
  <2>1. \A n : ~Going(n) /\ ~Going(n)'
    BY <1>4 DEF Reopen, Restart, Going, Goto, ExactInv, Undisturbed
  <2> QED
    BY <1>4, <2>1 DEF Staying, FilesOf, Reopen, Restart
<1>5. ~Cancel /\ ~Crash
  BY Quiet DEF Cancel, Crash
<1> QED
  BY <1>1, <1>2, <1>3, <1>4, <1>5 DEF Next

(* What the deduplication does to owners, counts and the files to delete.   *)
LEMMA DeduplicatedQuiet ==
  ASSUME Undisturbing, ExactInv, Deduplicate
  PROVE  /\ mod \in Mods /\ mod \in installed /\ op = "uninstall"
         /\ pc = "dedup" /\ pc' = "remove"
         /\ UNCHANGED <<fs, cached, installed, op, mod, made>>
         /\ \A f \in Files : Staying(f)' = Staying(f) \ {mod}
         /\ \A f \in FilesOf(mod) : mod \in Staying(f)
         /\ todo' = {f \in FilesOf(mod) : Count(mod, f) = 0}
         /\ common' = [common EXCEPT ![Game[mod]] =
               [f \in Files |-> IF f \in FilesOf(mod) \ todo' THEN @[f] - 1 ELSE @[f]]]
<1>1. /\ mod \in Mods /\ mod \in installed /\ op = "uninstall"
      /\ pc = "dedup" /\ pc' = "remove" /\ todo = FilesOf(mod)
      /\ UNCHANGED <<fs, cached, installed, op, mod, made>>
  BY DEF Deduplicate, TaskFrame, Goto, ExactInv, OwnershipInv, IInv, TypeOK, Placed, UninstallPCs,
         Removable
<1>2. /\ todo' = {f \in FilesOf(mod) : Count(mod, f) = 0}
      /\ common' = [common EXCEPT ![Game[mod]] =
               [f \in Files |-> IF f \in FilesOf(mod) \ todo' THEN @[f] - 1 ELSE @[f]]]
  BY <1>1, Quiet DEF Deduplicate, Unlisted, Lowered, Count
<1>3. /\ \A f \in Files : Staying(f)' = Staying(f) \ {mod}
      /\ \A f \in FilesOf(mod) : mod \in Staying(f)
  BY <1>1 DEF Staying, Going, FilesOf
<1> QED
  BY <1>1, <1>2, <1>3

LEMMA RememberedTask ==
  ASSUME Undisturbing, ExactInv, TaskStep
  PROVE  RememberedExactly'
<1> USE DEF RememberedExactly, TaskFrame, FileFrame, lists, Goto, Finish, InstallPCs, FilesOf
<1>0. RememberedExactly /\ TypeOK /\ Placed /\ Scanned /\ Remembered /\ Made
  BY DEF ExactInv, OwnershipInv, IInv
<1>1. CASE Classify
  <2>1. \A f \in Files : cached[f] = 0
    BY <1>0, <1>1 DEF Classify
  <2>2. fresh = {} /\ made = {}
    BY <1>0, <1>1 DEF Classify, Scanned
  <2> QED
    BY <1>1, <2>1, <2>2 DEF Classify
<1>2. CASE ScanEnd \/ MakeDirectories
  BY <1>0, <1>2, ScanQuiet, Quiet DEF ScanEnd, MakeDirectories, ExactInv, Undisturbed,
                                      Undisturbing, Compatible, TypeOK
<1>3. CASE CopyEnd \/ RecordEnd
  BY <1>0, <1>3 DEF CopyEnd, RecordEnd
<1>4. CASE CountFilesToRemove \/ Deduplicate \/ RemoveEnd
  BY <1>0, <1>4 DEF CountFilesToRemove, Deduplicate, RemoveEnd
<1>5. ASSUME NEW g \in Files, ScanNew(g)
      PROVE  RememberedExactly'
  BY <1>0, <1>5 DEF ScanNew
<1>6. ASSUME NEW g \in Files, ScanShared(g)
      PROVE  RememberedExactly'
  <2>1. op = "install" /\ g \in FilesOf(mod) /\ g \notin fresh /\ made = {}
    BY <1>0, <1>6 DEF ScanShared, Placed, Scanned, Made
  <2>2. cached[g] = 0
    BY <1>0, <1>6, <2>1 DEF ScanShared
  <2>3. cached' = [cached EXCEPT ![g] = 1]
    BY <1>6, <2>2 DEF ScanShared
  <2> QED
    BY <1>0, <1>6, <2>1, <2>3 DEF ScanShared, TypeOK
<1>7. ASSUME NEW g \in Files, OpenTarget(g) \/ WriteTarget(g)
      PROVE  RememberedExactly'
  BY <1>0, <1>7 DEF OpenTarget, WriteTarget, Open
<1>8. ASSUME NEW g \in Files, RecordConflict(g)
      PROVE  RememberedExactly'
  BY <1>0, <1>8 DEF RecordConflict, TypeOK
<1>9. ASSUME NEW g \in Files, RemoveTarget(g)
      PROVE  RememberedExactly'
  BY <1>0, <1>9 DEF RemoveTarget
<1>10. /\ ~AbortCopy /\ ~RollbackEnd
       /\ \A g \in Files : ~RemoveCopied(g)
  BY Quiet DEF AbortCopy, RollbackEnd, RemoveCopied, ExactInv, Undisturbed
<1> QED
  BY <1>1, <1>2, <1>3, <1>4, <1>5, <1>6, <1>7, <1>8, <1>9, <1>10, ScanQuiet DEF TaskStep

LEMMA RememberedStep ==
  ASSUME Undisturbing, ExactInv, [Next]_vars
  PROVE  RememberedExactly'
<1>1. CASE TaskStep
  BY <1>1, RememberedTask
<1> USE DEF RememberedExactly, lists, Goto, InstallPCs
<1>2. ASSUME NEW m \in Mods, NEW y \in BOOLEAN, Begin(m, y)
      PROVE  RememberedExactly'
  BY <1>2 DEF Begin, ExactInv
<1>3. CASE Close \/ CollectResult
  BY <1>3 DEF Close, CollectResult, ExactInv, FilesOf
<1>4. CASE Reopen
  BY <1>4 DEF Reopen, Restart, Nothing
<1>5. CASE UNCHANGED vars
  BY <1>5 DEF vars, ExactInv, FilesOf
<1>6. ~Cancel /\ ~Crash
  BY Quiet DEF Cancel, Crash
<1> QED
  BY <1>1, <1>2, <1>3, <1>4, <1>5, <1>6 DEF Next

LEMMA OwnedStep ==
  ASSUME Undisturbing, ExactInv, [Next]_vars
  PROVE  Owned'
<1> SUFFICES ASSUME NEW f \in Files, fs'[f] # Missing
             PROVE  \/ Staying(f)' # {} \/ f \in made'
                    \/ pc' = "remove" /\ f \in todo'
  BY DEF Owned
<1>0. Owned /\ Made /\ Placed /\ TypeOK
  BY DEF ExactInv, OwnershipInv, IInv
<1>1. CASE Deduplicate
  <2>1. fs[f] # Missing /\ pc = "dedup" /\ f \notin made
    BY <1>0, <1>1, DeduplicatedQuiet DEF Made
  <2>2. Staying(f) # {}
    BY <1>0, <2>1 DEF Owned
  <2>3. CASE Staying(f) = {mod}
    <3>1. f \in FilesOf(mod)
      BY <2>3 DEF Staying
    <3>2. Cardinality(Staying(f)) = 1
      BY <2>3, FS_Singleton
    <3>3. Count(mod, f) = 0
      BY <1>1, <2>1, <3>1, <3>2, DeduplicatedQuiet DEF ExactInv, CountedExactly
    <3> QED
      BY <1>1, <3>1, <3>3, DeduplicatedQuiet
  <2>4. CASE Staying(f) # {mod}
    BY <1>1, <2>2, <2>4, DeduplicatedQuiet
  <2> QED
    BY <2>3, <2>4
<1>2. CASE CollectResult
  <2>1. /\ fs[f] # Missing /\ pc = "done" /\ made' = {}
        /\ made # {} => op = "install" /\ result /\ made \subseteq FilesOf(mod)
    BY <1>0, <1>2, CollectedQuiet DEF Made, TypeOK, Ops
  <2>2. Staying(f) # {} \/ f \in made
    BY <1>0, <2>1 DEF Owned
  <2> QED
    BY <1>2, <2>1, <2>2, StayingCollected
<1>3. CASE ~Deduplicate /\ ~CollectResult
  <2>1. Staying(f)' = Staying(f)
    BY <1>3, StayingKept
  <2>2. ASSUME NEW g \in Files, OpenTarget(g) \/ WriteTarget(g) \/ RemoveTarget(g)
        PROVE  \/ Staying(f)' # {} \/ f \in made'
               \/ pc' = "remove" /\ f \in todo'
    <3>1. CASE OpenTarget(g)
      BY <1>0, <2>1, <3>1 DEF OpenTarget, Owned, TypeOK
    <3>2. CASE WriteTarget(g)
      BY <1>0, <2>1, <3>2 DEF WriteTarget, Open, Owned, TypeOK
    <3>3. CASE RemoveTarget(g)
      <4>1. fs' = [fs EXCEPT ![g] = Missing] /\ UNCHANGED made /\ pc = "remove"
        BY <3>3, Quiet DEF RemoveTarget
      <4> QED
        BY <1>0, <2>1, <3>3, <4>1 DEF RemoveTarget, Owned, TypeOK
    <3> QED
      BY <2>2, <3>1, <3>2, <3>3
  <2>3. CASE RemoveEnd
    <3>1. todo = {} /\ UNCHANGED <<fs, made>>
      BY <2>3 DEF RemoveEnd, lists, ExactInv, Undisturbed
    <3> QED
      BY <1>0, <2>1, <3>1 DEF Owned
  <2>4. CASE \E m \in Mods, y \in BOOLEAN : Begin(m, y)
    BY <1>0, <2>1, <2>4 DEF Begin, Owned, Made, card
  <2>5. CASE Reopen
    BY <1>0, <2>1, <2>5 DEF Reopen, Restart, Owned, Made, ExactInv, Undisturbed
  <2>6. CASE Close \/ UNCHANGED vars
    BY <1>0, <2>1, <2>6 DEF Close, vars, card, lists, Owned
  <2>7. CASE \/ Classify \/ ScanEnd \/ MakeDirectories \/ CopyEnd \/ RecordEnd
             \/ CountFilesToRemove
             \/ \E g \in Files : ScanNew(g) \/ ScanShared(g) \/ RecordConflict(g)
    BY <1>0, <2>1, <2>7 DEF Classify, ScanEnd, MakeDirectories, CopyEnd, RecordEnd,
       CountFilesToRemove, ScanNew, ScanShared, RecordConflict, Owned, lists
  <2>8. /\ ~AbortCopy /\ ~RollbackEnd /\ ~Cancel /\ ~Crash
        /\ \A g \in Files : ~RemoveCopied(g)
    BY Quiet DEF AbortCopy, RollbackEnd, RemoveCopied, Cancel, Crash, ExactInv, Undisturbed
  <2> QED
    BY <1>3, <2>2, <2>3, <2>4, <2>5, <2>6, <2>7, <2>8, ScanQuiet DEF Next, TaskStep
<1> QED
  BY <1>1, <1>2, <1>3

Owed(owners) == IF owners = 0 THEN 0 ELSE owners - 1

(* The conjuncts of CountedExactly, of one mod and one of its files.        *)
CountedFor(m, f) ==
  Count(m, f) =
    IF f \in FilesOf(mod) /\ pc = "conflicts" THEN Cardinality(Staying(f)) - cached[f]
    ELSE IF f \in FilesOf(mod) /\ pc = "done" /\ op = "install" /\ result
         THEN Cardinality(Staying(f))
    ELSE Owed(Cardinality(Staying(f)))

LEMMA CountedForAll ==
  CountedExactly <=> \A m \in Mods : \A f \in FilesOf(m) : CountedFor(m, f)
BY DEF CountedExactly, CountedFor, Owed

LEMMA CountedForAllNext ==
  (CountedExactly <=> \A m \in Mods : \A f \in FilesOf(m) : CountedFor(m, f))'
BY CountedForAll, PTL

(* The extra owners of an installed mod's file, or of one it shares.        *)
LEMMA CountedCopyEnd ==
  ASSUME Undisturbing, ExactInv, CopyEnd, NEW m \in Mods, NEW f \in FilesOf(m)
  PROVE  CountedFor(m, f)'
<1>1. /\ pc = "copy" /\ pc' = "conflicts" /\ fresh = {} /\ todo = {} /\ op = "install"
      /\ UNCHANGED <<common, cached, installed, op, mod, result>> /\ f \in Files
  BY DEF CopyEnd, Goto, TaskFrame, ExactInv, OwnershipInv, IInv, Placed, Remembered, InstallPCs,
         FilesOf
<1>2. Staying(f)' = Staying(f)
  BY <1>1, StayingInstall
<1>3. Count(m, f) = Owed(Cardinality(Staying(f))) /\ Count(m, f)' = Count(m, f)
  BY <1>1, CountedForAll DEF CountedFor, ExactInv, Count
<1>4. CASE f \in FilesOf(mod)
  <2>1. cached[f] = IF f \in made THEN 0 ELSE 1
    BY <1>1, <1>4 DEF ExactInv, RememberedExactly
  <2>2. CASE f \in made
    <3>1. Staying(f) = {}
      BY <1>1, <2>2 DEF ExactInv, OwnershipInv, IInv, Scanned, InstallPCs
    <3> QED
      BY <1>1, <1>2, <1>3, <1>4, <2>1, <2>2, <3>1, FS_EmptySet DEF CountedFor, Owed
  <2>3. CASE f \notin made
    <3>1. fs[f] # Missing
      BY <1>1, <1>4, <2>3 DEF ExactInv, OwnershipInv, IInv, Remembered, FilesOf
    <3>2. Staying(f) # {}
      BY <1>1, <2>3, <3>1, OwnerThere
    <3>3. Cardinality(Staying(f)) \in Nat \ {0}
      BY <1>1, <3>2, StayingFinite, FS_EmptySet DEF ExactInv, OwnershipInv, IInv
    <3> QED
      BY <1>1, <1>2, <1>3, <1>4, <2>1, <2>3, <3>3 DEF CountedFor, Owed
  <2> QED
    BY <2>2, <2>3
<1>5. CASE f \notin FilesOf(mod)
  BY <1>1, <1>2, <1>3, <1>5 DEF CountedFor, FilesOf
<1> QED
  BY <1>4, <1>5

LEMMA CountedRecord ==
  ASSUME Undisturbing, ExactInv, NEW g \in Files, RecordConflict(g),
         NEW m \in Mods, NEW f \in FilesOf(m)
  PROVE  CountedFor(m, f)'
<1>1. /\ pc = "conflicts" /\ pc' = "conflicts" /\ cached[g] > 0 /\ op = "install"
      /\ UNCHANGED <<installed, op, mod>>
      /\ cached' = [cached EXCEPT ![g] = @ - 1]
      /\ common' = [common EXCEPT ![Game[mod]][g] = @ + 1]
      /\ mod \in Mods /\ f \in Files
  BY Quiet DEF RecordConflict, TaskFrame, ExactInv, OwnershipInv, IInv, TypeOK, Placed, InstallPCs,
               Counted, FilesOf
<1>2. Staying(f)' = Staying(f) /\ Cardinality(Staying(f)) \in Nat
  BY <1>1, StayingInstall, StayingFinite DEF ExactInv, OwnershipInv, IInv
<1>3. g \in FilesOf(mod)
  BY <1>1 DEF ExactInv, RememberedExactly, InstallPCs
<1>4. /\ CountedFor(m, f) /\ Count(m, f) \in Nat
      /\ cached \in [Files -> Nat] /\ common \in [Games -> [Files -> Nat]]
      /\ Game[m] \in Games /\ Game[mod] \in Games
  BY <1>1, CountedForAll, ModsAssumption DEF ExactInv, OwnershipInv, IInv, TypeOK, Count
<1>5. CASE f = g
  <2>1. Game[m] = Game[mod]
    BY <1>1, <1>3, <1>5 DEF Undisturbing, SharedWithinGame
  <2>2. Count(m, f)' = Count(m, f) + 1 /\ cached'[f] = cached[f] - 1 /\ cached[f] \in Nat
    BY <1>1, <1>4, <1>5, <2>1 DEF Count
  <2> QED
    BY <1>1, <1>2, <1>3, <1>4, <1>5, <2>2 DEF CountedFor, FilesOf
<1>6. CASE f # g
  <2>1. Count(m, f)' = Count(m, f) /\ cached'[f] = cached[f]
    BY <1>1, <1>4, <1>6 DEF Count
  <2> QED
    BY <1>1, <1>2, <1>4, <2>1 DEF CountedFor, FilesOf
<1> QED
  BY <1>5, <1>6

LEMMA CountedDeduplicate ==
  ASSUME Undisturbing, ExactInv, Deduplicate, NEW m \in Mods, NEW f \in FilesOf(m)
  PROVE  CountedFor(m, f)'
<1>1. /\ f \in Files /\ Cardinality(Staying(f)) \in Nat /\ IsFiniteSet(Staying(f))
      /\ Count(m, f) \in Nat /\ Game[m] \in Games /\ Game[mod] \in Games
      /\ common \in [Games -> [Files -> Nat]]
  BY StayingFinite, ModsAssumption DEF ExactInv, OwnershipInv, IInv, TypeOK, Count, FilesOf
<1>2. Count(m, f) = Owed(Cardinality(Staying(f)))
  BY DeduplicatedQuiet, CountedForAll DEF CountedFor, ExactInv
<1>3. CountedFor(m, f)' <=> Count(m, f)' = Owed(Cardinality(Staying(f)'))
  BY DeduplicatedQuiet DEF CountedFor
<1>4. CASE f \in FilesOf(mod)
  <2>1. Game[m] = Game[mod]
    BY <1>4, DeduplicatedQuiet DEF Undisturbing, SharedWithinGame
  <2>2. Count(m, f)' = IF Count(m, f) = 0 THEN 0 ELSE Count(m, f) - 1
    BY <1>1, <1>4, <2>1, DeduplicatedQuiet DEF Count
  <2>3. /\ Cardinality(Staying(f)') = Cardinality(Staying(f)) - 1
        /\ Cardinality(Staying(f)') \in Nat
    <3>1. mod \in Staying(f) /\ Staying(f)' = Staying(f) \ {mod}
      BY <1>1, <1>4, DeduplicatedQuiet
    <3> QED
      BY <1>1, <3>1, FS_RemoveElement, FS_CardinalityType
  <2> QED
    BY <1>1, <1>2, <1>3, <2>2, <2>3 DEF Owed
<1>5. CASE f \notin FilesOf(mod)
  <2>1. Count(m, f)' = Count(m, f)
    BY <1>1, <1>5, DeduplicatedQuiet DEF Count
  <2>2. Staying(f)' = Staying(f)
    <3>1. mod \notin Staying(f)
      BY <1>5 DEF Staying
    <3>2. Staying(f)' = Staying(f) \ {mod}
      BY <1>1, DeduplicatedQuiet
    <3> QED
      BY <3>1, <3>2
  <2> QED
    BY <1>2, <1>3, <2>1, <2>2
<1> QED
  BY <1>4, <1>5

LEMMA CountedCollect ==
  ASSUME Undisturbing, ExactInv, CollectResult, NEW m \in Mods, NEW f \in FilesOf(m)
  PROVE  CountedFor(m, f)'
<1>1. /\ f \in Files /\ Cardinality(Staying(f)) \in Nat /\ IsFiniteSet(Staying(f))
      /\ Count(m, f)' = Count(m, f) /\ pc = "done"
      /\ CountedFor(m, f)
  BY StayingFinite, CollectedQuiet, CountedForAll DEF ExactInv, OwnershipInv, IInv, Count, FilesOf
<1>2. CountedFor(m, f)' <=> Count(m, f)' = Owed(Cardinality(Staying(f)'))
  BY CollectedQuiet DEF CountedFor
<1>3. CASE op = "install" /\ result /\ f \in FilesOf(mod)
  <2>1. Count(m, f) = Cardinality(Staying(f))
    BY <1>1, <1>3 DEF CountedFor
  <2>2. mod \notin Staying(f) /\ Staying(f)' = Staying(f) \cup {mod}
    BY <1>1, <1>3, StayingCollected, CollectedQuiet DEF Staying
  <2>3. Cardinality(Staying(f)') = Cardinality(Staying(f)) + 1
    BY <1>1, <2>2, FS_AddElement
  <2> QED
    BY <1>1, <1>2, <2>1, <2>3 DEF Owed
<1>4. CASE ~(op = "install" /\ result /\ f \in FilesOf(mod))
  <2>1. Staying(f)' = Staying(f)
    BY <1>1, <1>4, StayingCollected
  <2> QED
    BY <1>1, <1>2, <1>4, <2>1 DEF CountedFor
<1> QED
  BY <1>3, <1>4

LEMMA CountedElsewhere ==
  ASSUME Undisturbing, ExactInv, [Next]_vars, ~CopyEnd, ~Deduplicate, ~CollectResult,
         \A g \in Files : ~RecordConflict(g), NEW m \in Mods, NEW f \in FilesOf(m)
  PROVE  CountedFor(m, f)'
<1>1. /\ Staying(f)' = Staying(f) /\ CountedFor(m, f) /\ f \in Files
      /\ Cardinality(Staying(f)) \in Nat
  BY StayingKept, StayingFinite, CountedForAll DEF FilesOf, ExactInv, OwnershipInv, IInv
<1>2. CASE RecordEnd
  <2>1. /\ pc = "conflicts" /\ pc' = "done" /\ result' /\ op = "install"
        /\ UNCHANGED <<common, op, mod>> /\ cached[f] = 0
    BY <1>1, <1>2 DEF RecordEnd, TaskFrame, Goto, Finish, ExactInv, OwnershipInv, IInv, Placed,
                      InstallPCs
  <2>2. f \in FilesOf(mod) => Count(m, f) = Cardinality(Staying(f))
    BY <1>1, <2>1 DEF CountedFor
  <2>3. f \notin FilesOf(mod) => Count(m, f) = Owed(Cardinality(Staying(f)))
    BY <1>1, <2>1 DEF CountedFor
  <2>4. Count(m, f)' = Count(m, f)
    BY <2>1 DEF Count
  <2> QED
    BY <1>1, <2>1, <2>2, <2>3, <2>4 DEF CountedFor, FilesOf
<1>3. CASE UNCHANGED vars
  BY <1>1, <1>3 DEF vars, card, CountedFor, Count, FilesOf
<1>4. CASE RemoveEnd \/ \E g \in Files : RemoveTarget(g)
  <2>1. /\ pc = "remove" /\ op' = "uninstall" /\ pc' \in {"remove", "done"}
        /\ UNCHANGED common
    BY <1>4 DEF RemoveEnd, RemoveTarget, TaskFrame, Goto, Finish, ExactInv, OwnershipInv, IInv,
                Placed, UninstallPCs
  <2> QED
    BY <1>1, <2>1 DEF CountedFor, Count
<1>5. CASE \/ Classify \/ ScanEnd \/ MakeDirectories \/ CountFilesToRemove \/ Close \/ Reopen
           \/ \E n \in Mods, y \in BOOLEAN : Begin(n, y)
           \/ \E g \in Files : ScanNew(g) \/ ScanShared(g) \/ OpenTarget(g) \/ WriteTarget(g)
  <2>1. /\ pc \notin {"conflicts", "done"} /\ pc' # "conflicts" /\ (pc' = "done" => ~result')
        /\ UNCHANGED common
    BY <1>5, Quiet DEF Classify, ScanEnd, MakeDirectories, CountFilesToRemove, Close, Reopen,
       Restart, Begin, ScanNew, ScanShared, OpenTarget, WriteTarget, Goto, Finish, card,
       ExactInv, Undisturbed
  <2> QED
    BY <1>1, <2>1 DEF CountedFor, Count
<1>6. /\ ~AbortCopy /\ ~RollbackEnd /\ ~Cancel /\ ~Crash
      /\ \A g \in Files : ~RemoveCopied(g)
  BY Quiet DEF AbortCopy, RollbackEnd, RemoveCopied, Cancel, Crash, ExactInv, Undisturbed
<1> QED
  BY <1>2, <1>3, <1>4, <1>5, <1>6, ScanQuiet DEF Next, TaskStep

LEMMA CountedStep ==
  ASSUME Undisturbing, ExactInv, [Next]_vars
  PROVE  CountedExactly'
<1> SUFFICES ASSUME NEW m \in Mods, NEW f \in FilesOf(m)
             PROVE  CountedFor(m, f)'
  BY CountedForAllNext DEF FilesOf
<1> QED
  BY CountedCopyEnd, CountedRecord, CountedDeduplicate, CountedCollect, CountedElsewhere

LEMMA ExactInvHolds ==
  ASSUME Undisturbing
  PROVE  Spec => []ExactInv
<1>1. Init => ExactInv
  <2> SUFFICES ASSUME Init PROVE ExactInv
    OBVIOUS
  <2>1. OwnershipInv
    BY OwnershipInvInit
  <2>2. Undisturbed /\ RememberedExactly
    BY DEF Init, Undisturbed, RememberedExactly, InstallPCs, UninstallPCs, Nothing
  <2>3. \A f \in Files : Staying(f) = {m \in {User} : f \in FilesOf(m)}
    BY DEF Init, Staying, Going
  <2>4. Owned
    BY <2>3 DEF Init, Owned, FilesOf
  <2>5. ASSUME NEW m \in Mods, NEW f \in FilesOf(m)
        PROVE  CountedFor(m, f)
    <3>1. f \in Files /\ Count(m, f) = 0
      BY ModsAssumption DEF FilesOf, Count, Init, Nothing
    <3>2. Staying(f) = {} \/ Staying(f) = {User}
      BY <2>3, <3>1
    <3>3. Cardinality({}) = 0 /\ Cardinality({User}) = 1
      BY FS_EmptySet, FS_Singleton
    <3>4. Owed(Cardinality(Staying(f))) = 0
      BY <3>2, <3>3 DEF Owed
    <3> QED
      BY <3>1, <3>4 DEF CountedFor, Init
  <2> QED
    BY <2>1, <2>2, <2>4, <2>5, CountedForAll DEF ExactInv
<1>2. Discipline /\ ExactInv /\ [Next]_vars => ExactInv'
  <2> SUFFICES ASSUME Discipline, ExactInv, [Next]_vars PROVE ExactInv'
    OBVIOUS
  <2>1. OwnershipInv'
    BY Quiet, OwnershipInvStep DEF Undisturbing, ExactInv
  <2> QED
    BY <2>1, UndisturbedStep, RememberedStep, CountedStep, OwnedStep DEF ExactInv
<1> QED
  BY <1>1, <1>2, DisciplineHolds, PTL DEF Spec

(* As long as mods agree on the files they share and every operation goes   *)
(* through, mod_file_common.json counts the extra owners of every file      *)
(* exactly between operations, so that the last owner's uninstallation will *)
(* find it unlisted.                                                       *)
THEOREM CountsAreExact ==
  ASSUME Undisturbing
  PROVE  Spec => []CountsExact
<1>1. ExactInv => CountsExact
  <2> SUFFICES ASSUME ExactInv, pc = "idle", NEW m \in Mods, NEW f \in FilesOf(m)
               PROVE  Count(m, f) = IF Holders(f) = {} THEN 0 ELSE Cardinality(Holders(f)) - 1
    BY DEF CountsExact, Count
  <2>1. f \in Files /\ Staying(f) = Holders(f)
    BY DEF FilesOf, Staying, Holders, Going
  <2>2. CountedFor(m, f)
    BY CountedForAll DEF ExactInv
  <2>3. Holders(f) = {} <=> Cardinality(Holders(f)) = 0
    BY <2>1, StayingFinite, FS_EmptySet DEF ExactInv, OwnershipInv, IInv
  <2> QED
    BY <2>1, <2>2, <2>3 DEF CountedFor, Owed
<1> QED
  BY <1>1, ExactInvHolds, PTL

LEMMA CollectRefines ==
  ASSUME Undisturbing, ExactInv, ExactInv', CollectResult
  PROVE  Ownership!Next \/ UNCHANGED <<installed, CommittedCard>>
<1>1. /\ mod \in Mods /\ pc = "done" /\ CommittedCard' = fs /\ op \in Ops /\ CommittedIs
      /\ fs = [f \in Files |-> fs[f]]
  BY CollectedQuiet, IdleCard, CommittedCardIs DEF ExactInv, OwnershipInv, IInv, TypeOK
<1>2. CASE ~result
  <2>1. installed' = installed /\ made = {} /\ ~Going(mod)
    BY <1>1, <1>2, CollectedQuiet DEF ExactInv, OwnershipInv, Made, Going
  <2>2. CommittedCard = fs
    BY <1>1, <2>1 DEF CommittedIs, Ops
  <2> QED
    BY <1>1, <2>1, <2>2
<1>3. CASE op = "install" /\ result
  <2>1. mod \notin installed /\ installed' = installed \cup {mod}
    BY <1>3, CollectedQuiet
  <2>2. Ownership!Install(mod)
    BY <1>1, <1>3, <2>1, InstalledCard
       DEF Ownership!Install, Ownership!FilesOf, FilesOf, ExactInv
  <2> QED
    BY <1>1, <2>2 DEF Ownership!Next
<1>4. CASE op = "uninstall" /\ result
  <2>1. mod \in installed /\ installed' = installed \ {mod} /\ Going(mod) /\ made = {}
    BY <1>1, <1>4, CollectedQuiet DEF Going, ExactInv, OwnershipInv, Made
  <2>2. CommittedCard = [f \in Files |-> IF f \in FilesOf(mod) THEN Crc[mod][f] ELSE fs[f]]
    BY <1>1, <1>4, <2>1 DEF CommittedIs
  <2>3. \A f \in Files : Staying(f) = {} <=> \A m \in installed' : f \notin FilesOf(m)
    BY <1>1, <1>4, <2>1 DEF Staying, Going
  <2>4. \A f \in FilesOf(mod) : /\ fs[f] # Missing => Staying(f) # {} /\ fs[f] = Crc[mod][f]
                                /\ fs[f] = Missing => Staying(f) = {}
    <3> SUFFICES ASSUME NEW f \in FilesOf(mod)
                 PROVE  /\ fs[f] # Missing => Staying(f) # {} /\ fs[f] = Crc[mod][f]
                        /\ fs[f] = Missing => Staying(f) = {}
      OBVIOUS
    <3>1. fs[f] = Crc[mod][f] \/ (fs[f] = Missing /\ Staying(f) = {})
      BY <1>1, <2>1 DEF ExactInv, OwnershipInv, Deleted
    <3>2. fs[f] # Missing => Staying(f) # {}
      BY <1>1, <2>1 DEF ExactInv, Owned, FilesOf
    <3> QED
      BY <3>1, <3>2 DEF FilesOf
  <2>5. fs \in [Files -> Contents \cup {Missing}]
    BY <1>1, <1>4, UninstalledCard DEF ExactInv
  <2>6. \A f \in Files :
          \/ /\ CommittedCard'[f] = CommittedCard[f]
             /\ Ownership!Held(f, installed') \/ f \notin FilesOf(mod)
          \/ /\ CommittedCard'[f] = Missing /\ f \in FilesOf(mod)
             /\ ~ Ownership!Held(f, installed')
    BY <1>1, <2>2, <2>3, <2>4 DEF Ownership!Held, Ownership!FilesOf, FilesOf
  <2>7. Ownership!Uninstall(mod)
    BY <1>1, <2>1, <2>5, <2>6 DEF Ownership!Uninstall, Ownership!FilesOf, FilesOf
  <2> QED
    BY <1>1, <2>7 DEF Ownership!Next
<1> QED
  BY <1>1, <1>2, <1>3, <1>4 DEF Ops

(* When nothing goes wrong the program is FileOwnership: every installation *)
(* and uninstallation is one step of it, a file goes with its last owner    *)
(* and not before, and nothing is left behind.                              *)
THEOREM OwnershipImplemented ==
  ASSUME Undisturbing
  PROVE  Spec => ImplementsOwnership
<1>1. Init => Ownership!Init
  <2> SUFFICES ASSUME Init PROVE Ownership!Init
    OBVIOUS
  <2>1. CommittedIs
    BY OwnershipInvInit, CommittedCardIs DEF OwnershipInv
  <2>2. CommittedCard = fs
    BY <2>1 DEF CommittedIs, Init
  <2> QED
    BY <2>2 DEF Init, Ownership!Init
<1>2. ExactInv /\ ExactInv' /\ [Next]_vars => [Ownership!Next]_(Ownership!vars)
  <2> SUFFICES ASSUME ExactInv, ExactInv', [Next]_vars
               PROVE  Ownership!Next \/ UNCHANGED <<installed, CommittedCard>>
    BY DEF Ownership!vars
  <2>1. CASE Reopen
    <3>1. pc = "idle" /\ installed' = installed /\ CommittedCard' = fs
      BY <2>1, IdleCard DEF Reopen, Restart, ExactInv, Undisturbed
    <3>2. CommittedCard = fs
      BY <3>1, CommittedCardIs DEF CommittedIs, ExactInv, OwnershipInv, Made
    <3> QED
      BY <3>1, <3>2
  <2> QED
    BY <2>1, TaskStutters, AppStutters, CollectRefines, Quiet DEF Next, ExactInv
<1> QED
  BY <1>1, <1>2, ExactInvHolds, PTL DEF Spec, ImplementsOwnership, Ownership!Spec

=============================================================================
