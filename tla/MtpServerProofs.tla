--------------------------- MODULE MtpServerProofs ---------------------------
(***************************************************************************)
(* Proofs about the MTP server, for every size, every buffer and all       *)
(* faults.  First FileTransfer: the bytes arrive in order, and, unless a   *)
(* source may end early, a transfer implements Copying.  Then MtpServer:   *)
(* its files are moved by the steps of FileTransfer, what the frame loop   *)
(* reads is true, and a received file ends with its data.                  *)
(***************************************************************************)
EXTENDS MtpServer, TLAPS

-----------------------------------------------------------------------------
(* A transfer *)

Results     == {"ok", "failed"}
Buffers     == [from : Nat, len : Nat]
CallerPlaces == {"idle", "read", "write", "wait", "wake", "unstarted"}
ReaderLooking == {"look", "lookwait", "lookgot", "seen", "read"}
ReaderSetting == {"set", "setwait", "setgot"}
ReaderActive  == {"loop"} \union ReaderLooking \union ReaderSetting
ReaderPlaces  == ReaderActive \union {"leave", "report", "done"}
WriterActive  == {"loop", "get", "getwait", "getgot", "write"}
WriterPlaces  == WriterActive \union {"leave", "report", "done"}

Flags ==
  /\ stop \in BOOLEAN /\ full \in BOOLEAN /\ flushing \in BOOLEAN
  /\ read_running \in BOOLEAN /\ write_running \in BOOLEAN /\ uevent \in BOOLEAN

Types ==
  /\ dir \in {"receive", "send"} /\ size \in Nat /\ avail \in Nat
  /\ caller \in CallerPlaces /\ reader \in ReaderPlaces /\ writer \in WriterPlaces
  /\ rbuf \in Buffers /\ slot \in Buffers /\ wbuf \in Buffers
  /\ r_index \in {0, 1} /\ w_index \in {0, 1}
  /\ read_offset \in Nat /\ write_offset \in Nat
  /\ rret \in Results /\ wret \in Results
  /\ read_result \in Results /\ write_result \in Results
  /\ outcome \in Results \union {"none"}

TypeOK == Flags /\ Types

(* Who has ended, what has been reported, and who may have been woken for   *)
(* nothing: only after the other thread has ended.                         *)
Ended ==
  /\ caller \notin {"wait", "wake"} => reader = "done" /\ writer = "done"
  /\ caller \in {"read", "write"} => ~uevent
  /\ caller = "wake" => uevent
  /\ uevent => read_result = "failed" \/ writer = "done"
  /\ reader # "done" => read_result = "ok"
  /\ writer # "done" => write_result = "ok"
  /\ caller \in {"wait", "wake"} /\ reader = "done" => read_result = rret
  /\ caller \in {"wait", "wake"} /\ writer = "done" => write_result = wret

Woke ==
  /\ writer \in WriterActive => write_running
  /\ reader \in ReaderActive => read_running
  /\ Used = 0 /\ writer = "getgot" => read_result = "failed"
  /\ Used = 1 /\ reader = "setgot" => writer = "done"

(* Where the packet that the writer needs next begins behind wbuf and slot. *)
NextOfWriter == IF writer = "write" THEN write_offset + wbuf.len ELSE write_offset
NextOfRing   == IF Used = 1 THEN slot.from + slot.len ELSE NextOfWriter

AloneChain ==
  /\ caller = "read"  => read_offset = write_offset
  /\ caller = "write" => wbuf.from = write_offset
                         /\ read_offset = write_offset + wbuf.len

(* The chain of the buffers, as long as the writer still takes them.        *)
Chain ==
  writer \in WriterActive =>
    /\ writer = "write" => wbuf.from = write_offset /\ wbuf.len > 0
    /\ Used = 1 => slot.from = NextOfWriter /\ slot.len > 0
    /\ reader \in ReaderActive /\ rbuf.len > 0 => rbuf.from = NextOfRing
    /\ reader \in ReaderActive \ ReaderSetting /\ rbuf.len = 0 => read_offset = NextOfRing

ReaderChain ==
  /\ reader \in ReaderActive /\ rbuf.len > 0 /\ ~flushing =>
       rbuf.from + rbuf.len = read_offset
  /\ reader \in ReaderSetting => rbuf.len > 0
  /\ reader \in {"loop"} \union ReaderLooking => ~flushing
  /\ reader \in ReaderLooking => read_offset < size

IInv == TypeOK /\ Ended /\ Woke /\ AloneChain /\ Chain /\ ReaderChain /\ InOrder

(* What holds besides when no source ends early: the buffers hold what was  *)
(* read, and a thread that leaves in peace has moved everything.            *)
Complete ==
  /\ avail = size /\ read_offset <= size /\ write_offset <= read_offset
  /\ writer \in WriterActive =>
       /\ NextOfWriter <= read_offset
       /\ Used = 1 => slot.from + slot.len <= read_offset
       /\ reader \in ReaderActive /\ rbuf.len > 0 => rbuf.from + rbuf.len = read_offset
       /\ reader \in ReaderSetting /\ flushing => read_offset = size
       /\ reader \notin ReaderActive /\ rret = "ok" =>
            read_offset = size /\ NextOfRing = size
  /\ reader \in ReaderActive => rret = "ok"
  /\ writer \in WriterActive => wret = "ok"
  /\ caller \in {"wait", "wake"} /\ writer \notin WriterActive /\ wret = "ok" =>
       write_offset = size \/ rret = "failed"

USE SizesAssumption, BufferAssumption

-----------------------------------------------------------------------------
(* The ring *)

LEMMA MinusOne == (0 - 1) % 2 = 1
<1>1. (0 - 1) % 2 # 0  BY Z3
<1>2. \A x \in Int : x % 2 \in {0, 1}  BY SMT
<1>3. 0 - 1 \in Int  BY SMT
<1> QED  BY <1>1, <1>2, <1>3

LEMMA SmallRemainders == 0 % 2 = 0 /\ 1 % 2 = 1 /\ 2 % 2 = 0
  BY SMT

LEMMA RingValues ==
  ASSUME r_index \in {0, 1}, w_index \in {0, 1}
  PROVE  /\ Used \in {0, 1}
         /\ (((w_index + 1) % 2) - r_index) % 2 = 1 - Used
         /\ (w_index - ((r_index + 1) % 2)) % 2 = 1 - Used
         /\ (w_index + 1) % 2 \in {0, 1} /\ (r_index + 1) % 2 \in {0, 1}
<1>1. CASE r_index = 0 /\ w_index = 0  BY <1>1, MinusOne, SmallRemainders, SMT DEF Used
<1>2. CASE r_index = 0 /\ w_index = 1  BY <1>2, MinusOne, SmallRemainders, SMT DEF Used
<1>3. CASE r_index = 1 /\ w_index = 0  BY <1>3, MinusOne, SmallRemainders, SMT DEF Used
<1>4. CASE r_index = 1 /\ w_index = 1  BY <1>4, MinusOne, SmallRemainders, SMT DEF Used
<1> QED  BY <1>1, <1>2, <1>3, <1>4

Counting(n) == [k \in 0 .. n - 1 |-> k]

(* What is written next continues what has arrived.                         *)
LEMMA ArriveInOrder ==
  ASSUME NEW b \in Buffers, write_offset \in Nat, b.from = write_offset, InOrder, Arrive(b)
  PROVE  InOrder'
<1>1. b.len \in Nat  BY DEF Buffers
<1>2. \A k \in 0 .. (write_offset + b.len) - 1 :
        (IF k < write_offset THEN target[k] ELSE b.from + (k - write_offset)) = k
  BY <1>1, SMT DEF InOrder
<1>3. Received(b) = Counting(write_offset + b.len)
  <2>1. Received(b) = [k \in 0 .. (write_offset + b.len) - 1 |-> k]
    BY <1>2, Zenon DEF Received
  <2>2. Counting(write_offset + b.len) = [k \in 0 .. (write_offset + b.len) - 1 |-> k]
    BY Zenon DEF Counting
  <2> QED  BY <2>1, <2>2, Zenon
<1>4. target' = Counting(write_offset + b.len)  BY <1>3, Zenon DEF Arrive
<1>5. write_offset' = write_offset + b.len  BY Zenon DEF Arrive
<1>6. target' = Counting(write_offset')  BY <1>4, <1>5, Zenon
<1> QED  BY <1>6 DEF InOrder, Counting

LEMMA InitHolds == Init => IInv
<1> SUFFICES ASSUME Init PROVE IInv  OBVIOUS
<1>0. Flags  BY Zenon DEF Init, Flags
<1>1. Types  BY DEF Init, Types, Buffers, Empty, Results, CallerPlaces, ReaderPlaces, WriterPlaces
<1>2. Ended  BY DEF Init, Ended
<1>3. Woke  BY DEF Init, Woke, Used, ReaderActive, ReaderLooking, ReaderSetting, WriterActive
<1>4. AloneChain /\ Chain /\ ReaderChain
  BY DEF Init, AloneChain, Chain, ReaderChain, ReaderActive, ReaderLooking, ReaderSetting, WriterActive
<1>5. InOrder  BY DEF Init, InOrder
<1> QED  BY <1>0, <1>1, <1>2, <1>3, <1>4, <1>5 DEF IInv, TypeOK

LEMMA BeginAnyKeeps == IInv /\ BeginAny => IInv'
<1> SUFFICES ASSUME IInv, BeginAny PROVE IInv'  OBVIOUS
<1> USE DEF IInv, BeginAny, Begin, Empty, vars, ring, ends, job, arrived
<1>0. Flags'  BY Zenon DEF Flags, TypeOK
<1>1. Types'  BY SMT, RingValues DEF Types, TypeOK, Buffers, Results, CallerPlaces, ReaderPlaces, ReaderActive, ReaderLooking, ReaderSetting, WriterPlaces, WriterActive
<1>2. Ended'  BY SMT, RingValues DEF Ended, TypeOK, Types, Results, CallerPlaces, ReaderPlaces, ReaderActive, ReaderLooking, ReaderSetting, WriterPlaces, WriterActive
<1>3. Woke'
  <2>1. writer' \in {"loop", "done"} /\ reader' = writer'  BY Zenon
  <2>2. writer' = "loop" => read_running' /\ write_running'  BY Zenon
  <2> HIDE DEF BeginAny
  <2> QED  BY <2>1, <2>2, Zenon DEF Woke, ReaderActive, ReaderLooking, ReaderSetting, WriterActive, ReaderPlaces, WriterPlaces
<1>4. AloneChain'  BY SMT, RingValues DEF AloneChain, TypeOK, Types, Buffers, Ended, CallerPlaces, ReaderPlaces, ReaderActive, ReaderLooking, ReaderSetting, WriterPlaces, WriterActive
<1>5. Chain'  BY SMT, RingValues DEF Chain, TypeOK, Types, Buffers, Ended, Woke, ReaderChain, NextOfRing, NextOfWriter, Used, CallerPlaces, ReaderPlaces, ReaderActive, ReaderLooking, ReaderSetting, WriterPlaces, WriterActive
<1>6. ReaderChain'  BY SMT, RingValues DEF ReaderChain, TypeOK, Types, Buffers, Ended, CallerPlaces, ReaderPlaces, ReaderActive, ReaderLooking, ReaderSetting, WriterPlaces, WriterActive
<1>7. InOrder'  BY SMT, RingValues DEF InOrder, TypeOK, Types, Buffers, Chain, AloneChain, Received, CallerPlaces, ReaderPlaces, ReaderActive, ReaderLooking, ReaderSetting, WriterPlaces, WriterActive
<1> QED  BY <1>0, <1>1, <1>2, <1>3, <1>4, <1>5, <1>6, <1>7 DEF TypeOK

LEMMA RequestStopKeeps == IInv /\ RequestStop => IInv'
<1> SUFFICES ASSUME IInv, RequestStop PROVE IInv'  OBVIOUS
<1> USE DEF IInv, RequestStop, vars, ring, ends, job, arrived
<1>0. Flags'  BY Zenon DEF Flags, TypeOK
<1>1. Types'  BY SMT, RingValues DEF Types, TypeOK, Buffers, Results, CallerPlaces, ReaderPlaces, ReaderActive, ReaderLooking, ReaderSetting, WriterPlaces, WriterActive
<1>2. Ended'  BY SMT, RingValues DEF Ended, TypeOK, Types, Results, CallerPlaces, ReaderPlaces, ReaderActive, ReaderLooking, ReaderSetting, WriterPlaces, WriterActive
<1>3. Woke'  BY SMT, RingValues DEF Woke, TypeOK, Types, Ended, Used, CallerPlaces, ReaderPlaces, ReaderActive, ReaderLooking, ReaderSetting, WriterPlaces, WriterActive
<1>4. AloneChain'  BY SMT, RingValues DEF AloneChain, TypeOK, Types, Buffers, Ended, CallerPlaces, ReaderPlaces, ReaderActive, ReaderLooking, ReaderSetting, WriterPlaces, WriterActive
<1>5. Chain'  BY SMT, RingValues DEF Chain, TypeOK, Types, Buffers, Ended, Woke, ReaderChain, NextOfRing, NextOfWriter, Used, CallerPlaces, ReaderPlaces, ReaderActive, ReaderLooking, ReaderSetting, WriterPlaces, WriterActive
<1>6. ReaderChain'  BY SMT, RingValues DEF ReaderChain, TypeOK, Types, Buffers, Ended, CallerPlaces, ReaderPlaces, ReaderActive, ReaderLooking, ReaderSetting, WriterPlaces, WriterActive
<1>7. InOrder'  BY SMT, RingValues DEF InOrder, TypeOK, Types, Buffers, Chain, AloneChain, Received, CallerPlaces, ReaderPlaces, ReaderActive, ReaderLooking, ReaderSetting, WriterPlaces, WriterActive
<1> QED  BY <1>0, <1>1, <1>2, <1>3, <1>4, <1>5, <1>6, <1>7 DEF TypeOK

LEMMA RenewKeeps == IInv /\ Renew => IInv'
<1> SUFFICES ASSUME IInv, Renew PROVE IInv'  OBVIOUS
<1> USE DEF IInv, Renew, vars, ring, ends, job, arrived
<1>0. Flags'  BY Zenon DEF Flags, TypeOK
<1>1. Types'  BY SMT, RingValues DEF Types, TypeOK, Buffers, Results, CallerPlaces, ReaderPlaces, ReaderActive, ReaderLooking, ReaderSetting, WriterPlaces, WriterActive
<1>2. Ended'  BY SMT, RingValues DEF Ended, TypeOK, Types, Results, CallerPlaces, ReaderPlaces, ReaderActive, ReaderLooking, ReaderSetting, WriterPlaces, WriterActive
<1>3. Woke'  BY SMT, RingValues DEF Woke, TypeOK, Types, Ended, Used, CallerPlaces, ReaderPlaces, ReaderActive, ReaderLooking, ReaderSetting, WriterPlaces, WriterActive
<1>4. AloneChain'  BY SMT, RingValues DEF AloneChain, TypeOK, Types, Buffers, Ended, CallerPlaces, ReaderPlaces, ReaderActive, ReaderLooking, ReaderSetting, WriterPlaces, WriterActive
<1>5. Chain'  BY SMT, RingValues DEF Chain, TypeOK, Types, Buffers, Ended, Woke, ReaderChain, NextOfRing, NextOfWriter, Used, CallerPlaces, ReaderPlaces, ReaderActive, ReaderLooking, ReaderSetting, WriterPlaces, WriterActive
<1>6. ReaderChain'  BY SMT, RingValues DEF ReaderChain, TypeOK, Types, Buffers, Ended, CallerPlaces, ReaderPlaces, ReaderActive, ReaderLooking, ReaderSetting, WriterPlaces, WriterActive
<1>7. InOrder'  BY SMT, RingValues DEF InOrder, TypeOK, Types, Buffers, Chain, AloneChain, Received, CallerPlaces, ReaderPlaces, ReaderActive, ReaderLooking, ReaderSetting, WriterPlaces, WriterActive
<1> QED  BY <1>0, <1>1, <1>2, <1>3, <1>4, <1>5, <1>6, <1>7 DEF TypeOK

LEMMA AloneReadKeeps == IInv /\ AloneRead => IInv'
<1> SUFFICES ASSUME IInv, AloneRead PROVE IInv'  OBVIOUS
<1> USE DEF IInv, AloneRead, AloneFrame, Return, Delivered, Least, vars, ring, ends, job, arrived
<1>0. Flags'  BY Zenon DEF Flags, TypeOK
<1>1. Types'  BY SMT, RingValues DEF Types, TypeOK, Buffers, Results, CallerPlaces, ReaderPlaces, ReaderActive, ReaderLooking, ReaderSetting, WriterPlaces, WriterActive
<1>2. Ended'  BY SMT, RingValues DEF Ended, TypeOK, Types, Results, CallerPlaces, ReaderPlaces, ReaderActive, ReaderLooking, ReaderSetting, WriterPlaces, WriterActive
<1>3. Woke'  BY SMT, RingValues DEF Woke, TypeOK, Types, Ended, Used, CallerPlaces, ReaderPlaces, ReaderActive, ReaderLooking, ReaderSetting, WriterPlaces, WriterActive
<1>4. AloneChain'  BY SMT, RingValues DEF AloneChain, TypeOK, Types, Buffers, Ended, CallerPlaces, ReaderPlaces, ReaderActive, ReaderLooking, ReaderSetting, WriterPlaces, WriterActive
<1>5. Chain'  BY SMT, RingValues DEF Chain, TypeOK, Types, Buffers, Ended, Woke, ReaderChain, NextOfRing, NextOfWriter, Used, CallerPlaces, ReaderPlaces, ReaderActive, ReaderLooking, ReaderSetting, WriterPlaces, WriterActive
<1>6. ReaderChain'  BY SMT, RingValues DEF ReaderChain, TypeOK, Types, Buffers, Ended, CallerPlaces, ReaderPlaces, ReaderActive, ReaderLooking, ReaderSetting, WriterPlaces, WriterActive
<1>7. InOrder'  BY SMT, RingValues DEF InOrder, TypeOK, Types, Buffers, Chain, AloneChain, Received, CallerPlaces, ReaderPlaces, ReaderActive, ReaderLooking, ReaderSetting, WriterPlaces, WriterActive
<1> QED  BY <1>0, <1>1, <1>2, <1>3, <1>4, <1>5, <1>6, <1>7 DEF TypeOK

LEMMA AloneWriteKeeps == IInv /\ AloneWrite => IInv'
<1> SUFFICES ASSUME IInv, AloneWrite PROVE IInv'  OBVIOUS
<1> USE DEF IInv, AloneWrite, AloneFrame, Return, Arrive, vars, ring, ends, job, arrived
<1>0. Flags'  BY Zenon DEF Flags, TypeOK
<1>1. Types'  BY SMT, RingValues DEF Types, TypeOK, Buffers, Results, CallerPlaces, ReaderPlaces, ReaderActive, ReaderLooking, ReaderSetting, WriterPlaces, WriterActive
<1>2. Ended'  BY SMT, RingValues DEF Ended, TypeOK, Types, Results, CallerPlaces, ReaderPlaces, ReaderActive, ReaderLooking, ReaderSetting, WriterPlaces, WriterActive
<1>3. Woke'  BY SMT, RingValues DEF Woke, TypeOK, Types, Ended, Used, CallerPlaces, ReaderPlaces, ReaderActive, ReaderLooking, ReaderSetting, WriterPlaces, WriterActive
<1>4. AloneChain'  BY SMT, RingValues DEF AloneChain, TypeOK, Types, Buffers, Ended, CallerPlaces, ReaderPlaces, ReaderActive, ReaderLooking, ReaderSetting, WriterPlaces, WriterActive
<1>5. Chain'  BY SMT, RingValues DEF Chain, TypeOK, Types, Buffers, Ended, Woke, ReaderChain, NextOfRing, NextOfWriter, Used, CallerPlaces, ReaderPlaces, ReaderActive, ReaderLooking, ReaderSetting, WriterPlaces, WriterActive
<1>6. ReaderChain'  BY SMT, RingValues DEF ReaderChain, TypeOK, Types, Buffers, Ended, CallerPlaces, ReaderPlaces, ReaderActive, ReaderLooking, ReaderSetting, WriterPlaces, WriterActive
<1>7. InOrder'
  <2>1. CASE Arrive(wbuf)
    <3>1. wbuf \in Buffers /\ write_offset \in Nat  BY DEF TypeOK, Types
    <3>2. wbuf.from = write_offset  BY DEF AloneChain
    <3> QED  BY <2>1, <3>1, <3>2, ArriveInOrder
  <2>2. CASE UNCHANGED arrived  BY <2>2, Zenon DEF InOrder
  <2> QED  BY <2>1, <2>2
<1> QED  BY <1>0, <1>1, <1>2, <1>3, <1>4, <1>5, <1>6, <1>7 DEF TypeOK

LEMMA ReadLoopKeeps == IInv /\ ReadLoop => IInv'
<1> SUFFICES ASSUME IInv, ReadLoop PROVE IInv'  OBVIOUS
<1> USE DEF IInv, ReadLoop, LeaveLoop, ResultsOk, vars, ring, ends, job, arrived
<1>0. Flags'  BY Zenon DEF Flags, TypeOK
<1>1. Types'  BY SMT, RingValues DEF Types, TypeOK, Buffers, Results, CallerPlaces, ReaderPlaces, ReaderActive, ReaderLooking, ReaderSetting, WriterPlaces, WriterActive
<1>2. Ended'  BY SMT, RingValues DEF Ended, TypeOK, Types, Results, CallerPlaces, ReaderPlaces, ReaderActive, ReaderLooking, ReaderSetting, WriterPlaces, WriterActive
<1>3. Woke'  BY SMT, RingValues DEF Woke, TypeOK, Types, Ended, Used, CallerPlaces, ReaderPlaces, ReaderActive, ReaderLooking, ReaderSetting, WriterPlaces, WriterActive
<1>4. AloneChain'  BY SMT, RingValues DEF AloneChain, TypeOK, Types, Buffers, Ended, CallerPlaces, ReaderPlaces, ReaderActive, ReaderLooking, ReaderSetting, WriterPlaces, WriterActive
<1>5. Chain'  BY SMT, RingValues DEF Chain, TypeOK, Types, Buffers, Ended, Woke, ReaderChain, NextOfRing, NextOfWriter, Used, CallerPlaces, ReaderPlaces, ReaderActive, ReaderLooking, ReaderSetting, WriterPlaces, WriterActive
<1>6. ReaderChain'  BY SMT, RingValues DEF ReaderChain, TypeOK, Types, Buffers, Ended, CallerPlaces, ReaderPlaces, ReaderActive, ReaderLooking, ReaderSetting, WriterPlaces, WriterActive
<1>7. InOrder'  BY SMT, RingValues DEF InOrder, TypeOK, Types, Buffers, Chain, AloneChain, Received, CallerPlaces, ReaderPlaces, ReaderActive, ReaderLooking, ReaderSetting, WriterPlaces, WriterActive
<1> QED  BY <1>0, <1>1, <1>2, <1>3, <1>4, <1>5, <1>6, <1>7 DEF TypeOK

LEMMA IsWriteBufFullKeeps == IInv /\ IsWriteBufFull => IInv'
<1> SUFFICES ASSUME IInv, IsWriteBufFull PROVE IInv'  OBVIOUS
<1> USE DEF IInv, IsWriteBufFull, vars, ring, ends, job, arrived
<1>0. Flags'  BY Zenon DEF Flags, TypeOK
<1>1. Types'  BY SMT, RingValues DEF Types, TypeOK, Buffers, Results, CallerPlaces, ReaderPlaces, ReaderActive, ReaderLooking, ReaderSetting, WriterPlaces, WriterActive
<1>2. Ended'  BY SMT, RingValues DEF Ended, TypeOK, Types, Results, CallerPlaces, ReaderPlaces, ReaderActive, ReaderLooking, ReaderSetting, WriterPlaces, WriterActive
<1>3. Woke'  BY SMT, RingValues DEF Woke, TypeOK, Types, Ended, Used, CallerPlaces, ReaderPlaces, ReaderActive, ReaderLooking, ReaderSetting, WriterPlaces, WriterActive
<1>4. AloneChain'  BY SMT, RingValues DEF AloneChain, TypeOK, Types, Buffers, Ended, CallerPlaces, ReaderPlaces, ReaderActive, ReaderLooking, ReaderSetting, WriterPlaces, WriterActive
<1>5. Chain'  BY SMT, RingValues DEF Chain, TypeOK, Types, Buffers, Ended, Woke, ReaderChain, NextOfRing, NextOfWriter, Used, CallerPlaces, ReaderPlaces, ReaderActive, ReaderLooking, ReaderSetting, WriterPlaces, WriterActive
<1>6. ReaderChain'  BY SMT, RingValues DEF ReaderChain, TypeOK, Types, Buffers, Ended, CallerPlaces, ReaderPlaces, ReaderActive, ReaderLooking, ReaderSetting, WriterPlaces, WriterActive
<1>7. InOrder'  BY SMT, RingValues DEF InOrder, TypeOK, Types, Buffers, Chain, AloneChain, Received, CallerPlaces, ReaderPlaces, ReaderActive, ReaderLooking, ReaderSetting, WriterPlaces, WriterActive
<1> QED  BY <1>0, <1>1, <1>2, <1>3, <1>4, <1>5, <1>6, <1>7 DEF TypeOK

LEMMA WriterGoneKeeps == IInv /\ WriterGone => IInv'
<1> SUFFICES ASSUME IInv, WriterGone PROVE IInv'  OBVIOUS
<1> USE DEF IInv, WriterGone, LeaveLoop, vars, ring, ends, job, arrived
<1>0. Flags'  BY Zenon DEF Flags, TypeOK
<1>1. Types'  BY SMT, RingValues DEF Types, TypeOK, Buffers, Results, CallerPlaces, ReaderPlaces, ReaderActive, ReaderLooking, ReaderSetting, WriterPlaces, WriterActive
<1>2. Ended'  BY SMT, RingValues DEF Ended, TypeOK, Types, Results, CallerPlaces, ReaderPlaces, ReaderActive, ReaderLooking, ReaderSetting, WriterPlaces, WriterActive
<1>3. Woke'  BY SMT, RingValues DEF Woke, TypeOK, Types, Ended, Used, CallerPlaces, ReaderPlaces, ReaderActive, ReaderLooking, ReaderSetting, WriterPlaces, WriterActive
<1>4. AloneChain'  BY SMT, RingValues DEF AloneChain, TypeOK, Types, Buffers, Ended, CallerPlaces, ReaderPlaces, ReaderActive, ReaderLooking, ReaderSetting, WriterPlaces, WriterActive
<1>5. Chain'  BY SMT, RingValues DEF Chain, TypeOK, Types, Buffers, Ended, Woke, ReaderChain, NextOfRing, NextOfWriter, Used, CallerPlaces, ReaderPlaces, ReaderActive, ReaderLooking, ReaderSetting, WriterPlaces, WriterActive
<1>6. ReaderChain'  BY SMT, RingValues DEF ReaderChain, TypeOK, Types, Buffers, Ended, CallerPlaces, ReaderPlaces, ReaderActive, ReaderLooking, ReaderSetting, WriterPlaces, WriterActive
<1>7. InOrder'  BY SMT, RingValues DEF InOrder, TypeOK, Types, Buffers, Chain, AloneChain, Received, CallerPlaces, ReaderPlaces, ReaderActive, ReaderLooking, ReaderSetting, WriterPlaces, WriterActive
<1> QED  BY <1>0, <1>1, <1>2, <1>3, <1>4, <1>5, <1>6, <1>7 DEF TypeOK

LEMMA ReadKeeps == IInv /\ Read => IInv'
<1> SUFFICES ASSUME IInv, Read PROVE IInv'  OBVIOUS
<1> USE DEF IInv, Read, Asked, Delivered, Least, Longer, vars, ring, ends, job, arrived
<1>0. Flags'  BY Zenon DEF Flags, TypeOK
<1>1. Types'  BY SMT, RingValues DEF Types, TypeOK, Buffers, Results, CallerPlaces, ReaderPlaces, ReaderActive, ReaderLooking, ReaderSetting, WriterPlaces, WriterActive
<1>2. Ended'  BY SMT, RingValues DEF Ended, TypeOK, Types, Results, CallerPlaces, ReaderPlaces, ReaderActive, ReaderLooking, ReaderSetting, WriterPlaces, WriterActive
<1>3. Woke'  BY SMT, RingValues DEF Woke, TypeOK, Types, Ended, Used, CallerPlaces, ReaderPlaces, ReaderActive, ReaderLooking, ReaderSetting, WriterPlaces, WriterActive
<1>4. AloneChain'  BY SMT, RingValues DEF AloneChain, TypeOK, Types, Buffers, Ended, CallerPlaces, ReaderPlaces, ReaderActive, ReaderLooking, ReaderSetting, WriterPlaces, WriterActive
<1>5. Chain'  BY SMT, RingValues DEF Chain, TypeOK, Types, Buffers, Ended, Woke, ReaderChain, NextOfRing, NextOfWriter, Used, CallerPlaces, ReaderPlaces, ReaderActive, ReaderLooking, ReaderSetting, WriterPlaces, WriterActive
<1>6. ReaderChain'  BY SMT, RingValues DEF ReaderChain, TypeOK, Types, Buffers, Ended, CallerPlaces, ReaderPlaces, ReaderActive, ReaderLooking, ReaderSetting, WriterPlaces, WriterActive
<1>7. InOrder'  BY SMT, RingValues DEF InOrder, TypeOK, Types, Buffers, Chain, AloneChain, Received, CallerPlaces, ReaderPlaces, ReaderActive, ReaderLooking, ReaderSetting, WriterPlaces, WriterActive
<1> QED  BY <1>0, <1>1, <1>2, <1>3, <1>4, <1>5, <1>6, <1>7 DEF TypeOK

LEMMA SetWriteBufKeeps == IInv /\ SetWriteBuf => IInv'
<1> SUFFICES ASSUME IInv, SetWriteBuf PROVE IInv'  OBVIOUS
<1> USE DEF IInv, SetWriteBuf, Push, SetFrame, AfterSet, Woken, ResultsOk, Empty, vars, ring, ends, job, arrived
<1>0. Flags'  BY Zenon DEF Flags, TypeOK
<1>1. Types'  BY SMT, RingValues DEF Types, TypeOK, Buffers, Results, CallerPlaces, ReaderPlaces, ReaderActive, ReaderLooking, ReaderSetting, WriterPlaces, WriterActive
<1>2. Ended'  BY SMT, RingValues DEF Ended, TypeOK, Types, Results, CallerPlaces, ReaderPlaces, ReaderActive, ReaderLooking, ReaderSetting, WriterPlaces, WriterActive
<1>3. Woke'  BY SMT, RingValues DEF Woke, TypeOK, Types, Ended, Used, CallerPlaces, ReaderPlaces, ReaderActive, ReaderLooking, ReaderSetting, WriterPlaces, WriterActive
<1>4. AloneChain'  BY SMT, RingValues DEF AloneChain, TypeOK, Types, Buffers, Ended, CallerPlaces, ReaderPlaces, ReaderActive, ReaderLooking, ReaderSetting, WriterPlaces, WriterActive
<1>5. Chain'  BY SMT, RingValues DEF Chain, TypeOK, Types, Buffers, Ended, Woke, ReaderChain, NextOfRing, NextOfWriter, Used, CallerPlaces, ReaderPlaces, ReaderActive, ReaderLooking, ReaderSetting, WriterPlaces, WriterActive
<1>6. ReaderChain'  BY SMT, RingValues DEF ReaderChain, TypeOK, Types, Buffers, Ended, CallerPlaces, ReaderPlaces, ReaderActive, ReaderLooking, ReaderSetting, WriterPlaces, WriterActive
<1>7. InOrder'  BY SMT, RingValues DEF InOrder, TypeOK, Types, Buffers, Chain, AloneChain, Received, CallerPlaces, ReaderPlaces, ReaderActive, ReaderLooking, ReaderSetting, WriterPlaces, WriterActive
<1> QED  BY <1>0, <1>1, <1>2, <1>3, <1>4, <1>5, <1>6, <1>7 DEF TypeOK

LEMMA EndReadKeeps == IInv /\ EndRead => IInv'
<1> SUFFICES ASSUME IInv, EndRead PROVE IInv'  OBVIOUS
<1> USE DEF IInv, EndRead, vars, ring, ends, job, arrived
<1>0. Flags'  BY Zenon DEF Flags, TypeOK
<1>1. Types'  BY SMT, RingValues DEF Types, TypeOK, Buffers, Results, CallerPlaces, ReaderPlaces, ReaderActive, ReaderLooking, ReaderSetting, WriterPlaces, WriterActive
<1>2. Ended'
  <2>1. reader = "leave" => Ended'
    BY SMT DEF Ended, TypeOK, Types, Results, CallerPlaces, ReaderPlaces, ReaderActive, ReaderLooking, ReaderSetting, WriterPlaces, WriterActive
  <2>2. ASSUME reader = "report" PROVE Ended'
    <3>1. uevent' => uevent \/ rret = "failed"  BY <2>2, Zenon
    <3> HIDE DEF EndRead
    <3>2. /\ reader' = "done" /\ read_result' = rret
          /\ UNCHANGED <<caller, writer, rret, wret, write_result>>
      BY <2>2, SMT DEF EndRead
    <3>3. uevent => uevent'  BY <2>2, Zenon DEF EndRead
    <3> QED  BY <2>2, <3>1, <3>2, <3>3, SMT DEF Ended, TypeOK, Types, Results, CallerPlaces, ReaderPlaces, ReaderActive, ReaderLooking, ReaderSetting, WriterPlaces, WriterActive
  <2> QED  BY <2>1, <2>2
<1>3. Woke'  BY SMT, RingValues DEF Woke, TypeOK, Types, Ended, Used, CallerPlaces, ReaderPlaces, ReaderActive, ReaderLooking, ReaderSetting, WriterPlaces, WriterActive
<1>4. AloneChain'  BY SMT, RingValues DEF AloneChain, TypeOK, Types, Buffers, Ended, CallerPlaces, ReaderPlaces, ReaderActive, ReaderLooking, ReaderSetting, WriterPlaces, WriterActive
<1>5. Chain'  BY SMT, RingValues DEF Chain, TypeOK, Types, Buffers, Ended, Woke, ReaderChain, NextOfRing, NextOfWriter, Used, CallerPlaces, ReaderPlaces, ReaderActive, ReaderLooking, ReaderSetting, WriterPlaces, WriterActive
<1>6. ReaderChain'  BY SMT, RingValues DEF ReaderChain, TypeOK, Types, Buffers, Ended, CallerPlaces, ReaderPlaces, ReaderActive, ReaderLooking, ReaderSetting, WriterPlaces, WriterActive
<1>7. InOrder'  BY SMT, RingValues DEF InOrder, TypeOK, Types, Buffers, Chain, AloneChain, Received, CallerPlaces, ReaderPlaces, ReaderActive, ReaderLooking, ReaderSetting, WriterPlaces, WriterActive
<1> QED  BY <1>0, <1>1, <1>2, <1>3, <1>4, <1>5, <1>6, <1>7 DEF TypeOK

LEMMA WriteLoopKeeps == IInv /\ WriteLoop => IInv'
<1> SUFFICES ASSUME IInv, WriteLoop PROVE IInv'  OBVIOUS
<1> USE DEF IInv, WriteLoop, ResultsOk, vars, ring, ends, job, arrived
<1>0. Flags'  BY Zenon DEF Flags, TypeOK
<1>1. Types'  BY SMT, RingValues DEF Types, TypeOK, Buffers, Results, CallerPlaces, ReaderPlaces, ReaderActive, ReaderLooking, ReaderSetting, WriterPlaces, WriterActive
<1>2. Ended'  BY SMT, RingValues DEF Ended, TypeOK, Types, Results, CallerPlaces, ReaderPlaces, ReaderActive, ReaderLooking, ReaderSetting, WriterPlaces, WriterActive
<1>3. Woke'  BY SMT, RingValues DEF Woke, TypeOK, Types, Ended, Used, CallerPlaces, ReaderPlaces, ReaderActive, ReaderLooking, ReaderSetting, WriterPlaces, WriterActive
<1>4. AloneChain'  BY SMT, RingValues DEF AloneChain, TypeOK, Types, Buffers, Ended, CallerPlaces, ReaderPlaces, ReaderActive, ReaderLooking, ReaderSetting, WriterPlaces, WriterActive
<1>5. Chain'  BY SMT, RingValues DEF Chain, TypeOK, Types, Buffers, Ended, Woke, ReaderChain, NextOfRing, NextOfWriter, Used, CallerPlaces, ReaderPlaces, ReaderActive, ReaderLooking, ReaderSetting, WriterPlaces, WriterActive
<1>6. ReaderChain'  BY SMT, RingValues DEF ReaderChain, TypeOK, Types, Buffers, Ended, CallerPlaces, ReaderPlaces, ReaderActive, ReaderLooking, ReaderSetting, WriterPlaces, WriterActive
<1>7. InOrder'  BY SMT, RingValues DEF InOrder, TypeOK, Types, Buffers, Chain, AloneChain, Received, CallerPlaces, ReaderPlaces, ReaderActive, ReaderLooking, ReaderSetting, WriterPlaces, WriterActive
<1> QED  BY <1>0, <1>1, <1>2, <1>3, <1>4, <1>5, <1>6, <1>7 DEF TypeOK

LEMMA GetWriteBufKeeps == IInv /\ GetWriteBuf => IInv'
<1> SUFFICES ASSUME IInv, GetWriteBuf PROVE IInv'  OBVIOUS
<1> USE DEF IInv, GetWriteBuf, Pop, Woken, ResultsOk, Empty, vars, ring, ends, job, arrived
<1>0. Flags'  BY Zenon DEF Flags, TypeOK
<1>1. Types'  BY SMT, RingValues DEF Types, TypeOK, Buffers, Results, CallerPlaces, ReaderPlaces, ReaderActive, ReaderLooking, ReaderSetting, WriterPlaces, WriterActive
<1>2. Ended'  BY SMT, RingValues DEF Ended, TypeOK, Types, Results, CallerPlaces, ReaderPlaces, ReaderActive, ReaderLooking, ReaderSetting, WriterPlaces, WriterActive
<1>3. Woke'  BY SMT, RingValues DEF Woke, TypeOK, Types, Ended, Used, CallerPlaces, ReaderPlaces, ReaderActive, ReaderLooking, ReaderSetting, WriterPlaces, WriterActive
<1>4. AloneChain'  BY SMT, RingValues DEF AloneChain, TypeOK, Types, Buffers, Ended, CallerPlaces, ReaderPlaces, ReaderActive, ReaderLooking, ReaderSetting, WriterPlaces, WriterActive
<1>5. Chain'  BY SMT, RingValues DEF Chain, TypeOK, Types, Buffers, Ended, Woke, ReaderChain, NextOfRing, NextOfWriter, Used, CallerPlaces, ReaderPlaces, ReaderActive, ReaderLooking, ReaderSetting, WriterPlaces, WriterActive
<1>6. ReaderChain'  BY SMT, RingValues DEF ReaderChain, TypeOK, Types, Buffers, Ended, CallerPlaces, ReaderPlaces, ReaderActive, ReaderLooking, ReaderSetting, WriterPlaces, WriterActive
<1>7. InOrder'  BY SMT, RingValues DEF InOrder, TypeOK, Types, Buffers, Chain, AloneChain, Received, CallerPlaces, ReaderPlaces, ReaderActive, ReaderLooking, ReaderSetting, WriterPlaces, WriterActive
<1> QED  BY <1>0, <1>1, <1>2, <1>3, <1>4, <1>5, <1>6, <1>7 DEF TypeOK

LEMMA WriteKeeps == IInv /\ Write => IInv'
<1> SUFFICES ASSUME IInv, Write PROVE IInv'  OBVIOUS
<1> USE DEF IInv, Write, Arrive, vars, ring, ends, job, arrived
<1>0. Flags'  BY Zenon DEF Flags, TypeOK
<1>1. Types'  BY SMT, RingValues DEF Types, TypeOK, Buffers, Results, CallerPlaces, ReaderPlaces, ReaderActive, ReaderLooking, ReaderSetting, WriterPlaces, WriterActive
<1>2. Ended'  BY SMT, RingValues DEF Ended, TypeOK, Types, Results, CallerPlaces, ReaderPlaces, ReaderActive, ReaderLooking, ReaderSetting, WriterPlaces, WriterActive
<1>3. Woke'  BY SMT, RingValues DEF Woke, TypeOK, Types, Ended, Used, CallerPlaces, ReaderPlaces, ReaderActive, ReaderLooking, ReaderSetting, WriterPlaces, WriterActive
<1>4. AloneChain'  BY SMT, RingValues DEF AloneChain, TypeOK, Types, Buffers, Ended, CallerPlaces, ReaderPlaces, ReaderActive, ReaderLooking, ReaderSetting, WriterPlaces, WriterActive
<1>5. Chain'  BY SMT, RingValues DEF Chain, TypeOK, Types, Buffers, Ended, Woke, ReaderChain, NextOfRing, NextOfWriter, Used, CallerPlaces, ReaderPlaces, ReaderActive, ReaderLooking, ReaderSetting, WriterPlaces, WriterActive
<1>6. ReaderChain'  BY SMT, RingValues DEF ReaderChain, TypeOK, Types, Buffers, Ended, CallerPlaces, ReaderPlaces, ReaderActive, ReaderLooking, ReaderSetting, WriterPlaces, WriterActive
<1>7. InOrder'
  <2>1. CASE Arrive(wbuf)
    <3>1. wbuf \in Buffers /\ write_offset \in Nat  BY DEF TypeOK, Types
    <3>2. wbuf.from = write_offset  BY DEF Chain, WriterActive
    <3> QED  BY <2>1, <3>1, <3>2, ArriveInOrder
  <2>2. CASE UNCHANGED arrived  BY <2>2, Zenon DEF InOrder
  <2> QED  BY <2>1, <2>2
<1> QED  BY <1>0, <1>1, <1>2, <1>3, <1>4, <1>5, <1>6, <1>7 DEF TypeOK

LEMMA EndWriteKeeps == IInv /\ EndWrite => IInv'
<1> SUFFICES ASSUME IInv, EndWrite PROVE IInv'  OBVIOUS
<1> USE DEF IInv, EndWrite, vars, ring, ends, job, arrived
<1>0. Flags'  BY Zenon DEF Flags, TypeOK
<1>1. Types'  BY SMT, RingValues DEF Types, TypeOK, Buffers, Results, CallerPlaces, ReaderPlaces, ReaderActive, ReaderLooking, ReaderSetting, WriterPlaces, WriterActive
<1>2. Ended'  BY SMT, RingValues DEF Ended, TypeOK, Types, Results, CallerPlaces, ReaderPlaces, ReaderActive, ReaderLooking, ReaderSetting, WriterPlaces, WriterActive
<1>3. Woke'  BY SMT, RingValues DEF Woke, TypeOK, Types, Ended, Used, CallerPlaces, ReaderPlaces, ReaderActive, ReaderLooking, ReaderSetting, WriterPlaces, WriterActive
<1>4. AloneChain'  BY SMT, RingValues DEF AloneChain, TypeOK, Types, Buffers, Ended, CallerPlaces, ReaderPlaces, ReaderActive, ReaderLooking, ReaderSetting, WriterPlaces, WriterActive
<1>5. Chain'  BY SMT, RingValues DEF Chain, TypeOK, Types, Buffers, Ended, Woke, ReaderChain, NextOfRing, NextOfWriter, Used, CallerPlaces, ReaderPlaces, ReaderActive, ReaderLooking, ReaderSetting, WriterPlaces, WriterActive
<1>6. ReaderChain'  BY SMT, RingValues DEF ReaderChain, TypeOK, Types, Buffers, Ended, CallerPlaces, ReaderPlaces, ReaderActive, ReaderLooking, ReaderSetting, WriterPlaces, WriterActive
<1>7. InOrder'  BY SMT, RingValues DEF InOrder, TypeOK, Types, Buffers, Chain, AloneChain, Received, CallerPlaces, ReaderPlaces, ReaderActive, ReaderLooking, ReaderSetting, WriterPlaces, WriterActive
<1> QED  BY <1>0, <1>1, <1>2, <1>3, <1>4, <1>5, <1>6, <1>7 DEF TypeOK

LEMMA SignalledKeeps == IInv /\ Signalled => IInv'
<1> SUFFICES ASSUME IInv, Signalled PROVE IInv'  OBVIOUS
<1> USE DEF IInv, Signalled, vars, ring, ends, job, arrived
<1>0. Flags'  BY Zenon DEF Flags, TypeOK
<1>1. Types'  BY SMT, RingValues DEF Types, TypeOK, Buffers, Results, CallerPlaces, ReaderPlaces, ReaderActive, ReaderLooking, ReaderSetting, WriterPlaces, WriterActive
<1>2. Ended'  BY SMT, RingValues DEF Ended, TypeOK, Types, Results, CallerPlaces, ReaderPlaces, ReaderActive, ReaderLooking, ReaderSetting, WriterPlaces, WriterActive
<1>3. Woke'  BY SMT, RingValues DEF Woke, TypeOK, Types, Ended, Used, CallerPlaces, ReaderPlaces, ReaderActive, ReaderLooking, ReaderSetting, WriterPlaces, WriterActive
<1>4. AloneChain'  BY SMT, RingValues DEF AloneChain, TypeOK, Types, Buffers, Ended, CallerPlaces, ReaderPlaces, ReaderActive, ReaderLooking, ReaderSetting, WriterPlaces, WriterActive
<1>5. Chain'  BY SMT, RingValues DEF Chain, TypeOK, Types, Buffers, Ended, Woke, ReaderChain, NextOfRing, NextOfWriter, Used, CallerPlaces, ReaderPlaces, ReaderActive, ReaderLooking, ReaderSetting, WriterPlaces, WriterActive
<1>6. ReaderChain'  BY SMT, RingValues DEF ReaderChain, TypeOK, Types, Buffers, Ended, CallerPlaces, ReaderPlaces, ReaderActive, ReaderLooking, ReaderSetting, WriterPlaces, WriterActive
<1>7. InOrder'  BY SMT, RingValues DEF InOrder, TypeOK, Types, Buffers, Chain, AloneChain, Received, CallerPlaces, ReaderPlaces, ReaderActive, ReaderLooking, ReaderSetting, WriterPlaces, WriterActive
<1> QED  BY <1>0, <1>1, <1>2, <1>3, <1>4, <1>5, <1>6, <1>7 DEF TypeOK

LEMMA WakeAllThreadsKeeps == IInv /\ WakeAllThreads => IInv'
<1> SUFFICES ASSUME IInv, WakeAllThreads PROVE IInv'  OBVIOUS
<1> USE DEF IInv, WakeAllThreads, Woken, vars, ring, ends, job, arrived
<1>0. Flags'  BY Zenon DEF Flags, TypeOK
<1>1. Types'  BY SMT, RingValues DEF Types, TypeOK, Buffers, Results, CallerPlaces, ReaderPlaces, ReaderActive, ReaderLooking, ReaderSetting, WriterPlaces, WriterActive
<1>2. Ended'  BY SMT, RingValues DEF Ended, TypeOK, Types, Results, CallerPlaces, ReaderPlaces, ReaderActive, ReaderLooking, ReaderSetting, WriterPlaces, WriterActive
<1>3. Woke'  BY SMT, RingValues DEF Woke, TypeOK, Types, Ended, Used, CallerPlaces, ReaderPlaces, ReaderActive, ReaderLooking, ReaderSetting, WriterPlaces, WriterActive
<1>4. AloneChain'  BY SMT, RingValues DEF AloneChain, TypeOK, Types, Buffers, Ended, CallerPlaces, ReaderPlaces, ReaderActive, ReaderLooking, ReaderSetting, WriterPlaces, WriterActive
<1>5. Chain'  BY SMT, RingValues DEF Chain, TypeOK, Types, Buffers, Ended, Woke, ReaderChain, NextOfRing, NextOfWriter, Used, CallerPlaces, ReaderPlaces, ReaderActive, ReaderLooking, ReaderSetting, WriterPlaces, WriterActive
<1>6. ReaderChain'  BY SMT, RingValues DEF ReaderChain, TypeOK, Types, Buffers, Ended, CallerPlaces, ReaderPlaces, ReaderActive, ReaderLooking, ReaderSetting, WriterPlaces, WriterActive
<1>7. InOrder'  BY SMT, RingValues DEF InOrder, TypeOK, Types, Buffers, Chain, AloneChain, Received, CallerPlaces, ReaderPlaces, ReaderActive, ReaderLooking, ReaderSetting, WriterPlaces, WriterActive
<1> QED  BY <1>0, <1>1, <1>2, <1>3, <1>4, <1>5, <1>6, <1>7 DEF TypeOK

LEMMA BothEndedKeeps == IInv /\ BothEnded => IInv'
<1> SUFFICES ASSUME IInv, BothEnded PROVE IInv'  OBVIOUS
<1> USE DEF IInv, BothEnded, Return, ResultsOk, vars, ring, ends, job, arrived
<1>0. Flags'  BY Zenon DEF Flags, TypeOK
<1>1. Types'  BY SMT, RingValues DEF Types, TypeOK, Buffers, Results, CallerPlaces, ReaderPlaces, ReaderActive, ReaderLooking, ReaderSetting, WriterPlaces, WriterActive
<1>2. Ended'  BY SMT, RingValues DEF Ended, TypeOK, Types, Results, CallerPlaces, ReaderPlaces, ReaderActive, ReaderLooking, ReaderSetting, WriterPlaces, WriterActive
<1>3. Woke'  BY SMT, RingValues DEF Woke, TypeOK, Types, Ended, Used, CallerPlaces, ReaderPlaces, ReaderActive, ReaderLooking, ReaderSetting, WriterPlaces, WriterActive
<1>4. AloneChain'  BY SMT, RingValues DEF AloneChain, TypeOK, Types, Buffers, Ended, CallerPlaces, ReaderPlaces, ReaderActive, ReaderLooking, ReaderSetting, WriterPlaces, WriterActive
<1>5. Chain'  BY SMT, RingValues DEF Chain, TypeOK, Types, Buffers, Ended, Woke, ReaderChain, NextOfRing, NextOfWriter, Used, CallerPlaces, ReaderPlaces, ReaderActive, ReaderLooking, ReaderSetting, WriterPlaces, WriterActive
<1>6. ReaderChain'  BY SMT, RingValues DEF ReaderChain, TypeOK, Types, Buffers, Ended, CallerPlaces, ReaderPlaces, ReaderActive, ReaderLooking, ReaderSetting, WriterPlaces, WriterActive
<1>7. InOrder'  BY SMT, RingValues DEF InOrder, TypeOK, Types, Buffers, Chain, AloneChain, Received, CallerPlaces, ReaderPlaces, ReaderActive, ReaderLooking, ReaderSetting, WriterPlaces, WriterActive
<1> QED  BY <1>0, <1>1, <1>2, <1>3, <1>4, <1>5, <1>6, <1>7 DEF TypeOK

LEMMA NoThreadKeeps == IInv /\ NoThread => IInv'
<1> SUFFICES ASSUME IInv, NoThread PROVE IInv'  OBVIOUS
<1> USE DEF IInv, NoThread, Return, vars, ring, ends, job, arrived
<1>0. Flags'  BY Zenon DEF Flags, TypeOK
<1>1. Types'  BY SMT, RingValues DEF Types, TypeOK, Buffers, Results, CallerPlaces, ReaderPlaces, ReaderActive, ReaderLooking, ReaderSetting, WriterPlaces, WriterActive
<1>2. Ended'  BY SMT, RingValues DEF Ended, TypeOK, Types, Results, CallerPlaces, ReaderPlaces, ReaderActive, ReaderLooking, ReaderSetting, WriterPlaces, WriterActive
<1>3. Woke'  BY SMT, RingValues DEF Woke, TypeOK, Types, Ended, Used, CallerPlaces, ReaderPlaces, ReaderActive, ReaderLooking, ReaderSetting, WriterPlaces, WriterActive
<1>4. AloneChain'  BY SMT, RingValues DEF AloneChain, TypeOK, Types, Buffers, Ended, CallerPlaces, ReaderPlaces, ReaderActive, ReaderLooking, ReaderSetting, WriterPlaces, WriterActive
<1>5. Chain'  BY SMT, RingValues DEF Chain, TypeOK, Types, Buffers, Ended, Woke, ReaderChain, NextOfRing, NextOfWriter, Used, CallerPlaces, ReaderPlaces, ReaderActive, ReaderLooking, ReaderSetting, WriterPlaces, WriterActive
<1>6. ReaderChain'  BY SMT, RingValues DEF ReaderChain, TypeOK, Types, Buffers, Ended, CallerPlaces, ReaderPlaces, ReaderActive, ReaderLooking, ReaderSetting, WriterPlaces, WriterActive
<1>7. InOrder'  BY SMT, RingValues DEF InOrder, TypeOK, Types, Buffers, Chain, AloneChain, Received, CallerPlaces, ReaderPlaces, ReaderActive, ReaderLooking, ReaderSetting, WriterPlaces, WriterActive
<1> QED  BY <1>0, <1>1, <1>2, <1>3, <1>4, <1>5, <1>6, <1>7 DEF TypeOK

LEMMA NextKeeps == IInv /\ [Next]_vars => IInv'
<1> SUFFICES ASSUME IInv, [Next]_vars PROVE IInv'  OBVIOUS
<1>1. CASE BeginAny  BY <1>1, BeginAnyKeeps
<1>2. CASE RequestStop  BY <1>2, RequestStopKeeps
<1>3. CASE Renew  BY <1>3, RenewKeeps
<1>4. CASE AloneRead  BY <1>4, AloneReadKeeps
<1>5. CASE AloneWrite  BY <1>5, AloneWriteKeeps
<1>6. CASE ReadLoop  BY <1>6, ReadLoopKeeps
<1>7. CASE IsWriteBufFull  BY <1>7, IsWriteBufFullKeeps
<1>8. CASE WriterGone  BY <1>8, WriterGoneKeeps
<1>9. CASE Read  BY <1>9, ReadKeeps
<1>10. CASE SetWriteBuf  BY <1>10, SetWriteBufKeeps
<1>11. CASE EndRead  BY <1>11, EndReadKeeps
<1>12. CASE WriteLoop  BY <1>12, WriteLoopKeeps
<1>13. CASE GetWriteBuf  BY <1>13, GetWriteBufKeeps
<1>14. CASE Write  BY <1>14, WriteKeeps
<1>15. CASE EndWrite  BY <1>15, EndWriteKeeps
<1>16. CASE Signalled  BY <1>16, SignalledKeeps
<1>17. CASE WakeAllThreads  BY <1>17, WakeAllThreadsKeeps
<1>18. CASE BothEnded  BY <1>18, BothEndedKeeps
<1>20. CASE NoThread  BY <1>20, NoThreadKeeps
<1>19. CASE UNCHANGED vars
  <2> USE <1>19 DEF vars, ring, ends, job, arrived, IInv, TypeOK, Used, NextOfRing, NextOfWriter
  <2>1. TypeOK'  BY Zenon DEF Flags, Types
  <2>2. Ended' /\ AloneChain'  BY Zenon DEF Ended, AloneChain
  <2>3. Woke'  BY Zenon DEF Woke
  <2>4. Chain'  BY Zenon DEF Chain
  <2>5. ReaderChain' /\ InOrder'  BY Zenon DEF ReaderChain, InOrder
  <2> QED  BY <2>1, <2>2, <2>3, <2>4, <2>5
<1> QED
  BY <1>1, <1>2, <1>3, <1>4, <1>5, <1>6, <1>7, <1>8, <1>9, <1>10, <1>11, <1>12, <1>13, <1>14, <1>15, <1>16, <1>17, <1>18, <1>19, <1>20, Zenon
     DEF Next, Step, ReaderStep, WriterStep, CallerStep, AloneStep

(* Whatever the sizes, the buffer, the interleaving of the three threads,   *)
(* the faults and the moment of a stop: what has arrived is the beginning   *)
(* of the source.                                                          *)
THEOREM BytesInOrder == Spec => []InOrder
<1>1. IInv => InOrder  BY DEF IInv
<1> QED  BY <1>1, InitHolds, NextKeeps, PTL DEF Spec

-----------------------------------------------------------------------------
(* Without sources that end early *)

LEMMA InitComplete == Init => Complete
  BY DEF Init, Complete, ReaderActive, ReaderLooking, ReaderSetting, WriterActive

LEMMA BeginAnyCompletes == "short" \notin Faults /\ IInv /\ Complete /\ BeginAny => Complete'
  BY SMT, RingValues DEF IInv, Complete, BeginAny, Begin, Empty, vars, ring, ends, job, arrived,
     TypeOK, Types, Buffers, Results, CallerPlaces, ReaderPlaces, ReaderActive, ReaderLooking, ReaderSetting, WriterPlaces, WriterActive,
     Ended, Woke, AloneChain, Chain, ReaderChain, NextOfRing, NextOfWriter, Used

LEMMA RequestStopCompletes == "short" \notin Faults /\ IInv /\ Complete /\ RequestStop => Complete'
  BY SMT, RingValues DEF IInv, Complete, RequestStop, vars, ring, ends, job, arrived,
     TypeOK, Types, Buffers, Results, CallerPlaces, ReaderPlaces, ReaderActive, ReaderLooking, ReaderSetting, WriterPlaces, WriterActive,
     Ended, Woke, AloneChain, Chain, ReaderChain, NextOfRing, NextOfWriter, Used

LEMMA RenewCompletes == "short" \notin Faults /\ IInv /\ Complete /\ Renew => Complete'
  BY SMT, RingValues DEF IInv, Complete, Renew, vars, ring, ends, job, arrived,
     TypeOK, Types, Buffers, Results, CallerPlaces, ReaderPlaces, ReaderActive, ReaderLooking, ReaderSetting, WriterPlaces, WriterActive,
     Ended, Woke, AloneChain, Chain, ReaderChain, NextOfRing, NextOfWriter, Used

LEMMA AloneReadCompletes == "short" \notin Faults /\ IInv /\ Complete /\ AloneRead => Complete'
  BY SMT, RingValues DEF IInv, Complete, AloneRead, AloneFrame, Return, Delivered, Least, vars, ring, ends, job, arrived,
     TypeOK, Types, Buffers, Results, CallerPlaces, ReaderPlaces, ReaderActive, ReaderLooking, ReaderSetting, WriterPlaces, WriterActive,
     Ended, Woke, AloneChain, Chain, ReaderChain, NextOfRing, NextOfWriter, Used

LEMMA AloneWriteCompletes == "short" \notin Faults /\ IInv /\ Complete /\ AloneWrite => Complete'
  BY SMT, RingValues DEF IInv, Complete, AloneWrite, AloneFrame, Return, Arrive, vars, ring, ends, job, arrived,
     TypeOK, Types, Buffers, Results, CallerPlaces, ReaderPlaces, ReaderActive, ReaderLooking, ReaderSetting, WriterPlaces, WriterActive,
     Ended, Woke, AloneChain, Chain, ReaderChain, NextOfRing, NextOfWriter, Used

LEMMA ReadLoopCompletes == "short" \notin Faults /\ IInv /\ Complete /\ ReadLoop => Complete'
  BY SMT, RingValues DEF IInv, Complete, ReadLoop, LeaveLoop, ResultsOk, vars, ring, ends, job, arrived,
     TypeOK, Types, Buffers, Results, CallerPlaces, ReaderPlaces, ReaderActive, ReaderLooking, ReaderSetting, WriterPlaces, WriterActive,
     Ended, Woke, AloneChain, Chain, ReaderChain, NextOfRing, NextOfWriter, Used

LEMMA IsWriteBufFullCompletes == "short" \notin Faults /\ IInv /\ Complete /\ IsWriteBufFull => Complete'
  BY SMT, RingValues DEF IInv, Complete, IsWriteBufFull, vars, ring, ends, job, arrived,
     TypeOK, Types, Buffers, Results, CallerPlaces, ReaderPlaces, ReaderActive, ReaderLooking, ReaderSetting, WriterPlaces, WriterActive,
     Ended, Woke, AloneChain, Chain, ReaderChain, NextOfRing, NextOfWriter, Used

LEMMA WriterGoneCompletes == "short" \notin Faults /\ IInv /\ Complete /\ WriterGone => Complete'
  BY SMT, RingValues DEF IInv, Complete, WriterGone, LeaveLoop, vars, ring, ends, job, arrived,
     TypeOK, Types, Buffers, Results, CallerPlaces, ReaderPlaces, ReaderActive, ReaderLooking, ReaderSetting, WriterPlaces, WriterActive,
     Ended, Woke, AloneChain, Chain, ReaderChain, NextOfRing, NextOfWriter, Used

LEMMA ReadCompletes == "short" \notin Faults /\ IInv /\ Complete /\ Read => Complete'
  BY SMT, RingValues DEF IInv, Complete, Read, Asked, Delivered, Least, Longer, vars, ring, ends, job, arrived,
     TypeOK, Types, Buffers, Results, CallerPlaces, ReaderPlaces, ReaderActive, ReaderLooking, ReaderSetting, WriterPlaces, WriterActive,
     Ended, Woke, AloneChain, Chain, ReaderChain, NextOfRing, NextOfWriter, Used

LEMMA SetWriteBufCompletes == "short" \notin Faults /\ IInv /\ Complete /\ SetWriteBuf => Complete'
  BY SMT, RingValues DEF IInv, Complete, SetWriteBuf, Push, SetFrame, AfterSet, Woken, ResultsOk, Empty, vars, ring, ends, job, arrived,
     TypeOK, Types, Buffers, Results, CallerPlaces, ReaderPlaces, ReaderActive, ReaderLooking, ReaderSetting, WriterPlaces, WriterActive,
     Ended, Woke, AloneChain, Chain, ReaderChain, NextOfRing, NextOfWriter, Used

LEMMA EndReadCompletes == "short" \notin Faults /\ IInv /\ Complete /\ EndRead => Complete'
  BY SMT, RingValues DEF IInv, Complete, EndRead, vars, ring, ends, job, arrived,
     TypeOK, Types, Buffers, Results, CallerPlaces, ReaderPlaces, ReaderActive, ReaderLooking, ReaderSetting, WriterPlaces, WriterActive,
     Ended, Woke, AloneChain, Chain, ReaderChain, NextOfRing, NextOfWriter, Used

LEMMA WriteLoopCompletes == "short" \notin Faults /\ IInv /\ Complete /\ WriteLoop => Complete'
  BY SMT, RingValues DEF IInv, Complete, WriteLoop, ResultsOk, vars, ring, ends, job, arrived,
     TypeOK, Types, Buffers, Results, CallerPlaces, ReaderPlaces, ReaderActive, ReaderLooking, ReaderSetting, WriterPlaces, WriterActive,
     Ended, Woke, AloneChain, Chain, ReaderChain, NextOfRing, NextOfWriter, Used

LEMMA GetWriteBufCompletes == "short" \notin Faults /\ IInv /\ Complete /\ GetWriteBuf => Complete'
  BY SMT, RingValues DEF IInv, Complete, GetWriteBuf, Pop, Woken, ResultsOk, Empty, vars, ring, ends, job, arrived,
     TypeOK, Types, Buffers, Results, CallerPlaces, ReaderPlaces, ReaderActive, ReaderLooking, ReaderSetting, WriterPlaces, WriterActive,
     Ended, Woke, AloneChain, Chain, ReaderChain, NextOfRing, NextOfWriter, Used

LEMMA WriteCompletes == "short" \notin Faults /\ IInv /\ Complete /\ Write => Complete'
  BY SMT, RingValues DEF IInv, Complete, Write, Arrive, vars, ring, ends, job, arrived,
     TypeOK, Types, Buffers, Results, CallerPlaces, ReaderPlaces, ReaderActive, ReaderLooking, ReaderSetting, WriterPlaces, WriterActive,
     Ended, Woke, AloneChain, Chain, ReaderChain, NextOfRing, NextOfWriter, Used

LEMMA EndWriteCompletes == "short" \notin Faults /\ IInv /\ Complete /\ EndWrite => Complete'
  BY SMT, RingValues DEF IInv, Complete, EndWrite, vars, ring, ends, job, arrived,
     TypeOK, Types, Buffers, Results, CallerPlaces, ReaderPlaces, ReaderActive, ReaderLooking, ReaderSetting, WriterPlaces, WriterActive,
     Ended, Woke, AloneChain, Chain, ReaderChain, NextOfRing, NextOfWriter, Used

LEMMA SignalledCompletes == "short" \notin Faults /\ IInv /\ Complete /\ Signalled => Complete'
  BY SMT, RingValues DEF IInv, Complete, Signalled, vars, ring, ends, job, arrived,
     TypeOK, Types, Buffers, Results, CallerPlaces, ReaderPlaces, ReaderActive, ReaderLooking, ReaderSetting, WriterPlaces, WriterActive,
     Ended, Woke, AloneChain, Chain, ReaderChain, NextOfRing, NextOfWriter, Used

LEMMA WakeAllThreadsCompletes == "short" \notin Faults /\ IInv /\ Complete /\ WakeAllThreads => Complete'
  BY SMT, RingValues DEF IInv, Complete, WakeAllThreads, Woken, vars, ring, ends, job, arrived,
     TypeOK, Types, Buffers, Results, CallerPlaces, ReaderPlaces, ReaderActive, ReaderLooking, ReaderSetting, WriterPlaces, WriterActive,
     Ended, Woke, AloneChain, Chain, ReaderChain, NextOfRing, NextOfWriter, Used

LEMMA BothEndedCompletes == "short" \notin Faults /\ IInv /\ Complete /\ BothEnded => Complete'
  BY SMT, RingValues DEF IInv, Complete, BothEnded, Return, ResultsOk, vars, ring, ends, job, arrived,
     TypeOK, Types, Buffers, Results, CallerPlaces, ReaderPlaces, ReaderActive, ReaderLooking, ReaderSetting, WriterPlaces, WriterActive,
     Ended, Woke, AloneChain, Chain, ReaderChain, NextOfRing, NextOfWriter, Used

LEMMA NoThreadCompletes == "short" \notin Faults /\ IInv /\ Complete /\ NoThread => Complete'
  BY SMT, RingValues DEF IInv, Complete, NoThread, Return, vars, ring, ends, job, arrived,
     TypeOK, Types, Buffers, Results, CallerPlaces, ReaderPlaces, ReaderActive, ReaderLooking, ReaderSetting, WriterPlaces, WriterActive,
     Ended, Woke, AloneChain, Chain, ReaderChain, NextOfRing, NextOfWriter, Used

LEMMA NextCompletes == "short" \notin Faults /\ IInv /\ Complete /\ [Next]_vars => Complete'
<1> SUFFICES ASSUME "short" \notin Faults, IInv, Complete, [Next]_vars PROVE Complete'  OBVIOUS
<1>1. CASE BeginAny  BY <1>1, BeginAnyCompletes
<1>2. CASE RequestStop  BY <1>2, RequestStopCompletes
<1>3. CASE Renew  BY <1>3, RenewCompletes
<1>4. CASE AloneRead  BY <1>4, AloneReadCompletes
<1>5. CASE AloneWrite  BY <1>5, AloneWriteCompletes
<1>6. CASE ReadLoop  BY <1>6, ReadLoopCompletes
<1>7. CASE IsWriteBufFull  BY <1>7, IsWriteBufFullCompletes
<1>8. CASE WriterGone  BY <1>8, WriterGoneCompletes
<1>9. CASE Read  BY <1>9, ReadCompletes
<1>10. CASE SetWriteBuf  BY <1>10, SetWriteBufCompletes
<1>11. CASE EndRead  BY <1>11, EndReadCompletes
<1>12. CASE WriteLoop  BY <1>12, WriteLoopCompletes
<1>13. CASE GetWriteBuf  BY <1>13, GetWriteBufCompletes
<1>14. CASE Write  BY <1>14, WriteCompletes
<1>15. CASE EndWrite  BY <1>15, EndWriteCompletes
<1>16. CASE Signalled  BY <1>16, SignalledCompletes
<1>17. CASE WakeAllThreads  BY <1>17, WakeAllThreadsCompletes
<1>18. CASE BothEnded  BY <1>18, BothEndedCompletes
<1>20. CASE NoThread  BY <1>20, NoThreadCompletes
<1>19. CASE UNCHANGED vars
  BY <1>19, Zenon DEF vars, ring, ends, job, arrived, Complete, Used, NextOfRing, NextOfWriter
<1> QED
  BY <1>1, <1>2, <1>3, <1>4, <1>5, <1>6, <1>7, <1>8, <1>9, <1>10, <1>11, <1>12, <1>13, <1>14, <1>15, <1>16, <1>17, <1>18, <1>19, <1>20, Zenon
     DEF Next, Step, ReaderStep, WriterStep, CallerStep, AloneStep

-----------------------------------------------------------------------------
(* The refinement *)

Both == IInv /\ Complete

LEMMA CopyInit == Init => Copy!Init
  BY DEF Init, Copy!Init

Inside == ReadLoop \/ IsWriteBufFull \/ WriterGone \/ SetWriteBuf \/ EndRead \/ WriteLoop
          \/ GetWriteBuf \/ EndWrite \/ Signalled \/ WakeAllThreads \/ RequestStop \/ Renew

(* What the threads do between reads and writes is not seen outside.        *)
LEMMA InsideStutters == Inside => UNCHANGED Copy!vars
<1> USE DEF Copy!vars, job, arrived
<1>1. RequestStop \/ Renew => UNCHANGED Copy!vars  BY Zenon DEF RequestStop, Renew
<1>2. ReadLoop \/ IsWriteBufFull \/ WriterGone \/ SetWriteBuf \/ EndRead => UNCHANGED Copy!vars
  BY Zenon DEF ReadLoop, IsWriteBufFull, WriterGone, SetWriteBuf, SetFrame, EndRead
<1>3. WriteLoop \/ GetWriteBuf \/ EndWrite \/ WakeAllThreads => UNCHANGED Copy!vars
  BY Zenon DEF WriteLoop, GetWriteBuf, EndWrite, WakeAllThreads
<1>4. Signalled => UNCHANGED Copy!vars  BY DEF Signalled
<1> QED  BY <1>1, <1>2, <1>3, <1>4, Zenon DEF Inside

LEMMA BeginAnyCopies == "short" \notin Faults /\ Both /\ BeginAny => [Copy!Next]_(Copy!vars)
  BY SMT DEF Both, IInv, BeginAny, Begin, TypeOK, Types, Results, CallerPlaces, job, arrived,
     Copy!Next, Copy!Start, Copy!Take, Copy!Give, Copy!Succeed, Copy!Fail, Copy!vars

LEMMA AloneReadCopies == "short" \notin Faults /\ Both /\ AloneRead => [Copy!Next]_(Copy!vars)
  BY SMT DEF Both, IInv, Complete, AloneRead, AloneFrame, Return, Delivered, Least, job, arrived, TypeOK, Types, AloneChain,
     Copy!Next, Copy!Start, Copy!Take, Copy!Give, Copy!Succeed, Copy!Fail, Copy!vars

LEMMA AloneWriteCopies == "short" \notin Faults /\ Both /\ AloneWrite => [Copy!Next]_(Copy!vars)
  BY SMT DEF Both, IInv, Complete, AloneWrite, AloneFrame, Return, Arrive, job, arrived, TypeOK, Types, Buffers, AloneChain, Ended, CallerPlaces,
     Copy!Next, Copy!Start, Copy!Take, Copy!Give, Copy!Succeed, Copy!Fail, Copy!vars

LEMMA ReadCopies == "short" \notin Faults /\ Both /\ Read => [Copy!Next]_(Copy!vars)
  BY SMT DEF Both, IInv, Complete, Read, Asked, Delivered, Least, Longer, job, arrived, TypeOK, Types, Ended, ReaderChain, ReaderLooking,
     Copy!Next, Copy!Start, Copy!Take, Copy!Give, Copy!Succeed, Copy!Fail, Copy!vars

LEMMA WriteCopies == "short" \notin Faults /\ Both /\ Write => [Copy!Next]_(Copy!vars)
  BY SMT DEF Both, IInv, Complete, Write, Arrive, job, arrived, TypeOK, Types, Buffers, Ended, Chain, NextOfWriter, WriterActive,
     Copy!Next, Copy!Start, Copy!Take, Copy!Give, Copy!Succeed, Copy!Fail, Copy!vars

LEMMA BothEndedCopies == "short" \notin Faults /\ Both /\ BothEnded => [Copy!Next]_(Copy!vars)
  BY SMT DEF Both, IInv, Complete, BothEnded, Return, ResultsOk, job, arrived, TypeOK, Types, Results, Ended, WriterActive,
     Copy!Next, Copy!Start, Copy!Take, Copy!Give, Copy!Succeed, Copy!Fail, Copy!vars

LEMMA NoThreadCopies == NoThread => [Copy!Next]_(Copy!vars)
  BY SMT DEF NoThread, Return, job, arrived,
     Copy!Next, Copy!Start, Copy!Take, Copy!Give, Copy!Succeed, Copy!Fail, Copy!vars

LEMMA NextCopies == "short" \notin Faults /\ Both /\ [Next]_vars => [Copy!Next]_(Copy!vars)
<1> SUFFICES ASSUME "short" \notin Faults, Both, [Next]_vars PROVE [Copy!Next]_(Copy!vars)  OBVIOUS
<1>1. CASE BeginAny  BY <1>1, BeginAnyCopies
<1>2. CASE AloneRead  BY <1>2, AloneReadCopies
<1>3. CASE AloneWrite  BY <1>3, AloneWriteCopies
<1>4. CASE Read  BY <1>4, ReadCopies
<1>5. CASE Write  BY <1>5, WriteCopies
<1>6. CASE BothEnded  BY <1>6, BothEndedCopies
<1>7. CASE Inside  BY <1>7, InsideStutters
<1>9. CASE NoThread  BY <1>9, NoThreadCopies
<1>8. CASE UNCHANGED vars  BY <1>8, Zenon DEF vars, job, arrived, Copy!vars
<1> QED
  BY <1>1, <1>2, <1>3, <1>4, <1>5, <1>6, <1>7, <1>8, <1>9, Zenon
     DEF Next, Step, ReaderStep, WriterStep, CallerStep, AloneStep, Inside

(* Every transfer implements Copying, as long as a source holds what it     *)
(* announces: what is reported as a success has moved the whole file.       *)
THEOREM TransferCopies == "short" \notin Faults => (Spec => ImplementsCopying)
<1> SUFFICES ASSUME "short" \notin Faults PROVE Spec => ImplementsCopying  OBVIOUS
<1>1. Init => Both  BY InitHolds, InitComplete DEF Both
<1>2. Both /\ [Next]_vars => Both'  BY NextKeeps, NextCompletes DEF Both
<1>3. Both /\ [Next]_vars => [Copy!Next]_(Copy!vars)  BY NextCopies
<1> QED  BY <1>1, <1>2, <1>3, CopyInit, PTL DEF Spec, ImplementsCopying, Copy!Spec

-----------------------------------------------------------------------------
(* The server *)

(* Where the frame loop holds the mutex, and where it needs a running       *)
(* server or none.                                                         *)
UiPlaces ==
  /\ m_mutex \in {"none", "ui"}
  /\ m_mutex = "ui" <=> ui \in {"starting", "started"}
  /\ m_status = "Starting" <=> m_mutex = "ui"
  /\ m_status \in {"Stopped", "Starting", "Running"}
  /\ ui \in {"toggle", "ask", "stop"} => m_status = "Running"
  /\ ui \in {"start", "exit", "join", "off"} => m_status = "Stopped"
  /\ after \in {"list", "mtp", "off"}
  /\ ui \in {"list", "mtp", "toggle", "start", "starting", "started", "back", "ask",
             "quit", "stop", "exit", "join", "off"}

(* The thread of libhaze, its session and its file.                         *)
ThreadInv ==
  /\ ui = "starting" => haze = "none"
  /\ ui = "started" => haze \in {"idle", "asked"} /\ ~m_session_open
  /\ m_status = "Running" => haze \in {"idle", "asked", "moving"}
  /\ m_status \in {"Starting", "Running"} /\ haze # "none" => ~stop
  /\ m_status = "Stopped" /\ ui \notin {"exit", "join"} => haze = "none"
  /\ haze # "moving" => caller = "idle" /\ ~m_transfer_in_progress
  /\ haze = "moving" /\ m_status = "Running" => m_transfer_in_progress
  /\ m_session_open /\ m_status = "Running" => m_is_connected

(* The file is as long as announced once a byte is written.                 *)
LengthInv ==
  /\ size \in Nat /\ write_offset \in Nat /\ len \in Nat
  /\ dir = "receive" => len >= write_offset
  /\ dir = "receive" /\ haze # "moving" => len = write_offset \/ announced
  /\ dir = "receive" /\ write_offset >= size => len = write_offset

ServerInv == UiPlaces /\ ThreadInv /\ LengthInv

-----------------------------------------------------------------------------
(* The server moves files by the steps of FileTransfer.                     *)

Inner == ReaderStep \/ Read \/ WriterStep \/ CallerStep \/ AloneRead

LEMMA ServerStep == [ServerNext]_all => [Next]_vars
<1> SUFFICES ASSUME [ServerNext]_all PROVE [Next]_vars  OBVIOUS
<1>1. CASE HazeSteps
  BY <1>1, Zenon DEF HazeSteps, OpenSession, CloseSession, Session, OtherRequest, BeginFile,
     EndFile, ThreadEnds, Next, vars
<1>2. CASE Request  BY <1>2, Zenon DEF Request, vars
<1>3. CASE WriteFile  BY <1>3, Zenon DEF WriteFile, Next, Step, AloneStep
<1>4. CASE Moving(ReaderStep) \/ Moving(Read) \/ Moving(WriterStep)
           \/ Moving(CallerStep) \/ Moving(AloneRead)
  BY <1>4, Zenon DEF Moving, Next, Step, AloneStep
<1>5. CASE EnterMtp \/ ToggleMtp \/ KeyB \/ Answer \/ Quit
  BY <1>5, Zenon DEF EnterMtp, ToggleMtp, KeyB, Answer, Quit, UiFrame, vars
<1>6. CASE StopSteps
  BY <1>6, Zenon DEF StopSteps, CheckActive, StartMtp, StopMtp, Exit, KeyB, Quit, UiFrame, Next, vars
<1>7. CASE UNCHANGED all  BY <1>7, Zenon DEF all
<1> QED  BY <1>1, <1>2, <1>3, <1>4, <1>5, <1>6, <1>7, Zenon DEF ServerNext

(* What is proved of a transfer holds of every transfer of the server.      *)
THEOREM ServerTransfers == ServerSpec => Spec
<1>1. ServerInit => Init  BY Zenon DEF ServerInit
<1> QED  BY <1>1, ServerStep, PTL DEF ServerSpec, Spec

LEMMA ServerTyped == ServerSpec => []IInv
<1>1. Spec => []IInv  BY InitHolds, NextKeeps, PTL DEF Spec
<1> QED  BY <1>1, ServerTransfers, PTL

-----------------------------------------------------------------------------
(* Flags and lengths *)

LEMMA InnerFrame == Inner => UNCHANGED <<job, arrived>>
<1> USE DEF job, arrived
<1>1. ReaderStep => UNCHANGED <<job, arrived>>
  BY Zenon DEF ReaderStep, ReadLoop, IsWriteBufFull, WriterGone, SetWriteBuf, SetFrame, EndRead
<1>2. WriterStep => UNCHANGED <<job, arrived>>
  BY Zenon DEF WriterStep, WriteLoop, GetWriteBuf, EndWrite
<1>3. CallerStep => UNCHANGED <<job, arrived>>
  BY Zenon DEF CallerStep, NoThread, Signalled, WakeAllThreads, BothEnded
<1>4. Read \/ AloneRead => UNCHANGED <<job, arrived>>
  BY Zenon DEF Read, AloneRead, AloneFrame
<1> QED  BY <1>1, <1>2, <1>3, <1>4, Zenon DEF Inner

LEMMA WriteFrame ==
  IInv /\ (Write \/ AloneWrite) =>
    /\ UNCHANGED job
    /\ write_offset' = write_offset \/ write_offset' = write_offset + wbuf.len
    /\ write_offset \in Nat /\ wbuf.len \in Nat
  BY SMT DEF Write, AloneWrite, AloneFrame, Arrive, arrived, IInv, TypeOK, Types, Buffers

LEMMA ServerInitHolds == ServerInit => ServerInv
  BY DEF ServerInit, Init, ServerInv, UiPlaces, ThreadInv, LengthInv

LEMMA UiKept == ServerInv /\ [ServerNext]_all => UiPlaces'
<1> SUFFICES ASSUME ServerInv, [ServerNext]_all PROVE UiPlaces'  OBVIOUS
<1> USE DEF ServerInv, UiPlaces, ThreadInv, manager, server, loop, all
<1>1. CASE HazeSteps
  BY <1>1 DEF HazeSteps, OpenSession, CloseSession, Session, OtherRequest, BeginFile, EndFile, ThreadEnds
<1>2. CASE Request \/ WriteFile  BY <1>2 DEF Request, WriteFile
<1>3. CASE Moving(ReaderStep) \/ Moving(Read) \/ Moving(WriterStep)
           \/ Moving(CallerStep) \/ Moving(AloneRead)
  BY <1>3 DEF Moving
<1>4. CASE EnterMtp \/ ToggleMtp \/ KeyB \/ Answer \/ Quit
  BY <1>4 DEF EnterMtp, ToggleMtp, KeyB, Answer, Quit, UiFrame, Goto, Free
<1>5. CASE CheckActive \/ StopMtp \/ Exit
  BY <1>5 DEF CheckActive, StopMtp, Exit, UiFrame, Goto, Free
<1>6. CASE StartMtp  BY <1>6 DEF StartMtp, Goto, Free
<1>7. CASE UNCHANGED all  BY <1>7
<1> QED  BY <1>1, <1>2, <1>3, <1>4, <1>5, <1>6, <1>7, Zenon DEF ServerNext, StopSteps

LEMMA ThreadKept == IInv /\ ServerInv /\ [ServerNext]_all => ThreadInv'
<1> SUFFICES ASSUME IInv, ServerInv, [ServerNext]_all PROVE ThreadInv'  OBVIOUS
<1> USE DEF ServerInv, UiPlaces, ThreadInv, manager, server, loop, all
<1>1. CASE OpenSession \/ CloseSession \/ OtherRequest \/ EndFile
  <2>1. CASE OpenSession  BY <2>1 DEF OpenSession, Session, Free, vars, job
  <2>2. CASE CloseSession  BY <2>2 DEF CloseSession, Session, Free, vars, job
  <2>3. CASE OtherRequest  BY <2>3 DEF OtherRequest, SessionMayClose, vars, job
  <2>4. CASE EndFile  BY <2>4 DEF EndFile, SessionMayClose, Free, vars, job
  <2> QED  BY <1>1, <2>1, <2>2, <2>3, <2>4
<1>2. CASE ThreadEnds \/ Request
  BY <1>2 DEF ThreadEnds, Request, Free, vars, job
<1>3. CASE BeginFile  BY <1>3 DEF BeginFile, BeginAny, Begin, Free
<1>4. CASE WriteFile  BY <1>4, WriteFrame DEF WriteFile, job
<1>5. CASE Moving(ReaderStep) \/ Moving(Read) \/ Moving(WriterStep)
           \/ Moving(CallerStep) \/ Moving(AloneRead)
  BY <1>5, InnerFrame DEF Moving, Inner, job
<1>6. CASE EnterMtp \/ ToggleMtp \/ KeyB \/ Answer \/ Quit
  BY <1>6 DEF EnterMtp, ToggleMtp, KeyB, Answer, Quit, UiFrame, Goto, Free, vars, job
<1>7. CASE CheckActive \/ StopMtp
  BY <1>7 DEF CheckActive, StopMtp, ResetTransferInfo, UiFrame, Goto, Free, vars, job
<1>8. CASE Exit  BY <1>8 DEF Exit, UiFrame, Goto, RequestStop, vars, job
<1>9. CASE StartMtp  BY <1>9 DEF StartMtp, ResetTransferInfo, Renew, Goto, Free, vars, job
<1>10. CASE UNCHANGED all  BY <1>10 DEF vars, job
<1> QED
  BY <1>1, <1>2, <1>3, <1>4, <1>5, <1>6, <1>7, <1>8, <1>9, <1>10, Zenon
     DEF ServerNext, StopSteps, HazeSteps

LEMMA LengthKept == IInv /\ ServerInv /\ [ServerNext]_all => LengthInv'
<1> SUFFICES ASSUME IInv, ServerInv, [ServerNext]_all PROVE LengthInv'  OBVIOUS
<1> USE DEF ServerInv, ThreadInv, LengthInv, server, file, all
<1>1. CASE OpenSession \/ CloseSession \/ OtherRequest
  BY <1>1 DEF OpenSession, CloseSession, Session, OtherRequest, vars, job, arrived
<1>2. CASE EndFile
  <2>1. /\ UNCHANGED <<dir, size, write_offset>> /\ haze' = "idle"
        /\ \/ dir = "receive" /\ write_offset < size /\ len' = write_offset
           \/ dir = "receive" /\ write_offset < size /\ announced' = TRUE /\ len' = len
           \/ ~(dir = "receive" /\ write_offset < size) /\ len' = len
    BY <1>2, Zenon DEF EndFile, file, vars, job, arrived
  <2> QED  BY <2>1
<1>10. CASE ThreadEnds \/ Request
  BY <1>10 DEF ThreadEnds, Request, vars, job, arrived
<1>3. CASE BeginFile  BY <1>3, SizesAssumption DEF BeginFile, BeginAny, Begin
<1>4. CASE WriteFile  BY <1>4, WriteFrame DEF WriteFile, Greatest, job
<1>5. CASE Moving(ReaderStep) \/ Moving(Read) \/ Moving(WriterStep)
           \/ Moving(CallerStep) \/ Moving(AloneRead)
  BY <1>5, InnerFrame DEF Moving, Inner, job, arrived
<1>6. CASE EnterMtp \/ ToggleMtp \/ KeyB \/ Answer \/ Quit
  BY <1>6 DEF EnterMtp, ToggleMtp, KeyB, Answer, Quit, UiFrame, vars, job, arrived
<1>7. CASE CheckActive \/ StopMtp \/ Exit
  BY <1>7 DEF CheckActive, StopMtp, Exit, RequestStop, UiFrame, vars, job, arrived, UiPlaces
<1>8. CASE StartMtp
  BY <1>8 DEF StartMtp, Renew, vars, job, arrived
<1>9. CASE UNCHANGED all  BY <1>9 DEF vars, job, arrived
<1> QED
  BY <1>1, <1>2, <1>3, <1>4, <1>5, <1>6, <1>7, <1>8, <1>9, <1>10, Zenon
     DEF ServerNext, StopSteps, HazeSteps

LEMMA ServerInvariant == ServerSpec => []ServerInv
<1>1. IInv /\ ServerInv /\ [ServerNext]_all => ServerInv'
  BY UiKept, ThreadKept, LengthKept DEF ServerInv
<1> QED  BY <1>1, ServerInitHolds, ServerTyped, PTL DEF ServerSpec

(* However keys, requests, callbacks and a stop interleave, what the frame  *)
(* loop reads under the mutex is true.                                     *)
THEOREM FlagsAreTrue == ServerSpec => []FlagsTrue
<1>1. ServerInv => FlagsTrue
  BY DEF ServerInv, UiPlaces, ThreadInv, FlagsTrue
<1> QED  BY <1>1, ServerInvariant, PTL

(* Between two transfers a file holds all that was written to it, and ends  *)
(* there unless its truncation failed, whatever else fails and whenever the *)
(* transfer was stopped.                                                   *)
THEOREM NoAnnouncedRest == ServerSpec => []FileEndsWithData
<1>1. ServerInv => FileEndsWithData
  BY DEF ServerInv, LengthInv, FileEndsWithData
<1> QED  BY <1>1, ServerInvariant, PTL

(* The bytes of every file the server moves are in order.                   *)
THEOREM ServedInOrder == ServerSpec => []InOrder
<1> QED  BY ServerTransfers, BytesInOrder, PTL
=============================================================================
