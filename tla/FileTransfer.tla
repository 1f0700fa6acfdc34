---------------------------- MODULE FileTransfer ----------------------------
(***************************************************************************)
(* One file between the console's card and the computer at the other end   *)
(* of the USB cable (sphaira::thread::Transfer).  A small file is read and *)
(* written by the caller; any other by a reader and a writer that share a  *)
(* ring of one buffer under a mutex with two condition variables, while    *)
(* the caller sleeps until one of them signals uevent.  A critical section *)
(* is one step, cut where it waits; a thread that was woken goes on        *)
(* without looking again.  Bytes are counted in packets of the slow mode;  *)
(* a buffer holds the packets from .. from + len - 1 of the source.        *)
(***************************************************************************)
EXTENDS Integers

CONSTANTS
  Sizes,    \* the sizes a transfer may announce (write_size)
  Buffer,   \* buffer_size
  Faults    \* "read", "write": a callback fails; "short": the source ends early;
            \* "thread": no thread to be had; "truncate": see MtpServer

ASSUME SizesAssumption  == Sizes \subseteq Nat
ASSUME BufferAssumption == Buffer \in Nat \ {0}

VARIABLES
  dir,          \* "receive": SendObject, from USB; "send": GetObject, to USB
  size, avail,  \* what is announced, and what the source holds
  caller,       \* "idle"; "read", "write" (alone); "wait", "wake" (two threads);
                \* "unstarted" (a thread could not be created)
  reader, writer,            \* where the threads are
  rbuf, slot, wbuf,          \* the buffers of the reader, the ring, the writer
  r_index, w_index,          \* of the ring, modulo twice its capacity
  read_offset, write_offset,
  full,                      \* is_write_full; slow_mode follows it
  flushing,                  \* the reader has left its loop
  rret, wret,                \* what the thread functions are about to return
  read_running, write_running, read_result, write_result,
  uevent,
  stop,                      \* m_cancel_event: nothing more over USB
  target,                    \* what has arrived, by offset
  outcome                    \* of the last transfer: "none", "ok", "failed"

ring    == <<slot, r_index, w_index>>
ends    == <<rret, wret, read_running, write_running, read_result, write_result, uevent>>
job     == <<dir, size, avail, stop>>
arrived == <<write_offset, target>>
vars    == <<job, caller, reader, writer, rbuf, wbuf, ring, read_offset, arrived,
             full, flushing, ends, outcome>>

Empty == [from |-> 0, len |-> 0]
Least(a, b) == IF a <= b THEN a ELSE b
Used  == (w_index - r_index) % 2         \* ringbuf_size: 1 when the ring is full
ResultsOk == read_result = "ok" /\ write_result = "ok"      \* GetResults

Init ==
  /\ dir = "receive" /\ size = 0 /\ avail = 0 /\ stop = FALSE
  /\ caller = "idle" /\ reader = "done" /\ writer = "done"
  /\ rbuf = Empty /\ wbuf = Empty /\ slot = Empty /\ r_index = 0 /\ w_index = 0
  /\ read_offset = 0 /\ write_offset = 0 /\ target = [k \in {} |-> 0]
  /\ full = FALSE /\ flushing = FALSE
  /\ rret = "ok" /\ wret = "ok" /\ read_running = FALSE /\ write_running = FALSE
  /\ read_result = "ok" /\ write_result = "ok" /\ uevent = FALSE
  /\ outcome = "none"

(* SendObject always takes two threads, GetObject only for what a buffer    *)
(* does not hold.  Both are created before either is started.              *)
Begin(d, n, a) ==
  /\ caller = "idle"
  /\ dir' = d /\ size' = n /\ avail' = a
  /\ LET alone == d = "send" /\ n <= Buffer
     IN  /\ caller' \in IF alone THEN {"read"}
                       ELSE {"wait"} \union {p \in {"unstarted"} : "thread" \in Faults}
         /\ reader' = IF caller' = "wait" THEN "loop" ELSE "done"
         /\ writer' = reader'
         /\ read_running' = ~alone /\ write_running' = ~alone
  /\ rbuf' = Empty /\ wbuf' = Empty /\ slot' = Empty /\ r_index' = 0 /\ w_index' = 0
  /\ read_offset' = 0 /\ write_offset' = 0 /\ target' = [k \in {} |-> 0]
  /\ full' = FALSE /\ flushing' = FALSE
  /\ rret' = "ok" /\ wret' = "ok" /\ read_result' = "ok" /\ write_result' = "ok"
  /\ uevent' = FALSE /\ outcome' = "none" /\ UNCHANGED stop

BeginAny == \E d \in {"receive", "send"}, n \in Sizes : \E a \in 0 .. n :
  (a < n => "short" \in Faults) /\ Begin(d, n, a)

(* The next server has an event of its own.                                *)
Renew ==
  /\ caller = "idle" /\ stop' = FALSE
  /\ UNCHANGED <<dir, size, avail, caller, reader, writer, rbuf, wbuf, ring,
                 read_offset, arrived, full, flushing, ends, outcome>>

(* StopMtp, or the end of the program, reaches whichever side waits on USB. *)
RequestStop ==
  /\ ~stop /\ stop' = TRUE
  /\ UNCHANGED <<dir, size, avail, caller, reader, writer, rbuf, wbuf, ring,
                 read_offset, arrived, full, flushing, ends, outcome>>

MayFailToRead  == "read" \in Faults \/ (dir = "receive" /\ stop)
MayFailToWrite == "write" \in Faults \/ (dir = "send" /\ stop)

(* What rfunc delivers when asked for n packets: 0 at the end of the source *)
Delivered(n) == Least(Least(n, size - read_offset), avail - read_offset)
Received(b)  == [k \in 0 .. (write_offset + b.len) - 1 |->
                   IF k < write_offset THEN target[k] ELSE b.from + (k - write_offset)]
Arrive(b)    == target' = Received(b) /\ write_offset' = write_offset + b.len

-----------------------------------------------------------------------------
(* The caller without threads *)

Return(result) == caller' = "idle" /\ outcome' = result

AloneFrame == UNCHANGED <<job, reader, writer, rbuf, ring, full, flushing, ends>>

AloneRead ==
  /\ caller = "read"
  /\ \/ /\ read_offset < size /\ Delivered(Buffer) > 0
        /\ wbuf' = [from |-> read_offset, len |-> Delivered(Buffer)]
        /\ read_offset' = read_offset + Delivered(Buffer)
        /\ caller' = "write" /\ UNCHANGED outcome
     \/ /\ read_offset >= size \/ Delivered(Buffer) = 0
        /\ Return("ok") /\ UNCHANGED <<wbuf, read_offset>>
     \/ /\ read_offset < size /\ MayFailToRead
        /\ Return("failed") /\ UNCHANGED <<wbuf, read_offset>>
  /\ AloneFrame /\ UNCHANGED arrived

AloneWrite ==
  /\ caller = "write"
  /\ \/ Arrive(wbuf) /\ caller' = "read" /\ UNCHANGED outcome
     \/ MayFailToWrite /\ Return("failed") /\ UNCHANGED arrived
  /\ AloneFrame /\ UNCHANGED <<wbuf, read_offset>>

-----------------------------------------------------------------------------
(* The reader: readFuncInternal *)

LeaveLoop == IF rbuf.len = 0
             THEN reader' = "leave" /\ UNCHANGED flushing
             ELSE reader' = "set" /\ flushing' = TRUE

ReadLoop ==
  /\ reader = "loop"
  /\ IF read_offset < size /\ ResultsOk
     THEN reader' = "look" /\ UNCHANGED flushing
     ELSE LeaveLoop
  /\ UNCHANGED <<job, caller, writer, rbuf, wbuf, ring, read_offset, arrived,
                 full, ends, outcome>>

(* IsWriteBufFull: waits 100 ms at most for the writer to take the buffer. *)
IsWriteBufFull ==
  /\ \/ reader = "look" /\ Used = 1 /\ reader' = "lookwait" /\ UNCHANGED full
     \/ reader = "look" /\ Used = 0 /\ reader' = "seen" /\ full' = FALSE
     \/ reader = "lookwait" /\ reader' = "seen" /\ full' = TRUE
     \/ reader = "lookgot" /\ reader' = "seen" /\ full' = (Used = 1)
  /\ UNCHANGED <<job, caller, writer, rbuf, wbuf, ring, read_offset, arrived,
                 flushing, ends, outcome>>

WriterGone ==
  /\ reader = "seen"
  /\ IF full /\ ~write_running THEN LeaveLoop
     ELSE reader' = "read" /\ UNCHANGED flushing
  /\ UNCHANGED <<job, caller, writer, rbuf, wbuf, ring, read_offset, arrived,
                 full, ends, outcome>>

Asked     == IF full THEN 1 ELSE Least(Buffer, size)
Longer(n) == [from |-> IF rbuf.len = 0 THEN read_offset ELSE rbuf.from,
              len  |-> rbuf.len + n]

(* At the end of the source the buffer keeps the size it was given for the  *)
(* read, and is flushed with it.                                           *)
Read ==
  /\ reader = "read"
  /\ \/ /\ Delivered(Asked) > 0
        /\ rbuf' = Longer(Delivered(Asked))
        /\ read_offset' = read_offset + Delivered(Asked)
        /\ reader' = IF full THEN "loop" ELSE "set"
        /\ UNCHANGED <<flushing, rret>>
     \/ /\ Delivered(Asked) = 0
        /\ rbuf' = Longer(Asked) /\ reader' = "set" /\ flushing' = TRUE
        /\ UNCHANGED <<read_offset, rret>>
     \/ /\ MayFailToRead
        /\ reader' = "leave" /\ rret' = "failed"
        /\ UNCHANGED <<rbuf, read_offset, flushing>>
  /\ UNCHANGED <<job, caller, writer, wbuf, ring, arrived, full, wret, read_running,
                 write_running, read_result, write_result, uevent, outcome>>

AfterSet == reader' = IF flushing THEN "leave" ELSE "loop"

Woken(pc) == CASE pc = "getwait"  -> "getgot"
               [] pc = "lookwait" -> "lookgot"
               [] pc = "setwait"  -> "setgot"
               [] OTHER           -> pc

(* SetWriteBuf: what has waited does not look at the ring again. *)
Push ==
  IF ~ResultsOk
  THEN /\ reader' = "leave" /\ rret' = "failed"
       /\ UNCHANGED <<writer, rbuf, slot, w_index>>
  ELSE /\ slot' = rbuf /\ w_index' = (w_index + 1) % 2
       /\ rbuf' = Empty /\ AfterSet /\ writer' = Woken(writer)
       /\ UNCHANGED rret

SetFrame == UNCHANGED <<job, caller, wbuf, r_index, read_offset, arrived, full,
  flushing, wret, read_running, write_running, read_result, write_result, uevent, outcome>>

(* Mutation of SetWriteBuf: no look at the ring.                            *)
SetWriteBufUnwaited == reader \in {"set", "setgot"} /\ Push /\ SetFrame

SetWriteBuf ==
  /\ \/ reader = "set" /\ Used = 1 /\ ~write_running
        /\ rbuf' = Empty /\ AfterSet
        /\ UNCHANGED <<writer, slot, w_index, rret>>
     \/ reader = "set" /\ Used = 1 /\ write_running
        /\ reader' = "setwait"
        /\ UNCHANGED <<writer, rbuf, slot, w_index, rret>>
     \/ ((reader = "set" /\ Used = 0) \/ reader = "setgot") /\ Push
  /\ SetFrame

(* The end of readFunc: SetReadResult signals a failure only. *)
EndRead ==
  /\ \/ reader = "leave" /\ reader' = "report" /\ read_running' = FALSE
        /\ UNCHANGED <<read_result, uevent>>
     \/ reader = "report" /\ reader' = "done" /\ read_result' = rret
        /\ uevent' = (uevent \/ rret = "failed")
        /\ UNCHANGED read_running
  /\ UNCHANGED <<job, caller, writer, rbuf, wbuf, ring, read_offset, arrived, full,
                 flushing, rret, wret, write_running, write_result, outcome>>

-----------------------------------------------------------------------------
(* The writer: writeFuncInternal *)

WriteLoop ==
  /\ writer = "loop"
  /\ writer' = IF write_offset < size /\ ResultsOk THEN "get" ELSE "leave"
  /\ UNCHANGED <<job, caller, reader, rbuf, wbuf, ring, read_offset, arrived, full,
                 flushing, ends, outcome>>

(* GetWriteBuf: the end of the reader wakes nobody who waits here. *)
Pop ==
  IF ~ResultsOk
  THEN /\ writer' = "leave" /\ wret' = "failed"
       /\ UNCHANGED <<reader, wbuf, slot, r_index>>
  ELSE /\ wbuf' = slot /\ slot' = wbuf /\ r_index' = (r_index + 1) % 2
       /\ writer' = IF slot.len = 0 THEN "leave" ELSE "write"
       /\ reader' = Woken(reader) /\ UNCHANGED wret

GetWriteBuf ==
  /\ \/ writer = "get" /\ Used = 0 /\ ~read_running
        /\ writer' = "leave" /\ wbuf' = Empty
        /\ UNCHANGED <<reader, slot, r_index, wret>>
     \/ writer = "get" /\ Used = 0 /\ read_running
        /\ writer' = "getwait"
        /\ UNCHANGED <<reader, wbuf, slot, r_index, wret>>
     \/ ((writer = "get" /\ Used = 1) \/ writer = "getgot") /\ Pop
  /\ UNCHANGED <<job, caller, rbuf, w_index, read_offset, arrived, full, flushing, rret,
                 read_running, write_running, read_result, write_result, uevent, outcome>>

Write ==
  /\ writer = "write"
  /\ \/ Arrive(wbuf) /\ writer' = "loop" /\ UNCHANGED wret
     \/ MayFailToWrite /\ writer' = "leave" /\ wret' = "failed" /\ UNCHANGED arrived
  /\ UNCHANGED <<job, caller, reader, rbuf, wbuf, ring, read_offset, full, flushing,
                 rret, read_running, write_running, read_result, write_result, uevent,
                 outcome>>

EndWrite ==
  /\ \/ writer = "leave" /\ writer' = "report" /\ write_running' = FALSE
        /\ UNCHANGED <<write_result, uevent>>
     \/ writer = "report" /\ writer' = "done" /\ write_result' = wret /\ uevent' = TRUE
        /\ UNCHANGED write_running
  /\ UNCHANGED <<job, caller, reader, rbuf, wbuf, ring, read_offset, arrived, full,
                 flushing, rret, wret, read_running, read_result, outcome>>

-----------------------------------------------------------------------------
(* The caller with threads: it wakes them over and over until both end.     *)

(* CreateThread failed, or the reader could not be started: nothing runs.   *)
(* A writer that cannot be started after the reader was is left out: the    *)
(* reader then runs on in the caller's frame that is gone.                  *)
NoThread ==
  /\ caller = "unstarted" /\ Return("failed")
  /\ UNCHANGED <<job, reader, writer, rbuf, wbuf, ring, read_offset, arrived, full,
                 flushing, ends>>

Signalled ==
  /\ caller = "wait" /\ uevent /\ caller' = "wake"
  /\ UNCHANGED <<job, reader, writer, rbuf, wbuf, ring, read_offset, arrived, full,
                 flushing, ends, outcome>>

WakeAllThreads ==
  /\ caller = "wake"
  /\ Woken(reader) # reader \/ Woken(writer) # writer
  /\ reader' = Woken(reader) /\ writer' = Woken(writer)
  /\ UNCHANGED <<job, caller, rbuf, wbuf, ring, read_offset, arrived, full, flushing,
                 ends, outcome>>

(* Mutation of BothEnded: the result of the reader is forgotten.            *)
BothEndedOk ==
  /\ caller = "wake" /\ reader = "done" /\ writer = "done"
  /\ Return(write_result)
  /\ UNCHANGED <<job, reader, writer, rbuf, wbuf, ring, read_offset, arrived, full,
                 flushing, ends>>

BothEnded ==
  /\ caller = "wake" /\ reader = "done" /\ writer = "done"
  /\ Return(IF ResultsOk THEN "ok" ELSE "failed")
  /\ UNCHANGED <<job, reader, writer, rbuf, wbuf, ring, read_offset, arrived, full,
                 flushing, ends>>

-----------------------------------------------------------------------------
ReaderStep == ReadLoop \/ IsWriteBufFull \/ WriterGone \/ SetWriteBuf \/ EndRead
WriterStep == WriteLoop \/ GetWriteBuf \/ EndWrite
CallerStep == NoThread \/ Signalled \/ WakeAllThreads \/ BothEnded
AloneStep  == AloneRead \/ AloneWrite

Step == ReaderStep \/ Read \/ WriterStep \/ Write \/ CallerStep \/ AloneStep
Next == BeginAny \/ RequestStop \/ Renew \/ Step

Spec == Init /\ [][Next]_vars

-----------------------------------------------------------------------------
(* Properties *)

(* What has arrived is the beginning of the source: no packet is lost,      *)
(* doubled or out of order, although the ring is one slot, a woken thread   *)
(* does not look at it again, and the caller wakes both at any moment.      *)
InOrder == target = [k \in 0 .. write_offset - 1 |-> k]

(* A transfer that is reported as a success has moved the whole source.     *)
Copy == INSTANCE Copying WITH
  Lengths <- Nat, held <- avail, taken <- read_offset, given <- write_offset,
  state <- IF caller = "idle" THEN outcome ELSE "copying"
ImplementsCopying == Copy!Spec
=============================================================================
