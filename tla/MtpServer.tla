------------------------------ MODULE MtpServer ------------------------------
(***************************************************************************)
(* The MTP server: the frame loop that starts and stops it (App::UpdateMTP,*)
(* MtpManager), the thread of libhaze that answers the computer, and the   *)
(* callbacks between them under m_mutex.  The bytes of a file move in      *)
(* FileTransfer; what is on the card while a file is received is len.      *)
(***************************************************************************)
EXTENDS FileTransfer

VARIABLES
  m_status,                \* "Stopped", "Starting", "Running"
  m_mutex,                 \* "ui" while StartMtp holds it
  m_is_connected, m_transfer_in_progress,
  haze,            \* the thread: "none", "idle", "asked" (a request was read),
                   \* "moving" a file, "ended"
  m_session_open,
  len,             \* the length of the file that is received
  announced,       \* not in the code: its rest could not be cut off
  ui, after        \* where the frame loop is, and where StopMtp returns to

manager == <<m_status, m_mutex, m_is_connected, m_transfer_in_progress>>
file    == <<len, announced>>
server  == <<haze, m_session_open, file>>
loop    == <<ui, after>>
all     == <<vars, manager, server, loop>>

ServerInit ==
  /\ Init
  /\ m_status = "Stopped" /\ m_mutex = "none"
  /\ m_is_connected = FALSE /\ m_transfer_in_progress = FALSE
  /\ haze = "none" /\ m_session_open = FALSE /\ len = 0
  /\ announced = FALSE
  /\ ui = "list" /\ after = "list"

Free == m_mutex = "none"
Greatest(a, b) == IF a >= b THEN a ELSE b

-----------------------------------------------------------------------------
(* The thread of libhaze                                                    *)

(* HandleRequestImpl: a request is read as long as no stop was signalled.   *)
Request ==
  /\ haze = "idle" /\ ~stop /\ haze' = "asked"
  /\ UNCHANGED <<vars, manager, m_session_open, file, loop>>

Session(open) ==
  /\ haze = "asked" /\ Free
  /\ haze' = "idle" /\ m_session_open' = open /\ m_is_connected' = open
  /\ UNCHANGED <<vars, m_status, m_mutex, m_transfer_in_progress, file, loop>>

OpenSession  == Session(TRUE)
CloseSession == m_session_open /\ Session(FALSE)

SessionMayClose == m_session_open' = m_session_open \/ m_session_open' = FALSE

(* Anything else, and what fails: an error of USB closes the session (no    *)
(* callback), any other is answered.                                       *)
OtherRequest ==
  /\ haze = "asked" /\ haze' = "idle"
  /\ SessionMayClose
  /\ UNCHANGED <<vars, manager, file, loop>>

(* SendObject, GetObject up to the transfer                                *)
BeginFile ==
  /\ haze = "asked" /\ m_session_open /\ Free
  /\ BeginAny
  /\ haze' = "moving" /\ m_transfer_in_progress' = TRUE
  /\ len' = 0 /\ announced' = FALSE
  /\ UNCHANGED <<m_status, m_mutex, m_is_connected, m_session_open, loop>>

(* The first write to the card gives the file its whole size.               *)
WriteFile ==
  /\ haze = "moving"
  /\ Write \/ AloneWrite
  /\ \/ /\ write_offset' # write_offset /\ Free
        /\ len' = IF dir = "send" THEN len ELSE Greatest(size, write_offset')
        /\ m_transfer_in_progress' = TRUE
     \/ /\ write_offset' = write_offset
        /\ len' \in {len} \union {k \in {size} : dir = "receive" /\ write_offset = 0}
        /\ UNCHANGED m_transfer_in_progress
  /\ UNCHANGED <<m_status, m_mutex, m_is_connected, haze, m_session_open, announced, loop>>

Moving(step) ==
  haze = "moving" /\ step /\ UNCHANGED <<manager, server, loop>>

(* Mutation of EndFile: no truncation.                                      *)
EndFileUntruncated ==
  /\ haze = "moving" /\ caller = "idle" /\ Free
  /\ m_transfer_in_progress' = FALSE
  /\ haze' = "idle" /\ SessionMayClose
  /\ UNCHANGED <<vars, m_status, m_mutex, m_is_connected, file, loop>>

(* The scope exits of SendObject: the callback, then the truncation, whose  *)
(* result nobody looks at.                                                 *)
EndFile ==
  /\ haze = "moving" /\ caller = "idle" /\ Free
  /\ m_transfer_in_progress' = FALSE
  /\ IF dir = "receive" /\ write_offset < size
     THEN \/ len' = write_offset /\ UNCHANGED announced
          \/ "truncate" \in Faults /\ announced' = TRUE /\ UNCHANGED len
     ELSE UNCHANGED file
  /\ haze' = "idle" /\ SessionMayClose
  /\ UNCHANGED <<vars, m_status, m_mutex, m_is_connected, loop>>

(* LoopProcess: the next wait for USB sees the stop.                        *)
ThreadEnds ==
  /\ haze = "idle" /\ stop
  /\ haze' = "ended" /\ m_session_open' = FALSE
  /\ UNCHANGED <<vars, manager, file, loop>>

-----------------------------------------------------------------------------
(* The frame loop                                                          *)

Goto(p) == ui' = p
UiFrame == UNCHANGED <<vars, manager, server>>

EnterMtp == ui = "list" /\ Goto("mtp") /\ UiFrame /\ UNCHANGED after

(* X: ToggleMtp reads the status, then whether a file is moving.            *)
ToggleMtp ==
  /\ ui = "mtp" /\ Free
  /\ Goto(IF m_status = "Stopped" THEN "start" ELSE "toggle")
  /\ UiFrame /\ UNCHANGED after

CheckActive ==
  /\ ui = "toggle" /\ Free
  /\ Goto(IF m_transfer_in_progress THEN "ask" ELSE "stop") /\ after' = "mtp"
  /\ UiFrame

(* B: the same two questions in the other order                             *)
KeyB ==
  /\ \/ ui = "mtp" /\ Free /\ after' = "list"
        /\ Goto(IF m_transfer_in_progress THEN "ask" ELSE "back")
     \/ ui = "back" /\ Free /\ UNCHANGED after
        /\ Goto(IF m_status = "Running" THEN "stop" ELSE "list")
  /\ UiFrame

Answer == ui = "ask" /\ ui' \in {"stop", "mtp"} /\ UiFrame /\ UNCHANGED after

ResetTransferInfo == m_is_connected' = FALSE /\ m_transfer_in_progress' = FALSE

(* StartMtp holds the mutex over Initialize.                                *)
StartMtp ==
  \/ /\ ui = "start" /\ Free /\ Goto("starting")
     /\ m_mutex' = "ui" /\ m_status' = "Starting" /\ ResetTransferInfo
     /\ UNCHANGED <<vars, server, after>>
  \/ /\ ui = "starting" /\ haze = "none" /\ Goto("started")
     /\ Renew /\ haze' = "idle" /\ m_session_open' = FALSE
     /\ UNCHANGED <<manager, file, after>>
  \/ /\ ui = "started" /\ Goto("mtp")
     /\ m_status' = "Running" /\ m_mutex' = "none"
     /\ UNCHANGED <<vars, m_is_connected, m_transfer_in_progress, server, after>>

(* Mutation of StopMtp: the mutex is held until the thread is gone.         *)
StopMtpLocked ==
  /\ ui = "stop" /\ Free /\ Goto("exit")
  /\ ResetTransferInfo /\ m_status' = "Stopped" /\ m_mutex' = "ui"
  /\ UNCHANGED <<vars, server, after>>

(* StopMtp gives the mutex back before haze::Exit joins the thread, which   *)
(* may be about to take it for a callback.                                 *)
StopMtp ==
  /\ ui = "stop" /\ Free /\ Goto("exit")
  /\ ResetTransferInfo /\ m_status' = "Stopped" /\ UNCHANGED m_mutex
  /\ UNCHANGED <<vars, server, after>>

(* Mutation of Exit: the thread is signalled and not waited for.            *)
ExitDetached ==
  /\ ui = "exit" /\ Goto(after)
  /\ RequestStop /\ UNCHANGED <<manager, server, after>>

(* haze::Exit returns at once without a thread; StopMtp comes only while   *)
(* there is one.                                                           *)
Exit ==
  \/ /\ ui = "exit" /\ Goto("join")
     /\ RequestStop /\ UNCHANGED <<manager, server, after>>
  \/ /\ ui = "join" /\ haze = "ended" /\ Goto(after)
     /\ haze' = "none" /\ UNCHANGED <<vars, manager, m_session_open, file, after>>

(* The end of the program: ~MtpManager                                     *)
Quit ==
  \/ ui \in {"list", "mtp", "ask"} /\ Goto("quit") /\ UiFrame /\ UNCHANGED after
  \/ /\ ui = "quit" /\ Free /\ after' = "off"
     /\ Goto(IF m_status = "Running" THEN "stop" ELSE "off") /\ UiFrame

-----------------------------------------------------------------------------
StopSteps == CheckActive \/ StartMtp \/ StopMtp \/ Exit
             \/ (ui = "back" /\ KeyB) \/ (ui = "quit" /\ Quit)
HazeSteps == OpenSession \/ CloseSession \/ OtherRequest \/ BeginFile
             \/ EndFile \/ ThreadEnds

ServerNext ==
  \/ HazeSteps \/ Request \/ WriteFile
  \/ Moving(ReaderStep) \/ Moving(Read) \/ Moving(WriterStep)
  \/ Moving(CallerStep) \/ Moving(AloneRead)
  \/ EnterMtp \/ ToggleMtp \/ KeyB \/ Answer \/ Quit
  \/ StopSteps

(* Every thread runs and the card answers; USB is promised to answer only   *)
(* the stop, and the user's keys nothing.                                  *)
ServerFairness ==
  /\ WF_all(HazeSteps) /\ WF_all(StopSteps)
  /\ WF_all(Moving(ReaderStep)) /\ WF_all(Moving(WriterStep))
  /\ WF_all(Moving(CallerStep))
  /\ WF_all(Moving(Read /\ (dir = "send" \/ stop))) /\ WF_all(Moving(AloneRead))
  /\ WF_all(WriteFile /\ (dir = "receive" \/ stop))

ServerSpec == ServerInit /\ [][ServerNext]_all /\ ServerFairness

-----------------------------------------------------------------------------
(* Properties *)

(* Stopping returns to the frame loop, at any moment of a transfer: the     *)
(* three threads let each other go, and no callback waits for the mutex of  *)
(* a frame loop that waits for the callback's thread.                      *)
StopReturns == (ui = "stop") ~> (ui \notin {"stop", "exit", "join"})

(* What the frame loop reads under the mutex is true: while the server is   *)
(* running a file moves exactly when it is told so, and an open session is  *)
(* shown; once it was stopped its thread is gone and nothing moves.         *)
FlagsTrue ==
  /\ m_status = "Running" =>
       /\ haze \notin {"none", "ended"}
       /\ m_transfer_in_progress <=> haze = "moving"
       /\ m_session_open => m_is_connected
  /\ m_status = "Stopped" /\ ui \notin {"exit", "join"} =>
       haze = "none" /\ caller = "idle" /\ ~m_transfer_in_progress

(* Between transfers the received file ends where its data ends, whichever  *)
(* read or write failed, whether or not there were threads for it, and      *)
(* whenever it was stopped: no length announced for bytes that never came.  *)
(* It holds all the data, and more only if the card refused the truncation, *)
(* too; the code does not notice that.                                     *)
FileEndsWithData ==
  haze \in {"idle", "ended"} /\ dir = "receive" =>
    len >= write_offset /\ (len = write_offset \/ announced)

(* The bytes on the card are bytes that were received.                      *)
TruncatedToReceived ==
  haze = "idle" /\ dir = "receive" => len <= avail
=============================================================================
