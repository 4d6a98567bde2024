------------------------ MODULE BoardControllerProofs ------------------------
(***************************************************************************)
(* Type correctness of main() and its transports for every ISO size and    *)
(* every --timeout, whatever the board answers; and that exit status 0     *)
(* implies a completed board and a written log.                            *)
(***************************************************************************)
EXTENDS BoardController, SequenceTheorems, TLAPS

(* TypeOK is not inductive: ChunkAck and StatusDone increment chunk and    *)
(* clock, and stay in range only because the request they answer was      *)
(* issued under the loop conditions chunk < NumChunks and clock < Timeout. *)
IInv ==
  /\ TypeOK
  /\ req = "CHUNK" => chunk < NumChunks
  /\ req = "STATUS" => clock < Timeout
  /\ out.kind = "pending" => req # "none"

(* The board's reply to a request it carries out is a well-formed reply.  *)
LEMMA AnswerType ==
  ASSUME NEW c \in Commands, NEW n \in Nat, bstatus \in BoardStates
  PROVE  Answer(c, n) \in Reply
<1>1. CASE c = "STATUS"
  BY <1>1 DEF Answer, Reply
<1>2. CASE c = "GET_LOG"
  BY <1>2 DEF Answer, Reply
<1>3. CASE c \notin {"STATUS", "GET_LOG"}
  BY <1>3 DEF Answer, Reply
<1>. QED
  BY <1>1, <1>2, <1>3

LEMMA BoardAfterType ==
  ASSUME NEW c \in Commands, bstatus \in BoardStates
  PROVE  BoardAfter(c) \in BoardStates
<1>1. CASE c = "UPLOAD"
  BY <1>1 DEF BoardAfter, BoardStates
<1>2. CASE c = "RUN"
  BY <1>2 DEF BoardAfter, BoardStates
<1>3. CASE c \notin {"UPLOAD", "RUN"}
  BY <1>3 DEF BoardAfter
<1>. QED
  BY <1>1, <1>2, <1>3

THEOREM InitIInv == Init => IInv
<1> SUFFICES ASSUME Init PROVE IInv
  OBVIOUS
<1>1. out \in Outcome
  BY DEF Init, Outcome
<1>2. tx \in Seq([cmd : Commands, seq : Nat]) /\ rx \in Seq(Reply)
  BY EmptySeq DEF Init
<1>3. chunk \in 0..NumChunks /\ clock \in 0..Timeout
  BY ControllerAssumption DEF Init
<1>4. /\ mode \in {"http", "serial"}
      /\ pc \in {"validate", "ping", "upload", "chunks", "run", "poll", "fetch",
               "save", "exited"}
      /\ req \in Commands \cup {"none"}
      /\ port \in {"none", "open", "closed"}
      /\ success \in BOOLEAN
      /\ log \in {"none", "empty", "log"}
      /\ outLog \in {"unwritten", "none", "empty", "log"}
      /\ exitCode \in {-1, 0, 1}
      /\ sentCount \in Nat
      /\ bstatus \in BoardStates
      /\ testsFailed \in BOOLEAN
  BY DEF Init, BoardStates
<1>. QED
  BY <1>1, <1>2, <1>3, <1>4, Zenon DEF Init, IInv, TypeOK

(* Issuing a request keeps the link and the outcome well formed.           *)
LEMMA SendType ==
  ASSUME TypeOK, NEW c \in Commands, Send(c)
  PROVE  /\ req' \in Commands \cup {"none"}
         /\ out' \in Outcome
         /\ sentCount' \in Nat
         /\ tx' \in Seq([cmd : Commands, seq : Nat])
<1>0. sentCount \in Nat /\ tx \in Seq([cmd : Commands, seq : Nat])
  BY DEF TypeOK
<1>1. [cmd |-> c, seq |-> sentCount + 1] \in [cmd : Commands, seq : Nat]
  BY <1>0
<1>2. Append(tx, [cmd |-> c, seq |-> sentCount + 1]) \in Seq([cmd : Commands, seq : Nat])
  BY <1>0, <1>1, AppendProperties
<1>3. [kind |-> "pending"] \in Outcome
  BY DEF Outcome
<1>4. tx' \in Seq([cmd : Commands, seq : Nat])
  <2>1. CASE mode = "serial"
    BY <2>1, <1>2 DEF Send
  <2>2. CASE mode # "serial"
    BY <2>2, <1>0 DEF Send
  <2>. QED
    BY <2>1, <2>2
<1>5. req' \in Commands \cup {"none"} /\ out' \in Outcome /\ sentCount' \in Nat
  BY <1>0, <1>3 DEF Send
<1>. QED
  BY <1>4, <1>5

-----------------------------------------------------------------------------
(* One lemma per action: each step of main(), of a transport or of the    *)
(* board keeps IInv.                                                       *)

(* The outcomes a transport call produces.                                *)
LEMMA OutcomeIntro ==
  /\ \A k \in {"none", "pending", "timeout", "exception"} : [kind |-> k] \in Outcome
  /\ \A r \in Reply : [kind |-> "reply", reply |-> r] \in Outcome
BY Zenon DEF Outcome

LEMMA SerialTimeoutIInv == IInv /\ SerialTimeout => IInv'
<1> SUFFICES ASSUME IInv, SerialTimeout PROVE IInv'
  OBVIOUS
<1>1. out' \in Outcome
  BY OutcomeIntro DEF SerialTimeout
<1>2. out'.kind = "timeout"
  BY DEF SerialTimeout
<1>3. TypeOK'
  BY <1>1 DEF IInv, TypeOK, SerialTimeout
<1>. QED
  BY <1>2, <1>3 DEF IInv, SerialTimeout


LEMMA PingDoneIInv == IInv /\ PingDone => IInv'
BY DEF IInv, TypeOK, PingDone, Exit, Consume, Done

LEMMA ValidateIInv == IInv /\ Validate => IInv'
BY DEF IInv, TypeOK, Validate, Exit

LEMMA ConnectIInv == IInv /\ Connect => IInv'
BY DEF IInv, TypeOK, Connect, Exit

LEMMA UploadCompleteIInv == IInv /\ UploadComplete => IInv'
BY DEF IInv, TypeOK, UploadComplete

LEMMA PollTimeoutIInv == IInv /\ PollTimeout => IInv'
BY DEF IInv, TypeOK, PollTimeout, Close

LEMMA SaveIInv == IInv /\ Save => IInv'
BY DEF IInv, TypeOK, Save, Exit

(* Issuing a request keeps IInv when the loop condition of its step holds. *)
LEMMA RequestIInv ==
  ASSUME IInv, NEW phase, NEW c \in Commands, Request(phase, c),
         c = "CHUNK" => chunk < NumChunks, c = "STATUS" => clock < Timeout
  PROVE  IInv'
<1>1. /\ req' \in Commands \cup {"none"}
      /\ out' \in Outcome
      /\ sentCount' \in Nat
      /\ tx' \in Seq([cmd : Commands, seq : Nat])
  BY SendType DEF IInv, Request
<1>2. TypeOK'
  <2>1. UNCHANGED <<mode, pc, port, chunk, clock, success, log, outLog, exitCode,
                    rx, bstatus, testsFailed>>
    BY DEF Request
  <2>. QED
    BY <1>1, <2>1 DEF IInv, TypeOK
<1>3. req' = c /\ out'.kind = "pending" /\ chunk' = chunk /\ clock' = clock
  BY DEF Request, Send
<1>. QED
  BY <1>2, <1>3 DEF IInv, Commands

LEMMA SendPingIInv == IInv /\ SendPing => IInv'
BY RequestIInv DEF SendPing, Commands

LEMMA SendUploadIInv == IInv /\ SendUpload => IInv'
BY RequestIInv DEF SendUpload, Commands

LEMMA WriteChunkIInv == IInv /\ WriteChunk => IInv'
BY RequestIInv DEF WriteChunk, Commands

LEMMA SendRunIInv == IInv /\ SendRun => IInv'
BY RequestIInv DEF SendRun, Commands

LEMMA SendStatusIInv == IInv /\ SendStatus => IInv'
BY RequestIInv DEF SendStatus, Commands

(* Over serial, the request on the closed port raises before it is sent. *)
LEMMA SendGetLogIInv == IInv /\ SendGetLog => IInv'
<1> SUFFICES ASSUME IInv, SendGetLog PROVE IInv'
  OBVIOUS
<1>1. CASE Request("fetch", "GET_LOG")
  BY <1>1, RequestIInv DEF Commands
<1>2. CASE ~Request("fetch", "GET_LOG")
  BY <1>2 DEF SendGetLog, Exit, IInv, TypeOK
<1>. QED
  BY <1>1, <1>2

LEMMA UploadDoneIInv == IInv /\ UploadDone => IInv'
BY DEF IInv, TypeOK, UploadDone, UploadNext, Exit, Consume, Done

LEMMA ChunkAckIInv == IInv /\ ChunkAck => IInv'
<1> SUFFICES ASSUME IInv, ChunkAck PROVE IInv'
  OBVIOUS
<1>1. chunk < NumChunks /\ out.kind # "pending" /\ req' = "none" /\ out' = out
  BY DEF IInv, ChunkAck, Consume, Done
<1>2. CASE Got(RSP_OK)
  <2>1. chunk' = chunk + 1 /\ UNCHANGED <<pc, exitCode>>
    BY <1>2 DEF ChunkAck
  <2>. QED
    BY <1>1, <2>1, ControllerAssumption DEF IInv, TypeOK, ChunkAck
<1>3. CASE ~Got(RSP_OK)
  <2>1. exitCode' = 1 /\ pc' = "exited" /\ UNCHANGED chunk
    BY <1>3 DEF ChunkAck, Exit
  <2>. QED
    BY <1>1, <2>1 DEF IInv, TypeOK, ChunkAck
<1>. QED
  BY <1>2, <1>3

LEMMA RunDoneIInv == IInv /\ RunDone => IInv'
BY DEF IInv, TypeOK, RunDone, Exit, Consume, Done

LEMMA StatusDoneIInv == IInv /\ StatusDone => IInv'
<1> SUFFICES ASSUME IInv, StatusDone PROVE IInv'
  OBVIOUS
<1>1. clock < Timeout /\ out.kind # "pending" /\ req' = "none" /\ out' = out
  BY DEF IInv, StatusDone, Consume, Done
<1>2. CASE PolledState \in {"completed", "error"}
  <2>1. /\ success' \in BOOLEAN /\ pc' = "fetch" /\ clock' = clock
        /\ port' \in {"none", "open", "closed"}
    BY <1>2 DEF StatusDone, Close, IInv, TypeOK
  <2>. QED
    BY <1>1, <2>1 DEF IInv, TypeOK, StatusDone
<1>3. CASE PolledState \notin {"completed", "error"}
  <2>1. clock' = clock + 1 /\ UNCHANGED <<success, pc, port>>
    BY <1>3 DEF StatusDone
  <2>. QED
    BY <1>1, <2>1, ControllerAssumption DEF IInv, TypeOK, StatusDone
<1>. QED
  BY <1>2, <1>3

LEMMA LogDoneIInv == IInv /\ LogDone => IInv'
BY DEF IInv, TypeOK, LogDone, Consume, Done

LEMMA BoardFinishIInv == IInv /\ BoardFinish => IInv'
<1> SUFFICES ASSUME IInv, BoardFinish PROVE IInv'
  OBVIOUS
<1>1. bstatus' \in BoardStates /\ testsFailed' \in BOOLEAN
  BY DEF BoardFinish, BoardStates, IInv, TypeOK
<1>2. UNCHANGED <<mode, ctlVars, tx, rx, sentCount>>
  BY DEF BoardFinish
<1>. QED
  BY <1>1, <1>2 DEF IInv, TypeOK, ctlVars

LEMMA HttpExchangeIInv == IInv /\ HttpExchange => IInv'
<1> SUFFICES ASSUME IInv, HttpExchange PROVE IInv'
  OBVIOUS
<1>1. req \in Commands /\ sentCount \in Nat /\ bstatus \in BoardStates
  BY DEF IInv, TypeOK, HttpExchange
<1>2. /\ Answer(req, sentCount) \in Reply
      /\ BoardAfter(req) \in BoardStates
      /\ [code |-> RSP_ERROR, body |-> "none", for |-> sentCount] \in Reply
  BY <1>1, AnswerType, BoardAfterType DEF Reply
<1>3. out' \in Outcome /\ bstatus' \in BoardStates /\ out'.kind # "pending"
  BY <1>1, <1>2, OutcomeIntro DEF HttpExchange
<1>. QED
  BY <1>3 DEF IInv, TypeOK, HttpExchange

LEMMA SerialRecvIInv == IInv /\ SerialRecv => IInv'
<1> SUFFICES ASSUME IInv, SerialRecv PROVE IInv'
  OBVIOUS
<1>1. Head(rx) \in Reply /\ Tail(rx) \in Seq(Reply)
  BY HeadTailProperties DEF IInv, TypeOK, SerialRecv
<1>2. out' \in Outcome /\ rx' \in Seq(Reply) /\ out'.kind = "reply"
  BY <1>1, OutcomeIntro DEF SerialRecv
<1>. QED
  BY <1>2 DEF IInv, TypeOK, SerialRecv

LEMMA BoardServeIInv == IInv /\ BoardServe => IInv'
<1> SUFFICES ASSUME IInv, BoardServe PROVE IInv'
  OBVIOUS
<1>1. Head(tx) \in [cmd : Commands, seq : Nat]
      /\ Tail(tx) \in Seq([cmd : Commands, seq : Nat])
  BY HeadTailProperties DEF IInv, TypeOK, BoardServe
<1>2. /\ Answer(Head(tx).cmd, Head(tx).seq) \in Reply
      /\ BoardAfter(Head(tx).cmd) \in BoardStates
      /\ [code |-> RSP_ERROR, body |-> "none", for |-> Head(tx).seq] \in Reply
  BY <1>1, AnswerType, BoardAfterType DEF IInv, TypeOK, Reply
<1>3. rx' \in Seq(Reply) /\ bstatus' \in BoardStates
  <2>1. CASE /\ rx' = Append(rx, Answer(Head(tx).cmd, Head(tx).seq))
             /\ bstatus' = BoardAfter(Head(tx).cmd)
    BY <2>1, <1>2, AppendProperties DEF IInv, TypeOK
  <2>2. CASE /\ rx' = Append(rx, [code |-> RSP_ERROR, body |-> "none",
                                   for |-> Head(tx).seq])
             /\ UNCHANGED bstatus
    BY <2>2, <1>2, AppendProperties DEF IInv, TypeOK
  <2>. QED
    BY <2>1, <2>2 DEF BoardServe
<1>4. UNCHANGED <<mode, ctlVars, sentCount, testsFailed>>
  BY DEF BoardServe
<1>. QED
  BY <1>1, <1>3, <1>4 DEF IInv, TypeOK, BoardServe, ctlVars

LEMMA StepIInv == IInv /\ [Next]_vars => IInv'
<1> SUFFICES ASSUME IInv, [Next]_vars PROVE IInv'
  OBVIOUS
<1>1. CASE Controller
  BY <1>1, ValidateIInv, ConnectIInv, SendPingIInv, PingDoneIInv,
     SendUploadIInv, UploadDoneIInv, WriteChunkIInv, ChunkAckIInv,
     UploadCompleteIInv, SendRunIInv, RunDoneIInv, SendStatusIInv,
     StatusDoneIInv, PollTimeoutIInv, SendGetLogIInv, LogDoneIInv, SaveIInv
  DEF Controller
<1>2. CASE Transport
  BY <1>2, HttpExchangeIInv, SerialRecvIInv, SerialTimeoutIInv DEF Transport
<1>3. CASE Board
  BY <1>3, BoardServeIInv, BoardFinishIInv DEF Board
<1>4. CASE UNCHANGED vars
  BY <1>4 DEF IInv, TypeOK, vars
<1>. QED
  BY <1>1, <1>2, <1>3, <1>4 DEF Next

(***************************************************************************)
(* Whatever the board answers and whenever its replies arrive, main() and  *)
(* its transports keep every variable in its type: the chunk index stays   *)
(* within the ISO's chunks and the polling round within --timeout.         *)
(***************************************************************************)
THEOREM TypeCorrect == Spec => []TypeOK
<1>1. IInv => TypeOK
  BY DEF IInv
<1>. QED
  BY <1>1, InitIInv, StepIInv, PTL DEF Spec
-----------------------------------------------------------------------------
(***************************************************************************)
(* Exit status 0 only after a completed run.  The board's "completed" is  *)
(* the end of its life: only serving an UPLOAD or a RUN leaves it, and     *)
(* main() sends those once each, before its first STATUS, and the board    *)
(* serves the link in order.  So every "completed" seen on the link or in  *)
(* an outcome is still true when success is set and when main() exits.    *)
(***************************************************************************)

(* The RUN command is on the link to the board.                            *)
RunQueued == \E k \in 1..Len(tx) : tx[k].cmd = "RUN"

(* main() has not yet sent RUN.                                            *)
BeforeRun == pc \in {"validate", "ping", "upload", "chunks"}
             \/ (pc = "run" /\ req # "RUN")

(* The board has started the tests.                                        *)
Started == bstatus \in {"running", "completed"}

CInv ==
  /\ mode = "http" => tx = <<>> /\ rx = <<>>
  /\ req = "PING" => pc = "ping" /\ (mode = "http" \/ port = "open")
  /\ req = "UPLOAD" => pc = "upload"
  /\ req = "CHUNK" => pc = "chunks"
  /\ req = "RUN" => pc = "run"
  /\ req = "STATUS" => pc = "poll"
  /\ req = "GET_LOG" => pc = "fetch"
  /\ RunQueued => pc \in {"poll", "fetch", "save", "exited"} \/ req = "RUN"
  /\ \A j, k \in 1..Len(tx) :
       j < k /\ tx[j].cmd = "RUN" => tx[k].cmd \notin {"UPLOAD", "RUN"}
  /\ BeforeRun => ~Started
  /\ (mode = "http" /\ req = "RUN" /\ out.kind = "pending") => ~Started
  /\ Started => \A k \in 1..Len(tx) : tx[k].cmd \notin {"UPLOAD", "RUN"}
  /\ \A k \in 1..Len(rx) : rx[k].body = "completed" => bstatus = "completed"
  /\ (out.kind = "reply" /\ out.reply.body = "completed") => bstatus = "completed"
  /\ success => bstatus = "completed"
  /\ exitCode = 0 => pc = "exited" /\ bstatus = "completed" /\ outLog # "unwritten"

LEMMA InitCInv == Init => CInv
BY DEF Init, CInv, RunQueued, BeforeRun, Started

(* The steps of main() that neither write to the link nor reach the board  *)
(* keep CInv: they only move pc forward and consume the outcome.           *)
LEMMA ValidateCInv == IInv /\ CInv /\ Validate => CInv'
BY DEF IInv, TypeOK, CInv, Validate, Exit, RunQueued, BeforeRun, Started

LEMMA ConnectCInv == IInv /\ CInv /\ Connect => CInv'
BY DEF IInv, TypeOK, CInv, Connect, Exit, RunQueued, BeforeRun, Started

LEMMA PingDoneCInv == IInv /\ CInv /\ PingDone => CInv'
BY DEF IInv, TypeOK, CInv, PingDone, Exit, Consume, Done, RunQueued,
       BeforeRun, Started

LEMMA UploadDoneCInv == IInv /\ CInv /\ UploadDone => CInv'
BY DEF IInv, TypeOK, CInv, UploadDone, UploadNext, Exit, Consume, Done, RunQueued,
       BeforeRun, Started

LEMMA ChunkAckCInv == IInv /\ CInv /\ ChunkAck => CInv'
BY DEF IInv, TypeOK, CInv, ChunkAck, Exit, Consume, Done, RunQueued,
       BeforeRun, Started

LEMMA UploadCompleteCInv == IInv /\ CInv /\ UploadComplete => CInv'
BY DEF IInv, TypeOK, CInv, UploadComplete, RunQueued, BeforeRun, Started

LEMMA RunDoneCInv == IInv /\ CInv /\ RunDone => CInv'
BY DEF IInv, TypeOK, CInv, RunDone, Exit, Consume, Done, RunQueued,
       BeforeRun, Started

LEMMA PollTimeoutCInv == IInv /\ CInv /\ PollTimeout => CInv'
BY DEF IInv, TypeOK, CInv, PollTimeout, Close, RunQueued, BeforeRun, Started

LEMMA LogDoneCInv == IInv /\ CInv /\ LogDone => CInv'
<1> SUFFICES ASSUME IInv, CInv, LogDone PROVE CInv'
  OBVIOUS
<1>1. /\ req' = "none" /\ pc' = "save" /\ out' = out
      /\ UNCHANGED <<mode, port, success, outLog, exitCode, tx, rx, bstatus>>
  BY DEF LogDone, Consume
<1>2. req = "GET_LOG" /\ pc = "fetch"
  BY DEF LogDone, CInv
<1>3. RunQueued' = RunQueued /\ Started' = Started /\ ~BeforeRun'
  BY <1>1 DEF RunQueued, Started, BeforeRun
<1>. QED
  BY <1>1, <1>2, <1>3 DEF CInv

(* save_log then sys.exit(0 if success else 1): success was set only from  *)
(* a "completed" reply, and the log is written first.                      *)
LEMMA SaveCInv == IInv /\ CInv /\ Save => CInv'
BY DEF IInv, TypeOK, CInv, Save, Exit, RunQueued, BeforeRun, Started

(* success is set from the polled state; "completed" in the outcome means  *)
(* the board is completed.                                                 *)
LEMMA StatusDoneCInv == IInv /\ CInv /\ StatusDone => CInv'
BY DEF IInv, TypeOK, CInv, StatusDone, Close, Consume, Done, PolledState,
       Got, RunQueued, BeforeRun, Started

(* A request is issued in its own phase of main(), with none in flight.    *)
(* UPLOAD and RUN are issued before the board has started, so they go on   *)
(* the link before any RUN, and nothing after a queued RUN is one of them. *)
LEMMA RequestCInv ==
  ASSUME IInv, CInv, NEW phase, NEW c \in Commands, Request(phase, c),
         c = "PING" => phase = "ping" /\ (mode = "http" \/ port = "open"),
         c = "UPLOAD" => phase = "upload", c = "CHUNK" => phase = "chunks",
         c = "RUN" => phase = "run", c = "STATUS" => phase = "poll",
         c = "GET_LOG" => phase = "fetch"
  PROVE  CInv'
<1> DEFINE m == [cmd |-> c, seq |-> sentCount + 1]
<1>1. /\ pc = phase /\ req = "none" /\ req' = c /\ out'.kind = "pending"
      /\ UNCHANGED <<mode, pc, port, success, outLog, exitCode, rx, bstatus>>
  BY DEF Request, Send
<1>2. tx' = IF mode = "serial" THEN Append(tx, m) ELSE tx
  BY DEF Request, Send
<1>3. tx \in Seq([cmd : Commands, seq : Nat]) /\ mode \in {"http", "serial"}
  BY DEF IInv, TypeOK
<1>0. phase \in {"ping", "upload", "chunks", "run", "poll", "fetch"}
  BY DEF Commands
<1>4. exitCode # 0
  BY <1>0, <1>1 DEF CInv
<1>5. RunQueued => pc \in {"poll", "fetch", "save", "exited"}
  BY <1>1 DEF CInv
<1>6. c \in {"UPLOAD", "RUN"} => BeforeRun /\ ~Started /\ ~RunQueued
  BY <1>1, <1>5 DEF CInv, BeforeRun
<1>7. CASE mode = "serial"
  <2>1. tx' = Append(tx, m) /\ Len(tx') = Len(tx) + 1
        /\ \A k \in 1..Len(tx) : tx'[k] = tx[k]
        /\ tx'[Len(tx) + 1] = m
    BY <1>2, <1>3, <1>7, AppendProperties
  <2>2. RunQueued' => RunQueued \/ c = "RUN"
    BY <2>1 DEF RunQueued
  <2>3. \A j, k \in 1..Len(tx') :
          j < k /\ tx'[j].cmd = "RUN" => tx'[k].cmd \notin {"UPLOAD", "RUN"}
    BY <2>1, <1>6, <1>3 DEF CInv, RunQueued
  <2>4. Started => \A k \in 1..Len(tx') : tx'[k].cmd \notin {"UPLOAD", "RUN"}
    BY <2>1, <1>6, <1>3 DEF CInv
  <2>. QED
    BY <1>0, <1>1, <1>4, <1>5, <1>6, <1>7, <2>2, <2>3, <2>4
    DEF CInv, RunQueued, BeforeRun, Started
<1>8. CASE mode = "http"
  BY <1>0, <1>1, <1>2, <1>4, <1>5, <1>6, <1>8 DEF CInv, RunQueued, BeforeRun, Started
<1>. QED
  BY <1>3, <1>7, <1>8

LEMMA SendPingCInv == IInv /\ CInv /\ SendPing => CInv'
BY RequestCInv DEF SendPing, Commands

LEMMA SendUploadCInv == IInv /\ CInv /\ SendUpload => CInv'
BY RequestCInv DEF SendUpload, Commands

LEMMA WriteChunkCInv == IInv /\ CInv /\ WriteChunk => CInv'
BY RequestCInv DEF WriteChunk, Commands

LEMMA SendRunCInv == IInv /\ CInv /\ SendRun => CInv'
BY RequestCInv DEF SendRun, Commands

LEMMA SendStatusCInv == IInv /\ CInv /\ SendStatus => CInv'
BY RequestCInv DEF SendStatus, Commands

LEMMA SendGetLogCInv == IInv /\ CInv /\ SendGetLog => CInv'
<1> SUFFICES ASSUME IInv, CInv, SendGetLog PROVE CInv'
  OBVIOUS
<1>1. CASE Request("fetch", "GET_LOG")
  BY <1>1, RequestCInv DEF Commands
<1>2. CASE ~Request("fetch", "GET_LOG")
  BY <1>2 DEF SendGetLog, Exit, IInv, TypeOK, CInv, RunQueued, BeforeRun,
              Started
<1>. QED
  BY <1>1, <1>2

LEMMA SerialTimeoutCInv == IInv /\ CInv /\ SerialTimeout => CInv'
<1> SUFFICES ASSUME CInv, SerialTimeout PROVE CInv'
  OBVIOUS
<1>1. /\ out'.kind = "timeout"
      /\ UNCHANGED <<mode, pc, req, port, success, outLog, exitCode, tx, rx,
                     bstatus>>
  BY DEF SerialTimeout
<1>2. RunQueued' = RunQueued /\ Started' = Started /\ BeforeRun' = BeforeRun
  BY <1>1 DEF RunQueued, Started, BeforeRun
<1>. QED
  BY <1>1, <1>2 DEF CInv

(* read() hands over the first reply on the link; any "completed" in it is *)
(* the board's state.                                                      *)
LEMMA SerialRecvCInv == IInv /\ CInv /\ SerialRecv => CInv'
<1> SUFFICES ASSUME IInv, CInv, SerialRecv PROVE CInv'
  OBVIOUS
<1>1. rx \in Seq(Reply) /\ rx # <<>>
  BY DEF IInv, TypeOK, SerialRecv
<1>2. /\ out'.reply = rx[1] /\ out'.kind = "reply"
      /\ rx' = Tail(rx) /\ Len(rx') = Len(rx) - 1
      /\ \A k \in 1..Len(rx') : rx'[k] = rx[k + 1]
  BY <1>1, HeadTailProperties DEF SerialRecv
<1>3. UNCHANGED <<mode, pc, req, port, success, outLog, exitCode, tx, bstatus>>
  BY DEF SerialRecv
<1>4. \A k \in 1..Len(rx') : rx'[k].body = "completed" => bstatus' = "completed"
  BY <1>1, <1>2, <1>3 DEF CInv
<1>5. out'.reply.body = "completed" => bstatus' = "completed"
  BY <1>1, <1>2, <1>3 DEF CInv
<1>6. RunQueued' = RunQueued /\ Started' = Started /\ BeforeRun' = BeforeRun
  BY <1>3 DEF RunQueued, Started, BeforeRun
<1>. QED
  BY <1>2, <1>3, <1>4, <1>5, <1>6 DEF CInv

(* HTTP: the board answers the request in flight at once.  UPLOAD and RUN  *)
(* find the board not yet started; a STATUS answer is its current state.   *)
LEMMA HttpExchangeCInv == IInv /\ CInv /\ HttpExchange => CInv'
<1> SUFFICES ASSUME IInv, CInv, HttpExchange PROVE CInv'
  OBVIOUS
<1>1. /\ mode = "http" /\ tx = <<>> /\ rx = <<>> /\ out.kind = "pending"
      /\ req \in Commands
  BY DEF IInv, TypeOK, CInv, HttpExchange
<1>2. UNCHANGED <<mode, pc, req, port, success, outLog, exitCode, tx, rx>>
  BY DEF HttpExchange
<1>3. req \in {"UPLOAD", "RUN"} => ~Started
  BY <1>1 DEF CInv, BeforeRun
<1>4. ~Started => ~success /\ exitCode # 0
  BY DEF CInv, Started
<1>5. CASE /\ out' = [kind |-> "reply", reply |-> Answer(req, sentCount)]
           /\ bstatus' = BoardAfter(req)
  <2>1. CASE req = "STATUS"
    BY <1>1, <1>2, <1>5, <2>1 DEF CInv, Answer, BoardAfter, RunQueued,
                                  BeforeRun, Started
  <2>2. CASE req \in {"UPLOAD", "RUN"}
    BY <1>1, <1>2, <1>3, <1>4, <1>5, <2>2 DEF CInv, Answer, BoardAfter,
                                          RunQueued, BeforeRun, Started
  <2>3. CASE req \in {"PING", "CHUNK", "GET_LOG"}
    BY <1>1, <1>2, <1>5, <2>3 DEF CInv, Answer, BoardAfter, RunQueued,
                                  BeforeRun, Started
  <2>. QED
    BY <1>1, <2>1, <2>2, <2>3 DEF Commands
<1>6. CASE /\ out' = [kind |-> "reply",
                      reply |-> [code |-> RSP_ERROR, body |-> "none", for |-> sentCount]]
           /\ UNCHANGED bstatus
  BY <1>1, <1>2, <1>6 DEF CInv, RunQueued, BeforeRun, Started
<1>7. CASE out' = [kind |-> "exception"] /\ UNCHANGED bstatus
  BY <1>1, <1>2, <1>7 DEF CInv, RunQueued, BeforeRun, Started
<1>. QED
  BY <1>5, <1>6, <1>7 DEF HttpExchange

(* The tests end.  Only a running board finishes, and nothing on the link  *)
(* or in main() claims "completed" before they do.                         *)
LEMMA BoardFinishCInv == IInv /\ CInv /\ BoardFinish => CInv'
<1> SUFFICES ASSUME IInv, CInv, BoardFinish PROVE CInv'
  OBVIOUS
<1>1. bstatus = "running" /\ bstatus' \in {"completed", "error"}
  BY DEF BoardFinish
<1>2. UNCHANGED <<mode, pc, req, out, port, success, outLog, exitCode, tx, rx>>
  BY DEF BoardFinish, ctlVars
<1>3. /\ ~BeforeRun
      /\ ~(mode = "http" /\ req = "RUN" /\ out.kind = "pending")
      /\ \A k \in 1..Len(tx) : tx[k].cmd \notin {"UPLOAD", "RUN"}
  BY <1>1 DEF CInv, Started
<1>4. /\ \A k \in 1..Len(rx) : rx[k].body # "completed"
      /\ ~(out.kind = "reply" /\ out.reply.body = "completed")
      /\ ~success /\ exitCode # 0
  BY <1>1 DEF CInv
<1>. QED
  BY <1>2, <1>3, <1>4 DEF CInv, RunQueued, BeforeRun, Started

(* The board serves the first request on the link.  A RUN is served only  *)
(* before the board started and with no UPLOAD or RUN behind it; an        *)
(* UPLOAD only before it started; any other request leaves its state, and  *)
(* a STATUS reply carries that state.                                      *)
LEMMA BoardServeCInv == IInv /\ CInv /\ BoardServe => CInv'
<1> SUFFICES ASSUME IInv, CInv, BoardServe PROVE CInv'
  OBVIOUS
<1> DEFINE h == Head(tx)
<1>1. /\ mode = "serial" /\ tx \in Seq([cmd : Commands, seq : Nat]) /\ tx # <<>>
      /\ rx \in Seq(Reply) /\ h = tx[1] /\ h.cmd \in Commands
  <2>1. /\ mode = "serial" /\ tx \in Seq([cmd : Commands, seq : Nat]) /\ tx # <<>>
        /\ rx \in Seq(Reply)
    BY DEF IInv, TypeOK, BoardServe
  <2>2. h \in [cmd : Commands, seq : Nat]
    BY <2>1, HeadTailProperties
  <2>3. h = tx[1]
    BY <2>1
  <2>4. h.cmd \in Commands
    BY <2>2
  <2>. QED
    BY <2>1, <2>3, <2>4
<1>2. /\ tx' = Tail(tx) /\ Len(tx') = Len(tx) - 1
      /\ \A k \in 1..Len(tx') : tx'[k] = tx[k + 1]
  BY <1>1, HeadTailProperties DEF BoardServe
<1>3. UNCHANGED <<mode, pc, req, out, port, success, outLog, exitCode>>
  BY DEF BoardServe, ctlVars
<1>4. RunQueued' => RunQueued
  BY <1>1, <1>2 DEF RunQueued
<1>5. \A j, k \in 1..Len(tx') :
        j < k /\ tx'[j].cmd = "RUN" => tx'[k].cmd \notin {"UPLOAD", "RUN"}
  BY <1>1, <1>2 DEF CInv
<1>6. /\ \A k \in 1..Len(tx') : tx[k + 1] = tx'[k]
      /\ h.cmd = "RUN" => \A k \in 1..Len(tx') : tx'[k].cmd \notin {"UPLOAD", "RUN"}
  BY <1>1, <1>2 DEF CInv
<1>7. h.cmd \in {"UPLOAD", "RUN"} => ~Started
  BY <1>1 DEF CInv
<1>8. ~Started => /\ \A k \in 1..Len(rx) : rx[k].body # "completed"
                  /\ ~(out.kind = "reply" /\ out.reply.body = "completed")
                  /\ ~success /\ exitCode # 0
  BY DEF CInv, Started
<1>9. h.cmd = "RUN" => ~BeforeRun
  BY <1>1 DEF CInv, RunQueued, BeforeRun
<1>10. Started => \A k \in 1..Len(tx') : tx'[k].cmd \notin {"UPLOAD", "RUN"}
  BY <1>1, <1>2 DEF CInv
<1> DEFINE a == Answer(h.cmd, h.seq)
<1>11. CASE rx' = Append(rx, a) /\ bstatus' = BoardAfter(h.cmd)
  <2>1. /\ Len(rx') = Len(rx) + 1 /\ rx'[Len(rx) + 1] = a
        /\ \A k \in 1..Len(rx) : rx'[k] = rx[k]
    BY <1>1, <1>11, AppendProperties
  <2>2. CASE h.cmd = "RUN"
    <3>1. bstatus' = "running" /\ a.body = "none"
      BY <1>11, <2>2 DEF BoardAfter, Answer
    <3>2. \A k \in 1..Len(rx') : rx'[k].body # "completed"
      BY <1>7, <1>8, <2>1, <2>2, <3>1
    <3>3. \A k \in 1..Len(tx') : tx'[k].cmd \notin {"UPLOAD", "RUN"}
      BY <1>6, <2>2
    <3>4. ~BeforeRun' /\ ~success' /\ exitCode' # 0
          /\ ~(out'.kind = "reply" /\ out'.reply.body = "completed")
      BY <1>3, <1>7, <1>8, <1>9, <2>2 DEF BeforeRun
    <3>. QED
      BY <1>1, <1>2, <1>3, <1>4, <1>5, <3>1, <3>2, <3>3, <3>4
      DEF CInv, Started, RunQueued
  <2>3. CASE h.cmd = "UPLOAD"
    <3>1. bstatus' = "uploading" /\ a.body = "none"
      BY <1>11, <2>3 DEF BoardAfter, Answer
    <3>2. \A k \in 1..Len(rx') : rx'[k].body # "completed"
      BY <1>7, <1>8, <2>1, <2>3, <3>1
    <3>. QED
      BY <1>1, <1>2, <1>3, <1>4, <1>5, <1>7, <1>8, <2>3, <3>1, <3>2
      DEF CInv, Started, BeforeRun, RunQueued
  <2>4. CASE h.cmd \notin {"UPLOAD", "RUN"}
    <3>1. bstatus' = bstatus /\ (a.body = "completed" => bstatus = "completed")
      BY <1>11, <2>4 DEF BoardAfter, Answer
    <3>2. \A k \in 1..Len(rx') : rx'[k].body = "completed" => bstatus' = "completed"
      BY <2>1, <3>1 DEF CInv
    <3>. QED
      BY <1>1, <1>2, <1>3, <1>4, <1>5, <1>10, <3>1, <3>2
      DEF CInv, Started, BeforeRun, RunQueued
  <2>. QED
    BY <2>2, <2>3, <2>4
<1>12. CASE /\ rx' = Append(rx, [code |-> RSP_ERROR, body |-> "none", for |-> h.seq])
            /\ UNCHANGED bstatus
  <2>1. /\ Len(rx') = Len(rx) + 1 /\ rx'[Len(rx) + 1].body = "none"
        /\ \A k \in 1..Len(rx) : rx'[k] = rx[k]
    BY <1>1, <1>12, AppendProperties
  <2>2. ASSUME NEW k \in 1..Len(rx'), rx'[k].body = "completed"
        PROVE  bstatus' = "completed"
    <3>1. k \in 1..Len(rx)
      BY <1>1, <2>1, <2>2
    <3>2. rx[k].body = "completed"
      BY <2>1, <2>2, <3>1
    <3>3. bstatus = "completed"
      BY <3>1, <3>2 DEF CInv
    <3>. QED
      BY <1>12, <3>3
  <2>3. Started' = Started /\ BeforeRun' = BeforeRun
    BY <1>3, <1>12 DEF Started, BeforeRun
  <2>. QED
    BY <1>1, <1>3, <1>4, <1>5, <1>10, <1>12, <2>2, <2>3 DEF CInv
<1>. QED
  BY <1>11, <1>12 DEF BoardServe

LEMMA StepCInv == IInv /\ CInv /\ [Next]_vars => CInv'
<1> SUFFICES ASSUME IInv, CInv, [Next]_vars PROVE CInv'
  OBVIOUS
<1>1. CASE Controller
  BY <1>1, ValidateCInv, ConnectCInv, SendPingCInv, PingDoneCInv,
     SendUploadCInv, UploadDoneCInv, WriteChunkCInv, ChunkAckCInv,
     UploadCompleteCInv, SendRunCInv, RunDoneCInv, SendStatusCInv,
     StatusDoneCInv, PollTimeoutCInv, SendGetLogCInv, LogDoneCInv, SaveCInv
  DEF Controller
<1>2. CASE Transport
  BY <1>2, HttpExchangeCInv, SerialRecvCInv, SerialTimeoutCInv DEF Transport
<1>3. CASE Board
  BY <1>3, BoardServeCInv, BoardFinishCInv DEF Board
<1>4. CASE UNCHANGED vars
  BY <1>4 DEF CInv, vars, RunQueued, BeforeRun, Started
<1>. QED
  BY <1>1, <1>2, <1>3, <1>4 DEF Next

(***************************************************************************)
(* For every ISO size and every --timeout, on both transports, whatever    *)
(* the board answers and however late: main() exits with status 0 only    *)
(* when the board is in "completed" and the log file has been written.     *)
(* No stale STATUS reply, refused request or timeout makes a run that is   *)
(* still going, failed or timed out exit 0.                                *)
(***************************************************************************)
THEOREM ExitZeroSound == Spec => []ExitZeroOnlyIfCompleted
<1>1. Init => IInv /\ CInv
  BY InitIInv, InitCInv
<1>2. IInv /\ CInv /\ [Next]_vars => IInv' /\ CInv'
  BY StepIInv, StepCInv
<1>3. CInv => ExitZeroOnlyIfCompleted
  BY DEF CInv, ExitZeroOnlyIfCompleted
<1>. QED
  BY <1>1, <1>2, <1>3, PTL DEF Spec
-----------------------------------------------------------------------------
(***************************************************************************)
(* A chunk only after an OK.  The for loop over the chunks writes the next *)
(* chunk when the previous read has been consumed, and ChunkAck and        *)
(* UploadDone stay in the loop only on RSP_OK; the outcome they tested is  *)
(* still there when the next chunk is written, because only a request     *)
(* changes it while no request is outstanding.                             *)
(***************************************************************************)
AckInv == pc = "chunks" /\ req = "none" => Got(RSP_OK)

LEMMA InitAckInv == Init => AckInv
BY DEF Init, AckInv

LEMMA StepAckInv == IInv /\ CInv /\ AckInv /\ [Next]_vars => AckInv'
<1> SUFFICES ASSUME IInv, CInv, AckInv, [Next]_vars PROVE AckInv'
  OBVIOUS
<1>1. CASE UploadDone
  BY <1>1 DEF UploadDone, UploadNext, Consume, Exit, AckInv, Got
<1>2. CASE ChunkAck
  BY <1>2 DEF ChunkAck, Consume, Exit, AckInv, Got
<1>3. CASE SendPing \/ SendUpload \/ WriteChunk \/ SendRun \/ SendStatus
  BY <1>3 DEF SendPing, SendUpload, WriteChunk, SendRun, SendStatus, Request,
              Send, AckInv
<1>4. CASE SendGetLog
  BY <1>4 DEF SendGetLog, Request, Send, Exit, AckInv
<1>5. CASE PingDone \/ RunDone \/ StatusDone \/ LogDone
  BY <1>5 DEF PingDone, RunDone, StatusDone, LogDone, Consume, Exit, CInv,
              AckInv
<1>6. CASE Validate \/ Connect \/ UploadComplete \/ PollTimeout \/ Save
  BY <1>6 DEF Validate, Connect, UploadComplete, PollTimeout, Save, Exit,
              AckInv
<1>7. CASE Transport
  BY <1>7 DEF Transport, HttpExchange, SerialRecv, SerialTimeout, IInv, AckInv
<1>8. CASE Board
  BY <1>8 DEF Board, BoardServe, BoardFinish, ctlVars, AckInv, Got
<1>9. CASE UNCHANGED vars
  BY <1>9 DEF vars, AckInv, Got
<1>. QED
  BY <1>1, <1>2, <1>3, <1>4, <1>5, <1>6, <1>7, <1>8, <1>9 DEF Next, Controller

(* Only WriteChunk issues a CHUNK, and it does so with no request pending. *)
LEMMA ChunkStep ==
  ASSUME AckInv, [Next]_vars, req = "none", req' = "CHUNK"
  PROVE  Got(RSP_OK)
<1>1. CASE WriteChunk
  BY <1>1 DEF WriteChunk, Request, AckInv
<1>2. CASE Controller /\ ~WriteChunk
  BY <1>2 DEF Controller, Validate, Connect, SendPing, PingDone, SendUpload,
              UploadDone, ChunkAck, UploadComplete, SendRun, RunDone,
              SendStatus, StatusDone, PollTimeout, SendGetLog, LogDone, Save,
              Request, Send, Consume
<1>3. CASE Transport \/ Board \/ UNCHANGED vars
  BY <1>3 DEF Transport, HttpExchange, SerialRecv, SerialTimeout, Board,
              BoardServe, BoardFinish, ctlVars, vars
<1>. QED
  BY <1>1, <1>2, <1>3 DEF Next

(***************************************************************************)
(* For every ISO size and --timeout, on both transports and whatever the   *)
(* board answers: the upload loop writes a chunk only right after an       *)
(* RSP_OK for the UPLOAD command or for the previous chunk; after a bad or *)
(* missing ack no chunk is written.                                        *)
(***************************************************************************)
THEOREM ChunkAfterOk == Spec => ChunkOnlyAfterOk
<1>1. Init => IInv /\ CInv /\ AckInv
  BY InitIInv, InitCInv, InitAckInv
<1>2. IInv /\ CInv /\ AckInv /\ [Next]_vars => IInv' /\ CInv' /\ AckInv'
  BY StepIInv, StepCInv, StepAckInv
<1>3. AckInv /\ [Next]_vars => [(req = "none" /\ req' = "CHUNK") => Got(RSP_OK)]_vars
  BY ChunkStep
<1>. QED
  BY <1>1, <1>2, <1>3, PTL DEF Spec, ChunkOnlyAfterOk
=============================================================================
