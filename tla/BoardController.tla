--------------------------- MODULE BoardController ---------------------------
(***************************************************************************)
(* main() of rpi-test-controller.py driving a test board through one of    *)
(* its two transports, and the board at the other end.                     *)
(*   - HTTP: every operation is one request that returns a response or     *)
(*     raises (requests' own timeouts bound it);                           *)
(*   - serial: send_command writes  [CMD][LEN:4][DATA]  and reads the      *)
(*     reply with a 1 s read timeout; the chunked upload writes raw chunks *)
(*     and reads a 1-byte ack after each.                                  *)
(* A command is named by the CMD_ constant it stands for and a reply keeps *)
(* its RSP_ code; payload bytes are abstracted to what the controller      *)
(* reads from them (the status name, "a log").  The board is the           *)
(* environment: its firmware is not in this repository, so it may answer   *)
(* each command, refuse it, or answer after the controller stopped         *)
(* waiting, in any order with its own progress.                            *)
(***************************************************************************)
EXTENDS Integers, Sequences

CONSTANTS NumChunks,  \* total_chunks of the ISO, (len + 64K - 1) // 64K
          Timeout     \* --timeout, in polling rounds of one second

ASSUME ControllerAssumption == NumChunks \in Nat /\ Timeout \in Nat

RSP_OK     == 16
RSP_ERROR  == 17
RSP_BUSY   == 18
RSP_DATA   == 19
RSP_STATUS == 20

Commands == {"PING", "UPLOAD", "CHUNK", "RUN", "STATUS", "GET_LOG"}

(* The states of STATUS_NAMES.                                             *)
BoardStates == {"idle", "uploading", "flashing", "booting", "running",
                "completed", "error"}

(* What a reply carries: its code, the state or log it holds, and (ghost)  *)
(* the number of the request the board sent it for.                        *)
Reply == [code : {RSP_OK, RSP_ERROR, RSP_BUSY, RSP_DATA, RSP_STATUS},
          body : BoardStates \cup {"log", "none"}, for : Nat]

(* The outcome of the last transport call, as the caller sees it.          *)
Outcome == [kind : {"none", "pending", "timeout", "exception"}]
             \cup [kind : {"reply"}, reply : Reply]

VARIABLES mode,       \* args.mode
          pc,         \* the controller's place in main()
          req,        \* the request in flight, "none" between calls
          out,        \* the Outcome of that request
          port,       \* self.serial: "none", "open", or closed after close()
          chunk,      \* chunks acknowledged so far
          clock,      \* rounds of the polling loop spent
          success,    \* the success flag of wait_for_completion
          log,        \* the uart_log it returned: "none", "empty" (the empty string) or the board's log
          outLog,     \* what was written to args.output, "unwritten" before
          exitCode,   \* -1 while running
          tx, rx,     \* serial link: bytes to the board, bytes from it
          sentCount,  \* requests the controller has issued (ghost)
          bstatus,    \* the board's state
          testsFailed \* the tests on the board reported a failure (ghost)

vars == <<mode, pc, req, out, port, chunk, clock, success, log, outLog,
          exitCode, tx, rx, sentCount, bstatus, testsFailed>>

ctlVars == <<pc, req, out, port, chunk, clock, success, log, outLog, exitCode>>

Init ==
  /\ mode \in {"http", "serial"}
  /\ pc = "validate"
  /\ req = "none"
  /\ out = [kind |-> "none"]
  /\ port = "none"
  /\ chunk = 0
  /\ clock = 0
  /\ success = FALSE
  /\ log = "none"
  /\ outLog = "unwritten"
  /\ exitCode = -1
  /\ tx = <<>> /\ rx = <<>>
  /\ sentCount = 0
  /\ bstatus = "idle"
  /\ testsFailed = FALSE

Got(code) == out.kind = "reply" /\ out.reply.code = code

(* sys.exit(c), or an uncaught exception (status 1).                      *)
Exit(c) == pc' = "exited" /\ exitCode' = c

(* A request of the controller: serial.write of the packet or of a chunk,  *)
(* or the HTTP call.                                                       *)
Send(c) ==
  /\ req' = c
  /\ out' = [kind |-> "pending"]
  /\ sentCount' = sentCount + 1
  /\ tx' = IF mode = "serial" THEN Append(tx, [cmd |-> c, seq |-> sentCount + 1])
           ELSE tx

(* The caller has the outcome of its request and goes on.                  *)
Done == out.kind \in {"reply", "timeout", "exception"}

(* The outcome stays visible until the next request.                    *)
Consume == req' = "none" /\ UNCHANGED out

(* close(): the port is closed but self.serial still refers to it.         *)
Close == port' = IF port = "open" THEN "closed" ELSE port

-----------------------------------------------------------------------------
(* The board (environment).                                                *)

(* The reply the board gives to a request it carries out.                  *)
Answer(c, n) ==
  [code |-> CASE c = "STATUS"  -> RSP_STATUS
              [] c = "GET_LOG" -> RSP_DATA
              [] OTHER         -> RSP_OK,
   body |-> CASE c = "STATUS"  -> bstatus
              [] c = "GET_LOG" -> "log"
              [] OTHER         -> "none",
   for  |-> n]

(* What carrying out a request does to the board.                          *)
BoardAfter(c) == CASE c = "UPLOAD" -> "uploading"
                   [] c = "RUN"    -> "running"
                   [] OTHER        -> bstatus

(* The board reads the next request off the link and answers it, or       *)
(* refuses it (busy, error); the answer may come after the controller has  *)
(* stopped waiting for it.                                                 *)
BoardServe ==
  /\ mode = "serial"
  /\ tx # <<>>
  /\ tx' = Tail(tx)
  /\ \/ /\ rx' = Append(rx, Answer(Head(tx).cmd, Head(tx).seq))
        /\ bstatus' = BoardAfter(Head(tx).cmd)
     \/ /\ rx' = Append(rx, [code |-> RSP_ERROR, body |-> "none", for |-> Head(tx).seq])
        /\ UNCHANGED bstatus
  /\ UNCHANGED <<mode, ctlVars, sentCount, testsFailed>>

(* The tests on the Raspberry Pi end: completed (some may have failed), or *)
(* the board reports an error.                                             *)
BoardFinish ==
  /\ bstatus = "running"
  /\ \/ bstatus' = "completed" /\ testsFailed' \in BOOLEAN
     \/ bstatus' = "error" /\ UNCHANGED testsFailed
  /\ UNCHANGED <<mode, ctlVars, tx, rx, sentCount>>

-----------------------------------------------------------------------------
(* Transports.                                                             *)

(* An HTTP call returns: the board's answer (status 200), another status  *)
(* (the board refuses), or requests raises (connection error, timeout).    *)
HttpExchange ==
  /\ mode = "http"
  /\ out.kind = "pending"
  /\ \/ /\ out' = [kind |-> "reply", reply |-> Answer(req, sentCount)]
        /\ bstatus' = BoardAfter(req)
     \/ /\ out' = [kind |-> "reply",
                    reply |-> [code |-> RSP_ERROR, body |-> "none", for |-> sentCount]]
        /\ UNCHANGED bstatus
     \/ /\ out' = [kind |-> "exception"]
        /\ UNCHANGED bstatus
  /\ UNCHANGED <<mode, pc, req, port, chunk, clock, success, log, outLog,
                 exitCode, tx, rx, sentCount, testsFailed>>

(* serial.read returns the bytes of the next reply on the link.           *)
SerialRecv ==
  /\ mode = "serial"
  /\ out.kind = "pending"
  /\ rx # <<>>
  /\ out' = [kind |-> "reply", reply |-> Head(rx)]
  /\ rx' = Tail(rx)
  /\ UNCHANGED <<mode, pc, req, port, chunk, clock, success, log, outLog,
                 exitCode, tx, sentCount, bstatus, testsFailed>>

(* Mutation: the port is opened with timeout=None, so read blocks until   *)
(* a byte arrives.                                                         *)
SerialTimeoutNever == FALSE

(* The 1 s read timeout expires with nothing received: read returns b''.  *)
SerialTimeout ==
  /\ mode = "serial"
  /\ out.kind = "pending"
  /\ rx = <<>>
  /\ out' = [kind |-> "timeout"]
  /\ UNCHANGED <<mode, pc, req, port, chunk, clock, success, log, outLog,
                 exitCode, tx, rx, sentCount, bstatus, testsFailed>>

-----------------------------------------------------------------------------
(* The controller: main() with the calls it makes.                        *)

(* Missing --endpoint or --port, or no ISO file: exit 1.                   *)
Validate ==
  /\ pc = "validate"
  /\ \/ pc' = "ping" /\ UNCHANGED exitCode
     \/ Exit(1)
  /\ UNCHANGED <<mode, req, out, port, chunk, clock, success, log, outLog,
                 tx, rx, sentCount, bstatus, testsFailed>>

(* SerialController.ping first opens the port; a failure returns False.   *)
Connect ==
  /\ pc = "ping"
  /\ mode = "serial"
  /\ port = "none"
  /\ \/ port' = "open" /\ UNCHANGED <<pc, exitCode>>
     \/ Exit(1) /\ UNCHANGED port
  /\ UNCHANGED <<mode, req, out, chunk, clock, success, log, outLog,
                 tx, rx, sentCount, bstatus, testsFailed>>

(* The controller issues the request of its current step.                 *)
Request(phase, c) ==
  /\ pc = phase
  /\ req = "none"
  /\ Send(c)
  /\ UNCHANGED <<mode, pc, port, chunk, clock, success, log, outLog, exitCode,
                 rx, bstatus, testsFailed>>

SendPing == (mode = "http" \/ port = "open") /\ Request("ping", "PING")

(* ping() is True only on RSP_OK (HTTP: status 200); otherwise exit 1.     *)
PingDone ==
  /\ req = "PING" /\ Done
  /\ IF Got(RSP_OK) THEN pc' = "upload" /\ UNCHANGED exitCode ELSE Exit(1)
  /\ Consume
  /\ UNCHANGED <<mode, port, chunk, clock, success, log, outLog, tx, rx,
                 sentCount, bstatus, testsFailed>>

SendUpload == Request("upload", "UPLOAD")

(* Where upload_iso goes on after an OK: the HTTP POST carried the whole   *)
(* ISO, so run_test follows; the serial UPLOAD only announced the size,   *)
(* so the chunk loop follows.                                              *)
UploadNext == IF mode = "http" THEN "run" ELSE "chunks"

(* HTTP: the POST of the whole ISO (an exception is not caught: exit 1).   *)
(* Serial: the UPLOAD command with the size; the chunks follow on OK.      *)
UploadDone ==
  /\ req = "UPLOAD" /\ Done
  /\ IF Got(RSP_OK)
     THEN pc' = UploadNext /\ UNCHANGED exitCode
     ELSE Exit(1)
  /\ Consume
  /\ UNCHANGED <<mode, port, chunk, clock, success, log, outLog, tx, rx,
                 sentCount, bstatus, testsFailed>>

WriteChunk == chunk < NumChunks /\ Request("chunks", "CHUNK")

(* Mutation: the ack is read but not tested.                              *)
ChunkAckUnchecked ==
  /\ req = "CHUNK" /\ Done
  /\ chunk' = chunk + 1 /\ UNCHANGED <<pc, exitCode>>
  /\ Consume
  /\ UNCHANGED <<mode, port, clock, success, log, outLog, tx, rx,
                 sentCount, bstatus, testsFailed>>

(* ack = read(1): anything but RSP_OK (b'' on timeout) aborts the upload. *)
ChunkAck ==
  /\ req = "CHUNK" /\ Done
  /\ IF Got(RSP_OK)
     THEN chunk' = chunk + 1 /\ UNCHANGED <<pc, exitCode>>
     ELSE Exit(1) /\ UNCHANGED chunk
  /\ Consume
  /\ UNCHANGED <<mode, port, clock, success, log, outLog, tx, rx,
                 sentCount, bstatus, testsFailed>>

(* The for loop over the chunks ends.                                      *)
UploadComplete ==
  /\ pc = "chunks"
  /\ req = "none"
  /\ chunk = NumChunks
  /\ pc' = "run"
  /\ UNCHANGED <<mode, req, out, port, chunk, clock, success, log, outLog,
                 exitCode, tx, rx, sentCount, bstatus, testsFailed>>

SendRun == Request("run", "RUN")

(* run_test is True on RSP_OK (HTTP: 200); the HTTP POST is not guarded   *)
(* against exceptions, which end the process with status 1.                *)
RunDone ==
  /\ req = "RUN" /\ Done
  /\ IF Got(RSP_OK) THEN pc' = "poll" /\ UNCHANGED exitCode ELSE Exit(1)
  /\ Consume
  /\ UNCHANGED <<mode, port, chunk, clock, success, log, outLog, tx, rx,
                 sentCount, bstatus, testsFailed>>

(* Mutation: the loop condition is not tested before polling.            *)
SendStatusUnbounded == Request("poll", "STATUS")

(* One round of the while loop of wait_for_completion: get_status.        *)
SendStatus == clock < Timeout /\ Request("poll", "STATUS")

(* The state get_status returns: the board's state name from an           *)
(* RSP_STATUS reply (HTTP: a 200 body), "unknown" otherwise.               *)
PolledState ==
  IF Got(RSP_STATUS) /\ out.reply.body \in BoardStates
  THEN out.reply.body ELSE "unknown"

(* completed or error: close the port, leave the loop with success set    *)
(* accordingly; otherwise sleep(1) and poll again.                         *)
StatusDone ==
  /\ req = "STATUS" /\ Done
  /\ IF PolledState \in {"completed", "error"}
     THEN /\ success' = (PolledState = "completed")
          /\ pc' = "fetch"
          /\ Close
          /\ UNCHANGED clock
     ELSE clock' = clock + 1 /\ UNCHANGED <<success, pc, port>>
  /\ Consume
  /\ UNCHANGED <<mode, chunk, log, outLog, exitCode, tx, rx, sentCount,
                 bstatus, testsFailed>>

(* Mutation: the timeout path returns True.                              *)
PollTimeoutSucceeds ==
  /\ pc = "poll"
  /\ req = "none"
  /\ clock >= Timeout
  /\ success' = TRUE
  /\ pc' = "fetch"
  /\ Close
  /\ UNCHANGED <<mode, req, out, chunk, clock, log, outLog, exitCode, tx, rx,
                 sentCount, bstatus, testsFailed>>

(* The deadline passes: "Timeout waiting for completion", close, False.   *)
PollTimeout ==
  /\ pc = "poll"
  /\ req = "none"
  /\ clock >= Timeout
  /\ success' = FALSE
  /\ pc' = "fetch"
  /\ Close
  /\ UNCHANGED <<mode, req, out, chunk, clock, log, outLog, exitCode, tx, rx,
                 sentCount, bstatus, testsFailed>>

(* get_uart_log: over HTTP a GET; over serial send_command(CMD_GET_LOG),   *)
(* whose write on the port close() has just closed raises: the exception   *)
(* ends the process with status 1 before anything is saved.                *)
SendGetLog ==
  \/ /\ mode = "serial" /\ port = "closed"
     /\ pc = "fetch" /\ req = "none"
     /\ Exit(1)
     /\ UNCHANGED <<mode, req, out, port, chunk, clock, success, log, outLog,
                    tx, rx, sentCount, bstatus, testsFailed>>
  \/ /\ (mode = "http" \/ port = "open")
     /\ Request("fetch", "GET_LOG")

(* The log is the reply's text on RSP_DATA (HTTP: 200), '' otherwise.      *)
LogDone ==
  /\ req = "GET_LOG" /\ Done
  /\ log' = IF Got(RSP_DATA) THEN "log" ELSE "empty"
  /\ pc' = "save"
  /\ Consume
  /\ UNCHANGED <<mode, port, chunk, clock, success, outLog, exitCode, tx, rx,
                 sentCount, bstatus, testsFailed>>

(* The log is written to --output; exit 0 if success else 1 (the marker    *)
(* test only chooses the message printed).                                 *)
Save ==
  /\ pc = "save"
  /\ outLog' = log
  /\ Exit(IF success THEN 0 ELSE 1)
  /\ UNCHANGED <<mode, req, out, port, chunk, clock, success, log, tx, rx,
                 sentCount, bstatus, testsFailed>>

-----------------------------------------------------------------------------
Controller ==
  \/ Validate \/ Connect \/ SendPing \/ PingDone \/ SendUpload \/ UploadDone
  \/ WriteChunk \/ ChunkAck \/ UploadComplete \/ SendRun \/ RunDone
  \/ SendStatus \/ StatusDone \/ PollTimeout \/ SendGetLog \/ LogDone \/ Save

Transport == HttpExchange \/ SerialRecv \/ SerialTimeout

Board == BoardServe \/ BoardFinish

Next == Controller \/ Transport \/ Board

(* main() is one thread, and every transport call returns: requests and    *)
(* the serial port both have timeouts.  The board gets no fairness: it may *)
(* never answer and its tests may never end.                               *)
Spec == Init /\ [][Next]_vars /\ WF_vars(Controller) /\ WF_vars(Transport)

-----------------------------------------------------------------------------
TypeOK ==
  /\ mode \in {"http", "serial"}
  /\ pc \in {"validate", "ping", "upload", "chunks", "run", "poll", "fetch",
             "save", "exited"}
  /\ req \in Commands \cup {"none"}
  /\ out \in Outcome
  /\ port \in {"none", "open", "closed"}
  /\ chunk \in 0..NumChunks
  /\ clock \in 0..Timeout
  /\ success \in BOOLEAN
  /\ log \in {"none", "empty", "log"}
  /\ outLog \in {"unwritten", "none", "empty", "log"}
  /\ exitCode \in {-1, 0, 1}
  /\ tx \in Seq([cmd : Commands, seq : Nat])
  /\ rx \in Seq(Reply)
  /\ sentCount \in Nat
  /\ bstatus \in BoardStates
  /\ testsFailed \in BOOLEAN

(***************************************************************************)
(* Exit status 0 only when the board really reached "completed" and the   *)
(* log file was written: no stale, refused or lost status reply, on either *)
(* transport, makes a run that is still going, failed or timed out look    *)
(* successful.                                                             *)
(***************************************************************************)
ExitZeroOnlyIfCompleted ==
  exitCode = 0 => bstatus = "completed" /\ outLog # "unwritten"

(***************************************************************************)
(* Spec 8, chunk upload abort: a chunk is written only right after the     *)
(* board acknowledged the UPLOAD command or the previous chunk with        *)
(* RSP_OK; after a bad or missing ack no further chunk is sent.            *)
(***************************************************************************)
ChunkOnlyAfterOk ==
  [][(req = "none" /\ req' = "CHUNK") => Got(RSP_OK)]_vars

(***************************************************************************)
(* main() always exits, whatever the board does: every read and request    *)
(* has a timeout and the polling loop is bounded by --timeout.             *)
(***************************************************************************)
ControllerTerminates == <>(pc = "exited")

(***************************************************************************)
(* Spec 4.1/4.3: every serial operation is one request/response round      *)
(* trip, so the reply send_command returns answers the command it has just *)
(* written, and not one the board sent late for an earlier command.        *)
(***************************************************************************)
ReplyMatchesRequest ==
  (req # "none" /\ out.kind = "reply") => out.reply.for = sentCount

(***************************************************************************)
(* Spec 4.4 and 7: once the board has reported "completed", the controller *)
(* saves the log and exits 0.                                              *)
(***************************************************************************)
CompletedRunIsReported ==
  (pc = "exited" /\ success) => exitCode = 0 /\ outLog # "unwritten"

(***************************************************************************)
(* Spec 4.4: the run is successful only when the target completed, its     *)
(* report shows no failed test, and the log it came from is saved.         *)
(***************************************************************************)
ExitZeroOnlyIfTestsPassed ==
  exitCode = 0 => ~testsFailed /\ outLog = "log"
====
