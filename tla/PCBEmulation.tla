---------------------------- MODULE PCBEmulation ----------------------------
(***************************************************************************)
(* PCBEmulator.run (run-pcb-emulation.py) with its two threads:            *)
(*   - QEMU writes the kernel's UART output to a pipe (an external         *)
(*     process: it may write, stop, or die at any point);                  *)
(*   - the capture thread (capture_uart) reads the pipe one byte at a      *)
(*     time into uart_data and sets test_complete when uart_data ends with *)
(*     the end marker;                                                     *)
(*   - the main thread validates inputs, starts QEMU, blocks on            *)
(*     test_complete.wait(timeout), then writes the log and parses it      *)
(*     (parse_results), picks the exit code and cleans up; SIGTERM/SIGINT  *)
(*     run the signal handler (cleanup, exit 1) at any point.              *)
(* Time is a counter of ticks that only matters while the main thread     *)
(* waits; Timeout is the number of ticks the wait may last.                *)
(***************************************************************************)
EXTENDS Integers, Sequences

CONSTANTS Streams,   \* what the kernel may write: frames sent and bytes
          EndMarker, \* END_MARKER
          Timeout    \* the --timeout, in ticks

VARIABLES stream,    \* the bytes the kernel writes to its serial port
          sent,      \* the telemetry frames inside those bytes (ghost)
          written,   \* how many of them QEMU has written to the pipe
          qemu,      \* the QEMU process
          uart,      \* self.uart_data
          complete,  \* self.test_complete
          capture,   \* the capture thread
          main,      \* the main thread's place in run()
          clock,     \* ticks spent in test_complete.wait
          waitResult,\* what wait_for_completion returned (self.success)
          outWritten,\* the output log file exists
          outBytes,  \* its contents
          exitCode,  \* the process exit status, -1 while running
          offset, report, pstate  \* parse_results' loop (TelemetryParse)

Dec == INSTANCE TelemetryDecoder WITH data <- uart

ASSUME MarkerAssumption == EndMarker \in Seq(Dec!Byte) /\ Len(EndMarker) > 0
ASSUME TimeoutAssumption == Timeout \in Nat

(* The kernel writes bytes, and the frames it emits are telemetry frames.  *)
ASSUME StreamsAssumption ==
  Streams \subseteq [frames : Seq(Dec!Frame), bytes : Seq(Dec!Byte)]

vars == <<stream, sent, written, qemu, uart, complete, capture, main, clock,
          waitResult, outWritten, outBytes, exitCode, offset, report, pstate>>

(* The bytes in the pipe that the capture thread has not read yet.         *)
Pipe == SubSeq(stream, Len(uart) + 1, written)

(* uart_data.endswith(END_MARKER)                                          *)
EndsWithMarker(s) ==
  Len(s) >= Len(EndMarker) /\ SubSeq(s, Len(s) - Len(EndMarker) + 1, Len(s)) = EndMarker

(* cleanup(): terminate QEMU (killed after 5 s if it lingers); Renode is   *)
(* never started by run().                                                 *)
Cleanup == qemu' = IF qemu = "running" THEN "terminated" ELSE qemu

(* The process exits with status c; the daemon capture thread dies too.   *)
ExitWith(c) ==
  /\ main' = "exited"
  /\ exitCode' = c
  /\ capture' = IF capture = "reading" THEN "killed" ELSE capture

Init ==
  /\ \E s \in Streams : stream = s.bytes /\ sent = s.frames
  /\ written = 0
  /\ qemu = "absent"
  /\ uart = <<>>
  /\ complete = FALSE
  /\ capture = "idle"
  /\ main = "validate"
  /\ clock = 0
  /\ waitResult = "none"
  /\ outWritten = FALSE
  /\ outBytes = <<>>
  /\ exitCode = -1
  /\ Dec!ParseInit

-----------------------------------------------------------------------------
(* QEMU process.                                                           *)

(* The kernel prints one more byte and QEMU forwards it to the pipe.       *)
QemuWrite ==
  /\ qemu = "running"
  /\ written < Len(stream)
  /\ written' = written + 1
  /\ UNCHANGED <<stream, sent, qemu, uart, complete, capture, main, clock,
                 waitResult, outWritten, outBytes, exitCode, offset, report, pstate>>

(* QEMU exits by itself (the guest is done, or it crashed): the pipe is    *)
(* closed after the bytes already in it.                                   *)
QemuExit ==
  /\ qemu = "running"
  /\ qemu' = "exited"
  /\ UNCHANGED <<stream, sent, written, uart, complete, capture, main, clock,
                 waitResult, outWritten, outBytes, exitCode, offset, report, pstate>>

-----------------------------------------------------------------------------
(* Capture thread: one iteration of the loop of capture_uart.              *)

(* Mutation: the marker test looks at the buffer before the append.       *)
CaptureByteStaleCheck ==
  /\ capture = "reading"
  /\ ~complete
  /\ Pipe # <<>>
  /\ uart' = Append(uart, Head(Pipe))
  /\ IF EndsWithMarker(uart)
     THEN complete' = TRUE /\ capture' = "stopped"
     ELSE UNCHANGED <<complete, capture>>
  /\ UNCHANGED <<stream, sent, written, qemu, main, clock, waitResult,
                 outWritten, outBytes, exitCode, offset, report, pstate>>

(* read(1) returns a byte: append it, and stop on the end marker.          *)
CaptureByte ==
  /\ capture = "reading"
  /\ ~complete
  /\ Pipe # <<>>
  /\ uart' = Append(uart, Head(Pipe))
  /\ IF EndsWithMarker(uart')
     THEN complete' = TRUE /\ capture' = "stopped"
     ELSE UNCHANGED <<complete, capture>>
  /\ UNCHANGED <<stream, sent, written, qemu, main, clock, waitResult,
                 outWritten, outBytes, exitCode, offset, report, pstate>>

(* read(1) returns b'' once the pipe is empty and QEMU is gone: break.     *)
CaptureEOF ==
  /\ capture = "reading"
  /\ ~complete
  /\ Pipe = <<>>
  /\ qemu \in {"exited", "terminated"}
  /\ capture' = "stopped"
  /\ UNCHANGED <<stream, sent, written, qemu, uart, complete, main, clock,
                 waitResult, outWritten, outBytes, exitCode, offset, report, pstate>>

-----------------------------------------------------------------------------
(* Main thread: run().                                                     *)

(* validate_inputs: a missing ISO, firmware or platforms directory         *)
(* returns 1 before anything is started.                                   *)
Validate ==
  /\ main = "validate"
  /\ \/ main' = "start_qemu" /\ UNCHANGED exitCode
     \/ main' = "exited" /\ exitCode' = 1
  /\ UNCHANGED <<stream, sent, written, qemu, uart, complete, capture, clock,
                 waitResult, outWritten, outBytes, offset, report, pstate>>

(* start_qemu, then wait_for_completion starts the capture thread and      *)
(* blocks; a failed Popen returns 1 with nothing to clean up.              *)
StartQemu ==
  /\ main = "start_qemu"
  /\ \/ /\ qemu' = "running"
        /\ capture' = "reading"
        /\ main' = "waiting"
        /\ UNCHANGED exitCode
     \/ /\ main' = "exited"
        /\ exitCode' = 1
        /\ UNCHANGED <<qemu, capture>>
  /\ UNCHANGED <<stream, sent, written, uart, complete, clock, waitResult,
                 outWritten, outBytes, offset, report, pstate>>

(* Mutation: the wait does not stop at the deadline.                      *)
TickUnbounded ==
  /\ main = "waiting"
  /\ ~complete
  /\ clock' = clock + 1
  /\ UNCHANGED <<stream, sent, written, qemu, uart, complete, capture, main,
                 waitResult, outWritten, outBytes, exitCode, offset, report, pstate>>

(* Time passes while test_complete.wait(timeout) blocks.                   *)
Tick ==
  /\ main = "waiting"
  /\ ~complete
  /\ clock < Timeout
  /\ clock' = clock + 1
  /\ UNCHANGED <<stream, sent, written, qemu, uart, complete, capture, main,
                 waitResult, outWritten, outBytes, exitCode, offset, report, pstate>>

(* The event is set: wait returns True, self.success is set, run() goes   *)
(* on to parse_results.                                                         *)
WaitCompleted ==
  /\ main = "waiting"
  /\ complete
  /\ waitResult' = "completed"
  /\ main' = "write_output"
  /\ UNCHANGED <<stream, sent, written, qemu, uart, complete, capture, clock,
                 outWritten, outBytes, exitCode, offset, report, pstate>>

(* The deadline passes first: wait returns False, self.success is       *)
(* cleared, run() cleans up and returns 1 (its finally cleans up again). *)
(* Mutation: the deadline test is off by one and never fires.             *)
WaitTimedOutLate ==
  /\ main = "waiting"
  /\ ~complete
  /\ clock > Timeout
  /\ waitResult' = "timeout"
  /\ Cleanup
  /\ ExitWith(1)
  /\ UNCHANGED <<stream, sent, written, uart, complete, clock, outWritten,
                 outBytes, offset, report, pstate>>

(* Mutation: on timeout, go on to write and parse the partial capture      *)
(* while the capture thread still runs.                                    *)
WaitTimedOutParse ==
  /\ main = "waiting"
  /\ ~complete
  /\ clock = Timeout
  /\ waitResult' = "timeout"
  /\ main' = "write_output"
  /\ UNCHANGED <<stream, sent, written, qemu, uart, complete, capture, clock,
                 outWritten, outBytes, exitCode, offset, report, pstate>>

WaitTimedOut ==
  /\ main = "waiting"
  /\ ~complete
  /\ clock = Timeout
  /\ waitResult' = "timeout"
  /\ Cleanup
  /\ ExitWith(1)
  /\ UNCHANGED <<stream, sent, written, uart, complete, clock, outWritten,
                 outBytes, offset, report, pstate>>

(* parse_results first writes uart_data verbatim to the output file.       *)
WriteOutput ==
  /\ main = "write_output"
  /\ outWritten' = TRUE
  /\ outBytes' = uart
  /\ main' = "parsing"
  /\ UNCHANGED <<stream, sent, written, qemu, uart, complete, capture, clock,
                 waitResult, exitCode, offset, report, pstate>>

(* One iteration of parse_results' loop, on uart_data.                     *)
Parse ==
  /\ main = "parsing"
  /\ Dec!ParseStep
  /\ UNCHANGED <<stream, sent, written, qemu, uart, complete, capture, main,
                 clock, waitResult, outWritten, outBytes, exitCode>>

(* Mutation: off by one in the failure test.                             *)
FinishOffByOne ==
  /\ main = "parsing"
  /\ pstate = "done"
  /\ Cleanup
  /\ ExitWith(IF report.failed > 1 THEN 1 ELSE 0)
  /\ UNCHANGED <<stream, sent, written, uart, complete, clock, waitResult,
                 outWritten, outBytes, offset, report, pstate>>

(* The results are in: return 1 if any test failed, else 0; the finally    *)
(* clause cleans up.                                                       *)
Finish ==
  /\ main = "parsing"
  /\ pstate = "done"
  /\ Cleanup
  /\ ExitWith(IF report.failed > 0 THEN 1 ELSE 0)
  /\ UNCHANGED <<stream, sent, written, uart, complete, clock, waitResult,
                 outWritten, outBytes, offset, report, pstate>>

(* SIGTERM or SIGINT: the handler cleans up and exits with 1.              *)
Signal ==
  /\ main \notin {"exited"}
  /\ Cleanup
  /\ ExitWith(1)
  /\ UNCHANGED <<stream, sent, written, uart, complete, clock, waitResult,
                 outWritten, outBytes, offset, report, pstate>>

-----------------------------------------------------------------------------
Next ==
  \/ QemuWrite \/ QemuExit
  \/ CaptureByte \/ CaptureEOF
  \/ Validate \/ StartQemu \/ Tick \/ WaitCompleted \/ WaitTimedOut
  \/ WriteOutput \/ Parse \/ Finish
  \/ Signal

(* The two threads of the script are scheduled fairly and time advances;   *)
(* QEMU and the operator's signals are the environment and get no fairness.*)
Fairness ==
  /\ WF_vars(CaptureByte) /\ WF_vars(CaptureEOF)
  /\ WF_vars(Validate) /\ WF_vars(StartQemu) /\ WF_vars(Tick)
  /\ WF_vars(WaitCompleted) /\ WF_vars(WaitTimedOut)
  /\ WF_vars(WriteOutput) /\ WF_vars(Parse) /\ WF_vars(Finish)

Spec == Init /\ [][Next]_vars /\ Fairness

-----------------------------------------------------------------------------
TypeOK ==
  /\ stream \in Seq(Dec!Byte)
  /\ sent \in Seq(Dec!Frame)
  /\ written \in 0..Len(stream)
  /\ qemu \in {"absent", "running", "exited", "terminated"}
  /\ uart \in Seq(Dec!Byte)
  /\ complete \in BOOLEAN
  /\ capture \in {"idle", "reading", "stopped", "killed"}
  /\ main \in {"validate", "start_qemu", "waiting", "write_output", "parsing",
               "exited"}
  /\ clock \in 0..Timeout
  /\ waitResult \in {"none", "completed", "timeout"}
  /\ outWritten \in BOOLEAN
  /\ outBytes \in Seq(Dec!Byte)
  /\ exitCode \in {-1, 0, 1}
  /\ Dec!ParseTypeOK

(* The end marker starts at index i of s.                                  *)
MarkerAt(s, i) ==
  /\ i >= 1
  /\ i + Len(EndMarker) - 1 <= Len(s)
  /\ SubSeq(s, i, i + Len(EndMarker) - 1) = EndMarker

(***************************************************************************)
(* capture_uart checks for the marker after every byte it appends and     *)
(* stops there: test_complete is set exactly when the marker occurs in     *)
(* uart_data, and then it occurs once, as the last bytes captured (spec 8, *)
(* "Sentinel detection").                                                  *)
(***************************************************************************)
SentinelDetectedOnce ==
  {i \in 1..Len(uart) : MarkerAt(uart, i)}
    = IF complete THEN {Len(uart) - Len(EndMarker) + 1} ELSE {}

(***************************************************************************)
(* The single-writer handoff of spec 5: parse_results writes and reads     *)
(* uart_data only after the capture thread has stopped appending to it.    *)
(***************************************************************************)
ParseOnStableBuffer ==
  main \in {"write_output", "parsing"} => capture \in {"stopped", "killed"}

(* The handoff argument: the capture thread is started only by StartQemu, *)
(* stops by itself when it sees the marker, and the main thread reaches    *)
(* the parsing steps only after the event is set.                          *)
HandoffInv ==
  /\ main \in {"validate", "start_qemu"} => capture = "idle"
  /\ main \in {"write_output", "parsing"} => complete
  /\ complete => capture \in {"stopped", "killed"}

(***************************************************************************)
(* Spec 7 and the timeout scenario of spec 8: a run that timed out still  *)
(* writes the bytes it captured to the output log before exiting.          *)
(***************************************************************************)
TimeoutKeepsCapture ==
  (main = "exited" /\ waitResult = "timeout") => outWritten /\ outBytes = uart

(***************************************************************************)
(* run() always ends, whatever QEMU does: the wait is bounded by the       *)
(* timeout.                                                                *)
(***************************************************************************)
RunTerminates == <>(main = "exited")
=============================================================================
