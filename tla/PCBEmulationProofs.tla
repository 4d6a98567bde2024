------------------------- MODULE PCBEmulationProofs -------------------------
(***************************************************************************)
(* The single-writer handoff of run() holds for every capture, marker and  *)
(* timeout: parse_results touches uart_data only once the capture thread   *)
(* has stopped appending to it.                                            *)
(***************************************************************************)
EXTENDS PCBEmulation, SequenceTheorems, TLAPS

(* The control state of the two threads.                                   *)
Control ==
  /\ main \in {"validate", "start_qemu", "waiting", "write_output", "parsing",
               "exited"}
  /\ capture \in {"idle", "reading", "stopped", "killed"}
  /\ complete \in BOOLEAN

(* ParseOnStableBuffer is not inductive by itself: WaitCompleted moves the *)
(* main thread to write_output with no test of the capture thread, so the  *)
(* invariant has to carry that a set event means a stopped capture, and    *)
(* that the capture is not yet running before StartQemu.                   *)
IInv == Control /\ HandoffInv

THEOREM InitIInv == Init => IInv
BY DEF Init, IInv, Control, HandoffInv

(* ExitWith never restarts the capture thread.                             *)
LEMMA ExitWithCapture ==
  ASSUME NEW c, ExitWith(c), capture \in {"idle", "reading", "stopped", "killed"}
  PROVE  /\ main' = "exited"
         /\ capture' \in {"idle", "stopped", "killed"}
         /\ capture \in {"stopped", "killed"} => capture' = capture
BY DEF ExitWith

LEMMA StepIInv == IInv /\ [Next]_vars => IInv'
<1> SUFFICES ASSUME IInv, [Next]_vars PROVE IInv'
  OBVIOUS
<1>. USE DEF IInv, Control, HandoffInv
<1>1. CASE QemuWrite  BY <1>1 DEF QemuWrite
<1>2. CASE QemuExit  BY <1>2 DEF QemuExit
<1>3. CASE CaptureByte  BY <1>3 DEF CaptureByte
<1>4. CASE CaptureEOF  BY <1>4 DEF CaptureEOF
<1>5. CASE Validate  BY <1>5 DEF Validate
<1>6. CASE StartQemu  BY <1>6 DEF StartQemu
<1>7. CASE Tick  BY <1>7 DEF Tick
<1>8. CASE WaitCompleted  BY <1>8 DEF WaitCompleted
<1>9. CASE WaitTimedOut
  BY <1>9, ExitWithCapture DEF WaitTimedOut
<1>10. CASE WriteOutput  BY <1>10 DEF WriteOutput
<1>11. CASE Parse  BY <1>11 DEF Parse
<1>12. CASE Finish
  BY <1>12, ExitWithCapture DEF Finish
<1>13. CASE Signal
  BY <1>13, ExitWithCapture DEF Signal
<1>14. CASE UNCHANGED vars  BY <1>14 DEF vars
<1>. QED
  BY <1>1, <1>2, <1>3, <1>4, <1>5, <1>6, <1>7, <1>8, <1>9, <1>10, <1>11,
     <1>12, <1>13, <1>14 DEF Next

(***************************************************************************)
(* Whatever QEMU writes and whenever signals arrive, the main thread       *)
(* writes and parses uart_data only after capture_uart has stopped         *)
(* (marker seen) or been killed: no byte is appended while parse_results   *)
(* reads the buffer.                                                       *)
(***************************************************************************)
THEOREM StableBuffer == Spec => []ParseOnStableBuffer
<1>1. IInv => ParseOnStableBuffer
  BY DEF IInv, HandoffInv, ParseOnStableBuffer
<1>. QED
  BY <1>1, InitIInv, StepIInv, PTL DEF Spec

(***************************************************************************)
(* The handoff itself, for every run: the capture thread is idle until     *)
(* QEMU is started, the main thread writes and parses only once            *)
(* test_complete is set, and a set event means capture_uart has stopped   *)
(* (or died with the process).                                             *)
(***************************************************************************)
THEOREM Handoff == Spec => []HandoffInv
<1>1. IInv => HandoffInv
  BY DEF IInv
<1>. QED
  BY <1>1, InitIInv, StepIInv, PTL DEF Spec

-----------------------------------------------------------------------------
(***************************************************************************)
(* Sentinel detection.  capture_uart appends one byte at a time, so the    *)
(* marker occurrences of the longer buffer are those of the shorter one,   *)
(* plus one that ends at the new byte when the buffer now ends with the    *)
(* marker.                                                                 *)
(***************************************************************************)

(* The positions where the marker occurs in s.                             *)
Markers(s) == {i \in 1..Len(s) : MarkerAt(s, i)}

LEMMA MarkerAppend ==
  ASSUME NEW S, NEW s \in Seq(S), NEW x \in S
  PROVE  Markers(Append(s, x))
           = Markers(s) \cup (IF EndsWithMarker(Append(s, x))
                              THEN {Len(s) + 2 - Len(EndMarker)} ELSE {})
<1> DEFINE t == Append(s, x)
           n == Len(s)
           L == Len(EndMarker)
<1>1. L \in Nat /\ L > 0 /\ EndMarker \in Seq(Dec!Byte)
  BY MarkerAssumption
<1>2. t \in Seq(S) /\ Len(t) = n + 1 /\ \A k \in 1..n : t[k] = s[k]
      /\ n \in Nat
  BY AppendProperties
<1>3. ASSUME NEW i \in 1..(n + 1), i + L - 1 <= n
      PROVE  MarkerAt(t, i) <=> MarkerAt(s, i)
  <2>1. SubSeq(t, i, i + L - 1) = SubSeq(s, i, i + L - 1)
    <3>1. /\ SubSeq(t, i, i + L - 1) \in Seq(S)
          /\ Len(SubSeq(t, i, i + L - 1)) = L
          /\ \A k \in 1..L : SubSeq(t, i, i + L - 1)[k] = t[i + k - 1]
      BY <1>1, <1>2, <1>3, SubSeqProperties
    <3>2. /\ SubSeq(s, i, i + L - 1) \in Seq(S)
          /\ Len(SubSeq(s, i, i + L - 1)) = L
          /\ \A k \in 1..L : SubSeq(s, i, i + L - 1)[k] = s[i + k - 1]
      BY <1>1, <1>2, <1>3, SubSeqProperties
    <3>3. \A k \in 1..L : t[i + k - 1] = s[i + k - 1]
      BY <1>1, <1>2, <1>3
    <3>4. \A k \in 1..Len(SubSeq(t, i, i + L - 1)) :
            SubSeq(t, i, i + L - 1)[k] = SubSeq(s, i, i + L - 1)[k]
      BY <3>1, <3>2, <3>3
    <3>. QED
      BY <3>1, <3>2, <3>4, SeqEqual
  <2>. QED
    BY <1>2, <1>3, <2>1 DEF MarkerAt
<1>4. ASSUME NEW i \in 1..(n + 1), i + L - 1 = n + 1
      PROVE  /\ MarkerAt(t, i) <=> EndsWithMarker(t)
             /\ ~MarkerAt(s, i)
             /\ i = n + 2 - L
  <2>1. i = n + 2 - L /\ Len(t) - L + 1 = i /\ i + L - 1 = Len(t)
    BY <1>1, <1>2, <1>4
  <2>2. ~MarkerAt(s, i)
    BY <1>1, <1>2, <1>4 DEF MarkerAt
  <2>3. MarkerAt(t, i) <=> (Len(t) >= L /\ SubSeq(t, i, Len(t)) = EndMarker)
    <3>1. SubSeq(t, i, i + L - 1) = SubSeq(t, i, Len(t))
      BY <2>1
    <3>2. i >= 1 /\ i + L - 1 <= Len(t) /\ Len(t) >= L
      BY <1>1, <1>2, <2>1
    <3>. QED
      BY <3>1, <3>2 DEF MarkerAt
  <2>4. EndsWithMarker(t) <=> (Len(t) >= L /\ SubSeq(t, i, Len(t)) = EndMarker)
    BY <2>1 DEF EndsWithMarker
  <2>. QED
    BY <2>1, <2>2, <2>3, <2>4
<1>5. ASSUME NEW i \in 1..(n + 1), i + L - 1 > n + 1
      PROVE  ~MarkerAt(t, i) /\ ~MarkerAt(s, i)
  BY <1>1, <1>2, <1>5 DEF MarkerAt
<1>6. EndsWithMarker(t) => n + 2 - L \in 1..(n + 1) /\ MarkerAt(t, n + 2 - L)
  BY <1>1, <1>2 DEF MarkerAt, EndsWithMarker
<1>7. ASSUME NEW i
      PROVE  i \in Markers(t) <=>
               i \in Markers(s) \cup (IF EndsWithMarker(t) THEN {n + 2 - L} ELSE {})
  <2>1. CASE i \in 1..(n + 1) /\ i + L - 1 <= n
    BY <1>1, <1>2, <1>3, <2>1 DEF Markers
  <2>2. CASE i \in 1..(n + 1) /\ i + L - 1 = n + 1
    BY <1>1, <1>2, <1>4, <2>2 DEF Markers
  <2>3. CASE i \in 1..(n + 1) /\ i + L - 1 > n + 1
    BY <1>1, <1>2, <1>5, <2>3 DEF Markers
  <2>4. CASE i \notin 1..(n + 1)
    BY <1>1, <1>2, <1>6, <2>4 DEF Markers
  <2>. QED
    BY <1>1, <1>2, <2>1, <2>2, <2>3, <2>4
<1>. QED
  BY <1>7

(***************************************************************************)
(* SentinelDetectedOnce is not inductive by itself: the proof that a byte  *)
(* read from the pipe keeps it needs that the bytes are bytes and that the *)
(* capture never reads past what QEMU wrote.                               *)
(***************************************************************************)
SInv ==
  /\ stream \in Seq(Dec!Byte)
  /\ written \in 0..Len(stream)
  /\ uart \in Seq(Dec!Byte)
  /\ Len(uart) <= written
  /\ complete \in BOOLEAN
  /\ SentinelDetectedOnce

THEOREM InitSInv == Init => SInv
<1> SUFFICES ASSUME Init PROVE SInv
  OBVIOUS
<1>1. PICK s \in Streams : stream = s.bytes
  BY DEF Init
<1>2. stream \in Seq(Dec!Byte)
  BY <1>1, StreamsAssumption
<1>3. /\ written = 0 /\ uart = <<>> /\ complete = FALSE
  BY DEF Init
<1>4. {i \in 1..Len(uart) : MarkerAt(uart, i)} = {}
  BY <1>3
<1>5. written \in 0..Len(stream) /\ Len(uart) <= written
  BY <1>2, <1>3
<1>6. SentinelDetectedOnce
  BY <1>3, <1>4 DEF SentinelDetectedOnce
<1>. QED
  <2>1. uart \in Seq(Dec!Byte) /\ complete \in BOOLEAN
    BY <1>3, EmptySeq
  <2>. QED
    BY <1>2, <1>5, <1>6, <2>1 DEF SInv

(* The byte read(1) returns is the next one QEMU wrote.                    *)
LEMMA PipeHead ==
  ASSUME SInv, Pipe # <<>>
  PROVE  /\ Len(uart) < written
         /\ Head(Pipe) = stream[Len(uart) + 1]
         /\ Head(Pipe) \in Dec!Byte
<1>1. Len(uart) \in Nat /\ written \in Nat /\ Len(stream) \in Nat
  BY DEF SInv
<1>2. Len(uart) + 1 <= written
  <2>1. Len(Pipe) = written - Len(uart)
    BY <1>1, SubSeqProperties DEF SInv, Pipe
  <2>2. Len(Pipe) # 0
    BY EmptySeq DEF SInv, Pipe
  <2>. QED
    BY <1>1, <2>1, <2>2
<1>3. Pipe \in Seq(Dec!Byte) /\ Pipe[1] = stream[Len(uart) + 1]
  BY <1>1, <1>2, SubSeqProperties DEF SInv, Pipe
<1>4. Head(Pipe) = Pipe[1]
  BY <1>3, HeadTailProperties
<1>. QED
  BY <1>1, <1>2, <1>3, <1>4 DEF SInv

(* A byte appended by capture_uart: the event is set exactly when the     *)
(* buffer now ends with the marker, and that is its only occurrence.       *)
LEMMA CaptureByteSInv == SInv /\ CaptureByte => SInv'
<1> SUFFICES ASSUME SInv, CaptureByte PROVE SInv'
  OBVIOUS
<1>1. /\ Len(uart) < written
      /\ Head(Pipe) \in Dec!Byte
  BY PipeHead DEF CaptureByte
<1>2. /\ uart' \in Seq(Dec!Byte)
      /\ Len(uart') = Len(uart) + 1
  BY <1>1, AppendProperties DEF SInv, CaptureByte
<1>3. Markers(uart) = {}
  BY DEF SInv, SentinelDetectedOnce, CaptureByte, Markers
<1>4. Markers(uart') = IF EndsWithMarker(uart') THEN {Len(uart) + 2 - Len(EndMarker)} ELSE {}
  BY <1>1, <1>3, MarkerAppend DEF SInv, CaptureByte
<1>5. complete' = EndsWithMarker(uart') /\ complete' \in BOOLEAN
  <2>1. CASE EndsWithMarker(uart')
    BY <2>1 DEF CaptureByte, EndsWithMarker
  <2>2. CASE ~EndsWithMarker(uart')
    BY <2>2 DEF CaptureByte, EndsWithMarker, SInv
  <2>. QED
    BY <2>1, <2>2
<1>6. Len(uart') - Len(EndMarker) + 1 = Len(uart) + 2 - Len(EndMarker)
  BY <1>2, MarkerAssumption
<1>7. SentinelDetectedOnce'
  BY <1>4, <1>5, <1>6 DEF SentinelDetectedOnce, Markers
<1>8. /\ stream' = stream /\ written' = written
      /\ Len(uart') <= written'
  BY <1>1, <1>2 DEF CaptureByte, SInv
<1>. QED
  BY <1>2, <1>5, <1>7, <1>8 DEF SInv

LEMMA StepSInv == SInv /\ [Next]_vars => SInv'
<1> SUFFICES ASSUME SInv, [Next]_vars PROVE SInv'
  OBVIOUS
<1>1. CASE QemuWrite
  BY <1>1 DEF QemuWrite, SInv, SentinelDetectedOnce
<1>2. CASE CaptureByte
  BY <1>2, CaptureByteSInv
<1>3. CASE UNCHANGED <<stream, written, uart, complete>>
  BY <1>3 DEF SInv, SentinelDetectedOnce
<1>. QED
  BY <1>1, <1>2, <1>3
  DEF Next, vars, QemuExit, CaptureEOF, Validate, StartQemu, Tick,
      WaitCompleted, WaitTimedOut, WriteOutput, Parse, Finish, Signal,
      Cleanup, ExitWith

(***************************************************************************)
(* For every stream, marker and timeout: test_complete is set exactly when *)
(* the end marker occurs in uart_data, and then it occurs once, as the     *)
(* last bytes captured; capture_uart never reads past the marker.          *)
(***************************************************************************)
THEOREM SentinelOnce == Spec => []SentinelDetectedOnce
<1>1. SInv => SentinelDetectedOnce
  BY DEF SInv
<1>. QED
  BY <1>1, InitSInv, StepSInv, PTL DEF Spec
DP == INSTANCE TelemetryDecoderProofs WITH data <- uart

(* The decoder's lemmas hold under its assumption on the captures, which   *)
(* the emulation's StreamsAssumption is, read through DP.                   *)
LEMMA DPAssumption == DP!StreamsAssumption
BY StreamsAssumption
DEF DP!StreamsAssumption, DP!Frame, Dec!Frame, DP!Byte, Dec!Byte, DP!Codes,
    Dec!Codes, DP!CMD_TEST_SUITE_START, Dec!CMD_TEST_SUITE_START,
    DP!CMD_TEST_SUITE_END, Dec!CMD_TEST_SUITE_END

LEMMA SameSets ==
  /\ Dec!Byte = DP!Byte
  /\ Dec!Codes = DP!Codes
  /\ Dec!Report = DP!Report
  /\ Dec!Frame = DP!Frame
BY DEF Dec!Byte, DP!Byte, Dec!Codes, DP!Codes, Dec!Report, DP!Report,
       Dec!Frame, DP!Frame, Dec!TestRecord, DP!TestRecord, Dec!Word16, DP!Word16,
       Dec!CMD_TEST_SUITE_START, DP!CMD_TEST_SUITE_START,
       Dec!CMD_TEST_SUITE_END, DP!CMD_TEST_SUITE_END

LEMMA SameApply ==
  ASSUME NEW r, NEW c \in Dec!Codes, NEW p
  PROVE  Dec!Apply(r, c, p) = DP!Apply(r, c, p)
<1>1. /\ Dec!Num(p) = DP!Num(p)
      /\ Dec!Duration(p) = DP!Duration(p)
      /\ Dec!TakeEndTallies(r, p) = DP!TakeEndTallies(r, p)
  BY DEF Dec!Num, DP!Num, Dec!Duration, DP!Duration, Dec!U16, DP!U16, Dec!TakeEndTallies, DP!TakeEndTallies
<1>2. /\ Dec!PassRecord(p) = DP!PassRecord(p)
      /\ Dec!FailRecord(p) = DP!FailRecord(p)
      /\ Dec!SkipRecord(p) = DP!SkipRecord(p)
  BY <1>1 DEF Dec!PassRecord, DP!PassRecord, Dec!FailRecord, DP!FailRecord, Dec!SkipRecord, DP!SkipRecord
<1>. USE DEF Dec!CMD_TEST_SUITE_START, DP!CMD_TEST_SUITE_START, Dec!CMD_TEST_START, DP!CMD_TEST_START, Dec!CMD_TEST_PASS, DP!CMD_TEST_PASS, Dec!CMD_TEST_FAIL, DP!CMD_TEST_FAIL, Dec!CMD_TEST_SKIP, DP!CMD_TEST_SKIP, Dec!CMD_TEST_SUITE_END, DP!CMD_TEST_SUITE_END
<1>3. CASE c = 100  BY <1>1, <1>3 DEF Dec!Apply, DP!Apply
<1>4. CASE c = 101  BY <1>4 DEF Dec!Apply, DP!Apply
<1>5. CASE c = 102  BY <1>2, <1>5 DEF Dec!Apply, DP!Apply
<1>6. CASE c = 103  BY <1>2, <1>6 DEF Dec!Apply, DP!Apply
<1>7. CASE c = 104  BY <1>2, <1>7 DEF Dec!Apply, DP!Apply
<1>8. CASE c = 105  BY <1>1, <1>8 DEF Dec!Apply, DP!Apply
<1>. QED
  BY <1>3, <1>4, <1>5, <1>6, <1>7, <1>8 DEF Dec!Codes

(* A step of parse_results, read through either instance of the decoder.  *)
LEMMA SameStep == Dec!ParseStep => DP!ParseStep
<1>1. Dec!ScanEnd => DP!ScanEnd
  BY DEF Dec!ScanEnd, DP!ScanEnd, Dec!LoopGuard, DP!LoopGuard
<1>2. Dec!SkipByte => DP!SkipByte
  BY SameSets DEF Dec!SkipByte, DP!SkipByte, Dec!LoopGuard, DP!LoopGuard, Dec!At, DP!At
<1>3. Dec!Overrun => DP!Overrun
  BY SameSets DEF Dec!Overrun, DP!Overrun, Dec!LoopGuard, DP!LoopGuard, Dec!At, DP!At, Dec!FrameLength, DP!FrameLength
<1>4. Dec!ParseFrame => DP!ParseFrame
  <2>1. Dec!Payload = DP!Payload /\ Dec!FrameLength = DP!FrameLength
        /\ Dec!At(offset) = DP!At(offset)
    BY DEF Dec!Payload, DP!Payload, Dec!FrameLength, DP!FrameLength, Dec!At, DP!At
  <2>. QED
    BY SameSets, SameApply, <2>1 DEF Dec!ParseFrame, DP!ParseFrame, Dec!LoopGuard, DP!LoopGuard
<1>. QED
  BY <1>1, <1>2, <1>3, <1>4 DEF Dec!ParseStep, DP!ParseStep

(* parse_results keeps its loop state well typed on the captured buffer,  *)
(* as the decoder's own proof shows for any buffer.                        *)
LEMMA ParseKeepsType ==
  ASSUME Dec!ParseTypeOK, sent \in Seq(Dec!Frame), Dec!ParseStep,
         uart' = uart, sent' = sent
  PROVE  Dec!ParseTypeOK'
<1>1. DP!ParseTypeOK /\ sent \in Seq(DP!Frame)
  BY SameSets DEF Dec!ParseTypeOK, DP!ParseTypeOK
<1>2. DP!TypeOK /\ [DP!Next]_(DP!vars)
  BY <1>1, SameStep DEF DP!TypeOK, DP!Next
<1>3. DP!TypeOK'
  BY <1>2, DPAssumption, DP!StepTypeOK
<1>4. DP!ParseTypeOK'
  BY <1>3 DEF DP!TypeOK
<1>. QED
  BY <1>4, SameSets DEF Dec!ParseTypeOK, DP!ParseTypeOK

-----------------------------------------------------------------------------
(***************************************************************************)
(* Type correctness.  TypeOK is not inductive by itself: that the next     *)
(* byte capture_uart reads is a byte needs that it never reads past what  *)
(* QEMU wrote, which SInv carries.                                         *)
(***************************************************************************)
TInv == TypeOK /\ SInv

THEOREM InitTInv == Init => TInv
<1> SUFFICES ASSUME Init PROVE TInv
  OBVIOUS
<1>1. PICK s \in Streams : stream = s.bytes /\ sent = s.frames
  BY DEF Init
<1>2. sent \in Seq(Dec!Frame)
  BY <1>1, StreamsAssumption
<1>3. Dec!EmptyReport \in Dec!Report
  <2>1. Dec!EmptyReport = DP!EmptyReport
    BY DEF Dec!EmptyReport, DP!EmptyReport
  <2>. QED
    BY <2>1, SameSets, DPAssumption, DP!EmptyReportType
<1>4. Dec!ParseTypeOK
  BY <1>3, EmptySeq DEF Init, Dec!ParseInit, Dec!ParseTypeOK
<1>5. SInv
  BY InitSInv
<1>6. /\ written = 0 /\ qemu = "absent" /\ complete = FALSE /\ capture = "idle"
      /\ main = "validate" /\ clock = 0 /\ waitResult = "none"
      /\ outWritten = FALSE /\ outBytes = <<>> /\ exitCode = -1
  BY DEF Init
<1>7. clock \in 0..Timeout /\ outBytes \in Seq(Dec!Byte)
  BY <1>6, EmptySeq, TimeoutAssumption
<1>. QED
  BY <1>2, <1>4, <1>5, <1>6, <1>7 DEF TInv, TypeOK, SInv

LEMMA StepTInv == TInv /\ [Next]_vars => TInv'
<1> SUFFICES ASSUME TInv, [Next]_vars PROVE TInv'
  OBVIOUS
<1>1. SInv'
  BY StepSInv DEF TInv
<1>. USE DEF TInv, TypeOK
<1>2. CASE QemuWrite
  BY <1>1, <1>2 DEF QemuWrite, Dec!ParseTypeOK, SInv
<1>3. CASE QemuExit
  BY <1>1, <1>3 DEF QemuExit, Dec!ParseTypeOK
<1>4. CASE CaptureByte
  BY <1>1, <1>4 DEF CaptureByte, Dec!ParseTypeOK, SInv
<1>5. CASE CaptureEOF
  BY <1>1, <1>5 DEF CaptureEOF, Dec!ParseTypeOK
<1>6. CASE Validate
  BY <1>1, <1>6 DEF Validate, Dec!ParseTypeOK
<1>7. CASE StartQemu
  BY <1>1, <1>7 DEF StartQemu, Dec!ParseTypeOK
<1>8. CASE Tick
  BY <1>1, <1>8, TimeoutAssumption DEF Tick, Dec!ParseTypeOK
<1>9. CASE WaitCompleted
  BY <1>1, <1>9 DEF WaitCompleted, Dec!ParseTypeOK
<1>10. CASE WaitTimedOut
  BY <1>1, <1>10 DEF WaitTimedOut, Cleanup, ExitWith, Dec!ParseTypeOK
<1>11. CASE WriteOutput
  BY <1>1, <1>11 DEF WriteOutput, Dec!ParseTypeOK, SInv
<1>12. CASE Parse
  BY <1>1, <1>12, ParseKeepsType DEF Parse
<1>13. CASE Finish
  BY <1>1, <1>13 DEF Finish, Cleanup, ExitWith, Dec!ParseTypeOK
<1>14. CASE Signal
  BY <1>1, <1>14 DEF Signal, Cleanup, ExitWith, Dec!ParseTypeOK
<1>15. CASE UNCHANGED vars
  BY <1>1, <1>15 DEF vars, Dec!ParseTypeOK
<1>. QED
  BY <1>2, <1>3, <1>4, <1>5, <1>6, <1>7, <1>8, <1>9, <1>10, <1>11, <1>12,
     <1>13, <1>14, <1>15 DEF Next

(***************************************************************************)
(* run() is type-correct for every kernel output, marker and timeout: the  *)
(* pipe index stays within what the kernel wrote, the wait within the      *)
(* timeout, the exit status is -1, 0 or 1, and parse_results' loop state   *)
(* keeps its shape.                                                        *)
(***************************************************************************)
THEOREM TypeCorrect == Spec => []TypeOK
<1>1. TInv => TypeOK
  BY DEF TInv
<1>. QED
  BY <1>1, InitTInv, StepTInv, PTL DEF Spec

-----------------------------------------------------------------------------
(***************************************************************************)
(* The exit status.  run() returns 0 only from the end of parse_results,   *)
(* after the wait succeeded and the log was written; every other return   *)
(* and the signal handler give 1.  Exit status 0 is final: the process is  *)
(* gone and the capture thread stopped, so nothing changes the buffer or   *)
(* the results afterwards.                                                 *)
(***************************************************************************)
ExitStatus ==
  /\ main \in {"write_output", "parsing"} => waitResult = "completed"
  /\ main = "parsing" => outWritten /\ outBytes = uart
  /\ exitCode = 0 =>
       /\ main = "exited" /\ capture \in {"stopped", "killed"}
       /\ waitResult = "completed" /\ outWritten /\ outBytes = uart
       /\ pstate = "done" /\ report.failed = 0

(* ExitStatus is inductive only with the handoff (a parsing main thread    *)
(* means a stopped capture, which Finish passes on) and the types (the     *)
(* failure count Finish tests is a natural number).                        *)
XInv == IInv /\ TInv /\ ExitStatus

THEOREM InitXInv == Init => XInv
<1>1. Init => ExitStatus
  BY DEF Init, ExitStatus
<1>. QED
  BY <1>1, InitIInv, InitTInv DEF XInv

LEMMA StepXInv == XInv /\ [Next]_vars => XInv'
<1> SUFFICES ASSUME XInv, [Next]_vars PROVE XInv'
  OBVIOUS
<1>1. IInv' /\ TInv'
  BY StepIInv, StepTInv DEF XInv
<1> SUFFICES ExitStatus'
  BY <1>1 DEF XInv
<1>. USE DEF XInv, ExitStatus
<1>2. CASE QemuWrite  BY <1>2 DEF QemuWrite
<1>3. CASE QemuExit  BY <1>3 DEF QemuExit
<1>4. CASE CaptureByte  BY <1>4 DEF CaptureByte, IInv, HandoffInv
<1>5. CASE CaptureEOF  BY <1>5 DEF CaptureEOF
<1>6. CASE Validate  BY <1>6 DEF Validate
<1>7. CASE StartQemu  BY <1>7 DEF StartQemu
<1>8. CASE Tick  BY <1>8 DEF Tick
<1>9. CASE WaitCompleted  BY <1>9 DEF WaitCompleted
<1>10. CASE WaitTimedOut  BY <1>10 DEF WaitTimedOut, ExitWith
<1>11. CASE WriteOutput  BY <1>11 DEF WriteOutput
<1>12. CASE Parse
  <2>1. exitCode # 0
    BY <1>12 DEF Parse
  <2>. QED
    BY <1>12, <2>1 DEF Parse
<1>13. CASE Finish
  <2>1. report.failed \in Nat
    BY DEF TInv, TypeOK, Dec!ParseTypeOK, Dec!Report
  <2>2. capture \in {"stopped", "killed"} /\ complete
    BY <1>13 DEF Finish, IInv, HandoffInv
  <2>3. exitCode' = 0 => report.failed = 0
    BY <1>13, <2>1 DEF Finish, ExitWith
  <2>. QED
    BY <1>13, <2>2, <2>3 DEF Finish, ExitWith
<1>14. CASE Signal  BY <1>14 DEF Signal, ExitWith
<1>15. CASE UNCHANGED vars  BY <1>15 DEF vars
<1>. QED
  BY <1>2, <1>3, <1>4, <1>5, <1>6, <1>7, <1>8, <1>9, <1>10, <1>11,
     <1>12, <1>13, <1>14, <1>15 DEF Next

(***************************************************************************)
(* For every kernel output, marker and timeout, whenever signals arrive:   *)
(* run() exits 0 only after test_complete was set before the deadline, the *)
(* output log holds the whole capture, and parse_results counted no        *)
(* failure on it.                                                          *)
(***************************************************************************)
THEOREM ExitZeroOnReport == Spec => []ExitStatus
<1>1. XInv => ExitStatus
  BY DEF XInv
<1>. QED
  BY <1>1, InitXInv, StepXInv, PTL DEF Spec

=============================================================================
