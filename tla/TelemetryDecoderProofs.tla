----------------------- MODULE TelemetryDecoderProofs -----------------------
(***************************************************************************)
(* Type correctness of parse_results for every buffer: the loop index     *)
(* stays a natural number, every byte it reads is inside the buffer, and   *)
(* the results dictionary keeps its shape, whatever bytes the capture      *)
(* holds.                                                                  *)
(***************************************************************************)
EXTENDS TelemetryDecoder, SequenceTheorems, TLAPS

(* Two bytes combined big-endian fit 16 bits.                             *)
LEMMA BytePair ==
  ASSUME NEW a \in Byte, NEW b \in Byte
  PROVE  a * 256 + b \in Word16
BY DEF Byte, Word16

(* A big-endian 16-bit field read from two bytes of a payload.             *)
LEMMA U16Type ==
  ASSUME NEW p \in Seq(Byte), NEW k \in Nat, k + 2 <= Len(p)
  PROVE  U16(p, k) \in Word16
<1>1. k + 1 \in 1..Len(p) /\ k + 2 \in 1..Len(p)
  BY LenProperties
<1>2. p[k + 1] \in Byte /\ p[k + 2] \in Byte
  BY <1>1, ElementOfSeq
<1>. QED
  BY <1>2, BytePair, Zenon DEF U16

LEMMA NumType ==
  ASSUME NEW p \in Seq(Byte)
  PROVE  Num(p) \in Word16
BY U16Type DEF Num, Word16

LEMMA DurationType ==
  ASSUME NEW p \in Seq(Byte)
  PROVE  Duration(p) \in Nat
<1>1. CASE Len(p) >= 6
  <2>1. U16(p, 2) \in Word16 /\ U16(p, 4) \in Word16
    BY <1>1, U16Type
  <2>. QED
    BY <1>1, <2>1 DEF Duration, Word16
<1>. QED
  BY <1>1 DEF Duration

(* Decoding one frame keeps the results dictionary well formed.            *)
LEMMA ApplyType ==
  ASSUME NEW r \in Report, NEW cmd \in Codes, NEW p \in Seq(Byte)
  PROVE  Apply(r, cmd, p) \in Report
<1>. USE DEF Codes, CMD_TEST_SUITE_START, CMD_TEST_START, CMD_TEST_PASS,
             CMD_TEST_FAIL, CMD_TEST_SKIP, CMD_TEST_SUITE_END
<1>1. Num(p) \in Word16 /\ Duration(p) \in Nat
  BY NumType, DurationType
<1>2. /\ PassRecord(p) \in TestRecord
      /\ FailRecord(p) \in TestRecord
      /\ SkipRecord(p) \in TestRecord
  BY <1>1 DEF PassRecord, FailRecord, SkipRecord, TestRecord
<1>3. TakeEndTallies(r, p) \in Report
  <2>1. CASE Len(p) >= 6
    <3>1. U16(p, 0) \in Word16 /\ U16(p, 2) \in Word16 /\ U16(p, 4) \in Word16
      BY <2>1, U16Type
    <3>2. U16(p, 2) \in Nat /\ U16(p, 4) \in Nat
      BY <3>1 DEF Word16
    <3>. QED
      BY <2>1, <3>1, <3>2 DEF TakeEndTallies, Report
  <2>. QED
    BY <2>1 DEF TakeEndTallies
<1>4. [r EXCEPT !.total = Num(p)] \in Report
  BY <1>1 DEF Report
<1>5. /\ Append(r.tests, PassRecord(p)) \in Seq(TestRecord)
      /\ Append(r.tests, FailRecord(p)) \in Seq(TestRecord)
      /\ Append(r.tests, SkipRecord(p)) \in Seq(TestRecord)
  BY <1>2, AppendProperties DEF Report
<1>6. r.passed + 1 \in Nat /\ r.failed + 1 \in Nat /\ r.skipped + 1 \in Nat
  BY DEF Report
<1>7. [r EXCEPT !.passed = @ + 1, !.tests = Append(@, PassRecord(p))] \in Report
  BY <1>5, <1>6, Zenon DEF Report
<1>8. [r EXCEPT !.failed = @ + 1, !.tests = Append(@, FailRecord(p))] \in Report
  BY <1>5, <1>6, Zenon DEF Report
<1>9. [r EXCEPT !.skipped = @ + 1, !.tests = Append(@, SkipRecord(p))] \in Report
  BY <1>5, <1>6, Zenon DEF Report
<1>10. CASE cmd = 100  BY <1>4, <1>10 DEF Apply
<1>11. CASE cmd = 101  BY <1>11 DEF Apply
<1>12. CASE cmd = 102  BY <1>7, <1>12 DEF Apply
<1>13. CASE cmd = 103  BY <1>8, <1>13 DEF Apply
<1>14. CASE cmd = 104  BY <1>9, <1>14 DEF Apply
<1>15. CASE cmd = 105  BY <1>3, <1>15 DEF Apply
<1>. QED
  BY <1>10, <1>11, <1>12, <1>13, <1>14, <1>15

-----------------------------------------------------------------------------
(* The empty results dictionary parse_results starts from.                *)
LEMMA EmptyReportType == EmptyReport \in Report
<1>1. <<>> \in Seq(TestRecord) /\ 0 \in Word16
  BY EmptySeq DEF Word16
<1>. QED
  BY <1>1 DEF EmptyReport, Report

THEOREM InitTypeOK == Init => TypeOK
<1> SUFFICES ASSUME Init PROVE TypeOK
  OBVIOUS
<1>1. data \in Seq(Byte) /\ sent \in Seq(Frame)
  BY StreamsAssumption DEF Init
<1>. QED
  BY <1>1, EmptyReportType DEF Init, ParseInit, TypeOK, ParseTypeOK

(* A decoding step reads only inside the buffer and keeps the types.       *)
LEMMA StepTypeOK == TypeOK /\ [Next]_vars => TypeOK'
<1> SUFFICES ASSUME TypeOK, [Next]_vars PROVE TypeOK'
  OBVIOUS
<1>. USE DEF TypeOK, ParseTypeOK
<1>1. CASE ScanEnd /\ UNCHANGED <<data, sent>>
  BY <1>1 DEF ScanEnd
<1>2. CASE SkipByte /\ UNCHANGED <<data, sent>>
  BY <1>2 DEF SkipByte
<1>3. CASE Overrun /\ UNCHANGED <<data, sent>>
  BY <1>3 DEF Overrun
<1>4. CASE ParseFrame /\ UNCHANGED <<data, sent>>
  <2>1. offset + 3 < Len(data) + 0
    BY <1>4 DEF ParseFrame, LoopGuard
  <2>2. At(offset) \in Codes
    BY <1>4 DEF ParseFrame
  <2>3. At(offset + 1) \in Byte /\ At(offset + 2) \in Byte
    BY <2>1 DEF At
  <2>4. FrameLength \in Nat
    <3>1. FrameLength \in Word16
      BY <2>3, BytePair, Zenon DEF FrameLength
    <3>. QED
      BY <3>1 DEF Word16
  <2>5. Payload \in Seq(Byte)
    <3>1. \A i \in (offset + 4)..(offset + 3 + FrameLength) : data[i] \in Byte
      BY <1>4, <2>4 DEF ParseFrame
    <3>. QED
      BY <3>1, <2>4, SubSeqProperties DEF Payload
  <2>6. report' \in Report
    BY <1>4, <2>2, <2>5, ApplyType DEF ParseFrame
  <2>. QED
    BY <1>4, <2>4, <2>6 DEF ParseFrame
<1>5. CASE UNCHANGED vars
  BY <1>5 DEF vars
<1>. QED
  BY <1>1, <1>2, <1>3, <1>4, <1>5 DEF Next, ParseStep

(***************************************************************************)
(* parse_results is type-correct on every buffer it can be given: it never *)
(* reads past the buffer and its results keep their shape.                 *)
(***************************************************************************)
THEOREM TypeCorrect == Spec => []TypeOK
BY InitTypeOK, StepTypeOK, PTL DEF Spec
=============================================================================
