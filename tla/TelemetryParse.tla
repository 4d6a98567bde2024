--------------------------- MODULE TelemetryParse ---------------------------
(***************************************************************************)
(* The scan loop of PCBEmulator.parse_results (run-pcb-emulation.py): it   *)
(* walks the captured UART buffer byte by byte, resynchronises on any      *)
(* byte outside the command range 100..105 and decodes the frames          *)
(*     code(1) || length(2, big-endian) || payload(length)                 *)
(* into the results dictionary.  The buffer is `data`, the loop index      *)
(* `offset` (0-based, as in the code) and the dictionary `report`.  Suite  *)
(* names, test names and failure messages are left out: they are only     *)
(* decoded text, no property tells them apart, and the model keeps the     *)
(* numbers, the statuses and the order of the records.                     *)
(***************************************************************************)
EXTENDS Integers, Sequences

VARIABLES data,    \* the buffer being parsed (self.uart_data)
          offset,  \* the loop index, 0-based
          report,  \* the results dictionary
          pstate   \* "scanning" while the while-loop runs, then "done"

parseVars == <<offset, report, pstate>>

Byte == 0..255

CMD_TEST_SUITE_START == 100
CMD_TEST_START       == 101
CMD_TEST_PASS        == 102
CMD_TEST_FAIL        == 103
CMD_TEST_SKIP        == 104
CMD_TEST_SUITE_END   == 105

Codes == CMD_TEST_SUITE_START..CMD_TEST_SUITE_END

(* The values of a 16-bit field.                                         *)
Word16 == {n \in Nat : n < 65536}

(* One entry of results["tests"]; duration is 0 for fail and skip records, *)
(* whose message is not modelled.                                          *)
TestRecord == [num : Word16, status : {"pass", "fail", "skip"}, duration : Nat]

Report == [total : Word16, passed : Nat, failed : Nat, skipped : Nat,
           tests : Seq(TestRecord)]

EmptyReport == [total |-> 0, passed |-> 0, failed |-> 0, skipped |-> 0,
                tests |-> <<>>]

(* data[i] of the Python code, for a 0-based index i.                      *)
At(i) == data[i + 1]

(* (payload[k] << 8) | payload[k+1] for 0-based k; the payload bytes are   *)
(* below 256, so the shift-or is an addition.                              *)
U16(p, k) == p[k + 1] * 256 + p[k + 2]

(* Mutation: a missing number reads as -1 instead of 0.                   *)
NumMissingAsMinusOne(p) == IF Len(p) >= 2 THEN U16(p, 0) ELSE -1

(* The test number all record frames start with, 0 when the payload is    *)
(* shorter than two bytes.                                                 *)
Num(p) == IF Len(p) >= 2 THEN U16(p, 0) ELSE 0

(* The big-endian 32-bit duration of TEST_PASS, 0 if the payload is short. *)
Duration(p) == IF Len(p) >= 6 THEN U16(p, 2) * 65536 + U16(p, 4) ELSE 0

(* The entry appended to results["tests"] for a PASS, FAIL or SKIP frame. *)
PassRecord(p) == [num |-> Num(p), status |-> "pass", duration |-> Duration(p)]
FailRecord(p) == [num |-> Num(p), status |-> "fail", duration |-> 0]
SkipRecord(p) == [num |-> Num(p), status |-> "skip", duration |-> 0]

(* Mutation: SUITE_END's passed tally is not taken over.                  *)
TakeEndTalliesButPassed(r, p) ==
  IF Len(p) >= 6 THEN [r EXCEPT !.total = U16(p, 0), !.failed = U16(p, 4)]
  ELSE r

(* SUITE_END overwrites total, passed and failed when its payload holds    *)
(* the three tallies.                                                      *)
TakeEndTallies(r, p) ==
  IF Len(p) >= 6
  THEN [r EXCEPT !.total = U16(p, 0), !.passed = U16(p, 2), !.failed = U16(p, 4)]
  ELSE r

(* The change one decoded frame makes to the results dictionary;          *)
(* TEST_START only prints.                                                 *)
Apply(r, cmd, p) ==
  CASE cmd = CMD_TEST_SUITE_START -> [r EXCEPT !.total = Num(p)]
    [] cmd = CMD_TEST_START       -> r
    [] cmd = CMD_TEST_PASS ->
         [r EXCEPT !.passed = @ + 1, !.tests = Append(@, PassRecord(p))]
    [] cmd = CMD_TEST_FAIL ->
         [r EXCEPT !.failed = @ + 1, !.tests = Append(@, FailRecord(p))]
    [] cmd = CMD_TEST_SKIP ->
         [r EXCEPT !.skipped = @ + 1, !.tests = Append(@, SkipRecord(p))]
    [] cmd = CMD_TEST_SUITE_END   -> TakeEndTallies(r, p)

(* The guard of the while loop: at least a command and a length remain    *)
(* after offset, as the code computes it.                                  *)
LoopGuard == offset < Len(data) - 3

FrameLength == At(offset + 1) * 256 + At(offset + 2)

Payload == SubSeq(data, offset + 4, offset + 3 + FrameLength)

-----------------------------------------------------------------------------
(* The loop condition fails: parsing ends.                                 *)
ScanEnd ==
  /\ pstate = "scanning"
  /\ ~LoopGuard
  /\ pstate' = "done"
  /\ UNCHANGED <<offset, report>>

(* Mutation: `continue` without advancing the offset.                     *)
SkipByteNoAdvance ==
  /\ pstate = "scanning"
  /\ LoopGuard
  /\ At(offset) \notin Codes
  /\ offset' = offset
  /\ UNCHANGED <<report, pstate>>

(* A byte outside 100..105 is skipped (resynchronisation).                 *)
SkipByte ==
  /\ pstate = "scanning"
  /\ LoopGuard
  /\ At(offset) \notin Codes
  /\ offset' = offset + 1
  /\ UNCHANGED <<report, pstate>>

(* A command byte whose frame runs past the end of the buffer: break.     *)
Overrun ==
  /\ pstate = "scanning"
  /\ LoopGuard
  /\ At(offset) \in Codes
  /\ offset + 3 + FrameLength > Len(data)
  /\ pstate' = "done"
  /\ UNCHANGED <<offset, report>>

(* A whole frame is decoded and the loop moves past it.                    *)
ParseFrame ==
  /\ pstate = "scanning"
  /\ LoopGuard
  /\ At(offset) \in Codes
  /\ offset + 3 + FrameLength <= Len(data)
  /\ report' = Apply(report, At(offset), Payload)
  /\ offset' = offset + 3 + FrameLength
  /\ UNCHANGED pstate

ParseStep == ScanEnd \/ SkipByte \/ Overrun \/ ParseFrame

(* The state of the loop before its first iteration.                       *)
ParseInit ==
  /\ offset = 0
  /\ report = EmptyReport
  /\ pstate = "scanning"

ParseTypeOK ==
  /\ data \in Seq(Byte)
  /\ offset \in Nat
  /\ report \in Report
  /\ pstate \in {"scanning", "done"}
=============================================================================
