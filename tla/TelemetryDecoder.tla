-------------------------- MODULE TelemetryDecoder --------------------------
(***************************************************************************)
(* parse_results run on one captured buffer.  The buffer is what the       *)
(* kernel under test wrote: a sequence of telemetry frames (`sent`), with  *)
(* the bytes around them that the stream carried.  The decoder must give   *)
(* back the report the sent frames describe (spec section 4.2).            *)
(***************************************************************************)
EXTENDS TelemetryParse, FiniteSets

(* A telemetry frame as the target emits it.                               *)
Frame == [code : Codes, payload : Seq(Byte)]

CONSTANT Streams  \* the captures: the frames sent and the bytes received

ASSUME StreamsAssumption ==
  Streams \subseteq [frames : Seq(Frame), bytes : Seq(Byte)]

VARIABLE sent     \* the frames the target emitted into this buffer

vars == <<data, offset, report, pstate, sent>>

Init ==
  /\ \E s \in Streams : sent = s.frames /\ data = s.bytes
  /\ ParseInit

Next == ParseStep /\ UNCHANGED <<data, sent>>

Spec == Init /\ [][Next]_vars /\ WF_vars(Next)

TypeOK == ParseTypeOK /\ sent \in Seq(Frame)

-----------------------------------------------------------------------------
(***************************************************************************)
(* The report the frames describe, stated over the whole frame sequence    *)
(* (spec 4.2): one record per PASS/FAIL/SKIP frame in order; skipped       *)
(* counts SKIP frames; passed and failed count their frames after the last *)
(* complete SUITE_END, starting from that frame's tallies; total is taken  *)
(* from the last SUITE_START or complete SUITE_END.                        *)
(***************************************************************************)
IsEnd(f) == f.code = CMD_TEST_SUITE_END /\ Len(f.payload) >= 6

IsRecordFrame(f) == f.code \in {CMD_TEST_PASS, CMD_TEST_FAIL, CMD_TEST_SKIP}

StatusOf(c) == CASE c = CMD_TEST_PASS -> "pass"
                 [] c = CMD_TEST_FAIL -> "fail"
                 [] c = CMD_TEST_SKIP -> "skip"

(* The last index of fs whose frame satisfies P, 0 if there is none.       *)
LastIndex(fs, P(_)) ==
  IF \E i \in DOMAIN fs : P(fs[i])
  THEN CHOOSE i \in DOMAIN fs : P(fs[i]) /\ \A j \in DOMAIN fs : P(fs[j]) => j <= i
  ELSE 0

(* The number of frames of code c after index from.                        *)
CountAfter(fs, c, from) == Cardinality({i \in DOMAIN fs : i > from /\ fs[i].code = c})

ExpectedReport(fs) ==
  LET e    == LastIndex(fs, IsEnd)
      t    == LastIndex(fs, LAMBDA f : f.code = CMD_TEST_SUITE_START \/ IsEnd(f))
      recs == SelectSeq(fs, IsRecordFrame)
  IN [total   |-> IF t = 0 THEN 0 ELSE Num(fs[t].payload),
      passed  |-> (IF e = 0 THEN 0 ELSE U16(fs[e].payload, 2))
                    + CountAfter(fs, CMD_TEST_PASS, e),
      failed  |-> (IF e = 0 THEN 0 ELSE U16(fs[e].payload, 4))
                    + CountAfter(fs, CMD_TEST_FAIL, e),
      skipped |-> CountAfter(fs, CMD_TEST_SKIP, 0),
      tests   |-> [i \in DOMAIN recs |->
                     [num |-> Num(recs[i].payload),
                      status |-> StatusOf(recs[i].code),
                      duration |-> IF recs[i].code = CMD_TEST_PASS
                                   THEN Duration(recs[i].payload) ELSE 0]]]

(***************************************************************************)
(* When parse_results has finished, its results are exactly the report of  *)
(* the frames the target sent: no frame is lost to the resynchronisation   *)
(* or to the end of the buffer, none is invented from the bytes around     *)
(* the frames, and SUITE_END's tallies win over the counted records.       *)
(***************************************************************************)
DecodesSentFrames == pstate = "done" => report = ExpectedReport(sent)

(***************************************************************************)
(* parse_results terminates on every buffer: the loop index strictly grows *)
(* or the loop breaks.                                                     *)
(***************************************************************************)
ParseTerminates == <>(pstate = "done")
=============================================================================
