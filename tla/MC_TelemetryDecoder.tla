------------------------- MODULE MC_TelemetryDecoder -------------------------
(***************************************************************************)
(* Captures for TLC: every sequence of at most MaxFrames frames from a     *)
(* small set that covers each code, short and complete payloads and an     *)
(* empty one, encoded as the kernel's test protocol encodes them, with a   *)
(* noise prefix and the end marker.                                        *)
(***************************************************************************)
EXTENDS TelemetryDecoder, SequencesExt

MaxFrames == 3

(* The fixed end marker DE AD BE EF CA FE BA BE.                           *)
EndMarker == <<222, 173, 190, 239, 202, 254, 186, 190>>

MCFrames ==
  { [code |-> 100, payload |-> <<0, 2, 65>>],          \* suite of 2, "A"
    [code |-> 101, payload |-> <<0, 1>>],              \* test 1 starts
    [code |-> 102, payload |-> <<0, 1, 0, 0, 1, 42>>], \* test 1 passes, 298 ms
    [code |-> 102, payload |-> <<0, 2>>],              \* pass without duration
    [code |-> 103, payload |-> <<0, 2, 120>>],         \* test 2 fails, "x"
    [code |-> 104, payload |-> <<>>],                  \* skip, empty payload
    [code |-> 105, payload |-> <<0, 2, 0, 1, 0, 1>>],  \* end: 2 total, 1/1
    [code |-> 105, payload |-> <<0, 2>>] }             \* end without tallies

(* code || length (2 bytes, big-endian) || payload                         *)
Encode(f) == <<f.code, Len(f.payload) \div 256, Len(f.payload) % 256>> \o f.payload

EncodeAll(fs) == FlattenSeq([i \in DOMAIN fs |-> Encode(fs[i])])

(* Boot text before the first frame: nothing, or bytes outside 100..105.   *)
QuietNoise == { <<>>, <<13, 10>> }

(* Boot text that contains "ing" (105, 110, 103): 'i' is TEST_SUITE_END.   *)
BannerNoise == QuietNoise \cup { <<105, 110, 103>> }

StreamsFrom(noise, trailer) ==
  { [frames |-> fs, bytes |-> n \o EncodeAll(fs) \o t] :
      fs \in BoundedSeq(MCFrames, MaxFrames), n \in noise, t \in trailer }

(* The first four bytes of a TEST_PASS frame: a capture cut inside it.     *)
CutFrame == <<102, 0, 6, 0>>

(* What parse_results sees after the marker was detected, or a buffer     *)
(* whose last frame is incomplete.                                         *)
MCStreamsMarked == StreamsFrom(QuietNoise, {EndMarker, CutFrame})

(* A buffer cut right after the last frame, as a resynchronising decoder   *)
(* is said to handle (spec 4.2).                                           *)
MCStreamsUnmarked == StreamsFrom(QuietNoise, {<<>>})

(* A boot banner with ordinary text in front of the frames.                *)
MCStreamsBanner == StreamsFrom(BannerNoise, {EndMarker})

(* The captures of spec 4.2 that the passing run leaves out: cut right     *)
(* after the last frame, or with boot text in front of the frames.         *)
MCStreamsEdge == MCStreamsUnmarked \cup MCStreamsBanner
=============================================================================
