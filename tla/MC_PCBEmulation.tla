-------------------------- MODULE MC_PCBEmulation --------------------------
(***************************************************************************)
(* Kernel outputs for TLC: a passing, a failing and an overridden suite    *)
(* (SUITE_END reports a failure no FAIL frame showed), each after a quiet  *)
(* CR LF banner and followed by the real 8-byte end marker, and a kernel   *)
(* that hangs before the marker.  MCBootStreams puts real boot text in     *)
(* front of the frames instead; the run uses both.                         *)
(***************************************************************************)
EXTENDS PCBEmulation, SequencesExt

MCEndMarker == <<222, 173, 190, 239, 202, 254, 186, 190>>

MCTimeout == 2

Pass1   == [code |-> 102, payload |-> <<0, 1, 0, 0, 0, 42>>]
Fail2   == [code |-> 103, payload |-> <<0, 2>>]
End1of1 == [code |-> 105, payload |-> <<0, 1, 0, 0, 0, 1>>]

Encode(f) == <<f.code, Len(f.payload) \div 256, Len(f.payload) % 256>> \o f.payload

EncodeAll(fs) == FlattenSeq([i \in DOMAIN fs |-> Encode(fs[i])])

Banner == <<13, 10>>

KernelRuns == { <<Pass1>>, <<Fail2>>, <<Pass1, End1of1>> }

MCStreams ==
  { [frames |-> fs, bytes |-> Banner \o EncodeAll(fs) \o MCEndMarker] : fs \in KernelRuns }
  \cup { [frames |-> <<Pass1>>, bytes |-> Banner \o Encode(Pass1)] }

(* Real boot text before the frames: "ing" of "Booting" ends the banner,   *)
(* and its 'i' (105) is a SUITE_END code byte to parse_results.           *)
BootBanner == <<105, 110, 103, 13, 10>>

MCBootStreams ==
  { [frames |-> fs, bytes |-> BootBanner \o EncodeAll(fs) \o MCEndMarker] :
      fs \in {<<Pass1>>, <<Fail2>>} }

MCAllStreams == MCStreams \cup MCBootStreams
=============================================================================
