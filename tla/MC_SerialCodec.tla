--------------------------- MODULE MC_SerialCodec ---------------------------
(***************************************************************************)
(* Two send_command calls, and a board that answers with RSP_OK and no     *)
(* payload (5 bytes), or with RSP_STATUS and the status byte running or    *)
(* error (6 bytes).  Two calls are enough for a reply cut short in the     *)
(* first call to be read by the second; the error status 0xFF is the one   *)
(* byte with the high bit set.                                             *)
(***************************************************************************)
EXTENDS SerialCodec

OkFrame      == [code |-> 16, data |-> <<>>]
RunningFrame == [code |-> 20, data |-> <<4>>]
ErrorFrame   == [code |-> 20, data |-> <<255>>]

MCReplies == {OkFrame, RunningFrame, ErrorFrame}

MCNumCalls == 2
=============================================================================
