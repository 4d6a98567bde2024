---------------------------- MODULE SerialCodec ----------------------------
(***************************************************************************)
(* SerialController.send_command (rpi-test-controller.py) at the level of  *)
(* bytes: the request packet  [CMD:1][LEN:4 LE][DATA]  goes onto the link  *)
(* to the board, and the reply is read with three calls of serial.read on  *)
(* a port opened with timeout=1:                                           *)
(*     read(1)         the response code,                                 *)
(*     read(4)         the little-endian length,                          *)
(*     read(data_len)  the payload.                                        *)
(* read(n) returns as soon as n bytes are there, or when the timeout       *)
(* expires with the fewer bytes that have arrived by then; bytes arriving  *)
(* later stay in the input buffer for the next read.  The controller makes *)
(* NumCalls calls one after the other, as the polling loop does with       *)
(* CMD_STATUS.  The board (its firmware is not in this repository) reads   *)
(* whole packets, answers each with a frame from Replies, and its bytes    *)
(* arrive one at a time, as slowly as it likes.                            *)
(***************************************************************************)
EXTENDS Integers, Sequences, TLC

CONSTANTS Replies,   \* the frames the board may answer with
          NumCalls   \* send_command calls the controller makes

Byte == 0..255

(* TLC's integers stop at 2^31 - 1.  A length field of 2^31 or more is    *)
(* only ever compared with the few bytes in the buffer, so every such      *)
(* length is represented by this one value: read() never gets that many.   *)
LongLength == 2147483647

Frame == [code : Byte, data : Seq(Byte)]

(* The board's frames carry at most LongLength bytes of data: a longer     *)
(* payload is beyond what the model's length field represents.             *)
ASSUME CodecAssumption ==
  /\ Replies \subseteq Frame
  /\ \A f \in Replies : Len(f.data) <= LongLength
  /\ NumCalls \in Nat

CMD_STATUS == 4
RSP_ERROR  == 17

(* struct.pack('<I', n): n as four bytes, least significant first.         *)
Le32Bytes(n) == [i \in 1..4 |-> (n \div 2^(8 * (i - 1))) % 256]

(* Mutation: struct.unpack('<i', ...), the length read as signed.          *)
Le32Signed(b) == b[1] + b[2] * 2^8 + b[3] * 2^16 + (IF b[4] >= 128 THEN b[4] - 256 ELSE b[4]) * 2^24

(* struct.unpack('<I', len_bytes)[0].                                     *)
Le32(b) == IF b[4] < 128 THEN b[1] + b[2] * 2^8 + b[3] * 2^16 + b[4] * 2^24
           ELSE LongLength

(* bytes([cmd]) + struct.pack('<I', len(data)) + data.                     *)
Encode(code, data) == <<code>> \o Le32Bytes(Len(data)) \o data

VARIABLES tx,       \* bytes written to the board, not yet read by it
          pend,     \* bytes the board has sent that have not arrived yet
          rx,       \* the port's input buffer: arrived, not yet read
          cpc,      \* where send_command is: "write", "rsp", "len", "data"
          rspCode,  \* rsp[0]
          dataLen,  \* data_len
          calls,    \* send_command calls started
          results,  \* what each call returned, with ghost fields
          got,      \* bytes read so far by the current call (ghost)
          full,     \* no read of the current call timed out (ghost)
          start,    \* offset in wire of the current call's first byte (ghost)
          wire,     \* every byte the board has sent, in order (ghost)
          sent      \* offset in wire -> frame the board sent there (ghost)

vars == <<tx, pend, rx, cpc, rspCode, dataLen, calls, results, got, full,
          start, wire, sent>>

Init ==
  /\ tx = <<>> /\ pend = <<>> /\ rx = <<>>
  /\ cpc = "write"
  /\ rspCode = 0 /\ dataLen = 0
  /\ calls = 0
  /\ results = <<>>
  /\ got = <<>> /\ full = TRUE /\ start = 0
  /\ wire = <<>>
  /\ sent = <<>>

(* Offset in wire of the next byte the controller reads.                   *)
ReadPos == Len(wire) - Len(pend) - Len(rx)

-----------------------------------------------------------------------------
(* The board.                                                              *)

(* It takes a whole packet off the link and queues a reply frame.          *)
BoardReply ==
  /\ Len(tx) >= 5
  /\ Len(tx) >= 5 + Le32(SubSeq(tx, 2, 5))
  /\ \E f \in Replies :
       /\ pend' = pend \o Encode(f.code, f.data)
       /\ wire' = wire \o Encode(f.code, f.data)
       /\ sent' = [o \in DOMAIN sent \cup {Len(wire)} |->
                     IF o \in DOMAIN sent THEN sent[o] ELSE f]
  /\ tx' = SubSeq(tx, 6 + Le32(SubSeq(tx, 2, 5)), Len(tx))
  /\ UNCHANGED <<rx, cpc, rspCode, dataLen, calls, results, got, full, start>>

(* One byte of the reply reaches the port.                                 *)
Arrive ==
  /\ pend # <<>>
  /\ rx' = Append(rx, Head(pend))
  /\ pend' = Tail(pend)
  /\ UNCHANGED <<tx, cpc, rspCode, dataLen, calls, results, got, full, start,
                 wire, sent>>

-----------------------------------------------------------------------------
(* send_command.                                                          *)

(* A read takes the first k bytes of the input buffer.                     *)
Take(k) ==
  /\ rx' = SubSeq(rx, k + 1, Len(rx))
  /\ got' = got \o SubSeq(rx, 1, k)

(* return (code, data): the call ends and the next one may start.          *)
Return(code, data, k, ok) ==
  /\ results' = Append(results, [code |-> code, data |-> data, start |-> start,
                                 read |-> got \o SubSeq(rx, 1, k),
                                 full |-> full /\ ok])
  /\ cpc' = "write"

(* The packet is built and written in one serial.write.                     *)
Write ==
  /\ cpc = "write"
  /\ calls < NumCalls
  /\ tx' = tx \o Encode(CMD_STATUS, <<>>)
  /\ calls' = calls + 1
  /\ cpc' = "rsp"
  /\ got' = <<>> /\ full' = TRUE /\ start' = ReadPos
  /\ UNCHANGED <<pend, rx, rspCode, dataLen, results, wire, sent>>

(* rsp = read(1) returns a byte.                                           *)
ReadRsp ==
  /\ cpc = "rsp"
  /\ Len(rx) >= 1
  /\ rspCode' = Head(rx)
  /\ Take(1)
  /\ cpc' = "len"
  /\ UNCHANGED <<tx, pend, dataLen, calls, results, full, start, wire, sent>>

(* Mutation: the port is opened with timeout=None and read blocks.         *)
ReadRspBlocking == FALSE

(* read(1) times out with nothing: return RSP_ERROR, b''.                  *)
ReadRspTimeout ==
  /\ cpc = "rsp"
  /\ rx = <<>>
  /\ Return(RSP_ERROR, <<>>, 0, FALSE)
  /\ UNCHANGED <<tx, pend, rx, rspCode, dataLen, calls, got, full, start,
                 wire, sent>>

(* len_bytes = read(4): four bytes; data_len = 0 returns b'' at once.       *)
ReadLen ==
  /\ cpc = "len"
  /\ Len(rx) >= 4
  /\ dataLen' = Le32(SubSeq(rx, 1, 4))
  /\ IF dataLen' > 0
     THEN Take(4) /\ cpc' = "data" /\ UNCHANGED results
     ELSE Take(4) /\ Return(rspCode, <<>>, 4, TRUE)
  /\ UNCHANGED <<tx, pend, rspCode, calls, full, start, wire, sent>>

(* read(4) times out with fewer bytes: return rsp_code, b''.               *)
ReadLenTimeout ==
  /\ cpc = "len"
  /\ Len(rx) < 4
  /\ Take(Len(rx))
  /\ Return(rspCode, <<>>, Len(rx), FALSE)
  /\ UNCHANGED <<tx, pend, rspCode, dataLen, calls, full, start, wire, sent>>

(* Mutation: one byte of the payload is left unread.                       *)
ReadDataShort ==
  /\ cpc = "data"
  /\ Len(rx) >= dataLen
  /\ Take(dataLen - 1)
  /\ Return(rspCode, SubSeq(rx, 1, dataLen - 1), dataLen - 1, TRUE)
  /\ UNCHANGED <<tx, pend, rspCode, dataLen, calls, full, start, wire, sent>>

(* rsp_data = read(data_len) gets the whole payload.                       *)
ReadData ==
  /\ cpc = "data"
  /\ Len(rx) >= dataLen
  /\ Take(dataLen)
  /\ Return(rspCode, SubSeq(rx, 1, dataLen), dataLen, TRUE)
  /\ UNCHANGED <<tx, pend, rspCode, dataLen, calls, full, start, wire, sent>>

(* read(data_len) times out: what arrived is returned as the payload.      *)
ReadDataTimeout ==
  /\ cpc = "data"
  /\ Len(rx) < dataLen
  /\ Take(Len(rx))
  /\ Return(rspCode, rx, Len(rx), FALSE)
  /\ UNCHANGED <<tx, pend, rspCode, dataLen, calls, full, start, wire, sent>>

Controller ==
  \/ Write \/ ReadRsp \/ ReadRspTimeout \/ ReadLen \/ ReadLenTimeout
  \/ ReadData \/ ReadDataTimeout

Board == BoardReply \/ Arrive

Next == Controller \/ Board

(* Every read returns by its timeout, so send_command always progresses;   *)
(* the board may be arbitrarily slow or stop.                              *)
Spec == Init /\ [][Next]_vars /\ WF_vars(Controller)

-----------------------------------------------------------------------------
Result == [code : Byte, data : Seq(Byte), start : Nat, read : Seq(Byte),
           full : BOOLEAN]

TypeOK ==
  /\ tx \in Seq(Byte) /\ pend \in Seq(Byte) /\ rx \in Seq(Byte)
  /\ cpc \in {"write", "rsp", "len", "data"}
  /\ rspCode \in Byte
  /\ dataLen \in 0..LongLength
  /\ calls \in 0..NumCalls
  /\ results \in Seq(Result)
  /\ got \in Seq(Byte) /\ full \in BOOLEAN /\ start \in Nat
  /\ wire \in Seq(Byte)
  /\ DOMAIN sent \subseteq 0..Len(wire) /\ \A o \in DOMAIN sent : sent[o] \in Replies

(* A call that starts reading at the first byte of a reply and whose three *)
(* reads all get what they ask for returns exactly the code and payload    *)
(* the board sent in that frame: the field order and the little-endian     *)
(* length of send_command agree with the board's encoding, even when the   *)
(* bytes trickle in across several reads.                                  *)
DecodesAlignedFrame ==
  \A i \in 1..Len(results) :
    LET r == results[i] IN
    (r.full /\ r.start \in DOMAIN sent)
      => r.code = sent[r.start].code /\ r.data = sent[r.start].data

(* Spec 4.1 / 2.3: a length field that cannot be read in full is a       *)
(* truncated response, a short read is an error, and a framing violation  *)
(* is fatal for that single command.  So a call that returns a code other *)
(* than RSP_ERROR has read exactly one whole frame of the board, from its  *)
(* first byte: not a cut header, not a short payload, not the leftover of  *)
(* an earlier reply.                                                       *)
ReturnsWholeFrame ==
  \A i \in 1..Len(results) :
    LET r == results[i] IN
    r.code # RSP_ERROR =>
      /\ r.start \in DOMAIN sent
      /\ r.read = Encode(sent[r.start].code, sent[r.start].data)

(* Every send_command returns, however slow or silent the board: each of  *)
(* its reads is bounded by the port's 1 s timeout.                         *)
CallsReturn == <>(calls = NumCalls /\ cpc = "write")
=============================================================================
