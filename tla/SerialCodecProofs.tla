-------------------------- MODULE SerialCodecProofs --------------------------
(***************************************************************************)
(* send_command decodes the board's frames: a call that starts reading at  *)
(* the first byte of a frame and whose reads all get what they ask for     *)
(* returns that frame's code and payload, for every set of replies and     *)
(* number of calls, however the bytes are split across reads.              *)
(***************************************************************************)
EXTENDS SerialCodec, SequenceTheorems, TLAPS

(* The bytes of a frame on the wire.                                       *)
Enc(f) == Encode(f.code, f.data)

(* The bytes in the port's buffer and those still on the way are the end  *)
(* of what the board has sent, in order: the next byte read is the one at  *)
(* ReadPos + 1 in wire.                                                    *)
WireOK ==
  /\ Len(rx) + Len(pend) <= Len(wire)
  /\ \A k \in 1..Len(rx) : rx[k] = wire[ReadPos + k]
  /\ \A k \in 1..Len(pend) : pend[k] = wire[ReadPos + Len(rx) + k]

(* The current call has read the bytes of wire from start on, and what it *)
(* has decoded so far is what those bytes say.                             *)
CallOK ==
  /\ full = TRUE
  /\ start + Len(got) = ReadPos
  /\ \A k \in 1..Len(got) : got[k] = wire[start + k]
  /\ cpc = "rsp" => got = <<>>
  /\ cpc = "len" => Len(got) = 1 /\ rspCode = got[1]
  /\ cpc = "data" => /\ Len(got) = 5 /\ rspCode = got[1]
                     /\ dataLen = Le32(SubSeq(got, 2, 5)) /\ dataLen > 0

(* A call whose reads were all complete read bytes of wire w, and returned *)
(* the code and payload of the frame those bytes spell.                    *)
RecOK(r, w) ==
  /\ r.start + Len(r.read) <= Len(w)
  /\ \A k \in 1..Len(r.read) : r.read[k] = w[r.start + k]
  /\ Len(r.read) = 5 + Le32(SubSeq(r.read, 2, 5))
  /\ r.code = r.read[1]
  /\ Len(r.data) = Len(r.read) - 5
  /\ \A k \in 1..Len(r.data) : r.data[k] = r.read[5 + k]

ResultsOK == \A i \in 1..Len(results) : results[i].full => RecOK(results[i], wire)

(* Every frame the board sent is in wire at its offset.                    *)
SentOK ==
  \A o \in DOMAIN sent :
    /\ o + Len(Enc(sent[o])) <= Len(wire)
    /\ \A k \in 1..Len(Enc(sent[o])) : Enc(sent[o])[k] = wire[o + k]

(***************************************************************************)
(* DecodesAlignedFrame is not inductive: a result is compared with a frame *)
(* of wire only at the end.  The invariant follows every byte from the     *)
(* board to the result that holds it.                                      *)
(***************************************************************************)
DInv == TypeOK /\ WireOK /\ CallOK /\ ResultsOK /\ SentOK

-----------------------------------------------------------------------------
(* The powers of two the byte arithmetic uses.                             *)
LEMMA Powers ==
  /\ 2^0 = 1 /\ 2^8 = 256 /\ 2^16 = 65536 /\ 2^24 = 16777216
  /\ 2^(8 * (1 - 1)) = 1 /\ 2^(8 * (2 - 1)) = 256
  /\ 2^(8 * (3 - 1)) = 65536 /\ 2^(8 * (4 - 1)) = 16777216
BY SMT

(* struct.pack('<I', n) gives four bytes.                                  *)
LEMMA Le32BytesType ==
  ASSUME NEW n \in Nat
  PROVE  /\ Le32Bytes(n) \in Seq(Byte)
         /\ Len(Le32Bytes(n)) = 4
         /\ Le32Bytes(n)[1] = n % 256
         /\ Le32Bytes(n)[2] = (n \div 256) % 256
         /\ Le32Bytes(n)[3] = (n \div 65536) % 256
         /\ Le32Bytes(n)[4] = (n \div 16777216) % 256
<1>1. /\ Le32Bytes(n)[1] = (n \div 2^(8 * (1 - 1))) % 256
      /\ Le32Bytes(n)[2] = (n \div 2^(8 * (2 - 1))) % 256
      /\ Le32Bytes(n)[3] = (n \div 2^(8 * (3 - 1))) % 256
      /\ Le32Bytes(n)[4] = (n \div 2^(8 * (4 - 1))) % 256
      /\ Le32Bytes(n) = [i \in 1..4 |-> Le32Bytes(n)[i]]
  BY DEF Le32Bytes
<1>2. /\ Le32Bytes(n)[1] = n % 256
      /\ Le32Bytes(n)[2] = (n \div 256) % 256
      /\ Le32Bytes(n)[3] = (n \div 65536) % 256
      /\ Le32Bytes(n)[4] = (n \div 16777216) % 256
  BY <1>1, Powers
<1>3. \A i \in 1..4 : Le32Bytes(n)[i] \in Byte
  BY <1>2 DEF Byte
<1>4. Le32Bytes(n) \in Seq(Byte) /\ Len(Le32Bytes(n)) = 4
  BY <1>1, <1>3
<1>. QED
  BY <1>2, <1>4

(* struct.unpack('<I') of struct.pack('<I', n) is n, for every length the  *)
(* model represents.                                                       *)
(* The largest length the model represents, 2^31 - 1.                      *)
LEMMA LongLengthValue == LongLength = 128 * 16777216 - 1
BY DEF LongLength

LEMMA Le32RoundTrip ==
  ASSUME NEW n \in Nat, n <= LongLength
  PROVE  Le32(Le32Bytes(n)) = n
<1>0. n \in Nat
  OBVIOUS
<1>1. /\ Le32Bytes(n)[1] = n % 256
      /\ Le32Bytes(n)[2] = (n \div 256) % 256
      /\ Le32Bytes(n)[3] = (n \div 65536) % 256
      /\ Le32Bytes(n)[4] = (n \div 16777216) % 256
  BY <1>0, Le32BytesType
<1>2. Le32Bytes(n)[4] < 128
  BY <1>1, LongLengthValue
<1>3. Le32(Le32Bytes(n)) = Le32Bytes(n)[1] + Le32Bytes(n)[2] * 256 + Le32Bytes(n)[3] * 65536 + Le32Bytes(n)[4] * 16777216
  BY <1>2, Powers DEF Le32
<1>4. /\ n = (n % 256) + 256 * (n \div 256)
      /\ n \div 256 = ((n \div 256) % 256) + 256 * (n \div 65536)
      /\ n \div 65536 = ((n \div 65536) % 256) + 256 * (n \div 16777216)
      /\ n \div 16777216 = (n \div 16777216) % 256
  BY LongLengthValue
<1>. QED
  BY <1>1, <1>3, <1>4
(* Four bytes, the last below 128, weigh at most 2^31 - 1.                *)
LEMMA Le32Arith ==
  ASSUME NEW b,
         b[1] \in Int, 0 <= b[1], b[1] <= 255,
         b[2] \in Int, 0 <= b[2], b[2] <= 255,
         b[3] \in Int, 0 <= b[3], b[3] <= 255,
         b[4] \in Int, 0 <= b[4], b[4] < 128
  PROVE  /\ b[1] + b[2] * 256 + b[3] * 65536 + b[4] * 16777216 \in Nat
         /\ b[1] + b[2] * 256 + b[3] * 65536 + b[4] * 16777216 <= 128 * 16777216 - 1
<1>1. 0 <= b[3] + b[4] * 256 /\ b[3] + b[4] * 256 <= 32767
  BY SMT
<1>2. 0 <= b[2] + (b[3] + b[4] * 256) * 256 /\ b[2] + (b[3] + b[4] * 256) * 256 <= 8388607
  BY <1>1, SMT
<1>3. 0 <= b[1] + (b[2] + (b[3] + b[4] * 256) * 256) * 256
      /\ b[1] + (b[2] + (b[3] + b[4] * 256) * 256) * 256 <= 128 * 16777216 - 1
  BY <1>2, SMT
<1>. QED
  BY <1>3, SMT

(* A length read from four bytes is never negative and at most LongLength. *)
LEMMA Le32Range ==
  ASSUME NEW b \in Seq(Byte), Len(b) >= 4
  PROVE  Le32(b) \in Nat /\ Le32(b) <= LongLength
<1>1. /\ b[1] \in 0..255 /\ b[2] \in 0..255
      /\ b[3] \in 0..255 /\ b[4] \in 0..255
  <2>1. \A k \in 1..4 : b[k] \in Byte
    BY ElementOfSeq
  <2>. QED
    BY ONLY <2>1 DEF Byte
<1>2. /\ b[1] \in Int /\ 0 <= b[1] /\ b[1] <= 255
      /\ b[2] \in Int /\ 0 <= b[2] /\ b[2] <= 255
      /\ b[3] \in Int /\ 0 <= b[3] /\ b[3] <= 255
      /\ b[4] \in Int /\ 0 <= b[4] /\ b[4] <= 255
  <2>1. \A x \in 0..255 : x \in Int /\ 0 <= x /\ x <= 255
    OBVIOUS
  <2>. QED
    BY ONLY <1>1, <2>1, ZenonT(40)
<1>3. CASE b[4] < 128
  <2>1. Le32(b) = b[1] + b[2] * 256 + b[3] * 65536 + b[4] * 16777216
    BY ONLY <1>3, Powers DEF Le32
  <2>2. /\ b[1] + b[2] * 256 + b[3] * 65536 + b[4] * 16777216 \in Nat
        /\ b[1] + b[2] * 256 + b[3] * 65536 + b[4] * 16777216 <= 128 * 16777216 - 1
    BY ONLY <1>2, <1>3, Le32Arith
  <2>. QED
    BY ONLY <2>1, <2>2, LongLengthValue
<1>4. CASE ~(b[4] < 128)
  <2>1. Le32(b) = LongLength
    BY <1>4 DEF Le32
  <2>. QED
    BY ONLY <2>1, LongLengthValue
<1>. QED
  BY <1>3, <1>4

(* Le32 reads nothing but the first four bytes.                           *)
LEMMA Le32Same ==
  ASSUME NEW b, NEW c, b[1] = c[1], b[2] = c[2], b[3] = c[3], b[4] = c[4]
  PROVE  Le32(b) = Le32(c)
BY DEF Le32

(* A byte put in front of a sequence.                                      *)
LEMMA ConsFacts ==
  ASSUME NEW S, NEW x \in S, NEW s \in Seq(S)
  PROVE  /\ <<x>> \o s \in Seq(S)
         /\ Len(<<x>> \o s) = 1 + Len(s)
         /\ (<<x>> \o s)[1] = x
         /\ \A k \in 1..Len(s) : (<<x>> \o s)[1 + k] = s[k]
<1>1. <<x>> \in Seq(S) /\ Len(<<x>>) = 1 /\ <<x>>[1] = x
  OBVIOUS
<1>. QED
  BY <1>1, ConcatProperties

(* The layout of an encoded frame: its code, the four bytes of its length *)
(* and its payload, the length reading back as the payload's length.      *)
LEMMA EncodeFacts ==
  ASSUME NEW c \in Byte, NEW d \in Seq(Byte), Len(d) <= LongLength
  PROVE  /\ Encode(c, d) \in Seq(Byte)
         /\ Len(Encode(c, d)) = 5 + Len(d)
         /\ Encode(c, d)[1] = c
         /\ \A k \in 1..Len(d) : Encode(c, d)[5 + k] = d[k]
         /\ Le32(SubSeq(Encode(c, d), 2, 5)) = Len(d)
<1>1. /\ Le32Bytes(Len(d)) \in Seq(Byte)
      /\ Len(Le32Bytes(Len(d))) = 4
  BY Le32BytesType
<1>2. c \in Byte
  OBVIOUS
<1>3. /\ <<c>> \o Le32Bytes(Len(d)) \in Seq(Byte)
      /\ Len(<<c>> \o Le32Bytes(Len(d))) = 5
      /\ (<<c>> \o Le32Bytes(Len(d)))[1] = c
      /\ \A k \in 1..4 : (<<c>> \o Le32Bytes(Len(d)))[1 + k] = Le32Bytes(Len(d))[k]
  <2>1. /\ <<c>> \o Le32Bytes(Len(d)) \in Seq(Byte)
        /\ Len(<<c>> \o Le32Bytes(Len(d))) = 1 + Len(Le32Bytes(Len(d)))
        /\ (<<c>> \o Le32Bytes(Len(d)))[1] = c
        /\ \A k \in 1..Len(Le32Bytes(Len(d))) :
              (<<c>> \o Le32Bytes(Len(d)))[1 + k] = Le32Bytes(Len(d))[k]
    <3>1. Le32Bytes(Len(d)) \in Seq(Byte)
      BY ONLY <1>1
    <3>. QED
      BY ONLY <3>1, <1>2, ConsFacts
  <2>. QED
    BY ONLY <1>1, <2>1
<1>4. Encode(c, d) = (<<c>> \o Le32Bytes(Len(d))) \o d
  BY DEF Encode
<1>5. /\ Encode(c, d) \in Seq(Byte)
      /\ Len(Encode(c, d)) = 5 + Len(d)
      /\ \A k \in 1..5 : Encode(c, d)[k] = (<<c>> \o Le32Bytes(Len(d)))[k]
      /\ \A k \in 1..Len(d) : Encode(c, d)[5 + k] = d[k]
  BY ONLY <1>3, <1>4, ConcatProperties
<1>6. Encode(c, d)[1] = c
  BY ONLY <1>3, <1>5
<1>7. \A k \in 1..4 : Encode(c, d)[1 + k] = Le32Bytes(Len(d))[k]
  BY ONLY <1>3, <1>5
<1>8. /\ SubSeq(Encode(c, d), 2, 5)[1] = Le32Bytes(Len(d))[1]
      /\ SubSeq(Encode(c, d), 2, 5)[2] = Le32Bytes(Len(d))[2]
      /\ SubSeq(Encode(c, d), 2, 5)[3] = Le32Bytes(Len(d))[3]
      /\ SubSeq(Encode(c, d), 2, 5)[4] = Le32Bytes(Len(d))[4]
  <2>1. \A k \in 1..4 : SubSeq(Encode(c, d), 2, 5)[k] = Encode(c, d)[1 + k]
    BY ONLY <1>5, SubSeqProperties, ElementOfSeq
  <2>. QED
    BY ONLY <1>7, <2>1
<1>9. Le32(SubSeq(Encode(c, d), 2, 5)) = Le32(Le32Bytes(Len(d)))
  BY ONLY <1>8, Le32Same
<1>10. Le32(Le32Bytes(Len(d))) = Len(d)
  BY Le32RoundTrip
<1>. QED
  BY ONLY <1>5, <1>6, <1>9, <1>10

(* Appending t to s keeps s in front and puts t right after it.           *)
LEMMA ConcatFacts ==
  ASSUME NEW s \in Seq(Byte), NEW t \in Seq(Byte)
  PROVE  /\ s \o t \in Seq(Byte)
         /\ Len(s \o t) = Len(s) + Len(t)
         /\ \A i \in 1..Len(s) : (s \o t)[i] = s[i]
         /\ \A k \in 1..Len(t) : (s \o t)[Len(s) + k] = t[k]
<1>1. Len(s) \in Nat /\ Len(t) \in Nat
  BY LenProperties
<1>. QED
  BY <1>1, ConcatProperties

(* A read that takes k bytes from the port's buffer and appends them to   *)
(* got: the buffer and the call stay aligned with wire.                    *)
LEMMA TakeLemma ==
  ASSUME TypeOK, WireOK, CallOK,
         NEW k \in 0..Len(rx),
         rx' = SubSeq(rx, k + 1, Len(rx)),
         got' = got \o SubSeq(rx, 1, k),
         UNCHANGED <<pend, wire, start>>
  PROVE  /\ rx' \in Seq(Byte) /\ got' \in Seq(Byte)
         /\ Len(rx') = Len(rx) - k /\ Len(got') = Len(got) + k
         /\ WireOK'
         /\ start' + Len(got') = ReadPos'
         /\ \A j \in 1..Len(got') : got'[j] = wire'[start' + j]
         /\ \A j \in 1..Len(got) : got'[j] = got[j]
         /\ \A j \in 1..k : got'[Len(got) + j] = rx[j]
<1>1. /\ rx \in Seq(Byte) /\ got \in Seq(Byte) /\ pend \in Seq(Byte)
      /\ wire \in Seq(Byte)
  BY DEF TypeOK
<1>2. k \in 0..Len(rx)
  OBVIOUS
<1>16. pend' = pend /\ wire' = wire /\ start' = start
  OBVIOUS
<1>17. /\ Len(rx) \in Nat /\ Len(got) \in Nat
       /\ Len(pend) \in Nat /\ Len(wire) \in Nat
  BY ONLY <1>1, LenProperties
<1>0. rx' = SubSeq(rx, k + 1, Len(rx)) /\ got' = got \o SubSeq(rx, 1, k)
  OBVIOUS
<1>3. /\ ReadPos \in Nat /\ start \in Nat
      /\ ReadPos + Len(rx) <= Len(wire)
      /\ start + Len(got) = ReadPos
  <2>1. Len(rx) + Len(pend) <= Len(wire)
    BY DEF WireOK
  <2>2. ReadPos = Len(wire) - Len(pend) - Len(rx)
    BY DEF ReadPos
  <2>. QED
    BY <1>1, <2>1, <2>2 DEF CallOK, TypeOK
<1>4. \A j \in 1..Len(rx) : rx[j] = wire[ReadPos + j]
  BY DEF WireOK
<1>5. \A j \in 1..Len(got) : got[j] = wire[start + j]
  BY DEF CallOK
<1>6. \A j \in 1..Len(pend) : pend[j] = wire[ReadPos + Len(rx) + j]
  BY DEF WireOK
<1>7. /\ SubSeq(rx, k + 1, Len(rx)) \in Seq(Byte)
      /\ Len(SubSeq(rx, k + 1, Len(rx))) = Len(rx) - k
      /\ \A j \in 1..Len(rx) - k : SubSeq(rx, k + 1, Len(rx))[j] = rx[k + j]
  BY ONLY <1>1, <1>2, SubSeqProperties, ElementOfSeq
<1>8. /\ SubSeq(rx, 1, k) \in Seq(Byte)
      /\ Len(SubSeq(rx, 1, k)) = k
      /\ \A j \in 1..k : SubSeq(rx, 1, k)[j] = rx[j]
  BY ONLY <1>1, <1>2, SubSeqProperties, ElementOfSeq
<1>9. /\ got \o SubSeq(rx, 1, k) \in Seq(Byte)
      /\ Len(got \o SubSeq(rx, 1, k)) = Len(got) + k
      /\ \A j \in 1..Len(got) : (got \o SubSeq(rx, 1, k))[j] = got[j]
      /\ \A j \in 1..k : (got \o SubSeq(rx, 1, k))[Len(got) + j] = rx[j]
  <2>1. /\ got \o SubSeq(rx, 1, k) \in Seq(Byte)
        /\ Len(got \o SubSeq(rx, 1, k)) = Len(got) + Len(SubSeq(rx, 1, k))
        /\ \A j \in 1..Len(got) : (got \o SubSeq(rx, 1, k))[j] = got[j]
        /\ \A j \in 1..Len(SubSeq(rx, 1, k)) :
              (got \o SubSeq(rx, 1, k))[Len(got) + j] = SubSeq(rx, 1, k)[j]
    BY ONLY <1>1, <1>8, ConcatFacts
  <2>. QED
    BY ONLY <1>8, <2>1
<1>10. /\ rx' \in Seq(Byte) /\ got' \in Seq(Byte)
       /\ Len(rx') = Len(rx) - k /\ Len(got') = Len(got) + k
       /\ \A j \in 1..Len(got) : got'[j] = got[j]
       /\ \A j \in 1..k : got'[Len(got) + j] = rx[j]
  BY ONLY <1>0, <1>7, <1>9
<1>11. ReadPos' = ReadPos + k
  <2>1. ReadPos' = Len(wire) - Len(pend) - Len(rx')
    BY ONLY <1>16 DEF ReadPos
  <2>2. ReadPos = Len(wire) - Len(pend) - Len(rx)
    BY DEF ReadPos
  <2>. QED
    BY ONLY <1>17, <1>2, <1>16, <1>10, <2>1, <2>2
<1>12. \A j \in 1..Len(rx') : rx'[j] = wire'[ReadPos' + j]
  <2>1. SUFFICES ASSUME NEW j \in 1..Len(rx')
                 PROVE  rx'[j] = wire'[ReadPos' + j]
    OBVIOUS
  <2>2. j \in 1..Len(rx) - k
    BY ONLY <1>10, <2>1
  <2>3. rx'[j] = rx[k + j]
    BY ONLY <1>0, <1>7, <2>2
  <2>4. k + j \in 1..Len(rx) /\ ReadPos' + j = ReadPos + (k + j)
    BY ONLY <1>17, <1>2, <1>3, <1>11, <2>2
  <2>5. rx[k + j] = wire[ReadPos + (k + j)]
    BY ONLY <1>4, <2>4
  <2>. QED
    BY ONLY <1>16, <2>3, <2>4, <2>5
<1>13. WireOK'
  <2>1. Len(rx') + Len(pend') <= Len(wire')
    <3>1. Len(rx) + Len(pend) <= Len(wire)
      BY DEF WireOK
    <3>. QED
      BY ONLY <1>17, <1>2, <1>16, <1>10, <3>1
  <2>2. \A j \in 1..Len(pend') : pend'[j] = wire'[ReadPos' + Len(rx') + j]
    <3>1. SUFFICES ASSUME NEW j \in 1..Len(pend')
                   PROVE  pend'[j] = wire'[ReadPos' + Len(rx') + j]
      OBVIOUS
    <3>2. j \in 1..Len(pend) /\ ReadPos' + Len(rx') + j = ReadPos + Len(rx) + j
      BY ONLY <1>17, <1>2, <1>16, <1>3, <1>10, <1>11, <3>1
    <3>3. pend[j] = wire[ReadPos + Len(rx) + j]
      BY ONLY <1>6, <3>2
    <3>. QED
      BY ONLY <1>16, <3>2, <3>3
  <2>. QED
    BY ONLY <1>12, <2>1, <2>2 DEF WireOK
<1>14. \A j \in 1..Len(got') : got'[j] = wire'[start' + j]
  <2>1. SUFFICES ASSUME NEW j \in 1..Len(got')
                 PROVE  got'[j] = wire'[start' + j]
    OBVIOUS
  <2>2. j \in 1..Len(got) + k
    BY ONLY <1>10, <2>1
  <2>5. wire'[start' + j] = wire[start + j]
    BY ONLY <1>16
  <2>3. CASE j <= Len(got)
    BY ONLY <1>5, <1>10, <2>2, <2>3, <2>5
  <2>4. CASE j > Len(got)
    <3>1. got'[j] = rx[j - Len(got)]
      <4>1. j - Len(got) \in 1..k /\ j = Len(got) + (j - Len(got))
        BY ONLY <1>17, <1>2, <2>2, <2>4
      <4>. QED
        BY ONLY <1>10, <4>1
    <3>2. j - Len(got) \in 1..Len(rx) /\ ReadPos + (j - Len(got)) = start + j
      BY ONLY <1>17, <1>2, <1>3, <2>2, <2>4
    <3>3. rx[j - Len(got)] = wire[ReadPos + (j - Len(got))]
      BY ONLY <1>4, <3>2
    <3>. QED
      BY ONLY <2>5, <3>1, <3>2, <3>3
  <2>. QED
    BY ONLY <1>17, <2>2, <2>3, <2>4
<1>15. start' + Len(got') = ReadPos'
  <2>1. Len(got') = Len(got) + k
    BY ONLY <1>10
  <2>. QED
    BY ONLY <1>17, <1>2, <1>16, <1>3, <1>11, <2>1
<1>. QED
  BY ONLY <1>10, <1>13, <1>14, <1>15

-----------------------------------------------------------------------------
(* The initial state: nothing sent, nothing read, no call started.        *)
LEMMA InitDInv == Init => DInv
<1> SUFFICES ASSUME Init PROVE DInv
  OBVIOUS
<1>1. /\ tx = <<>> /\ pend = <<>> /\ rx = <<>> /\ cpc = "write"
      /\ rspCode = 0 /\ dataLen = 0 /\ calls = 0 /\ results = <<>>
      /\ got = <<>> /\ full = TRUE /\ start = 0 /\ wire = <<>> /\ sent = <<>>
  BY DEF Init
<1>2. TypeOK
  <2>1. NumCalls \in Nat /\ LongLength \in Nat
    BY CodecAssumption, LongLengthValue
  <2>2. <<>> \in Seq(Byte) /\ <<>> \in Seq(Result)
    BY EmptySeq
  <2>3. DOMAIN sent = {}
    BY <1>1
  <2>. QED
    BY <1>1, <2>1, <2>2, <2>3 DEF TypeOK, Byte
<1>3. ReadPos = 0
  <2>1. Len(wire) = 0 /\ Len(pend) = 0 /\ Len(rx) = 0
    BY ONLY <1>1
  <2>. QED
    BY ONLY <2>1 DEF ReadPos
<1>. QED
  BY <1>1, <1>2, <1>3 DEF DInv, WireOK, CallOK, ResultsOK, SentOK

(* The position of the next byte to read lies within wire.                 *)
LEMMA ReadPosFacts ==
  ASSUME TypeOK, WireOK
  PROVE  /\ ReadPos \in Nat
         /\ ReadPos + Len(rx) + Len(pend) = Len(wire)
<1>1. Len(rx) \in Nat /\ Len(pend) \in Nat /\ Len(wire) \in Nat
  <2>1. rx \in Seq(Byte) /\ pend \in Seq(Byte) /\ wire \in Seq(Byte)
    BY DEF TypeOK
  <2>. QED
    BY ONLY <2>1, LenProperties
<1>2. Len(rx) + Len(pend) <= Len(wire)
  BY DEF WireOK
<1>3. ReadPos = Len(wire) - Len(pend) - Len(rx)
  BY DEF ReadPos
<1>. QED
  BY ONLY <1>1, <1>2, <1>3

(* A step that changes neither wire, sent nor results keeps what the      *)
(* returned calls read and what the board sent aligned with wire.         *)
LEMMA KeepsSent ==
  ASSUME ResultsOK, SentOK, UNCHANGED <<wire, sent, results>>
  PROVE  ResultsOK' /\ SentOK'
<1>1. wire' = wire /\ sent' = sent /\ results' = results
  OBVIOUS
<1>. QED
  BY ONLY <1>1, ResultsOK, SentOK DEF ResultsOK, RecOK, SentOK, Enc

(* Write: the command goes out and the call starts at the next byte.      *)
LEMMA WriteDInv ==
  ASSUME DInv, Write
  PROVE  DInv'
<1>1. /\ TypeOK /\ WireOK /\ CallOK /\ ResultsOK /\ SentOK
  BY DEF DInv
<1>2. /\ cpc = "write" /\ calls < NumCalls
      /\ tx' = tx \o Encode(CMD_STATUS, <<>>)
      /\ calls' = calls + 1 /\ cpc' = "rsp"
      /\ got' = <<>> /\ full' = TRUE /\ start' = ReadPos
      /\ UNCHANGED <<pend, rx, rspCode, dataLen, results, wire, sent>>
  BY DEF Write
<1>3. ReadPos \in Nat /\ ReadPos' = ReadPos
  <2>1. ReadPos \in Nat
    BY ONLY <1>1, ReadPosFacts
  <2>2. ReadPos' = ReadPos
    BY ONLY <1>2 DEF ReadPos
  <2>. QED
    BY ONLY <2>1, <2>2
<1>4. TypeOK'
  <2>1. Encode(CMD_STATUS, <<>>) \in Seq(Byte)
    <3>1. CMD_STATUS \in Byte /\ <<>> \in Seq(Byte) /\ Len(<<>>) <= LongLength
      BY EmptySeq, LongLengthValue DEF CMD_STATUS, Byte
    <3>. QED
      BY ONLY <3>1, EncodeFacts
  <2>2. tx' \in Seq(Byte)
    <3>1. tx \in Seq(Byte)
      BY ONLY <1>1 DEF TypeOK
    <3>. QED
      BY ONLY <1>2, <2>1, <3>1, ConcatProperties
  <2>3. calls' \in 0..NumCalls
    <3>1. calls \in 0..NumCalls /\ NumCalls \in Nat
      BY <1>1, CodecAssumption DEF TypeOK
    <3>. QED
      BY ONLY <1>2, <3>1
  <2>4. got' \in Seq(Byte)
    BY ONLY <1>2, EmptySeq
  <2>. QED
    BY <1>1, <1>2, <1>3, <2>2, <2>3, <2>4 DEF TypeOK
<1>5. WireOK'
  BY ONLY <1>1, <1>2, <1>3 DEF WireOK
<1>6. CallOK'
  <2>1. Len(got') = 0
    BY ONLY <1>2, EmptySeq
  <2>2. start' + Len(got') = ReadPos'
    BY ONLY <1>2, <1>3, <2>1
  <2>. QED
    BY ONLY <1>2, <2>1, <2>2 DEF CallOK
<1>7. ResultsOK' /\ SentOK'
  BY ONLY <1>1, <1>2, KeepsSent
<1>. QED
  BY ONLY <1>4, <1>5, <1>6, <1>7 DEF DInv

(* A call that returns appends a well-typed result; if its reads were all  *)
(* complete, the record must spell the frame it read from wire.            *)
LEMMA ReturnLemma ==
  ASSUME results \in Seq(Result), ResultsOK,
         NEW r \in Result, r.full => RecOK(r, wire),
         results' = Append(results, r), wire' = wire
  PROVE  results' \in Seq(Result) /\ ResultsOK'
<1>1. /\ results' \in Seq(Result)
      /\ Len(results') = Len(results) + 1
      /\ \A i \in 1..Len(results) : results'[i] = results[i]
      /\ results'[Len(results) + 1] = r
  <2>1. results \in Seq(Result) /\ r \in Result
    OBVIOUS
  <2>2. results' = Append(results, r)
    OBVIOUS
  <2>. QED
    BY ONLY <2>1, <2>2, AppendProperties
<1>3. Len(results) \in Nat
  BY LenProperties
<1>4. ASSUME NEW i \in 1..Len(results')
      PROVE  results'[i].full => RecOK(results'[i], wire')
  <2>1. CASE i \in 1..Len(results)
    BY <1>1, <2>1 DEF ResultsOK
  <2>2. CASE i = Len(results) + 1
    BY <1>1, <2>2
  <2>. QED
    BY ONLY <1>1, <1>3, <2>1, <2>2
<1>. QED
  BY ONLY <1>1, <1>4 DEF ResultsOK

(* Steps that leave wire and sent alone keep every sent frame in place.   *)
LEMMA SentStable ==
  ASSUME SentOK, UNCHANGED <<wire, sent>>
  PROVE  SentOK'
<1>1. wire' = wire /\ sent' = sent
  OBVIOUS
<1>. QED
  BY ONLY <1>1, SentOK DEF SentOK, Enc

(* ReadRsp: the response code is the first byte of the call.              *)
LEMMA ReadRspDInv ==
  ASSUME DInv, ReadRsp
  PROVE  DInv'
<1>1. /\ TypeOK /\ WireOK /\ CallOK /\ ResultsOK /\ SentOK
  BY DEF DInv
<1>2. /\ cpc = "rsp" /\ Len(rx) >= 1 /\ rspCode' = Head(rx) /\ cpc' = "len"
      /\ rx' = SubSeq(rx, 1 + 1, Len(rx)) /\ got' = got \o SubSeq(rx, 1, 1)
      /\ UNCHANGED <<tx, pend, dataLen, calls, results, full, start, wire, sent>>
  BY DEF ReadRsp, Take
<1>3. 1 \in 0..Len(rx)
  <2>1. Len(rx) \in Nat
    BY <1>1, LenProperties DEF TypeOK
  <2>. QED
    BY ONLY <1>2, <2>1
<1>4. /\ rx' \in Seq(Byte) /\ got' \in Seq(Byte)
      /\ Len(got') = Len(got) + 1
      /\ WireOK'
      /\ start' + Len(got') = ReadPos'
      /\ \A j \in 1..Len(got') : got'[j] = wire'[start' + j]
      /\ \A j \in 1..1 : got'[Len(got) + j] = rx[j]
  BY ONLY <1>1, <1>2, <1>3, TakeLemma
<1>5. got = <<>> /\ Len(got) = 0
  <2>1. got = <<>>
    BY <1>1, <1>2 DEF CallOK
  <2>. QED
    BY ONLY <2>1, EmptySeq
<1>6. Len(got') = 1 /\ rspCode' = got'[1]
  <2>1. got'[0 + 1] = rx[1]
    BY ONLY <1>4, <1>5
  <2>2. Head(rx) = rx[1]
    BY DEF Head
  <2>. QED
    BY ONLY <1>2, <1>4, <1>5, <2>1, <2>2
<1>7. rspCode' \in Byte
  <2>1. rx \in Seq(Byte)
    BY <1>1 DEF TypeOK
  <2>2. rx[1] \in Byte
    BY ONLY <1>2, <2>1, ElementOfSeq
  <2>. QED
    BY ONLY <1>2, <2>2 DEF Head
<1>8. TypeOK'
  BY ONLY <1>1, <1>2, <1>4, <1>7 DEF TypeOK
<1>9. CallOK'
  BY ONLY <1>1, <1>2, <1>4, <1>6 DEF CallOK
<1>10. ResultsOK' /\ SentOK'
  BY ONLY <1>1, <1>2, KeepsSent
<1>. QED
  BY ONLY <1>4, <1>8, <1>9, <1>10 DEF DInv

(* ReadRspTimeout: the call returns an error that claims nothing.         *)
LEMMA ReadRspTimeoutDInv ==
  ASSUME DInv, ReadRspTimeout
  PROVE  DInv'
<1>1. /\ TypeOK /\ WireOK /\ CallOK /\ ResultsOK /\ SentOK
  BY DEF DInv
<1>. DEFINE r == [code |-> RSP_ERROR, data |-> <<>>, start |-> start,
                  read |-> got \o SubSeq(rx, 1, 0), full |-> full /\ FALSE]
<1>2. /\ cpc = "rsp" /\ rx = <<>> /\ results' = Append(results, r) /\ cpc' = "write"
      /\ UNCHANGED <<tx, pend, rx, rspCode, dataLen, calls, got, full, start,
                     wire, sent>>
  BY DEF ReadRspTimeout, Return
<1>3. r \in Result
  <2>1. got \o SubSeq(rx, 1, 0) \in Seq(Byte)
    <3>1. got \in Seq(Byte) /\ rx \in Seq(Byte)
      BY <1>1 DEF TypeOK
    <3>2. SubSeq(rx, 1, 0) \in Seq(Byte)
      BY ONLY <3>1, SubSeqProperties
    <3>. QED
      BY ONLY <3>1, <3>2, ConcatProperties
  <2>2. RSP_ERROR \in Byte /\ <<>> \in Seq(Byte) /\ start \in Nat /\ full \in BOOLEAN
    BY <1>1, EmptySeq DEF RSP_ERROR, Byte, TypeOK
  <2>. QED
    BY ONLY <2>1, <2>2 DEF Result
<1>4. results' \in Seq(Result) /\ ResultsOK'
  <2>1. results \in Seq(Result)
    BY <1>1 DEF TypeOK
  <2>2. r.full => RecOK(r, wire)
    OBVIOUS
  <2>. QED
    BY ONLY <1>1, <1>2, <1>3, <2>1, <2>2, ReturnLemma
<1>5. SentOK'
  BY ONLY <1>1, <1>2, SentStable
<1>6. TypeOK'
  BY ONLY <1>1, <1>2, <1>4 DEF TypeOK
<1>7. WireOK' /\ CallOK'
  <2>1. ReadPos' = ReadPos
    BY ONLY <1>2 DEF ReadPos
  <2>. QED
    BY ONLY <1>1, <1>2, <2>1 DEF WireOK, CallOK
<1>. QED
  BY ONLY <1>4, <1>5, <1>6, <1>7 DEF DInv

(* A read that times out takes what arrived and returns it marked short:   *)
(* the shape shared by ReadLenTimeout and ReadDataTimeout.                 *)
LEMMA ShortReturnDInv ==
  ASSUME DInv, NEW D \in Seq(Byte),
         Take(Len(rx)), Return(rspCode, D, Len(rx), FALSE),
         UNCHANGED <<tx, pend, rspCode, dataLen, calls, full, start, wire, sent>>
  PROVE  DInv'
<1>0. UNCHANGED <<tx, pend, rspCode, dataLen, calls, full, start, wire, sent>>
  OBVIOUS
<1>1. /\ TypeOK /\ WireOK /\ CallOK /\ ResultsOK /\ SentOK
  BY DEF DInv
<1>. DEFINE r == [code |-> rspCode, data |-> D, start |-> start,
                  read |-> got \o SubSeq(rx, 1, Len(rx)), full |-> full /\ FALSE]
<1>2. /\ rx' = SubSeq(rx, Len(rx) + 1, Len(rx))
      /\ got' = got \o SubSeq(rx, 1, Len(rx))
      /\ results' = Append(results, r) /\ cpc' = "write"
  BY DEF Take, Return
<1>3. Len(rx) \in 0..Len(rx)
  <2>1. Len(rx) \in Nat
    BY <1>1, LenProperties DEF TypeOK
  <2>. QED
    BY ONLY <2>1
<1>4. /\ rx' \in Seq(Byte) /\ got' \in Seq(Byte)
      /\ WireOK'
      /\ start' + Len(got') = ReadPos'
      /\ \A j \in 1..Len(got') : got'[j] = wire'[start' + j]
  <2>1. UNCHANGED <<pend, wire, start>>
    OBVIOUS
  <2>. QED
    BY ONLY <1>1, <1>2, <1>3, <2>1, TakeLemma
<1>5. r \in Result
  <2>1. rspCode \in Byte /\ start \in Nat /\ full \in BOOLEAN
    BY <1>1 DEF TypeOK
  <2>2. got \o SubSeq(rx, 1, Len(rx)) \in Seq(Byte)
    BY ONLY <1>2, <1>4
  <2>. QED
    BY ONLY <2>1, <2>2 DEF Result
<1>6. results' \in Seq(Result) /\ ResultsOK'
  <2>1. results \in Seq(Result)
    BY <1>1 DEF TypeOK
  <2>2. r.full => RecOK(r, wire)
    OBVIOUS
  <2>3. wire' = wire
    OBVIOUS
  <2>. QED
    BY ONLY <1>1, <1>2, <1>5, <2>1, <2>2, <2>3, ReturnLemma
<1>7. SentOK'
  BY ONLY <1>0, <1>1, SentStable
<1>8. TypeOK'
  BY ONLY <1>0, <1>1, <1>2, <1>4, <1>6 DEF TypeOK
<1>9. CallOK'
  BY ONLY <1>0, <1>1, <1>2, <1>4 DEF CallOK
<1>. QED
  BY ONLY <1>4, <1>6, <1>7, <1>8, <1>9 DEF DInv

LEMMA ReadLenTimeoutDInv ==
  ASSUME DInv, ReadLenTimeout
  PROVE  DInv'
<1>1. <<>> \in Seq(Byte)
  BY EmptySeq
<1>. QED
  BY ONLY <1>1, DInv, ReadLenTimeout, ShortReturnDInv DEF ReadLenTimeout

LEMMA ReadDataTimeoutDInv ==
  ASSUME DInv, ReadDataTimeout
  PROVE  DInv'
<1>1. rx \in Seq(Byte)
  BY DEF DInv, TypeOK
<1>. QED
  BY ONLY <1>1, DInv, ReadDataTimeout, ShortReturnDInv DEF ReadDataTimeout

(* ReadLen: the four length bytes follow the code in got, so the length    *)
(* the call acts on is the one spelled by bytes 2..5 of what it read.      *)
LEMMA ReadLenDInv ==
  ASSUME DInv, ReadLen
  PROVE  DInv'
<1>0. UNCHANGED <<tx, pend, rspCode, calls, full, start, wire, sent>>
  BY DEF ReadLen
<1>1. /\ TypeOK /\ WireOK /\ CallOK /\ ResultsOK /\ SentOK
  BY DEF DInv
<1>2. /\ cpc = "len" /\ Len(rx) >= 4 /\ dataLen' = Le32(SubSeq(rx, 1, 4))
      /\ rx' = SubSeq(rx, 4 + 1, Len(rx)) /\ got' = got \o SubSeq(rx, 1, 4)
  BY DEF ReadLen, Take
<1>3. Len(got) = 1 /\ rspCode = got[1]
  BY <1>1, <1>2 DEF CallOK
<1>4. 4 \in 0..Len(rx)
  <2>1. Len(rx) \in Nat
    BY <1>1, LenProperties DEF TypeOK
  <2>. QED
    BY ONLY <1>2, <2>1
<1>5. /\ rx' \in Seq(Byte) /\ got' \in Seq(Byte)
      /\ Len(got') = Len(got) + 4
      /\ WireOK'
      /\ start' + Len(got') = ReadPos'
      /\ \A j \in 1..Len(got') : got'[j] = wire'[start' + j]
      /\ \A j \in 1..Len(got) : got'[j] = got[j]
      /\ \A j \in 1..4 : got'[Len(got) + j] = rx[j]
  <2>1. UNCHANGED <<pend, wire, start>>
    BY ONLY <1>0
  <2>. QED
    BY ONLY <1>1, <1>2, <1>4, <2>1, TakeLemma
<1>6. Len(got') = 5 /\ got'[1] = rspCode
  BY ONLY <1>3, <1>5
<1>7. Le32(SubSeq(got', 2, 5)) = dataLen'
  <2>1. \A i \in 1..4 : SubSeq(got', 2, 5)[i] = got'[1 + i]
    <3>0. \A s \in Seq(Byte) : \A i \in 1..Len(s) : s[i] \in Byte
      BY ElementOfSeq
    <3>1. \A i \in 1..Len(got') : got'[i] \in Byte
      BY ONLY <1>5, <3>0
    <3>2. \A i \in 2..5 : got'[i] \in Byte
      BY ONLY <1>6, <3>1
    <3>. QED
      BY ONLY <3>2, SubSeqProperties
  <2>2. \A i \in 1..4 : SubSeq(rx, 1, 4)[i] = rx[i]
    <3>1. rx \in Seq(Byte)
      BY <1>1 DEF TypeOK
    <3>2. \A i \in 1..4 : rx[i] \in Byte
      BY ONLY <1>2, <3>1, ElementOfSeq
    <3>. QED
      BY ONLY <3>2, SubSeqProperties
  <2>3. \A i \in 1..4 : got'[1 + i] = rx[i]
    BY ONLY <1>3, <1>5
  <2>4. /\ SubSeq(got', 2, 5)[1] = SubSeq(rx, 1, 4)[1]
        /\ SubSeq(got', 2, 5)[2] = SubSeq(rx, 1, 4)[2]
        /\ SubSeq(got', 2, 5)[3] = SubSeq(rx, 1, 4)[3]
        /\ SubSeq(got', 2, 5)[4] = SubSeq(rx, 1, 4)[4]
    BY ONLY <2>1, <2>2, <2>3
  <2>. QED
    BY ONLY <1>2, <2>4, Le32Same
<1>8. dataLen' \in 0..LongLength
  <2>1. SubSeq(rx, 1, 4) \in Seq(Byte) /\ Len(SubSeq(rx, 1, 4)) = 4
    <3>1. rx \in Seq(Byte)
      BY <1>1 DEF TypeOK
    <3>2. \A i \in 1..4 : rx[i] \in Byte
      BY ONLY <1>2, <3>1, ElementOfSeq
    <3>. QED
      BY ONLY <3>2, SubSeqProperties
  <2>2. Le32(SubSeq(rx, 1, 4)) \in Nat /\ Le32(SubSeq(rx, 1, 4)) <= LongLength
    <3>1. Len(SubSeq(rx, 1, 4)) >= 4
      BY ONLY <2>1
    <3>. QED
      BY ONLY <2>1, <3>1, Le32Range
  <2>. QED
    BY ONLY <1>2, <2>2
<1>9. CASE dataLen' > 0
  <2>1. cpc' = "data" /\ results' = results
    BY <1>9 DEF ReadLen
  <2>2. TypeOK'
    BY ONLY <1>0, <1>1, <1>5, <1>8, <2>1 DEF TypeOK
  <2>3. CallOK'
    BY ONLY <1>0, <1>1, <1>5, <1>6, <1>7, <1>9, <2>1 DEF CallOK
  <2>4. ResultsOK' /\ SentOK'
    BY ONLY <1>0, <1>1, <2>1, KeepsSent
  <2>. QED
    BY ONLY <1>5, <2>2, <2>3, <2>4 DEF DInv
<1>10. CASE ~(dataLen' > 0)
  <2>. DEFINE r == [code |-> rspCode, data |-> <<>>, start |-> start,
                    read |-> got \o SubSeq(rx, 1, 4), full |-> full /\ TRUE]
  <2>1. results' = Append(results, r) /\ cpc' = "write"
    BY <1>10 DEF ReadLen, Return
  <2>2. dataLen' = 0
    BY ONLY <1>8, <1>10
  <2>3. r \in Result
    <3>1. rspCode \in Byte /\ start \in Nat /\ full \in BOOLEAN
      BY <1>1 DEF TypeOK
    <3>. QED
      BY ONLY <1>2, <1>5, <3>1, EmptySeq DEF Result
  <2>4. RecOK(r, wire)
    <3>1. ReadPos' = Len(wire) - Len(pend) - Len(rx')
      BY ONLY <1>0 DEF ReadPos
    <3>2. Len(pend) \in Nat /\ Len(rx') \in Nat /\ start \in Nat
      BY ONLY <1>1, <1>5, LenProperties DEF TypeOK
    <3>3. start + Len(got') <= Len(wire)
      BY ONLY <1>0, <1>5, <3>1, <3>2
    <3>4. \A k \in 1..Len(got') : got'[k] = wire[start + k]
      BY ONLY <1>0, <1>5
    <3>5. Len(got') = 5 + Le32(SubSeq(got', 2, 5))
      BY ONLY <1>6, <1>7, <2>2
    <3>6. Len(<<>>) = 0
      BY EmptySeq
    <3>7. r.start = start /\ r.read = got' /\ r.code = rspCode /\ r.data = <<>>
      BY ONLY <1>2
    <3>8. /\ r.start + Len(r.read) <= Len(wire)
          /\ \A k \in 1..Len(r.read) : r.read[k] = wire[r.start + k]
      BY ONLY <3>3, <3>4, <3>7
    <3>9. /\ Len(r.read) = 5 + Le32(SubSeq(r.read, 2, 5))
          /\ r.code = r.read[1]
      BY ONLY <1>6, <3>5, <3>7
    <3>10. Len(r.data) = 0 /\ Len(r.read) = 5
      BY ONLY <1>6, <3>6, <3>7
    <3>11. Len(r.data) = Len(r.read) - 5 /\ 1..Len(r.data) = {}
      BY ONLY <3>10
    <3>. QED
      BY ONLY <3>8, <3>9, <3>11 DEF RecOK
  <2>5. results' \in Seq(Result) /\ ResultsOK'
    <3>1. results \in Seq(Result)
      BY <1>1 DEF TypeOK
    <3>2. wire' = wire
      BY ONLY <1>0
    <3>. QED
      BY ONLY <1>1, <2>1, <2>3, <2>4, <3>1, <3>2, ReturnLemma
  <2>6. SentOK'
    BY ONLY <1>0, <1>1, SentStable
  <2>7. TypeOK'
    BY ONLY <1>0, <1>1, <1>5, <1>8, <2>1, <2>5 DEF TypeOK
  <2>8. CallOK'
    BY ONLY <1>0, <1>1, <1>5, <2>1 DEF CallOK
  <2>. QED
    BY ONLY <1>5, <2>5, <2>6, <2>7, <2>8 DEF DInv
<1>. QED
  BY ONLY <1>9, <1>10

(* ReadData: a call whose three reads were all complete returns the code   *)
(* and the dataLen bytes that follow the five header bytes it read.        *)
LEMMA ReadDataDInv ==
  ASSUME DInv, ReadData
  PROVE  DInv'
<1>0. UNCHANGED <<tx, pend, rspCode, dataLen, calls, full, start, wire, sent>>
  BY DEF ReadData
<1>1. /\ TypeOK /\ WireOK /\ CallOK /\ ResultsOK /\ SentOK
  BY DEF DInv
<1>. DEFINE D == SubSeq(rx, 1, dataLen)
            r == [code |-> rspCode, data |-> D, start |-> start,
                  read |-> got \o SubSeq(rx, 1, dataLen), full |-> full /\ TRUE]
<1>2. /\ cpc = "data" /\ Len(rx) >= dataLen
      /\ rx' = SubSeq(rx, dataLen + 1, Len(rx)) /\ got' = got \o SubSeq(rx, 1, dataLen)
      /\ results' = Append(results, r) /\ cpc' = "write"
  BY DEF ReadData, Take, Return
<1>3. /\ Len(got) = 5 /\ rspCode = got[1]
      /\ dataLen = Le32(SubSeq(got, 2, 5)) /\ dataLen > 0
  BY <1>1, <1>2 DEF CallOK
<1>4. dataLen \in 0..Len(rx) /\ dataLen \in Nat
  <2>1. Len(rx) \in Nat /\ dataLen \in 0..LongLength
    BY <1>1, LenProperties DEF TypeOK
  <2>. QED
    BY ONLY <1>2, <2>1
<1>5. /\ rx' \in Seq(Byte) /\ got' \in Seq(Byte)
      /\ Len(got') = Len(got) + dataLen
      /\ WireOK'
      /\ start' + Len(got') = ReadPos'
      /\ \A j \in 1..Len(got') : got'[j] = wire'[start' + j]
      /\ \A j \in 1..Len(got) : got'[j] = got[j]
      /\ \A j \in 1..dataLen : got'[Len(got) + j] = rx[j]
  <2>1. UNCHANGED <<pend, wire, start>>
    BY ONLY <1>0
  <2>. QED
    BY ONLY <1>1, <1>2, <1>4, <2>1, TakeLemma
<1>6. Len(got') = 5 + dataLen /\ got'[1] = rspCode
  BY ONLY <1>3, <1>4, <1>5
<1>7. Le32(SubSeq(got', 2, 5)) = dataLen
  <2>0. \A s \in Seq(Byte) : \A i \in 1..Len(s) : s[i] \in Byte
    BY ElementOfSeq
  <2>1. \A i \in 1..4 : SubSeq(got', 2, 5)[i] = got'[1 + i]
    <3>1. \A i \in 1..Len(got') : got'[i] \in Byte
      BY ONLY <1>5, <2>0
    <3>2. \A i \in 2..5 : got'[i] \in Byte
      BY ONLY <1>4, <1>6, <3>1
    <3>. QED
      BY ONLY <3>2, SubSeqProperties
  <2>2. \A i \in 1..4 : SubSeq(got, 2, 5)[i] = got[1 + i]
    <3>1. got \in Seq(Byte)
      BY <1>1 DEF TypeOK
    <3>2. \A i \in 1..Len(got) : got[i] \in Byte
      BY ONLY <3>1, <2>0
    <3>3. \A i \in 2..5 : got[i] \in Byte
      BY ONLY <1>3, <3>2
    <3>. QED
      BY ONLY <3>3, SubSeqProperties
  <2>3. \A i \in 1..4 : got'[1 + i] = got[1 + i]
    BY ONLY <1>3, <1>5
  <2>4. /\ SubSeq(got', 2, 5)[1] = SubSeq(got, 2, 5)[1]
        /\ SubSeq(got', 2, 5)[2] = SubSeq(got, 2, 5)[2]
        /\ SubSeq(got', 2, 5)[3] = SubSeq(got, 2, 5)[3]
        /\ SubSeq(got', 2, 5)[4] = SubSeq(got, 2, 5)[4]
    BY ONLY <2>1, <2>2, <2>3
  <2>. QED
    BY ONLY <1>3, <2>4, Le32Same
<1>8. D \in Seq(Byte) /\ Len(D) = dataLen /\ \A k \in 1..dataLen : D[k] = rx[k]
  <2>1. rx \in Seq(Byte)
    BY <1>1 DEF TypeOK
  <2>2. \A i \in 1..dataLen : rx[i] \in Byte
    <3>1. \A i \in 1..Len(rx) : rx[i] \in Byte
      BY ONLY <2>1, ElementOfSeq
    <3>. QED
      BY ONLY <1>2, <1>4, <3>1
  <2>3. /\ D \in Seq(Byte)
        /\ Len(D) = IF 1 <= dataLen THEN dataLen - 1 + 1 ELSE 0
        /\ \A i \in 1..dataLen - 1 + 1 : D[i] = rx[1 + i - 1]
    BY ONLY <1>4, <2>2, SubSeqProperties
  <2>. QED
    BY ONLY <1>3, <1>4, <2>3
<1>9. r \in Result
  <2>1. rspCode \in Byte /\ start \in Nat /\ full \in BOOLEAN
    BY <1>1 DEF TypeOK
  <2>. QED
    BY ONLY <1>2, <1>5, <1>8, <2>1 DEF Result
<1>10. RecOK(r, wire)
  <2>1. r.start = start /\ r.read = got' /\ r.code = rspCode /\ r.data = D
    BY ONLY <1>2
  <2>2. ReadPos' = Len(wire) - Len(pend) - Len(rx')
    BY ONLY <1>0 DEF ReadPos
  <2>3. Len(pend) \in Nat /\ Len(rx') \in Nat /\ start \in Nat
    BY ONLY <1>1, <1>5, LenProperties DEF TypeOK
  <2>4. start + Len(got') <= Len(wire)
    BY ONLY <1>0, <1>5, <2>2, <2>3
  <2>5. \A k \in 1..Len(got') : got'[k] = wire[start + k]
    BY ONLY <1>0, <1>5
  <2>6. \A k \in 1..dataLen : D[k] = got'[5 + k]
    BY ONLY <1>3, <1>5, <1>8
  <2>7. /\ r.start + Len(r.read) <= Len(wire)
        /\ \A k \in 1..Len(r.read) : r.read[k] = wire[r.start + k]
    BY ONLY <2>1, <2>4, <2>5
  <2>8. /\ Len(r.read) = 5 + Le32(SubSeq(r.read, 2, 5))
        /\ r.code = r.read[1]
    BY ONLY <1>6, <1>7, <2>1
  <2>9. /\ Len(r.data) = Len(r.read) - 5
        /\ \A k \in 1..Len(r.data) : r.data[k] = r.read[5 + k]
    BY ONLY <1>4, <1>6, <1>8, <2>1, <2>6
  <2>. QED
    BY ONLY <2>7, <2>8, <2>9 DEF RecOK
<1>11. results' \in Seq(Result) /\ ResultsOK'
  <2>1. results \in Seq(Result)
    BY <1>1 DEF TypeOK
  <2>2. wire' = wire
    BY ONLY <1>0
  <2>. QED
    BY ONLY <1>1, <1>2, <1>9, <1>10, <2>1, <2>2, ReturnLemma
<1>12. SentOK'
  BY ONLY <1>0, <1>1, SentStable
<1>13. TypeOK'
  BY ONLY <1>0, <1>1, <1>2, <1>5, <1>11 DEF TypeOK
<1>14. CallOK'
  BY ONLY <1>0, <1>1, <1>2, <1>5 DEF CallOK
<1>. QED
  BY ONLY <1>5, <1>11, <1>12, <1>13, <1>14 DEF DInv

(* Arrive: a byte moves from the link to the input buffer, so the next     *)
(* byte to read stays where it was in wire.                                *)
LEMMA ArriveDInv ==
  ASSUME DInv, Arrive
  PROVE  DInv'
<1>0. UNCHANGED <<tx, cpc, rspCode, dataLen, calls, results, got, full, start,
                  wire, sent>>
  BY DEF Arrive
<1>1. /\ TypeOK /\ WireOK /\ CallOK /\ ResultsOK /\ SentOK
  BY DEF DInv
<1>2. pend # <<>> /\ rx' = Append(rx, Head(pend)) /\ pend' = Tail(pend)
  BY DEF Arrive
<1>3. rx \in Seq(Byte) /\ pend \in Seq(Byte) /\ wire \in Seq(Byte)
  BY <1>1 DEF TypeOK
<1>4. /\ Head(pend) \in Byte /\ Head(pend) = pend[1]
      /\ pend' \in Seq(Byte) /\ Len(pend') = Len(pend) - 1
      /\ \A i \in 1..Len(pend') : pend'[i] = pend[i + 1]
  <2>1. Head(pend) = pend[1]
    BY DEF Head
  <2>. QED
    BY ONLY <1>2, <1>3, <2>1, HeadTailProperties
<1>5. /\ rx' \in Seq(Byte) /\ Len(rx') = Len(rx) + 1
      /\ \A i \in 1..Len(rx) : rx'[i] = rx[i]
      /\ rx'[Len(rx) + 1] = pend[1]
  BY ONLY <1>2, <1>3, <1>4, AppendProperties
<1>6. Len(rx) \in Nat /\ Len(pend) \in Nat /\ Len(pend) >= 1 /\ ReadPos \in Nat
  <2>1. Len(rx) \in Nat /\ Len(pend) \in Nat
    BY ONLY <1>3, LenProperties
  <2>2. Len(pend) # 0
    <3>1. Len(pend) = 0 => pend = <<>>
      BY ONLY <1>3, EmptySeq
    <3>. QED
      BY ONLY <1>2, <3>1
  <2>3. ReadPos \in Nat
    BY ONLY <1>1, ReadPosFacts
  <2>. QED
    BY ONLY <2>1, <2>2, <2>3
<1>7. ReadPos' = ReadPos
  <2>1. ReadPos' = Len(wire) - Len(pend') - Len(rx')
    BY ONLY <1>0 DEF ReadPos
  <2>2. ReadPos = Len(wire) - Len(pend) - Len(rx)
    BY DEF ReadPos
  <2>. QED
    BY ONLY <1>4, <1>5, <1>6, <2>1, <2>2
<1>8. WireOK'
  <2>1. Len(rx') + Len(pend') <= Len(wire')
    BY ONLY <1>0, <1>1, <1>4, <1>5, <1>6 DEF WireOK
  <2>2. \A k \in 1..Len(rx') : rx'[k] = wire'[ReadPos' + k]
    <3>1. \A k \in 1..Len(rx) : rx[k] = wire[ReadPos + k]
      BY ONLY <1>1 DEF WireOK
    <3>2. pend[1] = wire[ReadPos + Len(rx) + 1]
      BY ONLY <1>1, <1>6 DEF WireOK
    <3>3. Len(rx') = Len(rx) + 1 /\ \A i \in 1..Len(rx) : rx'[i] = rx[i]
      BY ONLY <1>5
    <3>4. rx'[Len(rx) + 1] = pend[1]
      BY ONLY <1>5
    <3>5. ASSUME NEW k \in 1..Len(rx') PROVE rx'[k] = wire[ReadPos + k]
      <4>1. k \in 1..Len(rx) \/ k = Len(rx) + 1
        BY ONLY <1>6, <3>3
      <4>2. CASE k \in 1..Len(rx)
        <5>1. k \in 1..Len(rx)
          BY ONLY <4>2
        <5>. QED
          BY ONLY <3>1, <3>3, <5>1
      <4>3. CASE k = Len(rx) + 1
        <5>1. k = Len(rx) + 1
          BY ONLY <4>3
        <5>. QED
          BY ONLY <1>6, <3>2, <3>4, <5>1
      <4>. QED
        BY ONLY <4>1, <4>2, <4>3
    <3>6. wire' = wire
      BY ONLY <1>0
    <3>. QED
      BY ONLY <1>7, <3>5, <3>6
  <2>3. \A k \in 1..Len(pend') : pend'[k] = wire'[ReadPos' + Len(rx') + k]
    <3>1. \A k \in 1..Len(pend) : pend[k] = wire[ReadPos + Len(rx) + k]
      BY ONLY <1>1 DEF WireOK
    <3>. QED
      BY ONLY <1>0, <1>4, <1>5, <1>6, <1>7, <3>1
  <2>. QED
    BY ONLY <2>1, <2>2, <2>3 DEF WireOK
<1>9. TypeOK'
  BY ONLY <1>0, <1>1, <1>4, <1>5 DEF TypeOK
<1>10. CallOK'
  BY ONLY <1>0, <1>1, <1>7 DEF CallOK
<1>11. ResultsOK' /\ SentOK'
  BY ONLY <1>0, <1>1, KeepsSent
<1>. QED
  BY ONLY <1>8, <1>9, <1>10, <1>11 DEF DInv

(* A reply frame is a byte sequence of at least five bytes.               *)
LEMMA ReplyFacts ==
  ASSUME NEW f \in Replies
  PROVE  Enc(f) \in Seq(Byte) /\ Len(Enc(f)) \in Nat /\ Len(Enc(f)) >= 5
<1>1. f.code \in Byte /\ f.data \in Seq(Byte) /\ Len(f.data) <= LongLength
  BY CodecAssumption DEF Frame
<1>2. Encode(f.code, f.data) \in Seq(Byte)
      /\ Len(Encode(f.code, f.data)) = 5 + Len(f.data)
  BY ONLY <1>1, EncodeFacts
<1>3. Len(f.data) \in Nat
  BY <1>1, LenProperties
<1>. QED
  BY ONLY <1>2, <1>3 DEF Enc

(* What a complete call read stays in wire when wire grows at its end.    *)
LEMMA RecOKExtends ==
  ASSUME NEW r \in Result, NEW w1 \in Seq(Byte), NEW w2 \in Seq(Byte),
         Len(w1) <= Len(w2), \A i \in 1..Len(w1) : w2[i] = w1[i],
         RecOK(r, w1)
  PROVE  RecOK(r, w2)
<1>1. r.start \in Nat /\ r.read \in Seq(Byte)
  BY DEF Result
<1>2. Len(r.read) \in Nat /\ Len(w1) \in Nat /\ Len(w2) \in Nat
  BY <1>1, LenProperties
<1>3. r.start + Len(r.read) <= Len(w1)
      /\ \A k \in 1..Len(r.read) : r.read[k] = w1[r.start + k]
  BY DEF RecOK
<1>4. r.start + Len(r.read) <= Len(w2)
  BY ONLY <1>1, <1>2, <1>3, Len(w1) <= Len(w2)
<1>5. \A k \in 1..Len(r.read) : r.read[k] = w2[r.start + k]
  <2>1. \A k \in 1..Len(r.read) : r.start + k \in 1..Len(w1)
    BY ONLY <1>1, <1>2, <1>3
  <2>2. \A i \in 1..Len(w1) : w2[i] = w1[i]
    OBVIOUS
  <2>. QED
    BY ONLY <1>3, <2>1, <2>2
<1>. QED
  BY <1>4, <1>5 DEF RecOK

(* BoardReply: the board consumes a packet and queues a frame, which goes  *)
(* at the end of wire, after every byte it sent before.                    *)
LEMMA BoardReplyDInv ==
  ASSUME DInv, BoardReply
  PROVE  DInv'
<1>0. UNCHANGED <<rx, cpc, rspCode, dataLen, calls, results, got, full, start>>
  BY DEF BoardReply
<1>1. /\ TypeOK /\ WireOK /\ CallOK /\ ResultsOK /\ SentOK
  BY DEF DInv
<1>. DEFINE L == Le32(SubSeq(tx, 2, 5))
<1>2. /\ Len(tx) >= 5 /\ Len(tx) >= 5 + L
      /\ tx' = SubSeq(tx, 6 + L, Len(tx))
  BY DEF BoardReply
<1>3. PICK f \in Replies :
        /\ pend' = pend \o Enc(f)
        /\ wire' = wire \o Enc(f)
        /\ sent' = [o \in DOMAIN sent \cup {Len(wire)} |->
                     IF o \in DOMAIN sent THEN sent[o] ELSE f]
  BY DEF BoardReply, Enc
<1>4. Enc(f) \in Seq(Byte) /\ Len(Enc(f)) \in Nat /\ Len(Enc(f)) >= 5
  BY ONLY ReplyFacts
<1>5. rx \in Seq(Byte) /\ pend \in Seq(Byte) /\ wire \in Seq(Byte) /\ tx \in Seq(Byte)
  BY <1>1 DEF TypeOK
<1>6. /\ wire' \in Seq(Byte)
      /\ Len(wire') = Len(wire) + Len(Enc(f))
      /\ \A i \in 1..Len(wire) : wire'[i] = wire[i]
      /\ \A k \in 1..Len(Enc(f)) : wire'[Len(wire) + k] = Enc(f)[k]
  BY ONLY <1>3, <1>4, <1>5, ConcatFacts
<1>7. /\ pend' \in Seq(Byte)
      /\ Len(pend') = Len(pend) + Len(Enc(f))
      /\ \A i \in 1..Len(pend) : pend'[i] = pend[i]
      /\ \A k \in 1..Len(Enc(f)) : pend'[Len(pend) + k] = Enc(f)[k]
  BY ONLY <1>3, <1>4, <1>5, ConcatFacts
<1>8. /\ Len(rx) \in Nat /\ Len(pend) \in Nat /\ Len(wire) \in Nat
      /\ ReadPos \in Nat /\ ReadPos + Len(rx) + Len(pend) = Len(wire)
  <2>1. Len(rx) \in Nat /\ Len(pend) \in Nat /\ Len(wire) \in Nat
    BY ONLY <1>5, LenProperties
  <2>. QED
    BY ONLY <1>1, <2>1, ReadPosFacts
<1>9. ReadPos' = ReadPos
  <2>1. ReadPos' = Len(wire') - Len(pend') - Len(rx)
    BY ONLY <1>0 DEF ReadPos
  <2>. QED
    BY ONLY <1>4, <1>6, <1>7, <1>8, <2>1 DEF ReadPos
<1>10. tx' \in Seq(Byte)
  <2>1. SubSeq(tx, 2, 5) \in Seq(Byte) /\ Len(SubSeq(tx, 2, 5)) >= 4
    <3>1. \A i \in 1..Len(tx) : tx[i] \in Byte
      BY ONLY <1>5, ElementOfSeq
    <3>2. \A i \in 2..5 : tx[i] \in Byte
      BY ONLY <1>2, <3>1
    <3>3. SubSeq(tx, 2, 5) \in Seq(Byte) /\ Len(SubSeq(tx, 2, 5)) = 4
      BY ONLY <3>2, SubSeqProperties
    <3>. QED
      BY ONLY <3>3
  <2>2. L \in Nat
    BY ONLY <2>1, Le32Range
  <2>3. \A i \in 6 + L..Len(tx) : tx[i] \in Byte
    <3>1. \A i \in 1..Len(tx) : tx[i] \in Byte
      BY ONLY <1>5, ElementOfSeq
    <3>. QED
      BY ONLY <2>2, <3>1
  <2>4. 6 + L \in Int /\ Len(tx) \in Int
    BY ONLY <1>5, <2>2, LenProperties
  <2>. QED
    BY ONLY <1>2, <2>3, <2>4, SubSeqProperties
<1>11. \A o \in DOMAIN sent : o + 5 <= Len(wire) /\ o \in Nat
  <2>1. SUFFICES ASSUME NEW o \in DOMAIN sent PROVE o + 5 <= Len(wire) /\ o \in Nat
    OBVIOUS
  <2>2. o \in 0..Len(wire) /\ sent[o] \in Replies
    BY <1>1 DEF TypeOK
  <2>3. Len(Enc(sent[o])) >= 5 /\ Len(Enc(sent[o])) \in Nat
    BY ONLY <2>2, ReplyFacts
  <2>4. o + Len(Enc(sent[o])) <= Len(wire)
    BY <1>1 DEF SentOK
  <2>. QED
    BY ONLY <1>8, <2>2, <2>3, <2>4
<1>12. Len(wire) \notin DOMAIN sent
  BY ONLY <1>8, <1>11
<1>13. /\ DOMAIN sent' = DOMAIN sent \cup {Len(wire)}
       /\ sent'[Len(wire)] = f
       /\ \A o \in DOMAIN sent : sent'[o] = sent[o]
  BY ONLY <1>3, <1>12
<1>15. Len(wire) <= Len(wire')
  BY ONLY <1>4, <1>6, <1>8
<1>16. TypeOK'
  <2>1. DOMAIN sent' \subseteq 0..Len(wire')
    <3>1. DOMAIN sent \subseteq 0..Len(wire)
      BY <1>1 DEF TypeOK
    <3>. QED
      BY ONLY <1>8, <1>13, <1>15, <3>1
  <2>2. \A o \in DOMAIN sent' : sent'[o] \in Replies
    <3>1. \A o \in DOMAIN sent : sent[o] \in Replies
      BY <1>1 DEF TypeOK
    <3>. QED
      BY ONLY <1>13, <3>1
  <2>3. /\ rx \in Seq(Byte) /\ cpc \in {"write", "rsp", "len", "data"}
        /\ rspCode \in Byte /\ dataLen \in 0..LongLength /\ calls \in 0..NumCalls
        /\ results \in Seq(Result)
        /\ got \in Seq(Byte) /\ full \in BOOLEAN /\ start \in Nat
    BY <1>1 DEF TypeOK
  <2>. QED
    BY ONLY <1>0, <1>6, <1>7, <1>10, <2>1, <2>2, <2>3 DEF TypeOK
<1>17. WireOK'
  <2>1. Len(rx) + Len(pend') <= Len(wire')
    BY ONLY <1>4, <1>6, <1>7, <1>8
  <2>2. \A k \in 1..Len(rx) : rx[k] = wire'[ReadPos + k]
    <3>1. \A k \in 1..Len(rx) : rx[k] = wire[ReadPos + k]
      BY <1>1 DEF WireOK
    <3>2. \A k \in 1..Len(rx) : ReadPos + k \in 1..Len(wire)
      BY ONLY <1>8
    <3>. QED
      BY ONLY <1>6, <3>1, <3>2
  <2>3. ASSUME NEW k \in 1..Len(pend')
        PROVE  pend'[k] = wire'[ReadPos + Len(rx) + k]
    <3>0. k \in 1..Len(pend')
      OBVIOUS
    <3>1. CASE k \in 1..Len(pend)
      <4>1. pend[k] = wire[ReadPos + Len(rx) + k]
        BY <1>1, <3>1 DEF WireOK
      <4>2. ReadPos + Len(rx) + k \in 1..Len(wire)
        BY ONLY <1>8, <3>1
      <4>. QED
        BY ONLY <1>6, <1>7, <3>1, <4>1, <4>2
    <3>2. CASE ~(k \in 1..Len(pend))
      <4>. DEFINE j == k - Len(pend)
      <4>1. j \in 1..Len(Enc(f)) /\ k = Len(pend) + j
        BY ONLY <1>4, <1>7, <1>8, <3>0, <3>2
      <4>2. ReadPos + Len(rx) + k = Len(wire) + j
        BY ONLY <1>4, <1>8, <4>1
      <4>. QED
        BY ONLY <1>6, <1>7, <4>1, <4>2
    <3>. QED
      BY ONLY <3>1, <3>2
  <2>. QED
    BY ONLY <1>0, <1>9, <2>1, <2>2, <2>3 DEF WireOK
<1>18. CallOK'
  <2>1. /\ full = TRUE /\ start + Len(got) = ReadPos
        /\ \A k \in 1..Len(got) : got[k] = wire[start + k]
    BY <1>1 DEF CallOK
  <2>2. start \in Nat /\ Len(got) \in Nat
    BY <1>1, LenProperties DEF TypeOK
  <2>3. \A k \in 1..Len(got) : got[k] = wire'[start + k]
    <3>1. \A k \in 1..Len(got) : start + k \in 1..Len(wire)
      BY ONLY <1>8, <2>1, <2>2
    <3>. QED
      BY ONLY <1>6, <2>1, <3>1
  <2>4. /\ cpc = "rsp" => got = <<>>
        /\ cpc = "len" => Len(got) = 1 /\ rspCode = got[1]
        /\ cpc = "data" => /\ Len(got) = 5 /\ rspCode = got[1]
                           /\ dataLen = Le32(SubSeq(got, 2, 5)) /\ dataLen > 0
    BY <1>1 DEF CallOK
  <2>. QED
    BY ONLY <1>0, <1>9, <2>1, <2>3, <2>4 DEF CallOK
<1>19. ResultsOK'
  <2>1. \A r \in Result : RecOK(r, wire) => RecOK(r, wire')
    <3>1. \A i \in 1..Len(wire) : wire'[i] = wire[i]
      BY ONLY <1>6
    <3>. QED
      BY ONLY <1>5, <1>6, <1>15, <3>1, RecOKExtends
  <2>2. results \in Seq(Result)
    BY <1>1 DEF TypeOK
  <2>3. \A i \in 1..Len(results) : results[i] \in Result
    BY ONLY <2>2, ElementOfSeq
  <2>. QED
    BY ONLY <1>0, <1>1, <2>1, <2>3 DEF ResultsOK
<1>20. SentOK'
  <2>1. ASSUME NEW o \in DOMAIN sent'
        PROVE  /\ o + Len(Enc(sent'[o])) <= Len(wire')
               /\ \A k \in 1..Len(Enc(sent'[o])) : Enc(sent'[o])[k] = wire'[o + k]
    <3>0. o \in DOMAIN sent'
      OBVIOUS
    <3>1. CASE o \in DOMAIN sent
      <4>1. sent'[o] = sent[o] /\ sent[o] \in Replies /\ o \in Nat
        BY <1>1, <1>11, <1>13, <3>1 DEF TypeOK
      <4>2. /\ o + Len(Enc(sent[o])) <= Len(wire)
            /\ \A k \in 1..Len(Enc(sent[o])) : Enc(sent[o])[k] = wire[o + k]
        BY <1>1, <3>1 DEF SentOK
      <4>3. Len(Enc(sent[o])) \in Nat
        BY ONLY <4>1, ReplyFacts
      <4>4. \A k \in 1..Len(Enc(sent[o])) : o + k \in 1..Len(wire)
        BY ONLY <1>8, <4>1, <4>2, <4>3
      <4>5. o + Len(Enc(sent'[o])) <= Len(wire')
        BY ONLY <1>4, <1>6, <1>8, <4>1, <4>2, <4>3
      <4>6. ASSUME NEW k \in 1..Len(Enc(sent'[o]))
            PROVE  Enc(sent'[o])[k] = wire'[o + k]
        <5>1. o + k \in 1..Len(wire) /\ k \in 1..Len(Enc(sent[o]))
          BY ONLY <4>1, <4>4
        <5>2. wire'[o + k] = wire[o + k]
          BY ONLY <1>6, <5>1
        <5>. QED
          BY ONLY <4>1, <4>2, <5>1, <5>2
      <4>. QED
        BY ONLY <4>5, <4>6
    <3>2. CASE ~(o \in DOMAIN sent)
      <4>1. o = Len(wire) /\ sent'[o] = f
        BY ONLY <1>13, <3>0, <3>2
      <4>. QED
        BY ONLY <1>4, <1>6, <1>8, <4>1
    <3>. QED
      BY ONLY <3>1, <3>2
  <2>. QED
    BY ONLY <2>1 DEF SentOK
<1>. QED
  BY ONLY <1>16, <1>17, <1>18, <1>19, <1>20 DEF DInv

(* A stuttering step changes nothing the invariant reads.                 *)
LEMMA StutterDInv ==
  ASSUME DInv, UNCHANGED vars
  PROVE  DInv'
<1>1. UNCHANGED <<tx, pend, rx, cpc, rspCode, dataLen, calls, results, got,
                  full, start, wire, sent>>
  BY DEF vars
<1>2. ReadPos' = ReadPos
  BY ONLY <1>1 DEF ReadPos
<1>. QED
  BY ONLY <1>1, <1>2, DInv
     DEF DInv, TypeOK, WireOK, CallOK, ResultsOK, RecOK, SentOK, Enc

(* DInv is inductive: every step of the controller or of the board keeps  *)
(* each byte it tracks where it is in wire.                                *)
LEMMA StepDInv ==
  ASSUME DInv, [Next]_vars
  PROVE  DInv'
<1>1. CASE Write
  BY <1>1, WriteDInv
<1>2. CASE ReadRsp
  BY <1>2, ReadRspDInv
<1>3. CASE ReadRspTimeout
  BY <1>3, ReadRspTimeoutDInv
<1>4. CASE ReadLen
  BY <1>4, ReadLenDInv
<1>5. CASE ReadLenTimeout
  BY <1>5, ReadLenTimeoutDInv
<1>6. CASE ReadData
  BY <1>6, ReadDataDInv
<1>7. CASE ReadDataTimeout
  BY <1>7, ReadDataTimeoutDInv
<1>8. CASE BoardReply
  BY <1>8, BoardReplyDInv
<1>9. CASE Arrive
  BY <1>9, ArriveDInv
<1>10. CASE UNCHANGED vars
  BY <1>10, StutterDInv
<1>. QED
  BY <1>1, <1>2, <1>3, <1>4, <1>5, <1>6, <1>7, <1>8, <1>9, <1>10
     DEF Next, Controller, Board

(* The decoded frame of a complete call is the frame that begins where it  *)
(* began reading: the five bytes it read as header spell the code and the  *)
(* length of the frame the board sent there, so the two have the same      *)
(* length, and the payloads agree byte by byte.                            *)
LEMMA AlignedRecord ==
  ASSUME NEW r \in Result, NEW f \in Replies, NEW w \in Seq(Byte),
         RecOK(r, w),
         r.start + Len(Enc(f)) <= Len(w),
         \A k \in 1..Len(Enc(f)) : Enc(f)[k] = w[r.start + k]
  PROVE  r.code = f.code /\ r.data = f.data
<1>1. f.code \in Byte /\ f.data \in Seq(Byte) /\ Len(f.data) <= LongLength
  BY CodecAssumption DEF Frame
<1>2. /\ Enc(f) \in Seq(Byte) /\ Len(Enc(f)) = 5 + Len(f.data)
      /\ Enc(f)[1] = f.code
      /\ \A k \in 1..Len(f.data) : Enc(f)[5 + k] = f.data[k]
      /\ Le32(SubSeq(Enc(f), 2, 5)) = Len(f.data)
  BY ONLY <1>1, EncodeFacts DEF Enc
<1>3. /\ r.start \in Nat /\ r.read \in Seq(Byte) /\ r.data \in Seq(Byte)
      /\ Len(r.read) \in Nat /\ Len(f.data) \in Nat /\ Len(r.data) \in Nat
  BY <1>1, LenProperties DEF Result
<1>4. /\ Len(r.read) = 5 + Le32(SubSeq(r.read, 2, 5))
      /\ \A k \in 1..Len(r.read) : r.read[k] = w[r.start + k]
      /\ r.code = r.read[1]
      /\ Len(r.data) = Len(r.read) - 5
      /\ \A k \in 1..Len(r.data) : r.data[k] = r.read[5 + k]
  BY DEF RecOK
<1>5. \A k \in 1..5 : r.read[k] = Enc(f)[k]
  <2>1. Len(r.read) >= 5 /\ Len(Enc(f)) >= 5
    BY ONLY <1>2, <1>3, <1>4
  <2>2. \A k \in 1..Len(r.read) : r.read[k] = w[r.start + k]
    BY ONLY <1>4
  <2>3. \A k \in 1..Len(Enc(f)) : Enc(f)[k] = w[r.start + k]
    OBVIOUS
  <2>. QED
    BY ONLY <1>3, <2>1, <2>2, <2>3
<1>6. r.code = f.code
  BY ONLY <1>2, <1>4, <1>5
<1>7. Le32(SubSeq(r.read, 2, 5)) = Le32(SubSeq(Enc(f), 2, 5))
  <2>1. \A i \in 1..4 : SubSeq(r.read, 2, 5)[i] = r.read[1 + i]
    <3>1. \A i \in 2..5 : r.read[i] \in Byte
      <4>1. \A i \in 1..Len(r.read) : r.read[i] \in Byte
        BY ONLY <1>3, ElementOfSeq
      <4>. QED
        BY ONLY <1>3, <1>4, <4>1
    <3>. QED
      BY ONLY <3>1, SubSeqProperties
  <2>2. \A i \in 1..4 : SubSeq(Enc(f), 2, 5)[i] = Enc(f)[1 + i]
    <3>1. \A i \in 2..5 : Enc(f)[i] \in Byte
      <4>1. \A i \in 1..Len(Enc(f)) : Enc(f)[i] \in Byte
        BY ONLY <1>2, ElementOfSeq
      <4>. QED
        BY ONLY <1>2, <1>3, <4>1
    <3>. QED
      BY ONLY <3>1, SubSeqProperties
  <2>3. /\ SubSeq(r.read, 2, 5)[1] = SubSeq(Enc(f), 2, 5)[1]
        /\ SubSeq(r.read, 2, 5)[2] = SubSeq(Enc(f), 2, 5)[2]
        /\ SubSeq(r.read, 2, 5)[3] = SubSeq(Enc(f), 2, 5)[3]
        /\ SubSeq(r.read, 2, 5)[4] = SubSeq(Enc(f), 2, 5)[4]
    BY ONLY <1>5, <2>1, <2>2
  <2>. QED
    BY ONLY <2>3, Le32Same
<1>8. Len(r.data) = Len(f.data)
  BY ONLY <1>2, <1>3, <1>4, <1>7
<1>9. \A k \in 1..Len(r.data) : r.data[k] = f.data[k]
  <2>1. SUFFICES ASSUME NEW k \in 1..Len(r.data) PROVE r.data[k] = f.data[k]
    OBVIOUS
  <2>2. k \in 1..Len(r.data)
    OBVIOUS
  <2>3. 5 + k \in 1..Len(r.read) /\ 5 + k \in 1..Len(Enc(f))
    BY ONLY <1>2, <1>3, <1>4, <1>8, <2>2
  <2>4. r.read[5 + k] = w[r.start + (5 + k)] /\ Enc(f)[5 + k] = w[r.start + (5 + k)]
    BY ONLY <1>4, <2>3, \A j \in 1..Len(Enc(f)) : Enc(f)[j] = w[r.start + j]
  <2>5. r.data[k] = r.read[5 + k]
    BY ONLY <1>4, <2>2
  <2>6. k \in 1..Len(f.data)
    BY ONLY <1>8, <2>2
  <2>7. Enc(f)[5 + k] = f.data[k]
    BY ONLY <1>2, <2>6
  <2>. QED
    BY ONLY <2>4, <2>5, <2>7
<1>10. r.data = f.data
  BY ONLY <1>3, <1>8, <1>9, <1>1, SeqEqual
<1>. QED
  BY ONLY <1>6, <1>10

LEMMA DInvAligned ==
  ASSUME DInv
  PROVE  DecodesAlignedFrame
<1>1. SUFFICES ASSUME NEW i \in 1..Len(results),
                      results[i].full, results[i].start \in DOMAIN sent
               PROVE  /\ results[i].code = sent[results[i].start].code
                      /\ results[i].data = sent[results[i].start].data
  BY DEF DecodesAlignedFrame
<1>. DEFINE r == results[i]
            o == r.start
<1>2. r \in Result
  <2>1. results \in Seq(Result)
    BY DEF DInv, TypeOK
  <2>. QED
    BY ONLY <2>1, ElementOfSeq
<1>3. RecOK(r, wire)
  BY <1>1 DEF DInv, ResultsOK
<1>4. /\ sent[o] \in Replies
      /\ o + Len(Enc(sent[o])) <= Len(wire)
      /\ \A k \in 1..Len(Enc(sent[o])) : Enc(sent[o])[k] = wire[o + k]
  BY <1>1 DEF DInv, TypeOK, SentOK
<1>5. wire \in Seq(Byte)
  BY DEF DInv, TypeOK
<1>. QED
  BY ONLY <1>2, <1>3, <1>4, <1>5, AlignedRecord

(* Every state of SerialCodec is well typed: in particular the length the  *)
(* controller decodes from four received bytes always lies in              *)
(* 0..LongLength, and every result holds bytes.                            *)
THEOREM TypeCorrect == Spec => []TypeOK
<1>1. Init => DInv
  BY InitDInv
<1>2. DInv /\ [Next]_vars => DInv'
  BY StepDInv
<1>3. DInv => TypeOK
  BY DEF DInv
<1>. QED
  BY <1>1, <1>2, <1>3, PTL DEF Spec

(* send_command decodes the frame the board sent: whenever a call started  *)
(* reading at the first byte of a reply and none of its three reads timed  *)
(* out, it returns that reply's code and payload, whatever the timing of   *)
(* the bytes, the replies left unread by earlier calls, and the length.    *)
THEOREM AlignedFrames == Spec => []DecodesAlignedFrame
<1>1. Init => DInv
  BY InitDInv
<1>2. DInv /\ [Next]_vars => DInv'
  BY StepDInv
<1>3. DInv => DecodesAlignedFrame
  BY DInvAligned
<1>. QED
  BY <1>1, <1>2, <1>3, PTL DEF Spec

=============================================================================
