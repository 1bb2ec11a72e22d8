----------------------------- MODULE DtlsSatsub -----------------------------
(***************************************************************************)
(* satsub64be of ssl/d1_pkt.c on the eight bytes of two big-endian         *)
(* sequence numbers, as a little-endian build runs it: byte by byte with a *)
(* borrow.  DtlsReplay uses the saturated difference of the numbers;       *)
(* DtlsReadProofs shows that the byte algorithm computes it.               *)
(***************************************************************************)
EXTENDS Integers

\* x >> 8 and x & 0xff on a negative or positive int
Shr8(x) == x \div 256
Low8(x) == x % 256

\* brw >> 8 and then brw += v1[i] - v2[i]
Borrow(brw, v1, v2, i) == Shr8(brw) + v1[i] - v2[i]

\* `sat' collects the low bytes of brw, or of ~brw when the lowest byte of the
\* difference has its sign bit set.
satsub64be(v1, v2) ==
  LET ret == v1[7] - v2[7]
      brw6 == Borrow(ret, v1, v2, 6)
      brw5 == Borrow(brw6, v1, v2, 5)
      brw4 == Borrow(brw5, v1, v2, 4)
      brw3 == Borrow(brw4, v1, v2, 3)
      brw2 == Borrow(brw3, v1, v2, 2)
      brw1 == Borrow(brw2, v1, v2, 1)
      brw0 == Borrow(brw1, v1, v2, 0)
      same == IF Low8(ret) >= 128 THEN 255 ELSE 0
      sat == \E b \in {brw6, brw5, brw4, brw3, brw2, brw1, brw0} : Low8(b) # same
      sign == Shr8(brw0) * 256
  IN  IF sat THEN sign + 128 ELSE sign + Low8(ret)

Abstract == INSTANCE DtlsReplay WITH MapBits <- 64, Saturation <- 128

\* A record carries six bytes of sequence number, which dtls1_get_record writes
\* to &rr->seq_num[2]: the two above them stay 0.  (For any eight bytes the
\* subtraction would not saturate when the numbers are nearly 2^64 apart.)
SequenceNumber == {v \in [0 .. 7 -> 0 .. 255] : v[0] = 0 /\ v[1] = 0}

\* The number that eight bytes stand for.
Value(v) ==
  256 * (256 * (256 * (256 * (256 * (256 * (256 * v[0] + v[1]) + v[2]) + v[3]) + v[4]) + v[5])
         + v[6]) + v[7]

\* The byte-wise subtraction, with its borrows and its early saturation at the
\* low byte, gives the difference of the two numbers cut off at -128 and 128:
\* what dtls1_record_replay_check and dtls1_record_bitmap_update rely on.
SatsubRight(inputs) ==
  \A v1, v2 \in inputs : satsub64be(v1, v2) = Abstract!satsub64be(Value(v1), Value(v2))
=============================================================================
