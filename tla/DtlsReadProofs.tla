--------------------------- MODULE DtlsReadProofs ---------------------------
(***************************************************************************)
(* satsub64be subtracts sequence numbers right; the replay windows of      *)
(* DtlsRead say exactly what was marked, and no record marked under its    *)
(* number is taken from the network again, for every window size, every    *)
(* bound and every number of epochs.  The lemmas are about the operators   *)
(* of DtlsSatsub and DtlsReplay; the theorems lift them to the connection  *)
(* through the inductive invariant WindowInv.                              *)
(***************************************************************************)
EXTENDS DtlsRead, TLAPS

-----------------------------------------------------------------------------
(* The subtraction of sequence numbers on their bytes.  The running        *)
(* difference at every byte splits into the borrow for the next byte,      *)
(* which is 0 or -1, and a low byte.  The low bytes are the bytes of the   *)
(* difference modulo 2^56 and the last borrow is its sign, so the bytes    *)
(* above the lowest are all 0 (or all 255) exactly when the difference is  *)
(* small.                                                                  *)
OnBytes == INSTANCE DtlsSatsub

Bytes == 0 .. 255
Borrows == {-1, 0}

\* Shifting and masking split a running difference into the next borrow and a
\* byte.
LEMMA SplitByte ==
  ASSUME NEW b \in Borrows, NEW x \in Bytes, NEW y \in Bytes
  PROVE  /\ OnBytes!Shr8(b + x - y) \in Borrows
         /\ OnBytes!Low8(b + x - y) \in Bytes
         /\ b + x - y = 256 * OnBytes!Shr8(b + x - y) + OnBytes!Low8(b + x - y)
BY DEF OnBytes!Shr8, OnBytes!Low8, Bytes, Borrows

\* The first running difference has no borrow.
LEMMA FirstByte ==
  ASSUME NEW x \in Bytes, NEW y \in Bytes
  PROVE  /\ OnBytes!Shr8(x - y) \in Borrows
         /\ OnBytes!Low8(x - y) \in Bytes
         /\ x - y = 256 * OnBytes!Shr8(x - y) + OnBytes!Low8(x - y)
BY DEF OnBytes!Shr8, OnBytes!Low8, Bytes, Borrows

\* A borrow is its own shift, and its low byte is all zeros or all ones.
LEMMA ShiftBorrow ==
  ASSUME NEW b \in Borrows
  PROVE  /\ b + 0 - 0 = b /\ OnBytes!Shr8(b) = b
         /\ OnBytes!Low8(b) = IF b = 0 THEN 0 ELSE 255
<1>1. /\ OnBytes!Shr8(b) \in Int /\ OnBytes!Low8(b) \in 0 .. 255
      /\ b = 256 * OnBytes!Shr8(b) + OnBytes!Low8(b)
  BY DEF OnBytes!Shr8, OnBytes!Low8, Borrows
<1> QED
  BY <1>1 DEF Borrows

\* The bytes of a sequence number.
LEMMA BytesOfNumber ==
  ASSUME NEW v \in OnBytes!SequenceNumber
  PROVE  /\ v[0] = 0 /\ v[1] = 0
         /\ v[2] \in Bytes /\ v[3] \in Bytes /\ v[4] \in Bytes
         /\ v[5] \in Bytes /\ v[6] \in Bytes /\ v[7] \in Bytes
BY SMTT(60) DEF OnBytes!SequenceNumber, Bytes

\* One turn of the loop of satsub64be leaves a borrow and a byte again.
LEMMA BorrowStep ==
  ASSUME NEW b, OnBytes!Shr8(b) \in Borrows,
         NEW v1, NEW v2, NEW i, v1[i] \in Bytes, v2[i] \in Bytes
  PROVE  /\ OnBytes!Shr8(OnBytes!Borrow(b, v1, v2, i)) \in Borrows
         /\ OnBytes!Low8(OnBytes!Borrow(b, v1, v2, i)) \in Bytes
         /\ OnBytes!Shr8(b) + v1[i] - v2[i]
            = 256 * OnBytes!Shr8(OnBytes!Borrow(b, v1, v2, i))
                + OnBytes!Low8(OnBytes!Borrow(b, v1, v2, i))
BY SplitByte DEF OnBytes!Borrow

\* For all sequence numbers a record can carry, the byte-wise subtraction of
\* satsub64be gives the difference cut off at -128 and 128.
THEOREM SatsubCorrect == OnBytes!SatsubRight(OnBytes!SequenceNumber)
<1> SUFFICES ASSUME NEW v1 \in OnBytes!SequenceNumber, NEW v2 \in OnBytes!SequenceNumber
             PROVE  OnBytes!satsub64be(v1, v2)
                    = OnBytes!Abstract!satsub64be(OnBytes!Value(v1), OnBytes!Value(v2))
  BY DEF OnBytes!SatsubRight
<1> DEFINE b7 == v1[7] - v2[7]
           b6 == OnBytes!Borrow(b7, v1, v2, 6)
           b5 == OnBytes!Borrow(b6, v1, v2, 5)
           b4 == OnBytes!Borrow(b5, v1, v2, 4)
           b3 == OnBytes!Borrow(b4, v1, v2, 3)
           b2 == OnBytes!Borrow(b3, v1, v2, 2)
           b1 == OnBytes!Borrow(b2, v1, v2, 1)
           b0 == OnBytes!Borrow(b1, v1, v2, 0)
           D == OnBytes!Value(v1) - OnBytes!Value(v2)
           same == IF OnBytes!Low8(b7) >= 128 THEN 255 ELSE 0
           high == IF OnBytes!Shr8(b2) = 0 THEN 0 ELSE 255
<1> HIDE DEF b7, b6, b5, b4, b3, b2, b1, b0, D, same, high
<1>1. /\ v1[0] = 0 /\ v1[1] = 0 /\ v1[2] \in Bytes /\ v1[3] \in Bytes
      /\ v1[4] \in Bytes /\ v1[5] \in Bytes /\ v1[6] \in Bytes /\ v1[7] \in Bytes
      /\ v2[0] = 0 /\ v2[1] = 0 /\ v2[2] \in Bytes /\ v2[3] \in Bytes
      /\ v2[4] \in Bytes /\ v2[5] \in Bytes /\ v2[6] \in Bytes /\ v2[7] \in Bytes
  BY BytesOfNumber
<1>2. /\ OnBytes!Shr8(b7) \in Borrows /\ OnBytes!Low8(b7) \in Bytes
      /\ v1[7] - v2[7] = 256 * OnBytes!Shr8(b7) + OnBytes!Low8(b7)
  BY <1>1, FirstByte DEF b7
<1>3. /\ OnBytes!Shr8(b6) \in Borrows /\ OnBytes!Low8(b6) \in Bytes
      /\ OnBytes!Shr8(b7) + v1[6] - v2[6] = 256 * OnBytes!Shr8(b6) + OnBytes!Low8(b6)
  BY <1>1, <1>2, BorrowStep DEF b6
<1>4. /\ OnBytes!Shr8(b5) \in Borrows /\ OnBytes!Low8(b5) \in Bytes
      /\ OnBytes!Shr8(b6) + v1[5] - v2[5] = 256 * OnBytes!Shr8(b5) + OnBytes!Low8(b5)
  BY <1>1, <1>3, BorrowStep DEF b5
<1>5. /\ OnBytes!Shr8(b4) \in Borrows /\ OnBytes!Low8(b4) \in Bytes
      /\ OnBytes!Shr8(b5) + v1[4] - v2[4] = 256 * OnBytes!Shr8(b4) + OnBytes!Low8(b4)
  BY <1>1, <1>4, BorrowStep DEF b4
<1>6. /\ OnBytes!Shr8(b3) \in Borrows /\ OnBytes!Low8(b3) \in Bytes
      /\ OnBytes!Shr8(b4) + v1[3] - v2[3] = 256 * OnBytes!Shr8(b3) + OnBytes!Low8(b3)
  BY <1>1, <1>5, BorrowStep DEF b3
<1>7. /\ OnBytes!Shr8(b2) \in Borrows /\ OnBytes!Low8(b2) \in Bytes
      /\ OnBytes!Shr8(b3) + v1[2] - v2[2] = 256 * OnBytes!Shr8(b2) + OnBytes!Low8(b2)
  BY <1>1, <1>6, BorrowStep DEF b2
<1>8. OnBytes!Shr8(b0) = OnBytes!Shr8(b2) /\ OnBytes!Low8(b1) = high /\ OnBytes!Low8(b0) = high
  <2>1. b1 = OnBytes!Shr8(b2)
    BY <1>1, <1>7, ShiftBorrow DEF OnBytes!Borrow, b1
  <2>2. b0 = OnBytes!Shr8(b2)
    BY <1>1, <1>7, <2>1, ShiftBorrow DEF OnBytes!Borrow, b0
  <2> QED
    BY <1>7, <2>1, <2>2, ShiftBorrow DEF high
<1> DEFINE x2 == v1[2]   x3 == v1[3]   x4 == v1[4]   x5 == v1[5]   x6 == v1[6]   x7 == v1[7]
           y2 == v2[2]   y3 == v2[3]   y4 == v2[4]   y5 == v2[5]   y6 == v2[6]   y7 == v2[7]
           q2 == OnBytes!Shr8(b2)   q3 == OnBytes!Shr8(b3)
           q4 == OnBytes!Shr8(b4)   q5 == OnBytes!Shr8(b5)
           q6 == OnBytes!Shr8(b6)   q7 == OnBytes!Shr8(b7)
           r2 == OnBytes!Low8(b2)   r3 == OnBytes!Low8(b3)
           r4 == OnBytes!Low8(b4)   r5 == OnBytes!Low8(b5)
           r6 == OnBytes!Low8(b6)   r7 == OnBytes!Low8(b7)
<1>9. /\ x2 \in Bytes /\ x3 \in Bytes
      /\ x4 \in Bytes /\ x5 \in Bytes /\ x6 \in Bytes /\ x7 \in Bytes
      /\ y2 \in Bytes /\ y3 \in Bytes /\ y4 \in Bytes
      /\ y5 \in Bytes /\ y6 \in Bytes /\ y7 \in Bytes
      /\ q2 \in Borrows /\ q3 \in Borrows /\ q4 \in Borrows
      /\ q5 \in Borrows /\ q6 \in Borrows /\ q7 \in Borrows
      /\ r2 \in Bytes /\ r3 \in Bytes /\ r4 \in Bytes
      /\ r5 \in Bytes /\ r6 \in Bytes /\ r7 \in Bytes
      /\ x7 - y7 = 256 * q7 + r7 /\ q7 + x6 - y6 = 256 * q6 + r6
      /\ q6 + x5 - y5 = 256 * q5 + r5 /\ q5 + x4 - y4 = 256 * q4 + r4
      /\ q4 + x3 - y3 = 256 * q3 + r3 /\ q3 + x2 - y2 = 256 * q2 + r2
  BY <1>1, <1>2, <1>3, <1>4, <1>5, <1>6, <1>7
<1>10. /\ OnBytes!Value(v1)
            = 256 * (256 * (256 * (256 * (256 * (256 * (256 * 0 + 0) + x2) + x3) + x4)
                            + x5) + x6) + x7
       /\ OnBytes!Value(v2)
            = 256 * (256 * (256 * (256 * (256 * (256 * (256 * 0 + 0) + y2) + y3) + y4)
                            + y5) + y6) + y7
  BY <1>1 DEF OnBytes!Value
<1>11. /\ same = IF r7 >= 128 THEN 255 ELSE 0
       /\ high = IF q2 = 0 THEN 0 ELSE 255
  BY DEF same, high
<1>12. OnBytes!satsub64be(v1, v2)
       = (IF r6 # same \/ r5 # same \/ r4 # same \/ r3 # same \/ r2 # same \/ high # same
          THEN q2 * 256 + 128 ELSE q2 * 256 + r7)
  <2>1. OnBytes!satsub64be(v1, v2)
        = (IF \E b \in {b6, b5, b4, b3, b2, b1, b0} : OnBytes!Low8(b) # same
           THEN OnBytes!Shr8(b0) * 256 + 128 ELSE OnBytes!Shr8(b0) * 256 + OnBytes!Low8(b7))
    BY DEF OnBytes!satsub64be, b7, b6, b5, b4, b3, b2, b1, b0, same
  <2> QED
    BY <1>8, <2>1
<1> HIDE DEF x2, x3, x4, x5, x6, x7, y2, y3, y4, y5, y6, y7,
             q2, q3, q4, q5, q6, q7, r2, r3, r4, r5, r6, r7
<1>13. /\ D \in Int
       /\ D = 256 * (256 * (256 * (256 * (256 * (256 * q2 + r2) + r3) + r4) + r5) + r6) + r7
  BY <1>9, <1>10, SMTT(60) DEF D, Bytes, Borrows
<1>14. OnBytes!Abstract!satsub64be(OnBytes!Value(v1), OnBytes!Value(v2))
       = (IF D > 128 THEN 128 ELSE IF D < -128 THEN -128 ELSE D)
  BY DEF OnBytes!Abstract!satsub64be, D
<1>15. CASE q2 = 0 /\ r7 < 128
  BY <1>9, <1>11, <1>12, <1>13, <1>14, <1>15, SMTT(60) DEF Bytes
<1>16. CASE q2 = 0 /\ r7 >= 128
  BY <1>9, <1>11, <1>12, <1>13, <1>14, <1>16, SMTT(60) DEF Bytes
<1>17. CASE q2 = -1 /\ r7 < 128
  BY <1>9, <1>11, <1>12, <1>13, <1>14, <1>17, SMTT(60) DEF Bytes
<1>18. CASE q2 = -1 /\ r7 >= 128
  BY <1>9, <1>11, <1>12, <1>13, <1>14, <1>18, SMTT(60) DEF Bytes
<1> QED
  BY <1>9, <1>15, <1>16, <1>17, <1>18, SMTT(60) DEF Bytes, Borrows

-----------------------------------------------------------------------------
(* The operators of DtlsReplay.                                            *)
\* satsub64be, saturating at Saturation, tells apart all that the window needs:
\* the sign of the difference, and the difference itself inside the window.
LEMMA SatsubFacts ==
  ASSUME NEW a \in Nat, NEW b \in Nat
  PROVE  LET c == satsub64be(a, b) IN
         /\ c \in Int
         /\ c > 0 <=> a > b
         /\ c > 0 /\ c < MapBits => c = a - b
         /\ c > 0 /\ c >= MapBits => a - b >= MapBits
         /\ c <= 0 /\ -c < MapBits => c = a - b
         /\ c <= 0 /\ -c >= MapBits => b - a >= MapBits
  BY WindowAssumption, SMT DEF satsub64be

\* dtls1_record_bitmap_update keeps a bitmap a bitmap.
LEMMA UpdateType ==
  ASSUME NEW b \in DTLS1_BITMAP, NEW s \in Nat
  PROVE  dtls1_record_bitmap_update(b, s) \in DTLS1_BITMAP
<1> DEFINE c == satsub64be(s, b.max_seq_num)
<1>1. b.max_seq_num \in Nat /\ b.map \subseteq 0 .. MapBits - 1
  BY DEF DTLS1_BITMAP
<1>2. ShiftLeft(b.map, c) \subseteq 0 .. MapBits - 1 /\ 0 \in 0 .. MapBits - 1
  BY WindowAssumption DEF ShiftLeft
<1>3. CASE c > 0
  BY <1>1, <1>2, <1>3 DEF dtls1_record_bitmap_update, DTLS1_BITMAP
<1>4. CASE ~(c > 0)
  BY <1>1, <1>4 DEF dtls1_record_bitmap_update, DTLS1_BITMAP
<1>5. QED
  BY <1>3, <1>4

\* Marking a number in an exact bitmap leaves it exact: the bits shifted out
\* are the numbers that leave the window, the bits shifted in are numbers
\* never received.
LEMMA UpdateExact ==
  ASSUME NEW b \in DTLS1_BITMAP, NEW s \in Nat, NEW R \in SUBSET Nat,
         Exact(b, R)
  PROVE  Exact(dtls1_record_bitmap_update(b, s), R \union {s})
<1> DEFINE c == satsub64be(s, b.max_seq_num)
           u == dtls1_record_bitmap_update(b, s)
<1>1. b.max_seq_num \in Nat /\ b.map \subseteq 0 .. MapBits - 1
  BY DEF DTLS1_BITMAP
<1>2. /\ c \in Int
      /\ c > 0 <=> s > b.max_seq_num
      /\ c > 0 /\ c < MapBits => c = s - b.max_seq_num
      /\ c > 0 /\ c >= MapBits => s - b.max_seq_num >= MapBits
      /\ c <= 0 /\ -c < MapBits => c = s - b.max_seq_num
      /\ c <= 0 /\ -c >= MapBits => b.max_seq_num - s >= MapBits
  BY <1>1, SatsubFacts
<1>3. CASE c > 0
  <2>1. u.max_seq_num = s
    BY <1>3 DEF dtls1_record_bitmap_update
  <2>2. \A x \in R \union {s} : x <= u.max_seq_num
    <3>1. \A x \in R : x \in Nat /\ x <= b.max_seq_num
      BY DEF Exact
    <3>2. s > b.max_seq_num
      BY <1>2, <1>3
    <3>3. QED
      BY <1>1, <2>1, <3>1, <3>2
  <2>3. ASSUME NEW i \in 0 .. MapBits - 1
        PROVE  i \in u.map <=> u.max_seq_num - i \in R \union {s}
    <3>1. CASE c < MapBits
      <4>1. i \in u.map <=> i = 0 \/ i - c \in b.map
        BY <1>3, <3>1, WindowAssumption DEF dtls1_record_bitmap_update, ShiftLeft
      <4>2. i - c \in b.map <=> i >= c /\ b.max_seq_num - (i - c) \in R
        BY <1>1, <1>2, <1>3, WindowAssumption DEF Exact
      <4>3. i < c => s - i \notin R
        BY <1>1, <1>2, <1>3, <3>1 DEF Exact
      <4>4. b.max_seq_num - (i - c) = s - i
        BY <1>1, <1>2, <1>3, <3>1
      <4>5. QED
        BY <2>1, <4>1, <4>2, <4>3, <4>4, <1>2
    <3>2. CASE c >= MapBits
      <4>1. i \in u.map <=> i = 0
        BY <1>2, <1>3, <3>2, WindowAssumption DEF dtls1_record_bitmap_update
      <4>2. s - i \notin R
        BY <1>1, <1>2, <1>3, <3>2, WindowAssumption DEF Exact
      <4>3. QED
        BY <2>1, <4>1, <4>2
    <3>3. QED
      BY <3>1, <3>2, <1>2, WindowAssumption
  <2>4. QED
    BY <2>2, <2>3 DEF Exact
<1>4. CASE ~(c > 0)
  <2>1. /\ u.max_seq_num = b.max_seq_num
        /\ u.map = b.map \union ({-c} \intersect (0 .. MapBits - 1))
    BY <1>1, <1>4 DEF dtls1_record_bitmap_update, DTLS1_BITMAP
  <2>2. \A x \in R \union {s} : x <= u.max_seq_num
    BY <1>1, <1>2, <1>4, <2>1 DEF Exact
  <2>3. ASSUME NEW i \in 0 .. MapBits - 1
        PROVE  i \in u.map <=> u.max_seq_num - i \in R \union {s}
    <3>1. i = -c <=> b.max_seq_num - i = s
      BY <1>1, <1>2, <1>4, WindowAssumption
    <3>2. i \in b.map <=> b.max_seq_num - i \in R
      BY DEF Exact
    <3>3. QED
      BY <2>1, <3>1, <3>2, <1>2
  <2>4. QED
    BY <2>2, <2>3 DEF Exact
<1>5. QED
  BY <1>3, <1>4

\* A number that passes dtls1_record_replay_check on an exact bitmap was never
\* marked.
LEMMA CheckSound ==
  ASSUME NEW b \in DTLS1_BITMAP, NEW s \in Nat, NEW R \in SUBSET Nat,
         Exact(b, R), dtls1_record_replay_check(b, s)
  PROVE  s \notin R
<1> DEFINE c == satsub64be(s, b.max_seq_num)
<1>1. b.max_seq_num \in Nat
  BY DEF DTLS1_BITMAP
<1>2. /\ c \in Int
      /\ c > 0 <=> s > b.max_seq_num
      /\ c <= 0 /\ -c < MapBits => c = s - b.max_seq_num
  BY <1>1, SatsubFacts
<1>3. CASE c > 0
  BY <1>1, <1>2, <1>3 DEF Exact
<1>4. CASE ~(c > 0)
  <2>1. -c < MapBits /\ -c \notin b.map
    BY <1>4 DEF dtls1_record_replay_check
  <2>2. -c \in 0 .. MapBits - 1 /\ b.max_seq_num - (-c) = s
    BY <1>1, <1>2, <1>4, <2>1, WindowAssumption
  <2>3. QED
    BY <2>1, <2>2 DEF Exact
<1>5. QED
  BY <1>3, <1>4
-----------------------------------------------------------------------------
(***************************************************************************)
(* The inductive invariant: both windows are exact for their epochs, and   *)
(* nothing beyond the next epoch was ever marked, so that the cleared      *)
(* window that becomes the next one is exact too.                          *)
(***************************************************************************)
WindowInv ==
  /\ w_seq \in [Epochs -> Nat]
  /\ sent \subseteq [epoch : Nat, seq : Nat, type : Types, good : BOOLEAN]
  /\ r_epoch \in Nat
  /\ bitmap \in DTLS1_BITMAP /\ next_bitmap \in DTLS1_BITMAP
  /\ received \subseteq Nat \X Nat /\ early \subseteq Nat \X Nat
  /\ \A p \in received \union early : p[1] <= r_epoch + 1
  /\ WindowExact

\* What arrives has the number of a record that was sent.
LEMMA ArrivingType ==
  ASSUME WindowInv, NEW r \in Arriving
  PROVE  r.epoch \in Nat /\ r.seq \in Nat
<1>1. CASE r \in sent
  BY <1>1 DEF WindowInv
<1>2. CASE r \notin sent
  <2>1. PICK x \in sent : r = [x EXCEPT !.good = FALSE]
    BY <1>2 DEF Arriving
  <2>2. x \in [epoch : Nat, seq : Nat, type : Types, good : BOOLEAN]
    BY DEF WindowInv
  <2>3. QED
    BY <2>1, <2>2
<1>3. QED
  BY <1>1, <1>2

\* What is marked in an epoch, spelled out.
LEMMA MarkedIs ==
  ASSUME NEW f, NEW x
  PROVE  x \in Marked(f) <=> \/ \E p \in received : p[1] = f /\ p[2] = x
                             \/ x = 0 /\ \E p \in early : p[1] = f
  BY DEF Marked

LEMMA MarkedIsNext ==
  ASSUME NEW f \in Nat, NEW x
  PROVE  x \in Marked(f)' <=> \/ \E p \in received' : p[1] = f /\ p[2] = x
                              \/ x = 0 /\ \E p \in early' : p[1] = f
  BY DEF Marked

\* A record marked under its number adds that number to those of its epoch
\* only.
LEMMA MarkedAfter ==
  ASSUME NEW e \in Nat, NEW s \in Nat,
         received' = received \union {<<e, s>>}, early' = early
  PROVE  /\ Marked(e)' = Marked(e) \union {s}
         /\ \A f \in Nat : f # e => Marked(f)' = Marked(f)
<1>1. <<e, s>>[1] = e /\ <<e, s>>[2] = s
  OBVIOUS
<1>2. \A f, x : (\E p \in received' : p[1] = f /\ p[2] = x)
                <=> (\E p \in received : p[1] = f /\ p[2] = x) \/ (f = e /\ x = s)
  BY <1>1, Zenon
<1>3. ASSUME NEW f \in Nat, NEW x
      PROVE  x \in Marked(f)' <=> x \in Marked(f) \/ (f = e /\ x = s)
  <2>1. (\E p \in received' : p[1] = f /\ p[2] = x)
        <=> (\E p \in received : p[1] = f /\ p[2] = x) \/ (f = e /\ x = s)
    BY <1>2
  <2>2. (\E p \in early' : p[1] = f) <=> \E p \in early : p[1] = f
    OBVIOUS
  <2>3. x \in Marked(f) <=> \/ \E p \in received : p[1] = f /\ p[2] = x
                            \/ x = 0 /\ \E p \in early : p[1] = f
    BY MarkedIs
  <2>4. x \in Marked(f)' <=> \/ \E p \in received' : p[1] = f /\ p[2] = x
                             \/ x = 0 /\ \E p \in early' : p[1] = f
    BY MarkedIsNext
  <2>5. QED
    BY <2>1, <2>2, <2>3, <2>4
<1>4. Marked(e)' = Marked(e) \union {s}
  BY <1>3
<1>5. ASSUME NEW f \in Nat, f # e PROVE Marked(f)' = Marked(f)
  BY <1>3, <1>5
<1>6. QED
  BY <1>4, <1>5

\* A record kept for the next epoch adds number 0, whatever its number is.
LEMMA MarkedEarly ==
  ASSUME NEW e \in Nat, NEW s \in Nat,
         early' = early \union {<<e, s>>}, received' = received
  PROVE  /\ Marked(e)' = Marked(e) \union {0}
         /\ \A f \in Nat : f # e => Marked(f)' = Marked(f)
<1>1. <<e, s>>[1] = e
  OBVIOUS
<1>2. \A f : (\E p \in early' : p[1] = f) <=> (\E p \in early : p[1] = f) \/ f = e
  BY <1>1, Zenon
<1>3. ASSUME NEW f \in Nat, NEW x
      PROVE  x \in Marked(f)' <=> x \in Marked(f) \/ (f = e /\ x = 0)
  <2>1. (\E p \in received' : p[1] = f /\ p[2] = x) <=> \E p \in received : p[1] = f /\ p[2] = x
    OBVIOUS
  <2>2. (\E p \in early' : p[1] = f) <=> (\E p \in early : p[1] = f) \/ f = e
    BY <1>2
  <2>3. x \in Marked(f) <=> \/ \E p \in received : p[1] = f /\ p[2] = x
                            \/ x = 0 /\ \E p \in early : p[1] = f
    BY MarkedIs
  <2>4. x \in Marked(f)' <=> \/ \E p \in received' : p[1] = f /\ p[2] = x
                             \/ x = 0 /\ \E p \in early' : p[1] = f
    BY MarkedIsNext
  <2>5. QED
    BY <2>1, <2>2, <2>3, <2>4
<1>4. Marked(e)' = Marked(e) \union {0}
  BY <1>3
<1>5. ASSUME NEW f \in Nat, f # e PROVE Marked(f)' = Marked(f)
  BY <1>3, <1>5
<1>6. QED
  BY <1>4, <1>5

LEMMA MarkedNat ==
  ASSUME WindowInv
  PROVE  \A e : Marked(e) \in SUBSET Nat
  BY DEF Marked, WindowInv

\* Initially no number is marked and both windows are clear.
LEMMA WindowInit == Init => WindowInv
<1> SUFFICES ASSUME Init PROVE WindowInv
  OBVIOUS
<1>1. \A e : Marked(e) = {}
  BY DEF Init, Marked
<1>2. ClearBitmap \in DTLS1_BITMAP /\ Exact(ClearBitmap, {})
  BY WindowAssumption DEF ClearBitmap, DTLS1_BITMAP, Exact
<1>3. QED
  BY <1>1, <1>2, ReadAssumption, Zenon DEF Init, WindowInv, WindowExact, Epochs

\* dtls1_get_record marks a record of the current epoch in bitmap.
LEMMA ReadRecordKeeps ==
  ASSUME WindowInv, NEW r \in Arriving, ReadRecord(r)
  PROVE  WindowInv'
<1>1. r.epoch = r_epoch /\ r.epoch \in Nat /\ r.seq \in Nat
  BY ArrivingType DEF ReadRecord, InCurrentEpoch
<1>2. UNCHANGED <<w_seq, sent, r_epoch, next_bitmap, early>>
  BY DEF ReadRecord, peerVars
<1>3. CASE Opens(r)
  <2>1. /\ bitmap' = dtls1_record_bitmap_update(bitmap, r.seq)
        /\ received' = received \union {<<r.epoch, r.seq>>}
    BY <1>3 DEF ReadRecord, Id
  <2>2. bitmap' \in DTLS1_BITMAP
    BY <1>1, <2>1, UpdateType DEF WindowInv
  <2>3. /\ Marked(r_epoch)' = Marked(r_epoch) \union {r.seq}
        /\ Marked(r_epoch + 1)' = Marked(r_epoch + 1)
    BY <1>1, <1>2, <2>1, MarkedAfter DEF WindowInv
  <2>4. Exact(bitmap, Marked(r_epoch))'
    BY <1>1, <2>1, <2>3, UpdateExact, MarkedNat DEF WindowInv, WindowExact
  <2>5. Exact(next_bitmap, Marked(r_epoch + 1))'
    BY <1>2, <2>3 DEF WindowInv, WindowExact
  <2>6. /\ received' \subseteq Nat \X Nat /\ early' \subseteq Nat \X Nat
        /\ \A p \in received' \union early' : p[1] <= r_epoch + 1
    BY <1>1, <1>2, <2>1 DEF WindowInv
  <2>7. QED
    BY <1>2, <2>2, <2>4, <2>5, <2>6 DEF WindowInv, WindowExact
<1>4. CASE ~Opens(r)
  <2>1. UNCHANGED <<bitmap, received>>
    BY <1>4 DEF ReadRecord
  <2>2. QED
    BY <1>2, <2>1 DEF WindowInv, WindowExact, Marked
<1>5. QED
  BY <1>3, <1>4

\* dtls1_get_record marks a record of the next epoch in next_bitmap: under its
\* number when the queue is full, as number 0 when it is kept.
LEMMA BufferNextEpochKeeps ==
  ASSUME WindowInv, NEW r \in Arriving, BufferNextEpoch(r)
  PROVE  WindowInv'
<1> DEFINE b == dtls1_buffer_record(unprocessed, r)
<1>1. /\ r.epoch = r_epoch + 1 /\ r.epoch \in Nat /\ r.seq \in Nat /\ r_epoch \in Nat
      /\ Id(r) = <<r.epoch, r.seq>>
  BY ArrivingType DEF BufferNextEpoch, InNextEpoch, WindowInv, Id
<1>2. UNCHANGED <<w_seq, sent, r_epoch, bitmap>>
  BY DEF BufferNextEpoch, peerVars
<1>3. b.ret \in {-1, 0, 1}
  BY DEF dtls1_buffer_record
<1>4. /\ b.ret < 0 => UNCHANGED <<next_bitmap, received, early>>
      /\ b.ret = 0 => /\ next_bitmap' = dtls1_record_bitmap_update(next_bitmap, r.seq)
                      /\ received' = received \union {<<r.epoch, r.seq>>} /\ early' = early
      /\ b.ret = 1 => /\ next_bitmap' = dtls1_record_bitmap_update(next_bitmap, 0)
                      /\ early' = early \union {<<r.epoch, r.seq>>} /\ received' = received
  BY <1>1, <1>3 DEF BufferNextEpoch
<1>5. CASE b.ret < 0
  BY <1>2, <1>4, <1>5, Zenon DEF WindowInv, WindowExact, Marked
<1>6. ASSUME NEW n \in Nat, next_bitmap' = dtls1_record_bitmap_update(next_bitmap, n),
             Marked(r_epoch + 1)' = Marked(r_epoch + 1) \union {n},
             Marked(r_epoch)' = Marked(r_epoch),
             received' \union early' = received \union early \union {<<r.epoch, r.seq>>}
      PROVE  WindowInv'
  <2>1. next_bitmap' \in DTLS1_BITMAP
    BY <1>6, UpdateType DEF WindowInv
  <2>2. Exact(next_bitmap', Marked(r_epoch + 1)')
    BY <1>6, UpdateExact, MarkedNat DEF WindowInv, WindowExact
  <2>3. WindowExact'
    BY <1>2, <1>6, <2>2 DEF WindowInv, WindowExact
  <2>4. \A p \in received' \union early' : p \in Nat \X Nat /\ p[1] <= r_epoch + 1
    <3>1. <<r.epoch, r.seq>> \in Nat \X Nat /\ <<r.epoch, r.seq>>[1] <= r_epoch + 1
      BY <1>1
    <3>2. \A p \in received \union early : p \in Nat \X Nat /\ p[1] <= r_epoch + 1
      BY DEF WindowInv
    <3>3. QED
      BY <1>6, <3>1, <3>2
  <2>5. received' \subseteq Nat \X Nat /\ early' \subseteq Nat \X Nat
    BY <2>4
  <2>6. QED
    BY <1>2, <2>1, <2>3, <2>4, <2>5 DEF WindowInv
<1>7. CASE b.ret = 0
  <2>1. Marked(r_epoch + 1)' = Marked(r_epoch + 1) \union {r.seq} /\ Marked(r_epoch)' = Marked(r_epoch)
    BY <1>1, <1>2, <1>4, <1>7, MarkedAfter
  <2>2. QED
    BY <1>1, <1>4, <1>6, <1>7, <2>1
<1>8. CASE b.ret = 1
  <2>1. Marked(r_epoch + 1)' = Marked(r_epoch + 1) \union {0} /\ Marked(r_epoch)' = Marked(r_epoch)
    BY <1>1, <1>2, <1>4, <1>8, MarkedEarly
  <2>2. QED
    BY <1>4, <1>6, <1>8, <2>1
<1>9. QED
  BY <1>3, <1>5, <1>7, <1>8

\* ChangeCipherSpec: the next window becomes the current one and a cleared
\* window the next one; no number of that epoch was ever marked.
LEMMA ReceiveCcsKeeps ==
  ASSUME WindowInv, NEW r \in rrec, ReceiveCcs(r)
  PROVE  WindowInv'
<1>1. UNCHANGED <<w_seq, sent>>
  BY DEF ReceiveCcs, dispatchUnchanged, peerVars
<1>2. CASE UNCHANGED winVars
  BY <1>1, <1>2 DEF WindowInv, WindowExact, Marked, winVars
<1>3. CASE dtls1_reset_seq_numbers
  <2>1. /\ r_epoch' = r_epoch + 1 /\ bitmap' = next_bitmap
        /\ next_bitmap' = ClearBitmap /\ received' = received /\ early' = early
        /\ r_epoch \in Nat
    BY <1>3 DEF dtls1_reset_seq_numbers, WindowInv
  <2>2. ClearBitmap \in DTLS1_BITMAP /\ Exact(ClearBitmap, {})
    BY WindowAssumption DEF ClearBitmap, DTLS1_BITMAP, Exact
  <2>3. Marked(r_epoch)' = Marked(r_epoch + 1)
    BY <2>1 DEF Marked
  <2>4. Marked(r_epoch + 1)' = {}
    BY <2>1 DEF Marked, WindowInv
  <2>5. \A p \in received' \union early' : p[1] <= r_epoch' + 1
    <3>1. \A p \in received \union early : p[1] \in Nat /\ p[1] <= r_epoch + 1
      BY DEF WindowInv
    <3>2. QED
      BY <2>1, <3>1
  <2>6. WindowExact'
    BY <2>1, <2>2, <2>3, <2>4, Zenon DEF WindowInv, WindowExact
  <2>7. QED
    BY <1>1, <2>1, <2>2, <2>5, <2>6 DEF WindowInv
<1>4. QED
  BY <1>2, <1>3 DEF ReceiveCcs

\* The peer's records carry natural numbers.
LEMMA PeerSendKeeps ==
  ASSUME WindowInv, NEW t \in Types, NEW e \in Epochs, PeerSend(t, e)
  PROVE  WindowInv'
<1>1. e \in Nat /\ w_seq[e] \in Nat
  BY ReadAssumption DEF WindowInv, Epochs
<1>2. w_seq' \in [Epochs -> Nat]
  BY <1>1 DEF PeerSend, WindowInv
<1>3. sent' \subseteq [epoch : Nat, seq : Nat, type : Types, good : BOOLEAN]
  <2>1. [epoch |-> e, seq |-> w_seq[e], type |-> t, good |-> TRUE]
          \in [epoch : Nat, seq : Nat, type : Types, good : BOOLEAN]
    BY <1>1
  <2>2. QED
    BY <2>1, Zenon DEF PeerSend, WindowInv
<1>4. QED
  BY <1>2, <1>3 DEF PeerSend, WindowInv, WindowExact, Marked, winVars

\* Every other step leaves the windows and the peer alone.
LEMMA OtherSteps ==
  ASSUME [Next]_vars,
         ~\E t \in Types, e \in Epochs : PeerSend(t, e),
         ~\E r \in Arriving : ReadRecord(r) \/ BufferNextEpoch(r),
         ~\E r \in rrec : ReceiveCcs(r)
  PROVE  UNCHANGED <<w_seq, sent, winVars>>
<1> USE DEF peerVars, dispatchUnchanged
<1>1. CASE GetRecord \/ WouldBlock \/ RetrieveAppData \/ \E r \in Arriving : DumpRecord(r)
  BY <1>1 DEF GetRecord, WouldBlock, RetrieveAppData, DumpRecord
<1>2. ASSUME NEW r \in rrec,
             \/ BufferAppData(r) \/ ThrowAway(r) \/ DeliverAppData(r)
             \/ AppDataInHandshake(r) \/ ReceiveCloseNotify(r)
             \/ ReceiveHandshake(r) \/ UnexpectedHandshake(r)
             \/ DispatchUnopened(r)
      PROVE  UNCHANGED <<w_seq, sent, winVars>>
  <2>1. CASE BufferAppData(r) \/ ThrowAway(r) \/ DispatchUnopened(r)
    BY <2>1 DEF BufferAppData, ThrowAway, DispatchUnopened
  <2>2. CASE DeliverAppData(r) \/ AppDataInHandshake(r) \/ ReceiveCloseNotify(r)
    BY <2>2 DEF DeliverAppData, AppDataInHandshake, ReceiveCloseNotify
  <2>3. CASE ReceiveHandshake(r)
    BY <2>3 DEF ReceiveHandshake
  <2>4. CASE UnexpectedHandshake(r)
    BY <2>4 DEF UnexpectedHandshake
  <2>5. QED
    BY <1>2, <2>1, <2>2, <2>3, <2>4
<1>3. CASE SSL_do_handshake \/ SSL_read \/ SSL_renegotiate
  BY <1>3 DEF SSL_do_handshake, SSL_read, SSL_renegotiate
<1>4. CASE UNCHANGED vars
  BY <1>4 DEF vars
<1>5. QED
  BY <1>1, <1>2, <1>3, <1>4 DEF Next, ReadBytes

\* No step of the connection breaks the invariant.
LEMMA WindowStep == WindowInv /\ [Next]_vars => WindowInv'
<1> SUFFICES ASSUME WindowInv, [Next]_vars PROVE WindowInv'
  OBVIOUS
<1>1. CASE \E t \in Types, e \in Epochs : PeerSend(t, e)
  BY <1>1, PeerSendKeeps
<1>2. CASE \E r \in Arriving : ReadRecord(r) \/ BufferNextEpoch(r)
  BY <1>2, ReadRecordKeeps, BufferNextEpochKeeps
<1>3. CASE \E r \in rrec : ReceiveCcs(r)
  BY <1>3, ReceiveCcsKeeps
<1>4. CASE UNCHANGED <<w_seq, sent, winVars>>
  BY <1>4 DEF WindowInv, WindowExact, Marked, winVars
<1>5. QED
  BY <1>1, <1>2, <1>3, <1>4, OtherSteps

\* The replay windows of a DTLS connection say in every reachable state which
\* numbers were marked, for every window size that satsub64be can measure.
THEOREM WindowExactAlways == Spec => []WindowExact
<1>1. WindowInv => WindowExact
  BY DEF WindowInv
<1>2. QED
  BY <1>1, WindowInit, WindowStep, PTL DEF Spec

\* A step that takes nothing from the network puts nothing into rrec or among
\* the unprocessed records while dtls1_get_record reads it.
LEMMA OffWire ==
  ASSUME [Next]_vars, at = "wire",
         ~\E r \in Arriving : ReadRecord(r) \/ BufferNextEpoch(r)
  PROVE  rrec' \subseteq rrec /\ unprocessed' = unprocessed
<1> USE DEF unprocVars, dispatchUnchanged
<1>1. CASE WouldBlock \/ \E r \in Arriving : DumpRecord(r)
  BY <1>1 DEF WouldBlock, DumpRecord
<1>2. ~GetRecord /\ ~RetrieveAppData
  BY DEF GetRecord, RetrieveAppData
<1>3. ~\E r \in rrec :
         \/ DispatchUnopened(r)
         \/ BufferAppData(r) \/ ThrowAway(r) \/ DeliverAppData(r)
         \/ AppDataInHandshake(r) \/ ReceiveCloseNotify(r) \/ ReceiveCcs(r)
         \/ ReceiveHandshake(r) \/ UnexpectedHandshake(r)
  BY DEF DispatchUnopened, BufferAppData, ThrowAway, DeliverAppData,
         AppDataInHandshake, ReceiveCloseNotify, ReceiveCcs, ReceiveHandshake,
         UnexpectedHandshake, Dispatch, Holding
<1>4. CASE SSL_do_handshake \/ SSL_read \/ SSL_renegotiate
  BY <1>4 DEF SSL_do_handshake, SSL_read, SSL_renegotiate
<1>5. CASE \E t \in Types, e \in Epochs : PeerSend(t, e)
  BY <1>5 DEF PeerSend
<1>6. CASE UNCHANGED vars
  BY <1>6 DEF vars
<1>7. QED
  BY <1>1, <1>2, <1>3, <1>4, <1>5, <1>6 DEF Next, ReadBytes

\* What dtls1_get_record takes from the network was never marked under its
\* number: of the copies of a record it takes one at most, besides one that it
\* kept before its epoch began.
THEOREM NeverReplayed == Spec => NoReplay
<1>1. ASSUME WindowInv, [Next]_vars PROVE TakesFresh
  <2>1. ASSUME NEW r \in Arriving, ReadRecord(r) PROVE TakesFresh
    <3>1. r.seq \in Nat /\ r.epoch = r_epoch /\ r_epoch \in Nat
      BY <1>1, <2>1, ArrivingType DEF ReadRecord, InCurrentEpoch, WindowInv
    <3>2. dtls1_record_replay_check(bitmap, r.seq)
      BY <2>1, <3>1 DEF ReadRecord, Fresh, InNextEpoch
    <3>3. r.seq \notin Marked(r_epoch)
      BY <1>1, <3>1, <3>2, CheckSound, MarkedNat DEF WindowInv, WindowExact
    <3>4. Id(r) \notin received
      BY <3>1, <3>3 DEF Marked, Id
    <3>5. rrec' \subseteq {r} /\ unprocessed' = unprocessed
      BY <2>1 DEF ReadRecord, unprocVars
    <3>6. QED
      BY <3>4, <3>5 DEF TakesFresh
  <2>2. ASSUME NEW r \in Arriving, BufferNextEpoch(r) PROVE TakesFresh
    <3>1. r.seq \in Nat /\ r.epoch = r_epoch + 1 /\ r_epoch \in Nat
      BY <1>1, <2>2, ArrivingType DEF BufferNextEpoch, InNextEpoch, WindowInv
    <3>2. dtls1_record_replay_check(next_bitmap, r.seq)
      BY <2>2, <3>1 DEF BufferNextEpoch, Fresh, InCurrentEpoch
    <3>3. r.seq \notin Marked(r_epoch + 1)
      BY <1>1, <3>1, <3>2, CheckSound, MarkedNat DEF WindowInv, WindowExact
    <3>4. Id(r) \notin received
      BY <3>1, <3>3 DEF Marked, Id
    <3>5. rrec' = {} /\ unprocessed' \subseteq unprocessed \union {r}
      BY <2>2 DEF BufferNextEpoch, dtls1_buffer_record
    <3>6. QED
      BY <3>4, <3>5 DEF TakesFresh
  <2>3. CASE at # "wire"
    BY <2>3 DEF TakesFresh
  <2>4. QED
    BY <1>1, <2>1, <2>2, <2>3, OffWire DEF TakesFresh
<1>2. WindowInv /\ [Next]_vars => [TakesFresh]_vars
  BY <1>1
<1>3. QED
  BY <1>2, WindowInit, WindowStep, PTL DEF Spec, NoReplay
=============================================================================
