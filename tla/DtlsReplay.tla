----------------------------- MODULE DtlsReplay -----------------------------
(***************************************************************************)
(* The DTLS anti-replay window of ssl/d1_pkt.c: a DTLS1_BITMAP holds the   *)
(* highest record sequence number received in an epoch and one bit for     *)
(* each of the MapBits sequence numbers up to it.  The machine word of     *)
(* bits is the set of the positions whose bit is 1; the byte strings that  *)
(* hold sequence numbers are naturals (DtlsSatsub is the byte-wise         *)
(* subtraction the code uses).                                             *)
(***************************************************************************)
EXTENDS Integers

CONSTANTS
  MapBits,     \* sizeof(bitmap->map) * 8
  Saturation   \* the bound of satsub64be: 128

\* The window is exact only because the subtraction saturates no sooner than
\* the window ends: 128 against 64 (or 32) bits in the code.
ASSUME WindowAssumption ==
  /\ MapBits \in Nat \ {0}
  /\ Saturation \in Nat
  /\ MapBits <= Saturation

DTLS1_BITMAP == [max_seq_num : Nat, map : SUBSET (0 .. MapBits - 1)]

\* A bitmap cleared by calloc or memset.
ClearBitmap == [max_seq_num |-> 0, map |-> {}]

satsub64be(v1, v2) ==
  IF v1 - v2 > Saturation THEN Saturation
  ELSE IF v1 - v2 < -Saturation THEN -Saturation
  ELSE v1 - v2

\* map <<= shift, bits leaving the word are lost
ShiftLeft(map, shift) == {i \in 0 .. MapBits - 1 : i - shift \in map}

Mut_replay_check(bitmap, seq) ==   \* mutant: off by one at the window's edge
  LET cmp == satsub64be(seq, bitmap.max_seq_num)
  IN  cmp > 0 \/ (-cmp <= MapBits /\ -cmp \notin bitmap.map)

\* TRUE: the record is new; FALSE: it is stale or was received before.
dtls1_record_replay_check(bitmap, seq) ==
  LET cmp == satsub64be(seq, bitmap.max_seq_num)
  IN  \/ cmp > 0
      \/ -cmp < MapBits /\ -cmp \notin bitmap.map

dtls1_record_bitmap_update(bitmap, seq) ==
  LET cmp == satsub64be(seq, bitmap.max_seq_num)
  IN  IF cmp > 0
      THEN [max_seq_num |-> seq,
            map |-> IF cmp < MapBits
                    THEN ShiftLeft(bitmap.map, cmp) \union {0}
                    ELSE {0}]
      ELSE [bitmap EXCEPT !.map = @ \union ({-cmp} \intersect (0 .. MapBits - 1))]

(***************************************************************************)
(* What the bitmap means: given the set R of the sequence numbers marked   *)
(* since it was cleared, max_seq_num bounds R and bit i tells whether      *)
(* max_seq_num - i is in R.                                                *)
(***************************************************************************)
Exact(bitmap, R) ==
  /\ \A s \in R : s <= bitmap.max_seq_num
  /\ \A i \in 0 .. MapBits - 1 :
       i \in bitmap.map <=> bitmap.max_seq_num - i \in R
=============================================================================
