----------------------------- MODULE MCDtlsRead -----------------------------
(* Instances of DtlsRead for TLC.  The bounds on sequence numbers leave    *)
(* room for retransmissions in the epochs that a run is about.             *)
EXTENDS DtlsRead, TLC

\* One handshake (ClientHello, ClientKeyExchange, ChangeCipherSpec and one
\* retransmission), then Finished, data and close_notify.
OneHandshake == 0 :> 3 @@ 1 :> 2

\* A first handshake without loss, then a full renegotiation in epoch 1.
Renegotiation == 0 :> 2 @@ 1 :> 4 @@ 2 :> 1

\* A session is resumed; the second handshake may be full or resumed, with
\* data before it or with retransmissions.
TwoHandshakes == 0 :> 1 @@ 1 :> 3 @@ 2 :> 1

(* Sequence numbers whose bytes lie at the boundaries of satsub64be: the     *)
(* sign bit of the low byte, and the borrows through the bytes above it.     *)
(* TLC's integers have 32 bits: the numbers stay below 2^31.                 *)
SequenceNumbers ==
  {[i \in 0 .. 7 |-> CASE i = 7 -> low [] i = 6 -> mid [] i = 4 -> high [] OTHER -> 0] :
     low \in {0, 1, 127, 128, 129, 254, 255}, mid \in {0, 1, 127, 128, 254, 255},
     high \in {0, 1, 127}}

OnBytes == INSTANCE DtlsSatsub

\* The subtraction that the window is checked with is what satsub64be computes
\* byte by byte, at these boundaries (DtlsReadProofs: for all numbers).
ASSUME SatsubAtBoundaries == OnBytes!SatsubRight(SequenceNumbers)
=============================================================================
