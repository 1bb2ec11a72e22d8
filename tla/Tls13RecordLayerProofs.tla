----------------------- MODULE Tls13RecordLayerProofs -----------------------
(***************************************************************************)
(* Proofs about Tls13RecordLayer for a client: the peer accepts every      *)
(* record and every unit of data is accounted for, whatever the bounds.    *)
(*                                                                         *)
(* The invariant ties three places together: what the peer has read (peer),*)
(* the write key and number, and the sealed record that may wait in wrec.  *)
(* A call that fails for good may leave key and peer out of step, and is   *)
(* the last call; so the invariant is Good before and Weak after a failure.*)
(* base is the number of units reported to the application before the ones *)
(* still to be reported, limit how many of those there may be.             *)
(***************************************************************************)
EXTENDS Tls13RecordLayer, TLAPS

PeerStates == [gen : Nat, seq : Nat, data : Nat, closed : BOOLEAN, ok : BOOLEAN]
Codes == {"SUCCESS", "EOF", "FAILURE", "ALERT", "WANT_POLLIN", "WANT_POLLOUT", "WANT_RETRY"}
Results == [c : Connections, ret : Codes, n : Nat]

Flight(c) == IF c.wrec.type = "APP" THEN c.wrec.len ELSE 0

Data(c, base, limit) ==
  /\ c.peer.data = base + c.wrec_appdata_len
  /\ c.wrec_appdata_len + Flight(c) <= limit
  /\ c.wrec_appdata_len > 0 => c.wrec.type # "APP"

Weak(c, base, limit) == c \in Connections /\ c.peer.ok /\ Data(c, base, limit)

Synced(c) ==
  /\ c.write.key = [owner |-> Mode, gen |-> c.peer.gen]
  /\ c.secrets[Mode] = c.peer.gen
  /\ c.wrec \in {NoRec, Unsealed} => c.write.seq = c.peer.seq
  /\ c.wrec \in Records =>
       /\ c.wrec.key = c.write.key /\ c.wrec.seq = c.peer.seq
       /\ c.write.seq = c.peer.seq + 1
       /\ c.wrec.type = "APP" => c.wrec.from = c.peer.data

Good(c, base, limit) ==
  Weak(c, base, limit) /\ Synced(c) /\ (c.peer.closed => c.write_closed)

\* The peer has read our KeyUpdate and we have not changed the key yet.
Announced(c) ==
  /\ c.wrec = NoRec /\ c.peer.seq = 0
  /\ c.secrets[Mode] + 1 = c.peer.gen
  /\ c.peer.closed => c.write_closed

\* A function of the record layer keeps the invariant.
Kept(r, base, limit) ==
  /\ r \in Results
  /\ IF r.ret = "FAILURE" THEN Weak(r.c, base, limit) ELSE Good(r.c, base, limit)

\* What tls13_record_layer_write_record leaves for its callers to complete.
Wrote(r, type, base, limit) ==
  /\ r \in Results
  /\ r.ret \in {"SUCCESS", "EOF", "FAILURE", "WANT_POLLOUT"}
  /\ r.ret # "SUCCESS" => Kept(r, base, limit)
  /\ r.ret = "SUCCESS" /\ type = "APP" =>
       r.n <= limit /\ Good(r.c, base + r.n, 0)
  /\ r.ret = "SUCCESS" /\ type = "ALERT" => Weak(r.c, base, limit) /\ Synced(r.c)
  /\ r.ret = "SUCCESS" /\ type = "HANDSHAKE" => Weak(r.c, base, limit) /\ Announced(r.c)
-----------------------------------------------------------------------------
\* The fields that a change of a connection leaves alone keep the invariant.
LEMMA Frame ==
  ASSUME NEW c, NEW d \in Connections, NEW base, NEW limit,
         d.wrec = c.wrec, d.wrec_appdata_len = c.wrec_appdata_len,
         d.write = c.write, d.peer = c.peer, d.secrets[Mode] = c.secrets[Mode],
         c.write_closed => d.write_closed
  PROVE  /\ Good(c, base, limit) => Good(d, base, limit)
         /\ Weak(c, base, limit) => Weak(d, base, limit)
BY DEF Good, Weak, Synced, Data, Flight

\* A failure only records its reason.
LEMMA BrokenKept ==
  ASSUME NEW c, NEW base, NEW limit, Weak(c, base, limit),
         NEW w \in {"none", "socket", "unsealed", "seq", "partial", "alert", "phh", "rrec", "open"},
         NEW r \in Broken(c, w)
  PROVE  Kept(r, base, limit) /\ r.ret = "FAILURE"
<1> DEFINE d == [c EXCEPT !.why = w]
<1>1. c \in Connections
  BY DEF Weak
<1>2. /\ d \in Connections
      /\ d.wrec = c.wrec /\ d.wrec_appdata_len = c.wrec_appdata_len
      /\ d.write = c.write /\ d.peer = c.peer /\ d.secrets = c.secrets
      /\ d.write_closed = c.write_closed
  BY <1>1, ZenonT(60) DEF Connections
<1>3. Weak(d, base, limit)
  <2> HIDE DEF d
  <2> QED BY <1>2, Frame
<1>4. r = [c |-> d, ret |-> "FAILURE", n |-> 0]
  BY DEF Broken, Result
<1>5. QED
  <2> HIDE DEF d
  <2> QED BY <1>2, <1>3, <1>4 DEF Kept, Results, Codes

\* A record that goes out is accepted by the peer; the data in it arrives.
LEMMA PushedRecord ==
  ASSUME NEW c, NEW base \in Nat, NEW limit \in Nat, Good(c, base, limit),
         c.wrec \in Records, ~c.write_closed,
         NEW d, d = [c EXCEPT !.wrec = NoRec, !.peer = Receive(c.peer, c.wrec)]
  PROVE  /\ d \in Connections
         /\ d.peer = Receive(c.peer, c.wrec) /\ d.peer \in PeerStates /\ d.peer.ok
         /\ d.wrec = NoRec
         /\ d.wrec_appdata_len = c.wrec_appdata_len /\ d.write = c.write
         /\ d.secrets = c.secrets /\ d.write_closed = c.write_closed
<1>1. c \in Connections
  BY DEF Good, Weak
<1>2. c.peer \in PeerStates
  BY <1>1 DEF Connections, PeerStates
<1>3. Receive(c.peer, c.wrec) \in PeerStates
  BY <1>2 DEF Receive, Records, PeerStates
<1>4. /\ d \in Connections /\ d.peer = Receive(c.peer, c.wrec) /\ d.wrec = NoRec
      /\ d.wrec_appdata_len = c.wrec_appdata_len /\ d.write = c.write
      /\ d.secrets = c.secrets /\ d.write_closed = c.write_closed
  BY <1>1, <1>3 DEF Connections, PeerStates
<1>5. d.peer.ok
  BY <1>2, <1>4 DEF Good, Weak, Synced, Receive, PeerStates
<1>6. QED
  BY <1>3, <1>4, <1>5

\* The results of tls13_record_send.
LEMMA SendResults ==
  ASSUME NEW c, NEW base \in Nat, NEW limit \in Nat, Good(c, base, limit),
         c.wrec # NoRec, ~c.write_closed, NEW r \in tls13_record_send(c)
  PROVE  \/ r.ret \in {"FAILURE", "WANT_POLLOUT"} /\ Kept(r, base, limit)
         \/ /\ c.wrec \in Records
            /\ r = [c |-> [c EXCEPT !.wrec = NoRec, !.peer = Receive(c.peer, c.wrec)],
                    ret |-> "SUCCESS", n |-> 0]
<1>1. c \in Connections /\ Weak(c, base, limit)
  BY DEF Good, Weak
<1>2. c.wrec \in Records \union {NoRec, Unsealed}
  BY <1>1 DEF Connections
<1>3. CASE r \in Broken(c, "unsealed") \union Broken(c, "socket")
  BY <1>1, <1>3, BrokenKept
<1>4. CASE r \in Result(c, "WANT_POLLOUT")
  BY <1>1, <1>4 DEF Result, Kept, Results, Codes
<1>5. CASE c.wrec # Unsealed /\ r \in Done([c EXCEPT !.wrec = NoRec, !.peer = Receive(@, c.wrec)], 0)
  BY <1>2, <1>5 DEF Done
<1>6. QED
  BY <1>3, <1>4, <1>5 DEF tls13_record_send

\* What a record of each type does to keys, numbers and data.
LEMMA PushedKinds ==
  ASSUME Mode = "client",
         NEW c, NEW base \in Nat, NEW limit \in Nat, Good(c, base, limit),
         c.wrec \in Records, ~c.write_closed,
         NEW d, d = [c EXCEPT !.wrec = NoRec, !.peer = Receive(c.peer, c.wrec)]
  PROVE  /\ c.wrec.type = "APP" =>
              /\ c.wrec_appdata_len = 0 /\ c.wrec.len \in Nat /\ c.wrec.len <= limit
              /\ Good(d, base + c.wrec.len, 0)
              /\ d.peer.data = base + c.wrec.len
         /\ c.wrec.type = "ALERT" => Weak(d, base, limit) /\ Synced(d)
         /\ c.wrec.type = "HANDSHAKE" => Weak(d, base, limit) /\ Announced(d)
<1>1. /\ d \in Connections
      /\ d.peer = Receive(c.peer, c.wrec) /\ d.peer \in PeerStates /\ d.peer.ok
      /\ d.wrec = NoRec
      /\ d.wrec_appdata_len = c.wrec_appdata_len /\ d.write = c.write
      /\ d.secrets = c.secrets /\ d.write_closed = c.write_closed
  BY PushedRecord
<1>2. /\ c \in Connections /\ c.peer \in PeerStates /\ c.wrec_appdata_len \in Nat
      /\ c.wrec.len \in Nat /\ ~c.peer.closed
  BY DEF Good, Weak, Connections, PeerStates, Records
<1>3. Flight(d) = 0 /\ d.wrec.type # "APP" /\ NoRec \notin Records
  BY <1>1 DEF Flight, NoRec, Records
<1>4. /\ c.peer.data = base + c.wrec_appdata_len
      /\ c.wrec_appdata_len + Flight(c) <= limit
      /\ c.wrec_appdata_len > 0 => c.wrec.type # "APP"
  BY DEF Good, Weak, Data
<1>5. /\ c.write.key = [owner |-> Mode, gen |-> c.peer.gen]
      /\ c.secrets[Mode] = c.peer.gen
      /\ c.wrec.key = c.write.key /\ c.wrec.seq = c.peer.seq
      /\ c.write.seq = c.peer.seq + 1
  BY DEF Good, Synced
<1>6. ASSUME c.wrec.type = "APP"
      PROVE  /\ c.wrec_appdata_len = 0 /\ c.wrec.len <= limit
             /\ Good(d, base + c.wrec.len, 0)
             /\ d.peer.data = base + c.wrec.len
  <2>0. c.wrec_appdata_len = 0
    BY <1>2, <1>4, <1>6
  <2> QED
    BY <1>1, <1>2, <1>3, <1>4, <1>5, <1>6, <2>0
    DEF Good, Weak, Data, Synced, Receive, Flight, PeerStates
<1>7. ASSUME c.wrec.type = "ALERT" PROVE Weak(d, base, limit) /\ Synced(d)
  BY <1>1, <1>2, <1>3, <1>4, <1>5, <1>7
  DEF Weak, Data, Synced, Receive, Flight, PeerStates
<1>8. ASSUME c.wrec.type = "HANDSHAKE" PROVE Weak(d, base, limit) /\ Announced(d)
  BY <1>1, <1>2, <1>3, <1>4, <1>5, <1>8
  DEF Weak, Data, Announced, Receive, Flight, PeerStates
<1>9. QED
  BY <1>2, <1>6, <1>7, <1>8

\* A record sealed under a write key in step with the peer is in step too.
LEMMA SealedRecord ==
  ASSUME Mode = "client",
         NEW c, NEW base \in Nat, NEW limit \in Nat, Good(c, base, limit), c.wrec = NoRec,
         NEW type \in {"APP", "ALERT", "HANDSHAKE"}, NEW from \in Nat, NEW len \in Nat,
         type = "APP" => c.wrec_appdata_len = 0 /\ from = base /\ len <= limit,
         NEW s \in tls13_record_layer_seal_record(c, type, from, len)
  PROVE  /\ s \in Results /\ s.ret \in {"SUCCESS", "FAILURE"}
         /\ s.ret = "FAILURE" => Weak(s.c, base, limit)
         /\ s.ret = "SUCCESS" =>
              /\ Good(s.c, base, limit)
              /\ s.c.wrec \in Records /\ s.c.wrec.type = type /\ s.c.wrec.len = len
              /\ s.c.write_closed = c.write_closed
<1> DEFINE u == [c EXCEPT !.wrec = Unsealed]
           rec == [type |-> type, key |-> c.write.key, seq |-> c.write.seq,
                   from |-> from, len |-> len]
           e == [c EXCEPT !.wrec = rec, !.write.seq = Successor(@)]
<1>1. /\ c \in Connections /\ c.write \in Protections /\ c.write.seq \in 0 .. MaxSeq
      /\ c.write.key \in Keys /\ c.peer \in PeerStates /\ c.wrec_appdata_len \in Nat
      /\ MaxSeq \in Nat
  BY RecordLayerAssumption DEF Good, Weak, Connections, PeerStates, Protections
<1>2. ASSUME s \in Broken(u, "seq") PROVE Weak(s.c, base, limit) /\ s \in Results /\ s.ret = "FAILURE"
  <2>1. /\ u \in Connections /\ u.wrec = Unsealed /\ u.peer = c.peer
        /\ u.wrec_appdata_len = c.wrec_appdata_len
    BY <1>1, ZenonT(60) DEF Connections
  <2>2. Weak(u, base, limit)
    <3> HIDE DEF u
    <3> QED BY <1>1, <2>1 DEF Good, Weak, Data, Flight, Unsealed, NoRec
  <2>3. QED
    <3> HIDE DEF u
    <3> QED BY <1>2, <2>2, BrokenKept DEF Kept
<1>3. ASSUME c.write.seq # MaxSeq, s \in Done(e, 0)
      PROVE  /\ s \in Results /\ s.ret = "SUCCESS" /\ Good(s.c, base, limit)
             /\ s.c.wrec \in Records /\ s.c.wrec.type = type /\ s.c.wrec.len = len
             /\ s.c.write_closed = c.write_closed
  <2>1. rec \in Records
    BY <1>1 DEF Records
  <2>2. Successor(c.write.seq) = c.write.seq + 1 /\ c.write.seq + 1 \in 0 .. MaxSeq
    BY <1>1, <1>3 DEF Successor
  <2>3. /\ [c.write EXCEPT !.seq = Successor(@)] \in Protections
        /\ [c.write EXCEPT !.seq = Successor(@)].key = c.write.key
        /\ [c.write EXCEPT !.seq = Successor(@)].seq = c.write.seq + 1
    BY <1>1, <2>2 DEF Protections
  <2>4. /\ e \in Connections /\ e.wrec = rec /\ e.peer = c.peer
        /\ e.wrec_appdata_len = c.wrec_appdata_len
        /\ e.write = [c.write EXCEPT !.seq = Successor(@)]
        /\ e.secrets = c.secrets /\ e.write_closed = c.write_closed
    <3> HIDE DEF rec
    <3> QED BY <1>1, <2>1, <2>3 DEF Connections
  <2>5. rec.type = type /\ rec.len = len /\ rec.from = from /\ rec.key = c.write.key /\ rec.seq = c.write.seq
    OBVIOUS
  <2>6. rec \notin {NoRec, Unsealed}
    BY <2>5 DEF NoRec, Unsealed
  <2>7. Good(e, base, limit)
    <3> HIDE DEF e, rec
    <3>1. c.peer.data = base + c.wrec_appdata_len /\ c.wrec_appdata_len <= limit
      BY <1>1 DEF Good, Weak, Data, Flight, NoRec
    <3>2. Data(e, base, limit)
      BY <1>1, <2>4, <2>5, <3>1 DEF Data, Flight
    <3>3. Synced(e)
      BY <1>1, <2>3, <2>4, <2>5, <2>6, <3>1 DEF Good, Synced, PeerStates
    <3>4. QED
      BY <2>4, <3>2, <3>3 DEF Good, Weak
  <2>8. s = [c |-> e, ret |-> "SUCCESS", n |-> 0]
    BY <1>3 DEF Done
  <2>9. QED
    <3> HIDE DEF e, rec
    <3> QED BY <2>1, <2>4, <2>5, <2>7, <2>8 DEF Results, Codes
<1>4. QED
  BY <1>2, <1>3 DEF tls13_record_layer_seal_record, tls13_record_layer_inc_seq_num

\* The end of tls13_record_layer_write_record: seal a record and send it.
LEMMA SealAndSendWrote ==
  ASSUME Mode = "client",
         NEW c, NEW base \in Nat, NEW limit \in Nat, Good(c, base, limit),
         c.wrec = NoRec, ~c.write_closed,
         NEW type \in {"APP", "ALERT", "HANDSHAKE"}, NEW from \in Nat, NEW len \in Nat,
         type = "APP" => c.wrec_appdata_len = 0 /\ from = base /\ len <= limit,
         NEW r \in SealAndSend(c, type, from, len)
  PROVE  Wrote(r, type, base, limit)
<1>1. PICK s \in tls13_record_layer_seal_record(c, type, from, len) :
        IF s.ret = "SUCCESS"
        THEN \E p \in tls13_record_send(s.c) :
               r \in IF p.ret = "SUCCESS" THEN Done(p.c, len) ELSE {p}
        ELSE r = s
  BY DEF SealAndSend, Then
<1>2. /\ s \in Results /\ s.ret \in {"SUCCESS", "FAILURE"}
      /\ s.ret = "FAILURE" => Weak(s.c, base, limit)
      /\ s.ret = "SUCCESS" =>
           /\ Good(s.c, base, limit)
           /\ s.c.wrec \in Records /\ s.c.wrec.type = type /\ s.c.wrec.len = len
           /\ s.c.write_closed = c.write_closed
  BY SealedRecord
<1>3. CASE s.ret # "SUCCESS"
  BY <1>1, <1>2, <1>3 DEF Wrote, Kept
<1>4. CASE s.ret = "SUCCESS"
  <2>0. PICK e : e = s.c
    OBVIOUS
  <2> DEFINE d == [e EXCEPT !.wrec = NoRec, !.peer = Receive(e.peer, e.wrec)]
  <2>1. /\ Good(e, base, limit) /\ e.wrec \in Records /\ e.wrec # NoRec
        /\ e.wrec.type = type /\ e.wrec.len = len /\ ~e.write_closed
    BY <1>2, <1>4, <2>0 DEF NoRec, Records
  <2>2. PICK p \in tls13_record_send(e) :
          r \in IF p.ret = "SUCCESS" THEN Done(p.c, len) ELSE {p}
    BY <1>1, <1>4, <2>0
  <2>3. \/ p.ret \in {"FAILURE", "WANT_POLLOUT"} /\ Kept(p, base, limit)
        \/ p = [c |-> d, ret |-> "SUCCESS", n |-> 0]
    <3>1. /\ Good(e, base, limit) /\ e.wrec # NoRec /\ ~e.write_closed
          /\ p \in tls13_record_send(e)
      BY <2>1, <2>2
    <3>2. QED
      BY <3>1, SendResults, Zenon
  <2>4. CASE p.ret # "SUCCESS"
    <3>1. r = p /\ Kept(r, base, limit) /\ r.ret \in {"FAILURE", "WANT_POLLOUT"}
      <4> HIDE DEF d
      <4> QED BY <2>2, <2>3, <2>4
    <3>2. QED
      BY <3>1 DEF Wrote, Kept
  <2>5. CASE p = [c |-> d, ret |-> "SUCCESS", n |-> 0]
    <3>1. r = [c |-> d, ret |-> "SUCCESS", n |-> len]
      <4> HIDE DEF d
      <4> QED BY <2>2, <2>5 DEF Done
    <3>2. d \in Connections
      BY <2>1, PushedRecord
    <3>3. /\ type = "APP" => len <= limit /\ Good(d, base + len, 0)
          /\ type = "ALERT" => Weak(d, base, limit) /\ Synced(d)
          /\ type = "HANDSHAKE" => Weak(d, base, limit) /\ Announced(d)
      BY <2>1, PushedKinds
    <3>4. QED
      <4> HIDE DEF d
      <4> QED BY <3>1, <3>2, <3>3 DEF Wrote, Results, Codes
  <2>6. QED
    <3> HIDE DEF d
    <3> QED BY <2>3, <2>4, <2>5
<1>5. QED
  BY <1>3, <1>4

\* tls13_record_layer_write_record, whatever waits in wrec.
LEMMA WriteRecordWrote ==
  ASSUME Mode = "client",
         NEW c, NEW base \in Nat, NEW limit \in Nat, Good(c, base, limit),
         NEW type \in {"APP", "ALERT", "HANDSHAKE"}, NEW from \in Nat, NEW len \in Nat,
         type = "APP" => from = base /\ len <= limit,
         NEW r \in tls13_record_layer_write_record(c, type, from, len)
  PROVE  Wrote(r, type, base, limit)
<1> DEFINE z == [c EXCEPT !.wrec_appdata_len = 0]
           d == [c EXCEPT !.wrec = NoRec, !.peer = Receive(c.peer, c.wrec)]
           a == [d EXCEPT !.wrec_appdata_len = c.wrec.len]
<1>1. /\ c \in Connections /\ c.wrec_appdata_len \in Nat /\ c.peer \in PeerStates
      /\ c.wrec \in Records \union {NoRec, Unsealed} /\ NoRec \notin Records
      /\ c.write_closed \in BOOLEAN
  BY DEF Good, Weak, Connections, PeerStates, NoRec, Records
<1>2. CASE c.write_closed
  <2>1. r = [c |-> c, ret |-> "EOF", n |-> 0]
    BY <1>2 DEF tls13_record_layer_write_record, Result
  <2>2. QED
    BY <1>1, <2>1 DEF Wrote, Kept, Results, Codes
<1>3. CASE ~c.write_closed /\ type = "APP" /\ c.wrec_appdata_len # 0
  <2>1. r = [c |-> z, ret |-> "SUCCESS", n |-> c.wrec_appdata_len]
    BY <1>3 DEF tls13_record_layer_write_record, Done
  <2>2. /\ z \in Connections /\ z.wrec_appdata_len = 0 /\ z.wrec = c.wrec /\ z.peer = c.peer
        /\ z.write = c.write /\ z.secrets = c.secrets /\ z.write_closed = c.write_closed
    BY <1>1 DEF Connections
  <2>3. c.wrec_appdata_len <= limit /\ Flight(c) = 0
    BY <1>1, <1>3 DEF Good, Weak, Data, Flight
  <2>4. Good(z, base + c.wrec_appdata_len, 0)
    <3> HIDE DEF z
    <3>1. Flight(z) = 0
      BY <2>2, <2>3 DEF Flight
    <3>2. Data(z, base + c.wrec_appdata_len, 0)
      BY <1>1, <2>2, <2>3, <3>1 DEF Good, Weak, Data
    <3>3. QED
      BY <2>2, <3>2 DEF Good, Weak, Synced
  <2>5. QED
    <3> HIDE DEF z
    <3> QED BY <1>1, <1>3, <2>1, <2>2, <2>3, <2>4 DEF Wrote, Results, Codes
<1>4. CASE /\ ~c.write_closed /\ ~(type = "APP" /\ c.wrec_appdata_len # 0)
           /\ c.wrec = NoRec
  BY <1>4, SealAndSendWrote DEF tls13_record_layer_write_record
<1>5. CASE /\ ~c.write_closed /\ ~(type = "APP" /\ c.wrec_appdata_len # 0)
           /\ c.wrec # NoRec
  <2>1. PICK p \in tls13_record_send(c) :
          IF p.ret # "SUCCESS" THEN r = p
          ELSE IF c.wrec.type = type THEN r \in Done(p.c, c.wrec.len)
          ELSE IF c.wrec.type # "APP" THEN r \in Broken(p.c, "partial")
          ELSE r \in SealAndSend([p.c EXCEPT !.wrec_appdata_len = c.wrec.len], type, from, len)
    BY <1>5 DEF tls13_record_layer_write_record, Then
  <2>2. \/ p.ret \in {"FAILURE", "WANT_POLLOUT"} /\ Kept(p, base, limit)
        \/ c.wrec \in Records /\ p = [c |-> d, ret |-> "SUCCESS", n |-> 0]
    BY <1>5, SendResults
  <2>3. CASE p.ret # "SUCCESS"
    <3>1. r = p /\ Kept(r, base, limit) /\ r.ret \in {"FAILURE", "WANT_POLLOUT"}
      <4> HIDE DEF d
      <4> QED BY <2>1, <2>2, <2>3
    <3>2. QED
      BY <3>1 DEF Wrote, Kept
  <2>4. CASE c.wrec \in Records /\ p = [c |-> d, ret |-> "SUCCESS", n |-> 0]
    <3>0. p.c = d /\ p.ret = "SUCCESS" /\ c.wrec \in Records
      <4> HIDE DEF d
      <4> QED BY <2>4
    <3>1. /\ d \in Connections /\ d.wrec = NoRec /\ d.peer \in PeerStates
          /\ d.write_closed = c.write_closed /\ d.wrec_appdata_len = c.wrec_appdata_len
      BY <1>5, <3>0, PushedRecord
    <3>2. /\ c.wrec.type = "APP" =>
               /\ c.wrec_appdata_len = 0 /\ c.wrec.len \in Nat /\ c.wrec.len <= limit
               /\ Good(d, base + c.wrec.len, 0)
               /\ d.peer.data = base + c.wrec.len
          /\ c.wrec.type = "ALERT" => Weak(d, base, limit) /\ Synced(d)
          /\ c.wrec.type = "HANDSHAKE" => Weak(d, base, limit) /\ Announced(d)
      BY <1>5, <3>0, PushedKinds
    <3>3. c.wrec.type \in {"APP", "ALERT", "HANDSHAKE"} /\ c.wrec.len \in Nat
      BY <3>0 DEF Records
    <3>4. CASE c.wrec.type = type
      <4> HIDE DEF d
      <4>1. r = [c |-> d, ret |-> "SUCCESS", n |-> c.wrec.len]
        BY <2>1, <3>0, <3>4 DEF Done
      <4>2. QED
        BY <3>1, <3>2, <3>3, <3>4, <4>1 DEF Wrote, Results, Codes
    <3>5. CASE c.wrec.type # type /\ c.wrec.type # "APP"
      <4> HIDE DEF d
      <4>1. r \in Broken(d, "partial") /\ Weak(d, base, limit)
        BY <2>1, <3>0, <3>2, <3>3, <3>5
      <4>2. Kept(r, base, limit) /\ r.ret = "FAILURE"
        BY <4>1, BrokenKept
      <4>3. QED
        BY <4>2 DEF Wrote, Kept
    <3>6. CASE c.wrec.type # type /\ c.wrec.type = "APP"
      <4>1. r \in SealAndSend(a, type, from, len)
        <5> HIDE DEF d
        <5> QED BY <2>1, <3>0, <3>6
      <4>2. /\ a \in Connections /\ a.wrec_appdata_len = c.wrec.len /\ a.wrec = NoRec
            /\ a.peer = d.peer /\ a.write = d.write /\ a.secrets = d.secrets
            /\ a.write_closed = d.write_closed
        <5> HIDE DEF d
        <5> QED BY <3>1, <3>3, ZenonT(60) DEF Connections
      <4>3. Good(a, base, limit)
        <5> HIDE DEF a, d
        <5>1. Data(a, base, limit)
          BY <3>2, <3>3, <3>6, <4>2 DEF Data, Flight, NoRec
        <5>2. QED
          BY <3>1, <3>2, <3>6, <4>2, <5>1 DEF Good, Weak, Synced
      <4>4. QED
        <5> HIDE DEF a, d
        <5> QED BY <1>5, <3>1, <3>6, <4>1, <4>2, <4>3, SealAndSendWrote
    <3>7. QED
      BY <3>4, <3>5, <3>6
  <2>5. QED
    <3> HIDE DEF d
    <3> QED BY <2>2, <2>3, <2>4
<1>6. QED
  BY <1>1, <1>2, <1>3, <1>4, <1>5

\* Once the alert is out the write channel is closed.
LEMMA AlertSentKept ==
  ASSUME NEW c, NEW base, NEW limit, Weak(c, base, limit), Synced(c), NEW r \in AlertSent(c)
  PROVE  Kept(r, base, limit) /\ r.ret \in {"SUCCESS", "ALERT"}
<1> DEFINE d == [c EXCEPT !.alert_data = "NONE", !.write_closed = TRUE]
           e == [d EXCEPT !.close_notify_sent = TRUE]
           f == [d EXCEPT !.read_closed = TRUE]
<1>1. c \in Connections
  BY DEF Weak
<1>2. /\ d \in Connections /\ d.write_closed = TRUE
      /\ d.wrec = c.wrec /\ d.wrec_appdata_len = c.wrec_appdata_len
      /\ d.write = c.write /\ d.peer = c.peer /\ d.secrets = c.secrets
  BY <1>1 DEF Connections
<1>3. Good(d, base, limit)
  <2> HIDE DEF d
  <2> QED BY <1>2 DEF Good, Weak, Synced, Data, Flight
<1>4. /\ e \in Connections /\ e.write_closed = d.write_closed
      /\ e.wrec = d.wrec /\ e.wrec_appdata_len = d.wrec_appdata_len
      /\ e.write = d.write /\ e.peer = d.peer /\ e.secrets = d.secrets
  <2> HIDE DEF d
  <2> QED BY <1>2 DEF Connections
<1>5. /\ f \in Connections /\ f.write_closed = d.write_closed
      /\ f.wrec = d.wrec /\ f.wrec_appdata_len = d.wrec_appdata_len
      /\ f.write = d.write /\ f.peer = d.peer /\ f.secrets = d.secrets
  <2> HIDE DEF d
  <2> QED BY <1>2 DEF Connections
<1>6. Good(e, base, limit) /\ Good(f, base, limit)
  <2> HIDE DEF d, e, f
  <2> QED BY <1>3, <1>4, <1>5, Frame
<1>7. r \in {[c |-> e, ret |-> "SUCCESS", n |-> 0], [c |-> f, ret |-> "ALERT", n |-> 0]}
  BY DEF AlertSent, Done, Result
<1>8. QED
  <2> HIDE DEF d, e, f
  <2> QED BY <1>4, <1>5, <1>6, <1>7 DEF Kept, Results, Codes

\* A pending alert goes out, or waits.
LEMMA SendAlertKept ==
  ASSUME Mode = "client",
         NEW c, NEW base \in Nat, NEW limit \in Nat, Good(c, base, limit),
         NEW r \in tls13_record_layer_send_alert(c)
  PROVE  Kept(r, base, limit) /\ r.ret \in {"SUCCESS", "FAILURE", "ALERT", "WANT_POLLOUT"}
<1>1. PICK w \in tls13_record_layer_write_record(c, "ALERT", 0, 2) :
        \E v \in {[w EXCEPT !.ret = IF @ = "EOF" THEN "ALERT" ELSE @]} :
          r \in IF v.ret = "SUCCESS" THEN AlertSent(v.c) ELSE {v}
  BY DEF tls13_record_layer_send_alert, Then
<1>2. PICK v : /\ v = [w EXCEPT !.ret = IF @ = "EOF" THEN "ALERT" ELSE @]
               /\ r \in IF v.ret = "SUCCESS" THEN AlertSent(v.c) ELSE {v}
  BY <1>1
<1>3. Wrote(w, "ALERT", base, limit)
  BY WriteRecordWrote
<1>4. /\ w \in Results /\ v \in Results /\ v.c = w.c
      /\ v.ret = IF w.ret = "EOF" THEN "ALERT" ELSE w.ret
      /\ w.ret \in {"SUCCESS", "EOF", "FAILURE", "WANT_POLLOUT"}
  BY <1>2, <1>3 DEF Wrote, Results, Codes
<1>5. CASE w.ret = "SUCCESS"
  <2>1. Weak(v.c, base, limit) /\ Synced(v.c) /\ r \in AlertSent(v.c)
    BY <1>2, <1>3, <1>4, <1>5 DEF Wrote
  <2>2. QED
    BY <2>1, AlertSentKept
<1>6. CASE w.ret # "SUCCESS"
  <2>1. r = v /\ Kept(w, base, limit)
    BY <1>2, <1>3, <1>4, <1>6 DEF Wrote
  <2>2. QED
    BY <1>4, <1>6, <2>1 DEF Kept
<1>7. QED
  BY <1>5, <1>6

\* A pending KeyUpdate goes out and the key changes, or it waits.
LEMMA SendPhhKept ==
  ASSUME Mode = "client",
         NEW c, NEW base \in Nat, NEW limit \in Nat, Good(c, base, limit),
         NEW r \in tls13_record_layer_send_phh(c)
  PROVE  Kept(r, base, limit)
<1>1. PICK w \in tls13_record_layer_write_record(c, "HANDSHAKE", 0, 5) :
        r \in IF w.ret = "SUCCESS"
              THEN Done(tls13_phh_update_local_traffic_secret([w.c EXCEPT !.phh_data = FALSE]), 0)
              ELSE {w}
  BY DEF tls13_record_layer_send_phh, Then
<1>2. Wrote(w, "HANDSHAKE", base, limit)
  BY WriteRecordWrote
<1>3. CASE w.ret # "SUCCESS"
  BY <1>1, <1>2, <1>3 DEF Wrote
<1>4. CASE w.ret = "SUCCESS"
  <2>0. PICK v : v = w.c
    OBVIOUS
  <2> DEFINE d == [v EXCEPT !.phh_data = FALSE]
             n == [d EXCEPT !.secrets["client"] = @ + 1]
             u == [n EXCEPT !.write = Fresh(d, "client")]
  <2>1. Weak(v, base, limit) /\ Announced(v) /\ v \in Connections
    BY <1>2, <1>4, <2>0 DEF Wrote, Weak
  <2>2. r = [c |-> u, ret |-> "SUCCESS", n |-> 0]
    BY <1>1, <1>4, <2>0 DEF Done, tls13_phh_update_local_traffic_secret, NextSecret
  <2>3. /\ d \in Connections /\ d.wrec = v.wrec /\ d.wrec_appdata_len = v.wrec_appdata_len
        /\ d.peer = v.peer /\ d.secrets = v.secrets /\ d.write_closed = v.write_closed
        /\ d.secrets \in [Roles -> Nat]
    BY <2>1 DEF Connections
  <2>4. /\ [d.secrets EXCEPT !["client"] = @ + 1] \in [Roles -> Nat]
        /\ [d.secrets EXCEPT !["client"] = @ + 1]["client"] = d.secrets["client"] + 1
        /\ d.secrets["client"] \in Nat
    <3> HIDE DEF d
    <3> QED BY <2>3 DEF Roles
  <2>5. /\ n \in Connections /\ n.wrec = d.wrec /\ n.wrec_appdata_len = d.wrec_appdata_len
        /\ n.peer = d.peer /\ n.write_closed = d.write_closed
        /\ n.secrets = [d.secrets EXCEPT !["client"] = @ + 1]
    <3> HIDE DEF d
    <3> QED BY <2>3, <2>4 DEF Connections
  <2>6. Fresh(d, "client") \in Protections
    <3> HIDE DEF d
    <3> QED BY <2>4, RecordLayerAssumption DEF Fresh, Protections, Keys, Roles
  <2>7. /\ u \in Connections /\ u.wrec = n.wrec /\ u.wrec_appdata_len = n.wrec_appdata_len
        /\ u.peer = n.peer /\ u.write_closed = n.write_closed
        /\ u.secrets = n.secrets /\ u.write = Fresh(d, "client")
    <3> HIDE DEF d, n
    <3> QED BY <2>5, <2>6 DEF Connections
  <2>8. Good(u, base, limit)
    <3> HIDE DEF d, n, u
    <3>1. Weak(u, base, limit)
      BY <2>1, <2>3, <2>5, <2>7 DEF Weak, Data, Flight
    <3>2. Synced(u)
      BY <2>1, <2>3, <2>4, <2>5, <2>7 DEF Synced, Announced, Fresh, NoRec, Records
    <3>3. QED
      BY <2>1, <2>3, <2>5, <2>7, <3>1, <3>2 DEF Good, Announced
  <2>9. QED
    <3> HIDE DEF u
    <3> QED BY <2>2, <2>7, <2>8 DEF Kept, Results, Codes
<1>5. QED
  BY <1>3, <1>4

LEMMA SendPendingKept ==
  ASSUME Mode = "client",
         NEW c, NEW base \in Nat, NEW limit \in Nat, Good(c, base, limit),
         NEW r \in tls13_record_layer_send_pending(c)
  PROVE  Kept(r, base, limit)
<1>1. CASE r \in tls13_record_layer_send_alert(c)
  BY <1>1, SendAlertKept
<1>2. CASE r \in tls13_record_layer_send_phh(c)
  BY <1>2, SendPhhKept
<1>3. CASE r \in Done(c, 0)
  BY <1>3 DEF Done, Kept, Results, Codes, Good, Weak
<1>4. QED
  BY <1>1, <1>2, <1>3 DEF tls13_record_layer_send_pending

LEMMA QueueAlertKept ==
  ASSUME Mode = "client",
         NEW c, NEW base \in Nat, NEW limit \in Nat, Good(c, base, limit),
         NEW desc \in {"CLOSE_NOTIFY", "FATAL"}, NEW r \in tls13_send_alert(c, desc)
  PROVE  Kept(r, base, limit)
<1> DEFINE d == [c EXCEPT !.alert_data = desc]
<1>1. c \in Connections /\ Weak(c, base, limit)
  BY DEF Good, Weak
<1>2. /\ d \in Connections /\ d.write_closed = c.write_closed
      /\ d.wrec = c.wrec /\ d.wrec_appdata_len = c.wrec_appdata_len
      /\ d.write = c.write /\ d.peer = c.peer /\ d.secrets = c.secrets
  BY <1>1 DEF Connections
<1>3. Good(d, base, limit)
  <2> HIDE DEF d
  <2> QED BY <1>2, Frame
<1>4. CASE r \in Broken(c, "alert")
  BY <1>1, <1>4, BrokenKept
<1>5. CASE r \in tls13_record_layer_send_pending(d)
  <2> HIDE DEF d
  <2> QED BY <1>3, <1>5, SendPendingKept
<1>6. QED
  BY <1>4, <1>5 DEF tls13_send_alert

LEMMA QueuePhhKept ==
  ASSUME Mode = "client",
         NEW c, NEW base \in Nat, NEW limit \in Nat, Good(c, base, limit),
         NEW r \in tls13_record_layer_phh(c)
  PROVE  Kept(r, base, limit)
<1> DEFINE d == [c EXCEPT !.phh_data = TRUE]
<1>1. c \in Connections /\ Weak(c, base, limit)
  BY DEF Good, Weak
<1>2. /\ d \in Connections /\ d.write_closed = c.write_closed
      /\ d.wrec = c.wrec /\ d.wrec_appdata_len = c.wrec_appdata_len
      /\ d.write = c.write /\ d.peer = c.peer /\ d.secrets = c.secrets
  BY <1>1 DEF Connections
<1>3. Good(d, base, limit)
  <2> HIDE DEF d
  <2> QED BY <1>2, Frame
<1>4. CASE r \in Broken(c, "phh")
  BY <1>1, <1>4, BrokenKept
<1>5. CASE r \in tls13_record_layer_send_pending(d)
  <2> HIDE DEF d
  <2> QED BY <1>3, <1>5, SendPendingKept
<1>6. QED
  BY <1>4, <1>5 DEF tls13_record_layer_phh

\* A client's new read key leaves the writing side alone.
LEMMA KeyUpdateKept ==
  ASSUME Mode = "client",
         NEW c, NEW base \in Nat, NEW limit \in Nat, Good(c, base, limit),
         NEW requested \in BOOLEAN, NEW r \in tls13_key_update_recv(c, requested)
  PROVE  Kept(r, base, limit)
<1> DEFINE n == [c EXCEPT !.secrets["server"] = @ + 1]
           d == [n EXCEPT !.read = Fresh(c, "server")]
<1>1. c \in Connections /\ c.secrets \in [Roles -> Nat]
  BY DEF Good, Weak, Connections
<1>2. /\ [c.secrets EXCEPT !["server"] = @ + 1] \in [Roles -> Nat]
      /\ [c.secrets EXCEPT !["server"] = @ + 1]["client"] = c.secrets["client"]
      /\ c.secrets["server"] \in Nat
  BY <1>1 DEF Roles
<1>3. /\ n \in Connections /\ n.write_closed = c.write_closed
      /\ n.wrec = c.wrec /\ n.wrec_appdata_len = c.wrec_appdata_len
      /\ n.write = c.write /\ n.peer = c.peer
      /\ n.secrets = [c.secrets EXCEPT !["server"] = @ + 1]
  BY <1>1, <1>2 DEF Connections
<1>4. Fresh(c, "server") \in Protections
  BY <1>2, RecordLayerAssumption DEF Fresh, Protections, Keys, Roles
<1>5. /\ d \in Connections /\ d.write_closed = n.write_closed
      /\ d.wrec = n.wrec /\ d.wrec_appdata_len = n.wrec_appdata_len
      /\ d.write = n.write /\ d.peer = n.peer /\ d.secrets = n.secrets
  <2> HIDE DEF n
  <2> QED BY <1>3, <1>4 DEF Connections
<1>6. Good(d, base, limit)
  <2> HIDE DEF n, d
  <2> QED BY <1>2, <1>3, <1>5, Frame
<1>7. r \in IF requested THEN tls13_record_layer_phh(d) ELSE Done(d, 0)
  BY DEF tls13_key_update_recv, tls13_phh_update_peer_traffic_secret, NextSecret
<1>8. QED
  <2> HIDE DEF n, d
  <2>1. CASE r \in tls13_record_layer_phh(d)
    BY <1>6, <2>1, QueuePhhKept
  <2>2. CASE r \in Done(d, 0)
    BY <1>5, <1>6, <2>2 DEF Done, Kept, Results, Codes
  <2>3. QED
    BY <1>7, <2>1, <2>2

\* A post-handshake message, counted and handled or refused.
LEMMA PhhReceivedKept ==
  ASSUME Mode = "client",
         NEW c, NEW base \in Nat, NEW limit \in Nat, Good(c, base, limit),
         NEW hour \in BOOLEAN, NEW r \in tls13_phh_received_cb(c, hour)
  PROVE  Kept(r, base, limit)
<1> DEFINE d == [c EXCEPT !.phh_count = IF hour THEN 1 ELSE @ + 1]
<1>1. c \in Connections /\ c.phh_count \in Nat
  BY DEF Good, Weak, Connections
<1>2. /\ d \in Connections /\ d.write_closed = c.write_closed
      /\ d.wrec = c.wrec /\ d.wrec_appdata_len = c.wrec_appdata_len
      /\ d.write = c.write /\ d.peer = c.peer /\ d.secrets = c.secrets
  <2>1. PICK k : k = (IF hour THEN 1 ELSE c.phh_count + 1)
    OBVIOUS
  <2>2. k \in Nat /\ d = [c EXCEPT !.phh_count = k]
    BY <1>1, <2>1
  <2>3. QED
    <3> HIDE DEF d
    <3> QED BY <1>1, <2>2 DEF Connections
<1>3. Good(d, base, limit)
  <2> HIDE DEF d
  <2> QED BY <1>2, Frame
<1>4. CASE r \in tls13_send_alert(c, "FATAL")
  BY <1>4, QueueAlertKept
<1>5. CASE r \in Done(d, 0)
  <2> HIDE DEF d
  <2> QED BY <1>2, <1>3, <1>5 DEF Done, Kept, Results, Codes
<1>6. CASE r \in tls13_key_update_recv(d, c.rbuf.type = "KEY_UPDATE_REQUESTED")
  <2> HIDE DEF d
  <2>1. PICK q \in BOOLEAN : q = (c.rbuf.type = "KEY_UPDATE_REQUESTED")
    OBVIOUS
  <2>2. r \in tls13_key_update_recv(d, q)
    BY <1>6, <2>1
  <2>3. QED
    BY <1>3, <2>2, KeyUpdateKept
<1>7. QED
  BY <1>4, <1>5, <1>6 DEF tls13_phh_received_cb

\* An empty read buffer leaves the writing side alone.
LEMMA FreeBuffer ==
  ASSUME NEW c, NEW base, NEW limit, NEW d, d = [c EXCEPT !.rbuf = NoRec]
  PROVE  /\ Weak(c, base, limit) => Weak(d, base, limit)
         /\ Good(c, base, limit) => Good(d, base, limit)
<1>1. ASSUME c \in Connections
      PROVE  /\ d \in Connections /\ d.write_closed = c.write_closed
             /\ d.wrec = c.wrec /\ d.wrec_appdata_len = c.wrec_appdata_len
             /\ d.write = c.write /\ d.peer = c.peer /\ d.secrets = c.secrets
  BY <1>1 DEF Connections
<1>2. QED
  <2>1. ASSUME c \in Connections
        PROVE  /\ Weak(c, base, limit) => Weak(d, base, limit)
               /\ Good(c, base, limit) => Good(d, base, limit)
    BY <1>1, <2>1, Frame
  <2>2. QED
    BY <2>1 DEF Good, Weak

LEMMA RecvPhhKept ==
  ASSUME Mode = "client",
         NEW c, NEW base \in Nat, NEW limit \in Nat, Good(c, base, limit),
         NEW hour \in BOOLEAN, NEW r \in tls13_record_layer_recv_phh(c, hour)
  PROVE  Kept(r, base, limit)
<1>1. PICK q \in tls13_phh_received_cb(c, hour) :
        \E v \in {[q EXCEPT !.c.rbuf = NoRec]} :
          r \in IF v.ret = "SUCCESS"
                THEN Result(v.c, IF AutoRetry THEN "WANT_RETRY" ELSE "WANT_POLLIN")
                ELSE {v}
  BY DEF tls13_record_layer_recv_phh, Then
<1>2. PICK v : /\ v = [q EXCEPT !.c.rbuf = NoRec]
               /\ r \in IF v.ret = "SUCCESS"
                        THEN Result(v.c, IF AutoRetry THEN "WANT_RETRY" ELSE "WANT_POLLIN")
                        ELSE {v}
  BY <1>1
<1>3. Kept(q, base, limit)
  BY PhhReceivedKept
<1>4. PICK d : d = [q.c EXCEPT !.rbuf = NoRec]
  OBVIOUS
<1>5. /\ Weak(q.c, base, limit) => Weak(d, base, limit)
      /\ Good(q.c, base, limit) => Good(d, base, limit)
  BY <1>4, FreeBuffer
<1>6. IF q.ret = "FAILURE" THEN Weak(d, base, limit) ELSE Good(d, base, limit)
  BY <1>3, <1>5 DEF Kept
<1>7. d \in Connections
  BY <1>6 DEF Good, Weak
<1>8. v = [q EXCEPT !.c = d] /\ q \in Results
  BY <1>2, <1>3, <1>4 DEF Kept
<1>9. v \in Results /\ v.c = d /\ v.ret = q.ret
  BY <1>7, <1>8 DEF Results
<1>10. CASE v.ret # "SUCCESS"
  BY <1>2, <1>6, <1>9, <1>10 DEF Kept
<1>11. CASE v.ret = "SUCCESS"
  BY <1>2, <1>6, <1>7, <1>9, <1>11 DEF Kept, Result, Results, Codes
<1>12. QED
  BY <1>10, <1>11

\* A change that leaves the writing side alone and keeps the types.
Aside(c, d) ==
  /\ d \in Connections
  /\ d.wrec = c.wrec /\ d.wrec_appdata_len = c.wrec_appdata_len
  /\ d.write = c.write /\ d.peer = c.peer /\ d.secrets = c.secrets
  /\ c.write_closed => d.write_closed

LEMMA AsideKept ==
  ASSUME NEW c, NEW base, NEW limit, Good(c, base, limit), NEW d, Aside(c, d),
         NEW ret \in Codes, NEW n \in Nat, NEW r, r = [c |-> d, ret |-> ret, n |-> n]
  PROVE  Kept(r, base, limit)
<1>1. Good(d, base, limit)
  BY Frame DEF Aside
<1>2. QED
  BY <1>1 DEF Kept, Results, Good, Weak

LEMMA ProcessAlertAside ==
  ASSUME NEW c \in Connections, NEW desc \in Alerts,
         NEW r \in tls13_record_layer_process_alert(c, desc)
  PROVE  \E d : \E ret \in Codes \ {"SUCCESS"} : Aside(c, d) /\ r = [c |-> d, ret |-> ret, n |-> 0]
<1> DEFINE x == [c EXCEPT !.read_closed = TRUE, !.close_notify_recv = TRUE]
           y == [c EXCEPT !.read_closed = TRUE, !.write_closed = TRUE]
<1>1. Aside(c, x) /\ Aside(c, y) /\ Aside(c, c)
  BY DEF Aside, Connections
<1>2. \/ r = [c |-> x, ret |-> "EOF", n |-> 0]
      \/ r = [c |-> c, ret |-> "WANT_RETRY", n |-> 0]
      \/ r = [c |-> y, ret |-> "ALERT", n |-> 0]
  BY DEF tls13_record_layer_process_alert, Result, Alerts
<1>3. QED
  <2> HIDE DEF x, y
  <2> QED BY <1>1, <1>2 DEF Codes

LEMMA ReadRecordKept ==
  ASSUME NEW c, NEW base, NEW limit, Good(c, base, limit),
         NEW r \in tls13_record_layer_read_record(c)
  PROVE  Kept(r, base, limit) /\ (r.ret = "SUCCESS" => r.c.rbuf \in Buffers)
<1>0. c \in Connections /\ Weak(c, base, limit)
  BY DEF Good, Weak
<1> DEFINE h == Head(c.in)
           k == [c EXCEPT !.rrec_kept = TRUE, !.in = Tail(@)]
           d == [c EXCEPT !.in = Tail(@), !.read.seq = Successor(@)]
           b == [type |-> h.type, from |-> h.from, len |-> h.len]
           e == [d EXCEPT !.rbuf = b]
<1>1. CASE c.rrec_kept
  <2>1. r \in Broken(c, "rrec")
    BY <1>1 DEF tls13_record_layer_read_record
  <2>2. QED
    BY <1>0, <2>1, BrokenKept
<1>2. CASE ~c.rrec_kept /\ c.in = <<>>
  <2>1. r \in {[c |-> c, ret |-> "EOF", n |-> 0], [c |-> c, ret |-> "WANT_POLLIN", n |-> 0]}
    BY <1>2 DEF tls13_record_layer_read_record, Result
  <2>2. QED
    BY <1>0, <2>1 DEF Kept, Results, Codes
<1>3. CASE ~c.rrec_kept /\ c.in # <<>>
  <2>1. /\ h \in [type : Content, key : Keys, seq : Nat, from : Nat, len : Nat]
        /\ Tail(c.in) \in Seq([type : Content, key : Keys, seq : Nat, from : Nat, len : Nat])
        /\ c.read \in Protections /\ c.read.seq \in 0 .. MaxSeq
    <3>1. c.in \in Seq([type : Content, key : Keys, seq : Nat, from : Nat, len : Nat])
      BY <1>0 DEF Connections
    <3>2. c.read \in Protections
      BY <1>0 DEF Connections
    <3>3. PICK S : S = [type : Content, key : Keys, seq : Nat, from : Nat, len : Nat]
      OBVIOUS
    <3>4. Head(c.in) \in S /\ Tail(c.in) \in Seq(S)
      <4>1. PICK q : q = c.in
        OBVIOUS
      <4>2. q \in Seq(S) /\ q # <<>>
        BY <1>3, <3>1, <3>3, <4>1
      <4>3. Head(q) \in S /\ Tail(q) \in Seq(S)
        BY <4>2
      <4>4. QED
        BY <4>1, <4>3
    <3>5. c.read.seq \in 0 .. MaxSeq
      BY <3>2 DEF Protections
    <3>6. QED
      BY <3>2, <3>3, <3>4, <3>5
  <2>2. CASE ~Opens(c, h)
    <3>1. r \in Broken(k, "open")
      BY <1>3, <2>2 DEF tls13_record_layer_read_record
    <3>2. Aside(c, k)
      <4>1. PICK t : t = Tail(c.in)
        OBVIOUS
      <4>2. k = [c EXCEPT !.rrec_kept = TRUE, !.in = t]
        BY <4>1
      <4>3. QED
        <5> HIDE DEF k
        <5> QED BY <1>0, <2>1, <4>1, <4>2 DEF Aside, Connections
    <3>3. Weak(k, base, limit)
      <4> HIDE DEF k
      <4> QED BY <1>0, <3>2, Frame DEF Aside
    <3>4. QED
      <4> HIDE DEF k
      <4> QED BY <3>1, <3>3, BrokenKept
  <2>3. CASE Opens(c, h)
    <3>1. [c.read EXCEPT !.seq = Successor(@)] \in Protections
      <4>1. MaxSeq \in Nat
        BY RecordLayerAssumption
      <4>2. Successor(c.read.seq) \in 0 .. MaxSeq
        BY <2>1, <4>1, SMTT(30) DEF Successor
      <4>3. QED
        BY <2>1, <4>2 DEF Protections
    <3>2. Aside(c, d)
      <4>1. PICK t, p : t = Tail(c.in) /\ p = [c.read EXCEPT !.seq = Successor(@)]
        OBVIOUS
      <4>2. d = [c EXCEPT !.in = t, !.read = p]
        BY <4>1
      <4>3. QED
        <5> HIDE DEF d
        <5> QED BY <1>0, <2>1, <3>1, <4>1, <4>2, ZenonT(60) DEF Aside, Connections
    <3>3. Good(d, base, limit)
      <4> HIDE DEF d
      <4> QED BY <3>2, Frame DEF Aside
    <3>4. CASE h.type \in Alerts
      <4> HIDE DEF d
      <4>1. r \in tls13_record_layer_process_alert(d, h.type)
        BY <1>3, <2>3, <3>4 DEF tls13_record_layer_read_record, d
      <4>2. PICK x : \E y \in Codes \ {"SUCCESS"} :
                       Aside(d, x) /\ r = [c |-> x, ret |-> y, n |-> 0]
        BY <3>2, <3>4, <4>1, ProcessAlertAside DEF Aside
      <4>3. PICK ret \in Codes \ {"SUCCESS"} :
              Aside(d, x) /\ r = [c |-> x, ret |-> ret, n |-> 0]
        BY <4>2
      <4>4. Kept(r, base, limit)
        BY <3>3, <4>3, AsideKept
      <4>5. QED
        BY <4>3, <4>4
    <3>5. CASE h.type \notin Alerts
      <4>1. r = [c |-> e, ret |-> "SUCCESS", n |-> 0]
        BY <1>3, <2>3, <3>5 DEF tls13_record_layer_read_record, Done
      <4>2. b \in Buffers
        BY <2>1, <3>5 DEF Buffers, Content, Alerts, PostHandshake
      <4>3. Aside(d, e)
        <5> HIDE DEF d, b
        <5> QED BY <3>2, <4>2 DEF Aside, Connections
      <4>4. e.rbuf = b
        <5> HIDE DEF d, b
        <5> QED BY <3>2 DEF Aside, Connections
      <4>5. QED
        <5> HIDE DEF b, d, e
        <5> QED BY <3>3, <4>1, <4>2, <4>3, <4>4, AsideKept DEF Codes
    <3>6. QED
      BY <3>4, <3>5
  <2>4. QED
    BY <2>2, <2>3
<1>4. QED
  BY <1>1, <1>2, <1>3

\* Handing out data leaves the writing side alone.
LEMMA DeliverKept ==
  ASSUME NEW c, NEW base, NEW limit, Good(c, base, limit), c.rbuf \in Buffers,
         NEW n \in Nat, NEW r \in Deliver(c, n)
  PROVE  Kept(r, base, limit)
<1> DEFINE b == c.rbuf
           k == IF n > b.len THEN b.len ELSE n
           f == IF k = b.len THEN NoRec ELSE [b EXCEPT !.from = @ + k, !.len = @ - k]
           d == [c EXCEPT !.got = @ + k, !.in_order = @ /\ b.from = c.got, !.rbuf = f]
<1>1. /\ c \in Connections /\ c.got \in Nat /\ c.in_order \in BOOLEAN
      /\ b.len \in Nat /\ b.from \in Nat
  BY DEF Good, Weak, Connections, Buffers
<1>2. k \in Nat /\ k <= b.len
  BY <1>1
<1>3. f \in Buffers \union {NoRec}
  <2>1. PICK x, y : x \in Buffers /\ x = b /\ y = k
    OBVIOUS
  <2>2. y \in Nat /\ x.from + y \in Nat /\ x.len - y \in Nat
    <3> HIDE DEF k
    <3> QED BY <1>1, <1>2, <2>1
  <2>3. [x EXCEPT !.from = x.from + y, !.len = x.len - y] \in Buffers
    BY <2>1, <2>2 DEF Buffers
  <2>4. QED
    <3> HIDE DEF k
    <3> QED BY <2>1, <2>3
<1>4. Aside(c, d)
  <2>1. PICK g, o : g = c.got + k /\ o = (c.in_order /\ b.from = c.got)
    OBVIOUS
  <2>2. g \in Nat /\ o \in BOOLEAN
    <3> HIDE DEF k
    <3>1. g \in Nat
      BY <1>1, <1>2, <2>1
    <3>2. o \in BOOLEAN
      BY <2>1, Zenon
    <3>3. QED
      BY <3>1, <3>2
  <2>3. d = [c EXCEPT !.got = g, !.in_order = o, !.rbuf = f]
    <3> HIDE DEF k, f
    <3> QED BY <2>1
  <2>4. QED
    <3> HIDE DEF k, f, d
    <3> QED BY <1>1, <1>3, <2>2, <2>3 DEF Aside, Connections
<1>5. r = [c |-> d, ret |-> "SUCCESS", n |-> k]
  BY DEF Deliver, Done
<1>6. QED
  <2> HIDE DEF k, f, d
  <2> QED BY <1>2, <1>4, <1>5, AsideKept DEF Codes

\* One turn of reading, on a connection whose writing side is in step.
LEMMA ReadInternalKept ==
  ASSUME Mode = "client",
         NEW c, NEW base \in Nat, NEW limit \in Nat, Good(c, base, limit),
         NEW n \in Nat, NEW hour \in BOOLEAN,
         NEW r \in tls13_record_layer_read_internal(c, n, hour)
  PROVE  Kept(r, base, limit)
<1> DEFINE Buffered(x) ==
             IF x.rbuf.type \in PostHandshake THEN tls13_record_layer_recv_phh(x, hour)
             ELSE IF x.rbuf.len = 0 THEN Result([x EXCEPT !.rbuf = NoRec], "WANT_POLLIN")
             ELSE Deliver(x, n)
<1>1. ASSUME NEW x, Good(x, base, limit), x.rbuf \in Buffers, r \in Buffered(x)
      PROVE  Kept(r, base, limit)
  <2>1. CASE r \in tls13_record_layer_recv_phh(x, hour)
    BY <1>1, <2>1, RecvPhhKept
  <2>2. CASE r \in Result([x EXCEPT !.rbuf = NoRec], "WANT_POLLIN")
    <3>1. PICK d : d = [x EXCEPT !.rbuf = NoRec]
      OBVIOUS
    <3>2. r = [c |-> d, ret |-> "WANT_POLLIN", n |-> 0]
      BY <2>2, <3>1 DEF Result
    <3>3. Good(d, base, limit)
      BY <1>1, <3>1, FreeBuffer
    <3>4. QED
      BY <3>2, <3>3 DEF Kept, Results, Codes, Good, Weak
  <2>3. CASE r \in Deliver(x, n)
    BY <1>1, <2>3, DeliverKept
  <2>4. QED
    BY <1>1, <2>1, <2>2, <2>3
<1>2a. PICK p \in tls13_record_layer_send_pending(c) :
         r \in IF p.ret = "SUCCESS"
               THEN IF p.c.read_closed THEN Result(p.c, "EOF")
                    ELSE IF p.c.rbuf # NoRec THEN Buffered(p.c)
                    ELSE UNION {IF q.ret = "SUCCESS" THEN Buffered(q.c) ELSE {q} :
                                  q \in tls13_record_layer_read_record(p.c)}
               ELSE {p}
  BY Zenon DEF tls13_record_layer_read_internal, Then
<1>2. IF p.ret # "SUCCESS" THEN r = p
        ELSE IF p.c.read_closed THEN r \in Result(p.c, "EOF")
        ELSE IF p.c.rbuf # NoRec THEN r \in Buffered(p.c)
        ELSE \E q \in tls13_record_layer_read_record(p.c) :
               IF q.ret = "SUCCESS" THEN r \in Buffered(q.c) ELSE r = q
  <2> HIDE DEF Buffered
  <2> QED BY <1>2a
<1>3. Kept(p, base, limit)
  BY SendPendingKept
<1>4. CASE p.ret # "SUCCESS"
  BY <1>2, <1>3, <1>4
<1>5. CASE p.ret = "SUCCESS"
  <2> HIDE DEF Buffered
  <2>1. Good(p.c, base, limit) /\ p.c \in Connections /\ p.c.rbuf \in Buffers \union {NoRec}
    <3>1. Good(p.c, base, limit) /\ p.c \in Connections
      BY <1>3, <1>5 DEF Kept, Good, Weak
    <3>2. QED
      BY <3>1 DEF Connections
  <2>2. CASE r \in Result(p.c, "EOF")
    BY <2>1, <2>2 DEF Result, Kept, Results, Codes
  <2>3. CASE p.c.rbuf # NoRec /\ r \in Buffered(p.c)
    BY <1>1, <2>1, <2>3
  <2>4. CASE \E q \in tls13_record_layer_read_record(p.c) :
               IF q.ret = "SUCCESS" THEN r \in Buffered(q.c) ELSE r = q
    <3>1. PICK q \in tls13_record_layer_read_record(p.c) :
            IF q.ret = "SUCCESS" THEN r \in Buffered(q.c) ELSE r = q
      BY <2>4
    <3>2. Kept(q, base, limit) /\ (q.ret = "SUCCESS" => q.c.rbuf \in Buffers)
      BY <2>1, ReadRecordKept
    <3>3. CASE q.ret # "SUCCESS"
      BY <3>1, <3>2, <3>3
    <3>4. CASE q.ret = "SUCCESS"
      BY <1>1, <3>1, <3>2, <3>4 DEF Kept
    <3>5. QED
      BY <3>3, <3>4
  <2>5. QED
    BY <1>2, <1>5, <2>2, <2>3, <2>4
<1>6. QED
  BY <1>4, <1>5

\* The first step of SSL_shutdown.
LEMMA SendCloseKept ==
  ASSUME Mode = "client",
         NEW c, NEW base \in Nat, NEW limit \in Nat, Good(c, base, limit),
         NEW r \in SendClose(c)
  PROVE  Kept(r, base, limit)
<1> DEFINE d == [c EXCEPT !.sent_shutdown = TRUE]
<1>1. PICK a : /\ a \in IF c.sent_shutdown THEN Done(c, 0) ELSE tls13_send_alert(d, "CLOSE_NOTIFY")
               /\ IF a.ret = "SUCCESS" THEN r \in tls13_record_layer_send_pending(a.c) ELSE r = a
  BY DEF SendClose, Then
<1>2. Aside(c, d)
  BY DEF Good, Weak, Aside, Connections
<1>3. Good(d, base, limit)
  <2> HIDE DEF d
  <2> QED BY <1>2, Frame DEF Aside
<1>4. Kept(a, base, limit)
  <2> HIDE DEF d
  <2>1. CASE a \in Done(c, 0)
    BY <2>1 DEF Done, Kept, Results, Codes, Good, Weak
  <2>2. CASE a \in tls13_send_alert(d, "CLOSE_NOTIFY")
    BY <1>3, <2>2, QueueAlertKept
  <2>3. QED
    BY <1>1, <2>1, <2>2
<1>5. CASE a.ret # "SUCCESS"
  <2> HIDE DEF d
  <2> QED BY <1>1, <1>4, <1>5
<1>6. CASE a.ret = "SUCCESS"
  <2> HIDE DEF d
  <2>1. Good(a.c, base, limit) /\ r \in tls13_record_layer_send_pending(a.c)
    BY <1>1, <1>4, <1>6 DEF Kept
  <2>2. QED
    BY <2>1, SendPendingKept
<1>7. QED
  BY <1>5, <1>6

\* One turn of writing: what it reports moves from the units still to be
\* reported to the reported ones.
LEMMA WriteKept ==
  ASSUME Mode = "client", pos \in Nat, req \in Nat, wnum \in Nat, wnum <= req,
         NEW c, Good(c, pos + wnum, req - wnum), NEW r \in tls13_record_layer_write(c)
  PROVE  /\ r.ret # "SUCCESS" => Kept(r, pos + wnum, req - wnum)
         /\ r.ret = "SUCCESS" =>
              /\ r.n \in Nat /\ r.n <= req - wnum
              /\ Good(r.c, (pos + wnum) + r.n, 0)
<1> DEFINE n == IF req - wnum > MaxPlaintext THEN MaxPlaintext ELSE req - wnum
<1>1. /\ n \in Nat /\ n <= req - wnum /\ pos + wnum \in Nat /\ req - wnum \in Nat
  BY RecordLayerAssumption
<1>2. PICK p \in tls13_record_layer_send_pending(c) :
        IF p.ret = "SUCCESS"
        THEN r \in tls13_record_layer_write_record(p.c, "APP", pos + wnum, n)
        ELSE r = p
  BY DEF tls13_record_layer_write, Then
<1> HIDE DEF n
<1>3. Kept(p, pos + wnum, req - wnum)
  BY <1>1, SendPendingKept
<1>4. CASE p.ret # "SUCCESS"
  BY <1>2, <1>3, <1>4
<1>5. CASE p.ret = "SUCCESS"
  <2>1. Good(p.c, pos + wnum, req - wnum)
    BY <1>3, <1>5 DEF Kept
  <2>2. Wrote(r, "APP", pos + wnum, req - wnum)
    BY <1>1, <1>2, <1>5, <2>1, WriteRecordWrote
  <2>3. QED
    BY <2>2 DEF Wrote, Results
<1>6. QED
  BY <1>4, <1>5
-----------------------------------------------------------------------------
(***************************************************************************)
(* The inductive invariant and the theorem.                                *)
(***************************************************************************)
Inv ==
  /\ pos \in Nat /\ req \in Nat /\ wnum \in Nat /\ wnum <= req
  /\ failed \in BOOLEAN
  /\ failed => call = "none"
  /\ out.gen \in Nat /\ out.seq \in Nat /\ out.data \in Nat
  /\ IF failed THEN Weak(conn, pos + wnum, req - wnum)
     ELSE Good(conn, pos + wnum, req - wnum)

LEMMA InitInv == ASSUME Mode = "client", Init PROVE Inv
<1> DEFINE own == [owner |-> Mode, gen |-> 0]
           theirs == [owner |-> PeerRole, gen |-> 0]
           fresh == [r \in Roles |-> 0]
<1>1. conn \in Connections
  <2>1. own \in Keys /\ theirs \in Keys /\ 0 \in 0 .. MaxSeq
    BY RecordLayerAssumption DEF Keys, Roles, PeerRole
  <2>2. [key |-> own, seq |-> 0] \in Protections /\ [key |-> theirs, seq |-> 0] \in Protections
    <3> HIDE DEF own, theirs
    <3> QED BY <2>1 DEF Protections
  <2>3. fresh \in [Roles -> Nat]
    OBVIOUS
  <2>4. PICK w, v, f : /\ w = [key |-> own, seq |-> 0] /\ v = [key |-> theirs, seq |-> 0]
                       /\ f = fresh
    OBVIOUS
  <2>5. w \in Protections /\ v \in Protections /\ f \in [Roles -> Nat]
    <3> HIDE DEF own, theirs, fresh
    <3> QED BY <2>2, <2>3, <2>4
  <2>6. PICK q, p : /\ q = <<>> /\ q \in Seq([type : Content, key : Keys, seq : Nat, from : Nat, len : Nat])
                    /\ p = [gen |-> 0, seq |-> 0, data |-> 0, closed |-> FALSE, ok |-> TRUE]
                    /\ p \in PeerStates
    <3>1. <<>> \in Seq([type : Content, key : Keys, seq : Nat, from : Nat, len : Nat])
      <4>1. PICK S : S = [type : Content, key : Keys, seq : Nat, from : Nat, len : Nat]
        OBVIOUS
      <4>2. <<>> \in Seq(S)
        OBVIOUS
      <4>3. QED
        BY <4>1, <4>2, Zenon
    <3>2. [gen |-> 0, seq |-> 0, data |-> 0, closed |-> FALSE, ok |-> TRUE] \in PeerStates
      BY DEF PeerStates
    <3>3. QED
      BY <3>1, <3>2, Zenon
  <2>7. conn = [wrec |-> NoRec, wrec_appdata_len |-> 0, alert_data |-> "NONE",
                phh_data |-> FALSE, write |-> w, read |-> v, secrets |-> f, rbuf |-> NoRec,
                rrec_kept |-> FALSE, read_closed |-> FALSE, write_closed |-> FALSE,
                close_notify_sent |-> FALSE, close_notify_recv |-> FALSE,
                sent_shutdown |-> FALSE, phh_count |-> 0, in |-> q, fin |-> FALSE,
                peer |-> p, got |-> 0, in_order |-> TRUE, why |-> "none"]
    BY <2>4, <2>6, Zenon DEF Init
  <2>8. QED
    BY <2>5, <2>6, <2>7 DEF Connections, PeerStates
<1>2. /\ Data(conn, 0, 0) /\ Synced(conn) /\ conn.peer.ok /\ ~conn.peer.closed
  <2>1. /\ conn.wrec = NoRec /\ conn.wrec_appdata_len = 0 /\ conn.secrets = fresh
        /\ conn.write = [key |-> own, seq |-> 0]
        /\ conn.peer = [gen |-> 0, seq |-> 0, data |-> 0, closed |-> FALSE, ok |-> TRUE]
    BY DEF Init
  <2>2. /\ conn.write.key = own /\ conn.write.seq = 0 /\ conn.secrets[Mode] = 0
        /\ conn.peer.gen = 0 /\ conn.peer.seq = 0 /\ conn.peer.data = 0
        /\ conn.peer.ok /\ ~conn.peer.closed
    BY <2>1, RecordLayerAssumption
  <2>3. conn.wrec \notin Records /\ conn.wrec.type = "NONE"
    BY <2>1 DEF NoRec, Records
  <2>4. Data(conn, 0, 0)
    BY <2>1, <2>2, <2>3 DEF Data, Flight
  <2>5. Synced(conn)
    BY <2>2, <2>3, Zenon DEF Synced
  <2>6. QED
    BY <2>2, <2>4, <2>5
<1>3. Good(conn, 0, 0)
  BY <1>1, <1>2, Zenon DEF Good, Weak
<1>4. /\ pos = 0 /\ req = 0 /\ wnum = 0 /\ failed = FALSE /\ call = "none"
      /\ out.gen = 0 /\ out.seq = 0 /\ out.data = 0
  BY DEF Init
<1>5. /\ pos \in Nat /\ req \in Nat /\ wnum \in Nat /\ wnum <= req
      /\ out.gen \in Nat /\ out.seq \in Nat /\ out.data \in Nat
      /\ pos + wnum = 0 /\ req - wnum = 0
  BY <1>4
<1>6. failed \in BOOLEAN /\ ~failed
  BY <1>4, Zenon
<1>7. QED
  BY <1>3, <1>5, <1>6, Zenon DEF Inv

\* A call returns with a result that kept the invariant.
LEMMA ReturnInv ==
  ASSUME Inv, NEW r, Kept(r, pos + wnum, req - wnum), conn' = r.c,
         NEW name, NEW value, Return(name, value),
         r.ret = "FAILURE" => value = "error",
         UNCHANGED <<out, pos, req, wnum>>
  PROVE  Inv'
<1>1. failed' \in BOOLEAN /\ call' = "none" /\ (r.ret = "FAILURE" => failed')
  BY DEF Return
<1>2. Good(r.c, pos + wnum, req - wnum) => Weak(r.c, pos + wnum, req - wnum)
  BY DEF Good
<1>3. IF failed' THEN Weak(conn', pos' + wnum', req' - wnum')
      ELSE Good(conn', pos' + wnum', req' - wnum')
  BY <1>1, <1>2 DEF Kept
<1>4. QED
  BY <1>1, <1>3 DEF Inv

\* More may wait to be reported.
LEMMA LargerLimit ==
  ASSUME NEW c, NEW base \in Nat, NEW limit \in Nat, NEW more \in Nat, limit <= more,
         Good(c, base, limit)
  PROVE  Good(c, base, more)
<1>1. c.wrec_appdata_len \in Nat /\ Flight(c) \in Nat
  BY DEF Good, Weak, Connections, Flight, Records, NoRec, Unsealed
<1>2. PICK f : f = Flight(c)
  OBVIOUS
<1>3. Data(c, base, more)
  BY <1>1, <1>2 DEF Good, Weak, Data
<1>4. QED
  BY <1>3 DEF Good, Weak

\* What changes neither data nor keys, in any state of the call.
LEMMA FrameInv ==
  ASSUME Inv, conn' \in Connections,
         conn'.wrec = conn.wrec, conn'.wrec_appdata_len = conn.wrec_appdata_len,
         conn'.write = conn.write, conn'.peer = conn.peer,
         conn'.secrets[Mode] = conn.secrets[Mode],
         conn.write_closed => conn'.write_closed,
         out'.gen \in Nat, out'.seq \in Nat, out'.data \in Nat,
         failed' = failed, failed => call' = "none", UNCHANGED <<pos, req, wnum>>
  PROVE  Inv'
<1>1. PICK d : d = conn'
  OBVIOUS
<1>2. /\ Good(conn, pos + wnum, req - wnum) => Good(d, pos + wnum, req - wnum)
      /\ Weak(conn, pos + wnum, req - wnum) => Weak(d, pos + wnum, req - wnum)
  BY <1>1, Frame
<1>3. QED
  BY <1>1, <1>2 DEF Inv

LEMMA ConnTyped == ASSUME Inv PROVE conn \in Connections
BY DEF Inv, Good, Weak

LEMMA WriteInv ==
  ASSUME Inv, NEW len \in 1 .. MaxRequest, SSL_write(len)
  PROVE  Inv'
<1>1. /\ ~failed /\ ~failed' /\ failed' \in BOOLEAN /\ conn' = conn /\ out' = out
      /\ pos' = pos /\ wnum' = wnum /\ req' = len
      /\ req # 0 => len = req
  BY DEF SSL_write, Idle, Inv
<1>2. /\ pos \in Nat /\ req \in Nat /\ wnum \in Nat /\ wnum <= req /\ len \in Nat
      /\ Good(conn, pos + wnum, req - wnum)
  BY <1>1, RecordLayerAssumption DEF Inv
<1>3. wnum <= len /\ req - wnum <= len - wnum
  BY <1>1, <1>2
<1>4. Good(conn, pos + wnum, len - wnum)
  BY <1>2, <1>3, LargerLimit
<1>5. QED
  BY <1>1, <1>2, <1>3, <1>4 DEF Inv

LEMMA WriteBytesInv ==
  ASSUME Mode = "client", Inv, NEW w \in tls13_record_layer_write(conn), WriteBytes(w)
  PROVE  Inv'
<1>1. /\ pos \in Nat /\ req \in Nat /\ wnum \in Nat /\ wnum <= req /\ ~failed
      /\ Good(conn, pos + wnum, req - wnum) /\ conn' = w.c /\ out' = out
      /\ out.gen \in Nat /\ out.seq \in Nat /\ out.data \in Nat
  BY DEF Inv, WriteBytes
<1>2. CASE w.ret # "SUCCESS"
  <2>1. Kept(w, pos + wnum, req - wnum)
    BY <1>1, <1>2, WriteKept
  <2>2. Return("write", Told(w.ret)) /\ UNCHANGED <<pos, req, wnum>>
    BY <1>2 DEF WriteBytes
  <2>3. w.ret = "FAILURE" => Told(w.ret) = "error"
    BY DEF Told
  <2>4. QED
    BY <1>1, <2>1, <2>2, <2>3, ReturnInv
<1>3. CASE w.ret = "SUCCESS"
  <2>1. PICK n : n = w.n
    OBVIOUS
  <2>2. /\ n \in Nat /\ n <= req - wnum
        /\ Good(conn', (pos + wnum) + n, 0)
    BY <1>1, <1>3, <2>1, WriteKept
  <2>3. CASE PartialWrite \/ wnum + n = req
    <3>1. /\ pos' = pos + wnum + n /\ req' = 0 /\ wnum' = 0
          /\ call' = "none" /\ failed' = FALSE
      BY <1>3, <2>1, <2>3 DEF WriteBytes, Return
    <3>2. QED
      <4>1. /\ pos' \in Nat /\ req' \in Nat /\ wnum' \in Nat /\ wnum' <= req'
            /\ pos' + wnum' = pos' /\ req' - wnum' = 0
        BY <1>1, <2>2, <3>1
      <4>2. Good(conn', pos' + wnum', req' - wnum')
        BY <2>2, <3>1, <4>1
      <4>3. /\ failed' \in BOOLEAN /\ ~failed'
            /\ out'.gen \in Nat /\ out'.seq \in Nat /\ out'.data \in Nat
        BY <1>1, <3>1, Zenon
      <4>4. QED
        BY <4>1, <4>2, <4>3, Zenon DEF Inv
  <2>4. CASE ~(PartialWrite \/ wnum + n = req)
    <3>1. /\ pos' = pos /\ req' = req /\ wnum' = wnum + n
          /\ call' = call /\ failed' = failed
      BY <1>3, <2>1, <2>4 DEF WriteBytes, Continue
    <3>2. /\ wnum + n \in Nat /\ wnum + n <= req /\ req - (wnum + n) \in Nat
          /\ (pos + wnum) + n = pos + (wnum + n) /\ (pos + wnum) + n \in Nat
      BY <1>1, <2>2
    <3>3. Good(conn', pos' + wnum', req' - wnum')
      <4>1. Good(conn', (pos + wnum) + n, req - (wnum + n))
        BY <2>2, <3>2, LargerLimit
      <4>2. QED
        BY <3>1, <3>2, <4>1
    <3>4. QED
      BY <1>1, <3>1, <3>2, <3>3 DEF Inv
  <2>5. QED
    BY <2>3, <2>4
<1>4. QED
  BY <1>2, <1>3

LEMMA ReadBytesInv ==
  ASSUME Mode = "client", Inv, NEW n \in 1 .. MaxPlaintext, NEW hour \in BOOLEAN,
         NEW r \in tls13_record_layer_read_internal(conn, n, hour), ReadBytes(r)
  PROVE  Inv'
<1>1. /\ pos + wnum \in Nat /\ req - wnum \in Nat /\ n \in Nat /\ ~failed
      /\ Good(conn, pos + wnum, req - wnum)
  BY RecordLayerAssumption DEF Inv, ReadBytes
<1>2. Kept(r, pos + wnum, req - wnum)
  BY <1>1, ReadInternalKept
<1>3. conn' = r.c /\ UNCHANGED <<out, pos, req, wnum>>
  BY DEF ReadBytes
<1>4. CASE r.ret = "WANT_RETRY"
  BY <1>1, <1>2, <1>3, <1>4 DEF ReadBytes, Continue, Kept, Inv
<1>5. CASE r.ret # "WANT_RETRY"
  <2>1. PICK name, value : /\ Return(name, value)
                           /\ r.ret = "FAILURE" => value = "error"
    BY <1>5 DEF ReadBytes, Told
  <2>2. QED
    BY <1>2, <1>3, <2>1, ReturnInv
<1>6. QED
  BY <1>4, <1>5

LEMMA ShutdownSendInv ==
  ASSUME Mode = "client", Inv, NEW s \in SendClose(conn), ShutdownSend(s)
  PROVE  Inv'
<1>1. /\ pos + wnum \in Nat /\ req - wnum \in Nat
      /\ Good(conn, pos + wnum, req - wnum)
  BY DEF Inv, ShutdownSend, Idle
<1>2. Kept(s, pos + wnum, req - wnum)
  BY <1>1, SendCloseKept
<1>3. conn' = s.c /\ UNCHANGED <<out, pos, req, wnum>>
  BY DEF ShutdownSend
<1>4. PICK value : Return("shutdown", value) /\ (s.ret = "FAILURE" => value = "error")
  BY DEF ShutdownSend, Told
<1>5. QED
  BY <1>2, <1>3, <1>4, ReturnInv

LEMMA ShutdownReadInv ==
  ASSUME Inv, ShutdownRead
  PROVE  Inv'
<1>1. UNCHANGED <<conn, out, pos, req, wnum>> /\ ~failed /\ failed' = FALSE
  <2>1. ShutdownResult(conn) # "error"
    BY DEF ShutdownResult
  <2>2. QED
    BY <2>1 DEF ShutdownRead, Idle, Return, Inv
<1>2. QED
  BY <1>1 DEF Inv

LEMMA PeerSendInv ==
  ASSUME Inv, NEW type \in PeerTypes, NEW len \in 0 .. MaxPlaintext, PeerSend(type, len)
  PROVE  Inv'
<1> DEFINE R == [type : Content, key : Keys, seq : Nat, from : Nat, len : Nat]
           x == [type |-> type, key |-> [owner |-> PeerRole, gen |-> out.gen],
                 seq |-> out.seq, from |-> out.data, len |-> len]
<1>1. conn \in Connections /\ conn.in \in Seq(R) /\ len \in Nat
  BY ConnTyped, RecordLayerAssumption DEF Connections
<1>2. x \in R
  BY <1>1, RecordLayerAssumption DEF Inv, Keys, Roles, PeerRole
<1>3. PICK q : q = Append(conn.in, x) /\ q \in Seq(R)
  <2>1. PICK S, y, i : S = R /\ y = x /\ i = conn.in
    OBVIOUS
  <2>2. i \in Seq(S) /\ y \in S
    <3> HIDE DEF x, R
    <3> QED BY <1>1, <1>2, <2>1
  <2>3. Append(i, y) \in Seq(S)
    BY <2>2
  <2>4. QED
    BY <2>1, <2>3, Zenon
<1>4. conn' = [conn EXCEPT !.in = q]
  BY <1>3 DEF PeerSend
<1>5. /\ conn' \in Connections /\ conn'.wrec = conn.wrec
      /\ conn'.wrec_appdata_len = conn.wrec_appdata_len
      /\ conn'.write = conn.write /\ conn'.peer = conn.peer
      /\ conn'.secrets = conn.secrets /\ conn'.write_closed = conn.write_closed
  <2>1. PICK d : d = conn'
    OBVIOUS
  <2>2. d \in Connections
    BY <1>1, <1>3, <1>4, <2>1 DEF Connections
  <2>3. /\ d.wrec = conn.wrec /\ d.wrec_appdata_len = conn.wrec_appdata_len
        /\ d.write = conn.write /\ d.peer = conn.peer
        /\ d.secrets = conn.secrets /\ d.write_closed = conn.write_closed
    BY <1>1, <1>4, <2>1 DEF Connections
  <2>4. QED
    BY <2>1, <2>2, <2>3, Zenon
<1>6. out'.gen \in Nat /\ out'.seq \in Nat /\ out'.data \in Nat
  <2>1. out.gen \in Nat /\ out.seq \in Nat /\ out.data \in Nat
    BY DEF Inv
  <2>2. PICK g, m, k, b : /\ out' = [gen |-> g, seq |-> m, data |-> k, closed |-> b,
                                    count |-> out.count + 1]
                          /\ g \in {out.gen, out.gen + 1} /\ m \in {0, out.seq + 1}
                          /\ k \in {out.data, out.data + len}
    BY Zenon DEF PeerSend
  <2>3. g \in Nat /\ m \in Nat /\ k \in Nat
    BY <1>1, <2>1, <2>2
  <2>4. out'.gen = g /\ out'.seq = m /\ out'.data = k
    BY <2>2
  <2>5. QED
    BY <2>3, <2>4
<1>7. failed' = failed /\ (failed => call' = "none") /\ UNCHANGED <<pos, req, wnum>>
  BY DEF Inv, PeerSend
<1>8. QED
  BY <1>5, <1>6, <1>7, FrameInv

LEMMA PeerDisconnectInv ==
  ASSUME Inv, PeerDisconnect
  PROVE  Inv'
<1>1. conn \in Connections
  BY ConnTyped
<1>2. /\ conn' \in Connections /\ conn'.wrec = conn.wrec
      /\ conn'.wrec_appdata_len = conn.wrec_appdata_len
      /\ conn'.write = conn.write /\ conn'.peer = conn.peer
      /\ conn'.secrets = conn.secrets /\ conn'.write_closed = conn.write_closed
  BY <1>1 DEF PeerDisconnect, Connections
<1>3. UNCHANGED <<out, pos, req, wnum, call, failed>>
  BY DEF PeerDisconnect
<1>4. QED
  BY <1>2, <1>3, FrameInv DEF Inv

LEMMA NextInv == ASSUME Mode = "client", Inv, [Next]_vars PROVE Inv'
<1>1. CASE UNCHANGED vars
  BY <1>1 DEF Inv, vars
<1>2. CASE SSL_read
  BY <1>2 DEF SSL_read, Idle, Inv
<1>3. QED
  BY <1>1, <1>2, WriteInv, WriteBytesInv, ReadBytesInv, ShutdownSendInv,
     ShutdownReadInv, PeerSendInv, PeerDisconnectInv, Zenon DEF Next

LEMMA ClientInv == ASSUME Mode = "client" PROVE Spec => []Inv
<1>1. Init => Inv
  BY InitInv
<1>2. Inv /\ [Next]_vars => Inv'
  BY NextInv
<1>3. QED
  BY <1>1, <1>2, PTL DEF Spec

\* Every record a client writes is one the peer expects: it is sealed under the
\* key and the number the peer will use next, nothing follows a close_notify,
\* and data comes in order and once.  It holds for every size of a record and of
\* a request, wherever the socket blocks and whatever the peer asks for.
THEOREM ClientRecordsAccepted ==
  ASSUME Mode = "client" PROVE Spec => []PeerAccepts
<1>1. Inv => PeerAccepts
  BY DEF Inv, Good, Weak, PeerAccepts
<1>2. QED
  BY <1>1, ClientInv, PTL

\* What a client's socket has taken of the data is what SSL_write has reported
\* or will report, also when a read or an alert pushed a waiting record out.
THEOREM ClientDataAccounted ==
  ASSUME Mode = "client" PROVE Spec => []DataAccounted
<1>1. Inv => DataAccounted
  <2> SUFFICES ASSUME Inv PROVE DataAccounted
    OBVIOUS
  <2>1. /\ pos \in Nat /\ req \in Nat /\ wnum \in Nat /\ conn \in Connections
        /\ Data(conn, pos + wnum, req - wnum)
    BY DEF Inv, Good, Weak
  <2>2. conn.wrec_appdata_len \in Nat /\ InFlight \in Nat /\ InFlight = Flight(conn)
    BY <2>1 DEF Connections, InFlight, Flight, Records, NoRec, Unsealed
  <2>3. conn.wrec_appdata_len > 0 => InFlight = 0
    BY <2>1 DEF Data, InFlight
  <2>4. PICK f, a : f = InFlight /\ a = conn.wrec_appdata_len
    OBVIOUS
  <2>5. a + f <= req - wnum /\ a \in Nat /\ f \in Nat
    BY <2>1, <2>2, <2>4 DEF Data
  <2>6. wnum + a + f <= req
    BY <2>1, <2>5
  <2>7. QED
    BY <2>1, <2>3, <2>4, <2>6 DEF DataAccounted, Data
<1>2. QED
  BY <1>1, ClientInv, PTL
=============================================================================
