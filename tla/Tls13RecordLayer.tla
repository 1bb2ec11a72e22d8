-------------------------- MODULE Tls13RecordLayer --------------------------
(***************************************************************************)
(* A TLS 1.3 connection after its handshake (ssl/tls13_record_layer.c, the *)
(* post-handshake part of tls13_lib.c and SSL_read, SSL_write and          *)
(* SSL_shutdown of tls13_legacy.c) on a non-blocking socket.  The peer     *)
(* sends data, post-handshake messages and alerts; the socket may stop     *)
(* taking output between any two records, so a sealed record waits in wrec *)
(* and whatever is called next has to push it out first.                   *)
(*                                                                         *)
(* The functions of the record layer are operators from a connection to    *)
(* the set of their possible results [c, ret, n]: the connection they      *)
(* leave, the TLS13_IO code they return and, for "SUCCESS", the length.    *)
(* Data is counted in units.                                               *)
(***************************************************************************)
EXTENDS Integers, Sequences, FiniteSets

CONSTANTS
  Mode,          \* "client" or "server": ctx->mode
  MaxSeq,        \* the last sequence number: 2^64 - 1
  MaxPlaintext,  \* units in a record: TLS13_RECORD_MAX_PLAINTEXT_LEN
  PhhLimit,      \* TLS13_PHH_LIMIT
  AutoRetry,     \* SSL_MODE_AUTO_RETRY
  PartialWrite,  \* SSL_MODE_ENABLE_PARTIAL_WRITE
  PeerTypes,     \* the kinds of record the peer sends
  MaxData,       \* bound: units the application writes
  MaxRequest,    \* bound: units in one SSL_write
  MaxPeer        \* bound: records the peer sends

Roles == {"client", "server"}
PeerRole == IF Mode = "client" THEN "server" ELSE "client"
Content == {"APP", "TICKET", "KEY_UPDATE", "KEY_UPDATE_REQUESTED",
            "CLOSE_NOTIFY", "USER_CANCELED", "FATAL"}
Alerts == {"CLOSE_NOTIFY", "USER_CANCELED", "FATAL"}
PostHandshake == {"TICKET", "KEY_UPDATE", "KEY_UPDATE_REQUESTED"}

ASSUME RecordLayerAssumption ==
  /\ Mode \in Roles
  /\ {MaxSeq, MaxPlaintext, MaxRequest} \subseteq Nat \ {0}
  /\ {PhhLimit, MaxData, MaxPeer} \subseteq Nat
  /\ {AutoRetry, PartialWrite} \subseteq BOOLEAN
  /\ PeerTypes \subseteq Content

VARIABLES
  conn,      \* record layer, context, socket and the peer's reading side
  out,       \* peer's writing side: generation, next number, data, closed, fin
  pos, req,  \* application: units accepted so far, length of the open SSL_write
  wnum,      \* S3I(ssl)->wnum: units of the open SSL_write done before
  call,      \* the API call in progress
  last,      \* the call that returned last and its result
  failed     \* a call failed for good: the application gives up

vars == <<conn, out, pos, req, wnum, call, last, failed>>

Keys == [owner : Roles, gen : Nat]   \* a traffic secret and its updates
NoRec == [type |-> "NONE"]           \* wrec == NULL, or an empty rbuf
Unsealed == [type |-> "UNSEALED"]    \* wrec without data: sealing failed
Protections == [key : Keys, seq : 0 .. MaxSeq]
Records ==
  [type : {"APP", "ALERT", "HANDSHAKE"}, key : Keys, seq : Nat, from : Nat, len : Nat]
Buffers == [type : {"APP"} \union PostHandshake, from : Nat, len : Nat]

\* struct tls13_record_layer and the fields of tls13_ctx and of the SSL that go
\* with it; the socket's input in and its end fin; what the peer has read; and
\* for the properties the data delivered and the reason of a failure.
Connections ==
  [wrec : Records \union {NoRec, Unsealed}, wrec_appdata_len : Nat,
   alert_data : {"NONE", "CLOSE_NOTIFY", "FATAL"}, phh_data : BOOLEAN,
   write : Protections, read : Protections, secrets : [Roles -> Nat],
   rbuf : Buffers \union {NoRec}, rrec_kept : BOOLEAN,
   read_closed : BOOLEAN, write_closed : BOOLEAN,
   close_notify_sent : BOOLEAN, close_notify_recv : BOOLEAN,
   sent_shutdown : BOOLEAN, phh_count : Nat,
   in : Seq([type : Content, key : Keys, seq : Nat, from : Nat, len : Nat]),
   fin : BOOLEAN,
   peer : [gen : Nat, seq : Nat, data : Nat, closed : BOOLEAN, ok : BOOLEAN],
   got : Nat, in_order : BOOLEAN,
   why : {"none", "socket", "unsealed", "seq", "partial", "alert", "phh", "rrec", "open"}]

Init ==
  /\ conn = [wrec |-> NoRec, wrec_appdata_len |-> 0,
             alert_data |-> "NONE", phh_data |-> FALSE,
             write |-> [key |-> [owner |-> Mode, gen |-> 0], seq |-> 0],
             read |-> [key |-> [owner |-> PeerRole, gen |-> 0], seq |-> 0],
             secrets |-> [r \in Roles |-> 0],
             rbuf |-> NoRec, rrec_kept |-> FALSE,
             read_closed |-> FALSE, write_closed |-> FALSE,
             close_notify_sent |-> FALSE, close_notify_recv |-> FALSE,
             sent_shutdown |-> FALSE, phh_count |-> 0,
             in |-> <<>>, fin |-> FALSE,
             peer |-> [gen |-> 0, seq |-> 0, data |-> 0, closed |-> FALSE, ok |-> TRUE],
             got |-> 0, in_order |-> TRUE, why |-> "none"]
  /\ out = [gen |-> 0, seq |-> 0, data |-> 0, closed |-> FALSE, count |-> 0]
  /\ pos = 0 /\ req = 0 /\ wnum = 0
  /\ call = "none" /\ last = <<"none", "none">> /\ failed = FALSE

Result(c, ret) == {[c |-> c, ret |-> ret, n |-> 0]}
Done(c, n) == {[c |-> c, ret |-> "SUCCESS", n |-> n]}
Broken(c, why) == Result([c EXCEPT !.why = why], "FAILURE")

\* results, each successful one continued by Op, any other returned
Then(results, Op(_)) ==
  UNION {IF r.ret = "SUCCESS" THEN Op(r) ELSE {r} : r \in results}
-----------------------------------------------------------------------------
(***************************************************************************)
(* The peer's reading side, external: a conforming endpoint opens records  *)
(* under the key and number it expects, takes data in order, moves to the  *)
(* next key after a KeyUpdate and takes nothing after a closing alert.     *)
(***************************************************************************)
Receive(p, r) ==
  [gen |-> IF r.type = "HANDSHAKE" THEN p.gen + 1 ELSE p.gen,
   seq |-> IF r.type = "HANDSHAKE" THEN 0 ELSE p.seq + 1,
   data |-> IF r.type = "APP" THEN p.data + r.len ELSE p.data,
   closed |-> p.closed \/ r.type = "ALERT",
   ok |-> /\ p.ok /\ ~p.closed
          /\ r.key = [owner |-> Mode, gen |-> p.gen] /\ r.seq = p.seq
          /\ r.type = "APP" => r.from = p.data]

(* tls13_record_send: all of the record goes to the socket, or the socket    *)
(* takes no more for now and the rest waits, or the transport has failed.    *)
tls13_record_send(c) ==
  IF c.wrec = Unsealed THEN Broken(c, "unsealed")
  ELSE Done([c EXCEPT !.wrec = NoRec, !.peer = Receive(@, c.wrec)], 0)
       \union Result(c, "WANT_POLLOUT") \union Broken(c, "socket")

\* tls13_update_client_traffic_secret, tls13_update_server_traffic_secret
NextSecret(c, role) == [c EXCEPT !.secrets[role] = @ + 1]
Fresh(c, role) == [key |-> [owner |-> role, gen |-> c.secrets[role] + 1], seq |-> 0]

Mut_update_local(c) == NextSecret(c, Mode)   \* mutant: the write key stays

tls13_phh_update_local_traffic_secret(c) ==
  IF Mode = "client"
  THEN [NextSecret(c, "client") EXCEPT !.write = Fresh(c, "client")]
  ELSE [NextSecret(c, "server") EXCEPT !.read = Fresh(c, "server")]

Mut_update_peer(c) ==   \* mutant: the read number goes on
  [NextSecret(c, PeerRole) EXCEPT !.read.key = Fresh(c, PeerRole).key]

Mut_peer_direction(c) ==   \* mutant: the secret goes to the other direction
  [NextSecret(c, PeerRole) EXCEPT !.write = Fresh(c, PeerRole)]

tls13_phh_update_peer_traffic_secret(c) ==
  IF Mode = "client"
  THEN [NextSecret(c, "server") EXCEPT !.read = Fresh(c, "server")]
  ELSE [NextSecret(c, "client") EXCEPT !.write = Fresh(c, "client")]
-----------------------------------------------------------------------------
(* Writing.                                                                *)

\* the eight bytes of a sequence number, incremented
Successor(seq) == IF seq = MaxSeq THEN 0 ELSE seq + 1

\* tls13_record_layer_inc_seq_num fails at the last number.
tls13_record_layer_inc_seq_num(seq) == seq # MaxSeq

(* The number is incremented once the record is sealed; when that fails the *)
(* record is not sent and wrec is left without data.                        *)
tls13_record_layer_seal_record(c, type, from, len) ==
  IF ~tls13_record_layer_inc_seq_num(c.write.seq)
  THEN Broken([c EXCEPT !.wrec = Unsealed], "seq")
  ELSE Done([c EXCEPT
               !.wrec = [type |-> type, key |-> c.write.key, seq |-> c.write.seq,
                         from |-> from, len |-> len],
               !.write.seq = Successor(@)], 0)

SealAndSend(c, type, from, len) ==
  LET Sent(p) == Done(p.c, len)
      Sealed(s) == Then(tls13_record_send(s.c), Sent)
  IN  Then(tls13_record_layer_seal_record(c, type, from, len), Sealed)

Mut_write_record(c, type, from, len) ==   \* mutant: pushed data not remembered
  LET Pushed(p) == IF c.wrec.type = type THEN Done(p.c, c.wrec.len)
                   ELSE SealAndSend(p.c, type, from, len)
  IN  IF c.write_closed THEN Result(c, "EOF")
      ELSE IF c.wrec = NoRec THEN SealAndSend(c, type, from, len)
      ELSE Then(tls13_record_send(c), Pushed)

Mut_appdata_kept(c, type, from, len) ==   \* mutant: pushed data reported again
  IF c.write_closed THEN Result(c, "EOF")
  ELSE IF type = "APP" /\ c.wrec_appdata_len # 0 THEN Done(c, c.wrec_appdata_len)
  ELSE IF c.wrec = NoRec THEN SealAndSend(c, type, from, len)
  ELSE LET Pushed(p) ==
             IF c.wrec.type = type THEN Done(p.c, c.wrec.len)
             ELSE SealAndSend([p.c EXCEPT !.wrec_appdata_len = c.wrec.len], type, from, len)
       IN  Then(tls13_record_send(c), Pushed)

tls13_record_layer_write_record(c, type, from, len) ==
  LET Pushed(p) ==
        IF c.wrec.type = type THEN Done(p.c, c.wrec.len)
        ELSE IF c.wrec.type # "APP" THEN Broken(p.c, "partial")
        ELSE SealAndSend([p.c EXCEPT !.wrec_appdata_len = c.wrec.len], type, from, len)
  IN  IF c.write_closed THEN Result(c, "EOF")
      ELSE IF type = "APP" /\ c.wrec_appdata_len # 0
      THEN Done([c EXCEPT !.wrec_appdata_len = 0], c.wrec_appdata_len)
      ELSE IF c.wrec = NoRec THEN SealAndSend(c, type, from, len)
      ELSE Then(tls13_record_send(c), Pushed)

\* The alert has gone out: tls13_record_layer_send_alert, tls13_alert_sent_cb.
AlertSent(c) ==
  LET d == [c EXCEPT !.alert_data = "NONE", !.write_closed = TRUE]
  IN  IF c.alert_data = "CLOSE_NOTIFY"
      THEN Done([d EXCEPT !.close_notify_sent = TRUE], 0)
      ELSE Result([d EXCEPT !.read_closed = TRUE], "ALERT")

\* An alert is two bytes long.
tls13_record_layer_send_alert(c) ==
  LET Sent(w) == AlertSent(w.c)
      written == tls13_record_layer_write_record(c, "ALERT", 0, 2)
  IN  Then({[w EXCEPT !.ret = IF @ = "EOF" THEN "ALERT" ELSE @] : w \in written}, Sent)

\* phh_data is a KeyUpdate message of five bytes; once it is sent,
\* tls13_phh_done_cb changes the write key.
tls13_record_layer_send_phh(c) ==
  LET Sent(w) == Done(tls13_phh_update_local_traffic_secret([w.c EXCEPT !.phh_data = FALSE]), 0)
  IN  Then(tls13_record_layer_write_record(c, "HANDSHAKE", 0, 5), Sent)

(* A message in phh_data fits in a record, so its rest is empty or all of   *)
(* it: the case of a message sent in part never arises.                     *)
tls13_record_layer_send_pending(c) ==
  IF c.alert_data # "NONE" THEN tls13_record_layer_send_alert(c)
  ELSE IF c.phh_data THEN tls13_record_layer_send_phh(c)
  ELSE Done(c, 0)

tls13_send_alert(c, desc) ==
  IF c.alert_data # "NONE" THEN Broken(c, "alert")
  ELSE tls13_record_layer_send_pending([c EXCEPT !.alert_data = desc])

tls13_record_layer_phh(c) ==
  IF c.phh_data THEN Broken(c, "phh")
  ELSE tls13_record_layer_send_pending([c EXCEPT !.phh_data = TRUE])
-----------------------------------------------------------------------------
(* Reading.                                                                *)
tls13_key_update_recv(c, requested) ==
  LET d == tls13_phh_update_peer_traffic_secret(c)
  IN  IF requested THEN tls13_record_layer_phh(d) ELSE Done(d, 0)

\* hour: the last message came more than TLS13_PHH_LIMIT_TIME ago
tls13_phh_limit_check(c, hour) == hour \/ c.phh_count <= PhhLimit

tls13_phh_received_cb(c, hour) ==
  IF ~tls13_phh_limit_check(c, hour) THEN tls13_send_alert(c, "FATAL")
  ELSE LET d == [c EXCEPT !.phh_count = IF hour THEN 1 ELSE @ + 1]
       IN  IF c.rbuf.type = "TICKET" THEN Done(d, 0)
           ELSE tls13_key_update_recv(d, c.rbuf.type = "KEY_UPDATE_REQUESTED")

tls13_record_layer_recv_phh(c, hour) ==
  LET received == {[r EXCEPT !.c.rbuf = NoRec] : r \in tls13_phh_received_cb(c, hour)}
      Handled(r) == Result(r.c, IF AutoRetry THEN "WANT_RETRY" ELSE "WANT_POLLIN")
  IN  Then(received, Handled)

\* The record opens: it was sealed under our read key with the next number.
Opens(c, r) ==
  /\ r.key = c.read.key /\ r.seq = c.read.seq
  /\ tls13_record_layer_inc_seq_num(c.read.seq)

Mut_process_alert(c, desc) ==   \* mutant: user_canceled ends the reading
  IF desc = "FATAL"
  THEN Result([c EXCEPT !.read_closed = TRUE, !.write_closed = TRUE], "ALERT")
  ELSE Result([c EXCEPT !.read_closed = TRUE,
                        !.close_notify_recv = @ \/ desc = "CLOSE_NOTIFY"], "EOF")

tls13_record_layer_process_alert(c, desc) ==
  CASE desc = "CLOSE_NOTIFY" ->
         Result([c EXCEPT !.read_closed = TRUE, !.close_notify_recv = TRUE], "EOF")
    [] desc = "USER_CANCELED" -> Result(c, "WANT_RETRY")
    [] desc = "FATAL" ->
         Result([c EXCEPT !.read_closed = TRUE, !.write_closed = TRUE], "ALERT")

(* A record that does not open stays in rrec, and every later read fails.   *)
tls13_record_layer_read_record(c) ==
  LET r == Head(c.in)
      d == [c EXCEPT !.in = Tail(@), !.read.seq = Successor(@)]
  IN  IF c.rrec_kept THEN Broken(c, "rrec")
      ELSE IF c.in = <<>> THEN Result(c, IF c.fin THEN "EOF" ELSE "WANT_POLLIN")
      ELSE IF ~Opens(c, r) THEN Broken([c EXCEPT !.rrec_kept = TRUE, !.in = Tail(@)], "open")
      ELSE IF r.type \in Alerts THEN tls13_record_layer_process_alert(d, r.type)
      ELSE Done([d EXCEPT !.rbuf = [type |-> r.type, from |-> r.from, len |-> r.len]], 0)

\* Application data of the buffer: the next n units at most.
Deliver(c, n) ==
  LET b == c.rbuf
      k == IF n > b.len THEN b.len ELSE n
  IN  Done([c EXCEPT !.got = @ + k, !.in_order = @ /\ b.from = c.got,
                     !.rbuf = IF k = b.len THEN NoRec
                              ELSE [b EXCEPT !.from = @ + k, !.len = @ - k]], k)

(* Records hold whole messages, so the record layer is in post-handshake    *)
(* mode (rl->phh) only inside tls13_record_layer_recv_phh.                  *)
tls13_record_layer_read_internal(c, n, hour) ==
  LET Buffered(r) ==
        IF r.c.rbuf.type \in PostHandshake THEN tls13_record_layer_recv_phh(r.c, hour)
        ELSE IF r.c.rbuf.len = 0 THEN Result([r.c EXCEPT !.rbuf = NoRec], "WANT_POLLIN")
        ELSE Deliver(r.c, n)
      NothingPending(p) ==
        IF p.c.read_closed THEN Result(p.c, "EOF")
        ELSE IF p.c.rbuf # NoRec THEN Buffered(p)
        ELSE Then(tls13_record_layer_read_record(p.c), Buffered)
  IN  Then(tls13_record_layer_send_pending(c), NothingPending)
-----------------------------------------------------------------------------
(* The application's calls.                                                *)
Idle == call = "none" /\ ~failed

\* tls13_legacy_return_code: what the application is told
Told(ret) ==
  CASE ret = "EOF" -> "zero"
    [] ret = "WANT_POLLIN" -> "want_read"
    [] ret = "WANT_POLLOUT" -> "want_write"
    [] ret \in {"FAILURE", "ALERT"} -> "error"

Return(name, value) ==
  /\ call' = "none" /\ last' = <<name, value>>
  /\ failed' = (value = "error")
Continue == UNCHANGED <<call, last, failed>>

\* A call that did not finish is repeated with the same arguments.
SSL_write(len) ==
  /\ Idle /\ ~conn.sent_shutdown
  /\ IF req = 0 THEN pos + len <= MaxData ELSE len = req
  /\ req' = len /\ call' = "write"
  /\ UNCHANGED <<conn, out, pos, wnum, last, failed>>

\* tls13_write_application_data for the units not yet written
tls13_record_layer_write(c) ==
  LET n == IF req - wnum > MaxPlaintext THEN MaxPlaintext ELSE req - wnum
      NothingPending(p) == tls13_record_layer_write_record(p.c, "APP", pos + wnum, n)
  IN  Then(tls13_record_layer_send_pending(c), NothingPending)

(* One turn of the loop of tls13_legacy_write_bytes, with result w.          *)
WriteBytes(w) ==
  /\ call = "write"
  /\ conn' = w.c
  /\ IF w.ret # "SUCCESS"
     THEN Return("write", Told(w.ret)) /\ UNCHANGED <<pos, req, wnum>>
     ELSE IF PartialWrite \/ wnum + w.n = req
     THEN /\ Return("write", "data")
          /\ pos' = pos + wnum + w.n /\ req' = 0 /\ wnum' = 0
     ELSE wnum' = wnum + w.n /\ Continue /\ UNCHANGED <<pos, req>>
  /\ UNCHANGED out

SSL_read ==
  /\ Idle /\ ~conn.close_notify_recv
  /\ call' = "read"
  /\ UNCHANGED <<conn, out, pos, req, wnum, last, failed>>

\* "We return 1 only once we have sent and received close-notify alerts."
ShutdownResult(c) == IF c.close_notify_recv THEN "one" ELSE "zero"

(* One turn of the loop of tls13_record_layer_read, with result r, for       *)
(* SSL_read or for the second step of SSL_shutdown, which throws the data    *)
(* away.                                                                     *)
ReadBytes(r) ==
  /\ call \in {"read", "shutdown"}
  /\ conn' = r.c
  /\ IF r.ret = "WANT_RETRY" THEN Continue
     ELSE IF call = "read"
     THEN Return("read", IF r.ret = "SUCCESS" THEN "data" ELSE Told(r.ret))
     ELSE Return("shutdown", IF r.ret \in {"SUCCESS", "EOF"}
                             THEN ShutdownResult(r.c) ELSE Told(r.ret))
  /\ UNCHANGED <<out, pos, req, wnum>>

Mut_SendClose(c) ==   \* mutant: an alert that had to wait is not waited for
  IF c.sent_shutdown THEN Done(c, 0)
  ELSE {[a EXCEPT !.ret = IF @ = "WANT_POLLOUT" THEN "SUCCESS" ELSE @] :
          a \in tls13_send_alert([c EXCEPT !.sent_shutdown = TRUE], "CLOSE_NOTIFY")}

\* The first step of tls13_legacy_shutdown: the alert is queued once, then
\* whatever is pending is sent.
SendClose(c) ==
  LET queued == IF c.sent_shutdown THEN Done(c, 0)
                ELSE tls13_send_alert([c EXCEPT !.sent_shutdown = TRUE], "CLOSE_NOTIFY")
      Pending(a) == tls13_record_layer_send_pending(a.c)
  IN  Then(queued, Pending)

\* The first step of SSL_shutdown, with result s.
ShutdownSend(s) ==
  /\ Idle /\ ~conn.close_notify_sent
  /\ conn' = s.c
  /\ Return("shutdown", IF s.ret = "SUCCESS" THEN ShutdownResult(s.c) ELSE Told(s.ret))
  /\ UNCHANGED <<out, pos, req, wnum>>

\* tls13_pending_application_data
Unread == conn.rbuf.type = "APP"

Mut_ShutdownRead ==   \* mutant: no attempt to read the peer's alert
  /\ Idle /\ conn.close_notify_sent
  /\ Return("shutdown", ShutdownResult(conn))
  /\ UNCHANGED <<conn, out, pos, req, wnum>>

\* Its second step reads, unless there is nothing to wait for.
ShutdownRead ==
  /\ Idle /\ conn.close_notify_sent
  /\ IF conn.close_notify_recv \/ Unread
     THEN Return("shutdown", ShutdownResult(conn))
     ELSE call' = "shutdown" /\ UNCHANGED <<last, failed>>
  /\ UNCHANGED <<conn, out, pos, req, wnum>>
-----------------------------------------------------------------------------
(* The peer's writing side, external: a conforming endpoint.               *)
PeerSend(type, len) ==
  /\ type \in PeerTypes
  /\ ~out.closed /\ ~conn.fin /\ out.count < MaxPeer /\ out.seq < MaxSeq
  /\ type = "TICKET" => PeerRole = "server"
  /\ type # "APP" => len = 1
  /\ conn' = [conn EXCEPT !.in = Append(@,
       [type |-> type, key |-> [owner |-> PeerRole, gen |-> out.gen],
        seq |-> out.seq, from |-> out.data, len |-> len])]
  /\ LET update == type \in {"KEY_UPDATE", "KEY_UPDATE_REQUESTED"} IN
     out' = [gen |-> IF update THEN out.gen + 1 ELSE out.gen,
             seq |-> IF update THEN 0 ELSE out.seq + 1,
             data |-> IF type = "APP" THEN out.data + len ELSE out.data,
             closed |-> type \in {"CLOSE_NOTIFY", "FATAL"},
             count |-> out.count + 1]
  /\ UNCHANGED <<pos, req, wnum, call, last, failed>>

\* The peer closes the transport, with or without a close_notify.
PeerDisconnect ==
  /\ ~conn.fin /\ conn' = [conn EXCEPT !.fin = TRUE]
  /\ UNCHANGED <<out, pos, req, wnum, call, last, failed>>

Next ==
  \/ \E len \in 1 .. MaxRequest : SSL_write(len)
  \/ SSL_read
  \/ ShutdownRead
  \/ \E w \in tls13_record_layer_write(conn) : WriteBytes(w)
  \/ \E n \in 1 .. MaxPlaintext, hour \in BOOLEAN :
       \E r \in tls13_record_layer_read_internal(conn, n, hour) : ReadBytes(r)
  \/ \E s \in SendClose(conn) : ShutdownSend(s)
  \/ \E type \in PeerTypes, len \in 0 .. MaxPlaintext : PeerSend(type, len)
  \/ PeerDisconnect

Spec == Init /\ [][Next]_vars

\* The loops of a call go on until it returns; an application that began to
\* shut down repeats SSL_shutdown, and now and then the socket has room.
LiveSpec ==
  /\ Spec
  /\ WF_vars(\E w \in tls13_record_layer_write(conn) : WriteBytes(w))
  /\ WF_vars(\E r \in tls13_record_layer_read_internal(conn, 1, FALSE) : ReadBytes(r))
  /\ SF_vars(\E s \in SendClose(conn) :
                conn.sent_shutdown /\ s.ret # "WANT_POLLOUT" /\ ShutdownSend(s))
  /\ SF_vars(ShutdownRead)
-----------------------------------------------------------------------------
(* Properties.                                                             *)
\* Every variable keeps its type; an SSL_write never counts more units as
\* written than it was given (wnum of tls13_legacy_write_bytes).
TypeOK ==
  /\ conn \in Connections
  /\ out \in [gen : Nat, seq : Nat, data : Nat, closed : BOOLEAN, count : Nat]
  /\ pos \in 0 .. MaxData /\ req \in 0 .. MaxRequest /\ wnum \in 0 .. req
  /\ call \in {"none", "write", "read", "shutdown"}
  /\ failed \in BOOLEAN

\* Whatever the socket blocks on and in whatever order the calls come, the peer
\* opens every record that reaches it: keys change exactly after the KeyUpdate
\* that announces them, numbers have no gap and are not reused, data arrives
\* once and in order, and nothing follows a closing alert
\* (tls13_record_layer_write_record, tls13_record_layer_send_pending).
PeerAccepts == conn.peer.ok

InFlight == IF conn.wrec.type = "APP" THEN conn.wrec.len ELSE 0

\* The units that reached the socket are those SSL_write has reported or will
\* report when it is called again, also when a record of data was pushed out by
\* a read or by an alert in between (wrec_appdata_len).
DataAccounted ==
  /\ conn.peer.data = pos + wnum + conn.wrec_appdata_len
  /\ wnum + conn.wrec_appdata_len + InFlight <= req
  /\ conn.wrec_appdata_len > 0 => InFlight = 0

\* The peer's records all open, also after its key updates, and the application
\* reads the data in order and without a gap.
PeerRecordsOpen == conn.why # "open" /\ conn.in_order

\* "Any records following the server finished message must be encrypted using
\* the server application traffic keys", and likewise for the client's: each
\* side writes under its own secret and reads under the peer's.
OwnKeys == conn.write.key.owner = Mode /\ conn.read.key.owner = PeerRole

\* "The only partial record type should be application data. All other cases are
\* handled to completion" (tls13_record_layer_write_record).
OnlyDataPartial == conn.why # "partial"

\* "limit of 100 post handshake handshake messages in an hour"
\* (tls13_phh_limit_check): of the messages that follow each other without an
\* hour's pause no more than the limit are let through.
PhhBounded == conn.phh_count <= PhhLimit

\* SSL_read says that the connection is closed only when the peer closed its
\* side: "in the case of a close notify only one channel is closed"
\* (struct tls13_record_layer).
EofMeansClosed == last = <<"read", "zero">> => conn.close_notify_recv \/ conn.fin

\* SSL_shutdown returns 0 only when our close_notify has reached the transport
\* and 1 only when the peer's was received as well, also when the alert had to
\* wait behind other output (tls13_legacy_shutdown).
ShutdownTruthful ==
  /\ last = <<"shutdown", "zero">> => conn.peer.closed
  /\ last = <<"shutdown", "one">> => conn.peer.closed /\ out.closed

\* An application that repeats SSL_shutdown is told of the peer's close_notify
\* in the end, unless a call fails or data it did not read is in the way
\* (tls13_legacy_shutdown).
ShutdownCompletes ==
  conn.sent_shutdown /\ out.closed
    ~> \/ last = <<"shutdown", "one">> \/ failed
       \/ Unread
=============================================================================
