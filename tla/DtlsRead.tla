------------------------------ MODULE DtlsRead ------------------------------
(***************************************************************************)
(* The receiving side of a DTLS server connection (ssl/d1_pkt.c): records  *)
(* arrive over a network that loses, duplicates, reorders and corrupts     *)
(* them; dtls1_get_record checks epoch and replay window, keeps records of *)
(* the next epoch for later, and dtls1_read_bytes hands records to the     *)
(* handshake or to the application, or keeps application data that         *)
(* overtook the Finished message.  The handshake (ssl/ssl_srvr.c) is kept  *)
(* to the stages that decide what the record layer may accept:             *)
(*   hello     SSL3_ST_SR_CLNT_HELLO_A, waiting for a ClientHello          *)
(*   flight    SSL3_ST_SR_KEY_EXCH_A, waiting for a ClientKeyExchange      *)
(*   verify    SSL3_ST_SR_CERT_VRFY_A (full handshake, no client cert.)    *)
(*   finished  SSL3_ST_SR_FINISHED_A (resumed session)                     *)
(*   ok        SSL_ST_OK                                                   *)
(* An API call is in progress while call # "none"; dtls1_read_bytes is at  *)
(* its label "start" or, inside dtls1_get_record, at "wire" (label again). *)
(***************************************************************************)
EXTENDS DtlsReplay, FiniteSets

CONSTANTS
  QueueLimit,          \* records a queue holds: 100 in dtls1_buffer_record
  MaxEpoch,            \* bound: the last epoch the peer reaches
  LastSeq,             \* bound: the last sequence number of each epoch
  ServerRenegotiates,  \* whether the application calls SSL_renegotiate
  Corrupts             \* whether the network alters protected records

ASSUME ReadAssumption ==
  /\ QueueLimit \in Nat \ {0}
  /\ MaxEpoch \in Nat \ {0}
  /\ LastSeq \in [0 .. MaxEpoch -> Nat]
  /\ ServerRenegotiates \in BOOLEAN
  /\ Corrupts \in BOOLEAN

VARIABLES
  w_epoch, w_seq, sent,     \* peer: write epoch, next number, records sent
  r_epoch, bitmap, next_bitmap,
  unprocessed, unprocessed_epoch,  \* D1I(s)->unprocessed_rcds
  processed,                \* D1I(s)->processed_rcds
  app_data,                 \* D1I(s)->buffered_app_data
  rrec,                     \* S3I(s)->rrec: {} when rr->length is 0, not good
                            \* when it is a record that did not open
  ccs_ok,                   \* D1I(s)->change_cipher_spec_ok
  ccs,                      \* S3I(s)->change_cipher_spec
  shutdown,                 \* SSL_RECEIVED_SHUTDOWN
  hs, hits,                 \* handshake stage; epochs whose handshake resumes
  fin_kept,                 \* D1I(s)->buffered_messages holds a Finished
  call, at,                 \* API call and position in dtls1_read_bytes
  err, fatal_sent,          \* why the connection failed; fatal alert sent
  received, early, handled, discarded, finished  \* history, see Init

peerVars == <<w_epoch, w_seq, sent>>
winVars == <<r_epoch, bitmap, next_bitmap, received, early>>
unprocVars == <<unprocessed, unprocessed_epoch, processed>>
hsVars == <<ccs_ok, ccs, shutdown, hs, hits, fin_kept, finished>>
ctlVars == <<call, at, err>>
vars == <<peerVars, winVars, unprocVars, hsVars, ctlVars, app_data, rrec,
          fatal_sent, handled, discarded>>

Epochs == 0 .. MaxEpoch
Seqs == UNION {0 .. LastSeq[e] : e \in Epochs}
HandshakeTypes == {"CLIENT_HELLO", "CLIENT_KEY_EXCHANGE", "FINISHED"}
Types == HandshakeTypes \union {"CCS", "APP", "CLOSE_NOTIFY"}
\* good: the record authenticates under the keys of its epoch
Records == [epoch : Epochs, seq : Seqs, type : Types, good : BOOLEAN]
IsHandshake(r) == r.type \in HandshakeTypes
Id(r) == <<r.epoch, r.seq>>

Init ==
  /\ w_epoch = 0 /\ w_seq = [e \in Epochs |-> 0] /\ sent = {}
  /\ r_epoch = 0 /\ bitmap = ClearBitmap /\ next_bitmap = ClearBitmap
  /\ unprocessed = {} /\ unprocessed_epoch = 0 /\ processed = {}
  /\ app_data = {} /\ rrec = {}
  /\ ccs_ok = FALSE /\ ccs = FALSE /\ shutdown = FALSE
  /\ hs = "hello" /\ hits = {} /\ fin_kept = FALSE
  /\ call = "none" /\ at = "start" /\ err = "none" /\ fatal_sent = FALSE
  /\ received = {}      \* <<epoch, number>> of records marked under their number
  /\ early = {}         \* of records kept for the next epoch
  /\ handled = [id \in Epochs \X Seqs |-> 0]    \* times it was consumed
  /\ discarded = [id \in Epochs \X Seqs |-> 0]  \* times it was dropped
  /\ finished = {}      \* epochs whose Finished was accepted
-----------------------------------------------------------------------------
(***************************************************************************)
(* The peer, a conforming DTLS client, external: what it may send follows  *)
(* from what this server must have done first.  A retransmission is the    *)
(* same message in a new record, in the current or the previous epoch.     *)
(***************************************************************************)
Sent(t, e) == \E r \in sent : r.type = t /\ r.epoch = e

\* The ClientHello sent in epoch e has been answered.
Answered(e) == \/ e < r_epoch
               \/ e = r_epoch /\ ~ccs /\ hs \notin {"hello", "ok"}

\* The client knows that the handshake that led to epoch e is complete.
PeerDone(e) == e > 0 /\ Sent("FINISHED", e) /\ (e - 1 \in hits \/ e \in finished)

MaySend(t, e) ==
  CASE t = "CLIENT_HELLO" -> e = w_epoch /\ e < MaxEpoch /\ (e = 0 \/ PeerDone(e))
    [] t = "CLIENT_KEY_EXCHANGE" ->
         /\ e \in {w_epoch, w_epoch - 1} /\ e < MaxEpoch
         /\ Answered(e) /\ e \notin hits
    [] t = "CCS" ->
         /\ e \in {w_epoch, w_epoch - 1} /\ e < MaxEpoch
         /\ Answered(e) /\ (e \in hits \/ Sent("CLIENT_KEY_EXCHANGE", e))
    [] t = "FINISHED" -> e = w_epoch /\ e > 0
    [] t \in {"APP", "CLOSE_NOTIFY"} ->
         e = w_epoch /\ PeerDone(e) /\ ~Sent("CLIENT_HELLO", e)

PeerSend(t, e) ==
  /\ MaySend(t, e)
  /\ \A x \in Epochs : ~Sent("CLOSE_NOTIFY", x)
  /\ w_seq[e] <= LastSeq[e]
  /\ sent' = sent \union {[epoch |-> e, seq |-> w_seq[e], type |-> t, good |-> TRUE]}
  /\ w_seq' = [w_seq EXCEPT ![e] = @ + 1]
  /\ w_epoch' = IF t = "CCS" /\ e = w_epoch THEN w_epoch + 1 ELSE w_epoch
  /\ UNCHANGED <<winVars, unprocVars, hsVars, ctlVars, app_data, rrec,
                 fatal_sent, handled, discarded>>

\* What a read of the socket may return: any record ever sent, any number of
\* times, possibly altered when the record is protected.
Arriving ==
  sent \union (IF Corrupts
               THEN {[r EXCEPT !.good = FALSE] : r \in {x \in sent : x.epoch > 0}}
               ELSE {})
-----------------------------------------------------------------------------
(* Queues: a pqueue orders its records by sequence number.                 *)
First(q) == CHOOSE r \in q : \A x \in q : r.seq <= x.seq
Clashes(q, r) == \E x \in q : x.seq = r.seq   \* pqueue_insert returns NULL
Full(q) == Cardinality(q) >= QueueLimit

Mut_buffer_record(q, r) ==   \* mutant: no limit
  IF Clashes(q, r) THEN [q |-> q, ret |-> -1] ELSE [q |-> q \union {r}, ret |-> 1]

\* dtls1_buffer_record: 0 and nothing kept when the queue is full, -1 when
\* the insertion fails.
dtls1_buffer_record(q, r) ==
  IF Full(q) THEN [q |-> q, ret |-> 0]
  ELSE IF Clashes(q, r) THEN [q |-> q, ret |-> -1]
  ELSE [q |-> q \union {r}, ret |-> 1]

\* dtls1_process_record succeeds: the record opens under the read keys.
Opens(r) == r.good /\ r.epoch = r_epoch

(***************************************************************************)
(* dtls1_process_buffered_records takes the unprocessed records in order   *)
(* until one does not open or is refused by the processed queue; the       *)
(* opened ones go to that queue, those that find it full are lost.  The    *)
(* one that did not open (bad) stays in rrec.  The epochs are synchronised *)
(* once none is left.                                                      *)
(***************************************************************************)
Room(r) == Cardinality({x \in unprocessed : x.seq < r.seq})
             + Cardinality(processed) < QueueLimit
Refused(r) == Room(r) /\ Clashes(processed, r)
Popped == {r \in unprocessed :
             \A x \in unprocessed : x.seq < r.seq => Opens(x) /\ ~Refused(x)}
Opened == {r \in Popped : Opens(r)}
Moved == {r \in Opened : Room(r) /\ ~Refused(r)}

Processing(synced) ==
  IF unprocessed # {} /\ unprocessed_epoch # r_epoch
  THEN [un |-> unprocessed, pr |-> processed, epoch |-> unprocessed_epoch,
        lost |-> {}, bad |-> {}, ret |-> 1]
  ELSE [un |-> unprocessed \ Popped,
        pr |-> processed \union Moved,
        epoch |-> IF Opened = unprocessed /\ ~\E r \in Opened : Refused(r)
                  THEN synced ELSE unprocessed_epoch,
        lost |-> Opened \ Moved,
        bad |-> Popped \ Opened,
        ret |-> IF \E r \in Opened : Refused(r) THEN -1 ELSE 1]

Mut_late_sync == Processing(r_epoch)   \* mutant: synchronised with the read epoch

ProcessBuffered == Processing(r_epoch + 1)

\* the records in rs are dropped after they passed the replay check
Discard(rs) ==
  discarded' = [id \in DOMAIN discarded |->
                  discarded[id] + Cardinality({r \in rs : Id(r) = id})]

Running == call # "none" /\ err = "none"

Return == call' = "none" /\ at' = "start" /\ err' = err
Fail(why) == call' = "none" /\ at' = "start" /\ err' = why
Loop == call' = call /\ at' = "start" /\ err' = err

(* dtls1_get_record, first part: buffered records before the wire.  A record
   that did not open is overwritten by the next processed one, if any.     *)
GetRecord ==
  LET p == ProcessBuffered IN
  /\ Running /\ at = "start" /\ rrec = {}
  /\ ~(hs = "ok" /\ app_data # {})
  /\ unprocessed' = p.un /\ unprocessed_epoch' = p.epoch
  /\ fatal_sent' = (fatal_sent \/ p.bad # {})
  /\ IF p.ret < 0
     THEN Fail("insert") /\ processed' = p.pr /\ rrec' = {} /\ Discard(p.lost)
     ELSE IF p.pr # {}
     THEN /\ Loop
          /\ rrec' = {First(p.pr)} /\ processed' = p.pr \ rrec'
          /\ Discard(p.lost \union p.bad)
     ELSE /\ call' = call /\ at' = "wire" /\ err' = err
          /\ rrec' = {[r EXCEPT !.good = FALSE] : r \in p.bad} /\ processed' = {}
          /\ Discard(p.lost)
  /\ UNCHANGED <<peerVars, winVars, hsVars, app_data, handled>>

(* dtls1_get_record, second part: nothing to read, ssl3_packet_read returns
   -1; what is in rrec stays there.                                        *)
WouldBlock ==
  /\ Running /\ at = "wire"
  /\ Return
  /\ UNCHANGED <<peerVars, winVars, unprocVars, hsVars, app_data, rrec,
                 fatal_sent, handled, discarded>>

\* dtls1_get_bitmap
InCurrentEpoch(r) == r.epoch = r_epoch
InNextEpoch(r) ==
  /\ r.epoch = r_epoch + 1
  /\ IsHandshake(r) \/ r.type = "CLOSE_NOTIFY"

\* A record that passes dtls1_get_bitmap, the replay check and the test for a
\* handshake in progress.
Fresh(r) ==
  \/ InCurrentEpoch(r) /\ dtls1_record_replay_check(bitmap, r.seq)
  \/ InNextEpoch(r) /\ dtls1_record_replay_check(next_bitmap, r.seq) /\ hs # "ok"

(* A record that does not is read over the one in rrec and dumped.  Without
   one in rrec nothing changes.                                            *)
DumpRecord(r) ==
  /\ Running /\ at = "wire" /\ rrec # {}
  /\ ~Fresh(r)
  /\ rrec' = {} /\ Discard(rrec)
  /\ UNCHANGED <<peerVars, winVars, unprocVars, hsVars, ctlVars, app_data,
                 fatal_sent, handled>>

(* A new record of the current epoch: it is opened, marked and returned to
   dtls1_read_bytes; one that does not open is dumped, with a fatal alert. *)
ReadRecord(r) ==
  /\ Running /\ at = "wire"
  /\ InCurrentEpoch(r) /\ Fresh(r)
  /\ IF Opens(r)
     THEN /\ bitmap' = dtls1_record_bitmap_update(bitmap, r.seq)
          /\ received' = received \union {Id(r)}
          /\ rrec' = {r}
          /\ Loop
          /\ fatal_sent' = fatal_sent
     ELSE /\ rrec' = {} /\ fatal_sent' = TRUE
          /\ UNCHANGED <<bitmap, received, ctlVars>>
  /\ Discard(rrec)
  /\ UNCHANGED <<peerVars, r_epoch, next_bitmap, early, unprocVars, hsVars,
                 app_data, handled>>

(* A new record of the next epoch while a handshake is in progress: it is
   kept for later, unopened.  dtls1_buffer_record clears rrec once it has
   moved the record out, and rr->seq_num with it: the number marked is then
   0.  Only a record that found the queue full is marked under its own
   number, and it is dumped.                                               *)
BufferNextEpoch(r) ==
  LET b == dtls1_buffer_record(unprocessed, r)
      seq_num == IF b.ret = 0 THEN r.seq ELSE 0
  IN
  /\ Running /\ at = "wire"
  /\ InNextEpoch(r) /\ Fresh(r)
  /\ unprocessed' = b.q
  /\ IF b.ret < 0
     THEN Fail("insert") /\ UNCHANGED next_bitmap
     ELSE next_bitmap' = dtls1_record_bitmap_update(next_bitmap, seq_num)
          /\ UNCHANGED ctlVars
  /\ received' = IF b.ret = 0 THEN received \union {Id(r)} ELSE received
  /\ early' = IF b.ret = 1 THEN early \union {Id(r)} ELSE early
  /\ rrec' = {}
  /\ Discard(IF b.ret = 0 THEN rrec \union {r} ELSE rrec)
  /\ UNCHANGED <<peerVars, r_epoch, bitmap, unprocessed_epoch, processed,
                 hsVars, app_data, fatal_sent, handled>>
-----------------------------------------------------------------------------
(* dtls1_read_bytes with a record in rrec.                                 *)
Holding(r) == Running /\ at = "start" /\ rrec = {r}
Consume(r) == /\ rrec' = {}
              /\ handled' = [handled EXCEPT ![Id(r)] = @ + 1]
dispatchUnchanged == <<peerVars, unprocVars, fatal_sent>>

Mut_RetrieveAppData ==   \* mutant: kept data looked for in the wrong stage
  /\ Running /\ at = "start" /\ rrec = {}
  /\ hs = "finished" /\ app_data # {}
  /\ rrec' = {First(app_data)} /\ app_data' = app_data \ rrec'
  /\ UNCHANGED <<dispatchUnchanged, winVars, hsVars, ctlVars, handled, discarded>>

Mut_RetrieveTwice ==   \* mutant: the record is copied and stays in the queue
  /\ Running /\ at = "start" /\ rrec = {}
  /\ hs = "ok" /\ app_data # {}
  /\ rrec' = {First(app_data)} /\ app_data' = app_data
  /\ UNCHANGED <<dispatchUnchanged, winVars, hsVars, ctlVars, handled, discarded>>

(* Application data kept during the last handshake comes first.            *)
RetrieveAppData ==
  /\ Running /\ at = "start" /\ rrec = {}
  /\ hs = "ok" /\ app_data # {}
  /\ rrec' = {First(app_data)} /\ app_data' = app_data \ rrec'
  /\ UNCHANGED <<dispatchUnchanged, winVars, hsVars, ctlVars, handled, discarded>>

Mut_HoldsBack(r) == ccs /\ r.type = "CLOSE_NOTIFY"   \* mutant: data not kept

HoldsBack(r) == ccs /\ ~IsHandshake(r)

(* A record other than a handshake record between ChangeCipherSpec and
   Finished is kept for later.                                             *)
BufferAppData(r) ==
  LET b == dtls1_buffer_record(app_data, r) IN
  /\ Holding(r) /\ HoldsBack(r)
  /\ app_data' = b.q /\ rrec' = {}
  /\ Discard(IF b.ret = 1 THEN {} ELSE {r})
  /\ IF b.ret < 0 THEN Fail("insert") ELSE Loop
  /\ UNCHANGED <<dispatchUnchanged, winVars, hsVars, handled>>

(* The peer has shut down: anything read is thrown away.                   *)
ThrowAway(r) ==
  /\ Holding(r) /\ ~HoldsBack(r) /\ shutdown
  /\ Consume(r) /\ Return
  /\ UNCHANGED <<dispatchUnchanged, winVars, hsVars, app_data, discarded>>

Dispatch(r) == Holding(r) /\ ~HoldsBack(r) /\ ~shutdown /\ r.good

(* A record that did not open is dispatched by the type of its header, on
   whatever rr->data points to.  The outcome is undefined: the bytes may be
   ignored or fail the call, an alert may be taken for a close_notify and a
   handshake record for a request to renegotiate.  They are not taken for a
   message that the handshake would accept.                                *)
DispatchUnopened(r) ==
  /\ Holding(r) /\ ~HoldsBack(r) /\ ~shutdown /\ ~r.good
  /\ Consume(r)
  /\ \/ (Loop \/ Fail("unopened")) /\ UNCHANGED <<shutdown, hs>>
     \/ r.type = "CLOSE_NOTIFY" /\ Return /\ shutdown' = TRUE /\ hs' = hs
     \/ /\ IsHandshake(r) /\ call = "read"
        /\ call' = "renegotiation" /\ at' = "start" /\ err' = err
        /\ hs' = "hello" /\ shutdown' = shutdown
  /\ UNCHANGED <<dispatchUnchanged, winVars, ccs_ok, ccs, hits, fin_kept,
                 finished, app_data, discarded>>

(* Application data for SSL_read, also when SSL_read found a handshake in
   progress and ssl3_read_internal reads again with in_handshake raised.   *)
DeliverAppData(r) ==
  /\ Dispatch(r) /\ r.type = "APP"
  /\ call # "handshake"
  /\ Consume(r) /\ Return
  /\ UNCHANGED <<dispatchUnchanged, winVars, hsVars, app_data, discarded>>

(* Application data found by SSL_do_handshake stays in rrec: the caller is
   told to retry.                                                          *)
AppDataInHandshake(r) ==
  /\ Dispatch(r) /\ r.type = "APP"
  /\ call = "handshake"
  /\ Return
  /\ UNCHANGED <<dispatchUnchanged, winVars, hsVars, app_data, rrec, handled, discarded>>

ReceiveCloseNotify(r) ==
  /\ Dispatch(r) /\ r.type = "CLOSE_NOTIFY"
  /\ shutdown' = TRUE
  /\ Consume(r) /\ Return
  /\ UNCHANGED <<dispatchUnchanged, winVars, ccs_ok, ccs, hs, hits, fin_kept,
                 finished, app_data, discarded>>

Mut_reset_seq_numbers ==   \* mutant: the window of the next epoch is not reset
  /\ r_epoch' = r_epoch + 1
  /\ bitmap' = next_bitmap
  /\ UNCHANGED <<next_bitmap, received, early>>

\* dtls1_reset_seq_numbers(s, SSL3_CC_READ)
dtls1_reset_seq_numbers ==
  /\ r_epoch' = r_epoch + 1
  /\ bitmap' = next_bitmap
  /\ next_bitmap' = ClearBitmap
  /\ UNCHANGED <<received, early>>

Mut_ReceiveCcs(r) ==   \* mutant: change_cipher_spec_ok is not consulted
  /\ Dispatch(r) /\ r.type = "CCS"
  /\ Consume(r)
  /\ ccs_ok' = FALSE /\ ccs' = TRUE
  /\ IF hs = "flight"
     THEN Fail("early_ccs") /\ UNCHANGED winVars
     ELSE Loop /\ dtls1_reset_seq_numbers
  /\ UNCHANGED <<dispatchUnchanged, shutdown, hs, hits, fin_kept,
                 finished, app_data, discarded>>

(* ChangeCipherSpec: dropped unless change_cipher_spec_ok.  While the
   ClientKeyExchange is missing the new session has no master secret, and
   ssl3_do_change_cipher_spec fails with SSL_R_CCS_RECEIVED_EARLY.         *)
ReceiveCcs(r) ==
  /\ Dispatch(r) /\ r.type = "CCS"
  /\ Consume(r)
  /\ ccs_ok' = FALSE
  /\ IF ~ccs_ok THEN Loop /\ ccs' = ccs /\ UNCHANGED winVars
     ELSE /\ ccs' = TRUE
          /\ IF hs = "flight"
             THEN Fail("early_ccs") /\ UNCHANGED winVars
             ELSE Loop /\ dtls1_reset_seq_numbers
  /\ UNCHANGED <<dispatchUnchanged, shutdown, hs, hits, fin_kept,
                 finished, app_data, discarded>>

\* ssl3_accept after a ClientHello: the session is resumed or a full
\* handshake begins.
ProcessClientHello ==
  \E hit \in BOOLEAN :
    /\ hits' = IF hit THEN hits \union {r_epoch} ELSE hits
    /\ hs' = IF hit THEN "finished" ELSE "flight"
    /\ ccs_ok' = (ccs_ok \/ hit)

\* ssl3_accept once ssl3_get_finished succeeds; in a full handshake the
\* message was read in state CERT_VRFY and FINISHED_A sets the flag again.
ProcessFinished ==
  /\ ccs' = FALSE
  /\ ccs_ok' = (ccs_ok \/ hs = "verify")
  /\ hs' = "ok"
  /\ finished' = finished \union {r_epoch}
  /\ call' \in CASE call = "handshake" -> {"none"}
                 [] call = "read_handshake" -> {"read"}
                 [] call = "renegotiation" -> {"read", "none"} \* AUTO_RETRY
  /\ at' = "start" /\ err' = err

\* The number of a message in its handshake, which the client counts from 0: a
\* Finished follows the ClientHello of a resumption, or a ClientKeyExchange.
MsgSeq(r) ==
  CASE r.type = "CLIENT_HELLO" -> 0
    [] r.type = "CLIENT_KEY_EXCHANGE" -> 1
    [] r.type = "FINISHED" -> IF r.epoch - 1 \in hits THEN 1 ELSE 2

\* D1I(s)->handshake_read_seq, the number of the message waited for; it is
\* reset when a handshake is complete.
handshake_read_seq == CASE hs \in {"hello", "ok"} -> 0
                        [] hs \in {"flight", "finished"} -> 1
                        [] hs = "verify" -> 2

\* ssl3_accept with the message it waits for.  Message numbers do not tell
\* handshakes apart: a Finished repeated from the last one may be taken for the
\* ClientKeyExchange, which fails, or come before the ChangeCipherSpec
\* (SSL_R_GOT_A_FIN_BEFORE_A_CCS), also when it was kept for later.
ProcessMessage(r) ==
  CASE r.type = "CLIENT_HELLO" ->
         Loop /\ ProcessClientHello /\ UNCHANGED <<ccs, fin_kept, finished, fatal_sent>>
    [] r.type = "CLIENT_KEY_EXCHANGE" /\ hs = "flight" /\ ~fin_kept ->
         Loop /\ hs' = "verify" /\ ccs_ok' = TRUE
         /\ UNCHANGED <<ccs, hits, fin_kept, finished, fatal_sent>>
    [] r.type = "FINISHED" /\ hs # "flight" /\ ccs ->
         ProcessFinished /\ UNCHANGED <<hits, fin_kept, fatal_sent>>
    [] OTHER ->
         Fail("stale_fin") /\ fatal_sent' = TRUE
         /\ UNCHANGED <<ccs_ok, ccs, hs, hits, fin_kept, finished>>

(* A handshake record while a handshake is in progress.  A message with a
   later number than the one waited for is kept, except a Finished before the
   handshake has begun; one with an earlier number is ignored.             *)
ReceiveHandshake(r) ==
  /\ Dispatch(r) /\ IsHandshake(r) /\ call # "read"
  /\ Consume(r)
  /\ IF MsgSeq(r) = handshake_read_seq
     THEN ProcessMessage(r)
     ELSE /\ Loop
          /\ fin_kept' = (fin_kept \/ (MsgSeq(r) > handshake_read_seq
                                       /\ handshake_read_seq # 0))
          /\ UNCHANGED <<ccs_ok, ccs, hs, hits, finished, fatal_sent>>
  /\ UNCHANGED <<peerVars, unprocVars, winVars, shutdown, app_data, discarded>>

(* A handshake record while reading application data: a repeated Finished
   makes us retransmit, a ClientHello starts a renegotiation.              *)
UnexpectedHandshake(r) ==
  /\ Dispatch(r) /\ IsHandshake(r) /\ call = "read"
  /\ Consume(r)
  /\ IF r.type = "CLIENT_HELLO"
     THEN /\ call' = "renegotiation" /\ at' = "start" /\ err' = err
          /\ ProcessClientHello
          /\ UNCHANGED <<ccs, finished>>
     ELSE Loop /\ UNCHANGED <<ccs_ok, ccs, hs, hits, finished>>
  /\ UNCHANGED <<dispatchUnchanged, winVars, shutdown, fin_kept, app_data, discarded>>
-----------------------------------------------------------------------------
(* The application's calls.                                                *)
Idle == call = "none" /\ err = "none"

\* ssl3_accept entered again in the stage it stopped at
ResumeHandshake ==
  /\ ccs_ok' = (ccs_ok \/ hs \in {"verify", "finished"})
  /\ shutdown' = (shutdown /\ hs # "hello")

SSL_do_handshake ==
  /\ Idle /\ hs # "ok"
  /\ call' = "handshake" /\ UNCHANGED <<at, err>>
  /\ ResumeHandshake
  /\ UNCHANGED <<dispatchUnchanged, winVars, ccs, hs, hits, fin_kept, finished,
                 app_data, rrec, handled, discarded>>

SSL_read ==
  /\ Idle /\ ~shutdown
  /\ UNCHANGED <<at, err>>
  /\ IF hs = "ok" THEN call' = "read" /\ UNCHANGED <<ccs_ok, shutdown>>
     ELSE call' = "read_handshake" /\ ResumeHandshake
  /\ UNCHANGED <<dispatchUnchanged, winVars, ccs, hs, hits, fin_kept, finished,
                 app_data, rrec, handled, discarded>>

\* SSL_renegotiate, then SSL_do_handshake, which sends a HelloRequest
SSL_renegotiate ==
  /\ ServerRenegotiates /\ Idle /\ hs = "ok" /\ r_epoch < MaxEpoch
  /\ hs' = "hello" /\ shutdown' = FALSE
  /\ call' = "handshake" /\ UNCHANGED <<at, err>>
  /\ UNCHANGED <<dispatchUnchanged, winVars, ccs_ok, ccs, hits, fin_kept,
                 finished, app_data, rrec, handled, discarded>>

ReadBytes ==
  \/ GetRecord \/ WouldBlock \/ RetrieveAppData
  \/ \E r \in Arriving : ReadRecord(r) \/ BufferNextEpoch(r) \/ DumpRecord(r)
  \/ \E r \in rrec :
       \/ DispatchUnopened(r) \/ BufferAppData(r) \/ ThrowAway(r) \/ DeliverAppData(r)
       \/ AppDataInHandshake(r) \/ ReceiveCloseNotify(r) \/ ReceiveCcs(r)
       \/ ReceiveHandshake(r) \/ UnexpectedHandshake(r)

Next ==
  \/ \E t \in Types, e \in Epochs : PeerSend(t, e)
  \/ ReadBytes
  \/ SSL_do_handshake \/ SSL_read \/ SSL_renegotiate

Spec == Init /\ [][Next]_vars

\* The application reads again and again and the calls it makes return; a
\* Finished message is retransmitted until it arrives.
LiveSpec ==
  /\ Spec
  /\ WF_vars(ReadBytes)
  /\ SF_vars(SSL_read)
  /\ SF_vars(\E r \in Arriving : r.type = "FINISHED" /\ r.good
                                 /\ (ReadRecord(r) \/ BufferNextEpoch(r)))
-----------------------------------------------------------------------------
(* Properties.                                                             *)

\* Every variable keeps its type; queues stay within the limit of
\* dtls1_buffer_record.
TypeOK ==
  /\ w_epoch \in Epochs /\ w_seq \in [Epochs -> Nat]
  /\ sent \subseteq Records
  /\ r_epoch \in Epochs
  /\ bitmap \in DTLS1_BITMAP /\ next_bitmap \in DTLS1_BITMAP
  /\ unprocessed \subseteq Records /\ unprocessed_epoch \in 0 .. MaxEpoch + 1
  /\ processed \subseteq Records /\ app_data \subseteq Records
  /\ \A q \in {unprocessed, processed, app_data} : Cardinality(q) <= QueueLimit
  /\ rrec \subseteq Records /\ Cardinality(rrec) <= 1
  /\ {ccs_ok, ccs, shutdown, fin_kept, fatal_sent} \subseteq BOOLEAN
  /\ hs \in {"hello", "flight", "verify", "finished", "ok"}
  /\ hits \subseteq Epochs /\ finished \subseteq Epochs
  /\ call \in {"none", "handshake", "read_handshake", "renegotiation", "read"}
  /\ at \in {"start", "wire"}
  /\ err \in {"none", "insert", "early_ccs", "stale_fin", "unopened"}
  /\ received \subseteq Epochs \X Seqs /\ early \subseteq Epochs \X Seqs
  /\ handled \in [Epochs \X Seqs -> Nat]
  /\ discarded \in [Epochs \X Seqs -> Nat]

\* the numbers marked in epoch e
Marked(e) == {p[2] : p \in {q \in received : q[1] = e}}
             \union (IF \E q \in early : q[1] = e THEN {0} ELSE {})

\* Both replay windows say exactly which numbers of the current and of the
\* next epoch were marked, also after the windows changed places on a
\* ChangeCipherSpec (dtls1_record_bitmap_update, dtls1_reset_seq_numbers): those
\* of the records read or refused by a full queue, and number 0 if a record was
\* kept for the next epoch, whatever its number was.
WindowExact ==
  /\ Exact(bitmap, Marked(r_epoch))
  /\ Exact(next_bitmap, Marked(r_epoch + 1))

TakesFresh ==
  at = "wire" =>
    \A r \in rrec' \union unprocessed' :
      r \in rrec \union unprocessed \/ Id(r) \notin received

\* What dtls1_get_record takes from the network, to return it or to keep it for
\* the next epoch, was never marked under its number before: however old it is
\* and however the windows moved since, a copy is taken again only if the first
\* was kept for the next epoch.
NoReplay == [][TakesFresh]_vars

\* Every record that passed the replay check is in exactly one place for each
\* time it was taken: consumed, in one of the queues or in rrec, or dropped for
\* cause.  So none is processed more often than it was taken, at most once as
\* itself and once early, and none vanishes, through however many queues it
\* passes (dtls1_buffer_record, dtls1_retrieve_buffered_record).
Accounted ==
  \A id \in Epochs \X Seqs :
    LET Copies(q) == Cardinality({r \in q : Id(r) = id}) IN
    handled[id] + discarded[id] + Copies(unprocessed) + Copies(processed)
      + Copies(app_data) + Copies(rrec)
    = (IF id \in received THEN 1 ELSE 0) + (IF id \in early THEN 1 ELSE 0)

\* As long as every record opened, the queue of unprocessed records holds
\* records of the epoch it is labelled with, that label never falls behind the
\* read epoch, and what was opened early is of the epoch it was opened in
\* (dtls1_process_buffered_records).  After a record that did not open the
\* label lags behind, and a record of the epoch after next may join the queue.
QueueEpochs ==
  ~fatal_sent =>
    /\ \A r \in unprocessed : r.epoch = unprocessed_epoch
    /\ unprocessed # {} => unprocessed_epoch \in {r_epoch, r_epoch + 1}
    /\ \A r \in processed : r.epoch = r_epoch

\* Application data of an epoch is given to the application only after the
\* Finished message of that epoch was accepted, though reordered data may
\* arrive earlier (dtls1_read_bytes, buffered_app_data).
AppDataAfterFinished ==
  \A r \in sent :
    r.type = "APP" /\ handled[<<r.epoch, r.seq>>] > 0 => r.epoch \in finished

\* "insert should not fail, since duplicates are dropped"
\* (dtls1_buffer_record).
InsertNeverFails == err # "insert"

\* "We can't process a CCS now, because previous handshake messages are still
\* missing, so just drop it" (dtls1_read_bytes): an early ChangeCipherSpec
\* does not fail the connection.
EarlyCcsDropped == err # "early_ccs"

\* "When it finishes, one packet has been decoded" (dtls1_get_record): what
\* dtls1_read_bytes finds in rrec is a record that was opened.
DecodedOnly == Running /\ at = "start" => \A r \in rrec : r.good

\* Application data that was accepted is eventually consumed, however it was
\* reordered with ChangeCipherSpec and Finished, unless the connection failed
\* or the peer's close_notify overtook its ChangeCipherSpec: it is then marked
\* as number 0, which is that of the Finished, and a peer that has closed sends
\* no other.
AppDataDelivered ==
  \A e \in Epochs \ {0} : \A n \in 0 .. LastSeq[e] :
    (\E r \in app_data \union rrec : r.type = "APP" /\ Id(r) = <<e, n>>)
      ~> \/ handled[<<e, n>>] = 1 \/ err # "none"
         \/ \E r \in sent : r.type = "CLOSE_NOTIFY" /\ Id(r) \in early
=============================================================================
