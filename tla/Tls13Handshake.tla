--------------------------- MODULE Tls13Handshake ---------------------------
(***************************************************************************)
(* The TLS 1.3 handshake of a client and a server of this library over     *)
(* sockets that may block: the table of handshakes and its driver          *)
(* (tls13_handshake.c), the handlers of both sides (tls13_client.c,        *)
(* tls13_server.c), the transcript, and of the record layer what a         *)
(* handshake uses.                                                         *)
(*                                                                         *)
(* A message is named by the state of the table its sender was in; a hash  *)
(* of a transcript is the sequence of names it was computed from, and a    *)
(* key is named by its owner, its stage and the hash it was derived from.  *)
(* A function that may return early is an operator from an endpoint to the *)
(* set of its results.                                                     *)
(***************************************************************************)
EXTENDS Naturals, Sequences, FiniteSets, Functions

CONSTANTS
  Configs,             \* what client and server are set up for
  CertificateRecords   \* how many records a Certificate message takes

VARIABLES
  cfg,   \* the configuration of this connection
  ep,    \* the two endpoints
  sent   \* per endpoint, the records that went out

vars == <<cfg, ep, sent>>

Roles == {"client", "server"}
PeerOf(s) == IF s = "client" THEN "server" ELSE "client"
Groups == {"g1", "g2"}   \* the client prefers g1
Certs == {"none", "good", "bad"}   \* no certificate, one the peer verifies, one it does not

ConfigSpace ==
  [client_max : {12, 13}, server_max : {12, 13},
   client_groups : {g \in SUBSET Groups : "g1" \in g}, server_groups : SUBSET Groups \ {{}},
   cipher : BOOLEAN, server_cert : Certs, client_cert : Certs,
   client_verify : {"none", "peer"}, server_verify : {"none", "peer", "require"}]

ASSUME HandshakeAssumption ==
  Configs \subseteq ConfigSpace /\ CertificateRecords \in Nat \ {0}
-----------------------------------------------------------------------------
(* The tables of tls13_handshake.c.                                        *)
Flags == {"NEGOTIATED", "WITHOUT_HRR", "WITHOUT_CR", "WITH_CCV"}

AllMessages ==
  <<"CLIENT_HELLO", "SERVER_HELLO_RETRY_REQUEST", "CLIENT_HELLO_RETRY", "SERVER_HELLO",
    "SERVER_ENCRYPTED_EXTENSIONS", "SERVER_CERTIFICATE_REQUEST", "SERVER_CERTIFICATE",
    "SERVER_CERTIFICATE_VERIFY", "SERVER_FINISHED", "CLIENT_CERTIFICATE",
    "CLIENT_CERTIFICATE_VERIFY", "CLIENT_FINISHED", "APPLICATION_DATA">>

\* Rows that the table does not have are empty: their entries are INVALID.
handshakes(hs_type) ==
  LET Listed(m) ==
        /\ "WITHOUT_HRR" \in hs_type =>
             m \notin {"SERVER_HELLO_RETRY_REQUEST", "CLIENT_HELLO_RETRY"}
        /\ "WITHOUT_CR" \in hs_type =>
             m \notin {"SERVER_CERTIFICATE_REQUEST", "CLIENT_CERTIFICATE"}
        /\ "WITH_CCV" \notin hs_type => m # "CLIENT_CERTIFICATE_VERIFY"
  IN  IF hs_type = {} THEN SubSeq(AllMessages, 1, 4)
      ELSE IF "NEGOTIATED" \notin hs_type \/ {"WITHOUT_CR", "WITH_CCV"} \subseteq hs_type
      THEN <<>>
      ELSE SelectSeq(AllMessages, Listed)

Sender(m) ==
  IF m \in {"CLIENT_HELLO", "CLIENT_HELLO_RETRY", "CLIENT_CERTIFICATE",
            "CLIENT_CERTIFICATE_VERIFY", "CLIENT_FINISHED"}
  THEN "client" ELSE "server"

HandshakeType(m) ==
  CASE m \in {"CLIENT_HELLO", "CLIENT_HELLO_RETRY"} -> "CLIENT_HELLO"
    [] m \in {"SERVER_HELLO", "SERVER_HELLO_RETRY_REQUEST", "LEGACY_SERVER_HELLO"} -> "SERVER_HELLO"
    [] m \in {"SERVER_CERTIFICATE", "CLIENT_CERTIFICATE"} -> "CERTIFICATE"
    [] m \in {"SERVER_CERTIFICATE_VERIFY", "CLIENT_CERTIFICATE_VERIFY"} -> "CERTIFICATE_VERIFY"
    [] m \in {"SERVER_FINISHED", "CLIENT_FINISHED"} -> "FINISHED"
    [] OTHER -> m

SendPreserves(m) == m \in {"CLIENT_CERTIFICATE", "SERVER_CERTIFICATE", "SERVER_FINISHED"}
RecvPreserves(m) ==
  m \in {"CLIENT_CERTIFICATE_VERIFY", "CLIENT_FINISHED", "SERVER_CERTIFICATE_VERIFY",
         "SERVER_FINISHED"}

\* tls13_handshake_active_state; message numbers count from one here
tls13_handshake_active_state(e) ==
  LET row == handshakes(e.hs_type) IN
  IF e.message_number \in DOMAIN row THEN row[e.message_number] ELSE "INVALID"
-----------------------------------------------------------------------------
(* State.                                                                  *)
NoMsg == [m |-> "NONE"]
NoHsMsg == [msg |-> NoMsg, n |-> 0]
NoRec == [type |-> "NONE"]
Plain == [owner |-> "none", stage |-> "none", group |-> "none", context |-> <<>>]
Key(owner, stage, group, context) ==
  [owner |-> owner, stage |-> stage, group |-> group, context |-> context]

\* How many records a message takes: a chain may need several, an empty list does not.
Records(msg) ==
  IF HandshakeType(msg.m) = "CERTIFICATE" /\ msg.body.cert # "none" THEN CertificateRecords ELSE 1

NewCtx(role) ==
  [mode |-> role, middlebox_compat |-> TRUE, hs_type |-> {}, message_number |-> 1, hs_msg |-> NoHsMsg,
   send_dummy_ccs |-> FALSE, send_dummy_ccs_after |-> FALSE,
   alert |-> FALSE, alert_data |-> FALSE, wrec |-> NoRec,
   ccs_allowed |-> FALSE, ccs_seen |-> 0, ccs_sent |-> FALSE,
   read_closed |-> FALSE, write_closed |-> FALSE,
   read |-> [key |-> Plain, seq |-> 0], write |-> [key |-> Plain, seq |-> 0],
   handshake_transcript |-> <<>>, buffering |-> TRUE, frozen |-> FALSE,
   handshake_hash |-> <<>>, hashing |-> FALSE, transcript_hash |-> <<>>,
   hrr |-> FALSE, key_share |-> IF role = "client" THEN "g1" ELSE "none",
   server_group |-> "none", session_id |-> FALSE, clienthello |-> [max |-> 0, session_id |-> FALSE],
   peer |-> "none", secrets |-> <<>>, legacy |-> FALSE,
   rbuf |-> NoMsg, in |-> <<>>, out |-> <<>>, state |-> "running", why |-> "none"]

Init ==
  /\ cfg \in Configs
  /\ ep = [s \in Roles |->
             [NewCtx(s) EXCEPT !.session_id = /\ s = "client" /\ NewCtx(s).middlebox_compat
                                                /\ cfg.client_max >= 13]]
  /\ sent = [s \in Roles |-> <<>>]

Result(e, ret) == {[e |-> e, ret |-> ret]}
Success(e) == Result(e, "SUCCESS")
Broken(e, why) == Result([e EXCEPT !.why = IF @ = "none" THEN why ELSE @], "FAILURE")
\* ctx->alert is set and the handler returns 0.
Refuse(e, why) == Broken([e EXCEPT !.alert = TRUE], why)
Then(results, Op(_)) ==
  UNION {IF r.ret = "SUCCESS" THEN Op(r.e) ELSE {r} : r \in results}
-----------------------------------------------------------------------------
(* The transcript (ssl_transcript.c).                                      *)
tls1_transcript_hash_init(e) ==
  [e EXCEPT !.hashing = TRUE, !.handshake_hash = e.handshake_transcript]

tls1_transcript_record(e, entry) ==
  [e EXCEPT !.handshake_hash = IF e.hashing THEN @ \o entry ELSE @,
            !.handshake_transcript = IF e.buffering /\ ~e.frozen THEN @ \o entry ELSE @]

\* Mutant: the ClientHello stays in the transcript.
Mut_tls13_synthetic_handshake_message(e) ==
  LET h == tls1_transcript_hash_init(e) IN
  tls1_transcript_record([h EXCEPT !.frozen = FALSE], <<"MESSAGE_HASH">> \o h.handshake_hash)

\* The running hash is not restarted here, only the buffer is.
tls13_synthetic_handshake_message(e) ==
  LET h == tls1_transcript_hash_init(e) IN
  tls1_transcript_record([h EXCEPT !.handshake_transcript = <<>>, !.frozen = FALSE],
                         <<"MESSAGE_HASH">> \o h.handshake_hash)

(* Keys.                                                                   *)
SetReadKey(e, stage, context) ==
  [e EXCEPT !.read = [key |-> Key(PeerOf(e.mode), stage, e.key_share, context), seq |-> 0]]

SetWriteKey(e, stage, context) ==
  [e EXCEPT !.write = [key |-> Key(e.mode, stage, e.key_share, context), seq |-> 0]]

tls13_client_engage_record_protection(e) ==
  LET h == [tls1_transcript_hash_init(e) EXCEPT !.buffering = FALSE, !.handshake_transcript = <<>>]
  IN  SetWriteKey(SetReadKey(h, "handshake", h.handshake_hash), "handshake", h.handshake_hash)
-----------------------------------------------------------------------------
(* What a handshake uses of the record layer. The socket takes a record,   *)
(* is full, or has failed.                                                 *)
tls13_record_send(e) ==
  Success([e EXCEPT !.wrec = NoRec, !.out = Append(@, e.wrec)])
    \cup Result(e, "WANT_POLLOUT") \cup Broken(e, "socket")

\* A ChangeCipherSpec goes out in plaintext whatever the keys are.
tls13_record_layer_seal_record(e, type, msg) ==
  LET plain == type = "CCS" \/ e.write.key = Plain IN
  [e EXCEPT !.wrec = [type |-> type, msg |-> msg,
                      key |-> IF plain THEN Plain ELSE e.write.key,
                      seq |-> IF plain THEN 0 ELSE e.write.seq],
            !.write.seq = IF plain THEN @ ELSE @ + 1]

tls13_record_layer_write_record(e, type, msg) ==
  IF e.write_closed THEN Result(e, "EOF")
  ELSE IF e.wrec.type # "NONE"
  THEN LET Pushed(d) == IF e.wrec.type = type THEN Success(d) ELSE Broken(d, "partial")
       IN  Then(tls13_record_send(e), Pushed)
  ELSE tls13_record_send(tls13_record_layer_seal_record(e, type, msg))

tls13_record_layer_send_alert(e) ==
  LET Sent(d) ==
        Result([d EXCEPT !.alert_data = FALSE, !.read_closed = TRUE, !.write_closed = TRUE], "ALERT")
  IN  {IF r.ret = "EOF" THEN [r EXCEPT !.ret = "ALERT"] ELSE r :
         r \in Then(tls13_record_layer_write_record(e, "ALERT", NoMsg), Sent)}

tls13_record_layer_send_pending(e) ==
  IF e.alert_data THEN tls13_record_layer_send_alert(e) ELSE Success(e)

tls13_record_layer_enqueue_alert(e) ==
  IF e.alert_data THEN Broken(e, "alert")
  ELSE tls13_record_layer_send_pending([e EXCEPT !.alert_data = TRUE])

tls13_send_alert(e) == tls13_record_layer_enqueue_alert(e)

Unexpected(e, why) == tls13_send_alert([e EXCEPT !.why = why])

tls13_record_layer_write(e, type, msg) ==
  LET Write(d) == tls13_record_layer_write_record(d, type, msg)
  IN  Then(tls13_record_layer_send_pending(e), Write)

tls13_send_dummy_ccs(e) ==
  LET Sent(d) == Success([d EXCEPT !.ccs_sent = TRUE])
  IN  IF e.ccs_sent THEN Broken(e, "ccs")
      ELSE Then(tls13_record_layer_write(e, "CCS", NoMsg), Sent)

\* fin: the peer has closed. A handshake record is left in rbuf.
tls13_record_layer_read_record(e, fin) ==
  IF e.in = <<>> THEN Result(e, IF fin THEN "EOF" ELSE "WANT_POLLIN")
  ELSE LET rec == Head(e.in)
           d == [e EXCEPT !.in = Tail(@)]
       IN  IF rec.type = "CCS"
           THEN IF ~d.ccs_allowed \/ d.ccs_seen >= 2 THEN Unexpected(d, "ccs")
                ELSE Result([d EXCEPT !.ccs_seen = @ + 1], "WANT_RETRY")
           ELSE IF d.read.key # Plain /\ rec.key = Plain THEN Unexpected(d, "plaintext")
           ELSE IF d.read.key = Plain /\ rec.key # Plain THEN Unexpected(d, "open")
           ELSE IF rec.key # d.read.key \/ rec.seq # d.read.seq THEN Broken(d, "open")
           ELSE LET o == [d EXCEPT !.read.seq = IF rec.key = Plain THEN @ ELSE @ + 1] IN
                IF rec.type = "ALERT"
                THEN Result([o EXCEPT !.read_closed = TRUE, !.write_closed = TRUE, !.why = "peer"],
                            "ALERT")
                ELSE Success([o EXCEPT !.rbuf = rec.msg])

tls13_record_layer_read(e, fin) ==
  LET Read(d) == IF d.read_closed THEN Result(d, "EOF")
                 ELSE tls13_record_layer_read_record(d, fin)
  IN  Then(tls13_record_layer_send_pending(e), Read)
-----------------------------------------------------------------------------
(* The handlers of the client (tls13_client.c).                            *)
Message(e, m, body) ==
  LET msg == [m |-> m, body |-> body] IN
  Success([e EXCEPT !.hs_msg = [msg |-> msg, n |-> Records(msg)]])

tls13_client_hello_build(e, m) ==
  Message(e, m, [max |-> cfg.client_max, session_id |-> e.session_id, group |-> e.key_share])

\* Mutant: the transcript is not frozen.
Mut_tls13_client_hello_sent(e) ==
  [e EXCEPT !.ccs_allowed = TRUE, !.send_dummy_ccs = @ \/ e.middlebox_compat]

tls13_client_hello_sent(e) ==
  [e EXCEPT !.ccs_allowed = TRUE, !.frozen = TRUE, !.send_dummy_ccs = @ \/ e.middlebox_compat]

tls13_client_hello_retry_send(e) ==
  IF e.server_group \notin cfg.client_groups \/ e.server_group = e.key_share
  THEN Broken(e, "retry_group")
  ELSE tls13_client_hello_build([e EXCEPT !.key_share = e.server_group], "CLIENT_HELLO_RETRY")

tls13_server_hello_process(e, msg) ==
  LET b == msg.body
      d == [e EXCEPT !.hrr = @ \/ b.retry,
                     !.server_group = IF b.retry THEN b.group ELSE @]
  IN  IF b.legacy
      THEN IF cfg.client_max >= 13 /\ b.sentinel THEN Refuse(e, "downgrade") ELSE Success(e)
      ELSE IF ~b.retry /\ b.group # e.key_share THEN Refuse(d, "share")
      ELSE IF b.session_id # e.session_id THEN Refuse(d, "session")
      ELSE Success(d)

tls13_server_hello_recv(e, msg) ==
  LET without == "WITHOUT_HRR" \in e.hs_type
      Processed(d) ==
        LET f == IF without THEN tls1_transcript_record([d EXCEPT !.frozen = FALSE], <<msg.m>>)
                 ELSE d
        IN  IF msg.body.legacy
            THEN IF without THEN Success([f EXCEPT !.legacy = TRUE]) ELSE Broken(f, "legacy")
            ELSE IF f.hrr THEN Refuse(f, "retry")
            ELSE Success([tls13_client_engage_record_protection(f)
                           EXCEPT !.hs_type = @ \cup {"NEGOTIATED"}])
  IN  Then(tls13_server_hello_process(e, msg), Processed)

tls13_server_hello_retry_request_recv(e, msg) ==
  LET Processed(d) ==
        Success([tls1_transcript_record(tls13_synthetic_handshake_message(d), <<msg.m>>)
                   EXCEPT !.hrr = FALSE])
  IN  IF ~msg.body.retry
      THEN tls13_server_hello_recv([e EXCEPT !.hs_type = @ \cup {"WITHOUT_HRR"}], msg)
      ELSE Then(tls13_server_hello_process(e, msg), Processed)

tls13_server_certificate_recv(e, msg) ==
  LET cert == msg.body.cert IN
  IF cert = "none" THEN Refuse(e, "no_certificate")
  ELSE IF cert = "bad" /\ cfg.client_verify # "none" THEN Refuse(e, "bad_certificate")
  ELSE Success([e EXCEPT !.peer = cert])

\* A Certificate may come where a CertificateRequest is expected.
tls13_server_certificate_request_recv(e, msg) ==
  IF HandshakeType(msg.m) = "CERTIFICATE"
  THEN tls13_server_certificate_recv([e EXCEPT !.hs_type = @ \cup {"WITHOUT_CR"}], msg)
  ELSE Success(e)

\* Mutant: the secrets come from the hash that was kept to check the Finished.
Mut_tls13_server_finished_recv(e, msg) ==
  IF msg.body # [key |-> e.read.key, hash |-> e.transcript_hash] THEN Refuse(e, "verify")
  ELSE Success(SetReadKey([e EXCEPT !.secrets = e.transcript_hash, !.ccs_allowed = FALSE],
                          "application", e.transcript_hash))

tls13_server_finished_recv(e, msg) ==
  IF msg.body # [key |-> e.read.key, hash |-> e.transcript_hash] THEN Refuse(e, "verify")
  ELSE Success(SetReadKey([e EXCEPT !.secrets = e.handshake_hash, !.ccs_allowed = FALSE],
                          "application", e.handshake_hash))

tls13_client_certificate_send(e) ==
  Message([e EXCEPT !.hs_type = IF cfg.client_cert = "none" THEN @ ELSE @ \cup {"WITH_CCV"}],
          "CLIENT_CERTIFICATE", [cert |-> cfg.client_cert])

tls13_client_finished_sent(e) == SetWriteKey(e, "application", e.secrets)

(* Both sides sign, and check, what was hashed before the message itself.  *)
tls13_client_certificate_verify_send(e) ==
  Message(e, "CLIENT_CERTIFICATE_VERIFY", [by |-> "client", hash |-> e.transcript_hash])

tls13_server_certificate_verify_recv(e, msg) ==
  IF e.peer = "none" \/ msg.body # [by |-> "server", hash |-> e.transcript_hash]
  THEN Refuse(e, "verify") ELSE Success(e)

tls13_client_finished_send(e) ==
  Message(e, "CLIENT_FINISHED", [key |-> e.write.key, hash |-> e.handshake_hash])
-----------------------------------------------------------------------------
(* The handlers of the server (tls13_server.c).                            *)
\* Mutant: only the server's own version decides.
Mut_tls13_client_hello_process(e, msg) ==
  LET b == msg.body
      d == [e EXCEPT !.key_share = IF @ = "none" /\ b.group \in cfg.server_groups THEN b.group ELSE @]
  IN  IF cfg.server_max < 13 THEN Success([e EXCEPT !.legacy = TRUE])
      ELSE IF ~cfg.cipher THEN Refuse(d, "cipher")
      ELSE Success([d EXCEPT !.session_id = b.session_id])

tls13_client_hello_process(e, msg) ==
  LET b == msg.body
      hello == [max |-> b.max, session_id |-> b.session_id]
      d == [e EXCEPT !.key_share = IF @ = "none" /\ b.group \in cfg.server_groups THEN b.group ELSE @]
  IN  IF b.max < 13 \/ cfg.server_max < 13 THEN Success([e EXCEPT !.legacy = TRUE])
      ELSE IF e.hrr /\ e.clienthello # hello THEN Refuse(d, "hello")
      ELSE IF ~cfg.cipher THEN Refuse(d, "cipher")
      ELSE Success([d EXCEPT !.clienthello = hello, !.session_id = b.session_id])

tls13_client_hello_recv(e, msg) ==
  LET Processed(d) ==
        Success(IF d.legacy THEN d
                ELSE [d EXCEPT !.ccs_allowed = TRUE,
                               !.hs_type = IF d.key_share = "none" THEN @
                                           ELSE @ \cup {"NEGOTIATED", "WITHOUT_HRR"}])
  IN  Then(tls13_client_hello_process(e, msg), Processed)

tls13_client_hello_retry_recv(e, msg) ==
  LET Processed(d) == IF d.legacy THEN Broken(d, "legacy") ELSE Success([d EXCEPT !.hrr = FALSE])
  IN  Then(tls13_client_hello_process(e, msg), Processed)

tls13_server_hello_build(e, m, retry, group) ==
  Message(e, m, [retry |-> retry, legacy |-> FALSE, sentinel |-> FALSE,
                 session_id |-> e.session_id, group |-> group])

tls13_server_hello_retry_request_send(e) ==
  LET d == tls13_synthetic_handshake_message([e EXCEPT !.hrr = TRUE])
      shared == cfg.client_groups \cap cfg.server_groups   \* tls1_get_shared_curve
  IN  IF e.key_share # "none" THEN Broken(d, "share")
      ELSE IF shared = {} THEN Broken(d, "group")
      ELSE UNION {tls13_server_hello_build([d EXCEPT !.server_group = g],
                                           "SERVER_HELLO_RETRY_REQUEST", TRUE, g) : g \in shared}

tls13_server_hello_retry_request_sent(e) == [e EXCEPT !.send_dummy_ccs_after = @ \/ e.session_id]

tls13_server_hello_send(e) ==
  IF e.key_share = "none" THEN Broken(e, "share")
  ELSE tls13_server_hello_build([e EXCEPT !.server_group = "none"], "SERVER_HELLO", FALSE, e.key_share)

\* As on the client, and the row of the table is settled.
tls13_server_engage_record_protection(e) ==
  [tls13_client_engage_record_protection(e)
     EXCEPT !.hs_type = @ \cup {"NEGOTIATED"}
                          \cup (IF cfg.server_verify = "none" THEN {"WITHOUT_CR"} ELSE {})]

tls13_server_hello_sent(e) ==
  tls13_server_engage_record_protection(
    [e EXCEPT !.send_dummy_ccs_after = @ \/ ("WITHOUT_HRR" \in e.hs_type /\ e.session_id)])

tls13_server_certificate_send(e) ==
  IF cfg.server_cert = "none" THEN Refuse(e, "no_certificate")
  ELSE Message(e, "SERVER_CERTIFICATE", [cert |-> cfg.server_cert])

tls13_server_certificate_verify_send(e) ==
  Message(e, "SERVER_CERTIFICATE_VERIFY", [by |-> "server", hash |-> e.transcript_hash])

tls13_server_finished_send(e) ==
  Message(e, "SERVER_FINISHED", [key |-> e.write.key, hash |-> e.handshake_hash])

tls13_server_finished_sent(e) ==
  SetWriteKey([e EXCEPT !.secrets = e.transcript_hash], "application", e.transcript_hash)

\* Mutant: an empty list is accepted whatever the verify mode.
Mut_tls13_client_certificate_recv(e, msg) ==
  LET cert == msg.body.cert IN
  IF cert = "none" THEN Success(e)
  ELSE IF cert = "bad" THEN Refuse(e, "bad_certificate")
  ELSE Success([e EXCEPT !.peer = cert, !.hs_type = @ \cup {"WITH_CCV"}])

tls13_client_certificate_recv(e, msg) ==
  LET cert == msg.body.cert IN
  IF cert = "none"
  THEN IF cfg.server_verify = "require" THEN Refuse(e, "certificate_required") ELSE Success(e)
  ELSE IF cert = "bad" THEN Refuse(e, "bad_certificate")
  ELSE Success([e EXCEPT !.peer = cert, !.hs_type = @ \cup {"WITH_CCV"}])

tls13_client_certificate_verify_recv(e, msg) ==
  IF e.peer = "none" \/ msg.body # [by |-> "client", hash |-> e.transcript_hash]
  THEN Refuse(e, "verify") ELSE Success(e)

tls13_client_finished_recv(e, msg) ==
  IF msg.body # [key |-> e.read.key, hash |-> e.transcript_hash] THEN Refuse(e, "verify")
  ELSE Success(SetReadKey([e EXCEPT !.ccs_allowed = FALSE], "application", e.secrets))
-----------------------------------------------------------------------------
(* The driver (tls13_handshake.c): which handler a state has, ...          *)
SendHandler(e, m) ==
  CASE m = "CLIENT_HELLO" -> tls13_client_hello_build(e, m)
    [] m = "CLIENT_HELLO_RETRY" -> tls13_client_hello_retry_send(e)
    [] m = "SERVER_HELLO_RETRY_REQUEST" -> tls13_server_hello_retry_request_send(e)
    [] m = "SERVER_HELLO" -> tls13_server_hello_send(e)
    [] m = "SERVER_CERTIFICATE" -> tls13_server_certificate_send(e)
    [] m = "CLIENT_CERTIFICATE" -> tls13_client_certificate_send(e)
    [] m = "SERVER_CERTIFICATE_VERIFY" -> tls13_server_certificate_verify_send(e)
    [] m = "CLIENT_CERTIFICATE_VERIFY" -> tls13_client_certificate_verify_send(e)
    [] m = "SERVER_FINISHED" -> tls13_server_finished_send(e)
    [] m = "CLIENT_FINISHED" -> tls13_client_finished_send(e)
    [] OTHER -> Message(e, m, NoMsg)   \* EncryptedExtensions, CertificateRequest

SentHandler(e, m) ==
  CASE m = "CLIENT_HELLO" -> tls13_client_hello_sent(e)
    [] m = "SERVER_HELLO_RETRY_REQUEST" -> tls13_server_hello_retry_request_sent(e)
    [] m = "SERVER_HELLO" -> tls13_server_hello_sent(e)
    [] m = "SERVER_FINISHED" -> tls13_server_finished_sent(e)
    [] m = "CLIENT_FINISHED" -> tls13_client_finished_sent(e)
    [] OTHER -> e

RecvHandler(e, m, msg) ==
  CASE m = "CLIENT_HELLO" -> tls13_client_hello_recv(e, msg)
    [] m = "CLIENT_HELLO_RETRY" -> tls13_client_hello_retry_recv(e, msg)
    [] m = "SERVER_HELLO_RETRY_REQUEST" -> tls13_server_hello_retry_request_recv(e, msg)
    [] m = "SERVER_HELLO" -> tls13_server_hello_recv(e, msg)
    [] m = "SERVER_CERTIFICATE_REQUEST" -> tls13_server_certificate_request_recv(e, msg)
    [] m = "SERVER_CERTIFICATE" -> tls13_server_certificate_recv(e, msg)
    [] m = "CLIENT_CERTIFICATE" -> tls13_client_certificate_recv(e, msg)
    [] m = "SERVER_CERTIFICATE_VERIFY" -> tls13_server_certificate_verify_recv(e, msg)
    [] m = "CLIENT_CERTIFICATE_VERIFY" -> tls13_client_certificate_verify_recv(e, msg)
    [] m = "SERVER_FINISHED" -> tls13_server_finished_recv(e, msg)
    [] m = "CLIENT_FINISHED" -> tls13_client_finished_recv(e, msg)
    [] OTHER -> Success(e)             \* EncryptedExtensions

(* ... how a message is sent, a record at a time ...                       *)
MessageSent(e, m) ==
  LET rec == tls1_transcript_record(e, <<e.hs_msg.msg.m>>)
      kept == IF SendPreserves(m) THEN [rec EXCEPT !.transcript_hash = rec.handshake_hash] ELSE rec
      d == SentHandler([kept EXCEPT !.hs_msg = NoHsMsg], m)
      After(f) == Success([f EXCEPT !.send_dummy_ccs = FALSE, !.send_dummy_ccs_after = FALSE])
  IN  IF d.send_dummy_ccs_after
      THEN Then(tls13_send_dummy_ccs([d EXCEPT !.send_dummy_ccs = TRUE]), After)
      ELSE Success(d)

\* Mutant: one write too many.
Mut_tls13_handshake_msg_send(e, m) ==
  LET Written(d) == IF d.hs_msg.n >= 1 THEN Result([d EXCEPT !.hs_msg.n = @ - 1], "MORE")
                    ELSE MessageSent(d, m)
  IN  Then(tls13_record_layer_write(e, "HANDSHAKE", e.hs_msg.msg), Written)

tls13_handshake_msg_send(e, m) ==
  LET Written(d) == IF d.hs_msg.n > 1 THEN Result([d EXCEPT !.hs_msg.n = @ - 1], "MORE")
                    ELSE MessageSent(d, m)
  IN  Then(tls13_record_layer_write(e, "HANDSHAKE", e.hs_msg.msg), Written)

\* Mutant: a ChangeCipherSpec that is due is forgotten.
Mut_tls13_handshake_send_action(e, m) ==
  LET Send(d) == tls13_handshake_msg_send(d, m)
  IN  IF e.hs_msg = NoHsMsg THEN Then(SendHandler(e, m), Send) ELSE Send(e)

tls13_handshake_send_action(e, m) ==
  LET Send(d) == tls13_handshake_msg_send(d, m)
      Built(d) == IF d.hs_msg = NoHsMsg THEN Then(SendHandler(d, m), Send) ELSE Send(d)
      CcsSent(d) ==
        IF d.send_dummy_ccs_after
        THEN Success([d EXCEPT !.send_dummy_ccs = FALSE, !.send_dummy_ccs_after = FALSE])
        ELSE Built([d EXCEPT !.send_dummy_ccs = FALSE])
  IN  IF e.send_dummy_ccs THEN Then(tls13_send_dummy_ccs(e), CcsSent) ELSE Built(e)

(* ... how one is received ...                                             *)
MessageReceived(e, m, msg) ==
  LET kept == IF RecvPreserves(m) THEN [e EXCEPT !.transcript_hash = e.handshake_hash] ELSE e
      d == tls1_transcript_record(kept, <<msg.m>>)
      type == HandshakeType(msg.m)
      Freed(r) == [r EXCEPT !.e.hs_msg = NoHsMsg, !.ret = IF r.e.legacy THEN "USE_LEGACY" ELSE @]
  IN  IF /\ type # HandshakeType(m)
         /\ type # "CERTIFICATE" \/ m # "SERVER_CERTIFICATE_REQUEST"
      THEN Unexpected(d, "message")
      ELSE {Freed(r) : r \in RecvHandler(d, m, msg)}

\* Mutant: one record too many is waited for.
Mut_tls13_handshake_msg_recv(e, m, msg) ==
  LET n == e.hs_msg.n + 1 IN
  IF n <= Records(msg) THEN Result([e EXCEPT !.hs_msg = [msg |-> msg, n |-> n]], "MORE")
  ELSE MessageReceived(e, m, msg)

tls13_handshake_msg_recv(e, m, msg) ==
  LET n == e.hs_msg.n + 1 IN
  IF n < Records(msg) THEN Result([e EXCEPT !.hs_msg = [msg |-> msg, n |-> n]], "MORE")
  ELSE MessageReceived(e, m, msg)

tls13_handshake_recv_action(e, m, fin) ==
  LET Got(d) == tls13_handshake_msg_recv([d EXCEPT !.rbuf = NoMsg], m, d.rbuf)
  IN  Then(tls13_record_layer_read(e, fin), Got)

(* ... and one turn of the loop of tls13_handshake_perform. A record that   *)
(* is only a part of a message ("MORE"), or that is skipped, leaves the     *)
(* state of the table alone, as a call that has to wait does.               *)
Turn(e, fin) ==
  LET m == tls13_handshake_active_state(e)
      Alerted(r) == IF r.e.alert THEN tls13_send_alert(r.e) ELSE {r}
  IN  IF m = "INVALID" THEN Broken(e, "table")
      ELSE IF m = "APPLICATION_DATA" THEN Result(e, "COMPLETED")
      ELSE IF e.alert THEN tls13_send_alert(e)
      ELSE UNION {Alerted(r) : r \in IF Sender(m) = e.mode THEN tls13_handshake_send_action(e, m)
                                     ELSE tls13_handshake_recv_action(e, m, fin)}

Settle(r) ==
  LET e == [r.e EXCEPT !.out = <<>>] IN
  CASE r.ret = "SUCCESS" -> [e EXCEPT !.message_number = @ + 1]
    [] r.ret = "COMPLETED" -> [e EXCEPT !.state = "done"]
    [] r.ret = "USE_LEGACY" -> [e EXCEPT !.state = "legacy"]
    [] r.ret \in {"FAILURE", "ALERT", "EOF"} ->
         [e EXCEPT !.state = "failed", !.why = IF @ = "none" THEN "eof" ELSE @]
    [] OTHER -> e

\* The application calls SSL_connect or SSL_accept again until it is done, and closes
\* the socket of a handshake that failed.
tls13_handshake_perform(s) ==
  /\ ep[s].state = "running"
  /\ \E r \in Turn(ep[s], ep[PeerOf(s)].state = "failed") :
       /\ ep' = [ep EXCEPT ![s] = Settle(r), ![PeerOf(s)].in = @ \o r.e.out]
       /\ sent' = [sent EXCEPT ![s] = @ \o [i \in DOMAIN r.e.out |->
                     IF r.e.out[i].type = "HANDSHAKE" THEN r.e.out[i].msg.m ELSE r.e.out[i].type]]
  /\ UNCHANGED cfg

(* The legacy stack with the ClientHello it was handed (ssl_srvr.c), up to  *)
(* the end of its first message.                                           *)
LegacySends(recs, state, why) ==
  /\ ep["server"].state = "legacy" /\ sent["server"] = <<>>
  /\ ep' = [ep EXCEPT !["client"].in = @ \o recs,
                      !["server"].state = state, !["server"].why = why]
  /\ sent' = [sent EXCEPT !["server"] = [i \in DOMAIN recs |->
                IF recs[i].type = "HANDSHAKE" THEN recs[i].msg.m ELSE recs[i].type]]
  /\ UNCHANGED cfg

\* ssl3_send_server_hello, the random marked by ssl3_get_client_hello when the
\* server could have done TLS 1.3; the socket takes it, in the end, or fails.
LegacyServerHello ==
  LET body == [retry |-> FALSE, legacy |-> TRUE, sentinel |-> cfg.server_max >= 13]
      rec == [type |-> "HANDSHAKE", key |-> Plain, seq |-> 0,
              msg |-> [m |-> "LEGACY_SERVER_HELLO", body |-> body]]
  IN  /\ cfg.cipher
      /\ LegacySends(<<rec>>, "legacy", "none") \/ LegacySends(<<>>, "failed", "socket")

\* ssl3_get_client_hello fails (SSL_R_NO_SHARED_CIPHER). Its alert is written at
\* once or, when the socket is full, never: no other call follows.
LegacyRefusal ==
  LET rec == [type |-> "ALERT", key |-> Plain, seq |-> 0, msg |-> NoMsg]
  IN  /\ ~cfg.cipher
      /\ LegacySends(<<rec>>, "failed", "cipher") \/ LegacySends(<<>>, "failed", "cipher")

Next == LegacyServerHello \/ LegacyRefusal \/ \E s \in Roles : tls13_handshake_perform(s)

\* An application keeps calling, and a socket that is full drains or fails in the end.
Fairness == /\ WF_vars(LegacyServerHello \/ LegacyRefusal)
            /\ \A s \in Roles : WF_vars(tls13_handshake_perform(s))

Spec == Init /\ [][Next]_vars /\ Fairness
-----------------------------------------------------------------------------
(* Properties.                                                             *)
Count(x, seq) == Cardinality({i \in DOMAIN seq : seq[i] = x})
Done(s) == ep[s].state = "done"

\* The type invariant of the driver's state: a message in progress always has
\* a record to go, the counters stay in their bounds, and an endpoint that
\* runs has no failure on record unless its alert is waiting for the socket.
TypeOK ==
  \A s \in Roles : LET e == ep[s] IN
    /\ e.mode = s /\ e.hs_type \subseteq Flags
    /\ e.message_number \in 1 .. Len(AllMessages)
    /\ e.hs_msg # NoHsMsg => e.hs_msg.n \in 1 .. CertificateRecords
    /\ e.ccs_seen \in 0 .. 2 /\ e.read.seq \in Nat /\ e.write.seq \in Nat
    /\ e.state \in {"running", "done", "failed", "legacy"} /\ e.out = <<>>
    /\ e.why # "none" => e.state = "failed" \/ (e.state = "running" /\ e.alert_data)

\* A client and a server of this library fail a handshake only for a reason
\* outside the protocol code: the socket, the configuration that makes the
\* reason true, or the failure of the other side. In particular neither meets
\* an INVALID entry of the table, a record it cannot open, a message or a
\* ChangeCipherSpec it does not expect, or a Finished or CertificateVerify
\* computed over another transcript, wherever the writes block.
FailsForCause ==
  \A s \in Roles : LET why == ep[s].why IN
    \/ why \in {"none", "socket"}
    \/ why \in {"eof", "peer"} /\ ep[PeerOf(s)].state = "failed"
    \/ s = "server" /\ why = "cipher" /\ ~cfg.cipher
    \/ s = "server" /\ why = "group" /\ cfg.client_groups \cap cfg.server_groups = {}
    \/ s = "server" /\ why = "no_certificate" /\ cfg.server_cert = "none"
    \/ s = "server" /\ why = "certificate_required"
         /\ cfg.server_verify = "require" /\ cfg.client_cert = "none"
    \/ why = "bad_certificate" /\ (IF s = "client" THEN cfg.server_cert ELSE cfg.client_cert) = "bad"

\* When both sides have completed they walked the same row of the table, hold
\* the same secrets, and each reads with the key the other writes with, from
\* the first record of it.
SameHandshake ==
  (\A s \in Roles : Done(s)) =>
    /\ ep["client"].hs_type = ep["server"].hs_type
    /\ ep["client"].secrets = ep["server"].secrets
    /\ \A s \in Roles : /\ ep[s].read = ep[PeerOf(s)].write
                        /\ ep[s].read.key.stage = "application"

\* A side that has completed has hashed every message of its row once and in
\* order, with the first ClientHello replaced by its hash after a
\* HelloRetryRequest: nothing recorded twice (the client sees a ServerHello in
\* two places), nothing lost to the freeze of the transcript.
TranscriptIsRow ==
  \A s \in Roles : Done(s) =>
    LET row == handshakes(ep[s].hs_type)
        body == SubSeq(row, 1, Len(row) - 1)
    IN  ep[s].handshake_hash =
          IF "WITHOUT_HRR" \in ep[s].hs_type THEN body ELSE <<"MESSAGE_HASH">> \o body

\* A ChangeCipherSpec is sent once at most and directly after the first message
\* of a side ("we MUST send a dummy CCS following our first handshake message"):
\* by a client that offers TLS 1.3 and a server that answers it, unless an alert
\* ends the handshake there, whichever of the two places of the driver sends it
\* and wherever it blocks.
CcsAfterFirst ==
  \A s \in Roles :
    /\ Count("CCS", sent[s]) <= 1
    /\ cfg.client_max >= 13 /\ Len(sent[s]) >= 2 => sent[s][2] \in {"CCS", "ALERT"}

\* A completed client has checked a CertificateVerify of the server; a completed
\* server that requires a certificate has checked one of the client.
PeerProven ==
  /\ Done("client") => "SERVER_CERTIFICATE_VERIFY" \in Range(ep["client"].handshake_hash)
  /\ Done("server") /\ cfg.server_verify = "require" =>
       /\ ep["server"].peer = "good"
       /\ "CLIENT_CERTIFICATE_VERIFY" \in Range(ep["server"].handshake_hash)

\* TLS 1.3 is used exactly when both sides can do it: a side completes here
\* only then, and is handed to the legacy stack only otherwise.
VersionAgreed ==
  \A s \in Roles :
    LET both == cfg.client_max >= 13 /\ cfg.server_max >= 13 IN
    /\ Done(s) => both
    /\ ep[s].state = "legacy" => ~both

\* Neither side waits for ever: each completes, fails or is handed on, although
\* any write may block and the alert that explains a failure may be lost.
Terminates == \A s \in Roles : <>(ep[s].state # "running")
=============================================================================
