# Verification of LibreSSL's protocol code

TLA+ models of the stateful parts of LibreSSL 3.3.3 (`src/libressl`), checked with
TLC on small instances and, where it matters most, proved with TLAPS for every
value of the constants.  The models are written from the C code; every definition
that models code is listed with its lines in `PROJECT.json` (`map`).

## The system

`src/libressl` holds three libraries, some programs and their documentation; the
Rust crate around it (`src/src/lib.rs`) only runs the C build.

| part | code | state | here |
|---|---|---|---|
| TLS 1.3 record layer | `ssl/tls13_record_layer.c`, `tls13_record.c` | keys, sequence numbers, a record that waits for the socket, pending alert and post-handshake message, read buffer | `Tls13RecordLayer` |
| TLS 1.3 post-handshake messages | `ssl/tls13_lib.c` | traffic secrets, message limit | `Tls13RecordLayer` |
| TLS 1.3 API | `ssl/tls13_legacy.c`, `ssl_lib.c` | progress of SSL_write, shutdown flags | `Tls13RecordLayer` |
| TLS 1.3 handshake | `ssl/tls13_handshake.c`, `tls13_client.c`, `tls13_server.c`, `ssl_transcript.c` | stage, message being sent or received, transcript, key stages | `Tls13Handshake` |
| DTLS records | `ssl/d1_pkt.c`, `pqueue.c` | epochs, replay windows, three queues | `DtlsRead`, `DtlsReplay`, `DtlsSatsub` |
| DTLS handshake messages | `ssl/d1_both.c`, `d1_lib.c` | fragments, sent messages, timer | message numbers in `DtlsRead`; the rest planned |
| TLS 1.2 records | `ssl/tls12_record_layer.c`, `ssl_pkt.c` | keys, numbers, pending write | planned |
| legacy handshake | `ssl/ssl_clnt.c`, `ssl_srvr.c`, `ssl_both.c` | handshake state | what DTLS records need in `DtlsRead`, the answer to a ClientHello in `Tls13Handshake` |
| session cache | `ssl/ssl_sess.c` | hash table, list, reference counts | planned |
| version negotiation | `ssl/ssl_versions.c` | none (pure) | planned |
| libtls | `tls/*.c` | state of a context | planned |
| containers | `crypto/lhash`, `crypto/bio/bss_bio.c` | hash table, ring buffer | candidates |
| extensions, ciphers, certificates | `ssl/ssl_tlsext.c`, `ssl_ciph.c`, ... | data formats | not modelled |
| primitives, ASN.1, X.509, programs | `crypto/`, `apps/` | arithmetic, parsers, I/O | not modelled |

An application calls `SSL_read`, `SSL_write`, `SSL_shutdown` or `SSL_do_handshake`
on a connection.  A TLS 1.3 connection goes through `tls13_legacy.c` to the record
layer, which calls back into `tls13_lib.c` for alerts and post-handshake messages;
a DTLS connection goes through `ssl3_read_internal` to `dtls1_read_bytes`, which
calls the handshake of `ssl_srvr.c` and is called by it.  Sockets do not block: any
call may return in the middle with "want read" or "want write" and is repeated.

`PROJECT.json` lists every part with what is modelled of it (`components`) and
what can go wrong in the code that a test would hardly reach (`hazards`).

The models cover a small part of a large code base: the lines listed in `map` are
about 5,400 of the 42,800 lines of C and headers under `ssl/` (13%), and between
1% and 2% of all of `src/`, most of which is `crypto/`.  Nothing here says anything
about the rest, the cryptography in particular: a sealed record or a signature is a
value that only the right key or hash matches.

## DTLS records

`DtlsReplay` is the replay window: `dtls1_record_replay_check`,
`dtls1_record_bitmap_update` and the saturating subtraction they use, on numbers.
A bitmap is the set of its bits; `MapBits` is the size of `unsigned long` and
`Saturation` the 128 of `satsub64be`.

`DtlsSatsub` is `satsub64be` as a little-endian build runs it, on the eight bytes,
with the borrow and the saturation test of each byte.  It has no state: `SatsubRight`
compares it with the subtraction of `DtlsReplay`, and is a theorem.  It holds for the
numbers a record can carry, six bytes with two zero bytes above them.

`DtlsRead` is the receiving side of a server connection.  Its state is that of
`d1_pkt.c` (`r_epoch`, the two bitmaps, the queues `unprocessed`, `processed` and
`app_data`, `rrec`, the flags `ccs_ok` and `ccs`), the stage `hs` of the handshake,
the API call in progress and the position `at` in `dtls1_read_bytes`.  One action is
one pass from a label of `dtls1_read_bytes` or `dtls1_get_record` to the next, so a
call is a sequence of actions that the arrival of records interleaves with:

| action | code |
|---|---|
| `GetRecord` | `dtls1_process_buffered_records` and `dtls1_retrieve_buffered_record` before the socket is read |
| `ReadRecord`, `BufferNextEpoch`, `DumpRecord`, `WouldBlock` | the rest of `dtls1_get_record` |
| `RetrieveAppData`, `BufferAppData`, `ThrowAway` | `dtls1_read_bytes` before it looks at the type |
| `DeliverAppData`, `AppDataInHandshake`, `ReceiveCloseNotify`, `ReceiveCcs` | its branches for the types of record |
| `DispatchUnopened` | the same branches on a record that did not open |
| `ReceiveHandshake`, `UnexpectedHandshake` | handshake records, inside and outside a handshake |
| `SSL_do_handshake`, `SSL_read`, `SSL_renegotiate` | the application |

The network returns any record ever sent, any number of times and in any order, and
may alter protected ones.  The peer is external: a conforming client that
retransmits, resumes sessions and renegotiates.  `received`, `early`, `handled`,
`discarded` and `finished` are history for the properties.

Three behaviours of the code shape the model:

- A record of the next epoch is marked after `dtls1_buffer_record` has cleared `rrec`,
  and its number with it.  So every record that is kept is marked as number 0; only
  one that found the queue full is marked under its own number.  A copy of a kept
  record passes the replay check again: it fails the read if the first copy is still
  in the queue (`dtls_insert_clash`), and is processed a second time if its epoch has
  begun meanwhile.  The record that really has number 0, the first Finished, is
  refused once another was kept, and the peer must retransmit it.  `received` and
  `early` tell the two kinds of marks apart, and the properties say what holds.
- A kept record that does not open stays in `rrec`.  The next record that is read
  overwrites it; if none is, the next `dtls1_read_bytes` dispatches it by the type in
  its header (`dtls_unopened`).  What its bytes say is undefined: the model lets them
  be ignored, fail the call, end the peer's data or start a renegotiation.  It assumes
  that they do not happen to be a message the handshake accepts.  The records behind
  it keep an old epoch label, so `QueueEpochs` speaks of connections on which every
  record opened.
- Message numbers restart with every handshake.  A Finished repeated from the last
  handshake may have the number the next one waits for, or a later one and be kept
  (`fin_kept`); when its turn comes the handshake fails
  (`SSL_R_GOT_A_FIN_BEFORE_A_CCS`, or a message of the wrong type).

The handshake is reduced to the stages that decide what the record layer accepts:
which messages it waits for, when it sets `change_cipher_spec_ok`, when a session is
resumed.  Messages fit into one record; the order of messages within a handshake is
that of `ssl3_accept` without client certificates.

## TLS 1.3 connections

`Tls13RecordLayer` is a connection after its handshake.  The functions of the record
layer call each other and return early at many places, so each is an operator from
a connection (a record with the fields of `struct tls13_record_layer` and of the
context) to the set of its possible results: the connection it leaves, its
`TLS13_IO` code and its length.  `Then` is "return unless it succeeded".  What may
come out differently is the socket: `tls13_record_send` finds room for all of the
record, or not, or fails for good.  That a record went out in part is the same as
that it waits: nothing but the rest of it may follow.

The actions are the steps of the API calls: `SSL_write` and turns of the loop of
`tls13_legacy_write_bytes` (`WriteBytes`), `SSL_read` and turns of the loop of
`tls13_record_layer_read` (`ReadBytes`), the two steps of `SSL_shutdown`
(`ShutdownSend`, `ShutdownRead` with `ReadBytes`), and the peer's sending and
disconnecting.  An application repeats a call that did not finish, or makes another
one first; it stops after an error.  The peer is external and conforming on both
sides: `Receive` is its reading side, which checks key, number and order of what we
send; `PeerSend` its writing side.

Data is counted in units, messages are their types.  Records hold one whole
post-handshake message; malformed records, which a conforming peer does not send,
are left out with the alerts they cause (`rl->alert`), and so is peeking.

## TLS 1.3 handshakes

`Tls13Handshake` is a client and a server of this library that shake hands.  Its
state is the context of each side (`ep`, with the fields of `struct tls13_ctx`, of its
handshake stage and of the record layer a handshake uses), the records on their way
(`in`), the configuration `cfg` and, as history, what each side sent.  One action,
`tls13_handshake_perform(s)`, is one turn of the loop of that function for a side:
it sends or receives one record and, when that completes a message, runs the whole
of `tls13_handshake_send_action` or `tls13_handshake_recv_action` with the handler
of the message.  A call that returns because the socket blocks leaves nothing behind
but the context, and the next call enters the loop again, so calls need no state of
their own.  As in `Tls13RecordLayer` a function is an operator to the set of its
results, and every write may succeed, block or fail.

`handshakes` is the table: the longest row less what the flags leave out, empty where
the code has no row.  A message is named by the state it was sent in; a hash is the
sequence of names hashed, so that two hashes agree exactly when the transcripts do.
A key is its owner, its stage, the group of the key share and the hash it was derived
from; a CertificateVerify and a Finished carry the hash (and key) they were computed
from and are checked against the receiver's.  The transcript keeps the code's two
forms, buffer and running hash, with the freeze that lets the client record a
ServerHello or a HelloRetryRequest where it belongs.

The configuration is chosen at the start: highest versions, groups, a shared cipher or
none, certificates (none, one that verifies, one that does not) and verify modes.
Compatibility mode is always on, as in `tls13_ctx_new`.  Of the legacy stack the answer
to a ClientHello is modelled: a ServerHello whose random is marked when the server
could have done TLS 1.3 (`LegacyServerHello`), or, without a shared cipher, a fatal
alert that is lost when the socket is full (`LegacyRefusal`).  The socket may fail in
either.  The rest of a legacy handshake is not modelled.  An application whose
handshake failed closes the socket.

A fatal alert that blocks when a handler first sends it stays in `alert_data`; the
next call finds `ctx->alert` set, tries to queue it again and fails in
`tls13_record_layer_enqueue_alert`.  The alert is then never sent and the peer sees
only the end of the stream.  The model has this behaviour; `Terminates` and
`FailsForCause` hold with it.

## Runs

| run | instance | shows |
|---|---|---|
| `dtls_two_handshakes` | two handshakes, full or resumed, started by either side, queues of two records, window of 2, records altered | `TypeOK`, `WindowExact`, `Accounted`, `QueueEpochs`, `AppDataAfterFinished`, `NoReplay` |
| `dtls_held_data` | one handshake with fairness | `AppDataDelivered`, and `EarlyCcsDropped` in a first handshake |
| `dtls_early_ccs` | renegotiation | violated: `EarlyCcsDropped` |
| `dtls_insert_clash` | one handshake, nothing altered | violated: `InsertNeverFails` |
| `dtls_unopened` | one handshake, records altered | violated: `DecodedOnly` |
| `tls13_write` | client, four units of data in writes of up to three, records of two, three requests from the peer | `TypeOK`, `PeerAccepts`, `DataAccounted`, `ShutdownTruthful` |
| `tls13_read` | client, three records of any kind except requested key updates, limit of one message, with fairness | `PeerRecordsOpen`, `OwnKeys`, `EofMeansClosed`, `ShutdownCompletes` |
| `tls13_phh_limit` | client, limit of one message | violated: `PhhBounded` |
| `tls13_server_keys` | server | violated: `OwnKeys` |
| `tls13_partial` | client, key update requested | violated: `OnlyDataPartial` |
| `tls13_half_closed` | client, key update requested after our close_notify | violated: `EofMeansClosed` |
| `tls13_handshake` | client and server, all combinations of versions, groups and ciphers, all of certificates and verify modes with and without a retry, certificate messages of two records, with fairness | `TypeOK`, `FailsForCause`, `SameHandshake`, `TranscriptIsRow`, `CcsAfterFirst`, `PeerProven`, `VersionAgreed`, `Terminates` |

The violated properties state what a comment of the code says; `PROJECT.json`
(`findings`) quotes it.  Two deserve a remark.  `buffered_app_data` is keyed by number
without epoch, so data kept in two handshakes without a read between them can clash
as well; the shorter way to `InsertNeverFails` is the one TLC reports.
`AppDataDelivered` excepts a close_notify that was kept early: it is marked as number
0, the Finished with that number is refused, and a peer that has closed sends no other.

### Bounds

- Window and saturation.  With `MapBits = 2` and four numbers in epoch 1 a record can
  be new, inside the window at each position, at its edge and beyond it, and a jump
  can be shorter than, equal to and longer than the window.  `Saturation = 3` is
  above `MapBits`, as 128 is above 64.  `dtls_held_data` has a window of 4, which no
  record leaves: it is about order, not age.
- Epochs.  Two handshakes let both windows change places twice, and let what one
  handshake leaves behind meet the next one.  The first is a resumption (two records);
  the second may be full or resumed, with data before it or retransmissions.
- Queues.  A limit of two lets every queue hold records in order and overflow, one of
  five never fills.
- TLS 1.3.  `MaxSeq = 3` lets the sequence numbers run out.  Writes of three units
  in records of two need two records, with any blocking in between; four units allow
  a second write.  Three records from the peer allow two key updates and a
  close_notify, or a key update with data before and after it.
- Handshakes.  The model needs no bound but `CertificateRecords = 2`, which lets a
  message block between its records.  Two groups are enough for a share that matches,
  a retry and no common group; two versions for each side to be the older one.  The
  combinations are two blocks around a configuration that succeeds, one of
  negotiation and one of authentication, since the two do not share state.
- No symmetry is used.  Runs end where the peer has sent what its bound allows and
  the application has stopped, which is why deadlock is not checked.

### Fairness

`dtls_held_data`: calls proceed (`WF` of the steps of `dtls1_read_bytes`, which run
to a return on their own); the application reads again and again, as the API
requires of it; and a Finished message, which the peer retransmits until it is
answered, is not lost for ever (`SF` of its arrival).  `tls13_read`: the loops inside
a call proceed (`WF`); the application repeats `SSL_shutdown` once it has begun, and
the socket does not stay full for ever (`SF`, as want_write may come between).
`tls13_handshake`: each application repeats its call and a full socket drains or fails
(`WF`; a call that changes nothing does not count as a step), and the legacy stack
answers.

## Proofs

`DtlsReadProofs` proves, for every window size that `satsub64be` can measure, every
number of epochs and records and every queue limit:

- `WindowExactAlways`: `Spec => []WindowExact`, the marks as the code makes them: the
  numbers of the records read or refused by a full queue, and 0 for kept ones.
- `NeverReplayed`: `Spec => NoReplay`: nothing marked under its number is taken again.
- `SatsubCorrect`: for all sequence numbers, `satsub64be` on bytes is the subtraction
  of `DtlsReplay`.

The assumptions are those on the constants in `DtlsReplay` and `DtlsRead`
(`MapBits <= Saturation` is the relation of 64 to 128).  The inductive invariant adds
to `WindowExact` that numbers marked are numbers that exist and that no number is
marked beyond the next epoch: without that the window of the epoch after the next,
which starts empty on a ChangeCipherSpec, would not be exact.  The lemmas on
`DtlsReplay` show that marking a number keeps a bitmap exact in each of its three
cases (a jump within the window, beyond it, a number inside it) and that the check
refuses every number that an exact bitmap has marked; the lemmas on `Marked` say how
the marked numbers of both epochs grow in a step.  The action property needs that only
`ReadRecord`, `BufferNextEpoch`, `DumpRecord` and `WouldBlock` are taken while the
socket is read.  `SatsubCorrect` follows the borrow from byte to byte: each is the
floor of the difference of the numbers cut off below that byte.

`Tls13RecordLayerProofs` proves, for a client, every size of a record and of a
request, every limit and whatever the peer sends:

- `ClientRecordsAccepted`: `Spec => []PeerAccepts`.
- `ClientDataAccounted`: `Spec => []DataAccounted`.

Neither is inductive.  The invariant `Inv` ties three places together: what the peer
has read, the write key and number, and the sealed record that may wait in `wrec`
(`Synced`: a waiting record carries the peer's next number and our own number is one
ahead; otherwise the two are equal), and the data (`Data`: what the peer has read is
what was reported plus `wrec_appdata_len`).  Each function of the record layer gets
one lemma: from a good connection every result leaves a good one, unless the code is
`FAILURE`.  Two functions are in between when they call another: after a KeyUpdate
went out the peer is one generation ahead until the key is changed (`Announced`),
and after an alert went out the write side is not closed yet; `Wrote` says so.  A
failure may leave key and peer out of step, for example when the socket fails between
the KeyUpdate and the new key; then only `Weak` holds, and no call follows.  A
server that answers a key update loses the first property with its keys
(`tls13_server_keys`), and with it the invariant, so both are stated for a client.

Only model-checked: the queue properties, all liveness, the reading side of TLS 1.3
and `ShutdownTruthful`, and the handshake.  Liveness is out of the prover's reach.

## Plan

In this order; each item is a module, its MC module and its runs.

1. `Tls13PostHandshake`: the buffers of `tls13_handshake_msg.c` and
   `tls13_buffer.c` under messages that are split over records or share one.
2. `SessionCache`: `ssl_sess.c` with threads, against an abstract cache.
3. `DtlsHandshake`: `d1_both.c` and the timer, composed with `DtlsRead`'s epochs.
4. `Tls12Record`: `ssl3_read_bytes`, `ssl3_write_bytes`, `ssl3_write_pending` and
   the key changes of `tls12_record_layer.c`.
5. `SslVersions` and other pure functions, against reference definitions.
6. `LibTls`: the state of a context.
7. Proofs of `TranscriptIsRow` and `CcsAfterFirst` for every configuration.
