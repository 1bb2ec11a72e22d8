------------------------- MODULE MCTls13RecordLayer -------------------------
(* Instances of Tls13RecordLayer for TLC: the peer's side is rich where its   *)
(* records are the question and poor where our output is.                     *)
EXTENDS Tls13RecordLayer

Requests == {"KEY_UPDATE_REQUESTED", "CLOSE_NOTIFY"}
NoRequests == {"APP", "TICKET", "KEY_UPDATE", "USER_CANCELED", "CLOSE_NOTIFY", "FATAL"}
Ordinary == {"APP", "KEY_UPDATE_REQUESTED"}
=============================================================================
