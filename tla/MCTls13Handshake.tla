-------------------------- MODULE MCTls13Handshake --------------------------
(***************************************************************************)
(* Tls13Handshake for TLC: a base configuration in which everything goes   *)
(* well, all of its variations in versions, groups and ciphers, and all of *)
(* its variations in certificates, verify modes and the server's groups.   *)
(***************************************************************************)
EXTENDS Tls13Handshake

Base == [client_max |-> 13, server_max |-> 13,
         client_groups |-> {"g1", "g2"}, server_groups |-> {"g1", "g2"},
         cipher |-> TRUE, server_cert |-> "good", client_cert |-> "none",
         client_verify |-> "peer", server_verify |-> "none"]

Negotiations ==
  {c \in ConfigSpace :
     [c EXCEPT !.client_max = 13, !.server_max = 13, !.cipher = TRUE,
                  !.client_groups = Groups, !.server_groups = Groups] = Base}

Authentications ==
  {c \in ConfigSpace :
     [c EXCEPT !.server_cert = "good", !.client_cert = "none",
                  !.client_verify = "peer", !.server_verify = "none",
                  !.server_groups = Groups] = Base}

MCConfigs == Negotiations \cup Authentications
=============================================================================
