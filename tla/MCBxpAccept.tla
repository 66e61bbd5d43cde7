----------------------------- MODULE MCBxpAccept -----------------------------
(***************************************************************************)
(* Three clients and every state of the loop. The servers: one built with  *)
(* tls-insecure, one with a certificate only some clients take, one with   *)
(* an RSA certificate the roots vouch for, and two that do not start.      *)
(***************************************************************************)
EXTENDS BxpAccept

Development == [insecure |-> TRUE, cert |-> "unreadable", key |-> "unreadable"]
SelfMade    == [insecure |-> FALSE, cert |-> "unknown_ca", key |-> "p256"]
Production  == [insecure |-> FALSE, cert |-> "trusted", key |-> "rsa"]
NoChain     == [insecure |-> FALSE, cert |-> "empty", key |-> "p256"]
WrongKey    == [insecure |-> FALSE, cert |-> "trusted", key |-> "other"]

MCDeployments == {Development, SelfMade, Production, NoChain, WrongKey}
MCDevelopment == {Development}
MCBuilt       == {Development, Production}
=============================================================================
