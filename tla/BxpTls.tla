------------------------------- MODULE BxpTls --------------------------------
(***************************************************************************)
(* What bind() and connect() make of the build and of the files on disk,   *)
(* and which handshakes succeed with it. QUIC is TLS 1.3 only, and both    *)
(* sides speak "bxp/1", so the certificate decides. A certificate is       *)
(* reduced to the kind of its key and to whether the Mozilla roots vouch   *)
(* for it under the name the client asks for.                              *)
(***************************************************************************)

KeyKind == {"rsa", "p256", "p384", "ed25519"}

(***************************************************************************)
(* How a server is started: the feature it was built with, and what is in  *)
(* the files at cert_path and key_path. "other" is a key that belongs to   *)
(* another certificate.                                                    *)
(***************************************************************************)
Deployment == [insecure: BOOLEAN,
               cert: {"unreadable", "malformed", "empty", "unknown_ca", "trusted"},
               key: {"unreadable", "malformed", "none", "other"} \cup KeyKind]

(***************************************************************************)
(* build_server_tls is Ok. With tls-insecure it looks at no file; else     *)
(* both files must be read, hold a chain and a key, and belong together    *)
(* (with_single_cert).                                                     *)
(***************************************************************************)
BuildsServerTls(d) ==
  d.insecure \/ (d.cert \in {"unknown_ca", "trusted"} /\ d.key \in KeyKind)

(***************************************************************************)
(* The certificate it serves: rcgen signs one of its own with a P-256 key. *)
(***************************************************************************)
ServerCert(d) ==
  IF d.insecure
  THEN [trusted |-> FALSE, key |-> "p256"]
  ELSE [trusted |-> d.cert = "trusted", key |-> d.key]

(***************************************************************************)
(* The schemes TLS 1.3 lets a key sign a handshake with.                   *)
(***************************************************************************)
HandshakeSchemes ==
  [rsa     |-> {"RSA_PSS_SHA256", "RSA_PSS_SHA384", "RSA_PSS_SHA512"},
   p256    |-> {"ECDSA_NISTP256_SHA256"},
   p384    |-> {"ECDSA_NISTP384_SHA384"},
   ed25519 |-> {"ED25519"}]

(***************************************************************************)
(* NoCertVerification::supported_verify_schemes.                           *)
(***************************************************************************)
SupportedVerifySchemes == {"RSA_PKCS1_SHA256", "ECDSA_NISTP256_SHA256", "ED25519"}

(***************************************************************************)
(* A client built with tls-insecure takes any certificate, but the server  *)
(* must sign with a scheme its verifier lists; any other client asks the   *)
(* roots, and its verifier lists the schemes of every key above.           *)
(***************************************************************************)
Accepts(insecure, cert) ==
  IF insecure
  THEN HandshakeSchemes[cert.key] \cap SupportedVerifySchemes # {}
  ELSE cert.trusted
=============================================================================
