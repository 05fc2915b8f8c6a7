----------------------------- MODULE MCSession -----------------------------
(* One session in detail; others compete with it for the one handshake token. *)
EXTENDS Session

AllModes == {"dtls", "direct", "raw"}
=============================================================================
