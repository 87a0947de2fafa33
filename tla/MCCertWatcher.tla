--------------------------- MODULE MCCertWatcher ---------------------------
(* CertWatcher for TLC. *)
EXTENDS CertWatcher
=============================================================================
