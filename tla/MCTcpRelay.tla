----------------------------- MODULE MCTcpRelay -----------------------------
(* TcpRelay for TLC. *)
EXTENDS TcpRelay
=============================================================================
