----------------------------- MODULE MCClientUdp -----------------------------
(* ClientUdp for TLC. *)
EXTENDS ClientUdp
=============================================================================
