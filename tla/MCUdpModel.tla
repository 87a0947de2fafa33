----------------------------- MODULE MCUdpModel -----------------------------
(* UdpModel for TLC. *)
EXTENDS UdpModel
=============================================================================
