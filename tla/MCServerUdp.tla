----------------------------- MODULE MCServerUdp -----------------------------
(* ServerUdp for TLC. Tasks are interchangeable. *)
EXTENDS ServerUdp, TLC

TaskSymmetry == Permutations(Tasks)
=============================================================================
