--------------------------- MODULE MCStreamLimits ---------------------------
(* StreamLimits for TLC. *)
EXTENDS StreamLimits, TLC

\* Streams are alike.
Symmetry == Permutations(Streams)
=============================================================================
