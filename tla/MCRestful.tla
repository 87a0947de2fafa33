------------------------------ MODULE MCRestful ------------------------------
(* Restful for TLC. *)
EXTENDS Restful
=============================================================================
