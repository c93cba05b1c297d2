------------------------------- MODULE MCCec --------------------------------
(* Instances of Cec for TLC. *)
EXTENDS Cec

=============================================================================
