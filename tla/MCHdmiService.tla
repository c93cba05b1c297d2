---------------------------- MODULE MCHdmiService ----------------------------
(* Instances of HdmiService for TLC. *)
EXTENDS HdmiService, TLC

\* Clients only differ by name: sound for invariants and action properties.
Symmetry == Permutations(Clients)

==============================================================================
