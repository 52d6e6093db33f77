---------------------------- MODULE MCEventClaim ----------------------------
(* Instances of EventClaim for TLC. *)
EXTENDS EventClaim, TLC

Symmetry == Permutations(Messages)
=============================================================================
