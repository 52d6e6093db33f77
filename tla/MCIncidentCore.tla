--------------------------- MODULE MCIncidentCore ---------------------------
(* Instances of IncidentCore for TLC. *)
EXTENDS IncidentCore, TLC

Symmetry ==
  Permutations(IncidentIds) \cup Permutations(EventIds) \cup Permutations(Requests)

\* Ids are interchangeable: opening the incidents in a fixed order loses no
\* behaviour, but for their names.
OpenedInOrder ==
  \A i \in Opened' \ Opened : i = CHOOSE j \in IncidentIds : j \notin Opened
=============================================================================
