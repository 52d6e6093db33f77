------------------------------ MODULE MCConsole ------------------------------
(* Instances of Console for TLC. *)
EXTENDS Console

CONSTANTS t1, t2, i1, i2

\* All the incidents are the first tenant's.
OneTenant == [i \in Incidents |-> t1]

\* The timeline of i1 gets two events, the older first or last; the other's stays.
OneOfTheOther == [i \in Incidents |-> IF i = i1 THEN {} ELSE {2}]
OlderAndNewer == [i \in Incidents |-> IF i = i1 THEN {1, 2} ELSE {}]
=============================================================================
