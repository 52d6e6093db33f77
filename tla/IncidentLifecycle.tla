-------------------------- MODULE IncidentLifecycle --------------------------
(***************************************************************************)
(* What the incidents table promises its readers, without requests, copies *)
(* or pointers: every incident is opened once, and from then on each step  *)
(* gives ONE incident its next version, for ONE reason.  An event never    *)
(* lowers the severity, never takes an event back and never touches the    *)
(* status; an acknowledgement or a resolution touches nothing else, and    *)
(* nothing leads out of RESOLVED.                                          *)
(***************************************************************************)
EXTENDS Naturals

CONSTANTS IncidentIds, MaxSeverity

VARIABLE incidents

Absent(i) == incidents[i].version = 0

Init == \A i \in IncidentIds : Absent(i)

\* Incident i gets its next version.
Becomes(i, status, severity, eventCount) ==
  incidents' = [incidents EXCEPT ![i] =
    [status |-> status, severity |-> severity, eventCount |-> eventCount,
     version |-> incidents[i].version + 1]]

Open(i) ==
  /\ Absent(i)
  /\ \E sev \in 1 .. MaxSeverity : Becomes(i, "OPEN", sev, 1)

Absorb(i) ==
  /\ ~Absent(i)
  /\ \E sev \in incidents[i].severity .. MaxSeverity, counted \in {0, 1} :
       Becomes(i, incidents[i].status, sev, incidents[i].eventCount + counted)

Acknowledge(i) ==
  /\ ~Absent(i) /\ incidents[i].status = "OPEN"
  /\ Becomes(i, "ACKED", incidents[i].severity, incidents[i].eventCount)

Resolve(i) ==
  /\ ~Absent(i) /\ incidents[i].status \in {"OPEN", "ACKED"}
  /\ Becomes(i, "RESOLVED", incidents[i].severity, incidents[i].eventCount)

Next == \E i \in IncidentIds : Open(i) \/ Absorb(i) \/ Acknowledge(i) \/ Resolve(i)

Spec == Init /\ [][Next]_incidents
=============================================================================
