---------------------------- MODULE IncidentStore ----------------------------
(***************************************************************************)
(* The tables the incident services share, for ONE correlation key         *)
(* (tenant, env, source, fingerprint): libs/dynamodb/src/incidents.ts,     *)
(* incident-events.ts and the put side of outbox.ts.  Keys do not interact *)
(* in those files, so one key is the whole story.                          *)
(*                                                                         *)
(* One operator per exported function; each is ONE DynamoDB request, which *)
(* is the unit of atomicity of the system.  GetItem is called without      *)
(* ConsistentRead, so a read may answer from a lagging copy of the item.   *)
(***************************************************************************)
EXTENDS Naturals

(* Operators that no other definition uses are the mutants of PROJECT.json. *)

CONSTANTS
  IncidentIds,   \* the uuids openIncident may draw (bounds the incidents)
  EventIds,      \* the ingested events that carry this correlation key
  MaxSeverity,   \* severities are their severityRank, 1..MaxSeverity
  StaleReads,    \* may a GetItem answer from a lagging copy?
  MaxFaults,     \* bound on failed calls, lost answers and crashes
  NoId           \* "no incident", in an absent pointer

ASSUME StoreAssumption ==
  /\ MaxSeverity \in Nat \ {0}
  /\ StaleReads \in BOOLEAN
  /\ MaxFaults \in Nat
  /\ NoId \notin IncidentIds

VARIABLES
  incidents,     \* item INCIDENT#<id> / STATE, by id
  pointer,       \* item <incidentKey> / ACTIVE
  outbox,        \* the items of the outbox table
  timeline,      \* the items of the incident-events table
  oldIncidents,  \* the lagging copy of incidents
  oldPointer,    \* the lagging copy of pointer
  faults         \* faults so far, at most MaxFaults

tables == <<incidents, pointer, outbox, timeline>>
lagging == <<oldIncidents, oldPointer>>
storeVars == <<incidents, pointer, outbox, timeline, oldIncidents, oldPointer, faults>>

Severity == 1 .. MaxSeverity
IncidentStatus == {"OPEN", "ACKED", "RESOLVED"}
IncidentChangeType == {"OPENED", "ACKED", "RESOLVED", "ESCALATED", "UPDATED"}

\* Version 0 stands for an item that does not exist.
NoIncident == [status |-> "OPEN", severity |-> 1, eventCount |-> 0, version |-> 0]
NoPointer == [incidentId |-> NoId, status |-> "OPEN"]

Incident ==
  [status : IncidentStatus, severity : Severity, eventCount : Nat, version : Nat]
ActiveIncidentPointer ==
  {NoPointer} \cup [incidentId : IncidentIds, status : IncidentStatus]
OutboxEvent ==
  [eventType : {"IncidentChanged", "IncidentAnalysisRequested"},
   incidentId : IncidentIds, changeType : IncidentChangeType, detail : Incident]

Opened == {i \in IncidentIds : incidents[i].version > 0}

StoreInit ==
  /\ incidents = [i \in IncidentIds |-> NoIncident]
  /\ pointer = NoPointer
  /\ outbox = {}
  /\ timeline = {}
  /\ oldIncidents = incidents
  /\ oldPointer = pointer
  /\ faults = 0

-----------------------------------------------------------------------------
(* Reads: the answers a GetItem may give.                                  *)

getActiveIncident == {pointer} \cup (IF StaleReads THEN {oldPointer} ELSE {})

getIncidentById(i) ==
  {incidents[i]} \cup (IF StaleReads THEN {oldIncidents[i]} ELSE {})

\* The lagging copies catch up, item by item.
Replicate ==
  /\ StaleReads
  /\ \/ /\ oldPointer # pointer
        /\ oldPointer' = pointer
        /\ UNCHANGED oldIncidents
     \/ /\ \E i \in IncidentIds :
             /\ oldIncidents[i] # incidents[i]
             /\ oldIncidents' = [oldIncidents EXCEPT ![i] = incidents[i]]
        /\ UNCHANGED oldPointer
  /\ UNCHANGED <<tables, faults>>

-----------------------------------------------------------------------------
(* Writes: the condition of each request, and its effect.  They say nothing *)
(* of the lagging copies and of the answer the caller gets: see Answers.    *)

\* One transaction: no pointer for the key, put the incident and the pointer.
CanCreate == pointer = NoPointer
createIncident(i, incident) ==
  /\ incidents' = [incidents EXCEPT ![i] = incident]
  /\ pointer' = [incidentId |-> i, status |-> incident.status]
  /\ UNCHANGED <<outbox, timeline>>

CanUpdateUnversioned(i, expected) == TRUE

\* ConditionExpression: version = :expected.
CanUpdate(i, expected) == incidents[i].version = expected
updateIncident(i, incident) ==
  /\ incidents' = [incidents EXCEPT ![i] = incident]
  /\ UNCHANGED <<pointer, outbox, timeline>>

CanUpsertPointer == TRUE

\* ConditionExpression: attribute_exists(pk).  Whose pointer it is is not asked.
CanUpdatePointer == pointer # NoPointer
updateActivePointer(status) ==
  /\ pointer' = [pointer EXCEPT !.status = status]
  /\ UNCHANGED <<incidents, outbox, timeline>>

\* An unconditional delete of the key's pointer, whichever incident it names.
deleteActivePointer ==
  /\ pointer' = NoPointer
  /\ UNCHANGED <<incidents, outbox, timeline>>

outboxIdUnversioned(o) == <<o.eventType, o.incidentId>>

\* The outboxId is INCIDENT#<id>#<version>, with another prefix for the AI.
outboxId(o) == <<o.eventType, o.incidentId, o.detail.version>>

\* ConditionExpression: attribute_not_exists(outboxId).
CanPutOutbox(o) == \A p \in outbox : outboxId(p) # outboxId(o)
putOutboxEvent(o) ==
  /\ outbox' = outbox \cup {o}
  /\ UNCHANGED <<incidents, pointer, timeline>>

recordIncidentEvent(i, e) ==
  /\ timeline' = timeline \cup {<<i, e>>}
  /\ UNCHANGED <<incidents, pointer, outbox>>

-----------------------------------------------------------------------------
(* Faults, and the order of the severities. *)

\* A fault uses up one unit of the budget.
Fault ==
  /\ faults < MaxFaults
  /\ faults' = faults + 1

lastSeverity(left, right) == right

maxSeverity(left, right) == IF left >= right THEN left ELSE right
=============================================================================
