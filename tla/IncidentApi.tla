----------------------------- MODULE IncidentApi -----------------------------
(***************************************************************************)
(* The writing half of services/incident-api/src/handler.ts: POST          *)
(* /incidents/{id}/ack and /resolve, one step per DynamoDB request.  A     *)
(* request that throws is answered 500; nothing is undone.                 *)
(***************************************************************************)
EXTENDS IncidentStore

CONSTANTS
  Requests,      \* the POST requests (bounds them)
  Actions        \* the actions they may ask for, of "ack" and "resolve"

ASSUME ApiAssumption == Actions \subseteq {"ack", "resolve"}

VARIABLE
  request        \* each request and the locals of its handler

Answers == {"200", "403", "404", "409", "500"}
Request ==
  [pc : {"new", "read", "update", "pointer", "outbox"} \cup Answers,
   action : {"ack", "resolve"},
   id : IncidentIds \cup {NoId},
   seen : Incident]

\* A request without a handler.
Unhandled(pc) == [pc |-> pc, action |-> "ack", id |-> NoId, seen |-> NoIncident]

ApiInit == request = [r \in Requests |-> Unhandled("new")]

Replies(r, q) == request' = [request EXCEPT ![r] = q]
Goes(r, pc) ==
  Replies(r, IF pc \in Answers THEN Unhandled(pc) ELSE [request[r] EXCEPT !.pc = pc])

\* As in the engine: an answer may be lost, a call may fail without effect.
Served(r, pc) ==
  \/ Goes(r, pc) /\ UNCHANGED faults
  \/ Goes(r, "500") /\ Fault
RequestFails(r) ==
  /\ request[r].pc \in {"read", "update", "pointer", "outbox"}
  /\ Goes(r, "500")
  /\ Fault
  /\ UNCHANGED tables

Status(q) == IF q.action = "ack" THEN "ACKED" ELSE "RESOLVED"

\* A caller asks for an incident it has seen.
Post(r) ==
  /\ request[r].pc = "new"
  /\ \E i \in Opened, action \in Actions :
       Replies(r, [request[r] EXCEPT !.pc = "read", !.action = action, !.id = i])
  /\ UNCHANGED <<tables, faults>>

MayChangeResolved(q, incident) == incident.status # Status(q)

MayChange(q, incident) ==
  /\ incident.status # Status(q)
  /\ ~(incident.status = "RESOLVED" /\ q.action = "ack")

GetIncident(r) ==
  /\ request[r].pc = "read"
  /\ \E incident \in getIncidentById(request[r].id) :
       \/ /\ incident.version = 0
          /\ Goes(r, "404")
       \/ /\ incident.version > 0     \* neither its owner nor an admin
          /\ Goes(r, "403")
       \/ /\ incident.version > 0
          /\ incident.status = Status(request[r])
          /\ Goes(r, "200")
       \/ /\ incident.version > 0
          /\ incident.status = "RESOLVED" /\ request[r].action = "ack"
          /\ Goes(r, "409")
       \/ /\ incident.version > 0
          /\ MayChange(request[r], incident)
          /\ Replies(r, [request[r] EXCEPT !.pc = "update", !.seen = incident])
  /\ UNCHANGED <<tables, faults>>

ChangedUnversioned(q) ==
  [status |-> Status(q), severity |-> q.seen.severity,
   eventCount |-> q.seen.eventCount, version |-> q.seen.version]
ConflictRetries(r) == Goes(r, "update")

Changed(q) ==
  [status |-> Status(q), severity |-> q.seen.severity,
   eventCount |-> q.seen.eventCount, version |-> q.seen.version + 1]

Conflict(r) == Goes(r, "409")

UpdateStatus(r) ==
  /\ request[r].pc = "update"
  /\ LET q == request[r] IN
     \/ /\ ~CanUpdate(q.id, q.seen.version)
        /\ Conflict(r)
        /\ UNCHANGED <<tables, faults>>
     \/ /\ CanUpdate(q.id, q.seen.version)
        /\ updateIncident(q.id, Changed(q))
        /\ Served(r, "pointer")

DropsPointerNever(q) == FALSE
DropsPointer(q) == Status(q) = "RESOLVED"

MovePointer(r) ==
  /\ request[r].pc = "pointer"
  /\ LET q == request[r] IN
     \/ /\ DropsPointer(q)
        /\ deleteActivePointer
        /\ Served(r, "outbox")
     \/ /\ ~DropsPointer(q) /\ CanUpdatePointer
        /\ updateActivePointer(Status(q))
        /\ Served(r, "outbox")
     \/ /\ ~DropsPointer(q) /\ ~CanUpdatePointer
        /\ Goes(r, "500")
        /\ UNCHANGED <<tables, faults>>

Publishes(q) ==
  [eventType |-> "IncidentChanged", incidentId |-> q.id,
   changeType |-> Status(q), detail |-> Changed(q)]

Publish(r) ==
  /\ request[r].pc = "outbox"
  /\ \/ /\ CanPutOutbox(Publishes(request[r]))
        /\ putOutboxEvent(Publishes(request[r]))
        /\ Served(r, "200")
     \/ /\ ~CanPutOutbox(Publishes(request[r]))
        /\ Goes(r, "500")
        /\ UNCHANGED <<tables, faults>>

Serve(r) == GetIncident(r) \/ UpdateStatus(r) \/ MovePointer(r) \/ Publish(r)

ApiStep(r) == Post(r) \/ Serve(r) \/ RequestFails(r)
=============================================================================
