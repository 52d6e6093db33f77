--------------------------- MODULE IncidentEngine ---------------------------
(***************************************************************************)
(* processRecord of services/incident-engine/src/handler.ts, one step per  *)
(* DynamoDB request, for every event of the correlation key.  Handlers of  *)
(* different events run concurrently (one Lambda invocation per batch).    *)
(*                                                                         *)
(* An attempt starts once startEventProcessing has granted the event to    *)
(* it; at most one attempt per event is live (EventClaim.tla).  The dedup  *)
(* and severity counters only reach the incident tables through the two    *)
(* values they produce, chosen here by each attempt (WindowCounter.tla).   *)
(***************************************************************************)
EXTENDS IncidentStore

CONSTANTS
  AiEnabled,        \* config.aiEnabled
  AiReanalyze,      \* config.aiReanalyzeOnIncidentUpdate
  MaxReceives,      \* maxReceiveCount of the events queue
  Suppression,      \* what dedup.suppressed may be
  EventSeverity     \* what evaluateSeverity may return

ASSUME EngineAssumption ==
  /\ AiEnabled \in BOOLEAN
  /\ AiReanalyze \in BOOLEAN
  /\ MaxReceives \in Nat \ {0}
  /\ Suppression \subseteq BOOLEAN
  /\ EventSeverity \subseteq Severity

VARIABLE
  attempt        \* the message of each event and the locals of its handler

Opening == {"create", "openTimeline", "openOutbox", "openAi"}
Updating == {"update", "pointer", "timeline", "outbox", "ai"}
Handling == {"lookup", "read", "dropPointer", "failing"} \cup Opening \cup Updating
Settled == {"done", "dlq", "lost"}

\* via says how openIncident was reached, and so where its failure leads.
Attempt ==
  [pc : {"queued"} \cup Handling \cup Settled,
   via : {"first", "second", "again"},
   receives : Nat,
   id : IncidentIds \cup {NoId},   \* the incident at hand
   seen : Incident,                \* the incident as opened, or as read
   suppressed : BOOLEAN,
   severity : Severity]

\* A message nobody handles; the locals of a handler end with it.
Message(pc, receives) ==
  [pc |-> pc, via |-> "first", receives |-> receives, id |-> NoId,
   seen |-> NoIncident, suppressed |-> FALSE, severity |-> 1]

EngineInit == attempt = [e \in EventIds |-> Message("queued", 0)]

At(e, pc) == attempt[e].pc = pc
Becomes(e, a) == attempt' = [attempt EXCEPT ![e] = a]
To(a, pc) ==
  IF pc \in Settled \cup {"queued", "failing"}
    THEN Message(pc, a.receives)
    ELSE [a EXCEPT !.pc = pc]

ThrewRetryingCreate(a) ==
  IF a.pc \in Opening /\ a.via = "first" THEN [a EXCEPT !.pc = "create"] ELSE To(a, "failing")

\* openIncident catches everything and returns false: the first call goes on
\* to look the pointer up again.  Everything else throws out of processRecord.
Threw(a) ==
  IF a.pc \in Opening /\ a.via = "first"
    THEN [a EXCEPT !.pc = "lookup", !.via = "second", !.id = NoId, !.seen = NoIncident]
    ELSE To(a, "failing")

\* The answer to a request that took effect may be lost; a request may fail
\* without effect; and its condition may refuse it.
Answered(e, a) ==
  \/ Becomes(e, a) /\ UNCHANGED faults
  \/ Becomes(e, Threw(attempt[e])) /\ Fault
Refused(e) == Becomes(e, Threw(attempt[e])) /\ UNCHANGED <<tables, faults>>
CallFails(e) ==
  /\ attempt[e].pc \in Handling \ {"failing"}
  /\ Becomes(e, Threw(attempt[e]))
  /\ Fault
  /\ UNCHANGED tables

-----------------------------------------------------------------------------
Receive(e) ==
  /\ At(e, "queued")
  /\ \E s \in Suppression, sev \in EventSeverity :
       Becomes(e, [attempt[e] EXCEPT !.pc = "lookup", !.receives = @ + 1,
                                     !.suppressed = s, !.severity = sev])
  /\ UNCHANGED <<tables, faults>>

LookUp(e) ==
  /\ At(e, "lookup")
  /\ \E p \in getActiveIncident :
       \/ /\ p # NoPointer
          /\ Becomes(e, [attempt[e] EXCEPT !.pc = "read", !.id = p.incidentId])
       \/ /\ p = NoPointer /\ attempt[e].via = "first"
          /\ Becomes(e, To(attempt[e], "create"))
       \/ /\ p = NoPointer /\ attempt[e].via = "second"
          /\ Becomes(e, To(attempt[e], "failing"))
  /\ UNCHANGED <<tables, faults>>

-----------------------------------------------------------------------------
(* openIncident *)

NewIncident(a) ==
  [status |-> "OPEN", severity |-> a.severity, eventCount |-> 1, version |-> 1]

Create(e) ==
  /\ At(e, "create")
  /\ \/ ~CanCreate /\ Refused(e)
     \/ /\ CanCreate
        /\ \E i \in IncidentIds \ Opened :
             /\ createIncident(i, NewIncident(attempt[e]))
             /\ Answered(e, [attempt[e] EXCEPT
                  !.pc = IF attempt[e].suppressed THEN "openOutbox" ELSE "openTimeline",
                  !.id = i, !.seen = NewIncident(attempt[e])])

-----------------------------------------------------------------------------
(* The incident the pointer names *)

Read(e) ==
  /\ At(e, "read")
  /\ \E incident \in getIncidentById(attempt[e].id) :
       Becomes(e, [attempt[e] EXCEPT
         !.pc = IF incident.version = 0 THEN "dropPointer" ELSE "update",
         !.seen = incident])
  /\ UNCHANGED <<tables, faults>>

DropPointer(e) ==
  /\ At(e, "dropPointer")
  /\ deleteActivePointer
  /\ Answered(e, [attempt[e] EXCEPT !.pc = "create", !.via = "again", !.id = NoId])

UpdatedMiscounted(a) ==
  [status |-> a.seen.status,
   severity |-> maxSeverity(a.seen.severity, a.severity),
   eventCount |-> IF a.suppressed THEN a.seen.eventCount + 1 ELSE a.seen.eventCount,
   version |-> a.seen.version + 1]

Updated(a) ==
  [status |-> a.seen.status,
   severity |-> maxSeverity(a.seen.severity, a.severity),
   eventCount |-> IF a.suppressed THEN a.seen.eventCount ELSE a.seen.eventCount + 1,
   version |-> a.seen.version + 1]

Escalated(a) == Updated(a).severity # a.seen.severity

AfterTimeline(a) ==
  IF Escalated(a) THEN "outbox"
  ELSE IF AiEnabled /\ AiReanalyze /\ ~a.suppressed THEN "ai" ELSE "done"
AfterPointer(a) == IF a.suppressed THEN AfterTimeline(a) ELSE "timeline"

Update(e) ==
  /\ At(e, "update")
  /\ LET a == attempt[e] IN
     \/ ~CanUpdate(a.id, a.seen.version) /\ Refused(e)
     \/ /\ CanUpdate(a.id, a.seen.version)
        /\ updateIncident(a.id, Updated(a))
        /\ Answered(e, To(a, "pointer"))

shouldKeepActive(status) == status # "RESOLVED"

Pointer(e) ==
  /\ At(e, "pointer")
  /\ LET a == attempt[e] IN
     \/ /\ shouldKeepActive(a.seen.status) /\ ~CanUpdatePointer
        /\ Refused(e)
     \/ /\ shouldKeepActive(a.seen.status) /\ CanUpdatePointer
        /\ updateActivePointer(a.seen.status)
        /\ Answered(e, To(a, AfterPointer(a)))
     \/ /\ ~shouldKeepActive(a.seen.status)
        /\ deleteActivePointer
        /\ Answered(e, To(a, AfterPointer(a)))

RecordEvent(e) ==
  /\ attempt[e].pc \in {"openTimeline", "timeline"}
  /\ recordIncidentEvent(attempt[e].id, e)
  /\ Answered(e, To(attempt[e], IF At(e, "timeline") THEN AfterTimeline(attempt[e])
                                                    ELSE "openOutbox"))

-----------------------------------------------------------------------------
(* The announcements: OPENED by openIncident, ESCALATED by an update that   *)
(* raised the severity, each followed by a request for AI analysis; and     *)
(* UPDATED, which only asks for AI analysis.                                *)

Announces(a) ==
  [eventType |-> IF a.pc \in {"openAi", "ai"} THEN "IncidentAnalysisRequested"
                                              ELSE "IncidentChanged",
   incidentId |-> a.id,
   changeType |-> IF a.pc \in Opening THEN "OPENED"
                  ELSE IF Escalated(a) THEN "ESCALATED" ELSE "UPDATED",
   detail |-> IF a.pc \in Opening THEN a.seen ELSE Updated(a)]

PutOutbox(e, next) ==
  \/ /\ ~CanPutOutbox(Announces(attempt[e]))
     /\ Refused(e)
  \/ /\ CanPutOutbox(Announces(attempt[e]))
     /\ putOutboxEvent(Announces(attempt[e]))
     /\ Answered(e, To(attempt[e], next))

Announce(e) ==
  \/ At(e, "openOutbox") /\ PutOutbox(e, IF AiEnabled THEN "openAi" ELSE "done")
  \/ At(e, "outbox") /\ PutOutbox(e, IF AiEnabled THEN "ai" ELSE "done")

enqueueAiAnalysis(e) ==
  /\ attempt[e].pc \in {"openAi", "ai"}
  /\ PutOutbox(e, "done")

-----------------------------------------------------------------------------
(* failEventProcessing, and the message goes back to the queue: it becomes  *)
(* visible again until it has been received MaxReceives times.             *)

Redelivered(a) == IF a.receives < MaxReceives THEN "queued" ELSE "dlq"

Fail(e) ==
  /\ At(e, "failing")
  /\ Becomes(e, To(attempt[e], Redelivered(attempt[e])))
  /\ UNCHANGED <<tables, faults>>

\* The invocation dies, or failEventProcessing fails: the claim stays
\* PROCESSING, and a redelivery is retried or acknowledged unprocessed.
Crash(e) ==
  /\ attempt[e].pc \in Handling
  /\ Fault
  /\ \/ Becomes(e, To(attempt[e], Redelivered(attempt[e])))
     \/ attempt[e].receives < MaxReceives /\ Becomes(e, To(attempt[e], "lost"))
  /\ UNCHANGED tables

-----------------------------------------------------------------------------
Handle(e) ==
  \/ Receive(e) \/ LookUp(e)
  \/ Create(e) \/ Read(e) \/ DropPointer(e) \/ Update(e) \/ Pointer(e)
  \/ RecordEvent(e) \/ Announce(e) \/ enqueueAiAnalysis(e)
  \/ Fail(e)

EngineStep(e) == Handle(e) \/ CallFails(e) \/ Crash(e)
=============================================================================
