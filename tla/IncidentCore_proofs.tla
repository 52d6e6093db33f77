------------------------- MODULE IncidentCore_proofs -------------------------
(***************************************************************************)
(* TLAPS proofs about IncidentCore, for any number of incidents, events,   *)
(* requests, severities, receives and faults, with or without stale reads  *)
(* and AI analysis.                                                        *)
(***************************************************************************)
EXTENDS IncidentCore, TLAPS

AttemptPc == {"queued"} \cup Handling \cup Settled
RequestPc == {"new", "read", "update", "pointer", "outbox"} \cup Answers

-----------------------------------------------------------------------------
(* The values the handlers compute have their types. *)

LEMMA Defaults == NoIncident \in Incident /\ 1 \in Severity
BY StoreAssumption DEF NoIncident, Incident, Severity, IncidentStatus

LEMMA MessageType ==
  ASSUME NEW pc \in AttemptPc, NEW n \in Nat
  PROVE  Message(pc, n) \in Attempt
BY Defaults DEF Message, Attempt, AttemptPc

LEMMA ToType ==
  ASSUME NEW a \in Attempt, NEW pc \in AttemptPc
  PROVE  To(a, pc) \in Attempt /\ To(a, pc).pc = pc
<1>1. CASE pc \in Settled \cup {"queued", "failing"}
  <2>1. a.receives \in Nat
    BY DEF Attempt
  <2> QED  BY <1>1, <2>1, MessageType DEF To, Message
<1>2. CASE pc \notin Settled \cup {"queued", "failing"}
  BY <1>2 DEF To, Attempt, AttemptPc
<1> QED  BY <1>1, <1>2

LEMMA ThrewType ==
  ASSUME NEW a \in Attempt
  PROVE  Threw(a) \in Attempt /\ Threw(a).pc \in {"lookup", "failing"}
<1>1. To(a, "failing") \in Attempt /\ To(a, "failing").pc = "failing"
  BY ToType DEF AttemptPc, Handling
<1>2. CASE a.pc \in Opening /\ a.via = "first"
  BY <1>2, Defaults DEF Threw, Attempt, Handling
<1>3. CASE ~(a.pc \in Opening /\ a.via = "first")
  BY <1>1, <1>3 DEF Threw
<1> QED  BY <1>2, <1>3

LEMMA ReceivedType ==
  ASSUME NEW a \in Attempt, NEW s \in Suppression, NEW sev \in EventSeverity
  PROVE  [a EXCEPT !.pc = "lookup", !.receives = @ + 1,
                   !.suppressed = s, !.severity = sev] \in Attempt
<1>1. s \in BOOLEAN /\ sev \in Severity
  BY EngineAssumption
<1>2. a.receives + 1 \in Nat
  BY DEF Attempt
<1> QED  BY <1>1, <1>2 DEF Attempt, Handling

LEMMA UpdatedType ==
  ASSUME NEW a \in Attempt
  PROVE  /\ Updated(a) \in Incident
         /\ Updated(a).version = a.seen.version + 1
         /\ a.seen.severity <= Updated(a).severity
BY DEF Updated, Attempt, Incident, maxSeverity, Severity

LEMMA NewIncidentType ==
  ASSUME NEW a \in Attempt
  PROVE  NewIncident(a) \in Incident /\ NewIncident(a).version = 1
BY DEF NewIncident, Attempt, Incident, IncidentStatus

LEMMA AnnouncesType ==
  ASSUME NEW a \in Attempt, a.id \in IncidentIds
  PROVE  Announces(a) \in OutboxEvent
<1>1. a.seen \in Incident
  BY DEF Attempt
<1> QED  BY <1>1, UpdatedType DEF Announces, OutboxEvent, IncidentChangeType

LEMMA UnhandledType ==
  ASSUME NEW pc \in RequestPc
  PROVE  Unhandled(pc) \in Request
BY Defaults DEF Unhandled, Request, RequestPc

LEMMA ChangedType ==
  ASSUME NEW q \in Request
  PROVE  /\ Changed(q) \in Incident
         /\ Changed(q).version = q.seen.version + 1
BY DEF Changed, Request, Incident, Status, IncidentStatus

LEMMA PublishesType ==
  ASSUME NEW q \in Request, q.id \in IncidentIds
  PROVE  Publishes(q) \in OutboxEvent
<1>1. Status(q) \in IncidentChangeType
  BY DEF Status, IncidentChangeType
<1>2. Changed(q) \in Incident
  BY ChangedType
<1> QED  BY <1>1, <1>2 DEF Publishes, OutboxEvent

-----------------------------------------------------------------------------
(* Type correctness *)

LEMMA AnsweredType ==
  ASSUME TypeOK, NEW e \in EventIds, NEW a \in Attempt,
         Answered(e, a) \/ (Becomes(e, a) /\ (UNCHANGED faults \/ Fault))
  PROVE  attempt' \in [EventIds -> Attempt] /\ faults' \in 0 .. MaxFaults
<1>1. Threw(attempt[e]) \in Attempt
  BY ThrewType DEF TypeOK
<1>2. faults' \in 0 .. MaxFaults
  BY StoreAssumption DEF TypeOK, StoreTypeOK, Answered, Fault
<1> QED  BY <1>1, <1>2 DEF TypeOK, Answered, Becomes

LEMMA ServedType ==
  ASSUME TypeOK, NEW r \in Requests, NEW pc \in RequestPc,
         Served(r, pc) \/ (Goes(r, pc) /\ (UNCHANGED faults \/ Fault))
  PROVE  request' \in [Requests -> Request] /\ faults' \in 0 .. MaxFaults
<1>1. \A p \in RequestPc : Unhandled(p) \in Request /\ [request[r] EXCEPT !.pc = p] \in Request
  BY UnhandledType DEF TypeOK, Request, RequestPc
<1>2. "500" \in RequestPc
  BY DEF RequestPc, Answers
<1>3. faults' \in 0 .. MaxFaults
  BY StoreAssumption DEF TypeOK, StoreTypeOK, Served, Fault
<1>4. Goes(r, pc) \/ Goes(r, "500")
  BY DEF Served
<1> QED  BY <1>1, <1>2, <1>3, <1>4 DEF TypeOK, Goes, Replies

LEMMA EngineType ==
  ASSUME TypeOK, CopiesAreTrue, NEW e \in EventIds, Engine(e)
  PROVE  TypeOK'
<1> DEFINE a == attempt[e]
<1>1. a \in Attempt /\ UNCHANGED <<oldIncidents, oldPointer, request>>
  BY DEF TypeOK, Engine, lagging
<1> SUFFICES /\ attempt' \in [EventIds -> Attempt] /\ faults' \in 0 .. MaxFaults
             /\ incidents' \in [IncidentIds -> Incident]
             /\ pointer' \in ActiveIncidentPointer
             /\ outbox' \subseteq OutboxEvent
             /\ timeline' \subseteq (IncidentIds \X EventIds)
  BY <1>1 DEF TypeOK, StoreTypeOK
<1>2. CASE Receive(e)
  <2>1. PICK s \in Suppression, sev \in EventSeverity :
          Becomes(e, [a EXCEPT !.pc = "lookup", !.receives = @ + 1,
                               !.suppressed = s, !.severity = sev])
    BY <1>2 DEF Receive
  <2>2. [a EXCEPT !.pc = "lookup", !.receives = @ + 1,
                  !.suppressed = s, !.severity = sev] \in Attempt
    BY <1>1, ReceivedType
  <2> QED  BY <1>2, <2>1, <2>2, AnsweredType DEF Receive, tables, TypeOK, StoreTypeOK
<1>3. CASE LookUp(e)
  <2>1. PICK p \in getActiveIncident :
          \/ /\ p # NoPointer
             /\ Becomes(e, [a EXCEPT !.pc = "read", !.id = p.incidentId])
          \/ Becomes(e, To(a, "create"))
          \/ Becomes(e, To(a, "failing"))
    BY <1>3 DEF LookUp
  <2>2. p # NoPointer => p.incidentId \in IncidentIds
    BY DEF getActiveIncident, TypeOK, StoreTypeOK, ActiveIncidentPointer
  <2>3. p # NoPointer => [a EXCEPT !.pc = "read", !.id = p.incidentId] \in Attempt
    BY <1>1, <2>2 DEF Attempt, Handling
  <2>4. To(a, "create") \in Attempt /\ To(a, "failing") \in Attempt
    BY <1>1, ToType DEF AttemptPc, Handling, Opening
  <2> QED  BY <1>3, <2>1, <2>3, <2>4, AnsweredType DEF LookUp, tables, TypeOK, StoreTypeOK
<1>4. CASE Create(e)
  <2>1. CASE ~CanCreate /\ Refused(e)
    BY <1>1, <2>1, ThrewType, AnsweredType DEF Refused, tables, TypeOK, StoreTypeOK
  <2>2. CASE CanCreate /\ ~(~CanCreate /\ Refused(e))
    <3> DEFINE b(i) == [a EXCEPT !.pc = IF a.suppressed THEN "openOutbox" ELSE "openTimeline",
                                 !.id = i, !.seen = NewIncident(a)]
    <3>1. PICK i \in IncidentIds \ Opened :
            createIncident(i, NewIncident(a)) /\ Answered(e, b(i))
      BY <1>4, <2>2 DEF Create
    <3>2. b(i) \in Attempt
      BY <1>1, <3>1, NewIncidentType DEF Attempt, Handling, Opening
    <3>3. NewIncident(a) \in Incident /\ NewIncident(a).status \in IncidentStatus
      BY <1>1, NewIncidentType DEF NewIncident, IncidentStatus
    <3>4. /\ incidents' \in [IncidentIds -> Incident]
          /\ pointer' \in ActiveIncidentPointer
          /\ UNCHANGED <<outbox, timeline>>
      BY <3>1, <3>3 DEF createIncident, TypeOK, StoreTypeOK, ActiveIncidentPointer
    <3> QED  BY <3>1, <3>2, <3>4, AnsweredType DEF TypeOK, StoreTypeOK
  <2> QED  BY <1>4, <2>1, <2>2 DEF Create
<1>5. CASE Read(e)
  <2> DEFINE b(c) == [a EXCEPT !.pc = IF c.version = 0 THEN "dropPointer" ELSE "update",
                               !.seen = c]
  <2>1. PICK c \in getIncidentById(a.id) : Becomes(e, b(c))
    BY <1>5 DEF Read
  <2>2. c \in Incident
    <3>1. a.id \in IncidentIds
      BY <1>5 DEF Read, At, CopiesAreTrue, AttemptCopies
    <3> QED  BY <2>1, <3>1 DEF getIncidentById, TypeOK, StoreTypeOK
  <2>3. b(c) \in Attempt
    BY <1>1, <2>2 DEF Attempt, Handling, Updating
  <2> QED  BY <1>5, <2>1, <2>3, AnsweredType DEF Read, tables, TypeOK, StoreTypeOK
<1>6. CASE DropPointer(e)
  <2>1. [a EXCEPT !.pc = "create", !.via = "again", !.id = NoId] \in Attempt
    BY <1>1 DEF Attempt, Handling, Opening
  <2> QED
    BY <1>6, <2>1, AnsweredType
    DEF DropPointer, deleteActivePointer, TypeOK, StoreTypeOK, ActiveIncidentPointer
<1>7. CASE Update(e)
  <2>1. CASE Refused(e)
    BY <1>1, <2>1, ThrewType, AnsweredType DEF Refused, tables, TypeOK, StoreTypeOK
  <2>2. CASE updateIncident(a.id, Updated(a)) /\ Answered(e, To(a, "pointer"))
    <3>1. To(a, "pointer") \in Attempt /\ Updated(a) \in Incident
      BY <1>1, ToType, UpdatedType DEF AttemptPc, Handling, Updating
    <3> QED  BY <2>2, <3>1, AnsweredType DEF updateIncident, TypeOK, StoreTypeOK
  <2> QED  BY <1>7, <2>1, <2>2 DEF Update
<1>8. CASE Pointer(e)
  <2>1. To(a, AfterPointer(a)) \in Attempt
    BY <1>1, ToType DEF AfterPointer, AfterTimeline, AttemptPc, Handling, Updating, Settled
  <2>2. CASE Refused(e)
    BY <1>1, <2>2, ThrewType, AnsweredType DEF Refused, tables, TypeOK, StoreTypeOK
  <2>3. CASE CanUpdatePointer /\ updateActivePointer(a.seen.status) /\ Answered(e, To(a, AfterPointer(a)))
    <3>1. a.seen.status \in IncidentStatus
      BY <1>1 DEF Attempt, Incident
    <3>2. pointer' \in ActiveIncidentPointer
      BY <2>3, <3>1 DEF CanUpdatePointer, updateActivePointer, TypeOK, StoreTypeOK, ActiveIncidentPointer
    <3> QED  BY <2>1, <2>3, <3>2, AnsweredType DEF updateActivePointer, TypeOK, StoreTypeOK
  <2>4. CASE deleteActivePointer /\ Answered(e, To(a, AfterPointer(a)))
    BY <2>1, <2>4, AnsweredType
    DEF deleteActivePointer, TypeOK, StoreTypeOK, ActiveIncidentPointer
  <2> QED  BY <1>8, <2>2, <2>3, <2>4 DEF Pointer
<1>9. CASE RecordEvent(e)
  <2> DEFINE n == IF At(e, "timeline") THEN AfterTimeline(a) ELSE "openOutbox"
  <2>1. To(a, n) \in Attempt
    BY <1>1, ToType DEF AfterTimeline, AttemptPc, Handling, Opening, Updating, Settled
  <2>2. a.id \in IncidentIds
    BY <1>9 DEF RecordEvent, CopiesAreTrue, AttemptCopies, Announcing, Updating
  <2> QED
    BY <1>9, <2>1, <2>2, AnsweredType DEF RecordEvent, recordIncidentEvent, TypeOK, StoreTypeOK
<1>10. CASE Announce(e) \/ enqueueAiAnalysis(e)
  <2>1. PICK n \in {"openAi", "ai", "done"} : PutOutbox(e, n)
    BY <1>10 DEF Announce, enqueueAiAnalysis
  <2>2. To(a, n) \in Attempt
    BY <1>1, ToType DEF AttemptPc, Handling, Opening, Updating, Settled
  <2>3. a.id \in IncidentIds
    BY <1>10 DEF Announce, enqueueAiAnalysis, At, CopiesAreTrue, AttemptCopies, Announcing, Updating
  <2>4. Announces(a) \in OutboxEvent
    BY <1>1, <2>3, AnnouncesType
  <2>5. CASE Refused(e)
    BY <1>1, <2>5, ThrewType, AnsweredType DEF Refused, tables, TypeOK, StoreTypeOK
  <2>6. CASE putOutboxEvent(Announces(a)) /\ Answered(e, To(a, n))
    BY <2>2, <2>4, <2>6, AnsweredType DEF putOutboxEvent, TypeOK, StoreTypeOK
  <2> QED  BY <2>1, <2>5, <2>6 DEF PutOutbox
<1>11. CASE Fail(e)
  BY <1>1, <1>11, ToType, AnsweredType
  DEF Fail, Redelivered, AttemptPc, Settled, tables, TypeOK, StoreTypeOK
<1>12. CASE CallFails(e)
  BY <1>1, <1>12, ThrewType, AnsweredType DEF CallFails, tables, TypeOK, StoreTypeOK
<1>13. CASE Crash(e)
  BY <1>1, <1>13, ToType, AnsweredType
  DEF Crash, Redelivered, AttemptPc, Settled, tables, TypeOK, StoreTypeOK
<1> QED
  BY <1>2, <1>3, <1>4, <1>5, <1>6, <1>7, <1>8, <1>9, <1>10, <1>11, <1>12, <1>13
     DEF Engine, EngineStep, Handle

LEMMA ApiType ==
  ASSUME TypeOK, CopiesAreTrue, NEW r \in Requests, Api(r)
  PROVE  TypeOK'
<1> DEFINE q == request[r]
<1>1. q \in Request /\ UNCHANGED <<oldIncidents, oldPointer, attempt>>
  BY DEF TypeOK, Api, lagging
<1> SUFFICES /\ request' \in [Requests -> Request] /\ faults' \in 0 .. MaxFaults
             /\ incidents' \in [IncidentIds -> Incident]
             /\ pointer' \in ActiveIncidentPointer
             /\ outbox' \subseteq OutboxEvent
             /\ timeline' \subseteq (IncidentIds \X EventIds)
  BY <1>1 DEF TypeOK, StoreTypeOK
<1>2. {"read", "update", "pointer", "outbox", "200", "403", "404", "409", "500"} \subseteq RequestPc
  BY DEF RequestPc, Answers
<1>3. CASE Post(r)
  <2>1. PICK i \in Opened, action \in Actions :
          Replies(r, [q EXCEPT !.pc = "read", !.action = action, !.id = i])
    BY <1>3 DEF Post
  <2>2. [q EXCEPT !.pc = "read", !.action = action, !.id = i] \in Request
    BY <1>1, <2>1, ApiAssumption DEF Request, Opened
  <2> QED  BY <1>3, <2>1, <2>2 DEF Post, Replies, tables, TypeOK, StoreTypeOK
<1>4. CASE GetIncident(r)
  <2>1. PICK c \in getIncidentById(q.id) :
          \/ \E pc \in RequestPc : Goes(r, pc)
          \/ Replies(r, [q EXCEPT !.pc = "update", !.seen = c])
    BY <1>2, <1>4 DEF GetIncident
  <2>2. c \in Incident
    <3>1. q.id \in IncidentIds
      BY <1>4 DEF GetIncident, CopiesAreTrue, RequestCopies
    <3> QED  BY <2>1, <3>1 DEF getIncidentById, TypeOK, StoreTypeOK
  <2>3. [q EXCEPT !.pc = "update", !.seen = c] \in Request
    BY <1>1, <2>2 DEF Request
  <2>4. request' \in [Requests -> Request]
    BY <1>4, <2>1, <2>3, ServedType DEF GetIncident, Replies, TypeOK
  <2> QED  BY <1>4, <2>4 DEF GetIncident, tables, TypeOK, StoreTypeOK
<1>5. CASE UpdateStatus(r)
  <2>1. CASE Goes(r, "409") /\ UNCHANGED <<tables, faults>>
    BY <1>2, <2>1, ServedType DEF tables, TypeOK, StoreTypeOK
  <2>2. CASE updateIncident(q.id, Changed(q)) /\ Served(r, "pointer")
    <3>1. Changed(q) \in Incident
      BY <1>1, ChangedType
    <3> QED  BY <1>2, <2>2, <3>1, ServedType DEF updateIncident, TypeOK, StoreTypeOK
  <2> QED  BY <1>5, <2>1, <2>2 DEF UpdateStatus, Conflict
<1>6. CASE MovePointer(r)
  <2>1. CASE deleteActivePointer /\ Served(r, "outbox")
    BY <1>2, <2>1, ServedType DEF deleteActivePointer, TypeOK, StoreTypeOK, ActiveIncidentPointer
  <2>2. CASE CanUpdatePointer /\ updateActivePointer(Status(q)) /\ Served(r, "outbox")
    <3>1. Status(q) \in IncidentStatus
      BY DEF Status, IncidentStatus
    <3>2. pointer' \in ActiveIncidentPointer
      BY <2>2, <3>1
      DEF CanUpdatePointer, updateActivePointer, TypeOK, StoreTypeOK, ActiveIncidentPointer
    <3> QED  BY <1>2, <2>2, <3>2, ServedType DEF updateActivePointer, TypeOK, StoreTypeOK
  <2>3. CASE Goes(r, "500") /\ UNCHANGED <<tables, faults>>
    BY <1>2, <2>3, ServedType DEF tables, TypeOK, StoreTypeOK
  <2> QED  BY <1>6, <2>1, <2>2, <2>3 DEF MovePointer
<1>7. CASE Publish(r)
  <2>1. CASE putOutboxEvent(Publishes(q)) /\ Served(r, "200")
    <3>1. q.id \in IncidentIds
      BY <1>7 DEF Publish, CopiesAreTrue, RequestCopies
    <3>2. Publishes(q) \in OutboxEvent
      BY <1>1, <3>1, PublishesType
    <3> QED  BY <1>2, <2>1, <3>2, ServedType DEF putOutboxEvent, TypeOK, StoreTypeOK
  <2>2. CASE Goes(r, "500") /\ UNCHANGED <<tables, faults>>
    BY <1>2, <2>2, ServedType DEF tables, TypeOK, StoreTypeOK
  <2> QED  BY <1>7, <2>1, <2>2 DEF Publish
<1>8. CASE RequestFails(r)
  BY <1>2, <1>8, ServedType DEF RequestFails, tables, TypeOK, StoreTypeOK
<1> QED
  BY <1>3, <1>4, <1>5, <1>6, <1>7, <1>8 DEF Api, ApiStep, Serve

LEMMA LagType ==
  ASSUME TypeOK, Lag
  PROVE  TypeOK'
BY DEF Lag, Replicate, tables, TypeOK, StoreTypeOK

LEMMA TypeInit == Init => TypeOK
<1> SUFFICES ASSUME Init PROVE TypeOK
  OBVIOUS
<1>1. StoreTypeOK
  BY Defaults, StoreAssumption
  DEF Init, StoreInit, StoreTypeOK, ActiveIncidentPointer
<1>2. attempt \in [EventIds -> Attempt]
  BY MessageType DEF Init, EngineInit, AttemptPc
<1>3. request \in [Requests -> Request]
  BY UnhandledType DEF Init, ApiInit, RequestPc
<1> QED  BY <1>1, <1>2, <1>3 DEF TypeOK

-----------------------------------------------------------------------------
(* Copies age well: a copy that was true stays true as versions only rise.  *)

Later(t, u) == \A i \in IncidentIds : u[i] = t[i] \/ u[i].version > t[i].version

LEMMA PastStays ==
  ASSUME NEW c \in Incident, NEW x \in Incident, NEW y \in Incident,
         IsPast(c, x), y = x \/ y.version > x.version
  PROVE  IsPast(c, y)
BY DEF IsPast, Incident

LEMMA AttemptStays ==
  ASSUME NEW t \in [IncidentIds -> Incident], NEW u \in [IncidentIds -> Incident],
         Later(t, u), NEW a \in Attempt, AttemptCopies(a, t)
  PROVE  AttemptCopies(a, u)
<1>1. a.seen \in Incident /\ Updated(a) \in Incident
  BY UpdatedType DEF Attempt
<1>2. ASSUME a.id \in IncidentIds
      PROVE  /\ t[a.id] \in Incident /\ u[a.id] \in Incident
             /\ u[a.id] = t[a.id] \/ u[a.id].version > t[a.id].version
  BY <1>2 DEF Later
<1> QED  BY <1>1, <1>2, PastStays DEF AttemptCopies

LEMMA RequestStays ==
  ASSUME NEW t \in [IncidentIds -> Incident], NEW u \in [IncidentIds -> Incident],
         Later(t, u), NEW q \in Request, RequestCopies(q, t)
  PROVE  RequestCopies(q, u)
<1>1. q.seen \in Incident /\ Changed(q) \in Incident
  BY ChangedType DEF Request
<1>2. ASSUME q.id \in IncidentIds
      PROVE  /\ t[q.id] \in Incident /\ u[q.id] \in Incident
             /\ u[q.id] = t[q.id] \/ u[q.id].version > t[q.id].version
  BY <1>2 DEF Later
<1> QED  BY <1>1, <1>2, PastStays DEF RequestCopies

\* What is left to show of a step: versions rise, and every copy that the step
\* makes is true after it.
LEMMA CopiesKept ==
  ASSUME TypeOK, TypeOK', CopiesAreTrue, Later(incidents, incidents'),
         \A i \in IncidentIds : oldIncidents'[i] \in {oldIncidents[i], incidents[i]},
         \A e \in EventIds : attempt'[e] = attempt[e] \/ AttemptCopies(attempt'[e], incidents'),
         \A r \in Requests : request'[r] = request[r] \/ RequestCopies(request'[r], incidents'),
         \A o \in outbox' : o \in outbox \/ IsPast(o.detail, incidents'[o.incidentId])
  PROVE  CopiesAreTrue'
<1>1. ASSUME NEW i \in IncidentIds PROVE IsPast(oldIncidents'[i], incidents'[i])
  <2>1. /\ oldIncidents[i] \in Incident /\ incidents[i] \in Incident /\ incidents'[i] \in Incident
        /\ IsPast(oldIncidents[i], incidents[i]) /\ IsPast(incidents[i], incidents[i])
        /\ incidents'[i] = incidents[i] \/ incidents'[i].version > incidents[i].version
    BY DEF TypeOK, StoreTypeOK, CopiesAreTrue, Later, IsPast, Incident
  <2> QED  BY <2>1, PastStays
<1>2. ASSUME NEW e \in EventIds PROVE AttemptCopies(attempt'[e], incidents')
  BY AttemptStays DEF TypeOK, StoreTypeOK, CopiesAreTrue
<1>3. ASSUME NEW r \in Requests PROVE RequestCopies(request'[r], incidents')
  BY RequestStays DEF TypeOK, StoreTypeOK, CopiesAreTrue
<1>4. ASSUME NEW o \in outbox' PROVE IsPast(o.detail, incidents'[o.incidentId])
  <2>1. CASE o \in outbox
    <3>1. /\ o.detail \in Incident /\ o.incidentId \in IncidentIds
          /\ IsPast(o.detail, incidents[o.incidentId])
      BY <2>1 DEF TypeOK, StoreTypeOK, OutboxEvent, CopiesAreTrue
    <3> QED  BY <3>1, PastStays DEF TypeOK, StoreTypeOK, Later
  <2> QED  BY <1>4, <2>1
<1> QED  BY <1>1, <1>2, <1>3, <1>4 DEF CopiesAreTrue

-----------------------------------------------------------------------------
(* The copies a handler makes *)

Still == {"queued", "lookup", "create", "dropPointer", "failing"} \cup Settled

LEMMA StillCopies ==
  ASSUME NEW a, a.pc \in Still, NEW t
  PROVE  AttemptCopies(a, t)
BY DEF AttemptCopies, Still, Settled, Announcing, Updating

LEMMA MovedCopies ==
  ASSUME NEW a \in Attempt, NEW t, AttemptCopies(a, t), NEW n \in AttemptPc,
         \/ a.pc \in Updating \ {"update"} /\ n \in (Updating \ {"update"}) \cup {"done"}
         \/ a.pc \in Announcing /\ n \in Announcing \cup {"done"}
  PROVE  AttemptCopies(To(a, n), t)
<1>1. CASE n = "done"
  BY <1>1, ToType, StillCopies DEF Still, Settled
<1>2. CASE n # "done"
  <2>1. To(a, n) = [a EXCEPT !.pc = n]
    BY <1>2 DEF To, Settled, Updating, Announcing
  <2>2. /\ To(a, n).pc = n /\ To(a, n).id = a.id /\ To(a, n).seen = a.seen
        /\ Updated(To(a, n)) = Updated(a)
    BY <2>1 DEF Attempt, Updated
  <2> QED  BY <1>2, <2>2 DEF AttemptCopies, Announcing, Updating
<1> QED  BY <1>1, <1>2

LEMMA AnsweredCopies ==
  ASSUME TypeOK, NEW e \in EventIds, NEW b, AttemptCopies(b, incidents'),
         Answered(e, b) \/ Becomes(e, b) \/ Becomes(e, Threw(attempt[e]))
  PROVE  \A x \in EventIds : attempt'[x] = attempt[x] \/ AttemptCopies(attempt'[x], incidents')
<1>1. AttemptCopies(Threw(attempt[e]), incidents')
  BY ThrewType, StillCopies DEF TypeOK, Still
<1> QED  BY <1>1 DEF Answered, Becomes, TypeOK

LEMMA ServedCopies ==
  ASSUME TypeOK, NEW r \in Requests, NEW q, RequestCopies(q, incidents'),
         \/ Replies(r, q)
         \/ \E pc \in Answers : Goes(r, pc)
  PROVE  \A x \in Requests : request'[x] = request[x] \/ RequestCopies(request'[x], incidents')
<1>1. \A pc \in Answers : RequestCopies(Unhandled(pc), incidents')
  BY DEF RequestCopies, Unhandled, Answers
<1> QED  BY <1>1 DEF Goes, Replies, TypeOK

LEMMA SameTable ==
  ASSUME UNCHANGED incidents
  PROVE  Later(incidents, incidents')
BY DEF Later

LEMMA EngineKeepsCopies ==
  ASSUME TypeOK, TypeOK', CopiesAreTrue, NEW e \in EventIds, Engine(e)
  PROVE  CopiesAreTrue'
<1> DEFINE a == attempt[e]
           New == \A x \in EventIds :
                    attempt'[x] = attempt[x] \/ AttemptCopies(attempt'[x], incidents')
           Out == \A o \in outbox' : o \in outbox \/ IsPast(o.detail, incidents'[o.incidentId])
<1>1. /\ a \in Attempt /\ AttemptCopies(a, incidents)
      /\ UNCHANGED <<oldIncidents, oldPointer, request>>
  BY DEF TypeOK, CopiesAreTrue, Engine, lagging
<1> SUFFICES Later(incidents, incidents') /\ New /\ Out
  BY <1>1, CopiesKept
<1>2. CASE Receive(e)
  <2>1. PICK b : Becomes(e, b) /\ b.pc = "lookup"
    <3>1. PICK s \in Suppression, sev \in EventSeverity :
            Becomes(e, [a EXCEPT !.pc = "lookup", !.receives = @ + 1,
                                 !.suppressed = s, !.severity = sev])
      BY <1>2 DEF Receive
    <3>2. [a EXCEPT !.pc = "lookup", !.receives = @ + 1,
                    !.suppressed = s, !.severity = sev].pc = "lookup"
      BY <1>1 DEF Attempt
    <3> QED  BY <3>1, <3>2
  <2> QED  BY <1>2, <2>1, StillCopies, AnsweredCopies, SameTable DEF Receive, tables, Still
<1>3. CASE LookUp(e)
  <2>1. PICK p \in getActiveIncident :
          \/ /\ p # NoPointer
             /\ Becomes(e, [a EXCEPT !.pc = "read", !.id = p.incidentId])
          \/ Becomes(e, To(a, "create"))
          \/ Becomes(e, To(a, "failing"))
    BY <1>3 DEF LookUp
  <2>2. p # NoPointer => p.incidentId \in IncidentIds
    BY DEF getActiveIncident, TypeOK, StoreTypeOK, ActiveIncidentPointer
  <2>3. p # NoPointer => AttemptCopies([a EXCEPT !.pc = "read", !.id = p.incidentId], incidents')
    BY <1>1, <2>2 DEF Attempt, AttemptCopies, Announcing, Updating
  <2>4. To(a, "create").pc = "create" /\ To(a, "failing").pc = "failing"
    BY <1>1, ToType DEF AttemptPc, Handling, Opening
  <2>5. AttemptCopies(To(a, "create"), incidents') /\ AttemptCopies(To(a, "failing"), incidents')
    BY <2>4, StillCopies DEF Still
  <2>6. New
    BY <2>1, <2>3, <2>5, AnsweredCopies
  <2> QED  BY <1>3, <2>6, SameTable DEF LookUp, tables
<1>4. CASE Create(e)
  <2>1. CASE Refused(e)
    <3>1. New
      BY <1>1, <2>1, StillCopies, ThrewType, AnsweredCopies DEF Refused, Still
    <3> QED  BY <2>1, <3>1, SameTable DEF Refused, tables
  <2>2. CASE ~Refused(e)
    <3> DEFINE b(i) == [a EXCEPT !.pc = IF a.suppressed THEN "openOutbox" ELSE "openTimeline",
                                 !.id = i, !.seen = NewIncident(a)]
    <3>1. PICK i \in IncidentIds \ Opened :
            createIncident(i, NewIncident(a)) /\ Answered(e, b(i))
      BY <1>4, <2>2 DEF Create
    <3>2. NewIncident(a) \in Incident /\ NewIncident(a).version = 1
      BY <1>1, NewIncidentType
    <3>3. incidents'[i] = NewIncident(a) /\ incidents[i].version = 0
      BY <3>1 DEF createIncident, Opened, TypeOK, StoreTypeOK, Incident
    <3>4. Later(incidents, incidents')
      BY <3>1, <3>2, <3>3 DEF Later, createIncident, TypeOK, StoreTypeOK
    <3>5. /\ b(i).pc \in {"openOutbox", "openTimeline"} /\ b(i).id = i
          /\ b(i).seen = NewIncident(a)
      BY <1>1 DEF Attempt
    <3>6. AttemptCopies(b(i), incidents')
      BY <3>2, <3>3, <3>5 DEF AttemptCopies, Announcing, Updating, IsPast
    <3>7. New
      BY <3>1, <3>6, AnsweredCopies
    <3> QED  BY <3>1, <3>4, <3>7 DEF createIncident
  <2> QED  BY <2>1, <2>2
<1>5. CASE Read(e)
  <2> DEFINE b(c) == [a EXCEPT !.pc = IF c.version = 0 THEN "dropPointer" ELSE "update",
                               !.seen = c]
  <2>1. PICK c \in getIncidentById(a.id) : Becomes(e, b(c))
    BY <1>5 DEF Read
  <2>2. a.id \in IncidentIds
    BY <1>1, <1>5 DEF Read, At, AttemptCopies
  <2>3. c \in Incident /\ IsPast(c, incidents[a.id])
    BY <2>1, <2>2 DEF getIncidentById, TypeOK, StoreTypeOK, CopiesAreTrue, IsPast, Incident
  <2>4. /\ b(c).pc = IF c.version = 0 THEN "dropPointer" ELSE "update"
        /\ b(c).id = a.id /\ b(c).seen = c
    BY <1>1 DEF Attempt
  <2>5. AttemptCopies(b(c), incidents)
    BY <2>2, <2>3, <2>4 DEF AttemptCopies, Announcing, Updating, Incident
  <2>6. New
    BY <1>5, <2>1, <2>5, AnsweredCopies DEF Read, tables
  <2> QED  BY <1>5, <2>6, SameTable DEF Read, tables
<1>6. CASE DropPointer(e)
  <2>1. [a EXCEPT !.pc = "create", !.via = "again", !.id = NoId].pc = "create"
    BY <1>1 DEF Attempt
  <2>2. New
    BY <1>6, <2>1, StillCopies, AnsweredCopies DEF DropPointer, Still
  <2> QED  BY <1>6, <2>2, SameTable DEF DropPointer, deleteActivePointer
<1>7. CASE Update(e)
  <2>1. CASE Refused(e)
    <3>1. New
      BY <1>1, <2>1, StillCopies, ThrewType, AnsweredCopies DEF Refused, Still
    <3> QED  BY <2>1, <3>1, SameTable DEF Refused, tables
  <2>2. CASE ~Refused(e)
    <3>1. /\ a.pc = "update" /\ a.seen.version = incidents[a.id].version
          /\ updateIncident(a.id, Updated(a)) /\ Answered(e, To(a, "pointer"))
      BY <1>7, <2>2 DEF Update, CanUpdate, At
    <3>2. a.id \in IncidentIds /\ a.seen.version > 0
      BY <1>1, <3>1 DEF AttemptCopies, Updating
    <3>3. Updated(a) \in Incident /\ Updated(a).version = a.seen.version + 1
      BY <1>1, UpdatedType
    <3>4. incidents' = [incidents EXCEPT ![a.id] = Updated(a)] /\ UNCHANGED outbox
      BY <3>1 DEF updateIncident
    <3>5. incidents'[a.id] = Updated(a)
      BY <3>2, <3>4 DEF TypeOK, StoreTypeOK
    <3>6. Later(incidents, incidents')
      BY <3>1, <3>2, <3>3, <3>4 DEF Later, TypeOK, StoreTypeOK, Incident
    <3>7. /\ To(a, "pointer").pc = "pointer" /\ To(a, "pointer").id = a.id
          /\ To(a, "pointer").seen = a.seen /\ Updated(To(a, "pointer")) = Updated(a)
      BY <1>1 DEF To, Settled, Attempt, Updated
    <3>8. IsPast(a.seen, incidents'[a.id]) /\ IsPast(Updated(a), incidents'[a.id])
      BY <1>1, <3>3, <3>5 DEF IsPast, Attempt, Incident
    <3>9. AttemptCopies(To(a, "pointer"), incidents')
      BY <3>2, <3>7, <3>8 DEF AttemptCopies, Announcing, Updating
    <3>10. New
      BY <3>1, <3>9, AnsweredCopies
    <3> QED  BY <3>4, <3>6, <3>10
  <2> QED  BY <2>1, <2>2
<1>8. CASE Pointer(e)
  <2>1. UNCHANGED <<incidents, outbox>>
    BY <1>8 DEF Pointer, Refused, tables, updateActivePointer, deleteActivePointer
  <2>2. a.pc = "pointer" /\ AfterPointer(a) \in {"timeline", "outbox", "ai", "done"}
    BY <1>8 DEF Pointer, At, AfterPointer, AfterTimeline
  <2>3. AttemptCopies(To(a, AfterPointer(a)), incidents')
    BY <1>1, <2>1, <2>2, MovedCopies DEF Updating, AttemptPc, Handling, Settled
  <2>4. New
    BY <1>8, <2>3, AnsweredCopies DEF Pointer, Refused
  <2> QED  BY <2>1, <2>4, SameTable
<1>9. CASE RecordEvent(e)
  <2> DEFINE n == IF At(e, "timeline") THEN AfterTimeline(a) ELSE "openOutbox"
  <2>1. UNCHANGED <<incidents, outbox>> /\ Answered(e, To(a, n))
    BY <1>9 DEF RecordEvent, recordIncidentEvent
  <2>2. \/ a.pc = "timeline" /\ n \in {"outbox", "ai", "done"}
        \/ a.pc = "openTimeline" /\ n = "openOutbox"
    BY <1>9 DEF RecordEvent, At, AfterTimeline
  <2>3. AttemptCopies(To(a, n), incidents')
    BY <1>1, <2>1, <2>2, MovedCopies DEF Updating, Announcing, AttemptPc, Handling, Opening, Settled
  <2>4. New
    BY <2>1, <2>3, AnsweredCopies
  <2> QED  BY <2>1, <2>4, SameTable
<1>10. CASE Announce(e) \/ enqueueAiAnalysis(e)
  <2>1. PICK n : /\ PutOutbox(e, n)
                 /\ \/ a.pc \in {"openOutbox", "openAi"} /\ n \in {"openAi", "done"}
                    \/ a.pc \in {"outbox", "ai"} /\ n \in {"ai", "done"}
    BY <1>10 DEF Announce, enqueueAiAnalysis, At
  <2>2. UNCHANGED incidents
    BY <2>1 DEF PutOutbox, Refused, tables, putOutboxEvent
  <2>3. AttemptCopies(To(a, n), incidents')
    BY <1>1, <2>1, <2>2, MovedCopies DEF Updating, Announcing, AttemptPc, Handling, Opening, Settled
  <2>4. New
    BY <2>1, <2>3, AnsweredCopies DEF PutOutbox, Refused
  <2>5. IsPast(Announces(a).detail, incidents'[Announces(a).incidentId])
    BY <1>1, <2>1, <2>2 DEF Announces, AttemptCopies, Opening, Announcing, Updating
  <2>6. Out
    BY <2>1, <2>5 DEF PutOutbox, Refused, tables, putOutboxEvent
  <2> QED  BY <2>2, <2>4, <2>6, SameTable
<1>11. CASE Fail(e) \/ Crash(e)
  <2>1. PICK pc \in {"queued", "dlq", "lost"} : Becomes(e, To(a, pc))
    BY <1>11 DEF Fail, Crash, Redelivered
  <2>2. To(a, pc).pc = pc
    BY <1>1, ToType DEF AttemptPc, Settled
  <2>3. AttemptCopies(To(a, pc), incidents')
    BY <2>2, StillCopies DEF Still, Settled
  <2>4. New
    BY <2>1, <2>3, AnsweredCopies
  <2> QED  BY <1>11, <2>4, SameTable DEF Fail, Crash, tables
<1>12. CASE CallFails(e)
  <2>1. New
    BY <1>1, <1>12, StillCopies, ThrewType, AnsweredCopies DEF CallFails, Still
  <2> QED  BY <1>12, <2>1, SameTable DEF CallFails, tables
<1> QED
  BY <1>2, <1>3, <1>4, <1>5, <1>6, <1>7, <1>8, <1>9, <1>10, <1>11, <1>12
     DEF Engine, EngineStep, Handle

LEMMA ApiKeepsCopies ==
  ASSUME TypeOK, TypeOK', CopiesAreTrue, NEW r \in Requests, Api(r)
  PROVE  CopiesAreTrue'
<1> DEFINE q == request[r]
           New == \A x \in Requests :
                    request'[x] = request[x] \/ RequestCopies(request'[x], incidents')
           Out == \A o \in outbox' : o \in outbox \/ IsPast(o.detail, incidents'[o.incidentId])
           Moved(pc) == [q EXCEPT !.pc = pc]
<1>1. /\ q \in Request /\ RequestCopies(q, incidents)
      /\ UNCHANGED <<oldIncidents, oldPointer, attempt>>
  BY DEF TypeOK, CopiesAreTrue, Api, lagging
<1> SUFFICES Later(incidents, incidents') /\ New /\ Out
  BY <1>1, CopiesKept
<1>2. ASSUME NEW pc \in {"pointer", "outbox"}
      PROVE  /\ Moved(pc).pc = pc /\ Moved(pc).id = q.id /\ Moved(pc).seen = q.seen
             /\ Moved(pc).action = q.action
             /\ Changed(Moved(pc)) = Changed(q)
  BY <1>1 DEF Request, Changed, Status
<1>3. CASE Post(r)
  <2>1. PICK i \in Opened, action \in Actions :
          Replies(r, [q EXCEPT !.pc = "read", !.action = action, !.id = i])
    BY <1>3 DEF Post
  <2>2. RequestCopies([q EXCEPT !.pc = "read", !.action = action, !.id = i], incidents')
    BY <1>1, <2>1 DEF Request, RequestCopies, Opened
  <2>3. New
    BY <2>1, <2>2, ServedCopies
  <2> QED  BY <1>3, <2>3, SameTable DEF Post, tables
<1>4. CASE GetIncident(r)
  <2>1. PICK c \in getIncidentById(q.id) :
          \/ \E pc \in Answers : Goes(r, pc)
          \/ /\ c.version > 0 /\ MayChange(q, c)
             /\ Replies(r, [q EXCEPT !.pc = "update", !.seen = c])
    BY <1>4 DEF GetIncident, Answers
  <2>2. q.id \in IncidentIds
    BY <1>1, <1>4 DEF GetIncident, RequestCopies
  <2>3. c \in Incident /\ IsPast(c, incidents[q.id])
    BY <2>1, <2>2 DEF getIncidentById, TypeOK, StoreTypeOK, CopiesAreTrue, IsPast, Incident
  <2> DEFINE b == [q EXCEPT !.pc = "update", !.seen = c]
  <2>4. b.pc = "update" /\ b.id = q.id /\ b.seen = c /\ b.action = q.action
    BY <1>1 DEF Request
  <2>5. c.version > 0 /\ MayChange(q, c) => RequestCopies(b, incidents)
    BY <2>2, <2>3, <2>4 DEF RequestCopies, MayChange, Status
  <2>6. UNCHANGED incidents
    BY <1>4 DEF GetIncident, tables
  <2>7. CASE \E pc \in Answers : Goes(r, pc)
    <3>1. RequestCopies(Unhandled("200"), incidents')
      BY DEF RequestCopies, Unhandled
    <3>2. New
      BY <2>7, <3>1, ServedCopies
    <3> QED  BY <1>4, <3>2, SameTable DEF GetIncident, tables
  <2>8. CASE c.version > 0 /\ MayChange(q, c) /\ Replies(r, b)
    <3>1. New
      BY <2>5, <2>6, <2>8, ServedCopies
    <3> QED  BY <1>4, <3>1, SameTable DEF GetIncident, tables
  <2> QED  BY <2>1, <2>7, <2>8
<1>5. ASSUME \E pc \in Answers : Goes(r, pc), UNCHANGED tables
      PROVE  Later(incidents, incidents') /\ New /\ Out
  <2>1. RequestCopies(Unhandled("200"), incidents')
    BY DEF RequestCopies, Unhandled
  <2>2. New
    BY <1>5, <2>1, ServedCopies
  <2> QED  BY <1>5, <2>2, SameTable DEF tables
<1>6. ASSUME NEW pc \in {"pointer", "outbox"}, Served(r, pc), RequestCopies(Moved(pc), incidents')
      PROVE  New
  <2>1. Replies(r, Moved(pc)) \/ Goes(r, "500")
    BY <1>6 DEF Served, Goes, Answers
  <2> QED  BY <1>6, <2>1, ServedCopies DEF Answers
<1>7. CASE UpdateStatus(r)
  <2>1. CASE Goes(r, "409") /\ UNCHANGED <<tables, faults>>
    BY <1>5, <2>1 DEF Answers
  <2>2. CASE /\ q.pc = "update" /\ CanUpdate(q.id, q.seen.version)
             /\ updateIncident(q.id, Changed(q)) /\ Served(r, "pointer")
    <3>1. /\ q.id \in IncidentIds /\ q.seen.version > 0 /\ MayChange(q, q.seen)
          /\ q.seen.version = incidents[q.id].version
      BY <1>1, <2>2 DEF RequestCopies, CanUpdate
    <3>2. Changed(q) \in Incident /\ Changed(q).version = q.seen.version + 1
      BY <1>1, ChangedType
    <3>3. incidents' = [incidents EXCEPT ![q.id] = Changed(q)] /\ UNCHANGED outbox
      BY <2>2 DEF updateIncident
    <3>4. incidents'[q.id] = Changed(q)
      BY <3>1, <3>3 DEF TypeOK, StoreTypeOK
    <3>5. Later(incidents, incidents')
      BY <3>1, <3>2, <3>3 DEF Later, TypeOK, StoreTypeOK, Incident
    <3>6. IsPast(q.seen, incidents'[q.id]) /\ IsPast(Changed(q), incidents'[q.id])
      BY <1>1, <3>2, <3>4 DEF IsPast, Request, Incident
    <3>7. RequestCopies(Moved("pointer"), incidents')
      BY <1>2, <3>1, <3>6 DEF RequestCopies, MayChange, Status
    <3>8. New
      BY <1>6, <2>2, <3>7
    <3> QED  BY <3>3, <3>5, <3>8
  <2> QED  BY <1>7, <2>1, <2>2 DEF UpdateStatus, Conflict
<1>8. CASE MovePointer(r)
  <2>1. CASE Goes(r, "500") /\ UNCHANGED <<tables, faults>>
    BY <1>5, <2>1 DEF Answers
  <2>2. CASE q.pc = "pointer" /\ UNCHANGED <<incidents, outbox>> /\ Served(r, "outbox")
    <3>1. RequestCopies(Moved("outbox"), incidents')
      BY <1>1, <1>2, <2>2 DEF RequestCopies, MayChange, Status
    <3> QED  BY <1>6, <2>2, <3>1, SameTable
  <2> QED
    BY <1>8, <2>1, <2>2 DEF MovePointer, deleteActivePointer, updateActivePointer
<1>9. CASE Publish(r)
  <2>1. CASE Goes(r, "500") /\ UNCHANGED <<tables, faults>>
    BY <1>5, <2>1 DEF Answers
  <2>2. CASE q.pc = "outbox" /\ putOutboxEvent(Publishes(q)) /\ Served(r, "200")
    <3>1. \E pc \in Answers : Goes(r, pc)
      BY <2>2 DEF Served, Answers
    <3>2. RequestCopies(Unhandled("200"), incidents')
      BY DEF RequestCopies, Unhandled
    <3>3. New
      BY <3>1, <3>2, ServedCopies
    <3>4. IsPast(Publishes(q).detail, incidents[Publishes(q).incidentId])
      BY <1>1, <2>2 DEF Publishes, RequestCopies
    <3> QED  BY <2>2, <3>3, <3>4, SameTable DEF putOutboxEvent
  <2> QED  BY <1>9, <2>1, <2>2 DEF Publish
<1>10. CASE RequestFails(r)
  BY <1>5, <1>10 DEF RequestFails, Answers
<1> QED
  BY <1>3, <1>4, <1>7, <1>8, <1>9, <1>10 DEF Api, ApiStep, Serve

LEMMA LagKeepsCopies ==
  ASSUME TypeOK, TypeOK', CopiesAreTrue, Lag
  PROVE  CopiesAreTrue'
<1>1. \A i \in IncidentIds : oldIncidents'[i] \in {oldIncidents[i], incidents[i]}
  BY DEF Lag, Replicate, TypeOK, StoreTypeOK
<1> QED
  BY <1>1, SameTable, CopiesKept DEF Lag, Replicate, tables

LEMMA CopiesInit == Init => CopiesAreTrue
<1> SUFFICES ASSUME Init PROVE CopiesAreTrue
  OBVIOUS
<1>1. \A i \in IncidentIds : IsPast(oldIncidents[i], incidents[i])
  <2>1. \A i \in IncidentIds : oldIncidents[i] = NoIncident /\ incidents[i] = NoIncident
    BY DEF Init, StoreInit
  <2>2. IsPast(NoIncident, NoIncident)
    BY DEF IsPast, NoIncident
  <2> QED  BY <2>1, <2>2
<1>2. \A e \in EventIds : AttemptCopies(attempt[e], incidents)
  BY DEF Init, EngineInit, Message, AttemptCopies, Announcing, Updating
<1>3. \A r \in Requests : RequestCopies(request[r], incidents)
  BY DEF Init, ApiInit, Unhandled, RequestCopies
<1> QED  BY <1>1, <1>2, <1>3 DEF Init, StoreInit, CopiesAreTrue

-----------------------------------------------------------------------------
(* The theorems *)

\* TypeOK is inductive only together with CopiesAreTrue, which knows that a
\* handler that reads, updates or announces has an incident at hand.
IInv == TypeOK /\ CopiesAreTrue

LEMMA Inductive == IInv /\ [Next]_vars => IInv'
<1> SUFFICES ASSUME TypeOK, CopiesAreTrue, [Next]_vars PROVE TypeOK' /\ CopiesAreTrue'
  BY DEF IInv
<1>1. ASSUME NEW e \in EventIds, Engine(e) PROVE TypeOK' /\ CopiesAreTrue'
  BY <1>1, EngineType, EngineKeepsCopies
<1>2. ASSUME NEW r \in Requests, Api(r) PROVE TypeOK' /\ CopiesAreTrue'
  BY <1>2, ApiType, ApiKeepsCopies
<1>3. CASE Lag
  BY <1>3, LagType, LagKeepsCopies
<1>4. CASE UNCHANGED vars
  BY <1>4 DEF vars, storeVars, TypeOK, StoreTypeOK, CopiesAreTrue
<1> QED  BY <1>1, <1>2, <1>3, <1>4 DEF Next, Terminating

THEOREM Invariance == Spec => []IInv
<1>1. Init => IInv
  BY TypeInit, CopiesInit DEF IInv
<1> QED  BY <1>1, Inductive, PTL DEF Spec

\* Every variable of the engine, the API and their tables keeps its type: in
\* particular no pointer to a nonexistent incident id is ever written.
THEOREM TypeCorrect == Spec => []TypeOK
<1>1. IInv => TypeOK
  BY DEF IInv
<1> QED  BY <1>1, Invariance, PTL

\* No handler, stale read or announcement ever disagrees with the table about
\* a version of an incident: optimistic locking on version is enough.
THEOREM CopiesCorrect == Spec => []CopiesAreTrue
<1>1. IInv => CopiesAreTrue
  BY DEF IInv
<1> QED  BY <1>1, Invariance, PTL

-----------------------------------------------------------------------------
(* Refinement: every step of the engine and the API is a step of the        *)
(* abstract lifecycle of the incident it has in hand, or leaves it alone.   *)

LEMMA EngineRefines ==
  ASSUME TypeOK, CopiesAreTrue, NEW e \in EventIds, Engine(e)
  PROVE  [Lifecycle!Next]_incidents
<1> DEFINE a == attempt[e]
<1>1. a \in Attempt /\ AttemptCopies(a, incidents)
  BY DEF TypeOK, CopiesAreTrue
<1> SUFFICES ASSUME incidents' # incidents PROVE Lifecycle!Next
  OBVIOUS
<1>2. CASE Create(e)
  <2>1. PICK i \in IncidentIds \ Opened : createIncident(i, NewIncident(a))
    BY <1>2 DEF Create, Refused, tables
  <2>2. incidents[i].version = 0
    BY <2>1 DEF Opened, TypeOK, StoreTypeOK, Incident
  <2>3. a.severity \in 1 .. MaxSeverity
    BY <1>1 DEF Attempt, Severity
  <2>4. Lifecycle!Open(i)
    <3>1. NewIncident(a) = [status |-> "OPEN", severity |-> a.severity, eventCount |-> 1,
                            version |-> incidents[i].version + 1]
      BY <2>2 DEF NewIncident
    <3>2. Lifecycle!Becomes(i, "OPEN", a.severity, 1)
      BY <2>1, <3>1 DEF createIncident, Lifecycle!Becomes
    <3> QED  BY <2>2, <2>3, <3>2 DEF Lifecycle!Open, Lifecycle!Absent
  <2> QED  BY <2>1, <2>4 DEF Lifecycle!Next
<1>3. CASE Update(e)
  <2>1. /\ a.pc = "update" /\ a.seen.version = incidents[a.id].version
        /\ incidents' = [incidents EXCEPT ![a.id] = Updated(a)]
    BY <1>3 DEF Update, At, CanUpdate, updateIncident, Refused, tables
  <2>2. a.id \in IncidentIds /\ a.seen = incidents[a.id] /\ a.seen.version > 0
    BY <1>1, <2>1 DEF AttemptCopies, Updating, IsPast
  <2> DEFINE i == a.id
             sev == Updated(a).severity
             counted == IF a.suppressed THEN 0 ELSE 1
  <2>3. /\ Updated(a) \in Incident /\ Updated(a).status = a.seen.status
        /\ Updated(a).eventCount = a.seen.eventCount + counted
        /\ Updated(a).version = a.seen.version + 1
    BY <1>1, UpdatedType DEF Updated, Attempt, Incident
  <2>4. sev \in incidents[i].severity .. MaxSeverity
    BY <1>1, <2>2, <2>3, UpdatedType DEF Attempt, Incident, Severity
  <2>5. Lifecycle!Becomes(i, incidents[i].status, sev, incidents[i].eventCount + counted)
    BY <2>1, <2>2, <2>3 DEF Lifecycle!Becomes, Updated
  <2>6. ~Lifecycle!Absent(i) /\ counted \in {0, 1}
    BY <2>2 DEF Lifecycle!Absent
  <2>7. Lifecycle!Absorb(i)
    BY <2>4, <2>5, <2>6 DEF Lifecycle!Absorb
  <2> QED  BY <2>2, <2>7 DEF Lifecycle!Next
<1> QED
  BY <1>2, <1>3
  DEF Engine, EngineStep, Handle, Receive, LookUp, Read, DropPointer, Pointer, RecordEvent,
      Announce, enqueueAiAnalysis, PutOutbox, Fail, CallFails, Crash, Refused, tables,
      deleteActivePointer, updateActivePointer, recordIncidentEvent, putOutboxEvent

LEMMA ApiRefines ==
  ASSUME TypeOK, CopiesAreTrue, NEW r \in Requests, Api(r)
  PROVE  [Lifecycle!Next]_incidents
<1> DEFINE q == request[r]
<1>1. q \in Request /\ RequestCopies(q, incidents)
  BY DEF TypeOK, CopiesAreTrue
<1> SUFFICES ASSUME incidents' # incidents PROVE Lifecycle!Next
  OBVIOUS
<1>2. CASE UpdateStatus(r)
  <2>1. /\ q.pc = "update" /\ q.seen.version = incidents[q.id].version
        /\ incidents' = [incidents EXCEPT ![q.id] = Changed(q)]
    BY <1>2 DEF UpdateStatus, CanUpdate, updateIncident, tables
  <2>2. /\ q.id \in IncidentIds /\ q.seen = incidents[q.id] /\ q.seen.version > 0
        /\ MayChange(q, q.seen)
    BY <1>1, <2>1 DEF RequestCopies, IsPast
  <2>3. /\ q.seen.status \in IncidentStatus
        /\ Lifecycle!Becomes(q.id, Status(q), q.seen.severity, q.seen.eventCount)
    BY <1>1, <2>1, <2>2 DEF Request, Incident, Changed, Lifecycle!Becomes
  <2>4. ~Lifecycle!Absent(q.id)
    BY <2>2 DEF Lifecycle!Absent
  <2>5. CASE q.action = "ack"
    <3>1. Lifecycle!Acknowledge(q.id)
      BY <2>2, <2>3, <2>4, <2>5 DEF Lifecycle!Acknowledge, MayChange, Status, IncidentStatus
    <3> QED  BY <2>2, <3>1 DEF Lifecycle!Next
  <2>6. CASE q.action # "ack"
    <3>1. Lifecycle!Resolve(q.id)
      BY <2>2, <2>3, <2>4, <2>6 DEF Lifecycle!Resolve, MayChange, Status, IncidentStatus
    <3> QED  BY <2>2, <3>1 DEF Lifecycle!Next
  <2> QED  BY <2>5, <2>6
<1> QED
  BY <1>2
  DEF Api, ApiStep, Serve, Post, GetIncident, MovePointer, Publish, RequestFails, tables,
      deleteActivePointer, updateActivePointer, putOutboxEvent

\* The engine and the API, interleaved, with lost answers, failing calls, crashes
\* and stale reads, implement the abstract lifecycle: no event is ever taken
\* back, no severity lowered, no acknowledgement or resolution undone.
THEOREM Refinement == Spec => ImplementsLifecycle
<1>1. Init => Lifecycle!Init
  <2>1. NoIncident.version = 0
    BY DEF NoIncident
  <2> QED  BY <2>1 DEF Init, StoreInit, Lifecycle!Init, Lifecycle!Absent
<1>2. IInv /\ [Next]_vars => [Lifecycle!Next]_incidents
  BY EngineRefines, ApiRefines
  DEF IInv, Next, Terminating, vars, storeVars, Lag, Replicate, tables
<1> QED
  BY <1>1, <1>2, Invariance, PTL DEF Spec, ImplementsLifecycle, Lifecycle!Spec
=============================================================================
