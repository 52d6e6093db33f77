------------------------ MODULE IncidentHistory_proofs ------------------------
(***************************************************************************)
(* TLAPS proofs of what IncidentCore's outbox and timeline tell of the     *)
(* incidents table.  A change is made by the request that writes it to     *)
(* the table, and its maker has it in hand until it has told the outbox    *)
(* of it, or has failed; what is proved of announcements is proved of the  *)
(* changes in hand as well.                                                *)
(***************************************************************************)
EXTENDS IncidentCore_proofs, FiniteSetTheorems

-----------------------------------------------------------------------------
(* Changes: announced, in hand, and made by a step *)

Making == Announcing \cup (Updating \ {"update"})
Serving == {"pointer", "outbox"}

ChangeOf(o) == [incidentId |-> o.incidentId, changeType |-> o.changeType, detail |-> o.detail]
InHand(a) == ChangeOf(Announces(a))
InService(q) == ChangeOf(Publishes(q))

Below(c, d) ==
  /\ c.version <= d.version
  /\ Rank(c.status) <= Rank(d.status)
  /\ c.severity <= d.severity
  /\ c.eventCount <= d.eventCount

\* What is said of a change, and why it may follow an incident as it was.
Follows(c, before) ==
  /\ c.detail.version = before.version + 1
  /\ Below(before, c.detail)
  /\ c.changeType = "OPENED" <=> c.detail.version = 1
  /\ c.changeType \in {"ACKED", "RESOLVED"} =>
       c.detail.status = c.changeType /\ Rank(before.status) < Rank(c.changeType)

Makes(c) ==
  /\ c.incidentId \in IncidentIds
  /\ c.detail \in Incident
  /\ incidents' = [incidents EXCEPT ![c.incidentId] = c.detail]
  /\ Follows(c, incidents[c.incidentId])

\* An incident that was not opened is blank, and one being announced is new.
Blank ==
  /\ \A i \in IncidentIds : incidents[i].version = 0 => incidents[i] = NoIncident
  /\ \A e \in EventIds : attempt[e].pc \in Announcing => attempt[e].seen.version = 1

LEMMA Ranks ==
  /\ Rank("OPEN") = 0 /\ Rank("ACKED") = 1 /\ Rank("RESOLVED") = 2
  /\ \A s \in IncidentStatus : Rank(s) \in {0, 1, 2}
BY DEF Rank, IncidentStatus

-----------------------------------------------------------------------------
(* What a step of the engine does: a is the attempt before, b after it. *)

Holds(a, b) == b.pc \in Making => a.pc \in Making /\ InHand(b) = InHand(a)

Silent(a, b) ==
  /\ UNCHANGED <<incidents, outbox>>
  /\ Holds(a, b)
  /\ a.pc \in {"openAi", "ai"} => b.pc \notin Making

Tells(a, b) ==
  /\ UNCHANGED incidents
  /\ outbox' = outbox \cup {Announces(a)}
  /\ a.pc \in {"openOutbox", "openAi", "outbox", "ai"}
  /\ Holds(a, b)
  /\ b.pc \in Making => a.pc \in {"openOutbox", "outbox"} /\ b.pc \in {"openAi", "ai"}

Changes(b) ==
  /\ UNCHANGED outbox
  /\ \E c : /\ Makes(c)
            /\ b.pc \in Making => InHand(b) = c /\ b.pc \notin {"openAi", "ai"}

LEMMA NotMaking ==
  ASSUME NEW b, b.pc \in Still \cup {"read", "update"}
  PROVE  b.pc \notin Making
BY DEF Still, Settled, Making, Announcing, Updating

\* Moving on does not change what is in hand.
LEMMA MovedHand ==
  ASSUME NEW a \in Attempt, NEW n \in AttemptPc,
         \/ a.pc \in Updating \ {"update"} /\ n \in (Updating \ {"update"}) \cup {"done"}
         \/ a.pc \in Announcing /\ n \in Announcing \cup {"done"}
  PROVE  Holds(a, To(a, n)) /\ To(a, n).pc = n
<1>1. To(a, n).pc = n
  BY ToType
<1>2. CASE n = "done"
  <2>1. n \notin Making
    BY <1>2 DEF Making, Announcing, Updating
  <2> QED  BY <1>1, <2>1 DEF Holds
<1>3. CASE n # "done"
  <2>1. To(a, n) = [a EXCEPT !.pc = n]
    BY <1>3 DEF To, Settled, Updating, Announcing
  <2>2. /\ To(a, n).id = a.id /\ To(a, n).seen = a.seen
        /\ Updated(To(a, n)) = Updated(a)
    BY <2>1 DEF Attempt, Updated
  <2>3. a.pc \in Opening <=> n \in Opening
    BY <1>3 DEF Opening, Updating, Announcing
  <2>4. /\ Announces(To(a, n)).incidentId = Announces(a).incidentId
        /\ Announces(To(a, n)).changeType = Announces(a).changeType
        /\ Announces(To(a, n)).detail = Announces(a).detail
    BY <1>1, <2>2, <2>3 DEF Announces, Escalated
  <2>5. InHand(To(a, n)) = InHand(a)
    BY <2>4 DEF InHand, ChangeOf
  <2>6. a.pc \in Making
    BY DEF Making
  <2> QED  BY <1>1, <2>5, <2>6 DEF Holds
<1> QED  BY <1>2, <1>3

\* An answer is the move, or a failure.
LEMMA AnsweredMove ==
  ASSUME TypeOK, NEW e \in EventIds, NEW b,
         Answered(e, b) \/ Becomes(e, b)
  PROVE  /\ attempt'[e] = b \/ attempt'[e].pc \in {"lookup", "failing"}
         /\ \A x \in EventIds \ {e} : attempt'[x] = attempt[x]
BY ThrewType DEF Answered, Becomes, TypeOK

LEMMA RefusedMove ==
  ASSUME TypeOK, NEW e \in EventIds, Becomes(e, Threw(attempt[e])), UNCHANGED tables
  PROVE  Silent(attempt[e], attempt'[e])
<1>1. attempt'[e].pc \in {"lookup", "failing"}
  BY ThrewType DEF Becomes, TypeOK
<1>2. attempt'[e].pc \notin Making
  BY <1>1, NotMaking DEF Still
<1> QED  BY <1>2 DEF Silent, Holds, tables

LEMMA EngineMoves ==
  ASSUME TypeOK, CopiesAreTrue, Blank, NEW e \in EventIds, Engine(e)
  PROVE  \/ Silent(attempt[e], attempt'[e])
         \/ Tells(attempt[e], attempt'[e])
         \/ Changes(attempt'[e])
<1> DEFINE a == attempt[e]
           b == attempt'[e]
<1>1. a \in Attempt /\ AttemptCopies(a, incidents)
  BY DEF TypeOK, CopiesAreTrue
<1>2. ASSUME NEW c, Answered(e, c) \/ Becomes(e, c), UNCHANGED <<incidents, outbox>>,
             c.pc \in Still \cup {"read", "update"}
      PROVE  Silent(a, b)
  <2>1. b.pc \in Still \cup {"read", "update"}
    BY <1>2, AnsweredMove DEF Still
  <2> QED  BY <1>2, <2>1, NotMaking DEF Silent, Holds
<1>3. CASE Receive(e)
  <2>1. PICK c : Becomes(e, c) /\ c.pc = "lookup"
    <3>1. PICK s \in Suppression, sev \in EventSeverity :
            Becomes(e, [a EXCEPT !.pc = "lookup", !.receives = @ + 1,
                                 !.suppressed = s, !.severity = sev])
      BY <1>3 DEF Receive
    <3>2. [a EXCEPT !.pc = "lookup", !.receives = @ + 1,
                    !.suppressed = s, !.severity = sev].pc = "lookup"
      BY <1>1 DEF Attempt
    <3> QED  BY <3>1, <3>2
  <2>2. UNCHANGED <<incidents, outbox>>
    BY <1>3 DEF Receive, tables
  <2> QED  BY <1>2, <2>1, <2>2 DEF Still
<1>4. CASE LookUp(e)
  <2>1. PICK c : Becomes(e, c) /\ c.pc \in {"read", "create", "failing"}
    <3>1. PICK p \in getActiveIncident :
            \/ Becomes(e, [a EXCEPT !.pc = "read", !.id = p.incidentId])
            \/ Becomes(e, To(a, "create"))
            \/ Becomes(e, To(a, "failing"))
      BY <1>4 DEF LookUp
    <3>2. [a EXCEPT !.pc = "read", !.id = p.incidentId].pc = "read"
      BY <1>1 DEF Attempt
    <3>3. To(a, "create").pc = "create" /\ To(a, "failing").pc = "failing"
      BY <1>1, ToType DEF AttemptPc, Handling, Opening
    <3> QED  BY <3>1, <3>2, <3>3
  <2>2. UNCHANGED <<incidents, outbox>>
    BY <1>4 DEF LookUp, tables
  <2> QED  BY <1>2, <2>1, <2>2 DEF Still
<1>5. CASE Create(e)
  <2>1. CASE Refused(e)
    BY <2>1, RefusedMove DEF Refused
  <2>2. CASE ~Refused(e)
    <3> DEFINE c(i) == [a EXCEPT !.pc = IF a.suppressed THEN "openOutbox" ELSE "openTimeline",
                                 !.id = i, !.seen = NewIncident(a)]
    <3>1. PICK i \in IncidentIds \ Opened :
            createIncident(i, NewIncident(a)) /\ Answered(e, c(i))
      BY <1>5, <2>2 DEF Create
    <3> DEFINE n == NewIncident(a)
               d == [incidentId |-> i, changeType |-> "OPENED", detail |-> n]
    <3>2. n \in Incident /\ n.version = 1 /\ n.status = "OPEN" /\ n.eventCount = 1
      BY <1>1, NewIncidentType DEF NewIncident
    <3>3. incidents[i] = NoIncident
      BY <3>1 DEF Opened, TypeOK, StoreTypeOK, Incident, Blank
    <3>4. Below(NoIncident, n)
      BY <3>2, Ranks DEF Below, NoIncident, Incident, Severity
    <3>5. Follows(d, incidents[i])
      BY <3>2, <3>3, <3>4 DEF Follows, NoIncident
    <3>6. Makes(d)
      BY <3>1, <3>2, <3>5 DEF Makes, createIncident
    <3>7. /\ c(i).pc \in {"openOutbox", "openTimeline"} /\ c(i).id = i /\ c(i).seen = n
      BY <1>1 DEF Attempt
    <3>8. InHand(c(i)) = d
      BY <3>7 DEF InHand, ChangeOf, Announces, Opening
    <3> HIDE DEF c, d
    <3>9. b = c(i) \/ b.pc \notin Making
      <4>1. b = c(i) \/ b.pc \in {"lookup", "failing"}
        BY <3>1, AnsweredMove
      <4> QED  BY <4>1, NotMaking DEF Still
    <3>10. UNCHANGED outbox
      BY <3>1 DEF createIncident
    <3>11. b.pc \in Making => InHand(b) = d /\ b.pc \notin {"openAi", "ai"}
      BY <3>7, <3>8, <3>9
    <3> QED  BY <3>6, <3>10, <3>11 DEF Changes
  <2> QED  BY <2>1, <2>2
<1>6. CASE Read(e)
  <2>1. PICK c : Becomes(e, c) /\ c.pc \in {"dropPointer", "update"}
    <3>1. PICK incident \in getIncidentById(a.id) :
            Becomes(e, [a EXCEPT !.pc = IF incident.version = 0 THEN "dropPointer" ELSE "update",
                                 !.seen = incident])
      BY <1>6 DEF Read
    <3>2. [a EXCEPT !.pc = IF incident.version = 0 THEN "dropPointer" ELSE "update",
                    !.seen = incident].pc \in {"dropPointer", "update"}
      BY <1>1 DEF Attempt
    <3> QED  BY <3>1, <3>2
  <2>2. UNCHANGED <<incidents, outbox>>
    BY <1>6 DEF Read, tables
  <2> QED  BY <1>2, <2>1, <2>2 DEF Still
<1>7. CASE DropPointer(e)
  <2>1. [a EXCEPT !.pc = "create", !.via = "again", !.id = NoId].pc = "create"
    BY <1>1 DEF Attempt
  <2> QED  BY <1>2, <1>7, <2>1 DEF DropPointer, deleteActivePointer, Still
<1>8. CASE Update(e)
  <2>1. CASE Refused(e)
    BY <2>1, RefusedMove DEF Refused
  <2>2. CASE ~Refused(e)
    <3>1. /\ a.pc = "update" /\ a.seen.version = incidents[a.id].version
          /\ updateIncident(a.id, Updated(a)) /\ Answered(e, To(a, "pointer"))
      BY <1>8, <2>2 DEF Update, CanUpdate, At
    <3>2. a.id \in IncidentIds /\ a.seen.version > 0 /\ a.seen = incidents[a.id]
      BY <1>1, <3>1 DEF AttemptCopies, Updating, IsPast
    <3>3. /\ Updated(a) \in Incident /\ Updated(a).version = a.seen.version + 1
          /\ a.seen.severity <= Updated(a).severity
          /\ Updated(a).status = a.seen.status
      BY <1>1, UpdatedType DEF Updated
    <3>4. a.seen.eventCount <= Updated(a).eventCount
      BY <1>1 DEF Updated, Attempt, Incident
    <3>5. Below(a.seen, Updated(a))
      <4>1. a.seen.status \in IncidentStatus /\ a.seen.version \in Nat
        BY <1>1 DEF Attempt, Incident
      <4> QED  BY <3>3, <3>4, <4>1, Ranks DEF Below
    <3> DEFINE d == [incidentId |-> a.id, detail |-> Updated(a),
                     changeType |-> IF Escalated(a) THEN "ESCALATED" ELSE "UPDATED"]
    <3>6. Follows(d, incidents[a.id])
      <4>1. a.seen.version \in Nat
        BY <1>1 DEF Attempt, Incident
      <4> QED  BY <3>2, <3>3, <3>5, <4>1 DEF Follows
    <3>7. Makes(d)
      BY <3>1, <3>2, <3>3, <3>6 DEF Makes, updateIncident
    <3>8. /\ To(a, "pointer").pc = "pointer" /\ To(a, "pointer").id = a.id
          /\ To(a, "pointer").seen = a.seen /\ Updated(To(a, "pointer")) = Updated(a)
      BY <1>1 DEF To, Settled, Attempt, Updated
    <3>9. InHand(To(a, "pointer")) = d
      BY <3>8 DEF InHand, ChangeOf, Announces, Opening, Escalated
    <3>10. b = To(a, "pointer") \/ b.pc \notin Making
      <4>1. b = To(a, "pointer") \/ b.pc \in {"lookup", "failing"}
        BY <3>1, AnsweredMove
      <4> QED  BY <4>1, NotMaking DEF Still
    <3>11. UNCHANGED outbox
      BY <3>1 DEF updateIncident
    <3>12. b.pc \in Making => InHand(b) = d /\ b.pc \notin {"openAi", "ai"}
      BY <3>8, <3>9, <3>10
    <3> QED  BY <3>7, <3>11, <3>12 DEF Changes
  <2> QED  BY <2>1, <2>2
<1>9. ASSUME NEW n \in AttemptPc, Answered(e, To(a, n)), UNCHANGED <<incidents, outbox>>,
             \/ a.pc \in {"pointer", "timeline"} /\ n \in {"timeline", "outbox", "ai", "done"}
             \/ a.pc = "openTimeline" /\ n = "openOutbox"
      PROVE  Silent(a, b)
  <2>1. Holds(a, To(a, n))
    BY <1>1, <1>9, MovedHand DEF Updating, Announcing
  <2>2. b = To(a, n) \/ b.pc \notin Making
    <3>1. b = To(a, n) \/ b.pc \in {"lookup", "failing"}
      BY <1>9, AnsweredMove
    <3> QED  BY <3>1, NotMaking DEF Still
  <2> QED  BY <1>9, <2>1, <2>2 DEF Silent, Holds
<1>10. CASE Pointer(e)
  <2>1. CASE Refused(e)
    BY <2>1, RefusedMove DEF Refused
  <2>2. CASE ~Refused(e)
    <3>1. UNCHANGED <<incidents, outbox>> /\ Answered(e, To(a, AfterPointer(a)))
      BY <1>10, <2>2 DEF Pointer, updateActivePointer, deleteActivePointer
    <3>2. a.pc = "pointer" /\ AfterPointer(a) \in {"timeline", "outbox", "ai", "done"}
      BY <1>10 DEF Pointer, At, AfterPointer, AfterTimeline
    <3>3. AfterPointer(a) \in AttemptPc
      BY <3>2 DEF AttemptPc, Handling, Updating, Settled
    <3> QED  BY <1>9, <3>1, <3>2, <3>3
  <2> QED  BY <2>1, <2>2
<1>11. CASE RecordEvent(e)
  <2> DEFINE n == IF At(e, "timeline") THEN AfterTimeline(a) ELSE "openOutbox"
  <2>1. UNCHANGED <<incidents, outbox>> /\ Answered(e, To(a, n))
    BY <1>11 DEF RecordEvent, recordIncidentEvent
  <2>2. \/ a.pc = "timeline" /\ n \in {"outbox", "ai", "done"}
        \/ a.pc = "openTimeline" /\ n = "openOutbox"
    BY <1>11 DEF RecordEvent, At, AfterTimeline
  <2>3. n \in AttemptPc
    BY <2>2 DEF AttemptPc, Handling, Updating, Opening, Settled
  <2> HIDE DEF n
  <2> QED  BY <1>9, <2>1, <2>2, <2>3
<1>12. CASE Announce(e) \/ enqueueAiAnalysis(e)
  <2>1. PICK n : /\ PutOutbox(e, n)
                 /\ \/ a.pc = "openOutbox" /\ n \in {"openAi", "done"}
                    \/ a.pc = "outbox" /\ n \in {"ai", "done"}
                    \/ a.pc \in {"openAi", "ai"} /\ n = "done"
    BY <1>12 DEF Announce, enqueueAiAnalysis, At
  <2>2. CASE Refused(e)
    BY <2>2, RefusedMove DEF Refused
  <2>3. CASE putOutboxEvent(Announces(a)) /\ Answered(e, To(a, n))
    <3>1. n \in AttemptPc
      BY <2>1 DEF AttemptPc, Handling, Updating, Opening, Settled
    <3>2. Holds(a, To(a, n)) /\ To(a, n).pc = n
      BY <1>1, <2>1, <3>1, MovedHand DEF Updating, Announcing
    <3>3. b = To(a, n) \/ b.pc \notin Making
      <4>1. b = To(a, n) \/ b.pc \in {"lookup", "failing"}
        BY <2>3, AnsweredMove
      <4> QED  BY <4>1, NotMaking DEF Still
    <3>4. Holds(a, b)
      BY <3>2, <3>3 DEF Holds
    <3>5. b.pc \in Making => a.pc \in {"openOutbox", "outbox"} /\ b.pc \in {"openAi", "ai"}
      <4>1. "done" \notin Making
        BY DEF Making, Announcing, Updating
      <4> QED  BY <2>1, <3>2, <3>3, <4>1
    <3> QED  BY <2>1, <2>3, <3>4, <3>5 DEF Tells, putOutboxEvent
  <2> QED  BY <2>1, <2>2, <2>3 DEF PutOutbox
<1>13. CASE Fail(e) \/ Crash(e)
  <2>1. PICK pc \in {"queued", "dlq", "lost"} : Becomes(e, To(a, pc))
    BY <1>13 DEF Fail, Crash, Redelivered
  <2>2. To(a, pc).pc = pc
    BY <1>1, ToType DEF AttemptPc, Settled
  <2> QED  BY <1>2, <1>13, <2>1, <2>2 DEF Fail, Crash, tables, Still, Settled
<1>14. CASE CallFails(e)
  BY <1>14, RefusedMove DEF CallFails
<1> QED
  BY <1>3, <1>4, <1>5, <1>6, <1>7, <1>8, <1>10, <1>11, <1>12, <1>13, <1>14
     DEF Engine, EngineStep, Handle

-----------------------------------------------------------------------------
(* What a step of the API does: q is the request before, p after it. *)

Serves(q, p) == p.pc \in Serving => q.pc \in Serving /\ InService(p) = InService(q)

ApiSilent(q, p) ==
  /\ UNCHANGED <<incidents, outbox>>
  /\ Serves(q, p)

ApiTells(q, p) ==
  /\ UNCHANGED incidents
  /\ outbox' = outbox \cup {Publishes(q)}
  /\ q.pc = "outbox"
  /\ p.pc \notin Serving

ApiChanges(p) ==
  /\ UNCHANGED outbox
  /\ \E c : Makes(c) /\ (p.pc \in Serving => InService(p) = c)

LEMMA ServedMove ==
  ASSUME TypeOK, NEW r \in Requests, NEW pc \in Serving, Served(r, pc)
  PROVE  \/ request'[r] = [request[r] EXCEPT !.pc = pc]
         \/ request'[r].pc \notin Serving
BY DEF Served, Goes, Replies, Serving, Answers, Unhandled, TypeOK

LEMMA AnsweringMove ==
  ASSUME TypeOK, NEW r \in Requests, NEW pc \in Answers, Goes(r, pc)
  PROVE  request'[r].pc = pc /\ pc \notin Serving
BY DEF Goes, Replies, Serving, Answers, Unhandled, TypeOK

LEMMA ApiMoves ==
  ASSUME TypeOK, CopiesAreTrue, NEW r \in Requests, Api(r)
  PROVE  \/ ApiSilent(request[r], request'[r])
         \/ ApiTells(request[r], request'[r])
         \/ ApiChanges(request'[r])
<1> DEFINE q == request[r]
           p == request'[r]
           Moved(pc) == [q EXCEPT !.pc = pc]
<1>1. q \in Request /\ RequestCopies(q, incidents)
  BY DEF TypeOK, CopiesAreTrue
<1>2. ASSUME NEW pc \in Serving
      PROVE  /\ Moved(pc).pc = pc /\ Moved(pc).id = q.id
             /\ InService(Moved(pc)) = InService(q)
  <2>1. /\ Moved(pc).pc = pc /\ Moved(pc).id = q.id /\ Moved(pc).seen = q.seen
        /\ Moved(pc).action = q.action
    BY <1>1 DEF Request
  <2>2. Changed(Moved(pc)) = Changed(q) /\ Status(Moved(pc)) = Status(q)
    BY <2>1 DEF Changed, Status
  <2> QED  BY <2>1, <2>2 DEF InService, ChangeOf, Publishes
<1>3. ASSUME NEW pc \in Answers, Goes(r, pc), UNCHANGED <<incidents, outbox>>
      PROVE  ApiSilent(q, p)
  BY <1>3, AnsweringMove DEF ApiSilent, Serves
<1>4. CASE Post(r)
  <2>1. PICK i \in Opened, action \in Actions :
          Replies(r, [q EXCEPT !.pc = "read", !.action = action, !.id = i])
    BY <1>4 DEF Post
  <2>2. p.pc = "read"
    BY <1>1, <2>1 DEF Replies, TypeOK, Request
  <2> QED  BY <1>4, <2>2 DEF Post, tables, ApiSilent, Serves, Serving
<1>5. CASE GetIncident(r)
  <2>1. UNCHANGED <<incidents, outbox>>
    BY <1>5 DEF GetIncident, tables
  <2>2. CASE \E pc \in Answers : Goes(r, pc)
    BY <1>3, <2>1, <2>2
  <2>3. CASE \E c : Replies(r, [q EXCEPT !.pc = "update", !.seen = c])
    <3>1. p.pc = "update"
      BY <1>1, <2>3 DEF Replies, TypeOK, Request
    <3> QED  BY <2>1, <3>1 DEF ApiSilent, Serves, Serving
  <2> QED  BY <1>5, <2>2, <2>3 DEF GetIncident, Answers
<1>6. CASE UpdateStatus(r)
  <2>1. CASE Conflict(r) /\ UNCHANGED <<tables, faults>>
    BY <1>3, <2>1 DEF Conflict, tables, Answers
  <2>2. CASE /\ q.pc = "update" /\ CanUpdate(q.id, q.seen.version)
             /\ updateIncident(q.id, Changed(q)) /\ Served(r, "pointer")
    <3>1. /\ q.id \in IncidentIds /\ q.seen.version > 0 /\ q.seen = incidents[q.id]
          /\ MayChange(q, q.seen)
      BY <1>1, <2>2 DEF RequestCopies, CanUpdate, IsPast
    <3>2. q.seen \in Incident /\ q.seen.version \in Nat /\ q.action \in {"ack", "resolve"}
      BY <1>1 DEF Request, Incident
    <3>3. Changed(q) \in Incident /\ Changed(q).version = q.seen.version + 1
      BY <1>1, ChangedType
    <3>4. Rank(q.seen.status) < Rank(Status(q))
      <4>1. q.seen.status \in IncidentStatus
        BY <3>2 DEF Incident
      <4>2. CASE q.action = "ack"
        <5>1. q.seen.status = "OPEN" /\ Status(q) = "ACKED"
          BY <3>1, <4>1, <4>2 DEF MayChange, Status, IncidentStatus
        <5> QED  BY <5>1, Ranks
      <4>3. CASE q.action = "resolve"
        <5>1. q.seen.status \in {"OPEN", "ACKED"} /\ Status(q) = "RESOLVED"
          BY <3>1, <4>1, <4>3 DEF MayChange, Status, IncidentStatus
        <5> QED  BY <5>1, Ranks
      <4> QED  BY <3>2, <4>2, <4>3
    <3>5. Below(q.seen, Changed(q))
      <4>1. /\ Rank(q.seen.status) \in {0, 1, 2} /\ Rank(Status(q)) \in {0, 1, 2}
        BY <3>2, Ranks DEF Incident, Status, IncidentStatus
      <4>2. q.seen.severity \in Nat /\ q.seen.eventCount \in Nat
        BY <3>2 DEF Incident, Severity
      <4> QED  BY <3>2, <3>3, <3>4, <4>1, <4>2 DEF Below, Changed
    <3> DEFINE c == [incidentId |-> q.id, changeType |-> Status(q), detail |-> Changed(q)]
    <3>6. Follows(c, incidents[q.id])
      <4>1. Changed(q).status = Status(q) /\ Status(q) # "OPENED"
        BY DEF Changed, Status
      <4> QED  BY <3>1, <3>2, <3>3, <3>4, <3>5, <4>1 DEF Follows
    <3>7. Makes(c)
      BY <2>2, <3>1, <3>3, <3>6 DEF Makes, updateIncident
    <3>8. p = Moved("pointer") \/ p.pc \notin Serving
      BY <2>2, ServedMove DEF Serving
    <3>9. InService(Moved("pointer")) = c
      BY <1>2 DEF Serving, InService, ChangeOf, Publishes
    <3> QED  BY <2>2, <3>7, <3>8, <3>9 DEF ApiChanges, updateIncident
  <2> QED  BY <1>6, <2>1, <2>2 DEF UpdateStatus
<1>7. CASE MovePointer(r)
  <2>1. q.pc = "pointer" /\ UNCHANGED <<incidents, outbox>>
    BY <1>7 DEF MovePointer, deleteActivePointer, updateActivePointer, tables
  <2>2. CASE Goes(r, "500")
    BY <1>3, <2>1, <2>2 DEF Answers
  <2>3. CASE Served(r, "outbox")
    <3>1. p = Moved("outbox") \/ p.pc \notin Serving
      BY <2>3, ServedMove DEF Serving
    <3>2. p.pc \in Serving => InService(p) = InService(q)
      BY <1>2, <3>1 DEF Serving
    <3> QED  BY <2>1, <3>2 DEF ApiSilent, Serves, Serving
  <2> QED  BY <1>7, <2>2, <2>3 DEF MovePointer
<1>8. CASE Publish(r)
  <2>1. CASE putOutboxEvent(Publishes(q)) /\ Served(r, "200")
    <3>1. \E pc \in Answers : Goes(r, pc)
      BY <2>1 DEF Served, Answers
    <3>2. p.pc \notin Serving
      BY <3>1, AnsweringMove
    <3> QED  BY <1>8, <2>1, <3>2 DEF ApiTells, putOutboxEvent, Publish
  <2>2. CASE Goes(r, "500") /\ UNCHANGED <<tables, faults>>
    BY <1>3, <2>2 DEF Answers, tables
  <2> QED  BY <1>8, <2>1, <2>2 DEF Publish
<1>9. CASE RequestFails(r)
  BY <1>3, <1>9 DEF RequestFails, Answers, tables
<1> QED
  BY <1>4, <1>5, <1>6, <1>7, <1>8, <1>9 DEF Api, ApiStep, Serve

-----------------------------------------------------------------------------
(* All steps *)

EngineMove(e) ==
  /\ UNCHANGED request
  /\ \A x \in EventIds \ {e} : attempt'[x] = attempt[x]
  /\ \/ Silent(attempt[e], attempt'[e])
     \/ Tells(attempt[e], attempt'[e])
     \/ Changes(attempt'[e])

ApiMove(r) ==
  /\ UNCHANGED attempt
  /\ \A x \in Requests \ {r} : request'[x] = request[x]
  /\ \/ ApiSilent(request[r], request'[r])
     \/ ApiTells(request[r], request'[r])
     \/ ApiChanges(request'[r])

Rests == UNCHANGED <<incidents, outbox, attempt, request>>

LEMMA EngineIsMove ==
  ASSUME IInv, Blank, NEW e \in EventIds, Engine(e)
  PROVE  EngineMove(e)
<1>1. TypeOK /\ CopiesAreTrue
  BY DEF IInv
<1>2. \E c : attempt' = [attempt EXCEPT ![e] = c]
  BY DEF Engine, EngineStep, Handle, Receive, LookUp, Create, Read, DropPointer, Update, Pointer,
         RecordEvent, Announce, enqueueAiAnalysis, PutOutbox, Fail, CallFails, Crash, Refused,
         Answered, Becomes
<1>3. \A x \in EventIds \ {e} : attempt'[x] = attempt[x]
  BY <1>1, <1>2 DEF TypeOK
<1>4. UNCHANGED request
  BY DEF Engine
<1> QED  BY <1>1, <1>3, <1>4, EngineMoves DEF EngineMove

LEMMA ApiIsMove ==
  ASSUME IInv, NEW r \in Requests, Api(r)
  PROVE  ApiMove(r)
<1>1. TypeOK /\ CopiesAreTrue
  BY DEF IInv
<1>2. \E c : request' = [request EXCEPT ![r] = c]
  BY DEF Api, ApiStep, Serve, Post, GetIncident, UpdateStatus, Conflict, MovePointer, Publish,
         RequestFails, Served, Goes, Replies
<1>3. \A x \in Requests \ {r} : request'[x] = request[x]
  BY <1>1, <1>2 DEF TypeOK
<1>4. UNCHANGED attempt
  BY DEF Api
<1> QED  BY <1>1, <1>3, <1>4, ApiMoves DEF ApiMove

LEMMA Moves ==
  ASSUME IInv, Blank, [Next]_vars
  PROVE  \/ \E e \in EventIds : Engine(e) /\ EngineMove(e)
         \/ \E r \in Requests : Api(r) /\ ApiMove(r)
         \/ Rests /\ UNCHANGED <<pointer, timeline>>
<1>1. Lag \/ UNCHANGED vars => Rests /\ UNCHANGED <<pointer, timeline>>
  BY DEF Lag, Replicate, Rests, vars, storeVars, tables
<1> QED  BY <1>1, EngineIsMove, ApiIsMove DEF Next, Terminating

-----------------------------------------------------------------------------
(* Who has a change in hand has it for himself. *)

Same(c, d) == c.incidentId = d.incidentId /\ c.detail.version = d.detail.version

\* c was made: the table is at its version, or past it.
IsMade(c) ==
  /\ c.incidentId \in IncidentIds
  /\ c.detail \in Incident
  /\ c.detail.version <= incidents[c.incidentId].version

LEMMA HandsAreMade ==
  ASSUME TypeOK, CopiesAreTrue
  PROVE  /\ \A e \in EventIds : attempt[e].pc \in Making => IsMade(InHand(attempt[e]))
         /\ \A r \in Requests : request[r].pc \in Serving => IsMade(InService(request[r]))
         /\ \A o \in outbox : IsMade(ChangeOf(o))
<1>1. ASSUME NEW e \in EventIds, attempt[e].pc \in Making PROVE IsMade(InHand(attempt[e]))
  <2> DEFINE a == attempt[e]
  <2>1. a \in Attempt /\ AttemptCopies(a, incidents)
    BY DEF TypeOK, CopiesAreTrue
  <2>2. /\ a.id \in IncidentIds
        /\ a.pc \in Opening => IsPast(a.seen, incidents[a.id])
        /\ a.pc \notin Opening => IsPast(Updated(a), incidents[a.id])
    BY <1>1, <2>1 DEF AttemptCopies, Making, Announcing, Updating, Opening
  <2>3. a.seen \in Incident /\ Updated(a) \in Incident
    BY <2>1, UpdatedType DEF Attempt
  <2> QED  BY <2>2, <2>3 DEF IsMade, InHand, ChangeOf, Announces, IsPast
<1>2. ASSUME NEW r \in Requests, request[r].pc \in Serving PROVE IsMade(InService(request[r]))
  <2> DEFINE q == request[r]
  <2>1. q \in Request /\ RequestCopies(q, incidents)
    BY DEF TypeOK, CopiesAreTrue
  <2>2. q.id \in IncidentIds /\ IsPast(Changed(q), incidents[q.id])
    BY <1>2, <2>1 DEF RequestCopies, Serving
  <2>3. Changed(q) \in Incident
    BY <2>1, ChangedType
  <2> QED  BY <2>2, <2>3 DEF IsMade, InService, ChangeOf, Publishes, IsPast
<1>3. ASSUME NEW o \in outbox PROVE IsMade(ChangeOf(o))
  BY DEF TypeOK, StoreTypeOK, OutboxEvent, CopiesAreTrue, IsMade, ChangeOf, IsPast
<1> QED  BY <1>1, <1>2, <1>3

LEMMA MadeIsNew ==
  ASSUME TypeOK, NEW c, Makes(c), NEW d, IsMade(d)
  PROVE  ~Same(c, d) /\ ~Same(d, c)
<1>1. incidents[c.incidentId].version \in Nat
  BY DEF Makes, TypeOK, StoreTypeOK, Incident
<1> QED  BY <1>1 DEF Makes, Follows, IsMade, Same, Incident

Apart ==
  /\ \A e, f \in EventIds :
       e # f /\ attempt[e].pc \in Making /\ attempt[f].pc \in Making =>
         ~Same(InHand(attempt[e]), InHand(attempt[f]))
  /\ \A e \in EventIds, r \in Requests :
       attempt[e].pc \in Making /\ request[r].pc \in Serving =>
         ~Same(InHand(attempt[e]), InService(request[r]))
  /\ \A r, s \in Requests :
       r # s /\ request[r].pc \in Serving /\ request[s].pc \in Serving =>
         ~Same(InService(request[r]), InService(request[s]))
  /\ \A r \in Requests, o \in outbox :
       request[r].pc \in Serving => ~Same(InService(request[r]), ChangeOf(o))
  /\ \A e \in EventIds, o \in outbox :
       attempt[e].pc \in Making /\ Same(InHand(attempt[e]), ChangeOf(o)) =>
         attempt[e].pc \in {"openAi", "ai"} /\ o.eventType = "IncidentChanged"

LEMMA EngineKeepsApart ==
  ASSUME TypeOK, CopiesAreTrue, Apart, NEW e \in EventIds, EngineMove(e)
  PROVE  Apart'
<1> DEFINE a == attempt[e]
           b == attempt'[e]
<1>1. UNCHANGED request /\ \A x \in EventIds \ {e} : attempt'[x] = attempt[x]
  BY DEF EngineMove
<1>2. CASE Silent(a, b)
  BY <1>1, <1>2 DEF Silent, Holds, Apart
<1>3. CASE Tells(a, b)
  <2>1. /\ a.pc \in Making /\ ChangeOf(Announces(a)) = InHand(a)
        /\ a.pc \in {"openOutbox", "outbox"} => Announces(a).eventType = "IncidentChanged"
    BY <1>3 DEF Tells, InHand, Making, Announcing, Updating, Announces
  <2>2. /\ outbox' = outbox \cup {Announces(a)}
        /\ b.pc \in Making => /\ InHand(b) = InHand(a)
                              /\ a.pc \in {"openOutbox", "outbox"} /\ b.pc \in {"openAi", "ai"}
    BY <1>3 DEF Tells, Holds
  <2> QED  BY <1>1, <2>1, <2>2 DEF Apart, Same
<1>4. CASE Changes(b)
  <2>1. PICK c : /\ UNCHANGED outbox /\ Makes(c)
                 /\ b.pc \in Making => InHand(b) = c /\ b.pc \notin {"openAi", "ai"}
    BY <1>4 DEF Changes
  <2>2. \A d : IsMade(d) => ~Same(c, d) /\ ~Same(d, c)
    BY <2>1, MadeIsNew
  <2> QED  BY <1>1, <2>1, <2>2, HandsAreMade DEF Apart
<1> QED  BY <1>2, <1>3, <1>4 DEF EngineMove

LEMMA ApiKeepsApart ==
  ASSUME TypeOK, CopiesAreTrue, Apart, NEW r \in Requests, ApiMove(r)
  PROVE  Apart'
<1> DEFINE q == request[r]
           p == request'[r]
<1>1. UNCHANGED attempt /\ \A x \in Requests \ {r} : request'[x] = request[x]
  BY DEF ApiMove
<1>2. CASE ApiSilent(q, p)
  BY <1>1, <1>2 DEF ApiSilent, Serves, Apart
<1>3. CASE ApiTells(q, p)
  <2>1. /\ q.pc \in Serving /\ ChangeOf(Publishes(q)) = InService(q)
        /\ p.pc \notin Serving /\ outbox' = outbox \cup {Publishes(q)}
    BY <1>3 DEF ApiTells, InService, Serving
  <2> QED  BY <1>1, <2>1 DEF Apart, Same
<1>4. CASE ApiChanges(p)
  <2>1. PICK c : UNCHANGED outbox /\ Makes(c) /\ (p.pc \in Serving => InService(p) = c)
    BY <1>4 DEF ApiChanges
  <2>2. \A d : IsMade(d) => ~Same(c, d) /\ ~Same(d, c)
    BY <2>1, MadeIsNew
  <2> QED  BY <1>1, <2>1, <2>2, HandsAreMade DEF Apart
<1> QED  BY <1>2, <1>3, <1>4 DEF ApiMove

LEMMA OpenedHand ==
  ASSUME NEW a, a.pc \in Making
  PROVE  /\ InHand(a).changeType = "OPENED" <=> a.pc \in Announcing
         /\ a.pc \in Announcing => InHand(a).detail = a.seen
<1>1. a.pc \in Opening <=> a.pc \in Announcing
  BY DEF Making, Announcing, Updating, Opening
<1> QED  BY <1>1 DEF InHand, ChangeOf, Announces

LEMMA BlankKept ==
  ASSUME TypeOK, Blank,
         \/ \E e \in EventIds : EngineMove(e)
         \/ \E r \in Requests : ApiMove(r)
         \/ Rests
  PROVE  Blank'
<1>1. ASSUME NEW c, Makes(c), NEW i \in IncidentIds, incidents'[i].version = 0
      PROVE  incidents'[i] = NoIncident
  <2>1. c.detail.version # 0
    BY <1>1 DEF Makes, Follows, TypeOK, StoreTypeOK, Incident
  <2>2. i # c.incidentId
    BY <1>1, <2>1 DEF Makes, TypeOK, StoreTypeOK
  <2>3. incidents'[i] = incidents[i]
    BY <1>1, <2>2 DEF Makes, TypeOK, StoreTypeOK
  <2> QED  BY <1>1, <2>3 DEF Blank
<1>2. ASSUME NEW e \in EventIds, EngineMove(e) PROVE Blank'
  <2> DEFINE a == attempt[e]
             b == attempt'[e]
  <2>1. Announcing \subseteq Making
    BY DEF Making
  <2>2. CASE Changes(b)
    <3>1. PICK c : Makes(c) /\ (b.pc \in Making => InHand(b) = c)
      BY <2>2 DEF Changes
    <3>2. b.pc \in Announcing => b.seen.version = 1
      BY <2>1, <3>1, OpenedHand DEF Makes, Follows
    <3> QED  BY <1>1, <1>2, <3>1, <3>2 DEF EngineMove, Blank
  <2>3. CASE Silent(a, b) \/ Tells(a, b)
    <3>1. UNCHANGED incidents /\ Holds(a, b)
      BY <2>3 DEF Silent, Tells
    <3>2. b.pc \in Announcing => b.seen.version = 1
      BY <2>1, <3>1, OpenedHand DEF Holds, Blank
    <3> QED  BY <1>2, <3>1, <3>2 DEF EngineMove, Blank
  <2> QED  BY <1>2, <2>2, <2>3 DEF EngineMove
<1>3. ASSUME NEW r \in Requests, ApiMove(r) PROVE Blank'
  <2>1. UNCHANGED attempt /\ (UNCHANGED incidents \/ \E c : Makes(c))
    BY <1>3 DEF ApiMove, ApiSilent, ApiTells, ApiChanges
  <2> QED  BY <1>1, <2>1 DEF Blank
<1>4. Rests => Blank'
  BY DEF Rests, Blank
<1> QED  BY <1>2, <1>3, <1>4

-----------------------------------------------------------------------------
(* The changes of an incident form a history. *)

ChangesMade ==
  {ChangeOf(o) : o \in outbox}
    \cup {InHand(attempt[e]) : e \in {x \in EventIds : attempt[x].pc \in Making}}
    \cup {InService(request[r]) : r \in {x \in Requests : request[x].pc \in Serving}}

StatusChanges == {"ACKED", "RESOLVED"}

IsKnown(c) ==
  /\ IsMade(c)
  /\ Below(c.detail, incidents[c.incidentId])
  /\ c.changeType = "OPENED" <=> c.detail.version = 1
  /\ c.changeType \in StatusChanges => c.detail.status = c.changeType

InOrder(c, d) ==
  c.incidentId = d.incidentId /\ c.detail.version < d.detail.version =>
    /\ Below(c.detail, d.detail)
    /\ ~(c.changeType = d.changeType /\ c.changeType \in StatusChanges)

History ==
  /\ \A c \in ChangesMade : IsKnown(c)
  /\ \A c, d \in ChangesMade : InOrder(c, d)

LEMMA BelowIsTransitive ==
  ASSUME NEW c \in Incident, NEW d \in Incident, NEW x \in Incident, Below(c, d), Below(d, x)
  PROVE  Below(c, x)
<1>1. \A y \in Incident : Rank(y.status) \in {0, 1, 2} /\ y.severity \in Nat /\ y.eventCount \in Nat
                            /\ y.version \in Nat
  BY Ranks DEF Incident, Severity
<1> QED  BY <1>1 DEF Below

LEMMA HistoryKept ==
  ASSUME TypeOK, History,
         \/ UNCHANGED incidents /\ ChangesMade' \subseteq ChangesMade
         \/ \E c : Makes(c) /\ ChangesMade' \subseteq ChangesMade \cup {c}
  PROVE  History'
<1>1. CASE UNCHANGED incidents /\ ChangesMade' \subseteq ChangesMade
  <2>1. \A c \in ChangesMade' : IsKnown(c)'
    BY <1>1 DEF History, IsKnown, IsMade
  <2>2. \A c, d \in ChangesMade' : InOrder(c, d)
    BY <1>1 DEF History
  <2> QED  BY <2>1, <2>2 DEF History, InOrder, Below
<1>2. CASE \E c : Makes(c) /\ ChangesMade' \subseteq ChangesMade \cup {c}
  <2>1. PICK c : Makes(c) /\ ChangesMade' \subseteq ChangesMade \cup {c}
    BY <1>2
  <2> DEFINE i == c.incidentId
  <2>2. /\ i \in IncidentIds /\ c.detail \in Incident /\ incidents[i] \in Incident
        /\ incidents'[i] = c.detail
        /\ \A j \in IncidentIds \ {i} : incidents'[j] = incidents[j]
        /\ Follows(c, incidents[i])
    BY <2>1 DEF Makes, TypeOK, StoreTypeOK
  <2>3. Below(c.detail, c.detail)
    BY <2>2, Ranks DEF Below, Incident, Severity
  <2>4. ASSUME NEW d \in ChangesMade, d.incidentId = i
        PROVE  Below(d.detail, c.detail) /\ d.detail.version < c.detail.version
    <3>1. d.detail \in Incident /\ Below(d.detail, incidents[i])
      BY <2>4 DEF History, IsKnown, IsMade
    <3> QED  BY <2>2, <3>1, BelowIsTransitive DEF Follows, Below, Incident
  <2>5. IsKnown(c)'
    BY <2>2, <2>3 DEF IsKnown, IsMade, Follows, StatusChanges, Incident
  <2>6. ASSUME NEW d \in ChangesMade PROVE IsKnown(d)'
    <3>1. IsKnown(d)
      BY DEF History
    <3>2. CASE d.incidentId = i
      BY <2>2, <2>4, <3>1, <3>2 DEF IsKnown, IsMade, Below
    <3>3. CASE d.incidentId # i
      BY <2>2, <3>1, <3>3 DEF IsKnown, IsMade
    <3> QED  BY <3>2, <3>3
  <2>7. ASSUME NEW d \in ChangesMade PROVE InOrder(d, c) /\ InOrder(c, d)
    <3>1. IsKnown(d) /\ d.detail \in Incident
      BY DEF History, IsKnown, IsMade
    <3>2. CASE d.incidentId # i
      BY <3>2 DEF InOrder
    <3>3. CASE d.incidentId = i
      <4>1. Below(d.detail, c.detail) /\ d.detail.version < c.detail.version
        BY <2>4, <3>3
      <4>2. ~(c.detail.version < d.detail.version)
        BY <2>2, <3>1, <4>1 DEF Incident
      <4>3. ASSUME c.changeType = d.changeType, c.changeType \in StatusChanges PROVE FALSE
        <5>1. d.detail.status = c.changeType /\ Rank(incidents[i].status) < Rank(c.changeType)
          BY <2>2, <3>1, <4>3 DEF IsKnown, Follows, StatusChanges
        <5>2. Rank(d.detail.status) <= Rank(incidents[i].status)
          BY <3>1, <3>3 DEF IsKnown, Below
        <5>3. Rank(d.detail.status) \in {0, 1, 2} /\ Rank(incidents[i].status) \in {0, 1, 2}
          BY <2>2, <3>1, Ranks DEF Incident
        <5> QED  BY <5>1, <5>2, <5>3
      <4> QED  BY <4>1, <4>2, <4>3 DEF InOrder
    <3> QED  BY <3>2, <3>3
  <2>8. InOrder(c, c)
    BY <2>2 DEF InOrder, Incident
  <2>9. \A d \in ChangesMade' : IsKnown(d)'
    BY <2>1, <2>5, <2>6
  <2>10. \A d, x \in ChangesMade' : InOrder(d, x)
    BY <2>1, <2>7, <2>8 DEF History
  <2> QED  BY <2>9, <2>10 DEF History, InOrder, Below
<1> QED  BY <1>1, <1>2

LEMMA EngineKeepsHistory ==
  ASSUME TypeOK, History, NEW e \in EventIds, EngineMove(e)
  PROVE  History'
<1> DEFINE a == attempt[e]
           b == attempt'[e]
<1>1. UNCHANGED request /\ \A x \in EventIds \ {e} : attempt'[x] = attempt[x]
  BY DEF EngineMove
<1>2. CASE Silent(a, b) \/ Tells(a, b)
  <2>1. UNCHANGED incidents /\ Holds(a, b)
    BY <1>2 DEF Silent, Tells
  <2>2. \A o \in outbox' : o \in outbox \/ (o = Announces(a) /\ a.pc \in Making)
    BY <1>2 DEF Silent, Tells, Making, Announcing, Updating
  <2>3. ChangesMade' \subseteq ChangesMade
    BY <1>1, <2>1, <2>2 DEF ChangesMade, Holds, InHand
  <2> QED  BY <2>1, <2>3, HistoryKept
<1>3. CASE Changes(b)
  <2>1. PICK c : UNCHANGED outbox /\ Makes(c) /\ (b.pc \in Making => InHand(b) = c)
    BY <1>3 DEF Changes
  <2>2. ChangesMade' \subseteq ChangesMade \cup {c}
    BY <1>1, <2>1 DEF ChangesMade
  <2> QED  BY <2>1, <2>2, HistoryKept
<1> QED  BY <1>2, <1>3 DEF EngineMove

LEMMA ApiKeepsHistory ==
  ASSUME TypeOK, History, NEW r \in Requests, ApiMove(r)
  PROVE  History'
<1> DEFINE q == request[r]
           p == request'[r]
<1>1. UNCHANGED attempt /\ \A x \in Requests \ {r} : request'[x] = request[x]
  BY DEF ApiMove
<1>2. CASE ApiSilent(q, p) \/ ApiTells(q, p)
  <2>1. UNCHANGED incidents /\ Serves(q, p)
    BY <1>2 DEF ApiSilent, ApiTells, Serves
  <2>2. \A o \in outbox' : o \in outbox \/ (o = Publishes(q) /\ q.pc \in Serving)
    BY <1>2 DEF ApiSilent, ApiTells, Serving
  <2>3. ChangesMade' \subseteq ChangesMade
    BY <1>1, <2>1, <2>2 DEF ChangesMade, Serves, InService
  <2> QED  BY <2>1, <2>3, HistoryKept
<1>3. CASE ApiChanges(p)
  <2>1. PICK c : UNCHANGED outbox /\ Makes(c) /\ (p.pc \in Serving => InService(p) = c)
    BY <1>3 DEF ApiChanges
  <2>2. ChangesMade' \subseteq ChangesMade \cup {c}
    BY <1>1, <2>1 DEF ChangesMade
  <2> QED  BY <2>1, <2>2, HistoryKept
<1> QED  BY <1>2, <1>3 DEF ApiMove

-----------------------------------------------------------------------------
(* The theorems about announcements *)

HInv == Blank /\ Apart /\ History

LEMMA HistoryInit == Init => HInv
<1> SUFFICES ASSUME Init PROVE HInv
  OBVIOUS
<1>1. /\ \A i \in IncidentIds : incidents[i] = NoIncident
      /\ \A e \in EventIds : attempt[e].pc = "queued"
      /\ \A r \in Requests : request[r].pc = "new"
      /\ outbox = {}
  BY DEF Init, StoreInit, EngineInit, ApiInit, Message, Unhandled
<1>2. "queued" \notin Making /\ "new" \notin Serving /\ Announcing \subseteq Making
  BY DEF Making, Serving, Announcing, Updating
<1>3. ChangesMade = {}
  BY <1>1, <1>2 DEF ChangesMade
<1> QED  BY <1>1, <1>2, <1>3 DEF HInv, Blank, Apart, History

LEMMA HistoryInductive == IInv /\ HInv /\ [Next]_vars => HInv'
<1> SUFFICES ASSUME IInv, Blank, Apart, History, [Next]_vars PROVE HInv'
  BY DEF HInv
<1>1. TypeOK /\ CopiesAreTrue
  BY DEF IInv
<1>2. \/ \E e \in EventIds : EngineMove(e)
      \/ \E r \in Requests : ApiMove(r)
      \/ Rests
  BY Moves
<1>3. Blank'
  BY <1>1, <1>2, BlankKept
<1>4. Rests => Apart' /\ History'
  BY DEF Rests, Apart, History, IsKnown, IsMade, ChangesMade
<1>5. Apart' /\ History'
  BY <1>1, <1>2, <1>4, EngineKeepsApart, ApiKeepsApart, EngineKeepsHistory, ApiKeepsHistory
<1> QED  BY <1>3, <1>5 DEF HInv

LEMMA HistoryInvariance == Spec => [](IInv /\ HInv)
<1>1. Init => IInv /\ HInv
  BY TypeInit, CopiesInit, HistoryInit DEF IInv
<1>2. IInv /\ HInv /\ [Next]_vars => (IInv /\ HInv)'
  BY Inductive, HistoryInductive
<1> QED  BY <1>1, <1>2, PTL DEF Spec

LEMMA ApartNeverCollides ==
  ASSUME Apart
  PROVE  NeverCollides
<1>1. ASSUME NEW e \in EventIds, attempt[e].pc \in {"openOutbox", "openAi", "outbox", "ai"},
             NEW o \in outbox, outboxId(o) = outboxId(Announces(attempt[e]))
      PROVE  FALSE
  <2> DEFINE a == attempt[e]
  <2>1. a.pc \in Making
    BY <1>1 DEF Making, Announcing, Updating
  <2>2. o.eventType = Announces(a).eventType /\ Same(InHand(a), ChangeOf(o))
    BY <1>1 DEF outboxId, Same, InHand, ChangeOf
  <2>3. a.pc \in {"openAi", "ai"} /\ o.eventType = "IncidentChanged"
    BY <2>1, <2>2 DEF Apart
  <2> QED  BY <2>2, <2>3 DEF Announces
<1>2. ASSUME NEW r \in Requests, request[r].pc = "outbox",
             NEW o \in outbox, outboxId(o) = outboxId(Publishes(request[r]))
      PROVE  FALSE
  <2>1. Same(InService(request[r]), ChangeOf(o)) /\ request[r].pc \in Serving
    BY <1>2 DEF outboxId, Same, InService, ChangeOf, Serving
  <2> QED  BY <2>1 DEF Apart
<1> QED  BY <1>1, <1>2 DEF NeverCollides, CanPutOutbox

\* The outbox id of a change is free when its maker comes to put it: no two
\* handlers ever make the same version of an incident, and each puts a change
\* once (outbox.ts 23).
THEOREM NeverCollidesHolds == Spec => []NeverCollides
<1>1. IInv /\ HInv => NeverCollides
  BY ApartNeverCollides DEF HInv
<1> QED  BY <1>1, HistoryInvariance, PTL

\* Whatever the order in which the racing handlers put them, the announcements
\* of an incident in the order of their versions are a history of it
\* (handler.ts 251-402, incident-api 389-402).
THEOREM HistoryHolds == Spec => []AnnouncementsFormAHistory
<1>1. IInv /\ HInv => AnnouncementsFormAHistory
  <2> SUFFICES ASSUME History, NEW o \in outbox, NEW p \in outbox, o.incidentId = p.incidentId
               PROVE  /\ o.changeType = "OPENED" <=> o.detail.version = 1
                      /\ o.detail.version < p.detail.version =>
                           /\ Rank(o.detail.status) <= Rank(p.detail.status)
                           /\ o.detail.severity <= p.detail.severity
                           /\ o.detail.eventCount <= p.detail.eventCount
                           /\ ~(o.changeType = p.changeType /\ o.changeType \in {"ACKED", "RESOLVED"})
    BY DEF HInv, AnnouncementsFormAHistory
  <2>1. ChangeOf(o) \in ChangesMade /\ ChangeOf(p) \in ChangesMade
    BY DEF ChangesMade
  <2>2. IsKnown(ChangeOf(o)) /\ InOrder(ChangeOf(o), ChangeOf(p))
    BY <2>1 DEF History
  <2> QED  BY <2>2 DEF IsKnown, InOrder, Below, ChangeOf, StatusChanges
<1> QED  BY <1>1, HistoryInvariance, PTL

-----------------------------------------------------------------------------
(* The timeline: an event that is listed, or that its handler is about to   *)
(* list, is counted.                                                        *)

IsListing(a) == a.pc \in {"openTimeline", "timeline"} \/ (a.pc = "pointer" /\ ~a.suppressed)

Listed(i) ==
  {e \in EventIds : <<i, e>> \in timeline \/ (attempt[e].id = i /\ IsListing(attempt[e]))}

Counted ==
  \A i \in IncidentIds :
    IsFiniteSet(Listed(i)) /\ Cardinality(Listed(i)) <= incidents[i].eventCount

\* What a step does to the timeline of e: a is the attempt before, b after it.
ListsSame(e, a, b) ==
  /\ UNCHANGED incidents
  /\ IsListing(b) => IsListing(a) /\ b.id = a.id
  /\ UNCHANGED timeline \/ (IsListing(a) /\ timeline' = timeline \cup {<<a.id, e>>})

ListsCounted(b) ==
  /\ UNCHANGED timeline
  /\ \E i \in IncidentIds, n \in Incident :
       /\ incidents' = [incidents EXCEPT ![i] = n]
       /\ incidents[i].eventCount <= n.eventCount
       /\ IsListing(b) => b.id = i /\ incidents[i].eventCount + 1 <= n.eventCount

LEMMA NotListing ==
  ASSUME NEW b, b.pc \in Still \cup {"read", "update", "openOutbox", "openAi", "outbox", "ai"}
  PROVE  ~IsListing(b)
BY DEF IsListing, Still, Settled

LEMMA RefusedLists ==
  ASSUME TypeOK, NEW e \in EventIds, Becomes(e, Threw(attempt[e])), UNCHANGED tables
  PROVE  ListsSame(e, attempt[e], attempt'[e])
<1>1. attempt'[e].pc \in {"lookup", "failing"}
  BY ThrewType DEF Becomes, TypeOK
<1>2. ~IsListing(attempt'[e])
  BY <1>1, NotListing DEF Still
<1> QED  BY <1>2 DEF ListsSame, tables

LEMMA CountedChange ==
  ASSUME NEW b, NEW i \in IncidentIds, NEW n \in Incident,
         incidents' = [incidents EXCEPT ![i] = n], UNCHANGED timeline,
         incidents[i].eventCount <= n.eventCount,
         IsListing(b) => b.id = i /\ incidents[i].eventCount + 1 <= n.eventCount
  PROVE  ListsCounted(b)
BY DEF ListsCounted

LEMMA EngineLists ==
  ASSUME TypeOK, CopiesAreTrue, Blank, NEW e \in EventIds, Engine(e)
  PROVE  ListsSame(e, attempt[e], attempt'[e]) \/ ListsCounted(attempt'[e])
<1> DEFINE a == attempt[e]
           b == attempt'[e]
<1>1. a \in Attempt /\ AttemptCopies(a, incidents)
  BY DEF TypeOK, CopiesAreTrue
<1>2. ASSUME NEW c, Answered(e, c) \/ Becomes(e, c) PROVE b = c \/ ~IsListing(b)
  <2>1. b = c \/ b.pc \in {"lookup", "failing"}
    BY <1>2, AnsweredMove
  <2> QED  BY <2>1, NotListing DEF Still
<1>3. CASE Receive(e) \/ LookUp(e) \/ Read(e)
  <2>1. PICK c : Becomes(e, c) /\ c.pc \in Still \cup {"read", "update"}
    <3>1. CASE Receive(e)
      <4>1. PICK s \in Suppression, sev \in EventSeverity :
              Becomes(e, [a EXCEPT !.pc = "lookup", !.receives = @ + 1,
                                   !.suppressed = s, !.severity = sev])
        BY <3>1 DEF Receive
      <4>2. [a EXCEPT !.pc = "lookup", !.receives = @ + 1,
                      !.suppressed = s, !.severity = sev].pc = "lookup"
        BY <1>1 DEF Attempt
      <4> QED  BY <4>1, <4>2 DEF Still
    <3>2. CASE LookUp(e)
      <4>1. PICK p \in getActiveIncident :
              \/ Becomes(e, [a EXCEPT !.pc = "read", !.id = p.incidentId])
              \/ Becomes(e, To(a, "create"))
              \/ Becomes(e, To(a, "failing"))
        BY <3>2 DEF LookUp
      <4>2. [a EXCEPT !.pc = "read", !.id = p.incidentId].pc = "read"
        BY <1>1 DEF Attempt
      <4>3. To(a, "create").pc = "create" /\ To(a, "failing").pc = "failing"
        BY <1>1, ToType DEF AttemptPc, Handling, Opening
      <4> QED  BY <4>1, <4>2, <4>3 DEF Still
    <3>3. CASE Read(e)
      <4>1. PICK incident \in getIncidentById(a.id) :
              Becomes(e, [a EXCEPT !.pc = IF incident.version = 0 THEN "dropPointer" ELSE "update",
                                   !.seen = incident])
        BY <3>3 DEF Read
      <4>2. [a EXCEPT !.pc = IF incident.version = 0 THEN "dropPointer" ELSE "update",
                      !.seen = incident].pc \in {"dropPointer", "update"}
        BY <1>1 DEF Attempt
      <4> QED  BY <4>1, <4>2 DEF Still
    <3> QED  BY <1>3, <3>1, <3>2, <3>3
  <2>2. ~IsListing(b)
    BY <1>2, <2>1, NotListing
  <2> QED  BY <1>3, <2>2 DEF Receive, LookUp, Read, tables, ListsSame
<1>4. CASE Create(e)
  <2>1. CASE Refused(e)
    BY <2>1, RefusedLists DEF Refused
  <2>2. CASE ~Refused(e)
    <3> DEFINE c(i) == [a EXCEPT !.pc = IF a.suppressed THEN "openOutbox" ELSE "openTimeline",
                                 !.id = i, !.seen = NewIncident(a)]
    <3>1. PICK i \in IncidentIds \ Opened :
            createIncident(i, NewIncident(a)) /\ Answered(e, c(i))
      BY <1>4, <2>2 DEF Create
    <3>2. NewIncident(a) \in Incident /\ NewIncident(a).eventCount = 1
      BY <1>1, NewIncidentType DEF NewIncident
    <3>3. incidents[i].eventCount = 0
      BY <3>1 DEF Opened, TypeOK, StoreTypeOK, Incident, Blank, NoIncident
    <3>4. c(i).id = i
      BY <1>1 DEF Attempt
    <3> HIDE DEF c
    <3>5. IsListing(b) => b.id = i
      BY <1>2, <3>1, <3>4
    <3>6. UNCHANGED timeline /\ incidents' = [incidents EXCEPT ![i] = NewIncident(a)]
      BY <3>1 DEF createIncident
    <3>7. i \in IncidentIds
      BY <3>1
    <3>8. /\ incidents[i].eventCount <= NewIncident(a).eventCount
          /\ incidents[i].eventCount + 1 <= NewIncident(a).eventCount
      BY <3>2, <3>3
    <3> QED  BY <3>2, <3>5, <3>6, <3>7, <3>8, CountedChange
  <2> QED  BY <2>1, <2>2
<1>5. CASE DropPointer(e)
  <2>1. [a EXCEPT !.pc = "create", !.via = "again", !.id = NoId].pc = "create"
    BY <1>1 DEF Attempt
  <2>2. ~IsListing(b)
    BY <1>2, <1>5, <2>1, NotListing DEF DropPointer, Still
  <2> QED  BY <1>5, <2>2 DEF DropPointer, deleteActivePointer, ListsSame
<1>6. CASE Update(e)
  <2>1. CASE Refused(e)
    BY <2>1, RefusedLists DEF Refused
  <2>2. CASE ~Refused(e)
    <3>1. /\ a.pc = "update" /\ a.seen.version = incidents[a.id].version
          /\ updateIncident(a.id, Updated(a)) /\ Answered(e, To(a, "pointer"))
      BY <1>6, <2>2 DEF Update, CanUpdate, At
    <3>2. a.id \in IncidentIds /\ a.seen = incidents[a.id]
      BY <1>1, <3>1 DEF AttemptCopies, Updating, IsPast
    <3>3. Updated(a) \in Incident /\ a.seen.eventCount \in Nat
      BY <1>1, UpdatedType DEF Attempt, Incident
    <3>4. /\ To(a, "pointer").pc = "pointer" /\ To(a, "pointer").id = a.id
          /\ To(a, "pointer").suppressed = a.suppressed
      BY <1>1 DEF To, Settled, Attempt
    <3>5. b = To(a, "pointer") \/ ~IsListing(b)
      BY <1>2, <3>1
    <3>6. IsListing(b) => b.id = a.id /\ ~a.suppressed
      BY <3>4, <3>5 DEF IsListing
    <3>7. UNCHANGED timeline /\ incidents' = [incidents EXCEPT ![a.id] = Updated(a)]
      BY <3>1 DEF updateIncident
    <3>8. Updated(a).eventCount = IF a.suppressed THEN a.seen.eventCount ELSE a.seen.eventCount + 1
      BY DEF Updated
    <3>9. IsListing(b) => b.id = a.id /\ incidents[a.id].eventCount + 1 <= Updated(a).eventCount
      BY <3>2, <3>3, <3>6, <3>8
    <3>10. incidents[a.id].eventCount <= Updated(a).eventCount
      BY <3>2, <3>3, <3>8
    <3> QED  BY <3>2, <3>3, <3>7, <3>9, <3>10, CountedChange
  <2> QED  BY <2>1, <2>2
<1>7. CASE Pointer(e)
  <2>1. CASE Refused(e)
    BY <2>1, RefusedLists DEF Refused
  <2>2. CASE ~Refused(e)
    <3> DEFINE n == AfterPointer(a)
    <3>1. UNCHANGED <<incidents, timeline>> /\ Answered(e, To(a, n))
      BY <1>7, <2>2 DEF Pointer, updateActivePointer, deleteActivePointer
    <3>2. /\ a.pc = "pointer" /\ n \in {"timeline", "outbox", "ai", "done"}
          /\ n = "timeline" => ~a.suppressed
      BY <1>7 DEF Pointer, At, AfterPointer, AfterTimeline
    <3>3. To(a, n).pc = n
      BY <1>1, <3>2, ToType DEF AttemptPc, Handling, Updating, Settled
    <3>4. n = "timeline" => To(a, n).id = a.id
      BY <1>1 DEF To, Settled, Attempt
    <3>5. b = To(a, n) \/ ~IsListing(b)
      BY <1>2, <3>1
    <3>6. IsListing(b) => IsListing(a) /\ b.id = a.id
      BY <3>2, <3>3, <3>4, <3>5 DEF IsListing
    <3> QED  BY <3>1, <3>6 DEF ListsSame
  <2> QED  BY <2>1, <2>2
<1>8. CASE RecordEvent(e)
  <2> DEFINE n == IF At(e, "timeline") THEN AfterTimeline(a) ELSE "openOutbox"
  <2>1. /\ UNCHANGED incidents /\ timeline' = timeline \cup {<<a.id, e>>}
        /\ Answered(e, To(a, n)) /\ IsListing(a)
    BY <1>8 DEF RecordEvent, recordIncidentEvent, IsListing
  <2>2. n \in {"openOutbox", "outbox", "ai", "done"}
    BY DEF AfterTimeline
  <2>3. To(a, n).pc = n
    BY <1>1, <2>2, ToType DEF AttemptPc, Handling, Updating, Opening, Settled
  <2>4. ~IsListing(To(a, n))
    BY <2>2, <2>3, NotListing DEF Still, Settled
  <2> HIDE DEF n
  <2>5. ~IsListing(b)
    BY <1>2, <2>1, <2>4
  <2> QED  BY <2>1, <2>5 DEF ListsSame
<1>9. CASE Announce(e) \/ enqueueAiAnalysis(e)
  <2>1. PICK n \in {"openAi", "ai", "done"} : PutOutbox(e, n)
    BY <1>9 DEF Announce, enqueueAiAnalysis
  <2>2. CASE Refused(e)
    BY <2>2, RefusedLists DEF Refused
  <2>3. CASE putOutboxEvent(Announces(a)) /\ Answered(e, To(a, n))
    <3>1. To(a, n).pc = n
      BY <1>1, ToType DEF AttemptPc, Handling, Updating, Opening, Settled
    <3>2. ~IsListing(To(a, n))
      BY <3>1, NotListing DEF Still, Settled
    <3>3. ~IsListing(b)
      BY <1>2, <2>3, <3>2
    <3> QED  BY <2>3, <3>3 DEF ListsSame, putOutboxEvent
  <2> QED  BY <2>1, <2>2, <2>3 DEF PutOutbox
<1>10. CASE Fail(e) \/ Crash(e)
  <2>1. PICK pc \in {"queued", "dlq", "lost"} : Becomes(e, To(a, pc))
    BY <1>10 DEF Fail, Crash, Redelivered
  <2>2. To(a, pc).pc = pc
    BY <1>1, ToType DEF AttemptPc, Settled
  <2>3. ~IsListing(b)
    BY <1>2, <2>1, <2>2, NotListing DEF Still, Settled
  <2> QED  BY <1>10, <2>3 DEF Fail, Crash, tables, ListsSame
<1>11. CASE CallFails(e)
  BY <1>11, RefusedLists DEF CallFails
<1> QED
  BY <1>3, <1>4, <1>5, <1>6, <1>7, <1>8, <1>9, <1>10, <1>11 DEF Engine, EngineStep, Handle

LEMMA SmallerIsCounted ==
  ASSUME NEW S, IsFiniteSet(S), NEW n \in Nat, Cardinality(S) <= n,
         NEW T \in SUBSET S, NEW m \in Nat, n <= m
  PROVE  IsFiniteSet(T) /\ Cardinality(T) <= m
<1>1. IsFiniteSet(T) /\ Cardinality(T) <= Cardinality(S)
  BY FS_Subset
<1>2. Cardinality(S) \in Nat /\ Cardinality(T) \in Nat
  BY <1>1, FS_CardinalityType
<1> QED  BY <1>1, <1>2

LEMMA OneMoreIsCounted ==
  ASSUME NEW S, IsFiniteSet(S), NEW n \in Nat, Cardinality(S) <= n, NEW e,
         NEW T \in SUBSET (S \cup {e}), NEW m \in Nat, n + 1 <= m
  PROVE  IsFiniteSet(T) /\ Cardinality(T) <= m
<1>1. IsFiniteSet(S \cup {e}) /\ (Cardinality(S \cup {e}) = Cardinality(S) \/ Cardinality(S \cup {e}) = Cardinality(S) + 1)
  BY FS_AddElement
<1>2. Cardinality(S) \in Nat /\ Cardinality(S \cup {e}) \in Nat
  BY <1>1, FS_CardinalityType
<1>3. Cardinality(S \cup {e}) <= n + 1
  BY <1>1, <1>2
<1> QED  BY <1>1, <1>3, SmallerIsCounted

LEMMA EngineKeepsCounted ==
  ASSUME TypeOK, TypeOK', CopiesAreTrue, Blank, Counted, NEW e \in EventIds, Engine(e), EngineMove(e)
  PROVE  Counted'
<1> DEFINE a == attempt[e]
           b == attempt'[e]
<1>1. \A x \in EventIds \ {e} : attempt'[x] = attempt[x]
  BY DEF EngineMove
<1>2. \A i \in IncidentIds : incidents[i].eventCount \in Nat /\ incidents'[i].eventCount \in Nat
  BY DEF TypeOK, StoreTypeOK, Incident
<1>3. CASE ListsSame(e, a, b)
  <2> SUFFICES ASSUME NEW i \in IncidentIds
               PROVE  IsFiniteSet(Listed(i)') /\ Cardinality(Listed(i)') <= incidents'[i].eventCount
    BY DEF Counted
  <2>1. Listed(i)' \subseteq Listed(i)
    BY <1>1, <1>3 DEF ListsSame, Listed
  <2>2. incidents'[i].eventCount = incidents[i].eventCount
    BY <1>3 DEF ListsSame
  <2>3. IsFiniteSet(Listed(i)) /\ Cardinality(Listed(i)) <= incidents[i].eventCount
    BY DEF Counted
  <2> QED  BY <1>2, <2>1, <2>2, <2>3, SmallerIsCounted
<1>4. CASE ListsCounted(b)
  <2>1. PICK j \in IncidentIds, n \in Incident :
          /\ incidents' = [incidents EXCEPT ![j] = n]
          /\ incidents[j].eventCount <= n.eventCount
          /\ IsListing(b) => b.id = j /\ incidents[j].eventCount + 1 <= n.eventCount
    BY <1>4 DEF ListsCounted
  <2>2. UNCHANGED timeline
    BY <1>4 DEF ListsCounted
  <2>3. /\ incidents'[j] = n
        /\ \A i \in IncidentIds \ {j} : incidents'[i] = incidents[i]
    BY <2>1 DEF TypeOK, StoreTypeOK
  <2> SUFFICES ASSUME NEW i \in IncidentIds
               PROVE  IsFiniteSet(Listed(i)') /\ Cardinality(Listed(i)') <= incidents'[i].eventCount
    BY DEF Counted
  <2>4. IsFiniteSet(Listed(i)) /\ Cardinality(Listed(i)) <= incidents[i].eventCount
    BY DEF Counted
  <2>5. Listed(i)' \subseteq Listed(i) \cup {e}
    BY <1>1, <2>2 DEF Listed
  <2>6. CASE IsListing(b) /\ i = j
    <3>1. incidents[i].eventCount + 1 <= incidents'[i].eventCount
      BY <2>1, <2>3, <2>6
    <3> QED  BY <1>2, <2>4, <2>5, <3>1, OneMoreIsCounted
  <2>7. CASE ~(IsListing(b) /\ i = j)
    <3>1. Listed(i)' \subseteq Listed(i)
      BY <1>1, <2>1, <2>2, <2>7 DEF Listed
    <3>2. incidents[i].eventCount <= incidents'[i].eventCount
      BY <1>2, <2>1, <2>3
    <3> QED  BY <1>2, <2>4, <3>1, <3>2, SmallerIsCounted
  <2> QED  BY <2>6, <2>7
<1> QED  BY <1>3, <1>4, EngineLists

LEMMA ApiKeepsCounted ==
  ASSUME TypeOK, TypeOK', Counted, NEW r \in Requests, Api(r), ApiMove(r)
  PROVE  Counted'
<1>1. UNCHANGED <<attempt, timeline>>
  BY DEF Api, ApiStep, Serve, Post, GetIncident, UpdateStatus, Conflict, MovePointer, Publish,
         RequestFails, tables, updateIncident, updateActivePointer, deleteActivePointer, putOutboxEvent
<1>2. \A i \in IncidentIds : incidents[i].eventCount \in Nat /\ incidents'[i].eventCount \in Nat
  BY DEF TypeOK, StoreTypeOK, Incident
<1>3. UNCHANGED incidents \/ \E c : Makes(c)
  BY DEF ApiMove, ApiSilent, ApiTells, ApiChanges
<1>4. \A i \in IncidentIds : incidents[i].eventCount <= incidents'[i].eventCount
  BY <1>2, <1>3 DEF Makes, Follows, Below, TypeOK, StoreTypeOK
<1> SUFFICES ASSUME NEW i \in IncidentIds
             PROVE  IsFiniteSet(Listed(i)') /\ Cardinality(Listed(i)') <= incidents'[i].eventCount
  BY DEF Counted
<1>5. Listed(i)' = Listed(i)
  BY <1>1 DEF Listed
<1>6. IsFiniteSet(Listed(i)) /\ Cardinality(Listed(i)) <= incidents[i].eventCount
  BY DEF Counted
<1> QED  BY <1>2, <1>4, <1>5, <1>6, SmallerIsCounted

\* The counter of an incident never falls behind its timeline (handler.ts
\* 229-250, 313, 352-360).
THEOREM CountedHolds == Spec => []EveryListedEventIsCounted
<1>1. Init => Counted
  <2> SUFFICES ASSUME Init, NEW i \in IncidentIds
               PROVE  IsFiniteSet(Listed(i)) /\ Cardinality(Listed(i)) <= incidents[i].eventCount
    BY DEF Counted
  <2>1. Listed(i) = {}
    BY DEF Init, StoreInit, EngineInit, Message, Listed, IsListing
  <2>2. incidents[i].eventCount = 0
    BY DEF Init, StoreInit, NoIncident
  <2> QED  BY <2>1, <2>2, FS_EmptySet
<1>2. IInv /\ HInv /\ Counted /\ [Next]_vars => Counted'
  <2> SUFFICES ASSUME IInv, Blank, Counted, [Next]_vars PROVE Counted'
    BY DEF HInv
  <2>1. TypeOK /\ CopiesAreTrue /\ TypeOK'
    BY Inductive DEF IInv
  <2>2. CASE Rests /\ UNCHANGED <<pointer, timeline>>
    BY <2>2 DEF Rests, Counted, Listed
  <2> QED  BY <2>1, <2>2, Moves, EngineKeepsCounted, ApiKeepsCounted
<1>3. IInv /\ HInv /\ Counted => EveryListedEventIsCounted
  <2> SUFFICES ASSUME TypeOK, Counted, NEW i \in IncidentIds
               PROVE  Cardinality({e \in EventIds : <<i, e>> \in timeline}) <= incidents[i].eventCount
    BY DEF IInv, EveryListedEventIsCounted
  <2> DEFINE T == {e \in EventIds : <<i, e>> \in timeline}
  <2>1. T \subseteq Listed(i)
    BY DEF Listed
  <2>2. incidents[i].eventCount \in Nat /\ incidents[i].eventCount <= incidents[i].eventCount
    BY DEF TypeOK, StoreTypeOK, Incident
  <2> HIDE DEF T
  <2>3. IsFiniteSet(Listed(i)) /\ Cardinality(Listed(i)) <= incidents[i].eventCount
    BY DEF Counted
  <2>4. Cardinality(T) <= incidents[i].eventCount
    BY <2>1, <2>2, <2>3, SmallerIsCounted
  <2> QED  BY <2>4 DEF T
<1> QED  BY <1>1, <1>2, <1>3, HistoryInvariance, PTL DEF Spec

-----------------------------------------------------------------------------
(* Without faults every step but a refused one does what it is to do. *)

LEMMA NoFault ==
  ASSUME MaxFaults = 0, TypeOK
  PROVE  ~Fault
BY DEF Fault, TypeOK, StoreTypeOK

LEMMA EngineWithoutFaults ==
  ASSUME MaxFaults = 0, TypeOK, NEW e \in EventIds, Engine(e)
  PROVE  /\ Handle(e)
         /\ \A c : Answered(e, c) => Becomes(e, c)
BY NoFault DEF Engine, EngineStep, CallFails, Crash, Answered

LEMMA ApiWithoutFaults ==
  ASSUME MaxFaults = 0, TypeOK, NEW r \in Requests, Api(r)
  PROVE  /\ Post(r) \/ Serve(r)
         /\ \A pc \in Serving : Served(r, pc) => request'[r] = [request[r] EXCEPT !.pc = pc]
BY NoFault DEF Api, ApiStep, RequestFails, Served, Goes, Replies, Answers, Serving, TypeOK

IsGoing(e) == attempt[e].pc = "pointer" /\ attempt[e].seen.status = "RESOLVED"
IsResolving(r) == request[r].pc = "pointer" /\ request[r].action = "resolve"

LEMMA EngineKeepsGoing ==
  ASSUME MaxFaults = 0, IInv, HInv, ResolvedPointerIsGoing, NEW e \in EventIds, Engine(e)
  PROVE  ResolvedPointerIsGoing'
<1> DEFINE a == attempt[e]
           b == attempt'[e]
<1>1. /\ TypeOK /\ CopiesAreTrue /\ a \in Attempt
      /\ UNCHANGED request /\ \A x \in EventIds \ {e} : attempt'[x] = attempt[x]
  BY EngineIsMove DEF IInv, HInv, TypeOK, EngineMove
<1>2. \A c : Becomes(e, c) => b = c
  BY <1>1 DEF Becomes, TypeOK
<1> SUFFICES ASSUME pointer' # NoPointer, incidents'[pointer'.incidentId].status = "RESOLVED"
             PROVE  (\E r \in Requests : IsResolving(r)') \/ (\E x \in EventIds : IsGoing(x)')
  BY DEF ResolvedPointerIsGoing, IsGoing, IsResolving
<1>3. ASSUME ~IsGoing(e), pointer # NoPointer, incidents[pointer.incidentId].status = "RESOLVED"
      PROVE  (\E r \in Requests : IsResolving(r)') \/ (\E x \in EventIds : IsGoing(x)')
  BY <1>1, <1>3 DEF ResolvedPointerIsGoing, IsGoing, IsResolving
<1>4. CASE UNCHANGED <<incidents, pointer>> /\ a.pc # "pointer"
  BY <1>3, <1>4 DEF IsGoing
<1>5. CASE Create(e)
  <2>1. CASE Refused(e)
    BY <1>4, <1>5, <2>1 DEF Refused, tables, Create, At
  <2>2. CASE ~Refused(e)
    <3>1. PICK i \in IncidentIds : createIncident(i, NewIncident(a))
      BY <1>5, <2>2 DEF Create
    <3>2. pointer'.incidentId = i /\ incidents'[i] = NewIncident(a)
      BY <1>1, <3>1 DEF createIncident, TypeOK, StoreTypeOK
    <3> QED  BY <3>2 DEF NewIncident
  <2> QED  BY <2>1, <2>2
<1>6. CASE DropPointer(e)
  BY <1>6 DEF DropPointer, deleteActivePointer
<1>7. CASE Update(e)
  <2>1. CASE Refused(e)
    BY <1>4, <1>7, <2>1 DEF Refused, tables, Update, At
  <2>2. CASE ~Refused(e)
    <3>1. /\ a.pc = "update" /\ updateIncident(a.id, Updated(a)) /\ Answered(e, To(a, "pointer"))
      BY <1>7, <2>2 DEF Update, At
    <3>2. b = To(a, "pointer")
      BY <1>1, <1>2, <3>1, EngineWithoutFaults
    <3>3. b.pc = "pointer" /\ b.seen = a.seen
      BY <1>1, <3>2 DEF To, Settled, Attempt
    <3>4. UNCHANGED pointer /\ ~IsGoing(e)
      BY <3>1 DEF updateIncident, IsGoing
    <3>5. a.id \in IncidentIds
      BY <1>1, <3>1 DEF CopiesAreTrue, AttemptCopies, Updating
    <3>6. CASE pointer.incidentId = a.id
      <4>1. Updated(a).status = "RESOLVED"
        BY <1>1, <3>1, <3>4, <3>5, <3>6 DEF updateIncident, TypeOK, StoreTypeOK
      <4>2. IsGoing(e)'
        BY <3>3, <4>1 DEF IsGoing, Updated
      <4> QED  BY <4>2
    <3>7. CASE pointer.incidentId # a.id
      <4>1. incidents'[pointer.incidentId] = incidents[pointer.incidentId]
        BY <1>1, <3>1, <3>7 DEF updateIncident, TypeOK, StoreTypeOK, ActiveIncidentPointer, NoPointer
      <4> QED  BY <1>3, <3>4, <4>1
    <3> QED  BY <3>6, <3>7
  <2> QED  BY <2>1, <2>2
<1>8. CASE Pointer(e)
  <2>1. CASE IsGoing(e)
    <3>1. ~shouldKeepActive(a.seen.status)
      BY <2>1 DEF IsGoing, shouldKeepActive
    <3> QED  BY <1>8, <3>1 DEF Pointer, deleteActivePointer
  <2>2. CASE ~IsGoing(e)
    <3>1. UNCHANGED incidents /\ pointer # NoPointer /\ pointer'.incidentId = pointer.incidentId
      BY <1>1, <1>8
      DEF Pointer, Refused, tables, CanUpdatePointer, updateActivePointer, deleteActivePointer,
          TypeOK, StoreTypeOK, ActiveIncidentPointer
    <3> QED  BY <1>3, <2>2, <3>1
  <2> QED  BY <2>1, <2>2
<1>9. CASE Receive(e) \/ LookUp(e) \/ Read(e) \/ RecordEvent(e) \/ Announce(e)
           \/ enqueueAiAnalysis(e) \/ Fail(e)
  <2>1. UNCHANGED <<incidents, pointer>> /\ a.pc # "pointer"
    BY <1>9
    DEF Receive, LookUp, Read, RecordEvent, Announce, enqueueAiAnalysis, Fail, PutOutbox, Refused,
        tables, recordIncidentEvent, putOutboxEvent, At
  <2> QED  BY <1>4, <2>1
<1> QED
  BY <1>1, <1>5, <1>6, <1>7, <1>8, <1>9, EngineWithoutFaults DEF Handle

LEMMA ApiKeepsGoing ==
  ASSUME MaxFaults = 0, IInv, ResolvedPointerIsGoing, NEW r \in Requests, Api(r)
  PROVE  ResolvedPointerIsGoing'
<1> DEFINE q == request[r]
           p == request'[r]
<1>1. /\ TypeOK /\ CopiesAreTrue /\ q \in Request
      /\ UNCHANGED attempt /\ \A x \in Requests \ {r} : request'[x] = request[x]
  BY ApiIsMove DEF IInv, TypeOK, ApiMove
<1> SUFFICES ASSUME pointer' # NoPointer, incidents'[pointer'.incidentId].status = "RESOLVED"
             PROVE  (\E x \in Requests : IsResolving(x)') \/ (\E x \in EventIds : IsGoing(x)')
  BY DEF ResolvedPointerIsGoing, IsGoing, IsResolving
<1>2. ASSUME ~IsResolving(r), pointer # NoPointer, incidents[pointer.incidentId].status = "RESOLVED"
      PROVE  (\E x \in Requests : IsResolving(x)') \/ (\E x \in EventIds : IsGoing(x)')
  BY <1>1, <1>2 DEF ResolvedPointerIsGoing, IsGoing, IsResolving
<1>3. CASE Post(r) \/ GetIncident(r) \/ Publish(r)
  <2>1. UNCHANGED <<incidents, pointer>> /\ ~IsResolving(r)
    BY <1>3 DEF Post, GetIncident, Publish, tables, putOutboxEvent, IsResolving
  <2> QED  BY <1>2, <2>1
<1>4. CASE UpdateStatus(r)
  <2>1. q.pc = "update" /\ ~IsResolving(r) /\ UNCHANGED pointer
    BY <1>4 DEF UpdateStatus, updateIncident, tables, IsResolving
  <2>2. CASE UNCHANGED incidents
    BY <1>2, <2>1, <2>2
  <2>3. CASE updateIncident(q.id, Changed(q)) /\ Served(r, "pointer")
    <3>1. p = [q EXCEPT !.pc = "pointer"]
      BY <1>1, <2>3, ApiWithoutFaults DEF Serving
    <3>2. p.pc = "pointer" /\ p.action = q.action
      BY <1>1, <3>1 DEF Request
    <3>3. q.id \in IncidentIds
      BY <1>1, <2>1 DEF CopiesAreTrue, RequestCopies
    <3>4. CASE pointer.incidentId = q.id
      <4>1. Status(q) = "RESOLVED"
        BY <1>1, <2>1, <2>3, <3>3, <3>4 DEF updateIncident, Changed, TypeOK, StoreTypeOK
      <4>2. IsResolving(r)'
        BY <1>1, <3>2, <4>1 DEF IsResolving, Status, Request
      <4> QED  BY <4>2
    <3>5. CASE pointer.incidentId # q.id
      <4>1. incidents'[pointer.incidentId] = incidents[pointer.incidentId]
        BY <1>1, <2>1, <2>3, <3>5 DEF updateIncident, TypeOK, StoreTypeOK, ActiveIncidentPointer, NoPointer
      <4> QED  BY <1>2, <2>1, <4>1
    <3> QED  BY <3>4, <3>5
  <2> QED  BY <1>4, <2>2, <2>3 DEF UpdateStatus, tables
<1>5. CASE MovePointer(r)
  <2>1. CASE DropsPointer(q)
    BY <1>5, <2>1 DEF MovePointer, deleteActivePointer
  <2>2. CASE ~DropsPointer(q)
    <3>1. ~IsResolving(r)
      BY <2>2 DEF DropsPointer, Status, IsResolving
    <3>2. UNCHANGED incidents /\ pointer # NoPointer /\ pointer'.incidentId = pointer.incidentId
      BY <1>1, <1>5, <2>2
      DEF MovePointer, tables, CanUpdatePointer, updateActivePointer, TypeOK, StoreTypeOK,
          ActiveIncidentPointer
    <3> QED  BY <1>2, <3>1, <3>2
  <2> QED  BY <2>1, <2>2
<1> QED
  BY <1>1, <1>3, <1>4, <1>5, ApiWithoutFaults DEF Serve

\* Without faults a pointer to a resolved incident is about to be deleted
\* (incident-api 370-377, handler.ts 333-350), stale reads or not.
THEOREM GoingHolds ==
  ASSUME MaxFaults = 0
  PROVE  Spec => []ResolvedPointerIsGoing
<1>1. Init => ResolvedPointerIsGoing
  BY DEF Init, StoreInit, ResolvedPointerIsGoing
<1>2. IInv /\ HInv /\ ResolvedPointerIsGoing /\ [Next]_vars => ResolvedPointerIsGoing'
  <2> SUFFICES ASSUME IInv, HInv, ResolvedPointerIsGoing, [Next]_vars PROVE ResolvedPointerIsGoing'
    OBVIOUS
  <2>1. CASE Rests /\ UNCHANGED <<pointer, timeline>>
    BY <2>1 DEF Rests, ResolvedPointerIsGoing
  <2> QED  BY <2>1, Moves, EngineKeepsGoing, ApiKeepsGoing DEF HInv
<1> QED  BY <1>1, <1>2, HistoryInvariance, PTL DEF Spec
-----------------------------------------------------------------------------
(* Opened and resolved: announced, or about to be *)

IsOpener(a, i) == a.pc \in {"openTimeline", "openOutbox"} /\ a.id = i
IsResolver(q, i) == q.pc \in Serving /\ q.action = "resolve" /\ q.id = i

Told ==
  \A i \in IncidentIds :
    /\ incidents[i].version > 0 =>
         Announced(i, "OPENED") \/ \E e \in EventIds : IsOpener(attempt[e], i)
    /\ incidents[i].status = "RESOLVED" =>
         Announced(i, "RESOLVED") \/ \E r \in Requests : IsResolver(request[r], i)

LEMMA EngineKeepsTold ==
  ASSUME MaxFaults = 0, IInv, HInv, Told, NEW e \in EventIds, Engine(e)
  PROVE  Told'
<1> DEFINE a == attempt[e]
           b == attempt'[e]
<1>1. /\ TypeOK /\ CopiesAreTrue /\ NeverCollides /\ a \in Attempt
      /\ UNCHANGED request /\ \A x \in EventIds \ {e} : attempt'[x] = attempt[x]
      /\ outbox \subseteq outbox'
  BY EngineIsMove, ApartNeverCollides
     DEF IInv, HInv, TypeOK, EngineMove, Silent, Tells, Changes
<1>2. \A c : Becomes(e, c) => b = c
  BY <1>1 DEF Becomes, TypeOK
<1>3. Handle(e) /\ \A c : Answered(e, c) => b = c
  BY <1>1, <1>2, EngineWithoutFaults
<1>4. /\ \A i \in IncidentIds : incidents'[i].version > 0 =>
            incidents[i].version > 0 \/ IsOpener(b, i)
      /\ \A i \in IncidentIds : incidents'[i].status = "RESOLVED" =>
            incidents[i].status = "RESOLVED"
  <2>1. CASE UNCHANGED incidents
    BY <2>1
  <2>2. CASE Create(e) /\ ~Refused(e)
    <3> DEFINE c(i) == [a EXCEPT !.pc = IF a.suppressed THEN "openOutbox" ELSE "openTimeline",
                                 !.id = i, !.seen = NewIncident(a)]
    <3>1. PICK i \in IncidentIds : createIncident(i, NewIncident(a)) /\ Answered(e, c(i))
      BY <2>2 DEF Create
    <3>2. c(i).pc \in {"openOutbox", "openTimeline"} /\ c(i).id = i
      BY <1>1 DEF Attempt
    <3> HIDE DEF c
    <3>3. IsOpener(b, i)
      BY <1>3, <3>1, <3>2 DEF IsOpener
    <3>4. incidents'[i].status = "OPEN" /\ \A j \in IncidentIds \ {i} : incidents'[j] = incidents[j]
      BY <1>1, <3>1 DEF createIncident, NewIncident, TypeOK, StoreTypeOK
    <3> QED  BY <3>3, <3>4
  <2>3. CASE Update(e) /\ ~Refused(e)
    <3>1. /\ a.pc = "update" /\ a.seen.version = incidents[a.id].version
          /\ updateIncident(a.id, Updated(a))
      BY <2>3 DEF Update, CanUpdate, At
    <3>2. a.id \in IncidentIds /\ a.seen.version > 0 /\ a.seen = incidents[a.id]
      BY <1>1, <3>1 DEF CopiesAreTrue, AttemptCopies, Updating, IsPast
    <3>3. /\ incidents'[a.id].status = incidents[a.id].status
          /\ \A j \in IncidentIds \ {a.id} : incidents'[j] = incidents[j]
      BY <1>1, <3>1, <3>2 DEF updateIncident, Updated, TypeOK, StoreTypeOK
    <3> QED  BY <3>2, <3>3
  <2> QED
    BY <1>3, <2>1, <2>2, <2>3
    DEF Handle, Receive, LookUp, Read, DropPointer, Pointer, RecordEvent, Announce, Create, Update,
        enqueueAiAnalysis, Fail, PutOutbox, Refused, tables, recordIncidentEvent, putOutboxEvent,
        deleteActivePointer, updateActivePointer
<1>5. ASSUME NEW i \in IncidentIds, IsOpener(a, i)
      PROVE  IsOpener(b, i) \/ Announced(i, "OPENED")'
  <2>1. CASE a.pc = "openTimeline"
    <3>1. RecordEvent(e)
      BY <1>3, <2>1
      DEF Handle, At, Receive, LookUp, Create, Read, DropPointer, Update, Pointer, Announce,
          enqueueAiAnalysis, Fail
    <3>2. b = To(a, "openOutbox")
      BY <1>3, <2>1, <3>1 DEF RecordEvent, At
    <3>3. b.pc = "openOutbox" /\ b.id = i
      BY <1>1, <1>5, <3>2 DEF To, Settled, Attempt, IsOpener
    <3> QED  BY <3>3 DEF IsOpener
  <2>2. CASE a.pc = "openOutbox"
    <3>1. Announce(e)
      BY <1>3, <2>2
      DEF Handle, At, Receive, LookUp, Create, Read, DropPointer, Update, Pointer, RecordEvent,
          enqueueAiAnalysis, Fail
    <3>2. CanPutOutbox(Announces(a))
      BY <1>1, <2>2 DEF NeverCollides
    <3>3. Announces(a) \in outbox'
      BY <2>2, <3>1, <3>2 DEF Announce, At, PutOutbox, putOutboxEvent
    <3>4. /\ Announces(a).eventType = "IncidentChanged" /\ Announces(a).incidentId = i
          /\ Announces(a).changeType = "OPENED"
      BY <1>5, <2>2 DEF Announces, Opening, IsOpener
    <3> QED  BY <3>3, <3>4 DEF Announced
  <2> QED  BY <1>5, <2>1, <2>2 DEF IsOpener
<1>6. \A i \in IncidentIds : \A change : Announced(i, change) => Announced(i, change)'
  BY <1>1 DEF Announced
<1> QED  BY <1>1, <1>4, <1>5, <1>6 DEF Told

LEMMA ApiKeepsTold ==
  ASSUME MaxFaults = 0, IInv, HInv, Told, NEW r \in Requests, Api(r)
  PROVE  Told'
<1> DEFINE q == request[r]
           p == request'[r]
<1>1. /\ TypeOK /\ CopiesAreTrue /\ NeverCollides /\ q \in Request
      /\ UNCHANGED attempt /\ \A x \in Requests \ {r} : request'[x] = request[x]
      /\ outbox \subseteq outbox'
  BY ApiIsMove, ApartNeverCollides
     DEF IInv, HInv, TypeOK, ApiMove, ApiSilent, ApiTells, ApiChanges
<1>2. /\ Post(r) \/ Serve(r)
      /\ \A pc \in Serving : Served(r, pc) => p = [q EXCEPT !.pc = pc]
  BY <1>1, ApiWithoutFaults
<1>3. /\ \A i \in IncidentIds : incidents'[i].version > 0 => incidents[i].version > 0
      /\ \A i \in IncidentIds : incidents'[i].status = "RESOLVED" =>
            incidents[i].status = "RESOLVED" \/ IsResolver(p, i)
  <2>1. CASE UNCHANGED incidents
    BY <2>1
  <2>2. CASE /\ UpdateStatus(r) /\ CanUpdate(q.id, q.seen.version)
             /\ updateIncident(q.id, Changed(q)) /\ Served(r, "pointer")
    <3>1. q.id \in IncidentIds /\ q.seen.version > 0 /\ q.seen.version = incidents[q.id].version
      BY <1>1, <2>2 DEF CopiesAreTrue, RequestCopies, CanUpdate, UpdateStatus
    <3>2. /\ incidents'[q.id].status = Status(q)
          /\ \A j \in IncidentIds \ {q.id} : incidents'[j] = incidents[j]
      BY <1>1, <2>2, <3>1 DEF updateIncident, Changed, TypeOK, StoreTypeOK
    <3>3. p.pc = "pointer" /\ p.action = q.action /\ p.id = q.id
      BY <1>1, <1>2, <2>2 DEF Serving, Request
    <3>4. Status(q) = "RESOLVED" => IsResolver(p, q.id)
      BY <1>1, <3>3 DEF Status, IsResolver, Serving, Request
    <3> QED  BY <3>1, <3>2, <3>4
  <2> QED
    BY <1>2, <2>1, <2>2
    DEF Post, Serve, GetIncident, UpdateStatus, MovePointer, Publish, tables, putOutboxEvent,
        deleteActivePointer, updateActivePointer
<1>4. ASSUME NEW i \in IncidentIds, IsResolver(q, i)
      PROVE  IsResolver(p, i) \/ Announced(i, "RESOLVED")'
  <2>1. Status(q) = "RESOLVED"
    BY <1>4 DEF IsResolver, Status
  <2>2. CASE q.pc = "pointer"
    <3>1. Served(r, "outbox")
      BY <1>2, <2>1, <2>2
      DEF Post, Serve, GetIncident, UpdateStatus, MovePointer, Publish, DropsPointer
    <3>2. p.pc = "outbox" /\ p.action = q.action /\ p.id = q.id
      BY <1>1, <1>2, <3>1 DEF Serving, Request
    <3> QED  BY <1>4, <3>2 DEF IsResolver, Serving
  <2>3. CASE q.pc = "outbox"
    <3>1. CanPutOutbox(Publishes(q))
      BY <1>1, <2>3 DEF NeverCollides
    <3>2. Publishes(q) \in outbox'
      BY <1>2, <2>3, <3>1
      DEF Post, Serve, GetIncident, UpdateStatus, MovePointer, Publish, putOutboxEvent
    <3>3. /\ Publishes(q).eventType = "IncidentChanged" /\ Publishes(q).incidentId = i
          /\ Publishes(q).changeType = "RESOLVED"
      BY <1>4, <2>1 DEF Publishes, IsResolver
    <3> QED  BY <3>2, <3>3 DEF Announced
  <2> QED  BY <1>4, <2>2, <2>3 DEF IsResolver, Serving
<1>5. \A i \in IncidentIds : \A change : Announced(i, change) => Announced(i, change)'
  BY <1>1 DEF Announced
<1> QED  BY <1>1, <1>3, <1>4, <1>5 DEF Told

\* Without faults nobody who opened or resolved an incident comes to rest
\* before the outbox has it (handler.ts 251-273, incident-api 370-402).
THEOREM AnnouncedHolds ==
  ASSUME MaxFaults = 0
  PROVE  Spec => []OpeningAndResolutionAnnounced
<1>1. Init => Told
  <2> SUFFICES ASSUME Init PROVE Told
    OBVIOUS
  <2>1. \A i \in IncidentIds : incidents[i] = NoIncident
    BY DEF Init, StoreInit
  <2>2. ~(NoIncident.version > 0) /\ NoIncident.status # "RESOLVED"
    BY DEF NoIncident
  <2> QED  BY <2>1, <2>2, Zenon DEF Told
<1>2. IInv /\ HInv /\ Told /\ [Next]_vars => Told'
  <2> SUFFICES ASSUME IInv, HInv, Told, [Next]_vars PROVE Told'
    OBVIOUS
  <2>1. CASE Rests /\ UNCHANGED <<pointer, timeline>>
    BY <2>1 DEF Rests, Told, Announced
  <2> QED  BY <2>1, Moves, EngineKeepsTold, ApiKeepsTold DEF HInv
<1>3. Told => OpeningAndResolutionAnnounced
  <2> SUFFICES ASSUME Told, Quiet, NEW i \in Opened
               PROVE  /\ Announced(i, "OPENED")
                      /\ incidents[i].status = "RESOLVED" => Announced(i, "RESOLVED")
    BY DEF OpeningAndResolutionAnnounced
  <2>1. /\ \A e \in EventIds : ~IsOpener(attempt[e], i)
        /\ \A r \in Requests : ~IsResolver(request[r], i)
    BY DEF Quiet, IsOpener, IsResolver, Settled, Answers, Serving
  <2> QED  BY <2>1 DEF Told, Opened
<1> QED  BY <1>1, <1>2, <1>3, HistoryInvariance, PTL DEF Spec
=============================================================================
