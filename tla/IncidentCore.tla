---------------------------- MODULE IncidentCore ----------------------------
(***************************************************************************)
(* The engine and the API on the tables they share.  Next interleaves      *)
(* their DynamoDB requests; nothing orders them but the tables.            *)
(***************************************************************************)
EXTENDS IncidentEngine, IncidentApi, FiniteSetsExt

vars == <<storeVars, attempt, request>>

Init == StoreInit /\ EngineInit /\ ApiInit

Engine(e) == EngineStep(e) /\ UNCHANGED <<lagging, request>>
Api(r) == ApiStep(r) /\ UNCHANGED <<lagging, attempt>>
Lag == Replicate /\ UNCHANGED <<attempt, request>>

\* Every message has been settled and no request is being served.
Quiet ==
  /\ \A e \in EventIds : attempt[e].pc \in Settled
  /\ \A r \in Requests : request[r].pc \in Answers \cup {"new"}
Terminating == Quiet /\ UNCHANGED vars

Next ==
  \/ \E e \in EventIds : Engine(e)
  \/ \E r \in Requests : Api(r)
  \/ Lag
  \/ Terminating

Spec == Init /\ [][Next]_vars

\* SQS keeps delivering and Lambda keeps running: while some message or some
\* request has a step to take, one of them takes one, or meets one of its
\* faults.  Which one is left open, even whether any handler is served before
\* another has ended.  Nobody has to post a request, and the lagging copies
\* owe nothing.
Fairness ==
  WF_vars(\/ \E e \in EventIds : Handle(e) /\ UNCHANGED <<lagging, request>>
          \/ \E r \in Requests : Serve(r) /\ UNCHANGED <<lagging, attempt>>)

FairSpec == Spec /\ Fairness

-----------------------------------------------------------------------------
(* Types *)

StoreTypeOK ==
  /\ incidents \in [IncidentIds -> Incident]
  /\ pointer \in ActiveIncidentPointer
  /\ outbox \subseteq OutboxEvent
  /\ timeline \subseteq (IncidentIds \X EventIds)
  /\ oldIncidents \in [IncidentIds -> Incident]
  /\ oldPointer \in ActiveIncidentPointer
  /\ faults \in 0 .. MaxFaults

\* Every variable keeps the type its module gives it (the items and locals
\* of incidents.ts, outbox.ts and the two handlers).
TypeOK ==
  /\ StoreTypeOK
  /\ attempt \in [EventIds -> Attempt]
  /\ request \in [Requests -> Request]

-----------------------------------------------------------------------------
(* Optimistic locking *)

\* c is what now is, or what it was at an earlier version.
IsPast(c, now) ==
  /\ c.version <= now.version
  /\ c.version = now.version => c = now

Announcing == {"openTimeline", "openOutbox", "openAi"}

\* What a handler has in hand, against the incidents of table.
AttemptCopies(a, table) ==
  /\ a.pc = "read" => a.id \in IncidentIds
  /\ a.pc \in Announcing \cup Updating =>
       /\ a.id \in IncidentIds
       /\ a.seen.version > 0
       /\ IsPast(a.seen, table[a.id])
  /\ a.pc \in Updating \ {"update"} => IsPast(Updated(a), table[a.id])

RequestCopies(q, table) ==
  /\ q.pc = "read" => q.id \in IncidentIds
  /\ q.pc \in {"update", "pointer", "outbox"} =>
       /\ q.id \in IncidentIds
       /\ q.seen.version > 0
       /\ IsPast(q.seen, table[q.id])
       /\ MayChange(q, q.seen)
  /\ q.pc \in {"pointer", "outbox"} => IsPast(Changed(q), table[q.id])

\* No handler, no lagging copy and no announcement holds a version of an
\* incident that the table gives to something else: the conditional update on
\* version (incidents.ts 240) is enough to make every read-modify-write of
\* the engine (handler.ts 311-331) and of the API (345-361) atomic, and what
\* the outbox announces of a version is what the incident was.
CopiesAreTrue ==
  /\ \A i \in IncidentIds : IsPast(oldIncidents[i], incidents[i])
  /\ \A e \in EventIds : AttemptCopies(attempt[e], incidents)
  /\ \A r \in Requests : RequestCopies(request[r], incidents)
  /\ \A o \in outbox : IsPast(o.detail, incidents[o.incidentId])

-----------------------------------------------------------------------------
(* The outbox *)

\* The id INCIDENT#<id>#<version> of an announcement is never taken when its
\* writer comes to put it, so the put's condition never turns a change that
\* was made into an error (outbox.ts 23, handler.ts 251, 363, 129; API 389).
NeverCollides ==
  /\ \A e \in EventIds :
       attempt[e].pc \in {"openOutbox", "openAi", "outbox", "ai"} =>
         CanPutOutbox(Announces(attempt[e]))
  /\ \A r \in Requests :
       request[r].pc = "outbox" => CanPutOutbox(Publishes(request[r]))

Rank(status) == CASE status = "OPEN" -> 0 [] status = "ACKED" -> 1 [] status = "RESOLVED" -> 2

\* Read in the order of their versions, which their outbox ids carry (the
\* published detail does not), the announcements of an incident are a history:
\* opened first, status and severity only rise, no event is taken back, and it
\* is acknowledged and resolved at most once each -- whatever the order in
\* which the racing handlers put them.
AnnouncementsFormAHistory ==
  \A o, p \in outbox :
    o.incidentId = p.incidentId =>
      /\ o.changeType = "OPENED" <=> o.detail.version = 1
      /\ o.detail.version < p.detail.version =>
           /\ Rank(o.detail.status) <= Rank(p.detail.status)
           /\ o.detail.severity <= p.detail.severity
           /\ o.detail.eventCount <= p.detail.eventCount
           /\ ~(o.changeType = p.changeType /\ o.changeType \in {"ACKED", "RESOLVED"})

\* The incident's counter never falls behind its timeline: an event listed by
\* GET /incidents/{id}/events was counted, whatever happened in between
\* (handler.ts 313, 352-360; 229, 242-250).
EveryListedEventIsCounted ==
  \A i \in IncidentIds :
    Cardinality({e \in EventIds : <<i, e>> \in timeline}) <= incidents[i].eventCount

-----------------------------------------------------------------------------
(* The lifecycle *)

Lifecycle == INSTANCE IncidentLifecycle

\* The requests of the engine and the API, interleaved, stale and failing,
\* change the incidents table only as the abstract lifecycle allows.
ImplementsLifecycle == Lifecycle!Spec

-----------------------------------------------------------------------------
(* Without faults and stale reads *)

\* A pointer that names a resolved incident is on its way out: the resolver,
\* or a handler that saw the incident resolved, is about to delete it.  (With
\* a fault it stays, and swallows the key's events: incident-api 370-377.)
ResolvedPointerIsGoing ==
  (pointer # NoPointer /\ incidents[pointer.incidentId].status = "RESOLVED") =>
     \/ \E r \in Requests : request[r].pc = "pointer" /\ request[r].action = "resolve"
     \/ \E e \in EventIds : attempt[e].pc = "pointer" /\ attempt[e].seen.status = "RESOLVED"

Announced(i, change) ==
  \E o \in outbox :
    o.eventType = "IncidentChanged" /\ o.incidentId = i /\ o.changeType = change

\* When everything has come to rest, every incident was announced OPENED and
\* every resolved one RESOLVED, however the handlers raced.
OpeningAndResolutionAnnounced ==
  Quiet => \A i \in Opened :
    /\ Announced(i, "OPENED")
    /\ incidents[i].status = "RESOLVED" => Announced(i, "RESOLVED")

\* In the end every message is settled: handled, dead-lettered or lost.
EveryEventSettles == <>(\A e \in EventIds : attempt[e].pc \in Settled)

\* Every posted request is answered.
EveryRequestIsAnswered ==
  \A r \in Requests : request[r].pc # "new" ~> request[r].pc \in Answers

-----------------------------------------------------------------------------
(* What the documents say and the code does not do *)

\* docs/ARCHITECTURE.md: "The pointer ensures only one active incident per
\* key."  Of the unresolved incidents of the key there is at most one.
OneActivePerKey ==
  \A i, j \in Opened :
    incidents[i].status # "RESOLVED" /\ incidents[j].status # "RESOLVED" => i = j

\* docs/ARCHITECTURE.md: the outbox makes "incident state changes and
\* side-effects atomic".  At rest, an acknowledged incident was announced
\* ACKED, a resolved one RESOLVED.
EveryStatusChangeIsAnnounced ==
  Quiet => \A i \in Opened :
    /\ incidents[i].status = "RESOLVED" => Announced(i, "RESOLVED")
    /\ incidents[i].status = "ACKED" => Announced(i, "ACKED")

\* README.md: the event record avoids "double-counting on retries".  All
\* incidents of the key together count no more events than there were.
NoEventCountedTwice ==
  MapThenSumSet(LAMBDA i : incidents[i].eventCount, IncidentIds) <= Cardinality(EventIds)
=============================================================================
