# Sentinel incident platform: TLA+ specification

This directory models the core of the Sentinel incident platform, a serverless
system (API Gateway, Lambda, EventBridge, SQS, DynamoDB) that correlates events
into incidents, in TLA+. The modules are translated from the TypeScript sources,
checked with TLC on small instances, and their main theorems are proved with
TLAPS for every instance. `PROJECT.json` maps each definition to the lines it
models.

Source paths below are relative to the repository's root.

## 1. Inventory

Events enter through the ingest API and the event bus, the engine counts and
correlates them and opens or updates incidents, operators acknowledge and resolve
those through the incident API, and every change goes through an outbox to the
notification worker and the AI analysis.

    client -> ingest-api -> EventBridge -> EventsQueue -> incident-engine -> DynamoDB
                                            (SQS, DLQ)          |              ^
    client -> incident-api -------------------------------------+--> tables    |
                                                                     outbox    |
    outbox-publisher (every minute) <- outbox items, PENDING           |       |
         -> EventBridge -> NotificationsQueue -> notification-worker -> SNS    |
                        -> AiAnalysisQueue    -> ai-analysis ------------------+

| Component | State it keeps | Operations | What is hard | What makes it correct |
| --- | --- | --- | --- | --- |
| Incident tables `libs/dynamodb` (incidents, incident-events, outbox) | an incident by id with a version; one ACTIVE pointer per correlation key; timeline and outbox items | create (a transaction), update (version = expected), update the pointer (if it exists), delete it, conditional outbox put, reads that may lag | several requests make one change; a request may fail, or its answer be lost; reads are not consistent | no update is lost; the table follows a lifecycle; an announcement tells the truth |
| Incident engine `services/incident-engine` | none outside the tables | one SQS record: claim, count, look the pointer up, open or update, announce, end the claim | handlers of different events interleave between any two requests; retries repeat what was done | every event is settled; counted once; listed implies counted |
| Incident API `services/incident-api` | none outside the tables | POST ack, resolve; GET list, one, events, metrics | races with the engine and other requests; a failure half-way | nothing leaves RESOLVED; changes are announced; requests are answered |
| Event claim `libs/dynamodb/src/event-state.ts` | one item per event: PROCESSING, PROCESSED or FAILED, and a time | start, complete, fail | duplicates, redelivery, two timeouts, stale reads, unconditional final writes | one handler at a time; processed is final; losses can be told |
| Counters (same file) | windowStart and count per correlation key | updateDedupState, updateSeverityState | read-modify-write with catch-all fallbacks, window boundaries | windows do not overlap; one event of a window is let through |
| Rules `libs/config/src/rules.ts`, severity evaluation | a rules item per tenant | loadRules, evaluateSeverity | none concurrent; defaults and fallbacks | severity is the maximum of the hint and the rules reached |
| Outbox publisher | none | list 20 pending, publish, mark, every minute | publish and mark are two calls; two publishers; items that always fail | at least once; nothing published is forgotten; no starvation |
| Notification worker | none | read the incident, find the targets, send to each | failure in the middle of the targets | every target is told, dead letters otherwise |
| AI analysis | the ai fields of the incident | set pending, call the provider with timeout and retries, write the result | versions move on; failures overwrite; an invocation dies while pending | a result belongs to the version it was made for; pending ends |
| Ingest API and idempotency | a record per idempotency key | start, publish, complete, fail | publish and complete are two calls; a catch-all start | published once per key; a replay tells what happened |
| Dead-letter replay `scripts/replay-dlq.ts` | a replay count inside the message | receive, send, delete | send and delete are two calls; a failed put | nothing is lost, replays are bounded |
| Authorizer, auth | none (a key cache) | verify a token | cryptography, I/O | - |
| Metrics | atomic counters | ADD | none: failures are ignored | - |
| Dashboard `web/src/App.tsx` | the selection, the incident and the timeline that are shown, loading flags | select, refresh, load more, ack, resolve, change tenant or connection; list, ingest, metrics | calls overlap, fail, and are answered in any order; nothing cancels or numbers them | what is shown is what is selected; a timeline is of one incident and in order; no flag stays set |

How they interact: only through the tables and the queues. Every DynamoDB request
is atomic, and nothing larger is: between two requests of a handler any request of
any other handler may come. This is the granularity of all modules here.

`PROJECT.json` lists the components with their status, and the hazards of the code,
each at its line.

## 2. The modules

| Module | Models | Kind |
| --- | --- | --- |
| `IncidentStore` | incidents.ts, recordIncidentEvent, putOutboxEvent for one correlation key; lagging reads | operators and variables |
| `IncidentEngine` | processRecord of the engine, one step per request | actions on IncidentStore |
| `IncidentApi` | POST ack and resolve of the API | actions on IncidentStore |
| `IncidentCore` | both on the shared tables | the specification, its properties |
| `IncidentLifecycle` | what the incidents table promises | abstract specification |
| `EventClaim` | startEventProcessing, completeEventProcessing, failEventProcessing; SQS and Lambda on a clock | specification |
| `WindowCounter` | updateDedupState, updateSeverityState on a clock | actions, and properties of the counter |
| `Rules` | loadRules, evaluateSeverity | operators |
| `EventCounting` | the attempts of the engine that call the counters and judge by their counts, retries included | the specification, its properties |
| `OutboxPublisher` | outbox.ts (put, list, mark) and the publisher's loop | actions |
| `NotificationWorker` | the worker's loop and notification-targets.ts; NotificationsQueue | actions on the published messages |
| `Delivery` | both, joined by the bus | the specification, its properties |
| `Ingest` | the ingest handler and the idempotency store, for one key | specification |
| `EventPath` | the bus, the events queue, its dead-letter queue and the engine as their consumer, for the event of `Ingest` | actions |
| `ReplayDlq` | scripts/replay-dlq.ts on that dead-letter queue | the specification of the whole way, its properties |
| `EventDelivery` | what that way promises of an event | abstract specification |
| `IncidentQuery` | the API routes that read an incident and its timeline, listIncidentEvents | operators and a variable |
| `Console` | detail and timeline of the dashboard, with their calls | the specification, its properties |
| `AiAnalysis` | the AI handler and the ai writes of incidents.ts, for one incident | specification |
| `IncidentCore_proofs`, `IncidentHistory_proofs`, `EventClaim_proofs`, `Delivery_proofs`, `AiAnalysis_proofs`, `ReplayDlq_proofs` (with those of `Ingest`), `EventCounting_proofs`, `Console_proofs` | | theorems and proofs |
| `MC...` | | instances for TLC |

### IncidentStore, IncidentEngine, IncidentApi, IncidentCore

*State.* `incidents` and `timeline`, `outbox`, `pointer` are the items of the tables
for ONE correlation key; `attempt` holds, per event, its message and the locals of
the handler that has it, `request` the same per API request. `pc` is the request
the handler makes next. An incident is its status, severity, event count and
version; version 0 stands for no item. The names, times, AI fields and index keys
of an item are left out: no branch of this code depends on them. Keys do not
interact in these files, except through one index used for listing.

*Steps.* Each DynamoDB request is one step: its condition, its effect, and what the
handler does with the answer. After a request took effect its answer may be lost
(`Answered`, `Served`); a request may fail without effect (`CallFails`,
`RequestFails`), an invocation may die (`Crash`). Each such fault uses up one of
`MaxFaults`; a refused condition is not a fault. `openIncident`'s catch-all is
`Threw`: reached the first time it goes on to look the pointer up again, reached
after a dropped pointer it throws.

*Reads.* `GetItem` is called without `ConsistentRead`. `oldIncidents` and `oldPointer`
are lagging copies, caught up item by item (`Replicate`); with `StaleReads` a read
may answer from either.

*What the engine takes from the counters* is the pair (suppressed, severity), chosen
anew by each attempt: a superset of what `EventCounting` can produce. *What it takes
from the claim* is that at most one attempt per event is live, which is
`Exclusive` of `EventClaim`; a crash either leads to a retry (the claim was taken
over, or SQS delivered late enough) or loses the event (`claim_lost`).

*Choices that a reader should know.*
- createIncident is one transaction: it checks that there is no pointer, and puts
  incident and pointer. It names the pointer item twice, which the DynamoDB service
  refuses; the model gives it its evident meaning.
- uuids are fresh: `Create` draws an unused id. `IncidentIds` bounds them; a
  handler that finds none left has no step, so that TLC would report a deadlock:
  every passing run has as many as its events can need.
- The 403 of a caller who is neither owner nor admin is one nondeterministic answer.
- A caller posts for an incident that exists (`Post`); 404 is still reachable by a
  stale read.
- The AI analysis writes only the ai fields, under a condition on the version, and
  leaves it alone; it does not disturb anything here.
- TTL deletions are not modelled: the TTLs of these items are days.

### IncidentLifecycle

The incidents table alone: an incident is opened once; each step gives one incident
its next version for one reason. An event never lowers the severity, takes no event
back and does not touch the status; an acknowledgement or a resolution touches nothing
else; nothing leads out of RESOLVED. `IncidentCore!ImplementsLifecycle` says that
every request of engine and API is such a step or leaves the table alone. The
refinement mapping is the identity on `incidents`.

### EventClaim

One event: its item (`claim`), the messages that carry it (SQS delivers at least once,
EventBridge may duplicate, an operator may replay), and the invocation that handles
each. Time is a clock: a received message is invisible for `VisibilityTimeout`, an
invocation is killed at its deadline (`Tick` does not pass it), a claim older than
`ProcessingTimeout` may be taken over. `now` of startEventProcessing is read once and
written later, as in the code; the other clock readings fall anywhere between it and
the request (`ClockReadings`). Lambda clocks are taken to agree. `ClientRepeats` is the
retry of the AWS SDK: a request with a lost answer is sent again and is then refused by
what it wrote itself. The work between claim and end is one step that succeeds or throws;
`IncidentEngine` is that work.

`ClaimAssumption` is what the code needs of its deployment: the invocation ends before
the message is visible again (10 s, 30 s), and twice its timeout is less than the
processing timeout (10 s, 120 s): a handler writes its start time up to one timeout
after it, and a reader compares with a time up to one timeout after its own read.

### WindowCounter, Rules, EventCounting

One counter item and `N` concurrent calls. Dedup and severity counters make the same
requests, so one module stands for both. `existing` and `retry` are the two reads of
a call, `wrote` (history) the window in which it counted itself. The three catch blocks of
the code do not ask what failed, so that a refused condition, a failed call and a lost
answer all lead the same way (`Open`, `Count`).

`EventCounting` gives the calls their callers: attempts of the engine at events, at
most one at a time for each event (that is `Exclusive` of `EventClaim`). An attempt whose
call has returned may still fail (`Fails`: anything from handler.ts 214 on), and its event is
then attempted, and counted, again. The count it was told is read in both ways the engine
reads counts: greater than 1 makes a duplicate of the event (dedup), and the rules make a
severity of it. Dedup and severity have windows of their own in the code, and
items of their own, which do not meet; a rule's window is that of the item. `Rules` has the fallbacks of
`loadRules` (tenant, DEFAULT, the rules of the code, also when a read throws) and the loop of
`evaluateSeverity`, a recursive function over the rules, checked against the maximum over the rules whose threshold is reached
(`Highest`). `RulesAssumption` gives hints and rules the type the code casts them to
(rules.ts 5-9, 34-35): it looks no further than whether there is an array.

### OutboxPublisher, NotificationWorker, Delivery

*State.* `outbox` has the status of each item; items are numbered by `createdAt`, by
which the index sorts them. `published` counts the messages the bus has made of an item,
`publisher` is what each invocation has listed and not dealt with yet. `notification`
has, per message `<<item, k>>`, its queue state, its receives and the target its handler is
at; `told` is the topics that accepted a publication about the item. The items are
the IncidentChanged ones; those of the AI analysis go the same way to another queue.

*Steps.* Listing, PutEvents, the mark and each SNS publication are requests, and steps of
their own. `Poison` is the items the bus refuses for good (FailedEntryCount, or a throw);
the first `Limit` of what is pending are listed. Faults: a call that fails, an answer that
is lost, an invocation that dies, a listing beside one that still runs (two invocations
overlap), a listing from an index that lags by one item, a message delivered twice. The
outbox TTL (days) is left out, and so is the content of a message.

*Targets* are those of the tenant and severity, else the tenant's ALL, else the
default topic (`effectiveTargets`); they do not change while a message is in the queue.
A failed target fails the record, which starts again from the first one.

### AiAnalysis

One incident: its version, `aiStatus` and `aiIncidentVersion`; `analysis` has, per
message, its queue state and the incident its handler has read. Engine and API only move the
version (`ChangeIncident`). Each of the two ai writes is conditional on the version; its
refusal ends the message silently. The provider returns or throws (`Analyze`), a throw
takes no fault: `withTimeout` makes one of every slow attempt. An invocation that is
killed is a fault. An attempt and its two retries, of up to 4 s
each, add up to more than the 10 s of the invocation.

*Reads.* `getIncidentById` is not consistent: `past` is all the incident has been, and no
incident (`Undefined`), and `Read` may return any of it, without a fault. An older version costs
nothing, since the condition of every write refuses it. But the ai writes do not change the version
(incidents.ts 349, 381): older ai fields of the *present* version pass every condition, so a handler
that reads them analyses again what is pending or completed.

### Ingest

One idempotency key: its `record`, the messages `published` of its event, and per request
what its handler does next or what it was answered. Any number of requests may come at
once. `start` puts the record if there is none, and reads it after ANY error of the put; the
read is not consistent (`past`). The one whose put was answered publishes and then writes
COMPLETED or FAILED, without a condition; its `catch` is around the publication, the
completion and the failure recorded for a rejected entry, so that FAILED may be tried
twice (`failAgain`). What the validation turns away changes nothing. An answer is the status it
reports; the TTL of the record, a day, is left out.

### EventPath, ReplayDlq, EventDelivery

*State.* `copy` is the messages that carry the event of `Ingest`'s key, in the order of their
birth: where each is (events queue, dead-letter queue, acknowledged, deleted), its receives,
how often it was replayed, and for which run of the script a dead letter is in
flight. `run` is the invocations of the script: what each does next, its options, how many letters it
has dealt with and which it has. Two history variables, `refused` and `forced`, are
what the properties except.

*Composition.* `HandleRequest` is a step of `Ingest` and, when that publishes, the message the bus
makes of it. The engine acknowledges a message or does not (`EventClaim` and `IncidentEngine`
say when); after `MaxReceives` receives SQS moves it to the dead-letter queue. The script
receives one letter, skips it (replayed already, three times, or a dry run), or sends it with
its count raised and then deletes it; each is a request, with its failures and lost answers
(the AWS client repeats a send). A letter in flight is visible again in time; that
this happens while its run is still at it is a fault. `--requeue-to eventbridge` puts the event on the
bus, which may refuse an entry without failing the request: nobody looks (`BusRefuses`).

`EventDelivery` is at least once, in four states: absent, pending, acknowledged, lost.
`EventStatus` is the refinement mapping, from all the copies of the event and where they are;
`Delivery == INSTANCE EventDelivery WITH status <- EventStatus`. It allows a loss only after the bus
has refused an entry.

*Left out.* A dead letter without a `detail` (no letter of the bus is one) and the
letters of the two other queues, which the script treats alike.

### IncidentQuery, Console

`IncidentQuery` is what the reading routes may answer at the moment they are served: an
incident of the tenant, a page of its timeline, newest first and from the token on, or a
failure. An event is its place in the sort order, the time that its producer wrote: one that is
recorded later may be older. A page token names the item that the last page ended with
and is refused in another partition. `Pages` says what a page is without saying how it is
found: newest first, and what it leaves out is older than what it has, and only there when it is full. How incidents change is the matter of IncidentCore; an
incident is read with any status.

`Console` is one browser tab. A step is a user event, or what follows one answer up to the
next `await`, with the effects React runs for the state it set: JavaScript does not interleave
more finely. `calls` is the calls under way of each kind, in the order they were made (those made at once are of
different kinds, so their order among each other does not matter); the
API serves a timeline call at one moment (`Serve`) and the browser hears of it later
(`Deliver`), in any order, or of a failure. `loading` is the flags that disable buttons; the
buttons are the guards. An accepted acknowledgement or resolution goes on to load the list, the
detail and the timeline of the incident *it was for*, one after the other, whatever has been selected
since.

The two effects of a tenant change run in their order and in one render: the first drops the
selection, but the second still has it, and loads it once more for the new tenant
(`loadDropped`). The answers of these calls, and of all that a newer call of their kind has
replaced, are *overtaken*: nothing in the code tells them from others, so that they
are shown (or appended) when they come. `lastWord`, which no code reads, says
whose answer each panel shows, and the properties except the overtaken: what they say is that
nothing else ever separates panels and selection.

*Left out.* The list (it may show any incident: it keeps the rows of an earlier filter or tenant
until its next answer), messages, metrics and the ingest form, on which nothing here depends.

## 3. Runs

| Run | Instance | Properties | Result |
| --- | --- | --- | --- |
| core_faults | 2 events, suppressed or not, 2 requests, 3 incidents, 1 fault, 2 receives | CopiesAreTrue, NeverCollides, AnnouncementsFormAHistory, EveryListedEventIsCounted, ImplementsLifecycle | hold |
| core_quiet | 2 events, 2 severities, 1 request, 3 incidents, 2 receives, stale reads, AI on, no fault, fair | TypeOK, AnnouncementsFormAHistory, ResolvedPointerIsGoing, OpeningAndResolutionAnnounced, ImplementsLifecycle, EveryEventSettles, EveryRequestIsAnswered | hold |
| core_oneactive | 4 events, 1 resolution, no fault | OneActivePerKey | violated |
| core_unannounced | 1 event, 2 requests, 1 fault | EveryStatusChangeIsAnnounced | violated |
| core_doublecount | 2 events, 1 resolution, no fault | NoEventCountedTwice | violated |
| claim_pass | 2 messages, 2 receives, timeouts 1, 2, 3, clock to 6, 2 faults | Exclusive, SuccessesArePaidFor, LossLeavesATrace, ProcessedIsFinal | hold |
| claim_lost | 1 message, 1 fault | FailedMessagesAreRetried | violated |
| counting_pass | 4 calls for up to 2 events, window 2, clock to 5, 1 fault, 3 sets of rules | TypeOK, OneFirstPerWindow, SomebodyIsFirst, NeverOvercounts, ExactUnlessOverlapped, SuppressedForAReason, SeverityIsEarned, WindowsDoNotOverlap | hold |
| delivery_pass | 3 items (1 poison; 1 with two targets; 1 whose only target is broken), 2 invocations, limit 2, 2 receives, 1 fault, fair | NothingForgotten, DuplicatesArePaidFor, ToldBeforeDeleted, EveryoneIsTold | hold |
| ai_pass | 3 messages (1 UPDATED), 2 versions, 2 receives, 1 fault, all settings | PendingHasAHandler, NeverGoesBack, CompletedIsKept | hold |
| replay_pass | 2 requests, 2 runs of the script with any options and up to 2 letters each, 1 receive, 1 fault | PublishedOnce, AcceptedIsPublished, AcceptedIsKept, RecordsAreTrue, ReplaysAreBounded, ImplementsDelivery | hold |
| console_pass | 2 incidents of 1 of 2 tenants, a timeline that grows and one that does not, pages of 1, up to 3 calls | DetailIsTheSelected, TimelineIsInOrder, FlagsWillBeCleared | hold |

*Bounds.* Every race of the core is between two handlers that have read the same item:
two events and a request make all pairs (event against event, event against request), and
two requests race each other, and repeat each other, in core_faults. One fault reaches each
catch block and each place where a handler can be cut off, and a retry (`MaxReceives` = 2)
meets what it left. Two severities make an escalation; three incident ids let further
incidents of the key be opened beside or after the first. core_faults and core_quiet share out the
features, severities and stale reads here, suppression and faults there: together they are
beyond TLC, and the theorems have them all at once. core_quiet opens the incidents in a fixed order (`OpenedInOrder`,
an action constraint): ids are interchangeable, and symmetry cannot be declared in a run with
liveness properties. In claim_pass the clock passes the
visibility timeout twice and the processing timeout once, so that redelivery, refusal,
takeover and late endings all happen; 4 calls in counting_pass leave one or two to fill a window and the
others to race for the next, as different events or as retries of one. In
delivery_pass three items and a limit of two
make a list that does not hold them all, with a refused item at its head; one fault makes
a second message of an item, and two targets leave one told when the other fails. In ai_pass
two handlers read the same version, a third is of another kind, one version comes between
them, and each read may see any earlier state. In replay_pass the request that starts meets one that comes meanwhile or after; an event
that fails is a dead letter after one receive; and each of two runs can replay it, meet what the other
replayed, and be overtaken. In console_pass three calls are a selection's two and one left over
from before, or an action's and those of the selection made meanwhile; a page of one event and two
events make a second page, the two events of a timeline arrive in either order, so that the one that arrives
between the pages belongs before the token or after it, and `MaxShown` is the length up to which more is asked for. There an incident is read as
OPEN: another status only takes a button away. `MaxClock`, `MaxFaults`,
`MaxVersion`, `MaxCalls`, `MaxShown`, `MaxMessages`, `IncidentIds`, `Calls`, `Runs` and `Requests` are the bounds;
no theorem fixes any of them, but for `MaxFaults` = 0 where a property is about runs without faults.

*Deadlock* is checked in every run: `Terminating`, `CountingStopped`, `ReplayTerminating` and `Stopped` are the only
ends, when every message is settled and no request is being served (or the clock has
reached its bound).

*Fairness* of `IncidentCore!FairSpec` (core_quiet): weak fairness of all the handlers together:
while some message or request has a step to take, one of them takes one. SQS redelivers until `maxReceiveCount`, Lambda
invokes and runs a handler to its end; which of them runs is left open, and that is enough,
since each takes a bounded number of steps. Nobody has to post a request, fail, or replicate. Of
`Delivery!FairSpec` (delivery_pass): weak fairness of the
publisher, which the schedule invokes every minute, and of each message's handler, in both
cases of their steps without a fault, so that no fault is ever owed. It asks `Poison` to be fewer than
`Limit` (20 in the code, `PublisherAssumption`): with as many, the items behind
them wait for ever, as they would in the code.

### Findings

The four violated properties each quote a sentence of the documentation that the code
does not keep; `PROJECT.json` has the quotations.

1. *Two unresolved incidents of one key* (core_oneactive). A resolver writes RESOLVED; an
   event that finds the resolved incident deletes the pointer and the next one opens
   a new incident; the resolver now deletes that one's pointer.
2. *An acknowledgement that is never announced* (core_unannounced). Status written, pointer
   or outbox request failed, 500; the retry is answered 200, idempotent.
3. *An event counted twice without any failure* (core_doublecount). Its incident is updated
   and then resolved before the pointer is updated; the handler throws, and the retry
   opens a new incident.
4. *A crashed handler's event is lost* (claim_lost). Redelivered after 30 s, taken for in
   progress for 120 s, acknowledged and deleted. `LossLeavesATrace` says what is left:
   the item stays PROCESSING.

### What rests on consistent reads

With `StaleReads` = TRUE and no fault at all:
- `Exclusive` fails: the read after a refused claim (event-state.ts 264) does not see
  the item, and the handler answers `retry` and works without a claim;
- `OneFirstPerWindow` and `SomebodyIsFirst` fail, and with four calls `NeverOvercounts`.

The incident tables do not depend on it (core_quiet): there the conditions on the version
make up for it. The ai fields do: they change within a version ("What an analysis may replace"). The counters also undercount without any of this: two calls that read
the same count write the same count (event-state.ts 168). `ExactUnlessOverlapped` says that
overlapping calls, faults and lagging reads are the only ways to lose one.

### What a retry counts

A failed attempt has counted its event, and its retry counts it again: the retry is then
told a count of 2 and the event suppressed as a duplicate of itself, and three attempts at one
event reach a threshold of three. `SuppressedForAReason` and `SeverityIsEarned` name these attempts as
the only reason besides other events.

### What a fault may add to a count

A call whose opening of a window failed, rather than being refused, rereads the item and writes
what it read, plus one, without a condition (event-state.ts 142-156; the same at 207-220). If another call has
opened the next window in between, the count of the old window is written into the new one: its
events are suppressed, and thresholds reached, on account of what came before. That is why
`NeverOvercounts`, `SuppressedForAReason` and the thresholds of `SeverityIsEarned` are claimed of runs
without faults. How often a window opens (`WindowsDoNotOverlap`) and how many
are let through (`OneFirstPerWindow`, one more for each fault) holds with faults.

### What the dashboard may show

An answer that was overtaken is shown when it comes: after two quick selections the detail,
and so what Ack and Resolve act on, may be the incident selected first, and a page asked for
before may be appended to another incident's timeline. An action reloads the incident it was for, even when
another is selected by then. A change of tenant asks the new tenant for the incident of the old
one. The properties of `Console` except these and nothing else; what is shown after them
is put right by the next refresh or selection whose answers come last.

### What an analysis may replace

aiReanalyzeOnIncidentUpdate = false is to keep a completed analysis of the present version
(ai-analysis handler.ts 139). That check is made of what was read, and `CompletedIsKept` says how far
it goes: what puts the completed analysis aside is a handler that holds an earlier state of the same
version. It may have been under way when the analysis was completed (two handlers that both read
before either set `pending`; the one that fails last marks it failed); or, though its message came long after, its read
lagged: it sets `pending` again and analyses once more, without any fault but what brought the message
again. A handler that sees the completion never does. `NeverGoesBack` and `PendingHasAHandler` hold with lagging reads as
they stand.

### What a killed analysis leaves

`PendingHasAHandler` is claimed as long as there is no fault. A handler that is killed after it
has set `pending` leaves it there: the redelivered message finds the incident pending at its
version, is skipped as already pending (ai-analysis handler.ts 134) and deleted, and nobody
marks it failed until its version changes and it is analysed again. `RecordsAreTrue` of the
ingest API has the same exception: after a crash the record stays PROCESSING, and after a
completion that failed it says FAILED of a published event.

## 4. Proofs

TLAPS checks, for every value of the constants that satisfies the named assumptions of
the modules (`StoreAssumption`, `EngineAssumption`, `ApiAssumption`, `ClaimAssumption`,
`PublisherAssumption`, `NotificationAssumption`, `AnalysisAssumption`, `IngestAssumption`,
`PathAssumption`, `ReplayAssumption`, `WindowAssumption`, `RulesAssumption`, `QueryAssumption`):

| Theorem | Says | Argument |
| --- | --- | --- |
| `IncidentCore_proofs!TypeCorrect` | Spec => []TypeOK | inductive, one lemma per handler |
| `IncidentCore_proofs!CopiesCorrect` | Spec => []CopiesAreTrue | `TypeOK /\ CopiesAreTrue` is inductive: a change of the table gives one incident a larger version, so what was a past of it stays one (`PastStays`); only the handler that made the change holds the new version |
| `IncidentCore_proofs!Refinement` | Spec => ImplementsLifecycle | each step, given the invariant: what is written is the successor of what was read, and what was read is what is stored, because the version says so |
| `IncidentHistory_proofs!NeverCollidesHolds` | Spec => []NeverCollides | `Apart`: who is to announce a version of an incident is the one who made it, and has not announced it yet |
| `IncidentHistory_proofs!HistoryHolds` | Spec => []AnnouncementsFormAHistory | `History`, see below |
| `IncidentHistory_proofs!CountedHolds` | Spec => []EveryListedEventIsCounted | `Counted`: the events that are listed, and those whose handlers have counted them and are about to list them, are no more than the count |
| `IncidentHistory_proofs!GoingHolds` | without faults, Spec => []ResolvedPointerIsGoing | inductive with `HInv`: whoever resolves goes on to the pointer, and so does whoever reads a resolved incident |
| `IncidentHistory_proofs!AnnouncedHolds` | without faults, Spec => []OpeningAndResolutionAnnounced | `Told`: an incident has been announced OPENED, or its opener is about to; the same of RESOLVED and its resolver |
| `EventClaim_proofs!ExclusiveHolds` | Spec => []Exclusive | see below |
| `EventClaim_proofs!ProcessedHolds` | Spec => ProcessedIsFinal | only a handler that read before PROCESSED was written updates, and not long before (`Reading`) |
| `EventClaim_proofs!SuccessesHold` | Spec => []SuccessesArePaidFor | `Paid`: the last success is PROCESSED, or about to be, or paid for by a fault |
| `EventClaim_proofs!LossHolds` | Spec => []LossLeavesATrace | `Tracing` |
| `Delivery_proofs!NothingForgottenHolds` | Spec => []NothingForgotten | whoever is about to mark an item has published it, and nothing is unpublished (`MarkedWasPublished`) |
| `Delivery_proofs!DuplicatesArePaidForHolds` | Spec => []DuplicatesArePaidFor | `Paid`, see below |
| `Delivery_proofs!ToldBeforeDeletedHolds` | Spec => []ToldBeforeDeleted | `SentInOrder`: the targets before the one a handler is at were told |
| `ReplayDlq_proofs!PublishedOnceHolds` | Spec => []PublishedOnce | one request at most is to end the record (`OneStarter`), and while it publishes a publication is not paid for yet (`Paid`) |
| `ReplayDlq_proofs!AcceptedIsPublishedHolds` | Spec => []AcceptedIsPublished | `CompletedIsPublished`, which includes what a lagging read may see |
| `ReplayDlq_proofs!AcceptedIsKeptHolds` | Spec => []AcceptedIsKept | after the answer nobody is left to end the record (`AcceptedSettles`) |
| `ReplayDlq_proofs!RecordsAreTrueHolds` | Spec => []RecordsAreTrue | `FailuresAreTrue` |
| `ReplayDlq_proofs!DeliveryHolds` | ReplaySpec => ImplementsDelivery | `PathInv`: a letter in a run's hands is a dead letter or was deleted, and unless the bus has refused, the youngest copy is never deleted (`YoungestIsKept`); each step then maps to a step of `EventDelivery` or to a stutter |
| `ReplayDlq_proofs!IngestHolds` | ReplaySpec => [](the four invariants of Ingest) | the same invariant (`IInv`) again: a fault of the queue or the script uses up one of `MaxFaults`, and that only makes it weaker |
| `ReplayDlq_proofs!MarkedOnceHolds` | ReplaySpec => []MarkedOnce | part of `PathInv`: what is sent by a run that is not forced carries the mark that the next run skips |
| `ReplayDlq_proofs!ReplaysAreBoundedHolds` | ReplaySpec => []ReplaysAreBounded | `Credit`, see below |
| `EventCounting_proofs!TypesHold` | CountingSpec => []TypeOK | `Basic`: calls read only items, and an item that is there stays |
| `EventCounting_proofs!WindowsHold` | CountingSpec => WindowsDoNotOverlap | `Near`: who found no item after two refusals is as old as the window that is there when it writes; and `Faultless`: only after a fault is there such a call |
| `EventCounting_proofs!CountsHold` | CountingSpec => []NeverOvercounts | `Faultless`, see below |
| `EventCounting_proofs!FirstHolds` | CountingSpec => []SomebodyIsFirst | `Faultless`: only an opening moves a window, and it returns 1 |
| `EventCounting_proofs!ReasonsHold` | CountingSpec => []SuppressedForAReason | a count of more than 1 was read, so somebody had counted (`Room`); an attempt at the same event that had counted has failed (`OneAtATime`) |
| `EventCounting_proofs!OneFirstHolds` | CountingSpec => []OneFirstPerWindow | `Firsts`, see below |
| `EventCounting_proofs!ExactHolds` | CountingSpec => []ExactUnlessOverlapped | `Exact`: as long as nothing overlapped, the one call that runs has read the item as it is (`Alone`), and the count is that of those who counted |
| `EventCounting_proofs!Evaluates` | for all rules, hints and counts, evaluateSeverity is the highest severity asked for | see below |
| `EventCounting_proofs!SeverityHolds` | CountingSpec => []SeverityIsEarned | `Evaluates`, and `Counts`: without faults nobody is told of more calls than counted themselves in the window (`Told`), and these are attempts of events, of which all but one failed |
| `AiAnalysis_proofs!NeverGoesBackHolds` | Spec => NeverGoesBack | nobody has read, or written, a version ahead of the incident's (`NotAhead`), and a write asks that it be the same |
| `AiAnalysis_proofs!PendingHolds` | Spec => []PendingHasAHandler | inductive with the types; the handler that fails marks before it gives its message back |
| `AiAnalysis_proofs!CompletedHolds` | Spec => CompletedIsKept | `DoneIfCompleted`: whoever read a completed analysis of the version does not write; `HeldWasSo`: what it read instead the incident has been, so it is an earlier state, and the condition makes it one of the same version |
| `Console_proofs!FlagsHold` | Spec => []FlagsWillBeCleared | `Awaited`, with the types (`Basic`): the step that ends a call either makes the next call of its action or clears the action's flag, and the flag of its own kind |
| `Console_proofs!DetailHolds` | Spec => []DetailIsTheSelected | `Shown`, see below |
| `Console_proofs!TimelineHolds` | Spec => []TimelineIsInOrder | `Paged`, see below |

Stale reads and any number of faults are included in the theorems about IncidentCore and AiAnalysis; those
about EventClaim and EventCounting, but for `Evaluates`, assume `~StaleReads`.

`Exclusive` is not inductive. It needs `Holding` (whoever works is the one whose start
time is in the item) and `Timing` (whoever runs has started at most `LambdaTimeout` ago): a
takeover requires a claim older than `ProcessingTimeout`, so its owner no longer runs. The
invariants `IInv` were checked with TLC before they were proved.

`DuplicatesArePaidFor` counts what was published. `Paid` adds what will be: the invocations
that hold the item and have not published it (`Coming`), and one more if the item is
not marked and nobody holds it (`Due`). Each step without a fault moves one unit from one
of these to another or takes one away, and each fault adds at most one: it is there that a
listing that overlaps or lags must be a fault. The proof counts a finite set of invocations
(`Terms`), since any number of them may overlap.

`AnnouncementsFormAHistory` speaks of what was announced, in whatever order. `History` adds what
will be: it orders the versions of an incident that were announced, that are about to be, and
that are stored, by status, severity and count, and says who alone may still announce which
change. `Apart` keeps those makers apart: each version has one, since the condition on the version lets one
request write it.

`ImplementsDelivery` depends on the order of send and delete, and on every copy: when a letter
is deleted there must be a younger copy, or the bus must have refused one. `YoungestIsKept` says
that a run about to delete has a letter that is not the youngest; the younger copy itself may have been acknowledged, replayed
or deleted in turn, but not without one younger than it.

`NeverOvercounts` rests on a race that cannot be lost without a fault. `Careful`: who was refused
knows that the window of the item is another than the one it read, so it was opened while the call ran
(`Recent`); to open the next one takes a call that began more than `Window` later, and no call
runs for that long, nor for half of it (`2 * CallTimeout <= Window` in `WindowAssumption`: 10 s
and 300 s in the template). So what it reread is of the window it writes into, and was counted
there (`Room`).

`OneFirstPerWindow` holds with faults, and each may make one more call believe it is the first.
`Firsts` counts the calls that were told so and those that may yet be: a call whose opening failed
while it had seen no item counts from 0 (`Pays`). It becomes one of these by a fault, so the
firsts and candidates of a window are no more than the faults, and one for the window's
opening, until which nobody but a candidate is its first (`OneMore`). That a window is not opened twice comes
from the condition of the opening and from `Near`, with the timing of `WindowAssumption`.

`ReplaysAreBounded` counts messages that other runs may receive, lose or send at the same time.
`Credit` says what each unreplayed message is good for: one replay, that was made, that a run is
about to make (`MaySend`), or that is still to come (`Left`); a fault is good for one more, since
it can put a message back that a run has already sent on. Every step of the script moves a unit from one of these to the
next; the finite sets are counted step by step (`Numbers`).

`Evaluates` is an induction over the rules. The induction theorems of the library take an operator
and cannot be used here, but its theorem on well-founded relations takes a set: the rules after which the
severity is not the highest asked for would have a least one (`Least`), and the step before
it was right (`AskedMore`). The function is written with its values known in advance (`best`), which
is what shows that the recursive definition has a value at all.

The panels of the dashboard depend on which calls are *fresh*, not overtaken: of each kind the last one made,
at most (`CallsOK`), so that when it is answered only overtaken ones are left. `Shown` says of the detail that
the selected incident is shown or a fresh call asks for it, and that a fresh call of the user's is for
the selected incident. `Paged` says of the timeline that a fresh call for a further page has the token of
the last event shown; what it answers is older (`IsPage`, `PageIs`), so that it can be
appended (`AppendedIs`). Answers wait between being served and being delivered, so the answer that waits has
to be a page of what its call asked for (`Served`), although events arrive meanwhile.

*Only model-checked:* the three liveness properties EveryEventSettles, EveryRequestIsAnswered and EveryoneIsTold:
fairness and ENABLED are out of the prover's reach. The four properties that runs find violated have
no theorem. Every other property of a run is proved, under the hypotheses
named above.

## 5. Not modelled

1. *GET /incidents and its filters.* The limit is applied before the filter (incidents.ts 126-140),
   so that a page may be short or empty although its token leads to more; a list is stateless
   and reads an index. The dashboard's list, messages, metrics and ingest form.
2. *Tenant metrics*: atomic counters whose failures are logged and ignored, and which nothing
   but a route reads.
3. *The authorizer*: the verification of tokens is cryptography; what the API makes of its answer is a
   nondeterministic refusal wherever it matters.
4. *TTLs* of idempotency records, event items and outbox items: a day and more, beside
   timeouts of seconds and minutes.
5. *Retention of messages*: SQS drops what nobody has received and deleted after 4 days, its default, or 14 in a
   dead-letter queue (template.yaml 246, 263, 280). In the models a message waits for ever: a
   dead letter nobody replays stays, where the service would lose it in the end.
6. *The whole pipeline at once.* Each module takes of its neighbours what they are shown to promise
   (`Exclusive`, at least once, a superset of the counts); their product is beyond TLC.

What would come next: listIncidents with its filters against the status index, and what a timeline
that is paged through leaves out while older events arrive.

Out of reach or without a state of its own: token verification, logging, HTTP formatting,
schema validation, CloudFormation templates, seed and load scripts, page layout.
