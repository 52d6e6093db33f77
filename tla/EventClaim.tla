----------------------------- MODULE EventClaim -----------------------------
(***************************************************************************)
(* Who may process an event: the EVENT#<eventId> / STATE item of ONE event *)
(* (startEventProcessing, completeEventProcessing, failEventProcessing of  *)
(* libs/dynamodb/src/event-state.ts), the messages that carry the event    *)
(* (duplicates of EventBridge and SQS, replays) and the Lambda invocations *)
(* that handle them, on a clock.                                           *)
(*                                                                         *)
(* The work between the claim and its end (handler.ts 157-423) is one step *)
(* here: it succeeds or throws.  IncidentEngine.tla is that work.          *)
(***************************************************************************)
EXTENDS Integers, FiniteSets

(* Operators that no other definition uses are the mutants of PROJECT.json. *)

CONSTANTS
  Messages,            \* the messages that carry the event
  LambdaTimeout,       \* an invocation is killed after it (template.yaml 111)
  VisibilityTimeout,   \* a received message is invisible for it
  ProcessingTimeout,   \* a claim older than it may be taken over
  MaxReceives,         \* maxReceiveCount of the events queue
  StaleReads,          \* may a GetItem answer with the item as it was?
  ClientRepeats,       \* does the AWS client repeat a request with no answer?
  MaxFaults,           \* bound on crashes, failed calls and lost answers
  MaxClock             \* bound on the clock, for TLC

\* The values of infra/template.yaml, 10, 30, 120 and 3, satisfy it.
ASSUME ClaimAssumption ==
  /\ Messages # {}
  /\ LambdaTimeout \in Nat \ {0}
  /\ VisibilityTimeout \in Nat /\ LambdaTimeout < VisibilityTimeout
  /\ ProcessingTimeout \in Nat /\ 2 * LambdaTimeout < ProcessingTimeout
  /\ MaxReceives \in Nat \ {0}
  /\ StaleReads \in BOOLEAN
  /\ ClientRepeats \in BOOLEAN
  /\ MaxFaults \in Nat
  /\ MaxClock \in Nat

VARIABLES
  now,           \* the time
  claim,         \* the item: its status ("NONE": no item) and updatedAt
  past,          \* the statuses the item has had, which a stale read may see
  message,       \* each message and the locals of its handler
  successes,     \* how often the work was done to its end (history)
  faults         \* faults so far, at most MaxFaults

item == <<claim, past>>
vars == <<now, claim, past, message, successes, faults>>

Working == {"work", "complete", "fail"}
Running == {"batched", "put", "read", "update", "return"} \cup Working
Settled == {"deleted", "dlq"}

Status == {"NONE", "PROCESSING", "PROCESSED", "FAILED"}
Claim == [status : Status, updatedAt : Nat]
Message ==
  [pc : {"queued"} \cup Running \cup Settled,
   receives : Nat,
   visibleAt : Nat,      \* when SQS may deliver it again
   deadline : Nat,       \* when its invocation is killed
   startedAt : Nat]      \* `now` of startEventProcessing

NewMessage ==
  [pc |-> "queued", receives |-> 0, visibleAt |-> 0, deadline |-> 0, startedAt |-> 0]

Init ==
  /\ now = 0
  /\ claim = [status |-> "NONE", updatedAt |-> 0]
  /\ past = {}
  /\ message = [m \in Messages |-> NewMessage]
  /\ successes = 0
  /\ faults = 0

Writes(c) == claim' = c /\ past' = past \cup {claim.status}

At(m, pc) == message[m].pc = pc
Goes(m, pc) == message' = [message EXCEPT ![m].pc = pc]
Fault == faults < MaxFaults /\ faults' = faults + 1

\* The handler's clock, read somewhere between its start and the request.
ClockReadings(m) == message[m].startedAt .. now

-----------------------------------------------------------------------------
(* SQS and Lambda *)

\* No invocation outlives its deadline.
Tick ==
  /\ now < MaxClock
  /\ \A m \in Messages : message[m].pc \in Running => now < message[m].deadline
  /\ now' = now + 1
  /\ UNCHANGED <<item, message, successes, faults>>

Visible(m) == At(m, "queued") /\ message[m].visibleAt <= now

Receive(m) ==
  /\ Visible(m) /\ message[m].receives < MaxReceives
  /\ message' = [message EXCEPT ![m].pc = "batched", ![m].receives = @ + 1,
                                ![m].visibleAt = now + VisibilityTimeout,
                                ![m].deadline = now + LambdaTimeout]
  /\ UNCHANGED <<now, item, successes, faults>>

DeadLetter(m) ==
  /\ Visible(m) /\ message[m].receives = MaxReceives
  /\ Goes(m, "dlq")
  /\ UNCHANGED <<now, item, successes, faults>>

\* processRecord has returned, and so does the invocation: the message goes.
Return(m) ==
  /\ At(m, "return")
  /\ Goes(m, "deleted")
  /\ UNCHANGED <<now, item, successes, faults>>

\* The invocation dies or times out, or a call outside the try fails (the
\* claim, the rules): the message is not deleted, and visible again in time.
Crash(m) ==
  /\ message[m].pc \in Running
  /\ Goes(m, "queued")
  /\ Fault
  /\ UNCHANGED <<now, item, successes>>

-----------------------------------------------------------------------------
(* startEventProcessing *)

\* The turn of the record in its batch comes.
Start(m) ==
  /\ At(m, "batched")
  /\ message' = [message EXCEPT ![m].pc = "put", ![m].startedAt = now]
  /\ UNCHANGED <<now, item, successes, faults>>

Claimed(m) == [status |-> "PROCESSING", updatedAt |-> message[m].startedAt]

\* Granted: the handler goes to work.  If the answer was lost it throws (as
\* Crash does just after), or the client repeats the request, which is then
\* refused by what it has just written itself and leads to `refused`.
Granted(m, refused) ==
  \/ Goes(m, "work") /\ UNCHANGED faults
  \/ ClientRepeats /\ Goes(m, refused) /\ Fault

Put(m) ==
  /\ At(m, "put")
  /\ UNCHANGED <<now, successes>>
  /\ \/ /\ claim.status # "NONE"
        /\ Goes(m, "read")
        /\ UNCHANGED <<item, faults>>
     \/ /\ claim.status = "NONE"
        /\ Writes(Claimed(m))
        /\ Granted(m, "read")

AfterReadForgetful(status) == IF status = "NONE" THEN "work" ELSE "update"

\* What follows the status that was read.
AfterRead(status) ==
  CASE status = "NONE" -> "work"           \* retry
    [] status = "PROCESSED" -> "return"    \* duplicate
    [] status \in {"PROCESSING", "FAILED"} -> "update"

\* The GetItem does not ask for a consistent read.
readEventState == {claim.status} \cup (IF StaleReads THEN past ELSE {})

Read(m) ==
  /\ At(m, "read")
  /\ \E status \in readEventState : Goes(m, AfterRead(status))
  /\ UNCHANGED <<now, item, successes, faults>>

MayTakeOverFresh(t) == claim.status = "FAILED" \/ claim.updatedAt <= t

\* ConditionExpression: FAILED, or updatedAt <= staleBefore.
MayTakeOver(t) == claim.status = "FAILED" \/ claim.updatedAt <= t - ProcessingTimeout

\* A refusal is answered in_progress, and the message is deleted.
Update(m) ==
  /\ At(m, "update")
  /\ UNCHANGED <<now, successes>>
  /\ \E t \in ClockReadings(m) :
       \/ /\ ~MayTakeOver(t)
          /\ Goes(m, "return")
          /\ UNCHANGED <<item, faults>>
       \/ /\ MayTakeOver(t)
          /\ Writes(Claimed(m))
          /\ Granted(m, "return")

-----------------------------------------------------------------------------
(* The work, and how it ends *)

Work(m) ==
  /\ At(m, "work")
  /\ \/ Goes(m, "complete") /\ successes' = successes + 1
     \/ Goes(m, "fail") /\ UNCHANGED successes
  /\ UNCHANGED <<now, item, faults>>

\* The update is unconditional.
Ends(m, status) ==
  \E t \in ClockReadings(m) : Writes([status |-> status, updatedAt |-> t])

\* A failure of the call itself is logged, and the message deleted all the same.
Complete(m) ==
  /\ At(m, "complete")
  /\ Goes(m, "return")
  /\ \/ Ends(m, "PROCESSED") /\ UNCHANGED faults
     \/ Ends(m, "PROCESSED") /\ Fault
     \/ UNCHANGED item /\ Fault
  /\ UNCHANGED <<now, successes>>

Swallows(m) == Goes(m, "return")

Rethrows(m) == Goes(m, "queued")

\* A failure of the call itself is logged; the error of the work is thrown on.
Fail(m) ==
  /\ At(m, "fail")
  /\ Rethrows(m)
  /\ \/ Ends(m, "FAILED") /\ UNCHANGED faults
     \/ Ends(m, "FAILED") /\ Fault
     \/ UNCHANGED item /\ Fault
  /\ UNCHANGED <<now, successes>>

Settle == \A m \in Messages : message[m].pc \in Settled
\* Nothing is left to do, or the bound on the clock is reached.
Stopped == (Settle \/ now = MaxClock) /\ UNCHANGED vars

Next ==
  \/ Tick
  \/ \E m \in Messages :
       \/ Receive(m) \/ DeadLetter(m) \/ Return(m) \/ Crash(m)
       \/ Start(m) \/ Put(m) \/ Read(m) \/ Update(m)
       \/ Work(m) \/ Complete(m) \/ Fail(m)
  \/ Stopped

Spec == Init /\ [][Next]_vars
-----------------------------------------------------------------------------
TypeOK ==
  /\ now \in Nat
  /\ claim \in Claim
  /\ past \subseteq Status
  /\ message \in [Messages -> Message]
  /\ successes \in Nat
  /\ faults \in 0 .. MaxFaults

\* At most one handler works on the event, or is about to write how the work
\* ended: the claim excludes every other one although its end is written
\* without a condition and a takeover needs no answer from the handler it
\* takes over from (event-state.ts 254, 290, 312, 339).
Exclusive ==
  \A m, n \in Messages :
    message[m].pc \in Working /\ message[n].pc \in Working => m = n

\* A processed event stays processed: no late failure, no takeover and no
\* other message undoes it (269-271, 290).
ProcessedIsFinal ==
  [][claim.status = "PROCESSED" => claim'.status = "PROCESSED"]_claim

\* The work is done to its end once, and once more only after a fault: what
\* the retries of failed work repeat is only what that work had left.
SuccessesArePaidFor == successes <= 1 + faults

\* Once no message is left the event was processed, or it is in the dead-letter
\* queue, or (after a fault) its item says PROCESSING for good: what is lost
\* can be told from what is not (handler.ts 153-156, 424-436).
LossLeavesATrace ==
  Settle =>
    \/ successes > 0
    \/ \E m \in Messages : At(m, "dlq")
    \/ claim.status = "PROCESSING" /\ faults > 0

\* README.md: "Processor crashes mid-batch: SQS retries failed messages".  Once
\* no message is left the event was processed or dead-lettered.
FailedMessagesAreRetried ==
  Settle => successes > 0 \/ \E m \in Messages : At(m, "dlq")
=============================================================================
