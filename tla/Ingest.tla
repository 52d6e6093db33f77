-------------------------------- MODULE Ingest --------------------------------
(***************************************************************************)
(* services/ingest-api/src/handler.ts and libs/idempotency/src/index.ts,   *)
(* for the requests with ONE idempotency key: a request and its retries,   *)
(* in any order and at once.                                               *)
(*                                                                         *)
(* The key's record lives for a day and the requests for seconds: the TTL  *)
(* is left out.                                                            *)
(***************************************************************************)
EXTENDS Integers

(* Operators that no other definition uses are the mutants of PROJECT.json. *)

CONSTANTS
  Calls,         \* the requests (bounds them)
  MaxFaults      \* bound on failed calls, lost answers, crashes

ASSUME IngestAssumption == MaxFaults \in Nat

VARIABLES
  record,        \* the status of the key's record; "NONE" if there is none
  past,          \* what a read of it that is not consistent may still see
  published,     \* how many messages the bus has made of the event
  call,          \* each request: what its handler does next, or the answer
  faults         \* faults so far, at most MaxFaults

vars == <<record, past, published, call, faults>>

IdempotencyStatus == {"PROCESSING", "COMPLETED", "FAILED"}
Record == {"NONE"} \cup IdempotencyStatus

\* The handler has put the record and is to end it.
Started == {"publish", "complete", "fail", "failAgain"}
Handled == {"start", "read"} \cup Started
\* 200 to the one who published; 200 to a duplicate, with the response or the
\* status that is on record; or an error.
Accepted == [duplicate |-> FALSE, status |-> "COMPLETED"]
Duplicate(r) == [duplicate |-> TRUE, status |-> r]
NoAnswer == [duplicate |-> FALSE, status |-> "NONE"]
InternalError == [duplicate |-> FALSE, status |-> "FAILED"]
Answer == [duplicate : BOOLEAN, status : Record]
Call == [pc : {"new", "answered"} \cup Handled, answer : Answer]

Init ==
  /\ record = "NONE"
  /\ past = {"NONE"}
  /\ published = 0
  /\ call = [c \in Calls |-> [pc |-> "new", answer |-> NoAnswer]]
  /\ faults = 0

At(c, pc) == call[c].pc = pc
Goes(c, pc) == call' = [call EXCEPT ![c].pc = pc]
Answers(c, a) == call' = [call EXCEPT ![c] = [pc |-> "answered", answer |-> a]]
Fault == faults < MaxFaults /\ faults' = faults + 1

Put(r) == record' = r /\ past' = past \cup {r}

-----------------------------------------------------------------------------
\* A tenant, a key and a body that are valid; whoever has not is turned away and
\* changes nothing.
Request(c) ==
  /\ At(c, "new")
  /\ Goes(c, "start") \/ Answers(c, InternalError)
  /\ UNCHANGED <<record, past, published, faults>>

CanStartAnyway == TRUE

\* attribute_not_exists(eventId)
CanStart == record = "NONE"

\* The catch asks for the record whatever went wrong, a lost answer and the
\* client's own repetition of the put included.
Start(c) ==
  /\ At(c, "start")
  /\ \/ /\ CanStart
        /\ Put("PROCESSING")
        /\ \/ Goes(c, "publish") /\ UNCHANGED faults
           \/ Goes(c, "read") /\ Fault
     \/ /\ Goes(c, "read")
        /\ UNCHANGED <<record, past>>
        /\ \/ ~CanStart /\ UNCHANGED faults
           \/ Fault
  /\ UNCHANGED published

\* getRecord, not consistent; outside of any try.
Read(c) ==
  /\ At(c, "read")
  /\ \/ (\E r \in past : Answers(c, Duplicate(r))) /\ UNCHANGED faults
     \/ Answers(c, InternalError) /\ Fault
  /\ UNCHANGED <<record, past, published>>

-----------------------------------------------------------------------------
Overlooked(c) == Goes(c, "complete")
Unrecorded(c) == Answers(c, InternalError)

\* FailedEntryCount > 0
Rejected(c) == Goes(c, "fail")

\* The bus takes the event, or not; its answer may be lost, and then the client
\* asks again or throws.
Publish(c) ==
  /\ At(c, "publish")
  /\ \/ /\ published' = published + 1
        /\ \/ Goes(c, "complete") /\ UNCHANGED faults
           \/ (Goes(c, "failAgain") \/ UNCHANGED call) /\ Fault
     \/ /\ UNCHANGED published
        /\ \/ Rejected(c) /\ UNCHANGED faults
           \/ Goes(c, "failAgain") /\ Fault
  /\ UNCHANGED <<record, past>>

\* The catch is around the completion, too, and around the failure that is
\* recorded for a rejected entry; not around its own.
Throws(c) == IF At(c, "failAgain") THEN Answers(c, InternalError) ELSE Goes(c, "failAgain")

\* An update of the record without a condition, which may fail or lose its
\* answer, and then throws.
Ends(c, r, a) ==
  /\ \/ Put(r) /\ Answers(c, a) /\ UNCHANGED faults
     \/ Put(r) /\ Throws(c) /\ Fault
     \/ UNCHANGED <<record, past>> /\ Throws(c) /\ Fault
  /\ UNCHANGED published

Complete(c) == At(c, "complete") /\ Ends(c, "COMPLETED", Accepted)
Fail(c) == At(c, "fail") /\ Ends(c, "FAILED", InternalError)
FailAgain(c) == At(c, "failAgain") /\ Ends(c, "FAILED", InternalError)

\* The invocation dies or times out.
Dies(c) ==
  /\ call[c].pc \in Handled
  /\ Answers(c, InternalError)
  /\ Fault
  /\ UNCHANGED <<record, past, published>>

-----------------------------------------------------------------------------
Terminating == (\A c \in Calls : At(c, "answered")) /\ UNCHANGED vars

Handle(c) ==
  \/ Request(c) \/ Start(c) \/ Read(c) \/ Publish(c)
  \/ Complete(c) \/ Fail(c) \/ FailAgain(c) \/ Dies(c)

Next == (\E c \in Calls : Handle(c)) \/ Terminating

Spec == Init /\ [][Next]_vars

-----------------------------------------------------------------------------
TypeOK ==
  /\ record \in Record
  /\ past \subseteq Record
  /\ published \in Nat
  /\ call \in [Calls -> Call]
  /\ faults \in 0 .. MaxFaults

\* README.md:79, retries do not republish: but for requests that the client of the
\* bus itself repeats, at most one request of a key publishes its event, however
\* many of them come at once and however they end (48-60).
PublishedOnce == published <= 1 + faults

\* Nobody is told that the event was published, by its own request or on account
\* of the record, unless it was (143-156).
AcceptedIsPublished ==
  \A c \in Calls : At(c, "answered") /\ call[c].answer.status = "COMPLETED" => published > 0

\* The answer given to the first stays on record for its retries: none of these,
\* and no late end of another request, writes over it (69-107).
AcceptedIsKept ==
  (\E c \in Calls : At(c, "answered") /\ call[c].answer = Accepted) => record = "COMPLETED"

\* Unless something was lost or killed, what is being processed has a request
\* that will say how it ended, and what failed was not published (128-178).
RecordsAreTrue ==
  faults = 0 =>
    /\ record = "PROCESSING" => \E c \in Calls : call[c].pc \in Started
    /\ record = "FAILED" => published = 0
=============================================================================
