------------------------------ MODULE EventPath ------------------------------
(***************************************************************************)
(* The way of ONE event from the ingest API to the incident engine: the    *)
(* bus, the events queue and its dead-letter queue (infra/template.yaml    *)
(* 231-246, 604-614), and the engine as their consumer (handler.ts 62-81). *)
(* An event that the bus has taken is in the queue at once: nothing can    *)
(* tell it from one on its way.  What the engine does with it is in        *)
(* EventClaim.tla and IncidentEngine.tla; here it returns or throws.       *)
(***************************************************************************)
EXTENDS Ingest, Sequences, FiniteSets

(* Operators that no other definition uses are the mutants of PROJECT.json. *)

CONSTANTS
  Runs,          \* the invocations of the replay script (ReplayDlq.tla)
  NoRun,
  MaxReceives    \* maxReceiveCount of the events queue

ASSUME PathAssumption ==
  /\ NoRun \notin Runs
  /\ MaxReceives \in Nat \ {0}

VARIABLES
  copy           \* the messages that carry the event, in the order of their birth

Copy ==
  [at : {"queue", "acknowledged", "dlq", "deleted"},
   receives : Nat,
   replayCount : Nat,           \* `replayed` is true if and only if it is not 0
   holder : Runs \cup {NoRun}]  \* for whom the dead letter is in flight

NewCopy(replayCount) ==
  [at |-> "queue", receives |-> 0, replayCount |-> replayCount, holder |-> NoRun]

Copies == 1 .. Len(copy)
IsAt(k, place) == copy[k].at = place
Send(replayCount) == copy' = Append(copy, NewCopy(replayCount))
Moves(k, place) ==
  copy' = [copy EXCEPT ![k] = [NewCopy(copy[k].replayCount) EXCEPT !.at = place]]

\* A step of the ingest API, with the message the bus makes of a publication.
HandleRequest(c) ==
  /\ Handle(c)
  /\ IF published' = published THEN UNCHANGED copy ELSE Send(0)

\* The bus, or the queue, delivers at least once.
Duplicated(k) ==
  /\ IsAt(k, "queue")
  /\ Send(copy[k].replayCount)
  /\ Fault
  /\ UNCHANGED <<record, past, published, call>>

Deliverable(k) == IsAt(k, "queue") /\ copy[k].receives < MaxReceives

Acknowledge(k) ==
  /\ Deliverable(k)
  /\ Moves(k, "acknowledged")
  /\ UNCHANGED vars

\* processRecord throws, and the message is among the batchItemFailures; or the
\* invocation dies.
NotAcknowledged(k) ==
  /\ Deliverable(k)
  /\ copy' = [copy EXCEPT ![k].receives = @ + 1]
  /\ UNCHANGED vars

DeadLetter(k) ==
  /\ IsAt(k, "queue") /\ ~Deliverable(k)
  /\ Moves(k, "dlq")
  /\ UNCHANGED vars

Engine(k) == Duplicated(k) \/ Acknowledge(k) \/ NotAcknowledged(k) \/ DeadLetter(k)
=============================================================================
