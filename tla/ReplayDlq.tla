------------------------------ MODULE ReplayDlq ------------------------------
(***************************************************************************)
(* scripts/replay-dlq.ts, which operators run by hand, several at a time   *)
(* if they like, composed with the way of the event (EventPath.tla).       *)
(***************************************************************************)
EXTENDS EventPath

(* Operators that no other definition uses are the mutants of PROJECT.json. *)

CONSTANTS
  MaxMessages    \* --max

ASSUME ReplayAssumption == MaxMessages \in Nat

VARIABLES
  run,           \* each invocation of the script
  refused,       \* has the bus refused an entry of the script? (history)
  forced         \* has a run with --force sent anything? (history)

script == <<run, refused, forced>>
replayVars == <<vars, copy, script>>

Options == [requeueTo : {"queue", "eventbridge"}, dryRun : BOOLEAN, force : BOOLEAN]
Run ==
  [pc : {"idle", "receive", "requeue", "delete", "exited"},
   options : Options,
   processed : Nat,
   message : Nat]        \* the letter, as an index of copy; 0: none

NewRun ==
  [pc |-> "idle", processed |-> 0, message |-> 0,
   options |-> [requeueTo |-> "queue", dryRun |-> FALSE, force |-> FALSE]]

ReplayInit ==
  /\ Init
  /\ copy = <<>>
  /\ run = [r \in Runs |-> NewRun]
  /\ refused = FALSE
  /\ forced = FALSE

RunIsAt(r, pc) == run[r].pc = pc
RunGoes(r, pc) == run' = [run EXCEPT ![r].pc = pc]
Exits(r) == run' = [run EXCEPT ![r] = [NewRun EXCEPT !.pc = "exited"]]
Letter(r) == run[r].message
option(r) == run[r].options

-----------------------------------------------------------------------------
Invoke(r) ==
  /\ RunIsAt(r, "idle")
  /\ \E o \in Options : run' = [run EXCEPT ![r].pc = "receive", ![r].options = o]
  /\ UNCHANGED <<vars, copy, refused, forced>>

Waiting == {k \in Copies : IsAt(k, "dlq") /\ copy[k].holder = NoRun}

\* One letter at a time, up to --max of them or until none is waiting.
ReceiveMessage(r) ==
  /\ RunIsAt(r, "receive")
  /\ \/ /\ run[r].processed < MaxMessages
        /\ \E k \in Waiting :
             /\ copy' = [copy EXCEPT ![k].holder = r]
             /\ run' = [run EXCEPT ![r].pc = "requeue", ![r].message = k]
     \/ /\ run[r].processed = MaxMessages \/ Waiting = {}
        /\ Exits(r) /\ UNCHANGED copy
  /\ UNCHANGED <<vars, refused, forced>>

AtWorkOn(r, k) == run[r].pc \in {"requeue", "delete"} /\ Letter(r) = k

\* The letter is visible again: in time, or because its run is slow (a fault).
Reappears(k) ==
  /\ IsAt(k, "dlq") /\ copy[k].holder # NoRun
  /\ copy' = [copy EXCEPT ![k].holder = NoRun]
  /\ IF \E r \in Runs : AtWorkOn(r, k)
       THEN Fault /\ UNCHANGED <<record, past, published, call>>
       ELSE UNCHANGED vars
  /\ UNCHANGED script

shouldSkipByCount(r) == ~option(r).force /\ copy[Letter(r)].replayCount >= 3

\* What is replayed, or replayed three times, is not replayed again without --force.
shouldSkip(r) ==
  /\ ~option(r).force
  /\ copy[Letter(r)].replayCount > 0 \/ copy[Letter(r)].replayCount >= 3

bumpReplay(k) == copy[k].replayCount + 1

Passed(r) ==
  run' = [run EXCEPT ![r].pc = "receive", ![r].processed = @ + 1, ![r].message = 0]

SkipAndDelete(r) ==
  /\ RunIsAt(r, "requeue")
  /\ shouldSkip(r) \/ option(r).dryRun
  /\ RunGoes(r, "delete")
  /\ UNCHANGED <<vars, copy, refused, forced>>

\* The letter is not deleted, and is visible again in time.
Skip(r) ==
  /\ RunIsAt(r, "requeue")
  /\ shouldSkip(r) \/ option(r).dryRun
  /\ Passed(r)
  /\ UNCHANGED <<vars, copy, refused, forced>>

Requeues(r) == RunIsAt(r, "requeue") /\ ~shouldSkip(r) /\ ~option(r).dryRun

\* The request may fail, or lose its answer: then the client asks again, or the
\* script ends.
requeueMessage(r) ==
  /\ Requeues(r)
  /\ \/ /\ Send(bumpReplay(Letter(r)))
        /\ forced' = (forced \/ option(r).force)
        /\ \/ RunGoes(r, "delete") /\ UNCHANGED faults
           \/ (Exits(r) \/ UNCHANGED run) /\ Fault
     \/ Exits(r) /\ Fault /\ UNCHANGED <<copy, forced>>
  /\ UNCHANGED <<record, past, published, call, refused>>

\* Nobody looks at FailedEntryCount.
BusRefuses(r) ==
  /\ Requeues(r) /\ option(r).requeueTo = "eventbridge"
  /\ RunGoes(r, "delete")
  /\ refused' = TRUE
  /\ UNCHANGED <<vars, copy, forced>>

\* The receipt of a run that is not the last to have received the letter may
\* delete it, or not.
Deleted(r) ==
  \/ Moves(Letter(r), "deleted")
  \/ copy[Letter(r)].holder # r /\ UNCHANGED copy

DeleteMessage(r) ==
  /\ RunIsAt(r, "delete")
  /\ \/ Deleted(r) /\ Passed(r) /\ UNCHANGED faults
     \/ (Deleted(r) \/ UNCHANGED copy) /\ Exits(r) /\ Fault
  /\ UNCHANGED <<record, past, published, call, refused, forced>>

\* The run is interrupted, or the receive fails.
Interrupted(r) ==
  /\ run[r].pc \in {"receive", "requeue", "delete"}
  /\ Exits(r)
  /\ Fault
  /\ UNCHANGED <<record, past, published, call, copy, refused, forced>>

Script(r) ==
  \/ Invoke(r) \/ ReceiveMessage(r) \/ Skip(r) \/ requeueMessage(r)
  \/ BusRefuses(r) \/ DeleteMessage(r) \/ Interrupted(r)

\* What may be left is letters.
ReplayTerminating ==
  /\ \A c \in Calls : At(c, "answered")
  /\ \A r \in Runs : RunIsAt(r, "exited")
  /\ \A k \in Copies : ~IsAt(k, "queue") /\ copy[k].holder = NoRun
  /\ UNCHANGED replayVars

ReplayNext ==
  \/ \E c \in Calls : HandleRequest(c) /\ UNCHANGED script
  \/ \E k \in Copies : Engine(k) /\ UNCHANGED script
  \/ \E k \in Copies : Reappears(k)
  \/ \E r \in Runs : Script(r)
  \/ ReplayTerminating

ReplaySpec == ReplayInit /\ [][ReplayNext]_replayVars

-----------------------------------------------------------------------------
ReplayTypeOK ==
  /\ TypeOK
  /\ copy \in Seq(Copy)
  /\ run \in [Runs -> Run]
  /\ refused \in BOOLEAN /\ forced \in BOOLEAN

SomeAt(place) == \E k \in Copies : IsAt(k, place)

EventStatus ==
  IF Len(copy) = 0 THEN "absent"
  ELSE IF SomeAt("acknowledged") THEN "acknowledged"
  ELSE IF SomeAt("queue") \/ SomeAt("dlq") THEN "pending"
  ELSE "lost"

Delivery == INSTANCE EventDelivery WITH status <- EventStatus

\* An event that was published is acknowledged, waiting or a dead letter,
\* however the runs of the script race each other and wherever they stop
\* (121-129); unless one of them replayed through a bus that refused (84-95).
ImplementsDelivery == Delivery!Spec

\* README.md:246, "to avoid loops": without --force no message is marked twice,
\* so that the limit of three (48-49) is never reached; and there are no more
\* replays than messages that were none, but for what faults repeat.
ReplaysAreBounded ==
  LET Replayed == {k \in Copies : copy[k].replayCount > 0}
  IN ~forced => /\ \A k \in Replayed : copy[k].replayCount = 1
                /\ Cardinality(Replayed) <= Cardinality(Copies \ Replayed) + faults
=============================================================================
