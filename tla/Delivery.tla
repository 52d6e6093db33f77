------------------------------- MODULE Delivery -------------------------------
(***************************************************************************)
(* From the outbox to the notification topics: the publisher and the       *)
(* notification worker, joined by the bus and the queue.                   *)
(***************************************************************************)
EXTENDS NotificationWorker

vars == <<publisherVars, notificationVars>>

Init == PublisherInit /\ NotificationInit

\* A message that was never made is no message.
Made(m) == m[2] <= published[m[1]]

Quiet ==
  /\ \A p \in Publishers : publisher[p] = Idle
  /\ \A o \in Items : outbox[o] = IF o \in Poison THEN "PENDING" ELSE "PUBLISHED"
  /\ \A m \in Messages : Made(m) => notification[m].pc \in {"deleted", "dlq"}

Terminating == Quiet /\ UNCHANGED vars

Publishing == \E p \in Publishers : PublisherStep(p) /\ UNCHANGED notificationVars

Next ==
  \/ \E o \in Items : (Put(o) \/ Duplicate(o)) /\ UNCHANGED notificationVars
  \/ Publishing
  \/ \E m \in Messages : NotificationStep(m)
  \/ Terminating

Spec == Init /\ [][Next]_vars

\* The schedule invokes the publisher every minute, SQS and Lambda deliver
\* what is queued; neither has to fail.
FairSpec ==
  /\ Spec
  /\ WF_vars(Publishing /\ UNCHANGED faults)
  /\ \A m \in Messages : WF_vars(NotificationStep(m) /\ UNCHANGED faults)

-----------------------------------------------------------------------------
TypeOK ==
  /\ outbox \in [Items -> OutboxStatus]
  /\ published \in [Items -> Nat]
  /\ publisher \in [Publishers -> Publisher]
  /\ notification \in [Messages -> Notification]
  /\ told \in [Items -> SUBSET TopicArns]
  /\ faults \in 0 .. MaxFaults

\* An item that is marked was published: FailedEntryCount is looked at, and a
\* failure anywhere between the two requests leaves the item pending (39-49).
NothingForgotten == \A o \in Items : outbox[o] = "PUBLISHED" => published[o] > 0

\* Publishing and marking are two requests, and yet an item is published again
\* only on account of a fault: a failed mark, a dead or overlapping
\* invocation, an index that is late, a bus that duplicates (13-45).
DuplicatesArePaidFor == \A o \in Items : published[o] <= 1 + faults

\* A notification leaves the queue only after each of its targets was told, by
\* this message or by another of the same item, however its attempts were cut
\* short (91-120); else it is a dead letter.
ToldBeforeDeleted ==
  \A m \in Messages : notification[m].pc = "deleted" => Topics(m[1]) \subseteq told[m[1]]

\* Every pending item that the bus takes ends with all its targets told, or as a
\* dead letter, whatever the items before it do (the catch of 47).
EveryoneIsTold ==
  \A o \in Items \ Poison :
    outbox[o] = "PENDING" ~>
      \/ Topics(o) \subseteq told[o]
      \/ \E m \in Messages : m[1] = o /\ notification[m].pc = "dlq"
=============================================================================
