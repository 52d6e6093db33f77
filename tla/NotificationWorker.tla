-------------------------- MODULE NotificationWorker --------------------------
(***************************************************************************)
(* services/notification-worker/src/handler.ts: each message of the        *)
(* notifications queue is sent to the tenant's targets one after the other *)
(* and, when one of them fails, received again and sent from the first.    *)
(*                                                                         *)
(* The message <<o, k>> is in the queue once item o was published k times. *)
(***************************************************************************)
EXTENDS OutboxPublisher, Sequences

CONSTANTS
  TopicArns,     \* the topics
  Direct,        \* per item: the targets of its tenant and severity, in order
  Fallback,      \* those of SEVERITY#ALL
  Default,       \* DEFAULT_NOTIFICATION_TOPIC_ARN, if set
  Broken,        \* topics that refuse every publication
  MaxReceives    \* maxReceiveCount of the queue

ASSUME NotificationAssumption ==
  /\ Direct \in [Items -> Seq(TopicArns)]
  /\ Fallback \in Seq(TopicArns) /\ Default \in Seq(TopicArns)
  /\ Broken \subseteq TopicArns
  /\ MaxReceives \in Nat

VARIABLES
  notification,  \* each message and the locals of its handler
  told           \* the topics that were told of each item

notificationVars == <<notification, told>>

Messages == Items \X (1 .. MaxFaults + 1)

\* The targets of the severity, else those of all, else the default topic.
effectiveTargets(o) ==
  CASE Direct[o] # <<>> -> Direct[o]
    [] Direct[o] = <<>> /\ Fallback # <<>> -> Fallback
    [] OTHER -> Default

Topics(o) == {effectiveTargets(o)[n] : n \in DOMAIN effectiveTargets(o)}

Handled == {"send", "done"}
Notification ==
  [pc : {"queued", "deleted", "dlq"} \cup Handled, receives : Nat, next : Nat]

NotificationInit ==
  /\ notification = [m \in Messages |-> [pc |-> "queued", receives |-> 0, next |-> 0]]
  /\ told = [o \in Items |-> {}]

Notes(m, n) == notification' = [notification EXCEPT ![m] = n]

\* Sent to the targets before the n-th.
Reaches(m, n) ==
  Notes(m, [notification[m] EXCEPT !.next = n,
              !.pc = IF n > Len(effectiveTargets(m[1])) THEN "done" ELSE "send"])

\* The message is not deleted: it comes again, or has come often enough.
Returned(m) ==
  Notes(m, [notification[m] EXCEPT !.next = 0,
              !.pc = IF notification[m].receives < MaxReceives THEN "queued" ELSE "dlq"])

\* No targets: nothing is sent.
ReceiveNotification(m) ==
  /\ notification[m].pc = "queued"
  /\ m[2] <= published[m[1]]
  /\ Notes(m, [notification[m] EXCEPT !.receives = @ + 1, !.next = 1,
                 !.pc = IF effectiveTargets(m[1]) = <<>> THEN "done" ELSE "send"])
  /\ UNCHANGED <<publisherVars, told>>

SkipsTarget(m) == Reaches(m, notification[m].next + 1)

\* One failure fails the record.
TargetFails(m) == Returned(m)

Send(m) ==
  /\ notification[m].pc = "send"
  /\ LET topic == effectiveTargets(m[1])[notification[m].next] IN
     \/ /\ topic \notin Broken
        /\ told' = [told EXCEPT ![m[1]] = @ \cup {topic}]
        /\ \/ Reaches(m, notification[m].next + 1) /\ UNCHANGED faults
           \/ TargetFails(m) /\ Fault
     \/ /\ TargetFails(m)
        /\ UNCHANGED told
        /\ \/ topic \in Broken /\ UNCHANGED faults
           \/ topic \notin Broken /\ Fault
  /\ UNCHANGED <<outbox, published, publisher>>

\* The batch's invocation ends without naming the record as failed.
DeleteNotification(m) ==
  /\ notification[m].pc = "done"
  /\ Notes(m, [notification[m] EXCEPT !.pc = "deleted", !.next = 0])
  /\ UNCHANGED <<publisherVars, told>>

\* The reads of the incident and the targets fail, or the batch's invocation
\* dies, and with it the records that were already done.
NotificationDies(m) ==
  /\ notification[m].pc \in Handled
  /\ Returned(m)
  /\ Fault
  /\ UNCHANGED <<outbox, published, publisher, told>>

NotificationStep(m) ==
  ReceiveNotification(m) \/ Send(m) \/ DeleteNotification(m) \/ NotificationDies(m)
=============================================================================
