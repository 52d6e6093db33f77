--------------------------- MODULE OutboxPublisher ---------------------------
(***************************************************************************)
(* services/outbox-publisher/src/handler.ts and the publishing side of     *)
(* libs/dynamodb/src/outbox.ts: an invocation a minute lists the oldest    *)
(* pending items, and publishes and marks them one by one.                 *)
(*                                                                         *)
(* Items are numbered by their createdAt, the sort key of the index, and   *)
(* may be put out of that order.                                           *)
(***************************************************************************)
EXTENDS Integers, FiniteSetsExt

(* Operators that no other definition uses are the mutants of PROJECT.json. *)

CONSTANTS
  Items,         \* the outbox items
  Poison,        \* those the bus never takes
  Publishers,    \* the invocations that may overlap
  Limit,         \* how many items one invocation lists
  MaxFaults      \* bound on failed calls, lost answers, late listings, crashes

ASSUME PublisherAssumption ==
  /\ Items \subseteq Nat
  /\ IsFiniteSet(Items)
  /\ Poison \subseteq Items
  /\ IsFiniteSet(Publishers)
  /\ Limit \in Nat /\ Cardinality(Poison) < Limit
  /\ MaxFaults \in Nat

VARIABLES
  outbox,        \* the status of each item; "ABSENT" before it is put
  published,     \* how many messages the bus has made of each item
  publisher,     \* each invocation: what it has listed and not yet dealt with
  faults         \* faults so far, at most MaxFaults

publisherVars == <<outbox, published, publisher, faults>>

OutboxStatus == {"ABSENT", "PENDING", "PUBLISHED"}
Publisher == [pc : {"idle", "publish", "mark"}, todo : SUBSET Items]
Idle == [pc |-> "idle", todo |-> {}]

PublisherInit ==
  /\ outbox = [o \in Items |-> "ABSENT"]
  /\ published = [o \in Items |-> 0]
  /\ publisher = [p \in Publishers |-> Idle]
  /\ faults = 0

Fault == faults < MaxFaults /\ faults' = faults + 1

\* The engine or the API puts an item.
Put(o) ==
  /\ outbox[o] = "ABSENT"
  /\ outbox' = [outbox EXCEPT ![o] = "PENDING"]
  /\ UNCHANGED <<published, publisher, faults>>

-----------------------------------------------------------------------------
AnyStatus == {o \in Items : outbox[o] # "ABSENT"}

Pending == {o \in Items : outbox[o] = "PENDING"}

\* The first Limit of a listing.
Oldest(listed) == {o \in listed : Cardinality({q \in listed : q < o}) < Limit}

Lists(p, listed) ==
  publisher' = [publisher EXCEPT ![p] =
    IF listed = {} THEN Idle ELSE [pc |-> "publish", todo |-> Oldest(listed)]]

\* An invocation runs its seconds of a minute alone.  Two that overlap, and an
\* index that is a minute late with an item, are faults.
List(p) ==
  /\ publisher[p] = Idle /\ Pending # {}
  /\ Lists(p, Pending)
  /\ \/ (\A q \in Publishers : publisher[q] = Idle) /\ UNCHANGED faults
     \/ (\E q \in Publishers : publisher[q] # Idle) /\ Fault
  /\ UNCHANGED <<outbox, published>>

ListLate(p) ==
  /\ \A q \in Publishers : publisher[q] = Idle
  /\ \E o \in Items :
       /\ outbox[o] # "ABSENT"
       /\ Lists(p, IF o \in Pending THEN Pending \ {o} ELSE Pending \cup {o})
  /\ Fault
  /\ UNCHANGED <<outbox, published>>

\* The item the loop is at.
Item(p) == Min(publisher[p].todo)

Gives(p, todo, pc) ==
  publisher' = [publisher EXCEPT ![p] =
    IF todo = {} THEN Idle ELSE [pc |-> pc, todo |-> todo]]

StopsAtFailure(p) == Gives(p, {}, "publish")

\* Done with the item, or the catch: on to the next one.
Continues(p) == Gives(p, publisher[p].todo \ {Item(p)}, "publish")

MarksRejected(p) == Gives(p, publisher[p].todo, "mark")

\* FailedEntryCount > 0: the item stays pending.
Rejected(p) == Continues(p)

Publish(p) ==
  /\ publisher[p].pc = "publish"
  /\ LET o == Item(p) IN
     \/ /\ o \notin Poison
        /\ published' = [published EXCEPT ![o] = @ + 1]
        /\ \/ Gives(p, publisher[p].todo, "mark") /\ UNCHANGED faults
           \/ Continues(p) /\ Fault
     \/ /\ Rejected(p) \/ Continues(p)
        /\ UNCHANGED published
        /\ \/ o \in Poison /\ UNCHANGED faults
           \/ o \notin Poison /\ Fault
  /\ UNCHANGED outbox

\* ConditionExpression: status = PENDING; a refusal, a failure and a lost
\* answer are all caught and logged.
Mark(p) ==
  /\ publisher[p].pc = "mark"
  /\ Continues(p)
  /\ LET o == Item(p) IN
     \/ /\ outbox[o] = "PENDING"
        /\ outbox' = [outbox EXCEPT ![o] = "PUBLISHED"]
        /\ UNCHANGED faults
     \/ /\ outbox[o] # "PENDING"
        /\ UNCHANGED <<outbox, faults>>
     \/ UNCHANGED outbox /\ Fault
  /\ UNCHANGED published

\* The invocation dies or times out.
Dies(p) ==
  /\ publisher[p] # Idle
  /\ publisher' = [publisher EXCEPT ![p] = Idle]
  /\ Fault
  /\ UNCHANGED <<outbox, published>>

\* EventBridge and SQS deliver at least once.
Duplicate(o) ==
  /\ published[o] > 0
  /\ published' = [published EXCEPT ![o] = @ + 1]
  /\ Fault
  /\ UNCHANGED <<outbox, publisher>>

PublisherStep(p) == List(p) \/ ListLate(p) \/ Publish(p) \/ Mark(p) \/ Dies(p)
=============================================================================
