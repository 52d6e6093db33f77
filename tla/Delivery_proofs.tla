---------------------------- MODULE Delivery_proofs ----------------------------
(***************************************************************************)
(* What the publisher and the notification worker keep, for any number of  *)
(* items, invocations, targets, receives and faults.                       *)
(***************************************************************************)
EXTENDS Delivery, FiniteSetTheorems, WellFoundedInduction, TLAPS

\* The oldest of some items is one of them.
LEMMA MinIsLeast ==
  ASSUME NEW T, T \subseteq Nat, T # {}
  PROVE  Min(T) \in T /\ \A y \in T : Min(T) <= y
<1>1. PICK x \in T : \A y \in T : <<y, x>> \notin OpToRel(<, Nat)
  BY NatLessThanWellFounded, WFMin
<1>2. ASSUME NEW y \in T PROVE x <= y
  <2>1. <<y, x>> \in Nat \X Nat /\ <<y, x>>[1] = y /\ <<y, x>>[2] = x
    OBVIOUS
  <2>2. <<y, x>> \notin {ss \in Nat \X Nat : ss[1] < ss[2]}
    BY <1>1 DEF OpToRel
  <2>3. ~(y < x)
    BY <2>1, <2>2
  <2>4. y \in Nat /\ x \in Nat
    OBVIOUS
  <2> QED  BY <2>3, <2>4
<1> QED  BY <1>2 DEF Min

-----------------------------------------------------------------------------
(* The publisher. *)

PublisherType ==
  /\ outbox \in [Items -> OutboxStatus]
  /\ published \in [Items -> Nat]
  /\ publisher \in [Publishers -> Publisher]
  /\ faults \in 0 .. MaxFaults

Holds(p, o) == o \in publisher[p].todo

\* Who is done has nothing left, and only what was put is listed.
ListedWasPut ==
  \A p \in Publishers :
    /\ publisher[p].pc = "idle" <=> publisher[p].todo = {}
    /\ \A o \in Items : Holds(p, o) => outbox[o] # "ABSENT"

\* What is marked was published.
MarkedWasPublished ==
  /\ \A p \in Publishers : publisher[p].pc = "mark" => published[Item(p)] > 0
  /\ NothingForgotten

\* Whether p will publish o if nothing fails.
Will(p, o) == Holds(p, o) /\ ~(publisher[p].pc = "mark" /\ o = Item(p))
Coming(o) == {p \in Publishers : Will(p, o)}

\* Whether an invocation yet to come will: o is not yet marked and nobody holds it.
Due(o) == IF outbox[o] # "PUBLISHED" /\ \A p \in Publishers : ~Holds(p, o) THEN 1 ELSE 0

\* What was published and what will be, all but one, is paid for.
Paid == \A o \in Items : published[o] + Cardinality(Coming(o)) + Due(o) <= 1 + faults

PInv == PublisherType /\ ListedWasPut /\ MarkedWasPublished /\ Paid

\* The item an invocation is at is one of its items.
LEMMA ItemIsHeld ==
  ASSUME PublisherType, ListedWasPut, NEW p \in Publishers, publisher[p].pc # "idle"
  PROVE  Item(p) \in publisher[p].todo /\ Item(p) \in Items
<1>1. publisher[p].todo \subseteq Items /\ publisher[p].todo # {}
  BY DEF PublisherType, Publisher, ListedWasPut
<1> QED  BY <1>1, MinIsLeast, PublisherAssumption DEF Item

\* A listing that finds something takes something.
LEMMA OldestIsSome ==
  ASSUME NEW listed, listed \subseteq Items, listed # {}
  PROVE  Oldest(listed) \subseteq listed /\ Oldest(listed) # {}
<1>1. Min(listed) \in listed /\ \A q \in listed : Min(listed) <= q
  BY MinIsLeast, PublisherAssumption
<1>2. ASSUME NEW q \in listed PROVE ~(q < Min(listed))
  <2>1. q \in Nat /\ Min(listed) \in Nat /\ Min(listed) <= q
    BY <1>1, PublisherAssumption
  <2> QED  BY <2>1
<1>3. 0 < Limit
  <2>1. IsFiniteSet(Poison)
    BY PublisherAssumption, FS_Subset
  <2>2. Cardinality(Poison) \in Nat
    BY <2>1, FS_CardinalityType
  <2> QED  BY <2>2, PublisherAssumption
<1>4. Min(listed) \in Oldest(listed)
  <2>1. {q \in listed : q < Min(listed)} = {}
    BY <1>2
  <2> QED  BY <1>1, <1>3, <2>1, FS_EmptySet DEF Oldest
<1> QED  BY <1>4 DEF Oldest

\* Two finite sets that differ in one element at most.
LEMMA OneApart ==
  ASSUME NEW S, NEW T, NEW p, IsFiniteSet(S), IsFiniteSet(T), S \ {p} = T \ {p}
  PROVE  /\ Cardinality(S) \in Nat /\ Cardinality(T) \in Nat
         /\ (p \in S <=> p \in T) => Cardinality(T) = Cardinality(S)
         /\ p \in S /\ p \notin T => Cardinality(T) = Cardinality(S) - 1
         /\ p \notin S /\ p \in T => Cardinality(T) = Cardinality(S) + 1
<1>1. Cardinality(S) \in Nat /\ Cardinality(T) \in Nat
  BY FS_CardinalityType
<1>2. Cardinality(S \ {p}) = IF p \in S THEN Cardinality(S) - 1 ELSE Cardinality(S)
  BY FS_RemoveElement
<1>3. Cardinality(T \ {p}) = IF p \in T THEN Cardinality(T) - 1 ELSE Cardinality(T)
  BY FS_RemoveElement
<1> QED  BY <1>1, <1>2, <1>3

\* What the step of an invocation, which becomes r, does to the terms of Paid.
LEMMA Terms ==
  ASSUME PublisherType, NEW p \in Publishers, NEW r,
         publisher' = [publisher EXCEPT ![p] = r], NEW o \in Items
  PROVE  /\ Cardinality(Coming(o)) \in Nat /\ Cardinality(Coming(o))' \in Nat
         /\ (Will(p, o) <=> Will(p, o)') => Cardinality(Coming(o))' = Cardinality(Coming(o))
         /\ Will(p, o) /\ ~Will(p, o)' => Cardinality(Coming(o))' = Cardinality(Coming(o)) - 1
         /\ ~Will(p, o) /\ Will(p, o)' => Cardinality(Coming(o))' = Cardinality(Coming(o)) + 1
<1>1. \A q \in Publishers : q # p => (Will(q, o) <=> Will(q, o)')
  BY DEF Will, Holds, PublisherType, Item
<1>2. /\ Coming(o) \subseteq Publishers /\ Coming(o)' \subseteq Publishers
      /\ (p \in Coming(o) <=> Will(p, o)) /\ (p \in Coming(o)' <=> Will(p, o)')
      /\ Coming(o) \ {p} = Coming(o)' \ {p}
  BY <1>1 DEF Coming
<1>3. IsFiniteSet(Coming(o)) /\ IsFiniteSet(Coming(o)')
  BY <1>2, FS_Subset, PublisherAssumption
<1> HIDE DEF Coming, Will
<1> QED  BY <1>2, <1>3, OneApart

\* Due is 0 or 1, 0 as long as somebody holds the item or once it is marked, and
\* 1 only if it was 1 or the invocation that held the item gave it back.
LEMMA DueTerm ==
  ASSUME PublisherType, NEW p \in Publishers, NEW r \in Publisher,
         publisher' = [publisher EXCEPT ![p] = r], NEW o \in Items
  PROVE  /\ Due(o) \in 0 .. 1 /\ Due(o)' \in 0 .. 1
         /\ Holds(p, o) => Due(o) = 0
         /\ o \in r.todo => Due(o)' = 0
         /\ outbox'[o] = "PUBLISHED" => Due(o)' = 0
         /\ outbox[o] # "PUBLISHED" /\ (\A q \in Publishers : ~Holds(q, o)) => Due(o) = 1
         /\ ~Holds(p, o) /\ (outbox[o] = "PUBLISHED" => outbox'[o] = "PUBLISHED") =>
              Due(o)' <= Due(o)
<1>1. /\ Holds(p, o)' <=> o \in r.todo
      /\ \A q \in Publishers : q # p => (Holds(q, o) <=> Holds(q, o)')
  BY DEF Holds, PublisherType
<1> HIDE DEF Holds
<1> QED  BY <1>1 DEF Due

\* What the types of the publisher's parts give.
LEMMA PublisherFacts ==
  ASSUME PublisherType, NEW p \in Publishers
  PROVE  /\ publisher[p] \in Publisher /\ publisher[p].todo \subseteq Items
         /\ faults \in Nat /\ faults <= MaxFaults /\ MaxFaults \in Nat
         /\ \A o \in Items : published[o] \in Nat /\ outbox[o] \in OutboxStatus
  BY PublisherAssumption DEF PublisherType, Publisher

\* Going on to a list of items.
LEMMA GivesWhat ==
  ASSUME PublisherType, NEW p \in Publishers, NEW todo \in SUBSET Items,
         NEW pc \in {"publish", "mark"}, Gives(p, todo, pc)
  PROVE  \E r \in Publisher :
           /\ publisher' = [publisher EXCEPT ![p] = r]
           /\ r.todo = todo
           /\ r.pc = IF todo = {} THEN "idle" ELSE pc
<1> DEFINE r == IF todo = {} THEN Idle ELSE [pc |-> pc, todo |-> todo]
<1>1. r \in Publisher /\ r.todo = todo /\ r.pc = IF todo = {} THEN "idle" ELSE pc
  BY DEF Publisher, Idle
<1>2. publisher' = [publisher EXCEPT ![p] = r]
  BY DEF Gives
<1> QED  BY <1>1, <1>2

\* All but Paid, for a step in which an invocation becomes r.
LEMMA StepKeeps ==
  ASSUME PInv, NEW p \in Publishers, NEW r \in Publisher,
         publisher' = [publisher EXCEPT ![p] = r],
         r.pc = "idle" <=> r.todo = {},
         outbox' \in [Items -> OutboxStatus], published' \in [Items -> Nat],
         faults' \in 0 .. MaxFaults,
         \A o \in Items : /\ outbox'[o] = "ABSENT" => outbox[o] = "ABSENT"
                          /\ o \in r.todo => outbox[o] # "ABSENT"
                          /\ published'[o] >= published[o]
                          /\ outbox'[o] = "PUBLISHED" => published'[o] > 0,
         r.pc = "mark" => published'[Min(r.todo)] > 0
  PROVE  PublisherType' /\ ListedWasPut' /\ MarkedWasPublished'
<1>1. PublisherType /\ ListedWasPut /\ MarkedWasPublished
  BY DEF PInv
<1>2. /\ publisher'[p] = r
      /\ \A q \in Publishers : q # p => publisher'[q] = publisher[q]
  BY <1>1 DEF PublisherType
<1>3. PublisherType'
  BY <1>1 DEF PublisherType
<1>4. ListedWasPut'
  BY <1>1, <1>2 DEF ListedWasPut, Holds
<1>5. ASSUME NEW q \in Publishers, publisher'[q].pc = "mark"
      PROVE  published'[Min(publisher'[q].todo)] > 0
  <2>1. CASE q = p
    BY <1>2, <1>5, <2>1
  <2>2. CASE q # p
    <3>1. Item(q) \in Items /\ published[Item(q)] > 0
      BY <1>1, <1>2, <1>5, <2>2, ItemIsHeld DEF MarkedWasPublished
    <3>2. published'[Item(q)] > 0
      BY <1>1, <3>1 DEF PublisherType
    <3> QED  BY <1>2, <2>2, <3>2 DEF Item
  <2> QED  BY <2>1, <2>2
<1>6. MarkedWasPublished'
  BY <1>5 DEF MarkedWasPublished, NothingForgotten, Item
<1> QED  BY <1>3, <1>4, <1>6

\* A listing, at its time or late or beside another, is one more publication
\* of an item only if the item was due or it is a fault.
LEMMA ListPInv ==
  ASSUME PInv, NEW p \in Publishers, List(p) \/ ListLate(p)
  PROVE  PInv'
<1>1. PublisherType /\ ListedWasPut /\ MarkedWasPublished /\ Paid
  BY DEF PInv
<1>2. PICK listed \in SUBSET Items :
        /\ Lists(p, listed)
        /\ publisher[p] = Idle
        /\ \A o \in listed : outbox[o] # "ABSENT"
        /\ \/ Fault
           \/ /\ listed = Pending /\ faults' = faults
              /\ \A q \in Publishers : publisher[q] = Idle
        /\ UNCHANGED <<outbox, published>>
  <2>1. CASE List(p)
    BY <1>1, <2>1 DEF List, Pending
  <2>2. CASE ListLate(p)
    <3>1. PICK o \in Items :
            /\ outbox[o] # "ABSENT"
            /\ Lists(p, IF o \in Pending THEN Pending \ {o} ELSE Pending \cup {o})
      BY <2>2 DEF ListLate
    <3>2. (IF o \in Pending THEN Pending \ {o} ELSE Pending \cup {o}) \in SUBSET Items
      BY DEF Pending
    <3> QED  BY <2>2, <3>1, <3>2 DEF ListLate, Pending
  <2> QED  BY <2>1, <2>2
<1>3. PICK r \in Publisher :
        /\ publisher' = [publisher EXCEPT ![p] = r]
        /\ r.todo \subseteq listed
        /\ r.pc = IF r.todo = {} THEN "idle" ELSE "publish"
  <2>1. CASE listed = {}
    <3>1. Idle \in Publisher /\ Idle.todo = {} /\ Idle.pc = "idle"
      BY DEF Publisher, Idle
    <3> QED  BY <1>2, <2>1, <3>1 DEF Lists
  <2>2. CASE listed # {}
    <3> DEFINE r == [pc |-> "publish", todo |-> Oldest(listed)]
    <3>1. r \in Publisher /\ r.todo \subseteq listed /\ r.todo # {} /\ r.pc = "publish"
      BY <2>2, OldestIsSome DEF Publisher
    <3>2. publisher' = [publisher EXCEPT ![p] = r]
      BY <1>2, <2>2 DEF Lists
    <3> QED  BY <3>1, <3>2
  <2> QED  BY <2>1, <2>2
<1>4. /\ faults \in Nat /\ MaxFaults \in Nat /\ faults' \in 0 .. MaxFaults
      /\ faults' = faults \/ faults' = faults + 1
  BY <1>1, <1>2, PublisherFacts DEF Fault
<1>5. PublisherType' /\ ListedWasPut' /\ MarkedWasPublished'
  <2>1. /\ outbox' \in [Items -> OutboxStatus] /\ published' \in [Items -> Nat]
        /\ outbox' = outbox /\ published' = published
    BY <1>1, <1>2 DEF PublisherType
  <2>2. \A o \in Items : published[o] \in Nat /\ (outbox[o] = "PUBLISHED" => published[o] > 0)
    BY <1>1 DEF PublisherType, MarkedWasPublished, NothingForgotten
  <2>3. \A o \in Items : /\ outbox'[o] = "ABSENT" => outbox[o] = "ABSENT"
                         /\ o \in r.todo => outbox[o] # "ABSENT"
                         /\ published'[o] >= published[o]
                         /\ outbox'[o] = "PUBLISHED" => published'[o] > 0
    BY <1>2, <1>3, <2>1, <2>2
  <2>4. (r.pc = "idle" <=> r.todo = {}) /\ r.pc # "mark"
    BY <1>3
  <2> QED  BY <1>3, <1>4, <2>1, <2>3, <2>4, StepKeeps
<1>6. ASSUME NEW o \in Items
      PROVE  published'[o] + Cardinality(Coming(o))' + Due(o)' <= 1 + faults'
  <2>1. ~Holds(p, o) /\ ~Will(p, o) /\ (Will(p, o)' <=> o \in r.todo)
    BY <1>1, <1>2, <1>3 DEF Will, Holds, Idle, PublisherType
  <2>2. /\ published[o] \in Nat /\ published'[o] = published[o]
        /\ published[o] + Cardinality(Coming(o)) + Due(o) <= 1 + faults
    BY <1>1, <1>2 DEF PublisherType, Paid
  <2>3. CASE o \notin r.todo
    <3>1. Cardinality(Coming(o))' = Cardinality(Coming(o)) /\ Cardinality(Coming(o)) \in Nat
      BY <1>1, <1>3, <2>1, <2>3, Terms
    <3>2. Due(o) \in 0 .. 1 /\ Due(o)' \in 0 .. 1 /\ Due(o)' <= Due(o)
      BY <1>1, <1>2, <1>3, <2>1, DueTerm
    <3> QED  BY <1>4, <2>2, <3>1, <3>2
  <2>4. CASE o \in r.todo
    <3>1. Cardinality(Coming(o))' = Cardinality(Coming(o)) + 1 /\ Cardinality(Coming(o)) \in Nat
      BY <1>1, <1>3, <2>1, <2>4, Terms
    <3>2. Due(o) \in 0 .. 1 /\ Due(o)' = 0
      BY <1>1, <1>3, <2>4, DueTerm
    <3>3. CASE Fault
      BY <1>4, <2>2, <3>1, <3>2, <3>3 DEF Fault
    <3>4. CASE /\ listed = Pending /\ faults' = faults
               /\ \A q \in Publishers : publisher[q] = Idle
      <4>1. outbox[o] # "PUBLISHED" /\ \A q \in Publishers : ~Holds(q, o)
        BY <1>3, <2>4, <3>4 DEF Pending, Holds, Idle
      <4>2. Due(o) = 1
        BY <1>1, <1>3, <4>1, DueTerm
      <4> QED  BY <1>4, <2>2, <3>1, <3>2, <3>4, <4>2
    <3> QED  BY <1>2, <3>3, <3>4
  <2> QED  BY <2>3, <2>4
<1> QED  BY <1>5, <1>6 DEF PInv, Paid

\* An item is published: what was coming has come.
LEMMA PublishPInv ==
  ASSUME PInv, NEW p \in Publishers, Publish(p)
  PROVE  PInv'
<1> DEFINE x == Item(p)
<1>1. PublisherType /\ ListedWasPut /\ MarkedWasPublished /\ Paid
  BY DEF PInv
<1>2. publisher[p].pc = "publish" /\ outbox' = outbox
  BY DEF Publish
<1>3. x \in publisher[p].todo /\ x \in Items /\ publisher[p].todo \subseteq Items
  BY <1>1, <1>2, ItemIsHeld, PublisherFacts
<1>4. faults \in Nat /\ MaxFaults \in Nat /\ faults <= MaxFaults
  BY <1>1, PublisherFacts
<1>5. \A o \in Items : published[o] \in Nat
  BY <1>1, PublisherFacts
\* What became of the item: <<more, left, fault>>.
<1>6. PICK more \in {0, 1}, r \in Publisher :
        /\ publisher' = [publisher EXCEPT ![p] = r]
        /\ published' = [published EXCEPT ![x] = @ + more]
        /\ \/ /\ more = 1 /\ faults' = faults
              /\ r.todo = publisher[p].todo /\ r.pc = "mark"
           \/ /\ r.todo = publisher[p].todo \ {x}
              /\ r.pc = IF r.todo = {} THEN "idle" ELSE "publish"
              /\ \/ faults' = faults + 1 /\ faults < MaxFaults
                 \/ more = 0 /\ faults' = faults
  <2>1. CASE /\ published' = [published EXCEPT ![x] = @ + 1]
             /\ Gives(p, publisher[p].todo, "mark") /\ UNCHANGED faults
    <3>1. PICK r \in Publisher :
            /\ publisher' = [publisher EXCEPT ![p] = r]
            /\ r.todo = publisher[p].todo /\ r.pc = "mark"
      BY <1>1, <1>3, <2>1, GivesWhat
    <3> QED  BY <2>1, <3>1
  <2>2. ASSUME Continues(p)
        PROVE  \E r \in Publisher :
                 /\ publisher' = [publisher EXCEPT ![p] = r]
                 /\ r.todo = publisher[p].todo \ {x}
                 /\ r.pc = IF r.todo = {} THEN "idle" ELSE "publish"
    BY <1>1, <1>3, <2>2, GivesWhat DEF Continues
  <2>3. CASE /\ published' = [published EXCEPT ![x] = @ + 1]
             /\ Continues(p) /\ Fault
    BY <2>2, <2>3 DEF Fault
  <2>4. CASE Continues(p) /\ UNCHANGED published /\ (Fault \/ UNCHANGED faults)
    <3>1. published' = [published EXCEPT ![x] = @ + 0]
      BY <1>1, <1>3, <1>5, <2>4 DEF PublisherType
    <3> QED  BY <2>2, <2>4, <3>1 DEF Fault
  <2> QED  BY <2>1, <2>3, <2>4 DEF Publish, Rejected
<1> HIDE DEF x
<1>7. /\ published' \in [Items -> Nat] /\ faults' \in 0 .. MaxFaults
      /\ published'[x] = published[x] + more
      /\ \A o \in Items : o # x => published'[o] = published[o]
  BY <1>1, <1>3, <1>4, <1>5, <1>6 DEF PublisherType
<1>8. r.pc = "mark" => Min(r.todo) = x /\ more = 1
  BY <1>6 DEF x, Item
<1>9. PublisherType' /\ ListedWasPut' /\ MarkedWasPublished'
  <2>1. \A o \in Items : published'[o] >= published[o]
    BY <1>5, <1>6, <1>7
  <2>2. \A o \in Items : /\ outbox'[o] = "ABSENT" => outbox[o] = "ABSENT"
                         /\ o \in r.todo => outbox[o] # "ABSENT"
    BY <1>1, <1>2, <1>6 DEF ListedWasPut, Holds
  <2>3. \A o \in Items : outbox'[o] = "PUBLISHED" => published'[o] > 0
    BY <1>1, <1>2, <1>5, <1>7, <2>1 DEF MarkedWasPublished, NothingForgotten
  <2>4. r.pc = "mark" => published'[Min(r.todo)] > 0
    BY <1>3, <1>5, <1>7, <1>8
  <2>5. outbox' \in [Items -> OutboxStatus] /\ (r.pc = "idle" <=> r.todo = {})
    BY <1>1, <1>2, <1>3, <1>6 DEF PublisherType
  <2> QED  BY <1>6, <1>7, <2>1, <2>2, <2>3, <2>4, <2>5, StepKeeps
<1>10. ASSUME NEW o \in Items
       PROVE  published'[o] + Cardinality(Coming(o))' + Due(o)' <= 1 + faults'
  <2>1. /\ Holds(p, o) <=> o \in publisher[p].todo
        /\ Will(p, o) <=> Holds(p, o)
        /\ Will(p, o)' <=> o \in r.todo /\ ~(r.pc = "mark" /\ o = x)
    BY <1>1, <1>2, <1>6, <1>8 DEF Will, Holds, PublisherType, Item
  <2>2. /\ published[o] \in Nat /\ Due(o) \in 0 .. 1 /\ Due(o)' \in 0 .. 1
        /\ Cardinality(Coming(o)) \in Nat /\ Cardinality(Coming(o))' \in Nat
        /\ published[o] + Cardinality(Coming(o)) + Due(o) <= 1 + faults
    BY <1>1, <1>5, <1>6, Terms, DueTerm DEF Paid
  <2>3. CASE o = x
    <3>1. Will(p, o) /\ ~Will(p, o)' /\ Holds(p, o)
      BY <1>3, <1>6, <2>1, <2>3
    <3>2. Cardinality(Coming(o))' = Cardinality(Coming(o)) - 1 /\ Due(o) = 0
      BY <1>1, <1>6, <3>1, Terms, DueTerm
    <3>3. CASE r.pc = "mark"
      <4>1. Due(o)' = 0
        BY <1>1, <1>3, <1>6, <2>3, <3>3, DueTerm
      <4> QED  BY <1>4, <1>6, <1>7, <2>2, <2>3, <3>2, <3>3, <4>1
    <3>4. CASE r.pc # "mark"
      BY <1>4, <1>6, <1>7, <2>2, <2>3, <3>2, <3>4
    <3> QED  BY <3>3, <3>4
  <2>4. CASE o # x
    <3>1. Will(p, o) <=> Will(p, o)'
      <4>1. o \in r.todo <=> o \in publisher[p].todo
        BY <1>6, <2>4
      <4> QED  BY <2>1, <2>4, <4>1
    <3>2. Cardinality(Coming(o))' = Cardinality(Coming(o))
      BY <1>1, <1>6, <3>1, Terms
    <3>3. Due(o)' <= Due(o)
      <4>1. CASE o \in r.todo
        <5>1. Due(o)' = 0
          BY <1>1, <1>6, <4>1, DueTerm
        <5> QED  BY <2>2, <5>1
      <4>2. CASE o \notin r.todo
        BY <1>1, <1>2, <1>6, <2>1, <2>4, <4>2, DueTerm
      <4> QED  BY <4>1, <4>2
    <3> QED  BY <1>4, <1>6, <1>7, <2>2, <2>4, <3>2, <3>3
  <2> QED  BY <2>3, <2>4
<1> QED  BY <1>9, <1>10 DEF PInv, Paid

\* An item is marked: it is not due again; a mark that fails is a fault.
LEMMA MarkPInv ==
  ASSUME PInv, NEW p \in Publishers, Mark(p)
  PROVE  PInv'
<1> DEFINE x == Item(p)
<1>1. PublisherType /\ ListedWasPut /\ MarkedWasPublished /\ Paid
  BY DEF PInv
<1>2. publisher[p].pc = "mark" /\ published' = published
  BY DEF Mark
<1>3. x \in publisher[p].todo /\ x \in Items /\ publisher[p].todo \subseteq Items
  BY <1>1, <1>2, ItemIsHeld, PublisherFacts
<1>4. faults \in Nat /\ MaxFaults \in Nat /\ faults <= MaxFaults
  BY <1>1, PublisherFacts
<1>5. \A o \in Items : published[o] \in Nat /\ outbox[o] \in OutboxStatus
  BY <1>1, PublisherFacts
<1>6. PICK r \in Publisher :
        /\ publisher' = [publisher EXCEPT ![p] = r]
        /\ r.todo = publisher[p].todo \ {x}
        /\ r.pc = IF r.todo = {} THEN "idle" ELSE "publish"
  <2>1. Gives(p, publisher[p].todo \ {x}, "publish")
    BY DEF Mark, Continues
  <2> QED  BY <1>1, <1>3, <2>1, GivesWhat
<1>7. outbox[x] # "ABSENT" /\ published[x] > 0
  BY <1>1, <1>2, <1>3 DEF ListedWasPut, MarkedWasPublished, Holds
<1>8. /\ outbox' \in [Items -> OutboxStatus]
      /\ \A o \in Items : o # x => outbox'[o] = outbox[o]
      /\ \/ outbox'[x] = "PUBLISHED" /\ faults' = faults
         \/ outbox'[x] = outbox[x] /\ faults' = faults + 1 /\ faults < MaxFaults
  <2>1. CASE /\ outbox' = [outbox EXCEPT ![x] = "PUBLISHED"]
             /\ UNCHANGED faults
    BY <1>1, <1>3, <2>1 DEF PublisherType, OutboxStatus
  <2>2. CASE outbox[x] # "PENDING" /\ UNCHANGED <<outbox, faults>>
    BY <1>1, <1>3, <1>5, <1>7, <2>2 DEF PublisherType, OutboxStatus
  <2>3. CASE UNCHANGED outbox /\ Fault
    BY <1>1, <2>3 DEF PublisherType, Fault
  <2> QED  BY <2>1, <2>2, <2>3 DEF Mark
<1> HIDE DEF x
<1>9. PublisherType' /\ ListedWasPut' /\ MarkedWasPublished'
  <2>1. published' \in [Items -> Nat] /\ faults' \in 0 .. MaxFaults
    BY <1>1, <1>2, <1>4, <1>8 DEF PublisherType
  <2>2. \A o \in Items : /\ outbox'[o] = "ABSENT" => outbox[o] = "ABSENT"
                         /\ o \in r.todo => outbox[o] # "ABSENT"
                         /\ published'[o] >= published[o]
    BY <1>1, <1>2, <1>5, <1>6, <1>8 DEF ListedWasPut, Holds
  <2>3. \A o \in Items : outbox'[o] = "PUBLISHED" => published'[o] > 0
    BY <1>1, <1>2, <1>7, <1>8 DEF MarkedWasPublished, NothingForgotten
  <2>4. (r.pc = "idle" <=> r.todo = {}) /\ r.pc # "mark"
    BY <1>6
  <2> QED  BY <1>6, <1>8, <2>1, <2>2, <2>3, <2>4, StepKeeps
<1>10. ASSUME NEW o \in Items
       PROVE  published'[o] + Cardinality(Coming(o))' + Due(o)' <= 1 + faults'
  <2>1. /\ Holds(p, o) <=> o \in publisher[p].todo
        /\ Will(p, o) <=> o \in publisher[p].todo /\ o # x
        /\ Will(p, o)' <=> o \in r.todo
    BY <1>1, <1>2, <1>6 DEF Will, Holds, PublisherType, x
  <2>2. o \in r.todo <=> o \in publisher[p].todo /\ o # x
    BY <1>6
  <2>3. Cardinality(Coming(o))' = Cardinality(Coming(o))
    BY <1>1, <1>6, <2>1, <2>2, Terms
  <2>4. /\ published[o] \in Nat /\ Due(o) \in 0 .. 1 /\ Due(o)' \in 0 .. 1
        /\ Cardinality(Coming(o)) \in Nat
        /\ published[o] + Cardinality(Coming(o)) + Due(o) <= 1 + faults
    BY <1>1, <1>5, <1>6, Terms, DueTerm DEF Paid
  <2>5. CASE o = x
    <3>1. Due(o) = 0
      BY <1>1, <1>3, <1>6, <2>1, <2>5, DueTerm
    <3>2. Due(o)' = 0 \/ faults' = faults + 1
      BY <1>1, <1>6, <1>8, <2>5, DueTerm
    <3> QED  BY <1>2, <1>4, <1>8, <2>3, <2>4, <3>1, <3>2
  <2>6. CASE o # x
    <3>1. Due(o)' <= Due(o)
      <4>1. CASE o \in r.todo
        <5>1. Due(o)' = 0
          BY <1>1, <1>6, <4>1, DueTerm
        <5> QED  BY <2>4, <5>1
      <4>2. CASE o \notin r.todo
        BY <1>1, <1>6, <1>8, <2>1, <2>2, <2>6, <4>2, DueTerm
      <4> QED  BY <4>1, <4>2
    <3> QED  BY <1>2, <1>4, <1>8, <2>3, <2>4, <3>1
  <2> QED  BY <2>5, <2>6
<1> QED  BY <1>9, <1>10 DEF PInv, Paid

\* An invocation that dies gives back what it held: one fault for all of it.
LEMMA DiesPInv ==
  ASSUME PInv, NEW p \in Publishers, Dies(p)
  PROVE  PInv'
<1>1. PublisherType /\ ListedWasPut /\ MarkedWasPublished /\ Paid
  BY DEF PInv
<1>2. /\ publisher' = [publisher EXCEPT ![p] = Idle]
      /\ outbox' = outbox /\ published' = published
      /\ faults' = faults + 1 /\ faults < MaxFaults
  BY DEF Dies, Fault
<1>3. Idle \in Publisher /\ Idle.todo = {} /\ Idle.pc = "idle"
  BY DEF Publisher, Idle
<1>4. faults \in Nat /\ MaxFaults \in Nat /\ faults' \in 0 .. MaxFaults
  BY <1>1, <1>2, PublisherFacts
<1>5. PublisherType' /\ ListedWasPut' /\ MarkedWasPublished'
  <2>1. outbox' \in [Items -> OutboxStatus] /\ published' \in [Items -> Nat]
    BY <1>1, <1>2 DEF PublisherType
  <2>2. \A o \in Items : /\ outbox'[o] = "ABSENT" => outbox[o] = "ABSENT"
                         /\ o \in Idle.todo => outbox[o] # "ABSENT"
                         /\ published'[o] >= published[o]
                         /\ outbox'[o] = "PUBLISHED" => published'[o] > 0
    BY <1>1, <1>2, <1>3, <1>4 DEF PublisherType, MarkedWasPublished, NothingForgotten
  <2> QED  BY <1>2, <1>3, <1>4, <2>1, <2>2, StepKeeps
<1>6. ASSUME NEW o \in Items
      PROVE  published'[o] + Cardinality(Coming(o))' + Due(o)' <= 1 + faults'
  <2>1. ~Will(p, o)' /\ (Will(p, o) => Holds(p, o))
    BY <1>1, <1>2, <1>3 DEF Will, Holds, PublisherType
  <2>2. /\ published[o] \in Nat /\ Due(o) \in 0 .. 1 /\ Due(o)' \in 0 .. 1
        /\ Cardinality(Coming(o)) \in Nat
        /\ published[o] + Cardinality(Coming(o)) + Due(o) <= 1 + faults
    BY <1>1, <1>2, <1>3, Terms, DueTerm, PublisherFacts DEF Paid
  <2>3. \/ Cardinality(Coming(o))' = Cardinality(Coming(o))
        \/ Cardinality(Coming(o))' = Cardinality(Coming(o)) - 1
    BY <1>1, <1>2, <2>1, Terms
  <2> QED  BY <1>2, <1>4, <2>2, <2>3
<1> QED  BY <1>5, <1>6 DEF PInv, Paid

\* A put item is due, and one message more is one fault more.
LEMMA BusPInv ==
  ASSUME PInv, NEW x \in Items, Put(x) \/ Duplicate(x)
  PROVE  PInv'
<1>1. PublisherType /\ ListedWasPut /\ MarkedWasPublished /\ Paid
  BY DEF PInv
<1>2. faults \in Nat /\ MaxFaults \in Nat /\ faults <= MaxFaults
  BY <1>1, PublisherAssumption DEF PublisherType
<1>3. publisher' = publisher
  BY DEF Put, Duplicate
<1>4. \A o \in Items :
        /\ published[o] \in Nat /\ published'[o] \in Nat /\ published'[o] >= published[o]
        /\ outbox'[o] = "ABSENT" => outbox[o] = "ABSENT"
        /\ outbox'[o] = "PUBLISHED" <=> outbox[o] = "PUBLISHED"
  BY <1>1 DEF PublisherType, Put, Duplicate
<1>5. PublisherType'
  <2>1. CASE Put(x)
    BY <1>1, <2>1 DEF Put, PublisherType, OutboxStatus
  <2>2. CASE Duplicate(x)
    BY <1>1, <1>2, <2>2 DEF Duplicate, PublisherType, Fault
  <2> QED  BY <2>1, <2>2
<1>6. ListedWasPut'
  BY <1>1, <1>3, <1>4 DEF ListedWasPut, Holds
<1>7. MarkedWasPublished'
  <2>1. ASSUME NEW q \in Publishers, publisher[q].pc = "mark"
        PROVE  published'[Item(q)] > 0
    <3>1. Item(q) \in Items /\ published[Item(q)] > 0
      BY <1>1, <2>1, ItemIsHeld DEF MarkedWasPublished
    <3> QED  BY <1>4, <3>1
  <2>2. NothingForgotten'
    BY <1>1, <1>4 DEF MarkedWasPublished, NothingForgotten
  <2> QED  BY <1>3, <2>1, <2>2 DEF MarkedWasPublished, Item
<1>8. ASSUME NEW o \in Items
      PROVE  published'[o] + Cardinality(Coming(o))' + Due(o)' <= 1 + faults'
  <2>1. Coming(o)' = Coming(o)
    BY <1>3 DEF Coming, Will, Holds, Item
  <2>2. Due(o)' = Due(o) /\ Due(o) \in 0 .. 1
    BY <1>3, <1>4 DEF Due, Holds
  <2>3. Cardinality(Coming(o)) \in Nat
    <3>1. IsFiniteSet(Coming(o))
      BY PublisherAssumption, FS_Subset DEF Coming
    <3> QED  BY <3>1, FS_CardinalityType
  <2>4. \/ published'[o] = published[o] /\ faults' = faults
        \/ published'[o] <= published[o] + 1 /\ faults' = faults + 1
    BY <1>1, <1>4 DEF Put, Duplicate, Fault, PublisherType
  <2>5. published[o] + Cardinality(Coming(o)) + Due(o) <= 1 + faults
    BY <1>1 DEF Paid
  <2> QED  BY <1>2, <1>4, <2>1, <2>2, <2>3, <2>4, <2>5
<1> QED  BY <1>5, <1>6, <1>7, <1>8 DEF PInv, Paid

\* The worker leaves the outbox alone; its faults are faults.
LEMMA OtherPInv ==
  ASSUME PInv, UNCHANGED <<outbox, published, publisher>>,
         faults' = faults \/ Fault
  PROVE  PInv'
<1>1. PublisherType /\ ListedWasPut /\ MarkedWasPublished /\ Paid
  BY DEF PInv
<1>2. faults \in Nat /\ MaxFaults \in Nat /\ faults <= MaxFaults
  BY <1>1, PublisherAssumption DEF PublisherType
<1>3. faults' \in 0 .. MaxFaults /\ faults' \in Nat /\ faults' >= faults
  BY <1>2 DEF Fault
<1>4. PublisherType' /\ ListedWasPut' /\ MarkedWasPublished'
  BY <1>1, <1>3 DEF PublisherType, ListedWasPut, MarkedWasPublished, NothingForgotten, Holds, Item
<1>5. ASSUME NEW o \in Items
      PROVE  published'[o] + Cardinality(Coming(o))' + Due(o)' <= 1 + faults'
  <2>1. Coming(o)' = Coming(o)
    BY DEF Coming, Will, Holds, Item
  <2>2. Due(o)' = Due(o) /\ Due(o) \in 0 .. 1
    BY DEF Due, Holds
  <2>3. Cardinality(Coming(o)) \in Nat
    <3>1. IsFiniteSet(Coming(o))
      BY PublisherAssumption, FS_Subset DEF Coming
    <3> QED  BY <3>1, FS_CardinalityType
  <2>4. published[o] \in Nat /\ published[o] + Cardinality(Coming(o)) + Due(o) <= 1 + faults
    BY <1>1 DEF Paid, PublisherType
  <2> QED  BY <1>2, <1>3, <2>1, <2>2, <2>3, <2>4
<1> QED  BY <1>4, <1>5 DEF PInv, Paid

-----------------------------------------------------------------------------
(* The notification worker. *)

NotificationType ==
  /\ notification \in [Messages -> Notification]
  /\ told \in [Items -> SUBSET TopicArns]

\* The targets of the message before the n-th were told.
ToldBefore(m, n, t) ==
  \A k \in DOMAIN effectiveTargets(m[1]) : k < n => effectiveTargets(m[1])[k] \in t[m[1]]

\* While it is sent every target before the next one was told; then every target.
SentInOrder ==
  \A m \in Messages :
    /\ notification[m].pc = "send" =>
         /\ notification[m].next \in DOMAIN effectiveTargets(m[1])
         /\ ToldBefore(m, notification[m].next, told)
    /\ notification[m].pc \in {"done", "deleted"} => Topics(m[1]) \subseteq told[m[1]]

NInv == NotificationType /\ SentInOrder

LEMMA TargetsType ==
  ASSUME NEW o \in Items
  PROVE  effectiveTargets(o) \in Seq(TopicArns)
  BY NotificationAssumption DEF effectiveTargets

\* A handler that goes on to the n-th target, everything before it told.
LEMMA ReachesWhat ==
  ASSUME NotificationType, NEW m \in Messages, NEW n \in Nat, n > 0, Reaches(m, n),
         ToldBefore(m, n, told')
  PROVE  \E r \in Notification :
           /\ notification' = [notification EXCEPT ![m] = r]
           /\ r.pc = "send" => r.next \in DOMAIN effectiveTargets(m[1]) /\ ToldBefore(m, r.next, told')
           /\ r.pc \in {"done", "deleted"} => Topics(m[1]) \subseteq told'[m[1]]
<1> DEFINE targets == effectiveTargets(m[1])
           pc == IF n > Len(targets) THEN "done" ELSE "send"
           r == [notification[m] EXCEPT !.next = n, !.pc = pc]
<1>1. m[1] \in Items /\ notification[m] \in Notification
  BY DEF Messages, NotificationType
<1>2. Len(targets) \in Nat /\ DOMAIN targets = 1 .. Len(targets)
  BY <1>1, TargetsType
<1>3. r \in Notification /\ r.pc = pc /\ r.next = n
  BY <1>1 DEF Notification, Handled
<1>4. notification' = [notification EXCEPT ![m] = r]
  BY DEF Reaches, Notes
<1>5. ASSUME pc = "send" PROVE n \in DOMAIN targets
  BY <1>2, <1>5
<1>6. ASSUME pc # "send" PROVE Topics(m[1]) \subseteq told'[m[1]]
  <2>1. \A k \in DOMAIN targets : k < n
    <3>1. n > Len(targets)
      BY <1>6
    <3> HIDE DEF targets
    <3> QED  BY <1>2, <3>1
  <2>2. \A k \in DOMAIN targets : targets[k] \in told'[m[1]]
    BY <2>1 DEF ToldBefore
  <2> QED  BY <2>2 DEF Topics
<1> HIDE DEF r, pc
<1> QED  BY <1>3, <1>4, <1>5, <1>6

\* A handler that gives the message back.
LEMMA ReturnedWhat ==
  ASSUME NotificationType, NEW m \in Messages, Returned(m)
  PROVE  \E r \in Notification :
           /\ notification' = [notification EXCEPT ![m] = r]
           /\ r.pc \in {"queued", "dlq"}
<1> DEFINE r == [notification[m] EXCEPT !.next = 0,
                   !.pc = IF notification[m].receives < MaxReceives THEN "queued" ELSE "dlq"]
<1>1. notification[m] \in Notification
  BY DEF NotificationType
<1>2. r \in Notification /\ r.pc \in {"queued", "dlq"}
  BY <1>1 DEF Notification, Handled
<1>3. notification' = [notification EXCEPT ![m] = r]
  BY DEF Returned, Notes
<1> QED  BY <1>2, <1>3

\* A step of one handler, which tells topics and takes none back, keeps what
\* the others know.
LEMMA HandlerKeeps ==
  ASSUME NInv, NEW m \in Messages, NEW r \in Notification,
         notification' = [notification EXCEPT ![m] = r],
         told' \in [Items -> SUBSET TopicArns],
         \A o \in Items : told[o] \subseteq told'[o],
         r.pc = "send" => r.next \in DOMAIN effectiveTargets(m[1]) /\ ToldBefore(m, r.next, told'),
         r.pc \in {"done", "deleted"} => Topics(m[1]) \subseteq told'[m[1]]
  PROVE  NInv'
<1>1. NotificationType /\ SentInOrder
  BY DEF NInv
<1>2. NotificationType'
  BY <1>1 DEF NotificationType
<1>3. ASSUME NEW l \in Messages
      PROVE  /\ notification'[l].pc = "send" =>
                  /\ notification'[l].next \in DOMAIN effectiveTargets(l[1])
                  /\ ToldBefore(l, notification'[l].next, told')
             /\ notification'[l].pc \in {"done", "deleted"} => Topics(l[1]) \subseteq told'[l[1]]
  <2>1. l[1] \in Items
    BY DEF Messages
  <2>2. CASE l = m
    <3>1. notification'[l] = r
      BY <1>1, <2>2 DEF NotificationType
    <3> QED  BY <2>2, <3>1
  <2>3. CASE l # m
    <3>1. notification'[l] = notification[l]
      BY <1>1, <2>3 DEF NotificationType
    <3>2. \A k \in Nat : ToldBefore(l, k, told) => ToldBefore(l, k, told')
      BY <2>1 DEF ToldBefore
    <3>3. notification[l].next \in Nat
      BY <1>1 DEF NotificationType, Notification
    <3> HIDE DEF ToldBefore
    <3>4. notification[l].pc = "send" =>
            /\ notification[l].next \in DOMAIN effectiveTargets(l[1])
            /\ ToldBefore(l, notification[l].next, told)
      BY <1>1 DEF SentInOrder
    <3>5. notification[l].pc \in {"done", "deleted"} => Topics(l[1]) \subseteq told[l[1]]
      BY <1>1 DEF SentInOrder
    <3>6. told[l[1]] \subseteq told'[l[1]]
      BY <2>1
    <3>7. notification[l].pc = "send" => ToldBefore(l, notification[l].next, told')
      BY <3>2, <3>3, <3>4
    <3> QED  BY <3>1, <3>4, <3>5, <3>6, <3>7
  <2> QED  BY <2>2, <2>3
<1>4. SentInOrder'
  BY <1>3 DEF SentInOrder
<1> QED  BY <1>2, <1>4 DEF NInv

\* No step of a handler takes back what was told, or breaks the order.
LEMMA HandlerNInv ==
  ASSUME NInv, NEW m \in Messages, NotificationStep(m)
  PROVE  NInv'
<1>1. NotificationType /\ SentInOrder
  BY DEF NInv
<1>2. m[1] \in Items /\ notification[m] \in Notification
  BY <1>1 DEF Messages, NotificationType
<1> DEFINE targets == effectiveTargets(m[1])
<1>3. targets \in Seq(TopicArns) /\ Len(targets) \in Nat /\ DOMAIN targets = 1 .. Len(targets)
  BY <1>2, TargetsType
<1>4. CASE ReceiveNotification(m)
  <2> DEFINE pc == IF targets = <<>> THEN "done" ELSE "send"
             r == [notification[m] EXCEPT !.receives = @ + 1, !.next = 1, !.pc = pc]
  <2>1. r \in Notification /\ r.pc = pc /\ r.next = 1
    <3>1. pc \in {"send", "done"}
      OBVIOUS
    <3> HIDE DEF pc, targets
    <3>2. notification[m].receives + 1 \in Nat
      BY <1>2 DEF Notification
    <3> QED  BY <1>2, <3>1, <3>2 DEF Notification, Handled
  <2>2. notification' = [notification EXCEPT ![m] = r] /\ told' = told
    BY <1>4 DEF ReceiveNotification, Notes
  <2>3. ASSUME pc = "send"
        PROVE  1 \in DOMAIN targets /\ ToldBefore(m, 1, told')
    BY <1>3, <2>3 DEF ToldBefore
  <2>4. ASSUME pc # "send" PROVE Topics(m[1]) = {}
    BY <1>3, <2>4 DEF Topics
  <2>5. told' \in [Items -> SUBSET TopicArns] /\ \A o \in Items : told[o] \subseteq told'[o]
    BY <1>1, <2>2 DEF NotificationType
  <2> HIDE DEF r, pc
  <2>6. r.pc = "send" => r.next \in DOMAIN effectiveTargets(m[1]) /\ ToldBefore(m, r.next, told')
    BY <2>1, <2>3
  <2>7. r.pc \in {"done", "deleted"} => Topics(m[1]) \subseteq told'[m[1]]
    BY <2>1, <2>4
  <2> QED  BY <2>1, <2>2, <2>5, <2>6, <2>7, HandlerKeeps
<1>5. CASE Send(m)
  <2> DEFINE n == notification[m].next
             topic == targets[n]
  <2>1. n \in DOMAIN targets /\ ToldBefore(m, n, told) /\ topic \in TopicArns /\ n \in Nat
    BY <1>1, <1>3, <1>5 DEF Send, SentInOrder
  <2>2. CASE told' = [told EXCEPT ![m[1]] = @ \cup {topic}] /\ Reaches(m, n + 1)
    <3>1. told' \in [Items -> SUBSET TopicArns] /\ \A o \in Items : told[o] \subseteq told'[o]
      BY <1>1, <2>1, <2>2 DEF NotificationType
    <3>2. told'[m[1]] = told[m[1]] \cup {topic}
      BY <1>1, <1>2, <2>2 DEF NotificationType
    <3>3. ToldBefore(m, n + 1, told')
      <4>1. ASSUME NEW k \in DOMAIN targets, k < n + 1 PROVE targets[k] \in told'[m[1]]
        <5>1. k \in Nat /\ (k < n \/ k = n)
          BY <1>3, <2>1, <4>1
        <5> QED  BY <2>1, <3>2, <5>1 DEF ToldBefore
      <4> QED  BY <4>1 DEF ToldBefore
    <3>4. n + 1 \in Nat /\ n + 1 > 0
      BY <2>1
    <3>5. PICK r \in Notification :
            /\ notification' = [notification EXCEPT ![m] = r]
            /\ r.pc = "send" =>
                 r.next \in DOMAIN effectiveTargets(m[1]) /\ ToldBefore(m, r.next, told')
            /\ r.pc \in {"done", "deleted"} => Topics(m[1]) \subseteq told'[m[1]]
      <4> HIDE DEF n
      <4> QED  BY <1>1, <2>2, <3>3, <3>4, ReachesWhat
    <3> QED  BY <3>1, <3>5, HandlerKeeps
  <2>3. CASE /\ Returned(m)
             /\ told' = [told EXCEPT ![m[1]] = @ \cup {topic}] \/ told' = told
    <3>1. told' \in [Items -> SUBSET TopicArns] /\ \A o \in Items : told[o] \subseteq told'[o]
      BY <1>1, <2>1, <2>3 DEF NotificationType
    <3>2. PICK r \in Notification :
            notification' = [notification EXCEPT ![m] = r] /\ r.pc \in {"queued", "dlq"}
      BY <1>1, <2>3, ReturnedWhat
    <3> QED  BY <3>1, <3>2, HandlerKeeps
  <2> QED  BY <1>5, <2>2, <2>3 DEF Send, TargetFails
<1>6. CASE DeleteNotification(m)
  <2> DEFINE r == [notification[m] EXCEPT !.pc = "deleted", !.next = 0]
  <2>1. r \in Notification /\ r.pc = "deleted"
    BY <1>2 DEF Notification, Handled
  <2>2. notification' = [notification EXCEPT ![m] = r] /\ told' = told
    BY <1>6 DEF DeleteNotification, Notes
  <2>3. Topics(m[1]) \subseteq told'[m[1]]
    BY <1>1, <1>6, <2>2 DEF DeleteNotification, SentInOrder
  <2>4. told' \in [Items -> SUBSET TopicArns] /\ \A o \in Items : told[o] \subseteq told'[o]
    BY <1>1, <2>2 DEF NotificationType
  <2> HIDE DEF r
  <2> QED  BY <2>1, <2>2, <2>3, <2>4, HandlerKeeps
<1>7. CASE NotificationDies(m)
  <2>1. PICK r \in Notification :
          notification' = [notification EXCEPT ![m] = r] /\ r.pc \in {"queued", "dlq"}
    BY <1>1, <1>7, ReturnedWhat DEF NotificationDies
  <2>2. told' \in [Items -> SUBSET TopicArns] /\ \A o \in Items : told[o] \subseteq told'[o]
    BY <1>1, <1>7 DEF NotificationType, NotificationDies
  <2> QED  BY <2>1, <2>2, HandlerKeeps
<1> QED  BY <1>4, <1>5, <1>6, <1>7 DEF NotificationStep

-----------------------------------------------------------------------------
(* The two together. *)

IInv == PInv /\ NInv

LEMMA InitIInv ==
  ASSUME Init
  PROVE  IInv
<1>1. /\ outbox = [o \in Items |-> "ABSENT"] /\ published = [o \in Items |-> 0]
      /\ publisher = [p \in Publishers |-> Idle] /\ faults = 0
  BY DEF Init, PublisherInit
<1>2. Idle \in Publisher /\ Idle.pc = "idle" /\ Idle.todo = {}
  BY DEF Idle, Publisher
<1>3. PublisherType /\ ListedWasPut /\ MarkedWasPublished
  <2>1. PublisherType
    BY <1>1, <1>2, PublisherAssumption DEF PublisherType, OutboxStatus
  <2>2. \A p \in Publishers : publisher[p].pc = "idle" /\ publisher[p].todo = {}
    BY <1>1, <1>2
  <2> QED  BY <1>1, <2>1, <2>2 DEF ListedWasPut, Holds, MarkedWasPublished, NothingForgotten
<1>4. ASSUME NEW o \in Items
      PROVE  published[o] + Cardinality(Coming(o)) + Due(o) <= 1 + faults
  <2>1. Coming(o) = {}
    BY <1>1, <1>2 DEF Coming, Will, Holds
  <2>2. Due(o) \in 0 .. 1
    BY DEF Due
  <2> QED  BY <1>1, <2>1, <2>2, FS_EmptySet
<1>5. NInv
  BY DEF Init, NotificationInit, NInv, NotificationType, SentInOrder, Notification, Handled
<1> QED  BY <1>3, <1>4, <1>5 DEF IInv, PInv, Paid

LEMMA NextIInv ==
  ASSUME IInv, [Next]_vars
  PROVE  IInv'
<1>1. PInv /\ NInv
  BY DEF IInv
<1>2. UNCHANGED notificationVars => NInv'
  BY <1>1 DEF notificationVars, NInv, NotificationType, SentInOrder, ToldBefore
<1>3. CASE \E o \in Items : (Put(o) \/ Duplicate(o)) /\ UNCHANGED notificationVars
  BY <1>1, <1>2, <1>3, BusPInv DEF IInv
<1>4. CASE Publishing
  <2>1. PICK p \in Publishers : PublisherStep(p) /\ UNCHANGED notificationVars
    BY <1>4 DEF Publishing
  <2>2. PInv'
    BY <1>1, <2>1, ListPInv, PublishPInv, MarkPInv, DiesPInv DEF PublisherStep
  <2> QED  BY <1>2, <2>1, <2>2 DEF IInv
<1>5. CASE \E m \in Messages : NotificationStep(m)
  <2>1. PICK m \in Messages : NotificationStep(m)
    BY <1>5
  <2>2. UNCHANGED <<outbox, published, publisher>> /\ (faults' = faults \/ Fault)
    BY <2>1 DEF NotificationStep, ReceiveNotification, Send, DeleteNotification,
                NotificationDies, publisherVars
  <2> QED  BY <1>1, <2>1, <2>2, OtherPInv, HandlerNInv DEF IInv
<1>6. CASE UNCHANGED vars
  <2>1. /\ UNCHANGED <<outbox, published, publisher>> /\ faults' = faults
        /\ UNCHANGED notificationVars
    BY <1>6 DEF vars, publisherVars
  <2> QED  BY <1>1, <1>2, <2>1, OtherPInv DEF IInv
<1> QED  BY <1>3, <1>4, <1>5, <1>6 DEF Next, Terminating

LEMMA Invariant == Spec => []IInv
<1>1. Init => IInv
  BY InitIInv
<1>2. IInv /\ [Next]_vars => IInv'
  BY NextIInv
<1> QED  BY <1>1, <1>2, PTL DEF Spec

\* Type correctness, for any number of items, invocations, targets and faults.
THEOREM TypeCorrect == Spec => []TypeOK
<1>1. IInv => TypeOK
  BY DEF IInv, PInv, PublisherType, NInv, NotificationType, TypeOK
<1> QED  BY <1>1, Invariant, PTL

\* A marked outbox item was published, whatever fails between the two requests.
THEOREM NothingForgottenHolds == Spec => []NothingForgotten
<1>1. IInv => NothingForgotten
  BY DEF IInv, PInv, MarkedWasPublished
<1> QED  BY <1>1, Invariant, PTL

\* However many invocations overlap, an item is published at most once more than
\* there were faults.
THEOREM DuplicatesArePaidForHolds == Spec => []DuplicatesArePaidFor
<1>1. ASSUME IInv, NEW o \in Items PROVE published[o] <= 1 + faults
  <2>1. PublisherType /\ published[o] + Cardinality(Coming(o)) + Due(o) <= 1 + faults
    BY <1>1 DEF IInv, PInv, Paid
  <2>2. Due(o) \in 0 .. 1
    BY DEF Due
  <2>3. Cardinality(Coming(o)) \in Nat
    <3>1. IsFiniteSet(Coming(o))
      BY PublisherAssumption, FS_Subset DEF Coming
    <3> QED  BY <3>1, FS_CardinalityType
  <2>4. published[o] \in Nat /\ faults \in Nat
    BY <2>1, PublisherAssumption DEF PublisherType
  <2> QED  BY <2>1, <2>2, <2>3, <2>4
<1>2. IInv => DuplicatesArePaidFor
  BY <1>1 DEF DuplicatesArePaidFor
<1> QED  BY <1>2, Invariant, PTL

\* A notification leaves the queue, other than as a dead letter, only when each of
\* its targets was told, for any lists of targets.
THEOREM ToldBeforeDeletedHolds == Spec => []ToldBeforeDeleted
<1>1. IInv => ToldBeforeDeleted
  BY DEF IInv, NInv, SentInOrder, ToldBeforeDeleted
<1> QED  BY <1>1, Invariant, PTL
=============================================================================
