--------------------------- MODULE ReplayDlq_proofs ---------------------------
(***************************************************************************)
(* What the idempotency record guarantees for any number of requests and   *)
(* faults; and, below, what the way of an event does with any number of    *)
(* runs of the replay script and deliveries, too.                          *)
(***************************************************************************)
EXTENDS ReplayDlq, FiniteSetTheorems, SequenceTheorems, TLAPS

Ending(c) == call[c].pc \in Started
Told(c, r) == At(c, "answered") /\ call[c].answer.status = r

\* One request at most is to end the record, and none if there is no record.
OneStarter ==
  /\ \A c, d \in Calls : Ending(c) /\ Ending(d) => c = d
  /\ record = "NONE" => \A c \in Calls : ~Ending(c)

\* A publication to come is not paid for yet.
Paid ==
  /\ published <= 1 + faults
  /\ record = "NONE" => published = 0
  /\ \A c \in Calls : At(c, "publish") => published <= faults

\* COMPLETED, wherever it is written or told, says that the event was published.
CompletedIsPublished ==
  /\ \A c \in Calls : At(c, "complete") \/ Told(c, "COMPLETED") => published > 0
  /\ "COMPLETED" \in past => published > 0

\* With the answer the record is settled.
AcceptedSettles ==
  \A c \in Calls : At(c, "answered") /\ call[c].answer = Accepted =>
    record = "COMPLETED" /\ \A d \in Calls : ~Ending(d)

\* Without faults a failure is recorded only by the one whose entry was rejected.
FailuresAreTrue ==
  faults = 0 =>
    /\ \A c \in Calls : At(c, "fail") => published = 0
    /\ \A c \in Calls : ~At(c, "failAgain")
    /\ record = "PROCESSING" => \E c \in Calls : Ending(c)
    /\ record = "FAILED" => published = 0 /\ \A c \in Calls : ~Ending(c)

IInv ==
  TypeOK /\ OneStarter /\ Paid /\ CompletedIsPublished /\ AcceptedSettles /\ FailuresAreTrue

-----------------------------------------------------------------------------
LEMMA GoesTo ==
  ASSUME TypeOK, NEW c \in Calls, NEW pc \in Handled, Goes(c, pc)
  PROVE  /\ call' \in [Calls -> Call]
         /\ call'[c].pc = pc
         /\ \A d \in Calls : d # c => call'[d] = call[d]
<1>1. call[c] \in Call /\ [call[c] EXCEPT !.pc = pc] \in Call
  BY DEF TypeOK, Call
<1>2. call' = [call EXCEPT ![c] = [call[c] EXCEPT !.pc = pc]]
  BY DEF Goes
<1> QED  BY <1>1, <1>2 DEF TypeOK, Call

LEMMA AnswersWith ==
  ASSUME TypeOK, NEW c \in Calls, NEW a \in Answer, Answers(c, a)
  PROVE  /\ call' \in [Calls -> Call]
         /\ call'[c].pc = "answered" /\ call'[c].answer = a
         /\ \A d \in Calls : d # c => call'[d] = call[d]
  BY DEF TypeOK, Call, Answers

LEMMA AnswerTypes ==
  /\ Accepted \in Answer /\ InternalError \in Answer
  /\ \A r \in Record : Duplicate(r) \in Answer
  /\ Accepted.status = "COMPLETED" /\ ~Accepted.duplicate
  /\ InternalError.status = "FAILED"
  /\ \A r \in Record : Duplicate(r).status = r /\ Duplicate(r).duplicate
  BY DEF Accepted, InternalError, Duplicate, Answer, Record, IdempotencyStatus

LEMMA FaultsType ==
  ASSUME TypeOK
  PROVE  /\ faults \in Nat /\ published \in Nat
         /\ Fault => faults' \in 0 .. MaxFaults /\ faults' = faults + 1 /\ faults' # 0
  BY IngestAssumption DEF TypeOK, Fault

\* A request that neither starts nor ends anything: it is turned away, told
\* what is on record, or gives up before the record is its own.
LEMMA Bystander ==
  ASSUME IInv, NEW c \in Calls, ~Ending(c), ~At(c, "answered"),
         UNCHANGED <<record, past, published>>,
         UNCHANGED faults \/ Fault,
         call' \in [Calls -> Call],
         \A d \in Calls : d # c => call'[d] = call[d],
         call'[c].pc \in {"start", "read", "answered"},
         call'[c].pc = "answered" =>
           /\ call'[c].answer # Accepted
           /\ call'[c].answer.status = "COMPLETED" => published > 0
  PROVE  IInv'
<1>1. TypeOK /\ OneStarter /\ Paid /\ CompletedIsPublished /\ AcceptedSettles /\ FailuresAreTrue
  BY DEF IInv
<1>2. TypeOK'
  BY <1>1, FaultsType DEF TypeOK
<1>3. ~Ending(c)' /\ \A d \in Calls : Ending(d)' <=> Ending(d)
  BY DEF Ending, Started
<1>4. OneStarter'
  BY <1>1, <1>3 DEF OneStarter
<1>5. Paid'
  BY <1>1, FaultsType DEF Paid, At
<1>6. CompletedIsPublished'
  BY <1>1 DEF CompletedIsPublished, At, Told
<1>7. AcceptedSettles'
  BY <1>1, <1>3 DEF AcceptedSettles, At
<1>8. FailuresAreTrue'
  BY <1>1, <1>3, FaultsType DEF FailuresAreTrue, At
<1> QED  BY <1>2, <1>4, <1>5, <1>6, <1>7, <1>8 DEF IInv

LEMMA RequestIInv ==
  ASSUME IInv, NEW c \in Calls, Request(c)
  PROVE  IInv'
<1>1. TypeOK
  BY DEF IInv
<1>2. ~Ending(c) /\ ~At(c, "answered") /\ UNCHANGED <<record, past, published, faults>>
  BY DEF Request, At, Ending, Started
<1>3. CASE Goes(c, "start")
  BY <1>1, <1>2, <1>3, GoesTo, Bystander DEF Handled
<1>4. CASE Answers(c, InternalError)
  BY <1>1, <1>2, <1>4, AnswersWith, AnswerTypes, Bystander
<1> QED  BY <1>3, <1>4 DEF Request

LEMMA ReadIInv ==
  ASSUME IInv, NEW c \in Calls, Read(c)
  PROVE  IInv'
<1>1. TypeOK /\ CompletedIsPublished
  BY DEF IInv
<1>2. ~Ending(c) /\ ~At(c, "answered") /\ UNCHANGED <<record, past, published>>
  BY DEF Read, At, Ending, Started
<1>3. CASE (\E r \in past : Answers(c, Duplicate(r))) /\ UNCHANGED faults
  <2>1. PICK r \in past : Answers(c, Duplicate(r))
    BY <1>3
  <2>2. r \in Record /\ (r = "COMPLETED" => published > 0)
    BY <1>1 DEF TypeOK, CompletedIsPublished
  <2>3. Duplicate(r) \in Answer /\ Duplicate(r).status = r /\ Duplicate(r) # Accepted
    BY <2>2, AnswerTypes
  <2> QED  BY <1>1, <1>2, <1>3, <2>1, <2>2, <2>3, AnswersWith, Bystander
<1>4. CASE Answers(c, InternalError) /\ Fault
  BY <1>1, <1>2, <1>4, AnswersWith, AnswerTypes, Bystander
<1> QED  BY <1>3, <1>4 DEF Read

LEMMA StartIInv ==
  ASSUME IInv, NEW c \in Calls, Start(c)
  PROVE  IInv'
<1>1. TypeOK /\ OneStarter /\ Paid /\ CompletedIsPublished /\ AcceptedSettles /\ FailuresAreTrue
  BY DEF IInv
<1>2. At(c, "start") /\ ~Ending(c) /\ ~At(c, "answered") /\ published' = published
  BY DEF Start, At, Ending, Started
<1>3. CASE Goes(c, "read") /\ UNCHANGED <<record, past>> /\ (UNCHANGED faults \/ Fault)
  BY <1>1, <1>2, <1>3, GoesTo, Bystander DEF Handled
<1>4. CASE /\ record = "NONE" /\ record' = "PROCESSING" /\ past' = past \cup {"PROCESSING"}
           /\ \/ Goes(c, "publish") /\ UNCHANGED faults
              \/ Goes(c, "read") /\ Fault
  <2>1. /\ call' \in [Calls -> Call]
        /\ \A d \in Calls : d # c => call'[d] = call[d]
        /\ \/ call'[c].pc = "publish" /\ faults' = faults
           \/ call'[c].pc = "read" /\ Fault
    BY <1>1, <1>4, GoesTo DEF Handled, Started
  <2>2. published = 0 /\ \A d \in Calls : ~Ending(d)
    BY <1>1, <1>4 DEF Paid, OneStarter
  <2>3. TypeOK'
    BY <1>1, <1>2, <1>4, <2>1, FaultsType DEF TypeOK, Record, IdempotencyStatus
  <2>4. /\ \A d \in Calls : d # c => ~Ending(d)'
        /\ Ending(c)' <=> call'[c].pc = "publish"
    BY <2>1, <2>2 DEF Ending, Started
  <2>5. OneStarter'
    BY <1>4, <2>4 DEF OneStarter
  <2>6. Paid'
    BY <1>1, <1>2, <1>4, <2>1, <2>2, FaultsType DEF Paid, At
  <2>7. CompletedIsPublished'
    BY <1>1, <1>2, <1>4, <2>1 DEF CompletedIsPublished, At, Told
  <2>8. AcceptedSettles'
    BY <1>1, <1>4, <2>1 DEF AcceptedSettles, At
  <2>9. FailuresAreTrue'
    BY <1>1, <1>2, <1>4, <2>1, <2>2, <2>4, FaultsType DEF FailuresAreTrue, At
  <2> QED  BY <2>3, <2>5, <2>6, <2>7, <2>8, <2>9 DEF IInv
<1> QED  BY <1>3, <1>4 DEF Start, CanStart, Put

\* A step of the one that is to end the record, which stays so.
LEMMA PublishIInv ==
  ASSUME IInv, NEW c \in Calls, Publish(c)
  PROVE  IInv'
<1>1. TypeOK /\ OneStarter /\ Paid /\ CompletedIsPublished /\ AcceptedSettles /\ FailuresAreTrue
  BY DEF IInv
<1>2. At(c, "publish") /\ Ending(c) /\ UNCHANGED <<record, past>>
  BY DEF Publish, At, Ending, Started
<1>3. /\ call' \in [Calls -> Call]
      /\ \A d \in Calls : d # c => call'[d] = call[d]
      /\ \/ call'[c].pc = "complete" /\ published' = published + 1 /\ faults' = faults
         \/ call'[c].pc \in {"publish", "failAgain"} /\ published' = published + 1 /\ Fault
         \/ call'[c].pc = "fail" /\ published' = published /\ faults' = faults
         \/ call'[c].pc = "failAgain" /\ published' = published /\ Fault
  <2>1. CASE Goes(c, "complete") /\ published' = published + 1 /\ UNCHANGED faults
    BY <1>1, <2>1, GoesTo DEF Handled, Started
  <2>2. CASE Goes(c, "failAgain") /\ published' \in {published, published + 1} /\ Fault
    BY <1>1, <2>2, GoesTo DEF Handled, Started
  <2>3. CASE UNCHANGED call /\ published' = published + 1 /\ Fault
    BY <1>1, <1>2, <2>3 DEF At, TypeOK
  <2>4. CASE Goes(c, "fail") /\ UNCHANGED published /\ UNCHANGED faults
    BY <1>1, <2>4, GoesTo DEF Handled, Started
  <2> QED  BY <2>1, <2>2, <2>3, <2>4 DEF Publish, Rejected
<1>4. published \in Nat /\ faults \in Nat /\ published <= faults
  BY <1>1, <1>2, FaultsType DEF Paid
<1>5. \A d \in Calls : d # c => ~Ending(d) /\ ~Ending(d)' /\ ~At(d, "publish")
  BY <1>1, <1>2, <1>3 DEF OneStarter, Ending, At, Started
<1>6. Ending(c)' /\ record # "NONE"
  BY <1>1, <1>2, <1>3 DEF OneStarter, Ending, Started
<1>7. TypeOK'
  BY <1>1, <1>2, <1>3, <1>4, FaultsType DEF TypeOK
<1>8. OneStarter'
  BY <1>2, <1>5, <1>6 DEF OneStarter
<1>9. Paid'
  BY <1>1, <1>2, <1>3, <1>4, <1>5, <1>6, FaultsType DEF Paid, At
<1>10. published' >= published /\ (call'[c].pc = "complete" => published' > 0)
  BY <1>3, <1>4
<1>11. CompletedIsPublished'
  BY <1>1, <1>2, <1>3, <1>4, <1>10 DEF CompletedIsPublished, At, Told
<1>12. AcceptedSettles'
  BY <1>1, <1>2, <1>3 DEF AcceptedSettles, At
<1>13. FailuresAreTrue'
  BY <1>1, <1>2, <1>3, <1>4, <1>5, <1>6, FaultsType DEF FailuresAreTrue, At, Ending, Started
<1> QED  BY <1>7, <1>8, <1>9, <1>11, <1>12, <1>13 DEF IInv

\* The record is ended, or is not and the request fails once more.
LEMMA EndsIInv ==
  ASSUME IInv, NEW c \in Calls, Complete(c) \/ Fail(c) \/ FailAgain(c)
  PROVE  IInv'
<1>1. TypeOK /\ OneStarter /\ Paid /\ CompletedIsPublished /\ AcceptedSettles /\ FailuresAreTrue
  BY DEF IInv
<1>2. Ending(c) /\ ~At(c, "publish") /\ published' = published
  BY DEF Complete, Fail, FailAgain, Ends, Ending, At, Started
<1>3. PICK r \in {"COMPLETED", "FAILED"}, a \in {Accepted, InternalError} :
        /\ r = "COMPLETED" <=> At(c, "complete")
        /\ a = Accepted <=> r = "COMPLETED"
        /\ Ends(c, r, a)
  BY AnswerTypes DEF Complete, Fail, FailAgain, At
<1>4. /\ call' \in [Calls -> Call]
      /\ \A d \in Calls : d # c => call'[d] = call[d]
  <2>1. CASE Answers(c, a)
    BY <1>1, <2>1, AnswersWith, AnswerTypes
  <2>2. CASE Throws(c) /\ Fault
    <3>1. CASE At(c, "failAgain")
      BY <1>1, <2>2, <3>1, AnswersWith, AnswerTypes DEF Throws
    <3>2. CASE ~At(c, "failAgain")
      BY <1>1, <2>2, <3>2, GoesTo DEF Throws, Handled, Started
    <3> QED  BY <3>1, <3>2
  <2> QED  BY <1>3, <2>1, <2>2 DEF Ends
<1>5. /\ \/ record' = r /\ past' = past \cup {r}
         \/ record' = record /\ past' = past /\ Fault
      /\ \/ record' = r /\ call'[c].pc = "answered" /\ call'[c].answer = a /\ faults' = faults
         \/ /\ Fault
            /\ \/ call'[c].pc = "failAgain"
               \/ call'[c].pc = "answered" /\ call'[c].answer = InternalError
  <2>1. CASE Put(r) /\ Answers(c, a) /\ UNCHANGED faults
    BY <1>1, <2>1, AnswersWith, AnswerTypes DEF Put
  <2>2. CASE Throws(c) /\ Fault /\ (Put(r) \/ UNCHANGED <<record, past>>)
    <3>1. \/ call'[c].pc = "failAgain"
          \/ call'[c].pc = "answered" /\ call'[c].answer = InternalError
      <4>1. CASE At(c, "failAgain")
        BY <1>1, <2>2, <4>1, AnswersWith, AnswerTypes DEF Throws
      <4>2. CASE ~At(c, "failAgain")
        BY <1>1, <2>2, <4>2, GoesTo DEF Throws, Handled, Started
      <4> QED  BY <4>1, <4>2
    <3>2. \/ record' = r /\ past' = past \cup {r}
          \/ record' = record /\ past' = past
      BY <2>2 DEF Put
    <3> QED  BY <2>2, <3>1, <3>2
  <2> QED  BY <1>3, <2>1, <2>2 DEF Ends
<1>6. published \in Nat /\ faults \in Nat /\ (r = "COMPLETED" => published > 0)
  BY <1>1, <1>3, FaultsType DEF CompletedIsPublished
<1>7. \A d \in Calls : d # c => ~Ending(d) /\ ~Ending(d)'
  BY <1>1, <1>2, <1>4 DEF OneStarter, Ending
<1>8. record # "NONE" /\ record' # "NONE"
  BY <1>1, <1>2, <1>5 DEF OneStarter
<1>9. TypeOK'
  BY <1>1, <1>2, <1>4, <1>5, FaultsType DEF TypeOK, Record, IdempotencyStatus
<1>10. OneStarter'
  BY <1>7, <1>8 DEF OneStarter
<1>11. Paid'
  BY <1>1, <1>2, <1>4, <1>5, <1>6, <1>8, FaultsType DEF Paid, At
<1>12. CompletedIsPublished'
  <2>1. Told(c, "COMPLETED")' => r = "COMPLETED"
    BY <1>3, <1>5, AnswerTypes DEF Told, At
  <2>2. ~At(c, "complete")'
    BY <1>5 DEF At
  <2>3. "COMPLETED" \in past' => "COMPLETED" \in past \/ r = "COMPLETED"
    BY <1>5
  <2>4. \A d \in Calls : d # c =>
          (At(d, "complete")' \/ Told(d, "COMPLETED")' => At(d, "complete") \/ Told(d, "COMPLETED"))
    BY <1>4 DEF At, Told
  <2> QED  BY <1>1, <1>2, <1>6, <2>1, <2>2, <2>3, <2>4 DEF CompletedIsPublished
<1>13. AcceptedSettles'
  <2>1. \A d \in Calls : ~(At(d, "answered") /\ call[d].answer = Accepted)
    BY <1>1, <1>2 DEF AcceptedSettles
  <2>2. ASSUME NEW d \in Calls, call'[d].pc = "answered", call'[d].answer = Accepted
        PROVE  record' = "COMPLETED" /\ \A e \in Calls : ~Ending(e)'
    <3>1. d = c
      BY <1>4, <2>1, <2>2 DEF At
    <3>2. Accepted # InternalError
      BY AnswerTypes
    <3>3. record' = "COMPLETED"
      BY <1>3, <1>5, <2>2, <3>1, <3>2
    <3>4. ~Ending(c)'
      BY <2>2, <3>1 DEF Ending, Started
    <3> QED  BY <1>7, <3>3, <3>4
  <2> QED  BY <2>2 DEF AcceptedSettles, At
<1>14. FailuresAreTrue'
  <2>1. CASE Fault
    BY <1>1, <2>1, FaultsType DEF FailuresAreTrue
  <2>2. CASE /\ record' = r /\ call'[c].pc = "answered" /\ call'[c].answer = a
             /\ faults' = faults
    <3>1. \A d \in Calls : ~Ending(d)'
      BY <1>7, <2>2 DEF Ending, Started
    <3>2. \A d \in Calls : ~At(d, "fail")' /\ ~At(d, "failAgain")'
      BY <3>1 DEF Ending, At, Started
    <3>3. faults = 0 /\ r = "FAILED" => published = 0
      BY <1>1, <1>2, <1>3 DEF FailuresAreTrue, At, Ending, Started
    <3> QED  BY <1>2, <1>3, <2>2, <3>1, <3>2, <3>3 DEF FailuresAreTrue
  <2> QED  BY <1>5, <2>1, <2>2
<1> QED  BY <1>9, <1>10, <1>11, <1>12, <1>13, <1>14 DEF IInv

LEMMA DiesIInv ==
  ASSUME IInv, NEW c \in Calls, Dies(c)
  PROVE  IInv'
<1>1. TypeOK /\ OneStarter /\ Paid /\ CompletedIsPublished /\ AcceptedSettles /\ FailuresAreTrue
  BY DEF IInv
<1>2. UNCHANGED <<record, past, published>> /\ Fault
  BY DEF Dies
<1>3. /\ call' \in [Calls -> Call]
      /\ call'[c].pc = "answered" /\ call'[c].answer # Accepted
      /\ call'[c].answer.status = "FAILED"
      /\ \A d \in Calls : d # c => call'[d] = call[d]
  BY <1>1, AnswersWith, AnswerTypes DEF Dies
<1>4. \A d \in Calls : Ending(d)' => Ending(d)
  BY <1>3 DEF Ending, Started
<1>5. TypeOK'
  BY <1>1, <1>2, <1>3, FaultsType DEF TypeOK
<1>6. OneStarter'
  BY <1>1, <1>2, <1>4 DEF OneStarter
<1>7. Paid'
  BY <1>1, <1>2, <1>3, FaultsType DEF Paid, At
<1>8. CompletedIsPublished'
  BY <1>1, <1>2, <1>3 DEF CompletedIsPublished, At, Told
<1>9. AcceptedSettles'
  BY <1>1, <1>2, <1>3, <1>4 DEF AcceptedSettles, At
<1>10. FailuresAreTrue'
  BY <1>1, <1>2, FaultsType DEF FailuresAreTrue
<1> QED  BY <1>5, <1>6, <1>7, <1>8, <1>9, <1>10 DEF IInv

-----------------------------------------------------------------------------
LEMMA InitIInv == Init => IInv
<1> SUFFICES ASSUME Init PROVE IInv
  OBVIOUS
<1>1. TypeOK
  BY IngestAssumption DEF Init, TypeOK, Call, Answer, NoAnswer, Record
<1>2. \A c \in Calls : call[c].pc = "new"
  BY DEF Init
<1> QED  BY <1>1, <1>2 DEF Init, IInv, OneStarter, Paid, CompletedIsPublished, AcceptedSettles,
             FailuresAreTrue, Ending, Told, At, Started

LEMMA NextIInv == IInv /\ [Next]_vars => IInv'
<1> SUFFICES ASSUME IInv, [Next]_vars PROVE IInv'
  OBVIOUS
<1>1. CASE \E c \in Calls : Handle(c)
  BY <1>1, RequestIInv, StartIInv, ReadIInv, PublishIInv, EndsIInv, DiesIInv DEF Handle
<1>2. CASE UNCHANGED vars
  BY <1>2 DEF vars, IInv, TypeOK, OneStarter, Paid, CompletedIsPublished, AcceptedSettles,
              FailuresAreTrue, Ending, Told, At
<1> QED  BY <1>1, <1>2 DEF Next, Terminating

LEMMA Invariant == Spec => []IInv
  BY InitIInv, NextIInv, PTL DEF Spec

\* Type correctness, for any number of requests and faults.
THEOREM TypeCorrect == Spec => []TypeOK
<1>1. IInv => TypeOK
  BY DEF IInv
<1> QED  BY <1>1, Invariant, PTL

\* However many requests of a key there are, they publish once, but for faults.
THEOREM PublishedOnceHolds == Spec => []PublishedOnce
<1>1. IInv => PublishedOnce
  BY DEF IInv, Paid, PublishedOnce
<1> QED  BY <1>1, Invariant, PTL

\* Whoever is told that the event was published is told the truth, lagging reads
\* and all faults included.
THEOREM AcceptedIsPublishedHolds == Spec => []AcceptedIsPublished
<1>1. IInv => AcceptedIsPublished
  BY DEF IInv, CompletedIsPublished, AcceptedIsPublished, Told
<1> QED  BY <1>1, Invariant, PTL

\* What was answered stays on record.
THEOREM AcceptedIsKeptHolds == Spec => []AcceptedIsKept
<1>1. IInv => AcceptedIsKept
  BY DEF IInv, AcceptedSettles, AcceptedIsKept
<1> QED  BY <1>1, Invariant, PTL

\* Without faults the record tells how its request stands.
THEOREM RecordsAreTrueHolds == Spec => []RecordsAreTrue
<1>1. IInv => RecordsAreTrue
  BY DEF IInv, FailuresAreTrue, RecordsAreTrue, Ending
<1> QED  BY <1>1, Invariant, PTL

-----------------------------------------------------------------------------
(* The way of the event, and the script. *)

\* What the runs and the messages are.
PathTypeOK ==
  /\ copy \in Seq(Copy)
  /\ run \in [Runs -> Run]
  /\ refused \in BOOLEAN /\ forced \in BOOLEAN

\* What a run is at work on is a dead letter, or was one.
LettersAreDead ==
  \A r \in Runs : run[r].pc \in {"requeue", "delete"} =>
    Letter(r) \in Copies /\ copy[Letter(r)].at \in {"dlq", "deleted"}

\* Unless the bus refuses, the youngest message is never deleted: a run deletes a
\* letter only when it has sent one that is younger.
YoungestIsKept ==
  ~refused =>
    /\ Len(copy) > 0 => ~IsAt(Len(copy), "deleted")
    /\ \A r \in Runs : RunIsAt(r, "delete") => Letter(r) # Len(copy)

MarkedOnce == ~forced => \A k \in Copies : copy[k].replayCount <= 1

PathInv == PathTypeOK /\ LettersAreDead /\ YoungestIsKept /\ MarkedOnce

-----------------------------------------------------------------------------
\* The messages after a step: one changes, or one more is there.
Replaced(k, e) == copy' = [copy EXCEPT ![k] = e]

LEMMA ReplacedFacts ==
  ASSUME copy \in Seq(Copy), NEW k \in Copies, NEW e \in Copy, Replaced(k, e)
  PROVE  /\ copy' \in Seq(Copy)
         /\ Len(copy') = Len(copy)
         /\ copy'[k] = e
         /\ \A j \in Copies : j # k => copy'[j] = copy[j]
  BY ExceptSeq DEF Replaced, Copies

LEMMA SentFacts ==
  ASSUME copy \in Seq(Copy), NEW n \in Nat, Send(n)
  PROVE  /\ copy' \in Seq(Copy)
         /\ Len(copy') = Len(copy) + 1
         /\ copy'[Len(copy) + 1] = NewCopy(n)
         /\ \A j \in Copies : copy'[j] = copy[j]
<1>1. NewCopy(n) \in Copy
  BY DEF NewCopy, Copy
<1> QED  BY <1>1, AppendProperties DEF Send, Copies

LEMMA CopyFacts ==
  ASSUME copy \in Seq(Copy), NEW k \in Copies
  PROVE  /\ copy[k] \in Copy
         /\ Len(copy) \in Nat
         /\ \A place \in {"queue", "acknowledged", "dlq", "deleted"} :
              Moves(k, place) =>
                \E e \in Copy : /\ Replaced(k, e)
                                /\ e.at = place
                                /\ e.replayCount = copy[k].replayCount
<1>1. copy[k] \in Copy /\ Len(copy) \in Nat
  BY ElementOfSeq, LenProperties DEF Copies
<1>2. ASSUME NEW place \in {"queue", "acknowledged", "dlq", "deleted"}, Moves(k, place)
      PROVE  \E e \in Copy : /\ Replaced(k, e)
                             /\ e.at = place
                             /\ e.replayCount = copy[k].replayCount
  <2> DEFINE e == [NewCopy(copy[k].replayCount) EXCEPT !.at = place]
  <2>1. e \in Copy /\ e.at = place /\ e.replayCount = copy[k].replayCount
    BY <1>1 DEF NewCopy, Copy
  <2>2. Replaced(k, e)
    BY <1>2 DEF Moves, Replaced
  <2> HIDE DEF e
  <2> QED  BY <2>1, <2>2
<1> QED  BY <1>1, <1>2
-----------------------------------------------------------------------------
\* A message more, for which nobody's run is changed.
LEMMA SendInv ==
  ASSUME PathInv, NEW n \in Nat, Send(n), UNCHANGED script,
         ~forced => n <= 1
  PROVE  PathInv'
<1>1. PathTypeOK /\ LettersAreDead /\ YoungestIsKept /\ MarkedOnce /\ UNCHANGED <<run, refused, forced>>
  BY DEF PathInv, script
<1>2. Len(copy) \in Nat
  BY <1>1, LenProperties DEF PathTypeOK
<1>3. /\ copy' \in Seq(Copy)
      /\ Len(copy') = Len(copy) + 1
      /\ copy'[Len(copy) + 1] = NewCopy(n)
      /\ \A j \in Copies : copy'[j] = copy[j]
  BY <1>1, SentFacts DEF PathTypeOK
<1>4. PathTypeOK'
  BY <1>1, <1>3 DEF PathTypeOK
<1>5. LettersAreDead'
  BY <1>1, <1>2, <1>3 DEF LettersAreDead, Letter, Copies
<1>6. NewCopy(n).at = "queue" /\ NewCopy(n).replayCount = n
  BY DEF NewCopy
<1>7. YoungestIsKept'
  BY <1>1, <1>2, <1>3, <1>6 DEF YoungestIsKept, LettersAreDead, Letter, Copies, IsAt, RunIsAt
<1>8. MarkedOnce'
  BY <1>1, <1>2, <1>3, <1>6 DEF MarkedOnce, Copies
<1> QED  BY <1>4, <1>5, <1>7, <1>8 DEF PathInv

\* A message moves, or is received: not out of the dead letters, unless it is
\* deleted there, and that is not the youngest.
LEMMA ReplacedInv ==
  ASSUME PathInv, NEW k \in Copies, NEW e \in Copy, Replaced(k, e),
         UNCHANGED <<refused, forced>>,
         run' \in [Runs -> Run],
         \A r \in Runs :
           /\ run'[r].pc \in {"requeue", "delete"} /\ run'[r].message # k =>
                 run[r].pc \in {"requeue", "delete"} /\ run'[r].message = run[r].message
           /\ run'[r].pc \in {"requeue", "delete"} /\ run'[r].message = k => IsAt(k, "dlq") \/ IsAt(k, "deleted")
           /\ run'[r].pc = "delete" => run[r].pc = "delete" /\ run'[r].message = run[r].message,
         e.replayCount = copy[k].replayCount,
         IsAt(k, "dlq") \/ IsAt(k, "deleted") => e.at \in {"dlq", "deleted"},
         e.at = "deleted" => k # Len(copy) \/ refused
  PROVE  PathInv'
<1>1. PathTypeOK /\ LettersAreDead /\ YoungestIsKept /\ MarkedOnce
  BY DEF PathInv
<1>2. Len(copy) \in Nat
  BY <1>1, LenProperties DEF PathTypeOK
<1>3. /\ copy' \in Seq(Copy)
      /\ Len(copy') = Len(copy)
      /\ copy'[k] = e
      /\ \A j \in Copies : j # k => copy'[j] = copy[j]
  BY <1>1, ReplacedFacts DEF PathTypeOK
<1>4. PathTypeOK'
  BY <1>1, <1>3 DEF PathTypeOK
<1>5. LettersAreDead'
  BY <1>1, <1>3 DEF LettersAreDead, Letter, Copies, IsAt
<1>6. YoungestIsKept'
  BY <1>1, <1>2, <1>3 DEF YoungestIsKept, Letter, Copies, IsAt, RunIsAt
<1>7. MarkedOnce'
  BY <1>1, <1>3 DEF MarkedOnce, Copies
<1> QED  BY <1>4, <1>5, <1>6, <1>7 DEF PathInv

\* The messages stay as they are, and no run comes to delete one.
LEMMA RunInv ==
  ASSUME PathInv, UNCHANGED <<copy, refused, forced>>,
         run' \in [Runs -> Run],
         \A r \in Runs :
           /\ run'[r].pc \in {"requeue", "delete"} =>
                 run[r].pc \in {"requeue", "delete"} /\ run'[r].message = run[r].message
           /\ run'[r].pc = "delete" => run[r].pc = "delete"
  PROVE  PathInv'
  BY DEF PathInv, PathTypeOK, LettersAreDead, YoungestIsKept, MarkedOnce, Letter, Copies, IsAt, RunIsAt

LEMMA RunFacts ==
  ASSUME PathTypeOK, NEW r \in Runs
  PROVE  /\ run[r] \in Run
         /\ \A pc \in {"idle", "receive", "requeue", "delete", "exited"} : RunGoes(r, pc) =>
              /\ run' \in [Runs -> Run]
              /\ run'[r].pc = pc /\ run'[r].message = run[r].message
              /\ \A q \in Runs : q # r => run'[q] = run[q]
         /\ Passed(r) \/ Exits(r) =>
              /\ run' \in [Runs -> Run]
              /\ run'[r].pc \in {"receive", "exited"}
              /\ \A q \in Runs : q # r => run'[q] = run[q]
<1>1. run[r] \in Run /\ run \in [Runs -> Run]
  BY DEF PathTypeOK
<1>2. ASSUME NEW pc \in {"idle", "receive", "requeue", "delete", "exited"}, RunGoes(r, pc)
      PROVE  /\ run' \in [Runs -> Run]
             /\ run'[r].pc = pc /\ run'[r].message = run[r].message
             /\ \A q \in Runs : q # r => run'[q] = run[q]
  BY <1>1, <1>2 DEF RunGoes, Run
<1>3. ASSUME Passed(r)
      PROVE  /\ run' \in [Runs -> Run]
             /\ run'[r].pc = "receive"
             /\ \A q \in Runs : q # r => run'[q] = run[q]
  BY <1>1, <1>3 DEF Passed, Run
<1>4. ASSUME Exits(r)
      PROVE  /\ run' \in [Runs -> Run]
             /\ run'[r].pc = "exited"
             /\ \A q \in Runs : q # r => run'[q] = run[q]
  <2> DEFINE x == [NewRun EXCEPT !.pc = "exited"]
  <2>1. x \in Run /\ x.pc = "exited"
    BY DEF NewRun, Run, Options
  <2>2. run' = [run EXCEPT ![r] = x]
    BY <1>4 DEF Exits
  <2> HIDE DEF x
  <2> QED  BY <1>1, <2>1, <2>2
<1> QED  BY <1>1, <1>2, <1>3, <1>4
-----------------------------------------------------------------------------
\* What a step is to the event.
Delivers == [Delivery!Next]_<<EventStatus, refused>>

LEMMA SameStatus ==
  ASSUME Len(copy') = Len(copy), UNCHANGED refused,
         \A j \in Copies : copy'[j].at = copy[j].at
  PROVE  Delivers
<1>1. Copies' = Copies
  BY DEF Copies
<1>2. \A place : SomeAt(place)' <=> SomeAt(place)
  BY <1>1 DEF SomeAt, IsAt
<1>3. EventStatus' = EventStatus
  BY <1>2 DEF EventStatus
<1> QED  BY <1>3 DEF Delivers

LEMMA SendDelivers ==
  ASSUME PathInv, NEW n \in Nat, Send(n), UNCHANGED refused
  PROVE  Delivers
<1>1. copy \in Seq(Copy) /\ Len(copy) \in Nat
  BY LenProperties DEF PathInv, PathTypeOK
<1>2. /\ Len(copy') = Len(copy) + 1
      /\ copy'[Len(copy) + 1].at = "queue"
      /\ \A j \in Copies : copy'[j] = copy[j]
  <2>1. NewCopy(n).at = "queue"
    BY DEF NewCopy
  <2> QED  BY <1>1, <2>1, SentFacts
<1>3. Copies \subseteq Copies' /\ Len(copy) + 1 \in Copies' /\ Copies' \ Copies = {Len(copy) + 1}
  BY <1>1, <1>2 DEF Copies
<1>4. SomeAt("queue")'
  BY <1>2, <1>3 DEF SomeAt, IsAt
<1>5. SomeAt("acknowledged")' <=> SomeAt("acknowledged")
  BY <1>2, <1>3 DEF SomeAt, IsAt
<1>6. Len(copy) = 0 => ~SomeAt("acknowledged")
  BY DEF SomeAt, Copies
<1>7. CASE SomeAt("acknowledged")
  <2>1. EventStatus = "acknowledged" /\ EventStatus' = "acknowledged"
    BY <1>1, <1>2, <1>5, <1>6, <1>7 DEF EventStatus
  <2> QED  BY <2>1 DEF Delivers
<1>8. CASE ~SomeAt("acknowledged")
  <2>1. EventStatus # "acknowledged" /\ EventStatus' = "pending"
    BY <1>1, <1>2, <1>4, <1>5, <1>8 DEF EventStatus
  <2> QED  BY <2>1 DEF Delivers, Delivery!Next, Delivery!Publish
<1> QED  BY <1>7, <1>8

\* A message leaves the queue, or is deleted from among the dead letters.
LEMMA ReplacedDelivers ==
  ASSUME PathInv, NEW k \in Copies, NEW e \in Copy, Replaced(k, e), UNCHANGED refused,
         \/ IsAt(k, "queue") /\ e.at \in {"acknowledged", "dlq"}
         \/ /\ IsAt(k, "dlq") \/ IsAt(k, "deleted")
            /\ e.at = "deleted"
            /\ k # Len(copy) \/ refused
  PROVE  Delivers
<1>1. copy \in Seq(Copy) /\ Len(copy) \in Nat /\ YoungestIsKept
  BY LenProperties DEF PathInv, PathTypeOK
<1>2. /\ Len(copy') = Len(copy) /\ Copies' = Copies
      /\ copy'[k] = e
      /\ \A j \in Copies : j # k => copy'[j] = copy[j]
  BY <1>1, ReplacedFacts DEF Copies
<1>3. Len(copy) > 0 /\ Len(copy) \in Copies
  BY <1>1 DEF Copies
<1>4. CASE IsAt(k, "queue") /\ e.at = "acknowledged"
  <2>1. SomeAt("queue") /\ SomeAt("acknowledged")'
    BY <1>2, <1>4 DEF SomeAt, IsAt
  <2>2. EventStatus \in {"acknowledged", "pending"} /\ EventStatus' = "acknowledged"
    BY <1>1, <1>2, <1>3, <2>1 DEF EventStatus
  <2> QED  BY <2>2 DEF Delivers, Delivery!Next, Delivery!Acknowledge
<1>5. CASE IsAt(k, "queue") /\ e.at = "dlq"
  <2>1. SomeAt("queue") /\ SomeAt("dlq")'
    BY <1>2, <1>5 DEF SomeAt, IsAt
  <2>2. SomeAt("acknowledged")' <=> SomeAt("acknowledged")
    BY <1>2, <1>5 DEF SomeAt, IsAt
  <2>3. EventStatus' = EventStatus
    BY <1>1, <1>2, <1>3, <2>1, <2>2 DEF EventStatus
  <2> QED  BY <2>3 DEF Delivers
<1>6. CASE (IsAt(k, "dlq") \/ IsAt(k, "deleted")) /\ e.at = "deleted" /\ (k # Len(copy) \/ refused)
  <2>1. SomeAt("acknowledged")' <=> SomeAt("acknowledged")
    BY <1>2, <1>6 DEF SomeAt, IsAt
  <2>2. SomeAt("queue")' \/ SomeAt("dlq")' => SomeAt("queue") \/ SomeAt("dlq")
    BY <1>2, <1>6 DEF SomeAt, IsAt
  <2>3. CASE refused
    <3>1. \/ EventStatus' = EventStatus
          \/ EventStatus = "pending" /\ EventStatus' = "lost"
      BY <1>1, <1>2, <1>3, <2>1, <2>2 DEF EventStatus
    <3> QED  BY <2>3, <3>1 DEF Delivers, Delivery!Next, Delivery!Lose
  <2>4. CASE ~refused
    <3>1. copy[Len(copy)] \in Copy /\ ~IsAt(Len(copy), "deleted") /\ k # Len(copy)
      BY <1>1, <1>3, <1>6, <2>4, CopyFacts DEF YoungestIsKept
    <3>2. copy[Len(copy)].at \in {"queue", "acknowledged", "dlq"}
      BY <3>1 DEF Copy, IsAt
    <3>3. SomeAt("acknowledged") \/ ((SomeAt("queue") \/ SomeAt("dlq")) /\ (SomeAt("queue") \/ SomeAt("dlq"))')
      BY <1>2, <1>3, <3>1, <3>2 DEF SomeAt, IsAt
    <3>4. EventStatus' = EventStatus
      BY <1>1, <1>2, <1>3, <2>1, <3>3 DEF EventStatus
    <3> QED  BY <3>4 DEF Delivers
  <2> QED  BY <2>3, <2>4
<1> QED  BY <1>4, <1>5, <1>6
-----------------------------------------------------------------------------
\* What every step shows.
Good == PathInv' /\ Delivers

LEMMA StillGood ==
  ASSUME PathInv, UNCHANGED <<copy, script>>
  PROVE  Good
<1>1. \A r \in Runs : run'[r] = run[r]
  BY DEF script
<1>2. run' \in [Runs -> Run]
  BY DEF PathInv, PathTypeOK, script
<1>3. PathInv'
  BY <1>1, <1>2, RunInv DEF script
<1> QED  BY <1>3, SameStatus DEF Good, script

LEMMA SendGood ==
  ASSUME PathInv, NEW n \in Nat, Send(n), UNCHANGED script, ~forced => n <= 1
  PROVE  Good
  BY SendInv, SendDelivers DEF Good, script

LEMMA RequestGood ==
  ASSUME PathInv, NEW c \in Calls, HandleRequest(c), UNCHANGED script
  PROVE  Good
<1>1. CASE UNCHANGED copy
  BY <1>1, StillGood
<1>2. CASE Send(0)
  BY <1>2, SendGood
<1> QED  BY <1>1, <1>2 DEF HandleRequest

LEMMA EngineGood ==
  ASSUME PathInv, NEW k \in Copies, Engine(k), UNCHANGED script
  PROVE  Good
<1>1. PathTypeOK /\ LettersAreDead /\ MarkedOnce /\ copy[k] \in Copy
  BY CopyFacts DEF PathInv, PathTypeOK
<1>2. run' \in [Runs -> Run] /\ \A r \in Runs : run'[r] = run[r]
  BY <1>1 DEF PathTypeOK, script
<1>3. IsAt(k, "queue") => \A r \in Runs : run[r].pc \in {"requeue", "delete"} => run[r].message # k
  BY <1>1 DEF LettersAreDead, Letter, IsAt
<1>4. CASE Duplicated(k)
  <2>1. copy[k].replayCount \in Nat /\ (~forced => copy[k].replayCount <= 1)
    BY <1>1 DEF Copy, MarkedOnce
  <2> QED  BY <1>4, <2>1, SendGood DEF Duplicated
<1>5. ASSUME NEW place \in {"acknowledged", "dlq"}, IsAt(k, "queue"), Moves(k, place)
      PROVE  Good
  <2>1. PICK e \in Copy : Replaced(k, e) /\ e.at = place /\ e.replayCount = copy[k].replayCount
    BY <1>1, <1>5, CopyFacts DEF PathTypeOK
  <2>2. ~(IsAt(k, "dlq") \/ IsAt(k, "deleted"))
    BY <1>5 DEF IsAt
  <2>3. PathInv'
    BY <1>2, <1>3, <1>5, <2>1, <2>2, ReplacedInv DEF script
  <2>4. Delivers
    BY <1>5, <2>1, ReplacedDelivers DEF script
  <2> QED  BY <2>3, <2>4 DEF Good
<1>6. CASE Acknowledge(k)
  BY <1>5, <1>6 DEF Acknowledge, Deliverable
<1>7. CASE DeadLetter(k)
  BY <1>5, <1>7 DEF DeadLetter
<1>8. CASE NotAcknowledged(k)
  <2> DEFINE e == [copy[k] EXCEPT !.receives = @ + 1]
  <2>1. e \in Copy /\ e.at = copy[k].at /\ e.replayCount = copy[k].replayCount
    BY <1>1 DEF Copy
  <2>2. Replaced(k, e) /\ IsAt(k, "queue")
    BY <1>8 DEF NotAcknowledged, Replaced, Deliverable
  <2>3. e.at # "deleted" /\ ~(IsAt(k, "dlq") \/ IsAt(k, "deleted"))
    BY <2>1, <2>2 DEF IsAt
  <2> HIDE DEF e
  <2>4. PathInv'
    BY <1>2, <1>3, <2>1, <2>2, <2>3, ReplacedInv DEF script
  <2>5. Len(copy') = Len(copy) /\ \A j \in Copies : copy'[j].at = copy[j].at
    BY <1>1, <2>1, <2>2, ReplacedFacts DEF PathTypeOK
  <2> QED  BY <2>4, <2>5, SameStatus DEF Good, script
<1> QED  BY <1>4, <1>6, <1>7, <1>8 DEF Engine

LEMMA ReappearsGood ==
  ASSUME PathInv, NEW k \in Copies, Reappears(k)
  PROVE  Good
<1>1. PathTypeOK /\ copy[k] \in Copy
  BY CopyFacts DEF PathInv, PathTypeOK
<1>2. run' \in [Runs -> Run] /\ \A r \in Runs : run'[r] = run[r]
  BY <1>1 DEF PathTypeOK, script, Reappears
<1> DEFINE e == [copy[k] EXCEPT !.holder = NoRun]
<1>3. e \in Copy /\ e.at = copy[k].at /\ e.replayCount = copy[k].replayCount
  BY <1>1 DEF Copy
<1>4. Replaced(k, e) /\ IsAt(k, "dlq") /\ UNCHANGED <<refused, forced>>
  BY DEF Reappears, Replaced, script
<1>5. e.at = "dlq"
  BY <1>3, <1>4 DEF IsAt
<1> HIDE DEF e
<1>6. PathInv'
  BY <1>2, <1>3, <1>4, <1>5, ReplacedInv
<1>7. Len(copy') = Len(copy) /\ \A j \in Copies : copy'[j].at = copy[j].at
  BY <1>1, <1>3, <1>4, ReplacedFacts DEF PathTypeOK
<1> QED  BY <1>4, <1>6, <1>7, SameStatus DEF Good

LEMMA ReceiveMessageGood ==
  ASSUME PathInv, NEW r \in Runs, ReceiveMessage(r)
  PROVE  Good
<1>1. PathTypeOK /\ run[r] \in Run /\ run \in [Runs -> Run] /\ UNCHANGED <<refused, forced>>
  BY RunFacts DEF PathInv, PathTypeOK, ReceiveMessage
<1>2. CASE Exits(r) /\ UNCHANGED copy
  <2>1. PathInv'
    BY <1>1, <1>2, RunFacts, RunInv
  <2> QED  BY <1>1, <1>2, <2>1, SameStatus DEF Good
<1>3. ASSUME NEW k \in Waiting,
             copy' = [copy EXCEPT ![k].holder = r],
             run' = [run EXCEPT ![r].pc = "requeue", ![r].message = k]
      PROVE  Good
  <2>1. k \in Copies /\ IsAt(k, "dlq") /\ copy[k] \in Copy /\ k \in Nat
    BY <1>1, CopyFacts DEF Waiting, PathTypeOK, Copies
  <2> DEFINE e == [copy[k] EXCEPT !.holder = r]
  <2>2. e \in Copy /\ e.at = copy[k].at /\ e.replayCount = copy[k].replayCount
    BY <2>1 DEF Copy
  <2>3. Replaced(k, e)
    BY <1>3 DEF Replaced
  <2>4. e.at = "dlq"
    BY <2>1, <2>2 DEF IsAt
  <2> HIDE DEF e
  <2>5. /\ run' \in [Runs -> Run]
        /\ run'[r].pc = "requeue" /\ run'[r].message = k
        /\ \A q \in Runs : q # r => run'[q] = run[q]
    BY <1>1, <1>3, <2>1 DEF Run
  <2>6. \A q \in Runs : run[q].pc \in {"requeue", "delete"} /\ run[q].message = k =>
          IsAt(k, "dlq") \/ IsAt(k, "deleted")
    BY <2>1
  <2>7. PathInv'
    BY <1>1, <2>1, <2>2, <2>3, <2>4, <2>5, <2>6, ReplacedInv
  <2>8. Len(copy') = Len(copy) /\ \A j \in Copies : copy'[j].at = copy[j].at
    BY <1>1, <2>1, <2>2, <2>3, ReplacedFacts DEF PathTypeOK
  <2> QED  BY <1>1, <2>7, <2>8, SameStatus DEF Good
<1> QED  BY <1>2, <1>3 DEF ReceiveMessage

\* The run sends a younger message before it comes to delete its letter.
LEMMA requeueMessageGood ==
  ASSUME PathInv, NEW r \in Runs, requeueMessage(r)
  PROVE  Good
<1>1. /\ PathTypeOK /\ LettersAreDead /\ YoungestIsKept /\ MarkedOnce
      /\ run[r] \in Run /\ run \in [Runs -> Run] /\ UNCHANGED refused
      /\ Len(copy) \in Nat
  BY RunFacts, LenProperties DEF PathInv, PathTypeOK, requeueMessage
<1>2. run[r].pc = "requeue" /\ ~shouldSkip(r)
  BY DEF requeueMessage, Requeues, RunIsAt
<1>3. Letter(r) \in Copies /\ copy[Letter(r)] \in Copy
  BY <1>1, <1>2, CopyFacts DEF LettersAreDead, PathTypeOK
<1>4. CASE Exits(r) /\ UNCHANGED <<copy, forced>>
  <2>1. PathInv'
    BY <1>1, <1>4, RunFacts, RunInv
  <2> QED  BY <1>1, <1>4, <2>1, SameStatus DEF Good
<1>5. CASE /\ Send(bumpReplay(Letter(r)))
           /\ forced' = (forced \/ option(r).force)
           /\ RunGoes(r, "delete") \/ Exits(r) \/ UNCHANGED run
  <2> DEFINE n == bumpReplay(Letter(r))
  <2>1. n \in Nat /\ forced' \in BOOLEAN /\ (~forced' => ~forced /\ n <= 1)
    <3>1. copy[Letter(r)].replayCount \in Nat /\ option(r).force \in BOOLEAN
      BY <1>1, <1>3 DEF Copy, Run, Options, option
    <3>2. ~forced' => ~forced /\ ~option(r).force
      BY <1>5
    <3>3. forced' \in BOOLEAN
      BY <1>5
    <3>4. ~option(r).force => copy[Letter(r)].replayCount = 0
      BY <1>2, <3>1 DEF shouldSkip
    <3> QED  BY <3>1, <3>2, <3>3, <3>4 DEF bumpReplay
  <2>2. Send(n)
    BY <1>5
  <2> HIDE DEF n
  <2>3. /\ copy' \in Seq(Copy)
        /\ Len(copy') = Len(copy) + 1
        /\ copy'[Len(copy) + 1] = NewCopy(n)
        /\ \A j \in Copies : copy'[j] = copy[j]
    BY <1>1, <2>1, <2>2, SentFacts DEF PathTypeOK
  <2>4. /\ run' \in [Runs -> Run]
        /\ \A q \in Runs : run'[q].pc \in {"requeue", "delete"} =>
             run[q].pc \in {"requeue", "delete"} /\ run'[q].message = run[q].message
    BY <1>1, <1>2, <1>5, RunFacts
  <2>5. PathTypeOK'
    BY <1>1, <2>1, <2>3, <2>4 DEF PathTypeOK
  <2>6. LettersAreDead'
    BY <1>1, <2>3, <2>4 DEF LettersAreDead, Letter, Copies
  <2>7. NewCopy(n).at = "queue" /\ NewCopy(n).replayCount = n
    BY DEF NewCopy
  <2>8. YoungestIsKept'
    <3>1. \A q \in Runs : RunIsAt(q, "delete")' => Letter(q)' \in Copies
      BY <1>1, <2>4 DEF LettersAreDead, Letter, RunIsAt
    <3>2. \A q \in Runs : RunIsAt(q, "delete")' => Letter(q)' # Len(copy')
      BY <1>1, <2>3, <3>1 DEF Copies
    <3>3. ~IsAt(Len(copy), "deleted")'
      BY <2>3, <2>7 DEF IsAt
    <3> QED  BY <3>2, <3>3 DEF YoungestIsKept
  <2>9. MarkedOnce'
    BY <1>1, <2>1, <2>3, <2>7 DEF MarkedOnce, Copies
  <2>10. Delivers
    BY <1>1, <2>1, <2>2, SendDelivers
  <2> QED  BY <2>5, <2>6, <2>8, <2>9, <2>10 DEF Good, PathInv
<1> QED  BY <1>4, <1>5 DEF requeueMessage

LEMMA BusRefusesGood ==
  ASSUME PathInv, NEW r \in Runs, BusRefuses(r)
  PROVE  Good
<1>1. PathTypeOK /\ LettersAreDead /\ MarkedOnce /\ run[r].pc = "requeue"
  BY DEF PathInv, BusRefuses, Requeues, RunIsAt
<1>2. RunGoes(r, "delete") /\ refused' = TRUE /\ UNCHANGED <<copy, forced>>
  BY DEF BusRefuses
<1>3. /\ run' \in [Runs -> Run]
      /\ \A q \in Runs : run'[q].pc \in {"requeue", "delete"} =>
           run[q].pc \in {"requeue", "delete"} /\ run'[q].message = run[q].message
  BY <1>1, <1>2, RunFacts
<1>4. PathInv'
  BY <1>1, <1>2, <1>3 DEF PathInv, PathTypeOK, LettersAreDead, YoungestIsKept, MarkedOnce, Letter, Copies
<1>5. EventStatus' = EventStatus
  BY <1>2 DEF EventStatus, SomeAt, Copies, IsAt
<1>6. Delivers
  BY <1>2, <1>5 DEF Delivers, Delivery!Next, Delivery!Refuse
<1> QED  BY <1>4, <1>6 DEF Good

LEMMA DeleteMessageGood ==
  ASSUME PathInv, NEW r \in Runs, DeleteMessage(r)
  PROVE  Good
<1>1. /\ PathTypeOK /\ LettersAreDead /\ YoungestIsKept
      /\ run[r].pc = "delete" /\ UNCHANGED <<refused, forced>>
  BY DEF PathInv, DeleteMessage, RunIsAt
<1>2. Passed(r) \/ Exits(r)
  BY DEF DeleteMessage
<1>3. /\ run' \in [Runs -> Run]
      /\ run'[r].pc \in {"receive", "exited"}
      /\ \A q \in Runs : q # r => run'[q] = run[q]
  BY <1>1, <1>2, RunFacts
<1>4. CASE UNCHANGED copy
  <2>1. PathInv'
    BY <1>1, <1>3, <1>4, RunInv
  <2> QED  BY <1>1, <1>4, <2>1, SameStatus DEF Good
<1>5. CASE Moves(Letter(r), "deleted")
  <2> DEFINE k == Letter(r)
  <2>1. k \in Copies /\ (IsAt(k, "dlq") \/ IsAt(k, "deleted")) /\ (k # Len(copy) \/ refused)
    BY <1>1 DEF LettersAreDead, YoungestIsKept, IsAt, RunIsAt
  <2>2. PICK e \in Copy : Replaced(k, e) /\ e.at = "deleted" /\ e.replayCount = copy[k].replayCount
    BY <1>1, <1>5, <2>1, CopyFacts DEF PathTypeOK
  <2> HIDE DEF k
  <2>3. PathInv'
    BY <1>1, <1>3, <2>1, <2>2, ReplacedInv
  <2>4. Delivers
    BY <1>1, <2>1, <2>2, ReplacedDelivers
  <2> QED  BY <2>3, <2>4 DEF Good
<1> QED  BY <1>4, <1>5 DEF DeleteMessage, Deleted

LEMMA ScriptGood ==
  ASSUME PathInv, NEW r \in Runs, Script(r)
  PROVE  Good
<1>1. PathTypeOK /\ run \in [Runs -> Run]
  BY DEF PathInv, PathTypeOK
<1>2. CASE Invoke(r)
  <2>1. UNCHANGED <<copy, refused, forced>> /\ run' \in [Runs -> Run]
    BY <1>1, <1>2 DEF Invoke, Run
  <2>2. /\ run'[r].pc = "receive"
        /\ \A q \in Runs : q # r => run'[q] = run[q]
    BY <1>1, <1>2 DEF Invoke, Run
  <2>3. PathInv'
    BY <2>1, <2>2, RunInv
  <2> QED  BY <2>1, <2>3, SameStatus DEF Good
<1>3. CASE Skip(r) \/ Interrupted(r)
  <2>1. UNCHANGED <<copy, refused, forced>> /\ (Passed(r) \/ Exits(r))
    BY <1>3 DEF Skip, Interrupted
  <2>2. PathInv'
    BY <1>1, <2>1, RunFacts, RunInv
  <2> QED  BY <2>1, <2>2, SameStatus DEF Good
<1> QED  BY <1>2, <1>3, ReceiveMessageGood, requeueMessageGood, BusRefusesGood, DeleteMessageGood
         DEF Script

-----------------------------------------------------------------------------
LEMMA InitPathInv == ReplayInit => PathInv /\ Delivery!Init
<1> SUFFICES ASSUME ReplayInit PROVE PathInv /\ Delivery!Init
  OBVIOUS
<1>1. copy = <<>> /\ Len(copy) = 0 /\ copy \in Seq(Copy) /\ Copies = {}
  BY EmptySeq DEF ReplayInit, Copies
<1>2. NewRun \in Run /\ NewRun.pc = "idle"
  BY DEF NewRun, Run, Options
<1>3. run \in [Runs -> Run] /\ \A r \in Runs : run[r].pc = "idle"
  BY <1>2 DEF ReplayInit
<1>4. PathTypeOK
  BY <1>1, <1>3 DEF ReplayInit, PathTypeOK
<1>6. LettersAreDead
  BY <1>3 DEF LettersAreDead
<1>7. YoungestIsKept
  BY <1>1, <1>3 DEF YoungestIsKept, RunIsAt
<1>8. MarkedOnce
  BY <1>1 DEF MarkedOnce
<1>5. Delivery!Init
  BY <1>1 DEF ReplayInit, Delivery!Init, EventStatus
<1> QED  BY <1>4, <1>5, <1>6, <1>7, <1>8 DEF PathInv

LEMMA NextGood == PathInv /\ [ReplayNext]_replayVars => Good
<1> SUFFICES ASSUME PathInv, [ReplayNext]_replayVars PROVE Good
  OBVIOUS
<1>1. CASE \E c \in Calls : HandleRequest(c) /\ UNCHANGED script
  BY <1>1, RequestGood
<1>2. CASE \E k \in Copies : Engine(k) /\ UNCHANGED script
  BY <1>2, EngineGood
<1>3. CASE \E k \in Copies : Reappears(k)
  BY <1>3, ReappearsGood
<1>4. CASE \E r \in Runs : Script(r)
  BY <1>4, ScriptGood
<1>5. CASE UNCHANGED replayVars
  BY <1>5, StillGood DEF replayVars
<1> QED  BY <1>1, <1>2, <1>3, <1>4, <1>5 DEF ReplayNext, ReplayTerminating

LEMMA PathInvariant == ReplaySpec => []PathInv
<1>1. PathInv /\ [ReplayNext]_replayVars => PathInv'
  BY NextGood DEF Good
<1> QED  BY <1>1, InitPathInv, PTL DEF ReplaySpec

\* For any number of requests, runs, deliveries and faults an event that was
\* published is delivered at least once, or waits in a queue; unless the bus
\* refuses what a run of the script replays.
THEOREM DeliveryHolds == ReplaySpec => ImplementsDelivery
<1>1. PathInv /\ [ReplayNext]_replayVars => [Delivery!Next]_<<EventStatus, refused>>
  BY NextGood DEF Good, Delivers
<1> QED  BY <1>1, InitPathInv, PathInvariant, PTL DEF ReplaySpec, ImplementsDelivery, Delivery!Spec

\* Unless a run was forced, no message of the event was replayed more than once, for
\* any number of runs at once (replay-dlq.ts 41-58, 65-69): the first half of
\* ReplaysAreBounded.
THEOREM MarkedOnceHolds == ReplaySpec => []MarkedOnce
<1>1. PathInv => MarkedOnce
  BY DEF PathInv
<1> QED  BY <1>1, PathInvariant, PTL

\* A fault elsewhere is none to the ingest API.
LEMMA FaultIInv ==
  ASSUME IInv, Fault, UNCHANGED <<record, past, published, call>>
  PROVE  IInv'
<1>1. TypeOK /\ OneStarter /\ Paid /\ CompletedIsPublished /\ AcceptedSettles /\ FailuresAreTrue
  BY DEF IInv
<1>2. TypeOK'
  BY <1>1, FaultsType DEF TypeOK
<1>3. OneStarter' /\ CompletedIsPublished' /\ AcceptedSettles'
  BY <1>1 DEF OneStarter, CompletedIsPublished, AcceptedSettles, Ending, Told, At
<1>4. Paid'
  BY <1>1, FaultsType DEF Paid, At
<1>5. FailuresAreTrue'
  BY <1>1, FaultsType DEF FailuresAreTrue
<1> QED  BY <1>2, <1>3, <1>4, <1>5 DEF IInv

LEMMA ScriptIngest ==
  ASSUME NEW r \in Runs, Script(r)
  PROVE  UNCHANGED vars \/ (Fault /\ UNCHANGED <<record, past, published, call>>)
<1>1. CASE Invoke(r) \/ ReceiveMessage(r) \/ Skip(r) \/ BusRefuses(r)
  BY <1>1 DEF Invoke, ReceiveMessage, Skip, BusRefuses
<1>2. CASE requeueMessage(r)
  BY <1>2 DEF requeueMessage, vars
<1>3. CASE DeleteMessage(r)
  BY <1>3 DEF DeleteMessage, vars
<1>4. CASE Interrupted(r)
  BY <1>4 DEF Interrupted
<1> QED  BY <1>1, <1>2, <1>3, <1>4 DEF Script

LEMMA ReplayNextIInv == IInv /\ [ReplayNext]_replayVars => IInv'
<1> SUFFICES ASSUME IInv, [ReplayNext]_replayVars PROVE IInv'
  OBVIOUS
<1>1. CASE \E c \in Calls : HandleRequest(c) /\ UNCHANGED script
  BY <1>1, NextIInv DEF HandleRequest, Next
<1>2. CASE UNCHANGED vars
  BY <1>2, NextIInv
<1>3. CASE Fault /\ UNCHANGED <<record, past, published, call>>
  BY <1>3, FaultIInv
<1>4. CASE \E k \in Copies : Engine(k) /\ UNCHANGED script
  BY <1>2, <1>3, <1>4 DEF Engine, Duplicated, Acknowledge, NotAcknowledged, DeadLetter
<1>5. CASE \E k \in Copies : Reappears(k)
  BY <1>2, <1>3, <1>5 DEF Reappears
<1>6. CASE \E r \in Runs : Script(r)
  BY <1>2, <1>3, <1>6, ScriptIngest
<1> QED  BY <1>1, <1>2, <1>4, <1>5, <1>6 DEF ReplayNext, ReplayTerminating, replayVars

\* Replays and whatever happens on the way of the event take nothing from what
\* the ingest API guarantees.
THEOREM IngestHolds ==
  ReplaySpec => [](PublishedOnce /\ AcceptedIsPublished /\ AcceptedIsKept /\ RecordsAreTrue)
<1>1. ReplayInit => IInv
  BY InitIInv DEF ReplayInit
<1>2. IInv => PublishedOnce /\ AcceptedIsPublished /\ AcceptedIsKept /\ RecordsAreTrue
  BY DEF IInv, Paid, PublishedOnce, CompletedIsPublished, AcceptedIsPublished, Told,
         AcceptedSettles, AcceptedIsKept, FailuresAreTrue, RecordsAreTrue, Ending
<1> QED  BY <1>1, <1>2, ReplayNextIInv, PTL DEF ReplaySpec

-----------------------------------------------------------------------------
(* How many replays there are. *)

Replays == {k \in Copies : copy[k].replayCount > 0}
Fresh == {k \in Copies : copy[k].replayCount = 0}

\* The runs that are to replay what was not replayed before.
MaySend == {r \in Runs : RunIsAt(r, "requeue") /\ copy[Letter(r)].replayCount = 0}

\* What was not replayed, and no run that received it is at work on it.
Held(k) == \E r \in Runs : copy[k].holder = r /\ AtWorkOn(r, k)
Left == {k \in Copies : copy[k].replayCount = 0 /\ ~IsAt(k, "deleted") /\ ~Held(k)}

\* A message that was not replayed, and a fault, is good for one replay: which has
\* been, or a run is about to, or is yet to come.
Credit ==
  /\ IsFiniteSet(MaySend)
  /\ ~forced =>
       Cardinality(Replays) + Cardinality(MaySend) + Cardinality(Left)
         <= Cardinality(Fresh) + faults

LEMMA Smaller ==
  ASSUME NEW S, IsFiniteSet(S), NEW T
  PROVE  /\ Cardinality(S) \in Nat
         /\ T \subseteq S =>
              IsFiniteSet(T) /\ Cardinality(T) \in Nat /\ Cardinality(T) <= Cardinality(S)
         /\ \A x : T \subseteq S \cup {x} =>
              IsFiniteSet(T) /\ Cardinality(T) \in Nat /\ Cardinality(T) <= Cardinality(S) + 1
         /\ \A x \in S : T \subseteq S \ {x} =>
              IsFiniteSet(T) /\ Cardinality(T) \in Nat /\ Cardinality(T) <= Cardinality(S) - 1
<1>1. Cardinality(S) \in Nat
  BY FS_CardinalityType
<1>2. ASSUME NEW U, IsFiniteSet(U), T \subseteq U
      PROVE  IsFiniteSet(T) /\ Cardinality(T) \in Nat /\ Cardinality(U) \in Nat
             /\ Cardinality(T) <= Cardinality(U)
  BY <1>2, FS_Subset, FS_CardinalityType
<1>3. ASSUME NEW x, T \subseteq S \cup {x}
      PROVE  IsFiniteSet(T) /\ Cardinality(T) \in Nat /\ Cardinality(T) <= Cardinality(S) + 1
  <2>1. IsFiniteSet(S \cup {x}) /\ Cardinality(S \cup {x}) <= Cardinality(S) + 1
    BY <1>1, FS_AddElement
  <2> QED  BY <1>1, <1>2, <1>3, <2>1
<1>4. ASSUME NEW x \in S, T \subseteq S \ {x}
      PROVE  IsFiniteSet(T) /\ Cardinality(T) \in Nat /\ Cardinality(T) <= Cardinality(S) - 1
  <2>1. IsFiniteSet(S \ {x}) /\ Cardinality(S \ {x}) = Cardinality(S) - 1
    BY FS_RemoveElement
  <2> QED  BY <1>2, <1>4, <2>1
<1> QED  BY <1>1, <1>2, <1>3, <1>4

LEMMA Numbers ==
  ASSUME PathTypeOK, TypeOK
  PROVE  /\ Copies = 1 .. Len(copy) /\ Len(copy) \in Nat
         /\ \A k \in Copies : copy[k] \in Copy /\ copy[k].replayCount \in Nat
         /\ IsFiniteSet(Replays) /\ Cardinality(Replays) \in Nat
         /\ IsFiniteSet(Fresh) /\ Cardinality(Fresh) \in Nat
         /\ IsFiniteSet(Left) /\ Cardinality(Left) \in Nat
         /\ faults \in Nat
<1>1. Copies = 1 .. Len(copy) /\ Len(copy) \in Nat
  BY LenProperties DEF PathTypeOK, Copies
<1>2. \A k \in Copies : copy[k] \in Copy /\ copy[k].replayCount \in Nat
  BY CopyFacts DEF PathTypeOK, Copy
<1>3. IsFiniteSet(Copies)
  BY <1>1, FS_Interval
<1>4. Replays \subseteq Copies /\ Fresh \subseteq Copies /\ Left \subseteq Copies
  BY DEF Replays, Fresh, Left
<1>5. faults \in Nat
  BY IngestAssumption DEF TypeOK
<1> QED  BY <1>1, <1>2, <1>3, <1>4, <1>5, Smaller

\* Messages that stay as they are but for their place and their holder.
LEMMA SameReplays ==
  ASSUME PathTypeOK, PathTypeOK', Len(copy') = Len(copy),
         \A k \in Copies : copy'[k].replayCount = copy[k].replayCount
  PROVE  Copies' = Copies /\ Replays' = Replays /\ Fresh' = Fresh
<1>1. Copies' = Copies
  BY DEF Copies
<1> QED  BY <1>1 DEF Replays, Fresh

\* The run r goes on, or ends, and the messages stay; those sent are replays.
LEMMA RunGoesOn ==
  ASSUME PathInv, NEW r \in Runs,
         \A q \in Runs : q # r => run'[q] = run[q],
         Copies \subseteq Copies',
         \A k \in Copies : copy'[k] = copy[k],
         \A k \in Copies' \ Copies : copy'[k].replayCount # 0
  PROVE  /\ run'[r].pc # "requeue" => MaySend' = MaySend \ {r}
         /\ run'[r] = run[r] => MaySend' = MaySend
         /\ (\/ AtWorkOn(r, Letter(r))' /\ run'[r].message = run[r].message
             \/ copy[Letter(r)].holder # r
             \/ copy[Letter(r)].replayCount # 0
             \/ ~AtWorkOn(r, Letter(r)))
            => Left' \subseteq Left
         /\ Left' \subseteq Left \cup {Letter(r)}
<1>1. \A q \in Runs : run[q].pc = "requeue" => run[q].message \in Copies
  BY DEF PathInv, LettersAreDead, Letter
<1>2. \A q \in Runs : q # r => (q \in MaySend' <=> q \in MaySend)
  BY <1>1 DEF MaySend, RunIsAt, Letter
<1>3. run'[r].pc # "requeue" => MaySend' = MaySend \ {r}
  BY <1>2 DEF MaySend, RunIsAt
<1>4. run'[r] = run[r] => MaySend' = MaySend
  BY <1>1, <1>2 DEF MaySend, RunIsAt, Letter
<1>5. \A k \in Left' :
        k \in Copies /\ copy'[k] = copy[k] /\ copy[k].replayCount = 0 /\ ~IsAt(k, "deleted")
  BY DEF Left, IsAt
<1>6. \A k \in Copies : copy'[k].holder = copy[k].holder
  OBVIOUS
<1>7. \A k \in Left' : k # Letter(r) => k \in Left
  BY <1>5 DEF Left, Held, AtWorkOn, Letter
<1>8. ASSUME Letter(r) \in Left',
             \/ AtWorkOn(r, Letter(r))' /\ run'[r].message = run[r].message
             \/ copy[Letter(r)].holder # r
             \/ copy[Letter(r)].replayCount # 0
             \/ ~AtWorkOn(r, Letter(r))
      PROVE  Letter(r) \in Left
  BY <1>5, <1>8 DEF Left, Held, AtWorkOn, Letter
<1> QED  BY <1>3, <1>4, <1>7, <1>8

\* What the steps below start from.
Stepping == PathInv /\ PathInv' /\ TypeOK /\ TypeOK' /\ Credit

LEMMA SteppingFacts ==
  ASSUME Stepping
  PROVE  /\ PathTypeOK /\ PathTypeOK' /\ LettersAreDead
         /\ Cardinality(Replays) \in Nat /\ Cardinality(Replays)' \in Nat
         /\ Cardinality(Fresh) \in Nat /\ Cardinality(Fresh)' \in Nat
         /\ Cardinality(Left) \in Nat /\ Cardinality(Left)' \in Nat
         /\ IsFiniteSet(Replays) /\ IsFiniteSet(Fresh)' /\ IsFiniteSet(Left)
         /\ IsFiniteSet(MaySend) /\ Cardinality(MaySend) \in Nat
         /\ faults \in Nat /\ faults' \in Nat
         /\ Fault => faults' = faults + 1
<1>1. PathTypeOK /\ PathTypeOK' /\ LettersAreDead /\ TypeOK /\ TypeOK' /\ Credit
  BY DEF Stepping, PathInv
<1>2. /\ Cardinality(Replays)' \in Nat /\ Cardinality(Fresh)' \in Nat
      /\ Cardinality(Left)' \in Nat /\ IsFiniteSet(Fresh)' /\ faults' \in Nat
  <2>1. Copies' = 1 .. Len(copy') /\ Len(copy') \in Nat
    BY <1>1, LenProperties DEF PathTypeOK, Copies
  <2>2. IsFiniteSet(Copies')
    BY <2>1, FS_Interval
  <2>3. Replays' \subseteq Copies' /\ Fresh' \subseteq Copies' /\ Left' \subseteq Copies'
    BY DEF Replays, Fresh, Left
  <2>4. faults' \in Nat
    BY <1>1, IngestAssumption DEF TypeOK
  <2> QED  BY <2>2, <2>3, <2>4, Smaller
<1>3. IsFiniteSet(MaySend) /\ Cardinality(MaySend) \in Nat
  BY <1>1, FS_CardinalityType DEF Credit
<1> QED  BY <1>1, <1>2, <1>3, Numbers DEF Fault

\* A message more is there.
LEMMA OneMore ==
  ASSUME Stepping, NEW n \in Nat, Send(n)
  PROVE  /\ Copies' = Copies \cup {Len(copy) + 1} /\ Len(copy) + 1 \notin Copies
         /\ copy'[Len(copy) + 1] = NewCopy(n)
         /\ \A j \in Copies : copy'[j] = copy[j]
         /\ n = 0 => /\ Cardinality(Replays)' = Cardinality(Replays)
                     /\ Cardinality(Fresh)' >= Cardinality(Fresh) + 1
         /\ n > 0 => /\ Cardinality(Replays)' <= Cardinality(Replays) + 1
                     /\ Cardinality(Fresh)' = Cardinality(Fresh)
<1>1. PathTypeOK /\ copy \in Seq(Copy)
  BY SteppingFacts DEF PathTypeOK
<1>2. /\ Len(copy') = Len(copy) + 1 /\ Len(copy) \in Nat
      /\ copy'[Len(copy) + 1] = NewCopy(n)
      /\ \A j \in Copies : copy'[j] = copy[j]
  BY <1>1, SentFacts, LenProperties
<1>3. Copies' = Copies \cup {Len(copy) + 1} /\ Len(copy) + 1 \notin Copies
  BY <1>2 DEF Copies
<1>4. NewCopy(n).replayCount = n
  BY DEF NewCopy
<1>5. ASSUME n = 0
      PROVE  /\ Cardinality(Replays)' = Cardinality(Replays)
             /\ Cardinality(Fresh)' >= Cardinality(Fresh) + 1
  <2>1. Replays' = Replays
    BY <1>2, <1>3, <1>4, <1>5 DEF Replays
  <2>2. Fresh \subseteq Fresh' \ {Len(copy) + 1} /\ Len(copy) + 1 \in Fresh'
    BY <1>2, <1>3, <1>4, <1>5 DEF Fresh
  <2>3. Cardinality(Fresh) <= Cardinality(Fresh') - 1
    BY <2>2, SteppingFacts, Smaller
  <2> QED  BY <2>1, <2>3, SteppingFacts
<1>6. ASSUME n > 0
      PROVE  /\ Cardinality(Replays)' <= Cardinality(Replays) + 1
             /\ Cardinality(Fresh)' = Cardinality(Fresh)
  <2>1. Replays' \subseteq Replays \cup {Len(copy) + 1}
    BY <1>2, <1>3, <1>4, <1>6 DEF Replays
  <2>2. Fresh' = Fresh
    BY <1>2, <1>3, <1>4, <1>6 DEF Fresh
  <2> QED  BY <2>1, <2>2, SteppingFacts, Smaller
<1> QED  BY <1>2, <1>3, <1>5, <1>6

\* The runs stay; what is left is what was, and what was sent first.
LEMMA MoreLeft ==
  ASSUME Stepping, NEW n \in Nat, Send(n), run' = run
  PROVE  /\ MaySend' = MaySend
         /\ n = 0 => Cardinality(Left)' <= Cardinality(Left) + 1
         /\ n > 0 => Cardinality(Left)' <= Cardinality(Left)
<1>1. /\ Copies' = Copies \cup {Len(copy) + 1}
      /\ copy'[Len(copy) + 1] = NewCopy(n) /\ NewCopy(n).replayCount = n
      /\ \A j \in Copies : copy'[j] = copy[j]
  BY OneMore DEF NewCopy
<1>2. MaySend' = MaySend
  BY <1>1, SteppingFacts DEF MaySend, RunIsAt, LettersAreDead, Letter
<1>3. \A k \in Left' : k \in Copies => k \in Left
  BY <1>1 DEF Left, Held, AtWorkOn, Letter, IsAt
<1>4. Left' \subseteq Left \cup {Len(copy) + 1}
  BY <1>1, <1>3 DEF Left
<1>5. n > 0 => Left' \subseteq Left
  BY <1>1, <1>3 DEF Left
<1> QED  BY <1>2, <1>4, <1>5, SteppingFacts, Smaller

LEMMA SendCredit ==
  ASSUME Stepping, NEW n \in Nat, Send(n), UNCHANGED script,
         (n = 0 /\ faults' >= faults) \/ Fault
  PROVE  Credit'
<1>1. run' = run /\ forced' = forced
  BY DEF script
<1>2. Credit /\ MaySend' = MaySend
  BY <1>1, MoreLeft DEF Stepping
<1>3. CASE n = 0
  BY <1>1, <1>2, <1>3, OneMore, MoreLeft, SteppingFacts DEF Credit
<1>4. CASE n > 0
  BY <1>1, <1>2, <1>4, OneMore, MoreLeft, SteppingFacts DEF Credit
<1> QED  BY <1>3, <1>4

\* The messages are as many and as often replayed, and nothing is lost of what is left
\* and of what runs are to send, but for a fault each.
LEMMA QuietCredit ==
  ASSUME Stepping, UNCHANGED forced,
         Len(copy') = Len(copy),
         \A k \in Copies : copy'[k].replayCount = copy[k].replayCount,
         IsFiniteSet(MaySend'),
         Cardinality(MaySend)' + Cardinality(Left)' - faults'
           <= Cardinality(MaySend) + Cardinality(Left) - faults,
         Cardinality(MaySend)' \in Nat
  PROVE  Credit'
<1>1. Replays' = Replays /\ Fresh' = Fresh
  BY SameReplays, SteppingFacts
<1> QED  BY <1>1, SteppingFacts DEF Credit, Stepping

LEMMA RequestCredit ==
  ASSUME Stepping, NEW c \in Calls, HandleRequest(c), UNCHANGED script
  PROVE  Credit'
<1>1. faults' >= faults
  <2>1. UNCHANGED faults \/ Fault
    BY DEF HandleRequest, Handle, Request, Start, Read, Publish, Complete, Fail, FailAgain,
           Ends, Dies, Rejected
  <2> QED  BY <2>1, SteppingFacts
<1>2. CASE Send(0)
  BY <1>1, <1>2, SendCredit
<1>3. CASE UNCHANGED copy
  <2>1. run' = run /\ forced' = forced
    BY DEF script
  <2>2. MaySend' = MaySend /\ Left' = Left
    BY <1>3, <2>1 DEF MaySend, RunIsAt, Letter, Left, Held, AtWorkOn, IsAt, Copies
  <2> QED  BY <1>1, <1>3, <2>1, <2>2, SteppingFacts, QuietCredit
<1> QED  BY <1>2, <1>3 DEF HandleRequest

\* A message on its way is no run's.
LEMMA OnItsWay ==
  ASSUME Stepping, NEW k \in Copies, IsAt(k, "queue"), UNCHANGED script, faults' = faults,
         Len(copy') = Len(copy),
         copy'[k].replayCount = copy[k].replayCount,
         \A j \in Copies : j # k => copy'[j] = copy[j]
  PROVE  Credit'
<1>1. run' = run /\ forced' = forced /\ Copies' = Copies
  BY DEF script, Copies
<1>2. ~Held(k)
  BY SteppingFacts DEF Held, AtWorkOn, LettersAreDead, IsAt
<1>3. MaySend' = MaySend
  BY <1>1, SteppingFacts DEF MaySend, RunIsAt, Letter, LettersAreDead
<1>4. Left' \subseteq Left
  BY <1>1, <1>2 DEF Left, Held, AtWorkOn, Letter, IsAt
<1>5. Cardinality(Left)' <= Cardinality(Left)
  BY <1>4, SteppingFacts, Smaller
<1> QED  BY <1>1, <1>3, <1>5, SteppingFacts, QuietCredit

LEMMA EngineCredit ==
  ASSUME Stepping, NEW k \in Copies, Engine(k), UNCHANGED script
  PROVE  Credit'
<1>1. copy \in Seq(Copy) /\ copy[k] \in Copy /\ copy[k].replayCount \in Nat
  BY SteppingFacts, CopyFacts DEF PathTypeOK, Copy
<1>2. CASE Duplicated(k)
  BY <1>1, <1>2, SendCredit DEF Duplicated
<1>3. ASSUME NEW place \in {"acknowledged", "dlq"}, IsAt(k, "queue"), Moves(k, place), UNCHANGED vars
      PROVE  Credit'
  <2>1. PICK e \in Copy : Replaced(k, e) /\ e.replayCount = copy[k].replayCount
    BY <1>1, <1>3, CopyFacts
  <2> QED  BY <1>1, <1>3, <2>1, ReplacedFacts, OnItsWay DEF vars
<1>4. CASE NotAcknowledged(k)
  <2> DEFINE e == [copy[k] EXCEPT !.receives = @ + 1]
  <2>3. copy[k] \in Copy
    BY <1>1
  <2>1. e \in Copy /\ e.replayCount = copy[k].replayCount
    BY <2>3 DEF Copy
  <2>2. Replaced(k, e) /\ IsAt(k, "queue") /\ UNCHANGED vars
    BY <1>4 DEF NotAcknowledged, Replaced, Deliverable
  <2> HIDE DEF e
  <2> QED  BY <1>1, <2>1, <2>2, ReplacedFacts, OnItsWay DEF vars
<1> QED  BY <1>2, <1>3, <1>4 DEF Engine, Acknowledge, DeadLetter, Deliverable

LEMMA ReappearsCredit ==
  ASSUME Stepping, NEW k \in Copies, Reappears(k)
  PROVE  Credit'
<1>1. copy \in Seq(Copy) /\ copy[k] \in Copy /\ run' = run /\ forced' = forced
  BY SteppingFacts, CopyFacts DEF PathTypeOK, Reappears, script
<1> DEFINE e == [copy[k] EXCEPT !.holder = NoRun]
<1>2. e \in Copy /\ e.replayCount = copy[k].replayCount /\ e.at = copy[k].at
  BY <1>1 DEF Copy
<1>3. Replaced(k, e)
  BY DEF Reappears, Replaced
<1> HIDE DEF e
<1>4. /\ Len(copy') = Len(copy)
      /\ \A j \in Copies : copy'[j].replayCount = copy[j].replayCount
      /\ \A j \in Copies : copy'[j].at = copy[j].at
      /\ \A j \in Copies : j # k => copy'[j] = copy[j]
  BY <1>1, <1>2, <1>3, ReplacedFacts
<1>5. Copies' = Copies /\ MaySend' = MaySend
  BY <1>1, <1>4, SteppingFacts DEF Copies, MaySend, RunIsAt, Letter, LettersAreDead
<1>6. \A j \in Left' : j # k => j \in Left
  BY <1>1, <1>4, <1>5 DEF Left, Held, AtWorkOn, Letter, IsAt
<1>7. CASE Fault
  <2>1. Cardinality(Left)' <= Cardinality(Left) + 1
    BY <1>6, SteppingFacts, Smaller
  <2> QED  BY <1>1, <1>4, <1>5, <1>7, <2>1, SteppingFacts, QuietCredit
<1>8. CASE ~(\E r \in Runs : AtWorkOn(r, k)) /\ UNCHANGED vars
  <2>1. k \in Left' => k \in Left
    BY <1>1, <1>4, <1>5, <1>8 DEF Left, Held, IsAt
  <2>2. Cardinality(Left)' <= Cardinality(Left) /\ faults' = faults
    BY <1>6, <1>8, <2>1, SteppingFacts, Smaller DEF vars
  <2> QED  BY <1>1, <1>4, <1>5, <2>2, SteppingFacts, QuietCredit
<1> QED  BY <1>7, <1>8 DEF Reappears

LEMMA ReceiveCredit ==
  ASSUME Stepping, NEW r \in Runs, ReceiveMessage(r)
  PROVE  Credit'
<1>1. /\ copy \in Seq(Copy) /\ run \in [Runs -> Run] /\ run' \in [Runs -> Run]
      /\ run[r].pc = "receive" /\ forced' = forced /\ faults' = faults
  BY SteppingFacts DEF PathTypeOK, ReceiveMessage, RunIsAt, vars
<1>2. CASE Exits(r) /\ UNCHANGED copy
  <2>1. /\ run'[r].pc # "requeue"
        /\ \A q \in Runs : q # r => run'[q] = run[q]
    BY <1>1, <1>2, RunFacts, SteppingFacts
  <2>2. Copies' = Copies /\ ~AtWorkOn(r, Letter(r)) /\ r \notin MaySend
    BY <1>1, <1>2 DEF Copies, AtWorkOn, MaySend, RunIsAt
  <2>3. MaySend' = MaySend /\ Left' \subseteq Left
    <3>1. MaySend' = MaySend \ {r} /\ Left' \subseteq Left
      BY <1>2, <2>1, <2>2, RunGoesOn DEF Stepping
    <3> QED  BY <2>2, <3>1
  <2>4. Cardinality(Left)' <= Cardinality(Left)
    BY <2>3, SteppingFacts, Smaller
  <2> QED  BY <1>1, <1>2, <2>3, <2>4, SteppingFacts, QuietCredit
<1>3. ASSUME NEW k \in Waiting,
             copy' = [copy EXCEPT ![k].holder = r],
             run' = [run EXCEPT ![r].pc = "requeue", ![r].message = k]
      PROVE  Credit'
  <2>1. k \in Copies /\ IsAt(k, "dlq") /\ copy[k].holder = NoRun /\ NoRun \notin Runs
    BY PathAssumption DEF Waiting
  <2>2. copy[k] \in Copy
    BY <1>1, <2>1, CopyFacts
  <2> DEFINE e == [copy[k] EXCEPT !.holder = r]
  <2>3. e \in Copy /\ e.replayCount = copy[k].replayCount /\ e.at = copy[k].at /\ e.holder = r
    BY <2>2 DEF Copy
  <2>4. Replaced(k, e)
    BY <1>3 DEF Replaced
  <2> HIDE DEF e
  <2>5. /\ Len(copy') = Len(copy)
        /\ copy'[k].holder = r
        /\ \A j \in Copies : copy'[j].replayCount = copy[j].replayCount
        /\ \A j \in Copies : copy'[j].at = copy[j].at
        /\ \A j \in Copies : j # k => copy'[j] = copy[j]
    BY <1>1, <2>1, <2>3, <2>4, ReplacedFacts
  <2>6. /\ run'[r].pc = "requeue" /\ run'[r].message = k
        /\ \A q \in Runs : q # r => run'[q] = run[q]
    BY <1>1, <1>3 DEF Run
  <2>7. Copies' = Copies
    BY <2>5 DEF Copies
  <2>8. \A q \in Runs : q # r => (q \in MaySend' <=> q \in MaySend)
    BY <2>1, <2>5, <2>6, SteppingFacts DEF MaySend, RunIsAt, Letter, LettersAreDead
  <2>9. k \notin Left'
    <3>1. Held(k)'
      BY <2>5, <2>6 DEF Held, AtWorkOn, Letter
    <3> QED  BY <3>1 DEF Left
  <2>10. \A j \in Left' : j \in Left
    BY <1>1, <2>5, <2>6, <2>7, <2>9 DEF Left, Held, AtWorkOn, Letter, IsAt
  <2>11. CASE copy[k].replayCount = 0
    <3>1. k \in Left
      BY <2>1, <2>11 DEF Left, Held, IsAt
    <3>2. Left' \subseteq Left \ {k} /\ MaySend' \subseteq MaySend \cup {r}
      BY <2>8, <2>9, <2>10 DEF MaySend
    <3>3. /\ Cardinality(Left)' <= Cardinality(Left) - 1
          /\ IsFiniteSet(MaySend') /\ Cardinality(MaySend)' \in Nat
          /\ Cardinality(MaySend)' <= Cardinality(MaySend) + 1
      BY <3>1, <3>2, SteppingFacts, Smaller
    <3> QED  BY <1>1, <2>5, <3>3, SteppingFacts, QuietCredit
  <2>12. CASE copy[k].replayCount # 0
    <3>1. r \notin MaySend'
      BY <2>1, <2>5, <2>6, <2>12 DEF MaySend, Letter
    <3>2. Left' \subseteq Left /\ MaySend' \subseteq MaySend
      BY <2>8, <2>10, <3>1 DEF MaySend
    <3>3. /\ Cardinality(Left)' <= Cardinality(Left)
          /\ IsFiniteSet(MaySend') /\ Cardinality(MaySend)' \in Nat
          /\ Cardinality(MaySend)' <= Cardinality(MaySend)
      BY <3>2, SteppingFacts, Smaller
    <3> QED  BY <1>1, <2>5, <3>3, SteppingFacts, QuietCredit
  <2> QED  BY <2>11, <2>12
<1> QED  BY <1>2, <1>3 DEF ReceiveMessage

\* A run that leaves its letter: one it was to send, one that is not its any more, or
\* for a fault.
LEMMA LeaveCredit ==
  ASSUME Stepping, NEW r \in Runs, UNCHANGED <<copy, forced>>,
         \A q \in Runs : q # r => run'[q] = run[q],
         run'[r].pc \notin {"requeue", "delete"},
         \/ run[r].pc # "delete" /\ faults' >= faults
         \/ copy[Letter(r)].holder # r /\ faults' >= faults
         \/ Fault
  PROVE  Credit'
<1>1. Copies' = Copies /\ MaySend' = MaySend \ {r} /\ Left' \subseteq Left \cup {Letter(r)}
      /\ (copy[Letter(r)].holder # r \/ copy[Letter(r)].replayCount # 0
          \/ ~AtWorkOn(r, Letter(r)) => Left' \subseteq Left)
  <2>1. Copies' = Copies
    BY DEF Copies
  <2> QED  BY <2>1, RunGoesOn DEF Stepping
<1>2. /\ IsFiniteSet(MaySend') /\ Cardinality(MaySend)' \in Nat
      /\ Cardinality(MaySend)' <= Cardinality(MaySend)
      /\ r \in MaySend => Cardinality(MaySend)' <= Cardinality(MaySend) - 1
      /\ Cardinality(Left)' <= Cardinality(Left) + 1
      /\ Left' \subseteq Left => Cardinality(Left)' <= Cardinality(Left)
  BY <1>1, SteppingFacts, Smaller
<1>3. faults' >= faults
  BY SteppingFacts
<1>4. \/ r \in MaySend
      \/ Left' \subseteq Left
      \/ Fault
  BY <1>1 DEF MaySend, RunIsAt, AtWorkOn
<1> QED  BY <1>2, <1>3, <1>4, SteppingFacts, QuietCredit

LEMMA RequeueCredit ==
  ASSUME Stepping, NEW r \in Runs, requeueMessage(r)
  PROVE  Credit'
<1>1. /\ run[r].pc = "requeue" /\ ~shouldSkip(r)
      /\ run \in [Runs -> Run] /\ PathTypeOK /\ LettersAreDead
  BY SteppingFacts DEF requeueMessage, Requeues, RunIsAt, PathTypeOK
<1>2. Letter(r) \in Copies /\ copy[Letter(r)] \in Copy /\ copy[Letter(r)].replayCount \in Nat
  BY <1>1, CopyFacts DEF LettersAreDead, PathTypeOK, Copy
<1>3. CASE Exits(r) /\ Fault /\ UNCHANGED <<copy, forced>>
  <2>1. run'[r].pc \notin {"requeue", "delete"} /\ \A q \in Runs : q # r => run'[q] = run[q]
    BY <1>1, <1>3, RunFacts
  <2> QED  BY <1>3, <2>1, LeaveCredit
<1>4. CASE /\ Send(bumpReplay(Letter(r)))
           /\ forced' = (forced \/ option(r).force)
           /\ \/ RunGoes(r, "delete") /\ UNCHANGED faults
              \/ (Exits(r) \/ UNCHANGED run) /\ Fault
  <2> SUFFICES ASSUME ~forced' PROVE IsFiniteSet(MaySend') /\
        Cardinality(Replays)' + Cardinality(MaySend)' + Cardinality(Left)'
          <= Cardinality(Fresh)' + faults'
    <3>1. IsFiniteSet(MaySend')
      <4>1. MaySend' \subseteq MaySend \cup {r}
        <5>1. \A q \in Runs : q # r => run'[q] = run[q]
          BY <1>1, <1>4, RunFacts
        <5>2. \A j \in Copies : copy'[j] = copy[j]
          BY <1>2, <1>4, OneMore DEF bumpReplay
        <5> QED  BY <1>1, <5>1, <5>2 DEF MaySend, RunIsAt, Letter, LettersAreDead
      <4> QED  BY <4>1, SteppingFacts, Smaller
    <3> QED  BY <3>1 DEF Credit
  <2>1. ~forced /\ copy[Letter(r)].replayCount = 0
    <3>1. ~forced /\ ~option(r).force
      BY <1>4
    <3> QED  BY <1>1, <1>2, <3>1 DEF shouldSkip
  <2>2. bumpReplay(Letter(r)) = 1 /\ r \in MaySend
    BY <1>1, <2>1 DEF bumpReplay, MaySend, RunIsAt
  <2>3. /\ Copies' = Copies \cup {Len(copy) + 1}
        /\ copy'[Len(copy) + 1].replayCount = 1
        /\ \A j \in Copies : copy'[j] = copy[j]
        /\ Cardinality(Replays)' <= Cardinality(Replays) + 1
        /\ Cardinality(Fresh)' = Cardinality(Fresh)
    <3>1. Send(1)
      BY <1>4, <2>2 DEF Send
    <3>2. NewCopy(1).replayCount = 1
      BY DEF NewCopy
    <3> QED  BY <3>1, <3>2, OneMore
  <2>4. Copies \subseteq Copies' /\ \A k \in Copies' \ Copies : copy'[k].replayCount # 0
    BY <2>3
  <2>5. CASE RunGoes(r, "delete") /\ UNCHANGED faults
    <3>1. /\ run'[r].pc = "delete" /\ run'[r].message = run[r].message
          /\ \A q \in Runs : q # r => run'[q] = run[q]
      BY <1>1, <2>5, RunFacts
    <3>2. AtWorkOn(r, Letter(r))'
      BY <3>1 DEF AtWorkOn, Letter
    <3>3. MaySend' = MaySend \ {r} /\ Left' \subseteq Left
      BY <2>3, <2>4, <3>1, <3>2, RunGoesOn DEF Stepping
    <3>4. /\ IsFiniteSet(MaySend') /\ Cardinality(MaySend)' \in Nat
          /\ Cardinality(MaySend)' <= Cardinality(MaySend) - 1
          /\ Cardinality(Left)' <= Cardinality(Left)
      BY <2>2, <3>3, SteppingFacts, Smaller
    <3> QED  BY <2>1, <2>3, <2>5, <3>4, SteppingFacts DEF Stepping, Credit
  <2>6. CASE Exits(r) /\ Fault
    <3>1. run'[r].pc # "requeue" /\ \A q \in Runs : q # r => run'[q] = run[q]
      BY <1>1, <2>6, RunFacts
    <3>2. MaySend' = MaySend \ {r} /\ Left' \subseteq Left \cup {Letter(r)}
      BY <2>3, <2>4, <3>1, RunGoesOn DEF Stepping
    <3>3. /\ IsFiniteSet(MaySend') /\ Cardinality(MaySend)' \in Nat
          /\ Cardinality(MaySend)' <= Cardinality(MaySend) - 1
          /\ Cardinality(Left)' <= Cardinality(Left) + 1
      BY <2>2, <3>2, SteppingFacts, Smaller
    <3> QED  BY <2>1, <2>3, <2>6, <3>3, SteppingFacts DEF Stepping, Credit
  <2>7. CASE UNCHANGED run /\ Fault
    <3>1. MaySend' = MaySend /\ Left' \subseteq Left
      <4>1. AtWorkOn(r, Letter(r)) => AtWorkOn(r, Letter(r))'
        BY <2>7 DEF AtWorkOn, Letter
      <4> QED  BY <2>3, <2>4, <2>7, <4>1, RunGoesOn DEF Stepping
    <3>2. Cardinality(Left)' <= Cardinality(Left)
      BY <3>1, SteppingFacts, Smaller
    <3> QED  BY <2>1, <2>3, <2>7, <3>1, <3>2, SteppingFacts DEF Stepping, Credit
  <2> QED  BY <1>4, <2>5, <2>6, <2>7
<1> QED  BY <1>3, <1>4 DEF requeueMessage

LEMMA DeleteCredit ==
  ASSUME Stepping, NEW r \in Runs, DeleteMessage(r)
  PROVE  Credit'
<1>1. /\ run[r].pc = "delete" /\ forced' = forced /\ run \in [Runs -> Run]
      /\ copy \in Seq(Copy) /\ PathTypeOK
      /\ UNCHANGED faults \/ Fault
      /\ Passed(r) \/ Exits(r)
  BY SteppingFacts DEF DeleteMessage, RunIsAt, PathTypeOK
<1>2. /\ run'[r].pc \notin {"requeue", "delete"}
      /\ \A q \in Runs : q # r => run'[q] = run[q]
  BY <1>1, RunFacts
<1>3. faults' >= faults
  BY <1>1, SteppingFacts
<1>4. CASE UNCHANGED copy /\ (copy[Letter(r)].holder # r \/ Fault)
  BY <1>1, <1>2, <1>3, <1>4, LeaveCredit
<1>5. CASE Moves(Letter(r), "deleted")
  <2> DEFINE k == Letter(r)
  <2>1. k \in Copies
    BY <1>1, SteppingFacts DEF LettersAreDead
  <2>2. PICK e \in Copy : Replaced(k, e) /\ e.at = "deleted" /\ e.replayCount = copy[k].replayCount
    BY <1>1, <1>5, <2>1, CopyFacts
  <2> HIDE DEF k
  <2>3. /\ Len(copy') = Len(copy)
        /\ copy'[k].at = "deleted"
        /\ \A j \in Copies : copy'[j].replayCount = copy[j].replayCount
        /\ \A j \in Copies : j # k => copy'[j] = copy[j]
    BY <1>1, <2>1, <2>2, ReplacedFacts
  <2>4. Copies' = Copies
    BY <2>3 DEF Copies
  <2>5. MaySend' = MaySend
    BY <1>1, <1>2, <2>3, SteppingFacts DEF MaySend, RunIsAt, Letter, LettersAreDead
  <2>6. k \notin Left'
    BY <2>3 DEF Left, IsAt
  <2>7. \A j \in Left' : j \in Left
    <3>1. ASSUME NEW j \in Left', j # k, Held(j) PROVE Held(j)'
      <4>1. PICK q \in Runs : copy[j].holder = q /\ AtWorkOn(q, j)
        BY <3>1 DEF Held
      <4>2. q # r
        BY <3>1, <4>1 DEF AtWorkOn, k
      <4>3. AtWorkOn(q, j)' /\ copy'[j] = copy[j]
        BY <1>2, <2>3, <2>4, <3>1, <4>1, <4>2 DEF AtWorkOn, Letter, Left
      <4> QED  BY <4>1, <4>3 DEF Held
    <3> QED  BY <2>3, <2>4, <2>6, <3>1 DEF Left, IsAt
  <2>8. Cardinality(Left)' <= Cardinality(Left)
    BY <2>7, SteppingFacts, Smaller
  <2> QED  BY <1>1, <1>3, <2>3, <2>5, <2>8, SteppingFacts, QuietCredit
<1> QED  BY <1>4, <1>5 DEF DeleteMessage, Deleted

LEMMA BusRefusesCredit ==
  ASSUME Stepping, NEW r \in Runs, BusRefuses(r)
  PROVE  Credit'
<1>1. /\ run[r].pc = "requeue" /\ UNCHANGED <<copy, forced, faults>> /\ RunGoes(r, "delete")
      /\ PathTypeOK
  BY SteppingFacts DEF BusRefuses, Requeues, RunIsAt, vars
<1>2. /\ run'[r].pc = "delete" /\ run'[r].message = run[r].message
      /\ \A q \in Runs : q # r => run'[q] = run[q]
  BY <1>1, RunFacts
<1>3. AtWorkOn(r, Letter(r))' /\ Copies' = Copies
  BY <1>1, <1>2 DEF AtWorkOn, Letter, Copies
<1>4. MaySend' = MaySend \ {r} /\ Left' \subseteq Left
  BY <1>1, <1>2, <1>3, RunGoesOn DEF Stepping
<1>5. /\ IsFiniteSet(MaySend') /\ Cardinality(MaySend)' \in Nat
      /\ Cardinality(MaySend)' <= Cardinality(MaySend)
      /\ Cardinality(Left)' <= Cardinality(Left)
  BY <1>4, SteppingFacts, Smaller
<1> QED  BY <1>1, <1>5, SteppingFacts, QuietCredit

LEMMA ScriptCredit ==
  ASSUME Stepping, NEW r \in Runs, Script(r)
  PROVE  Credit'
<1>1. PathTypeOK /\ run \in [Runs -> Run]
  BY SteppingFacts DEF PathTypeOK
<1>2. CASE Invoke(r)
  <2>1. UNCHANGED <<copy, forced, faults>> /\ run[r].pc = "idle"
    BY <1>2 DEF Invoke, RunIsAt, vars
  <2>2. /\ run'[r].pc = "receive"
        /\ \A q \in Runs : q # r => run'[q] = run[q]
    BY <1>1, <1>2 DEF Invoke, Run
  <2> QED  BY <2>1, <2>2, SteppingFacts, LeaveCredit
<1>3. CASE Skip(r)
  <2>1. UNCHANGED <<copy, forced, faults>> /\ run[r].pc = "requeue" /\ Passed(r)
    BY <1>3 DEF Skip, RunIsAt, vars
  <2>2. /\ run'[r].pc \notin {"requeue", "delete"}
        /\ \A q \in Runs : q # r => run'[q] = run[q]
    BY <1>1, <2>1, RunFacts
  <2> QED  BY <2>1, <2>2, SteppingFacts, LeaveCredit
<1>4. CASE Interrupted(r)
  <2>1. UNCHANGED <<copy, forced>> /\ Fault /\ Exits(r)
    BY <1>4 DEF Interrupted
  <2>2. /\ run'[r].pc \notin {"requeue", "delete"}
        /\ \A q \in Runs : q # r => run'[q] = run[q]
    BY <1>1, <2>1, RunFacts
  <2> QED  BY <2>1, <2>2, LeaveCredit
<1> QED  BY <1>2, <1>3, <1>4, ReceiveCredit, RequeueCredit, BusRefusesCredit, DeleteCredit
         DEF Script

LEMMA NextCredit ==
  ASSUME PathInv, PathInv', TypeOK, TypeOK', Credit, [ReplayNext]_replayVars
  PROVE  Credit'
<1>1. Stepping
  BY DEF Stepping
<1>2. CASE \E c \in Calls : HandleRequest(c) /\ UNCHANGED script
  BY <1>1, <1>2, RequestCredit
<1>3. CASE \E k \in Copies : Engine(k) /\ UNCHANGED script
  BY <1>1, <1>3, EngineCredit
<1>4. CASE \E k \in Copies : Reappears(k)
  BY <1>1, <1>4, ReappearsCredit
<1>5. CASE \E r \in Runs : Script(r)
  BY <1>1, <1>5, ScriptCredit
<1>6. CASE UNCHANGED replayVars
  BY <1>6 DEF replayVars, vars, script, Credit, Replays, Fresh, MaySend, Left, Held, AtWorkOn,
              Letter, RunIsAt, IsAt, Copies
<1> QED  BY <1>2, <1>3, <1>4, <1>5, <1>6 DEF ReplayNext, ReplayTerminating

LEMMA InitCredit == ReplayInit => Credit
<1> SUFFICES ASSUME ReplayInit PROVE Credit
  OBVIOUS
<1>1. Copies = {} /\ faults = 0
  BY DEF ReplayInit, Init, Copies
<1>2. MaySend = {}
  BY DEF ReplayInit, NewRun, MaySend, RunIsAt
<1>3. Replays = {} /\ Fresh = {} /\ Left = {}
  BY <1>1 DEF Replays, Fresh, Left
<1> QED  BY <1>1, <1>2, <1>3, FS_EmptySet DEF Credit

\* Without --force no message is replayed twice, and there are no more replays than
\* messages that were none, and faults: for any number of runs that receive, lose
\* and send the same letters at once (README.md:246; replay-dlq.ts 41-58, 65-131).
THEOREM ReplaysAreBoundedHolds == ReplaySpec => []ReplaysAreBounded
<1>1. ReplaySpec => []IInv
  <2>1. ReplayInit => IInv
    BY InitIInv DEF ReplayInit
  <2> QED  BY <2>1, ReplayNextIInv, PTL DEF ReplaySpec
<1>2. IInv => TypeOK
  BY DEF IInv
<1>3. PathInv /\ PathInv' /\ TypeOK /\ TypeOK' /\ Credit /\ [ReplayNext]_replayVars => Credit'
  BY NextCredit
<1>4. ReplaySpec => []Credit
  BY <1>1, <1>2, <1>3, InitCredit, PathInvariant, PTL DEF ReplaySpec
<1>5. PathInv /\ TypeOK /\ Credit => ReplaysAreBounded
  <2> SUFFICES ASSUME PathInv, TypeOK, Credit, ~forced PROVE
        LET Replayed == {k \in Copies : copy[k].replayCount > 0}
        IN  /\ \A k \in Replayed : copy[k].replayCount = 1
            /\ Cardinality(Replayed) <= Cardinality(Copies \ Replayed) + faults
    BY DEF ReplaysAreBounded
  <2>1. PathTypeOK /\ MarkedOnce
    BY DEF PathInv
  <2>2. Copies \ Replays = Fresh /\ \A k \in Replays : copy[k].replayCount = 1
    BY <2>1, Numbers DEF Replays, Fresh, MarkedOnce
  <2>3. Cardinality(Replays) <= Cardinality(Fresh) + faults
    BY <2>1, Numbers, FS_CardinalityType DEF Credit
  <2> QED  BY <2>2, <2>3 DEF Replays
<1> QED  BY <1>1, <1>2, <1>4, <1>5, PathInvariant, PTL
=============================================================================
