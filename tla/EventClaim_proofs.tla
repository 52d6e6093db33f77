-------------------------- MODULE EventClaim_proofs --------------------------
(***************************************************************************)
(* TLAPS proofs about EventClaim, for any number of messages, receives and *)
(* faults and any timeouts that satisfy ClaimAssumption, when the claim is *)
(* read consistently.  (With stale reads Exclusive is false: TLC shows it.) *)
(***************************************************************************)
EXTENDS EventClaim, TLAPS

\* A handler's own times, at time t.
Timed(q, t) ==
  /\ q.pc \in Running => t <= q.deadline /\ q.deadline <= t + LambdaTimeout
  /\ q.pc \in Running \ {"batched"} =>
       q.startedAt <= t /\ q.deadline <= q.startedAt + LambdaTimeout
Timing == \A m \in Messages : Timed(message[m], now)

\* Whoever works is the one whose claim is in the item.
Holding ==
  \A m \in Messages :
    message[m].pc \in Working =>
      claim.status = "PROCESSING" /\ claim.updatedAt = message[m].startedAt

\* Whoever was refused by the item reads it and updates it; whoever updates it
\* read it before it said PROCESSED, and not long before.
Reading ==
  \A m \in Messages :
    /\ message[m].pc \in {"read", "update"} => claim.status # "NONE"
    /\ message[m].pc = "update" /\ claim.status = "PROCESSED" =>
         message[m].startedAt <= claim.updatedAt + LambdaTimeout

\* The successes, less the faults.
Paid ==
  /\ successes <= faults + 1
  /\ successes = faults + 1 =>
       claim.status = "PROCESSED" \/ \E m \in Messages : At(m, "complete")

\* As long as nothing has succeeded, some message still has to be handled, or
\* the item says PROCESSING, and somebody works as long as nothing failed.
Tracing ==
  successes = 0 =>
    /\ \A m \in Messages : ~At(m, "complete")
    /\ claim.status # "PROCESSED"
    /\ claim.status = "NONE" =>
         \A m \in Messages : message[m].pc \notin {"return", "deleted"}
    /\ claim.status = "FAILED" =>
         \E m \in Messages : message[m].pc \notin {"return", "deleted"}
    /\ claim.status = "PROCESSING" /\ faults = 0 =>
         \E m \in Messages : message[m].pc \in Working

IInv ==
  TypeOK /\ Timing /\ Holding /\ Exclusive /\ Reading /\ Paid /\ Tracing
-----------------------------------------------------------------------------
LEMMA InitIInv == Init => IInv
<1> SUFFICES ASSUME Init PROVE IInv
  OBVIOUS
<1>1. NewMessage \in Message
  BY DEF NewMessage, Message
<1>2. \A m \in Messages : message[m] = NewMessage
  BY DEF Init
<1>3. \A m \in Messages : message[m].pc = "queued"
  BY <1>2 DEF NewMessage
<1>4. TypeOK
  BY <1>1, ClaimAssumption DEF Init, TypeOK, Claim, Status
<1> QED
  BY <1>3, <1>4
  DEF Init, IInv, Timing, Timed, Holding, Exclusive, Reading, Paid, Tracing, At, Working, Running

LEMMA TickStep == IInv /\ Tick => IInv'
<1> SUFFICES ASSUME IInv, Tick PROVE IInv'
  OBVIOUS
<1> USE DEF IInv, TypeOK
<1>1. /\ now \in Nat /\ now' = now + 1 /\ message' = message /\ claim' = claim
      /\ past' = past /\ successes' = successes /\ faults' = faults
  BY DEF Tick, item
<1>2. TypeOK'
  BY <1>1
<1>3. Timing'
  <2> SUFFICES ASSUME NEW m \in Messages PROVE Timed(message[m], now')
    BY <1>1 DEF Timing
  <2>1. message[m].deadline \in Nat /\ message[m].startedAt \in Nat
    BY DEF Message
  <2>2. message[m].pc \in Running => now < message[m].deadline
    BY DEF Tick
  <2> QED  BY <1>1, <2>1, <2>2, ClaimAssumption DEF Timing, Timed
<1>4. (Holding /\ Exclusive /\ Reading /\ Paid /\ Tracing)'
  BY <1>1 DEF Holding, Exclusive, Reading, Paid, Tracing, At
<1> QED  BY <1>2, <1>3, <1>4

-----------------------------------------------------------------------------
(* The steps of one message.  It becomes q; the item is left alone, or is   *)
(* written.  What has to be shown of q is what its action gives it.        *)

\* The message that leaves the work counts as a fault, or stays at work.
LEMMA Moves ==
  ASSUME IInv, NEW m \in Messages, NEW q \in Message,
         message' = [message EXCEPT ![m] = q], UNCHANGED <<now, item, successes>>,
         \/ faults' = faults /\ message[m].pc \notin Working
         \/ Fault,
         Timed(q, now), q.pc \notin Working,
         q.pc \in {"read", "update"} => claim.status # "NONE",
         q.pc = "update" => claim.status # "PROCESSED",
         q.pc \in {"return", "deleted"} =>
           \/ message[m].pc = "return"
           \/ claim.status \in {"PROCESSING", "PROCESSED"}
  PROVE  IInv'
<1> USE DEF IInv
<1>1. /\ message'[m] = q
      /\ \A n \in Messages \ {m} : message'[n] = message[n]
      /\ now' = now /\ claim' = claim /\ past' = past /\ successes' = successes
      /\ faults \in Nat /\ faults' \in {faults, faults + 1} /\ faults' \in 0 .. MaxFaults
      /\ successes \in Nat
  BY ClaimAssumption DEF TypeOK, item, Fault
<1>2. TypeOK'
  BY <1>1 DEF TypeOK
<1>3. Timing'
  BY <1>1 DEF Timing
<1>4. Holding' /\ Exclusive' /\ Reading'
  BY <1>1 DEF Holding, Exclusive, Reading
<1>5. Paid'
  <2>1. CASE Fault
    BY <1>1, <2>1 DEF Paid, Fault
  <2>2. CASE faults' = faults /\ ~At(m, "complete")
    BY <1>1, <2>2 DEF Paid, At
  <2> QED  BY <2>1, <2>2 DEF At, Working
<1>6. Tracing'
  <2> SUFFICES ASSUME successes = 0
      PROVE  /\ \A n \in Messages : ~At(n, "complete")'
             /\ claim.status # "PROCESSED"
             /\ claim.status = "NONE" =>
                  \A n \in Messages : message'[n].pc \notin {"return", "deleted"}
             /\ claim.status = "FAILED" =>
                  \E n \in Messages : message'[n].pc \notin {"return", "deleted"}
             /\ claim.status = "PROCESSING" /\ faults' = 0 =>
                  \E n \in Messages : message'[n].pc \in Working
    BY <1>1 DEF Tracing
  <2>1. \A n \in Messages : ~At(n, "complete")'
    BY <1>1 DEF Tracing, At, Working
  <2>2. claim.status # "PROCESSED"
    BY DEF Tracing
  <2>3. ASSUME claim.status = "NONE"
        PROVE  \A n \in Messages : message'[n].pc \notin {"return", "deleted"}
    BY <1>1, <2>3 DEF Tracing
  <2>4. ASSUME claim.status = "FAILED"
        PROVE  \E n \in Messages : message'[n].pc \notin {"return", "deleted"}
    BY <1>1, <2>4 DEF Tracing
  <2>5. ASSUME claim.status = "PROCESSING", faults' = 0
        PROVE  \E n \in Messages : message'[n].pc \in Working
    <3>1. faults = 0 /\ message[m].pc \notin Working
      BY <1>1, <2>5 DEF Fault
    <3> QED  BY <1>1, <2>5, <3>1 DEF Tracing
  <2> QED  BY <2>1, <2>2, <2>3, <2>4, <2>5
<1> QED  BY <1>2, <1>3, <1>4, <1>5, <1>6

LEMMA ReceiveStep == ASSUME IInv, NEW m \in Messages, Receive(m) PROVE IInv'
<1> DEFINE q == [message[m] EXCEPT !.pc = "batched", !.receives = @ + 1,
                                   !.visibleAt = now + VisibilityTimeout,
                                   !.deadline = now + LambdaTimeout]
<1>1. message[m] \in Message /\ now \in Nat /\ message \in [Messages -> Message]
  BY DEF IInv, TypeOK
<1>2. q \in Message /\ Timed(q, now) /\ q.pc = "batched"
  <2>1. /\ now + VisibilityTimeout \in Nat /\ now + LambdaTimeout \in Nat
        /\ message[m].receives + 1 \in Nat /\ now <= now + LambdaTimeout
    BY <1>1, ClaimAssumption DEF Message
  <2>2. q \in Message
    BY <1>1, <2>1 DEF Message, Running
  <2>3. q.pc = "batched" /\ q.deadline = now + LambdaTimeout
    BY <1>1 DEF Message
  <2> HIDE DEF q
  <2> QED  BY <1>1, <2>1, <2>2, <2>3, ClaimAssumption DEF Timed
<1>3. message' = [message EXCEPT ![m] = q]
  BY <1>1 DEF Receive
<1>4. faults' = faults /\ message[m].pc \notin Working /\ UNCHANGED <<now, item, successes>>
  BY DEF Receive, Visible, At, Working
<1>5. q.pc \notin Working \cup {"read", "update", "return", "deleted"}
  BY <1>2 DEF Working
<1> HIDE DEF q
<1> QED  BY <1>2, <1>3, <1>4, <1>5, Moves

\* A message that only goes to another pc.
LEMMA GoesTo ==
  ASSUME IInv, NEW m \in Messages, NEW pc \in {"queued"} \cup Running \cup Settled,
         Goes(m, pc),
         pc \in Running => message[m].pc \in Running \ {"batched"}
  PROVE  /\ [message[m] EXCEPT !.pc = pc] \in Message
         /\ message' = [message EXCEPT ![m] = [message[m] EXCEPT !.pc = pc]]
         /\ Timed([message[m] EXCEPT !.pc = pc], now)
<1>1. message[m] \in Message /\ message \in [Messages -> Message]
  BY DEF IInv, TypeOK
<1>2. Timed(message[m], now)
  BY DEF IInv, Timing
<1> QED  BY <1>1, <1>2 DEF Goes, Message, Timed

LEMMA QuietStep ==
  ASSUME IInv, NEW m \in Messages, DeadLetter(m) \/ Return(m) \/ Crash(m)
  PROVE  IInv'
<1>1. PICK pc \in {"dlq", "deleted", "queued"} :
        /\ Goes(m, pc)
        /\ pc = "deleted" => At(m, "return")
        /\ UNCHANGED <<now, item, successes>>
        /\ Fault \/ (faults' = faults /\ message[m].pc \notin Working)
  BY DEF DeadLetter, Return, Crash, Visible, At, Working
<1>2. /\ [message[m] EXCEPT !.pc = pc] \in Message
      /\ message' = [message EXCEPT ![m] = [message[m] EXCEPT !.pc = pc]]
      /\ Timed([message[m] EXCEPT !.pc = pc], now)
  BY <1>1, GoesTo DEF Settled, Running, Working
<1>3. [message[m] EXCEPT !.pc = pc].pc = pc
  BY DEF IInv, TypeOK, Message
<1> DEFINE q == [message[m] EXCEPT !.pc = pc]
<1>4. /\ q.pc \notin Working \cup {"read", "update", "return"}
      /\ q.pc = "deleted" => message[m].pc = "return"
  BY <1>1, <1>3 DEF At, Working
<1> HIDE DEF q
<1>5. q \in Message /\ message' = [message EXCEPT ![m] = q] /\ Timed(q, now)
  BY <1>2 DEF q
<1> QED  BY <1>1, <1>4, <1>5, Moves

LEMMA StartStep == ASSUME IInv, NEW m \in Messages, Start(m) PROVE IInv'
<1> DEFINE q == [message[m] EXCEPT !.pc = "put", !.startedAt = now]
<1>1. message[m] \in Message /\ now \in Nat /\ message \in [Messages -> Message]
  BY DEF IInv, TypeOK
<1>2. q \in Message /\ q.pc = "put" /\ message' = [message EXCEPT ![m] = q]
  BY <1>1 DEF Message, Running, Start
<1>3. Timed(q, now)
  BY <1>1 DEF Start, At, IInv, Timing, Timed, Running, Message
<1>4. faults' = faults /\ message[m].pc \notin Working /\ UNCHANGED <<now, item, successes>>
  BY DEF Start, At, Working
<1>5. q.pc \notin Working \cup {"read", "update", "return", "deleted"}
  BY <1>2 DEF Working
<1> HIDE DEF q
<1> QED  BY <1>2, <1>3, <1>4, <1>5, Moves

\* The reads, and the requests that are refused.
LEMMA ReadStep ==
  ASSUME ~StaleReads, IInv, NEW m \in Messages, Read(m)
  PROVE  IInv'
<1>1. /\ At(m, "read") /\ claim.status # "NONE" /\ claim.status \in Status
      /\ Goes(m, AfterRead(claim.status)) /\ UNCHANGED <<now, item, successes, faults>>
  BY DEF Read, readEventState, IInv, Reading, TypeOK, Claim, At
<1>2. /\ AfterRead(claim.status) \in {"return", "update"}
      /\ AfterRead(claim.status) = "return" => claim.status = "PROCESSED"
      /\ AfterRead(claim.status) = "update" => claim.status # "PROCESSED"
  BY <1>1 DEF AfterRead, Status
<1> DEFINE pc == AfterRead(claim.status)
<1>3. /\ [message[m] EXCEPT !.pc = pc] \in Message
      /\ message' = [message EXCEPT ![m] = [message[m] EXCEPT !.pc = pc]]
      /\ Timed([message[m] EXCEPT !.pc = pc], now)
  BY <1>1, <1>2, GoesTo DEF Running, At
<1>4. [message[m] EXCEPT !.pc = pc].pc = pc
  BY DEF IInv, TypeOK, Message
<1> QED  BY <1>1, <1>2, <1>3, <1>4, Moves DEF At, Working

\* A claim that is granted: m is alone, and goes to work.
LEMMA Grants ==
  ASSUME IInv, NEW m \in Messages, NEW pc \in {"work", "read", "return"},
         message[m].pc \in {"put", "update"}, Goes(m, pc), Writes(Claimed(m)),
         UNCHANGED <<now, successes>>,
         (pc = "work" /\ UNCHANGED faults) \/ Fault,
         claim.status # "PROCESSED",
         \A n \in Messages : message[n].pc \notin Working
  PROVE  IInv'
<1> USE DEF IInv
<1> DEFINE q == [message[m] EXCEPT !.pc = pc]
<1>1. q \in Message /\ message' = [message EXCEPT ![m] = q] /\ Timed(q, now)
  BY GoesTo DEF Running, Working
<1>2. q.pc = pc /\ q.startedAt = message[m].startedAt /\ q.startedAt \in Nat
  BY DEF TypeOK, Message
<1> HIDE DEF q
<1>3. /\ message'[m] = q
      /\ \A n \in Messages \ {m} : message'[n] = message[n]
      /\ now' = now /\ successes' = successes /\ successes \in Nat
      /\ claim' = [status |-> "PROCESSING", updatedAt |-> q.startedAt]
      /\ claim.status \in Status /\ past' = past \cup {claim.status}
  BY <1>1, <1>2 DEF TypeOK, Claim, Writes, Claimed
<1>4. faults \in Nat /\ faults' \in 0 .. MaxFaults /\ (faults' = faults \/ faults' = faults + 1)
  BY ClaimAssumption DEF TypeOK, Fault
<1>5. TypeOK'
  BY <1>1, <1>2, <1>3, <1>4 DEF TypeOK, Claim, Status
<1>6. Timing'
  BY <1>1, <1>3 DEF Timing
<1>7. Holding' /\ Exclusive' /\ Reading'
  BY <1>2, <1>3 DEF Holding, Exclusive, Reading
<1>8. Paid'
  <2>1. successes <= faults
    BY <1>3, <1>4 DEF Paid, At, Working
  <2> QED  BY <1>3, <1>4, <2>1 DEF Paid
<1>9. Tracing'
  <2>1. \A n \in Messages : message'[n].pc # "complete"
    BY <1>2, <1>3 DEF Working
  <2>2. faults' = 0 => message'[m].pc \in Working
    BY <1>2, <1>3, <1>4 DEF Working, Fault
  <2> QED  BY <1>3, <2>1, <2>2 DEF Tracing, At
<1> QED  BY <1>5, <1>6, <1>7, <1>8, <1>9

LEMMA PutStep == ASSUME IInv, NEW m \in Messages, Put(m) PROVE IInv'
<1>1. CASE claim.status # "NONE" /\ Goes(m, "read") /\ UNCHANGED <<item, faults>>
  <2> DEFINE q == [message[m] EXCEPT !.pc = "read"]
  <2>1. message[m].pc = "put" /\ UNCHANGED <<now, item, successes, faults>>
    BY <1>1 DEF Put, At
  <2>2. q \in Message /\ message' = [message EXCEPT ![m] = q] /\ Timed(q, now)
    BY <1>1, <2>1, GoesTo DEF Running
  <2>3. q.pc = "read"
    BY DEF IInv, TypeOK, Message
  <2> HIDE DEF q
  <2> QED  BY <1>1, <2>1, <2>2, <2>3, Moves DEF Working
<1>2. CASE claim.status = "NONE" /\ Writes(Claimed(m)) /\ Granted(m, "read")
  <2>1. PICK pc \in {"work", "read"} :
          Goes(m, pc) /\ ((pc = "work" /\ UNCHANGED faults) \/ Fault)
    BY <1>2 DEF Granted
  <2>2. \A n \in Messages : message[n].pc \notin Working
    BY <1>2 DEF IInv, Holding
  <2>3. message[m].pc = "put" /\ UNCHANGED <<now, successes>>
    BY DEF Put, At
  <2> QED  BY <1>2, <2>1, <2>2, <2>3, Grants
<1> QED  BY <1>1, <1>2 DEF Put

\* Nobody is taken over from while it may still be running, and no claim that
\* was completed while its reader looked at it is taken over.
LEMMA TakeOver ==
  ASSUME IInv, NEW m \in Messages, At(m, "update"),
         NEW t \in ClockReadings(m), MayTakeOver(t)
  PROVE  /\ claim.status # "PROCESSED"
         /\ \A n \in Messages : message[n].pc \notin Working
<1> USE DEF IInv
<1>1. /\ message[m] \in Message /\ now \in Nat /\ t \in Nat /\ t <= now
      /\ claim.updatedAt \in Nat
  BY DEF TypeOK, Message, ClockReadings, Claim
<1>2. message[m].deadline \in Nat /\ message[m].startedAt \in Nat
  BY <1>1 DEF Message
<1>3. now <= message[m].deadline /\ message[m].deadline <= message[m].startedAt + LambdaTimeout
  BY DEF Timing, Timed, At, Running
<1>4. claim.status # "PROCESSED"
  <2> SUFFICES ASSUME claim.status = "PROCESSED" PROVE FALSE
    OBVIOUS
  <2>1. claim.updatedAt <= t - ProcessingTimeout
    BY DEF MayTakeOver
  <2>2. message[m].startedAt <= claim.updatedAt + LambdaTimeout
    BY DEF Reading, At
  <2> QED  BY <1>1, <1>2, <1>3, <2>1, <2>2, ClaimAssumption
<1>5. ASSUME NEW n \in Messages, message[n].pc \in Working PROVE FALSE
  <2>1. claim.status = "PROCESSING" /\ claim.updatedAt = message[n].startedAt
    BY <1>5 DEF Holding
  <2>2. message[n].startedAt <= t - ProcessingTimeout
    BY <2>1 DEF MayTakeOver
  <2>3. message[n].deadline \in Nat /\ message[n].startedAt \in Nat
    BY DEF TypeOK, Message
  <2>4. now <= message[n].deadline /\ message[n].deadline <= message[n].startedAt + LambdaTimeout
    BY <1>5 DEF Timing, Timed, Running, Working
  <2> QED  BY <1>1, <2>2, <2>3, <2>4, ClaimAssumption
<1> QED  BY <1>4, <1>5

LEMMA UpdateStep == ASSUME IInv, NEW m \in Messages, Update(m) PROVE IInv'
<1>1. PICK t \in ClockReadings(m) :
        \/ ~MayTakeOver(t) /\ Goes(m, "return") /\ UNCHANGED <<item, faults>>
        \/ MayTakeOver(t) /\ Writes(Claimed(m)) /\ Granted(m, "return")
  BY DEF Update
<1>2. At(m, "update") /\ UNCHANGED <<now, successes>>
  BY DEF Update
<1>3. CASE ~MayTakeOver(t) /\ Goes(m, "return") /\ UNCHANGED <<item, faults>>
  <2> DEFINE q == [message[m] EXCEPT !.pc = "return"]
  <2>1. q \in Message /\ message' = [message EXCEPT ![m] = q] /\ Timed(q, now)
    BY <1>2, <1>3, GoesTo DEF Running, At
  <2>2. q.pc = "return"
    BY DEF IInv, TypeOK, Message
  <2>3. claim.status \in {"PROCESSING", "PROCESSED"}
    BY <1>2, <1>3 DEF MayTakeOver, IInv, TypeOK, Claim, Status, Reading, At
  <2> HIDE DEF q
  <2> QED  BY <1>2, <1>3, <2>1, <2>2, <2>3, Moves DEF At, Working
<1>4. CASE MayTakeOver(t) /\ Writes(Claimed(m)) /\ Granted(m, "return")
  <2>1. PICK pc \in {"work", "return"} :
          Goes(m, pc) /\ ((pc = "work" /\ UNCHANGED faults) \/ Fault)
    BY <1>4 DEF Granted
  <2>2. claim.status # "PROCESSED" /\ \A n \in Messages : message[n].pc \notin Working
    BY <1>2, <1>4, TakeOver
  <2> QED  BY <1>2, <1>4, <2>1, <2>2, Grants DEF At
<1> QED  BY <1>1, <1>3, <1>4

\* Who works is alone, and nothing else is between its claim and its end.
LEMMA Alone ==
  ASSUME IInv, NEW m \in Messages, message[m].pc \in Working
  PROVE  /\ claim.status = "PROCESSING"
         /\ \A n \in Messages \ {m} : message[n].pc \notin Working
         /\ message[m].pc # "complete" => successes <= faults
BY ClaimAssumption DEF IInv, TypeOK, Holding, Exclusive, Paid, At, Working

LEMMA WorkStep == ASSUME IInv, NEW m \in Messages, Work(m) PROVE IInv'
<1> USE DEF IInv
<1>1. PICK pc \in {"complete", "fail"} :
        /\ Goes(m, pc)
        /\ pc = "complete" => successes' = successes + 1
        /\ pc = "fail" => successes' = successes
  BY DEF Work
<1> DEFINE q == [message[m] EXCEPT !.pc = pc]
<1>2. q \in Message /\ message' = [message EXCEPT ![m] = q] /\ Timed(q, now)
  BY <1>1, GoesTo DEF Running, Working, Work, At
<1>3. q.pc = pc /\ q.startedAt = message[m].startedAt
  BY DEF TypeOK, Message
<1> HIDE DEF q
<1>4. /\ message'[m] = q
      /\ \A n \in Messages \ {m} : message'[n] = message[n]
      /\ now' = now /\ claim' = claim /\ past' = past /\ faults' = faults
      /\ successes \in Nat /\ successes' \in Nat /\ faults \in Nat
  BY <1>1, <1>2, ClaimAssumption DEF TypeOK, Work, item
<1>5. message[m].pc = "work"
  BY DEF Work, At
<1>6. /\ claim.status = "PROCESSING" /\ successes <= faults
      /\ \A n \in Messages \ {m} : message[n].pc \notin Working
  BY <1>5, Alone DEF Working
<1>7. TypeOK'
  BY <1>2, <1>4 DEF TypeOK
<1>8. Timing'
  BY <1>2, <1>4 DEF Timing
<1>9. Holding' /\ Exclusive' /\ Reading'
  BY <1>3, <1>4, <1>5, <1>6 DEF Holding, Exclusive, Reading, Working
<1>10. Paid'
  BY <1>1, <1>3, <1>4, <1>6 DEF Paid, At
<1>11. Tracing'
  <2>1. CASE pc = "complete"
    BY <1>1, <1>4, <2>1 DEF Tracing
  <2>2. CASE pc = "fail"
    <3>1. \A n \in Messages : message'[n].pc # "complete"
      BY <1>3, <1>4, <1>6, <2>2 DEF Working
    <3> QED  BY <1>3, <1>4, <1>6, <2>2, <3>1 DEF Tracing, At, Working
  <2> QED  BY <2>1, <2>2
<1> QED  BY <1>7, <1>8, <1>9, <1>10, <1>11

\* How the work ended is written while its claim still stands; or it is not,
\* which is a fault.
LEMMA EndStep ==
  ASSUME IInv, NEW m \in Messages, Complete(m) \/ Fail(m)
  PROVE  IInv'
<1> USE DEF IInv
<1>1. PICK pc \in {"return", "queued"} :
        /\ Goes(m, pc)
        /\ message[m].pc = IF pc = "return" THEN "complete" ELSE "fail"
  BY DEF Complete, Fail, Rethrows, At
<1>2. UNCHANGED <<now, successes>> /\ (faults' = faults \/ Fault)
  BY DEF Complete, Fail
<1>3. \/ UNCHANGED item /\ Fault
      \/ Ends(m, IF pc = "return" THEN "PROCESSED" ELSE "FAILED")
  BY <1>1 DEF Complete, Fail, At
<1> DEFINE q == [message[m] EXCEPT !.pc = pc]
<1>4. q \in Message /\ message' = [message EXCEPT ![m] = q] /\ Timed(q, now)
  BY <1>1, GoesTo DEF Running, Working
<1>5. q.pc = pc /\ message[m].pc \in Working
  BY <1>1 DEF TypeOK, Message, Working
<1> HIDE DEF q
<1>6. /\ claim.status = "PROCESSING"
      /\ \A n \in Messages \ {m} : message[n].pc \notin Working
      /\ message[m].pc # "complete" => successes <= faults
  BY <1>5, Alone
<1>7. CASE UNCHANGED item /\ Fault
  BY <1>1, <1>2, <1>4, <1>5, <1>6, <1>7, Moves DEF Working
<1>8. CASE Ends(m, IF pc = "return" THEN "PROCESSED" ELSE "FAILED")
  <2>1. PICK t \in ClockReadings(m) :
          Writes([status |-> IF pc = "return" THEN "PROCESSED" ELSE "FAILED", updatedAt |-> t])
    BY <1>8 DEF Ends
  <2>2. t \in Nat /\ t >= message[m].startedAt /\ now \in Nat /\ message[m].startedAt \in Nat
        /\ message[m].deadline \in Nat
    BY DEF ClockReadings, TypeOK, Message
  <2>3. /\ message'[m] = q /\ q.pc = pc
        /\ \A n \in Messages \ {m} : message'[n] = message[n]
        /\ now' = now /\ successes' = successes /\ successes \in Nat
        /\ claim'.updatedAt = t /\ claim' \in Claim
        /\ claim'.status = IF pc = "return" THEN "PROCESSED" ELSE "FAILED"
        /\ claim.status \in Status /\ past' = past \cup {claim.status}
    BY <1>2, <1>4, <1>5, <2>1, <2>2 DEF TypeOK, Claim, Status, Writes
  <2>4. faults \in Nat /\ faults' \in 0 .. MaxFaults /\ (faults' = faults \/ faults' = faults + 1)
    BY <1>2, ClaimAssumption DEF TypeOK, Fault
  <2>5. TypeOK'
    BY <1>4, <2>3, <2>4 DEF TypeOK
  <2>6. Timing'
    BY <1>4, <2>3 DEF Timing
  <2>7. Holding' /\ Exclusive'
    BY <1>6, <2>3 DEF Holding, Exclusive, Working
  <2>8. Reading'
    <3>1. now <= t + LambdaTimeout
      BY <1>5, <2>2, ClaimAssumption DEF Timing, Timed, Running, Working
    <3>2. ASSUME NEW n \in Messages, message'[n].pc = "update"
          PROVE  message'[n].startedAt <= claim'.updatedAt + LambdaTimeout
      <4>1. n # m /\ message[n] = message'[n]
        BY <2>3, <3>2
      <4>2. message[n].startedAt <= now /\ message[n].startedAt \in Nat
        BY <3>2, <4>1 DEF Timing, Timed, Running, TypeOK, Message
      <4> QED  BY <2>2, <2>3, <3>1, <4>1, <4>2, ClaimAssumption
    <3> QED  BY <2>3, <3>2 DEF Reading
  <2>9. Paid'
    <3>1. successes <= faults' + 1
      BY <2>3, <2>4 DEF Paid
    <3>2. CASE pc = "return"
      BY <2>3, <3>1, <3>2 DEF Paid
    <3>3. CASE pc = "queued"
      <4>1. successes <= faults
        BY <1>1, <1>6, <3>3
      <4>2. successes' \in Nat /\ faults' \in Nat /\ successes' <= faults'
        BY <2>3, <2>4, <4>1
      <4>3. \A x, y \in Nat : x <= y => x # y + 1
        OBVIOUS
      <4>4. successes' # faults' + 1
        BY <4>2, <4>3
      <4> QED  BY <2>3, <3>1, <4>4 DEF Paid
    <3> QED  BY <3>2, <3>3
  <2>10. Tracing'
    <3> SUFFICES ASSUME successes = 0 PROVE Tracing'
      BY <2>3 DEF Tracing
    <3>1. pc = "queued"
      BY <1>1 DEF Tracing, At
    <3>2. \A n \in Messages : message'[n].pc # "complete"
      BY <1>6, <2>3, <3>1 DEF Working
    <3> QED  BY <2>3, <3>1, <3>2 DEF Tracing, At
  <2> QED  BY <2>5, <2>6, <2>7, <2>8, <2>9, <2>10
<1> QED  BY <1>3, <1>7, <1>8

-----------------------------------------------------------------------------
\* When the claim is read consistently, the invariant is inductive.
THEOREM Invariance == ASSUME ~StaleReads PROVE Spec => []IInv
<1>1. IInv /\ [Next]_vars => IInv'
  <2> SUFFICES ASSUME IInv, [Next]_vars PROVE IInv'
    OBVIOUS
  <2>1. CASE UNCHANGED vars
    BY <2>1 DEF vars, item, IInv, TypeOK, Timing, Holding, Exclusive, Reading, Paid, Tracing, At
  <2>2. ASSUME NEW m \in Messages,
               \/ Receive(m) \/ DeadLetter(m) \/ Return(m) \/ Crash(m)
               \/ Start(m) \/ Put(m) \/ Read(m) \/ Update(m)
               \/ Work(m) \/ Complete(m) \/ Fail(m)
        PROVE  IInv'
    BY <2>2, ReceiveStep, QuietStep, StartStep, PutStep, ReadStep, UpdateStep, WorkStep, EndStep
  <2> QED  BY <2>1, <2>2, TickStep DEF Next, Stopped
<1> QED  BY <1>1, InitIInv, PTL DEF Spec

\* At most one handler works on an event, however many messages carry it, for
\* any timeouts of which the claim's is more than twice the invocation's.
THEOREM ExclusiveHolds == ASSUME ~StaleReads PROVE Spec => []Exclusive
<1>1. IInv => Exclusive
  BY DEF IInv
<1> QED  BY <1>1, Invariance, PTL

\* No step takes a processed event back.
THEOREM ProcessedHolds == ASSUME ~StaleReads PROVE Spec => ProcessedIsFinal
<1>1. IInv /\ [Next]_vars => [claim.status = "PROCESSED" => claim'.status = "PROCESSED"]_claim
  <2> SUFFICES ASSUME IInv, Next, claim.status = "PROCESSED", claim' # claim
      PROVE  claim'.status = "PROCESSED"
    BY DEF vars
  <2>1. PICK m \in Messages : Put(m) \/ Update(m) \/ Complete(m) \/ Fail(m)
    BY DEF Next, Tick, Stopped, vars, item, Receive, DeadLetter, Return, Crash, Start, Read, Work
  <2>2. ~(Complete(m) \/ Fail(m))
    BY Alone DEF Complete, Fail, At, Working
  <2>3. ~Put(m)
    BY DEF Put, item
  <2>4. ~Update(m)
    BY TakeOver DEF Update, item
  <2> QED  BY <2>1, <2>2, <2>3, <2>4
<1> QED  BY <1>1, Invariance, PTL DEF Spec, ProcessedIsFinal

\* The work is repeated to its end only after a fault.
THEOREM SuccessesHold == ASSUME ~StaleReads PROVE Spec => []SuccessesArePaidFor
<1>1. IInv => SuccessesArePaidFor
  BY ClaimAssumption DEF IInv, Paid, SuccessesArePaidFor, TypeOK
<1> QED  BY <1>1, Invariance, PTL

\* Once no message is left: processed, dead-lettered, or PROCESSING and a fault.
THEOREM LossHolds == ASSUME ~StaleReads PROVE Spec => []LossLeavesATrace
<1>1. IInv => LossLeavesATrace
  <2> SUFFICES ASSUME IInv, Settle, successes = 0, \A m \in Messages : ~At(m, "dlq")
      PROVE  claim.status = "PROCESSING" /\ faults > 0
    BY DEF LossLeavesATrace, IInv, TypeOK
  <2>1. \A m \in Messages : message[m].pc = "deleted"
    BY DEF Settle, Settled, At
  <2>2. claim.status = "PROCESSING"
    BY <2>1, ClaimAssumption DEF IInv, Tracing, TypeOK, Claim, Status
  <2>3. faults # 0 /\ faults \in Nat
    BY <2>1, <2>2, ClaimAssumption DEF IInv, Tracing, TypeOK, Working
  <2> QED  BY <2>2, <2>3
<1> QED  BY <1>1, Invariance, PTL
=============================================================================
