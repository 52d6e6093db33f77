------------------------- MODULE EventCounting_proofs -------------------------
(***************************************************************************)
(* What the counts guarantee with any number of calls and events, when     *)
(* reads are consistent: for the windows and their firsts with any number  *)
(* of faults, for the counts without any, and for the severities with the  *)
(* faults that SeverityIsEarned allows; and what the rules make of a count *)
(* whatever rules there are.                                               *)
(***************************************************************************)
EXTENDS EventCounting, FiniteSetTheorems, SequenceTheorems, WellFoundedInduction, TLAPS

Items == [windowStart : Nat \ {0}, count : Nat \ {0}]

\* A call has read what the item was, and an item that was there still is.
Reads ==
  \A c \in Calls :
    /\ call[c].existing \in {Absent} \cup Items
    /\ call[c].retry \in {Absent} \cup Items
    /\ item = Absent => call[c].existing = Absent /\ call[c].retry = Absent
    /\ At(c, "bump") => call[c].retry # Absent
    /\ At(c, "open") => isStale(call[c], call[c].existing)

\* A call runs for at most CallTimeout.
Timing ==
  /\ now > 0
  /\ \A c \in Calls :
       /\ call[c].at <= now
       /\ call[c].pc \in Running => call[c].at > 0 /\ now <= call[c].at + CallTimeout

\* Who found no item after two refusals is as old as the window there is now.
Near ==
  \A c \in Calls : At(c, "overwrite") /\ call[c].retry = Absent /\ item # Absent =>
    item.windowStart - call[c].at \in (0 - CallTimeout) .. CallTimeout

\* Of two attempts for an event one has failed, or has not begun.
OneAtATime ==
  \A c, d \in Calls : c # d /\ eventOf[c] = eventOf[d] =>
    At(c, "new") \/ Failed(c) \/ At(d, "new") \/ Failed(d)

\* What fails after the counting has counted.
Later == \A c \in failed : At(c, "returned")

Basic == TypeOK /\ Reads /\ Timing /\ Near /\ OneAtATime /\ Later

-----------------------------------------------------------------------------
\* What follows is about a call that is k, when the item is it and the calls all.

Counters(all, w) == {d \in Calls : all[d].wrote = w}

\* The counts of an item that was read are of calls that counted themselves.
Room(read, all) == read.count <= Cardinality(Counters(all, read.windowStart))

\* The window of the item was opened while the call ran.
Recent(k, it) == it # Absent /\ it.windowStart >= k.at - CallTimeout

\* After a refusal the item has another window, which outlives the call, and that
\* is the one the call reads and counts in.
Careful(k, it, all) ==
  /\ k.pc \in {"new"} \cup Running => k.wrote = 0
  /\ k.pc = "returned" => k.windowStart # 0
  /\ k.pc \in {"open", "count"} =>
       it.windowStart = k.existing.windowStart \/ Recent(k, it)
  /\ k.pc \in {"reread", "bump", "again", "overwrite"} => Recent(k, it)
  /\ k.pc \in {"bump", "overwrite"} =>
       k.retry # Absent /\ k.retry.windowStart = it.windowStart /\ Room(k.retry, all)
  /\ k.pc \in {"count", "again", "overwrite"} =>
       k.existing # Absent /\ Room(k.existing, all)

Faultless ==
  faults = 0 =>
    /\ \A c \in Calls : Careful(call[c], item, call)
    /\ item # Absent => Room(item, call)
    /\ SomebodyIsFirst /\ SuppressedForAReason

-----------------------------------------------------------------------------
(* One call of updateDedupState takes a step, and becomes q. *)

CallStep(c, q) ==
  /\ call[c].pc \in Running
  /\ q \in Call
  /\ call' = [call EXCEPT ![c] = q]
  /\ UNCHANGED now
  /\ faults' \in 0 .. MaxFaults /\ faults' >= faults
  /\ q.at = call[c].at
  /\ q.pc \in Running \cup Ended
  /\ q.existing \in {Absent} \cup Items
  /\ q.retry \in {Absent} \cup Items
  /\ item = Absent => q.existing = Absent /\ q.retry = Absent
  /\ q.pc = "bump" => q.retry # Absent
  /\ q.pc = "open" => isStale(q, q.existing)
  /\ q.pc = "overwrite" /\ q.retry = Absent => item = Absent /\ item' = item
  /\ \/ item' = item /\ past' = past
     \/ item' \in Items /\ past' = past \cup {item}
  /\ item'.windowStart # item.windowStart =>
       /\ item'.windowStart = call[c].at
       /\ \/ item = Absent
          \/ item'.windowStart - item.windowStart > Window
          \/ At(c, "overwrite") /\ call[c].retry = Absent

LEMMA ReadTypes == Items \subseteq Item /\ Absent \in Item /\ Absent \notin Items
  BY DEF Items, Item, Absent

LEMMA CallFacts ==
  ASSUME Basic, NEW c \in Calls
  PROVE  /\ call[c] \in Call
         /\ call[c].at \in Nat /\ now \in Nat
         /\ item \in {Absent} \cup Items
         /\ item \in Item
         /\ faults \in 0 .. MaxFaults /\ MaxFaults \in Nat
         /\ past \subseteq Item
         /\ call \in [Calls -> Call]
  BY ReadTypes, WindowAssumption DEF Basic, TypeOK, Items, Call

LEMMA ReadStep ==
  ASSUME ~StaleReads, Basic, NEW c \in Calls, Read(c)
  PROVE  \E q : CallStep(c, q)
<1> DEFINE q == [call[c] EXCEPT !.existing = item,
                   !.pc = IF isStale(call[c], item) THEN "open" ELSE "count"]
<1>1. call' = [call EXCEPT ![c] = q] /\ UNCHANGED <<now, item, past, faults>>
  BY DEF Read, readState, Becomes
<1>2. /\ q \in Call /\ q.at = call[c].at /\ q.existing = item /\ q.retry = call[c].retry
      /\ q.pc \in {"open", "count"} /\ (q.pc = "open" => isStale(call[c], item))
  BY CallFacts DEF Call, Running
<1> HIDE DEF q
<1>3. /\ call[c].pc \in Running
      /\ call[c].retry \in {Absent} \cup Items
      /\ item = Absent => call[c].retry = Absent
  BY DEF Read, At, Running, Basic, Reads
<1>4. q.pc = "open" => isStale(q, q.existing)
  BY <1>2 DEF isStale
<1>5. CallStep(c, q)
  BY <1>1, <1>2, <1>3, <1>4, CallFacts DEF CallStep, Running
<1> QED  BY <1>5

LEMMA ThrowsStep ==
  ASSUME Basic, NEW c \in Calls, Throws(c)
  PROVE  \E q : CallStep(c, q)
<1> DEFINE q == [call[c] EXCEPT !.pc = "threw"]
<1>1. /\ call' = [call EXCEPT ![c] = q] /\ UNCHANGED <<now, item, past>>
      /\ faults < MaxFaults /\ faults' = faults + 1
  BY DEF Throws, Becomes, Fault
<1>2. /\ q \in Call /\ q.at = call[c].at /\ q.existing = call[c].existing
      /\ q.retry = call[c].retry /\ q.pc = "threw"
  BY CallFacts DEF Call, Ended
<1> HIDE DEF q
<1>3. call[c].pc \in Running
  BY DEF Throws
<1>4. CallStep(c, q)
  BY <1>1, <1>2, <1>3, CallFacts DEF CallStep, Ended, Basic, Reads
<1> QED  BY <1>4

\* A write of the item, in the window it has or in one of the call's.
LEMMA WriteFacts ==
  ASSUME NEW windowStart \in Nat \ {0}, NEW count \in Nat \ {0}, Writes(windowStart, count)
  PROVE  /\ item' \in Items /\ past' = past \cup {item}
         /\ item'.windowStart = windowStart /\ item'.count = count
  BY DEF Writes, Items

LEMMA FaultFacts ==
  ASSUME Basic, UNCHANGED faults \/ Fault
  PROVE  faults' \in 0 .. MaxFaults /\ faults' >= faults /\ (Fault => faults' > 0)
  BY WindowAssumption DEF Basic, TypeOK, Fault

\* A call that has read nothing more, wherever it goes.
Same(k, q) == q \in Call /\ q.at = k.at /\ q.existing = k.existing /\ q.retry = k.retry

LEMMA ReturnsSame ==
  ASSUME NEW k \in Call, NEW count \in Nat, NEW windowStart \in Nat, NEW wrote \in Nat,
         NEW q, q = Wrote(Returns(k, count, windowStart), wrote)
  PROVE  /\ Same(k, q) /\ q.pc = "returned" /\ q.count = count
         /\ q.windowStart = windowStart /\ q.wrote = wrote
  BY DEF Wrote, Returns, Call, Same, Ended

LEMMA GoesSame ==
  ASSUME NEW k \in Call, NEW pc \in Running \cup Ended, NEW q, q = [k EXCEPT !.pc = pc]
  PROVE  Same(k, q) /\ q.pc = pc /\ q.wrote = k.wrote
  BY DEF Call, Same

LEMMA WroteSame ==
  ASSUME NEW k \in Call, NEW pc \in Running \cup Ended, NEW wrote \in Nat,
         NEW q, q = Wrote([k EXCEPT !.pc = pc], wrote)
  PROVE  Same(k, q) /\ q.pc = pc /\ q.wrote = wrote
  BY DEF Wrote, Call, Same

LEMMA SameFacts ==
  ASSUME Basic, NEW c \in Calls, NEW q, Same(call[c], q)
  PROVE  /\ q \in Call /\ q.at = call[c].at
         /\ q.existing = call[c].existing /\ q.retry = call[c].retry
         /\ q.existing \in {Absent} \cup Items /\ q.retry \in {Absent} \cup Items
         /\ item = Absent => q.existing = Absent /\ q.retry = Absent
  BY DEF Same, Basic, Reads

\* A call that goes on without a write.
LEMMA GoesOn ==
  ASSUME Basic, NEW c \in Calls, call[c].pc \in Running,
         NEW pc \in {"reread", "again"},
         Becomes(c, [call[c] EXCEPT !.pc = pc]),
         UNCHANGED <<now, item, past>>, UNCHANGED faults \/ Fault
  PROVE  \E q : CallStep(c, q)
<1> DEFINE q == [call[c] EXCEPT !.pc = pc]
<1>1. Same(call[c], q) /\ q.pc = pc
  <2>1. call[c] \in Call /\ call[c].wrote \in Nat /\ pc \in Running \cup Ended
    BY CallFacts DEF Running, Call
  <2> QED  BY <2>1, GoesSame
<1>2. call' = [call EXCEPT ![c] = q]
  BY DEF Becomes
<1> HIDE DEF q
<1>3. CallStep(c, q)
  BY <1>1, <1>2, SameFacts, FaultFacts DEF CallStep, Running
<1> QED  BY <1>3

LEMMA OpenStep ==
  ASSUME Basic, NEW c \in Calls, Open(c)
  PROVE  \E q : CallStep(c, q)
<1>1. /\ call[c] \in Call /\ At(c, "open") /\ call[c].pc \in Running /\ now' = now
      /\ call[c].at \in Nat \ {0}
  BY CallFacts DEF Open, At, Running, Basic, Timing
<1>2. isStale(call[c], call[c].existing) /\ call[c].existing \in {Absent} \cup Items
  BY <1>1 DEF Basic, Reads
<1>3. CASE /\ MayOpen(call[c].existing.windowStart)
           /\ Writes(call[c].at, 1)
           /\ \/ /\ Becomes(c, Wrote(Returns(call[c], 1, call[c].at), call[c].at))
                 /\ UNCHANGED faults
              \/ /\ Becomes(c, Wrote([call[c] EXCEPT !.pc = "reread"], call[c].at))
                 /\ Fault
  <2>1. PICK q : /\ call' = [call EXCEPT ![c] = q] /\ Same(call[c], q)
                 /\ q.pc \in {"returned", "reread"}
    <3>1. CASE Becomes(c, Wrote(Returns(call[c], 1, call[c].at), call[c].at))
      <4> DEFINE q == Wrote(Returns(call[c], 1, call[c].at), call[c].at)
      <4>1. Same(call[c], q) /\ q.pc = "returned"
        BY <1>1, ReturnsSame
      <4> QED  BY <3>1, <4>1 DEF Becomes
    <3>2. CASE Becomes(c, Wrote([call[c] EXCEPT !.pc = "reread"], call[c].at))
      <4> DEFINE q == Wrote([call[c] EXCEPT !.pc = "reread"], call[c].at)
      <4>1. "reread" \in Running \cup Ended
        BY DEF Running
      <4>2. Same(call[c], q) /\ q.pc = "reread"
        BY <1>1, <4>1, WroteSame
      <4> QED  BY <3>2, <4>2 DEF Becomes
    <3> QED  BY <1>3, <3>1, <3>2
  <2>2. /\ item' \in Items /\ past' = past \cup {item}
        /\ item'.windowStart = call[c].at
    BY <1>1, <1>3, WriteFacts
  <2>3. item = Absent \/ call[c].at - item.windowStart > Window
    <3>1. CASE item.windowStart = call[c].existing.windowStart /\ item # Absent
      <4>1. item.windowStart # 0
        BY <3>1, CallFacts DEF Items
      <4> QED  BY <1>2, <3>1, <4>1 DEF isStale
    <3> QED  BY <1>3, <3>1 DEF MayOpen
  <2>4. CallStep(c, q)
    BY <1>1, <1>3, <2>1, <2>2, <2>3, SameFacts, FaultFacts DEF CallStep, Running, Ended
  <2> QED  BY <2>4
<1>4. CASE /\ Becomes(c, [call[c] EXCEPT !.pc = "reread"])
           /\ UNCHANGED <<item, past>>
           /\ UNCHANGED faults \/ Fault
  BY <1>1, <1>4, GoesOn
<1> QED  BY <1>3, <1>4 DEF Open, firstCount

LEMMA RereadStep ==
  ASSUME ~StaleReads, Basic, NEW c \in Calls, Reread(c) \/ Again(c)
  PROVE  \E q : CallStep(c, q)
<1>1. /\ call[c] \in Call /\ call[c].pc \in {"reread", "again"} /\ call[c].pc \in Running
      /\ UNCHANGED <<now, item, past, faults>>
      /\ call[c].existing \in {Absent} \cup Items
      /\ item = Absent => call[c].existing = Absent
  BY CallFacts DEF Reread, Again, At, Running, Basic, Reads
<1>2. PICK pc \in {"count", "bump", "overwrite"} :
        /\ call' = [call EXCEPT ![c] = [call[c] EXCEPT !.retry = item, !.pc = pc]]
        /\ pc = "bump" => item # Absent
  <2>1. CASE Reread(c)
    <3>1. call' = [call EXCEPT ![c] = [call[c] EXCEPT !.retry = item, !.pc = AfterReread(item)]]
      BY <2>1 DEF Reread, readState, Becomes
    <3> QED  BY <3>1 DEF AfterReread
  <2>2. CASE Again(c)
    <3>1. call' = [call EXCEPT ![c] = [call[c] EXCEPT !.pc = "overwrite", !.retry = item]]
      BY <2>2 DEF Again, readState, Becomes
    <3>2. [call[c] EXCEPT !.pc = "overwrite", !.retry = item] =
            [call[c] EXCEPT !.retry = item, !.pc = "overwrite"]
      BY <1>1 DEF Call
    <3> QED  BY <3>1, <3>2
  <2> QED  BY <2>1, <2>2
<1> DEFINE q == [call[c] EXCEPT !.retry = item, !.pc = pc]
<1>3. /\ q \in Call /\ q.pc = pc /\ q.at = call[c].at /\ q.existing = call[c].existing
      /\ q.retry = item
  BY <1>1, <1>2, CallFacts DEF Call, Running
<1>4. call' = [call EXCEPT ![c] = q]
  BY <1>2
<1> HIDE DEF q
<1>5. q.pc = "bump" => q.retry # Absent
  BY <1>2, <1>3
<1>6. q.pc \in Running \cup Ended /\ q.pc # "open"
  BY <1>3 DEF Running
<1>7. CallStep(c, q)
  BY <1>1, <1>3, <1>4, <1>5, <1>6, CallFacts DEF CallStep
<1> QED  BY <1>7

\* The last write of a call, which may be one that nobody hears of.
LEMMA Ending ==
  ASSUME Basic, NEW c \in Calls, call[c].pc \in Running,
         NEW count \in Nat, NEW windowStart \in Nat, NEW wrote \in Nat,
         Ends(c, Wrote(Returns(call[c], count, windowStart), wrote))
  PROVE  /\ \E q : /\ call' = [call EXCEPT ![c] = q] /\ Same(call[c], q)
                   /\ q.pc \in {"returned", "threw"} /\ q.wrote = wrote
                   /\ faults' = faults =>
                        q.pc = "returned" /\ q.count = count /\ q.windowStart = windowStart
         /\ faults' \in 0 .. MaxFaults /\ faults' >= faults
<1>1. call[c] \in Call /\ (Fault => faults' # faults)
  BY CallFacts DEF Fault
<1> DEFINE k == Wrote(Returns(call[c], count, windowStart), wrote)
<1>2. Same(call[c], k) /\ k.pc = "returned" /\ k.wrote = wrote
      /\ k.count = count /\ k.windowStart = windowStart
  BY <1>1, ReturnsSame
<1> HIDE DEF k
<1>3. \/ Becomes(c, k) /\ UNCHANGED faults
      \/ Becomes(c, [call[c] EXCEPT !.pc = "threw", !.wrote = k.wrote]) /\ Fault
  BY DEF Ends, k
<1>4. CASE Becomes(c, k) /\ UNCHANGED faults
  BY <1>2, <1>4, FaultFacts DEF Becomes
<1>5. CASE Becomes(c, [call[c] EXCEPT !.pc = "threw", !.wrote = k.wrote]) /\ Fault
  <2> DEFINE q == Wrote([call[c] EXCEPT !.pc = "threw"], wrote)
  <2>1. Same(call[c], q) /\ q.pc = "threw" /\ q.wrote = wrote
    <3>1. "threw" \in Running \cup Ended
      BY DEF Ended
    <3> QED  BY <1>1, <3>1, WroteSame
  <2>2. call' = [call EXCEPT ![c] = q]
    <3>1. q = [call[c] EXCEPT !.pc = "threw", !.wrote = wrote]
      BY <1>1 DEF Wrote, Call
    <3> QED  BY <1>2, <1>5, <3>1 DEF Becomes
  <2> HIDE DEF q
  <2> QED  BY <1>1, <1>5, <2>1, <2>2, FaultFacts
<1> QED  BY <1>3, <1>4, <1>5

LEMMA LastStep ==
  ASSUME Basic, NEW c \in Calls, call[c].pc \in Running, now' = now,
         NEW count \in Nat, NEW windowStart \in Nat, NEW wrote \in Nat \ {0},
         NEW n \in Nat \ {0}, Writes(wrote, n),
         Ends(c, Wrote(Returns(call[c], count, windowStart), wrote)),
         \/ wrote = item.windowStart
         \/ wrote = call[c].at /\ At(c, "overwrite") /\ call[c].retry = Absent
  PROVE  \E q : CallStep(c, q)
<1>1. PICK q : /\ call' = [call EXCEPT ![c] = q] /\ Same(call[c], q)
               /\ q.pc \in {"returned", "threw"}
  BY Ending
<1>2. faults' \in 0 .. MaxFaults /\ faults' >= faults
  BY Ending
<1>3. item' \in Items /\ past' = past \cup {item} /\ item'.windowStart = wrote
  BY WriteFacts
<1>4. CallStep(c, q)
  BY <1>1, <1>2, <1>3, SameFacts DEF CallStep, Ended
<1> QED  BY <1>4

LEMMA BumpStep ==
  ASSUME Basic, NEW c \in Calls, Bump(c)
  PROVE  \E q : CallStep(c, q)
<1> DEFINE k == call[c]
<1>1. /\ k \in Call /\ k.pc \in Running /\ k.retry \in Items
      /\ item # Absent /\ item \in Items
  BY CallFacts DEF Bump, At, Running, Basic, Reads
<1>2. /\ k.retry.count + 1 \in Nat \ {0} /\ k.retry.windowStart \in Nat
      /\ item.windowStart \in Nat \ {0}
  BY <1>1 DEF Items
<1>3. /\ now' = now /\ Writes(item.windowStart, k.retry.count + 1)
      /\ Ends(c, Wrote(Returns(k, k.retry.count + 1, k.retry.windowStart), item.windowStart))
  BY DEF Bump
<1> QED  BY <1>1, <1>2, <1>3, LastStep

\* What a call counts in, if it does not open a window: it is never empty.
LEMMA CurrentFacts ==
  ASSUME Basic, NEW c \in Calls, call[c].pc \in Running
  PROVE  /\ current(call[c]).windowStart \in Nat \ {0}
         /\ current(call[c]).count \in Nat
         /\ call[c].at \in Nat \ {0}
  BY CallFacts DEF Basic, Reads, Timing, current, Items

LEMMA CountStep ==
  ASSUME Basic, NEW c \in Calls, Count(c)
  PROVE  \E q : CallStep(c, q)
<1> DEFINE k == call[c]
<1>1. k \in Call /\ k.pc \in Running /\ now' = now
  BY CallFacts DEF Count, At, Running
<1>2. /\ current(k).windowStart \in Nat \ {0}
      /\ current(k).count + 1 \in Nat \ {0} /\ current(k).count \in Nat
  BY <1>1, CurrentFacts
<1>3. CASE /\ MayCount(k)
           /\ Writes(item.windowStart, current(k).count + 1)
           /\ \/ Becomes(c, Wrote(Counted(k), item.windowStart)) /\ UNCHANGED faults
              \/ Becomes(c, Wrote([k EXCEPT !.pc = "again"], item.windowStart)) /\ Fault
  <2>1. item.windowStart = current(k).windowStart
    BY <1>3 DEF MayCount
  <2>2. PICK q : /\ call' = [call EXCEPT ![c] = q] /\ Same(k, q)
                 /\ q.pc \in {"returned", "again"}
    <3>1. CASE Becomes(c, Wrote(Counted(k), item.windowStart))
      <4> DEFINE q == Wrote(Returns(k, current(k).count + 1, current(k).windowStart),
                            item.windowStart)
      <4>1. Same(k, q) /\ q.pc = "returned"
        BY <1>1, <1>2, <2>1, ReturnsSame
      <4> QED  BY <3>1, <4>1 DEF Becomes, Counted
    <3>2. CASE Becomes(c, Wrote([k EXCEPT !.pc = "again"], item.windowStart))
      <4> DEFINE q == Wrote([k EXCEPT !.pc = "again"], item.windowStart)
      <4>1. "again" \in Running \cup Ended
        BY DEF Running
      <4>2. Same(k, q) /\ q.pc = "again"
        BY <1>1, <1>2, <2>1, <4>1, WroteSame
      <4> QED  BY <3>2, <4>2 DEF Becomes
    <3> QED  BY <1>3, <3>1, <3>2
  <2>3. /\ item' \in Items /\ past' = past \cup {item}
        /\ item'.windowStart = item.windowStart
    BY <1>2, <1>3, <2>1, WriteFacts
  <2>4. CallStep(c, q)
    BY <1>1, <1>3, <2>2, <2>3, SameFacts, FaultFacts DEF CallStep, Running, Ended
  <2> QED  BY <2>4
<1>4. CASE /\ Becomes(c, [k EXCEPT !.pc = "again"])
           /\ UNCHANGED <<item, past>>
           /\ UNCHANGED faults \/ Fault
  BY <1>1, <1>4, GoesOn
<1> QED  BY <1>3, <1>4 DEF Count

LEMMA OverwriteStep ==
  ASSUME Basic, NEW c \in Calls, Overwrite(c)
  PROVE  \E q : CallStep(c, q)
<1> DEFINE k == call[c]
<1>1. /\ k \in Call /\ k.pc \in Running /\ At(c, "overwrite") /\ now' = now
      /\ k.retry \in {Absent} \cup Items
      /\ item = Absent => k.retry = Absent
      /\ item \in {Absent} \cup Items
  BY CallFacts DEF Overwrite, At, Running, Basic, Reads
<1>2. /\ current(k).windowStart \in Nat /\ current(k).count + 1 \in Nat
      /\ k.at \in Nat \ {0}
  BY <1>1, CurrentFacts
<1>3. CASE /\ k.retry = Absent
           /\ Writes(k.at, 1)
           /\ Ends(c, Wrote(Counted(k), k.at))
  BY <1>1, <1>2, <1>3, LastStep DEF Counted
<1>4. CASE /\ k.retry # Absent
           /\ Writes(item.windowStart, k.retry.count + 1)
           /\ Ends(c, Wrote(Counted(k), item.windowStart))
  <2>1. item.windowStart \in Nat \ {0} /\ k.retry.count + 1 \in Nat \ {0}
    BY <1>1, <1>4 DEF Items
  <2> QED  BY <1>1, <1>2, <1>4, <2>1, LastStep DEF Counted
<1> QED  BY <1>3, <1>4 DEF Overwrite

LEMMA CountingStep ==
  ASSUME ~StaleReads, Basic, NEW c \in Calls, Counting(c)
  PROVE  \E q : CallStep(c, q)
BY ThrowsStep, ReadStep, OpenStep, RereadStep, BumpStep, CountStep, OverwriteStep DEF Counting

-----------------------------------------------------------------------------
(* Basic is kept, whatever fails. *)

Attempts == UNCHANGED <<eventOf, failed, overlapped>>

LEMMA CallStepBasic ==
  ASSUME Basic, NEW c \in Calls, NEW q, CallStep(c, q), Attempts
  PROVE  Basic'
<1>1. /\ call \in [Calls -> Call] /\ call' = [call EXCEPT ![c] = q] /\ q \in Call
      /\ now' = now /\ now \in Nat /\ q.at = call[c].at
      /\ item \in {Absent} \cup Items /\ item' \in {Absent} \cup Items
  BY CallFacts DEF CallStep
<1>2. call'[c] = q /\ \A d \in Calls \ {c} : call'[d] = call[d]
  BY <1>1
<1>3. item' = Absent => item = Absent
  BY ReadTypes DEF CallStep
<1>4. TypeOK'
  <2>1. call' \in [Calls -> Call]
    BY <1>1
  <2>2. past' \subseteq Item
    BY CallFacts DEF CallStep
  <2>3. faults' \in 0 .. MaxFaults
    BY DEF CallStep
  <2> QED  BY <1>1, <2>1, <2>2, <2>3 DEF TypeOK, Items
<1>5. Reads'
  <2> SUFFICES ASSUME NEW d \in Calls
      PROVE  /\ call'[d].existing \in {Absent} \cup Items
             /\ call'[d].retry \in {Absent} \cup Items
             /\ item' = Absent => call'[d].existing = Absent /\ call'[d].retry = Absent
             /\ call'[d].pc = "bump" => call'[d].retry # Absent
             /\ call'[d].pc = "open" => isStale(call'[d], call'[d].existing)
    BY DEF Reads, At, isStale
  <2>1. CASE d = c
    BY <1>2, <1>3, <2>1 DEF CallStep
  <2>2. CASE d # c
    BY <1>2, <1>3, <2>2 DEF Basic, Reads, At
  <2> QED  BY <2>1, <2>2
<1>6. Timing'
  BY <1>1, <1>2 DEF Basic, Timing, CallStep
<1>7. Near'
  <2> SUFFICES ASSUME NEW d \in Calls, call'[d].pc = "overwrite", call'[d].retry = Absent,
                      item' # Absent
      PROVE  item'.windowStart - call'[d].at \in (0 - CallTimeout) .. CallTimeout
    BY DEF Near, At
  <2>1. d # c /\ call'[d] = call[d]
    BY <1>2 DEF CallStep
  <2>2. CASE item'.windowStart = item.windowStart
    <3>1. item # Absent
      BY <1>1, <2>2 DEF Items, Absent
    <3> QED  BY <2>1, <2>2, <3>1 DEF Basic, Near, At
  <2>3. CASE item'.windowStart # item.windowStart
    <3>1. item'.windowStart = call[c].at /\ call[c].pc \in Running
      BY <2>3 DEF CallStep
    <3>2. /\ call[c].at <= now /\ now <= call[c].at + CallTimeout
          /\ call[d].at <= now /\ now <= call[d].at + CallTimeout
      BY <2>1, <3>1 DEF Basic, Timing, Running
    <3>3. call[c].at \in Nat /\ call[d].at \in Nat /\ now \in Nat
      BY CallFacts
    <3> QED  BY <2>1, <3>1, <3>2, <3>3, WindowAssumption
  <2> QED  BY <2>2, <2>3
<1>8. OneAtATime'
  <2>1. eventOf' = eventOf
    BY DEF Attempts
  <2> SUFFICES ASSUME NEW d \in Calls, NEW e \in Calls, d # e, eventOf[d] = eventOf[e]
      PROVE  \/ call'[d].pc = "new" \/ call'[d].pc = "threw" \/ d \in failed'
             \/ call'[e].pc = "new" \/ call'[e].pc = "threw" \/ e \in failed'
    BY <2>1 DEF OneAtATime, At, Failed
  <2>2. At(d, "new") \/ Failed(d) \/ At(e, "new") \/ Failed(e)
    BY DEF Basic, OneAtATime
  <2>3. ASSUME NEW x \in Calls, At(x, "new") \/ Failed(x)
        PROVE  call'[x].pc = "new" \/ call'[x].pc = "threw" \/ x \in failed'
    <3>1. call[x].pc = "new" \/ call[x].pc = "threw" \/ x \in failed
      BY <2>3 DEF At, Failed
    <3> QED  BY <1>1, <1>2, <3>1 DEF Attempts, CallStep, Running
  <2> QED  BY <2>2, <2>3
<1>9. Later'
  BY <1>1, <1>2 DEF Basic, Later, At, Attempts, CallStep, Running
<1> QED  BY <1>4, <1>5, <1>6, <1>7, <1>8, <1>9 DEF Basic

LEMMA InitBasic == CountingInit => Basic
<1> SUFFICES ASSUME CountingInit PROVE Basic
  OBVIOUS
<1>1. /\ now = 1 /\ item = Absent /\ past = {} /\ faults = 0 /\ failed = {}
      /\ call = [c \in Calls |-> NewCall]
  BY DEF CountingInit, Init
<1>2. NewCall \in Call
  BY ReadTypes DEF NewCall, Call
<1>3. \A c \in Calls : /\ call[c].pc = "new" /\ call[c].at = 0
                        /\ call[c].existing = Absent /\ call[c].retry = Absent
  BY <1>1 DEF NewCall
<1>4. TypeOK
  BY <1>1, <1>2, WindowAssumption DEF TypeOK
<1> QED  BY <1>1, <1>3, <1>4 DEF Basic, Reads, Timing, Near, OneAtATime, Later, At, Running

LEMMA TickBasic == ASSUME Basic, Tick, Attempts PROVE Basic'
<1>1. /\ now \in Nat /\ now' = now + 1 /\ UNCHANGED <<item, past, call, faults>>
      /\ \A c \in Calls : call[c].pc \in Running => now < call[c].at + CallTimeout
  BY CallFacts DEF Tick, Basic, TypeOK
<1>2. TypeOK'
  BY <1>1 DEF Basic, TypeOK
<1>3. Timing'
  <2>1. \A c \in Calls : call[c].at \in Nat
    BY CallFacts
  <2> QED  BY <1>1, <2>1, WindowAssumption DEF Basic, Timing
<1>4. Reads' /\ Near' /\ OneAtATime' /\ Later'
  BY <1>1 DEF Basic, Reads, Near, OneAtATime, Later, At, Failed, Attempts, isStale
<1> QED  BY <1>2, <1>3, <1>4 DEF Basic

\* The call begins: nothing else changes.
LEMMA BeginFacts ==
  ASSUME Basic, NEW c \in Calls, startEventProcessing(c)
  PROVE  \E q \in Call :
           /\ At(c, "new") /\ call' = [call EXCEPT ![c] = q]
           /\ q.pc = "read" /\ q.at = now /\ q.existing = call[c].existing
           /\ q.retry = call[c].retry /\ q.wrote = call[c].wrote
           /\ UNCHANGED <<now, item, past, faults, eventOf, failed>>
<1>1. call[c] \in Call /\ now \in Nat
  BY CallFacts
<1>2. /\ At(c, "new") /\ call' = [call EXCEPT ![c] = [call[c] EXCEPT !.pc = "read", !.at = now]]
      /\ UNCHANGED <<now, item, past, faults, eventOf, failed>>
  BY DEF startEventProcessing, Start, Becomes
<1> DEFINE q == [call[c] EXCEPT !.pc = "read", !.at = now]
<1>3. /\ q \in Call /\ q.pc = "read" /\ q.at = now /\ q.existing = call[c].existing
      /\ q.retry = call[c].retry /\ q.wrote = call[c].wrote
  BY <1>1 DEF Call, Running
<1>4. call' = [call EXCEPT ![c] = q]
  BY <1>2
<1> HIDE DEF q
<1> QED  BY <1>2, <1>3, <1>4

LEMMA BeginBasic ==
  ASSUME Basic, NEW c \in Calls, startEventProcessing(c)
  PROVE  Basic'
<1>1. PICK q \in Call :
        /\ At(c, "new") /\ call' = [call EXCEPT ![c] = q]
        /\ q.pc = "read" /\ q.at = now /\ q.existing = call[c].existing
        /\ q.retry = call[c].retry
        /\ UNCHANGED <<now, item, past, faults, eventOf, failed>>
  BY BeginFacts
<1>2. call \in [Calls -> Call] /\ now \in Nat
  BY CallFacts
<1>3. call'[c] = q /\ \A d \in Calls \ {c} : call'[d] = call[d]
  BY <1>1, <1>2
<1>4. TypeOK'
  BY <1>1, <1>2 DEF Basic, TypeOK
<1>5. Reads'
  <2> SUFFICES ASSUME NEW d \in Calls
      PROVE  /\ call'[d].existing \in {Absent} \cup Items
             /\ call'[d].retry \in {Absent} \cup Items
             /\ item' = Absent => call'[d].existing = Absent /\ call'[d].retry = Absent
             /\ call'[d].pc = "bump" => call'[d].retry # Absent
             /\ call'[d].pc = "open" => isStale(call'[d], call'[d].existing)
    BY DEF Reads, At, isStale
  <2> QED  BY <1>1, <1>3 DEF Basic, Reads, At
<1>6. Timing'
  BY <1>1, <1>2, <1>3, WindowAssumption DEF Basic, Timing
<1>7. Near'
  BY <1>1, <1>3 DEF Basic, Near, At
<1>8. OneAtATime'
  <2>1. \A d \in Calls \ {c} : eventOf[d] = eventOf[c] => At(d, "new") \/ Failed(d)
    BY DEF startEventProcessing
  <2>2. \A d \in Calls \ {c} : /\ At(d, "new") => At(d, "new")'
                               /\ Failed(d) => Failed(d)'
    BY <1>1, <1>3 DEF At, Failed
  <2>3. Failed(c) => Failed(c)'
    BY <1>1, <1>3 DEF Failed, At
  <2> QED  BY <1>1, <2>1, <2>2, <2>3 DEF Basic, OneAtATime, At, Failed
<1>9. Later'
  BY <1>1, <1>3 DEF Basic, Later, At
<1> QED  BY <1>4, <1>5, <1>6, <1>7, <1>8, <1>9 DEF Basic

LEMMA FailsBasic ==
  ASSUME Basic, NEW c \in Calls, Fails(c)
  PROVE  Basic'
<1>1. /\ UNCHANGED <<now, item, past, call, faults, eventOf>> /\ failed \subseteq failed'
  BY DEF Fails, vars
<1>2. TypeOK' /\ Reads' /\ Timing' /\ Near'
  BY <1>1 DEF Basic, TypeOK, Reads, Timing, Near, At, isStale
<1>3. OneAtATime'
  BY <1>1 DEF Basic, OneAtATime, At, Failed
<1>4. Later'
  BY <1>1 DEF Basic, Later, At, Fails
<1> QED  BY <1>2, <1>3, <1>4 DEF Basic

LEMMA NextBasic == ASSUME ~StaleReads, Basic, [CountingNext]_countingVars PROVE Basic'
<1>1. CASE UNCHANGED countingVars
  BY <1>1 DEF countingVars, vars, Basic, TypeOK, Reads, Timing, Near, OneAtATime, Later, At,
              Failed, isStale
<1>2. CASE Tick /\ Attempts
  BY <1>2, TickBasic
<1>3. ASSUME NEW c \in Calls, Counting(c), Attempts PROVE Basic'
  BY <1>3, CountingStep, CallStepBasic
<1>4. ASSUME NEW c \in Calls, startEventProcessing(c) \/ Fails(c) PROVE Basic'
  BY <1>4, BeginBasic, FailsBasic
<1> QED  BY <1>1, <1>2, <1>3, <1>4 DEF CountingNext, CountingStopped, Attempts

LEMMA BasicHolds == ASSUME ~StaleReads PROVE CountingSpec => []Basic
<1>1. CountingInit => Basic
  BY InitBasic
<1>2. Basic /\ [CountingNext]_countingVars => Basic'
  BY NextBasic
<1> QED  BY <1>1, <1>2, PTL DEF CountingSpec

\* The counters and the calls keep their types: an item that is there has a window
\* and a count, which the code tells it from none by (event-state.ts 115, 142, 188).
THEOREM TypesHold == ASSUME ~StaleReads PROVE CountingSpec => []TypeOK
<1>1. Basic => TypeOK
  BY DEF Basic
<1> QED  BY <1>1, BasicHolds, PTL

-----------------------------------------------------------------------------
(* Without faults: the counts. *)

\* The call goes on without a write, or counts itself and returns.
Moved(c, q) ==
  /\ item' = item
  /\ q.pc \in Running /\ q.wrote = 0
  /\ Careful(q, item, call)

Opened(c, q) ==
  /\ item'.windowStart = call[c].at
  /\ item = Absent \/ call[c].at - item.windowStart > Window
  /\ q.count = 1 /\ q.windowStart = call[c].at

Done(c, q) ==
  /\ item' \in Items
  /\ q.pc = "returned" /\ q.wrote = item'.windowStart
  /\ \/ Opened(c, q) /\ item'.count = 1
     \/ /\ item'.windowStart = item.windowStart
        /\ item'.count <= Cardinality(Counters(call, item.windowStart)) + 1
  /\ q.count > 1 => \E d \in Calls : d # c /\ call[d].wrote = q.windowStart
  /\ q.count <= Cardinality(Counters(call, q.windowStart)) + 1
  /\ q.windowStart # 0

LEMMA CountersFinite ==
  ASSUME NEW all, NEW w
  PROVE  IsFiniteSet(Counters(all, w)) /\ Cardinality(Counters(all, w)) \in Nat
<1>1. Counters(all, w) \in SUBSET Calls /\ IsFiniteSet(Calls)
  BY WindowAssumption DEF Counters
<1>2. IsFiniteSet(Counters(all, w))
  BY <1>1, FS_Subset
<1> QED  BY <1>2, FS_CardinalityType

LEMMA CountersGrow ==
  ASSUME NEW all \in [Calls -> Call], NEW c \in Calls, NEW q, all[c].wrote = 0,
         NEW w \in Nat \ {0}, NEW later, later = [all EXCEPT ![c] = q]
  PROVE  /\ later[c].wrote = w =>
              Cardinality(Counters(later, w)) >= Cardinality(Counters(all, w)) + 1
         /\ Cardinality(Counters(later, w)) >= Cardinality(Counters(all, w))
<1>1. c \notin Counters(all, w)
  BY DEF Counters
<1>2. ASSUME q.wrote = w PROVE Counters(later, w) = Counters(all, w) \cup {c}
  BY <1>2 DEF Counters
<1>3. ASSUME q.wrote # w PROVE Counters(later, w) = Counters(all, w)
  BY <1>3 DEF Counters
<1>4. /\ Cardinality(Counters(all, w)) \in Nat
      /\ Cardinality(Counters(all, w) \cup {c}) = Cardinality(Counters(all, w)) + 1
  BY <1>1, CountersFinite, FS_AddElement
<1>5. later[c] = q
  OBVIOUS
<1>6. CASE q.wrote = w
  <2>1. Cardinality(Counters(later, w)) = Cardinality(Counters(all, w)) + 1
    BY <1>2, <1>4, <1>6, Zenon
  <2> QED  BY <1>4, <2>1
<1>7. CASE q.wrote # w
  BY <1>3, <1>4, <1>5, <1>7
<1> QED  BY <1>6, <1>7

\* A call that counted something found somebody there.
LEMMA SomebodyCounted ==
  ASSUME NEW all, NEW read \in Items, Room(read, all)
  PROVE  \E d \in Calls : all[d].wrote = read.windowStart
<1>1. read.count \in Nat \ {0}
  BY DEF Items
<1>2. Cardinality(Counters(all, read.windowStart)) # 0
  BY <1>1, CountersFinite DEF Room
<1>3. Counters(all, read.windowStart) # {}
  BY <1>2, FS_EmptySet
<1> QED  BY <1>3 DEF Counters

\* A window that was open stays open for who has been refused (Careful).
LEMMA CarefulStays ==
  ASSUME NEW all \in [Calls -> Call], NEW c \in Calls, NEW q, all[c].wrote = 0,
         NEW later, later = [all EXCEPT ![c] = q],
         NEW k \in Call, NEW it \in {Absent} \cup Items, NEW next \in {Absent} \cup Items,
         k.existing \in {Absent} \cup Items, k.retry \in {Absent} \cup Items,
         NEW t \in Nat, k.pc \in Running => k.at <= t /\ t <= k.at + CallTimeout,
         Careful(k, it, all),
         \/ next = it
         \/ next \in Items /\ next.windowStart = it.windowStart
         \/ /\ next \in Items /\ next.windowStart <= t
            /\ t <= next.windowStart + CallTimeout
            /\ it = Absent \/ next.windowStart - it.windowStart > Window
  PROVE  Careful(k, next, later)
<1>1. ASSUME NEW read \in Items, Room(read, all) PROVE Room(read, later)
  <2>1. read.windowStart \in Nat \ {0} /\ read.count \in Nat
    BY DEF Items
  <2>2. /\ Cardinality(Counters(later, read.windowStart))
             >= Cardinality(Counters(all, read.windowStart))
        /\ Cardinality(Counters(later, read.windowStart)) \in Nat
        /\ Cardinality(Counters(all, read.windowStart)) \in Nat
    BY <2>1, CountersGrow, CountersFinite
  <2> QED  BY <1>1, <2>1, <2>2 DEF Room
<1>2. k.at \in Nat
  BY DEF Call
<1>3. it.windowStart \in Nat /\ next.windowStart \in Nat
  BY DEF Items, Absent
<1>4. it # Absent => next # Absent
  BY DEF Items, Absent
<1>5. CASE next = it \/ (next \in Items /\ next.windowStart = it.windowStart)
  <2>1. Recent(k, it) => Recent(k, next)
    BY <1>4, <1>5 DEF Recent
  <2> QED  BY <1>1, <1>5, <2>1 DEF Careful
<1>6. CASE /\ next \in Items /\ next.windowStart <= t
           /\ t <= next.windowStart + CallTimeout
           /\ it = Absent \/ next.windowStart - it.windowStart > Window
  <2>1. k.pc \in Running => Recent(k, next)
    BY <1>2, <1>3, <1>6, WindowAssumption DEF Recent, Items, Absent
  <2>2. k.pc \notin {"bump", "overwrite"}
    <3> SUFFICES ASSUME k.pc \in {"bump", "overwrite"} PROVE FALSE
      OBVIOUS
    <3>1. Recent(k, it) /\ k.pc \in Running
      BY DEF Careful, Running
    <3> QED  BY <1>2, <1>3, <1>6, <3>1, WindowAssumption DEF Recent
  <2> QED  BY <1>1, <2>1, <2>2 DEF Careful, Running
<1> QED  BY <1>5, <1>6

LEMMA FaultlessStep ==
  ASSUME Basic, Faultless, faults = 0, faults' = 0, NEW c \in Calls, NEW q,
         CallStep(c, q), Attempts, Moved(c, q) \/ Done(c, q)
  PROVE  Faultless'
<1>1. /\ call \in [Calls -> Call] /\ call' = [call EXCEPT ![c] = q] /\ q \in Call
      /\ now' = now /\ now \in Nat /\ q.at = call[c].at /\ call[c].pc \in Running
      /\ item \in {Absent} \cup Items /\ call[c].at \in Nat
      /\ q.existing \in {Absent} \cup Items /\ q.retry \in {Absent} \cup Items
      /\ call[c].at <= now /\ now <= call[c].at + CallTimeout
  BY CallFacts DEF CallStep, Basic, Timing
<1>2. call'[c] = q /\ \A d \in Calls \ {c} : call'[d] = call[d]
  BY <1>1
<1>3. /\ \A d \in Calls : Careful(call[d], item, call)
      /\ item # Absent => Room(item, call)
      /\ SomebodyIsFirst /\ SuppressedForAReason
  BY DEF Faultless
<1>4. call[c].wrote = 0
  BY <1>1, <1>3 DEF Careful
<1>5. \/ item' = item
      \/ item' \in Items /\ item'.windowStart = item.windowStart
      \/ /\ item' \in Items /\ item'.windowStart <= now
         /\ now <= item'.windowStart + CallTimeout
         /\ item = Absent \/ item'.windowStart - item.windowStart > Window
  BY <1>1 DEF Moved, Done, Opened
<1>6. \A d \in Calls : Careful(call'[d], item', call')
  <2> SUFFICES ASSUME NEW d \in Calls PROVE Careful(call'[d], item', call')
    OBVIOUS
  <2>1. CASE d = c /\ Done(c, q)
    BY <1>2, <2>1 DEF Careful, Done, Running
  <2>2. CASE d = c /\ Moved(c, q)
    <3>1. q.pc \in Running => q.at <= now /\ now <= q.at + CallTimeout
      BY <1>1
    <3>2. Careful(q, item, call) /\ item' = item
      BY <2>2 DEF Moved
    <3>3. Careful(q, item, call')
      BY <1>1, <1>4, <3>1, <3>2, CarefulStays
    <3> QED  BY <1>2, <2>2, <3>2, <3>3
  <2>3. CASE d # c
    <3>1. /\ call'[d] = call[d] /\ call[d] \in Call
          /\ call[d].existing \in {Absent} \cup Items
          /\ call[d].retry \in {Absent} \cup Items
          /\ call[d].pc \in Running => call[d].at <= now /\ now <= call[d].at + CallTimeout
      BY <1>1, <1>2, <2>3 DEF Basic, Reads, Timing
    <3>2. item' \in {Absent} \cup Items
      BY <1>1 DEF CallStep
    <3>3. Careful(call[d], item, call)
      BY <1>3
    <3> DEFINE it == item'  later == call'  k == call[d]
    <3>4. later = [call EXCEPT ![c] = q]
      BY <1>1
    <3> HIDE DEF it, later, k
    <3>5. Careful(k, it, later)
      BY <1>1, <1>4, <1>5, <3>1, <3>2, <3>3, <3>4, CarefulStays DEF it, k
    <3> QED  BY <3>1, <3>5 DEF it, later, k
  <2> QED  BY <2>1, <2>2, <2>3
<1>7. item' # Absent => Room(item', call')
  <2> SUFFICES ASSUME item' # Absent PROVE Room(item', call')
    OBVIOUS
  <2>1. item' \in Items
    BY <1>1 DEF CallStep
  <2> DEFINE w == item'.windowStart
  <2>2. w \in Nat \ {0} /\ item'.count \in Nat
    BY <2>1 DEF Items
  <2>3. /\ Cardinality(Counters(call, w)) \in Nat /\ Cardinality(Counters(call', w)) \in Nat
        /\ q.wrote = w =>
             Cardinality(Counters(call', w)) >= Cardinality(Counters(call, w)) + 1
        /\ Cardinality(Counters(call', w)) >= Cardinality(Counters(call, w))
    <3> DEFINE later == call'
    <3>1. later = [call EXCEPT ![c] = q]
      BY <1>1
    <3>2. call \in [Calls -> Call] /\ call[c].wrote = 0 /\ w \in Nat \ {0}
      BY <1>1, <1>4, <2>2
    <3> HIDE DEF later, w
    <3>3. /\ later[c].wrote = w =>
               Cardinality(Counters(later, w)) >= Cardinality(Counters(call, w)) + 1
          /\ Cardinality(Counters(later, w)) >= Cardinality(Counters(call, w))
      BY <3>1, <3>2, CountersGrow
    <3> QED  BY <1>2, <3>3, CountersFinite DEF later
  <2>4. CASE Moved(c, q)
    BY <1>3, <2>2, <2>3, <2>4 DEF Moved, Room
  <2>5. CASE Done(c, q)
    BY <2>2, <2>3, <2>5 DEF Done, Opened, Room
  <2> QED  BY <2>4, <2>5
<1>8. SomebodyIsFirst'
  <2> SUFFICES ASSUME item' # Absent
      PROVE  \E d \in Calls : /\ call'[d].pc = "returned" /\ call'[d].count = 1
                              /\ call'[d].windowStart = item'.windowStart
    BY DEF SomebodyIsFirst, Unsuppressed, At
  <2>1. CASE item # Absent /\ item'.windowStart = item.windowStart
    <3>1. PICK d \in Calls : /\ call[d].pc = "returned" /\ call[d].count = 1
                             /\ call[d].windowStart = item.windowStart
      BY <1>3, <2>1 DEF SomebodyIsFirst, Unsuppressed, At
    <3>2. d # c
      BY <1>1, <3>1 DEF Running
    <3> QED  BY <1>2, <2>1, <3>1, <3>2
  <2>2. CASE Done(c, q) /\ Opened(c, q)
    BY <1>2, <2>2 DEF Done, Opened
  <2>3. CASE Done(c, q) /\ item'.windowStart = item.windowStart /\ item = Absent
    BY <2>3 DEF Done, Items, Absent
  <2> QED  BY <2>1, <2>2, <2>3 DEF Moved, Done
<1>9. SuppressedForAReason'
  <2> SUFFICES ASSUME NEW e \in Calls, call'[e].pc = "returned", call'[e].count > 1
      PROVE  \E d \in Calls :
               /\ d # e /\ call'[d].wrote = call'[e].windowStart
               /\ eventOf'[d] # eventOf'[e] \/ call'[d].pc = "threw" \/ d \in failed'
    BY DEF SuppressedForAReason, suppressed, CountedIn, At, Failed
  <2>1. eventOf' = eventOf /\ failed' = failed
    BY DEF Attempts
  <2>2. CASE e = c
    <3>1. Done(c, q) /\ q.count > 1
      BY <1>2, <2>2 DEF Moved, Running
    <3>2. PICK d \in Calls : d # c /\ call[d].wrote = q.windowStart /\ q.windowStart # 0
      BY <3>1 DEF Done
    <3>3. call[d].pc # "new"
      BY <1>3, <3>2 DEF Careful
    <3>4. eventOf[d] # eventOf[c] \/ call[d].pc = "threw" \/ d \in failed \/ c \in failed
      BY <1>1, <3>2, <3>3 DEF Basic, OneAtATime, At, Failed, Running
    <3>5. c \notin failed
      BY <1>1 DEF Basic, Later, At, Running
    <3> QED  BY <1>2, <2>1, <2>2, <3>2, <3>4, <3>5
  <2>3. CASE e # c
    <3>1. call[e].pc = "returned" /\ call[e].count > 1 /\ call'[e] = call[e]
      BY <1>2, <2>3
    <3>2. PICK d \in Calls :
            /\ d # e /\ call[d].wrote = call[e].windowStart
            /\ eventOf[d] # eventOf[e] \/ call[d].pc = "threw" \/ d \in failed
      BY <1>3, <3>1 DEF SuppressedForAReason, suppressed, CountedIn, At, Failed
    <3>3. d # c
      BY <1>3, <1>4, <3>1, <3>2 DEF Careful
    <3> QED  BY <1>2, <2>1, <3>1, <3>2, <3>3
  <2> QED  BY <2>2, <2>3
<1> QED  BY <1>6, <1>7, <1>8, <1>9 DEF Faultless

\* What is known of a call that takes a step.
LEMMA StepFacts ==
  ASSUME Basic, Faultless, faults = 0, faults' = 0, NEW c \in Calls, call[c].pc \in Running
  PROVE  /\ call[c] \in Call /\ call[c].wrote = 0
         /\ call[c].at \in Nat \ {0}
         /\ call \in [Calls -> Call]
         /\ item \in {Absent} \cup Items
         /\ call[c].existing \in {Absent} \cup Items
         /\ call[c].retry \in {Absent} \cup Items
         /\ item = Absent => call[c].existing = Absent /\ call[c].retry = Absent
         /\ Careful(call[c], item, call)
         /\ item # Absent => Room(item, call)
         /\ ~Fault
         /\ Absent.windowStart = 0 /\ \A read \in Items : read.windowStart \in Nat \ {0}
<1>1. Careful(call[c], item, call) /\ (item # Absent => Room(item, call))
  BY DEF Faultless
<1>2. call[c].wrote = 0
  BY <1>1 DEF Careful
<1>3. ~Fault
  BY DEF Fault
<1> QED  BY <1>1, <1>2, <1>3, CallFacts DEF Basic, Reads, Timing, Items, Absent

LEMMA ReadFine ==
  ASSUME ~StaleReads, Basic, Faultless, faults = 0, faults' = 0, NEW c \in Calls, Read(c)
  PROVE  Moved(c, call'[c])
<1>1. PICK pc \in {"open", "count"} :
        /\ call' = [call EXCEPT ![c] = [call[c] EXCEPT !.existing = item, !.pc = pc]]
        /\ pc = "count" => item # Absent
  <2> DEFINE pc == IF isStale(call[c], item) THEN "open" ELSE "count"
  <2>1. call' = [call EXCEPT ![c] = [call[c] EXCEPT !.existing = item, !.pc = pc]]
    BY DEF Read, readState, Becomes
  <2>2. pc \in {"open", "count"} /\ (pc = "count" => item # Absent)
    BY DEF isStale, Absent
  <2> HIDE DEF pc
  <2> QED  BY <2>1, <2>2
<1> DEFINE q == [call[c] EXCEPT !.existing = item, !.pc = pc]
<1>2. /\ call[c] \in Call /\ call[c].wrote = 0 /\ call[c].pc \in Running /\ item' = item
      /\ item # Absent => Room(item, call)
  BY StepFacts DEF Read, At, Running
<1>3. q.wrote = 0 /\ q.existing = item /\ q.pc = pc
  BY <1>2 DEF Call
<1>4. call'[c] = q
  BY <1>1, CallFacts
<1> HIDE DEF q
<1> QED  BY <1>1, <1>2, <1>3, <1>4 DEF Moved, Careful, Running

\* A call that is refused goes on as it was.
LEMMA RefusedFine ==
  ASSUME Basic, Faultless, faults = 0, faults' = 0, NEW c \in Calls, call[c].pc \in Running,
         NEW pc \in {"reread", "again"}, Becomes(c, [call[c] EXCEPT !.pc = pc]),
         item' = item, Recent(call[c], item),
         pc = "again" => call[c].existing # Absent /\ Room(call[c].existing, call)
  PROVE  Moved(c, call'[c])
<1> DEFINE q == [call[c] EXCEPT !.pc = pc]
<1>1. call' = [call EXCEPT ![c] = q]
  BY DEF Becomes
<1>2. call[c] \in Call /\ call[c].wrote = 0
  BY StepFacts
<1>3. /\ q.wrote = 0 /\ q.existing = call[c].existing /\ q.at = call[c].at /\ q.pc = pc
  BY <1>2 DEF Call
<1> HIDE DEF q
<1>4. Recent(q, item)
  BY <1>3 DEF Recent
<1>5. call'[c] = q
  BY <1>1, CallFacts
<1> QED  BY <1>3, <1>4, <1>5 DEF Moved, Careful, Running

LEMMA OpenFine ==
  ASSUME Basic, Faultless, faults = 0, faults' = 0, NEW c \in Calls, Open(c)
  PROVE  Moved(c, call'[c]) \/ Done(c, call'[c])
<1> DEFINE k == call[c]
<1>1. k.pc = "open" /\ k.pc \in Running
  BY DEF Open, At, Running
<1>2. CASE /\ MayOpen(k.existing.windowStart)
           /\ Writes(k.at, 1)
           /\ Becomes(c, Wrote(Returns(k, 1, k.at), k.at))
  <2> DEFINE q == Wrote(Returns(k, 1, k.at), k.at)
  <2>1. call' = [call EXCEPT ![c] = q] /\ k \in Call /\ k.at \in Nat \ {0}
    BY <1>1, <1>2, StepFacts DEF Becomes
  <2>2. /\ q.pc = "returned" /\ q.count = 1 /\ q.windowStart = k.at /\ q.wrote = k.at
    BY <2>1, ReturnsSame
  <2> HIDE DEF q
  <2>3. call'[c] = q
    BY <2>1, CallFacts
  <2>4. item' \in Items /\ item'.windowStart = k.at /\ item'.count = 1
    BY <1>2, <2>1, WriteFacts
  <2>5. item = Absent \/ k.at - item.windowStart > Window
    <3>1. isStale(k, k.existing)
      BY <1>1 DEF Basic, Reads, At
    <3>2. CASE item # Absent /\ item.windowStart = k.existing.windowStart
      <4>1. item.windowStart # 0
        BY <3>2, CallFacts DEF Items
      <4> QED  BY <3>1, <3>2, <4>1 DEF isStale
    <3> QED  BY <1>2, <3>2 DEF MayOpen
  <2>6. q.count <= Cardinality(Counters(call, q.windowStart)) + 1
    BY <2>2, CountersFinite
  <2> QED  BY <2>1, <2>2, <2>3, <2>4, <2>5, <2>6 DEF Done, Opened
<1>3. CASE /\ Becomes(c, [k EXCEPT !.pc = "reread"])
           /\ item' = item /\ ~MayOpen(k.existing.windowStart)
  <2>1. Recent(k, item)
    BY <1>1, <1>3, StepFacts DEF MayOpen, Careful
  <2> QED  BY <1>1, <1>3, <2>1, RefusedFine
<1>4. ~Fault
  BY <1>1, StepFacts
<1> QED  BY <1>2, <1>3, <1>4 DEF Open, firstCount

LEMMA RereadFine ==
  ASSUME ~StaleReads, Basic, Faultless, faults = 0, faults' = 0, NEW c \in Calls, Reread(c)
  PROVE  Moved(c, call'[c])
<1> DEFINE q == [call[c] EXCEPT !.retry = item, !.pc = AfterReread(item)]
<1>1. call' = [call EXCEPT ![c] = q] /\ item' = item /\ call[c].pc = "reread"
  BY DEF Reread, readState, Becomes, At
<1>2. /\ call[c] \in Call /\ call[c].wrote = 0 /\ Careful(call[c], item, call)
      /\ item # Absent => Room(item, call)
  BY <1>1, StepFacts DEF Running
<1>3. Recent(call[c], item)
  BY <1>1, <1>2 DEF Careful
<1>4. item # Absent /\ AfterReread(item) = "bump"
  BY <1>3 DEF Recent, AfterReread
<1>5. q.pc = "bump" /\ q.retry = item /\ q.wrote = 0 /\ q.at = call[c].at
  BY <1>2, <1>4 DEF Call
<1> HIDE DEF q
<1>6. Recent(q, item)
  BY <1>3, <1>5 DEF Recent
<1>7. call'[c] = q
  BY <1>1, CallFacts
<1> QED  BY <1>1, <1>2, <1>4, <1>5, <1>6, <1>7 DEF Moved, Careful, Running

LEMMA AgainFine ==
  ASSUME ~StaleReads, Basic, Faultless, faults = 0, faults' = 0, NEW c \in Calls, Again(c)
  PROVE  Moved(c, call'[c])
<1> DEFINE q == [call[c] EXCEPT !.pc = "overwrite", !.retry = item]
<1>1. call' = [call EXCEPT ![c] = q] /\ item' = item /\ call[c].pc = "again"
  BY DEF Again, readState, Becomes, At
<1>2. /\ call[c] \in Call /\ call[c].wrote = 0 /\ Careful(call[c], item, call)
      /\ item # Absent => Room(item, call)
  BY <1>1, StepFacts DEF Running
<1>3. /\ Recent(call[c], item) /\ item # Absent
      /\ call[c].existing # Absent /\ Room(call[c].existing, call)
  BY <1>1, <1>2 DEF Careful, Recent
<1>4. /\ q.pc = "overwrite" /\ q.retry = item /\ q.wrote = 0 /\ q.at = call[c].at
      /\ q.existing = call[c].existing
  BY <1>2 DEF Call
<1> HIDE DEF q
<1>5. Recent(q, item)
  BY <1>3, <1>4 DEF Recent
<1>6. call'[c] = q
  BY <1>1, CallFacts
<1> QED  BY <1>1, <1>2, <1>3, <1>4, <1>5, <1>6 DEF Moved, Careful, Running

\* A call that counts in a window what it has read of one.
LEMMA CountsFine ==
  ASSUME Basic, Faultless, faults = 0, faults' = 0, NEW c \in Calls, call[c].pc \in Running,
         NEW read \in Items, Room(read, call), read.windowStart = item.windowStart,
         Writes(item.windowStart, read.count + 1),
         NEW told \in Items, Room(told, call),
         Becomes(c, Wrote(Returns(call[c], told.count + 1, told.windowStart), item.windowStart))
  PROVE  Done(c, call'[c])
<1> DEFINE q == Wrote(Returns(call[c], told.count + 1, told.windowStart), item.windowStart)
<1>1. call' = [call EXCEPT ![c] = q] /\ call[c] \in Call /\ call[c].wrote = 0
  BY StepFacts DEF Becomes
<1>2. /\ read.count + 1 \in Nat \ {0} /\ item.windowStart \in Nat \ {0}
      /\ told.count + 1 \in Nat /\ told.windowStart \in Nat \ {0}
      /\ read.count \in Nat
  BY DEF Items
<1>3. /\ q.pc = "returned" /\ q.windowStart = told.windowStart
      /\ q.wrote = item.windowStart /\ q.count = told.count + 1
  BY <1>1, <1>2, ReturnsSame
<1> HIDE DEF q
<1>4. call'[c] = q
  BY <1>1, CallFacts
<1>5. /\ item' \in Items /\ item'.windowStart = item.windowStart
      /\ item'.count = read.count + 1
  BY <1>2, WriteFacts
<1>6. item'.count <= Cardinality(Counters(call, item.windowStart)) + 1
  BY <1>2, <1>5, CountersFinite DEF Room
<1>7. PICK d \in Calls : call[d].wrote = told.windowStart
  BY SomebodyCounted
<1>8. d # c
  BY <1>1, <1>2, <1>7
<1>9. q.count <= Cardinality(Counters(call, q.windowStart)) + 1
  <2>1. told.count \in Nat
    BY DEF Items
  <2> QED  BY <1>3, <2>1, CountersFinite DEF Room
<1> QED  BY <1>2, <1>3, <1>4, <1>5, <1>6, <1>7, <1>8, <1>9 DEF Done

LEMMA BumpFine ==
  ASSUME Basic, Faultless, faults = 0, faults' = 0, NEW c \in Calls, Bump(c)
  PROVE  Done(c, call'[c])
<1> DEFINE k == call[c]
<1>1. k.pc = "bump" /\ k.pc \in Running
  BY DEF Bump, At, Running
<1>2. /\ k.retry \in {Absent} \cup Items /\ k \in Call
      /\ Careful(k, item, call) /\ ~Fault
  BY <1>1, StepFacts
<1>3. k.retry \in Items /\ Room(k.retry, call) /\ k.retry.windowStart = item.windowStart
  BY <1>1, <1>2 DEF Careful
<1>4. /\ Writes(item.windowStart, k.retry.count + 1)
      /\ Becomes(c, Wrote(Returns(k, k.retry.count + 1, k.retry.windowStart),
                          item.windowStart))
  BY <1>2 DEF Bump, Ends
<1> QED  BY <1>1, <1>3, <1>4, CountsFine

LEMMA CountFine ==
  ASSUME Basic, Faultless, faults = 0, faults' = 0, NEW c \in Calls, Count(c)
  PROVE  Moved(c, call'[c]) \/ Done(c, call'[c])
<1> DEFINE k == call[c]
<1>1. k.pc = "count" /\ k.pc \in Running
  BY DEF Count, At, Running
<1>2. /\ k.existing \in {Absent} \cup Items /\ k \in Call
      /\ Careful(k, item, call) /\ ~Fault
  BY <1>1, StepFacts
<1>3. k.existing \in Items /\ Room(k.existing, call) /\ current(k) = k.existing
  BY <1>1, <1>2 DEF Careful, current
<1>4. CASE /\ MayCount(k)
           /\ Writes(item.windowStart, current(k).count + 1)
           /\ Becomes(c, Wrote(Counted(k), item.windowStart))
  <2>1. k.existing.windowStart = item.windowStart
    BY <1>3, <1>4 DEF MayCount
  <2>2. /\ Writes(item.windowStart, k.existing.count + 1)
        /\ Becomes(c, Wrote(Returns(k, k.existing.count + 1, k.existing.windowStart),
                            item.windowStart))
    BY <1>3, <1>4 DEF Counted
  <2> QED  BY <1>1, <1>3, <2>1, <2>2, CountsFine
<1>5. CASE Becomes(c, [k EXCEPT !.pc = "again"]) /\ item' = item /\ ~MayCount(k)
  <2>1. Recent(k, item)
    BY <1>1, <1>2, <1>3, <1>5 DEF MayCount, Careful
  <2>2. k.existing # Absent
    BY <1>3, ReadTypes
  <2> QED  BY <1>1, <1>3, <1>5, <2>1, <2>2, RefusedFine
<1> QED  BY <1>2, <1>4, <1>5 DEF Count

LEMMA OverwriteFine ==
  ASSUME Basic, Faultless, faults = 0, faults' = 0, NEW c \in Calls, Overwrite(c)
  PROVE  Done(c, call'[c])
<1> DEFINE k == call[c]
<1>1. k.pc = "overwrite" /\ k.pc \in Running
  BY DEF Overwrite, At, Running
<1>2. /\ k.existing \in {Absent} \cup Items /\ k.retry \in {Absent} \cup Items
      /\ k \in Call /\ Careful(k, item, call) /\ ~Fault
  BY <1>1, StepFacts
<1>3. /\ k.retry \in Items /\ k.retry # Absent /\ Room(k.retry, call)
      /\ k.retry.windowStart = item.windowStart
      /\ k.existing \in Items /\ Room(k.existing, call) /\ current(k) = k.existing
  BY <1>1, <1>2 DEF Careful, current
<1>4. /\ Writes(item.windowStart, k.retry.count + 1)
      /\ Becomes(c, Wrote(Counted(k), item.windowStart))
  BY <1>2, <1>3 DEF Overwrite, Ends
<1>5. Becomes(c, Wrote(Returns(k, k.existing.count + 1, k.existing.windowStart),
                       item.windowStart))
  BY <1>3, <1>4 DEF Counted
<1> QED  BY <1>1, <1>3, <1>4, <1>5, CountsFine

LEMMA CountingFine ==
  ASSUME ~StaleReads, Basic, Faultless, faults = 0, faults' = 0, NEW c \in Calls, Counting(c)
  PROVE  Moved(c, call'[c]) \/ Done(c, call'[c])
<1>1. ~Throws(c)
  BY DEF Throws, Fault
<1> QED  BY <1>1, ReadFine, OpenFine, RereadFine, BumpFine, CountFine, AgainFine, OverwriteFine
         DEF Counting

LEMMA CountingFaultless ==
  ASSUME ~StaleReads, Basic, Faultless, NEW c \in Calls, Counting(c), Attempts
  PROVE  Faultless'
<1> SUFFICES ASSUME faults' = 0 PROVE Faultless'
  BY DEF Faultless
<1>1. PICK q : CallStep(c, q)
  BY CountingStep
<1>2. faults = 0 /\ call'[c] = q
  BY <1>1, CallFacts DEF CallStep
<1>3. Moved(c, q) \/ Done(c, q)
  BY <1>2, CountingFine
<1> QED  BY <1>1, <1>2, <1>3, FaultlessStep

-----------------------------------------------------------------------------
LEMMA InitFaultless == CountingInit => Faultless
<1> SUFFICES ASSUME CountingInit PROVE Faultless
  OBVIOUS
<1>1. item = Absent /\ call = [c \in Calls |-> NewCall]
  BY DEF CountingInit, Init
<1>2. \A c \in Calls : call[c].pc = "new" /\ call[c].wrote = 0
  BY <1>1 DEF NewCall
<1>3. \A c \in Calls : Careful(call[c], item, call)
  BY <1>2 DEF Careful
<1> QED
  BY <1>1, <1>2, <1>3 DEF Faultless, SomebodyIsFirst, SuppressedForAReason, suppressed, At

LEMMA BeginFaultless ==
  ASSUME Basic, Faultless, NEW c \in Calls, startEventProcessing(c)
  PROVE  Faultless'
<1> SUFFICES ASSUME faults' = 0 PROVE Faultless'
  BY DEF Faultless
<1>1. PICK q \in Call :
        /\ At(c, "new") /\ call' = [call EXCEPT ![c] = q]
        /\ q.pc = "read" /\ q.wrote = call[c].wrote
        /\ UNCHANGED <<now, item, past, faults, eventOf, failed>>
  BY BeginFacts
<1>2. /\ call \in [Calls -> Call] /\ faults = 0
      /\ call'[c] = q /\ \A d \in Calls \ {c} : call'[d] = call[d]
  BY <1>1, CallFacts
<1>3. /\ \A d \in Calls : Careful(call[d], item, call)
      /\ item # Absent => Room(item, call)
      /\ SomebodyIsFirst /\ SuppressedForAReason
  BY <1>2 DEF Faultless
<1>4. \A d \in Calls : call'[d].wrote = call[d].wrote
  BY <1>1, <1>2
<1>5. ASSUME NEW w PROVE Counters(call', w) = Counters(call, w)
  BY <1>4 DEF Counters
<1>6. ASSUME NEW d \in Calls PROVE Careful(call'[d], item', call')
  <2>1. CASE d = c
    <3>1. q.wrote = 0
      BY <1>1, <1>3 DEF Careful, At
    <3> QED  BY <1>1, <1>2, <2>1, <3>1 DEF Careful
  <2>2. CASE d # c
    <3>1. call'[d] = call[d] /\ item' = item /\ Careful(call[d], item, call)
      BY <1>1, <1>2, <1>3, <2>2
    <3> QED  BY <1>5, <3>1 DEF Careful, Room
  <2> QED  BY <2>1, <2>2
<1>7. item' # Absent => Room(item', call')
  BY <1>1, <1>3, <1>5 DEF Room
<1>8. SomebodyIsFirst'
  BY <1>1, <1>2, <1>3 DEF SomebodyIsFirst, Unsuppressed, At
<1>9. SuppressedForAReason'
  <2> SUFFICES ASSUME NEW e \in Calls, call'[e].pc = "returned", call'[e].count > 1
      PROVE  \E d \in Calls :
               /\ d # e /\ call'[d].wrote = call'[e].windowStart
               /\ eventOf'[d] # eventOf'[e] \/ call'[d].pc = "threw" \/ d \in failed'
    BY DEF SuppressedForAReason, suppressed, CountedIn, At, Failed
  <2>1. call[e].pc = "returned" /\ call[e].count > 1 /\ call'[e] = call[e]
    BY <1>1, <1>2
  <2>2. PICK d \in Calls :
          /\ d # e /\ call[d].wrote = call[e].windowStart
          /\ eventOf[d] # eventOf[e] \/ call[d].pc = "threw" \/ d \in failed
    BY <1>2, <1>3, <2>1 DEF SuppressedForAReason, suppressed, CountedIn, At, Failed
  <2>3. call[d].pc = "threw" => call'[d].pc = "threw"
    BY <1>1, <1>2 DEF At
  <2> QED  BY <1>1, <1>4, <2>1, <2>2, <2>3
<1> QED  BY <1>6, <1>7, <1>8, <1>9 DEF Faultless

LEMMA QuietFaultless ==
  ASSUME Faultless, UNCHANGED <<item, call, faults, eventOf>>, failed \subseteq failed'
  PROVE  Faultless'
<1> SUFFICES ASSUME faults = 0 PROVE Faultless'
  BY DEF Faultless
<1>1. \A c \in Calls : Careful(call'[c], item', call')
  BY DEF Faultless, Careful, Recent, Room, Counters
<1>2. item' # Absent => Room(item', call')
  BY DEF Faultless
<1>3. SomebodyIsFirst'
  BY DEF Faultless, SomebodyIsFirst, Unsuppressed, At
<1>4. SuppressedForAReason'
  BY DEF Faultless, SuppressedForAReason, suppressed, CountedIn, At, Failed
<1> QED  BY <1>1, <1>2, <1>3, <1>4 DEF Faultless

LEMMA NextFaultless ==
  ASSUME ~StaleReads, Basic, Faultless, [CountingNext]_countingVars
  PROVE  Faultless'
<1>1. CASE UNCHANGED countingVars
  BY <1>1, QuietFaultless DEF countingVars, vars
<1>2. CASE Tick /\ Attempts
  BY <1>2, QuietFaultless DEF Tick, Attempts
<1>3. ASSUME NEW c \in Calls, Counting(c), Attempts PROVE Faultless'
  BY <1>3, CountingFaultless
<1>4. ASSUME NEW c \in Calls, Fails(c) PROVE Faultless'
  BY <1>4, QuietFaultless DEF Fails, vars
<1>5. ASSUME NEW c \in Calls, startEventProcessing(c) PROVE Faultless'
  BY <1>5, BeginFaultless
<1> QED  BY <1>1, <1>2, <1>3, <1>4, <1>5 DEF CountingNext, CountingStopped, Attempts

LEMMA FaultlessHolds == ASSUME ~StaleReads PROVE CountingSpec => [](Basic /\ Faultless)
<1>1. CountingInit => Basic /\ Faultless
  BY InitBasic, InitFaultless
<1>2. Basic /\ Faultless /\ [CountingNext]_countingVars => Basic' /\ Faultless'
  BY NextBasic, NextFaultless
<1> QED  BY <1>1, <1>2, PTL DEF CountingSpec

\* Without faults the count never runs ahead of the calls counted in the window,
\* although two of the writes have no condition (event-state.ts 142-156, 207-220).
THEOREM CountsHold == ASSUME ~StaleReads PROVE CountingSpec => []NeverOvercounts
<1>1. Basic /\ Faultless => NeverOvercounts
  <2>1. ASSUME item = Absent PROVE item.count <= Cardinality(Counters(call, item.windowStart))
    BY <2>1, CountersFinite DEF Absent
  <2> QED  BY <2>1 DEF Faultless, Room, NeverOvercounts, Counters
<1> QED  BY <1>1, FaultlessHolds, PTL

\* Without faults every window has a call that was told it is the first (135, 167).
THEOREM FirstHolds == ASSUME ~StaleReads PROVE CountingSpec => []SomebodyIsFirst
<1>1. Faultless => SomebodyIsFirst
  BY DEF Faultless, SomebodyIsFirst
<1> QED  BY <1>1, FaultlessHolds, PTL

\* Without faults nobody is suppressed but on account of another event of the
\* window, or of an attempt that failed (handler.ts 159-169).
THEOREM ReasonsHold == ASSUME ~StaleReads PROVE CountingSpec => []SuppressedForAReason
<1>1. Faultless => SuppressedForAReason
  BY DEF Faultless, SuppressedForAReason
<1> QED  BY <1>1, FaultlessHolds, PTL

\* With any faults, a window is opened only when the one before has expired; but
\* for a call whose writes were refused twice, or failed, which may then move it by
\* no more than a call takes (135, 183-189).
THEOREM WindowsHold == ASSUME ~StaleReads PROVE CountingSpec => WindowsDoNotOverlap
<1> DEFINE Ordered ==
      item'.windowStart # item.windowStart =>
         \/ item = Absent
         \/ item'.windowStart - item.windowStart > Window
         \/ /\ faults > 0
            /\ item'.windowStart - item.windowStart \in (0 - CallTimeout) .. CallTimeout
<1>1. Basic /\ Faultless /\ [CountingNext]_countingVars => [Ordered]_item
  <2> SUFFICES ASSUME Basic, Faultless, [CountingNext]_countingVars, ~StaleReads
      PROVE  Ordered \/ item' = item
    OBVIOUS
  <2>1. ASSUME NEW c \in Calls, Counting(c) PROVE Ordered
    <3>1. PICK q : CallStep(c, q)
      BY <2>1, CountingStep
    <3>2. CASE At(c, "overwrite") /\ call[c].retry = Absent /\ item # Absent
      <4>1. faults > 0
        BY <3>2, CallFacts DEF Faultless, Careful, At
      <4>2. item.windowStart - call[c].at \in (0 - CallTimeout) .. CallTimeout
        BY <3>2 DEF Basic, Near
      <4>3. item.windowStart \in Nat /\ call[c].at \in Nat
        BY CallFacts DEF Item
      <4> QED  BY <3>1, <4>1, <4>2, <4>3, WindowAssumption DEF CallStep
    <3> QED  BY <3>1, <3>2 DEF CallStep
  <2>2. CASE UNCHANGED countingVars \/ Tick
    BY <2>2 DEF countingVars, vars, Tick
  <2>3. ASSUME NEW c \in Calls, startEventProcessing(c) \/ Fails(c) PROVE item' = item
    BY <2>3 DEF startEventProcessing, Start, Fails, vars
  <2> QED  BY <2>1, <2>2, <2>3 DEF CountingNext, CountingStopped
<1> QED  BY <1>1, FaultlessHolds, PTL DEF CountingSpec, WindowsDoNotOverlap

-----------------------------------------------------------------------------
(* With faults: who is told to be the first. *)

\* A call whose opening failed while there was no item counts from 0, if it is not
\* told better, and is the first for itself.
Pays(k, it) ==
  /\ k.existing = Absent
  /\ k.pc \in {"count", "again", "overwrite"} \/ (k.pc = "reread" /\ it = Absent)

IsFirst(k) == k.pc = "returned" /\ k.count = 1

\* The firsts of window w, and those that may become so, when the calls are all.
FirstOf(all, it, w) ==
  {d \in Calls : (IsFirst(all[d]) /\ all[d].windowStart = w) \/ Pays(all[d], it)}

\* Window w has been opened, or never will be.
OneMore(it, w) == IF it # Absent /\ w <= it.windowStart + CallTimeout THEN 1 ELSE 0

Firsts ==
  /\ \A w \in Nat : Cardinality(FirstOf(call, item, w)) <= faults + OneMore(item, w)
  /\ \A c \in Calls : IsFirst(call[c]) => call[c].windowStart <= now
  /\ \A c \in Calls : At(c, "overwrite") /\ call[c].retry = Absent => call[c].existing = Absent

\* A call becomes q: it is the first because it opened a window, or because it was
\* about to; and it comes to be about to by a fault.
FirstStep(c, q) ==
  /\ IsFirst(q) => q.windowStart <= now
  /\ q.pc = "overwrite" /\ q.retry = Absent => q.existing = Absent
  /\ \/ ~IsFirst(q) /\ (Pays(q, item') => Pays(call[c], item) \/ faults' > faults)
     \/ IsFirst(q) /\ Pays(call[c], item)
     \/ /\ IsFirst(q) /\ q.windowStart = call[c].at /\ item'.windowStart = call[c].at
        /\ item = Absent \/ call[c].at - item.windowStart > Window

LEMMA EndsIn ==
  ASSUME Basic, NEW c \in Calls, NEW k, Ends(c, k)
  PROVE  call'[c] = k \/ call'[c].pc = "threw"
BY CallFacts DEF Ends, Becomes, Call

LEMMA Leaves ==
  ASSUME NEW c \in Calls, NEW q, q.pc \in {"returned", "threw"}, ~IsFirst(q)
  PROVE  FirstStep(c, q)
BY DEF FirstStep, Pays

\* The count a call that read no item is told is its own.
LEMMA CountedFirst ==
  ASSUME Basic, NEW c \in Calls, call[c].pc \in {"count", "overwrite"},
         NEW wrote \in Nat, NEW q, q = Wrote(Counted(call[c]), wrote)
  PROVE  FirstStep(c, q)
<1> DEFINE k == call[c]
<1>1. /\ k \in Call /\ k.existing \in {Absent} \cup Items /\ k.at \in Nat
      /\ k.at <= now /\ k.pc \in Running
  BY CallFacts DEF Basic, Reads, Timing, Running
<1>2. /\ current(k).windowStart \in Nat /\ current(k).count \in Nat
      /\ current(k).count + 1 \in Nat
  BY <1>1, CurrentFacts
<1>3. q.pc = "returned" /\ q.count = current(k).count + 1
      /\ q.windowStart = current(k).windowStart
  BY <1>1, <1>2, ReturnsSame DEF Counted
<1>4. CASE k.existing = Absent
  <2>1. current(k).windowStart = k.at /\ Pays(k, item)
    BY <1>4 DEF current, Pays
  <2> QED  BY <1>1, <1>3, <2>1 DEF FirstStep, IsFirst, Pays
<1>5. CASE k.existing \in Items /\ k.existing # Absent
  <2>1. current(k).count \in Nat \ {0}
    BY <1>5 DEF current, Items
  <2>2. ~IsFirst(q)
    BY <1>3, <2>1 DEF IsFirst
  <2> QED  BY <1>3, <2>2, Leaves
<1> QED  BY <1>1, <1>4, <1>5

LEMMA ReadFirst ==
  ASSUME ~StaleReads, Basic, NEW c \in Calls, Read(c)
  PROVE  FirstStep(c, call'[c])
<1>1. PICK pc \in {"open", "count"} :
        /\ call' = [call EXCEPT ![c] = [call[c] EXCEPT !.existing = item, !.pc = pc]]
        /\ pc = "count" => item # Absent
  <2> DEFINE pc == IF isStale(call[c], item) THEN "open" ELSE "count"
  <2>1. call' = [call EXCEPT ![c] = [call[c] EXCEPT !.existing = item, !.pc = pc]]
    BY DEF Read, readState, Becomes
  <2>2. pc \in {"open", "count"} /\ (pc = "count" => item # Absent)
    BY DEF isStale, Absent
  <2> HIDE DEF pc
  <2> QED  BY <2>1, <2>2
<1>2. call'[c].existing = item /\ call'[c].pc = pc
  BY <1>1, CallFacts DEF Call
<1> QED  BY <1>1, <1>2 DEF FirstStep, Pays, IsFirst

LEMMA OpenFirst ==
  ASSUME Basic, NEW c \in Calls, Open(c)
  PROVE  FirstStep(c, call'[c])
<1> DEFINE k == call[c]
<1>1. /\ k \in Call /\ k.pc = "open" /\ k.at \in Nat \ {0} /\ k.at <= now
      /\ call \in [Calls -> Call]
      /\ isStale(k, k.existing) /\ item \in {Absent} \cup Items
  BY CallFacts DEF Open, At, Running, Basic, Timing, Reads
<1>2. CASE /\ MayOpen(k.existing.windowStart) /\ Writes(k.at, 1)
           /\ Becomes(c, Wrote(Returns(k, 1, k.at), k.at))
  <2> DEFINE q == Wrote(Returns(k, 1, k.at), k.at)
  <2>1. q.pc = "returned" /\ q.count = 1 /\ q.windowStart = k.at
    BY <1>1, ReturnsSame
  <2>2. call'[c] = q
    BY <1>1, <1>2 DEF Becomes
  <2> HIDE DEF q
  <2>3. item' \in Items /\ item'.windowStart = k.at
    BY <1>1, <1>2, WriteFacts
  <2>4. item = Absent \/ k.at - item.windowStart > Window
    <3>1. CASE item # Absent /\ item.windowStart = k.existing.windowStart
      <4>1. item.windowStart # 0
        BY <1>1, <3>1 DEF Items
      <4> QED  BY <1>1, <3>1, <4>1 DEF isStale
    <3> QED  BY <1>2, <3>1 DEF MayOpen
  <2> QED  BY <1>1, <2>1, <2>2, <2>3, <2>4 DEF FirstStep, IsFirst
<1>3. CASE /\ Writes(k.at, 1) /\ Becomes(c, Wrote([k EXCEPT !.pc = "reread"], k.at))
  <2>1. item' # Absent
    BY <1>1, <1>3, WriteFacts, ReadTypes
  <2>2. call'[c].pc = "reread"
    BY <1>1, <1>3 DEF Becomes, Wrote, Call
  <2> QED  BY <2>1, <2>2 DEF FirstStep, Pays, IsFirst
<1>4. CASE /\ Becomes(c, [k EXCEPT !.pc = "reread"]) /\ UNCHANGED <<item, past>>
           /\ (~MayOpen(k.existing.windowStart) /\ UNCHANGED faults) \/ Fault
  <2>1. call'[c].pc = "reread"
    BY <1>1, <1>4 DEF Becomes, Call
  <2>2. item = Absent => faults' > faults
    <3>1. Fault => faults' > faults
      BY CallFacts DEF Fault
    <3> QED  BY <1>4, <3>1 DEF MayOpen
  <2> QED  BY <1>4, <2>1, <2>2 DEF FirstStep, Pays, IsFirst
<1> QED  BY <1>2, <1>3, <1>4 DEF Open, firstCount

LEMMA RereadFirst ==
  ASSUME ~StaleReads, Basic, NEW c \in Calls, Reread(c) \/ Again(c)
  PROVE  FirstStep(c, call'[c])
<1>1. /\ call[c] \in Call /\ call \in [Calls -> Call] /\ item' = item
      /\ item = Absent => call[c].existing = Absent
  BY CallFacts DEF Reread, Again, Basic, Reads
<1>2. CASE Reread(c)
  <2>1. call' = [call EXCEPT ![c] = [call[c] EXCEPT !.retry = item, !.pc = AfterReread(item)]]
    BY <1>2 DEF Reread, readState, Becomes
  <2>2. /\ call'[c].pc = AfterReread(item) /\ call'[c].existing = call[c].existing
        /\ call[c].pc = "reread"
    BY <1>1, <1>2, <2>1 DEF Reread, At, Call
  <2> QED  BY <1>1, <2>2 DEF AfterReread, FirstStep, Pays, IsFirst
<1>3. CASE Again(c)
  <2>1. call' = [call EXCEPT ![c] = [call[c] EXCEPT !.pc = "overwrite", !.retry = item]]
    BY <1>3 DEF Again, readState, Becomes
  <2>2. /\ call'[c].pc = "overwrite" /\ call'[c].existing = call[c].existing
        /\ call[c].pc = "again" /\ call'[c].retry = item
    BY <1>1, <1>3, <2>1 DEF Again, At, Call
  <2> QED  BY <1>1, <2>2 DEF FirstStep, Pays, IsFirst
<1> QED  BY <1>2, <1>3

LEMMA BumpFirst ==
  ASSUME Basic, NEW c \in Calls, Bump(c)
  PROVE  FirstStep(c, call'[c])
<1> DEFINE k == call[c]
<1>1. k \in Call /\ k.retry \in Items /\ item \in Items
  BY CallFacts DEF Bump, At, Basic, Reads
<1>2. /\ k.retry.count + 1 \in Nat /\ k.retry.count + 1 # 1
      /\ k.retry.windowStart \in Nat /\ item.windowStart \in Nat
  BY <1>1 DEF Items
<1> DEFINE q == Wrote(Returns(k, k.retry.count + 1, k.retry.windowStart), item.windowStart)
<1>3. q.pc = "returned" /\ q.count = k.retry.count + 1
  BY <1>1 DEF Wrote, Returns, Call
<1>4. Ends(c, q)
  BY DEF Bump
<1> HIDE DEF q
<1>5. ~IsFirst(q)
  BY <1>2, <1>3 DEF IsFirst
<1>6. CASE call'[c] = q
  BY <1>3, <1>5, <1>6, Leaves
<1>7. CASE call'[c].pc = "threw"
  BY <1>7, Leaves DEF IsFirst
<1> QED  BY <1>4, <1>6, <1>7, EndsIn

LEMMA CountFirst ==
  ASSUME Basic, NEW c \in Calls, Count(c)
  PROVE  FirstStep(c, call'[c])
<1> DEFINE k == call[c]
<1>1. /\ k \in Call /\ k.pc = "count" /\ call \in [Calls -> Call]
      /\ item.windowStart \in Nat
  BY CallFacts DEF Count, At, Item
<1>2. CASE Becomes(c, Wrote(Counted(k), item.windowStart))
  <2>1. call'[c] = Wrote(Counted(k), item.windowStart)
    BY <1>1, <1>2 DEF Becomes
  <2> QED  BY <1>1, <2>1, CountedFirst
<1>3. CASE \/ Becomes(c, Wrote([k EXCEPT !.pc = "again"], item.windowStart))
           \/ Becomes(c, [k EXCEPT !.pc = "again"])
  <2>1. call'[c].pc = "again" /\ call'[c].existing = k.existing
    BY <1>1, <1>3 DEF Becomes, Wrote, Call
  <2> QED  BY <1>1, <2>1 DEF FirstStep, Pays, IsFirst
<1> QED  BY <1>2, <1>3 DEF Count

LEMMA OverwriteFirst ==
  ASSUME Basic, NEW c \in Calls, Overwrite(c)
  PROVE  FirstStep(c, call'[c])
<1> DEFINE k == call[c]
<1>1. /\ k \in Call /\ k.pc = "overwrite" /\ item.windowStart \in Nat /\ k.at \in Nat
  BY CallFacts DEF Overwrite, At, Item
<1>2. PICK wrote \in Nat : Ends(c, Wrote(Counted(k), wrote))
  BY <1>1 DEF Overwrite
<1>3. CASE call'[c] = Wrote(Counted(k), wrote)
  BY <1>1, <1>3, CountedFirst
<1>4. CASE call'[c].pc = "threw"
  BY <1>4, Leaves DEF IsFirst
<1> QED  BY <1>2, <1>3, <1>4, EndsIn

LEMMA CountingFirst ==
  ASSUME ~StaleReads, Basic, NEW c \in Calls, Counting(c)
  PROVE  FirstStep(c, call'[c])
<1>1. ASSUME Throws(c) PROVE FirstStep(c, call'[c])
  <2>1. call'[c].pc = "threw"
    BY <1>1, CallFacts DEF Throws, Becomes, Call
  <2> QED  BY <2>1, Leaves DEF IsFirst
<1> QED  BY <1>1, ReadFirst, OpenFirst, RereadFirst, BumpFirst, CountFirst, OverwriteFirst
         DEF Counting

LEMMA FirstOfFinite ==
  ASSUME NEW all, NEW it, NEW w
  PROVE  IsFiniteSet(FirstOf(all, it, w)) /\ Cardinality(FirstOf(all, it, w)) \in Nat
<1>1. FirstOf(all, it, w) \subseteq Calls
  BY DEF FirstOf
<1> QED  BY <1>1, FS_Subset, FS_CardinalityType, WindowAssumption

LEMMA OneMoreElement ==
  ASSUME NEW S, NEW T, NEW x, IsFiniteSet(S), T \subseteq S \cup {x}
  PROVE  Cardinality(T) <= Cardinality(S) + 1
<1>1. IsFiniteSet(S \cup {x}) /\ Cardinality(S) \in Nat
  BY FS_AddElement, FS_CardinalityType
<1>2. Cardinality(S \cup {x}) <= Cardinality(S) + 1
  <2>1. CASE x \in S
    <3>1. S \cup {x} = S
      BY <2>1
    <3> QED  BY <1>1, <3>1
  <2>2. CASE x \notin S
    BY <1>1, <2>2, FS_AddElement
  <2> QED  BY <2>1, <2>2
<1>3. Cardinality(T) <= Cardinality(S \cup {x})
  BY <1>1, FS_Subset
<1>4. Cardinality(T) \in Nat /\ Cardinality(S \cup {x}) \in Nat
  BY <1>1, FS_Subset, FS_CardinalityType
<1> QED  BY <1>1, <1>2, <1>3, <1>4

\* No window of the future has a first.
LEMMA NoneAhead ==
  ASSUME NEW all, NEW it, NEW v, NEW w,
         \A d \in Calls : IsFirst(all[d]) => all[d].windowStart # v /\ all[d].windowStart # w
  PROVE  FirstOf(all, it, v) = FirstOf(all, it, w)
BY DEF FirstOf

\* A window has one more first, or candidate, by a fault or when it is opened.
LEMMA OneFirstMore ==
  ASSUME Basic, NEW c \in Calls, NEW q, CallStep(c, q), FirstStep(c, q), NEW w \in Nat,
         Cardinality(FirstOf(call, item, w)) <= faults + OneMore(item, w),
         OneMore(item', w) >= OneMore(item, w)
  PROVE  Cardinality(FirstOf(call', item', w)) <= faults' + OneMore(item', w)
<1> DEFINE before == FirstOf(call, item, w)
           after == FirstOf(call', item', w)
<1>1. /\ call \in [Calls -> Call] /\ faults \in Nat /\ faults' \in Nat /\ faults' >= faults
      /\ call'[c] = q /\ \A d \in Calls \ {c} : call'[d] = call[d]
      /\ call[c].at \in Nat /\ item \in {Absent} \cup Items
  BY CallFacts DEF CallStep
<1>2. item' = Absent => item = Absent
  BY ReadTypes DEF CallStep
<1>3. \A d \in Calls \ {c} : d \in after => d \in before
  BY <1>1, <1>2 DEF FirstOf, Pays
<1>4. /\ IsFiniteSet(before) /\ IsFiniteSet(after)
      /\ Cardinality(before) \in Nat /\ Cardinality(after) \in Nat
  BY FirstOfFinite
<1>5. OneMore(item, w) \in {0, 1} /\ OneMore(item', w) \in {0, 1}
  BY DEF OneMore
<1>6. Cardinality(after) <= Cardinality(before) + 1
  <2>1. after \subseteq before \cup {c}
    BY <1>3 DEF FirstOf
  <2> QED  BY <1>4, <2>1, OneMoreElement
<1>7. (c \in after => c \in before) => Cardinality(after) <= Cardinality(before)
  <2> SUFFICES ASSUME c \in after => c \in before
      PROVE  Cardinality(after) <= Cardinality(before)
    OBVIOUS
  <2>1. after \subseteq before
    BY <1>3 DEF FirstOf
  <2> QED  BY <1>4, <2>1, FS_Subset
<1>8. c \in before <=> (IsFirst(call[c]) /\ call[c].windowStart = w) \/ Pays(call[c], item)
  BY DEF FirstOf
<1>9. c \in after <=> (IsFirst(q) /\ q.windowStart = w) \/ Pays(q, item')
  BY <1>1 DEF FirstOf
<1>10. IsFirst(q) => ~Pays(q, item')
  BY DEF IsFirst, Pays
<1> HIDE DEF before, after
<1>11. Cardinality(before) <= faults + OneMore(item, w)
  BY DEF before
<1>12. Cardinality(after) <= faults' + OneMore(item', w)
  <2>1. CASE ~IsFirst(q) /\ (Pays(q, item') => Pays(call[c], item))
    BY <1>1, <1>4, <1>5, <1>7, <1>8, <1>9, <1>11, <2>1
  <2>2. CASE faults' > faults
    BY <1>1, <1>4, <1>5, <1>6, <1>11, <2>2
  <2>3. CASE IsFirst(q) /\ Pays(call[c], item)
    BY <1>1, <1>4, <1>5, <1>7, <1>8, <1>11, <2>3
  <2>4. CASE /\ IsFirst(q) /\ q.windowStart = call[c].at /\ item'.windowStart = call[c].at
             /\ item = Absent \/ call[c].at - item.windowStart > Window
             /\ w # call[c].at
    BY <1>1, <1>4, <1>5, <1>7, <1>9, <1>10, <1>11, <2>4
  <2>5. CASE /\ IsFirst(q) /\ q.windowStart = call[c].at /\ item'.windowStart = call[c].at
             /\ item = Absent \/ call[c].at - item.windowStart > Window
             /\ w = call[c].at
    <3>1. OneMore(item, w) = 0
      <4>1. item # Absent => item.windowStart \in Nat
        BY <1>1 DEF Items
      <4> QED  BY <1>1, <2>5, <4>1, WindowAssumption DEF OneMore
    <3>2. OneMore(item', w) = 1
      <4>1. w # 0
        BY <2>5 DEF CallStep, Basic, Timing
      <4>2. item' # Absent
        BY <2>5, <4>1 DEF Absent
      <4> QED  BY <1>1, <2>5, <4>2, WindowAssumption DEF OneMore
    <3> QED  BY <1>1, <1>4, <1>6, <1>11, <3>1, <3>2
  <2> QED  BY <2>1, <2>2, <2>3, <2>4, <2>5 DEF FirstStep
<1> QED  BY <1>12 DEF after

LEMMA CallStepFirsts ==
  ASSUME Basic, Firsts, NEW c \in Calls, NEW q, CallStep(c, q), FirstStep(c, q)
  PROVE  Firsts'
<1>1. /\ call \in [Calls -> Call] /\ faults \in Nat /\ faults' \in Nat /\ faults' >= faults
      /\ call'[c] = q /\ \A d \in Calls \ {c} : call'[d] = call[d]
      /\ call[c].at \in Nat /\ now \in Nat /\ now' = now /\ item \in {Absent} \cup Items
  BY CallFacts DEF CallStep
<1>2. \A d \in Calls : IsFirst(call'[d]) => call'[d].windowStart <= now'
  BY <1>1 DEF Firsts, FirstStep
<1>3. \A d \in Calls :
        call'[d].pc = "overwrite" /\ call'[d].retry = Absent => call'[d].existing = Absent
  BY <1>1 DEF Firsts, FirstStep, At
<1>4. ASSUME NEW w \in Nat
      PROVE  Cardinality(FirstOf(call', item', w)) <= faults' + OneMore(item', w)
  <2>1. CASE OneMore(item', w) >= OneMore(item, w)
    BY <2>1, OneFirstMore DEF Firsts
  <2>2. CASE OneMore(item', w) < OneMore(item, w)
    <3>1. /\ item # Absent /\ w <= item.windowStart + CallTimeout
          /\ item' # Absent /\ w > item'.windowStart + CallTimeout
          /\ item.windowStart \in Nat /\ item'.windowStart \in Nat
      <4>1. item # Absent /\ w <= item.windowStart + CallTimeout
        BY <2>2 DEF OneMore
      <4>2. item' \in Items
        BY <1>1, <4>1 DEF CallStep
      <4> QED  BY <1>1, <2>2, <4>1, <4>2, ReadTypes, WindowAssumption DEF OneMore, Items
    <3>2. w > now
      <4>1. /\ item'.windowStart = call[c].at
            /\ At(c, "overwrite") /\ call[c].retry = Absent
        BY <1>1, <3>1, WindowAssumption DEF CallStep
      <4>2. now <= call[c].at + CallTimeout
        BY <4>1 DEF Basic, Timing, CallStep
      <4> QED  BY <1>1, <3>1, <4>1, <4>2, WindowAssumption
    <3> DEFINE v == w + item.windowStart + CallTimeout + 1
    <3>3. /\ v \in Nat /\ v > now /\ v > item.windowStart + CallTimeout
          /\ v > item'.windowStart + CallTimeout
      BY <1>1, <3>1, <3>2, WindowAssumption
    <3> HIDE DEF v
    <3>4. OneMore(item, v) = 0 /\ OneMore(item', v) = 0
      BY <3>1, <3>3, WindowAssumption DEF OneMore
    <3>5. Cardinality(FirstOf(call', item', v)) <= faults' + OneMore(item', v)
      BY <3>3, <3>4, OneFirstMore DEF Firsts
    <3>6. FirstOf(call', item', w) = FirstOf(call', item', v)
      <4>1. \A d \in Calls : IsFirst(call'[d]) => call'[d].windowStart \in Nat
        BY <1>1 DEF CallStep, Call
      <4> QED  BY <1>1, <1>2, <3>2, <3>3, <4>1, NoneAhead
    <3>7. OneMore(item', w) = 0
      BY <3>1, WindowAssumption DEF OneMore
    <3> QED  BY <3>4, <3>5, <3>6, <3>7
  <2> QED  BY <2>1, <2>2 DEF OneMore
<1> QED  BY <1>2, <1>3, <1>4 DEF Firsts, At

LEMMA InitFirsts == CountingInit => Firsts
<1> SUFFICES ASSUME CountingInit PROVE Firsts
  OBVIOUS
<1>1. item = Absent /\ faults = 0 /\ \A c \in Calls : call[c] = NewCall
  BY DEF CountingInit, Init
<1>2. ASSUME NEW w \in Nat PROVE FirstOf(call, item, w) = {}
  BY <1>1 DEF FirstOf, IsFirst, Pays, NewCall
<1>3. ASSUME NEW w \in Nat PROVE Cardinality(FirstOf(call, item, w)) <= faults + OneMore(item, w)
  BY <1>1, <1>2, FS_EmptySet DEF OneMore
<1> QED  BY <1>1, <1>3 DEF Firsts, IsFirst, At, NewCall

LEMMA BeginFirsts ==
  ASSUME Basic, Firsts, NEW c \in Calls, startEventProcessing(c)
  PROVE  Firsts'
<1>1. PICK q \in Call :
        /\ At(c, "new") /\ call' = [call EXCEPT ![c] = q]
        /\ q.pc = "read" /\ UNCHANGED <<now, item, past, faults, eventOf, failed>>
  BY BeginFacts
<1>2. call'[c] = q /\ \A d \in Calls \ {c} : call'[d] = call[d]
  BY <1>1, CallFacts
<1>3. ASSUME NEW w \in Nat
      PROVE  Cardinality(FirstOf(call', item', w)) <= faults' + OneMore(item', w)
  <2>1. FirstOf(call', item', w) \subseteq FirstOf(call, item, w)
    BY <1>1, <1>2 DEF FirstOf, IsFirst, Pays
  <2>2. Cardinality(FirstOf(call', item', w)) <= Cardinality(FirstOf(call, item, w))
    BY <2>1, FirstOfFinite, FS_Subset
  <2>3. Cardinality(FirstOf(call, item, w)) <= faults + OneMore(item, w)
    BY DEF Firsts
  <2>4. faults \in Nat
    BY CallFacts
  <2> QED  BY <1>1, <2>2, <2>3, <2>4, FirstOfFinite DEF OneMore
<1> QED  BY <1>1, <1>2, <1>3 DEF Firsts, IsFirst, At

LEMMA NextFirsts ==
  ASSUME ~StaleReads, Basic, Firsts, [CountingNext]_countingVars
  PROVE  Firsts'
<1>1. CASE UNCHANGED <<item, call, faults>> /\ now' \in Nat /\ now' >= now
  <2>1. \A c \in Calls : call[c].windowStart \in Nat /\ now \in Nat
    BY CallFacts DEF Call
  <2> QED  BY <1>1, <2>1 DEF Firsts, At
<1>2. ASSUME NEW c \in Calls, Counting(c), Attempts PROVE Firsts'
  <2>1. PICK q : CallStep(c, q)
    BY <1>2, CountingStep
  <2>2. FirstStep(c, q)
    BY <1>2, <2>1, CountingFirst, CallFacts DEF CallStep
  <2> QED  BY <2>1, <2>2, CallStepFirsts
<1>3. ASSUME NEW c \in Calls, startEventProcessing(c) PROVE Firsts'
  BY <1>3, BeginFirsts
<1>4. now \in Nat
  BY DEF Basic, TypeOK
<1> QED
  BY <1>1, <1>2, <1>3, <1>4 DEF CountingNext, CountingStopped, Attempts, Tick, Fails, vars, countingVars

\* Of the calls for one window one is told it is the first, and one more for each
\* fault: an opening that failed counts from 0 in what it may not have opened
\* (event-state.ts 139-167; handler.ts 169).
THEOREM OneFirstHolds == ASSUME ~StaleReads PROVE CountingSpec => []OneFirstPerWindow
<1>1. CountingInit => Basic /\ Firsts
  BY InitBasic, InitFirsts
<1>2. Basic /\ Firsts /\ [CountingNext]_countingVars => Basic' /\ Firsts'
  BY NextBasic, NextFirsts
<1>3. Basic /\ Firsts => OneFirstPerWindow
  <2> SUFFICES ASSUME Basic, Firsts, NEW c \in Calls
      PROVE  Cardinality(Unsuppressed(call[c].windowStart)) <= 1 + faults
    BY DEF OneFirstPerWindow
  <2> DEFINE w == call[c].windowStart
  <2>1. w \in Nat /\ faults \in Nat
    BY CallFacts DEF Call
  <2> HIDE DEF w
  <2>2. Unsuppressed(w) \subseteq FirstOf(call, item, w)
    BY DEF Unsuppressed, FirstOf, IsFirst, At
  <2>3. Cardinality(Unsuppressed(w)) <= Cardinality(FirstOf(call, item, w))
    BY <2>2, FirstOfFinite, FS_Subset
  <2>4. Cardinality(FirstOf(call, item, w)) <= faults + OneMore(item, w)
    BY <2>1 DEF Firsts
  <2>5. Cardinality(Unsuppressed(w)) \in Nat
    BY <2>2, FirstOfFinite, FS_Subset, FS_CardinalityType
  <2>6. OneMore(item, w) \in {0, 1}
    BY DEF OneMore
  <2>7. Cardinality(Unsuppressed(w)) <= 1 + faults
    BY <2>1, <2>3, <2>4, <2>5, <2>6, FirstOfFinite
  <2> QED  BY <2>7 DEF w
<1> QED  BY <1>1, <1>2, <1>3, PTL DEF CountingSpec

-----------------------------------------------------------------------------
(* Without faults and without overlaps: the count is exact. *)

\* The only call that runs has read the item as it is.
Alone(k, it) ==
  k.pc \in Running =>
    /\ k.pc \in {"read", "open", "count"}
    /\ k.pc \in {"open", "count"} => k.existing = it

Exact ==
  ~overlapped /\ faults = 0 =>
    /\ \A c, d \in Calls : call[c].pc \in Running /\ call[d].pc \in Running => c = d
    /\ \A c \in Calls : Alone(call[c], item) /\ call[c].wrote <= item.windowStart
    /\ item # Absent => item.count = Cardinality(Counters(call, item.windowStart))

\* The call reads, or counts itself: the first of a window it opens, or one more.
AloneStep(c, q) ==
  /\ Alone(q, item')
  /\ \/ item' = item /\ q.wrote = 0
     \/ /\ item' \in Items /\ q.wrote = item'.windowStart
        /\ \/ item'.windowStart > item.windowStart /\ item'.count = 1
           \/ /\ item # Absent /\ item'.windowStart = item.windowStart
              /\ item'.count = item.count + 1

LEMMA ReadAlone ==
  ASSUME ~StaleReads, Basic, Faultless, faults = 0, faults' = 0, NEW c \in Calls, Read(c)
  PROVE  AloneStep(c, call'[c])
<1>1. /\ item' = item /\ call[c].pc \in Running
      /\ call'[c] = [call[c] EXCEPT !.existing = item,
                       !.pc = IF isStale(call[c], item) THEN "open" ELSE "count"]
  BY CallFacts DEF Read, readState, Becomes, At, Running
<1>2. call[c] \in Call /\ call[c].wrote = 0
  BY <1>1, StepFacts
<1>3. /\ call'[c].existing = item /\ call'[c].pc \in {"open", "count"}
      /\ call'[c].wrote = 0
  BY <1>1, <1>2 DEF Call
<1> QED  BY <1>1, <1>3 DEF AloneStep, Alone

LEMMA OpenAlone ==
  ASSUME Basic, Faultless, faults = 0, faults' = 0, NEW c \in Calls, Open(c),
         call[c].existing = item
  PROVE  AloneStep(c, call'[c])
<1> DEFINE k == call[c]
<1>1. k.pc = "open" /\ k.pc \in Running
  BY DEF Open, At, Running
<1>2. /\ k \in Call /\ k.at \in Nat \ {0} /\ ~Fault /\ call \in [Calls -> Call]
      /\ item \in {Absent} \cup Items /\ isStale(k, item)
  BY <1>1, StepFacts DEF Basic, Reads, At
<1>3. MayOpen(k.existing.windowStart)
  BY DEF MayOpen
<1>4. Writes(k.at, 1) /\ call'[c] = Wrote(Returns(k, 1, k.at), k.at)
  BY <1>2, <1>3 DEF Open, firstCount, Becomes
<1>5. call'[c].pc = "returned" /\ call'[c].wrote = k.at
  BY <1>2, <1>4 DEF Wrote, Returns, Call
<1>6. item' \in Items /\ item'.windowStart = k.at /\ item'.count = 1
  BY <1>2, <1>4, WriteFacts
<1>7. k.at > item.windowStart
  BY <1>2, WindowAssumption DEF isStale, Items, Absent
<1> QED  BY <1>5, <1>6, <1>7 DEF AloneStep, Alone, Running

LEMMA CountAlone ==
  ASSUME Basic, Faultless, faults = 0, faults' = 0, NEW c \in Calls, Count(c),
         call[c].existing = item
  PROVE  AloneStep(c, call'[c])
<1> DEFINE k == call[c]
<1>1. k.pc = "count" /\ k.pc \in Running
  BY DEF Count, At, Running
<1>2. /\ k \in Call /\ ~Fault /\ call \in [Calls -> Call] /\ Careful(k, item, call)
      /\ item \in {Absent} \cup Items
  BY <1>1, StepFacts
<1>3. item # Absent /\ item \in Items /\ current(k) = item
  BY <1>1, <1>2 DEF Careful, current
<1>4. /\ Writes(item.windowStart, item.count + 1)
      /\ call'[c] = Wrote(Returns(k, item.count + 1, item.windowStart), item.windowStart)
  BY <1>2, <1>3 DEF Count, MayCount, Counted, Becomes
<1>5. item.windowStart \in Nat \ {0} /\ item.count \in Nat /\ item.count + 1 \in Nat \ {0}
  BY <1>3 DEF Items
<1>6. call'[c].pc = "returned" /\ call'[c].wrote = item.windowStart
  BY <1>2, <1>4 DEF Wrote, Returns, Call
<1>7. item' \in Items /\ item'.windowStart = item.windowStart /\ item'.count = item.count + 1
  BY <1>4, <1>5, WriteFacts
<1> QED  BY <1>3, <1>6, <1>7 DEF AloneStep, Alone, Running

LEMMA CountingAlone ==
  ASSUME ~StaleReads, Basic, Faultless, faults = 0, faults' = 0, NEW c \in Calls, Counting(c),
         Alone(call[c], item)
  PROVE  AloneStep(c, call'[c])
<1>1. call[c].pc \in Running /\ call[c].pc \in {"read", "open", "count"} /\ ~Throws(c)
  <2>1. call[c].pc \in Running
    BY CountingStep DEF CallStep
  <2>2. ~Throws(c)
    BY DEF Throws, Fault
  <2> QED  BY <2>1, <2>2 DEF Alone
<1>2. Read(c) \/ Open(c) \/ Count(c)
  BY <1>1 DEF Counting, Reread, Bump, Again, Overwrite, At
<1>3. Open(c) \/ Count(c) => call[c].existing = item
  BY DEF Alone, Open, Count, At, Running
<1> QED  BY <1>2, <1>3, ReadAlone, OpenAlone, CountAlone

\* A call counts itself: it is one more in its window.
LEMMA OneMoreCounter ==
  ASSUME NEW all, NEW later, NEW c \in Calls, all[c].wrote = 0,
         \A d \in Calls \ {c} : later[d] = all[d], NEW w \in Nat \ {0}
  PROVE  /\ later[c].wrote = w =>
              Cardinality(Counters(later, w)) = Cardinality(Counters(all, w)) + 1
         /\ later[c].wrote # w => Counters(later, w) = Counters(all, w)
<1>0. IsFiniteSet(Counters(all, w))
  BY CountersFinite
<1>1. c \notin Counters(all, w)
  <2>1. w # 0
    OBVIOUS
  <2> QED  BY <2>1 DEF Counters
<1>2. ASSUME later[c].wrote = w
      PROVE  Cardinality(Counters(later, w)) = Cardinality(Counters(all, w)) + 1
  <2>1. Counters(later, w) = Counters(all, w) \cup {c}
    BY <1>2 DEF Counters
  <2>2. Cardinality(Counters(all, w) \cup {c}) = Cardinality(Counters(all, w)) + 1
    BY <1>0, <1>1, FS_AddElement
  <2> QED  BY <2>1, <2>2, Zenon
<1>3. ASSUME later[c].wrote # w PROVE Counters(later, w) = Counters(all, w)
  BY <1>3 DEF Counters
<1> QED  BY <1>2, <1>3

LEMMA AloneExact ==
  ASSUME ~StaleReads, Basic, Faultless, Exact, NEW c \in Calls, Counting(c), Attempts
  PROVE  Exact'
<1> SUFFICES ASSUME ~overlapped', faults' = 0 PROVE Exact'
  BY DEF Exact
<1>1. PICK q : CallStep(c, q)
  BY CountingStep
<1>2. /\ faults = 0 /\ ~overlapped /\ call' = [call EXCEPT ![c] = q] /\ call'[c] = q
      /\ call \in [Calls -> Call] /\ q \in Call /\ call[c].pc \in Running
      /\ \A d \in Calls \ {c} : call'[d] = call[d]
      /\ item \in {Absent} \cup Items
  BY <1>1, CallFacts DEF CallStep, Attempts
<1>3. call[c].wrote = 0
  BY <1>2, StepFacts
<1>4. /\ \A d \in Calls : Alone(call[d], item) /\ call[d].wrote <= item.windowStart
      /\ \A d \in Calls \ {c} : call[d].pc \notin Running
      /\ item # Absent => item.count = Cardinality(Counters(call, item.windowStart))
  BY <1>2 DEF Exact
<1>5. AloneStep(c, q)
  BY <1>2, <1>4, CountingAlone
<1>6. \A d, e \in Calls : call'[d].pc \in Running /\ call'[e].pc \in Running => d = e
  BY <1>2, <1>4
<1>7. item.windowStart \in Nat /\ item'.windowStart \in Nat /\ item.windowStart <= item'.windowStart
  BY <1>2, <1>5 DEF AloneStep, Items, Absent
<1>8. \A d \in Calls : Alone(call'[d], item') /\ call'[d].wrote <= item'.windowStart
  <2>1. Alone(q, item') /\ q.wrote <= item'.windowStart
    BY <1>5, <1>7 DEF AloneStep
  <2>2. ASSUME NEW d \in Calls \ {c}
        PROVE  Alone(call[d], item') /\ call[d].wrote <= item'.windowStart
    <3>1. call[d].wrote \in Nat
      BY <1>2 DEF Call
    <3> QED  BY <1>4, <1>7, <3>1 DEF Alone
  <2> QED  BY <1>2, <2>1, <2>2
<1>9. ASSUME NEW w \in Nat \ {0}
      PROVE  /\ q.wrote = w =>
                  Cardinality(Counters(call', w)) = Cardinality(Counters(call, w)) + 1
             /\ q.wrote # w => Counters(call', w) = Counters(call, w)
  <2>1. call[c].wrote = 0 /\ \A d \in Calls \ {c} : call'[d] = call[d]
    BY <1>2, <1>3
  <2>2. /\ call'[c].wrote = w =>
              Cardinality(Counters(call', w)) = Cardinality(Counters(call, w)) + 1
        /\ call'[c].wrote # w => Counters(call', w) = Counters(call, w)
    BY <2>1, OneMoreCounter
  <2> QED  BY <1>2, <2>2
<1>10. ASSUME item' # Absent PROVE item'.count = Cardinality(Counters(call', item'.windowStart))
  <2>1. CASE item' = item /\ q.wrote = 0
    <3>1. item.windowStart \in Nat \ {0}
      BY <1>2, <1>10, <2>1 DEF Items
    <3>2. Counters(call', item.windowStart) = Counters(call, item.windowStart)
      BY <1>9, <2>1, <3>1
    <3> QED  BY <1>4, <1>10, <2>1, <3>2
  <2>2. CASE /\ item' \in Items /\ q.wrote = item'.windowStart
             /\ item'.windowStart > item.windowStart /\ item'.count = 1
    <3>1. Counters(call', item'.windowStart) = {c}
      <4>1. \A d \in Calls \ {c} : call'[d].wrote # item'.windowStart
        <5>1. \A d \in Calls : call[d].wrote \in Nat
          BY <1>2 DEF Call
        <5> QED  BY <1>2, <1>4, <1>7, <2>2, <5>1
      <4> QED  BY <1>2, <2>2, <4>1 DEF Counters
    <3>2. Cardinality({c}) = 1
      BY FS_Singleton
    <3> QED  BY <2>2, <3>1, <3>2
  <2>3. CASE /\ item' \in Items /\ q.wrote = item'.windowStart
             /\ item # Absent /\ item'.windowStart = item.windowStart
             /\ item'.count = item.count + 1
    <3>1. item.windowStart \in Nat \ {0}
      BY <1>2, <2>3 DEF Items
    <3>2. Cardinality(Counters(call', item.windowStart))
            = Cardinality(Counters(call, item.windowStart)) + 1
      BY <1>9, <2>3, <3>1
    <3> QED  BY <1>4, <2>3, <3>2
  <2> QED  BY <1>5, <2>1, <2>2, <2>3 DEF AloneStep
<1> QED  BY <1>6, <1>8, <1>10 DEF Exact

LEMMA InitExact == CountingInit => Exact
<1> SUFFICES ASSUME CountingInit PROVE Exact
  OBVIOUS
<1>1. item = Absent /\ \A c \in Calls : call[c].pc = "new" /\ call[c].wrote = 0
  BY DEF CountingInit, Init, NewCall
<1> QED  BY <1>1 DEF Exact, Alone, Running, Absent

LEMMA BeginExact ==
  ASSUME Basic, Exact, NEW c \in Calls, startEventProcessing(c)
  PROVE  Exact'
<1> SUFFICES ASSUME ~overlapped', faults' = 0 PROVE Exact'
  BY DEF Exact
<1>1. PICK q \in Call :
        /\ At(c, "new") /\ call' = [call EXCEPT ![c] = q]
        /\ q.pc = "read" /\ q.wrote = call[c].wrote
        /\ UNCHANGED <<now, item, past, faults, eventOf, failed>>
  BY BeginFacts
<1>2. ~overlapped /\ \A d \in Calls : call[d].pc \notin Running
  BY DEF startEventProcessing
<1>3. /\ call'[c] = q /\ \A d \in Calls \ {c} : call'[d] = call[d]
      /\ \A d \in Calls : call'[d].wrote = call[d].wrote
  BY <1>1, CallFacts
<1>4. \A d, e \in Calls : call'[d].pc \in Running /\ call'[e].pc \in Running => d = e
  BY <1>2, <1>3
<1>5. \A d \in Calls : Alone(call'[d], item') /\ call'[d].wrote <= item'.windowStart
  BY <1>1, <1>2, <1>3 DEF Exact, Alone
<1>6. ASSUME NEW w PROVE Counters(call', w) = Counters(call, w)
  BY <1>3 DEF Counters
<1> QED  BY <1>1, <1>2, <1>4, <1>5, <1>6 DEF Exact

LEMMA NextExact ==
  ASSUME ~StaleReads, Basic, Faultless, Exact, [CountingNext]_countingVars
  PROVE  Exact'
<1>1. CASE UNCHANGED <<item, call, faults, overlapped>>
  BY <1>1 DEF Exact, Alone, Counters
<1>2. ASSUME NEW c \in Calls, Counting(c), Attempts PROVE Exact'
  BY <1>2, AloneExact
<1>3. ASSUME NEW c \in Calls, startEventProcessing(c) PROVE Exact'
  BY <1>3, BeginExact
<1> QED
  BY <1>1, <1>2, <1>3 DEF CountingNext, CountingStopped, Attempts, Tick, Fails, vars, countingVars

\* Unless calls overlap or fail the count is exact: it is the number of the calls
\* that counted themselves in the window (event-state.ts 142-156, 168, 207-220).
THEOREM ExactHolds == ASSUME ~StaleReads PROVE CountingSpec => []ExactUnlessOverlapped
<1>1. CountingInit => Basic /\ Faultless /\ Exact
  BY InitBasic, InitFaultless, InitExact
<1>2. Basic /\ Faultless /\ Exact /\ [CountingNext]_countingVars => Basic' /\ Faultless' /\ Exact'
  BY NextBasic, NextFaultless, NextExact
<1>3. Exact => ExactUnlessOverlapped
  BY DEF Exact, ExactUnlessOverlapped, CountedIn, Counters
<1> QED  BY <1>1, <1>2, <1>3, PTL DEF CountingSpec

-----------------------------------------------------------------------------
(* What the rules make of a count. *)

LEMMA Least == ASSUME NEW S \in SUBSET Nat, S # {} PROVE \E n \in S : \A m \in S : n <= m
<1>1. PICK n \in S : \A m \in S : ~(<<m, n>> \in OpToRel(<, Nat))
  BY NatLessThanWellFounded, WFMin
<1>2. \A m \in S : ~(m < n)
  BY <1>1 DEF OpToRel
<1> QED  BY <1>2

\* The severities the first n rules ask for, the hint included.
Asked(hint, rules, count, n) ==
  {hint} \cup {rules[i].severity : i \in {j \in 1 .. n : rules[j].threshold <= count}}

IsHighest(severity, severities) ==
  severity \in severities /\ \A other \in severities : severity >= other

LEMMA RuleTypes ==
  ASSUME NEW rules \in Seq(SeverityRule), NEW i \in 1 .. Len(rules)
  PROVE  rules[i].severity \in Nat /\ rules[i].threshold \in Int
<1>1. rules[i] \in SeverityRule
  OBVIOUS
<1> QED  BY <1>1 DEF SeverityRule

LEMMA AskedTypes ==
  ASSUME NEW hint \in Nat, NEW rules \in Seq(SeverityRule), NEW count \in Nat,
         NEW n \in 0 .. Len(rules)
  PROVE  Asked(hint, rules, count, n) \subseteq Nat
<1>1. \A i \in 1 .. n : rules[i].severity \in Nat
  <2>1. Len(rules) \in Nat
    OBVIOUS
  <2>2. \A i \in 1 .. n : i \in 1 .. Len(rules)
    BY <2>1
  <2> QED  BY <2>2, RuleTypes
<1> QED  BY <1>1 DEF Asked

LEMMA AskedMore ==
  ASSUME NEW hint \in Nat, NEW rules \in Seq(SeverityRule), NEW count \in Nat,
         NEW n \in 1 .. Len(rules), NEW severity \in Nat,
         IsHighest(severity, Asked(hint, rules, count, n - 1))
  PROVE  IsHighest(applyRule(severity, rules[n], count), Asked(hint, rules, count, n))
<1>1. /\ n \in Nat \ {0} /\ n - 1 \in 0 .. Len(rules)
      /\ rules[n].severity \in Nat /\ rules[n].threshold \in Int
  BY RuleTypes
<1>2. CASE rules[n].threshold <= count
  <2>1. Asked(hint, rules, count, n)
          = Asked(hint, rules, count, n - 1) \cup {rules[n].severity}
    BY <1>1, <1>2 DEF Asked
  <2>2. Asked(hint, rules, count, n - 1) \subseteq Nat
    BY <1>1, AskedTypes
  <2>3. applyRule(severity, rules[n], count) = maxOf(severity, rules[n].severity)
    BY <1>1, <1>2 DEF applyRule
  <2> QED  BY <1>1, <2>1, <2>2, <2>3 DEF IsHighest, maxOf
<1>3. CASE rules[n].threshold > count
  <2>1. Asked(hint, rules, count, n) = Asked(hint, rules, count, n - 1)
    BY <1>1, <1>3 DEF Asked
  <2> QED  BY <1>1, <1>3, <2>1 DEF applyRule
<1> QED  BY <1>1, <1>2, <1>3

\* The severity is the highest of the hint and of the rules whose threshold the
\* count reaches, in whatever order the rules come (handler.ts 26-45).  Were it not
\* so after some rule there would be a least such rule, and the one before it
\* would be right.
THEOREM Evaluates ==
  ASSUME NEW hint \in Nat, NEW rules \in Seq(SeverityRule), NEW count \in Nat
  PROVE  IsHighest(evaluateSeverity(hint, rules, count), Asked(hint, rules, count, Len(rules)))
<1> DEFINE best(n) == CHOOSE severity : IsHighest(severity, Asked(hint, rules, count, n))
           Step(f) == [n \in 0 .. Len(rules) |->
                         IF n = 0 THEN hint ELSE applyRule(f[n - 1], rules[n], count)]
<1>1. Len(rules) \in Nat
  OBVIOUS
<1>2. ASSUME NEW n \in 0 .. Len(rules) PROVE Asked(hint, rules, count, n) \subseteq Nat
  BY AskedTypes
<1>3. ASSUME NEW n \in 0 .. Len(rules)
      PROVE  \E severity : IsHighest(severity, Asked(hint, rules, count, n))
  <2> DEFINE Without == {m \in 0 .. Len(rules) :
                           ~\E severity : IsHighest(severity, Asked(hint, rules, count, m))}
  <2> SUFFICES ASSUME Without # {} PROVE FALSE
    OBVIOUS
  <2>1. PICK m \in Without : \A l \in Without : m <= l
    <3>1. Without \in SUBSET Nat
      OBVIOUS
    <3> HIDE DEF Without
    <3> QED  BY <3>1, Least
  <2>2. IsHighest(hint, Asked(hint, rules, count, 0))
    BY DEF IsHighest, Asked
  <2>3. m # 0 /\ m \in 1 .. Len(rules) /\ m - 1 \in 0 .. Len(rules) /\ m - 1 \notin Without
    BY <2>1, <2>2
  <2>4. PICK severity : IsHighest(severity, Asked(hint, rules, count, m - 1))
    BY <2>3
  <2>5. severity \in Nat
    BY <1>2, <2>3, <2>4 DEF IsHighest
  <2> QED  BY <2>1, <2>3, <2>4, <2>5, AskedMore
<1>4. ASSUME NEW n \in 0 .. Len(rules)
      PROVE  IsHighest(best(n), Asked(hint, rules, count, n)) /\ best(n) \in Nat
  <2>1. IsHighest(best(n), Asked(hint, rules, count, n))
    BY <1>3
  <2> QED  BY <1>2, <2>1 DEF IsHighest
<1> HIDE DEF best
<1>5. ASSUME NEW n \in 0 .. Len(rules), NEW a, NEW b,
             IsHighest(a, Asked(hint, rules, count, n)), IsHighest(b, Asked(hint, rules, count, n))
      PROVE  a = b
  BY <1>2, <1>5 DEF IsHighest
<1>6. \E f : f = Step(f)
  <2> DEFINE f == [n \in 0 .. Len(rules) |-> best(n)]
  <2>1. ASSUME NEW n \in 0 .. Len(rules)
        PROVE  best(n) = IF n = 0 THEN hint ELSE applyRule(f[n - 1], rules[n], count)
    <3>1. CASE n = 0
      <4>1. IsHighest(hint, Asked(hint, rules, count, 0))
        BY DEF IsHighest, Asked
      <4> QED  BY <1>4, <1>5, <3>1, <4>1
    <3>2. CASE n # 0
      <4>1. n \in 1 .. Len(rules) /\ n - 1 \in 0 .. Len(rules) /\ f[n - 1] = best(n - 1)
        BY <3>2
      <4>2. IsHighest(applyRule(best(n - 1), rules[n], count), Asked(hint, rules, count, n))
        BY <1>4, <4>1, AskedMore
      <4> QED  BY <1>4, <1>5, <3>2, <4>1, <4>2
    <3> QED  BY <3>1, <3>2
  <2>2. f = Step(f)
    BY <2>1
  <2> QED  BY <2>2
<1> DEFINE after == CHOOSE f : f = Step(f)
<1>7. after = Step(after)
  BY <1>6
<1>8. evaluateSeverity(hint, rules, count) = after[Len(rules)]
  BY DEF evaluateSeverity
<1> HIDE DEF after
<1>9. after[0] = hint /\ \A n \in 1 .. Len(rules) : after[n] = applyRule(after[n - 1], rules[n], count)
  BY <1>1, <1>7
<1>10. ASSUME NEW n \in 0 .. Len(rules)
       PROVE  IsHighest(after[n], Asked(hint, rules, count, n))
  <2> DEFINE Without == {m \in 0 .. Len(rules) : ~IsHighest(after[m], Asked(hint, rules, count, m))}
  <2> SUFFICES ASSUME Without # {} PROVE FALSE
    OBVIOUS
  <2>1. PICK m \in Without : \A l \in Without : m <= l
    <3>1. Without \in SUBSET Nat
      OBVIOUS
    <3> HIDE DEF Without
    <3> QED  BY <3>1, Least
  <2>2. IsHighest(after[0], Asked(hint, rules, count, 0))
    BY <1>9 DEF IsHighest, Asked
  <2>3. m # 0 /\ m \in 1 .. Len(rules) /\ m - 1 \in 0 .. Len(rules) /\ m - 1 \notin Without
    BY <2>1, <2>2
  <2>4. IsHighest(after[m - 1], Asked(hint, rules, count, m - 1)) /\ after[m - 1] \in Nat
    BY <1>2, <2>3 DEF IsHighest
  <2>5. IsHighest(after[m], Asked(hint, rules, count, m))
    BY <1>9, <2>3, <2>4, AskedMore
  <2> QED  BY <2>1, <2>5
<1> QED  BY <1>1, <1>8, <1>10

-----------------------------------------------------------------------------
(* Without faults: the counts that calls are told. *)

\* The call was told of no more calls than counted themselves, its own included.
Told(c, all) ==
  all[c].pc = "returned" =>
    all[c].count <= Cardinality(Counters(all, all[c].windowStart) \cup {c})

Counts == faults = 0 => \A c \in Calls : Told(c, call)

LEMMA WithMe ==
  ASSUME NEW all, NEW w, NEW c \in Calls
  PROVE  /\ IsFiniteSet(Counters(all, w) \cup {c})
         /\ Cardinality(Counters(all, w) \cup {c}) \in Nat
<1>1. Counters(all, w) \cup {c} \subseteq Calls
  BY DEF Counters
<1> QED  BY <1>1, FS_Subset, FS_CardinalityType, WindowAssumption

LEMMA StillTold ==
  ASSUME NEW all, NEW later, NEW c \in Calls, NEW d \in Calls, all[c].wrote = 0,
         \A e \in Calls \ {c} : later[e] = all[e],
         d # c, Told(d, all), all[d] \in Call, all[d].pc = "returned" => all[d].windowStart # 0
  PROVE  Told(d, later)
<1> SUFFICES ASSUME all[d].pc = "returned"
    PROVE  all[d].count <= Cardinality(Counters(later, all[d].windowStart) \cup {d})
  BY DEF Told
<1> DEFINE w == all[d].windowStart
<1>1. w # 0 /\ all[d].count \in Nat
  BY DEF Call
<1> HIDE DEF w
<1>2. Counters(all, w) \cup {d} \subseteq Counters(later, w) \cup {d}
  BY <1>1 DEF Counters
<1>3. Cardinality(Counters(all, w) \cup {d}) <= Cardinality(Counters(later, w) \cup {d})
  BY <1>2, WithMe, FS_Subset
<1>4. all[d].count <= Cardinality(Counters(all, w) \cup {d})
  BY DEF Told, w
<1>5. all[d].count <= Cardinality(Counters(later, w) \cup {d})
  BY <1>1, <1>3, <1>4, WithMe
<1> QED  BY <1>5 DEF w

LEMMA CountingCounts ==
  ASSUME ~StaleReads, Basic, Faultless, Counts, NEW c \in Calls, Counting(c)
  PROVE  Counts'
<1> SUFFICES ASSUME faults' = 0, NEW d \in Calls PROVE Told(d, call')
  BY DEF Counts, Told, Counters
<1>1. PICK q : CallStep(c, q)
  BY CountingStep
<1>2. /\ faults = 0 /\ call'[c] = q /\ call \in [Calls -> Call] /\ q \in Call
      /\ call[c].pc \in Running /\ \A e \in Calls \ {c} : call'[e] = call[e]
  BY <1>1, CallFacts DEF CallStep
<1>3. call[c].wrote = 0
  BY <1>2, StepFacts
<1>4. CASE d # c
  <2>1. /\ Told(d, call) /\ call[d] \in Call
        /\ call[d].pc = "returned" => call[d].windowStart # 0
    BY <1>2 DEF Counts, Faultless, Careful
  <2> QED  BY <1>2, <1>3, <1>4, <2>1, StillTold
<1>5. CASE d = c /\ q.pc = "returned"
  <2> DEFINE w == q.windowStart
  <2>1. Done(c, q)
    BY <1>2, <1>5, CountingFine DEF Moved, Running
  <2>2. /\ q.count <= Cardinality(Counters(call, w)) + 1 /\ w # 0 /\ q.count \in Nat
    BY <1>2, <2>1 DEF Done, Call
  <2> HIDE DEF w
  <2>3. Counters(call, w) \cup {c} \subseteq Counters(call', w) \cup {c}
    BY <1>2, <1>3, <2>2 DEF Counters
  <2>4. Cardinality(Counters(call, w) \cup {c}) <= Cardinality(Counters(call', w) \cup {c})
    BY <2>3, WithMe, FS_Subset
  <2>5. Cardinality(Counters(call, w) \cup {c}) = Cardinality(Counters(call, w)) + 1
    <3>1. c \notin Counters(call, w)
      BY <1>3, <2>2 DEF Counters
    <3> QED  BY <3>1, CountersFinite, FS_AddElement
  <2>6. q.count <= Cardinality(Counters(call', w) \cup {c})
    BY <2>2, <2>4, <2>5, CountersFinite, WithMe
  <2> QED  BY <1>2, <1>5, <2>6 DEF Told, w
<1>6. CASE d = c /\ q.pc # "returned"
  BY <1>2, <1>6 DEF Told
<1> QED  BY <1>4, <1>5, <1>6

LEMMA NextCounts ==
  ASSUME ~StaleReads, Basic, Faultless, Counts, [CountingNext]_countingVars
  PROVE  Counts'
<1>1. CASE UNCHANGED <<call, faults>>
  BY <1>1 DEF Counts, Told, Counters
<1>2. ASSUME NEW c \in Calls, Counting(c) PROVE Counts'
  BY <1>2, CountingCounts
<1>3. ASSUME NEW c \in Calls, startEventProcessing(c) PROVE Counts'
  <2>1. PICK q \in Call :
          /\ At(c, "new") /\ call' = [call EXCEPT ![c] = q]
          /\ q.pc = "read" /\ q.wrote = call[c].wrote
          /\ UNCHANGED <<now, item, past, faults, eventOf, failed>>
    BY <1>3, BeginFacts
  <2>2. call'[c] = q /\ \A d \in Calls \ {c} : call'[d] = call[d]
    BY <2>1, CallFacts
  <2>3. ASSUME NEW w PROVE Counters(call', w) = Counters(call, w)
    BY <2>1, <2>2 DEF Counters
  <2>4. ASSUME NEW d \in Calls, faults = 0 PROVE Told(d, call')
    BY <2>1, <2>2, <2>3, <2>4 DEF Counts, Told
  <2> QED  BY <2>1, <2>4 DEF Counts, Told, Counters
<1> QED  BY <1>1, <1>2, <1>3 DEF CountingNext, CountingStopped, Tick, Fails, vars, countingVars

\* Those among the counted that have not failed are of different events.
LEMMA ToldIsEarned ==
  ASSUME Basic, Faultless, Counts, faults = 0, NEW c \in Calls, At(c, "returned")
  PROVE  call[c].count <= Earned(c) /\ Earned(c) \in Nat
<1> DEFINE w == call[c].windowStart
           counted == CountedIn(w) \cup {c}
           lost == {d \in counted : Failed(d)}
           events == {eventOf[d] : d \in counted}
<1>1. counted \subseteq Calls /\ IsFiniteSet(counted)
  BY FS_Subset, WindowAssumption DEF CountedIn
<1>2. IsFiniteSet(lost) /\ Cardinality(lost) \in Nat
  BY <1>1, FS_Subset, FS_CardinalityType
<1>3. IsFiniteSet(events) /\ Cardinality(events) \in Nat
  <2> DEFINE f == [d \in counted |-> eventOf[d]]
  <2>1. f \in Surjection(counted, events)
    BY DEF Surjection
  <2> HIDE DEF f, events, counted
  <2> QED  BY <1>1, <2>1, FS_Surjection, FS_CardinalityType
<1>4. w # 0 /\ \A d \in counted : ~At(d, "new")
  <2>1. \A d \in Calls : Careful(call[d], item, call)
    BY DEF Faultless
  <2>2. w # 0
    BY <2>1 DEF Careful, At
  <2> QED  BY <1>1, <2>1, <2>2 DEF CountedIn, Careful, At
<1> HIDE DEF w
<1>5. \A d, e \in counted \ lost : eventOf[d] = eventOf[e] => d = e
  BY <1>1, <1>4 DEF Basic, OneAtATime
<1>6. Cardinality(counted \ lost) <= Cardinality(events)
  <2> DEFINE f == [d \in counted \ lost |-> eventOf[d]]
  <2>1. f \in Injection(counted \ lost, events)
    BY <1>5 DEF Injection, IsInjective
  <2> HIDE DEF f, lost, events, counted
  <2> QED  BY <1>3, <2>1, FS_Injection
<1>7. Cardinality(counted) <= Cardinality(events) + Cardinality(lost)
  <2>1. lost \subseteq counted
    OBVIOUS
  <2>2. counted \cap lost = lost
    BY <2>1
  <2> HIDE DEF lost, events, counted
  <2>3. Cardinality(counted \ lost) = Cardinality(counted) - Cardinality(lost)
    BY <1>1, <2>2, FS_Difference
  <2>4. Cardinality(counted) \in Nat
    BY <1>1, FS_CardinalityType
  <2> QED  BY <1>2, <1>3, <1>6, <2>3, <2>4
<1>8. Earned(c) = Cardinality(events) + Cardinality(lost)
  BY DEF Earned, w
<1>9. call[c].count <= Cardinality(counted)
  <2>1. CountedIn(w) = Counters(call, w)
    BY DEF CountedIn, Counters
  <2> QED  BY <2>1 DEF Counts, Told, At, w
<1>10. call[c].count \in Nat /\ Cardinality(counted) \in Nat
  BY <1>1, CallFacts, FS_CardinalityType DEF Call
<1> HIDE DEF lost, events, counted
<1> QED  BY <1>2, <1>3, <1>7, <1>8, <1>9, <1>10

LEMMA MaxIs ==
  ASSUME NEW S \in SUBSET Nat, NEW highest, IsHighest(highest, S)
  PROVE  Max(S) = highest
<1>1. highest \in S /\ \A y \in S : highest >= y
  BY DEF IsHighest
<1>2. Max(S) \in S /\ \A y \in S : Max(S) >= y
  BY <1>1, Zenon DEF Max
<1>3. Max(S) >= highest /\ highest >= Max(S)
  BY <1>1, <1>2
<1>4. Max(S) \in Nat /\ highest \in Nat
  BY <1>1, <1>2
<1> QED  BY <1>3, <1>4

LEMMA HighestIs ==
  ASSUME NEW hint \in Nat, NEW rules \in Seq(SeverityRule), NEW n \in Nat
  PROVE  /\ evaluateSeverity(hint, rules, n) = Highest(hint, rules, n)
         /\ IsHighest(Highest(hint, rules, n), Asked(hint, rules, n, Len(rules)))
<1> DEFINE asked == Asked(hint, rules, n, Len(rules))
<1>1. IsHighest(evaluateSeverity(hint, rules, n), asked)
  BY Evaluates
<1>2. asked \subseteq Nat
  <2>1. Len(rules) \in 0 .. Len(rules)
    OBVIOUS
  <2> QED  BY <2>1, AskedTypes
<1>3. Highest(hint, rules, n) = Max(asked)
  <2>1. DOMAIN rules = 1 .. Len(rules)
    OBVIOUS
  <2> QED  BY <2>1 DEF Highest, Asked
<1> HIDE DEF asked
<1>4. Max(asked) = evaluateSeverity(hint, rules, n)
  BY <1>1, <1>2, MaxIs
<1> QED  BY <1>1, <1>3, <1>4 DEF asked

LEMMA MoreIsHigher ==
  ASSUME NEW hint \in Nat, NEW rules \in Seq(SeverityRule), NEW n \in Nat, NEW m \in Nat, n <= m
  PROVE  Highest(hint, rules, n) <= Highest(hint, rules, m)
<1>1. \A i \in 1 .. Len(rules) : rules[i].threshold \in Int
  BY RuleTypes
<1>2. Asked(hint, rules, n, Len(rules)) \subseteq Asked(hint, rules, m, Len(rules))
  BY <1>1 DEF Asked
<1>3. /\ IsHighest(Highest(hint, rules, n), Asked(hint, rules, n, Len(rules)))
      /\ IsHighest(Highest(hint, rules, m), Asked(hint, rules, m, Len(rules)))
  BY HighestIs
<1> QED  BY <1>2, <1>3 DEF IsHighest

LEMMA RulesTypes ==
  ASSUME NEW rules \in LoadedRules
  PROVE  rules \in Seq(SeverityRule)
<1>1. defaultRules \in Seq(SeverityRule)
  <2>1. Rule(2, 5) \in SeverityRule /\ Rule(3, 10) \in SeverityRule /\ Rule(4, 20) \in SeverityRule
    BY DEF Rule, SeverityRule
  <2> QED  BY <2>1 DEF defaultRules
<1>2. \A rulesItem \in RulesItems : rulesItem.rules \in Seq(SeverityRule)
  BY RulesAssumption
<1> QED  BY <1>1, <1>2 DEF LoadedRules, loadRules

\* Whatever the rules, their order and the hint, the severity is the highest that
\* the count asks for, and no more than the events of the window, or their retried
\* attempts, earned (handler.ts 26-45, 193-212).
THEOREM SeverityHolds == ASSUME ~StaleReads PROVE CountingSpec => []SeverityIsEarned
<1>1. CountingInit => Basic /\ Faultless /\ Counts
  <2>1. CountingInit => Counts
    BY DEF CountingInit, Init, NewCall, Counts, Told
  <2> QED  BY <2>1, InitBasic, InitFaultless
<1>2. Basic /\ Faultless /\ Counts /\ [CountingNext]_countingVars
        => Basic' /\ Faultless' /\ Counts'
  BY NextBasic, NextFaultless, NextCounts
<1>3. Basic /\ Faultless /\ Counts => SeverityIsEarned
  <2> SUFFICES ASSUME Basic, Faultless, Counts, NEW c \in Calls, At(c, "returned"),
                      NEW hint \in SeverityHints, NEW rules \in LoadedRules
      PROVE  /\ evaluateSeverity(hint, rules, call[c].count) = Highest(hint, rules, call[c].count)
             /\ faults = 0 =>
                  evaluateSeverity(hint, rules, call[c].count) <= Highest(hint, rules, Earned(c))
    BY DEF SeverityIsEarned
  <2>1. hint \in Nat /\ rules \in Seq(SeverityRule) /\ call[c].count \in Nat
    BY RulesAssumption, RulesTypes, CallFacts DEF Call
  <2>2. evaluateSeverity(hint, rules, call[c].count) = Highest(hint, rules, call[c].count)
    BY <2>1, HighestIs
  <2>3. ASSUME faults = 0
        PROVE  Highest(hint, rules, call[c].count) <= Highest(hint, rules, Earned(c))
    BY <2>1, <2>3, ToldIsEarned, MoreIsHigher
  <2> QED  BY <2>2, <2>3
<1> QED  BY <1>1, <1>2, <1>3, PTL DEF CountingSpec
=============================================================================
