---------------------------- MODULE WindowCounter ----------------------------
(***************************************************************************)
(* Counting the events of a window: updateDedupState (99-229) and, the     *)
(* same requests on another item, updateSeverityState (358-486) of         *)
(* libs/dynamodb/src/event-state.ts, for ONE item and on a clock.  Calls   *)
(* come from the attempts to process the events of one correlation key,    *)
(* first ones and retries, and run concurrently: EventCounting.tla says    *)
(* when they are made, and puts the steps together.                        *)
(*                                                                         *)
(* Besides the count the item holds only its windowStart; 0 is the         *)
(* windowStart of an item that does not exist, as in the code              *)
(* (existing?.windowStart || 0).                                           *)
(***************************************************************************)
EXTENDS Integers, FiniteSets

(* Operators that no other definition uses are the mutants of PROJECT.json. *)

CONSTANTS
  Calls,           \* the calls (bounds them)
  Window,          \* windowMs
  CallTimeout,     \* a call ends with the invocation that makes it
  StaleReads,      \* may a GetItem answer with the item as it was?
  MaxFaults,       \* bound on failed calls, lost answers and crashes
  MaxClock         \* bound on the clock, for TLC

\* The template's values, 300000 ms and 10 s, satisfy it.  A call that reads the
\* window another has just opened is over before that window expires.
ASSUME WindowAssumption ==
  /\ IsFiniteSet(Calls)
  /\ Window \in Nat
  /\ CallTimeout \in Nat /\ 2 * CallTimeout <= Window
  /\ StaleReads \in BOOLEAN
  /\ MaxFaults \in Nat
  /\ MaxClock \in Nat

VARIABLES
  now,             \* the time; never 0
  item,            \* the counter's item
  past,            \* what the item has been, which a stale read may see
  call,            \* each call and its locals
  faults           \* faults so far, at most MaxFaults

vars == <<now, item, past, call, faults>>

Item == [windowStart : Nat, count : Nat]
Absent == [windowStart |-> 0, count |-> 0]

Running == {"read", "open", "reread", "bump", "count", "again", "overwrite"}
Ended == {"returned", "threw"}
Call ==
  [pc : {"new"} \cup Running \cup Ended,
   at : Nat,              \* Date.now() of the call
   existing : Item,       \* what it read first
   retry : Item,          \* what it read after a refusal or an error
   count : Nat,           \* what it returns
   windowStart : Nat,     \*   and for which window
   wrote : Nat]           \* the window it counted itself in (history; 0: none)

NewCall ==
  [pc |-> "new", at |-> 0, existing |-> Absent, retry |-> Absent,
   count |-> 0, windowStart |-> 0, wrote |-> 0]

Init ==
  /\ now = 1
  /\ item = Absent
  /\ past = {}
  /\ call = [c \in Calls |-> NewCall]
  /\ faults = 0

At(c, pc) == call[c].pc = pc
Becomes(c, k) == call' = [call EXCEPT ![c] = k]
Fault == faults < MaxFaults /\ faults' = faults + 1
readState == {item} \cup (IF StaleReads THEN past ELSE {})

\* A write that sets windowStart and count.
Writes(windowStart, count) ==
  /\ item' = [windowStart |-> windowStart, count |-> count]
  /\ past' = past \cup {item}

Returns(k, count, windowStart) ==
  [k EXCEPT !.pc = "returned", !.count = count, !.windowStart = windowStart]
Wrote(k, windowStart) == [k EXCEPT !.wrote = windowStart]

-----------------------------------------------------------------------------
\* No call outlives the invocation that makes it.
Tick ==
  /\ now < MaxClock
  /\ \A c \in Calls : call[c].pc \in Running => now < call[c].at + CallTimeout
  /\ now' = now + 1
  /\ UNCHANGED <<item, past, call, faults>>

Start(c) ==
  /\ At(c, "new")
  /\ Becomes(c, [call[c] EXCEPT !.pc = "read", !.at = now])
  /\ UNCHANGED <<now, item, past, faults>>

\* A read or the last write of a call fails, or its invocation dies.
Throws(c) ==
  /\ call[c].pc \in Running
  /\ Becomes(c, [call[c] EXCEPT !.pc = "threw"])
  /\ Fault
  /\ UNCHANGED <<now, item, past>>

isStaleEarly(k, existing) ==
  existing.windowStart = 0 \/ k.at - existing.windowStart >= Window

isStale(k, existing) == existing.windowStart = 0 \/ k.at - existing.windowStart > Window

Read(c) ==
  /\ At(c, "read")
  /\ \E existing \in readState :
       Becomes(c, [call[c] EXCEPT !.existing = existing,
                     !.pc = IF isStale(call[c], existing) THEN "open" ELSE "count"])
  /\ UNCHANGED <<now, item, past, faults>>

-----------------------------------------------------------------------------
(* The window has expired, or there is none: open one. *)

MayOpenAnyway(expected) == TRUE

\* ConditionExpression: attribute_not_exists(pk) OR windowStart = :expected.
MayOpen(expected) == item = Absent \/ item.windowStart = expected

firstCountUnreset(existing) == existing.count + 1

\* The count a window starts with, whatever the one before had.
firstCount(existing) == 1

\* The catch does not ask what failed: a refusal, a failed call and a lost
\* answer all go on to read the item again.
Open(c) ==
  /\ At(c, "open")
  /\ UNCHANGED now
  /\ LET k == call[c] IN
     \/ /\ MayOpen(k.existing.windowStart)
        /\ Writes(k.at, firstCount(k.existing))
        /\ \/ /\ Becomes(c, Wrote(Returns(k, firstCount(k.existing), k.at), k.at))
              /\ UNCHANGED faults
           \/ Becomes(c, Wrote([k EXCEPT !.pc = "reread"], k.at)) /\ Fault
     \/ /\ Becomes(c, [k EXCEPT !.pc = "reread"])
        /\ UNCHANGED <<item, past>>
        /\ \/ ~MayOpen(k.existing.windowStart) /\ UNCHANGED faults
           \/ Fault

AfterRereadUpsert(retry) == "bump"

\* Somebody else opened the window: count in it.  No item: go on as if the
\* first read had not been stale.
AfterReread(retry) == IF retry = Absent THEN "count" ELSE "bump"

Reread(c) ==
  /\ At(c, "reread")
  /\ \E retry \in readState :
       Becomes(c, [call[c] EXCEPT !.retry = retry, !.pc = AfterReread(retry)])
  /\ UNCHANGED <<now, item, past, faults>>

\* The last write of a call took effect; its answer may still be lost, and
\* nothing catches that.
Ends(c, k) ==
  \/ Becomes(c, k) /\ UNCHANGED faults
  \/ Becomes(c, [call[c] EXCEPT !.pc = "threw", !.wrote = k.wrote]) /\ Fault

\* Without a condition, on whatever window the item has by now.
Bump(c) ==
  /\ At(c, "bump")
  /\ LET k == call[c] IN
     /\ Writes(item.windowStart, k.retry.count + 1)
     /\ Ends(c, Wrote(Returns(k, k.retry.count + 1, k.retry.windowStart), item.windowStart))
  /\ UNCHANGED now

-----------------------------------------------------------------------------
(* The window is open: count in it. *)

current(k) == IF k.existing = Absent THEN [windowStart |-> k.at, count |-> 0] ELSE k.existing

\* ConditionExpression: windowStart = :expected.
MayCount(k) == item.windowStart = current(k).windowStart

\* What is returned was computed from the first read, whatever is written.
Counted(k) == Returns(k, current(k).count + 1, current(k).windowStart)

Count(c) ==
  /\ At(c, "count")
  /\ UNCHANGED now
  /\ LET k == call[c] IN
     \/ /\ MayCount(k)
        /\ Writes(item.windowStart, current(k).count + 1)
        /\ \/ Becomes(c, Wrote(Counted(k), item.windowStart)) /\ UNCHANGED faults
           \/ Becomes(c, Wrote([k EXCEPT !.pc = "again"], item.windowStart)) /\ Fault
     \/ /\ Becomes(c, [k EXCEPT !.pc = "again"])
        /\ UNCHANGED <<item, past>>
        /\ \/ ~MayCount(k) /\ UNCHANGED faults
           \/ Fault

Again(c) ==
  /\ At(c, "again")
  /\ \E retry \in readState :
       Becomes(c, [call[c] EXCEPT !.pc = "overwrite", !.retry = retry])
  /\ UNCHANGED <<now, item, past, faults>>

\* Without a condition: a window of its own if there was none, else one more.
Overwrite(c) ==
  /\ At(c, "overwrite")
  /\ LET k == call[c] IN
     \/ /\ k.retry = Absent
        /\ Writes(k.at, 1)
        /\ Ends(c, Wrote(Counted(k), k.at))
     \/ /\ k.retry # Absent
        /\ Writes(item.windowStart, k.retry.count + 1)
        /\ Ends(c, Wrote(Counted(k), item.windowStart))
  /\ UNCHANGED now

-----------------------------------------------------------------------------
\* The item, when there is one, has a window and a count (isStale and the
\* reread tell an item from none by them: 115, 142, 188).
TypeOK ==
  /\ now \in Nat
  /\ item \in {Absent} \cup [windowStart : Nat \ {0}, count : Nat \ {0}]
  /\ past \subseteq Item
  /\ call \in [Calls -> Call]
  /\ faults \in 0 .. MaxFaults

\* A window is opened only when the one before has expired, however the calls
\* race to open it (135, 183).  Only the unconditional write that follows two
\* refusals (189) can move a window that is open, after a fault, and then by no
\* more than a call takes.
WindowsDoNotOverlap ==
  [][item'.windowStart # item.windowStart =>
       \/ item = Absent
       \/ item'.windowStart - item.windowStart > Window
       \/ /\ faults > 0
          /\ item'.windowStart - item.windowStart \in (0 - CallTimeout) .. CallTimeout]_item

\* The calls that were told they are the first of window w.
Unsuppressed(w) ==
  {c \in Calls : At(c, "returned") /\ call[c].windowStart = w /\ call[c].count = 1}

\* Of the calls for one window one is told it is the first, and one more for
\* each fault: the catch of a failed opening counts from 0 without asking
\* whether the window it counts in is its own (139-164, 167; handler.ts 169).
OneFirstPerWindow ==
  \A c \in Calls : Cardinality(Unsuppressed(call[c].windowStart)) <= 1 + faults

\* Without faults every window has such a call: nobody is suppressed on
\* account of nobody.
SomebodyIsFirst ==
  faults = 0 /\ item # Absent => Unsuppressed(item.windowStart) # {}

\* Without faults the count never runs ahead of the calls counted in the window:
\* no count of an earlier window leaks into it, although two of the writes have
\* no condition (142-156, 207-220).  A fault makes it leak: after a write that
\* failed on its own they may write what they read into a window that another
\* call has opened since.
NeverOvercounts ==
  faults = 0 =>
    item.count <= Cardinality({c \in Calls : call[c].wrote = item.windowStart})
=============================================================================
