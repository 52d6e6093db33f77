---------------------------- MODULE EventCounting ----------------------------
(***************************************************************************)
(* What the engine makes of the counts (handler.ts 157-212): the calls of  *)
(* WindowCounter.tla are those of attempts to process events, one at a     *)
(* time for each event (EventClaim.tla).  An attempt whose call has        *)
(* returned takes its count for the answer to two questions: is the event  *)
(* a duplicate (dedup), and how severe is it (Rules.tla).  The rest of the *)
(* attempt may fail, and then the event is retried, and counted again.     *)
(***************************************************************************)
EXTENDS WindowCounter, Rules, FiniteSetsExt

(* Operators that no other definition uses are the mutants of PROJECT.json. *)

CONSTANTS Events

VARIABLES
  eventOf,       \* the event of each attempt
  failed,        \* the attempts that failed after their call had returned
  overlapped     \* did a call ever start during another? (history)

countingVars == <<vars, eventOf, failed, overlapped>>

CountingInit ==
  /\ Init
  /\ eventOf \in [Calls -> Events]
  /\ failed = {}
  /\ overlapped = FALSE

Failed(c) == At(c, "threw") \/ c \in failed

\* There is a claim for the event: it is not handled, nor being handled.
startEventProcessing(c) ==
  /\ \A d \in Calls \ {c} : eventOf[d] = eventOf[c] => At(d, "new") \/ Failed(d)
  /\ Start(c)
  /\ overlapped' = (overlapped \/ \E d \in Calls : call[d].pc \in Running)
  /\ UNCHANGED <<eventOf, failed>>

\* What follows the counting fails; or else the event is handled in the end.
Fails(c) ==
  /\ At(c, "returned") /\ c \notin failed
  /\ failed' = failed \cup {c}
  /\ UNCHANGED <<vars, eventOf, overlapped>>

Counting(c) ==
  \/ Throws(c) \/ Read(c)
  \/ Open(c) \/ Reread(c) \/ Bump(c)
  \/ Count(c) \/ Again(c) \/ Overwrite(c)

CountingStopped ==
  /\ (\A c \in Calls : call[c].pc \notin Running) \/ now = MaxClock
  /\ UNCHANGED countingVars

CountingNext ==
  \/ Tick /\ UNCHANGED <<eventOf, failed, overlapped>>
  \/ \E c \in Calls : Counting(c) /\ UNCHANGED <<eventOf, failed, overlapped>>
  \/ \E c \in Calls : startEventProcessing(c) \/ Fails(c)
  \/ CountingStopped

CountingSpec == CountingInit /\ [][CountingNext]_countingVars

-----------------------------------------------------------------------------
CountedIn(w) == {d \in Calls : call[d].wrote = w}
suppressed(c) == At(c, "returned") /\ call[c].count > 1

\* Unless calls overlap or fail the count is exact: the two writes that depend on
\* a read and have no condition on the count lose none (142-156, 168, 207-220).
ExactUnlessOverlapped ==
  ~overlapped /\ faults = 0 /\ item # Absent =>
    item.count = Cardinality(CountedIn(item.windowStart))

\* An event is suppressed on account of another event of its window, or of an
\* attempt of its own that was counted and then failed (handler.ts 159-169):
\* never of nothing, an expired window included.
SuppressedForAReason ==
  faults = 0 => \A c \in Calls : suppressed(c) =>
    \E d \in CountedIn(call[c].windowStart) \ {c} : eventOf[d] # eventOf[c] \/ Failed(d)

\* The events counted in the window an attempt was told of, its own included,
\* and the attempts among them that failed and are counted again.
Earned(c) ==
  LET counted == CountedIn(call[c].windowStart) \cup {c}
  IN Cardinality({eventOf[d] : d \in counted}) + Cardinality({d \in counted : Failed(d)})

Highest(hint, rules, n) ==
  Max({hint} \cup {rules[i].severity : i \in {j \in DOMAIN rules : rules[j].threshold <= n}})

CONSTANTS SeverityHints, RulesItems

ASSUME RulesAssumption ==
  /\ SeverityHints \subseteq Nat
  /\ \A rulesItem \in RulesItems : rulesItem.rules \in Seq(SeverityRule)

LoadedRules ==
  {loadRules(tenant, default, throws) : tenant, default \in RulesItems, throws \in BOOLEAN}

\* Whatever the rules and their order: the severity is the highest of the hint
\* and of the rules whose threshold the count reaches, and, unless a
\* request failed, no threshold is reached but by as many events of the window, or
\* by attempts that failed later and were retried (handler.ts 30-45, 193-212).
SeverityIsEarned ==
  \A c \in {d \in Calls : At(d, "returned")}, hint \in SeverityHints, rules \in LoadedRules :
    LET severity == evaluateSeverity(hint, rules, call[c].count)
    IN /\ severity = Highest(hint, rules, call[c].count)
       /\ faults = 0 => severity <= Highest(hint, rules, Earned(c))
=============================================================================
