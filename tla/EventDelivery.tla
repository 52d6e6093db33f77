---------------------------- MODULE EventDelivery ----------------------------
(***************************************************************************)
(* What the way of ONE event from the ingest API to the incident engine    *)
(* promises: at least once.  From its publication on it is somewhere (in   *)
(* its queue, or in the dead-letter queue of that) until the engine has    *)
(* acknowledged it, and then for good; it is lost only by way of the event *)
(* bus, and only once that has refused an entry.                           *)
(***************************************************************************)

VARIABLES
  status,        \* of the event
  refused        \* has the bus refused an entry?

Status == {"absent", "pending", "acknowledged", "lost"}

Init == status = "absent" /\ refused = FALSE

\* For the first time, or again.
Publish ==
  /\ status # "acknowledged"
  /\ status' = "pending"
  /\ UNCHANGED refused

Acknowledge ==
  /\ status = "pending"
  /\ status' = "acknowledged"
  /\ UNCHANGED refused

Refuse ==
  /\ refused' = TRUE
  /\ UNCHANGED status

Lose ==
  /\ refused
  /\ status = "pending"
  /\ status' = "lost"
  /\ UNCHANGED refused

Next == Publish \/ Acknowledge \/ Refuse \/ Lose

Spec == Init /\ [][Next]_<<status, refused>>
=============================================================================
