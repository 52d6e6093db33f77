------------------------------ MODULE MCDelivery ------------------------------
(* Three items: the bus never takes the first, the second has two targets, the *)
(* third falls back to a topic that is broken.                                 *)
EXTENDS Delivery

CONSTANTS t1, t2, t3

MCDirect == [o \in Items |-> IF o = 2 THEN <<t1, t2>> ELSE <<>>]
MCFallback == <<t3>>
MCDefault == <<>>
=============================================================================
