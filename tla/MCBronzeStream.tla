---------------------------- MODULE MCBronzeStream ----------------------------
(***************************************************************************)
(* Instances of BronzeStream for TLC.  Two partitions; an order's events   *)
(* hash to the partition of the order.  The messages are an event, a       *)
(* second event of the same order, an event of an order in the other       *)
(* partition, and an event with a null order and an empty customer: the    *)
(* producer's validate_event asks for the keys, not for their values.      *)
(***************************************************************************)
EXTENDS BronzeStream

CONSTANTS e1, e2, e3, e4, o1, o2, cust, placed

Message(e, t, o, c) ==
  [f \in REQUIRED_FIELDS |->
     CASE f = "event_id" -> e
       [] f = "event_type" -> t
       [] f = "order_id" -> o
       [] f = "customer_id" -> c]

MCTypes == {placed}

First     == Message(e1, placed, o1, cust)
Second    == Message(e2, placed, o1, cust)
Elsewhere == Message(e3, placed, o2, cust)
Malformed == Message(e4, placed, Null, Empty)

MCPartitions == {"p1", "p2"}

AllMessages == {First, Second, Elsewhere, Malformed}
MCPartitionOf == [m \in AllMessages |-> IF m["order_id"] = o2 THEN "p2" ELSE "p1"]

(* One partition: an event that may be published twice, and an invalid one.*)
OneMessages == {First, Second, Malformed}
OnePartitionOf == [m \in OneMessages |-> "p1"]
OnePartition == {"p1"}

=============================================================================
