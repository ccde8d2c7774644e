---------------------------- MODULE MCDailyPipeline ----------------------------
(***************************************************************************)
(* Instances of DailyPipeline for TLC: one day with two events.            *)
(***************************************************************************)
EXTENDS DailyPipeline

MCEvents == {"a1", "a2"}
MCDays   == {0}
MCDayOf  == [e \in MCEvents |-> 0]
MCds     == 0
MCTypes  == {"ORDER_PLACED"}
MCColumns ==
  [e \in MCEvents |->
    [event_id |-> e, order_id |-> "o1", customer_id |-> "c1", event_type |-> "ORDER_PLACED",
     event_timestamp |-> IF e = "a1" THEN 0 ELSE 23, amount |-> 1, city |-> "UNKNOWN"]]

=============================================================================
