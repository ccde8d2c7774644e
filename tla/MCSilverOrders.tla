---------------------------- MODULE MCSilverOrders ----------------------------
(***************************************************************************)
(* Instances of SilverOrders for TLC: two days, two events on the first    *)
(* and one on the second.                                                  *)
(***************************************************************************)
EXTENDS SilverOrders

MCEvents == {"a1", "a2", "b1"}
MCDays   == {"monday", "tuesday"}
MCDayOf  == [e \in MCEvents |-> IF e = "b1" THEN "tuesday" ELSE "monday"]

=============================================================================
