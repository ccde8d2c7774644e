------------------------------- MODULE MCGold ---------------------------------
(***************************************************************************)
(* Instances of GoldJob and SnowflakeLoader for TLC: an order that is      *)
(* placed and delivered on the first day; and, two days after it was       *)
(* placed, a payment and a second delivery, 59 hours late.                 *)
(***************************************************************************)
EXTENDS SnowflakeLoader, TLC

Event(type, time) == [type |-> type, order |-> "o1", city |-> "Pune", time |-> time]

MCEvents == {Event("ORDER_PLACED", 1), Event("ORDER_DELIVERED", 20),
             Event("PAYMENT_SUCCESS", 50), Event("ORDER_DELIVERED", 60)}
MCDays   == {0, 2}

(* The runners are interchangeable: nothing names one of them.             *)
Symmetry == Permutations(Runners)

=============================================================================
