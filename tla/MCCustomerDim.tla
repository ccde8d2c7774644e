----------------------------- MODULE MCCustomerDim -----------------------------
(***************************************************************************)
(* Instances of CustomerDim for TLC: two cities, of which a customer's     *)
(* events may name both on one day.                                        *)
(***************************************************************************)
EXTENDS CustomerDim

MCCities == {"pune", "delhi"}

=============================================================================
