----------------------------- MODULE SilverTable ------------------------------
(***************************************************************************)
(* What the Silver orders table is to its readers (the Gold job, the       *)
(* reconciliation, the quality suite): a bag of events that changes by     *)
(* commits of two kinds.  A commit puts in events of one day that were not *)
(* there and leaves all others alone; or it replaces the whole table by    *)
(* rows of one day, and every other day is gone.                           *)
(*                                                                         *)
(* SilverOrders implements this specification; GoldJob takes its steps for *)
(* its environment.                                                        *)
(***************************************************************************)
EXTENDS Naturals

CONSTANTS Events, Days, DayOf,
          MaxCopies   (* bound: rows of one event                          *)

VARIABLES
  created,   (* the table exists                                           *)
  silver,    (* rows of each event                                         *)
  version    (* commits to the table                                       *)

DayBags(d) ==
  {rows \in [Events -> 0 .. MaxCopies] : \A e \in Events : DayOf[e] # d => rows[e] = 0}

Put(d) ==
  /\ created
  /\ \E rows \in DayBags(d) :
       silver' = [e \in Events |-> IF silver[e] > 0 THEN silver[e] ELSE rows[e]]
  /\ version' = version + 1
  /\ UNCHANGED created

Replace(d) ==
  /\ silver' \in DayBags(d)
  /\ created' = TRUE
  /\ version' = version + 1

Init ==
  /\ created = FALSE
  /\ silver = [e \in Events |-> 0]
  /\ version = 0

Next == \E d \in Days : Put(d) \/ Replace(d)
Spec == Init /\ [][Next]_<<created, silver, version>>

=============================================================================
