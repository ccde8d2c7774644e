----------------------------- MODULE BronzeTable ------------------------------
(***************************************************************************)
(* What the Bronze table is to the batch jobs, which read only its rows    *)
(* tagged is_duplicate=false: a bag of events that nothing is deleted      *)
(* from.  One commit of the streaming job adds a row for each event of a   *)
(* micro-batch, and never two for one event; that an event comes in only   *)
(* one micro-batch is not promised.                                        *)
(*                                                                         *)
(* BronzeStream implements this specification; SilverOrders takes its      *)
(* steps for its environment.                                              *)
(***************************************************************************)
EXTENDS Naturals

CONSTANT Events

VARIABLE bronze   (* is_duplicate=false rows of each event                 *)

Commit(batch) ==
  bronze' = [e \in Events |-> IF e \in batch THEN bronze[e] + 1 ELSE bronze[e]]

Init == bronze = [e \in Events |-> 0]
Next == \E batch \in SUBSET Events : Commit(batch)
Spec == Init /\ [][Next]_bronze

=============================================================================
