--------------------------- MODULE AtLeastOnceIngest ---------------------------
(***************************************************************************)
(* What the Bronze streaming job (streaming/jobs/bronze_stream.py) really  *)
(* promises, without batches, offset logs or replicas: records land in any *)
(* order and any number of times, and the committed position passes a      *)
(* record only after it has landed or retention has deleted it.  What was  *)
(* published before the first start is not part of the promise: the job    *)
(* starts at the latest offsets.                                           *)
(***************************************************************************)
EXTENDS Naturals, Sequences

CONSTANTS
  Partitions,
  Messages,
  PartitionOf,
  MaxLen        (* bound: records published to one partition               *)

VARIABLES
  topic,        (* what was published, in order                            *)
  expired,      (* how many records of each partition retention deleted    *)
  begun,        (* the job has been started once                           *)
  start,        (* the position it started from                            *)
  committed,    (* the position behind which everything has landed         *)
  landed        (* the records that have been stored                       *)

vars == <<topic, expired, begun, start, committed, landed>>

Positions == [Partitions -> 0 .. MaxLen]
Records   == Partitions \X (1 .. MaxLen)

Readable(rec) == rec[2] <= Len(topic[rec[1]]) /\ rec[2] > expired[rec[1]]

Between(from, to) == {rec \in Records : from[rec[1]] < rec[2] /\ rec[2] <= to[rec[1]]}

Latest == [p \in Partitions |-> Len(topic[p])]

Publish(m) ==
  LET p == PartitionOf[m]
  IN  /\ Len(topic[p]) < MaxLen
      /\ topic' = [topic EXCEPT ![p] = Append(@, m)]
      /\ UNCHANGED <<expired, begun, start, committed, landed>>

Expire(p) ==
  /\ expired[p] < Len(topic[p])
  /\ expired' = [expired EXCEPT ![p] = @ + 1]
  /\ UNCHANGED <<topic, begun, start, committed, landed>>

Begin ==
  /\ ~ begun
  /\ begun' = TRUE
  /\ start' = Latest
  /\ committed' = Latest
  /\ UNCHANGED <<topic, expired, landed>>

Land ==
  /\ begun
  /\ \E recs \in SUBSET Between(start, Latest) : landed' = landed \cup recs
  /\ UNCHANGED <<topic, expired, begun, start, committed>>

Commit ==
  /\ begun
  /\ \E to \in Positions :
       /\ \A p \in Partitions : committed[p] <= to[p] /\ to[p] <= Len(topic[p])
       /\ \A rec \in Between(committed, to) : Readable(rec) => rec \in landed
       /\ committed' = to
  /\ UNCHANGED <<topic, expired, begun, start, landed>>

Init ==
  /\ topic = [p \in Partitions |-> <<>>]
  /\ expired = [p \in Partitions |-> 0]
  /\ begun = FALSE
  /\ start = [p \in Partitions |-> 0]
  /\ committed = [p \in Partitions |-> 0]
  /\ landed = {}

Next ==
  \/ \E m \in Messages : Publish(m)
  \/ \E p \in Partitions : Expire(p)
  \/ Begin
  \/ Land
  \/ Commit

Spec == Init /\ [][Next]_vars

(* No loss: the records between the start and the committed position have  *)
(* landed, but for those that retention has deleted.                       *)
NoLoss == begun => \A rec \in Between(start, committed) : Readable(rec) => rec \in landed

=============================================================================
