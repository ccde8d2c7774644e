----------------------------- MODULE BronzeStream -----------------------------
(***************************************************************************)
(* The Bronze streaming job: streaming/jobs/bronze_stream.py, with the     *)
(* foreachBatch function of streaming/utils/bronze_writer.py that it runs  *)
(* for every micro-batch.                                                  *)
(*                                                                         *)
(* Records of the Kafka topic orders-raw are numbered from 1 in each       *)
(* partition; a position n in a partition means "the first n records are   *)
(* behind me".  A micro-batch is the records between two consecutive       *)
(* entries of the offset log of the checkpoint.  Spark writes an offset    *)
(* log entry before it runs a batch and a commit log entry after, so a     *)
(* query that dies in between runs the same batch again when it restarts.  *)
(* No transaction spans the two Delta tables and the checkpoint, and the   *)
(* three writes (Bronze, dead letters, commit log) are three steps.        *)
(*                                                                         *)
(* Kafka, the checkpoint and the trigger loop are Spark's and Kafka's own  *)
(* code, modelled as the job configures them.                              *)
(*                                                                         *)
(* A behaviour is one life of the directory /tmp/roip, which both the      *)
(* checkpoint and the tables are in: the job on one host, or pods that     *)
(* have a volume mounted there, which the manifests intend and do not do   *)
(* (their volume is /data/checkpoints).  A container that comes up without *)
(* the directory begins a new behaviour, at the latest offsets.            *)
(***************************************************************************)
EXTENDS Naturals, Sequences, FiniteSets, Validator

CONSTANTS
  Partitions,   (* partitions of orders-raw                                *)
  Messages,     (* the payloads producers send, as rows of the parsed JSON *)
  PartitionOf,  (* the partition of a payload: the hash of its key         *)
  Replicas,     (* pods of the roip-bronze-stream deployment               *)
  MAX_OFFSETS,  (* maxOffsetsPerTrigger                                    *)
  MaxLen,       (* bound: records published to one partition               *)
  MaxCrashes    (* bound: terminations of a running query                  *)

ASSUME BronzeStreamAssumption ==
  /\ IsFiniteSet(Partitions)
  /\ \A m \in Messages : DOMAIN m = REQUIRED_FIELDS
  /\ PartitionOf \in [Messages -> Partitions]
  /\ MAX_OFFSETS \in Nat \ {0}
  /\ MaxLen \in Nat
  /\ MaxCrashes \in Nat

VARIABLES
  topic,     (* what was published to each partition, in order             *)
  expired,   (* how many of its first records Kafka's retention deleted    *)
  offsets,   (* checkpoint: the initial position, then each batch's end    *)
  commits,   (* checkpoint: how many batches the commit log holds          *)
  pc,        (* where each replica's query is                              *)
  batch,     (* the batch each replica is at                               *)
  stamp,     (* the bronze_loaded_at of the batch function's run           *)
  writes,    (* appends to Bronze so far: a clock for bronze_loaded_at     *)
  crashes,   (* terminations so far                                        *)
  bronze,    (* rows of the Bronze table                                   *)
  dlq        (* rows of the dead letter table                              *)

kafka      == <<topic, expired>>
checkpoint == <<offsets, commits>>
tables     == <<bronze, dlq, writes>>
query      == <<pc, batch, stamp>>
vars       == <<kafka, checkpoint, query, crashes, tables>>

-----------------------------------------------------------------------------
(* Records and batches.                                                    *)

Positions == [Partitions -> 0 .. MaxLen]
Records   == Partitions \X (1 .. MaxLen)

Published(rec) == rec[2] <= Len(topic[rec[1]])
Readable(rec)  == Published(rec) /\ rec[2] > expired[rec[1]]
Payload(rec)   == topic[rec[1]][rec[2]]

Between(from, to) == {rec \in Records : from[rec[1]] < rec[2] /\ rec[2] <= to[rec[1]]}

Latest == [p \in Partitions |-> Len(topic[p])]

(* Where the commit log says the query is.                                 *)
Committed == offsets[commits + 1]

(* The rows batch_df yields when Spark evaluates it: every action reads    *)
(* Kafka again, and with failOnDataLoss=false the records that retention   *)
(* has deleted are silently missing.                                       *)
BatchRows(b) == {rec \in Between(offsets[b], offsets[b + 1]) : Readable(rec)}
ValidRows(b)   == {rec \in BatchRows(b) : GoesToBronze(Payload(rec))}
InvalidRows(b) == {rec \in BatchRows(b) : GoesToDlq(Payload(rec))}

SameEvent(r1, r2) == Payload(r1)["event_id"] = Payload(r2)["event_id"]

-----------------------------------------------------------------------------
(* Kafka.                                                                  *)

Publish(m) ==
  LET p == PartitionOf[m]
  IN  /\ Len(topic[p]) < MaxLen
      /\ topic' = [topic EXCEPT ![p] = Append(@, m)]
      /\ UNCHANGED <<expired, checkpoint, query, crashes, tables>>

(* The retention of the topic deletes the oldest record of a partition.    *)
Expire(p) ==
  /\ expired[p] < Len(topic[p])
  /\ expired' = [expired EXCEPT ![p] = @ + 1]
  /\ UNCHANGED <<topic, checkpoint, query, crashes, tables>>

-----------------------------------------------------------------------------
(* One query.                                                              *)

(* Two wrong restarts, for mutation: one runs the last committed batch     *)
(* again, one forgets that a planned batch was not committed.              *)
StartQueryOneBack(r) ==
  /\ pc[r] = "down"
  /\ offsets' = IF offsets = <<>> THEN <<Latest>> ELSE offsets
  /\ batch' = [batch EXCEPT ![r] = IF commits = 0 THEN 1 ELSE commits]
  /\ pc' = [pc EXCEPT ![r] = IF commits > 0 \/ Len(offsets) = 2 THEN "planned" ELSE "idle"]
  /\ UNCHANGED <<kafka, commits, stamp, crashes, tables>>

StartQueryForgetsPlan(r) ==
  /\ pc[r] = "down"
  /\ offsets' = IF offsets = <<>> THEN <<Latest>> ELSE offsets
  /\ batch' = [batch EXCEPT ![r] = commits + 1]
  /\ pc' = [pc EXCEPT ![r] = "idle"]
  /\ UNCHANGED <<kafka, commits, stamp, crashes, tables>>

(* start() against the checkpoint.  startingOffsets=latest applies to the  *)
(* very first start only; afterwards the checkpoint decides.  A batch that *)
(* was planned and not committed is run again.                             *)
StartQuery(r) ==
  /\ pc[r] = "down"
  /\ offsets' = IF offsets = <<>> THEN <<Latest>> ELSE offsets
  /\ batch' = [batch EXCEPT ![r] = commits + 1]
  /\ pc' = [pc EXCEPT ![r] = IF Len(offsets) = commits + 2 THEN "planned" ELSE "idle"]
  /\ UNCHANGED <<kafka, commits, stamp, crashes, tables>>

(* The source's rate limit: everything when that is at most MAX_OFFSETS    *)
(* records, otherwise a share of each partition that has records, at       *)
(* least one and at most MAX_OFFSETS.                                      *)
RateLimited(from, to) ==
  IF Cardinality(Between(from, Latest)) <= MAX_OFFSETS
  THEN to = Latest
  ELSE \A p \in Partitions :
         IF Latest[p] = from[p]
         THEN to[p] = from[p]
         ELSE /\ from[p] < to[p]
              /\ to[p] <= Latest[p]
              /\ to[p] <= from[p] + MAX_OFFSETS

(* A trigger that finds new offsets logs them as the next batch; the first *)
(* batch is run even when it is empty.                                     *)
PlanBatch(r) ==
  /\ pc[r] = "idle"
  /\ Len(offsets) = batch[r]
  /\ \E to \in Positions :
       /\ RateLimited(offsets[batch[r]], to)
       /\ batch[r] = 1 \/ to # offsets[batch[r]]
       /\ offsets' = Append(offsets, to)
  /\ pc' = [pc EXCEPT ![r] = "planned"]
  /\ UNCHANGED <<kafka, commits, batch, stamp, crashes, tables>>

(* A trigger that finds nothing new.                                       *)
IdleTrigger(r) ==
  /\ pc[r] = "idle"
  /\ Len(offsets) = batch[r]
  /\ offsets[batch[r]] = Latest
  /\ UNCHANGED vars

(* The offset log already holds this batch: another query planned it, and  *)
(* Spark stops this one.                                                   *)
PlanConflict(r) ==
  /\ pc[r] = "idle"
  /\ Len(offsets) > batch[r]
  /\ pc' = [pc EXCEPT ![r] = "down"]
  /\ UNCHANGED <<kafka, checkpoint, batch, stamp, crashes, tables>>

(* For mutation: the early return looks at the valid rows only.            *)
SkipNoValidRows(r) ==
  /\ pc[r] = "planned"
  /\ ValidRows(batch[r]) = {}
  /\ pc' = [pc EXCEPT ![r] = "dlq_done"]
  /\ UNCHANGED <<kafka, checkpoint, batch, stamp, crashes, tables>>

(* write_to_bronze returns at once when the batch is empty.                *)
SkipEmptyBatch(r) ==
  /\ pc[r] = "planned"
  /\ BatchRows(batch[r]) = {}
  /\ pc' = [pc EXCEPT ![r] = "dlq_done"]
  /\ UNCHANGED <<kafka, checkpoint, batch, stamp, crashes, tables>>

(* For mutation: row numbers compared with >= 1 instead of > 1, and a      *)
(* window that is partitioned by the record, which leaves every row first. *)
PicksNone(originals, rows) == originals \cap rows = {}
PicksAll(originals, rows) == originals = rows

(* The window that tags duplicates numbers the rows of one event_id by     *)
(* bronze_loaded_at, which is the same for the whole batch: any row of     *)
(* them may come first, and the first is the original.                     *)
PicksOriginals(originals, rows) ==
  /\ \A rec \in rows : \E o \in originals : SameEvent(o, rec)
  /\ \A o1, o2 \in originals : SameEvent(o1, o2) => o1 = o2

(* The append to Bronze: a plain append, which does not look for rows that *)
(* an earlier run of the batch has written.                                *)
WriteBronze(r) ==
  /\ pc[r] = "planned"
  /\ BatchRows(batch[r]) # {}
  /\ \E originals \in SUBSET ValidRows(batch[r]) :
       /\ PicksOriginals(originals, ValidRows(batch[r]))
       /\ bronze' = bronze \cup
            {[record       |-> rec,
              loaded_at    |-> writes + 1,
              is_duplicate |-> IF rec \in originals THEN "false" ELSE "true"]
                : rec \in ValidRows(batch[r])}
  /\ writes' = writes + 1
  /\ stamp' = [stamp EXCEPT ![r] = writes + 1]
  /\ pc' = [pc EXCEPT ![r] = "bronze_done"]
  /\ UNCHANGED <<kafka, checkpoint, batch, crashes, dlq>>

(* The append to the dead letter table, a plain append too: its rows carry *)
(* the bronze_loaded_at of the run, as those of Bronze.                    *)
WriteDlq(r) ==
  /\ pc[r] = "bronze_done"
  /\ dlq' = dlq \cup
       {[record             |-> rec,
         loaded_at          |-> stamp[r],
         validation_failure |-> ValidationFailure(Payload(rec))]
           : rec \in InvalidRows(batch[r])}
  /\ pc' = [pc EXCEPT ![r] = "dlq_done"]
  /\ UNCHANGED <<kafka, checkpoint, batch, stamp, crashes, bronze, writes>>

(* For mutation: a commit before the dead letters are written, and a batch *)
(* that is run again because its commit was not logged.                    *)
CommitBeforeDlq(r) ==
  /\ pc[r] = "bronze_done"
  /\ commits = batch[r] - 1
  /\ commits' = batch[r]
  /\ batch' = [batch EXCEPT ![r] = @ + 1]
  /\ pc' = [pc EXCEPT ![r] = "idle"]
  /\ UNCHANGED <<kafka, offsets, stamp, crashes, tables>>

RunBatchAgain(r) ==
  /\ pc[r] = "dlq_done"
  /\ pc' = [pc EXCEPT ![r] = "planned"]
  /\ UNCHANGED <<kafka, checkpoint, batch, stamp, crashes, tables>>

(* The batch function has returned: Spark adds the batch to the commit log *)
(* and waits for the next trigger.                                         *)
CommitBatch(r) ==
  /\ pc[r] = "dlq_done"
  /\ commits = batch[r] - 1
  /\ commits' = batch[r]
  /\ batch' = [batch EXCEPT ![r] = @ + 1]
  /\ pc' = [pc EXCEPT ![r] = "idle"]
  /\ UNCHANGED <<kafka, offsets, stamp, crashes, tables>>

(* For mutation: the late query overwrites the commit log.                 *)
CommitOver(r) ==
  /\ pc[r] = "dlq_done"
  /\ commits >= batch[r]
  /\ commits' = batch[r]
  /\ pc' = [pc EXCEPT ![r] = "down"]
  /\ UNCHANGED <<kafka, offsets, batch, stamp, crashes, tables>>

(* The commit log already holds this batch: another query ran it too.      *)
CommitConflict(r) ==
  /\ pc[r] = "dlq_done"
  /\ commits >= batch[r]
  /\ pc' = [pc EXCEPT ![r] = "down"]
  /\ UNCHANGED <<kafka, checkpoint, batch, stamp, crashes, tables>>

(* The query dies where it is: a SIGTERM, which main does not handle, the  *)
(* liveness probe, a node, an exception out of write_to_bronze, or         *)
(* query.stop() after a KeyboardInterrupt, which interrupts the batch.     *)
Terminate(r) ==
  /\ pc[r] # "down"
  /\ crashes < MaxCrashes
  /\ crashes' = crashes + 1
  /\ pc' = [pc EXCEPT ![r] = "down"]
  /\ UNCHANGED <<kafka, checkpoint, batch, stamp, tables>>

-----------------------------------------------------------------------------
Init ==
  /\ topic = [p \in Partitions |-> <<>>]
  /\ expired = [p \in Partitions |-> 0]
  /\ offsets = <<>>
  /\ commits = 0
  /\ pc = [r \in Replicas |-> "down"]
  /\ batch = [r \in Replicas |-> 1]
  /\ stamp = [r \in Replicas |-> 0]
  /\ writes = 0
  /\ crashes = 0
  /\ bronze = {}
  /\ dlq = {}

(* What a query that runs does when nothing goes wrong.                    *)
Advance(r) ==
  \/ PlanBatch(r) \/ SkipEmptyBatch(r) \/ WriteBronze(r) \/ WriteDlq(r)
  \/ CommitBatch(r)

Next ==
  \/ \E m \in Messages : Publish(m)
  \/ \E p \in Partitions : Expire(p)
  \/ \E r \in Replicas :
       \/ StartQuery(r)
       \/ Advance(r)
       \/ IdleTrigger(r)
       \/ PlanConflict(r)
       \/ CommitConflict(r)
       \/ Terminate(r)

Spec == Init /\ [][Next]_vars

(* The trigger of a query that runs fires every TRIGGER_SECONDS, and a     *)
(* batch that is under way goes on.  Nothing is assumed of the producers,  *)
(* of retention, or of whoever starts the job.                             *)
FairSpec == Spec /\ \A r \in Replicas : WF_vars(Advance(r))

-----------------------------------------------------------------------------
(* Properties.                                                             *)

Row       == [record : Records, loaded_at : Nat, is_duplicate : {"true", "false"}]
DeadLetter ==
  [record : Records,
   loaded_at : Nat,
   validation_failure : {"missing_required_fields", "invalid_event_type"}]

(* Every variable has its type; in particular no dead letter carries the   *)
(* "unknown" reason of validator.py's otherwise() branch.                  *)
TypeOK ==
  /\ topic \in [Partitions -> Seq(Messages)]
  /\ expired \in [Partitions -> Nat]
  /\ offsets \in Seq(Positions)
  /\ commits \in Nat
  /\ pc \in [Replicas -> {"down", "idle", "planned", "bronze_done", "dlq_done"}]
  /\ batch \in [Replicas -> Nat \ {0}]
  /\ stamp \in [Replicas -> Nat]
  /\ writes \in Nat
  /\ crashes \in Nat
  /\ bronze \subseteq Row
  /\ dlq \subseteq DeadLetter

InBronze(rec) == \E row \in bronze : row.record = rec
InDlq(rec)    == \E row \in dlq : row.record = rec
Landed(rec)   == InBronze(rec) \/ InDlq(rec)

Started == offsets # <<>>

(* At least once: whatever crashes happen and however many replicas share  *)
(* the checkpoint, a record behind the committed position that retention   *)
(* has not deleted is in Bronze when it is valid and in the dead letters   *)
(* otherwise.                                                              *)
CommittedLanded ==
  Started =>
    \A rec \in Between(offsets[1], Committed) :
      Readable(rec) => IF GoesToBronze(Payload(rec)) THEN InBronze(rec) ELSE InDlq(rec)

IsOriginal(row) == row.is_duplicate = "false"

(* Silver reads only the rows tagged is_duplicate=false, so the tags must  *)
(* not hide an event: of the event of every valid record behind the        *)
(* committed position some row counts as the original, whichever runs of   *)
(* the batch were cut short.                                               *)
CommittedVisible ==
  Started =>
    \A rec \in Between(offsets[1], Committed) :
      Readable(rec) /\ GoesToBronze(Payload(rec)) =>
        \E row \in bronze : IsOriginal(row) /\ SameEvent(row.record, rec)

(* With one replica, a record is appended again only by the run that       *)
(* follows a termination: n terminations give at most n + 1 copies of it.  *)
CopiesBoundedByCrashes ==
  \A rec \in Records : Cardinality({row \in bronze : row.record = rec}) <= crashes + 1

(* With one replica, only the batch in flight is ever written again: no    *)
(* step adds a row, to either table, for a record behind the committed     *)
(* position.                                                               *)
NoRewriteAfterCommit ==
  [][\A row \in (bronze' \ bronze) \cup (dlq' \ dlq) :
       Committed[row.record[1]] < row.record[2]]_vars

(* With one replica, as long as somebody keeps starting the job on its     *)
(* checkpoint, a record published after its first start reaches a table,   *)
(* unless retention deletes it first.                                      *)
PublishedLands ==
  ([]<> \E r \in Replicas : pc[r] # "down") =>
    \A rec \in Records :
      (Started /\ Published(rec) /\ offsets[1][rec[1]] < rec[2])
        ~> (Landed(rec) \/ ~ Readable(rec))

(* The job implements the abstract ingest: batches, offset log, replays    *)
(* and dead letters behind "nothing is committed that has not landed".     *)
Start == IF Started THEN offsets[1] ELSE [p \in Partitions |-> 0]

Ingest == INSTANCE AtLeastOnceIngest WITH
  begun     <- Started,
  start     <- Start,
  committed <- IF Started THEN Committed ELSE Start,
  landed    <- {row.record : row \in bronze} \cup {row.record : row \in dlq}

ImplementsIngest == Ingest!Spec

(* The rows tagged is_duplicate=false make up the table that the batch     *)
(* jobs are modelled against: one append gives an event at most one more,  *)
(* whatever the micro-batch holds, and none is ever taken away.            *)
EventIds == {m["event_id"] : m \in Messages}

Originals(id) == {row \in bronze : IsOriginal(row) /\ Payload(row.record)["event_id"] = id}

Feed == INSTANCE BronzeTable WITH
  Events <- EventIds,
  bronze <- [id \in EventIds |-> Cardinality(Originals(id))]

FeedsSilver == Feed!Spec

(* ---- What the repository says of the job, and the code does not do ---- *)

(* bronze_writer.py: "foreachBatch gives exactly-once semantics when       *)
(* combined with Delta Lake's idempotent writes".                          *)
AppendedOnce == \A r1, r2 \in bronze : r1.record = r2.record => r1 = r2

=============================================================================
