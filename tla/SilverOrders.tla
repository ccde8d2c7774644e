----------------------------- MODULE SilverOrders -----------------------------
(***************************************************************************)
(* The Silver fact table: batch/jobs/bronze_to_silver.py up to and         *)
(* including write_silver_orders, run by any number of runners (the tasks  *)
(* of the Airflow DAG, the Kubernetes CronJob, a manual backfill) against  *)
(* a Bronze table that the streaming job keeps appending to.               *)
(*                                                                         *)
(* A row is known by its event.  A table is a bag of events, because       *)
(* Bronze may hold several rows of an event that are all tagged            *)
(* is_duplicate=false (its dedup looks at one micro-batch only); the rows  *)
(* tagged "true" are filtered out by read_bronze and are not modelled.     *)
(* An event's ingestion_date, event_date and processing_date are the same  *)
(* day, since ingestion_date is derived from occurred_at.                  *)
(*                                                                         *)
(* DataFrames are lazy: every step that needs the day's rows reads the     *)
(* version of Bronze that is current at that step.                         *)
(***************************************************************************)
EXTENDS Naturals

CONSTANTS
  Events,
  Days,
  DayOf,       (* the day an event occurred                                *)
  Runners,     (* processes that may run the job                           *)
  MaxCopies,   (* bound: is_duplicate=false rows of one event in Bronze    *)
  MaxRuns,     (* bound: runs of the job                                   *)
  MaxFaults    (* bound: exceptions of storage, memory, schema             *)

ASSUME SilverOrdersAssumption ==
  /\ DayOf \in [Events -> Days]
  /\ MaxCopies \in Nat
  /\ MaxRuns \in Nat
  /\ MaxFaults \in Nat

VARIABLES
  bronze,      (* is_duplicate=false rows of each event in Bronze          *)
  created,     (* the Silver table exists                                  *)
  silver,      (* rows of each event in Silver                             *)
  version,     (* commits to the Silver table                              *)
  dqResults,   (* rows of the DQ results table, per processing date        *)
  pc,          (* where each runner is                                     *)
  date,        (* its --date                                               *)
  source,      (* the rows its last read of Bronze returned                *)
  readVersion, (* the version of Silver its MERGE has read                 *)
  faulted,     (* some other exception has ended the try of its run        *)
  runs,        (* runs started                                             *)
  faults       (* such exceptions so far                                   *)

table  == <<created, silver, version>>
job    == <<pc, date, source, readVersion, faulted>>
limits == <<runs, faults>>
vars   == <<bronze, table, dqResults, job, limits>>

None == [e \in Events |-> 0]

Feed  == INSTANCE BronzeTable
Table == INSTANCE SilverTable

(* read_bronze: the rows of one day's partition.                           *)
DayRows(d) == [e \in Events |-> IF DayOf[e] = d THEN bronze[e] ELSE 0]

-----------------------------------------------------------------------------
(* The streaming job commits a micro-batch: events of the day, late events *)
(* of a day already processed, and copies of events that came in another   *)
(* micro-batch.                                                            *)
Arrive(batch) ==
  /\ batch # {}
  /\ \A e \in batch : bronze[e] < MaxCopies
  /\ Feed!Commit(batch)
  /\ UNCHANGED <<table, dqResults, job, limits>>

(* main: a run for the date it was given.                                  *)
Start(j, d) ==
  /\ pc[j] = "idle"
  /\ runs < MaxRuns
  /\ runs' = runs + 1
  /\ pc' = [pc EXCEPT ![j] = "started"]
  /\ date' = [date EXCEPT ![j] = d]
  /\ source' = [source EXCEPT ![j] = None]
  /\ faulted' = [faulted EXCEPT ![j] = FALSE]
  /\ UNCHANGED <<bronze, table, dqResults, readVersion, faults>>

(* run_silver_dq appends its metrics and lets the run go on whatever they  *)
(* say.                                                                    *)
RunSilverDq(j) ==
  /\ pc[j] = "started"
  /\ dqResults' = [dqResults EXCEPT ![date[j]] = @ + 1]
  /\ pc' = [pc EXCEPT ![j] = "checked"]
  /\ UNCHANGED <<bronze, table, date, source, readVersion, faulted, limits>>

(* The MERGE starts: it reads the source and the target.                   *)
BeginMerge(j) ==
  /\ pc[j] = "checked"
  /\ created
  /\ source' = [source EXCEPT ![j] = DayRows(date[j])]
  /\ readVersion' = [readVersion EXCEPT ![j] = version]
  /\ pc' = [pc EXCEPT ![j] = "merging"]
  /\ UNCHANGED <<bronze, table, dqResults, date, faulted, limits>>

(* DeltaTable.forPath raises: there is no table.                           *)
NoTable(j) ==
  /\ pc[j] = "checked"
  /\ ~ created
  /\ pc' = [pc EXCEPT ![j] = "fallback"]
  /\ UNCHANGED <<bronze, table, dqResults, date, source, readVersion, faulted, limits>>

(* Two source rows match one target row; Delta does not choose and raises. *)
Ambiguous(j) == \E e \in Events : silver[e] > 0 /\ source[j][e] > 1

(* For mutation: an append, an overwrite and a merge without its insert.   *)
AppendedAll(target, src) == [e \in Events |-> target[e] + src[e]]
SourceOnly(target, src) == src
UpdatedOnly(target, src) == target

(* whenMatchedUpdateAll and whenNotMatchedInsertAll: an event in Silver    *)
(* keeps its rows, any other gets all its source rows.                     *)
Merged(target, src) == [e \in Events |-> IF target[e] > 0 THEN target[e] ELSE src[e]]

(* The MERGE commits against the version it read.                          *)
CommitMerge(j) ==
  /\ pc[j] = "merging"
  /\ version = readVersion[j]
  /\ ~ Ambiguous(j)
  /\ silver' = Merged(silver, source[j])
  /\ version' = version + 1
  /\ pc' = [pc EXCEPT ![j] = "written"]
  /\ UNCHANGED <<bronze, created, dqResults, date, source, readVersion, faulted, limits>>

(* The MERGE raises, for two matches or because another writer committed   *)
(* after its read (every other writer touches rows a MERGE on event_id has *)
(* read); "except Exception" takes either for a missing table.             *)
MergeRaises(j) ==
  /\ pc[j] = "merging"
  /\ version # readVersion[j] \/ Ambiguous(j)
  /\ pc' = [pc EXCEPT ![j] = "fallback"]
  /\ UNCHANGED <<bronze, table, dqResults, date, source, readVersion, faulted, limits>>

(* Any other exception inside the try, before or during the MERGE:         *)
(* storage, memory, the schema, reading Bronze.  "except Exception" takes  *)
(* it for a missing table too.                                             *)
Fault(j) ==
  /\ pc[j] \in {"checked", "merging"}
  /\ faults < MaxFaults
  /\ faults' = faults + 1
  /\ faulted' = [faulted EXCEPT ![j] = TRUE]
  /\ pc' = [pc EXCEPT ![j] = "fallback"]
  /\ UNCHANGED <<bronze, table, dqResults, date, source, readVersion, runs>>

(* For mutation: the fallback writes the rows of the last read.            *)
OverwriteCached(j) ==
  /\ pc[j] = "fallback"
  /\ silver' = source[j]
  /\ created' = TRUE
  /\ version' = version + 1
  /\ pc' = [pc EXCEPT ![j] = "written"]
  /\ UNCHANGED <<bronze, dqResults, date, source, readVersion, faulted, limits>>

(* The fallback: the day's rows, read again, replace the whole table.      *)
Overwrite(j) ==
  /\ pc[j] = "fallback"
  /\ source' = [source EXCEPT ![j] = DayRows(date[j])]
  /\ silver' = DayRows(date[j])
  /\ created' = TRUE
  /\ version' = version + 1
  /\ pc' = [pc EXCEPT ![j] = "written"]
  /\ UNCHANGED <<bronze, dqResults, date, readVersion, faulted, limits>>

(* write_silver_orders has returned; the rest of the run (CustomerDim)     *)
(* does not touch this table.                                              *)
Finish(j) ==
  /\ pc[j] = "written"
  /\ pc' = [pc EXCEPT ![j] = "idle"]
  /\ UNCHANGED <<bronze, table, dqResults, date, source, readVersion, faulted, limits>>

(* The process dies (an exception outside the try, the execution timeout,  *)
(* an evicted pod); Delta commits are atomic, so nothing is left half done.*)
Crash(j) ==
  /\ pc[j] \notin {"idle", "written"}
  /\ pc' = [pc EXCEPT ![j] = "idle"]
  /\ UNCHANGED <<bronze, table, dqResults, date, source, readVersion, faulted, limits>>

-----------------------------------------------------------------------------
Init ==
  /\ bronze = None
  /\ created = FALSE
  /\ silver = None
  /\ version = 0
  /\ dqResults = [d \in Days |-> 0]
  /\ pc = [j \in Runners |-> "idle"]
  /\ date \in [Runners -> Days]
  /\ source = [j \in Runners |-> None]
  /\ readVersion = [j \in Runners |-> 0]
  /\ faulted = [j \in Runners |-> FALSE]
  /\ runs = 0
  /\ faults = 0

Step(j) ==
  \/ RunSilverDq(j) \/ BeginMerge(j) \/ NoTable(j) \/ CommitMerge(j)
  \/ MergeRaises(j) \/ Fault(j) \/ Overwrite(j) \/ Finish(j)

Next ==
  \/ \E batch \in SUBSET Events : Arrive(batch)
  \/ \E j \in Runners :
       \/ \E d \in Days : Start(j, d)
       \/ Step(j)
       \/ Crash(j)

Spec == Init /\ [][Next]_vars

-----------------------------------------------------------------------------
(* Properties.                                                             *)

Bag == [Events -> 0 .. MaxCopies]

(* Every variable has its type; no bag holds more than MaxCopies rows of   *)
(* an event.                                                               *)
TypeOK ==
  /\ bronze \in Bag
  /\ created \in BOOLEAN
  /\ silver \in Bag
  /\ version \in Nat
  /\ dqResults \in [Days -> Nat]
  /\ pc \in [Runners -> {"idle", "started", "checked", "merging", "fallback", "written"}]
  /\ date \in [Runners -> Days]
  /\ source \in [Runners -> Bag]
  /\ readVersion \in [Runners -> Nat]
  /\ faulted \in [Runners -> BOOLEAN]
  /\ runs \in Nat
  /\ faults \in Nat

(* Lineage: however often the job runs, for whatever dates, crashing,      *)
(* overlapping and falling back, Silver never holds more rows of an event  *)
(* than Bronze holds originals of it; so with a Bronze that has each event *)
(* once, Silver has no duplicates.                                         *)
SilverFromBronze == \A e \in Events : silver[e] <= bronze[e]

(* A write puts every event it has read from Bronze into Silver.           *)
WritePutsAll ==
  [][\A j \in Runners : pc[j] # "written" /\ pc'[j] = "written" =>
       \A e \in Events : source'[j][e] > 0 => silver'[e] > 0]_vars

Overtaken(j) == version # readVersion[j]
ReadTwice(j) == \E e \in Events : source[j][e] > 1

(* Rows go out of Silver only by a fallback over an existing table, never  *)
(* rows of the day that the run is for, and only when this run's MERGE met *)
(* another writer, or an event twice in what it read of Bronze, or some    *)
(* other exception.                                                        *)
LossExplained ==
  [][\A e \in Events : silver'[e] < silver[e] =>
       \E j \in Runners :
         /\ pc[j] = "fallback" /\ pc'[j] = "written"
         /\ DayOf[e] # date[j]
         /\ Overtaken(j) \/ ReadTwice(j) \/ faulted[j]]_vars

(* What readers of Silver may rely on, whoever runs the job: every commit  *)
(* either adds events of one day or replaces the table by one day.         *)
ImplementsTable == Table!Spec

(* ---- What bronze_to_silver.py says of the table, and does not do ------ *)

(* write_silver_orders: "If this job runs twice for the same date (Airflow *)
(* retry), MERGE matches on event_id and only updates if the record        *)
(* changed": a run never takes rows out of Silver.                         *)
NothingLost == [][\A e \in Events : silver'[e] >= silver[e]]_vars

=============================================================================
