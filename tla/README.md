# ROIP in TLA+

A verification project for the Real-time Order Intelligence Platform: a producer
writes order events to Kafka, a Spark Structured Streaming job lands them in a
Bronze Delta table, daily batch jobs build Silver and Gold from it, a DAG and a
CronJob run those, and a loader ships Gold to Snowflake. The modules here model the
parts that keep state and can fail half way, TLC checks them on small instances, and
TLAPS proves the main results for every instance. Paths below are relative to `src/`.

## 1. Inventory

| Component (source) | State | Operations | Interacts through | What is hard | What makes it correct |
|---|---|---|---|---|---|
| Event generator, producer (`ingestion/producers/`) | recent events, sent/dlq counters, client buffer | `next_event`, `route_event`, shutdown | topics `orders-raw`, `dlq-events` | sends fail after they were counted; a batch is sent again; a kill with a full buffer | a counted event is in its topic, held by the client or reported; a partition keeps the order of the sends; a shutdown ends |
| Bronze validator (`streaming/utils/validator.py`) | none | `validate_bronze_events` | called per micro-batch | nulls in SQL's three-valued logic | every row goes to exactly one side, with a true reason |
| Bronze stream (`streaming/jobs/bronze_stream.py`, `streaming/utils/bronze_writer.py`) | checkpoint (offset log, commit log), Bronze, dead letters | start, trigger, `write_to_bronze`, termination | Kafka, checkpoint volume, Delta | crash between the two appends and the commit; several pods on one checkpoint; retention; duplicates across batches | nothing committed is lost; rewrites are confined to the batch in flight; what is published lands while somebody keeps the job running |
| Silver facts (`batch/jobs/bronze_to_silver.py`) | Silver table, DQ results | `read_bronze`, `run_silver_dq`, `write_silver_orders` | Bronze (lazy reads), Delta commits | retries, overlapping runs, a MERGE that raises, late rows | no event is duplicated; rows are lost only by the fallback, and each loss has its cause |
| Customer dimension (same file) | `dim_customers` | `upsert_customer_dimension` | Silver job's DataFrame, clock | two commits per upsert, `current_date()`, same-day reruns, fallback | one timeline per customer without gaps or overlaps |
| Gold (`batch/jobs/silver_to_gold.py`) | three tables | three aggregations, `write_gold` | Silver | three commits that each read the Silver of their moment, overlapping and dying runs, SLA over one day's events | no partition goes back to an older Silver; a completed run leaves three fresh ones; other days untouched |
| Reconciliation (`batch/reconciliation/daily_reconciliation.py`) | result table | `reconcile` | Bronze, Silver | counts taken at different times than the job's reads | the verdict says whether the day is complete |
| DAG (`orchestration/dags/roip_daily_pipeline.py`) | task states | tasks, retries, `check_dq_gate` | exit codes, a log file | retries on the same day, the branch | a failed reconciliation raises the alert |
| CronJob (`infra/k8s/helm/roip/templates/batch-cronjob.yaml`) | job, pod | the same chain, `set -e` | exit codes | the whole chain reruns; runs next to the DAG | |
| Silver DQ suite (`quality/expectations/silver_orders_suite.py`) | report file | `run_dq_suite` | Silver, exit code | the ERROR path, nulls, the same thresholds stated twice | a chain that completed and could read Silver has left a day with enough rows |
| Autoscaler, chart (`infra/k8s/helm/roip/`) | replica count | scale out and in | the deployment | replicas share a checkpoint | |
| Snowflake loader (`serving/snowflake/04_snowflake_loader.py`) | staged files | `load_table` | Gold, files | a partition is counted and then read again while Gold replaces it; a file is truncated before it is written | the files of a completed run are whole and no older than Gold was |
| Snowflake tables and views (`serving/snowflake/*.sql`) | | queries | | | |
| Metrics, inspectors, schema checks, session factory | counters | | | no effect on the data | |

The components communicate by tables and logs only: the producer appends to a topic;
the stream reads the topic and appends to Bronze; the Silver job reads Bronze while
the stream appends; the dimension is written at the end of the same run; Gold and
reconciliation read Silver and Bronze afterwards; the schedulers see exit codes.

## 2. Plan

| # | Module | Composes | State |
|---|---|---|---|
| 1 | `Validator` | | done, proved |
| 2 | `BronzeStream`, refining `AtLeastOnceIngest` | `Validator` | done, safety and refinements proved |
| 3 | `SilverOrders` | | done, safety proved |
| 4 | `CustomerDim` | | done, safety proved |
| 5 | `DailyPipeline`: DAG, CronJob, reconciliation | `SilverOrders`, `SilverDqSuite` | done, safety proved |
| 6 | `SilverDqSuite`: the suite and the checks of the Silver job | `Validator` | done, proved |
| 7 | `BronzeTable`, `SilverTable`: contracts between the jobs | | done, both refinements proved |
| 8 | `GoldJob`: three replaceWhere writes, SLA classification | `SilverTable` | done, safety proved |
| 9 | `SnowflakeLoader` | `GoldJob` | done, safety proved |
| 10 | `OrderProducer`: generator, asynchronous sends, shutdown | | done, safety proved |

The whole is composed by contracts and not by one large state machine. Each contract is
an abstract specification of one table, implemented by its writer and taken as the
environment by its readers:

    OrderProducer -> topic -> BronzeStream ==> BronzeTable -> SilverOrders ==> SilverTable -> GoldJob -> SnowflakeLoader

`BronzeStream!FeedsSilver` and `SilverOrders!ImplementsTable` are the two refinements
(`==>`). A product of the modules would only repeat, at a size TLC cannot reach, the steps
that each of them already takes next to its environment.

Left: the dimension inside `DailyPipeline`; a contract for the topic, between
`OrderProducer` and `BronzeStream`. Theorems to come:
what the fallback of the dimension leaves behind, and its one-run-a-day results for the
days on which nothing spanned midnight, rather than up to the first such run.

## 3. Modules

### Validator
A row is a function from `REQUIRED_FIELDS` to `Null`, `Empty` or a value. `And3`,
`Not3`, `NotEqual3` and `In3` are Spark's three-valued operators, `IsValid` the
condition, `GoesToBronze` and `GoesToDlq` the two filters. The logic is kept because
the code would be wrong under a different one: `filter(c)` and `filter(~c)` both drop
a row for which `c` is null. It works since `isNotNull()` is false, not null, and
false absorbs null in a conjunction.

### BronzeStream
State: `topic` and `expired` (Kafka), `offsets` and `commits` (the checkpoint's two
logs), `bronze`, `dlq`, and for every replica `pc`, `batch` and `stamp`. `writes` is the
clock that stands for `bronze_loaded_at`; `stamp` is its value in the replica's run of the
batch function, so that rows of both tables tell which run wrote them, and an append that
is repeated adds rows to either. One replica's cycle:

    StartQuery  PlanBatch  WriteBronze or SkipEmptyBatch  WriteDlq  CommitBatch
    down -> idle -> planned -> bronze_done -> dlq_done -> idle

`Terminate` may happen at any point of it. `PlanConflict` and `CommitConflict` are
what Spark does when another query wrote the same log entry first. A batch is the
records between two offset log entries, read again by every action on `batch_df`
(`BatchRows`), without those that retention has deleted in the meantime. Duplicates
are tagged by choosing any one row per event, because the window is ordered by a
constant. The watermark, the parse of the JSON and the metadata columns other than
`bronze_loaded_at` and `is_duplicate` do not influence the control and are abstracted.

A behaviour is one life of the directory `/tmp/roip`. The code has both its checkpoint
(`bronze_stream.py:32`) and its tables there, so a restart on the same host finds both, and
a container that comes up without the directory finds neither and begins a new behaviour,
at `latest`. Several replicas on one checkpoint are the manifests' intent, not what they do
today (section 5).

Spark's micro-batch protocol and Kafka are libraries. They are modelled from how the
job configures them: `startingOffsets` latest on the first start only, one offset
log entry before a batch and one commit log entry after it, `maxOffsetsPerTrigger`
shared between the partitions in proportion to their backlog (any share of at least
one record is allowed here, so the model covers every rounding).

### AtLeastOnceIngest
The promise: records land in any order and any number of times; the committed
position passes a record only when it has landed or retention has deleted it.
`BronzeStream!ImplementsIngest` is the refinement, with the landed records being
those of either table.

### BronzeTable, SilverTable
What one job may assume of the table that another one writes. `BronzeTable`: an append
of a micro-batch adds at most one original (`is_duplicate=false`) of each event, and
nothing is removed. `SilverTable`: a commit either puts new events of one day in and
leaves all others alone, or replaces the whole table by rows of one day. The second kind
is in the contract because the fallback of `write_silver_orders` makes it.

### SilverOrders
Tables are bags of events: `bronze[e]` counts the rows tagged `is_duplicate=false`,
`silver[e]` the rows of Silver. Bronze can hold several such rows of one event, since
its tags look at one micro-batch only; it changes by `Arrive`, a step of `BronzeTable`.
Every runner goes through `Start`,
`RunSilverDq`, then `BeginMerge` and `CommitMerge`, or into the fallback `Overwrite` by one
of three ways: `NoTable`, which the code means; `MergeRaises`, the conflict or the ambiguous
match; and `Fault`, any other exception that `except Exception` catches (storage, memory,
the schema, the read of Bronze), before or during the MERGE. `faulted` remembers the third. DataFrames are lazy, so each step reads the Bronze of its moment.
Delta is modelled by its commit rule: a MERGE commits against the version that it
read and raises when another writer committed since, or when two source rows match
one target row. The casts and the values of the DQ metrics are abstracted, because
`run_silver_dq` never stops a run (its verdict is `SilverDqSuite!DqPassed`).

### SilverDqSuite
A day's Silver rows are a function from row identities to columns; a column may be null,
with the three-valued logic of `Validator`. `Critical` and `Warning` are the checks of
the suite, `RunDqSuite` with `ExitCode` its result and what `main` makes of it, the ERROR
status included, which has no `overall_status` and so leads to exit code 0 (`StatusOf` is the
status under either key). `DqPassed` is
what `run_silver_dq` records: the same thresholds, in percent after rounding to two
digits (`PctBelow`). Rates are compared without dividing.

### GoldJob
The environment is `SilverTable`. A run is `Start`, then `BeginWrite` and `CommitWrite`
for each of the tables in `WriteOrder`, then `Finish`; it ends early by `WriteRaises` or
`Crash`. The aggregations (`HourlyOrders`, `Fulfillment` with `DailySla`, `PaymentHealth`)
are computed from `DayRows` of the Silver at `BeginWrite`, since each write evaluates its
DataFrame anew. A partition is the function from groups to row counts; `from` remembers
the version of Silver it was computed from. `replaceWhere` is modelled by what a Delta
transaction depends on, `Seen`: that the table exists, and the commits that touched the
partition. A commit that replaces nothing by nothing touches no file, and is not noticed
by others: the reason for the one exception in `NeverOlder` and `RunLeavesFresh`.

### SnowflakeLoader
Extends `GoldJob` by one loader. `CountRows` or `SkipEmpty` is the `count()` of
`load_table`, `OpenFile` the second read of the partition (`toPandas`) and the truncation of
the file by `to_csv`, `CloseFile` the end of the write. `LoadEnds` is the end of `main`,
the exception, and the kill, wherever they happen.

### OrderProducer
The main thread is `CheckRunning`, one of `EmitOrder`, `EmitDuplicate` and `EmitMalformed`
(the kinds of events that `next_event` returns, routed by `Route`), and `FlushAndClose`
after the signal (`Shutdown`). The client is the library kafka-python, modelled from its
configuration at `order_producer.py:45-56`: `Send` only buffers, one batch per partition
is in flight (`Drain`), an answer is an acknowledgement, an error or nothing
(`Acknowledge`, `Retry`, `GiveUp`, each of the last two with the batch appended or not),
and a batch may wait for too long (`Expire`). `Die` is a kill or an exception of `send()`,
after which what the client held is lost.

### CustomerDim
`dim` is the table, with a number on every row to tell equal rows apart; `today` is
the clock and `Midnight` moves it, also inside a run. `MergeDim` and `AppendChanged`
are the two commits of an upsert; each evaluates the customer snapshot on its own,
and `F.first` may pick any of the day's cities. `Overwrite` is the code's fallback,
reached from `NoTable` as intended and from `Fault` (any other exception). A run's
date is any past day, so backfills and days in reverse order are included.

### DailyPipeline
One night for one day `ds`, with the DAG, the CronJob or both (`Schedulers`). The
module instantiates `SilverOrders` with one runner per scheduler, and uses its actions
unchanged for `bronze_to_silver`; the other programs are `SilverToGold` (as far as its
exit code goes), `CountBronze` and `CountSilver` (the two halves of `reconcile`, with
other steps in between) and `DqSuite` (run by the CronJob only; its exit code is that of
`SilverDqSuite` on the rows of the day). `CountSilver` may count no rows and `DqSuite` may end
with ERROR although the table is there, since both programs go on after any exception of
their read; `suite` keeps the status. A program returns
through `Exit`, which is all that a scheduler sees: Airflow sets the task's state
(`After`: success, retry or failure), Kubernetes goes on to the next command or restarts
the container from the first (`ContainerExits`). `Dies` ends a program at any point,
for `bronze_to_silver` also between the Silver write and the exit, where the dimension
is written. `DqGate` is the branch: `LogSaysPass` is constantly false because no program
writes the file that `check_dq_gate` greps; `ChosenTask` runs whichever task the gate left
over, so that a gate that works is a change of one definition. `UpstreamFails` is the trigger rule
`all_success`. The pauses between retries are left out, since a retry may be taken up
at any later time, and Gold's tables are too, as no later step of the night reads them.

### Proof modules
`ValidatorProofs`, `BronzeStreamProofs`, `SilverOrdersProofs`, `SilverDqSuiteProofs`,
`GoldJobProofs` (with the loader's), `OrderProducerProofs`, `CustomerDimProofs`,
`DailyPipelineProofs`. The modules `MCBronzeStream`, `MCSilverOrders`,
`MCCustomerDim`, `MCDailyPipeline`, `MCGold`, `MCOrderProducer` hold the instances only.

## 4. What the runs check

| Run | Instance | Shows |
|---|---|---|
| `BronzeSingle` | 1 partition, 1 replica, up to 3 records, 2 per batch, 1 termination | `CommittedLanded`, `CommittedVisible`, `CopiesBoundedByCrashes`, `NoRewriteAfterCommit`, `FeedsSilver`, `PublishedLands` |
| `BronzeReplicas` | 2 partitions, 2 replicas, 1 record per partition, 1 termination | `CommittedLanded`, `ImplementsIngest` under every interleaving of two pods on one checkpoint |
| `BronzeExactlyOnce` | as above, 1 replica | **violated**: `AppendedOnce`, the "exactly-once" of `bronze_writer.py:24` and `README.md:43` |
| `SilverRunners` | 2 runners, 3 runs, 2 days, 3 events, 2 copies of each, 1 other exception | `SilverFromBronze`, `WritePutsAll`, `LossExplained`, `ImplementsTable` |
| `SilverDaysLost` | 1 runner, no other exception | **violated**: `NothingLost`; a duplicated event makes the MERGE raise and the fallback replaces all days |
| `DimDaily` | 1 customer, 2 cities, days 0 to 4, 1 run a day, 1 crash, 1 fault, 1 midnight in a run | `PeriodsDisjoint`, `TimelineComplete`, `NewVersionDiffers`, `HistoryKept`, `SameCityTouchesOnly` |
| `DimRerun` | 2 runs a day, no failures | **violated**: `SameCityTouchesOnly`; the second run appends a second current row |
| `DailyBoth` | DAG and CronJob, 2 events of one day, 1 copy of each, 3 Silver runs, 1 retry, 1 restart, 1 other exception | `VouchedDayComplete`, `CheckedDayHasRecords`, `DayIsKept` |
| `DailyDag` | DAG only, 2 copies, 2 retries as configured, 1 other exception | `VouchedDayComplete`, `DagRunEnds` |
| `DailyAlert` | DAG only, 2 copies, 1 retry | **violated**: `AlertFollowsVerdict`; a reconciliation that passes is followed by the alert |
| `GoldServing` | 2 runners, 2 runs, 2 loads, 2 days, 4 events, 2 commits to Silver | `RunLeavesFresh`, `NeverOlder`, `ScorecardCoversOrders`, `NothingIsLate`, `ExportFollowsGold` |
| `ProducerDelivery` | 1 partition and the dead letters, 3 events, 2 retries | `CountedIsAccountedFor`, `CleanShutdownDelivers`, `InSendOrder`, `CopiesBoundedByRetries`, `ShutdownEnds` |

Why the bounds are enough. Three records with two per batch give a batch that is cut
by the limit, one that repeats an event across batches and one that mixes valid and
invalid rows; a batch depends only on the two latest offset log entries, so more
batches repeat the same steps. One termination reaches every point of the cycle, and
the proofs lift `CommittedLanded` to any number of them. Two replicas give every
conflict, because a conflict is between two writers of one log entry. In
`SilverRunners` three runs allow two overlapping runs after one that created the
table, and two copies are the least for an ambiguous MERGE; one other exception meets every
point of a write. It is left out of `SilverDaysLost`, to show that the loss does not need it.
Customers of the dimension
do not interact (each row is matched by its own customer), so one is enough; four days
allow a change, a change back, and a day in between. The bounds (`MaxLen`, `MaxCrashes`,
`MaxCopies`, `MaxRuns`, `MaxDay`, `MaxOrders`, `MaxRunsPerDay`, `MaxFaults`, `MaxSpans`)
are guards of environment actions and failures only, with one exception: `MaxRuns` also limits how
often a scheduler of `DailyPipeline` may start `bronze_to_silver`. In `DailyDag`, where
liveness is checked, it equals the number of attempts that the retries allow and so
limits nothing; in `DailyBoth` it leaves out the fourth of the four possible starts.
`RETRIES` and `BACKOFF_LIMIT` are the deployment's settings (2 each), of which one is
enough to have a run after a failed run. Two events let the reconciliation count one
event before and one after a write; with one copy of each, every row that Bronze counts
is one that Silver should have. Duplicates of an event are in `DailyDag`.

In `GoldServing`, two runs are what it takes for one to overtake the other, or to repair
what a dead one left, and two loads for a loader to repair a truncated file; two commits
to Silver give three versions, so that a run may begin in between, and its three writes
may each see another one. The runs are proved harmless in any number (section 6). The
four events fill all three tables, and contain an order delivered in time and a delivery
59 hours after the order. `Symmetry` permutes the runners: no definition and no constant
names one of them, and no liveness is checked there. `MaxVersion`, `MaxRuns` and `MaxLoads`
guard the environment and the starts of programs. In `ProducerDelivery`, three events give
a batch of two behind one that is retried. `RETRIES` is 2 where the code has 3: after one
that repeats a batch and one that is given up there is nothing new in a further one.
`RECENT_EVENTS` is 1 where the code has 500, so that the generator also forgets.
`MaxEvents` bounds the loop, which otherwise ends only by a signal; the theorems hold for
all three numbers. `MIN_RECORDS`, 100 in the code, is 2, the events of the day, so that a
day may have too few.

Deadlock is checked for the stream: a replica always has a step (`IdleTrigger`). In
the batch models runs and days are bounded, and a producer stops after its shutdown, so
those runs may end and say `CHECK_DEADLOCK FALSE`.

Fairness. `FairSpec` of `BronzeStream` has weak fairness of each replica's own progress,
`Advance`, while its query runs: the trigger fires every 30 seconds, and a batch under way
goes on. Nothing is assumed of producers, retention, conflicts, terminations, or of whoever
starts the job: outside Kubernetes nothing restarts it, and a restarted container has lost
`/tmp/roip`. `PublishedLands` therefore has the premise that the job, on its checkpoint,
runs again and again.

`FairSpec` of `DailyPipeline` has weak fairness of each scheduler's `Launch` (both
schedulers poll for work that is due), of each program
(`Program` or `Dies`: `execution_timeout` of the DAG ends one that hangs) and of the
Airflow scheduler's own decisions. It does not assume that a program ever succeeds.
`FairSpec` of `OrderProducer` has weak fairness of the main loop and of the sender of each
partition: the client has a thread for it, and a request is answered or times out
(`request_timeout_ms` of the client). It does not assume that an answer is ever good, nor
that there is a signal. The other specifications state no fairness.

## 5. Where the code and its documentation disagree

* Exactly-once (`BronzeExactlyOnce`): the append is not idempotent, there is no
  transaction id per batch. At-least-once is what holds.
* `write_silver_orders` and its `except Exception` (`SilverDaysLost`): any failure of
  the MERGE is taken for a missing table.
* Same-day rerun of the dimension (`DimRerun`): the append looks for rows expired
  *today*, not for rows expired *by this run*.
* The gate of the DAG (`DailyAlert`): `check_dq_gate` promises to tell a passed from a
  failed reconciliation. It greps a log file that no task writes, so it always chooses
  the alert, and it runs only after a reconciliation that passed, because a failed one
  fails its task. The alert is therefore raised exactly on the good days.

Backed by a property that holds, where a document or a name suggests more:

* The SLA (`NothingIsLate`): `fact_daily_sla` measures 48 hours between events of one day
  (`silver_to_gold.py:94-116`), so the status LATE never occurs, and an order delivered on
  a later day stays PENDING.
* The export (`ExportFollowsGold`): a day that Gold has emptied keeps the file it had,
  because `load_table` returns before it writes one.
* The producer (`CopiesBoundedByRetries`): `acks="all"` with retries and no idempotence
  gives up to one copy of a record per attempt.
* The quality suite (`CheckedDayHasRecords`): "DQ PASSED — pipeline continues" is logged
  for an ERROR as well (`silver_orders_suite.py:177-179`, `:270-275`). Any exception while
  Silver is loaded has that effect, so a chain may complete on a day with too few rows; the
  property holds of the chains whose suite could read the table.

Seen while reading and not backed by a run: the DQ suite says the DAG calls it
(`silver_orders_suite.py:7`) and only the CronJob does; DAG and CronJob are both
scheduled at 02:00 for the same day (`values.yaml:27`); "On restart, the checkpoint
overrides this and resumes from exactly where we left off" (`bronze_stream.py:41-44`), but
the chart mounts its volumes at `/data` and sets `CHECKPOINT_PATH` and `BRONZE_PATH`
(`streaming-deployment.yaml:47-56`, `:79-83`), which the code never reads: it writes under
`/tmp/roip`, which a restarted container does not have, so it begins at the latest offsets
and what was published in between does not land; "each replica
handles one partition" (`keda-scaledobject.yaml:28`) while every replica reads
all partitions, with one checkpoint as the manifests intend it; the payment table is "by gateway" (`silver_to_gold.py:9`, `:140`) and has the
event type for its only group (`:150`); duplicates are tagged per micro-batch, not
"stateful" (`README.md:155`); an event without `occurred_at` passes
`validate_bronze_events` and lands in a partition without date (`bronze_writer.py:45-49`)
that no daily run reads, though this repository's generator always sets it.

## 6. What is proved

Every invariant and every action property of the passing runs is a theorem, for all values
of the constants. Liveness is not.

Assumptions: the named ASSUMEs of the modules, which say that `Null`, `Empty` and the
event types differ, that payloads have the required fields, that partitions and Gold's
events are finite, that the times of Gold's events lie in its days, and that the bounds
are numbers. TLC evaluates them in the runs. Two groups of theorems have a hypothesis of
their own. `OneReplica` (of `CopiesBounded` and `NoRewrite`): the properties are false with
two, since a second pod may still append a batch that the first has committed; it is why
`BronzeSingle` has one. `OneRunPerDay` (of four theorems about the dimension): a second run on
one day gives a customer a second current row, as `DimRerun` shows; the schedule starts one
run a day, and crashes, faults and backfills are still included.

### Validator and quality suite

* `SplitIsTotal`, `DeadLetterExplained`: every row is kept by exactly one filter, and
  a dead letter never has the reason "unknown". The key lemma is that a field check is
  never unknown.
* `SuiteCountsRows`: on rows that the Bronze validator let through and that are not in
  the future, the exit code of the quality suite depends on the number of rows alone;
  `JobPassedSuiteSilent` and `EmptyDayDisagrees` compare it with the checks of the job.
  Validation, casts and thresholds live in three files; this is what they add up to.

### Bronze stream

* `AtLeastOnce` (`CommittedLanded`), for any number of replicas, partitions,
  messages and terminations. `CommittedLanded` is not inductive: it says nothing of
  the batch in flight. `IngestInv` adds that the offset log grows and is at most one
  entry ahead of the commit log (`LogInv`), that a replica's batch is at most that
  entry (`QueryInv`), and that a replica past its Bronze append or its dead letter
  append has landed the part of its batch that is still readable (`WrittenInv`), which
  stays true because tables grow and the readable part of a batch shrinks.
* `Visible` (`CommittedVisible`): `TaggedInv` is to the tags what `WrittenInv` is to the
  rows. A record of the batch that is not tagged as an original shares its event with one
  that is, and the rows of a table are published records, whose payloads never change.
* `IngestImplemented` (`ImplementsIngest`) and `FeedImplemented` (`FeedsSilver`): the two
  refinements, step by step. An append by whichever replica is one `Land` of the abstract
  ingest, a commit one `Commit`, the very first start its `Begin`; for Bronze's contract the
  append adds at most one original per event, told from all earlier rows by its load time
  (`LoadedInv`).
* `CopiesBounded` (`CopiesBoundedByCrashes`) and `NoRewrite` (`NoRewriteAfterCommit`) for one
  replica: `AloneInv` says that its batch is the one after the committed position, and
  `CopiesInv` that ahead of that position a record has been written once per termination,
  and once more if the batch in flight has written it. `NoRewrite` is about both tables.
* `TypeCorrect`: the type invariant.

### Silver job

* `SilverTypeCorrect`, and `SilverLineage` (`SilverFromBronze`), with the strengthening
  `LineageInv` that what a runner has read never exceeds what Bronze holds;
  `WritesPutAllEvents` (`WritePutsAll`) follows from it.
* `LossNeedsCause` (`LossExplained`), for any number of runners and any exceptions. Only a
  fallback takes rows out, and never those of its own day, which it puts back from Bronze
  (`LossIsFallback`, by `LineageInv`). The invariant is that a runner about to fall back over
  an existing table has itself been overtaken, has read an event twice, or has met another
  exception; versions only grow, so the cause does not disappear before the fallback acts.
* `AloneLosesOnlyToFaults`: with one runner and no duplicates in Bronze the third cause is the
  only one left. A rerun, a backfill or a crash alone loses nothing; what the retry claim of
  the job needs beyond that is an `except` that catches the missing table only.
* `SilverContract` (`ImplementsTable`): every step of the Silver job, of any number of
  runners, is a step of `SilverTable` or leaves the table alone.

### Customer dimension

* `DimTypeCorrect`, `HistoryIsKept` (`HistoryKept`), for any number of runs a day: without a
  fault the fallback finds no table, and there are no rows without one (`TableInv`).
* `OneCurrentRow` (`PeriodsDisjoint`), `SameCityIsTouched` (`SameCityTouchesOnly`). Disjoint
  periods are not inductive: the append opens a row at `today`, which could fall into the
  period of a row that was closed or opened today. `DayInv` adds that before the MERGE of a
  day all dates in the table are earlier, and that between MERGE and append a customer with
  a row closed today has no current one (`ExpiredIsLast`).
* `VersionsAreNew` (`NewVersionDiffers`). The append evaluates the snapshot anew, on orders
  that may have grown; `ExpiredMoved` keeps what it needs of the MERGE, that every city the
  day names for the customer differs from that of the row it closed.
* `TimelinesComplete` (`TimelineComplete`): half way, a customer has a current row or one
  closed today (`HalfComplete`), and in the second case the append names the customer.

### The night

* `PipelineRunsSilver`: what Airflow and the CronJob do to the tables is a behaviour of
  `SilverOrders!Spec`, so all theorems about the Silver job hold of the night, and their
  invariants are used there (`Job!ContractInv`).
* `DailyTypeCorrect` (`TypeOK`): the bounds on tries need that a task waiting for a retry
  has tries left (`TriesInv`).
* `DayStaysInSilver` (`DayIsKept`): all runs of the night are for `ds`, so a fallback puts
  Bronze's rows of that day back, and Silver never had more of them (`DayGrows`).
  `DueInv` says who runs what: the program of a scheduler is the task that it has marked as
  running, or the command that its container has come to.
* `CheckedDay` (`CheckedDayHasRecords`): a chain completes by the suite alone, whose exit code
  and status belong together (exit code 0 means ERROR or enough rows, `StatusKnown`); nothing
  writes over the status afterwards (`ChainCompletes`), and the rows of the day only grow.
* `VouchedDay` (`VouchedDayComplete`). The difficulty is that sums are compared, taken at two
  times, where one event's copies could make up for another's absence. `SidesInv` is why they
  cannot: Silver either holds every event that was counted in Bronze, or of no event more
  rows than were counted; a write under way carries the same alternative. In the
  second case the difference of the sums bounds the number of missing events, and so it does
  when the count of Silver failed and is taken for zero (`PassBoundsMissing`).

### Gold and the loader

* `CompletedRunIsFresh` (`RunLeavesFresh`), `GoldNeverGoesBack` (`NeverOlder`), for any
  runners, runs and commits. Neither is inductive, as they say nothing of writes under
  way. `FreshInv` adds that clocks only grow (`Clocks`); that a write which no one has
  challenged yet is not behind its partition (`NotBehind`); and that for a partition which
  a run has written, every unchallenged write under way will leave it as new as that run
  (`StaysFresh`). A commit keeps this since it touches the partition, and thereby
  challenges every rival that began before it, unless it replaced nothing by nothing.
* `NoOrderIsEverLate` (`NothingIsLate`), for any events: both ends of the 48 hours are rows
  of one day, and a writer under way carries facts without LATE.
* `ScorecardCoversHourly` (`ScorecardCoversOrders`). The model keeps the version that a
  partition was computed from, not its rows, so nothing in the state ties two partitions of
  one version to one Silver. `HistoryInv` says that there is a history, a Silver for each
  version so far, from which every partition and every write under way was computed. Each
  commit to Silver extends it. Of one Silver, the join keeps every order, and the
  counts of the groups of a partition add up to its rows (`CountsAddUp`: the number of
  rows in a set of groups satisfies the recursion of the sum, and nothing else does, `SumIs`).
* `ServingTypeOK` (`TypeOK`), `ExportIsFresh` (`ExportFollowsGold`): a file under way is not
  older than Gold was when the load began, since partitions do not go back. The results on
  the job are stated for `Spec`; `LoadSpec` adds steps that leave the job's variables alone.

### Producer

* `ProducerTypeCorrect` (`TypeOK`), `NoEventForgotten` (`CountedIsAccountedFor`),
  `ShutdownDelivers` (`CleanShutdownDelivers`), for any topic, retries and number of events.
  Each step of the client is shown to move records between queue, flight, topic and the
  reported ones without losing any (`Moves`); that is all the invariant needs.
* `PartitionInOrder` (`InSendOrder`), `RetriesBoundCopies` (`CopiesBoundedByRetries`). The
  invariant `OrderInv` is of the whole line of a partition: one batch at most is in flight;
  the records of batches are increasing, each batch below the next; the topic holds records
  of the batch in flight or earlier ones, of that batch all or none, and at most as many
  copies as it has had tries.

Only model-checked: `PublishedLands`, `DagRunEnds` and `ShutdownEnds`, since liveness under
fairness and ENABLED are outside what the prover handles. The four violated properties are
counterexamples on an instance, and need no proof. The sums (`SumFunction` of the community
modules, the folds) are used through their recursion equations, and induction over them is
replaced by a smallest set on which two sums would differ.

## 7. Not modelled

* Sums, averages and percentages in Gold's rows: they are functions of the same groups of
  rows whose counts are modelled, and no condition looks at them. Of the columns that
  Gold groups by, only those with which the groups of two tables are compared are kept.
* Pipeline metrics, inspectors, the syntax check of the Avro files, session settings: no
  state that the pipeline reads.
* Topic setup and the test consumer: run by hand, once.
* Snowflake's tables and views: definitions and queries; nothing in the repository loads
  the staged files into them.
* Column values (amounts, devices) and casts in Silver are abstracted, except in
  `SilverDqSuite`. The device of a customer is left out of the dimension: no condition
  looks at it. `generate_payment_event` is never called.
* KEDA's scaling decisions; their effect is the number of replicas.
* Fields of Delta other than commit versions (file layout, vacuum, schema merge) are left
  to Delta.
* The loss of the directory `/tmp/roip`, which takes checkpoint and tables with it.
* A produce request that timed out and is appended after its successor: the model ends a
  request for good when the client gives it up.
