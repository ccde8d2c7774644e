---------------------------- MODULE DailyPipeline ----------------------------
(***************************************************************************)
(* One night's batch: the Airflow DAG run for a day                        *)
(* (orchestration/dags/roip_daily_pipeline.py) and the Kubernetes CronJob  *)
(* (infra/k8s/helm/roip/templates/batch-cronjob.yaml), which are both      *)
(* scheduled at 02:00 for the day before, and the programs they run:       *)
(* bronze_to_silver (SilverOrders, whose actions are used as they are),    *)
(* silver_to_gold as far as its exit code goes, daily_reconciliation and   *)
(* the Silver data quality suite.                                          *)
(*                                                                         *)
(* The schedulers see exit codes only.  Airflow retries a task, Kubernetes *)
(* restarts the container and with it the whole chain.                     *)
(***************************************************************************)
EXTENDS Integers, FiniteSets, Functions, SilverDqSuite

CONSTANTS
  Events, Days, DayOf, MaxCopies, MaxRuns, MaxFaults,   (* of SilverOrders *)
  Schedulers,     (* those deployed: a subset of {"dag", "cron"}           *)
  ds,             (* the day that is processed                             *)
  RETRIES,        (* default_args: retries of a task                       *)
  BACKOFF_LIMIT,  (* backoffLimit: restarts of the container               *)
  TOLERANCE_PCT,  (* the variance the reconciliation accepts, in percent   *)
  Columns         (* the Silver columns of each event, its time in hours   *)

ASSUME DailyPipelineAssumption ==
  /\ IsFiniteSet(Events)
  /\ Schedulers \subseteq {"dag", "cron"}
  /\ ds \in Days
  /\ DayOf \in [Events -> Days]
  /\ {MaxCopies, MaxRuns, MaxFaults, RETRIES, BACKOFF_LIMIT, TOLERANCE_PCT, ds} \subseteq Nat
  /\ \A e \in Events :   (* as Bronze and the partition by day leave them    *)
       GoesToBronze(Columns[e]) /\ Columns[e].event_timestamp \div 24 = DayOf[e]

VARIABLES
  bronze, created, silver, version, dqResults, pc, date, source, readVersion, faulted, runs, faults,
  running,    (* what each scheduler is running                            *)
  counted,    (* the day's Bronze rows its reconciliation has counted      *)
  verdict,    (* the status of its last reconciliation                     *)
  suite,      (* the status of the last run of the quality suite           *)
  task,       (* Airflow: the state of each task of the DAG run            *)
  tries,      (* Airflow: attempts of each task                            *)
  alerted,    (* Airflow: trigger_alert has printed its ALERT              *)
  chain,      (* Kubernetes: the command the container has come to         *)
  restarts    (* Kubernetes: restarts of the container                     *)

Silver == INSTANCE SilverOrders WITH Runners <- Schedulers

lakehouse  == <<bronze, created, silver, version, dqResults, pc, date, source, readVersion, faulted,
                runs, faults>>
airflow    == <<task, tries, alerted>>
kubernetes == <<chain, restarts>>
checks     == <<counted, verdict, suite>>
vars       == <<lakehouse, running, checks, airflow, kubernetes>>

-----------------------------------------------------------------------------
(* The wiring.                                                             *)

(* The DAG, as the tasks each task waits for.                              *)
Upstream ==
  [bronze_to_silver |-> {},
   silver_to_gold   |-> {"bronze_to_silver"},
   reconciliation   |-> {"silver_to_gold"},
   dq_gate          |-> {"reconciliation"},
   pipeline_success |-> {"dq_gate"},
   trigger_alert    |-> {"dq_gate"}]

Tasks == DOMAIN Upstream

(* The commands of the container, as what follows each when it succeeds.   *)
Following ==
  [bronze_to_silver |-> "silver_to_gold",
   silver_to_gold   |-> "reconciliation",
   reconciliation   |-> "dq_suite",
   dq_suite         |-> "complete"]

Programs == DOMAIN Following

(* For mutation: a task that is up for retry is not taken up again.        *)
RunnableOnce(t) ==
  /\ task[t] = "none"
  /\ \A u \in Upstream[t] : task[u] = "success"

(* All upstream tasks have succeeded, and this one may be tried.           *)
Runnable(t) ==
  /\ task[t] \in {"none", "up_for_retry"}
  /\ \A u \in Upstream[t] : task[u] = "success"

-----------------------------------------------------------------------------
(* Exit codes.                                                             *)

(* For mutation: the retries are not counted.                              *)
AfterAlwaysRetried(t, ok) == IF ok THEN "success" ELSE "up_for_retry"

(* Airflow: the state of a task after an attempt.                          *)
After(t, ok) ==
  IF ok THEN "success" ELSE IF tries[t] <= RETRIES THEN "up_for_retry" ELSE "failed"

(* For mutation: the commands without set -e.                              *)
ContainerGoesOn(p, ok) == chain' = Following[p] /\ restarts' = restarts

(* Kubernetes: set -e ends the container at the first command that fails.  *)
ContainerExits(p, ok) ==
  \/ ok /\ chain' = Following[p] /\ restarts' = restarts
  \/ ~ ok /\ restarts < BACKOFF_LIMIT
          /\ chain' = "bronze_to_silver" /\ restarts' = restarts + 1
  \/ ~ ok /\ restarts >= BACKOFF_LIMIT
          /\ chain' = "failed" /\ restarts' = restarts

Exit(s, p, ok) ==
  /\ running' = [running EXCEPT ![s] = "none"]
  /\ IF s = "dag"
     THEN task' = [task EXCEPT ![p] = After(p, ok)] /\ UNCHANGED <<tries, alerted, kubernetes>>
     ELSE ContainerExits(p, ok) /\ UNCHANGED airflow

(* A scheduler starts a program.                                           *)
Launch(s, p) ==
  /\ running[s] = "none"
  /\ running' = [running EXCEPT ![s] = p]
  /\ IF s = "dag"
     THEN /\ p \in Tasks
          /\ Runnable(p)
          /\ task' = [task EXCEPT ![p] = "running"]
          /\ tries' = [tries EXCEPT ![p] = @ + 1]
     ELSE chain = p /\ UNCHANGED <<task, tries>>
  /\ IF p = "bronze_to_silver" THEN Silver!Start(s, ds) ELSE UNCHANGED lakehouse
  /\ UNCHANGED <<checks, alerted, kubernetes>>

-----------------------------------------------------------------------------
(* The programs.                                                           *)

Arrive(batch) ==
  /\ Silver!Arrive(batch)
  /\ UNCHANGED <<running, checks, airflow, kubernetes>>

SilverStep(s) ==
  /\ \/ Silver!RunSilverDq(s) \/ Silver!BeginMerge(s) \/ Silver!NoTable(s)
     \/ Silver!CommitMerge(s) \/ Silver!MergeRaises(s) \/ Silver!Fault(s)
     \/ Silver!Overwrite(s)
  /\ UNCHANGED <<running, checks, airflow, kubernetes>>

SilverReturns(s) ==
  /\ Silver!Finish(s)
  /\ Exit(s, "bronze_to_silver", TRUE)
  /\ UNCHANGED checks

(* silver_to_gold raises when there is no Silver table.                    *)
SilverToGold(s) ==
  /\ running[s] = "silver_to_gold"
  /\ Exit(s, "silver_to_gold", created)
  /\ UNCHANGED <<lakehouse, checks>>

(* reconcile counts Bronze first and Silver later.  A Silver table that is *)
(* not there counts as zero rows, and so does one whose count raises.      *)
Total(rows) == SumFunction(rows)
SilverRows  == [e \in Events |-> IF DayOf[e] = ds THEN silver[e] ELSE 0]

Distance(m, n) == IF m > n THEN m - n ELSE n - m

(* For mutation: the variance is signed.                                   *)
StatusSigned(b, s) ==
  IF (s - b) * 100 <= TOLERANCE_PCT * (IF b > 1 THEN b ELSE 1) THEN "PASS" ELSE "FAIL"

Status(b, s) ==
  IF Distance(b, s) * 100 <= TOLERANCE_PCT * (IF b > 1 THEN b ELSE 1) THEN "PASS" ELSE "FAIL"

CountBronze(s) ==
  /\ running[s] = "reconciliation"
  /\ counted' = [counted EXCEPT ![s] = Silver!DayRows(ds)]
  /\ running' = [running EXCEPT ![s] = "counting_silver"]
  /\ UNCHANGED <<lakehouse, verdict, suite, airflow, kubernetes>>

CountSilver(s) ==
  /\ running[s] = "counting_silver"
  /\ \E rows \in {SilverRows, Silver!None} :
       verdict' = [verdict EXCEPT ![s] = Status(Total(counted[s]), Total(rows))]
  /\ Exit(s, "reconciliation", verdict'[s] = "PASS")
  /\ UNCHANGED <<lakehouse, counted, suite>>

(* The suite, which runs at two o'clock of the next day, or later.  Its    *)
(* checks read Silver one after the other; only the number of rows is not  *)
(* settled by what Bronze lets through, and this check reads once.  Any    *)
(* exception of load() gives the status ERROR, a table that is not there   *)
(* and one that is; an exception of a check ends the program (Dies).       *)
SuiteRows == [i \in {p \in Events \X (1 .. MaxCopies) : p[2] <= SilverRows[p[1]]} |-> Columns[i[1]]]
SuiteTime == 24 * (ds + 1) + 2

DqSuite(s) ==
  /\ running[s] = "dq_suite"
  /\ \E readable \in {created, FALSE} :
       /\ Exit(s, "dq_suite", ExitCode(RunDqSuite(readable, SuiteRows, SuiteTime)) = 0)
       /\ suite' = StatusOf(RunDqSuite(readable, SuiteRows, SuiteTime))
  /\ UNCHANGED <<lakehouse, counted, verdict>>

(* The program dies: the execution timeout, memory, an exception.  The     *)
(* dimension comes after the Silver write, so bronze_to_silver may fail    *)
(* when Silver is already written.                                         *)
Dies(s) ==
  /\ running[s] # "none"
  /\ IF running[s] = "bronze_to_silver"
     THEN Silver!Crash(s) \/ Silver!Finish(s)
     ELSE UNCHANGED lakehouse
  /\ Exit(s, IF running[s] = "counting_silver" THEN "reconciliation" ELSE running[s], FALSE)
  /\ UNCHANGED checks

-----------------------------------------------------------------------------
(* The tasks of the DAG that run no program of their own.                  *)

(* grep -c PASS recon_<ds>.log.  No program writes that file (the result   *)
(* goes to a Delta table), so grep exits with 2.                           *)
LogSaysPass == FALSE

DqGate ==
  /\ "dag" \in Schedulers
  /\ Runnable("dq_gate")
  /\ task' = [task EXCEPT !["dq_gate"] = "success",
                          ![IF LogSaysPass THEN "trigger_alert" ELSE "pipeline_success"] = "skipped"]
  /\ tries' = [tries EXCEPT !["dq_gate"] = @ + 1]
  /\ UNCHANGED <<lakehouse, running, checks, alerted, kubernetes>>

(* The task that the gate has chosen: pipeline_success prints a line,       *)
(* trigger_alert prints ALERT and exits with 1, and is retried.            *)
ChosenTask(t) ==
  /\ Runnable(t)
  /\ alerted' = (alerted \/ t = "trigger_alert")
  /\ tries' = [tries EXCEPT ![t] = @ + 1]
  /\ task' = [task EXCEPT ![t] =
                IF t = "pipeline_success" THEN "success"
                ELSE IF tries'[t] <= RETRIES THEN "up_for_retry" ELSE "failed"]
  /\ UNCHANGED <<lakehouse, running, checks, kubernetes>>

(* The trigger rule all_success: a task whose upstream has failed for good *)
(* is not run.                                                             *)
UpstreamFails(t) ==
  /\ task[t] = "none"
  /\ \E u \in Upstream[t] : task[u] \in {"failed", "upstream_failed"}
  /\ task' = [task EXCEPT ![t] = "upstream_failed"]
  /\ UNCHANGED <<lakehouse, running, checks, tries, alerted, kubernetes>>

-----------------------------------------------------------------------------
Init ==
  /\ Silver!Init
  /\ running = [s \in Schedulers |-> "none"]
  /\ counted = [s \in Schedulers |-> Silver!None]
  /\ verdict = [s \in Schedulers |-> "none"]
  /\ suite = "none"
  /\ task = [t \in Tasks |-> "none"]
  /\ tries = [t \in Tasks |-> 0]
  /\ alerted = FALSE
  /\ chain = "bronze_to_silver"
  /\ restarts = 0

Program(s) ==
  \/ SilverStep(s) \/ SilverReturns(s) \/ SilverToGold(s)
  \/ CountBronze(s) \/ CountSilver(s) \/ DqSuite(s)

AirflowScheduler ==
  \/ DqGate
  \/ \E t \in {"pipeline_success", "trigger_alert"} : ChosenTask(t)
  \/ \E t \in Tasks : UpstreamFails(t)

Next ==
  \/ \E batch \in SUBSET Events : Arrive(batch)
  \/ \E s \in Schedulers :
       \/ \E p \in Programs : Launch(s, p)
       \/ Program(s)
       \/ Dies(s)
  \/ AirflowScheduler

Spec == Init /\ [][Next]_vars

(* The schedulers start what they can, a program that is started goes on   *)
(* or is ended by the execution timeout, and the Airflow scheduler settles *)
(* the other tasks.                                                        *)
FairSpec ==
  /\ Spec
  /\ \A s \in Schedulers :
       /\ WF_vars(\E p \in Programs : Launch(s, p))
       /\ WF_vars(Program(s) \/ Dies(s))
  /\ WF_vars(AirflowScheduler)

-----------------------------------------------------------------------------
(* Properties.                                                             *)

Ended == {"success", "failed", "upstream_failed", "skipped"}

(* Every variable has its type; a task is never tried more often than its  *)
(* retries allow, and the container not restarted beyond its limit.        *)
TypeOK ==
  /\ Silver!TypeOK
  /\ running \in [Schedulers -> Programs \cup {"none", "counting_silver"}]
  /\ counted \in [Schedulers -> Silver!Bag]
  /\ verdict \in [Schedulers -> {"none", "PASS", "FAIL"}]
  /\ suite \in {"none", "PASS", "FAIL", "ERROR"}
  /\ task \in [Tasks -> Ended \cup {"none", "running", "up_for_retry"}]
  /\ tries \in [Tasks -> 0 .. RETRIES + 1]
  /\ alerted \in BOOLEAN
  /\ chain \in Programs \cup {"complete", "failed"}
  /\ restarts \in 0 .. BACKOFF_LIMIT

(* A scheduler vouches for the day when its reconciliation task succeeded, *)
(* or its container completed the chain.                                   *)
Vouches(s) == IF s = "dag" THEN task["reconciliation"] = "success" ELSE chain = "complete"

Missing(s) == {e \in Events : counted[s][e] > 0 /\ silver[e] = 0}

(* The reconciliation compares two numbers, taken at different times from  *)
(* tables that change in between, and Bronze may hold copies: still, when  *)
(* a scheduler has seen it succeed, the events of the day that it counted  *)
(* in Bronze are in Silver, up to the tolerance, and stay there whatever   *)
(* the other scheduler does.                                               *)
VouchedDayComplete ==
  \A s \in Schedulers :
    Vouches(s) => Cardinality(Missing(s)) * 100 <= TOLERANCE_PCT * Total(counted[s])

(* The two schedulers start at the same time for the same day and share    *)
(* nothing but the table, and either may fail and rerun at any point: an   *)
(* event of the day, once in Silver, is there for good.                    *)
DayIsKept == [][\A e \in Events : DayOf[e] = ds /\ silver[e] > 0 => silver'[e] > 0]_vars

(* The suite is the last word of the CronJob: once the chain is complete,  *)
(* and the suite has not ended with ERROR, the day has the rows that it    *)
(* asks for, for good, whatever the DAG run still does.  ERROR has the     *)
(* exit code 0 too, and vouches for nothing.                               *)
CheckedDayHasRecords ==
  chain = "complete" /\ suite # "ERROR" => Total(SilverRows) >= MIN_RECORDS

(* The DAG run comes to an end: every task has succeeded, failed for good  *)
(* or been passed over.                                                    *)
DagRunEnds == "dag" \in Schedulers => <>(\A t \in Tasks : task[t] \in Ended)

(* ---- What the DAG says of its gate, and does not do -------------------- *)

(* check_dq_gate: "Check if reconciliation passed. If yes -> mark_success. *)
(* If no -> trigger_backfill."  When the DAG run has ended, the alert has  *)
(* been given exactly when its reconciliation did not pass.                *)
AlertFollowsVerdict ==
  (\A t \in Tasks : task[t] \in Ended) /\ verdict["dag"] # "none" =>
    (alerted <=> verdict["dag"] = "FAIL")

=============================================================================
