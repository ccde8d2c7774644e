------------------------------- MODULE GoldJob --------------------------------
(***************************************************************************)
(* The Gold job: batch/jobs/silver_to_gold.py, run by any number of        *)
(* runners (the task of the DAG, the CronJob, a backfill) while Silver     *)
(* changes as SilverTable says.                                            *)
(*                                                                         *)
(* The job replaces one day's partition in each of three Delta tables, by  *)
(* three commits.  DataFrames are lazy: each of the three writes reads the *)
(* Silver of its moment.  An event is a record of the columns that the     *)
(* aggregations look at, its time in hours; of an aggregation the row      *)
(* counts are kept, the sums and averages over the same groups left out.   *)
(***************************************************************************)
EXTENDS Integers, FiniteSets, Functions, Sequences

CONSTANTS
  Events,      (* [type, order, city, time]                                *)
  Days,
  MaxCopies,   (* bound: rows of one event in Silver                       *)
  MaxVersion,  (* bound: commits to Silver                                 *)
  Runners,
  MaxRuns      (* bound: runs of the job                                   *)

DayOf == [e \in Events |-> e.time \div 24]

ASSUME GoldJobAssumption ==
  /\ IsFiniteSet(Events)
  /\ \A e \in Events : e.time \in Nat /\ e.time \div 24 \in Days
  /\ {MaxCopies, MaxVersion, MaxRuns} \subseteq Nat

VARIABLES
  created, silver, version,   (* of SilverTable                            *)
  exists,    (* the Gold tables that have been created                     *)
  gold,      (* the facts in each table's partition of each day            *)
  from,      (* the version of Silver they were computed from              *)
  touched,   (* commits that added or removed files in the partition       *)
  run,       (* what each runner is at: its --date, the table it writes (by *)
             (* number in WriteOrder), the version of Silver when it began, *)
             (* the tables where it replaced nothing by nothing, and, while *)
             (* a write is under way, what it has computed from which       *)
             (* version and what its transaction saw of the target          *)
  runs       (* runs started                                               *)

Silver == INSTANCE SilverTable

silverVars == <<created, silver, version>>
goldVars   == <<exists, gold, from, touched>>
job        == <<run, runs>>
vars       == <<silverVars, goldVars, job>>

WriteOrder == <<"fact_hourly_orders", "fact_daily_sla", "fact_payment_health">>
Tables     == {"fact_hourly_orders", "fact_daily_sla", "fact_payment_health"}

NoFacts == [g \in {} |-> 0]
NoWrite == [facts |-> NoFacts]
Idle    == [pc |-> "idle"]

-----------------------------------------------------------------------------
(* The aggregations.                                                       *)

(* read_silver: the rows of one day, each copy of an event a row.          *)
DayRows(d) ==
  {r \in Events \X (1 .. MaxCopies) : DayOf[r[1]] = d /\ r[2] <= silver[r[1]]}

OfType(rows, types) == {r \in rows : r[1].type \in types}

(* groupBy and count: the groups are those that have rows.                 *)
CountBy(rows, Key(_)) ==
  [k \in {Key(r) : r \in rows} |-> Cardinality({r \in rows : Key(r) = k})]

HourlyOrders(rows) ==
  CountBy(OfType(rows, {"ORDER_PLACED"}), LAMBDA r : <<r[1].time % 24, r[1].city>>)

(* For mutation: an inner join.                                            *)
FulfillmentInner(rows) ==
  {f \in OfType(rows, {"ORDER_PLACED"}) \X OfType(rows, {"ORDER_DELIVERED"}) :
     f[1][1].order = f[2][1].order}

(* The left join of the orders placed with the deliveries, on order_id.    *)
Fulfillment(rows) ==
  LET placed    == OfType(rows, {"ORDER_PLACED"})
      delivered == OfType(rows, {"ORDER_DELIVERED"})
      Matches(p) == {q \in delivered : q[1].order = p[1].order}
  IN  UNION {{p} \X (IF Matches(p) = {} THEN {"none"} ELSE Matches(p)) : p \in placed}

DeliveryStatus(p, q) ==
  IF q = "none" THEN "PENDING"
  ELSE IF q[1].time - p[1].time <= 48 THEN "ON_TIME" ELSE "LATE"

DailySla(rows) ==
  CountBy(Fulfillment(rows), LAMBDA f : <<f[1][1].city, DeliveryStatus(f[1], f[2])>>)

PaymentHealth(rows) ==
  CountBy(OfType(rows, {"PAYMENT_INITIATED", "PAYMENT_SUCCESS", "PAYMENT_FAILED"}),
          LAMBDA r : r[1].type)

Facts(t, rows) ==
  CASE t = "fact_hourly_orders"  -> HourlyOrders(rows)
    [] t = "fact_daily_sla"      -> DailySla(rows)
    [] t = "fact_payment_health" -> PaymentHealth(rows)

-----------------------------------------------------------------------------
(* Runs.                                                                   *)

SilverChanges ==
  /\ version < MaxVersion
  /\ Silver!Next
  /\ UNCHANGED <<goldVars, job>>

(* main: read_silver raises when there is no Silver table, and the run     *)
(* ends; otherwise the three aggregations are set up, and nothing is read. *)
Start(s, d) ==
  /\ run[s] = Idle
  /\ runs < MaxRuns
  /\ runs' = runs + 1
  /\ created
  /\ run' = [run EXCEPT ![s] = [pc |-> "ready", date |-> d, at |-> 1, began |-> version,
                               vacuous |-> {}, write |-> NoWrite]]
  /\ UNCHANGED <<silverVars, goldVars>>

Target(s) == WriteOrder[run[s].at]

(* What a Delta transaction that replaces a partition depends on.          *)
Seen(t, d) == <<exists \cap {t}, touched[t][d]>>

(* For mutation: the aggregation is over the whole Silver table.           *)
BeginWriteUnfiltered(s) ==
  /\ run[s].pc = "ready"
  /\ run' = [run EXCEPT ![s].pc = "writing",
       ![s].write = [facts |-> Facts(Target(s), UNION {DayRows(d) : d \in Days}),
                     from  |-> version,
                     seen  |-> Seen(Target(s), run[s].date)]]
  /\ UNCHANGED <<silverVars, goldVars, runs>>

(* write_gold begins its transaction and runs the aggregation.             *)
BeginWrite(s) ==
  /\ run[s].pc = "ready"
  /\ run' = [run EXCEPT ![s].pc = "writing",
       ![s].write = [facts |-> Facts(Target(s), DayRows(run[s].date)),
                     from  |-> version,
                     seen  |-> Seen(Target(s), run[s].date)]]
  /\ UNCHANGED <<silverVars, goldVars, runs>>

(* For mutation: a plain overwrite, which takes no notice of others.       *)
NoConflict(s) == TRUE

(* Another writer created the table, or added or removed files in this     *)
(* partition, since the transaction began.                                 *)
Unchallenged(s) == run[s].write.seen = Seen(Target(s), run[s].date)

(* The commit of mode("overwrite") with replaceWhere: the day's partition  *)
(* is replaced and no other.  An empty result that replaces an empty       *)
(* partition touches no file.                                              *)
CommitWrite(s) ==
  LET t     == Target(s)
      d     == run[s].date
      write == run[s].write
      empty == gold[t][d] = NoFacts /\ write.facts = NoFacts
      last  == run[s].at = Len(WriteOrder)
  IN
  /\ run[s].pc = "writing"
  /\ Unchallenged(s)
  /\ exists' = exists \cup {t}
  /\ gold' = [gold EXCEPT ![t][d] = write.facts]
  /\ from' = [from EXCEPT ![t][d] = write.from]
  /\ touched' = [touched EXCEPT ![t][d] = IF empty THEN @ ELSE @ + 1]
  /\ run' = [run EXCEPT ![s].pc = IF last THEN "done" ELSE "ready",
                         ![s].at = IF last THEN @ ELSE @ + 1,
                         ![s].vacuous = IF empty THEN @ \cup {t} ELSE @,
                         ![s].write = NoWrite]
  /\ UNCHANGED <<silverVars, runs>>

End(s) == run' = [run EXCEPT ![s] = Idle] /\ UNCHANGED <<silverVars, goldVars, runs>>

(* The commit fails on a concurrent change: the exception ends the run.    *)
WriteRaises(s) == run[s].pc = "writing" /\ ~ Unchallenged(s) /\ End(s)

Finish(s) == run[s].pc = "done" /\ End(s)

(* The process dies: what it has committed stays.                          *)
Crash(s) == run[s].pc \in {"ready", "writing"} /\ End(s)

-----------------------------------------------------------------------------
Init ==
  /\ Silver!Init
  /\ exists = {}
  /\ gold = [t \in Tables |-> [d \in Days |-> NoFacts]]
  /\ from = [t \in Tables |-> [d \in Days |-> 0]]
  /\ touched = [t \in Tables |-> [d \in Days |-> 0]]
  /\ run = [s \in Runners |-> Idle]
  /\ runs = 0

Step(s) == BeginWrite(s) \/ CommitWrite(s) \/ WriteRaises(s) \/ Finish(s) \/ Crash(s)

Next ==
  \/ SilverChanges
  \/ \E s \in Runners : Step(s) \/ \E d \in Days : Start(s, d)

Spec == Init /\ [][Next]_vars

-----------------------------------------------------------------------------
(* Properties.                                                             *)

(* Two runs for one day may interleave their writes, crash and be run      *)
(* again: what a partition holds is never replaced by facts of an older    *)
(* Silver.  Only a partition that was empty may be, because a commit that  *)
(* replaces nothing by nothing is not noticed by others.                   *)
NeverOlder ==
  [][\A t \in Tables, d \in Days :
       from'[t][d] < from[t][d] => gold[t][d] = NoFacts]_vars

(* A run that completes leaves all three partitions of its day computed    *)
(* from Silver as it was when the run began or later, whatever a run that  *)
(* died before, or another one at the same time, has left in them; with    *)
(* the same exception.                                                     *)
RunLeavesFresh ==
  \A s \in Runners : run[s].pc = "done" =>
    \A t \in Tables : from[t][run[s].date] >= run[s].began \/ t \in run[s].vacuous

(* The tables of a day are written by different commits, possibly of       *)
(* different runs: whenever they were computed from the same Silver, the   *)
(* SLA scorecard has every order of the hourly table, at least once.       *)
ScorecardCoversOrders ==
  \A d \in Days :
    from["fact_hourly_orders"][d] = from["fact_daily_sla"][d] =>
      SumFunction(gold["fact_hourly_orders"][d]) <= SumFunction(gold["fact_daily_sla"][d])

(* The 48 hours of the SLA are measured between events of one day.  No     *)
(* order is ever LATE: one that is delivered on a later day is PENDING on  *)
(* its day for good, though both events are in Silver.                     *)
NothingIsLate ==
  \A d \in Days : \A g \in DOMAIN gold["fact_daily_sla"][d] : g[2] # "LATE"

=============================================================================
