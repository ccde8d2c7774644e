---------------------------- MODULE SilverDqSuite -----------------------------
(***************************************************************************)
(* The two sets of quality checks on a day's Silver rows: the suite        *)
(* quality/expectations/silver_orders_suite.py, whose critical checks give *)
(* the exit code that the CronJob sees; and run_silver_dq of               *)
(* batch/jobs/bronze_to_silver.py, whose verdict is only recorded.         *)
(*                                                                         *)
(* A table of rows is a function from row identities to rows, because two  *)
(* rows may have the same columns.  A column may be Null; amounts, times   *)
(* and counts are integers, and rates are compared without dividing.       *)
(***************************************************************************)
EXTENDS Integers, FiniteSets, Validator

CONSTANT MIN_RECORDS   (* the rows a day must have: 100                    *)

ASSUME SilverDqSuiteAssumption == MIN_RECORDS \in Nat

Size(rows) == Cardinality(DOMAIN rows)

(* max(df.count(), 1).                                                     *)
AtLeastOne(n) == IF n > 1 THEN n ELSE 1

-----------------------------------------------------------------------------
(* The suite.                                                              *)

NullEventIds(rows) == {i \in DOMAIN rows : rows[i].event_id = Null}
NullOrderIds(rows) == {i \in DOMAIN rows : rows[i].order_id = Null}

(* ~isin(..) is unknown for a null event_type, which is not counted.       *)
InvalidEventTypes(rows) ==
  {i \in DOMAIN rows : Not3(In3(rows[i].event_type, VALID_EVENT_TYPES)) = "true"}

FutureEvents(rows, now) ==
  {i \in DOMAIN rows : rows[i].event_timestamp # Null /\ rows[i].event_timestamp > now}

Critical(rows, now) ==
  [no_null_event_ids      |-> NullEventIds(rows) = {},
   no_null_order_ids      |-> NullOrderIds(rows) = {},
   minimum_record_count   |-> Size(rows) >= MIN_RECORDS,
   valid_event_types_only |-> InvalidEventTypes(rows) = {},
   no_future_events       |-> FutureEvents(rows, now) = {}]

PositiveAmounts(rows) == {i \in DOMAIN rows : rows[i].amount > 0}
KnownCities(rows)     == {i \in DOMAIN rows : rows[i].city # "UNKNOWN"}

Warning(rows) ==
  [amount_positive_rate |-> 100 * Cardinality(PositiveAmounts(rows)) >= 95 * AtLeastOne(Size(rows)),
   city_known_rate      |-> 100 * Cardinality(KnownCities(rows)) >= 90 * AtLeastOne(Size(rows)),
   schema_version_distribution |-> TRUE]

(* run_dq_suite: a table that cannot be read gives a status under another  *)
(* key; failed warnings leave overall_status alone.                        *)
RunDqSuite(readable, rows, now) ==
  IF ~ readable THEN [status |-> "ERROR"]
  ELSE LET critical == Critical(rows, now) IN
       [critical |-> critical, warning |-> Warning(rows),
        overall_status |-> IF \A c \in DOMAIN critical : critical[c] THEN "PASS" ELSE "FAIL"]

(* The status, under whichever key.                                        *)
StatusOf(results) ==
  IF "overall_status" \in DOMAIN results THEN results.overall_status ELSE results.status

(* For mutation: main logs the failure and goes on.                        *)
ExitCodeZero(results) == 0

(* main.                                                                   *)
ExitCode(results) ==
  IF "overall_status" \in DOMAIN results /\ results.overall_status = "FAIL" THEN 1 ELSE 0

-----------------------------------------------------------------------------
(* The checks of the job.                                                  *)

(* round(n / total * 100, 2) < limit.                                      *)
PctBelow(n, total, limit) == 20000 * n < (200 * limit - 1) * AtLeastOne(total)

NotPositive(rows)   == {i \in DOMAIN rows : rows[i].amount <= 0}
UnknownCities(rows) == {i \in DOMAIN rows : rows[i].city = "UNKNOWN"}
NullCustomers(rows) == {i \in DOMAIN rows : rows[i].customer_id = Null}

DqPassed(rows) ==
  /\ PctBelow(Cardinality(NotPositive(rows)), Size(rows), 5)
  /\ PctBelow(Cardinality(UnknownCities(rows)), Size(rows), 10)
  /\ NullCustomers(rows) = {}

=============================================================================
