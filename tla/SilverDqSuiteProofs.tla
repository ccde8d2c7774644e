------------------------- MODULE SilverDqSuiteProofs --------------------------
(***************************************************************************)
(* What the quality checks of SilverDqSuite can still find in rows that    *)
(* have come through the Bronze validator, and how the checks of the job   *)
(* compare with the warnings of the suite.                                 *)
(***************************************************************************)
EXTENDS SilverDqSuite, ValidatorProofs, FiniteSetTheorems

(* A row that the validator lets through has an event_id, an order_id and  *)
(* an event type of the platform.                                          *)
LEMMA ValidatedColumns ==
  ASSUME NEW row, GoesToBronze(row)
  PROVE  /\ row.event_id # Null
         /\ row.order_id # Null
         /\ row.event_type \in VALID_EVENT_TYPES
<1>1. IsValid(row) = "true"
  BY DEF GoesToBronze
<1>2. AllValid(row) = "true" /\ ValidType(row) = "true"
  <2>1. AllValid(row) \in Truth /\ ValidType(row) \in Truth
    BY AllValidKnown DEF ValidType, In3, Known, Truth
  <2> QED
    BY <1>1, <2>1 DEF IsValid, And3, Truth
<1>3. \A f \in REQUIRED_FIELDS : FieldCheck(row, f) \notin {"false", "unknown"}
  BY <1>2 DEF AllValid
<1>4. \A f \in REQUIRED_FIELDS : row[f] # Null
  BY <1>3 DEF FieldCheck, And3, IsNotNull, Known
<1>5. row.event_type \in VALID_EVENT_TYPES
  BY <1>2 DEF ValidType, In3, Known
<1> QED
  BY <1>4, <1>5 DEF REQUIRED_FIELDS

(* silver_orders_suite.py, its critical checks: on a day whose rows have   *)
(* all come through the validator and none of which is later than the      *)
(* moment of the suite, three null and type checks and the check for       *)
(* future events cannot fail: the exit code says only whether the day has  *)
(* the minimum number of rows, whatever the warnings say.                  *)
THEOREM SuiteCountsRows ==
  ASSUME NEW rows, NEW now \in Int,
         \A i \in DOMAIN rows :
           /\ GoesToBronze(rows[i])
           /\ rows[i].event_timestamp \in Int
           /\ rows[i].event_timestamp <= now
  PROVE  ExitCode(RunDqSuite(TRUE, rows, now)) = IF Size(rows) >= MIN_RECORDS THEN 0 ELSE 1
<1> DEFINE critical == Critical(rows, now)
           results  == RunDqSuite(TRUE, rows, now)
<1>1. NullEventIds(rows) = {} /\ NullOrderIds(rows) = {}
  BY ValidatedColumns DEF NullEventIds, NullOrderIds
<1>2. InvalidEventTypes(rows) = {}
  <2>1. ASSUME NEW i \in DOMAIN rows
        PROVE  Not3(In3(rows[i].event_type, VALID_EVENT_TYPES)) # "true"
    <3>1. rows[i].event_type \in VALID_EVENT_TYPES
      BY ValidatedColumns
    <3> QED
      BY <3>1 DEF In3, Not3, Known
  <2> QED
    BY <2>1 DEF InvalidEventTypes
<1>3. FutureEvents(rows, now) = {}
  BY DEF FutureEvents
<1>4. (\A c \in DOMAIN critical : critical[c]) <=> Size(rows) >= MIN_RECORDS
  <2>1. DOMAIN critical = {"no_null_event_ids", "no_null_order_ids", "minimum_record_count",
                           "valid_event_types_only", "no_future_events"}
    BY DEF Critical
  <2>2. /\ critical["no_null_event_ids"] /\ critical["no_null_order_ids"]
        /\ critical["valid_event_types_only"] /\ critical["no_future_events"]
    BY <1>1, <1>2, <1>3 DEF Critical
  <2>3. critical["minimum_record_count"] <=> Size(rows) >= MIN_RECORDS
    BY DEF Critical
  <2> HIDE DEF critical
  <2> QED
    BY <2>1, <2>2, <2>3
<1>5. /\ DOMAIN results = {"critical", "warning", "overall_status"}
      /\ results.overall_status = IF \A c \in DOMAIN critical : critical[c] THEN "PASS" ELSE "FAIL"
  BY DEF RunDqSuite
<1> HIDE DEF critical, results
<1>6. ExitCode(results) = IF Size(rows) >= MIN_RECORDS THEN 0 ELSE 1
  BY <1>4, <1>5 DEF ExitCode
<1> QED
  BY <1>6 DEF results

LEMMA TwoParts ==
  ASSUME NEW S, IsFiniteSet(S), NEW T \in SUBSET S
  PROVE  /\ Cardinality(T) \in Nat
         /\ Cardinality(S \ T) \in Nat
         /\ Cardinality(S \ T) + Cardinality(T) = Cardinality(S)
<1>1. IsFiniteSet(T) /\ IsFiniteSet(S \ T)
  BY FS_Subset, FS_Difference
<1>2. Cardinality(S \ T) = Cardinality(S) - Cardinality(S \cap T)
  BY FS_Difference
<1>3. S \cap T = T
  OBVIOUS
<1>4. /\ Cardinality(S) \in Nat
      /\ Cardinality(T) \in Nat
      /\ Cardinality(S \ T) \in Nat
  BY <1>1, FS_CardinalityType
<1>5. Cardinality(S \ T) = Cardinality(S) - Cardinality(T)
  BY <1>2, <1>3, Zenon
<1> QED
  BY <1>4, <1>5

(* run_silver_dq and the suite's warnings look at the same columns with    *)
(* thresholds that are stated differently (less than 5.0 percent after     *)
(* rounding, at least 95 percent): on a day with rows, checks that pass in *)
(* the job leave the suite nothing to warn of.                             *)
THEOREM JobPassedSuiteSilent ==
  ASSUME NEW rows, IsFiniteSet(DOMAIN rows), DOMAIN rows # {},
         \A i \in DOMAIN rows : rows[i].amount \in Int,
         DqPassed(rows)
  PROVE  LET warning == Warning(rows) IN
         /\ warning["amount_positive_rate"]
         /\ warning["city_known_rate"]
<1> DEFINE total == Size(rows)
<1>1. total \in Nat /\ total >= 1
  BY FS_CardinalityType, FS_EmptySet DEF Size
<1>2. /\ Cardinality(PositiveAmounts(rows)) \in Nat
      /\ Cardinality(NotPositive(rows)) \in Nat
      /\ Cardinality(PositiveAmounts(rows)) + Cardinality(NotPositive(rows)) = total
  <2>1. PositiveAmounts(rows) = DOMAIN rows \ NotPositive(rows)
    BY DEF PositiveAmounts, NotPositive
  <2>2. NotPositive(rows) \subseteq DOMAIN rows
    BY DEF NotPositive
  <2> QED
    BY <2>1, <2>2, TwoParts DEF Size
<1>3. /\ Cardinality(KnownCities(rows)) \in Nat
      /\ Cardinality(UnknownCities(rows)) \in Nat
      /\ Cardinality(KnownCities(rows)) + Cardinality(UnknownCities(rows)) = total
  <2>1. KnownCities(rows) = DOMAIN rows \ UnknownCities(rows)
    BY DEF KnownCities, UnknownCities
  <2>2. UnknownCities(rows) \subseteq DOMAIN rows
    BY DEF UnknownCities
  <2> QED
    BY <2>1, <2>2, TwoParts DEF Size
<1>4. AtLeastOne(total) = total
  BY <1>1 DEF AtLeastOne
<1>5. /\ 20000 * Cardinality(NotPositive(rows)) < 999 * total
      /\ 20000 * Cardinality(UnknownCities(rows)) < 1999 * total
  BY <1>4, <1>1, <1>2, <1>3 DEF DqPassed, PctBelow
<1>6. 100 * Cardinality(PositiveAmounts(rows)) >= 95 * total
  BY <1>1, <1>2, <1>5
<1>7. 100 * Cardinality(KnownCities(rows)) >= 90 * total
  BY <1>1, <1>3, <1>5
<1> QED
  BY <1>4, <1>6, <1>7 DEF Warning

(* The exception is a day without rows: the job's checks pass, since zero  *)
(* of zero is zero percent bad, and the suite warns, since zero of zero is *)
(* zero percent good.                                                      *)
THEOREM EmptyDayDisagrees ==
  ASSUME NEW rows, DOMAIN rows = {}
  PROVE  /\ DqPassed(rows)
         /\ ~ Warning(rows)["amount_positive_rate"]
         /\ ~ Warning(rows)["city_known_rate"]
<1>1. /\ NotPositive(rows) = {} /\ UnknownCities(rows) = {} /\ NullCustomers(rows) = {}
      /\ PositiveAmounts(rows) = {} /\ KnownCities(rows) = {}
  BY DEF NotPositive, UnknownCities, NullCustomers, PositiveAmounts, KnownCities
<1>2. Cardinality({}) = 0
  BY FS_EmptySet
<1>3. Size(rows) = 0 /\ AtLeastOne(Size(rows)) = 1
  BY <1>2 DEF Size, AtLeastOne
<1>4. DqPassed(rows)
  <2>1. PctBelow(0, Size(rows), 5) /\ PctBelow(0, Size(rows), 10)
    BY <1>3 DEF PctBelow
  <2> QED
    BY <1>1, <1>2, <2>1, Zenon DEF DqPassed
<1>5. Cardinality(PositiveAmounts(rows)) = 0 /\ Cardinality(KnownCities(rows)) = 0
  BY <1>1, <1>2, Zenon
<1>6. /\ ~ (100 * Cardinality(PositiveAmounts(rows)) >= 95 * AtLeastOne(Size(rows)))
      /\ ~ (100 * Cardinality(KnownCities(rows)) >= 90 * AtLeastOne(Size(rows)))
  BY <1>3, <1>5
<1> QED
  BY <1>4, <1>6 DEF Warning

=============================================================================
