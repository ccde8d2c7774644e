---------------------------- MODULE ValidatorProofs ----------------------------
(***************************************************************************)
(* The split of streaming/utils/validator.py loses no row, duplicates no   *)
(* row and explains every dead letter, whatever the fields of a row hold.  *)
(***************************************************************************)
EXTENDS Validator, TLAPS

(* A field check is never unknown: where v != "" would be, isNotNull() is  *)
(* false and decides the conjunction.                                      *)
LEMMA FieldCheckKnown ==
  ASSUME NEW row, NEW f
  PROVE  /\ FieldCheck(row, f) \in {"true", "false"}
         /\ row[f] = Null => FieldCheck(row, f) = "false"
BY DEF FieldCheck, And3, IsNotNull, NotEqual3, Known

LEMMA AllValidKnown ==
  ASSUME NEW row
  PROVE  /\ AllValid(row) \in {"true", "false"}
         /\ row["event_type"] = Null => AllValid(row) = "false"
<1> DEFINE checks == {FieldCheck(row, f) : f \in REQUIRED_FIELDS}
<1>1. "unknown" \notin checks
  BY FieldCheckKnown
<1>2. row["event_type"] = Null => "false" \in checks
  <2>1. "event_type" \in REQUIRED_FIELDS
    BY DEF REQUIRED_FIELDS
  <2>2. row["event_type"] = Null => FieldCheck(row, "event_type") = "false"
    BY FieldCheckKnown
  <2> QED BY <2>1, <2>2
<1>3. AllValid(row) = IF "false" \in checks THEN "false"
                      ELSE IF "unknown" \in checks THEN "unknown" ELSE "true"
  BY DEF AllValid
<1> HIDE DEF checks
<1> QED BY <1>1, <1>2, <1>3

(* validate_bronze_events: every row goes to exactly one of the two        *)
(* DataFrames, whichever of its fields are null.                           *)
THEOREM SplitIsTotal ==
  ASSUME NEW row
  PROVE  /\ GoesToBronze(row) \/ GoesToDlq(row)
         /\ ~ (GoesToBronze(row) /\ GoesToDlq(row))
<1>1. IsValid(row) \in {"true", "false"}
  <2>1. CASE row["event_type"] = Null
    BY <2>1, AllValidKnown DEF IsValid, And3
  <2>2. CASE row["event_type"] # Null
    <3>1. ValidType(row) \in {"true", "false"}
      BY <2>2 DEF ValidType, In3, Known
    <3> QED BY <3>1, AllValidKnown DEF IsValid, And3
  <2> QED BY <2>1, <2>2
<1> QED BY <1>1 DEF GoesToBronze, GoesToDlq, Not3, Known

(* validate_bronze_events: no dead letter is labelled "unknown"; the       *)
(* otherwise() branch of its reason is dead code.                          *)
THEOREM DeadLetterExplained ==
  ASSUME NEW row, GoesToDlq(row)
  PROVE  ValidationFailure(row) \in {"missing_required_fields", "invalid_event_type"}
<1>1. IsValid(row) = "false"
  BY DEF GoesToDlq, Not3, Known
<1>2. AllValid(row) = "false" \/ ValidType(row) = "false"
  BY <1>1 DEF IsValid, And3
<1> QED BY <1>2 DEF ValidationFailure, Not3, Known

=============================================================================
