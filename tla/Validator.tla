------------------------------ MODULE Validator ------------------------------
(***************************************************************************)
(* streaming/utils/validator.py: the split of a micro-batch into valid and *)
(* invalid rows.  Spark evaluates both filters in SQL's three-valued       *)
(* logic, where a comparison with a null is neither true nor false and a   *)
(* filter keeps only the rows for which its condition is TRUE.  A row for  *)
(* which the condition is UNKNOWN would be dropped by filter(c) and by     *)
(* filter(~c) alike, so the logic is modelled as it is.                    *)
(*                                                                         *)
(* A row is a function from the required fields to field values: Null, the *)
(* empty string or a proper value.                                         *)
(***************************************************************************)

CONSTANTS
  Null,              (* SQL NULL: the JSON lacks the field, or is not JSON *)
  Empty,             (* the empty string                                   *)
  VALID_EVENT_TYPES  (* the event types the platform knows                 *)

ASSUME ValidatorAssumption ==
  /\ Null # Empty
  /\ Null \notin VALID_EVENT_TYPES
  /\ Empty \notin VALID_EVENT_TYPES

REQUIRED_FIELDS == {"event_id", "event_type", "order_id", "customer_id"}

-----------------------------------------------------------------------------
(* Three-valued logic.                                                     *)

Truth == {"true", "false", "unknown"}

Known(b) == IF b THEN "true" ELSE "false"

And3(a, b) ==
  IF "false" \in {a, b} THEN "false"
  ELSE IF "unknown" \in {a, b} THEN "unknown" ELSE "true"

Not3(a) ==
  IF a = "unknown" THEN "unknown" ELSE Known(a = "false")

IsNotNull(v) == Known(v # Null)

(* v != w and v IN S are unknown when v is null.                           *)
NotEqual3(v, w) == IF v = Null THEN "unknown" ELSE Known(v # w)

In3(v, S) == IF v = Null THEN "unknown" ELSE Known(v \in S)

-----------------------------------------------------------------------------
(* The checks of validate_bronze_events.                                   *)

FieldCheck(row, f) == And3(IsNotNull(row[f]), NotEqual3(row[f], Empty))

(* The loop that conjoins the four field checks: a conjunction is false    *)
(* when one conjunct is, and unknown when none is false and one unknown.   *)
AllValid(row) ==
  LET checks == {FieldCheck(row, f) : f \in REQUIRED_FIELDS}
  IN  IF "false" \in checks THEN "false"
      ELSE IF "unknown" \in checks THEN "unknown" ELSE "true"

ValidType(row) == In3(row["event_type"], VALID_EVENT_TYPES)

IsValid(row) == And3(AllValid(row), ValidType(row))

(* df.filter(is_valid) and df.filter(~is_valid).                           *)
GoesToBronze(row) == IsValid(row) = "true"
GoesToDlq(row)    == Not3(IsValid(row)) = "true"

(* For mutation: the reason without its first branch.                      *)
ValidationFailureTypeOnly(row) ==
  IF Not3(ValidType(row)) = "true" THEN "invalid_event_type" ELSE "unknown"

(* F.when(~all_valid, ..).when(~valid_type, ..).otherwise(..)              *)
ValidationFailure(row) ==
  IF Not3(AllValid(row)) = "true" THEN "missing_required_fields"
  ELSE IF Not3(ValidType(row)) = "true" THEN "invalid_event_type"
  ELSE "unknown"

=============================================================================
