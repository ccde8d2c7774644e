------------------------------ MODULE CustomerDim ------------------------------
(***************************************************************************)
(* The customer dimension: upsert_customer_dimension of                    *)
(* batch/jobs/bronze_to_silver.py, one runner at a time.                   *)
(*                                                                         *)
(* A dimension row carries a number that tells equal rows apart, so that   *)
(* the set dim is the table's bag of rows.  The steps of a run are the     *)
(* MERGE and the append of the changed customers, two Delta commits; the   *)
(* customer snapshot is a lazy DataFrame, evaluated by each step against   *)
(* the Bronze table and the clock of that moment.  F.first has no order to *)
(* go by, so each evaluation takes the city of any of the customer's       *)
(* events of the day.  (ignorenulls has no effect: cast_and_extract has    *)
(* replaced missing cities by UNKNOWN, a city like any other.)             *)
(***************************************************************************)
EXTENDS Naturals, FiniteSets

CONSTANTS
  Customers,
  Cities,
  Null,          (* a null effective_to                                    *)
  MaxDay,        (* bound: the last calendar day                           *)
  MaxOrders,     (* bound: (customer, city) pairs seen on the days         *)
  MaxRunsPerDay, (* bound: runs started on one calendar day                *)
  MaxCrashes,    (* bound: runs that die                                   *)
  MaxFaults,     (* bound: MERGEs that raise though the table is there     *)
  MaxSpans       (* bound: midnights that pass while a run is under way    *)

ASSUME CustomerDimAssumption ==
  /\ Null \notin Nat
  /\ MaxDay \in Nat \ {0}
  /\ MaxOrders \in Nat
  /\ MaxRunsPerDay \in Nat
  /\ MaxCrashes \in Nat
  /\ MaxFaults \in Nat
  /\ MaxSpans \in Nat

VARIABLES
  today,      (* current_date()                                            *)
  orders,     (* what Bronze shows: <<day, customer, city>> of its events  *)
  created,    (* the dimension table exists                                *)
  dim,        (* its rows                                                  *)
  inserted,   (* rows inserted so far: numbers the rows                    *)
  pc,         (* where the run is                                          *)
  date,       (* its --date                                                *)
  runsToday,  (* runs started since midnight                               *)
  crashes,    (* runs that died                                            *)
  faults,     (* MERGEs that raised                                        *)
  spans       (* midnights that passed during a run                        *)

table  == <<created, dim, inserted>>
limits == <<runsToday, crashes, faults, spans>>
vars   == <<today, orders, table, pc, date, limits>>

-----------------------------------------------------------------------------
(* The customer snapshot of a day: a city for each customer with an event. *)
Seen(d)     == {o[2] : o \in {x \in orders : x[1] = d}}
Snapshot(d) ==
  {snap \in [Seen(d) -> Cities] : \A c \in Seen(d) : <<d, c, snap[c]>> \in orders}

Current(c) == {row \in dim : row.customer = c /\ row.is_current}

(* For mutation: the join without its date condition.                      *)
ExpiredEver(c) == {row \in dim : row.customer = c /\ ~ row.is_current}

(* The rows that the changed customers join with: expired today.           *)
ExpiredToday(c) ==
  {row \in dim : row.customer = c /\ ~ row.is_current /\ row.effective_to = today}

NewRow(c, city, n) ==
  [customer |-> c, city |-> city, effective_from |-> today, effective_to |-> Null,
   is_current |-> TRUE, last_seen_at |-> date, number |-> n]

(* Rows are numbered by customer and commit; k tells the rows of one       *)
(* customer in one commit apart.                                           *)
Number(c, k) == <<inserted, c, k>>

-----------------------------------------------------------------------------
(* The environment: events of past days and of today reach Bronze, and     *)
(* midnight passes.                                                        *)

Order(d, c, city) ==
  /\ Cardinality(orders) < MaxOrders
  /\ d <= today
  /\ orders' = orders \cup {<<d, c, city>>}
  /\ UNCHANGED <<today, table, pc, date, limits>>

Midnight ==
  /\ today < MaxDay
  /\ IF pc = "idle" THEN spans' = spans
     ELSE spans < MaxSpans /\ spans' = spans + 1
  /\ today' = today + 1
  /\ runsToday' = 0
  /\ UNCHANGED <<orders, table, pc, date, crashes, faults>>

-----------------------------------------------------------------------------
(* A run for a day that is over: the scheduler's yesterday, or a backfill. *)
Start(d) ==
  /\ pc = "idle"
  /\ runsToday < MaxRunsPerDay
  /\ d < today
  /\ date' = d
  /\ runsToday' = runsToday + 1
  /\ pc' = "merge"
  /\ UNCHANGED <<today, orders, table, crashes, faults, spans>>

(* For mutation: the expiry forgets the flag, the two cases are swapped,   *)
(* and the match condition lacks is_current.                               *)
MergedRowKeepsFlag(row, snap) ==
  IF row.customer \notin DOMAIN snap \/ ~ row.is_current THEN row
  ELSE IF row.city = snap[row.customer]
       THEN [row EXCEPT !.last_seen_at = date]
       ELSE [row EXCEPT !.effective_to = today]
MergedRowSwapped(row, snap) ==
  IF row.customer \notin DOMAIN snap \/ ~ row.is_current THEN row
  ELSE IF row.city # snap[row.customer]
       THEN [row EXCEPT !.last_seen_at = date]
       ELSE [row EXCEPT !.effective_to = today, !.is_current = FALSE]
MergedRowAnyVersion(row, snap) ==
  IF row.customer \notin DOMAIN snap THEN row
  ELSE IF row.city = snap[row.customer]
       THEN [row EXCEPT !.last_seen_at = date]
       ELSE [row EXCEPT !.effective_to = today, !.is_current = FALSE]

(* The MERGE.  A current row of a customer of the snapshot is touched when *)
(* the city is the same and expired when it is not; a customer without a   *)
(* current row is inserted.                                                *)
MergedRow(row, snap) ==
  IF row.customer \notin DOMAIN snap \/ ~ row.is_current THEN row
  ELSE IF row.city = snap[row.customer]
       THEN [row EXCEPT !.last_seen_at = date]
       ELSE [row EXCEPT !.effective_to = today, !.is_current = FALSE]

MergeDim ==
  /\ pc = "merge"
  /\ created
  /\ \E snap \in Snapshot(date) :
       dim' = {MergedRow(row, snap) : row \in dim}
              \cup {NewRow(c, snap[c], Number(c, 1))
                      : c \in {x \in DOMAIN snap : Current(x) = {}}}
  /\ inserted' = inserted + 1
  /\ pc' = "append"
  /\ UNCHANGED <<today, orders, created, date, limits>>

(* changed_customers: the snapshot, joined with the rows expired today; a  *)
(* customer with several such rows is joined with each.                    *)
AppendChanged ==
  /\ pc = "append"
  /\ \E snap \in Snapshot(date) :
       dim' = dim \cup
         UNION {{NewRow(c, snap[c], Number(c, k)) : k \in 1 .. Cardinality(ExpiredToday(c))}
                  : c \in DOMAIN snap}
  /\ inserted' = inserted + 1
  /\ pc' = "idle"
  /\ UNCHANGED <<today, orders, created, date, limits>>

(* DeltaTable.forPath raises, as it should: there is no table.             *)
NoTable ==
  /\ pc = "merge"
  /\ ~ created
  /\ pc' = "fallback"
  /\ UNCHANGED <<today, orders, table, date, limits>>

(* The MERGE or the append raises for any other reason: a conflict with    *)
(* another writer, storage, memory.  "except Exception" catches it too.    *)
(* (The count of the log line may still raise after the append; the        *)
(* fallback then leaves the table it would have left before it.)           *)
Fault ==
  /\ pc \in {"merge", "append"}
  /\ faults < MaxFaults
  /\ faults' = faults + 1
  /\ pc' = "fallback"
  /\ UNCHANGED <<today, orders, table, date, runsToday, crashes, spans>>

(* The fallback: the snapshot replaces the whole table.                    *)
Overwrite ==
  /\ pc = "fallback"
  /\ \E snap \in Snapshot(date) :
       dim' = {NewRow(c, snap[c], Number(c, 1)) : c \in DOMAIN snap}
  /\ created' = TRUE
  /\ inserted' = inserted + 1
  /\ pc' = "idle"
  /\ UNCHANGED <<today, orders, date, limits>>

(* The process dies between two commits.                                   *)
Crash ==
  /\ pc # "idle"
  /\ crashes < MaxCrashes
  /\ crashes' = crashes + 1
  /\ pc' = "idle"
  /\ UNCHANGED <<today, orders, table, date, runsToday, faults, spans>>

-----------------------------------------------------------------------------
Init ==
  /\ today = 1
  /\ orders = {}
  /\ created = FALSE
  /\ dim = {}
  /\ inserted = 0
  /\ pc = "idle"
  /\ date = 0
  /\ runsToday = 0
  /\ crashes = 0
  /\ faults = 0
  /\ spans = 0

Next ==
  \/ \E d \in 0 .. MaxDay, c \in Customers, city \in Cities : Order(d, c, city)
  \/ Midnight
  \/ \E d \in 0 .. MaxDay : Start(d)
  \/ MergeDim
  \/ AppendChanged
  \/ NoTable
  \/ Fault
  \/ Overwrite
  \/ Crash

Spec == Init /\ [][Next]_vars

-----------------------------------------------------------------------------
(* Properties.                                                             *)

Row ==
  [customer : Customers, city : Cities, effective_from : 1 .. MaxDay,
   effective_to : {Null} \cup (1 .. MaxDay), is_current : BOOLEAN,
   last_seen_at : 0 .. MaxDay, number : (0 .. inserted) \X Customers \X (Nat \ {0})]

(* Every variable has its type, and a row is open exactly when it is       *)
(* current.                                                                *)
TypeOK ==
  /\ today \in 1 .. MaxDay
  /\ orders \subseteq (0 .. MaxDay) \X Customers \X Cities
  /\ created \in BOOLEAN
  /\ dim \subseteq Row
  /\ \A row \in dim : row.is_current <=> row.effective_to = Null
  /\ inserted \in Nat
  /\ pc \in {"idle", "merge", "append", "fallback"}
  /\ date \in 0 .. MaxDay
  /\ runsToday \in 0 .. MaxRunsPerDay
  /\ crashes \in 0 .. MaxCrashes
  /\ faults \in 0 .. MaxFaults
  /\ spans \in 0 .. MaxSpans

Before(r1, r2) == ~ r1.is_current /\ r1.effective_to <= r2.effective_from

(* The periods of two rows of one customer do not overlap; in particular   *)
(* no customer has two current rows.  True, crashes and faults included, as *)
(* long as the MERGEs of two runs fall on different calendar days: one run *)
(* per day, and none that spans midnight.                                  *)
PeriodsDisjoint ==
  spans = 0 =>
    \A r1, r2 \in dim :
      r1 # r2 /\ r1.customer = r2.customer => Before(r1, r2) \/ Before(r2, r1)

RowsOf(c) == {row \in dim : row.customer = c}

(* "Close the existing record ..., insert a new record": as long as no run *)
(* has died or spanned midnight, every customer the table knows has        *)
(* exactly one current row between two runs, and every closed row is       *)
(* continued, without a gap, by another.                                   *)
TimelineComplete ==
  pc = "idle" /\ crashes = 0 /\ spans = 0 =>
    \A row \in dim :
      /\ Cardinality(Current(row.customer)) = 1
      /\ row.is_current
         \/ \E next \in RowsOf(row.customer) : next.effective_from = row.effective_to

(* "This preserves history": a step that changes or removes a closed row   *)
(* is the fallback after a fault, and nothing else.                        *)
HistoryKept ==
  [][pc # "fallback" \/ faults = 0 => \A row \in dim : ~ row.is_current => row \in dim']_vars

OneCityPerDay == \A o1, o2 \in orders : o1[1] = o2[1] /\ o1[2] = o2[2] => o1[3] = o2[3]

(* "2. If customer exists with DIFFERENT city -> expire old, insert new":  *)
(* a row differs in its city from the row it continues, as long as a       *)
(* customer's events of one day name one city (F.first may take another    *)
(* city in the append than it took in the MERGE) and no run has spanned    *)
(* midnight.                                                               *)
NewVersionDiffers ==
  OneCityPerDay /\ spans = 0 =>
    \A r1, r2 \in dim :
      r1.customer = r2.customer /\ r1.effective_to = r2.effective_from => r1.city # r2.city

(* "1. If customer exists with same city -> update last_seen_at only": a   *)
(* customer whose row the MERGE has left current gets no further row.      *)
(* True of one run per calendar day; a retry on the same day breaks it.    *)
SameCityTouchesOnly ==
  [][pc = "append" /\ spans' = 0 => \A c \in Customers : Current(c) # {} => RowsOf(c)' = RowsOf(c)]_vars

=============================================================================
