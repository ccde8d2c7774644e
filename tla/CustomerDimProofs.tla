-------------------------- MODULE CustomerDimProofs --------------------------
(***************************************************************************)
(* Theorems about the customer dimension, for any customers, cities and    *)
(* days, any events, crashes, faults and midnights.                        *)
(***************************************************************************)
EXTENDS CustomerDim, TLAPS, FiniteSetTheorems

-----------------------------------------------------------------------------
(* What an evaluation of the snapshot, a merged row and a new row are.     *)

LEMMA SnapshotFacts ==
  ASSUME TypeOK, NEW snap \in Snapshot(date)
  PROVE  /\ DOMAIN snap = Seen(date)
         /\ \A c \in DOMAIN snap : /\ c \in Customers
                                   /\ snap[c] \in Cities
                                   /\ <<date, c, snap[c]>> \in orders
<1>1. snap \in [Seen(date) -> Cities] /\ \A c \in Seen(date) : <<date, c, snap[c]>> \in orders
  BY DEF Snapshot
<1>2. Seen(date) \subseteq Customers
  BY DEF Seen, TypeOK
<1> QED BY <1>1, <1>2

LEMMA SeenFacts ==
  ASSUME NEW d, NEW c, c \in Seen(d), TypeOK
  PROVE  \E city \in Cities : <<d, c, city>> \in orders
<1>1. PICK o \in orders : o[1] = d /\ o[2] = c
  BY DEF Seen
<1>2. o \in (0 .. MaxDay) \X Customers \X Cities
  BY DEF TypeOK
<1>3. o = <<d, c, o[3]>> /\ o[3] \in Cities
  BY <1>1, <1>2
<1> QED BY <1>1, <1>3

(* A row the MERGE expires was current, in another city than the           *)
(* snapshot's; every other row keeps its flag and its dates.               *)
Expires(row, snap) ==
  row.customer \in DOMAIN snap /\ row.is_current /\ row.city # snap[row.customer]

LEMMA MergedRowFacts ==
  ASSUME NEW row \in Row, NEW snap, today \in 1 .. MaxDay, date \in 0 .. MaxDay
  PROVE  LET new == MergedRow(row, snap)
         IN  /\ new \in Row
             /\ new.customer = row.customer
             /\ new.city = row.city
             /\ new.effective_from = row.effective_from
             /\ Expires(row, snap) => ~ new.is_current /\ new.effective_to = today
             /\ ~ Expires(row, snap) => /\ new.is_current = row.is_current
                                        /\ new.effective_to = row.effective_to
             /\ ~ row.is_current => new = row
<1> USE CustomerDimAssumption DEF Row
<1>1. CASE row.customer \notin DOMAIN snap \/ ~ row.is_current
  BY <1>1 DEF MergedRow, Expires
<1>2. CASE /\ row.customer \in DOMAIN snap /\ row.is_current
           /\ row.city = snap[row.customer]
  <2>1. MergedRow(row, snap) = [row EXCEPT !.last_seen_at = date]
    BY <1>2 DEF MergedRow
  <2> QED BY <1>2, <2>1 DEF Expires
<1>3. CASE /\ row.customer \in DOMAIN snap /\ row.is_current
           /\ row.city # snap[row.customer]
  <2>1. MergedRow(row, snap) = [row EXCEPT !.effective_to = today, !.is_current = FALSE]
    BY <1>3 DEF MergedRow
  <2> QED BY <1>3, <2>1 DEF Expires
<1> QED BY <1>1, <1>2, <1>3

LEMMA NewRowFacts ==
  ASSUME TypeOK, NEW snap \in Snapshot(date), NEW c \in DOMAIN snap, NEW k \in Nat \ {0}
  PROVE  LET new == NewRow(c, snap[c], Number(c, k))
         IN  /\ new.customer = c
             /\ new.city = snap[c]
             /\ new.effective_from = today
             /\ new.effective_to = Null
             /\ new.is_current
             /\ inserted' = inserted + 1 => new \in Row'
<1>1. c \in Customers /\ snap[c] \in Cities
  BY SnapshotFacts
<1>2. inserted \in Nat /\ today \in 1 .. MaxDay /\ date \in 0 .. MaxDay
  BY DEF TypeOK
<1> QED BY <1>1, <1>2, CustomerDimAssumption DEF NewRow, Number, Row

LEMMA RowStays == ASSUME TypeOK, NEW row \in Row,
                         inserted' = inserted \/ inserted' = inserted + 1
                  PROVE  row \in Row'
<1>1. inserted \in Nat
  BY DEF TypeOK
<1> QED BY <1>1 DEF Row

(* What each commit leaves in the table: a merged row or a new current row *)
(* of a customer without one; an old row or a new row of a customer with a *)
(* row expired today; a new row and nothing else.                          *)
LEMMA MergeRows ==
  ASSUME TypeOK, MergeDim
  PROVE  \E snap \in Snapshot(date) :
           /\ \A row \in dim : MergedRow(row, snap) \in dim'
           /\ \A c \in DOMAIN snap :
                Current(c) = {} => NewRow(c, snap[c], Number(c, 1)) \in dim'
           /\ \A new \in dim' :
                \/ \E row \in dim : new = MergedRow(row, snap)
                \/ \E c \in DOMAIN snap :
                     Current(c) = {} /\ new = NewRow(c, snap[c], Number(c, 1))
BY DEF MergeDim

LEMMA AppendRows ==
  ASSUME TypeOK, AppendChanged
  PROVE  \E snap \in Snapshot(date) :
           /\ dim \subseteq dim'
           /\ \A c \in DOMAIN snap : \A k \in 1 .. Cardinality(ExpiredToday(c)) :
                NewRow(c, snap[c], Number(c, k)) \in dim'
           /\ \A new \in dim' :
                \/ new \in dim
                \/ \E c \in DOMAIN snap : \E k \in 1 .. Cardinality(ExpiredToday(c)) :
                     new = NewRow(c, snap[c], Number(c, k))
<1>1. PICK snap \in Snapshot(date) :
        dim' = dim \cup
          UNION {{NewRow(c, snap[c], Number(c, k)) : k \in 1 .. Cardinality(ExpiredToday(c))}
                   : c \in DOMAIN snap}
  BY DEF AppendChanged
<1> QED BY <1>1

LEMMA OverwriteRows ==
  ASSUME TypeOK, Overwrite
  PROVE  \E snap \in Snapshot(date) :
           \A new \in dim' : \E c \in DOMAIN snap : new = NewRow(c, snap[c], Number(c, 1))
BY DEF Overwrite

LEMMA ExpiredSome ==
  ASSUME NEW c, NEW k \in 1 .. Cardinality(ExpiredToday(c))
  PROVE  ExpiredToday(c) # {}
<1> SUFFICES ASSUME ExpiredToday(c) = {} PROVE FALSE
  OBVIOUS
<1>1. Cardinality(ExpiredToday(c)) = 0
  BY FS_EmptySet, Zenon
<1> QED BY <1>1

(* A set all of whose elements are equal has at most one, and one if it is *)
(* not empty.                                                              *)
LEMMA AtMostOne ==
  ASSUME NEW S, \A x, y \in S : x = y
  PROVE  /\ S # {} => Cardinality(S) = 1
         /\ \A k \in 1 .. Cardinality(S) : k = 1
<1>1. CASE S = {}
  <2>1. Cardinality(S) = 0
    BY <1>1, FS_EmptySet, Zenon
  <2> QED BY <1>1, <2>1
<1>2. CASE S # {}
  <2>1. PICK x : S = {x}
    BY <1>2
  <2>2. Cardinality(S) = 1
    BY <2>1, FS_Singleton, Zenon
  <2> QED BY <2>2
<1> QED BY <1>1, <1>2

-----------------------------------------------------------------------------
(* The type invariant.                                                     *)

LEMMA TypeInit == Init => TypeOK
<1> SUFFICES ASSUME Init PROVE TypeOK
  OBVIOUS
<1>1. created \in BOOLEAN
  BY Zenon DEF Init
<1> QED BY <1>1, CustomerDimAssumption DEF Init, TypeOK

LEMMA RowsTyped ==
  ASSUME TypeOK, [Next]_vars
  PROVE  /\ dim' \subseteq Row'
         /\ \A row \in dim' : row.is_current <=> row.effective_to = Null
<1> USE CustomerDimAssumption
<1>0. /\ dim \subseteq Row
      /\ \A row \in dim : row.is_current <=> row.effective_to = Null
      /\ today \in 1 .. MaxDay /\ date \in 0 .. MaxDay /\ today # Null
  BY DEF TypeOK
<1>1. CASE MergeDim
  <2>1. PICK snap \in Snapshot(date) :
          \A new \in dim' :
            \/ \E row \in dim : new = MergedRow(row, snap)
            \/ \E c \in DOMAIN snap :
                 Current(c) = {} /\ new = NewRow(c, snap[c], Number(c, 1))
    BY <1>1, MergeRows
  <2>2. inserted' = inserted + 1
    BY <1>1 DEF MergeDim
  <2> SUFFICES ASSUME NEW new \in dim'
               PROVE  new \in Row' /\ (new.is_current <=> new.effective_to = Null)
    OBVIOUS
  <2>3. CASE \E row \in dim : new = MergedRow(row, snap)
    <3>1. PICK row \in dim : new = MergedRow(row, snap)
      BY <2>3
    <3>2. row \in Row
      BY <1>0
    <3>3. /\ new \in Row
          /\ Expires(row, snap) => ~ new.is_current /\ new.effective_to = today
          /\ ~ Expires(row, snap) => /\ new.is_current = row.is_current
                                     /\ new.effective_to = row.effective_to
      BY <1>0, <3>1, <3>2, MergedRowFacts
    <3>4. new \in Row'
      BY <2>2, <3>3, RowStays
    <3> QED BY <1>0, <3>3, <3>4
  <2>4. CASE \E c \in DOMAIN snap : new = NewRow(c, snap[c], Number(c, 1))
    <3>1. PICK c \in DOMAIN snap : new = NewRow(c, snap[c], Number(c, 1))
      BY <2>4
    <3>2. 1 \in Nat \ {0}
      OBVIOUS
    <3> QED BY <2>2, <3>1, <3>2, <1>0, NewRowFacts
  <2> QED BY <2>1, <2>3, <2>4
<1>2. CASE AppendChanged
  <2>1. PICK snap \in Snapshot(date) :
          \A new \in dim' :
            \/ new \in dim
            \/ \E c \in DOMAIN snap : \E k \in 1 .. Cardinality(ExpiredToday(c)) :
                 new = NewRow(c, snap[c], Number(c, k))
    BY <1>2, AppendRows
  <2>2. inserted' = inserted + 1
    BY <1>2 DEF AppendChanged
  <2> SUFFICES ASSUME NEW new \in dim'
               PROVE  new \in Row' /\ (new.is_current <=> new.effective_to = Null)
    OBVIOUS
  <2>3. CASE new \in dim
    BY <1>0, <2>2, <2>3, RowStays
  <2>4. ASSUME NEW c \in DOMAIN snap, NEW k \in 1 .. Cardinality(ExpiredToday(c)),
               new = NewRow(c, snap[c], Number(c, k))
        PROVE  new \in Row' /\ (new.is_current <=> new.effective_to = Null)
    <3>1. k \in Nat \ {0}
      OBVIOUS
    <3> QED BY <2>2, <2>4, <3>1, <1>0, NewRowFacts
  <2> QED BY <2>1, <2>3, <2>4
<1>3. CASE Overwrite
  <2>1. PICK snap \in Snapshot(date) :
          \A new \in dim' : \E c \in DOMAIN snap : new = NewRow(c, snap[c], Number(c, 1))
    BY <1>3, OverwriteRows
  <2>2. inserted' = inserted + 1
    BY <1>3 DEF Overwrite
  <2>3. 1 \in Nat \ {0}
    OBVIOUS
  <2> QED BY <2>1, <2>2, <2>3, <1>0, NewRowFacts
<1>4. CASE dim' = dim /\ inserted' = inserted
  BY <1>0, <1>4, RowStays
<1> QED BY <1>1, <1>2, <1>3, <1>4
        DEF Next, vars, table, Order, Midnight, Start, NoTable, Fault, Crash

LEMMA TypeNext == TypeOK /\ [Next]_vars => TypeOK'
<1> SUFFICES ASSUME TypeOK, [Next]_vars PROVE TypeOK'
  OBVIOUS
<1> USE CustomerDimAssumption DEF table, limits
<1>0. /\ dim' \subseteq Row'
      /\ \A row \in dim' : row.is_current <=> row.effective_to = Null
  BY RowsTyped
<1>1. ASSUME NEW d \in 0 .. MaxDay, NEW c \in Customers, NEW city \in Cities, Order(d, c, city)
      PROVE  TypeOK'
  <2>1. orders' \subseteq (0 .. MaxDay) \X Customers \X Cities
    BY <1>1 DEF Order, TypeOK
  <2> QED BY <1>0, <1>1, <2>1 DEF Order, TypeOK
<1>2. CASE Midnight
  BY <1>0, <1>2 DEF Midnight, TypeOK
<1>3. ASSUME NEW d \in 0 .. MaxDay, Start(d) PROVE TypeOK'
  BY <1>0, <1>3 DEF Start, TypeOK
<1>4. CASE MergeDim
  BY <1>0, <1>4 DEF MergeDim, TypeOK
<1>5. CASE AppendChanged
  BY <1>0, <1>5 DEF AppendChanged, TypeOK
<1>6. CASE NoTable
  BY <1>0, <1>6 DEF NoTable, TypeOK
<1>7. CASE Fault
  BY <1>0, <1>7 DEF Fault, TypeOK
<1>8. CASE Overwrite
  BY <1>0, <1>8 DEF Overwrite, TypeOK
<1>9. CASE Crash
  BY <1>0, <1>9 DEF Crash, TypeOK
<1>10. CASE UNCHANGED vars
  BY <1>0, <1>10 DEF vars, TypeOK
<1> QED BY <1>1, <1>2, <1>3, <1>4, <1>5, <1>6, <1>7, <1>8, <1>9, <1>10 DEF Next

(* Every variable keeps its type, and a row of the dimension is open       *)
(* exactly when it is current, whatever runs, crashes and faults.          *)
THEOREM DimTypeCorrect == Spec => []TypeOK
<1> QED BY TypeInit, TypeNext, PTL DEF Spec

-----------------------------------------------------------------------------
(* History.  The fallback without a fault finds no table, and there are no *)
(* rows without one.                                                       *)
TableInv ==
  /\ TypeOK
  /\ ~ created => dim = {}
  /\ pc = "append" => created
  /\ pc = "fallback" /\ faults = 0 => ~ created

LEMMA TableInit == Init => TableInv
BY TypeInit DEF Init, TableInv

LEMMA TableNext == TableInv /\ [Next]_vars => TableInv'
<1> SUFFICES ASSUME TableInv, [Next]_vars PROVE TableInv'
  OBVIOUS
<1>0. TypeOK' /\ faults \in Nat
  BY TypeNext, CustomerDimAssumption DEF TableInv, TypeOK
<1> QED BY <1>0 DEF TableInv, Next, vars, table, limits, Order, Midnight, Start, MergeDim,
                    AppendChanged, NoTable, Fault, Overwrite, Crash

(* The MERGE and the append leave every closed row as it is: only the      *)
(* fallback after a fault, which replaces a table that was there, loses    *)
(* history.                                                                *)
THEOREM HistoryIsKept == Spec => HistoryKept
<1>1. ASSUME TableInv, [Next]_vars, pc # "fallback" \/ faults = 0,
             NEW row \in dim, ~ row.is_current
      PROVE  row \in dim'
  <2>0. TypeOK /\ row \in Row
    BY <1>1 DEF TableInv, TypeOK
  <2>1. CASE MergeDim
    <3>1. PICK snap \in Snapshot(date) : \A r \in dim : MergedRow(r, snap) \in dim'
      BY <2>0, <2>1, MergeRows
    <3>2. MergedRow(row, snap) = row
      BY <1>1 DEF MergedRow
    <3> QED BY <1>1, <3>1, <3>2
  <2>2. CASE AppendChanged
    BY <1>1, <2>0, <2>2, AppendRows
  <2>3. CASE Overwrite
    BY <1>1, <2>3 DEF TableInv, Overwrite
  <2>4. CASE dim' = dim
    BY <1>1, <2>4
  <2> QED BY <1>1, <2>1, <2>2, <2>3, <2>4
          DEF Next, vars, table, Order, Midnight, Start, NoTable, Fault, Crash
<1>2. TableInv /\ [Next]_vars =>
        [pc # "fallback" \/ faults = 0 => \A row \in dim : ~ row.is_current => row \in dim']_vars
  BY <1>1
<1> QED BY <1>2, TableInit, TableNext, PTL DEF Spec, HistoryKept

-----------------------------------------------------------------------------
(* One run a day.  The claims below hold when no two runs start on one     *)
(* calendar day, which the DAG's schedule gives and a retry of the task    *)
(* takes away.  Until a run has spanned midnight, the MERGE and the append *)
(* of a day are the only commits of that day, so the rows they find were   *)
(* opened and closed on earlier days.                                      *)
OneRunPerDay == MaxRunsPerDay = 1

Disjoint ==
  \A r1, r2 \in dim :
    r1 # r2 /\ r1.customer = r2.customer => Before(r1, r2) \/ Before(r2, r1)

RowsInPast ==
  \A row \in dim :
    /\ row.effective_from <= today
    /\ ~ row.is_current => row.effective_from < row.effective_to /\ row.effective_to <= today

RowsBeforeToday ==
  \A row \in dim :
    /\ row.effective_from < today
    /\ ~ row.is_current => row.effective_to < today

(* A customer with a row the MERGE expired has no current row.             *)
ExpiredIsLast ==
  \A r1, r2 \in dim :
    r1.customer = r2.customer /\ ~ r1.is_current /\ r1.effective_to = today => ~ r2.is_current

DayInv ==
  /\ TableInv
  /\ spans = 0 =>
       /\ pc # "idle" => runsToday = 1
       /\ Disjoint
       /\ RowsInPast
       /\ runsToday = 0 \/ pc = "merge" => RowsBeforeToday
       /\ pc = "append" => ExpiredIsLast

LEMMA DayTyped ==
  ASSUME TypeOK
  PROVE  /\ today \in Nat /\ spans \in Nat
         /\ \A row \in dim :
              /\ row.effective_from \in Nat
              /\ row.is_current \in BOOLEAN
              /\ ~ row.is_current => row.effective_to \in Nat
BY CustomerDimAssumption DEF TypeOK, Row

LEMMA ExpiredOnce ==
  ASSUME TypeOK, Disjoint, RowsInPast, NEW c
  PROVE  \A x, y \in ExpiredToday(c) : x = y
BY DayTyped DEF Disjoint, RowsInPast, ExpiredToday, Before

(* What the MERGE makes of one row, when no row is of today.               *)
LEMMA MergedIs ==
  ASSUME TypeOK, RowsBeforeToday, NEW snap, NEW row \in dim
  PROVE  LET new == MergedRow(row, snap)
         IN  /\ new.customer = row.customer
             /\ new.city = row.city
             /\ new.effective_from = row.effective_from
             /\ new.is_current => row.is_current
             /\ ~ row.is_current => new = row
             /\ new.is_current \/ new = row \/ (row.is_current /\ new.effective_to = today)
             /\ ~ new.is_current /\ new.effective_to = today =>
                  row.is_current /\ Expires(row, snap)
             /\ Expires(row, snap) => ~ new.is_current /\ new.effective_to = today
             /\ ~ Expires(row, snap) => /\ new.is_current = row.is_current
                                        /\ new.effective_to = row.effective_to
<1>1. /\ row \in Row /\ today \in 1 .. MaxDay /\ date \in 0 .. MaxDay
      /\ row.is_current \in BOOLEAN
      /\ ~ row.is_current => row.effective_to \in Nat
  BY DayTyped DEF TypeOK
<1>2. LET new == MergedRow(row, snap)
      IN  /\ new \in Row
          /\ new.customer = row.customer
          /\ new.city = row.city
          /\ new.effective_from = row.effective_from
          /\ Expires(row, snap) => ~ new.is_current /\ new.effective_to = today
          /\ ~ Expires(row, snap) => /\ new.is_current = row.is_current
                                     /\ new.effective_to = row.effective_to
          /\ ~ row.is_current => new = row
  BY <1>1, MergedRowFacts
<1>3. MergedRow(row, snap).is_current \in BOOLEAN
  BY <1>2 DEF Row
<1>4. Expires(row, snap) => row.is_current
  BY DEF Expires
<1>5. ~ row.is_current => row.effective_to # today
  BY <1>1 DEF RowsBeforeToday, TypeOK
<1> QED BY <1>1, <1>2, <1>3, <1>4, <1>5

LEMMA DayInit == Init => DayInv
<1> QED BY TableInit DEF Init, DayInv, Disjoint, RowsInPast, RowsBeforeToday

LEMMA DayMerge ==
  ASSUME DayInv, MergeDim, spans = 0
  PROVE  Disjoint' /\ RowsInPast' /\ ExpiredIsLast'
<1>0. /\ TypeOK /\ Disjoint /\ RowsBeforeToday
      /\ today' = today
  BY DEF DayInv, TableInv, MergeDim
<1>1. PICK snap \in Snapshot(date) :
        \A new \in dim' :
          \/ \E row \in dim : new = MergedRow(row, snap)
          \/ \E c \in DOMAIN snap :
               Current(c) = {} /\ new = NewRow(c, snap[c], Number(c, 1))
  BY <1>0, MergeRows
<1> DEFINE M(row) == MergedRow(row, snap)
           N(c)   == NewRow(c, snap[c], Number(c, 1))
           C      == {c \in DOMAIN snap : Current(c) = {}}
<1>2. \A row \in dim :
        /\ M(row).customer = row.customer
        /\ M(row).effective_from = row.effective_from
        /\ M(row).is_current => row.is_current
        /\ ~ row.is_current => M(row) = row
        /\ M(row).is_current \/ M(row) = row \/ (row.is_current /\ M(row).effective_to = today)
        /\ ~ M(row).is_current /\ M(row).effective_to = today => row.is_current
  BY <1>0, MergedIs
<1>3. \A c \in C : /\ N(c).customer = c /\ N(c).effective_from = today /\ N(c).is_current
                   /\ \A row \in dim : row.customer = c => ~ row.is_current
  <2>1. 1 \in Nat \ {0}
    OBVIOUS
  <2>2. \A c \in C : \A row \in dim : row.customer = c => ~ row.is_current
    BY DEF Current
  <2> QED BY <1>0, <2>1, <2>2, NewRowFacts
<1>4. \A new \in dim' : (\E row \in dim : new = M(row)) \/ (\E c \in C : new = N(c))
  BY <1>1
<1>5. /\ today \in Nat
      /\ \A row \in dim : /\ row.effective_from \in Nat
                          /\ row.is_current \in BOOLEAN
                          /\ row.effective_from < today
                          /\ ~ row.is_current => row.effective_to \in Nat /\ row.effective_to < today
                          /\ ~ row.is_current => row.effective_from < row.effective_to
  BY <1>0, DayTyped DEF RowsBeforeToday, DayInv, RowsInPast
<1> HIDE DEF M, N, C
<1>6. RowsInPast'
  <2> SUFFICES ASSUME NEW new \in dim'
               PROVE  /\ new.effective_from <= today
                      /\ ~ new.is_current => /\ new.effective_from < new.effective_to
                                             /\ new.effective_to <= today
    BY <1>0 DEF RowsInPast
  <2>1. CASE \E row \in dim : new = M(row)
    BY <1>2, <1>5, <2>1
  <2>2. CASE \E c \in C : new = N(c)
    BY <1>3, <1>5, <2>2
  <2> QED BY <1>4, <2>1, <2>2
<1>7. ASSUME NEW r1 \in dim', NEW r2 \in dim', r1.customer = r2.customer, r1 # r2
      PROVE  Before(r1, r2) \/ Before(r2, r1)
  <2>1. ASSUME NEW a \in dim, NEW b \in dim, a # b, a.customer = b.customer
        PROVE  Before(M(a), M(b)) \/ Before(M(b), M(a))
    BY <1>0, <1>2, <2>1 DEF Disjoint, Before
  <2>2. ASSUME NEW a \in dim, NEW c \in C, M(a).customer = N(c).customer
        PROVE  Before(M(a), N(c))
    BY <1>2, <1>3, <1>5, <2>2 DEF Before
  <2>3. ASSUME NEW a \in dim, NEW b \in dim, r1 = M(a), r2 = M(b)
        PROVE  Before(r1, r2) \/ Before(r2, r1)
    BY <1>2, <1>7, <2>1, <2>3
  <2>4. ASSUME NEW a \in C, NEW b \in C, r1 = N(a), r2 = N(b)
        PROVE  FALSE
    BY <1>3, <1>7, <2>4
  <2> QED BY <1>4, <1>7, <2>2, <2>3, <2>4
<1>8. Disjoint'
  BY <1>7 DEF Disjoint, Before
<1>9. ASSUME NEW r1 \in dim', NEW r2 \in dim', r1.customer = r2.customer,
             ~ r1.is_current, r1.effective_to = today, r2.is_current
      PROVE  FALSE
  <2>1. PICK a \in dim : r1 = M(a)
    BY <1>3, <1>4, <1>9
  <2>2. a.is_current /\ a.customer = r1.customer
    BY <1>2, <1>9, <2>1
  <2>3. PICK b \in dim : r2 = M(b)
    BY <1>3, <1>4, <1>9, <2>2
  <2>4. b.is_current /\ b.customer = a.customer
    BY <1>2, <1>9, <2>2, <2>3
  <2>5. a = b
    BY <1>0, <2>2, <2>4 DEF Disjoint, Before
  <2> QED BY <1>9, <2>1, <2>3, <2>5
<1>10. ExpiredIsLast'
  BY <1>0, <1>9 DEF ExpiredIsLast
<1> QED BY <1>6, <1>8, <1>10

(* What the append adds: one row, of today and current, for a customer of  *)
(* the snapshot with a row the MERGE expired.                              *)
LEMMA AppendedIs ==
  ASSUME DayInv, AppendChanged, spans = 0
  PROVE  \E snap \in Snapshot(date) :
           LET N(c) == NewRow(c, snap[c], Number(c, 1))
               C    == {c \in DOMAIN snap : ExpiredToday(c) # {}}
           IN  /\ dim' = dim \cup {N(c) : c \in C}
               /\ \A c \in C : /\ N(c).customer = c
                               /\ N(c).city = snap[c]
                               /\ N(c).effective_from = today
                               /\ N(c).effective_to = Null
                               /\ N(c).is_current
                               /\ <<date, c, snap[c]>> \in orders
                               /\ \A row \in dim : row.customer = c => ~ row.is_current
<1>0. TypeOK /\ Disjoint /\ RowsInPast /\ ExpiredIsLast
  BY DEF DayInv, TableInv, AppendChanged
<1>1. PICK snap \in Snapshot(date) :
        /\ dim \subseteq dim'
        /\ \A c \in DOMAIN snap : \A k \in 1 .. Cardinality(ExpiredToday(c)) :
             NewRow(c, snap[c], Number(c, k)) \in dim'
        /\ \A new \in dim' :
             \/ new \in dim
             \/ \E c \in DOMAIN snap : \E k \in 1 .. Cardinality(ExpiredToday(c)) :
                  new = NewRow(c, snap[c], Number(c, k))
  BY <1>0, AppendRows
<1> DEFINE N(c) == NewRow(c, snap[c], Number(c, 1))
           C    == {c \in DOMAIN snap : ExpiredToday(c) # {}}
<1>2. ASSUME NEW c
      PROVE  /\ \A k \in 1 .. Cardinality(ExpiredToday(c)) : k = 1 /\ ExpiredToday(c) # {}
             /\ ExpiredToday(c) # {} => 1 \in 1 .. Cardinality(ExpiredToday(c))
  <2>1. \A x, y \in ExpiredToday(c) : x = y
    BY <1>0, ExpiredOnce
  <2>2. /\ ExpiredToday(c) # {} => Cardinality(ExpiredToday(c)) = 1
        /\ \A k \in 1 .. Cardinality(ExpiredToday(c)) : k = 1
    BY <2>1, AtMostOne
  <2> QED BY <2>2, ExpiredSome
<1>3. dim' = dim \cup {N(c) : c \in C}
  <2>1. \A new \in dim' : new \in dim \/ \E c \in C : new = N(c)
    BY <1>1, <1>2
  <2>2. \A c \in C : N(c) \in dim'
    BY <1>1, <1>2
  <2> HIDE DEF C, N
  <2> QED BY <1>1, <2>1, <2>2
<1>4. \A c \in C : /\ N(c).customer = c
                   /\ N(c).city = snap[c]
                   /\ N(c).effective_from = today
                   /\ N(c).effective_to = Null
                   /\ N(c).is_current
                   /\ <<date, c, snap[c]>> \in orders
  <2>1. 1 \in Nat \ {0}
    OBVIOUS
  <2> QED BY <1>0, <2>1, NewRowFacts, SnapshotFacts
<1>5. \A c \in C : \A row \in dim : row.customer = c => ~ row.is_current
  BY <1>0 DEF ExpiredIsLast, ExpiredToday
<1> QED BY <1>3, <1>4, <1>5

LEMMA DayAppend ==
  ASSUME DayInv, AppendChanged, spans = 0
  PROVE  Disjoint' /\ RowsInPast'
<1>0. TypeOK /\ Disjoint /\ RowsInPast /\ ExpiredIsLast /\ today' = today
  BY DEF DayInv, TableInv, AppendChanged
<1>1. PICK snap \in Snapshot(date) :
        LET N(c) == NewRow(c, snap[c], Number(c, 1))
            C    == {c \in DOMAIN snap : ExpiredToday(c) # {}}
        IN  /\ dim' = dim \cup {N(c) : c \in C}
            /\ \A c \in C : /\ N(c).customer = c
                            /\ N(c).city = snap[c]
                            /\ N(c).effective_from = today
                            /\ N(c).effective_to = Null
                            /\ N(c).is_current
                            /\ <<date, c, snap[c]>> \in orders
                            /\ \A row \in dim : row.customer = c => ~ row.is_current
  BY AppendedIs
<1> DEFINE N(c) == NewRow(c, snap[c], Number(c, 1))
           C    == {c \in DOMAIN snap : ExpiredToday(c) # {}}
<1>2. /\ \A new \in dim' : new \in dim \/ \E c \in C : new = N(c)
      /\ \A c \in C : /\ N(c).customer = c /\ N(c).effective_from = today /\ N(c).is_current
                      /\ \A row \in dim : row.customer = c => ~ row.is_current
  BY <1>1
<1>3. /\ today \in Nat
      /\ \A row \in dim : ~ row.is_current => row.effective_to <= today
  BY <1>0, DayTyped DEF RowsInPast
<1> HIDE DEF N, C
<1>4. RowsInPast'
  BY <1>0, <1>2, <1>3 DEF RowsInPast
<1>5. ASSUME NEW r1 \in dim', NEW r2 \in dim', r1.customer = r2.customer, r1 # r2
      PROVE  Before(r1, r2) \/ Before(r2, r1)
  <2>1. ASSUME NEW a \in dim, NEW c \in C, a.customer = N(c).customer
        PROVE  Before(a, N(c))
    BY <1>2, <1>3, <2>1 DEF Before
  <2>2. CASE r1 \in dim /\ r2 \in dim
    BY <1>0, <1>5, <2>2 DEF Disjoint
  <2>3. ASSUME NEW a \in C, NEW b \in C, r1 = N(a), r2 = N(b)
        PROVE  FALSE
    BY <1>2, <1>5, <2>3
  <2> QED BY <1>2, <1>5, <2>1, <2>2, <2>3
<1>6. Disjoint'
  BY <1>5 DEF Disjoint, Before
<1> QED BY <1>4, <1>6

LEMMA DayOverwrite ==
  ASSUME DayInv, Overwrite, spans = 0
  PROVE  Disjoint' /\ RowsInPast'
<1>0. TypeOK /\ today \in Nat /\ today' = today
  BY DayTyped DEF DayInv, TableInv, Overwrite
<1>1. PICK snap \in Snapshot(date) :
        \A new \in dim' : \E c \in DOMAIN snap : new = NewRow(c, snap[c], Number(c, 1))
  BY <1>0, OverwriteRows
<1> DEFINE N(c) == NewRow(c, snap[c], Number(c, 1))
<1>2. \A c \in DOMAIN snap : N(c).customer = c /\ N(c).effective_from = today /\ N(c).is_current
  <2>1. 1 \in Nat \ {0}
    OBVIOUS
  <2> QED BY <1>0, <2>1, NewRowFacts
<1>3. \A new \in dim' : \E c \in DOMAIN snap : new = N(c)
  BY <1>1
<1> HIDE DEF N
<1> QED BY <1>0, <1>2, <1>3 DEF Disjoint, RowsInPast

LEMMA DayNext == OneRunPerDay /\ DayInv /\ [Next]_vars => DayInv'
<1> SUFFICES ASSUME OneRunPerDay, DayInv, [Next]_vars PROVE DayInv'
  OBVIOUS
<1>0. TableInv' /\ TypeOK /\ TypeOK'
  BY TableNext DEF DayInv, TableInv
<1> DEFINE Day == /\ pc # "idle" => runsToday = 1
                  /\ Disjoint
                  /\ RowsInPast
                  /\ runsToday = 0 \/ pc = "merge" => RowsBeforeToday
                  /\ pc = "append" => ExpiredIsLast
<1> SUFFICES ASSUME spans' = 0 PROVE Day'
  BY <1>0 DEF DayInv
<1>1. /\ spans \in Nat /\ runsToday \in Nat /\ today \in Nat
      /\ \A row \in dim : /\ row.effective_from \in Nat
                          /\ ~ row.is_current => row.effective_to \in Nat
  BY <1>0, DayTyped, CustomerDimAssumption DEF TypeOK
<1>2. spans = 0
  BY <1>1 DEF Next, vars, limits, Order, Midnight, Start, MergeDim, AppendChanged, NoTable,
              Fault, Overwrite, Crash
<1>3. Day
  BY <1>2 DEF DayInv
<1>4. ASSUME UNCHANGED <<today, dim, runsToday>>, pc' # "merge" \/ pc = "merge",
             pc' # "append" \/ pc = "append", pc # "idle" \/ pc' = "idle"
      PROVE  Day'
  BY <1>3, <1>4 DEF Disjoint, RowsInPast, RowsBeforeToday, ExpiredIsLast, Before
<1>5. CASE Midnight
  <2>1. pc = "idle" /\ pc' = "idle" /\ dim' = dim /\ today' = today + 1
    BY <1>1, <1>2, <1>5 DEF Midnight, table
  <2>2. RowsInPast' /\ RowsBeforeToday'
    BY <1>1, <1>3, <2>1 DEF RowsInPast, RowsBeforeToday
  <2>3. Disjoint'
    BY <1>3, <2>1 DEF Disjoint, Before
  <2> QED BY <2>1, <2>2, <2>3
<1>6. ASSUME NEW d \in 0 .. MaxDay, Start(d) PROVE Day'
  <2>1. runsToday = 0 /\ runsToday' = 1 /\ pc' = "merge" /\ dim' = dim /\ today' = today
    BY <1>1, <1>6 DEF Start, OneRunPerDay, table
  <2> QED BY <1>3, <2>1 DEF Disjoint, RowsInPast, RowsBeforeToday, Before
<1>7. CASE MergeDim
  <2>1. Disjoint' /\ RowsInPast' /\ ExpiredIsLast'
    BY <1>2, <1>7, DayMerge
  <2>2. runsToday' = 1 /\ pc' = "append"
    BY <1>3, <1>7 DEF MergeDim, limits
  <2> QED BY <2>1, <2>2
<1>8. CASE AppendChanged
  <2>1. Disjoint' /\ RowsInPast'
    BY <1>2, <1>8, DayAppend
  <2>2. runsToday' = 1 /\ pc' = "idle"
    BY <1>3, <1>8 DEF AppendChanged, limits
  <2> QED BY <2>1, <2>2
<1>9. CASE Overwrite
  <2>1. Disjoint' /\ RowsInPast'
    BY <1>2, <1>9, DayOverwrite
  <2>2. runsToday' = 1 /\ pc' = "idle"
    BY <1>3, <1>9 DEF Overwrite, limits
  <2> QED BY <2>1, <2>2
<1> HIDE DEF Day
<1> QED BY <1>4, <1>5, <1>6, <1>7, <1>8, <1>9
        DEF Next, vars, table, limits, Order, NoTable, Fault, Crash

(* Two rows of one customer never cover a common period, and so no         *)
(* customer has two current rows, crashes, faults and fallbacks included,  *)
(* as long as one run starts per calendar day and none spans midnight.     *)
THEOREM OneCurrentRow == ASSUME OneRunPerDay PROVE Spec => []PeriodsDisjoint
<1>1. Init => DayInv
  BY DayInit
<1>2. DayInv /\ [Next]_vars => DayInv'
  BY DayNext
<1>3. DayInv => PeriodsDisjoint
  BY DEF DayInv, Disjoint, PeriodsDisjoint
<1> QED BY <1>1, <1>2, <1>3, PTL DEF Spec

(* The append gives no further row to a customer whose row the MERGE has   *)
(* left current, as long as one run starts per calendar day and none spans *)
(* midnight.                                                               *)
THEOREM SameCityIsTouched == ASSUME OneRunPerDay PROVE Spec => SameCityTouchesOnly
<1>1. ASSUME DayInv, [Next]_vars, pc = "append", spans' = 0, NEW c \in Customers, Current(c) # {}
      PROVE  RowsOf(c)' = RowsOf(c)
  <2>0. spans \in Nat
    BY <1>1, DayTyped DEF DayInv, TableInv
  <2>1. spans = 0
    <3>1. spans' = spans \/ spans' = spans + 1
      BY <1>1 DEF Next, vars, limits, Order, Midnight, Start, MergeDim, AppendChanged, NoTable,
                  Fault, Overwrite, Crash
    <3> QED BY <1>1, <2>0, <3>1
  <2>2. CASE AppendChanged
    <3>1. PICK snap \in Snapshot(date) :
            LET N(d) == NewRow(d, snap[d], Number(d, 1))
                C    == {d \in DOMAIN snap : ExpiredToday(d) # {}}
            IN  /\ dim' = dim \cup {N(d) : d \in C}
                /\ \A d \in C : /\ N(d).customer = d
                                /\ N(d).city = snap[d]
                                /\ N(d).effective_from = today
                                /\ N(d).effective_to = Null
                                /\ N(d).is_current
                                /\ <<date, d, snap[d]>> \in orders
                                /\ \A row \in dim : row.customer = d => ~ row.is_current
      BY <1>1, <2>1, <2>2, AppendedIs
    <3> DEFINE N(d) == NewRow(d, snap[d], Number(d, 1))
               C    == {d \in DOMAIN snap : ExpiredToday(d) # {}}
    <3>2. /\ dim' = dim \cup {N(d) : d \in C}
          /\ \A d \in C : N(d).customer = d /\ \A row \in dim : row.customer = d => ~ row.is_current
      BY <3>1
    <3>3. c \notin C
      BY <1>1, <3>2 DEF Current
    <3> HIDE DEF N, C
    <3> QED BY <3>2, <3>3 DEF RowsOf
  <2>3. CASE dim' = dim
    BY <2>3 DEF RowsOf
  <2> QED BY <1>1, <2>2, <2>3
          DEF Next, vars, table, Order, Midnight, Start, MergeDim, NoTable, Fault, Overwrite, Crash
<1>2. DayInv /\ [Next]_vars =>
        [pc = "append" /\ spans' = 0 =>
           \A c \in Customers : Current(c) # {} => RowsOf(c)' = RowsOf(c)]_vars
  BY <1>1
<1>3. Init => DayInv
  BY DayInit
<1>4. DayInv /\ [Next]_vars => DayInv'
  BY DayNext
<1> QED BY <1>2, <1>3, <1>4, PTL DEF Spec, SameCityTouchesOnly

-----------------------------------------------------------------------------
(* New versions.  Between the MERGE and the append, a customer with a row  *)
(* expired today is one of the snapshot's, and what Bronze shows of that   *)
(* customer's day is another city than the expired row's.                  *)
ExpiredMoved ==
  \A row \in dim :
    ~ row.is_current /\ row.effective_to = today =>
      /\ row.customer \in Seen(date)
      /\ OneCityPerDay => \A city \in Cities : <<date, row.customer, city>> \in orders => row.city # city

VersionsDiffer ==
  \A r1, r2 \in dim :
    r1.customer = r2.customer /\ r1.effective_to = r2.effective_from => r1.city # r2.city

VersionInv ==
  /\ DayInv
  /\ spans = 0 =>
       /\ pc = "append" => ExpiredMoved
       /\ OneCityPerDay => VersionsDiffer

LEMMA OneCity ==
  ASSUME OneCityPerDay, NEW d, NEW c, NEW city1, NEW city2,
         <<d, c, city1>> \in orders, <<d, c, city2>> \in orders
  PROVE  city1 = city2
<1> DEFINE o1 == <<d, c, city1>>
           o2 == <<d, c, city2>>
<1>1. o1[1] = o2[1] /\ o1[2] = o2[2] => o1[3] = o2[3]
  BY DEF OneCityPerDay
<1> QED BY <1>1

(* The effective_to of an open row is no day.                              *)
LEMMA ClosedDay ==
  ASSUME TypeOK, NEW row \in dim, row.effective_to \in Nat
  PROVE  ~ row.is_current
BY CustomerDimAssumption DEF TypeOK

LEMMA VersionMerge ==
  ASSUME VersionInv, MergeDim, spans = 0
  PROVE  ExpiredMoved' /\ (OneCityPerDay => VersionsDiffer')
<1>0. /\ TypeOK /\ RowsBeforeToday /\ Disjoint
      /\ today' = today /\ orders' = orders /\ date' = date
      /\ OneCityPerDay => VersionsDiffer
  BY DEF VersionInv, DayInv, TableInv, MergeDim
<1>1. PICK snap \in Snapshot(date) :
        \A new \in dim' :
          \/ \E row \in dim : new = MergedRow(row, snap)
          \/ \E c \in DOMAIN snap :
               Current(c) = {} /\ new = NewRow(c, snap[c], Number(c, 1))
  BY <1>0, MergeRows
<1> DEFINE M(row) == MergedRow(row, snap)
           N(c)   == NewRow(c, snap[c], Number(c, 1))
           C      == {c \in DOMAIN snap : Current(c) = {}}
<1>2. \A row \in dim :
        /\ M(row).customer = row.customer
        /\ M(row).city = row.city
        /\ M(row).effective_from = row.effective_from
        /\ ~ row.is_current => M(row) = row
        /\ ~ M(row).is_current /\ M(row).effective_to = today => row.is_current /\ Expires(row, snap)
        /\ Expires(row, snap) => row.is_current /\ M(row).effective_to = today
        /\ ~ Expires(row, snap) => M(row).effective_to = row.effective_to
  BY <1>0, MergedIs DEF Expires
<1>3. \A c \in C : /\ N(c).customer = c /\ N(c).effective_from = today
                   /\ N(c).is_current /\ N(c).effective_to = Null
                   /\ \A row \in dim : row.customer = c => ~ row.is_current
  <2>1. 1 \in Nat \ {0}
    OBVIOUS
  <2>2. \A c \in C : \A row \in dim : row.customer = c => ~ row.is_current
    BY DEF Current
  <2> QED BY <1>0, <2>1, <2>2, NewRowFacts
<1>4. \A new \in dim' : (\E row \in dim : new = M(row)) \/ (\E c \in C : new = N(c))
  BY <1>1
<1>5. /\ today \in Nat /\ Null \notin Nat
      /\ \A row \in dim : /\ row.effective_from \in Nat
                          /\ row.effective_from < today
                          /\ ~ row.is_current => row.effective_to \in Nat /\ row.effective_to < today
                          /\ row.is_current => row.effective_to = Null
  BY <1>0, DayTyped, CustomerDimAssumption DEF RowsBeforeToday, TypeOK
<1>6. \A c \in DOMAIN snap : c \in Seen(date) /\ <<date, c, snap[c]>> \in orders
  BY <1>0, SnapshotFacts
<1>7. ASSUME NEW new \in dim', ~ new.is_current, new.effective_to = today
      PROVE  \E row \in dim : new = M(row) /\ Expires(row, snap)
  BY <1>2, <1>3, <1>4, <1>7
<1> HIDE DEF M, N, C
<1>8. ExpiredMoved'
  <2> SUFFICES ASSUME NEW new \in dim', ~ new.is_current, new.effective_to = today
               PROVE  /\ new.customer \in Seen(date)
                      /\ OneCityPerDay => \A city \in Cities :
                           <<date, new.customer, city>> \in orders => new.city # city
    BY <1>0 DEF ExpiredMoved, OneCityPerDay, Seen
  <2>1. PICK row \in dim : new = M(row) /\ Expires(row, snap)
    BY <1>7
  <2>2. /\ new.customer \in DOMAIN snap
        /\ new.city # snap[new.customer]
    BY <1>2, <2>1 DEF Expires
  <2> QED BY <1>6, <2>2, OneCity
<1>9. ASSUME OneCityPerDay, NEW r1 \in dim', NEW r2 \in dim',
             r1.customer = r2.customer, r1.effective_to = r2.effective_from
      PROVE  r1.city # r2.city
  <2>1. r2.effective_from \in Nat /\ r2.effective_from <= today
    BY <1>2, <1>3, <1>4, <1>5
  <2>2. r1.effective_to # Null
    BY <1>5, <1>9, <2>1
  <2>3. PICK a \in dim : r1 = M(a)
    BY <1>3, <1>4, <2>2
  <2>4. CASE \E b \in dim : r2 = M(b)
    <3>1. PICK b \in dim : r2 = M(b)
      BY <2>4
    <3>2. r1.effective_to # today
      BY <1>2, <1>5, <1>9, <3>1
    <3>3. a.effective_to = b.effective_from /\ a.customer = b.customer
      BY <1>2, <1>9, <2>3, <3>1, <3>2
    <3> QED BY <1>0, <1>2, <1>9, <2>3, <3>1, <3>3 DEF VersionsDiffer
  <2>5. CASE \E c \in C : r2 = N(c)
    <3>1. ~ a.is_current
      BY <1>2, <1>3, <1>9, <2>3, <2>5
    <3>2. r1.effective_to < today
      BY <1>2, <1>5, <2>3, <3>1
    <3> QED BY <1>3, <1>5, <1>9, <2>5, <3>2
  <2> QED BY <1>4, <2>4, <2>5
<1>10. OneCityPerDay => VersionsDiffer'
  BY <1>9 DEF VersionsDiffer
<1> QED BY <1>8, <1>10

LEMMA VersionAppend ==
  ASSUME VersionInv, AppendChanged, spans = 0, OneCityPerDay
  PROVE  VersionsDiffer'
<1>0. TypeOK /\ RowsInPast /\ VersionsDiffer /\ ExpiredMoved /\ DayInv
  BY DEF VersionInv, DayInv, TableInv, AppendChanged
<1>1. PICK snap \in Snapshot(date) :
        LET N(c) == NewRow(c, snap[c], Number(c, 1))
            C    == {c \in DOMAIN snap : ExpiredToday(c) # {}}
        IN  /\ dim' = dim \cup {N(c) : c \in C}
            /\ \A c \in C : /\ N(c).customer = c
                            /\ N(c).city = snap[c]
                            /\ N(c).effective_from = today
                            /\ N(c).effective_to = Null
                            /\ N(c).is_current
                            /\ <<date, c, snap[c]>> \in orders
                            /\ \A row \in dim : row.customer = c => ~ row.is_current
  BY <1>0, AppendedIs
<1> DEFINE N(c) == NewRow(c, snap[c], Number(c, 1))
           C    == {c \in DOMAIN snap : ExpiredToday(c) # {}}
<1>2. /\ \A new \in dim' : new \in dim \/ \E c \in C : new = N(c)
      /\ \A c \in C : /\ N(c).customer = c
                      /\ N(c).city = snap[c]
                      /\ N(c).effective_from = today
                      /\ N(c).effective_to = Null
                      /\ <<date, c, snap[c]>> \in orders
                      /\ snap[c] \in Cities
  BY <1>0, <1>1, SnapshotFacts
<1>3. /\ today \in Nat /\ Null \notin Nat
      /\ \A row \in dim : row.effective_from \in Nat
  BY <1>0, DayTyped, CustomerDimAssumption
<1> HIDE DEF N, C
<1> SUFFICES ASSUME NEW r1 \in dim', NEW r2 \in dim',
                    r1.customer = r2.customer, r1.effective_to = r2.effective_from
             PROVE  r1.city # r2.city
  BY DEF VersionsDiffer
<1>4. r1 \in dim
  <2>1. r2.effective_from \in Nat
    <3>1. CASE r2 \in dim
      BY <1>3, <3>1
    <3>2. CASE \E c \in C : r2 = N(c)
      BY <1>2, <1>3, <3>2
    <3> QED BY <1>2, <3>1, <3>2
  <2>2. r1.effective_to # Null
    BY <1>3, <2>1
  <2> QED BY <1>2, <2>2
<1>5. CASE r2 \in dim
  BY <1>0, <1>4, <1>5 DEF VersionsDiffer
<1>6. CASE \E c \in C : r2 = N(c)
  <2>1. PICK c \in C : r2 = N(c)
    BY <1>6
  <2>2. r1.effective_to = today /\ r1.customer = c
    BY <1>2, <2>1
  <2>3. ~ r1.is_current
    BY <1>0, <1>3, <1>4, <2>2, ClosedDay
  <2> QED BY <1>0, <1>2, <1>4, <2>1, <2>2, <2>3 DEF ExpiredMoved
<1> QED BY <1>2, <1>5, <1>6

LEMMA VersionOverwrite ==
  ASSUME VersionInv, Overwrite
  PROVE  VersionsDiffer'
<1>0. TypeOK /\ today \in Nat /\ Null \notin Nat
  BY DayTyped, CustomerDimAssumption DEF VersionInv, DayInv, TableInv
<1>1. PICK snap \in Snapshot(date) :
        \A new \in dim' : \E c \in DOMAIN snap : new = NewRow(c, snap[c], Number(c, 1))
  BY <1>0, OverwriteRows
<1>2. \A new \in dim' : new.effective_from = today /\ new.effective_to = Null
  <2>1. 1 \in Nat \ {0}
    OBVIOUS
  <2> QED BY <1>0, <1>1, <2>1, NewRowFacts
<1> QED BY <1>0, <1>2 DEF VersionsDiffer

LEMMA VersionOrder ==
  ASSUME TypeOK, ExpiredMoved, pc = "append",
         NEW d \in 0 .. MaxDay, NEW c \in Customers, NEW city \in Cities, Order(d, c, city)
  PROVE  ExpiredMoved'
<1>0. /\ dim' = dim /\ today' = today /\ date' = date
      /\ orders' = orders \cup {<<d, c, city>>}
  BY DEF Order, table
<1> SUFFICES ASSUME NEW row \in dim, ~ row.is_current, row.effective_to = today
             PROVE  /\ row.customer \in Seen(date)'
                    /\ OneCityPerDay' => \A city2 \in Cities :
                         <<date, row.customer, city2>> \in orders' => row.city # city2
  BY <1>0 DEF ExpiredMoved
<1>1. row.customer \in Seen(date)
  BY DEF ExpiredMoved
<1>2. row.customer \in Seen(date)'
  BY <1>0, <1>1 DEF Seen
<1>3. ASSUME OneCityPerDay', NEW city2 \in Cities, <<date, row.customer, city2>> \in orders'
      PROVE  row.city # city2
  <2>1. OneCityPerDay
    BY <1>0, <1>3 DEF OneCityPerDay
  <2>2. PICK city1 \in Cities : <<date, row.customer, city1>> \in orders
    BY <1>1, SeenFacts
  <2>3. row.city # city1
    BY <2>1, <2>2 DEF ExpiredMoved
  <2> DEFINE o1 == <<date, row.customer, city1>>
             o2 == <<date, row.customer, city2>>
  <2>4. o1 \in orders' /\ o2 \in orders'
    BY <1>0, <1>3, <2>2
  <2>5. o1[1] = o2[1] /\ o1[2] = o2[2] => o1[3] = o2[3]
    BY <1>3, <2>4 DEF OneCityPerDay
  <2> QED BY <2>3, <2>5
<1> QED BY <1>2, <1>3

LEMMA VersionInit == Init => VersionInv
<1> QED BY DayInit DEF Init, VersionInv, VersionsDiffer

LEMMA VersionNext == OneRunPerDay /\ VersionInv /\ [Next]_vars => VersionInv'
<1> SUFFICES ASSUME OneRunPerDay, VersionInv, [Next]_vars PROVE VersionInv'
  OBVIOUS
<1>0. DayInv' /\ DayInv /\ TypeOK
  BY DayNext DEF VersionInv, DayInv, TableInv
<1> DEFINE Body == /\ pc = "append" => ExpiredMoved
                   /\ OneCityPerDay => VersionsDiffer
<1> SUFFICES ASSUME spans' = 0 PROVE Body'
  BY <1>0 DEF VersionInv
<1>1. spans = 0
  <2>1. spans \in Nat
    BY <1>0, DayTyped
  <2>2. spans' = spans \/ spans' = spans + 1
    BY DEF Next, vars, limits, Order, Midnight, Start, MergeDim, AppendChanged, NoTable, Fault,
           Overwrite, Crash
  <2> QED BY <2>1, <2>2
<1>2. Body
  BY <1>1 DEF VersionInv
<1>3. OneCityPerDay' => OneCityPerDay
  BY DEF OneCityPerDay, Next, vars, Order, Midnight, Start, MergeDim, AppendChanged, NoTable,
         Fault, Overwrite, Crash
<1>4. ASSUME dim' = dim PROVE OneCityPerDay' => VersionsDiffer'
  BY <1>2, <1>3, <1>4 DEF VersionsDiffer
<1>5. ASSUME NEW d \in 0 .. MaxDay, NEW c \in Customers, NEW city \in Cities, Order(d, c, city)
      PROVE  Body'
  <2>1. dim' = dim /\ pc' = pc
    BY <1>5 DEF Order, table
  <2>2. pc = "append" => ExpiredMoved'
    BY <1>0, <1>2, <1>5, VersionOrder
  <2> QED BY <1>4, <2>1, <2>2
<1>6. CASE Midnight
  <2>1. pc' = "idle" /\ dim' = dim
    BY <1>1, <1>6, DayTyped, <1>0 DEF Midnight, table
  <2> QED BY <1>4, <2>1
<1>7. ASSUME NEW d \in 0 .. MaxDay, Start(d) PROVE Body'
  BY <1>4, <1>7 DEF Start, table
<1>8. CASE MergeDim
  BY <1>1, <1>3, <1>8, VersionMerge
<1>9. CASE AppendChanged
  <2>1. pc' = "idle"
    BY <1>9 DEF AppendChanged
  <2> QED BY <1>1, <1>3, <1>9, <2>1, VersionAppend
<1>10. CASE Overwrite
  <2>1. pc' = "idle"
    BY <1>10 DEF Overwrite
  <2> QED BY <1>10, <2>1, VersionOverwrite
<1>11. CASE NoTable \/ Fault \/ Crash
  <2>1. pc' # "append" /\ dim' = dim
    BY <1>11 DEF NoTable, Fault, Crash, table
  <2> QED BY <1>4, <2>1
<1>12. CASE UNCHANGED vars
  BY <1>2, <1>12 DEF vars, table, ExpiredMoved, VersionsDiffer, OneCityPerDay, Seen
<1> HIDE DEF Body
<1> QED BY <1>5, <1>6, <1>7, <1>8, <1>9, <1>10, <1>11, <1>12 DEF Next

(* A row that continues another names another city, as long as the events  *)
(* of a customer's day name one city, one run starts per calendar day and  *)
(* none spans midnight: the snapshot that the append evaluates anew may    *)
(* have grown, but it still differs from what the MERGE expired.           *)
THEOREM VersionsAreNew == ASSUME OneRunPerDay PROVE Spec => []NewVersionDiffers
<1>1. Init => VersionInv
  BY VersionInit
<1>2. VersionInv /\ [Next]_vars => VersionInv'
  BY VersionNext
<1>3. VersionInv => NewVersionDiffers
  BY DEF VersionInv, VersionsDiffer, NewVersionDiffers
<1> QED BY <1>1, <1>2, <1>3, PTL DEF Spec

-----------------------------------------------------------------------------
(* Completeness.  Between the MERGE and the append, a customer with rows   *)
(* has a current one or one that expired today, and in the second case the *)
(* snapshot of the append will name the customer.                          *)
Continued(row) ==
  \E next \in dim : next.customer = row.customer /\ next.effective_from = row.effective_to

HasCurrent(row) == \E r \in dim : r.customer = row.customer /\ r.is_current

Complete == \A row \in dim : HasCurrent(row) /\ (row.is_current \/ Continued(row))

HalfComplete ==
  \A row \in dim :
    /\ \/ HasCurrent(row)
       \/ \E r \in dim : r.customer = row.customer /\ ~ r.is_current /\ r.effective_to = today
    /\ row.is_current \/ row.effective_to = today \/ Continued(row)

CompleteInv ==
  /\ VersionInv
  /\ crashes = 0 /\ spans = 0 =>
       /\ pc \in {"idle", "merge"} => Complete
       /\ pc = "append" => HalfComplete

LEMMA CompleteMerge ==
  ASSUME VersionInv, MergeDim, spans = 0, Complete
  PROVE  HalfComplete'
<1>0. TypeOK /\ RowsBeforeToday /\ today' = today
  BY DEF VersionInv, DayInv, TableInv, MergeDim
<1>1. PICK snap \in Snapshot(date) :
        /\ \A row \in dim : MergedRow(row, snap) \in dim'
        /\ \A c \in DOMAIN snap :
             Current(c) = {} => NewRow(c, snap[c], Number(c, 1)) \in dim'
        /\ \A new \in dim' :
             \/ \E row \in dim : new = MergedRow(row, snap)
             \/ \E c \in DOMAIN snap :
                  Current(c) = {} /\ new = NewRow(c, snap[c], Number(c, 1))
  BY <1>0, MergeRows
<1> DEFINE M(row) == MergedRow(row, snap)
           N(c)   == NewRow(c, snap[c], Number(c, 1))
           C      == {c \in DOMAIN snap : Current(c) = {}}
<1>2. \A row \in dim :
        /\ M(row) \in dim'
        /\ M(row).customer = row.customer
        /\ M(row).effective_from = row.effective_from
        /\ ~ row.is_current => M(row) = row
        /\ M(row).is_current \/ M(row) = row \/ (row.is_current /\ M(row).effective_to = today)
        /\ Expires(row, snap) => ~ M(row).is_current /\ M(row).effective_to = today
        /\ ~ Expires(row, snap) => M(row).is_current = row.is_current
  BY <1>0, <1>1, MergedIs
<1>3. \A c \in C : N(c).customer = c /\ N(c).is_current
  <2>1. 1 \in Nat \ {0}
    OBVIOUS
  <2> QED BY <1>0, <2>1, NewRowFacts
<1>4. \A new \in dim' : (\E row \in dim : new = M(row)) \/ (\E c \in C : new = N(c))
  BY <1>1
<1> HIDE DEF M, N, C
<1>5. ASSUME NEW new \in dim', NEW row \in dim, new = M(row)
      PROVE  \/ HasCurrent(new)'
             \/ \E r \in dim' : /\ r.customer = new.customer
                                /\ ~ r.is_current /\ r.effective_to = today
  <2>1. PICK r \in dim : r.customer = row.customer /\ r.is_current
    BY DEF Complete, HasCurrent
  <2>2. /\ M(r) \in dim' /\ M(r).customer = new.customer
        /\ M(r).is_current \/ (~ M(r).is_current /\ M(r).effective_to = today)
    BY <1>2, <1>5, <2>1
  <2> QED BY <2>2 DEF HasCurrent
<1>6. ASSUME NEW new \in dim', NEW row \in dim, new = M(row)
      PROVE  new.is_current \/ new.effective_to = today \/ Continued(new)'
  <2>1. CASE row.is_current
    BY <1>2, <1>6, <2>1
  <2>2. CASE ~ row.is_current
    <3>1. PICK next \in dim : next.customer = row.customer /\ next.effective_from = row.effective_to
      BY <2>2 DEF Complete, Continued
    <3>2. /\ M(next) \in dim'
          /\ M(next).customer = new.customer /\ M(next).effective_from = new.effective_to
      BY <1>2, <1>6, <2>2, <3>1
    <3> QED BY <3>2 DEF Continued
  <2> QED BY <2>1, <2>2
<1>7. ASSUME NEW new \in dim', NEW c \in C, new = N(c)
      PROVE  new.is_current /\ HasCurrent(new)'
  BY <1>3, <1>7 DEF HasCurrent
<1> SUFFICES ASSUME NEW new \in dim'
             PROVE  /\ \/ HasCurrent(new)'
                       \/ \E r \in dim' : /\ r.customer = new.customer
                                          /\ ~ r.is_current /\ r.effective_to = today
                    /\ new.is_current \/ new.effective_to = today \/ Continued(new)'
  BY <1>0 DEF HalfComplete
<1> QED BY <1>4, <1>5, <1>6, <1>7

LEMMA CompleteAppend ==
  ASSUME VersionInv, AppendChanged, spans = 0, HalfComplete
  PROVE  Complete'
<1>0. TypeOK /\ ExpiredMoved /\ DayInv
  BY DEF VersionInv, DayInv, TableInv, AppendChanged
<1>1. PICK snap \in Snapshot(date) :
        LET N(c) == NewRow(c, snap[c], Number(c, 1))
            C    == {c \in DOMAIN snap : ExpiredToday(c) # {}}
        IN  /\ dim' = dim \cup {N(c) : c \in C}
            /\ \A c \in C : /\ N(c).customer = c
                            /\ N(c).city = snap[c]
                            /\ N(c).effective_from = today
                            /\ N(c).effective_to = Null
                            /\ N(c).is_current
                            /\ <<date, c, snap[c]>> \in orders
                            /\ \A row \in dim : row.customer = c => ~ row.is_current
  BY <1>0, AppendedIs
<1> DEFINE N(c) == NewRow(c, snap[c], Number(c, 1))
           C    == {c \in DOMAIN snap : ExpiredToday(c) # {}}
<1>2. /\ dim' = dim \cup {N(c) : c \in C}
      /\ \A c \in C : N(c).customer = c /\ N(c).effective_from = today /\ N(c).is_current
  BY <1>1
<1>3. \A row \in dim : ~ row.is_current /\ row.effective_to = today => row.customer \in C
  <2>1. DOMAIN snap = Seen(date)
    BY <1>0, SnapshotFacts
  <2> QED BY <1>0, <2>1 DEF ExpiredMoved, ExpiredToday
<1> HIDE DEF N, C
<1>4. ASSUME NEW row \in dim PROVE HasCurrent(row)'
  <2>1. CASE HasCurrent(row)
    BY <1>2, <2>1 DEF HasCurrent
  <2>2. CASE \E r \in dim : r.customer = row.customer /\ ~ r.is_current /\ r.effective_to = today
    <3>1. row.customer \in C
      BY <1>3, <2>2
    <3>2. PICK new \in dim' : new.customer = row.customer /\ new.is_current
      BY <1>2, <3>1
    <3> QED BY <3>2 DEF HasCurrent
  <2> QED BY <2>1, <2>2 DEF HalfComplete
<1>5. ASSUME NEW row \in dim, ~ row.is_current PROVE Continued(row)'
  <2>1. CASE Continued(row)
    BY <1>2, <2>1 DEF Continued
  <2>2. CASE row.effective_to = today
    <3>1. row.customer \in C
      BY <1>3, <1>5, <2>2
    <3>2. PICK new \in dim' : /\ new.customer = row.customer
                              /\ new.effective_from = row.effective_to
      BY <1>2, <2>2, <3>1
    <3> QED BY <3>2 DEF Continued
  <2> QED BY <1>5, <2>1, <2>2 DEF HalfComplete
<1>6. ASSUME NEW new \in dim', NEW c \in C, new = N(c)
      PROVE  new.is_current /\ HasCurrent(new)'
  BY <1>2, <1>6 DEF HasCurrent
<1> SUFFICES ASSUME NEW new \in dim'
             PROVE  HasCurrent(new)' /\ (new.is_current \/ Continued(new)')
  BY DEF Complete
<1> QED BY <1>2, <1>4, <1>5, <1>6

LEMMA CompleteOverwrite ==
  ASSUME TypeOK, Overwrite
  PROVE  Complete'
<1>1. PICK snap \in Snapshot(date) :
        \A new \in dim' : \E c \in DOMAIN snap : new = NewRow(c, snap[c], Number(c, 1))
  BY OverwriteRows
<1>2. \A new \in dim' : new.is_current
  <2>1. 1 \in Nat \ {0}
    OBVIOUS
  <2> QED BY <1>1, <2>1, NewRowFacts
<1> QED BY <1>2 DEF Complete, HasCurrent

LEMMA CompleteInit == Init => CompleteInv
<1> QED BY VersionInit DEF Init, CompleteInv, Complete

LEMMA CompleteNext == OneRunPerDay /\ CompleteInv /\ [Next]_vars => CompleteInv'
<1> SUFFICES ASSUME OneRunPerDay, CompleteInv, [Next]_vars PROVE CompleteInv'
  OBVIOUS
<1>0. VersionInv' /\ VersionInv /\ TypeOK
  BY VersionNext DEF CompleteInv, VersionInv, DayInv, TableInv
<1> DEFINE Body == /\ pc \in {"idle", "merge"} => Complete
                   /\ pc = "append" => HalfComplete
<1> SUFFICES ASSUME crashes' = 0, spans' = 0 PROVE Body'
  BY <1>0 DEF CompleteInv
<1>1. crashes = 0 /\ spans = 0 /\ ~ Crash
  <2>1. crashes \in Nat /\ spans \in Nat
    BY <1>0, CustomerDimAssumption DEF TypeOK
  <2>2. /\ spans' = spans \/ spans' = spans + 1
        /\ crashes' = crashes \/ crashes' = crashes + 1
    BY DEF Next, vars, limits, Order, Midnight, Start, MergeDim, AppendChanged, NoTable, Fault,
           Overwrite, Crash
  <2> QED BY <2>1, <2>2 DEF Crash
<1>2. Body
  BY <1>1 DEF CompleteInv
<1>3. ASSUME dim' = dim, pc' \in {"idle", "merge"}, pc \in {"idle", "merge"}
      PROVE  Body'
  BY <1>2, <1>3 DEF Complete, HasCurrent, Continued
<1>4. ASSUME dim' = dim, pc' = pc, today' = today
      PROVE  Body'
  BY <1>2, <1>4 DEF Complete, HalfComplete, HasCurrent, Continued
<1>5. CASE Midnight
  <2>1. pc = "idle" /\ pc' = "idle" /\ dim' = dim
    BY <1>0, <1>1, <1>5, DayTyped DEF Midnight, table
  <2> QED BY <1>3, <2>1
<1>6. ASSUME NEW d \in 0 .. MaxDay, Start(d) PROVE Body'
  BY <1>3, <1>6 DEF Start, table
<1>7. CASE MergeDim
  <2>1. pc = "merge" /\ pc' = "append"
    BY <1>7 DEF MergeDim
  <2> QED BY <1>0, <1>1, <1>2, <1>7, <2>1, CompleteMerge
<1>8. CASE AppendChanged
  <2>1. pc = "append" /\ pc' = "idle"
    BY <1>8 DEF AppendChanged
  <2> QED BY <1>0, <1>1, <1>2, <1>8, <2>1, CompleteAppend
<1>9. CASE Overwrite
  <2>1. pc' = "idle"
    BY <1>9 DEF Overwrite
  <2> QED BY <1>0, <1>9, <2>1, CompleteOverwrite
<1>10. CASE NoTable \/ Fault
  <2>1. pc' = "fallback"
    BY <1>10 DEF NoTable, Fault
  <2> QED BY <2>1
<1>11. ASSUME NEW d \in 0 .. MaxDay, NEW c \in Customers, NEW city \in Cities, Order(d, c, city)
       PROVE  Body'
  BY <1>4, <1>11 DEF Order, table
<1>12. CASE UNCHANGED vars
  BY <1>4, <1>12 DEF vars, table
<1> HIDE DEF Body
<1> QED BY <1>1, <1>5, <1>6, <1>7, <1>8, <1>9, <1>10, <1>11, <1>12 DEF Next

(* Between two runs, every customer of the dimension has exactly one       *)
(* current row and every closed row is continued by another without a gap, *)
(* MERGEs that raised included, as long as no run has died, one run starts *)
(* per calendar day and none has spanned midnight.                         *)
THEOREM TimelinesComplete == ASSUME OneRunPerDay PROVE Spec => []TimelineComplete
<1>1. Init => CompleteInv
  BY CompleteInit
<1>2. CompleteInv /\ [Next]_vars => CompleteInv'
  BY CompleteNext
<1>3. ASSUME CompleteInv PROVE TimelineComplete
  <2> SUFFICES ASSUME pc = "idle", crashes = 0, spans = 0, NEW row \in dim
               PROVE  /\ Cardinality(Current(row.customer)) = 1
                      /\ \/ row.is_current
                         \/ \E next \in RowsOf(row.customer) : next.effective_from = row.effective_to
    BY DEF TimelineComplete
  <2>1. HasCurrent(row) /\ (row.is_current \/ Continued(row)) /\ Disjoint
    BY <1>3 DEF CompleteInv, Complete, VersionInv, DayInv
  <2>2. Current(row.customer) # {} /\ \A x, y \in Current(row.customer) : x = y
    BY <2>1 DEF HasCurrent, Current, Disjoint, Before
  <2>3. Cardinality(Current(row.customer)) = 1
    BY <2>2, AtMostOne
  <2> QED BY <2>1, <2>3 DEF Continued, RowsOf
<1> QED BY <1>1, <1>2, <1>3, PTL DEF Spec

=============================================================================
