-------------------------- MODULE SilverOrdersProofs --------------------------
(***************************************************************************)
(* Theorems about the Silver fact table, for any events, days, runners,    *)
(* copies and runs.                                                        *)
(***************************************************************************)
EXTENDS SilverOrders, TLAPS

(* What the runners have read never exceeds what Bronze holds, since       *)
(* nothing is deleted from Bronze; that is what makes the lineage          *)
(* inductive.                                                              *)
LineageInv ==
  /\ TypeOK
  /\ \A e \in Events : silver[e] <= bronze[e]
  /\ \A j \in Runners : \A e \in Events : source[j][e] <= bronze[e]

LEMMA LineageInit == Init => LineageInv
<1> SUFFICES ASSUME Init PROVE LineageInv
  OBVIOUS
<1>1. None \in Bag /\ \A e \in Events : None[e] = 0
  BY SilverOrdersAssumption DEF None, Bag
<1>2. TypeOK
  BY <1>1 DEF Init, TypeOK
<1>3. /\ \A e \in Events : silver[e] = 0 /\ bronze[e] = 0
      /\ \A j \in Runners : \A e \in Events : source[j][e] = 0
  BY <1>1 DEF Init
<1> QED BY <1>2, <1>3 DEF LineageInv

LEMMA LineageNext == LineageInv /\ [Next]_vars => LineageInv'
<1> SUFFICES ASSUME LineageInv, [Next]_vars PROVE LineageInv'
  OBVIOUS
<1> USE SilverOrdersAssumption DEF LineageInv, Bag
<1>0. ASSUME NEW d \in Days
      PROVE  DayRows(d) \in Bag /\ \A e \in Events : DayRows(d)[e] <= bronze[e]
  BY DEF DayRows, TypeOK
<1>1. ASSUME NEW batch \in SUBSET Events, Arrive(batch) PROVE LineageInv'
  <2>1. bronze' = [e \in Events |-> IF e \in batch THEN bronze[e] + 1 ELSE bronze[e]]
    BY <1>1 DEF Arrive, Feed!Commit
  <2>2. bronze' \in Bag /\ \A e \in Events : bronze[e] <= bronze'[e]
    BY <1>1, <2>1 DEF Arrive, TypeOK
  <2>3. UNCHANGED <<table, dqResults, job, limits>>
    BY <1>1 DEF Arrive
  <2>4. \A e \in Events : /\ bronze[e] \in Nat /\ bronze'[e] \in Nat
                          /\ silver[e] \in Nat
                          /\ \A j \in Runners : source[j][e] \in Nat
    BY <2>2 DEF TypeOK
  <2>5. TypeOK'
    BY <2>2, <2>3 DEF TypeOK, table, job, limits
  <2> QED BY <2>2, <2>3, <2>4, <2>5 DEF table, job
<1>2. ASSUME NEW j \in Runners, NEW d \in Days, Start(j, d) PROVE LineageInv'
  BY <1>2 DEF Start, TypeOK, table, None
<1>3. ASSUME NEW j \in Runners, RunSilverDq(j) PROVE LineageInv'
  BY <1>3 DEF RunSilverDq, TypeOK, table, limits
<1>4. ASSUME NEW j \in Runners, BeginMerge(j) PROVE LineageInv'
  <2>1. date[j] \in Days
    BY DEF TypeOK
  <2>2. source' = [source EXCEPT ![j] = DayRows(date[j])]
    BY <1>4 DEF BeginMerge
  <2>3. source' \in [Runners -> Bag]
    BY <1>0, <2>1, <2>2 DEF TypeOK
  <2>4. \A k \in Runners : \A e \in Events : source'[k][e] <= bronze[e]
    BY <1>0, <2>1, <2>2 DEF TypeOK
  <2> QED BY <1>4, <2>3, <2>4 DEF BeginMerge, TypeOK, table, limits
<1>5. ASSUME NEW j \in Runners, CommitMerge(j) PROVE LineageInv'
  <2>1. \A e \in Events : silver'[e] = IF silver[e] > 0 THEN silver[e] ELSE source[j][e]
    BY <1>5 DEF CommitMerge, Merged
  <2>2. silver' \in Bag /\ \A e \in Events : silver'[e] <= bronze[e]
    BY <1>5, <2>1 DEF CommitMerge, Merged, TypeOK
  <2> QED BY <1>5, <2>2 DEF CommitMerge, TypeOK, limits
<1>6. ASSUME NEW j \in Runners, Overwrite(j) PROVE LineageInv'
  <2>1. date[j] \in Days
    BY DEF TypeOK
  <2>2. source' = [source EXCEPT ![j] = DayRows(date[j])] /\ silver' = DayRows(date[j])
    BY <1>6 DEF Overwrite
  <2>3. source' \in [Runners -> Bag] /\ silver' \in Bag
    BY <1>0, <2>1, <2>2 DEF TypeOK
  <2>4. /\ \A k \in Runners : \A e \in Events : source'[k][e] <= bronze[e]
        /\ \A e \in Events : silver'[e] <= bronze[e]
    BY <1>0, <2>1, <2>2 DEF TypeOK
  <2> QED BY <1>6, <2>3, <2>4 DEF Overwrite, TypeOK, limits
<1>7. ASSUME NEW j \in Runners, NoTable(j) \/ MergeRaises(j) \/ Finish(j) \/ Crash(j)
      PROVE  LineageInv'
  BY <1>7 DEF NoTable, MergeRaises, Finish, Crash, TypeOK, table, limits
<1>8. ASSUME NEW j \in Runners, Fault(j) PROVE LineageInv'
  BY <1>8 DEF Fault, TypeOK, table
<1>9. CASE UNCHANGED vars
  BY <1>9 DEF vars, TypeOK, table, job, limits
<1> QED
  BY <1>1, <1>2, <1>3, <1>4, <1>5, <1>6, <1>7, <1>8, <1>9 DEF Next, Step

(* Type correctness.                                                       *)
THEOREM SilverTypeCorrect == Spec => []TypeOK
<1>1. LineageInv => TypeOK
  BY DEF LineageInv
<1> QED BY <1>1, LineageInit, LineageNext, PTL DEF Spec

(* Silver never holds more rows of an event than Bronze: see               *)
(* SilverFromBronze.                                                       *)
THEOREM SilverLineage == Spec => []SilverFromBronze
<1>1. LineageInv => SilverFromBronze
  BY DEF LineageInv, SilverFromBronze
<1> QED BY <1>1, LineageInit, LineageNext, PTL DEF Spec

(* However writers overlap and Bronze grows, a write that returns, MERGE   *)
(* or fallback, leaves no event out that it read: WritePutsAll.            *)
THEOREM WritesPutAllEvents == Spec => WritePutsAll
<1> DEFINE Puts == \A j \in Runners : pc[j] # "written" /\ pc'[j] = "written" =>
                     \A e \in Events : source'[j][e] > 0 => silver'[e] > 0
<1>1. LineageInv /\ [Next]_vars => [Puts]_vars
  <2> SUFFICES ASSUME LineageInv, Next, NEW j \in Runners, pc[j] # "written", pc'[j] = "written",
                      NEW e \in Events, source'[j][e] > 0
               PROVE  silver'[e] > 0
    OBVIOUS
  <2>1. /\ pc \in [Runners -> {"idle", "started", "checked", "merging", "fallback", "written"}]
        /\ source \in [Runners -> Bag] /\ silver[e] \in Nat
    BY SilverOrdersAssumption DEF LineageInv, TypeOK, Bag
  <2>2. CommitMerge(j) \/ Overwrite(j)
    BY <2>1 DEF Next, Step, Arrive, Start, RunSilverDq, BeginMerge, NoTable, CommitMerge,
                MergeRaises, Fault, Overwrite, Finish, Crash, job
  <2>3. CASE CommitMerge(j)
    BY <2>1, <2>3 DEF CommitMerge, Merged
  <2>4. CASE Overwrite(j)
    BY <2>1, <2>4 DEF Overwrite
  <2> QED BY <2>2, <2>3, <2>4
<1> QED BY <1>1, LineageInit, LineageNext, PTL DEF Spec, WritePutsAll

-----------------------------------------------------------------------------
(* Any number of runners, over any Bronze.                                 *)

(* A runner that is about to fall back over a table that exists has met    *)
(* another writer since it read, or has read an event twice, or has met    *)
(* another exception; none of it goes away before it acts, because         *)
(* versions grow.                                                          *)
FallbackInv ==
  /\ LineageInv
  /\ ~ created => \A e \in Events : silver[e] = 0
  /\ \A j \in Runners : readVersion[j] <= version
  /\ \A j \in Runners : pc[j] = "merging" => created
  /\ \A j \in Runners :
       pc[j] = "fallback" /\ created => Overtaken(j) \/ ReadTwice(j) \/ faulted[j]

LEMMA FallbackNext == FallbackInv /\ [Next]_vars => FallbackInv'
<1> SUFFICES ASSUME FallbackInv, [Next]_vars PROVE FallbackInv'
  OBVIOUS
<1>1. LineageInv'
  BY LineageNext DEF FallbackInv
<1>2. /\ version \in Nat
      /\ readVersion \in [Runners -> Nat]
      /\ source \in [Runners -> Bag]
      /\ faulted \in [Runners -> BOOLEAN]
      /\ pc \in [Runners -> {"idle", "started", "checked", "merging", "fallback", "written"}]
  BY DEF FallbackInv, LineageInv, TypeOK
<1>3. ASSUME NEW j \in Runners, CommitMerge(j) \/ Overwrite(j) PROVE FallbackInv'
  <2>1. /\ version' = version + 1
        /\ readVersion' = readVersion
        /\ pc' = [pc EXCEPT ![j] = "written"]
    BY <1>3 DEF CommitMerge, Overwrite
  <2>2. \A k \in Runners : readVersion'[k] <= version' /\ version' # readVersion'[k]
    BY <1>2, <2>1 DEF FallbackInv
  <2>3. created'
    BY <1>3 DEF CommitMerge, Overwrite, FallbackInv
  <2> QED BY <1>1, <2>2, <2>3 DEF FallbackInv, Overtaken
<1>4. ASSUME NEW j \in Runners, MergeRaises(j) PROVE FallbackInv'
  <2>1. Overtaken(j) \/ ReadTwice(j)
    BY <1>4 DEF MergeRaises, Ambiguous, Overtaken, ReadTwice
  <2> QED BY <1>1, <1>2, <1>4, <2>1 DEF FallbackInv, MergeRaises, Overtaken, ReadTwice, table
<1>5. ASSUME NEW j \in Runners, BeginMerge(j) PROVE FallbackInv'
  BY <1>1, <1>2, <1>5 DEF FallbackInv, BeginMerge, Overtaken, ReadTwice, table
<1>6. ASSUME NEW j \in Runners, NoTable(j) \/ Fault(j) PROVE FallbackInv'
  BY <1>1, <1>2, <1>6 DEF FallbackInv, NoTable, Fault, Overtaken, ReadTwice, table
<1>7. ASSUME NEW j \in Runners, RunSilverDq(j) \/ Finish(j) \/ Crash(j) PROVE FallbackInv'
  BY <1>1, <1>2, <1>7 DEF FallbackInv, RunSilverDq, Finish, Crash, Overtaken, ReadTwice, table
<1>8. ASSUME NEW j \in Runners, NEW d \in Days, Start(j, d) PROVE FallbackInv'
  BY <1>1, <1>2, <1>8 DEF FallbackInv, Start, Overtaken, ReadTwice, table
<1>9. ASSUME UNCHANGED <<table, job>> PROVE FallbackInv'
  BY <1>1, <1>9 DEF FallbackInv, Overtaken, ReadTwice, table, job
<1> QED BY <1>3, <1>4, <1>5, <1>6, <1>7, <1>8, <1>9 DEF Next, Step, Arrive, vars

(* Only a fallback takes rows out of Silver, and never rows of the day     *)
(* that it is for: it puts back what Bronze holds of that day, and Silver  *)
(* did not have more.                                                      *)
LEMMA LossIsFallback ==
  ASSUME LineageInv, [Next]_vars, NEW e \in Events, silver'[e] < silver[e]
  PROVE  silver[e] > 0 /\ \E j \in Runners : Overwrite(j) /\ DayOf[e] # date[j]
<1>1. silver[e] \in Nat /\ silver'[e] \in Nat /\ bronze[e] \in Nat /\ silver[e] <= bronze[e]
  BY LineageNext, SilverOrdersAssumption DEF LineageInv, TypeOK, Bag
<1>2. ASSUME NEW j \in Runners, CommitMerge(j) PROVE FALSE
  BY <1>1, <1>2 DEF CommitMerge, Merged
<1>3. PICK j \in Runners : Overwrite(j)
  BY <1>1, <1>2 DEF Next, Step, Arrive, Start, RunSilverDq, BeginMerge, NoTable, MergeRaises,
     Fault, Finish, Crash, vars, table
<1>4. ASSUME DayOf[e] = date[j] PROVE FALSE
  BY <1>1, <1>3, <1>4 DEF Overwrite, DayRows
<1> QED BY <1>1, <1>3, <1>4

(* Whatever the runners do, rows go out of Silver only by the fallback of  *)
(* a runner that met another writer, read an event twice or met another    *)
(* exception, and never rows of the day it is for: see LossExplained.      *)
THEOREM LossNeedsCause == Spec => LossExplained
<1> DEFINE Explained ==
      \A e \in Events : silver'[e] < silver[e] =>
        \E j \in Runners :
          /\ pc[j] = "fallback" /\ pc'[j] = "written"
          /\ DayOf[e] # date[j]
          /\ Overtaken(j) \/ ReadTwice(j) \/ faulted[j]
<1>1. Init => FallbackInv
  BY LineageInit DEF Init, None, FallbackInv
<1>2. FallbackInv /\ [Next]_vars => [Explained]_vars
  <2> SUFFICES ASSUME FallbackInv, [Next]_vars, NEW e \in Events, silver'[e] < silver[e]
               PROVE  \E j \in Runners :
                        /\ pc[j] = "fallback" /\ pc'[j] = "written"
                        /\ DayOf[e] # date[j]
                        /\ Overtaken(j) \/ ReadTwice(j) \/ faulted[j]
    OBVIOUS
  <2>1. PICK j \in Runners : Overwrite(j) /\ DayOf[e] # date[j]
    BY LossIsFallback DEF FallbackInv
  <2>2. pc[j] = "fallback" /\ pc'[j] = "written"
    BY <2>1 DEF Overwrite, FallbackInv, LineageInv, TypeOK
  <2>3. created
    BY LossIsFallback DEF FallbackInv
  <2> QED BY <2>1, <2>2, <2>3 DEF FallbackInv
<1>3. FallbackInv /\ [Next]_vars => FallbackInv'
  BY FallbackNext
<1> QED BY <1>1, <1>2, <1>3, PTL DEF Spec, LossExplained

-----------------------------------------------------------------------------
(* One runner over a Bronze without duplicates.                            *)

(* But for a fault, the runner falls back only to create the table, and    *)
(* nothing is in a table that does not exist.                              *)
AloneInv ==
  /\ LineageInv
  /\ ~ created => \A e \in Events : silver[e] = 0
  /\ \A j \in Runners :
       /\ pc[j] = "fallback" => ~ created \/ faulted[j]
       /\ pc[j] = "merging" => created /\ version = readVersion[j]

LEMMA AloneNext ==
  ASSUME \A j, k \in Runners : j = k, MaxCopies = 1
  PROVE  AloneInv /\ [Next]_vars => AloneInv'
<1> SUFFICES ASSUME AloneInv, [Next]_vars PROVE AloneInv'
  OBVIOUS
<1>1. LineageInv'
  BY LineageNext DEF AloneInv
<1>2. ASSUME NEW j \in Runners, MergeRaises(j) PROVE FALSE
  <2>1. pc[j] = "merging" /\ (version # readVersion[j] \/ Ambiguous(j))
    BY <1>2 DEF MergeRaises
  <2>2. \A e \in Events : source[j][e] \in 0 .. 1
    BY DEF AloneInv, LineageInv, TypeOK, Bag
  <2> QED BY <2>1, <2>2 DEF AloneInv, Ambiguous
<1>3. ASSUME NEW j \in Runners,
             \/ CommitMerge(j) \/ Overwrite(j) \/ NoTable(j) \/ Finish(j) \/ Crash(j)
             \/ RunSilverDq(j) \/ Fault(j) \/ BeginMerge(j)
      PROVE  AloneInv'
  <2>0. /\ \A k \in Runners : k = j
        /\ pc \in [Runners -> {"idle", "started", "checked", "merging", "fallback", "written"}]
        /\ readVersion \in [Runners -> Nat]
        /\ faulted \in [Runners -> BOOLEAN]
    BY DEF AloneInv, LineageInv, TypeOK
  <2>1. CASE CommitMerge(j)
    <3>1. created
      BY <2>1 DEF CommitMerge, AloneInv
    <3> QED BY <1>1, <2>0, <2>1, <3>1 DEF AloneInv, CommitMerge
  <2>2. CASE Overwrite(j)
    BY <1>1, <2>0, <2>2 DEF AloneInv, Overwrite
  <2>3. CASE NoTable(j)
    BY <1>1, <2>0, <2>3 DEF AloneInv, NoTable, table
  <2>4. CASE Finish(j) \/ Crash(j)
    BY <1>1, <2>0, <2>4 DEF AloneInv, Finish, Crash, table
  <2>5. CASE RunSilverDq(j)
    BY <1>1, <2>0, <2>5 DEF AloneInv, RunSilverDq, table
  <2>6. CASE Fault(j)
    BY <1>1, <2>0, <2>6 DEF AloneInv, Fault, table
  <2>7. CASE BeginMerge(j)
    BY <1>1, <2>0, <2>7 DEF AloneInv, BeginMerge, table
  <2> QED BY <1>3, <2>1, <2>2, <2>3, <2>4, <2>5, <2>6, <2>7
<1>4. ASSUME NEW j \in Runners, NEW d \in Days, Start(j, d) PROVE AloneInv'
  BY <1>1, <1>4 DEF AloneInv, LineageInv, TypeOK, Start, table
<1>5. ASSUME UNCHANGED <<table, job>> PROVE AloneInv'
  BY <1>1, <1>5 DEF AloneInv, table, job
<1> QED BY <1>2, <1>3, <1>4, <1>5 DEF Next, Step, Arrive, vars

(* With one runner and one original of each event in Bronze, retries,      *)
(* crashes and backfills in any order take nothing out of Silver: rows     *)
(* that are lost, and they are of other days, are lost to the fallback of  *)
(* a run whose try some other exception has ended.  See NothingLost.       *)
THEOREM AloneLosesOnlyToFaults ==
  ASSUME \A j, k \in Runners : j = k, MaxCopies = 1
  PROVE  Spec => [][\A e \in Events : silver'[e] < silver[e] =>
                      \E j \in Runners :
                        pc[j] = "fallback" /\ faulted[j] /\ DayOf[e] # date[j]]_vars
<1> DEFINE ByFault ==
      \A e \in Events : silver'[e] < silver[e] =>
        \E j \in Runners : pc[j] = "fallback" /\ faulted[j] /\ DayOf[e] # date[j]
<1>1. Init => AloneInv
  <2>1. Init => \A e \in Events : silver[e] = 0
    BY DEF Init, None
  <2>2. Init => \A j \in Runners : pc[j] = "idle"
    BY DEF Init
  <2> QED BY <2>1, <2>2, LineageInit DEF AloneInv
<1>2. AloneInv /\ [Next]_vars => [ByFault]_vars
  <2> SUFFICES ASSUME AloneInv, [Next]_vars, NEW e \in Events, silver'[e] < silver[e]
               PROVE  \E j \in Runners : pc[j] = "fallback" /\ faulted[j] /\ DayOf[e] # date[j]
    OBVIOUS
  <2>1. PICK j \in Runners : Overwrite(j) /\ DayOf[e] # date[j]
    BY LossIsFallback DEF AloneInv
  <2>2. created
    BY LossIsFallback DEF AloneInv
  <2> QED BY <2>1, <2>2 DEF AloneInv, Overwrite
<1>3. AloneInv /\ [Next]_vars => AloneInv'
  BY AloneNext
<1> HIDE DEF ByFault
<1>4. Spec => [][ByFault]_vars
  BY <1>1, <1>2, <1>3, PTL DEF Spec
<1> QED BY <1>4 DEF ByFault

-----------------------------------------------------------------------------
(* The contract with the readers of Silver.                                *)

(* A runner's source holds rows of its day only, and it merges only into a *)
(* table that exists.                                                      *)
ContractInv ==
  /\ LineageInv
  /\ \A j \in Runners : pc[j] = "merging" => created
  /\ \A j \in Runners : \A e \in Events : DayOf[e] # date[j] => source[j][e] = 0

LEMMA ContractNext == ContractInv /\ [Next]_vars => ContractInv'
<1> SUFFICES ASSUME ContractInv, [Next]_vars PROVE ContractInv'
  OBVIOUS
<1>1. LineageInv'
  BY LineageNext DEF ContractInv
<1>2. /\ pc \in [Runners -> {"idle", "started", "checked", "merging", "fallback", "written"}]
      /\ date \in [Runners -> Days]
      /\ source \in [Runners -> Bag]
  BY DEF ContractInv, LineageInv, TypeOK
<1>3. ASSUME NEW d PROVE \A e \in Events : DayOf[e] # d => DayRows(d)[e] = 0
  BY DEF DayRows
<1>4. ASSUME NEW j \in Runners, BeginMerge(j) PROVE ContractInv'
  BY <1>1, <1>2, <1>3, <1>4 DEF ContractInv, BeginMerge, table
<1>5. ASSUME NEW j \in Runners, Overwrite(j) PROVE ContractInv'
  BY <1>1, <1>2, <1>3, <1>5 DEF ContractInv, Overwrite
<1>6. ASSUME NEW j \in Runners, NEW d \in Days, Start(j, d) PROVE ContractInv'
  BY <1>1, <1>2, <1>6 DEF ContractInv, Start, None, table
<1>7. ASSUME NEW j \in Runners,
             \/ RunSilverDq(j) \/ NoTable(j) \/ MergeRaises(j) \/ Fault(j) \/ Finish(j) \/ Crash(j)
      PROVE  ContractInv'
  BY <1>1, <1>2, <1>7 DEF ContractInv, RunSilverDq, NoTable, MergeRaises, Fault, Finish, Crash, table
<1>8. ASSUME NEW j \in Runners, CommitMerge(j) PROVE ContractInv'
  BY <1>1, <1>2, <1>8 DEF ContractInv, CommitMerge
<1>9. ASSUME UNCHANGED <<table, job>> PROVE ContractInv'
  BY <1>1, <1>9 DEF ContractInv, table, job
<1> QED BY <1>4, <1>5, <1>6, <1>7, <1>8, <1>9 DEF Next, Step, Arrive, vars

LEMMA ContractStep ==
  ContractInv /\ [Next]_vars => [Table!Next]_<<created, silver, version>>
<1> SUFFICES ASSUME ContractInv, [Next]_vars
             PROVE  [Table!Next]_<<created, silver, version>>
  OBVIOUS
<1>1. ASSUME NEW j \in Runners, CommitMerge(j) PROVE Table!Next
  <2>1. source[j] \in Table!DayBags(date[j]) /\ date[j] \in Days
    BY DEF ContractInv, LineageInv, TypeOK, Bag, Table!DayBags
  <2>2. created /\ created' = created /\ version' = version + 1
    BY <1>1 DEF CommitMerge, ContractInv
  <2>3. silver' = [e \in Events |-> IF silver[e] > 0 THEN silver[e] ELSE source[j][e]]
    BY <1>1 DEF CommitMerge, Merged
  <2>4. Table!Put(date[j])
    BY <2>1, <2>2, <2>3 DEF Table!Put
  <2> QED BY <2>1, <2>4 DEF Table!Next
<1>2. ASSUME NEW j \in Runners, Overwrite(j) PROVE Table!Next
  <2>1. date[j] \in Days /\ silver' = DayRows(date[j])
    BY <1>2 DEF ContractInv, LineageInv, TypeOK, Overwrite
  <2>2. DayRows(date[j]) \in Table!DayBags(date[j])
    BY SilverOrdersAssumption, <2>1
       DEF ContractInv, LineageInv, TypeOK, Bag, DayRows, Table!DayBags
  <2>3. Table!Replace(date[j])
    BY <1>2, <2>1, <2>2 DEF Overwrite, Table!Replace
  <2> QED BY <2>1, <2>3 DEF Table!Next
<1>3. ASSUME UNCHANGED table PROVE UNCHANGED <<created, silver, version>>
  BY <1>3 DEF table
<1> QED BY <1>1, <1>2, <1>3 DEF Next, Step, Arrive, Start, RunSilverDq, BeginMerge, NoTable,
           MergeRaises, Fault, Finish, Crash, vars, table

(* The job, run by any number of runners, keeps the contract that the      *)
(* readers of Silver are modelled against: see ImplementsTable.            *)
THEOREM SilverContract == Spec => ImplementsTable
<1>1. Init => ContractInv
  BY LineageInit DEF Init, None, ContractInv
<1>2. Init => Table!Init
  BY DEF Init, None, Table!Init
<1>3. ContractInv /\ [Next]_vars => ContractInv'
  BY ContractNext
<1>4. ContractInv /\ [Next]_vars => [Table!Next]_<<created, silver, version>>
  BY ContractStep
<1> QED BY <1>1, <1>2, <1>3, <1>4, PTL DEF Spec, ImplementsTable, Table!Spec

=============================================================================
