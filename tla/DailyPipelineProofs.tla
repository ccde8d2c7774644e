-------------------------- MODULE DailyPipelineProofs -------------------------
(***************************************************************************)
(* Theorems about the night's batch, for any events, schedulers, retries,  *)
(* restarts, tolerance and minimum of rows.                                *)
(***************************************************************************)
EXTENDS DailyPipeline, SilverDqSuiteProofs, TLAPS

(* What is proved of the job alone, for the runners that the schedulers    *)
(* are.                                                                    *)
Job == INSTANCE SilverOrdersProofs WITH Runners <- Schedulers

-----------------------------------------------------------------------------
(* Sums.  SumFunction adds up a function element by element, in an order   *)
(* that is not specified; for natural numbers the result is the number of  *)
(* cells below its graph, by induction on the set of elements (a smallest  *)
(* set on which the two differ would not be smallest).                     *)

(* The part of the sum of fun over s, as SumFunction computes it.          *)
PartialSum(fun, it, s) ==
  IF s = {} THEN 0 ELSE fun[CHOOSE x \in s : TRUE] + it[s \ {CHOOSE x \in s : TRUE}]

Cells(fun, S, M, s) == {p \in S \X (1 .. M) : p[1] \in s /\ p[2] <= fun[p[1]]}

LEMMA SumUnfolds ==
  ASSUME NEW S, NEW fun, DOMAIN fun = S
  PROVE  SumFunction(fun) = (CHOOSE it : it = [s \in SUBSET S |-> PartialSum(fun, it, s)])[S]
<1>1. SumFunction(fun) = SumFunctionOnSet(fun, S)
  BY DEF SumFunction
<1>2. SumFunctionOnSet(fun, S) = FoldFunctionOnSet(+, 0, fun, S)
  BY DEF SumFunctionOnSet
<1>3. FoldFunctionOnSet(+, 0, fun, S)
        = (CHOOSE it : it = [s \in SUBSET S |-> PartialSum(fun, it, s)])[S]
  BY Zenon DEF FoldFunctionOnSet, MapThenFoldSet, PartialSum
<1> QED BY <1>1, <1>2, <1>3, Zenon

LEMMA CellsFinite ==
  ASSUME NEW S, IsFiniteSet(S), NEW M \in Nat, NEW fun, NEW s
  PROVE  IsFiniteSet(Cells(fun, S, M, s)) /\ Cardinality(Cells(fun, S, M, s)) \in Nat
<1>1. IsFiniteSet(1 .. M)
  BY FS_Interval
<1>2. IsFiniteSet(S \X (1 .. M))
  BY <1>1, FS_Product
<1>3. Cells(fun, S, M, s) \subseteq S \X (1 .. M)
  BY DEF Cells
<1>4. IsFiniteSet(Cells(fun, S, M, s))
  BY <1>2, <1>3, FS_Subset
<1> QED BY <1>4, FS_CardinalityType

LEMMA IntervalSize ==
  ASSUME NEW n \in Nat
  PROVE  IsFiniteSet(1 .. n) /\ Cardinality(1 .. n) = n
<1>1. IsFiniteSet(1 .. n) /\ Cardinality(1 .. n) = IF 1 > n THEN 0 ELSE n - 1 + 1
  BY FS_Interval
<1> QED BY <1>1

LEMMA CellsOneMore ==
  ASSUME NEW S, IsFiniteSet(S), NEW M \in Nat, NEW fun \in [S -> 0 .. M],
         NEW s \in SUBSET S, NEW x \in s
  PROVE  Cardinality(Cells(fun, S, M, s)) = fun[x] + Cardinality(Cells(fun, S, M, s \ {x}))
<1> DEFINE A == Cells(fun, S, M, s \ {x})
           B == {x} \X (1 .. fun[x])
<1>1. fun[x] \in 0 .. M
  OBVIOUS
<1>2. IsFiniteSet(A) /\ Cardinality(A) \in Nat
  BY CellsFinite
<1>3. IsFiniteSet(B) /\ Cardinality(B) = fun[x]
  <2>1. IsFiniteSet({x}) /\ Cardinality({x}) = 1
    BY FS_Singleton
  <2>2. IsFiniteSet(1 .. fun[x]) /\ Cardinality(1 .. fun[x]) = fun[x]
    BY <1>1, IntervalSize
  <2>3. IsFiniteSet(B) /\ Cardinality(B) = Cardinality({x}) * Cardinality(1 .. fun[x])
    BY <2>1, <2>2, FS_Product
  <2> QED BY <1>1, <2>1, <2>2, <2>3
<1>4. Cells(fun, S, M, s) = A \cup B
  <2>1. \A p : p \in Cells(fun, S, M, s) => p \in A \cup B
    BY DEF Cells
  <2>2. \A p : p \in A => p \in Cells(fun, S, M, s)
    BY DEF Cells
  <2>3. \A p : p \in B => p \in Cells(fun, S, M, s)
    BY <1>1 DEF Cells
  <2> QED BY <2>1, <2>2, <2>3
<1>5. A \cap B = {}
  BY DEF Cells
<1>6. Cardinality(A \cap B) = 0
  BY <1>5, FS_EmptySet, Zenon
<1>7. Cardinality(A \cup B) = Cardinality(A) + Cardinality(B) - Cardinality(A \cap B)
  BY <1>2, <1>3, FS_Union
<1> HIDE DEF A, B
<1>8. Cardinality(A \cup B) = fun[x] + Cardinality(A)
  BY <1>1, <1>2, <1>3, <1>6, <1>7
<1> QED BY <1>4, <1>8, Zenon DEF A

LEMMA SumIsSize ==
  ASSUME NEW S, IsFiniteSet(S), NEW M \in Nat, NEW fun \in [S -> 0 .. M]
  PROVE  SumFunction(fun) = Cardinality({p \in S \X (1 .. M) : p[2] <= fun[p[1]]})
<1> DEFINE W  == [s \in SUBSET S |-> Cardinality(Cells(fun, S, M, s))]
           it == CHOOSE g : g = [s \in SUBSET S |-> PartialSum(fun, g, s)]
<1>1. \A s \in SUBSET S : W[s] = PartialSum(fun, W, s)
  <2> SUFFICES ASSUME NEW s \in SUBSET S PROVE W[s] = PartialSum(fun, W, s)
    OBVIOUS
  <2>1. CASE s = {}
    <3>1. Cells(fun, S, M, s) = {}
      BY <2>1 DEF Cells
    <3>2. Cardinality(Cells(fun, S, M, s)) = 0
      BY <3>1, FS_EmptySet, Zenon
    <3> QED BY <2>1, <3>2 DEF PartialSum
  <2>2. CASE s # {}
    <3> DEFINE x == CHOOSE y \in s : TRUE
    <3>1. x \in s
      BY <2>2
    <3>2. s \ {x} \in SUBSET S
      OBVIOUS
    <3>3. PartialSum(fun, W, s) = fun[x] + W[s \ {x}]
      BY <2>2, Zenon DEF PartialSum
    <3> HIDE DEF x
    <3>4. W[s \ {x}] = Cardinality(Cells(fun, S, M, s \ {x}))
      BY <3>2
    <3>5. W[s] = fun[x] + Cardinality(Cells(fun, S, M, s \ {x}))
      BY <3>1, CellsOneMore
    <3> QED BY <3>3, <3>4, <3>5
  <2> QED BY <2>1, <2>2
<1>2. W = [s \in SUBSET S |-> PartialSum(fun, W, s)]
  <2> DEFINE V == [s \in SUBSET S |-> PartialSum(fun, W, s)]
  <2>1. \A s \in SUBSET S : W[s] = V[s]
    BY <1>1
  <2>2. V = [s \in SUBSET S |-> V[s]] /\ W = [s \in SUBSET S |-> W[s]]
    OBVIOUS
  <2> HIDE DEF V, W
  <2>3. V = W
    BY <2>1, <2>2
  <2> QED BY <2>3 DEF V
<1>3. it = [s \in SUBSET S |-> PartialSum(fun, it, s)]
  <2>1. \E g : g = [s \in SUBSET S |-> PartialSum(fun, g, s)]
    BY <1>2
  <2> QED BY <2>1, Zenon
<1> HIDE DEF it
<1>4. \A s \in SUBSET S : it[s] = PartialSum(fun, it, s)
  <2> DEFINE V == [s \in SUBSET S |-> PartialSum(fun, it, s)]
  <2>1. \A s \in SUBSET S : V[s] = PartialSum(fun, it, s)
    OBVIOUS
  <2> HIDE DEF V
  <2>2. it = V
    BY <1>3, Zenon DEF V
  <2> QED BY <2>1, <2>2
<1> HIDE DEF W
<1>5. \A s \in SUBSET S : it[s] = W[s]
  <2> DEFINE T == {s \in SUBSET S : it[s] # W[s]}
             R == StrictSubsetOrdering(S)
  <2> SUFFICES ASSUME T # {} PROVE FALSE
    OBVIOUS
  <2>1. IsWellFoundedOn(R, FiniteSubsetsOf(S)) /\ FiniteSubsetsOf(S) = SUBSET S
    BY FS_StrictSubsetOrderingWellFounded, FS_FiniteSubsetsOfFinite, Zenon
  <2>2. T \subseteq FiniteSubsetsOf(S)
    BY <2>1
  <2>3. PICK s \in T : \A t \in T : ~ (<<t, s>> \in R)
    <3> HIDE DEF T, R
    <3> QED BY <2>1, <2>2, WFMin
  <2>4. s # {}
    BY <1>1, <1>4 DEF PartialSum
  <2> DEFINE x == CHOOSE y \in s : TRUE
  <2>5. x \in s
    BY <2>4
  <2>6. it[s] = fun[x] + it[s \ {x}] /\ W[s] = fun[x] + W[s \ {x}]
    <3>1. /\ PartialSum(fun, it, s) = fun[x] + it[s \ {x}]
          /\ PartialSum(fun, W, s) = fun[x] + W[s \ {x}]
      BY <2>4, Zenon DEF PartialSum
    <3> QED BY <1>1, <1>4, <3>1
  <2> HIDE DEF x
  <2>7. <<s \ {x}, s>> \in R
    BY <2>5 DEF StrictSubsetOrdering
  <2>8. it[s \ {x}] = W[s \ {x}]
    BY <2>3, <2>7
  <2> QED BY <2>6, <2>8
<1>6. SumFunction(fun) = it[S]
  BY SumUnfolds, Zenon DEF it
<1>7. W[S] = Cardinality({p \in S \X (1 .. M) : p[2] <= fun[p[1]]})
  <2>1. Cells(fun, S, M, S) = {p \in S \X (1 .. M) : p[2] <= fun[p[1]]}
    BY DEF Cells
  <2>2. W[S] = Cardinality(Cells(fun, S, M, S))
    BY DEF W
  <2> QED BY <2>1, <2>2, Zenon
<1> QED BY <1>5, <1>6, <1>7

-----------------------------------------------------------------------------
(* The job.  An action of SilverOrders that the pipeline takes is the      *)
(* action that the theorems about the job speak of.                        *)

LEMMA JobConstants == Job!SilverOrdersAssumption
BY DailyPipelineAssumption DEF Job!SilverOrdersAssumption

LEMMA SameType == Job!TypeOK <=> Silver!TypeOK
BY DEF Job!TypeOK, Silver!TypeOK, Job!Bag, Silver!Bag

LEMMA SameInit == Silver!Init => Job!Init
BY DEF Job!Init, Silver!Init, Job!None, Silver!None

LEMMA SameRows == Job!DayRows(ds) = Silver!DayRows(ds)
BY DEF Job!DayRows, Silver!DayRows

LEMMA SameArrive == ASSUME NEW batch, Silver!Arrive(batch) PROVE Job!Arrive(batch)
BY DEF Job!Arrive, Silver!Arrive, Job!Feed!Commit, Silver!Feed!Commit, Job!table, Silver!table,
       Job!job, Silver!job, Job!limits, Silver!limits

LEMMA SameStart == ASSUME NEW s, NEW d, Silver!Start(s, d) PROVE Job!Start(s, d)
BY DEF Job!Start, Silver!Start, Job!table, Silver!table, Job!None, Silver!None

LEMMA SameStep ==
  ASSUME NEW s
  PROVE  /\ Silver!RunSilverDq(s) => Job!RunSilverDq(s)
         /\ Silver!BeginMerge(s) => Job!BeginMerge(s)
         /\ Silver!NoTable(s) => Job!NoTable(s)
         /\ Silver!CommitMerge(s) => Job!CommitMerge(s)
         /\ Silver!MergeRaises(s) => Job!MergeRaises(s)
         /\ Silver!Fault(s) => Job!Fault(s)
         /\ Silver!Overwrite(s) => Job!Overwrite(s)
         /\ Silver!Finish(s) => Job!Finish(s)
         /\ Silver!Crash(s) => Job!Crash(s)
BY DEF Job!RunSilverDq, Silver!RunSilverDq, Job!BeginMerge, Silver!BeginMerge, Job!NoTable,
       Silver!NoTable, Job!CommitMerge, Silver!CommitMerge, Job!MergeRaises, Silver!MergeRaises,
       Job!Fault, Silver!Fault, Job!Overwrite, Silver!Overwrite, Job!Finish, Silver!Finish,
       Job!Crash, Silver!Crash, Job!limits, Silver!limits, Job!table, Silver!table,
       Job!DayRows, Silver!DayRows, Job!Merged, Silver!Merged,
       Job!Ambiguous, Silver!Ambiguous

LEMMA StepsAreTheJobs == [Next]_vars => [Silver!Next]_(Silver!vars) /\ [Job!Next]_(Job!vars)
<1> SUFFICES ASSUME [Next]_vars
             PROVE  [Silver!Next]_(Silver!vars) /\ [Job!Next]_(Job!vars)
  OBVIOUS
<1>1. CASE UNCHANGED lakehouse
  BY <1>1 DEF lakehouse, Silver!vars, Silver!table, Silver!job, Silver!limits,
               Job!vars, Job!table, Job!job, Job!limits
<1>2. ASSUME NEW batch \in SUBSET Events, Arrive(batch) PROVE Silver!Next /\ Job!Next
  BY <1>2, SameArrive DEF Arrive, Silver!Next, Job!Next
<1>3. ASSUME NEW s \in Schedulers, NEW p \in Programs, Launch(s, p)
      PROVE  (Silver!Next /\ Job!Next) \/ UNCHANGED lakehouse
  BY <1>3, SameStart, DailyPipelineAssumption DEF Launch, Silver!Next, Job!Next
<1>4. ASSUME NEW s \in Schedulers,
             \/ Silver!RunSilverDq(s) \/ Silver!BeginMerge(s) \/ Silver!NoTable(s)
             \/ Silver!CommitMerge(s) \/ Silver!MergeRaises(s) \/ Silver!Fault(s)
             \/ Silver!Overwrite(s) \/ Silver!Finish(s) \/ Silver!Crash(s)
      PROVE  Silver!Next /\ Job!Next
  BY <1>4, SameStep DEF Silver!Next, Silver!Step, Job!Next, Job!Step
<1>5. ASSUME NEW s \in Schedulers, Program(s) \/ Dies(s)
      PROVE  (Silver!Next /\ Job!Next) \/ UNCHANGED lakehouse
  BY <1>4, <1>5 DEF Program, Dies, SilverStep, SilverReturns, SilverToGold, CountBronze,
                    CountSilver, DqSuite
<1>6. CASE AirflowScheduler
  BY <1>1, <1>6 DEF AirflowScheduler, DqGate, ChosenTask, UpstreamFails
<1> QED BY <1>1, <1>2, <1>3, <1>5, <1>6 DEF Next, vars

(* What the two schedulers do to the lakehouse, retries and restarts       *)
(* included, are runs of the job that SilverOrders models: every property  *)
(* of SilverOrders!Spec holds of the night.                                *)
THEOREM PipelineRunsSilver == Spec => Silver!Spec
<1>1. Init => Silver!Init
  BY DEF Init
<1>2. [Next]_vars => [Silver!Next]_(Silver!vars)
  BY StepsAreTheJobs
<1> QED BY <1>1, <1>2, PTL DEF Spec, Silver!Spec

(* What is known of the lakehouse in every state of the night: types,      *)
(* lineage, sources that hold rows of their day only.                      *)
LEMMA LakehouseInit == Init => Job!ContractInv
<1> SUFFICES ASSUME Init PROVE Job!ContractInv
  OBVIOUS
<1>1. Job!Init
  BY SameInit DEF Init
<1>2. Job!LineageInv
  BY <1>1, JobConstants, Job!LineageInit
<1> QED BY <1>1, <1>2 DEF Job!ContractInv, Job!Init, Job!None

LEMMA LakehouseNext == Job!ContractInv /\ [Next]_vars => Job!ContractInv'
BY StepsAreTheJobs, JobConstants, Job!ContractNext

-----------------------------------------------------------------------------
(* The type invariant, with what each task has been tried.                 *)
TriesInv ==
  \A t \in Tasks : /\ task[t] = "none" => tries[t] = 0
                   /\ task[t] = "up_for_retry" => tries[t] <= RETRIES

TypeInv == Job!ContractInv /\ TypeOK /\ TriesInv

LEMMA TasksAre ==
  /\ Tasks = {"bronze_to_silver", "silver_to_gold", "reconciliation", "dq_gate",
              "pipeline_success", "trigger_alert"}
  /\ Programs = {"bronze_to_silver", "silver_to_gold", "reconciliation", "dq_suite"}
  /\ Following["bronze_to_silver"] = "silver_to_gold"
  /\ Following["silver_to_gold"] = "reconciliation"
  /\ Following["reconciliation"] = "dq_suite"
  /\ Following["dq_suite"] = "complete"
BY DEF Tasks, Programs, Upstream, Following

(* The parts of TypeOK that a scheduler's own step can disturb.            *)
SchedulerTypes ==
  /\ running \in [Schedulers -> Programs \cup {"none", "counting_silver"}]
  /\ task \in [Tasks -> Ended \cup {"none", "running", "up_for_retry"}]
  /\ tries \in [Tasks -> 0 .. RETRIES + 1]
  /\ chain \in Programs \cup {"complete", "failed"}
  /\ restarts \in 0 .. BACKOFF_LIMIT
  /\ TriesInv

LEMMA TypeParts ==
  TypeInv <=> /\ Job!ContractInv
              /\ counted \in [Schedulers -> Silver!Bag]
              /\ verdict \in [Schedulers -> {"none", "PASS", "FAIL"}]
              /\ suite \in {"none", "PASS", "FAIL", "ERROR"}
              /\ alerted \in BOOLEAN
              /\ SchedulerTypes
<1>1. Job!ContractInv => Silver!TypeOK
  BY SameType DEF Job!ContractInv, Job!LineageInv
<1> QED BY <1>1 DEF TypeInv, TypeOK, SchedulerTypes

LEMMA ExitTypes ==
  ASSUME SchedulerTypes, NEW s \in Schedulers, NEW p \in Programs, NEW ok \in BOOLEAN,
         Exit(s, p, ok)
  PROVE  SchedulerTypes'
<1> USE DailyPipelineAssumption DEF SchedulerTypes
<1>0. /\ RETRIES \in Nat /\ BACKOFF_LIMIT \in Nat
      /\ \A q \in Programs : Following[q] \in Programs \cup {"complete", "failed"}
      /\ "bronze_to_silver" \in Programs
  BY TasksAre
<1>1. running' \in [Schedulers -> Programs \cup {"none", "counting_silver"}]
  BY DEF Exit
<1>2. CASE s = "dag"
  <2>1. task' = [task EXCEPT ![p] = After(p, ok)] /\ UNCHANGED <<tries, alerted, kubernetes>>
    BY <1>2 DEF Exit
  <2>2. /\ After(p, ok) \in Ended \cup {"none", "running", "up_for_retry"}
        /\ After(p, ok) # "none"
        /\ After(p, ok) = "up_for_retry" => tries[p] <= RETRIES
    BY DEF After, Ended
  <2>3. task' \in [Tasks -> Ended \cup {"none", "running", "up_for_retry"}]
    BY <2>1, <2>2
  <2>4. TriesInv'
    BY <2>1, <2>2 DEF TriesInv
  <2> QED BY <1>1, <2>1, <2>3, <2>4 DEF kubernetes
<1>3. CASE s # "dag"
  <2>1. ContainerExits(p, ok) /\ UNCHANGED airflow
    BY <1>3 DEF Exit
  <2>2. chain' \in Programs \cup {"complete", "failed"} /\ restarts' \in 0 .. BACKOFF_LIMIT
    BY <1>0, <2>1 DEF ContainerExits
  <2> QED BY <1>1, <2>1, <2>2 DEF airflow, TriesInv
<1> QED BY <1>2, <1>3

LEMMA LaunchTypes ==
  ASSUME SchedulerTypes, NEW s \in Schedulers, NEW p \in Programs, Launch(s, p)
  PROVE  SchedulerTypes'
<1> USE DailyPipelineAssumption DEF SchedulerTypes
<1>1. /\ running' \in [Schedulers -> Programs \cup {"none", "counting_silver"}]
      /\ UNCHANGED kubernetes
  BY DEF Launch
<1>2. CASE s = "dag"
  <2>1. /\ p \in Tasks /\ task[p] \in {"none", "up_for_retry"}
        /\ task' = [task EXCEPT ![p] = "running"]
        /\ tries' = [tries EXCEPT ![p] = @ + 1]
    BY <1>2 DEF Launch, Runnable
  <2>2. RETRIES \in Nat /\ tries[p] \in 0 .. RETRIES
    BY <2>1 DEF TriesInv
  <2>3. task' \in [Tasks -> Ended \cup {"none", "running", "up_for_retry"}]
    BY <2>1
  <2>4. tries' \in [Tasks -> 0 .. RETRIES + 1]
    BY <2>1, <2>2
  <2>5. TriesInv'
    BY <2>1 DEF TriesInv
  <2> QED BY <1>1, <2>3, <2>4, <2>5 DEF kubernetes
<1>3. CASE s # "dag"
  BY <1>1, <1>3 DEF Launch, kubernetes, TriesInv
<1> QED BY <1>2, <1>3

LEMMA TypeInit == Init => TypeInv
<1> SUFFICES ASSUME Init PROVE TypeInv
  OBVIOUS
<1>1. Job!ContractInv
  BY LakehouseInit
<1>2. Silver!None \in Silver!Bag
  BY DailyPipelineAssumption DEF Silver!None, Silver!Bag
<1>3. SchedulerTypes
  BY TasksAre, DailyPipelineAssumption DEF Init, SchedulerTypes, TriesInv
<1>4. /\ counted \in [Schedulers -> Silver!Bag]
      /\ verdict \in [Schedulers -> {"none", "PASS", "FAIL"}]
      /\ suite \in {"none", "PASS", "FAIL", "ERROR"}
  BY <1>2 DEF Init
<1>5. alerted \in BOOLEAN
  BY Zenon DEF Init
<1> QED BY <1>1, <1>3, <1>4, <1>5, TypeParts

LEMMA BronzeRows == Job!ContractInv => Silver!DayRows(ds) \in Silver!Bag
BY DailyPipelineAssumption, SameType
   DEF Job!ContractInv, Job!LineageInv, Silver!TypeOK, Silver!Bag, Silver!DayRows

(* A table that cannot be read gives ERROR, any other PASS or FAIL, and    *)
(* PASS only if the day has the minimum of rows; FAIL alone is not 0.      *)
LEMMA StatusKnown ==
  ASSUME NEW readable, NEW rows, NEW now
  PROVE  LET results == RunDqSuite(readable, rows, now) IN
         /\ StatusOf(results) \in {"PASS", "FAIL", "ERROR"}
         /\ ExitCode(results) = 0 => \/ StatusOf(results) = "ERROR"
                                    \/ Size(rows) >= MIN_RECORDS
<1> DEFINE critical == Critical(rows, now)
           results  == RunDqSuite(readable, rows, now)
<1>1. CASE ~ readable
  <2>1. results = [status |-> "ERROR"]
    BY <1>1 DEF RunDqSuite
  <2> HIDE DEF results
  <2>2. StatusOf(results) = "ERROR"
    BY <2>1 DEF StatusOf
  <2> QED BY <2>2 DEF results
<1>2. CASE readable
  <2>1. /\ "minimum_record_count" \in DOMAIN critical
        /\ critical["minimum_record_count"] <=> Size(rows) >= MIN_RECORDS
    BY DEF Critical
  <2>2. /\ DOMAIN results = {"critical", "warning", "overall_status"}
        /\ results.overall_status = IF \A c \in DOMAIN critical : critical[c] THEN "PASS" ELSE "FAIL"
    BY <1>2 DEF RunDqSuite
  <2> HIDE DEF critical, results
  <2>3. StatusOf(results) \in {"PASS", "FAIL"}
    BY <2>2 DEF StatusOf
  <2>4. ExitCode(results) = 0 => Size(rows) >= MIN_RECORDS
    BY <2>1, <2>2 DEF ExitCode
  <2> QED BY <2>3, <2>4 DEF results
<1> QED BY <1>1, <1>2

LEMMA TypeNext == TypeInv /\ [Next]_vars => TypeInv'
<1> SUFFICES ASSUME TypeInv, [Next]_vars PROVE TypeInv'
  OBVIOUS
<1>0. /\ Job!ContractInv /\ Job!ContractInv' /\ SchedulerTypes
      /\ counted \in [Schedulers -> Silver!Bag]
      /\ verdict \in [Schedulers -> {"none", "PASS", "FAIL"}]
      /\ suite \in {"none", "PASS", "FAIL", "ERROR"}
      /\ alerted \in BOOLEAN
  BY LakehouseNext, TypeParts
<1> DEFINE Others == /\ counted \in [Schedulers -> Silver!Bag]
                     /\ verdict \in [Schedulers -> {"none", "PASS", "FAIL"}]
                     /\ suite \in {"none", "PASS", "FAIL", "ERROR"}
                     /\ alerted \in BOOLEAN
<1> SUFFICES Others' /\ SchedulerTypes'
  BY <1>0, TypeParts, PTL
<1>1. ASSUME UNCHANGED <<running, checks, airflow, kubernetes>> PROVE Others' /\ SchedulerTypes'
  BY <1>0, <1>1 DEF checks, airflow, kubernetes, SchedulerTypes, TriesInv
<1>2. ASSUME NEW s \in Schedulers, NEW p \in Programs, Launch(s, p)
      PROVE  Others' /\ SchedulerTypes'
  <2>1. UNCHANGED <<checks, alerted>>
    BY <1>2 DEF Launch
  <2> QED BY <1>0, <1>2, <2>1, LaunchTypes DEF checks
<1>3. ASSUME NEW s \in Schedulers, NEW p \in Programs, NEW ok \in BOOLEAN, Exit(s, p, ok)
      PROVE  SchedulerTypes' /\ alerted' \in BOOLEAN
  <2>1. alerted' = alerted
    BY <1>3 DEF Exit, airflow
  <2> QED BY <1>0, <1>3, <2>1, ExitTypes
<1>4. ASSUME NEW s \in Schedulers, SilverStep(s) PROVE Others' /\ SchedulerTypes'
  BY <1>1, <1>4 DEF SilverStep
<1>5. ASSUME NEW s \in Schedulers, SilverReturns(s) PROVE Others' /\ SchedulerTypes'
  BY <1>0, <1>3, <1>5, TasksAre DEF SilverReturns, checks
<1>6. ASSUME NEW s \in Schedulers, SilverToGold(s) PROVE Others' /\ SchedulerTypes'
  <2>1. created \in BOOLEAN
    BY <1>0 DEF Job!ContractInv, Job!LineageInv, Job!TypeOK
  <2>2. "silver_to_gold" \in Programs
    BY TasksAre
  <2>3. SchedulerTypes' /\ alerted' \in BOOLEAN
    BY <1>3, <1>6, <2>1, <2>2 DEF SilverToGold
  <2> QED BY <1>0, <1>6, <2>3 DEF SilverToGold, checks
<1>7. ASSUME NEW s \in Schedulers, CountBronze(s) PROVE Others' /\ SchedulerTypes'
  <2>1. counted' \in [Schedulers -> Silver!Bag]
    BY <1>0, <1>7, BronzeRows DEF CountBronze
  <2>2. running' \in [Schedulers -> Programs \cup {"none", "counting_silver"}]
    BY <1>0, <1>7 DEF CountBronze, SchedulerTypes
  <2> QED BY <1>0, <1>7, <2>1, <2>2
          DEF CountBronze, airflow, kubernetes, SchedulerTypes, TriesInv
<1>8. ASSUME NEW s \in Schedulers, CountSilver(s) PROVE Others' /\ SchedulerTypes'
  <2>1. "reconciliation" \in Programs
    BY TasksAre
  <2>2. verdict' \in [Schedulers -> {"none", "PASS", "FAIL"}]
    BY <1>0, <1>8 DEF CountSilver, Status
  <2>3. SchedulerTypes' /\ alerted' \in BOOLEAN
    BY <1>3, <1>8, <2>1 DEF CountSilver
  <2> QED BY <1>0, <1>8, <2>2, <2>3 DEF CountSilver
<1>9. ASSUME NEW s \in Schedulers, DqSuite(s) PROVE Others' /\ SchedulerTypes'
  <2>1. PICK readable \in {created, FALSE} :
          /\ Exit(s, "dq_suite", ExitCode(RunDqSuite(readable, SuiteRows, SuiteTime)) = 0)
          /\ suite' = StatusOf(RunDqSuite(readable, SuiteRows, SuiteTime))
    BY <1>9 DEF DqSuite
  <2>2. suite' \in {"none", "PASS", "FAIL", "ERROR"}
    BY <2>1, StatusKnown
  <2>3. SchedulerTypes' /\ alerted' \in BOOLEAN
    BY <1>3, <2>1, TasksAre
  <2> QED BY <1>0, <1>9, <2>2, <2>3 DEF DqSuite
<1>10. ASSUME NEW s \in Schedulers, Dies(s) PROVE Others' /\ SchedulerTypes'
  <2>1. (IF running[s] = "counting_silver" THEN "reconciliation" ELSE running[s]) \in Programs
    BY <1>0, <1>10, TasksAre DEF Dies, SchedulerTypes
  <2>2. SchedulerTypes' /\ alerted' \in BOOLEAN
    BY <1>3, <1>10, <2>1 DEF Dies
  <2> QED BY <1>0, <1>10, <2>2 DEF Dies, checks
<1>11. CASE DqGate
  <2>1. task[ "dq_gate"] \in {"none", "up_for_retry"} /\ "dq_gate" \in Tasks
    BY <1>11, TasksAre DEF DqGate, Runnable
  <2>2. RETRIES \in Nat /\ tries["dq_gate"] \in 0 .. RETRIES
    BY <1>0, <2>1, DailyPipelineAssumption DEF SchedulerTypes, TriesInv
  <2>3. /\ task' = [task EXCEPT !["dq_gate"] = "success", !["pipeline_success"] = "skipped"]
        /\ tries' = [tries EXCEPT !["dq_gate"] = @ + 1]
    BY <1>11 DEF DqGate, LogSaysPass
  <2>4. /\ task' \in [Tasks -> Ended \cup {"none", "running", "up_for_retry"}]
        /\ tries' \in [Tasks -> 0 .. RETRIES + 1]
    <3>1. task \in [Tasks -> Ended \cup {"none", "running", "up_for_retry"}]
      BY <1>0 DEF SchedulerTypes
    <3>2. tries \in [Tasks -> 0 .. RETRIES + 1] /\ tries["dq_gate"] + 1 \in 0 .. RETRIES + 1
      BY <1>0, <2>2 DEF SchedulerTypes
    <3>3. {"success", "skipped"} \subseteq Ended
      BY DEF Ended
    <3>4. task' \in [Tasks -> Ended \cup {"none", "running", "up_for_retry"}]
      BY <2>3, <3>1, <3>3
    <3>5. tries' \in [Tasks -> 0 .. RETRIES + 1]
      BY <2>1, <2>3, <3>2
    <3> QED BY <3>4, <3>5
  <2>5. TriesInv'
    BY <1>0, <2>1, <2>3 DEF SchedulerTypes, TriesInv
  <2> QED BY <1>0, <1>11, <2>4, <2>5 DEF DqGate, SchedulerTypes, checks, kubernetes
<1>12. ASSUME NEW t \in {"pipeline_success", "trigger_alert"}, ChosenTask(t)
       PROVE  Others' /\ SchedulerTypes'
  <2>1. task[t] \in {"none", "up_for_retry"} /\ t \in Tasks
    BY <1>12, TasksAre DEF ChosenTask, Runnable
  <2>2. RETRIES \in Nat /\ tries[t] \in 0 .. RETRIES
    BY <1>0, <2>1, DailyPipelineAssumption DEF SchedulerTypes, TriesInv
  <2>3. tries' = [tries EXCEPT ![t] = @ + 1]
    BY <1>12 DEF ChosenTask
  <2>4. \E state \in {"success", "failed", "up_for_retry"} :
          /\ task' = [task EXCEPT ![t] = state]
          /\ state = "up_for_retry" => tries'[t] <= RETRIES
    BY <1>12 DEF ChosenTask
  <2>5. /\ task' \in [Tasks -> Ended \cup {"none", "running", "up_for_retry"}]
        /\ tries' \in [Tasks -> 0 .. RETRIES + 1]
    BY <1>0, <2>1, <2>2, <2>3, <2>4 DEF SchedulerTypes, Ended
  <2>6. TriesInv'
    BY <1>0, <2>1, <2>3, <2>4 DEF SchedulerTypes, TriesInv
  <2>7. alerted' \in BOOLEAN
    BY <1>12 DEF ChosenTask
  <2> QED BY <1>0, <1>12, <2>5, <2>6, <2>7 DEF ChosenTask, SchedulerTypes, checks, kubernetes
<1>13. ASSUME NEW t \in Tasks, UpstreamFails(t) PROVE Others' /\ SchedulerTypes'
  BY <1>0, <1>13 DEF UpstreamFails, SchedulerTypes, TriesInv, Ended, checks, kubernetes
<1>14. ASSUME NEW batch \in SUBSET Events, Arrive(batch) PROVE Others' /\ SchedulerTypes'
  BY <1>1, <1>14 DEF Arrive
<1>15. CASE UNCHANGED vars
  BY <1>1, <1>15 DEF vars
<1> HIDE DEF Others
<1> QED BY <1>2, <1>4, <1>5, <1>6, <1>7, <1>8, <1>9, <1>10, <1>11, <1>12, <1>13, <1>14, <1>15
        DEF Next, Program, AirflowScheduler

(* Every variable of the night keeps its type: no task is tried more often *)
(* than its retries allow, no container restarted beyond its limit.        *)
THEOREM DailyTypeCorrect == Spec => []TypeOK
<1>1. TypeInv => TypeOK
  BY DEF TypeInv
<1> QED BY <1>1, TypeInit, TypeNext, PTL DEF Spec

-----------------------------------------------------------------------------
(* Who runs what.  A runner of the job is a scheduler that runs            *)
(* bronze_to_silver, for ds; what a scheduler runs is the task it has      *)
(* marked as running or the command its container has come to.             *)
Command(s) == IF running[s] = "counting_silver" THEN "reconciliation" ELSE running[s]

JobDue ==
  \A s \in Schedulers : pc[s] # "idle" => running[s] = "bronze_to_silver" /\ date[s] = ds

CommandDue ==
  \A s \in Schedulers :
    running[s] # "none" =>
      IF s = "dag" THEN Command(s) \in Tasks /\ task[Command(s)] = "running"
      ELSE chain = Command(s)

DueInv == TypeInv /\ JobDue /\ CommandDue

LEMMA DueTypes ==
  ASSUME TypeInv
  PROVE  /\ Schedulers \subseteq {"dag", "cron"}
         /\ pc \in [Schedulers -> {"idle", "started", "checked", "merging", "fallback", "written"}]
         /\ date \in [Schedulers -> Days]
         /\ source \in [Schedulers -> Silver!Bag]
         /\ created \in BOOLEAN
         /\ running \in [Schedulers -> Programs \cup {"none", "counting_silver"}]
         /\ task \in [Tasks -> Ended \cup {"none", "running", "up_for_retry"}]
         /\ counted \in [Schedulers -> Silver!Bag]
         /\ verdict \in [Schedulers -> {"none", "PASS", "FAIL"}]
BY DailyPipelineAssumption DEF TypeInv, TypeOK, Silver!TypeOK

(* What a step of the night may do to the lakehouse.                       *)
LEMMA LakehouseSteps ==
  ASSUME TypeInv, JobDue, [Next]_vars
  PROVE  /\ \/ silver' = silver
            \/ \E j \in Schedulers : pc[j] = "merging" /\ silver' = Silver!Merged(silver, source[j])
            \/ silver' = Silver!DayRows(ds)
         /\ \A j \in Schedulers :
              pc'[j] = "merging" => \/ pc[j] = "merging" /\ source'[j] = source[j]
                                    \/ source'[j] = Silver!DayRows(ds)
         /\ \A e \in Events : bronze[e] <= bronze'[e]
<1> USE DEF Silver!table, Silver!job, Silver!limits
<1>0. /\ pc \in [Schedulers -> {"idle", "started", "checked", "merging", "fallback", "written"}]
      /\ source \in [Schedulers -> Silver!Bag]
      /\ \A e \in Events : bronze[e] \in Nat
      /\ \A s \in Schedulers : pc[s] # "idle" => date[s] = ds
  BY DueTypes, DailyPipelineAssumption DEF TypeInv, TypeOK, Silver!TypeOK, Silver!Bag, JobDue
<1>1. [Silver!Next]_(Silver!vars)
  BY StepsAreTheJobs
<1>2. CASE UNCHANGED Silver!vars
  BY <1>0, <1>2 DEF Silver!vars
<1>3. ASSUME NEW batch \in SUBSET Events, Silver!Arrive(batch)
      PROVE  UNCHANGED <<silver, pc, source>> /\ \A e \in Events : bronze[e] <= bronze'[e]
  BY <1>0, <1>3 DEF Silver!Arrive, Silver!Feed!Commit
<1>4. ASSUME NEW j \in Schedulers, NEW d \in Days, Silver!Start(j, d)
      PROVE  /\ UNCHANGED <<silver, bronze>>
             /\ pc' = [pc EXCEPT ![j] = "started"]
             /\ source' = [source EXCEPT ![j] = Silver!None]
  BY <1>4 DEF Silver!Start
<1>5. ASSUME NEW j \in Schedulers, Silver!BeginMerge(j)
      PROVE  /\ UNCHANGED <<silver, bronze>>
             /\ pc' = [pc EXCEPT ![j] = "merging"]
             /\ source' = [source EXCEPT ![j] = Silver!DayRows(ds)]
  BY <1>0, <1>5 DEF Silver!BeginMerge
<1>6. ASSUME NEW j \in Schedulers, Silver!CommitMerge(j)
      PROVE  /\ pc[j] = "merging" /\ silver' = Silver!Merged(silver, source[j])
             /\ UNCHANGED <<bronze, source>>
             /\ pc' = [pc EXCEPT ![j] = "written"]
  BY <1>6 DEF Silver!CommitMerge
<1>7. ASSUME NEW j \in Schedulers, Silver!Overwrite(j)
      PROVE  /\ silver' = Silver!DayRows(ds) /\ bronze' = bronze
             /\ pc' = [pc EXCEPT ![j] = "written"]
             /\ source' = [source EXCEPT ![j] = Silver!DayRows(ds)]
  BY <1>0, <1>7 DEF Silver!Overwrite
<1>8. ASSUME NEW j \in Schedulers,
             \/ Silver!RunSilverDq(j) \/ Silver!NoTable(j) \/ Silver!MergeRaises(j)
             \/ Silver!Fault(j) \/ Silver!Finish(j) \/ Silver!Crash(j)
      PROVE  /\ UNCHANGED <<silver, bronze, source>>
             /\ \E state \in {"checked", "fallback", "idle"} : pc' = [pc EXCEPT ![j] = state]
  BY <1>8 DEF Silver!RunSilverDq, Silver!NoTable, Silver!MergeRaises, Silver!Fault, Silver!Finish,
              Silver!Crash
<1> DEFINE Effect == /\ \/ silver' = silver
                        \/ \E j \in Schedulers : /\ pc[j] = "merging"
                                                 /\ silver' = Silver!Merged(silver, source[j])
                        \/ silver' = Silver!DayRows(ds)
                     /\ \A j \in Schedulers :
                          pc'[j] = "merging" => \/ pc[j] = "merging" /\ source'[j] = source[j]
                                                \/ source'[j] = Silver!DayRows(ds)
                     /\ \A e \in Events : bronze[e] <= bronze'[e]
<1>9. ASSUME NEW batch \in SUBSET Events, Silver!Arrive(batch) PROVE Effect
  BY <1>3, <1>9
<1>10. ASSUME NEW j \in Schedulers, NEW d \in Days, Silver!Start(j, d) PROVE Effect
  BY <1>0, <1>4, <1>10
<1>11. ASSUME NEW j \in Schedulers, Silver!BeginMerge(j) PROVE Effect
  BY <1>0, <1>5, <1>11
<1>12. ASSUME NEW j \in Schedulers, Silver!CommitMerge(j) PROVE Effect
  BY <1>0, <1>6, <1>12
<1>13. ASSUME NEW j \in Schedulers, Silver!Overwrite(j) PROVE Effect
  BY <1>0, <1>7, <1>13
<1>14. ASSUME NEW j \in Schedulers,
              \/ Silver!RunSilverDq(j) \/ Silver!NoTable(j) \/ Silver!MergeRaises(j)
              \/ Silver!Fault(j) \/ Silver!Finish(j) \/ Silver!Crash(j)
       PROVE  Effect
  BY <1>0, <1>8, <1>14
<1> HIDE DEF Effect
<1>15. Silver!Next => Effect
  BY <1>9, <1>10, <1>11, <1>12, <1>13, <1>14 DEF Silver!Next, Silver!Step
<1>16. Effect
  BY <1>1, <1>2, <1>15 DEF Effect
<1> QED BY <1>16 DEF Effect

LEMMA JobDueNext ==
  ASSUME TypeInv, JobDue, [Next]_vars
  PROVE  JobDue'
<1> USE DEF Silver!table, Silver!job, Silver!limits
<1>0. /\ pc \in [Schedulers -> {"idle", "started", "checked", "merging", "fallback", "written"}]
      /\ date \in [Schedulers -> Days]
      /\ running \in [Schedulers -> Programs \cup {"none", "counting_silver"}]
  BY DueTypes
<1>1. ASSUME NEW s \in Schedulers, NEW p \in Programs, Launch(s, p) PROVE JobDue'
  <2>1. running[s] = "none" /\ running' = [running EXCEPT ![s] = p] /\ pc[s] = "idle"
    BY <1>1 DEF Launch, JobDue
  <2>2. CASE p = "bronze_to_silver"
    <3>1. pc' = [pc EXCEPT ![s] = "started"] /\ date' = [date EXCEPT ![s] = ds]
      BY <1>1, <2>2 DEF Launch, Silver!Start
    <3> QED BY <1>0, <2>1, <2>2, <3>1 DEF JobDue
  <2>3. CASE p # "bronze_to_silver"
    <3>1. pc' = pc /\ date' = date
      BY <1>1, <2>3 DEF Launch, lakehouse
    <3> QED BY <1>0, <2>1, <3>1 DEF JobDue
  <2> QED BY <2>2, <2>3
<1>2. ASSUME NEW s \in Schedulers, SilverStep(s) PROVE JobDue'
  <2>1. running' = running /\ date' = date
    BY <1>2 DEF SilverStep, Silver!RunSilverDq, Silver!BeginMerge, Silver!NoTable,
                Silver!CommitMerge, Silver!MergeRaises, Silver!Fault, Silver!Overwrite
  <2>2. pc[s] # "idle" /\ \E state : pc' = [pc EXCEPT ![s] = state]
    BY <1>2 DEF SilverStep, Silver!RunSilverDq, Silver!BeginMerge, Silver!NoTable,
                Silver!CommitMerge, Silver!MergeRaises, Silver!Fault, Silver!Overwrite
  <2> QED BY <1>0, <2>1, <2>2 DEF JobDue
<1>3. ASSUME NEW s \in Schedulers, Silver!Finish(s) \/ Silver!Crash(s),
             NEW p, NEW ok, Exit(s, p, ok)
      PROVE  JobDue'
  <2>1. pc' = [pc EXCEPT ![s] = "idle"] /\ date' = date
    BY <1>3 DEF Silver!Finish, Silver!Crash
  <2>2. running' = [running EXCEPT ![s] = "none"]
    BY <1>3 DEF Exit
  <2> QED BY <1>0, <2>1, <2>2 DEF JobDue
<1>4. ASSUME NEW s \in Schedulers, UNCHANGED lakehouse, running[s] # "bronze_to_silver",
             NEW state, running' = [running EXCEPT ![s] = state]
      PROVE  JobDue'
  BY <1>0, <1>4 DEF JobDue, lakehouse
<1>5. ASSUME NEW s \in Schedulers, SilverReturns(s) PROVE JobDue'
  BY <1>3, <1>5 DEF SilverReturns
<1>6. ASSUME NEW s \in Schedulers,
             SilverToGold(s) \/ CountBronze(s) \/ CountSilver(s) \/ DqSuite(s)
      PROVE  JobDue'
  <2>1. UNCHANGED lakehouse /\ running[s] # "bronze_to_silver"
    BY <1>6 DEF SilverToGold, CountBronze, CountSilver, DqSuite
  <2>2. \E state : running' = [running EXCEPT ![s] = state]
    BY <1>6 DEF SilverToGold, CountBronze, CountSilver, DqSuite, Exit
  <2> QED BY <1>4, <2>1, <2>2
<1>7. ASSUME NEW s \in Schedulers, Dies(s) PROVE JobDue'
  <2>1. CASE running[s] = "bronze_to_silver"
    BY <1>3, <1>7, <2>1 DEF Dies
  <2>2. CASE running[s] # "bronze_to_silver"
    <3>1. UNCHANGED lakehouse /\ running' = [running EXCEPT ![s] = "none"]
      BY <1>7, <2>2 DEF Dies, Exit
    <3> QED BY <1>4, <2>2, <3>1
  <2> QED BY <2>1, <2>2
<1>8. ASSUME UNCHANGED <<pc, date, running>> PROVE JobDue'
  BY <1>8 DEF JobDue
<1>9. ASSUME NEW batch \in SUBSET Events, Arrive(batch) PROVE JobDue'
  BY <1>8, <1>9 DEF Arrive, Silver!Arrive
<1>10. CASE AirflowScheduler \/ UNCHANGED vars
  BY <1>8, <1>10 DEF AirflowScheduler, DqGate, ChosenTask, UpstreamFails, lakehouse, vars
<1> QED BY <1>1, <1>2, <1>5, <1>6, <1>7, <1>9, <1>10 DEF Next, Program

(* How a scheduler's record of what it runs, and the container's command,  *)
(* go on.                                                                  *)
LEMMA ExitDue ==
  ASSUME DueInv, NEW s \in Schedulers, NEW ok, running[s] # "none", Exit(s, Command(s), ok)
  PROVE  CommandDue'
<1>0. /\ Schedulers \subseteq {"dag", "cron"}
      /\ running \in [Schedulers -> Programs \cup {"none", "counting_silver"}]
      /\ task \in [Tasks -> Ended \cup {"none", "running", "up_for_retry"}]
      /\ CommandDue
      /\ running' = [running EXCEPT ![s] = "none"]
  BY DueTypes DEF DueInv, Exit
<1>1. CASE s = "dag"
  <2>1. UNCHANGED chain
    BY <1>1 DEF Exit, kubernetes
  <2> QED BY <1>0, <1>1, <2>1 DEF CommandDue, Command
<1>2. CASE s # "dag"
  <2>1. task' = task
    BY <1>2 DEF Exit, airflow
  <2>2. \A r \in Schedulers : r # s => r = "dag"
    BY <1>0, <1>2
  <2> QED BY <1>0, <2>1, <2>2 DEF CommandDue, Command
<1> QED BY <1>1, <1>2

LEMMA DueNext == DueInv /\ [Next]_vars => DueInv'
<1> SUFFICES ASSUME DueInv, [Next]_vars PROVE DueInv'
  OBVIOUS
<1>0. TypeInv' /\ JobDue' /\ TypeInv /\ JobDue /\ CommandDue
  BY TypeNext, JobDueNext DEF DueInv
<1>1. /\ Schedulers \subseteq {"dag", "cron"}
      /\ running \in [Schedulers -> Programs \cup {"none", "counting_silver"}]
      /\ task \in [Tasks -> Ended \cup {"none", "running", "up_for_retry"}]
  BY <1>0, DueTypes
<1> SUFFICES CommandDue'
  BY <1>0 DEF DueInv
<1>2. ASSUME UNCHANGED <<running, airflow, kubernetes>> PROVE CommandDue'
  BY <1>0, <1>2 DEF CommandDue, Command, airflow, kubernetes
<1>3. ASSUME NEW s \in Schedulers, NEW p \in Programs, Launch(s, p)
      PROVE  CommandDue'
  <2>1. /\ running[s] = "none" /\ running' = [running EXCEPT ![s] = p] /\ chain' = chain
        /\ p # "counting_silver"
    BY <1>3, TasksAre DEF Launch, kubernetes
  <2>2. CASE s = "dag"
    <3>1. p \in Tasks /\ task' = [task EXCEPT ![p] = "running"]
      BY <1>3, <2>2 DEF Launch
    <3> QED BY <1>0, <1>1, <2>1, <2>2, <3>1 DEF CommandDue, Command
  <2>3. CASE s # "dag"
    <3>1. chain = p /\ task' = task
      BY <1>3, <2>3 DEF Launch
    <3> QED BY <1>0, <1>1, <2>1, <2>3, <3>1 DEF CommandDue, Command
  <2> QED BY <2>2, <2>3
<1>4. ASSUME NEW s \in Schedulers, SilverStep(s) PROVE CommandDue'
  BY <1>2, <1>4 DEF SilverStep
<1>5. ASSUME NEW s \in Schedulers, SilverReturns(s) PROVE CommandDue'
  <2>1. pc[s] # "idle" /\ Exit(s, "bronze_to_silver", TRUE)
    BY <1>5 DEF SilverReturns, Silver!Finish
  <2>2. running[s] = "bronze_to_silver" /\ Command(s) = "bronze_to_silver"
    BY <1>0, <2>1 DEF JobDue, Command
  <2> QED BY <1>0, <2>1, <2>2, ExitDue
<1>6. ASSUME NEW s \in Schedulers, SilverToGold(s) PROVE CommandDue'
  <2>1. /\ running[s] = "silver_to_gold" /\ Command(s) = "silver_to_gold"
        /\ Exit(s, "silver_to_gold", created)
    BY <1>6 DEF SilverToGold, Command
  <2> QED BY <1>0, <2>1, ExitDue
<1>7. ASSUME NEW s \in Schedulers, CountBronze(s) PROVE CommandDue'
  <2>1. /\ running[s] = "reconciliation"
        /\ running' = [running EXCEPT ![s] = "counting_silver"]
        /\ task' = task /\ chain' = chain
    BY <1>7 DEF CountBronze, airflow, kubernetes
  <2> QED BY <1>0, <1>1, <2>1 DEF CommandDue, Command
<1>8. ASSUME NEW s \in Schedulers, CountSilver(s) PROVE CommandDue'
  <2>1. /\ running[s] # "none" /\ Command(s) = "reconciliation"
        /\ Exit(s, "reconciliation", verdict'[s] = "PASS")
    BY <1>8 DEF CountSilver, Command
  <2> QED BY <1>0, <2>1, ExitDue
<1>9. ASSUME NEW s \in Schedulers, DqSuite(s) PROVE CommandDue'
  <2>1. running[s] # "none" /\ Command(s) = "dq_suite" /\ \E ok : Exit(s, "dq_suite", ok)
    BY <1>9 DEF DqSuite, Command
  <2> QED BY <1>0, <2>1, ExitDue
<1>10. ASSUME NEW s \in Schedulers, Dies(s) PROVE CommandDue'
  <2>1. running[s] # "none" /\ Exit(s, Command(s), FALSE)
    BY <1>10 DEF Dies, Command
  <2> QED BY <1>0, <2>1, ExitDue
<1>11. CASE DqGate
  <2>1. /\ running' = running /\ chain' = chain
        /\ task["dq_gate"] \in {"none", "up_for_retry"}
        /\ task' = [task EXCEPT !["dq_gate"] = "success", !["pipeline_success"] = "skipped"]
    BY <1>11 DEF DqGate, Runnable, LogSaysPass, kubernetes
  <2>2. \A s \in Schedulers : running[s] # "none" => Command(s) \in Programs
    BY <1>1, TasksAre DEF Command
  <2>3. \A q \in Programs : q # "dq_gate" /\ q # "pipeline_success"
    BY TasksAre
  <2> QED BY <1>0, <1>1, <2>1, <2>2, <2>3 DEF CommandDue, Command
<1>12. ASSUME NEW t \in {"pipeline_success", "trigger_alert"}, ChosenTask(t)
       PROVE  CommandDue'
  <2>1. /\ running' = running /\ chain' = chain
        /\ task[t] # "running"
        /\ \E state : task' = [task EXCEPT ![t] = state]
    BY <1>12 DEF ChosenTask, Runnable, kubernetes
  <2> QED BY <1>0, <1>1, <2>1 DEF CommandDue, Command
<1>13. ASSUME NEW t \in Tasks, UpstreamFails(t) PROVE CommandDue'
  <2>1. /\ running' = running /\ chain' = chain
        /\ task[t] # "running"
        /\ \E state : task' = [task EXCEPT ![t] = state]
    BY <1>13 DEF UpstreamFails, kubernetes
  <2> QED BY <1>0, <1>1, <2>1 DEF CommandDue, Command
<1>14. ASSUME NEW batch \in SUBSET Events, Arrive(batch) PROVE CommandDue'
  BY <1>2, <1>14 DEF Arrive
<1>15. CASE UNCHANGED vars
  BY <1>2, <1>15 DEF vars
<1> QED BY <1>3, <1>4, <1>5, <1>6, <1>7, <1>8, <1>9, <1>10, <1>11, <1>12, <1>13, <1>14, <1>15
        DEF Next, Program, AirflowScheduler

LEMMA DueInit == Init => DueInv
<1> SUFFICES ASSUME Init PROVE DueInv
  OBVIOUS
<1>1. \A s \in Schedulers : pc[s] = "idle" /\ running[s] = "none"
  BY DEF Init, Silver!Init
<1> QED BY <1>1, TypeInit DEF Init, DueInv, JobDue, CommandDue

-----------------------------------------------------------------------------
(* The day in Silver.                                                      *)

LEMMA RowsAreCounts ==
  ASSUME TypeInv
  PROVE  \A e \in Events : /\ bronze[e] \in Nat /\ silver[e] \in Nat
                           /\ silver[e] <= MaxCopies
                           /\ silver[e] <= bronze[e]
                           /\ \A s \in Schedulers : /\ source[s][e] \in Nat
                                                    /\ source[s][e] <= bronze[e]
                                                    /\ counted[s][e] \in Nat
<1>1. Silver!TypeOK /\ counted \in [Schedulers -> Silver!Bag] /\ MaxCopies \in Nat
  BY DailyPipelineAssumption DEF TypeInv, TypeOK
<1> QED BY <1>1 DEF Silver!TypeOK, Silver!Bag, TypeInv, Job!ContractInv, Job!LineageInv

(* An event of the day keeps its rows in Silver, whatever the schedulers   *)
(* do: the fallback of either is for the same day, and reads Bronze, which *)
(* has at least the rows that Silver has.                                  *)
LEMMA DayGrows ==
  ASSUME DueInv, [Next]_vars
  PROVE  \A e \in Events : DayOf[e] = ds => silver[e] <= silver'[e]
<1> SUFFICES ASSUME NEW e \in Events, DayOf[e] = ds PROVE silver[e] <= silver'[e]
  OBVIOUS
<1>1. TypeInv /\ JobDue
  BY DEF DueInv
<1>2. /\ bronze[e] \in Nat /\ silver[e] \in Nat /\ silver[e] <= bronze[e]
      /\ \A s \in Schedulers : source[s][e] \in Nat
  BY <1>1, RowsAreCounts
<1>3. \/ silver' = silver
      \/ \E j \in Schedulers : silver' = Silver!Merged(silver, source[j])
      \/ silver' = Silver!DayRows(ds)
  BY <1>1, LakehouseSteps
<1> QED BY <1>2, <1>3 DEF Silver!Merged, Silver!DayRows

(* An event of the day, once in Silver, is there for good, though either   *)
(* scheduler may fail, fall back and run again at any point.               *)
THEOREM DayStaysInSilver == Spec => DayIsKept
<1>1. DueInv /\ [Next]_vars =>
        [\A e \in Events : DayOf[e] = ds /\ silver[e] > 0 => silver'[e] > 0]_vars
  <2> SUFFICES ASSUME DueInv, [Next]_vars, NEW e \in Events, DayOf[e] = ds, silver[e] > 0
               PROVE  silver'[e] > 0
    OBVIOUS
  <2>1. silver[e] <= silver'[e]
    BY DayGrows
  <2>2. silver[e] \in Nat /\ silver'[e] \in Nat
    <3>1. TypeInv /\ TypeInv'
      BY DueNext DEF DueInv
    <3>2. silver \in Silver!Bag /\ (silver \in Silver!Bag)'
      BY <3>1 DEF TypeInv, TypeOK, Silver!TypeOK
    <3> QED BY <3>2, DailyPipelineAssumption DEF Silver!Bag
  <2> QED BY <2>1, <2>2
<1> QED BY <1>1, DueInit, DueNext, PTL DEF Spec, DayIsKept

-----------------------------------------------------------------------------
(* The day's rows, counted.                                                *)

RowsOf(rows) == {p \in Events \X (1 .. MaxCopies) : p[2] <= rows[p[1]]}

LEMMA TotalIsSize ==
  ASSUME NEW rows \in Silver!Bag
  PROVE  /\ Total(rows) = Cardinality(RowsOf(rows))
         /\ IsFiniteSet(RowsOf(rows))
         /\ Total(rows) \in Nat
<1>1. IsFiniteSet(Events) /\ MaxCopies \in Nat /\ rows \in [Events -> 0 .. MaxCopies]
  BY DailyPipelineAssumption DEF Silver!Bag
<1>2. Total(rows) = Cardinality(RowsOf(rows))
  <2>1. SumFunction(rows) = Cardinality({p \in Events \X (1 .. MaxCopies) : p[2] <= rows[p[1]]})
    BY <1>1, SumIsSize
  <2> QED BY <2>1, Zenon DEF Total, RowsOf
<1>3. IsFiniteSet(Cells(rows, Events, MaxCopies, Events))
      /\ Cardinality(Cells(rows, Events, MaxCopies, Events)) \in Nat
  BY <1>1, CellsFinite
<1>4. Cells(rows, Events, MaxCopies, Events) = RowsOf(rows)
  BY DEF Cells, RowsOf
<1> QED BY <1>2, <1>3, <1>4, Zenon

LEMMA TotalGrows ==
  ASSUME NEW few \in Silver!Bag, NEW many \in Silver!Bag, \A e \in Events : few[e] <= many[e]
  PROVE  Total(few) <= Total(many)
<1>1. RowsOf(few) \subseteq RowsOf(many)
  <2> SUFFICES ASSUME NEW e \in Events, NEW n \in 1 .. MaxCopies, n <= few[e]
               PROVE  n <= many[e]
    BY DEF RowsOf
  <2>1. few[e] \in Nat /\ many[e] \in Nat
    BY DailyPipelineAssumption DEF Silver!Bag
  <2> QED BY <2>1
<1>2. /\ Total(few) = Cardinality(RowsOf(few))
      /\ Total(many) = Cardinality(RowsOf(many)) /\ IsFiniteSet(RowsOf(many))
  BY TotalIsSize
<1> QED BY <1>1, <1>2, FS_Subset

(* What is missing of a bag is at least an event's row for each event.     *)
LEMMA TotalCountsMissing ==
  ASSUME NEW few \in Silver!Bag, NEW many \in Silver!Bag, \A e \in Events : few[e] <= many[e],
         NEW gone \in SUBSET Events, \A e \in gone : many[e] > 0 /\ few[e] = 0
  PROVE  Cardinality(gone) \in Nat /\ Total(few) + Cardinality(gone) <= Total(many)
<1> DEFINE F == RowsOf(few)
           G == gone \X {1}
<1>0. MaxCopies \in Nat /\ \A e \in Events : few[e] \in 0 .. MaxCopies /\ many[e] \in 0 .. MaxCopies
  BY DailyPipelineAssumption DEF Silver!Bag
<1>1. /\ Total(few) = Cardinality(F) /\ IsFiniteSet(F)
      /\ Total(many) = Cardinality(RowsOf(many)) /\ IsFiniteSet(RowsOf(many))
  BY TotalIsSize
<1>2. IsFiniteSet(gone)
  BY DailyPipelineAssumption, FS_Subset
<1>3. Cardinality(gone) \in Nat /\ Cardinality(F) \in Nat
  BY <1>1, <1>2, FS_CardinalityType
<1>4. IsFiniteSet(G) /\ Cardinality(G) = Cardinality(gone)
  <2>1. IsFiniteSet({1}) /\ Cardinality({1}) = 1
    BY FS_Singleton
  <2>2. IsFiniteSet(G) /\ Cardinality(G) = Cardinality(gone) * Cardinality({1})
    BY <1>2, <2>1, FS_Product
  <2> QED BY <1>3, <2>1, <2>2
<1>5. F \cap G = {}
  BY <1>0 DEF RowsOf
<1>6. F \cup G \subseteq RowsOf(many)
  BY <1>0 DEF RowsOf
<1> HIDE DEF F, G
<1>7. Cardinality(F \cap G) = 0
  BY <1>5, FS_EmptySet, Zenon
<1>8. Cardinality(F \cup G) = Cardinality(F) + Cardinality(G) - Cardinality(F \cap G)
  BY <1>1, <1>4, FS_Union
<1>9. Cardinality(F \cup G) <= Cardinality(RowsOf(many))
  BY <1>1, <1>6, FS_Subset
<1> QED BY <1>1, <1>3, <1>4, <1>7, <1>8, <1>9

LEMMA DayIsBag ==
  ASSUME TypeInv
  PROVE  SilverRows \in Silver!Bag /\ \A s \in Schedulers : counted[s] \in Silver!Bag
BY DailyPipelineAssumption DEF TypeInv, TypeOK, Silver!TypeOK, Silver!Bag, SilverRows

LEMMA DayTotalGrows ==
  ASSUME DueInv, [Next]_vars
  PROVE  Total(SilverRows) \in Nat /\ Total(SilverRows)' \in Nat
         /\ Total(SilverRows) <= Total(SilverRows)'
<1>1. TypeInv /\ TypeInv'
  BY DueNext DEF DueInv
<1>2. SilverRows \in Silver!Bag /\ SilverRows' \in Silver!Bag
  BY <1>1, DailyPipelineAssumption
     DEF TypeInv, TypeOK, Silver!TypeOK, Silver!Bag, SilverRows
<1>3. \A e \in Events : SilverRows[e] <= SilverRows'[e]
  BY DayGrows DEF SilverRows
<1>4. Total(SilverRows) \in Nat /\ Total(SilverRows') \in Nat
  BY <1>2, TotalIsSize
<1>5. Total(SilverRows) <= Total(SilverRows')
  BY <1>2, <1>3, TotalGrows
<1>6. Total(SilverRows)' = Total(SilverRows')
  BY DEF Total
<1> QED BY <1>4, <1>5, <1>6

-----------------------------------------------------------------------------
(* The container that has completed its chain.                             *)

RecordsInv == chain = "complete" /\ suite # "ERROR" => Total(SilverRows) >= MIN_RECORDS

(* The suite reads the rows that the reconciliation counts.                *)
LEMMA SuiteReadsDay ==
  ASSUME TypeInv
  PROVE  Size(SuiteRows) = Total(SilverRows)
<1>1. DOMAIN SuiteRows = RowsOf(SilverRows)
  BY DEF SuiteRows, RowsOf
<1>2. Total(SilverRows) = Cardinality(RowsOf(SilverRows))
  BY DayIsBag, TotalIsSize
<1> QED BY <1>1, <1>2, Zenon DEF Size

(* Where the chain can be complete after a step: it is from the suite, or  *)
(* it was before, and no suite has run (the container's is over, and the   *)
(* DAG has none).                                                          *)
LEMMA ChainCompletes ==
  ASSUME DueInv, [Next]_vars, chain' = "complete"
  PROVE  \/ chain = "complete" /\ suite' = suite
         \/ suite' = "ERROR"
         \/ Size(SuiteRows) >= MIN_RECORDS
<1>0. /\ \A s \in Schedulers : running[s] \in Programs \cup {"none", "counting_silver"}
      /\ CommandDue
  BY DueTypes DEF DueInv
<1>1. ASSUME NEW s \in Schedulers, NEW p \in Programs, NEW ok, Exit(s, p, ok),
             p # "dq_suite" \/ ~ ok
      PROVE  chain = "complete"
  BY <1>1, TasksAre DEF Exit, ContainerExits, kubernetes
<1>2. ASSUME NEW s \in Schedulers, DqSuite(s)
      PROVE  suite' = "ERROR" \/ Size(SuiteRows) >= MIN_RECORDS
  <2>1. PICK readable \in {created, FALSE} :
          /\ Exit(s, "dq_suite", ExitCode(RunDqSuite(readable, SuiteRows, SuiteTime)) = 0)
          /\ suite' = StatusOf(RunDqSuite(readable, SuiteRows, SuiteTime))
    BY <1>2 DEF DqSuite
  <2>2. s # "dag" /\ chain = "dq_suite"
    <3>1. running[s] = "dq_suite"
      BY <1>2 DEF DqSuite
    <3> QED BY <1>0, <3>1, TasksAre DEF CommandDue, Command
  <2>3. ExitCode(RunDqSuite(readable, SuiteRows, SuiteTime)) = 0
    BY <1>1, <2>1, <2>2, TasksAre
  <2> QED BY <2>1, <2>3, StatusKnown
<1>3. ASSUME UNCHANGED <<checks, kubernetes>> PROVE chain = "complete" /\ suite' = suite
  BY <1>3 DEF checks, kubernetes
<1>4. ASSUME NEW s \in Schedulers, NEW p \in Programs, Launch(s, p)
      PROVE  chain = "complete" /\ suite' = suite
  BY <1>3, <1>4 DEF Launch
<1>5. ASSUME NEW s \in Schedulers, SilverStep(s) PROVE chain = "complete" /\ suite' = suite
  BY <1>3, <1>5 DEF SilverStep
<1>6. ASSUME NEW s \in Schedulers, CountBronze(s) PROVE chain = "complete" /\ suite' = suite
  BY <1>6 DEF CountBronze, kubernetes
<1>7. ASSUME NEW s \in Schedulers, SilverReturns(s) \/ SilverToGold(s) \/ CountSilver(s)
      PROVE  chain = "complete" /\ suite' = suite
  BY <1>1, <1>7, TasksAre DEF SilverReturns, SilverToGold, CountSilver, checks
<1>8. ASSUME NEW s \in Schedulers, Dies(s) PROVE chain = "complete" /\ suite' = suite
  <2>1. Command(s) \in Programs /\ Exit(s, Command(s), FALSE) /\ suite' = suite
    BY <1>0, <1>8, TasksAre DEF Dies, Command, checks
  <2> QED BY <1>1, <2>1
<1>9. AirflowScheduler => chain = "complete" /\ suite' = suite
  BY <1>3 DEF AirflowScheduler, DqGate, ChosenTask, UpstreamFails
<1>10. ASSUME NEW batch \in SUBSET Events, Arrive(batch) PROVE chain = "complete" /\ suite' = suite
  BY <1>3, <1>10 DEF Arrive
<1>11. UNCHANGED vars => chain = "complete" /\ suite' = suite
  BY <1>3 DEF vars
<1> QED BY <1>2, <1>4, <1>5, <1>6, <1>7, <1>8, <1>9, <1>10, <1>11 DEF Next, Program

LEMMA RecordsNext == DueInv /\ RecordsInv /\ [Next]_vars => RecordsInv'
<1> SUFFICES ASSUME DueInv, RecordsInv, [Next]_vars, chain' = "complete", suite' # "ERROR"
             PROVE  Total(SilverRows)' >= MIN_RECORDS
  BY DEF RecordsInv
<1>1. /\ Total(SilverRows) \in Nat /\ Total(SilverRows)' \in Nat
      /\ Total(SilverRows) <= Total(SilverRows)'
      /\ MIN_RECORDS \in Nat
  BY DayTotalGrows, SilverDqSuiteAssumption
<1>2. Total(SilverRows) >= MIN_RECORDS
  BY ChainCompletes, SuiteReadsDay DEF RecordsInv, DueInv
<1> QED BY <1>1, <1>2

(* A container whose chain is complete leaves a day with the minimum of    *)
(* rows, for good, unless its suite has ended with ERROR: the DAG run has  *)
(* no suite that could write over the status, a chain is complete once     *)
(* only, and the rows of the day only grow.                                *)
THEOREM CheckedDay == Spec => []CheckedDayHasRecords
<1>1. Init => RecordsInv
  BY DEF Init, RecordsInv
<1>2. RecordsInv => CheckedDayHasRecords
  BY DEF RecordsInv, CheckedDayHasRecords
<1> QED BY <1>1, <1>2, DueInit, DueNext, RecordsNext, PTL DEF Spec

-----------------------------------------------------------------------------
(* The day that is vouched for.  What a scheduler has counted of Bronze is *)
(* of the day.  Silver never stands across the count: it holds every event *)
(* that was counted, or no more rows of any event than were counted (a     *)
(* merge that has read but not committed carries the same alternative).    *)
(* And a reconciliation that has succeeded misses few events.              *)
CountedInv ==
  \A s \in Schedulers : \A e \in Events :
    counted[s][e] <= bronze[e] /\ (DayOf[e] # ds => counted[s][e] = 0)

Covered(s) == \A e \in Events : counted[s][e] > 0 => silver[e] > 0
Behind(s)  == \A e \in Events : DayOf[e] = ds => silver[e] <= counted[s][e]

SourceCovers(s, j) == \A e \in Events : counted[s][e] > 0 => source[j][e] > 0
SourceBehind(s, j) == \A e \in Events : source[j][e] <= counted[s][e]

SidesInv ==
  \A s \in Schedulers :
    /\ Covered(s) \/ Behind(s)
    /\ \A j \in Schedulers : pc[j] = "merging" => SourceCovers(s, j) \/ SourceBehind(s, j)

(* Its reconciliation has succeeded.                                       *)
Judged(s) ==
  IF s = "dag" THEN task["reconciliation"] = "success" ELSE chain \in {"dq_suite", "complete"}

FewMissing(s) == Cardinality(Missing(s)) * 100 <= TOLERANCE_PCT * Total(counted[s])

JudgedInv == \A s \in Schedulers : Judged(s) => FewMissing(s)

VouchInv == DueInv /\ CountedInv /\ SidesInv /\ JudgedInv

(* Only CountBronze changes what a scheduler has counted, and not after    *)
(* its reconciliation has succeeded.                                       *)
LEMMA CountedSteps ==
  ASSUME DueInv, [Next]_vars, NEW s \in Schedulers
  PROVE  \/ counted'[s] = counted[s]
         \/ counted'[s] = Silver!DayRows(ds) /\ UNCHANGED lakehouse /\ ~ Judged(s)
<1>0. /\ counted \in [Schedulers -> Silver!Bag] /\ Schedulers \subseteq {"dag", "cron"}
      /\ CommandDue
  BY DueTypes DEF DueInv
<1>1. ASSUME NEW r \in Schedulers, CountBronze(r)
      PROVE  \/ counted'[s] = counted[s]
             \/ counted'[s] = Silver!DayRows(ds) /\ UNCHANGED lakehouse /\ ~ Judged(s)
  <2>1. /\ running[r] = "reconciliation" /\ UNCHANGED lakehouse
        /\ counted' = [counted EXCEPT ![r] = Silver!DayRows(ds)]
    BY <1>1 DEF CountBronze
  <2>2. CASE r # s
    BY <1>0, <2>1, <2>2
  <2>3. CASE r = s
    <3>1. ~ Judged(s)
      BY <1>0, <2>1, <2>3 DEF CommandDue, Command, Judged
    <3> QED BY <1>0, <2>1, <2>3, <3>1
  <2> QED BY <2>2, <2>3
<1>2. ASSUME NEW r \in Schedulers,
             \/ \E p \in Programs : Launch(r, p)
             \/ SilverStep(r) \/ SilverReturns(r) \/ SilverToGold(r) \/ CountSilver(r)
             \/ DqSuite(r) \/ Dies(r)
      PROVE  counted' = counted
  BY <1>2 DEF Launch, SilverStep, SilverReturns, SilverToGold, CountSilver, DqSuite, Dies, checks
<1>3. AirflowScheduler => counted' = counted
  BY DEF AirflowScheduler, DqGate, ChosenTask, UpstreamFails, checks
<1>4. ASSUME NEW batch \in SUBSET Events, Arrive(batch) PROVE counted' = counted
  BY <1>4 DEF Arrive, checks
<1>5. UNCHANGED vars => counted' = counted
  BY DEF vars, checks
<1> QED BY <1>1, <1>2, <1>3, <1>4, <1>5 DEF Next, Program

LEMMA CountedNext == DueInv /\ CountedInv /\ [Next]_vars => CountedInv'
<1> SUFFICES ASSUME DueInv, CountedInv, [Next]_vars, NEW s \in Schedulers, NEW e \in Events
             PROVE  counted'[s][e] <= bronze'[e] /\ (DayOf[e] # ds => counted'[s][e] = 0)
  BY DEF CountedInv
<1>1. /\ TypeInv /\ TypeInv' /\ JobDue
  BY DueNext DEF DueInv
<1>2. bronze[e] \in Nat /\ counted[s][e] \in Nat
  BY <1>1, RowsAreCounts
<1>3. bronze[e] <= bronze'[e]
  BY <1>1, LakehouseSteps
<1>4. bronze'[e] \in Nat
  <2>1. Silver!TypeOK'
    BY <1>1 DEF TypeInv, TypeOK
  <2> QED BY <2>1, DailyPipelineAssumption DEF Silver!TypeOK, Silver!Bag
<1>5. CASE counted'[s] = counted[s]
  BY <1>2, <1>3, <1>4, <1>5 DEF CountedInv
<1>6. CASE counted'[s] = Silver!DayRows(ds)
  BY <1>2, <1>3, <1>4, <1>6 DEF Silver!DayRows
<1> QED BY <1>5, <1>6, CountedSteps

LEMMA SidesNext == DueInv /\ CountedInv /\ SidesInv /\ [Next]_vars => SidesInv'
<1> SUFFICES ASSUME DueInv, CountedInv, SidesInv, [Next]_vars, NEW s \in Schedulers
             PROVE  /\ (Covered(s) \/ Behind(s))'
                    /\ \A j \in Schedulers :
                         pc'[j] = "merging" => (SourceCovers(s, j) \/ SourceBehind(s, j))'
  BY DEF SidesInv
<1>0. TypeInv /\ JobDue
  BY DEF DueInv
<1>1. \A e \in Events : /\ bronze[e] \in Nat /\ silver[e] \in Nat /\ silver[e] <= bronze[e]
                        /\ counted[s][e] \in Nat
                        /\ counted[s][e] <= bronze[e]
                        /\ DayOf[e] # ds => counted[s][e] = 0
                        /\ \A j \in Schedulers : /\ source[j][e] \in Nat
                                                 /\ source[j][e] <= bronze[e]
  BY <1>0, RowsAreCounts DEF CountedInv
<1>2. /\ \/ silver' = silver
         \/ \E j \in Schedulers : pc[j] = "merging" /\ silver' = Silver!Merged(silver, source[j])
         \/ silver' = Silver!DayRows(ds)
      /\ \A j \in Schedulers :
           pc'[j] = "merging" => \/ pc[j] = "merging" /\ source'[j] = source[j]
                                 \/ source'[j] = Silver!DayRows(ds)
  BY <1>0, LakehouseSteps
<1> DEFINE day == Silver!DayRows(ds)
<1>3. \A e \in Events : day[e] = IF DayOf[e] = ds THEN bronze[e] ELSE 0
  BY DEF Silver!DayRows
<1> HIDE DEF day
<1>4. \A e \in Events : /\ day[e] \in Nat /\ silver[e] \in Nat /\ counted[s][e] \in Nat
                        /\ counted[s][e] <= day[e]
                        /\ DayOf[e] = ds => silver[e] <= day[e]
                        /\ \A j \in Schedulers :
                             source[j][e] \in Nat /\ (DayOf[e] = ds => source[j][e] <= day[e])
  <2> SUFFICES ASSUME NEW e \in Events
               PROVE  /\ day[e] \in Nat /\ silver[e] \in Nat /\ counted[s][e] \in Nat
                      /\ counted[s][e] <= day[e]
                      /\ DayOf[e] = ds => silver[e] <= day[e]
                      /\ \A j \in Schedulers :
                           source[j][e] \in Nat /\ (DayOf[e] = ds => source[j][e] <= day[e])
    OBVIOUS
  <2>1. day[e] \in Nat /\ counted[s][e] <= day[e] /\ (DayOf[e] = ds => day[e] = bronze[e])
    BY <1>1, <1>3
  <2> QED BY <1>1, <2>1
<1>5. CASE counted'[s] = counted[s]
  <2>1. ASSUME silver' = day PROVE Covered(s)'
    BY <1>5, <1>4, <2>1 DEF Covered
  <2>2. ASSUME silver' = silver PROVE (Covered(s) \/ Behind(s))'
    BY <1>5, <2>2 DEF SidesInv, Covered, Behind
  <2>3. ASSUME NEW j \in Schedulers, pc[j] = "merging", silver' = Silver!Merged(silver, source[j])
        PROVE  (Covered(s) \/ Behind(s))'
    <3>1. ASSUME Covered(s) \/ SourceCovers(s, j) PROVE Covered(s)'
      BY <1>1, <1>5, <2>3, <3>1 DEF Covered, SourceCovers, Silver!Merged
    <3>2. ASSUME Behind(s), SourceBehind(s, j) PROVE Behind(s)'
      BY <1>1, <1>5, <2>3, <3>2 DEF Behind, SourceBehind, Silver!Merged
    <3> QED BY <2>3, <3>1, <3>2 DEF SidesInv
  <2>4. ASSUME NEW j \in Schedulers, pc'[j] = "merging"
        PROVE  (SourceCovers(s, j) \/ SourceBehind(s, j))'
    <3>1. ASSUME source'[j] = day PROVE SourceCovers(s, j)'
      BY <1>5, <1>4, <3>1 DEF SourceCovers
    <3>2. ASSUME pc[j] = "merging", source'[j] = source[j]
          PROVE  (SourceCovers(s, j) \/ SourceBehind(s, j))'
      BY <1>5, <3>2 DEF SidesInv, SourceCovers, SourceBehind
    <3> QED BY <1>2, <2>4, <3>1, <3>2 DEF day
  <2> QED BY <1>2, <2>1, <2>2, <2>3, <2>4 DEF day
<1>6. CASE counted'[s] = day /\ UNCHANGED lakehouse
  <2>1. UNCHANGED <<silver, pc, source>>
    BY <1>6 DEF lakehouse
  <2>2. Behind(s)'
    BY <1>6, <1>4, <2>1 DEF Behind
  <2>3. ASSUME NEW j \in Schedulers, pc'[j] = "merging" PROVE SourceBehind(s, j)'
    <3>1. pc[j] = "merging" /\ date[j] = ds
      BY <2>1, <2>3, <1>0 DEF JobDue
    <3>2. \A e \in Events : DayOf[e] # ds => source[j][e] = 0
      BY <1>0, <3>1 DEF TypeInv, Job!ContractInv
    <3>3. \A e \in Events : source[j][e] <= day[e]
      BY <1>3, <1>4, <3>2
    <3> QED BY <1>6, <2>1, <3>3 DEF SourceBehind
  <2> QED BY <2>2, <2>3
<1> QED BY <1>5, <1>6, CountedSteps DEF day

(* Where a reconciliation has succeeded after a step: it had before, or    *)
(* the reconciliation has just ended, with a PASS.                         *)
LEMMA ExitJudged ==
  ASSUME DueInv, NEW s \in Schedulers, NEW r \in Schedulers, running[r] # "none", NEW ok,
         Exit(r, Command(r), ok), Judged(s)'
  PROVE  Judged(s) \/ (r = s /\ Command(r) = "reconciliation" /\ ok)
<1>0. /\ Schedulers \subseteq {"dag", "cron"} /\ CommandDue
      /\ task \in [Tasks -> Ended \cup {"none", "running", "up_for_retry"}]
      /\ Command(r) \in Programs
  BY DueTypes, TasksAre DEF DueInv, Command
<1>1. CASE r = "dag"
  <2>1. task' = [task EXCEPT ![Command(r)] = After(Command(r), ok)] /\ chain' = chain
    BY <1>1 DEF Exit, kubernetes
  <2>2. CASE s = "dag" /\ Command(r) = "reconciliation"
    <3>1. After("reconciliation", ok) = "success"
      BY <1>0, <2>1, <2>2, TasksAre DEF Judged
    <3>2. ok
      BY <3>1 DEF After
    <3> QED BY <1>1, <2>2, <3>2
  <2>3. CASE s = "dag" /\ Command(r) # "reconciliation"
    <3>1. task'["reconciliation"] = task["reconciliation"]
      BY <1>0, <2>1, <2>3, TasksAre
    <3> QED BY <2>3, <3>1 DEF Judged
  <2>4. CASE s # "dag"
    BY <2>1, <2>4 DEF Judged
  <2> QED BY <2>2, <2>3, <2>4
<1>2. CASE r # "dag"
  <2>1. ContainerExits(Command(r), ok) /\ task' = task
    BY <1>2 DEF Exit, airflow
  <2>2. chain = Command(r)
    BY <1>0, <1>2 DEF CommandDue
  <2>3. CASE s = "dag"
    BY <2>1, <2>3 DEF Judged
  <2>4. CASE s # "dag"
    <3>1. r = s /\ chain' \in {"dq_suite", "complete"}
      BY <1>0, <1>2, <2>4 DEF Judged
    <3>2. ok /\ Command(r) \in {"reconciliation", "dq_suite"}
      BY <1>0, <2>1, <3>1, TasksAre DEF ContainerExits
    <3> QED BY <2>2, <2>4, <3>1, <3>2 DEF Judged
  <2> QED BY <2>3, <2>4
<1> QED BY <1>1, <1>2

LEMMA JudgedSteps ==
  ASSUME DueInv, [Next]_vars, NEW s \in Schedulers, Judged(s)'
  PROVE  \/ Judged(s)
         \/ /\ CountSilver(s)
            /\ \E rows \in {SilverRows, Silver!None} :
                 Status(Total(counted[s]), Total(rows)) = "PASS"
<1>0. /\ Schedulers \subseteq {"dag", "cron"}
      /\ running \in [Schedulers -> Programs \cup {"none", "counting_silver"}]
      /\ task \in [Tasks -> Ended \cup {"none", "running", "up_for_retry"}]
      /\ verdict \in [Schedulers -> {"none", "PASS", "FAIL"}]
      /\ JobDue
      /\ "reconciliation" \in Tasks
  BY DueTypes, TasksAre DEF DueInv
<1>1. ASSUME task' = task, chain' = chain PROVE Judged(s)
  BY <1>1 DEF Judged
<1>2. ASSUME NEW r \in Schedulers, NEW p \in Programs, Launch(r, p) PROVE Judged(s)
  <2>1. /\ chain' = chain
        /\ task' = task \/ (p \in Tasks /\ task' = [task EXCEPT ![p] = "running"])
    BY <1>2 DEF Launch, kubernetes
  <2>2. task'["reconciliation"] = "success" => task["reconciliation"] = "success"
    BY <1>0, <2>1
  <2> QED BY <2>1, <2>2 DEF Judged
<1>3. ASSUME NEW r \in Schedulers, SilverStep(r) \/ CountBronze(r) PROVE Judged(s)
  BY <1>1, <1>3 DEF SilverStep, CountBronze, airflow, kubernetes
<1>4. ASSUME NEW r \in Schedulers, SilverReturns(r) PROVE Judged(s)
  <2>1. pc[r] # "idle" /\ Exit(r, "bronze_to_silver", TRUE)
    BY <1>4 DEF SilverReturns, Silver!Finish
  <2>2. running[r] # "none" /\ Command(r) = "bronze_to_silver"
    BY <1>0, <2>1 DEF JobDue, Command
  <2> QED BY <2>1, <2>2, ExitJudged
<1>5. ASSUME NEW r \in Schedulers, SilverToGold(r) PROVE Judged(s)
  <2>1. running[r] # "none" /\ Command(r) = "silver_to_gold" /\ Exit(r, "silver_to_gold", created)
    BY <1>5 DEF SilverToGold, Command
  <2> QED BY <2>1, ExitJudged
<1>6. ASSUME NEW r \in Schedulers, CountSilver(r)
      PROVE  \/ Judged(s)
             \/ /\ CountSilver(s)
                /\ \E rows \in {SilverRows, Silver!None} :
                     Status(Total(counted[s]), Total(rows)) = "PASS"
  <2>1. PICK rows \in {SilverRows, Silver!None} :
          verdict' = [verdict EXCEPT ![r] = Status(Total(counted[r]), Total(rows))]
    BY <1>6 DEF CountSilver
  <2>2. verdict'[r] = Status(Total(counted[r]), Total(rows))
    BY <1>0, <2>1
  <2>3. /\ running[r] # "none" /\ Command(r) = "reconciliation"
        /\ Exit(r, "reconciliation", verdict'[r] = "PASS")
    BY <1>6 DEF CountSilver, Command
  <2>4. Judged(s) \/ (r = s /\ verdict'[r] = "PASS")
    BY <2>3, ExitJudged
  <2> QED BY <1>6, <2>2, <2>4
<1>7. ASSUME NEW r \in Schedulers, DqSuite(r) PROVE Judged(s)
  <2>1. running[r] # "none" /\ Command(r) = "dq_suite" /\ \E ok : Exit(r, "dq_suite", ok)
    BY <1>7 DEF DqSuite, Command
  <2> QED BY <2>1, ExitJudged
<1>8. ASSUME NEW r \in Schedulers, Dies(r) PROVE Judged(s)
  <2>1. running[r] # "none" /\ Exit(r, Command(r), FALSE)
    BY <1>8 DEF Dies, Command
  <2> QED BY <2>1, ExitJudged
<1>9. ASSUME AirflowScheduler PROVE Judged(s)
  <2>1. chain' = chain
    BY <1>9 DEF AirflowScheduler, DqGate, ChosenTask, UpstreamFails, kubernetes
  <2>2. task'["reconciliation"] = "success" => task["reconciliation"] = "success"
    BY <1>0, <1>9 DEF AirflowScheduler, DqGate, ChosenTask, UpstreamFails, LogSaysPass
  <2> QED BY <2>1, <2>2 DEF Judged
<1>10. ASSUME NEW batch \in SUBSET Events, Arrive(batch) PROVE Judged(s)
  BY <1>1, <1>10 DEF Arrive, airflow, kubernetes
<1>11. ASSUME UNCHANGED vars PROVE Judged(s)
  BY <1>1, <1>11 DEF vars, airflow, kubernetes
<1> QED BY <1>2, <1>3, <1>4, <1>5, <1>6, <1>7, <1>8, <1>9, <1>10, <1>11 DEF Next, Program

(* A number that a variance within the tolerance was found for bounds what *)
(* is missing, if the rows it counts are among those of Bronze.            *)
LEMMA PassBoundsMissing ==
  ASSUME TypeInv, NEW s \in Schedulers, NEW rows \in Silver!Bag,
         \A e \in Events : rows[e] <= counted[s][e],
         \A e \in Missing(s) : rows[e] = 0,
         Status(Total(counted[s]), Total(rows)) = "PASS"
  PROVE  FewMissing(s)
<1> DEFINE b == Total(counted[s])
           n == Total(rows)
           m == Cardinality(Missing(s))
<1>1. counted[s] \in Silver!Bag /\ TOLERANCE_PCT \in Nat
  BY DayIsBag, DailyPipelineAssumption
<1>2. b \in Nat /\ n \in Nat
  BY <1>1, TotalIsSize
<1>3. Missing(s) \in SUBSET Events /\ \A e \in Missing(s) : counted[s][e] > 0 /\ rows[e] = 0
  BY DEF Missing
<1>4. m \in Nat /\ n + m <= b
  BY <1>1, <1>3, TotalCountsMissing
<1>5. Distance(b, n) * 100 <= TOLERANCE_PCT * (IF b > 1 THEN b ELSE 1)
  BY DEF Status
<1> HIDE DEF b, n, m
<1>6. CASE b = 0
  <2>1. m = 0 /\ TOLERANCE_PCT * b = 0
    BY <1>1, <1>2, <1>4, <1>6
  <2> QED BY <2>1 DEF FewMissing, b, m
<1>7. CASE b > 0
  <2>1. (IF b > 1 THEN b ELSE 1) = b
    BY <1>2, <1>7
  <2>2. m <= Distance(b, n) /\ Distance(b, n) \in Nat
    BY <1>2, <1>4 DEF Distance
  <2>3. Distance(b, n) * 100 <= TOLERANCE_PCT * b /\ TOLERANCE_PCT * b \in Nat
    BY <1>1, <1>2, <1>5, <2>1
  <2>4. m * 100 <= TOLERANCE_PCT * b
    BY <1>4, <2>2, <2>3
  <2> QED BY <2>4 DEF FewMissing, b, m
<1> QED BY <1>2, <1>6, <1>7

(* Two equal numbers are not two equal sets of events; but with Silver on  *)
(* one side of the count, what is missing shows in the difference; and so  *)
(* it does in the difference to nothing, when Silver could not be counted. *)
LEMMA PassMeansFew ==
  ASSUME TypeInv, CountedInv, SidesInv, NEW s \in Schedulers,
         NEW rows \in {SilverRows, Silver!None},
         Status(Total(counted[s]), Total(rows)) = "PASS"
  PROVE  FewMissing(s)
<1>1. /\ counted[s] \in Silver!Bag /\ SilverRows \in Silver!Bag /\ Silver!None \in Silver!Bag
      /\ TOLERANCE_PCT \in Nat
  BY DayIsBag, DailyPipelineAssumption DEF Silver!None, Silver!Bag
<1>2. \A e \in Events : silver[e] \in Nat /\ counted[s][e] \in Nat
  BY RowsAreCounts
<1>3. CASE rows = SilverRows /\ Covered(s)
  <2>1. Missing(s) = {}
    BY <1>2, <1>3 DEF Covered, Missing
  <2>2. Cardinality(Missing(s)) = 0
    BY <2>1, FS_EmptySet, Zenon
  <2>3. TOLERANCE_PCT * Total(counted[s]) \in Nat
    <3>1. Total(counted[s]) \in Nat
      BY <1>1, TotalIsSize
    <3> QED BY <1>1, <3>1
  <2> QED BY <2>2, <2>3 DEF FewMissing
<1>4. CASE rows = SilverRows /\ Behind(s)
  <2>1. \A e \in Events : rows[e] <= counted[s][e]
    BY <1>2, <1>4 DEF Behind, SilverRows
  <2>2. \A e \in Missing(s) : rows[e] = 0
    BY <1>4 DEF Missing, SilverRows
  <2> QED BY <1>1, <2>1, <2>2, PassBoundsMissing
<1>5. CASE rows = Silver!None
  <2>1. \A e \in Events : rows[e] = 0 /\ rows[e] <= counted[s][e]
    BY <1>2, <1>5 DEF Silver!None
  <2>2. \A e \in Missing(s) : rows[e] = 0
    BY <2>1 DEF Missing
  <2> QED BY <1>1, <2>1, <2>2, PassBoundsMissing
<1> QED BY <1>3, <1>4, <1>5 DEF SidesInv

(* What is missing does not come to be more: the events counted are of the *)
(* day, and the day stays in Silver.                                       *)
LEMMA MissingShrinks ==
  ASSUME DueInv, CountedInv, [Next]_vars, NEW s \in Schedulers, counted'[s] = counted[s],
         FewMissing(s)
  PROVE  FewMissing(s)'
<1>1. TypeInv /\ TypeInv'
  BY DueNext DEF DueInv
<1>2. Missing(s)' \subseteq Missing(s)
  <2> SUFFICES ASSUME NEW e \in Events, counted[s][e] > 0, silver'[e] = 0 PROVE silver[e] = 0
    BY DEF Missing
  <2>1. DayOf[e] = ds
    BY DEF CountedInv
  <2>2. silver[e] <= silver'[e] /\ silver[e] \in Nat
    BY <1>1, <2>1, DayGrows, RowsAreCounts
  <2> QED BY <2>2
<1>3. IsFiniteSet(Missing(s))
  BY DailyPipelineAssumption, FS_Subset DEF Missing
<1>4. /\ IsFiniteSet(Missing(s)') /\ Cardinality(Missing(s)') <= Cardinality(Missing(s))
      /\ Cardinality(Missing(s)) \in Nat
  BY <1>2, <1>3, FS_Subset, FS_CardinalityType
<1>5. Cardinality(Missing(s)') \in Nat
  BY <1>4, FS_CardinalityType
<1>6. TOLERANCE_PCT * Total(counted[s]) \in Nat
  <2>1. counted[s] \in Silver!Bag /\ TOLERANCE_PCT \in Nat
    BY <1>1, DayIsBag, DailyPipelineAssumption
  <2>2. Total(counted[s]) \in Nat
    BY <2>1, TotalIsSize
  <2> QED BY <2>1, <2>2
<1>7. Cardinality(Missing(s)') * 100 <= TOLERANCE_PCT * Total(counted[s])
  BY <1>4, <1>5, <1>6 DEF FewMissing
<1> QED BY <1>7 DEF FewMissing

LEMMA VouchNext == VouchInv /\ [Next]_vars => VouchInv'
<1> SUFFICES ASSUME VouchInv, [Next]_vars PROVE VouchInv'
  OBVIOUS
<1>1. DueInv' /\ CountedInv' /\ SidesInv'
  BY DueNext, CountedNext, SidesNext DEF VouchInv
<1>2. ASSUME NEW s \in Schedulers, Judged(s)' PROVE FewMissing(s)'
  <2>1. CASE Judged(s)
    <3>1. counted'[s] = counted[s]
      BY <2>1, CountedSteps DEF VouchInv
    <3> QED BY <2>1, <3>1, MissingShrinks DEF VouchInv, JudgedInv
  <2>2. CASE /\ CountSilver(s)
             /\ \E rows \in {SilverRows, Silver!None} :
                  Status(Total(counted[s]), Total(rows)) = "PASS"
    <3>1. FewMissing(s)
      BY <2>2, PassMeansFew DEF VouchInv, DueInv
    <3>2. counted'[s] = counted[s]
      BY <2>2 DEF CountSilver
    <3> QED BY <3>1, <3>2, MissingShrinks DEF VouchInv
  <2> QED BY <1>2, <2>1, <2>2, JudgedSteps DEF VouchInv
<1> QED BY <1>1, <1>2 DEF VouchInv, JudgedInv

LEMMA VouchInit == Init => VouchInv
<1> SUFFICES ASSUME Init PROVE VouchInv
  OBVIOUS
<1>1. DueInv
  BY DueInit
<1>2. \A e \in Events : bronze[e] = 0 /\ silver[e] = 0 /\ \A s \in Schedulers : counted[s][e] = 0
  BY DEF Init, Silver!Init, Silver!None
<1>3. CountedInv
  BY <1>2 DEF CountedInv
<1>4. SidesInv
  <2>1. \A s \in Schedulers : Behind(s)
    BY <1>2 DEF Behind
  <2>2. \A j \in Schedulers : pc[j] # "merging"
    BY DEF Init, Silver!Init
  <2> QED BY <2>1, <2>2 DEF SidesInv
<1>5. JudgedInv
  <2>1. "reconciliation" \in Tasks
    BY TasksAre
  <2>2. task["reconciliation"] = "none" /\ chain = "bronze_to_silver"
    BY <2>1 DEF Init
  <2> QED BY <2>2 DEF JudgedInv, Judged
<1> QED BY <1>1, <1>3, <1>4, <1>5 DEF VouchInv

(* A day that a scheduler vouches for is in Silver: the events that its    *)
(* reconciliation counted in Bronze are there but for a share that the     *)
(* tolerance allows, now and for good, although the reconciliation has     *)
(* compared two sums, taken at two times, of tables that hold copies and   *)
(* that the other scheduler keeps writing.                                 *)
THEOREM VouchedDay == Spec => []VouchedDayComplete
<1>1. VouchInv => VouchedDayComplete
  BY DEF VouchInv, JudgedInv, Judged, FewMissing, VouchedDayComplete, Vouches
<1> QED BY <1>1, VouchInit, VouchNext, PTL DEF Spec

=============================================================================
