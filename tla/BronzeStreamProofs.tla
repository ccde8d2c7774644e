-------------------------- MODULE BronzeStreamProofs --------------------------
(***************************************************************************)
(* Theorems about the Bronze streaming job, for any number of partitions,  *)
(* payloads, replicas, crashes and records, and any MAX_OFFSETS.           *)
(***************************************************************************)
EXTENDS BronzeStream, ValidatorProofs, FiniteSetTheorems

-----------------------------------------------------------------------------
(* The types.                                                              *)

(* One append to the offset log keeps its type.                            *)
LEMMA LatestIsPosition ==
  ASSUME TypeOK, \A p \in Partitions : Len(topic[p]) <= MaxLen
  PROVE  Latest \in Positions
BY BronzeStreamAssumption DEF TypeOK, Latest, Positions

(* The type invariant, with the bound on the partitions that makes every   *)
(* position a member of Positions.                                         *)
Typed ==
  /\ TypeOK
  /\ \A p \in Partitions : Len(topic[p]) <= MaxLen

LEMMA TypedInit == Init => Typed
<1> SUFFICES ASSUME Init PROVE Typed
  OBVIOUS
<1> USE DEF Init
<1>1. topic \in [Partitions -> Seq(Messages)] /\ \A p \in Partitions : Len(topic[p]) <= MaxLen
  BY BronzeStreamAssumption
<1>2. offsets \in Seq(Positions)
  OBVIOUS
<1> QED BY <1>1, <1>2 DEF Typed, TypeOK

LEMMA TypedNext == Typed /\ [Next]_vars => Typed'
<1> SUFFICES ASSUME Typed, [Next]_vars PROVE Typed'
  OBVIOUS
<1> USE BronzeStreamAssumption
<1>0. Latest \in Positions
  BY LatestIsPosition DEF Typed
<1>1. ASSUME NEW m \in Messages, Publish(m) PROVE Typed'
  <2>1. PartitionOf[m] \in Partitions /\ Len(topic[PartitionOf[m]]) < MaxLen
    BY <1>1 DEF Publish
  <2>2. topic' = [topic EXCEPT ![PartitionOf[m]] = Append(@, m)]
    BY <1>1 DEF Publish
  <2>3. topic' \in [Partitions -> Seq(Messages)]
    BY <2>1, <2>2 DEF Typed, TypeOK
  <2>4. \A p \in Partitions : Len(topic'[p]) <= MaxLen
    BY <2>1, <2>2 DEF Typed, TypeOK
  <2> QED BY <1>1, <2>3, <2>4 DEF Typed, TypeOK, Publish, checkpoint, query, tables
<1>2. ASSUME NEW p \in Partitions, Expire(p) PROVE Typed'
  BY <1>2 DEF Typed, TypeOK, Expire, checkpoint, query, tables
<1>3. ASSUME NEW r \in Replicas, StartQuery(r) PROVE Typed'
  <2>1. offsets' \in Seq(Positions)
    BY <1>0, <1>3 DEF StartQuery, Typed, TypeOK
  <2> QED BY <1>3, <2>1 DEF Typed, TypeOK, StartQuery, kafka, tables
<1>4. ASSUME NEW r \in Replicas, PlanBatch(r) PROVE Typed'
  <2>1. offsets' \in Seq(Positions)
    BY <1>4 DEF PlanBatch, Typed, TypeOK
  <2> QED BY <1>4, <2>1 DEF Typed, TypeOK, PlanBatch, kafka, tables
<1>5. ASSUME NEW r \in Replicas, SkipEmptyBatch(r) PROVE Typed'
  BY <1>5 DEF Typed, TypeOK, SkipEmptyBatch, kafka, checkpoint, tables
<1>6. ASSUME NEW r \in Replicas, WriteBronze(r) PROVE Typed'
  <2>1. bronze' \subseteq Row
    <3>1. PICK originals \in SUBSET ValidRows(batch[r]) :
            bronze' = bronze \cup
              {[record       |-> rec,
                loaded_at    |-> writes + 1,
                is_duplicate |-> IF rec \in originals THEN "false" ELSE "true"]
                  : rec \in ValidRows(batch[r])}
      BY <1>6 DEF WriteBronze
    <3>2. ValidRows(batch[r]) \subseteq Records
      BY DEF ValidRows, BatchRows, Between
    <3> QED BY <3>1, <3>2 DEF Row, Typed, TypeOK
  <2> QED BY <1>6, <2>1 DEF Typed, TypeOK, WriteBronze, kafka, checkpoint
<1>7. ASSUME NEW r \in Replicas, WriteDlq(r) PROVE Typed'
  <2>1. dlq' \subseteq DeadLetter
    <3>1. \A rec \in InvalidRows(batch[r]) :
            /\ rec \in Records
            /\ ValidationFailure(Payload(rec))
                 \in {"missing_required_fields", "invalid_event_type"}
      BY DeadLetterExplained DEF InvalidRows, BatchRows, Between
    <3> QED BY <1>7, <3>1 DEF WriteDlq, DeadLetter, Typed, TypeOK
  <2> QED BY <1>7, <2>1 DEF Typed, TypeOK, WriteDlq, kafka, checkpoint
<1>8. ASSUME NEW r \in Replicas, CommitBatch(r) PROVE Typed'
  BY <1>8 DEF Typed, TypeOK, CommitBatch, kafka, tables
<1>9. ASSUME NEW r \in Replicas, PlanConflict(r) \/ CommitConflict(r) PROVE Typed'
  BY <1>9 DEF Typed, TypeOK, PlanConflict, CommitConflict, kafka, checkpoint, tables
<1>11. ASSUME NEW r \in Replicas, Terminate(r) PROVE Typed'
  BY <1>11 DEF Typed, TypeOK, Terminate, kafka, checkpoint, tables
<1>10. CASE UNCHANGED vars
  BY <1>10 DEF Typed, TypeOK, vars, query, kafka, checkpoint, tables
<1> QED
  BY <1>1, <1>2, <1>3, <1>4, <1>5, <1>6, <1>7, <1>8, <1>9, <1>10, <1>11
     DEF Next, Advance, IdleTrigger

(* Type correctness.                                                       *)
THEOREM TypeCorrect == Spec => []TypeOK
<1>1. Typed => TypeOK
  BY DEF Typed
<1> QED BY <1>1, TypedInit, TypedNext, PTL DEF Spec

-----------------------------------------------------------------------------
(* At least once.  The inductive invariant has a part for the checkpoint,  *)
(* one for the queries and one for what each query has written; the last   *)
(* one is what makes a commit safe whoever wrote the rows: a batch's       *)
(* records are fixed by the offset log, so rows a dead query left behind   *)
(* count for the query that commits.                                       *)

LogInv ==
  /\ IF offsets = <<>> THEN commits = 0
     ELSE Len(offsets) \in {commits + 1, commits + 2}
  /\ \A i, j \in 1 .. Len(offsets) :
       i <= j => \A p \in Partitions : offsets[i][p] <= offsets[j][p]
  /\ \A i \in 1 .. Len(offsets) :
       \A p \in Partitions : offsets[i][p] <= Len(topic[p])

Running == {"planned", "bronze_done", "dlq_done"}

QueryInv ==
  \A r \in Replicas :
    /\ batch[r] <= commits + 1
    /\ pc[r] = "idle" => batch[r] <= Len(offsets)
    /\ pc[r] \in Running => batch[r] < Len(offsets)

WrittenInv ==
  \A r \in Replicas :
    /\ pc[r] \in {"bronze_done", "dlq_done"} =>
         \A rec \in BatchRows(batch[r]) : GoesToBronze(Payload(rec)) => InBronze(rec)
    /\ pc[r] = "dlq_done" =>
         \A rec \in BatchRows(batch[r]) : GoesToDlq(Payload(rec)) => InDlq(rec)

IngestInv == Typed /\ LogInv /\ QueryInv /\ WrittenInv /\ CommittedLanded

LEMMA IngestInvInit == Init => IngestInv
<1> SUFFICES ASSUME Init PROVE IngestInv
  OBVIOUS
<1>1. LogInv /\ QueryInv /\ WrittenInv /\ CommittedLanded
  BY DEF Init, LogInv, QueryInv, WrittenInv, CommittedLanded, Running, Started
<1> QED BY <1>1, TypedInit DEF IngestInv

(* A payload never changes and a record never becomes readable again once  *)
(* it has been published and deleted.                                      *)
LEMMA RecordsStable ==
  ASSUME Typed, [Next]_vars, NEW rec \in Records, Published(rec)
  PROVE  /\ Published(rec)'
         /\ Payload(rec)' = Payload(rec)
         /\ Readable(rec)' => Readable(rec)
<1> DEFINE p == rec[1]
<1>1. p \in Partitions /\ rec[2] \in 1 .. MaxLen
  BY DEF Records
<1>2. CASE \E m \in Messages : Publish(m)
  <2>1. PICK m \in Messages : Publish(m)
    BY <1>2
  <2>2. PartitionOf[m] \in Partitions
    BY BronzeStreamAssumption
  <2>3. topic' = [topic EXCEPT ![PartitionOf[m]] = Append(@, m)] /\ expired' = expired
    BY <2>1 DEF Publish
  <2>4. topic'[p] = topic[p] \/ topic'[p] = Append(topic[p], m)
    BY <1>1, <2>2, <2>3 DEF Typed, TypeOK
  <2>5. topic[p] \in Seq(Messages) /\ rec[2] \in 1 .. Len(topic[p])
    BY <1>1, BronzeStreamAssumption DEF Typed, TypeOK, Published
  <2>6. Len(topic'[p]) >= Len(topic[p]) /\ topic'[p][rec[2]] = topic[p][rec[2]]
    BY <2>4, <2>5
  <2> QED BY <2>3, <2>5, <2>6 DEF Published, Payload, Readable
<1>3. CASE \E q \in Partitions : Expire(q)
  <2>1. PICK q \in Partitions : Expire(q)
    BY <1>3
  <2>2. topic' = topic /\ expired' = [expired EXCEPT ![q] = @ + 1]
    BY <2>1 DEF Expire
  <2>3. expired'[p] >= expired[p] /\ expired[p] \in Nat /\ expired'[p] \in Nat
    BY <1>1, <2>2 DEF Typed, TypeOK
  <2> QED BY <1>1, <2>2, <2>3, BronzeStreamAssumption DEF Published, Payload, Readable
<1>4. CASE UNCHANGED kafka
  BY <1>4 DEF kafka, Published, Payload, Readable
<1>5. (\E m \in Messages : Publish(m)) \/ (\E q \in Partitions : Expire(q)) \/ UNCHANGED kafka
  BY DEF Next, Advance, StartQuery, PlanBatch, SkipEmptyBatch, WriteBronze, WriteDlq,
         CommitBatch, IdleTrigger, PlanConflict, CommitConflict, Terminate, vars
<1> QED BY <1>2, <1>3, <1>4, <1>5

(* The offset log only grows.                                              *)
LEMMA LogGrows ==
  ASSUME Typed, [Next]_vars
  PROVE  /\ Len(offsets) <= Len(offsets')
         /\ \A i \in 1 .. Len(offsets) : offsets'[i] = offsets[i]
<1>1. ASSUME NEW r \in Replicas, PlanBatch(r)
      PROVE  \E to \in Positions : offsets' = Append(offsets, to)
  BY <1>1 DEF PlanBatch
<1>2. ASSUME NEW r \in Replicas, StartQuery(r)
      PROVE  offsets = <<>> \/ offsets' = offsets
  BY <1>2 DEF StartQuery
<1>3. \/ \E r \in Replicas : PlanBatch(r) \/ StartQuery(r)
      \/ offsets' = offsets
  BY DEF Next, Advance, Publish, Expire, SkipEmptyBatch, WriteBronze, WriteDlq, CommitBatch,
         IdleTrigger, PlanConflict, CommitConflict, Terminate, vars, query, checkpoint
<1>4. offsets \in Seq(Positions)
  BY DEF Typed, TypeOK
<1>5. CASE offsets' = offsets
  BY <1>4, <1>5
<1>6. CASE \E to \in Positions : offsets' = Append(offsets, to)
  BY <1>4, <1>6
<1>7. CASE offsets = <<>> /\ offsets' = <<Latest>>
  BY <1>7
<1> QED BY <1>1, <1>3, <1>5, <1>6, <1>7 DEF StartQuery

LEMMA LogInvNext ==
  ASSUME Typed, LogInv, QueryInv, [Next]_vars
  PROVE  LogInv'
<1> USE BronzeStreamAssumption
<1>0. offsets \in Seq(Positions) /\ commits \in Nat /\ topic \in [Partitions -> Seq(Messages)]
  BY DEF Typed, TypeOK
<1>1. \A p \in Partitions : Len(topic[p]) \in Nat /\ Len(topic'[p]) >= Len(topic[p])
  <2>1. ASSUME NEW m \in Messages, Publish(m), NEW p \in Partitions
        PROVE  Len(topic'[p]) >= Len(topic[p])
    <3>1. topic'[p] = topic[p] \/ topic'[p] = Append(topic[p], m)
      BY <1>0, <2>1 DEF Publish
    <3> QED BY <1>0, <3>1
  <2>2. (\E m \in Messages : Publish(m)) \/ topic' = topic
    BY DEF Next, Advance, Expire, StartQuery, PlanBatch, SkipEmptyBatch, WriteBronze,
           WriteDlq, CommitBatch, IdleTrigger, PlanConflict, CommitConflict, Terminate,
           vars, kafka
  <2> QED BY <1>0, <2>1, <2>2
<1>2. \A i \in 1 .. Len(offsets) : \A p \in Partitions : offsets[i][p] \in Nat
  BY <1>0 DEF Positions
<1>3. ASSUME NEW r \in Replicas, StartQuery(r) PROVE LogInv'
  <2>1. CASE offsets = <<>>
    <3>1. offsets' = <<Latest>> /\ commits' = commits /\ topic' = topic
      BY <1>3, <2>1 DEF StartQuery, kafka
    <3>2. commits = 0
      BY <2>1 DEF LogInv
    <3>3. \A p \in Partitions : Latest[p] = Len(topic[p])
      BY DEF Latest
    <3> QED BY <1>1, <3>1, <3>2, <3>3 DEF LogInv
  <2>2. CASE offsets # <<>>
    BY <1>3, <2>2 DEF StartQuery, kafka, LogInv
  <2> QED BY <2>1, <2>2
<1>4. ASSUME NEW r \in Replicas, PlanBatch(r) PROVE LogInv'
  <2>1. PICK to \in Positions : /\ RateLimited(offsets[batch[r]], to)
                                /\ offsets' = Append(offsets, to)
    BY <1>4 DEF PlanBatch
  <2>2. Len(offsets) = batch[r] /\ commits' = commits /\ topic' = topic
    BY <1>4 DEF PlanBatch, kafka
  <2>3. batch[r] \in Nat \ {0} /\ batch[r] <= commits + 1
    BY DEF Typed, TypeOK, QueryInv
  <2>4. Len(offsets) = commits + 1
    BY <1>0, <2>2, <2>3 DEF LogInv
  <2>5. \A p \in Partitions : offsets[Len(offsets)][p] <= to[p] /\ to[p] <= Len(topic[p])
    <3>1. \A p \in Partitions : Latest[p] = Len(topic[p]) /\ to[p] \in Nat
      BY DEF Latest, Positions
    <3>2. \A p \in Partitions : /\ offsets[Len(offsets)][p] <= Len(topic[p])
                                /\ offsets[Len(offsets)][p] \in Nat
      BY <1>0, <1>2, <2>4 DEF LogInv
    <3>3. RateLimited(offsets[Len(offsets)], to)
      BY <2>1, <2>2
    <3>4. CASE to = Latest
      BY <3>1, <3>2, <3>4
    <3>5. CASE to # Latest
      <4>1. \A p \in Partitions :
              IF Latest[p] = offsets[Len(offsets)][p]
              THEN to[p] = offsets[Len(offsets)][p]
              ELSE offsets[Len(offsets)][p] < to[p] /\ to[p] <= Latest[p]
        BY <3>3, <3>5 DEF RateLimited
      <4> QED BY <1>1, <3>1, <3>2, <4>1
    <3> QED BY <3>4, <3>5
  <2>6. \A i \in 1 .. Len(offsets) : \A p \in Partitions :
           offsets[i][p] <= offsets[Len(offsets)][p]
    BY <1>0, <2>4 DEF LogInv
  <2>7. /\ Len(offsets') = Len(offsets) + 1
        /\ \A i \in 1 .. Len(offsets) : offsets'[i] = offsets[i]
        /\ offsets'[Len(offsets) + 1] = to
    BY <1>0, <2>1
  <2>8. offsets' # <<>> /\ Len(offsets') = commits' + 2
    BY <1>0, <2>2, <2>4, <2>7
  <2>9. \A i \in 1 .. Len(offsets) : \A p \in Partitions : offsets[i][p] <= to[p]
    BY <1>0, <1>2, <2>4, <2>5, <2>6 DEF Positions
  <2>10. \A i, j \in 1 .. Len(offsets') :
           i <= j => \A p \in Partitions : offsets'[i][p] <= offsets'[j][p]
    <3> SUFFICES ASSUME NEW i \in 1 .. Len(offsets'), NEW j \in 1 .. Len(offsets'), i <= j,
                        NEW p \in Partitions
                 PROVE  offsets'[i][p] <= offsets'[j][p]
      OBVIOUS
    <3>1. CASE j \in 1 .. Len(offsets)
      BY <1>0, <2>7, <3>1 DEF LogInv
    <3>2. CASE j = Len(offsets) + 1 /\ i \in 1 .. Len(offsets)
      BY <2>7, <2>9, <3>2
    <3>3. CASE j = Len(offsets) + 1 /\ i = Len(offsets) + 1
      BY <2>7, <3>3 DEF Positions
    <3> QED BY <1>0, <2>7, <3>1, <3>2, <3>3
  <2>11. \A i \in 1 .. Len(offsets') : \A p \in Partitions : offsets'[i][p] <= Len(topic'[p])
    <3> SUFFICES ASSUME NEW i \in 1 .. Len(offsets'), NEW p \in Partitions
                 PROVE  offsets'[i][p] <= Len(topic'[p])
      OBVIOUS
    <3>1. CASE i \in 1 .. Len(offsets)
      BY <2>2, <2>7, <3>1 DEF LogInv
    <3>2. CASE i = Len(offsets) + 1
      BY <2>2, <2>5, <2>7, <3>2
    <3> QED BY <1>0, <2>7, <3>1, <3>2
  <2> QED BY <2>8, <2>10, <2>11 DEF LogInv
<1>5. ASSUME NEW r \in Replicas, CommitBatch(r) PROVE LogInv'
  <2>1. /\ commits' = batch[r] /\ commits = batch[r] - 1
        /\ offsets' = offsets /\ topic' = topic
        /\ pc[r] \in Running
    BY <1>5 DEF CommitBatch, kafka, Running
  <2>2. batch[r] < Len(offsets) /\ batch[r] \in Nat \ {0}
    BY <2>1 DEF QueryInv, Typed, TypeOK
  <2>3. offsets # <<>> /\ Len(offsets) \in {commits' + 1, commits' + 2}
    BY <1>0, <2>1, <2>2 DEF LogInv
  <2> QED BY <2>1, <2>3 DEF LogInv
<1>6. CASE UNCHANGED checkpoint
  <2>1. offsets' = offsets /\ commits' = commits
    BY <1>6 DEF checkpoint
  <2>2. \A i \in 1 .. Len(offsets) : \A p \in Partitions : offsets[i][p] <= Len(topic'[p])
    BY <1>0, <1>1, <1>2 DEF LogInv, Typed
  <2> QED BY <2>1, <2>2 DEF LogInv
<1>7. \/ \E r \in Replicas : StartQuery(r) \/ PlanBatch(r) \/ CommitBatch(r)
      \/ UNCHANGED checkpoint
  BY DEF Next, Advance, Publish, Expire, SkipEmptyBatch, WriteBronze, WriteDlq,
         IdleTrigger, PlanConflict, CommitConflict, Terminate, vars, query, checkpoint
<1> QED BY <1>3, <1>4, <1>5, <1>6, <1>7

LEMMA QueryInvNext ==
  ASSUME Typed, LogInv, QueryInv, [Next]_vars
  PROVE  QueryInv'
<1>0. /\ offsets \in Seq(Positions) /\ commits \in Nat
      /\ batch \in [Replicas -> Nat \ {0}]
      /\ pc \in [Replicas -> {"down", "idle", "planned", "bronze_done", "dlq_done"}]
  BY DEF Typed, TypeOK
<1>1. Len(offsets) <= Len(offsets')
  BY LogGrows
<1>2. Len(offsets) \in Nat /\ Len(offsets') \in Nat
  BY <1>0, TypedNext DEF Typed, TypeOK
<1>3. ASSUME NEW r \in Replicas, StartQuery(r) PROVE QueryInv'
  <2>1. /\ pc' = [pc EXCEPT ![r] = IF Len(offsets) = commits + 2 THEN "planned" ELSE "idle"]
        /\ batch' = [batch EXCEPT ![r] = commits + 1]
        /\ commits' = commits
        /\ offsets' = IF offsets = <<>> THEN <<Latest>> ELSE offsets
    BY <1>3 DEF StartQuery
  <2>2. Len(offsets') >= commits + 1 /\ (Len(offsets) = commits + 2 => Len(offsets') = commits + 2)
    BY <1>0, <2>1 DEF LogInv
  <2> QED BY <1>0, <1>1, <1>2, <2>1, <2>2 DEF QueryInv, Running
<1>4. ASSUME NEW r \in Replicas, PlanBatch(r) PROVE QueryInv'
  <2>1. /\ pc' = [pc EXCEPT ![r] = "planned"]
        /\ batch' = batch /\ commits' = commits /\ Len(offsets) = batch[r]
        /\ \E to \in Positions : offsets' = Append(offsets, to)
    BY <1>4 DEF PlanBatch
  <2>2. Len(offsets') = Len(offsets) + 1
    BY <1>0, <2>1
  <2> QED BY <1>0, <1>2, <2>1, <2>2 DEF QueryInv, Running
<1>5. ASSUME NEW r \in Replicas, CommitBatch(r) PROVE QueryInv'
  <2>1. /\ pc' = [pc EXCEPT ![r] = "idle"] /\ pc[r] = "dlq_done"
        /\ batch' = [batch EXCEPT ![r] = @ + 1]
        /\ commits' = batch[r] /\ commits = batch[r] - 1 /\ offsets' = offsets
    BY <1>5 DEF CommitBatch
  <2> QED BY <1>0, <1>2, <2>1 DEF QueryInv, Running
<1>6. ASSUME NEW r \in Replicas,
             \/ SkipEmptyBatch(r) \/ WriteBronze(r) \/ WriteDlq(r)
             \/ PlanConflict(r) \/ CommitConflict(r) \/ Terminate(r)
      PROVE  QueryInv'
  <2>1. /\ batch' = batch /\ commits' = commits /\ offsets' = offsets
    BY <1>6 DEF SkipEmptyBatch, WriteBronze, WriteDlq, PlanConflict, CommitConflict,
                Terminate, checkpoint
  <2>2. \/ pc' = [pc EXCEPT ![r] = "down"]
        \/ pc[r] \in Running /\ pc' = [pc EXCEPT ![r] = "bronze_done"]
        \/ pc[r] \in Running /\ pc' = [pc EXCEPT ![r] = "dlq_done"]
    BY <1>6 DEF SkipEmptyBatch, WriteBronze, WriteDlq, PlanConflict, CommitConflict,
                Terminate, Running
  <2> QED BY <1>0, <2>1, <2>2 DEF QueryInv, Running
<1>7. CASE UNCHANGED <<checkpoint, pc, batch>>
  BY <1>7 DEF QueryInv, checkpoint
<1>8. \/ \E r \in Replicas :
           \/ StartQuery(r) \/ PlanBatch(r) \/ CommitBatch(r)
           \/ SkipEmptyBatch(r) \/ WriteBronze(r) \/ WriteDlq(r)
           \/ PlanConflict(r) \/ CommitConflict(r) \/ Terminate(r)
      \/ UNCHANGED <<checkpoint, pc, batch>>
  BY DEF Next, Advance, Publish, Expire, IdleTrigger, vars, query
<1> QED BY <1>3, <1>4, <1>5, <1>6, <1>7, <1>8

(* Records of a logged batch are published, and they stay the same rows:   *)
(* a step may only lose some of them to retention.                         *)
LEMMA BatchRowsShrink ==
  ASSUME Typed, LogInv, [Next]_vars, NEW b \in Nat \ {0}, b < Len(offsets)
  PROVE  /\ BatchRows(b)' \subseteq BatchRows(b)
         /\ \A rec \in BatchRows(b)' : Payload(rec)' = Payload(rec)
<1>0. offsets \in Seq(Positions) /\ b \in 1 .. Len(offsets) /\ b + 1 \in 1 .. Len(offsets)
  BY DEF Typed, TypeOK
<1>1. offsets'[b] = offsets[b] /\ offsets'[b + 1] = offsets[b + 1]
  BY <1>0, LogGrows
<1> SUFFICES ASSUME NEW rec \in BatchRows(b)'
             PROVE  rec \in BatchRows(b) /\ Payload(rec)' = Payload(rec)
  OBVIOUS
<1>2. rec \in Between(offsets[b], offsets[b + 1]) /\ Readable(rec)'
  BY <1>1 DEF BatchRows, Between
<1>3. rec \in Records /\ Published(rec)
  <2>1. rec \in Records /\ rec[2] <= offsets[b + 1][rec[1]]
    BY <1>2 DEF Between
  <2>2. rec[1] \in Partitions /\ rec[2] \in Nat
    BY <2>1, BronzeStreamAssumption DEF Records
  <2>3. offsets[b + 1][rec[1]] <= Len(topic[rec[1]])
    BY <1>0, <2>2 DEF LogInv
  <2>4. offsets[b + 1][rec[1]] \in Nat /\ Len(topic[rec[1]]) \in Nat
    BY <1>0, <2>2, BronzeStreamAssumption DEF Typed, TypeOK, Positions
  <2> QED BY <2>1, <2>2, <2>3, <2>4 DEF Published
<1>4. Payload(rec)' = Payload(rec) /\ Readable(rec)
  BY <1>2, <1>3, RecordsStable
<1> QED BY <1>2, <1>4 DEF BatchRows

(* No step takes a row out of a table.                                     *)
LEMMA TablesGrow ==
  ASSUME [Next]_vars
  PROVE  bronze \subseteq bronze' /\ dlq \subseteq dlq'
<1>1. ASSUME NEW r \in Replicas, WriteBronze(r) PROVE bronze \subseteq bronze' /\ dlq' = dlq
  BY <1>1 DEF WriteBronze
<1>2. ASSUME NEW r \in Replicas, WriteDlq(r) PROVE dlq \subseteq dlq' /\ bronze' = bronze
  BY <1>2 DEF WriteDlq
<1>3. (\E r \in Replicas : WriteBronze(r) \/ WriteDlq(r)) \/ (bronze' = bronze /\ dlq' = dlq)
  BY DEF Next, Advance, Publish, Expire, StartQuery, PlanBatch, SkipEmptyBatch, CommitBatch,
         IdleTrigger, PlanConflict, CommitConflict, Terminate, vars, tables
<1> QED BY <1>1, <1>2, <1>3

LEMMA LandedStable ==
  ASSUME [Next]_vars, NEW rec
  PROVE  (InBronze(rec) => InBronze(rec)') /\ (InDlq(rec) => InDlq(rec)')
BY TablesGrow DEF InBronze, InDlq

(* What a query that stays where it is has written stays written.          *)
LEMMA WrittenKept ==
  ASSUME Typed, LogInv, QueryInv, WrittenInv, [Next]_vars,
         NEW s \in Replicas, batch'[s] = batch[s], pc'[s] = pc[s]
  PROVE  /\ pc'[s] \in {"bronze_done", "dlq_done"} =>
              \A rec \in BatchRows(batch[s])' : GoesToBronze(Payload(rec)') => InBronze(rec)'
         /\ pc'[s] = "dlq_done" =>
              \A rec \in BatchRows(batch[s])' : GoesToDlq(Payload(rec)') => InDlq(rec)'
<1>1. ASSUME pc[s] \in {"bronze_done", "dlq_done"}
      PROVE  /\ (BatchRows(batch[s]))' \subseteq BatchRows(batch[s])
             /\ \A rec \in (BatchRows(batch[s]))' : Payload(rec)' = Payload(rec)
  <2> DEFINE b == batch[s]
  <2>1. b \in Nat \ {0} /\ b < Len(offsets)
    BY <1>1 DEF Typed, TypeOK, QueryInv, Running
  <2>2. (BatchRows(batch[s]))' = {rec \in Between(offsets'[b], offsets'[b + 1]) : Readable(rec)'}
    BY DEF BatchRows, Between
  <2>3. /\ {rec \in Between(offsets'[b], offsets'[b + 1]) : Readable(rec)'} \subseteq BatchRows(b)
        /\ \A rec \in {x \in Between(offsets'[b], offsets'[b + 1]) : Readable(x)'} :
             Payload(rec)' = Payload(rec)
    <3> HIDE DEF b
    <3> QED BY <2>1, BatchRowsShrink DEF BatchRows, Between
  <2> QED BY <2>2, <2>3
<1> QED BY <1>1, LandedStable DEF WrittenInv

LEMMA WrittenInvNext ==
  ASSUME Typed, LogInv, QueryInv, WrittenInv, [Next]_vars
  PROVE  WrittenInv'
<1>0. /\ pc \in [Replicas -> {"down", "idle", "planned", "bronze_done", "dlq_done"}]
      /\ batch \in [Replicas -> Nat \ {0}]
  BY DEF Typed, TypeOK
<1> DEFINE Wrote(s) ==
      /\ pc[s] \in {"bronze_done", "dlq_done"} =>
           \A rec \in BatchRows(batch[s]) : GoesToBronze(Payload(rec)) => InBronze(rec)
      /\ pc[s] = "dlq_done" =>
           \A rec \in BatchRows(batch[s]) : GoesToDlq(Payload(rec)) => InDlq(rec)
<1>1. ASSUME NEW s \in Replicas, batch'[s] = batch[s], pc'[s] = pc[s]
      PROVE  Wrote(s)'
  BY <1>1, WrittenKept
<1>2. ASSUME NEW s \in Replicas, pc'[s] \notin {"bronze_done", "dlq_done"}
      PROVE  Wrote(s)'
  BY <1>2
<1>3. ASSUME NEW r \in Replicas, SkipEmptyBatch(r) PROVE Wrote(r)'
  <2>1. (BatchRows(batch[r]))' = {}
    BY <1>3 DEF SkipEmptyBatch, BatchRows, Between, Readable, Published, kafka, checkpoint
  <2> QED BY <2>1
<1>4. ASSUME NEW r \in Replicas, WriteBronze(r) PROVE Wrote(r)'
  <2>1. /\ pc'[r] = "bronze_done"
        /\ (BatchRows(batch[r]))' = BatchRows(batch[r])
        /\ \A rec : Payload(rec)' = Payload(rec)
    BY <1>0, <1>4 DEF WriteBronze, BatchRows, Between, Readable, Published, Payload,
                      kafka, checkpoint
  <2>2. ASSUME NEW rec \in BatchRows(batch[r]), GoesToBronze(Payload(rec))
        PROVE  InBronze(rec)'
    <3>1. rec \in ValidRows(batch[r])
      BY <2>2 DEF ValidRows
    <3>2. PICK originals \in SUBSET ValidRows(batch[r]) :
            bronze' = bronze \cup
              {[record       |-> x,
                loaded_at    |-> writes + 1,
                is_duplicate |-> IF x \in originals THEN "false" ELSE "true"]
                  : x \in ValidRows(batch[r])}
      BY <1>4 DEF WriteBronze
    <3> DEFINE row == [record       |-> rec,
                       loaded_at    |-> writes + 1,
                       is_duplicate |-> IF rec \in originals THEN "false" ELSE "true"]
    <3>3. row \in bronze'
      BY <3>1, <3>2
    <3>4. row.record = rec
      OBVIOUS
    <3> QED BY <3>3, <3>4 DEF InBronze
  <2> QED BY <2>1, <2>2
<1>5. ASSUME NEW r \in Replicas, WriteDlq(r) PROVE Wrote(r)'
  <2>1. /\ pc[r] = "bronze_done"
        /\ (BatchRows(batch[r]))' = BatchRows(batch[r])
        /\ \A rec : Payload(rec)' = Payload(rec)
        /\ bronze' = bronze
    BY <1>5 DEF WriteDlq, BatchRows, Between, Readable, Published, Payload, kafka, checkpoint
  <2>2. ASSUME NEW rec \in BatchRows(batch[r]), GoesToDlq(Payload(rec))
        PROVE  InDlq(rec)'
    <3>1. rec \in InvalidRows(batch[r])
      BY <2>2 DEF InvalidRows
    <3> DEFINE row == [record             |-> rec,
                       loaded_at          |-> stamp[r],
                       validation_failure |-> ValidationFailure(Payload(rec))]
    <3>2. row \in dlq'
      BY <1>5, <3>1 DEF WriteDlq
    <3>3. row.record = rec
      OBVIOUS
    <3> QED BY <3>2, <3>3 DEF InDlq
  <2>3. \A rec \in BatchRows(batch[r]) : GoesToBronze(Payload(rec)) => InBronze(rec)'
    BY <2>1, LandedStable DEF WrittenInv
  <2> QED BY <2>1, <2>2, <2>3
<1>6. ASSUME NEW r \in Replicas, NEW s \in Replicas,
             \/ SkipEmptyBatch(r) \/ WriteBronze(r) \/ WriteDlq(r)
      PROVE  Wrote(s)'
  <2>1. s # r => batch'[s] = batch[s] /\ pc'[s] = pc[s]
    BY <1>0, <1>6 DEF SkipEmptyBatch, WriteBronze, WriteDlq
  <2> QED BY <1>1, <1>3, <1>4, <1>5, <1>6, <2>1
<1>7. ASSUME NEW r \in Replicas, NEW s \in Replicas,
             \/ StartQuery(r) \/ PlanBatch(r) \/ CommitBatch(r)
             \/ PlanConflict(r) \/ CommitConflict(r) \/ Terminate(r)
      PROVE  Wrote(s)'
  <2>1. s # r => batch'[s] = batch[s] /\ pc'[s] = pc[s]
    BY <1>0, <1>7 DEF StartQuery, PlanBatch, CommitBatch, PlanConflict, CommitConflict,
                      Terminate
  <2>2. pc'[r] \notin {"bronze_done", "dlq_done"}
    BY <1>0, <1>7 DEF StartQuery, PlanBatch, CommitBatch, PlanConflict, CommitConflict,
                      Terminate
  <2> QED BY <1>1, <1>2, <2>1, <2>2
<1>8. ASSUME UNCHANGED <<pc, batch>>, NEW s \in Replicas PROVE Wrote(s)'
  BY <1>1, <1>8
<1>9. \/ \E r \in Replicas :
           \/ StartQuery(r) \/ PlanBatch(r) \/ CommitBatch(r)
           \/ SkipEmptyBatch(r) \/ WriteBronze(r) \/ WriteDlq(r)
           \/ PlanConflict(r) \/ CommitConflict(r) \/ Terminate(r)
      \/ UNCHANGED <<pc, batch>>
  BY DEF Next, Advance, Publish, Expire, IdleTrigger, vars, query
<1>10. \A s \in Replicas : Wrote(s)'
  <2> HIDE DEF Wrote
  <2> QED BY <1>6, <1>7, <1>8, <1>9
<1> QED BY <1>10 DEF WrittenInv

(* A record that is readable behind the committed position after a step    *)
(* was readable before it, and either it was behind the committed position *)
(* already or the step commits the batch it belongs to.                    *)
LEMMA CommittedStep ==
  ASSUME Typed, LogInv, QueryInv, [Next]_vars, Started',
         NEW rec \in (Between(offsets[1], Committed))', Readable(rec)'
  PROVE  /\ rec \in Records /\ Published(rec) /\ Readable(rec)
         /\ Payload(rec)' = Payload(rec)
         /\ \/ Started /\ rec \in Between(offsets[1], Committed)
            \/ \E r \in Replicas : CommitBatch(r) /\ rec \in BatchRows(batch[r])
<1>0. /\ offsets \in Seq(Positions) /\ commits \in Nat
      /\ batch \in [Replicas -> Nat \ {0}]
  BY DEF Typed, TypeOK
<1>1. /\ rec \in Records /\ rec[1] \in Partitions /\ rec[2] \in Nat
      /\ offsets'[1][rec[1]] < rec[2] /\ rec[2] <= offsets'[commits' + 1][rec[1]]
  BY BronzeStreamAssumption DEF Between, Records, Committed
<1>2. CASE offsets = <<>>
  <2>1. ASSUME NEW r \in Replicas, PlanBatch(r) \/ CommitBatch(r) PROVE FALSE
    <3>1. (pc[r] = "idle" /\ batch[r] <= Len(offsets)) \/ pc[r] \in Running
      BY <2>1 DEF PlanBatch, CommitBatch, Running, QueryInv
    <3> QED BY <1>0, <1>2, <3>1 DEF QueryInv
  <2>2. offsets' = <<Latest>> /\ commits' = commits
    BY <1>2, <2>1 DEF Next, Advance, Publish, Expire, StartQuery, SkipEmptyBatch,
         WriteBronze, WriteDlq, IdleTrigger, PlanConflict, CommitConflict, Terminate,
         vars, query, checkpoint, Started
  <2>3. commits = 0
    BY <1>2 DEF LogInv
  <2>4. Latest[rec[1]] \in Nat
    BY <1>1 DEF Latest, Typed, TypeOK
  <2> QED BY <1>1, <2>2, <2>3, <2>4
<1>3. CASE offsets # <<>>
  <2>0. /\ 1 \in 1 .. Len(offsets) /\ commits + 1 \in 1 .. Len(offsets)
        /\ offsets'[1] = offsets[1] /\ offsets'[commits + 1] = offsets[commits + 1]
    BY <1>0, <1>3, LogGrows DEF LogInv
  <2>1. CASE commits' = commits
    <3>1. rec \in Between(offsets[1], Committed)
      BY <1>1, <2>0, <2>1 DEF Between, Committed
    <3>2. rec[2] <= Len(topic[rec[1]])
      <4>1. rec[2] <= offsets[commits + 1][rec[1]]
        BY <1>1, <2>0, <2>1
      <4>2. offsets[commits + 1][rec[1]] <= Len(topic[rec[1]])
        BY <1>1, <2>0 DEF LogInv
      <4>3. offsets[commits + 1][rec[1]] \in Nat /\ Len(topic[rec[1]]) \in Nat
        BY <1>0, <1>1, <2>0, BronzeStreamAssumption DEF Typed, TypeOK, Positions
      <4> QED BY <1>1, <4>1, <4>2, <4>3
    <3>3. Published(rec)
      BY <3>2 DEF Published
    <3> QED BY <1>1, <1>3, <3>1, <3>3, RecordsStable DEF Started
  <2>2. ASSUME NEW r \in Replicas, CommitBatch(r)
        PROVE  /\ Published(rec) /\ Readable(rec) /\ Payload(rec)' = Payload(rec)
               /\ \/ rec \in Between(offsets[1], Committed)
                  \/ rec \in BatchRows(batch[r])
    <3> DEFINE b == batch[r]
    <3>1. /\ b \in Nat \ {0} /\ b = commits + 1 /\ commits' = b /\ b < Len(offsets)
          /\ offsets' = offsets /\ topic' = topic /\ expired' = expired
      BY <1>0, <2>2 DEF CommitBatch, QueryInv, Running, kafka
    <3>2. Readable(rec) /\ Published(rec) /\ Payload(rec)' = Payload(rec)
      BY <3>1 DEF Readable, Published, Payload
    <3> HIDE DEF b
    <3>3. rec \in Records /\ offsets[b][rec[1]] \in Nat /\ rec[2] <= offsets[b + 1][rec[1]]
      BY <1>0, <1>1, <3>1 DEF Positions
    <3>4. rec[2] <= offsets[b][rec[1]] => rec \in Between(offsets[1], Committed)
      BY <1>1, <2>0, <3>1 DEF Between, Committed
    <3>5. offsets[b][rec[1]] < rec[2] => rec \in BatchRows(b)
      BY <3>2, <3>3 DEF BatchRows, Between
    <3>6. rec \in Between(offsets[1], Committed) \/ rec \in BatchRows(b)
      BY <1>1, <3>3, <3>4, <3>5
    <3> QED BY <3>2, <3>6 DEF b
  <2>3. commits' = commits \/ \E r \in Replicas : CommitBatch(r)
    BY DEF Next, Advance, Publish, Expire, StartQuery, PlanBatch, SkipEmptyBatch, WriteBronze,
           WriteDlq, IdleTrigger, PlanConflict, CommitConflict, Terminate, vars, query, checkpoint
  <2> QED BY <1>1, <1>3, <2>1, <2>2, <2>3 DEF Started
<1> QED BY <1>2, <1>3

LEMMA CommittedLandedNext ==
  ASSUME IngestInv, [Next]_vars
  PROVE  CommittedLanded'
<1> USE DEF IngestInv
<1> SUFFICES ASSUME Started', NEW rec \in (Between(offsets[1], Committed))', Readable(rec)'
             PROVE  IF GoesToBronze(Payload(rec)') THEN InBronze(rec)' ELSE InDlq(rec)'
  BY DEF CommittedLanded
<1>1. /\ Readable(rec) /\ Payload(rec)' = Payload(rec)
      /\ \/ Started /\ rec \in Between(offsets[1], Committed)
         \/ \E r \in Replicas : CommitBatch(r) /\ rec \in BatchRows(batch[r])
  BY CommittedStep
<1>2. IF GoesToBronze(Payload(rec)) THEN InBronze(rec) ELSE InDlq(rec)
  <2>1. ASSUME NEW r \in Replicas, CommitBatch(r), rec \in BatchRows(batch[r])
        PROVE  IF GoesToBronze(Payload(rec)) THEN InBronze(rec) ELSE InDlq(rec)
    <3>1. pc[r] = "dlq_done"
      BY <2>1 DEF CommitBatch
    <3>2. GoesToBronze(Payload(rec)) \/ GoesToDlq(Payload(rec))
      BY SplitIsTotal
    <3> QED BY <2>1, <3>1, <3>2 DEF WrittenInv
  <2> QED BY <1>1, <2>1 DEF CommittedLanded
<1> QED BY <1>1, <1>2, LandedStable

LEMMA IngestInvNext == IngestInv /\ [Next]_vars => IngestInv'
BY TypedNext, LogInvNext, QueryInvNext, WrittenInvNext, CommittedLandedNext DEF IngestInv

LEMMA IngestInvAlways == Spec => []IngestInv
BY IngestInvInit, IngestInvNext, PTL DEF Spec

(* At least once, for any number of crashes and of replicas on one         *)
(* checkpoint: see CommittedLanded.                                        *)
THEOREM AtLeastOnce == Spec => []CommittedLanded
<1>1. IngestInv => CommittedLanded
  BY DEF IngestInv
<1> QED BY <1>1, IngestInvAlways, PTL

-----------------------------------------------------------------------------
(* Visibility.  The tags must not hide an event, so the queries carry      *)
(* along that each valid record of a batch they have written shares its    *)
(* event with a row that counts as the original.  The rows of the tables   *)
(* are records of the log, whose payloads never change.                    *)

HasOriginal(rec) == \E row \in bronze : IsOriginal(row) /\ SameEvent(row.record, rec)

RowsPublished ==
  \A row \in bronze : row.record \in Records /\ Published(row.record)

TaggedInv ==
  \A r \in Replicas :
    pc[r] \in {"bronze_done", "dlq_done"} =>
      \A rec \in BatchRows(batch[r]) : GoesToBronze(Payload(rec)) => HasOriginal(rec)

VisibleInv == IngestInv /\ RowsPublished /\ TaggedInv /\ CommittedVisible

(* What one append writes.                                                 *)
Appended(originals, rows) ==
  {[record       |-> rec,
    loaded_at    |-> writes + 1,
    is_duplicate |-> IF rec \in originals THEN "false" ELSE "true"] : rec \in rows}

(* An append stores each of its rows, and nothing else.                    *)
LEMMA AppendedRecords ==
  ASSUME NEW originals, NEW rows
  PROVE  {row.record : row \in Appended(originals, rows)} = rows
<1>1. ASSUME NEW rec \in rows PROVE \E row \in Appended(originals, rows) : row.record = rec
  <2> DEFINE row == [record       |-> rec,
                     loaded_at    |-> writes + 1,
                     is_duplicate |-> IF rec \in originals THEN "false" ELSE "true"]
  <2>1. row \in Appended(originals, rows)
    BY DEF Appended
  <2>2. row.record = rec
    OBVIOUS
  <2> QED BY <2>1, <2>2
<1>2. ASSUME NEW row \in Appended(originals, rows) PROVE row.record \in rows
  BY DEF Appended
<1> QED BY <1>1, <1>2

(* The rows that one run of the batch function adds to the dead letters.   *)
Letters(rows, at) ==
  {[record |-> rec, loaded_at |-> at, validation_failure |-> ValidationFailure(Payload(rec))]
     : rec \in rows}

LEMMA LetterRecords ==
  ASSUME NEW rows, NEW at
  PROVE  {row.record : row \in Letters(rows, at)} = rows
<1>1. ASSUME NEW rec \in rows PROVE \E row \in Letters(rows, at) : row.record = rec
  <2> DEFINE row == [record |-> rec, loaded_at |-> at,
                     validation_failure |-> ValidationFailure(Payload(rec))]
  <2>1. row \in Letters(rows, at)
    BY DEF Letters
  <2>2. row.record = rec
    OBVIOUS
  <2> QED BY <2>1, <2>2
<1>2. ASSUME NEW row \in Letters(rows, at) PROVE row.record \in rows
  BY DEF Letters
<1> QED BY <1>1, <1>2

LEMMA VisibleInvInit == Init => VisibleInv
<1> SUFFICES ASSUME Init PROVE VisibleInv
  OBVIOUS
<1>1. RowsPublished /\ TaggedInv /\ CommittedVisible
  BY DEF Init, RowsPublished, TaggedInv, CommittedVisible, Started
<1> QED BY <1>1, IngestInvInit DEF VisibleInv

(* The append to Bronze, in one piece.                                     *)
LEMMA AppendStep ==
  ASSUME NEW r \in Replicas, WriteBronze(r)
  PROVE  \E originals \in SUBSET ValidRows(batch[r]) :
           /\ PicksOriginals(originals, ValidRows(batch[r]))
           /\ bronze' = bronze \cup Appended(originals, ValidRows(batch[r]))
           /\ \A rec \in ValidRows(batch[r]) :
                rec \in Records /\ Published(rec) /\ rec \in BatchRows(batch[r])
           /\ topic' = topic /\ expired' = expired /\ offsets' = offsets
           /\ commits' = commits /\ batch' = batch
BY DEF WriteBronze, Appended, kafka, checkpoint, ValidRows, BatchRows, Between, Readable

(* Bronze changes in appends only.                                         *)
LEMMA BronzeChanges ==
  ASSUME [Next]_vars
  PROVE  bronze' = bronze \/ \E r \in Replicas : WriteBronze(r)
BY DEF Next, Advance, Publish, Expire, StartQuery, PlanBatch, SkipEmptyBatch, WriteDlq,
       CommitBatch, IdleTrigger, PlanConflict, CommitConflict, Terminate, vars, tables

LEMMA RowsPublishedNext ==
  ASSUME Typed, RowsPublished, [Next]_vars
  PROVE  RowsPublished'
<1> SUFFICES ASSUME NEW row \in bronze'
             PROVE  row.record \in Records /\ Published(row.record)'
  BY DEF RowsPublished
<1>1. CASE row \in bronze
  BY <1>1, RecordsStable DEF RowsPublished
<1>2. ASSUME NEW r \in Replicas, WriteBronze(r), row \notin bronze
      PROVE  row.record \in Records /\ Published(row.record)'
  <2>1. PICK originals \in SUBSET ValidRows(batch[r]) :
          /\ bronze' = bronze \cup Appended(originals, ValidRows(batch[r]))
          /\ \A rec \in ValidRows(batch[r]) : rec \in Records /\ Published(rec)
          /\ topic' = topic
    BY <1>2, AppendStep
  <2>2. row.record \in ValidRows(batch[r])
    BY <1>2, <2>1 DEF Appended
  <2> QED BY <2>1, <2>2 DEF Published
<1> QED BY <1>1, <1>2, BronzeChanges

(* A row that counts as the original of an event stays one.                *)
LEMMA OriginalsStable ==
  ASSUME Typed, RowsPublished, [Next]_vars,
         NEW rec \in Records, Published(rec), HasOriginal(rec)
  PROVE  HasOriginal(rec)'
<1>1. PICK row \in bronze : IsOriginal(row) /\ SameEvent(row.record, rec)
  BY DEF HasOriginal
<1>2. row \in bronze'
  BY TablesGrow
<1>3. Payload(rec)' = Payload(rec) /\ Payload(row.record)' = Payload(row.record)
  BY RecordsStable DEF RowsPublished
<1> QED BY <1>1, <1>2, <1>3 DEF HasOriginal, SameEvent

LEMMA TaggedInvNext ==
  ASSUME IngestInv, RowsPublished, TaggedInv, [Next]_vars
  PROVE  TaggedInv'
<1> USE DEF IngestInv
<1>0. /\ pc \in [Replicas -> {"down", "idle", "planned", "bronze_done", "dlq_done"}]
      /\ batch \in [Replicas -> Nat \ {0}]
      /\ offsets \in Seq(Positions)
  BY DEF Typed, TypeOK
<1> DEFINE Tagged(s) ==
      pc[s] \in {"bronze_done", "dlq_done"} =>
        \A rec \in BatchRows(batch[s]) : GoesToBronze(Payload(rec)) => HasOriginal(rec)
(* A query that had written its batch before the step.                     *)
<1>1. ASSUME NEW s \in Replicas, batch'[s] = batch[s],
             pc[s] \in {"bronze_done", "dlq_done"}
      PROVE  Tagged(s)'
  <2>1. batch[s] \in Nat \ {0} /\ batch[s] < Len(offsets)
    BY <1>0, <1>1 DEF QueryInv, Running
  <2>2. ASSUME NEW b \in Nat \ {0}, b < Len(offsets), NEW rec \in BatchRows(b)',
               \A x \in BatchRows(b) : GoesToBronze(Payload(x)) => HasOriginal(x),
               GoesToBronze(Payload(rec)')
        PROVE  HasOriginal(rec)'
    <3>1. rec \in BatchRows(b) /\ Payload(rec)' = Payload(rec)
      BY <2>2, BatchRowsShrink
    <3>2. rec \in Records /\ Published(rec)
      BY <3>1 DEF BatchRows, Between, Readable
    <3>3. HasOriginal(rec)
      BY <2>2, <3>1
    <3> QED BY <3>2, <3>3, OriginalsStable
  <2>3. \A x \in BatchRows(batch[s]) : GoesToBronze(Payload(x)) => HasOriginal(x)
    BY <1>1 DEF TaggedInv
  <2>4. ASSUME NEW b, b = batch[s], NEW rec \in BatchRows(b)', GoesToBronze(Payload(rec)')
        PROVE  HasOriginal(rec)'
    BY <2>1, <2>2, <2>3, <2>4
  <2>5. \A rec : rec \in (BatchRows(batch[s]))' =>
                 rec \in {x \in Between(offsets'[batch[s]], offsets'[batch[s] + 1]) : Readable(x)'}
    BY <1>1 DEF BatchRows, Between
  <2>6. ASSUME NEW rec \in (BatchRows(batch[s]))', GoesToBronze(Payload(rec)')
        PROVE  HasOriginal(rec)'
    <3>1. \A b : b = batch[s] =>
            (rec \in {x \in Between(offsets'[b], offsets'[b + 1]) : Readable(x)'}
               => HasOriginal(rec)')
      BY <2>4, <2>6 DEF BatchRows, Between
    <3> QED BY <2>5, <2>6, <3>1
  <2> QED BY <2>6
<1>2. ASSUME NEW s \in Replicas, pc'[s] \notin {"bronze_done", "dlq_done"}
      PROVE  Tagged(s)'
  BY <1>2
<1>3. ASSUME NEW r \in Replicas, SkipEmptyBatch(r) PROVE Tagged(r)'
  <2>1. (BatchRows(batch[r]))' = {}
    BY <1>3 DEF SkipEmptyBatch, BatchRows, Between, Readable, Published, kafka, checkpoint
  <2> QED BY <2>1
<1>4. ASSUME NEW r \in Replicas, WriteBronze(r) PROVE Tagged(r)'
  <2>1. PICK originals \in SUBSET ValidRows(batch[r]) :
          /\ PicksOriginals(originals, ValidRows(batch[r]))
          /\ bronze' = bronze \cup Appended(originals, ValidRows(batch[r]))
          /\ topic' = topic /\ expired' = expired /\ offsets' = offsets /\ batch' = batch
    BY <1>4, AppendStep
  <2>2. (BatchRows(batch[r]))' = BatchRows(batch[r])
    BY <2>1 DEF BatchRows, Between, Readable, Published
  <2>3. ASSUME NEW rec \in BatchRows(batch[r]), GoesToBronze(Payload(rec))
        PROVE  HasOriginal(rec)'
    <3>1. rec \in ValidRows(batch[r])
      BY <2>3 DEF ValidRows
    <3>2. PICK o \in originals : SameEvent(o, rec)
      BY <2>1, <3>1 DEF PicksOriginals
    <3> DEFINE row == [record |-> o, loaded_at |-> writes + 1, is_duplicate |-> "false"]
    <3>3. row \in bronze'
      BY <2>1 DEF Appended
    <3>4. row.record = o /\ row.is_duplicate = "false"
      OBVIOUS
    <3>5. SameEvent(row.record, rec)'
      BY <2>1, <3>2, <3>4 DEF SameEvent, Payload
    <3> QED BY <3>3, <3>4, <3>5 DEF HasOriginal, IsOriginal
  <2>4. \A rec : Payload(rec)' = Payload(rec)
    BY <2>1 DEF Payload
  <2> QED BY <2>2, <2>3, <2>4
<1>5. ASSUME NEW s \in Replicas PROVE Tagged(s)'
  <2> HIDE DEF Tagged
  <2>1. ASSUME NEW r \in Replicas, SkipEmptyBatch(r) \/ WriteBronze(r) PROVE Tagged(s)'
    <3>1. s = r \/ (batch'[s] = batch[s] /\ pc'[s] = pc[s])
      BY <1>0, <2>1 DEF SkipEmptyBatch, WriteBronze
    <3> QED BY <1>1, <1>2, <1>3, <1>4, <2>1, <3>1
  <2>2. ASSUME NEW r \in Replicas, WriteDlq(r) PROVE Tagged(s)'
    <3>1. batch'[s] = batch[s] /\ (pc'[s] = pc[s] \/ pc[s] = "bronze_done")
      BY <1>0, <2>2 DEF WriteDlq
    <3> QED BY <1>1, <1>2, <3>1
  <2>3. ASSUME NEW r \in Replicas,
               \/ StartQuery(r) \/ PlanBatch(r) \/ CommitBatch(r)
               \/ PlanConflict(r) \/ CommitConflict(r) \/ Terminate(r)
        PROVE  Tagged(s)'
    <3>1. \/ pc'[s] \notin {"bronze_done", "dlq_done"}
          \/ batch'[s] = batch[s] /\ pc'[s] = pc[s]
      BY <1>0, <2>3 DEF StartQuery, PlanBatch, CommitBatch, PlanConflict, CommitConflict,
                        Terminate
    <3> QED BY <1>1, <1>2, <3>1
  <2>4. CASE UNCHANGED <<pc, batch>>
    BY <1>1, <1>2, <2>4
  <2> QED BY <2>1, <2>2, <2>3, <2>4 DEF Next, Advance, Publish, Expire, IdleTrigger, vars, query
<1> QED BY <1>5 DEF TaggedInv

LEMMA VisibleInvNext == VisibleInv /\ [Next]_vars => VisibleInv'
<1> SUFFICES ASSUME VisibleInv, [Next]_vars PROVE VisibleInv'
  OBVIOUS
<1> USE DEF VisibleInv, IngestInv
<1>1. IngestInv' /\ RowsPublished' /\ TaggedInv'
  BY IngestInvNext, RowsPublishedNext, TaggedInvNext
<1>2. CommittedVisible'
  <2> SUFFICES ASSUME Started', NEW rec \in (Between(offsets[1], Committed))',
                      Readable(rec)', GoesToBronze(Payload(rec)')
               PROVE  HasOriginal(rec)'
    BY DEF CommittedVisible, HasOriginal
  <2>1. /\ rec \in Records /\ Published(rec) /\ Readable(rec) /\ Payload(rec)' = Payload(rec)
        /\ \/ Started /\ rec \in Between(offsets[1], Committed)
           \/ \E r \in Replicas : CommitBatch(r) /\ rec \in BatchRows(batch[r])
    BY CommittedStep
  <2>2. HasOriginal(rec)
    BY <2>1 DEF CommittedVisible, HasOriginal, TaggedInv, CommitBatch
  <2> QED BY <2>1, <2>2, OriginalsStable
<1> QED BY <1>1, <1>2

LEMMA VisibleInvAlways == Spec => []VisibleInv
BY VisibleInvInit, VisibleInvNext, PTL DEF Spec

(* The tags hide no event: see CommittedVisible.                           *)
THEOREM Visible == Spec => []CommittedVisible
<1>1. VisibleInv => CommittedVisible
  BY DEF VisibleInv
<1> QED BY <1>1, VisibleInvAlways, PTL

-----------------------------------------------------------------------------
(* The refinement: the job implements AtLeastOnceIngest.                   *)

AllLanded == {row.record : row \in bronze} \cup {row.record : row \in dlq}
CommittedOrStart == IF Started THEN Committed ELSE Start

(* A job whose log is empty has no query that has got anywhere.            *)
LEMMA RunningStarted ==
  ASSUME Typed, QueryInv, NEW r \in Replicas, pc[r] # "down"
  PROVE  offsets # <<>>
<1>1. /\ offsets \in Seq(Positions) /\ batch[r] \in Nat \ {0}
      /\ pc[r] \in {"idle", "planned", "bronze_done", "dlq_done"}
  BY DEF Typed, TypeOK
<1> QED BY <1>1 DEF QueryInv, Running

(* The rows of a planned batch were published after the start.             *)
LEMMA BatchAfterStart ==
  ASSUME Typed, LogInv, QueryInv, NEW r \in Replicas, pc[r] \in Running
  PROVE  BatchRows(batch[r]) \subseteq Between(offsets[1], Latest)
<1> DEFINE b == batch[r]
<1>1. /\ offsets \in Seq(Positions) /\ b \in Nat \ {0} /\ b < Len(offsets)
  BY DEF Typed, TypeOK, QueryInv
<1> HIDE DEF b
<1>2. 1 \in 1 .. Len(offsets) /\ b \in 1 .. Len(offsets) /\ b + 1 \in 1 .. Len(offsets)
  BY <1>1
<1>3. ASSUME NEW rec \in BatchRows(b) PROVE rec \in Between(offsets[1], Latest)
  <2>1. /\ rec \in Records /\ rec[1] \in Partitions /\ rec[2] \in Nat
        /\ offsets[b][rec[1]] < rec[2] /\ rec[2] <= Len(topic[rec[1]])
    BY <1>3, BronzeStreamAssumption DEF BatchRows, Between, Records, Readable, Published
  <2>2. offsets[1][rec[1]] <= offsets[b][rec[1]]
    BY <1>1, <1>2, <2>1 DEF LogInv
  <2>3. offsets[1][rec[1]] \in Nat /\ offsets[b][rec[1]] \in Nat
    BY <1>1, <1>2, <2>1, BronzeStreamAssumption DEF Positions
  <2>4. Latest[rec[1]] = Len(topic[rec[1]])
    BY <2>1 DEF Latest
  <2> QED BY <2>1, <2>2, <2>3, <2>4 DEF Between
<1> QED BY <1>3 DEF b

(* Once the log has its first entry, the start stays; and the committed    *)
(* position stays as long as no batch is committed.                        *)
LEMMA StartKept ==
  ASSUME Typed, LogInv, [Next]_vars, Started
  PROVE  /\ Started' /\ Start' = Start
         /\ commits' = commits => CommittedOrStart' = CommittedOrStart
<1>1. /\ offsets \in Seq(Positions) /\ commits \in Nat /\ Len(offsets) \in Nat
      /\ offsets # <<>>
  BY DEF Typed, TypeOK, Started
<1>2. 1 \in 1 .. Len(offsets) /\ commits + 1 \in 1 .. Len(offsets)
  BY <1>1 DEF LogInv
<1>3. /\ offsets'[1] = offsets[1] /\ offsets'[commits + 1] = offsets[commits + 1]
      /\ Len(offsets') >= Len(offsets) /\ offsets' \in Seq(Positions)
  BY <1>2, LogGrows, TypedNext DEF Typed, TypeOK
<1>4. offsets' # <<>>
  BY <1>1, <1>3
<1> QED BY <1>1, <1>3, <1>4 DEF Started, Start, CommittedOrStart, Committed

LEMMA IngestRefinesInit == Init => Ingest!Init
BY DEF Init, Ingest!Init, Started, Start

LEMMA IngestRefinesNext ==
  ASSUME IngestInv, [Next]_vars
  PROVE  [Ingest!Next]_(Ingest!vars)
<1> USE DEF IngestInv
<1>0. /\ offsets \in Seq(Positions) /\ commits \in Nat
      /\ batch \in [Replicas -> Nat \ {0}]
  BY DEF Typed, TypeOK
<1>1. ASSUME UNCHANGED <<kafka, checkpoint, bronze, dlq>>
      PROVE  UNCHANGED Ingest!vars
  BY <1>1 DEF kafka, checkpoint, Ingest!vars, Started, Start, Committed
<1>2. ASSUME NEW m \in Messages, Publish(m) PROVE Ingest!Publish(m)
  BY <1>2 DEF Publish, Ingest!Publish, checkpoint, tables, Started, Start, Committed
<1>3. ASSUME NEW p \in Partitions, Expire(p) PROVE Ingest!Expire(p)
  BY <1>3 DEF Expire, Ingest!Expire, checkpoint, tables, Started, Start, Committed
<1>4. ASSUME NEW r \in Replicas, StartQuery(r)
      PROVE  Ingest!Begin \/ UNCHANGED Ingest!vars
  <2>1. /\ offsets' = IF offsets = <<>> THEN <<Latest>> ELSE offsets
        /\ topic' = topic /\ expired' = expired /\ commits' = commits
        /\ bronze' = bronze /\ dlq' = dlq
    BY <1>4 DEF StartQuery, kafka, tables
  <2>2. CASE offsets = <<>>
    <3>1. commits = 0 /\ offsets' = <<Latest>>
      BY <2>1, <2>2 DEF LogInv
    <3> QED BY <2>1, <2>2, <3>1
            DEF Ingest!Begin, Started, Start, Committed, Latest, Ingest!Latest
  <2>3. CASE offsets # <<>>
    BY <1>1, <2>1, <2>3 DEF kafka, checkpoint
  <2> QED BY <2>2, <2>3
<1>5. ASSUME NEW r \in Replicas, PlanBatch(r) PROVE UNCHANGED Ingest!vars
  <2>1. /\ topic' = topic /\ expired' = expired /\ commits' = commits
        /\ bronze' = bronze /\ dlq' = dlq /\ pc[r] = "idle"
    BY <1>5 DEF PlanBatch, kafka, tables
  <2>2. Started
    BY <2>1, RunningStarted DEF Started
  <2> QED BY <2>1, <2>2, StartKept DEF Ingest!vars, CommittedOrStart
<1>6. ASSUME NEW r \in Replicas, WriteBronze(r) \/ WriteDlq(r) PROVE Ingest!Land
  <2>1. /\ topic' = topic /\ expired' = expired /\ offsets' = offsets
        /\ commits' = commits /\ pc[r] \in Running
    BY <1>6 DEF WriteBronze, WriteDlq, kafka, checkpoint, Running
  <2>2. BatchRows(batch[r]) \subseteq Between(offsets[1], Latest) /\ Started
    BY <2>1, BatchAfterStart, RunningStarted DEF Started, Running
  <2>3. \E recs \in SUBSET BatchRows(batch[r]) : AllLanded' = AllLanded \cup recs
    <3>1. CASE WriteBronze(r)
      <4>1. PICK originals \in SUBSET ValidRows(batch[r]) :
              bronze' = bronze \cup Appended(originals, ValidRows(batch[r]))
        BY <3>1, AppendStep
      <4>2. dlq' = dlq
        BY <3>1 DEF WriteBronze
      <4>3. {row.record : row \in Appended(originals, ValidRows(batch[r]))} = ValidRows(batch[r])
        BY AppendedRecords
      <4>4. {row.record : row \in bronze'} = {row.record : row \in bronze} \cup ValidRows(batch[r])
        BY <4>1, <4>3
      <4>5. AllLanded' = AllLanded \cup ValidRows(batch[r])
        BY <4>2, <4>4 DEF AllLanded
      <4>6. ValidRows(batch[r]) \subseteq BatchRows(batch[r])
        BY DEF ValidRows
      <4> QED BY <4>5, <4>6
    <3>2. CASE WriteDlq(r)
      <4> DEFINE letters == Letters(InvalidRows(batch[r]), stamp[r])
      <4>1. bronze' = bronze /\ dlq' = dlq \cup letters
        BY <3>2 DEF WriteDlq, Letters
      <4>2. {row.record : row \in letters} = InvalidRows(batch[r])
        BY LetterRecords
      <4>3. {row.record : row \in dlq'} = {row.record : row \in dlq} \cup InvalidRows(batch[r])
        BY <4>1, <4>2
      <4>4. AllLanded' = AllLanded \cup InvalidRows(batch[r])
        BY <4>1, <4>3 DEF AllLanded
      <4>5. InvalidRows(batch[r]) \subseteq BatchRows(batch[r])
        BY DEF InvalidRows
      <4> QED BY <4>4, <4>5
    <3> QED BY <1>6, <3>1, <3>2
  <2>4. PICK recs \in SUBSET Between(offsets[1], Latest) : AllLanded' = AllLanded \cup recs
    BY <2>2, <2>3
  <2>5. /\ Ingest!Between(Start, Ingest!Latest) = Between(offsets[1], Latest)
        /\ UNCHANGED <<topic, expired, Started, Start, CommittedOrStart>>
    BY <2>1, <2>2 DEF Ingest!Between, Between, Ingest!Latest, Latest, Ingest!Records, Records,
                      Start, Started, Committed, CommittedOrStart
  <2> QED BY <2>2, <2>4, <2>5 DEF Ingest!Land, AllLanded, CommittedOrStart
<1>7. ASSUME NEW r \in Replicas, CommitBatch(r) PROVE Ingest!Commit
  <2> DEFINE b == batch[r]
             to == offsets[b + 1]
  <2>1. /\ commits' = b /\ b = commits + 1 /\ b \in Nat \ {0} /\ b < Len(offsets)
        /\ pc[r] = "dlq_done" /\ offsets' = offsets /\ topic' = topic /\ expired' = expired
        /\ bronze' = bronze /\ dlq' = dlq
    BY <1>0, <1>7 DEF CommitBatch, QueryInv, Running, kafka, tables
  <2>2. Started
    BY <2>1, RunningStarted DEF Started
  <2>3. ASSUME NEW rec \in BatchRows(b) PROVE rec \in AllLanded
    <3>1. GoesToBronze(Payload(rec)) \/ GoesToDlq(Payload(rec))
      BY SplitIsTotal
    <3>2. InBronze(rec) \/ InDlq(rec)
      BY <2>1, <2>3, <3>1 DEF WrittenInv
    <3> QED BY <3>2 DEF AllLanded, InBronze, InDlq
  <2> HIDE DEF b
  <2>4. b \in 1 .. Len(offsets) /\ b + 1 \in 1 .. Len(offsets)
    BY <1>0, <2>1
  <2>5. to \in Positions /\ Committed = offsets[b] /\ Committed' = to
    BY <1>0, <2>1, <2>4 DEF Committed
  <2>6. \A p \in Partitions : Committed[p] <= to[p] /\ to[p] <= Len(topic[p])
    BY <1>0, <2>1, <2>4, <2>5 DEF LogInv
  <2>7. \A rec \in Between(Committed, to) : Readable(rec) => rec \in AllLanded
    BY <2>3, <2>5 DEF BatchRows
  <2>8. /\ Ingest!Positions = Positions
        /\ Ingest!Between(Committed, to) = Between(Committed, to)
        /\ \A rec : Ingest!Readable(rec) <=> Readable(rec)
    BY DEF Ingest!Positions, Positions, Ingest!Between, Between, Ingest!Records, Records,
           Ingest!Readable, Readable, Published
  <2>9. UNCHANGED <<topic, expired, Started, Start, AllLanded>>
    BY <2>1 DEF Started, Start, AllLanded
  <2>10. CommittedOrStart = Committed /\ CommittedOrStart' = to
    BY <2>2, <2>5, <2>9 DEF CommittedOrStart
  <2> HIDE DEF to
  <2> QED BY <2>2, <2>5, <2>6, <2>7, <2>8, <2>9, <2>10
          DEF Ingest!Commit, AllLanded, CommittedOrStart
<1>8. ASSUME NEW r \in Replicas,
             \/ SkipEmptyBatch(r) \/ IdleTrigger(r) \/ PlanConflict(r)
             \/ CommitConflict(r) \/ Terminate(r)
      PROVE  UNCHANGED Ingest!vars
  <2>1. UNCHANGED <<kafka, checkpoint, bronze, dlq>>
    BY <1>8 DEF SkipEmptyBatch, IdleTrigger, PlanConflict, CommitConflict, Terminate, vars,
                tables
  <2> QED BY <1>1, <2>1
<1>9. UNCHANGED vars => UNCHANGED Ingest!vars
  BY <1>1 DEF vars, tables
<1>10. \/ \E m \in Messages : Ingest!Publish(m)
       \/ \E p \in Partitions : Ingest!Expire(p)
       \/ Ingest!Begin \/ Ingest!Land \/ Ingest!Commit \/ UNCHANGED Ingest!vars
  BY <1>2, <1>3, <1>4, <1>5, <1>6, <1>7, <1>8, <1>9 DEF Next, Advance
<1> QED BY <1>10 DEF Ingest!Next

(* The job implements the abstract ingest, whatever its batches, its       *)
(* replays and the number of its replicas: see AtLeastOnceIngest.          *)
THEOREM IngestImplemented == Spec => ImplementsIngest
BY IngestRefinesInit, IngestRefinesNext, IngestInvAlways, PTL
   DEF Spec, ImplementsIngest, Ingest!Spec

-----------------------------------------------------------------------------
(* What the batch jobs see: the rows tagged is_duplicate=false implement   *)
(* BronzeTable.  An append is told from every earlier one by its           *)
(* bronze_loaded_at, so its rows are new to the table.                     *)

LoadedInv ==
  /\ IsFiniteSet(bronze)
  /\ \A row \in bronze : row.loaded_at \in Nat /\ row.loaded_at <= writes

FeedInv == Typed /\ RowsPublished /\ LoadedInv

LEMMA FiniteRecords == IsFiniteSet(Records)
<1>1. IsFiniteSet(1 .. MaxLen)
  BY FS_Interval, BronzeStreamAssumption
<1> QED BY <1>1, FS_Product, BronzeStreamAssumption DEF Records

LEMMA FiniteAppend ==
  ASSUME NEW originals, NEW rows, IsFiniteSet(rows)
  PROVE  IsFiniteSet(Appended(originals, rows))
<1> DEFINE f == [rec \in rows |-> [record       |-> rec,
                                   loaded_at    |-> writes + 1,
                                   is_duplicate |-> IF rec \in originals THEN "false" ELSE "true"]]
<1>1. f \in Surjection(rows, Appended(originals, rows))
  BY DEF Surjection, Appended
<1> QED BY <1>1, FS_Surjection

LEMMA FeedInvInit == Init => FeedInv
<1> SUFFICES ASSUME Init PROVE FeedInv
  OBVIOUS
<1>1. RowsPublished /\ LoadedInv
  BY FS_EmptySet DEF Init, RowsPublished, LoadedInv
<1> QED BY <1>1, TypedInit DEF FeedInv

LEMMA FeedInvNext == FeedInv /\ [Next]_vars => FeedInv'
<1> SUFFICES ASSUME FeedInv, [Next]_vars PROVE FeedInv'
  OBVIOUS
<1>1. Typed /\ writes \in Nat /\ Typed' /\ RowsPublished'
  BY TypedNext, RowsPublishedNext DEF FeedInv, Typed, TypeOK
<1>2. ASSUME NEW r \in Replicas, WriteBronze(r) PROVE LoadedInv'
  <2>1. PICK originals \in SUBSET ValidRows(batch[r]) :
          bronze' = bronze \cup Appended(originals, ValidRows(batch[r]))
    BY <1>2, AppendStep
  <2>2. writes' = writes + 1
    BY <1>2 DEF WriteBronze
  <2>3. ValidRows(batch[r]) \in SUBSET Records
    BY DEF ValidRows, BatchRows, Between
  <2>4. IsFiniteSet(Appended(originals, ValidRows(batch[r])))
    BY <2>3, FiniteRecords, FS_Subset, FiniteAppend
  <2>5. IsFiniteSet(bronze')
    BY <2>1, <2>4, FS_Union DEF FeedInv, LoadedInv
  <2>6. \A row \in Appended(originals, ValidRows(batch[r])) : row.loaded_at = writes + 1
    BY DEF Appended
  <2>7. \A row \in bronze' : row.loaded_at \in Nat /\ row.loaded_at <= writes'
    BY <1>1, <2>1, <2>2, <2>6 DEF FeedInv, LoadedInv
  <2> QED BY <2>5, <2>7 DEF LoadedInv
<1>3. (bronze' = bronze /\ writes' = writes) \/ \E r \in Replicas : WriteBronze(r)
  BY DEF Next, Advance, Publish, Expire, StartQuery, PlanBatch, SkipEmptyBatch, WriteDlq,
         CommitBatch, IdleTrigger, PlanConflict, CommitConflict, Terminate, vars, tables
<1>4. LoadedInv'
  BY <1>2, <1>3 DEF FeedInv, LoadedInv
<1> QED BY <1>1, <1>4 DEF FeedInv

LEMMA FeedInvAlways == Spec => []FeedInv
BY FeedInvInit, FeedInvNext, PTL DEF Spec

(* A step that appends nothing leaves the originals of every event alone.  *)
LEMMA OriginalsKept ==
  ASSUME FeedInv, [Next]_vars, bronze' = bronze, NEW id
  PROVE  Originals(id)' = Originals(id)
<1>1. \A row \in bronze : Payload(row.record)' = Payload(row.record)
  BY RecordsStable DEF FeedInv, RowsPublished
<1> QED BY <1>1 DEF Originals

(* An append gives an event one more original when the batch holds a valid *)
(* record of it, and none otherwise.                                       *)
LEMMA OriginalsAppended ==
  ASSUME FeedInv, NEW rows, NEW originals \in SUBSET rows, NEW id,
         PicksOriginals(originals, rows),
         bronze' = bronze \cup Appended(originals, rows), topic' = topic
  PROVE  Cardinality(Originals(id))' =
           IF \E o \in originals : Payload(o)["event_id"] = id
           THEN Cardinality(Originals(id)) + 1
           ELSE Cardinality(Originals(id))
<1> DEFINE Tagged(o) == [record |-> o, loaded_at |-> writes + 1, is_duplicate |-> "false"]
<1>1. \A rec : Payload(rec)' = Payload(rec)
  BY DEF Payload
<1>2. IsFiniteSet(Originals(id)) /\ writes \in Nat
  <2>1. Originals(id) \in SUBSET bronze
    BY DEF Originals
  <2> QED BY <2>1, FS_Subset DEF FeedInv, LoadedInv, Typed, TypeOK
<1>3. ASSUME NEW row \in Appended(originals, rows), IsOriginal(row)
      PROVE  row.record \in originals /\ row = Tagged(row.record)
  <2>1. PICK rec \in rows :
          row = [record       |-> rec,
                 loaded_at    |-> writes + 1,
                 is_duplicate |-> IF rec \in originals THEN "false" ELSE "true"]
    BY <1>3 DEF Appended
  <2>2. row.record = rec /\ row.is_duplicate = IF rec \in originals THEN "false" ELSE "true"
    BY <2>1
  <2>3. rec \in originals
    BY <1>3, <2>2 DEF IsOriginal
  <2> QED BY <2>1, <2>2, <2>3
<1>4. ASSUME NEW o \in originals PROVE Tagged(o) \in Appended(originals, rows) /\ Tagged(o).record = o
                                      /\ IsOriginal(Tagged(o))
  BY DEF Appended, IsOriginal
<1>5. CASE \E o \in originals : Payload(o)["event_id"] = id
  <2>1. PICK o \in originals : Payload(o)["event_id"] = id
    BY <1>5
  <2>2. ASSUME NEW row \in Originals(id)' PROVE row \in Originals(id) \cup {Tagged(o)}
    <3>1. row \in bronze' /\ IsOriginal(row) /\ Payload(row.record)["event_id"] = id
      BY <1>1, <2>2 DEF Originals
    <3>2. CASE row \in bronze
      BY <3>1, <3>2 DEF Originals
    <3>3. CASE row \in Appended(originals, rows)
      <4>1. row.record \in originals /\ row = Tagged(row.record)
        BY <1>3, <3>1, <3>3
      <4>2. SameEvent(row.record, o)
        BY <2>1, <3>1 DEF SameEvent
      <4>3. row.record = o
        BY <4>1, <4>2 DEF PicksOriginals
      <4> QED BY <4>1, <4>3
    <3> QED BY <3>1, <3>2, <3>3
  <2>3. Tagged(o) \in Originals(id)'
    BY <1>1, <1>4, <2>1 DEF Originals
  <2>4. Originals(id) \subseteq Originals(id)'
    BY <1>1 DEF Originals
  <2>5. Originals(id)' = Originals(id) \cup {Tagged(o)}
    BY <2>2, <2>3, <2>4
  <2>6. Tagged(o) \notin Originals(id)
    <3>1. Tagged(o).loaded_at = writes + 1
      OBVIOUS
    <3> HIDE DEF Tagged
    <3> QED BY <1>2, <3>1 DEF Originals, FeedInv, LoadedInv
  <2> HIDE DEF Tagged
  <2>7. Cardinality(Originals(id) \cup {Tagged(o)}) = Cardinality(Originals(id)) + 1
    BY <1>2, <2>6, FS_AddElement
  <2>8. Cardinality(Originals(id))' = Cardinality(Originals(id) \cup {Tagged(o)})
    BY <2>5
  <2> QED BY <1>5, <2>7, <2>8
<1>6. CASE ~ \E o \in originals : Payload(o)["event_id"] = id
  <2>1. ASSUME NEW row \in Appended(originals, rows), IsOriginal(row)
        PROVE  Payload(row.record)["event_id"] # id
    BY <1>3, <1>6, <2>1
  <2>2. Originals(id)' = Originals(id)
    BY <1>1, <2>1 DEF Originals
  <2> QED BY <1>6, <2>2
<1> QED BY <1>5, <1>6

LEMMA FeedRefinesInit == Init => Feed!Init
BY FS_EmptySet DEF Init, Feed!Init, Originals

LEMMA FeedRefinesNext ==
  ASSUME FeedInv, [Next]_vars
  PROVE  [Feed!Next]_([id \in EventIds |-> Cardinality(Originals(id))])
<1>1. CASE bronze' = bronze
  <2>1. \A id \in EventIds : Cardinality(Originals(id))' = Cardinality(Originals(id))
    BY <1>1, OriginalsKept
  <2>2. EventIds' = EventIds
    BY DEF EventIds
  <2> QED BY <2>1, <2>2
<1>2. ASSUME NEW r \in Replicas, WriteBronze(r) PROVE Feed!Next
  <2>1. PICK originals \in SUBSET ValidRows(batch[r]) :
          /\ PicksOriginals(originals, ValidRows(batch[r]))
          /\ bronze' = bronze \cup Appended(originals, ValidRows(batch[r]))
          /\ topic' = topic
    BY <1>2, AppendStep
  <2> DEFINE ids == {id \in EventIds : \E o \in originals : Payload(o)["event_id"] = id}
  <2>2. ASSUME NEW id \in EventIds
        PROVE  Cardinality(Originals(id))' = IF id \in ids THEN Cardinality(Originals(id)) + 1
                                             ELSE Cardinality(Originals(id))
    BY <2>1, OriginalsAppended
  <2>3. ids \in SUBSET EventIds
    OBVIOUS
  <2> HIDE DEF ids
  <2>4. Feed!Commit(ids)
    BY <2>2 DEF Feed!Commit
  <2> QED BY <2>3, <2>4 DEF Feed!Next
<1> QED BY <1>1, <1>2, BronzeChanges

(* The rows that Silver reads implement the table that the batch jobs are  *)
(* modelled against: see BronzeTable.                                      *)
THEOREM FeedImplemented == Spec => FeedsSilver
BY FeedRefinesInit, FeedRefinesNext, FeedInvAlways, PTL
   DEF Spec, FeedsSilver, Feed!Spec

-----------------------------------------------------------------------------
(* One replica.  A query that is alone on its checkpoint is always at the  *)
(* batch after the committed one; with two, one may still be writing a     *)
(* batch that the other has committed.                                     *)

OneReplica == \A r, s \in Replicas : r = s

AloneInv ==
  \A r \in Replicas :
    /\ pc[r] # "down" => batch[r] = commits + 1
    /\ pc[r] = "idle" => Len(offsets) = commits + 1

InBatch(rec, b) == offsets[b][rec[1]] < rec[2] /\ rec[2] <= offsets[b + 1][rec[1]]

(* Written, and not yet committed.                                         *)
InFlight(rec) ==
  \E r \in Replicas : pc[r] \in {"bronze_done", "dlq_done"} /\ InBatch(rec, batch[r])

Behind(rec) == Started /\ rec[2] <= Committed[rec[1]]

Copies(rec) == {row \in bronze : row.record = rec}

(* Ahead of the committed position a record has been written once for each *)
(* termination, and once more when the batch in flight has written it.     *)
CopiesInv ==
  \A rec \in Records :
    /\ Cardinality(Copies(rec)) <= crashes + 1
    /\ ~ Behind(rec) /\ ~ InFlight(rec) => Cardinality(Copies(rec)) <= crashes

LoneInv == IngestInv /\ FeedInv /\ AloneInv /\ CopiesInv

LEMMA LoneInvInit == Init => LoneInv
<1> SUFFICES ASSUME Init PROVE LoneInv
  OBVIOUS
<1>1. AloneInv
  BY DEF Init, AloneInv
<1>2. ASSUME NEW rec \in Records PROVE Cardinality(Copies(rec)) = 0
  <2>1. Copies(rec) = {}
    BY DEF Init, Copies
  <2> QED BY <2>1, FS_EmptySet
<1>3. CopiesInv
  BY <1>2 DEF Init, CopiesInv
<1> QED BY <1>1, <1>3, IngestInvInit, FeedInvInit DEF LoneInv

LEMMA AloneInvNext ==
  ASSUME OneReplica, IngestInv, AloneInv, [Next]_vars
  PROVE  AloneInv'
<1> USE DEF IngestInv
<1>0. /\ offsets \in Seq(Positions) /\ commits \in Nat /\ Len(offsets) \in Nat
      /\ batch \in [Replicas -> Nat \ {0}]
      /\ pc \in [Replicas -> {"down", "idle", "planned", "bronze_done", "dlq_done"}]
  BY DEF Typed, TypeOK
<1>1. ASSUME NEW r \in Replicas, StartQuery(r) PROVE AloneInv'
  <2>1. /\ pc' = [pc EXCEPT ![r] = IF Len(offsets) = commits + 2 THEN "planned" ELSE "idle"]
        /\ batch' = [batch EXCEPT ![r] = commits + 1] /\ commits' = commits
        /\ offsets' = IF offsets = <<>> THEN <<Latest>> ELSE offsets
    BY <1>1 DEF StartQuery
  <2>2. IF offsets = <<>> THEN commits = 0 /\ Len(offsets') = 1
        ELSE Len(offsets) \in {commits + 1, commits + 2} /\ offsets' = offsets
    BY <2>1 DEF LogInv
  <2> QED BY <1>0, <2>1, <2>2 DEF AloneInv, OneReplica
<1>2. ASSUME NEW r \in Replicas, PlanBatch(r) PROVE AloneInv'
  BY <1>0, <1>2 DEF PlanBatch, AloneInv, OneReplica
<1>3. ASSUME NEW r \in Replicas, CommitBatch(r) PROVE AloneInv'
  <2>1. /\ pc[r] = "dlq_done" /\ pc' = [pc EXCEPT ![r] = "idle"]
        /\ commits' = batch[r] /\ commits = batch[r] - 1
        /\ batch' = [batch EXCEPT ![r] = @ + 1] /\ offsets' = offsets
    BY <1>3 DEF CommitBatch
  <2>2. batch[r] < Len(offsets) /\ Len(offsets) \in {commits + 1, commits + 2}
    BY <1>0, <2>1 DEF QueryInv, Running, LogInv
  <2> QED BY <1>0, <2>1, <2>2 DEF AloneInv, OneReplica
<1>4. ASSUME NEW r \in Replicas,
             \/ SkipEmptyBatch(r) \/ WriteBronze(r) \/ WriteDlq(r)
             \/ PlanConflict(r) \/ CommitConflict(r) \/ Terminate(r)
      PROVE  AloneInv'
  <2>1. batch' = batch /\ commits' = commits /\ offsets' = offsets
    BY <1>4 DEF SkipEmptyBatch, WriteBronze, WriteDlq, PlanConflict, CommitConflict,
                Terminate, checkpoint
  <2>2. \/ pc' = [pc EXCEPT ![r] = "down"]
        \/ pc[r] \in Running /\ pc' = [pc EXCEPT ![r] = "bronze_done"]
        \/ pc[r] \in Running /\ pc' = [pc EXCEPT ![r] = "dlq_done"]
    BY <1>4 DEF SkipEmptyBatch, WriteBronze, WriteDlq, PlanConflict, CommitConflict,
                Terminate, Running
  <2> QED BY <1>0, <2>1, <2>2 DEF AloneInv, Running
<1>5. CASE UNCHANGED <<checkpoint, pc, batch>>
  BY <1>5 DEF AloneInv, checkpoint
<1> QED BY <1>1, <1>2, <1>3, <1>4, <1>5
        DEF Next, Advance, Publish, Expire, IdleTrigger, vars, query

(* The batch in flight lies behind the committed position as soon as it is *)
(* committed, and nothing leaves that position.                            *)
LEMMA BehindKept ==
  ASSUME IngestInv, [Next]_vars, NEW rec \in Records, Behind(rec)
  PROVE  Behind(rec)'
<1> USE DEF IngestInv
<1>1. /\ offsets \in Seq(Positions) /\ commits \in Nat /\ Len(offsets) \in Nat
      /\ Started /\ rec[1] \in Partitions /\ rec[2] \in Nat
      /\ batch \in [Replicas -> Nat \ {0}]
  BY BronzeStreamAssumption DEF Typed, TypeOK, Behind, Records
<1>2. commits + 1 \in 1 .. Len(offsets)
  BY <1>1 DEF LogInv, Started
<1>3. offsets'[commits + 1] = offsets[commits + 1] /\ Started'
  BY <1>1, <1>2, LogGrows, StartKept
<1>4. CASE commits' = commits
  BY <1>3, <1>4 DEF Behind, Committed
<1>5. ASSUME NEW r \in Replicas, CommitBatch(r) PROVE Behind(rec)'
  <2> DEFINE b == batch[r]
  <2>1. b = commits + 1 /\ commits' = b /\ b < Len(offsets) /\ offsets' = offsets
    BY <1>1, <1>5 DEF CommitBatch, QueryInv, Running
  <2> HIDE DEF b
  <2>2. b \in 1 .. Len(offsets) /\ b + 1 \in 1 .. Len(offsets)
    BY <1>1, <2>1
  <2>3. offsets[b][rec[1]] <= offsets[b + 1][rec[1]]
    BY <1>1, <2>1, <2>2 DEF LogInv
  <2>4. offsets[b][rec[1]] \in Nat /\ offsets[b + 1][rec[1]] \in Nat
    BY <1>1, <2>2, BronzeStreamAssumption DEF Positions
  <2> QED BY <1>1, <1>3, <2>1, <2>3, <2>4 DEF Behind, Committed
<1>6. commits' = commits \/ \E r \in Replicas : CommitBatch(r)
  BY DEF Next, Advance, Publish, Expire, StartQuery, PlanBatch, SkipEmptyBatch, WriteBronze,
         WriteDlq, IdleTrigger, PlanConflict, CommitConflict, Terminate, vars, query, checkpoint
<1> QED BY <1>4, <1>5, <1>6

(* An append writes a record of its batch once, and no other.              *)
LEMMA CopiesAppended ==
  ASSUME FeedInv, NEW r \in Replicas, WriteBronze(r), NEW rec \in Records
  PROVE  /\ Cardinality(Copies(rec)) \in Nat
         /\ Cardinality(Copies(rec))' \in Nat
         /\ Cardinality(Copies(rec))' <= Cardinality(Copies(rec)) + 1
         /\ rec \notin ValidRows(batch[r]) =>
              Cardinality(Copies(rec))' = Cardinality(Copies(rec))
<1>1. PICK originals \in SUBSET ValidRows(batch[r]) :
        bronze' = bronze \cup Appended(originals, ValidRows(batch[r]))
  BY AppendStep
<1>2. IsFiniteSet(Copies(rec))
  <2>1. Copies(rec) \in SUBSET bronze
    BY DEF Copies
  <2> QED BY <2>1, FS_Subset DEF FeedInv, LoadedInv
<1> DEFINE row == [record       |-> rec,
                   loaded_at    |-> writes + 1,
                   is_duplicate |-> IF rec \in originals THEN "false" ELSE "true"]
<1>3. \A x \in Appended(originals, ValidRows(batch[r])) :
        x.record \in ValidRows(batch[r]) /\ (x.record = rec => x = row)
  BY DEF Appended
<1>4. row.record = rec /\ (rec \in ValidRows(batch[r]) => row \in bronze')
  BY <1>1 DEF Appended
<1> HIDE DEF row
<1>5. rec \notin ValidRows(batch[r]) => Copies(rec)' = Copies(rec)
  BY <1>1, <1>3 DEF Copies
<1>6. rec \in ValidRows(batch[r]) => Copies(rec)' = Copies(rec) \cup {row}
  BY <1>1, <1>3, <1>4 DEF Copies
<1>7. /\ Cardinality(Copies(rec)) \in Nat
      /\ Cardinality(Copies(rec) \cup {row}) \in
           {Cardinality(Copies(rec)), Cardinality(Copies(rec)) + 1}
  BY <1>2, FS_AddElement, FS_CardinalityType
<1>8. \/ Cardinality(Copies(rec))' = Cardinality(Copies(rec))
      \/ Cardinality(Copies(rec))' = Cardinality(Copies(rec) \cup {row})
  BY <1>5, <1>6
<1>9. rec \notin ValidRows(batch[r]) => Cardinality(Copies(rec))' = Cardinality(Copies(rec))
  BY <1>5
<1> QED BY <1>7, <1>8, <1>9

LEMMA CopiesInvNext ==
  ASSUME OneReplica, LoneInv, [Next]_vars
  PROVE  CopiesInv'
<1> USE DEF LoneInv, IngestInv
<1>0. /\ offsets \in Seq(Positions) /\ commits \in Nat /\ crashes \in Nat
      /\ batch \in [Replicas -> Nat \ {0}]
      /\ pc \in [Replicas -> {"down", "idle", "planned", "bronze_done", "dlq_done"}]
  BY DEF Typed, TypeOK
<1> SUFFICES ASSUME NEW rec \in Records
             PROVE  /\ (Cardinality(Copies(rec)) <= crashes + 1)'
                    /\ (~ Behind(rec) /\ ~ InFlight(rec) => Cardinality(Copies(rec)) <= crashes)'
  BY DEF CopiesInv
<1>1. /\ Cardinality(Copies(rec)) \in Nat
      /\ Cardinality(Copies(rec)) <= crashes + 1
      /\ ~ Behind(rec) /\ ~ InFlight(rec) => Cardinality(Copies(rec)) <= crashes
      /\ Behind(rec) => Behind(rec)'
  <2>1. Copies(rec) \in SUBSET bronze
    BY DEF Copies
  <2>2. IsFiniteSet(Copies(rec))
    BY <2>1, FS_Subset DEF FeedInv, LoadedInv
  <2> QED BY <2>2, FS_CardinalityType, BehindKept DEF CopiesInv
(* A step that appends nothing, counts no termination and leaves what is   *)
(* in flight in flight, or behind the committed position.                  *)
<1>2. ASSUME bronze' = bronze, crashes' = crashes,
             InFlight(rec) => InFlight(rec)' \/ Behind(rec)'
      PROVE  /\ (Cardinality(Copies(rec)) <= crashes + 1)'
             /\ (~ Behind(rec) /\ ~ InFlight(rec) => Cardinality(Copies(rec)) <= crashes)'
  <2>1. Copies(rec)' = Copies(rec)
    BY <1>2 DEF Copies
  <2>2. Cardinality(Copies(rec))' = Cardinality(Copies(rec))
    BY <2>1
  <2> QED BY <1>1, <1>2, <2>2
<1>3. ASSUME NEW r \in Replicas, WriteBronze(r)
      PROVE  /\ (Cardinality(Copies(rec)) <= crashes + 1)'
             /\ (~ Behind(rec) /\ ~ InFlight(rec) => Cardinality(Copies(rec)) <= crashes)'
  <2>1. /\ pc[r] = "planned" /\ pc' = [pc EXCEPT ![r] = "bronze_done"] /\ batch' = batch
        /\ crashes' = crashes /\ offsets' = offsets /\ commits' = commits
    BY <1>3 DEF WriteBronze, checkpoint
  <2>2. ~ InFlight(rec)
    BY <2>1 DEF InFlight, OneReplica
  <2>3. rec \in ValidRows(batch[r]) => InBatch(rec, batch[r])
    BY DEF ValidRows, BatchRows, Between, InBatch
  <2>4. InBatch(rec, batch[r]) => InFlight(rec)'
    BY <1>0, <2>1 DEF InFlight, InBatch
  <2>5. rec \in ValidRows(batch[r]) => ~ Behind(rec)
    <3>1. batch[r] = commits + 1
      BY <2>1 DEF AloneInv
    <3>2. commits + 1 \in 1 .. Len(offsets)
      BY <1>0, <2>1, RunningStarted DEF LogInv
    <3>3. rec[1] \in Partitions /\ rec[2] \in Nat
      BY BronzeStreamAssumption DEF Records
    <3>4. offsets[commits + 1][rec[1]] \in Nat
      BY <1>0, <3>2, <3>3, BronzeStreamAssumption DEF Positions
    <3> QED BY <2>3, <3>1, <3>3, <3>4 DEF InBatch, Behind, Committed
  <2>6. /\ Cardinality(Copies(rec))' \in Nat
        /\ Cardinality(Copies(rec))' <= Cardinality(Copies(rec)) + 1
        /\ rec \notin ValidRows(batch[r]) =>
             Cardinality(Copies(rec))' = Cardinality(Copies(rec))
    BY <1>3, CopiesAppended
  <2> QED BY <1>0, <1>1, <2>1, <2>2, <2>3, <2>4, <2>5, <2>6
<1>4. ASSUME NEW r \in Replicas, Terminate(r)
      PROVE  /\ (Cardinality(Copies(rec)) <= crashes + 1)'
             /\ (~ Behind(rec) /\ ~ InFlight(rec) => Cardinality(Copies(rec)) <= crashes)'
  <2>1. crashes' = crashes + 1 /\ bronze' = bronze
    BY <1>4 DEF Terminate, tables
  <2>2. Cardinality(Copies(rec))' = Cardinality(Copies(rec))
    BY <2>1 DEF Copies
  <2> QED BY <1>0, <1>1, <2>1, <2>2
<1>5. ASSUME NEW r \in Replicas, CommitBatch(r)
      PROVE  InFlight(rec) => Behind(rec)'
  <2>1. /\ commits' = batch[r] /\ offsets' = offsets /\ pc[r] = "dlq_done"
    BY <1>5 DEF CommitBatch
  <2>2. Started
    BY <2>1, RunningStarted DEF Started
  <2> QED BY <2>1, <2>2 DEF InFlight, InBatch, Behind, Committed, Started, OneReplica
<1>6. ASSUME NEW r \in Replicas, StartQuery(r) \/ PlanBatch(r) \/ SkipEmptyBatch(r) \/ PlanConflict(r)
      PROVE  ~ InFlight(rec)
  BY <1>6 DEF StartQuery, PlanBatch, SkipEmptyBatch, PlanConflict, InFlight, OneReplica
<1>7. ASSUME NEW r \in Replicas, CommitConflict(r) PROVE FALSE
  BY <1>0, <1>7 DEF CommitConflict, AloneInv
<1>8. ASSUME NEW r \in Replicas, WriteDlq(r) PROVE InFlight(rec) => InFlight(rec)'
  BY <1>0, <1>8 DEF WriteDlq, InFlight, InBatch, checkpoint
<1>9. ASSUME UNCHANGED <<checkpoint, pc, batch>> PROVE InFlight(rec) => InFlight(rec)'
  BY <1>9 DEF InFlight, InBatch, checkpoint
<1>10. \/ \E r \in Replicas : WriteBronze(r) \/ Terminate(r) \/ CommitConflict(r)
       \/ /\ bronze' = bronze /\ crashes' = crashes
          /\ \/ UNCHANGED <<checkpoint, pc, batch>>
             \/ \E r \in Replicas :
                  \/ StartQuery(r) \/ PlanBatch(r) \/ SkipEmptyBatch(r)
                  \/ WriteDlq(r) \/ CommitBatch(r) \/ PlanConflict(r)
  BY DEF Next, Advance, Publish, Expire, StartQuery, PlanBatch, SkipEmptyBatch, WriteDlq,
         CommitBatch, IdleTrigger, PlanConflict, CommitConflict, vars, query, tables
<1> QED BY <1>2, <1>3, <1>4, <1>5, <1>6, <1>7, <1>8, <1>9, <1>10

LEMMA LoneInvAlways == ASSUME OneReplica PROVE Spec => []LoneInv
<1>1. LoneInv /\ [Next]_vars => LoneInv'
  BY IngestInvNext, FeedInvNext, AloneInvNext, CopiesInvNext DEF LoneInv
<1> QED BY <1>1, LoneInvInit, PTL DEF Spec

(* With one replica, n terminations give at most n + 1 copies of a record. *)
THEOREM CopiesBounded == ASSUME OneReplica PROVE Spec => []CopiesBoundedByCrashes
<1>1. LoneInv => CopiesBoundedByCrashes
  BY DEF LoneInv, CopiesInv, CopiesBoundedByCrashes, Copies
<1> QED BY <1>1, LoneInvAlways, PTL

(* With one replica, only the batch in flight is ever written again.       *)
THEOREM NoRewrite == ASSUME OneReplica PROVE Spec => NoRewriteAfterCommit
<1>1. ASSUME LoneInv, [Next]_vars
      PROVE  \A row \in (bronze' \ bronze) \cup (dlq' \ dlq) :
               Committed[row.record[1]] < row.record[2]
  <2>1. ASSUME NEW r \in Replicas, WriteBronze(r) \/ WriteDlq(r),
               NEW row \in (bronze' \ bronze) \cup (dlq' \ dlq)
        PROVE  Committed[row.record[1]] < row.record[2]
    <3>1. batch[r] = commits + 1
      BY <1>1, <2>1 DEF WriteBronze, WriteDlq, LoneInv, AloneInv
    <3>2. row.record \in BatchRows(batch[r])
      <4>1. CASE WriteBronze(r)
        <5>1. PICK originals \in SUBSET ValidRows(batch[r]) :
                bronze' = bronze \cup Appended(originals, ValidRows(batch[r]))
          BY <4>1, AppendStep
        <5>2. row \in Appended(originals, ValidRows(batch[r]))
          BY <2>1, <4>1, <5>1 DEF WriteBronze
        <5> QED BY <5>2 DEF Appended, ValidRows
      <4>2. CASE WriteDlq(r)
        <5>1. row \in Letters(InvalidRows(batch[r]), stamp[r])
          BY <2>1, <4>2 DEF WriteDlq, Letters
        <5> QED BY <5>1 DEF Letters, InvalidRows
      <4> QED BY <2>1, <4>1, <4>2
    <3> QED BY <3>1, <3>2 DEF BatchRows, Between, Committed
  <2>2. (bronze' = bronze /\ dlq' = dlq) \/ \E r \in Replicas : WriteBronze(r) \/ WriteDlq(r)
    BY <1>1 DEF Next, Advance, Publish, Expire, StartQuery, PlanBatch, SkipEmptyBatch,
         CommitBatch, IdleTrigger, PlanConflict, CommitConflict, Terminate, vars, tables
  <2> QED BY <2>1, <2>2
<1>2. LoneInv /\ [Next]_vars =>
        [\A row \in (bronze' \ bronze) \cup (dlq' \ dlq) :
           Committed[row.record[1]] < row.record[2]]_vars
  BY <1>1
<1> QED BY <1>2, LoneInvAlways, PTL DEF Spec, NoRewriteAfterCommit

=============================================================================
