---------------------------- MODULE GoldJobProofs -----------------------------
(***************************************************************************)
(* What the Gold job and the loader next to it guarantee for any number of *)
(* runners, runs and loads, and whatever Silver does in between.           *)
(***************************************************************************)
EXTENDS SnowflakeLoader, FiniteSetTheorems, TLAPS

-----------------------------------------------------------------------------
(* Types.                                                                  *)

AllFacts == {Facts(t, rows) : t \in Tables, rows \in SUBSET (Events \X (1 .. MaxCopies))}
Writes   == [facts : AllFacts, from : Nat, seen : (SUBSET Tables) \X Nat]
Active   == [pc : {"ready", "writing", "done"}, date : Days, at : 1 .. 3, began : Nat,
             vacuous : SUBSET Tables, write : {NoWrite} \cup Writes]

Typed ==
  /\ version \in Nat
  /\ gold \in [Tables -> [Days -> AllFacts \cup {NoFacts}]]
  /\ from \in [Tables -> [Days -> Nat]]
  /\ touched \in [Tables -> [Days -> Nat]]
  /\ run \in [Runners -> {Idle} \cup Active]
  /\ \A s \in Runners : run[s].pc = "writing" => run[s].write \in Writes

(* WriteOrder lists the three tables, each once.                           *)
LEMMA Order ==
  /\ Len(WriteOrder) = 3
  /\ \A i \in 1 .. 3 : WriteOrder[i] \in Tables
  /\ \A t \in Tables : \E i \in 1 .. 3 : WriteOrder[i] = t
  /\ \A i, j \in 1 .. 3 : WriteOrder[i] = WriteOrder[j] => i = j
BY DEF WriteOrder, Tables

(* A runner that is not idle has a run with all its fields.                *)
LEMMA IsActive ==
  ASSUME Typed, NEW s \in Runners, run[s].pc \in {"ready", "writing", "done"}
  PROVE  run[s] \in Active
BY DEF Typed, Idle

(* The table and the day of a run under way.                               *)
LEMMA TargetTyped ==
  ASSUME Typed, NEW s \in Runners, run[s].pc \in {"ready", "writing", "done"}
  PROVE  Target(s) \in Tables /\ run[s].date \in Days
<1>1. run[s] \in Active
  BY IsActive
<1> QED
  BY <1>1, Order DEF Target, Active

(* What each action does to the runs.                                      *)
LEMMA StartStep ==
  ASSUME Typed, NEW s \in Runners, NEW d \in Days, Start(s, d)
  PROVE  /\ run'[s] = [pc |-> "ready", date |-> d, at |-> 1, began |-> version,
                       vacuous |-> {}, write |-> NoWrite]
         /\ \A r \in Runners : r # s => run'[r] = run[r]
         /\ run' \in [Runners -> {Idle} \cup Active]
         /\ UNCHANGED <<version, exists, gold, from, touched>>
BY DEF Typed, Start, silverVars, goldVars, Active

(* A write begins: facts of the present Silver, and what it saw.           *)
LEMMA BeginWriteStep ==
  ASSUME Typed, NEW s \in Runners, BeginWrite(s)
  PROVE  /\ run[s] \in Active /\ run[s].pc = "ready"
         /\ run'[s] = [pc |-> "writing", date |-> run[s].date, at |-> run[s].at,
                       began |-> run[s].began, vacuous |-> run[s].vacuous,
                       write |-> [facts |-> Facts(Target(s), DayRows(run[s].date)),
                                  from |-> version,
                                  seen |-> Seen(Target(s), run[s].date)]]
         /\ \A r \in Runners : r # s => run'[r] = run[r]
         /\ run' \in [Runners -> {Idle} \cup Active]
         /\ run'[s].write \in Writes
         /\ UNCHANGED <<version, exists, gold, from, touched>>
<1> DEFINE w == [facts |-> Facts(Target(s), DayRows(run[s].date)), from |-> version,
                 seen |-> Seen(Target(s), run[s].date)]
<1>1. run[s] \in Active /\ run[s].pc = "ready"
  BY IsActive DEF BeginWrite
<1>2. Target(s) \in Tables /\ run[s].date \in Days
  BY <1>1, TargetTyped
<1>3. DayRows(run[s].date) \in SUBSET (Events \X (1 .. MaxCopies))
  BY DEF DayRows
<1>4. w.facts \in AllFacts
  BY <1>2, <1>3 DEF AllFacts
<1>5. Seen(Target(s), run[s].date) \in (SUBSET Tables) \X Nat
  BY <1>2 DEF Seen, Typed
<1>6. w \in Writes
  BY <1>4, <1>5 DEF Writes, Typed
<1>7. run' = [run EXCEPT ![s].pc = "writing", ![s].write = w]
  BY DEF BeginWrite
<1> HIDE DEF w
<1>8. run'[s] = [run[s] EXCEPT !.pc = "writing", !.write = w]
  BY <1>7 DEF Typed
<1>9. run'[s] = [pc |-> "writing", date |-> run[s].date, at |-> run[s].at,
                 began |-> run[s].began, vacuous |-> run[s].vacuous, write |-> w]
  BY <1>1, <1>8 DEF Active
<1>10. run'[s] \in Active
  BY <1>1, <1>6, <1>9 DEF Active
<1>11. run' \in [Runners -> {Idle} \cup Active] /\ \A r \in Runners : r # s => run'[r] = run[r]
  BY <1>7, <1>10 DEF Typed
<1>12. run'[s].write \in Writes
  BY <1>6, <1>9
<1>13. UNCHANGED <<version, exists, gold, from, touched>>
  BY DEF BeginWrite, silverVars, goldVars
<1> QED
  BY <1>1, <1>9, <1>11, <1>12, <1>13 DEF w

(* A commit replaces one partition, and moves the run to its next table.   *)
LEMMA CommitStep ==
  ASSUME Typed, NEW s \in Runners, CommitWrite(s)
  PROVE  LET t == Target(s)
             d == run[s].date
             w == run[s].write
             empty == gold[t][d] = NoFacts /\ w.facts = NoFacts
         IN
         /\ run[s] \in Active /\ run[s].pc = "writing" /\ w \in Writes /\ t \in Tables /\ d \in Days
         /\ Unchallenged(s)
         /\ run'[s] = [pc |-> IF run[s].at = 3 THEN "done" ELSE "ready", date |-> d,
                       at |-> IF run[s].at = 3 THEN 3 ELSE run[s].at + 1,
                       began |-> run[s].began,
                       vacuous |-> IF empty THEN run[s].vacuous \cup {t} ELSE run[s].vacuous,
                       write |-> NoWrite]
         /\ run'[s].pc # "writing"
         /\ \A r \in Runners : r # s => run'[r] = run[r]
         /\ run' \in [Runners -> {Idle} \cup Active]
         /\ version' = version
         /\ gold' = [gold EXCEPT ![t][d] = w.facts]
         /\ from' = [from EXCEPT ![t][d] = w.from]
         /\ touched' = [touched EXCEPT ![t][d] = IF empty THEN @ ELSE @ + 1]
<1> DEFINE t == Target(s)
           d == run[s].date
           w == run[s].write
           empty == gold[t][d] = NoFacts /\ w.facts = NoFacts
           last == run[s].at = 3
<1>1. run[s] \in Active /\ run[s].pc = "writing" /\ w \in Writes
  BY IsActive DEF CommitWrite, Typed
<1>2. t \in Tables /\ d \in Days
  BY <1>1, TargetTyped
<1>3. run' = [run EXCEPT ![s].pc = IF last THEN "done" ELSE "ready",
                         ![s].at = IF last THEN @ ELSE @ + 1,
                         ![s].vacuous = IF empty THEN @ \cup {t} ELSE @,
                         ![s].write = NoWrite]
  BY Order DEF CommitWrite
<1>4. /\ version' = version
      /\ Unchallenged(s)
      /\ gold' = [gold EXCEPT ![t][d] = w.facts]
      /\ from' = [from EXCEPT ![t][d] = w.from]
      /\ touched' = [touched EXCEPT ![t][d] = IF empty THEN @ ELSE @ + 1]
  BY DEF CommitWrite, silverVars
<1> HIDE DEF t, d, w, empty, last
<1>5. run'[s] = [run[s] EXCEPT !.pc = IF last THEN "done" ELSE "ready",
                               !.at = IF last THEN run[s].at ELSE run[s].at + 1,
                               !.vacuous = IF empty THEN run[s].vacuous \cup {t} ELSE run[s].vacuous,
                               !.write = NoWrite]
  BY <1>3, <1>1 DEF Typed, Active
<1>6. run'[s] = [pc |-> IF last THEN "done" ELSE "ready", date |-> d,
                 at |-> IF last THEN run[s].at ELSE run[s].at + 1,
                 began |-> run[s].began,
                 vacuous |-> IF empty THEN run[s].vacuous \cup {t} ELSE run[s].vacuous,
                 write |-> NoWrite]
  BY <1>1, <1>5 DEF Active, d
<1>7. run'[s] \in Active
  <2>1. run[s].at \in 1 .. 3 /\ run[s].began \in Nat /\ run[s].vacuous \in SUBSET Tables
    BY <1>1 DEF Active
  <2>2. (IF last THEN run[s].at ELSE run[s].at + 1) \in 1 .. 3
    BY <2>1 DEF last
  <2>3. (IF empty THEN run[s].vacuous \cup {t} ELSE run[s].vacuous) \in SUBSET Tables
    BY <1>2, <2>1
  <2> QED
    BY <1>2, <1>6, <2>1, <2>2, <2>3 DEF Active
<1>8. run' \in [Runners -> {Idle} \cup Active] /\ \A r \in Runners : r # s => run'[r] = run[r]
  BY <1>3, <1>7 DEF Typed
<1>9. run'[s].pc # "writing"
  BY <1>6
<1> QED
  BY <1>1, <1>2, <1>4, <1>6, <1>8, <1>9 DEF t, d, w, empty, last

(* However a run ends, it leaves the tables alone.                         *)
LEMMA EndStep ==
  ASSUME Typed, NEW s \in Runners, End(s)
  PROVE  /\ run'[s] = Idle
         /\ \A r \in Runners : r # s => run'[r] = run[r]
         /\ run' \in [Runners -> {Idle} \cup Active]
         /\ UNCHANGED <<version, exists, gold, from, touched>>
BY DEF Typed, End, silverVars, goldVars

(* Silver moves on by one commit; the job and its tables are untouched.    *)
LEMMA SilverStep ==
  ASSUME Typed, SilverChanges
  PROVE  version' = version + 1 /\ UNCHANGED <<exists, gold, from, touched, run>>
BY DEF SilverChanges, Silver!Next, Silver!Put, Silver!Replace, goldVars, job

-----------------------------------------------------------------------------
(* Freshness.                                                              *)

(* The writes under way to a table, for the day of s.                      *)
Rivals(s, t) ==
  {r \in Runners : run[r].pc = "writing" /\ Target(r) = t /\ run[r].date = run[s].date}

(* Tables that a run has written.                                          *)
Written(s) ==
  IF run[s].pc = "done" THEN Tables
  ELSE IF run[s].pc \in {"ready", "writing"} THEN {WriteOrder[i] : i \in 1 .. run[s].at - 1}
  ELSE {}

(* No file of the partition has been added or removed since the write      *)
(* began: weaker than Unchallenged.                                        *)
Current(s) == run[s].write.seen[2] = touched[Target(s)][run[s].date]

(* Nothing is newer than Silver, and counters of commits only grow.        *)
Clocks ==
  /\ \A t \in Tables, d \in Days : from[t][d] <= version
  /\ \A s \in Runners : run[s] # Idle => run[s].began <= version
  /\ \A s \in Runners : run[s].pc = "writing" =>
       /\ run[s].began <= run[s].write.from
       /\ run[s].write.from <= version
       /\ run[s].write.seen[2] <= touched[Target(s)][run[s].date]

(* A write that would still be accepted does not go back behind what the   *)
(* partition holds.                                                        *)
NotBehind ==
  \A s \in Runners : run[s].pc = "writing" /\ Current(s) =>
    \/ from[Target(s)][run[s].date] <= run[s].write.from
    \/ gold[Target(s)][run[s].date] = NoFacts

(* What a run has written for its day is as new as the run, and will be    *)
(* after any write that is under way and would be accepted.                *)
StaysFresh ==
  \A s \in Runners : \A t \in Written(s) : t \notin run[s].vacuous =>
    /\ from[t][run[s].date] >= run[s].began
    /\ \A r \in Rivals(s, t) : Current(r) => run[r].write.from >= run[s].began

FreshInv == Typed /\ Clocks /\ NotBehind /\ StaysFresh

(* The freshness invariant holds before any run.                           *)
LEMMA FreshInit == Init => FreshInv
<1> SUFFICES ASSUME Init PROVE FreshInv
  OBVIOUS
<1>1. \A s \in Runners : run[s] = Idle /\ run[s].pc = "idle"
  BY DEF Init, Idle
<1>2. version = 0
  BY DEF Init, Silver!Init
<1>3. Typed
  BY <1>1, <1>2 DEF Init, Typed
<1>4. Clocks
  BY <1>1, <1>2 DEF Clocks, Init
<1>5. NotBehind /\ StaysFresh
  BY <1>1 DEF NotBehind, StaysFresh, Written
<1> QED
  BY <1>3, <1>4, <1>5 DEF FreshInv

(* Only a run under way, or done, has written anything.                    *)
LEMMA WrittenTables ==
  ASSUME Typed, NEW s \in Runners
  PROVE  /\ Written(s) \subseteq Tables
         /\ Written(s) # {} => run[s] \in Active
<1>1. CASE run[s] \in Active
  BY <1>1, Order DEF Written, Active
<1>2. CASE run[s] = Idle
  BY <1>2 DEF Written, Idle
<1> QED
  BY <1>1, <1>2 DEF Typed

(* A change of Silver keeps it: only version moves, and upwards.           *)
LEMMA FreshSilver ==
  ASSUME FreshInv, SilverChanges
  PROVE  FreshInv'
<1>1. version' = version + 1 /\ UNCHANGED <<exists, gold, from, touched, run>>
  BY SilverStep DEF FreshInv
<1>2. Typed'
  BY <1>1 DEF FreshInv, Typed
<1>3. Clocks'
  <2>1. \A s \in Runners : run[s].pc = "writing" => run[s].write.from \in Nat
    BY DEF FreshInv, Typed, Writes
  <2>2. \A s \in Runners : run[s] # Idle => run[s].began \in Nat
    BY DEF FreshInv, Typed, Active
  <2> QED
    BY <1>1, <2>1, <2>2 DEF FreshInv, Typed, Clocks, Target
<1>4. NotBehind' /\ StaysFresh'
  BY <1>1 DEF FreshInv, NotBehind, StaysFresh, Written, Rivals, Current, Target
<1> QED
  BY <1>2, <1>3, <1>4 DEF FreshInv

(* A runner that begins, or ends, is not writing and has written nothing;  *)
(* the others are as they were.                                            *)
LEMMA FreshQuiet ==
  ASSUME FreshInv, NEW s \in Runners,
         run' \in [Runners -> {Idle} \cup Active],
         run'[s].pc # "writing", Written(s)' = {},
         run'[s] # Idle => run'[s].began <= version,
         \A r \in Runners : r # s => run'[r] = run[r],
         UNCHANGED <<version, exists, gold, from, touched>>
  PROVE  FreshInv'
<1>1. Typed'
  BY DEF FreshInv, Typed
<1>2. Clocks'
  BY DEF FreshInv, Clocks, Target
<1>3. NotBehind'
  BY DEF FreshInv, NotBehind, Current, Target
<1>4. StaysFresh'
  BY DEF FreshInv, StaysFresh, Written, Rivals, Current, Target
<1> QED
  BY <1>1, <1>2, <1>3, <1>4 DEF FreshInv

(* A write that begins is as new as Silver, hence as any run.              *)
LEMMA FreshBeginWrite ==
  ASSUME FreshInv, NEW s \in Runners, BeginWrite(s)
  PROVE  FreshInv'
<1> DEFINE t == Target(s)
           d == run[s].date
<1>1. /\ run[s] \in Active /\ run[s].pc = "ready"
      /\ run'[s].pc = "writing" /\ run'[s].date = d /\ run'[s].at = run[s].at
      /\ run'[s].began = run[s].began /\ run'[s].vacuous = run[s].vacuous
      /\ run'[s].write.from = version /\ run'[s].write.seen = Seen(t, d)
      /\ run'[s] # Idle /\ run[s] # Idle
  <2>1. Typed
    BY DEF FreshInv
  <2>2. /\ run[s] \in Active /\ run[s].pc = "ready"
        /\ run'[s] = [pc |-> "writing", date |-> run[s].date, at |-> run[s].at,
                      began |-> run[s].began, vacuous |-> run[s].vacuous,
                      write |-> [facts |-> Facts(Target(s), DayRows(run[s].date)),
                                 from |-> version,
                                 seen |-> Seen(Target(s), run[s].date)]]
    BY <2>1, BeginWriteStep, Zenon
  <2>3. run[s] # Idle /\ run'[s] # Idle
    BY <2>2 DEF Idle
  <2> QED
    BY <2>2, <2>3
<1>2. /\ \A r \in Runners : r # s => run'[r] = run[r]
      /\ run' \in [Runners -> {Idle} \cup Active]
      /\ run'[s].write \in Writes
      /\ UNCHANGED <<version, exists, gold, from, touched>>
  BY BeginWriteStep DEF FreshInv
<1>3. t \in Tables /\ d \in Days
  BY <1>1, TargetTyped DEF FreshInv
<1>4. Target(s)' = t /\ run'[s].write.seen[2] = touched[t][d]
  BY <1>1 DEF Target, Seen
<1>5. Typed'
  BY <1>2 DEF FreshInv, Typed
<1>6. Clocks'
  <2>1. ASSUME NEW r \in Runners, run'[r] # Idle PROVE run'[r].began <= version
    BY <1>1, <1>2, <2>1 DEF FreshInv, Clocks
  <2>2. ASSUME NEW r \in Runners, run'[r].pc = "writing"
        PROVE  /\ run'[r].began <= run'[r].write.from
               /\ run'[r].write.from <= version
               /\ run'[r].write.seen[2] <= touched[Target(r)'][run'[r].date]
    <3>1. CASE r = s
      BY <1>1, <1>3, <1>4, <3>1 DEF FreshInv, Clocks, Typed
    <3>2. CASE r # s
      BY <1>2, <2>2, <3>2 DEF FreshInv, Clocks, Target
    <3> QED
      BY <3>1, <3>2
  <2> QED
    BY <1>2, <2>1, <2>2 DEF FreshInv, Clocks
<1>7. NotBehind'
  <2> SUFFICES ASSUME NEW r \in Runners, run'[r].pc = "writing", Current(r)'
               PROVE  \/ from[Target(r)'][run'[r].date] <= run'[r].write.from
                      \/ gold[Target(r)'][run'[r].date] = NoFacts
    BY <1>2 DEF NotBehind
  <2>1. CASE r = s
    BY <1>1, <1>3, <1>4, <2>1 DEF FreshInv, Clocks
  <2>2. CASE r # s
    BY <1>2, <2>2 DEF FreshInv, NotBehind, Current, Target
  <2> QED
    BY <2>1, <2>2
<1>8. StaysFresh'
  <2>1. \A x \in Runners : /\ Written(x)' = Written(x)
                           /\ run'[x].vacuous = run[x].vacuous
                           /\ run'[x].date = run[x].date
                           /\ run'[x].began = run[x].began
    BY <1>1, <1>2 DEF Written
  <2> SUFFICES ASSUME NEW x \in Runners, NEW u \in Written(x), u \notin run[x].vacuous
               PROVE  /\ from[u][run[x].date] >= run[x].began
                      /\ \A r \in Rivals(x, u)' : Current(r)' => run'[r].write.from >= run[x].began
    BY <1>2, <2>1 DEF StaysFresh
  <2>2. from[u][run[x].date] >= run[x].began
    BY DEF FreshInv, StaysFresh
  <2>3. ASSUME NEW r \in Rivals(x, u)', Current(r)'
        PROVE  run'[r].write.from >= run[x].began
    <3>0. r \in Runners
      BY DEF Rivals
    <3>1. CASE r = s
      <4>1. run[x] \in Active
        BY WrittenTables DEF FreshInv
      <4>2. run[x] # Idle
        BY <4>1 DEF Active, Idle
      <4> QED
        BY <1>1, <3>1, <4>1, <4>2 DEF FreshInv, Clocks, Typed, Active
    <3>2. CASE r # s
      <4>1. run'[r] = run[r] /\ touched' = touched
        BY <1>2, <3>0, <3>2
      <4>2. r \in Rivals(x, u) /\ Current(r)
        BY <2>1, <2>3, <4>1 DEF Rivals, Current, Target
      <4> QED
        BY <4>1, <4>2 DEF FreshInv, StaysFresh
    <3> QED
      BY <3>1, <3>2
  <2> QED
    BY <2>2, <2>3
<1> QED
  BY <1>5, <1>6, <1>7, <1>8 DEF FreshInv

(* A commit keeps it, and does not go back: a rival that began before it   *)
(* is no longer current, unless the commit replaced nothing by nothing.    *)
LEMMA FreshCommit ==
  ASSUME FreshInv, NEW s \in Runners, CommitWrite(s)
  PROVE  /\ FreshInv'
         /\ from'[Target(s)][run[s].date] < from[Target(s)][run[s].date] =>
              gold[Target(s)][run[s].date] = NoFacts
<1> DEFINE t == Target(s)
           d == run[s].date
           w == run[s].write
           empty == gold[t][d] = NoFacts /\ w.facts = NoFacts
<1>0. Typed /\ Clocks /\ NotBehind /\ StaysFresh
  BY DEF FreshInv
<1>1. /\ run[s] \in Active /\ run[s].pc = "writing" /\ w \in Writes /\ t \in Tables /\ d \in Days
      /\ Unchallenged(s)
      /\ run'[s] = [pc |-> IF run[s].at = 3 THEN "done" ELSE "ready", date |-> d,
                    at |-> IF run[s].at = 3 THEN 3 ELSE run[s].at + 1,
                    began |-> run[s].began,
                    vacuous |-> IF empty THEN run[s].vacuous \cup {t} ELSE run[s].vacuous,
                    write |-> NoWrite]
      /\ \A r \in Runners : r # s => run'[r] = run[r]
      /\ run' \in [Runners -> {Idle} \cup Active]
      /\ version' = version
      /\ gold' = [gold EXCEPT ![t][d] = w.facts]
      /\ from' = [from EXCEPT ![t][d] = w.from]
      /\ touched' = [touched EXCEPT ![t][d] = IF empty THEN @ ELSE @ + 1]
  BY <1>0, CommitStep
<1>2. Current(s)
  BY <1>1 DEF Unchallenged, Seen, Current
<1>3. w.from \in Nat /\ run[s].began <= w.from /\ w.from <= version /\ run[s].began \in Nat
  BY <1>0, <1>1 DEF Clocks, Writes, Active
<1>4. from[t][d] <= w.from \/ gold[t][d] = NoFacts
  BY <1>0, <1>1, <1>2 DEF NotBehind
<1>5. /\ run'[s].pc # "writing" /\ run'[s].date = d /\ run'[s].began = run[s].began
      /\ run'[s].vacuous = IF empty THEN run[s].vacuous \cup {t} ELSE run[s].vacuous
  BY <1>1
<1>6. /\ from'[t][d] = w.from /\ gold'[t][d] = w.facts
      /\ touched'[t][d] = IF empty THEN touched[t][d] ELSE touched[t][d] + 1
      /\ \A u \in Tables, e \in Days : u # t \/ e # d =>
           from'[u][e] = from[u][e] /\ gold'[u][e] = gold[u][e] /\ touched'[u][e] = touched[u][e]
      /\ \A u \in Tables, e \in Days :
           touched[u][e] \in Nat /\ touched'[u][e] \in Nat /\ touched[u][e] <= touched'[u][e]
  <2>1. from'[t][d] = w.from /\ gold'[t][d] = w.facts
    BY <1>0, <1>1 DEF Typed
  <2>2. touched'[t][d] = IF empty THEN touched[t][d] ELSE touched[t][d] + 1
    BY <1>0, <1>1 DEF Typed
  <2>3. \A u \in Tables, e \in Days : u # t \/ e # d =>
          from'[u][e] = from[u][e] /\ gold'[u][e] = gold[u][e] /\ touched'[u][e] = touched[u][e]
    BY <1>0, <1>1 DEF Typed
  <2>4. \A u \in Tables, e \in Days : touched[u][e] \in Nat
    BY <1>0 DEF Typed
  <2> QED
    BY <2>1, <2>2, <2>3, <2>4
<1> HIDE DEF t, d, w, empty
<1>7. ASSUME NEW r \in Runners, r # s, run[r].pc = "writing"
      PROVE  /\ Target(r)' = Target(r) /\ run'[r] = run[r]
             /\ Target(r) \in Tables /\ run[r].date \in Days
             /\ run[r].write \in Writes
             /\ Current(r)' => Current(r) /\ (Target(r) = t /\ run[r].date = d => empty)
  <2>1. Target(r)' = Target(r) /\ run'[r] = run[r]
    BY <1>1, <1>7 DEF Target
  <2>2. Target(r) \in Tables /\ run[r].date \in Days /\ run[r].write \in Writes
    BY <1>0, <1>7, TargetTyped DEF Typed
  <2>3. run[r].write.seen[2] \in Nat /\ run[r].write.seen[2] <= touched[Target(r)][run[r].date]
    BY <1>0, <1>7, <2>2 DEF Clocks, Writes
  <2>4. Current(r)' => Current(r) /\ (Target(r) = t /\ run[r].date = d => empty)
    BY <1>6, <2>1, <2>2, <2>3 DEF Current
  <2> QED
    BY <2>1, <2>2, <2>4
<1>8. Typed'
  <2>1. gold' \in [Tables -> [Days -> AllFacts \cup {NoFacts}]]
    <3>1. w.facts \in AllFacts
      BY <1>1 DEF Writes
    <3> QED
      BY <1>0, <1>1, <3>1 DEF Typed
  <2>2. from' \in [Tables -> [Days -> Nat]] /\ touched' \in [Tables -> [Days -> Nat]]
    BY <1>0, <1>1, <1>3 DEF Typed
  <2>3. \A r \in Runners : run'[r].pc = "writing" => run'[r].write \in Writes
    BY <1>1, <1>5, <1>7
  <2> QED
    BY <1>0, <1>1, <2>1, <2>2, <2>3 DEF Typed
<1>9. Clocks'
  <2>1. \A u \in Tables, e \in Days : from'[u][e] <= version
    BY <1>0, <1>3, <1>6 DEF Clocks
  <2>2. ASSUME NEW r \in Runners, run'[r] # Idle PROVE run'[r].began <= version
    <3>1. CASE r = s
      BY <1>0, <1>3, <1>5, <3>1 DEF Typed
    <3>2. CASE r # s
      BY <1>0, <1>1, <2>2, <3>2 DEF Clocks
    <3> QED
      BY <3>1, <3>2
  <2>3. ASSUME NEW r \in Runners, run'[r].pc = "writing"
        PROVE  /\ run'[r].began <= run'[r].write.from
               /\ run'[r].write.from <= version
               /\ run'[r].write.seen[2] <= touched'[Target(r)'][run'[r].date]
    <3>1. r # s /\ run'[r] = run[r] /\ run[r].pc = "writing"
      BY <1>1, <1>5, <2>3
    <3>2. /\ Target(r)' = Target(r) /\ Target(r) \in Tables /\ run[r].date \in Days
          /\ run[r].write.seen[2] \in Nat
      BY <1>7, <3>1 DEF Writes
    <3>3. run[r].write.seen[2] <= touched[Target(r)][run[r].date]
      BY <1>0, <3>1 DEF Clocks
    <3>4. run[r].write.seen[2] <= touched'[Target(r)][run[r].date]
      BY <1>6, <3>2, <3>3
    <3> QED
      BY <1>0, <3>1, <3>2, <3>4 DEF Clocks
  <2> QED
    BY <1>1, <2>1, <2>2, <2>3 DEF Clocks
<1>10. NotBehind'
  <2> SUFFICES ASSUME NEW r \in Runners, run'[r].pc = "writing", Current(r)'
               PROVE  \/ from'[Target(r)'][run'[r].date] <= run'[r].write.from
                      \/ gold'[Target(r)'][run'[r].date] = NoFacts
    BY DEF NotBehind
  <2>1. r # s /\ run'[r] = run[r] /\ run[r].pc = "writing"
    BY <1>1, <1>5
  <2>2. /\ Target(r)' = Target(r) /\ Current(r) /\ Target(r) \in Tables /\ run[r].date \in Days
        /\ Target(r) = t /\ run[r].date = d => empty
    BY <1>7, <2>1
  <2>3. CASE Target(r) = t /\ run[r].date = d
    BY <1>6, <2>1, <2>2, <2>3 DEF empty
  <2>4. CASE Target(r) # t \/ run[r].date # d
    BY <1>0, <1>6, <2>1, <2>2, <2>4 DEF NotBehind
  <2> QED
    BY <2>3, <2>4
<1>11. StaysFresh'
  <2> SUFFICES ASSUME NEW x \in Runners, NEW u \in Written(x)', u \notin run'[x].vacuous
               PROVE  /\ from'[u][run'[x].date] >= run'[x].began
                      /\ \A r \in Rivals(x, u)' : Current(r)' => run'[r].write.from >= run'[x].began
    BY DEF StaysFresh
  <2>0. ASSUME NEW r \in Rivals(x, u)', Current(r)'
        PROVE  /\ r \in Runners /\ run[r].pc = "writing" /\ Target(r) = u
               /\ run[r].date = run'[x].date /\ Current(r) /\ run'[r] = run[r]
               /\ u = t /\ run'[x].date = d => empty
    <3>1. /\ r \in Runners /\ run'[r].pc = "writing" /\ Target(r)' = u
          /\ run'[r].date = run'[x].date
      BY DEF Rivals
    <3>2. r # s /\ run'[r] = run[r] /\ run[r].pc = "writing"
      BY <1>1, <1>5, <3>1
    <3> QED
      BY <1>7, <2>0, <3>1, <3>2
  <2>1. CASE x = s /\ u \notin Written(s)
    <3>1. u = t
      <4>1. run'[s].at = IF run[s].at = 3 THEN 3 ELSE run[s].at + 1
        BY <1>1
      <4>2. run'[s].pc = IF run[s].at = 3 THEN "done" ELSE "ready"
        BY <1>1
      <4>3. run[s].at \in 1 .. 3 /\ t = WriteOrder[run[s].at]
        BY <1>1 DEF Active, t, Target
      <4>4. u \in Tables => \E i \in 1 .. 3 : WriteOrder[i] = u
        BY Order
      <4> QED
        BY <1>1, <2>1, <4>1, <4>2, <4>3, <4>4 DEF Written
    <3>2. ~ empty
      BY <1>5, <2>1, <3>1
    <3>3. from'[u][run'[x].date] >= run'[x].began
      BY <1>3, <1>5, <1>6, <2>1, <3>1
    <3>4. ASSUME NEW r \in Rivals(x, u)', Current(r)'
          PROVE  FALSE
      BY <1>5, <2>0, <2>1, <3>1, <3>2, <3>4
    <3> QED
      BY <3>3, <3>4
  <2>2. CASE u \in Written(x) /\ u \notin run[x].vacuous
    <3>1. run'[x].date = run[x].date /\ run'[x].began = run[x].began
      BY <1>1, <1>5 DEF d
    <3>2. run[x] \in Active /\ u \in Tables
      BY <1>0, <2>2, WrittenTables
    <3>3. from[u][run[x].date] >= run[x].began
      BY <1>0, <2>2 DEF StaysFresh
    <3>4. u = t /\ run[x].date = d => w.from >= run[x].began
      <4>1. u = t /\ run[x].date = d => s \in Rivals(x, u)
        BY <1>1 DEF Rivals, t, d
      <4> QED
        BY <1>0, <1>2, <2>2, <4>1 DEF StaysFresh, w
    <3>5. from'[u][run[x].date] >= run[x].began
      <4>1. run[x].date \in Days
        BY <3>2 DEF Active
      <4> QED
        BY <1>6, <3>2, <3>3, <3>4, <4>1
    <3>6. ASSUME NEW r \in Rivals(x, u)', Current(r)'
          PROVE  run'[r].write.from >= run[x].began
      <4>1. r \in Rivals(x, u) /\ Current(r) /\ run'[r] = run[r]
        BY <2>0, <3>1, <3>6 DEF Rivals
      <4> QED
        BY <1>0, <2>2, <4>1 DEF StaysFresh
    <3> QED
      BY <3>1, <3>5, <3>6
  <2>3. x # s => u \in Written(x) /\ u \notin run[x].vacuous
    BY <1>1 DEF Written
  <2>4. x = s => u \notin run[x].vacuous
    BY <1>5
  <2> QED
    BY <2>1, <2>2, <2>3, <2>4
<1>12. FreshInv'
  BY <1>8, <1>9, <1>10, <1>11 DEF FreshInv
<1>13. from'[t][d] < from[t][d] => gold[t][d] = NoFacts
  <2>1. from[t][d] \in Nat
    BY <1>0, <1>1 DEF Typed
  <2> QED
    BY <1>3, <1>4, <1>6, <2>1
<1> QED
  BY <1>12, <1>13 DEF t, d

(* Every step of one runner keeps it.                                      *)
LEMMA FreshStep ==
  ASSUME FreshInv, NEW s \in Runners, Step(s) \/ \E d \in Days : Start(s, d)
  PROVE  FreshInv'
<1>0. Typed
  BY DEF FreshInv
<1>1. CASE BeginWrite(s)
  BY <1>1, FreshBeginWrite
<1>2. CASE CommitWrite(s)
  BY <1>2, FreshCommit
<1>3. ASSUME NEW d \in Days, Start(s, d) PROVE FreshInv'
  <2>1. /\ run'[s] = [pc |-> "ready", date |-> d, at |-> 1, began |-> version,
                      vacuous |-> {}, write |-> NoWrite]
        /\ \A r \in Runners : r # s => run'[r] = run[r]
        /\ run' \in [Runners -> {Idle} \cup Active]
        /\ UNCHANGED <<version, exists, gold, from, touched>>
    BY <1>0, <1>3, StartStep
  <2>2. run'[s].pc # "writing" /\ run'[s].began <= version
    BY <1>0, <2>1 DEF Typed
  <2>3. Written(s)' = {}
    <3>1. run'[s].pc = "ready" /\ run'[s].at = 1
      BY <2>1
    <3> QED
      BY <3>1 DEF Written
  <2> QED
    BY <2>1, <2>2, <2>3, FreshQuiet
<1>4. CASE WriteRaises(s) \/ Finish(s) \/ Crash(s)
  <2>1. End(s)
    BY <1>4 DEF WriteRaises, Finish, Crash
  <2>2. /\ run'[s] = Idle
        /\ \A r \in Runners : r # s => run'[r] = run[r]
        /\ run' \in [Runners -> {Idle} \cup Active]
        /\ UNCHANGED <<version, exists, gold, from, touched>>
    BY <1>0, <2>1, EndStep
  <2>3. run'[s].pc = "idle"
    BY <2>2 DEF Idle
  <2>4. Written(s)' = {}
    BY <2>3 DEF Written
  <2> QED
    BY <2>2, <2>3, <2>4, FreshQuiet
<1> QED
  BY <1>1, <1>2, <1>3, <1>4 DEF Step

(* Every step of the system keeps it.                                      *)
LEMMA FreshNext == FreshInv /\ [Next]_vars => FreshInv'
<1> SUFFICES ASSUME FreshInv, [Next]_vars PROVE FreshInv'
  OBVIOUS
<1>1. CASE SilverChanges
  BY <1>1, FreshSilver
<1>2. CASE \E s \in Runners : Step(s) \/ \E d \in Days : Start(s, d)
  BY <1>2, FreshStep
<1>3. CASE UNCHANGED vars
  BY <1>3 DEF FreshInv, Typed, Clocks, NotBehind, StaysFresh, Written, Rivals, Current, Target,
              vars, silverVars, goldVars, job
<1> QED
  BY <1>1, <1>2, <1>3 DEF Next

(* The freshness invariant holds in every behaviour of the job.            *)
THEOREM SpecFresh == Spec => []FreshInv
BY FreshInit, FreshNext, PTL DEF Spec

(* A run that completes leaves the three partitions of its day at least as *)
(* new as the Silver it began with, however many runs overlap with it or   *)
(* died before it: RunLeavesFresh, for any number of runners and commits.  *)
THEOREM CompletedRunIsFresh == Spec => []RunLeavesFresh
<1>1. FreshInv => RunLeavesFresh
  <2> SUFFICES ASSUME FreshInv, NEW s \in Runners, run[s].pc = "done", NEW t \in Tables,
                      t \notin run[s].vacuous
               PROVE  from[t][run[s].date] >= run[s].began
    BY DEF RunLeavesFresh
  <2>1. t \in Written(s)
    BY DEF Written
  <2> QED
    BY <2>1 DEF FreshInv, StaysFresh
<1> QED
  BY <1>1, SpecFresh, PTL

(* No step of the job, of Silver or of a crash puts facts of an older      *)
(* Silver in place of newer ones, except in an empty partition.            *)
THEOREM GoldNeverGoesBack == Spec => NeverOlder
<1> DEFINE Later == \A t \in Tables, d \in Days : from'[t][d] < from[t][d] => gold[t][d] = NoFacts
<1>1. FreshInv /\ [Next]_vars => [Later]_vars
  <2> SUFFICES ASSUME FreshInv, Next PROVE Later
    BY DEF Later
  <2>0. Typed
    BY DEF FreshInv
  <2>1. ASSUME from' = from PROVE Later
    BY <2>0, <2>1 DEF Typed
  <2>2. CASE SilverChanges
    BY <2>1, <2>2 DEF SilverChanges, goldVars
  <2>3. ASSUME NEW s \in Runners, Step(s) \/ \E d \in Days : Start(s, d) PROVE Later
    <3>1. CASE CommitWrite(s)
      <4>1. /\ Target(s) \in Tables /\ run[s].date \in Days
            /\ from' = [from EXCEPT ![Target(s)][run[s].date] = run[s].write.from]
        BY <2>0, <3>1, CommitStep
      <4>2. from'[Target(s)][run[s].date] < from[Target(s)][run[s].date] =>
              gold[Target(s)][run[s].date] = NoFacts
        BY <3>1, FreshCommit
      <4>3. \A t \in Tables, d \in Days : t # Target(s) \/ d # run[s].date =>
              from'[t][d] = from[t][d] /\ from[t][d] \in Nat
        BY <2>0, <4>1 DEF Typed
      <4> QED
        BY <4>2, <4>3
    <3>2. CASE ~ CommitWrite(s)
      BY <2>1, <2>3, <3>2 DEF Step, Start, BeginWrite, WriteRaises, Finish, Crash, End, goldVars
    <3> QED
      BY <3>1, <3>2
  <2> QED
    BY <2>2, <2>3 DEF Next
<1> QED
  BY <1>1, SpecFresh, PTL DEF Spec, NeverOlder

-----------------------------------------------------------------------------
(* The 48 hours of the SLA.                                                *)

NoLate(f) == \A g \in DOMAIN f : g[2] # "LATE"

(* Two times of one day are less than 24 hours apart.                      *)
LEMMA SameDay ==
  ASSUME NEW a \in Nat, NEW b \in Nat, a \div 24 = b \div 24
  PROVE  a - b <= 48
OBVIOUS

(* The scorecard computed from the rows of one day has no late order.      *)
LEMMA DayIsNeverLate ==
  ASSUME NEW d \in Days
  PROVE  NoLate(DailySla(DayRows(d)))
<1> DEFINE rows == DayRows(d)
<1>1. ASSUME NEW p \in rows, NEW q \in rows
      PROVE  q[1].time - p[1].time <= 48
  <2>1. p[1] \in Events /\ q[1] \in Events /\ DayOf[p[1]] = DayOf[q[1]]
    BY DEF DayRows
  <2>2. p[1].time \in Nat /\ q[1].time \in Nat /\ p[1].time \div 24 = q[1].time \div 24
    BY <2>1, GoldJobAssumption DEF DayOf
  <2> QED
    BY <2>2, SameDay
<1>2. ASSUME NEW f \in Fulfillment(rows)
      PROVE  DeliveryStatus(f[1], f[2]) # "LATE"
  <2>1. \E p \in rows : f[1] = p /\ (f[2] = "none" \/ f[2] \in rows)
    BY DEF Fulfillment, OfType
  <2>2. f[2] = "none" \/ f[2][1].time - f[1][1].time <= 48
    BY <1>1, <2>1
  <2> QED
    BY <2>2 DEF DeliveryStatus
<1>3. DOMAIN DailySla(rows) =
        {<<f[1][1].city, DeliveryStatus(f[1], f[2])>> : f \in Fulfillment(rows)}
  BY DEF DailySla, CountBy
<1> QED
  BY <1>2, <1>3 DEF NoLate

LateInv ==
  /\ Typed
  /\ NothingIsLate
  /\ \A s \in Runners : run[s].pc = "writing" /\ Target(s) = "fact_daily_sla" =>
       NoLate(run[s].write.facts)

(* No step of a runner puts one in, or computes one.                       *)
LEMMA LateStep ==
  ASSUME LateInv, FreshInv', NEW s \in Runners, Step(s) \/ \E d \in Days : Start(s, d)
  PROVE  LateInv'
<1>0. Typed /\ Typed'
  BY DEF LateInv, FreshInv
<1>1. CASE BeginWrite(s)
  <2>1. /\ run[s] \in Active /\ run[s].pc = "ready"
        /\ run'[s] = [pc |-> "writing", date |-> run[s].date, at |-> run[s].at,
                      began |-> run[s].began, vacuous |-> run[s].vacuous,
                      write |-> [facts |-> Facts(Target(s), DayRows(run[s].date)),
                                 from |-> version,
                                 seen |-> Seen(Target(s), run[s].date)]]
        /\ \A r \in Runners : r # s => run'[r] = run[r]
        /\ UNCHANGED <<version, exists, gold, from, touched>>
    BY <1>0, <1>1, BeginWriteStep
  <2>2. /\ run'[s].at = run[s].at
        /\ run'[s].write.facts = Facts(Target(s), DayRows(run[s].date))
        /\ run[s].date \in Days
    BY <2>1 DEF Active
  <2>3. Target(s)' = "fact_daily_sla" => NoLate(run'[s].write.facts)
    BY <2>2, DayIsNeverLate DEF Target, Facts
  <2> QED
    BY <1>0, <2>1, <2>3 DEF LateInv, NothingIsLate, NoLate, Target
<1>2. CASE CommitWrite(s)
  <2>1. /\ Target(s) \in Tables /\ run[s].date \in Days /\ run[s].pc = "writing"
        /\ run'[s].pc # "writing"
        /\ \A r \in Runners : r # s => run'[r] = run[r]
        /\ gold' = [gold EXCEPT ![Target(s)][run[s].date] = run[s].write.facts]
    BY <1>0, <1>2, CommitStep
  <2>2. ASSUME NEW d \in Days PROVE NoLate(gold'["fact_daily_sla"][d])
    <3>1. CASE Target(s) = "fact_daily_sla" /\ run[s].date = d
      <4>1. gold'["fact_daily_sla"][d] = run[s].write.facts
        BY <1>0, <2>1, <3>1 DEF Typed
      <4> QED
        BY <2>1, <3>1, <4>1 DEF LateInv
    <3>2. CASE Target(s) # "fact_daily_sla" \/ run[s].date # d
      <4>1. gold'["fact_daily_sla"][d] = gold["fact_daily_sla"][d]
        BY <1>0, <2>1, <3>2 DEF Typed, Tables
      <4> QED
        BY <4>1 DEF LateInv, NothingIsLate, NoLate
    <3> QED
      BY <3>1, <3>2
  <2> QED
    BY <1>0, <2>1, <2>2 DEF LateInv, NothingIsLate, NoLate, Target
<1>3. CASE (\E d \in Days : Start(s, d)) \/ WriteRaises(s) \/ Finish(s) \/ Crash(s)
  <2>1. /\ run'[s].pc # "writing"
        /\ \A r \in Runners : r # s => run'[r] = run[r]
        /\ gold' = gold
    <3>1. ASSUME NEW d \in Days, Start(s, d)
          PROVE  run'[s].pc = "ready" /\ gold' = gold /\ \A r \in Runners : r # s => run'[r] = run[r]
      <4>1. /\ run'[s] = [pc |-> "ready", date |-> d, at |-> 1, began |-> version,
                          vacuous |-> {}, write |-> NoWrite]
            /\ \A r \in Runners : r # s => run'[r] = run[r]
            /\ gold' = gold
        BY <1>0, <3>1, StartStep
      <4> QED
        BY <4>1
    <3>2. ASSUME End(s)
          PROVE  run'[s].pc = "idle" /\ gold' = gold /\ \A r \in Runners : r # s => run'[r] = run[r]
      BY <1>0, <3>2, EndStep DEF Idle
    <3> QED
      BY <1>3, <3>1, <3>2 DEF WriteRaises, Finish, Crash
  <2> QED
    BY <1>0, <2>1 DEF LateInv, NothingIsLate, NoLate, Target
<1> QED
  BY <1>1, <1>2, <1>3 DEF Step

(* No order is ever LATE in the scorecard, for any events and any number   *)
(* of hours between them: NothingIsLate.  The rows that read_silver        *)
(* returns are of one day, and an order delivered on a later one joins no  *)
(* delivery.                                                               *)
THEOREM NoOrderIsEverLate == Spec => []NothingIsLate
<1>1. Init => LateInv
  <2> SUFFICES ASSUME Init PROVE LateInv
    OBVIOUS
  <2>1. Typed
    BY FreshInit DEF FreshInv
  <2>2. \A s \in Runners : run[s].pc = "idle"
    BY DEF Init, Idle
  <2>3. \A d \in Days : DOMAIN gold["fact_daily_sla"][d] = {}
    BY DEF Init, NoFacts, Tables
  <2> QED
    BY <2>1, <2>2, <2>3 DEF LateInv, NothingIsLate
<1>2. LateInv /\ FreshInv /\ FreshInv' /\ [Next]_vars => LateInv'
  <2> SUFFICES ASSUME LateInv, FreshInv, FreshInv', [Next]_vars PROVE LateInv'
    OBVIOUS
  <2>1. CASE SilverChanges \/ UNCHANGED vars
    <3>1. gold' = gold /\ run' = run
      BY <2>1 DEF SilverChanges, vars, goldVars, job
    <3> QED
      BY <3>1 DEF LateInv, FreshInv, NothingIsLate, NoLate, Target
  <2>2. CASE \E s \in Runners : Step(s) \/ \E d \in Days : Start(s, d)
    BY <2>2, LateStep
  <2> QED
    BY <2>1, <2>2 DEF Next
<1>3. LateInv => NothingIsLate
  BY DEF LateInv
<1> QED
  BY <1>1, <1>2, <1>3, SpecFresh, PTL DEF Spec

-----------------------------------------------------------------------------
(* The scorecard and the hourly table.  SumFunction adds up a function     *)
(* element by element, in an order that is not specified; of a table of    *)
(* counts the result is the number of things counted, by induction on the  *)
(* set of groups (a smallest set on which the two differ would not be      *)
(* smallest).                                                              *)

(* The part of the sum of fun over s, as SumFunction computes it.          *)
PartialSum(fun, it, s) ==
  IF s = {} THEN 0 ELSE fun[CHOOSE x \in s : TRUE] + it[s \ {CHOOSE x \in s : TRUE}]

LEMMA SumUnfolds ==
  ASSUME NEW fun
  PROVE  SumFunction(fun) =
           (CHOOSE it : it = [s \in SUBSET DOMAIN fun |-> PartialSum(fun, it, s)])[DOMAIN fun]
<1> DEFINE S == DOMAIN fun
<1>1. SumFunction(fun) = SumFunctionOnSet(fun, S)
  BY DEF SumFunction
<1>2. SumFunctionOnSet(fun, S) = FoldFunctionOnSet(+, 0, fun, S)
  BY DEF SumFunctionOnSet
<1>3. FoldFunctionOnSet(+, 0, fun, S)
        = (CHOOSE it : it = [s \in SUBSET S |-> PartialSum(fun, it, s)])[S]
  BY Zenon DEF FoldFunctionOnSet, MapThenFoldSet, PartialSum
<1> QED BY <1>1, <1>2, <1>3, Zenon

(* What satisfies the recursion of the sum is the sum.                     *)
LEMMA SumIs ==
  ASSUME NEW fun, IsFiniteSet(DOMAIN fun), NEW W \in [SUBSET DOMAIN fun -> Nat],
         \A s \in SUBSET DOMAIN fun : W[s] = PartialSum(fun, W, s)
  PROVE  SumFunction(fun) = W[DOMAIN fun]
<1> DEFINE S == DOMAIN fun
<1> DEFINE it == CHOOSE g : g = [s \in SUBSET S |-> PartialSum(fun, g, s)]
<1>1. W = [s \in SUBSET S |-> PartialSum(fun, W, s)]
  <2>0. W = [s \in SUBSET S |-> W[s]] /\ \A s \in SUBSET S : W[s] = PartialSum(fun, W, s)
    OBVIOUS
  <2> DEFINE V == [s \in SUBSET S |-> PartialSum(fun, W, s)]
  <2>1. V = [s \in SUBSET S |-> V[s]] /\ \A s \in SUBSET S : W[s] = V[s]
    BY <2>0
  <2> HIDE DEF V
  <2>2. [s \in SUBSET S |-> W[s]] = [s \in SUBSET S |-> V[s]]
    BY <2>1
  <2>3. V = W
    BY <2>0, <2>1, <2>2, Zenon
  <2> QED BY <2>3 DEF V
<1>2. it = [s \in SUBSET S |-> PartialSum(fun, it, s)]
  <2>1. \E g : g = [s \in SUBSET S |-> PartialSum(fun, g, s)]
    BY <1>1
  <2> QED BY <2>1, Zenon
<1> HIDE DEF it
<1>3. \A s \in SUBSET S : it[s] = PartialSum(fun, it, s)
  <2> DEFINE V == [s \in SUBSET S |-> PartialSum(fun, it, s)]
  <2>1. \A s \in SUBSET S : V[s] = PartialSum(fun, it, s)
    OBVIOUS
  <2> HIDE DEF V
  <2>2. it = V
    BY <1>2, Zenon DEF V
  <2> QED BY <2>1, <2>2
<1>4. \A s \in SUBSET S : it[s] = W[s]
  <2> DEFINE T == {s \in SUBSET S : it[s] # W[s]}
             R == StrictSubsetOrdering(S)
  <2> SUFFICES ASSUME T # {} PROVE FALSE
    OBVIOUS
  <2>1. IsWellFoundedOn(R, FiniteSubsetsOf(S)) /\ FiniteSubsetsOf(S) = SUBSET S
    BY FS_StrictSubsetOrderingWellFounded, FS_FiniteSubsetsOfFinite, Zenon
  <2>2. T \subseteq FiniteSubsetsOf(S)
    BY <2>1
  <2>3. PICK s \in T : \A t \in T : ~ (<<t, s>> \in R)
    <3> HIDE DEF T, R
    <3> QED BY <2>1, <2>2, WFMin
  <2>4. s # {}
    BY <1>3 DEF PartialSum
  <2> DEFINE x == CHOOSE y \in s : TRUE
  <2>5. x \in s
    BY <2>4
  <2>6. it[s] = fun[x] + it[s \ {x}] /\ W[s] = fun[x] + W[s \ {x}]
    <3>1. /\ PartialSum(fun, it, s) = fun[x] + it[s \ {x}]
          /\ PartialSum(fun, W, s) = fun[x] + W[s \ {x}]
      BY <2>4, Zenon DEF PartialSum
    <3> QED BY <1>3, <3>1
  <2> HIDE DEF x
  <2>7. <<s \ {x}, s>> \in R
    BY <2>5 DEF StrictSubsetOrdering
  <2>8. it[s \ {x}] = W[s \ {x}]
    BY <2>3, <2>7
  <2> QED BY <2>6, <2>8
<1>5. SumFunction(fun) = it[S]
  BY SumUnfolds, Zenon DEF it
<1> QED BY <1>4, <1>5

(* The counts of the groups of a set add up to its size.                   *)
LEMMA CountsAddUp ==
  ASSUME NEW R, IsFiniteSet(R), NEW key, NEW count,
         count = [k \in {key[r] : r \in R} |-> Cardinality({r \in R : key[r] = k})]
  PROVE  SumFunction(count) = Cardinality(R)
<1> DEFINE S == {key[r] : r \in R}
           In(s) == {r \in R : key[r] \in s}
           W == [s \in SUBSET S |-> Cardinality(In(s))]
<1>1. IsFiniteSet(S)
  <2> DEFINE f == [r \in R |-> key[r]]
  <2>1. f \in Surjection(R, S)
    <3>1. f \in [R -> S]
      OBVIOUS
    <3>2. \A k \in S : \E r \in R : f[r] = k
      OBVIOUS
    <3> HIDE DEF S, f
    <3> QED BY <3>1, <3>2 DEF Surjection
  <2> HIDE DEF S, f
  <2> QED BY <2>1, FS_Surjection
<1>2. \A s : IsFiniteSet(In(s)) /\ Cardinality(In(s)) \in Nat
  <2>1. \A s : In(s) \in SUBSET R
    OBVIOUS
  <2> HIDE DEF In
  <2> QED BY <2>1, FS_Subset, FS_CardinalityType
<1>3. ASSUME NEW s \in SUBSET S, NEW x \in s
      PROVE  Cardinality(In(s)) = count[x] + Cardinality(In(s \ {x}))
  <2>1. In(s) = In({x}) \cup In(s \ {x}) /\ In({x}) \cap In(s \ {x}) = {}
    OBVIOUS
  <2>2. count[x] = Cardinality(In({x}))
    <3>1. x \in S /\ In({x}) = {r \in R : key[r] = x}
      OBVIOUS
    <3>2. count[x] = Cardinality({r \in R : key[r] = x})
      BY <3>1
    <3> QED BY <3>1, <3>2, Zenon
  <2> DEFINE A == In({x})
             B == In(s \ {x})
  <2>3. IsFiniteSet(A) /\ IsFiniteSet(B) /\ Cardinality(A) \in Nat /\ Cardinality(B) \in Nat
    BY <1>2
  <2>4. Cardinality(A \cap B) = 0
    BY <2>1, FS_EmptySet, Zenon
  <2>5. Cardinality(In(s)) = Cardinality(A \cup B)
    BY <2>1, Zenon
  <2> HIDE DEF A, B
  <2>6. Cardinality(A \cup B) = Cardinality(A) + Cardinality(B) - Cardinality(A \cap B)
    BY <2>3, FS_Union
  <2>7. Cardinality(A \cup B) = Cardinality(A) + Cardinality(B)
    BY <2>3, <2>4, <2>6
  <2> QED BY <2>2, <2>5, <2>7 DEF A, B
<1>4. DOMAIN count = S
  OBVIOUS
<1>5. In(S) = R /\ In({}) = {}
  OBVIOUS
<1> HIDE DEF S, In
<1>6. \A s \in SUBSET S : W[s] = PartialSum(count, W, s)
  <2> SUFFICES ASSUME NEW s \in SUBSET S PROVE W[s] = PartialSum(count, W, s)
    OBVIOUS
  <2>1. CASE s = {}
    <3>1. Cardinality(In(s)) = 0
      BY <1>5, <2>1, FS_EmptySet, Zenon
    <3> QED BY <2>1, <3>1 DEF PartialSum
  <2>2. CASE s # {}
    <3> DEFINE x == CHOOSE y \in s : TRUE
    <3>1. x \in s
      BY <2>2
    <3>2. s \ {x} \in SUBSET S
      OBVIOUS
    <3>3. PartialSum(count, W, s) = count[x] + W[s \ {x}]
      BY <2>2, Zenon DEF PartialSum
    <3> HIDE DEF x
    <3>4. W[s \ {x}] = Cardinality(In(s \ {x}))
      BY <3>2
    <3>5. W[s] = count[x] + Cardinality(In(s \ {x}))
      BY <1>3, <3>1
    <3> QED BY <3>3, <3>4, <3>5
  <2> QED BY <2>1, <2>2
<1>7. W \in [SUBSET S -> Nat] /\ W[S] = Cardinality(In(S))
  BY <1>2
<1> HIDE DEF W
<1>8. SumFunction(count) = W[S]
  <2>1. /\ IsFiniteSet(DOMAIN count) /\ W \in [SUBSET DOMAIN count -> Nat]
        /\ \A s \in SUBSET DOMAIN count : W[s] = PartialSum(count, W, s)
    BY <1>1, <1>4, <1>6, <1>7
  <2>2. SumFunction(count) = W[DOMAIN count]
    BY <2>1, SumIs
  <2> QED BY <1>4, <2>2
<1> QED BY <1>5, <1>7, <1>8, Zenon

(* The rows of a day in a Silver table; DayRows is those of the present    *)
(* one.                                                                    *)
RowsOf(table, d) ==
  {r \in Events \X (1 .. MaxCopies) : DayOf[r[1]] = d /\ r[2] <= table[r[1]]}

LEMMA RowsFinite ==
  ASSUME NEW table, NEW d
  PROVE  IsFiniteSet(RowsOf(table, d))
<1>1. IsFiniteSet(1 .. MaxCopies) /\ IsFiniteSet(Events)
  <2>1. 1 \in Int /\ MaxCopies \in Int
    BY GoldJobAssumption
  <2> QED BY <2>1, FS_Interval, GoldJobAssumption
<1>2. IsFiniteSet(Events \X (1 .. MaxCopies))
  BY <1>1, FS_Product
<1>3. RowsOf(table, d) \in SUBSET (Events \X (1 .. MaxCopies))
  BY DEF RowsOf
<1> QED BY <1>2, <1>3, FS_Subset

(* The hourly table counts the orders placed; the scorecard, the pairs of  *)
(* the left join.                                                          *)
LEMMA HourlySum ==
  ASSUME NEW rows, IsFiniteSet(rows)
  PROVE  SumFunction(HourlyOrders(rows)) = Cardinality(OfType(rows, {"ORDER_PLACED"}))
<1> DEFINE R   == OfType(rows, {"ORDER_PLACED"})
           key == [r \in R |-> <<r[1].time % 24, r[1].city>>]
           count == [k \in {key[r] : r \in R} |-> Cardinality({r \in R : key[r] = k})]
<1>1. IsFiniteSet(R)
  <2>1. R \in SUBSET rows
    BY DEF OfType
  <2> QED BY <2>1, FS_Subset
<1>2. HourlyOrders(rows) =
        [k \in {<<r[1].time % 24, r[1].city>> : r \in R} |->
           Cardinality({r \in R : <<r[1].time % 24, r[1].city>> = k})]
  BY DEF HourlyOrders, CountBy
<1> HIDE DEF R
<1>3. HourlyOrders(rows) = count
  <2>1. {key[r] : r \in R} = {<<r[1].time % 24, r[1].city>> : r \in R}
    OBVIOUS
  <2>2. ASSUME NEW k
        PROVE  {r \in R : key[r] = k} = {r \in R : <<r[1].time % 24, r[1].city>> = k}
    OBVIOUS
  <2> HIDE DEF key
  <2> QED BY <1>2, <2>1, <2>2, Zenon
<1> HIDE DEF key
<1>4. SumFunction(count) = Cardinality(R)
  BY <1>1, CountsAddUp
<1> QED BY <1>3, <1>4, Zenon DEF R

LEMMA SlaSum ==
  ASSUME NEW rows, IsFiniteSet(Fulfillment(rows))
  PROVE  SumFunction(DailySla(rows)) = Cardinality(Fulfillment(rows))
<1> DEFINE R   == Fulfillment(rows)
           key == [f \in R |-> <<f[1][1].city, DeliveryStatus(f[1], f[2])>>]
           count == [k \in {key[r] : r \in R} |-> Cardinality({r \in R : key[r] = k})]
<1>1. DailySla(rows) =
        [k \in {<<f[1][1].city, DeliveryStatus(f[1], f[2])>> : f \in R} |->
           Cardinality({f \in R : <<f[1][1].city, DeliveryStatus(f[1], f[2])>> = k})]
  BY DEF DailySla, CountBy
<1>2. IsFiniteSet(R)
  OBVIOUS
<1> HIDE DEF R
<1>3. DailySla(rows) = count
  <2>1. {key[r] : r \in R} = {<<f[1][1].city, DeliveryStatus(f[1], f[2])>> : f \in R}
    OBVIOUS
  <2>2. ASSUME NEW k
        PROVE  {r \in R : key[r] = k} =
                 {f \in R : <<f[1][1].city, DeliveryStatus(f[1], f[2])>> = k}
    OBVIOUS
  <2> HIDE DEF key
  <2> QED BY <1>1, <2>1, <2>2, Zenon
<1> HIDE DEF key
<1>4. SumFunction(count) = Cardinality(R)
  BY <1>2, CountsAddUp
<1> QED BY <1>3, <1>4, Zenon DEF R

(* The left join keeps each order placed, in one pair or in several.       *)
LEMMA JoinKeepsOrders ==
  ASSUME NEW rows, IsFiniteSet(rows)
  PROVE  /\ IsFiniteSet(Fulfillment(rows))
         /\ Cardinality(OfType(rows, {"ORDER_PLACED"})) <= Cardinality(Fulfillment(rows))
<1> DEFINE placed    == OfType(rows, {"ORDER_PLACED"})
           delivered == OfType(rows, {"ORDER_DELIVERED"})
           Matches(p) == {q \in delivered : q[1].order = p[1].order}
           F == Fulfillment(rows)
<1>1. F = UNION {{p} \X (IF Matches(p) = {} THEN {"none"} ELSE Matches(p)) : p \in placed}
  BY DEF Fulfillment
<1>2. placed \subseteq rows /\ \A p : Matches(p) \subseteq rows
  BY DEF OfType
<1> HIDE DEF placed, Matches, F
<1>3. \A p \in placed : \E q : <<p, q>> \in F
  <2> SUFFICES ASSUME NEW p \in placed PROVE \E q : <<p, q>> \in F
    OBVIOUS
  <2>1. PICK q : q \in IF Matches(p) = {} THEN {"none"} ELSE Matches(p)
    <3>1. CASE Matches(p) = {}
      BY <3>1
    <3>2. CASE Matches(p) # {}
      BY <3>2
    <3> QED BY <3>1, <3>2
  <2>2. <<p, q>> \in {p} \X (IF Matches(p) = {} THEN {"none"} ELSE Matches(p))
    BY <2>1
  <2> QED BY <1>1, <2>2
<1>4. F \in SUBSET (rows \X (rows \cup {"none"}))
  BY <1>1, <1>2
<1>5. IsFiniteSet(F)
  <2>1. IsFiniteSet(rows \cup {"none"})
    BY FS_AddElement
  <2>2. IsFiniteSet(rows \X (rows \cup {"none"}))
    BY <2>1, FS_Product
  <2> QED BY <1>4, <2>2, FS_Subset
<1>6. \A f \in F : f[1] \in placed
  BY <1>1
<1>7. Cardinality(placed) <= Cardinality(F)
  <2> DEFINE g == [f \in F |-> f[1]]
  <2>1. g \in [F -> placed]
    BY <1>6
  <2>2. \A p \in placed : \E f \in F : g[f] = p
    <3> SUFFICES ASSUME NEW p \in placed PROVE \E f \in F : g[f] = p
      OBVIOUS
    <3>1. PICK q : <<p, q>> \in F
      BY <1>3
    <3>2. g[<<p, q>>] = p
      BY <3>1
    <3> QED BY <3>1, <3>2
  <2> HIDE DEF g
  <2>3. g \in Surjection(F, placed)
    BY <2>1, <2>2 DEF Surjection
  <2> QED BY <1>5, <2>3, FS_Surjection
<1> QED BY <1>5, <1>7 DEF F, placed

LEMMA ScorecardCovers ==
  ASSUME NEW table, NEW d
  PROVE  SumFunction(Facts("fact_hourly_orders", RowsOf(table, d)))
           <= SumFunction(Facts("fact_daily_sla", RowsOf(table, d)))
<1> DEFINE rows == RowsOf(table, d)
<1>1. IsFiniteSet(rows)
  BY RowsFinite
<1> HIDE DEF rows
<1>2. /\ Facts("fact_hourly_orders", rows) = HourlyOrders(rows)
      /\ Facts("fact_daily_sla", rows) = DailySla(rows)
  BY DEF Facts
<1>3. /\ IsFiniteSet(Fulfillment(rows))
      /\ Cardinality(OfType(rows, {"ORDER_PLACED"})) <= Cardinality(Fulfillment(rows))
  BY <1>1, JoinKeepsOrders
<1>4. SumFunction(HourlyOrders(rows)) = Cardinality(OfType(rows, {"ORDER_PLACED"}))
  BY <1>1, HourlySum
<1>5. SumFunction(DailySla(rows)) = Cardinality(Fulfillment(rows))
  BY <1>3, SlaSum
<1> QED BY <1>2, <1>3, <1>4, <1>5 DEF rows

(* There is a history of Silver, by version, that ends with the present    *)
(* table and that each partition, and each write under way, was computed   *)
(* from; so two partitions of one version were computed from the same      *)
(* rows.                                                                   *)
Past(h) ==
  /\ \A d \in Days : RowsOf(h[version], d) = DayRows(d)
  /\ \A t \in Tables, d \in Days : gold[t][d] = Facts(t, RowsOf(h[from[t][d]], d))
  /\ \A s \in Runners : run[s].pc = "writing" =>
       run[s].write.facts = Facts(Target(s), RowsOf(h[run[s].write.from], run[s].date))

HistoryInv == \E h : Past(h)

LEMMA HistoryInit == Init => HistoryInv
<1> SUFFICES ASSUME Init PROVE HistoryInv
  OBVIOUS
<1>1. PICK h : h = [v \in {0} |-> silver]
  OBVIOUS
<1>2. version = 0 /\ h[0] = silver /\ silver = [e \in Events |-> 0]
  BY <1>1 DEF Init, Silver!Init
<1>3. ASSUME NEW d \in Days PROVE RowsOf(h[version], d) = DayRows(d) /\ RowsOf(h[0], d) = {}
  BY <1>2, GoldJobAssumption DEF RowsOf, DayRows
<1>4. ASSUME NEW t \in Tables PROVE Facts(t, {}) = NoFacts
  <2>1. OfType({}, {"ORDER_PLACED"}) = {}
        /\ OfType({}, {"PAYMENT_INITIATED", "PAYMENT_SUCCESS", "PAYMENT_FAILED"}) = {}
        /\ Fulfillment({}) = {}
    BY DEF OfType, Fulfillment
  <2>2. HourlyOrders({}) = NoFacts
    BY <2>1 DEF HourlyOrders, CountBy, NoFacts
  <2>3. DailySla({}) = NoFacts
    BY <2>1 DEF DailySla, CountBy, NoFacts
  <2>4. PaymentHealth({}) = NoFacts
    BY <2>1 DEF PaymentHealth, CountBy, NoFacts
  <2> QED BY <2>2, <2>3, <2>4 DEF Facts, Tables
<1>5. ASSUME NEW t \in Tables, NEW d \in Days
      PROVE  gold[t][d] = Facts(t, RowsOf(h[from[t][d]], d))
  <2>1. gold[t][d] = NoFacts /\ from[t][d] = 0
    BY DEF Init
  <2> QED BY <1>3, <1>4, <2>1
<1>6. \A s \in Runners : run[s].pc # "writing"
  BY DEF Init, Idle
<1> QED BY <1>3, <1>5, <1>6 DEF HistoryInv, Past

(* A step that computes nothing and leaves Silver alone.                   *)
LEMMA HistoryQuiet ==
  ASSUME HistoryInv, UNCHANGED <<silver, version, gold, from>>,
         \A s \in Runners : run'[s].pc = "writing" => run'[s] = run[s]
  PROVE  HistoryInv'
<1>1. PICK h : Past(h)
  BY DEF HistoryInv
<1>2. \A d \in Days : DayRows(d)' = DayRows(d)
  BY DEF DayRows
<1>3. \A s \in Runners : run'[s].pc = "writing" =>
        run'[s].write.facts = Facts(Target(s)', RowsOf(h[run'[s].write.from], run'[s].date))
  BY <1>1 DEF Past, Target
<1>4. Past(h)'
  BY <1>1, <1>2, <1>3 DEF Past
<1> QED BY <1>4 DEF HistoryInv

(* Silver moves on: its new table joins the history.                       *)
LEMMA HistorySilver ==
  ASSUME FreshInv, HistoryInv, SilverChanges
  PROVE  HistoryInv'
<1>1. PICK h : Past(h)
  BY DEF HistoryInv
<1>2. version \in Nat /\ version' = version + 1 /\ UNCHANGED <<gold, from, run>>
  BY SilverStep DEF FreshInv, Typed
<1>3. PICK h2 : h2 = [v \in Nat |-> IF v = version' THEN silver' ELSE h[v]]
  OBVIOUS
<1>4. h2[version'] = silver' /\ \A v \in Nat : v <= version => h2[v] = h[v]
  BY <1>2, <1>3
<1>5. ASSUME NEW d \in Days PROVE RowsOf(h2[version'], d) = DayRows(d)'
  BY <1>4 DEF RowsOf, DayRows
<1>6. ASSUME NEW t \in Tables, NEW d \in Days
      PROVE  gold'[t][d] = Facts(t, RowsOf(h2[from'[t][d]], d))
  <2>1. from[t][d] \in Nat /\ from[t][d] <= version
    BY DEF FreshInv, Typed, Clocks
  <2>2. gold[t][d] = Facts(t, RowsOf(h[from[t][d]], d))
    BY <1>1 DEF Past
  <2> QED BY <1>2, <1>4, <2>1, <2>2
<1>7. ASSUME NEW s \in Runners, run'[s].pc = "writing"
      PROVE  run'[s].write.facts =
               Facts(Target(s)', RowsOf(h2[run'[s].write.from], run'[s].date))
  <2>1. run[s].pc = "writing" /\ run[s].write.from \in Nat /\ run[s].write.from <= version
    BY <1>2, <1>7 DEF FreshInv, Typed, Clocks, Writes
  <2>2. run[s].write.facts = Facts(Target(s), RowsOf(h[run[s].write.from], run[s].date))
    BY <1>1, <2>1 DEF Past
  <2>3. Target(s)' = Target(s)
    BY <1>2 DEF Target
  <2> QED BY <1>2, <1>4, <2>1, <2>2, <2>3
<1>8. Past(h2)'
  BY <1>5, <1>6, <1>7 DEF Past
<1> QED BY <1>8 DEF HistoryInv

(* A write begins: from the last table of the history.                     *)
LEMMA HistoryBeginWrite ==
  ASSUME Typed, HistoryInv, NEW s \in Runners, BeginWrite(s)
  PROVE  HistoryInv'
<1>1. PICK h : Past(h)
  BY DEF HistoryInv
<1>2. /\ run[s] \in Active /\ run[s].pc = "ready"
      /\ run'[s] = [pc |-> "writing", date |-> run[s].date, at |-> run[s].at,
                    began |-> run[s].began, vacuous |-> run[s].vacuous,
                    write |-> [facts |-> Facts(Target(s), DayRows(run[s].date)),
                               from |-> version,
                               seen |-> Seen(Target(s), run[s].date)]]
      /\ \A r \in Runners : r # s => run'[r] = run[r]
      /\ UNCHANGED <<version, exists, gold, from, touched>>
  BY BeginWriteStep
<1>3. silver' = silver
  BY DEF BeginWrite, silverVars
<1>4. \A d \in Days : DayRows(d)' = DayRows(d)
  BY <1>3 DEF DayRows
<1>5. ASSUME NEW r \in Runners, run'[r].pc = "writing"
      PROVE  run'[r].write.facts =
               Facts(Target(r)', RowsOf(h[run'[r].write.from], run'[r].date))
  <2>1. CASE r # s
    BY <1>1, <1>2, <1>5, <2>1 DEF Past, Target
  <2>2. CASE r = s
    <3>1. /\ run'[s].at = run[s].at /\ run'[s].date = run[s].date /\ run[s].date \in Days
          /\ run'[s].write.from = version
          /\ run'[s].write.facts = Facts(Target(s), DayRows(run[s].date))
      BY <1>2 DEF Active
    <3>2. Target(s)' = Target(s)
      BY <3>1 DEF Target
    <3>3. RowsOf(h[version], run[s].date) = DayRows(run[s].date)
      BY <1>1, <3>1 DEF Past
    <3> QED BY <2>2, <3>1, <3>2, <3>3
  <2> QED BY <2>1, <2>2
<1>6. Past(h)'
  BY <1>1, <1>2, <1>4, <1>5 DEF Past
<1> QED BY <1>6 DEF HistoryInv

(* A commit: the facts of a write become those of a partition.             *)
LEMMA HistoryCommit ==
  ASSUME Typed, HistoryInv, NEW s \in Runners, CommitWrite(s)
  PROVE  HistoryInv'
<1>1. PICK h : Past(h)
  BY DEF HistoryInv
<1>2. /\ Target(s) \in Tables /\ run[s].date \in Days /\ run[s].pc = "writing"
      /\ run'[s].pc # "writing"
      /\ \A r \in Runners : r # s => run'[r] = run[r]
      /\ version' = version
      /\ gold' = [gold EXCEPT ![Target(s)][run[s].date] = run[s].write.facts]
      /\ from' = [from EXCEPT ![Target(s)][run[s].date] = run[s].write.from]
  BY CommitStep
<1>3. \A d \in Days : DayRows(d)' = DayRows(d)
  BY DEF DayRows, CommitWrite, silverVars
<1>4. ASSUME NEW t \in Tables, NEW d \in Days
      PROVE  gold'[t][d] = Facts(t, RowsOf(h[from'[t][d]], d))
  <2>1. CASE t = Target(s) /\ d = run[s].date
    <3>1. gold'[t][d] = run[s].write.facts /\ from'[t][d] = run[s].write.from
      BY <1>2, <2>1 DEF Typed
    <3>2. run[s].write.facts = Facts(Target(s), RowsOf(h[run[s].write.from], run[s].date))
      BY <1>1, <1>2 DEF Past
    <3> QED BY <2>1, <3>1, <3>2
  <2>2. CASE ~ (t = Target(s) /\ d = run[s].date)
    <3>1. gold'[t][d] = gold[t][d] /\ from'[t][d] = from[t][d]
      BY <1>2, <2>2 DEF Typed
    <3> QED BY <1>1, <3>1 DEF Past
  <2> QED BY <2>1, <2>2
<1>5. ASSUME NEW r \in Runners, run'[r].pc = "writing"
      PROVE  run'[r].write.facts =
               Facts(Target(r)', RowsOf(h[run'[r].write.from], run'[r].date))
  BY <1>1, <1>2, <1>5 DEF Past, Target
<1>6. Past(h)'
  BY <1>1, <1>2, <1>3, <1>4, <1>5 DEF Past
<1> QED BY <1>6 DEF HistoryInv

LEMMA HistoryNext == FreshInv /\ HistoryInv /\ [Next]_vars => HistoryInv'
<1> SUFFICES ASSUME FreshInv, HistoryInv, [Next]_vars PROVE HistoryInv'
  OBVIOUS
<1>0. Typed
  BY DEF FreshInv
<1>1. CASE UNCHANGED vars
  BY <1>1, HistoryQuiet DEF vars, silverVars, goldVars, job
<1>2. ASSUME NEW s \in Runners, NEW d \in Days, Start(s, d) PROVE HistoryInv'
  <2>1. /\ run'[s] = [pc |-> "ready", date |-> d, at |-> 1, began |-> version,
                      vacuous |-> {}, write |-> NoWrite]
        /\ \A r \in Runners : r # s => run'[r] = run[r]
        /\ UNCHANGED <<version, exists, gold, from, touched>>
    BY <1>0, <1>2, StartStep
  <2>2. silver' = silver /\ run'[s].pc # "writing"
    BY <1>2, <2>1 DEF Start, silverVars
  <2> QED BY <2>1, <2>2, HistoryQuiet
<1>3. ASSUME NEW s \in Runners, WriteRaises(s) \/ Finish(s) \/ Crash(s) PROVE HistoryInv'
  <2>1. End(s)
    BY <1>3 DEF WriteRaises, Finish, Crash
  <2>2. /\ run'[s] = Idle
        /\ \A r \in Runners : r # s => run'[r] = run[r]
        /\ UNCHANGED <<version, exists, gold, from, touched>>
    BY <1>0, <2>1, EndStep
  <2>3. silver' = silver /\ run'[s].pc # "writing"
    BY <2>1, <2>2 DEF End, silverVars, Idle
  <2> QED BY <2>2, <2>3, HistoryQuiet
<1> QED BY <1>0, <1>1, <1>2, <1>3, HistorySilver, HistoryBeginWrite, HistoryCommit DEF Next, Step

(* Whoever computed and committed them, and whatever Silver has become     *)
(* since: two partitions of a day that say they are of the same Silver     *)
(* agree, the scorecard has every order of the hourly table:               *)
(* ScorecardCoversOrders.                                                  *)
THEOREM ScorecardCoversHourly == Spec => []ScorecardCoversOrders
<1>1. FreshInv /\ HistoryInv => ScorecardCoversOrders
  <2> SUFFICES ASSUME HistoryInv, NEW d \in Days,
                      from["fact_hourly_orders"][d] = from["fact_daily_sla"][d]
               PROVE  SumFunction(gold["fact_hourly_orders"][d])
                        <= SumFunction(gold["fact_daily_sla"][d])
    BY DEF ScorecardCoversOrders
  <2>1. PICK h : Past(h)
    BY DEF HistoryInv
  <2> DEFINE table == h[from["fact_hourly_orders"][d]]
  <2>2. /\ gold["fact_hourly_orders"][d] = Facts("fact_hourly_orders", RowsOf(table, d))
        /\ gold["fact_daily_sla"][d] = Facts("fact_daily_sla", RowsOf(table, d))
    BY <2>1 DEF Past, Tables
  <2> HIDE DEF table
  <2> QED BY <2>2, ScorecardCovers
<1>2. Init => HistoryInv
  BY HistoryInit
<1>3. FreshInv /\ HistoryInv /\ [Next]_vars => HistoryInv'
  BY HistoryNext
<1> QED BY <1>1, <1>2, <1>3, SpecFresh, PTL DEF Spec

-----------------------------------------------------------------------------
(* The loader.  What a run of it found in a partition when it began is a   *)
(* floor under that partition: no version older than it comes back, not    *)
(* even while the partition is empty and commits go unnoticed, because the *)
(* writes that would be accepted then began after it was emptied.          *)

Floor(t, d, n) ==
  /\ from[t][d] >= n
  /\ \A r \in Runners :
       run[r].pc = "writing" /\ Target(r) = t /\ run[r].date = d /\ Current(r) =>
         run[r].write.from >= n

(* A runner that begins, or ends, changes no floor.                        *)
LEMMA FloorQuiet ==
  ASSUME NEW t \in Tables, NEW d \in Days, NEW n \in Nat, Floor(t, d, n),
         NEW s \in Runners, run'[s].pc # "writing",
         \A r \in Runners : r # s => run'[r] = run[r],
         UNCHANGED <<from, touched>>
  PROVE  Floor(t, d, n)'
BY DEF Floor, Current, Target

(* A commit to the partition is one of the writes the floor speaks of, and *)
(* a commit that adds or removes files ends the others.                    *)
LEMMA FloorCommit ==
  ASSUME FreshInv, NEW t \in Tables, NEW d \in Days, NEW n \in Nat, Floor(t, d, n),
         NEW s \in Runners, CommitWrite(s)
  PROVE  Floor(t, d, n)'
<1> DEFINE tt == Target(s)
           dd == run[s].date
           empty == gold[tt][dd] = NoFacts /\ run[s].write.facts = NoFacts
<1>0. Typed /\ Clocks
  BY DEF FreshInv
<1>1. /\ run[s] \in Active /\ run[s].pc = "writing" /\ tt \in Tables /\ dd \in Days
      /\ Unchallenged(s)
      /\ run'[s].pc # "writing"
      /\ \A r \in Runners : r # s => run'[r] = run[r]
      /\ from' = [from EXCEPT ![tt][dd] = run[s].write.from]
      /\ touched' = [touched EXCEPT ![tt][dd] = IF empty THEN @ ELSE @ + 1]
  BY <1>0, CommitStep
<1>2. Current(s)
  BY <1>1 DEF Unchallenged, Seen, Current
<1>3. touched[tt][dd] \in Nat
  BY <1>0, <1>1 DEF Typed
<1> HIDE DEF empty
<1>4. from'[t][d] = from[t][d] \/ (t = tt /\ d = dd /\ from'[t][d] = run[s].write.from)
  BY <1>0, <1>1 DEF Typed
<1>5. from'[t][d] >= n
  BY <1>1, <1>2, <1>4 DEF Floor
<1>6. ASSUME NEW r \in Runners, run'[r].pc = "writing", Target(r)' = t, run'[r].date = d,
             Current(r)'
      PROVE  run'[r].write.from >= n
  <2>1. r # s /\ run'[r] = run[r]
    BY <1>1, <1>6
  <2>2. /\ run[r].pc = "writing" /\ Target(r) = t /\ run[r].date = d
        /\ run[r].write.seen[2] = touched'[t][d]
    BY <1>6, <2>1 DEF Current, Target
  <2>3. run[r].write.seen[2] <= touched[t][d]
    BY <1>0, <2>2 DEF Clocks
  <2>4. touched[t][d] \in Nat /\ (touched'[t][d] = touched[t][d] \/ touched'[t][d] = touched[t][d] + 1)
    BY <1>0, <1>1, <1>3 DEF Typed
  <2>5. touched'[t][d] = touched[t][d]
    BY <2>2, <2>3, <2>4
  <2>6. Current(r)
    BY <2>2, <2>5 DEF Current
  <2> QED
    BY <2>1, <2>2, <2>6 DEF Floor
<1> QED
  BY <1>5, <1>6 DEF Floor

(* A write that begins reads the Silver of now, which is no older than     *)
(* what the partition holds.                                               *)
LEMMA FloorBeginWrite ==
  ASSUME FreshInv, NEW t \in Tables, NEW d \in Days, NEW n \in Nat, Floor(t, d, n),
         NEW s \in Runners, BeginWrite(s)
  PROVE  Floor(t, d, n)'
<1>0. Typed /\ Clocks
  BY DEF FreshInv
<1>1. /\ run'[s] = [pc |-> "writing", date |-> run[s].date, at |-> run[s].at,
                    began |-> run[s].began, vacuous |-> run[s].vacuous,
                    write |-> [facts |-> Facts(Target(s), DayRows(run[s].date)),
                               from |-> version,
                               seen |-> Seen(Target(s), run[s].date)]]
      /\ \A r \in Runners : r # s => run'[r] = run[r]
      /\ UNCHANGED <<version, exists, gold, from, touched>>
  BY <1>0, BeginWriteStep
<1>2. run'[s].write.from = version /\ from' = from /\ touched' = touched
  BY <1>1
<1>3. from[t][d] >= n /\ from[t][d] <= version /\ from[t][d] \in Nat /\ version \in Nat
  BY <1>0 DEF Floor, Clocks, Typed
<1>4. run'[s].write.from >= n
  BY <1>2, <1>3
<1>5. ASSUME NEW r \in Runners, r # s, run'[r].pc = "writing", Target(r)' = t,
             run'[r].date = d, Current(r)'
      PROVE  run'[r].write.from >= n
  <2>1. run'[r] = run[r]
    BY <1>1, <1>5
  <2> QED
    BY <1>2, <1>5, <2>1 DEF Floor, Current, Target
<1> QED
  BY <1>2, <1>3, <1>4, <1>5 DEF Floor

LEMMA FloorNext ==
  ASSUME FreshInv, [Next]_vars, NEW t \in Tables, NEW d \in Days, NEW n \in Nat,
         Floor(t, d, n)
  PROVE  Floor(t, d, n)'
<1>0. Typed
  BY DEF FreshInv
<1>1. CASE SilverChanges \/ UNCHANGED vars
  BY <1>0, <1>1, SilverStep DEF Floor, Current, Target, vars, goldVars, job
<1>2. ASSUME NEW s \in Runners, Step(s) \/ \E x \in Days : Start(s, x)
      PROVE  Floor(t, d, n)'
  <2>1. CASE BeginWrite(s)
    BY <2>1, FloorBeginWrite
  <2>2. CASE CommitWrite(s)
    BY <2>2, FloorCommit
  <2>3. ASSUME NEW x \in Days, Start(s, x) PROVE Floor(t, d, n)'
    <3>1. /\ run'[s] = [pc |-> "ready", date |-> x, at |-> 1, began |-> version,
                        vacuous |-> {}, write |-> NoWrite]
          /\ \A r \in Runners : r # s => run'[r] = run[r]
          /\ UNCHANGED <<version, exists, gold, from, touched>>
      BY <1>0, <2>3, StartStep
    <3>2. run'[s].pc # "writing"
      BY <3>1
    <3> QED
      BY <3>1, <3>2, FloorQuiet
  <2>4. CASE WriteRaises(s) \/ Finish(s) \/ Crash(s)
    <3>1. End(s)
      BY <2>4 DEF WriteRaises, Finish, Crash
    <3>2. /\ run'[s].pc # "writing"
          /\ \A r \in Runners : r # s => run'[r] = run[r]
          /\ UNCHANGED <<from, touched>>
      BY <1>0, <3>1, EndStep DEF Idle
    <3> QED
      BY <3>2, FloorQuiet
  <2> QED
    BY <1>2, <2>1, <2>2, <2>3, <2>4 DEF Step
<1> QED
  BY <1>1, <1>2 DEF Next

(* The bounds and the tables that exist: what the type invariant says of   *)
(* the Gold job beyond Typed and Clocks.                                   *)
TablesInv ==
  /\ silver \in [Events -> 0 .. MaxCopies]
  /\ version \in 0 .. MaxVersion
  /\ exists \subseteq Tables
  /\ \A t \in Tables, d \in Days : gold[t][d] # NoFacts => t \in exists

LEMMA TablesNext ==
  ASSUME Typed, TablesInv, [Next]_vars
  PROVE  TablesInv'
<1>1. CASE SilverChanges
  <2>1. version' = version + 1 /\ UNCHANGED <<exists, gold, from, touched, run>>
    BY <1>1, SilverStep
  <2>2. version' \in 0 .. MaxVersion
    BY <1>1, <2>1, GoldJobAssumption DEF SilverChanges, TablesInv
  <2>3. silver' \in [Events -> 0 .. MaxCopies]
    <3>1. ASSUME NEW d \in Days, Silver!Put(d) PROVE silver' \in [Events -> 0 .. MaxCopies]
      <4>1. PICK rows \in [Events -> 0 .. MaxCopies] :
              silver' = [e \in Events |-> IF silver[e] > 0 THEN silver[e] ELSE rows[e]]
        BY <3>1 DEF Silver!Put, Silver!DayBags
      <4> QED
        BY <4>1 DEF TablesInv
    <3>2. ASSUME NEW d \in Days, Silver!Replace(d) PROVE silver' \in [Events -> 0 .. MaxCopies]
      BY <3>2 DEF Silver!Replace, Silver!DayBags
    <3> QED
      BY <1>1, <3>1, <3>2 DEF SilverChanges, Silver!Next
  <2> QED
    BY <2>1, <2>2, <2>3 DEF TablesInv
<1>2. ASSUME NEW s \in Runners, CommitWrite(s) PROVE TablesInv'
  <2>1. Target(s) \in Tables /\ run[s].date \in Days
    BY <1>2, TargetTyped DEF CommitWrite
  <2>2. /\ exists' = exists \cup {Target(s)} /\ UNCHANGED <<silver, version>>
        /\ gold' = [gold EXCEPT ![Target(s)][run[s].date] = run[s].write.facts]
    BY <1>2 DEF CommitWrite, silverVars
  <2> QED
    BY <2>1, <2>2 DEF TablesInv, Typed
<1>3. ASSUME UNCHANGED <<silverVars, exists, gold>> PROVE TablesInv'
  BY <1>3 DEF TablesInv, silverVars
<1>4. \/ SilverChanges \/ (\E s \in Runners : CommitWrite(s))
      \/ UNCHANGED <<silverVars, exists, gold>>
  BY DEF Next, Step, Start, BeginWrite, WriteRaises, Finish, Crash, End, vars, goldVars
<1> QED
  BY <1>1, <1>2, <1>3, <1>4

(* The loader's own variables.                                             *)
File == [facts : AllFacts \cup {NoFacts}, from : Nat, whole : BOOLEAN]
Loads == [pc : {"count", "counted", "open", "done"}, date : Days, at : 1 .. 3,
          held : [Tables -> Nat], skipped : SUBSET Tables, frame : File]

LoadTyped ==
  /\ staged \in [Tables -> [Days -> File]]
  /\ load \in {Idle} \cup Loads
  /\ \A t \in Tables, d \in Days : staged[t][d].from <= version
  /\ load # Idle => load.frame.from <= version

(* The files that the run has closed, and the frame of the one it is at.   *)
ExportInv ==
  load # Idle =>
    /\ \A t \in Tables : Floor(t, load.date, load.held[t])
    /\ \A i \in 1 .. 3 :
         (i < load.at \/ load.pc = "done") /\ WriteOrder[i] \notin load.skipped =>
           /\ staged[WriteOrder[i]][load.date].whole
           /\ staged[WriteOrder[i]][load.date].from >= load.held[WriteOrder[i]]
    /\ load.pc = "open" => load.frame.whole /\ load.frame.from >= load.held[Loading]

LoadInv == FreshInv /\ TablesInv /\ LoadTyped /\ ExportInv

LEMMA LoadInvInit == LoadInit => LoadInv
<1> SUFFICES ASSUME LoadInit PROVE LoadInv
  OBVIOUS
<1>1. Init /\ load = Idle /\ staged = [t \in Tables |-> [d \in Days |-> NoFile]]
  BY DEF LoadInit
<1>2. FreshInv
  BY <1>1, FreshInit
<1>3. TablesInv
  BY <1>1, GoldJobAssumption DEF Init, Silver!Init, TablesInv
<1>4. version = 0 /\ NoFile \in File /\ NoFile.from = 0
  BY <1>1 DEF Init, Silver!Init, NoFile, File
<1>5. LoadTyped
  BY <1>1, <1>4 DEF LoadTyped
<1> QED
  BY <1>1, <1>2, <1>3, <1>5 DEF LoadInv, ExportInv

(* A loader at work has all the fields, and is at one of the tables.       *)
LEMMA IsLoading ==
  ASSUME LoadTyped, load.pc \in {"count", "counted", "open", "done"}
  PROVE  /\ load \in Loads /\ load # Idle /\ load.at \in 1 .. 3
         /\ Loading \in Tables /\ load.date \in Days /\ load.held \in [Tables -> Nat]
<1>1. load # Idle
  BY DEF Idle
<1>2. load \in Loads
  BY <1>1 DEF LoadTyped
<1> QED
  BY <1>1, <1>2, Order DEF Loads, Loading

(* A step of the job or of Silver keeps the loader's invariant.            *)
LEMMA LoadOther ==
  ASSUME LoadInv, [Next]_vars, UNCHANGED loaderVars
  PROVE  LoadInv'
<1>1. UNCHANGED <<staged, load>> /\ FreshInv' /\ TablesInv'
  BY FreshNext, TablesNext DEF LoadInv, FreshInv, loaderVars
<1>2. version \in Nat /\ version' \in Nat /\ version <= version'
  <2>1. version' = version + 1 \/ version' = version
    BY SilverStep DEF LoadInv, FreshInv, Next, Step, Start, BeginWrite, CommitWrite,
                      WriteRaises, Finish, Crash, End, vars, silverVars
  <2> QED
    BY <2>1 DEF LoadInv, FreshInv, Typed
<1>3. LoadTyped'
  <2>1. \A t \in Tables, d \in Days : staged[t][d].from \in Nat /\ staged[t][d].from <= version
    BY DEF LoadInv, LoadTyped, File
  <2>2. load # Idle => load.frame.from \in Nat /\ load.frame.from <= version
    BY DEF LoadInv, LoadTyped, Loads, File
  <2> QED
    BY <1>1, <1>2, <2>1, <2>2 DEF LoadInv, LoadTyped
<1>4. ExportInv'
  <2>1. ASSUME load # Idle, NEW t \in Tables PROVE Floor(t, load.date, load.held[t])'
    <3>1. load.date \in Days /\ load.held[t] \in Nat
      BY <2>1 DEF LoadInv, LoadTyped, Loads
    <3>2. Floor(t, load.date, load.held[t])
      BY <2>1 DEF LoadInv, ExportInv
    <3>3. ASSUME NEW d \in Days, NEW n \in Nat, Floor(t, d, n) PROVE Floor(t, d, n)'
      BY <3>3, FloorNext DEF LoadInv
    <3>4. \A d \in Days, n \in Nat : d = load'.date /\ n = load'.held[t] /\ Floor(t, d, n)' =>
            Floor(t, load.date, load.held[t])'
      BY DEF Floor
    <3> QED
      BY <1>1, <3>1, <3>2, <3>3, <3>4
  <2> QED
    BY <1>1, <2>1 DEF LoadInv, ExportInv, Loading
<1> QED
  BY <1>1, <1>3, <1>4 DEF LoadInv

(* A run of the loader begins: what it finds becomes the floor.            *)
LEMMA LoadBegins ==
  ASSUME LoadInv, UNCHANGED vars, NEW d \in Days, LoadStart(d)
  PROVE  LoadInv'
<1>0. Typed /\ Clocks /\ NotBehind /\ LoadTyped
  BY DEF LoadInv, FreshInv
<1> DEFINE h == [t \in Tables |-> Held(t, d)]
<1>1. UNCHANGED <<silver, version, exists, gold, from, touched, run>>
  BY DEF vars, silverVars, goldVars, job
<1>2. FreshInv' /\ TablesInv'
  BY <1>1, FreshNext, TablesNext DEF LoadInv, FreshInv
<1>3. h \in [Tables -> Nat] /\ \A t \in Tables : h[t] = Held(t, d)
  BY <1>0 DEF Held, Typed
<1>4. /\ load' = [pc |-> "count", date |-> d, at |-> 1, held |-> h, skipped |-> {},
                  frame |-> NoFile]
      /\ staged' = staged
  BY DEF LoadStart
<1>5. NoFile \in File /\ NoFile.from = 0
  BY DEF NoFile, File
<1> HIDE DEF h
<1>6. load' \in Loads /\ load'.frame = NoFile
  BY <1>3, <1>4, <1>5 DEF Loads
<1>7. LoadTyped'
  BY <1>0, <1>1, <1>4, <1>5, <1>6 DEF LoadTyped, Typed
<1>8. ASSUME NEW t \in Tables PROVE Floor(t, d, h[t])
  <2>1. from[t][d] \in Nat
    BY <1>0 DEF Typed
  <2>2. CASE gold[t][d] = NoFacts
    <3>1. h[t] = 0
      BY <1>3, <2>2 DEF Held
    <3>2. \A r \in Runners : run[r].pc = "writing" => run[r].write.from >= 0
      BY <1>0 DEF Typed, Writes
    <3> QED
      BY <2>1, <3>1, <3>2 DEF Floor
  <2>3. CASE gold[t][d] # NoFacts
    <3>1. h[t] = from[t][d]
      BY <1>3, <2>3 DEF Held
    <3>2. ASSUME NEW r \in Runners, run[r].pc = "writing", Target(r) = t, run[r].date = d,
                 Current(r)
          PROVE  run[r].write.from >= from[t][d]
      BY <1>0, <2>3, <3>2 DEF NotBehind
    <3> QED
      BY <2>1, <3>1, <3>2 DEF Floor
  <2> QED
    BY <2>2, <2>3
<1>9. ExportInv'
  <2>1. load'.date = d /\ load'.held = h /\ load'.at = 1 /\ load'.pc = "count"
    BY <1>4
  <2>2. \A t \in Tables : Floor(t, load.date, load.held[t])'
    BY <1>1, <1>8, <2>1 DEF Floor, Current, Target
  <2> QED
    BY <2>1, <2>2 DEF ExportInv
<1> QED
  BY <1>2, <1>7, <1>9 DEF LoadInv

(* The loader goes on to its next table, or is done with the last.         *)
LEMMA OnwardIs ==
  ASSUME NEW l \in Loads
  PROVE  /\ Onward(l) \in Loads
         /\ Onward(l).date = l.date /\ Onward(l).held = l.held
         /\ Onward(l).skipped = l.skipped /\ Onward(l).frame = NoFile
         /\ IF l.at = 3 THEN Onward(l).pc = "done" /\ Onward(l).at = 3
            ELSE Onward(l).pc = "count" /\ Onward(l).at = l.at + 1
<1>1. NoFile \in File
  BY DEF NoFile, File
<1>2. l.at \in 1 .. 3
  BY DEF Loads
<1>3. CASE l.at = 3
  <2>1. Onward(l) = [l EXCEPT !.pc = "done", !.frame = NoFile]
    BY <1>3, Order DEF Onward
  <2> QED
    BY <1>1, <1>3, <2>1 DEF Loads
<1>4. CASE l.at # 3
  <2>1. Onward(l) = [l EXCEPT !.pc = "count", !.at = @ + 1, !.frame = NoFile]
    BY <1>4, Order DEF Onward
  <2>2. l.at + 1 \in 1 .. 3
    BY <1>2, <1>4
  <2> QED
    BY <1>1, <1>4, <2>1, <2>2 DEF Loads
<1> QED
  BY <1>3, <1>4

(* Closing a file, or passing over an empty day, settles the table the     *)
(* loader is at and changes no other.                                      *)
LEMMA LoadSettles ==
  ASSUME LoadInv, UNCHANGED vars, NEW l \in Loads, load.pc \in {"count", "open"},
         l.date = load.date, l.held = load.held, l.at = load.at,
         load' = Onward(l),
         load.skipped \subseteq l.skipped,
         staged' \in [Tables -> [Days -> File]],
         \A t \in Tables, d \in Days : staged'[t][d].from <= version,
         \A t \in Tables : t # Loading => staged'[t] = staged[t],
         \/ Loading \in l.skipped
         \/ /\ staged'[Loading][load.date].whole
            /\ staged'[Loading][load.date].from >= load.held[Loading]
  PROVE  LoadInv'
<1>0. LoadTyped /\ Typed
  BY DEF LoadInv, FreshInv
<1>1. UNCHANGED <<silver, version, exists, gold, from, touched, run>>
  BY DEF vars, silverVars, goldVars, job
<1>2. FreshInv' /\ TablesInv'
  BY <1>1, FreshNext, TablesNext DEF LoadInv, FreshInv
<1>3. /\ load \in Loads /\ load # Idle /\ load.at \in 1 .. 3
      /\ Loading \in Tables /\ load.date \in Days /\ load.held \in [Tables -> Nat]
  BY <1>0, IsLoading
<1>4. /\ load' \in Loads /\ load'.date = load.date /\ load'.held = load.held
      /\ load'.skipped = l.skipped /\ load'.frame = NoFile
      /\ IF load.at = 3 THEN load'.pc = "done" /\ load'.at = 3
         ELSE load'.pc = "count" /\ load'.at = load.at + 1
  BY OnwardIs
<1>5. LoadTyped'
  <2>1. NoFile.from = 0
    BY DEF NoFile
  <2> QED
    BY <1>0, <1>1, <1>4, <2>1 DEF LoadTyped, Typed
<1>6. \A t \in Tables : Floor(t, load.date, load.held[t])'
  BY <1>1, <1>3, <1>4 DEF LoadInv, ExportInv, Floor, Current, Target
<1>7. ASSUME NEW i \in 1 .. 3, i < load'.at \/ load'.pc = "done",
             WriteOrder[i] \notin load'.skipped
      PROVE  /\ staged'[WriteOrder[i]][load'.date].whole
             /\ staged'[WriteOrder[i]][load'.date].from >= load'.held[WriteOrder[i]]
  <2>1. CASE i = load.at
    BY <1>4, <1>7, <2>1 DEF Loading
  <2>2. CASE i # load.at
    <3>1. i < load.at
      BY <1>3, <1>4, <1>7, <2>2
    <3>2. WriteOrder[i] # Loading /\ WriteOrder[i] \in Tables
      BY <1>3, <2>2, Order DEF Loading
    <3>3. WriteOrder[i] \notin load.skipped
      BY <1>4, <1>7
    <3>4. /\ staged[WriteOrder[i]][load.date].whole
          /\ staged[WriteOrder[i]][load.date].from >= load.held[WriteOrder[i]]
      BY <1>3, <3>1, <3>3 DEF LoadInv, ExportInv
    <3> QED
      BY <1>4, <3>2, <3>4
  <2> QED
    BY <2>1, <2>2
<1>8. load'.pc # "open"
  BY <1>4
<1>9. ExportInv'
  BY <1>6, <1>7, <1>8 DEF ExportInv
<1> QED
  BY <1>2, <1>5, <1>9 DEF LoadInv

LEMMA LoadSkips ==
  ASSUME LoadInv, UNCHANGED vars, SkipEmpty
  PROVE  LoadInv'
<1> DEFINE l == [load EXCEPT !.skipped = @ \cup {Loading}]
<1>0. LoadTyped
  BY DEF LoadInv
<1>1. load.pc = "count" /\ load' = Onward(l) /\ staged' = staged
  BY DEF SkipEmpty
<1>2. load \in Loads /\ Loading \in Tables
  BY <1>0, <1>1, IsLoading
<1>3. /\ l \in Loads /\ l.date = load.date /\ l.held = load.held /\ l.at = load.at
      /\ l.skipped = load.skipped \cup {Loading}
  BY <1>2 DEF Loads
<1> HIDE DEF l
<1> QED
  BY <1>0, <1>1, <1>3, LoadSettles DEF LoadTyped

LEMMA LoadCloses ==
  ASSUME LoadInv, UNCHANGED vars, CloseFile
  PROVE  LoadInv'
<1>0. LoadTyped
  BY DEF LoadInv
<1>1. load.pc = "open" /\ load' = Onward(load)
      /\ staged' = [staged EXCEPT ![Loading][load.date] = load.frame]
  BY DEF CloseFile
<1>2. /\ load \in Loads /\ Loading \in Tables /\ load.date \in Days /\ load # Idle
      /\ load.frame \in File
  BY <1>0, <1>1, IsLoading DEF Loads
<1>3. /\ staged' \in [Tables -> [Days -> File]]
      /\ \A t \in Tables : t # Loading => staged'[t] = staged[t]
      /\ staged'[Loading][load.date] = load.frame
      /\ \A d \in Days : d # load.date => staged'[Loading][d] = staged[Loading][d]
  BY <1>0, <1>1, <1>2 DEF LoadTyped
<1>4. load.frame.whole /\ load.frame.from >= load.held[Loading] /\ load.frame.from <= version
  BY <1>0, <1>1, <1>2 DEF LoadInv, ExportInv, LoadTyped
<1>5. \A t \in Tables, d \in Days : staged'[t][d].from <= version
  BY <1>0, <1>3, <1>4 DEF LoadTyped
<1> QED
  BY <1>1, <1>2, <1>3, <1>4, <1>5, LoadSettles

LEMMA LoadCounts ==
  ASSUME LoadInv, UNCHANGED vars, CountRows
  PROVE  LoadInv'
<1>0. LoadTyped
  BY DEF LoadInv
<1>1. UNCHANGED <<silver, version, exists, gold, from, touched, run>>
  BY DEF vars, silverVars, goldVars, job
<1>2. FreshInv' /\ TablesInv'
  BY <1>1, FreshNext, TablesNext DEF LoadInv, FreshInv
<1>3. load.pc = "count" /\ load' = [load EXCEPT !.pc = "counted"] /\ staged' = staged
  BY DEF CountRows
<1>4. load \in Loads /\ load # Idle
  BY <1>0, <1>3, IsLoading
<1>5. /\ load' \in Loads /\ load'.pc = "counted"
      /\ load'.date = load.date /\ load'.at = load.at /\ load'.held = load.held
      /\ load'.skipped = load.skipped /\ load'.frame = load.frame
  BY <1>3, <1>4 DEF Loads
<1>6. LoadTyped'
  BY <1>0, <1>1, <1>3, <1>4, <1>5 DEF LoadTyped
<1>7. ExportInv'
  BY <1>1, <1>3, <1>4, <1>5 DEF LoadInv, ExportInv, Floor, Current, Target
<1> QED
  BY <1>2, <1>6, <1>7 DEF LoadInv

(* toPandas reads what the partition holds now, which is above the floor;  *)
(* the file it truncates is the one of the table the loader is at.         *)
LEMMA LoadOpens ==
  ASSUME LoadInv, UNCHANGED vars, OpenFile
  PROVE  LoadInv'
<1>0. LoadTyped /\ Typed /\ Clocks
  BY DEF LoadInv, FreshInv
<1>1. UNCHANGED <<silver, version, exists, gold, from, touched, run>>
  BY DEF vars, silverVars, goldVars, job
<1>2. FreshInv' /\ TablesInv'
  BY <1>1, FreshNext, TablesNext DEF LoadInv, FreshInv
<1> DEFINE f == [facts |-> gold[Loading][load.date], from |-> from[Loading][load.date],
                 whole |-> TRUE]
<1>3. /\ load.pc = "counted" /\ load' = [load EXCEPT !.pc = "open", !.frame = f]
      /\ staged' = [staged EXCEPT ![Loading][load.date].whole = FALSE]
  BY DEF OpenFile
<1>4. /\ load \in Loads /\ load # Idle /\ Loading \in Tables /\ load.date \in Days
      /\ load.at \in 1 .. 3
  BY <1>0, <1>3, IsLoading
<1>5. /\ f \in File /\ f.whole /\ f.from = from[Loading][load.date]
      /\ f.from <= version
  BY <1>0, <1>4 DEF Typed, Clocks, File
<1> HIDE DEF f
<1>6. /\ load' \in Loads /\ load'.pc = "open" /\ load'.frame = f
      /\ load'.date = load.date /\ load'.at = load.at /\ load'.held = load.held
      /\ load'.skipped = load.skipped
  BY <1>3, <1>4, <1>5 DEF Loads
<1>7. /\ staged' \in [Tables -> [Days -> File]]
      /\ \A t \in Tables, d \in Days : staged'[t][d].from = staged[t][d].from
      /\ \A t \in Tables : t # Loading => staged'[t] = staged[t]
  <2>1. staged[Loading][load.date] \in File
    BY <1>0, <1>4 DEF LoadTyped
  <2> DEFINE cut == [staged[Loading][load.date] EXCEPT !.whole = FALSE]
  <2>2. cut \in File /\ cut.from = staged[Loading][load.date].from
    BY <2>1 DEF File
  <2>3. staged' = [staged EXCEPT ![Loading][load.date] = cut]
    BY <1>3
  <2> HIDE DEF cut
  <2> QED
    BY <1>0, <1>4, <2>2, <2>3 DEF LoadTyped
<1>8. LoadTyped'
  BY <1>0, <1>1, <1>5, <1>6, <1>7 DEF LoadTyped
<1>9. \A t \in Tables : Floor(t, load.date, load.held[t])'
  BY <1>1, <1>4, <1>6 DEF LoadInv, ExportInv, Floor, Current, Target
<1>10. load'.frame.whole /\ load'.frame.from >= load'.held[Loading']
  <2>1. Loading' = Loading
    BY <1>6 DEF Loading
  <2>2. from[Loading][load.date] >= load.held[Loading]
    BY <1>4 DEF LoadInv, ExportInv, Floor
  <2> QED
    BY <1>5, <1>6, <2>1, <2>2
<1>11. ASSUME NEW i \in 1 .. 3, i < load'.at \/ load'.pc = "done",
              WriteOrder[i] \notin load'.skipped
       PROVE  /\ staged'[WriteOrder[i]][load'.date].whole
              /\ staged'[WriteOrder[i]][load'.date].from >= load'.held[WriteOrder[i]]
  <2>1. i < load.at /\ WriteOrder[i] \notin load.skipped
    BY <1>6, <1>11
  <2>2. WriteOrder[i] # Loading /\ WriteOrder[i] \in Tables
    BY <1>4, <2>1, Order DEF Loading
  <2>3. /\ staged[WriteOrder[i]][load.date].whole
        /\ staged[WriteOrder[i]][load.date].from >= load.held[WriteOrder[i]]
    BY <1>4, <2>1 DEF LoadInv, ExportInv
  <2> QED
    BY <1>6, <1>7, <2>2, <2>3
<1>12. ExportInv'
  BY <1>9, <1>10, <1>11 DEF ExportInv
<1> QED
  BY <1>2, <1>8, <1>12 DEF LoadInv

LEMMA LoadStops ==
  ASSUME LoadInv, UNCHANGED vars, load' = Idle, staged' = staged
  PROVE  LoadInv'
<1>1. UNCHANGED <<silver, version, exists, gold, from, touched, run>>
  BY DEF vars, silverVars, goldVars, job
<1>2. FreshInv' /\ TablesInv'
  BY <1>1, FreshNext, TablesNext DEF LoadInv, FreshInv
<1> QED
  BY <1>1, <1>2 DEF LoadInv, LoadTyped, ExportInv

LEMMA LoadInvNext ==
  ASSUME LoadInv,
         [\/ Next /\ UNCHANGED loaderVars
          \/ LoadStep /\ UNCHANGED vars]_<<vars, loaderVars>>
  PROVE  LoadInv'
<1>1. CASE Next /\ UNCHANGED loaderVars
  BY <1>1, LoadOther
<1>2. CASE LoadStep /\ UNCHANGED vars
  BY <1>2, LoadBegins, LoadSkips, LoadCounts, LoadOpens, LoadCloses, LoadStops
     DEF LoadStep, LoadEnds
<1>3. CASE UNCHANGED <<vars, loaderVars>>
  BY <1>3, LoadOther
<1> QED
  BY <1>1, <1>2, <1>3

(* The loader's invariant, in every state of the Gold job and the loader.  *)
THEOREM LoadSpecInv == LoadSpec => []LoadInv
BY LoadInvInit, LoadInvNext, PTL DEF LoadSpec

(* Every variable of the Gold job and of the loader has its type.          *)
THEOREM ServingTypeOK == LoadSpec => []TypeOK
<1>1. LoadInv => TypeOK
  <2> SUFFICES ASSUME LoadInv PROVE TypeOK
    OBVIOUS
  <2>0. Typed /\ Clocks /\ TablesInv /\ LoadTyped
    BY DEF LoadInv, FreshInv
  <2>1. \A t \in Tables, d \in Days :
          /\ from[t][d] \in 0 .. version
          /\ touched[t][d] \in Nat
          /\ gold[t][d] # NoFacts => t \in exists
          /\ staged[t][d].from \in 0 .. version
    BY <2>0 DEF Typed, Clocks, TablesInv, LoadTyped, File
  <2>2. ASSUME NEW s \in Runners, run[s] # Idle
        PROVE  /\ run[s].pc \in {"ready", "writing", "done"}
               /\ run[s].date \in Days
               /\ run[s].at \in 1 .. Len(WriteOrder)
               /\ run[s].began \in 0 .. version
               /\ run[s].pc = "writing" => run[s].write.from \in run[s].began .. version
    <3>1. run[s] \in Active
      BY <2>0, <2>2 DEF Typed
    <3>2. run[s].pc = "writing" => run[s].write.from \in Nat
      BY <2>0 DEF Typed, Writes
    <3> QED
      BY <2>0, <2>2, <3>1, <3>2, Order DEF Active, Clocks, Typed
  <2>3. load # Idle =>
          /\ load.pc \in {"count", "counted", "open", "done"}
          /\ load.date \in Days
          /\ load.at \in 1 .. Len(WriteOrder)
          /\ load.skipped \subseteq Tables
    BY <2>0, Order DEF LoadTyped, Loads
  <2> QED
    BY <2>0, <2>1, <2>2, <2>3 DEF TypeOK, TablesInv
<1> QED
  BY <1>1, LoadSpecInv, PTL

(* A run of the loader that completes leaves, for every table it did not   *)
(* skip, a whole file no older than what Gold held when the run began:     *)
(* ExportFollowsGold, whatever runs of the Gold job do meanwhile.          *)
THEOREM ExportIsFresh == LoadSpec => []ExportFollowsGold
<1>1. LoadInv => ExportFollowsGold
  <2> SUFFICES ASSUME LoadInv, load.pc = "done", NEW t \in Tables \ load.skipped
               PROVE  staged[t][load.date].whole /\ staged[t][load.date].from >= load.held[t]
    BY DEF ExportFollowsGold
  <2>1. load # Idle
    BY DEF Idle
  <2>2. PICK i \in 1 .. 3 : WriteOrder[i] = t
    BY Order
  <2> QED
    BY <2>1, <2>2 DEF LoadInv, ExportInv
<1> QED
  BY <1>1, LoadSpecInv, PTL

=============================================================================
