--------------------------- MODULE SnowflakeLoader ----------------------------
(***************************************************************************)
(* The loader: serving/snowflake/04_snowflake_loader.py, which stages one  *)
(* day of the three Gold tables as files, next to the Gold job.            *)
(***************************************************************************)
EXTENDS GoldJob

CONSTANT MaxLoads   (* bound: runs of the loader                           *)

ASSUME SnowflakeLoaderAssumption == MaxLoads \in Nat

VARIABLES
  staged,   (* the file of each table and day: its facts, the version of   *)
            (* Silver that they are from, and whether it is complete       *)
  load,     (* what the loader is at: its --date, the table (by number in  *)
            (* WriteOrder), what Gold held when it began (by version of    *)
            (* Silver), the tables it skipped, and the rows toPandas has   *)
            (* collected                                                   *)
  loads     (* runs started                                                *)

loaderVars == <<staged, load, loads>>

Loading == WriteOrder[load.at]

Held(t, d) == IF gold[t][d] = NoFacts THEN 0 ELSE from[t][d]

NoFile == [facts |-> NoFacts, from |-> 0, whole |-> FALSE]

LoadStart(d) ==
  /\ load = Idle
  /\ loads < MaxLoads
  /\ loads' = loads + 1
  /\ load' = [pc |-> "count", date |-> d, at |-> 1, held |-> [t \in Tables |-> Held(t, d)],
              skipped |-> {}, frame |-> NoFile]
  /\ UNCHANGED staged

(* For mutation: one table too many.                                       *)
OnwardPast(l) ==
  IF l.at > Len(WriteOrder) THEN [l EXCEPT !.pc = "done", !.frame = NoFile]
  ELSE [l EXCEPT !.pc = "count", !.at = @ + 1, !.frame = NoFile]

(* The loader after this table.                                            *)
Onward(l) ==
  IF l.at = Len(WriteOrder) THEN [l EXCEPT !.pc = "done", !.frame = NoFile]
  ELSE [l EXCEPT !.pc = "count", !.at = @ + 1, !.frame = NoFile]

(* load_table: a day without rows is skipped, and its file left as it is.  *)
SkipEmpty ==
  /\ load.pc = "count"
  /\ Loading \in exists
  /\ gold[Loading][load.date] = NoFacts
  /\ load' = Onward([load EXCEPT !.skipped = @ \cup {Loading}])
  /\ UNCHANGED <<staged, loads>>

CountRows ==
  /\ load.pc = "count"
  /\ Loading \in exists
  /\ gold[Loading][load.date] # NoFacts
  /\ load' = [load EXCEPT !.pc = "counted"]
  /\ UNCHANGED <<staged, loads>>

(* toPandas reads the partition again, and to_csv truncates the file.      *)
OpenFile ==
  /\ load.pc = "counted"
  /\ load' = [load EXCEPT !.pc = "open", !.frame =
       [facts |-> gold[Loading][load.date], from |-> from[Loading][load.date], whole |-> TRUE]]
  /\ staged' = [staged EXCEPT ![Loading][load.date].whole = FALSE]
  /\ UNCHANGED loads

CloseFile ==
  /\ load.pc = "open"
  /\ staged' = [staged EXCEPT ![Loading][load.date] = load.frame]
  /\ load' = Onward(load)
  /\ UNCHANGED loads

(* For mutation: the error of a table is logged and not raised.            *)
LoadGoesOn ==
  /\ load # Idle
  /\ load' = IF load.pc = "done" THEN Idle ELSE Onward(load)
  /\ UNCHANGED <<staged, loads>>

(* main has loaded the three tables; or the loader dies, or reads a table  *)
(* that does not exist, and raises.                                        *)
LoadEnds ==
  /\ load # Idle
  /\ load' = Idle
  /\ UNCHANGED <<staged, loads>>

LoadInit ==
  /\ Init
  /\ staged = [t \in Tables |-> [d \in Days |-> NoFile]]
  /\ load = Idle
  /\ loads = 0

LoadStep ==
  \/ SkipEmpty \/ CountRows \/ OpenFile \/ CloseFile \/ LoadEnds
  \/ \E d \in Days : LoadStart(d)

LoadSpec ==
  LoadInit /\ [][\/ Next /\ UNCHANGED loaderVars
                 \/ LoadStep /\ UNCHANGED vars]_<<vars, loaderVars>>

-----------------------------------------------------------------------------
(* Properties.                                                             *)

(* Every variable has its type; nothing is newer than Silver itself, and a *)
(* partition with facts belongs to a table that exists.                    *)
TypeOK ==
  /\ silver \in [Events -> 0 .. MaxCopies]
  /\ version \in 0 .. MaxVersion
  /\ exists \subseteq Tables
  /\ \A t \in Tables, d \in Days :
       /\ from[t][d] \in 0 .. version
       /\ touched[t][d] \in Nat
       /\ gold[t][d] # NoFacts => t \in exists
       /\ staged[t][d].from \in 0 .. version
  /\ \A s \in Runners : run[s] # Idle =>
       /\ run[s].pc \in {"ready", "writing", "done"}
       /\ run[s].date \in Days
       /\ run[s].at \in 1 .. Len(WriteOrder)
       /\ run[s].began \in 0 .. version
       /\ run[s].pc = "writing" => run[s].write.from \in run[s].began .. version
  /\ load # Idle =>
       /\ load.pc \in {"count", "counted", "open", "done"}
       /\ load.date \in Days
       /\ load.at \in 1 .. Len(WriteOrder)
       /\ load.skipped \subseteq Tables

(* The loader reads three tables one after the other, each of them twice,  *)
(* while Gold is rewritten: when a run completes, each file is complete    *)
(* and no older than what Gold held when the run began, also where a run   *)
(* before it died in the middle of a file.  A day that Gold has emptied is *)
(* the exception: it keeps the file it had.                                *)
ExportFollowsGold ==
  load.pc = "done" =>
    \A t \in Tables \ load.skipped :
      staged[t][load.date].whole /\ staged[t][load.date].from >= load.held[t]

=============================================================================
