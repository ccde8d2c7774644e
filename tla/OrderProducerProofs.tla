-------------------------- MODULE OrderProducerProofs --------------------------
(***************************************************************************)
(* What the order producer's counters mean, and in what order and how      *)
(* often its records land, for any topic, number of retries and number of  *)
(* events.                                                                 *)
(***************************************************************************)
EXTENDS OrderProducer, SequenceTheorems, FiniteSetTheorems, TLAPS

-----------------------------------------------------------------------------
(* Sequences and their elements.                                           *)

(* The elements of a concatenation.                                        *)
LEMMA ConcatSet ==
  ASSUME NEW S, NEW s \in Seq(S), NEW t \in Seq(S)
  PROVE  ToSet(s \o t) = ToSet(s) \cup ToSet(t)
<1>1. s \o t \in Seq(S) /\ Len(s \o t) = Len(s) + Len(t)
  BY ConcatProperties
<1>2. \A i \in 1 .. Len(s) + Len(t) : (s \o t)[i] = IF i <= Len(s) THEN s[i] ELSE t[i - Len(s)]
  BY ConcatProperties
<1>3. DOMAIN (s \o t) = 1 .. Len(s) + Len(t) /\ DOMAIN s = 1 .. Len(s) /\ DOMAIN t = 1 .. Len(t) /\ Len(s) \in Nat /\ Len(t) \in Nat
  BY <1>1
<1>4. ASSUME NEW i \in DOMAIN (s \o t) PROVE (s \o t)[i] \in ToSet(s) \cup ToSet(t)
  <2>1. CASE i <= Len(s)
    BY <1>2, <1>3, <2>1 DEF ToSet
  <2>2. CASE i > Len(s)
    <3>1. i - Len(s) \in DOMAIN t
      BY <1>3, <2>2
    <3> QED
      BY <1>2, <1>3, <2>2, <3>1 DEF ToSet
  <2> QED
    BY <1>3, <2>1, <2>2
<1>5. ASSUME NEW i \in DOMAIN s PROVE s[i] \in ToSet(s \o t)
  BY <1>2, <1>3 DEF ToSet
<1>6. ASSUME NEW i \in DOMAIN t PROVE t[i] \in ToSet(s \o t)
  <2>1. i + Len(s) \in DOMAIN (s \o t) /\ (s \o t)[i + Len(s)] = t[i]
    BY <1>2, <1>3
  <2> QED
    BY <2>1 DEF ToSet
<1> QED
  BY <1>4, <1>5, <1>6 DEF ToSet

(* The element of a sequence of one.                                       *)
LEMMA SingleSet == ASSUME NEW x PROVE ToSet(<<x>>) = {x}
BY DEF ToSet

(* The elements of a sequence that one is appended to.                     *)
LEMMA AppendSet ==
  ASSUME NEW S, NEW s \in Seq(S), NEW x \in S
  PROVE  ToSet(Append(s, x)) = ToSet(s) \cup {x}
<1>1. <<x>> \in Seq(S)
  OBVIOUS
<1>2. Append(s, x) = s \o <<x>>
  BY AppendIsConcat
<1>3. ToSet(s \o <<x>>) = ToSet(s) \cup ToSet(<<x>>)
  BY <1>1, ConcatSet
<1>4. ToSet(<<x>>) = {x}
  BY SingleSet
<1> QED
  BY <1>2, <1>3, <1>4

(* The elements of a sequence are its head and those of its tail.          *)
LEMMA HeadTailSet ==
  ASSUME NEW S, NEW s \in Seq(S), s # <<>>
  PROVE  ToSet(s) = {Head(s)} \cup ToSet(Tail(s))
<1>1. Head(s) \in S /\ Tail(s) \in Seq(S)
  BY HeadTailProperties
<1>2. s = <<Head(s)>> \o Tail(s)
  OBVIOUS
<1>3. <<Head(s)>> \in Seq(S)
  BY <1>1
<1>4. ToSet(<<Head(s)>> \o Tail(s)) = ToSet(<<Head(s)>>) \cup ToSet(Tail(s))
  BY <1>1, <1>3, ConcatSet
<1>5. ToSet(<<Head(s)>>) = {Head(s)}
  BY SingleSet
<1> QED
  BY <1>2, <1>4, <1>5

-----------------------------------------------------------------------------
(* Batches.                                                                *)

Batches == [records : Seq(Nat) \ {<<>>}, tries : 0 .. RETRIES]
Orders  == [id : Nat \ {EmptyId}, fields : {REQUIRED_FIELDS}, hash : OrderPartitions]

(* The records in a queue of batches.                                      *)
Held(q) == UNION {InBatch(b) : b \in ToSet(q)}

(* A batch with other records.                                             *)
LEMMA OtherRecords ==
  ASSUME NEW b \in Batches, NEW a
  PROVE  [b EXCEPT !.records = a] = [records |-> a, tries |-> b.tries]
BY DEF Batches

(* What the client holds of a partition.                                   *)
LEMMA PendingHeld ==
  ASSUME NEW p
  PROVE  Pending(p) = Held(queue[p]) \cup Held(inFlight[p])
BY DEF Pending, Held

(* An empty queue holds nothing.                                           *)
LEMMA HeldEmpty == Held(<<>>) = {}
BY DEF Held, ToSet

(* A batch that is put at either end adds its records.                     *)
LEMMA HeldAppend ==
  ASSUME NEW q \in Seq(Batches), NEW b \in Batches
  PROVE  /\ Append(q, b) \in Seq(Batches)
         /\ Held(Append(q, b)) = Held(q) \cup InBatch(b)
<1>1. ToSet(Append(q, b)) = ToSet(q) \cup {b}
  BY AppendSet
<1> QED
  BY <1>1 DEF Held

LEMMA HeldPrepend ==
  ASSUME NEW q \in Seq(Batches), NEW b \in Batches
  PROVE  /\ <<b>> \o q \in Seq(Batches)
         /\ Held(<<b>> \o q) = Held(q) \cup InBatch(b)
<1>1. <<b>> \in Seq(Batches)
  OBVIOUS
<1>2. ToSet(<<b>> \o q) = ToSet(<<b>>) \cup ToSet(q)
  BY <1>1, ConcatSet
<1>3. ToSet(<<b>>) = {b}
  BY SingleSet
<1>4. <<b>> \o q \in Seq(Batches)
  BY <1>1, ConcatProperties
<1> QED
  BY <1>2, <1>3, <1>4 DEF Held

(* Taking the first batch takes its records.                               *)
LEMMA HeldHead ==
  ASSUME NEW q \in Seq(Batches), q # <<>>
  PROVE  /\ Head(q) \in Batches /\ Tail(q) \in Seq(Batches)
         /\ Held(q) = InBatch(Head(q)) \cup Held(Tail(q))
<1>1. ToSet(q) = {Head(q)} \cup ToSet(Tail(q))
  BY HeadTailSet
<1>2. Head(q) \in Batches /\ Tail(q) \in Seq(Batches)
  BY HeadTailProperties
<1> QED
  BY <1>1, <1>2 DEF Held

(* A queue that holds no record is empty: no batch is.                     *)
LEMMA NothingHeld ==
  ASSUME NEW q \in Seq(Batches), Held(q) = {}
  PROVE  q = <<>>
<1> SUFFICES ASSUME q # <<>> PROVE FALSE
  OBVIOUS
<1>1. Head(q) \in Batches /\ InBatch(Head(q)) \subseteq Held(q)
  BY HeldHead
<1>2. Head(q).records \in Seq(Nat) /\ Head(q).records # <<>>
  BY <1>1 DEF Batches
<1>3. 1 \in DOMAIN Head(q).records
  BY <1>2
<1> QED
  BY <1>1, <1>3 DEF InBatch, ToSet

-----------------------------------------------------------------------------
(* The invariant.                                                          *)

Typed ==
  /\ pc \in {"while", "body", "flush", "closed", "died"}
  /\ running \in BOOLEAN
  /\ sent \in Nat /\ dlq \in Nat /\ sent + dlq <= MaxEvents
  /\ pc = "body" => sent + dlq < MaxEvents
  /\ recent \in Seq(Orders) /\ Len(recent) <= RECENT_EVENTS
  /\ queue \in [Partitions -> Seq(Batches)]
  /\ inFlight \in [Partitions -> Seq(Batches)]
  /\ log \in [Partitions -> Seq(Nat)]

(* Where the records of a partition are.                                   *)
Known(p) == Landed(p) \cup Pending(p)

(* Nothing is in a topic, in the client or reported that was not counted.  *)
OnlyAccepted ==
  /\ failed \subseteq Accepted
  /\ \A p \in Partitions : Known(p) \subseteq Accepted

(* Nothing that was counted is forgotten while the process lives.          *)
NoneForgotten ==
  pc # "died" => \A n \in Accepted : n \in failed \/ \E p \in Partitions : n \in Known(p)

(* After close() the client holds nothing.                                 *)
ClosedEmpty ==
  pc = "closed" => \A p \in Partitions : queue[p] = <<>> /\ inFlight[p] = <<>>

Inv == Typed /\ OnlyAccepted /\ NoneForgotten /\ ClosedEmpty

(* The invariant holds at the start.                                       *)
LEMMA InvInit == Init => Inv
<1> SUFFICES ASSUME Init PROVE Inv
  OBVIOUS
<1>1. /\ sent = 0 /\ dlq = 0 /\ pc = "while" /\ running = TRUE /\ recent = <<>> /\ failed = {}
      /\ queue = [p \in Partitions |-> <<>>] /\ inFlight = [p \in Partitions |-> <<>>]
      /\ log = [p \in Partitions |-> <<>>]
  BY DEF Init
<1>2. Typed
  BY <1>1, OrderProducerAssumption DEF Typed
<1>3. Accepted = {}
  BY <1>1 DEF Accepted
<1>4. ASSUME NEW p \in Partitions PROVE Known(p) = {}
  <2>1. Landed(p) = {}
    BY <1>1 DEF Landed, ToSet
  <2>2. Pending(p) = {}
    <3>1. queue[p] = <<>> /\ inFlight[p] = <<>>
      BY <1>1
    <3> QED
      BY <3>1, PendingHeld, HeldEmpty
  <2> QED
    BY <2>1, <2>2 DEF Known
<1> QED
  BY <1>1, <1>2, <1>3, <1>4 DEF Inv, OnlyAccepted, NoneForgotten, ClosedEmpty

-----------------------------------------------------------------------------
(* The client's steps.                                                     *)

(* What a step of the client does to one partition: nothing that it held,  *)
(* or that has landed or failed, is lost; the program is not touched.      *)
Moves(p) ==
  /\ UNCHANGED <<main, recent, counts>>
  /\ queue[p] # <<>> \/ inFlight[p] # <<>>
  /\ queue' \in [Partitions -> Seq(Batches)]
  /\ inFlight' \in [Partitions -> Seq(Batches)]
  /\ log' \in [Partitions -> Seq(Nat)]
  /\ failed \subseteq failed'
  /\ failed' \cup Known(p)' = failed \cup Known(p)
  /\ \A q \in Partitions : q # p => Known(q)' = Known(q)

(* Whatever so moves keeps the invariant.                                  *)
LEMMA MovesKeepInv ==
  ASSUME Inv, NEW p \in Partitions, Moves(p)
  PROVE  Inv'
<1>1. UNCHANGED <<pc, running, recent, sent, dlq>>
  BY DEF Moves, main, counts
<1>2. Typed'
  BY <1>1 DEF Inv, Typed, Moves
<1>3. Accepted' = Accepted
  BY <1>1 DEF Accepted
<1>4. OnlyAccepted'
  BY <1>3 DEF Inv, OnlyAccepted, Moves
<1>5. NoneForgotten'
  BY <1>1, <1>3 DEF Inv, NoneForgotten, Moves
<1>6. ClosedEmpty'
  BY <1>1 DEF Inv, ClosedEmpty, Moves
<1> QED
  BY <1>2, <1>4, <1>5, <1>6 DEF Inv

(* Sending the first batch moves it to those in flight.                    *)
LEMMA DrainMoves ==
  ASSUME Typed, NEW p \in Partitions, Drain(p)
  PROVE  Moves(p)
<1> DEFINE b == Head(queue[p])
<1>1. /\ queue[p] \in Seq(Batches) /\ inFlight[p] \in Seq(Batches) /\ queue[p] # <<>>
      /\ inFlight' = [inFlight EXCEPT ![p] = Append(@, b)]
      /\ queue' = [queue EXCEPT ![p] = Tail(@)]
      /\ UNCHANGED <<main, recent, counts, failed, log>>
  BY DEF Typed, Drain
<1>2. /\ b \in Batches /\ Tail(queue[p]) \in Seq(Batches)
      /\ Held(queue[p]) = InBatch(b) \cup Held(Tail(queue[p]))
  BY <1>1, HeldHead
<1>3. /\ Append(inFlight[p], b) \in Seq(Batches)
      /\ Held(Append(inFlight[p], b)) = Held(inFlight[p]) \cup InBatch(b)
  BY <1>1, <1>2, HeldAppend
<1> HIDE DEF b
<1>4. queue' \in [Partitions -> Seq(Batches)] /\ inFlight' \in [Partitions -> Seq(Batches)]
  BY <1>1, <1>2, <1>3 DEF Typed
<1>5. queue'[p] = Tail(queue[p]) /\ inFlight'[p] = Append(inFlight[p], b)
  BY <1>1 DEF Typed
<1>6. \A q \in Partitions : q # p => queue'[q] = queue[q] /\ inFlight'[q] = inFlight[q]
  BY <1>1 DEF Typed
<1>7. Pending(p)' = Pending(p)
  BY <1>2, <1>3, <1>5 DEF Pending, Held
<1>8. \A q \in Partitions : q # p => Pending(q)' = Pending(q)
  BY <1>6 DEF Pending
<1>9. \A q \in Partitions : Landed(q)' = Landed(q)
  BY <1>1 DEF Landed
<1> QED
  BY <1>1, <1>4, <1>7, <1>8, <1>9 DEF Moves, Known, Typed

(* The batch whose answer is awaited leaves those in flight.               *)
LEMMA AnsweredTakes ==
  ASSUME Typed, NEW p \in Partitions, Answered(p)
  PROVE  /\ Head(inFlight[p]) \in Batches
         /\ inFlight' \in [Partitions -> Seq(Batches)]
         /\ inFlight[p] # <<>>
         /\ Held(inFlight[p]) = InBatch(Head(inFlight[p])) \cup Held(inFlight'[p])
         /\ \A q \in Partitions : q # p => inFlight'[q] = inFlight[q]
         /\ UNCHANGED <<main, recent, counts>>
<1>1. inFlight[p] \in Seq(Batches) /\ inFlight[p] # <<>>
  BY DEF Typed, Answered
<1>2. /\ Head(inFlight[p]) \in Batches /\ Tail(inFlight[p]) \in Seq(Batches)
      /\ Held(inFlight[p]) = InBatch(Head(inFlight[p])) \cup Held(Tail(inFlight[p]))
  BY <1>1, HeldHead
<1>3. inFlight'[p] = Tail(inFlight[p])
  BY DEF Typed, Answered
<1>4. inFlight' \in [Partitions -> Seq(Batches)]
  BY <1>2 DEF Typed, Answered
<1>5. \A q \in Partitions : q # p => inFlight'[q] = inFlight[q]
  BY DEF Typed, Answered
<1> QED
  BY <1>1, <1>2, <1>3, <1>4, <1>5 DEF Answered

(* What the broker does with a batch: it is appended, or it is not.        *)
LEMMA BrokerAppends ==
  ASSUME Typed, NEW p \in Partitions, Head(inFlight[p]) \in Batches,
         Appended(p) \/ UNCHANGED log
  PROVE  /\ log' \in [Partitions -> Seq(Nat)]
         /\ \A q \in Partitions : q # p => Landed(q)' = Landed(q)
         /\ Landed(p)' \in {Landed(p), Landed(p) \cup InBatch(Head(inFlight[p]))}
         /\ Appended(p) => Landed(p)' = Landed(p) \cup InBatch(Head(inFlight[p]))
<1> DEFINE r == Head(inFlight[p]).records
<1>1. r \in Seq(Nat) /\ log[p] \in Seq(Nat)
  BY DEF Batches, Typed
<1>2. log[p] \o r \in Seq(Nat)
  BY <1>1, ConcatProperties
<1>3. ToSet(log[p] \o r) = ToSet(log[p]) \cup ToSet(r)
  BY <1>1, ConcatSet
<1>4. CASE Appended(p)
  <2>1. log' = [log EXCEPT ![p] = @ \o r]
    BY <1>4 DEF Appended
  <2> HIDE DEF r
  <2>2. log' \in [Partitions -> Seq(Nat)] /\ log'[p] = log[p] \o r
    BY <1>2, <2>1 DEF Typed
  <2>3. \A q \in Partitions : q # p => log'[q] = log[q]
    BY <2>1 DEF Typed
  <2> QED
    BY <1>3, <2>2, <2>3 DEF Landed, InBatch, r
<1>5. CASE UNCHANGED log /\ ~ Appended(p)
  BY <1>5 DEF Landed, Typed
<1> QED
  BY <1>4, <1>5

(* An acknowledged batch has landed.                                       *)
LEMMA AcknowledgeMoves ==
  ASSUME Typed, NEW p \in Partitions, Acknowledge(p)
  PROVE  Moves(p)
<1>0. Answered(p) /\ Appended(p) /\ UNCHANGED <<queue, failed>>
  BY DEF Acknowledge
<1>1. /\ Head(inFlight[p]) \in Batches
      /\ inFlight' \in [Partitions -> Seq(Batches)]
      /\ inFlight[p] # <<>>
      /\ Held(inFlight[p]) = InBatch(Head(inFlight[p])) \cup Held(inFlight'[p])
      /\ \A q \in Partitions : q # p => inFlight'[q] = inFlight[q]
      /\ UNCHANGED <<main, recent, counts>>
  BY <1>0, AnsweredTakes
<1>2. /\ log' \in [Partitions -> Seq(Nat)]
      /\ \A q \in Partitions : q # p => Landed(q)' = Landed(q)
      /\ Landed(p)' = Landed(p) \cup InBatch(Head(inFlight[p]))
  BY <1>0, <1>1, BrokerAppends
<1>3. Pending(p) = InBatch(Head(inFlight[p])) \cup Pending(p)'
  BY <1>0, <1>1 DEF Pending, Held
<1>4. \A q \in Partitions : q # p => Pending(q)' = Pending(q)
  BY <1>0, <1>1 DEF Pending
<1> QED
  BY <1>0, <1>1, <1>2, <1>3, <1>4 DEF Moves, Known, Typed

(* A batch to be sent again goes back to the queue.                        *)
LEMMA RetryMoves ==
  ASSUME Typed, NEW p \in Partitions, Retry(p)
  PROVE  Moves(p)
<1> DEFINE b == Head(inFlight[p])
<1>a. Answered(p)
  BY DEF Retry
<1>0. /\ b.tries < RETRIES
      /\ Appended(p) \/ UNCHANGED log
      /\ queue' = [queue EXCEPT ![p] = <<Retried(b)>> \o @]
      /\ UNCHANGED failed
  BY DEF Retry
<1>1. /\ b \in Batches
      /\ inFlight' \in [Partitions -> Seq(Batches)]
      /\ inFlight[p] # <<>>
      /\ Held(inFlight[p]) = InBatch(b) \cup Held(inFlight'[p])
      /\ \A q \in Partitions : q # p => inFlight'[q] = inFlight[q]
      /\ UNCHANGED <<main, recent, counts>>
  BY <1>a, AnsweredTakes
<1>2. /\ log' \in [Partitions -> Seq(Nat)]
      /\ \A q \in Partitions : q # p => Landed(q)' = Landed(q)
      /\ Landed(p)' \in {Landed(p), Landed(p) \cup InBatch(b)}
  BY <1>0, <1>1, BrokerAppends
<1> HIDE DEF b
<1>3. Retried(b) \in Batches /\ InBatch(Retried(b)) = InBatch(b)
  <2>1. b.records \in Seq(Nat) \ {<<>>} /\ b.tries \in 0 .. RETRIES /\ RETRIES \in Nat
    BY <1>1, OrderProducerAssumption DEF Batches
  <2>2. Retried(b) = [records |-> b.records, tries |-> b.tries + 1]
    BY <1>1 DEF Retried, Batches
  <2>3. b.tries + 1 \in 0 .. RETRIES
    BY <1>0, <2>1
  <2> QED
    BY <2>1, <2>2, <2>3 DEF Batches, InBatch
<1>4. /\ <<Retried(b)>> \o queue[p] \in Seq(Batches)
      /\ Held(<<Retried(b)>> \o queue[p]) = Held(queue[p]) \cup InBatch(Retried(b))
  BY <1>3, HeldPrepend DEF Typed
<1>5. queue' \in [Partitions -> Seq(Batches)] /\ queue'[p] = <<Retried(b)>> \o queue[p]
  BY <1>0, <1>4 DEF Typed
<1>6. \A q \in Partitions : q # p => queue'[q] = queue[q]
  BY <1>0 DEF Typed
<1>7. Pending(p)' = Pending(p)
  BY <1>1, <1>3, <1>4, <1>5 DEF Pending, Held
<1>8. \A q \in Partitions : q # p => Pending(q)' = Pending(q)
  BY <1>1, <1>6 DEF Pending
<1>9. InBatch(b) \subseteq Pending(p)
  BY <1>1 DEF Pending, Held
<1> QED
  BY <1>0, <1>1, <1>2, <1>5, <1>7, <1>8, <1>9 DEF Moves, Known, Typed

(* A batch that is given up is reported.                                   *)
LEMMA GiveUpMoves ==
  ASSUME Typed, NEW p \in Partitions, GiveUp(p)
  PROVE  Moves(p)
<1> DEFINE b == Head(inFlight[p])
<1>a. Answered(p)
  BY DEF GiveUp
<1>0. /\ Appended(p) \/ UNCHANGED log
      /\ failed' = failed \cup InBatch(b)
      /\ UNCHANGED queue
  BY DEF GiveUp, Reported
<1>1. /\ b \in Batches
      /\ inFlight' \in [Partitions -> Seq(Batches)]
      /\ inFlight[p] # <<>>
      /\ Held(inFlight[p]) = InBatch(b) \cup Held(inFlight'[p])
      /\ \A q \in Partitions : q # p => inFlight'[q] = inFlight[q]
      /\ UNCHANGED <<main, recent, counts>>
  BY <1>a, AnsweredTakes
<1>2. /\ log' \in [Partitions -> Seq(Nat)]
      /\ \A q \in Partitions : q # p => Landed(q)' = Landed(q)
      /\ Landed(p)' \in {Landed(p), Landed(p) \cup InBatch(b)}
  BY <1>0, <1>1, BrokerAppends
<1> HIDE DEF b
<1>3. Pending(p) = InBatch(b) \cup Pending(p)'
  BY <1>0, <1>1 DEF Pending, Held
<1>4. \A q \in Partitions : q # p => Pending(q)' = Pending(q)
  BY <1>0, <1>1 DEF Pending
<1> QED
  BY <1>0, <1>1, <1>2, <1>3, <1>4 DEF Moves, Known, Typed

(* So is one that is not sent in time.                                     *)
LEMMA ExpireMoves ==
  ASSUME Typed, NEW p \in Partitions, Expire(p)
  PROVE  Moves(p)
<1> DEFINE b == Head(queue[p])
<1>0. /\ queue[p] \in Seq(Batches) /\ queue[p] # <<>>
      /\ failed' = failed \cup InBatch(b)
      /\ queue' = [queue EXCEPT ![p] = Tail(@)]
      /\ UNCHANGED <<main, recent, counts, inFlight, log>>
  BY DEF Expire, Reported, Typed
<1>1. Tail(queue[p]) \in Seq(Batches) /\ Held(queue[p]) = InBatch(b) \cup Held(Tail(queue[p]))
  BY <1>0, HeldHead
<1> HIDE DEF b
<1>2. queue' \in [Partitions -> Seq(Batches)] /\ queue'[p] = Tail(queue[p])
  BY <1>0, <1>1 DEF Typed
<1>3. \A q \in Partitions : q # p => queue'[q] = queue[q]
  BY <1>0 DEF Typed
<1>4. Pending(p) = InBatch(b) \cup Pending(p)'
  BY <1>0, <1>1, <1>2 DEF Pending, Held
<1>5. \A q \in Partitions : q # p => Pending(q)' = Pending(q)
  BY <1>0, <1>3 DEF Pending
<1>6. \A q \in Partitions : Landed(q)' = Landed(q)
  BY <1>0 DEF Landed
<1> QED
  BY <1>0, <1>2, <1>4, <1>5, <1>6 DEF Moves, Known, Typed

(* Everything the client's own thread does so moves.                       *)
LEMMA SenderMoves ==
  ASSUME Typed, NEW p \in Partitions, Sender(p) \/ Expire(p)
  PROVE  Moves(p)
BY DrainMoves, AcknowledgeMoves, RetryMoves, GiveUpMoves, ExpireMoves DEF Sender, Answer

-----------------------------------------------------------------------------
(* The main thread's steps.                                                *)

(* send() adds one record to what the client holds of one partition.       *)
LEMMA SendAdds ==
  ASSUME Typed, NEW n \in Nat, NEW p \in Partitions, Send(n, p)
  PROVE  /\ queue' \in [Partitions -> Seq(Batches)]
         /\ UNCHANGED <<inFlight, failed, log>>
         /\ Known(p)' = Known(p) \cup {n}
         /\ \A q \in Partitions : q # p => Known(q)' = Known(q)
<1> DEFINE q == queue[p]
<1>1. q \in Seq(Batches) /\ UNCHANGED <<inFlight, failed, log>>
  BY DEF Typed, Send
<1>2. /\ queue' \in [Partitions -> Seq(Batches)]
      /\ Held(queue'[p]) = Held(q) \cup {n}
      /\ \A r \in Partitions : r # p => queue'[r] = queue[r]
  <2>1. CASE queue' = [queue EXCEPT ![p] = Append(@, Batch(<<n>>))]
    <3>1. Batch(<<n>>) \in Batches /\ InBatch(Batch(<<n>>)) = {n}
      BY OrderProducerAssumption DEF Batch, Batches, InBatch, ToSet
    <3>2. /\ Append(q, Batch(<<n>>)) \in Seq(Batches)
          /\ Held(Append(q, Batch(<<n>>))) = Held(q) \cup InBatch(Batch(<<n>>))
      BY <1>1, <3>1, HeldAppend
    <3> QED
      BY <2>1, <3>1, <3>2 DEF Typed
  <2>2. CASE /\ q # <<>>
             /\ queue' = [queue EXCEPT ![p][Len(q)].records = Append(@, n)]
    <3> DEFINE last == q[Len(q)]
               more == [records |-> Append(last.records, n), tries |-> last.tries]
               r    == [q EXCEPT ![Len(q)] = more]
    <3>1. Len(q) \in DOMAIN q /\ last \in Batches /\ DOMAIN q = 1 .. Len(q)
      BY <1>1, <2>2
    <3>2. last.records \in Seq(Nat) /\ last.tries \in 0 .. RETRIES
      BY <3>1 DEF Batches
    <3> HIDE DEF last
    <3>3. Append(last.records, n) \in Seq(Nat) /\ Append(last.records, n) # <<>>
      BY <3>2, AppendProperties
    <3>a. ToSet(Append(last.records, n)) = ToSet(last.records) \cup {n}
      BY <3>2, AppendSet
    <3>4. more \in Batches /\ InBatch(more) = InBatch(last) \cup {n}
      BY <3>2, <3>3, <3>a DEF Batches, InBatch
    <3>5. more = [last EXCEPT !.records = Append(last.records, n)]
      BY <3>1, OtherRecords
    <3>6. queue' = [queue EXCEPT ![p] = r]
      BY <2>2, <3>5 DEF last
    <3> HIDE DEF more
    <3>7. r \in Seq(Batches) /\ Len(r) = Len(q) /\ DOMAIN r = DOMAIN q
      BY <1>1, <3>1, <3>4
    <3>8. r[Len(q)] = more /\ \A i \in DOMAIN q : i # Len(q) => r[i] = q[i]
      BY <3>1
    <3> HIDE DEF r
    <3>9. Held(r) = Held(q) \cup {n}
      <4>1. Held(r) = UNION {InBatch(r[i]) : i \in DOMAIN q}
        BY <3>7 DEF Held, ToSet
      <4>2. Held(q) = UNION {InBatch(q[i]) : i \in DOMAIN q}
        BY DEF Held, ToSet
      <4>3. InBatch(r[Len(q)]) = InBatch(q[Len(q)]) \cup {n}
        BY <3>4, <3>8 DEF last
      <4>4. \A i \in DOMAIN q : InBatch(q[i]) \subseteq InBatch(r[i])
        BY <3>8, <4>3
      <4>5. \A i \in DOMAIN q : InBatch(r[i]) \subseteq InBatch(q[i]) \cup {n}
        BY <3>8, <4>3
      <4> HIDE DEF q
      <4> QED
        BY <3>1, <4>1, <4>2, <4>3, <4>4, <4>5
    <3> QED
      BY <3>6, <3>7, <3>9 DEF Typed
  <2> QED
    BY <2>1, <2>2 DEF Send
<1> HIDE DEF q
<1>3. Pending(p)' = Pending(p) \cup {n}
  BY <1>1, <1>2 DEF Pending, Held, q
<1>4. \A r \in Partitions : r # p => Pending(r)' = Pending(r)
  BY <1>1, <1>2 DEF Pending
<1>5. \A r \in Partitions : Landed(r)' = Landed(r)
  BY <1>1 DEF Landed
<1> QED
  BY <1>1, <1>2, <1>3, <1>4, <1>5 DEF Known

(* One turn of the loop counts one event, and the client has it.           *)
LEMMA EmitKeepsInv ==
  ASSUME Inv, NEW event, Emit(event), event.hash \in OrderPartitions \/ ~ IsValid(event),
         recent' \in Seq(Orders), Len(recent') <= RECENT_EVENTS
  PROVE  Inv'
<1> DEFINE n == sent + dlq + 1
<1>0. Typed /\ OnlyAccepted /\ NoneForgotten
  BY DEF Inv
<1>1. pc = "body" /\ pc' = "while" /\ running' = running /\ n \in Nat
  BY <1>0 DEF Emit, Typed
<1>2. PICK p \in Partitions : Send(n, p)
  <2>1. CASE IsValid(event)
    <3>1. Send(n, event.hash) /\ event.hash \in Partitions
      BY <2>1 DEF Emit, Route, Partitions
    <3> QED
      BY <3>1
  <2>2. CASE ~ IsValid(event)
    <3>1. Send(n, DLQ_TOPIC) /\ DLQ_TOPIC \in Partitions
      BY <2>2 DEF Emit, Route, Partitions
    <3> QED
      BY <3>1
  <2> QED
    BY <2>1, <2>2
<1>3. sent' \in Nat /\ dlq' \in Nat /\ sent' + dlq' = n
  <2>1. \/ sent' = sent + 1 /\ dlq' = dlq
        \/ sent' = sent /\ dlq' = dlq + 1
    BY DEF Emit, Route
  <2> QED
    BY <1>0, <2>1 DEF Typed
<1>4. n <= MaxEvents
  BY <1>0, <1>1, OrderProducerAssumption DEF Typed
<1>5. /\ queue' \in [Partitions -> Seq(Batches)]
      /\ UNCHANGED <<inFlight, failed, log>>
      /\ Known(p)' = Known(p) \cup {n}
      /\ \A q \in Partitions : q # p => Known(q)' = Known(q)
  BY <1>0, <1>1, <1>2, SendAdds
<1>6. Accepted' = Accepted \cup {n}
  <2>1. Accepted' = 1 .. n
    BY <1>3 DEF Accepted
  <2>2. sent + dlq \in Nat
    BY <1>0 DEF Typed
  <2>3. \A m \in Nat : 1 .. m + 1 = (1 .. m) \cup {m + 1}
    OBVIOUS
  <2> QED
    BY <2>1, <2>2, <2>3 DEF Accepted
<1> HIDE DEF n
<1>7. Typed'
  BY <1>0, <1>1, <1>3, <1>4, <1>5 DEF Typed
<1>8. OnlyAccepted'
  BY <1>0, <1>5, <1>6 DEF OnlyAccepted
<1>9. NoneForgotten'
  BY <1>0, <1>1, <1>5, <1>6 DEF NoneForgotten
<1>10. ClosedEmpty'
  BY <1>1 DEF ClosedEmpty
<1> QED
  BY <1>7, <1>8, <1>9, <1>10 DEF Inv

(* The events that the generator makes: those it remembers are orders.     *)
LEMMA GeneratedEvents ==
  ASSUME Inv
  PROVE  /\ EmitOrder => Inv'
         /\ EmitDuplicate => Inv'
         /\ EmitMalformed => Inv'
<1>0. recent \in Seq(Orders) /\ Len(recent) <= RECENT_EVENTS /\ RECENT_EVENTS \in Nat
  BY OrderProducerAssumption DEF Inv, Typed
<1>1. ASSUME NEW e \in OrderEvents, Emit(e), recent' = Remembering(e) PROVE Inv'
  <2>1. e \in Orders
    BY DEF OrderEvents, Orders, EmptyId, Inv, Typed
  <2>2. Append(recent, e) \in Seq(Orders) /\ Len(Append(recent, e)) = Len(recent) + 1
    BY <1>0, <2>1, AppendProperties
  <2>3. Append(recent, e) # <<>>
    BY <1>0, <2>1, AppendProperties
  <2>4. /\ Tail(Append(recent, e)) \in Seq(Orders)
        /\ Len(Tail(Append(recent, e))) = Len(Append(recent, e)) - 1
    BY <2>2, <2>3, HeadTailProperties
  <2>5. Remembering(e) \in Seq(Orders) /\ Len(Remembering(e)) <= RECENT_EVENTS
    BY <1>0, <2>2, <2>4 DEF Remembering
  <2> QED
    BY <1>1, <2>1, <2>5, EmitKeepsInv DEF Orders
<1>2. ASSUME NEW e \in ToSet(recent), Emit(e), recent' = recent PROVE Inv'
  <2>1. e \in Orders
    BY <1>0 DEF ToSet
  <2> QED
    BY <1>0, <1>2, <2>1, EmitKeepsInv DEF Orders
<1>3. ASSUME Emit(MalformedEvent), recent' = recent PROVE Inv'
  <2>1. ~ IsValid(MalformedEvent)
    BY DEF IsValid, MalformedEvent, REQUIRED_FIELDS
  <2> QED
    BY <1>0, <1>3, <2>1, EmitKeepsInv
<1> QED
  BY <1>1, <1>2, <1>3 DEF EmitOrder, EmitDuplicate, EmitMalformed

(* The loop's condition, the signal and the shutdown.                      *)
LEMMA ControlKeepsInv ==
  ASSUME Inv, CheckRunning \/ Shutdown \/ FlushAndClose
  PROVE  Inv'
<1>1. /\ pc' \in {"while", "body", "flush", "closed"} /\ running' \in BOOLEAN
      /\ UNCHANGED <<recent, counts, client, log>>
      /\ pc # "died" /\ pc # "closed"
      /\ pc' = "body" => sent + dlq < MaxEvents
      /\ pc' = "closed" => \A p \in Partitions : Pending(p) = {}
  BY DEF CheckRunning, Shutdown, FlushAndClose, Inv, Typed
<1>2. UNCHANGED <<sent, dlq, queue, inFlight, failed>>
  BY <1>1 DEF counts, client
<1>3. Typed'
  BY <1>1, <1>2 DEF Inv, Typed
<1>4. Accepted' = Accepted /\ \A p \in Partitions : Known(p)' = Known(p)
  BY <1>1, <1>2 DEF Accepted, Known, Landed, Pending
<1>5. OnlyAccepted' /\ NoneForgotten'
  BY <1>1, <1>2, <1>4 DEF Inv, OnlyAccepted, NoneForgotten
<1>6. ClosedEmpty'
  <2> SUFFICES ASSUME pc' = "closed", NEW p \in Partitions
               PROVE  queue[p] = <<>> /\ inFlight[p] = <<>>
    BY <1>2 DEF ClosedEmpty
  <2>1. Held(queue[p]) = {} /\ Held(inFlight[p]) = {}
    BY <1>1, PendingHeld
  <2>2. queue[p] \in Seq(Batches) /\ inFlight[p] \in Seq(Batches)
    BY DEF Inv, Typed
  <2> QED
    BY <2>1, <2>2, NothingHeld
<1> QED
  BY <1>3, <1>5, <1>6 DEF Inv

(* The process dies: what reaches the broker was accepted before.          *)
LEMMA DieKeepsInv ==
  ASSUME Inv, Die
  PROVE  Inv'
<1>1. /\ pc' = "died"
      /\ queue' = [p \in Partitions |-> <<>>]
      /\ inFlight' = [p \in Partitions |-> <<>>]
      /\ UNCHANGED <<running, recent, sent, dlq, failed>>
  BY DEF Die, counts
<1>2. PICK reach \in SUBSET {p \in Partitions : inFlight[p] # <<>>} :
        log' = [p \in Partitions |->
                  IF p \in reach THEN log[p] \o Head(inFlight[p]).records ELSE log[p]]
  BY DEF Die
<1>3. ASSUME NEW p \in Partitions
      PROVE  log'[p] \in Seq(Nat) /\ Landed(p)' \subseteq Known(p)
  <2>0. log[p] \in Seq(Nat) /\ inFlight[p] \in Seq(Batches)
    BY DEF Inv, Typed
  <2>1. CASE p \notin reach
    BY <1>2, <2>0, <2>1 DEF Landed, Known
  <2>2. CASE p \in reach
    <3> DEFINE r == Head(inFlight[p]).records
    <3>1. /\ inFlight[p] # <<>> /\ Head(inFlight[p]) \in Batches
          /\ InBatch(Head(inFlight[p])) \subseteq Held(inFlight[p])
      BY <2>0, <2>2, HeldHead
    <3>2. r \in Seq(Nat)
      BY <3>1 DEF Batches
    <3>3. log[p] \o r \in Seq(Nat) /\ ToSet(log[p] \o r) = ToSet(log[p]) \cup ToSet(r)
      BY <2>0, <3>2, ConcatProperties, ConcatSet
    <3>4. log'[p] = log[p] \o r
      BY <1>2, <2>2
    <3> QED
      BY <3>1, <3>3, <3>4, PendingHeld DEF Landed, Known, InBatch
  <2> QED
    BY <2>1, <2>2
<1>4. ASSUME NEW p \in Partitions PROVE Pending(p)' = {}
  <2>1. queue'[p] = <<>> /\ inFlight'[p] = <<>>
    BY <1>1
  <2> QED
    BY <2>1 DEF Pending, ToSet
<1>5. log' \in [Partitions -> Seq(Nat)]
  BY <1>2, <1>3
<1>6. Typed'
  BY <1>1, <1>5 DEF Inv, Typed
<1>7. OnlyAccepted'
  BY <1>1, <1>3, <1>4 DEF Inv, OnlyAccepted, Known, Accepted
<1> QED
  BY <1>1, <1>6, <1>7 DEF Inv, NoneForgotten, ClosedEmpty

(* Every step keeps the invariant.                                         *)
LEMMA InvNext == Inv /\ [Next]_vars => Inv'
<1> SUFFICES ASSUME Inv, [Next]_vars PROVE Inv'
  OBVIOUS
<1>1. CASE Loop \/ Shutdown \/ Die
  BY <1>1, GeneratedEvents, ControlKeepsInv, DieKeepsInv DEF Loop
<1>2. ASSUME NEW p \in Partitions, Sender(p) \/ Expire(p) PROVE Inv'
  BY <1>2, SenderMoves, MovesKeepInv DEF Inv
<1>3. CASE UNCHANGED vars
  BY <1>3 DEF vars, main, counts, client, Inv, Typed, OnlyAccepted, NoneForgotten, ClosedEmpty,
              Accepted, Known, Landed, Pending
<1> QED
  BY <1>1, <1>2, <1>3 DEF Next

-----------------------------------------------------------------------------
(* The results.                                                            *)

(* The invariant holds in every behaviour of the producer.                 *)
THEOREM ProducerInvariant == Spec => []Inv
BY InvInit, InvNext, PTL DEF Spec

(* TypeOK, for any topic and any bounds.                                   *)
THEOREM ProducerTypeCorrect == Spec => []TypeOK
<1>1. Inv => TypeOK
  <2> SUFFICES ASSUME Inv PROVE TypeOK
    OBVIOUS
  <2>0. Typed /\ OnlyAccepted
    BY DEF Inv
  <2>1. \A e \in ToSet(recent) : IsValid(e) /\ e.hash \in OrderPartitions
    <3>1. \A e \in ToSet(recent) : e \in Orders
      BY <2>0 DEF Typed, ToSet
    <3> QED
      BY <3>1 DEF Orders, IsValid
  <2>2. ASSUME NEW p \in Partitions
        PROVE  /\ Landed(p) \cup Pending(p) \subseteq Accepted
               /\ \A b \in ToSet(queue[p]) \cup ToSet(inFlight[p]) :
                    b.records # <<>> /\ b.tries \in 0 .. RETRIES
    <3>1. queue[p] \in Seq(Batches) /\ inFlight[p] \in Seq(Batches)
      BY <2>0 DEF Typed
    <3>2. ToSet(queue[p]) \cup ToSet(inFlight[p]) \subseteq Batches
      BY <3>1 DEF ToSet
    <3> QED
      BY <2>0, <3>2 DEF Batches, OnlyAccepted, Known
  <2> QED
    BY <2>0, <2>1, <2>2 DEF Typed, OnlyAccepted, TypeOK
<1> QED
  BY <1>1, ProducerInvariant, PTL

(* However requests are retried, given up or expire: unless the process    *)
(* dies, each event that the counters count is in its topic, held by the   *)
(* client, or was reported: CountedIsAccountedFor.                         *)
THEOREM NoEventForgotten == Spec => []CountedIsAccountedFor
<1>1. Inv => CountedIsAccountedFor
  BY DEF Inv, OnlyAccepted, NoneForgotten, CountedIsAccountedFor, Known
<1> QED
  BY <1>1, ProducerInvariant, PTL

(* After a clean shutdown nothing is left in the client, and each counted  *)
(* event is in its topic or was reported: CleanShutdownDelivers.           *)
THEOREM ShutdownDelivers == Spec => []CleanShutdownDelivers
<1>1. Inv => CleanShutdownDelivers
  <2> SUFFICES ASSUME Inv, pc = "closed"
               PROVE  Accepted = failed \cup UNION {Landed(p) : p \in Partitions}
    BY DEF CleanShutdownDelivers
  <2>1. \A p \in Partitions : Pending(p) = {}
    BY DEF Inv, ClosedEmpty, Pending, ToSet
  <2> QED
    BY <2>1 DEF Inv, OnlyAccepted, NoneForgotten, Known
<1> QED
  BY <1>1, ProducerInvariant, PTL

-----------------------------------------------------------------------------
(* The order of the records.  A partition is a line of batches, the one in *)
(* flight before those in the queue, in front of a log.                    *)

Waiting(p) == inFlight[p] \o queue[p]

Increasing(r) == \A i, j \in DOMAIN r : i < j => r[i] < r[j]
Below(b, c)   == \A m \in InBatch(b), n \in InBatch(c) : m < n

(* The records of the line are in order; what has landed is of a batch, or *)
(* comes before it; and a batch has landed as a whole, or not at all.      *)
InLine(w, l) ==
  /\ \A i \in DOMAIN w : Increasing(w[i].records)
  /\ \A i, j \in DOMAIN w : i < j => Below(w[i], w[j])
  /\ \A i \in DOMAIN w : \A m \in ToSet(l) :
       m \in InBatch(w[i]) \/ \A n \in InBatch(w[i]) : m < n
  /\ \A i \in DOMAIN w :
       InBatch(w[i]) \subseteq ToSet(l) \/ \A n \in InBatch(w[i]) : n \notin ToSet(l)

(* InSendOrder for one log: a copy of the earlier record before all copies *)
(* of the later one, a copy of the later after all copies of the earlier.  *)
LogOrder(l) ==
  \A m, n \in ToSet(l) : m < n =>
    /\ \E i \in DOMAIN l : l[i] = m /\ \A k \in DOMAIN l : l[k] = n => i < k
    /\ \E k \in DOMAIN l : l[k] = n /\ \A i \in DOMAIN l : l[i] = m => i < k

(* A record has been appended no more often than its batch was tried.      *)
At(l, n) == {i \in DOMAIN l : l[i] = n}
CopiesInLine(w, l) ==
  /\ \A n \in Nat : Cardinality(At(l, n)) <= RETRIES + 1
  /\ \A i \in DOMAIN w : \A n \in InBatch(w[i]) : Cardinality(At(l, n)) <= w[i].tries

LineOK(p) ==
  /\ Len(inFlight[p]) <= 1
  /\ InLine(Waiting(p), log[p])
  /\ LogOrder(log[p])
  /\ CopiesInLine(Waiting(p), log[p])

OrderInv == \A p \in Partitions : LineOK(p)

(* The positions of a log and of what is appended to it.                   *)
LEMMA ConcatAt ==
  ASSUME NEW l \in Seq(Nat), NEW r \in Seq(Nat)
  PROVE  /\ DOMAIN l = 1 .. Len(l) /\ DOMAIN r = 1 .. Len(r)
         /\ Len(l) \in Nat /\ Len(r) \in Nat
         /\ DOMAIN (l \o r) = 1 .. Len(l) + Len(r)
         /\ \A i \in DOMAIN l : i \in DOMAIN (l \o r) /\ (l \o r)[i] = l[i]
         /\ \A k \in DOMAIN r : Len(l) + k \in DOMAIN (l \o r) /\ (l \o r)[Len(l) + k] = r[k]
         /\ \A j \in DOMAIN (l \o r) : j \in DOMAIN l \/ \E k \in DOMAIN r : j = Len(l) + k
<1>1. /\ DOMAIN l = 1 .. Len(l) /\ DOMAIN r = 1 .. Len(r)
      /\ Len(l) \in Nat /\ Len(r) \in Nat
  OBVIOUS
<1>2. /\ l \o r \in Seq(Nat) /\ Len(l \o r) = Len(l) + Len(r)
      /\ \A i \in 1 .. Len(l) + Len(r) : (l \o r)[i] = IF i <= Len(l) THEN l[i] ELSE r[i - Len(l)]
  BY ConcatProperties
<1>3. DOMAIN (l \o r) = 1 .. Len(l) + Len(r)
  BY <1>2
<1>4. \A i \in DOMAIN l : i \in DOMAIN (l \o r) /\ (l \o r)[i] = l[i]
  BY <1>1, <1>2, <1>3
<1>5. ASSUME NEW k \in DOMAIN r
      PROVE  Len(l) + k \in DOMAIN (l \o r) /\ (l \o r)[Len(l) + k] = r[k]
  <2>1. Len(l) + k \in 1 .. Len(l) + Len(r) /\ ~ (Len(l) + k <= Len(l)) /\ Len(l) + k - Len(l) = k
    BY <1>1
  <2> QED BY <1>2, <1>3, <2>1
<1>6. ASSUME NEW j \in DOMAIN (l \o r), j \notin DOMAIN l
      PROVE  \E k \in DOMAIN r : j = Len(l) + k
  <2>1. j - Len(l) \in DOMAIN r /\ j = Len(l) + (j - Len(l))
    BY <1>1, <1>3, <1>6
  <2> QED BY <2>1
<1> QED BY <1>1, <1>3, <1>4, <1>5, <1>6

(* Appending the first batch of a line keeps the log in order.             *)
LEMMA LandInOrder ==
  ASSUME NEW l \in Seq(Nat), NEW r \in Seq(Nat), LogOrder(l), Increasing(r),
         \A m \in ToSet(l) : m \in ToSet(r) \/ \A n \in ToSet(r) : m < n,
         ToSet(r) \subseteq ToSet(l) \/ \A n \in ToSet(r) : n \notin ToSet(l)
  PROVE  LogOrder(l \o r)
<1> DEFINE s == l \o r
<1>1. /\ DOMAIN l = 1 .. Len(l) /\ DOMAIN r = 1 .. Len(r)
      /\ Len(l) \in Nat /\ Len(r) \in Nat
      /\ DOMAIN s = 1 .. Len(l) + Len(r)
      /\ \A i \in DOMAIN l : i \in DOMAIN s /\ s[i] = l[i]
      /\ \A k \in DOMAIN r : Len(l) + k \in DOMAIN s /\ s[Len(l) + k] = r[k]
      /\ \A j \in DOMAIN s : j \in DOMAIN l \/ \E k \in DOMAIN r : j = Len(l) + k
  BY ConcatAt
<1>2. ToSet(s) = ToSet(l) \cup ToSet(r)
  BY ConcatSet
<1>3. ToSet(l) \subseteq Nat /\ ToSet(r) \subseteq Nat
  BY DEF ToSet
<1> HIDE DEF s
<1> SUFFICES ASSUME NEW m \in ToSet(s), NEW n \in ToSet(s), m < n
             PROVE  /\ \E i \in DOMAIN s : s[i] = m /\ \A k \in DOMAIN s : s[k] = n => i < k
                    /\ \E k \in DOMAIN s : s[k] = n /\ \A i \in DOMAIN s : s[i] = m => i < k
  BY DEF LogOrder, s
<1>4. m \in Nat /\ n \in Nat
  BY <1>2, <1>3
<1>5. \E i \in DOMAIN s : s[i] = m /\ \A k \in DOMAIN s : s[k] = n => i < k
  <2>1. CASE m \in ToSet(l) /\ n \in ToSet(l)
    <3>1. PICK i \in DOMAIN l : l[i] = m /\ \A k \in DOMAIN l : l[k] = n => i < k
      BY <2>1 DEF LogOrder
    <3>2. \A k \in DOMAIN s : s[k] = n => i < k
      BY <1>1, <3>1
    <3> QED BY <1>1, <3>1, <3>2
  <2>2. CASE m \in ToSet(l) /\ n \notin ToSet(l)
    <3>1. PICK i \in DOMAIN l : l[i] = m
      BY <2>2 DEF ToSet
    <3>2. \A k \in DOMAIN l : l[k] # n
      BY <2>2 DEF ToSet
    <3>3. \A k \in DOMAIN s : s[k] = n => i < k
      BY <1>1, <3>2
    <3> QED BY <1>1, <3>1, <3>3
  <2>3. CASE m \notin ToSet(l)
    <3>1. m \in ToSet(r) /\ \A x \in ToSet(r) : x \notin ToSet(l)
      BY <1>2, <2>3
    <3>2. n \notin ToSet(l)
      <4> SUFFICES ASSUME n \in ToSet(l) PROVE FALSE
        OBVIOUS
      <4>1. n \in ToSet(r) \/ n < m
        BY <3>1
      <4> QED BY <1>4, <3>1, <4>1
    <3>3. PICK i \in DOMAIN r : r[i] = m
      BY <3>1 DEF ToSet
    <3>4. \A k \in DOMAIN l : l[k] # n
      BY <3>2 DEF ToSet
    <3>5. \A k \in DOMAIN r : r[k] = n => i < k
      <4> SUFFICES ASSUME NEW k \in DOMAIN r, r[k] = n, ~ (i < k) PROVE FALSE
        OBVIOUS
      <4>1. k = i \/ k < i
        BY <1>1
      <4> QED BY <1>4, <3>3, <4>1 DEF Increasing
    <3>6. \A k \in DOMAIN s : s[k] = n => Len(l) + i < k
      <4> SUFFICES ASSUME NEW j \in DOMAIN s, s[j] = n PROVE Len(l) + i < j
        OBVIOUS
      <4>1. PICK k \in DOMAIN r : j = Len(l) + k
        BY <1>1, <3>4
      <4>2. r[k] = n
        BY <1>1, <4>1
      <4> QED BY <1>1, <3>5, <4>1, <4>2
    <3> QED BY <1>1, <3>3, <3>6
  <2> QED BY <2>1, <2>2, <2>3
<1>6. \E k \in DOMAIN s : s[k] = n /\ \A i \in DOMAIN s : s[i] = m => i < k
  <2>1. CASE n \in ToSet(r)
    <3>1. PICK k \in DOMAIN r : r[k] = n
      BY <2>1 DEF ToSet
    <3>2. \A i \in DOMAIN r : r[i] = m => i < k
      <4> SUFFICES ASSUME NEW i \in DOMAIN r, r[i] = m, ~ (i < k) PROVE FALSE
        OBVIOUS
      <4>1. k = i \/ k < i
        BY <1>1
      <4> QED BY <1>4, <3>1, <4>1 DEF Increasing
    <3>3. \A i \in DOMAIN s : s[i] = m => i < Len(l) + k
      BY <1>1, <3>2
    <3> QED BY <1>1, <3>1, <3>3
  <2>2. CASE n \notin ToSet(r)
    <3>1. n \in ToSet(l) /\ m \notin ToSet(r)
      BY <1>2, <1>4, <2>2
    <3>2. m \in ToSet(l)
      BY <1>2, <3>1
    <3>3. PICK k \in DOMAIN l : l[k] = n /\ \A i \in DOMAIN l : l[i] = m => i < k
      BY <3>1, <3>2 DEF LogOrder
    <3>4. \A i \in DOMAIN r : r[i] # m
      BY <3>1 DEF ToSet
    <3>5. \A i \in DOMAIN s : s[i] = m => i < k
      BY <1>1, <3>3, <3>4
    <3> QED BY <1>1, <3>3, <3>5
  <2> QED BY <2>1, <2>2
<1> QED BY <1>5, <1>6

(* A record with no copies has not landed.                                 *)
LEMMA NoneAt ==
  ASSUME NEW l \in Seq(Nat), NEW n
  PROVE  /\ IsFiniteSet(At(l, n)) /\ Cardinality(At(l, n)) \in Nat
         /\ n \notin ToSet(l) <=> Cardinality(At(l, n)) = 0
<1>1. DOMAIN l = 1 .. Len(l) /\ Len(l) \in Nat
  OBVIOUS
<1>2. At(l, n) \subseteq 1 .. Len(l)
  BY <1>1 DEF At
<1>3. IsFiniteSet(1 .. Len(l))
  BY <1>1, FS_Interval
<1>4. IsFiniteSet(At(l, n)) /\ Cardinality(At(l, n)) \in Nat
  BY <1>2, <1>3, FS_Subset, FS_CardinalityType
<1>5. At(l, n) = {} <=> Cardinality(At(l, n)) = 0
  BY <1>4, FS_EmptySet, Zenon
<1>6. n \notin ToSet(l) <=> At(l, n) = {}
  BY DEF At, ToSet
<1> QED BY <1>4, <1>5, <1>6

(* Appending increasing records adds one copy of each.                     *)
LEMMA LandOnce ==
  ASSUME NEW l \in Seq(Nat), NEW r \in Seq(Nat), Increasing(r), NEW n \in Nat
  PROVE  /\ Cardinality(At(l, n)) \in Nat /\ Cardinality(At(l \o r, n)) \in Nat
         /\ n \in ToSet(r) => Cardinality(At(l \o r, n)) = Cardinality(At(l, n)) + 1
         /\ n \notin ToSet(r) => Cardinality(At(l \o r, n)) = Cardinality(At(l, n))
<1> DEFINE s == l \o r
<1>1. /\ DOMAIN l = 1 .. Len(l) /\ DOMAIN r = 1 .. Len(r)
      /\ Len(l) \in Nat /\ Len(r) \in Nat
      /\ DOMAIN s = 1 .. Len(l) + Len(r)
      /\ \A i \in DOMAIN l : i \in DOMAIN s /\ s[i] = l[i]
      /\ \A k \in DOMAIN r : Len(l) + k \in DOMAIN s /\ s[Len(l) + k] = r[k]
      /\ \A j \in DOMAIN s : j \in DOMAIN l \/ \E k \in DOMAIN r : j = Len(l) + k
  BY ConcatAt
<1> HIDE DEF s
<1>2. IsFiniteSet(At(l, n)) /\ Cardinality(At(l, n)) \in Nat
  BY NoneAt
<1>3. CASE n \in ToSet(r)
  <2>1. PICK k \in DOMAIN r : r[k] = n
    BY <1>3 DEF ToSet
  <2>2. \A j \in DOMAIN r : r[j] = n => j = k
    <3> SUFFICES ASSUME NEW j \in DOMAIN r, r[j] = n, j # k PROVE FALSE
      OBVIOUS
    <3>1. j < k \/ k < j
      BY <1>1
    <3> QED BY <2>1, <3>1 DEF Increasing
  <2>3. At(s, n) = At(l, n) \cup {Len(l) + k}
    <3>1. \A i \in At(s, n) : i \in At(l, n) \cup {Len(l) + k}
      BY <1>1, <2>2 DEF At
    <3>2. \A i \in At(l, n) : i \in At(s, n)
      BY <1>1 DEF At
    <3>3. Len(l) + k \in At(s, n)
      BY <1>1, <2>1 DEF At
    <3> QED BY <3>1, <3>2, <3>3
  <2>4. Len(l) + k \notin At(l, n)
    BY <1>1 DEF At
  <2>5. Cardinality(At(l, n) \cup {Len(l) + k}) = Cardinality(At(l, n)) + 1
    BY <1>2, <2>4, FS_AddElement
  <2>6. Cardinality(At(s, n)) = Cardinality(At(l, n)) + 1
    BY <2>3, <2>5, Zenon
  <2> QED BY <1>2, <1>3, <2>6 DEF s
<1>4. CASE n \notin ToSet(r)
  <2>1. \A k \in DOMAIN r : r[k] # n
    BY <1>4 DEF ToSet
  <2>2. At(s, n) = At(l, n)
    <3>1. \A i \in At(s, n) : i \in At(l, n)
      BY <1>1, <2>1 DEF At
    <3>2. \A i \in At(l, n) : i \in At(s, n)
      BY <1>1 DEF At
    <3> QED BY <3>1, <3>2
  <2> QED BY <1>2, <1>4, <2>2 DEF s
<1> QED BY <1>3, <1>4

(* The parts of a batch.                                                   *)
LEMMA BatchParts ==
  ASSUME NEW b \in Batches
  PROVE  /\ b.records \in Seq(Nat) /\ b.records # <<>>
         /\ b.tries \in Nat /\ b.tries <= RETRIES
         /\ InBatch(b) \subseteq Nat
<1>1. b.records \in Seq(Nat) /\ b.records # <<>> /\ b.tries \in 0 .. RETRIES
  BY DEF Batches
<1>2. \A i \in DOMAIN b.records : b.records[i] \in Nat
  BY <1>1
<1> QED BY <1>1, <1>2, OrderProducerAssumption DEF InBatch, ToSet

LEMMA RetriedParts ==
  ASSUME NEW b \in Batches
  PROVE  Retried(b) = [records |-> b.records, tries |-> b.tries + 1]
BY DEF Retried, Batches

(* What a step does to a line: the log may get the first batch.            *)
Lands(w, l, l2) == l2 = l \/ (w # <<>> /\ l2 = l \o Head(w).records)

(* CopiesInLine with one attempt of the first batch not yet counted.       *)
CopiesSpent(w, l) ==
  /\ \A n \in Nat : Cardinality(At(l, n)) <= RETRIES + 1
  /\ \A i \in DOMAIN w : \A n \in InBatch(w[i]) :
       Cardinality(At(l, n)) <= IF i = 1 THEN w[i].tries + 1 ELSE w[i].tries

LEMMA FirstLands ==
  ASSUME NEW w \in Seq(Batches), NEW l \in Seq(Nat), NEW l2,
         InLine(w, l), LogOrder(l), CopiesInLine(w, l), Lands(w, l, l2)
  PROVE  /\ l2 \in Seq(Nat) /\ InLine(w, l2) /\ LogOrder(l2) /\ CopiesSpent(w, l2)
         /\ ToSet(l2) \subseteq ToSet(l) \cup Held(w)
<1>0. /\ DOMAIN w = 1 .. Len(w) /\ Len(w) \in Nat /\ RETRIES \in Nat
      /\ \A i \in DOMAIN w : /\ w[i].records \in Seq(Nat) /\ w[i].records # <<>>
                             /\ w[i].tries \in Nat /\ w[i].tries <= RETRIES
                             /\ InBatch(w[i]) \subseteq Nat
  <2>1. /\ DOMAIN w = 1 .. Len(w) /\ Len(w) \in Nat /\ RETRIES \in Nat
        /\ \A i \in DOMAIN w : w[i] \in Batches
    BY OrderProducerAssumption
  <2> QED BY <2>1, BatchParts
<1>1. CASE l2 = l
  <2>1. \A n \in Nat : Cardinality(At(l, n)) \in Nat
    BY NoneAt
  <2>2. ASSUME NEW i \in DOMAIN w, NEW n \in InBatch(w[i])
        PROVE  Cardinality(At(l, n)) <= IF i = 1 THEN w[i].tries + 1 ELSE w[i].tries
    <3>1. n \in Nat /\ w[i].tries \in Nat /\ Cardinality(At(l, n)) <= w[i].tries
      BY <1>0 DEF CopiesInLine
    <3>2. Cardinality(At(l, n)) \in Nat
      BY <2>1, <3>1
    <3> QED BY <3>1, <3>2
  <2>3. CopiesSpent(w, l)
    BY <2>2 DEF CopiesInLine, CopiesSpent
  <2> QED BY <1>1, <2>3
<1>2. CASE w # <<>> /\ l2 = l \o Head(w).records
  <2> DEFINE r == Head(w).records
  <2>1. /\ 1 \in DOMAIN w /\ Head(w) = w[1] /\ r = w[1].records
        /\ r \in Seq(Nat) /\ Increasing(r) /\ ToSet(r) = InBatch(w[1])
        /\ w[1].tries \in Nat /\ w[1].tries <= RETRIES
    BY <1>0, <1>2 DEF InLine, InBatch
  <2> HIDE DEF r
  <2>2. l2 = l \o r
    BY <1>2 DEF r
  <2>3. l2 \in Seq(Nat) /\ ToSet(l2) = ToSet(l) \cup ToSet(r)
    BY <2>1, <2>2, ConcatProperties, ConcatSet
  <2>4. LogOrder(l2)
    <3>1. /\ \A m \in ToSet(l) : m \in ToSet(r) \/ \A n \in ToSet(r) : m < n
          /\ ToSet(r) \subseteq ToSet(l) \/ \A n \in ToSet(r) : n \notin ToSet(l)
      BY <2>1 DEF InLine
    <3> QED BY <2>1, <2>2, <3>1, LandInOrder
  <2>5. \A i \in DOMAIN w : i # 1 => \A m \in ToSet(r), n \in InBatch(w[i]) : m < n
    <3> SUFFICES ASSUME NEW i \in DOMAIN w, i # 1
                 PROVE  \A m \in ToSet(r), n \in InBatch(w[i]) : m < n
      OBVIOUS
    <3>1. 1 < i
      BY <1>0
    <3>2. Below(w[1], w[i])
      BY <2>1, <3>1 DEF InLine
    <3> QED BY <2>1, <3>2 DEF Below
  <2>6. \A i \in DOMAIN w : i # 1 => \A n \in InBatch(w[i]) : n \notin ToSet(r)
    <3> SUFFICES ASSUME NEW i \in DOMAIN w, i # 1, NEW n \in InBatch(w[i]), n \in ToSet(r)
                 PROVE  FALSE
      OBVIOUS
    <3>1. n < n /\ n \in Nat
      BY <1>0, <2>5
    <3> QED BY <3>1
  <2>7. InLine(w, l2)
    <3>1. \A i \in DOMAIN w : \A m \in ToSet(l2) :
            m \in InBatch(w[i]) \/ \A n \in InBatch(w[i]) : m < n
      BY <2>1, <2>3, <2>5 DEF InLine
    <3>2. \A i \in DOMAIN w :
            InBatch(w[i]) \subseteq ToSet(l2) \/ \A n \in InBatch(w[i]) : n \notin ToSet(l2)
      BY <2>1, <2>3, <2>6 DEF InLine
    <3> QED BY <3>1, <3>2 DEF InLine
  <2>8. \A n \in Nat :
          /\ Cardinality(At(l, n)) \in Nat /\ Cardinality(At(l2, n)) \in Nat
          /\ n \in ToSet(r) => Cardinality(At(l2, n)) = Cardinality(At(l, n)) + 1
          /\ n \notin ToSet(r) => Cardinality(At(l2, n)) = Cardinality(At(l, n))
    BY <2>1, <2>2, LandOnce
  <2>9. ASSUME NEW n \in Nat PROVE Cardinality(At(l2, n)) <= RETRIES + 1
    <3>1. CASE n \in ToSet(r)
      <4>1. Cardinality(At(l, n)) <= w[1].tries
        BY <2>1, <3>1 DEF CopiesInLine
      <4>2. /\ Cardinality(At(l, n)) \in Nat /\ Cardinality(At(l2, n)) \in Nat
            /\ Cardinality(At(l2, n)) = Cardinality(At(l, n)) + 1
        BY <2>8, <3>1
      <4>3. w[1].tries \in Nat /\ w[1].tries <= RETRIES /\ RETRIES \in Nat
        BY <1>0, <2>1
      <4> QED BY <4>1, <4>2, <4>3
    <3>2. CASE n \notin ToSet(r)
      BY <2>8, <3>2 DEF CopiesInLine
    <3> QED BY <3>1, <3>2
  <2>10. ASSUME NEW i \in DOMAIN w, NEW n \in InBatch(w[i])
         PROVE  Cardinality(At(l2, n)) <= IF i = 1 THEN w[i].tries + 1 ELSE w[i].tries
    <3>1. n \in Nat /\ Cardinality(At(l, n)) <= w[i].tries /\ w[i].tries \in Nat
      BY <1>0 DEF CopiesInLine
    <3>2. CASE i = 1
      <4>1. n \in ToSet(r)
        BY <2>1, <3>2
      <4>2. /\ Cardinality(At(l, n)) \in Nat /\ Cardinality(At(l2, n)) \in Nat
            /\ Cardinality(At(l2, n)) = Cardinality(At(l, n)) + 1
        BY <2>8, <3>1, <4>1
      <4> QED BY <3>1, <3>2, <4>2
    <3>3. CASE i # 1
      BY <2>6, <2>8, <3>1, <3>3
    <3> QED BY <3>2, <3>3
  <2>11. InBatch(w[1]) \subseteq Held(w)
    BY <2>1 DEF Held, ToSet
  <2> QED BY <2>1, <2>3, <2>4, <2>7, <2>9, <2>10, <2>11 DEF CopiesSpent
<1> QED BY <1>1, <1>2 DEF Lands

(* The first batch leaves the line, or goes back to it.                    *)
LEMMA FirstLeaves ==
  ASSUME NEW w \in Seq(Batches), NEW l, w # <<>>, InLine(w, l), CopiesSpent(w, l)
  PROVE  InLine(Tail(w), l) /\ CopiesInLine(Tail(w), l)
<1>1. /\ Tail(w) \in Seq(Batches) /\ Len(Tail(w)) = Len(w) - 1
      /\ \A i \in 1 .. Len(Tail(w)) : Tail(w)[i] = w[i + 1]
      /\ DOMAIN w = 1 .. Len(w) /\ Len(w) \in Nat
  BY HeadTailProperties
<1> DEFINE t == Tail(w)
<1>2. \A i \in DOMAIN t : i \in Nat \ {0} /\ i + 1 \in DOMAIN w /\ t[i] = w[i + 1] /\ i + 1 # 1
  BY <1>1
<1> HIDE DEF t
<1>3. \A i, j \in DOMAIN t : i < j => i + 1 < j + 1
  BY <1>2
<1>4. InLine(t, l)
  BY <1>2, <1>3 DEF InLine
<1>5. CopiesInLine(t, l)
  BY <1>2 DEF CopiesInLine, CopiesSpent
<1> QED BY <1>4, <1>5 DEF t

LEMMA FirstReturns ==
  ASSUME NEW w \in Seq(Batches), NEW l, w # <<>>, InLine(w, l), CopiesSpent(w, l)
  PROVE  /\ InLine(<<Retried(Head(w))>> \o Tail(w), l)
         /\ CopiesInLine(<<Retried(Head(w))>> \o Tail(w), l)
<1> DEFINE b == Retried(Head(w))
           v == <<b>> \o Tail(w)
<1>1. /\ Head(w) \in Batches
      /\ Tail(w) \in Seq(Batches) /\ Len(Tail(w)) = Len(w) - 1
      /\ \A i \in 1 .. Len(Tail(w)) : Tail(w)[i] = w[i + 1]
      /\ DOMAIN w = 1 .. Len(w) /\ Len(w) \in Nat /\ Head(w) = w[1] /\ Len(w) > 0
  BY HeadTailProperties
<1>2. b = [records |-> w[1].records, tries |-> w[1].tries + 1]
  BY <1>1, RetriedParts
<1> HIDE DEF b
<1>3. /\ DOMAIN v = DOMAIN w /\ v[1] = b
      /\ \A i \in DOMAIN w : i # 1 => v[i] = w[i]
  <2>1. /\ <<b>> \in Seq({b} \cup Batches) /\ Tail(w) \in Seq({b} \cup Batches)
        /\ Len(<<b>>) = 1 /\ <<b>>[1] = b
    BY <1>1, SeqMonotonic
  <2>2. /\ Len(v) = 1 + Len(Tail(w)) /\ v \in Seq({b} \cup Batches)
        /\ \A i \in 1 .. 1 + Len(Tail(w)) : v[i] = IF i <= 1 THEN <<b>>[i] ELSE Tail(w)[i - 1]
    BY <2>1, ConcatProperties
  <2>3. Len(v) = Len(w) /\ DOMAIN v = 1 .. Len(v)
    BY <1>1, <2>2
  <2>4. v[1] = b
    BY <1>1, <2>1, <2>2
  <2>5. ASSUME NEW i \in DOMAIN w, i # 1 PROVE v[i] = w[i]
    <3>1. i \in 1 .. 1 + Len(Tail(w)) /\ ~ (i <= 1) /\ i - 1 \in 1 .. Len(Tail(w)) /\ i - 1 + 1 = i
      BY <1>1, <2>5
    <3> QED BY <1>1, <2>2, <3>1
  <2> QED BY <1>1, <2>3, <2>4, <2>5
<1> HIDE DEF v
<1>4. \A i \in DOMAIN v : v[i].records = w[i].records /\ InBatch(v[i]) = InBatch(w[i])
  BY <1>2, <1>3 DEF InBatch
<1>5. InLine(v, l)
  BY <1>3, <1>4 DEF InLine, Below
<1>6. CopiesInLine(v, l)
  <2> SUFFICES ASSUME NEW i \in DOMAIN v, NEW n \in InBatch(v[i])
               PROVE  Cardinality(At(l, n)) <= v[i].tries
    BY DEF CopiesInLine, CopiesSpent
  <2>1. i \in DOMAIN w /\ n \in InBatch(w[i])
    BY <1>3, <1>4
  <2>2. v[i].tries = IF i = 1 THEN w[i].tries + 1 ELSE w[i].tries
    BY <1>2, <1>3, <2>1
  <2> QED BY <2>1, <2>2 DEF CopiesSpent
<1> QED BY <1>5, <1>6 DEF v, b

(* A new record, later than any, begins a batch or joins the last one.     *)
LEMMA NewBatch ==
  ASSUME NEW w \in Seq(Batches), NEW l \in Seq(Nat), NEW n \in Nat,
         InLine(w, l), CopiesInLine(w, l),
         \A m \in Held(w) \cup ToSet(l) : m < n
  PROVE  /\ InLine(Append(w, Batch(<<n>>)), l)
         /\ CopiesInLine(Append(w, Batch(<<n>>)), l)
<1> DEFINE b == Batch(<<n>>)
           v == Append(w, b)
           k == Len(w) + 1
<1>1. /\ b.records = <<n>> /\ b.tries = 0 /\ InBatch(b) = {n} /\ Increasing(b.records)
      /\ DOMAIN w = 1 .. Len(w) /\ Len(w) \in Nat
  BY SingleSet DEF Batch, InBatch, Increasing
<1> HIDE DEF b
<1>2. /\ DOMAIN v = 1 .. k /\ v[k] = b /\ \A i \in DOMAIN w : i \in DOMAIN v /\ v[i] = w[i]
  BY <1>1
<1>3. \A i \in DOMAIN v : i = k \/ (i \in DOMAIN w /\ i < k)
  BY <1>1, <1>2
<1>4. \A i, j \in DOMAIN v : i < j => i \in DOMAIN w
  BY <1>1, <1>2
<1> HIDE DEF v, k
<1>5. /\ \A i \in DOMAIN w : \A m \in InBatch(w[i]) : m < n
      /\ \A m \in ToSet(l) : m < n
  BY DEF Held, ToSet
<1>6. n \notin ToSet(l)
  BY <1>5
<1>7. \A i, j \in DOMAIN v : i < j => Below(v[i], v[j])
  BY <1>1, <1>2, <1>3, <1>4, <1>5 DEF InLine, Below
<1>8. InLine(v, l)
  BY <1>1, <1>2, <1>3, <1>5, <1>6, <1>7 DEF InLine
<1>9. Cardinality(At(l, n)) = 0
  BY <1>6, NoneAt
<1>10. CopiesInLine(v, l)
  BY <1>1, <1>2, <1>3, <1>9 DEF CopiesInLine
<1> QED BY <1>8, <1>10 DEF v, b

LEMMA LongerBatch ==
  ASSUME NEW w \in Seq(Batches), NEW l \in Seq(Nat), NEW n \in Nat,
         InLine(w, l), CopiesInLine(w, l), w # <<>>, w[Len(w)].tries = 0,
         \A m \in Held(w) \cup ToSet(l) : m < n,
         NEW v, DOMAIN v = DOMAIN w, \A i \in DOMAIN w : i # Len(w) => v[i] = w[i],
         v[Len(w)] = [records |-> Append(w[Len(w)].records, n), tries |-> 0]
  PROVE  InLine(v, l) /\ CopiesInLine(v, l)
<1> DEFINE k == Len(w)
           r == w[k].records
           s == Append(r, n)
<1>1. /\ DOMAIN w = 1 .. k /\ k \in DOMAIN w /\ k \in Nat
      /\ r \in Seq(Nat) /\ r # <<>> /\ ToSet(r) \subseteq Nat
      /\ \A i \in DOMAIN w : InBatch(w[i]) \subseteq Nat
  <2>1. /\ DOMAIN w = 1 .. k /\ k \in DOMAIN w /\ k \in Nat
        /\ \A i \in DOMAIN w : w[i] \in Batches
    OBVIOUS
  <2> HIDE DEF k
  <2>2. r \in Seq(Nat) /\ r # <<>> /\ InBatch(w[k]) \subseteq Nat
    BY <2>1, BatchParts
  <2>3. InBatch(w[k]) = ToSet(r)
    BY DEF InBatch
  <2>4. \A i \in DOMAIN w : InBatch(w[i]) \subseteq Nat
    BY <2>1, BatchParts
  <2> QED BY <2>1, <2>2, <2>3, <2>4
<1>2. /\ v[k].records = s /\ v[k].tries = 0
      /\ InBatch(w[k]) = ToSet(r) /\ InBatch(v[k]) = ToSet(s)
  BY DEF InBatch
<1> HIDE DEF r
<1>3. ToSet(s) = ToSet(r) \cup {n}
  <2>1. r \in Seq(Nat)
    BY <1>1
  <2> QED BY <2>1, AppendSet
<1>4. /\ DOMAIN s = 1 .. Len(r) + 1 /\ DOMAIN r = 1 .. Len(r) /\ Len(r) \in Nat
      /\ s[Len(r) + 1] = n /\ \A i \in DOMAIN r : s[i] = r[i]
  BY <1>1, AppendProperties
<1> HIDE DEF s, k
<1>5. /\ \A i \in DOMAIN w : \A m \in InBatch(w[i]) : m < n
      /\ \A m \in ToSet(l) : m < n
  BY DEF Held, ToSet
<1>6. n \notin ToSet(l)
  BY <1>5
<1>7. \A m \in ToSet(r) : m \notin ToSet(l)
  <2> SUFFICES ASSUME NEW m \in ToSet(r) PROVE m \notin ToSet(l)
    OBVIOUS
  <2>1. Cardinality(At(l, m)) <= 0 /\ Cardinality(At(l, m)) \in Nat
    BY <1>1, <1>2, NoneAt DEF CopiesInLine, k
  <2> QED BY <2>1, NoneAt
<1>8. \A m \in ToSet(l) : \A x \in ToSet(r) : m < x
  BY <1>1, <1>2, <1>7 DEF InLine
<1>9. Increasing(s)
  <2> SUFFICES ASSUME NEW i \in DOMAIN s, NEW j \in DOMAIN s, i < j PROVE s[i] < s[j]
    BY DEF Increasing
  <2>1. i \in DOMAIN r /\ s[i] = r[i] /\ r[i] \in ToSet(r)
    BY <1>4 DEF ToSet
  <2>2. CASE j \in DOMAIN r
    <3>1. Increasing(r)
      BY <1>1 DEF InLine, r
    <3> QED BY <1>4, <2>1, <2>2, <3>1 DEF Increasing
  <2>3. CASE j \notin DOMAIN r
    <3>1. j = Len(r) + 1
      BY <1>4, <2>3
    <3> QED BY <1>1, <1>2, <1>4, <1>5, <2>1, <3>1
  <2> QED BY <2>2, <2>3
<1>10. \A i \in DOMAIN v : i = k \/ (i \in DOMAIN w /\ i < k /\ v[i] = w[i])
  BY <1>1 DEF k
<1>11. \A i, j \in DOMAIN v : i < j => Below(v[i], v[j])
  <2> SUFFICES ASSUME NEW i \in DOMAIN v, NEW j \in DOMAIN v, i < j PROVE Below(v[i], v[j])
    OBVIOUS
  <2>1. i \in DOMAIN w /\ j \in DOMAIN w /\ i # k /\ v[i] = w[i] /\ Below(w[i], w[j])
    BY <1>1, <1>10 DEF InLine
  <2>2. CASE j = k
    BY <1>1, <1>2, <1>3, <1>5, <2>1, <2>2 DEF Below
  <2>3. CASE j # k
    BY <1>10, <2>1, <2>3
  <2> QED BY <2>2, <2>3
<1>12. InLine(v, l)
  <2>1. \A i \in DOMAIN v : Increasing(v[i].records)
    BY <1>2, <1>9, <1>10 DEF InLine
  <2>2. \A i \in DOMAIN v : \A m \in ToSet(l) :
          m \in InBatch(v[i]) \/ \A x \in InBatch(v[i]) : m < x
    BY <1>2, <1>3, <1>5, <1>8, <1>10 DEF InLine
  <2>3. \A i \in DOMAIN v :
          InBatch(v[i]) \subseteq ToSet(l) \/ \A x \in InBatch(v[i]) : x \notin ToSet(l)
    BY <1>2, <1>3, <1>6, <1>7, <1>10 DEF InLine
  <2> QED BY <1>11, <2>1, <2>2, <2>3 DEF InLine
<1>13. \A x \in ToSet(s) : Cardinality(At(l, x)) = 0
  BY <1>3, <1>6, <1>7, NoneAt
<1>14. CopiesInLine(v, l)
  BY <1>2, <1>10, <1>13 DEF CopiesInLine
<1> QED BY <1>12, <1>14

(* The line of a partition, as a sequence.                                 *)
LEMMA LineTypes ==
  ASSUME Typed, NEW p \in Partitions
  PROVE  /\ inFlight[p] \in Seq(Batches) /\ queue[p] \in Seq(Batches) /\ log[p] \in Seq(Nat)
         /\ Waiting(p) \in Seq(Batches)
         /\ Held(Waiting(p)) = Pending(p)
         /\ inFlight[p] = <<>> => Waiting(p) = queue[p]
<1>1. inFlight[p] \in Seq(Batches) /\ queue[p] \in Seq(Batches) /\ log[p] \in Seq(Nat)
  BY DEF Typed
<1>2. Waiting(p) \in Seq(Batches)
  BY <1>1, ConcatProperties DEF Waiting
<1>3. ToSet(Waiting(p)) = ToSet(inFlight[p]) \cup ToSet(queue[p])
  BY <1>1, ConcatSet DEF Waiting
<1>4. Held(Waiting(p)) = Pending(p)
  BY <1>3 DEF Held, Pending
<1>5. inFlight[p] = <<>> => Waiting(p) = queue[p]
  BY <1>1, ConcatEmptySeq DEF Waiting
<1> QED BY <1>1, <1>2, <1>4, <1>5

LEMMA OneInFront ==
  ASSUME NEW S, NEW f \in Seq(S), NEW q \in Seq(S), f # <<>>, Len(f) <= 1
  PROVE  /\ Tail(f) = <<>> /\ f \o q # <<>> /\ Head(f \o q) = Head(f) /\ Tail(f \o q) = q
<1>1. /\ Len(f) = 1 /\ Head(f) = f[1] /\ Len(q) \in Nat
      /\ DOMAIN f = 1 .. Len(f) /\ DOMAIN q = 1 .. Len(q)
  <2>1. Len(f) \in Nat /\ Len(q) \in Nat /\ DOMAIN f = 1 .. Len(f) /\ DOMAIN q = 1 .. Len(q)
    BY LenProperties
  <2>2. Len(f) # 0
    BY EmptySeq
  <2>3. Len(f) = 1
    BY <2>1, <2>2
  <2>4. Head(f) = f[1]
    BY HeadTailProperties
  <2> QED BY <2>1, <2>3, <2>4
<1>2. /\ f \o q \in Seq(S) /\ Len(f \o q) = 1 + Len(q)
      /\ \A i \in 1 .. 1 + Len(q) : (f \o q)[i] = IF i <= 1 THEN f[i] ELSE q[i - 1]
  BY <1>1, ConcatProperties
<1>3. f \o q # <<>>
  BY <1>1, <1>2, EmptySeq
<1>4. Head(f \o q) = Head(f)
  <2>1. (f \o q)[1] = f[1]
    BY <1>1, <1>2
  <2>2. Head(f \o q) = (f \o q)[1]
    BY <1>2, <1>3
  <2> QED BY <1>1, <2>1, <2>2
<1>5. Tail(f \o q) = q
  <2>1. /\ Tail(f \o q) \in Seq(S) /\ Len(Tail(f \o q)) = Len(f \o q) - 1
        /\ \A i \in 1 .. Len(Tail(f \o q)) : Tail(f \o q)[i] = (f \o q)[i + 1]
    BY <1>2, <1>3, HeadTailProperties
  <2> DEFINE t == Tail(f \o q)
             g == f \o q
  <2>2. Len(t) = Len(q)
    BY <1>1, <1>2, <2>1
  <2>3. ASSUME NEW i \in 1 .. Len(t) PROVE t[i] = q[i]
    <3>1. i + 1 \in 1 .. 1 + Len(q) /\ ~ (i + 1 <= 1) /\ i + 1 - 1 = i
      BY <1>1, <2>2
    <3>2. g[i + 1] = q[i + 1 - 1]
      BY <1>2, <3>1
    <3> QED BY <2>1, <3>1, <3>2
  <2> HIDE DEF t, g
  <2>4. t \in Seq(S)
    BY <2>1 DEF t
  <2>5. t = q
    BY <2>2, <2>3, <2>4, SeqEqual
  <2> QED BY <2>5 DEF t
<1>6. Tail(f) = <<>>
  <2>1. Tail(f) \in Seq(S) /\ Len(Tail(f)) = 0
    BY <1>1, HeadTailProperties
  <2> QED BY <2>1, EmptySeq
<1> QED BY <1>3, <1>4, <1>5, <1>6

LEMMA LastBehind ==
  ASSUME NEW S, NEW f \in Seq(S), NEW q \in Seq(S), NEW r \in Seq(S), q # <<>>,
         Len(r) = Len(q), \A i \in DOMAIN q : i # Len(q) => r[i] = q[i]
  PROVE  /\ f \o q # <<>> /\ DOMAIN (f \o r) = DOMAIN (f \o q)
         /\ (f \o q)[Len(f \o q)] = q[Len(q)] /\ (f \o r)[Len(f \o q)] = r[Len(q)]
         /\ \A i \in DOMAIN (f \o q) : i # Len(f \o q) => (f \o r)[i] = (f \o q)[i]
<1>1. /\ Len(f) \in Nat /\ Len(q) \in Nat /\ Len(q) > 0 /\ DOMAIN q = 1 .. Len(q)
  BY EmptySeq
<1>2. /\ f \o q \in Seq(S) /\ Len(f \o q) = Len(f) + Len(q)
      /\ \A i \in 1 .. Len(f) + Len(q) : (f \o q)[i] = IF i <= Len(f) THEN f[i] ELSE q[i - Len(f)]
  BY ConcatProperties
<1>3. /\ f \o r \in Seq(S) /\ Len(f \o r) = Len(f) + Len(q)
      /\ \A i \in 1 .. Len(f) + Len(q) : (f \o r)[i] = IF i <= Len(f) THEN f[i] ELSE r[i - Len(f)]
  <2>1. /\ f \o r \in Seq(S) /\ Len(f \o r) = Len(f) + Len(r)
        /\ \A i \in 1 .. Len(f) + Len(r) : (f \o r)[i] = IF i <= Len(f) THEN f[i] ELSE r[i - Len(f)]
    BY ConcatProperties
  <2> QED BY <2>1, Zenon
<1>4. DOMAIN (f \o q) = 1 .. Len(f) + Len(q) /\ DOMAIN (f \o r) = 1 .. Len(f) + Len(q)
  BY <1>2, <1>3
<1>5. f \o q # <<>>
  BY <1>1, <1>2, EmptySeq
<1> DEFINE k == Len(f) + Len(q)
<1>6. k \in 1 .. Len(f) + Len(q) /\ ~ (k <= Len(f)) /\ k - Len(f) = Len(q)
  BY <1>1
<1>7. (f \o q)[k] = q[Len(q)] /\ (f \o r)[k] = r[Len(q)]
  BY <1>2, <1>3, <1>6
<1>8. ASSUME NEW i \in 1 .. Len(f) + Len(q), i # k PROVE (f \o r)[i] = (f \o q)[i]
  <2>1. CASE i <= Len(f)
    BY <1>2, <1>3, <2>1
  <2>2. CASE ~ (i <= Len(f))
    <3>1. i - Len(f) \in DOMAIN q /\ i - Len(f) # Len(q)
      BY <1>1, <1>8, <2>2
    <3> QED BY <1>2, <1>3, <2>2, <3>1
  <2> QED BY <2>1, <2>2
<1> QED BY <1>2, <1>4, <1>5, <1>7, <1>8

(* The partitions that a step does not touch.                              *)
LEMMA OtherLines ==
  ASSUME NEW q, LineOK(q), inFlight'[q] = inFlight[q], queue'[q] = queue[q], log'[q] = log[q]
  PROVE  LineOK(q)'
BY DEF LineOK, Waiting

(* The steps of the client, on its partition.                              *)
LEMMA SenderLine ==
  ASSUME Typed, Typed', NEW p \in Partitions, LineOK(p), Sender(p) \/ Expire(p)
  PROVE  LineOK(p)'
<1> DEFINE f == inFlight[p]
           q == queue[p]
           w == Waiting(p)
           l == log[p]
<1>0. /\ f \in Seq(Batches) /\ q \in Seq(Batches) /\ w \in Seq(Batches) /\ l \in Seq(Nat)
      /\ f = <<>> => w = q
      /\ Len(f) <= 1 /\ InLine(w, l) /\ LogOrder(l) /\ CopiesInLine(w, l)
  BY LineTypes DEF LineOK
<1>1. inFlight'[p] = <<>> => Waiting(p)' = queue'[p]
  <2>1. queue'[p] \in Seq(Batches)
    BY DEF Typed
  <2>2. <<>> \o queue'[p] = queue'[p]
    BY <2>1, ConcatEmptySeq
  <2> QED BY <2>2 DEF Waiting
<1>2. CASE Drain(p)
  <2>1. /\ f = <<>> /\ q # <<>> /\ inFlight'[p] = Append(f, Head(q)) /\ queue'[p] = Tail(q)
        /\ log' = log
    BY <1>2 DEF Drain, MayDrain, Typed
  <2>2. Append(<<>>, Head(q)) = <<Head(q)>> /\ <<Head(q)>> \o Tail(q) = q
    BY <1>0, <2>1
  <2>3. Waiting(p)' = q /\ Len(inFlight'[p]) <= 1
    BY <2>1, <2>2 DEF Waiting
  <2> QED BY <1>0, <2>1, <2>3 DEF LineOK
<1>3. ASSUME Answered(p), Appended(p) \/ UNCHANGED log
      PROVE  /\ inFlight'[p] = <<>> /\ w # <<>> /\ Head(w) = Head(f) /\ Tail(w) = q
             /\ InLine(w, log'[p]) /\ LogOrder(log'[p]) /\ CopiesSpent(w, log'[p])
  <2>1. f # <<>> /\ inFlight'[p] = Tail(f)
    BY <1>3 DEF Answered, Typed
  <2>2. Tail(f) = <<>> /\ w # <<>> /\ Head(w) = Head(f) /\ Tail(w) = q
    BY <1>0, <2>1, OneInFront DEF Waiting
  <2>3. log'[p] = l \/ log'[p] = l \o Head(f).records
    BY <1>3 DEF Appended, Typed
  <2>4. Lands(w, l, log'[p])
    BY <2>2, <2>3 DEF Lands
  <2> QED BY <1>0, <2>1, <2>2, <2>4, FirstLands
<1>4. CASE Acknowledge(p) \/ GiveUp(p)
  <2>1. Answered(p) /\ (Appended(p) \/ UNCHANGED log) /\ queue' = queue
    BY <1>4 DEF Acknowledge, GiveUp
  <2>2. InLine(Tail(w), log'[p]) /\ CopiesInLine(Tail(w), log'[p])
    BY <1>0, <1>3, <2>1, FirstLeaves
  <2>3. Waiting(p)' = Tail(w) /\ Len(inFlight'[p]) <= 1
    BY <1>1, <1>3, <2>1
  <2> QED BY <1>3, <2>1, <2>2, <2>3 DEF LineOK
<1>5. CASE Retry(p)
  <2>1. /\ Answered(p) /\ (Appended(p) \/ UNCHANGED log)
        /\ queue'[p] = <<Retried(Head(f))>> \o q
    BY <1>5 DEF Retry, Typed
  <2>2. /\ InLine(<<Retried(Head(w))>> \o Tail(w), log'[p])
        /\ CopiesInLine(<<Retried(Head(w))>> \o Tail(w), log'[p])
    BY <1>0, <1>3, <2>1, FirstReturns
  <2>3. Waiting(p)' = <<Retried(Head(w))>> \o Tail(w) /\ Len(inFlight'[p]) <= 1
    <3>1. /\ inFlight'[p] = <<>> /\ Head(w) = Head(f) /\ Tail(w) = q
          /\ Waiting(p)' = queue'[p]
      BY <1>1, <1>3, <2>1
    <3>2. Len(inFlight'[p]) <= 1
      BY <3>1
    <3> HIDE DEF f, q, w
    <3> QED BY <2>1, <3>1, <3>2
  <2> QED BY <1>3, <2>1, <2>2, <2>3 DEF LineOK
<1>6. CASE Expire(p)
  <2>1. /\ f = <<>> /\ q # <<>> /\ inFlight' = inFlight /\ queue'[p] = Tail(q) /\ log' = log
    BY <1>6 DEF Expire, Typed
  <2>2. CopiesSpent(w, l)
    BY <1>0, FirstLands DEF Lands
  <2>3. InLine(Tail(w), l) /\ CopiesInLine(Tail(w), l)
    BY <1>0, <2>1, <2>2, FirstLeaves
  <2>4. Waiting(p)' = Tail(w) /\ Len(inFlight'[p]) <= 1
    BY <1>0, <1>1, <2>1
  <2> QED BY <1>0, <2>1, <2>3, <2>4 DEF LineOK
<1> QED BY <1>2, <1>4, <1>5, <1>6 DEF Sender, Answer

(* send() of a record later than all that the partition knows.             *)
LEMMA SendLine ==
  ASSUME Typed, Typed', NEW p \in Partitions, LineOK(p), NEW n \in Nat, Send(n, p),
         \A m \in Known(p) : m < n
  PROVE  LineOK(p)'
<1> DEFINE f == inFlight[p]
           q == queue[p]
           w == Waiting(p)
           l == log[p]
<1>0. /\ f \in Seq(Batches) /\ q \in Seq(Batches) /\ w \in Seq(Batches) /\ l \in Seq(Nat)
      /\ Held(w) = Pending(p)
      /\ Len(f) <= 1 /\ InLine(w, l) /\ LogOrder(l) /\ CopiesInLine(w, l)
  BY LineTypes DEF LineOK
<1>1. \A m \in Held(w) \cup ToSet(l) : m < n
  BY <1>0 DEF Known, Landed
<1>2. inFlight' = inFlight /\ log' = log
  BY DEF Send
<1>3. CASE queue' = [queue EXCEPT ![p] = Append(@, Batch(<<n>>))]
  <2>1. queue'[p] = Append(q, Batch(<<n>>))
    BY <1>3 DEF Typed
  <2>2. Waiting(p)' = f \o Append(q, Batch(<<n>>))
    BY <1>2, <2>1 DEF Waiting
  <2>3. Batch(<<n>>) \in Batches
    BY OrderProducerAssumption DEF Batch, Batches
  <2>4. f \o Append(q, Batch(<<n>>)) = Append(w, Batch(<<n>>))
    <3> DEFINE b == Batch(<<n>>)
    <3>1. <<b>> \in Seq(Batches)
      BY <2>3
    <3> HIDE DEF b
    <3>2. Append(q, b) = q \o <<b>> /\ Append(f \o q, b) = (f \o q) \o <<b>>
      <4>1. b \in Batches
        BY <2>3 DEF b
      <4>2. f \o q \in Seq(Batches)
        BY <1>0 DEF Waiting
      <4>3. Append(q, b) = q \o <<b>>
        BY <1>0, <4>1, AppendIsConcat
      <4> HIDE DEF f, q
      <4>4. Append(f \o q, b) = (f \o q) \o <<b>>
        BY <4>1, <4>2, AppendIsConcat
      <4> QED BY <4>3, <4>4
    <3>3. (f \o q) \o <<b>> = f \o (q \o <<b>>)
      <4>1. f \in Seq(Batches) /\ q \in Seq(Batches)
        BY <1>0
      <4> HIDE DEF f, q
      <4> QED BY <3>1, <4>1, ConcatAssociative
    <3> QED BY <3>2, <3>3 DEF b, Waiting
  <2>5. InLine(Append(w, Batch(<<n>>)), l) /\ CopiesInLine(Append(w, Batch(<<n>>)), l)
    BY <1>0, <1>1, NewBatch
  <2> QED BY <1>0, <1>2, <2>2, <2>4, <2>5 DEF LineOK
<1>4. CASE /\ q # <<>> /\ Last(q).tries = 0
           /\ queue' = [queue EXCEPT ![p][Len(q)].records = Append(@, n)]
  <2> DEFINE r == queue'[p]
             k == Len(q)
  <2>1. r \in Seq(Batches)
    BY DEF Typed
  <2>2. /\ DOMAIN q = 1 .. k /\ k \in DOMAIN q /\ k \in Nat /\ q[k] \in Batches
        /\ q[k].tries = 0
    BY <1>0, <1>4 DEF Last
  <2>3. r = [q EXCEPT ![k] = [q[k] EXCEPT !.records = Append(q[k].records, n)]]
    BY <1>4 DEF Typed
  <2>4. /\ r[k] = [records |-> Append(q[k].records, n), tries |-> 0]
        /\ DOMAIN r = DOMAIN q
        /\ \A i \in DOMAIN q : i # k => r[i] = q[i]
    BY <2>2, <2>3, OtherRecords
  <2> HIDE DEF r
  <2>5. Len(r) = k
    BY <1>0, <2>1, <2>2, <2>4, LenProperties
  <2>6. Waiting(p)' = f \o r
    BY <1>2 DEF Waiting, r
  <2> DEFINE v == f \o r
  <2>7. /\ w # <<>> /\ DOMAIN v = DOMAIN w
        /\ w[Len(w)] = q[k] /\ v[Len(w)] = r[k]
        /\ \A i \in DOMAIN w : i # Len(w) => v[i] = w[i]
    <3>1. w = f \o q
      BY DEF Waiting
    <3> HIDE DEF w, f
    <3>2. /\ f \o q # <<>> /\ DOMAIN (f \o r) = DOMAIN (f \o q)
          /\ (f \o q)[Len(f \o q)] = q[Len(q)] /\ (f \o r)[Len(f \o q)] = r[Len(q)]
          /\ \A i \in DOMAIN (f \o q) : i # Len(f \o q) => (f \o r)[i] = (f \o q)[i]
      <4>1. q # <<>> /\ Len(r) = Len(q) /\ \A i \in DOMAIN q : i # Len(q) => r[i] = q[i]
        BY <1>4, <2>4, <2>5
      <4> HIDE DEF q, k
      <4> QED BY <1>0, <2>1, <4>1, LastBehind
    <3> QED BY <3>1, <3>2
  <2>8. v[Len(w)] = [records |-> Append(w[Len(w)].records, n), tries |-> 0]
    BY <2>4, <2>7
  <2>9. w[Len(w)].tries = 0
    BY <2>2, <2>7
  <2> HIDE DEF v, w, l
  <2>10. InLine(v, l) /\ CopiesInLine(v, l)
    BY <1>0, <1>1, <2>7, <2>8, <2>9, LongerBatch
  <2> QED BY <1>0, <1>2, <2>6, <2>10 DEF LineOK, v, l
<1> QED BY <1>3, <1>4 DEF Send

(* The steps of the client leave the other partitions alone.               *)
LEMMA SenderOrder ==
  ASSUME Typed, Typed', OrderInv, NEW p \in Partitions, Sender(p) \/ Expire(p)
  PROVE  OrderInv'
<1>1. ASSUME NEW q \in Partitions, q # p
      PROVE  inFlight'[q] = inFlight[q] /\ queue'[q] = queue[q] /\ log'[q] = log[q]
  <2>1. CASE Drain(p) \/ Expire(p)
    BY <1>1, <2>1 DEF Drain, Expire, Typed
  <2>2. CASE Answer(p)
    <3>1. Answered(p) /\ (Appended(p) \/ UNCHANGED log)
      BY <2>2 DEF Answer, Acknowledge, Retry, GiveUp
    <3>2. inFlight'[q] = inFlight[q]
      BY <1>1, <3>1 DEF Answered, Typed
    <3>3. log'[q] = log[q]
      BY <1>1, <3>1 DEF Appended, Typed
    <3>4. queue'[q] = queue[q]
      BY <1>1, <2>2 DEF Answer, Acknowledge, Retry, GiveUp, Typed
    <3> QED BY <3>2, <3>3, <3>4
  <2> QED BY <2>1, <2>2 DEF Sender
<1>2. ASSUME NEW q \in Partitions PROVE LineOK(q)'
  <2>1. LineOK(q)
    BY DEF OrderInv
  <2>2. CASE q = p
    BY <2>1, <2>2, SenderLine
  <2>3. CASE q # p
    BY <1>1, <2>1, <2>3, OtherLines
  <2> QED BY <2>2, <2>3
<1> QED BY <1>2 DEF OrderInv

(* An event is sent as a record later than all before it.                  *)
LEMMA EmitOrdered ==
  ASSUME Inv, Inv', OrderInv, NEW event, Emit(event),
         event.hash \in OrderPartitions \/ ~ IsValid(event)
  PROVE  OrderInv'
<1> DEFINE n == sent + dlq + 1
<1>0. Typed /\ Typed' /\ OnlyAccepted
  BY DEF Inv
<1>1. PICK p \in Partitions : Send(n, p)
  <2>1. CASE IsValid(event)
    <3>1. Send(n, event.hash) /\ event.hash \in Partitions
      BY <2>1 DEF Emit, Route, Partitions
    <3> QED BY <3>1
  <2>2. CASE ~ IsValid(event)
    <3>1. Send(n, DLQ_TOPIC) /\ DLQ_TOPIC \in Partitions
      BY <2>2 DEF Emit, Route, Partitions
    <3> QED BY <3>1
  <2> QED BY <2>1, <2>2
<1>2. n \in Nat /\ \A m \in Known(p) : m < n
  <2>1. sent + dlq \in Nat
    BY <1>0 DEF Typed
  <2>2. \A m \in Known(p) : m \in 1 .. sent + dlq
    BY <1>0 DEF OnlyAccepted, Accepted
  <2> QED BY <2>1, <2>2
<1> HIDE DEF n
<1>3. ASSUME NEW q \in Partitions, q # p
      PROVE  inFlight'[q] = inFlight[q] /\ queue'[q] = queue[q] /\ log'[q] = log[q]
  BY <1>0, <1>1, <1>3 DEF Send, Typed
<1>4. ASSUME NEW q \in Partitions PROVE LineOK(q)'
  <2>1. LineOK(q)
    BY DEF OrderInv
  <2>2. CASE q = p
    BY <1>0, <1>1, <1>2, <2>1, <2>2, SendLine
  <2>3. CASE q # p
    BY <1>3, <2>1, <2>3, OtherLines
  <2> QED BY <2>2, <2>3
<1> QED BY <1>4 DEF OrderInv

(* Nothing waits: the log alone has to be in order.                        *)
LEMMA EmptyLine ==
  ASSUME NEW l, \A n \in Nat : Cardinality(At(l, n)) <= RETRIES + 1
  PROVE  InLine(<<>>, l) /\ CopiesInLine(<<>>, l)
<1>1. DOMAIN <<>> = {}
  OBVIOUS
<1> QED BY <1>1, Zenon DEF InLine, CopiesInLine

LEMMA DieOrdered ==
  ASSUME Typed, OrderInv, Die
  PROVE  OrderInv'
<1> SUFFICES ASSUME NEW p \in Partitions PROVE LineOK(p)'
  BY DEF OrderInv
<1> DEFINE f == inFlight[p]
           q == queue[p]
           w == Waiting(p)
           l == log[p]
           l2 == log'[p]
<1>1. /\ f \in Seq(Batches) /\ q \in Seq(Batches) /\ w \in Seq(Batches) /\ l \in Seq(Nat)
      /\ Len(f) <= 1 /\ InLine(w, l) /\ LogOrder(l) /\ CopiesInLine(w, l)
  BY LineTypes DEF LineOK, OrderInv
<1>2. inFlight'[p] = <<>> /\ queue'[p] = <<>>
  BY DEF Die
<1>3. l2 = l \/ (f # <<>> /\ l2 = l \o Head(f).records)
  BY DEF Die
<1>4. w = f \o q
  BY DEF Waiting
<1>5. Waiting(p)' = <<>>
  BY <1>2, ConcatEmptySeq DEF Waiting
<1> HIDE DEF f, q, w, l, l2
<1>6. Lands(w, l, l2)
  <2>1. CASE l2 = l
    BY <2>1 DEF Lands
  <2>2. CASE f # <<>> /\ l2 = l \o Head(f).records
    <3>1. w # <<>> /\ Head(w) = Head(f)
      BY <1>1, <1>4, <2>2, OneInFront
    <3> QED BY <2>2, <3>1 DEF Lands
  <2> QED BY <1>3, <2>1, <2>2
<1>7. LogOrder(l2) /\ CopiesSpent(w, l2)
  BY <1>1, <1>6, FirstLands
<1>8. InLine(<<>>, l2) /\ CopiesInLine(<<>>, l2)
  BY <1>7, EmptyLine DEF CopiesSpent
<1> QED BY <1>2, <1>5, <1>7, <1>8 DEF LineOK, l2

LEMMA OrderInit == Init => OrderInv
<1> SUFFICES ASSUME Init, NEW p \in Partitions PROVE LineOK(p)
  BY DEF OrderInv
<1>1. inFlight[p] = <<>> /\ queue[p] = <<>> /\ log[p] = <<>>
  BY DEF Init
<1>2. Waiting(p) = <<>>
  BY <1>1, ConcatEmptySeq DEF Waiting
<1>3. DOMAIN <<>> = {} /\ ToSet(<<>>) = {}
  BY DEF ToSet
<1>4. \A n \in Nat : Cardinality(At(<<>>, n)) <= RETRIES + 1
  <2>1. \A n \in Nat : At(<<>>, n) = {}
    BY <1>3 DEF At
  <2>2. Cardinality({}) = 0
    BY FS_EmptySet
  <2>3. 0 <= RETRIES + 1
    BY OrderProducerAssumption
  <2> QED BY <2>1, <2>2, <2>3
<1>5. InLine(<<>>, <<>>) /\ CopiesInLine(<<>>, <<>>)
  BY <1>4, EmptyLine
<1>6. LogOrder(<<>>)
  BY <1>3 DEF LogOrder
<1> QED BY <1>1, <1>2, <1>5, <1>6 DEF LineOK

(* Every step keeps the lines in order.                                    *)
LEMMA OrderNext == Inv /\ Inv' /\ OrderInv /\ [Next]_vars => OrderInv'
<1> SUFFICES ASSUME Inv, Inv', OrderInv, [Next]_vars PROVE OrderInv'
  OBVIOUS
<1>0. Typed /\ Typed'
  BY DEF Inv
<1>1. ASSUME EmitOrder \/ EmitDuplicate \/ EmitMalformed PROVE OrderInv'
  <2>1. ASSUME NEW e \in OrderEvents, Emit(e) PROVE OrderInv'
    BY <2>1, EmitOrdered DEF OrderEvents
  <2>2. ASSUME NEW e \in ToSet(recent), Emit(e) PROVE OrderInv'
    <3>1. e.hash \in OrderPartitions
      <4>1. e \in Orders
        BY <1>0 DEF Typed, ToSet
      <4> QED BY <4>1 DEF Orders
    <3> QED BY <2>2, <3>1, EmitOrdered
  <2>3. ASSUME Emit(MalformedEvent) PROVE OrderInv'
    <3>1. ~ IsValid(MalformedEvent)
      BY DEF IsValid, MalformedEvent, REQUIRED_FIELDS
    <3> QED BY <2>3, <3>1, EmitOrdered
  <2> QED BY <1>1, <2>1, <2>2, <2>3 DEF EmitOrder, EmitDuplicate, EmitMalformed
<1>2. CASE CheckRunning \/ Shutdown \/ FlushAndClose \/ UNCHANGED vars
  <2>1. inFlight' = inFlight /\ queue' = queue /\ log' = log
    BY <1>2 DEF CheckRunning, Shutdown, FlushAndClose, vars, client
  <2> QED BY <2>1, OtherLines DEF OrderInv
<1>3. CASE Die
  BY <1>0, <1>3, DieOrdered
<1>4. ASSUME NEW p \in Partitions, Sender(p) \/ Expire(p) PROVE OrderInv'
  BY <1>0, <1>4, SenderOrder
<1> QED BY <1>1, <1>2, <1>3, <1>4 DEF Next, Loop

(* A nonempty set of numbers has a least one.                              *)
LEMMA LeastOne ==
  ASSUME NEW S \in SUBSET Nat, S # {}
  PROVE  \E x \in S : \A y \in S : x <= y
<1> DEFINE R == {ss \in Nat \X Nat : ss[1] < ss[2]}
<1>1. IsWellFoundedOn(R, Nat)
  BY NatLessThanWellFounded DEF OpToRel
<1>2. PICK x \in S : \A y \in S : ~ (<<y, x>> \in R)
  <2> HIDE DEF R
  <2> QED BY <1>1, WFMin
<1>3. ASSUME NEW y \in S PROVE x <= y
  <2>1. x \in Nat /\ y \in Nat
    OBVIOUS
  <2>2. ~ (y < x)
    BY <1>2, <2>1
  <2> QED BY <2>1, <2>2
<1> QED BY <1>3

(* The first and the last of the positions of a log.                       *)
LEMMA Extremes ==
  ASSUME NEW k \in Nat, NEW S \in SUBSET (1 .. k), S # {}
  PROVE  /\ Min(S) \in S /\ \A y \in S : Min(S) <= y
         /\ Max(S) \in S /\ \A y \in S : Max(S) >= y
<1>1. \E x \in S : \A y \in S : x <= y
  BY LeastOne
<1>2. \E x \in S : \A y \in S : x >= y
  <2> DEFINE U == {k - x : x \in S}
  <2>1. U \in SUBSET Nat /\ U # {}
    <3>1. \A x \in S : x \in 1 .. k
      OBVIOUS
    <3>2. \A x \in S : k - x \in Nat
      BY <3>1
    <3> QED BY <3>2
  <2>2. PICK z \in U : \A u \in U : z <= u
    <3> HIDE DEF U
    <3> QED BY <2>1, LeastOne
  <2>3. PICK x \in S : z = k - x
    BY <2>2
  <2>4. ASSUME NEW y \in S PROVE x >= y
    <3>1. k - x <= k - y
      BY <2>2, <2>3
    <3>2. x \in Int /\ y \in Int
      OBVIOUS
    <3> QED BY <3>1, <3>2
  <2> QED BY <2>4
<1>3. Min(S) \in S /\ \A y \in S : Min(S) <= y
  BY <1>1, Zenon DEF Min
<1>4. Max(S) \in S /\ \A y \in S : Max(S) >= y
  BY <1>2, Zenon DEF Max
<1> QED BY <1>3, <1>4

(* In a log that is in order, first copies and last copies are.            *)
LEMMA OrderOfExtremes ==
  ASSUME NEW l \in Seq(Nat), LogOrder(l), NEW m \in ToSet(l), NEW n \in ToSet(l), m < n
  PROVE  Min(At(l, m)) < Min(At(l, n)) /\ Max(At(l, m)) < Max(At(l, n))
<1>1. DOMAIN l = 1 .. Len(l) /\ Len(l) \in Nat
  OBVIOUS
<1>2. ASSUME NEW x \in ToSet(l)
      PROVE  At(l, x) \in SUBSET (1 .. Len(l)) /\ At(l, x) # {}
  BY <1>1 DEF At, ToSet
<1> DEFINE M == At(l, m)
           N == At(l, n)
<1>3. /\ Min(M) \in M /\ \A y \in M : Min(M) <= y
      /\ Max(M) \in M /\ \A y \in M : Max(M) >= y
  <2>1. M \in SUBSET (1 .. Len(l)) /\ M # {}
    BY <1>2
  <2> HIDE DEF M
  <2> QED BY <1>1, <2>1, Extremes
<1>4. /\ Min(N) \in N /\ \A y \in N : Min(N) <= y
      /\ Max(N) \in N /\ \A y \in N : Max(N) >= y
  <2>1. N \in SUBSET (1 .. Len(l)) /\ N # {}
    BY <1>2
  <2> HIDE DEF N
  <2> QED BY <1>1, <2>1, Extremes
<1>5. M \subseteq Nat /\ N \subseteq Nat
  BY <1>1, <1>2
<1>6. PICK i \in M : \A k \in N : i < k
  BY DEF LogOrder, At
<1>7. PICK j \in N : \A k \in M : k < j
  BY DEF LogOrder, At
<1> HIDE DEF M, N
<1>8. Min(M) < Min(N)
  <2>1. Min(M) <= i /\ i < Min(N)
    BY <1>3, <1>4, <1>6
  <2>2. Min(M) \in Nat /\ i \in Nat /\ Min(N) \in Nat
    BY <1>3, <1>4, <1>5
  <2> QED BY <2>1, <2>2
<1>9. Max(M) < Max(N)
  <2>1. Max(M) < j /\ Max(N) >= j
    BY <1>3, <1>4, <1>7
  <2>2. Max(M) \in Nat /\ j \in Nat /\ Max(N) \in Nat
    BY <1>3, <1>4, <1>5
  <2> QED BY <2>1, <2>2
<1> QED BY <1>8, <1>9 DEF M, N

(* Both invariants hold in every behaviour of the producer.                *)
LEMMA LinesInOrder == Spec => [](Inv /\ OrderInv)
BY InvInit, InvNext, OrderInit, OrderNext, PTL DEF Spec

(* One request in flight for a partition, and a batch to be sent again at  *)
(* the front of its queue, keep a partition in the order of the send()     *)
(* calls, whatever is retried, given up, expired or lost with the process: *)
(* InSendOrder.                                                            *)
THEOREM PartitionInOrder == Spec => []InSendOrder
<1>1. Inv /\ OrderInv => InSendOrder
  <2> SUFFICES ASSUME Inv, OrderInv, NEW p \in Partitions,
                      NEW m \in Landed(p), NEW n \in Landed(p), m < n
               PROVE  /\ Min(Positions(p, m)) < Min(Positions(p, n))
                      /\ Max(Positions(p, m)) < Max(Positions(p, n))
    BY DEF InSendOrder
  <2>1. log[p] \in Seq(Nat) /\ LogOrder(log[p])
    BY DEF Inv, Typed, OrderInv, LineOK
  <2>2. m \in ToSet(log[p]) /\ n \in ToSet(log[p])
    BY DEF Landed
  <2>3. Min(At(log[p], m)) < Min(At(log[p], n)) /\ Max(At(log[p], m)) < Max(At(log[p], n))
    BY <2>1, <2>2, OrderOfExtremes
  <2>4. Positions(p, m) = At(log[p], m) /\ Positions(p, n) = At(log[p], n)
    BY DEF Positions, At
  <2> QED BY <2>3, <2>4
<1> QED BY <1>1, LinesInOrder, PTL

(* A record is in its partition no more often than its batch was tried,    *)
(* which is at most RETRIES times after the first: CopiesBoundedByRetries. *)
THEOREM RetriesBoundCopies == Spec => []CopiesBoundedByRetries
<1>1. Inv /\ OrderInv => CopiesBoundedByRetries
  <2> SUFFICES ASSUME Inv, OrderInv, NEW p \in Partitions, NEW n \in Landed(p)
               PROVE  Cardinality(Positions(p, n)) <= RETRIES + 1
    BY DEF CopiesBoundedByRetries
  <2>1. n \in Nat
    BY DEF Inv, Typed, Landed, ToSet
  <2>2. Cardinality(At(log[p], n)) <= RETRIES + 1
    BY <2>1 DEF OrderInv, LineOK, CopiesInLine
  <2>3. Positions(p, n) = At(log[p], n)
    BY DEF Positions, At
  <2> QED BY <2>2, <2>3
<1> QED BY <1>1, LinesInOrder, PTL

===============================================================================
