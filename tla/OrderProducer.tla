---------------------------- MODULE OrderProducer -----------------------------
(***************************************************************************)
(* The order producer: ingestion/producers/order_producer.py with the      *)
(* events of ingestion/producers/event_generator.py, on the Kafka client   *)
(* as it configures it.                                                    *)
(*                                                                         *)
(* KafkaProducer.send() only puts a record into a buffer.  A background    *)
(* thread sends the batches of each partition one at a time, because of    *)
(* max_in_flight_requests_per_connection=1, and sends a batch whose answer *)
(* is an error, or does not come, up to RETRIES times more.  The broker    *)
(* does not recognise a batch that it has already appended.                *)
(*                                                                         *)
(* A record is the number of the send() that made it: how the records of   *)
(* late, schema-evolved and normal events differ has no effect here.       *)
(***************************************************************************)
EXTENDS Integers, FiniteSets, SequencesExt

CONSTANTS
  OrderPartitions,   (* of orders-raw                                      *)
  RETRIES,           (* retries of the client                              *)
  RECENT_EVENTS,     (* events the generator remembers for duplicates      *)
  MaxEvents          (* bound: events generated                            *)

DLQ_TOPIC == "dlq-events"   (* it has one partition                        *)

Partitions == OrderPartitions \cup {DLQ_TOPIC}

ASSUME OrderProducerAssumption ==
  /\ DLQ_TOPIC \notin OrderPartitions
  /\ {RETRIES, RECENT_EVENTS, MaxEvents} \subseteq Nat

VARIABLES
  pc,         (* the main thread: "while", "body", "flush", "closed" or    *)
              (* "died"                                                    *)
  running,    (* self.running                                              *)
  recent,     (* the generator's _recent_events                            *)
  sent, dlq,  (* sent_count and dlq_count                                  *)
  queue,      (* of each partition: the batches the client holds           *)
  inFlight,   (* the batches that were sent and not answered               *)
  log,        (* of each partition of the topics: the records              *)
  failed      (* records that on_send_error was called for                 *)

main   == <<pc, running>>
counts == <<sent, dlq>>
client == <<queue, inFlight, failed>>
vars   == <<main, recent, counts, client, log>>

-----------------------------------------------------------------------------
(* Events.                                                                 *)

REQUIRED_FIELDS == {"event_id", "event_type", "order_id", "customer_id", "occurred_at"}

EmptyId == 0   (* an event_id that is there and empty: the generator gives none  *)

(* validate_event: no field is missing, and the event_id is not empty.     *)
IsValid(event) == REQUIRED_FIELDS \subseteq event.fields /\ event.id # EmptyId

(* generate_order_event, generate_late_event and                           *)
(* generate_schema_evolved_event: a new event of a new order, whose        *)
(* partition is the hash of its order_id.                                  *)
OrderEvents ==
  [id : {sent + dlq + 1}, fields : {REQUIRED_FIELDS}, hash : OrderPartitions]

(* For mutation: it forgets none.                                          *)
RememberingAll(event) == Append(recent, event)

(* The generator remembers an order event, and forgets the oldest one.     *)
Remembering(event) ==
  LET events == Append(recent, event)
  IN  IF Len(events) > RECENT_EVENTS THEN Tail(events) ELSE events

(* generate_malformed_event, which is not remembered.                      *)
MalformedEvent ==
  [id |-> sent + dlq + 1, fields |-> REQUIRED_FIELDS \ {"order_id", "customer_id"}]

-----------------------------------------------------------------------------
(* The client.                                                             *)

Batch(records) == [records |-> records, tries |-> 0]

InBatch(b)  == ToSet(b.records)
Pending(p)  == UNION {InBatch(b) : b \in ToSet(queue[p]) \cup ToSet(inFlight[p])}

(* send(): the record joins the last batch of its partition, unless that   *)
(* one is full or has been sent before, or begins a batch.                 *)
Send(n, p) ==
  LET batches == queue[p] IN
  /\ \/ queue' = [queue EXCEPT ![p] = Append(@, Batch(<<n>>))]
     \/ /\ batches # <<>>
        /\ Last(batches).tries = 0
        /\ queue' = [queue EXCEPT ![p][Len(batches)].records = Append(@, n)]
  /\ UNCHANGED <<inFlight, failed, log>>

(* For mutation: the client's default of five requests in flight.          *)
MayHaveMore(p) == Len(inFlight[p]) < 5

MayDrain(p) == inFlight[p] = <<>>

Drain(p) ==
  /\ queue[p] # <<>>
  /\ MayDrain(p)
  /\ inFlight' = [inFlight EXCEPT ![p] = Append(@, Head(queue[p]))]
  /\ queue' = [queue EXCEPT ![p] = Tail(@)]
  /\ UNCHANGED <<main, recent, counts, failed, log>>

(* The broker's part in a request.                                         *)
Appended(p) == log' = [log EXCEPT ![p] = @ \o Head(inFlight[p]).records]

Answered(p) ==
  /\ inFlight[p] # <<>>
  /\ inFlight' = [inFlight EXCEPT ![p] = Tail(@)]
  /\ UNCHANGED <<main, recent, counts>>

Acknowledge(p) == Answered(p) /\ Appended(p) /\ UNCHANGED <<queue, failed>>

(* For mutation: the batch is sent again as if it were new.                *)
RetriedAsNew(b) == b

Retried(b) == [b EXCEPT !.tries = @ + 1]

(* An error, or no answer, in which case the batch may have been appended: *)
(* it goes back to the front of the queue.                                 *)
Retry(p) ==
  LET b == Head(inFlight[p]) IN
  /\ Answered(p)
  /\ b.tries < RETRIES
  /\ Appended(p) \/ UNCHANGED log
  /\ queue' = [queue EXCEPT ![p] = <<Retried(b)>> \o @]
  /\ UNCHANGED failed

(* For mutation: no errback is called.                                     *)
Unreported(b) == failed

Reported(b) == failed \cup InBatch(b)

(* There are no retries left, or the error is one that is not retried.     *)
GiveUp(p) ==
  /\ Answered(p)
  /\ Appended(p) \/ UNCHANGED log
  /\ failed' = Reported(Head(inFlight[p]))
  /\ UNCHANGED queue

(* A batch that could not be sent for too long.                            *)
Expire(p) ==
  /\ queue[p] # <<>>
  /\ inFlight[p] = <<>>
  /\ failed' = Reported(Head(queue[p]))
  /\ queue' = [queue EXCEPT ![p] = Tail(@)]
  /\ UNCHANGED <<main, recent, counts, inFlight, log>>

-----------------------------------------------------------------------------
(* The main thread.                                                        *)

(* while self.running.                                                     *)
CheckRunning ==
  /\ pc = "while"
  /\ \/ running /\ sent + dlq < MaxEvents /\ pc' = "body"
     \/ ~ running /\ pc' = "flush"
  /\ UNCHANGED <<running, recent, counts, client, log>>

(* route_event: an invalid event goes to the dead letter topic, a valid    *)
(* one to the partition of its order; it is counted when send() returns.   *)
Route(event) ==
  LET n == sent + dlq + 1 IN
  IF IsValid(event)
  THEN Send(n, event.hash) /\ sent' = sent + 1 /\ UNCHANGED dlq
  ELSE Send(n, DLQ_TOPIC)  /\ dlq'  = dlq + 1  /\ UNCHANGED sent

(* One turn of the loop, with each kind of event that next_event returns.  *)
Emit(event) ==
  /\ pc = "body"
  /\ Route(event)
  /\ pc' = "while"
  /\ UNCHANGED running

EmitOrder     == \E e \in OrderEvents : Emit(e) /\ recent' = Remembering(e)
EmitDuplicate == \E e \in ToSet(recent) : Emit(e) /\ UNCHANGED recent
EmitMalformed == Emit(MalformedEvent) /\ UNCHANGED recent

(* SIGINT or SIGTERM: _shutdown.                                           *)
Shutdown ==
  /\ pc \in {"while", "body"}
  /\ running' = FALSE
  /\ UNCHANGED <<pc, recent, counts, client, log>>

(* For mutation: the program ends without flush() and close().             *)
CloseAtOnce ==
  /\ pc = "flush"
  /\ pc' = "closed"
  /\ queue' = [p \in Partitions |-> <<>>]
  /\ inFlight' = [p \in Partitions |-> <<>>]
  /\ UNCHANGED <<running, recent, counts, failed, log>>

(* flush() returns when every record has been delivered or has failed, and *)
(* close() has nothing left to do.                                         *)
FlushAndClose ==
  /\ pc = "flush"
  /\ \A p \in Partitions : Pending(p) = {}
  /\ pc' = "closed"
  /\ UNCHANGED <<running, recent, counts, client, log>>

(* The process is killed; or send() raises, for want of metadata or of     *)
(* memory, and the exception ends the program without flush().  What the   *)
(* client held is gone, but for requests that still reach the broker.      *)
Die ==
  /\ pc \in {"while", "body", "flush"}
  /\ pc' = "died"
  /\ queue' = [p \in Partitions |-> <<>>]
  /\ inFlight' = [p \in Partitions |-> <<>>]
  /\ \E reach \in SUBSET {p \in Partitions : inFlight[p] # <<>>} :
       log' = [p \in Partitions |->
                 IF p \in reach THEN log[p] \o Head(inFlight[p]).records ELSE log[p]]
  /\ UNCHANGED <<running, recent, counts, failed>>

-----------------------------------------------------------------------------
Init ==
  /\ pc = "while"
  /\ running = TRUE
  /\ recent = <<>>
  /\ sent = 0
  /\ dlq = 0
  /\ queue = [p \in Partitions |-> <<>>]
  /\ inFlight = [p \in Partitions |-> <<>>]
  /\ log = [p \in Partitions |-> <<>>]
  /\ failed = {}

Loop   == CheckRunning \/ EmitOrder \/ EmitDuplicate \/ EmitMalformed \/ FlushAndClose
Answer(p) == Acknowledge(p) \/ Retry(p) \/ GiveUp(p)
Sender(p) == Drain(p) \/ Answer(p)

Next ==
  \/ Loop \/ Shutdown \/ Die
  \/ \E p \in Partitions : Sender(p) \/ Expire(p)

Spec == Init /\ [][Next]_vars

(* Both threads of the program run; a request is answered or times out.    *)
FairSpec == Spec /\ WF_vars(Loop) /\ \A p \in Partitions : WF_vars(Sender(p))

-----------------------------------------------------------------------------
(* Properties.                                                             *)

Landed(p) == ToSet(log[p])
Accepted  == 1 .. sent + dlq

(* Every variable has its type.                                            *)
TypeOK ==
  /\ pc \in {"while", "body", "flush", "closed", "died"}
  /\ running \in BOOLEAN
  /\ sent \in Nat /\ dlq \in Nat /\ sent + dlq <= MaxEvents
  /\ Len(recent) <= RECENT_EVENTS
  /\ \A e \in ToSet(recent) : IsValid(e) /\ e.hash \in OrderPartitions
  /\ \A p \in Partitions :
       /\ Landed(p) \cup Pending(p) \subseteq Accepted
       /\ \A b \in ToSet(queue[p]) \cup ToSet(inFlight[p]) :
            b.records # <<>> /\ b.tries \in 0 .. RETRIES
  /\ failed \subseteq Accepted

(* sent_count and dlq_count count events when send() returns, long before  *)
(* they are delivered.  Unless the process dies, each event that they      *)
(* count is in its topic, or was reported to on_send_error, or is held by  *)
(* the client; and the client holds none after a clean shutdown.           *)
CountedIsAccountedFor ==
  pc # "died" =>
    Accepted = failed \cup UNION {Landed(p) \cup Pending(p) : p \in Partitions}
CleanShutdownDelivers ==
  pc = "closed" => Accepted = failed \cup UNION {Landed(p) : p \in Partitions}

(* The events of a partition are in the order of their send() calls,       *)
(* whatever is retried, given up, or lost with the process: no event has   *)
(* its first copy, or its last one, after that of a later event.           *)
Positions(p, n) == {i \in DOMAIN log[p] : log[p][i] = n}
InSendOrder ==
  \A p \in Partitions : \A m, n \in Landed(p) : m < n =>
    /\ Min(Positions(p, m)) < Min(Positions(p, n))
    /\ Max(Positions(p, m)) < Max(Positions(p, n))

(* Retries whose answers are lost put copies of one record into the topic: *)
(* no more than there are attempts.                                        *)
CopiesBoundedByRetries ==
  \A p \in Partitions : \A n \in Landed(p) : Cardinality(Positions(p, n)) <= RETRIES + 1

(* A shutdown ends: the loop is left, and flush() returns because the      *)
(* retries of a broker that does not answer come to an end.                *)
ShutdownEnds == ~ running ~> pc \in {"closed", "died"}

=============================================================================
