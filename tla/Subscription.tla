---------------------------- MODULE Subscription ----------------------------
(***************************************************************************)
(* One kind of subscription of one configuration, run after run (app.go     *)
(* subscribeToDataChanges and subscribeToSystemStatus, broker ListenFor..,  *)
(* abbgraphql Subscribe..). A run is a producer goroutine, which drives the  *)
(* websocket client and whose callback sends on an unbuffered channel, and    *)
(* the consumer loop, which stores what it receives in Eliona. The next run   *)
(* begins after the consumer of the previous one has returned.               *)
(*                                                                         *)
(* An event is its position in the stream ABB emits. The client calls back    *)
(* in the goroutine of Run, one message after the other.                     *)
(***************************************************************************)
EXTENDS Naturals

CONSTANTS
  ReturnsOnError,  \* the status consumer returns on an error, the data consumer
                   \* goes on with the next event
  MaxEvents,       \* bound: events ABB emits
  MaxRuns          \* bound: runs of the subscription

ASSUME ConstantsAssumption ==
  /\ ReturnsOnError \in BOOLEAN
  /\ MaxEvents \in Nat
  /\ MaxRuns \in Nat

VARIABLES
  emitted,   \* the last event ABB has emitted
  shown,     \* the last event stored in Eliona
  run,       \* the current run, 0 before the first
  producer,  \* of each run: its producer goroutine
  next,      \* of each run: the next message its websocket will read
  item,      \* of each run: the event its callback is sending
  consumer,  \* of each run: its consumer loop
  got,       \* of each run: the event its consumer is storing
  closed,    \* of each run: has its channel been closed
  panicked   \* the process has died of a panic

vars == <<emitted, shown, run, producer, next, item, consumer, got, closed, panicked>>

Runs == 1..MaxRuns
Events == 0..MaxEvents
ProducerPhases == {"none", "login", "listen", "send", "ended", "returning", "done"}
ConsumerPhases == {"none", "receive", "handle", "done"}

\* Every variable keeps its type, in every run of the subscription.
TypeOK ==
  /\ emitted \in Events
  /\ shown \in Events
  /\ run \in 0..MaxRuns
  /\ producer \in [Runs -> ProducerPhases]
  /\ next \in [Runs -> 1..(MaxEvents + 1)]
  /\ item \in [Runs -> Events]
  /\ consumer \in [Runs -> ConsumerPhases]
  /\ got \in [Runs -> Events]
  /\ closed \in [Runs -> BOOLEAN]
  /\ panicked \in BOOLEAN

Init ==
  /\ emitted = 0
  /\ shown = 0
  /\ run = 0
  /\ producer = [r \in Runs |-> "none"]
  /\ next = [r \in Runs |-> 1]
  /\ item = [r \in Runs |-> 0]
  /\ consumer = [r \in Runs |-> "none"]
  /\ got = [r \in Runs |-> 0]
  /\ closed = [r \in Runs |-> FALSE]
  /\ panicked = FALSE

-----------------------------------------------------------------------------
(* ABB *)

Emit ==
  /\ emitted < MaxEvents
  /\ emitted' = emitted + 1
  /\ UNCHANGED <<shown, run, producer, next, item, consumer, got, closed, panicked>>

-----------------------------------------------------------------------------
(* The producer *)

ProducerStep(r, from, to) ==
  /\ ~ panicked
  /\ producer[r] = from
  /\ producer' = [producer EXCEPT ![r] = to]

\* The collector starts the subscription: snapshot, make(chan), go func.
Subscribe ==
  /\ ~ panicked
  /\ run < MaxRuns
  /\ run > 0 => consumer[run] = "done"
  /\ run' = run + 1
  /\ producer' = [producer EXCEPT ![run + 1] = "login"]
  /\ consumer' = [consumer EXCEPT ![run + 1] = "receive"]
  /\ UNCHANGED <<emitted, shown, next, item, got, closed, panicked>>

\* getAPI or client.Subscribe fails.
ListenFails(r) ==
  /\ ProducerStep(r, "login", "returning")
  /\ UNCHANGED <<emitted, shown, run, next, item, consumer, got, closed, panicked>>

MutListenReplays(r) ==
  /\ ProducerStep(r, "login", "listen")
  /\ UNCHANGED <<emitted, shown, run, next, item, consumer, got, closed, panicked>>

\* The websocket is connected: events emitted from now on reach it.
Listen(r) ==
  /\ ProducerStep(r, "login", "listen")
  /\ next' = [next EXCEPT ![r] = emitted + 1]
  /\ UNCHANGED <<emitted, shown, run, item, consumer, got, closed, panicked>>

MutCallbackEager(r) ==
  /\ ProducerStep(r, "listen", "send")
  /\ next[r] <= emitted + 1
  /\ item' = [item EXCEPT ![r] = next[r]]
  /\ next' = [next EXCEPT ![r] = @ + 1]
  /\ UNCHANGED <<emitted, shown, run, consumer, got, closed, panicked>>

\* The callback has decoded a message and blocks in ch <- data.
Callback(r) ==
  /\ ProducerStep(r, "listen", "send")
  /\ next[r] <= emitted
  /\ item' = [item EXCEPT ![r] = next[r]]
  /\ next' = [next EXCEPT ![r] = @ + 1]
  /\ UNCHANGED <<emitted, shown, run, consumer, got, closed, panicked>>

\* The callback returns an error, or the connection breaks: OnError returns it
\* and so does Run.
RunFails(r) ==
  /\ ProducerStep(r, "listen", "returning")
  /\ UNCHANGED <<emitted, shown, run, next, item, consumer, got, closed, panicked>>

\* Run returns nil.
RunEnds(r) ==
  /\ ProducerStep(r, "listen", "ended")
  /\ UNCHANGED <<emitted, shown, run, next, item, consumer, got, closed, panicked>>

\* close(ch) in abbgraphql, which only the run that ended without error reaches.
CloseAfterRun(r) ==
  /\ ProducerStep(r, "ended", "returning")
  /\ closed' = [closed EXCEPT ![r] = TRUE]
  /\ UNCHANGED <<emitted, shown, run, next, item, consumer, got, panicked>>

\* defer close(dataPointChan) in app.go: closing a closed channel panics.
DeferredClose(r) ==
  /\ IF closed[r]
       THEN /\ ~ panicked
            /\ producer[r] = "returning"
            /\ panicked' = TRUE
            /\ UNCHANGED <<producer, closed>>
       ELSE /\ ProducerStep(r, "returning", "done")
            /\ closed' = [closed EXCEPT ![r] = TRUE]
            /\ UNCHANGED panicked
  /\ UNCHANGED <<emitted, shown, run, next, item, consumer, got>>

-----------------------------------------------------------------------------
(* The consumer *)

ConsumerStep(r, from, to) ==
  /\ ~ panicked
  /\ consumer[r] = from
  /\ consumer' = [consumer EXCEPT ![r] = to]

\* The rendezvous on the unbuffered channel.
Transfer(r) ==
  /\ ProducerStep(r, "send", "listen")
  /\ ConsumerStep(r, "receive", "handle")
  /\ got' = [got EXCEPT ![r] = item[r]]
  /\ UNCHANGED <<emitted, shown, run, next, item, closed, panicked>>

\* The event is stored in Eliona.
Store(r) ==
  /\ ConsumerStep(r, "handle", "receive")
  /\ shown' = got[r]
  /\ UNCHANGED <<emitted, run, producer, next, item, got, closed, panicked>>

\* The call of Eliona fails: its result is dropped and the loop goes on.
StoreLost(r) ==
  /\ ConsumerStep(r, "handle", "receive")
  /\ UNCHANGED <<emitted, shown, run, producer, next, item, got, closed, panicked>>

MutStoreFailsCloses(r) ==
  /\ ConsumerStep(r, "handle", "done")
  /\ closed' = [closed EXCEPT ![r] = TRUE]
  /\ UNCHANGED <<emitted, shown, run, producer, next, item, got, panicked>>

\* The lookup of the datapoint or the asset fails: continue or return.
StoreFails(r) ==
  /\ ConsumerStep(r, "handle", IF ReturnsOnError THEN "done" ELSE "receive")
  /\ UNCHANGED <<emitted, shown, run, producer, next, item, got, closed, panicked>>

\* The range loop ends with the channel.
SeeClosed(r) ==
  /\ ConsumerStep(r, "receive", "done")
  /\ closed[r]
  /\ UNCHANGED <<emitted, shown, run, producer, next, item, got, closed, panicked>>

\* The container is started again; Eliona keeps what it shows.
Restart ==
  /\ panicked
  /\ panicked' = FALSE
  /\ producer' = [r \in Runs |-> IF r <= run THEN "done" ELSE producer[r]]
  /\ consumer' = [r \in Runs |-> IF r <= run THEN "done" ELSE consumer[r]]
  /\ UNCHANGED <<emitted, shown, run, next, item, got, closed>>

-----------------------------------------------------------------------------

ProducerNext(r) ==
  \/ ListenFails(r)
  \/ Listen(r)
  \/ Callback(r)
  \/ RunFails(r)
  \/ RunEnds(r)
  \/ CloseAfterRun(r)
  \/ DeferredClose(r)

ConsumerNext(r) ==
  \/ Transfer(r)
  \/ Store(r)
  \/ StoreLost(r)
  \/ StoreFails(r)
  \/ SeeClosed(r)

Next ==
  \/ Emit
  \/ Subscribe
  \/ Restart
  \/ \E r \in Runs : ProducerNext(r) \/ ConsumerNext(r)

Spec == Init /\ [][Next]_vars

\* Goroutines that can go on do, what ABB emits is read, and no connection
\* lasts for ever.
Fairness ==
  /\ WF_vars(Subscribe)
  /\ WF_vars(Restart)
  /\ \A r \in Runs :
       /\ WF_vars(ListenFails(r) \/ Listen(r) \/ CloseAfterRun(r) \/ DeferredClose(r))
       /\ WF_vars(Callback(r))
       /\ WF_vars(RunFails(r) \/ RunEnds(r))
       /\ WF_vars(ConsumerNext(r))

FairSpec == Spec /\ Fairness

-----------------------------------------------------------------------------
(* Properties *)

\* No goroutine ever sends on a closed channel: only the producer closes its
\* channel, and only after its callback has returned (app.go:167, 202).
NoSendOnClosed == \A r \in Runs : producer[r] = "send" => ~ closed[r]

\* The data consumer outlives its producer's channel: when the goroutine returns
\* and the next run may begin, no websocket of this run is still feeding it.
ConsumerDrains == \A r \in Runs :
  ~ ReturnsOnError /\ consumer[r] = "done" => producer[r] \in {"returning", "done"}

\* What makes the three claims inductive. Only the last run has a live consumer;
\* along its pipeline shown < got < item < next the events increase.
Pipeline(r) ==
  /\ r > run => producer[r] = "none" /\ consumer[r] = "none" /\ ~ closed[r]
  /\ r <= run => producer[r] # "none" /\ consumer[r] # "none"
  /\ r < run => consumer[r] = "done"
  /\ closed[r] => producer[r] \in {"returning", "done"}
  /\ ~ ReturnsOnError /\ consumer[r] = "done" => producer[r] \in {"returning", "done"}
  /\ producer[r] = "login" => consumer[r] = "receive"
  /\ next[r] <= emitted + 1
  /\ consumer[r] = "handle" => shown < got[r] /\ got[r] <= emitted
  /\ consumer[r] # "done" /\ producer[r] = "listen" =>
       shown < next[r] /\ (consumer[r] = "handle" => got[r] < next[r])
  /\ consumer[r] # "done" /\ producer[r] = "send" =>
       /\ shown < item[r] /\ item[r] <= emitted /\ item[r] < next[r]
       /\ consumer[r] = "handle" => got[r] < item[r]

PipelineInv == shown <= emitted /\ \A r \in Runs : Pipeline(r)

\* The values shown in Eliona follow the events in order, across runs, failed
\* stores and crashes.
FeedSpec == INSTANCE Feed WITH sent <- emitted, seen <- shown
InOrder == FeedSpec!Spec

\* The callback of a data subscription is never blocked for good: whatever the
\* consumer meets, it comes back to receive (app.go:173-185).
CallbackReturns == \A r \in Runs : producer[r] = "send" ~> producer[r] # "send"

\* A subscription that ends is restarted (app.go:99), it does not kill the app.
NoPanic == ~ panicked
=============================================================================
