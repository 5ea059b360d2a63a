------------------------- MODULE SubscriptionProofs -------------------------
(***************************************************************************)
(* Theorems about Subscription, for any number of events and runs and for    *)
(* both kinds of consumer.                                                   *)
(***************************************************************************)
EXTENDS Subscription, TLAPS

\* Every variable keeps its type.
THEOREM TypeCorrect == Spec => []TypeOK
<1> USE ConstantsAssumption
    DEF TypeOK, Runs, Events, ProducerPhases, ConsumerPhases, ProducerStep, ConsumerStep
<1>1. Init => TypeOK
  <2> SUFFICES ASSUME Init PROVE TypeOK
    OBVIOUS
  <2>1. producer \in [Runs -> ProducerPhases] /\ consumer \in [Runs -> ConsumerPhases]
    BY DEF Init
  <2>2. /\ next \in [Runs -> 1..(MaxEvents + 1)]
        /\ item \in [Runs -> Events]
        /\ got \in [Runs -> Events]
    BY DEF Init
  <2>3. closed \in [Runs -> BOOLEAN] /\ panicked \in BOOLEAN
    BY DEF Init
  <2>4. emitted \in Events /\ shown \in Events /\ run \in 0..MaxRuns
    BY DEF Init
  <2> QED
    BY <2>1, <2>2, <2>3, <2>4
<1>2. TypeOK /\ [Next]_vars => TypeOK'
  <2> SUFFICES ASSUME TypeOK, [Next]_vars PROVE TypeOK'
    OBVIOUS
  <2>1. CASE Emit
    BY <2>1 DEF Emit
  <2>2. CASE Subscribe
    BY <2>2 DEF Subscribe
  <2>3. CASE Restart
    BY <2>3 DEF Restart
  <2>4. ASSUME NEW r \in Runs, ProducerNext(r) PROVE TypeOK'
    <3>1. CASE ListenFails(r) \/ RunFails(r) \/ RunEnds(r)
      BY <3>1 DEF ListenFails, RunFails, RunEnds
    <3>2. CASE Listen(r)
      <4>1. emitted + 1 \in 1..(MaxEvents + 1)
        OBVIOUS
      <4> QED
        BY <3>2, <4>1 DEF Listen
    <3>3. CASE Callback(r)
      <4>1. next[r] \in 1..MaxEvents /\ next[r] \in Events /\ next[r] + 1 \in 1..(MaxEvents + 1)
        BY <3>3 DEF Callback
      <4> QED
        BY <3>3, <4>1 DEF Callback
    <3>4. CASE CloseAfterRun(r)
      BY <3>4 DEF CloseAfterRun
    <3>5. CASE DeferredClose(r)
      BY <3>5 DEF DeferredClose
    <3> QED
      BY <2>4, <3>1, <3>2, <3>3, <3>4, <3>5 DEF ProducerNext
  <2>5. ASSUME NEW r \in Runs, ConsumerNext(r) PROVE TypeOK'
    <3>1. CASE Transfer(r)
      BY <3>1 DEF Transfer
    <3>2. CASE Store(r)
      BY <3>2 DEF Store
    <3>3. CASE StoreLost(r) \/ StoreFails(r) \/ SeeClosed(r)
      BY <3>3 DEF StoreLost, StoreFails, SeeClosed
    <3> QED
      BY <2>5, <3>1, <3>2, <3>3 DEF ConsumerNext
  <2>6. CASE UNCHANGED vars
    BY <2>6 DEF vars
  <2> QED
    BY <2>1, <2>2, <2>3, <2>4, <2>5, <2>6 DEF Next
<1> QED
  BY <1>1, <1>2, PTL DEF Spec

\* The pipeline invariant is inductive: one step per action of the two
\* goroutines, for the run that moves (r) and for every other (q).
LEMMA PipelineStep == TypeOK /\ PipelineInv /\ [Next]_vars => PipelineInv'
<1> SUFFICES ASSUME TypeOK, PipelineInv, [Next]_vars
             PROVE  PipelineInv'
  OBVIOUS
<1> USE ConstantsAssumption
    DEF TypeOK, Runs, Events, PipelineInv, Pipeline, ProducerStep, ConsumerStep
<1>1. CASE Emit
  <2> SUFFICES ASSUME NEW q \in Runs PROVE shown <= emitted' /\ Pipeline(q)'
    BY <1>1 DEF Emit
  <2>1. Pipeline(q) /\ shown <= emitted /\ emitted \in Nat /\ emitted' = emitted + 1
    BY <1>1 DEF Emit
  <2>2. UNCHANGED <<shown, run, producer, next, item, consumer, got, closed>>
    BY <1>1 DEF Emit
  <2>3. /\ shown \in Nat
        /\ next[q] \in Nat /\ item[q] \in Nat /\ got[q] \in Nat
    OBVIOUS
  <2> HIDE DEF PipelineInv, TypeOK
  <2> QED
    BY <2>1, <2>2, <2>3
<1>2. CASE Subscribe
  BY <1>2 DEF Subscribe
<1>3. CASE Restart
  BY <1>3 DEF Restart
<1>4. ASSUME NEW r \in Runs, ProducerNext(r) PROVE PipelineInv'
  <2>1. CASE ListenFails(r)
    BY <2>1 DEF ListenFails
  <2>2. CASE Listen(r)
    BY <2>2 DEF Listen
  <2>3. CASE Callback(r)
    <3> SUFFICES ASSUME NEW q \in Runs PROVE Pipeline(q)'
      BY <2>3 DEF Callback
    <3>1. Pipeline(q) /\ Pipeline(r)
      OBVIOUS
    <3>2. CASE q = r
      <4>1. /\ UNCHANGED <<emitted, shown, run, closed, consumer, got>>
            /\ producer[q] = "listen" /\ producer'[q] = "send"
            /\ item'[q] = next[q] /\ next'[q] = next[q] + 1 /\ next[q] <= emitted
        BY <2>3, <3>2 DEF Callback
      <4>2. emitted \in Nat /\ next[q] \in Nat
        OBVIOUS
      <4> HIDE DEF PipelineInv, TypeOK
      <4> QED
        BY <3>1, <4>1, <4>2
    <3>3. CASE q # r
      <4>1. /\ UNCHANGED <<emitted, shown, run, closed>>
            /\ producer'[q] = producer[q] /\ consumer'[q] = consumer[q]
            /\ next'[q] = next[q] /\ item'[q] = item[q] /\ got'[q] = got[q]
        BY <2>3, <3>3 DEF Callback
      <4> HIDE DEF PipelineInv, TypeOK
      <4> QED
        BY <3>1, <4>1
    <3> QED
      BY <3>2, <3>3
  <2>4. CASE RunFails(r) \/ RunEnds(r)
    <3> SUFFICES ASSUME NEW q \in Runs PROVE Pipeline(q)'
      BY <2>4 DEF RunFails, RunEnds
    <3>1. /\ Pipeline(q)
          /\ producer'[q] # producer[q] => producer[q] = "listen" /\ producer'[q] \in {"returning", "ended"}
          /\ UNCHANGED <<emitted, shown, run, next, item, consumer, got, closed>>
      BY <2>4 DEF RunFails, RunEnds
    <3> HIDE DEF PipelineInv
    <3> QED
      BY <3>1
  <2>5. CASE CloseAfterRun(r)
    BY <2>5 DEF CloseAfterRun
  <2>6. CASE DeferredClose(r)
    <3> SUFFICES ASSUME NEW q \in Runs PROVE Pipeline(q)'
      BY <2>6 DEF DeferredClose
    <3>1. /\ Pipeline(q)
          /\ producer'[q] # producer[q] => producer[q] = "returning" /\ producer'[q] = "done"
          /\ closed'[q] => closed[q] \/ producer'[q] \in {"returning", "done"}
          /\ UNCHANGED <<emitted, shown, run, next, item, consumer, got>>
      BY <2>6 DEF DeferredClose
    <3>2. ~ closed[q] => ~ closed'[q] \/ q = r
      BY <2>6 DEF DeferredClose
    <3> HIDE DEF PipelineInv
    <3> QED
      BY <2>6, <3>1, <3>2 DEF DeferredClose
  <2> QED
    BY <1>4, <2>1, <2>2, <2>3, <2>4, <2>5, <2>6 DEF ProducerNext
<1>5. ASSUME NEW r \in Runs, ConsumerNext(r) PROVE PipelineInv'
  <2>1. CASE Transfer(r)
    <3> SUFFICES ASSUME NEW q \in Runs PROVE Pipeline(q)'
      BY <2>1 DEF Transfer
    <3>1. Pipeline(q) /\ Pipeline(r)
      OBVIOUS
    <3>2. CASE q = r
      <4> HIDE DEF PipelineInv
      <4> QED
        BY <2>1, <3>1, <3>2 DEF Transfer
    <3>3. CASE q # r
      <4>1. /\ UNCHANGED <<emitted, shown, run, closed>>
            /\ producer'[q] = producer[q] /\ consumer'[q] = consumer[q]
            /\ next'[q] = next[q] /\ item'[q] = item[q] /\ got'[q] = got[q]
        BY <2>1, <3>3 DEF Transfer
      <4> HIDE DEF PipelineInv, TypeOK
      <4> QED
        BY <3>1, <4>1
    <3> QED
      BY <3>2, <3>3
  <2>2. CASE Store(r)
    <3>1. r = run /\ shown < got[r] /\ got[r] <= emitted
      <4>1. Pipeline(r) /\ consumer[r] = "handle"
        BY <2>2 DEF Store
      <4> HIDE DEF PipelineInv
      <4> QED
        BY <4>1
    <3>2. (shown <= emitted)'
      BY <2>2, <3>1 DEF Store
    <3> SUFFICES ASSUME NEW q \in Runs PROVE Pipeline(q)'
      BY <3>2
    <3>3. Pipeline(q) /\ Pipeline(r)
      OBVIOUS
    <3>4. CASE q = r
      <4> HIDE DEF PipelineInv
      <4> QED
        BY <2>2, <3>1, <3>3, <3>4 DEF Store
    <3>5. CASE q # r
      <4> HIDE DEF PipelineInv
      <4>1. /\ consumer[q] # "handle"
            /\ consumer[q] # "done" => producer[q] = "none"
        BY <3>1, <3>3, <3>5
      <4>2. /\ consumer'[q] = consumer[q]
            /\ UNCHANGED <<run, emitted, producer, next, item, got, closed>>
        BY <2>2, <3>5 DEF Store
      <4> QED
        BY <3>3, <4>1, <4>2
    <3> QED
      BY <3>4, <3>5
  <2>3. CASE StoreLost(r)
    BY <2>3 DEF StoreLost
  <2>4. CASE StoreFails(r)
    BY <2>4 DEF StoreFails
  <2>5. CASE SeeClosed(r)
    BY <2>5 DEF SeeClosed
  <2> QED
    BY <1>5, <2>1, <2>2, <2>3, <2>4, <2>5 DEF ConsumerNext
<1>6. CASE UNCHANGED vars
  BY <1>6 DEF vars
<1> QED
  BY <1>1, <1>2, <1>3, <1>4, <1>5, <1>6 DEF Next

LEMMA PipelineInvariant == Spec => []PipelineInv
<1>1. Init => PipelineInv
  BY ConstantsAssumption DEF Init, PipelineInv, Pipeline, Runs
<1> QED
  BY <1>1, PipelineStep, TypeCorrect, PTL DEF Spec

\* No run, of either kind, sends on a closed channel.
THEOREM NeverSendsOnClosed == Spec => []NoSendOnClosed
<1>1. PipelineInv => NoSendOnClosed
  BY DEF PipelineInv, Pipeline, NoSendOnClosed
<1> QED
  BY <1>1, PipelineInvariant, PTL

\* A data consumer returns only when its producer is past its last send.
THEOREM DataConsumerDrains == Spec => []ConsumerDrains
<1>1. PipelineInv => ConsumerDrains
  BY DEF PipelineInv, Pipeline, ConsumerDrains
<1> QED
  BY <1>1, PipelineInvariant, PTL

\* The subscription implements Feed: initial states map to initial states and
\* every step is a step of Feed or leaves it alone.
THEOREM ImplementsFeed == Spec => InOrder
<1>1. Init => FeedSpec!Init
  BY DEF Init, FeedSpec!Init
<1>2. TypeOK /\ PipelineInv /\ [Next]_vars => [FeedSpec!Next]_<<emitted, shown>>
  <2> SUFFICES ASSUME TypeOK, PipelineInv, [Next]_vars,
                      ~ UNCHANGED <<emitted, shown>>
               PROVE  FeedSpec!Next
    OBVIOUS
  <2>1. CASE Emit
    BY <2>1 DEF Emit, FeedSpec!Next, FeedSpec!Emit
  <2>2. ASSUME NEW r \in Runs, Store(r) PROVE FeedSpec!Next
    BY <2>2 DEF Store, ConsumerStep, TypeOK, Events, PipelineInv, Pipeline,
                FeedSpec!Next, FeedSpec!Show
  <2>3. ASSUME NEW r \in Runs, ProducerNext(r) PROVE FALSE
    BY <2>3 DEF ProducerNext, ListenFails, Listen, Callback, RunFails, RunEnds,
                CloseAfterRun, DeferredClose
  <2>4. ASSUME NEW r \in Runs, Transfer(r) \/ StoreLost(r) \/ StoreFails(r) \/ SeeClosed(r)
        PROVE FALSE
    BY <2>4 DEF Transfer, StoreLost, StoreFails, SeeClosed
  <2>5. ~ Subscribe /\ ~ Restart /\ ~ UNCHANGED vars
    BY DEF Subscribe, Restart, vars
  <2> QED
    BY <2>1, <2>2, <2>3, <2>4, <2>5 DEF Next, ConsumerNext
<1> QED
  BY <1>1, <1>2, TypeCorrect, PipelineInvariant, PTL DEF Spec, InOrder, FeedSpec!Spec
=============================================================================
