--------------------------- MODULE CollectorProofs ---------------------------
(***************************************************************************)
(* Theorems about Collector, for every set of configurations and every      *)
(* value of the bounds.                                                     *)
(***************************************************************************)
EXTENDS Collector, TLAPS

\* Every variable keeps its type, whatever the order of scans, edits,
\* goroutine steps and stops.
THEOREM TypeCorrect == Spec => []TypeOK
<1>1. Init => TypeOK
  <2> SUFFICES ASSUME Init PROVE TypeOK
    OBVIOUS
  <2> USE ConstantsAssumption DEF Init
  <2>1. sub \in [Configs -> [Kinds -> SubPhases]]
    BY DEF NoSubscription, SubPhases
  <2>2. collector \in [Configs -> Phases] /\ snap \in [Configs -> 0..MaxDevices]
    BY DEF AllIdle, NothingCovered, Phases
  <2>3. rows \subseteq Configs /\ stored \in [Configs -> 0..MaxDevices]
    OBVIOUS
  <2>4. batch \subseteq Snapshots /\ edits \in 0..MaxEdits /\ stops \in 0..MaxStops
    OBVIOUS
  <2> QED
    BY <2>1, <2>2, <2>3, <2>4 DEF TypeOK
<1>2. TypeOK /\ [Next]_vars => TypeOK'
  <2> SUFFICES ASSUME TypeOK, [Next]_vars PROVE TypeOK'
    OBVIOUS
  <2> USE ConstantsAssumption DEF TypeOK, Phases, SubPhases, database, process
  <2>1. ASSUME NEW c \in Configs, NEW en \in BOOLEAN, NEW act \in BOOLEAN,
               UpsertConfig(c, en, act)
        PROVE  TypeOK'
    BY <2>1 DEF UpsertConfig
  <2>2. ASSUME NEW c \in Configs, DeleteConfig(c) PROVE TypeOK'
    BY <2>2 DEF DeleteConfig
  <2>3. CASE Scan
    BY <2>3 DEF Scan, Snapshots
  <2>4. ASSUME NEW r \in batch, VisitDisabled(r) PROVE TypeOK'
    BY <2>4 DEF VisitDisabled, SetConfigActiveState, Snapshots
  <2>5. ASSUME NEW r \in batch, VisitEnabled(r) PROVE TypeOK'
    BY <2>5 DEF VisitEnabled, SetConfigActiveState, Snapshots
  <2>6. ASSUME NEW c \in Configs, CollectorStep(c) PROVE TypeOK'
    <3> USE DEF Step
    <3>1. CASE CollectFails(c)
      BY <3>1 DEF CollectFails, AfterCollection
    <3>2. CASE CollectSucceeds(c)
      BY <3>2 DEF CollectSucceeds, AfterCollection
    <3>3. CASE BackoffEnds(c)
      BY <3>3 DEF BackoffEnds
    <3>4. CASE StartData(c)
      BY <3>4 DEF StartData, Launch, Kinds
    <3>5. CASE StartStatus(c)
      BY <3>5 DEF StartStatus, Launch, Kinds
    <3>6. CASE RefreshTimeout(c)
      BY <3>6 DEF RefreshTimeout
    <3>7. CASE ReceiveTrigger(c)
      BY <3>7 DEF ReceiveTrigger
    <3> QED
      BY <2>6, <3>1, <3>2, <3>3, <3>4, <3>5, <3>6, <3>7 DEF CollectorStep
  <2>7. ASSUME NEW c \in Configs, NEW k \in Kinds, SubscriptionStep(c, k)
        PROVE  TypeOK'
    <3> USE DEF SubStep
    <3>1. CASE FetchSubscribed(c, k)
      BY <3>1 DEF FetchSubscribed
    <3>2. CASE FetchFails(c, k)
      BY <3>2 DEF FetchFails
    <3>3. CASE StreamEnds(c, k)
      BY <3>3 DEF StreamEnds
    <3>4. CASE TriggerResynchronize(c, k)
      BY <3>4 DEF TriggerResynchronize
    <3>5. CASE ReleaseId(c, k)
      BY <3>5 DEF ReleaseId
    <3> QED
      BY <2>7, <3>1, <3>2, <3>3, <3>4, <3>5 DEF SubscriptionStep
  <2>8. CASE Stop
    <3>1. (sub \in [Configs -> [Kinds -> SubPhases]])'
      BY <2>8 DEF Stop, NoSubscription
    <3>2. (collector \in [Configs -> Phases] /\ snap \in [Configs -> 0..MaxDevices])'
      BY <2>8 DEF Stop, AllIdle, NothingCovered
    <3>3. (/\ rows \subseteq Configs
           /\ enable \in [Configs -> BOOLEAN]
           /\ active \in [Configs -> BOOLEAN]
           /\ stored \in [Configs -> 0..MaxDevices])'
      BY <2>8 DEF Stop
    <3>4. (up \in BOOLEAN /\ batch \subseteq Snapshots /\ trigger \in BOOLEAN)'
      BY <2>8 DEF Stop
    <3>5. (edits \in 0..MaxEdits /\ stops \in 0..MaxStops)'
      BY <2>8 DEF Stop
    <3> QED
      BY <3>1, <3>2, <3>3, <3>4, <3>5
  <2>9. CASE Start
    BY <2>9 DEF Start
  <2>10. CASE UNCHANGED vars
    BY <2>10 DEF vars
  <2> HIDE DEF TypeOK
  <2> QED
    BY <2>1, <2>2, <2>3, <2>4, <2>5, <2>6, <2>7, <2>8, <2>9, <2>10
    DEF Next, Edit, Visit
<1> QED
  BY <1>1, <1>2, PTL DEF Spec

\* With one configuration and prompt goroutines, a goroutine that has sent its token
\* (app.go:99-107) and not yet released its id never finds the collector past its
\* last look at the ids with that token taken, through any edits, failures and
\* restarts.
THEOREM WakeInvariant ==
  ASSUME \A c, d \in Configs : c = d,
         ~ SlowRelease
  PROVE  Spec => []WakeInv
<1>1. Init => WakeInv
  BY DEF Init, WakeInv, TokenHeld, AllIdle, NoSubscription
<1>2. TypeOK /\ WakeInv /\ [Next]_vars => WakeInv'
  <2> SUFFICES ASSUME TypeOK, WakeInv, [Next]_vars, NEW e \in Configs
               PROVE  TokenHeld(e)'
    BY DEF WakeInv
  <2>0. TokenHeld(e)
    BY DEF WakeInv
  <2> USE <2>0 DEF TypeOK, TokenHeld, database, process, Kinds
  <2>1. ASSUME NEW c \in Configs, NEW en \in BOOLEAN, NEW act \in BOOLEAN,
               UpsertConfig(c, en, act)
        PROVE  TokenHeld(e)'
    BY <2>1 DEF UpsertConfig
  <2>2. ASSUME NEW c \in Configs, DeleteConfig(c) PROVE TokenHeld(e)'
    BY <2>2 DEF DeleteConfig
  <2>3. CASE Scan
    BY <2>3 DEF Scan
  <2>4. ASSUME NEW r \in batch, VisitDisabled(r) PROVE TokenHeld(e)'
    BY <2>4 DEF VisitDisabled
  <2>5. ASSUME NEW r \in batch, VisitEnabled(r) PROVE TokenHeld(e)'
    BY <2>5 DEF VisitEnabled
  <2>6. ASSUME NEW c \in Configs, CollectorStep(c) PROVE TokenHeld(e)'
    <3>0. c = e
      OBVIOUS
    <3> USE <3>0 DEF Step
    <3>1. CASE CollectFails(c)
      BY <3>1 DEF CollectFails
    <3>2. CASE CollectSucceeds(c)
      BY <3>2 DEF CollectSucceeds
    <3>3. CASE BackoffEnds(c)
      BY <3>3 DEF BackoffEnds
    <3>4. CASE StartData(c)
      BY <3>4 DEF StartData, Launch
    <3>5. CASE StartStatus(c)
      BY <3>5 DEF StartStatus, Launch
    <3>6. CASE RefreshTimeout(c)
      BY <3>6 DEF RefreshTimeout
    <3>7. CASE ReceiveTrigger(c)
      BY <3>7 DEF ReceiveTrigger
    <3> QED
      BY <2>6, <3>1, <3>2, <3>3, <3>4, <3>5, <3>6, <3>7 DEF CollectorStep
  <2>7. ASSUME NEW c \in Configs, NEW k \in Kinds, SubscriptionStep(c, k)
        PROVE  TokenHeld(e)'
    <3>0. c = e
      OBVIOUS
    <3> USE <3>0 DEF SubStep
    <3>1. CASE FetchSubscribed(c, k)
      BY <3>1 DEF FetchSubscribed
    <3>2. CASE FetchFails(c, k)
      BY <3>2 DEF FetchFails
    <3>3. CASE StreamEnds(c, k)
      BY <3>3 DEF StreamEnds
    <3>4. CASE TriggerResynchronize(c, k)
      BY <3>4 DEF TriggerResynchronize
    <3>5. CASE ReleaseId(c, k)
      BY <3>5 DEF ReleaseId
    <3> QED
      BY <2>7, <3>1, <3>2, <3>3, <3>4, <3>5 DEF SubscriptionStep
  <2>8. CASE Stop
    BY <2>8 DEF Stop, AllIdle, NoSubscription
  <2>9. CASE Start
    BY <2>9 DEF Start
  <2>10. CASE UNCHANGED vars
    BY <2>10 DEF vars
  <2> QED
    BY <2>1, <2>2, <2>3, <2>4, <2>5, <2>6, <2>7, <2>8, <2>9, <2>10
    DEF Next, Edit, Visit
<1> QED
  BY <1>1, <1>2, TypeCorrect, PTL DEF Spec

\* With one configuration and prompt goroutines, every exit of a subscription
\* leaves a token for the collector: the double select of app.go:108-127 loses no
\* wake-up.
THEOREM ResyncNotLost ==
  ASSUME \A c, d \in Configs : c = d,
         ~ SlowRelease
  PROVE  Spec => []NoLostResync
<1>1. WakeInv => NoLostResync
  BY DEF WakeInv, TokenHeld, NoLostResync
<1> QED
  BY <1>1, WakeInvariant, PTL
=============================================================================
