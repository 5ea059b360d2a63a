------------------------------ MODULE Collector ------------------------------
(***************************************************************************)
(* The life of the configurations inside the app (src/app.go): the loop    *)
(* collectData scans the configuration table every second, every enabled   *)
(* configuration gets one collector goroutine, a collector that succeeded   *)
(* starts the configuration's two subscription goroutines and then waits    *)
(* for its refresh interval or for a token of the trigger channel.          *)
(*                                                                         *)
(* The trigger is ONE buffered channel of capacity one for all the          *)
(* configurations; common.RunOnceWithParam keeps at most one goroutine per  *)
(* id, and the id is released only after the goroutine has returned.        *)
(*                                                                         *)
(* Abstracted: what a collection creates is the number of devices that have *)
(* datapoint rows; time is a choice (a timer may fire in any later state).  *)
(***************************************************************************)
EXTENDS Naturals

CONSTANTS
  Configs,      \* ids of configurations
  MaxDevices,   \* bound: devices one configuration may ever discover
  MaxEdits,     \* bound: edits of the configuration table through the API
  MaxStops,     \* bound: stops (signal, log.Fatal, panic) of the process
  Unanswered,   \* the configurations whose requests may hang for ever
  SlowRelease   \* may a goroutine be descheduled, between its trigger and the
                \* release of its RunOnce id, for a whole collection?

ASSUME ConstantsAssumption ==
  /\ MaxDevices \in Nat
  /\ MaxEdits \in Nat
  /\ MaxStops \in Nat
  /\ Unanswered \subseteq Configs
  /\ SlowRelease \in BOOLEAN

VARIABLES
  rows, enable, active, stored,     \* the database
  up, batch, collector, sub, snap, trigger,  \* the process
  edits, stops                      \* counters of the bounded environment

database == <<rows, enable, active, stored>>
process  == <<up, batch, collector, sub, snap, trigger>>
vars == <<database, process, edits, stops>>

Kinds == {"data", "status"}
Phases == {"idle", "collecting", "backoff", "startData", "startStatus", "waiting"}
SubPhases == {"none", "launched", "running", "exiting", "triggered"}
Snapshots == [id : Configs, enable : BOOLEAN, active : BOOLEAN]

\* Every variable keeps its type: no goroutine works for an id outside Configs.
TypeOK ==
  /\ rows \subseteq Configs
  /\ enable \in [Configs -> BOOLEAN]
  /\ active \in [Configs -> BOOLEAN]
  /\ stored \in [Configs -> 0..MaxDevices]
  /\ up \in BOOLEAN
  /\ batch \subseteq Snapshots
  /\ collector \in [Configs -> Phases]
  /\ sub \in [Configs -> [Kinds -> SubPhases]]
  /\ snap \in [Configs -> 0..MaxDevices]
  /\ trigger \in BOOLEAN
  /\ edits \in 0..MaxEdits
  /\ stops \in 0..MaxStops

AllIdle == [c \in Configs |-> "idle"]
NoSubscription == [c \in Configs |-> [k \in Kinds |-> "none"]]
NothingCovered == [c \in Configs |-> 0]

\* A fresh database, or the one an earlier process left behind.
Init ==
  /\ rows \in SUBSET Configs
  /\ enable \in [Configs -> BOOLEAN]
  /\ active \in [Configs -> BOOLEAN]
  /\ \A c \in Configs \ rows : ~ enable[c] /\ ~ active[c]
  /\ stored = [c \in Configs |-> 0]
  /\ up = TRUE
  /\ batch = {}
  /\ collector = AllIdle
  /\ sub = NoSubscription
  /\ snap = NothingCovered
  /\ trigger = FALSE
  /\ edits = 0
  /\ stops = 0

-----------------------------------------------------------------------------
(* The configuration table as the HTTP API edits it. *)

\* PUT: the row is created or overwritten, "active" with what the body says.
\* POST, which takes a fresh id, is the case c \notin rows, ~ act.
UpsertConfig(c, en, act) ==
  /\ up
  /\ edits < MaxEdits
  /\ edits' = edits + 1
  /\ rows' = rows \union {c}
  /\ enable' = [enable EXCEPT ![c] = en]
  /\ active' = [active EXCEPT ![c] = act]
  /\ UNCHANGED <<stored, process, stops>>

\* DELETE: the foreign keys cascade to the assets and their datapoints.
DeleteConfig(c) ==
  /\ up
  /\ c \in rows
  /\ edits < MaxEdits
  /\ edits' = edits + 1
  /\ rows' = rows \ {c}
  /\ enable' = [enable EXCEPT ![c] = FALSE]
  /\ active' = [active EXCEPT ![c] = FALSE]
  /\ stored' = [stored EXCEPT ![c] = 0]
  /\ UNCHANGED <<process, stops>>

-----------------------------------------------------------------------------
(* The loop of collectData. *)

\* GetConfigs: the loop works on this snapshot of the table.
Scan ==
  /\ up
  /\ batch = {}
  /\ batch' = {[id |-> c, enable |-> enable[c], active |-> active[c]] : c \in rows}
  /\ UNCHANGED <<database, up, collector, sub, snap, trigger, edits, stops>>

\* UPDATE ... SET active WHERE id: no row, no effect.
SetConfigActiveState(c, state) ==
  active' = IF c \in rows THEN [active EXCEPT ![c] = state] ELSE active

\* The scan reaches a disabled configuration. What runs for it is left alone.
VisitDisabled(r) ==
  /\ up
  /\ r \in batch
  /\ ~ r.enable
  /\ batch' = batch \ {r}
  /\ IF r.active THEN SetConfigActiveState(r.id, FALSE) ELSE UNCHANGED active
  /\ UNCHANGED <<rows, enable, stored, up, collector, sub, snap, trigger, edits, stops>>

MutVisitEnabledForgetsActive(r) ==
  /\ up
  /\ r \in batch
  /\ r.enable
  /\ batch' = batch \ {r}
  /\ collector' = [collector EXCEPT ![r.id] = IF @ = "idle" THEN "collecting" ELSE @]
  /\ UNCHANGED <<rows, enable, active, stored, up, sub, snap, trigger, edits, stops>>

\* The scan reaches an enabled configuration: RunOnceWithParam starts its
\* collector unless one runs already.
VisitEnabled(r) ==
  /\ up
  /\ r \in batch
  /\ r.enable
  /\ batch' = batch \ {r}
  /\ IF r.active THEN UNCHANGED active ELSE SetConfigActiveState(r.id, TRUE)
  /\ collector' = [collector EXCEPT ![r.id] = IF @ = "idle" THEN "collecting" ELSE @]
  /\ UNCHANGED <<rows, enable, stored, up, sub, snap, trigger, edits, stops>>

-----------------------------------------------------------------------------
(* The collector of one configuration. *)

MutAfterCollectionUnbounded(c) ==
  IF c \in rows THEN stored[c]..(MaxDevices + 1) ELSE {stored[c]}

\* The numbers of devices with datapoints after a collection: rows are never
\* removed, and without the configuration's row nothing can be inserted.
AfterCollection(c) == IF c \in rows THEN stored[c]..MaxDevices ELSE {stored[c]}

Step(c, from, to) ==
  /\ collector[c] = from
  /\ collector' = [collector EXCEPT ![c] = to]

\* collectResources returns an error, possibly after it has stored some devices.
CollectFails(c) ==
  /\ Step(c, "collecting", "backoff")
  /\ \E n \in AfterCollection(c) : stored' = [stored EXCEPT ![c] = n]
  /\ UNCHANGED <<rows, enable, active, up, batch, sub, snap, trigger, edits, stops>>

\* The five minutes' sleep, with the RunOnce id held.
BackoffEnds(c) ==
  /\ Step(c, "backoff", "idle")
  /\ UNCHANGED <<database, up, batch, sub, snap, trigger, edits, stops>>

\* A configuration names a project: without its row the upsert of the root asset
\* breaks the foreign key, and the collection cannot succeed. It is many requests
\* long: unless SlowRelease, a goroutine that has sent its trigger has long returned
\* when the collection is over.
CollectSucceeds(c) ==
  /\ Step(c, "collecting", "startData")
  /\ c \in rows
  /\ SlowRelease \/ \A k \in Kinds : sub[c][k] # "triggered"
  /\ \E n \in AfterCollection(c) : stored' = [stored EXCEPT ![c] = n]
  /\ UNCHANGED <<rows, enable, active, up, batch, sub, snap, trigger, edits, stops>>

\* The nested RunOnceWithParam: a subscription that still runs is kept.
Launch(c, k) ==
  sub' = [sub EXCEPT ![c][k] = IF @ = "none" THEN "launched" ELSE @]

StartData(c) ==
  /\ Step(c, "startData", "startStatus")
  /\ Launch(c, "data")
  /\ UNCHANGED <<database, up, batch, snap, trigger, edits, stops>>

MutStartStatusDrains(c) ==
  /\ Step(c, "startStatus", "waiting")
  /\ Launch(c, "status")
  /\ trigger' = FALSE
  /\ UNCHANGED <<database, up, batch, snap, edits, stops>>

StartStatus(c) ==
  /\ Step(c, "startStatus", "waiting")
  /\ Launch(c, "status")
  /\ UNCHANGED <<database, up, batch, snap, trigger, edits, stops>>

MutRefreshTimeoutLoops(c) ==
  /\ Step(c, "waiting", "collecting")
  /\ UNCHANGED <<database, up, batch, sub, snap, trigger, edits, stops>>

MutRefreshTimeoutOnlyTriggered(c) ==
  /\ Step(c, "waiting", "idle")
  /\ trigger
  /\ UNCHANGED <<database, up, batch, sub, snap, trigger, edits, stops>>

\* time.After(RefreshInterval)
RefreshTimeout(c) ==
  /\ Step(c, "waiting", "idle")
  /\ UNCHANGED <<database, up, batch, sub, snap, trigger, edits, stops>>

\* <-resynchronizeTrigger, whichever subscription of whichever configuration
\* has sent the token.
ReceiveTrigger(c) ==
  /\ Step(c, "waiting", "idle")
  /\ trigger
  /\ trigger' = FALSE
  /\ UNCHANGED <<database, up, batch, sub, snap, edits, stops>>

-----------------------------------------------------------------------------
(* A subscription goroutine. *)

SubStep(c, k, from, to) ==
  /\ sub[c][k] = from
  /\ sub' = [sub EXCEPT ![c][k] = to]

MutFetchSubscribedNothing(c, k) ==
  /\ SubStep(c, k, "launched", "running")
  /\ UNCHANGED <<database, up, batch, collector, snap, trigger, edits, stops>>

\* FetchAllDatapoints or GetSystems: what the subscription covers is fixed here.
FetchSubscribed(c, k) ==
  /\ SubStep(c, k, "launched", "running")
  /\ snap' = IF k = "data" THEN [snap EXCEPT ![c] = stored[c]] ELSE snap
  /\ UNCHANGED <<database, up, batch, collector, trigger, edits, stops>>

FetchFails(c, k) ==
  /\ SubStep(c, k, "launched", "exiting")
  /\ UNCHANGED <<database, up, batch, collector, snap, trigger, edits, stops>>

\* The channel is closed, or the status consumer returns on an error.
StreamEnds(c, k) ==
  /\ SubStep(c, k, "running", "exiting")
  /\ snap' = IF k = "data" THEN [snap EXCEPT ![c] = 0] ELSE snap
  /\ UNCHANGED <<database, up, batch, collector, trigger, edits, stops>>

MutTriggerResynchronizeForgets(c, k) ==
  /\ SubStep(c, k, "exiting", "triggered")
  /\ UNCHANGED <<database, up, batch, collector, snap, trigger, edits, stops>>

\* A non-blocking send: a token that is already there is kept.
TriggerResynchronize(c, k) ==
  /\ SubStep(c, k, "exiting", "triggered")
  /\ trigger' = TRUE
  /\ UNCHANGED <<database, up, batch, collector, snap, edits, stops>>

\* The goroutine returns and RunOnceWithParam forgets its id.
ReleaseId(c, k) ==
  /\ SubStep(c, k, "triggered", "none")
  /\ UNCHANGED <<database, up, batch, collector, snap, trigger, edits, stops>>

-----------------------------------------------------------------------------
(* The process. *)

\* A signal, log.Fatal or a panic: every goroutine is gone, the table stays as
\* it is (SetAllConfigsInactive is never called).
Stop ==
  /\ up
  /\ stops < MaxStops
  /\ stops' = stops + 1
  /\ up' = FALSE
  /\ batch' = {}
  /\ collector' = AllIdle
  /\ sub' = NoSubscription
  /\ snap' = NothingCovered
  /\ trigger' = FALSE
  /\ UNCHANGED <<database, edits>>

Start ==
  /\ ~ up
  /\ up' = TRUE
  /\ UNCHANGED <<database, batch, collector, sub, snap, trigger, edits, stops>>

-----------------------------------------------------------------------------

Edit == \E c \in Configs :
  \/ \E en, act \in BOOLEAN : UpsertConfig(c, en, act)
  \/ DeleteConfig(c)

Visit == \E r \in batch : VisitDisabled(r) \/ VisitEnabled(r)

CollectorStep(c) ==
  \/ CollectFails(c)
  \/ BackoffEnds(c)
  \/ CollectSucceeds(c)
  \/ StartData(c)
  \/ StartStatus(c)
  \/ RefreshTimeout(c)
  \/ ReceiveTrigger(c)

SubscriptionStep(c, k) ==
  \/ FetchSubscribed(c, k)
  \/ FetchFails(c, k)
  \/ StreamEnds(c, k)
  \/ TriggerResynchronize(c, k)
  \/ ReleaseId(c, k)

Next ==
  \/ Edit
  \/ Scan
  \/ Visit
  \/ \E c \in Configs : CollectorStep(c)
  \/ \E c \in Configs, k \in Kinds : SubscriptionStep(c, k)
  \/ Stop
  \/ Start

Spec == Init /\ [][Next]_vars

\* Goroutines that can run are run, timers fire, the container is restarted.
CodeFairness ==
  /\ WF_vars(Scan)
  /\ WF_vars(Visit)
  /\ WF_vars(Start)
  /\ \A c \in Configs :
       /\ WF_vars(BackoffEnds(c) \/ StartData(c) \/ StartStatus(c)
                    \/ RefreshTimeout(c) \/ ReceiveTrigger(c))
       /\ \A k \in Kinds : WF_vars(TriggerResynchronize(c, k) \/ ReleaseId(c, k))

Answered == Configs \ Unanswered

\* ABB and Eliona answer every request of these configurations, and not every
\* collection fails for ever. The code has no timeout of its own on the GraphQL path
\* (cloud_auth.go:152): of the others any request may be the last.
RequestsAnswered == \A c \in Answered :
  /\ WF_vars(CollectFails(c) \/ CollectSucceeds(c))
  /\ \A k \in Kinds : WF_vars(FetchSubscribed(c, k) \/ FetchFails(c, k))
  /\ SF_vars(CollectSucceeds(c))
  /\ SF_vars(FetchSubscribed(c, "data"))

FairSpec == Spec /\ CodeFairness /\ RequestsAnswered

-----------------------------------------------------------------------------
(* Safety *)

\* A collector that waits while one of its subscriptions is gone has a token to
\* wake it: triggerResynchronize's wake-up is not lost (app.go:99-101, 105-107,
\* 108-117). True of one configuration when ~ SlowRelease.
NoLostResync == \A c \in Configs, k \in Kinds :
  collector[c] = "waiting" /\ sub[c][k] = "none" => trigger

\* The strengthening that is inductive: a goroutine between its trigger and the
\* release of its id (W1), and the stretch between the two launches (W3), have
\* sent a token that nobody but the waiting collector itself can take.
TokenHeld(c) ==
  /\ \A k \in Kinds :
       /\ \/ collector[c] \notin {"startData", "startStatus", "waiting"}
          \/ sub[c][k] # "triggered"
          \/ trigger                                                 \* W1
       /\ collector[c] = "waiting" /\ sub[c][k] = "none" => trigger   \* W2
  /\ collector[c] = "startStatus" /\ sub[c]["data"] = "none" => trigger  \* W3

WakeInv == \A c \in Configs : TokenHeld(c)

-----------------------------------------------------------------------------
(* Liveness *)

\* Once the edits are over, the table's "active" settles on "enable": the scan
\* repairs what PUT, DELETE or a stop has left (app.go:58-79).
ActiveSettles == <>[](\A c \in rows : active[c] = enable[c])

Disabled(c) == c \notin rows \/ ~ enable[c]

\* A configuration that stays disabled or deleted is not collected for ever,
\* although scans, timers and tokens started before go on (app.go:58-64).
DisabledCollectorDrains == \A c \in Answered :
  <>[]Disabled(c) => <>[](collector[c] = "idle")

\* "Flag to enable or disable fetching from this API" (openapi.yaml:282): a
\* configuration whose flag a PUT has cleared for good is not subscribed for ever.
DisabledUnsubscribes == \A c \in Configs :
  <>[](c \in rows /\ ~ enable[c]) => <>[](sub[c]["data"] = "none")

\* A configuration that stays enabled is subscribed to again after every end of
\* its stream, failed collection and restart, and whatever request of another
\* configuration is never answered.
EnabledResubscribes == \A c \in Answered :
  <>[](~ Disabled(c)) => []<>(sub[c]["data"] = "running")

\* The datapoints of devices that are discovered while a subscription runs are not
\* in its list (app.go:159). They are when it is made again, as long as
\* subscriptions go on ending.
RestartCatchesUp == \A c \in Answered :
  <>[](~ Disabled(c)) /\ []<>(sub[c]["data"] = "none") =>
    []<>(sub[c]["data"] = "running" /\ snap[c] = stored[c])
=============================================================================
