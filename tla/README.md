# A TLA+ model of the ABB-free@home app

The app connects ABB-free@home installations to Eliona, a building management
system. It reads the devices of an ABB account, creates an Eliona asset for each,
keeps the assets' values up to date, and passes values that users set in Eliona on
to the devices. This directory models the parts of it in which order, concurrency,
failure or the agreement of several tables matter, checks them with TLC and proves
the main invariants with TLAPS.

Paths below are relative to the repository's source. `app.go:96` is a line of it.

## 1. The system

### Processes

`main` runs three things for ever (`main.go:46`): `collectData` every second, the
listener for output changes, and the HTTP server of the app's own API. Everything
else is started from them.

| Goroutine | Started by | Runs |
|---|---|---|
| scan | `common.Loop(collectData, 1 s)` | `collectData` (`app.go:45`): walks the configurations and starts collectors |
| collector, one per configuration | the scan, `RunOnceWithParam` id `config.Id` | `collectAndStartSubscription` (`app.go:83`): collect, start subscriptions, wait |
| data subscription, one per configuration | the collector, id `subscription_<config>` (`app.go:101`) | `subscribeToDataChanges` (`app.go:158`): producer goroutine and consumer loop |
| status subscription, one per configuration | the collector, id `status_subscription_<config>` (`app.go:107`) | `subscribeToSystemStatus` (`app.go:188`) |
| output listener | `main` | `listenForOutputChanges` (`app.go:242`), `setAsset` (`app.go:282`) |
| API requests | the HTTP server | `apiservices`, `conf`, `eliona/dashboard.go` |

They share the database (tables `configuration`, `asset`, `datapoint`,
`datapoint_attribute`), the channel `resynchronizeTrigger` (`app.go:43`, capacity
one, one for all configurations), and Eliona's and ABB's state behind their APIs.

### Components, their state and operations

| Component | State | Operations | What makes it correct |
|---|---|---|---|
| Collector lifecycle | `configuration` rows (`enable`, `active`), the set of RunOnce ids, the trigger, what a subscription covers | scan, visit, collect, back off, start subscriptions, wait for timer or trigger, trigger, release an id, edits by the API, stop and start of the process | no wake-up is lost; `active` follows `enable`; what is enabled is subscribed again and again, also beside a configuration whose requests hang; what is disabled drains; new devices are covered by the next subscription |
| Subscriptions ABB → Eliona | websocket, unbuffered channel, value shown in Eliona | subscribe, callback, send, receive, store, end, close | never a send on a closed channel; values in order; nobody is blocked for good |
| Datapoint mapping and conversion | constant tables | the cases of `broker.GetSystems`, the tags of `model`, `parseInt8`, `convertToNumber` | seven places name a channel's attributes and must agree |
| Value synchronisation | all four tables, the snapshot of a running collection, Eliona's values | collections, subscription and commands of one channel in several projects | nothing is shown that was neither reported nor set, but for the colours of hue lights; in the end every project shows ABB's values; no command for a stored channel ends the process |
| Continuous asset creation | `asset`, `datapoint`, `datapoint_attribute`, Eliona's assets, notifications | a pass over root, systems, devices, channels | nothing announced or stored twice; deleted assets stay deleted unless an upsert is under way; a pass that is not cut short completes and announces |
| Output control Eliona → ABB | Eliona's attribute values, device values, listener | receive, `setAsset` with two special functions, feedback by the subscription | no echo loop; both sides agree at rest; temperatures really set; scenes return to zero |
| Authorization | token columns, every goroutine's copy of the configuration | login, reuse, refresh, persist, invalidate | a subscription has a token; one login is enough; the app gets back to being authorized |
| Configuration API | table `configuration`, its id sequence | POST, PUT, DELETE, the app's updates | rows are complete and as the last request asked; the app does not revive or cross-write rows; a repeated POST succeeds |
| Dashboard | the widgets built so far | a dozen fetches from Eliona | a delivered dashboard is a true picture, in elements Eliona knows |
| Websocket and HTTP client | a connection | `abbconnection` | the local API's websocket client is not called by the app |
| Generated layers | caches of SQL text | `appdb`, `apiserver` | each statement is one atomic access |

### How they interact

The API writes `configuration`; the scan reads it and starts collectors; a collector
reads ABB (through Authorization, which writes the token columns), creates assets
and writes values, then starts the subscriptions; a subscription writes values to
Eliona and, when it ends, wakes *some* collector; the output listener writes to ABB,
and what it has written comes back through a subscription, marked with the app's
client reference so that the listener ignores it. A dashboard request reads what all
of these have left in Eliona, while they go on.

### What is hard

Two collectors and one trigger; a goroutine that has sent its trigger and has not
released its id; a request that is never answered; a scan working on a snapshot; a
crash with rows left active; two closes of one channel; a consumer that leaves its
producer behind; a collection that writes values older than the subscription's; a
failure between an asset's row and its datapoints; a user deleting an asset between the
look at Eliona and the upsert; two configurations taking one asset
row from each other; a configuration deleted, with everything that hangs on it, in the
middle of a pass; two projects whose rows a query does not tell apart; commands, echoes
and device changes crossing; a call failing between the two writes of a temperature;
three goroutines refreshing one token and one of them invalidating it; ids chosen by
users ahead of the sequence; a dashboard put together from a dozen fetches of a moving
world. `PROJECT.json` lists each at its line, with the property that watches it.

## 2. The modules

| Module | Models | Composition |
|---|---|---|
| `Collector` | `app.go:45-127`, `conf` flags, RunOnce ids, process stops | |
| `CollectorProofs` | theorems about it | extends `Collector` |
| `Feed` | what a subscription promises: Eliona's value follows ABB's events forward | abstract |
| `Subscription` | `app.go:158-227`, `broker.ListenFor...`, `abbgraphql.Subscribe...`, `eliona/data.go:83-149` | implements `Feed` (property `InOrder`) |
| `SubscriptionProofs` | theorems about it, and that it implements `Feed` | extends `Subscription` |
| `DatapointMap` | `model/abb.go`, the tags of `model/model.go`, the cases of `broker.GetSystems`, the conversions | constant module |
| `Tables` | `conf/init.sql` with its cascades, the queries and commands of `conf` and `appdb` on it | operators only |
| `DataPath` | one channel end to end: collections, subscription and commands through those tables | extends `DatapointMap` and `Tables` |
| `DataPathProofs` | theorems about it | extends `DataPath` |
| `MCDataPath` | the channels for TLC | extends `DataPath` |
| `Catalogue` | what asset creation promises: recorded after it was created, never dropped, announced once | abstract |
| `AssetCreation` | `eliona/assets.go`, `conf` assets and datapoints | implements `Catalogue` (property `Catalogued`) |
| `AssetCreationProofs` | theorems about it, and that it implements `Catalogue` | extends `AssetCreation` |
| `MCAssetCreation` | a small account for TLC | extends `AssetCreation` |
| `OutputControl` | `app.go:242-333` and the way back | |
| `OutputControlProofs` | theorems about it | extends `OutputControl` |
| `Authorization` | `broker.getAPI`, `abb/cloud_auth.go`, `conf.go:261-282` | |
| `AuthorizationProofs` | theorems about it | extends `Authorization` |
| `ConfigStore` | the table behind the API, sqlboiler's Insert, Upsert and UpdateAll | |
| `ConfigStoreProofs` | theorems about it | extends `ConfigStore` |
| `MCConfigStore` | four request bodies for TLC | extends `ConfigStore` |
| `Dashboard` | `eliona/dashboard.go`, the template request | extends `DatapointMap` |
| `DashboardProofs` | theorems about it | extends `Dashboard` |
| `MCDashboard` | two projects' assets for TLC | extends `Dashboard` |

Operators named `Mut...` are wrong variants of the definition that follows them. No
specification uses them: replacing the definition by the variant makes TLC find the
property violated that is listed with it in `PROJECT.json`, which shows that the
property depends on that piece of code.

### State and actions

**Collector.** `rows`, `enable`, `active` are the configuration table, `stored` the
number of discovered devices with datapoints. `batch` is the slice `collectData` is
walking: `Scan` fills it, `VisitDisabled` and `VisitEnabled` are one loop iteration
(they act on the snapshot, not on the row). `collector[c]` is the program counter of
`collectAndStartSubscription`, `"idle"` when its RunOnce id is free; `sub[c][k]` is
that of a subscription goroutine, with `"triggered"` between `triggerResynchronize`
and the release of its id (`app.go:98-100`); `snap[c]` is what its datapoint list
covers. `Stop` is any end of the process, `Start` the container coming back.
`UpsertConfig` and `DeleteConfig` are API requests at any moment. `Unanswered` names
configurations whose requests may hang for ever.

**Subscription.** For each run, `producer` is the goroutine of `app.go:166-174` with the
websocket client's `Run`, whose callback sends on the channel (`item`), and `consumer`
is the loop of `app.go:175-186`. `Transfer` is the rendezvous of the unbuffered
channel. `CloseAfterRun` and `DeferredClose` are the two closes. With `ReturnsOnError`
the consumer is that of the status subscription, which returns on an error.
`FeedSpec == INSTANCE Feed WITH sent <- emitted, seen <- shown` is the refinement.

**DatapointMap.** One definition per case of `GetSystems`: the output datapoints it
stores with their function and attribute, the inputs, and what a collection reads into
which attribute by which conversion. `Tags` are the struct tags that decide under which
subtype a collection writes, `Declared` the asset types in `resources/asset-types`.
Numbers keep the width of `parseInt8`; texts are numbers or one of `Words`.

**Tables.** A database is a record of four sets of rows. A query returns the set of rows
it can return, since `OneG` takes any; a command returns the new database, and its
`...Allowed` guard is the foreign key that may refuse it. The inserts of a channel's
datapoints take the set of rows that the loop of `conf.go` inserts one by one: they
concern different rows, so their order does not matter. `DeleteConfiguration` cascades.

**DataPath.** `channel` is chosen initially and fixed. `pass` is the program counter of
`collectData`'s pass with what `GetSystems` has read (`GetSystems`, then per project
`CreateAsset`, `StoreAsset`, `StoreInputs`, `StoreOutputs`, then `UpsertSystemsData` per
project). `Subscribe` takes the datapoints stored at that moment into `covered`;
`StoreEvent` finds the row (of either project, `conf.go:403`) and writes through its
links. A channel without a row in a project ends the pass there (`data.go:64`).
`SetAsset` is the listener with its `log.Fatal` (`running' = FALSE`). A lost
event, a deletion of the configuration, and a refusal by ABB are the faults. Devices
start with the value 1, so that a zero is something somebody wrote.

**AssetCreation.** Asset `a` of an account may be created in Eliona several times, under
a new id each time; `latest[a]` is how often it was, `eliona` says whether it exists
there. The table is keyed by that id (`conf.go:292`): `owner[a][n]` is the configuration
in the row of `a`'s `n`-th id, `points` counts the rows of each datapoint under that id,
and `GetAssetId` takes any row of `a` (`conf.go:304`). `announced` counts the
notifications that counted it. `phase`, `todo`, `current`, `id`, `existed`,
`fresh`, `left` are the locals of a pass: one action per call
(`GetAssetId`, `ExistAsset`, `UpsertInEliona`, `UpsertInApp`, `InsertDatapoint`,
`EndPass`), so that passes of two configurations interleave and `Abort` can strike
between any two of them. `CatalogueSpec` maps `known` to the assets with a row of any id,
`pending` to those between Eliona's upsert and the app's, `told` to `announced`.

**OutputControl.** `outputs` is the queue of Eliona's data listener, with the client
reference, `events` that of ABB's subscription. `listener` and `current` are the
program counter and locals of the listener. `SET_TEMP_TWICE` and
`SET_SCENE_RETURN_TO_ZERO` are the two functions `setAsset` treats specially.

**Authorization.** `row` is the configuration's client and token columns, `copy[g]`
goroutine `g`'s copy, `result[g]` the token ABB has issued to it and it has not yet
persisted. A token is abstracted to its client and to whether it is fresh (more than
two hours left) and current (accepted for a refresh).

**ConfigStore.** `table` and `sequence` are PostgreSQL's, `copy` the stale copy of some
row with which an arbitrary goroutine of the app works, `wanted` a POST that is being
repeated. `asked` is a history variable: the body of the request that stored each row
last. `Excluded` is the row an INSERT makes of a request, with the defaults of
`init.sql` for what sqlboiler leaves out.

**Dashboard.** `at` is the fetch the request does next; each fetch is one action with all
the code up to the next one. `exists` and `status` are what Eliona has, changed by
`ElionaChanges` in between. `always` and `ever` are history: what was there throughout
the request and at some time of it.

## 3. The runs

| Run | Question | Instance |
|---|---|---|
| `Collector` | Is the wake-up safe, does `active` settle, does a disabled collector drain, does the next subscription cover what was discovered? | 1 configuration, 1 device, 2 edits, 1 stop, ids released within a collection |
| `CollectorPair` | Is a configuration subscribed again and again, although another shares its trigger and may hang? | 2 configurations, one of them unanswered, ids held arbitrarily long, no edits |
| `CollectorDisabled` (violation) | Does a PUT of `enable: false` end the subscription? | 1 configuration, which keeps its row, 1 edit |
| `Subscription` | Is the pipeline safe, in order, never stuck? | 3 events, 3 runs, data subscription |
| `SubscriptionPanic` (violation) | Does a normal end of the stream leave the app alive? | 1 run |
| `AssetCreation` | Nothing twice, nothing revived that no upsert was under way for, everything announced without failures, and complete if no channel was recreated? Is `Catalogue` implemented? | 2 configurations sharing the root, 4 assets, 2 failures, 1 deletion |
| `AssetsPartial` (violation) | Does the retry complete what a failure left? | 1 configuration, 1 failure |
| `OutputControl` | Do commands, echoes and changes come to rest in agreement? | 4 functions, 2 commands, 1 device change, 1 failure |
| `Authorization` | Does a subscription have its token, is one login enough, does the app recover? | 3 goroutines, 2 clients, 1 edit, 1 failure, with and without rotation |
| `ConfigStore` | Are rows complete and as asked, app writes confined, POSTs stored? | 4 bodies, ids 0..2, 2 POSTs, 2 edits |
| `DataPath` | Do the tables and the paths through them agree, for every kind of channel? | every case of `GetSystems` (groups by one member) with each of its pairings changing, 2 projects, 1 change, 1 command (0 or 1), 1 disturbance |
| `Dashboard` | Is a dashboard a true picture in known elements? | every shown type, 2 projects, 2 changes, 1 request |

**Why the bounds are enough.** The counters (`MaxEdits`, `MaxStops`, `MaxFailures`,
`MaxCommands`, ...) bound what the environment does, never how often the app repeats its
own loops: scans, collections, passes, refreshes and retries are unbounded, so the
liveness properties speak about infinite behaviours. Two edits are the least that disable
and enable again during one scan; one stop leaves every combination of flags behind; two
configurations are all that can compete for one trigger token; three runs are the least in
which a producer left behind meets the run after the next; two failures can cut a pass and
its retry; two commands and a change make commands and echoes cross; one edit makes the
token in a row one of another client; two projects are the least in which
`FindOutputDatapoint` can take the wrong row; the one change of `DataPath` is beyond int8,
or a text, for the pairing it concerns; in `DataPath` one disturbance (`MaxDisturbances`)
is a lost event or a deletion, before, during or after any pass; one deletion meets any
step of a pass of `AssetCreation`, and gives an asset a second id; two changes of Eliona
can remove an asset and add another between two fetches of a dashboard. The invariants
that are proved do not depend on the bounds at all.

`CHECK_DEADLOCK FALSE` is set where the system may really stop: after a panic
(`Subscription`, `SubscriptionPanic`), when bounded users have nothing left to do
(`OutputControl`, `ConfigStore`, `Dashboard`), and in `DataPath` when its only
configuration has been deleted.

**Abstraction choices that matter.** A request is atomic at the server, but its caller
may be interleaved with everything before and after it. `SlowRelease` chooses whether a
goroutine may take longer to release its RunOnce id, after its trigger was sent, than
a whole collection takes; `NoLostResync` needs that it does not, `EnabledResubscribes`
is checked without that assumption. In `OutputControl` both queues are FIFO, as the
websockets are. In `Authorization` data and status subscription are one goroutine.
`DataPath` takes several steps of asset creation at once, and a command in one step;
the finer steps and their failures are in `AssetCreation` and `OutputControl`.

### Fairness

- Runnable goroutines run, timers fire (`WF` of the actions of a program counter).
- The container runtime starts the app again (`Start`, `Restart`).
- `RequestsAnswered` in `Collector`: for the configurations in `Answered`, requests are
  answered and not all collections fail. The GraphQL path has no timeout
  (`cloud_auth.go:152`), so this is an assumption about ABB and not something the code
  ensures; for the others it is not made, and the properties of the `Answered`
  configurations hold all the same.
- `DataPath`: collections are repeated (`WF` of the steps of a pass), the listener works
  off its queue, the container is restarted. The subscription is not fair: in the end the
  collection alone brings about agreement.
- `AssetCreation`: every configuration's passes go on.
- `Authorization`: tokens age, and a user whom the collector keeps asking to log in
  does so within two minutes one day (`SF` of `Login("collector")`; the other
  goroutines need not be helped).
- `ConfigStore`: a user repeats a POST that was answered 500.

Streams ending, failures, edits and commands are never fair: they may stop happening.

## 4. What is proved

All theorems hold for every value of the constants, from the assumptions named in the
modules (`ConstantsAssumption`: bounds are naturals, and the like). Each proof has one
step per action; the `TypeCorrect` of the eight proof modules is the type invariant.

- `CollectorProofs!WakeInvariant` and `ResyncNotLost`: with one configuration and
  `~ SlowRelease`, a collector that waits while one of its subscriptions is gone has a
  token in the trigger. `NoLostResync` alone is not inductive: the goroutine sends its
  token before it releases its id, and the collector launches data and status in two
  steps. `WakeInv` adds the three stretches W1 to W3 of that protocol. The assumption of
  one configuration is needed: with two, the token may be taken by the other collector.
- `SubscriptionProofs!PipelineInvariant`: for every run, which phases of producer and
  consumer go together, and which events each holds. From it follow
  `NeverSendsOnClosed`, `DataConsumerDrains` and `ImplementsFeed`, the refinement of
  `Feed`: every step of a subscription is a step of `Feed` or leaves its variables
  unchanged. They hold for the data and for the status subscription, of which the run
  checks the first.
- `AssetCreationProofs!StoredAtMostOnce` and `ImplementsCatalogue`: if the accounts of any
  two configurations share only locations (`Separate`), no datapoint is stored twice and
  the passes refine `Catalogue`. The inductive invariant `CreationInv` says what a pass
  knows: an asset it is about to create, other than a location, has no row and nothing
  stored; what it has left to insert is not stored; what it will announce is recorded and
  not announced. Rows are kept per id, and each of these facts speaks of every id the
  asset has had. `Separate` is needed, see section 5. `DeletedForGood` is
  `DeletedStaysDeleted`, for any accounts: an asset that is gone, of which every
  configuration that reports it has a row, and no upsert is under way, stays like that for
  ever. It needs the types and that a pass comes only to assets its account reports
  (`SeesInv`). It does not cover a deletion that meets an upsert, which the code undoes,
  see section 5.
- `OutputControlProofs!SetTwiceIsSet`: `TemperatureSetWithoutFailure`. Its invariant
  `SetpointInv` follows the command through the listener: only a user's command gets past
  `"receive"`, none asks for the eco-exit setpoint itself, between the two writes the
  thermostat is out of eco mode, and it has that setpoint nowhere else.
- `OutputControlProofs!AgreeWheneverAtRest`: while no call has failed, Eliona and ABB agree
  in every function but the scenes whenever nothing is on its way between them. From it
  follow `RestIsAgreement` and `RestIsZero`: a behaviour that comes to rest (`ComesToRest`,
  which needs fairness and stays with TLC) satisfies `AgreeWithoutFailure` and
  `SceneReturnsToZero`; of the scheduling nothing else is needed. Agreement is not
  inductive, since the two systems differ most of the time. `AgreeInv` says what is on its
  way while they do: of a function ABB reports, the newest event tells the device's value,
  and without an event a command is coming, or they agree (`ReportedInv`); of a function ABB
  does not report, the newest command is what Eliona shows, and it is queued, in the
  listener's hands, or written (`SilentInv`). `RestIsZero` assumes that ABB does not report
  the trigger of a scene, as `broker.go:733` says; if it did, the report would arrive
  after the zero.
- `AuthorizationProofs!ListenerHasToken`: a subscription never presents a missing
  token, which would be a nil dereference (`abb/api.go:167`). The inductive argument is
  `HoldsToken`: ABB issues a token before it is persisted, and `PersistAuthorization`
  writes it to the caller's copy before the request, so the copy the collector hands
  to the subscription has one. Rotation, invalidation by others and edits do not
  matter, since they touch the row and not the copy.
- `AuthorizationProofs!LoginOnce`: `LoginOnceUndisturbed`. `OnceInv` has two parts:
  without rotation and edits every token there is belongs to the posted client and is
  accepted for a refresh (`TokensAccepted`), so nobody is ever rejected once there is one;
  and until the first token is in the row only the collector is at work (`BeforeToken`).
- `ConfigStoreProofs`: `TypeCorrect` rests on a bound of the sequence (`SequenceInv`): a
  POST that is answered 500 moves it past one of the ids users chose, every other request
  moves it once, so that `sequence` and a POST under way never exceed the largest id plus
  the requests so far. `RequestsDecide` is `RowAsRequested`, by showing that the app's
  updates touch no column a request decides; an `enable` that the request leaves out is
  not part of the statement, see section 5. `AppConfined` is `AppWritesItsRow`.

- `DataPathProofs!NeverInvents`: `NothingInvented`, for any channels, projects and bounds
  and whatever interleaves: an attribute shows what was reported for a datapoint linked to
  it, what a user has set, or, of a scene's trigger alone, zero (`broker.go:758`); the
  three colours of a hue light are excepted by name, see section 5. It is not inductive:
  what Eliona shows comes out of the pass, the event queue or the command queue, through
  links that were stored earlier. `IInv` says that what is in each of them is already
  allowed to arrive: what a collection has read may be shown (`PassInv`, with
  `KindsUnread` for the fields a case leaves unset and `SceneTriggers` for the zeros that
  remain), an event carries a value its pairing has had (`EventInv`), a command is for a
  declared output (`CommandInv`), and a link leads from the row of an output to an
  attribute this output has (`TablesInv`, with the foreign keys of `init.sql`). `ShownInv`
  is the property with the bound on what users may set. What may be shown only grows
  (`MayShowGrows`), so nothing has to be taken back. `KindsRead` goes through the cases of
  `broker.GetSystems` and shows that what each reads into an attribute is read from a
  datapoint registered for it, under the subtype of its tag. `TypeCorrect` contains the
  foreign keys.
- `DataPathProofs!StoredStaysUp`: `StoredNeverFatal`, from `CommandInv` and from
  `KindsSettle`, which checks for each case of `GetSystems` that every output its asset type
  declares has an input with its function.
- `DashboardProofs!DeliversTruePicture` and `ElementsAlwaysKnown`: `TruePicture` and
  `ElementsKnown`. The invariant is that before each section the widgets so far are a good
  dashboard of the types fetched so far (`Good`, `BuiltInv`): truthful, complete, one
  widget of its own for an asset that has one, numbered, and with the right number of
  widgets of the root. Each section adds either a widget of the root (`AppendRoot`) or one
  widget for each asset found (`AppendOwn`), and what Eliona does in between only moves
  the two histories (`GoodMonotone`). `FoundInv` says what the two lists of devices hold
  while they are collected. The assumption that there are finitely many assets is needed
  to count widgets.

With these, every invariant and every action property of the passing runs is proved. Only
model-checked are the liveness properties, since fairness and `ENABLED` are beyond the
prover: `ActiveSettles`, `DisabledCollectorDrains`, `RestartCatchesUp`,
`EnabledResubscribes`, `CallbackReturns`, `CompleteWithoutFailure`,
`AnnouncedWithoutFailure`, `ComesToRest`, `AuthorizedAgain`, `EventuallyStored` and
`EventuallyAgreed`; for `AgreeWithoutFailure` and `SceneReturnsToZero` the part that does
not depend on fairness is proved.

`IInv` of `DataPathProofs` (on the run's instance) and `AgreeInv` of `OutputControlProofs`
(without failures, with and without reports for the temperature) were checked by TLC
before they were proved. Nothing is assumed beyond the `ASSUME`s of the modules, which TLC
evaluates, except where a theorem names it: one configuration and `~ SlowRelease` for
`ResyncNotLost`, `Separate` for `StoredAtMostOnce` and `ImplementsCatalogue`, the
unreported trigger for `RestIsZero`.

## 5. What the checks show of the code

Three runs end in a violation of something the repository says; `PROJECT.json` quotes
the lines under "findings":

1. A configuration disabled by a PUT stays subscribed until its stream happens to end.
2. A subscription that ends without an error closes its channel twice and panics.
3. A failure between the row of an asset and its datapoints is never repaired by the
   retry.

Three more disagreements are left out of the checked properties by name:

- A user may delete an asset between `ExistAsset` and `UpsertAsset`
  (`assets.go:257`, `:277`). It comes back under a new id, with a second row
  (`conf.go:292`); since `created` is false, a channel gets no datapoints under that id.
  `DeletedStaysDeleted` excludes an upsert under way, `CompleteWithoutFailure` a channel
  that was recreated.
- A configuration that does not say `enable` is stored disabled (`init.sql:44`), where
  `openapi.yaml:283` documents true. `RowAsRequested` leaves an omitted flag out.
- Every collection writes 0 over the hue, saturation and value a user has set
  (`broker.go:384`, `model.go:144`), which it has no reading of. `NothingInvented`
  leaves these three attributes out.

Other observations made while modelling, which the checked properties are written to
allow:

- A configuration without a valid connection type is accepted although
  `openapi.yaml:223` lists the valid ones; `conf.go:104` stores it without a flag,
  and `getAPI` (`broker.go:114`) then calls `Authorize` on a nil `api`.
- With two configurations the trigger token of one may wake the other; the
  configuration that ended waits for its refresh interval (`app.go:113`).
- A request that is never answered holds its collector for ever
  (`cloud_auth.go:152`). `CollectorPair` shows that the other configurations go on.
- `active` stays true when the process ends: `SetAllConfigsInactive` (`conf.go:255`)
  is never called, although `openapi.yaml:306` promises false.
- The datapoint list of a running subscription does not grow with discovered devices
  (`app.go:159`); `RestartCatchesUp` says when it does.
- The status consumer returns on an error and leaves its producer blocked on the
  channel, with its websocket (`app.go:215`); hence `ConsumerDrains` is about data
  subscriptions only.
- A collection may write a value older than the one shown (`app.go:150`), and one that
  differs from the subscription's: `parseInt8` (`broker.go:887`) clamps to 127 and makes 0
  of a text, also of the empty one of an output the channel lacks (`Views`, `Reported`).
  `EventuallyAgreed` says that the values come to agree up to that.
- An event for a channel in two projects may find the row of either (`conf.go:403`); it
  is written through that row's links to both, which is right only because both rows
  have the same links.
- The count of new assets is lost with a failed pass (`assets.go:181`). Two
  configurations of one project whose accounts share an asset other than a location take
  its row from each other, and announce it and store its datapoints again and again
  (`conf.go:292`, `:297`): `StoredOnce` and `Catalogued` hold for accounts that share
  only locations.
- A failing call between the two writes of a temperature leaves the eco-exit setpoint
  (`app.go:303`). A command for an attribute without an input row ends the process in
  `log.Fatal` (`app.go:285`), for instance of a channel that lacks the input or is stored
  in part. The radiator thermostat's `presence` and `window_door` are declared as outputs
  and have inputs, but no output datapoint to show what became of them.
- A scene's trigger is an output of ABB; only the ProService query addresses an output
  (`graphql.go:199`), so under MyBuildings it is refused and the trigger stays set until a
  collection writes zero.
- `installed_power` is tagged with subtype `status` (`model.go:304`) and registered with
  `info`: no path writes the registered one.
- The dashboard shows the current colours of a hue light under subtype `input`, which the
  asset type does not have. Thermostats, windows and doors get the constant places 4, 6
  and 7 (`dashboard.go:462` and below) while `widgetSequence` goes on counting, so two
  widgets may share a place.
- If ABB rotates refresh tokens, two goroutines refreshing the same one race, and the
  loser invalidates the winner's row or is overtaken by it; the collector may keep
  losing. `AuthorizedAgain` says that then the winner is authorized.
- After a change of the client a goroutine with an old copy writes the old client's
  token into the row (`conf.go:265`); it is used until it is no longer fresh. This is why
  `RowAsRequested` leaves the token columns out.
- A PUT that leaves out `enable`, `active` or the tokens sets them to false or NULL,
  and a PUT to id 0 stores a row under the sequence's next id (`conf.go:61`,
  `api_configuration_service.go:64`). GET of an unknown id is answered 500, as
  `OneG` returns `sql.ErrNoRows` and never a nil row (`conf.go:68-78`), where
  `openapi.yaml:97` says 400.

## 6. Not modelled

- The battery conversion and the hexadecimal ids of `abb/api.go`, and the legacy format
  of the local API (`abb/data_format.go`): formatting without state.
- The websocket client of the local API, which the app does not call, and the HTTP
  client, which is pure I/O.
- The text of GraphQL queries and the steps of creating the ProService user: single
  requests to an external service. Who may write what is in `DataPath`.
- Names, descriptions, the lookup of a device's room, asset filters, logging, the layout
  and the wording of the dashboard.
- The contents of HTTP answers, except where a user repeats a request because of it, the
  version service and the routing of `apiserver`.
- What the app does not use of `appdb`: hooks, eager loading, set operations on
  relationships, counting, reloading, and its caches of SQL text.

## 7. What could follow

1. `Authorization` inside `Collector`, so that the fairness of collections becomes a
   consequence of the user's logins. The product of the two is beyond what TLC checks in
   minutes without a coarser `Authorization`.
2. `DataPath` as an implementation of `Feed` per attribute, for a subscription that runs
   beside collections: the order promised by `Feed` does not survive a collection that
   writes an older snapshot, so this needs a weaker abstract specification.
3. The part of the other liveness properties that does not depend on fairness, as has been
   done for `AgreeWithoutFailure`: that a pass of asset creation that ends without a failure
   leaves everything stored and announced, and that a collection that ends after the last
   change leaves every project with ABB's values.
4. A second dashboard request in parallel, once the template service keeps state.
