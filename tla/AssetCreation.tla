--------------------------- MODULE AssetCreation ---------------------------
(***************************************************************************)
(* Continuous asset creation (src/eliona/assets.go): a pass of a            *)
(* configuration's collector walks the assets ABB reports, parents before   *)
(* children, makes each one known to Eliona and to the app's asset table,   *)
(* and stores the datapoints of the channels it has just created. At the    *)
(* end the user is told how many assets are new. Any call may fail, and the  *)
(* process may die between any two calls: the pass is over, the next one    *)
(* starts from the tables. Configurations collect concurrently.             *)
(*                                                                         *)
(* One Eliona project. An asset here is what a Global Asset Identifier names;  *)
(* Eliona gives it a new asset id whenever it is created again after a user has *)
(* deleted it. The app's asset table has one row per asset id (asset_id is      *)
(* unique), whose configuration_id is the last configuration to upsert it.     *)
(***************************************************************************)
EXTENDS Naturals, FiniteSets

CONSTANTS
  Configs,      \* the configurations that create assets in the project
  Assets,       \* all assets: root, floors, rooms, systems, devices, channels
  Parent,       \* [Assets -> Assets]: the root is its own parent
  Locations,    \* root, floors and rooms, whose creation is not counted
  Channels,     \* the assets with datapoints
  Sees,         \* [Configs -> SUBSET Assets]: what the ABB account reports
  Inputs,       \* the input datapoints of a channel
  Outputs,      \* its output datapoints, each with its attribute links
  NoConfig,     \* no row in the asset table
  MaxFailures,  \* bound: passes cut short by an error or a crash
  MaxDeletes    \* bound: assets the users delete in Eliona

ASSUME ConstantsAssumption ==
  /\ Parent \in [Assets -> Assets]
  /\ Locations \subseteq Assets
  /\ Channels \subseteq Assets \ Locations
  /\ Sees \in [Configs -> SUBSET Assets]
  /\ Inputs \intersect Outputs = {}
  /\ NoConfig \notin Configs
  /\ MaxFailures \in Nat
  /\ MaxDeletes \in Nat

VARIABLES
  owner,      \* the asset table: configuration_id of the row of each asset id
  points,     \* the datapoint table: how often each datapoint is stored for an id
  eliona,     \* the assets that exist in Eliona
  latest,     \* the id Eliona gave each asset last, 0 for none
  announced,  \* how often each asset was counted in a notification
  phase, todo, current, id, existed, left, fresh,  \* the pass of each configuration
  failures, deletes  \* counters of the bounded environment

tables == <<owner, points, eliona, latest, announced>>
pass == <<phase, todo, current, id, existed, left, fresh>>
vars == <<tables, pass, failures, deletes>>

\* The ids an asset may have one after the other: one more than deletions.
Ids == 1..(MaxDeletes + 1)
Datapoints == Inputs \union Outputs
Phases == {"idle", "walk", "check", "create", "record", "store"}

\* Every local of a pass and every table keeps its type, through aborted passes too;
\* an asset gets a new id only after a deletion.
TypeOK ==
  /\ owner \in [Assets -> [Ids -> Configs \union {NoConfig}]]
  /\ points \in [Channels -> [Ids -> [Datapoints -> Nat]]]
  /\ eliona \subseteq Assets
  /\ latest \in [Assets -> Nat]
  /\ \A a \in Assets : latest[a] \in IF a \in eliona THEN 1..(deletes + 1) ELSE 0..deletes
  /\ announced \in [Assets -> Nat]
  /\ phase \in [Configs -> Phases]
  /\ todo \in [Configs -> SUBSET Assets]
  /\ current \in [Configs -> Assets]
  /\ id \in [Configs -> Ids \union {0}]
  /\ existed \in [Configs -> BOOLEAN]
  /\ left \in [Configs -> SUBSET Datapoints]
  /\ fresh \in [Configs -> SUBSET Assets]
  /\ failures \in 0..MaxFailures
  /\ deletes \in 0..MaxDeletes

Init ==
  /\ owner = [a \in Assets |-> [n \in Ids |-> NoConfig]]
  /\ points = [a \in Channels |-> [n \in Ids |-> [d \in Datapoints |-> 0]]]
  /\ eliona = {}
  /\ latest = [a \in Assets |-> 0]
  /\ announced = [a \in Assets |-> 0]
  /\ phase = [c \in Configs |-> "idle"]
  /\ todo = [c \in Configs |-> {}]
  /\ current \in [Configs -> {a \in Assets : Parent[a] = a}]
  /\ id = [c \in Configs |-> 0]
  /\ existed = [c \in Configs |-> FALSE]
  /\ left = [c \in Configs |-> {}]
  /\ fresh = [c \in Configs |-> {}]
  /\ failures = 0
  /\ deletes = 0

-----------------------------------------------------------------------------

Move(c, from, to) ==
  /\ phase[c] = from
  /\ phase' = [phase EXCEPT ![c] = to]

\* collectResources has the locations and systems of the account.
BeginPass(c) ==
  /\ Move(c, "idle", "walk")
  /\ todo' = [todo EXCEPT ![c] = Sees[c]]
  /\ fresh' = [fresh EXCEPT ![c] = {}]
  /\ UNCHANGED <<tables, current, id, existed, left, failures, deletes>>

\* The loops visit parents first; siblings come in Go's map order.
IsNext(c, a) == a \in todo[c] /\ (Parent[a] = a \/ Parent[a] \notin todo[c])

\* GetAssetId finds rows of this configuration only, and returns any of them.
GetAssetId(c, a) ==
  /\ IsNext(c, a)
  /\ LET mine == {n \in Ids : owner[a][n] = c} IN
       /\ Move(c, "walk", IF mine # {} THEN "check" ELSE "create")
       /\ existed' = [existed EXCEPT ![c] = mine # {}]
       /\ \/ mine = {} /\ UNCHANGED id
          \/ \E n \in mine : id' = [id EXCEPT ![c] = n]
  /\ current' = [current EXCEPT ![c] = a]
  /\ todo' = [todo EXCEPT ![c] = @ \ {a}]
  /\ UNCHANGED <<tables, left, fresh, failures, deletes>>

MutExistAssetIgnored(c) ==
  /\ Move(c, "check", "create")
  /\ UNCHANGED <<tables, todo, current, id, existed, left, fresh, failures, deletes>>

\* A known asset whose id is gone from Eliona was deleted there: it is left alone.
ExistAsset(c) ==
  /\ Move(c, "check", IF current[c] \in eliona /\ id[c] = latest[current[c]]
                        THEN "create" ELSE "walk")
  /\ UNCHANGED <<tables, todo, current, id, existed, left, fresh, failures, deletes>>

\* The id of the asset with this identifier, or a new one.
UpsertedId(a) == IF a \in eliona THEN latest[a] ELSE latest[a] + 1

\* asset.UpsertAsset: the asset is updated, or created if it is not there any more.
UpsertInEliona(c) ==
  LET a == current[c] IN
  /\ Move(c, "create", "record")
  /\ eliona' = eliona \union {a}
  /\ latest' = [latest EXCEPT ![a] = UpsertedId(a)]
  /\ id' = [id EXCEPT ![c] = UpsertedId(a)]
  /\ UNCHANGED <<owner, points, announced, todo, current, existed, left, fresh,
                 failures, deletes>>

\* The creation of the root, of floors and of rooms is not counted.
Counted == Assets \ Locations

\* What upsertAsset's caller does with the asset: created is FALSE for one that
\* existed in the app; the datapoints of a created channel are stored next.
Account(c, created) ==
  LET a == current[c] IN
  /\ fresh' = IF created /\ a \in Counted
                THEN [fresh EXCEPT ![c] = @ \union {a}] ELSE fresh
  /\ IF created /\ a \in Channels
       THEN Move(c, "record", "store") /\ left' = [left EXCEPT ![c] = Datapoints]
       ELSE Move(c, "record", "walk") /\ UNCHANGED left

MutUpsertInAppAlwaysCreated(c) ==
  /\ owner' = [owner EXCEPT ![current[c]][id[c]] = c]
  /\ Account(c, TRUE)
  /\ UNCHANGED <<points, eliona, latest, announced, todo, current, id, existed,
                 failures, deletes>>

MutUpsertInAppSwapsColumns(c) ==
  /\ owner' = [owner EXCEPT ![current[c]][id[c]] = current[c]]
  /\ Account(c, ~ existed[c])
  /\ UNCHANGED <<points, eliona, latest, announced, todo, current, id, existed,
                 failures, deletes>>

\* conf.UpsertAsset: the row of the id is inserted, or taken over from another
\* configuration. Rows of the asset's earlier ids stay.
UpsertInApp(c) ==
  /\ owner' = [owner EXCEPT ![current[c]][id[c]] = c]
  /\ Account(c, ~ existed[c])
  /\ UNCHANGED <<points, eliona, latest, announced, todo, current, id, existed,
                 failures, deletes>>

MutInsertDatapointSkipsLast(c, d) ==
  /\ d \in left[c]
  /\ d \in Outputs => left[c] \intersect Inputs = {}
  /\ left' = [left EXCEPT ![c] = @ \ {d}]
  /\ points' = IF left[c] = {d} THEN points
                 ELSE [points EXCEPT ![current[c]][id[c]][d] = @ + 1]
  /\ Move(c, "store", IF left[c] = {d} THEN "walk" ELSE "store")
  /\ UNCHANGED <<owner, eliona, latest, announced, todo, current, id, existed, fresh,
                 failures, deletes>>

\* InsertInput, then InsertOutput with LinkDatapointToAttribute, row by row.
InsertDatapoint(c, d) ==
  /\ d \in left[c]
  /\ d \in Outputs => left[c] \intersect Inputs = {}
  /\ left' = [left EXCEPT ![c] = @ \ {d}]
  /\ points' = [points EXCEPT ![current[c]][id[c]][d] = @ + 1]
  /\ Move(c, "store", IF left[c] = {d} THEN "walk" ELSE "store")
  /\ UNCHANGED <<owner, eliona, latest, announced, todo, current, id, existed, fresh,
                 failures, deletes>>

MutEndPassSilent(c) ==
  /\ todo[c] = {}
  /\ Move(c, "walk", "idle")
  /\ fresh' = [fresh EXCEPT ![c] = {}]
  /\ UNCHANGED <<tables, todo, current, id, existed, left, failures, deletes>>

\* One notification tells how many assets are new.
NotifyUser(new) ==
  announced' = [a \in Assets |-> announced[a] + (IF a \in new THEN 1 ELSE 0)]

\* The walk is over; no notification when nothing is new.
EndPass(c) ==
  /\ todo[c] = {}
  /\ Move(c, "walk", "idle")
  /\ NotifyUser(fresh[c])
  /\ fresh' = [fresh EXCEPT ![c] = {}]
  /\ UNCHANGED <<owner, points, eliona, latest, todo, current, id, existed, left,
                 failures, deletes>>

\* A call of Eliona, ABB or the database fails and the error is returned, or the
\* process dies (also of the missing UserId in notifyUser): the rest of the pass
\* is forgotten.
Abort(c) ==
  /\ failures < MaxFailures
  /\ failures' = failures + 1
  /\ phase[c] # "idle"
  /\ phase' = [phase EXCEPT ![c] = "idle"]
  /\ fresh' = [fresh EXCEPT ![c] = {}]
  /\ left' = [left EXCEPT ![c] = {}]
  /\ todo' = [todo EXCEPT ![c] = {}]
  /\ UNCHANGED <<tables, current, id, existed, deletes>>

\* A user deletes an asset in Eliona.
DeleteInEliona(a) ==
  /\ a \in eliona
  /\ deletes < MaxDeletes
  /\ deletes' = deletes + 1
  /\ eliona' = eliona \ {a}
  /\ UNCHANGED <<owner, points, latest, announced, pass, failures>>

PassStep(c) ==
  \/ BeginPass(c)
  \/ \E a \in Assets : GetAssetId(c, a)
  \/ ExistAsset(c)
  \/ UpsertInEliona(c)
  \/ UpsertInApp(c)
  \/ \E d \in Datapoints : InsertDatapoint(c, d)
  \/ EndPass(c)

Next ==
  \/ \E c \in Configs : PassStep(c) \/ Abort(c)
  \/ \E a \in Assets : DeleteInEliona(a)

Spec == Init /\ [][Next]_vars

\* collectData starts pass after pass; every call returns.
FairSpec == Spec /\ \A c \in Configs : WF_vars(PassStep(c))

-----------------------------------------------------------------------------
(* Safety *)

Known(a) == \E n \in Ids : owner[a][n] # NoConfig

\* Asset a is gone from Eliona, every configuration whose account reports it has a
\* row of it, and none is between ExistAsset and the end of an upsert of it.
Deleted(a) ==
  /\ a \notin eliona
  /\ \A c \in Configs :
       /\ a \in Sees[c] => \E n \in Ids : owner[a][n] = c
       /\ ~ (phase[c] \in {"create", "record"} /\ current[c] = a)

\* "Exists in app, not in Eliona -> it was deleted from Eliona. Ignore."
\* (assets.go:262): where no upsert of it is under way when a user deletes an asset (one
\* that is recreates it under a new id, assets.go:257-277), no later pass brings it back,
\* whichever row of it the pass finds, and no configuration loses the row that tells it so.
DeletedStaysDeleted == [][\A a \in Assets : Deleted(a) => Deleted(a)']_vars

\* The tables, Eliona and the notifications keep the promises of Catalogue, whatever
\* passes were aborted and retried before: an asset is recorded only after it was
\* created in Eliona, it is never dropped, and it is announced as new at most once
\* (assets.go:305) and only when it is recorded.
CatalogueSpec == INSTANCE Catalogue WITH
  inEliona <- eliona,
  pending <- {current[c] : c \in {d \in Configs : phase[d] = "record"}},
  known <- {a \in Assets : Known(a)},
  told <- announced
Catalogued == CatalogueSpec!Spec

\* No datapoint of a channel has two rows, be it for one asset id or for two: a retry
\* after a failure between the asset's row and its datapoints does not insert those
\* again, and neither does a pass that has created the asset anew.
StoredOnce == \A a \in Channels, d \in Datapoints, n \in Ids :
  points[a][n][d] # 0 => /\ points[a][n][d] = 1
                         /\ \A m \in Ids \ {n} : points[a][m][d] = 0

-----------------------------------------------------------------------------
(* Liveness *)

\* The asset has a row of its latest id, and under it all of its datapoints.
Complete(a) == \E n \in Ids :
  /\ n = latest[a]
  /\ owner[a][n] # NoConfig
  /\ \A d \in Datapoints : points[a][n][d] >= 1

\* The retry of collectData ("Delay before retry", app.go:88) ends with every
\* reported channel known and all of its datapoints stored.
EventuallyComplete ==
  <>[](\A c \in Configs : \A a \in Sees[c] \intersect Channels : Complete(a))

NoFailure == [](failures = 0)

\* Eliona has not had to create a channel a second time.
NoChannelRecreated == [](\A a \in Channels : latest[a] <= 1)

\* It does so as long as no pass is cut short and no deletion of a channel meets its
\* upsert, whatever else users delete meanwhile. A channel that was recreated gets a
\* second row and no datapoints (conf.go:292, assets.go:288).
CompleteWithoutFailure == NoFailure /\ NoChannelRecreated => EventuallyComplete

\* "When all discovered devices are created, user is notified about that"
\* (USER_GUIDE.md:199): unless a pass is cut short, every created asset is counted
\* in some notification, concurrent configurations or not.
AnnouncedWithoutFailure == NoFailure =>
  <>[](\A c \in Configs : \A a \in Sees[c] \intersect Counted :
         Known(a) => announced[a] >= 1)
=============================================================================
