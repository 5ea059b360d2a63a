------------------------------ MODULE DataPath ------------------------------
(***************************************************************************)
(* The data of one channel from end to end, through the app's tables. ABB     *)
(* reports a channel of some function; collections create its asset in every  *)
(* project of the configuration, store its datapoints and write its values;    *)
(* the subscription writes the datapoint that changed; the listener writes     *)
(* what users set in Eliona to ABB. All go through the tables of Tables and    *)
(* the maps of DatapointMap.                                                 *)
(*                                                                         *)
(* AssetCreation, OutputControl and Subscription have the steps of these       *)
(* goroutines that this module takes at once, and more of their failures.     *)
(***************************************************************************)
EXTENDS DatapointMap, Tables, Sequences, TLC

CONSTANTS
  Channels,     \* the channels ABB may report, see ChannelAssumption
  NumProjects,  \* the configuration names the projects 1..NumProjects
  MaxChanges,   \* bound: changes at the device
  MaxCommands,  \* bound: commands of users
  MaxDisturbances  \* bound: lost events and deletions of the configuration

Config == "configuration"
Gai == "channel"
NoPid == 0
Projects == 1..NumProjects

\* A channel as the app understands it; one that GetSystems skips has nothing.
KindOf(fid) == IF fid \in DOMAIN Supported THEN Supported[fid]
               ELSE [type |-> "none", outputs |-> {}, inputs |-> {}, reads |-> << >>]

Pids(fid) == {o.datapoint[2] : o \in KindOf(fid).outputs}

\* A channel has a function and a connection; it may lack one of the pairings the
\* app knows of that function. At the device its pairing focus may change to
\* change; a user may set its attribute command.
ASSUME ChannelAssumption == \A c \in Channels :
  /\ c.fid \in GetFunctionIDsList
  /\ c.connection \in {"MyBuildings", "ProService"}
  /\ c.focus \in Pids(c.fid) \union {NoPid}
  /\ c.missing \in {NoPid} \union Pids(c.fid)
                  \union {i.datapoint[2] : i \in KindOf(c.fid).inputs}
  /\ c.command \in UNION {DOMAIN Declared[type] : type \in DOMAIN Declared}
  /\ c.change \in {Text(n) : n \in 0..255} \union {Text(w) : w \in Words}

ASSUME BoundsAssumption ==
  /\ NumProjects \in Nat \ {0}
  /\ MaxChanges \in Nat
  /\ MaxCommands \in Nat
  /\ MaxDisturbances \in Nat

VARIABLES
  channel,   \* the one of Channels that ABB reports
  account,   \* what the user ABB knows for this app may do
  device,    \* the value of each output pairing
  reported,  \* all values it has had
  db,        \* the app's tables
  inEliona,  \* the projects in which the channel's asset exists
  shown,     \* by project: the value of each attribute of that asset
  pass,      \* the collection: its step, its project and what GetSystems read
  covered,   \* the datapoints the subscription covers
  events,    \* what ABB has reported to it and is not yet stored
  outputs,   \* what users have set and the listener not yet read
  running,   \* the process runs
  changes, commands, disturbances   \* counters of the bounded environment

atABB == <<channel, account, device, reported>>
inApp == <<db, pass, covered, running>>
counters == <<changes, commands, disturbances>>
vars == <<atABB, inApp, inEliona, shown, events, outputs, counters>>

Kind == KindOf(channel.fid)
IsSupported == channel.fid \in DOMAIN Supported

Keys == IF IsSupported
  THEN {<<Tags[Kind.type][a], a>> : a \in DOMAIN Tags[Kind.type]}
         \union {<<Declared[Kind.type][a], a>> : a \in DOMAIN Declared[Kind.type]}
         \union {<<o.subtype, o.attribute>> : o \in Kind.outputs}
  ELSE {}

\* What ABB lists of the channel, and the output that a scene's input is said to be.
Outputs == {o \in Kind.outputs : o.datapoint[2] # channel.missing}
Inputs == {i \in Kind.inputs : i.datapoint[1] = "odp" \/ i.datapoint[2] # channel.missing}

NoData == [nothing |-> TRUE]
Zero == Number(0)
Values == [text : Nat \union Words \union {NoValue}] \union [number : Nat] \union {NoData}

configured == db.configuration # {}

\* Every variable keeps its type, whatever pairing the channel lacks.
TypeOK ==
  /\ account \in {"absent", "created", "granted"}
  /\ \A pid \in DOMAIN device : device[pid] \in Values /\ reported[pid] \subseteq Values
  /\ inEliona \subseteq Projects
  /\ DOMAIN shown = Projects
  /\ \A p \in Projects : DOMAIN shown[p] = Keys /\ \A k \in Keys : shown[p][k] \in Values
  /\ \A a \in db.asset : a.project_id \in inEliona /\ a.configuration_id \in db.configuration
  /\ \A d \in db.datapoint : AssetOf(db, d) # {}
  /\ \A l \in db.datapoint_attribute : l.datapoint \in db.datapoint
  /\ pass.at \in {"idle", "asset", "row", "inputs", "outputs", "data"}
  /\ pass.project \in Projects
  /\ Len(events) <= MaxChanges + MaxCommands
  /\ Len(outputs) <= MaxCommands
  /\ running \in BOOLEAN

Idle == [at |-> "idle", project |-> 1, existed |-> FALSE, values |-> << >>]

Init ==
  /\ channel \in Channels
  /\ account = IF channel.connection = "ProService" THEN "absent" ELSE "granted"
  /\ device = [pid \in Pids(channel.fid) |-> Text(1)]
  /\ reported = [pid \in DOMAIN device |-> {device[pid]}]
  /\ db = InsertConfiguration(EmptyTables, Config)
  /\ inEliona = {}
  /\ shown = [p \in Projects |-> [k \in Keys |-> NoData]]
  /\ pass = Idle
  /\ covered = {}
  /\ events = << >>
  /\ outputs = << >>
  /\ running = TRUE
  /\ changes = 0
  /\ commands = 0
  /\ disturbances = 0

-----------------------------------------------------------------------------
(* ABB *)

\* The output pairing that answers to an input pairing, if any.
Answer ==
  (PID.SWITCH_ON_OFF_SET :> PID.ON_OFF_INFO_GET) @@
  (PID.TIMED_START_STOP :> PID.ON_OFF_INFO_GET) @@
  (PID.ABSOLUTE_VALUE_0_100_SET :> PID.ACTUAL_DIM_VALUE_0_100_GET) @@
  (PID.COLOR_TEMPERATURE_SET :> PID.COLOR_TEMPERATURE_GET) @@
  (PID.CONTROLLER_REQ_ON_OFF_SET :> PID.CONTROLLER_ON_OFF_PROTECTED_GET) @@
  (PID.ABS_TEMPERATURE_SET :> PID.SETPOINT_TEMPERATURE_GET) @@
  (PID.AL_SWITCH_CHARGING :> PID.AL_INFO_CHARGING) @@
  (PID.AL_STOP_ENABLE_CHARGING_REQUEST :> PID.AL_INFO_CHARGING_ENABLED)

\* The value of a pairing changes, and the subscription hears of it.
Becomes(pid, v) ==
  /\ device' = [device EXCEPT ![pid] = v]
  /\ reported' = [reported EXCEPT ![pid] = @ \union {v}]
  /\ events' = IF Odp(pid) \in covered /\ pid # channel.missing
                 THEN Append(events, [datapoint |-> Odp(pid), value |-> v]) ELSE events

DeviceChanges ==
  /\ changes < MaxChanges
  /\ changes' = changes + 1
  /\ channel.focus \in DOMAIN device
  /\ Becomes(channel.focus, channel.change)
  /\ UNCHANGED <<channel, account, inApp, inEliona, shown, outputs, commands, disturbances>>

\* "Please log in to that system and give write permissions to this user."
GrantPermissions ==
  /\ account = "created"
  /\ account' = "granted"
  /\ UNCHANGED <<channel, device, reported, inApp, inEliona, shown, events, outputs, counters>>

-----------------------------------------------------------------------------
(* Collections *)

createUserIfNotExists == IF account = "absent" THEN "created" ELSE account

FindOutputValueByPairingID(pid) ==
  IF pid = channel.missing THEN Text(NoValue) ELSE device[pid]

\* An attribute that GetSystems does not fill is written as its zero value.
ReadValues == [a \in DOMAIN Tags[Kind.type] |->
  IF a \in DOMAIN Kind.reads
    THEN Collected(Kind.reads[a][1], FindOutputValueByPairingID(Kind.reads[a][2]))
    ELSE Zero]

\* The channel is read; one the app does not support is skipped.
GetSystems ==
  /\ running /\ configured
  /\ pass.at = "idle"
  /\ account' = createUserIfNotExists
  /\ pass' = IF IsSupported THEN [Idle EXCEPT !.at = "asset", !.values = ReadValues] ELSE Idle
  /\ UNCHANGED <<channel, device, reported, db, covered, running, inEliona, shown, events,
                 outputs, counters>>

\* On to the next project; after the last one its data is written, project by project.
NextProject(at) ==
  IF pass.project < NumProjects THEN [pass EXCEPT !.at = at, !.project = @ + 1]
  ELSE IF at = "asset" THEN [pass EXCEPT !.at = "data", !.project = 1]
  ELSE Idle

\* upsertAsset, in Eliona. (Nobody deletes the asset there.)
CreateAsset ==
  /\ running
  /\ pass.at = "asset"
  /\ inEliona' = inEliona \union {pass.project}
  /\ pass' = [pass EXCEPT !.at = "row",
                          !.existed = GetAssetId(db, Config, pass.project, Gai) # {}]
  /\ UNCHANGED <<atABB, db, covered, running, shown, events, outputs, counters>>

\* upsertAsset, in the app; an asset it has known has its datapoints.
StoreAsset ==
  /\ running
  /\ pass.at = "row"
  /\ IF UpsertAllowed(db, Config)
       THEN /\ db' = UpsertAsset(db, Config, pass.project, Gai, Kind.type, pass.project)
            /\ pass' = IF pass.existed THEN NextProject("asset")
                       ELSE [pass EXCEPT !.at = "inputs"]
       ELSE pass' = Idle /\ UNCHANGED db
  /\ UNCHANGED <<atABB, covered, running, inEliona, shown, events, outputs, counters>>

\* InsertInput for each of them
StoreInputs ==
  /\ running
  /\ pass.at = "inputs"
  /\ IF InsertAllowed(db, pass.project)
       THEN /\ db' = InsertInputs(db, pass.project, Gai, Inputs)
            /\ pass' = [pass EXCEPT !.at = "outputs"]
       ELSE pass' = Idle /\ UNCHANGED db
  /\ UNCHANGED <<atABB, covered, running, inEliona, shown, events, outputs, counters>>

\* InsertOutput for each of them, with LinkDatapointToAttribute
StoreOutputs ==
  /\ running
  /\ pass.at = "outputs"
  /\ IF InsertAllowed(db, pass.project)
       THEN /\ db' = LinkDatapointsToAttributes(
                       InsertOutputs(db, pass.project, Gai, Outputs), pass.project, Gai, Outputs)
            /\ pass' = NextProject("asset")
       ELSE pass' = Idle /\ UNCHANGED db
  /\ UNCHANGED <<atABB, covered, running, inEliona, shown, events, outputs, counters>>

\* The attributes of the struct, each under the subtype of its tag; a channel whose
\* row is gone ends the pass with an error.
UpsertSystemsData ==
  /\ running
  /\ pass.at = "data"
  /\ IF GetAssetId(db, Config, pass.project, Gai) # {}
       THEN /\ shown' = [shown EXCEPT ![pass.project] = [k \in Keys |->
                 IF k[2] \in DOMAIN pass.values /\ k[1] = Tags[Kind.type][k[2]]
                   THEN pass.values[k[2]] ELSE @[k]]]
            /\ pass' = NextProject("data")
       ELSE pass' = Idle /\ UNCHANGED shown
  /\ UNCHANGED <<atABB, db, covered, running, inEliona, events, outputs, counters>>

-----------------------------------------------------------------------------
(* The subscription *)

\* It covers the datapoints that are stored when it begins.
Subscribe ==
  /\ running /\ configured
  /\ covered = {}
  /\ covered' = {d.datapoint : d \in FetchAllDatapoints(db)}
  /\ UNCHANGED <<atABB, db, pass, running, inEliona, shown, events, outputs, counters>>

StreamEnds ==
  /\ covered # {}
  /\ covered' = {}
  /\ events' = << >>
  /\ UNCHANGED <<atABB, db, pass, running, inEliona, shown, outputs, counters>>

\* The value goes to the attributes linked to the row, in each project in turn,
\* up to one where the asset is not known.
UpsertDatapointData(row, v) ==
  LET known(p) == \A q \in 1..p : GetAssetId(db, Config, q, Gai) # {}
      keys == {<<l.subtype, l.attribute_name>> : l \in AttributesOf(db, row)}
  IN shown' = [p \in Projects |-> [k \in Keys |->
       IF known(p) /\ k \in keys THEN convertToNumber(v) ELSE shown[p][k]]]

\* An event whose datapoint is not stored (any more) is dropped.
StoreEvent ==
  /\ running
  /\ events # << >>
  /\ LET rows == FindOutputDatapoint(db, Gai, Head(events).datapoint) IN
       IF rows = {} THEN UNCHANGED shown
       ELSE \E row \in rows : UpsertDatapointData(row, Head(events).value)
  /\ events' = Tail(events)
  /\ UNCHANGED <<atABB, inApp, inEliona, outputs, counters>>

\* Eliona does not take an event: the result of the call is dropped.
EventLost ==
  /\ running
  /\ events # << >>
  /\ disturbances < MaxDisturbances
  /\ disturbances' = disturbances + 1
  /\ events' = Tail(events)
  /\ UNCHANGED <<atABB, inApp, inEliona, shown, outputs, changes, commands>>

-----------------------------------------------------------------------------
(* Commands *)

\* What users set, on and off for most attributes; a scene is triggered with 1.
Settings == {Zero, Number(1)}

\* A user sets an output attribute of the asset, as Eliona offers it.
UserSets(p, v) ==
  LET a == channel.command IN
  /\ commands < MaxCommands
  /\ commands' = commands + 1
  /\ p \in inEliona
  /\ a \in DOMAIN Declared[Kind.type] /\ Declared[Kind.type][a] = "output"
  /\ shown' = [shown EXCEPT ![p][<<"output", a>>] = v]
  /\ outputs' = Append(outputs, [project |-> p, attribute |-> a, value |-> v])
  /\ UNCHANGED <<atABB, inApp, inEliona, events, changes, disturbances>>

\* SetDataPointValue: an output is set with outputs(key: ...), which only the
\* query for ProService does; a user without permission is refused.
Accepted(datapoint) ==
  /\ account = "granted"
  /\ datapoint[2] # channel.missing
  /\ datapoint[1] = "odp" => channel.connection = "ProService"

\* The device takes the value and answers, or shows nothing of it.
SetInput(datapoint, v) ==
  IF datapoint[1] = "idp" /\ datapoint[2] \in DOMAIN Answer
    THEN Becomes(Answer[datapoint[2]], Text(v.number))
    ELSE UNCHANGED <<device, reported, events>>

\* The trigger of a scene goes back to zero, in every project.
AfterSetInput(function, datapoint) ==
  LET rows == FindOutputDatapoint(db, Gai, datapoint) IN
  IF function = "set_scene" /\ rows # {}
    THEN \E row \in rows : UpsertDatapointData(row, Text(0))
    ELSE UNCHANGED shown

MutSetAssetFatalWhenRefused ==
  /\ running
  /\ outputs # << >>
  /\ LET o == Head(outputs)
         inputs == FetchInput(db, o.project, o.attribute)
     IN IF o.attribute \notin Functions
          THEN UNCHANGED <<running, device, reported, events, db, shown>>
        ELSE IF inputs = {}
          THEN running' = FALSE /\ UNCHANGED <<device, reported, events, db, shown>>
        ELSE \E input \in inputs :
                 IF Accepted(input.datapoint)
                   THEN /\ SetInput(input.datapoint, o.value)
                        /\ db' = UpdateDatapoint(db, input, o.value)
                        /\ AfterSetInput(o.attribute, input.datapoint)
                        /\ UNCHANGED running
                   ELSE /\ running' = FALSE
                        /\ UNCHANGED <<device, reported, events, db, shown>>
  /\ outputs' = Tail(outputs)
  /\ UNCHANGED <<channel, account, inEliona, pass, covered, counters>>

\* Attributes that are no function are passed over; log.Fatal without an input row;
\* a refused write is logged.
SetAsset ==
  /\ running
  /\ outputs # << >>
  /\ LET o == Head(outputs)
         inputs == FetchInput(db, o.project, o.attribute)
     IN IF o.attribute \notin Functions
          THEN UNCHANGED <<running, device, reported, events, db, shown>>
        ELSE IF inputs = {}
          THEN running' = FALSE /\ UNCHANGED <<device, reported, events, db, shown>>
        ELSE \E input \in inputs :
                 /\ IF Accepted(input.datapoint)
                      THEN /\ SetInput(input.datapoint, o.value)
                           /\ db' = UpdateDatapoint(db, input, o.value)
                           /\ AfterSetInput(o.attribute, input.datapoint)
                      ELSE UNCHANGED <<device, reported, events, db, shown>>
                 /\ UNCHANGED running
  /\ outputs' = Tail(outputs)
  /\ UNCHANGED <<channel, account, inEliona, pass, covered, counters>>

\* The container starts again: collections, subscription and listener begin anew.
Restart ==
  /\ ~ running
  /\ running' = TRUE
  /\ pass' = Idle
  /\ covered' = {}
  /\ events' = << >>
  /\ outputs' = << >>
  /\ UNCHANGED <<atABB, db, inEliona, shown, counters>>

DeleteConfig ==
  /\ running /\ configured
  /\ disturbances < MaxDisturbances
  /\ disturbances' = disturbances + 1
  /\ db' = DeleteConfiguration(db, Config)
  /\ UNCHANGED <<atABB, pass, covered, running, inEliona, shown, events, outputs,
                 changes, commands>>

-----------------------------------------------------------------------------

PassStep ==
  \/ GetSystems
  \/ CreateAsset
  \/ StoreAsset
  \/ StoreInputs
  \/ StoreOutputs
  \/ UpsertSystemsData

Next ==
  \/ DeviceChanges
  \/ GrantPermissions
  \/ PassStep
  \/ Subscribe
  \/ StreamEnds
  \/ StoreEvent
  \/ EventLost
  \/ \E p \in Projects, v \in Settings : UserSets(p, v)
  \/ SetAsset
  \/ Restart
  \/ DeleteConfig

Spec == Init /\ [][Next]_vars

\* Collections are repeated, and the container is restarted.
FairSpec == Spec /\ WF_vars(PassStep) /\ WF_vars(SetAsset) /\ WF_vars(Restart)

-----------------------------------------------------------------------------
(* Properties *)

\* What Eliona may show for a reported text: itself or the number it spells, the
\* nearest int8, zero where a number is wanted and the text is none.
Views(v) ==
  {v} \union IF IsNumeric(v)
             THEN {Number(v.text)} \union {Number(n) : n \in {127} \intersect 0..v.text}
             ELSE {Zero}

\* What ABB has reported for a pairing; the empty text if the channel lacks it.
Reported(pid) == reported[pid] \union {Text(NoValue) : x \in {channel.missing} \intersect {pid}}

\* The values pairings linked to attribute a have had, as they may be shown.
Justified(a) == UNION {UNION {Views(v) : v \in Reported(o.datapoint[2])} :
                         o \in {x \in Kind.outputs : x.attribute = a}}

\* What users have set under a key of an asset.
UserSet(k) == {v \in Settings : commands > 0 /\ k = <<"output", channel.command>>}

\* "Scenes are stateless. It's always zero." (broker.go:758)
Stateless == {"set_scene"}

\* Attributes ABB reports in one text, hsv_state, which nobody takes apart: every
\* collection writes zero over what a user has set of them (broker.go:384).
HueColours == {"hsv_hue", "hsv_saturation", "hsv_value"}

\* What Eliona shows for an attribute, the colours of hue lights excepted, was
\* reported for a datapoint linked to that attribute, or set there by a user, or is
\* the zero of a scene's trigger: no collection (broker.go:222), subscription
\* (data.go:83) or command (app.go:282) gives it the value of another attribute or of
\* another conversion, or one nobody reported. A report may be shown as one of its
\* Views; of an output that the channel lacks the empty text counts as reported.
NothingInvented == \A p \in Projects : \A k \in Keys :
  k[2] \notin HueColours =>
    shown[p][k] \in {NoData} \union Justified(k[2]) \union UserSet(k)
      \union {Zero : x \in Stateless \intersect {k[2]}}

\* A command for a channel whose inputs are all stored never ends the process
\* (app.go:285): for every function that Eliona offers as an output of the asset
\* type there is one, under the attribute's name ("Needs to correspond to asset
\* attribute names.", broker.go:34).
StoredNeverFatal ==
  [][running /\ ~ running' =>
       {d.function : d \in {e \in db.datapoint :
           e.is_input /\ e.asset_id = Head(outputs).project}}
         # {i.function : i \in Kind.inputs}]_vars

\* Attributes whose declared subtype no path writes.
Unwritten == {"installed_power"}

Agreed(p) == \A o \in Kind.outputs :
  LET a == o.attribute
      value == shown[p][<<Declared[Kind.type][a], a>>]
  IN a \in Unwritten \/ value \in
       (IF a = "set_scene" THEN {Zero}
        ELSE Views(FindOutputValueByPairingID(o.datapoint[2])))

\* As long as the configuration is there, every project comes to show the values
\* ABB has, in the attributes the asset type declares; also those of a channel
\* stored in part, of one whose commands ABB refuses, and after a fatal exit.
EventuallyAgreed == []configured => <>[](\A p \in Projects : Agreed(p))
=============================================================================
