----------------------------- MODULE Dashboard -----------------------------
(***************************************************************************)
(* The dashboard template (eliona/dashboard.go, requested through            *)
(* apiservices/api_customization_service.go): a request fetches the assets of *)
(* one project type by type from Eliona, each fetch a call of its own, while  *)
(* the continuous asset creation, the collection and Eliona's users go on      *)
(* changing what there is to fetch. It builds widgets from what it found, and   *)
(* fails as a whole when one fetch fails.                                     *)
(*                                                                         *)
(* One action per fetch with everything the code does before the next one.    *)
(* An asset is a record with its type and project. Names, sizes and colours     *)
(* are left out; the order in which Eliona lists assets is arbitrary but fixed.  *)
(***************************************************************************)
EXTENDS DatapointMap, FiniteSets, SequencesExt

CONSTANTS
  Assets,      \* the assets that may exist in Eliona: [id, type, project]
  Projects,    \* the projects a dashboard is asked for
  MaxChanges,  \* bound on the changes in Eliona
  MaxRequests  \* bound on the requests

ASSUME DashboardAssumption ==
  /\ IsFiniteSet(Assets)
  /\ \A a \in Assets : a.project \in Projects
  /\ MaxChanges \in Nat /\ MaxRequests \in Nat

VARIABLES
  exists,              \* Eliona's assets
  status,              \* the status data of Eliona's devices: its non-empty attributes
  at,                  \* the fetch the request does next, "idle" without a request
  project,             \* projectId
  root,                \* rootAsset
  widgetSequence,
  widgets,             \* dashboard.Widgets
  devices,             \* devices whose data is still to be fetched
  batteryDevices,
  connectivityDevices,
  response,            \* the last response's code, 0 while there is none
  always,              \* what has been so throughout the request
  ever,                \* what has been so at some time of it
  changes, requests    \* how often Eliona changed, how many requests there were

eliona == <<exists, status, changes>>
lists == <<devices, batteryDevices, connectivityDevices>>
dashboard == <<root, widgetSequence, widgets>>
request == <<project, response, requests>>
vars == <<eliona, at, lists, dashboard, request, always, ever>>

NoAsset == [id |-> "none", type |-> "none", project |-> "none"]

Devices == {a \in Assets : a.type = "device"}

\* The attributes a device may report. Without data it reports none of them.
StatusAttributes == {"battery", "connectivity"}

\* What there is to see: assets, and devices that report an attribute.
Seen(e, s) ==
  {<<a, "asset">> : a \in e} \union
  UNION {{<<d, x>> : x \in s[d]} : d \in Devices \intersect e}

-----------------------------------------------------------------------------
(* What the widgets show *)

Element(a, n, attribute, subtype, key) ==
  [asset |-> a, element |-> n, attribute |-> attribute, subtype |-> subtype, key |-> key]

\* An output is shown by its current value and can be set.
Settable(a, n, attribute) ==
  {Element(a, n, attribute, "output", key) : key \in {"_CURRENT", "_SETPOINT"}}

\* The colours are set through the outputs and shown from attributes of the same
\* name under "input".
Colour(a, attribute) ==
  {Element(a, 2, attribute, "output", "_SETPOINT"), Element(a, 2, attribute, "input", "_CURRENT")}

Shown(a, n, attribute) == {Element(a, n, attribute, "input", "")}

Status(a, attribute) == {Element(a, 1, attribute, "status", "")}

Widget(type, a, sequence, data) ==
  [type |-> type, asset |-> a, sequence |-> sequence, data |-> data]

SwitchList(found, n) ==
  Widget("ABB Switch list", root, n, UNION {Settable(a, 1, "switch") : a \in found})

DimmerList(found, n) ==
  Widget("ABB Dimmer list", root, n, UNION {Settable(a, 1, "dimmer") : a \in found})

PhilipsHue(a, n) ==
  Widget("ABB Philips Hue", a, n,
         Settable(a, 1, "switch") \union Settable(a, 2, "dimmer") \union
         Settable(a, 2, "color_temperature") \union
         UNION {Colour(a, attribute) : attribute \in {"hsv_hue", "hsv_saturation", "hsv_value"}})

MovementTrend(a, n) ==
  Widget("ABB Binary trend", a, n, Shown(a, 1, "movement") \union Shown(a, 2, "movement"))

MutTemperatureRegulatorSettable(a, n) ==
  Widget("ABB Temperature regulator", a, n,
         Settable(a, 1, "switch") \union Shown(a, 2, "current_temperature") \union
         Settable(a, 3, "set_temperature") \union Settable(a, 4, "current_temperature"))

TemperatureRegulator(a, n) ==
  Widget("ABB Temperature regulator", a, n,
         Settable(a, 1, "switch") \union Shown(a, 2, "current_temperature") \union
         Settable(a, 3, "set_temperature") \union Shown(a, 4, "current_temperature"))

\* Thermostats, windows and doors have a constant place instead of the next one.
ThermostatRegulator(a) == TemperatureRegulator(a, 4)

WindowSensor(a) ==
  Widget("ABB Window sensor", a, 6, Shown(a, 1, "position") \union Shown(a, 2, "position"))

DoorTrend(a) ==
  Widget("ABB Binary trend", a, 7, Shown(a, 1, "position") \union Shown(a, 2, "position"))

BatteryStatus(found, n) ==
  Widget("ABB Battery status", root, n, UNION {Status(a, "battery") : a \in found})

Connectivity(found, attribute, n) ==
  Widget("ABB Connectivity", root, n, UNION {Status(a, attribute) : a \in found})

MutSceneListUnregistered(found, n) ==
  Widget("ABB Scenes", root, n, UNION {Settable(a, 1, "set_scene") : a \in found})

SceneList(found, n) ==
  Widget("ABB Scene list", root, n, UNION {Settable(a, 1, "set_scene") : a \in found})

\* The widget types as the app registers them (resources/widget-types): their elements.
Elements == [
  w \in {"ABB Switch list", "ABB Dimmer list", "ABB Philips Hue", "ABB Binary trend",
         "ABB Temperature regulator", "ABB Window sensor", "ABB Battery status",
         "ABB Connectivity", "ABB Scene list"} |->
    CASE w \in {"ABB Dimmer list", "ABB Battery status", "ABB Connectivity"} -> {1}
      [] w = "ABB Temperature regulator" -> 1 .. 4
      [] OTHER -> 1 .. 2]

-----------------------------------------------------------------------------
Init ==
  /\ exists \in {{}, Assets}
  /\ status \in [Devices -> SUBSET StatusAttributes]
  /\ exists = {} => \A d \in Devices : status[d] = {}
  /\ at = "idle"
  /\ project \in Projects
  /\ root = NoAsset /\ widgetSequence = 0 /\ widgets = << >>
  /\ devices = << >> /\ batteryDevices = {} /\ connectivityDevices = {}
  /\ response = 0
  /\ always = Seen(exists, status) /\ ever = always
  /\ changes = 0 /\ requests = 0

\* GetAssets for one asset type and the project.
GetAssets(type) == {a \in exists : a.type = type /\ a.project = project}

\* A template of another name is not found; else the fetches begin.
GetDashboardTemplateByName ==
  /\ at = "idle" /\ requests < MaxRequests
  /\ requests' = requests + 1
  /\ project' \in Projects
  /\ \/ /\ at' = "root" /\ response' = 0
        /\ root' = NoAsset /\ widgetSequence' = 0 /\ widgets' = << >>
        /\ devices' = << >> /\ batteryDevices' = {} /\ connectivityDevices' = {}
     \/ /\ response' = 404 /\ widgets' = << >>
        /\ UNCHANGED <<at, root, widgetSequence, lists>>
  /\ always' = Seen(exists, status) /\ ever' = always'
  /\ UNCHANGED eliona

\* Any error ends the request with no dashboard at all.
Fails ==
  /\ at' = "idle" /\ response' = 500 /\ widgets' = << >>
  /\ UNCHANGED <<eliona, lists, root, widgetSequence, project, requests, always, ever>>

FetchFails == at # "idle" /\ Fails

Continue(section) ==
  /\ at' = section
  /\ UNCHANGED <<eliona, project, requests, always, ever>>

\* Exactly one root asset is expected.
FetchRoot ==
  /\ at = "root"
  /\ LET found == GetAssets("root") IN
     \/ /\ Cardinality(found) = 1
        /\ root' = CHOOSE a \in found : TRUE
        /\ Continue("switches")
        /\ UNCHANGED <<widgetSequence, widgets, lists, response>>
     \/ Cardinality(found) # 1 /\ Fails

\* The widgets are appended, and each takes a number.
Add(new) ==
  /\ widgets' = widgets \o new
  /\ widgetSequence' = widgetSequence + Len(new)
  /\ UNCHANGED <<root, response>>

FetchSwitches ==
  /\ at = "switches" /\ Continue("dimmers")
  /\ Add(<<SwitchList(GetAssets("switch_sensor"), widgetSequence)>>)
  /\ UNCHANGED lists

FetchDimmers ==
  /\ at = "dimmers" /\ Continue("hueLights")
  /\ Add(<<DimmerList(GetAssets("dimmer_sensor"), widgetSequence)>>)
  /\ UNCHANGED lists

FetchHueLights ==
  /\ at = "hueLights" /\ Continue("movementSensors")
  /\ LET found == SetToSeq(GetAssets("hue_actuator")) IN
     Add([i \in DOMAIN found |-> PhilipsHue(found[i], widgetSequence + i - 1)])
  /\ UNCHANGED lists

FetchMovementSensors ==
  /\ at = "movementSensors" /\ Continue("rtcs")
  /\ LET found == SetToSeq(GetAssets("movement_sensor")) IN
     Add([i \in DOMAIN found |-> MovementTrend(found[i], widgetSequence + i - 1)])
  /\ UNCHANGED lists

FetchRtcs ==
  /\ at = "rtcs" /\ Continue("thermostats")
  /\ LET found == SetToSeq(GetAssets("room_temperature_controller")) IN
     Add([i \in DOMAIN found |-> TemperatureRegulator(found[i], widgetSequence + i - 1)])
  /\ UNCHANGED lists

FetchThermostats ==
  /\ at = "thermostats" /\ Continue("windowSensors")
  /\ LET found == SetToSeq(GetAssets("radiator_thermostat")) IN
     Add([i \in DOMAIN found |-> ThermostatRegulator(found[i])])
  /\ UNCHANGED lists

FetchWindowSensors ==
  /\ at = "windowSensors" /\ Continue("doorSensors")
  /\ LET found == SetToSeq(GetAssets("window_sensor")) IN
     Add([i \in DOMAIN found |-> WindowSensor(found[i])])
  /\ UNCHANGED lists

FetchDoorSensors ==
  /\ at = "doorSensors" /\ Continue("devices")
  /\ LET found == SetToSeq(GetAssets("door_sensor")) IN
     Add([i \in DOMAIN found |-> DoorTrend(found[i])])
  /\ UNCHANGED lists

FetchDevices ==
  /\ at = "devices" /\ Continue("deviceData")
  /\ devices' = SetToSeq(GetAssets("device"))
  /\ UNCHANGED <<dashboard, response, batteryDevices, connectivityDevices>>

MutFetchDeviceDataIgnoresValue ==
  /\ at = "deviceData" /\ devices # << >>
  /\ Continue(at)
  /\ LET d == Head(devices)
         reported == IF d \in exists THEN StatusAttributes ELSE {} IN
     /\ devices' = Tail(devices)
     /\ batteryDevices' = batteryDevices \union {x \in {d} : "battery" \in reported}
     /\ connectivityDevices' =
          connectivityDevices \union {x \in {d} : "connectivity" \in reported}
  /\ UNCHANGED <<dashboard, response>>

\* GetData of one device of the list, which may have been removed since.
FetchDeviceData ==
  /\ at = "deviceData" /\ devices # << >>
  /\ Continue(at)
  /\ LET d == Head(devices)
         reported == IF d \in exists THEN status[d] ELSE {} IN
     /\ devices' = Tail(devices)
     /\ batteryDevices' = batteryDevices \union {x \in {d} : "battery" \in reported}
     /\ connectivityDevices' =
          connectivityDevices \union {x \in {d} : "connectivity" \in reported}
  /\ UNCHANGED <<dashboard, response>>

\* After the devices' data come their two widgets, then the systems.
FetchSystems ==
  /\ at = "deviceData" /\ devices = << >> /\ Continue("scenes")
  /\ Add(<<BatteryStatus(batteryDevices, widgetSequence),
           Connectivity(connectivityDevices, "connectivity", widgetSequence + 1),
           Connectivity(GetAssets("system"), "connection_status", widgetSequence + 2)>>)
  /\ UNCHANGED lists

FetchScenes ==
  /\ at = "scenes" /\ Continue("idle")
  /\ widgets' = Append(widgets, SceneList(GetAssets("scene"), widgetSequence))
  /\ widgetSequence' = widgetSequence + 1
  /\ response' = 200
  /\ UNCHANGED <<root, lists>>

\* Meanwhile in Eliona: the asset creation creates, users remove, and the
\* collection stores the devices' status.
ElionaChanges ==
  /\ changes < MaxChanges /\ changes' = changes + 1
  /\ at # "idle"
  /\ \/ \E a \in Assets \ exists : exists' = exists \union {a} /\ UNCHANGED status
     \/ \E a \in exists :
          /\ exists' = exists \ {a}
          /\ status' = [d \in Devices |-> IF d = a THEN {} ELSE status[d]]
     \/ \E d \in Devices \intersect exists, s \in SUBSET StatusAttributes :
          /\ s # status[d]
          /\ status' = [status EXCEPT ![d] = s] /\ UNCHANGED exists
  /\ always' = always \intersect Seen(exists', status')
  /\ ever' = ever \union Seen(exists', status')
  /\ UNCHANGED <<at, lists, dashboard, request>>

Next ==
  \/ GetDashboardTemplateByName \/ FetchFails \/ FetchRoot \/ FetchSwitches
  \/ FetchDimmers \/ FetchHueLights \/ FetchMovementSensors \/ FetchRtcs
  \/ FetchThermostats \/ FetchWindowSensors \/ FetchDoorSensors \/ FetchDevices
  \/ FetchDeviceData \/ FetchSystems \/ FetchScenes \/ ElionaChanges

Spec == Init /\ [][Next]_vars

-----------------------------------------------------------------------------
(* Properties *)

Sections == {"root", "switches", "dimmers", "hueLights", "movementSensors", "rtcs",
             "thermostats", "windowSensors", "doorSensors", "devices", "deviceData", "scenes"}

\* The types of the variables.
TypeOK ==
  /\ exists \subseteq Assets
  /\ status \in [Devices -> SUBSET StatusAttributes]
  /\ at \in Sections \union {"idle"}
  /\ project \in Projects
  /\ root \in Assets \union {NoAsset}
  /\ widgetSequence \in Nat
  /\ \A i \in DOMAIN widgets : widgets[i].type \in DOMAIN Elements
  /\ Range(devices) \union batteryDevices \union connectivityDevices \subseteq Devices
  /\ response \in {0, 200, 404, 500}
  /\ always \subseteq ever

AllData == UNION {widgets[i].data : i \in DOMAIN widgets}

\* The attributes of an asset with their subtypes, as Eliona knows them.
AttributesOfAsset(a) ==
  CASE a.type = "device" -> {<<x, "status">> : x \in StatusAttributes}
    [] a.type = "system" -> {<<"connection_status", "status">>}
    [] OTHER -> {<<x, Declared[a.type][x]>> : x \in DOMAIN Declared[a.type]}

\* The element that Eliona could not fill: the current colours, see Colour.
ColourShown(e) ==
  e.asset.type = "hue_actuator" /\ e.subtype = "input" /\
  e.attribute \in {"hsv_hue", "hsv_saturation", "hsv_value"}

\* Every element of a dashboard is one its widget's type has, and shows an attribute
\* that its asset's type has under that subtype; only the current colours of hue
\* lights are shown from a subtype that has no such attribute. The three places that
\* must agree are dashboard.go, resources/widget-types and resources/asset-types.
ElementsKnown ==
  \A i \in DOMAIN widgets : \A e \in widgets[i].data :
    /\ e.element \in Elements[widgets[i].type]
    /\ <<e.attribute, e.subtype>> \in AttributesOfAsset(e.asset) \/ ColourShown(e)

\* The types of assets that are shown, with the attribute that always is.
ShownTypes == [
  switch_sensor |-> "switch", dimmer_sensor |-> "dimmer", hue_actuator |-> "hsv_hue",
  movement_sensor |-> "movement", room_temperature_controller |-> "set_temperature",
  radiator_thermostat |-> "set_temperature", window_sensor |-> "position",
  door_sensor |-> "position", system |-> "connection_status", scene |-> "set_scene"]

OwnWidget == {"hue_actuator", "movement_sensor", "room_temperature_controller",
              "radiator_thermostat", "window_sensor", "door_sensor"}

\* A delivered dashboard is a true picture of some of the request's duration,
\* though it is put together from a dozen fetches: an asset of the project and of a
\* shown type that existed throughout is on it, in one widget of its own where its
\* type has one; a device is listed for an attribute it reported throughout; nothing
\* is on it that did not exist, or was not reported, at some time of the request, or
\* is of another project; and the widgets that are numbered are numbered by their
\* place. A failed or refused request delivers nothing.
TruePicture ==
  /\ response = 200 =>
       LET shown == {<<e.asset, e.attribute>> : e \in AllData} IN
       /\ \A x \in always : x[1].project = project =>
            /\ x[2] = "asset" /\ x[1].type \in DOMAIN ShownTypes
                 => <<x[1], ShownTypes[x[1].type]>> \in shown
            /\ x[2] # "asset" => x \in shown
       /\ \A x \in shown :
            /\ x[1].project = project /\ <<x[1], "asset">> \in ever
            /\ x[1].type = "device" => x \in ever
       /\ \A a \in Assets : a.type \in OwnWidget =>
            Cardinality({i \in DOMAIN widgets : widgets[i].asset = a}) <= 1
       /\ \A i \in DOMAIN widgets :
            \/ widgets[i].sequence = i - 1
            \/ widgets[i].asset.type \in {"radiator_thermostat", "window_sensor", "door_sensor"}
       /\ Cardinality({i \in DOMAIN widgets : widgets[i].asset = root}) = 6
  /\ response \in {404, 500} => widgets = << >>
=============================================================================
