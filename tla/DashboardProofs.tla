--------------------------- MODULE DashboardProofs ---------------------------
(***************************************************************************)
(* Proofs about the dashboard. A dashboard is good for the sections that are  *)
(* fetched so far when it shows only what was seen, everything of the types    *)
(* fetched that was there throughout, and each widget in its place (Good); each  *)
(* fetch makes it good for one section more (AppendRoot, AppendOwn), and what     *)
(* Eliona changes in between keeps it good (GoodMonotone).                        *)
(*                                                                         *)
(* The widgets' lemmas compare dashboard.go with what the widget types and the    *)
(* asset types declare; they are where an attribute's name could be wrong.       *)
(***************************************************************************)
EXTENDS Dashboard, FiniteSetTheorems, SequenceTheorems, TLAPS

\* What the asset types of the shown assets declare, as the widgets refer to it.
DeclaredAs(type, attribute, subtype) ==
  /\ attribute \in DOMAIN Declared[type]
  /\ Declared[type][attribute] = subtype

\* What the datapoint names of lights are declared as.
LEMMA TagsOfLights ==
  /\ Tags["switch_sensor"] = Fields({"switch"}, "output")
  /\ Tags["dimmer_sensor"] = Fields({"switch", "dimmer"}, "output")
  /\ Tags["hue_actuator"] = LightTags["hue_actuator"]
BY DEF Tags, Join, LightTags

\* What the datapoint names of controllers and thermostats are declared as.
LEMMA TagsOfClimate ==
  /\ Tags["room_temperature_controller"] = ClimateTags["room_temperature_controller"]
  /\ Tags["radiator_thermostat"] = ClimateTags["radiator_thermostat"]
BY DEF Tags, Join, LightTags, ClimateTags

\* These asset types take their attributes from struct tags.
LEMMA TagsDomain ==
  {"switch_sensor", "dimmer_sensor", "hue_actuator", "room_temperature_controller",
   "radiator_thermostat"} \subseteq DOMAIN Tags
BY DEF Tags, Join, LightTags, ClimateTags

\* Switches, dimmers and hue lights can be set by what their widgets set.
LEMMA DeclaredLights ==
  /\ DeclaredAs("switch_sensor", "switch", "output")
  /\ DeclaredAs("dimmer_sensor", "dimmer", "output")
  /\ \A a \in {"switch", "dimmer", "color_temperature", "hsv_hue", "hsv_saturation",
               "hsv_value"} : DeclaredAs("hue_actuator", a, "output")
<1>1. \A t \in {"switch_sensor", "dimmer_sensor", "hue_actuator"} : Declared[t] = Tags[t]
  BY TagsDomain DEF Declared
<1>2. DeclaredAs("switch_sensor", "switch", "output")
  BY <1>1, TagsOfLights DEF DeclaredAs, Fields
<1>3. DeclaredAs("dimmer_sensor", "dimmer", "output")
  BY <1>1, TagsOfLights DEF DeclaredAs, Fields
<1>4. ASSUME NEW a \in {"switch", "dimmer", "color_temperature", "hsv_hue",
                       "hsv_saturation", "hsv_value"}
      PROVE  DeclaredAs("hue_actuator", a, "output")
  BY <1>1, TagsOfLights DEF DeclaredAs, LightTags, Join, Fields
<1> QED
  BY <1>2, <1>3, <1>4

\* Controllers and thermostats have what the temperature regulator shows and sets.
LEMMA DeclaredClimate ==
  ASSUME NEW t \in {"room_temperature_controller", "radiator_thermostat"}
  PROVE  /\ DeclaredAs(t, "switch", "output")
         /\ DeclaredAs(t, "current_temperature", "input")
         /\ DeclaredAs(t, "set_temperature", "output")
<1>1. Declared["room_temperature_controller"] = ClimateTags["room_temperature_controller"]
  BY TagsDomain, TagsOfClimate DEF Declared
<1>2. Declared["radiator_thermostat"] =
        Join(ClimateTags["radiator_thermostat"], Fields({"presence", "window_door"}, "output"))
  BY TagsDomain, TagsOfClimate DEF Declared
<1>3. CASE t = "room_temperature_controller"
  BY <1>1, <1>3 DEF DeclaredAs, ClimateTags, Join, Fields
<1>4. CASE t = "radiator_thermostat"
  BY <1>2, <1>4 DEF DeclaredAs, ClimateTags, Join, Fields
<1> QED
  BY <1>3, <1>4

\* Sensors have the inputs that are shown, and scenes the output that is set.
LEMMA DeclaredOthers ==
  /\ DeclaredAs("movement_sensor", "movement", "input")
  /\ DeclaredAs("window_sensor", "position", "input")
  /\ DeclaredAs("door_sensor", "position", "input")
  /\ DeclaredAs("scene", "set_scene", "output")
BY DEF DeclaredAs, Declared, Tags, Join, Fields, LightTags, ClimateTags, SensorTags,
       ButtonTags, WallboxTags

\* A finite set put in some order: each of its members once.
LEMMA SetToSeqLists ==
  ASSUME NEW S, IsFiniteSet(S)
  PROVE  /\ SetToSeq(S) \in Seq(S)
         /\ SetToSeq(S) \in [1..Len(SetToSeq(S)) -> S]
         /\ \A i, j \in 1..Len(SetToSeq(S)) : SetToSeq(S)[i] = SetToSeq(S)[j] => i = j
         /\ \A x \in S : \E i \in 1..Len(SetToSeq(S)) : SetToSeq(S)[i] = x
<1> DEFINE n == Cardinality(S)
           s == SetToSeq(S)
<1>1. n \in Nat /\ ExistsBijection(1..n, S)
  BY FS_CardinalityType
<1>2. \E f \in [1..n -> S] : IsInjective(f)
  BY <1>1 DEF ExistsBijection, Bijection, Injection
<1>3. s \in [1..n -> S] /\ IsInjective(s)
  BY <1>2 DEF SetToSeq
<1> HIDE DEF s
<1>4. s \in Injection(1..n, S)
  BY <1>3 DEF Injection
<1>5. IsFiniteSet(1..n) /\ Cardinality(1..n) = n
  BY <1>1, FS_Interval
<1> HIDE DEF n
<1>6. s \in Surjection(1..n, S)
  BY <1>4, <1>5, FS_Injection DEF n
<1>7. s \in Seq(S) /\ Len(s) = n
  BY <1>1, <1>3, SeqDef
<1> QED
  BY <1>3, <1>6, <1>7 DEF Surjection, IsInjective, s

-----------------------------------------------------------------------------
(* The widgets *)

AttributeNames == {
  "switch", "dimmer", "color_temperature", "hsv_hue", "hsv_saturation", "hsv_value",
  "movement", "current_temperature", "set_temperature", "position", "battery",
  "connectivity", "connection_status", "set_scene"}

ElementRecords == [asset : Assets, element : Nat, attribute : AttributeNames,
                   subtype : {"input", "output", "status"},
                   key : {"", "_CURRENT", "_SETPOINT"}]

Widgets == [type : DOMAIN Elements, asset : Assets \union {NoAsset}, sequence : Nat,
            data : SUBSET ElementRecords]

\* An element that its widget's type and its asset's type have.
KnownElement(type, e) ==
  /\ e.element \in Elements[type]
  /\ <<e.attribute, e.subtype>> \in AttributesOfAsset(e.asset) \/ ColourShown(e)

\* Data of a widget of some type that shows the assets found and no others.
Displays(type, data, found) ==
  /\ data \subseteq ElementRecords
  /\ \A e \in data : e.asset \in found /\ KnownElement(type, e)
  /\ \A a \in found : \E e \in data :
       e.asset = a /\ (a.type \in DOMAIN ShownTypes => e.attribute = ShownTypes[a.type])

Fits(w, found) == w \in Widgets /\ Displays(w.type, w.data, found)

OfType(type) == {a \in Assets : a.type = type}

\* A widget has the fields it is built from.
LEMMA WidgetTyped ==
  ASSUME NEW type \in DOMAIN Elements, NEW a \in Assets \union {NoAsset}, NEW n \in Nat,
         NEW data \in SUBSET ElementRecords
  PROVE  /\ Widget(type, a, n, data) \in Widgets
         /\ Widget(type, a, n, data).type = type
         /\ Widget(type, a, n, data).data = data
         /\ Widget(type, a, n, data).asset = a
         /\ Widget(type, a, n, data).sequence = n
BY DEF Widget, Widgets

\* What an asset type declares are attributes of its assets.
LEMMA DeclaredKnown ==
  ASSUME NEW a \in Assets, a.type \notin {"device", "system"},
         NEW attribute, NEW subtype, DeclaredAs(a.type, attribute, subtype)
  PROVE  <<attribute, subtype>> \in AttributesOfAsset(a)
BY DEF AttributesOfAsset, DeclaredAs

\* What each group of elements of an asset shows.
LEMMA SettableKnown ==
  ASSUME NEW a \in Assets, a.type \notin {"device", "system"}, NEW n \in Nat,
         NEW attribute \in AttributeNames, DeclaredAs(a.type, attribute, "output"),
         NEW type, n \in Elements[type]
  PROVE  /\ Settable(a, n, attribute) \subseteq ElementRecords
         /\ \A e \in Settable(a, n, attribute) :
              e.asset = a /\ e.attribute = attribute /\ KnownElement(type, e)
         /\ Settable(a, n, attribute) # {}
<1>1. <<attribute, "output">> \in AttributesOfAsset(a)
  BY DeclaredKnown
<1>2. ASSUME NEW key \in {"_CURRENT", "_SETPOINT"},
             NEW e, e = Element(a, n, attribute, "output", key)
      PROVE  /\ e \in ElementRecords /\ e.asset = a /\ e.attribute = attribute
             /\ KnownElement(type, e)
  <2>1. /\ e \in ElementRecords /\ e.asset = a /\ e.element = n
        /\ e.attribute = attribute /\ e.subtype = "output"
    BY <1>2 DEF Element, ElementRecords
  <2> QED
    BY <1>1, <2>1 DEF KnownElement
<1> QED
  BY <1>2 DEF Settable

\* An input that is shown is known when its asset type declares it.
LEMMA ShownKnown ==
  ASSUME NEW a \in Assets, a.type \notin {"device", "system"}, NEW n \in Nat,
         NEW attribute \in AttributeNames, DeclaredAs(a.type, attribute, "input"),
         NEW type, n \in Elements[type]
  PROVE  /\ Shown(a, n, attribute) \subseteq ElementRecords
         /\ \A e \in Shown(a, n, attribute) :
              e.asset = a /\ e.attribute = attribute /\ KnownElement(type, e)
         /\ Shown(a, n, attribute) # {}
<1>1. <<attribute, "input">> \in AttributesOfAsset(a)
  BY DeclaredKnown
<1> DEFINE e == Element(a, n, attribute, "input", "")
<1>2. /\ e \in ElementRecords /\ e.asset = a /\ e.element = n
      /\ e.attribute = attribute /\ e.subtype = "input"
  BY DEF Element, ElementRecords
<1> HIDE DEF e
<1>3. KnownElement(type, e)
  BY <1>1, <1>2 DEF KnownElement
<1> QED
  BY <1>2, <1>3 DEF Shown, e

\* A status that is shown is known when its asset has it.
LEMMA StatusKnown ==
  ASSUME NEW a \in Assets, NEW attribute \in AttributeNames,
         <<attribute, "status">> \in AttributesOfAsset(a), NEW type, 1 \in Elements[type]
  PROVE  /\ Status(a, attribute) \subseteq ElementRecords
         /\ \A e \in Status(a, attribute) :
              e.asset = a /\ e.attribute = attribute /\ KnownElement(type, e)
         /\ Status(a, attribute) # {}
<1> DEFINE e == Element(a, 1, attribute, "status", "")
<1>1. /\ e \in ElementRecords /\ e.asset = a /\ e.element = 1
      /\ e.attribute = attribute /\ e.subtype = "status"
  BY DEF Element, ElementRecords
<1> HIDE DEF e
<1>2. KnownElement(type, e)
  BY <1>1 DEF KnownElement
<1> QED
  BY <1>1, <1>2 DEF Status, e

\* The colours of hue lights are known, or are those shown from no attribute.
LEMMA ColourKnown ==
  ASSUME NEW a \in Assets, a.type = "hue_actuator",
         NEW attribute \in {"hsv_hue", "hsv_saturation", "hsv_value"},
         NEW type, 2 \in Elements[type]
  PROVE  /\ Colour(a, attribute) \subseteq ElementRecords
         /\ \A e \in Colour(a, attribute) :
              e.asset = a /\ e.attribute = attribute /\ KnownElement(type, e)
         /\ Colour(a, attribute) # {}
<1>1. <<attribute, "output">> \in AttributesOfAsset(a)
  BY DeclaredKnown, DeclaredLights
<1> DEFINE e == Element(a, 2, attribute, "output", "_SETPOINT")
           f == Element(a, 2, attribute, "input", "_CURRENT")
<1>2. /\ e \in ElementRecords /\ e.asset = a /\ e.element = 2
      /\ e.attribute = attribute /\ e.subtype = "output"
  BY DEF Element, ElementRecords, AttributeNames
<1>3. /\ f \in ElementRecords /\ f.asset = a /\ f.element = 2
      /\ f.attribute = attribute /\ f.subtype = "input"
  BY DEF Element, ElementRecords, AttributeNames
<1>4. Colour(a, attribute) = {e, f}
  BY DEF Colour
<1> HIDE DEF e, f
<1>5. KnownElement(type, e)
  BY <1>1, <1>2 DEF KnownElement
<1>6. KnownElement(type, f)
  BY <1>3 DEF KnownElement, ColourShown
<1> QED
  BY <1>2, <1>3, <1>4, <1>5, <1>6

\* A widget fits the assets its data displays.
LEMMA WidgetFits ==
  ASSUME NEW type \in DOMAIN Elements, NEW a \in Assets \union {NoAsset}, NEW n \in Nat,
         NEW data, NEW found, Displays(type, data, found)
  PROVE  LET w == Widget(type, a, n, data) IN
         Fits(w, found) /\ w.asset = a /\ w.sequence = n /\ w.data = data
<1> DEFINE w == Widget(type, a, n, data)
<1>1. data \in SUBSET ElementRecords
  BY DEF Displays
<1>2. /\ w \in Widgets /\ w.data = data /\ w.asset = a /\ w.sequence = n
      /\ w.type = type
  BY <1>1, WidgetTyped
<1> HIDE DEF w
<1> QED
  BY <1>2 DEF w, Fits

\* The element numbers that dashboard.go uses are those of the widget types.
LEMMA ElementNumbers ==
  /\ \A w \in {"ABB Switch list", "ABB Dimmer list", "ABB Scene list", "ABB Battery status",
               "ABB Connectivity"} : w \in DOMAIN Elements /\ 1 \in Elements[w]
  /\ \A w \in {"ABB Philips Hue", "ABB Binary trend", "ABB Window sensor"} :
       w \in DOMAIN Elements /\ {1, 2} \subseteq Elements[w]
  /\ "ABB Temperature regulator" \in DOMAIN Elements
  /\ {1, 2, 3, 4} \subseteq Elements["ABB Temperature regulator"]
BY DEF Elements

\* The lists: one group of elements for each asset.
LEMMA SettableListDisplays ==
  ASSUME NEW type \in DOMAIN Elements, 1 \in Elements[type], NEW attribute \in AttributeNames,
         NEW t, t \notin {"device", "system"}, DeclaredAs(t, attribute, "output"),
         t \in DOMAIN ShownTypes => ShownTypes[t] = attribute,
         NEW found \in SUBSET OfType(t)
  PROVE  Displays(type, UNION {Settable(a, 1, attribute) : a \in found}, found)
<1> DEFINE data == UNION {Settable(a, 1, attribute) : a \in found}
<1>1. ASSUME NEW a \in found
      PROVE  /\ Settable(a, 1, attribute) \subseteq ElementRecords
             /\ Settable(a, 1, attribute) # {}
             /\ \A e \in Settable(a, 1, attribute) :
                  e.asset = a /\ e.attribute = attribute /\ KnownElement(type, e)
             /\ a.type = t
  <2>1. a \in Assets /\ a.type = t
    BY DEF OfType
  <2> QED
    BY <2>1, SettableKnown
<1>2. data \subseteq ElementRecords /\ \A e \in data : e.asset \in found /\ KnownElement(type, e)
  BY <1>1
<1>3. \A x \in found : \E e \in data :
        e.asset = x /\ (x.type \in DOMAIN ShownTypes => e.attribute = ShownTypes[x.type])
  BY <1>1
<1> HIDE DEF data
<1>4. Displays(type, data, found)
  BY <1>2, <1>3 DEF Displays
<1> QED
  BY <1>4 DEF data

\* The assets found have this status attribute, and it is the one they are shown by.
HaveStatus(found, attribute) ==
  \A a \in found : /\ <<attribute, "status">> \in AttributesOfAsset(a)
                   /\ a.type \in DOMAIN ShownTypes => ShownTypes[a.type] = attribute

\* A list of assets by a status attribute displays all of them, by that attribute.
LEMMA StatusListDisplays ==
  ASSUME NEW type \in DOMAIN Elements, 1 \in Elements[type], NEW attribute \in AttributeNames,
         NEW found \in SUBSET Assets, HaveStatus(found, attribute)
  PROVE  LET data == UNION {Status(a, attribute) : a \in found} IN
         /\ Displays(type, data, found)
         /\ \A e \in data : e.attribute = attribute
         /\ \A a \in found : \E e \in data : e.asset = a /\ e.attribute = attribute
<1> DEFINE data == UNION {Status(a, attribute) : a \in found}
<1>1. ASSUME NEW a \in found
      PROVE  /\ Status(a, attribute) \subseteq ElementRecords
             /\ Status(a, attribute) # {}
             /\ \A e \in Status(a, attribute) :
                  e.asset = a /\ e.attribute = attribute /\ KnownElement(type, e)
  BY StatusKnown DEF HaveStatus
<1>2. data \subseteq ElementRecords /\ \A e \in data : e.asset \in found /\ KnownElement(type, e)
  BY <1>1
<1>3. \A x \in found : \E e \in data : e.asset = x /\ e.attribute = attribute
  BY <1>1
<1>4. \A e \in data : e.attribute = attribute
  BY <1>1
<1> HIDE DEF data
<1>5. Displays(type, data, found)
  BY <1>2, <1>3 DEF Displays, HaveStatus
<1> QED
  BY <1>3, <1>4, <1>5 DEF data

\* Devices have a battery and a connectivity, systems have a connection status.
LEMMA StatusHad ==
  /\ \A found \in SUBSET Devices :
       found \in SUBSET Assets /\ HaveStatus(found, "battery") /\ HaveStatus(found, "connectivity")
  /\ \A found \in SUBSET OfType("system") :
       found \in SUBSET Assets /\ HaveStatus(found, "connection_status")
BY DEF HaveStatus, AttributesOfAsset, Devices, StatusAttributes, OfType, ShownTypes

\* SwitchList shows the switches found.
LEMMA SwitchListFits ==
  ASSUME NEW n \in Nat, NEW found \in SUBSET OfType("switch_sensor"),
         root \in Assets \union {NoAsset}, NEW w, w = SwitchList(found, n)
  PROVE  Fits(w, found) /\ w.asset = root /\ w.sequence = n
<1> DEFINE type == "ABB Switch list"
           attribute == "switch"
           t == "switch_sensor"
           data == UNION {Settable(a, 1, attribute) : a \in found}
<1>1. type \in DOMAIN Elements /\ 1 \in Elements[type] /\ attribute \in AttributeNames
  BY ElementNumbers DEF AttributeNames
<1>2. w = Widget(type, root, n, data)
  BY DEF SwitchList
<1>3. /\ t \notin {"device", "system"} /\ DeclaredAs(t, attribute, "output")
      /\ ShownTypes[t] = attribute /\ found \in SUBSET OfType(t)
  BY DeclaredLights DEF ShownTypes
<1> HIDE DEF type, attribute, t
<1>4. Displays(type, data, found)
  BY <1>1, <1>3, SettableListDisplays
<1> HIDE DEF data
<1> QED
  BY <1>1, <1>2, <1>4, WidgetFits

\* DimmerList shows the dimmers found.
LEMMA DimmerListFits ==
  ASSUME NEW n \in Nat, NEW found \in SUBSET OfType("dimmer_sensor"),
         root \in Assets \union {NoAsset}, NEW w, w = DimmerList(found, n)
  PROVE  Fits(w, found) /\ w.asset = root /\ w.sequence = n
<1> DEFINE type == "ABB Dimmer list"
           attribute == "dimmer"
           t == "dimmer_sensor"
           data == UNION {Settable(a, 1, attribute) : a \in found}
<1>1. type \in DOMAIN Elements /\ 1 \in Elements[type] /\ attribute \in AttributeNames
  BY ElementNumbers DEF AttributeNames
<1>2. w = Widget(type, root, n, data)
  BY DEF DimmerList
<1>3. /\ t \notin {"device", "system"} /\ DeclaredAs(t, attribute, "output")
      /\ ShownTypes[t] = attribute /\ found \in SUBSET OfType(t)
  BY DeclaredLights DEF ShownTypes
<1> HIDE DEF type, attribute, t
<1>4. Displays(type, data, found)
  BY <1>1, <1>3, SettableListDisplays
<1> HIDE DEF data
<1> QED
  BY <1>1, <1>2, <1>4, WidgetFits

\* SceneList shows the scenes found.
LEMMA SceneListFits ==
  ASSUME NEW n \in Nat, NEW found \in SUBSET OfType("scene"),
         root \in Assets \union {NoAsset}, NEW w, w = SceneList(found, n)
  PROVE  Fits(w, found) /\ w.asset = root /\ w.sequence = n
<1> DEFINE type == "ABB Scene list"
           attribute == "set_scene"
           t == "scene"
           data == UNION {Settable(a, 1, attribute) : a \in found}
<1>1. type \in DOMAIN Elements /\ 1 \in Elements[type] /\ attribute \in AttributeNames
  BY ElementNumbers DEF AttributeNames
<1>2. w = Widget(type, root, n, data)
  BY DEF SceneList
<1>3. /\ t \notin {"device", "system"} /\ DeclaredAs(t, attribute, "output")
      /\ ShownTypes[t] = attribute /\ found \in SUBSET OfType(t)
  BY DeclaredOthers DEF ShownTypes
<1> HIDE DEF type, attribute, t
<1>4. Displays(type, data, found)
  BY <1>1, <1>3, SettableListDisplays
<1> HIDE DEF data
<1> QED
  BY <1>1, <1>2, <1>4, WidgetFits

\* BatteryStatus shows the devices listed, by their battery.
LEMMA BatteryStatusFits ==
  ASSUME NEW n \in Nat, NEW found \in SUBSET Devices, root \in Assets \union {NoAsset},
         NEW w, w = BatteryStatus(found, n)
  PROVE  /\ Fits(w, found) /\ w.asset = root /\ w.sequence = n
         /\ \A e \in w.data : e.attribute = "battery"
         /\ \A a \in found : \E e \in w.data : e.asset = a /\ e.attribute = "battery"
<1> DEFINE type == "ABB Battery status"
           attribute == "battery"
           data == UNION {Status(a, attribute) : a \in found}
<1>1. type \in DOMAIN Elements /\ 1 \in Elements[type] /\ attribute \in AttributeNames
  BY ElementNumbers DEF AttributeNames
<1>2. w = Widget(type, root, n, data)
  BY DEF BatteryStatus
<1>3. found \in SUBSET Assets /\ HaveStatus(found, attribute)
  BY StatusHad
<1> HIDE DEF type, attribute
<1>4. /\ Displays(type, data, found)
      /\ \A e \in data : e.attribute = attribute
      /\ \A a \in found : \E e \in data : e.asset = a /\ e.attribute = attribute
  BY <1>1, <1>3, StatusListDisplays
<1> HIDE DEF data
<1>5. Fits(w, found) /\ w.asset = root /\ w.sequence = n /\ w.data = data
  BY <1>1, <1>2, <1>4, WidgetFits
<1> QED
  BY <1>4, <1>5 DEF attribute

\* Connectivity shows the devices or systems listed, by the attribute it is given.
LEMMA ConnectivityFits ==
  ASSUME NEW n \in Nat, root \in Assets \union {NoAsset},
         NEW attribute \in AttributeNames,
         NEW found \in SUBSET Assets, HaveStatus(found, attribute),
         NEW w, w = Connectivity(found, attribute, n)
  PROVE  /\ Fits(w, found) /\ w.asset = root /\ w.sequence = n
         /\ \A e \in w.data : e.attribute = attribute
         /\ \A a \in found : \E e \in w.data : e.asset = a /\ e.attribute = attribute
<1> DEFINE type == "ABB Connectivity"
           data == UNION {Status(a, attribute) : a \in found}
<1>1. type \in DOMAIN Elements /\ 1 \in Elements[type]
  BY ElementNumbers
<1>2. w = Widget(type, root, n, data)
  BY DEF Connectivity
<1> HIDE DEF type
<1>3. /\ Displays(type, data, found)
      /\ \A e \in data : e.attribute = attribute
      /\ \A a \in found : \E e \in data : e.asset = a /\ e.attribute = attribute
  BY <1>1, StatusListDisplays
<1> HIDE DEF data
<1>4. Fits(w, found) /\ w.asset = root /\ w.sequence = n /\ w.data = data
  BY <1>1, <1>2, <1>3, WidgetFits
<1> QED
  BY <1>3, <1>4

\* The widgets of one asset.
LEMMA PhilipsHueFits ==
  ASSUME NEW a \in OfType("hue_actuator"), NEW n \in Nat, NEW w, w = PhilipsHue(a, n)
  PROVE  Fits(w, {a}) /\ w.asset = a /\ w.sequence = n
<1> DEFINE type == "ABB Philips Hue"
           x1 == "switch"
           x2 == "dimmer"
           x3 == "color_temperature"
           s1 == Settable(a, 1, x1)
           s2 == Settable(a, 2, x2)
           s3 == Settable(a, 2, x3)
           c == UNION {Colour(a, x) : x \in {"hsv_hue", "hsv_saturation", "hsv_value"}}
           data == s1 \union s2 \union s3 \union c
<1>1. a \in Assets /\ a.type = "hue_actuator"
  BY DEF OfType
<1>2. type \in DOMAIN Elements /\ 1 \in Elements[type] /\ 2 \in Elements[type]
  BY ElementNumbers
<1>3. ASSUME NEW x \in {x1, x2, x3}
      PROVE  x \in AttributeNames /\ DeclaredAs(a.type, x, "output")
  BY <1>1, DeclaredLights DEF AttributeNames
<1>4. ShownTypes[a.type] = "hsv_hue"
  BY <1>1 DEF ShownTypes
<1>5. w = Widget(type, a, n, data)
  BY DEF PhilipsHue
<1> HIDE DEF type, x1, x2, x3
<1>6. ASSUME NEW x \in {x1, x2, x3}, NEW i \in {1, 2}
      PROVE  /\ Settable(a, i, x) \subseteq ElementRecords
             /\ \A e \in Settable(a, i, x) : e.asset = a /\ KnownElement(type, e)
  BY <1>1, <1>2, <1>3, SettableKnown
<1>7. ASSUME NEW x \in {"hsv_hue", "hsv_saturation", "hsv_value"}
      PROVE  /\ Colour(a, x) \subseteq ElementRecords
             /\ \A e \in Colour(a, x) : e.asset = a /\ e.attribute = x /\ KnownElement(type, e)
             /\ Colour(a, x) # {}
  <2>1. x \in AttributeNames
    BY DEF AttributeNames
  <2> QED
    BY <1>1, <1>2, <2>1, ColourKnown
<1>8. c \subseteq ElementRecords /\ \A e \in c : e.asset = a /\ KnownElement(type, e)
  BY <1>7
<1>9. \E e \in c : e.attribute = "hsv_hue"
  BY <1>7
<1>10. \A s \in {s1, s2, s3} :
         s \subseteq ElementRecords /\ \A e \in s : e.asset = a /\ KnownElement(type, e)
  BY <1>6
<1> HIDE DEF s1, s2, s3, c
<1>11. /\ data \in SUBSET ElementRecords
       /\ \A e \in data : e.asset \in {a} /\ KnownElement(type, e)
  BY <1>8, <1>10
<1>12. \E e \in data : e.asset = a /\ e.attribute = ShownTypes[a.type]
  BY <1>4, <1>8, <1>9
<1> HIDE DEF data
<1>13. Displays(type, data, {a})
  BY <1>11, <1>12 DEF Displays
<1> QED
  BY <1>1, <1>2, <1>5, <1>13, WidgetFits

\* An input shown as both elements of a widget displays its asset.
LEMMA ShownTwiceDisplays ==
  ASSUME NEW type, 1 \in Elements[type], 2 \in Elements[type],
         NEW a \in Assets, a.type \notin {"device", "system"},
         NEW attribute \in AttributeNames, DeclaredAs(a.type, attribute, "input"),
         ShownTypes[a.type] = attribute
  PROVE  Displays(type, Shown(a, 1, attribute) \union Shown(a, 2, attribute), {a})
<1>1. ASSUME NEW n \in {1, 2}
      PROVE  /\ Shown(a, n, attribute) \subseteq ElementRecords
             /\ Shown(a, n, attribute) # {}
             /\ \A e \in Shown(a, n, attribute) :
                  e.asset = a /\ e.attribute = attribute /\ KnownElement(type, e)
  BY ShownKnown
<1> DEFINE data == Shown(a, 1, attribute) \union Shown(a, 2, attribute)
<1>2. /\ data \subseteq ElementRecords
      /\ \A e \in data : e.asset \in {a} /\ KnownElement(type, e)
      /\ \E e \in data : e.asset = a /\ e.attribute = attribute
  BY <1>1
<1> HIDE DEF data
<1>3. Displays(type, data, {a})
  BY <1>2 DEF Displays
<1> QED
  BY <1>3 DEF data

\* MovementTrend shows its movement sensor.
LEMMA MovementTrendFits ==
  ASSUME NEW a \in OfType("movement_sensor"), NEW n \in Nat, NEW w, w = MovementTrend(a, n)
  PROVE  Fits(w, {a}) /\ w.asset = a /\ w.sequence = n
<1> DEFINE type == "ABB Binary trend"
           attribute == "movement"
           data == Shown(a, 1, attribute) \union Shown(a, 2, attribute)
<1>1. /\ type \in DOMAIN Elements /\ 1 \in Elements[type] /\ 2 \in Elements[type]
      /\ attribute \in AttributeNames
  BY ElementNumbers DEF AttributeNames
<1>2. w = Widget(type, a, n, data)
  BY DEF MovementTrend
<1>3. /\ a \in Assets /\ a.type \notin {"device", "system"}
      /\ DeclaredAs(a.type, attribute, "input") /\ ShownTypes[a.type] = attribute
  BY DeclaredOthers DEF ShownTypes, OfType
<1> HIDE DEF type, attribute
<1>4. Displays(type, data, {a})
  BY <1>1, <1>3, ShownTwiceDisplays
<1> HIDE DEF data
<1> QED
  BY <1>1, <1>2, <1>3, <1>4, WidgetFits

\* WindowSensor shows its window sensor.
LEMMA WindowSensorFits ==
  ASSUME NEW a \in OfType("window_sensor"), NEW w, w = WindowSensor(a)
  PROVE  Fits(w, {a}) /\ w.asset = a
<1> DEFINE type == "ABB Window sensor"
           attribute == "position"
           data == Shown(a, 1, attribute) \union Shown(a, 2, attribute)
<1>1. /\ type \in DOMAIN Elements /\ 1 \in Elements[type] /\ 2 \in Elements[type]
      /\ attribute \in AttributeNames
  BY ElementNumbers DEF AttributeNames
<1>2. w = Widget(type, a, 6, data)
  BY DEF WindowSensor
<1>3. /\ a \in Assets /\ a.type \notin {"device", "system"}
      /\ DeclaredAs(a.type, attribute, "input") /\ ShownTypes[a.type] = attribute
  BY DeclaredOthers DEF ShownTypes, OfType
<1> HIDE DEF type, attribute
<1>4. Displays(type, data, {a})
  BY <1>1, <1>3, ShownTwiceDisplays
<1> HIDE DEF data
<1> QED
  BY <1>1, <1>2, <1>3, <1>4, WidgetFits

\* DoorTrend shows its door sensor.
LEMMA DoorTrendFits ==
  ASSUME NEW a \in OfType("door_sensor"), NEW w, w = DoorTrend(a)
  PROVE  Fits(w, {a}) /\ w.asset = a
<1> DEFINE type == "ABB Binary trend"
           attribute == "position"
           data == Shown(a, 1, attribute) \union Shown(a, 2, attribute)
<1>1. /\ type \in DOMAIN Elements /\ 1 \in Elements[type] /\ 2 \in Elements[type]
      /\ attribute \in AttributeNames
  BY ElementNumbers DEF AttributeNames
<1>2. w = Widget(type, a, 7, data)
  BY DEF DoorTrend
<1>3. /\ a \in Assets /\ a.type \notin {"device", "system"}
      /\ DeclaredAs(a.type, attribute, "input") /\ ShownTypes[a.type] = attribute
  BY DeclaredOthers DEF ShownTypes, OfType
<1> HIDE DEF type, attribute
<1>4. Displays(type, data, {a})
  BY <1>1, <1>3, ShownTwiceDisplays
<1> HIDE DEF data
<1> QED
  BY <1>1, <1>2, <1>3, <1>4, WidgetFits

\* TemperatureRegulator shows its controller or thermostat.
LEMMA TemperatureRegulatorFits ==
  ASSUME NEW a \in Assets, a.type \in {"room_temperature_controller", "radiator_thermostat"},
         NEW n \in Nat, NEW w, w = TemperatureRegulator(a, n)
  PROVE  Fits(w, {a}) /\ w.asset = a /\ w.sequence = n
<1> DEFINE type == "ABB Temperature regulator"
           x1 == "switch"
           x2 == "current_temperature"
           x3 == "set_temperature"
           s1 == Settable(a, 1, x1)
           s2 == Shown(a, 2, x2)
           s3 == Settable(a, 3, x3)
           s4 == Shown(a, 4, x2)
           data == s1 \union s2 \union s3 \union s4
<1>1. /\ type \in DOMAIN Elements /\ 1 \in Elements[type] /\ 2 \in Elements[type]
      /\ 3 \in Elements[type] /\ 4 \in Elements[type]
  BY ElementNumbers
<1>2. /\ x1 \in AttributeNames /\ DeclaredAs(a.type, x1, "output")
      /\ x2 \in AttributeNames /\ DeclaredAs(a.type, x2, "input")
      /\ x3 \in AttributeNames /\ DeclaredAs(a.type, x3, "output")
      /\ a.type \notin {"device", "system"}
  BY DeclaredClimate DEF AttributeNames
<1>3. ShownTypes[a.type] = x3
  BY DEF ShownTypes
<1>4. w = Widget(type, a, n, data)
  BY DEF TemperatureRegulator
<1> HIDE DEF type, x1, x2, x3
<1>5. s1 \subseteq ElementRecords /\ \A e \in s1 : e.asset = a /\ KnownElement(type, e)
  BY <1>1, <1>2, SettableKnown
<1>6. s2 \subseteq ElementRecords /\ \A e \in s2 : e.asset = a /\ KnownElement(type, e)
  BY <1>1, <1>2, ShownKnown
<1>7. /\ s3 \subseteq ElementRecords /\ s3 # {}
      /\ \A e \in s3 : e.asset = a /\ KnownElement(type, e) /\ e.attribute = x3
  BY <1>1, <1>2, SettableKnown
<1>8. s4 \subseteq ElementRecords /\ \A e \in s4 : e.asset = a /\ KnownElement(type, e)
  BY <1>1, <1>2, ShownKnown
<1> HIDE DEF s1, s2, s3, s4
<1>9. /\ data \subseteq ElementRecords
      /\ \A e \in data : e.asset \in {a} /\ KnownElement(type, e)
  BY <1>5, <1>6, <1>7, <1>8
<1>10. \E e \in data : e.asset = a /\ e.attribute = ShownTypes[a.type]
  BY <1>3, <1>7
<1> HIDE DEF data
<1>11. Displays(type, data, {a})
  BY <1>9, <1>10 DEF Displays
<1> QED
  BY <1>1, <1>4, <1>11, WidgetFits

-----------------------------------------------------------------------------
(* The inductive invariant *)

TypeInv ==
  /\ exists \subseteq Assets
  /\ status \in [Devices -> SUBSET StatusAttributes]
  /\ at \in Sections \union {"idle"}
  /\ project \in Projects
  /\ root \in Assets \union {NoAsset}
  /\ widgetSequence \in Nat
  /\ widgets \in Seq(Widgets)
  /\ devices \in Seq(Devices)
  /\ batteryDevices \subseteq Devices /\ connectivityDevices \subseteq Devices
  /\ response \in {0, 200, 404, 500}

\* The widgets ws show asset a by this attribute.
OnIt(ws, a, attribute) ==
  \E i \in DOMAIN ws : \E e \in ws[i].data : e.asset = a /\ e.attribute = attribute

\* Nothing is shown that its types do not have, that is of another project than p or
\* that was never seen.
Truthful(ws, p, ev) ==
  \A i \in DOMAIN ws : \A e \in ws[i].data :
    /\ KnownElement(ws[i].type, e)
    /\ e.asset.project = p
    /\ <<e.asset, "asset">> \in ev
    /\ e.asset.type = "device" => <<e.asset, e.attribute>> \in ev

\* All assets of the types done that were there throughout are shown.
Complete(ws, p, al, done) ==
  \A a \in Assets : <<a, "asset">> \in al /\ a.project = p /\ a.type \in done
                      => OnIt(ws, a, ShownTypes[a.type])

\* Assets have at most one widget of their own, and none before their type is done.
Single(ws, done) ==
  \A i \in DOMAIN ws : ws[i].asset.type \in OwnWidget =>
    /\ ws[i].asset.type \in done
    /\ \A j \in DOMAIN ws : ws[j].asset = ws[i].asset => i = j

ConstantPlace == {"radiator_thermostat", "window_sensor", "door_sensor"}

Numbered(ws) ==
  \A i \in DOMAIN ws : ws[i].sequence = i - 1 \/ ws[i].asset.type \in ConstantPlace

\* The dashboard ws as it must be when the types done are fetched; k of its widgets
\* belong to the root asset r.
Good(ws, p, r, al, ev, done, k) ==
  /\ ws \in Seq(Widgets)
  /\ Truthful(ws, p, ev)
  /\ Complete(ws, p, al, done)
  /\ Single(ws, done)
  /\ Numbered(ws)
  /\ Cardinality({i \in DOMAIN ws : ws[i].asset = r}) = k

\* The types that are fetched before each section.
Lists == {"switch_sensor", "dimmer_sensor"}
Before == [
  root |-> {}, switches |-> {}, dimmers |-> {"switch_sensor"}, hueLights |-> Lists,
  movementSensors |-> Lists \union {"hue_actuator"},
  rtcs |-> Lists \union {"hue_actuator", "movement_sensor"},
  thermostats |-> Lists \union {"hue_actuator", "movement_sensor",
                                "room_temperature_controller"},
  windowSensors |-> Lists \union {"hue_actuator", "movement_sensor",
                                  "room_temperature_controller", "radiator_thermostat"},
  doorSensors |-> Lists \union (OwnWidget \ {"door_sensor"}),
  devices |-> Lists \union OwnWidget,
  deviceData |-> Lists \union OwnWidget,
  scenes |-> Lists \union OwnWidget \union {"system"},
  idle |-> DOMAIN ShownTypes]

\* The root's widgets before each section.
RootWidgets == [s \in Sections \union {"idle"} |->
  CASE s \in {"root", "switches"} -> 0
    [] s = "dimmers" -> 1
    [] s = "scenes" -> 5
    [] s = "idle" -> 6
    [] OTHER -> 2]

\* Something is being built or has been delivered.
Delivering == at # "idle" \/ response = 200

RootInv ==
  /\ at # "idle" => response = 0
  /\ at = "root" => widgets = << >>
  /\ ~ Delivering => widgets = << >>
  /\ Delivering /\ at # "root" => root \in Assets /\ root.type = "root"

SeenInv == always \subseteq Seen(exists, status) /\ Seen(exists, status) \subseteq ever

BuiltInv == Delivering =>
  /\ widgetSequence = Len(widgets)
  /\ Good(widgets, project, root, always, ever, Before[at], RootWidgets[at])

\* A device that is found is of the project, and was seen with what it is listed for.
FoundInv ==
  /\ at = "deviceData" => \A i \in DOMAIN devices :
       devices[i].project = project /\ <<devices[i], "asset">> \in ever
  /\ at # "idle" =>
       /\ \A d \in batteryDevices :
            d.project = project /\ {<<d, "asset">>, <<d, "battery">>} \subseteq ever
       /\ \A d \in connectivityDevices :
            d.project = project /\ {<<d, "asset">>, <<d, "connectivity">>} \subseteq ever

\* A device that has reported an attribute throughout is still to be asked, listed
\* or, in the end, shown.
Listed(d, x) ==
  d \in IF x = "battery" THEN batteryDevices ELSE connectivityDevices

ListedInv == \A d \in Devices : \A x \in StatusAttributes :
  <<d, x>> \in always /\ d.project = project =>
    /\ at = "deviceData" => Listed(d, x) \/ \E i \in DOMAIN devices : devices[i] = d
    /\ at = "scenes" \/ response = 200 => OnIt(widgets, d, x)

IInv == TypeInv /\ RootInv /\ SeenInv /\ BuiltInv /\ FoundInv /\ ListedInv

-----------------------------------------------------------------------------
(* Building the dashboard *)

\* Eliona's changes leave less that was always there and more that ever was.
LEMMA GoodMonotone ==
  ASSUME NEW ws, NEW p, NEW r, NEW al, NEW ev, NEW done, NEW k, NEW al2, NEW ev2,
         Good(ws, p, r, al, ev, done, k), al2 \subseteq al, ev \subseteq ev2
  PROVE  Good(ws, p, r, al2, ev2, done, k)
<1>1. Truthful(ws, p, ev2)
  BY DEF Good, Truthful
<1>2. Complete(ws, p, al2, done)
  BY DEF Good, Complete
<1> QED
  BY <1>1, <1>2 DEF Good

\* One more widget of the root, which may complete the types in more.
LEMMA AppendRoot ==
  ASSUME NEW ws, NEW p, NEW r \in Assets, NEW al, NEW ev, NEW done, NEW k \in Nat,
         Good(ws, p, r, al, ev, done, k), r.type = "root",
         NEW w, NEW found, Fits(w, found), w.asset = r, w.sequence = Len(ws),
         \A e \in w.data : /\ e.asset.project = p /\ <<e.asset, "asset">> \in ev
                           /\ e.asset.type = "device" => <<e.asset, e.attribute>> \in ev,
         NEW more \in SUBSET DOMAIN ShownTypes,
         \A a \in Assets : <<a, "asset">> \in al /\ a.project = p /\ a.type \in more
                             => a \in found
  PROVE  Good(Append(ws, w), p, r, al, ev, done \union more, k + 1)
<1> DEFINE new == Append(ws, w)
           n == Len(ws)
<1>1. w \in Widgets /\ ws \in Seq(Widgets)
  BY DEF Fits, Good
<1>2. /\ new \in Seq(Widgets) /\ DOMAIN new = 1 .. n + 1 /\ DOMAIN ws = 1 .. n /\ n \in Nat
      /\ \A i \in 1 .. n : new[i] = ws[i]
      /\ new[n + 1] = w
  BY <1>1, AppendProperties, LenProperties
<1> HIDE DEF new, n
<1>3. Truthful(new, p, ev)
  <2> SUFFICES ASSUME NEW i \in DOMAIN new, NEW e \in new[i].data
               PROVE  /\ KnownElement(new[i].type, e)
                      /\ e.asset.project = p /\ <<e.asset, "asset">> \in ev
                      /\ e.asset.type = "device" => <<e.asset, e.attribute>> \in ev
    BY DEF Truthful
  <2>1. CASE i = n + 1
    BY <1>2, <2>1 DEF Fits, Displays
  <2>2. CASE i \in 1 .. n
    <3>1. Truthful(ws, p, ev) /\ i \in DOMAIN ws /\ e \in ws[i].data
      BY <1>2, <2>2 DEF Good
    <3> QED
      BY <1>2, <2>2, <3>1 DEF Truthful
  <2> QED
    BY <1>2, <2>1, <2>2
<1>4. ASSUME NEW a, NEW x, OnIt(ws, a, x) PROVE OnIt(new, a, x)
  <2>1. PICK i \in 1 .. n : \E e \in ws[i].data : e.asset = a /\ e.attribute = x
    BY <1>2, <1>4 DEF OnIt
  <2>2. i \in DOMAIN new /\ new[i] = ws[i]
    BY <1>2
  <2> QED
    BY <2>1, <2>2 DEF OnIt
<1>5. ASSUME NEW a \in found, a.type \in DOMAIN ShownTypes
      PROVE  OnIt(new, a, ShownTypes[a.type])
  <2>1. \E e \in w.data : e.asset = a /\ e.attribute = ShownTypes[a.type]
    BY <1>5 DEF Fits, Displays
  <2>2. n + 1 \in DOMAIN new /\ new[n + 1] = w
    BY <1>2
  <2> QED
    BY <2>1, <2>2 DEF OnIt
<1>6. Complete(new, p, al, done \union more)
  BY <1>4, <1>5 DEF Complete, Good
<1>7. Single(new, done \union more)
  <2> SUFFICES ASSUME NEW i \in DOMAIN new, new[i].asset.type \in OwnWidget
               PROVE  /\ new[i].asset.type \in done
                      /\ \A j \in DOMAIN new : new[j].asset = new[i].asset => i = j
    BY DEF Single
  <2>1. w.asset.type \notin OwnWidget
    BY DEF OwnWidget
  <2>2. i \in 1 .. n /\ new[i] = ws[i]
    BY <1>2, <2>1
  <2>3. new[i].asset.type \in done /\ \A j \in 1 .. n : ws[j].asset = ws[i].asset => i = j
    BY <1>2, <2>2 DEF Good, Single
  <2> QED
    BY <1>2, <2>1, <2>2, <2>3
<1>8. Numbered(new)
  <2>1. w.sequence = (n + 1) - 1
    BY <1>2 DEF n
  <2> QED
    BY <1>2, <2>1 DEF Good, Numbered
<1>9. Cardinality({i \in DOMAIN new : new[i].asset = r}) = k + 1
  <2> DEFINE A == {i \in DOMAIN ws : ws[i].asset = r}
             B == {i \in DOMAIN new : new[i].asset = r}
  <2>1. B = A \union {n + 1} /\ n + 1 \notin A
    BY <1>2
  <2>2. IsFiniteSet(A)
    <3>1. IsFiniteSet(1 .. n)
      BY <1>2, FS_Interval
    <3>2. A \in SUBSET (1 .. n)
      BY <1>2
    <3> QED
      BY <3>1, <3>2, FS_Subset
  <2>3. Cardinality(A) = k
    BY DEF Good
  <2> HIDE DEF A, B
  <2>4. Cardinality(B) = k + 1
    BY <2>1, <2>2, <2>3, FS_AddElement
  <2> QED
    BY <2>4 DEF B
<1>10. Good(new, p, r, al, ev, done \union more, k + 1)
  BY <1>2, <1>3, <1>6, <1>7, <1>8, <1>9 DEF Good
<1> QED
  BY <1>10 DEF new

\* found are the assets of a type that a fetch may return: assets of the project p that
\* were there at some time, among them all that were there throughout.
FoundNow(found, type, p, al, ev) ==
  /\ found \subseteq OfType(type)
  /\ \A a \in found : a.project = p /\ <<a, "asset">> \in ev
  /\ \A a \in OfType(type) : <<a, "asset">> \in al /\ a.project = p => a \in found

\* own has one widget for each asset found, numbered from n on where the type's are.
OneEach(own, found, n, type) ==
  /\ own \in Seq(Widgets)
  /\ \A i \in DOMAIN own :
       /\ own[i].asset \in found /\ Fits(own[i], {own[i].asset})
       /\ own[i].sequence = n + i - 1 \/ type \in ConstantPlace
  /\ \A i, j \in DOMAIN own : own[i].asset = own[j].asset => i = j
  /\ \A a \in found : \E i \in DOMAIN own : own[i].asset = a

\* A widget for each asset of a type.
LEMMA AppendOwn ==
  ASSUME NEW ws, NEW p, NEW r, NEW al, NEW ev, NEW done, NEW k,
         Good(ws, p, r, al, ev, done, k), r.type = "root",
         NEW type \in OwnWidget, type \notin done,
         NEW found, FoundNow(found, type, p, al, ev),
         NEW own, OneEach(own, found, Len(ws), type)
  PROVE  Good(ws \o own, p, r, al, ev, done \union {type}, k)
<1> DEFINE new == ws \o own
           n == Len(ws)
           m == Len(own)
<1>a. own \in Seq(Widgets) /\ m \in Nat /\ DOMAIN own = 1 .. m
  BY LenProperties DEF OneEach
<1>1. ws \in Seq(Widgets)
  BY DEF Good
<1>2. /\ new \in Seq(Widgets) /\ DOMAIN new = 1 .. n + m /\ DOMAIN ws = 1 .. n /\ n \in Nat
      /\ \A i \in 1 .. n : new[i] = ws[i]
      /\ \A i \in 1 .. m : new[n + i] = own[i]
  <2>1. new \in Seq(Widgets) /\ Len(new) = n + m
    BY <1>a, <1>1, ConcatProperties
  <2>2. n \in Nat /\ DOMAIN ws = 1 .. n
    BY <1>1, LenProperties
  <2>3. DOMAIN new = 1 .. n + m
    BY <2>1, LenProperties
  <2>4. \A i \in 1 .. n + m : new[i] = IF i <= n THEN ws[i] ELSE own[i - n]
    BY <1>a, <1>1, ConcatProperties
  <2> HIDE DEF new, n, m
  <2>5. \A i \in 1 .. m : n + i \in 1 .. n + m /\ ~ (n + i <= n) /\ (n + i) - n = i
    BY <1>a, <2>2
  <2>6. \A i \in 1 .. m : new[n + i] = own[i]
    BY <2>4, <2>5
  <2>7. \A i \in 1 .. n : i \in 1 .. n + m /\ i <= n
    BY <1>a, <2>2
  <2>8. \A i \in 1 .. n : new[i] = ws[i]
    BY <2>4, <2>7
  <2> QED
    BY <2>1, <2>2, <2>3, <2>6, <2>8
<1>3. ASSUME NEW i \in DOMAIN new
      PROVE  \/ i \in 1 .. n /\ new[i] = ws[i]
             \/ \E j \in 1 .. m : i = n + j /\ new[i] = own[j]
  <2>1. CASE i \in 1 .. n
    BY <1>2, <2>1
  <2>2. CASE i \notin 1 .. n
    <3>1. i - n \in 1 .. m /\ i = n + (i - n)
      BY <1>2, <1>a, <2>2
    <3> QED
      BY <1>2, <3>1
  <2> QED
    BY <2>1, <2>2
<1>4. ASSUME NEW j \in 1 .. m
      PROVE  /\ own[j].asset \in found
             /\ own[j].asset.type = type /\ own[j].asset \in Assets
             /\ \A e \in own[j].data : e.asset = own[j].asset /\ KnownElement(own[j].type, e)
             /\ \E e \in own[j].data : e.asset = own[j].asset /\
                  (own[j].asset.type \in DOMAIN ShownTypes
                     => e.attribute = ShownTypes[own[j].asset.type])
             /\ own[j].sequence = n + j - 1 \/ type \in ConstantPlace
             /\ \A h \in 1 .. m : own[h].asset = own[j].asset => h = j
  BY <1>a DEF Fits, Displays, OfType, OneEach, FoundNow
<1>b. /\ \A a \in found : a.project = p /\ <<a, "asset">> \in ev
      /\ \A a \in OfType(type) : <<a, "asset">> \in al /\ a.project = p => a \in found
      /\ \A a \in found : \E i \in 1 .. m : own[i].asset = a
  BY <1>a DEF OneEach, FoundNow
<1> HIDE DEF new, n, m
<1>5. type # "device" /\ type # "root"
  BY DEF OwnWidget
<1>6. Truthful(new, p, ev)
  <2> SUFFICES ASSUME NEW i \in DOMAIN new, NEW e \in new[i].data
               PROVE  /\ KnownElement(new[i].type, e)
                      /\ e.asset.project = p /\ <<e.asset, "asset">> \in ev
                      /\ e.asset.type = "device" => <<e.asset, e.attribute>> \in ev
    BY DEF Truthful
  <2>1. CASE i \in 1 .. n /\ new[i] = ws[i]
    <3>1. Truthful(ws, p, ev) /\ i \in DOMAIN ws /\ e \in ws[i].data
      BY <1>2, <2>1 DEF Good
    <3> QED
      BY <2>1, <3>1 DEF Truthful
  <2>2. CASE \E j \in 1 .. m : i = n + j /\ new[i] = own[j]
    BY <1>4, <1>5, <1>b, <2>2
  <2> QED
    BY <1>3, <2>1, <2>2
<1>7. ASSUME NEW a, NEW x, OnIt(ws, a, x) PROVE OnIt(new, a, x)
  <2>1. PICK i \in 1 .. n : \E e \in ws[i].data : e.asset = a /\ e.attribute = x
    BY <1>2, <1>7 DEF OnIt
  <2>2. i \in DOMAIN new /\ new[i] = ws[i]
    BY <1>a, <1>2
  <2> QED
    BY <2>1, <2>2 DEF OnIt
<1>8. ASSUME NEW a \in found, a.type \in DOMAIN ShownTypes
      PROVE  OnIt(new, a, ShownTypes[a.type])
  <2>1. PICK j \in 1 .. m : own[j].asset = a
    BY <1>b
  <2>2. \E e \in own[j].data : e.asset = a /\ e.attribute = ShownTypes[a.type]
    BY <1>4, <1>8, <2>1
  <2>3. n + j \in DOMAIN new /\ new[n + j] = own[j]
    BY <1>2, <1>a
  <2> QED
    BY <2>2, <2>3 DEF OnIt
<1>9. Complete(new, p, al, done \union {type})
  <2> SUFFICES ASSUME NEW a \in Assets, <<a, "asset">> \in al, a.project = p,
                      a.type \in done \union {type}
               PROVE  OnIt(new, a, ShownTypes[a.type])
    BY DEF Complete
  <2>1. CASE a.type \in done
    BY <1>7, <2>1 DEF Good, Complete
  <2>2. CASE a.type = type
    <3>1. a \in found
      BY <1>b, <2>2 DEF OfType
    <3>2. a.type \in DOMAIN ShownTypes
      BY <2>2 DEF OwnWidget, ShownTypes
    <3> QED
      BY <1>8, <3>1, <3>2
  <2> QED
    BY <2>1, <2>2
<1>10. Single(new, done \union {type})
  <2> SUFFICES ASSUME NEW i \in DOMAIN new, new[i].asset.type \in OwnWidget
               PROVE  /\ new[i].asset.type \in done \union {type}
                      /\ \A j \in DOMAIN new : new[j].asset = new[i].asset => i = j
    BY DEF Single
  <2>1. CASE i \in 1 .. n /\ new[i] = ws[i]
    <3>1. new[i].asset.type \in done /\ \A j \in 1 .. n : ws[j].asset = ws[i].asset => i = j
      BY <1>2, <2>1 DEF Good, Single
    <3>2. ASSUME NEW j \in DOMAIN new, new[j].asset = new[i].asset PROVE i = j
      <4>1. ~ \E l \in 1 .. m : j = n + l /\ new[j] = own[l]
        BY <1>4, <3>1, <3>2
      <4> QED
        BY <1>3, <2>1, <3>1, <3>2, <4>1
    <3> QED
      BY <3>1, <3>2
  <2>2. ASSUME NEW l \in 1 .. m, i = n + l, new[i] = own[l]
        PROVE  /\ new[i].asset.type \in done \union {type}
               /\ \A j \in DOMAIN new : new[j].asset = new[i].asset => i = j
    <3>1. new[i].asset = own[l].asset /\ new[i].asset.type = type
      BY <1>4, <2>2
    <3>2. ASSUME NEW j \in DOMAIN new, new[j].asset = new[i].asset PROVE i = j
      <4>1. CASE j \in 1 .. n /\ new[j] = ws[j]
        <5>1. ws[j].asset.type = type /\ j \in DOMAIN ws /\ Single(ws, done)
          BY <1>2, <3>1, <3>2, <4>1 DEF Good
        <5> QED
          BY <5>1 DEF Single
      <4>2. ASSUME NEW h \in 1 .. m, j = n + h, new[j] = own[h] PROVE i = j
        BY <1>4, <2>2, <3>1, <3>2, <4>2
      <4> QED
        BY <1>3, <4>1, <4>2
    <3> QED
      BY <3>1, <3>2
  <2> QED
    BY <1>3, <2>1, <2>2
<1>11. Numbered(new)
  <2> SUFFICES ASSUME NEW i \in DOMAIN new
               PROVE  new[i].sequence = i - 1 \/ new[i].asset.type \in ConstantPlace
    BY DEF Numbered
  <2>1. CASE i \in 1 .. n /\ new[i] = ws[i]
    BY <1>2, <2>1 DEF Good, Numbered
  <2>2. ASSUME NEW j \in 1 .. m, i = n + j, new[i] = own[j]
        PROVE  new[i].sequence = i - 1 \/ new[i].asset.type \in ConstantPlace
    <3>1. own[j].asset.type = type /\ (own[j].sequence = n + j - 1 \/ type \in ConstantPlace)
      BY <1>4
    <3>2. own[j].sequence = n + j - 1 => own[j].sequence = i - 1
      BY <1>2, <2>2
    <3> QED
      BY <2>2, <3>1, <3>2
  <2> QED
    BY <1>3, <2>1, <2>2
<1>12. {i \in DOMAIN new : new[i].asset = r} = {i \in DOMAIN ws : ws[i].asset = r}
  <2>1. ASSUME NEW i \in DOMAIN new, new[i].asset = r PROVE i \in 1 .. n /\ new[i] = ws[i]
    BY <1>3, <1>4, <1>5, <2>1
  <2>2. \A i \in 1 .. n : i \in DOMAIN new /\ new[i] = ws[i]
    BY <1>a, <1>2
  <2> QED
    BY <1>2, <2>1, <2>2
<1>13. Cardinality({i \in DOMAIN new : new[i].asset = r}) = k
  BY <1>12 DEF Good
<1>14. Good(new, p, r, al, ev, done \union {type}, k)
  BY <1>2, <1>6, <1>9, <1>10, <1>11, <1>13 DEF Good
<1> QED
  BY <1>14 DEF new

-----------------------------------------------------------------------------
(* What a fetch finds *)

\* An asset is seen when it exists.
LEMMA SeenAsset ==
  ASSUME NEW e \in SUBSET Assets, NEW s \in [Devices -> SUBSET StatusAttributes], NEW a
  PROVE  <<a, "asset">> \in Seen(e, s) <=> a \in e
BY DEF Seen, StatusAttributes

\* A status is seen when its device exists and reports it.
LEMMA SeenStatus ==
  ASSUME NEW e \in SUBSET Assets, NEW s \in [Devices -> SUBSET StatusAttributes], NEW d,
         NEW x \in StatusAttributes
  PROVE  <<d, x>> \in Seen(e, s) <=> d \in Devices \intersect e /\ x \in s[d]
BY DEF Seen, StatusAttributes

\* Only assets and the status of devices are seen.
LEMMA SeenForm ==
  ASSUME NEW e \in SUBSET Assets, NEW s \in [Devices -> SUBSET StatusAttributes],
         NEW y \in Seen(e, s)
  PROVE  \/ y[1] \in Assets /\ y[2] = "asset" /\ y = <<y[1], "asset">>
         \/ y[1] \in Devices /\ y[2] \in StatusAttributes /\ y = <<y[1], y[2]>>
BY DEF Seen, Devices

\* GetAssets returns assets of the project that exist now: all that were always there,
\* and none that never was.
LEMMA Found ==
  ASSUME TypeInv, SeenInv, NEW type
  PROVE  /\ FoundNow(GetAssets(type), type, project, always, ever)
         /\ IsFiniteSet(GetAssets(type))
<1>1. GetAssets(type) \in SUBSET OfType(type) /\ GetAssets(type) \in SUBSET Assets
  BY DEF GetAssets, OfType, TypeInv
<1>2. IsFiniteSet(GetAssets(type))
  BY <1>1, FS_Subset, DashboardAssumption
<1>3. \A a : <<a, "asset">> \in Seen(exists, status) <=> a \in exists
  BY SeenAsset DEF TypeInv
<1>4. \A a \in GetAssets(type) : a.project = project /\ <<a, "asset">> \in ever
  BY <1>3 DEF GetAssets, SeenInv
<1>5. \A a \in OfType(type) :
        <<a, "asset">> \in always /\ a.project = project => a \in GetAssets(type)
  BY <1>3 DEF GetAssets, OfType, SeenInv
<1> QED
  BY <1>1, <1>2, <1>4, <1>5 DEF FoundNow

\* The dashboard with a widget for each asset of a type.
LEMMA OwnSection ==
  ASSUME IInv, Delivering, root.type = "root",
         NEW type \in OwnWidget, type \notin Before[at],
         NEW own, DOMAIN own = DOMAIN SetToSeq(GetAssets(type)),
         own = [i \in DOMAIN own |-> own[i]],
         \A i \in DOMAIN own :
           LET a == SetToSeq(GetAssets(type))[i] IN
           /\ Fits(own[i], {a}) /\ own[i].asset = a
           /\ own[i].sequence = widgetSequence + i - 1 \/ type \in ConstantPlace
  PROVE  /\ Good(widgets \o own, project, root, always, ever, Before[at] \union {type},
                 RootWidgets[at])
         /\ Len(widgets \o own) = widgetSequence + Len(own)
<1> DEFINE found == GetAssets(type)
           seq == SetToSeq(found)
           m == Len(seq)
           done == Before[at]
           k == RootWidgets[at]
<1>1. TypeInv /\ SeenInv /\ BuiltInv
  BY DEF IInv
<1>2. FoundNow(found, type, project, always, ever) /\ IsFiniteSet(found)
  BY <1>1, Found
<1>3. /\ seq \in Seq(found) /\ seq \in [1 .. m -> found]
      /\ \A i, j \in 1 .. m : seq[i] = seq[j] => i = j
      /\ \A a \in found : \E i \in 1 .. m : seq[i] = a
  BY <1>2, SetToSeqLists
<1>4. m \in Nat /\ DOMAIN seq = 1 .. m
  BY <1>3, LenProperties
<1> HIDE DEF found, seq, m
<1>5. DOMAIN own = 1 .. m
  BY <1>4 DEF found, seq
<1>6. \A i \in 1 .. m : own[i] \in Widgets
  BY <1>5 DEF Fits
<1>7. own \in Seq(Widgets) /\ Len(own) = m
  <2>1. own \in [1 .. m -> Widgets]
    BY <1>5, <1>6
  <2>2. own \in Seq(Widgets)
    BY <1>4, <2>1, SeqDef
  <2>3. DOMAIN own = 1 .. Len(own) /\ Len(own) \in Nat
    BY <2>2, LenProperties
  <2> QED
    BY <1>4, <1>5, <2>2, <2>3
<1>8. /\ widgetSequence = Len(widgets)
      /\ Good(widgets, project, root, always, ever, done, k)
  BY <1>1 DEF BuiltInv
<1>9. OneEach(own, found, Len(widgets), type)
  <2>1. \A i \in 1 .. m :
          /\ Fits(own[i], {seq[i]}) /\ own[i].asset = seq[i]
          /\ own[i].sequence = Len(widgets) + i - 1 \/ type \in ConstantPlace
    BY <1>5, <1>8 DEF seq, found
  <2>2. \A i \in 1 .. m : seq[i] \in found /\ own[i].asset = seq[i]
    BY <1>3, <2>1
  <2>3. \A i \in DOMAIN own :
          /\ own[i].asset \in found /\ Fits(own[i], {own[i].asset})
          /\ own[i].sequence = Len(widgets) + i - 1 \/ type \in ConstantPlace
    BY <1>5, <2>1, <2>2
  <2>4. \A i, j \in DOMAIN own : own[i].asset = own[j].asset => i = j
    BY <1>3, <1>5, <2>2
  <2>5. \A a \in found : \E i \in DOMAIN own : own[i].asset = a
    BY <1>3, <1>5, <2>2
  <2> QED
    BY <1>7, <2>3, <2>4, <2>5 DEF OneEach
<1>10. type \notin done
  OBVIOUS
<1> HIDE DEF done, k
<1>11. Good(widgets \o own, project, root, always, ever, done \union {type}, k)
  BY <1>2, <1>8, <1>9, <1>10, AppendOwn
<1>12. Len(widgets \o own) = Len(widgets) + Len(own)
  <2>1. widgets \in Seq(Widgets)
    BY <1>1 DEF TypeInv
  <2> QED
    BY <1>7, <2>1, ConcatProperties
<1> QED
  BY <1>8, <1>11, <1>12 DEF done, k

\* The dashboard with one more widget of the root.
LEMMA RootSection ==
  ASSUME IInv, Delivering, root \in Assets, root.type = "root",
         NEW type \in DOMAIN ShownTypes, RootWidgets[at] \in Nat,
         NEW w, Fits(w, GetAssets(type)), w.asset = root, w.sequence = widgetSequence,
         type # "device"
  PROVE  /\ Good(Append(widgets, w), project, root, always, ever, Before[at] \union {type},
                 RootWidgets[at] + 1)
         /\ Len(Append(widgets, w)) = widgetSequence + 1
         /\ Append(widgets, w) = widgets \o <<w>>
<1> DEFINE found == GetAssets(type)
<1>1. TypeInv /\ SeenInv /\ BuiltInv
  BY DEF IInv
<1>2. /\ found \in SUBSET OfType(type)
      /\ \A a \in found : a.project = project /\ <<a, "asset">> \in ever
      /\ \A a \in OfType(type) : <<a, "asset">> \in always /\ a.project = project => a \in found
  BY <1>1, Found DEF FoundNow
<1> HIDE DEF found
<1>3. /\ widgetSequence = Len(widgets)
      /\ Good(widgets, project, root, always, ever, Before[at], RootWidgets[at])
  BY <1>1 DEF BuiltInv
<1>4. Fits(w, found) /\ w.sequence = Len(widgets) /\ w \in Widgets
  BY <1>3 DEF found, Fits
<1>5. \A e \in w.data : /\ e.asset.project = project /\ <<e.asset, "asset">> \in ever
                        /\ e.asset.type = "device" => <<e.asset, e.attribute>> \in ever
  <2>1. \A e \in w.data : e.asset \in found
    BY <1>4 DEF Fits, Displays
  <2> QED
    BY <1>2, <2>1 DEF OfType
<1>6. \A a \in Assets : <<a, "asset">> \in always /\ a.project = project /\ a.type \in {type}
                            => a \in found
  BY <1>2 DEF OfType
<1>7. {type} \in SUBSET DOMAIN ShownTypes
  OBVIOUS
<1>8. Good(Append(widgets, w), project, root, always, ever, Before[at] \union {type},
           RootWidgets[at] + 1)
  BY <1>3, <1>4, <1>5, <1>6, <1>7, AppendRoot
<1>9. /\ Len(Append(widgets, w)) = Len(widgets) + 1
      /\ Append(widgets, w) = widgets \o <<w>>
  BY <1>1, <1>4, AppendProperties, AppendIsConcat DEF TypeInv
<1> QED
  BY <1>3, <1>8, <1>9

-----------------------------------------------------------------------------
(* The steps *)

\* What each section adds to the types that are fetched and to the root's widgets.
LEMMA SectionsAdd ==
  /\ Before["root"] = {} /\ RootWidgets["root"] = 0
  /\ Before["switches"] = {} /\ RootWidgets["switches"] = 0
  /\ Before["dimmers"] = Before["switches"] \union {"switch_sensor"}
  /\ Before["hueLights"] = Before["dimmers"] \union {"dimmer_sensor"}
  /\ Before["movementSensors"] = Before["hueLights"] \union {"hue_actuator"}
  /\ Before["rtcs"] = Before["movementSensors"] \union {"movement_sensor"}
  /\ Before["thermostats"] = Before["rtcs"] \union {"room_temperature_controller"}
  /\ Before["windowSensors"] = Before["thermostats"] \union {"radiator_thermostat"}
  /\ Before["doorSensors"] = Before["windowSensors"] \union {"window_sensor"}
  /\ Before["devices"] = Before["doorSensors"] \union {"door_sensor"}
  /\ Before["deviceData"] = Before["devices"]
  /\ Before["scenes"] = Before["deviceData"] \union {"system"}
  /\ Before["idle"] = Before["scenes"] \union {"scene"}
<1>1. /\ Before["root"] = {} /\ RootWidgets["root"] = 0
      /\ Before["switches"] = {} /\ RootWidgets["switches"] = 0
  BY DEF Before, RootWidgets, Sections
<1>2. /\ Before["dimmers"] = Before["switches"] \union {"switch_sensor"}
      /\ Before["hueLights"] = Before["dimmers"] \union {"dimmer_sensor"}
      /\ Before["movementSensors"] = Before["hueLights"] \union {"hue_actuator"}
      /\ Before["rtcs"] = Before["movementSensors"] \union {"movement_sensor"}
      /\ Before["thermostats"] = Before["rtcs"] \union {"room_temperature_controller"}
      /\ Before["windowSensors"] = Before["thermostats"] \union {"radiator_thermostat"}
  BY DEF Before, Lists
<1>3. /\ Before["doorSensors"] = Before["windowSensors"] \union {"window_sensor"}
      /\ Before["devices"] = Before["doorSensors"] \union {"door_sensor"}
      /\ Before["deviceData"] = Before["devices"]
      /\ Before["scenes"] = Before["deviceData"] \union {"system"}
      /\ Before["idle"] = Before["scenes"] \union {"scene"}
  BY DEF Before, Lists, OwnWidget, ShownTypes
<1> QED
  BY <1>1, <1>2, <1>3

\* The types that have their own widget are not fetched twice.
LEMMA SectionsOnce ==
  /\ "hue_actuator" \notin Before["hueLights"]
  /\ "movement_sensor" \notin Before["movementSensors"]
  /\ "room_temperature_controller" \notin Before["rtcs"]
  /\ "radiator_thermostat" \notin Before["thermostats"]
  /\ "window_sensor" \notin Before["windowSensors"]
  /\ "door_sensor" \notin Before["doorSensors"]
BY DEF Before, Lists, OwnWidget

\* The root has two widgets from the lists of switches and dimmers to the devices' data.
LEMMA RootCounts ==
  /\ RootWidgets["dimmers"] = 1 /\ RootWidgets["scenes"] = 5 /\ RootWidgets["idle"] = 6
  /\ \A s \in Sections \ {"root", "switches", "dimmers", "scenes"} : RootWidgets[s] = 2
BY DEF RootWidgets, Sections

\* An empty dashboard is good before anything is fetched.
LEMMA EmptyGood ==
  ASSUME NEW p, NEW r, NEW al, NEW ev
  PROVE  Good(<< >>, p, r, al, ev, {}, 0)
<1>1. << >> \in Seq(Widgets) /\ DOMAIN << >> = {}
  OBVIOUS
<1>2. \A r2 : {i \in DOMAIN << >> : << >>[i].asset = r2} = {}
  BY <1>1
<1>3. Cardinality({}) = 0
  BY FS_EmptySet
<1> QED
  BY <1>1, <1>2, <1>3 DEF Good, Truthful, Complete, Single, Numbered

\* The sections that list assets go on to the next one with a dashboard that is good then.
LEMMA SectionStep ==
  ASSUME IInv, at # "idle", NEW section \in Sections \ {"root", "deviceData", "scenes"},
         Continue(section), UNCHANGED <<lists, response>>,
         root' \in Assets, root'.type = "root", widgetSequence' = Len(widgets'),
         Good(widgets', project, root', always, ever, Before[section], RootWidgets[section])
  PROVE  IInv'
<1> USE DEF Continue, eliona, lists
<1>1. section # "idle"
  BY DEF Sections
<1>2. TypeInv'
  <2>1. widgets' \in Seq(Widgets)
    BY DEF Good
  <2>2. widgetSequence' \in Nat
    BY <2>1, LenProperties
  <2> QED
    BY <2>1, <2>2 DEF IInv, TypeInv
<1>3. RootInv'
  BY <1>1 DEF IInv, RootInv, Delivering
<1>4. SeenInv'
  BY DEF IInv, SeenInv
<1>5. BuiltInv'
  BY DEF BuiltInv
<1>6. FoundInv'
  BY DEF IInv, FoundInv
<1>7. ListedInv'
  BY <1>1 DEF IInv, RootInv, ListedInv
<1> QED
  BY <1>2, <1>3, <1>4, <1>5, <1>6, <1>7 DEF IInv

\* A section that adds a widget for each asset of a type.
LEMMA OwnStep ==
  ASSUME IInv, at \notin {"root", "idle"},
         NEW section \in Sections \ {"root", "deviceData", "scenes"},
         NEW type \in OwnWidget, type \notin Before[at],
         Before[section] = Before[at] \union {type}, RootWidgets[section] = RootWidgets[at],
         NEW own, DOMAIN own = DOMAIN SetToSeq(GetAssets(type)),
         own = [i \in DOMAIN own |-> own[i]],
         \A i \in DOMAIN own :
           LET a == SetToSeq(GetAssets(type))[i] IN
           /\ Fits(own[i], {a}) /\ own[i].asset = a
           /\ own[i].sequence = widgetSequence + i - 1 \/ type \in ConstantPlace,
         Continue(section), Add(own), UNCHANGED lists
  PROVE  IInv'
<1>1. Delivering /\ root \in Assets /\ root.type = "root"
  BY DEF IInv, RootInv, Delivering
<1>2. /\ Good(widgets \o own, project, root, always, ever, Before[at] \union {type},
              RootWidgets[at])
      /\ Len(widgets \o own) = widgetSequence + Len(own)
  BY <1>1, OwnSection
<1>3. /\ widgets' = widgets \o own /\ widgetSequence' = widgetSequence + Len(own)
      /\ UNCHANGED <<root, response>>
  BY DEF Add
<1>4. Good(widgets', project, root', always, ever, Before[section], RootWidgets[section])
  BY <1>2, <1>3
<1> QED
  BY <1>1, <1>2, <1>3, <1>4, SectionStep

\* A section that adds one widget of the root.
LEMMA RootStep ==
  ASSUME IInv, at \notin {"root", "idle"},
         NEW section \in Sections \ {"root", "deviceData", "scenes"},
         NEW type \in DOMAIN ShownTypes, type # "device",
         Before[section] = Before[at] \union {type},
         RootWidgets[at] \in Nat, RootWidgets[section] = RootWidgets[at] + 1,
         NEW w, Fits(w, GetAssets(type)), w.asset = root, w.sequence = widgetSequence,
         Continue(section), Add(<<w>>), UNCHANGED lists
  PROVE  IInv'
<1>1. Delivering /\ root \in Assets /\ root.type = "root"
  BY DEF IInv, RootInv, Delivering
<1>2. /\ Good(Append(widgets, w), project, root, always, ever, Before[at] \union {type},
              RootWidgets[at] + 1)
      /\ Len(Append(widgets, w)) = widgetSequence + 1
      /\ Append(widgets, w) = widgets \o <<w>>
  BY <1>1, RootSection
<1>3. /\ widgets' = widgets \o <<w>> /\ widgetSequence' = widgetSequence + 1
      /\ UNCHANGED <<root, response>>
  BY DEF Add
<1>4. Good(widgets', project, root', always, ever, Before[section], RootWidgets[section])
  BY <1>2, <1>3
<1> QED
  BY <1>1, <1>2, <1>3, <1>4, SectionStep

\* The widget of the switches is the first of the root.
LEMMA FetchSwitchesStep ==
  ASSUME IInv, FetchSwitches PROVE IInv'
<1> DEFINE type == "switch_sensor"
           w == SwitchList(GetAssets(type), widgetSequence)
           section == "dimmers"
<1>1. at = "switches" /\ Continue(section) /\ Add(<<w>>) /\ UNCHANGED lists
  BY DEF FetchSwitches
<1>2. Delivering /\ root \in Assets /\ root.type = "root" /\ widgetSequence \in Nat
  BY <1>1 DEF IInv, RootInv, TypeInv, Delivering
<1>3. GetAssets(type) \in SUBSET OfType(type)
  BY Found DEF IInv, FoundNow
<1>4. Fits(w, GetAssets(type)) /\ w.asset = root /\ w.sequence = widgetSequence
  BY <1>2, <1>3, SwitchListFits
<1>5. type \in DOMAIN ShownTypes /\ type # "device"
  BY DEF ShownTypes
<1>6. /\ Before[section] = Before[at] \union {type}
      /\ RootWidgets[at] \in Nat /\ RootWidgets[section] = RootWidgets[at] + 1
  BY <1>1, SectionsAdd, RootCounts DEF Sections
<1>7. at \notin {"root", "idle"} /\ section \in Sections \ {"root", "deviceData", "scenes"}
  BY <1>1 DEF Sections
<1> HIDE DEF type, w, section
<1> QED
  BY <1>1, <1>4, <1>5, <1>6, <1>7, RootStep

\* The widget of the dimmers is the second of the root.
LEMMA FetchDimmersStep ==
  ASSUME IInv, FetchDimmers PROVE IInv'
<1> DEFINE type == "dimmer_sensor"
           w == DimmerList(GetAssets(type), widgetSequence)
           section == "hueLights"
<1>1. at = "dimmers" /\ Continue(section) /\ Add(<<w>>) /\ UNCHANGED lists
  BY DEF FetchDimmers
<1>2. Delivering /\ root \in Assets /\ root.type = "root" /\ widgetSequence \in Nat
  BY <1>1 DEF IInv, RootInv, TypeInv, Delivering
<1>3. GetAssets(type) \in SUBSET OfType(type)
  BY Found DEF IInv, FoundNow
<1>4. Fits(w, GetAssets(type)) /\ w.asset = root /\ w.sequence = widgetSequence
  BY <1>2, <1>3, DimmerListFits
<1>5. type \in DOMAIN ShownTypes /\ type # "device"
  BY DEF ShownTypes
<1>6. /\ Before[section] = Before[at] \union {type}
      /\ RootWidgets[at] \in Nat /\ RootWidgets[section] = RootWidgets[at] + 1
  BY <1>1, SectionsAdd, RootCounts DEF Sections
<1>7. at \notin {"root", "idle"} /\ section \in Sections \ {"root", "deviceData", "scenes"}
  BY <1>1 DEF Sections
<1> HIDE DEF type, w, section
<1> QED
  BY <1>1, <1>4, <1>5, <1>6, <1>7, RootStep

\* Each hue light gets its widget, numbered in turn.
LEMMA FetchHueLightsStep ==
  ASSUME IInv, FetchHueLights PROVE IInv'
<1> DEFINE type == "hue_actuator"
           found == GetAssets(type)
           seq == SetToSeq(found)
           own == [i \in DOMAIN seq |-> PhilipsHue(seq[i], widgetSequence + i - 1)]
           section == "movementSensors"
<1>1. at = "hueLights" /\ Continue(section) /\ Add(own) /\ UNCHANGED lists
  BY DEF FetchHueLights
<1>2. widgetSequence \in Nat
  BY DEF IInv, TypeInv
<1>3. /\ DOMAIN seq \subseteq Nat \ {0}
      /\ \A i \in DOMAIN seq : seq[i] \in OfType(type)
  <2>1. found \in SUBSET OfType(type) /\ IsFiniteSet(found)
    BY Found DEF IInv, FoundNow
  <2> HIDE DEF found
  <2>2. seq \in Seq(found)
    BY <2>1, SetToSeqLists
  <2> QED
    BY <2>1, <2>2, LenProperties
<1> HIDE DEF found, seq
<1>4. /\ DOMAIN own = DOMAIN seq
      /\ own = [i \in DOMAIN own |-> own[i]]
      /\ \A i \in DOMAIN own :
           /\ Fits(own[i], {seq[i]}) /\ own[i].asset = seq[i]
           /\ own[i].sequence = widgetSequence + i - 1 \/ type \in ConstantPlace
  <2> SUFFICES ASSUME NEW i \in DOMAIN seq
               PROVE  /\ Fits(own[i], {seq[i]}) /\ own[i].asset = seq[i]
                      /\ own[i].sequence = widgetSequence + i - 1 \/ type \in ConstantPlace
    OBVIOUS
  <2> DEFINE n == widgetSequence + i - 1
             w == own[i]
  <2>1. w = PhilipsHue(seq[i], n) /\ n \in Nat
    BY <1>2, <1>3
  <2> HIDE DEF n, w
  <2>2. Fits(w, {seq[i]}) /\ w.asset = seq[i] /\ w.sequence = n
    BY <1>3, <2>1, PhilipsHueFits
  <2> QED
    BY <2>2 DEF n, w
<1>5. type \in OwnWidget /\ type \notin Before[at]
  BY <1>1, SectionsOnce DEF OwnWidget
<1>6. Before[section] = Before[at] \union {type} /\ RootWidgets[section] = RootWidgets[at]
  BY <1>1, SectionsAdd, RootCounts DEF Sections
<1>7. at \notin {"root", "idle"} /\ section \in Sections \ {"root", "deviceData", "scenes"}
  BY <1>1 DEF Sections
<1> HIDE DEF type, own, section
<1> QED
  BY <1>1, <1>4, <1>5, <1>6, <1>7, OwnStep DEF seq, found

\* Each movement sensor gets its widget, numbered in turn.
LEMMA FetchMovementSensorsStep ==
  ASSUME IInv, FetchMovementSensors PROVE IInv'
<1> DEFINE type == "movement_sensor"
           found == GetAssets(type)
           seq == SetToSeq(found)
           own == [i \in DOMAIN seq |-> MovementTrend(seq[i], widgetSequence + i - 1)]
           section == "rtcs"
<1>1. at = "movementSensors" /\ Continue(section) /\ Add(own) /\ UNCHANGED lists
  BY DEF FetchMovementSensors
<1>2. widgetSequence \in Nat
  BY DEF IInv, TypeInv
<1>3. /\ DOMAIN seq \subseteq Nat \ {0}
      /\ \A i \in DOMAIN seq : seq[i] \in OfType(type)
  <2>1. found \in SUBSET OfType(type) /\ IsFiniteSet(found)
    BY Found DEF IInv, FoundNow
  <2> HIDE DEF found
  <2>2. seq \in Seq(found)
    BY <2>1, SetToSeqLists
  <2> QED
    BY <2>1, <2>2, LenProperties
<1> HIDE DEF found, seq
<1>4. /\ DOMAIN own = DOMAIN seq
      /\ own = [i \in DOMAIN own |-> own[i]]
      /\ \A i \in DOMAIN own :
           /\ Fits(own[i], {seq[i]}) /\ own[i].asset = seq[i]
           /\ own[i].sequence = widgetSequence + i - 1 \/ type \in ConstantPlace
  <2> SUFFICES ASSUME NEW i \in DOMAIN seq
               PROVE  /\ Fits(own[i], {seq[i]}) /\ own[i].asset = seq[i]
                      /\ own[i].sequence = widgetSequence + i - 1 \/ type \in ConstantPlace
    OBVIOUS
  <2> DEFINE n == widgetSequence + i - 1
             w == own[i]
  <2>1. w = MovementTrend(seq[i], n) /\ n \in Nat
    BY <1>2, <1>3
  <2> HIDE DEF n, w
  <2>2. Fits(w, {seq[i]}) /\ w.asset = seq[i] /\ w.sequence = n
    BY <1>3, <2>1, MovementTrendFits
  <2> QED
    BY <2>2 DEF n, w
<1>5. type \in OwnWidget /\ type \notin Before[at]
  BY <1>1, SectionsOnce DEF OwnWidget
<1>6. Before[section] = Before[at] \union {type} /\ RootWidgets[section] = RootWidgets[at]
  BY <1>1, SectionsAdd, RootCounts DEF Sections
<1>7. at \notin {"root", "idle"} /\ section \in Sections \ {"root", "deviceData", "scenes"}
  BY <1>1 DEF Sections
<1> HIDE DEF type, own, section
<1> QED
  BY <1>1, <1>4, <1>5, <1>6, <1>7, OwnStep DEF seq, found

\* Each room temperature controller gets its widget, numbered in turn.
LEMMA FetchRtcsStep ==
  ASSUME IInv, FetchRtcs PROVE IInv'
<1> DEFINE type == "room_temperature_controller"
           found == GetAssets(type)
           seq == SetToSeq(found)
           own == [i \in DOMAIN seq |-> TemperatureRegulator(seq[i], widgetSequence + i - 1)]
           section == "thermostats"
<1>1. at = "rtcs" /\ Continue(section) /\ Add(own) /\ UNCHANGED lists
  BY DEF FetchRtcs
<1>2. widgetSequence \in Nat
  BY DEF IInv, TypeInv
<1>3. /\ DOMAIN seq \subseteq Nat \ {0}
      /\ \A i \in DOMAIN seq : seq[i] \in OfType(type)
  <2>1. found \in SUBSET OfType(type) /\ IsFiniteSet(found)
    BY Found DEF IInv, FoundNow
  <2> HIDE DEF found
  <2>2. seq \in Seq(found)
    BY <2>1, SetToSeqLists
  <2> QED
    BY <2>1, <2>2, LenProperties
<1> HIDE DEF found, seq
<1>4. /\ DOMAIN own = DOMAIN seq
      /\ own = [i \in DOMAIN own |-> own[i]]
      /\ \A i \in DOMAIN own :
           /\ Fits(own[i], {seq[i]}) /\ own[i].asset = seq[i]
           /\ own[i].sequence = widgetSequence + i - 1 \/ type \in ConstantPlace
  <2> SUFFICES ASSUME NEW i \in DOMAIN seq
               PROVE  /\ Fits(own[i], {seq[i]}) /\ own[i].asset = seq[i]
                      /\ own[i].sequence = widgetSequence + i - 1 \/ type \in ConstantPlace
    OBVIOUS
  <2> DEFINE n == widgetSequence + i - 1
             w == own[i]
  <2>1. w = TemperatureRegulator(seq[i], n) /\ n \in Nat
    BY <1>2, <1>3
  <2> HIDE DEF n, w
  <2>2. Fits(w, {seq[i]}) /\ w.asset = seq[i] /\ w.sequence = n
    BY <1>3, <2>1, TemperatureRegulatorFits DEF OfType
  <2> QED
    BY <2>2 DEF n, w
<1>5. type \in OwnWidget /\ type \notin Before[at]
  BY <1>1, SectionsOnce DEF OwnWidget
<1>6. Before[section] = Before[at] \union {type} /\ RootWidgets[section] = RootWidgets[at]
  BY <1>1, SectionsAdd, RootCounts DEF Sections
<1>7. at \notin {"root", "idle"} /\ section \in Sections \ {"root", "deviceData", "scenes"}
  BY <1>1 DEF Sections
<1> HIDE DEF type, own, section
<1> QED
  BY <1>1, <1>4, <1>5, <1>6, <1>7, OwnStep DEF seq, found

\* Each thermostat gets its widget, all in the same place.
LEMMA FetchThermostatsStep ==
  ASSUME IInv, FetchThermostats PROVE IInv'
<1> DEFINE type == "radiator_thermostat"
           found == GetAssets(type)
           seq == SetToSeq(found)
           own == [i \in DOMAIN seq |-> ThermostatRegulator(seq[i])]
           section == "windowSensors"
<1>1. at = "thermostats" /\ Continue(section) /\ Add(own) /\ UNCHANGED lists
  BY DEF FetchThermostats
<1>2. widgetSequence \in Nat
  BY DEF IInv, TypeInv
<1>3. /\ DOMAIN seq \subseteq Nat \ {0}
      /\ \A i \in DOMAIN seq : seq[i] \in OfType(type)
  <2>1. found \in SUBSET OfType(type) /\ IsFiniteSet(found)
    BY Found DEF IInv, FoundNow
  <2> HIDE DEF found
  <2>2. seq \in Seq(found)
    BY <2>1, SetToSeqLists
  <2> QED
    BY <2>1, <2>2, LenProperties
<1> HIDE DEF found, seq
<1>4. /\ DOMAIN own = DOMAIN seq
      /\ own = [i \in DOMAIN own |-> own[i]]
      /\ \A i \in DOMAIN own :
           /\ Fits(own[i], {seq[i]}) /\ own[i].asset = seq[i]
           /\ own[i].sequence = widgetSequence + i - 1 \/ type \in ConstantPlace
  <2> SUFFICES ASSUME NEW i \in DOMAIN seq
               PROVE  /\ Fits(own[i], {seq[i]}) /\ own[i].asset = seq[i]
                      /\ own[i].sequence = widgetSequence + i - 1 \/ type \in ConstantPlace
    OBVIOUS
  <2> DEFINE w == own[i]
  <2>1. w = ThermostatRegulator(seq[i])
    OBVIOUS
  <2> HIDE DEF w
  <2>2. Fits(w, {seq[i]}) /\ w.asset = seq[i]
    BY <1>3, <2>1, TemperatureRegulatorFits DEF OfType, ThermostatRegulator
  <2> QED
    BY <2>2 DEF w, ConstantPlace
<1>5. type \in OwnWidget /\ type \notin Before[at]
  BY <1>1, SectionsOnce DEF OwnWidget
<1>6. Before[section] = Before[at] \union {type} /\ RootWidgets[section] = RootWidgets[at]
  BY <1>1, SectionsAdd, RootCounts DEF Sections
<1>7. at \notin {"root", "idle"} /\ section \in Sections \ {"root", "deviceData", "scenes"}
  BY <1>1 DEF Sections
<1> HIDE DEF type, own, section
<1> QED
  BY <1>1, <1>4, <1>5, <1>6, <1>7, OwnStep DEF seq, found

\* Each window sensor gets its widget, all in the same place.
LEMMA FetchWindowSensorsStep ==
  ASSUME IInv, FetchWindowSensors PROVE IInv'
<1> DEFINE type == "window_sensor"
           found == GetAssets(type)
           seq == SetToSeq(found)
           own == [i \in DOMAIN seq |-> WindowSensor(seq[i])]
           section == "doorSensors"
<1>1. at = "windowSensors" /\ Continue(section) /\ Add(own) /\ UNCHANGED lists
  BY DEF FetchWindowSensors
<1>2. widgetSequence \in Nat
  BY DEF IInv, TypeInv
<1>3. /\ DOMAIN seq \subseteq Nat \ {0}
      /\ \A i \in DOMAIN seq : seq[i] \in OfType(type)
  <2>1. found \in SUBSET OfType(type) /\ IsFiniteSet(found)
    BY Found DEF IInv, FoundNow
  <2> HIDE DEF found
  <2>2. seq \in Seq(found)
    BY <2>1, SetToSeqLists
  <2> QED
    BY <2>1, <2>2, LenProperties
<1> HIDE DEF found, seq
<1>4. /\ DOMAIN own = DOMAIN seq
      /\ own = [i \in DOMAIN own |-> own[i]]
      /\ \A i \in DOMAIN own :
           /\ Fits(own[i], {seq[i]}) /\ own[i].asset = seq[i]
           /\ own[i].sequence = widgetSequence + i - 1 \/ type \in ConstantPlace
  <2> SUFFICES ASSUME NEW i \in DOMAIN seq
               PROVE  /\ Fits(own[i], {seq[i]}) /\ own[i].asset = seq[i]
                      /\ own[i].sequence = widgetSequence + i - 1 \/ type \in ConstantPlace
    OBVIOUS
  <2> DEFINE w == own[i]
  <2>1. w = WindowSensor(seq[i])
    OBVIOUS
  <2> HIDE DEF w
  <2>2. Fits(w, {seq[i]}) /\ w.asset = seq[i]
    BY <1>3, <2>1, WindowSensorFits
  <2> QED
    BY <2>2 DEF w, ConstantPlace
<1>5. type \in OwnWidget /\ type \notin Before[at]
  BY <1>1, SectionsOnce DEF OwnWidget
<1>6. Before[section] = Before[at] \union {type} /\ RootWidgets[section] = RootWidgets[at]
  BY <1>1, SectionsAdd, RootCounts DEF Sections
<1>7. at \notin {"root", "idle"} /\ section \in Sections \ {"root", "deviceData", "scenes"}
  BY <1>1 DEF Sections
<1> HIDE DEF type, own, section
<1> QED
  BY <1>1, <1>4, <1>5, <1>6, <1>7, OwnStep DEF seq, found

\* Each door sensor gets its widget, all in the same place.
LEMMA FetchDoorSensorsStep ==
  ASSUME IInv, FetchDoorSensors PROVE IInv'
<1> DEFINE type == "door_sensor"
           found == GetAssets(type)
           seq == SetToSeq(found)
           own == [i \in DOMAIN seq |-> DoorTrend(seq[i])]
           section == "devices"
<1>1. at = "doorSensors" /\ Continue(section) /\ Add(own) /\ UNCHANGED lists
  BY DEF FetchDoorSensors
<1>2. widgetSequence \in Nat
  BY DEF IInv, TypeInv
<1>3. /\ DOMAIN seq \subseteq Nat \ {0}
      /\ \A i \in DOMAIN seq : seq[i] \in OfType(type)
  <2>1. found \in SUBSET OfType(type) /\ IsFiniteSet(found)
    BY Found DEF IInv, FoundNow
  <2> HIDE DEF found
  <2>2. seq \in Seq(found)
    BY <2>1, SetToSeqLists
  <2> QED
    BY <2>1, <2>2, LenProperties
<1> HIDE DEF found, seq
<1>4. /\ DOMAIN own = DOMAIN seq
      /\ own = [i \in DOMAIN own |-> own[i]]
      /\ \A i \in DOMAIN own :
           /\ Fits(own[i], {seq[i]}) /\ own[i].asset = seq[i]
           /\ own[i].sequence = widgetSequence + i - 1 \/ type \in ConstantPlace
  <2> SUFFICES ASSUME NEW i \in DOMAIN seq
               PROVE  /\ Fits(own[i], {seq[i]}) /\ own[i].asset = seq[i]
                      /\ own[i].sequence = widgetSequence + i - 1 \/ type \in ConstantPlace
    OBVIOUS
  <2> DEFINE w == own[i]
  <2>1. w = DoorTrend(seq[i])
    OBVIOUS
  <2> HIDE DEF w
  <2>2. Fits(w, {seq[i]}) /\ w.asset = seq[i]
    BY <1>3, <2>1, DoorTrendFits
  <2> QED
    BY <2>2 DEF w, ConstantPlace
<1>5. type \in OwnWidget /\ type \notin Before[at]
  BY <1>1, SectionsOnce DEF OwnWidget
<1>6. Before[section] = Before[at] \union {type} /\ RootWidgets[section] = RootWidgets[at]
  BY <1>1, SectionsAdd, RootCounts DEF Sections
<1>7. at \notin {"root", "idle"} /\ section \in Sections \ {"root", "deviceData", "scenes"}
  BY <1>1 DEF Sections
<1> HIDE DEF type, own, section
<1> QED
  BY <1>1, <1>4, <1>5, <1>6, <1>7, OwnStep DEF seq, found

\* A request begins with an empty dashboard, or is refused.
LEMMA GetDashboardTemplateByNameStep ==
  ASSUME IInv, GetDashboardTemplateByName PROVE IInv'
<1> USE DEF GetDashboardTemplateByName, eliona, lists
<1>1. /\ at = "idle" /\ project' \in Projects
      /\ always' = Seen(exists, status) /\ ever' = always' /\ UNCHANGED eliona
      /\ widgets' = << >>
  OBVIOUS
<1>2. TypeInv
  BY DEF IInv
<1>3. SeenInv'
  BY <1>1 DEF SeenInv
<1>4. CASE /\ at' = "root" /\ response' = 0
           /\ root' = NoAsset /\ widgetSequence' = 0 /\ widgets' = << >>
           /\ devices' = << >> /\ batteryDevices' = {} /\ connectivityDevices' = {}
  <2>1. TypeInv'
    BY <1>1, <1>2, <1>4 DEF TypeInv, Sections
  <2>2. RootInv'
    BY <1>4 DEF RootInv, Delivering
  <2>3. BuiltInv'
    <3>1. Len(widgets') = 0
      BY <1>4
    <3>2. Good(widgets', project', root', always', ever', Before[at'], RootWidgets[at'])
      BY <1>4, EmptyGood, SectionsAdd
    <3> QED
      BY <1>4, <3>1, <3>2 DEF BuiltInv
  <2>4. FoundInv' /\ ListedInv'
    BY <1>4 DEF FoundInv, ListedInv
  <2> QED
    BY <1>3, <2>1, <2>2, <2>3, <2>4 DEF IInv
<1>5. CASE /\ response' = 404 /\ widgets' = << >>
           /\ UNCHANGED <<at, root, widgetSequence, lists>>
  <2>1. TypeInv'
    BY <1>1, <1>2, <1>5 DEF TypeInv
  <2>2. RootInv' /\ BuiltInv' /\ FoundInv' /\ ListedInv'
    BY <1>1, <1>5 DEF RootInv, Delivering, BuiltInv, FoundInv, ListedInv
  <2> QED
    BY <1>3, <2>1, <2>2 DEF IInv
<1> QED
  BY <1>4, <1>5

\* A failed request leaves nothing behind.
LEMMA FailsStep ==
  ASSUME IInv, Fails PROVE IInv'
<1> USE DEF Fails, eliona, lists
<1>1. TypeInv'
  BY DEF IInv, TypeInv, Sections
<1>2. RootInv' /\ BuiltInv' /\ FoundInv' /\ ListedInv'
  BY DEF RootInv, Delivering, BuiltInv, FoundInv, ListedInv
<1>3. SeenInv'
  BY DEF IInv, SeenInv
<1> QED
  BY <1>1, <1>2, <1>3 DEF IInv

\* The request goes on with the one root asset, or fails.
LEMMA FetchRootStep ==
  ASSUME IInv, FetchRoot PROVE IInv'
<1> DEFINE type == "root"
           section == "switches"
           found == GetAssets(type)
<1>1. at = "root"
  BY DEF FetchRoot
<1>2. CASE Fails
  BY <1>2, FailsStep
<1>3. CASE /\ Cardinality(found) = 1
           /\ root' = CHOOSE a \in found : TRUE
           /\ Continue(section)
           /\ UNCHANGED <<widgetSequence, widgets, lists, response>>
  <2>1. found # {}
    BY <1>3, FS_EmptySet
  <2>2. root' \in Assets /\ root'.type = "root"
    <3>1. root' \in found
      BY <1>3, <2>1
    <3> QED
      BY <3>1 DEF GetAssets, IInv, TypeInv
  <2>3. widgets = << >> /\ widgetSequence = Len(widgets)
    BY <1>1 DEF IInv, RootInv, BuiltInv, Delivering
  <2>4. Good(widgets', project, root', always, ever, Before[section], RootWidgets[section])
    BY <1>3, <2>3, EmptyGood, SectionsAdd
  <2>5. at # "idle" /\ section \in Sections \ {"root", "deviceData", "scenes"}
    BY <1>1 DEF Sections
  <2> HIDE DEF section
  <2> QED
    BY <1>3, <2>2, <2>3, <2>4, <2>5, SectionStep
<1> QED
  BY <1>2, <1>3 DEF FetchRoot

\* The list of devices is the one of the project; each is still to be asked.
LEMMA FetchDevicesStep ==
  ASSUME IInv, FetchDevices PROVE IInv'
<1> DEFINE type == "device"
           found == GetAssets(type)
<1>1. /\ at = "devices" /\ at' = "deviceData" /\ devices' = SetToSeq(found)
      /\ UNCHANGED <<eliona, project, requests, always, ever, dashboard, response,
                     batteryDevices, connectivityDevices>>
  BY DEF FetchDevices, Continue
<1>2. FoundNow(found, type, project, always, ever) /\ IsFiniteSet(found)
  BY Found DEF IInv
<1> HIDE DEF found
<1>3. /\ devices' \in Seq(found) /\ devices' \in [1 .. Len(devices') -> found]
      /\ \A a \in found : \E i \in 1 .. Len(devices') : devices'[i] = a
  BY <1>1, <1>2, SetToSeqLists
<1>4. found \subseteq Devices
  BY <1>2 DEF FoundNow, OfType, Devices
<1>5. DOMAIN devices' = 1 .. Len(devices') /\ devices' \in Seq(Devices)
  <2>1. devices' \in Seq(Devices)
    BY <1>3, <1>4
  <2> QED
    BY <2>1, LenProperties
<1>6. TypeInv'
  BY <1>1, <1>5 DEF IInv, TypeInv, eliona, dashboard, Sections
<1>7. RootInv' /\ SeenInv'
  BY <1>1 DEF IInv, RootInv, SeenInv, Delivering, eliona, dashboard
<1>8. BuiltInv'
  <2>1. Before["deviceData"] = Before["devices"]
    BY SectionsAdd
  <2>2. RootWidgets["deviceData"] = RootWidgets["devices"]
    BY RootCounts DEF Sections
  <2> QED
    BY <1>1, <2>1, <2>2 DEF IInv, BuiltInv, Delivering, dashboard
<1>9. FoundInv'
  <2>1. \A i \in DOMAIN devices' : devices'[i] \in found
    BY <1>3, <1>5
  <2>2. \A i \in DOMAIN devices' :
          devices'[i].project = project /\ <<devices'[i], "asset">> \in ever
    BY <1>2, <2>1 DEF FoundNow
  <2> QED
    BY <1>1, <2>2 DEF IInv, FoundInv
<1>10. ListedInv'
  <2> SUFFICES ASSUME NEW d \in Devices, NEW x \in StatusAttributes, <<d, x>> \in always,
                      d.project = project
               PROVE  \E i \in DOMAIN devices' : devices'[i] = d
    BY <1>1 DEF ListedInv, IInv, RootInv
  <2>1. d \in exists
    BY SeenStatus DEF IInv, TypeInv, SeenInv
  <2>2. d \in found
    BY <2>1 DEF found, GetAssets, Devices
  <2> QED
    BY <1>3, <1>5, <2>2
<1> QED
  BY <1>6, <1>7, <1>8, <1>9, <1>10 DEF IInv

\* A device is listed for what it is found to report.
LEMMA FetchDeviceDataStep ==
  ASSUME IInv, FetchDeviceData PROVE IInv'
<1> DEFINE d == Head(devices)
           reported == IF d \in exists THEN status[d] ELSE {}
<1>1. /\ at = "deviceData" /\ at' = at /\ devices # << >> /\ devices' = Tail(devices)
      /\ UNCHANGED <<eliona, project, requests, always, ever, dashboard, response>>
      /\ batteryDevices' = batteryDevices \union {x \in {d} : "battery" \in reported}
      /\ connectivityDevices' =
           connectivityDevices \union {x \in {d} : "connectivity" \in reported}
  BY DEF FetchDeviceData, Continue
<1>2. /\ TypeInv /\ devices \in Seq(Devices)
      /\ Seen(exists, status) \subseteq ever /\ always \subseteq Seen(exists, status)
  BY DEF IInv, TypeInv, SeenInv
<1>3. /\ d \in Devices /\ devices' \in Seq(Devices)
      /\ DOMAIN devices = 1 .. Len(devices) /\ Len(devices) \in Nat /\ d = devices[1]
      /\ 1 \in DOMAIN devices
      /\ DOMAIN devices' = 1 .. Len(devices) - 1
      /\ \A i \in DOMAIN devices' : devices'[i] = devices[i + 1] /\ i + 1 \in DOMAIN devices
  <2>1. /\ d \in Devices /\ devices' \in Seq(Devices) /\ Len(devices') = Len(devices) - 1
        /\ \A i \in 1 .. Len(devices') : devices'[i] = devices[i + 1]
    BY <1>1, <1>2, HeadTailProperties
  <2>2. DOMAIN devices' = 1 .. Len(devices) - 1 /\ DOMAIN devices = 1 .. Len(devices)
    BY <1>2, <2>1, LenProperties
  <2>3. Len(devices) \in Nat \ {0}
    BY <1>1, <1>2, EmptySeq, LenProperties
  <2> QED
    BY <2>1, <2>2, <2>3
<1>4. /\ d.project = project /\ <<d, "asset">> \in ever
      /\ \A x \in StatusAttributes : x \in reported => <<d, x>> \in ever
      /\ \A x \in StatusAttributes : <<d, x>> \in always => x \in reported
  <2>1. d.project = project /\ <<d, "asset">> \in ever
    BY <1>1, <1>3 DEF IInv, FoundInv
  <2>2. \A x \in StatusAttributes : <<d, x>> \in Seen(exists, status) <=> x \in reported
    BY <1>2, <1>3, SeenStatus DEF TypeInv
  <2> QED
    BY <1>2, <2>1, <2>2
<1> HIDE DEF d, reported
<1>5. TypeInv'
  BY <1>1, <1>2, <1>3 DEF TypeInv, eliona, dashboard
<1>6. RootInv' /\ SeenInv' /\ BuiltInv'
  BY <1>1 DEF IInv, RootInv, SeenInv, BuiltInv, Delivering, eliona, dashboard
<1>7. FoundInv'
  <2>1. \A i \in DOMAIN devices' :
          devices'[i].project = project /\ <<devices'[i], "asset">> \in ever
    BY <1>1, <1>3 DEF IInv, FoundInv
  <2>2. \A b \in batteryDevices' :
          b.project = project /\ {<<b, "asset">>, <<b, "battery">>} \subseteq ever
    BY <1>1, <1>4 DEF IInv, FoundInv, StatusAttributes
  <2>3. \A b \in connectivityDevices' :
          b.project = project /\ {<<b, "asset">>, <<b, "connectivity">>} \subseteq ever
    BY <1>1, <1>4 DEF IInv, FoundInv, StatusAttributes
  <2> QED
    BY <1>1, <2>1, <2>2, <2>3 DEF FoundInv
<1>8. ListedInv'
  <2> SUFFICES ASSUME NEW b \in Devices, NEW x \in StatusAttributes, <<b, x>> \in always,
                      b.project = project
               PROVE  Listed(b, x)' \/ \E i \in DOMAIN devices' : devices'[i] = b
    BY <1>1 DEF ListedInv, IInv, RootInv
  <2>1. Listed(b, x) => Listed(b, x)'
    BY <1>1 DEF Listed
  <2>2. CASE b = d
    BY <1>1, <1>4, <2>2 DEF Listed, StatusAttributes
  <2>3. ASSUME NEW i \in DOMAIN devices, devices[i] = b, b # d
        PROVE  \E j \in DOMAIN devices' : devices'[j] = b
    <3>1. i - 1 \in DOMAIN devices' /\ (i - 1) + 1 = i
      BY <1>3, <2>3
    <3>2. devices'[i - 1] = devices[i]
      BY <1>3, <3>1
    <3> QED
      BY <2>3, <3>1, <3>2
  <2>4. Listed(b, x) \/ \E i \in DOMAIN devices : devices[i] = b
    BY <1>1 DEF IInv, ListedInv
  <2> QED
    BY <2>1, <2>2, <2>3, <2>4
<1> QED
  BY <1>5, <1>6, <1>7, <1>8 DEF IInv

\* Eliona's changes may take from what was always there and add to what ever was.
LEMMA ElionaChangesStep ==
  ASSUME IInv, ElionaChanges PROVE IInv'
<1>1. /\ at # "idle"
      /\ always' = always \intersect Seen(exists', status')
      /\ ever' = ever \union Seen(exists', status')
      /\ UNCHANGED <<at, lists, dashboard, request>>
  BY DEF ElionaChanges
<1>2. TypeInv'
  <2>1. exists' \subseteq Assets /\ status' \in [Devices -> SUBSET StatusAttributes]
    <3>1. CASE \E a \in Assets \ exists : exists' = exists \union {a} /\ UNCHANGED status
      BY <3>1 DEF IInv, TypeInv
    <3>2. CASE \E a \in exists :
                 /\ exists' = exists \ {a}
                 /\ status' = [d \in Devices |-> IF d = a THEN {} ELSE status[d]]
      BY <3>2 DEF IInv, TypeInv
    <3>3. CASE \E d \in Devices \intersect exists, x \in SUBSET StatusAttributes :
                 /\ x # status[d]
                 /\ status' = [status EXCEPT ![d] = x] /\ UNCHANGED exists
      BY <3>3 DEF IInv, TypeInv
    <3> QED
      BY <3>1, <3>2, <3>3 DEF ElionaChanges
  <2> QED
    BY <1>1, <2>1 DEF IInv, TypeInv, lists, dashboard, request
<1>3. RootInv'
  BY <1>1 DEF IInv, RootInv, Delivering, dashboard, request
<1>4. SeenInv'
  BY <1>1 DEF SeenInv
<1>5. always' \subseteq always /\ ever \subseteq ever'
  BY <1>1
<1>6. BuiltInv'
  <2> DEFINE done == Before[at]
             k == RootWidgets[at]
  <2>1. widgetSequence = Len(widgets) /\ Good(widgets, project, root, always, ever, done, k)
    BY <1>1 DEF IInv, BuiltInv, Delivering
  <2> HIDE DEF done, k
  <2>2. Good(widgets, project, root, always', ever', done, k)
    BY <1>5, <2>1, GoodMonotone
  <2> QED
    BY <1>1, <2>1, <2>2 DEF BuiltInv, dashboard, request, done, k
<1>7. FoundInv'
  BY <1>1, <1>5 DEF IInv, FoundInv, lists, request
<1>8. ListedInv'
  <2>1. UNCHANGED <<at, devices, batteryDevices, connectivityDevices, widgets, project, response>>
    BY <1>1 DEF lists, dashboard, request
  <2> QED
    BY <1>5, <2>1 DEF IInv, ListedInv, Listed, OnIt
<1> QED
  BY <1>2, <1>3, <1>4, <1>6, <1>7, <1>8 DEF IInv

\* What is shown stays shown when a widget is appended, which shows its own data.
LEMMA OnItAppend ==
  ASSUME NEW ws \in Seq(Widgets), NEW w \in Widgets, NEW a, NEW x,
         OnIt(ws, a, x) \/ \E e \in w.data : e.asset = a /\ e.attribute = x
  PROVE  OnIt(Append(ws, w), a, x)
<1> DEFINE new == Append(ws, w)
           n == Len(ws)
<1>1. /\ DOMAIN new = 1 .. n + 1 /\ DOMAIN ws = 1 .. n /\ n \in Nat
      /\ \A i \in 1 .. n : new[i] = ws[i]
      /\ new[n + 1] = w
  BY AppendProperties, LenProperties
<1> HIDE DEF new, n
<1>2. CASE OnIt(ws, a, x)
  <2>1. PICK i \in 1 .. n : \E e \in ws[i].data : e.asset = a /\ e.attribute = x
    BY <1>1, <1>2 DEF OnIt
  <2>2. i \in DOMAIN new /\ new[i] = ws[i]
    BY <1>1
  <2> QED
    BY <2>1, <2>2 DEF OnIt, new
<1>3. CASE \E e \in w.data : e.asset = a /\ e.attribute = x
  <2>1. n + 1 \in DOMAIN new /\ new[n + 1] = w
    BY <1>1
  <2> QED
    BY <1>3, <2>1 DEF OnIt, new
<1> QED
  BY <1>2, <1>3

\* A widget w of the root r that shows the assets found and takes the number n.
RootWidget(w, found, n, r, p, ev) ==
  /\ Fits(w, found) /\ w.asset = r /\ w.sequence = n
  /\ \A e \in w.data : /\ e.asset.project = p /\ <<e.asset, "asset">> \in ev
                       /\ e.asset.type = "device" => <<e.asset, e.attribute>> \in ev

\* The three widgets that follow the devices' data: what they leave on the dashboard ws
\* is good, and the devices that are listed are shown.
LEMMA SystemsAppend ==
  ASSUME NEW ws, NEW p, NEW r \in Assets, NEW al, NEW ev, NEW done, NEW k \in Nat,
         Good(ws, p, r, al, ev, done, k), r.type = "root",
         NEW w1, NEW f1, RootWidget(w1, f1, Len(ws), r, p, ev),
         NEW w2, NEW f2, RootWidget(w2, f2, Len(ws) + 1, r, p, ev),
         NEW w3, NEW f3, RootWidget(w3, f3, Len(ws) + 2, r, p, ev),
         NEW type \in DOMAIN ShownTypes, FoundNow(f3, type, p, al, ev)
  PROVE  /\ Good(ws \o <<w1, w2, w3>>, p, r, al, ev, done \union {type}, k + 3)
         /\ Len(ws \o <<w1, w2, w3>>) = Len(ws) + 3
         /\ \A a, x : (\E w \in {w1, w2} : \E e \in w.data : e.asset = a /\ e.attribute = x)
                        => OnIt(ws \o <<w1, w2, w3>>, a, x)
<1> DEFINE s1 == Append(ws, w1)
           s2 == Append(s1, w2)
           s3 == Append(s2, w3)
<1>1. ws \in Seq(Widgets) /\ w1 \in Widgets /\ w2 \in Widgets /\ w3 \in Widgets
  BY DEF Good, Fits, RootWidget
<1>2. /\ s1 \in Seq(Widgets) /\ s2 \in Seq(Widgets) /\ s3 \in Seq(Widgets)
      /\ Len(s1) = Len(ws) + 1 /\ Len(s2) = Len(ws) + 2 /\ Len(s3) = Len(ws) + 3
  <2>1. s1 \in Seq(Widgets) /\ Len(s1) = Len(ws) + 1
    BY <1>1, AppendProperties
  <2> HIDE DEF s1
  <2>2. s2 \in Seq(Widgets) /\ Len(s2) = Len(s1) + 1
    BY <1>1, <2>1, AppendProperties
  <2> HIDE DEF s2
  <2>3. s3 \in Seq(Widgets) /\ Len(s3) = Len(s2) + 1
    BY <1>1, <2>2, AppendProperties
  <2>4. Len(ws) \in Nat
    BY <1>1, LenProperties
  <2> QED
    BY <2>1, <2>2, <2>3, <2>4
<1>3. ws \o <<w1, w2, w3>> = s3
  BY <1>1
<1> DEFINE none == {}
           last == {type}
<1>4. /\ none \in SUBSET DOMAIN ShownTypes /\ last \in SUBSET DOMAIN ShownTypes
      /\ \A f : \A a \in Assets : <<a, "asset">> \in al /\ a.project = p /\ a.type \in none
                             => a \in f
      /\ \A a \in Assets : <<a, "asset">> \in al /\ a.project = p /\ a.type \in last
                             => a \in f3
      /\ done \union none = done /\ done \union last = done \union {type}
      /\ k + 1 \in Nat /\ k + 2 \in Nat /\ (k + 1) + 1 = k + 2 /\ (k + 2) + 1 = k + 3
  BY DEF FoundNow, OfType
<1> HIDE DEF none, last
<1>5. Good(s1, p, r, al, ev, done, k + 1)
  <2>1. Good(s1, p, r, al, ev, done \union none, k + 1)
    BY <1>4, AppendRoot DEF RootWidget
  <2> QED
    BY <1>4, <2>1
<1> HIDE DEF s1
<1>6. Good(s2, p, r, al, ev, done, k + 2)
  <2> DEFINE k1 == k + 1
  <2>1. w2.sequence = Len(s1) /\ k1 \in Nat /\ Good(s1, p, r, al, ev, done, k1)
    BY <1>2, <1>4, <1>5 DEF RootWidget
  <2> HIDE DEF k1
  <2>2. Good(s2, p, r, al, ev, done \union none, k1 + 1)
    BY <1>4, <2>1, AppendRoot DEF RootWidget
  <2> QED
    BY <1>4, <2>2 DEF k1
<1> HIDE DEF s2
<1>7. Good(s3, p, r, al, ev, done \union {type}, k + 3)
  <2> DEFINE k2 == k + 2
  <2>1. w3.sequence = Len(s2) /\ k2 \in Nat /\ Good(s2, p, r, al, ev, done, k2)
    BY <1>2, <1>4, <1>6 DEF RootWidget
  <2> HIDE DEF k2
  <2>2. Good(s3, p, r, al, ev, done \union last, k2 + 1)
    BY <1>4, <2>1, AppendRoot DEF RootWidget
  <2> QED
    BY <1>4, <2>2 DEF k2
<1>8. ASSUME NEW a, NEW x, \E w \in {w1, w2} : \E e \in w.data : e.asset = a /\ e.attribute = x
      PROVE  OnIt(s3, a, x)
  <2>1. (\E e \in w1.data : e.asset = a /\ e.attribute = x) => OnIt(s1, a, x)
    BY <1>1, OnItAppend DEF s1
  <2>2. OnIt(s2, a, x)
    <3>1. OnIt(s1, a, x) \/ \E e \in w2.data : e.asset = a /\ e.attribute = x
      BY <1>8, <2>1
    <3> QED
      BY <1>1, <1>2, <3>1, OnItAppend DEF s2
  <2> QED
    BY <1>1, <1>2, <2>2, OnItAppend
<1> HIDE DEF s3
<1> QED
  BY <1>2, <1>3, <1>7, <1>8

\* The widgets of the batteries, of the connectivity and of the systems.
LEMMA FetchSystemsStep ==
  ASSUME IInv, FetchSystems PROVE IInv'
<1> DEFINE type == "system"
           section == "scenes"
           w1 == BatteryStatus(batteryDevices, widgetSequence)
           w2 == Connectivity(connectivityDevices, "connectivity", widgetSequence + 1)
           w3 == Connectivity(GetAssets(type), "connection_status", widgetSequence + 2)
           done == Before[at]
           k == RootWidgets[at]
<1>1. /\ at = "deviceData" /\ devices = << >> /\ Continue(section)
      /\ Add(<<w1, w2, w3>>) /\ UNCHANGED lists
  BY DEF FetchSystems
<1>2. /\ TypeInv /\ BuiltInv /\ FoundInv /\ ListedInv /\ Delivering
      /\ root \in Assets /\ root.type = "root"
      /\ widgetSequence \in Nat /\ widgetSequence = Len(widgets)
      /\ widgetSequence + 1 \in Nat /\ widgetSequence + 2 \in Nat
      /\ batteryDevices \subseteq Devices /\ connectivityDevices \subseteq Devices
  BY <1>1 DEF IInv, RootInv, TypeInv, BuiltInv, Delivering
<1>3. FoundNow(GetAssets(type), type, project, always, ever)
  BY Found DEF IInv
<1>4. /\ Fits(w1, batteryDevices) /\ w1.asset = root /\ w1.sequence = Len(widgets)
      /\ \A e \in w1.data : e.attribute = "battery"
      /\ \A a \in batteryDevices : \E e \in w1.data : e.asset = a /\ e.attribute = "battery"
  BY <1>2, BatteryStatusFits
<1>5. /\ Fits(w2, connectivityDevices) /\ w2.asset = root /\ w2.sequence = Len(widgets) + 1
      /\ \A e \in w2.data : e.attribute = "connectivity"
      /\ \A a \in connectivityDevices :
           \E e \in w2.data : e.asset = a /\ e.attribute = "connectivity"
  <2> DEFINE x == "connectivity"
             n == widgetSequence + 1
  <2>1. /\ x \in AttributeNames /\ connectivityDevices \in SUBSET Assets
        /\ HaveStatus(connectivityDevices, x) /\ n \in Nat /\ n = Len(widgets) + 1
        /\ root \in Assets \union {NoAsset}
        /\ w2 = Connectivity(connectivityDevices, x, n)
    BY <1>2, StatusHad DEF AttributeNames
  <2> HIDE DEF x, n, w2
  <2>2. /\ Fits(w2, connectivityDevices) /\ w2.asset = root /\ w2.sequence = n
        /\ \A e \in w2.data : e.attribute = x
        /\ \A a \in connectivityDevices : \E e \in w2.data : e.asset = a /\ e.attribute = x
    BY <2>1, ConnectivityFits
  <2> QED
    BY <2>1, <2>2 DEF x
<1>6. Fits(w3, GetAssets(type)) /\ w3.asset = root /\ w3.sequence = Len(widgets) + 2
  <2> DEFINE x == "connection_status"
             n == widgetSequence + 2
             found == GetAssets(type)
  <2>1. found \in SUBSET OfType(type)
    BY <1>3 DEF FoundNow
  <2>2. /\ x \in AttributeNames /\ found \in SUBSET Assets /\ HaveStatus(found, x)
        /\ n \in Nat /\ n = Len(widgets) + 2 /\ root \in Assets \union {NoAsset}
        /\ w3 = Connectivity(found, x, n)
    BY <1>2, <2>1, StatusHad DEF AttributeNames
  <2> HIDE DEF x, n, w3, found
  <2>3. Fits(w3, found) /\ w3.asset = root /\ w3.sequence = n
    BY <2>2, ConnectivityFits
  <2> QED
    BY <2>2, <2>3 DEF found
<1>7. /\ type \in DOMAIN ShownTypes
      /\ Before[section] = done \union {type} /\ k \in Nat /\ RootWidgets[section] = k + 3
      /\ Good(widgets, project, root, always, ever, done, k)
  BY <1>1, <1>2, SectionsAdd, RootCounts DEF Sections, ShownTypes, BuiltInv
<1>8. \A e \in w1.data : /\ e.asset.project = project /\ <<e.asset, "asset">> \in ever
                         /\ e.asset.type = "device" => <<e.asset, e.attribute>> \in ever
  <2>1. \A e \in w1.data : e.asset \in batteryDevices /\ e.attribute = "battery"
    BY <1>4 DEF Fits, Displays
  <2> HIDE DEF w1
  <2> QED
    BY <1>1, <1>2, <2>1 DEF FoundInv
<1>9. \A e \in w2.data : /\ e.asset.project = project /\ <<e.asset, "asset">> \in ever
                         /\ e.asset.type = "device" => <<e.asset, e.attribute>> \in ever
  <2>1. \A e \in w2.data : e.asset \in connectivityDevices /\ e.attribute = "connectivity"
    BY <1>5 DEF Fits, Displays
  <2> HIDE DEF w2
  <2> QED
    BY <1>1, <1>2, <2>1 DEF FoundInv
<1>10. \A e \in w3.data : /\ e.asset.project = project /\ <<e.asset, "asset">> \in ever
                          /\ e.asset.type = "device" => <<e.asset, e.attribute>> \in ever
  <2>1. \A e \in w3.data : e.asset \in GetAssets(type)
    BY <1>6 DEF Fits, Displays
  <2> HIDE DEF w3
  <2> QED
    BY <1>3, <2>1 DEF FoundNow, OfType
<1>12. UNCHANGED <<root, response, eliona, project, requests, always, ever, lists>> /\ at' = section
  BY <1>1 DEF Add, Continue
<1> HIDE DEF type, w1, w2, w3, done, k
<1>13. /\ RootWidget(w1, batteryDevices, Len(widgets), root, project, ever)
       /\ RootWidget(w2, connectivityDevices, Len(widgets) + 1, root, project, ever)
       /\ RootWidget(w3, GetAssets(type), Len(widgets) + 2, root, project, ever)
  BY <1>4, <1>5, <1>6, <1>8, <1>9, <1>10 DEF RootWidget
<1>14. widgets' = widgets \o <<w1, w2, w3>> /\ widgetSequence' = widgetSequence + 3
  BY <1>1 DEF Add
<1>15. /\ Good(widgets', project, root, always, ever, done \union {type}, k + 3)
       /\ Len(widgets') = Len(widgets) + 3
       /\ \A a, x : (\E w \in {w1, w2} : \E e \in w.data : e.asset = a /\ e.attribute = x)
                       => OnIt(widgets', a, x)
  <2> DEFINE new == widgets \o <<w1, w2, w3>>
  <2>1. /\ Good(new, project, root, always, ever, done \union {type}, k + 3)
        /\ Len(new) = Len(widgets) + 3
        /\ \A a, x : (\E w \in {w1, w2} : \E e \in w.data : e.asset = a /\ e.attribute = x)
                        => OnIt(new, a, x)
    BY <1>2, <1>3, <1>7, <1>13, SystemsAppend
  <2> QED
    BY <1>14, <2>1
<1>16. TypeInv'
  <2>1. widgets' \in Seq(Widgets)
    BY <1>15 DEF Good
  <2>2. widgetSequence' \in Nat
    BY <1>2, <1>14
  <2> QED
    BY <1>2, <1>12, <2>1, <2>2 DEF TypeInv, eliona, lists, Sections
<1>17. RootInv' /\ SeenInv' /\ FoundInv'
  BY <1>1, <1>2, <1>12 DEF IInv, RootInv, SeenInv, FoundInv, Delivering, eliona, lists
<1>18. BuiltInv'
  BY <1>2, <1>7, <1>12, <1>14, <1>15 DEF BuiltInv
<1>19. ListedInv'
  <2> SUFFICES ASSUME NEW d \in Devices, NEW x \in StatusAttributes, <<d, x>> \in always,
                      d.project = project
               PROVE  OnIt(widgets', d, x)
    BY <1>1, <1>12 DEF ListedInv
  <2>1. Listed(d, x)
    BY <1>1, <1>2 DEF ListedInv
  <2>2. \E w \in {w1, w2} : \E e \in w.data : e.asset = d /\ e.attribute = x
    BY <1>4, <1>5, <2>1 DEF Listed, StatusAttributes
  <2> QED
    BY <1>15, <2>2
<1> QED
  BY <1>16, <1>17, <1>18, <1>19 DEF IInv

\* The scenes are the last: the dashboard is delivered.
LEMMA FetchScenesStep ==
  ASSUME IInv, FetchScenes PROVE IInv'
<1> DEFINE type == "scene"
           w == SceneList(GetAssets(type), widgetSequence)
<1>1. /\ at = "scenes" /\ at' = "idle" /\ response' = 200
      /\ widgets' = Append(widgets, w) /\ widgetSequence' = widgetSequence + 1
      /\ UNCHANGED <<eliona, project, requests, always, ever, root, lists>>
  BY DEF FetchScenes, Continue
<1>2. /\ TypeInv /\ Delivering /\ root \in Assets /\ root.type = "root"
      /\ widgetSequence \in Nat
  BY <1>1 DEF IInv, RootInv, TypeInv, Delivering
<1>3. GetAssets(type) \in SUBSET OfType(type)
  BY Found DEF IInv, FoundNow
<1>4. Fits(w, GetAssets(type)) /\ w.asset = root /\ w.sequence = widgetSequence
  BY <1>2, <1>3, SceneListFits
<1>5. type \in DOMAIN ShownTypes /\ type # "device"
  BY DEF ShownTypes
<1>6. /\ Before[at'] = Before[at] \union {type}
      /\ RootWidgets[at] \in Nat /\ RootWidgets[at'] = RootWidgets[at] + 1
  BY <1>1, SectionsAdd, RootCounts
<1> HIDE DEF type, w
<1>7. /\ Good(Append(widgets, w), project, root, always, ever, Before[at] \union {type},
              RootWidgets[at] + 1)
      /\ Len(Append(widgets, w)) = widgetSequence + 1
  BY <1>2, <1>4, <1>5, <1>6, RootSection
<1>8. BuiltInv'
  BY <1>1, <1>6, <1>7 DEF BuiltInv
<1>9. TypeInv'
  <2>1. widgets' \in Seq(Widgets)
    BY <1>1, <1>7 DEF Good
  <2>2. widgetSequence' \in Nat
    BY <1>1, <1>2
  <2> QED
    BY <1>1, <1>2, <2>1, <2>2 DEF TypeInv, eliona, lists
<1>10. RootInv' /\ SeenInv' /\ FoundInv'
  <2>1. RootInv'
    BY <1>1, <1>2 DEF RootInv, Delivering
  <2>2. SeenInv'
    BY <1>1 DEF IInv, SeenInv, eliona
  <2>3. FoundInv'
    BY <1>1 DEF FoundInv
  <2> QED
    BY <2>1, <2>2, <2>3
<1>11. ListedInv'
  <2> SUFFICES ASSUME NEW d \in Devices, NEW x \in StatusAttributes, <<d, x>> \in always,
                      d.project = project
               PROVE  OnIt(widgets', d, x)
    BY <1>1 DEF ListedInv
  <2>1. OnIt(widgets, d, x)
    BY <1>1 DEF IInv, ListedInv
  <2>2. widgets \in Seq(Widgets) /\ w \in Widgets
    BY <1>2, <1>4 DEF TypeInv, Fits
  <2> QED
    BY <1>1, <2>1, <2>2, OnItAppend
<1> QED
  BY <1>8, <1>9, <1>10, <1>11 DEF IInv

-----------------------------------------------------------------------------
(* The theorems *)

\* The invariant holds before any request.
LEMMA Initial == Init => IInv
<1> SUFFICES ASSUME Init PROVE IInv
  OBVIOUS
<1> USE DEF Init
<1>1. TypeInv
  BY DEF TypeInv
<1>2. RootInv /\ BuiltInv /\ FoundInv /\ ListedInv
  BY DEF RootInv, Delivering, BuiltInv, FoundInv, ListedInv
<1>3. SeenInv
  BY DEF SeenInv
<1> QED
  BY <1>1, <1>2, <1>3 DEF IInv

\* Every step of a request, and every change in Eliona, keeps the invariant.
LEMMA Inductive == IInv /\ [Next]_vars => IInv'
<1> SUFFICES ASSUME IInv, [Next]_vars PROVE IInv'
  OBVIOUS
<1>1. CASE GetDashboardTemplateByName
  BY <1>1, GetDashboardTemplateByNameStep
<1>2. CASE FetchFails
  BY <1>2, FailsStep DEF FetchFails
<1>3. CASE FetchRoot
  BY <1>3, FetchRootStep
<1>4. CASE FetchSwitches
  BY <1>4, FetchSwitchesStep
<1>5. CASE FetchDimmers
  BY <1>5, FetchDimmersStep
<1>6. CASE FetchHueLights
  BY <1>6, FetchHueLightsStep
<1>7. CASE FetchMovementSensors
  BY <1>7, FetchMovementSensorsStep
<1>8. CASE FetchRtcs
  BY <1>8, FetchRtcsStep
<1>9. CASE FetchThermostats
  BY <1>9, FetchThermostatsStep
<1>10. CASE FetchWindowSensors
  BY <1>10, FetchWindowSensorsStep
<1>11. CASE FetchDoorSensors
  BY <1>11, FetchDoorSensorsStep
<1>12. CASE FetchDevices
  BY <1>12, FetchDevicesStep
<1>13. CASE FetchDeviceData
  BY <1>13, FetchDeviceDataStep
<1>14. CASE FetchSystems
  BY <1>14, FetchSystemsStep
<1>15. CASE FetchScenes
  BY <1>15, FetchScenesStep
<1>16. CASE ElionaChanges
  BY <1>16, ElionaChangesStep
<1>17. CASE UNCHANGED vars
  BY <1>17 DEF vars, eliona, lists, dashboard, request, IInv, TypeInv, RootInv, SeenInv,
               BuiltInv, FoundInv, ListedInv, Listed, OnIt, Delivering
<1> QED
  BY <1>1, <1>2, <1>3, <1>4, <1>5, <1>6, <1>7, <1>8, <1>9, <1>10, <1>11, <1>12, <1>13,
     <1>14, <1>15, <1>16, <1>17 DEF Next

\* The state of the request and the dashboard keep their types: no list of devices holds
\* anything else, no widget is of a type the app does not register, and what has always
\* been so during the request was so at some time of it.
THEOREM TypeCorrect == Spec => []TypeOK
<1>1. IInv => TypeOK
  <2> SUFFICES ASSUME IInv PROVE TypeOK
    OBVIOUS
  <2>1. \A i \in DOMAIN widgets : widgets[i].type \in DOMAIN Elements
    <3>1. \A i \in DOMAIN widgets : widgets[i] \in Widgets
      BY ElementOfSeq, LenProperties DEF IInv, TypeInv
    <3> QED
      BY <3>1 DEF Widgets
  <2>2. Range(devices) \subseteq Devices
    BY DEF IInv, TypeInv, Range
  <2>3. always \subseteq ever
    BY DEF IInv, SeenInv
  <2> QED
    BY <2>1, <2>2, <2>3 DEF TypeOK, IInv, TypeInv
<1> QED
  BY <1>1, Initial, Inductive, PTL DEF Spec

\* Whatever assets Eliona has and whenever they come and go, dashboard.go, the widget
\* types and the asset types agree: a widget's element is one of its type, and shows an
\* attribute its asset has, but for the current colours of hue lights.
THEOREM ElementsAlwaysKnown == Spec => []ElementsKnown
<1>1. IInv => ElementsKnown
  <2> SUFFICES ASSUME IInv PROVE ElementsKnown
    OBVIOUS
  <2>1. CASE Delivering
    <3>1. Truthful(widgets, project, ever)
      BY <2>1 DEF IInv, BuiltInv, Good
    <3> QED
      BY <3>1 DEF Truthful, KnownElement, ElementsKnown
  <2>2. CASE ~ Delivering
    BY <2>2 DEF IInv, RootInv, ElementsKnown
  <2> QED
    BY <2>1, <2>2
<1> QED
  BY <1>1, Initial, Inductive, PTL DEF Spec

\* A widget of its own is an asset's only one.
LEMMA OneWidget ==
  ASSUME NEW ws \in Seq(Widgets), NEW done, Single(ws, done), NEW a, a.type \in OwnWidget
  PROVE  Cardinality({i \in DOMAIN ws : ws[i].asset = a}) <= 1
<1> DEFINE S == {i \in DOMAIN ws : ws[i].asset = a}
<1> SUFFICES Cardinality(S) <= 1
  OBVIOUS
<1>1. \A i, j \in S : i = j
  BY DEF Single
<1> HIDE DEF S
<1>2. CASE S = {}
  <2>1. Cardinality({}) = 0
    BY FS_EmptySet
  <2> QED
    BY <1>2, <2>1
<1>3. ASSUME NEW i \in S PROVE Cardinality(S) <= 1
  <2>1. S = {i}
    BY <1>1
  <2>2. Cardinality({i}) = 1
    BY FS_Singleton
  <2> QED
    BY <2>1, <2>2
<1> QED
  BY <1>2, <1>3

\* A dashboard that is delivered is complete for what was there throughout the request,
\* and shows nothing that was not there during it: for all assets, projects and all
\* changes between the fetches it is put together from.
THEOREM DeliversTruePicture == Spec => []TruePicture
<1>1. IInv => TruePicture
  <2> SUFFICES ASSUME IInv PROVE TruePicture
    OBVIOUS
  <2> DEFINE shown == {<<e.asset, e.attribute>> : e \in AllData}
  <2>1. response \in {404, 500} => widgets = << >>
    BY DEF IInv, RootInv, Delivering
  <2>2. ASSUME response = 200
        PROVE  /\ \A x \in always : x[1].project = project =>
                    /\ x[2] = "asset" /\ x[1].type \in DOMAIN ShownTypes
                         => <<x[1], ShownTypes[x[1].type]>> \in shown
                    /\ x[2] # "asset" => x \in shown
               /\ \A x \in shown :
                    /\ x[1].project = project /\ <<x[1], "asset">> \in ever
                    /\ x[1].type = "device" => x \in ever
               /\ \A a \in Assets : a.type \in OwnWidget =>
                    Cardinality({i \in DOMAIN widgets : widgets[i].asset = a}) <= 1
               /\ Numbered(widgets)
               /\ Cardinality({i \in DOMAIN widgets : widgets[i].asset = root}) = 6
    <3>1. /\ at = "idle" /\ SeenInv /\ TypeInv /\ ListedInv
          /\ Good(widgets, project, root, always, ever, DOMAIN ShownTypes, 6)
      BY <2>2, RootCounts DEF IInv, RootInv, BuiltInv, Delivering, Before
    <3>2. \A a, x : OnIt(widgets, a, x) <=> <<a, x>> \in shown
      BY DEF OnIt, AllData
    <3>3. \A e \in AllData : /\ e.asset.project = project /\ <<e.asset, "asset">> \in ever
                             /\ e.asset.type = "device" => <<e.asset, e.attribute>> \in ever
      BY <3>1 DEF AllData, Good, Truthful
    <3>4. \A x \in shown : /\ x[1].project = project /\ <<x[1], "asset">> \in ever
                           /\ x[1].type = "device" => x \in ever
      BY <3>3
    <3> HIDE DEF shown
    <3>5. ASSUME NEW x \in always, x[1].project = project
          PROVE  /\ x[2] = "asset" /\ x[1].type \in DOMAIN ShownTypes
                      => <<x[1], ShownTypes[x[1].type]>> \in shown
                 /\ x[2] # "asset" => x \in shown
      <4>1. \/ x[1] \in Assets /\ x[2] = "asset" /\ x = <<x[1], "asset">>
            \/ x[1] \in Devices /\ x[2] \in StatusAttributes /\ x = <<x[1], x[2]>>
        BY <3>1, SeenForm DEF SeenInv, TypeInv
      <4>2. CASE x[1] \in Assets /\ x[2] = "asset" /\ x = <<x[1], "asset">>
        BY <3>1, <3>2, <3>5, <4>2 DEF Good, Complete
      <4>3. CASE x[1] \in Devices /\ x[2] \in StatusAttributes /\ x = <<x[1], x[2]>>
        <5>1. OnIt(widgets, x[1], x[2])
          BY <2>2, <3>1, <3>5, <4>3 DEF ListedInv
        <5>2. x[2] # "asset"
          BY <4>3 DEF StatusAttributes
        <5> QED
          BY <3>2, <4>3, <5>1, <5>2
      <4> QED
        BY <4>1, <4>2, <4>3
    <3>6. \A a \in Assets : a.type \in OwnWidget =>
            Cardinality({i \in DOMAIN widgets : widgets[i].asset = a}) <= 1
      BY <3>1, OneWidget DEF Good
    <3> QED
      BY <3>1, <3>4, <3>5, <3>6 DEF Good
  <2> QED
    BY <2>1, <2>2 DEF TruePicture, Numbered, ConstantPlace
<1> QED
  BY <1>1, Initial, Inductive, PTL DEF Spec

=============================================================================
