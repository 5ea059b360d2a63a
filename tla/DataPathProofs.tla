--------------------------- MODULE DataPathProofs ---------------------------
(***************************************************************************)
(* Theorems about DataPath: TypeOK and NothingInvented always hold, and no step *)
(* violates StoredNeverFatal, for every set of channels, every number of       *)
(* projects and every bound on the environment.                              *)
(*                                                                         *)
(* The facts about the table of broker.GetSystems are lemmas about the constant *)
(* module DatapointMap, proved kind by kind. The inductive invariant IInv joins *)
(* to the types what the links of the app's tables lead to, what a collection   *)
(* has read and is still to write, what the events carry and what users have    *)
(* asked for: whatever is on its way to Eliona is already allowed there.       *)
(***************************************************************************)
EXTENDS DataPath, SequenceTheorems, TLAPS

-----------------------------------------------------------------------------
(* The map of broker.GetSystems *)

\* The datapoints of a kind are outputs under their pairings, or inputs; an input that
\* is named like an output is one.
Named(K) ==
  /\ \A o \in K.outputs : o.datapoint = Odp(o.datapoint[2])
  /\ \A i \in K.inputs :
       i.datapoint = Idp(i.datapoint[2]) \/ \E o \in K.outputs : o.datapoint = i.datapoint

\* A collection reads an attribute from a pairing whose output is linked to it.
Reads(K, a) ==
  /\ K.reads[a][1] \in {"int8", "float", "text"}
  /\ \E o \in K.outputs : o.attribute = a /\ o.datapoint = Odp(K.reads[a][2])

Kinds == {SwitchActuator, DimmingActuator, HueActuator, RoomTemperatureController,
          RadiatorThermostat, WindowDoorSensor, WindowDoorPositionSensor, MovementDetector,
          SmokeDetector, DesLevelCallActuator, WelcomeIpMuteActuator, HeatingActuator, Scene,
          Wallbox}

\* A channel that is supported is of one of the kinds.
LEMMA SupportedKinds ==
  \A f \in DOMAIN Supported : Supported[f] \in Kinds
BY DEF Supported, Kinds

\* Datapoints are outputs and inputs as ABB names them; the scene's input is its output.
LEMMA KindsNamed ==
  ASSUME NEW K \in Kinds PROVE Named(K)
<1>1. Named(SwitchActuator)
  BY DEF Named, Odp, Idp, Output, Input, Set, SwitchActuator
<1>2. Named(DimmingActuator)
  BY DEF Named, Odp, Idp, Output, Input, Set, DimmingActuator
<1>3. Named(HueActuator)
  BY DEF Named, Odp, Idp, Output, Input, Set, HueActuator
<1>4. Named(RoomTemperatureController)
  BY DEF Named, Odp, Idp, Output, Input, Set, RoomTemperatureController
<1>5. Named(RadiatorThermostat)
  BY DEF Named, Odp, Idp, Output, Input, Set, RadiatorThermostat
<1>6. Named(WindowDoorSensor)
  BY DEF Named, Odp, Idp, Output, Input, Set, WindowDoorSensor, Sensor
<1>7. Named(WindowDoorPositionSensor)
  BY DEF Named, Odp, Idp, Output, Input, Set, WindowDoorPositionSensor, Sensor
<1>8. Named(MovementDetector)
  BY DEF Named, Odp, Idp, Output, Input, Set, MovementDetector, Sensor
<1>9. Named(SmokeDetector)
  BY DEF Named, Odp, Idp, Output, Input, Set, SmokeDetector, Sensor
<1>10. Named(DesLevelCallActuator)
  BY DEF Named, Odp, Idp, Output, Input, Set, DesLevelCallActuator
<1>11. Named(WelcomeIpMuteActuator)
  BY DEF Named, Odp, Idp, Output, Input, Set, WelcomeIpMuteActuator
<1>12. Named(HeatingActuator)
  BY DEF Named, Odp, Idp, Output, Input, Set, HeatingActuator
<1>13. Named(Scene)
  <2>1. \A i \in Scene.inputs : \E o \in Scene.outputs : o.datapoint = i.datapoint
    <3> DEFINE out == Output(PID.AL_SCENE_CONTROL, "set_scene", "set_scene")
    <3>1. out \in Scene.outputs /\ \A i \in Scene.inputs : i.datapoint = Odp(PID.AL_SCENE_CONTROL)
      BY DEF Scene
    <3>2. out.datapoint = Odp(PID.AL_SCENE_CONTROL)
      BY DEF Output
    <3> QED
      BY <3>1, <3>2
  <2>2. \A o \in Scene.outputs : o.datapoint = Odp(o.datapoint[2])
    BY DEF Scene, Output, Odp
  <2> QED
    BY <2>1, <2>2 DEF Named
<1>14. Named(Wallbox)
  BY DEF Named, Odp, Idp, Output, Input, Set, Wallbox
<1> QED
  BY <1>1, <1>2, <1>3, <1>4, <1>5, <1>6, <1>7, <1>8, <1>9, <1>10, <1>11, <1>12,
    <1>13, <1>14 DEF Kinds

\* No attribute is read from a pairing of another one, as broker.GetSystems fills them.
LEMMA KindsRead ==
  ASSUME NEW K \in Kinds, NEW a \in DOMAIN K.reads PROVE Reads(K, a)
<1>1. ASSUME K = SwitchActuator PROVE Reads(K, a)
  <2>0. DOMAIN SwitchActuator.reads = {"switch"}
    BY DEF SwitchActuator
  <2>1. Reads(SwitchActuator, "switch")
    <3>1. SwitchActuator.reads["switch"] = <<"int8", PID.ON_OFF_INFO_GET>>
      BY DEF SwitchActuator
    <3>2. \E o \in SwitchActuator.outputs :
            o.attribute = "switch" /\ o.datapoint = Odp(PID.ON_OFF_INFO_GET)
      BY DEF SwitchActuator, Output, Input
    <3> QED
      BY <3>1, <3>2 DEF Reads
  <2> QED
    BY <1>1, <2>0, <2>1
<1>2. ASSUME K = DimmingActuator PROVE Reads(K, a)
  <2>0. DOMAIN DimmingActuator.reads = {"switch", "dimmer"}
    BY DEF DimmingActuator
  <2>1. Reads(DimmingActuator, "switch")
    <3>1. DimmingActuator.reads["switch"] = <<"int8", PID.ON_OFF_INFO_GET>>
      BY DEF DimmingActuator
    <3>2. \E o \in DimmingActuator.outputs :
            o.attribute = "switch" /\ o.datapoint = Odp(PID.ON_OFF_INFO_GET)
      BY DEF DimmingActuator, Output, Input
    <3> QED
      BY <3>1, <3>2 DEF Reads
  <2>2. Reads(DimmingActuator, "dimmer")
    <3>1. DimmingActuator.reads["dimmer"] = <<"int8", PID.ACTUAL_DIM_VALUE_0_100_GET>>
      BY DEF DimmingActuator
    <3>2. \E o \in DimmingActuator.outputs :
            o.attribute = "dimmer" /\ o.datapoint = Odp(PID.ACTUAL_DIM_VALUE_0_100_GET)
      BY DEF DimmingActuator, Output, Input
    <3> QED
      BY <3>1, <3>2 DEF Reads
  <2> QED
    BY <1>2, <2>0, <2>1, <2>2
<1>3. ASSUME K = HueActuator PROVE Reads(K, a)
  <2>0. DOMAIN HueActuator.reads =
          {"switch", "dimmer", "hsv_state", "color_mode_state", "color_temperature"}
    BY DEF HueActuator
  <2>1. Reads(HueActuator, "switch")
    <3>1. HueActuator.reads["switch"] = <<"int8", PID.ON_OFF_INFO_GET>>
      BY DEF HueActuator
    <3>2. \E o \in HueActuator.outputs :
            o.attribute = "switch" /\ o.datapoint = Odp(PID.ON_OFF_INFO_GET)
      BY DEF HueActuator, Output, Input
    <3> QED
      BY <3>1, <3>2 DEF Reads
  <2>2. Reads(HueActuator, "dimmer")
    <3>1. HueActuator.reads["dimmer"] = <<"int8", PID.ACTUAL_DIM_VALUE_0_100_GET>>
      BY DEF HueActuator
    <3>2. \E o \in HueActuator.outputs :
            o.attribute = "dimmer" /\ o.datapoint = Odp(PID.ACTUAL_DIM_VALUE_0_100_GET)
      BY DEF HueActuator, Output, Input
    <3> QED
      BY <3>1, <3>2 DEF Reads
  <2>3. Reads(HueActuator, "hsv_state")
    <3>1. HueActuator.reads["hsv_state"] = <<"text", PID.HSV_COLOR_GET>>
      BY DEF HueActuator
    <3>2. \E o \in HueActuator.outputs :
            o.attribute = "hsv_state" /\ o.datapoint = Odp(PID.HSV_COLOR_GET)
      BY DEF HueActuator, Output, Input
    <3> QED
      BY <3>1, <3>2 DEF Reads
  <2>4. Reads(HueActuator, "color_mode_state")
    <3>1. HueActuator.reads["color_mode_state"] = <<"text", PID.COLOR_MODE_GET>>
      BY DEF HueActuator
    <3>2. \E o \in HueActuator.outputs :
            o.attribute = "color_mode_state" /\ o.datapoint = Odp(PID.COLOR_MODE_GET)
      BY DEF HueActuator, Output, Input
    <3> QED
      BY <3>1, <3>2 DEF Reads
  <2>5. Reads(HueActuator, "color_temperature")
    <3>1. HueActuator.reads["color_temperature"] = <<"int8", PID.COLOR_TEMPERATURE_GET>>
      BY DEF HueActuator
    <3>2. \E o \in HueActuator.outputs :
            o.attribute = "color_temperature" /\ o.datapoint = Odp(PID.COLOR_TEMPERATURE_GET)
      BY DEF HueActuator, Output, Input
    <3> QED
      BY <3>1, <3>2 DEF Reads
  <2> QED
    BY <1>3, <2>0, <2>1, <2>2, <2>3, <2>4, <2>5
<1>4. ASSUME K = RoomTemperatureController PROVE Reads(K, a)
  <2>0. DOMAIN RoomTemperatureController.reads =
          {"switch", "current_temperature", "set_temperature"}
    BY DEF RoomTemperatureController
  <2>1. Reads(RoomTemperatureController, "switch")
    <3>1. RoomTemperatureController.reads["switch"] =
            <<"int8", PID.CONTROLLER_ON_OFF_PROTECTED_GET>>
      BY DEF RoomTemperatureController
    <3>2. \E o \in RoomTemperatureController.outputs :
            o.attribute = "switch" /\ o.datapoint = Odp(PID.CONTROLLER_ON_OFF_PROTECTED_GET)
      BY DEF RoomTemperatureController, Output, Input
    <3> QED
      BY <3>1, <3>2 DEF Reads
  <2>2. Reads(RoomTemperatureController, "current_temperature")
    <3>1. RoomTemperatureController.reads["current_temperature"] =
            <<"float", PID.MEASURED_TEMPERATURE>>
      BY DEF RoomTemperatureController
    <3>2. \E o \in RoomTemperatureController.outputs :
            o.attribute = "current_temperature" /\ o.datapoint = Odp(PID.MEASURED_TEMPERATURE)
      BY DEF RoomTemperatureController, Output, Input
    <3> QED
      BY <3>1, <3>2 DEF Reads
  <2>3. Reads(RoomTemperatureController, "set_temperature")
    <3>1. RoomTemperatureController.reads["set_temperature"] =
            <<"float", PID.SETPOINT_TEMPERATURE_GET>>
      BY DEF RoomTemperatureController
    <3>2. \E o \in RoomTemperatureController.outputs :
            o.attribute = "set_temperature" /\ o.datapoint = Odp(PID.SETPOINT_TEMPERATURE_GET)
      BY DEF RoomTemperatureController, Output, Input
    <3> QED
      BY <3>1, <3>2 DEF Reads
  <2> QED
    BY <1>4, <2>0, <2>1, <2>2, <2>3
<1>5. ASSUME K = RadiatorThermostat PROVE Reads(K, a)
  <2>0. DOMAIN RadiatorThermostat.reads =
          {"switch", "current_temperature", "set_temperature", "status_indication",
            "heating_active", "heating_value"}
    BY DEF RadiatorThermostat
  <2>1. Reads(RadiatorThermostat, "switch")
    <3>1. RadiatorThermostat.reads["switch"] = <<"int8", PID.CONTROLLER_ON_OFF_PROTECTED_GET>>
      BY DEF RadiatorThermostat
    <3>2. \E o \in RadiatorThermostat.outputs :
            o.attribute = "switch" /\ o.datapoint = Odp(PID.CONTROLLER_ON_OFF_PROTECTED_GET)
      BY DEF RadiatorThermostat, Output, Input
    <3> QED
      BY <3>1, <3>2 DEF Reads
  <2>2. Reads(RadiatorThermostat, "current_temperature")
    <3>1. RadiatorThermostat.reads["current_temperature"] = <<"float", PID.MEASURED_TEMPERATURE>>
      BY DEF RadiatorThermostat
    <3>2. \E o \in RadiatorThermostat.outputs :
            o.attribute = "current_temperature" /\ o.datapoint = Odp(PID.MEASURED_TEMPERATURE)
      BY DEF RadiatorThermostat, Output, Input
    <3> QED
      BY <3>1, <3>2 DEF Reads
  <2>3. Reads(RadiatorThermostat, "set_temperature")
    <3>1. RadiatorThermostat.reads["set_temperature"] = <<"float", PID.SETPOINT_TEMPERATURE_GET>>
      BY DEF RadiatorThermostat
    <3>2. \E o \in RadiatorThermostat.outputs :
            o.attribute = "set_temperature" /\ o.datapoint = Odp(PID.SETPOINT_TEMPERATURE_GET)
      BY DEF RadiatorThermostat, Output, Input
    <3> QED
      BY <3>1, <3>2 DEF Reads
  <2>4. Reads(RadiatorThermostat, "status_indication")
    <3>1. RadiatorThermostat.reads["status_indication"] = <<"int8", PID.HEATING_MODE_GET>>
      BY DEF RadiatorThermostat
    <3>2. \E o \in RadiatorThermostat.outputs :
            o.attribute = "status_indication" /\ o.datapoint = Odp(PID.HEATING_MODE_GET)
      BY DEF RadiatorThermostat, Output, Input
    <3> QED
      BY <3>1, <3>2 DEF Reads
  <2>5. Reads(RadiatorThermostat, "heating_active")
    <3>1. RadiatorThermostat.reads["heating_active"] = <<"int8", PID.HEATING_ACTIVE>>
      BY DEF RadiatorThermostat
    <3>2. \E o \in RadiatorThermostat.outputs :
            o.attribute = "heating_active" /\ o.datapoint = Odp(PID.HEATING_ACTIVE)
      BY DEF RadiatorThermostat, Output, Input
    <3> QED
      BY <3>1, <3>2 DEF Reads
  <2>6. Reads(RadiatorThermostat, "heating_value")
    <3>1. RadiatorThermostat.reads["heating_value"] = <<"int8", PID.HEATING_VALUE>>
      BY DEF RadiatorThermostat
    <3>2. \E o \in RadiatorThermostat.outputs :
            o.attribute = "heating_value" /\ o.datapoint = Odp(PID.HEATING_VALUE)
      BY DEF RadiatorThermostat, Output, Input
    <3> QED
      BY <3>1, <3>2 DEF Reads
  <2> QED
    BY <1>5, <2>0, <2>1, <2>2, <2>3, <2>4, <2>5, <2>6
<1>6. ASSUME K = WindowDoorSensor PROVE Reads(K, a)
  BY <1>6 DEF WindowDoorSensor, Sensor, Reads, Odp, Output, Input
<1>7. ASSUME K = WindowDoorPositionSensor PROVE Reads(K, a)
  BY <1>7 DEF WindowDoorPositionSensor, Sensor, Reads, Odp, Output, Input
<1>8. ASSUME K = MovementDetector PROVE Reads(K, a)
  BY <1>8 DEF MovementDetector, Sensor, Reads, Odp, Output, Input
<1>9. ASSUME K = SmokeDetector PROVE Reads(K, a)
  BY <1>9 DEF SmokeDetector, Sensor, Reads, Odp, Output, Input
<1>10. ASSUME K = DesLevelCallActuator PROVE Reads(K, a)
  <2>0. DOMAIN DesLevelCallActuator.reads = {"floor_call"}
    BY DEF DesLevelCallActuator
  <2>1. Reads(DesLevelCallActuator, "floor_call")
    <3>1. DesLevelCallActuator.reads["floor_call"] = <<"int8", PID.ON_OFF_INFO_GET>>
      BY DEF DesLevelCallActuator
    <3>2. \E o \in DesLevelCallActuator.outputs :
            o.attribute = "floor_call" /\ o.datapoint = Odp(PID.ON_OFF_INFO_GET)
      BY DEF DesLevelCallActuator, Output, Input
    <3> QED
      BY <3>1, <3>2 DEF Reads
  <2> QED
    BY <1>10, <2>0, <2>1
<1>11. ASSUME K = WelcomeIpMuteActuator PROVE Reads(K, a)
  <2>0. DOMAIN WelcomeIpMuteActuator.reads = {"mute_button"}
    BY DEF WelcomeIpMuteActuator
  <2>1. Reads(WelcomeIpMuteActuator, "mute_button")
    <3>1. WelcomeIpMuteActuator.reads["mute_button"] = <<"int8", PID.ON_OFF_INFO_GET>>
      BY DEF WelcomeIpMuteActuator
    <3>2. \E o \in WelcomeIpMuteActuator.outputs :
            o.attribute = "mute_button" /\ o.datapoint = Odp(PID.ON_OFF_INFO_GET)
      BY DEF WelcomeIpMuteActuator, Output, Input
    <3> QED
      BY <3>1, <3>2 DEF Reads
  <2> QED
    BY <1>11, <2>0, <2>1
<1>12. ASSUME K = HeatingActuator PROVE Reads(K, a)
  <2>0. DOMAIN HeatingActuator.reads = {"info_flow", "actuator_flow"}
    BY DEF HeatingActuator
  <2>1. Reads(HeatingActuator, "info_flow")
    <3>1. HeatingActuator.reads["info_flow"] = <<"int8", PID.AL_INFO_VALUE_HEATING>>
      BY DEF HeatingActuator
    <3>2. \E o \in HeatingActuator.outputs :
            o.attribute = "info_flow" /\ o.datapoint = Odp(PID.AL_INFO_VALUE_HEATING)
      BY DEF HeatingActuator, Output, Input
    <3> QED
      BY <3>1, <3>2 DEF Reads
  <2>2. Reads(HeatingActuator, "actuator_flow")
    <3>1. HeatingActuator.reads["actuator_flow"] = <<"int8", PID.ACTUATING_VALUE_HEATING>>
      BY DEF HeatingActuator
    <3>2. \E o \in HeatingActuator.outputs :
            o.attribute = "actuator_flow" /\ o.datapoint = Odp(PID.ACTUATING_VALUE_HEATING)
      BY DEF HeatingActuator, Output, Input
    <3> QED
      BY <3>1, <3>2 DEF Reads
  <2> QED
    BY <1>12, <2>0, <2>1, <2>2
<1>13. ASSUME K = Scene PROVE Reads(K, a)
  <2>1. DOMAIN Scene.reads = {}
    BY DEF Scene
  <2> QED
    BY <1>13, <2>1
<1>14. ASSUME K = Wallbox PROVE Reads(K, a)
  <2>0. DOMAIN Wallbox.reads =
          {"switch", "enable", "installed_power", "total_energy", "start_last_charging", "status"}
    BY DEF Wallbox
  <2>1. Reads(Wallbox, "switch")
    <3>1. Wallbox.reads["switch"] = <<"int8", PID.AL_INFO_CHARGING>>
      BY DEF Wallbox
    <3>2. \E o \in Wallbox.outputs :
            o.attribute = "switch" /\ o.datapoint = Odp(PID.AL_INFO_CHARGING)
      BY DEF Wallbox, Output, Input
    <3> QED
      BY <3>1, <3>2 DEF Reads
  <2>2. Reads(Wallbox, "enable")
    <3>1. Wallbox.reads["enable"] = <<"int8", PID.AL_INFO_CHARGING_ENABLED>>
      BY DEF Wallbox
    <3>2. \E o \in Wallbox.outputs :
            o.attribute = "enable" /\ o.datapoint = Odp(PID.AL_INFO_CHARGING_ENABLED)
      BY DEF Wallbox, Output, Input
    <3> QED
      BY <3>1, <3>2 DEF Reads
  <2>3. Reads(Wallbox, "installed_power")
    <3>1. Wallbox.reads["installed_power"] = <<"float", PID.AL_INFO_INSTALLED_POWER>>
      BY DEF Wallbox
    <3>2. \E o \in Wallbox.outputs :
            o.attribute = "installed_power" /\ o.datapoint = Odp(PID.AL_INFO_INSTALLED_POWER)
      BY DEF Wallbox, Output, Input
    <3> QED
      BY <3>1, <3>2 DEF Reads
  <2>4. Reads(Wallbox, "total_energy")
    <3>1. Wallbox.reads["total_energy"] = <<"float", PID.AL_INFO_ENERGY_TRANSMITTED>>
      BY DEF Wallbox
    <3>2. \E o \in Wallbox.outputs :
            o.attribute = "total_energy" /\ o.datapoint = Odp(PID.AL_INFO_ENERGY_TRANSMITTED)
      BY DEF Wallbox, Output, Input
    <3> QED
      BY <3>1, <3>2 DEF Reads
  <2>5. Reads(Wallbox, "start_last_charging")
    <3>1. Wallbox.reads["start_last_charging"] = <<"text", PID.AL_INFO_START_OF_CHARGING_SESSION>>
      BY DEF Wallbox
    <3>2. \E o \in Wallbox.outputs :
            /\ o.attribute = "start_last_charging"
            /\ o.datapoint = Odp(PID.AL_INFO_START_OF_CHARGING_SESSION)
      BY DEF Wallbox, Output, Input
    <3> QED
      BY <3>1, <3>2 DEF Reads
  <2>6. Reads(Wallbox, "status")
    <3>1. Wallbox.reads["status"] = <<"text", PID.AL_INFO_WALLBOX_STATUS>>
      BY DEF Wallbox
    <3>2. \E o \in Wallbox.outputs :
            o.attribute = "status" /\ o.datapoint = Odp(PID.AL_INFO_WALLBOX_STATUS)
      BY DEF Wallbox, Output, Input
    <3> QED
      BY <3>1, <3>2 DEF Reads
  <2> QED
    BY <1>14, <2>0, <2>1, <2>2, <2>3, <2>4, <2>5, <2>6
<1> QED
  BY <1>1, <1>2, <1>3, <1>4, <1>5, <1>6, <1>7, <1>8, <1>9, <1>10, <1>11, <1>12,
    <1>13, <1>14 DEF Kinds

\* The tags of each asset type are those of its struct.
LEMMA TagsOf ==
  /\ \A t \in DOMAIN LightTags : t \in DOMAIN Tags /\ Tags[t] = LightTags[t]
  /\ \A t \in DOMAIN ClimateTags : t \in DOMAIN Tags /\ Tags[t] = ClimateTags[t]
  /\ \A t \in DOMAIN SensorTags : t \in DOMAIN Tags /\ Tags[t] = SensorTags[t]
  /\ \A t \in DOMAIN ButtonTags : t \in DOMAIN Tags /\ Tags[t] = ButtonTags[t]
  /\ \A t \in DOMAIN WallboxTags : t \in DOMAIN Tags /\ Tags[t] = WallboxTags[t]
<1> DEFINE Buttons == Join(ButtonTags, WallboxTags)
           Sensors == Join(SensorTags, Buttons)
           Climate == Join(ClimateTags, Sensors)
<1>1. Tags = Join(LightTags, Climate)
  BY DEF Tags
<1>2. /\ DOMAIN LightTags = {"switch_sensor", "dimmer_sensor", "hue_actuator"}
      /\ DOMAIN ClimateTags =
           {"room_temperature_controller", "radiator_thermostat", "heating_actuator"}
      /\ DOMAIN SensorTags =
           {"window_sensor", "door_sensor", "movement_sensor", "smoke_detector"}
      /\ DOMAIN ButtonTags = {"floor_call_button", "mute_button", "scene"}
      /\ DOMAIN WallboxTags = {"wallbox"}
  BY DEF LightTags, ClimateTags, SensorTags, ButtonTags, WallboxTags
<1>3. Climate = Join(ClimateTags, Sensors) /\ Sensors = Join(SensorTags, Buttons)
      /\ Buttons = Join(ButtonTags, WallboxTags)
  OBVIOUS
<1> HIDE DEF Buttons, Sensors, Climate
<1>4. /\ \A t \in DOMAIN ButtonTags : t \in DOMAIN Buttons /\ Buttons[t] = ButtonTags[t]
      /\ \A t \in DOMAIN WallboxTags : t \in DOMAIN Buttons /\ Buttons[t] = WallboxTags[t]
      /\ DOMAIN Buttons = DOMAIN ButtonTags \union DOMAIN WallboxTags
  <2>1. DOMAIN ButtonTags \intersect DOMAIN WallboxTags = {}
    BY <1>2
  <2> QED
    BY <1>3, <2>1 DEF Join
<1>5. /\ \A t \in DOMAIN SensorTags : t \in DOMAIN Sensors /\ Sensors[t] = SensorTags[t]
      /\ \A t \in DOMAIN Buttons : t \in DOMAIN Sensors /\ Sensors[t] = Buttons[t]
      /\ DOMAIN Sensors = DOMAIN SensorTags \union DOMAIN Buttons
  <2>1. DOMAIN SensorTags \intersect DOMAIN Buttons = {}
    BY <1>2, <1>4
  <2> QED
    BY <1>3, <2>1 DEF Join
<1>6. /\ \A t \in DOMAIN ClimateTags : t \in DOMAIN Climate /\ Climate[t] = ClimateTags[t]
      /\ \A t \in DOMAIN Sensors : t \in DOMAIN Climate /\ Climate[t] = Sensors[t]
      /\ DOMAIN Climate = DOMAIN ClimateTags \union DOMAIN Sensors
  <2>1. DOMAIN ClimateTags \intersect DOMAIN Sensors = {}
    BY <1>2, <1>4, <1>5
  <2> QED
    BY <1>3, <2>1 DEF Join
<1>7. /\ \A t \in DOMAIN LightTags : t \in DOMAIN Tags /\ Tags[t] = LightTags[t]
      /\ \A t \in DOMAIN Climate : t \in DOMAIN Tags /\ Tags[t] = Climate[t]
  <2>1. DOMAIN LightTags \intersect DOMAIN Climate = {}
    BY <1>2, <1>4, <1>5, <1>6
  <2> QED
    BY <1>1, <2>1 DEF Join
<1> QED
  BY <1>4, <1>5, <1>6, <1>7

\* An attribute that no collection reads is the trigger of a scene or a colour of a hue
\* light.
LEMMA KindsUnread ==
  ASSUME NEW K \in Kinds, NEW a \in DOMAIN Tags[K.type], a \notin DOMAIN K.reads
  PROVE  a \in Stateless \union HueColours
<1>1. ASSUME K = SwitchActuator PROVE a \in Stateless \union HueColours
  <2>1. Tags["switch_sensor"] = LightTags["switch_sensor"]
    BY TagsOf DEF LightTags
  <2> QED
    BY <1>1, <2>1 DEF SwitchActuator, LightTags, Fields, Join, Stateless, HueColours
<1>2. ASSUME K = DimmingActuator PROVE a \in Stateless \union HueColours
  <2>1. Tags["dimmer_sensor"] = LightTags["dimmer_sensor"]
    BY TagsOf DEF LightTags
  <2> QED
    BY <1>2, <2>1 DEF DimmingActuator, LightTags, Fields, Join, Stateless, HueColours
<1>3. ASSUME K = HueActuator PROVE a \in Stateless \union HueColours
  <2>1. Tags["hue_actuator"] = LightTags["hue_actuator"]
    BY TagsOf DEF LightTags
  <2> QED
    BY <1>3, <2>1 DEF HueActuator, LightTags, Fields, Join, Stateless, HueColours
<1>4. ASSUME K = RoomTemperatureController PROVE a \in Stateless \union HueColours
  <2>1. Tags["room_temperature_controller"] = ClimateTags["room_temperature_controller"]
    BY TagsOf DEF ClimateTags
  <2> QED
    BY <1>4, <2>1 DEF RoomTemperatureController, ClimateTags, Fields, Join, Stateless, HueColours
<1>5. ASSUME K = RadiatorThermostat PROVE a \in Stateless \union HueColours
  <2>1. Tags["radiator_thermostat"] = ClimateTags["radiator_thermostat"]
    BY TagsOf DEF ClimateTags
  <2> QED
    BY <1>5, <2>1 DEF RadiatorThermostat, ClimateTags, Fields, Join, Stateless, HueColours
<1>6. ASSUME K = WindowDoorSensor PROVE a \in Stateless \union HueColours
  <2>1. Tags["door_sensor"] = SensorTags["door_sensor"]
    BY TagsOf DEF SensorTags
  <2> QED
    BY <1>6, <2>1 DEF WindowDoorSensor, Sensor, SensorTags, Fields, Join, Stateless, HueColours
<1>7. ASSUME K = WindowDoorPositionSensor PROVE a \in Stateless \union HueColours
  <2>1. Tags["window_sensor"] = SensorTags["window_sensor"]
    BY TagsOf DEF SensorTags
  <2> QED
    BY <1>7, <2>1 DEF WindowDoorPositionSensor, Sensor, SensorTags, Fields, Join, Stateless,
      HueColours
<1>8. ASSUME K = MovementDetector PROVE a \in Stateless \union HueColours
  <2>1. Tags["movement_sensor"] = SensorTags["movement_sensor"]
    BY TagsOf DEF SensorTags
  <2> QED
    BY <1>8, <2>1 DEF MovementDetector, Sensor, SensorTags, Fields, Join, Stateless, HueColours
<1>9. ASSUME K = SmokeDetector PROVE a \in Stateless \union HueColours
  <2>1. Tags["smoke_detector"] = SensorTags["smoke_detector"]
    BY TagsOf DEF SensorTags
  <2> QED
    BY <1>9, <2>1 DEF SmokeDetector, Sensor, SensorTags, Fields, Join, Stateless, HueColours
<1>10. ASSUME K = DesLevelCallActuator PROVE a \in Stateless \union HueColours
  <2>1. Tags["floor_call_button"] = ButtonTags["floor_call_button"]
    BY TagsOf DEF ButtonTags
  <2> QED
    BY <1>10, <2>1 DEF DesLevelCallActuator, ButtonTags, Fields, Join, Stateless, HueColours
<1>11. ASSUME K = WelcomeIpMuteActuator PROVE a \in Stateless \union HueColours
  <2>1. Tags["mute_button"] = ButtonTags["mute_button"]
    BY TagsOf DEF ButtonTags
  <2> QED
    BY <1>11, <2>1 DEF WelcomeIpMuteActuator, ButtonTags, Fields, Join, Stateless, HueColours
<1>12. ASSUME K = HeatingActuator PROVE a \in Stateless \union HueColours
  <2>1. Tags["heating_actuator"] = ClimateTags["heating_actuator"]
    BY TagsOf DEF ClimateTags
  <2> QED
    BY <1>12, <2>1 DEF HeatingActuator, ClimateTags, Fields, Join, Stateless, HueColours
<1>13. ASSUME K = Scene PROVE a \in Stateless \union HueColours
  <2>1. Tags["scene"] = ButtonTags["scene"]
    BY TagsOf DEF ButtonTags
  <2> QED
    BY <1>13, <2>1 DEF Scene, ButtonTags, Fields, Join, Stateless, HueColours
<1>14. ASSUME K = Wallbox PROVE a \in Stateless \union HueColours
  <2>1. Tags["wallbox"] = WallboxTags["wallbox"]
    BY TagsOf DEF WallboxTags
  <2> QED
    BY <1>14, <2>1 DEF Wallbox, WallboxTags, Fields, Join, Stateless, HueColours
<1> QED
  BY <1>1, <1>2, <1>3, <1>4, <1>5, <1>6, <1>7, <1>8, <1>9, <1>10, <1>11, <1>12,
    <1>13, <1>14 DEF Kinds

\* A scene's trigger, and nothing else, is set with the function of that name.
LEMMA SceneTriggers ==
  ASSUME NEW K \in Kinds, NEW i \in K.inputs, i.function = "set_scene", NEW o \in K.outputs
  PROVE  o.attribute = "set_scene"
<1>1. K = SwitchActuator => o.attribute = "set_scene"
  BY DEF SwitchActuator, Set, Output, Input
<1>2. K = DimmingActuator => o.attribute = "set_scene"
  BY DEF DimmingActuator, Set, Output, Input
<1>3. K = HueActuator => o.attribute = "set_scene"
  BY DEF HueActuator, Set, Output, Input
<1>4. K = RoomTemperatureController => o.attribute = "set_scene"
  BY DEF RoomTemperatureController, Set, Output, Input
<1>5. K = RadiatorThermostat => o.attribute = "set_scene"
  BY DEF RadiatorThermostat, Set, Output, Input
<1>6. K = WindowDoorSensor => o.attribute = "set_scene"
  BY DEF WindowDoorSensor, Sensor, Set, Output, Input
<1>7. K = WindowDoorPositionSensor => o.attribute = "set_scene"
  BY DEF WindowDoorPositionSensor, Sensor, Set, Output, Input
<1>8. K = MovementDetector => o.attribute = "set_scene"
  BY DEF MovementDetector, Sensor, Set, Output, Input
<1>9. K = SmokeDetector => o.attribute = "set_scene"
  BY DEF SmokeDetector, Sensor, Set, Output, Input
<1>10. K = DesLevelCallActuator => o.attribute = "set_scene"
  BY DEF DesLevelCallActuator, Set, Output, Input
<1>11. K = WelcomeIpMuteActuator => o.attribute = "set_scene"
  BY DEF WelcomeIpMuteActuator, Set, Output, Input
<1>12. K = HeatingActuator => o.attribute = "set_scene"
  BY DEF HeatingActuator, Set, Output, Input
<1>13. K = Scene => o.attribute = "set_scene"
  BY DEF Scene, Set, Output
<1>14. K = Wallbox => o.attribute = "set_scene"
  BY DEF Wallbox, Set, Output, Input
<1> QED
  BY <1>1, <1>2, <1>3, <1>4, <1>5, <1>6, <1>7, <1>8, <1>9, <1>10, <1>11, <1>12,
    <1>13, <1>14 DEF Kinds

\* The attributes that Eliona offers to set, and no other is an output.
OutputsOf(type, attributes) ==
  \A a \in DOMAIN Declared[type] : Declared[type][a] = "output" => a \in attributes

\* Each asset type's are these.
LEMMA DeclaredOutputs ==
  /\ OutputsOf("switch_sensor", {"switch"})
  /\ OutputsOf("dimmer_sensor", {"switch", "dimmer"})
  /\ OutputsOf("hue_actuator",
    {"switch", "dimmer", "hsv_hue", "hsv_saturation", "hsv_value", "color_temperature"})
  /\ OutputsOf("room_temperature_controller", {"switch", "set_temperature"})
  /\ OutputsOf("radiator_thermostat", {"switch", "set_temperature", "presence", "window_door"})
  /\ OutputsOf("door_sensor", {})
  /\ OutputsOf("window_sensor", {})
  /\ OutputsOf("movement_sensor", {})
  /\ OutputsOf("smoke_detector", {})
  /\ OutputsOf("floor_call_button", {"floor_call"})
  /\ OutputsOf("mute_button", {"mute_button"})
  /\ OutputsOf("heating_actuator", {})
  /\ OutputsOf("scene", {"set_scene"})
  /\ OutputsOf("wallbox", {"switch", "enable"})
<1>1. OutputsOf("switch_sensor", {"switch"})
  <2>1. Tags["switch_sensor"] = LightTags["switch_sensor"] /\ "switch_sensor" \in DOMAIN Tags
    BY TagsOf DEF LightTags
  <2>2. Declared["switch_sensor"] = Tags["switch_sensor"]
    BY <2>1 DEF Declared
  <2> QED
    BY <2>1, <2>2 DEF OutputsOf, LightTags, Fields, Join
<1>2. OutputsOf("dimmer_sensor", {"switch", "dimmer"})
  <2>1. Tags["dimmer_sensor"] = LightTags["dimmer_sensor"] /\ "dimmer_sensor" \in DOMAIN Tags
    BY TagsOf DEF LightTags
  <2>2. Declared["dimmer_sensor"] = Tags["dimmer_sensor"]
    BY <2>1 DEF Declared
  <2> QED
    BY <2>1, <2>2 DEF OutputsOf, LightTags, Fields, Join
<1>3. OutputsOf("hue_actuator",
        {"switch", "dimmer", "hsv_hue", "hsv_saturation", "hsv_value", "color_temperature"})
  <2>1. Tags["hue_actuator"] = LightTags["hue_actuator"] /\ "hue_actuator" \in DOMAIN Tags
    BY TagsOf DEF LightTags
  <2>2. Declared["hue_actuator"] = Tags["hue_actuator"]
    BY <2>1 DEF Declared
  <2> QED
    BY <2>1, <2>2 DEF OutputsOf, LightTags, Fields, Join
<1>4. OutputsOf("room_temperature_controller", {"switch", "set_temperature"})
  <2>1. Tags["room_temperature_controller"] = ClimateTags["room_temperature_controller"]
          /\ "room_temperature_controller" \in DOMAIN Tags
    BY TagsOf DEF ClimateTags
  <2>2. Declared["room_temperature_controller"] = Tags["room_temperature_controller"]
    BY <2>1 DEF Declared
  <2> QED
    BY <2>1, <2>2 DEF OutputsOf, ClimateTags, Fields, Join
<1>5. OutputsOf("radiator_thermostat", {"switch", "set_temperature", "presence", "window_door"})
  <2>1. Tags["radiator_thermostat"] = ClimateTags["radiator_thermostat"]
          /\ "radiator_thermostat" \in DOMAIN Tags
    BY TagsOf DEF ClimateTags
  <2>2. Declared["radiator_thermostat"] =
          Join(Tags["radiator_thermostat"], Fields({"presence", "window_door"}, "output"))
    BY <2>1 DEF Declared
  <2> QED
    BY <2>1, <2>2 DEF OutputsOf, ClimateTags, Fields, Join
<1>6. OutputsOf("door_sensor", {})
  <2>1. Tags["door_sensor"] = SensorTags["door_sensor"] /\ "door_sensor" \in DOMAIN Tags
    BY TagsOf DEF SensorTags
  <2>2. Declared["door_sensor"] = Tags["door_sensor"]
    BY <2>1 DEF Declared
  <2> QED
    BY <2>1, <2>2 DEF OutputsOf, SensorTags, Fields, Join
<1>7. OutputsOf("window_sensor", {})
  <2>1. Tags["window_sensor"] = SensorTags["window_sensor"] /\ "window_sensor" \in DOMAIN Tags
    BY TagsOf DEF SensorTags
  <2>2. Declared["window_sensor"] = Tags["window_sensor"]
    BY <2>1 DEF Declared
  <2> QED
    BY <2>1, <2>2 DEF OutputsOf, SensorTags, Fields, Join
<1>8. OutputsOf("movement_sensor", {})
  <2>1. Tags["movement_sensor"] = SensorTags["movement_sensor"]
          /\ "movement_sensor" \in DOMAIN Tags
    BY TagsOf DEF SensorTags
  <2>2. Declared["movement_sensor"] = Tags["movement_sensor"]
    BY <2>1 DEF Declared
  <2> QED
    BY <2>1, <2>2 DEF OutputsOf, SensorTags, Fields, Join
<1>9. OutputsOf("smoke_detector", {})
  <2>1. Tags["smoke_detector"] = SensorTags["smoke_detector"] /\ "smoke_detector" \in DOMAIN Tags
    BY TagsOf DEF SensorTags
  <2>2. Declared["smoke_detector"] = Tags["smoke_detector"]
    BY <2>1 DEF Declared
  <2> QED
    BY <2>1, <2>2 DEF OutputsOf, SensorTags, Fields, Join
<1>10. OutputsOf("floor_call_button", {"floor_call"})
  <2>1. Tags["floor_call_button"] = ButtonTags["floor_call_button"]
          /\ "floor_call_button" \in DOMAIN Tags
    BY TagsOf DEF ButtonTags
  <2>2. Declared["floor_call_button"] = Tags["floor_call_button"]
    BY <2>1 DEF Declared
  <2> QED
    BY <2>1, <2>2 DEF OutputsOf, ButtonTags, Fields, Join
<1>11. OutputsOf("mute_button", {"mute_button"})
  <2>1. Tags["mute_button"] = ButtonTags["mute_button"] /\ "mute_button" \in DOMAIN Tags
    BY TagsOf DEF ButtonTags
  <2>2. Declared["mute_button"] = Tags["mute_button"]
    BY <2>1 DEF Declared
  <2> QED
    BY <2>1, <2>2 DEF OutputsOf, ButtonTags, Fields, Join
<1>12. OutputsOf("heating_actuator", {})
  <2>1. Tags["heating_actuator"] = ClimateTags["heating_actuator"]
          /\ "heating_actuator" \in DOMAIN Tags
    BY TagsOf DEF ClimateTags
  <2>2. Declared["heating_actuator"] = Tags["heating_actuator"]
    BY <2>1 DEF Declared
  <2> QED
    BY <2>1, <2>2 DEF OutputsOf, ClimateTags, Fields, Join
<1>13. OutputsOf("scene", {"set_scene"})
  <2>1. Tags["scene"] = ButtonTags["scene"] /\ "scene" \in DOMAIN Tags
    BY TagsOf DEF ButtonTags
  <2>2. Declared["scene"] = Tags["scene"]
    BY <2>1 DEF Declared
  <2> QED
    BY <2>1, <2>2 DEF OutputsOf, ButtonTags, Fields, Join
<1>14. OutputsOf("wallbox", {"switch", "enable"})
  <2>1. Tags["wallbox"] = WallboxTags["wallbox"] /\ "wallbox" \in DOMAIN Tags
    BY TagsOf DEF WallboxTags
  <2>2. Declared["wallbox"] = [Tags["wallbox"] EXCEPT !["installed_power"] = "info"]
    BY <2>1 DEF Declared
  <2> QED
    BY <2>1, <2>2 DEF OutputsOf, WallboxTags, Fields, Join
<1> QED
  BY <1>1, <1>2, <1>3, <1>4, <1>5, <1>6, <1>7, <1>8, <1>9, <1>10, <1>11, <1>12, <1>13, <1>14

\* What users can set reaches an input of that name ("Needs to correspond to asset
\* attribute names.", broker.go:34).
LEMMA KindsSettle ==
  ASSUME NEW K \in Kinds, NEW a \in DOMAIN Declared[K.type], Declared[K.type][a] = "output"
  PROVE  \E i \in K.inputs : i.function = a
<1>1. ASSUME K = SwitchActuator PROVE \E i \in K.inputs : i.function = a
  <2>1. a \in {"switch"}
    <3>1. K.type = "switch_sensor"
      BY <1>1 DEF SwitchActuator
    <3> QED
      BY <3>1, DeclaredOutputs DEF OutputsOf
  <2>2. \A x \in {"switch"} : \E i \in SwitchActuator.inputs : i.function = x
    BY DEF SwitchActuator, Set
  <2> QED
    BY <1>1, <2>1, <2>2
<1>2. ASSUME K = DimmingActuator PROVE \E i \in K.inputs : i.function = a
  <2>1. a \in {"switch", "dimmer"}
    <3>1. K.type = "dimmer_sensor"
      BY <1>2 DEF DimmingActuator
    <3> QED
      BY <3>1, DeclaredOutputs DEF OutputsOf
  <2>2. \A x \in {"switch", "dimmer"} : \E i \in DimmingActuator.inputs : i.function = x
    BY DEF DimmingActuator, Set
  <2> QED
    BY <1>2, <2>1, <2>2
<1>3. ASSUME K = HueActuator PROVE \E i \in K.inputs : i.function = a
  <2>1. a \in {"switch", "dimmer", "hsv_hue", "hsv_saturation", "hsv_value", "color_temperature"}
    <3>1. K.type = "hue_actuator"
      BY <1>3 DEF HueActuator
    <3> QED
      BY <3>1, DeclaredOutputs DEF OutputsOf
  <2>2. \A x \in {"switch", "dimmer", "hsv_hue", "hsv_saturation", "hsv_value",
          "color_temperature"} :
          \E i \in HueActuator.inputs : i.function = x
    BY DEF HueActuator, Set
  <2> QED
    BY <1>3, <2>1, <2>2
<1>4. ASSUME K = RoomTemperatureController PROVE \E i \in K.inputs : i.function = a
  <2>1. a \in {"switch", "set_temperature"}
    <3>1. K.type = "room_temperature_controller"
      BY <1>4 DEF RoomTemperatureController
    <3> QED
      BY <3>1, DeclaredOutputs DEF OutputsOf
  <2>2. \A x \in {"switch", "set_temperature"} :
          \E i \in RoomTemperatureController.inputs : i.function = x
    BY DEF RoomTemperatureController, Set
  <2> QED
    BY <1>4, <2>1, <2>2
<1>5. ASSUME K = RadiatorThermostat PROVE \E i \in K.inputs : i.function = a
  <2>1. a \in {"switch", "set_temperature", "presence", "window_door"}
    <3>1. K.type = "radiator_thermostat"
      BY <1>5 DEF RadiatorThermostat
    <3> QED
      BY <3>1, DeclaredOutputs DEF OutputsOf
  <2>2. \A x \in {"switch", "set_temperature", "presence", "window_door"} :
          \E i \in RadiatorThermostat.inputs : i.function = x
    BY DEF RadiatorThermostat, Set
  <2> QED
    BY <1>5, <2>1, <2>2
<1>6. ASSUME K = WindowDoorSensor PROVE \E i \in K.inputs : i.function = a
  <2>1. a \in {}
    <3>1. K.type = "door_sensor"
      BY <1>6 DEF WindowDoorSensor, Sensor
    <3> QED
      BY <3>1, DeclaredOutputs DEF OutputsOf
  <2>2. \A x \in {} : \E i \in WindowDoorSensor.inputs : i.function = x
    BY DEF WindowDoorSensor, Set
  <2> QED
    BY <1>6, <2>1, <2>2
<1>7. ASSUME K = WindowDoorPositionSensor PROVE \E i \in K.inputs : i.function = a
  <2>1. a \in {}
    <3>1. K.type = "window_sensor"
      BY <1>7 DEF WindowDoorPositionSensor, Sensor
    <3> QED
      BY <3>1, DeclaredOutputs DEF OutputsOf
  <2>2. \A x \in {} : \E i \in WindowDoorPositionSensor.inputs : i.function = x
    BY DEF WindowDoorPositionSensor, Set
  <2> QED
    BY <1>7, <2>1, <2>2
<1>8. ASSUME K = MovementDetector PROVE \E i \in K.inputs : i.function = a
  <2>1. a \in {}
    <3>1. K.type = "movement_sensor"
      BY <1>8 DEF MovementDetector, Sensor
    <3> QED
      BY <3>1, DeclaredOutputs DEF OutputsOf
  <2>2. \A x \in {} : \E i \in MovementDetector.inputs : i.function = x
    BY DEF MovementDetector, Set
  <2> QED
    BY <1>8, <2>1, <2>2
<1>9. ASSUME K = SmokeDetector PROVE \E i \in K.inputs : i.function = a
  <2>1. a \in {}
    <3>1. K.type = "smoke_detector"
      BY <1>9 DEF SmokeDetector, Sensor
    <3> QED
      BY <3>1, DeclaredOutputs DEF OutputsOf
  <2>2. \A x \in {} : \E i \in SmokeDetector.inputs : i.function = x
    BY DEF SmokeDetector, Set
  <2> QED
    BY <1>9, <2>1, <2>2
<1>10. ASSUME K = DesLevelCallActuator PROVE \E i \in K.inputs : i.function = a
  <2>1. a \in {"floor_call"}
    <3>1. K.type = "floor_call_button"
      BY <1>10 DEF DesLevelCallActuator
    <3> QED
      BY <3>1, DeclaredOutputs DEF OutputsOf
  <2>2. \A x \in {"floor_call"} : \E i \in DesLevelCallActuator.inputs : i.function = x
    BY DEF DesLevelCallActuator, Set
  <2> QED
    BY <1>10, <2>1, <2>2
<1>11. ASSUME K = WelcomeIpMuteActuator PROVE \E i \in K.inputs : i.function = a
  <2>1. a \in {"mute_button"}
    <3>1. K.type = "mute_button"
      BY <1>11 DEF WelcomeIpMuteActuator
    <3> QED
      BY <3>1, DeclaredOutputs DEF OutputsOf
  <2>2. \A x \in {"mute_button"} : \E i \in WelcomeIpMuteActuator.inputs : i.function = x
    BY DEF WelcomeIpMuteActuator, Set
  <2> QED
    BY <1>11, <2>1, <2>2
<1>12. ASSUME K = HeatingActuator PROVE \E i \in K.inputs : i.function = a
  <2>1. a \in {}
    <3>1. K.type = "heating_actuator"
      BY <1>12 DEF HeatingActuator
    <3> QED
      BY <3>1, DeclaredOutputs DEF OutputsOf
  <2>2. \A x \in {} : \E i \in HeatingActuator.inputs : i.function = x
    BY DEF HeatingActuator, Set
  <2> QED
    BY <1>12, <2>1, <2>2
<1>13. ASSUME K = Scene PROVE \E i \in K.inputs : i.function = a
  <2>1. a \in {"set_scene"}
    <3>1. K.type = "scene"
      BY <1>13 DEF Scene
    <3> QED
      BY <3>1, DeclaredOutputs DEF OutputsOf
  <2>2. \A x \in {"set_scene"} : \E i \in Scene.inputs : i.function = x
    BY DEF Scene, Set
  <2> QED
    BY <1>13, <2>1, <2>2
<1>14. ASSUME K = Wallbox PROVE \E i \in K.inputs : i.function = a
  <2>1. a \in {"switch", "enable"}
    <3>1. K.type = "wallbox"
      BY <1>14 DEF Wallbox
    <3> QED
      BY <3>1, DeclaredOutputs DEF OutputsOf
  <2>2. \A x \in {"switch", "enable"} : \E i \in Wallbox.inputs : i.function = x
    BY DEF Wallbox, Set
  <2> QED
    BY <1>14, <2>1, <2>2
<1> QED
  BY <1>1, <1>2, <1>3, <1>4, <1>5, <1>6, <1>7, <1>8, <1>9, <1>10, <1>11, <1>12,
    <1>13, <1>14 DEF Kinds

-----------------------------------------------------------------------------
(* The inductive invariant *)

\* What ABB reports are texts.
Texts == [text : Nat \union Words \union {NoValue}]

\* The app's rows about the channel.
Datapoints == {o.datapoint : o \in Kind.outputs} \union {i.datapoint : i \in Kind.inputs}

AssetRows == [configuration_id : {Config}, project_id : Projects, global_asset_id : {Gai},
              asset_type_name : {Kind.type}, asset_id : Projects]

DatapointRows == [
  asset_id : Projects, channel : {Gai}, datapoint : Datapoints,
  function : {o.function : o \in Kind.outputs} \union {i.function : i \in Kind.inputs},
  is_input : BOOLEAN, last_written_value : {{}} \union {{v} : v \in Settings}]

LinkRows == [datapoint : DatapointRows, subtype : {o.subtype : o \in Kind.outputs},
             attribute_name : {o.attribute : o \in Kind.outputs}]

Databases == [configuration : SUBSET {Config}, asset : SUBSET AssetRows,
              datapoint : SUBSET DatapointRows, datapoint_attribute : SUBSET LinkRows]

Events == [datapoint : Datapoints, value : Texts]

Commands == [project : Projects, attribute : UNION {DOMAIN Declared[t] : t \in DOMAIN Declared},
             value : Settings]

TypeInv ==
  /\ channel \in Channels
  /\ account \in {"absent", "created", "granted"}
  /\ device \in [Pids(channel.fid) -> Texts]
  /\ reported \in [Pids(channel.fid) -> SUBSET Texts]
  /\ db \in Databases
  /\ inEliona \subseteq Projects
  /\ shown \in [Projects -> [Keys -> Values]]
  /\ pass = [at |-> pass.at, project |-> pass.project, existed |-> pass.existed,
              values |-> pass.values]
  /\ pass.at \in {"idle", "asset", "row", "inputs", "outputs", "data"}
  /\ pass.project \in Projects
  /\ covered \subseteq Datapoints
  /\ events \in Seq(Events)
  /\ outputs \in Seq(Commands)
  /\ running \in BOOLEAN

\* The bounds leave room for an event for each change and each command.
BoundInv ==
  /\ changes \in 0..MaxChanges /\ commands \in 0..MaxCommands
  /\ Len(outputs) <= commands
  /\ Len(events) + Len(outputs) <= changes + commands

\* A pairing has had the value it has.
ReportedInv == \A pid \in DOMAIN device : device[pid] \in reported[pid]

\* Nothing is done for a channel that is not supported.
SupportedInv == inEliona # {} \/ pass.at # "idle" => IsSupported

\* An input's row names the function of one of the kind's inputs.
Stored(d) == d.is_input => \E i \in Kind.inputs : i.function = d.function

\* The foreign keys, rows of inputs that name an input's function, and links that lead
\* from the rows of outputs to the attributes these outputs have.
TablesInv ==
  /\ \A a \in db.asset : a.project_id \in inEliona /\ a.configuration_id \in db.configuration
  /\ \A d \in db.datapoint : AssetOf(db, d) # {} /\ Stored(d)
  /\ \A l \in db.datapoint_attribute :
       /\ l.datapoint \in db.datapoint /\ ~ l.datapoint.is_input
       /\ \E o \in Kind.outputs :
            o.attribute = l.attribute_name /\ o.datapoint = l.datapoint.datapoint

\* What may be shown for attribute a in the project's asset.
MayShow(a) == Justified(a) \union {Zero : x \in (Stateless \union HueColours) \intersect {a}}

\* What may be shown under a key.
MayHave(k) == {NoData} \union MayShow(k[2]) \union UserSet(k)

\* NothingInvented, with what is shown of the colours.
ShownInv == \A p \in Projects : \A k \in Keys : shown[p][k] \in MayHave(k)

PassInv ==
  /\ pass.at = "row" => pass.project \in inEliona
  /\ pass.at # "idle" =>
       /\ DOMAIN pass.values = DOMAIN Tags[Kind.type]
       /\ \A a \in DOMAIN pass.values : pass.values[a] \in MayShow(a)

\* An event's value is one its pairing has had.
EventInv == \A i \in DOMAIN events :
  \E pid \in DOMAIN device : events[i].datapoint = Odp(pid) /\ events[i].value \in reported[pid]

\* Users set what the asset type declares as an output.
CommandInv == \A i \in DOMAIN outputs :
  /\ outputs[i].project \in inEliona
  /\ outputs[i].attribute \in DOMAIN Declared[Kind.type]
  /\ Declared[Kind.type][outputs[i].attribute] = "output"

IInv == /\ TypeInv /\ BoundInv /\ ReportedInv /\ SupportedInv /\ TablesInv
        /\ PassInv /\ EventInv /\ CommandInv /\ ShownInv

-----------------------------------------------------------------------------
(* Values *)

\* Whatever becomes of a reported text is a view of it, and a value Eliona stores.
LEMMA ViewsOf ==
  ASSUME NEW v \in Texts
  PROVE  /\ convertToNumber(v) \in Views(v)
         /\ \A kind \in {"int8", "float", "text"} : Collected(kind, v) \in Views(v)
         /\ Views(v) \subseteq Values
<1>1. v.text \in Nat \union Words \union {NoValue} /\ v \in Values
  BY DEF Texts, Values
<1>2. CASE IsNumeric(v)
  <2>1. v.text \in Nat
    BY <1>1, <1>2 DEF IsNumeric
  <2>2. Number(v.text) \in Views(v)
    BY <1>2 DEF Views
  <2>3. v.text > 127 => Number(127) \in Views(v)
    BY <1>2, <2>1 DEF Views
  <2>4. v \in Views(v)
    BY DEF Views
  <2>5. /\ parseInt8(v) = Number(IF v.text > 127 THEN 127 ELSE v.text)
        /\ parseFloat(v) = Number(v.text)
        /\ convertToNumber(v) = Number(v.text)
    BY <1>2 DEF parseInt8, parseFloat, convertToNumber
  <2>6. \A x \in Views(v) : x = v \/ \E n \in Nat : x = Number(n)
    BY <1>2, <2>1 DEF Views
  <2>7. \A n \in Nat : Number(n) \in Values
    BY DEF Number, Values
  <2>8. parseInt8(v) \in Views(v) /\ parseFloat(v) \in Views(v)
    BY <2>1, <2>2, <2>3, <2>5
  <2> QED
    BY <1>1, <2>2, <2>4, <2>5, <2>6, <2>7, <2>8 DEF Collected
<1>3. CASE ~ IsNumeric(v)
  <2>1. Views(v) = {v, Zero}
    BY <1>3 DEF Views
  <2>2. parseInt8(v) = Zero /\ parseFloat(v) = Zero /\ convertToNumber(v) = v
    BY <1>3 DEF parseInt8, parseFloat, convertToNumber, Zero
  <2>3. Zero \in Values
    BY DEF Zero, Number, Values
  <2> QED
    BY <1>1, <2>1, <2>2, <2>3 DEF Collected
<1> QED
  BY <1>2, <1>3

\* The texts that are always there are texts, and what is shown where no pairing is
\* linked is a value.
LEMMA Always ==
  /\ Text(0) \in Texts /\ Text(1) \in Texts /\ Text(NoValue) \in Texts
  /\ Zero \in Values /\ NoData \in Values /\ Settings \subseteq Values
  /\ Texts \subseteq Values
BY DEF Text, Texts, Zero, Number, NoData, Values, Settings

\* A value of a pairing that an output of attribute a has had may be shown for a, and
\* so may what a collection makes of a pairing the channel lacks.
LEMMA Justifies ==
  ASSUME NEW o \in Kind.outputs,
         NEW v \in Reported(o.datapoint[2])
  PROVE  Views(v) \subseteq Justified(o.attribute)
BY DEF Justified

\* Nothing else may be shown for it.
LEMMA JustifiedBy ==
  ASSUME NEW a, NEW x \in Justified(a)
  PROVE  \E o \in Kind.outputs : \E v \in Reported(o.datapoint[2]) :
           o.attribute = a /\ x \in Views(v)
BY DEF Justified

\* What may be shown for an attribute is a value Eliona stores.
LEMMA MayShowIsValue ==
  ASSUME TypeInv, NEW a
  PROVE  MayShow(a) \subseteq Values
<1>1. \A o \in Kind.outputs : Reported(o.datapoint[2]) \subseteq Texts
  <2>1. \A o \in Kind.outputs : o.datapoint[2] \in Pids(channel.fid)
    BY DEF Kind, Pids
  <2> QED
    BY <2>1, Always DEF TypeInv, Reported
<1>2. ASSUME NEW x \in Justified(a) PROVE x \in Values
  <2>1. PICK o \in Kind.outputs :
          \E v \in Reported(o.datapoint[2]) : x \in Views(v)
    BY JustifiedBy
  <2>2. PICK v \in Reported(o.datapoint[2]) : x \in Views(v)
    BY <2>1
  <2>3. v \in Texts
    BY <1>1, Always
  <2> QED
    BY <2>2, <2>3, ViewsOf
<1> QED
  BY <1>2, Always DEF MayShow

\* What has been reported stays reported, and what users have done stays done.
Grows ==
  /\ channel' = channel
  /\ \A pid \in Pids(channel.fid) : reported[pid] \subseteq reported'[pid]
  /\ commands > 0 => commands' > 0

\* The channel decides what the app knows of it.
LEMMA SameKind ==
  ASSUME channel' = channel
  PROVE  /\ Kind' = Kind /\ Keys' = Keys /\ Datapoints' = Datapoints
         /\ Databases' = Databases /\ Events' = Events
         /\ IsSupported' = IsSupported
<1>1. Kind' = Kind /\ IsSupported' = IsSupported
  BY DEF Kind, IsSupported
<1>2. Keys' = Keys /\ Datapoints' = Datapoints
  BY <1>1 DEF Keys, Datapoints
<1>3. AssetRows' = AssetRows /\ DatapointRows' = DatapointRows
  BY <1>1, <1>2 DEF AssetRows, DatapointRows
<1>4. LinkRows' = LinkRows
  BY <1>1, <1>3 DEF LinkRows
<1>5. Databases' = Databases
  BY <1>3, <1>4 DEF Databases
<1>6. Events' = Events
  BY <1>2 DEF Events
<1> QED
  BY <1>1, <1>2, <1>5, <1>6

\* What may be shown may be shown from then on.
LEMMA MayShowGrows ==
  ASSUME Grows
  PROVE  /\ \A a : MayShow(a) \subseteq MayShow(a)'
         /\ \A k : MayHave(k) \subseteq MayHave(k)'
<1>1. ASSUME NEW a, NEW x \in Justified(a) PROVE x \in Justified(a)'
  <2>1. PICK o \in Kind.outputs :
          \E v \in Reported(o.datapoint[2]) :
            o.attribute = a /\ x \in Views(v)
    BY JustifiedBy
  <2>2. PICK v \in Reported(o.datapoint[2]) :
          o.attribute = a /\ x \in Views(v)
    BY <2>1
  <2>3. o.datapoint[2] \in Pids(channel.fid)
    BY DEF Kind, Pids
  <2>4. o \in Kind'.outputs /\ v \in Reported(o.datapoint[2])'
    BY <2>3, SameKind DEF Grows, Reported
  <2> QED
    BY <2>2, <2>4 DEF Justified
<1>2. \A a : MayShow(a) \subseteq MayShow(a)'
  BY <1>1 DEF MayShow
<1>3. \A k : UserSet(k) \subseteq UserSet(k)'
  BY DEF Grows, UserSet
<1> QED
  BY <1>2, <1>3 DEF MayHave

-----------------------------------------------------------------------------
(* What the steps have in common *)

\* The pairing of an output that the app knows of the channel is one ABB may report.
LEMMA OutputsHavePairings ==
  ASSUME NEW pid, Odp(pid) \in Datapoints
  PROVE  pid \in Pids(channel.fid)
<1>1. Named(Kind)
  <2>1. CASE IsSupported
    BY <2>1, SupportedKinds, KindsNamed DEF Kind, KindOf, IsSupported
  <2>2. CASE ~ IsSupported
    BY <2>2 DEF Kind, KindOf, IsSupported, Named
  <2> QED
    BY <2>1, <2>2
<1>2. PICK o \in Kind.outputs : o.datapoint = Odp(pid)
  BY <1>1 DEF Datapoints, Named, Odp, Idp
<1>3. o.datapoint[2] = pid
  BY <1>2 DEF Odp
<1> QED
  BY <1>3 DEF Pids, Kind

\* An output is named after its pairing, which ABB may report.
LEMMA OutputPairing ==
  ASSUME NEW o \in Kind.outputs
  PROVE  o.datapoint[2] \in Pids(channel.fid) /\ o.datapoint \in Datapoints
BY DEF Pids, Kind, Datapoints

\* A pairing changes: its values are kept, and the event carries one of them.
LEMMA BecomesKeeps ==
  ASSUME TypeInv, ReportedInv, EventInv, NEW pid, NEW v \in Texts, Becomes(pid, v),
         UNCHANGED channel
  PROVE  /\ device' \in [Pids(channel.fid) -> Texts]
         /\ reported' \in [Pids(channel.fid) -> SUBSET Texts]
         /\ \A q \in Pids(channel.fid) : reported[q] \subseteq reported'[q]
         /\ events' \in Seq(Events)
         /\ Len(events') <= Len(events) + 1
         /\ ReportedInv'
         /\ EventInv'
<1>1. /\ device \in [Pids(channel.fid) -> Texts]
      /\ reported \in [Pids(channel.fid) -> SUBSET Texts]
      /\ events \in Seq(Events)
      /\ covered \subseteq Datapoints
  BY DEF TypeInv
<1>2. /\ device' = [device EXCEPT ![pid] = v]
      /\ reported' = [reported EXCEPT ![pid] = @ \union {v}]
  BY DEF Becomes
<1>3. /\ device' \in [Pids(channel.fid) -> Texts]
      /\ reported' \in [Pids(channel.fid) -> SUBSET Texts]
      /\ \A q \in Pids(channel.fid) : reported[q] \subseteq reported'[q]
  BY <1>1, <1>2
<1>4. pid \in Pids(channel.fid) => v \in reported'[pid]
  BY <1>1, <1>2
<1>5. ReportedInv'
  BY <1>1, <1>2, <1>3, <1>4 DEF ReportedInv
<1>6. CASE events' = events
  BY <1>1, <1>3, <1>5, <1>6 DEF EventInv
<1>7. CASE /\ Odp(pid) \in covered
           /\ events' = Append(events, [datapoint |-> Odp(pid), value |-> v])
  <2> DEFINE e == [datapoint |-> Odp(pid), value |-> v]
  <2>1. pid \in Pids(channel.fid) /\ e \in Events /\ e.datapoint = Odp(pid) /\ e.value = v
    BY <1>1, <1>7, OutputsHavePairings DEF Events
  <2>2. events' = Append(events, e)
    BY <1>7
  <2> HIDE DEF e
  <2>3. events' \in Seq(Events) /\ Len(events') = Len(events) + 1
    BY <1>1, <2>1, <2>2
  <2>4. ASSUME NEW i \in DOMAIN events'
        PROVE  \E q \in DOMAIN device' :
                 events'[i].datapoint = Odp(q) /\ events'[i].value \in reported'[q]
    <3>1. CASE i \in DOMAIN events
      <4>1. events'[i] = events[i]
        BY <1>1, <2>1, <2>2, <3>1
      <4>2. PICK q \in DOMAIN device :
              events[i].datapoint = Odp(q) /\ events[i].value \in reported[q]
        BY <3>1 DEF EventInv
      <4> QED
        BY <1>1, <1>3, <4>1, <4>2
    <3>2. CASE i \notin DOMAIN events
      <4>1. events'[i] = e
        BY <1>1, <2>1, <2>2, <3>2
      <4> QED
        BY <1>3, <1>4, <2>1, <4>1
    <3> QED
      BY <3>1, <3>2
  <2> QED
    BY <1>3, <1>5, <2>3, <2>4, <1>1 DEF EventInv
<1> QED
  BY <1>6, <1>7 DEF Becomes

\* A value is stored under the attributes of the outputs with the row's datapoint; it may
\* be shown there if it may be for all of these.
LEMMA UpsertKeeps ==
  ASSUME TypeInv, TablesInv, ShownInv,
         NEW row, NEW v \in Texts,
         \A o \in Kind.outputs :
           o.datapoint = row.datapoint => convertToNumber(v) \in MayShow(o.attribute),
         UpsertDatapointData(row, v)
  PROVE  /\ shown' \in [Projects -> [Keys -> Values]]
         /\ \A p \in Projects : \A k \in Keys : shown'[p][k] \in MayHave(k)
<1> DEFINE keys == {<<l.subtype, l.attribute_name>> : l \in AttributesOf(db, row)}
           known(p) == \A q \in 1..p : GetAssetId(db, Config, q, Gai) # {}
<1>1. shown' = [p \in Projects |-> [k \in Keys |->
         IF known(p) /\ k \in keys THEN convertToNumber(v) ELSE shown[p][k]]]
  BY DEF UpsertDatapointData
<1>2. ASSUME NEW k \in keys PROVE convertToNumber(v) \in MayShow(k[2])
  <2>1. PICK l \in db.datapoint_attribute :
          l.datapoint = row /\ k = <<l.subtype, l.attribute_name>>
    BY <1>2 DEF AttributesOf
  <2>2. PICK o \in Kind.outputs : o.attribute = l.attribute_name /\ o.datapoint = row.datapoint
    BY <2>1 DEF TablesInv
  <2>3. convertToNumber(v) \in MayShow(o.attribute) /\ k[2] = o.attribute
    BY <2>1, <2>2
  <2> QED
    BY <2>3
<1> HIDE DEF keys, known
<1>3. shown \in [Projects -> [Keys -> Values]]
  BY DEF TypeInv
<1>4. convertToNumber(v) \in Values
  BY ViewsOf
<1>5. \A p \in Projects : \A k \in Keys :
        shown'[p][k] = shown[p][k] \/ shown'[p][k] \in MayShow(k[2])
  BY <1>1, <1>2
<1>6. \A k \in Keys : MayShow(k[2]) \subseteq MayHave(k)
  BY DEF MayHave
<1>7. \A p \in Projects : \A k \in Keys : shown[p][k] \in MayHave(k)
  BY DEF ShownInv
<1> QED
  BY <1>1, <1>3, <1>4, <1>5, <1>6, <1>7

\* What may be shown for what Eliona shows is the invariant of the next state.
LEMMA ShownIsKept ==
  ASSUME Grows, \A p \in Projects : \A k \in Keys : shown'[p][k] \in MayHave(k)'
  PROVE  ShownInv'
<1>1. Keys' = Keys
  BY SameKind DEF Grows
<1> QED
  BY <1>1 DEF ShownInv

\* The values of a collection stay what may be shown.
LEMMA PassKept ==
  ASSUME TypeInv, PassInv, Grows, inEliona \subseteq inEliona',
         pass'.at = "row" => pass'.project \in inEliona',
         pass'.at # "idle" => pass.at # "idle" /\ pass'.values = pass.values
  PROVE  PassInv'
<1>1. Kind' = Kind
  BY SameKind DEF Grows
<1>2. \A a : MayShow(a) \subseteq MayShow(a)'
  BY MayShowGrows
<1>3. ASSUME pass'.at # "idle", NEW a \in DOMAIN pass'.values
      PROVE  pass'.values[a] \in MayShow(a)'
  BY <1>2, <1>3 DEF PassInv
<1>4. pass'.at # "idle" => DOMAIN pass'.values = DOMAIN Tags[Kind'.type]
  BY <1>1 DEF PassInv
<1> QED
  BY <1>3, <1>4 DEF PassInv

\* The events stay when ABB reports nothing, and when the first ones are taken.
LEMMA EventsTaken ==
  ASSUME TypeInv, EventInv, UNCHANGED <<channel, device, reported>>,
         events' \in {events, << >>} \/ (events # << >> /\ events' = Tail(events))
  PROVE  events' \in Seq(Events) /\ Len(events') <= Len(events) /\ EventInv'
<1>1. events \in Seq(Events)
  BY DEF TypeInv
<1>2. CASE events' = events
  BY <1>1, <1>2 DEF EventInv
<1>3. CASE events' = << >>
  BY <1>1, <1>3 DEF EventInv
<1>4. CASE events # << >> /\ events' = Tail(events)
  <2>1. events' \in Seq(Events) /\ Len(events') = Len(events) - 1
    BY <1>1, <1>4
  <2>2. \A i \in DOMAIN events' : i + 1 \in DOMAIN events /\ events'[i] = events[i + 1]
    BY <1>1, <1>4
  <2> QED
    BY <1>1, <2>1, <2>2 DEF EventInv
<1> QED
  BY <1>2, <1>3, <1>4

\* The commands stay, and when the first one is taken.
LEMMA CommandsTaken ==
  ASSUME TypeInv, CommandInv, UNCHANGED channel, inEliona \subseteq inEliona',
         outputs' \in {outputs, << >>} \/ (outputs # << >> /\ outputs' = Tail(outputs))
  PROVE  /\ outputs' \in Seq(Commands)
         /\ Len(outputs') <= Len(outputs)
         /\ outputs # << >> /\ outputs' = Tail(outputs) => Len(outputs') = Len(outputs) - 1
         /\ CommandInv'
<1>1. outputs \in Seq(Commands) /\ Kind' = Kind
  BY SameKind DEF TypeInv
<1>2. CASE outputs' = outputs
  BY <1>1, <1>2 DEF CommandInv
<1>3. CASE outputs' = << >>
  <2>1. outputs # << >> => Len(Tail(outputs)) = Len(outputs) - 1
    BY <1>1
  <2>2. outputs' \in Seq(Commands) /\ Len(outputs') = 0 /\ Len(outputs) \in Nat
    BY <1>1, <1>3
  <2>3. CommandInv'
    BY <1>3 DEF CommandInv
  <2>4. outputs # << >> /\ outputs' = Tail(outputs) => Len(outputs') = Len(outputs) - 1
    BY <2>1, Zenon
  <2> QED
    BY <2>1, <2>2, <2>3, <2>4
<1>4. CASE outputs # << >> /\ outputs' = Tail(outputs)
  <2>1. outputs' \in Seq(Commands) /\ Len(outputs') = Len(outputs) - 1
    BY <1>1, <1>4
  <2>2. \A i \in DOMAIN outputs' : i + 1 \in DOMAIN outputs /\ outputs'[i] = outputs[i + 1]
    BY <1>1, <1>4
  <2> QED
    BY <1>1, <2>1, <2>2 DEF CommandInv
<1> QED
  BY <1>2, <1>3, <1>4

-----------------------------------------------------------------------------
(* The initial states *)

\* The channels ABB may report: what changes there is a text.
LEMMA ChannelsTyped ==
  ASSUME NEW c \in Channels
  PROVE  /\ c.change \in Texts
         /\ c.connection \in {"MyBuildings", "ProService"}
BY ChannelAssumption DEF Text, Texts

\* The invariant holds in the initial states.
LEMMA Starts ==
  ASSUME Init PROVE IInv
<1>1. TypeInv
  <2>1. 1 \in Projects
    BY BoundsAssumption DEF Projects
  <2>2. db \in Databases
    BY DEF Init, InsertConfiguration, EmptyTables, Databases
  <2>3. device \in [Pids(channel.fid) -> Texts] /\ reported \in [Pids(channel.fid) -> SUBSET Texts]
    BY Always DEF Init
  <2>4. shown \in [Projects -> [Keys -> Values]]
    BY Always DEF Init
  <2>5. events \in Seq(Events) /\ outputs \in Seq(Commands)
    BY DEF Init
  <2>6. account \in {"absent", "created", "granted"}
    BY DEF Init
  <2> QED
    BY <2>1, <2>2, <2>3, <2>4, <2>5, <2>6 DEF Init, TypeInv, Idle
<1>2. BoundInv
  BY BoundsAssumption DEF Init, BoundInv
<1>3. ReportedInv
  BY DEF Init, ReportedInv
<1>4. SupportedInv
  BY DEF Init, SupportedInv, Idle
<1>5. TablesInv
  BY DEF Init, TablesInv, InsertConfiguration, EmptyTables
<1>6. PassInv
  BY DEF Init, PassInv, Idle
<1>7. EventInv /\ CommandInv
  BY DEF Init, EventInv, CommandInv
<1>8. ShownInv
  BY DEF Init, ShownInv, MayHave
<1> QED
  BY <1>1, <1>2, <1>3, <1>4, <1>5, <1>6, <1>7, <1>8 DEF IInv

-----------------------------------------------------------------------------
(* The steps *)

\* What Eliona shows is allowed when it does not change.
LEMMA ShownKept ==
  ASSUME IInv, Grows, UNCHANGED shown
  PROVE  ShownInv'
<1>1. \A p \in Projects : \A k \in Keys : shown'[p][k] \in MayHave(k)
  BY DEF IInv, ShownInv
<1> QED
  BY <1>1, MayShowGrows, ShownIsKept

\* What a step keeps that leaves the device and what Eliona shows alone, leaves the
\* tables alone or in order, and adds no event and no command.
LEMMA QuietStep ==
  ASSUME IInv, UNCHANGED <<channel, device, reported, shown, changes, commands>>,
         inEliona \subseteq inEliona',
         db' = db \/ TablesInv',
         events' \in {events, << >>} \/ (events # << >> /\ events' = Tail(events)),
         outputs' \in {outputs, << >>}
  PROVE  /\ Grows
         /\ BoundInv' /\ ReportedInv' /\ TablesInv' /\ EventInv' /\ CommandInv'
         /\ ShownInv'
         /\ events' \in Seq(Events) /\ outputs' \in Seq(Commands)
<1>1. Grows
  BY DEF Grows
<1>2. events' \in Seq(Events) /\ Len(events') <= Len(events) /\ EventInv'
  BY EventsTaken DEF IInv
<1>3. outputs' \in Seq(Commands) /\ Len(outputs') <= Len(outputs) /\ CommandInv'
  BY CommandsTaken DEF IInv
<1>4. BoundInv'
  <2>1. events \in Seq(Events) /\ outputs \in Seq(Commands)
    BY DEF IInv, TypeInv
  <2> QED
    BY <1>2, <1>3, <2>1, BoundsAssumption DEF IInv, BoundInv
<1>5. ReportedInv'
  BY DEF IInv, ReportedInv
<1>6. ASSUME db' = db PROVE TablesInv'
  <2>1. Kind' = Kind
    BY SameKind
  <2>2. /\ \A a \in db'.asset :
                a.project_id \in inEliona' /\ a.configuration_id \in db'.configuration
        /\ \A d \in db'.datapoint : AssetOf(db', d) # {} /\ Stored(d)'
    BY <1>6, <2>1 DEF IInv, TablesInv, AssetOf, Stored
  <2> QED
    BY <1>6, <2>1, <2>2 DEF IInv, TablesInv
<1>7. ShownInv'
  BY <1>1, ShownKept
<1> QED
  BY <1>1, <1>2, <1>3, <1>4, <1>5, <1>6, <1>7

\* A change at the device: values are only added, and the event carries the new one.
LEMMA DeviceChangesKeeps ==
  ASSUME IInv, DeviceChanges PROVE IInv'
<1>1. /\ UNCHANGED <<channel, account, db, pass, covered, running, inEliona, shown, outputs>>
      /\ UNCHANGED <<commands, disturbances>>
      /\ changes < MaxChanges /\ changes' = changes + 1
      /\ Becomes(channel.focus, channel.change)
  BY DEF DeviceChanges, inApp
<1>2. /\ device' \in [Pids(channel.fid) -> Texts]
      /\ reported' \in [Pids(channel.fid) -> SUBSET Texts]
      /\ \A q \in Pids(channel.fid) : reported[q] \subseteq reported'[q]
      /\ events' \in Seq(Events)
      /\ Len(events') <= Len(events) + 1
      /\ ReportedInv'
      /\ EventInv'
  <2>1. channel.change \in Texts
    BY ChannelsTyped DEF IInv, TypeInv
  <2> QED
    BY <1>1, <2>1, BecomesKeeps DEF IInv
<1>3. Grows
  BY <1>1, <1>2 DEF Grows
<1>4. TypeInv'
  BY <1>1, <1>2, SameKind DEF IInv, TypeInv
<1>5. BoundInv'
  <2>1. events \in Seq(Events) /\ outputs \in Seq(Commands)
    BY DEF IInv, TypeInv
  <2> QED
    BY <1>1, <1>2, <2>1, BoundsAssumption DEF IInv, BoundInv
<1>6. SupportedInv'
  BY <1>1, SameKind DEF IInv, SupportedInv
<1>7. TablesInv'
  BY <1>1, SameKind DEF IInv, TablesInv, AssetOf, Stored
<1>8. PassInv'
  BY <1>1, <1>3, PassKept DEF IInv, PassInv
<1>9. CommandInv'
  BY <1>1, CommandsTaken DEF IInv
<1>10. ShownInv'
  BY <1>1, <1>3, ShownKept
<1> QED
  BY <1>2, <1>4, <1>5, <1>6, <1>7, <1>8, <1>9, <1>10 DEF IInv

\* Permissions change nothing of the data.
LEMMA GrantPermissionsKeeps ==
  ASSUME IInv, GrantPermissions PROVE IInv'
<1>1. /\ UNCHANGED <<channel, device, reported, db, pass, covered, running, inEliona, shown>>
      /\ UNCHANGED <<events, outputs, changes, commands>>
      /\ account' = "granted"
  BY DEF GrantPermissions, inApp, counters
<1>2. /\ Grows /\ BoundInv' /\ ReportedInv' /\ TablesInv' /\ EventInv' /\ CommandInv'
      /\ ShownInv'
  BY <1>1, QuietStep
<1>3. TypeInv'
  BY <1>1, SameKind DEF IInv, TypeInv
<1>4. SupportedInv'
  BY <1>1, SameKind DEF IInv, SupportedInv
<1>5. PassInv'
  BY <1>1, <1>2, PassKept DEF IInv, PassInv
<1> QED
  BY <1>2, <1>3, <1>4, <1>5 DEF IInv

\* What a collection reads of a supported channel may be shown.
LEMMA ReadValuesMayBeShown ==
  ASSUME IInv, IsSupported
  PROVE  /\ DOMAIN ReadValues = DOMAIN Tags[Kind.type]
         /\ \A a \in DOMAIN ReadValues : ReadValues[a] \in MayShow(a)
<1>1. Kind \in Kinds
  BY SupportedKinds DEF IsSupported, Kind, KindOf
<1>2. ASSUME NEW a \in DOMAIN Tags[Kind.type] PROVE ReadValues[a] \in MayShow(a)
  <2>1. CASE a \in DOMAIN Kind.reads
    <3>1. Reads(Kind, a)
      BY <1>1, <2>1, KindsRead
    <3> DEFINE kind == Kind.reads[a][1]
               pid == Kind.reads[a][2]
               v == FindOutputValueByPairingID(pid)
    <3>2. ReadValues[a] = Collected(kind, v)
      BY <2>1 DEF ReadValues
    <3>3. kind \in {"int8", "float", "text"}
      BY <3>1 DEF Reads
    <3>4. PICK o \in Kind.outputs : o.attribute = a /\ o.datapoint = Odp(pid)
      BY <3>1 DEF Reads
    <3> HIDE DEF kind, pid
    <3>5. o.datapoint[2] = pid
      BY <3>4 DEF Odp
    <3>6. pid \in Pids(channel.fid)
      BY <3>5, OutputPairing
    <3>7. v \in Reported(pid) /\ v \in Texts
      BY <3>6, Always DEF FindOutputValueByPairingID, Reported, IInv, TypeInv, ReportedInv
    <3> HIDE DEF v
    <3>8. Collected(kind, v) \in Views(v)
      BY <3>3, <3>7, ViewsOf
    <3>9. Views(v) \subseteq Justified(a)
      BY <3>4, <3>5, <3>7, Justifies
    <3> QED
      BY <3>2, <3>8, <3>9 DEF MayShow
  <2>2. CASE a \notin DOMAIN Kind.reads
    <3>1. a \in Stateless \union HueColours
      BY <1>1, <2>2, KindsUnread
    <3> QED
      BY <2>2, <3>1 DEF ReadValues, MayShow
  <2> QED
    BY <2>1, <2>2
<1> QED
  BY <1>2 DEF ReadValues

\* A collection starts with what it has read, which may be shown.
LEMMA GetSystemsKeeps ==
  ASSUME IInv, GetSystems PROVE IInv'
<1>1. /\ UNCHANGED <<channel, device, reported, db, covered, running, inEliona, shown>>
      /\ UNCHANGED <<events, outputs, changes, commands>>
      /\ account' = createUserIfNotExists
      /\ pass' = IF IsSupported THEN [Idle EXCEPT !.at = "asset", !.values = ReadValues]
                 ELSE Idle
  BY DEF GetSystems, counters
<1>2. /\ Grows /\ BoundInv' /\ ReportedInv' /\ TablesInv' /\ EventInv' /\ CommandInv'
      /\ ShownInv'
  BY <1>1, QuietStep
<1>3. pass' = Idle \/ (IsSupported /\ pass' = [at |-> "asset", project |-> 1, existed |-> FALSE,
                                              values |-> ReadValues])
  BY <1>1 DEF Idle
<1>4. TypeInv'
  <2>1. account' \in {"absent", "created", "granted"}
    BY <1>1 DEF createUserIfNotExists, IInv, TypeInv
  <2>2. 1 \in Projects
    BY BoundsAssumption DEF Projects
  <2> QED
    BY <1>1, <1>3, <2>1, <2>2, SameKind DEF IInv, TypeInv, Idle
<1>5. SupportedInv'
  BY <1>1, <1>3, SameKind DEF IInv, SupportedInv, Idle
<1>6. PassInv'
  <2>1. CASE pass' = Idle
    BY <2>1 DEF PassInv, Idle
  <2>2. CASE IsSupported /\ pass' = [at |-> "asset", project |-> 1, existed |-> FALSE,
                                    values |-> ReadValues]
    <3>1. pass'.at = "asset" /\ pass'.values = ReadValues
      BY <2>2
    <3>2. \A a \in DOMAIN ReadValues : ReadValues[a] \in MayShow(a)'
      BY <1>2, <2>2, ReadValuesMayBeShown, MayShowGrows
    <3>3. DOMAIN pass'.values = DOMAIN Tags[Kind'.type]
      BY <1>1, <2>2, <3>1, ReadValuesMayBeShown, SameKind
    <3> QED
      BY <3>1, <3>2, <3>3 DEF PassInv
  <2> QED
    BY <1>3, <2>1, <2>2
<1> QED
  BY <1>2, <1>4, <1>5, <1>6 DEF IInv

\* The asset is in Eliona before the app stores its row.
LEMMA CreateAssetKeeps ==
  ASSUME IInv, CreateAsset PROVE IInv'
<1>1. /\ UNCHANGED <<channel, account, device, reported, db, covered, running, shown>>
      /\ UNCHANGED <<events, outputs, changes, commands>>
      /\ pass.at = "asset"
      /\ inEliona' = inEliona \union {pass.project}
      /\ pass' = [pass EXCEPT !.at = "row",
                              !.existed = GetAssetId(db, Config, pass.project, Gai) # {}]
  BY DEF CreateAsset, atABB, counters
<1>2. /\ Grows /\ BoundInv' /\ ReportedInv' /\ TablesInv' /\ EventInv' /\ CommandInv'
      /\ ShownInv'
  BY <1>1, QuietStep
<1>3. /\ pass' = [at |-> "row", project |-> pass.project, existed |-> pass'.existed,
                  values |-> pass.values]
      /\ pass.project \in Projects
  BY <1>1 DEF IInv, TypeInv
<1>4. TypeInv'
  BY <1>1, <1>3, SameKind DEF IInv, TypeInv
<1>5. SupportedInv'
  BY <1>1, <1>3, SameKind DEF IInv, SupportedInv
<1>6. PassInv'
  BY <1>1, <1>2, <1>3, PassKept DEF IInv
<1> QED
  BY <1>2, <1>4, <1>5, <1>6 DEF IInv

\* On to the next project the pass keeps what it has read.
LEMMA NextProjectKeeps ==
  ASSUME TypeInv, pass' = NextProject("asset") \/ pass' = NextProject("data")
  PROVE  /\ pass' = [at |-> pass'.at, project |-> pass'.project, existed |-> pass'.existed,
                     values |-> pass'.values]
         /\ pass'.at \in {"idle", "asset", "data"}
         /\ pass'.project \in Projects
         /\ pass'.at # "idle" => pass'.values = pass.values
<1>1. /\ pass = [at |-> pass.at, project |-> pass.project, existed |-> pass.existed,
                 values |-> pass.values]
      /\ pass.project \in 1..NumProjects /\ NumProjects \in Nat
      /\ 1 \in Projects
  BY BoundsAssumption DEF TypeInv, Projects
<1>2. CASE pass.project < NumProjects
  <2>1. pass.project + 1 \in Projects
    BY <1>1, <1>2 DEF Projects
  <2>2. \/ pass' = [pass EXCEPT !.at = "asset", !.project = @ + 1]
        \/ pass' = [pass EXCEPT !.at = "data", !.project = @ + 1]
    BY <1>2 DEF NextProject
  <2> QED
    BY <1>1, <2>1, <2>2
<1>3. CASE ~ (pass.project < NumProjects)
  <2>1. pass' = [pass EXCEPT !.at = "data", !.project = 1] \/ pass' = Idle
    BY <1>3 DEF NextProject
  <2>2. \/ pass' = [at |-> "data", project |-> 1, existed |-> pass.existed,
                    values |-> pass.values]
        \/ pass' = [at |-> "idle", project |-> 1, existed |-> FALSE, values |-> << >>]
    BY <1>1, <2>1 DEF Idle
  <2> QED
    BY <1>1, <2>2
<1> QED
  BY <1>2, <1>3

\* A step of the collection that leaves all but the tables and the pass alone keeps the
\* invariant when the tables stay in order.
LEMMA StoreStep ==
  ASSUME IInv,
         UNCHANGED <<channel, account, device, reported, covered, running, inEliona, shown>>,
         UNCHANGED <<events, outputs, changes, commands>>,
         db' \in Databases, TablesInv',
         pass.at # "idle",
         pass' = [at |-> pass'.at, project |-> pass'.project, existed |-> pass'.existed,
                  values |-> pass'.values],
         pass'.at \in {"idle", "asset", "inputs", "outputs", "data"},
         pass'.project \in Projects,
         pass'.at # "idle" => pass'.values = pass.values
  PROVE  IInv'
<1>1. /\ Grows /\ BoundInv' /\ ReportedInv' /\ TablesInv' /\ EventInv' /\ CommandInv'
      /\ ShownInv'
  BY QuietStep
<1>2. TypeInv'
  BY SameKind DEF IInv, TypeInv
<1>3. SupportedInv'
  BY SameKind DEF IInv, SupportedInv
<1>4. PassInv'
  BY <1>1, PassKept DEF IInv
<1> QED
  BY <1>1, <1>2, <1>3, <1>4 DEF IInv

\* The pass gives up when the configuration or the asset is gone.
LEMMA PassGivesUp ==
  ASSUME IInv, pass.at # "idle", pass' = Idle,
         UNCHANGED <<channel, account, device, reported, covered, running, inEliona, shown>>,
         UNCHANGED <<events, outputs, changes, commands, db>>
  PROVE  IInv'
<1>1. TablesInv'
  BY QuietStep
<1>2. 1 \in Projects
  BY BoundsAssumption DEF Projects
<1> QED
  BY <1>1, <1>2, StoreStep DEF Idle, IInv, TypeInv

\* The row of the asset is written for an asset that is in Eliona.
LEMMA StoreAssetKeeps ==
  ASSUME IInv, StoreAsset PROVE IInv'
<1>1. /\ UNCHANGED <<channel, account, device, reported, covered, running, inEliona, shown>>
      /\ UNCHANGED <<events, outputs, changes, commands>>
      /\ pass.at = "row"
  BY DEF StoreAsset, atABB, counters
<1>2. CASE UpsertAllowed(db, Config)
  <2> DEFINE row == [configuration_id |-> Config, project_id |-> pass.project,
                     global_asset_id |-> Gai, asset_type_name |-> Kind.type,
                     asset_id |-> pass.project]
  <2>1. /\ db' = [db EXCEPT !.asset = {a \in @ : a.asset_id # pass.project} \union {row}]
        /\ pass' = IF pass.existed THEN NextProject("asset") ELSE [pass EXCEPT !.at = "inputs"]
    BY <1>2 DEF StoreAsset, UpsertAsset, Upsert
  <2>2. db \in Databases /\ pass.project \in inEliona /\ pass.project \in Projects
    BY <1>1 DEF IInv, TypeInv, PassInv
  <2>3. /\ row \in AssetRows /\ row.asset_id = pass.project
        /\ row.project_id = pass.project /\ row.configuration_id = Config
    BY <2>2 DEF AssetRows
  <2> HIDE DEF row
  <2>4. /\ db' \in Databases
        /\ db'.asset = {a \in db.asset : a.asset_id # pass.project} \union {row}
        /\ db'.configuration = db.configuration /\ db'.datapoint = db.datapoint
        /\ db'.datapoint_attribute = db.datapoint_attribute
    BY <2>1, <2>2, <2>3 DEF Databases
  <2>5. TablesInv'
    <3>1. \A a \in db'.asset :
               a.project_id \in inEliona' /\ a.configuration_id \in db'.configuration
      BY <1>1, <1>2, <2>2, <2>3, <2>4 DEF IInv, TablesInv, UpsertAllowed
    <3>2. ASSUME NEW d \in db'.datapoint PROVE AssetOf(db', d) # {} /\ Stored(d)'
      <4>1. PICK a \in db.asset : a.asset_id = d.asset_id
        BY <2>4, <3>2 DEF IInv, TablesInv, AssetOf
      <4>2. \E b \in db'.asset : b.asset_id = d.asset_id
        BY <2>3, <2>4, <4>1
      <4>3. Stored(d)'
        BY <1>1, <2>4, SameKind DEF IInv, TablesInv, Stored
      <4> QED
        BY <4>2, <4>3 DEF AssetOf
    <3>3. \A l \in db'.datapoint_attribute :
            /\ l.datapoint \in db'.datapoint /\ ~ l.datapoint.is_input
            /\ \E o \in Kind'.outputs :
                 o.attribute = l.attribute_name /\ o.datapoint = l.datapoint.datapoint
      BY <1>1, <2>4, SameKind DEF IInv, TablesInv
    <3> QED
      BY <3>1, <3>2, <3>3 DEF TablesInv
  <2>6. CASE pass' = NextProject("asset")
    BY <1>1, <2>4, <2>5, <2>6, NextProjectKeeps, StoreStep DEF IInv
  <2>7. CASE pass' = [pass EXCEPT !.at = "inputs"]
    <3>1. pass' = [at |-> "inputs", project |-> pass.project, existed |-> pass.existed,
                   values |-> pass.values]
      BY <2>7 DEF IInv, TypeInv
    <3> QED
      BY <1>1, <2>2, <2>4, <2>5, <3>1, StoreStep
  <2> QED
    BY <2>1, <2>6, <2>7
<1>3. CASE ~ UpsertAllowed(db, Config)
  BY <1>1, <1>3, PassGivesUp DEF StoreAsset
<1> QED
  BY <1>2, <1>3

\* Inserting rows of a stored asset, and links of outputs to rows that are inserted,
\* keeps the tables in order.
LEMMA InsertKeepsTables ==
  ASSUME IInv, UNCHANGED <<channel, inEliona>>, NEW rows, NEW links,
         rows \subseteq DatapointRows, links \subseteq LinkRows,
         \A d \in rows : AssetOf(db, d) # {} /\ Stored(d),
         \A l \in links :
           /\ l.datapoint \in rows /\ ~ l.datapoint.is_input
           /\ \E o \in Kind.outputs :
                o.attribute = l.attribute_name /\ o.datapoint = l.datapoint.datapoint,
         db' = [db EXCEPT !.datapoint = @ \union rows, !.datapoint_attribute = @ \union links]
  PROVE  db' \in Databases /\ TablesInv'
<1>1. /\ db' \in Databases
      /\ db'.asset = db.asset /\ db'.configuration = db.configuration
      /\ db'.datapoint = db.datapoint \union rows
      /\ db'.datapoint_attribute = db.datapoint_attribute \union links
  BY DEF IInv, TypeInv, Databases
<1>2. /\ \A a \in db'.asset :
              a.project_id \in inEliona' /\ a.configuration_id \in db'.configuration
      /\ \A d \in db'.datapoint : AssetOf(db', d) # {} /\ Stored(d)'
  BY <1>1, SameKind DEF IInv, TablesInv, AssetOf, Stored
<1>3. ASSUME NEW l \in db'.datapoint_attribute
      PROVE  /\ l.datapoint \in db'.datapoint /\ ~ l.datapoint.is_input
             /\ \E o \in Kind'.outputs :
                  o.attribute = l.attribute_name /\ o.datapoint = l.datapoint.datapoint
  <2>1. Kind' = Kind
    BY SameKind
  <2>2. CASE l \in db.datapoint_attribute
    BY <1>1, <2>1, <2>2 DEF IInv, TablesInv
  <2>3. CASE l \in links
    BY <1>1, <2>1, <2>3
  <2> QED
    BY <1>1, <2>2, <2>3
<1> QED
  BY <1>1, <1>2, <1>3 DEF TablesInv

\* The inputs are stored for an asset that is stored.
LEMMA StoreInputsKeeps ==
  ASSUME IInv, StoreInputs PROVE IInv'
<1>1. /\ UNCHANGED <<channel, account, device, reported, covered, running, inEliona, shown>>
      /\ UNCHANGED <<events, outputs, changes, commands>>
      /\ pass.at = "inputs"
  BY DEF StoreInputs, atABB, counters
<1>2. CASE InsertAllowed(db, pass.project)
  <2> DEFINE row(i) == Row(pass.project, Gai, i.datapoint, i.function, TRUE)
             rows == {row(i) : i \in Inputs}
             none == {}
  <2>1. db' = [db EXCEPT !.datapoint = @ \union rows] /\ pass' = [pass EXCEPT !.at = "outputs"]
    BY <1>2 DEF StoreInputs, InsertInputs, Insert
  <2>2. pass.project \in Projects /\ db \in Databases
    BY DEF IInv, TypeInv
  <2>3. ASSUME NEW i \in Inputs
        PROVE  row(i) \in DatapointRows /\ row(i).asset_id = pass.project /\ Stored(row(i))
    <3>1. i \in Kind.inputs
      BY DEF Inputs
    <3>2. /\ i.datapoint \in Datapoints
          /\ i.function \in
               {o.function : o \in Kind.outputs} \union {x.function : x \in Kind.inputs}
      BY <3>1 DEF Datapoints
    <3> QED
      BY <2>2, <3>1, <3>2 DEF Row, DatapointRows, Stored
  <2> HIDE DEF row
  <2>4. \A d \in rows : d \in DatapointRows /\ d.asset_id = pass.project /\ Stored(d)
    BY <2>3
  <2> HIDE DEF rows
  <2>5. db' = [db EXCEPT !.datapoint = @ \union rows, !.datapoint_attribute = @ \union none]
    BY <2>1, <2>2 DEF Databases
  <2>6. \A d \in rows : AssetOf(db, d) # {} /\ Stored(d)
    BY <1>2, <2>4 DEF InsertAllowed, AssetOf
  <2>7. db' \in Databases /\ TablesInv'
    <3>1. rows \subseteq DatapointRows /\ none \subseteq LinkRows
      BY <2>4
    <3>2. \A l \in none : FALSE
      OBVIOUS
    <3> HIDE DEF none
    <3> QED
      BY <1>1, <2>5, <2>6, <3>1, <3>2, InsertKeepsTables
  <2>8. pass' = [at |-> "outputs", project |-> pass.project, existed |-> pass.existed,
                 values |-> pass.values]
    BY <2>1 DEF IInv, TypeInv
  <2> QED
    BY <1>1, <2>2, <2>7, <2>8, StoreStep
<1>3. CASE ~ InsertAllowed(db, pass.project)
  BY <1>1, <1>3, PassGivesUp DEF StoreInputs
<1> QED
  BY <1>2, <1>3

\* The outputs are stored with links to the attributes the kind gives them.
LEMMA StoreOutputsKeeps ==
  ASSUME IInv, StoreOutputs PROVE IInv'
<1>1. /\ UNCHANGED <<channel, account, device, reported, covered, running, inEliona, shown>>
      /\ UNCHANGED <<events, outputs, changes, commands>>
      /\ pass.at = "outputs"
  BY DEF StoreOutputs, atABB, counters
<1>2. CASE InsertAllowed(db, pass.project)
  <2> DEFINE row(o) == OutputRow(pass.project, Gai, o)
             link(o) == [datapoint |-> row(o), subtype |-> o.subtype,
                         attribute_name |-> o.attribute]
             rows == {row(o) : o \in Outputs}
             links == {link(o) : o \in Outputs}
  <2>1. /\ db' = LinkDatapointsToAttributes(InsertOutputs(db, pass.project, Gai, Outputs),
                                            pass.project, Gai, Outputs)
        /\ pass' = NextProject("asset")
    BY <1>2 DEF StoreOutputs
  <2>2. pass.project \in Projects /\ db \in Databases
    BY DEF IInv, TypeInv
  <2>3. db' = [[db EXCEPT !.datapoint = @ \union rows]
                 EXCEPT !.datapoint_attribute = @ \union links]
    BY <2>1 DEF LinkDatapointsToAttributes, InsertLinks, InsertOutputs, Insert
  <2>4. \A o \in Outputs :
          /\ o \in Kind.outputs
          /\ row(o) \in DatapointRows /\ row(o).asset_id = pass.project
          /\ row(o).datapoint = o.datapoint /\ ~ row(o).is_input
    BY <2>2 DEF Outputs, OutputRow, Row, DatapointRows, Datapoints
  <2>5. db' = [db EXCEPT !.datapoint = @ \union rows, !.datapoint_attribute = @ \union links]
    <3> HIDE DEF rows, links
    <3> QED
      BY <2>2, <2>3 DEF Databases
  <2> HIDE DEF row
  <2>6. rows \subseteq DatapointRows /\ links \subseteq LinkRows
    BY <2>4 DEF LinkRows
  <2>7. \A d \in rows : AssetOf(db, d) # {} /\ Stored(d)
    BY <1>2, <2>4 DEF InsertAllowed, AssetOf, Stored
  <2>8. \A l \in links :
          /\ l.datapoint \in rows /\ ~ l.datapoint.is_input
          /\ \E o \in Kind.outputs :
               o.attribute = l.attribute_name /\ o.datapoint = l.datapoint.datapoint
    BY <2>4
  <2> HIDE DEF rows, links
  <2>9. db' \in Databases /\ TablesInv'
    BY <1>1, <2>5, <2>6, <2>7, <2>8, InsertKeepsTables
  <2> QED
    BY <1>1, <2>1, <2>9, NextProjectKeeps, StoreStep DEF IInv
<1>3. CASE ~ InsertAllowed(db, pass.project)
  BY <1>1, <1>3, PassGivesUp DEF StoreOutputs
<1> QED
  BY <1>2, <1>3

\* A collection writes under each attribute what it has read for it.
LEMMA UpsertSystemsDataKeeps ==
  ASSUME IInv, UpsertSystemsData PROVE IInv'
<1>1. /\ UNCHANGED <<channel, account, device, reported, db, covered, running, inEliona>>
      /\ UNCHANGED <<events, outputs, changes, commands>>
      /\ pass.at = "data" /\ (pass' = NextProject("data") \/ pass' = Idle)
      /\ \/ shown' = shown
         \/ shown' = [shown EXCEPT ![pass.project] = [k \in Keys |->
               IF k[2] \in DOMAIN pass.values /\ k[1] = Tags[Kind.type][k[2]]
                 THEN pass.values[k[2]] ELSE @[k]]]
  BY DEF UpsertSystemsData, atABB, counters
<1>2. Grows
  BY <1>1 DEF Grows
<1>3. shown \in [Projects -> [Keys -> Values]] /\ pass.project \in Projects
  BY DEF IInv, TypeInv
<1>4. \A a \in DOMAIN pass.values : pass.values[a] \in MayShow(a) /\ pass.values[a] \in Values
  BY <1>1, MayShowIsValue DEF IInv, PassInv
<1>5. shown' \in [Projects -> [Keys -> Values]]
  <2>1. CASE shown' = shown
    BY <1>3, <2>1
  <2>2. CASE shown' = [shown EXCEPT ![pass.project] = [k \in Keys |->
               IF k[2] \in DOMAIN pass.values /\ k[1] = Tags[Kind.type][k[2]]
                 THEN pass.values[k[2]] ELSE @[k]]]
    BY <1>3, <1>4, <2>2
  <2> QED
    BY <1>1, <2>1, <2>2
<1>6. ShownInv'
  <2>1. \A p \in Projects : \A k \in Keys : shown[p][k] \in MayHave(k)
    BY DEF IInv, ShownInv
  <2>2. \A p \in Projects : \A k \in Keys :
          shown'[p][k] = shown[p][k] \/ shown'[p][k] \in MayShow(k[2])
    BY <1>1, <1>3, <1>4
  <2>3. \A k \in Keys : MayShow(k[2]) \subseteq MayHave(k)
    BY DEF MayHave
  <2>4. \A p \in Projects : \A k \in Keys : shown'[p][k] \in MayHave(k)
    BY <2>1, <2>2, <2>3
  <2> QED
    BY <1>2, <2>4, MayShowGrows, ShownIsKept
<1>7. /\ pass' = [at |-> pass'.at, project |-> pass'.project, existed |-> pass'.existed,
                  values |-> pass'.values]
      /\ pass'.at \in {"idle", "asset", "data"}
      /\ pass'.project \in Projects
      /\ pass'.at # "idle" => pass'.values = pass.values
  <2>1. CASE pass' = NextProject("data")
    BY <2>1, NextProjectKeeps DEF IInv
  <2>2. CASE pass' = Idle
    <3>1. 1 \in Projects
      BY BoundsAssumption DEF Projects
    <3> QED
      BY <2>2, <3>1 DEF Idle
  <2> QED
    BY <1>1, <2>1, <2>2
<1>8. TypeInv'
  BY <1>1, <1>5, <1>7, SameKind DEF IInv, TypeInv
<1>9. BoundInv' /\ ReportedInv' /\ EventInv'
  BY <1>1 DEF IInv, BoundInv, ReportedInv, EventInv
<1>10. SupportedInv'
  BY <1>1, SameKind DEF IInv, SupportedInv
<1>11. TablesInv'
  BY <1>1, SameKind DEF IInv, TablesInv, AssetOf, Stored
<1>12. PassInv'
  BY <1>1, <1>2, <1>7, PassKept DEF IInv
<1>13. CommandInv'
  BY <1>1, CommandsTaken DEF IInv
<1> QED
  BY <1>6, <1>8, <1>9, <1>10, <1>11, <1>12, <1>13 DEF IInv

\* The subscription covers datapoints the app knows of the channel.
LEMMA SubscribeKeeps ==
  ASSUME IInv, Subscribe PROVE IInv'
<1>1. /\ UNCHANGED <<channel, account, device, reported, db, pass, running, inEliona, shown>>
      /\ UNCHANGED <<events, outputs, changes, commands>>
      /\ covered' = {d.datapoint : d \in db.datapoint}
  BY DEF Subscribe, atABB, counters, FetchAllDatapoints
<1>2. /\ Grows /\ BoundInv' /\ ReportedInv' /\ TablesInv' /\ EventInv' /\ CommandInv'
      /\ ShownInv'
  BY <1>1, QuietStep
<1>3. TypeInv'
  <2>1. \A d \in db.datapoint : d.datapoint \in Datapoints
    BY DEF IInv, TypeInv, Databases, DatapointRows
  <2>2. covered' \subseteq Datapoints
    BY <1>1, <2>1
  <2> QED
    BY <1>1, <2>2, SameKind DEF IInv, TypeInv
<1>4. SupportedInv'
  BY <1>1, SameKind DEF IInv, SupportedInv
<1>5. PassInv'
  BY <1>1, <1>2, PassKept DEF IInv, PassInv
<1> QED
  BY <1>2, <1>3, <1>4, <1>5 DEF IInv

\* The events of a stream that ends are gone.
LEMMA StreamEndsKeeps ==
  ASSUME IInv, StreamEnds PROVE IInv'
<1>1. /\ UNCHANGED <<channel, account, device, reported, db, pass, running, inEliona, shown>>
      /\ UNCHANGED <<outputs, changes, commands>>
      /\ covered' = {} /\ events' = << >>
  BY DEF StreamEnds, atABB, counters
<1>2. /\ Grows /\ BoundInv' /\ ReportedInv' /\ TablesInv' /\ EventInv' /\ CommandInv'
      /\ ShownInv' /\ events' \in Seq(Events)
  BY <1>1, QuietStep
<1>3. TypeInv'
  BY <1>1, <1>2, SameKind DEF IInv, TypeInv
<1>4. SupportedInv'
  BY <1>1, SameKind DEF IInv, SupportedInv
<1>5. PassInv'
  BY <1>1, <1>2, PassKept DEF IInv, PassInv
<1> QED
  BY <1>2, <1>3, <1>4, <1>5 DEF IInv

\* An event is stored under the attributes that are linked to its datapoint.
LEMMA StoreEventKeeps ==
  ASSUME IInv, StoreEvent PROVE IInv'
<1>1. /\ UNCHANGED <<channel, account, device, reported, db, pass, covered, running, inEliona>>
      /\ UNCHANGED <<outputs, changes, commands>>
      /\ events # << >> /\ events' = Tail(events)
  BY DEF StoreEvent, atABB, inApp, counters
<1>2. Grows
  BY <1>1 DEF Grows
<1>3. events' \in Seq(Events) /\ Len(events') <= Len(events) /\ EventInv'
  BY <1>1, EventsTaken DEF IInv
<1>4. /\ shown' \in [Projects -> [Keys -> Values]]
      /\ \A p \in Projects : \A k \in Keys : shown'[p][k] \in MayHave(k)
  <2>1. CASE shown' = shown
    BY <2>1 DEF IInv, TypeInv, ShownInv
  <2>2. CASE \E row \in FindOutputDatapoint(db, Gai, Head(events).datapoint) :
               UpsertDatapointData(row, Head(events).value)
    <3>1. PICK row \in FindOutputDatapoint(db, Gai, Head(events).datapoint) :
            UpsertDatapointData(row, Head(events).value)
      BY <2>2
    <3> DEFINE v == Head(events).value
    <3>2. /\ events \in Seq(Events) /\ 1 \in DOMAIN events
          /\ Head(events) = events[1] /\ events[1] \in Events
      BY <1>1 DEF IInv, TypeInv
    <3>3. PICK pid \in DOMAIN device : events[1].datapoint = Odp(pid) /\ v \in reported[pid]
      BY <3>2 DEF IInv, EventInv
    <3>4. v \in Texts
      BY <3>2 DEF Events
    <3>5. row.datapoint = Odp(pid)
      BY <3>1, <3>2, <3>3 DEF FindOutputDatapoint
    <3>6. ASSUME NEW o \in Kind.outputs, o.datapoint = row.datapoint
          PROVE  convertToNumber(v) \in MayShow(o.attribute)
      <4>1. v \in Reported(o.datapoint[2])
        BY <3>3, <3>5, <3>6 DEF Odp, Reported
      <4> QED
        BY <3>4, <4>1, Justifies, ViewsOf DEF MayShow
    <3>7. UpsertDatapointData(row, v)
      BY <3>1
    <3> HIDE DEF v
    <3> QED
      BY <3>4, <3>6, <3>7, UpsertKeeps DEF IInv
  <2> QED
    BY <2>1, <2>2 DEF StoreEvent
<1>5. ShownInv'
  BY <1>2, <1>4, MayShowGrows, ShownIsKept
<1>6. TypeInv'
  BY <1>1, <1>3, <1>4, SameKind DEF IInv, TypeInv
<1>7. BoundInv' /\ ReportedInv'
  <2>1. events \in Seq(Events) /\ outputs \in Seq(Commands)
    BY DEF IInv, TypeInv
  <2> QED
    BY <1>1, <1>3, <2>1, BoundsAssumption DEF IInv, BoundInv, ReportedInv
<1>8. SupportedInv'
  BY <1>1, SameKind DEF IInv, SupportedInv
<1>9. TablesInv'
  BY <1>1, SameKind DEF IInv, TablesInv, AssetOf, Stored
<1>10. PassInv'
  BY <1>1, <1>2, PassKept DEF IInv, PassInv
<1>11. CommandInv'
  BY <1>1, CommandsTaken DEF IInv
<1> QED
  BY <1>3, <1>5, <1>6, <1>7, <1>8, <1>9, <1>10, <1>11 DEF IInv

\* An event that is lost is not shown.
LEMMA EventLostKeeps ==
  ASSUME IInv, EventLost PROVE IInv'
<1>1. /\ UNCHANGED <<channel, account, device, reported, db, pass, covered, running, inEliona>>
      /\ UNCHANGED <<shown, outputs, changes, commands>>
      /\ events # << >> /\ events' = Tail(events)
  BY DEF EventLost, atABB, inApp
<1>2. /\ Grows /\ BoundInv' /\ ReportedInv' /\ TablesInv' /\ EventInv' /\ CommandInv'
      /\ ShownInv' /\ events' \in Seq(Events)
  BY <1>1, QuietStep
<1>3. TypeInv'
  BY <1>1, <1>2, SameKind DEF IInv, TypeInv
<1>4. SupportedInv'
  BY <1>1, SameKind DEF IInv, SupportedInv
<1>5. PassInv'
  BY <1>1, <1>2, PassKept DEF IInv, PassInv
<1> QED
  BY <1>2, <1>3, <1>4, <1>5 DEF IInv

\* A user sets an output that the asset type declares.
LEMMA UserSetsKeeps ==
  ASSUME IInv, NEW p \in Projects, NEW v \in Settings, UserSets(p, v) PROVE IInv'
<1> DEFINE a == channel.command
           e == [project |-> p, attribute |-> a, value |-> v]
<1>1. /\ UNCHANGED <<channel, account, device, reported, db, pass, covered, running, inEliona>>
      /\ UNCHANGED <<events, changes>>
      /\ commands < MaxCommands /\ commands' = commands + 1
      /\ p \in inEliona
      /\ a \in DOMAIN Declared[Kind.type] /\ Declared[Kind.type][a] = "output"
      /\ shown' = [shown EXCEPT ![p][<<"output", a>>] = v]
      /\ outputs' = Append(outputs, e)
  BY DEF UserSets, atABB, inApp
<1>2. commands \in 0..MaxCommands /\ commands' \in 0..MaxCommands /\ commands' > 0
  BY <1>1, BoundsAssumption DEF IInv, BoundInv
<1>3. Grows
  BY <1>1, <1>2 DEF Grows
<1>4. /\ e \in Commands /\ e.project \in inEliona /\ e.attribute \in DOMAIN Declared[Kind.type]
      /\ Declared[Kind.type][e.attribute] = "output"
  <2>1. a \in UNION {DOMAIN Declared[t] : t \in DOMAIN Declared}
    BY ChannelAssumption DEF IInv, TypeInv
  <2> QED
    BY <1>1, <2>1 DEF Commands
<1> HIDE DEF e
<1>5. outputs' \in Seq(Commands) /\ Len(outputs') = Len(outputs) + 1 /\ outputs \in Seq(Commands)
  BY <1>1, <1>4 DEF IInv, TypeInv
<1>6. shown \in [Projects -> [Keys -> Values]] /\ v \in Values
  BY Always DEF IInv, TypeInv
<1>7. shown' \in [Projects -> [Keys -> Values]]
  BY <1>1, <1>6
<1>8. ShownInv'
  <2>1. \A q \in Projects : \A k \in Keys : shown[q][k] \in MayHave(k)
    BY DEF IInv, ShownInv
  <2>2. \A q \in Projects : \A k \in Keys :
          shown'[q][k] = shown[q][k] \/ (k = <<"output", a>> /\ shown'[q][k] = v)
    BY <1>1, <1>6
  <2>3. \A k : k = <<"output", a>> => v \in MayHave(k)'
    BY <1>1, <1>2 DEF MayHave, UserSet
  <2>4. \A q \in Projects : \A k \in Keys : shown'[q][k] \in MayHave(k)'
    BY <1>3, <2>1, <2>2, <2>3, MayShowGrows
  <2> QED
    BY <1>3, <2>4, ShownIsKept
<1>9. TypeInv'
  BY <1>1, <1>5, <1>7, SameKind DEF IInv, TypeInv
<1>10. BoundInv'
  <2>1. events \in Seq(Events) /\ outputs \in Seq(Commands)
    BY DEF IInv, TypeInv
  <2> QED
    BY <1>1, <1>2, <1>5, <2>1, BoundsAssumption DEF IInv, BoundInv
<1>11. ReportedInv' /\ EventInv'
  BY <1>1 DEF IInv, ReportedInv, EventInv
<1>12. SupportedInv'
  BY <1>1, SameKind DEF IInv, SupportedInv
<1>13. TablesInv'
  BY <1>1, SameKind DEF IInv, TablesInv, AssetOf, Stored
<1>14. PassInv'
  BY <1>1, <1>3, PassKept DEF IInv, PassInv
<1>15. CommandInv'
  <2>1. Kind' = Kind
    BY <1>1, SameKind
  <2>2. \A i \in DOMAIN outputs' :
          (i \in DOMAIN outputs /\ outputs'[i] = outputs[i]) \/ outputs'[i] = e
    BY <1>1, <1>4, <1>5
  <2> QED
    BY <1>1, <1>4, <2>1, <2>2 DEF IInv, CommandInv
<1> QED
  BY <1>8, <1>9, <1>10, <1>11, <1>12, <1>13, <1>14, <1>15 DEF IInv

\* The input row that takes a command keeps its place in the tables, and no link leads
\* to it.
LEMMA UpdateKeepsTables ==
  ASSUME IInv, UNCHANGED <<channel, inEliona>>,
         NEW input \in db.datapoint, input.is_input,
         NEW v \in Settings, db' = UpdateDatapoint(db, input, v)
  PROVE  db' \in Databases /\ TablesInv'
<1> DEFINE row == [input EXCEPT !.last_written_value = {v}]
<1>1. db \in Databases /\ input \in DatapointRows
  BY DEF IInv, TypeInv, Databases
<1>2. db' = [db EXCEPT !.datapoint = (@ \ {input}) \union {row}]
  BY DEF UpdateDatapoint, Update
<1>3. /\ row \in DatapointRows /\ row.asset_id = input.asset_id
      /\ row.is_input = input.is_input /\ row.function = input.function
  BY <1>1 DEF DatapointRows
<1> HIDE DEF row
<1>4. /\ db' \in Databases
      /\ db'.asset = db.asset /\ db'.configuration = db.configuration
      /\ db'.datapoint = (db.datapoint \ {input}) \union {row}
      /\ db'.datapoint_attribute = db.datapoint_attribute
  BY <1>1, <1>2, <1>3 DEF Databases
<1>5. /\ \A a \in db'.asset :
              a.project_id \in inEliona' /\ a.configuration_id \in db'.configuration
      /\ \A d \in db'.datapoint : AssetOf(db', d) # {} /\ Stored(d)'
  BY <1>3, <1>4, SameKind DEF IInv, TablesInv, AssetOf, Stored
<1>6. Kind' = Kind
  BY SameKind
<1>7. \A l \in db'.datapoint_attribute :
        /\ l.datapoint \in db'.datapoint /\ ~ l.datapoint.is_input
        /\ \E o \in Kind'.outputs :
             o.attribute = l.attribute_name /\ o.datapoint = l.datapoint.datapoint
  BY <1>4, <1>6 DEF IInv, TablesInv
<1> QED
  BY <1>4, <1>5, <1>7 DEF TablesInv

\* The answer of the device, or its silence.
LEMMA SetInputKeeps ==
  ASSUME IInv, UNCHANGED channel, NEW datapoint, NEW v \in Settings,
         SetInput(datapoint, v)
  PROVE  /\ device' \in [Pids(channel.fid) -> Texts]
         /\ reported' \in [Pids(channel.fid) -> SUBSET Texts]
         /\ \A q \in Pids(channel.fid) : reported[q] \subseteq reported'[q]
         /\ events' \in Seq(Events)
         /\ Len(events') <= Len(events) + 1
         /\ ReportedInv'
         /\ EventInv'
<1>1. CASE \E pid : Becomes(pid, Text(v.number))
  <2>1. PICK pid : Becomes(pid, Text(v.number))
    BY <1>1
  <2>2. Text(v.number) \in Texts
    BY Always DEF Number, Settings, Zero
  <2> QED
    BY <2>1, <2>2, BecomesKeeps DEF IInv
<1>2. CASE UNCHANGED <<device, reported, events>>
  BY <1>2 DEF IInv, TypeInv, ReportedInv, EventInv
<1> QED
  BY <1>1, <1>2 DEF SetInput

\* The trigger of a scene goes back to zero, which may be shown of it.
LEMMA AfterSetInputKeeps ==
  ASSUME IInv, NEW function, NEW datapoint, AfterSetInput(function, datapoint),
         \E i \in Kind.inputs : i.function = function
  PROVE  /\ shown' \in [Projects -> [Keys -> Values]]
         /\ \A p \in Projects : \A k \in Keys : shown'[p][k] \in MayHave(k)
<1>1. CASE shown' = shown
  BY <1>1 DEF IInv, TypeInv, ShownInv
<1>2. CASE /\ function = "set_scene"
           /\ \E row \in FindOutputDatapoint(db, Gai, datapoint) : UpsertDatapointData(row, Text(0))
  <2>1. PICK row \in FindOutputDatapoint(db, Gai, datapoint) : UpsertDatapointData(row, Text(0))
    BY <1>2
  <2>2. Kind \in Kinds
    BY SupportedKinds DEF Kind, KindOf
  <2>3. \A o \in Kind.outputs : o.attribute \in Stateless
    BY <1>2, <2>2, SceneTriggers DEF Stateless
  <2>4. convertToNumber(Text(0)) = Zero
    BY WordsAssumption DEF convertToNumber, IsNumeric, Text, Zero
  <2>5. \A o \in Kind.outputs : convertToNumber(Text(0)) \in MayShow(o.attribute)
    BY <2>3, <2>4 DEF MayShow
  <2> QED
    BY <2>1, <2>5, Always, UpsertKeeps DEF IInv
<1> QED
  BY <1>1, <1>2 DEF AfterSetInput

\* A command: the device may answer, the input row is updated, a trigger is reset.
LEMMA SetAssetKeeps ==
  ASSUME IInv, SetAsset PROVE IInv'
<1> DEFINE o == Head(outputs)
           inputs == FetchInput(db, o.project, o.attribute)
<1>1. /\ UNCHANGED <<channel, account, inEliona, pass, covered, changes, commands>>
      /\ outputs # << >> /\ outputs' = Tail(outputs)
      /\ running' \in BOOLEAN
  BY DEF SetAsset, counters, IInv, TypeInv
<1>2. /\ outputs' \in Seq(Commands) /\ Len(outputs') = Len(outputs) - 1 /\ CommandInv'
      /\ o.value \in Settings
  <2>1. outputs' \in Seq(Commands) /\ Len(outputs') = Len(outputs) - 1 /\ CommandInv'
    BY <1>1, CommandsTaken DEF IInv
  <2>2. o \in Commands
    BY <1>1 DEF IInv, TypeInv
  <2> QED
    BY <2>1, <2>2 DEF Commands
<1>3. \/ UNCHANGED <<device, reported, events, db, shown>>
      \/ \E input \in inputs :
           /\ SetInput(input.datapoint, o.value)
           /\ db' = UpdateDatapoint(db, input, o.value)
           /\ AfterSetInput(o.attribute, input.datapoint)
  BY DEF SetAsset
<1>4. /\ device' \in [Pids(channel.fid) -> Texts]
      /\ reported' \in [Pids(channel.fid) -> SUBSET Texts]
      /\ \A q \in Pids(channel.fid) : reported[q] \subseteq reported'[q]
      /\ events' \in Seq(Events)
      /\ Len(events') <= Len(events) + 1
      /\ ReportedInv'
      /\ EventInv'
      /\ shown' \in [Projects -> [Keys -> Values]]
      /\ \A p \in Projects : \A k \in Keys : shown'[p][k] \in MayHave(k)
      /\ db' \in Databases /\ TablesInv'
  <2>1. CASE UNCHANGED <<device, reported, events, db, shown>>
    <3>1. db' \in Databases /\ TablesInv'
      BY <1>1, <2>1, SameKind DEF IInv, TypeInv, TablesInv, AssetOf, Stored
    <3>2. Len(events) <= Len(events) + 1
      BY DEF IInv, TypeInv
    <3>3. ReportedInv' /\ EventInv'
      BY <2>1 DEF IInv, ReportedInv, EventInv
    <3> QED
      BY <2>1, <3>1, <3>2, <3>3 DEF IInv, TypeInv, ShownInv
  <2>2. CASE \E input \in inputs :
              /\ SetInput(input.datapoint, o.value)
              /\ db' = UpdateDatapoint(db, input, o.value)
              /\ AfterSetInput(o.attribute, input.datapoint)
    <3>1. PICK input \in inputs :
            /\ SetInput(input.datapoint, o.value)
            /\ db' = UpdateDatapoint(db, input, o.value)
            /\ AfterSetInput(o.attribute, input.datapoint)
      BY <2>2
    <3>2. /\ SetInput(input.datapoint, o.value) /\ db' = UpdateDatapoint(db, input, o.value)
          /\ o.value \in Settings
      BY <1>2, <3>1
    <3>3. input \in db.datapoint /\ input.is_input /\ input.function = o.attribute
      BY <3>1 DEF FetchInput
    <3>4. db' \in Databases /\ TablesInv'
      BY <1>1, <3>2, <3>3, UpdateKeepsTables
    <3>5. /\ device' \in [Pids(channel.fid) -> Texts]
          /\ reported' \in [Pids(channel.fid) -> SUBSET Texts]
          /\ \A q \in Pids(channel.fid) : reported[q] \subseteq reported'[q]
          /\ events' \in Seq(Events)
          /\ Len(events') <= Len(events) + 1
          /\ ReportedInv'
          /\ EventInv'
      BY <1>1, <3>2, SetInputKeeps
    <3>6. /\ shown' \in [Projects -> [Keys -> Values]]
          /\ \A p \in Projects : \A k \in Keys : shown'[p][k] \in MayHave(k)
      <4>1. \E i \in Kind.inputs : i.function = o.attribute
        BY <3>3 DEF IInv, TablesInv, Stored
      <4> QED
        BY <3>1, <4>1, AfterSetInputKeeps
    <3> QED
      BY <3>4, <3>5, <3>6
  <2> QED
    BY <1>3, <2>1, <2>2
<1>5. Grows
  BY <1>1, <1>4 DEF Grows
<1>6. ShownInv'
  BY <1>4, <1>5, MayShowGrows, ShownIsKept
<1>7. TypeInv'
  BY <1>1, <1>2, <1>4, SameKind DEF IInv, TypeInv
<1>8. BoundInv'
  <2>1. events \in Seq(Events) /\ outputs \in Seq(Commands)
    BY DEF IInv, TypeInv
  <2> QED
    BY <1>1, <1>2, <1>4, <2>1, BoundsAssumption DEF IInv, BoundInv
<1>9. SupportedInv'
  BY <1>1, SameKind DEF IInv, SupportedInv
<1>10. PassInv'
  BY <1>1, <1>5, PassKept DEF IInv, PassInv
<1> QED
  BY <1>2, <1>4, <1>6, <1>7, <1>8, <1>9, <1>10 DEF IInv

\* A restart forgets what was on its way.
LEMMA RestartKeeps ==
  ASSUME IInv, Restart PROVE IInv'
<1>1. /\ UNCHANGED <<channel, account, device, reported, db, inEliona, shown, changes, commands>>
      /\ pass' = Idle /\ covered' = {} /\ events' = << >> /\ outputs' = << >> /\ running' = TRUE
  BY DEF Restart, atABB, counters
<1>2. /\ BoundInv' /\ ReportedInv' /\ TablesInv' /\ EventInv' /\ CommandInv'
      /\ ShownInv' /\ events' \in Seq(Events) /\ outputs' \in Seq(Commands)
  BY <1>1, QuietStep
<1>3. TypeInv'
  <2>1. 1 \in Projects
    BY BoundsAssumption DEF Projects
  <2> QED
    BY <1>1, <1>2, <2>1, SameKind DEF IInv, TypeInv, Idle
<1>4. SupportedInv'
  BY <1>1, SameKind DEF IInv, SupportedInv, Idle
<1>5. PassInv'
  BY <1>1 DEF PassInv, Idle
<1> QED
  BY <1>2, <1>3, <1>4, <1>5 DEF IInv

\* Deleting the configuration leaves no row that refers to a deleted one.
LEMMA DeleteConfigKeeps ==
  ASSUME IInv, DeleteConfig PROVE IInv'
<1>1. /\ UNCHANGED <<channel, account, device, reported, pass, covered, running, inEliona>>
      /\ UNCHANGED <<shown, events, outputs, changes, commands>>
      /\ db' = DeleteConfiguration(db, Config)
  BY DEF DeleteConfig, atABB
<1> DEFINE assets == {a \in db.asset : a.configuration_id = Config}
           ids == {a.asset_id : a \in assets}
<1>2. db' = [configuration |-> db.configuration \ {Config},
             asset |-> db.asset \ assets,
             datapoint |-> {d \in db.datapoint : d.asset_id \notin ids},
             datapoint_attribute |->
               {l \in db.datapoint_attribute : l.datapoint.asset_id \notin ids}]
  BY <1>1 DEF DeleteConfiguration
<1>3. db \in Databases
  BY DEF IInv, TypeInv
<1>4. db' \in Databases
  <2> HIDE DEF assets, ids
  <2> QED
    BY <1>2, <1>3 DEF Databases
<1>5. TablesInv'
  <2>1. \A a \in db'.asset :
             a.project_id \in inEliona' /\ a.configuration_id \in db'.configuration
    BY <1>1, <1>2 DEF IInv, TablesInv
  <2>2. ASSUME NEW d \in db'.datapoint PROVE AssetOf(db', d) # {} /\ Stored(d)'
    <3>1. d \in db.datapoint /\ d.asset_id \notin ids
      BY <1>2
    <3>2. PICK a \in db.asset : a.asset_id = d.asset_id
      BY <3>1 DEF IInv, TablesInv, AssetOf
    <3>3. a \in db'.asset
      BY <1>2, <3>1, <3>2
    <3>4. Stored(d)'
      BY <1>1, <3>1, SameKind DEF IInv, TablesInv, Stored
    <3> QED
      BY <3>2, <3>3, <3>4 DEF AssetOf
  <2>3. \A l \in db'.datapoint_attribute :
          /\ l.datapoint \in db'.datapoint /\ ~ l.datapoint.is_input
          /\ \E o \in Kind'.outputs :
               o.attribute = l.attribute_name /\ o.datapoint = l.datapoint.datapoint
    BY <1>1, <1>2, SameKind DEF IInv, TablesInv
  <2> QED
    BY <2>1, <2>2, <2>3 DEF TablesInv
<1>6. /\ Grows /\ BoundInv' /\ ReportedInv' /\ EventInv' /\ CommandInv' /\ ShownInv'
  BY <1>1, <1>5, QuietStep
<1>7. TypeInv'
  BY <1>1, <1>4, SameKind DEF IInv, TypeInv
<1>8. SupportedInv'
  BY <1>1, SameKind DEF IInv, SupportedInv
<1>9. PassInv'
  BY <1>1, <1>6, PassKept DEF IInv, PassInv
<1> QED
  BY <1>5, <1>6, <1>7, <1>8, <1>9 DEF IInv

\* Every step keeps the inductive invariant.
LEMMA StepKeeps ==
  ASSUME IInv, [Next]_vars PROVE IInv'
<1>1. CASE DeviceChanges
  BY <1>1, DeviceChangesKeeps
<1>2. CASE GrantPermissions
  BY <1>2, GrantPermissionsKeeps
<1>3. CASE PassStep
  BY <1>3, GetSystemsKeeps, CreateAssetKeeps, StoreAssetKeeps, StoreInputsKeeps,
     StoreOutputsKeeps, UpsertSystemsDataKeeps DEF PassStep
<1>4. CASE Subscribe
  BY <1>4, SubscribeKeeps
<1>5. CASE StreamEnds
  BY <1>5, StreamEndsKeeps
<1>6. CASE StoreEvent
  BY <1>6, StoreEventKeeps
<1>7. CASE EventLost
  BY <1>7, EventLostKeeps
<1>8. CASE \E p \in Projects, v \in Settings : UserSets(p, v)
  BY <1>8, UserSetsKeeps
<1>9. CASE SetAsset
  BY <1>9, SetAssetKeeps
<1>10. CASE Restart
  BY <1>10, RestartKeeps
<1>11. CASE DeleteConfig
  BY <1>11, DeleteConfigKeeps
<1>12. CASE UNCHANGED vars
  <2>1. /\ UNCHANGED <<channel, account, device, reported, db, pass, covered, running, inEliona>>
        /\ UNCHANGED <<shown, events, outputs, changes, commands>>
    BY <1>12 DEF vars, atABB, inApp, counters
  <2>2. /\ Grows /\ BoundInv' /\ ReportedInv' /\ TablesInv' /\ EventInv' /\ CommandInv'
        /\ ShownInv'
    BY <2>1, QuietStep
  <2>3. TypeInv'
    BY <2>1, SameKind DEF IInv, TypeInv
  <2>4. SupportedInv'
    BY <2>1, SameKind DEF IInv, SupportedInv
  <2>5. PassInv'
    BY <2>1, <2>2, PassKept DEF IInv, PassInv
  <2> QED
    BY <2>2, <2>3, <2>4, <2>5 DEF IInv
<1> QED
  BY <1>1, <1>2, <1>3, <1>4, <1>5, <1>6, <1>7, <1>8, <1>9, <1>10, <1>11, <1>12 DEF Next

\* The inductive invariant holds in every reachable state.
LEMMA AlwaysIInv == Spec => []IInv
<1>1. Init => IInv
  BY Starts
<1>2. IInv /\ [Next]_vars => IInv'
  BY StepKeeps
<1> QED
  BY <1>1, <1>2, PTL DEF Spec

-----------------------------------------------------------------------------
(* The theorems *)

\* The variables keep their types, whatever pairing the channel lacks: rows refer to
\* rows that are there, and there is no more to store than was changed and set.
THEOREM TypeCorrect == Spec => []TypeOK
<1>1. IInv => TypeOK
  <2> SUFFICES ASSUME IInv PROVE TypeOK
    OBVIOUS
  <2>1. /\ account \in {"absent", "created", "granted"}
        /\ inEliona \subseteq Projects
        /\ DOMAIN shown = Projects
        /\ \A p \in Projects : DOMAIN shown[p] = Keys /\ \A k \in Keys : shown[p][k] \in Values
        /\ pass.at \in {"idle", "asset", "row", "inputs", "outputs", "data"}
        /\ pass.project \in Projects
        /\ running \in BOOLEAN
    BY DEF IInv, TypeInv
  <2>2. \A pid \in DOMAIN device : device[pid] \in Values /\ reported[pid] \subseteq Values
    BY Always DEF IInv, TypeInv
  <2>3. /\ \A a \in db.asset : a.project_id \in inEliona /\ a.configuration_id \in db.configuration
        /\ \A d \in db.datapoint : AssetOf(db, d) # {}
        /\ \A l \in db.datapoint_attribute : l.datapoint \in db.datapoint
    BY DEF IInv, TablesInv
  <2>4. Len(events) <= MaxChanges + MaxCommands /\ Len(outputs) <= MaxCommands
    <3>1. events \in Seq(Events) /\ outputs \in Seq(Commands)
      BY DEF IInv, TypeInv
    <3> QED
      BY <3>1, BoundsAssumption DEF IInv, BoundInv
  <2> QED
    BY <2>1, <2>2, <2>3, <2>4 DEF TypeOK
<1> QED
  BY <1>1, AlwaysIInv, PTL

\* Whatever collections, subscription and commands interleave, whatever the channel
\* lacks and whenever the configuration is deleted or the process restarts: Eliona shows
\* for an attribute other than the colours of hue lights only what was reported for a
\* datapoint linked to it or set there by a user; scenes' triggers also show zero
\* (broker.go:222, data.go:83, app.go:282).
THEOREM NeverInvents == Spec => []NothingInvented
<1>1. IInv => NothingInvented
  BY DEF IInv, ShownInv, NothingInvented, MayHave, MayShow
<1> QED
  BY <1>1, AlwaysIInv, PTL

\* A command for a channel whose inputs are all stored never ends the process
\* (app.go:285).
THEOREM StoredStaysUp == Spec => StoredNeverFatal
<1>1. ASSUME IInv, SetAsset, running, ~ running'
      PROVE  {d.function : d \in {e \in db.datapoint :
                e.is_input /\ e.asset_id = Head(outputs).project}}
              # {i.function : i \in Kind.inputs}
  <2> DEFINE o == Head(outputs)
             stored == {d.function : d \in {e \in db.datapoint :
                          e.is_input /\ e.asset_id = Head(outputs).project}}
  <2>1. outputs # << >> /\ FetchInput(db, o.project, o.attribute) = {}
    BY <1>1 DEF SetAsset
  <2>2. o.attribute \notin stored
    BY <2>1 DEF FetchInput
  <2>3. /\ o.project \in inEliona
        /\ o.attribute \in DOMAIN Declared[Kind.type]
        /\ Declared[Kind.type][o.attribute] = "output"
    <3>1. outputs \in Seq(Commands)
      BY <1>1 DEF IInv, TypeInv
    <3>2. 1 \in DOMAIN outputs /\ o = outputs[1]
      BY <2>1, <3>1
    <3> QED
      BY <1>1, <3>2 DEF IInv, CommandInv
  <2>4. Kind \in Kinds
    BY <1>1, <2>3, SupportedKinds DEF IInv, SupportedInv, IsSupported, Kind, KindOf
  <2>5. \E i \in Kind.inputs : i.function = o.attribute
    BY <2>3, <2>4, KindsSettle
  <2> QED
    BY <2>2, <2>5
<1>2. IInv /\ [Next]_vars
        => [running /\ ~ running' =>
              {d.function : d \in {e \in db.datapoint :
                  e.is_input /\ e.asset_id = Head(outputs).project}}
                # {i.function : i \in Kind.inputs}]_vars
  <2> SUFFICES ASSUME IInv, [Next]_vars, running, ~ running'
               PROVE  {d.function : d \in {e \in db.datapoint :
                         e.is_input /\ e.asset_id = Head(outputs).project}}
                       # {i.function : i \in Kind.inputs}
    OBVIOUS
  <2>1. SetAsset
    BY DEF Next, PassStep, DeviceChanges, GrantPermissions, GetSystems, CreateAsset,
       StoreAsset, StoreInputs, StoreOutputs, UpsertSystemsData, Subscribe, StreamEnds,
       StoreEvent, EventLost, UserSets, Restart, DeleteConfig, vars, inApp
  <2> QED
    BY <1>1, <2>1
<1> QED
  BY <1>2, AlwaysIInv, PTL DEF Spec, StoredNeverFatal

=============================================================================
