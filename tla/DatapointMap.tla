---------------------------- MODULE DatapointMap ----------------------------
(***************************************************************************)
(* What the app knows about ABB's channels: the ids of functions and         *)
(* pairings (src/model/abb.go), the tags of the asset structs                *)
(* (src/model/model.go), the table of broker.GetSystems that maps a channel's *)
(* datapoints to functions and attributes, and what each path makes of a      *)
(* value ABB reports as text.                                                *)
(*                                                                         *)
(* A constant module. A reported text is the number it spells, or one of Words  *)
(* when it spells none; NoValue is the empty text.                            *)
(***************************************************************************)
EXTENDS Integers

CONSTANTS
  Words,    \* texts that are no number
  NoValue   \* the empty text

ASSUME WordsAssumption ==
  /\ NoValue \notin Words
  /\ Nat \intersect (Words \union {NoValue}) = {}

-----------------------------------------------------------------------------
(* Ids *)

FID == [
  SWITCH_SENSOR |-> \h0000, DIMMING_SENSOR |-> \h0001, BLIND_SENSOR |-> \h0003,
  SWITCH_ACTUATOR |-> \h0007, SHUTTER_ACTUATOR |-> \h0009,
  ROOM_TEMPERATURE_CONTROLLER_MASTER_WITH_FAN |-> \h000A,
  ROOM_TEMPERATURE_CONTROLLER_SLAVE |-> \h000B, DIMMING_ACTUATOR |-> \h0012,
  ROOM_TEMPERATURE_CONTROLLER_MASTER_WITHOUT_FAN |-> \h0023,
  BLIND_ACTUATOR |-> \h0061, ATTIC_WINDOW_ACTUATOR |-> \h0062,
  AWNING_ACTUATOR |-> \h0063, SMOKE_DETECTOR |-> \h007D, LightGroup |-> \h4000,
  DimmerGroup |-> \h4001, TimerProgramSwitchActuator |-> \h4A00, Scence |-> \h4A01,
  DES_LEVEL_CALL_ACTUATOR |-> \h001D, DES_AUTOMATIC_DOOR_OPENER_ACTUATOR |-> \h0020,
  DES_DOOR_OPENER_ACTUATOR |-> \h001A, DES_LIGHT_SWITCH_ACTUATOR |-> \h0021,
  PANEL_SWITCH_SENSOR |-> \h0030, PANEL_BLIND_SENSOR |-> \h0033,
  PANEL_SCENE_SENSOR |-> \h0037, DES_DOOR_RINGING_SENSOR |-> \h001F,
  PANEL_ROOM_TEMPERATURE_CONTROLLER_SLAVE |-> \h0038, HEATING_ACTUATOR |-> \h0027,
  RADIATOR_THERMOSTAT |-> \h003F, COOLING_ACTUATOR |-> \h0024, SCENE_SENSOR |-> \h0006,
  MOVEMENT_DETECTOR |-> \h0011, WINDOW_DOOR_SENSOR |-> \h000F,
  WINDOW_DOOR_POSITION_SENSOR |-> \h0064, HUE_ACTUATOR |-> \h002E,
  WELCOME_IP_MUTE_ACTUATOR |-> \h005D, WALLBOX |-> \h00A6, PANEL_WALLBOX |-> \h00A7,
  SCENE |-> \h4800, SPECIAL_SCENE_PANIC |-> \h4801, SPECIAL_SCENE_ALL_OFF |-> \h4802,
  SPECIAL_SCENE_ALL_BLINDS_UP |-> \h4803, SPECIAL_SCENE_ALL_BLINDS_DOWN |-> \h4804]

\* The channels ABB is asked for: all known ones.
GetFunctionIDsList == {FID[name] : name \in DOMAIN FID}

\* The pairings that broker.GetSystems looks for.
PID == [
  SWITCH_ON_OFF_SET |-> \h0001, TIMED_START_STOP |-> \h0002, AL_SCENE_CONTROL |-> \h0004,
  PRESENCE |-> \h0007, ABSOLUTE_VALUE_0_100_SET |-> \h0011,
  ACTUATING_VALUE_HEATING |-> \h0030, AL_INFO_VALUE_HEATING |-> \h0131,
  SETPOINT_TEMPERATURE_GET |-> \h0033, HEATING_MODE_GET |-> \h0036,
  CONTROLLER_ON_OFF_PROTECTED_GET |-> \h0038, CONTROLLER_REQ_ON_OFF_SET |-> \h0042,
  ON_OFF_INFO_GET |-> \h0100, ACTUAL_DIM_VALUE_0_100_GET |-> \h0110,
  MEASURED_TEMPERATURE |-> \h0130, ABS_TEMPERATURE_SET |-> \h0140,
  HEATING_ACTIVE |-> \h014B, HEATING_VALUE |-> \h0131,
  MOVEMENT_UNDER_CONSIDERATION_OF_BRIGHTNESS |-> \h0006, AL_WINDOW_DOOR |-> \h0035,
  AL_WINDOW_DOOR_POSITION |-> \h0029, HSV_COLOR_GET |-> \h011B, HSV_HUE_SET |-> \h0018,
  HSV_SATURATION_SET |-> \h0019, HSV_VALUE_SET |-> \h001A, COLOR_MODE_GET |-> \h011D,
  COLOR_TEMPERATURE_GET |-> \h0118, COLOR_TEMPERATURE_SET |-> \h0016,
  FIRE_ALARM_ACTIVE |-> \h02C3, AL_SWITCH_CHARGING |-> \h04B1,
  AL_STOP_ENABLE_CHARGING_REQUEST |-> \h04B2, AL_INFO_WALLBOX_STATUS |-> \h04B4,
  AL_INFO_CHARGING |-> \h04B5, AL_INFO_CHARGING_ENABLED |-> \h04B6,
  AL_INFO_INSTALLED_POWER |-> \h04B7, AL_INFO_ENERGY_TRANSMITTED |-> \h04B8,
  AL_INFO_START_OF_CHARGING_SESSION |-> \h04BA]

\* The functions of outputs that reach ABB: a change of another attribute is ignored.
Functions == {
  "status", "switch", "enable", "dimmer", "measured_temperature", "set_temperature",
  "heating_flow", "actuator_heating_flow", "heating_active", "heating_value",
  "status_indication", "presence", "window_door", "hsv", "hsv_hue", "hsv_saturation",
  "hsv_value", "color_mode", "color_temperature", "set_scene", "mute_button",
  "floor_call", "installed_power", "total_energy", "start_last_charging"}

-----------------------------------------------------------------------------
(* The structs a collection writes: the subtype of each attribute *)

Fields(attributes, subtype) == [a \in attributes |-> subtype]

Join(f, g) == [x \in DOMAIN f \union DOMAIN g |-> IF x \in DOMAIN f THEN f[x] ELSE g[x]]

LightTags == [
  switch_sensor |-> Fields({"switch"}, "output"),
  dimmer_sensor |-> Fields({"switch", "dimmer"}, "output"),
  hue_actuator |-> Join(Fields({"hsv_state", "color_mode_state"}, "input"),
                        Fields({"switch", "dimmer", "hsv_hue", "hsv_saturation",
                                "hsv_value", "color_temperature"}, "output"))]

ClimateTags == [
  room_temperature_controller |->
    Join(Fields({"current_temperature"}, "input"),
         Fields({"switch", "set_temperature"}, "output")),
  radiator_thermostat |->
    Join(Fields({"current_temperature", "status_indication", "heating_active",
                 "heating_value"}, "input"),
         Fields({"switch", "set_temperature"}, "output")),
  heating_actuator |-> Fields({"info_flow", "actuator_flow"}, "input")]

SensorTags == [
  window_sensor |-> Fields({"position"}, "input"),
  door_sensor |-> Fields({"position"}, "input"),
  movement_sensor |-> Fields({"movement"}, "input"),
  smoke_detector |-> Fields({"fire"}, "input")]

ButtonTags == [
  floor_call_button |-> Fields({"floor_call"}, "output"),
  mute_button |-> Fields({"mute_button"}, "output"),
  scene |-> Fields({"set_scene"}, "output")]

WallboxTags == [
  wallbox |-> Join(Fields({"switch", "enable"}, "output"),
                   Join(Fields({"installed_power"}, "status"),
                        Fields({"total_energy", "start_last_charging", "status"}, "input")))]

Tags == Join(LightTags, Join(ClimateTags, Join(SensorTags, Join(ButtonTags, WallboxTags))))

\* The attributes of the asset types as the app registers them with Eliona
\* (resources/asset-types).
Declared == [type \in DOMAIN Tags |->
  CASE type = "wallbox" -> [Tags[type] EXCEPT !["installed_power"] = "info"]
    [] type = "radiator_thermostat" ->
         Join(Tags[type], Fields({"presence", "window_door"}, "output"))
    [] OTHER -> Tags[type]]

-----------------------------------------------------------------------------
(* broker.GetSystems: the channels the app supports                        *)
(*   outputs  the output datapoints that are stored, each with the function  *)
(*            it is stored under and the attribute it is linked to           *)
(*   inputs   the input datapoints that are stored, with their function      *)
(*   reads    the attributes a collection fills: how, and from which pairing *)

\* A datapoint is named by its direction and pairing: a channel has one of each.
Odp(pid) == <<"odp", pid>>
Idp(pid) == <<"idp", pid>>

Output(pid, function, attribute) ==
  [datapoint |-> Odp(pid), function |-> function, subtype |-> "output", attribute |-> attribute]
Input(pid, function, attribute) ==
  [Output(pid, function, attribute) EXCEPT !.subtype = "input"]
Set(pid, function) == [datapoint |-> Idp(pid), function |-> function]

SwitchActuator == [
  type |-> "switch_sensor",
  outputs |-> {Output(PID.ON_OFF_INFO_GET, "switch", "switch")},
  inputs |-> {Set(PID.SWITCH_ON_OFF_SET, "switch")},
  reads |-> [switch |-> <<"int8", PID.ON_OFF_INFO_GET>>]]

DimmingActuator == [
  type |-> "dimmer_sensor",
  outputs |-> {Output(PID.ON_OFF_INFO_GET, "switch", "switch"),
               Output(PID.ACTUAL_DIM_VALUE_0_100_GET, "dimmer", "dimmer")},
  inputs |-> {Set(PID.SWITCH_ON_OFF_SET, "switch"),
              Set(PID.ABSOLUTE_VALUE_0_100_SET, "dimmer")},
  reads |-> [switch |-> <<"int8", PID.ON_OFF_INFO_GET>>,
             dimmer |-> <<"int8", PID.ACTUAL_DIM_VALUE_0_100_GET>>]]

HueActuator == [
  type |-> "hue_actuator",
  outputs |-> {Output(PID.ON_OFF_INFO_GET, "switch", "switch"),
               Output(PID.ACTUAL_DIM_VALUE_0_100_GET, "dimmer", "dimmer"),
               Input(PID.HSV_COLOR_GET, "hsv", "hsv_state"),
               Input(PID.COLOR_MODE_GET, "color_mode", "color_mode_state"),
               Output(PID.COLOR_TEMPERATURE_GET, "color_temperature", "color_temperature")},
  inputs |-> {Set(PID.SWITCH_ON_OFF_SET, "switch"),
              Set(PID.ABSOLUTE_VALUE_0_100_SET, "dimmer"),
              Set(PID.HSV_HUE_SET, "hsv_hue"),
              Set(PID.HSV_SATURATION_SET, "hsv_saturation"),
              Set(PID.HSV_VALUE_SET, "hsv_value"),
              Set(PID.COLOR_TEMPERATURE_SET, "color_temperature")},
  reads |-> [switch |-> <<"int8", PID.ON_OFF_INFO_GET>>,
             dimmer |-> <<"int8", PID.ACTUAL_DIM_VALUE_0_100_GET>>,
             hsv_state |-> <<"text", PID.HSV_COLOR_GET>>,
             color_mode_state |-> <<"text", PID.COLOR_MODE_GET>>,
             color_temperature |-> <<"int8", PID.COLOR_TEMPERATURE_GET>>]]

MutRoomTemperatureControllerCopied == [
  type |-> "room_temperature_controller",
  outputs |-> {Output(PID.CONTROLLER_ON_OFF_PROTECTED_GET, "switch", "switch"),
               Input(PID.MEASURED_TEMPERATURE, "measured_temperature", "current_temperature"),
               Output(PID.SETPOINT_TEMPERATURE_GET, "set_temperature", "set_temperature")},
  inputs |-> {Set(PID.CONTROLLER_REQ_ON_OFF_SET, "switch"),
              Set(PID.ABS_TEMPERATURE_SET, "set_temperature")},
  reads |-> [switch |-> <<"int8", PID.CONTROLLER_ON_OFF_PROTECTED_GET>>,
             current_temperature |-> <<"float", PID.SETPOINT_TEMPERATURE_GET>>,
             set_temperature |-> <<"float", PID.SETPOINT_TEMPERATURE_GET>>]]

RoomTemperatureController == [
  type |-> "room_temperature_controller",
  outputs |-> {Output(PID.CONTROLLER_ON_OFF_PROTECTED_GET, "switch", "switch"),
               Input(PID.MEASURED_TEMPERATURE, "measured_temperature", "current_temperature"),
               Output(PID.SETPOINT_TEMPERATURE_GET, "set_temperature", "set_temperature")},
  inputs |-> {Set(PID.CONTROLLER_REQ_ON_OFF_SET, "switch"),
              Set(PID.ABS_TEMPERATURE_SET, "set_temperature")},
  reads |-> [switch |-> <<"int8", PID.CONTROLLER_ON_OFF_PROTECTED_GET>>,
             current_temperature |-> <<"float", PID.MEASURED_TEMPERATURE>>,
             set_temperature |-> <<"float", PID.SETPOINT_TEMPERATURE_GET>>]]

RadiatorThermostat == [
  type |-> "radiator_thermostat",
  outputs |-> {Output(PID.CONTROLLER_ON_OFF_PROTECTED_GET, "switch", "switch"),
               Input(PID.MEASURED_TEMPERATURE, "measured_temperature", "current_temperature"),
               Output(PID.SETPOINT_TEMPERATURE_GET, "set_temperature", "set_temperature"),
               Input(PID.HEATING_MODE_GET, "status_indication", "status_indication"),
               Input(PID.HEATING_ACTIVE, "heating_active", "heating_active"),
               Input(PID.HEATING_VALUE, "heating_value", "heating_value")},
  inputs |-> {Set(PID.CONTROLLER_REQ_ON_OFF_SET, "switch"),
              Set(PID.ABS_TEMPERATURE_SET, "set_temperature"),
              Set(PID.PRESENCE, "presence"),
              Set(PID.AL_WINDOW_DOOR, "window_door")},
  reads |-> [switch |-> <<"int8", PID.CONTROLLER_ON_OFF_PROTECTED_GET>>,
             current_temperature |-> <<"float", PID.MEASURED_TEMPERATURE>>,
             set_temperature |-> <<"float", PID.SETPOINT_TEMPERATURE_GET>>,
             status_indication |-> <<"int8", PID.HEATING_MODE_GET>>,
             heating_active |-> <<"int8", PID.HEATING_ACTIVE>>,
             heating_value |-> <<"int8", PID.HEATING_VALUE>>]]

\* The four sensors have one output each, stored under "status", and no input.
Sensor(type, pid, attribute) == [
  type |-> type,
  outputs |-> {Input(pid, "status", attribute)},
  inputs |-> {},
  reads |-> [a \in {attribute} |-> <<"int8", pid>>]]

WindowDoorSensor == Sensor("door_sensor", PID.AL_WINDOW_DOOR, "position")
WindowDoorPositionSensor == Sensor("window_sensor", PID.AL_WINDOW_DOOR_POSITION, "position")
MovementDetector ==
  Sensor("movement_sensor", PID.MOVEMENT_UNDER_CONSIDERATION_OF_BRIGHTNESS, "movement")
SmokeDetector == Sensor("smoke_detector", PID.FIRE_ALARM_ACTIVE, "fire")

DesLevelCallActuator == [
  type |-> "floor_call_button",
  outputs |-> {Output(PID.ON_OFF_INFO_GET, "floor_call", "floor_call")},
  inputs |-> {Set(PID.TIMED_START_STOP, "floor_call")},
  reads |-> [floor_call |-> <<"int8", PID.ON_OFF_INFO_GET>>]]

WelcomeIpMuteActuator == [
  type |-> "mute_button",
  outputs |-> {Output(PID.ON_OFF_INFO_GET, "mute_button", "mute_button")},
  inputs |-> {Set(PID.SWITCH_ON_OFF_SET, "mute_button")},
  reads |-> [mute_button |-> <<"int8", PID.ON_OFF_INFO_GET>>]]

HeatingActuator == [
  type |-> "heating_actuator",
  outputs |-> {Input(PID.AL_INFO_VALUE_HEATING, "heating_flow", "info_flow"),
               Input(PID.ACTUATING_VALUE_HEATING, "actuator_heating_flow", "actuator_flow")},
  inputs |-> {},
  reads |-> [info_flow |-> <<"int8", PID.AL_INFO_VALUE_HEATING>>,
             actuator_flow |-> <<"int8", PID.ACTUATING_VALUE_HEATING>>]]

\* Its only datapoint, odp0000, is set too; it is collected as 0.
Scene == [
  type |-> "scene",
  outputs |-> {Output(PID.AL_SCENE_CONTROL, "set_scene", "set_scene")},
  inputs |-> {[datapoint |-> Odp(PID.AL_SCENE_CONTROL), function |-> "set_scene"]},
  reads |-> << >>]

Wallbox == [
  type |-> "wallbox",
  outputs |-> {Output(PID.AL_INFO_CHARGING, "switch", "switch"),
               Output(PID.AL_INFO_CHARGING_ENABLED, "enable", "enable"),
               Output(PID.AL_INFO_INSTALLED_POWER, "installed_power", "installed_power"),
               Output(PID.AL_INFO_ENERGY_TRANSMITTED, "total_energy", "total_energy"),
               Output(PID.AL_INFO_START_OF_CHARGING_SESSION, "start_last_charging",
                      "start_last_charging"),
               Output(PID.AL_INFO_WALLBOX_STATUS, "status", "status")},
  inputs |-> {Set(PID.AL_SWITCH_CHARGING, "switch"),
              Set(PID.AL_STOP_ENABLE_CHARGING_REQUEST, "enable")},
  reads |-> [switch |-> <<"int8", PID.AL_INFO_CHARGING>>,
             enable |-> <<"int8", PID.AL_INFO_CHARGING_ENABLED>>,
             installed_power |-> <<"float", PID.AL_INFO_INSTALLED_POWER>>,
             total_energy |-> <<"float", PID.AL_INFO_ENERGY_TRANSMITTED>>,
             start_last_charging |-> <<"text", PID.AL_INFO_START_OF_CHARGING_SESSION>>,
             status |-> <<"text", PID.AL_INFO_WALLBOX_STATUS>>]]

RoomTemperatureControllers == {
  FID.ROOM_TEMPERATURE_CONTROLLER_MASTER_WITH_FAN,
  FID.ROOM_TEMPERATURE_CONTROLLER_MASTER_WITHOUT_FAN,
  FID.ROOM_TEMPERATURE_CONTROLLER_SLAVE}

Scenes == {FID.SCENE, FID.SPECIAL_SCENE_PANIC, FID.SPECIAL_SCENE_ALL_OFF,
           FID.SPECIAL_SCENE_ALL_BLINDS_UP, FID.SPECIAL_SCENE_ALL_BLINDS_DOWN}

Wallboxes == {FID.WALLBOX, FID.PANEL_WALLBOX}

\* Of the functions ABB is asked for, these make an asset; others are skipped.
Supported == [f \in
  {FID.SWITCH_ACTUATOR, FID.DIMMING_ACTUATOR, FID.HUE_ACTUATOR, FID.RADIATOR_THERMOSTAT,
   FID.WINDOW_DOOR_SENSOR, FID.WINDOW_DOOR_POSITION_SENSOR, FID.MOVEMENT_DETECTOR,
   FID.SMOKE_DETECTOR, FID.DES_LEVEL_CALL_ACTUATOR, FID.WELCOME_IP_MUTE_ACTUATOR,
   FID.HEATING_ACTUATOR} \union RoomTemperatureControllers \union Scenes \union Wallboxes |->
  CASE f = FID.SWITCH_ACTUATOR -> SwitchActuator
    [] f = FID.DIMMING_ACTUATOR -> DimmingActuator
    [] f = FID.HUE_ACTUATOR -> HueActuator
    [] f \in RoomTemperatureControllers -> RoomTemperatureController
    [] f = FID.RADIATOR_THERMOSTAT -> RadiatorThermostat
    [] f = FID.WINDOW_DOOR_SENSOR -> WindowDoorSensor
    [] f = FID.WINDOW_DOOR_POSITION_SENSOR -> WindowDoorPositionSensor
    [] f = FID.MOVEMENT_DETECTOR -> MovementDetector
    [] f = FID.SMOKE_DETECTOR -> SmokeDetector
    [] f = FID.DES_LEVEL_CALL_ACTUATOR -> DesLevelCallActuator
    [] f = FID.WELCOME_IP_MUTE_ACTUATOR -> WelcomeIpMuteActuator
    [] f = FID.HEATING_ACTUATOR -> HeatingActuator
    [] f \in Scenes -> Scene
    [] f \in Wallboxes -> Wallbox]

-----------------------------------------------------------------------------
(* What becomes of a reported value *)

\* ABB reports texts; Eliona stores numbers and texts.
Text(x) == [text |-> x]
Number(n) == [number |-> n]

IsNumeric(v) == v.text \notin Words \union {NoValue}

MutParseInt8Wraps(v) ==
  Number(IF ~ IsNumeric(v) THEN 0 ELSE IF v.text > 127 THEN v.text - 256 ELSE v.text)

\* strconv.ParseInt(v, 10, 8): out of range it yields the nearest int8, and for
\* a text 0; the error is logged and the result used.
parseInt8(v) ==
  Number(IF ~ IsNumeric(v) THEN 0 ELSE IF v.text > 127 THEN 127 ELSE v.text)

\* parseFloat32, parseFloat64
parseFloat(v) == Number(IF IsNumeric(v) THEN v.text ELSE 0)

\* The value a collection gives to an attribute.
Collected(kind, v) ==
  CASE kind = "int8" -> parseInt8(v)
    [] kind = "float" -> parseFloat(v)
    [] kind = "text" -> v

\* The value the subscription gives to it.
convertToNumber(v) == IF IsNumeric(v) THEN Number(v.text) ELSE v
=============================================================================
