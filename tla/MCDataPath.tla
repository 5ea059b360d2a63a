----------------------------- MODULE MCDataPath -----------------------------
(* DataPath for TLC: for each case of broker.GetSystems each pairing changes    *)
(* once, to a number beyond int8 or to a text, while a user sets the attribute  *)
(* it is linked to; in some channels a pairing is missing or what users set has *)
(* no answer; some are connected through ProService, one is not supported.      *)
EXTENDS DataPath

CONSTANTS word

Changing(fid) ==
  {[fid |-> fid, connection |-> "MyBuildings", missing |-> NoPid, focus |-> o.datapoint[2],
    change |-> Text(IF o.function \in {"hsv", "status"} THEN word ELSE 200),
    command |-> o.attribute] : o \in Supported[fid].outputs}

Plain(fid, connection, missing, command) ==
  [fid |-> fid, connection |-> connection, missing |-> missing, focus |-> NoPid,
   change |-> Text(0), command |-> command]

MCChannels ==
  UNION {Changing(fid) : fid \in {
    FID.SWITCH_ACTUATOR, FID.DIMMING_ACTUATOR, FID.HUE_ACTUATOR,
    FID.ROOM_TEMPERATURE_CONTROLLER_SLAVE, FID.RADIATOR_THERMOSTAT, FID.WINDOW_DOOR_SENSOR,
    FID.WINDOW_DOOR_POSITION_SENSOR, FID.MOVEMENT_DETECTOR, FID.SMOKE_DETECTOR,
    FID.DES_LEVEL_CALL_ACTUATOR, FID.WELCOME_IP_MUTE_ACTUATOR, FID.HEATING_ACTUATOR,
    FID.SCENE, FID.WALLBOX}}
  \union {Plain(FID.HUE_ACTUATOR, "MyBuildings", NoPid, a) :
            a \in {"hsv_hue", "hsv_saturation", "hsv_value"}}
  \union {Plain(FID.RADIATOR_THERMOSTAT, "ProService", PID.MEASURED_TEMPERATURE, a) :
            a \in {"presence", "window_door"}}
  \union {Plain(FID.DIMMING_ACTUATOR, "MyBuildings", PID.ABSOLUTE_VALUE_0_100_SET, "dimmer"),
          Plain(FID.SCENE, "ProService", NoPid, "set_scene"),
          Plain(FID.SPECIAL_SCENE_PANIC, "ProService", PID.AL_SCENE_CONTROL, "set_scene"),
          Plain(FID.PANEL_WALLBOX, "ProService", PID.AL_INFO_CHARGING, "switch"),
          Plain(FID.BLIND_ACTUATOR, "MyBuildings", NoPid, "switch")}
=============================================================================
