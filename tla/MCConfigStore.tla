---------------------------- MODULE MCConfigStore ----------------------------
(* Bodies for TLC: a complete configuration, the smallest one, one with an id *)
(* and one that is active but disabled.                                       *)
EXTENDS ConfigStore

CONSTANT token

MCTypes == {"MyBuildings", "ProService"}
MCTokens == {token}
MCBodies == {
  [id |-> 0, type |-> "MyBuildings", enable |-> TRUE, active |-> NULL, refresh |-> 3600, token |-> NULL],
  [id |-> 0, type |-> "other", enable |-> NULL, active |-> NULL, refresh |-> 0, token |-> NULL],
  [id |-> 2, type |-> "ProService", enable |-> FALSE, active |-> TRUE, refresh |-> 0, token |-> token],
  [id |-> 0, type |-> "other", enable |-> TRUE, active |-> FALSE, refresh |-> 60, token |-> NULL]}
=============================================================================
