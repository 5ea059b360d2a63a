---------------------------- MODULE MCDashboard ----------------------------
(* An instance of Dashboard: one project with an asset of each type that is      *)
(* shown, two hue lights and a wallbox, which is not, and a second project with  *)
(* a root and a switch.                                                        *)
EXTENDS Dashboard

CONSTANTS p1, p2

MCProjects == {p1, p2}

MCAssets ==
  {[id |-> "1", type |-> t, project |-> p1] :
     t \in {"root", "device", "wallbox"} \union DOMAIN ShownTypes}
  \union {[id |-> "2", type |-> "hue_actuator", project |-> p1]}
  \union {[id |-> "3", type |-> t, project |-> p2] : t \in {"root", "switch_sensor"}}
=============================================================================
