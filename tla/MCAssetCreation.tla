--------------------------- MODULE MCAssetCreation ---------------------------
(* AssetCreation for TLC: the root of the project, a system and two channels.   *)
(* One configuration reports all of them; the accounts of two configurations    *)
(* share nothing but the root.                                                 *)
EXTENDS AssetCreation, TLC

CONSTANTS c1, c2, root, system, channel1, channel2

Single == Cardinality(Configs) = 1

MCAssets == {root, system, channel1, channel2}
MCParent == (root :> root) @@ (system :> root) @@ (channel1 :> system)
              @@ (channel2 :> IF Single THEN system ELSE root)
MCSees == [c \in Configs |->
  IF Single THEN MCAssets ELSE IF c = c1 THEN {root, system, channel1} ELSE {root, channel2}]
=============================================================================
