---------------------------- MODULE MCPluginLoader ----------------------------
(***************************************************************************)
(* PluginLoader with the plugins of the repository that use the engine.    *)
(* Events are numbered in the order of their names: 1 is                   *)
(* NWNX/Core/PluginsLoaded, 2 NWNX/ResMan/DemandResource, 3 NWServer/RCO   *)
(* and 4 NWServer/SCO.                                                     *)
(***************************************************************************)
EXTENDS PluginLoader, TLC

CONSTANTS a1, a2, a3, a4, jvm, db, odmbc, resman

MCName   == 1..4
MCAddr   == {a1, a2, a3, a4}
MCResult == {0, 1}
MCPlugin == {jvm, db, odmbc, resman}

MCOnCreateCalls ==
  jvm :> <<Hooks(1)>> @@ resman :> <<Creates(2)>>
  @@ db :> <<Creates(4), Creates(3)>> @@ odmbc :> <<Creates(4), Creates(3)>>

MCLoadedCalls == [p \in MCPlugin |-> IF p = jvm THEN {2, 3, 4} ELSE {}]

\* It does not matter which address malloc gives to which event.
Interchangeable == Permutations(MCAddr)
===============================================================================
