------------------------------- MODULE MCPlugins -------------------------------
(***************************************************************************)
(* The loader and what plugins do once they are loaded.  The DB, Events    *)
(* and Chat, MNX, ResMan and HashSet plugins, netoverride.so and the       *)
(* repeated blocks of the JVM plugin share no state with each other or     *)
(* with the loader, so that every behaviour of them together is, for each, *)
(* a behaviour of it alone: it is enough to let one of them run, whichever *)
(* it is.                                                                  *)
(***************************************************************************)
EXTENDS MCPluginLoader, DbPlugin, ScriptEvents, Mnx, ResMan, HashSet, NetOverride, JvmEvery

VARIABLE running   \* the part that runs

loaderVars == <<vars, loader>>

\* Every part's variables but those of the one that runs stay.
OthersStay(part) ==
  /\ IF part = "loader" THEN TRUE ELSE UNCHANGED loaderVars
  /\ IF part = "db" THEN TRUE ELSE UNCHANGED dbVars
  /\ IF part = "events" THEN TRUE ELSE UNCHANGED eventsVars
  /\ IF part = "mnx" THEN TRUE ELSE UNCHANGED mnxVars
  /\ IF part = "resman" THEN TRUE ELSE UNCHANGED resmanVars
  /\ IF part = "hashset" THEN TRUE ELSE UNCHANGED hashsetVars
  /\ IF part = "overrides" THEN TRUE ELSE UNCHANGED overrideVars
  /\ IF part = "every" THEN TRUE ELSE UNCHANGED everyVars
  /\ UNCHANGED running

\* What is configured, or not initialized, does not matter where it is not used.
PluginsInit ==
  /\ running \in {"loader", "db", "events", "mnx", "resman", "hashset", "overrides",
                 "every"}
  /\ LoaderInit
  /\ DbInit
  /\ EventsInit
  /\ MnxInit
  /\ ResManInit
  /\ HashSetInit
  /\ OverrideInit
  /\ EveryInit
  /\ running # "db" => engine = "SQLITE" /\ ~firstRowRead
  /\ running # "events" => ~enableUnsafe

PluginsNext ==
  \/ running = "loader" /\ LoaderNext /\ OthersStay("loader")
  \/ running = "db" /\ DbNext /\ OthersStay("db")
  \/ running = "events" /\ EventsNext /\ OthersStay("events")
  \/ running = "mnx" /\ MnxNext /\ OthersStay("mnx")
  \/ running = "resman" /\ ResManNext /\ OthersStay("resman")
  \/ running = "hashset" /\ HashSetNext /\ OthersStay("hashset")
  \/ running = "overrides" /\ OverrideNext /\ OthersStay("overrides")
  \/ running = "every" /\ EveryNext /\ OthersStay("every")

PluginsSpec == PluginsInit /\ [][PluginsNext]_<<
  loaderVars, dbVars, eventsVars, mnxVars, resmanVars, hashsetVars, overrideVars, everyVars,
  running>>
-------------------------------------------------------------------------------
\* The types of all their variables.
PluginsTypeOK ==
  /\ LoaderTypeOK
  /\ DbTypeOK
  /\ EventsTypeOK
  /\ MnxTypeOK
  /\ ResManTypeOK
  /\ HashSetTypeOK
  /\ OverrideTypeOK
  /\ EveryTypeOK
===============================================================================
