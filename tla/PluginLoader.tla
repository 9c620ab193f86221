----------------------------- MODULE PluginLoader -----------------------------
(***************************************************************************)
(* The start of the extender (nwnx2lib.cpp): the core makes its event      *)
(* PluginsLoaded, loads the plugins in the order in which readdir lists    *)
(* them, and notifies the event.  Plugins make and hook events in          *)
(* OnCreate, and from inside their callback of PluginsLoaded; afterwards   *)
(* the makers of events notify them.                                       *)
(*                                                                         *)
(* The events are those of HookEngine: each step here that calls the       *)
(* engine is a step of the engine, joined with what the loader does.       *)
(***************************************************************************)
EXTENDS HookEngine

CONSTANTS
  Plugin,         \* the files nwnx_*.so
  PluginsLoaded,  \* the name of the core's event
  OnCreateCalls,  \* of each plugin: what it asks of the engine in OnCreate, in order
  LoadedCalls,    \* of each plugin: the events its callback of PluginsLoaded hooks
  FailsLate       \* plugins whose OnCreate may still fail after it hooked an event

Creates(n) == [call |-> "create", event |-> n]
Hooks(n)   == [call |-> "hook", event |-> n]

ASSUME PluginLoaderAssumption ==
  /\ NULL \notin Plugin
  /\ PluginsLoaded \in Name
  /\ OnCreateCalls \in [Plugin -> Seq([call : {"create", "hook"}, event : Name])]
  /\ LoadedCalls \in [Plugin -> SUBSET Name]
  \* What jvm hooks before it knows that it can start is PluginsLoaded only.
  /\ FailsLate \subseteq Plugin
  /\ \A p \in FailsLate : \A i \in 1..Len(OnCreateCalls[p]) :
       OnCreateCalls[p][i].call = "hook" => OnCreateCalls[p][i] = Hooks(PluginsLoaded)
  \* The callback is the one the plugin hooked.
  /\ \A p \in Plugin : LoadedCalls[p] # {} =>
       \E i \in 1..Len(OnCreateCalls[p]) : OnCreateCalls[p][i] = Hooks(PluginsLoaded)

VARIABLES
  phase,       \* "core", "loading", "loaded" (PluginsLoaded is notified)
  files,       \* files of the directory that readdir has not listed yet
  mapped,      \* plugins whose library is in memory
  Libraries,   \* plugins that are registered
  loading, at, \* the plugin whose OnCreate runs, and how many calls it has made
  todo,        \* events the callback that runs has still to hook
  hookedBy     \* history: the plugin that made each subscription

loader == <<phase, files, mapped, Libraries, loading, at, todo, hookedBy>>

Nobody == NULL   \* in "loading": no OnCreate runs
-------------------------------------------------------------------------------
LoaderInit ==
  /\ Init
  /\ phase = "core"
  /\ files = Plugin
  /\ mapped = {}
  /\ Libraries = {}
  /\ loading = Nobody /\ at = 0
  /\ todo = {}
  /\ hookedBy = [t \in Ticket |-> Nobody]

\* InitialiseModularEngine and LoadCoreModule.  The event the former makes,
\* MissingService, is left out: nobody hooks or notifies it.
LoadCoreModule ==
  /\ phase = "core"
  /\ CreateHookableEvent(PluginsLoaded)
  /\ phase' = "loading"
  /\ UNCHANGED <<files, mapped, Libraries, loading, at, todo, hookedBy>>

NextFile(p) ==
  /\ phase = "loading" /\ loading = Nobody
  /\ p \in files
  /\ files' = files \ {p}
  /\ UNCHANGED <<vars, phase, Libraries, at, todo, hookedBy>>

\* Disabled, not a library, or no GetClassObject: it is not, or no longer, mapped.
Skip(p) == NextFile(p) /\ UNCHANGED <<mapped, loading>>

\* GetPluginInfo or InitPlugin refused: nobody calls dlclose.
SkipMapped(p) == NextFile(p) /\ mapped' = mapped \cup {p} /\ UNCHANGED loading

\* The library is mapped, and OnCreate called.
Load(p) == NextFile(p) /\ mapped' = mapped \cup {p} /\ loading' = p

EngineUnchanged == UNCHANGED <<vars, hookedBy>>

CreateEvent(n) ==
  /\ \/ CreateHookableEvent(n)
     \/ Found(hooks, name, n) /\ UNCHANGED vars
  /\ UNCHANGED hookedBy

\* Plugin p hooks event n, if there is one.
Hook(p, n) ==
  \/ HookEvent(n) /\ hookedBy' = [hookedBy EXCEPT ![nextTicket] = p]
  \/ ~Found(hooks, name, n) /\ EngineUnchanged

\* Mutant of OnCreateCall: events are hooked here that others may not have made
\* yet, and not when PluginsLoaded is notified.
OnCreateHooksAll ==
  /\ loading # Nobody /\ at < Len(OnCreateCalls[loading])
  /\ LET c == OnCreateCalls[loading][at + 1]
     IN  IF c.call = "create" THEN CreateEvent(c.event)
         ELSE \E n \in LoadedCalls[loading] : Hook(loading, n)
  /\ at' = at + 1
  /\ UNCHANGED <<phase, files, mapped, Libraries, loading, todo>>

OnCreateCall ==
  /\ loading # Nobody /\ at < Len(OnCreateCalls[loading])
  /\ LET c == OnCreateCalls[loading][at + 1]
     IN  IF c.call = "create" THEN CreateEvent(c.event) ELSE Hook(loading, c.event)
  /\ at' = at + 1
  /\ UNCHANGED <<phase, files, mapped, Libraries, loading, todo>>

Registered ==
  /\ loading # Nobody /\ at = Len(OnCreateCalls[loading])
  /\ Libraries' = Libraries \cup {loading}
  /\ loading' = Nobody /\ at' = 0
  /\ UNCHANGED <<vars, phase, files, mapped, todo, hookedBy>>

HasHooked == \E i \in 1..at : OnCreateCalls[loading][i].call = "hook"

\* OnCreate returns false, and the library goes; what it made and hooked stays.
OnCreateFailed ==
  /\ loading # Nobody
  /\ HasHooked => loading \in FailsLate
  /\ mapped' = mapped \ {loading}
  /\ loading' = Nobody /\ at' = 0
  /\ UNCHANGED <<vars, phase, files, Libraries, todo, hookedBy>>
-------------------------------------------------------------------------------
\* The plugin called in frame f.
Callee(f) == hookedBy[f.calls[Len(f.calls)]]

\* What the callback that is called now has to do.
TodoOf(s) ==
  IF s # <<>> /\ name[s[Len(s)].p] = PluginsLoaded THEN LoadedCalls[Callee(s[Len(s)])] ELSE {}

\* The end of LoadLibraries and of startstop().
NotifyPluginsLoaded ==
  /\ phase = "loading" /\ files = {} /\ loading = Nobody
  /\ \E e \in created : name[e.p] = PluginsLoaded /\ NotifyEventHooks(e)
  /\ phase' = "loaded"
  /\ todo' = TodoOf(stack')
  /\ UNCHANGED <<files, mapped, Libraries, loading, at, hookedBy>>

\* A callback runs; the server is gone if the library was closed.
CallbackRuns == stack # <<>> /\ Callee(Top) \in mapped

\* systemStartup and its like.
CallbackHooks(n) ==
  /\ CallbackRuns
  /\ n \in todo
  /\ Hook(Callee(Top), n)
  /\ todo' = todo \ {n}
  /\ UNCHANGED <<phase, files, mapped, Libraries, loading, at>>

CallbackReturns(r) ==
  /\ CallbackRuns /\ todo = {}
  /\ name[Top.p] = PluginsLoaded => r = 0
  /\ HookReturns(r)
  /\ todo' = TodoOf(stack')
  /\ UNCHANGED <<phase, files, mapped, Libraries, loading, at, hookedBy>>

\* The server runs: a plugin notifies an event (one that failed is not there to).
NotifyLater(e) ==
  /\ phase = "loaded" /\ stack = <<>>
  /\ \E p \in Libraries : \E i \in 1..Len(OnCreateCalls[p]) :
       OnCreateCalls[p][i] = Creates(name[e.p])
  /\ NotifyEventHooks(e)
  /\ UNCHANGED loader

LoaderNext ==
  \/ LoadCoreModule
  \/ \E p \in Plugin : Skip(p) \/ SkipMapped(p) \/ Load(p)
  \/ OnCreateCall \/ Registered \/ OnCreateFailed
  \/ NotifyPluginsLoaded
  \/ \E n \in Name : CallbackHooks(n)
  \/ \E r \in Result : CallbackReturns(r)
  \/ \E e \in created : NotifyLater(e)

LoaderSpec == LoaderInit /\ [][LoaderNext]_<<vars, loader>>
-------------------------------------------------------------------------------
LoaderTypeOK ==
  /\ phase \in {"core", "loading", "loaded"}
  /\ files \subseteq Plugin
  /\ mapped \subseteq Plugin \ files
  /\ Libraries \subseteq mapped
  /\ loading \in (mapped \ Libraries) \cup {Nobody}
  /\ at \in Nat
  /\ todo \subseteq Name
  /\ hookedBy \in [Ticket -> Plugin \cup {Nobody}]

\* A plugin that fails in OnCreate after it has hooked an event leaves a callback
\* in the engine whose code dlclose takes away.  The server falls over that when
\* PluginsLoaded is notified, at its start, and never later: whatever a notification
\* of another event calls is in memory, and what is called of a closed library is
\* the callback of PluginsLoaded of a plugin that failed so late.
ClosedCodeRunsAtTheStartOnly ==
  \A d \in 1..Len(stack) :
    stack[d].slot # DEFAULT =>
      \/ Callee(stack[d]) \in mapped
      \/ name[stack[d].p] = PluginsLoaded /\ Callee(stack[d]) \in FailsLate

Subscribed(p, n) ==
  \E i \in 1..Len(hooks) :
    name[hooks[i]] = n /\ \E t \in Live(subscriber[hooks[i]]) : hookedBy[t] = p

\* Once PluginsLoaded has been notified, every registered plugin is subscribed
\* to each event it wants of another registered plugin, whatever the order in
\* which they were loaded, whichever failed or were skipped, and although the
\* hooks are placed from inside a notification.
EveryoneFindsTheirEvents ==
  phase = "loaded" /\ stack = <<>> =>
    \A p, q \in Libraries : \A i \in 1..Len(OnCreateCalls[q]) : \A n \in LoadedCalls[p] :
      OnCreateCalls[q][i] = Creates(n) => Subscribed(p, n)
-------------------------------------------------------------------------------
(* Why they hold: what the engine calls was hooked by a plugin that readdir    *)
(* has listed.                                                                 *)
CallIsKnown(f) ==
  f.slot # DEFAULT /\ Len(f.calls) > 0 /\ f.calls[Len(f.calls)] \in 1..(nextTicket - 1)

CallsKnown  == \A d \in 1..Len(stack) : CallIsKnown(stack[d])
NoDefault   == \A a \in Addr : ~dflt[a]
OwnersKnown == \A t \in 1..(nextTicket - 1) : hookedBy[t] \in Plugin \ files

\* Callbacks run after the last OnCreate.
OneByOne == (stack # <<>> => phase = "loaded") /\ (phase = "loaded" => loading = Nobody)

LoaderInv ==
  /\ LoaderTypeOK /\ OneByOne
  /\ NoDefault /\ CallsKnown /\ OwnersKnown
-------------------------------------------------------------------------------
(* Why everyone finds their events: nobody unhooks while the extender starts,  *)
(* a registered plugin's OnCreate got all it asked for, and the callbacks of   *)
(* PluginsLoaded that were called so far have hooked what there was to hook.   *)
\* Whoever is called holds the slot the loop is at, and slots are only added.
SlotsStay ==
  /\ \A a \in Addr : \A k \in 1..Len(subscriber[a]) : subscriber[a][k] \in 1..(nextTicket - 1)
  /\ Len(stack) <= 1
  /\ stack # <<>> =>
       /\ Top.slot \in 1..Len(subscriber[Top.p])
       /\ subscriber[Top.p][Top.slot] = Top.calls[Len(Top.calls)]
  /\ todo # {} => stack # <<>> /\ name[Top.p] = PluginsLoaded

Exists(n) == \E a \in Addr : Contains(hooks, a) /\ name[a] = n

\* Plugin p has asked for c in OnCreate, and has not failed.
Asked(p, c) ==
  \E i \in 1..Len(OnCreateCalls[p]) :
    OnCreateCalls[p][i] = c /\ (p \in Libraries \/ (p = loading /\ i <= at))

CallsTookEffect ==
  /\ loading = Nobody => at = 0
  /\ phase = "core" => loading = Nobody /\ Libraries = {}
  /\ phase # "core" => Exists(PluginsLoaded)
  /\ \A e \in created : Contains(hooks, e.p)
  /\ \A p \in Plugin : \A n \in Name : Asked(p, Creates(n)) => Exists(n)
  /\ \A p \in Plugin : Asked(p, Hooks(PluginsLoaded)) => Subscribed(p, PluginsLoaded)

\* What plugin p has hooked in its callback, which has still to hook "left".
HasHookedBut(p, left) == \A n \in LoadedCalls[p] \ left : Exists(n) => Subscribed(p, n)

\* The loop that notifies event a has still to come to slot k, or is at it.
IsToCome(a, k) == stack # <<>> /\ Top.p = a /\ Top.slot < k
IsAt(a, k)     == stack # <<>> /\ Top.p = a /\ Top.slot = k

CalledHaveHooked ==
  phase = "loaded" =>
    \A a \in Addr : Contains(hooks, a) /\ name[a] = PluginsLoaded =>
      \A k \in 1..Len(subscriber[a]) :
        IsToCome(a, k) \/ HasHookedBut(hookedBy[subscriber[a][k]],
                                      IF IsAt(a, k) THEN todo ELSE {})

FindInv == SlotsStay /\ CallsTookEffect /\ CalledHaveHooked
-------------------------------------------------------------------------------
(* Why the code of a closed library runs at the start only: the plugin whose   *)
(* subscription is in a slot is in memory and cannot fail any more, or is one  *)
(* of those that fail late and the slot is of PluginsLoaded, or is the one     *)
(* whose OnCreate runs and, having hooked, will not fail.                      *)
MaySubscribe(p, n) ==
  \/ p \in mapped /\ p # loading
  \/ p \in FailsLate /\ n = PluginsLoaded
  \/ p \in mapped /\ p \notin FailsLate /\ p = loading /\ HasHooked

SlotsAreSafe ==
  \A a \in Addr : \A k \in 1..Len(subscriber[a]) :
    MaySubscribe(hookedBy[subscriber[a][k]], name[a])
===============================================================================
