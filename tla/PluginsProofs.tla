------------------------------ MODULE PluginsProofs ------------------------------
(***************************************************************************)
(* Proofs about what plugins do once they are loaded: the Events and Chat, *)
(* HashSet, ResMan and MNX plugins, netoverride.so and the repeated blocks *)
(* of the JVM plugin, each by an inductive invariant of its own; and of    *)
(* all of them together, with the loader and the DB plugin, that every     *)
(* variable keeps its type.                                                *)
(***************************************************************************)
EXTENDS MCPlugins, PluginLoaderProofs, DbPluginProofs, FiniteSetTheorems
-------------------------------------------------------------------------------
(* ScriptEvents.                                                             *)

\* A new activation of a kind is a script.
LEMMA ActivationType ==
  ASSUME NEW kind \in Kinds, NEW target \in Target \cup {"invalid"}
  PROVE  Activation("events", kind, target) \in Script
BY DEF Activation, Script

LEMMA ChatActivationType == Activation("chat", "message", "invalid") \in Script
                         /\ Activation("chat", "combat", "invalid") \in Script
BY DEF Activation, Script

\* Destroying an object marks the running scripts of events and nothing else.
Marked ==
  [d \in 1..Len(scripts) |-> [scripts[d] EXCEPT !.reset = @ \/ scripts[d].plugin = "events"]]

LEMMA MarkedType ==
  ASSUME scripts \in Seq(Script)
  PROVE  /\ Marked \in Seq(Script)
         /\ Len(Marked) = Len(scripts)
         /\ \A d \in 1..Len(scripts) :
              /\ scripts[d].plugin = "events" => Marked[d].plugin = "events" /\ Marked[d].reset
              /\ scripts[d].plugin = "chat" => Marked[d] = scripts[d]
<1>1. \A d \in 1..Len(scripts) : scripts[d] \in Script
  BY ElementOfSeq
<1>2. \A d \in 1..Len(scripts) :
        [scripts[d] EXCEPT !.reset = @ \/ scripts[d].plugin = "events"] \in Script
  BY <1>1 DEF Script
<1>3. Len(scripts) \in Nat
  OBVIOUS
<1>4. Marked \in Seq(Script) /\ Len(Marked) = Len(scripts)
  BY <1>2, <1>3 DEF Marked
<1>5. \A d \in 1..Len(scripts) :
              /\ scripts[d].plugin = "events" => Marked[d].plugin = "events" /\ Marked[d].reset
              /\ scripts[d].plugin = "chat" => Marked[d] = scripts[d]
  BY <1>1 DEF Script, Marked
<1>6. QED
  BY <1>4, <1>5

LEMMA FireEventType ==
  ASSUME EventsTypeOK, NEW kind \in Kinds, NEW target \in Target \cup {"invalid"},
         NEW these \in Seq(Script), Len(these) = Len(scripts),
         FireEvent(kind, target, these), oTarget' \in Target \cup {"invalid"},
         UNCHANGED <<eventScripts, enableUnsafe, chatVars>>
  PROVE  EventsTypeOK'
<1>1. CASE kind \in eventScripts
  <2>1. /\ scripts' = Append(these, Activation("events", kind, target))
        /\ Len(scripts) < MaxScripts
        /\ nEventID' = kind /\ bBypass' = FALSE /\ scriptRun' = TRUE
        /\ UNCHANGED <<bBypass_b, outcome>>
    BY <1>1 DEF FireEvent, BypassAtFire
  <2>2. scripts' \in Seq(Script) /\ Len(scripts') = Len(scripts) + 1
    BY <2>1, ActivationType, Pushed
  <2>3. Len(scripts') <= MaxScripts
    BY <2>1, <2>2, EventsAssumption DEF EventsTypeOK
  <2>4. QED
    BY <2>1, <2>2, <2>3 DEF EventsTypeOK, chatVars
<1>2. CASE kind \notin eventScripts
  <2>1. /\ scripts' = these
        /\ nEventID' = kind /\ bBypass' = FALSE /\ scriptRun' = scriptRun
        /\ bBypass_b' \in {bBypass_b, FALSE}
        /\ outcome' = Untold(FALSE)
    BY <1>2 DEF FireEvent, BypassAtFire
  <2>2. outcome' \in [told : BOOLEAN, asked : BOOLEAN, blockable : BOOLEAN, skipped : BOOLEAN]
    BY <2>1 DEF Untold
  <2>3. QED
    BY <2>1, <2>2 DEF EventsTypeOK, chatVars
<1>3. QED
  BY <1>1, <1>2

\* Of the last script that runs, the kind is one that has scripts.
LEMMA TopType ==
  ASSUME EventsTypeOK, scripts # <<>>
  PROVE  /\ TopScript \in Script
         /\ Len(scripts) \in Nat /\ Len(scripts) >= 1
         /\ OuterScripts \in Seq(Script)
         /\ Len(OuterScripts) = Len(scripts) - 1
         /\ \A d \in 1..(Len(scripts) - 1) : OuterScripts[d] = scripts[d]
<1>1. scripts \in Seq(Script)
  BY DEF EventsTypeOK
<1>2. QED
  BY <1>1, Popped DEF TopScript, OuterScripts

LEMMA EventsTypeInit == EventsInit => EventsTypeOK
<1> SUFFICES ASSUME EventsInit PROVE EventsTypeOK
  OBVIOUS
<1>1. scripts \in Seq(Script) /\ Len(scripts) <= MaxScripts
  BY EventsAssumption DEF EventsInit
<1>2. outcome \in [told : BOOLEAN, asked : BOOLEAN, blockable : BOOLEAN, skipped : BOOLEAN]
  BY DEF EventsInit, Untold
<1>3. QED
  BY <1>1, <1>2 DEF EventsInit, EventsTypeOK

LEMMA AskedType ==
  ASSUME scripts \in Seq(Script), NEW k, NEW b \in BOOLEAN,
         scripts' = [scripts EXCEPT ![k].asked = b]
  PROVE  /\ scripts' \in Seq(Script) /\ Len(scripts') = Len(scripts)
         /\ \A d \in 1..Len(scripts) :
              /\ d # k => scripts'[d] = scripts[d]
              /\ d = k => scripts'[d] = [scripts[d] EXCEPT !.asked = b]
<1>1. /\ \A d \in 1..Len(scripts) : scripts[d] \in Script
      /\ Len(scripts) \in Nat /\ scripts = [d \in 1..Len(scripts) |-> scripts[d]]
      /\ DOMAIN scripts = 1..Len(scripts)
  BY ElementOfSeq
<1>2. scripts' = [d \in 1..Len(scripts) |->
                    IF d = k THEN [scripts[d] EXCEPT !.asked = b] ELSE scripts[d]]
  BY <1>1
<1>3. \A d \in 1..Len(scripts) :
        (IF d = k THEN [scripts[d] EXCEPT !.asked = b] ELSE scripts[d]) \in Script
  BY <1>1 DEF Script
<1>4. scripts' \in [1..Len(scripts) -> Script]
  BY <1>1, <1>2, <1>3
<1>5. scripts' \in Seq(Script) /\ Len(scripts') = Len(scripts)
  BY <1>1, <1>4, FunctionIsSeq
<1>6. QED
  BY <1>2, <1>5

LEMMA EventsTypeStep == EventsTypeOK /\ [EventsNext]_eventsVars => EventsTypeOK'
<1> SUFFICES ASSUME EventsTypeOK, [EventsNext]_eventsVars PROVE EventsTypeOK'
  OBVIOUS
<1>a. /\ scripts \in Seq(Script) /\ Len(scripts) \in Nat /\ Len(scripts) <= MaxScripts
      /\ MaxScripts \in Nat
  BY EventsAssumption DEF EventsTypeOK
<1>b. \A b \in BOOLEAN : Untold(b) \in
        [told : BOOLEAN, asked : BOOLEAN, blockable : BOOLEAN, skipped : BOOLEAN]
  BY DEF Untold
<1>1. ASSUME NEW kind \in Actions, NEW target \in Target, Act(kind, target)
      PROVE  EventsTypeOK'
  <2>1. CASE Fires
    <3>1. /\ kind \in Kinds /\ FireEvent(kind, target, scripts)
          /\ oTarget' \in Target \cup {"invalid"}
          /\ UNCHANGED <<eventScripts, enableUnsafe, chatVars>>
      BY <1>1, <2>1 DEF Act, Kinds, EventsTypeOK
    <3>2. QED
      BY <1>a, <3>1, FireEventType
  <2>2. CASE ~Fires
    <3>1. /\ outcome' = Untold(kind \in Blockable /\ bBypass_b)
          /\ UNCHANGED <<eventScripts, enableUnsafe, chatVars>>
          /\ UNCHANGED <<scriptRun, oTarget, nEventID, bBypass, bBypass_b, scripts>>
      BY <1>1, <2>2 DEF Act
    <3>2. QED
      BY <1>b, <3>1 DEF EventsTypeOK, chatVars
  <2>3. QED
    BY <2>1, <2>2
<1>2. CASE DestroyObject
  <2>1. /\ FireEvent("destroyObject", "invalid", Marked)
        /\ UNCHANGED <<eventScripts, enableUnsafe, oTarget, chatVars>>
    BY <1>2 DEF DestroyObject, Marked
  <2>2. "destroyObject" \in Kinds /\ oTarget' \in Target \cup {"invalid"}
    BY <2>1 DEF Kinds, EventsTypeOK
  <2>3. QED
    BY <1>a, <2>1, <2>2, MarkedType, FireEventType
<1>3. CASE EventScriptEnds
  <2>1. /\ scripts' \in Seq(Script) /\ Len(scripts') <= MaxScripts
        /\ TopScript \in Script
    BY <1>a, <1>3, TopType DEF EventScriptEnds
  <2>2. /\ bBypass_b' \in BOOLEAN
        /\ outcome' = Done(TopScript, TopScript.kind \in Blockable /\ bBypass_b')
    BY <1>3 DEF EventScriptEnds, EventsTypeOK
  <2>3. outcome' \in [told : BOOLEAN, asked : BOOLEAN, blockable : BOOLEAN, skipped : BOOLEAN]
    BY <2>1, <2>2 DEF Done, Script
  <2>4. QED
    BY <1>3, <2>1, <2>2, <2>3 DEF EventScriptEnds, EventsTypeOK, chatVars
<1>4. ASSUME NEW kinds \in Handlers, NEW on \in BOOLEAN, SetEventHandler(kinds, on)
      PROVE  EventsTypeOK'
  BY <1>4, EventsAssumption DEF SetEventHandler, EventsTypeOK, chatVars
<1>5. ASSUME NEW b \in BOOLEAN, Bypass(b) PROVE EventsTypeOK'
  <2>1. scripts' \in Seq(Script) /\ Len(scripts') = Len(scripts)
    BY <1>a, <1>5, AskedType DEF Bypass
  <2>2. QED
    BY <1>a, <1>5, <2>1 DEF Bypass, EventsTypeOK, chatVars
<1>6. ASSUME NEW kind \in {"message", "combat"}, RunChatScript(kind), suppressMsg' \in BOOLEAN,
             UNCHANGED firingVars
      PROVE  EventsTypeOK'
  <2>1. Activation("chat", kind, "invalid") \in Script
    BY ChatActivationType
  <2>2. scripts' \in Seq(Script) /\ Len(scripts') = Len(scripts) + 1 /\ Len(scripts) < MaxScripts
    BY <1>a, <1>6, <2>1, Pushed DEF RunChatScript
  <2>3. QED
    BY <1>a, <1>6, <2>2 DEF RunChatScript, EventsTypeOK, firingVars
<1>7. ASSUME NEW hasScript \in BOOLEAN, ChatMessage(hasScript) PROVE EventsTypeOK'
  <2>1. CASE RunChatScript("message") /\ suppressMsg' \in BOOLEAN
    BY <1>6, <1>7, <2>1 DEF ChatMessage
  <2>2. CASE /\ suppressMsg' = FALSE /\ lastRet' = FALSE /\ outcome' = Untold(lastRet')
             /\ UNCHANGED <<chatScriptRun, scripts>>
    BY <1>7, <1>b, <2>2 DEF ChatMessage, EventsTypeOK, firingVars
  <2>3. CASE outcome' = Untold(FALSE) /\ UNCHANGED <<chatScriptRun, suppressMsg, lastRet, scripts>>
    BY <1>7, <1>b, <2>3 DEF ChatMessage, EventsTypeOK, firingVars
  <2>4. QED
    BY <1>7, <2>1, <2>2, <2>3 DEF ChatMessage, SuppressAtMessage
<1>8. ASSUME NEW known \in BOOLEAN, CombatMessage(known) PROVE EventsTypeOK'
  <2>1. CASE RunChatScript("combat") /\ suppressMsg' = FALSE
    BY <1>6, <1>8, <2>1 DEF CombatMessage
  <2>2. CASE /\ outcome' = Untold(~chatScriptRun /\ lastRet)
             /\ UNCHANGED <<chatScriptRun, suppressMsg, lastRet, scripts>>
    BY <1>8, <1>b, <2>2 DEF CombatMessage, EventsTypeOK, firingVars
  <2>3. QED
    BY <1>8, <2>1, <2>2 DEF CombatMessage, SuppressAtMessage
<1>9. CASE ChatScriptEnds
  <2>1. /\ scripts' \in Seq(Script) /\ Len(scripts') <= MaxScripts
        /\ TopScript \in Script
    BY <1>a, <1>9, TopType DEF ChatScriptEnds
  <2>2. lastRet' \in BOOLEAN /\ outcome' = Done(TopScript, lastRet')
    BY <1>9 DEF ChatScriptEnds, EventsTypeOK
  <2>3. outcome' \in [told : BOOLEAN, asked : BOOLEAN, blockable : BOOLEAN, skipped : BOOLEAN]
    BY <2>1, <2>2 DEF Done, Script
  <2>4. QED
    BY <1>9, <2>1, <2>2, <2>3 DEF ChatScriptEnds, EventsTypeOK, firingVars
<1>10. CASE Suppress
  <2>1. scripts' \in Seq(Script) /\ Len(scripts') = Len(scripts)
    BY <1>a, <1>10, AskedType DEF Suppress
  <2>2. QED
    BY <1>a, <1>10, <2>1 DEF Suppress, EventsTypeOK, firingVars
<1>11. CASE UNCHANGED eventsVars
  BY <1>11 DEF eventsVars, firingVars, chatVars, EventsTypeOK
<1>12. QED
  BY <1>1, <1>2, <1>3, <1>4, <1>5, <1>7, <1>8, <1>9, <1>10, <1>11 DEF EventsNext

\* The variables of the Events and Chat plugins keep their types.
THEOREM EventsTypeCorrect == EventsSpec => []EventsTypeOK
BY EventsTypeInit, EventsTypeStep, PTL DEF EventsSpec

\* Of the events whose scripts run, one may not have been disturbed by destroying
\* an object: that of the innermost one.  It is its data, and its bypass, that
\* the plugin has.
EventIsUnderWay ==
  \A d \in 1..Len(scripts) : scripts[d].plugin = "events" /\ ~scripts[d].reset =>
    /\ \A e \in (d + 1)..Len(scripts) : scripts[e].plugin # "events"
    /\ scriptRun
    /\ scripts[d].kind \in Kinds
    /\ nEventID = scripts[d].kind
    /\ scripts[d].kind \in WithTarget => oTarget = scripts[d].target
    /\ bBypass = scripts[d].asked

\* The Chat plugin runs one script at a time, whose suppression it has.
MessageIsUnderWay ==
  \A d \in 1..Len(scripts) : scripts[d].plugin = "chat" =>
    /\ \A e \in (d + 1)..Len(scripts) : scripts[e].plugin # "chat"
    /\ chatScriptRun
    /\ scripts[d].kind \notin Kinds
    /\ suppressMsg = scripts[d].asked

\* While a plugin notes that a script of its runs, one does.
HasInnermost(plugin) ==
  \E d \in 1..Len(scripts) :
    scripts[d].plugin = plugin /\ \A e \in (d + 1)..Len(scripts) : scripts[e].plugin # plugin
SomethingRuns ==
  /\ scriptRun => HasInnermost("events")
  /\ chatScriptRun => HasInnermost("chat")

EventsInv == EventIsUnderWay /\ MessageIsUnderWay /\ SomethingRuns /\ BlockedIffAsked

\* The innermost script of a plugin is the one there is no later one of.
LEMMA InnermostIs ==
  ASSUME NEW plugin, Len(scripts) \in Nat, NEW d \in 1..Len(scripts), scripts[d].plugin = plugin,
         \A e \in (d + 1)..Len(scripts) : scripts[e].plugin # plugin
  PROVE  Innermost(plugin) = d
<1> DEFINE P(c) == c \in 1..Len(scripts) /\ scripts[c].plugin = plugin
                   /\ \A e \in (c + 1)..Len(scripts) : scripts[e].plugin # plugin
<1>1. \A c \in 1..Len(scripts) : P(c) => c = d
  <2> SUFFICES ASSUME NEW c \in 1..Len(scripts), P(c), c # d PROVE FALSE
    OBVIOUS
  <2>1. c \in Int /\ d \in Int
    OBVIOUS
  <2>2. CASE c < d
    <3>1. d \in (c + 1)..Len(scripts)
      BY <2>1, <2>2
    <3>2. QED
      BY <3>1
  <2>3. CASE d < c
    <3>1. c \in (d + 1)..Len(scripts)
      BY <2>1, <2>3
    <3>2. QED
      BY <3>1
  <2>4. QED
    BY <2>1, <2>2, <2>3
<1>2. Innermost(plugin) = CHOOSE c \in 1..Len(scripts) : P(c)
  BY DEF Innermost
<1>3. P(d)
  OBVIOUS
<1>4. QED
  BY <1>1, <1>2, <1>3, Zenon

LEMMA HasInnermostIs ==
  ASSUME NEW plugin, Len(scripts) \in Nat, HasInnermost(plugin)
  PROVE  Innermost(plugin) \in 1..Len(scripts) /\ scripts[Innermost(plugin)].plugin = plugin
BY InnermostIs DEF HasInnermost

\* What runs in a plugin still does inside another script, and when a script of
\* the other plugin, run inside it, has ended.
LEMMA InnermostStays ==
  ASSUME NEW plugin, Len(scripts) \in Nat, Len(scripts') \in Nat, HasInnermost(plugin),
         \A d \in 1..Len(scripts) : d \in 1..Len(scripts') =>
           scripts'[d].plugin = scripts[d].plugin,
         \A d \in 1..Len(scripts) : d \notin 1..Len(scripts') => scripts[d].plugin # plugin,
         \A d \in 1..Len(scripts') : d \notin 1..Len(scripts) => scripts'[d].plugin # plugin
  PROVE  HasInnermost(plugin)'
<1>1. PICK d \in 1..Len(scripts) :
        scripts[d].plugin = plugin /\ \A e \in (d + 1)..Len(scripts) : scripts[e].plugin # plugin
  BY DEF HasInnermost
<1>2. d \in 1..Len(scripts') /\ scripts'[d].plugin = plugin
  BY <1>1
<1>3. ASSUME NEW e \in (d + 1)..Len(scripts') PROVE scripts'[e].plugin # plugin
  <2>1. e \in 1..Len(scripts')
    OBVIOUS
  <2>2. CASE e \in 1..Len(scripts)
    <3>1. e \in (d + 1)..Len(scripts)
      BY <2>2
    <3>2. QED
      BY <1>1, <2>1, <2>2, <3>1
  <2>3. QED
    BY <2>1, <2>2
<1>4. QED
  BY <1>2, <1>3 DEF HasInnermost

\* An event that fires while nothing else of the plugin is good, and the scripts
\* that run stay or are marked.
LEMMA FireEventInv ==
  ASSUME EventsTypeOK, EventsInv, NEW kind \in Kinds, NEW target \in Target \cup {"invalid"},
         NEW these \in Seq(Script), Len(these) = Len(scripts),
         \A d \in 1..Len(scripts) :
           /\ scripts[d].plugin = "events" => these[d].plugin = "events" /\ these[d].reset
           /\ scripts[d].plugin = "chat" => these[d] = scripts[d],
         FireEvent(kind, target, these), kind \in WithTarget => oTarget' = target,
         UNCHANGED chatVars
  PROVE  EventsInv'
<1>a. /\ Len(scripts) \in Nat /\ scripts \in Seq(Script)
      /\ \A d \in 1..Len(scripts) : scripts[d] \in Script /\ these[d] \in Script
  BY ElementOfSeq DEF EventsTypeOK
<1>b. \A d \in 1..Len(scripts) :
        /\ these[d].plugin = scripts[d].plugin
        /\ scripts[d].plugin = "events" \/ scripts[d].plugin = "chat"
  BY <1>a DEF Script
<1>1. CASE kind \in eventScripts
  <2> DEFINE a == Activation("events", kind, target)
  <2>1. /\ scripts' = Append(these, a)
        /\ nEventID' = kind /\ bBypass' = FALSE /\ scriptRun' = TRUE
        /\ UNCHANGED <<bBypass_b, outcome>>
    BY <1>1 DEF FireEvent, BypassAtFire
  <2>2. /\ a \in Script /\ a.plugin = "events" /\ a.kind = kind /\ a.target = target
        /\ a.asked = FALSE /\ a.reset = FALSE
    BY ActivationType DEF Activation
  <2> HIDE DEF a
  <2>3. /\ Len(scripts') = Len(scripts) + 1
        /\ \A d \in 1..Len(scripts) : scripts'[d] = these[d]
        /\ scripts'[Len(scripts) + 1] = a
    BY <2>1, <2>2, Pushed
  <2>4. \A d \in 1..Len(scripts') : d \in 1..Len(scripts) \/ d = Len(scripts) + 1
    BY <1>a, <2>3
  <2>5. EventIsUnderWay'
    <3> SUFFICES ASSUME NEW d \in 1..Len(scripts'), scripts'[d].plugin = "events",
                        ~scripts'[d].reset
                 PROVE  /\ \A e \in (d + 1)..Len(scripts') : scripts'[e].plugin # "events"
                        /\ scriptRun'
                        /\ scripts'[d].kind \in Kinds
                        /\ nEventID' = scripts'[d].kind
                        /\ scripts'[d].kind \in WithTarget => oTarget' = scripts'[d].target
                        /\ bBypass' = scripts'[d].asked
      BY DEF EventIsUnderWay
    <3>1. d = Len(scripts) + 1
      BY <1>b, <2>3, <2>4
    <3>2. \A e \in (d + 1)..Len(scripts') : FALSE
      BY <1>a, <2>3, <3>1
    <3>3. scripts'[d] = a
      BY <2>3, <3>1
    <3>4. kind \in WithTarget => oTarget' = a.target
      BY <2>2
    <3>5. QED
      BY <2>1, <2>2, <3>2, <3>3, <3>4
  <2>6. MessageIsUnderWay'
    <3> SUFFICES ASSUME NEW d \in 1..Len(scripts'), scripts'[d].plugin = "chat"
                 PROVE  /\ \A e \in (d + 1)..Len(scripts') : scripts'[e].plugin # "chat"
                        /\ chatScriptRun'
                        /\ scripts'[d].kind \notin Kinds
                        /\ suppressMsg' = scripts'[d].asked
      BY DEF MessageIsUnderWay
    <3>1. d \in 1..Len(scripts) /\ scripts'[d] = scripts[d] /\ scripts[d].plugin = "chat"
      BY <1>b, <2>2, <2>3, <2>4
    <3>2. \A e \in (d + 1)..Len(scripts) : scripts[e].plugin # "chat"
      BY <3>1 DEF EventsInv, MessageIsUnderWay
    <3>3. ASSUME NEW e \in (d + 1)..Len(scripts') PROVE scripts'[e].plugin # "chat"
      <4>1. (e \in (d + 1)..Len(scripts) /\ e \in 1..Len(scripts)) \/ e = Len(scripts) + 1
        <5>1. Len(scripts') = Len(scripts) + 1 /\ Len(scripts) \in Nat
          BY <1>a, <2>3
        <5>2. QED
          BY ONLY <3>1, <5>1
      <4>2. QED
        BY <1>b, <2>2, <2>3, <3>2, <4>1
    <3>4. QED
      BY <3>1, <3>3 DEF EventsInv, MessageIsUnderWay, chatVars
  <2>7. SomethingRuns'
    <3>1. HasInnermost("events")'
      <4>1. /\ Len(scripts) + 1 \in 1..Len(scripts') /\ scripts'[Len(scripts) + 1].plugin = "events"
            /\ \A e \in (Len(scripts) + 2)..Len(scripts') : FALSE
        BY <1>a, <2>2, <2>3
      <4>2. QED
        BY <1>a, <4>1 DEF HasInnermost
    <3>2. chatScriptRun' => HasInnermost("chat")'
      <4>1. /\ \A d \in 1..Len(scripts) : scripts'[d].plugin = scripts[d].plugin
            /\ \A d \in 1..Len(scripts) : d \in 1..Len(scripts')
            /\ \A d \in 1..Len(scripts') : d \notin 1..Len(scripts) => scripts'[d].plugin # "chat"
            /\ Len(scripts') \in Nat
        BY <1>a, <1>b, <2>2, <2>3, <2>4
      <4>2. QED
        BY <1>a, <4>1, InnermostStays DEF EventsInv, SomethingRuns, chatVars
    <3>3. QED
      BY <3>1, <3>2 DEF SomethingRuns
  <2>8. QED
    BY <2>1, <2>5, <2>6, <2>7 DEF EventsInv, BlockedIffAsked
<1>2. CASE kind \notin eventScripts
  <2>1. scripts' = these /\ outcome' = Untold(FALSE)
    BY <1>2 DEF FireEvent
  <2>2. BlockedIffAsked'
    BY <2>1 DEF BlockedIffAsked, Untold
  <2>3. EventIsUnderWay'
    BY <1>b, <2>1 DEF EventIsUnderWay
  <2>4. MessageIsUnderWay'
    <3> SUFFICES ASSUME NEW d \in 1..Len(scripts), these[d].plugin = "chat"
                 PROVE  /\ \A e \in (d + 1)..Len(scripts) : these[e].plugin # "chat"
                        /\ chatScriptRun
                        /\ these[d].kind \notin Kinds
                        /\ suppressMsg = these[d].asked
      BY <2>1 DEF MessageIsUnderWay, chatVars
    <3>1. scripts[d].plugin = "chat" /\ these[d] = scripts[d]
      BY <1>b
    <3>2. \A e \in (d + 1)..Len(scripts) : e \in 1..Len(scripts)
      BY <1>a
    <3>3. QED
      BY <1>b, <3>1, <3>2 DEF EventsInv, MessageIsUnderWay
  <2>5. SomethingRuns'
    <3>1. Len(scripts') = Len(scripts) /\ UNCHANGED <<scriptRun, chatScriptRun>>
      BY <1>2, <2>1 DEF FireEvent, chatVars
    <3>2. QED
      BY <1>a, <1>b, <2>1, <3>1, InnermostStays DEF EventsInv, SomethingRuns
  <2>6. QED
    BY <2>2, <2>3, <2>4, <2>5 DEF EventsInv
<1>3. QED
  BY <1>1, <1>2

LEMMA EventsInvInit == EventsInit => EventsInv
<1> SUFFICES ASSUME EventsInit PROVE EventsInv
  OBVIOUS
<1>1. Len(scripts) = 0
  BY DEF EventsInit
<1>2. QED
  BY <1>1 DEF EventsInit, EventsInv, EventIsUnderWay, MessageIsUnderWay, SomethingRuns, BlockedIffAsked, Untold

LEMMA EventsInvStep == EventsTypeOK /\ EventsInv /\ [EventsNext]_eventsVars => EventsInv'
<1> SUFFICES ASSUME EventsTypeOK, EventsInv, [EventsNext]_eventsVars PROVE EventsInv'
  OBVIOUS
<1>a. /\ Len(scripts) \in Nat /\ scripts \in Seq(Script)
      /\ \A d \in 1..Len(scripts) : scripts[d] \in Script
  BY ElementOfSeq DEF EventsTypeOK
<1>b. \A d \in 1..Len(scripts) : \A e \in (d + 1)..Len(scripts) : e \in 1..Len(scripts)
  BY <1>a
<1>1. ASSUME NEW kind \in Actions, NEW target \in Target, Act(kind, target)
      PROVE  EventsInv'
  <2>1. CASE Fires
    <3>1. /\ kind \in Kinds /\ FireEvent(kind, target, scripts) /\ ~scriptRun
          /\ kind \in WithTarget => oTarget' = target
          /\ UNCHANGED chatVars
      BY <1>1, <2>1 DEF Act, Kinds, Fires
    <3>2. \A d \in 1..Len(scripts) : scripts[d].plugin = "events" => scripts[d].reset
      BY <3>1 DEF EventsInv, EventIsUnderWay
    <3>3. QED
      BY <1>a, <3>1, <3>2, FireEventInv
  <2>2. CASE ~Fires
    <3>1. /\ outcome' = Untold(kind \in Blockable /\ bBypass_b)
          /\ UNCHANGED <<chatVars, scriptRun, oTarget, nEventID, bBypass, scripts>>
      BY <1>1, <2>2 DEF Act
    <3>2. QED
      BY <3>1 DEF EventsInv, EventIsUnderWay, MessageIsUnderWay, SomethingRuns, HasInnermost,
                  BlockedIffAsked, Untold, chatVars
  <2>3. QED
    BY <2>1, <2>2
<1>2. CASE DestroyObject
  <2>1. /\ FireEvent("destroyObject", "invalid", Marked) /\ UNCHANGED chatVars
    BY <1>2 DEF DestroyObject, Marked
  <2>2. "destroyObject" \in Kinds /\ "destroyObject" \notin WithTarget
    BY DEF Kinds, WithTarget
  <2>3. QED
    BY <1>a, <2>1, <2>2, MarkedType, FireEventInv
<1>3. CASE EventScriptEnds
  <2> DEFINE n == Len(scripts)
  <2>1. /\ scripts' = OuterScripts /\ TopScript = scripts[n] /\ TopScript \in Script
        /\ n \in 1..n /\ Len(scripts') = n - 1 /\ \A d \in 1..(n - 1) : scripts'[d] = scripts[d]
        /\ TopScript.plugin = "events" /\ UNCHANGED chatVars
        /\ bBypass_b' = (IF TopScript.kind \in {"saveChar", "destroyObject"} THEN bBypass_b ELSE bBypass)
        /\ outcome' = Done(TopScript, TopScript.kind \in Blockable /\ bBypass_b')
    BY <1>3, TopType DEF EventScriptEnds, TopScript
  <2>2. \A d \in 1..(n - 1) : scripts[d].plugin = "events" => scripts[d].reset
    <3>1. \A d \in 1..(n - 1) : d \in 1..n /\ n \in (d + 1)..n
      BY <1>a
    <3>2. QED
      BY <2>1, <3>1 DEF EventsInv, EventIsUnderWay
  <2>3. EventIsUnderWay'
    BY <2>1, <2>2 DEF EventIsUnderWay
  <2>4. MessageIsUnderWay'
    <3>1. \A d \in 1..(n - 1) : d \in 1..n /\ \A e \in (d + 1)..(n - 1) : e \in (d + 1)..n /\ e \in 1..(n - 1)
      BY <1>a
    <3>2. QED
      BY <2>1, <3>1 DEF EventsInv, MessageIsUnderWay, chatVars
  <2>5. BlockedIffAsked'
    <3>1. CASE TopScript.reset
      BY <2>1, <3>1 DEF Done, BlockedIffAsked
    <3>2. CASE ~TopScript.reset
      <4>1. TopScript.kind \in Kinds /\ bBypass = TopScript.asked
        BY <2>1, <3>2 DEF EventsInv, EventIsUnderWay
      <4>2. TopScript.kind \in Blockable => bBypass_b' = bBypass
        BY <2>1 DEF Blockable
      <4>3. /\ outcome'.asked = TopScript.asked
            /\ outcome'.blockable = (TopScript.kind \notin Kinds \ Blockable)
            /\ outcome'.skipped = (TopScript.kind \in Blockable /\ bBypass_b')
        BY <2>1 DEF Done
      <4>4. bBypass \in BOOLEAN
        BY DEF EventsTypeOK
      <4>5. CASE TopScript.kind \in Blockable
        BY <4>1, <4>2, <4>3, <4>5 DEF BlockedIffAsked
      <4>6. CASE TopScript.kind \notin Blockable
        BY <4>1, <4>3, <4>6 DEF BlockedIffAsked
      <4>7. QED
        BY <4>5, <4>6
    <3>3. QED
      BY <3>1, <3>2
  <2>6. SomethingRuns'
    <3>1. /\ ~scriptRun' /\ UNCHANGED chatScriptRun /\ Len(scripts') \in Nat
          /\ \A d \in 1..n : d \in 1..(n - 1) \/ d = n
      BY <1>3, <1>a, <2>1 DEF EventScriptEnds, chatVars
    <3>2. /\ \A d \in 1..n : d \in 1..Len(scripts') => scripts'[d].plugin = scripts[d].plugin
          /\ \A d \in 1..n : d \notin 1..Len(scripts') => scripts[d].plugin # "chat"
          /\ \A d \in 1..Len(scripts') : d \in 1..n
      BY <1>a, <2>1, <3>1
    <3>3. QED
      BY <1>a, <3>1, <3>2, InnermostStays DEF EventsInv, SomethingRuns
  <2>7. QED
    BY <2>3, <2>4, <2>5, <2>6 DEF EventsInv
<1>4. ASSUME NEW kinds \in Handlers, NEW on \in BOOLEAN, SetEventHandler(kinds, on)
      PROVE  EventsInv'
  BY <1>4 DEF SetEventHandler, EventsInv, EventIsUnderWay, MessageIsUnderWay, SomethingRuns,
              HasInnermost, BlockedIffAsked, chatVars
<1>5. ASSUME NEW b \in BOOLEAN, Bypass(b) PROVE EventsInv'
  <2> DEFINE k == Innermost("events")
  <2>1. /\ scripts' = [scripts EXCEPT ![k].asked = b]
        /\ bBypass' = b
        /\ UNCHANGED <<scriptRun, oTarget, nEventID, chatVars, outcome>>
    BY <1>5 DEF Bypass
  <2>2. /\ Len(scripts') = Len(scripts)
        /\ \A d \in 1..Len(scripts) :
             /\ d # k => scripts'[d] = scripts[d]
             /\ d = k => scripts'[d] = [scripts[d] EXCEPT !.asked = b]
    <3> HIDE DEF k
    <3>1. QED
      BY <1>a, <2>1, AskedType
  <2>3. \A d \in 1..Len(scripts) :
          /\ scripts'[d].plugin = scripts[d].plugin /\ scripts'[d].kind = scripts[d].kind
          /\ scripts'[d].target = scripts[d].target /\ scripts'[d].reset = scripts[d].reset
          /\ scripts[d].plugin = "events" /\ ~scripts[d].reset => scripts'[d].asked = b
          /\ scripts[d].plugin = "chat" => scripts'[d].asked = scripts[d].asked
    <3> SUFFICES ASSUME NEW d \in 1..Len(scripts)
                 PROVE  /\ scripts'[d].plugin = scripts[d].plugin /\ scripts'[d].kind = scripts[d].kind
                        /\ scripts'[d].target = scripts[d].target /\ scripts'[d].reset = scripts[d].reset
                        /\ scripts[d].plugin = "events" /\ ~scripts[d].reset => scripts'[d].asked = b
                        /\ scripts[d].plugin = "chat" => scripts'[d].asked = scripts[d].asked
      OBVIOUS
    <3>1. scripts[d].plugin = "events" /\ ~scripts[d].reset => k = d
      BY <1>a, InnermostIs DEF EventsInv, EventIsUnderWay
    <3>2. k \in 1..Len(scripts) /\ scripts[k].plugin = "events"
      BY <1>5, <1>a, HasInnermostIs DEF Bypass, EventsInv, SomethingRuns
    <3> HIDE DEF k
    <3>3. scripts[d] \in Script
      BY <1>a
    <3>4. QED
      BY <2>2, <3>1, <3>2, <3>3 DEF Script
  <2>4. SomethingRuns'
    BY <1>a, <2>1, <2>2, <2>3, InnermostStays DEF EventsInv, SomethingRuns, chatVars
  <2>5. QED
    BY <1>b, <2>1, <2>2, <2>3, <2>4
       DEF EventsInv, EventIsUnderWay, MessageIsUnderWay, BlockedIffAsked, chatVars
<1>6. ASSUME NEW kind \in {"message", "combat"}, RunChatScript(kind), ~chatScriptRun,
             suppressMsg' = FALSE, UNCHANGED firingVars
      PROVE  EventsInv'
  <2> DEFINE a == Activation("chat", kind, "invalid")
             n == Len(scripts)
  <2>1. /\ a \in Script /\ a.plugin = "chat" /\ a.kind = kind /\ a.asked = FALSE
        /\ a.kind \notin Kinds
    BY ChatActivationType DEF Activation, Kinds, Actions
  <2>2. scripts' = Append(scripts, a) /\ chatScriptRun' /\ UNCHANGED outcome
    BY <1>6 DEF RunChatScript
  <2> HIDE DEF a
  <2>3. /\ Len(scripts') = n + 1
        /\ \A d \in 1..n : scripts'[d] = scripts[d]
        /\ scripts'[n + 1] = a
    BY <1>a, <2>1, <2>2, Pushed
  <2>4. /\ \A d \in 1..Len(scripts') : d \in 1..n \/ d = n + 1
        /\ \A d \in 1..n : \A e \in (d + 1)..Len(scripts') : (e \in (d + 1)..n /\ e \in 1..n) \/ e = n + 1
        /\ \A e \in (n + 2)..Len(scripts') : FALSE
        /\ n + 1 \in 1..Len(scripts') /\ n + 1 + 1 = n + 2
    BY <1>a, <2>3
  <2>5. \A d \in 1..n : scripts[d].plugin # "chat"
    BY <1>6 DEF EventsInv, MessageIsUnderWay
  <2>6. EventIsUnderWay'
    <3> SUFFICES ASSUME NEW d \in 1..Len(scripts'), scripts'[d].plugin = "events",
                        ~scripts'[d].reset
                 PROVE  /\ \A e \in (d + 1)..Len(scripts') : scripts'[e].plugin # "events"
                        /\ scriptRun'
                        /\ scripts'[d].kind \in Kinds
                        /\ nEventID' = scripts'[d].kind
                        /\ scripts'[d].kind \in WithTarget => oTarget' = scripts'[d].target
                        /\ bBypass' = scripts'[d].asked
      BY DEF EventIsUnderWay
    <3>1. d \in 1..n /\ scripts'[d] = scripts[d]
      BY <2>1, <2>3, <2>4
    <3>2. \A e \in (d + 1)..Len(scripts') : scripts'[e].plugin # "events"
      BY <2>1, <2>3, <2>4, <3>1 DEF EventsInv, EventIsUnderWay
    <3>3. QED
      BY <1>6, <3>1, <3>2 DEF EventsInv, EventIsUnderWay, firingVars
  <2>7. MessageIsUnderWay'
    <3> SUFFICES ASSUME NEW d \in 1..Len(scripts'), scripts'[d].plugin = "chat"
                 PROVE  /\ \A e \in (d + 1)..Len(scripts') : scripts'[e].plugin # "chat"
                        /\ chatScriptRun'
                        /\ scripts'[d].kind \notin Kinds
                        /\ suppressMsg' = scripts'[d].asked
      BY DEF MessageIsUnderWay
    <3>1. d = n + 1
      BY <2>3, <2>4, <2>5
    <3>2. scripts'[d] = a
      BY <2>3, <3>1
    <3>3. QED
      BY <1>6, <2>1, <2>2, <2>4, <3>1, <3>2
  <2>8. SomethingRuns'
    <3>1. HasInnermost("chat")'
      BY <2>1, <2>3, <2>4 DEF HasInnermost
    <3>2. scriptRun' => HasInnermost("events")'
      <4>1. /\ \A d \in 1..n : d \in 1..Len(scripts')
            /\ \A d \in 1..Len(scripts') : d \notin 1..n => scripts'[d].plugin # "events"
            /\ \A d \in 1..n : scripts'[d].plugin = scripts[d].plugin
            /\ Len(scripts') \in Nat /\ scriptRun' = scriptRun
        BY <1>a, <1>6, <2>1, <2>3, <2>4 DEF firingVars
      <4>2. QED
        BY <1>a, <4>1, InnermostStays DEF EventsInv, SomethingRuns
    <3>3. QED
      BY <3>1, <3>2 DEF SomethingRuns
  <2>9. QED
    BY <2>2, <2>6, <2>7, <2>8 DEF EventsInv, BlockedIffAsked
<1>7. ASSUME UNCHANGED <<firingVars, chatScriptRun, scripts>>,
             \E skipped : outcome' = Untold(skipped),
             UNCHANGED suppressMsg \/ ~chatScriptRun
      PROVE  EventsInv'
  <2>1. BlockedIffAsked'
    BY <1>7 DEF BlockedIffAsked, Untold
  <2>2. MessageIsUnderWay'
    BY <1>7 DEF EventsInv, MessageIsUnderWay
  <2>3. QED
    BY <1>7, <2>1, <2>2 DEF EventsInv, EventIsUnderWay, SomethingRuns, HasInnermost, firingVars
<1>8. ASSUME NEW hasScript \in BOOLEAN, ChatMessage(hasScript) PROVE EventsInv'
  <2>1. CASE RunChatScript("message") /\ suppressMsg' = FALSE /\ ~chatScriptRun
    BY <1>6, <1>8, <2>1 DEF ChatMessage
  <2>2. CASE /\ outcome' = Untold(lastRet') /\ ~chatScriptRun
             /\ UNCHANGED <<chatScriptRun, scripts>>
    BY <1>7, <1>8, <2>2 DEF ChatMessage
  <2>3. CASE outcome' = Untold(FALSE) /\ UNCHANGED <<chatScriptRun, suppressMsg, lastRet, scripts>>
    BY <1>7, <1>8, <2>3 DEF ChatMessage
  <2>4. QED
    BY <1>8, <2>1, <2>2, <2>3 DEF ChatMessage, SuppressAtMessage
<1>9. ASSUME NEW known \in BOOLEAN, CombatMessage(known) PROVE EventsInv'
  <2>1. CASE RunChatScript("combat") /\ suppressMsg' = FALSE /\ ~chatScriptRun
    BY <1>6, <1>9, <2>1 DEF CombatMessage
  <2>2. CASE /\ outcome' = Untold(~chatScriptRun /\ lastRet)
             /\ UNCHANGED <<chatScriptRun, suppressMsg, lastRet, scripts>>
    BY <1>7, <1>9, <2>2 DEF CombatMessage
  <2>3. QED
    BY <1>9, <2>1, <2>2 DEF CombatMessage, SuppressAtMessage
<1>10. CASE ChatScriptEnds
  <2> DEFINE n == Len(scripts)
  <2>1. /\ scripts' = OuterScripts /\ TopScript = scripts[n] /\ TopScript \in Script
        /\ n \in 1..n /\ Len(scripts') = n - 1 /\ \A d \in 1..(n - 1) : scripts'[d] = scripts[d]
        /\ TopScript.plugin = "chat" /\ UNCHANGED <<firingVars, suppressMsg>>
        /\ ~chatScriptRun' /\ lastRet' = suppressMsg /\ outcome' = Done(TopScript, lastRet')
    BY <1>10, TopType DEF ChatScriptEnds, TopScript
  <2>2. \A d \in 1..(n - 1) : /\ d \in 1..n /\ n \in (d + 1)..n
                             /\ \A e \in (d + 1)..(n - 1) : e \in (d + 1)..n /\ e \in 1..(n - 1)
    BY <1>a
  <2>3. \A d \in 1..(n - 1) : scripts[d].plugin # "chat"
    BY <2>1, <2>2 DEF EventsInv, MessageIsUnderWay
  <2>4. MessageIsUnderWay'
    BY <2>1, <2>3 DEF MessageIsUnderWay
  <2>5. EventIsUnderWay'
    BY <2>1, <2>2 DEF EventsInv, EventIsUnderWay, firingVars
  <2>6. SomethingRuns'
    <3>1. /\ UNCHANGED scriptRun /\ Len(scripts') \in Nat
          /\ \A d \in 1..n : d \in 1..(n - 1) \/ d = n
      BY <1>a, <2>1 DEF firingVars
    <3>2. /\ \A d \in 1..n : d \in 1..Len(scripts') => scripts'[d].plugin = scripts[d].plugin
          /\ \A d \in 1..n : d \notin 1..Len(scripts') => scripts[d].plugin # "events"
          /\ \A d \in 1..Len(scripts') : d \in 1..n
      BY <1>a, <2>1, <3>1
    <3>3. QED
      BY <1>a, <2>1, <3>1, <3>2, InnermostStays DEF EventsInv, SomethingRuns
  <2>7. BlockedIffAsked'
    <3>1. TopScript.kind \notin Kinds /\ suppressMsg = TopScript.asked
      BY <2>1 DEF EventsInv, MessageIsUnderWay
    <3>2. /\ outcome'.asked = TopScript.asked
          /\ outcome'.blockable = (TopScript.kind \notin Kinds \ Blockable)
          /\ outcome'.skipped = suppressMsg
      BY <2>1 DEF Done
    <3>3. suppressMsg \in BOOLEAN
      BY DEF EventsTypeOK
    <3>4. QED
      BY <3>1, <3>2, <3>3 DEF BlockedIffAsked
  <2>8. QED
    BY <2>4, <2>5, <2>6, <2>7 DEF EventsInv
<1>11. CASE Suppress
  <2> DEFINE k == Innermost("chat")
  <2>1. /\ scripts' = [scripts EXCEPT ![k].asked = TRUE]
        /\ suppressMsg' = TRUE
        /\ UNCHANGED <<firingVars, chatScriptRun, outcome>>
    BY <1>11 DEF Suppress
  <2>2. k \in 1..Len(scripts) /\ scripts[k].plugin = "chat"
    BY <1>11, <1>a, HasInnermostIs DEF Suppress, EventsInv, SomethingRuns
  <2>3. \A d \in 1..Len(scripts) : scripts[d].plugin = "chat" => k = d
    BY <1>a, InnermostIs DEF EventsInv, MessageIsUnderWay
  <2> HIDE DEF k
  <2>4. /\ Len(scripts') = Len(scripts)
        /\ \A d \in 1..Len(scripts) :
             /\ d # k => scripts'[d] = scripts[d]
             /\ d = k => scripts'[d] = [scripts[d] EXCEPT !.asked = TRUE]
    BY <1>a, <2>1, AskedType
  <2>5. \A d \in 1..Len(scripts) :
          /\ scripts'[d].plugin = scripts[d].plugin /\ scripts'[d].kind = scripts[d].kind
          /\ scripts'[d].target = scripts[d].target /\ scripts'[d].reset = scripts[d].reset
          /\ scripts[d].plugin = "chat" => scripts'[d].asked = TRUE
          /\ scripts[d].plugin = "events" => scripts'[d].asked = scripts[d].asked
    <3> SUFFICES ASSUME NEW d \in 1..Len(scripts)
                 PROVE  /\ scripts'[d].plugin = scripts[d].plugin /\ scripts'[d].kind = scripts[d].kind
                        /\ scripts'[d].target = scripts[d].target /\ scripts'[d].reset = scripts[d].reset
                        /\ scripts[d].plugin = "chat" => scripts'[d].asked = TRUE
                        /\ scripts[d].plugin = "events" => scripts'[d].asked = scripts[d].asked
      OBVIOUS
    <3>1. CASE d = k
      <4>1. scripts[d] \in Script /\ scripts'[d] = [scripts[d] EXCEPT !.asked = TRUE]
        BY <1>a, <2>4, <3>1
      <4>2. QED
        BY <2>2, <3>1, <4>1 DEF Script
    <3>2. CASE d # k
      BY <2>3, <2>4, <3>2
    <3>3. QED
      BY <3>1, <3>2
  <2>6. SomethingRuns'
    BY <1>a, <2>1, <2>4, <2>5, InnermostStays DEF EventsInv, SomethingRuns, firingVars
  <2>a. Len(scripts') = Len(scripts)
    BY <2>4
  <2>b. UNCHANGED <<scriptRun, oTarget, nEventID, bBypass, chatScriptRun>> /\ suppressMsg' = TRUE
    BY <2>1 DEF firingVars
  <2>7. EventIsUnderWay'
    BY <1>b, <2>a, <2>b, <2>5 DEF EventsInv, EventIsUnderWay
  <2>8. MessageIsUnderWay'
    BY <1>b, <2>a, <2>b, <2>5 DEF EventsInv, MessageIsUnderWay
  <2>9. QED
    BY <2>1, <2>6, <2>7, <2>8 DEF EventsInv, BlockedIffAsked
<1>12. CASE UNCHANGED eventsVars
  BY <1>12 DEF eventsVars, firingVars, chatVars, EventsInv, EventIsUnderWay, MessageIsUnderWay,
               SomethingRuns, HasInnermost, BlockedIffAsked
<1>13. QED
  BY <1>1, <1>2, <1>3, <1>4, <1>5, <1>8, <1>9, <1>10, <1>11, <1>12 DEF EventsNext

LEMMA EventsInvariant == EventsSpec => [](EventsTypeOK /\ EventsInv)
<1>1. EventsInit => EventsTypeOK /\ EventsInv
  BY EventsTypeInit, EventsInvInit
<1>2. (EventsTypeOK /\ EventsInv) /\ [EventsNext]_eventsVars => (EventsTypeOK /\ EventsInv)'
  BY EventsTypeStep, EventsInvStep
<1>3. QED
  BY <1>1, <1>2, PTL DEF EventsSpec

\* An event's script reads the kind and target of its own event, unless an object
\* was destroyed inside it.
THEOREM EventsKeepTheirData == EventsSpec => []EventDataIsOwn
<1>1. EventsTypeOK /\ EventsInv => EventDataIsOwn
  <2> SUFFICES ASSUME EventsTypeOK, EventsInv,
                      \E d \in 1..Len(scripts) : scripts[d].plugin = "events"
               PROVE  LET own == scripts[Innermost("events")]
                      IN ~own.reset =>
                           /\ scriptRun
                           /\ nEventID = own.kind
                           /\ own.kind \in WithTarget => oTarget = own.target
    BY DEF EventDataIsOwn
  <2> DEFINE T == {d \in 1..Len(scripts) : scripts[d].plugin = "events"}
  <2>1. Len(scripts) \in Nat
    BY DEF EventsTypeOK
  <2>2. T \in SUBSET (1..Len(scripts)) /\ T # {}
    OBVIOUS
  <2>3. PICK m \in T : \A k \in T : k <= m
    <3> HIDE DEF T
    <3>1. QED
      BY <2>1, <2>2, LargestOf
  <2>4. \A e \in (m + 1)..Len(scripts) : scripts[e].plugin # "events"
    BY <2>1, <2>3
  <2>5. Innermost("events") = m
    BY <2>1, <2>3, <2>4, InnermostIs
  <2>6. QED
    BY <2>3, <2>5 DEF EventsInv, EventIsUnderWay
<1>2. QED
  BY <1>1, EventsInvariant, PTL

\* An action or message is skipped exactly if its script asked for it.
THEOREM SkippedAsAsked == EventsSpec => []BlockedIffAsked
<1>1. EventsInv => BlockedIffAsked
  BY DEF EventsInv
<1>2. QED
  BY <1>1, EventsInvariant, PTL
-------------------------------------------------------------------------------
(* HashSet.                                                                  *)

\* The first of some keys is one of them, or end() when there are none.
LEMMA FirstOfIs ==
  ASSUME NEW S \in SUBSET Key
  PROVE  /\ FirstOf(S) \in S \cup {End}
         /\ \A k \in S : FirstOf(S) <= k
         /\ FirstOf(S) \in Nat /\ FirstOf(S) <= End
<1> DEFINE T == S \cup {End}
<1>1. T \in SUBSET Nat /\ T # {} /\ End \in T /\ End \in Nat
  BY HashSetAssumption DEF Key, End
<1> HIDE DEF T
<1>2. \E m \in T : \A k \in T : m <= k
  BY <1>1, SmallestOf
<1>3. Min(T) \in T /\ \A k \in T : Min(T) <= k
  BY <1>2 DEF Min
<1>4. FirstOf(S) = Min(T)
  BY DEF FirstOf, T
<1>5. QED
  BY <1>1, <1>3, <1>4 DEF T

\* What a set and its walk may be.
SetRecord  == [exists : BOOLEAN, hashset : SUBSET Key, p : {Undefined} \cup Key \cup {End}]
WalkRecord == [given : Seq(Key), there : SUBSET Key, valid : BOOLEAN]

LEMMA HashSetTypes ==
  ASSUME HashSetTypeOK, NEW n \in SetName
  PROVE  /\ HashSets[n] \in SetRecord /\ SetOf(n) \in SetRecord /\ walk[n] \in WalkRecord
         /\ NoSet \in SetRecord /\ NoWalk \in WalkRecord
         /\ HashSets[n].exists => SetOf(n) = HashSets[n]
<1>1. HashSets[n] \in SetRecord /\ walk[n] \in WalkRecord
  BY DEF HashSetTypeOK, SetRecord, WalkRecord
<1>2. NoSet \in SetRecord /\ NewSet \in SetRecord
  BY DEF NewSet, NoSet, SetRecord
<1>3. NoWalk \in WalkRecord
  BY EmptySeq DEF NoWalk, WalkRecord
<1>4. QED
  BY <1>1, <1>2, <1>3 DEF SetOf

LEMMA GivenAlsoType ==
  ASSUME NEW given \in Seq(Key), NEW k \in Key \cup {End}
  PROVE  GivenAlso(given, k) \in Seq(Key)
BY Pushed, HashSetAssumption DEF GivenAlso, Key, End

\* Where p goes.
LEMMA AfterIs ==
  ASSUME HashSetTypeOK, NEW n \in SetName
  PROVE  /\ After(n) \in {k \in HashSets[n].hashset : k > HashSets[n].p} \cup {End}
         /\ After(n) \in Key \cup {End}
         /\ \A k \in HashSets[n].hashset : k > HashSets[n].p => After(n) <= k
<1> DEFINE S == {k \in HashSets[n].hashset : k > HashSets[n].p}
<1>1. S \in SUBSET Key
  BY HashSetTypes DEF SetRecord
<1>2. After(n) = FirstOf(S)
  BY DEF After
<1>3. /\ FirstOf(S) \in S \cup {End}
      /\ \A k \in S : FirstOf(S) <= k
  <2> HIDE DEF S
  <2>1. QED
    BY <1>1, FirstOfIs
<1>4. QED
  BY <1>1, <1>2, <1>3

LEMMA HashSetTypeInit == HashSetInit => HashSetTypeOK
<1>1. NoSet \in SetRecord /\ NoWalk \in WalkRecord
  BY EmptySeq DEF NoSet, SetRecord, NoWalk, WalkRecord
<1>2. QED
  BY <1>1 DEF HashSetInit, HashSetTypeOK, SetRecord, WalkRecord

LEMMA HashSetTypeStep == HashSetTypeOK /\ [HashSetNext]_hashsetVars => HashSetTypeOK'
<1> SUFFICES ASSUME HashSetTypeOK, [HashSetNext]_hashsetVars PROVE HashSetTypeOK'
  OBVIOUS
<1>a. /\ HashSets \in [SetName -> SetRecord] /\ walk \in [SetName -> WalkRecord]
      /\ iLastOperation \in BOOLEAN /\ keyAnswered \in Key \cup {End, Nothing}
  BY DEF HashSetTypeOK, SetRecord, WalkRecord
<1>b. HashSetTypeOK' <=> /\ HashSets' \in [SetName -> SetRecord] /\ walk' \in [SetName -> WalkRecord]
                         /\ iLastOperation' \in BOOLEAN /\ keyAnswered' \in Key \cup {End, Nothing}
  BY DEF HashSetTypeOK, SetRecord, WalkRecord
<1>1. ASSUME NEW n \in SetName, Create(n) \/ Destroy(n) \/ GetSize(n) PROVE HashSetTypeOK'
  BY <1>1, <1>a, <1>b, HashSetTypes DEF Create, Destroy, GetSize, SetRecord
<1>2. ASSUME NEW n \in SetName, NEW k \in Key, Insert(n, k) PROVE HashSetTypeOK'
  <2>1. [SetOf(n) EXCEPT !.hashset = @ \cup {k}] \in SetRecord
    BY HashSetTypes DEF SetRecord
  <2>2. QED
    BY <1>2, <1>a, <1>b, <2>1 DEF Insert
<1>3. ASSUME NEW n \in SetName, NEW k \in Key, Delete(n, k) PROVE HashSetTypeOK'
  <2>1. Without(SetOf(n), k) \in SetRecord
    BY HashSetTypes DEF SetRecord, Without
  <2>2. WalkWithout(n, k) \in WalkRecord
    BY HashSetTypes DEF WalkRecord, WalkWithout
  <2>3. QED
    BY <1>3, <1>a, <1>b, <2>1, <2>2 DEF Delete
<1>4. ASSUME NEW n \in SetName, NEW k \in Key, Lookup(n, k) PROVE HashSetTypeOK'
  BY <1>4, <1>a, <1>b DEF Lookup
<1>5. ASSUME NEW n \in SetName, NoSuchSet(n) PROVE HashSetTypeOK'
  BY <1>5, <1>a, <1>b DEF NoSuchSet
<1>6. ASSUME NEW n \in SetName, NEW k \in Key \cup {End}, MoveTo(n, k)
      PROVE  HashSets' \in [SetName -> SetRecord] /\ keyAnswered' \in Key \cup {End}
  <2>1. [HashSets[n] EXCEPT !.p = k] \in SetRecord
    BY HashSetTypes DEF SetRecord
  <2>2. QED
    BY <1>6, <1>a, <2>1 DEF MoveTo
<1>7. ASSUME NEW n \in SetName, GetFirstKey(n) PROVE HashSetTypeOK'
  <2>1. CASE NoSuchSet(n)
    BY <1>5, <2>1
  <2>2. CASE ~NoSuchSet(n)
    <3>1. FirstOf(HashSets[n].hashset) \in Key \cup {End} /\ HashSets[n].hashset \in SUBSET Key
      BY FirstOfIs, HashSetTypes DEF SetRecord
    <3>2. HashSets' \in [SetName -> SetRecord] /\ keyAnswered' \in Key \cup {End}
      BY <1>6, <1>7, <2>2, <3>1 DEF GetFirstKey
    <3>3. [given |-> GivenAlso(<<>>, keyAnswered'), there |-> HashSets[n].hashset, valid |-> TRUE] \in WalkRecord
      BY <3>1, <3>2, GivenAlsoType, EmptySeq DEF WalkRecord
    <3>4. QED
      BY <1>a, <1>b, <1>7, <2>2, <3>2, <3>3 DEF GetFirstKey
  <2>3. QED
    BY <2>1, <2>2
<1>8. ASSUME NEW n \in SetName, GetNextKey(n) PROVE HashSetTypeOK'
  <2>1. CASE NoSuchSet(n)
    BY <1>5, <2>1
  <2>2. CASE ~NoSuchSet(n)
    <3>1. After(n) \in Key \cup {End}
      BY AfterIs
    <3>2. HashSets' \in [SetName -> SetRecord] /\ keyAnswered' \in Key \cup {End}
      BY <1>a, <1>6, <1>8, <2>2, <3>1 DEF GetNextKey
    <3>3. GivenAlso(walk[n].given, keyAnswered') \in Seq(Key)
      BY <3>2, GivenAlsoType, HashSetTypes DEF WalkRecord
    <3>4. [walk[n] EXCEPT !.given = IF walk[n].valid THEN GivenAlso(@, keyAnswered') ELSE @] \in WalkRecord
      BY <3>3, HashSetTypes DEF WalkRecord
    <3>5. walk' = [walk EXCEPT ![n] = [walk[n] EXCEPT !.given =
                     IF walk[n].valid THEN GivenAlso(@, keyAnswered') ELSE @]]
          /\ iLastOperation' = TRUE
      BY <1>a, <1>8, <2>2 DEF GetNextKey
    <3>6. QED
      BY <1>a, <1>b, <3>2, <3>4, <3>5
  <2>3. QED
    BY <2>1, <2>2
<1>9. ASSUME NEW n \in SetName, GetCurrentKey(n) \/ HasNext(n) PROVE HashSetTypeOK'
  <2>1. CASE NoSuchSet(n)
    BY <1>5, <2>1
  <2>2. CASE ~NoSuchSet(n)
    BY <1>9, <1>a, <1>b, <2>2, HashSetTypes DEF GetCurrentKey, HasNext, LookAhead, SetRecord
  <2>3. QED
    BY <2>1, <2>2
<1>10. CASE ValidOrExists
  BY <1>10, <1>a, <1>b DEF ValidOrExists
<1>11. CASE UNCHANGED hashsetVars
  BY <1>11, <1>a, <1>b DEF hashsetVars
<1>12. QED
  BY <1>1, <1>2, <1>3, <1>4, <1>7, <1>8, <1>9, <1>10, <1>11 DEF HashSetNext

\* The variables of the HashSet plugin keep their types.
THEOREM HashSetTypeCorrect == HashSetSpec => []HashSetTypeOK
BY HashSetTypeInit, HashSetTypeStep, PTL DEF HashSetSpec

\* A walk of a set that it describes: a set that is there, what it has had, in
\* order, up to the key it is at, and what it still has to come to.
WalkRight(set, w) ==
  w.valid =>
    /\ set.exists
    /\ w.there \subseteq set.hashset
    /\ set.p \in set.hashset \cup {End}
    /\ \A i, j \in DOMAIN w.given : i < j => w.given[i] < w.given[j]
    /\ \A i \in DOMAIN w.given : w.given[i] <= set.p
    /\ {k \in w.there : k <= set.p} \subseteq Range(w.given)

HashSetInv == \A n \in SetName : WalkRight(HashSets[n], walk[n])

\* A walk that goes on to the next key has had that key too, and all it had.
LEMMA GivenAlsoIs ==
  ASSUME NEW given \in Seq(Key), NEW k \in Key \cup {End}, NEW p \in Nat, k = End \/ p < k,
         \A i, j \in DOMAIN given : i < j => given[i] < given[j],
         \A i \in DOMAIN given : given[i] <= p, p <= k
  PROVE  /\ \A i, j \in DOMAIN GivenAlso(given, k) :
              i < j => GivenAlso(given, k)[i] < GivenAlso(given, k)[j]
         /\ \A i \in DOMAIN GivenAlso(given, k) : GivenAlso(given, k)[i] <= k
         /\ Range(given) \subseteq Range(GivenAlso(given, k))
         /\ k \in Key => k \in Range(GivenAlso(given, k))
<1>0. /\ k \in Nat /\ \A i \in DOMAIN given : given[i] \in Nat
      /\ Len(given) \in Nat /\ DOMAIN given = 1..Len(given)
  BY HashSetAssumption, ElementOfSeq DEF Key, End
<1>1. CASE k = End
  <2>1. GivenAlso(given, k) = given /\ k \notin Key
    BY <1>1, HashSetAssumption DEF GivenAlso, End, Key
  <2>2. QED
    BY <1>0, <2>1
<1>2. CASE k # End
  <2> DEFINE g == GivenAlso(given, k)
             m == Len(given)
  <2>1. /\ g \in Seq(Key) /\ Len(g) = m + 1 /\ DOMAIN g = 1..(m + 1)
        /\ \A i \in 1..m : g[i] = given[i]
        /\ g[m + 1] = k /\ p < k
    BY <1>2, Pushed DEF GivenAlso
  <2> HIDE DEF g
  <2>2. \A i \in DOMAIN g : (i \in DOMAIN given /\ i < m + 1) \/ i = m + 1
    BY <1>0, <2>1
  <2>3. \A i \in DOMAIN given : i \in DOMAIN g /\ g[i] = given[i] /\ g[i] < k
    BY <1>0, <2>1
  <2>4. \A i, j \in DOMAIN g : i < j => g[i] < g[j]
    BY <1>0, <2>1, <2>2, <2>3
  <2>5. \A i \in DOMAIN g : g[i] <= k
    BY <1>0, <2>1, <2>2, <2>3
  <2>6. Range(given) \subseteq Range(g)
    BY <2>3 DEF Range
  <2>7. k \in Range(g)
    BY <1>0, <2>1 DEF Range
  <2>8. QED
    BY <2>4, <2>5, <2>6, <2>7 DEF g
<1>3. QED
  BY <1>1, <1>2

LEMMA HashSetInvInit == HashSetInit => HashSetInv
BY DEF HashSetInit, HashSetInv, WalkRight, NoWalk

\* What is done to one set and its walk leaves the others alone.
LEMMA OneSetOnly ==
  ASSUME HashSetTypeOK, HashSetInv, NEW n \in SetName, NEW set, NEW w,
         HashSets' = [HashSets EXCEPT ![n] = set], walk' = [walk EXCEPT ![n] = w],
         WalkRight(set, w)
  PROVE  HashSetInv'
BY DEF HashSetTypeOK, HashSetInv

LEMMA HashSetInvStep == HashSetTypeOK /\ HashSetInv /\ [HashSetNext]_hashsetVars => HashSetInv'
<1> SUFFICES ASSUME HashSetTypeOK, HashSetInv, [HashSetNext]_hashsetVars PROVE HashSetInv'
  OBVIOUS
<1>a. HashSets \in [SetName -> SetRecord] /\ walk \in [SetName -> WalkRecord]
  BY DEF HashSetTypeOK, SetRecord, WalkRecord
<1>b. \A k \in Key \cup {End, Undefined} : k \in Nat
  BY HashSetAssumption DEF Key, End, Undefined
<1>c. ASSUME UNCHANGED <<HashSets, walk>> PROVE HashSetInv'
  BY <1>c DEF HashSetInv
<1>d. \A n \in SetName : WalkRight(HashSets[n], walk[n])
  BY DEF HashSetInv
<1>e. \A n \in SetName : WalkRight(SetOf(n), walk[n])
  BY <1>d, HashSetTypes DEF WalkRight
<1>f. walk = [n \in SetName |-> walk[n]]
  BY <1>a
<1>1. ASSUME NEW n \in SetName, Create(n) PROVE HashSetInv'
  <2>1. walk' = [walk EXCEPT ![n] = walk[n]]
    BY <1>1, <1>a DEF Create
  <2>2. QED
    BY <1>1, <1>e, <2>1, OneSetOnly DEF Create
<1>2. ASSUME NEW n \in SetName, Destroy(n) PROVE HashSetInv'
  <2>1. WalkRight(NoSet, NoWalk)
    BY DEF WalkRight, NoWalk
  <2>2. QED
    BY <1>2, <2>1, OneSetOnly DEF Destroy
<1>3. ASSUME NEW n \in SetName, NEW k \in Key, Insert(n, k) PROVE HashSetInv'
  <2>1. walk' = [walk EXCEPT ![n] = walk[n]]
    BY <1>3, <1>a DEF Insert
  <2> DEFINE set == [SetOf(n) EXCEPT !.hashset = @ \cup {k}]
  <2>2. /\ set.exists = SetOf(n).exists /\ set.p = SetOf(n).p
        /\ set.hashset = SetOf(n).hashset \cup {k}
    BY HashSetTypes DEF SetRecord
  <2>3. HashSets' = [HashSets EXCEPT ![n] = set]
    BY <1>3 DEF Insert
  <2> HIDE DEF set
  <2>4. WalkRight(set, walk[n])
    BY <1>e, <2>2 DEF WalkRight
  <2>5. QED
    BY <2>1, <2>3, <2>4, OneSetOnly
<1>4. ASSUME NEW n \in SetName, NEW k \in Key, Delete(n, k) PROVE HashSetInv'
  <2> DEFINE set == Without(SetOf(n), k)
             w   == WalkWithout(n, k)
  <2>1. HashSets' = [HashSets EXCEPT ![n] = set] /\ walk' = [walk EXCEPT ![n] = w]
    BY <1>4 DEF Delete
  <2>2. ASSUME w.valid PROVE WalkRight(set, w)
    <3>1. /\ HashSets[n].p # k /\ walk[n].valid /\ w.there = walk[n].there \ {k}
          /\ w.given = walk[n].given
      BY <2>2, HashSetTypes DEF WalkWithout, WalkRecord, NoWalk
    <3>2. SetOf(n) = HashSets[n]
      BY <1>d, <3>1, HashSetTypes DEF WalkRight
    <3>3. /\ set.exists = HashSets[n].exists /\ set.p = HashSets[n].p
          /\ set.hashset = HashSets[n].hashset \ {k}
      BY <3>1, <3>2, HashSetTypes DEF SetRecord, Without
    <3> HIDE DEF set, w
    <3>4. WalkRight(HashSets[n], walk[n])
      BY <1>d
    <3>5. QED
      BY <3>1, <3>3, <3>4 DEF WalkRight
  <2>3. WalkRight(set, w)
    <3> HIDE DEF set, w
    <3>1. QED
      BY <2>2 DEF WalkRight
  <2>4. QED
    <3> HIDE DEF set, w
    <3>1. QED
      BY <2>1, <2>3, OneSetOnly
<1>5. ASSUME NEW n \in SetName, NEW k \in Key, Lookup(n, k) PROVE HashSetInv'
  BY <1>5, <1>c DEF Lookup
<1>6. ASSUME NEW n \in SetName, GetSize(n) \/ NoSuchSet(n) \/ GetCurrentKey(n) \/ HasNext(n)
      PROVE  HashSetInv'
  BY <1>6, <1>c DEF GetSize, NoSuchSet, GetCurrentKey, HasNext, LookAhead
<1>7. ASSUME NEW n \in SetName, GetFirstKey(n) PROVE HashSetInv'
  <2>1. CASE NoSuchSet(n)
    BY <1>6, <2>1
  <2>2. CASE ~NoSuchSet(n)
    <3> DEFINE h == HashSets[n].hashset
               k == FirstOf(h)
               set == [HashSets[n] EXCEPT !.p = k]
               w == [given |-> GivenAlso(<<>>, k), there |-> h, valid |-> TRUE]
    <3>1. /\ HashSets' = [HashSets EXCEPT ![n] = set] /\ walk' = [walk EXCEPT ![n] = w]
          /\ HashSets[n].exists
      BY <1>7, <1>a, <2>2 DEF GetFirstKey, MoveTo
    <3>2. h \in SUBSET Key /\ set.exists /\ set.hashset = h /\ set.p = k
      BY <3>1, HashSetTypes DEF SetRecord
    <3>3. /\ k \in h \cup {End} /\ k \in Nat /\ k \in Key \cup {End} /\ \A j \in h : k <= j
          /\ \A j \in h : j \in Nat
      <4> HIDE DEF h
      <4>1. QED
        BY <1>b, <3>2, FirstOfIs
    <3>4. k = End \/ 0 < k
      BY <3>3, HashSetAssumption DEF Key, End
    <3> DEFINE none == <<>>
    <3>5. none \in Seq(Key) /\ DOMAIN none = {}
      OBVIOUS
    <3> HIDE DEF none, k
    <3>6. /\ \A i, j \in DOMAIN GivenAlso(none, k) : i < j => GivenAlso(none, k)[i] < GivenAlso(none, k)[j]
          /\ \A i \in DOMAIN GivenAlso(none, k) : GivenAlso(none, k)[i] <= k
          /\ k \in Key => k \in Range(GivenAlso(none, k))
      <4>1. 0 \in Nat /\ 0 <= k
        BY <3>3
      <4>2. QED
        BY <3>3, <3>4, <3>5, <4>1, GivenAlsoIs
    <3>7. w.given = GivenAlso(none, k) /\ w.there = h
      BY DEF none
    <3> HIDE DEF w, set, h
    <3>8. {j \in w.there : j <= set.p} \subseteq Range(w.given)
      <4> SUFFICES ASSUME NEW j \in h, j <= k PROVE j \in Range(w.given)
        BY <3>2, <3>7
      <4>1. j \in Nat /\ k <= j /\ k \in Nat
        BY <3>3
      <4>2. j = k /\ j \in Key
        BY <3>2, <4>1
      <4>3. QED
        BY <3>6, <3>7, <4>2
    <3>9. WalkRight(set, w)
      BY <3>2, <3>3, <3>6, <3>7, <3>8 DEF WalkRight
    <3>10. QED
      BY <3>1, <3>9, OneSetOnly
  <2>3. QED
    BY <2>1, <2>2
<1>8. ASSUME NEW n \in SetName, GetNextKey(n) PROVE HashSetInv'
  <2>1. CASE NoSuchSet(n)
    BY <1>6, <2>1
  <2>2. CASE ~walk[n].valid /\ ~NoSuchSet(n)
    <3>1. PICK set : HashSets' = [HashSets EXCEPT ![n] = set]
      <4>1. HashSets = [HashSets EXCEPT ![n] = HashSets[n]]
        BY <1>a
      <4>2. QED
        BY <1>8, <2>2, <4>1 DEF GetNextKey, MoveTo
    <3>2. walk' = [walk EXCEPT ![n] = walk[n]]
      <4>1. [walk[n] EXCEPT !.given = walk[n].given] = walk[n]
        BY HashSetTypes DEF WalkRecord
      <4>2. walk' = [walk EXCEPT ![n] = [walk[n] EXCEPT !.given = walk[n].given]]
        BY <1>8, <2>2 DEF GetNextKey
      <4>3. QED
        BY <4>1, <4>2
    <3>3. QED
      BY <2>2, <3>1, <3>2, OneSetOnly DEF WalkRight
  <2>3. CASE walk[n].valid /\ ~NoSuchSet(n)
    <3>1. WalkRight(HashSets[n], walk[n]) /\ walk[n].valid
      BY <1>d, <2>3
    <3>2. HashSets[n].p \in Key \cup {End} /\ HashSets[n].p # Undefined
      BY <3>1, HashSetTypes, HashSetAssumption DEF WalkRight, SetRecord, Undefined, Key, End
    <3> DEFINE p == HashSets[n].p
               k == IF p = End THEN End ELSE After(n)
               set == [HashSets[n] EXCEPT !.p = k]
               w == [walk[n] EXCEPT !.given = GivenAlso(@, k)]
    <3>3. HashSets' = [HashSets EXCEPT ![n] = set] /\ walk' = [walk EXCEPT ![n] = w]
      <4>1. MoveTo(n, k)
        BY <1>8, <2>3, <3>2, HashSetAssumption DEF GetNextKey, Key, End
      <4>2. HashSets' = [HashSets EXCEPT ![n] = set] /\ keyAnswered' = k
        BY <1>a, <4>1 DEF MoveTo
      <4>3. walk' = [walk EXCEPT ![n] = [walk[n] EXCEPT !.given = GivenAlso(walk[n].given, keyAnswered')]]
        BY <1>8, <2>3 DEF GetNextKey
      <4>4. QED
        BY <4>2, <4>3
    <3>4. /\ k \in HashSets[n].hashset \cup {End} /\ k \in Key \cup {End}
          /\ p \in Nat /\ k \in Nat /\ (k = End \/ p < k) /\ p <= k
          /\ \A j \in HashSets[n].hashset : j \in Nat /\ (p < j => k <= j)
      <4>1. p \in Nat /\ End \in Nat /\ p <= End /\ \A j \in HashSets[n].hashset : j \in Nat
        BY <1>b, <3>2, HashSetTypes, HashSetAssumption DEF SetRecord, Key, End
      <4>2. CASE p = End
        <5>1. \A j \in HashSets[n].hashset : ~(p < j)
          BY <4>2, HashSetTypes, HashSetAssumption DEF SetRecord, Key, End
        <5>2. QED
          BY <4>1, <4>2, <5>1
      <4>3. CASE p # End
        <5>1. k = After(n)
          BY <4>3
        <5>2. After(n) \in Nat
          BY <1>b, AfterIs
        <5>3. QED
          BY <4>1, <5>1, <5>2, AfterIs
      <4>4. QED
        BY <4>2, <4>3
    <3>5. /\ set.exists = HashSets[n].exists /\ set.hashset = HashSets[n].hashset /\ set.p = k
          /\ w.given = GivenAlso(walk[n].given, k) /\ w.there = walk[n].there
          /\ walk[n].given \in Seq(Key)
      BY HashSetTypes DEF SetRecord, WalkRecord
    <3> HIDE DEF set, w, k
    <3>6. /\ \A i, j \in DOMAIN w.given : i < j => w.given[i] < w.given[j]
          /\ \A i \in DOMAIN w.given : w.given[i] <= k
          /\ Range(walk[n].given) \subseteq Range(w.given)
          /\ k \in Key => k \in Range(w.given)
      BY <3>1, <3>4, <3>5, GivenAlsoIs DEF WalkRight
    <3>7. {j \in w.there : j <= k} \subseteq Range(w.given)
      <4> SUFFICES ASSUME NEW j \in walk[n].there, j <= k PROVE j \in Range(w.given)
        BY <3>5
      <4>1. j \in HashSets[n].hashset /\ j \in Nat /\ j \in Key
        BY <3>1, <3>4, HashSetTypes DEF WalkRight, WalkRecord
      <4>2. CASE j <= p
        BY <3>1, <3>6, <4>2 DEF WalkRight
      <4>3. CASE ~(j <= p)
        <5>1. k = j
          BY <3>4, <4>1, <4>3
        <5>2. QED
          BY <3>6, <4>1, <5>1
      <4>4. QED
        BY <4>2, <4>3
    <3>8. WalkRight(set, w)
      BY <3>1, <3>4, <3>5, <3>6, <3>7 DEF WalkRight
    <3>9. QED
      BY <3>3, <3>8, OneSetOnly
  <2>4. QED
    BY <2>1, <2>2, <2>3
<1>9. CASE ValidOrExists
  BY <1>9, <1>c DEF ValidOrExists
<1>10. CASE UNCHANGED hashsetVars
  BY <1>10, <1>c DEF hashsetVars
<1>11. QED
  BY <1>1, <1>2, <1>3, <1>4, <1>5, <1>6, <1>7, <1>8, <1>9, <1>10 DEF HashSetNext

\* A walk has every key that stays in the set once and in order, whatever is done
\* to the set meanwhile.
THEOREM WalksAreComplete == HashSetSpec => []WalkIsComplete
<1>1. HashSetInit => HashSetTypeOK /\ HashSetInv
  BY HashSetTypeInit, HashSetInvInit
<1>2. (HashSetTypeOK /\ HashSetInv) /\ [HashSetNext]_hashsetVars => (HashSetTypeOK /\ HashSetInv)'
  BY HashSetTypeStep, HashSetInvStep
<1>3. HashSetInv => WalkIsComplete
  BY DEF HashSetInv, WalkRight, WalkIsComplete
<1>4. QED
  BY <1>1, <1>2, <1>3, PTL DEF HashSetSpec
-------------------------------------------------------------------------------
(* Remainders.                                                               *)

\* The remainder of a sum depends on those of its parts.
LEMMA RemainderOf ==
  ASSUME NEW W \in Nat \ {0}, NEW a \in Nat
  PROVE  /\ a = W * (a \div W) + (a % W) /\ a % W \in 0..(W - 1) /\ a \div W \in Int
         /\ a < W => a % W = a
OBVIOUS

LEMMA RemainderIs ==
  ASSUME NEW W \in Nat \ {0}, NEW q \in Int, NEW r \in 0..(W - 1)
  PROVE  (W * q + r) % W = r
OBVIOUS

LEMMA RemainderOfSum ==
  ASSUME NEW W \in Nat \ {0}, NEW a \in Nat, NEW b \in Nat
  PROVE  ((a % W) + b) % W = (a + b) % W /\ (a + W) % W = a % W
<1>1. PICK q \in Int : q = a \div W
  BY RemainderOf
<1>2. PICK r \in 0..(W - 1) : r = a % W
  BY RemainderOf
<1>3. a = W * q + r
  BY <1>1, <1>2, RemainderOf
<1>4. r + b \in Nat
  OBVIOUS
<1>5. PICK p \in Int : p = (r + b) \div W
  BY <1>4, RemainderOf
<1>6. PICK s \in 0..(W - 1) : s = (r + b) % W
  BY <1>4, RemainderOf
<1>7. r + b = W * p + s
  BY <1>4, <1>5, <1>6, RemainderOf
<1>8. a + b = W * (q + p) + s /\ a + W = W * (q + 1) + r /\ q + p \in Int /\ q + 1 \in Int
  BY <1>3, <1>7
<1>9. QED
  BY <1>2, <1>6, <1>8, RemainderIs
-------------------------------------------------------------------------------
(* ResMan.                                                                   *)

\* What holds nothing has no size.
EmptyIsSizeless == \A r \in Resource : resource[r].pResData = NoData => resource[r].resSize = 0

MemoryInv == ResManTypeOK /\ EmptyIsSizeless /\ MemoryAddsUp

LEMMA SizesAre ==
  ASSUME ResManTypeOK
  PROVE  /\ IsFiniteSet(Resource) /\ Word \in Nat /\ Word \in Nat \ {0} /\ MaxSize \in Nat
         /\ MaxSize <= Word /\ FreeMemory \in Nat /\ FreeMemory < Word /\ Total \in Nat /\ Total < Word
         /\ \A r \in Resource : /\ HeldSizes[r] = resource[r].resSize /\ HeldSizes[r] \in Nat
                                /\ resource[r].resSize \in 0..MaxSize
<1>1. IsFiniteSet(Resource) /\ Word \in Nat /\ Word \in Nat \ {0} /\ MaxSize \in Nat /\ MaxSize <= Word
      /\ Total \in Nat /\ Total < Word
  BY ResManAssumption
<1>2. FreeMemory \in 0..(Word - 1)
  BY DEF ResManTypeOK
<1>3. FreeMemory \in Nat /\ FreeMemory < Word
  BY <1>1, <1>2
<1>4. \A r \in Resource : resource[r].resSize \in 0..MaxSize
  BY DEF ResManTypeOK
<1>5. \A r \in Resource : HeldSizes[r] = resource[r].resSize
  BY DEF HeldSizes
<1>6. \A r \in Resource : resource[r].resSize \in Nat
  BY <1>1, <1>4
<1>7. QED
  BY <1>1, <1>3, <1>4, <1>5, <1>6

LEMMA SizeIs == \A S : Size(S) = SumOver(HeldSizes, S)
BY DEF Size, SumOver, MapThenSumSet, MapThenFoldSet

LEMMA SizeIsNext == \A S : Size(S)' = SumOver(HeldSizes', S)
BY DEF Size, SumOver, MapThenSumSet, MapThenFoldSet

LEMMA SizeOfNone == Size({}) = 0
<1>1. PICK w : w = HeldSizes
  OBVIOUS
<1>2. SumOver(w, {}) = 0
  BY FS_EmptySet, SumOfZeros
<1>3. QED
  BY <1>1, <1>2, SizeIs

\* Steps that leave the memory alone.
LEMMA MemoryStays ==
  ASSUME MemoryInv, UNCHANGED <<resource, FreeMemory>>, ResManTypeOK'
  PROVE  MemoryInv'
<1>1. HeldSizes' = HeldSizes
  BY DEF HeldSizes
<1>2. Size(Resource)' = Size(Resource)
  BY <1>1, SizeIs, SizeIsNext
<1>3. QED
  BY <1>2 DEF MemoryInv, EmptyIsSizeless, MemoryAddsUp

\* The memory after resource r got size z and others were freed.
LEMMA MemoryAfter ==
  ASSUME MemoryInv, NEW r \in Resource, NEW T \in SUBSET Resource, NEW z \in 0..Word,
         resource'[r].resSize = z,
         \A x \in T \ {r} : resource'[x].resSize = 0,
         \A x \in Resource \ (T \cup {r}) : resource'[x].resSize = resource[x].resSize,
         FreeMemory' = (FreeMemory + Size(T) + (IF r \in T THEN 0 ELSE resource[r].resSize)
                         + Word - z) % Word
  PROVE  MemoryAddsUp' /\ FreeMemory' \in 0..(Word - 1)
<1>1. ResManTypeOK /\ z \in Nat /\ (FreeMemory + Size(Resource)) % Word = Total
  BY SizesAre DEF MemoryInv, MemoryAddsUp
<1>2. PICK w : w = HeldSizes
  OBVIOUS
<1>3. PICK v : v = HeldSizes'
  OBVIOUS
<1>4. \A x \in Resource : w[x] \in Nat /\ w[x] = resource[x].resSize /\ v[x] = resource'[x].resSize
  BY <1>1, <1>2, <1>3, SizesAre DEF HeldSizes
<1>5. PICK U : U = T \cup {r}
  OBVIOUS
<1>6. v[r] = z /\ (\A x \in U \ {r} : v[x] = 0) /\ (\A x \in Resource \ U : v[x] = w[x])
  BY <1>4, <1>5
<1>7. PICK all : all = SumOver(w, Resource)
  OBVIOUS
<1>8. PICK after : after = SumOver(v, Resource)
  OBVIOUS
<1>9. PICK freed : freed = SumOver(w, U)
  OBVIOUS
<1>10. all \in Nat /\ after \in Nat /\ freed \in Nat /\ after + freed = all + z
  <2>1. U \in SUBSET Resource /\ r \in U /\ IsFiniteSet(Resource) /\ IsFiniteSet(U)
    BY <1>1, <1>5, SizesAre, FS_Subset
  <2>2. SumOver(w, Resource) \in Nat /\ SumOver(w, U) \in Nat
    BY <1>4, <2>1, SumParts
  <2>3. SumOver(v, Resource) \in Nat
        /\ SumOver(v, Resource) + SumOver(w, U) = SumOver(w, Resource) + z
    <3>1. \A x \in Resource : w[x] \in Nat
      BY <1>4
    <3>2. z \in Nat
      BY <1>1
    <3>3. v[r] = z
      BY <1>6
    <3>4. \A x \in U \ {r} : v[x] = 0
      BY <1>6
    <3>5. \A x \in Resource \ U : v[x] = w[x]
      BY <1>6
    <3>6. QED
      BY ONLY <2>1, <3>1, <3>2, <3>3, <3>4, <3>5, SumAfter
  <2>4. QED
    BY <1>7, <1>8, <1>9, <2>2, <2>3
<1>11. /\ Size(Resource) = all /\ Size(Resource)' = after
       /\ Size(T) + (IF r \in T THEN 0 ELSE resource[r].resSize) = freed
       /\ Size(T) \in Nat /\ (IF r \in T THEN 0 ELSE resource[r].resSize) \in Nat
  <2>1. IsFiniteSet(T) /\ IsFiniteSet(U) /\ SumOver(w, T) \in Nat
    <3>1. IsFiniteSet(T) /\ IsFiniteSet(U)
      BY <1>1, <1>5, SizesAre, FS_Subset
    <3>2. QED
      BY <1>4, <3>1, SumParts
  <2>2. SumOver(w, T) + (IF r \in T THEN 0 ELSE w[r]) = SumOver(w, U)
    <3>1. CASE r \in T
      <4>1. U = T
        BY <1>5, <3>1
      <4>2. QED
        BY <2>1, <3>1, <4>1
    <3>2. CASE r \notin T
      <4>1. U \ {r} = T /\ U \in SUBSET Resource /\ r \in U
        BY <1>5, <3>2
      <4>2. SumOver(w, U) = w[r] + SumOver(w, U \ {r})
        <5>1. \A x \in U : w[x] \in Nat
          BY <1>4, <4>1
        <5>2. IsFiniteSet(U) /\ r \in U
          BY <2>1, <4>1
        <5>3. QED
          BY ONLY <5>1, <5>2, SumParts
      <4>3. SumOver(w, U) = w[r] + SumOver(w, T) /\ w[r] \in Nat /\ SumOver(w, T) \in Nat
        BY <1>4, <2>1, <4>1, <4>2
      <4>4. (IF r \in T THEN 0 ELSE w[r]) = w[r]
        BY <3>2
      <4>5. QED
        BY ONLY <4>3, <4>4
    <3>3. QED
      BY <3>1, <3>2
  <2>3. Size(T) = SumOver(w, T)
    BY <1>2, SizeIs
  <2>4. (IF r \in T THEN 0 ELSE resource[r].resSize) = (IF r \in T THEN 0 ELSE w[r])
        /\ (IF r \in T THEN 0 ELSE w[r]) \in Nat
    BY <1>4
  <2>5. Size(Resource) = all /\ Size(Resource)' = after
    BY <1>2, <1>3, <1>7, <1>8, SizeIs, SizeIsNext
  <2>6. QED
    BY <1>9, <2>1, <2>2, <2>3, <2>4, <2>5
<1>12. PICK free \in Nat : free = FreeMemory
  BY <1>1, SizesAre
<1>13. Word \in Nat \ {0} /\ Word \in Nat /\ z <= Word
  BY <1>1, SizesAre
<1>14. FreeMemory' = (free + freed + Word - z) % Word
  BY <1>11, <1>12, <1>13
<1>15. free + freed + Word - z \in Nat
  BY <1>10, <1>12, <1>13
<1>16. PICK m \in Nat : m = free + freed + Word - z
  BY <1>15
<1>17. FreeMemory' = m % Word /\ FreeMemory' \in 0..(Word - 1)
  BY <1>13, <1>14, <1>16, RemainderOf
<1>18. ((m % Word) + after) % Word = (m + after) % Word
  BY <1>10, <1>13, RemainderOfSum
<1>19. m + after = (free + all) + Word
  BY <1>10, <1>12, <1>13, <1>16
<1>20. (m + after) % Word = (free + all) % Word
  <2>1. PICK n \in Nat : n = free + all
    BY <1>10
  <2>2. (n + Word) % Word = n % Word
    BY <1>13, <2>1, RemainderOfSum
  <2>3. m + after = n + Word
    BY <1>19, <2>1
  <2>4. QED
    BY <2>1, <2>2, <2>3
<1>21. (FreeMemory' + Size(Resource)') % Word = Total
  BY <1>1, <1>11, <1>12, <1>17, <1>18, <1>20
<1>22. QED
  BY <1>17, <1>21 DEF MemoryAddsUp

\* What a resource may hold.
Contents == [pResData : [from : {"NULL", "server", "subscriber", "file"}, version : 0..versions],
             resSize : 0..MaxSize]

LEMMA Installed ==
  ASSUME MemoryInv, NEW r \in Resource, NEW data, NEW size \in 0..MaxSize,
         data \in [from : {"NULL", "server", "subscriber", "file"}, version : 0..versions],
         data # NoData, Install(r, data, size)
  PROVE  /\ EmptyIsSizeless' /\ MemoryAddsUp' /\ FreeMemory' \in 0..(Word - 1)
         /\ resource' \in [Resource -> Contents]
<1>1. PICK S \in SUBSET Loaded :
        /\ FreeMemory' = Taken(FreeMemory + Size(S), IF r \in S THEN 0 ELSE resource[r].resSize, size)
        /\ resource' = [x \in Resource |->
             CASE x = r -> Holds(data, size)
               [] x # r /\ x \in S -> NotLoaded
               [] OTHER -> resource[x]]
  BY DEF Install
<1>2. S \in SUBSET Resource /\ size \in 0..Word /\ ResManTypeOK
  BY SizesAre DEF Loaded, MemoryInv
<1>3. resource'[r] = Holds(data, size)
  BY <1>1
<1>4. \A x \in Resource : x # r /\ x \in S => resource'[x] = NotLoaded
  BY <1>1
<1>5. \A x \in Resource : x # r /\ x \notin S => resource'[x] = resource[x]
  BY <1>1
<1>6. EmptyIsSizeless'
  <2>1. SUFFICES ASSUME NEW x \in Resource, resource'[x].pResData = NoData
                 PROVE  resource'[x].resSize = 0
    BY DEF EmptyIsSizeless
  <2>2. CASE x = r
    BY <1>3, <2>1, <2>2 DEF Holds
  <2>3. CASE x # r /\ x \in S
    BY <1>4, <2>3 DEF NotLoaded, Holds
  <2>4. CASE x # r /\ x \notin S
    BY <1>5, <2>1, <2>4 DEF MemoryInv, EmptyIsSizeless
  <2>5. QED
    BY <2>2, <2>3, <2>4
<1>7. resource'[r].resSize = size
  BY <1>3 DEF Holds
<1>8. \A x \in S \ {r} : resource'[x].resSize = 0
  BY <1>2, <1>4 DEF NotLoaded, Holds
<1>9. \A x \in Resource \ (S \cup {r}) : resource'[x].resSize = resource[x].resSize
  BY <1>5
<1>10. FreeMemory' = (FreeMemory + Size(S) + (IF r \in S THEN 0 ELSE resource[r].resSize)
                       + Word - size) % Word
  BY <1>1 DEF Taken
<1>11. MemoryAddsUp' /\ FreeMemory' \in 0..(Word - 1)
  BY <1>2, <1>7, <1>8, <1>9, <1>10, MemoryAfter
<1>12. resource' \in [Resource -> Contents]
  <2>1. Holds(data, size) \in Contents
    BY DEF Holds, Contents
  <2>2. NotLoaded \in Contents
    <3>1. versions \in Nat /\ MaxSize \in Nat
      BY <1>2, SizesAre DEF ResManTypeOK
    <3>2. QED
      BY <3>1 DEF NotLoaded, NoData, Data, Holds, Contents
  <2>3. resource \in [Resource -> Contents]
    BY <1>2 DEF ResManTypeOK, Contents
  <2>4. \A x \in Resource : resource'[x] \in Contents
    BY <1>3, <1>4, <1>5, <2>1, <2>2, <2>3
  <2>5. resource' = [x \in Resource |-> resource'[x]]
    BY <1>1
  <2>6. QED
    BY <2>4, <2>5
<1>13. QED
  BY <1>6, <1>11, <1>12

\* The server's own answer.
LEMMA Answered ==
  ASSUME MemoryInv, NEW r \in Resource, DemandRes_orig(r)
  PROVE  /\ EmptyIsSizeless' /\ MemoryAddsUp' /\ FreeMemory' \in 0..(Word - 1)
         /\ resource' \in [Resource -> Contents]
<1>1. ResManTypeOK /\ EmptyIsSizeless /\ MemoryAddsUp
  BY DEF MemoryInv
<1>2. resource \in [Resource -> Contents] /\ FreeMemory \in 0..(Word - 1)
  BY <1>1 DEF ResManTypeOK, Contents
<1>3. CASE UNCHANGED <<resource, FreeMemory>>
  <2>1. HeldSizes' = HeldSizes
    BY <1>3 DEF HeldSizes
  <2>2. Size(Resource)' = Size(Resource)
    BY <2>1, SizeIs, SizeIsNext
  <2>3. QED
    BY <1>1, <1>2, <1>3, <2>2 DEF EmptyIsSizeless, MemoryAddsUp
<1>4. ASSUME r \notin Loaded, NEW size \in 1..MaxSize, size <= FreeMemory,
             resource' = [resource EXCEPT ![r] = Holds(Data("server", 0), size)],
             FreeMemory' = FreeMemory - size
      PROVE  /\ EmptyIsSizeless' /\ MemoryAddsUp' /\ FreeMemory' \in 0..(Word - 1)
             /\ resource' \in [Resource -> Contents]
  <2>1. /\ Word \in Nat /\ Word \in Nat \ {0} /\ FreeMemory \in Nat /\ FreeMemory < Word
        /\ MaxSize \in Nat /\ MaxSize <= Word
    BY <1>1, SizesAre
  <2>2. resource'[r] = Holds(Data("server", 0), size)
        /\ \A x \in Resource \ {r} : resource'[x] = resource[x]
    BY <1>2, <1>4
  <2>3. resource'[r].resSize = size
        /\ \A x \in Resource \ {r} : resource'[x].resSize = resource[x].resSize
    BY <2>2 DEF Holds
  <2>4. resource[r].resSize = 0
    BY <1>1, <1>4 DEF Loaded, EmptyIsSizeless
  <2>5. Size({}) = 0
    BY SizeOfNone
  <2>6. FreeMemory' = (FreeMemory + Size({}) + (IF r \in {} THEN 0 ELSE resource[r].resSize)
                        + Word - size) % Word
    <3>1. PICK m \in Nat : m = FreeMemory - size
      BY <1>4, <2>1
    <3>2. m < Word /\ FreeMemory + Word - size = m + Word
      BY <1>4, <2>1, <3>1
    <3>3. (m + Word) % Word = m
      BY <2>1, <3>2, RemainderOf, RemainderOfSum
    <3>4. (IF r \in {} THEN 0 ELSE resource[r].resSize) = 0
      BY <2>4
    <3>5. FreeMemory + Size({}) + 0 + Word - size = m + Word
      BY <2>1, <2>5, <3>1, <3>2
    <3>6. QED
      BY <1>4, <3>1, <3>3, <3>4, <3>5
  <2>7. MemoryAddsUp' /\ FreeMemory' \in 0..(Word - 1)
    <3>1. {} \in SUBSET Resource /\ size \in 0..Word
      BY <2>1
    <3>2. \A x \in {} \ {r} : resource'[x].resSize = 0
      OBVIOUS
    <3>3. \A x \in Resource \ ({} \cup {r}) : resource'[x].resSize = resource[x].resSize
      BY <2>3
    <3>4. QED
      BY <2>3, <2>6, <3>1, <3>2, <3>3, MemoryAfter
  <2>8. resource' \in [Resource -> Contents]
    <3>1. versions \in Nat
      BY <1>1 DEF ResManTypeOK
    <3>2. Holds(Data("server", 0), size) \in Contents
      BY <2>1, <3>1 DEF Holds, Data, Contents
    <3>3. QED
      BY <1>2, <1>4, <3>2
  <2>9. EmptyIsSizeless'
    <3>1. SUFFICES ASSUME NEW x \in Resource, resource'[x].pResData = NoData
                   PROVE  resource'[x].resSize = 0
      BY DEF EmptyIsSizeless
    <3>2. x # r
      BY <2>2, <3>1 DEF Holds, NoData, Data
    <3>3. QED
      BY <1>1, <2>2, <3>1, <3>2 DEF EmptyIsSizeless
  <2>10. QED
    BY <2>7, <2>8, <2>9
<1>5. QED
  BY <1>3, <1>4 DEF DemandRes_orig

LEMMA MemoryAtFirst == ASSUME ResManInit PROVE MemoryInv
<1>1. /\ IsFiniteSet(Resource) /\ Word \in Nat \ {0} /\ Total \in 0..(Word - 1)
      /\ MaxSize \in Nat /\ MaxTime \in Nat /\ MaxVersion \in Nat
  BY ResManAssumption
<1>2. \A r \in Resource : resource[r] = NotLoaded
  BY DEF ResManInit
<1>3. EmptyIsSizeless
  BY <1>2 DEF EmptyIsSizeless, NotLoaded, Holds
<1>4. Size(Resource) = 0
  <2>1. \A r \in Resource : HeldSizes[r] = 0
    BY <1>2 DEF HeldSizes, NotLoaded, Holds
  <2>2. PICK w : w = HeldSizes
    OBVIOUS
  <2>3. SumOver(w, Resource) = 0
    BY <1>1, <2>1, <2>2, SumOfZeros
  <2>4. QED
    BY <2>2, <2>3, SizeIs
<1>5. MemoryAddsUp
  <2>1. Total \in Nat /\ Total < Word /\ FreeMemory = Total
    BY <1>1 DEF ResManInit
  <2>2. Total % Word = Total
    BY <1>1, <2>1, RemainderOf
  <2>3. QED
    BY <1>4, <2>1, <2>2 DEF MemoryAddsUp
<1>6. ResManTypeOK
  <2>1. versions = 0 /\ FreeMemory = Total
    BY DEF ResManInit
  <2>2. NotLoaded \in [pResData : [from : {"NULL", "server", "subscriber", "file"},
                                   version : 0..versions], resSize : 0..MaxSize]
    BY <1>1, <2>1 DEF NotLoaded, NoData, Data, Holds
  <2>3. Absent \in [version : 0..versions, size : 0..MaxSize, mtime : 0..MaxTime]
    BY <1>1, <2>1 DEF Absent
  <2>4. resFiles \subseteq [of : Resource, stamp : [size : 0..MaxSize, mtime : 0..MaxTime]]
    BY DEF ResManInit
  <2>5. /\ file = [r \in Resource |-> Absent]
        /\ resource = [r \in Resource |-> NotLoaded] /\ missed = [r \in Resource |-> FALSE]
    BY DEF ResManInit
  <2>6. QED
    BY <1>1, <2>1, <2>2, <2>3, <2>4, <2>5 DEF ResManTypeOK
<1>7. QED
  BY <1>3, <1>5, <1>6 DEF MemoryInv

LEMMA MemoryStep == ASSUME MemoryInv, [ResManNext]_resmanVars PROVE MemoryInv'
<1>1. /\ file \in [Resource -> [version : 0..versions, size : 0..MaxSize, mtime : 0..MaxTime]]
      /\ resFiles \subseteq [of : Resource, stamp : [size : 0..MaxSize, mtime : 0..MaxTime]]
      /\ resource \in [Resource -> Contents] /\ FreeMemory \in 0..(Word - 1)
      /\ versions \in 0..MaxVersion /\ missed \in [Resource -> BOOLEAN]
      /\ EmptyIsSizeless /\ MemoryAddsUp /\ ResManTypeOK
  BY DEF MemoryInv, ResManTypeOK, Contents
<1>2. /\ Word \in Nat /\ MaxSize \in Nat /\ MaxTime \in Nat /\ MaxVersion \in Nat /\ versions \in Nat
  BY <1>1, ResManAssumption
\* What a step of the memory leaves to be shown of the rest.
<1>3. ASSUME EmptyIsSizeless', MemoryAddsUp', FreeMemory' \in 0..(Word - 1),
             resource' \in [Resource -> Contents],
             resFiles' \subseteq [of : Resource, stamp : [size : 0..MaxSize, mtime : 0..MaxTime]],
             missed' \in [Resource -> BOOLEAN], UNCHANGED <<file, versions>>
      PROVE  MemoryInv'
  <2>1. resource' \in [Resource -> [pResData : [from : {"NULL", "server", "subscriber", "file"},
                                                version : 0..versions'], resSize : 0..MaxSize]]
    BY <1>3 DEF Contents
  <2>2. ResManTypeOK'
    BY <1>1, <1>3, <2>1 DEF ResManTypeOK
  <2>3. QED
    BY <1>3, <2>2 DEF MemoryInv
<1>4. \A r \in Resource : Stamp(file[r]) \in [size : 0..MaxSize, mtime : 0..MaxTime]
  BY <1>1 DEF Stamp
\* What leaves the memory alone.
<1>5. ASSUME UNCHANGED <<resource, FreeMemory>>, ResManTypeOK'
      PROVE  MemoryInv'
  BY <1>5, MemoryStays
<1>6. ASSUME NEW r \in Resource, Save(r)
      PROVE  MemoryInv'
  <2>1. versions' = versions + 1 /\ versions' \in 0..MaxVersion /\ versions' \in Nat
        /\ UNCHANGED <<resFiles, resource, FreeMemory>>
    BY <1>1, <1>2, <1>6 DEF Save
  <2>2. PICK size \in 0..MaxSize, mtime \in 1..MaxTime :
          /\ file' = [file EXCEPT ![r] = [version |-> versions', size |-> size, mtime |-> mtime]]
          /\ missed' = [missed EXCEPT ![r] =
               @ \/ \E e \in resFiles : e.of = r /\ e.stamp = Stamp(file'[r])]
    BY <1>6 DEF Save
  <2>3. [version |-> versions', size |-> size, mtime |-> mtime]
          \in [version : 0..versions', size : 0..MaxSize, mtime : 0..MaxTime]
    BY <1>2, <2>1
  <2>4. 0..versions \subseteq 0..versions'
    BY <1>2, <2>1
  <2>5. \A x \in Resource :
          file[x] \in [version : 0..versions', size : 0..MaxSize, mtime : 0..MaxTime]
    BY <1>1, <2>4
  <2>6. file' \in [Resource -> [version : 0..versions', size : 0..MaxSize, mtime : 0..MaxTime]]
    BY <1>1, <2>2, <2>3, <2>5
  <2>7. missed' \in [Resource -> BOOLEAN]
    <3>1. (missed[r] \/ \E e \in resFiles : e.of = r /\ e.stamp = Stamp(file'[r])) \in BOOLEAN
      OBVIOUS
    <3>2. QED
      BY <1>1, <2>2, <3>1
  <2>8. resource' \in [Resource ->
          [pResData : [from : {"NULL", "server", "subscriber", "file"}, version : 0..versions'],
           resSize : 0..MaxSize]]
    BY <1>1, <2>1, <2>4 DEF Contents
  <2>9. ResManTypeOK'
    BY <1>1, <2>1, <2>6, <2>7, <2>8 DEF ResManTypeOK
  <2>10. QED
    BY <1>5, <2>1, <2>9
<1>7. ASSUME NEW r \in Resource, Remove(r)
      PROVE  MemoryInv'
  <2>1. Absent \in [version : 0..versions, size : 0..MaxSize, mtime : 0..MaxTime]
    BY <1>2 DEF Absent
  <2>2. file' \in [Resource -> [version : 0..versions, size : 0..MaxSize, mtime : 0..MaxTime]]
    BY <1>1, <1>7, <2>1 DEF Remove
  <2>3. UNCHANGED <<resFiles, resource, FreeMemory, versions, missed>>
    BY <1>7 DEF Remove
  <2>4. ResManTypeOK'
    BY <1>1, <2>2, <2>3 DEF ResManTypeOK
  <2>5. QED
    BY <1>5, <2>3, <2>4
<1>8. ASSUME NEW r \in Resource, Free(r)
      PROVE  MemoryInv'
  <2>1. resource' = [resource EXCEPT ![r] = NotLoaded]
        /\ FreeMemory' = (FreeMemory + resource[r].resSize) % Word
        /\ UNCHANGED <<file, resFiles, versions, missed>>
    BY <1>8 DEF Free
  <2>2. NotLoaded \in Contents
    BY <1>2 DEF NotLoaded, NoData, Data, Holds, Contents
  <2>3. resource' \in [Resource -> Contents]
    BY <1>1, <2>1, <2>2
  <2>4. resource'[r] = NotLoaded /\ \A x \in Resource \ {r} : resource'[x] = resource[x]
    BY <1>1, <2>1
  <2>5. resource'[r].resSize = 0 /\ \A x \in Resource \ {r} : resource'[x].resSize = resource[x].resSize
    BY <2>4 DEF NotLoaded, Holds
  <2>6. EmptyIsSizeless'
    BY <1>1, <2>4, <2>5 DEF EmptyIsSizeless
  <2>7. FreeMemory' = (FreeMemory + Size({}) + (IF r \in {} THEN 0 ELSE resource[r].resSize)
                        + Word - 0) % Word
    <3>1. PICK m \in Nat : m = FreeMemory + resource[r].resSize
      BY <1>1, SizesAre
    <3>2. (m + Word) % Word = m % Word
      BY <3>1, ResManAssumption, RemainderOfSum
    <3>3. (IF r \in {} THEN 0 ELSE resource[r].resSize) = resource[r].resSize
          /\ resource[r].resSize \in Nat /\ FreeMemory \in Nat
      BY <1>1, SizesAre
    <3>4. FreeMemory + 0 + resource[r].resSize + Word - 0 = m + Word
      BY <1>2, <3>1, <3>3
    <3>5. QED
      BY <2>1, <3>1, <3>2, <3>3, <3>4, SizeOfNone
  <2>8. MemoryAddsUp' /\ FreeMemory' \in 0..(Word - 1)
    <3>1. MemoryInv /\ {} \in SUBSET Resource /\ 0 \in 0..Word
      BY <1>2
    <3>2. \A x \in {} \ {r} : resource'[x].resSize = 0
      OBVIOUS
    <3>3. \A x \in Resource \ ({} \cup {r}) : resource'[x].resSize = resource[x].resSize
      BY <2>5
    <3>4. QED
      BY <2>5, <2>7, <3>1, <3>2, <3>3, MemoryAfter
  <2>9. QED
    BY <1>1, <1>3, <2>1, <2>3, <2>6, <2>8
<1>9. ASSUME NEW r \in Resource, DemandFromSubscriber(r)
      PROVE  MemoryInv'
  <2>1. PICK size \in 1..MaxSize : Install(r, Data("subscriber", 0), size)
    BY <1>9 DEF DemandFromSubscriber
  <2>2. /\ Data("subscriber", 0) \in [from : {"NULL", "server", "subscriber", "file"},
                                      version : 0..versions]
        /\ Data("subscriber", 0) # NoData /\ size \in 0..MaxSize
    BY <1>2 DEF Data, NoData
  <2>3. /\ EmptyIsSizeless' /\ MemoryAddsUp' /\ FreeMemory' \in 0..(Word - 1)
        /\ resource' \in [Resource -> Contents]
    BY <2>1, <2>2, Installed
  <2>4. resFiles' \subseteq [of : Resource, stamp : [size : 0..MaxSize, mtime : 0..MaxTime]]
        /\ missed' \in [Resource -> BOOLEAN] /\ UNCHANGED <<file, versions>>
    BY <1>1, <1>9 DEF DemandFromSubscriber
  <2>5. QED
    BY <1>3, <2>3, <2>4
<1>10. ASSUME NEW r \in Resource, DemandFromServer(r)
       PROVE  MemoryInv'
  <2>1. /\ EmptyIsSizeless' /\ MemoryAddsUp' /\ FreeMemory' \in 0..(Word - 1)
        /\ resource' \in [Resource -> Contents]
    BY <1>10, Answered DEF DemandFromServer
  <2>2. missed' = [missed EXCEPT ![r] = @ \/ resource'[r] # resource[r]]
        /\ UNCHANGED <<file, resFiles, versions>>
    BY <1>10 DEF DemandFromServer
  <2>3. (missed[r] \/ resource'[r] # resource[r]) \in BOOLEAN
    OBVIOUS
  <2>4. missed' \in [Resource -> BOOLEAN]
    BY <1>1, <2>2, <2>3
  <2>5. QED
    BY <1>1, <1>3, <2>1, <2>2, <2>4
<1>11. ASSUME NEW r \in Resource, DemandFromFile(r)
       PROVE  MemoryInv'
  <2>1. UNCHANGED <<file, versions>>
    BY <1>11 DEF DemandFromFile
  <2>2. resFiles' \subseteq [of : Resource, stamp : [size : 0..MaxSize, mtime : 0..MaxTime]]
    <3>1. Noted(r, Stamp(file[r])) \in
            [of : Resource, stamp : [size : 0..MaxSize, mtime : 0..MaxTime]]
      BY <1>4 DEF Noted
    <3>2. resFiles' \subseteq resFiles \cup {Noted(r, Stamp(file[r]))}
      BY <1>11 DEF DemandFromFile, NoteStamp, SeenUnchanged
    <3>3. QED
      BY <1>1, <3>1, <3>2
  <2>3. CASE /\ file[r].size > 0
             /\ Install(r, FileData(file[r].version), file[r].size)
             /\ missed' = [missed EXCEPT ![r] = FALSE]
    <3>1. file[r].version \in 0..versions /\ file[r].size \in 0..MaxSize
      BY <1>1
    <3>2. /\ FileData(file[r].version) \in [from : {"NULL", "server", "subscriber", "file"},
                                            version : 0..versions]
          /\ FileData(file[r].version) # NoData
      BY <3>1 DEF FileData, Data, NoData
    <3>3. /\ EmptyIsSizeless' /\ MemoryAddsUp' /\ FreeMemory' \in 0..(Word - 1)
          /\ resource' \in [Resource -> Contents]
      <4>1. PICK data : data = FileData(file[r].version)
        OBVIOUS
      <4>2. PICK size \in 0..MaxSize : size = file[r].size
        BY <3>1
      <4>3. Install(r, data, size)
        BY <2>3, <4>1, <4>2
      <4>4. QED
        BY <3>2, <4>1, <4>3, Installed
    <3>4. missed' \in [Resource -> BOOLEAN]
      BY <1>1, <2>3
    <3>5. QED
      BY <1>3, <2>1, <2>2, <3>3, <3>4
  <2>4. CASE DemandRes_orig(r) /\ missed' = [missed EXCEPT ![r] = TRUE]
    <3>1. /\ EmptyIsSizeless' /\ MemoryAddsUp' /\ FreeMemory' \in 0..(Word - 1)
          /\ resource' \in [Resource -> Contents]
      BY <2>4, Answered
    <3>2. missed' \in [Resource -> BOOLEAN]
      BY <1>1, <2>4
    <3>3. QED
      BY <1>3, <2>1, <2>2, <3>1, <3>2
  <2>5. QED
    BY <1>11, <2>3, <2>4 DEF DemandFromFile
<1>12. ASSUME UNCHANGED resmanVars \/ \E r \in Resource : DemandUnchanged(r)
       PROVE  MemoryInv'
  <2>1. /\ file' = file /\ resFiles' = resFiles /\ resource' = resource
        /\ FreeMemory' = FreeMemory /\ versions' = versions /\ missed' = missed
    BY <1>12 DEF resmanVars, DemandUnchanged, SeenUnchanged
  <2>2. ResManTypeOK'
    BY <1>1, <2>1 DEF ResManTypeOK
  <2>3. QED
    BY <1>5, <2>1, <2>2
<1>13. QED
  BY <1>6, <1>7, <1>8, <1>9, <1>10, <1>11, <1>12 DEF ResManNext

LEMMA MemoryAlways == ResManSpec => []MemoryInv
BY MemoryAtFirst, MemoryStep, PTL DEF ResManSpec

\* What the server has free and what its resources hold add up to all its memory, as
\* unsigned numbers do: the plugin takes the size of what it loads from FreeMemory,
\* and what it replaces or has freed goes back, even when too little could be freed
\* and FreeMemory has wrapped around (HookDemandRes.cpp).
THEOREM MemoryIsAccountedFor == ResManSpec => []MemoryAddsUp
<1>1. MemoryInv => MemoryAddsUp
  BY DEF MemoryInv
<1>2. QED
  BY <1>1, MemoryAlways, PTL

\* The domains of the tables.
PerResource ==
  /\ file = [r \in Resource |-> file[r]]
  /\ resource = [r \in Resource |-> resource[r]]
  /\ missed = [r \in Resource |-> missed[r]]

CachedInv == PerResource /\ CachedFileIsHeld

\* Giving a resource data leaves others what they hold, or nothing.
LEMMA InstallLeaves ==
  ASSUME NEW r \in Resource, NEW data, NEW size, Install(r, data, size)
  PROVE  /\ resource' = [x \in Resource |-> resource'[x]]
         /\ resource'[r] = Holds(data, size)
         /\ \A x \in Resource : x # r => resource'[x] \in {resource[x], NotLoaded}
<1>1. PICK S \in SUBSET Loaded : resource' = [x \in Resource |->
         CASE x = r -> Holds(data, size)
           [] x # r /\ x \in S -> NotLoaded
           [] OTHER -> resource[x]]
  BY DEF Install
<1>2. QED
  BY <1>1

\* So does the server.
LEMMA ServerLeaves ==
  ASSUME NEW r \in Resource, DemandRes_orig(r), PerResource
  PROVE  /\ resource' = [x \in Resource |-> resource'[x]]
         /\ \A x \in Resource : x # r => resource'[x] = resource[x]
<1>1. CASE UNCHANGED resource
  BY <1>1 DEF PerResource
<1>2. CASE ~UNCHANGED resource
  <2>1. PICK d : resource' = [resource EXCEPT ![r] = d]
    BY <1>2 DEF DemandRes_orig
  <2>2. QED
    BY <2>1 DEF PerResource
<1>3. QED
  BY <1>1, <1>2

\* NotLoaded resources hold nothing.
LEMMA NotLoadedIsNot == \A r \in Loaded : resource[r] # NotLoaded
BY DEF Loaded, NotLoaded, Holds

LEMMA CachedInit == ResManInit => CachedInv
<1> SUFFICES ASSUME ResManInit PROVE CachedInv
  OBVIOUS
<1>1. Loaded = {}
  BY DEF ResManInit, Loaded, NotLoaded, Holds
<1>2. QED
  BY <1>1 DEF ResManInit, CachedInv, PerResource, CachedFileIsHeld

LEMMA CachedStep == CachedInv /\ [ResManNext]_resmanVars => CachedInv'
<1> SUFFICES ASSUME CachedInv, [ResManNext]_resmanVars PROVE CachedInv'
  OBVIOUS
<1> DEFINE Vouched(x) == \E e \in resFiles : e.of = x /\ e.stamp = Stamp(file[x])
           Right(x) == x \in Loaded /\ file[x] # Absent /\ Vouched(x) /\ ~missed[x] =>
                         resource[x].pResData = FileData(file[x].version)
<1>a. PerResource /\ \A x \in Resource : Right(x)
  BY DEF CachedInv, CachedFileIsHeld, Loaded, Unchanged
<1>b. ASSUME PerResource', \A x \in Resource : Right(x)' PROVE CachedInv'
  BY <1>b DEF CachedInv, CachedFileIsHeld, Loaded, Unchanged
<1>1. ASSUME NEW r \in Resource, Save(r) PROVE CachedInv'
  <2>1. PICK f : /\ file' = [file EXCEPT ![r] = f]
                 /\ missed' = [missed EXCEPT ![r] =
                      @ \/ \E e \in resFiles : e.of = r /\ e.stamp = Stamp(file'[r])]
                 /\ UNCHANGED <<resFiles, resource>>
    BY <1>1 DEF Save
  <2>2. PerResource'
    BY <1>a, <2>1 DEF PerResource
  <2>3. Vouched(r)' => missed'[r]
    BY <1>a, <2>1 DEF PerResource
  <2>4. \A x \in Resource : x # r => Right(x)'
    BY <1>a, <2>1 DEF PerResource, Loaded
  <2>5. \A x \in Resource : Right(x)'
    BY <2>3, <2>4
  <2>6. QED
    BY <1>b, <2>2, <2>5
<1>2. ASSUME NEW r \in Resource, Remove(r) PROVE CachedInv'
  <2>1. PerResource'
    BY <1>a, <1>2 DEF Remove, PerResource
  <2>2. \A x \in Resource : Right(x)'
    BY <1>a, <1>2 DEF PerResource, Remove, Loaded
  <2>3. QED
    BY <1>b, <2>1, <2>2
<1>3. ASSUME NEW r \in Resource, Free(r) PROVE CachedInv'
  <2>1. /\ resource' = [resource EXCEPT ![r] = NotLoaded]
        /\ UNCHANGED <<file, resFiles, missed>>
    BY <1>3 DEF Free
  <2>2. PerResource'
    BY <1>a, <2>1 DEF PerResource
  <2>3. r \notin Loaded'
    BY <1>a, <2>1 DEF PerResource, Loaded, NotLoaded, Holds
  <2>4. \A x \in Resource : x # r => Right(x)'
    BY <1>a, <2>1 DEF PerResource, Loaded
  <2>5. \A x \in Resource : Right(x)'
    BY <2>3, <2>4
  <2>6. QED
    BY <1>b, <2>2, <2>5
<1>4. ASSUME NEW r \in Resource, UNCHANGED file, PerResource',
             \A x \in Resource : x # r =>
               /\ resource'[x] \in {resource[x], NotLoaded}
               /\ missed'[x] = missed[x]
               /\ \A e \in resFiles' : e.of = x => e \in resFiles,
             Right(r)'
      PROVE  CachedInv'
  <2>1. ASSUME NEW x \in Resource, x # r PROVE Right(x)'
    <3>1. CASE resource'[x] = resource[x]
      BY <1>4, <1>a, <2>1, <3>1 DEF Loaded
    <3>2. CASE resource'[x] = NotLoaded
      BY <3>2 DEF Loaded, NotLoaded, Holds
    <3>3. QED
      BY <1>4, <2>1, <3>1, <3>2
  <2>2. QED
    BY <1>b, <1>4, <2>1
<1>5. ASSUME NEW r \in Resource, DemandFromSubscriber(r) PROVE CachedInv'
  <2>1. PICK size : Install(r, Data("subscriber", 0), size)
    BY <1>5 DEF DemandFromSubscriber
  <2> DEFINE data == Data("subscriber", 0)
  <2> HIDE DEF data
  <2>2. missed' = [missed EXCEPT ![r] = TRUE] /\ UNCHANGED <<file, resFiles>>
    BY <1>5 DEF DemandFromSubscriber
  <2>3. /\ resource' = [x \in Resource |-> resource'[x]]
        /\ \A x \in Resource : x # r => resource'[x] \in {resource[x], NotLoaded}
    BY <2>1, InstallLeaves DEF data
  <2>4. /\ missed' = [x \in Resource |-> missed'[x]] /\ missed'[r]
        /\ \A x \in Resource : x # r => missed'[x] = missed[x]
    BY <1>a, <2>2 DEF PerResource
  <2>5. PerResource'
    BY <1>a, <2>2, <2>3, <2>4 DEF PerResource
  <2>6. Right(r)'
    BY <2>4
  <2>7. QED
    BY <1>4, <2>2, <2>3, <2>4, <2>5, <2>6
<1>6. ASSUME NEW r \in Resource, DemandFromServer(r) PROVE CachedInv'
  <2>1. /\ missed' = [missed EXCEPT ![r] = @ \/ resource'[r] # resource[r]]
        /\ UNCHANGED <<file, resFiles>> /\ DemandRes_orig(r)
    BY <1>6 DEF DemandFromServer
  <2>2. PerResource'
    BY <1>a, <2>1, ServerLeaves DEF PerResource
  <2>3. Right(r)'
    BY <1>a, <2>1 DEF PerResource, Loaded
  <2>4. \A x \in Resource : x # r => resource'[x] = resource[x]
    BY <1>a, <2>1, ServerLeaves
  <2>5. \A x \in Resource : x # r => missed'[x] = missed[x]
    BY <1>a, <2>1 DEF PerResource
  <2>6. QED
    BY <1>4, <2>1, <2>2, <2>3, <2>4, <2>5
<1>7. ASSUME NEW r \in Resource, DemandFromFile(r) PROVE CachedInv'
  <2>1. /\ \A x \in Resource : x # r => \A e \in resFiles' : e.of = x => e \in resFiles
        /\ UNCHANGED file
    BY <1>7 DEF DemandFromFile, NoteStamp, SeenUnchanged, Noted
  <2>2. ASSUME Install(r, FileData(file[r].version), file[r].size),
               missed' = [missed EXCEPT ![r] = FALSE]
        PROVE  CachedInv'
    <3>1. PICK data, size : Install(r, data, size) /\ data = FileData(file[r].version)
      BY <2>2
    <3>2. /\ resource' = [x \in Resource |-> resource'[x]]
          /\ resource'[r] = Holds(data, size)
          /\ \A x \in Resource : x # r => resource'[x] \in {resource[x], NotLoaded}
      BY <3>1, InstallLeaves
    <3>3. resource'[r].pResData = FileData(file'[r].version)
      BY <2>1, <3>1, <3>2 DEF Holds
    <3>4. /\ missed' = [x \in Resource |-> missed'[x]]
          /\ \A x \in Resource : x # r => missed'[x] = missed[x]
      BY <1>a, <2>2 DEF PerResource
    <3>5. PerResource'
      BY <1>a, <2>1, <3>2, <3>4 DEF PerResource
    <3>6. Right(r)'
      BY <3>3
    <3>7. QED
      BY <1>4, <2>1, <3>2, <3>4, <3>5, <3>6
  <2>3. ASSUME DemandRes_orig(r), missed' = [missed EXCEPT ![r] = TRUE]
        PROVE  CachedInv'
    <3>1. /\ resource' = [x \in Resource |-> resource'[x]]
          /\ \A x \in Resource : x # r => resource'[x] = resource[x]
      BY <1>a, <2>3, ServerLeaves
    <3>2. /\ missed' = [x \in Resource |-> missed'[x]] /\ missed'[r]
          /\ \A x \in Resource : x # r => missed'[x] = missed[x]
      BY <1>a, <2>3 DEF PerResource
    <3>3. PerResource'
      BY <1>a, <2>1, <3>1, <3>2 DEF PerResource
    <3>4. Right(r)'
      BY <3>2
    <3>5. QED
      BY <1>4, <2>1, <3>1, <3>2, <3>3, <3>4
  <2>4. QED
    BY <1>7, <2>2, <2>3 DEF DemandFromFile
<1>8. CASE UNCHANGED resmanVars \/ \E r \in Resource : DemandUnchanged(r)
  BY <1>8, <1>a, <1>b DEF resmanVars, PerResource, Loaded, DemandUnchanged, SeenUnchanged
<1>9. QED
  BY <1>1, <1>2, <1>3, <1>5, <1>6, <1>7, <1>8 DEF ResManNext

\* Whatever node of resFiles a lookup finds, by an address on the stack, and however
\* many files use it: a resource whose own stamp it finds unchanged holds its file, but
\* after what missed tells (NWNXResMan.cpp).
THEOREM CacheIsRight == ResManSpec => []CachedFileIsHeld
<1>1. CachedInv => CachedFileIsHeld
  BY DEF CachedInv
<1>2. QED
  BY <1>1, CachedInit, CachedStep, PTL DEF ResManSpec
-------------------------------------------------------------------------------
(* NetOverride.                                                              *)

Binding == [id : CdKey, addr : Address]
Players == 1..Len(players)

\* The inductive invariant: an address is in the list once, with the key admitted
\* from there, and every address somebody was admitted from is in the list.
OncePerAddress == \A i, j \in Players : players[i].addr = players[j].addr => i = j
BoundAsAdmitted == \A i \in Players : admitted[players[i].addr] = players[i].id
AdmittedIsBound ==
  \A a \in Address : admitted[a] # NoKey => \E i \in Players : players[i].addr = a
OverrideInv == OverrideTypeOK /\ OncePerAddress /\ BoundAsAdmitted /\ AdmittedIsBound

LEMMA PlayersAre ==
  ASSUME OverrideTypeOK
  PROVE  /\ players \in Seq(Binding) /\ Len(players) \in Nat
         /\ \A i \in Players : players[i] \in Binding /\ players[i].id \in CdKey
                               /\ players[i].addr \in Address /\ players[i].id # NoKey
<1>1. players \in Seq(Binding)
  BY DEF OverrideTypeOK, Binding
<1> HIDE DEF Binding
<1>2. Len(players) \in Nat /\ \A i \in Players : players[i] \in Binding
  BY <1>1, ElementOfSeq, LenProperties DEF Players
<1>3. \A i \in Players : players[i].id \in CdKey /\ players[i].addr \in Address
  BY <1>2 DEF Binding
<1>4. QED
  BY <1>1, <1>2, <1>3, NetOverrideAssumption

\* As many addresses somebody was admitted from as there are entries.
LEMMA OneEntryEach ==
  ASSUME OverrideInv
  PROVE  BindingsAreAdmissions
<1> DEFINE A == {a \in Address : admitted[a] # NoKey}
           f == [i \in Players |-> players[i].addr]
<1>1. Len(players) \in Nat
      /\ \A i \in Players : players[i].addr \in Address /\ players[i].id # NoKey
  BY PlayersAre DEF OverrideInv
<1>2. \A i \in Players : f[i] \in A
  BY <1>1 DEF OverrideInv, BoundAsAdmitted
<1>3. f \in [Players -> A]
  BY <1>2
<1>4. \A i, j \in Players : f[i] = f[j] => i = j
  BY DEF OverrideInv, OncePerAddress
<1>5. \A a \in A : \E i \in Players : f[i] = a
  BY DEF OverrideInv, AdmittedIsBound
<1> HIDE DEF f, A
<1>6. f \in Bijection(Players, A)
  BY <1>3, <1>4, <1>5 DEF Bijection, Injection, Surjection, IsInjective
<1>7. IsFiniteSet(Players) /\ Cardinality(Players) = Len(players)
  <2>1. 1 \in Int /\ Len(players) \in Int /\ ~(1 > Len(players)) => Len(players) - 1 + 1 = Len(players)
    BY <1>1
  <2>2. 1 > Len(players) => Len(players) = 0
    BY <1>1
  <2>3. IsFiniteSet(1..Len(players))
        /\ Cardinality(1..Len(players)) = IF 1 > Len(players) THEN 0 ELSE Len(players) - 1 + 1
    <3>1. 1 \in Int /\ Len(players) \in Int
      BY <1>1
    <3>2. QED
      BY <3>1, FS_Interval
  <2>4. Cardinality(1..Len(players)) = Len(players)
    BY <1>1, <2>2, <2>3
  <2>5. QED
    BY <2>3, <2>4 DEF Players
<1>8. Cardinality(A) = Len(players)
  BY <1>6, <1>7, FS_Bijection DEF ExistsBijection
<1>9. QED
  BY <1>8 DEF BindingsAreAdmissions, OverrideInv, BoundAsAdmitted, Players, A

\* Clearing an address takes its entries out, and them alone.
LEMMA ClearIs ==
  ASSUME OverrideTypeOK, NEW addr \in Address, no_clear_client(addr)
  PROVE  /\ players' \in Seq(Binding)
         /\ \E was \in [Players' -> Players] :
              /\ \A i \in Players' : players'[i] = players[was[i]] /\ players[was[i]].addr # addr
              /\ \A i, j \in Players' : was[i] = was[j] => i = j
              /\ \A k \in Players : players[k].addr # addr => \E i \in Players' : was[i] = k
<1> DEFINE rest == Players \ At(addr)
           n    == Cardinality(rest)
<1>1. /\ Len(players) \in Nat
      /\ \A i \in Players : players[i] \in Binding
  BY PlayersAre
<1>2. IsFiniteSet(Players)
  <2>1. 1 \in Int /\ Len(players) \in Int
    BY <1>1
  <2>2. QED
    BY <2>1, FS_Interval DEF Players
<1>3. IsFiniteSet(rest) /\ n \in Nat
  BY <1>2, FS_Subset, FS_CardinalityType
<1>4. PICK was \in [1..n -> rest] :
        /\ \A i, j \in 1..n : i < j => was[i] < was[j]
        /\ players' = [i \in 1..n |-> players[was[i]]]
  BY Zenon DEF no_clear_client, Players
<1>5. \A k \in rest : k \in Players /\ players[k].addr # addr /\ k \in Int
  BY <1>1 DEF At, Players
<1>6. \A k \in Players : players[k].addr # addr => k \in rest
  BY DEF At, Players
<1>7. IsFiniteSet(1..n) /\ Cardinality(1..n) = n
  BY <1>3, FS_Interval
<1> HIDE DEF rest, n, Binding
<1>8. \A i \in 1..n : was[i] \in rest /\ was[i] \in Int /\ was[i] \in Players /\ i \in Int
  BY <1>3, <1>4, <1>5
<1>9. \A i, j \in 1..n : was[i] = was[j] => i = j
  BY <1>4, <1>8
<1>10. was \in Injection(1..n, rest)
  BY <1>4, <1>9 DEF Injection, IsInjective
<1>11. was \in Surjection(1..n, rest)
  BY <1>3, <1>7, <1>10, FS_Injection DEF n
<1>12. \A k \in rest : \E i \in 1..n : was[i] = k
  BY <1>11 DEF Surjection
<1>13. \A i \in 1..n : players[was[i]] \in Binding
  BY <1>1, <1>8
<1>14. players' \in [1..n -> Binding]
  BY <1>4, <1>13
<1>15. players' \in Seq(Binding) /\ Len(players') = n
  BY <1>3, <1>14, FunctionIsSeq
<1>16. Players' = 1..n
  BY <1>15 DEF Players
<1>17. was \in [Players' -> Players]
  BY <1>4, <1>8, <1>16
<1>18. \A i \in 1..n : players'[i] = players[was[i]] /\ players[was[i]].addr # addr
  BY <1>4, <1>5, <1>8
<1>19. \A k \in Players : players[k].addr # addr => \E i \in 1..n : was[i] = k
  BY <1>6, <1>12
<1>20. QED
  BY <1>9, <1>15, <1>16, <1>17, <1>18, <1>19

LEMMA LeaveKeeps ==
  ASSUME OverrideInv, NEW addr \in Address, Leave(addr)
  PROVE  OverrideInv'
<1>1. /\ OverrideTypeOK /\ no_clear_client(addr) /\ received' = "BNDM"
      /\ admitted' = [admitted EXCEPT ![addr] = NoKey]
      /\ admitted \in [Address -> CdKey \cup {NoKey}]
  BY DEF OverrideInv, OverrideTypeOK, Leave
<1>2. PICK was \in [Players' -> Players] :
              /\ \A i \in Players' : players'[i] = players[was[i]] /\ players[was[i]].addr # addr
              /\ \A i, j \in Players' : was[i] = was[j] => i = j
              /\ \A k \in Players : players[k].addr # addr => \E i \in Players' : was[i] = k
  BY <1>1, ClearIs, Zenon
<1>3. OverrideTypeOK'
  BY <1>1, ClearIs DEF OverrideTypeOK, Binding
<1>4. \A i \in Players' : was[i] \in Players /\ players[was[i]].addr \in Address
  BY <1>1, <1>2, PlayersAre
<1>5. OncePerAddress'
  BY <1>2, <1>4 DEF OncePerAddress, OverrideInv
<1>6. BoundAsAdmitted'
  BY <1>1, <1>2, <1>4 DEF BoundAsAdmitted, OverrideInv
<1>7. AdmittedIsBound'
  BY <1>1, <1>2 DEF AdmittedIsBound, OverrideInv
<1>8. QED
  BY <1>3, <1>5, <1>6, <1>7 DEF OverrideInv

\* A login from an address in the list changes nothing, if it is refused, and
\* admits the key that is bound there already otherwise.
LEMMA KnownKeeps ==
  ASSUME OverrideInv, NEW addr \in Address, NEW id \in CdKey, At(addr) # {}, Login(addr, id)
  PROVE  OverrideInv'
<1>1. OverrideTypeOK /\ admitted \in [Address -> CdKey \cup {NoKey}] /\ At(addr) \in SUBSET Nat
  BY DEF OverrideInv, OverrideTypeOK, At
<1>2. PICK first \in At(addr) : \A j \in At(addr) : first <= j
  BY <1>1, SmallestOf
<1> DEFINE chosen == CHOOSE i \in At(addr) : \A j \in At(addr) : i <= j
<1>3. chosen \in At(addr)
  BY <1>2
<1>4. PICK ok \in BOOLEAN :
        /\ ok <=> Matches(chosen, id)
        /\ UNCHANGED players
        /\ received' = IF ok THEN "BNCS" ELSE "BNLM"
        /\ admitted' = IF ok THEN [admitted EXCEPT ![addr] = id] ELSE admitted
  BY DEF Login, no_match_client
<1> HIDE DEF chosen
<1>5. chosen \in Players /\ players[chosen].addr = addr
  BY <1>3 DEF At, Players
<1>6. ok => admitted[addr] = id
  BY <1>4, <1>5 DEF Matches, OverrideInv, BoundAsAdmitted
<1>7. admitted' = admitted
  BY <1>1, <1>4, <1>6
<1>8. OverrideTypeOK'
  BY <1>1, <1>4, <1>7 DEF OverrideTypeOK
<1>9. QED
  BY <1>4, <1>7, <1>8 DEF OverrideInv, OncePerAddress, BoundAsAdmitted, AdmittedIsBound, Players

LEMMA NewKeeps ==
  ASSUME OverrideInv, NEW addr \in Address, NEW id \in CdKey, At(addr) = {}, Login(addr, id)
  PROVE  OverrideInv'
<1> DEFINE b == [id |-> id, addr |-> addr]
<1>1. /\ players' = <<b>> \o players /\ received' = "BNCS"
      /\ admitted' = [admitted EXCEPT ![addr] = id]
  BY DEF Login, no_match_client
<1>2. /\ OverrideTypeOK /\ admitted \in [Address -> CdKey \cup {NoKey}]
      /\ players \in Seq(Binding) /\ Len(players) \in Nat
      /\ \A i \in Players : players[i].addr \in Address
  BY PlayersAre DEF OverrideInv, OverrideTypeOK
<1>3. b \in Binding /\ b.id = id /\ b.addr = addr
  BY DEF Binding
<1> HIDE DEF b, Binding
<1>4. <<b>> \in Seq(Binding) /\ Len(<<b>>) = 1 /\ <<b>>[1] = b
  BY <1>3
<1> DEFINE u == <<b>>
<1>5. u \in Seq(Binding) /\ Len(u) = 1 /\ u[1] = b /\ players' = u \o players
  BY <1>1, <1>4
<1> HIDE DEF u
<1>6. /\ players' \in Seq(Binding) /\ Len(players') = Len(players) + 1
      /\ \A i \in 1..(Len(players) + 1) :
           players'[i] = IF i <= 1 THEN u[i] ELSE players[i - 1]
  <2>1. /\ u \o players \in Seq(Binding)
        /\ Len(u \o players) = Len(u) + Len(players)
        /\ \A i \in 1..(Len(u) + Len(players)) :
             (u \o players)[i] = IF i <= Len(u) THEN u[i] ELSE players[i - Len(u)]
    BY <1>2, <1>5, ConcatProperties
  <2>2. QED
    BY <1>2, <1>5, <2>1
<1>7. \A i \in Players : i + 1 \in Players' /\ players'[i + 1] = players[i]
  BY <1>2, <1>6 DEF Players
<1>8. 1 \in Players' /\ players'[1] = b
  BY <1>2, <1>5, <1>6 DEF Players
<1>9. \A i \in Players' : i = 1 \/ \E k \in Players : i = k + 1
  <2> TAKE i \in Players'
  <2>1. i # 1 => i - 1 \in Players /\ i = (i - 1) + 1
    BY <1>2, <1>6 DEF Players
  <2>2. QED
    BY <2>1
<1>10. \A k \in Players : players[k].addr # addr
  BY DEF At, Players
<1>11. OverrideTypeOK'
  BY <1>1, <1>2, <1>6 DEF OverrideTypeOK, Binding
<1>12. OncePerAddress'
  <2> SUFFICES ASSUME NEW i \in Players', NEW j \in Players', players'[i].addr = players'[j].addr
               PROVE  i = j
    BY DEF OncePerAddress
  <2>1. i = 1 \/ \E k \in Players : i = k + 1
    BY <1>9
  <2>2. j = 1 \/ \E k \in Players : j = k + 1
    BY <1>9
  <2>3. QED
    BY <1>3, <1>7, <1>8, <1>10, <2>1, <2>2 DEF OverrideInv, OncePerAddress
<1>13. BoundAsAdmitted'
  <2> SUFFICES ASSUME NEW i \in Players' PROVE admitted'[players'[i].addr] = players'[i].id
    BY DEF BoundAsAdmitted
  <2>1. CASE i = 1
    BY <1>1, <1>2, <1>3, <1>8, <2>1
  <2>2. ASSUME NEW k \in Players, i = k + 1 PROVE admitted'[players'[i].addr] = players'[i].id
    BY <1>1, <1>2, <1>7, <1>10, <2>2 DEF OverrideInv, BoundAsAdmitted
  <2>3. QED
    BY <1>9, <2>1, <2>2
<1>14. AdmittedIsBound'
  <2> SUFFICES ASSUME NEW a \in Address, admitted'[a] # NoKey
               PROVE  \E i \in Players' : players'[i].addr = a
    BY DEF AdmittedIsBound
  <2>1. CASE a = addr
    BY <1>3, <1>8, <2>1
  <2>2. CASE a # addr
    <3>1. admitted[a] # NoKey
      BY <1>1, <1>2, <2>2
    <3>2. PICK k \in Players : players[k].addr = a
      BY <3>1 DEF OverrideInv, AdmittedIsBound
    <3>3. QED
      BY <1>7, <3>2
  <2>3. QED
    BY <2>1, <2>2
<1>15. QED
  BY <1>11, <1>12, <1>13, <1>14 DEF OverrideInv

LEMMA OverrideInvInit == OverrideInit => OverrideInv
BY DEF OverrideInit, OverrideInv, OverrideTypeOK, OncePerAddress, BoundAsAdmitted,
       AdmittedIsBound, Players

LEMMA OverrideInvNext == OverrideInv /\ [OverrideNext]_overrideVars => OverrideInv'
<1> SUFFICES ASSUME OverrideInv, [OverrideNext]_overrideVars PROVE OverrideInv'
  OBVIOUS
<1>1. ASSUME received' \in {"BNLM", "other", received}, UNCHANGED <<players, admitted>>
      PROVE  OverrideInv'
  BY <1>1 DEF OverrideInv, OverrideTypeOK, OncePerAddress, BoundAsAdmitted, AdmittedIsBound, Players
<1>2. CASE InvalidLogin \/ Other \/ UNCHANGED overrideVars
  BY <1>1, <1>2 DEF InvalidLogin, Other, overrideVars
<1>3. CASE \E addr \in Address : Leave(addr)
  BY <1>3, LeaveKeeps
<1>4. CASE \E addr \in Address : \E id \in CdKey : Login(addr, id)
  BY <1>4, KnownKeeps, NewKeeps
<1>5. QED
  BY <1>2, <1>3, <1>4 DEF OverrideNext

LEMMA OverrideAlways == OverrideSpec => []OverrideInv
BY OverrideInvInit, OverrideInvNext, PTL DEF OverrideSpec

\* The list of netoverride.so has each address once, with the key that the server admitted
\* from there last and that has not left: a login is turned into a rejection for no other reason.
THEOREM BindingsMatch == OverrideSpec => []BindingsAreAdmissions
BY OverrideAlways, OneEntryEach, PTL
-------------------------------------------------------------------------------
(* Mnx.                                                                      *)

\* Request r is the i-th on socket s, or in a datagram on its way.
WaitsAt(s, i, r) == s \in Socket /\ i \in 1..Len(waitingOn[s]) /\ waitingOn[s][i] = r
OnItsWay(r) == \E d \in network : d.request = r
Lying(r)    == OnItsWay(r) \/ \E s \in Socket : \E i \in 1..Len(waitingOn[s]) : waitingOn[s][i] = r

\* A socket is known by the OPEN that made it, and answers get to the socket of their request.
SocketsKnown ==
  /\ \A n \in Connection : Connections[n] # NoSocket => openedBy[n] = Connections[n]
  /\ \A r \in 1..sent : sentOn[r] = sentIn[r] /\ sentOn[r] \in Socket
  /\ \A s \in Socket : \A i \in 1..Len(waitingOn[s]) :
       waitingOn[s][i] \in 1..sent /\ sentOn[waitingOn[s][i]] = s
  /\ \A d \in network : d.request \in 1..sent
  /\ waitingFor # NoRequest => waitingFor = sent

\* What the network made no copy of is in one place.
InOnePlace ==
  \A r \in Request \ copied :
    /\ \A d, e \in network : d.request = r /\ e.request = r => d = e
    /\ \A s \in Socket : \A i \in 1..Len(waitingOn[s]) : waitingOn[s][i] = r =>
         /\ ~OnItsWay(r)
         /\ \A t \in Socket : \A j \in 1..Len(waitingOn[t]) : waitingOn[t][j] = r => s = t /\ i = j

\* What lies about is the answer to the request waited for, or may come late.
StaleExplained == \A r \in 1..sent : Lying(r) /\ r # waitingFor => MayComeLate(r)

MnxInv == MnxTypeOK /\ SocketsKnown /\ InOnePlace /\ StaleExplained /\ AnswersOfThisOpening

LEMMA MnxTypes ==
  ASSUME MnxTypeOK
  PROVE  /\ MaxSockets \in Nat /\ MaxSent \in Nat /\ openings \in Nat /\ sent \in Nat
         /\ \A s \in Socket : waitingOn[s] \in Seq(Request) /\ Len(waitingOn[s]) \in Nat
         /\ \A d \in network : d \in [request : Request, kind : {"request", "answer"}]
         /\ \A r \in 1..sent : r \in Request /\ r \in Nat
         /\ waitingFor \in Nat
<1>1. MaxSockets \in Nat /\ MaxSent \in Nat
  BY MnxAssumption
<1>2. openings \in Nat /\ sent \in Nat /\ sent <= MaxSent /\ waitingFor \in Nat
  <2>1. openings \in 0..MaxSockets /\ sent \in 0..MaxSent /\ waitingFor \in {0} \cup 1..sent
    BY DEF MnxTypeOK, NoRequest
  <2>2. QED
    BY <1>1, <2>1
<1>3. \A s \in Socket : waitingOn[s] \in Seq(Request)
  BY DEF MnxTypeOK
<1>4. \A r \in 1..sent : r \in Request /\ r \in Nat
  BY <1>1, <1>2 DEF Request
<1>5. \A s \in Socket : Len(waitingOn[s]) \in Nat
  BY <1>3, LenProperties
<1>6. \A d \in network : d \in [request : Request, kind : {"request", "answer"}]
  BY DEF MnxTypeOK
<1>7. QED
  BY <1>1, <1>2, <1>3, <1>4, <1>5, <1>6

\* Nothing new lies about: what is on its way was, and so was what waits.
NothingNew ==
  /\ network' \subseteq network
  /\ \A s \in Socket : \A i \in 1..Len(waitingOn'[s]) : \E j \in 1..Len(waitingOn[s]) :
       waitingOn'[s][i] = waitingOn[s][j]

LEMMA LyingStays ==
  ASSUME NothingNew, NEW r, Lying(r)'
  PROVE  Lying(r)
BY DEF NothingNew, Lying, OnItsWay

LEMMA LateStays ==
  ASSUME NEW r, MayComeLate(r), UNCHANGED sentIn, unanswered \subseteq unanswered',
         copied \subseteq copied', misled \subseteq misled'
  PROVE  MayComeLate(r)'
BY DEF MayComeLate

\* Steps that change neither what lies about nor what was sent.
LEMMA NothingMoves ==
  ASSUME MnxInv, UNCHANGED <<waitingOn, network, sent, sentOn, sentIn, copied>>,
         unanswered \subseteq unanswered', UNCHANGED misled,
         waitingFor' = waitingFor \/ (waitingFor' = NoRequest /\ waitingFor \in unanswered')
  PROVE  InOnePlace' /\ StaleExplained'
<1>1. InOnePlace'
  BY DEF MnxInv, InOnePlace, OnItsWay
<1>2. StaleExplained'
  <2> SUFFICES ASSUME NEW r \in 1..sent, Lying(r), r # waitingFor' PROVE MayComeLate(r)'
    BY DEF StaleExplained, Lying, OnItsWay
  <2>1. CASE r # waitingFor
    BY <2>1, LateStays DEF MnxInv, StaleExplained
  <2>2. CASE r = waitingFor
    <3>1. r \in unanswered' /\ r \in 1..r
      BY <2>2, MnxTypes DEF MnxInv
    <3>2. QED
      BY <3>1 DEF MayComeLate
  <2>3. QED
    BY <2>1, <2>2
<1>3. QED
  BY <1>1, <1>2

\* The answers a script was given stay explained.
LEMMA AnswersStay ==
  ASSUME AnswersOfThisOpening, UNCHANGED <<answerGiven, sentIn, misled>>,
         unanswered \subseteq unanswered', copied \subseteq copied'
  PROVE  AnswersOfThisOpening'
BY LateStays DEF AnswersOfThisOpening

LEMMA NoAnswer ==
  ASSUME answerGiven'.is # "answer"
  PROVE  AnswersOfThisOpening'
BY DEF AnswersOfThisOpening

LEMMA ClientInitKeeps ==
  ASSUME MnxInv, NEW n \in Connection, ClientInit(n)
  PROVE  MnxInv'
<1>1. /\ MnxTypeOK /\ MaxSockets \in Nat /\ openings \in Nat /\ openings < MaxSockets
      /\ openings' = openings + 1 /\ Connections' = [Connections EXCEPT ![n] = openings + 1]
      /\ openedBy' = [openedBy EXCEPT ![n] = openings + 1]
      /\ UNCHANGED <<waitingOn, network, copied, sent, sentOn, sentIn, waitingFor, limited,
                     unanswered, misled, answerGiven>>
  BY MnxTypes DEF MnxInv, ClientInit, NewSocket, wire, sendings, failures
<1>2. openings + 1 \in Socket /\ openings + 1 \in 0..MaxSockets
      /\ \A k \in 0..openings : k \in 0..(openings + 1)
  BY <1>1 DEF Socket
<1>3. openedBy' \in [Connection -> 0..(openings + 1)] /\ sentIn \in [Request -> 0..(openings + 1)]
  <2>1. openedBy \in [Connection -> 0..openings] /\ sentIn \in [Request -> 0..openings]
    BY <1>1 DEF MnxTypeOK
  <2>2. openings + 1 \in 0..(openings + 1)
    BY <1>1
  <2>3. 0..openings \subseteq 0..(openings + 1)
    BY <1>2
  <2>4. sentIn \in [Request -> 0..(openings + 1)] /\ openedBy \in [Connection -> 0..(openings + 1)]
    BY <2>1, <2>3
  <2>5. QED
    BY <1>1, <2>2, <2>4
<1>4. MnxTypeOK'
  BY <1>1, <1>2, <1>3 DEF MnxTypeOK
<1>5. SocketsKnown'
  BY <1>1 DEF MnxInv, SocketsKnown, MnxTypeOK
<1>6. QED
  BY <1>1, <1>4, <1>5, NothingMoves, AnswersStay DEF MnxInv

\* Less lies about, and nothing else changes.
LEMMA LessLies ==
  ASSUME MnxInv, NothingNew, UNCHANGED <<sent, sentIn, waitingFor, unanswered, misled>>,
         copied \subseteq copied'
  PROVE  StaleExplained'
BY LyingStays, LateStays DEF StaleExplained, MnxInv

LEMMA ClientCloseKeeps ==
  ASSUME MnxInv, NEW n \in Connection, ClientClose(n)
  PROVE  MnxInv'
<1>1. PICK s0 : s0 = Connections[n]
  OBVIOUS
<1>2. /\ MnxTypeOK /\ s0 \in Socket
      /\ Connections' = [Connections EXCEPT ![n] = NoSocket]
      /\ waitingOn' = [waitingOn EXCEPT ![s0] = <<>>]
      /\ UNCHANGED <<openings, openedBy, network, copied, sent, sentOn, sentIn, waitingFor, limited,
                     unanswered, misled, answerGiven>>
  BY <1>1 DEF MnxInv, MnxTypeOK, ClientClose, sendings, failures
<1>3. \A s \in Socket : IF s = s0 THEN waitingOn'[s] = <<>> ELSE waitingOn'[s] = waitingOn[s]
  BY <1>2 DEF MnxTypeOK
<1>4. \A s \in Socket : \A i \in 1..Len(waitingOn'[s]) : s # s0 /\ waitingOn'[s] = waitingOn[s]
  BY <1>3
<1>5. <<>> \in Seq(Request)
  OBVIOUS
<1>6. waitingOn' \in [Socket -> Seq(Request)]
  BY <1>2, <1>5 DEF MnxTypeOK
<1>7. MnxTypeOK'
  BY <1>2, <1>6 DEF MnxTypeOK
<1>8. SocketsKnown'
  <2>1. \A m \in Connection : Connections'[m] # NoSocket => openedBy'[m] = Connections'[m]
    BY <1>2 DEF MnxInv, SocketsKnown, MnxTypeOK
  <2>2. QED
    BY <1>2, <1>4, <2>1 DEF MnxInv, SocketsKnown
<1>9. InOnePlace'
  BY <1>2, <1>4 DEF MnxInv, InOnePlace, OnItsWay
<1>10. NothingNew
  BY <1>2, <1>4 DEF NothingNew
<1>11. StaleExplained'
  BY <1>2, <1>10, LessLies
<1>12. QED
  BY <1>2, <1>7, <1>8, <1>9, <1>11, AnswersStay DEF MnxInv

LEMMA SendKeeps ==
  ASSUME MnxInv, NEW n \in Connection, SendMsg(n), sent < MaxSent, Connections[n] # NoSocket,
         sent' = sent + 1, sentOn' = [sentOn EXCEPT ![sent'] = Connections[n]],
         sentIn' = [sentIn EXCEPT ![sent'] = openedBy[n]],
         network' = network \cup {Datagram(sent', "request")},
         waitingFor' = sent', limited' = TRUE, answerGiven' = Outcome(sent', "none", NoRequest)
  PROVE  MnxInv'
<1>1. /\ MnxTypeOK /\ sent \in Nat /\ MaxSent \in Nat /\ openings \in Nat
      /\ UNCHANGED <<Connections, openings, openedBy, waitingOn, unanswered, misled, copied>>
      /\ waitingFor = NoRequest
  BY MnxTypes DEF MnxInv, SendMsg, open, Idle, failures
<1>2. PICK k \in Request : k = sent + 1
  BY <1>1 DEF Request
<1>3. \A q \in 1..k : q \in 1..sent \/ q = k
  BY <1>1, <1>2
<1>4. \A q \in 1..sent : q # k /\ sentOn'[q] = sentOn[q] /\ sentIn'[q] = sentIn[q] /\ q \in 1..k
  <2>1. /\ sentOn' = [sentOn EXCEPT ![k] = Connections[n]]
        /\ sentIn' = [sentIn EXCEPT ![k] = openedBy[n]]
    BY <1>2
  <2>2. sentOn \in [Request -> Socket \cup {NoSocket}] /\ sentIn \in [Request -> 0..openings]
    BY <1>1 DEF MnxTypeOK
  <2>3. \A q \in 1..sent : q # k /\ q \in Request /\ q \in 1..k
    BY <1>1, <1>2 DEF Request
  <2>4. QED
    BY <2>1, <2>2, <2>3
<1>5. /\ sentOn'[k] = Connections[n] /\ sentIn'[k] = openedBy[n] /\ k \in 1..k /\ k \in 0..MaxSent
      /\ Connections[n] \in Socket /\ openedBy[n] = Connections[n] /\ k # 0 /\ k \in Nat
  <2>1. sentOn' = [sentOn EXCEPT ![k] = Connections[n]] /\ sentIn' = [sentIn EXCEPT ![k] = openedBy[n]]
    BY <1>2
  <2>2. sentOn'[k] = Connections[n] /\ sentIn'[k] = openedBy[n]
    BY <1>1, <2>1 DEF MnxTypeOK
  <2>3. k \in 1..k /\ k \in 0..MaxSent /\ k # 0 /\ k \in Nat
    BY <1>1, <1>2
  <2>4. Connections[n] \in Socket /\ openedBy[n] = Connections[n]
    BY <1>1 DEF MnxTypeOK, MnxInv, SocketsKnown
  <2>5. QED
    BY <2>2, <2>3, <2>4
<1>6. Datagram(k, "request") \in [request : Request, kind : {"request", "answer"}]
      /\ Datagram(k, "request").request = k
  BY DEF Datagram
<1>7. MnxTypeOK'
  <2>1. sentOn' \in [Request -> Socket \cup {NoSocket}] /\ sentIn' \in [Request -> 0..openings]
    BY <1>1, <1>2 DEF MnxTypeOK
  <2>2. network' \subseteq [request : Request, kind : {"request", "answer"}]
    BY <1>1, <1>2, <1>6 DEF MnxTypeOK
  <2>3. unanswered \subseteq 1..k /\ copied \subseteq 1..k
    BY <1>1, <1>4 DEF MnxTypeOK
  <2>3a. misled \subseteq 1..k
    BY <1>1, <1>4 DEF MnxTypeOK
  <2>4. sent' = k /\ k \in 0..k
    BY <1>2, <1>5
  <2>5. answerGiven' \in [request : 0..k,
                          is : {"none", "not registered", "send errored", "answer",
                                "recv errored", "timed-out"},
                          of : 0..k]
    BY <1>2, <1>5, <2>4 DEF Outcome, NoRequest
  <2>6. QED
    BY <1>1, <1>5, <2>1, <2>2, <2>3, <2>3a, <2>4, <2>5 DEF MnxTypeOK
<1>8. \A d \in network : d.request \in 1..sent /\ d.request # k
  BY <1>4 DEF MnxInv, SocketsKnown
<1>9. \A s \in Socket : \A i \in 1..Len(waitingOn[s]) :
        waitingOn[s][i] \in 1..sent /\ waitingOn[s][i] # k /\ sentOn[waitingOn[s][i]] = s
  BY <1>4 DEF MnxInv, SocketsKnown
<1>10. \A d \in network' : d \in network \/ d.request = k
  BY <1>2, <1>6
<1>11. SocketsKnown'
  <2>1. \A m \in Connection : Connections'[m] # NoSocket => openedBy'[m] = Connections'[m]
    BY <1>1 DEF MnxInv, SocketsKnown
  <2>2. \A r \in 1..k : sentOn'[r] = sentIn'[r] /\ sentOn'[r] \in Socket
    BY <1>3, <1>4, <1>5 DEF MnxInv, SocketsKnown
  <2>3. \A s \in Socket : \A i \in 1..Len(waitingOn[s]) :
          waitingOn[s][i] \in 1..k /\ sentOn'[waitingOn[s][i]] = s
    BY <1>4, <1>9
  <2>4. \A d \in network' : d.request \in 1..k
    BY <1>4, <1>5, <1>8, <1>10
  <2>5. sent' = k /\ waitingFor' = k
    BY <1>2
  <2>6. QED
    BY <1>1, <2>1, <2>2, <2>3, <2>4, <2>5 DEF SocketsKnown
<1>12. InOnePlace'
  <2> SUFFICES ASSUME NEW r \in Request \ copied
               PROVE  /\ \A d, e \in network' : d.request = r /\ e.request = r => d = e
                      /\ \A s \in Socket : \A i \in 1..Len(waitingOn[s]) : waitingOn[s][i] = r =>
                           /\ ~OnItsWay(r)'
                           /\ \A t \in Socket : \A j \in 1..Len(waitingOn[t]) :
                                waitingOn[t][j] = r => s = t /\ i = j
    BY <1>1 DEF InOnePlace
  <2>1. CASE r = k
    <3>1. \A d \in network' : d.request = k => d = Datagram(k, "request")
      BY <1>2, <1>8
    <3>2. QED
      BY <1>9, <2>1, <3>1
  <2>2. CASE r # k
    <3>1. \A d \in network' : d.request = r => d \in network
      BY <1>10, <2>2
    <3>2. OnItsWay(r)' => OnItsWay(r)
      BY <3>1 DEF OnItsWay
    <3>3. QED
      BY <3>1, <3>2 DEF MnxInv, InOnePlace
  <2>3. QED
    BY <2>1, <2>2
<1>13. StaleExplained'
  <2> SUFFICES ASSUME NEW r \in 1..k, Lying(r)', r # k PROVE MayComeLate(r)'
    BY <1>1, <1>2 DEF StaleExplained
  <2>1. r \in 1..sent /\ r # waitingFor
    BY <1>1, <1>3 DEF NoRequest
  <2>2. Lying(r)
    BY <1>1, <1>10 DEF Lying, OnItsWay
  <2>3. MayComeLate(r)
    BY <2>1, <2>2 DEF MnxInv, StaleExplained
  <2>4. PICK q \in 1..r : q \in unanswered \cup copied /\ sentIn[q] = sentIn[r]
    BY <2>3 DEF MayComeLate
  <2>5. q \in 1..sent
    BY <1>1, <2>1
  <2>6. sentIn'[q] = sentIn'[r]
    BY <1>4, <2>1, <2>4, <2>5
  <2>7. QED
    BY <1>1, <2>3, <2>4, <2>6 DEF MayComeLate
<1>14. AnswersOfThisOpening'
  BY NoAnswer DEF Outcome
<1>15. QED
  BY <1>7, <1>11, <1>12, <1>13, <1>14 DEF MnxInv

LEMMA SendMsgKeeps ==
  ASSUME MnxInv, NEW n \in Connection, SendMsg(n)
  PROVE  MnxInv'
<1>1. ASSUME answerGiven' = Outcome(NoRequest, "not registered", NoRequest)
             \/ answerGiven' = Outcome(NoRequest, "send errored", NoRequest),
             UNCHANGED <<network, sendings, waitingFor, limited>>
      PROVE  MnxInv'
  <2>1. UNCHANGED <<Connections, openings, openedBy, waitingOn, unanswered, misled, copied, network, sent,
                    sentOn, sentIn, waitingFor, limited>>
    BY <1>1 DEF SendMsg, open, sendings, failures
  <2>2. 0 \in 0..sent /\ MnxTypeOK
    BY MnxTypes DEF MnxInv
  <2>2a. PICK w \in {"not registered", "send errored"} :
          answerGiven' = [request |-> 0, is |-> w, of |-> 0]
    BY <1>1 DEF Outcome, NoRequest
  <2>3. MnxTypeOK'
    <3>1. answerGiven' \in [request : 0..sent,
                              is : {"none", "not registered", "send errored", "answer",
                                    "recv errored", "timed-out"},
                              of : 0..sent]
      BY <2>2, <2>2a
    <3>2. QED
      BY <2>1, <2>2, <3>1 DEF MnxTypeOK
  <2>4. SocketsKnown'
    BY <2>1 DEF MnxInv, SocketsKnown
  <2>5. AnswersOfThisOpening'
    <3>1. answerGiven'.is # "answer"
      BY <2>2a
    <3>2. QED
      BY <3>1, NoAnswer
  <2>6. QED
    BY <2>1, <2>3, <2>4, <2>5, NothingMoves DEF MnxInv
<1>2. QED
  BY <1>1, SendKeeps DEF SendMsg

\* What is on its way after a step that takes datagram d off it, or turns it into another
\* one of the same request.
LEMMA ServerAnswersKeeps ==
  ASSUME MnxInv, NEW d \in network, ServerAnswers(d)
  PROVE  MnxInv'
<1> DEFINE a == Datagram(d.request, "answer")
<1>1. /\ MnxTypeOK /\ network' = (network \ {d}) \cup {a} /\ a.request = d.request
      /\ a \in [request : Request, kind : {"request", "answer"}]
      /\ UNCHANGED <<Connections, openings, openedBy, waitingOn, copied, sent, sentOn, sentIn,
                     waitingFor, limited, unanswered, misled, answerGiven>>
  BY DEF MnxInv, MnxTypeOK, ServerAnswers, NetworkLeaves, open, sendings, failures, Datagram
<1> HIDE DEF a
<1>2. MnxTypeOK'
  BY <1>1 DEF MnxTypeOK
<1>3. \A e \in network' : (e \in network /\ e # d) \/ e = a
  BY <1>1
<1>4. \A r : OnItsWay(r)' <=> OnItsWay(r)
  BY <1>1 DEF OnItsWay
<1>5. SocketsKnown'
  BY <1>1, <1>3 DEF MnxInv, SocketsKnown
<1>6. InOnePlace'
  <2>1. \A r \in Request \ copied : \A e, f \in network' : e.request = r /\ f.request = r => e = f
    BY <1>1, <1>3 DEF MnxInv, InOnePlace
  <2>2. QED
    BY <1>1, <1>4, <2>1 DEF MnxInv, InOnePlace
<1>7. \A r : Lying(r)' => Lying(r)
  BY <1>1, <1>4 DEF Lying
<1>8. StaleExplained'
  BY <1>1, <1>7, LateStays DEF MnxInv, StaleExplained
<1>9. QED
  BY <1>1, <1>2, <1>5, <1>6, <1>8, AnswersStay DEF MnxInv

LEMMA LostKeeps ==
  ASSUME MnxInv, NEW d \in network, network' = network \ {d},
         UNCHANGED <<waitingOn, copied>>, NetworkLeaves
  PROVE  MnxInv'
<1>1. /\ MnxTypeOK /\ network' \subseteq network
      /\ UNCHANGED <<Connections, openings, openedBy, waitingOn, copied, sent, sentOn, sentIn,
                     waitingFor, limited, unanswered, misled, answerGiven>>
  BY DEF MnxInv, NetworkLeaves, open, sendings, failures
<1>2. MnxTypeOK'
  BY <1>1 DEF MnxTypeOK
<1>3. SocketsKnown'
  BY <1>1 DEF MnxInv, SocketsKnown
<1>4. InOnePlace'
  BY <1>1 DEF MnxInv, InOnePlace, OnItsWay
<1>5. NothingNew
  BY <1>1 DEF NothingNew
<1>6. QED
  BY <1>1, <1>2, <1>3, <1>4, <1>5, LessLies, AnswersStay DEF MnxInv

LEMMA DeliveredKeeps ==
  ASSUME MnxInv, NEW d \in network, NEW s \in Socket, s = sentOn[d.request],
         waitingOn' = [waitingOn EXCEPT ![s] = Append(@, d.request)],
         \/ network' = network \ {d} /\ UNCHANGED copied
         \/ UNCHANGED network /\ copied' = copied \cup {d.request},
         NetworkLeaves
  PROVE  MnxInv'
<1>1. PICK k : k = d.request
  OBVIOUS
<1>2. /\ MnxTypeOK /\ network' \subseteq network /\ k \in 1..sent /\ k \in Request
      /\ copied \subseteq copied' /\ copied' \subseteq copied \cup {k}
      /\ UNCHANGED <<Connections, openings, openedBy, sent, sentOn, sentIn,
                     waitingFor, limited, unanswered, misled, answerGiven>>
  BY <1>1, MnxTypes DEF MnxInv, NetworkLeaves, open, sendings, failures, SocketsKnown
<1>3. /\ waitingOn[s] \in Seq(Request) /\ Len(waitingOn[s]) \in Nat
      /\ \A t \in Socket : waitingOn[t] \in Seq(Request) /\ Len(waitingOn[t]) \in Nat
  BY MnxTypes DEF MnxInv
<1>4. PICK n \in Nat : n = Len(waitingOn[s])
  BY <1>3
<1>5. PICK q : q = waitingOn[s]
  OBVIOUS
<1>6. /\ Append(q, k) \in Seq(Request) /\ Len(Append(q, k)) = n + 1
      /\ \A i \in 1..n : Append(q, k)[i] = q[i]
      /\ Append(q, k)[n + 1] = k
  BY <1>2, <1>3, <1>4, <1>5, Pushed
<1>7. /\ \A t \in Socket : t # s => waitingOn'[t] = waitingOn[t]
      /\ waitingOn'[s] = Append(q, k)
      /\ waitingOn' \in [Socket -> Seq(Request)]
  BY <1>1, <1>2, <1>5, <1>6 DEF MnxTypeOK
<1>8. /\ Len(waitingOn'[s]) = n + 1 /\ waitingOn'[s][n + 1] = k
      /\ \A i \in 1..Len(waitingOn'[s]) : i = n + 1 \/ i \in 1..n
      /\ \A i \in 1..n : i # n + 1 /\ waitingOn'[s][i] = waitingOn[s][i]
  BY <1>5, <1>6, <1>7
<1>9. \A t \in Socket : \A i \in 1..Len(waitingOn'[t]) :
        \/ i \in 1..Len(waitingOn[t]) /\ waitingOn'[t][i] = waitingOn[t][i]
        \/ t = s /\ i = n + 1 /\ waitingOn'[t][i] = k
  BY <1>4, <1>7, <1>8
<1>10. MnxTypeOK'
  BY <1>2, <1>7 DEF MnxTypeOK
<1>11. SocketsKnown'
  <2>1. \A t \in Socket : \A i \in 1..Len(waitingOn'[t]) :
          waitingOn'[t][i] \in 1..sent /\ sentOn[waitingOn'[t][i]] = t
    BY <1>1, <1>2, <1>9 DEF MnxInv, SocketsKnown
  <2>2. QED
    BY <1>2, <2>1 DEF MnxInv, SocketsKnown
<1>12. OnItsWay(k)
  BY <1>1 DEF OnItsWay
<1>13. \A r : OnItsWay(r)' => OnItsWay(r)
  BY <1>2 DEF OnItsWay
<1>14. \A r : Lying(r)' => Lying(r)
  BY <1>9, <1>12, <1>13 DEF Lying
<1>15. StaleExplained'
  BY <1>2, <1>14, LateStays DEF MnxInv, StaleExplained
<1>16. InOnePlace'
  <2> SUFFICES ASSUME NEW r \in Request \ copied'
               PROVE  /\ \A e, f \in network' : e.request = r /\ f.request = r => e = f
                      /\ \A t \in Socket : \A i \in 1..Len(waitingOn'[t]) : waitingOn'[t][i] = r =>
                           /\ ~OnItsWay(r)'
                           /\ \A u \in Socket : \A j \in 1..Len(waitingOn'[u]) :
                                waitingOn'[u][j] = r => t = u /\ i = j
    BY DEF InOnePlace
  <2>1. r \in Request \ copied
    BY <1>2
  <2>2. \A e, f \in network' : e.request = r /\ f.request = r => e = f
    BY <1>2, <2>1 DEF MnxInv, InOnePlace
  <2>3. ASSUME r # k, NEW t \in Socket, NEW i \in 1..Len(waitingOn'[t]), waitingOn'[t][i] = r
        PROVE  /\ ~OnItsWay(r)'
               /\ \A u \in Socket : \A j \in 1..Len(waitingOn'[u]) :
                    waitingOn'[u][j] = r => t = u /\ i = j
    <3>1. i \in 1..Len(waitingOn[t]) /\ waitingOn[t][i] = r
      BY <1>9, <2>3
    <3>2. \A u \in Socket : \A j \in 1..Len(waitingOn'[u]) : waitingOn'[u][j] = r =>
            j \in 1..Len(waitingOn[u]) /\ waitingOn[u][j] = r
      BY <1>9, <2>3
    <3>3. QED
      BY <1>13, <2>1, <3>1, <3>2 DEF MnxInv, InOnePlace
  <2>4. ASSUME r = k, NEW t \in Socket, NEW i \in 1..Len(waitingOn'[t]), waitingOn'[t][i] = r
        PROVE  /\ ~OnItsWay(r)'
               /\ \A u \in Socket : \A j \in 1..Len(waitingOn'[u]) :
                    waitingOn'[u][j] = r => t = u /\ i = j
    <3>1. network' = network \ {d}
      BY <1>1, <2>1, <2>4
    <3>2. \A e \in network : e.request = r => e = d
      BY <1>1, <2>1, <2>4 DEF MnxInv, InOnePlace
    <3>3. ~OnItsWay(r)'
      BY <3>1, <3>2 DEF OnItsWay
    <3>4. \A u \in Socket : \A j \in 1..Len(waitingOn[u]) : waitingOn[u][j] # r
      BY <1>12, <2>1, <2>4 DEF MnxInv, InOnePlace
    <3>5. \A u \in Socket : \A j \in 1..Len(waitingOn'[u]) : waitingOn'[u][j] = r =>
            u = s /\ j = n + 1
      BY <1>9, <3>4
    <3>6. QED
      BY <2>4, <3>3, <3>5
  <2>5. QED
    BY <2>2, <2>3, <2>4
<1>17. QED
  BY <1>2, <1>10, <1>11, <1>15, <1>16, AnswersStay DEF MnxInv

LEMMA ArrivesKeeps ==
  ASSUME MnxInv, NEW d \in network, Arrives(d)
  PROVE  MnxInv'
<1>1. sentOn[d.request] \in Socket
  BY DEF MnxInv, SocketsKnown
<1>2. PICK s \in Socket : s = sentOn[d.request]
  BY <1>1
<1>3. QED
  BY <1>2, DeliveredKeeps, LostKeeps DEF Arrives

\* The end of a wait without an answer.
WithoutAnswer == {"recv errored", "timed-out"}

LEMMA UnansweredKeeps ==
  ASSUME MnxInv, waitingFor # NoRequest, NEW w \in WithoutAnswer,
         answerGiven' = Outcome(waitingFor, w, NoRequest), waitingFor' = NoRequest,
         unanswered' = unanswered \cup {waitingFor},
         UNCHANGED <<Connections, openings, openedBy, waitingOn, network, copied, sent, sentOn,
                     sentIn, limited, misled>>
  PROVE  MnxInv'
<1>1. MnxTypeOK /\ waitingFor \in 1..sent /\ waitingFor \in 0..sent /\ 0 \in 0..sent
  <2>1. MnxTypeOK /\ sent \in Nat
    BY MnxTypes DEF MnxInv
  <2>2. waitingFor \in {0} \cup 1..sent /\ waitingFor # 0
    BY <2>1 DEF MnxTypeOK, NoRequest
  <2>3. waitingFor \in 1..sent
    BY <2>2
  <2>4. 0 \in 0..sent
    BY <2>1
  <2>5. QED
    BY <2>1, <2>3, <2>4
<1>2. answerGiven' \in [request : 0..sent,
                         is : {"none", "not registered", "send errored", "answer",
                               "recv errored", "timed-out"},
                         of : 0..sent]
      /\ answerGiven'.is # "answer"
  BY <1>1 DEF Outcome, NoRequest, WithoutAnswer
<1>3. MnxTypeOK'
  BY <1>1, <1>2 DEF MnxTypeOK
<1>4. SocketsKnown'
  BY <1>1 DEF MnxInv, SocketsKnown
<1>5. AnswersOfThisOpening'
  BY <1>2, NoAnswer
<1>6. QED
  BY <1>1, <1>3, <1>4, <1>5, NothingMoves DEF MnxInv

LEMMA InterruptedKeeps ==
  ASSUME MnxInv, Interrupted
  PROVE  MnxInv'
<1>1. /\ MnxTypeOK /\ limited' = FALSE
      /\ UNCHANGED <<Connections, openings, openedBy, waitingOn, network, copied, sent, sentOn,
                     sentIn, waitingFor, unanswered, misled, answerGiven>>
  BY DEF Interrupted, MnxInv, open, wire, sendings, failures
<1>2. MnxTypeOK'
  BY <1>1 DEF MnxTypeOK
<1>3. SocketsKnown'
  BY <1>1 DEF MnxInv, SocketsKnown
<1>4. QED
  BY <1>1, <1>2, <1>3, NothingMoves, AnswersStay DEF MnxInv

LEMMA ReceiveKeeps ==
  ASSUME MnxInv, Receive
  PROVE  MnxInv'
<1>1. PICK s : s = sentOn[waitingFor]
  OBVIOUS
<1>2. PICK k : k = waitingFor
  OBVIOUS
<1>3. /\ MnxTypeOK /\ k \in 1..sent /\ k = sent /\ k \in Nat /\ k # NoRequest
      /\ UNCHANGED <<Connections, openings, openedBy, network, copied, sent, sentOn, sentIn,
                     limited, unanswered>>
      /\ waitingFor' = NoRequest /\ misled \subseteq 1..sent
  BY <1>2, MnxTypes DEF MnxInv, MnxTypeOK, Receive, open, sendings, NoRequest, SocketsKnown
<1>4. s \in Socket /\ sentOn[k] = s /\ sentIn[k] = s
  BY <1>1, <1>2, <1>3 DEF MnxInv, SocketsKnown
<1>5. PICK q : q = waitingOn[s]
  OBVIOUS
<1>6. q \in Seq(Request) /\ q # <<>>
  BY <1>1, <1>3, <1>4, <1>5 DEF MnxTypeOK, Receive, Here
<1>7. /\ Tail(q) \in Seq(Request) /\ Len(q) \in Nat /\ 1 \in 1..Len(q) /\ Head(q) = q[1]
      /\ Len(Tail(q)) = Len(q) - 1
      /\ \A i \in 1..Len(Tail(q)) : i + 1 \in 1..Len(q) /\ Tail(q)[i] = q[i + 1]
  BY <1>6, HeadTailProperties, EmptySeq, LenProperties
<1>8. PICK r : r = q[1]
  OBVIOUS
<1>9. /\ answerGiven' = [request |-> k, is |-> "answer", of |-> r]
      /\ waitingOn' = [waitingOn EXCEPT ![s] = Tail(q)]
      /\ misled' = IF r = k THEN misled ELSE misled \cup {k}
  BY <1>1, <1>2, <1>5, <1>7, <1>8 DEF Receive, Here, Outcome
<1>9a. misled \subseteq misled' /\ (r # k => k \in misled') /\ misled' \subseteq 1..sent
  BY <1>3, <1>9
<1>10. /\ waitingOn'[s] = Tail(q) /\ \A t \in Socket : t # s => waitingOn'[t] = waitingOn[t]
       /\ waitingOn' \in [Socket -> Seq(Request)]
  BY <1>3, <1>4, <1>7, <1>9 DEF MnxTypeOK
<1>11. /\ r \in 1..sent /\ sentOn[r] = s /\ sentIn[r] = s
  BY <1>4, <1>5, <1>7, <1>8 DEF MnxInv, SocketsKnown
<1>12. Lying(r)
  BY <1>4, <1>5, <1>7, <1>8 DEF Lying
<1>13. MnxTypeOK'
  <2>1. k \in 0..sent /\ r \in 0..sent
    BY <1>3, <1>11
  <2>2. answerGiven' \in [request : 0..sent,
                           is : {"none", "not registered", "send errored", "answer",
                                 "recv errored", "timed-out"},
                           of : 0..sent]
    BY <1>9, <2>1
  <2>3. waitingFor' \in {NoRequest} \cup 1..sent
    BY <1>3
  <2>4. waitingOn' \in [Socket -> Seq(Request)]
    BY <1>10
  <2>5. /\ MnxTypeOK
        /\ UNCHANGED <<Connections, openings, openedBy, network, copied, sent, sentOn, sentIn,
                       limited, unanswered>>
    BY <1>3
  <2>6. QED
    BY ONLY <1>9a, <2>2, <2>3, <2>4, <2>5 DEF MnxTypeOK
<1>14. \A t \in Socket : \A i \in 1..Len(waitingOn'[t]) :
         \/ t # s /\ i \in 1..Len(waitingOn[t]) /\ waitingOn'[t][i] = waitingOn[t][i]
         \/ t = s /\ i + 1 \in 1..Len(waitingOn[t]) /\ waitingOn'[t][i] = waitingOn[t][i + 1]
  BY <1>5, <1>7, <1>10
<1>15. SocketsKnown'
  <2>1. \A t \in Socket : \A i \in 1..Len(waitingOn'[t]) :
          waitingOn'[t][i] \in 1..sent /\ sentOn[waitingOn'[t][i]] = t
    <3> SUFFICES ASSUME NEW t \in Socket, NEW i \in 1..Len(waitingOn'[t])
                 PROVE  waitingOn'[t][i] \in 1..sent /\ sentOn[waitingOn'[t][i]] = t
      OBVIOUS
    <3>1. PICK j \in 1..Len(waitingOn[t]) : waitingOn'[t][i] = waitingOn[t][j]
      BY <1>14
    <3>2. QED
      BY <3>1 DEF MnxInv, SocketsKnown
  <2>2. QED
    BY <1>3, <2>1 DEF MnxInv, SocketsKnown
<1>16. \A x : OnItsWay(x)' <=> OnItsWay(x)
  BY <1>3 DEF OnItsWay
<1>17. \A x : Lying(x)' => Lying(x)
  BY <1>14, <1>16 DEF Lying
<1>18. \A t \in Socket : \A i \in 1..Len(waitingOn'[t]) : i \in Nat
  BY <1>10, LenProperties DEF MnxTypeOK
<1>19. InOnePlace'
  <2> SUFFICES ASSUME NEW x \in Request \ copied
               PROVE  /\ \A e, f \in network : e.request = x /\ f.request = x => e = f
                      /\ \A t \in Socket : \A i \in 1..Len(waitingOn'[t]) : waitingOn'[t][i] = x =>
                           /\ ~OnItsWay(x)
                           /\ \A u \in Socket : \A j \in 1..Len(waitingOn'[u]) :
                                waitingOn'[u][j] = x => t = u /\ i = j
    BY <1>3, <1>16 DEF InOnePlace
  <2>1. \A e, f \in network : e.request = x /\ f.request = x => e = f
    BY DEF MnxInv, InOnePlace
  <2>2. ASSUME NEW t \in Socket, NEW i \in 1..Len(waitingOn'[t]), waitingOn'[t][i] = x
        PROVE  /\ ~OnItsWay(x)
               /\ \A u \in Socket : \A j \in 1..Len(waitingOn'[u]) :
                    waitingOn'[u][j] = x => t = u /\ i = j
    <3>1. ~OnItsWay(x)
      BY <1>14, <2>2 DEF MnxInv, InOnePlace
    <3>2. ASSUME NEW u \in Socket, NEW j \in 1..Len(waitingOn'[u]), waitingOn'[u][j] = x
          PROVE  t = u /\ i = j
      <4>1. PICK k1 \in 1..Len(waitingOn[t]) :
              waitingOn[t][k1] = x /\ k1 = (IF t = s THEN i + 1 ELSE i)
        BY <1>14, <2>2
      <4>2. PICK k2 \in 1..Len(waitingOn[u]) :
              waitingOn[u][k2] = x /\ k2 = (IF u = s THEN j + 1 ELSE j)
        BY <1>14, <3>2
      <4>3. t = u /\ k1 = k2
        BY <4>1, <4>2 DEF MnxInv, InOnePlace
      <4>4. i \in Nat /\ j \in Nat
        BY <1>18
      <4>5. QED
        BY <4>1, <4>2, <4>3, <4>4
    <3>3. QED
      BY <3>1, <3>2
  <2>3. QED
    BY <2>1, <2>2
\* An answer to an earlier request came late.
<1>20. r # k => MayComeLate(r) /\ MayComeLate(r)'
  <2>1. ASSUME r # k PROVE MayComeLate(r)
    BY <1>2, <1>11, <1>12, <2>1 DEF MnxInv, StaleExplained
  <2>2. QED
    BY <1>3, <1>9a, <2>1, LateStays
\* If an answer to this request lies about, and is neither the one taken nor a copy of it,
\* then the one taken was to an earlier request.
<1>21. Lying(k)' => \/ k \in copied
                    \/ r # k
  <2>1. ASSUME Lying(k)', k \notin copied, r = k
        PROVE  FALSE
    <3>1. k \in Request \ copied
      BY <1>3, <2>1, MnxTypes DEF MnxInv
    <3>2. ~OnItsWay(k)
      BY <1>4, <1>5, <1>7, <1>8, <2>1, <3>1 DEF MnxInv, InOnePlace
    <3>3a. PICK t \in Socket : \E i \in 1..Len(waitingOn'[t]) : waitingOn'[t][i] = k
      BY <1>16, <2>1, <3>2 DEF Lying
    <3>3. PICK i \in 1..Len(waitingOn'[t]) : waitingOn'[t][i] = k
      BY <3>3a
    <3>4. t = s
      BY <1>4, <1>5, <1>7, <1>8, <1>14, <2>1, <3>1, <3>3 DEF MnxInv, InOnePlace
    <3>5. i + 1 = 1
      BY <1>4, <1>5, <1>7, <1>8, <1>14, <2>1, <3>1, <3>3, <3>4 DEF MnxInv, InOnePlace
    <3>6. i \in Nat /\ i >= 1
      BY <1>18, <3>3
    <3>7. QED
      BY <3>5, <3>6
  <2>2. QED
    BY <2>1
<1>22. StaleExplained'
  <2> SUFFICES ASSUME NEW x \in 1..sent, Lying(x)' PROVE MayComeLate(x)'
    BY <1>3 DEF StaleExplained
  <2>1. CASE x # k
    <3>1. MayComeLate(x)
      BY <1>2, <1>17, <2>1 DEF MnxInv, StaleExplained
    <3>2. QED
      BY <1>3, <1>9a, <3>1, LateStays
  <2>2. CASE x = k /\ k \in copied
    <3>1. k \in 1..k
      BY <1>3
    <3>2. QED
      BY <1>3, <2>2, <3>1 DEF MayComeLate
  <2>3. CASE x = k /\ r # k
    <3>1. PICK p \in 1..r : p \in unanswered \cup copied /\ sentIn[p] = s
      BY <1>11, <1>20, <2>3 DEF MayComeLate
    <3>2. p \in 1..k
      BY <1>3, <1>11
    <3>3. k \in misled' /\ UNCHANGED <<unanswered, copied, sentIn>>
      BY <1>3, <1>9a, <2>3
    <3>4. QED
      BY <1>4, <2>3, <3>1, <3>2, <3>3 DEF MayComeLate
  <2>4. QED
    BY <1>21, <2>1, <2>2, <2>3
<1>23. AnswersOfThisOpening'
  <2> SUFFICES ASSUME r # k
               PROVE  r < k /\ sentIn[r] = sentIn[k] /\ MayComeLate(r)'
    BY <1>3, <1>9 DEF AnswersOfThisOpening
  <2>1. r < k /\ sentIn[r] = sentIn[k]
    BY <1>3, <1>4, <1>11
  <2>2. QED
    BY <1>20, <2>1
<1>24. QED
  BY <1>13, <1>15, <1>19, <1>22, <1>23 DEF MnxInv

LEMMA MnxStarts ==
  ASSUME MnxInit
  PROVE  MnxInv
<1>1. MaxSockets \in Nat /\ MaxSent \in Nat
  BY MnxAssumption
<1>2. <<>> \in Seq(Request) /\ Len(<<>>) = 0
  OBVIOUS
<1>3. 0 \in 0..MaxSockets /\ 0 \in 0..MaxSent /\ 0 \in 0..0
  BY <1>1
<1>4. MnxTypeOK
  BY <1>2, <1>3 DEF MnxInit, MnxTypeOK, NoSocket, NoRequest, Outcome
<1>5. \A s \in Socket : Len(waitingOn[s]) = 0
  BY <1>2 DEF MnxInit
<1>6. \A r : ~OnItsWay(r) /\ ~Lying(r)
  BY <1>5 DEF MnxInit, OnItsWay, Lying
<1>7. SocketsKnown
  BY <1>5 DEF MnxInit, SocketsKnown
<1>8. InOnePlace
  BY <1>5 DEF MnxInit, InOnePlace
<1>9. StaleExplained
  BY <1>6 DEF StaleExplained
<1>10. AnswersOfThisOpening
  <2>1. answerGiven.is # "answer"
    BY DEF MnxInit, Outcome
  <2>2. QED
    BY <2>1 DEF AnswersOfThisOpening
<1>11. QED
  BY <1>4, <1>7, <1>8, <1>9, <1>10 DEF MnxInv

LEMMA MnxSteps ==
  ASSUME MnxInv, [MnxNext]_mnxVars
  PROVE  MnxInv'
<1>1. CASE UNCHANGED mnxVars
  <2>1. UNCHANGED <<Connections, openings, openedBy, waitingOn, network, sent, sentOn, sentIn,
                    waitingFor, limited, unanswered, misled, copied, answerGiven>>
    BY <1>1 DEF mnxVars
  <2>2. MnxTypeOK'
    BY <2>1 DEF MnxInv, MnxTypeOK
  <2>3. SocketsKnown'
    BY <2>1 DEF MnxInv, SocketsKnown
  <2>4. QED
    BY <2>1, <2>2, <2>3, NothingMoves, AnswersStay DEF MnxInv
<1>2. ASSUME NEW n \in Connection, ClientInit(n) \/ ClientClose(n) \/ SendMsg(n)
      PROVE  MnxInv'
  BY <1>2, ClientInitKeeps, ClientCloseKeeps, SendMsgKeeps
<1>3. ASSUME NEW d \in network, ServerAnswers(d) \/ Arrives(d) \/ Lost(d)
      PROVE  MnxInv'
  BY <1>3, ServerAnswersKeeps, ArrivesKeeps, LostKeeps DEF Lost
<1>4. CASE Receive
  BY <1>4, ReceiveKeeps
<1>5. CASE ReceiveErrored
  BY <1>5, UnansweredKeeps DEF WithoutAnswer, ReceiveErrored, open, wire, sendings
<1>6. CASE Interrupted
  BY <1>6, InterruptedKeeps
<1>7. CASE TimedOut
  BY <1>7, UnansweredKeeps DEF WithoutAnswer, TimedOut, open, wire, sendings
<1>8. QED
  BY <1>1, <1>2, <1>3, <1>4, <1>5, <1>6, <1>7 DEF MnxNext

LEMMA MnxAlways == MnxSpec => []MnxInv
BY MnxStarts, MnxSteps, PTL DEF MnxSpec

\* A script gets the answer to its own request, or one to an earlier request of the
\* same opening of its connection, whose SEND ended without it or which was copied on
\* the way, after a time-out, an error or a copy: OnRequest takes the first datagram
\* on its socket (NWNXmnx.cpp), and closing the socket is what keeps older ones out.
THEOREM AnswersMatchOpenings == MnxSpec => []AnswersOfThisOpening
<1>1. MnxInv => AnswersOfThisOpening
  BY DEF MnxInv
<1>2. QED
  BY <1>1, MnxAlways, PTL
-------------------------------------------------------------------------------
(* JvmEvery.                                                                 *)

EventRuns(e) == \E i \in 1..Len(events) : events[i].block = e

\* What is left of a number of runs that was set, while the block runs once or not at all.
RemainingCounts ==
  \A e \in Every : setting[e].to # -1 /\ setting[e].of = "idle" =>
    /\ EventRuns(e) =>
         /\ runsRemaining[e] = setting[e].to - setting[e].runs + 1
         /\ runsRemaining[e] >= 1
         /\ \A i, j \in 1..Len(events) : events[i].block = e /\ events[j].block = e => i = j
    /\ ~EventRuns(e) =>
         /\ runsRemaining[e] = setting[e].to - setting[e].runs
         /\ runsRemaining[e] >= 0

ListenersRunNoBlock ==
  \A i \in 1..Len(events) : events[i].in = "listeners" =>
    events[i].block = NoBlock /\ events[i].due = {}

\* Pass f has come to e, or e is still due and f has it to come.
SeenTo(e, f) ==
  \/ lastRun[e] >= f.n
  \/ stopped[e]
  \/ e \in f.toRemove
  \/ f.block = e
  \/ /\ \E j \in 1..Len(scheduledEvery) : j >= f.next /\ scheduledEvery[j] = e
     /\ timing[e] = f.in /\ f.n >= lastRun[e] + Interval

DueSeenTo ==
  \A i \in 1..Len(events) : events[i].n <= now /\ \A e \in events[i].due : SeenTo(e, events[i])

EveryInv == EveryTypeOK /\ RemainingCounts /\ ListenersRunNoBlock /\ DueSeenTo

LEMMA EveryNumbers ==
  Interval \in Nat /\ MaxClock \in Nat /\ MaxSet \in Nat /\ Interval <= MaxClock
BY EveryAssumption

LEMMA EventsAre ==
  ASSUME EveryTypeOK
  PROVE  /\ Len(events) \in Nat /\ \A i \in 1..Len(events) : events[i] \in EventOf
         /\ Len(scheduledEvery) \in Nat
         /\ \A i \in 1..Len(scheduledEvery) : scheduledEvery[i] \in Every
         /\ DOMAIN events = 1..Len(events) /\ DOMAIN scheduledEvery = 1..Len(scheduledEvery)
<1>1. events \in Seq(EventOf) /\ scheduledEvery \in Seq(Every)
  BY DEF EveryTypeOK
<1> HIDE DEF EventOf
<1>2. QED
  BY <1>1, ElementOfSeq, LenProperties

\* The fields of an event.
LEMMA FieldsAre ==
  ASSUME NEW f \in EventOf
  PROVE  /\ f.in \in Timing \cup {"listeners"} /\ f.n \in Nat /\ f.n \in 0..MaxClock
         /\ f.next \in Nat /\ f.changed \in BOOLEAN
         /\ f.toRemove \subseteq Every /\ f.block \in Every \cup {NoBlock} /\ f.due \subseteq Every
BY EveryNumbers DEF EventOf

\* The innermost event.
LEMMA InnerOne ==
  ASSUME EveryTypeOK, events # <<>>
  PROVE  /\ Len(events) \in Nat /\ Len(events) >= 1 /\ Len(events) \in 1..Len(events)
         /\ Inner = events[Len(events)] /\ Inner \in EventOf
         /\ Outer \in Seq(EventOf) /\ Len(Outer) = Len(events) - 1
         /\ \A i \in 1..(Len(events) - 1) : Outer[i] = events[i] /\ i \in 1..Len(events)
<1>1. events \in Seq(EventOf)
  BY DEF EveryTypeOK
<1> HIDE DEF EventOf
<1>2. QED
  BY <1>1, Popped DEF Inner, Outer

\* The innermost event is another one.
LEMMA InnerBecomes ==
  ASSUME EveryTypeOK, events # <<>>, NEW f \in EventOf, InnerIs(f)
  PROVE  /\ events' \in Seq(EventOf) /\ Len(events') = Len(events)
         /\ events'[Len(events)] = f
         /\ \A i \in 1..Len(events) : i # Len(events) => events'[i] = events[i]
<1>1. PICK n \in Nat : n = Len(events) /\ n >= 1
  BY InnerOne
<1>2. Outer \in Seq(EventOf) /\ Len(Outer) = n - 1 /\ \A i \in 1..(n - 1) : Outer[i] = events[i]
  BY <1>1, InnerOne
<1> HIDE DEF EventOf
<1>3. /\ Append(Outer, f) \in Seq(EventOf) /\ Len(Append(Outer, f)) = Len(Outer) + 1
      /\ \A i \in 1..Len(Outer) : Append(Outer, f)[i] = Outer[i]
      /\ Append(Outer, f)[Len(Outer) + 1] = f
  BY <1>2, Pushed
<1>4. n - 1 + 1 = n /\ \A i \in 1..n : i # n => i \in 1..(n - 1)
  BY <1>1
<1>5. QED
  BY <1>1, <1>2, <1>3, <1>4 DEF InnerIs

\* What a pass has seen to stays seen to while the list stays.
LEMMA SeenToStays ==
  ASSUME NEW f, NEW e, SeenTo(e, f), UNCHANGED <<scheduledEvery, timing>>,
         lastRun'[e] = lastRun[e] \/ lastRun'[e] >= f.n, stopped[e] => stopped'[e]
  PROVE  SeenTo(e, f)'
BY DEF SeenTo

\* Steps in which no event and no list changes.
LEMMA PassesStay ==
  ASSUME EveryInv, UNCHANGED <<events, scheduledEvery, timing, lastRun>>, now' \in Nat, now' >= now,
         \A e \in Every : stopped[e] => stopped'[e]
  PROVE  ListenersRunNoBlock' /\ DueSeenTo'
<1>1. ListenersRunNoBlock'
  BY DEF EveryInv, ListenersRunNoBlock
<1>2. DueSeenTo'
  <2> SUFFICES ASSUME NEW i \in 1..Len(events)
               PROVE  events[i].n <= now' /\ \A e \in events[i].due : SeenTo(e, events[i])'
    BY DEF DueSeenTo
  <2>1. PICK f \in EventOf : f = events[i]
    BY EventsAre DEF EveryInv
  <2>2. f.n \in Nat /\ f.due \subseteq Every /\ now \in Int
    BY FieldsAre, EveryNumbers DEF EveryInv, EveryTypeOK
  <2>3. f.n <= now /\ \A e \in f.due : SeenTo(e, f)
    BY <2>1 DEF EveryInv, DueSeenTo
  <2>4. \A e \in f.due : SeenTo(e, f)'
    BY <2>2, <2>3, SeenToStays
  <2>5. f' = f
    BY <2>1
  <2>6. QED
    BY <2>1, <2>2, <2>3, <2>4
<1>3. QED
  BY <1>1, <1>2

LEMMA TimePassesKeeps ==
  ASSUME EveryInv, TimePasses
  PROVE  EveryInv'
<1>1. /\ EveryTypeOK /\ now \in Interval..MaxClock /\ now < MaxClock /\ now' = now + 1
      /\ UNCHANGED <<scheduledEvery, timing, lastRun, stopped, runsRemaining, events, setting>>
  BY DEF EveryInv, EveryTypeOK, TimePasses, fieldVars
<1>2. now' \in Interval..MaxClock /\ now' \in Nat /\ now' >= now
  BY <1>1, EveryNumbers
<1>3. EveryTypeOK'
  BY <1>1, <1>2 DEF EveryTypeOK
<1>4. RemainingCounts'
  BY <1>1 DEF EveryInv, RemainingCounts, EventRuns
<1>5. QED
  BY <1>1, <1>2, <1>3, <1>4, PassesStay DEF EveryInv

LEMMA StopKeeps ==
  ASSUME EveryInv, NEW e \in Every, Stop(e)
  PROVE  EveryInv'
<1>1. /\ EveryTypeOK /\ now \in Nat /\ now >= now /\ stopped' = [stopped EXCEPT ![e] = TRUE]
      /\ UNCHANGED <<now, scheduledEvery, timing, lastRun, runsRemaining, events, setting>>
  BY EveryNumbers DEF EveryInv, EveryTypeOK, Stop
<1>2. EveryTypeOK' /\ \A x \in Every : stopped[x] => stopped'[x]
  BY <1>1 DEF EveryTypeOK
<1>3. RemainingCounts'
  BY <1>1 DEF EveryInv, RemainingCounts, EventRuns
<1>4. QED
  BY <1>1, <1>2, <1>3, PassesStay DEF EveryInv

LEMMA SetRunsRemainingKeeps ==
  ASSUME EveryInv, NEW e \in Every, NEW k \in 0..MaxSet, SetRunsRemaining(e, k)
  PROVE  EveryInv'
<1>1. /\ EveryTypeOK /\ now \in Nat /\ now >= now /\ k \in Nat
      /\ runsRemaining' = [runsRemaining EXCEPT ![e] = k]
      /\ UNCHANGED <<now, scheduledEvery, timing, lastRun, stopped, events>>
  BY EveryNumbers DEF EveryInv, EveryTypeOK, SetRunsRemaining
<1>2. PICK how \in {"idle", "running"} : how = IF IsRunning(e) THEN "running" ELSE "idle"
  OBVIOUS
<1>3. PICK set : set = [to |-> k, runs |-> 0, of |-> how]
  OBVIOUS
<1>4. setting' = [setting EXCEPT ![e] = set]
  BY <1>2, <1>3 DEF SetRunsRemaining
<1>5. k \in -1..MaxSet
  BY EveryNumbers
<1>6. set \in [to : -1..MaxSet, runs : Nat, of : {"idle", "running"}]
  BY <1>3, <1>5
<1>7. EveryTypeOK'
  BY <1>1, <1>4, <1>5, <1>6 DEF EveryTypeOK
<1>8. EventRuns(e) <=> IsRunning(e)
  BY <1>1, EventsAre DEF EventRuns, IsRunning
<1>9. RemainingCounts'
  <2>1. \A x \in Every : EventRuns(x)' <=> EventRuns(x)
    BY <1>1 DEF EventRuns
  <2>2. \A x \in Every : x # e => setting'[x] = setting[x] /\ runsRemaining'[x] = runsRemaining[x]
    BY <1>1, <1>4 DEF EveryTypeOK
  <2>3. setting'[e] = set /\ runsRemaining'[e] = k
    BY <1>1, <1>4 DEF EveryTypeOK
  <2>4. set.of = "idle" => ~EventRuns(e)
    BY <1>2, <1>3, <1>8
  <2>5. set.to = k /\ set.runs = 0 /\ k = k - 0 /\ k >= 0
    BY <1>1, <1>3
  <2> SUFFICES ASSUME NEW x \in Every, setting'[x].to # -1 /\ setting'[x].of = "idle"
               PROVE  /\ EventRuns(x)' =>
                           /\ runsRemaining'[x] = setting'[x].to - setting'[x].runs + 1
                           /\ runsRemaining'[x] >= 1
                           /\ \A i, j \in 1..Len(events') :
                                events'[i].block = x /\ events'[j].block = x => i = j
                      /\ ~EventRuns(x)' =>
                           /\ runsRemaining'[x] = setting'[x].to - setting'[x].runs
                           /\ runsRemaining'[x] >= 0
    BY DEF RemainingCounts
  <2>6. CASE x = e
    BY <2>1, <2>3, <2>4, <2>5, <2>6
  <2>7. CASE x # e
    BY <1>1, <2>1, <2>2, <2>7 DEF EveryInv, RemainingCounts
  <2>8. QED
    BY <2>6, <2>7
<1>10. QED
  BY <1>1, <1>7, <1>9, PassesStay DEF EveryInv

\* The same blocks run, in the same events.
BlocksStay ==
  /\ \A i \in 1..Len(events') :
       \/ events'[i].block = NoBlock
       \/ i \in 1..Len(events) /\ events'[i].block = events[i].block
  /\ \A i \in 1..Len(events) :
       \/ events[i].block = NoBlock
       \/ i \in 1..Len(events') /\ events'[i].block = events[i].block

LEMMA CountsStay ==
  ASSUME EveryInv, BlocksStay, UNCHANGED <<runsRemaining, setting>>
  PROVE  RemainingCounts'
<1>1. \A e \in Every : e # NoBlock
  BY EveryAssumption
<1>2. \A e \in Every : EventRuns(e)' <=> EventRuns(e)
  BY <1>1 DEF BlocksStay, EventRuns
<1>3. \A e \in Every : \A i \in 1..Len(events') :
        events'[i].block = e => i \in 1..Len(events) /\ events[i].block = e
  BY <1>1 DEF BlocksStay
<1>4. RemainingCounts
  BY DEF EveryInv
<1>5. \A e \in Every : (\A i, j \in 1..Len(events) : events[i].block = e /\ events[j].block = e => i = j)
        => (\A i, j \in 1..Len(events') : events'[i].block = e /\ events'[j].block = e => i = j)
  BY <1>3
<1>6. QED
  BY <1>2, <1>4, <1>5 DEF RemainingCounts

\* An event of the next state is one of this one, or sees to what is due in it.
SeenToAnew ==
  \A i \in 1..Len(events') :
    \/ i \in 1..Len(events) /\ events'[i] = events[i]
    \/ \E f \in EventOf : /\ events'[i] = f
                         /\ f.n <= now
                         /\ \A e \in f.due : SeenTo(e, f)'

LEMMA SeenToKept ==
  ASSUME EveryInv, SeenToAnew, UNCHANGED <<now, scheduledEvery, timing>>,
         \A e \in Every : lastRun'[e] = lastRun[e] \/ lastRun'[e] = now,
         \A e \in Every : stopped[e] => stopped'[e]
  PROVE  DueSeenTo'
<1> SUFFICES ASSUME NEW i \in 1..Len(events')
             PROVE  events'[i].n <= now /\ \A e \in events'[i].due : SeenTo(e, events[i])'
  BY DEF DueSeenTo
<1>1. PICK f : f = events'[i]
  OBVIOUS
<1>2. f.n <= now /\ \A e \in f.due : SeenTo(e, f)'
  <2>1. CASE \E g \in EventOf : events'[i] = g /\ g.n <= now /\ \A e \in g.due : SeenTo(e, g)'
    BY <1>1, <2>1
  <2>2. CASE i \in 1..Len(events) /\ events'[i] = events[i]
    <3>1. f = events[i] /\ f \in EventOf
      BY <1>1, <2>2, EventsAre DEF EveryInv
    <3>2. f.n <= now /\ \A e \in f.due : SeenTo(e, f)
      BY <2>2, <3>1 DEF EveryInv, DueSeenTo
    <3>3. f.due \subseteq Every
      BY <3>1, FieldsAre
    <3>4. ASSUME NEW e \in f.due
          PROVE  SeenTo(e, f)'
      <4>1. lastRun'[e] = lastRun[e] \/ lastRun'[e] = now
        BY <3>3
      <4>2. lastRun'[e] = now => lastRun'[e] >= f.n
        <5>1. now \in Int /\ f.n \in Int
          BY <3>1, FieldsAre, EveryNumbers DEF EveryInv, EveryTypeOK
        <5>2. QED
          BY <3>2, <5>1
      <4>3. stopped[e] => stopped'[e]
        BY <3>3
      <4>4. SeenTo(e, f)
        BY <3>2
      <4>5. QED
        BY <4>1, <4>2, <4>3, <4>4, SeenToStays
    <3>5. QED
      BY <3>2, <3>4
  <2>3. QED
    BY <2>1, <2>2 DEF SeenToAnew
<1>3. QED
  BY <1>1, <1>2

\* Every iterator is broken.
LEMMA ChangedType ==
  ASSUME NEW calls \in Seq(EventOf)
  PROVE  /\ Changed(calls) \in Seq(EventOf) /\ Len(Changed(calls)) = Len(calls)
         /\ Len(calls) \in Nat
         /\ \A i \in 1..Len(calls) :
              /\ Changed(calls)[i].in = calls[i].in /\ Changed(calls)[i].block = calls[i].block
              /\ Changed(calls)[i].n = calls[i].n
              /\ calls[i].in = "listeners" => Changed(calls)[i].due = calls[i].due
              /\ calls[i].in # "listeners" => Changed(calls)[i].due = {}
<1>1. Len(calls) \in Nat /\ DOMAIN calls = 1..Len(calls)
      /\ \A i \in 1..Len(calls) : calls[i] \in EventOf
  <2> HIDE DEF EventOf
  <2>1. QED
    BY ElementOfSeq, LenProperties
<1>2. PICK n \in Nat : n = Len(calls)
  BY <1>1
<1> DEFINE b(i) == IF calls[i].in \in Timing THEN [calls[i] EXCEPT !.changed = TRUE, !.due = {}] ELSE calls[i]
<1>3. Changed(calls) = [i \in 1..n |-> b(i)]
  BY <1>1, <1>2 DEF Changed
<1>4. ASSUME NEW i \in 1..n
      PROVE  /\ b(i) \in EventOf
             /\ b(i).in = calls[i].in /\ b(i).block = calls[i].block /\ b(i).n = calls[i].n
             /\ calls[i].in = "listeners" => b(i).due = calls[i].due
             /\ calls[i].in # "listeners" => b(i).due = {}
  <2>1. calls[i] \in EventOf /\ "listeners" \notin Timing
    BY <1>1, <1>2 DEF Timing
  <2>2. QED
    BY <2>1 DEF EventOf
<1> HIDE DEF b, EventOf
<1>5. [i \in 1..n |-> b(i)] \in [1..n -> EventOf]
  BY <1>4
<1>6. Changed(calls) \in Seq(EventOf) /\ Len(Changed(calls)) = n
  BY <1>2, <1>3, <1>5, FunctionIsSeq
<1>7. \A i \in 1..n : Changed(calls)[i] = b(i)
  BY <1>3
<1>8. QED
  BY <1>1, <1>2, <1>4, <1>6, <1>7

\* After a change of the list nothing is due in the passes it breaks.
LEMMA BrokenKeeps ==
  ASSUME EveryInv, events' = Changed(events), now' = now
  PROVE  /\ events' \in Seq(EventOf) /\ BlocksStay /\ ListenersRunNoBlock' /\ DueSeenTo'
<1>1. events \in Seq(EventOf)
  BY DEF EveryInv, EveryTypeOK
<1> HIDE DEF EventOf
<1>2. /\ events' \in Seq(EventOf) /\ Len(events') = Len(events)
      /\ \A i \in 1..Len(events) :
           /\ events'[i].in = events[i].in /\ events'[i].block = events[i].block
           /\ events'[i].n = events[i].n
           /\ events[i].in = "listeners" => events'[i].due = events[i].due
           /\ events[i].in # "listeners" => events'[i].due = {}
  BY <1>1, ChangedType
<1>3. BlocksStay
  BY <1>2 DEF BlocksStay
<1>4. ListenersRunNoBlock'
  BY <1>2 DEF EveryInv, ListenersRunNoBlock
<1>5. \A i \in 1..Len(events) : events'[i].due = {} /\ events'[i].n <= now
  BY <1>2 DEF EveryInv, ListenersRunNoBlock, DueSeenTo
<1>6. DueSeenTo'
  BY <1>2, <1>5 DEF DueSeenTo
<1>7. QED
  BY <1>2, <1>3, <1>4, <1>6

LEMMA ScheduleKeeps ==
  ASSUME EveryInv, NEW e \in Every, NEW t \in Timing, Schedule(e, t)
  PROVE  EveryInv'
<1>1. /\ EveryTypeOK /\ scheduledEvery' = Append(scheduledEvery, e)
      /\ timing' = [timing EXCEPT ![e] = t] /\ events' = Changed(events)
      /\ UNCHANGED <<now, lastRun, stopped, runsRemaining, setting>>
  BY DEF EveryInv, Schedule
<1>2. scheduledEvery' \in Seq(Every)
  BY <1>1, Pushed DEF EveryTypeOK
<1>3. /\ events' \in Seq(EventOf) /\ BlocksStay /\ ListenersRunNoBlock' /\ DueSeenTo'
  BY <1>1, BrokenKeeps
<1>4. EveryTypeOK'
  BY <1>1, <1>2, <1>3 DEF EveryTypeOK
<1>5. QED
  BY <1>1, <1>3, <1>4, CountsStay DEF EveryInv

\* A pass that begins.
LEMMA PassBegins ==
  ASSUME EveryInv, NEW t \in Timing, UNCHANGED <<now, scheduledEvery, timing, lastRun, stopped>>
  PROVE  \E f \in EventOf : /\ f = Pass(t) /\ f.in = t /\ f.block = NoBlock /\ f.n = now
                           /\ \A e \in f.due : SeenTo(e, f)'
<1>1. PICK f : f = Pass(t)
  OBVIOUS
<1>2. EveryTypeOK /\ now \in 0..MaxClock /\ Interval \in Nat
  BY EveryNumbers DEF EveryInv, EveryTypeOK
<1>3. \A e \in Listed : \E j \in 1..Len(scheduledEvery) : j >= 1 /\ scheduledEvery[j] = e /\ e \in Every
  BY <1>2, EventsAre DEF Listed
<1>4. f.in = t /\ f.block = NoBlock /\ f.n = now /\ f.next = 1
      /\ f.due = {e \in Listed : IsDue(e, t, now)}
  BY <1>1 DEF Pass
<1>5. f \in EventOf
  <2>1. f.due \subseteq Every
    BY <1>3, <1>4
  <2>2. {e \in Listed : IsDue(e, t, now)} \subseteq Every
    BY <1>4, <2>1
  <2>3. QED
    BY <1>1, <1>2, <2>2 DEF Pass, EventOf
<1>6. ASSUME NEW e \in f.due
      PROVE  SeenTo(e, f)'
  <2>1. PICK j \in 1..Len(scheduledEvery) : j >= 1 /\ scheduledEvery[j] = e
    BY <1>3, <1>4
  <2>2. timing[e] = t /\ now >= lastRun[e] + Interval
    BY <1>4 DEF IsDue
  <2>3. QED
    BY <1>4, <2>1, <2>2 DEF SeenTo
<1>7. QED
  BY <1>1, <1>4, <1>5, <1>6

LEMMA EventBeginsKeeps ==
  ASSUME EveryInv, EventBegins
  PROVE  EveryInv'
<1>1. /\ EveryTypeOK /\ events' = Append(events, Pass("BEFORE"))
      /\ UNCHANGED <<now, scheduledEvery, timing, lastRun, stopped, runsRemaining, setting>>
  BY DEF EveryInv, EventBegins, fieldVars
<1>2. PICK f \in EventOf : /\ f = Pass("BEFORE") /\ f.in = "BEFORE" /\ f.block = NoBlock /\ f.n = now
                         /\ \A e \in f.due : SeenTo(e, f)'
  BY <1>1, PassBegins DEF Timing
<1>3. PICK n \in Nat : n = Len(events)
  BY EventsAre DEF EveryInv
<1>4. /\ events' \in Seq(EventOf) /\ Len(events') = n + 1 /\ events'[n + 1] = f
      /\ \A i \in 1..n : events'[i] = events[i]
  <2>1. events \in Seq(EventOf)
    BY <1>1 DEF EveryTypeOK
  <2> HIDE DEF EventOf
  <2>2. QED
    BY <1>1, <1>2, <1>3, <2>1, Pushed
<1>5. \A i \in 1..Len(events') : i \in 1..Len(events) \/ i = n + 1
  BY <1>3, <1>4
<1>6. EveryTypeOK'
  BY <1>1, <1>4 DEF EveryTypeOK
<1>7. BlocksStay
  <2>1. 1..n \subseteq 1..(n + 1)
    OBVIOUS
  <2>2. QED
    BY <1>2, <1>3, <1>4, <1>5, <2>1 DEF BlocksStay
<1>8. ListenersRunNoBlock'
  BY <1>2, <1>3, <1>4, <1>5 DEF EveryInv, ListenersRunNoBlock
<1>9. now <= now
  BY EveryNumbers DEF EveryInv, EveryTypeOK
<1>10. SeenToAnew
  BY <1>2, <1>3, <1>4, <1>5, <1>9 DEF SeenToAnew
<1>11. QED
  BY <1>1, <1>6, <1>7, <1>8, <1>10, CountsStay, SeenToKept DEF EveryInv

\* The innermost event goes on.
LEMMA InnerGoesOn ==
  ASSUME EveryInv, events # <<>>, NEW f \in EventOf, InnerIs(f), f.n <= now,
         f.in = "listeners" => f.block = NoBlock /\ f.due = {},
         \A e \in f.due : SeenTo(e, f)', UNCHANGED <<now, scheduledEvery, timing>>,
         \A e \in Every : lastRun'[e] = lastRun[e] \/ lastRun'[e] = now,
         \A e \in Every : stopped[e] => stopped'[e]
  PROVE  /\ events' \in Seq(EventOf) /\ ListenersRunNoBlock' /\ DueSeenTo'
         /\ f.block = Inner.block => BlocksStay
<1>1. EveryTypeOK
  BY DEF EveryInv
<1>2. PICK n \in Nat : n = Len(events) /\ n \in 1..n
  BY <1>1, InnerOne
<1>3. /\ events' \in Seq(EventOf) /\ Len(events') = n /\ events'[n] = f
      /\ \A i \in 1..n : i # n => events'[i] = events[i]
  BY <1>1, <1>2, InnerBecomes
<1>4. ListenersRunNoBlock'
  BY <1>2, <1>3 DEF EveryInv, ListenersRunNoBlock
<1>5. SeenToAnew
  BY <1>2, <1>3 DEF SeenToAnew
<1>6. f.block = Inner.block => BlocksStay
  BY <1>1, <1>2, <1>3, InnerOne DEF BlocksStay
<1>7. QED
  BY <1>3, <1>4, <1>5, <1>6, SeenToKept

\* The innermost event is in the loop.
LEMMA IterateFacts ==
  ASSUME EveryInv, NEW e \in Every, Iterates(e)
  PROVE  /\ events # <<>> /\ Inner \in EventOf /\ Inner.block = NoBlock /\ Inner.n <= now
         /\ Inner.next \in 1..Len(scheduledEvery) /\ scheduledEvery[Inner.next] = e
         /\ Inner.in # "listeners"
         /\ \A x \in Inner.due : SeenTo(x, Inner) /\ x \in Every /\ x # NoBlock
<1>1. EveryTypeOK /\ events # <<>> /\ Inner.block = NoBlock /\ Inner.in \in Timing
      /\ e = scheduledEvery[Inner.next] /\ Inner.next \in DOMAIN scheduledEvery
  BY DEF EveryInv, Iterates, InPass
<1>2. Inner \in EventOf /\ Inner = events[Len(events)] /\ Len(events) \in 1..Len(events)
  BY <1>1, InnerOne
<1>3. Inner.n <= now /\ \A x \in Inner.due : SeenTo(x, Inner)
  BY <1>2 DEF EveryInv, DueSeenTo
<1>4. \A x \in Inner.due : x \in Every /\ x # NoBlock
  BY <1>2, FieldsAre, EveryAssumption
<1>5. Inner.next \in 1..Len(scheduledEvery)
  BY <1>1, EventsAre
<1>6. QED
  BY <1>1, <1>2, <1>3, <1>4, <1>5 DEF Timing

LEMMA LoopGoesOn ==
  ASSUME EveryInv, NEW e \in Every, Iterates(e), NEW f \in EventOf,
         f.in = Inner.in, f.n = Inner.n, f.due = Inner.due, f.next = Inner.next + 1,
         Inner.toRemove \subseteq f.toRemove,
         \/ stopped'[e] \/ e \in f.toRemove \/ f.block = e
         \/ ~IsDue(e, Inner.in, Inner.n),
         UNCHANGED <<scheduledEvery, timing, lastRun>>,
         \A x \in Every : stopped[x] => stopped'[x]
  PROVE  \A x \in f.due : SeenTo(x, f)'
<1>1. PICK g \in EventOf : g = Inner
  BY IterateFacts
<1>2. /\ g.block = NoBlock /\ g.next \in Nat /\ scheduledEvery[g.next] = e
      /\ \A x \in g.due : SeenTo(x, g) /\ x \in Every /\ x # NoBlock
  BY <1>1, IterateFacts, FieldsAre
<1> SUFFICES ASSUME NEW x \in f.due
             PROVE  SeenTo(x, f)'
  OBVIOUS
<1>3. x \in g.due /\ SeenTo(x, g) /\ x \in Every /\ x # NoBlock
  BY <1>1, <1>2
<1>4. CASE lastRun[x] >= g.n \/ stopped[x] \/ x \in g.toRemove
  BY <1>1, <1>3, <1>4 DEF SeenTo
<1>5. CASE /\ \E j \in 1..Len(scheduledEvery) : j >= g.next /\ scheduledEvery[j] = x
           /\ timing[x] = g.in /\ g.n >= lastRun[x] + Interval
  <2>1. PICK j \in 1..Len(scheduledEvery) : j >= g.next /\ scheduledEvery[j] = x
    BY <1>5
  <2>2. CASE j = g.next
    <3>1. x = e
      BY <1>2, <2>1, <2>2
    <3>2. stopped[e] \/ IsDue(e, g.in, g.n)
      BY <1>5, <3>1 DEF IsDue
    <3>3. stopped'[e] \/ e \in f.toRemove \/ f.block = e
      BY <1>1, <3>2
    <3>4. QED
      BY <3>1, <3>3 DEF SeenTo
  <2>3. CASE j # g.next
    <3>1. j \in 1..Len(scheduledEvery) /\ j >= f.next
      BY <1>1, <1>2, <2>1, <2>3
    <3>2. QED
      BY <1>1, <1>5, <2>1, <3>1 DEF SeenTo
  <2>4. QED
    BY <2>2, <2>3
<1>6. QED
  BY <1>2, <1>3, <1>4, <1>5 DEF SeenTo

LEMMA FindsStoppedKeeps ==
  ASSUME EveryInv, NEW e \in Every, FindsStopped(e)
  PROVE  EveryInv'
<1>1. /\ EveryTypeOK /\ Iterates(e) /\ stopped[e]
      /\ InnerIs([Advanced EXCEPT !.toRemove = @ \cup {e}])
      /\ UNCHANGED <<now, scheduledEvery, timing, lastRun, stopped, runsRemaining, setting>>
  BY DEF EveryInv, FindsStopped, fieldVars
<1>2. PICK g \in EventOf : g = Inner
  BY <1>1, IterateFacts
<1>3. PICK f : f = [Advanced EXCEPT !.toRemove = @ \cup {e}]
  OBVIOUS
<1>3a. PICK a : a = Advanced
  OBVIOUS
<1>3b. a \in EventOf /\ a.in = g.in /\ a.n = g.n /\ a.due = g.due /\ a.next = g.next + 1
       /\ a.toRemove = g.toRemove /\ a.block = g.block
  BY <1>2, <1>3a DEF Advanced, EventOf
<1>3c. f = [a EXCEPT !.toRemove = @ \cup {e}]
  BY <1>3, <1>3a
<1>4. f \in EventOf /\ f.in = g.in /\ f.n = g.n /\ f.due = g.due /\ f.next = g.next + 1
      /\ f.toRemove = g.toRemove \cup {e} /\ f.block = g.block
  BY <1>3b, <1>3c DEF EventOf
<1>5. \A x \in f.due : SeenTo(x, f)'
  BY <1>1, <1>2, <1>4, LoopGoesOn
<1>6. events # <<>> /\ f.n <= now /\ f.in # "listeners"
  BY <1>1, <1>2, <1>4, IterateFacts
<1>7. events' \in Seq(EventOf) /\ ListenersRunNoBlock' /\ DueSeenTo' /\ BlocksStay
  BY <1>1, <1>2, <1>3, <1>4, <1>5, <1>6, InnerGoesOn
<1>8. EveryTypeOK'
  BY <1>1, <1>7 DEF EveryTypeOK
<1>9. QED
  BY <1>1, <1>7, <1>8, CountsStay DEF EveryInv

LEMMA FindsOtherKeeps ==
  ASSUME EveryInv, NEW e \in Every, FindsOther(e)
  PROVE  EveryInv'
<1>1. /\ EveryTypeOK /\ Iterates(e) /\ ~IsDue(e, Inner.in, Inner.n) /\ InnerIs(Advanced)
      /\ UNCHANGED <<now, scheduledEvery, timing, lastRun, stopped, runsRemaining, setting>>
  BY DEF EveryInv, FindsOther, fieldVars
<1>2. PICK g \in EventOf : g = Inner
  BY <1>1, IterateFacts
<1>3. PICK f : f = Advanced
  OBVIOUS
<1>4. f \in EventOf /\ f.in = g.in /\ f.n = g.n /\ f.due = g.due /\ f.next = g.next + 1
      /\ f.toRemove = g.toRemove /\ f.block = g.block
  BY <1>2, <1>3 DEF Advanced, EventOf
<1>5. \A x \in f.due : SeenTo(x, f)'
  BY <1>1, <1>2, <1>4, LoopGoesOn
<1>6. events # <<>> /\ f.n <= now /\ f.in # "listeners"
  BY <1>1, <1>2, <1>4, IterateFacts
<1>7. events' \in Seq(EventOf) /\ ListenersRunNoBlock' /\ DueSeenTo' /\ BlocksStay
  BY <1>1, <1>2, <1>3, <1>4, <1>5, <1>6, InnerGoesOn
<1>8. EveryTypeOK'
  BY <1>1, <1>7 DEF EveryTypeOK
<1>9. QED
  BY <1>1, <1>7, <1>8, CountsStay DEF EveryInv

LEMMA FindsUsedUpKeeps ==
  ASSUME EveryInv, NEW e \in Every, FindsUsedUp(e)
  PROVE  EveryInv'
<1>1. /\ EveryTypeOK /\ Iterates(e) /\ InnerIs(Advanced)
      /\ stopped' = [stopped EXCEPT ![e] = TRUE]
      /\ UNCHANGED <<now, scheduledEvery, timing, lastRun, runsRemaining, setting>>
  BY DEF EveryInv, FindsUsedUp
<1>2. PICK g \in EventOf : g = Inner
  BY <1>1, IterateFacts
<1>3. PICK f : f = Advanced
  OBVIOUS
<1>4. f \in EventOf /\ f.in = g.in /\ f.n = g.n /\ f.due = g.due /\ f.next = g.next + 1
      /\ f.toRemove = g.toRemove /\ f.block = g.block
  BY <1>2, <1>3 DEF Advanced, EventOf
<1>4a. stopped'[e] /\ \A x \in Every : stopped[x] => stopped'[x]
  BY <1>1 DEF EveryTypeOK
<1>5. \A x \in f.due : SeenTo(x, f)'
  BY <1>1, <1>2, <1>4, <1>4a, LoopGoesOn
<1>6. events # <<>> /\ f.n <= now /\ f.in # "listeners"
  BY <1>1, <1>2, <1>4, IterateFacts
<1>7. events' \in Seq(EventOf) /\ ListenersRunNoBlock' /\ DueSeenTo' /\ BlocksStay
  BY <1>1, <1>2, <1>3, <1>4, <1>4a, <1>5, <1>6, InnerGoesOn
<1>8. EveryTypeOK'
  BY <1>1, <1>7 DEF EveryTypeOK
<1>9. QED
  BY <1>1, <1>7, <1>8, CountsStay DEF EveryInv

LEMMA FindsDueKeeps ==
  ASSUME EveryInv, NEW e \in Every, FindsDue(e)
  PROVE  EveryInv'
<1>1. /\ EveryTypeOK /\ Iterates(e) /\ ~UsedUp(e) /\ InnerIs([Advanced EXCEPT !.block = e])
      /\ UNCHANGED <<now, scheduledEvery, timing, lastRun, stopped, runsRemaining>>
  BY DEF EveryInv, FindsDue, fieldVars
<1>2. PICK g \in EventOf : g = Inner
  BY <1>1, IterateFacts
<1>3. PICK f : f = [Advanced EXCEPT !.block = e]
  OBVIOUS
<1>3a. PICK a : a = Advanced
  OBVIOUS
<1>3b. a \in EventOf /\ a.in = g.in /\ a.n = g.n /\ a.due = g.due /\ a.next = g.next + 1
       /\ a.toRemove = g.toRemove /\ a.block = g.block
  BY <1>2, <1>3a DEF Advanced, EventOf
<1>3c. f = [a EXCEPT !.block = e]
  BY <1>3, <1>3a
<1>4. f \in EventOf /\ f.in = g.in /\ f.n = g.n /\ f.due = g.due /\ f.next = g.next + 1
      /\ f.toRemove = g.toRemove /\ f.block = e
  BY <1>3b, <1>3c DEF EventOf
<1>5. \A x \in f.due : SeenTo(x, f)'
  BY <1>1, <1>2, <1>4, LoopGoesOn
<1>6. events # <<>> /\ f.n <= now /\ f.in # "listeners" /\ g.block = NoBlock
  BY <1>1, <1>2, <1>4, IterateFacts
<1>7. events' \in Seq(EventOf) /\ ListenersRunNoBlock' /\ DueSeenTo'
  BY <1>1, <1>2, <1>3, <1>4, <1>5, <1>6, InnerGoesOn
<1>8. PICK n \in Nat : n = Len(events) /\ n \in 1..n /\ g = events[n]
  BY <1>2, <1>6, InnerOne DEF EveryInv
<1>9. /\ Len(events') = n /\ events'[n] = f /\ \A i \in 1..n : i # n => events'[i] = events[i]
  BY <1>1, <1>3, <1>4, <1>6, <1>8, InnerBecomes
<1>10. PICK was : was = setting[e]
  OBVIOUS
<1>11. was \in [to : -1..MaxSet, runs : Nat, of : {"idle", "running"}]
  BY <1>1, <1>10 DEF EveryTypeOK
<1>12. PICK set : set = IF was.to = -1 THEN was
                        ELSE IF IsRunning(e) THEN Unset
                        ELSE [was EXCEPT !.runs = @ + 1]
  OBVIOUS
<1>13. setting' = [setting EXCEPT ![e] = set]
  BY <1>10, <1>12 DEF FindsDue
<1>14. set \in [to : -1..MaxSet, runs : Nat, of : {"idle", "running"}]
  BY <1>11, <1>12, EveryNumbers DEF Unset
<1>15. EveryTypeOK'
  BY <1>1, <1>7, <1>13, <1>14 DEF EveryTypeOK
<1>16. e # NoBlock /\ (EventRuns(e) <=> IsRunning(e))
  BY <1>1, EveryAssumption, EventsAre DEF EventRuns, IsRunning
<1>17. RemainingCounts'
  <2>1. setting'[e] = set /\ \A x \in Every : x # e => setting'[x] = setting[x]
    BY <1>1, <1>13 DEF EveryTypeOK
  <2>2. ASSUME NEW x \in Every, x # e
        PROVE  /\ EventRuns(x)' <=> EventRuns(x)
               /\ \A i \in 1..n : events'[i].block = x => events[i].block = x
    <3>1. x # NoBlock
      BY EveryAssumption
    <3>2. QED
      BY <1>4, <1>6, <1>8, <1>9, <2>2, <3>1 DEF EventRuns
  <2>3. EventRuns(e)'
    BY <1>4, <1>8, <1>9 DEF EventRuns
  <2> SUFFICES ASSUME NEW x \in Every, setting'[x].to # -1, setting'[x].of = "idle"
               PROVE  /\ EventRuns(x)' =>
                           /\ runsRemaining[x] = setting'[x].to - setting'[x].runs + 1
                           /\ runsRemaining[x] >= 1
                           /\ \A i, j \in 1..n :
                                events'[i].block = x /\ events'[j].block = x => i = j
                      /\ ~EventRuns(x)' =>
                           /\ runsRemaining[x] = setting'[x].to - setting'[x].runs
                           /\ runsRemaining[x] >= 0
    BY <1>1, <1>9 DEF RemainingCounts
  <2>4. CASE x # e
    <3>1. (\A i, j \in 1..n : events[i].block = x /\ events[j].block = x => i = j)
          => (\A i, j \in 1..n : events'[i].block = x /\ events'[j].block = x => i = j)
      BY <2>2, <2>4
    <3>2. setting'[x] = setting[x]
      BY <2>1, <2>4
    <3>3. QED
      BY <1>8, <2>2, <2>4, <3>1, <3>2 DEF EveryInv, RemainingCounts
  <2>5. CASE x = e
    <3>1. was.to # -1 /\ ~IsRunning(e) /\ set = [was EXCEPT !.runs = @ + 1]
      BY <1>12, <2>1, <2>5 DEF Unset
    <3>2. set.to = was.to /\ set.runs = was.runs + 1 /\ set.of = was.of /\ was.of = "idle"
      BY <1>11, <2>1, <2>5, <3>1
    <3>3. runsRemaining[e] = was.to - was.runs /\ runsRemaining[e] >= 0
      BY <1>10, <1>16, <3>1, <3>2 DEF EveryInv, RemainingCounts
    <3>4. was.to \in Int /\ was.runs \in Int
      BY <1>11, EveryNumbers
    <3>5. runsRemaining[e] = set.to - set.runs + 1 /\ runsRemaining[e] >= 1
      BY <1>1, <3>2, <3>3, <3>4 DEF UsedUp
    <3>6. \A i \in 1..n : events'[i].block = e => i = n
      BY <1>8, <1>9, <1>16, <3>1 DEF EventRuns
    <3>7. QED
      BY <2>1, <2>3, <2>5, <3>5, <3>6
  <2>6. QED
    BY <2>4, <2>5
<1>18. QED
  BY <1>7, <1>15, <1>17 DEF EveryInv

\* The block of the innermost event ends: facts that the two ways share.
LEMMA BlockFacts ==
  ASSUME EveryInv, events # <<>>, Inner.block # NoBlock
  PROVE  /\ Inner \in EventOf /\ Inner.block \in Every /\ Inner.in # "listeners"
         /\ Inner.n <= now /\ \A x \in Inner.due : SeenTo(x, Inner) /\ x \in Every
         /\ Len(events) \in 1..Len(events) /\ Inner = events[Len(events)]
<1>1. Inner \in EventOf /\ Inner = events[Len(events)] /\ Len(events) \in 1..Len(events)
  BY InnerOne DEF EveryInv
<1>2. Inner.block \in Every /\ \A x \in Inner.due : x \in Every
  BY <1>1, FieldsAre
<1>3. Inner.in # "listeners" /\ Inner.n <= now /\ \A x \in Inner.due : SeenTo(x, Inner)
  BY <1>1 DEF EveryInv, DueSeenTo, ListenersRunNoBlock
<1>4. QED
  BY <1>1, <1>2, <1>3

\* Where the block of the innermost event has ended, the others run as before.
LEMMA BlockEnds ==
  ASSUME EveryInv, events # <<>>, NEW e \in Every, e = Inner.block, NEW f \in EventOf, f.block = NoBlock,
         InnerIs(f)
  PROVE  /\ EventRuns(e)
         /\ \A x \in Every : x # e => (EventRuns(x)' <=> EventRuns(x))
         /\ \A x \in Every : \A i \in 1..Len(events') :
              events'[i].block = x => i \in 1..Len(events) /\ events[i].block = x
         /\ (\A i, j \in 1..Len(events) : events[i].block = e /\ events[j].block = e => i = j)
              => ~EventRuns(e)'
<1>1. PICK n \in Nat : n = Len(events) /\ n \in 1..n /\ Inner = events[n]
  BY InnerOne DEF EveryInv
<1>2. Len(events') = n /\ events'[n] = f /\ \A i \in 1..n : i # n => events'[i] = events[i]
  BY <1>1, InnerBecomes DEF EveryInv
<1>3. EventRuns(e)
  BY <1>1 DEF EventRuns
<1>4. \A x \in Every : x # NoBlock
  BY EveryAssumption
<1>5. \A i \in 1..n : i # n => events'[i].block = events[i].block
  BY <1>2
<1>6. \A x \in Every : \A i \in 1..n : events'[i].block = x => events[i].block = x /\ i # n
  BY <1>2, <1>4, <1>5
<1>7. ASSUME NEW x \in Every, x # e
      PROVE  EventRuns(x)' <=> EventRuns(x)
  BY <1>1, <1>2, <1>5, <1>6, <1>7 DEF EventRuns
<1>8. ASSUME \A i, j \in 1..n : events[i].block = e /\ events[j].block = e => i = j
      PROVE  ~EventRuns(e)'
  BY <1>1, <1>2, <1>6, <1>8 DEF EventRuns
<1>9. QED
  BY <1>1, <1>2, <1>3, <1>6, <1>7, <1>8

LEMMA BlockReturnsKeeps ==
  ASSUME EveryInv, BlockReturns
  PROVE  EveryInv'
<1>1. PICK g : g = Inner
  OBVIOUS
<1>2. PICK e : e = g.block
  OBVIOUS
<1>3. PICK f : f = [g EXCEPT !.block = NoBlock]
  OBVIOUS
<1>4. /\ EveryTypeOK /\ events # <<>> /\ e # NoBlock
      /\ UNCHANGED <<now, scheduledEvery, timing, stopped, setting>>
      /\ InnerIs(f) /\ lastRun' = [lastRun EXCEPT ![e] = now]
      /\ runsRemaining' = [runsRemaining EXCEPT ![e] = Remaining(runsRemaining[e])]
  BY <1>1, <1>2, <1>3 DEF EveryInv, BlockReturns
<1>5. g \in EventOf /\ e \in Every /\ g.in # "listeners" /\ g.n <= now
      /\ \A x \in g.due : SeenTo(x, g) /\ x \in Every
  BY <1>1, <1>2, <1>4, BlockFacts
<1>6. f \in EventOf /\ f.in = g.in /\ f.n = g.n /\ f.due = g.due /\ f.next = g.next
      /\ f.toRemove = g.toRemove /\ f.block = NoBlock
  BY <1>3, <1>5 DEF EventOf
<1>7. lastRun'[e] = now /\ \A x \in Every : lastRun'[x] = lastRun[x] \/ lastRun'[x] = now
  BY <1>4, <1>5 DEF EveryTypeOK
<1>8. \A x \in Every : x # e => lastRun'[x] = lastRun[x]
  BY <1>4, <1>5 DEF EveryTypeOK
<1>9. ASSUME NEW x \in f.due
      PROVE  SeenTo(x, f)'
  <2>1. x \in g.due /\ SeenTo(x, g) /\ x \in Every
    BY <1>5, <1>6, <1>9
  <2>2. CASE x = e
    BY <1>5, <1>6, <1>7, <2>2 DEF SeenTo
  <2>3. CASE x # e
    BY <1>2, <1>4, <1>6, <1>8, <2>1, <2>3 DEF SeenTo
  <2>4. QED
    BY <2>2, <2>3
<1>10. events' \in Seq(EventOf) /\ ListenersRunNoBlock' /\ DueSeenTo'
  BY <1>4, <1>5, <1>6, <1>7, <1>9, InnerGoesOn
<1>11. Remaining(runsRemaining[e]) \in -1..MaxSet
  BY <1>4, <1>5, EveryNumbers DEF EveryTypeOK, Remaining
<1>12. now \in 0..MaxClock
  BY <1>4, EveryNumbers DEF EveryTypeOK
<1>13. EveryTypeOK'
  BY <1>4, <1>10, <1>11, <1>12 DEF EveryTypeOK
<1>14. /\ EventRuns(e)
       /\ \A x \in Every : x # e => (EventRuns(x)' <=> EventRuns(x))
       /\ \A x \in Every : \A i \in 1..Len(events') :
            events'[i].block = x => i \in 1..Len(events) /\ events[i].block = x
       /\ (\A i, j \in 1..Len(events) : events[i].block = e /\ events[j].block = e => i = j)
            => ~EventRuns(e)'
  BY <1>1, <1>2, <1>4, <1>5, <1>6, BlockEnds
<1>15. RemainingCounts'
  <2> SUFFICES ASSUME NEW x \in Every, setting[x].to # -1, setting[x].of = "idle"
               PROVE  /\ EventRuns(x)' =>
                           /\ runsRemaining'[x] = setting[x].to - setting[x].runs + 1
                           /\ runsRemaining'[x] >= 1
                           /\ \A i, j \in 1..Len(events') :
                                events'[i].block = x /\ events'[j].block = x => i = j
                      /\ ~EventRuns(x)' =>
                           /\ runsRemaining'[x] = setting[x].to - setting[x].runs
                           /\ runsRemaining'[x] >= 0
    BY <1>4 DEF RemainingCounts
  <2>1. CASE x = e
    <3>1. /\ runsRemaining[e] = setting[e].to - setting[e].runs + 1 /\ runsRemaining[e] >= 1
          /\ \A i, j \in 1..Len(events) : events[i].block = e /\ events[j].block = e => i = j
      BY <1>14, <2>1 DEF EveryInv, RemainingCounts
    <3>2. runsRemaining[e] \in Int /\ setting[e].to \in Int /\ setting[e].runs \in Int
      BY <1>4, <1>5, EveryNumbers DEF EveryTypeOK
    <3>3. runsRemaining'[e] = runsRemaining[e] - 1
      BY <1>4, <1>5, <3>1, <3>2 DEF EveryTypeOK, Remaining
    <3>4. runsRemaining'[e] = setting[e].to - setting[e].runs /\ runsRemaining'[e] >= 0
      BY <3>1, <3>2, <3>3
    <3>5. QED
      BY <1>14, <2>1, <3>1, <3>4
  <2>2. CASE x # e
    <3>1. runsRemaining'[x] = runsRemaining[x] /\ (EventRuns(x)' <=> EventRuns(x))
      BY <1>4, <1>14, <2>2 DEF EveryTypeOK
    <3>2. (\A i, j \in 1..Len(events) : events[i].block = x /\ events[j].block = x => i = j)
          => (\A i, j \in 1..Len(events') : events'[i].block = x /\ events'[j].block = x => i = j)
      BY <1>14
    <3>3. QED
      BY <3>1, <3>2 DEF EveryInv, RemainingCounts
  <2>3. QED
    BY <2>1, <2>2
<1>16. QED
  BY <1>10, <1>13, <1>15 DEF EveryInv

LEMMA BlockThrowsKeeps ==
  ASSUME EveryInv, BlockThrows
  PROVE  EveryInv'
<1>1. PICK g : g = Inner
  OBVIOUS
<1>2. PICK e : e = g.block
  OBVIOUS
<1>3. PICK f : f = [g EXCEPT !.block = NoBlock, !.toRemove = @ \cup {e}]
  OBVIOUS
<1>4. /\ EveryTypeOK /\ events # <<>> /\ e # NoBlock
      /\ UNCHANGED <<now, scheduledEvery, timing, lastRun, stopped, runsRemaining>>
      /\ InnerIs(f) /\ setting' = [setting EXCEPT ![e] = Unset]
  BY <1>1, <1>2, <1>3 DEF EveryInv, BlockThrows, fieldVars
<1>5. g \in EventOf /\ e \in Every /\ g.in # "listeners" /\ g.n <= now
      /\ \A x \in g.due : SeenTo(x, g) /\ x \in Every
  BY <1>1, <1>2, <1>4, BlockFacts
<1>6. f \in EventOf /\ f.in = g.in /\ f.n = g.n /\ f.due = g.due /\ f.next = g.next
      /\ f.toRemove = g.toRemove \cup {e} /\ f.block = NoBlock
  BY <1>3, <1>5 DEF EventOf
<1>7. ASSUME NEW x \in f.due
      PROVE  SeenTo(x, f)'
  BY <1>2, <1>4, <1>5, <1>6, <1>7 DEF SeenTo
<1>8. events' \in Seq(EventOf) /\ ListenersRunNoBlock' /\ DueSeenTo'
  BY <1>4, <1>5, <1>6, <1>7, InnerGoesOn
<1>9. Unset \in [to : -1..MaxSet, runs : Nat, of : {"idle", "running"}]
  BY EveryNumbers DEF Unset
<1>10. EveryTypeOK'
  BY <1>4, <1>8, <1>9 DEF EveryTypeOK
<1>11. /\ EventRuns(e)
       /\ \A x \in Every : x # e => (EventRuns(x)' <=> EventRuns(x))
       /\ \A x \in Every : \A i \in 1..Len(events') :
            events'[i].block = x => i \in 1..Len(events) /\ events[i].block = x
  BY <1>1, <1>2, <1>4, <1>5, <1>6, BlockEnds
<1>12. RemainingCounts'
  <2> SUFFICES ASSUME NEW x \in Every, setting'[x].to # -1, setting'[x].of = "idle"
               PROVE  /\ EventRuns(x)' =>
                           /\ runsRemaining[x] = setting'[x].to - setting'[x].runs + 1
                           /\ runsRemaining[x] >= 1
                           /\ \A i, j \in 1..Len(events') :
                                events'[i].block = x /\ events'[j].block = x => i = j
                      /\ ~EventRuns(x)' =>
                           /\ runsRemaining[x] = setting'[x].to - setting'[x].runs
                           /\ runsRemaining[x] >= 0
    BY <1>4 DEF RemainingCounts
  <2>1. x # e
    BY <1>4, <1>5 DEF EveryTypeOK, Unset
  <2>2. setting'[x] = setting[x] /\ (EventRuns(x)' <=> EventRuns(x))
    BY <1>4, <1>11, <2>1 DEF EveryTypeOK
  <2>3. (\A i, j \in 1..Len(events) : events[i].block = x /\ events[j].block = x => i = j)
        => (\A i, j \in 1..Len(events') : events'[i].block = x /\ events'[j].block = x => i = j)
    BY <1>11
  <2>4. QED
    BY <2>2, <2>3 DEF EveryInv, RemainingCounts
<1>13. QED
  BY <1>8, <1>10, <1>12 DEF EveryInv

\* The innermost event ends, in which no block runs.
LEMMA InnerEnds ==
  ASSUME EveryInv, events # <<>>, Inner.block = NoBlock, events' = Outer,
         UNCHANGED <<now, scheduledEvery, timing, lastRun, stopped, runsRemaining, setting>>
  PROVE  EveryInv'
<1>1. PICK n \in Nat : n = Len(events) /\ n >= 1 /\ Inner = events[n]
  BY InnerOne DEF EveryInv
<1>2. /\ EveryTypeOK /\ events' \in Seq(EventOf) /\ Len(events') = n - 1
      /\ \A i \in 1..(n - 1) : events'[i] = events[i] /\ i \in 1..n
  BY <1>1, InnerOne DEF EveryInv
<1>3. \A i \in 1..n : i = n \/ i \in 1..(n - 1)
  BY <1>1
<1>4. EveryTypeOK'
  BY <1>2 DEF EveryTypeOK
<1>5. BlocksStay
  BY <1>1, <1>2, <1>3 DEF BlocksStay
<1>6. SeenToAnew
  BY <1>1, <1>2 DEF SeenToAnew
<1>7. ListenersRunNoBlock'
  BY <1>1, <1>2 DEF EveryInv, ListenersRunNoBlock
<1>8. QED
  BY <1>4, <1>5, <1>6, <1>7, CountsStay, SeenToKept DEF EveryInv

LEMMA PassIsBrokenKeeps ==
  ASSUME EveryInv, PassIsBroken
  PROVE  EveryInv'
BY InnerEnds DEF PassIsBroken, InPass, fieldVars

LEMMA ListenerThrowsKeeps ==
  ASSUME EveryInv, ListenerThrows
  PROVE  EveryInv'
<1>1. events # <<>> /\ Inner.in = "listeners" /\ events' = Outer
      /\ UNCHANGED <<now, scheduledEvery, timing, lastRun, stopped, runsRemaining, setting>>
  BY DEF ListenerThrows, fieldVars
<1>2. Inner.block = NoBlock
  BY <1>1, InnerOne DEF EveryInv, ListenersRunNoBlock
<1>3. QED
  BY <1>1, <1>2, InnerEnds

LEMMA ListenersReturnKeeps ==
  ASSUME EveryInv, ListenersReturn
  PROVE  EveryInv'
<1>1. events # <<>> /\ Inner.in = "listeners" /\ InnerIs(Pass("AFTER")) /\ EveryTypeOK
      /\ UNCHANGED <<now, scheduledEvery, timing, lastRun, stopped, runsRemaining, setting>>
  BY DEF EveryInv, ListenersReturn, fieldVars
<1>2. Inner.block = NoBlock
  BY <1>1, InnerOne DEF EveryInv, ListenersRunNoBlock
<1>3. PICK f \in EventOf : /\ f = Pass("AFTER") /\ f.in = "AFTER" /\ f.block = NoBlock /\ f.n = now
                         /\ \A e \in f.due : SeenTo(e, f)'
  BY <1>1, PassBegins DEF Timing
<1>4. f.n <= now
  BY <1>1, <1>3, EveryNumbers DEF EveryTypeOK
<1>5. events' \in Seq(EventOf) /\ ListenersRunNoBlock' /\ DueSeenTo' /\ BlocksStay
  BY <1>1, <1>2, <1>3, <1>4, InnerGoesOn
<1>6. EveryTypeOK'
  BY <1>1, <1>5 DEF EveryTypeOK
<1>7. QED
  BY <1>1, <1>5, <1>6, CountsStay DEF EveryInv

\* A pass that is over changes the list, or not, and perhaps leaves the listeners
\* to run.
LEMMA PassEndsList ==
  ASSUME EveryTypeOK, PassEnds
  PROVE  scheduledEvery' \in Seq(Every)
<1> DEFINE kept == {i \in DOMAIN scheduledEvery : scheduledEvery[i] \notin Inner.toRemove}
<1>1. /\ Len(scheduledEvery) \in Nat /\ DOMAIN scheduledEvery = 1..Len(scheduledEvery)
      /\ \A i \in 1..Len(scheduledEvery) : scheduledEvery[i] \in Every
  BY EventsAre
<1>2. IsFiniteSet(1..Len(scheduledEvery))
  BY <1>1, FS_Interval
<1>3. IsFiniteSet(kept)
  BY <1>1, <1>2, FS_Subset
<1>4. PICK n \in Nat : n = Cardinality(kept)
  BY <1>3, FS_CardinalityType
<1>5. PICK was \in [1..n -> kept] : scheduledEvery' = [i \in 1..n |-> scheduledEvery[was[i]]]
  BY <1>4 DEF PassEnds
<1>6. [i \in 1..n |-> scheduledEvery[was[i]]] \in [1..n -> Every]
  BY <1>1, <1>5
<1>7. QED
  BY <1>5, <1>6, FunctionIsSeq

LEMMA PassEndsKeeps ==
  ASSUME EveryInv, PassEnds
  PROVE  EveryInv'
<1>1. /\ EveryTypeOK /\ events # <<>> /\ Inner.block = NoBlock
      /\ UNCHANGED <<now, timing, lastRun, stopped, runsRemaining, setting>>
  BY DEF EveryInv, PassEnds, PassIsOver, InPass, fieldVars
<1>2. scheduledEvery' \in Seq(Every)
  BY <1>1, PassEndsList
<1>3. PICK n \in Nat : n = Len(events) /\ n >= 1 /\ Inner = events[n]
  BY <1>1, InnerOne
<1>4. PICK outer \in Seq(EventOf) : outer = Outer
  BY <1>1, InnerOne
<1>5. /\ Len(outer) = n - 1 /\ \A i \in 1..(n - 1) : outer[i] = events[i] /\ i \in 1..n
  BY <1>1, <1>3, <1>4, InnerOne
<1>6. PICK before : before = IF scheduledEvery' = scheduledEvery THEN outer ELSE Changed(outer)
  OBVIOUS
<1>7. events' = IF Inner.in = "BEFORE" THEN Append(before, Distributing) ELSE before
  BY <1>4, <1>6 DEF PassEnds
<1>8. /\ Changed(outer) \in Seq(EventOf) /\ Len(Changed(outer)) = n - 1
      /\ \A i \in 1..(n - 1) :
           /\ Changed(outer)[i].in = outer[i].in /\ Changed(outer)[i].block = outer[i].block
           /\ Changed(outer)[i].n = outer[i].n
           /\ outer[i].in = "listeners" => Changed(outer)[i].due = outer[i].due
           /\ outer[i].in # "listeners" => Changed(outer)[i].due = {}
  BY <1>5, ChangedType
\* What becomes of the outer events.
<1>9. /\ before \in Seq(EventOf) /\ Len(before) = n - 1
      /\ \A i \in 1..(n - 1) :
           /\ before[i].in = events[i].in /\ before[i].block = events[i].block
           /\ before[i].n = events[i].n
           /\ events[i].in = "listeners" => before[i].due = events[i].due
      /\ \/ /\ scheduledEvery' = scheduledEvery
            /\ \A i \in 1..(n - 1) : before[i] = events[i]
         \/ \A i \in 1..(n - 1) : before[i].due = {}
  <2>1. CASE scheduledEvery' = scheduledEvery
    BY <1>5, <1>6, <2>1
  <2>2. CASE scheduledEvery' # scheduledEvery
    <3>1. before = Changed(outer)
      BY <1>6, <2>2
    <3>2. \A i \in 1..(n - 1) : outer[i].in = "listeners" => outer[i].due = {}
      BY <1>3, <1>5 DEF EveryInv, ListenersRunNoBlock
    <3>3. QED
      BY <1>5, <1>8, <3>1, <3>2
  <2>3. QED
    BY <2>1, <2>2
<1>10. PICK d : d = Distributing
  OBVIOUS
<1>11. d \in EventOf /\ d.in = "listeners" /\ d.block = NoBlock /\ d.due = {} /\ d.n = 0
  BY <1>10, EveryNumbers DEF Distributing, EventOf
<1>12. /\ Append(before, d) \in Seq(EventOf) /\ Len(Append(before, d)) = n
       /\ \A i \in 1..(n - 1) : Append(before, d)[i] = before[i]
       /\ Append(before, d)[n] = d
  <2> HIDE DEF EventOf
  <2>1. n - 1 + 1 = n
    OBVIOUS
  <2>2. QED
    BY <1>9, <1>11, <2>1, Pushed
<1>13. \A i \in 1..n : i = n \/ i \in 1..(n - 1)
  BY <1>3
<1>14. /\ events' \in Seq(EventOf) /\ Len(events') \in {n - 1, n}
       /\ \A i \in 1..(n - 1) : i \in 1..Len(events') /\ events'[i] = before[i]
       /\ \A i \in 1..Len(events') : i \in 1..(n - 1) \/ (i = n /\ events'[i] = d)
  <2>1. CASE Inner.in = "BEFORE"
    <3>1. events' = Append(before, d)
      BY <1>7, <1>10, <2>1
    <3>2. QED
      BY <1>5, <1>12, <1>13, <3>1
  <2>2. CASE Inner.in # "BEFORE"
    <3>1. events' = before
      BY <1>7, <2>2
    <3>2. QED
      BY <1>9, <3>1
  <2>3. QED
    BY <2>1, <2>2
<1>15. EveryTypeOK'
  BY <1>1, <1>2, <1>14 DEF EveryTypeOK
<1>16. BlocksStay
  <2>1. \A i \in 1..(n - 1) : events'[i].block = events[i].block
    BY <1>9, <1>14
  <2>2. events[n].block = NoBlock /\ d.block = NoBlock
    BY <1>1, <1>3, <1>11
  <2>3. \A i \in 1..(n - 1) : i \in 1..n /\ i \in 1..Len(events')
    BY <1>5, <1>14
  <2>4. \A i \in 1..Len(events') : events'[i].block = NoBlock \/ i \in 1..(n - 1)
    BY <1>14, <2>2
  <2>5. \A i \in 1..n : events[i].block = NoBlock \/ i \in 1..(n - 1)
    BY <1>13, <2>2
  <2>6. QED
    BY <1>3, <2>1, <2>3, <2>4, <2>5 DEF BlocksStay
<1>17. ListenersRunNoBlock'
  <2>1. \A i \in 1..(n - 1) : events[i].in = "listeners" => events[i].block = NoBlock /\ events[i].due = {}
    BY <1>3, <1>5 DEF EveryInv, ListenersRunNoBlock
  <2>2. QED
    BY <1>9, <1>11, <1>14, <2>1 DEF ListenersRunNoBlock
<1>18. now \in Nat
  BY <1>1, EveryNumbers DEF EveryTypeOK
<1>19. DueSeenTo'
  <2>1. CASE scheduledEvery' = scheduledEvery /\ \A i \in 1..(n - 1) : before[i] = events[i]
    <3>1. d.n <= now /\ \A e \in d.due : SeenTo(e, d)'
      BY <1>11, <1>18
    <3>2. SeenToAnew
      BY <1>3, <1>5, <1>11, <1>14, <2>1, <3>1 DEF SeenToAnew
    <3>3. QED
      BY <1>1, <2>1, <3>2, SeenToKept
  <2>2. CASE \A i \in 1..(n - 1) : before[i].due = {}
    <3>1. \A i \in 1..(n - 1) : events[i].n <= now
      BY <1>3, <1>5 DEF EveryInv, DueSeenTo
    <3>2. \A i \in 1..Len(events') : events'[i].due = {} /\ events'[i].n <= now
      <4>1. \A i \in 1..(n - 1) : events'[i].due = {} /\ events'[i].n = events[i].n
        BY <1>9, <1>14, <2>2
      <4>2. \A i \in 1..(n - 1) : events'[i].due = {} /\ events'[i].n <= now
        BY <3>1, <4>1
      <4>3. d.due = {} /\ d.n <= now
        BY <1>11, <1>18
      <4>4. \A i \in 1..Len(events') : i \in 1..(n - 1) \/ events'[i] = d
        BY <1>14
      <4>5. QED
        BY ONLY <4>2, <4>3, <4>4
    <3>3. QED
      BY <1>1, <3>2 DEF DueSeenTo
  <2>3. QED
    BY <1>9, <2>1, <2>2
<1>20. QED
  BY <1>1, <1>15, <1>16, <1>17, <1>19, CountsStay DEF EveryInv

LEMMA EveryStarts ==
  ASSUME EveryInit
  PROVE  EveryInv
<1>1. <<>> \in Seq(Every) /\ <<>> \in Seq(EventOf) /\ Len(<<>>) = 0 /\ Len(events) = 0
  BY DEF EveryInit
<1>2. Interval \in Interval..MaxClock /\ 0 \in 0..MaxClock /\ -1 \in -1..MaxSet /\ "BEFORE" \in Timing
  BY EveryNumbers DEF Timing
<1>3. Unset \in [to : -1..MaxSet, runs : Nat, of : {"idle", "running"}] /\ Unset.to = -1
  BY <1>2 DEF Unset
<1>4. EveryTypeOK
  BY <1>1, <1>2, <1>3 DEF EveryInit, EveryTypeOK
<1>5. RemainingCounts
  BY <1>3 DEF EveryInit, RemainingCounts
<1>6. ListenersRunNoBlock /\ DueSeenTo
  BY <1>1 DEF ListenersRunNoBlock, DueSeenTo
<1>7. QED
  BY <1>4, <1>5, <1>6 DEF EveryInv

LEMMA EverySteps ==
  ASSUME EveryInv, [EveryNext]_everyVars
  PROVE  EveryInv'
<1>1. CASE UNCHANGED everyVars
  <2>1. UNCHANGED <<now, scheduledEvery, timing, lastRun, stopped, runsRemaining, events, setting>>
    BY <1>1 DEF everyVars
  <2>2. now' \in Nat /\ now' >= now
    BY <2>1, EveryNumbers DEF EveryInv, EveryTypeOK
  <2>3. EveryTypeOK' /\ RemainingCounts'
    BY <2>1 DEF EveryInv, EveryTypeOK, RemainingCounts, EventRuns
  <2>4. QED
    BY <2>1, <2>2, <2>3, PassesStay DEF EveryInv
<1>2. ASSUME NEW e \in Every, NEW t \in Timing, Schedule(e, t)
      PROVE  EveryInv'
  BY <1>2, ScheduleKeeps
<1>3. ASSUME NEW e \in Every, NEW k \in 0..MaxSet, SetRunsRemaining(e, k)
      PROVE  EveryInv'
  BY <1>3, SetRunsRemainingKeeps
<1>4. ASSUME NEW e \in Every,
             Stop(e) \/ FindsStopped(e) \/ FindsOther(e) \/ FindsUsedUp(e) \/ FindsDue(e)
      PROVE  EveryInv'
  BY <1>4, StopKeeps, FindsStoppedKeeps, FindsOtherKeeps, FindsUsedUpKeeps, FindsDueKeeps
<1>5. CASE TimePasses \/ EventBegins \/ BlockReturns \/ BlockThrows \/ PassEnds \/ PassIsBroken
           \/ ListenersReturn \/ ListenerThrows
  BY <1>5, TimePassesKeeps, EventBeginsKeeps, BlockReturnsKeeps, BlockThrowsKeeps, PassEndsKeeps,
     PassIsBrokenKeeps, ListenersReturnKeeps, ListenerThrowsKeeps
<1>6. QED
  BY <1>1, <1>2, <1>3, <1>4, <1>5 DEF EveryNext

LEMMA EveryAlways == EverySpec => []EveryInv
<1>1. EveryInit => EveryInv
  BY EveryStarts
<1>2. EveryInv /\ [EveryNext]_everyVars => EveryInv'
  BY EverySteps
<1>3. QED
  BY <1>1, <1>2, PTL DEF EverySpec

\* A repeated block runs no more often than it was last set to run, when it was set
\* outside of its own run: the count goes down when it is found due, before it runs, and
\* blocks that set one another or stop meanwhile change nothing about that.
THEOREM SetRunsAreKept == EverySpec => []RunsNoMoreThanSet
<1>1. EveryInv => RunsNoMoreThanSet
  <2> SUFFICES ASSUME EveryInv, NEW e \in Every, setting[e].to # -1, setting[e].of = "idle"
               PROVE  setting[e].runs <= setting[e].to
    BY DEF RunsNoMoreThanSet
  <2>1. runsRemaining[e] \in Int /\ setting[e].to \in Int /\ setting[e].runs \in Int
    BY EveryNumbers DEF EveryInv, EveryTypeOK
  <2>2. \/ runsRemaining[e] = setting[e].to - setting[e].runs + 1 /\ runsRemaining[e] >= 1
        \/ runsRemaining[e] = setting[e].to - setting[e].runs /\ runsRemaining[e] >= 0
    BY DEF EveryInv, RemainingCounts
  <2>3. QED
    BY <2>1, <2>2
<1>2. QED
  BY <1>1, EveryAlways, PTL

\* A pass that reaches its end has passed over nobody: who was due when it began has run,
\* or was stopped, or is to be removed, though the blocks that run in it add others to the
\* list and begin passes of their own (Scheduler.java walks the list by its index).
THEOREM DueAreSeenTo == EverySpec => []NoneDueIsPassedOver
<1>1. EveryInv => NoneDueIsPassedOver
  <2> SUFFICES ASSUME EveryInv, PassIsOver, NEW e \in Inner.due
               PROVE  lastRun[e] >= Inner.n \/ stopped[e] \/ e \in Inner.toRemove
    BY DEF NoneDueIsPassedOver
  <2>1. EveryTypeOK /\ events # <<>> /\ Inner.block = NoBlock /\ Inner.next > Len(scheduledEvery)
    BY DEF EveryInv, PassIsOver, InPass
  <2>2. Inner \in EventOf /\ Inner = events[Len(events)] /\ Len(events) \in 1..Len(events)
    BY <2>1, InnerOne
  <2>3. SeenTo(e, Inner)
    BY <2>2 DEF EveryInv, DueSeenTo
  <2>4. e # NoBlock /\ Inner.next \in Nat
    BY <2>2, FieldsAre, EveryAssumption
  <2>5. Len(scheduledEvery) \in Nat
    BY <2>1, EventsAre
  <2>6. ~\E j \in 1..Len(scheduledEvery) : j >= Inner.next /\ scheduledEvery[j] = e
    BY <2>1, <2>4, <2>5
  <2>7. QED
    BY <2>1, <2>3, <2>4, <2>6 DEF SeenTo
<1>2. QED
  BY <1>1, EveryAlways, PTL
-------------------------------------------------------------------------------
(* All of them together.                                                     *)

LEMMA OneRuns ==
  ASSUME [PluginsNext]_<<loaderVars, dbVars, eventsVars, mnxVars, resmanVars, hashsetVars,
                         overrideVars, everyVars, running>>
  PROVE  /\ [LoaderNext]_<<vars, loader>> /\ [DbNext]_dbVars /\ [EventsNext]_eventsVars
         /\ [MnxNext]_mnxVars /\ [ResManNext]_resmanVars /\ [HashSetNext]_hashsetVars
         /\ [OverrideNext]_overrideVars /\ [EveryNext]_everyVars
<1> DEFINE Each(part) ==
      /\ part = "loader" \/ loaderVars' = loaderVars
      /\ part = "db" \/ dbVars' = dbVars
      /\ part = "events" \/ eventsVars' = eventsVars
      /\ part = "mnx" \/ mnxVars' = mnxVars
      /\ part = "resman" \/ resmanVars' = resmanVars
      /\ part = "hashset" \/ hashsetVars' = hashsetVars
      /\ part = "overrides" \/ overrideVars' = overrideVars
      /\ part = "every" \/ everyVars' = everyVars
<1>1. \A part : OthersStay(part) => Each(part)
  BY DEF OthersStay
<1>2. loaderVars' = loaderVars => UNCHANGED <<vars, loader>>
  BY DEF loaderVars
<1>3. CASE UNCHANGED <<loaderVars, dbVars, eventsVars, mnxVars, resmanVars, hashsetVars,
                       overrideVars, everyVars, running>>
  BY <1>2, <1>3
<1>4. CASE running = "loader" /\ LoaderNext /\ OthersStay("loader")
  BY <1>1, <1>4
<1>5. CASE running = "db" /\ DbNext /\ OthersStay("db")
  BY <1>1, <1>2, <1>5
<1>6. CASE running = "events" /\ EventsNext /\ OthersStay("events")
  BY <1>1, <1>2, <1>6
<1>7. CASE running = "mnx" /\ MnxNext /\ OthersStay("mnx")
  BY <1>1, <1>2, <1>7
<1>8. CASE running = "resman" /\ ResManNext /\ OthersStay("resman")
  BY <1>1, <1>2, <1>8
<1>9. CASE running = "hashset" /\ HashSetNext /\ OthersStay("hashset")
  BY <1>1, <1>2, <1>9
<1>10. CASE running = "overrides" /\ OverrideNext /\ OthersStay("overrides")
  BY <1>1, <1>2, <1>10
<1>11. CASE running = "every" /\ EveryNext /\ OthersStay("every")
  BY <1>1, <1>2, <1>11
<1>12. QED
  BY <1>3, <1>4, <1>5, <1>6, <1>7, <1>8, <1>9, <1>10, <1>11 DEF PluginsNext

\* Whatever part runs, each does only what it may do alone: every theorem about one
\* of them holds of all of them together.
THEOREM EachRunsAlone ==
  PluginsSpec => /\ LoaderSpec /\ DbSpec /\ EventsSpec /\ MnxSpec /\ ResManSpec /\ HashSetSpec
                 /\ OverrideSpec /\ EverySpec
<1>1. PluginsInit => /\ LoaderInit /\ DbInit /\ EventsInit /\ MnxInit /\ ResManInit /\ HashSetInit
                     /\ OverrideInit /\ EveryInit
  BY DEF PluginsInit
<1>2. [PluginsNext]_<<loaderVars, dbVars, eventsVars, mnxVars, resmanVars, hashsetVars,
                      overrideVars, everyVars, running>>
      => /\ [LoaderNext]_<<vars, loader>> /\ [DbNext]_dbVars /\ [EventsNext]_eventsVars
         /\ [MnxNext]_mnxVars /\ [ResManNext]_resmanVars /\ [HashSetNext]_hashsetVars
         /\ [OverrideNext]_overrideVars /\ [EveryNext]_everyVars
  BY OneRuns
<1>3. QED
  BY <1>1, <1>2, PTL DEF PluginsSpec, LoaderSpec, DbSpec, EventsSpec, MnxSpec, ResManSpec,
                         HashSetSpec, OverrideSpec, EverySpec

\* Every variable of the loader and of the plugins keeps its type, whichever runs.
THEOREM TypesAreKept == PluginsSpec => []PluginsTypeOK
<1>1. MnxInv => MnxTypeOK
  BY DEF MnxInv
<1>2. MemoryInv => ResManTypeOK
  BY DEF MemoryInv
<1>3. OverrideInv => OverrideTypeOK
  BY DEF OverrideInv
<1>4. EveryInv => EveryTypeOK
  BY DEF EveryInv
<1>5. /\ LoaderTypeOK /\ DbTypeOK /\ EventsTypeOK /\ MnxTypeOK /\ ResManTypeOK /\ HashSetTypeOK
      /\ OverrideTypeOK /\ EveryTypeOK
      => PluginsTypeOK
  BY DEF PluginsTypeOK
<1>6. QED
  BY <1>1, <1>2, <1>3, <1>4, <1>5, EachRunsAlone, LoaderTypeCorrect, DbTypeCorrect,
     EventsTypeCorrect, MnxAlways, MemoryAlways, HashSetTypeCorrect, OverrideAlways,
     EveryAlways, PTL
===============================================================================
