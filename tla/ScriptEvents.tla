----------------------------- MODULE ScriptEvents -----------------------------
(***************************************************************************)
(* The scripts that the Events and Chat plugins run from inside hooked     *)
(* functions of the server (events/HookFunc.cpp, events/NWNXEvents.cpp,    *)
(* chat/HookChat.cpp, chat/NWNXChat.cpp).  A script may itself do what is  *)
(* hooked, so that hooks are entered again while their scripts run; all    *)
(* they have to tell one activation from another is a global scriptRun in  *)
(* each plugin.                                                            *)
(*                                                                         *)
(* The hooks of the Events plugin differ in whether they set a target and  *)
(* in what they do with a bypass: one of each sort stands for the others.  *)
(* Left out: the other data of events, which is set and read as the target *)
(* is; the nodes of conversations; ValidateCharacter's return value.       *)
(***************************************************************************)
EXTENDS Naturals, Sequences

CONSTANTS
  Target,    \* objects an action may be aimed at
  MaxScripts,  \* bound: scripts running inside one another
  Handlers   \* bound: the kinds, one or all, whose script scripts set

Actions    == {"attack", "toggleMode", "examineItem", "saveChar"}
WithTarget == {"attack", "examineItem"}
Blockable  == {"attack", "toggleMode"}    \* in whose hooks bBypass_b is tested
Kinds      == Actions \cup {"destroyObject"}

ASSUME EventsAssumption ==
  /\ MaxScripts \in Nat
  /\ Handlers \subseteq SUBSET Kinds

VARIABLES
  eventScripts,   \* the kinds of events that have a script
  enableUnsafe,   \* whether destructors are hooked, from the configuration
  scriptRun,      \* of the Events plugin
  oTarget,        \* the target of the event
  nEventID,       \* the kind of the event
  bBypass,        \* whether a script asked for the event to be skipped
  bBypass_b,      \* the last answer of FireEvent to a hook that tests it
  chatScriptRun,  \* scriptRun of the Chat plugin
  suppressMsg,    \* whether a script asked for the message to be suppressed
  lastRet,        \* the last answer of Chat or CCMessage
  scripts,        \* the scripts running, innermost last
  outcome         \* history: what became of the last action or message

firingVars == <<eventScripts, enableUnsafe, scriptRun, oTarget, nEventID, bBypass, bBypass_b>>
chatVars  == <<chatScriptRun, suppressMsg, lastRet>>
eventsVars == <<firingVars, chatVars, scripts, outcome>>

\* A script: what it was run for, and (history) whether it, or one inside it,
\* asked for a bypass or suppression; and whether an object was destroyed
\* inside it, which resets the state it reads.
Activation(plugin, kind, target) ==
  [plugin |-> plugin, kind |-> kind, target |-> target, asked |-> FALSE, reset |-> FALSE]

TopScript    == scripts[Len(scripts)]
OuterScripts == SubSeq(scripts, 1, Len(scripts) - 1)

\* The innermost script of a plugin.
Innermost(plugin) ==
  CHOOSE d \in 1..Len(scripts) :
    scripts[d].plugin = plugin /\ \A e \in (d + 1)..Len(scripts) : scripts[e].plugin # plugin

\* What became of an action or message that had a script, or had none.
Done(a, skipped) ==
  [told |-> ~a.reset, asked |-> a.asked, blockable |-> a.kind \notin Kinds \ Blockable, skipped |-> skipped]
Untold(skipped) == [told |-> FALSE, asked |-> FALSE, blockable |-> FALSE, skipped |-> skipped]

EventsInit ==
  /\ eventScripts = Kinds        \* vir_events, for every kind
  /\ enableUnsafe \in BOOLEAN
  /\ scriptRun = FALSE
  /\ oTarget = "invalid"
  /\ nEventID = "none"
  /\ bBypass = FALSE
  /\ bBypass_b = FALSE
  /\ chatScriptRun = FALSE
  /\ suppressMsg = FALSE
  /\ lastRet = FALSE
  /\ scripts = <<>>
  /\ outcome = Untold(FALSE)
-------------------------------------------------------------------------------
(* Events.                                                                   *)

\* Mutant of BypassAtFire: what the last script asked for stays.
BypassLeft == bBypass

\* FireEvent begins with a fresh bypass.
BypassAtFire == FALSE

\* FireEvent, up to the script, inside those running.  Where there is none it has
\* answered 0, and the target and the kind of the event stay.
FireEvent(kind, target, running) ==
  /\ bBypass' = BypassAtFire
  /\ nEventID' = kind
  /\ IF kind \in eventScripts
     THEN /\ Len(scripts) < MaxScripts
          /\ scriptRun' = TRUE
          /\ scripts' = Append(running, Activation("events", kind, target))
          /\ UNCHANGED <<bBypass_b, outcome>>
     ELSE /\ bBypass_b' = IF kind \in {"saveChar", "destroyObject"} THEN bBypass_b ELSE FALSE
          /\ outcome' = Untold(FALSE)
          /\ scripts' = running
          /\ UNCHANGED scriptRun

\* Mutant of Fires: hooks do not look at scriptRun.
FiresAlways == TRUE

Fires == ~scriptRun

\* A hooked function of the server is called, with an object.  While an event's
\* script runs no event is fired, but the last answer of FireEvent is still
\* tested.
Act(kind, target) ==
  /\ \/ /\ Fires
        /\ oTarget' = IF kind \in WithTarget THEN target ELSE oTarget
        /\ FireEvent(kind, target, scripts)
     \/ /\ ~Fires
        /\ outcome' = Untold(kind \in Blockable /\ bBypass_b)
        /\ UNCHANGED <<scriptRun, oTarget, nEventID, bBypass, bBypass_b, scripts>>
  /\ UNCHANGED <<eventScripts, enableUnsafe, chatVars>>

\* The destructor's hook fires its event whatever runs.
DestroyObject ==
  /\ enableUnsafe
  /\ FireEvent("destroyObject", "invalid",
       [d \in 1..Len(scripts) |-> [scripts[d] EXCEPT !.reset = @ \/ scripts[d].plugin = "events"]])
  /\ UNCHANGED <<eventScripts, enableUnsafe, oTarget, chatVars>>

\* RunScript returns, and FireEvent with it; the hook goes on.
EventScriptEnds ==
  /\ scripts # <<>> /\ TopScript.plugin = "events"
  /\ scriptRun' = FALSE
  /\ oTarget' = "invalid"
  /\ nEventID' = "none"
  /\ bBypass_b' = IF TopScript.kind \in {"saveChar", "destroyObject"} THEN bBypass_b ELSE bBypass
  /\ outcome' = Done(TopScript, TopScript.kind \in Blockable /\ bBypass_b')
  /\ scripts' = OuterScripts
  /\ UNCHANGED <<eventScripts, enableUnsafe, bBypass, chatVars>>

\* SET_EVENT_HANDLER: from any script but an event's.
SetEventHandler(kinds, on) ==
  /\ ~scriptRun
  /\ eventScripts' = IF on THEN eventScripts \cup kinds ELSE eventScripts \ kinds
  /\ UNCHANGED <<enableUnsafe, scriptRun, oTarget, nEventID, bBypass, bBypass_b, chatVars, scripts, outcome>>

\* BYPASS: from an event's script, or from one of the Chat plugin inside it.
Bypass(b) ==
  /\ scripts # <<>>
  /\ scriptRun
  /\ bBypass' = b
  /\ scripts' = [scripts EXCEPT ![Innermost("events")].asked = b]
  /\ UNCHANGED <<eventScripts, enableUnsafe, scriptRun, oTarget, nEventID, bBypass_b, chatVars, outcome>>
-------------------------------------------------------------------------------
(* Chat.                                                                     *)

\* RunScript, for a message of a player or one of combat.
RunChatScript(kind) ==
  /\ Len(scripts) < MaxScripts
  /\ chatScriptRun' = TRUE
  /\ scripts' = Append(scripts, Activation("chat", kind, "invalid"))
  /\ UNCHANGED <<lastRet, outcome>>

\* Mutant of SuppressAtMessage: what the last script asked for stays.
SuppressLeft == suppressMsg

SuppressAtMessage == FALSE

\* ChatHookProc: a message is sent, by the server or by a script (SPEAK).  Who
\* sent it and the settings (LOGNPC, IGNORESILENT) decide whether it has a script.
ChatMessage(hasScript) ==
  /\ \/ /\ ~chatScriptRun
        /\ suppressMsg' = SuppressAtMessage
        /\ \/ hasScript /\ RunChatScript("message")
           \/ /\ ~hasScript
              /\ lastRet' = suppressMsg'
              /\ outcome' = Untold(lastRet')
              /\ UNCHANGED <<chatScriptRun, scripts>>
     \/ /\ chatScriptRun
        /\ outcome' = Untold(FALSE)
        /\ UNCHANGED <<chatScriptRun, suppressMsg, lastRet, scripts>>
  /\ UNCHANGED firingVars

\* SendServerToPlayerCCMessageHookProc: a combat message, to a player who is
\* still known or not any more; lastRet is tested in both cases.
CombatMessage(known) ==
  /\ \/ ~chatScriptRun /\ known /\ suppressMsg' = SuppressAtMessage /\ RunChatScript("combat")
     \/ /\ chatScriptRun \/ ~known
        /\ outcome' = Untold(~chatScriptRun /\ lastRet)
        /\ UNCHANGED <<chatScriptRun, suppressMsg, lastRet, scripts>>
  /\ UNCHANGED firingVars

ChatScriptEnds ==
  /\ scripts # <<>> /\ TopScript.plugin = "chat"
  /\ chatScriptRun' = FALSE
  /\ lastRet' = suppressMsg
  /\ outcome' = Done(TopScript, lastRet')
  /\ scripts' = OuterScripts
  /\ UNCHANGED <<firingVars, suppressMsg>>

\* SUPRESS with 1 (nothing else has an effect): from a script of the Chat
\* plugin, or from an event's inside it.
Suppress ==
  /\ scripts # <<>>
  /\ chatScriptRun
  /\ suppressMsg' = TRUE
  /\ scripts' = [scripts EXCEPT ![Innermost("chat")].asked = TRUE]
  /\ UNCHANGED <<firingVars, chatScriptRun, lastRet, outcome>>

EventsNext ==
  \/ \E kind \in Actions, target \in Target : Act(kind, target)
  \/ DestroyObject
  \/ EventScriptEnds
  \/ \E kinds \in Handlers, on \in BOOLEAN : SetEventHandler(kinds, on)
  \/ \E b \in BOOLEAN : Bypass(b)
  \/ \E hasScript \in BOOLEAN : ChatMessage(hasScript)
  \/ \E known \in BOOLEAN : CombatMessage(known)
  \/ ChatScriptEnds
  \/ Suppress

EventsSpec == EventsInit /\ [][EventsNext]_eventsVars
-------------------------------------------------------------------------------
Script == [plugin : {"events", "chat"}, kind : Kinds \cup {"message", "combat"},
           target : Target \cup {"invalid"}, asked : BOOLEAN, reset : BOOLEAN]

EventsTypeOK ==
  /\ eventScripts \subseteq Kinds
  /\ {enableUnsafe, scriptRun, bBypass, bBypass_b} \subseteq BOOLEAN
  /\ {chatScriptRun, suppressMsg, lastRet} \subseteq BOOLEAN
  /\ oTarget \in Target \cup {"invalid"}
  /\ nEventID \in Kinds \cup {"none"}
  /\ scripts \in Seq(Script)
  /\ Len(scripts) <= MaxScripts
  /\ outcome \in [told : BOOLEAN, asked : BOOLEAN, blockable : BOOLEAN, skipped : BOOLEAN]

\* An event's script reads the kind and target of its own event, whatever it
\* and the scripts run inside it do, unless one of them destroys an object
\* while destructors are hooked (readme.txt calls these events unsafe).
EventDataIsOwn ==
  (\E d \in 1..Len(scripts) : scripts[d].plugin = "events") =>
    LET own == scripts[Innermost("events")]
    IN ~own.reset =>
         /\ scriptRun
         /\ nEventID = own.kind
         /\ own.kind \in WithTarget => oTarget = own.target

\* What had a script is skipped exactly if this was asked for while that script
\* was the innermost of its plugin ("can be blocked from script", readme.txt;
\* SUPRESS): no request is lost, and none blocks another action or message.
BlockedIffAsked ==
  outcome.told =>
    (outcome.skipped <=> outcome.asked /\ outcome.blockable)
===============================================================================
