------------------------------ MODULE Dispatcher ------------------------------
(***************************************************************************)
(* The core of the extender (nwnx2lib.cpp): scripts talk to plugins by     *)
(* setting a local string "NWNX!PLUGIN!REQUEST" or reading a local object  *)
(* of that name; the core has hooked the two functions of the server and   *)
(* passes such calls on to the plugin.                                     *)
(*                                                                         *)
(* The server calls the hooked functions itself too (loading a module,     *)
(* players logging in, map pins): such calls are not for plugins.  The     *)
(* core tells the two apart by the return address of the call, and learns  *)
(* the address of the script interpreter from the call that sets NWNX!INIT *)
(* to "1".  Local variables, this one among them, are part of a saved      *)
(* game, and loading one sets them again.                                  *)
(*                                                                         *)
(* A plugin may cause scripts to run before it answers, so requests nest.  *)
(***************************************************************************)
EXTENDS Naturals, Sequences

CONSTANTS
  Library,           \* the plugins that are registered
  Object,            \* objects of the game, and what reading a local object gives
  NULL,
  nwnxinitdisabled,  \* the option disablenwnxinit
  MaxDepth           \* bound: nested requests

Script == "ExecCmdSetVar"   \* return address of a call by the script interpreter
Server == "server"          \* return address of any other call

Address == {Script, Server}

ASSUME DispatcherAssumption ==
  /\ NULL \notin Object \cup Library \cup Address \cup {"0", "1"}
  /\ nwnxinitdisabled \in BOOLEAN
  /\ MaxDepth \in Nat

VARIABLES
  phase,                      \* "off", "plain" (no extender), "loading", "running"
  returnAddr, ObjReturnAddr,  \* where calls of scripts return to
  ObjRet, oRes,               \* the way a plugin's object gets to my_GetObject
  init,                       \* the local string NWNX!INIT of the module, NULL if unset
  saved,                      \* the same in the saved game
  stack,                      \* requests that are not answered yet, innermost last
  answer,                     \* history: the last GetObject, and what it returned
  ranPlain                    \* history: has the module been run without the extender?

dispatcherVars == <<phase, returnAddr, ObjReturnAddr, ObjRet, oRes, init, saved, stack, answer,
          ranPlain>>

DispatcherInit ==
  /\ phase = "off"
  /\ returnAddr = NULL /\ ObjReturnAddr = NULL
  /\ ObjRet = FALSE /\ oRes = NULL
  /\ init = NULL
  /\ saved = NULL
  /\ stack = <<>>
  /\ answer = [owed |-> NULL, given |-> NULL]
  /\ ranPlain = FALSE
-------------------------------------------------------------------------------
(* The server and its saved game.                                            *)

\* The server is started, with the extender or without, and sets the variables
\* of the saved game.
Start(p) ==
  /\ phase = "off"
  /\ phase' = p
  /\ init' = IF p = "plain" THEN saved ELSE NULL
  /\ ranPlain' = (ranPlain \/ p = "plain")
  /\ UNCHANGED <<returnAddr, ObjReturnAddr, ObjRet, oRes, saved, stack, answer>>

\* The module is loaded; the first script to run is its OnModuleLoad.
ModuleIsLoaded ==
  /\ phase = "loading"
  /\ saved = NULL \/ init # NULL
  /\ phase' = "running"
  /\ UNCHANGED <<ranPlain, returnAddr, ObjReturnAddr, ObjRet, oRes, init, saved, stack, answer>>

\* OnModuleLoad sets NWNX!INIT, and nobody is there to see it.
PlainInit ==
  /\ phase = "plain"
  /\ init' = "1"
  /\ UNCHANGED <<ranPlain, phase, returnAddr, ObjReturnAddr, ObjRet, oRes, saved, stack, answer>>

Save ==
  /\ phase \in {"plain", "running"}
  /\ saved' = init
  /\ UNCHANGED <<ranPlain, phase, returnAddr, ObjReturnAddr, ObjRet, oRes, init, stack, answer>>

\* It stops or crashes, in whatever it is doing.
Stop ==
  /\ phase # "off"
  /\ phase' = "off"
  /\ returnAddr' = NULL /\ ObjReturnAddr' = NULL
  /\ ObjRet' = FALSE /\ oRes' = NULL
  /\ stack' = <<>>
  /\ UNCHANGED <<ranPlain, init, saved, answer>>

\* Who may call now: the server while it loads, scripts and server afterwards.
MayCall(from) ==
  \/ phase = "loading" /\ from = Server
  \/ phase = "running"
-------------------------------------------------------------------------------
(* my_SetString and StringPayLoad.                                           *)

\* Mutant of InitString: the value is stored as it came.
InitStringAsIs(from, v) ==
  /\ returnAddr' = IF v = "1" /\ returnAddr = NULL THEN from ELSE returnAddr
  /\ init' = v

\* NWNX!INIT: "1" is taken from the first call only, and stored as "0".
InitString(from, v) ==
  /\ returnAddr' = IF v = "1" /\ returnAddr = NULL THEN from ELSE returnAddr
  /\ init' = IF v = "1" THEN "0" ELSE v

\* Only OnModuleLoad and the loading of a saved game set it.
SetInit ==
  /\ \/ phase = "loading" /\ saved # NULL /\ InitString(Server, saved)
     \/ phase = "running" /\ InitString(Script, "1")
  /\ UNCHANGED <<ranPlain, phase, ObjReturnAddr, ObjRet, oRes, saved, stack, answer>>

\* The address the calls of scripts are told by, after a call from "from".
Grabbed(addr, from) == IF addr = NULL /\ nwnxinitdisabled THEN from ELSE addr

Request(kind, from, l, o) ==
  Append(stack, [kind |-> kind, from |-> from, library |-> l, gameObject |-> o])

\* NWNX!l!...: passed on if it returns to the script interpreter and there is
\* such a plugin (l # NULL).
SetString(from, l, o) ==
  /\ MayCall(from)
  /\ Len(stack) < MaxDepth
  /\ returnAddr' = Grabbed(returnAddr, from)
  /\ stack' = IF returnAddr' = from /\ l # NULL THEN Request("string", from, l, o) ELSE stack
  /\ UNCHANGED <<ranPlain, phase, ObjReturnAddr, ObjRet, oRes, init, saved, answer>>

\* OnRequest returns; its result goes into the variable that is being set.
OnRequestReturns ==
  /\ stack # <<>> /\ stack[Len(stack)].kind = "string"
  /\ stack' = SubSeq(stack, 1, Len(stack) - 1)
  /\ UNCHANGED <<ranPlain, phase, returnAddr, ObjReturnAddr, ObjRet, oRes, init, saved, answer>>
-------------------------------------------------------------------------------
(* my_GetObject and ObjectPayLoad.                                           *)

\* Mutant of Answered: the flag is not lowered.
AnsweredAgain(owed, r, res, stored) ==
  /\ ObjRet' = r
  /\ oRes' = res
  /\ answer' = [owed |-> owed, given |-> IF r THEN res ELSE stored]

\* The end of my_GetObject, with ObjRet = r and oRes = res: the plugin's object
\* is returned if the flag is up, else the server's function goes on and
\* returns what is stored.
Answered(owed, r, res, stored) ==
  /\ ObjRet' = FALSE
  /\ oRes' = res
  /\ answer' = [owed |-> owed, given |-> IF r THEN res ELSE stored]

\* NWNX!INIT: the first call gives the address.
GetInit(stored) ==
  /\ phase = "running"
  /\ ObjReturnAddr' = IF ObjReturnAddr = NULL THEN Script ELSE ObjReturnAddr
  /\ Answered(stored, ObjRet, oRes, stored)
  /\ UNCHANGED <<ranPlain, phase, returnAddr, init, saved, stack>>

\* A local object that has nothing to do with plugins.
GetPlainObject(from, stored) ==
  /\ MayCall(from)
  /\ Answered(stored, ObjRet, oRes, stored)
  /\ UNCHANGED <<ranPlain, phase, returnAddr, ObjReturnAddr, init, saved, stack>>

\* NWNX!l!...: passed on, or answered with what is stored.
GetObject(from, l, o, stored) ==
  /\ MayCall(from)
  /\ Len(stack) < MaxDepth
  /\ ObjReturnAddr' = Grabbed(ObjReturnAddr, from)
  /\ IF ObjReturnAddr' = from /\ l # NULL
     THEN stack' = Request("object", from, l, o) /\ UNCHANGED <<ObjRet, oRes, answer>>
     ELSE Answered(stored, ObjRet, oRes, stored) /\ UNCHANGED stack
  /\ UNCHANGED <<ranPlain, phase, returnAddr, init, saved>>

\* OnRequestObject returns object r.
OnRequestObjectReturns(r) ==
  /\ stack # <<>> /\ stack[Len(stack)].kind = "object"
  /\ Answered(r, TRUE, r, NULL)
  /\ stack' = SubSeq(stack, 1, Len(stack) - 1)
  /\ UNCHANGED <<ranPlain, phase, returnAddr, ObjReturnAddr, init, saved>>
-------------------------------------------------------------------------------
DispatcherNext ==
  \/ Start("loading") \/ Start("plain") \/ ModuleIsLoaded
  \/ PlainInit
  \/ Save \/ Stop
  \/ SetInit
  \/ \E from \in Address, l \in Library \cup {NULL}, o \in Object : SetString(from, l, o)
  \/ OnRequestReturns
  \/ \E from \in Address, l \in Library \cup {NULL}, o, stored \in Object :
       GetObject(from, l, o, stored)
  \/ \E stored \in Object : GetInit(stored)
  \/ \E from \in Address, stored \in Object : GetPlainObject(from, stored)
  \/ \E r \in Object : OnRequestObjectReturns(r)

DispatcherSpec == DispatcherInit /\ [][DispatcherNext]_dispatcherVars
-------------------------------------------------------------------------------
\* While the extender runs, NWNX!INIT is never left at "1".
DispatcherTypeOK ==
  /\ phase \in {"off", "plain", "loading", "running"}
  /\ returnAddr \in Address \cup {NULL}
  /\ ObjReturnAddr \in Address \cup {NULL}
  /\ ObjRet \in BOOLEAN
  /\ oRes \in Object \cup {NULL}
  /\ init \in IF phase \in {"loading", "running"} THEN {NULL, "0"} ELSE {NULL, "0", "1"}
  /\ saved \in {NULL, "0", "1"}
  /\ stack \in Seq([kind : {"string", "object"}, from : Address, library : Library,
                    gameObject : Object])
  /\ answer \in [owed : Object \cup {NULL}, given : Object \cup {NULL}]
  /\ ranPlain \in BOOLEAN

\* README: NWNX!INIT is there "to help the extender tell the difference between
\* script context and the other parts of the code": the server's own calls never
\* reach a plugin, and never pass for those of scripts (whose own would then be
\* rejected).  (Does not hold of every saved game: see README, Disagreements.)
ScriptsOnly ==
  /\ returnAddr # Server
  /\ \A d \in 1..Len(stack) : stack[d].from = Script

\* It tells them apart whatever is saved, loaded and restarted, while the module
\* is never run without the extender.
TellsScriptsFromServer == ~ranPlain => ScriptsOnly

\* Reading a local object gives the answer of the plugin that was asked, and
\* the server's for any other name, although requests nest and the answer goes
\* through the global ObjRet.
GetObjectAnswers == answer.given = answer.owed
-------------------------------------------------------------------------------
(* Why the server is not mistaken for scripts: the "1" that gives an address   *)
(* away is never stored or saved when the extender is always there.            *)
NeverOne == phase # "plain" /\ init # "1" /\ saved # "1"

ScriptsInv ==
  /\ NeverOne
  /\ ObjReturnAddr # Server
  /\ ScriptsOnly

DispatcherInv == ~ranPlain => ScriptsInv

\* Why plugins' answers arrive: the flag is up in no state between two calls.
AnswerInv == ~ObjRet /\ GetObjectAnswers
===============================================================================
