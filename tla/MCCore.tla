-------------------------------- MODULE MCCore --------------------------------
(***************************************************************************)
(* Services, the search in a list, and the dispatcher on small instances.  *)
(* Names are sequences of character codes, and their hashes are those of   *)
(* NameHashFunction.                                                       *)
(*                                                                         *)
(* Either services are created, called and destroyed, each step with a     *)
(* search that answers as SortedList has it; or one search is looked at    *)
(* step by step, as ListSearch has it, in any list it may be given; or     *)
(* scripts and the server call the dispatcher, which shares no state with  *)
(* services: it is enough to let one of them run.                          *)
(***************************************************************************)
EXTENDS Services, NameHash, ListSearch, MCDispatcher

VARIABLE running   \* the part that runs

B     == <<66>>
ChatA == <<67, 104, 97, 116, 49, 47, 97>>     \* "Chat1/a": its last character is
ChatE == <<67, 104, 97, 116, 49, 47, 101>>    \* "Chat1/e"  rotated over bit 31
DBaseU == <<68, 66, 97, 115, 101, 47, 117>>   \* "DBase/u"

MCName     == {B, ChatA, ChatE, DBaseU}
MCNameHash == [n \in MCName |-> HashNumber(n)]

\* What the list is sorted by is each name's characters, rotated by five bits
\* more each and xor-ed: NameHashFunction neither loses nor doubles a bit where
\* its shifts run over bit 31.
HashesAreRotated ==
  \A i \in 1..Len(services) : nameHash[services[i]] = NumberOf(XorOfRotated(name[services[i]]))

ServicesNext ==
  /\ running = "services"
  /\ Next
  /\ UNCHANGED <<searchVars, dispatcherVars, running>>

LoopNext ==
  /\ running = "search"
  /\ SearchNext
  /\ UNCHANGED <<vars, dispatcherVars, running>>

CallsNext ==
  /\ running = "dispatcher"
  /\ DispatcherNext
  /\ UNCHANGED <<vars, searchVars, running>>

\* What is searched, or called before, does not matter to the other parts.
CoreInit ==
  /\ running \in {"services", "search", "dispatcher"}
  /\ Init
  /\ SearchInit
  /\ DispatcherInit
  /\ running # "search" => items = <<>> /\ value = 0
  /\ running # "services" => called.name = B

\* The loop is one thread's, which goes on as long as it can.
CoreSpec ==
  /\ CoreInit
  /\ [][ServicesNext \/ LoopNext \/ CallsNext]_<<vars, searchVars, dispatcherVars, running>>
  /\ WF_<<vars, searchVars, dispatcherVars, running>>(LoopNext)

\* SearchEnds, of the search that is looked at.
EverySearchEnds == running = "search" => SearchEnds
===============================================================================
