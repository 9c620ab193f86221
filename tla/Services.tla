------------------------------- MODULE Services -------------------------------
(***************************************************************************)
(* The service functions of the plugin core (modules.c): a list sorted by  *)
(* the hash of the service's name, which is all a service is looked up by. *)
(* The handle of a service is its hash.                                    *)
(*                                                                         *)
(* CallService copies the function's address out of the list before it     *)
(* calls it and touches nothing afterwards, so what the service does is    *)
(* just further steps.  A service is identified by a ticket, the number of *)
(* the CreateServiceFunction call that made it.                            *)
(***************************************************************************)
EXTENDS Integers, Sequences, SortedList

CONSTANTS
  Name,          \* names of services
  NameHash,      \* the hash of each name
  ReuseHandles,  \* may a plugin destroy with a handle it already gave back?
  MaxTicket      \* bound: services ever created

NOTFOUND == 0    \* CALLSERVICE_NOTFOUND, and the NULL handle

ASSUME ServicesAssumption ==
  /\ NameHash \in [Name -> Nat]
  /\ ReuseHandles \in BOOLEAN
  /\ MaxTicket \in Nat

VARIABLES
  services,    \* the list: tickets, sorted by nameHash
  name, nameHash,
               \* the fields of TService, by ticket; <<>> and 0 before it is created
  nextTicket,  \* history: number of the next CreateServiceFunction call
  held,        \* history: handles plugins hold
  givenBack,   \* history: handles they destroyed a service with
  called,      \* the name of the last CallService, and the service it ran
  destroyed    \* the last DestroyServiceFunction: its handle, the service it
               \* took out of the list, and what it returned

vars == <<services, name, nameHash, nextTicket, held, givenBack, called, destroyed>>

Ticket == 1..MaxTicket
-------------------------------------------------------------------------------
Init ==
  /\ services = <<>>
  /\ name = [t \in Ticket |-> <<>>]
  /\ nameHash = [t \in Ticket |-> 0]
  /\ nextTicket = 1
  /\ held = {}
  /\ givenBack = {}
  /\ \E n \in Name : called = [name |-> n, service |-> NOTFOUND]
  /\ destroyed = [h |-> 0, service |-> NOTFOUND, result |-> 1]

\* The new service is inserted at the place List_GetIndex gave.
NewService(n, i) ==
  /\ services' = List_Insert(services, nextTicket, i)
  /\ name' = [name EXCEPT ![nextTicket] = n]
  /\ nameHash' = [nameHash EXCEPT ![nextTicket] = NameHash[n]]
  /\ held' = held \cup {[h |-> NameHash[n], ticket |-> nextTicket]}
  /\ nextTicket' = nextTicket + 1
  /\ UNCHANGED <<givenBack, called, destroyed>>

\* Mutant of CreateServiceFunction: the list is not searched for the hash.
CreateServiceFunctionAnyway(n) ==
  /\ nextTicket <= MaxTicket
  /\ NewService(n, Len(services) + 1)

\* A hash already in the list makes the call return NULL and change nothing.
CreateServiceFunction(n) ==
  /\ nextTicket <= MaxTicket
  /\ ~Found(services, nameHash, NameHash[n])
  /\ \E i \in 1..(Len(services) + 1) :
       IsInsertionPoint(services, nameHash, NameHash[n], i) /\ NewService(n, i)

\* Mutant of ServiceAt: the search gives up at the end of the list.
ServiceAtButLast(h, i) == i \in 1..(Len(services) - 1) /\ nameHash[services[i]] = h

\* FindServiceByHash found the service at place i.
ServiceAt(h, i) == i \in 1..Len(services) /\ nameHash[services[i]] = h

NoService(h) == \A i \in 1..Len(services) : ~ServiceAt(h, i)

\* The call returns 0 whether the handle was good or not.
DestroyServiceFunction(u) ==
  /\ \/ \E i \in 1..Len(services) :
          /\ ServiceAt(u.h, i)
          /\ services' = List_Remove(services, i)
          /\ destroyed' = [h |-> u.h, service |-> services[i], result |-> 0]
     \/ /\ NoService(u.h)
        /\ destroyed' = [h |-> u.h, service |-> NOTFOUND, result |-> 0]
        /\ UNCHANGED services
  /\ held' = held \ {u}
  /\ givenBack' = givenBack \cup {u}
  /\ UNCHANGED <<name, nameHash, nextTicket, called>>

\* FindServiceByName compares hashes; TService.name is not looked at.
CallService(n) ==
  /\ \/ \E i \in 1..Len(services) :
          ServiceAt(NameHash[n], i) /\ called' = [name |-> n, service |-> services[i]]
     \/ NoService(NameHash[n]) /\ called' = [name |-> n, service |-> NOTFOUND]
  /\ UNCHANGED <<services, name, nameHash, nextTicket, held, givenBack, destroyed>>

\* The handles a plugin may destroy with.
Usable == IF ReuseHandles THEN held \cup givenBack ELSE held

Next ==
  \/ \E n \in Name : CreateServiceFunction(n) \/ CallService(n)
  \/ \E u \in Usable : DestroyServiceFunction(u)

Spec == Init /\ [][Next]_vars
-------------------------------------------------------------------------------
TypeOK ==
  /\ services \in Seq(Ticket)
  /\ name \in [Ticket -> Name \cup {<<>>}]
  /\ nameHash \in [Ticket -> Nat]
  /\ nextTicket \in 1..(MaxTicket + 1)
  /\ held \subseteq [h : Nat, ticket : Ticket]
  /\ givenBack \subseteq [h : Nat, ticket : Ticket]
  /\ called \in [name : Name, service : Ticket \cup {NOTFOUND}]
  /\ destroyed \in [h : Nat, service : Ticket \cup {NOTFOUND}, result : {0, 1}]

\* The list stays strictly sorted by hash, so that a hash is in it once and the
\* binary search finds it.
ServicesSorted == IsSorted(services, nameHash)

\* A service is in the list, under the hash its creator holds, until the
\* creator destroys it: nothing that others create or destroy takes it away.
ServiceStaysUntilDestroyed ==
  \A u \in held : \E i \in 1..Len(services) : services[i] = u.ticket /\ nameHash[u.ticket] = u.h

\* modules.h: "Returns CALLSERVICE_NOTFOUND if no service function called 'name'
\* has been created": a call never runs a service of another name.  (Does not
\* hold for names with the same hash: see README, Disagreements.)
CallsTheNamedService ==
  called.service # NOTFOUND => name[called.service] = called.name

\* modules.h: "Returns 0 on success or non-zero if hService is invalid".  (Does
\* not hold: see README, Disagreements.)
ZeroMeansDestroyed == destroyed.result = 0 => destroyed.service # NOTFOUND
-------------------------------------------------------------------------------
(* Refinement: when no two names have the same hash, the list of hashes is a *)
(* table of names.                                                           *)
ServicesNamed(n) == {t \in Ticket : Contains(services, t) /\ name[t] = n}

TableOfNames ==
  [n \in Name |-> IF ServicesNamed(n) = {} THEN NOTFOUND
                  ELSE CHOOSE t \in ServicesNamed(n) : TRUE]

Table == INSTANCE ServiceTable WITH Service <- Ticket, table <- TableOfNames

\* The list of hashes behaves as the table of names that modules.h describes.
ImplementsServiceTable == Table!TableSpec
===============================================================================
