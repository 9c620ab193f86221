----------------------------- MODULE ServiceTable -----------------------------
(***************************************************************************)
(* What modules.h promises of service functions: at most one service of    *)
(* each name; a call runs the service created with that name, or answers   *)
(* CALLSERVICE_NOTFOUND when there is none.                                *)
(***************************************************************************)
EXTENDS Naturals

CONSTANTS
  Name,       \* names of services
  Service,    \* service functions, told apart by the call that created them
  NOTFOUND    \* CALLSERVICE_NOTFOUND

VARIABLES
  table,      \* the service of each name, or NOTFOUND
  called      \* the last CallService, and what it ran

tableVars == <<table, called>>

TableInit ==
  /\ table = [n \in Name |-> NOTFOUND]
  /\ \E n \in Name : called = [name |-> n, service |-> NOTFOUND]

Create(n, s) ==
  /\ table[n] = NOTFOUND
  /\ \A m \in Name : table[m] # s
  /\ table' = [table EXCEPT ![n] = s]
  /\ UNCHANGED called

Destroy(n) ==
  /\ table[n] # NOTFOUND
  /\ table' = [table EXCEPT ![n] = NOTFOUND]
  /\ UNCHANGED called

Call(n) ==
  /\ called' = [name |-> n, service |-> table[n]]
  /\ UNCHANGED table

TableNext ==
  \E n \in Name :
    \/ \E s \in Service : Create(n, s)
    \/ Destroy(n)
    \/ Call(n)

TableSpec == TableInit /\ [][TableNext]_tableVars
===============================================================================
