------------------------------- MODULE EventBus -------------------------------
(***************************************************************************)
(* What modules.h promises of hookable events, without lists, addresses,   *)
(* slots or handles: each event has a set of subscriptions, numbered in    *)
(* the order they were made, and a notification goes through them in that  *)
(* order.  Subscriptions come and go while notifications run, because the  *)
(* subscribers themselves hook and unhook; a notification owes a call only *)
(* to those that were there when it began and still are, and may call or   *)
(* not call the ones added since.                                          *)
(***************************************************************************)
EXTENDS Integers, Sequences

CONSTANTS
  Event,      \* all events there will ever be
  MaxTicket,  \* bound: subscriptions ever made
  Value       \* what notifications return

VARIABLES
  subscriptions,  \* the subscriptions of each event
  nextTicket,     \* the number of the next subscription
  running,        \* notifications in progress, innermost last
  ret             \* what the last notification returned

busVars == <<subscriptions, nextTicket, running, ret>>

Current == running[Len(running)]
Outer   == SubSeq(running, 1, Len(running) - 1)

BusInit ==
  /\ subscriptions = [e \in Event |-> {}]
  /\ nextTicket = 1
  /\ running = <<>>
  /\ ret = 0

Subscribe(e) ==
  /\ nextTicket <= MaxTicket
  /\ subscriptions' = [subscriptions EXCEPT ![e] = @ \cup {nextTicket}]
  /\ nextTicket' = nextTicket + 1
  /\ UNCHANGED <<running, ret>>

Unsubscribe(e, t) ==
  /\ subscriptions' = [subscriptions EXCEPT ![e] = @ \ {t}]
  /\ UNCHANGED <<nextTicket, running, ret>>

\* The event is destroyed, and everybody unhooked.
Drop(e) ==
  /\ \A d \in 1..Len(running) : running[d].event # e
  /\ subscriptions' = [subscriptions EXCEPT ![e] = {}]
  /\ UNCHANGED <<nextTicket, running, ret>>

\* Subscriptions the notification n still has to call.
Owed(n) == {t \in n.due \cap subscriptions[n.event] : t > n.last}

\* The next call: a subscription after the last one, none owed is passed over.
Call(base, n) ==
  /\ ~n.default
  /\ \E t \in subscriptions[n.event] :
       /\ t > n.last
       /\ \A o \in Owed(n) : t <= o
       /\ running' = Append(base, [n EXCEPT !.last = t])
  /\ UNCHANGED ret

CallDefault(base, n) ==
  /\ ~n.default
  /\ subscriptions[n.event] = {}
  /\ running' = Append(base, [n EXCEPT !.default = TRUE])
  /\ UNCHANGED ret

\* Nothing is owed, or somebody aborted with a value that is returned.
End(base, n, v) ==
  /\ v = 0 /\ ~n.default => Owed(n) = {}
  /\ running' = base
  /\ ret' = v

Proceed(base, n) ==
  /\ \/ Call(base, n)
     \/ CallDefault(base, n)
     \/ \E v \in Value : End(base, n, v)
  /\ UNCHANGED <<subscriptions, nextTicket>>

Notify(e) ==
  Proceed(running, [event |-> e, due |-> subscriptions[e], last |-> 0, default |-> FALSE])

NotifyUnknown ==
  /\ ret' \in Value \ Nat
  /\ UNCHANGED <<subscriptions, nextTicket, running>>

Return == running # <<>> /\ Proceed(Outer, Current)

BusNext ==
  \/ \E e \in Event : Subscribe(e)
  \/ \E e \in Event, t \in 1..MaxTicket : Unsubscribe(e, t)
  \/ \E e \in Event : Drop(e)
  \/ \E e \in Event : Notify(e)
  \/ NotifyUnknown
  \/ Return

BusSpec == BusInit /\ [][BusNext]_busVars
===============================================================================
