------------------------------ MODULE HookEngine ------------------------------
(***************************************************************************)
(* The hookable events of the plugin core (modules.c): a sorted list of    *)
(* named events, each with an array of subscribers and an optional default *)
(* hook.  Plugins reach it through the PLUGINLINK table.                   *)
(*                                                                         *)
(* There is one thread (the critical sections of modules.c are commented   *)
(* out), but the engine is re-entrant: CallHookSubscribers calls plugin    *)
(* code in the middle of its loop, and that code may call every operation  *)
(* of the engine again before it returns.  "stack" holds the activations   *)
(* of CallHookSubscribers; whichever code is running (the core, or the     *)
(* callback of the activation on top) may take any action.                 *)
(*                                                                         *)
(* A subscriber is identified by a ticket: the number of the HookEvent     *)
(* call that made it.  A slot of the array holds the ticket, or NULL when  *)
(* its pfnHook has been cleared.                                           *)
(***************************************************************************)
EXTENDS Integers, Sequences, FiniteSets, SortedList

CONSTANTS
  Name,            \* names of events, as numbers in the order of strcmp
  Addr,            \* the addresses malloc may return for a THook
  Result,          \* what a hook procedure may return; 0 means "continue"
  ReuseHandles,    \* may a plugin unhook with a handle it already gave back?
  MaxHookId,       \* bound: events ever created
  MaxSubscribers,  \* bound: slots in the subscriber array of one event
  MaxTicket,       \* bound: HookEvent calls
  MaxDepth         \* bound: nested notifications

NULL    == 0
DEFAULT == 0     \* in the place of a slot number: the default hook runs
INVALID == -1    \* NotifyEventHooks: "-1 if hEvent is invalid"

ASSUME HookEngineAssumption ==
  /\ Name \subseteq Nat
  /\ Result \subseteq Nat /\ 0 \in Result
  /\ ReuseHandles \in BOOLEAN
  /\ MaxHookId \in Nat /\ MaxHookId < 32768            \* (int)hHook >> 16 must give the id back
  /\ MaxSubscribers \in Nat /\ MaxSubscribers < 65536  \* the low half of a handle
  /\ MaxTicket \in Nat
  /\ MaxDepth \in Nat

VARIABLES
  hooks,       \* the list "hooks": addresses, sorted by the names they hold
  name, eventId, subscriber, dflt,
               \* the fields of the THook at each address; freed memory keeps
               \* its content until malloc hands it out again
  hookId,      \* the static counter of ids
  stack,       \* activations of CallHookSubscribers, innermost last
  ret,         \* what the last notification returned
  nextTicket,  \* history: number of the next HookEvent call
  held,        \* history: hook handles plugins hold
  givenBack,   \* history: hook handles they have unhooked with
  created      \* history: event handles their creators were given

memory == <<name, eventId, subscriber, dflt>>
vars == <<hooks, memory, hookId, stack, ret, nextTicket, held, givenBack, created>>

Ticket  == 1..MaxTicket
Frame   == [p : Addr, id : Nat, slot : Nat, due : SUBSET Nat,
            calls : Seq(Nat), abort : Nat]

\* Mutant of Handle: the count as it was before the slot was added.
HandleBeforeIncrement(id, n) == id * 65536 + n - 1

\* hHook is ( p->id << 16 ) | p->subscriberCount.
Handle(id, n)  == id * 65536 + n
HandleId(h)    == h \div 65536
HandleSlot(h)  == h % 65536

Live(s)   == {s[j] : j \in 1..Len(s)} \ {NULL}
Top       == stack[Len(stack)]
Below     == SubSeq(stack, 1, Len(stack) - 1)
-------------------------------------------------------------------------------
InitWith(firstId) ==
  /\ hooks = <<>>
  /\ name = [a \in Addr |-> NULL]
  /\ eventId = [a \in Addr |-> 0]
  /\ subscriber = [a \in Addr |-> <<>>]
  /\ dflt = [a \in Addr |-> FALSE]
  /\ hookId = firstId
  /\ stack = <<>>
  /\ ret = 0
  /\ nextTicket = 1
  /\ held = {}
  /\ givenBack = {}
  /\ created = {}

\* Mutant of Init: ids start at 0.
InitAtZero == InitWith(0)

Init == InitWith(1)

\* malloc gives address a to a new THook for name n, which is inserted at i.
NewEvent(n, a, i) ==
  /\ ~Contains(hooks, a)
  /\ IsInsertionPoint(hooks, name, n, i)
  /\ name' = [name EXCEPT ![a] = n]
  /\ eventId' = [eventId EXCEPT ![a] = hookId]
  /\ subscriber' = [subscriber EXCEPT ![a] = <<>>]
  /\ dflt' = [dflt EXCEPT ![a] = FALSE]
  /\ hooks' = List_Insert(hooks, a, i)
  /\ created' = created \cup {[p |-> a, id |-> hookId]}

\* A name already in the list makes the call return NULL and change nothing.
CreateHookableEvent(n) ==
  /\ hookId <= MaxHookId
  /\ ~Found(hooks, name, n)
  /\ \E a \in Addr : \E i \in 1..(Len(hooks) + 1) : NewEvent(n, a, i)
  /\ hookId' = hookId + 1
  /\ UNCHANGED <<stack, ret, nextTicket, held, givenBack>>

\* The event is unlinked and freed.  The caller must not destroy an event that
\* is being notified: CallHookSubscribers would go on with a freed THook.
DestroyHookableEvent(a) ==
  /\ \A k \in 1..Len(stack) : stack[k].p # a
  /\ \E i \in 1..Len(hooks) :
       /\ hooks[i] = a
       /\ hooks' = List_Remove(hooks, i)
  /\ subscriber' = [subscriber EXCEPT ![a] = <<>>]
  /\ UNCHANGED <<name, eventId, dflt, hookId, stack, ret, nextTicket, held,
                 givenBack, created>>

SetHookDefaultForHookableEvent(a, set) ==
  /\ Contains(hooks, a)
  /\ dflt' = [dflt EXCEPT ![a] = set]
  /\ UNCHANGED <<hooks, name, eventId, subscriber, hookId, stack, ret, nextTicket,
                 held, givenBack, created>>

\* The subscriber array s of event a with ticket t in slot k, and its handle.
Subscribe(a, k, s) ==
  /\ subscriber' = [subscriber EXCEPT ![a] = s]
  /\ held' = held \cup {[h |-> Handle(eventId[a], k), ticket |-> nextTicket]}
  /\ nextTicket' = nextTicket + 1
  /\ UNCHANGED <<hooks, name, eventId, dflt, hookId, stack, ret, givenBack, created>>

\* Mutant of HookEvent: a cleared slot is used again before the array grows.
HookEventInFreeSlot(n) ==
  /\ nextTicket <= MaxTicket
  /\ \E i \in 1..Len(hooks) :
       LET s == subscriber[hooks[i]]
       IN  /\ name[hooks[i]] = n
           /\ \/ \E k \in 1..Len(s) :
                   s[k] = NULL /\ Subscribe(hooks[i], k, [s EXCEPT ![k] = nextTicket])
              \/ /\ Len(s) < MaxSubscribers
                 /\ Subscribe(hooks[i], Len(s) + 1, Append(s, nextTicket))

\* A new slot at the end of the array; its number is half of the handle.
HookEvent(n) ==
  /\ nextTicket <= MaxTicket
  /\ \E i \in 1..Len(hooks) :
       LET s == subscriber[hooks[i]]
       IN  /\ name[hooks[i]] = n
           /\ Len(s) < MaxSubscribers
           /\ Subscribe(hooks[i], Len(s) + 1, Append(s, nextTicket))

\* Mutant of IsTrimmedCount: "if" in place of "while".
IsTrimmedOnceCount(s, n) ==
  n = IF s[Len(s)] = NULL THEN Len(s) - 1 ELSE Len(s)

\* The while loop of UnhookEvent: the count it stops at, where every slot after
\* it has been cleared and it is 0 or counts a slot that has not.
IsTrimmedCount(s, n) ==
  /\ n \in 0..Len(s)
  /\ n > 0 => s[n] # NULL
  /\ \A j \in (n + 1)..Len(s) : s[j] = NULL

\* The handle is valid for UnhookEvent: its event exists and has that slot.
Designates(h, a) ==
  /\ Contains(hooks, a)
  /\ eventId[a] = HandleId(h)
  /\ HandleSlot(h) \in 1..Len(subscriber[a])

\* Mutant of ClearSlot: the slots after the cleared one move down.
ClearSlotAndCompact(a, k) ==
  subscriber' = [subscriber EXCEPT ![a] = List_Remove(@, k)]

TrimTo(a, s, n) ==
  /\ IsTrimmedCount(s, n)
  /\ subscriber' = [subscriber EXCEPT ![a] = SubSeq(s, 1, n)]

\* Clear slot k of event a and trim the array.
ClearSlot(a, k) ==
  \E n \in 0..Len(subscriber[a]) : TrimTo(a, [subscriber[a] EXCEPT ![k] = NULL], n)

\* Nothing tells a handle whose slot another subscriber has been given from a
\* handle that is still good.
UnhookEvent(u) ==
  /\ \/ \E a \in Addr : Designates(u.h, a) /\ ClearSlot(a, HandleSlot(u.h))
     \/ (\A a \in Addr : ~Designates(u.h, a)) /\ UNCHANGED subscriber
  /\ held' = held \ {u}
  /\ givenBack' = givenBack \cup {u}
  /\ UNCHANGED <<hooks, name, eventId, dflt, hookId, stack, ret, nextTicket, created>>

\* The handles a plugin may unhook with.
Usable == IF ReuseHandles THEN held \cup givenBack ELSE held
-------------------------------------------------------------------------------
(* CallHookSubscribers.  Frame f is an activation whose last callback left   *)
(* returnVal = val in slot "from" (0 before the first).                      *)

\* The loop went on to the next slot that is not cleared; the count is read
\* again at every turn, so a subscriber added meanwhile is called as well.
CallNext(base, f, val, from) ==
  /\ val = 0
  /\ \E j \in (from + 1)..Len(subscriber[f.p]) :
       /\ subscriber[f.p][j] # NULL
       /\ \A k \in (from + 1)..(j - 1) : subscriber[f.p][k] = NULL
       /\ stack' = Append(base, [p |-> f.p, id |-> f.id, slot |-> j, due |-> f.due,
                                 calls |-> Append(f.calls, subscriber[f.p][j]),
                                 abort |-> 0])
  /\ UNCHANGED ret

\* The loop is over: a subscriber aborted, or no slot is left.
LoopEnds(f, val, from) ==
  \/ val # 0
  \/ \A j \in (from + 1)..Len(subscriber[f.p]) : subscriber[f.p][j] = NULL

\* Mutant of CallsDefault: the count is not looked at.
CallsDefaultAlways(f) == dflt[f.p]

CallsDefault(f) == subscriber[f.p] = <<>> /\ dflt[f.p]

CallDefault(base, f, val, from) ==
  /\ LoopEnds(f, val, from)
  /\ CallsDefault(f)
  /\ stack' = Append(base, [p |-> f.p, id |-> f.id, slot |-> DEFAULT, due |-> f.due,
                            calls |-> f.calls, abort |-> val])
  /\ UNCHANGED ret

Finish(base, f, val, from) ==
  /\ LoopEnds(f, val, from)
  /\ ~CallsDefault(f)
  /\ stack' = base
  /\ ret' = val

Resume(base, f, val, from) ==
  \/ CallNext(base, f, val, from)
  \/ CallDefault(base, f, val, from)
  \/ Finish(base, f, val, from)

\* A plugin notifies with an event handle it was given once.  List_IndexOf
\* compares addresses only.
NotifyEventHooks(e) ==
  /\ Len(stack) < MaxDepth
  /\ IF Contains(hooks, e.p)
     THEN Resume(stack, [p |-> e.p, id |-> e.id, slot |-> 0,
                         due |-> Live(subscriber[e.p]),
                         calls |-> <<>>, abort |-> 0], 0, 0)
     ELSE ret' = INVALID /\ UNCHANGED stack
  /\ UNCHANGED <<hooks, memory, hookId, nextTicket, held, givenBack, created>>

\* The callback of the innermost activation returns r.
HookReturns(r) ==
  /\ stack # <<>>
  /\ IF Top.slot = DEFAULT
     THEN stack' = Below /\ ret' = r
     ELSE Resume(Below, Top, r, Top.slot)
  /\ UNCHANGED <<hooks, memory, hookId, nextTicket, held, givenBack, created>>
-------------------------------------------------------------------------------
Next ==
  \/ \E n \in Name : CreateHookableEvent(n)
  \/ \E a \in Addr : DestroyHookableEvent(a)
  \/ \E a \in Addr, set \in BOOLEAN : SetHookDefaultForHookableEvent(a, set)
  \/ \E n \in Name : HookEvent(n)
  \/ \E u \in Usable : UnhookEvent(u)
  \/ \E e \in created : NotifyEventHooks(e)
  \/ \E r \in Result : HookReturns(r)

Spec == Init /\ [][Next]_vars
-------------------------------------------------------------------------------
TypeOK ==
  /\ hooks \in Seq(Addr)
  /\ name \in [Addr -> Name \cup {NULL}]
  /\ eventId \in [Addr -> Nat]
  /\ subscriber \in [Addr -> Seq(Nat)]
  /\ dflt \in [Addr -> BOOLEAN]
  /\ hookId \in 1..(MaxHookId + 1)
  /\ stack \in Seq(Frame)
  /\ ret \in Result \cup {INVALID}
  /\ nextTicket \in 1..(MaxTicket + 1)
  /\ held \subseteq [h : Nat, ticket : Nat]
  /\ givenBack \subseteq [h : Nat, ticket : Nat]
  /\ created \subseteq [p : Addr, id : Nat]

\* The list of events stays strictly sorted by name, which is what every
\* binary search in modules.c relies on to find an event that is there.
HooksSorted == IsSorted(hooks, name)

\* subscriberCount is 0 exactly when nobody is subscribed: the count is what
\* CallHookSubscribers looks at before it runs the default hook, while
\* unhooking only clears slots.  (Trailing cleared slots would silence the
\* default hook for ever.)
CountIsZeroIffNobodyHooked ==
  \A i \in 1..Len(hooks) :
    Live(subscriber[hooks[i]]) = {} <=> subscriber[hooks[i]] = <<>>

\* A hook handle a plugin still holds designates, among all events that exist
\* and whatever was created, destroyed, hooked and unhooked since, the slot of
\* its own subscription, and nobody else's.
HandlesDesignateTheirHook ==
  \A u \in held : \A i \in 1..Len(hooks) :
    eventId[hooks[i]] = HandleId(u.h) =>
      /\ HandleSlot(u.h) \in 1..Len(subscriber[hooks[i]])
      /\ subscriber[hooks[i]][HandleSlot(u.h)] = u.ticket

\* A notification that ran its loop to the end (returned 0 from it) has called
\* every subscriber that was hooked when it began and still is, whatever the
\* callbacks hooked and unhooked on the way.
EveryDueHookIsCalled ==
  [][Len(stack') < Len(stack) /\ Top.slot # DEFAULT /\ ret' = 0 =>
       \A t \in Top.due \cap Live(subscriber[Top.p]) :
         \E k \in 1..Len(Top.calls) : Top.calls[k] = t]_vars

\* A notification calls subscribers in the order they hooked, each once.
CallsInHookOrder ==
  \A d \in 1..Len(stack) : \A j, k \in 1..Len(stack[d].calls) :
    j < k => stack[d].calls[j] < stack[d].calls[k]

\* modules.h: "If one of the hooks returned nonzero to indicate abort, returns
\* that abort value immediately".  (Does not hold: see README, Disagreements.)
AbortValueIsReturned ==
  [][Len(stack') < Len(stack) /\ Top.abort # 0 => ret' = Top.abort]_vars

\* modules.h: the default hook "is ONLY CALLED when no one else has
\* HookEvent()'d": not in a notification that called a subscriber.  (Does not
\* hold: see README, Disagreements.)
DefaultOnlyIfNobodyHooked ==
  \A d \in 1..Len(stack) : stack[d].slot = DEFAULT => stack[d].calls = <<>>

\* modules.h: once an event is destroyed, "NotifyEventHooks() will fail if
\* called with this hEvent again": what runs for a handle is its own event.
\* (Does not hold: see README, Disagreements.)
NotifiesItsOwnEvent ==
  \A d \in 1..Len(stack) : stack[d].id = eventId[stack[d].p]
-------------------------------------------------------------------------------
(* The inductive invariant that carries the properties above.                *)

\* Ids of events come from the counter, one each.
IdsUnique ==
  /\ \A i \in 1..Len(hooks) : eventId[hooks[i]] \in 1..(hookId - 1)
  /\ \A i, j \in 1..Len(hooks) : eventId[hooks[i]] = eventId[hooks[j]] => i = j

\* An array never ends with a cleared slot, and its length fits in a handle.
ArraysTrimmed ==
  \A i \in 1..Len(hooks) :
    LET s == subscriber[hooks[i]]
    IN  Len(s) <= MaxSubscribers /\ (Len(s) > 0 => s[Len(s)] # NULL)

\* Handles that are held are of events created before, and of real tickets.
HeldFresh == \A u \in held : u.ticket # NULL /\ HandleId(u.h) < hookId

EngineInv ==
  /\ HooksSorted
  /\ IdsUnique
  /\ ArraysTrimmed
  /\ HeldFresh
  /\ ~ReuseHandles => HandlesDesignateTheirHook

\* Along an array tickets ascend, and all were issued before.
TicketsAscend ==
  \A a \in Addr : \A k \in 1..Len(subscriber[a]) :
    /\ subscriber[a][k] < nextTicket
    /\ \A j \in 1..(k - 1) :
         subscriber[a][k] # NULL => subscriber[a][j] < subscriber[a][k]

\* An activation is of an event that exists, and called in the order of hooking.
Sound(f) ==
  /\ Contains(hooks, f.p)
  /\ \A t \in f.due : t # NULL /\ t < nextTicket
  /\ \A c \in 1..Len(f.calls) :
       /\ f.calls[c] < nextTicket
       /\ \A b \in 1..(c - 1) : f.calls[b] < f.calls[c]

\* An activation whose loop is at slot "at": the slots it still has to look at
\* hold later tickets than any it called, and a ticket that was due when it
\* began is still ahead of it or was called.
Ahead(f, at) ==
  \A k \in 1..Len(subscriber[f.p]) :
    /\ k > at /\ subscriber[f.p][k] # NULL =>
         \A c \in 1..Len(f.calls) : f.calls[c] < subscriber[f.p][k]
    /\ subscriber[f.p][k] \in f.due =>
         k > at \/ \E c \in 1..Len(f.calls) : f.calls[c] = subscriber[f.p][k]

LoopInv(f) == Sound(f) /\ (f.slot # DEFAULT => Ahead(f, f.slot))

NotifyInv == TicketsAscend /\ \A d \in 1..Len(stack) : LoopInv(stack[d])
-------------------------------------------------------------------------------
(* Refinement: forgetting slots, addresses, names and handles, the engine is *)
(* the event bus of modules.h.  An event is known by its id, its             *)
(* subscriptions are the slots not cleared, and a notification by its last   *)
(* call.                                                                     *)
EventsWithId(id) == {a \in Addr : eventId[a] = id /\ Contains(hooks, a)}

Subscriptions ==
  [id \in 1..MaxHookId |-> UNION {Live(subscriber[a]) : a \in EventsWithId(id)}]

LastOf(calls) == IF calls = <<>> THEN 0 ELSE calls[Len(calls)]

BusFrame(f) == [event   |-> eventId[f.p],
                due     |-> f.due,
                last    |-> LastOf(f.calls),
                default |-> f.slot = DEFAULT]

Running == [d \in 1..Len(stack) |-> BusFrame(stack[d])]

Bus == INSTANCE EventBus WITH
  Event <- 1..MaxHookId,
  Value <- Result \cup {INVALID},
  subscriptions <- Subscriptions,
  running <- Running

\* The engine keeps the promises of EventBus: subscribers called in order, none
\* owed a call is passed over, the default hook runs only while nobody is
\* subscribed, and a notification returns only when it owes nothing or was told
\* to abort.
ImplementsEventBus == Bus!BusSpec
===============================================================================
