--------------------------- MODULE HookEngineProofs ---------------------------
(***************************************************************************)
(* Theorems about HookEngine, for every set of names and addresses and     *)
(* every bound that its assumption allows.                                 *)
(***************************************************************************)
EXTENDS HookEngine, ListProofs, SequenceTheorems, TLAPS

-------------------------------------------------------------------------------
(* Handles: the two halves of the 32-bit value come back unchanged.          *)

\* A handle is determined by its two halves.
LEMMA HandlePacks ==
  ASSUME NEW h \in Nat
  PROVE  h = Handle(HandleId(h), HandleSlot(h))
BY DEF Handle, HandleId, HandleSlot

-------------------------------------------------------------------------------
(* Type correctness.                                                         *)

\* The activation a notification of an event handle begins with.
LEMMA FirstActivation ==
  ASSUME TypeOK, NEW e \in created
  PROVE  [p |-> e.p, id |-> e.id, slot |-> 0, due |-> Live(subscriber[e.p]),
          calls |-> <<>>, abort |-> 0] \in Frame
<1>1. e.p \in Addr /\ e.id \in Nat /\ subscriber[e.p] \in Seq(Nat)
  BY DEF TypeOK
<1>2. Live(subscriber[e.p]) \in SUBSET Nat
  BY <1>1 DEF Live
<1>3. QED
  BY <1>1, <1>2 DEF Frame

\* Whatever CallHookSubscribers does next, the activations stay well formed, and
\* it calls somebody or finishes.
LEMMA ResumeType ==
  ASSUME TypeOK, NEW base \in Seq(Frame), NEW f \in Frame,
         NEW val \in Result, NEW from \in Nat,
         Resume(base, f, val, from)
  PROVE  /\ stack' \in Seq(Frame) /\ ret' \in Result \cup {INVALID}
         /\ Len(stack') = Len(base) + 1 \/ Finish(base, f, val, from)
<1>0. /\ f.p \in Addr /\ f.id \in Nat /\ f.due \in SUBSET Nat /\ f.calls \in Seq(Nat)
      /\ subscriber[f.p] \in Seq(Nat)
      /\ val \in Nat
  BY HookEngineAssumption DEF TypeOK, Frame
<1>1. CASE CallNext(base, f, val, from)
  <2>1. PICK j \in (from + 1)..Len(subscriber[f.p]) :
          stack' = Append(base, [p |-> f.p, id |-> f.id, slot |-> j, due |-> f.due,
                                 calls |-> Append(f.calls, subscriber[f.p][j]),
                                 abort |-> 0])
    BY <1>1 DEF CallNext
  <2>2. j \in Nat /\ Append(f.calls, subscriber[f.p][j]) \in Seq(Nat)
    <3>1. j \in Nat /\ j \in 1..Len(subscriber[f.p])
      BY <1>0, <2>1
    <3>2. subscriber[f.p][j] \in Nat
      BY <1>0, <3>1, SMTT(30)
    <3>3. QED
      BY <1>0, <3>1, <3>2
  <2>3. [p |-> f.p, id |-> f.id, slot |-> j, due |-> f.due,
         calls |-> Append(f.calls, subscriber[f.p][j]), abort |-> 0] \in Frame
    BY <1>0, <2>2 DEF Frame
  <2>4. QED
    BY <1>1, <2>1, <2>3 DEF CallNext, TypeOK
<1>2. CASE CallDefault(base, f, val, from)
  <2>1. [p |-> f.p, id |-> f.id, slot |-> DEFAULT, due |-> f.due,
         calls |-> f.calls, abort |-> val] \in Frame
    BY <1>0 DEF Frame, DEFAULT
  <2>2. QED
    BY <1>2, <2>1 DEF CallDefault, TypeOK
<1>3. CASE Finish(base, f, val, from)
  BY <1>3 DEF Finish
<1>4. QED
  BY <1>1, <1>2, <1>3 DEF Resume

\* Every step of the engine keeps the variables in their types.
LEMMA TypeInductive == TypeOK /\ [Next]_vars => TypeOK'
<1> SUFFICES ASSUME TypeOK, [Next]_vars PROVE TypeOK'
  OBVIOUS
<1>1. ASSUME NEW n \in Name, CreateHookableEvent(n) PROVE TypeOK'
  <2>1. PICK a \in Addr : \E i \in 1..(Len(hooks) + 1) : NewEvent(n, a, i)
    BY <1>1 DEF CreateHookableEvent
  <2>2. PICK i \in 1..(Len(hooks) + 1) : NewEvent(n, a, i)
    BY <2>1
  <2>3. hooks' \in Seq(Addr)
    BY <2>2, InsertType DEF NewEvent, TypeOK
  <2>4. hookId' \in 1..(MaxHookId + 1)
    <3>1. hookId \in Nat /\ 1 <= hookId /\ hookId <= MaxHookId /\ hookId' = hookId + 1
      BY <1>1 DEF CreateHookableEvent, TypeOK
    <3>2. QED
      BY <3>1, HookEngineAssumption
  <2>5. /\ name' \in [Addr -> Name \cup {NULL}]
        /\ eventId' \in [Addr -> Nat]
        /\ subscriber' \in [Addr -> Seq(Nat)]
        /\ dflt' \in [Addr -> BOOLEAN]
    BY <2>2 DEF NewEvent, TypeOK
  <2>6. created' \subseteq [p : Addr, id : Nat]
    BY <2>2 DEF NewEvent, TypeOK
  <2>7. UNCHANGED <<stack, ret, nextTicket, held, givenBack>>
    BY <1>1 DEF CreateHookableEvent
  <2>8. QED
    BY <2>3, <2>4, <2>5, <2>6, <2>7 DEF TypeOK
<1>2. ASSUME NEW a \in Addr, DestroyHookableEvent(a) PROVE TypeOK'
  <2>1. hooks' \in Seq(Addr)
    BY <1>2, RemoveType DEF DestroyHookableEvent, TypeOK
  <2>2. subscriber' \in [Addr -> Seq(Nat)]
    BY <1>2 DEF DestroyHookableEvent, TypeOK
  <2>3. UNCHANGED <<name, eventId, dflt, hookId, stack, ret, nextTicket, held,
                    givenBack, created>>
    BY <1>2 DEF DestroyHookableEvent
  <2>4. QED
    BY <2>1, <2>2, <2>3 DEF TypeOK
<1>3. ASSUME NEW a \in Addr, NEW set \in BOOLEAN,
             SetHookDefaultForHookableEvent(a, set)
      PROVE  TypeOK'
  <2>1. dflt' \in [Addr -> BOOLEAN]
    BY <1>3 DEF SetHookDefaultForHookableEvent, TypeOK
  <2>2. UNCHANGED <<hooks, name, eventId, subscriber, hookId, stack, ret, nextTicket,
                    held, givenBack, created>>
    BY <1>3 DEF SetHookDefaultForHookableEvent
  <2>3. QED
    BY <2>1, <2>2 DEF TypeOK
<1>4. ASSUME NEW n \in Name, HookEvent(n) PROVE TypeOK'
  <2>1. PICK i \in 1..Len(hooks) :
          /\ Len(subscriber[hooks[i]]) < MaxSubscribers
          /\ Subscribe(hooks[i], Len(subscriber[hooks[i]]) + 1,
                       Append(subscriber[hooks[i]], nextTicket))
    BY <1>4 DEF HookEvent
  <2>2. /\ hooks[i] \in Addr
        /\ eventId[hooks[i]] \in Nat
        /\ subscriber[hooks[i]] \in Seq(Nat)
        /\ nextTicket \in Nat
    BY DEF TypeOK
  <2>3. Handle(eventId[hooks[i]], Len(subscriber[hooks[i]]) + 1) \in Nat
    BY <2>2 DEF Handle
  <2>4. nextTicket' \in 1..(MaxTicket + 1)
    <3>1. nextTicket <= MaxTicket /\ nextTicket' = nextTicket + 1
      BY <1>4, <2>1 DEF HookEvent, Subscribe
    <3>2. nextTicket \in 1..(MaxTicket + 1)
      BY DEF TypeOK
    <3>3. QED
      BY <3>1, <3>2, HookEngineAssumption
  <2>5. subscriber' \in [Addr -> Seq(Nat)]
    BY <2>1, <2>2 DEF Subscribe, TypeOK
  <2>6. held' \subseteq [h : Nat, ticket : Nat]
    BY <2>1, <2>2, <2>3, SMTT(30) DEF Subscribe, TypeOK
  <2>7. UNCHANGED <<hooks, name, eventId, dflt, hookId, stack, ret, givenBack, created>>
    BY <2>1 DEF Subscribe
  <2>8. QED
    BY <2>4, <2>5, <2>6, <2>7 DEF TypeOK
<1>5. ASSUME NEW u \in Usable, UnhookEvent(u) PROVE TypeOK'
  <2>1. subscriber' \in [Addr -> Seq(Nat)]
    <3>1. ASSUME NEW a \in Addr, Designates(u.h, a), ClearSlot(a, HandleSlot(u.h))
          PROVE  subscriber' \in [Addr -> Seq(Nat)]
      <4> DEFINE s == [subscriber[a] EXCEPT ![HandleSlot(u.h)] = NULL]
      <4>1. s \in Seq(Nat)
        BY <3>1, ExceptSeq DEF TypeOK, NULL, Designates
      <4>2. PICK n \in 0..Len(subscriber[a]) : TrimTo(a, s, n)
        BY <3>1 DEF ClearSlot
      <4>3. n \in 0..Len(s)
        BY <4>2 DEF TrimTo, IsTrimmedCount
      <4>4. SubSeq(s, 1, n) \in Seq(Nat)
        BY <4>1, <4>3, SMTT(30)
      <4> HIDE DEF s
      <4>5. QED
        BY <4>2, <4>4 DEF TrimTo, TypeOK
    <3>2. QED
      BY <1>5, <3>1 DEF UnhookEvent, TypeOK
  <2>2. u \in [h : Nat, ticket : Nat]
    BY DEF TypeOK, Usable
  <2>3. /\ held' \subseteq [h : Nat, ticket : Nat]
        /\ givenBack' \subseteq [h : Nat, ticket : Nat]
    BY <1>5, <2>2 DEF UnhookEvent, TypeOK
  <2>4. UNCHANGED <<hooks, name, eventId, dflt, hookId, stack, ret, nextTicket, created>>
    BY <1>5 DEF UnhookEvent
  <2>5. QED
    BY <2>1, <2>3, <2>4 DEF TypeOK
<1>6. ASSUME NEW e \in created, NotifyEventHooks(e) PROVE TypeOK'
  <2>2. stack' \in Seq(Frame) /\ ret' \in Result \cup {INVALID}
    <3>1. CASE Contains(hooks, e.p)
      <4> DEFINE f == [p |-> e.p, id |-> e.id, slot |-> 0,
                       due |-> Live(subscriber[e.p]), calls |-> <<>>, abort |-> 0]
      <4>2. f \in Frame
        BY FirstActivation
      <4>3. Resume(stack, f, 0, 0)
        BY <1>6, <3>1 DEF NotifyEventHooks
      <4> HIDE DEF f
      <4>4. stack \in Seq(Frame) /\ 0 \in Result /\ 0 \in Nat
        BY HookEngineAssumption DEF TypeOK
      <4>5. QED
        BY <4>2, <4>3, <4>4, ResumeType
    <3>2. CASE ~Contains(hooks, e.p)
      <4>1. ret' = INVALID /\ UNCHANGED stack
        BY <1>6, <3>2 DEF NotifyEventHooks
      <4>2. stack \in Seq(Frame)
        BY DEF TypeOK
      <4>3. QED
        BY <4>1, <4>2
    <3>3. QED
      BY <3>1, <3>2
  <2>3. QED
    BY <1>6, <2>2 DEF NotifyEventHooks, TypeOK, memory
<1>7. ASSUME NEW r \in Result, HookReturns(r) PROVE TypeOK'
  <2>1. Top \in Frame /\ Below \in Seq(Frame)
    BY <1>7 DEF HookReturns, TypeOK, Top, Below
  <2>2. Top.slot \in Nat
    BY <2>1 DEF Frame
  <2>3. stack' \in Seq(Frame) /\ ret' \in Result \cup {INVALID}
    <3>1. CASE Top.slot = DEFAULT
      BY <1>7, <2>1, <3>1 DEF HookReturns
    <3>2. CASE Top.slot # DEFAULT
      BY <1>7, <2>1, <2>2, <3>2, ResumeType DEF HookReturns
    <3>3. QED
      BY <3>1, <3>2
  <2>4. QED
    BY <1>7, <2>3 DEF HookReturns, TypeOK, memory
<1>8. CASE UNCHANGED vars
  BY <1>8 DEF vars, memory, TypeOK
<1>9. QED
  BY <1>1, <1>2, <1>3, <1>4, <1>5, <1>6, <1>7, <1>8 DEF Next

LEMMA TypeInit == Init => TypeOK
BY HookEngineAssumption DEF Init, InitWith, TypeOK, NULL

\* The variables of the engine always have their types; in particular every
\* slot of every subscriber array is a ticket or NULL, and what notifications
\* return is a subscriber's value or -1.
THEOREM TypeCorrect == Spec => []TypeOK
BY TypeInit, TypeInductive, PTL DEF Spec

-------------------------------------------------------------------------------
(* The registry: the sorted list, the ids, the arrays and the handles.       *)

\* A new event keeps the list sorted, has an id of its own, and no handle that
\* anybody holds is of that id.
LEMMA CreateKeepsEngineInv ==
  ASSUME TypeOK, EngineInv, NEW n \in Name, CreateHookableEvent(n)
  PROVE  EngineInv'
<1>1. PICK a \in Addr : \E i \in 1..(Len(hooks) + 1) : NewEvent(n, a, i)
  BY DEF CreateHookableEvent
<1>2. PICK i \in 1..(Len(hooks) + 1) : NewEvent(n, a, i)
  BY <1>1
<1>3. hooks \in Seq(Addr) /\ hooks' = List_Insert(hooks, a, i)
  BY <1>2 DEF TypeOK, NewEvent
<1>4. /\ Len(hooks') = Len(hooks) + 1
      /\ \A j \in 1..(Len(hooks) + 1) :
           hooks'[j] = IF j < i THEN hooks[j] ELSE IF j = i THEN a ELSE hooks[j - 1]
  BY <1>2, <1>3, InsertType, SMTT(30)
<1> DEFINE old(j) == IF j < i THEN j ELSE j - 1
<1>5. /\ name'[a] = n /\ eventId'[a] = hookId /\ subscriber'[a] = <<>>
      /\ \A x \in 1..Len(hooks) :
           /\ hooks[x] \in Addr
           /\ name'[hooks[x]] = name[hooks[x]]
           /\ eventId'[hooks[x]] = eventId[hooks[x]]
           /\ subscriber'[hooks[x]] = subscriber[hooks[x]]
  BY <1>2, <1>3, SMTT(30) DEF NewEvent, TypeOK, Contains
<1>6. hookId' = hookId + 1 /\ hookId \in Nat /\ UNCHANGED held
  BY DEF CreateHookableEvent, TypeOK
<1>7. hooks'[i] = a
  BY <1>4, <1>3
<1>8. ASSUME NEW j \in 1..Len(hooks'), j # i
      PROVE  /\ old(j) \in 1..Len(hooks)
             /\ name'[hooks'[j]] = name[hooks[old(j)]]
             /\ eventId'[hooks'[j]] = eventId[hooks[old(j)]]
             /\ subscriber'[hooks'[j]] = subscriber[hooks[old(j)]]
  <2>1. Len(hooks) \in Nat /\ i \in 1..(Len(hooks) + 1) /\ j \in 1..(Len(hooks) + 1)
    BY <1>3, <1>4
  <2>2. old(j) \in 1..Len(hooks) /\ hooks'[j] = hooks[old(j)]
    BY <1>4, <1>8, <2>1
  <2>3. QED
    BY <1>5, <2>2
<1> HIDE DEF old
<1>9. HooksSorted'
  <2>1. SUFFICES ASSUME NEW j \in 1..Len(hooks'), NEW k \in 1..Len(hooks'), j < k
                 PROVE  name'[hooks'[j]] < name'[hooks'[k]]
    BY DEF HooksSorted, IsSorted
  <2>2. \A x, y \in 1..Len(hooks) : x < y => name[hooks[x]] < name[hooks[y]]
    BY DEF EngineInv, HooksSorted, IsSorted
  <2>3. /\ \A x \in 1..(i - 1) : name[hooks[x]] < n
        /\ \A x \in i..Len(hooks) : n < name[hooks[x]]
    BY <1>2 DEF NewEvent, IsInsertionPoint
  <2>4. CASE k = i
    <3>1. name'[hooks'[j]] = name[hooks[old(j)]] /\ old(j) \in 1..(i - 1)
      BY <1>8, <2>1, <2>4 DEF old
    <3>2. QED
      BY <1>5, <1>7, <2>3, <2>4, <3>1
  <2>5. CASE j = i
    <3>1. name'[hooks'[k]] = name[hooks[old(k)]] /\ old(k) \in i..Len(hooks)
      BY <1>8, <2>1, <2>5 DEF old
    <3>2. QED
      BY <1>5, <1>7, <2>3, <2>5, <3>1
  <2>6. CASE j # i /\ k # i
    <3>1. /\ name'[hooks'[j]] = name[hooks[old(j)]]
          /\ name'[hooks'[k]] = name[hooks[old(k)]]
          /\ old(j) \in 1..Len(hooks) /\ old(k) \in 1..Len(hooks)
      BY <1>8, <2>6
    <3>2. old(j) < old(k)
      BY <1>3, <1>4, <2>1, <2>6 DEF old
    <3>3. QED
      BY <2>2, <3>1, <3>2
  <2>7. QED
    BY <2>4, <2>5, <2>6
<1>10. IdsUnique'
  <2>0. hookId \in Nat /\ hookId >= 1 /\ hookId' - 1 = hookId
    <3>1. hookId \in 1..(MaxHookId + 1)
      BY DEF TypeOK
    <3>2. hookId >= 1 /\ hookId \in Nat
      BY <1>6, <3>1
    <3>3. hookId' - 1 = hookId
      BY <1>6, <3>2
    <3>4. QED
      BY <3>2, <3>3
  <2>1. \A x \in 1..Len(hooks) : /\ eventId[hooks[x]] < hookId
                                 /\ eventId[hooks[x]] \in Nat /\ eventId[hooks[x]] >= 1
    BY <2>0 DEF EngineInv, IdsUnique
  <2>2. ASSUME NEW j \in 1..Len(hooks') PROVE eventId'[hooks'[j]] \in 1..(hookId' - 1)
    <3>1. CASE j = i
      BY <1>5, <1>7, <2>0, <3>1
    <3>2. CASE j # i
      BY <1>8, <2>0, <2>1, <3>2
    <3>3. QED
      BY <3>1, <3>2
  <2>3. ASSUME NEW j \in 1..Len(hooks'), NEW k \in 1..Len(hooks'),
               eventId'[hooks'[j]] = eventId'[hooks'[k]]
        PROVE  j = k
    <3>1. CASE j = i
      <4>1. SUFFICES ASSUME k # i PROVE FALSE
        BY <3>1
      <4>2. QED
        BY <1>5, <1>6, <1>7, <1>8, <2>1, <2>3, <3>1, <4>1
    <3>2. CASE k = i
      <4>1. SUFFICES ASSUME j # i PROVE FALSE
        BY <3>2
      <4>2. QED
        BY <1>5, <1>6, <1>7, <1>8, <2>1, <2>3, <3>2, <4>1
    <3>3. CASE j # i /\ k # i
      <4>1. /\ eventId[hooks[old(j)]] = eventId[hooks[old(k)]]
            /\ old(j) \in 1..Len(hooks) /\ old(k) \in 1..Len(hooks)
        BY <1>8, <2>3, <3>3
      <4>2. old(j) = old(k)
        BY <4>1 DEF EngineInv, IdsUnique
      <4>3. QED
        BY <1>3, <1>4, <3>3, <4>2 DEF old
    <3>4. QED
      BY <3>1, <3>2, <3>3
  <2>4. QED
    BY <2>2, <2>3 DEF IdsUnique
<1>11. ArraysTrimmed'
  <2>1. SUFFICES ASSUME NEW j \in 1..Len(hooks')
                 PROVE  /\ Len(subscriber'[hooks'[j]]) <= MaxSubscribers
                        /\ Len(subscriber'[hooks'[j]]) > 0 =>
                             subscriber'[hooks'[j]][Len(subscriber'[hooks'[j]])] # NULL
    BY DEF ArraysTrimmed
  <2>2. CASE j = i
    BY <1>5, <1>7, <2>2, HookEngineAssumption
  <2>3. CASE j # i
    BY <1>8, <2>3 DEF EngineInv, ArraysTrimmed
  <2>4. QED
    BY <2>2, <2>3
<1>12. HeldFresh'
  <2>1. \A u \in held : HandleId(u.h) \in Nat
    BY DEF HandleId, TypeOK
  <2>2. QED
    BY <1>6, <2>1 DEF EngineInv, HeldFresh
<1>13. ASSUME ~ReuseHandles PROVE HandlesDesignateTheirHook'
  <2>1. SUFFICES ASSUME NEW u \in held, NEW j \in 1..Len(hooks'),
                        eventId'[hooks'[j]] = HandleId(u.h)
                 PROVE  /\ HandleSlot(u.h) \in 1..Len(subscriber'[hooks'[j]])
                        /\ subscriber'[hooks'[j]][HandleSlot(u.h)] = u.ticket
    BY <1>6 DEF HandlesDesignateTheirHook
  <2>2. HandleId(u.h) < hookId /\ HandleId(u.h) \in Nat
    BY SMTT(30) DEF EngineInv, HeldFresh, HandleId, TypeOK
  <2>3. j # i
    BY <1>5, <1>6, <1>7, <2>1, <2>2
  <2>4. QED
    BY <1>8, <1>13, <2>1, <2>3 DEF EngineInv, HandlesDesignateTheirHook
<1>14. QED
  BY <1>9, <1>10, <1>11, <1>12, <1>13 DEF EngineInv

\* Destroying an event leaves the others as they are.
LEMMA DestroyKeepsEngineInv ==
  ASSUME TypeOK, EngineInv, NEW a \in Addr, DestroyHookableEvent(a)
  PROVE  EngineInv'
<1>1. PICK i \in 1..Len(hooks) : hooks[i] = a /\ hooks' = List_Remove(hooks, i)
  BY DEF DestroyHookableEvent
<1>2. hooks \in Seq(Addr)
  BY DEF TypeOK
<1>3. /\ Len(hooks') = Len(hooks) - 1
      /\ \A j \in 1..(Len(hooks) - 1) :
           hooks'[j] = IF j < i THEN hooks[j] ELSE hooks[j + 1]
  <2>1. hooks' = List_Remove(hooks, i)
    BY <1>1
  <2>2. QED
    BY <1>2, <2>1, RemoveType
<1> DEFINE old(j) == IF j < i THEN j ELSE j + 1
<1>4. /\ UNCHANGED <<name, eventId, hookId, held>>
      /\ subscriber' = [subscriber EXCEPT ![a] = <<>>]
  BY DEF DestroyHookableEvent
<1>5. ASSUME NEW x \in 1..Len(hooks), x # i
      PROVE  hooks[x] \in Addr /\ subscriber'[hooks[x]] = subscriber[hooks[x]]
  <2>1. hooks[x] # a
    BY <1>1, <1>5 DEF EngineInv, IdsUnique
  <2>2. QED
    BY <1>2, <1>4, <2>1 DEF TypeOK
<1>6. ASSUME NEW j \in 1..Len(hooks')
      PROVE  /\ old(j) \in 1..Len(hooks)
             /\ hooks'[j] = hooks[old(j)]
             /\ subscriber'[hooks'[j]] = subscriber[hooks[old(j)]]
  <2>1. Len(hooks) \in Nat /\ j \in 1..(Len(hooks) - 1)
    BY <1>2, <1>3
  <2>2. old(j) \in 1..Len(hooks) /\ old(j) # i /\ hooks'[j] = hooks[old(j)]
    BY <1>3, <2>1
  <2>3. QED
    BY <1>5, <2>2
<1>7. ASSUME NEW j \in 1..Len(hooks'), NEW k \in 1..Len(hooks')
      PROVE  /\ j < k => old(j) < old(k)
             /\ old(j) = old(k) => j = k
  BY <1>2, <1>3
<1> HIDE DEF old
<1>8. HooksSorted'
  BY <1>4, <1>6, <1>7 DEF EngineInv, HooksSorted, IsSorted
<1>9. IdsUnique'
  <2>1. \A j \in 1..Len(hooks') : eventId'[hooks'[j]] \in 1..(hookId' - 1)
    BY <1>4, <1>6 DEF EngineInv, IdsUnique
  <2>2. ASSUME NEW j \in 1..Len(hooks'), NEW k \in 1..Len(hooks'),
               eventId'[hooks'[j]] = eventId'[hooks'[k]]
        PROVE  j = k
    <3>1. old(j) = old(k)
      BY <1>4, <1>6, <2>2 DEF EngineInv, IdsUnique
    <3>2. QED
      BY <1>7, <3>1
  <2>3. QED
    BY <2>1, <2>2 DEF IdsUnique
<1>10. ArraysTrimmed'
  BY <1>6 DEF EngineInv, ArraysTrimmed
<1>11. HeldFresh'
  BY <1>4 DEF EngineInv, HeldFresh
<1>12. ASSUME ~ReuseHandles PROVE HandlesDesignateTheirHook'
  BY <1>4, <1>6, <1>12 DEF EngineInv, HandlesDesignateTheirHook
<1>13. QED
  BY <1>8, <1>9, <1>10, <1>11, <1>12 DEF EngineInv

\* Two positions of the list hold two events.
LEMMA EventsDiffer ==
  ASSUME EngineInv, NEW i \in 1..Len(hooks), NEW j \in 1..Len(hooks), i # j
  PROVE  hooks[i] # hooks[j]
BY DEF EngineInv, IdsUnique

\* A new subscriber gets a slot no handle that is held designates.
LEMMA HookKeepsEngineInv ==
  ASSUME TypeOK, EngineInv, NEW n \in Name, HookEvent(n)
  PROVE  EngineInv'
<1>1. PICK i \in 1..Len(hooks) :
        /\ Len(subscriber[hooks[i]]) < MaxSubscribers
        /\ Subscribe(hooks[i], Len(subscriber[hooks[i]]) + 1,
                     Append(subscriber[hooks[i]], nextTicket))
  BY DEF HookEvent
<1> DEFINE s == subscriber[hooks[i]]
           k == Len(s) + 1
           new == [h |-> Handle(eventId[hooks[i]], k), ticket |-> nextTicket]
<1>2. /\ UNCHANGED <<hooks, name, eventId, hookId>>
      /\ subscriber' = [subscriber EXCEPT ![hooks[i]] = Append(s, nextTicket)]
      /\ held' = held \cup {new}
  BY <1>1 DEF Subscribe
<1>3. /\ hooks[i] \in Addr /\ s \in Seq(Nat) /\ eventId[hooks[i]] \in Nat
      /\ nextTicket \in Nat /\ nextTicket # NULL
      /\ Len(s) < MaxSubscribers
  BY <1>1 DEF TypeOK, NULL
<1>4. /\ subscriber'[hooks[i]] = Append(s, nextTicket)
      /\ \A j \in 1..Len(hooks) : j # i =>
           subscriber'[hooks[j]] = subscriber[hooks[j]]
  BY <1>2, <1>3, EventsDiffer, SMTT(30) DEF TypeOK
<1>5. /\ k \in Nat /\ k < 65536 /\ Len(Append(s, nextTicket)) = k
      /\ Append(s, nextTicket)[k] = nextTicket
      /\ \A j \in 1..Len(s) : Append(s, nextTicket)[j] = s[j]
  BY <1>3, HookEngineAssumption
<1> HIDE DEF s, k
<1>6. HandleId(new.h) = eventId[hooks[i]] /\ HandleSlot(new.h) = k
  <2>1. /\ HandleId(Handle(eventId[hooks[i]], k)) = eventId[hooks[i]]
        /\ HandleSlot(Handle(eventId[hooks[i]], k)) = k
    <3>1. eventId[hooks[i]] \in Nat /\ k \in Nat /\ k < 65536
      BY <1>3, <1>5
    <3>2. QED
      BY <3>1, SMTT(30) DEF Handle, HandleId, HandleSlot
  <2>2. QED
    BY <2>1
<1>7. HooksSorted' /\ IdsUnique'
  BY <1>2 DEF EngineInv, HooksSorted, IsSorted, IdsUnique
<1>8. ArraysTrimmed'
  <2>1. SUFFICES ASSUME NEW j \in 1..Len(hooks)
                 PROVE  /\ Len(subscriber'[hooks[j]]) <= MaxSubscribers
                        /\ Len(subscriber'[hooks[j]]) > 0 =>
                             subscriber'[hooks[j]][Len(subscriber'[hooks[j]])] # NULL
    BY <1>2 DEF ArraysTrimmed
  <2>2. CASE j = i
    BY <1>3, <1>4, <1>5, <2>2, HookEngineAssumption DEF k
  <2>3. CASE j # i
    BY <1>4, <2>3 DEF EngineInv, ArraysTrimmed
  <2>4. QED
    BY <2>2, <2>3
<1>9. HeldFresh'
  <2>1. eventId[hooks[i]] < hookId
    BY DEF EngineInv, IdsUnique, TypeOK
  <2>2. QED
    BY <1>2, <1>3, <1>6, <2>1 DEF EngineInv, HeldFresh
<1>10. ASSUME ~ReuseHandles PROVE HandlesDesignateTheirHook'
  <2>1. SUFFICES ASSUME NEW u \in held', NEW j \in 1..Len(hooks),
                        eventId[hooks[j]] = HandleId(u.h)
                 PROVE  /\ HandleSlot(u.h) \in 1..Len(subscriber'[hooks[j]])
                        /\ subscriber'[hooks[j]][HandleSlot(u.h)] = u.ticket
    BY <1>2 DEF HandlesDesignateTheirHook
  <2>2. CASE u = new
    <3>1. j = i
      BY <1>6, <2>1, <2>2 DEF EngineInv, IdsUnique
    <3>2. k \in 1..k
      BY <1>3, <1>5 DEF k
    <3>3. QED
      BY <1>4, <1>5, <1>6, <2>2, <3>1, <3>2
  <2>3. CASE u \in held
    <3>1. /\ HandleSlot(u.h) \in 1..Len(subscriber[hooks[j]])
          /\ subscriber[hooks[j]][HandleSlot(u.h)] = u.ticket
      BY <1>10, <2>1, <2>3 DEF EngineInv, HandlesDesignateTheirHook
    <3>2. CASE j = i
      BY <1>3, <1>4, <1>5, <3>1, <3>2, SMTT(30) DEF s, k
    <3>3. CASE j # i
      BY <1>4, <3>1, <3>3
    <3>4. QED
      BY <3>2, <3>3
  <2>4. QED
    BY <1>2, <2>1, <2>2, <2>3
<1>11. QED
  BY <1>7, <1>8, <1>9, <1>10 DEF EngineInv

\* Clearing a slot moves no other, and trimming drops none that is taken.
LEMMA ClearSlotEffect ==
  ASSUME TypeOK, NEW a \in Addr, NEW k \in 1..Len(subscriber[a]), ClearSlot(a, k)
  PROVE  /\ subscriber'[a] \in Seq(Nat)
         /\ Len(subscriber'[a]) <= Len(subscriber[a])
         /\ Len(subscriber'[a]) > 0 => subscriber'[a][Len(subscriber'[a])] # NULL
         /\ \A j \in 1..Len(subscriber'[a]) :
              subscriber'[a][j] = IF j = k THEN NULL ELSE subscriber[a][j]
         /\ \A j \in 1..Len(subscriber[a]) :
              j # k /\ subscriber[a][j] # NULL => j \in 1..Len(subscriber'[a])
         /\ \A b \in Addr : b # a => subscriber'[b] = subscriber[b]
<1> DEFINE s == [subscriber[a] EXCEPT ![k] = NULL]
<1>1. PICK n \in 0..Len(subscriber[a]) : TrimTo(a, s, n)
  BY DEF ClearSlot
<1>2. /\ s \in Seq(Nat) /\ Len(s) = Len(subscriber[a])
      /\ \A j \in 1..Len(subscriber[a]) :
           s[j] = IF j = k THEN NULL ELSE subscriber[a][j]
  BY ExceptSeq, SMTT(60) DEF TypeOK, NULL
<1> HIDE DEF s
<1>3. /\ n \in 0..Len(s)
      /\ n > 0 => s[n] # NULL
      /\ \A j \in (n + 1)..Len(s) : s[j] = NULL
      /\ subscriber' = [subscriber EXCEPT ![a] = SubSeq(s, 1, n)]
  BY <1>1 DEF TrimTo, IsTrimmedCount
<1>4. /\ SubSeq(s, 1, n) \in Seq(Nat)
      /\ Len(SubSeq(s, 1, n)) = n
      /\ \A j \in 1..n : SubSeq(s, 1, n)[j] = s[j]
  BY <1>2, <1>3
<1>5. /\ subscriber'[a] = SubSeq(s, 1, n)
      /\ \A b \in Addr : b # a => subscriber'[b] = subscriber[b]
  BY <1>3 DEF TypeOK
<1>6. \A j \in 1..Len(s) : s[j] # NULL => j \in 1..n
  <2>1. /\ n \in Nat /\ Len(s) \in Nat
        /\ \A j \in (n + 1)..Len(s) : s[j] = NULL
    BY <1>2, <1>3
  <2>2. QED
    BY ONLY <2>1
<1>7. Len(subscriber'[a]) = n /\ subscriber'[a] \in Seq(Nat)
  BY <1>4, <1>5
<1>8. \A j \in 1..n : subscriber'[a][j] = s[j]
  BY <1>4, <1>5
<1>9. \A j \in 1..n : j \in 1..Len(subscriber[a])
  BY <1>2, <1>3
<1>10. \A j \in 1..Len(subscriber'[a]) :
         subscriber'[a][j] = IF j = k THEN NULL ELSE subscriber[a][j]
  BY ONLY <1>2, <1>7, <1>8, <1>9
<1>11. \A j \in 1..Len(subscriber[a]) :
         j # k /\ subscriber[a][j] # NULL => j \in 1..Len(subscriber'[a])
  BY ONLY <1>2, <1>6, <1>7
<1>12. Len(subscriber'[a]) > 0 => subscriber'[a][Len(subscriber'[a])] # NULL
  <2>1. SUFFICES ASSUME n > 0 PROVE subscriber'[a][n] # NULL
    BY <1>7
  <2>2. n \in 1..n
    BY <2>1
  <2>3. QED
    BY <1>3, <1>8, <2>1, <2>2
<1>13. QED
  BY <1>2, <1>3, <1>5, <1>7, <1>10, <1>11, <1>12

\* Unhooking with a handle that is held takes away the subscription of that
\* handle; every other held handle still designates its own.
LEMMA UnhookKeepsEngineInv ==
  ASSUME TypeOK, EngineInv, NEW u \in Usable, UnhookEvent(u)
  PROVE  EngineInv'
<1>1. UNCHANGED <<hooks, name, eventId, hookId>> /\ held' = held \ {u}
  BY DEF UnhookEvent
<1>2. HooksSorted' /\ IdsUnique' /\ HeldFresh'
  BY <1>1 DEF EngineInv, HooksSorted, IsSorted, IdsUnique, HeldFresh
<1>3. CASE UNCHANGED subscriber
  BY <1>1, <1>2, <1>3 DEF EngineInv, ArraysTrimmed, HandlesDesignateTheirHook
<1>4. ASSUME NEW a \in Addr, Designates(u.h, a), ClearSlot(a, HandleSlot(u.h))
      PROVE  EngineInv'
  <2> DEFINE k == HandleSlot(u.h)
  <2>1. k \in 1..Len(subscriber[a]) /\ eventId[a] = HandleId(u.h)
    BY <1>4 DEF Designates
  <2>2. /\ Len(subscriber'[a]) <= Len(subscriber[a])
        /\ Len(subscriber'[a]) > 0 => subscriber'[a][Len(subscriber'[a])] # NULL
        /\ \A j \in 1..Len(subscriber'[a]) :
             subscriber'[a][j] = IF j = k THEN NULL ELSE subscriber[a][j]
        /\ \A j \in 1..Len(subscriber[a]) :
             j # k /\ subscriber[a][j] # NULL => j \in 1..Len(subscriber'[a])
        /\ \A b \in Addr : b # a => subscriber'[b] = subscriber[b]
        /\ Len(subscriber'[a]) \in Nat
    BY <1>4, <2>1, ClearSlotEffect
  <2> HIDE DEF k
  <2>3. \A j \in 1..Len(hooks) : hooks[j] \in Addr
    BY DEF TypeOK
  <2>4. ArraysTrimmed'
    <3>1. SUFFICES ASSUME NEW j \in 1..Len(hooks)
                   PROVE  /\ Len(subscriber'[hooks[j]]) <= MaxSubscribers
                          /\ Len(subscriber'[hooks[j]]) > 0 =>
                               subscriber'[hooks[j]][Len(subscriber'[hooks[j]])] # NULL
      BY <1>1 DEF ArraysTrimmed
    <3>2. Len(subscriber[hooks[j]]) <= MaxSubscribers
      BY DEF EngineInv, ArraysTrimmed
    <3>3. CASE hooks[j] = a
      <4>1. Len(subscriber[a]) \in Nat
        BY DEF TypeOK
      <4>2. QED
        BY <2>2, <3>2, <3>3, <4>1, HookEngineAssumption
    <3>4. CASE hooks[j] # a
      BY <2>2, <2>3, <3>4 DEF EngineInv, ArraysTrimmed
    <3>5. QED
      BY <3>3, <3>4
  <2>5. ASSUME ~ReuseHandles PROVE HandlesDesignateTheirHook'
    <3>1. SUFFICES ASSUME NEW v \in held, v # u, NEW j \in 1..Len(hooks),
                          eventId[hooks[j]] = HandleId(v.h)
                   PROVE  /\ HandleSlot(v.h) \in 1..Len(subscriber'[hooks[j]])
                          /\ subscriber'[hooks[j]][HandleSlot(v.h)] = v.ticket
      BY <1>1 DEF HandlesDesignateTheirHook
    <3>2. u \in held
      BY <2>5 DEF Usable
    <3>3. /\ HandleSlot(v.h) \in 1..Len(subscriber[hooks[j]])
          /\ subscriber[hooks[j]][HandleSlot(v.h)] = v.ticket
      BY <2>5, <3>1 DEF EngineInv, HandlesDesignateTheirHook
    <3>4. CASE hooks[j] = a
      <4>1. subscriber[a][k] = u.ticket
        BY <2>1, <2>5, <3>2, <3>4 DEF EngineInv, HandlesDesignateTheirHook, k
      <4>2. HandleSlot(v.h) # k
        <5>1. SUFFICES ASSUME HandleSlot(v.h) = k PROVE FALSE
          OBVIOUS
        <5>2. v.ticket = u.ticket
          BY <3>3, <3>4, <4>1, <5>1
        <5>3. v.h \in Nat /\ u.h \in Nat
          BY <3>1, <3>2 DEF TypeOK
        <5>4. v.h = u.h
          BY <2>1, <3>1, <3>4, <5>1, <5>3, HandlePacks DEF k
        <5>5. /\ v = [h |-> v.h, ticket |-> v.ticket]
              /\ u = [h |-> u.h, ticket |-> u.ticket]
          BY <3>1, <3>2 DEF TypeOK
        <5>6. QED
          BY <3>1, <5>2, <5>4, <5>5
      <4>3. v.ticket # NULL
        BY <3>1 DEF EngineInv, HeldFresh
      <4>4. QED
        BY <2>2, <3>3, <3>4, <4>2, <4>3
    <3>5. CASE hooks[j] # a
      BY <2>2, <2>3, <3>3, <3>5
    <3>6. QED
      BY <3>4, <3>5
  <2>6. QED
    BY <1>2, <2>4, <2>5 DEF EngineInv
<1>5. QED
  BY <1>3, <1>4 DEF UnhookEvent

\* The registry's invariant is inductive.
LEMMA EngineInductive == TypeOK /\ EngineInv /\ [Next]_vars => EngineInv'
<1> SUFFICES ASSUME TypeOK, EngineInv, [Next]_vars PROVE EngineInv'
  OBVIOUS
<1>1. ASSUME UNCHANGED <<hooks, name, eventId, subscriber, hookId, held>>
      PROVE  EngineInv'
  BY <1>1 DEF EngineInv, HooksSorted, IsSorted, IdsUnique, ArraysTrimmed, HeldFresh,
              HandlesDesignateTheirHook
<1>2. CASE \E n \in Name : CreateHookableEvent(n)
  BY <1>2, CreateKeepsEngineInv
<1>3. CASE \E a \in Addr : DestroyHookableEvent(a)
  BY <1>3, DestroyKeepsEngineInv
<1>4. CASE \E a \in Addr, set \in BOOLEAN : SetHookDefaultForHookableEvent(a, set)
  BY <1>1, <1>4 DEF SetHookDefaultForHookableEvent
<1>5. CASE \E n \in Name : HookEvent(n)
  BY <1>5, HookKeepsEngineInv
<1>6. CASE \E u \in Usable : UnhookEvent(u)
  BY <1>6, UnhookKeepsEngineInv
<1>7. CASE \E e \in created : NotifyEventHooks(e)
  BY <1>1, <1>7 DEF NotifyEventHooks, memory
<1>8. CASE \E r \in Result : HookReturns(r)
  BY <1>1, <1>8 DEF HookReturns, memory
<1>9. CASE UNCHANGED vars
  BY <1>1, <1>9 DEF vars, memory
<1>10. QED
  BY <1>2, <1>3, <1>4, <1>5, <1>6, <1>7, <1>8, <1>9 DEF Next

LEMMA EngineInvariant == Spec => []EngineInv
<1>1. Init => EngineInv
  BY DEF Init, InitWith, EngineInv, HooksSorted, IsSorted, IdsUnique, ArraysTrimmed,
         HeldFresh, HandlesDesignateTheirHook
<1>2. QED
  BY <1>1, TypeCorrect, EngineInductive, PTL DEF Spec

\* The list of events stays strictly sorted by name (CreateHookableEvent and
\* DestroyHookableEvent), so that the binary search of every later HookEvent
\* finds the event if it is there.
THEOREM ListStaysSorted == Spec => []HooksSorted
<1>1. EngineInv => HooksSorted
  BY DEF EngineInv
<1>2. QED
  BY <1>1, EngineInvariant, PTL

\* subscriberCount is 0 exactly when nobody is subscribed: UnhookEvent trims
\* every cleared slot off the end, so the default hook is never silenced by
\* slots nobody owns.
THEOREM CountIsZeroExactly == Spec => []CountIsZeroIffNobodyHooked
<1>1. TypeOK /\ EngineInv => CountIsZeroIffNobodyHooked
  <2>1. SUFFICES ASSUME TypeOK, EngineInv, NEW i \in 1..Len(hooks)
                 PROVE  Live(subscriber[hooks[i]]) = {} <=> subscriber[hooks[i]] = <<>>
    BY DEF CountIsZeroIffNobodyHooked
  <2> DEFINE s == subscriber[hooks[i]]
  <2>2. s \in Seq(Nat) /\ (Len(s) > 0 => s[Len(s)] # NULL)
    BY <2>1 DEF TypeOK, EngineInv, ArraysTrimmed
  <2> HIDE DEF s
  <2>3. s = <<>> => Live(s) = {}
    BY DEF Live
  <2>4. s # <<>> => s[Len(s)] \in Live(s)
    BY <2>2 DEF Live
  <2>5. QED
    BY <2>3, <2>4 DEF s
<1>2. QED
  BY <1>1, TypeCorrect, EngineInvariant, PTL

\* As long as no plugin unhooks twice with one handle, every handle a plugin
\* holds designates the slot of its own subscription, whatever others create,
\* destroy, hook and unhook: ids are never used again, slots never move, and
\* trimming drops cleared slots only.
THEOREM HandlesStayGood ==
  ASSUME ~ReuseHandles PROVE Spec => []HandlesDesignateTheirHook
<1>1. EngineInv => HandlesDesignateTheirHook
  BY DEF EngineInv
<1>2. QED
  BY <1>1, EngineInvariant, PTL

-------------------------------------------------------------------------------
(* Notifications: who is called, and in which order.                         *)

\* What an activation has behind and ahead of it survives a step that keeps its
\* event, and only clears slots of it or adds a new ticket at the end.
LEMMA LoopInvKept ==
  ASSUME TypeOK, NEW f \in Frame, LoopInv(f),
         Contains(hooks, f.p)', nextTicket' \in Nat, nextTicket <= nextTicket',
         \A k \in 1..Len(subscriber'[f.p]) :
           \/ subscriber'[f.p][k] = NULL
           \/ /\ k \in 1..Len(subscriber[f.p])
              /\ subscriber'[f.p][k] = subscriber[f.p][k]
           \/ subscriber'[f.p][k] = nextTicket
  PROVE  LoopInv(f)'
<1>1. /\ f.p \in Addr /\ f.due \subseteq Nat /\ f.calls \in Seq(Nat)
      /\ nextTicket \in Nat
  BY DEF Frame, TypeOK
<1>2. Sound(f)'
  BY <1>1 DEF LoopInv, Sound
<1>3. ASSUME f.slot # DEFAULT PROVE Ahead(f, f.slot)'
  <2>1. Ahead(f, f.slot)
    BY <1>3 DEF LoopInv
  <2>2. /\ \A t \in f.due : t # NULL /\ t < nextTicket
        /\ \A c \in 1..Len(f.calls) : f.calls[c] < nextTicket
    BY DEF LoopInv, Sound
  <2>3. SUFFICES ASSUME NEW k \in 1..Len(subscriber'[f.p])
                 PROVE  /\ k > f.slot /\ subscriber'[f.p][k] # NULL =>
                             \A c \in 1..Len(f.calls) : f.calls[c] < subscriber'[f.p][k]
                        /\ subscriber'[f.p][k] \in f.due =>
                             \/ k > f.slot
                             \/ \E c \in 1..Len(f.calls) : f.calls[c] = subscriber'[f.p][k]
    BY DEF Ahead
  <2>4. CASE subscriber'[f.p][k] = NULL
    BY <2>2, <2>4
  <2>5. CASE k \in 1..Len(subscriber[f.p]) /\ subscriber'[f.p][k] = subscriber[f.p][k]
    BY <2>1, <2>5 DEF Ahead
  <2>6. CASE subscriber'[f.p][k] = nextTicket
    BY <1>1, <2>2, <2>6
  <2>7. QED
    BY <2>4, <2>5, <2>6
<1>4. QED
  BY <1>2, <1>3 DEF LoopInv

\* The same for a step that leaves the arrays and the list alone.
LEMMA LoopInvUntouched ==
  ASSUME NEW f \in Frame, LoopInv(f), UNCHANGED <<hooks, subscriber, nextTicket>>
  PROVE  LoopInv(f)'
BY DEF LoopInv, Sound, Ahead, Contains

\* Appending a larger number to an ascending list of numbers keeps what is
\* below a bound below it.
LEMMA AppendBelow ==
  ASSUME NEW q \in Seq(Nat), NEW e \in Nat, NEW m \in Nat, e < m,
         \A c \in 1..Len(q) : q[c] < e
  PROVE  \A c \in 1..Len(Append(q, e)) : Append(q, e)[c] < m
BY AppendProperties

\* Whatever CallHookSubscribers does next, its activations stay sound: the next
\* slot called is the first not cleared, so no due ticket is passed over.
LEMMA ResumeKeepsLoopInv ==
  ASSUME TypeOK, TicketsAscend, NEW base \in Seq(Frame), NEW f \in Frame,
         NEW val \in Result, NEW from \in Nat,
         \A d \in 1..Len(base) : LoopInv(base[d]),
         Sound(f), Ahead(f, from),
         Resume(base, f, val, from)
  PROVE  \A d \in 1..Len(stack') : LoopInv(stack'[d])
<1> DEFINE s == subscriber[f.p]
<1>0. /\ f.p \in Addr /\ f.id \in Nat /\ f.due \in SUBSET Nat /\ f.calls \in Seq(Nat)
      /\ s \in Seq(Nat) /\ nextTicket \in Nat /\ val \in Nat
  BY HookEngineAssumption DEF TypeOK, Frame
<1>a. \A k \in 1..Len(s) : k \in Nat /\ s[k] \in Nat
  BY <1>0, SMTT(30)
<1>b. \A k \in 1..Len(s) :
        /\ s[k] < nextTicket
        /\ \A j \in 1..(k - 1) : s[k] # NULL => s[j] < s[k]
  BY <1>0 DEF TicketsAscend
<1>1. ASSUME NEW g \in Frame, stack' = Append(base, g), LoopInv(g)
      PROVE  \A d \in 1..Len(stack') : LoopInv(stack'[d])
  <2>1. SUFFICES ASSUME NEW d \in 1..Len(stack') PROVE LoopInv(stack'[d])
    OBVIOUS
  <2>2. CASE d \in 1..Len(base)
    <3>1. stack'[d] = base[d]
      BY <1>1, <2>2
    <3>2. QED
      BY <2>2, <3>1
  <2>3. CASE d = Len(base) + 1
    <3>1. stack'[d] = g
      BY <1>1, <2>3
    <3>2. QED
      BY <1>1, <3>1
  <2>4. QED
    BY <1>1, <2>2, <2>3
<1>2. CASE CallNext(base, f, val, from)
  <2>1. PICK j \in (from + 1)..Len(s) :
          /\ s[j] # NULL
          /\ \A k \in (from + 1)..(j - 1) : s[k] = NULL
          /\ stack' = Append(base, [p |-> f.p, id |-> f.id, slot |-> j, due |-> f.due,
                                    calls |-> Append(f.calls, s[j]), abort |-> 0])
    BY <1>2 DEF CallNext
  <2> DEFINE g == [p |-> f.p, id |-> f.id, slot |-> j, due |-> f.due,
                   calls |-> Append(f.calls, s[j]), abort |-> 0]
  <2>2. j \in Nat /\ j > from /\ j \in 1..Len(s) /\ s[j] \in Nat /\ s[j] < nextTicket
    BY <1>0, <1>a, <1>b, <2>1, SMTT(30)
  <2>3. g \in Frame
    BY <1>0, <2>2 DEF Frame
  <2>4. \A c \in 1..Len(f.calls) : f.calls[c] < s[j]
    BY <1>0, <2>1, <2>2 DEF Ahead
  <2>5. Sound(g)
    <3>1. \A c \in 1..Len(g.calls) :
            /\ g.calls[c] < nextTicket
            /\ \A b \in 1..(c - 1) : g.calls[b] < g.calls[c]
      BY <1>0, <2>2, <2>4, SMTT(30) DEF Sound
    <3>2. QED
      BY <3>1 DEF Sound
  <2>6. Ahead(g, j)
    <3>1. SUFFICES ASSUME NEW k \in 1..Len(s)
                   PROVE  /\ k > j /\ s[k] # NULL =>
                               \A c \in 1..Len(g.calls) : g.calls[c] < s[k]
                          /\ s[k] \in f.due =>
                               k > j \/ \E c \in 1..Len(g.calls) : g.calls[c] = s[k]
      BY DEF Ahead
    <3>2. k \in Nat /\ s[k] \in Nat
      BY <1>a
    <3>3. ASSUME k > j, s[k] # NULL, NEW c \in 1..Len(g.calls)
          PROVE  g.calls[c] < s[k]
      <4>1. s[j] < s[k]
        BY <1>b, <2>2, <3>2, <3>3
      <4>2. \A b \in 1..Len(Append(f.calls, s[j])) : Append(f.calls, s[j])[b] < s[k]
        BY <1>0, <2>2, <2>4, <3>2, <4>1, AppendBelow
      <4>3. QED
        BY <3>3, <4>2
    <3>4. ASSUME s[k] \in f.due, ~(k > j)
          PROVE  \E c \in 1..Len(g.calls) : g.calls[c] = s[k]
      <4>1. s[k] # NULL
        BY <3>4 DEF Sound
      <4>2. CASE k > from
        <5>1. k = j
          BY <2>1, <2>2, <3>2, <3>4, <4>1, <4>2
        <5>2. g.calls[Len(f.calls) + 1] = s[k] /\ Len(f.calls) + 1 \in 1..Len(g.calls)
          BY <1>0, <2>2, <5>1, SMTT(30)
        <5>3. QED
          BY <5>2
      <4>3. CASE ~(k > from)
        <5>1. PICK c \in 1..Len(f.calls) : f.calls[c] = s[k]
          BY <1>0, <3>4, <4>3 DEF Ahead
        <5>2. g.calls[c] = s[k] /\ c \in 1..Len(g.calls)
          BY <1>0, <2>2, <5>1
        <5>3. QED
          BY <5>2
      <4>4. QED
        BY <4>2, <4>3
    <3>5. QED
      BY <3>3, <3>4
  <2>7. LoopInv(g)
    BY <2>5, <2>6 DEF LoopInv
  <2>8. QED
    BY <1>1, <2>1, <2>3, <2>7
<1>3. CASE CallDefault(base, f, val, from)
  <2> DEFINE g == [p |-> f.p, id |-> f.id, slot |-> DEFAULT, due |-> f.due,
                   calls |-> f.calls, abort |-> val]
  <2>1. g \in Frame /\ stack' = Append(base, g)
    BY <1>0, <1>3 DEF Frame, CallDefault, DEFAULT
  <2>2. LoopInv(g)
    BY DEF LoopInv, Sound
  <2>3. QED
    BY <1>1, <2>1, <2>2
<1>4. CASE Finish(base, f, val, from)
  BY <1>4 DEF Finish
<1>5. QED
  BY <1>2, <1>3, <1>4 DEF Resume

\* A step that leaves list, arrays and tickets alone keeps the invariant if the
\* activations it leaves are sound.
LEMMA SoundStack ==
  ASSUME TicketsAscend, UNCHANGED <<hooks, subscriber, nextTicket>>,
         \A d \in 1..Len(stack') : LoopInv(stack'[d])
  PROVE  NotifyInv'
BY DEF NotifyInv, TicketsAscend, LoopInv, Sound, Ahead, Contains

\* The activations under the innermost one.
LEMMA TopAndBelow ==
  ASSUME stack \in Seq(Frame), stack # <<>>
  PROVE  /\ Len(stack) \in 1..Len(stack) /\ Top = stack[Len(stack)] /\ Top \in Frame
         /\ Below \in Seq(Frame) /\ Len(Below) = Len(stack) - 1
         /\ \A d \in 1..Len(Below) : d \in 1..Len(stack) /\ Below[d] = stack[d]
<1>1. Len(stack) \in Nat /\ Len(stack) > 0
  OBVIOUS
<1>2. /\ 1 \in Int /\ Len(stack) - 1 \in Int
      /\ \A i \in 1..(Len(stack) - 1) : stack[i] \in Frame
  BY <1>1
<1>3. /\ Below \in Seq(Frame)
      /\ Len(Below) = IF 1 <= Len(stack) - 1 THEN (Len(stack) - 1) - 1 + 1 ELSE 0
      /\ \A i \in 1..((Len(stack) - 1) - 1 + 1) : Below[i] = stack[1 + i - 1]
  BY <1>2, SubSeqProperties DEF Below
<1>4. \A d \in 1..Len(Below) : d \in 1..Len(stack) /\ Below[d] = stack[d]
  BY <1>1, <1>3
<1>5. Len(Below) = Len(stack) - 1
  <2>1. \A n \in Nat : n > 0 => (IF 1 <= n - 1 THEN (n - 1) - 1 + 1 ELSE 0) = n - 1
    OBVIOUS
  <2>2. QED
    BY <1>1, <1>3, <2>1
<1>6. Top = stack[Len(stack)] /\ Top \in Frame
  BY <1>1 DEF Top
<1>7. QED
  BY <1>1, <1>3, <1>4, <1>5, <1>6

\* Activations that were sound and whose events and arrays are kept stay sound.
LEMMA StackStaysSound ==
  ASSUME TypeOK, NotifyInv, UNCHANGED stack,
         nextTicket' \in Nat, nextTicket <= nextTicket',
         \A d \in 1..Len(stack) : Contains(hooks', stack[d].p),
         \A d \in 1..Len(stack) : \A k \in 1..Len(subscriber'[stack[d].p]) :
           \/ subscriber'[stack[d].p][k] = NULL
           \/ /\ k \in 1..Len(subscriber[stack[d].p])
              /\ subscriber'[stack[d].p][k] = subscriber[stack[d].p][k]
           \/ subscriber'[stack[d].p][k] = nextTicket
  PROVE  (\A d \in 1..Len(stack) : LoopInv(stack[d]))'
<1>1. SUFFICES ASSUME NEW d \in 1..Len(stack) PROVE LoopInv(stack[d])'
  OBVIOUS
<1>2. PICK g \in Frame : g = stack[d]
  BY DEF TypeOK
<1>3. LoopInv(g)
  BY <1>2 DEF NotifyInv
<1>4. Contains(hooks, g.p)'
  BY <1>2 DEF Contains
<1>5. LoopInv(g)'
  BY <1>2, <1>3, <1>4, LoopInvKept
<1>6. QED
  BY <1>2, <1>5 DEF LoopInv, Sound, Ahead, Contains

\* The event of an activation exists.
LEMMA ActivationsAreOfEvents ==
  ASSUME TypeOK, NotifyInv, NEW d \in 1..Len(stack)
  PROVE  stack[d].p \in Addr /\ Contains(hooks, stack[d].p)
<1>1. stack[d] \in Frame
  BY DEF TypeOK
<1>2. LoopInv(stack[d])
  BY DEF NotifyInv
<1>3. QED
  BY <1>1, <1>2 DEF Frame, LoopInv, Sound

\* A new event is nobody's activation: the address was not in the list.
LEMMA CreateKeepsNotifyInv ==
  ASSUME TypeOK, TypeOK', NotifyInv, NEW n \in Name, CreateHookableEvent(n)
  PROVE  NotifyInv'
<1>1. PICK a \in Addr, i \in 1..(Len(hooks) + 1) : NewEvent(n, a, i)
  BY DEF CreateHookableEvent
<1>a. hooks \in Seq(Addr) /\ nextTicket \in Nat /\ UNCHANGED <<stack, nextTicket>>
  BY DEF CreateHookableEvent, TypeOK
<1>b. /\ ~Contains(hooks, a)
      /\ hooks' = List_Insert(hooks, a, i)
      /\ subscriber' = [subscriber EXCEPT ![a] = <<>>]
  BY <1>1 DEF NewEvent
<1>2. \A j \in 1..Len(hooks) : hooks[j] # a
  BY <1>b DEF Contains
<1>3. /\ subscriber'[a] = <<>>
      /\ \A b \in Addr : b # a => subscriber'[b] = subscriber[b]
  BY <1>b DEF TypeOK
<1>c. /\ Len(hooks') = Len(hooks) + 1 /\ Len(hooks) \in Nat
      /\ \A j \in 1..(Len(hooks) + 1) :
           hooks'[j] = IF j < i THEN hooks[j] ELSE IF j = i THEN a ELSE hooks[j - 1]
  BY <1>a, <1>b, InsertType
<1>4. ASSUME NEW b, Contains(hooks, b) PROVE Contains(hooks', b)
  <2>1. PICK j \in 1..Len(hooks) : hooks[j] = b
    BY <1>4 DEF Contains
  <2>2. CASE j < i
    <3>1. j \in 1..Len(hooks') /\ hooks'[j] = b
      BY <1>c, <2>1, <2>2
    <3>2. QED
      BY <3>1 DEF Contains
  <2>3. CASE ~(j < i)
    <3>1. j + 1 \in 1..Len(hooks') /\ hooks'[j + 1] = hooks[(j + 1) - 1] /\ (j + 1) - 1 = j
      BY <1>c, <2>1, <2>3
    <3>2. QED
      BY <2>1, <3>1 DEF Contains
  <2>4. QED
    BY <2>2, <2>3
<1>5. TicketsAscend'
  BY <1>a, <1>3 DEF NotifyInv, TicketsAscend
<1>6. ASSUME NEW d \in 1..Len(stack)
      PROVE  /\ Contains(hooks', stack[d].p)
             /\ subscriber'[stack[d].p] = subscriber[stack[d].p]
  <2>1. stack[d].p \in Addr /\ Contains(hooks, stack[d].p)
    BY ActivationsAreOfEvents
  <2>2. stack[d].p # a
    BY <1>b, <2>1
  <2>3. QED
    BY <1>3, <1>4, <2>1, <2>2
<1>7. (\A d \in 1..Len(stack) : LoopInv(stack[d]))'
  BY <1>a, <1>6, StackStaysSound
<1>8. QED
  BY <1>5, <1>7 DEF NotifyInv

\* The destroyed event has no activation; the others stay in the list.
LEMMA DestroyKeepsNotifyInv ==
  ASSUME TypeOK, TypeOK', NotifyInv, NEW a \in Addr, DestroyHookableEvent(a)
  PROVE  NotifyInv'
<1>1. PICK i \in 1..Len(hooks) : hooks[i] = a /\ hooks' = List_Remove(hooks, i)
  BY DEF DestroyHookableEvent
<1>2. /\ hooks \in Seq(Addr) /\ UNCHANGED <<stack, nextTicket>> /\ nextTicket \in Nat
      /\ subscriber'[a] = <<>>
      /\ \A b \in Addr : b # a => subscriber'[b] = subscriber[b]
      /\ \A d \in 1..Len(stack) : stack[d].p # a
  BY DEF DestroyHookableEvent, TypeOK
<1>3. ASSUME NEW b, b # a, Contains(hooks, b) PROVE Contains(hooks', b)
  <2>1. PICK j \in 1..Len(hooks) : hooks[j] = b
    BY <1>3 DEF Contains
  <2>2. /\ Len(hooks') = Len(hooks) - 1 /\ Len(hooks) \in Nat
        /\ j < i => hooks'[j] = b
        /\ j > i => hooks'[j - 1] = b
    BY <1>1, <1>2, <2>1, RemoveType, SMTT(30)
  <2>3. j # i
    BY <1>1, <1>3, <2>1
  <2>4. QED
    BY <2>1, <2>2, <2>3 DEF Contains
<1>4. TicketsAscend'
  BY <1>2 DEF NotifyInv, TicketsAscend
<1>5. ASSUME NEW d \in 1..Len(stack)
      PROVE  /\ Contains(hooks', stack[d].p)
             /\ subscriber'[stack[d].p] = subscriber[stack[d].p]
  <2>1. stack[d].p \in Addr /\ Contains(hooks, stack[d].p)
    BY ActivationsAreOfEvents
  <2>2. stack[d].p # a
    BY <1>2
  <2>3. QED
    BY <1>2, <1>3, <2>1, <2>2
<1>6. (\A d \in 1..Len(stack) : LoopInv(stack[d]))'
  BY <1>2, <1>5, StackStaysSound
<1>7. QED
  BY <1>4, <1>6 DEF NotifyInv

\* The new subscriber's ticket is later than all others, and its slot last.
LEMMA HookKeepsNotifyInv ==
  ASSUME TypeOK, TypeOK', NotifyInv, NEW n \in Name, HookEvent(n)
  PROVE  NotifyInv'
<1>1. PICK i \in 1..Len(hooks) :
        Subscribe(hooks[i], Len(subscriber[hooks[i]]) + 1,
                  Append(subscriber[hooks[i]], nextTicket))
  BY DEF HookEvent
<1> DEFINE a == hooks[i]
           s == subscriber[a]
<1>2. /\ a \in Addr /\ s \in Seq(Nat) /\ nextTicket \in Nat
      /\ UNCHANGED <<hooks, stack>> /\ nextTicket' = nextTicket + 1
      /\ subscriber' = [subscriber EXCEPT ![a] = Append(s, nextTicket)]
  BY <1>1 DEF Subscribe, TypeOK
<1>3. /\ subscriber'[a] = Append(s, nextTicket)
      /\ \A b \in Addr : b # a => subscriber'[b] = subscriber[b]
  BY <1>2 DEF TypeOK
<1>4. /\ Len(subscriber'[a]) = Len(s) + 1 /\ Len(s) \in Nat
      /\ subscriber'[a][Len(s) + 1] = nextTicket
      /\ \A k \in 1..Len(s) : subscriber'[a][k] = s[k] /\ s[k] \in Nat
  BY <1>2, <1>3, AppendProperties
<1>5. /\ \A k \in 1..Len(s) :
           /\ s[k] < nextTicket
           /\ \A j \in 1..(k - 1) : s[k] # NULL => s[j] < s[k]
      /\ \A b \in Addr : subscriber[b] \in Seq(Nat)
  BY <1>2 DEF NotifyInv, TicketsAscend, TypeOK
<1> HIDE DEF s, a
<1>6. TicketsAscend'
  <2>1. SUFFICES ASSUME NEW b \in Addr, NEW k \in 1..Len(subscriber'[b])
                 PROVE  /\ subscriber'[b][k] < nextTicket'
                        /\ \A j \in 1..(k - 1) : subscriber'[b][k] # NULL =>
                             subscriber'[b][j] < subscriber'[b][k]
    BY DEF TicketsAscend
  <2>2. CASE b # a
    <3>1. subscriber[b][k] \in Nat /\ subscriber[b][k] < nextTicket
      BY <1>3, <1>5, <2>1, <2>2 DEF NotifyInv, TicketsAscend
    <3>2. QED
      BY <1>2, <1>3, <2>1, <2>2, <3>1 DEF NotifyInv, TicketsAscend
  <2>3. CASE b = a /\ k = Len(s) + 1
    <3>1. \A j \in 1..(k - 1) : j \in 1..Len(s) /\ s[j] < nextTicket
      BY <1>4, <1>5, <2>3
    <3>2. \A j \in 1..(k - 1) : subscriber'[b][j] = s[j] /\ s[j] \in Nat
      BY <1>4, <2>3, <3>1
    <3>3. subscriber'[b][k] = nextTicket
      BY <1>4, <2>3
    <3>4. nextTicket \in Nat /\ nextTicket' = nextTicket + 1
      BY <1>2
    <3>5. subscriber'[b][k] < nextTicket'
      BY <3>3, <3>4
    <3>6. ASSUME NEW j \in 1..(k - 1) PROVE subscriber'[b][j] < subscriber'[b][k]
      BY <3>1, <3>2, <3>3
    <3>7. QED
      BY <3>5, <3>6
  <2>4. CASE b = a /\ k \in 1..Len(s)
    <3>1. \A j \in 1..(k - 1) : j \in 1..Len(s)
      BY <1>4, <2>4
    <3>2. subscriber'[b][k] = s[k] /\ s[k] \in Nat /\ s[k] < nextTicket
      BY <1>4, <1>5, <2>4
    <3>3. \A j \in 1..(k - 1) : subscriber'[b][j] = s[j] /\ s[j] \in Nat
      BY <1>4, <2>4, <3>1
    <3>4. nextTicket \in Nat /\ nextTicket' = nextTicket + 1
      BY <1>2
    <3>5. QED
      BY <1>5, <2>4, <3>2, <3>3, <3>4
  <2>5. QED
    BY <1>4, <2>1, <2>2, <2>3, <2>4
<1>7. ASSUME NEW d \in 1..Len(stack)
      PROVE  /\ Contains(hooks', stack[d].p)
             /\ \A k \in 1..Len(subscriber'[stack[d].p]) :
                  \/ subscriber'[stack[d].p][k] = NULL
                  \/ /\ k \in 1..Len(subscriber[stack[d].p])
                     /\ subscriber'[stack[d].p][k] = subscriber[stack[d].p][k]
                  \/ subscriber'[stack[d].p][k] = nextTicket
  <2>1. stack[d].p \in Addr /\ Contains(hooks, stack[d].p)
    BY ActivationsAreOfEvents
  <2>2. CASE stack[d].p = a
    BY <1>2, <1>4, <2>1, <2>2 DEF s
  <2>3. CASE stack[d].p # a
    BY <1>2, <1>3, <2>1, <2>3
  <2>4. QED
    BY <2>2, <2>3
<1>8. (\A d \in 1..Len(stack) : LoopInv(stack[d]))'
  BY <1>2, <1>7, StackStaysSound
<1>9. QED
  BY <1>6, <1>8 DEF NotifyInv

\* Unhooking clears one slot, moves none, and trims the cleared ones at the end.
LEMMA UnhookKeepsNotifyInv ==
  ASSUME TypeOK, TypeOK', NotifyInv, NEW u \in Usable, UnhookEvent(u)
  PROVE  NotifyInv'
<1>1. UNCHANGED <<hooks, stack, nextTicket>> /\ nextTicket \in Nat
  BY DEF UnhookEvent, TypeOK
<1>2. \A b \in Addr : subscriber[b] \in Seq(Nat)
  BY DEF TypeOK
<1>3. ASSUME NEW b \in Addr, NEW k \in 1..Len(subscriber'[b])
      PROVE  /\ k \in 1..Len(subscriber[b])
             /\ subscriber'[b][k] = NULL \/ subscriber'[b][k] = subscriber[b][k]
  <2>1. CASE UNCHANGED subscriber
    BY <2>1
  <2>2. ASSUME NEW a \in Addr, Designates(u.h, a), ClearSlot(a, HandleSlot(u.h))
        PROVE  /\ k \in 1..Len(subscriber[b])
               /\ subscriber'[b][k] = NULL \/ subscriber'[b][k] = subscriber[b][k]
    <3>1. HandleSlot(u.h) \in 1..Len(subscriber[a])
      BY <2>2 DEF Designates
    <3>2. /\ subscriber'[a] \in Seq(Nat)
          /\ Len(subscriber'[a]) <= Len(subscriber[a])
          /\ \A j \in 1..Len(subscriber'[a]) :
               subscriber'[a][j] = NULL \/ subscriber'[a][j] = subscriber[a][j]
          /\ b # a => subscriber'[b] = subscriber[b]
      BY <2>2, <3>1, ClearSlotEffect
    <3>3. CASE b = a
      <4>1. Len(subscriber[a]) \in Nat /\ Len(subscriber'[a]) \in Nat
        BY <1>2, <3>2
      <4>2. QED
        BY <3>2, <3>3, <4>1
    <3>4. CASE b # a
      BY <3>2, <3>4
    <3>5. QED
      BY <3>3, <3>4
  <2>3. QED
    BY <2>1, <2>2 DEF UnhookEvent
<1>4. TicketsAscend'
  <2>1. SUFFICES ASSUME NEW b \in Addr, NEW k \in 1..Len(subscriber'[b])
                 PROVE  /\ subscriber'[b][k] < nextTicket
                        /\ \A j \in 1..(k - 1) : subscriber'[b][k] # NULL =>
                             subscriber'[b][j] < subscriber'[b][k]
    BY <1>1 DEF TicketsAscend
  <2>a. nextTicket > 0
    BY DEF TypeOK
  <2>b. k \in 1..Len(subscriber[b]) /\ subscriber[b][k] \in Nat
    BY <1>2, <1>3
  <2>2. /\ subscriber[b][k] < nextTicket
        /\ \A j \in 1..(k - 1) : subscriber[b][k] # NULL => subscriber[b][j] < subscriber[b][k]
    BY <2>b DEF NotifyInv, TicketsAscend
  <2>3. subscriber'[b] \in Seq(Nat)
    BY DEF TypeOK
  <2>4. \A j \in 1..(k - 1) : j \in 1..Len(subscriber'[b]) /\ subscriber[b][j] \in Nat
    BY <1>2, <2>b, <2>3, SMTT(30)
  <2>5. \A j \in 1..Len(subscriber'[b]) :
          subscriber'[b][j] = NULL \/ subscriber'[b][j] = subscriber[b][j]
    BY <1>3
  <2>6. subscriber'[b][k] = NULL \/ subscriber'[b][k] = subscriber[b][k]
    BY <1>3
  <2>7. QED
    BY <1>1, <2>a, <2>b, <2>2, <2>4, <2>5, <2>6 DEF NULL
<1>5. ASSUME NEW d \in 1..Len(stack)
      PROVE  Contains(hooks', stack[d].p) /\ stack[d].p \in Addr
  BY <1>1, ActivationsAreOfEvents
<1>6. (\A d \in 1..Len(stack) : LoopInv(stack[d]))'
  BY <1>1, <1>3, <1>5, StackStaysSound
<1>7. QED
  BY <1>4, <1>6 DEF NotifyInv

\* A notification begins with everything ahead of it.
LEMMA NotifyKeepsNotifyInv ==
  ASSUME TypeOK, NotifyInv, NEW e \in created, NotifyEventHooks(e)
  PROVE  NotifyInv'
<1> DEFINE f == [p |-> e.p, id |-> e.id, slot |-> 0, due |-> Live(subscriber[e.p]),
                 calls |-> <<>>, abort |-> 0]
<1>1. UNCHANGED <<hooks, subscriber, nextTicket>> /\ stack \in Seq(Frame)
  BY DEF NotifyEventHooks, memory, TypeOK
<1>2. TicketsAscend /\ TicketsAscend'
  BY <1>1 DEF NotifyInv, TicketsAscend
<1>3. CASE ~Contains(hooks, e.p)
  <2>1. UNCHANGED stack
    BY <1>3 DEF NotifyEventHooks
  <2>2. \A d \in 1..Len(stack') : LoopInv(stack'[d])
    BY <2>1 DEF NotifyInv
  <2>3. QED
    BY <1>1, <1>2, <2>2, SoundStack
<1>4. CASE Contains(hooks, e.p)
  <2>1. Resume(stack, f, 0, 0)
    BY <1>4 DEF NotifyEventHooks
  <2>2. e.p \in Addr /\ e.id \in Nat /\ subscriber[e.p] \in Seq(Nat)
    BY DEF TypeOK
  <2>3. f \in Frame
    BY FirstActivation
  <2>4. Sound(f)
    <3>1. \A t \in f.due : t # NULL /\ t < nextTicket
      BY <1>2, <2>2 DEF Live, TicketsAscend
    <3>2. QED
      BY <1>4, <3>1 DEF Sound
  <2>5. Ahead(f, 0)
    BY <2>2 DEF Ahead
  <2>6. \A d \in 1..Len(stack') : LoopInv(stack'[d])
    BY <1>1, <1>2, <2>1, <2>3, <2>4, <2>5, ResumeKeepsLoopInv, HookEngineAssumption
       DEF NotifyInv
  <2>7. QED
    BY <1>1, <1>2, <2>6, SoundStack
<1>5. QED
  BY <1>3, <1>4

\* A callback returns into a loop that is where the callback's slot is.
LEMMA HookReturnsKeepsNotifyInv ==
  ASSUME TypeOK, NotifyInv, NEW r \in Result, HookReturns(r)
  PROVE  NotifyInv'
<1>1. UNCHANGED <<hooks, subscriber, nextTicket>> /\ stack \in Seq(Frame) /\ stack # <<>>
  BY DEF HookReturns, memory, TypeOK
<1>2. TicketsAscend /\ TicketsAscend'
  BY <1>1 DEF NotifyInv, TicketsAscend
<1>3. /\ Len(stack) \in 1..Len(stack) /\ Top \in Frame
      /\ Below \in Seq(Frame)
      /\ \A d \in 1..Len(Below) : d \in 1..Len(stack) /\ Below[d] = stack[d]
  BY <1>1, TopAndBelow
<1>4. LoopInv(Top) /\ \A d \in 1..Len(Below) : LoopInv(Below[d])
  BY <1>3 DEF NotifyInv, Top
<1>5. \A d \in 1..Len(stack') : LoopInv(stack'[d])
  <2>1. CASE Top.slot = DEFAULT
    BY <1>4, <2>1 DEF HookReturns
  <2>2. CASE Top.slot # DEFAULT
    <3>1. Resume(Below, Top, r, Top.slot) /\ Top.slot \in Nat
      BY <1>3, <2>2 DEF HookReturns, Frame
    <3>2. Sound(Top) /\ Ahead(Top, Top.slot)
      BY <1>4, <2>2 DEF LoopInv
    <3>3. QED
      BY <1>2, <1>3, <1>4, <3>1, <3>2, ResumeKeepsLoopInv
  <2>3. QED
    BY <2>1, <2>2
<1>6. QED
  BY <1>1, <1>2, <1>5, SoundStack

\* The invariant of the notifications is inductive.
LEMMA NotifyInductive == TypeOK /\ TypeOK' /\ NotifyInv /\ [Next]_vars => NotifyInv'
<1> SUFFICES ASSUME TypeOK, TypeOK', NotifyInv, [Next]_vars PROVE NotifyInv'
  OBVIOUS
<1>1. ASSUME UNCHANGED <<hooks, subscriber, stack, nextTicket>> PROVE NotifyInv'
  BY <1>1 DEF NotifyInv, TicketsAscend, LoopInv, Sound, Ahead, Contains
<1>2. CASE \E n \in Name : CreateHookableEvent(n)
  BY <1>2, CreateKeepsNotifyInv
<1>3. CASE \E a \in Addr : DestroyHookableEvent(a)
  BY <1>3, DestroyKeepsNotifyInv
<1>4. CASE \E a \in Addr, set \in BOOLEAN : SetHookDefaultForHookableEvent(a, set)
  BY <1>1, <1>4 DEF SetHookDefaultForHookableEvent
<1>5. CASE \E n \in Name : HookEvent(n)
  BY <1>5, HookKeepsNotifyInv
<1>6. CASE \E u \in Usable : UnhookEvent(u)
  BY <1>6, UnhookKeepsNotifyInv
<1>7. CASE \E e \in created : NotifyEventHooks(e)
  BY <1>7, NotifyKeepsNotifyInv
<1>8. CASE \E r \in Result : HookReturns(r)
  BY <1>8, HookReturnsKeepsNotifyInv
<1>9. CASE UNCHANGED vars
  BY <1>1, <1>9 DEF vars, memory
<1>10. QED
  BY <1>2, <1>3, <1>4, <1>5, <1>6, <1>7, <1>8, <1>9 DEF Next

LEMMA NotifyInit == Init => NotifyInv
BY DEF Init, InitWith, NotifyInv, TicketsAscend

LEMMA NotifyInvariant == Spec => []NotifyInv
BY NotifyInit, TypeCorrect, NotifyInductive, PTL DEF Spec

\* A notification calls subscribers in the order they hooked, each once, even
\* if they unhook themselves or others and hook again while it runs: a slot is
\* never given to an earlier ticket, and the loop only goes forward.
THEOREM CallsAreOrdered == Spec => []CallsInHookOrder
<1>1. TypeOK /\ NotifyInv => CallsInHookOrder
  <2>1. SUFFICES ASSUME TypeOK, NotifyInv, NEW d \in 1..Len(stack),
                        NEW j \in 1..Len(stack[d].calls), NEW k \in 1..Len(stack[d].calls),
                        j < k
                 PROVE  stack[d].calls[j] < stack[d].calls[k]
    BY DEF CallsInHookOrder
  <2>2. Sound(stack[d])
    BY <2>1 DEF NotifyInv, LoopInv
  <2>3. j \in 1..(k - 1)
    BY <2>1
  <2>4. QED
    BY <2>1, <2>2, <2>3 DEF Sound
<1>2. QED
  BY <1>1, TypeCorrect, NotifyInvariant, PTL

\* A notification that comes to its end with 0 has called everybody who was
\* subscribed when it began and still is: no slot is passed over, whatever the
\* callbacks do to the array while the loop runs over it.
THEOREM NobodyIsPassedOver == Spec => EveryDueHookIsCalled
<1> DEFINE Done == Len(stack') < Len(stack) /\ Top.slot # DEFAULT /\ ret' = 0 =>
                     \A t \in Top.due \cap Live(subscriber[Top.p]) :
                       \E k \in 1..Len(Top.calls) : Top.calls[k] = t
<1>1. ASSUME TypeOK, NotifyInv, [Next]_vars PROVE [Done]_vars
  <2>1. SUFFICES ASSUME Len(stack') < Len(stack), Top.slot # DEFAULT, ret' = 0,
                        NEW t \in Top.due, t \in Live(subscriber[Top.p])
                 PROVE  \E k \in 1..Len(Top.calls) : Top.calls[k] = t
    OBVIOUS
  <2>2. stack' # stack /\ stack \in Seq(Frame)
    BY <1>1, <2>1 DEF TypeOK
  <2>3. PICK r \in Result : HookReturns(r)
    <3>1. ASSUME NEW e \in created, NotifyEventHooks(e) PROVE FALSE
      <4> DEFINE f == [p |-> e.p, id |-> e.id, slot |-> 0,
                       due |-> Live(subscriber[e.p]), calls |-> <<>>, abort |-> 0]
      <4>1. f \in Frame
        BY <1>1, FirstActivation
      <4>2. Resume(stack, f, 0, 0)
        BY <2>2, <3>1 DEF NotifyEventHooks
      <4> HIDE DEF f
      <4>3. Len(stack') = Len(stack) + 1 \/ stack' = stack
        BY <1>1, <2>2, <4>1, <4>2, ResumeType, HookEngineAssumption DEF Finish
      <4>4. QED
        BY <2>1, <2>2, <4>3
    <3>2. QED
      BY <1>1, <2>2, <3>1 DEF Next, vars, CreateHookableEvent, DestroyHookableEvent,
         SetHookDefaultForHookableEvent, HookEvent, Subscribe, UnhookEvent
  <2>a. stack # <<>>
    BY <2>3 DEF HookReturns
  <2>4. /\ Len(stack) \in 1..Len(stack) /\ Top = stack[Len(stack)] /\ Top \in Frame
        /\ Below \in Seq(Frame) /\ Len(Below) = Len(stack) - 1
    BY <2>2, <2>a, TopAndBelow
  <2>9. Top.slot \in Nat /\ subscriber[Top.p] \in Seq(Nat)
    BY <1>1, <2>4 DEF Frame, TypeOK
  <2>5. Resume(Below, Top, r, Top.slot)
    BY <2>1, <2>3 DEF HookReturns
  <2>6. Finish(Below, Top, r, Top.slot)
    BY <1>1, <2>1, <2>4, <2>5, <2>9, ResumeType
  <2>7. \A j \in (Top.slot + 1)..Len(subscriber[Top.p]) : subscriber[Top.p][j] = NULL
    BY <2>1, <2>6 DEF Finish, LoopEnds
  <2>8. Ahead(Top, Top.slot)
    BY <1>1, <2>1, <2>4 DEF NotifyInv, LoopInv
  <2>10. PICK k \in 1..Len(subscriber[Top.p]) : subscriber[Top.p][k] = t /\ t # NULL
    BY <2>1 DEF Live
  <2>11. ~(k > Top.slot)
    BY <2>7, <2>9, <2>10
  <2>12. QED
    BY <2>1, <2>8, <2>10, <2>11 DEF Ahead
<1>2. QED
  BY <1>1, TypeCorrect, NotifyInvariant, PTL DEF Spec, EveryDueHookIsCalled
-------------------------------------------------------------------------------
(* The engine implements EventBus, by the mapping at the end of HookEngine:   *)
(* what only the engine sees is a stutter, and the loop of                   *)
(* CallHookSubscribers goes on as the bus allows (ResumeProceeds).           *)

\* The notifications of a stack s.
RunningOf(s) == [d \in 1..Len(s) |-> BusFrame(s[d])]

\* One id, one event.
LEMMA EventOfId ==
  ASSUME TypeOK, IdsUnique, NEW a \in Addr, Contains(hooks, a)
  PROVE  eventId[a] \in 1..MaxHookId /\ EventsWithId(eventId[a]) = {a}
<1>1. PICK i \in 1..Len(hooks) : hooks[i] = a
  BY DEF Contains
<1>2. eventId[a] \in 1..MaxHookId
  <2>1. eventId[a] \in 1..(hookId - 1)
    BY <1>1 DEF IdsUnique
  <2>2. hookId \in 1..(MaxHookId + 1)
    BY DEF TypeOK
  <2>3. MaxHookId \in Nat
    BY HookEngineAssumption
  <2>4. QED
    BY <2>1, <2>2, <2>3
<1>3. \A j \in 1..Len(hooks) : eventId[hooks[j]] = eventId[a] => j = i
  BY <1>1 DEF IdsUnique
<1>4. EventsWithId(eventId[a]) = {a}
  BY <1>1, <1>3 DEF EventsWithId, Contains
<1>5. QED
  BY <1>2, <1>4

\* The subscriptions of an event are the slots of its array that are not cleared.
LEMMA SubscriptionsOfEvent ==
  ASSUME TypeOK, IdsUnique, NEW a \in Addr, Contains(hooks, a)
  PROVE  /\ eventId[a] \in 1..MaxHookId
         /\ Subscriptions[eventId[a]] = Live(subscriber[a])
<1>1. eventId[a] \in 1..MaxHookId /\ EventsWithId(eventId[a]) = {a}
  BY EventOfId
<1>2. UNION {Live(subscriber[b]) : b \in EventsWithId(eventId[a])} = Live(subscriber[a])
  BY <1>1
<1>3. QED
  BY <1>1, <1>2 DEF Subscriptions

LEMMA SubscriptionsKept ==
  ASSUME UNCHANGED <<hooks, eventId, subscriber>>
  PROVE  Subscriptions' = Subscriptions
<1>1. \A id : EventsWithId(id)' = EventsWithId(id)
  BY DEF EventsWithId
<1>2. QED
  BY <1>1 DEF Subscriptions, Live

\* A step that changes one array changes the subscriptions of one event.
LEMMA SubscriptionsOfOneChange ==
  ASSUME TypeOK, IdsUnique, NEW a \in Addr, Contains(hooks, a),
         UNCHANGED <<hooks, eventId>>,
         \A b \in Addr : b # a => subscriber'[b] = subscriber[b]
  PROVE  Subscriptions' = [Subscriptions EXCEPT ![eventId[a]] = Live(subscriber'[a])]
<1>1. eventId[a] \in 1..MaxHookId /\ EventsWithId(eventId[a]) = {a}
  BY EventOfId
<1>2. \A id : EventsWithId(id)' = EventsWithId(id)
  BY DEF EventsWithId
<1>3. \A id \in 1..MaxHookId : \A b \in EventsWithId(id) :
        b \in Addr /\ (id # eventId[a] => b # a)
  BY DEF EventsWithId, TypeOK
<1> DEFINE of(id) == UNION {Live(subscriber[b]) : b \in EventsWithId(id)}
           next(id) == UNION {Live(subscriber'[b]) : b \in EventsWithId(id)}
<1>6. \A id \in 1..MaxHookId : id # eventId[a] => next(id) = of(id)
  BY <1>3
<1>7. next(eventId[a]) = Live(subscriber'[a])
  BY <1>1
<1>8. Subscriptions' = [id \in 1..MaxHookId |-> next(id)]
  BY <1>2 DEF Subscriptions, Live
<1>9. Subscriptions = [id \in 1..MaxHookId |-> of(id)]
  BY DEF Subscriptions
<1> HIDE DEF of, next
<1>10. QED
  BY <1>1, <1>6, <1>7, <1>8, <1>9

LEMMA RunningIs ==
  ASSUME NEW base, Len(base) \in Nat
  PROVE  /\ Len(RunningOf(base)) = Len(base)
         /\ RunningOf(base) \in Seq({BusFrame(base[d]) : d \in 1..Len(base)})
         /\ \A d \in 1..Len(base) : RunningOf(base)[d] = BusFrame(base[d])
<1>1. RunningOf(base) \in [1..Len(base) -> {BusFrame(base[d]) : d \in 1..Len(base)}]
  BY DEF RunningOf
<1>2. QED
  BY <1>1, FunctionIsSeq DEF RunningOf

\* Notifications whose frames and events are kept are kept.
LEMMA RunningKept ==
  ASSUME UNCHANGED stack,
         \A d \in 1..Len(stack) : eventId'[stack[d].p] = eventId[stack[d].p]
  PROVE  Running' = Running
BY DEF Running, BusFrame

LEMMA RunningIsOfStack == Running = RunningOf(stack)
BY DEF Running, RunningOf

LEMMA AppendIs ==
  ASSUME NEW S, NEW q \in Seq(S), NEW e \in S
  PROVE  Append(q, e) = [d \in 1..(Len(q) + 1) |-> IF d = Len(q) + 1 THEN e ELSE q[d]]
<1> DEFINE a == Append(q, e)
           b == [d \in 1..(Len(q) + 1) |-> IF d = Len(q) + 1 THEN e ELSE q[d]]
<1>1. Len(q) \in Nat
  OBVIOUS
<1>2. b \in [1..(Len(q) + 1) -> S]
  BY <1>1
<1>3. b \in Seq(S) /\ Len(b) = Len(q) + 1
  BY <1>1, <1>2, FunctionIsSeq
<1>4. a \in Seq(S) /\ Len(a) = Len(q) + 1
  OBVIOUS
<1>5. \A d \in 1..(Len(q) + 1) : a[d] = IF d = Len(q) + 1 THEN e ELSE q[d]
  OBVIOUS
<1>6. \A d \in 1..Len(a) : a[d] = b[d]
  BY <1>4, <1>5
<1> HIDE DEF a, b
<1>7. a = b
  BY <1>3, <1>4, <1>6, SeqEqual
<1>8. QED
  BY <1>7 DEF a, b

LEMMA RunningAppended ==
  ASSUME NEW base \in Seq(Frame), NEW g, UNCHANGED eventId, stack' = Append(base, g)
  PROVE  Running' = Append(RunningOf(base), BusFrame(g))
<1>1. Len(base) \in Nat /\ Len(stack') = Len(base) + 1
  OBVIOUS
<1>2. \A d \in 1..(Len(base) + 1) : stack'[d] = IF d = Len(base) + 1 THEN g ELSE base[d]
  OBVIOUS
<1>3. Running' = [d \in 1..(Len(base) + 1) |-> BusFrame(stack'[d])]
  BY <1>1 DEF Running, BusFrame
<1>4. /\ RunningOf(base) \in Seq({BusFrame(base[d]) : d \in 1..Len(base)})
      /\ Len(RunningOf(base)) = Len(base)
      /\ \A d \in 1..Len(base) : RunningOf(base)[d] = BusFrame(base[d])
  BY <1>1, RunningIs
<1> DEFINE S == {BusFrame(base[d]) : d \in 1..Len(base)} \cup {BusFrame(g)}
<1>5. RunningOf(base) \in Seq(S) /\ BusFrame(g) \in S
  <2>1. RunningOf(base) \in [1..Len(base) -> S]
    BY DEF RunningOf
  <2>2. QED
    BY <1>1, <2>1, FunctionIsSeq
<1> HIDE DEF S
<1>6. Append(RunningOf(base), BusFrame(g)) =
        [d \in 1..(Len(base) + 1) |-> IF d = Len(base) + 1 THEN BusFrame(g)
                                      ELSE RunningOf(base)[d]]
  BY <1>4, <1>5, AppendIs
<1>7. \A d \in 1..(Len(base) + 1) :
        BusFrame(stack'[d]) = IF d = Len(base) + 1 THEN BusFrame(g)
                                ELSE RunningOf(base)[d]
  BY <1>1, <1>2, <1>4
<1>8. QED
  BY <1>3, <1>6, <1>7

\* What is under the notification on top.
LEMMA CurrentAndOuter ==
  ASSUME stack \in Seq(Frame), stack # <<>>
  PROVE  /\ Running # <<>>
         /\ Bus!Current = BusFrame(Top)
         /\ Bus!Outer = RunningOf(Below)
<1>1. /\ Len(stack) \in Nat /\ Len(stack) \in 1..Len(stack) /\ Top = stack[Len(stack)]
      /\ Below \in Seq(Frame) /\ Len(Below) = Len(stack) - 1
      /\ \A d \in 1..Len(Below) : d \in 1..Len(stack) /\ Below[d] = stack[d]
  BY TopAndBelow
<1>2. /\ Len(Running) = Len(stack)
      /\ Running \in Seq({BusFrame(stack[d]) : d \in 1..Len(stack)})
      /\ \A d \in 1..Len(stack) : Running[d] = BusFrame(stack[d])
  BY <1>1, RunningIs, RunningIsOfStack
<1>3. Bus!Current = BusFrame(Top)
  BY <1>1, <1>2 DEF Bus!Current
<1> DEFINE o == SubSeq(Running, 1, Len(stack) - 1)
<1>4. o = [d \in 1..(Len(stack) - 1) |-> Running[d]]
  BY <1>1, <1>2
<1>5. RunningOf(Below) = [d \in 1..(Len(stack) - 1) |-> BusFrame(Below[d])]
  BY <1>1 DEF RunningOf
<1>6. \A d \in 1..(Len(stack) - 1) : Running[d] = BusFrame(Below[d])
  BY <1>1, <1>2
<1>7. Bus!Outer = o
  BY <1>2 DEF Bus!Outer
<1>8. QED
  BY <1>1, <1>2, <1>3, <1>4, <1>5, <1>6, <1>7

LEMMA LastAppended ==
  ASSUME NEW q \in Seq(Nat), NEW t \in Nat
  PROVE  LastOf(Append(q, t)) = t
<1>1. Append(q, t) # <<>> /\ Append(q, t)[Len(q) + 1] = t
      /\ Len(Append(q, t)) = Len(q) + 1
  BY AppendProperties
<1>2. QED
  BY <1>1 DEF LastOf

\* A notification with another last call, or gone on to the default.
LEMMA ActivationUpdated ==
  ASSUME NEW e, NEW due, NEW last, NEW b, NEW x, NEW n,
         n = [event |-> e, due |-> due, last |-> last, default |-> b]
  PROVE  /\ [n EXCEPT !.last = x] = [event |-> e, due |-> due, last |-> x, default |-> b]
         /\ [n EXCEPT !.default = x] = [event |-> e, due |-> due, last |-> last, default |-> x]
OBVIOUS

\* CallHookSubscribers goes on as the bus does: n is what the bus knows of f.
LEMMA ResumeProceeds ==
  ASSUME TypeOK, IdsUnique, TicketsAscend,
         NEW base \in Seq(Frame), NEW f \in Frame, NEW val \in Result, NEW from \in Nat,
         Sound(f), Ahead(f, from), Resume(base, f, val, from),
         UNCHANGED <<hooks, eventId, subscriber, nextTicket>>,
         NEW n, n = [event |-> eventId[f.p], due |-> f.due, last |-> LastOf(f.calls),
                     default |-> FALSE]
  PROVE  Bus!Proceed(RunningOf(base), n)
<1> DEFINE s == subscriber[f.p]
<1>0. /\ f.p \in Addr /\ f.due \in SUBSET Nat /\ f.calls \in Seq(Nat) /\ s \in Seq(Nat)
      /\ Len(s) \in Nat /\ Len(f.calls) \in Nat
      /\ Contains(hooks, f.p)
  BY DEF Frame, TypeOK, Sound
<1>1. /\ n.event = eventId[f.p] /\ n.due = f.due /\ n.last = LastOf(f.calls)
      /\ n.default = FALSE
  OBVIOUS
<1>2. Subscriptions[n.event] = Live(s)
  BY <1>0, <1>1, SubscriptionsOfEvent
<1>3. UNCHANGED <<Subscriptions, nextTicket>>
  BY SubscriptionsKept
<1>4. \A k \in 1..Len(s) : s[k] \in Nat
  BY <1>0
<1>a. s = subscriber[f.p]
  OBVIOUS
<1>b. n = [event |-> eventId[f.p], due |-> f.due, last |-> LastOf(f.calls),
           default |-> FALSE]
  OBVIOUS
<1>c. /\ \A x : [n EXCEPT !.last = x] = [event |-> eventId[f.p], due |-> f.due, last |-> x,
                                      default |-> FALSE]
      /\ [n EXCEPT !.default = TRUE] = [event |-> eventId[f.p], due |-> f.due,
                                        last |-> LastOf(f.calls), default |-> TRUE]
  <2>1. PICK e : e = eventId[f.p]
    OBVIOUS
  <2>2. PICK due : due = f.due
    OBVIOUS
  <2>3. PICK last : last = LastOf(f.calls)
    OBVIOUS
  <2>4. PICK no : no = FALSE
    OBVIOUS
  <2>5. PICK yes : yes = TRUE
    OBVIOUS
  <2>6. n = [event |-> e, due |-> due, last |-> last, default |-> no]
    BY ONLY <1>b, <2>1, <2>2, <2>3, <2>4, Zenon
  <2>7. \A x : [n EXCEPT !.last = x] = [event |-> e, due |-> due, last |-> x, default |-> no]
    BY ONLY <2>6, ActivationUpdated
  <2>8. [n EXCEPT !.default = yes] =
          [event |-> e, due |-> due, last |-> last, default |-> yes]
    BY ONLY <2>6, ActivationUpdated
  <2>9. QED
    BY ONLY <2>1, <2>2, <2>3, <2>4, <2>5, <2>7, <2>8, Zenon
<1> HIDE DEF s
\* The last call is the latest ticket called.
<1>5. /\ n.last \in Nat
      /\ \A c \in 1..Len(f.calls) : f.calls[c] <= n.last
      /\ n.last = 0 \/ \E c \in 1..Len(f.calls) : n.last = f.calls[c]
  <2>1. CASE f.calls = <<>>
    BY <1>1, <2>1 DEF LastOf
  <2>2. CASE f.calls # <<>>
    <3>1. Len(f.calls) \in 1..Len(f.calls) /\ n.last = f.calls[Len(f.calls)]
      BY <1>0, <1>1, <2>2 DEF LastOf
    <3>2. \A c \in 1..Len(f.calls) : f.calls[c] \in Nat
      BY <1>0
    <3>3. \A c \in 1..Len(f.calls) : c \in 1..(Len(f.calls) - 1) \/ c = Len(f.calls)
      BY <1>0
    <3>4. \A b \in 1..(Len(f.calls) - 1) : f.calls[b] < f.calls[Len(f.calls)]
      BY <3>1 DEF Sound
    <3>5. \A c \in 1..Len(f.calls) : f.calls[c] <= n.last
      BY <3>1, <3>2, <3>3, <3>4
    <3>6. QED
      BY <3>1, <3>2, <3>5
  <2>3. QED
    BY <2>1, <2>2
\* What is owed is in a slot the loop has still to look at.
<1>6. ASSUME NEW o \in Bus!Owed(n)
      PROVE  \E k \in 1..Len(s) : k > from /\ s[k] = o /\ o # NULL
  <2>1. o \in f.due /\ o \in Live(s) /\ o > n.last
    BY <1>1, <1>2, <1>6 DEF Bus!Owed
  <2>2. PICK k \in 1..Len(s) : s[k] = o /\ o # NULL
    BY <2>1 DEF Live
  <2>3. k > from \/ \E c \in 1..Len(f.calls) : f.calls[c] = s[k]
    BY <1>a, <2>1, <2>2 DEF Ahead
  <2>4. ASSUME NEW c \in 1..Len(f.calls), f.calls[c] = o PROVE FALSE
    BY <1>0, <1>5, <2>1, <2>4
  <2>5. QED
    BY <2>2, <2>3, <2>4
<1>7. CASE CallNext(base, f, val, from)
  <2>1. PICK j \in (from + 1)..Len(s) :
          /\ s[j] # NULL
          /\ \A k \in (from + 1)..(j - 1) : s[k] = NULL
          /\ stack' = Append(base, [p |-> f.p, id |-> f.id, slot |-> j, due |-> f.due,
                                    calls |-> Append(f.calls, s[j]), abort |-> 0])
    BY <1>7, <1>a DEF CallNext
  <2>2. j \in Nat /\ j > from /\ j \in 1..Len(s) /\ j # DEFAULT
    <3>1. j \in (from + 1)..Len(s) /\ from \in Nat /\ Len(s) \in Nat
      BY <1>0
    <3>2. QED
      BY ONLY <3>1 DEF DEFAULT
  <2> DEFINE t == s[j]
             g == [p |-> f.p, id |-> f.id, slot |-> j, due |-> f.due,
                   calls |-> Append(f.calls, t), abort |-> 0]
  <2>3. t \in Nat /\ t # NULL /\ t \in Live(s)
    BY <1>4, <2>1, <2>2 DEF Live
  <2>4. t > n.last
    <3>1. \A c \in 1..Len(f.calls) : f.calls[c] < t
      BY <1>a, <2>2, <2>3 DEF Ahead
    <3>2. 0 < t
      BY <2>3 DEF NULL
    <3>3. QED
      BY <1>5, <2>3, <3>1, <3>2
  <2>5. ASSUME NEW o \in Bus!Owed(n) PROVE t <= o
    <3>1. PICK k \in 1..Len(s) : k > from /\ s[k] = o /\ o # NULL
      BY <1>6
    <3>2. ~(k < j)
      BY <2>1, <2>2, <3>1
    <3>3. CASE k = j
      BY <2>3, <3>1, <3>3
    <3>4. CASE k > j
      <4>1. j \in 1..(k - 1)
        BY <2>2, <3>1, <3>4
      <4>2. s[j] < s[k]
        BY <1>0, <1>a, <3>1, <4>1 DEF TicketsAscend
      <4>3. s[k] \in Nat
        BY <1>4, <3>1
      <4>4. QED
        BY <2>3, <3>1, <4>2, <4>3
    <3>5. QED
      BY <2>2, <3>1, <3>2, <3>3, <3>4
  <2>6. Running' = Append(RunningOf(base), [n EXCEPT !.last = t])
    <3>1. Running' = Append(RunningOf(base), BusFrame(g))
      BY <2>1, RunningAppended
    <3>2. /\ g.p = f.p /\ g.due = f.due /\ g.calls = Append(f.calls, t)
          /\ g.slot # DEFAULT
      BY <2>2
    <3>3. LastOf(Append(f.calls, t)) = t
      BY <1>0, <2>3, LastAppended
    <3>4. BusFrame(g) = [event |-> eventId[f.p], due |-> f.due, last |-> t,
                           default |-> FALSE]
      BY <3>2, <3>3 DEF BusFrame
    <3>5. [n EXCEPT !.last = t] = [event |-> eventId[f.p], due |-> f.due, last |-> t,
                                   default |-> FALSE]
      BY <1>c, Zenon
    <3>6. QED
      BY <3>1, <3>4, <3>5
  <2>7. UNCHANGED ret
    BY <1>7 DEF CallNext
  <2> HIDE DEF t, g
  <2>8. Bus!Call(RunningOf(base), n)
    BY <1>1, <1>2, <2>3, <2>4, <2>5, <2>6, <2>7 DEF Bus!Call
  <2>9. QED
    BY <1>3, <2>8 DEF Bus!Proceed
<1>8. CASE CallDefault(base, f, val, from)
  <2> DEFINE g == [p |-> f.p, id |-> f.id, slot |-> DEFAULT, due |-> f.due,
                   calls |-> f.calls, abort |-> val]
  <2>1. s = <<>> /\ stack' = Append(base, g) /\ UNCHANGED ret
    BY <1>8, <1>a DEF CallDefault, CallsDefault
  <2>2. Live(s) = {}
    BY <2>1 DEF Live
  <2>3. Running' = Append(RunningOf(base), BusFrame(g))
    BY <2>1, RunningAppended
  <2>4. BusFrame(g) = [n EXCEPT !.default = TRUE]
    <3>1. BusFrame(g) = [event |-> eventId[f.p], due |-> f.due,
                           last |-> LastOf(f.calls), default |-> TRUE]
      BY DEF BusFrame
    <3>2. QED
      BY <1>c, <3>1, Zenon
  <2>5. Bus!CallDefault(RunningOf(base), n)
    BY <1>1, <1>2, <2>1, <2>2, <2>3, <2>4 DEF Bus!CallDefault
  <2>6. QED
    BY <1>3, <2>5 DEF Bus!Proceed
<1>9. CASE Finish(base, f, val, from)
  <2>1. stack' = base /\ ret' = val /\ LoopEnds(f, val, from)
    BY <1>9 DEF Finish
  <2>2. Running' = RunningOf(base)
    BY <2>1 DEF Running, RunningOf, BusFrame
  <2>3. ASSUME val = 0 PROVE Bus!Owed(n) = {}
    <3>1. SUFFICES ASSUME NEW o \in Bus!Owed(n) PROVE FALSE
      OBVIOUS
    <3>2. PICK k \in 1..Len(s) : k > from /\ s[k] = o /\ o # NULL
      BY <1>6
    <3>3. \A j \in (from + 1)..Len(s) : s[j] = NULL
      BY <1>a, <2>1, <2>3 DEF LoopEnds
    <3>4. QED
      BY <3>2, <3>3
  <2>4. Bus!End(RunningOf(base), n, val)
    BY <2>1, <2>2, <2>3 DEF Bus!End
  <2>5. QED
    BY <1>3, <2>4 DEF Bus!Proceed
<1>10. QED
  BY <1>7, <1>8, <1>9 DEF Resume

\* A new event has an id nobody had, and no subscriptions.
LEMMA CreateIsStutter ==
  ASSUME TypeOK, IdsUnique, NotifyInv, NEW n \in Name, CreateHookableEvent(n)
  PROVE  UNCHANGED Bus!busVars
<1>1. PICK a \in Addr, i \in 1..(Len(hooks) + 1) : NewEvent(n, a, i)
  BY DEF CreateHookableEvent
<1>2. /\ hooks \in Seq(Addr) /\ hooks' = List_Insert(hooks, a, i)
      /\ \A j \in 1..Len(hooks) : hooks[j] # a /\ hooks[j] \in Addr
      /\ UNCHANGED <<stack, ret, nextTicket>>
  <2>1. hooks' = List_Insert(hooks, a, i) /\ ~Contains(hooks, a)
    BY <1>1 DEF NewEvent
  <2>2. hooks \in Seq(Addr)
    BY DEF TypeOK
  <2>3. \A j \in 1..Len(hooks) : hooks[j] # a
    BY <2>1 DEF Contains
  <2>4. \A j \in 1..Len(hooks) : hooks[j] \in Addr
    BY ONLY <2>2
  <2>5. UNCHANGED <<stack, ret, nextTicket>>
    BY DEF CreateHookableEvent
  <2>6. QED
    BY <2>1, <2>2, <2>3, <2>4, <2>5
<1>4. /\ eventId'[a] = hookId /\ subscriber'[a] = <<>>
      /\ \A b \in Addr : b # a => eventId'[b] = eventId[b] /\ subscriber'[b] = subscriber[b]
  <2>1. /\ eventId' = [eventId EXCEPT ![a] = hookId]
        /\ subscriber' = [subscriber EXCEPT ![a] = <<>>]
    BY <1>1 DEF NewEvent
  <2>2. /\ eventId \in [Addr -> Nat] /\ subscriber \in [Addr -> Seq(Nat)]
        /\ a \in Addr
    BY <1>1 DEF TypeOK
  <2>3. QED
    BY ONLY <2>1, <2>2
<1>5. ASSUME NEW id \in 1..MaxHookId
      PROVE  EventsWithId(id)' = EventsWithId(id) \cup (IF id = hookId THEN {a} ELSE {})
  <2>1. \A b : Contains(hooks', b) <=> b = a \/ Contains(hooks, b)
    BY <1>2, InsertMembers
  <2>2. ~Contains(hooks, a)
    BY <1>2 DEF Contains
  <2>3. \A b \in Addr : b \in EventsWithId(id)' <=>
                          b \in EventsWithId(id) \/ (b = a /\ id = hookId)
    BY <1>4, <2>1, <2>2 DEF EventsWithId
  <2>4. QED
    BY <2>3 DEF EventsWithId
<1>6. ASSUME NEW id \in 1..MaxHookId, NEW b \in EventsWithId(id)
      PROVE  subscriber'[b] = subscriber[b]
  BY <1>2, <1>4 DEF EventsWithId, Contains
<1>7. Live(<<>>) = {}
  BY DEF Live
<1> DEFINE of(id) == UNION {Live(subscriber[b]) : b \in EventsWithId(id)}
           next(id) == UNION {Live(subscriber'[b]) : b \in EventsWithId(id)'}
<1>8. ASSUME NEW id \in 1..MaxHookId PROVE next(id) = of(id)
  <2>1. CASE id # hookId
    BY <1>5, <1>6, <2>1
  <2>2. CASE id = hookId
    <3>1. EventsWithId(id)' = EventsWithId(id) \cup {a}
      BY <1>5, <2>2
    <3>2. Live(subscriber'[a]) = {}
      BY <1>4, <1>7
    <3>3. QED
      BY <1>6, <3>1, <3>2
  <2>3. QED
    BY <2>1, <2>2
<1>9. Subscriptions' = [id \in 1..MaxHookId |-> next(id)]
  BY DEF Subscriptions, Live
<1>10. Subscriptions = [id \in 1..MaxHookId |-> of(id)]
  BY DEF Subscriptions
<1> HIDE DEF of, next
<1>11. UNCHANGED Subscriptions
  BY <1>8, <1>9, <1>10
<1>12. UNCHANGED Running
  <2>1. ASSUME NEW d \in 1..Len(stack) PROVE eventId'[stack[d].p] = eventId[stack[d].p]
    <3>1. stack[d].p \in Addr /\ Contains(hooks, stack[d].p)
      BY ActivationsAreOfEvents
    <3>2. stack[d].p # a
      BY <1>2, <3>1 DEF Contains
    <3>3. QED
      BY <1>4, <3>1, <3>2
  <2>2. QED
    BY <1>2, <2>1, RunningKept
<1>13. QED
  BY <1>2, <1>11, <1>12 DEF Bus!busVars

\* Destroying an event drops its subscriptions.
LEMMA DestroyIsDrop ==
  ASSUME TypeOK, IdsUnique, NotifyInv, NEW a \in Addr, DestroyHookableEvent(a)
  PROVE  eventId[a] \in 1..MaxHookId /\ Bus!Drop(eventId[a])
<1>1. PICK i \in 1..Len(hooks) : hooks[i] = a /\ hooks' = List_Remove(hooks, i)
  BY DEF DestroyHookableEvent
<1>2. /\ hooks \in Seq(Addr) /\ Len(hooks) \in Nat
      /\ UNCHANGED <<eventId, stack, ret, nextTicket>>
      /\ \A b \in Addr : b # a => subscriber'[b] = subscriber[b]
      /\ \A d \in 1..Len(stack) : stack[d].p # a
      /\ \A j \in 1..Len(hooks) : hooks[j] \in Addr
  <2>1. /\ subscriber' = [subscriber EXCEPT ![a] = <<>>]
        /\ UNCHANGED <<eventId, stack, ret, nextTicket>>
        /\ \A d \in 1..Len(stack) : stack[d].p # a
    BY DEF DestroyHookableEvent
  <2>2. hooks \in Seq(Addr) /\ subscriber \in [Addr -> Seq(Nat)]
    BY DEF TypeOK
  <2>3. \A b \in Addr : b # a => subscriber'[b] = subscriber[b]
    BY ONLY <2>1, <2>2
  <2>4. Len(hooks) \in Nat /\ \A j \in 1..Len(hooks) : hooks[j] \in Addr
    BY ONLY <2>2
  <2>5. QED
    BY ONLY <2>1, <2>2, <2>3, <2>4
<1>3. Contains(hooks, a)
  BY <1>1 DEF Contains
<1>4. eventId[a] \in 1..MaxHookId
  BY <1>3, EventOfId
<1>6. \A j \in 1..Len(hooks) : eventId[hooks[j]] = eventId[a] => j = i
  BY <1>1 DEF IdsUnique
<1>7. \A b : Contains(hooks', b) <=> b # a /\ Contains(hooks, b)
  <2>1. \A j \in 1..Len(hooks) : hooks[j] = hooks[i] => j = i
    BY <1>1, <1>6
  <2>2. \A b : Contains(List_Remove(hooks, i), b) <=> b # hooks[i] /\ Contains(hooks, b)
    BY <1>2, <2>1, RemoveMembers
  <2>3. QED
    BY <1>1, <2>2
<1>12. \A id : EventsWithId(id)' = EventsWithId(id) \ {a}
  BY <1>2, <1>7 DEF EventsWithId
<1>13. EventsWithId(eventId[a]) = {a}
  BY <1>3, EventOfId
<1>14. ASSUME NEW id \in 1..MaxHookId, id # eventId[a]
       PROVE  EventsWithId(id)' = EventsWithId(id)
  BY <1>12, <1>14 DEF EventsWithId
<1> DEFINE of(id) == UNION {Live(subscriber[b]) : b \in EventsWithId(id)}
           next(id) == UNION {Live(subscriber'[b]) : b \in EventsWithId(id)'}
<1>15. \A id \in 1..MaxHookId : id # eventId[a] => next(id) = of(id)
  <2>1. SUFFICES ASSUME NEW id \in 1..MaxHookId, id # eventId[a] PROVE next(id) = of(id)
    OBVIOUS
  <2>2. \A b \in EventsWithId(id) : subscriber'[b] = subscriber[b]
    BY <1>2, <2>1 DEF EventsWithId
  <2>3. QED
    BY <1>14, <2>1, <2>2
<1>16. next(eventId[a]) = {}
  <2>1. EventsWithId(eventId[a])' = {}
    <3>1. \A id : id = eventId[a] => EventsWithId(id)' = {}
      BY <1>12, <1>13
    <3>2. QED
      BY <1>2, <3>1
  <2>2. QED
    BY <2>1
<1>17. Subscriptions' = [id \in 1..MaxHookId |-> next(id)]
  BY DEF Subscriptions, Live
<1>18. Subscriptions = [id \in 1..MaxHookId |-> of(id)]
  BY DEF Subscriptions
<1> HIDE DEF of, next
<1>19. Subscriptions' = [Subscriptions EXCEPT ![eventId[a]] = {}]
  BY <1>4, <1>15, <1>16, <1>17, <1>18
<1>20. UNCHANGED Running
  BY <1>2, RunningKept
<1>21. ASSUME NEW d \in 1..Len(Running) PROVE Running[d].event # eventId[a]
  <2>1. Len(stack) \in Nat
    BY DEF TypeOK
  <2>2. d \in 1..Len(stack) /\ Running[d] = BusFrame(stack[d])
    BY <2>1, RunningIs, RunningIsOfStack
  <2>3. Running[d].event = eventId[stack[d].p]
    BY <2>2 DEF BusFrame
  <2>4. stack[d].p \in Addr /\ Contains(hooks, stack[d].p) /\ stack[d].p # a
    BY <1>2, <2>2, ActivationsAreOfEvents
  <2>5. eventId[stack[d].p] # eventId[a]
    BY <1>1, <1>6, <2>4 DEF Contains
  <2>6. QED
    BY <2>3, <2>5
<1>22. QED
  BY <1>2, <1>4, <1>19, <1>20, <1>21 DEF Bus!Drop

LEMMA HookIsSubscribe ==
  ASSUME TypeOK, TypeOK', IdsUnique, NEW n \in Name, HookEvent(n)
  PROVE  \E e \in 1..MaxHookId : Bus!Subscribe(e)
<1>1. PICK i \in 1..Len(hooks) :
        Subscribe(hooks[i], Len(subscriber[hooks[i]]) + 1,
                  Append(subscriber[hooks[i]], nextTicket))
  BY DEF HookEvent
<1>a. hooks[i] \in Addr
  BY DEF TypeOK
<1>2. PICK a \in Addr : a = hooks[i]
  BY <1>a
<1>b. nextTicket \in Nat /\ nextTicket # NULL
  BY DEF TypeOK, NULL
<1>c. Contains(hooks, a) /\ subscriber[a] \in Seq(Nat)
  BY <1>2 DEF Contains, TypeOK
<1>3. /\ Contains(hooks, a) /\ subscriber[a] \in Seq(Nat)
      /\ nextTicket \in Nat /\ nextTicket # NULL
      /\ nextTicket <= MaxTicket /\ nextTicket' = nextTicket + 1
      /\ UNCHANGED <<hooks, eventId, stack, ret>>
      /\ subscriber' = [subscriber EXCEPT ![a] = Append(subscriber[a], nextTicket)]
  BY <1>1, <1>2, <1>b, <1>c DEF Subscribe, HookEvent
<1>4. /\ \A b \in Addr : b # a => subscriber'[b] = subscriber[b]
      /\ subscriber'[a] = Append(subscriber[a], nextTicket)
  BY <1>3 DEF TypeOK
<1>5. Live(subscriber'[a]) = Live(subscriber[a]) \cup {nextTicket}
  <2> DEFINE s == subscriber[a]
             q == subscriber'[a]
  <2>1. /\ s \in Seq(Nat) /\ Len(s) \in Nat /\ Len(q) = Len(s) + 1
        /\ \A j \in 1..Len(s) : q[j] = s[j]
        /\ q[Len(s) + 1] = nextTicket
    BY <1>3, <1>4, AppendProperties
  <2> HIDE DEF s, q
  <2>2. \A j \in 1..Len(q) : j \in 1..Len(s) \/ j = Len(s) + 1
    BY <2>1
  <2>3. Len(s) + 1 \in 1..Len(q) /\ \A j \in 1..Len(s) : j \in 1..Len(q)
    BY <2>1
  <2>4. Live(q) = Live(s) \cup {nextTicket}
    BY <1>3, <2>1, <2>2, <2>3 DEF Live
  <2>5. QED
    BY <2>4 DEF s, q
<1>6. Subscriptions' = [Subscriptions EXCEPT ![eventId[a]] = Live(subscriber'[a])]
  BY <1>3, <1>4, SubscriptionsOfOneChange
<1>7. eventId[a] \in 1..MaxHookId /\ Subscriptions[eventId[a]] = Live(subscriber[a])
  BY <1>3, SubscriptionsOfEvent
<1>8. UNCHANGED Running
  BY <1>3, RunningKept
<1>9. Bus!Subscribe(eventId[a])
  BY <1>3, <1>5, <1>6, <1>7, <1>8 DEF Bus!Subscribe
<1>10. QED
  BY <1>7, <1>9

\* Clearing a slot takes away the one subscription it holds, if it holds one.
LEMMA UnhookIsUnsubscribe ==
  ASSUME TypeOK, TypeOK', IdsUnique, TicketsAscend, NEW u \in Usable, UnhookEvent(u)
  PROVE  \/ UNCHANGED Bus!busVars
         \/ \E e \in 1..MaxHookId, t \in 1..MaxTicket : Bus!Unsubscribe(e, t)
<1>1. UNCHANGED <<hooks, eventId, stack, ret, nextTicket>>
  BY DEF UnhookEvent
<1>2. UNCHANGED Running
  BY <1>1, RunningKept
<1>3. CASE UNCHANGED subscriber
  BY <1>1, <1>2, <1>3, SubscriptionsKept DEF Bus!busVars
<1>4. ASSUME NEW a \in Addr, Designates(u.h, a), ClearSlot(a, HandleSlot(u.h))
      PROVE  \/ UNCHANGED Bus!busVars
             \/ \E e \in 1..MaxHookId, t \in 1..MaxTicket : Bus!Unsubscribe(e, t)
  <2>1. Contains(hooks, a) /\ HandleSlot(u.h) \in 1..Len(subscriber[a])
    BY <1>4 DEF Designates
  <2>2. PICK k \in 1..Len(subscriber[a]) : k = HandleSlot(u.h)
    BY <2>1
  <2> DEFINE s == subscriber[a]
             q == subscriber'[a]
  <2>3. /\ q \in Seq(Nat) /\ Len(q) <= Len(s)
        /\ \A j \in 1..Len(q) : q[j] = IF j = k THEN NULL ELSE s[j]
        /\ \A j \in 1..Len(s) : j # k /\ s[j] # NULL => j \in 1..Len(q)
        /\ \A b \in Addr : b # a => subscriber'[b] = subscriber[b]
    BY <1>4, <2>2, ClearSlotEffect
  <2>4. /\ s \in Seq(Nat) /\ Len(s) \in Nat /\ Len(q) \in Nat
        /\ \A j \in 1..Len(s) : s[j] \in Nat /\ s[j] < nextTicket
    <3>0. s \in Seq(Nat)
      BY DEF TypeOK
    <3>1. s \in Seq(Nat) /\ Len(s) \in Nat /\ Len(q) \in Nat
      BY ONLY <2>3, <3>0
    <3>2. \A j \in 1..Len(s) : s[j] \in Nat
      BY <3>1
    <3>3. \A j \in 1..Len(s) : s[j] < nextTicket
      BY DEF TicketsAscend
    <3>4. QED
      BY <3>1, <3>2, <3>3
  <2>5. \A i, j \in 1..Len(s) : i < j /\ s[j] # NULL => s[i] < s[j]
    <3>1. SUFFICES ASSUME NEW i \in 1..Len(s), NEW j \in 1..Len(s), i < j, s[j] # NULL
                   PROVE  s[i] < s[j]
      OBVIOUS
    <3>2. i \in 1..(j - 1)
      BY <2>4, <3>1
    <3>3. QED
      BY <3>1, <3>2 DEF TicketsAscend
  <2>6. Subscriptions' = [Subscriptions EXCEPT ![eventId[a]] = Live(q)]
    BY <1>1, <2>1, <2>3, SubscriptionsOfOneChange
  <2>7. eventId[a] \in 1..MaxHookId /\ Subscriptions[eventId[a]] = Live(s)
    BY <2>1, SubscriptionsOfEvent
  <2> HIDE DEF s, q
  <2>8. \A j \in 1..Len(q) : j \in 1..Len(s)
    BY <2>3, <2>4
  <2>9. Live(q) = Live(s) \ {s[k]}
    <3>1. ASSUME NEW t \in Live(q) PROVE t \in Live(s) \ {s[k]}
      <4>1. PICK j \in 1..Len(q) : q[j] = t /\ t # NULL
        BY <3>1 DEF Live
      <4>2. j # k /\ j \in 1..Len(s) /\ s[j] = t
        <5>1. j \in 1..Len(s)
          BY <2>8
        <5>2. q[j] = IF j = k THEN NULL ELSE s[j]
          BY <2>3
        <5>3. QED
          BY <4>1, <5>1, <5>2
      <4>3. j < k => s[k] = NULL \/ s[j] < s[k]
        <5>1. j \in 1..Len(s) /\ k \in 1..Len(s)
          BY <4>2 DEF s
        <5>2. QED
          BY <2>5, <5>1
      <4>4. k < j => s[k] < s[j]
        <5>1. j \in 1..Len(s) /\ k \in 1..Len(s) /\ s[j] # NULL
          BY <4>1, <4>2 DEF s
        <5>2. QED
          BY <2>5, <5>1
      <4>5. t # s[k]
        BY <2>4, <4>1, <4>2, <4>3, <4>4
      <4>6. QED
        BY <4>1, <4>2, <4>5 DEF Live
    <3>2. ASSUME NEW t \in Live(s), t # s[k] PROVE t \in Live(q)
      <4>1. PICK j \in 1..Len(s) : s[j] = t /\ t # NULL
        BY <3>2 DEF Live
      <4>2. j # k /\ j \in 1..Len(q) /\ q[j] = t
        BY <2>3, <3>2, <4>1
      <4>3. QED
        BY <4>1, <4>2 DEF Live
    <3>3. QED
      BY <3>1, <3>2
  <2>10. CASE s[k] = NULL
    <3>1. NULL \notin Live(s)
      BY DEF Live
    <3>2. Live(q) = Live(s)
      BY <2>9, <2>10, <3>1
    <3>3. UNCHANGED Subscriptions
      BY <2>6, <2>7, <3>2 DEF Subscriptions
    <3>4. QED
      BY <1>1, <1>2, <3>3 DEF Bus!busVars
  <2>11. CASE s[k] # NULL
    <3>1. s[k] \in 1..MaxTicket
      <4>1. s[k] \in Nat /\ s[k] < nextTicket
        BY <2>2, <2>4 DEF s
      <4>2. nextTicket \in 1..(MaxTicket + 1) /\ MaxTicket \in Nat
        BY HookEngineAssumption DEF TypeOK
      <4>3. QED
        BY <2>11, <4>1, <4>2 DEF NULL
    <3>2. Bus!Unsubscribe(eventId[a], s[k])
      BY <1>1, <1>2, <2>6, <2>7, <2>9 DEF Bus!Unsubscribe
    <3>3. QED
      BY <2>7, <3>1, <3>2
  <2>12. QED
    BY <2>10, <2>11
<1>5. QED
  BY <1>3, <1>4 DEF UnhookEvent

\* A notification of an event that is there begins as the bus begins one.
LEMMA NotifyIsNotify ==
  ASSUME TypeOK, IdsUnique, NotifyInv, NEW e \in created, NotifyEventHooks(e)
  PROVE  Bus!NotifyUnknown \/ \E id \in 1..MaxHookId : Bus!Notify(id)
<1>1. /\ UNCHANGED <<hooks, eventId, subscriber, nextTicket>>
      /\ stack \in Seq(Frame) /\ e.p \in Addr /\ subscriber[e.p] \in Seq(Nat)
  BY DEF NotifyEventHooks, memory, TypeOK
<1>2. CASE ~Contains(hooks, e.p)
  <2>1. ret' = INVALID /\ UNCHANGED stack
    BY <1>2 DEF NotifyEventHooks
  <2>2. UNCHANGED <<Subscriptions, Running>>
    BY <1>1, <2>1, SubscriptionsKept, RunningKept
  <2>3. INVALID \notin Nat
    BY DEF INVALID
  <2>4. QED
    BY <1>1, <2>1, <2>2, <2>3 DEF Bus!NotifyUnknown
<1>3. CASE Contains(hooks, e.p)
  <2> DEFINE f == [p |-> e.p, id |-> e.id, slot |-> 0, due |-> Live(subscriber[e.p]),
                   calls |-> <<>>, abort |-> 0]
             n == [event |-> eventId[e.p], due |-> Live(subscriber[e.p]), last |-> 0,
                   default |-> FALSE]
  <2>1. Resume(stack, f, 0, 0) /\ f \in Frame
    BY <1>3, FirstActivation DEF NotifyEventHooks
  <2>2. Sound(f) /\ Ahead(f, 0)
    <3>1. \A t \in f.due : t # NULL /\ t < nextTicket
      BY <1>1 DEF NotifyInv, Live, TicketsAscend
    <3>2. Sound(f)
      BY <1>3, <3>1 DEF Sound
    <3>3. Ahead(f, 0)
      BY <1>1 DEF Ahead
    <3>4. QED
      BY <3>2, <3>3
  <2>3. n = [event |-> eventId[f.p], due |-> f.due, last |-> LastOf(f.calls),
             default |-> FALSE]
    BY DEF LastOf
  <2>4. TicketsAscend /\ 0 \in Result
    BY HookEngineAssumption DEF NotifyInv
  <2> HIDE DEF f, n
  <2>5. PICK g \in Frame : g = f
    BY <2>1
  <2>6. PICK m : m = n
    OBVIOUS
  <2>7. Bus!Proceed(RunningOf(stack), m)
    <3>1. Resume(stack, g, 0, 0) /\ Sound(g) /\ Ahead(g, 0)
      BY <2>1, <2>2, <2>5
    <3>2. m = [event |-> eventId[g.p], due |-> g.due, last |-> LastOf(g.calls),
               default |-> FALSE]
      BY <2>3, <2>5, <2>6, Zenon
    <3>3. PICK base \in Seq(Frame) : base = stack
      BY <1>1
    <3>4. Resume(base, g, 0, 0)
      BY <3>1, <3>3
    <3>5. Bus!Proceed(RunningOf(base), m)
      BY <1>1, <2>4, <3>1, <3>2, <3>4, ResumeProceeds
    <3>6. QED
      BY <3>3, <3>5
  <2>8. eventId[e.p] \in 1..MaxHookId /\ Subscriptions[eventId[e.p]] = Live(subscriber[e.p])
    BY <1>1, <1>3, SubscriptionsOfEvent
  <2>9. m = [event |-> eventId[e.p], due |-> Subscriptions[eventId[e.p]], last |-> 0,
             default |-> FALSE]
    BY <2>6, <2>8, Zenon DEF n
  <2>10. Bus!Notify(eventId[e.p])
    BY <2>7, <2>9, RunningIsOfStack, Zenon DEF Bus!Notify
  <2>11. QED
    BY <2>8, <2>10
<1>4. QED
  BY <1>2, <1>3

\* A callback returns into the notification the bus knows as the current one.
LEMMA ReturnIsReturn ==
  ASSUME TypeOK, IdsUnique, NotifyInv, NEW r \in Result, HookReturns(r)
  PROVE  Bus!Return
<1>1. /\ UNCHANGED <<hooks, eventId, subscriber, nextTicket>>
      /\ stack \in Seq(Frame) /\ stack # <<>>
  BY DEF HookReturns, memory, TypeOK
<1>2. /\ Len(stack) \in 1..Len(stack) /\ Top = stack[Len(stack)] /\ Top \in Frame
      /\ Below \in Seq(Frame)
  BY <1>1, TopAndBelow
<1>3. /\ Running # <<>> /\ Bus!Current = BusFrame(Top) /\ Bus!Outer = RunningOf(Below)
  BY <1>1, CurrentAndOuter
<1>4. LoopInv(Top) /\ TicketsAscend
  BY <1>2 DEF NotifyInv
<1>5. CASE Top.slot = DEFAULT
  <2>1. stack' = Below /\ ret' = r
    BY <1>5 DEF HookReturns
  <2>2. Running' = RunningOf(Below)
    BY <1>1, <2>1 DEF Running, RunningOf, BusFrame
  <2>3. BusFrame(Top).default = TRUE
    BY <1>5 DEF BusFrame
  <2>4. UNCHANGED <<Subscriptions, nextTicket>>
    BY <1>1, SubscriptionsKept
  <2>5. Bus!End(RunningOf(Below), BusFrame(Top), r)
    BY <2>1, <2>2, <2>3 DEF Bus!End
  <2>6. Bus!Proceed(RunningOf(Below), BusFrame(Top))
    BY <2>4, <2>5 DEF Bus!Proceed
  <2>7. QED
    BY <1>3, <2>6 DEF Bus!Return
<1>6. CASE Top.slot # DEFAULT
  <2>1. Resume(Below, Top, r, Top.slot) /\ Top.slot \in Nat
    BY <1>2, <1>6 DEF HookReturns, Frame
  <2>2. Sound(Top) /\ Ahead(Top, Top.slot)
    BY <1>4, <1>6 DEF LoopInv
  <2>3. PICK base \in Seq(Frame) : base = Below
    BY <1>2
  <2>4. PICK f \in Frame : f = Top
    BY <1>2
  <2>5. PICK from \in Nat : from = Top.slot
    BY <2>1
  <2>6. PICK n : n = BusFrame(Top)
    OBVIOUS
  <2>7. n = [event |-> eventId[f.p], due |-> f.due, last |-> LastOf(f.calls),
             default |-> FALSE]
    BY <1>6, <2>4, <2>6 DEF BusFrame
  <2>8. Resume(base, f, r, from) /\ Sound(f) /\ Ahead(f, from)
    BY <2>1, <2>2, <2>3, <2>4, <2>5
  <2>9. Bus!Proceed(RunningOf(base), n)
    BY <1>1, <1>4, <2>7, <2>8, ResumeProceeds
  <2>10. QED
    BY <1>3, <2>3, <2>6, <2>9 DEF Bus!Return
<1>7. QED
  BY <1>5, <1>6

LEMMA BusInitially == Init => Bus!BusInit
<1> SUFFICES ASSUME Init PROVE Bus!BusInit
  OBVIOUS
<1>1. /\ hooks = <<>> /\ stack = <<>> /\ nextTicket = 1 /\ ret = 0
  BY DEF Init, InitWith
<1>2. \A id : EventsWithId(id) = {}
  BY <1>1 DEF EventsWithId, Contains
<1>3. Subscriptions = [id \in 1..MaxHookId |-> {}]
  BY <1>2 DEF Subscriptions
<1>4. Running = <<>>
  <2>1. Running \in [1..0 -> {}] /\ 0 \in Nat
    BY <1>1 DEF Running
  <2>2. Running \in Seq({}) /\ Len(Running) = 0
    BY <2>1, FunctionIsSeq
  <2>3. QED
    BY <2>2, EmptySeq
<1>5. QED
  BY <1>1, <1>3, <1>4 DEF Bus!BusInit

LEMMA BusStep ==
  ASSUME TypeOK, TypeOK', IdsUnique, NotifyInv, [Next]_vars
  PROVE  [Bus!BusNext]_Bus!busVars
<1>1. ASSUME UNCHANGED <<hooks, eventId, subscriber, stack, ret, nextTicket>>
      PROVE  UNCHANGED Bus!busVars
  BY <1>1, SubscriptionsKept, RunningKept DEF Bus!busVars
<1>2. CASE UNCHANGED vars
  BY <1>1, <1>2 DEF vars, memory
<1>3. ASSUME NEW n \in Name, CreateHookableEvent(n) PROVE UNCHANGED Bus!busVars
  BY <1>3, CreateIsStutter
<1>4. ASSUME NEW a \in Addr, DestroyHookableEvent(a) PROVE Bus!BusNext
  BY <1>4, DestroyIsDrop DEF Bus!BusNext
<1>5. ASSUME NEW a \in Addr, NEW set \in BOOLEAN, SetHookDefaultForHookableEvent(a, set)
      PROVE  UNCHANGED Bus!busVars
  BY <1>1, <1>5 DEF SetHookDefaultForHookableEvent
<1>6. ASSUME NEW n \in Name, HookEvent(n) PROVE Bus!BusNext
  BY <1>6, HookIsSubscribe DEF Bus!BusNext
<1>7. ASSUME NEW u \in Usable, UnhookEvent(u)
      PROVE  UNCHANGED Bus!busVars \/ Bus!BusNext
  <2>1. TicketsAscend
    BY DEF NotifyInv
  <2>2. QED
    BY <1>7, <2>1, UnhookIsUnsubscribe DEF Bus!BusNext
<1>8. ASSUME NEW e \in created, NotifyEventHooks(e) PROVE Bus!BusNext
  BY <1>8, NotifyIsNotify DEF Bus!BusNext
<1>9. ASSUME NEW r \in Result, HookReturns(r) PROVE Bus!BusNext
  BY <1>9, ReturnIsReturn DEF Bus!BusNext
<1>10. QED
  BY <1>2, <1>3, <1>4, <1>5, <1>6, <1>7, <1>8, <1>9 DEF Next

\* The engine keeps the promises modules.h makes of hookable events: whatever
\* the callbacks do to lists, arrays and handles, every step of the engine is a
\* step of the event bus, or one the bus does not see.
THEOREM EngineIsAnEventBus == Spec => ImplementsEventBus
<1>1. EngineInv => IdsUnique
  BY DEF EngineInv
<1>2. QED
  BY <1>1, BusInitially, BusStep, TypeCorrect, EngineInvariant, NotifyInvariant, PTL
     DEF Spec, ImplementsEventBus, Bus!BusSpec
===============================================================================
