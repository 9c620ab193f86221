-------------------------- MODULE PluginLoaderProofs --------------------------
(***************************************************************************)
(* Theorems about PluginLoader: it drives the hook engine only as the      *)
(* engine allows, so that the theorems about HookEngine hold of it, and    *)
(* what it calls is in memory.                                             *)
(***************************************************************************)
EXTENDS PluginLoader, HookEngineProofs

\* The first step of OnCreateCall is a call the plugin may make.
LEMMA CallType ==
  ASSUME LoaderTypeOK, loading # Nobody, at < Len(OnCreateCalls[loading])
  PROVE  /\ loading \in Plugin \ files /\ loading \in mapped
         /\ OnCreateCalls[loading] \in Seq([call : {"create", "hook"}, event : Name])
         /\ at + 1 \in 1..Len(OnCreateCalls[loading])
         /\ OnCreateCalls[loading][at + 1].event \in Name
         /\ OnCreateCalls[loading][at + 1].call \in {"create", "hook"}
<1>1. loading \in Plugin \ files /\ loading \in mapped /\ at \in Nat
  BY DEF LoaderTypeOK
<1>2. OnCreateCalls[loading] \in Seq([call : {"create", "hook"}, event : Name])
  BY <1>1, PluginLoaderAssumption
<1>3. Len(OnCreateCalls[loading]) \in Nat
  BY <1>2, LenProperties
<1>4. at + 1 \in 1..Len(OnCreateCalls[loading])
  BY <1>1, <1>3
<1>5. OnCreateCalls[loading][at + 1] \in [call : {"create", "hook"}, event : Name]
  BY <1>2, <1>4, ElementOfSeq
<1>6. QED
  BY <1>1, <1>2, <1>4, <1>5

\* Each step of the loader is a step of the engine, or leaves it alone.
LEMMA EngineStep == LoaderTypeOK /\ [LoaderNext]_<<vars, loader>> => [Next]_vars
<1> SUFFICES ASSUME LoaderTypeOK, [LoaderNext]_<<vars, loader>> PROVE [Next]_vars
  OBVIOUS
<1>1. CASE LoadCoreModule
  <2>1. CreateHookableEvent(PluginsLoaded) /\ PluginsLoaded \in Name
    BY <1>1, PluginLoaderAssumption DEF LoadCoreModule
  <2>2. QED
    BY <2>1 DEF Next
<1>2. ASSUME NEW p \in Plugin, NextFile(p) PROVE [Next]_vars
  BY <1>2 DEF NextFile
<1>3. CASE OnCreateCall
  <2> DEFINE n == OnCreateCalls[loading][at + 1].event
  <2>1. n \in Name
    BY <1>3, CallType DEF OnCreateCall
  <2>2. CreateEvent(n) \/ Hook(loading, n)
    BY <1>3 DEF OnCreateCall
  <2> HIDE DEF n
  <2>3. CreateHookableEvent(n) \/ HookEvent(n) \/ UNCHANGED vars
    BY <2>2 DEF CreateEvent, Hook, EngineUnchanged
  <2>4. QED
    BY <2>1, <2>3 DEF Next
<1>4. CASE Registered
  BY <1>4 DEF Registered
<1>5. CASE OnCreateFailed
  BY <1>5 DEF OnCreateFailed
<1>6. CASE NotifyPluginsLoaded
  <2>1. \E e \in created : NotifyEventHooks(e)
    BY <1>6 DEF NotifyPluginsLoaded
  <2>2. QED
    BY <2>1 DEF Next
<1>7. ASSUME NEW n \in Name, CallbackHooks(n) PROVE [Next]_vars
  <2>1. HookEvent(n) \/ UNCHANGED vars
    BY <1>7 DEF CallbackHooks, Hook, EngineUnchanged
  <2>2. QED
    BY <2>1 DEF Next
<1>8. ASSUME NEW r \in Result, CallbackReturns(r) PROVE [Next]_vars
  <2>1. HookReturns(r)
    BY <1>8 DEF CallbackReturns
  <2>2. QED
    BY <2>1 DEF Next
<1>9. ASSUME NEW e \in created, NotifyLater(e) PROVE [Next]_vars
  <2>1. NotifyEventHooks(e)
    BY <1>9 DEF NotifyLater
  <2>2. QED
    BY <2>1 DEF Next
<1>10. CASE UNCHANGED <<vars, loader>>
  BY <1>10
<1>11. ASSUME LoaderNext PROVE [Next]_vars
  BY <1>1, <1>2, <1>3, <1>4, <1>5, <1>6, <1>7, <1>8, <1>9, <1>11, Zenon
     DEF LoaderNext, Skip, SkipMapped, Load
<1>12. QED
  BY <1>10, <1>11
-------------------------------------------------------------------------------
(* What the steps do to LoaderInv.                                           *)

LEMMA CreateEffect ==
  ASSUME TypeOK, NoDefault, NEW n \in Name, CreateEvent(n)
  PROVE  NoDefault' /\ UNCHANGED <<stack, nextTicket, hookedBy>>
<1>1. CASE CreateHookableEvent(n)
  <2>1. PICK a \in Addr : dflt' = [dflt EXCEPT ![a] = FALSE]
    BY <1>1 DEF CreateHookableEvent, NewEvent
  <2>2. NoDefault'
    BY <2>1 DEF NoDefault, TypeOK
  <2>3. QED
    BY <1>1, <2>2 DEF CreateEvent, CreateHookableEvent
<1>2. CASE UNCHANGED vars
  BY <1>2 DEF CreateEvent, vars, memory, NoDefault
<1>3. QED
  BY <1>1, <1>2 DEF CreateEvent

LEMMA HookEffect ==
  ASSUME TypeOK, LoaderTypeOK, NoDefault, CallsKnown, OwnersKnown,
         NEW p \in Plugin, p \notin files, UNCHANGED files,
         NEW n \in Name, Hook(p, n)
  PROVE  /\ NoDefault' /\ CallsKnown' /\ OwnersKnown' /\ UNCHANGED stack
         /\ hookedBy' \in [Ticket -> Plugin \cup {Nobody}]
         /\ \A t \in 1..(nextTicket' - 1) :
              \/ hookedBy'[t] = p
              \/ t \in 1..(nextTicket - 1) /\ hookedBy'[t] = hookedBy[t]
<1>0. nextTicket \in 1..(MaxTicket + 1) /\ MaxTicket \in Nat
      /\ hookedBy \in [Ticket -> Plugin \cup {Nobody}]
  BY HookEngineAssumption DEF TypeOK, LoaderTypeOK
<1>1. CASE HookEvent(n) /\ hookedBy' = [hookedBy EXCEPT ![nextTicket] = p]
  <2>1. nextTicket \in Ticket /\ nextTicket' = nextTicket + 1 /\ UNCHANGED <<stack, dflt>>
    BY <1>0, <1>1 DEF HookEvent, Subscribe, Ticket
  <2>2. hookedBy' \in [Ticket -> Plugin \cup {Nobody}]
    BY <1>0, <1>1
  <2>3. ASSUME NEW t \in 1..(nextTicket' - 1)
        PROVE  \/ hookedBy'[t] = p
               \/ t \in 1..(nextTicket - 1) /\ hookedBy'[t] = hookedBy[t]
    <3>1. CASE t = nextTicket
      BY <1>0, <1>1, <2>1, <3>1
    <3>2. CASE t # nextTicket
      <4>1. t \in 1..(nextTicket - 1) /\ t \in Ticket
        BY <1>0, <2>1, <2>3, <3>2 DEF Ticket
      <4>2. QED
        BY <1>0, <1>1, <3>2, <4>1
    <3>3. QED
      BY <3>1, <3>2
  <2>4. OwnersKnown'
    BY <2>3 DEF OwnersKnown
  <2>5. \A f : CallIsKnown(f) => CallIsKnown(f)'
    BY <1>0, <2>1 DEF CallIsKnown
  <2>6. CallsKnown' /\ NoDefault'
    BY <2>1, <2>5 DEF CallsKnown, NoDefault, CallIsKnown
  <2>7. QED
    BY <2>1, <2>2, <2>3, <2>4, <2>6
<1>2. CASE EngineUnchanged
  BY <1>0, <1>2 DEF EngineUnchanged, vars, memory, NoDefault, CallsKnown, CallIsKnown,
                    OwnersKnown
<1>3. QED
  BY <1>1, <1>2 DEF Hook

\* Going on with a notification calls only subscriptions that were made.
LEMMA ResumeEffect ==
  ASSUME TypeOK, NoDefault, TicketsAscend, NEW base \in Seq(Frame), NEW f \in Frame,
         NEW val, NEW from \in Nat, Resume(base, f, val, from),
         \A d \in 1..Len(base) : CallIsKnown(base[d])
  PROVE  \A d \in 1..Len(stack') : CallIsKnown(stack'[d])
<1>1. CASE CallNext(base, f, val, from)
  <2> DEFINE s == subscriber[f.p]
  <2>1. f.p \in Addr /\ f.calls \in Seq(Nat) /\ s \in Seq(Nat) /\ nextTicket \in Nat
    BY HookEngineAssumption DEF Frame, TypeOK
  <2>2. PICK j \in (from + 1)..Len(s) :
          /\ s[j] # NULL
          /\ stack' = Append(base, [p |-> f.p, id |-> f.id, slot |-> j, due |-> f.due,
                                    calls |-> Append(f.calls, s[j]), abort |-> 0])
    BY <1>1 DEF CallNext
  <2>3. j \in 1..Len(s) /\ j # DEFAULT
    BY <2>1, <2>2, LenProperties DEF DEFAULT
  <2>4. s[j] \in Nat /\ s[j] < nextTicket
    BY <2>1, <2>3, ElementOfSeq DEF TicketsAscend
  <2>5. s[j] \in 1..(nextTicket - 1)
    BY <2>1, <2>2, <2>4, SMTT(30) DEF NULL
  <2> DEFINE q == Append(f.calls, s[j])
             g == [p |-> f.p, id |-> f.id, slot |-> j, due |-> f.due, calls |-> q, abort |-> 0]
  <2>6. Len(q) > 0 /\ q[Len(q)] = s[j]
    BY <2>1, <2>4, AppendProperties, LenProperties, SMTT(30)
  <2>7. g.slot = j /\ g.calls = q /\ stack' = Append(base, g)
    BY <2>2
  <2> HIDE DEF q, g, s
  <2>8. CallIsKnown(g)
    BY <2>3, <2>5, <2>6, <2>7 DEF CallIsKnown
  <2>9. \A d \in 1..Len(stack') : stack'[d] = g \/ (d \in 1..Len(base) /\ stack'[d] = base[d])
    <3>1. stack' \in Seq(Frame \cup {g}) /\ base \in Seq(Frame \cup {g})
      BY <2>7
    <3>2. /\ Len(stack') = Len(base) + 1 /\ Len(base) \in Nat
          /\ stack'[Len(base) + 1] = g
          /\ \A d \in 1..Len(base) : stack'[d] = base[d]
      BY <2>7, <3>1, AppendProperties, LenProperties
    <3>3. \A d \in 1..Len(stack') : d = Len(base) + 1 \/ d \in 1..Len(base)
      BY <3>2
    <3>4. QED
      BY <3>2, <3>3
  <2>10. QED
    BY <2>8, <2>9
<1>2. ~CallDefault(base, f, val, from)
  BY DEF CallDefault, CallsDefault, NoDefault, Frame
<1>3. CASE Finish(base, f, val, from)
  BY <1>3 DEF Finish
<1>4. QED
  BY <1>1, <1>2, <1>3 DEF Resume

\* A notification begins or goes on.
LEMMA NotifyEffect ==
  ASSUME TypeOK, NotifyInv, NoDefault, CallsKnown,
         \/ \E e \in created : NotifyEventHooks(e)
         \/ \E r \in Result : HookReturns(r)
  PROVE  /\ \A d \in 1..Len(stack') : CallIsKnown(stack'[d])
         /\ NoDefault' /\ CallsKnown' /\ UNCHANGED <<nextTicket, name>>
<1>1. UNCHANGED <<dflt, nextTicket, name>>
  BY DEF NotifyEventHooks, HookReturns, memory
<1>2. TicketsAscend /\ stack \in Seq(Frame)
  BY DEF NotifyInv, TypeOK
<1>3. \A d \in 1..Len(stack') : CallIsKnown(stack'[d])
  <2>1. ASSUME NEW e \in created, NotifyEventHooks(e)
        PROVE  \A d \in 1..Len(stack') : CallIsKnown(stack'[d])
    <3> DEFINE f == [p |-> e.p, id |-> e.id, slot |-> 0, due |-> Live(subscriber[e.p]),
                     calls |-> <<>>, abort |-> 0]
    <3>1. f \in Frame
      BY FirstActivation
    <3>2. Resume(stack, f, 0, 0) \/ UNCHANGED stack
      BY <2>1 DEF NotifyEventHooks
    <3> HIDE DEF f
    <3>3. QED
      BY <1>2, <3>1, <3>2, ResumeEffect DEF CallsKnown
  <2>2. ASSUME NEW r \in Result, HookReturns(r)
        PROVE  \A d \in 1..Len(stack') : CallIsKnown(stack'[d])
    <3>1. stack # <<>>
      BY <2>2 DEF HookReturns
    <3>2. /\ Len(stack) \in 1..Len(stack) /\ Top = stack[Len(stack)] /\ Top \in Frame
          /\ Below \in Seq(Frame)
          /\ \A d \in 1..Len(Below) : d \in 1..Len(stack) /\ Below[d] = stack[d]
      BY <1>2, <3>1, TopAndBelow
    <3>3. CallIsKnown(Top) /\ \A d \in 1..Len(Below) : CallIsKnown(Below[d])
      BY <3>2 DEF CallsKnown
    <3>4. Resume(Below, Top, r, Top.slot) /\ Top.slot \in Nat
      BY <2>2, <3>2, <3>3 DEF HookReturns, CallIsKnown, Frame
    <3>5. QED
      BY <1>2, <3>2, <3>3, <3>4, ResumeEffect
  <2>3. QED
    BY <2>1, <2>2
<1>4. QED
  BY <1>1, <1>3 DEF NoDefault, CallsKnown, CallIsKnown

\* What a callback has to do are events.
LEMMA TodoType ==
  ASSUME LoaderTypeOK, OwnersKnown, NEW s \in Seq(Frame),
         \A d \in 1..Len(s) : CallIsKnown(s[d])
  PROVE  TodoOf(s) \subseteq Name
<1>1. CASE s = <<>>
  BY <1>1 DEF TodoOf
<1>2. CASE s # <<>>
  <2>1. Len(s) \in 1..Len(s)
    BY <1>2, EmptySeq, LenProperties
  <2>2. Callee(s[Len(s)]) \in Plugin
    BY <2>1 DEF CallIsKnown, OwnersKnown, Callee
  <2>3. LoadedCalls[Callee(s[Len(s)])] \subseteq Name
    BY <2>2, PluginLoaderAssumption
  <2>4. QED
    BY <2>3 DEF TodoOf
<1>3. QED
  BY <1>1, <1>2

LEMMA LoaderInvInit == LoaderInit => LoaderInv
<1> SUFFICES ASSUME LoaderInit PROVE LoaderInv
  OBVIOUS
<1>1. LoaderTypeOK
  BY DEF LoaderInit, LoaderTypeOK
<1>2. NoDefault /\ nextTicket = 1 /\ stack = <<>> /\ Len(stack) = 0
  BY EmptySeq DEF LoaderInit, Init, InitWith, NoDefault
<1>3. QED
  BY <1>1, <1>2 DEF LoaderInv, CallsKnown, OwnersKnown, LoaderInit, OneByOne

\* A step that leaves the engine alone.
LEMMA InvEngineUnchanged ==
  ASSUME LoaderInv, LoaderTypeOK', OneByOne', UNCHANGED <<dflt, stack, nextTicket, hookedBy>>,
         files' \subseteq files
  PROVE  LoaderInv'
<1>1. NoDefault' /\ CallsKnown' /\ OwnersKnown'
  BY DEF LoaderInv, NoDefault, CallsKnown, CallIsKnown, OwnersKnown
<1>2. QED
  BY <1>1 DEF LoaderInv

LEMMA FileKeepsInv ==
  ASSUME LoaderInv, NEW p \in Plugin, Skip(p) \/ SkipMapped(p) \/ Load(p)
  PROVE  LoaderInv'
<1>1. /\ loading = Nobody /\ p \in files /\ files' = files \ {p} /\ phase = "loading"
      /\ UNCHANGED <<vars, phase, Libraries, at, todo, hookedBy>>
  BY DEF Skip, SkipMapped, Load, NextFile
<1>2. /\ mapped' = mapped \/ mapped' = mapped \cup {p}
      /\ loading' = Nobody \/ (loading' = p /\ mapped' = mapped \cup {p})
  BY <1>1 DEF Skip, SkipMapped, Load
<1>3. LoaderTypeOK
  BY DEF LoaderInv
<1>4. LoaderTypeOK'
  BY <1>1, <1>2, <1>3 DEF LoaderTypeOK
<1>5. UNCHANGED <<dflt, stack, nextTicket>>
  BY <1>1 DEF vars, memory
<1>6. OneByOne'
  BY <1>1, <1>5 DEF LoaderInv, OneByOne
<1>7. QED
  BY <1>1, <1>4, <1>5, <1>6, InvEngineUnchanged

LEMMA OnCreateCallKeepsInv ==
  ASSUME TypeOK, LoaderInv, OnCreateCall PROVE LoaderInv'
<1> DEFINE c == OnCreateCalls[loading][at + 1]
<1>0. LoaderTypeOK /\ OneByOne /\ NoDefault /\ CallsKnown /\ OwnersKnown
  BY DEF LoaderInv
<1>1. /\ loading # Nobody /\ at < Len(OnCreateCalls[loading])
      /\ at' = at + 1 /\ at \in Nat
      /\ UNCHANGED <<phase, files, mapped, Libraries, loading, todo>>
  BY <1>0 DEF OnCreateCall, LoaderTypeOK
<1>2. /\ loading \in Plugin /\ loading \notin files /\ loading \in mapped
      /\ c.event \in Name /\ c.call \in {"create", "hook"}
  BY <1>0, <1>1, CallType
<1>3. IF c.call = "create" THEN CreateEvent(c.event) ELSE Hook(loading, c.event)
  BY DEF OnCreateCall
<1>4. CASE c.call = "create"
  <2>1. NoDefault' /\ UNCHANGED <<stack, nextTicket, hookedBy>>
    BY <1>0, <1>2, <1>3, <1>4, CreateEffect
  <2>2. LoaderTypeOK' /\ OneByOne'
    BY <1>0, <1>1, <2>1 DEF LoaderTypeOK, OneByOne
  <2>3. CallsKnown' /\ OwnersKnown'
    BY <1>0, <1>1, <2>1 DEF CallsKnown, CallIsKnown, OwnersKnown
  <2>4. QED
    BY <2>1, <2>2, <2>3 DEF LoaderInv
<1>5. CASE c.call = "hook"
  <2>1. Hook(loading, c.event)
    BY <1>3, <1>5
  <2>2. /\ NoDefault' /\ CallsKnown' /\ OwnersKnown' /\ UNCHANGED stack
        /\ hookedBy' \in [Ticket -> Plugin \cup {Nobody}]
        /\ \A t \in 1..(nextTicket' - 1) :
             \/ hookedBy'[t] = loading
             \/ t \in 1..(nextTicket - 1) /\ hookedBy'[t] = hookedBy[t]
    BY <1>0, <1>1, <1>2, <2>1, HookEffect
  <2>3. LoaderTypeOK' /\ OneByOne'
    BY <1>0, <1>1, <2>2 DEF LoaderTypeOK, OneByOne
  <2>4. QED
    BY <2>2, <2>3 DEF LoaderInv
<1>6. QED
  BY <1>2, <1>4, <1>5

\* OnCreate is over.
LEMMA OnCreateEndsKeepsInv ==
  ASSUME LoaderInv, Registered \/ OnCreateFailed PROVE LoaderInv'
<1>0. LoaderTypeOK
  BY DEF LoaderInv
<1>1. /\ loading # Nobody /\ loading' = Nobody /\ at' = 0
      /\ UNCHANGED <<vars, phase, files, todo, hookedBy>>
  BY DEF Registered, OnCreateFailed
<1>2. LoaderTypeOK'
  <2>1. loading \in mapped \ Libraries
    BY <1>0, <1>1 DEF LoaderTypeOK
  <2>2. CASE Registered
    BY <1>0, <1>1, <2>1, <2>2 DEF LoaderTypeOK, Registered
  <2>3. CASE OnCreateFailed
    BY <1>0, <1>1, <2>1, <2>3 DEF LoaderTypeOK, OnCreateFailed
  <2>4. QED
    BY <2>2, <2>3
<1>3. UNCHANGED <<dflt, stack, nextTicket>>
  BY <1>1 DEF vars, memory
<1>4. OneByOne'
  BY <1>1, <1>3 DEF LoaderInv, OneByOne
<1>5. QED
  BY <1>1, <1>2, <1>3, <1>4, InvEngineUnchanged

LEMMA CallbackHooksKeepsInv ==
  ASSUME TypeOK, LoaderInv, NEW n \in Name, CallbackHooks(n) PROVE LoaderInv'
<1>0. LoaderTypeOK /\ OneByOne /\ NoDefault /\ CallsKnown /\ OwnersKnown
  BY DEF LoaderInv
<1>1. /\ stack # <<>> /\ Callee(Top) \in mapped /\ Hook(Callee(Top), n)
      /\ todo' = todo \ {n}
      /\ UNCHANGED <<phase, files, mapped, Libraries, loading, at>>
  BY DEF CallbackHooks, CallbackRuns
<1>2. Callee(Top) \in Plugin /\ Callee(Top) \notin files
  BY <1>0, <1>1 DEF LoaderTypeOK
<1>3. /\ NoDefault' /\ CallsKnown' /\ OwnersKnown' /\ UNCHANGED stack
      /\ hookedBy' \in [Ticket -> Plugin \cup {Nobody}]
      /\ \A t \in 1..(nextTicket' - 1) :
           \/ hookedBy'[t] = Callee(Top)
           \/ t \in 1..(nextTicket - 1) /\ hookedBy'[t] = hookedBy[t]
  BY <1>0, <1>1, <1>2, HookEffect
<1>4. LoaderTypeOK' /\ OneByOne'
  BY <1>0, <1>1, <1>3 DEF LoaderTypeOK, OneByOne
<1>5. QED
  BY <1>3, <1>4 DEF LoaderInv

\* A notification begins or goes on.
LEMMA NotifyKeepsInv ==
  ASSUME TypeOK, TypeOK', NotifyInv, LoaderInv,
         \/ \E e \in created : NotifyEventHooks(e)
         \/ \E r \in Result : HookReturns(r),
         phase' = "loaded", loading = Nobody,
         todo' = TodoOf(stack') \/ todo' = todo,
         UNCHANGED <<files, mapped, Libraries, loading, at, hookedBy>>
  PROVE  LoaderInv'
<1>0. LoaderTypeOK /\ OneByOne /\ NoDefault /\ CallsKnown /\ OwnersKnown
  BY DEF LoaderInv
<1>1. /\ \A d \in 1..Len(stack') : CallIsKnown(stack'[d])
      /\ NoDefault' /\ CallsKnown' /\ UNCHANGED <<nextTicket, name>>
  BY <1>0, NotifyEffect
<1>2. todo' \subseteq Name
  <2>1. stack' \in Seq(Frame)
    BY DEF TypeOK
  <2>2. TodoOf(stack') \subseteq Name
    BY <1>0, <1>1, <2>1, TodoType
  <2>3. QED
    BY <1>0, <2>2 DEF LoaderTypeOK
<1>3. LoaderTypeOK' /\ OneByOne'
  BY <1>0, <1>2 DEF LoaderTypeOK, OneByOne
<1>4. OwnersKnown'
  BY <1>0, <1>1 DEF OwnersKnown
<1>5. QED
  BY <1>1, <1>3, <1>4 DEF LoaderInv

LEMMA LoaderInvStep ==
  TypeOK /\ TypeOK' /\ NotifyInv /\ LoaderInv /\ [LoaderNext]_<<vars, loader>> => LoaderInv'
<1> SUFFICES ASSUME TypeOK, TypeOK', NotifyInv, LoaderInv, [LoaderNext]_<<vars, loader>>
             PROVE  LoaderInv'
  OBVIOUS
<1>0. LoaderTypeOK /\ OneByOne /\ NoDefault /\ CallsKnown /\ OwnersKnown
  BY DEF LoaderInv
<1>1. CASE LoadCoreModule
  <2>1. CreateEvent(PluginsLoaded) /\ PluginsLoaded \in Name
    BY <1>1, PluginLoaderAssumption DEF LoadCoreModule, CreateEvent
  <2>2. NoDefault' /\ UNCHANGED <<stack, nextTicket, hookedBy>>
    BY <1>0, <2>1, CreateEffect
  <2>3. UNCHANGED <<files, mapped, Libraries, loading, at, todo>> /\ phase' = "loading"
    BY <1>1 DEF LoadCoreModule
  <2>4. LoaderTypeOK' /\ OneByOne'
    <3>1. phase = "core" /\ stack = <<>>
      BY <1>0, <1>1 DEF LoadCoreModule, OneByOne
    <3>2. QED
      BY <1>0, <2>2, <2>3, <3>1 DEF LoaderTypeOK, OneByOne
  <2>5. CallsKnown' /\ OwnersKnown'
    BY <1>0, <2>2, <2>3 DEF CallsKnown, CallIsKnown, OwnersKnown
  <2>6. QED
    BY <2>2, <2>4, <2>5 DEF LoaderInv
<1>2. ASSUME NEW p \in Plugin, Skip(p) \/ SkipMapped(p) \/ Load(p) PROVE LoaderInv'
  BY <1>2, FileKeepsInv
<1>3. CASE OnCreateCall
  BY <1>3, OnCreateCallKeepsInv
<1>4. CASE Registered \/ OnCreateFailed
  BY <1>4, OnCreateEndsKeepsInv
<1>5. CASE NotifyPluginsLoaded
  <2>1. /\ \E e \in created : NotifyEventHooks(e)
        /\ loading = Nobody
        /\ phase' = "loaded" /\ todo' = TodoOf(stack')
        /\ UNCHANGED <<files, mapped, Libraries, loading, at, hookedBy>>
    BY <1>5 DEF NotifyPluginsLoaded
  <2>2. QED
    BY <2>1, NotifyKeepsInv
<1>6. ASSUME NEW n \in Name, CallbackHooks(n) PROVE LoaderInv'
  BY <1>6, CallbackHooksKeepsInv
<1>7. ASSUME NEW r \in Result, CallbackReturns(r) PROVE LoaderInv'
  <2>1. /\ HookReturns(r) /\ todo' = TodoOf(stack')
        /\ phase' = "loaded" /\ loading = Nobody
        /\ UNCHANGED <<files, mapped, Libraries, loading, at, hookedBy>>
    BY <1>0, <1>7 DEF CallbackReturns, CallbackRuns, OneByOne
  <2>2. QED
    BY <2>1, NotifyKeepsInv
<1>8. ASSUME NEW e \in created, NotifyLater(e) PROVE LoaderInv'
  <2>1. /\ NotifyEventHooks(e) /\ todo' = todo
        /\ phase' = "loaded" /\ loading = Nobody
        /\ UNCHANGED <<files, mapped, Libraries, loading, at, hookedBy>>
    BY <1>0, <1>8 DEF NotifyLater, loader, OneByOne
  <2>2. QED
    BY <2>1, NotifyKeepsInv
<1>9. CASE UNCHANGED <<vars, loader>>
  <2>1. UNCHANGED <<dflt, stack, nextTicket, hookedBy, phase, files, mapped, Libraries,
                    loading, at, todo>>
    BY <1>9 DEF vars, memory, loader
  <2>2. LoaderTypeOK' /\ OneByOne'
    BY <1>0, <2>1 DEF LoaderTypeOK, OneByOne
  <2>3. QED
    BY <2>1, <2>2, InvEngineUnchanged
<1>10. ASSUME LoaderNext PROVE LoaderInv'
  BY <1>1, <1>2, <1>3, <1>4, <1>5, <1>6, <1>7, <1>8, <1>10, Zenon DEF LoaderNext
<1>11. QED
  BY <1>9, <1>10
-------------------------------------------------------------------------------
\* The type invariants of the engine and of the loader, and what the engine
\* knows of its notifications, hold of the loader: one induction, since the
\* loader's steps are steps of the engine only while LoaderTypeOK holds.
LEMMA LoaderInvariant == LoaderSpec => [](TypeOK /\ NotifyInv /\ LoaderInv)
<1> DEFINE I == TypeOK /\ NotifyInv /\ LoaderInv
<1>1. LoaderInit => I
  <2>1. ASSUME LoaderInit PROVE I
    <3>1. Init
      BY <2>1 DEF LoaderInit
    <3>2. TypeOK
      BY <3>1, TypeInit
    <3>3. NotifyInv
      BY <3>1, NotifyInit
    <3>4. QED
      BY <2>1, <3>2, <3>3, LoaderInvInit
  <2>2. QED
    BY <2>1
<1>2. I /\ [LoaderNext]_<<vars, loader>> => I'
  <2>1. ASSUME I, [LoaderNext]_<<vars, loader>> PROVE I'
    <3>1. [Next]_vars
      BY <2>1, EngineStep DEF LoaderInv
    <3>2. TypeOK'
      BY <2>1, <3>1, TypeInductive
    <3>3. NotifyInv'
      BY <2>1, <3>1, <3>2, NotifyInductive
    <3>4. LoaderInv'
      BY <2>1, <3>2, LoaderInvStep
    <3>5. QED
      BY <3>2, <3>3, <3>4
  <2>2. QED
    BY <2>1
<1>3. QED
  BY <1>1, <1>2, PTL DEF LoaderSpec

\* Type correctness of the loader.
THEOREM LoaderTypeCorrect == LoaderSpec => []LoaderTypeOK
<1>1. LoaderInv => LoaderTypeOK
  BY DEF LoaderInv
<1>2. QED
  BY <1>1, LoaderInvariant, PTL

\* The start of the extender, and the plugins it loads, use the hook engine only
\* as HookEngine says it may be used: every theorem about HookEngine holds here.
THEOREM LoaderUsesTheEngine == LoaderSpec => Spec
<1>1. LoaderInit => Init
  BY DEF LoaderInit
<1>2. LoaderInv /\ [LoaderNext]_<<vars, loader>> => [Next]_vars
  BY EngineStep DEF LoaderInv
<1>3. QED
  BY <1>1, <1>2, LoaderInvariant, PTL DEF LoaderSpec, Spec
-------------------------------------------------------------------------------
(* Why everyone finds their events.                                          *)

\* Nothing that was made or hooked is lost.
Grows ==
  /\ \A a \in Addr : Contains(hooks, a) =>
       /\ Contains(hooks', a) /\ name'[a] = name[a]
       /\ Len(subscriber[a]) <= Len(subscriber'[a])
       /\ \A k \in 1..Len(subscriber[a]) : subscriber'[a][k] = subscriber[a][k]
  /\ nextTicket <= nextTicket'
  /\ \A t \in 1..(nextTicket - 1) : hookedBy'[t] = hookedBy[t]

\* Slot k of event a is plugin p's.
SlotIs(a, k, p) == k \in 1..Len(subscriber[a]) /\ hookedBy[subscriber[a][k]] = p

LEMMA SlotsOf ==
  ASSUME TypeOK, NEW a \in Addr
  PROVE  subscriber[a] \in Seq(Nat) /\ Len(subscriber[a]) \in Nat
BY LenProperties DEF TypeOK

LEMMA SubscribedHasSlot ==
  ASSUME TypeOK, NEW p, NEW n, Subscribed(p, n)
  PROVE  \E a \in Addr : Contains(hooks, a) /\ name[a] = n /\ \E k \in 1..Len(subscriber[a]) :
           subscriber[a][k] # NULL /\ SlotIs(a, k, p)
<1>1. PICK i \in 1..Len(hooks) :
        name[hooks[i]] = n /\ \E t \in Live(subscriber[hooks[i]]) : hookedBy[t] = p
  BY DEF Subscribed
<1>2. PICK t \in Live(subscriber[hooks[i]]) : hookedBy[t] = p
  BY <1>1
<1>3. hooks[i] \in Addr /\ Contains(hooks, hooks[i])
  BY ElementOfSeq DEF TypeOK, Contains
<1>4. PICK a \in Addr : a = hooks[i]
  BY <1>3
<1>5. PICK k \in 1..Len(subscriber[a]) : t = subscriber[a][k] /\ t # NULL
  BY <1>4 DEF Live
<1>6. SlotIs(a, k, p)
  BY <1>2, <1>5 DEF SlotIs
<1>7. QED
  BY <1>1, <1>3, <1>4, <1>5, <1>6

LEMMA SlotSubscribes ==
  ASSUME NEW p, NEW n, NEW a \in Addr, Contains(hooks', a), name'[a] = n,
         NEW k \in 1..Len(subscriber'[a]), subscriber'[a][k] # NULL,
         hookedBy'[subscriber'[a][k]] = p
  PROVE  Subscribed(p, n)'
<1>1. PICK i \in 1..Len(hooks') : hooks'[i] = a
  BY DEF Contains
<1>2. subscriber'[a][k] \in Live(subscriber'[hooks'[i]])
  BY <1>1 DEF Live
<1>3. QED
  BY <1>1, <1>2 DEF Subscribed

LEMMA SubscriptionsStay ==
  ASSUME TypeOK, TypeOK', SlotsStay, Grows, NEW p, NEW n, Subscribed(p, n)
  PROVE  Subscribed(p, n)'
<1>1. PICK a \in Addr : Contains(hooks, a) /\ name[a] = n /\ \E k \in 1..Len(subscriber[a]) :
           subscriber[a][k] # NULL /\ SlotIs(a, k, p)
  BY SubscribedHasSlot
<1>2. PICK k \in 1..Len(subscriber[a]) : subscriber[a][k] # NULL /\ SlotIs(a, k, p)
  BY <1>1
<1>3. subscriber[a][k] \in 1..(nextTicket - 1) /\ hookedBy[subscriber[a][k]] = p
  BY <1>2 DEF SlotsStay, SlotIs
<1>4. /\ Contains(hooks', a) /\ name'[a] = n
      /\ subscriber'[a][k] = subscriber[a][k]
      /\ Len(subscriber[a]) <= Len(subscriber'[a])
      /\ hookedBy'[subscriber[a][k]] = p
  BY <1>1, <1>3 DEF Grows
<1>5. k \in 1..Len(subscriber'[a])
  <2>1. Len(subscriber[a]) \in Nat /\ Len(subscriber'[a]) \in Nat
    BY LenProperties DEF TypeOK
  <2>2. QED
    BY <1>4, <2>1
<1>6. QED
  BY <1>2, <1>4, <1>5, SlotSubscribes

LEMMA EventsStay ==
  ASSUME Grows, NEW n, Exists(n)
  PROVE  Exists(n)'
BY DEF Grows, Exists

LEMMA FoundExists ==
  ASSUME TypeOK, NEW n
  PROVE  Found(hooks, name, n) <=> Exists(n)
<1>1. \A i \in 1..Len(hooks) : hooks[i] \in Addr
  BY ElementOfSeq DEF TypeOK
<1>2. QED
  BY <1>1 DEF Found, Exists, Contains
-------------------------------------------------------------------------------
\* What an event that is made, or that was there, does.
LEMMA CreateGrows ==
  ASSUME TypeOK, SlotsStay, NEW n \in Name, CreateEvent(n)
  PROVE  /\ Grows /\ Exists(n)' /\ UNCHANGED <<stack, nextTicket, hookedBy>>
         /\ \A e \in created' : e \in created \/ Contains(hooks', e.p)
         /\ \A a \in Addr : subscriber'[a] = subscriber[a] \/ subscriber'[a] = <<>>
<1>1. CASE CreateHookableEvent(n)
  <2>1. /\ \E a \in Addr : \E i \in 1..(Len(hooks) + 1) : NewEvent(n, a, i)
        /\ UNCHANGED <<stack, nextTicket, hookedBy>>
    BY <1>1 DEF CreateHookableEvent, CreateEvent
  <2>2. PICK a \in Addr, i \in 1..(Len(hooks) + 1) : NewEvent(n, a, i)
    BY <2>1
  <2>3. /\ ~Contains(hooks, a)
        /\ hooks' = List_Insert(hooks, a, i)
        /\ name' = [name EXCEPT ![a] = n]
        /\ subscriber' = [subscriber EXCEPT ![a] = <<>>]
        /\ created' = created \cup {[p |-> a, id |-> hookId]}
    BY <2>2 DEF NewEvent
  <2>4. hooks \in Seq(Addr) /\ Len(hooks) \in Nat
    BY DEF TypeOK
  <2>5. /\ Len(hooks') = Len(hooks) + 1
        /\ \A j \in 1..(Len(hooks) + 1) :
             hooks'[j] = IF j < i THEN hooks[j] ELSE IF j = i THEN a ELSE hooks[j - 1]
    <3>1. hooks' = List_Insert(hooks, a, i)
      BY <2>3
    <3>2. /\ Len(List_Insert(hooks, a, i)) = Len(hooks) + 1
          /\ \A j \in 1..(Len(hooks) + 1) :
               List_Insert(hooks, a, i)[j] =
                 IF j < i THEN hooks[j] ELSE IF j = i THEN a ELSE hooks[j - 1]
      BY ONLY <2>4 DEF List_Insert
    <3>3. QED
      BY ONLY <3>1, <3>2
  <2>6. hooks'[i] = a /\ i \in 1..Len(hooks')
    BY <2>4, <2>5
  <2>7. ASSUME NEW b \in Addr, Contains(hooks, b) PROVE Contains(hooks', b)
    <3>1. PICK j \in 1..Len(hooks) : hooks[j] = b
      BY <2>7 DEF Contains
    <3>2. CASE j < i
      BY <2>4, <2>5, <3>1, <3>2 DEF Contains
    <3>3. CASE ~(j < i)
      <4>1. j + 1 \in 1..Len(hooks') /\ hooks'[j + 1] = hooks[j]
        BY <2>4, <2>5, <3>3
      <4>2. QED
        BY <3>1, <4>1 DEF Contains
    <3>4. QED
      BY <3>2, <3>3
  <2>8. /\ \A b \in Addr : b # a => name'[b] = name[b] /\ subscriber'[b] = subscriber[b]
        /\ name'[a] = n /\ subscriber'[a] = <<>>
    BY <2>3 DEF TypeOK
  <2>9. Grows
    <3>1. \A b \in Addr : Contains(hooks, b) => Len(subscriber[b]) <= Len(subscriber'[b])
      BY <2>3, <2>8, SlotsOf
    <3>2. nextTicket <= nextTicket'
      BY <2>1, HookEngineAssumption DEF TypeOK
    <3>3. QED
      BY <2>1, <2>3, <2>7, <2>8, <3>1, <3>2 DEF Grows
  <2>10. Contains(hooks', a)
    BY <2>6 DEF Contains
  <2>11. Exists(n)'
    BY <2>8, <2>10 DEF Exists
  <2>12. \A e \in created' : e \in created \/ Contains(hooks', e.p)
    BY <2>3, <2>10
  <2>13. QED
    BY <2>1, <2>8, <2>9, <2>11, <2>12
<1>2. CASE Found(hooks, name, n) /\ UNCHANGED <<vars, hookedBy>>
  <2>1. UNCHANGED <<hooks, name, subscriber, nextTicket, stack, created, hookedBy>>
    BY <1>2 DEF vars, memory
  <2>2. Exists(n)'
    BY <1>2, <2>1, FoundExists DEF Exists
  <2>3. nextTicket <= nextTicket'
    BY <2>1, HookEngineAssumption DEF TypeOK
  <2>4. Grows
    BY <2>1, <2>3, SlotsOf DEF Grows
  <2>5. QED
    BY <2>1, <2>2, <2>4
<1>3. QED
  BY <1>1, <1>2 DEF CreateEvent

\* What a subscription does: if event n is there, it has a new slot, plugin p's.
NewSlot(n, p) ==
  \E b \in Addr :
    /\ Contains(hooks, b) /\ name[b] = n
    /\ subscriber' = [subscriber EXCEPT ![b] = Append(subscriber[b], nextTicket)]
    /\ nextTicket \in Ticket /\ nextTicket' = nextTicket + 1
    /\ hookedBy' = [hookedBy EXCEPT ![nextTicket] = p]

LEMMA HookMakesSlot ==
  ASSUME TypeOK, NEW n \in Name, NEW p, Hook(p, n)
  PROVE  /\ UNCHANGED <<hooks, name, stack, created>>
         /\ \/ NewSlot(n, p)
            \/ ~Exists(n) /\ UNCHANGED <<subscriber, nextTicket, hookedBy>>
<1>1. CASE HookEvent(n) /\ hookedBy' = [hookedBy EXCEPT ![nextTicket] = p]
  <2>1. nextTicket <= MaxTicket
        /\ \E i \in 1..Len(hooks) :
             /\ name[hooks[i]] = n
             /\ Subscribe(hooks[i], Len(subscriber[hooks[i]]) + 1,
                          Append(subscriber[hooks[i]], nextTicket))
    BY <1>1 DEF HookEvent
  <2>2. PICK i \in 1..Len(hooks) :
          /\ name[hooks[i]] = n
          /\ Subscribe(hooks[i], Len(subscriber[hooks[i]]) + 1,
                       Append(subscriber[hooks[i]], nextTicket))
    BY <2>1
  <2>3. hooks[i] \in Addr /\ Contains(hooks, hooks[i])
    BY ElementOfSeq DEF TypeOK, Contains
  <2>4. nextTicket \in Ticket
    BY <2>1, HookEngineAssumption DEF TypeOK, Ticket
  <2>5. /\ subscriber' = [subscriber EXCEPT ![hooks[i]] = Append(subscriber[hooks[i]], nextTicket)]
        /\ nextTicket' = nextTicket + 1
        /\ UNCHANGED <<hooks, name, stack, created>>
    BY <2>2 DEF Subscribe
  <2>6. NewSlot(n, p)
    BY <1>1, <2>2, <2>3, <2>4, <2>5 DEF NewSlot
  <2>7. QED
    BY <2>5, <2>6
<1>2. CASE ~Found(hooks, name, n) /\ EngineUnchanged
  BY <1>2, FoundExists DEF EngineUnchanged, vars, memory
<1>3. QED
  BY <1>1, <1>2 DEF Hook

LEMMA HookGrows ==
  ASSUME TypeOK, TypeOK', LoaderTypeOK, SlotsStay, NEW n \in Name, NEW p, Hook(p, n)
  PROVE  /\ Grows /\ UNCHANGED <<hooks, name, stack, created>>
         /\ Exists(n) => Subscribed(p, n)'
         /\ \A a \in Addr :
              /\ Len(subscriber'[a]) \in Nat /\ Len(subscriber[a]) <= Len(subscriber'[a])
              /\ \A k \in 1..Len(subscriber[a]) : subscriber'[a][k] = subscriber[a][k]
              /\ \A k \in 1..Len(subscriber'[a]) :
                   /\ subscriber'[a][k] \in 1..(nextTicket' - 1)
                   /\ k \in 1..Len(subscriber[a]) \/ (Contains(hooks, a) /\ name[a] = n)
<1>1. UNCHANGED <<hooks, name, stack, created>>
  BY HookMakesSlot
<1>2. nextTicket \in Nat /\ nextTicket >= 1 /\ MaxTicket \in Nat
  BY HookEngineAssumption DEF TypeOK
<1>3. CASE NewSlot(n, p)
  <2>1. PICK b \in Addr :
          /\ Contains(hooks, b) /\ name[b] = n
          /\ subscriber' = [subscriber EXCEPT ![b] = Append(subscriber[b], nextTicket)]
          /\ nextTicket \in Ticket /\ nextTicket' = nextTicket + 1
          /\ hookedBy' = [hookedBy EXCEPT ![nextTicket] = p]
    BY <1>3 DEF NewSlot
  <2>2. PICK s \in Seq(Nat) : s = subscriber[b]
    BY SlotsOf
  <2>3. /\ Append(s, nextTicket) \in Seq(Nat)
        /\ Len(Append(s, nextTicket)) = Len(s) + 1
        /\ \A k \in 1..Len(s) : Append(s, nextTicket)[k] = s[k]
        /\ Append(s, nextTicket)[Len(s) + 1] = nextTicket
        /\ Len(s) \in Nat
    BY <1>2, Pushed
  <2>4. PICK u \in Seq(Nat) :
          /\ u = Append(s, nextTicket) /\ Len(u) = Len(s) + 1 /\ Len(s) \in Nat
          /\ \A k \in 1..Len(s) : u[k] = s[k]
          /\ u[Len(s) + 1] = nextTicket
    BY <2>3, Zenon
  <2>5. subscriber'[b] = u /\ \A a \in Addr : a # b => subscriber'[a] = subscriber[a]
    <3>1. DOMAIN subscriber = Addr /\ u = Append(subscriber[b], nextTicket)
      BY <2>2, <2>4 DEF TypeOK
    <3>2. QED
      BY <2>1, <3>1
  <2>6. ASSUME NEW a \in Addr
        PROVE  /\ Len(subscriber'[a]) \in Nat /\ Len(subscriber[a]) <= Len(subscriber'[a])
               /\ \A k \in 1..Len(subscriber[a]) : subscriber'[a][k] = subscriber[a][k]
               /\ \A k \in 1..Len(subscriber'[a]) :
                    /\ subscriber'[a][k] \in 1..(nextTicket' - 1)
                    /\ k \in 1..Len(subscriber[a]) \/ (Contains(hooks, a) /\ name[a] = n)
    <3>1. CASE a = b
      <4>1. \A k \in 1..Len(s) : s[k] \in 1..(nextTicket - 1)
        BY <2>2 DEF SlotsStay
      <4>2. \A k \in 1..Len(u) : k \in 1..Len(s) \/ k = Len(s) + 1
        BY <2>4
      <4>3. \A k \in 1..Len(u) : u[k] \in 1..(nextTicket' - 1)
        <5>1. \A t \in 1..(nextTicket - 1) : t \in 1..(nextTicket' - 1)
          BY <1>2, <2>1
        <5>2. nextTicket \in 1..(nextTicket' - 1)
          BY <1>2, <2>1
        <5>3. QED
          BY <2>4, <4>1, <4>2, <5>1, <5>2
      <4>4. subscriber'[a] = u /\ subscriber[a] = s
        BY <2>2, <2>5, <3>1
      <4>5. Len(u) \in Nat /\ Len(s) <= Len(u)
        BY <2>4
      <4>6. Contains(hooks, a) /\ name[a] = n
        BY <2>1, <3>1
      <4>7. QED
        BY <2>4, <4>3, <4>4, <4>5, <4>6
    <3>2. CASE a # b
      <4>1. subscriber'[a] = subscriber[a] /\ Len(subscriber[a]) \in Nat
        BY <2>5, <3>2, SlotsOf
      <4>2. \A k \in 1..Len(subscriber[a]) : subscriber[a][k] \in 1..(nextTicket - 1)
        BY DEF SlotsStay
      <4>3. \A t \in 1..(nextTicket - 1) : t \in 1..(nextTicket' - 1)
        BY <1>2, <2>1
      <4>4. QED
        BY <4>1, <4>2, <4>3
    <3>3. QED
      BY <3>1, <3>2
  <2>7. \A t \in 1..(nextTicket - 1) : hookedBy'[t] = hookedBy[t]
    BY <1>2, <2>1 DEF LoaderTypeOK, Ticket
  <2>8. Grows
    BY <1>1, <1>2, <2>1, <2>6, <2>7 DEF Grows
  <2>9. Subscribed(p, n)'
    <3>1. hookedBy'[nextTicket] = p
      BY <2>1 DEF LoaderTypeOK
    <3>2. Contains(hooks', b) /\ name'[b] = n
      BY <1>1, <2>1
    <3>3. Len(s) + 1 \in 1..Len(subscriber'[b]) /\ subscriber'[b][Len(s) + 1] = nextTicket
      BY <2>4, <2>5
    <3>4. nextTicket # NULL
      BY <1>2 DEF NULL
    <3>5. QED
      BY <3>1, <3>2, <3>3, <3>4, SlotSubscribes
  <2>10. QED
    BY <1>1, <2>6, <2>8, <2>9
<1>4. CASE ~Exists(n) /\ UNCHANGED <<subscriber, nextTicket, hookedBy>>
  <2>1. \A a \in Addr : Len(subscriber[a]) \in Nat /\ subscriber'[a] = subscriber[a]
    BY <1>4, SlotsOf
  <2>2. Grows
    BY <1>1, <1>2, <1>4, <2>1 DEF Grows
  <2>3. \A a \in Addr : \A k \in 1..Len(subscriber[a]) : subscriber[a][k] \in 1..(nextTicket' - 1)
    BY <1>4 DEF SlotsStay
  <2>4. QED
    BY <1>1, <1>4, <2>1, <2>2, <2>3
<1>5. QED
  BY <1>3, <1>4, HookMakesSlot
-------------------------------------------------------------------------------
\* CallHookSubscribers goes on with event f.p after slot "from": it calls the next
\* slot, or there is none or a callback has aborted.
NextSlot(f, val, from) ==
  \/ stack' = <<>> /\ (val = 0 => Len(subscriber[f.p]) = from)
  \/ /\ val = 0
     /\ from + 1 \in 1..Len(subscriber[f.p])
     /\ \E g \in Frame : /\ stack' = <<g>> /\ g.p = f.p /\ g.slot = from + 1
                         /\ g.calls[Len(g.calls)] = subscriber[f.p][from + 1]

LEMMA ResumeNextSlot ==
  ASSUME TypeOK, NoDefault, SlotsStay, NEW f \in Frame, NEW val,
         NEW from \in 0..Len(subscriber[f.p]), Resume(<<>>, f, val, from)
  PROVE  NextSlot(f, val, from)
<1> DEFINE s == subscriber[f.p]
<1>1. /\ f.p \in Addr /\ f.id \in Nat /\ f.due \in SUBSET Nat /\ f.calls \in Seq(Nat)
      /\ s \in Seq(Nat) /\ Len(s) \in Nat /\ from \in Nat /\ from <= Len(s)
  BY SlotsOf DEF Frame
<1>2. \A k \in 1..Len(s) : s[k] # NULL /\ s[k] \in Nat
  <2>1. nextTicket \in Nat
    BY HookEngineAssumption DEF TypeOK
  <2>2. \A k \in 1..Len(s) : s[k] \in 1..(nextTicket - 1)
    BY <1>1 DEF SlotsStay
  <2>3. QED
    BY <2>1, <2>2 DEF NULL
<1> HIDE DEF s
<1>3. CASE CallNext(<<>>, f, val, from)
  <2>1. /\ val = 0
        /\ \E j \in (from + 1)..Len(s) :
             /\ \A k \in (from + 1)..(j - 1) : s[k] = NULL
             /\ stack' = Append(<<>>, [p |-> f.p, id |-> f.id, slot |-> j, due |-> f.due,
                                       calls |-> Append(f.calls, s[j]), abort |-> 0])
    BY <1>3 DEF CallNext, s
  <2>2. PICK j \in (from + 1)..Len(s) :
             /\ \A k \in (from + 1)..(j - 1) : s[k] = NULL
             /\ stack' = Append(<<>>, [p |-> f.p, id |-> f.id, slot |-> j, due |-> f.due,
                                       calls |-> Append(f.calls, s[j]), abort |-> 0])
    BY <2>1
  <2>3. j = from + 1 /\ j \in 1..Len(s) /\ j \in Nat
    <3>1. j \in Nat /\ from + 1 <= j /\ j <= Len(s)
      BY <1>1
    <3>2. from + 1 < j => from + 1 \in (from + 1)..(j - 1) /\ from + 1 \in 1..Len(s)
      BY <1>1, <3>1
    <3>3. ~(from + 1 < j)
      BY <1>2, <2>2, <3>2
    <3>4. QED
      BY <1>1, <3>1, <3>3
  <2>4. s[j] \in Nat
    BY <1>2, <2>3
  <2>5. /\ Append(f.calls, s[j]) \in Seq(Nat)
        /\ Append(f.calls, s[j])[Len(Append(f.calls, s[j]))] = s[j]
    <3>1. /\ Append(f.calls, s[j]) \in Seq(Nat)
          /\ Len(Append(f.calls, s[j])) = Len(f.calls) + 1
          /\ Append(f.calls, s[j])[Len(f.calls) + 1] = s[j]
      BY <1>1, <2>4, Pushed
    <3>2. QED
      BY <3>1
  <2> DEFINE q == Append(f.calls, s[j])
             g == [p |-> f.p, id |-> f.id, slot |-> j, due |-> f.due, calls |-> q, abort |-> 0]
  <2>6. q \in Seq(Nat) /\ q[Len(q)] = s[j]
    BY <2>5
  <2>7. stack' = Append(<<>>, g)
    BY <2>2
  <2> HIDE DEF q
  <2>8. g \in Frame /\ g.p = f.p /\ g.slot = j /\ g.calls = q
    BY <1>1, <2>3, <2>6 DEF Frame
  <2> HIDE DEF g
  <2>9. stack' = <<g>>
    BY <2>7
  <2>10. g.slot = from + 1 /\ g.calls[Len(g.calls)] = s[from + 1] /\ from + 1 \in 1..Len(s)
    BY <2>3, <2>6, <2>8
  <2>11. QED
    BY <2>1, <2>8, <2>9, <2>10 DEF NextSlot, s
<1>4. ~CallDefault(<<>>, f, val, from)
  BY DEF CallDefault, CallsDefault, NoDefault, Frame
<1>5. CASE Finish(<<>>, f, val, from)
  <2>1. stack' = <<>> /\ (val = 0 => \A j \in (from + 1)..Len(s) : s[j] = NULL)
    BY <1>5 DEF Finish, LoopEnds, s
  <2>2. ASSUME val = 0 PROVE Len(s) = from
    <3>1. from < Len(s) => from + 1 \in (from + 1)..Len(s) /\ from + 1 \in 1..Len(s)
      BY <1>1
    <3>2. ~(from < Len(s))
      BY <1>2, <2>1, <2>2, <3>1
    <3>3. QED
      BY <1>1, <3>2
  <2>3. QED
    BY <2>1, <2>2 DEF NextSlot, s
<1>6. QED
  BY <1>3, <1>4, <1>5 DEF Resume

\* A notification begins, of an event that exists, while there is no other.
LEMMA NotifyStarts ==
  ASSUME TypeOK, NoDefault, SlotsStay, CallsTookEffect, stack = <<>>,
         NEW e \in created, NotifyEventHooks(e)
  PROVE  /\ e.p \in Addr /\ Contains(hooks, e.p)
         /\ \E f \in Frame : f.p = e.p /\ NextSlot(f, 0, 0)
         /\ UNCHANGED <<hooks, memory, nextTicket, created>>
<1> DEFINE f == [p |-> e.p, id |-> e.id, slot |-> 0, due |-> Live(subscriber[e.p]),
                 calls |-> <<>>, abort |-> 0]
<1>1. f \in Frame /\ f.p = e.p /\ e.p \in Addr
  BY FirstActivation DEF TypeOK
<1>2. Contains(hooks, e.p)
  BY DEF CallsTookEffect
<1>3. Resume(<<>>, f, 0, 0) /\ UNCHANGED <<hooks, memory, nextTicket, created>>
  BY <1>2 DEF NotifyEventHooks
<1> HIDE DEF f
<1>4. 0 \in 0..Len(subscriber[f.p])
  BY <1>1, SlotsOf
<1>5. NextSlot(f, 0, 0)
  BY <1>1, <1>3, <1>4, ResumeNextSlot
<1>6. QED
  BY <1>1, <1>2, <1>3, <1>5

\* A notification goes on.
LEMMA NotifyGoesOn ==
  ASSUME TypeOK, NoDefault, NotifyInv, CallsKnown, SlotsStay, NEW r \in Result, HookReturns(r)
  PROVE  /\ stack # <<>> /\ Top \in Frame /\ Top.p \in Addr /\ Contains(hooks, Top.p)
         /\ Top.slot \in 1..Len(subscriber[Top.p])
         /\ NextSlot(Top, r, Top.slot)
         /\ UNCHANGED <<hooks, memory, nextTicket, created>>
<1>1. stack # <<>> /\ stack \in Seq(Frame) /\ UNCHANGED <<hooks, memory, nextTicket, created>>
  BY DEF HookReturns, TypeOK
<1>2. /\ Len(stack) \in 1..Len(stack) /\ Top = stack[Len(stack)] /\ Top \in Frame
      /\ Below \in Seq(Frame) /\ Len(Below) = Len(stack) - 1
  BY <1>1, TopAndBelow
<1>3. Below = <<>>
  <2>1. Len(stack) = 1
    BY <1>2 DEF SlotsStay
  <2>2. QED
    BY <1>2, <2>1, EmptySeq
<1>4. Top.p \in Addr /\ Contains(hooks, Top.p)
  BY <1>2, ActivationsAreOfEvents
<1>5. Top.slot \in 1..Len(subscriber[Top.p]) /\ Top.slot # DEFAULT
  BY <1>1, SlotsOf DEF SlotsStay, DEFAULT
<1>6. Resume(<<>>, Top, r, Top.slot)
  BY <1>3, <1>5 DEF HookReturns
<1>7. Top.slot \in 0..Len(subscriber[Top.p])
  BY <1>4, <1>5, SlotsOf
<1>8. NextSlot(Top, r, Top.slot)
  BY <1>2, <1>6, <1>7, ResumeNextSlot
<1>9. QED
  BY <1>1, <1>2, <1>4, <1>5, <1>8

\* The activation on a stack of one.
LEMMA OneOnStack ==
  ASSUME NEW g \in Frame, stack' = <<g>>
  PROVE  stack' # <<>> /\ Len(stack') = 1 /\ Top' = g /\ stack'[Len(stack')] = g
BY DEF Top

LEMMA NotifyKeepsSlots ==
  ASSUME TypeOK, SlotsStay, NEW f \in Frame, NEW val, NEW from \in Nat, NextSlot(f, val, from),
         UNCHANGED <<name, subscriber, nextTicket>>,
         todo' = TodoOf(stack') \/ todo' = {}
  PROVE  SlotsStay'
<1>1. \A a \in Addr : \A k \in 1..Len(subscriber'[a]) : subscriber'[a][k] \in 1..(nextTicket' - 1)
  BY DEF SlotsStay
<1>2. CASE stack' = <<>>
  BY <1>1, <1>2 DEF SlotsStay, TodoOf
<1>3. ASSUME NEW g \in Frame, stack' = <<g>>, from + 1 \in 1..Len(subscriber[f.p]), g.p = f.p,
             g.slot = from + 1, g.calls[Len(g.calls)] = subscriber[f.p][from + 1]
      PROVE  SlotsStay'
  <2>1. stack' # <<>> /\ Len(stack') = 1 /\ Top' = g /\ stack'[Len(stack')] = g
    BY <1>3, OneOnStack
  <2>2. todo' # {} => name'[g.p] = PluginsLoaded
    BY <2>1 DEF TodoOf
  <2>3. g.slot \in 1..Len(subscriber'[g.p]) /\ subscriber'[g.p][g.slot] = g.calls[Len(g.calls)]
    BY <1>3
  <2>4. QED
    BY <1>1, <2>1, <2>2, <2>3 DEF SlotsStay
<1>4. QED
  BY <1>2, <1>3 DEF NextSlot

\* The callbacks that were called before have hooked what there is; the one that
\* is called now has all of it to do.
LEMMA NotifyKeepsHooked ==
  ASSUME TypeOK, SlotsStay, NEW f \in Frame, NEW val, NEW from \in Nat, NextSlot(f, val, from),
         UNCHANGED <<hooks, name, subscriber, hookedBy>>,
         name[f.p] = PluginsLoaded => val = 0,
         \A a \in Addr : Contains(hooks, a) /\ name[a] = PluginsLoaded =>
           \A k \in 1..Len(subscriber[a]) :
             \/ a = f.p /\ k > from /\ todo' = TodoOf(stack')
             \/ HasHookedBut(hookedBy[subscriber[a][k]], {})
  PROVE  CalledHaveHooked'
<1>1. SUFFICES ASSUME NEW a \in Addr, Contains(hooks, a), name[a] = PluginsLoaded,
                      NEW k \in 1..Len(subscriber[a])
               PROVE  (IsToCome(a, k) \/ HasHookedBut(hookedBy[subscriber[a][k]],
                                                      IF IsAt(a, k) THEN todo ELSE {}))'
  BY DEF CalledHaveHooked
<1> PICK q : q = hookedBy[subscriber[a][k]]
  OBVIOUS
<1>2. \A left : HasHookedBut(q, left) => HasHookedBut(q, left)'
  BY DEF HasHookedBut, Exists, Subscribed
<1>3. ASSUME HasHookedBut(q, {}) PROVE \A left : HasHookedBut(q, left)'
  BY <1>2, <1>3 DEF HasHookedBut
<1>4. CASE HasHookedBut(q, {})
  BY <1>3, <1>4
<1>5. CASE a = f.p /\ k > from /\ todo' = TodoOf(stack')
  <2>1. val = 0 /\ Len(subscriber[a]) \in Nat
    BY <1>1, <1>5, SlotsOf
  <2>2. stack' # <<>>
    <3>1. stack' = <<>> => Len(subscriber[a]) = from
      BY <1>5, <2>1 DEF NextSlot
    <3>2. QED
      BY <1>5, <2>1, <3>1
  <2>3. PICK g \in Frame : /\ stack' = <<g>> /\ g.p = a /\ g.slot = from + 1
                           /\ g.calls[Len(g.calls)] = subscriber[a][from + 1]
    BY <1>5, <2>2 DEF NextSlot
  <2>4. stack' # <<>> /\ Top' = g /\ stack'[Len(stack')] = g
    BY <2>3, OneOnStack
  <2>5. CASE k > from + 1
    BY <2>3, <2>4, <2>5 DEF IsToCome
  <2>6. CASE k = from + 1
    <3>1. IsAt(a, k)'
      BY <2>3, <2>4, <2>6 DEF IsAt
    <3>2. todo' = LoadedCalls[q]
      BY <1>1, <1>5, <2>3, <2>4, <2>6 DEF TodoOf, Callee
    <3>3. HasHookedBut(q, todo)'
      BY <3>2 DEF HasHookedBut
    <3>4. QED
      BY <3>1, <3>3
  <2>7. QED
    BY <1>5, <2>5, <2>6
<1>6. QED
  BY <1>1, <1>4, <1>5
-------------------------------------------------------------------------------
\* CallsTookEffect after a step that loses nothing and asks for one thing more.
LEMMA AskedKept ==
  ASSUME TypeOK, TypeOK', SlotsStay, Grows, CallsTookEffect,
         loading' = Nobody => at' = 0,
         phase' = "core" => loading' = Nobody /\ Libraries' = {},
         phase' # "core" => phase # "core" \/ Exists(PluginsLoaded)',
         \A e \in created' : e \in created \/ Contains(hooks', e.p),
         \A p \in Plugin, n \in Name : Asked(p, Creates(n))' => Asked(p, Creates(n)) \/ Exists(n)',
         \A p \in Plugin : Asked(p, Hooks(PluginsLoaded))' =>
           Asked(p, Hooks(PluginsLoaded)) \/ Subscribed(p, PluginsLoaded)'
  PROVE  CallsTookEffect'
<1>1. \A n : Exists(n) => Exists(n)'
  BY EventsStay
<1>2. \A p, n : Subscribed(p, n) => Subscribed(p, n)'
  BY SubscriptionsStay
<1>3. \A e \in created' : Contains(hooks', e.p)
  <2>1. ASSUME NEW e \in created PROVE Contains(hooks', e.p)
    <3>1. e.p \in Addr /\ Contains(hooks, e.p)
      BY DEF CallsTookEffect, TypeOK
    <3>2. QED
      BY <3>1 DEF Grows
  <2>2. QED
    BY <2>1
<1>4. phase' # "core" => Exists(PluginsLoaded)'
  BY <1>1 DEF CallsTookEffect
<1>5. \A p \in Plugin : \A n \in Name : Asked(p, Creates(n))' => Exists(n)'
  BY <1>1 DEF CallsTookEffect
<1>6. \A p \in Plugin : Asked(p, Hooks(PluginsLoaded))' => Subscribed(p, PluginsLoaded)'
  BY <1>2 DEF CallsTookEffect
<1>7. QED
  BY <1>3, <1>4, <1>5, <1>6 DEF CallsTookEffect

LEMMA NothingChangesGrows ==
  ASSUME TypeOK, UNCHANGED <<hooks, name, subscriber, nextTicket, hookedBy>>
  PROVE  Grows
<1>1. nextTicket <= nextTicket'
  BY HookEngineAssumption DEF TypeOK
<1>2. QED
  BY <1>1, SlotsOf DEF Grows

\* A step that leaves the engine alone, and no callback runs in.
LEMMA FindEngineUnchanged ==
  ASSUME TypeOK, TypeOK', FindInv, UNCHANGED <<vars, hookedBy, todo, phase>>,
         phase # "loaded",
         loading' = Nobody => at' = 0,
         phase' = "core" => loading' = Nobody /\ Libraries' = {},
         \A p \in Plugin : \A c : Asked(p, c)' => Asked(p, c)
  PROVE  FindInv'
<1>1. UNCHANGED <<hooks, name, subscriber, nextTicket, stack, created>>
  BY DEF vars, memory
<1>2. SlotsStay'
  BY <1>1 DEF FindInv, SlotsStay, Top
<1>3. Grows
  BY <1>1, NothingChangesGrows
<1>4. CallsTookEffect'
  <2>1. SlotsStay /\ CallsTookEffect
    BY DEF FindInv
  <2>2. \A e \in created' : e \in created
    BY <1>1
  <2>3. QED
    BY <1>3, <2>1, <2>2, AskedKept
<1>5. CalledHaveHooked'
  BY DEF CalledHaveHooked
<1>6. QED
  BY <1>2, <1>4, <1>5 DEF FindInv

\* The next file, and the end of an OnCreate.
LEMMA FileKeepsFind ==
  ASSUME TypeOK, TypeOK', LoaderTypeOK, FindInv,
         NEW q \in Plugin, Skip(q) \/ SkipMapped(q) \/ Load(q)
  PROVE  FindInv'
<1>1. /\ phase = "loading" /\ loading = Nobody
      /\ UNCHANGED <<vars, phase, Libraries, at, todo, hookedBy>>
  BY DEF Skip, SkipMapped, Load, NextFile
<1>2. at = 0 /\ at' = 0
  BY <1>1 DEF FindInv, CallsTookEffect
<1>3. \A p \in Plugin : \A c : Asked(p, c)' => Asked(p, c)
  BY <1>1, <1>2 DEF Asked
<1>4. QED
  BY <1>1, <1>2, <1>3, FindEngineUnchanged

LEMMA OnCreateEndsKeepsFind ==
  ASSUME TypeOK, TypeOK', LoaderTypeOK, OneByOne, FindInv, Registered \/ OnCreateFailed
  PROVE  FindInv'
<1>1. /\ loading # Nobody /\ loading' = Nobody /\ at' = 0
      /\ UNCHANGED <<vars, phase, todo, hookedBy>>
      /\ \/ Libraries' = Libraries
         \/ Libraries' = Libraries \cup {loading} /\ at = Len(OnCreateCalls[loading])
  BY DEF Registered, OnCreateFailed
<1>2. phase # "loaded" /\ phase # "core"
  BY <1>1 DEF OneByOne, FindInv, CallsTookEffect
<1>3. ASSUME NEW p \in Plugin, NEW c, Asked(p, c)' PROVE Asked(p, c)
  <2>1. PICK i \in 1..Len(OnCreateCalls[p]) :
          OnCreateCalls[p][i] = c /\ (p \in Libraries' \/ (p = loading' /\ i <= at'))
    BY <1>3 DEF Asked
  <2>2. p \in Libraries'
    BY <1>1, <2>1, PluginLoaderAssumption DEF Nobody
  <2>3. CASE p \in Libraries
    BY <2>1, <2>3 DEF Asked
  <2>4. CASE p = loading /\ at = Len(OnCreateCalls[loading])
    <3>1. i <= at
      BY <2>4
    <3>2. QED
      BY <2>1, <2>4, <3>1 DEF Asked
  <2>5. QED
    BY <1>1, <2>2, <2>3, <2>4
<1>4. QED
  BY <1>1, <1>2, <1>3, FindEngineUnchanged

LEMMA LoadCoreModuleKeepsFind ==
  ASSUME TypeOK, TypeOK', OneByOne, FindInv, LoadCoreModule
  PROVE  FindInv'
<1>1. /\ phase = "core" /\ phase' = "loading" /\ PluginsLoaded \in Name
      /\ UNCHANGED <<files, mapped, Libraries, loading, at, todo, hookedBy>>
      /\ CreateEvent(PluginsLoaded)
  BY PluginLoaderAssumption DEF LoadCoreModule, CreateEvent
<1>2. SlotsStay /\ CallsTookEffect /\ stack = <<>> /\ at = 0
  BY <1>1 DEF FindInv, CallsTookEffect, OneByOne
<1>3. /\ Grows /\ Exists(PluginsLoaded)' /\ UNCHANGED <<stack, nextTicket, hookedBy>>
      /\ \A e \in created' : e \in created \/ Contains(hooks', e.p)
      /\ \A a \in Addr : subscriber'[a] = subscriber[a] \/ subscriber'[a] = <<>>
  BY <1>1, <1>2, CreateGrows
<1>4. SlotsStay'
  <2>1. \A a \in Addr : \A k \in 1..Len(subscriber'[a]) : subscriber'[a] # <<>>
    BY EmptySeq
  <2>2. \A a \in Addr : \A k \in 1..Len(subscriber'[a]) : subscriber'[a][k] \in 1..(nextTicket' - 1)
    BY <1>2, <1>3, <2>1 DEF SlotsStay
  <2>3. todo' = {} /\ stack' = <<>> /\ Len(stack') <= 1
    BY <1>1, <1>2, <1>3, EmptySeq DEF SlotsStay
  <2>4. QED
    BY <2>2, <2>3 DEF SlotsStay
<1>5. \A p \in Plugin : \A c : Asked(p, c)' => Asked(p, c)
  BY <1>1 DEF Asked
<1>6. loading' = Nobody => at' = 0
  BY <1>1, <1>2
<1>7. CallsTookEffect'
  BY <1>1, <1>2, <1>3, <1>5, <1>6, AskedKept
<1>8. CalledHaveHooked'
  BY <1>1 DEF CalledHaveHooked
<1>9. QED
  BY <1>4, <1>7, <1>8 DEF FindInv

LEMMA OnCreateCallKeepsFind ==
  ASSUME TypeOK, TypeOK', LoaderTypeOK, OneByOne, FindInv, OnCreateCall
  PROVE  FindInv'
<1>1. /\ loading # Nobody /\ at < Len(OnCreateCalls[loading]) /\ at' = at + 1
      /\ UNCHANGED <<phase, files, mapped, Libraries, loading, todo>>
  BY DEF OnCreateCall
<1>2. /\ loading \in Plugin /\ at \in Nat
      /\ at + 1 \in 1..Len(OnCreateCalls[loading])
      /\ OnCreateCalls[loading][at + 1].event \in Name
      /\ OnCreateCalls[loading][at + 1].call \in {"create", "hook"}
      /\ OnCreateCalls[loading][at + 1] \in [call : {"create", "hook"}, event : Name]
  <2>1. at + 1 \in 1..Len(OnCreateCalls[loading]) /\ loading \in Plugin
    BY <1>1, CallType
  <2>2. OnCreateCalls[loading] \in Seq([call : {"create", "hook"}, event : Name])
    BY <1>1, CallType
  <2>3. OnCreateCalls[loading][at + 1] \in [call : {"create", "hook"}, event : Name]
    BY <2>1, <2>2, ElementOfSeq
  <2>4. QED
    BY <2>1, <2>3 DEF LoaderTypeOK
<1> PICK c : c = OnCreateCalls[loading][at + 1]
  OBVIOUS
<1> PICK n \in Name : n = c.event
  BY <1>2
<1> PICK q \in Plugin : q = loading
  BY <1>2
<1>3. IF c.call = "create" THEN CreateEvent(n) ELSE Hook(q, n)
  BY DEF OnCreateCall
<1>4. /\ SlotsStay /\ CallsTookEffect /\ stack = <<>> /\ todo = {}
      /\ phase # "core" /\ phase # "loaded" /\ Exists(PluginsLoaded)
  BY <1>1 DEF FindInv, CallsTookEffect, OneByOne, SlotsStay
<1>5. ASSUME NEW p \in Plugin, NEW d, Asked(p, d)' PROVE Asked(p, d) \/ (p = q /\ d = c)
  <2>1. PICK i \in 1..Len(OnCreateCalls[p]) :
          OnCreateCalls[p][i] = d /\ (p \in Libraries' \/ (p = loading' /\ i <= at'))
    BY <1>5 DEF Asked
  <2>2. CASE p \in Libraries
    BY <2>1, <2>2 DEF Asked
  <2>3. CASE p = loading /\ i <= at
    BY <2>1, <2>3 DEF Asked
  <2>4. CASE p = loading /\ i = at + 1
    BY <2>1, <2>4
  <2>5. p \in Libraries \/ (p = loading /\ (i <= at \/ i = at + 1))
    BY <1>1, <1>2, <2>1
  <2>6. QED
    BY <2>2, <2>3, <2>4, <2>5
<1>6. /\ Grows /\ UNCHANGED stack
      /\ \A e \in created' : e \in created \/ Contains(hooks', e.p)
      /\ \A a \in Addr : \A k \in 1..Len(subscriber'[a]) : subscriber'[a][k] \in 1..(nextTicket' - 1)
      /\ \A m \in Name : c = Creates(m) => Exists(m)'
      /\ c = Hooks(PluginsLoaded) => Subscribed(q, PluginsLoaded)'
  <2>1. CASE c.call = "create"
    <3>1. /\ Grows /\ Exists(n)' /\ UNCHANGED <<stack, nextTicket, hookedBy>>
          /\ \A e \in created' : e \in created \/ Contains(hooks', e.p)
          /\ \A a \in Addr : subscriber'[a] = subscriber[a] \/ subscriber'[a] = <<>>
      BY <1>2, <1>3, <1>4, <2>1, CreateGrows
    <3>2. \A a \in Addr : \A k \in 1..Len(subscriber'[a]) : subscriber'[a] # <<>>
      BY EmptySeq
    <3>3. \A a \in Addr : \A k \in 1..Len(subscriber'[a]) : subscriber'[a][k] \in 1..(nextTicket' - 1)
      BY <1>4, <3>1, <3>2 DEF SlotsStay
    <3>4. c # Hooks(PluginsLoaded) /\ \A m \in Name : c = Creates(m) => n = m
      BY <2>1 DEF Hooks, Creates
    <3>5. \A m \in Name : c = Creates(m) => Exists(m)'
      BY <3>1, <3>4
    <3>6. QED
      BY <3>1, <3>3, <3>4, <3>5
  <2>2. CASE c.call = "hook"
    <3>1. Hook(q, n)
      BY <1>3, <2>2
    <3>2. /\ Grows /\ UNCHANGED <<hooks, name, stack, created>>
          /\ Exists(n) => Subscribed(q, n)'
          /\ \A a \in Addr : \A k \in 1..Len(subscriber'[a]) : subscriber'[a][k] \in 1..(nextTicket' - 1)
      BY <1>2, <1>4, <3>1, HookGrows
    <3>3. c = Hooks(PluginsLoaded) => n = PluginsLoaded
      BY DEF Hooks
    <3>4. \A m \in Name : c # Creates(m)
      BY <2>2 DEF Creates
    <3>5. \A e \in created' : e \in created
      BY <3>2
    <3>6. c = Hooks(PluginsLoaded) => Subscribed(q, PluginsLoaded)'
      BY <1>4, <3>2, <3>3
    <3>7. QED
      BY <3>2, <3>4, <3>5, <3>6
  <2>3. QED
    BY <1>2, <2>1, <2>2
<1>7. SlotsStay'
  <2>1. todo' = {} /\ stack' = <<>> /\ Len(stack') <= 1
    BY <1>1, <1>4, <1>6, EmptySeq
  <2>2. QED
    BY <1>6, <2>1 DEF SlotsStay
<1>8. CallsTookEffect'
  <2>1. \A p \in Plugin, m \in Name : Asked(p, Creates(m))' => Asked(p, Creates(m)) \/ Exists(m)'
    BY <1>5, <1>6
  <2>2. \A p \in Plugin : Asked(p, Hooks(PluginsLoaded))' =>
           Asked(p, Hooks(PluginsLoaded)) \/ Subscribed(p, PluginsLoaded)'
    BY <1>5, <1>6
  <2>3. loading' # Nobody /\ phase' # "core"
    BY <1>1, <1>4
  <2>4. QED
    BY <1>4, <1>6, <2>1, <2>2, <2>3, AskedKept
<1>9. CalledHaveHooked'
  BY <1>1, <1>4 DEF CalledHaveHooked
<1>10. QED
  BY <1>7, <1>8, <1>9 DEF FindInv
-------------------------------------------------------------------------------
\* There is one event of each name.
LEMMA OneOfName ==
  ASSUME TypeOK, HooksSorted, NEW a \in Addr, NEW b \in Addr,
         Contains(hooks, a), Contains(hooks, b), name[a] = name[b]
  PROVE  a = b
<1>1. PICK i \in 1..Len(hooks) : hooks[i] = a
  BY DEF Contains
<1>2. PICK j \in 1..Len(hooks) : hooks[j] = b
  BY DEF Contains
<1>3. name[a] \in Nat /\ Len(hooks) \in Nat
  <2>1. name[a] \in Name \cup {NULL} /\ hooks \in Seq(Addr)
    BY DEF TypeOK
  <2>2. Name \subseteq Nat /\ NULL \in Nat
    BY HookEngineAssumption DEF NULL
  <2>3. QED
    BY <2>1, <2>2, LenProperties
<1>4. ~(i < j) /\ ~(j < i)
  BY <1>1, <1>2, <1>3 DEF HooksSorted, IsSorted
<1>5. i = j
  BY <1>3, <1>4
<1>6. QED
  BY <1>1, <1>2, <1>5

\* What a notification leaves alone.
LEMMA NotifyKeepsEffects ==
  ASSUME TypeOK, TypeOK', SlotsStay, CallsTookEffect,
         UNCHANGED <<hooks, memory, nextTicket, created, hookedBy, Libraries, loading, at>>,
         phase # "core", phase' = "loaded"
  PROVE  CallsTookEffect'
<1>1. UNCHANGED <<hooks, name, subscriber, nextTicket, hookedBy>>
  BY DEF memory
<1>2. Grows
  BY <1>1, NothingChangesGrows
<1>3. \A p \in Plugin : \A c : Asked(p, c)' => Asked(p, c)
  BY DEF Asked
<1>4. \A e \in created' : e \in created
  OBVIOUS
<1>5. (loading' = Nobody => at' = 0) /\ (phase' = "core" => loading' = Nobody /\ Libraries' = {})
  BY DEF CallsTookEffect
<1>6. QED
  BY <1>2, <1>3, <1>4, <1>5, AskedKept

LEMMA NotifyPluginsLoadedKeepsFind ==
  ASSUME TypeOK, TypeOK', HooksSorted, OneByOne, NoDefault, FindInv, NotifyPluginsLoaded
  PROVE  FindInv'
<1>1. /\ phase = "loading" /\ phase' = "loaded" /\ todo' = TodoOf(stack')
      /\ UNCHANGED <<files, mapped, Libraries, loading, at, hookedBy>>
      /\ \E e \in created : name[e.p] = PluginsLoaded /\ NotifyEventHooks(e)
  BY DEF NotifyPluginsLoaded
<1>2. PICK e \in created : name[e.p] = PluginsLoaded /\ NotifyEventHooks(e)
  BY <1>1
<1>3. SlotsStay /\ CallsTookEffect /\ stack = <<>>
  BY <1>1 DEF FindInv, OneByOne
<1>4. /\ e.p \in Addr /\ Contains(hooks, e.p)
      /\ \E f \in Frame : f.p = e.p /\ NextSlot(f, 0, 0)
      /\ UNCHANGED <<hooks, memory, nextTicket, created>>
  BY <1>2, <1>3, NotifyStarts
<1>5. PICK f \in Frame : f.p = e.p /\ NextSlot(f, 0, 0)
  BY <1>4
<1>6. UNCHANGED <<hooks, name, subscriber, nextTicket, hookedBy>>
  BY <1>1, <1>4 DEF memory
<1>7. SlotsStay'
  BY <1>1, <1>3, <1>5, <1>6, NotifyKeepsSlots
<1>8. CallsTookEffect'
  BY <1>1, <1>3, <1>4, NotifyKeepsEffects
<1>9. \A a \in Addr : Contains(hooks, a) /\ name[a] = PluginsLoaded => a = f.p
  BY <1>2, <1>4, <1>5, OneOfName
<1>10. \A a \in Addr : \A k \in 1..Len(subscriber[a]) : k > 0
  OBVIOUS
<1>11. CalledHaveHooked'
  BY <1>1, <1>3, <1>5, <1>6, <1>9, <1>10, NotifyKeepsHooked
<1>12. QED
  BY <1>7, <1>8, <1>11 DEF FindInv

LEMMA NotifyLaterKeepsFind ==
  ASSUME TypeOK, TypeOK', NoDefault, FindInv, NEW e \in created, NotifyLater(e)
  PROVE  FindInv'
<1>1. /\ phase = "loaded" /\ phase' = "loaded" /\ stack = <<>> /\ NotifyEventHooks(e)
      /\ UNCHANGED <<files, mapped, Libraries, loading, at, hookedBy, todo>>
  BY DEF NotifyLater, loader
<1>2. SlotsStay /\ CallsTookEffect /\ todo = {} /\ CalledHaveHooked
  BY <1>1 DEF FindInv, SlotsStay
<1>3. /\ e.p \in Addr /\ Contains(hooks, e.p)
      /\ \E f \in Frame : f.p = e.p /\ NextSlot(f, 0, 0)
      /\ UNCHANGED <<hooks, memory, nextTicket, created>>
  BY <1>1, <1>2, NotifyStarts
<1>4. PICK f \in Frame : f.p = e.p /\ NextSlot(f, 0, 0)
  BY <1>3
<1>5. UNCHANGED <<hooks, name, subscriber, nextTicket, hookedBy>>
  BY <1>1, <1>3 DEF memory
<1>6. SlotsStay'
  BY <1>1, <1>2, <1>4, <1>5, NotifyKeepsSlots
<1>7. CallsTookEffect'
  BY <1>1, <1>2, <1>3, NotifyKeepsEffects
<1>8. \A a \in Addr : Contains(hooks, a) /\ name[a] = PluginsLoaded =>
        \A k \in 1..Len(subscriber[a]) : HasHookedBut(hookedBy[subscriber[a][k]], {})
  BY <1>1, <1>2 DEF CalledHaveHooked, IsToCome, IsAt
<1>9. CalledHaveHooked'
  BY <1>4, <1>5, <1>8, <1>2, NotifyKeepsHooked
<1>10. QED
  BY <1>6, <1>7, <1>9 DEF FindInv

LEMMA CallbackReturnsKeepsFind ==
  ASSUME TypeOK, TypeOK', NotifyInv, OneByOne, NoDefault, CallsKnown, FindInv,
         NEW r \in Result, CallbackReturns(r)
  PROVE  FindInv'
<1>1. /\ stack # <<>> /\ todo = {} /\ HookReturns(r) /\ todo' = TodoOf(stack')
      /\ name[Top.p] = PluginsLoaded => r = 0
      /\ UNCHANGED <<phase, files, mapped, Libraries, loading, at, hookedBy>>
  BY DEF CallbackReturns, CallbackRuns
<1>2. SlotsStay /\ CallsTookEffect /\ CalledHaveHooked /\ phase = "loaded" /\ phase' = "loaded"
  BY <1>1 DEF FindInv, OneByOne
<1>3. /\ Top \in Frame /\ Top.p \in Addr /\ Contains(hooks, Top.p)
      /\ Top.slot \in 1..Len(subscriber[Top.p])
      /\ NextSlot(Top, r, Top.slot)
      /\ UNCHANGED <<hooks, memory, nextTicket, created>>
  BY <1>1, <1>2, NotifyGoesOn
<1>4. PICK f \in Frame : f = Top
  BY <1>3
<1>5. PICK from \in Nat : from = Top.slot
  BY <1>3, SlotsOf
<1>6. UNCHANGED <<hooks, name, subscriber, nextTicket, hookedBy>>
  BY <1>1, <1>3 DEF memory
<1>7. NextSlot(f, r, from)
  BY <1>3, <1>4, <1>5 DEF NextSlot
<1>8. SlotsStay'
  BY <1>1, <1>2, <1>6, <1>7, NotifyKeepsSlots
<1>9. CallsTookEffect'
  BY <1>1, <1>2, <1>3, NotifyKeepsEffects
<1>10. ASSUME NEW a \in Addr, Contains(hooks, a), name[a] = PluginsLoaded,
              NEW k \in 1..Len(subscriber[a])
       PROVE  \/ a = f.p /\ k > from
              \/ HasHookedBut(hookedBy[subscriber[a][k]], {})
  <2>1. IsToCome(a, k) \/ HasHookedBut(hookedBy[subscriber[a][k]], IF IsAt(a, k) THEN todo ELSE {})
    BY <1>2, <1>10 DEF CalledHaveHooked
  <2>2. IsToCome(a, k) => a = f.p /\ k > from
    BY <1>4, <1>5 DEF IsToCome
  <2>3. (IF IsAt(a, k) THEN todo ELSE {}) = {}
    BY <1>1
  <2>4. QED
    BY <2>1, <2>2, <2>3
<1>11. name[f.p] = PluginsLoaded => r = 0
  BY <1>1, <1>4
<1>12. CalledHaveHooked'
  BY <1>1, <1>2, <1>6, <1>7, <1>10, <1>11, NotifyKeepsHooked
<1>13. QED
  BY <1>8, <1>9, <1>12 DEF FindInv

LEMMA CallbackHooksKeepsFind ==
  ASSUME TypeOK, TypeOK', HooksSorted, NotifyInv, LoaderTypeOK, OneByOne, FindInv,
         NEW n \in Name, CallbackHooks(n)
  PROVE  FindInv'
<1>1. /\ stack # <<>> /\ n \in todo /\ Hook(Callee(Top), n) /\ todo' = todo \ {n}
      /\ UNCHANGED <<phase, files, mapped, Libraries, loading, at>>
  BY DEF CallbackHooks, CallbackRuns
<1>2. /\ SlotsStay /\ CallsTookEffect /\ CalledHaveHooked /\ phase = "loaded"
      /\ name[Top.p] = PluginsLoaded
  BY <1>1 DEF FindInv, OneByOne, SlotsStay
<1>3. /\ Top \in Frame /\ Top.p \in Addr /\ Contains(hooks, Top.p)
      /\ Top.slot \in 1..Len(subscriber[Top.p])
      /\ subscriber[Top.p][Top.slot] = Top.calls[Len(Top.calls)]
  <2>1. stack \in Seq(Frame)
    BY DEF TypeOK
  <2>2. Len(stack) \in 1..Len(stack) /\ Top = stack[Len(stack)] /\ Top \in Frame
    BY <1>1, <2>1, TopAndBelow
  <2>3. Top.p \in Addr /\ Contains(hooks, Top.p)
    BY <2>2, ActivationsAreOfEvents
  <2>4. QED
    BY <1>1, <1>2, <2>2, <2>3 DEF SlotsStay
<1>4. PICK g \in Frame : g = Top
  BY <1>3
<1>5. PICK q : q = Callee(Top)
  OBVIOUS
<1>6. /\ Grows /\ UNCHANGED <<hooks, name, stack, created>>
      /\ Exists(n) => Subscribed(q, n)'
      /\ \A a \in Addr :
           /\ Len(subscriber'[a]) \in Nat /\ Len(subscriber[a]) <= Len(subscriber'[a])
           /\ \A k \in 1..Len(subscriber[a]) : subscriber'[a][k] = subscriber[a][k]
           /\ \A k \in 1..Len(subscriber'[a]) :
                /\ subscriber'[a][k] \in 1..(nextTicket' - 1)
                /\ k \in 1..Len(subscriber[a]) \/ (Contains(hooks, a) /\ name[a] = n)
  <2>1. Hook(q, n)
    BY <1>1, <1>5
  <2>2. SlotsStay
    BY <1>2
  <2>3. QED
    BY <2>1, <2>2, HookGrows
<1>7. Top' = g /\ stack' # <<>> /\ stack # <<>>
  BY <1>1, <1>4, <1>6 DEF Top
<1>8. SlotsStay'
  <2>1. g.slot \in 1..Len(subscriber'[g.p]) /\ subscriber'[g.p][g.slot] = g.calls[Len(g.calls)]
    <3>1. Len(subscriber[g.p]) \in Nat /\ g.slot \in 1..Len(subscriber[g.p])
      BY <1>3, <1>4, SlotsOf
    <3>2. Len(subscriber'[g.p]) \in Nat /\ Len(subscriber[g.p]) <= Len(subscriber'[g.p])
          /\ subscriber'[g.p][g.slot] = subscriber[g.p][g.slot]
      BY <1>3, <1>4, <1>6
    <3>3. QED
      BY <1>3, <1>4, <3>1, <3>2
  <2>2. Len(stack') <= 1 /\ name'[g.p] = PluginsLoaded
    BY <1>2, <1>4, <1>6 DEF SlotsStay
  <2>3. QED
    BY <1>6, <1>7, <2>1, <2>2 DEF SlotsStay
<1>9. CallsTookEffect'
  <2>1. \A p \in Plugin : \A c : Asked(p, c)' => Asked(p, c)
    BY <1>1 DEF Asked
  <2>2. (loading' = Nobody => at' = 0) /\ phase' # "core" /\ phase # "core"
    BY <1>1, <1>2 DEF CallsTookEffect
  <2>3. \A e \in created' : e \in created
    BY <1>6
  <2>4. QED
    BY <1>2, <1>6, <2>1, <2>2, <2>3, AskedKept
<1>10. \A m : Exists(m)' <=> Exists(m)
  BY <1>6 DEF Exists
<1>11. \A p, m : Subscribed(p, m) => Subscribed(p, m)'
  BY <1>2, <1>6, SubscriptionsStay
<1>12. CalledHaveHooked'
  <2> SUFFICES ASSUME NEW a \in Addr, Contains(hooks, a), name[a] = PluginsLoaded,
                      NEW k \in 1..Len(subscriber'[a]),
                      ~(g.p = a /\ g.slot < k)
               PROVE  HasHookedBut(hookedBy[subscriber[a][k]], IF IsAt(a, k) THEN todo ELSE {})'
    BY <1>6, <1>7 DEF CalledHaveHooked, IsToCome
  <2>1. a = g.p
    BY <1>2, <1>3, <1>4, OneOfName
  <2>2. Len(subscriber[a]) \in Nat /\ g.slot \in 1..Len(subscriber[a])
    BY <1>3, <1>4, <2>1, SlotsOf
  <2>3. k \in 1..Len(subscriber[a]) /\ k <= g.slot
    BY <2>1, <2>2
  <2>4. HasHookedBut(hookedBy[subscriber[a][k]], IF IsAt(a, k) THEN todo ELSE {})
    <3>1. ~IsToCome(a, k)
      BY <1>4 DEF IsToCome
    <3>2. QED
      BY <1>2, <2>3, <3>1 DEF CalledHaveHooked
  <2>5. IsAt(a, k)' <=> IsAt(a, k)
    BY <1>4, <1>7 DEF IsAt
  <2>6. PICK p : p = hookedBy[subscriber[a][k]]
    OBVIOUS
  <2>7. hookedBy'[subscriber'[a][k]] = p
    <3>1. subscriber[a][k] \in 1..(nextTicket - 1) /\ subscriber'[a][k] = subscriber[a][k]
      BY <1>2, <1>6, <2>3 DEF SlotsStay
    <3>2. QED
      BY <1>6, <2>6, <3>1 DEF Grows
  <2>8. CASE ~IsAt(a, k)
    <3>1. HasHookedBut(p, {})
      BY <2>4, <2>6, <2>8
    <3>2. \A m \in LoadedCalls[p] \ {} : Exists(m)' => Subscribed(p, m)'
      BY <1>10, <1>11, <3>1 DEF HasHookedBut
    <3>3. QED
      BY <2>5, <2>7, <2>8, <3>2 DEF HasHookedBut
  <2>9. CASE IsAt(a, k)
    <3>1. HasHookedBut(p, todo) /\ p = q
      BY <1>3, <1>4, <1>5, <2>4, <2>6, <2>9 DEF IsAt, Callee
    <3>2. \A m \in LoadedCalls[p] \ todo' : Exists(m)' => Subscribed(p, m)'
      <4>1. ASSUME NEW m \in LoadedCalls[p] \ todo', Exists(m)' PROVE Subscribed(p, m)'
        <5>1. CASE m = n
          BY <1>6, <1>10, <3>1, <4>1, <5>1
        <5>2. CASE m # n
          BY <1>1, <1>10, <1>11, <3>1, <4>1, <5>2 DEF HasHookedBut
        <5>3. QED
          BY <5>1, <5>2
      <4>2. QED
        BY <4>1
    <3>3. QED
      BY <2>5, <2>7, <2>9, <3>2 DEF HasHookedBut
  <2>10. QED
    BY <2>8, <2>9
<1>13. QED
  BY <1>8, <1>9, <1>12 DEF FindInv

LEMMA FindInvInit == LoaderInit => FindInv
<1> SUFFICES ASSUME LoaderInit PROVE FindInv
  OBVIOUS
<1>1. /\ phase = "core" /\ loading = Nobody /\ at = 0 /\ Libraries = {} /\ todo = {}
      /\ stack = <<>> /\ created = {} /\ subscriber = [a \in Addr |-> <<>>]
  BY DEF LoaderInit, Init, InitWith
<1>2. \A a \in Addr : Len(subscriber[a]) = 0
  BY <1>1, EmptySeq
<1>3. SlotsStay
  BY <1>1, <1>2, EmptySeq DEF SlotsStay
<1>4. \A p \in Plugin : \A c : ~Asked(p, c)
  BY <1>1, PluginLoaderAssumption DEF Asked, Nobody
<1>5. CallsTookEffect
  BY <1>1, <1>4 DEF CallsTookEffect
<1>6. QED
  BY <1>1, <1>3, <1>5 DEF FindInv, CalledHaveHooked

LEMMA FindInvStep ==
  TypeOK /\ TypeOK' /\ NotifyInv /\ LoaderInv /\ HooksSorted /\ FindInv
    /\ [LoaderNext]_<<vars, loader>> => FindInv'
<1> SUFFICES ASSUME TypeOK, TypeOK', NotifyInv, LoaderInv, HooksSorted, FindInv,
                    [LoaderNext]_<<vars, loader>>
             PROVE  FindInv'
  OBVIOUS
<1>0. LoaderTypeOK /\ OneByOne /\ NoDefault /\ CallsKnown
  BY DEF LoaderInv
<1>1. CASE LoadCoreModule
  BY <1>0, <1>1, LoadCoreModuleKeepsFind
<1>2. ASSUME NEW p \in Plugin, Skip(p) \/ SkipMapped(p) \/ Load(p) PROVE FindInv'
  BY <1>0, <1>2, FileKeepsFind
<1>3. CASE OnCreateCall
  BY <1>0, <1>3, OnCreateCallKeepsFind
<1>4. CASE Registered \/ OnCreateFailed
  BY <1>0, <1>4, OnCreateEndsKeepsFind
<1>5. CASE NotifyPluginsLoaded
  BY <1>0, <1>5, NotifyPluginsLoadedKeepsFind
<1>6. ASSUME NEW n \in Name, CallbackHooks(n) PROVE FindInv'
  BY <1>0, <1>6, CallbackHooksKeepsFind
<1>7. ASSUME NEW r \in Result, CallbackReturns(r) PROVE FindInv'
  BY <1>0, <1>7, CallbackReturnsKeepsFind
<1>8. ASSUME NEW e \in created, NotifyLater(e) PROVE FindInv'
  BY <1>0, <1>8, NotifyLaterKeepsFind
<1>9. CASE UNCHANGED <<vars, loader>>
  <2>1. UNCHANGED <<hooks, name, subscriber, nextTicket, hookedBy, stack, created, phase,
                    Libraries, loading, at, todo>>
    BY <1>9 DEF vars, memory, loader
  <2>2. SlotsStay'
    BY <2>1 DEF FindInv, SlotsStay, Top
  <2>3. CallsTookEffect'
    BY <2>1 DEF FindInv, CallsTookEffect, Exists, Subscribed, Asked
  <2>4. CalledHaveHooked'
    <3>1. \A p, left : HasHookedBut(p, left)' <=> HasHookedBut(p, left)
      BY <2>1 DEF HasHookedBut, Exists, Subscribed
    <3>2. \A a, k : (IsToCome(a, k)' <=> IsToCome(a, k)) /\ (IsAt(a, k)' <=> IsAt(a, k))
      BY <2>1 DEF IsToCome, IsAt, Top
    <3> SUFFICES ASSUME phase = "loaded", NEW a \in Addr, Contains(hooks, a),
                        name[a] = PluginsLoaded, NEW k \in 1..Len(subscriber[a])
                 PROVE  (IsToCome(a, k) \/ HasHookedBut(hookedBy[subscriber[a][k]],
                                                       IF IsAt(a, k) THEN todo ELSE {}))'
      BY <2>1 DEF CalledHaveHooked
    <3>3. PICK p, left : /\ p = hookedBy[subscriber[a][k]]
                         /\ left = IF IsAt(a, k) THEN todo ELSE {}
      OBVIOUS
    <3>4. IsToCome(a, k) \/ HasHookedBut(p, left)
      BY <3>3 DEF FindInv, CalledHaveHooked
    <3>5. hookedBy'[subscriber'[a][k]] = p /\ left = IF IsAt(a, k)' THEN todo' ELSE {}
      BY <2>1, <3>2, <3>3
    <3>6. IsToCome(a, k)' \/ HasHookedBut(p, left)'
      BY <3>1, <3>2, <3>4
    <3>7. CASE IsToCome(a, k)'
      BY <3>7
    <3>8. CASE HasHookedBut(p, left)'
      BY <2>1, <3>5, <3>8 DEF HasHookedBut
    <3>9. QED
      BY <3>6, <3>7, <3>8
  <2>5. QED
    BY <2>2, <2>3, <2>4 DEF FindInv
<1>10. ASSUME LoaderNext PROVE FindInv'
  BY <1>1, <1>2, <1>3, <1>4, <1>5, <1>6, <1>7, <1>8, <1>10, Zenon DEF LoaderNext
<1>11. QED
  BY <1>9, <1>10

LEMMA FindInvariant == LoaderSpec => []FindInv
<1>1. LoaderSpec => []HooksSorted
  BY LoaderUsesTheEngine, ListStaysSorted, PTL
<1>2. QED
  BY <1>1, FindInvInit, FindInvStep, LoaderInvariant, PTL DEF LoaderSpec

\* Once PluginsLoaded has been notified, every registered plugin is subscribed to
\* each event it wants of another registered plugin, for any plugins and any order
\* of loading them, whichever failed or were skipped.
THEOREM EventsAreFound == LoaderSpec => []EveryoneFindsTheirEvents
<1>1. TypeOK /\ LoaderInv /\ FindInv => EveryoneFindsTheirEvents
  <2> SUFFICES ASSUME TypeOK, LoaderInv, FindInv, phase = "loaded", stack = <<>>,
                      NEW p \in Libraries, NEW q \in Libraries,
                      NEW i \in 1..Len(OnCreateCalls[q]), NEW n \in LoadedCalls[p],
                      OnCreateCalls[q][i] = Creates(n)
               PROVE  Subscribed(p, n)
    BY DEF EveryoneFindsTheirEvents
  <2>1. p \in Plugin /\ q \in Plugin /\ n \in Name
    BY PluginLoaderAssumption DEF LoaderInv, LoaderTypeOK
  <2>2. Asked(q, Creates(n))
    BY DEF Asked
  <2>3. Exists(n)
    BY <2>1, <2>2 DEF FindInv, CallsTookEffect
  <2>4. PICK j \in 1..Len(OnCreateCalls[p]) : OnCreateCalls[p][j] = Hooks(PluginsLoaded)
    BY <2>1, PluginLoaderAssumption
  <2>5. Asked(p, Hooks(PluginsLoaded))
    BY <2>4 DEF Asked
  <2>6. Subscribed(p, PluginsLoaded)
    BY <2>1, <2>5 DEF FindInv, CallsTookEffect
  <2>7. PICK a \in Addr : Contains(hooks, a) /\ name[a] = PluginsLoaded
                         /\ \E k \in 1..Len(subscriber[a]) : SlotIs(a, k, p)
    BY <2>6, SubscribedHasSlot
  <2>8. PICK k \in 1..Len(subscriber[a]) : SlotIs(a, k, p)
    BY <2>7
  <2>9. HasHookedBut(p, {})
    BY <2>7, <2>8 DEF FindInv, CalledHaveHooked, IsToCome, IsAt, SlotIs
  <2>10. QED
    BY <2>3, <2>9 DEF HasHookedBut
<1>2. QED
  BY <1>1, FindInvariant, LoaderInvariant, PTL
-------------------------------------------------------------------------------
(* Why the code of a closed library runs at the start only.                  *)

\* SlotsAreSafe, of one slot.
SlotIsSafe(a, k) == MaySubscribe(hookedBy[subscriber[a][k]], name[a])

LEMMA SlotBecomesSafe ==
  ASSUME NEW a, NEW k, NEW p, NEW n,
         hookedBy'[subscriber'[a][k]] = p, name'[a] = n, MaySubscribe(p, n)'
  PROVE  SlotIsSafe(a, k)'
BY DEF SlotIsSafe, MaySubscribe

\* A step that makes no slot, and after which whoever might subscribe to an event
\* still might.
LEMMA SlotsKeptSafe ==
  ASSUME SlotsAreSafe, UNCHANGED <<subscriber, name, hookedBy>>,
         \A a \in Addr : \A k \in 1..Len(subscriber[a]) : \A n :
           MaySubscribe(hookedBy[subscriber[a][k]], n)
             => MaySubscribe(hookedBy[subscriber[a][k]], n)'
  PROVE  SlotsAreSafe'
BY DEF SlotsAreSafe

LEMMA CreateKeepsSafe ==
  ASSUME TypeOK, SlotsStay, SlotsAreSafe, NEW n \in Name, CreateEvent(n),
         \A p, m : MaySubscribe(p, m) => MaySubscribe(p, m)'
  PROVE  SlotsAreSafe'
<1>1. CASE CreateHookableEvent(n)
  <2>1. PICK a \in Addr : /\ name' = [name EXCEPT ![a] = n]
                          /\ subscriber' = [subscriber EXCEPT ![a] = <<>>]
    BY <1>1 DEF CreateHookableEvent, NewEvent
  <2>2. hookedBy' = hookedBy
    BY DEF CreateEvent
  <2>3. ASSUME NEW b \in Addr, NEW k \in 1..Len(subscriber'[b])
        PROVE  SlotIsSafe(b, k)'
    <3>1. CASE b = a
      <4>1. subscriber'[b] = <<>>
        BY <2>1, <3>1 DEF TypeOK
      <4>2. QED
        BY <2>3, <4>1, EmptySeq
    <3>2. CASE b # a
      <4>1. subscriber'[b] = subscriber[b] /\ name'[b] = name[b]
        BY <2>1, <3>2 DEF TypeOK
      <4>2. MaySubscribe(hookedBy[subscriber[b][k]], name[b])
        BY <2>3, <4>1 DEF SlotsAreSafe
      <4>3. PICK p, m : p = hookedBy[subscriber[b][k]] /\ m = name[b]
        OBVIOUS
      <4>4. MaySubscribe(p, m)'
        BY <4>2, <4>3
      <4>5. hookedBy'[subscriber'[b][k]] = p /\ name'[b] = m
        BY <2>2, <4>1, <4>3
      <4>6. QED
        BY <4>4, <4>5, SlotBecomesSafe
    <3>3. QED
      BY <3>1, <3>2
  <2>4. QED
    BY <2>3 DEF SlotsAreSafe, SlotIsSafe
<1>2. CASE UNCHANGED vars
  BY <1>2, SlotsKeptSafe DEF CreateEvent, vars, memory
<1>3. QED
  BY <1>1, <1>2 DEF CreateEvent

LEMMA HookKeepsSafe ==
  ASSUME TypeOK, TypeOK', LoaderTypeOK, OwnersKnown, SlotsStay, SlotsAreSafe,
         NEW n \in Name, NEW p, Hook(p, n), MaySubscribe(p, n)',
         \A q, m : MaySubscribe(q, m) => MaySubscribe(q, m)'
  PROVE  SlotsAreSafe'
<1>0. nextTicket \in Nat /\ nextTicket >= 1 /\ MaxTicket \in Nat
      /\ hookedBy \in [Ticket -> Plugin \cup {Nobody}]
  BY HookEngineAssumption DEF TypeOK, LoaderTypeOK
<1>1. CASE NewSlot(n, p)
  <2>1. PICK b \in Addr :
          /\ name[b] = n
          /\ subscriber' = [subscriber EXCEPT ![b] = Append(subscriber[b], nextTicket)]
          /\ nextTicket \in Ticket
          /\ hookedBy' = [hookedBy EXCEPT ![nextTicket] = p]
    BY <1>1 DEF NewSlot
  <2>2. name' = name /\ hookedBy'[nextTicket] = p
    BY <1>0, <2>1, HookMakesSlot
  <2>3. ASSUME NEW a \in Addr, NEW k \in 1..Len(subscriber[a])
        PROVE  MaySubscribe(hookedBy[subscriber[a][k]], name[a]) /\ subscriber[a][k] # nextTicket
    <3>1. subscriber[a][k] \in 1..(nextTicket - 1)
      BY DEF SlotsStay
    <3>2. subscriber[a][k] # nextTicket
      BY <1>0, <3>1
    <3>3. QED
      BY <3>2 DEF SlotsAreSafe
  <2>4. PICK s \in Seq(Nat) : s = subscriber[b]
    BY SlotsOf
  <2>5. PICK u \in Seq(Nat) :
          /\ u = Append(s, nextTicket) /\ Len(u) = Len(s) + 1 /\ Len(s) \in Nat
          /\ \A k \in 1..Len(s) : u[k] = s[k]
          /\ u[Len(s) + 1] = nextTicket
    <3>1. /\ Append(s, nextTicket) \in Seq(Nat)
          /\ Len(Append(s, nextTicket)) = Len(s) + 1
          /\ \A k \in 1..Len(s) : Append(s, nextTicket)[k] = s[k]
          /\ Append(s, nextTicket)[Len(s) + 1] = nextTicket
          /\ Len(s) \in Nat
      BY <1>0, Pushed
    <3>2. QED
      BY <3>1, Zenon
  <2>6. subscriber'[b] = u /\ \A a \in Addr : a # b => subscriber'[a] = subscriber[a]
    <3>1. DOMAIN subscriber = Addr /\ u = Append(subscriber[b], nextTicket)
      BY <2>4, <2>5 DEF TypeOK
    <3>2. QED
      BY <2>1, <3>1
  <2>7. ASSUME NEW a \in Addr, NEW k \in 1..Len(subscriber'[a])
        PROVE  SlotIsSafe(a, k)'
    <3>1. CASE a = b /\ k = Len(s) + 1
      <4>1. subscriber'[a][k] = nextTicket /\ name[a] = n
        BY <2>1, <2>5, <2>6, <3>1
      <4>2. hookedBy'[subscriber'[a][k]] = p /\ name'[a] = n
        BY <2>2, <4>1
      <4>3. QED
        BY <4>2, SlotBecomesSafe
    <3>2. CASE ~(a = b /\ k = Len(s) + 1)
      <4>1. k \in 1..Len(subscriber[a]) /\ subscriber'[a][k] = subscriber[a][k]
        <5>1. CASE a # b
          BY <2>6, <2>7, <5>1
        <5>2. CASE a = b
          <6>1. subscriber'[a] = u /\ subscriber[a] = s
            BY <2>4, <2>6, <5>2
          <6>2. k \in 1..Len(u) /\ k # Len(s) + 1
            BY <2>7, <3>2, <5>2, <6>1
          <6>3. k \in 1..Len(s)
            BY <2>5, <6>2
          <6>4. QED
            BY <2>5, <6>1, <6>3
        <5>3. QED
          BY <5>1, <5>2
      <4>2. MaySubscribe(hookedBy[subscriber[a][k]], name[a]) /\ subscriber[a][k] # nextTicket
        BY <2>3, <4>1
      <4>3. PICK q, m : q = hookedBy[subscriber[a][k]] /\ m = name[a]
        OBVIOUS
      <4>4. hookedBy'[subscriber'[a][k]] = q /\ name'[a] = m
        BY <1>0, <2>1, <2>2, <4>1, <4>2, <4>3
      <4>5. MaySubscribe(q, m)'
        BY <4>2, <4>3
      <4>6. QED
        BY <4>4, <4>5, SlotBecomesSafe
    <3>3. QED
      BY <3>1, <3>2
  <2>8. QED
    BY <2>7 DEF SlotsAreSafe, SlotIsSafe
<1>2. CASE UNCHANGED <<subscriber, hookedBy>>
  BY <1>2, HookMakesSlot, SlotsKeptSafe
<1>3. QED
  BY <1>1, <1>2, HookMakesSlot

LEMMA SlotsAreSafeInit == LoaderInit => SlotsAreSafe
<1> SUFFICES ASSUME LoaderInit PROVE SlotsAreSafe
  OBVIOUS
<1>1. subscriber = [a \in Addr |-> <<>>]
  BY DEF LoaderInit, Init, InitWith
<1>2. \A a \in Addr : Len(subscriber[a]) = 0
  BY <1>1, EmptySeq
<1>3. QED
  BY <1>2 DEF SlotsAreSafe

LEMMA SlotsAreSafeStep ==
  TypeOK /\ TypeOK' /\ LoaderInv /\ FindInv /\ SlotsAreSafe
    /\ [LoaderNext]_<<vars, loader>> => SlotsAreSafe'
<1> SUFFICES ASSUME TypeOK, TypeOK', LoaderInv, FindInv, SlotsAreSafe,
                    [LoaderNext]_<<vars, loader>>
             PROVE  SlotsAreSafe'
  OBVIOUS
<1>0. LoaderTypeOK /\ OneByOne /\ OwnersKnown /\ SlotsStay /\ Nobody \notin Plugin
  BY PluginLoaderAssumption DEF LoaderInv, FindInv, Nobody
<1>1. UNCHANGED <<mapped, loading, at>> => \A p, n : MaySubscribe(p, n) => MaySubscribe(p, n)'
  BY DEF MaySubscribe, HasHooked
<1>2. CASE LoadCoreModule
  <2>1. CreateEvent(PluginsLoaded) /\ PluginsLoaded \in Name /\ UNCHANGED <<mapped, loading, at>>
    BY <1>2, PluginLoaderAssumption DEF LoadCoreModule, CreateEvent
  <2>2. QED
    BY <1>0, <1>1, <2>1, CreateKeepsSafe
<1>3. ASSUME NEW p \in Plugin, Skip(p) \/ SkipMapped(p) \/ Load(p) PROVE SlotsAreSafe'
  <2>1. /\ loading = Nobody /\ p \in files /\ UNCHANGED <<subscriber, name, hookedBy>>
        /\ mapped' = mapped \/ mapped' = mapped \cup {p}
        /\ loading' \in {Nobody, p}
    BY <1>3 DEF Skip, SkipMapped, Load, NextFile, vars, memory
  <2>2. ASSUME NEW a \in Addr, NEW k \in 1..Len(subscriber[a]), NEW n,
               MaySubscribe(hookedBy[subscriber[a][k]], n)
        PROVE  MaySubscribe(hookedBy[subscriber[a][k]], n)'
    <3>1. PICK q : q = hookedBy[subscriber[a][k]]
      OBVIOUS
    <3>2. subscriber[a][k] \in 1..(nextTicket - 1)
      BY <1>0 DEF SlotsStay
    <3>3. q \in Plugin \ files
      BY <1>0, <3>1, <3>2 DEF OwnersKnown
    <3>4. q # p /\ q # Nobody
      BY <1>0, <2>1, <3>3
    <3>5. (q \in mapped /\ q # loading) \/ (q \in FailsLate /\ n = PluginsLoaded)
      BY <2>1, <2>2, <3>1, <3>4 DEF MaySubscribe
    <3>6. (q \in mapped' /\ q # loading') \/ (q \in FailsLate /\ n = PluginsLoaded)
      BY <2>1, <3>4, <3>5
    <3>7. hookedBy'[subscriber'[a][k]] = q
      BY <2>1, <3>1
    <3>8. QED
      BY <2>1, <3>6, <3>7 DEF MaySubscribe
  <2>3. QED
    BY <2>1, <2>2, SlotsKeptSafe
<1>4. CASE OnCreateCall
  <2> DEFINE c == OnCreateCalls[loading][at + 1]
  <2>1. /\ loading # Nobody /\ at < Len(OnCreateCalls[loading])
        /\ at' = at + 1 /\ at \in Nat /\ UNCHANGED <<mapped, loading>>
        /\ IF c.call = "create" THEN CreateEvent(c.event) ELSE Hook(loading, c.event)
    BY <1>0, <1>4 DEF OnCreateCall, LoaderTypeOK
  <2>2. /\ loading \in Plugin /\ loading \in mapped /\ c.event \in Name
        /\ c.call \in {"create", "hook"} /\ at + 1 \in 1..Len(OnCreateCalls[loading])
    BY <1>0, <2>1, CallType
  <2>3. HasHooked => HasHooked'
    BY <2>1 DEF HasHooked
  <2>4. \A p, n : MaySubscribe(p, n) => MaySubscribe(p, n)'
    BY <2>1, <2>3 DEF MaySubscribe
  <2>5. CASE c.call = "create"
    BY <1>0, <2>1, <2>2, <2>4, <2>5, CreateKeepsSafe
  <2>6. CASE c.call = "hook"
    <3>1. HasHooked'
      BY <2>1, <2>6 DEF HasHooked
    <3>2. loading \in FailsLate => c.event = PluginsLoaded
      BY <2>2, <2>6, PluginLoaderAssumption DEF Hooks
    <3>3. Hook(loading, c.event)
      BY <2>1, <2>6
    <3>4. PICK n \in Name : n = c.event
      BY <2>2
    <3>5. PICK p : p = loading
      OBVIOUS
    <3>6. MaySubscribe(p, n)'
      BY <2>1, <2>2, <3>1, <3>2, <3>4, <3>5 DEF MaySubscribe
    <3>7. QED
      BY <1>0, <2>4, <3>3, <3>4, <3>5, <3>6, HookKeepsSafe
  <2>7. QED
    BY <2>2, <2>5, <2>6
<1>5. CASE Registered \/ OnCreateFailed
  <2>1. /\ loading # Nobody /\ loading' = Nobody /\ UNCHANGED <<subscriber, name, hookedBy>>
    BY <1>5 DEF Registered, OnCreateFailed, vars, memory
  <2>2. ASSUME NEW a \in Addr, NEW k \in 1..Len(subscriber[a]), NEW n,
               MaySubscribe(hookedBy[subscriber[a][k]], n)
        PROVE  MaySubscribe(hookedBy[subscriber[a][k]], n)'
    <3>1. PICK q : q = hookedBy[subscriber[a][k]]
      OBVIOUS
    <3>2. hookedBy'[subscriber'[a][k]] = q
      BY <2>1, <3>1
    <3>3. MaySubscribe(q, n)
      BY <2>2, <3>1
    <3>4. subscriber[a][k] \in 1..(nextTicket - 1)
      BY <1>0 DEF SlotsStay
    <3>5. q \in Plugin /\ q # Nobody
      BY <1>0, <3>1, <3>4 DEF OwnersKnown
    <3>6. CASE Registered
      <4>1. mapped' = mapped
        BY <3>6 DEF Registered
      <4>2. QED
        BY <2>1, <3>2, <3>3, <3>5, <4>1 DEF MaySubscribe
    <3>7. CASE OnCreateFailed
      <4>1. mapped' = mapped \ {loading} /\ (HasHooked => loading \in FailsLate)
        BY <3>7 DEF OnCreateFailed
      <4>2. QED
        BY <2>1, <3>2, <3>3, <3>5, <4>1 DEF MaySubscribe
    <3>8. QED
      BY <1>5, <3>6, <3>7
  <2>3. QED
    BY <2>1, <2>2, SlotsKeptSafe
<1>6. ASSUME NEW n \in Name, CallbackHooks(n) PROVE SlotsAreSafe'
  <2>1. /\ stack # <<>> /\ Callee(Top) \in mapped /\ Hook(Callee(Top), n)
        /\ UNCHANGED <<mapped, loading, at>>
    BY <1>6 DEF CallbackHooks, CallbackRuns
  <2>2. loading = Nobody /\ Callee(Top) # Nobody
    BY <1>0, <2>1 DEF OneByOne, LoaderTypeOK
  <2>3. MaySubscribe(Callee(Top), n)
    BY <2>1, <2>2 DEF MaySubscribe
  <2>4. PICK p : p = Callee(Top)
    OBVIOUS
  <2>5. MaySubscribe(p, n)'
    BY <1>1, <2>1, <2>3, <2>4
  <2>6. QED
    BY <1>0, <1>1, <2>1, <2>4, <2>5, HookKeepsSafe
<1>7. CASE /\ \/ NotifyPluginsLoaded
              \/ \E r \in Result : CallbackReturns(r)
              \/ \E e \in created : NotifyLater(e)
              \/ UNCHANGED <<vars, loader>>
  <2>1. UNCHANGED <<subscriber, name, hookedBy, mapped, loading, at>>
    BY <1>7 DEF NotifyPluginsLoaded, CallbackReturns, NotifyLater, NotifyEventHooks,
                HookReturns, loader, vars, memory
  <2>2. QED
    BY <1>1, <2>1, SlotsKeptSafe
<1>8. ASSUME LoaderNext PROVE SlotsAreSafe'
  BY <1>2, <1>3, <1>4, <1>5, <1>6, <1>7, <1>8, Zenon DEF LoaderNext
<1>9. QED
  BY <1>7, <1>8

\* For any plugins and any order of loading them, whichever fail and at whatever
\* point of their OnCreate: the code of a closed library is called while
\* PluginsLoaded is notified, and of a plugin that failed after it had hooked that
\* event, or never.
THEOREM ClosedLibrariesAreCalledAtTheStartOnly ==
  LoaderSpec => []ClosedCodeRunsAtTheStartOnly
<1>1. LoaderSpec => [](FindInv /\ SlotsAreSafe)
  BY FindInvariant, SlotsAreSafeInit, SlotsAreSafeStep, LoaderInvariant, PTL DEF LoaderSpec
<1>2. TypeOK /\ LoaderInv /\ FindInv /\ SlotsAreSafe => ClosedCodeRunsAtTheStartOnly
  <2> SUFFICES ASSUME TypeOK, LoaderInv, FindInv, SlotsAreSafe, NEW d \in 1..Len(stack)
               PROVE  \/ Callee(stack[d]) \in mapped
                      \/ name[stack[d].p] = PluginsLoaded /\ Callee(stack[d]) \in FailsLate
    BY DEF ClosedCodeRunsAtTheStartOnly
  <2>1. stack \in Seq(Frame) /\ Len(stack) \in Nat /\ Len(stack) <= 1 /\ stack # <<>>
    BY EmptySeq, LenProperties DEF TypeOK, FindInv, SlotsStay
  <2>2. stack[d] = Top /\ Top \in Frame
    <3>1. d = Len(stack)
      BY <2>1
    <3>2. QED
      BY <2>1, <3>1, ElementOfSeq DEF Top
  <2>3. /\ Top.p \in Addr /\ Top.slot \in 1..Len(subscriber[Top.p])
        /\ subscriber[Top.p][Top.slot] = Top.calls[Len(Top.calls)]
    BY <2>1, <2>2 DEF FindInv, SlotsStay, Frame
  <2>4. MaySubscribe(hookedBy[subscriber[Top.p][Top.slot]], name[Top.p])
    BY <2>3 DEF SlotsAreSafe
  <2>5. Callee(Top) = hookedBy[subscriber[Top.p][Top.slot]]
    BY <2>3 DEF Callee
  <2>6. PICK p, n : p = Callee(Top) /\ n = name[Top.p]
    OBVIOUS
  <2>7. MaySubscribe(p, n)
    BY <2>4, <2>5, <2>6
  <2>8. p \in mapped \/ (n = PluginsLoaded /\ p \in FailsLate)
    BY <2>7 DEF MaySubscribe
  <2>9. QED
    BY <2>2, <2>6, <2>8
<1>3. QED
  BY <1>1, <1>2, LoaderInvariant, PTL
===============================================================================
