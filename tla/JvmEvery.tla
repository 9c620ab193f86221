------------------------------- MODULE JvmEvery -------------------------------
(***************************************************************************)
(* The repeated blocks of the JVM plugin's scheduler: Scheduler.every and  *)
(* handleEvery, and ScheduledEvery.  Before and after each event, and each *)
(* token, the game's thread goes through the list of them and runs those   *)
(* that are due.  What it runs is arbitrary code: it may cause events, and *)
(* with them inner passes through the same list, change the list, stop     *)
(* blocks and set how often they run, its own among them.                  *)
(*                                                                         *)
(* An event stands for a token as well.  Left out: setTiming of a block    *)
(* that is in the list; contextThread and what is queued, which are in     *)
(* JvmScheduler.                                                           *)
(***************************************************************************)
EXTENDS Integers, Sequences, FiniteSets

CONSTANTS
  Every,     \* the ScheduledEvery objects
  Counted,   \* bound: those that setRunsRemaining is called on
  Late,      \* bound: those that setTiming(AFTER) is called on
  Stoppable, \* bound: those that stop is called on
  Interval,  \* their intervals
  MaxClock,  \* bound: the clock
  MaxEvents, \* bound: events in one another
  MaxSet     \* bound: what setRunsRemaining is given

VARIABLES
  now,             \* System.currentTimeMillis()
  scheduledEvery,  \* the list
  timing, lastRun, stopped, runsRemaining,  \* of each ScheduledEvery
  events,          \* the calls of event() under way, innermost last: see Pass
  setting          \* history: what setRunsRemaining last gave each, and its runs since

everyVars == <<now, scheduledEvery, timing, lastRun, stopped, runsRemaining, events, setting>>
fieldVars == <<timing, lastRun, stopped, runsRemaining>>

Timing == {"BEFORE", "AFTER"}
NoBlock == "nobody"

ASSUME EveryAssumption ==
  /\ {Interval, MaxClock, MaxEvents, MaxSet} \subseteq Nat
  /\ Interval <= MaxClock
  /\ NoBlock \notin Every

IsDue(e, t, n) == ~stopped[e] /\ timing[e] = t /\ n >= lastRun[e] + Interval

Listed == {scheduledEvery[i] : i \in DOMAIN scheduledEvery}

\* An event in handleEvery(t): the time, the iterator's next element and whether
\* somebody else has changed the list since, what is to be removed, whose block
\* runs, and (history) who was due at the start.
Pass(t) ==
  [in |-> t, n |-> now, next |-> 1, changed |-> FALSE, toRemove |-> {}, block |-> NoBlock,
   due |-> {e \in Listed : IsDue(e, t, now)}]

\* It is between the two, with the listeners.
Distributing ==
  [in |-> "listeners", n |-> 0, next |-> 1, changed |-> FALSE, toRemove |-> {},
   block |-> NoBlock, due |-> {}]

Inner == events[Len(events)]
Outer == SubSeq(events, 1, Len(events) - 1)
InnerIs(f) == events' = Append(Outer, f)

CodeRuns == events # <<>> /\ (Inner.in = "listeners" \/ Inner.block # NoBlock)
InPass == events # <<>> /\ Inner.in \in Timing /\ Inner.block = NoBlock
IsRunning(e) == \E i \in DOMAIN events : events[i].block = e

\* The list is changed: iterators that exist will throw when they are used next.
Changed(calls) ==
  [i \in DOMAIN calls |->
     IF calls[i].in \in Timing THEN [calls[i] EXCEPT !.changed = TRUE, !.due = {}] ELSE calls[i]]

Unset == [to |-> -1, runs |-> 0, of |-> "idle"]

EveryInit ==
  /\ now = Interval     \* any time: all have last run at 0
  /\ scheduledEvery = <<>>
  /\ timing = [e \in Every |-> "BEFORE"]
  /\ lastRun = [e \in Every |-> 0]
  /\ stopped = [e \in Every |-> FALSE]
  /\ runsRemaining = [e \in Every |-> -1]
  /\ events = <<>>
  /\ setting = [e \in Every |-> Unset]

\* It is only looked at before and after code runs.
TimePasses ==
  /\ events = <<>> \/ CodeRuns
  /\ now < MaxClock
  /\ now' = now + 1
  /\ UNCHANGED <<scheduledEvery, fieldVars, events, setting>>
-------------------------------------------------------------------------------
(* Calls of plugins' code.                                                   *)

\* Scheduler.every, by any thread at any time.
Schedule(e, t) ==
  /\ e \notin Listed
  /\ scheduledEvery' = Append(scheduledEvery, e)
  /\ timing' = [timing EXCEPT ![e] = t]
  /\ events' = Changed(events)
  /\ UNCHANGED <<now, lastRun, stopped, runsRemaining, setting>>

Stop(e) ==
  /\ events = <<>> \/ CodeRuns
  /\ stopped' = [stopped EXCEPT ![e] = TRUE]
  /\ UNCHANGED <<now, scheduledEvery, timing, lastRun, runsRemaining, events, setting>>

SetRunsRemaining(e, k) ==
  /\ events = <<>> \/ CodeRuns
  /\ runsRemaining' = [runsRemaining EXCEPT ![e] = k]
  /\ setting' = [setting EXCEPT ![e] =
       [to |-> k, runs |-> 0, of |-> IF IsRunning(e) THEN "running" ELSE "idle"]]
  /\ UNCHANGED <<now, scheduledEvery, timing, lastRun, stopped, events>>
-------------------------------------------------------------------------------
(* event() and handleEvery().                                                *)

EventBegins ==
  /\ events = <<>> \/ CodeRuns
  /\ Len(events) < MaxEvents
  /\ events' = Append(events, Pass("BEFORE"))
  /\ UNCHANGED <<now, scheduledEvery, fieldVars, setting>>

\* The iterator has an element for the loop, and is good.
Iterates(e) ==
  /\ InPass
  /\ ~Inner.changed
  /\ Inner.next \in DOMAIN scheduledEvery
  /\ e = scheduledEvery[Inner.next]

Advanced == [Inner EXCEPT !.next = @ + 1]

\* Mutant of FindsStopped: it is removed at once, and the loop goes on with next.
FindsStoppedAndRemoves(e) ==
  /\ Iterates(e)
  /\ stopped[e]
  /\ scheduledEvery' = SelectSeq(scheduledEvery, LAMBDA x : x # e)
  /\ events' = Append(Changed(Outer), Advanced)
  /\ UNCHANGED <<now, fieldVars, setting>>

FindsStopped(e) ==
  /\ Iterates(e)
  /\ stopped[e]
  /\ InnerIs([Advanced EXCEPT !.toRemove = @ \cup {e}])
  /\ UNCHANGED <<now, scheduledEvery, fieldVars, setting>>

\* It is the other timing's, or not due yet.
FindsOther(e) ==
  /\ Iterates(e)
  /\ ~stopped[e]
  /\ ~IsDue(e, Inner.in, Inner.n)
  /\ InnerIs(Advanced)
  /\ UNCHANGED <<now, scheduledEvery, fieldVars, setting>>

UsedUp(e) == runsRemaining[e] # -1 /\ runsRemaining[e] < 1

FindsUsedUp(e) ==
  /\ Iterates(e)
  /\ IsDue(e, Inner.in, Inner.n)
  /\ UsedUp(e)
  /\ stopped' = [stopped EXCEPT ![e] = TRUE]
  /\ InnerIs(Advanced)
  /\ UNCHANGED <<now, scheduledEvery, timing, lastRun, runsRemaining, setting>>

\* Its block begins to run; perhaps it is running already.
FindsDue(e) ==
  /\ Iterates(e)
  /\ IsDue(e, Inner.in, Inner.n)
  /\ ~UsedUp(e)
  /\ InnerIs([Advanced EXCEPT !.block = e])
  /\ setting' = [setting EXCEPT ![e] =
       IF setting[e].to = -1 THEN setting[e]
       ELSE IF IsRunning(e) THEN Unset
       ELSE [setting[e] EXCEPT !.runs = @ + 1]]
  /\ UNCHANGED <<now, scheduledEvery, fieldVars>>

\* Mutant of Remaining: the counter stops at 1.
RemainingAboveOne(k) == IF k > 1 THEN k - 1 ELSE k

Remaining(k) == IF k = -1 THEN k ELSE k - 1

BlockReturns ==
  /\ events # <<>> /\ Inner.block # NoBlock
  /\ lastRun' = [lastRun EXCEPT ![Inner.block] = now]
  /\ runsRemaining' = [runsRemaining EXCEPT ![Inner.block] = Remaining(@)]
  /\ InnerIs([Inner EXCEPT !.block = NoBlock])
  /\ UNCHANGED <<now, scheduledEvery, timing, stopped, setting>>

BlockThrows ==
  /\ events # <<>> /\ Inner.block # NoBlock
  /\ InnerIs([Inner EXCEPT !.block = NoBlock, !.toRemove = @ \cup {Inner.block}])
  /\ setting' = [setting EXCEPT ![Inner.block] = Unset]
  /\ UNCHANGED <<now, scheduledEvery, fieldVars>>

\* There are no more elements, or fewer than there were.
PassIsOver == InPass /\ Inner.next > Len(scheduledEvery)

PassEnds ==
  /\ PassIsOver
  /\ LET kept == {i \in DOMAIN scheduledEvery : scheduledEvery[i] \notin Inner.toRemove}
         n    == Cardinality(kept)
     IN \E was \in [1..n -> kept] :
          /\ \A i, j \in 1..n : i < j => was[i] < was[j]
          /\ scheduledEvery' = [i \in 1..n |-> scheduledEvery[was[i]]]
  /\ LET before == IF scheduledEvery' = scheduledEvery THEN Outer ELSE Changed(Outer)
     IN events' = IF Inner.in = "BEFORE" THEN Append(before, Distributing) ELSE before
  /\ UNCHANGED <<now, fieldVars, setting>>

\* ConcurrentModificationException: the event ends, and what was to be removed stays.
PassIsBroken ==
  /\ InPass
  /\ Inner.changed
  /\ Inner.next <= Len(scheduledEvery)
  /\ events' = Outer
  /\ UNCHANGED <<now, scheduledEvery, fieldVars, setting>>

ListenersReturn ==
  /\ events # <<>> /\ Inner.in = "listeners"
  /\ InnerIs(Pass("AFTER"))
  /\ UNCHANGED <<now, scheduledEvery, fieldVars, setting>>

ListenerThrows ==
  /\ events # <<>> /\ Inner.in = "listeners"
  /\ events' = Outer
  /\ UNCHANGED <<now, scheduledEvery, fieldVars, setting>>

EveryNext ==
  \/ TimePasses
  \/ \E e \in Every :
       \/ ~stopped[e] /\ \E t \in Timing : (t = "AFTER" => e \in Late) /\ Schedule(e, t)
       \/ e \in Stoppable /\ Stop(e)
       \/ e \in Counted /\ \E k \in 0..MaxSet : SetRunsRemaining(e, k)
       \/ FindsStopped(e) \/ FindsOther(e) \/ FindsUsedUp(e) \/ FindsDue(e)
  \/ EventBegins
  \/ BlockReturns \/ BlockThrows
  \/ PassEnds \/ PassIsBroken
  \/ ListenersReturn \/ ListenerThrows

EverySpec == EveryInit /\ [][EveryNext]_everyVars
-------------------------------------------------------------------------------
EventOf ==
  [in : Timing \cup {"listeners"}, n : 0..MaxClock, next : Nat, changed : BOOLEAN,
   toRemove : SUBSET Every, block : Every \cup {NoBlock}, due : SUBSET Every]

EveryTypeOK ==
  /\ now \in Interval..MaxClock
  /\ scheduledEvery \in Seq(Every)
  /\ timing \in [Every -> Timing]
  /\ lastRun \in [Every -> 0..MaxClock]
  /\ stopped \in [Every -> BOOLEAN]
  /\ runsRemaining \in [Every -> -1..MaxSet]
  /\ events \in Seq(EventOf)
  /\ setting \in [Every -> [to : -1..MaxSet, runs : Nat, of : {"idle", "running"}]]

\* Whoever was due when handleEvery began has run since, was stopped, or has
\* thrown, when it gets to the end of a list that nobody else has changed in
\* between: through inner events, whose passes stop and run the same blocks.
\* (If an inner pass has removed one, the rest may be left to the next event.)
NoneDueIsPassedOver ==
  PassIsOver /\ ~Inner.changed =>
    \A e \in Inner.due : lastRun[e] >= Inner.n \/ stopped[e] \/ e \in Inner.toRemove

\* A block runs at most as often as it was set to, whatever events, passes and
\* other blocks come in between, if it was set while it did not run, never ran in
\* an event that it caused itself, and threw nothing (run() counts a run when it
\* is over; a block that threw stays in the list until the pass is over).
RunsNoMoreThanSet ==
  \A e \in Every :
    setting[e].to # -1 /\ setting[e].of = "idle" => setting[e].runs <= setting[e].to

\* setRunsRemaining sets how often the block should run "after any currently-
\* running" run (ScheduledEvery.java:101): also if it is called by that run.
RunsNoMoreThanSetByItself ==
  \A e \in Every : setting[e].to # -1 => setting[e].runs <= setting[e].to
===============================================================================
