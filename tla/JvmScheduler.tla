----------------------------- MODULE JvmScheduler -----------------------------
(***************************************************************************)
(* The scheduler of the JVM plugin (Scheduler.java).  The game's thread    *)
(* enters the JVM with events and with tokens (handles the game's own      *)
(* scheduler gives back), and is said to have context while it is there;   *)
(* other threads, and the game's code itself, hand it blocks of code: to   *)
(* be run at the next flushQueues (schedule, scheduleWait), or on behalf   *)
(* of an object, through a token (assign, assignNow, delay).               *)
(*                                                                         *)
(* "stack" is what the game's thread is in the middle of.  Listeners and   *)
(* blocks are arbitrary code, frames of kind "code": while one is on top,  *)
(* the game's thread may call every operation, and NWScript calls may      *)
(* bring further events.  Workers interleave with all of it.  A block is   *)
(* known by a number.                                                      *)
(*                                                                         *)
(* An ExceptionHandler is registered that takes every exception (otherwise *)
(* the server stops at the first), and objects stay valid, so that the     *)
(* game runs jvm_token.nss whenever it is asked to.                        *)
(***************************************************************************)
EXTENDS Integers, Sequences, FiniteSetsExt

CONSTANTS
  Worker,       \* threads of the JVM other than the game's
  Obj,          \* objects of the game blocks are assigned to
  Habits,       \* ways of using the scheduler; a behaviour keeps to one
  Game, Stale, NoThread,
                \* the game's thread; what contextThread refers to when it has
                \* left the JVM (it is another Thread when it comes back); null
  MaxBlock,     \* bound: blocks ever handed in
  MaxToken,     \* bound: tokens ever made
  MaxFrames     \* bound: depth of the stack

Thread == Worker \cup {Game}

Habit == [disciplined : BOOLEAN,      \* assign and flushQueues are left alone while
                                      \* assigned blocks run
          throws : BOOLEAN,           \* blocks and listeners may throw
          spurious : BOOLEAN,         \* wait() may return without notify(), as Java allows
          assigner : SUBSET Thread]   \* the threads that call assign

ASSUME JvmSchedulerAssumption ==
  /\ {Game, Stale, NoThread} \cap Worker = {}
  /\ Game # Stale /\ NoThread \notin {Game, Stale}
  /\ Habits \subseteq Habit
  /\ {MaxBlock, MaxToken, MaxFrames} \subseteq Nat

VARIABLES
  habit,        \* how the scheduler is used
  contextThread,
  tokenMap,     \* the list of each object, 0 if it has none
  tokenSets,    \* the list of each token, 0 if it has none
  lastToken,
  scheduled,    \* the queue: blocks, and the thread that waits for each
  lists,        \* the LinkedLists of blocks, by number
  delayed,      \* tokens the game holds in a DelayCommand
  stack,        \* the activations of the game's thread, innermost last
  op,           \* where each thread is in assign or scheduleWait
  nextBlock,    \* history: number of the next block
  ran,          \* history: how often each block was started
  accepted,     \* history: blocks whose assign, schedule... was done with them
  queuedBy,     \* history: the worker that scheduled each block
  missed        \* history: a token was not found

vars == <<habit, contextThread, tokenMap, tokenSets, lastToken, scheduled, lists, delayed,
          stack, op, nextBlock, ran, accepted, queuedBy, missed>>
history == <<habit, nextBlock, accepted, queuedBy>>

Block == 1..MaxBlock

Frame == [kind : {"event", "token", "assign", "sched", "code"},
          unset : BOOLEAN,                  \* token: clear contextThread at the end
          list : Nat, at : Nat, size : Nat, \* token: the list, blocks done, size at the start
          todo : SUBSET Obj,                \* assign: objects to come
          touched : BOOLEAN,                \* assign: tokenMap changed under the iterator
          waiter : Thread \cup {NoThread}]  \* code: who waits for the block

FrameOf(kind) == [kind |-> kind, unset |-> FALSE, list |-> 0, at |-> 0, size |-> 0,
                  todo |-> {}, touched |-> FALSE, waiter |-> NoThread]
Code(waiter)  == [FrameOf("code") EXCEPT !.waiter = waiter]

Idle == [pc |-> "idle", obj |-> NoThread, block |-> 0, list |-> 0]

Top   == stack[Len(stack)]
Below == SubSeq(stack, 1, Len(stack) - 1)
OnTop(kind) == stack # <<>> /\ Top.kind = kind

\* flushQueues holds the lock of tokenMap while it hands out assigned blocks.
Locked == \E d \in 1..Len(stack) : stack[d].kind = "assign"

\* The game's thread is in a listener or a block, between two calls.
CodeRuns == OnTop("code") /\ op[Game].pc = "idle"

CanCall(t) == IF t = Game THEN CodeRuns ELSE op[t].pc = "idle"
HasRoom    == Len(stack) + 2 <= MaxFrames
IsNew(b)   == b = nextBlock /\ b <= MaxBlock
Started(b) == ran' = [ran EXCEPT ![b] = IF @ < 2 THEN @ + 1 ELSE 2]   \* 2: twice or more
-------------------------------------------------------------------------------
Init ==
  /\ habit \in Habits
  /\ contextThread = NoThread
  /\ tokenMap = [o \in Obj |-> 0]
  /\ tokenSets = [k \in 0..MaxToken |-> 0]
  /\ lastToken = 0
  /\ scheduled = <<>>
  /\ lists = <<>>
  /\ delayed = {}
  /\ stack = <<>>
  /\ op = [t \in Thread |-> Idle]
  /\ nextBlock = 1
  /\ ran = [b \in Block |-> 0]
  /\ accepted = {}
  /\ queuedBy = [b \in Block |-> NoThread]
  /\ missed = FALSE

\* Mutant of Leave: the thread is not detached.
LeaveAttached(s, c) == stack' = s /\ contextThread' = c

\* The game's thread is left with the frames s and contextThread c.  When none
\* is left, OnRequest detaches it from the JVM.
Leave(s, c) ==
  /\ stack' = s
  /\ contextThread' = IF s = <<>> /\ c = Game THEN Stale ELSE c

\* notify() wakes thread t if it is in wait(), and is lost otherwise.
Notify(t) ==
  op' = IF t # NoThread /\ op[t].pc = "waiting" THEN [op EXCEPT ![t] = Idle] ELSE op

\* The frames where an exception is caught: event and token, the loop over
\* scheduled blocks, and the Runnable of scheduleWait.
Catches(d) == stack[d].kind \in {"event", "token", "sched"} \/ stack[d].waiter # NoThread

\* An exception unwinds the stack to the innermost of them.  event and token
\* return from the handler at once, past the end that clears contextThread.
Raise ==
  LET d == Max({e \in 1..Len(stack) : Catches(e)})
  IN  /\ Leave(SubSeq(stack, 1, IF stack[d].kind = "sched" THEN d ELSE d - 1), contextThread)
      /\ Notify(stack[d].waiter)
-------------------------------------------------------------------------------
(* Events and tokens.                                                        *)

\* An event of the game, at any time it can occur: when its thread is not in
\* the JVM, or from an NWScript call.
Event ==
  /\ stack = <<>> \/ CodeRuns
  /\ HasRoom
  /\ contextThread' = Game
  /\ stack' = stack \o <<FrameOf("event"), Code(NoThread)>>
  /\ UNCHANGED <<tokenMap, tokenSets, lastToken, scheduled, lists, delayed, op, ran,
                 missed, history>>

EventEnds ==
  /\ OnTop("event")
  /\ Leave(Below, NoThread)
  /\ UNCHANGED <<tokenMap, tokenSets, lastToken, scheduled, lists, delayed, op, ran,
                 missed, history>>

\* token() for token k starts above the frames base; line 56 takes the context
\* only if somebody has it already.
Token(base, sets, ls, k) ==
  /\ contextThread' = IF contextThread # NoThread THEN Game ELSE NoThread
  /\ tokenSets' = [sets EXCEPT ![k] = 0]
  /\ missed' = (missed \/ sets[k] = 0)
  /\ stack' = Append(base, [FrameOf("token") EXCEPT
                              !.unset = (contextThread # NoThread), !.list = sets[k],
                              !.size = IF sets[k] = 0 THEN 0 ELSE Len(ls[sets[k]])])

\* DelayCommand calls the token when its time has come.
DelayIsOver(k) ==
  /\ stack = <<>>
  /\ HasRoom
  /\ k \in delayed
  /\ delayed' = delayed \ {k}
  /\ Token(stack, tokenSets, lists, k)
  /\ UNCHANGED <<tokenMap, lastToken, scheduled, lists, op, ran, history>>

\* The loop over the blocks of a token: hasNext() compares with the length of
\* the list, next() throws if the list has changed.
TokenNext ==
  /\ OnTop("token")
  /\ LET length == IF Top.list = 0 THEN 0 ELSE Len(lists[Top.list])
     IN  \/ /\ Top.at < length /\ length = Top.size
            /\ Started(lists[Top.list][Top.at + 1])
            /\ stack' = Below \o <<[Top EXCEPT !.at = @ + 1], Code(NoThread)>>
            /\ UNCHANGED <<contextThread, op>>
         \/ /\ Top.at < length /\ length # Top.size
            /\ Raise
            /\ UNCHANGED ran
         \/ /\ Top.at = length
            /\ Leave(Below, IF Top.unset THEN NoThread ELSE contextThread)
            /\ UNCHANGED <<op, ran>>
  /\ UNCHANGED <<tokenMap, tokenSets, lastToken, scheduled, lists, delayed, missed, history>>

\* The listener or the block on top is done; a waiting thread is notified.
CodeReturns ==
  /\ CodeRuns
  /\ stack' = Below
  /\ Notify(Top.waiter)
  /\ UNCHANGED <<contextThread, tokenMap, tokenSets, lastToken, scheduled, lists, delayed,
                 ran, missed, history>>

CodeThrows ==
  /\ habit.throws
  /\ CodeRuns
  /\ Raise
  /\ UNCHANGED <<tokenMap, tokenSets, lastToken, scheduled, lists, delayed, ran, missed,
                 history>>
-------------------------------------------------------------------------------
(* schedule and scheduleWait.                                                *)

NewBlock(b, by) ==
  /\ nextBlock' = b + 1
  /\ accepted' = accepted \cup {b}
  /\ queuedBy' = [queuedBy EXCEPT ![b] = by]
  /\ UNCHANGED habit

\* Mutant of Enqueue: the queue is a stack.
EnqueueFirst(b, waiter) == scheduled' = <<[block |-> b, waiter |-> waiter]>> \o scheduled

Enqueue(b, waiter) == scheduled' = Append(scheduled, [block |-> b, waiter |-> waiter])

\* isInContextThread(): the block is run at once, inside the caller.
RunAtOnce(b) ==
  /\ HasRoom
  /\ contextThread = Game
  /\ stack' = Append(stack, Code(NoThread))
  /\ Started(b)
  /\ UNCHANGED <<scheduled, op>>

Schedule(t, b) ==
  /\ CanCall(t) /\ IsNew(b)
  /\ \/ t = Game /\ RunAtOnce(b)
     \/ /\ contextThread # t
        /\ Enqueue(b, NoThread)
        /\ UNCHANGED <<stack, op, ran>>
  /\ NewBlock(b, IF t = Game THEN NoThread ELSE t)
  /\ UNCHANGED <<contextThread, tokenMap, tokenSets, lastToken, lists, delayed, missed>>

ScheduleWait(t, b) ==
  /\ CanCall(t) /\ IsNew(b)
  /\ \/ t = Game /\ RunAtOnce(b)
     \/ /\ contextThread # t
        /\ Enqueue(b, t)
        /\ op' = [op EXCEPT ![t] = [Idle EXCEPT !.pc = "queued", !.block = b]]
        /\ UNCHANGED <<stack, ran>>
  /\ NewBlock(b, IF t = Game THEN NoThread ELSE t)
  /\ UNCHANGED <<contextThread, tokenMap, tokenSets, lastToken, lists, delayed, missed>>

\* anon.wait(), after the block has been queued: nothing looks at whether it
\* has been run in between.
Wait(t) ==
  /\ op[t].pc = "queued"
  /\ op' = [op EXCEPT ![t].pc = "waiting"]
  /\ UNCHANGED <<contextThread, tokenMap, tokenSets, lastToken, scheduled, lists, delayed,
                 stack, ran, missed, history>>

\* wait() returns with no notify(); it is not called in a loop.
WakeUp(t) ==
  /\ habit.spurious
  /\ op[t].pc = "waiting"
  /\ op' = [op EXCEPT ![t] = Idle]
  /\ UNCHANGED <<contextThread, tokenMap, tokenSets, lastToken, scheduled, lists, delayed,
                 stack, ran, missed, history>>
-------------------------------------------------------------------------------
(* assign, assignNow and delay.                                              *)

\* Each call on tokenMap takes its lock.
CanLock(t) == t = Game \/ ~Locked

\* tokenMap has been changed: iterators over it will notice.
Touch(s) == [d \in 1..Len(s) |-> IF s[d].kind = "assign" THEN [s[d] EXCEPT !.touched = TRUE]
                                                        ELSE s[d]]

AfterAssign == <<habit, contextThread, tokenSets, lastToken, scheduled, delayed, ran, missed>>

\* Mutant of Assign: the list the object may have is not looked for.
AssignNewList(t, o, b) ==
  /\ t \in habit.assigner
  /\ CanCall(t) /\ CanLock(t) /\ IsNew(b)
  /\ habit.disciplined => ~Locked
  /\ op' = [op EXCEPT ![t] = [pc |-> "put", obj |-> o, block |-> b, list |-> 0]]
  /\ nextBlock' = b + 1
  /\ UNCHANGED <<AfterAssign, tokenMap, lists, stack, accepted, queuedBy>>

\* tokenMap.containsKey(obj)
Assign(t, o, b) ==
  /\ t \in habit.assigner
  /\ CanCall(t) /\ CanLock(t) /\ IsNew(b)
  /\ habit.disciplined => ~Locked
  /\ op' = [op EXCEPT ![t] = [pc |-> IF tokenMap[o] = 0 THEN "put" ELSE "get",
                              obj |-> o, block |-> b, list |-> 0]]
  /\ nextBlock' = b + 1
  /\ UNCHANGED <<AfterAssign, tokenMap, lists, stack, accepted, queuedBy>>

\* tokenMap.put(obj, new LinkedList())
AssignPut(t) ==
  /\ op[t].pc = "put" /\ CanLock(t)
  /\ lists' = Append(lists, <<>>)
  /\ tokenMap' = [tokenMap EXCEPT ![op[t].obj] = Len(lists) + 1]
  /\ stack' = IF tokenMap[op[t].obj] = 0 THEN Touch(stack) ELSE stack
  /\ op' = [op EXCEPT ![t].pc = "get"]
  /\ UNCHANGED <<AfterAssign, history>>

\* tokenMap.get(obj); null is thrown back at the caller with the next dot.
AssignGet(t) ==
  /\ op[t].pc = "get" /\ CanLock(t)
  /\ LET l == tokenMap[op[t].obj]
     IN  op' = [op EXCEPT ![t] = IF l = 0 THEN Idle
                                 ELSE [@ EXCEPT !.pc = "add", !.list = l]]
  /\ UNCHANGED <<AfterAssign, tokenMap, lists, stack, history>>

\* .add(anon), with no lock on the list
AssignAdd(t) ==
  /\ op[t].pc = "add"
  /\ lists' = [lists EXCEPT ![op[t].list] = Append(@, op[t].block)]
  /\ accepted' = accepted \cup {op[t].block}
  /\ op' = [op EXCEPT ![t] = Idle]
  /\ UNCHANGED <<AfterAssign, tokenMap, stack, nextBlock, queuedBy>>

\* A token for list l is made and jvm_token.nss run, which calls it at once.
AssignSet(base, ls, l) ==
  /\ lastToken < MaxToken
  /\ lastToken' = lastToken + 1
  /\ Token(base, [tokenSets EXCEPT ![lastToken] = l], ls, lastToken)

AssignNow(b) ==
  /\ CodeRuns /\ HasRoom /\ IsNew(b)
  /\ lists' = Append(lists, <<b>>)
  /\ AssignSet(stack, lists', Len(lists) + 1)
  /\ NewBlock(b, NoThread)
  /\ UNCHANGED <<tokenMap, scheduled, delayed, op, ran>>

\* Mutant of Delay: the token's number is used again.
DelayKeepingToken(b) ==
  /\ CodeRuns /\ IsNew(b) /\ lastToken < MaxToken
  /\ lists' = Append(lists, <<b>>)
  /\ tokenSets' = [tokenSets EXCEPT ![lastToken] = Len(lists) + 1]
  /\ delayed' = delayed \cup {lastToken}
  /\ NewBlock(b, NoThread)
  /\ UNCHANGED <<contextThread, tokenMap, lastToken, scheduled, stack, op, ran, missed>>

\* A token is made that jvm_token.nss hands to DelayCommand.
Delay(b) ==
  /\ CodeRuns /\ IsNew(b) /\ lastToken < MaxToken
  /\ lists' = Append(lists, <<b>>)
  /\ tokenSets' = [tokenSets EXCEPT ![lastToken] = Len(lists) + 1]
  /\ lastToken' = lastToken + 1
  /\ delayed' = delayed \cup {lastToken}
  /\ NewBlock(b, NoThread)
  /\ UNCHANGED <<contextThread, tokenMap, scheduled, stack, op, ran, missed>>
-------------------------------------------------------------------------------
(* flushQueues.                                                              *)

FlushQueues ==
  /\ CodeRuns /\ HasRoom
  /\ habit.disciplined => ~Locked
  /\ stack' = Append(stack, [FrameOf("assign") EXCEPT !.todo = {o \in Obj : tokenMap[o] # 0}])
  /\ UNCHANGED <<contextThread, tokenMap, tokenSets, lastToken, scheduled, lists, delayed,
                 op, ran, missed, history>>

\* The list of the next object is given to a token, unless tokenMap has changed.
HandOutNext ==
  /\ OnTop("assign") /\ Top.todo # {}
  /\ IF Top.touched
     THEN Raise /\ UNCHANGED <<tokenSets, lastToken, missed>>
     ELSE \E o \in Top.todo :
            /\ AssignSet(Append(Below, [Top EXCEPT !.todo = @ \ {o}]), lists, tokenMap[o])
            /\ UNCHANGED op
  /\ UNCHANGED <<tokenMap, scheduled, lists, delayed, ran, history>>

\* Mutant of ClearMap: the map is not cleared.
KeepMap == UNCHANGED tokenMap

ClearMap == tokenMap' = [o \in Obj |-> 0]

\* tokenMap.clear(), and on to the scheduled blocks.
HandOutEnds ==
  /\ OnTop("assign") /\ Top.todo = {}
  /\ ClearMap
  /\ stack' = Append(Touch(Below), FrameOf("sched"))
  /\ UNCHANGED <<contextThread, tokenSets, lastToken, scheduled, lists, delayed, op, ran,
                 missed, history>>

\* Mutant of RunScheduled: the waiting thread is notified before the block runs.
NotifyAndRun ==
  /\ OnTop("sched") /\ scheduled # <<>>
  /\ scheduled' = Tail(scheduled)
  /\ Started(Head(scheduled).block)
  /\ stack' = Append(stack, Code(Head(scheduled).waiter))
  /\ Notify(Head(scheduled).waiter)
  /\ UNCHANGED <<contextThread, tokenMap, tokenSets, lastToken, lists, delayed, missed,
                 history>>

RunScheduled ==
  /\ OnTop("sched") /\ scheduled # <<>>
  /\ scheduled' = Tail(scheduled)
  /\ Started(Head(scheduled).block)
  /\ stack' = Append(stack, Code(Head(scheduled).waiter))
  /\ UNCHANGED <<contextThread, tokenMap, tokenSets, lastToken, lists, delayed, op, missed,
                 history>>

\* The queue is empty, or the time allowed is over.
FlushEnds ==
  /\ OnTop("sched")
  /\ stack' = Below
  /\ UNCHANGED <<contextThread, tokenMap, tokenSets, lastToken, scheduled, lists, delayed,
                 op, ran, missed, history>>
-------------------------------------------------------------------------------
GameStep ==
  \/ Event \/ EventEnds
  \/ \E k \in delayed : DelayIsOver(k)
  \/ TokenNext
  \/ CodeReturns \/ CodeThrows
  \/ \E b \in Block : AssignNow(b) \/ Delay(b)
  \/ FlushQueues \/ HandOutNext \/ HandOutEnds \/ RunScheduled \/ FlushEnds

Next ==
  \/ GameStep
  \/ \E t \in Thread :
       \/ \E b \in Block : Schedule(t, b) \/ ScheduleWait(t, b)
       \/ \E b \in Block, o \in Obj : Assign(t, o, b)
       \/ Wait(t) \/ WakeUp(t)
       \/ AssignPut(t) \/ AssignGet(t) \/ AssignAdd(t)

Spec == Init /\ [][Next]_vars
-------------------------------------------------------------------------------
TypeOK ==
  /\ habit \in Habits
  /\ contextThread \in IF stack = <<>> THEN {Stale, NoThread} ELSE {Game, Stale, NoThread}
  /\ tokenMap \in [Obj -> 0..Len(lists)]
  /\ tokenSets \in [0..MaxToken -> 0..Len(lists)]
  /\ lastToken \in 0..MaxToken
  /\ scheduled \in Seq([block : Block, waiter : Thread \cup {NoThread}])
  /\ lists \in Seq(Seq(Block))
  /\ delayed \subseteq 0..MaxToken
  /\ stack \in Seq(Frame)
  /\ op \in [Thread -> [pc : {"idle", "queued", "waiting", "put", "get", "add"},
                        obj : Obj \cup {NoThread}, block : Nat, list : Nat]]
  /\ nextBlock \in 1..(MaxBlock + 1)
  /\ ran \in [Block -> 0..2]
  /\ accepted \subseteq Block
  /\ queuedBy \in [Block -> Worker \cup {NoThread}]
  /\ missed \in BOOLEAN

\* A block that was handed in is run at most once, whatever events and tokens
\* come in between and whatever throws (as long as flushQueues and assign are
\* not called while it hands out assigned blocks).
RunsOnce == habit.disciplined => \A b \in Block : ran[b] <= 1

\* The blocks that are still to be run.
IsIn(l, b, from) == l # 0 /\ \E i \in 1..Len(lists[l]) : i > from /\ lists[l][i] = b

Waits(b) ==
  \/ \E i \in 1..Len(scheduled) : scheduled[i].block = b
  \/ \E o \in Obj : IsIn(tokenMap[o], b, 0)
  \/ \E k \in delayed : IsIn(tokenSets[k], b, 0)
  \/ \E d \in 1..Len(stack) : stack[d].kind = "token" /\ IsIn(stack[d].list, b, stack[d].at)

\* Scheduler.java: assign "Assigns a Anon block to obj and queues it for
\* execution": once assign (or schedule, delay...) has returned, the block stays
\* queued until it is run.  (Does not hold: see README, Disagreements.)
EveryBlockStaysQueued == \A b \in accepted : ran[b] > 0 \/ Waits(b)

\* It does so where only the game's thread calls assign, no assigned block calls
\* assign or flushQueues, and none throws.
BlockStaysQueued ==
  habit.disciplined /\ ~habit.throws /\ habit.assigner \subseteq {Game} => EveryBlockStaysQueued

\* Blocks scheduled by one worker are started in the order it scheduled them,
\* although flushQueues calls nest in scheduled blocks, stop when their time is
\* over and go on after exceptions.
WorkerOrderKept ==
  \A b, c \in Block :
    b < c /\ queuedBy[b] # NoThread /\ queuedBy[b] = queuedBy[c] /\ ran[c] > 0 => ran[b] > 0

\* SchedulerListener.java: missedToken is "Called when NWServer tried to execute
\* a token that didn't exist": tokens the scheduler made and gave to the game
\* exist until the game calls them.
NoTokenIsMissed == ~missed

\* Scheduler.java: scheduleWait "blocks the calling thread until the block has
\* been executed": where wait() returns only when notified, it does not return
\* before.
ReturnsAfterItsBlock ==
  [][~habit.spurious =>
       \A t \in Thread : op[t].pc = "waiting" /\ op'[t].pc = "idle" =>
         /\ ran[op[t].block] > 0
         /\ \A d \in 1..Len(stack') : stack'[d].waiter # t]_vars

\* ...and no longer: a thread does not wait when its block has been executed.
\* (Does not hold: see README, Disagreements.)
NoWaiterForgotten ==
  \A t \in Thread : op[t].pc = "waiting" /\ ran[op[t].block] > 0 =>
    \E d \in 1..Len(stack) : stack[d].waiter = t

\* Scheduler.java: isInContextThread returns "true if the calling Thread is the
\* one having NWN Context": the game's thread is that, in listeners and blocks.
\* (Does not hold: see README, Disagreements.)
ContextIsKnown == CodeRuns => contextThread = Game
===============================================================================
