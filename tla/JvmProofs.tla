------------------------------ MODULE JvmProofs ------------------------------
(***************************************************************************)
(* Proofs about the scheduler of the JVM plugin, for every number of       *)
(* threads, objects, blocks and tokens, and every depth of the game's      *)
(* stack.                                                                  *)
(*                                                                         *)
(* Inv, at the end, is the inductive invariant: the types and the shape of *)
(* the stack (Sane), the order of the queue (Ordered), a block is in one   *)
(* place only (Apart), tokens the game holds and objects flushQueues goes  *)
(* through have a list (TokensHeld, ObjectsHeld), and for a disciplined    *)
(* program a list has one holder and what the holder has not come to was   *)
(* not run (Disciplined).                                                  *)
(*                                                                         *)
(* Two lemmas keep the proofs short, which would otherwise look at each of *)
(* the eighteen actions: BlockSteps says what a step may do to the places  *)
(* of blocks (BlockStep), RefSteps what it may do to the references to     *)
(* lists (RefStep). Each of the invariants but Sane is shown to be kept by *)
(* those.                                                                  *)
(*                                                                         *)
(* Waiting, which rests on Inv, is about the threads in scheduleWait; what *)
(* a step may do to them is WaitStep (WaitSteps).                          *)
(* Steadily, which rests on Inv as well, is about where blocks are kept:   *)
(* it looks the other way, at what a step leaves of the holders of lists   *)
(* (HoldersGoOn).                                                          *)
(***************************************************************************)
EXTENDS JvmScheduler, ListProofs

-------------------------------------------------------------------------------
(* The shape of the stack.                                                   *)

Pending(t) == op[t].pc \in {"put", "get", "add"}
Depth == 1..Len(stack)

\* What the game's thread can be in the middle of.
StackOK ==
  /\ stack # <<>> => stack[1].kind \in {"event", "token"}
  /\ \A d \in Depth :
       /\ stack[d].kind = "assign" /\ d < Len(stack) => stack[d + 1].kind = "token"
       /\ stack[d].waiter # NoThread => stack[d].kind = "code"
       /\ stack[d].todo # {} \/ stack[d].touched = TRUE => stack[d].kind = "assign"
       /\ stack[d].list = 0 => stack[d].at = 0
       /\ stack[d].list # 0 =>
            /\ stack[d].kind = "token" /\ stack[d].list <= Len(lists)
            /\ stack[d].at <= Len(lists[stack[d].list])
  /\ op[Game].pc # "idle" => OnTop("code")

OpOK ==
  \A t \in Thread :
    /\ op[t].block < nextBlock
    /\ op[t].pc # "idle" => op[t].block >= 1
    /\ Pending(t) => op[t].obj \in Obj /\ t \in habit.assigner
    /\ op[t].pc = "add" => op[t].list \in 1..Len(lists)

Sane == TypeOK /\ StackOK /\ OpOK

\* The largest element of a set of numbers that has one.
LEMMA MaxOf ==
  ASSUME NEW n \in Nat, NEW T \in SUBSET (1..n), T # {}
  PROVE  Max(T) \in T /\ \A k \in T : k <= Max(T)
<1>1. PICK m \in T : \A k \in T : k <= m
  BY LargestOf
<1>2. \A k \in T : k \in Int
  OBVIOUS
<1>3. \E x \in T : \A y \in T : x >= y
  BY <1>1, <1>2
<1>4. Max(T) \in T /\ \A y \in T : Max(T) >= y
  BY <1>3 DEF Max
<1>5. QED
  BY <1>2, <1>4

LEMMA FrameIs ==
  ASSUME NEW kind \in {"event", "token", "assign", "sched", "code"}
  PROVE  FrameOf(kind) \in Frame
BY DEF FrameOf, Frame

LEMMA CodeIs ==
  ASSUME NEW w \in Thread \cup {NoThread}
  PROVE  /\ Code(w) \in Frame
         /\ Code(w) = [FrameOf("code") EXCEPT !.waiter = w]
         /\ Code(w).kind = "code" /\ Code(w).waiter = w
         /\ Code(w).list = 0 /\ Code(w).at = 0 /\ Code(w).todo = {} /\ Code(w).touched = FALSE
BY DEF Code, FrameOf, Frame

\* The stack, and the frame on top of it.
LEMMA StackTop ==
  ASSUME TypeOK
  PROVE  /\ stack \in Seq(Frame) /\ Len(stack) \in Nat
         /\ \A d \in Depth : stack[d] \in Frame
         /\ stack = <<>> <=> Len(stack) = 0
         /\ stack # <<>> => Len(stack) \in Depth /\ Top = stack[Len(stack)] /\ Top \in Frame
<1>1. stack \in Seq(Frame)
  BY DEF TypeOK
<1>2. stack = <<>> <=> Len(stack) = 0
  BY <1>1, EmptySeq
<1> HIDE DEF Frame
<1>3. /\ Len(stack) \in Nat
      /\ \A d \in Depth : stack[d] \in Frame
  BY <1>1 DEF Depth
<1>4. QED
  BY <1>1, <1>2, <1>3 DEF Depth, Top

LEMMA BelowIs ==
  ASSUME TypeOK, stack # <<>>
  PROVE  /\ Below \in Seq(Frame) /\ Len(Below) = Len(stack) - 1
         /\ \A d \in 1..Len(Below) : Below[d] = stack[d]
<1> HIDE DEF Frame
<1>1. stack \in Seq(Frame)
  BY StackTop
<1>2. QED
  BY <1>1, Popped DEF Below

LEMMA TouchIs ==
  ASSUME NEW s \in Seq(Frame)
  PROVE  /\ Touch(s) \in Seq(Frame) /\ Len(Touch(s)) = Len(s)
         /\ \A d \in 1..Len(s) :
              Touch(s)[d] = IF s[d].kind = "assign" THEN [s[d] EXCEPT !.touched = TRUE] ELSE s[d]
<1>1. Len(s) \in Nat /\ \A d \in 1..Len(s) : s[d] \in Frame
  BY ElementOfSeq
<1>2. \A f \in Frame : [f EXCEPT !.touched = TRUE] \in Frame
  BY DEF Frame
<1>3. \A d \in 1..Len(s) :
        (IF s[d].kind = "assign" THEN [s[d] EXCEPT !.touched = TRUE] ELSE s[d]) \in Frame
  BY <1>1, <1>2
<1>4. Touch(s) \in [1..Len(s) -> Frame]
  BY <1>3 DEF Touch
<1> HIDE DEF Frame
<1>5. Touch(s) \in Seq(Frame) /\ Len(Touch(s)) = Len(s)
  BY <1>1, <1>4, FunctionIsSeq
<1>6. QED
  BY <1>5 DEF Touch

\* The innermost frame that catches an exception.
LEMMA Catching ==
  ASSUME TypeOK, StackOK, stack # <<>>
  PROVE  \E d \in Depth :
           /\ d = Max({e \in 1..Len(stack) : Catches(e)})
           /\ Catches(d) /\ \A e \in Depth : Catches(e) => e <= d
<1>1. Len(stack) \in Nat /\ 1 \in Depth
  BY StackTop DEF Depth
<1> DEFINE C == {e \in 1..Len(stack) : Catches(e)}
<1>2. 1 \in C
  BY <1>1 DEF StackOK, Catches, Depth
<1>3. C \in SUBSET (1..Len(stack)) /\ C # {}
  BY <1>2
<1> HIDE DEF C
<1>4. Max(C) \in C /\ \A e \in C : e <= Max(C)
  BY <1>1, <1>3, MaxOf
<1>5. QED
  BY <1>4 DEF C, Depth

\* What Raise leaves.
LEMMA RaiseIs ==
  ASSUME TypeOK, StackOK, stack # <<>>, Raise
  PROVE  \E d \in Depth, n \in 0..Len(stack) :
           /\ Catches(d) /\ \A e \in Depth : Catches(e) => e <= d
           /\ n = (IF stack[d].kind = "sched" THEN d ELSE d - 1)
           /\ stack' \in Seq(Frame) /\ Len(stack') = n
           /\ \A e \in 1..n : stack'[e] = stack[e]
           /\ Notify(stack[d].waiter)
           /\ contextThread' = IF n = 0 /\ contextThread = Game THEN Stale ELSE contextThread
<1>1. PICK d \in Depth : /\ d = Max({e \in 1..Len(stack) : Catches(e)})
                         /\ Catches(d) /\ \A e \in Depth : Catches(e) => e <= d
  BY Catching
<1>2. stack \in Seq(Frame) /\ Len(stack) \in Nat
  BY StackTop
<1> DEFINE n == IF stack[d].kind = "sched" THEN d ELSE d - 1
<1>3. n \in 0..Len(stack)
  BY <1>2 DEF Depth
<1>4. Leave(SubSeq(stack, 1, n), contextThread) /\ Notify(stack[d].waiter)
  BY <1>1 DEF Raise
<1> HIDE DEF n, Frame
<1>5. /\ SubSeq(stack, 1, n) \in Seq(Frame) /\ Len(SubSeq(stack, 1, n)) = n
      /\ \A e \in 1..n : SubSeq(stack, 1, n)[e] = stack[e]
  BY <1>2, <1>3, PrefixOf
<1>6. SubSeq(stack, 1, n) = <<>> <=> n = 0
  BY <1>5, EmptySeq
<1>7. stack' = SubSeq(stack, 1, n)
  BY <1>4 DEF Leave
<1>8. contextThread' = IF n = 0 /\ contextThread = Game THEN Stale ELSE contextThread
  BY <1>4, <1>6 DEF Leave
<1>9. QED
  BY <1>1, <1>3, <1>4, <1>5, <1>7, <1>8 DEF n

-------------------------------------------------------------------------------
(* Pushing, popping and replacing frames.                                    *)

\* m frames are kept of the stack, and there are n then.
Keeps(m, n) ==
  /\ stack' \in Seq(Frame) /\ Len(stack') = n
  /\ m \in 0..Len(stack) /\ m <= n
  /\ \A d \in 1..m : stack'[d] = stack[d]

\* The same but for what iterators over tokenMap have noticed.
Alike(m, n) ==
  /\ stack' \in Seq(Frame) /\ Len(stack') = n
  /\ m \in 0..Len(stack) /\ m <= n
  /\ \A d \in 1..m :
       \/ stack'[d] = stack[d]
       \/ stack[d].kind = "assign" /\ stack'[d] = [stack[d] EXCEPT !.touched = TRUE]

LEMMA KeepsAlike ==
  ASSUME NEW m, NEW n, Keeps(m, n)
  PROVE  Alike(m, n)
BY DEF Keeps, Alike

TokenFrame(sets, ls, k) ==
  [FrameOf("token") EXCEPT
     !.unset = (contextThread # NoThread), !.list = sets[k],
     !.size = IF sets[k] = 0 THEN 0 ELSE Len(ls[sets[k]])]

LEMMA StackIsSeq ==
  ASSUME NEW m, NEW n \in Nat, Keeps(m, n)
  PROVE  stack' \in Seq(Frame) /\ (n > 0 => stack' # <<>>)
BY EmptySeq DEF Keeps

LEMMA EventFrames ==
  ASSUME TypeOK, Event
  PROVE  /\ Keeps(Len(stack), Len(stack) + 2)
         /\ stack'[Len(stack) + 1] = FrameOf("event")
         /\ stack'[Len(stack) + 2] = Code(NoThread)
<1>1. FrameOf("event") \in Frame /\ Code(NoThread) \in Frame
  BY FrameIs, CodeIs
<1> HIDE DEF Frame
<1>2. stack \in Seq(Frame) /\ Len(stack) \in Nat
  BY StackTop
<1>3. stack' = stack \o <<FrameOf("event"), Code(NoThread)>>
  BY DEF Event
<1>4. QED
  BY <1>1, <1>2, <1>3, PushedTwo DEF Keeps

LEMMA PopFrames ==
  ASSUME TypeOK, stack # <<>>, stack' = Below
  PROVE  Len(stack) >= 1 /\ Keeps(Len(stack) - 1, Len(stack) - 1)
<1> HIDE DEF Frame
<1>1. Len(stack) \in Nat /\ Len(stack) >= 1
  BY StackTop
<1>2. QED
  BY <1>1, BelowIs DEF Keeps

LEMMA PushFrames ==
  ASSUME TypeOK, NEW f \in Frame, stack' = Append(stack, f)
  PROVE  /\ Keeps(Len(stack), Len(stack) + 1)
         /\ stack'[Len(stack) + 1] = f
<1> HIDE DEF Frame
<1>1. stack \in Seq(Frame) /\ Len(stack) \in Nat
  BY StackTop
<1>2. QED
  BY <1>1, Pushed DEF Keeps

\* The top frame is replaced, and another one is pushed.
LEMMA ReplaceFrames ==
  ASSUME TypeOK, stack # <<>>, NEW f \in Frame, NEW g \in Frame,
         stack' = Below \o <<f, g>> \/ stack' = Append(Append(Below, f), g)
  PROVE  /\ Len(stack) >= 1 /\ Keeps(Len(stack) - 1, Len(stack) + 1)
         /\ stack'[Len(stack)] = f /\ stack'[Len(stack) + 1] = g
<1> HIDE DEF Frame
<1>1. Len(stack) \in Nat /\ Len(stack) >= 1
  BY StackTop
<1>2. /\ Below \in Seq(Frame) /\ Len(Below) = Len(stack) - 1
      /\ \A d \in 1..Len(Below) : Below[d] = stack[d]
  BY BelowIs
<1>3. CASE stack' = Below \o <<f, g>>
  <2>1. /\ Below \o <<f, g>> \in Seq(Frame) /\ Len(Below \o <<f, g>>) = Len(Below) + 2
        /\ \A d \in 1..Len(Below) : (Below \o <<f, g>>)[d] = Below[d]
        /\ (Below \o <<f, g>>)[Len(Below) + 1] = f /\ (Below \o <<f, g>>)[Len(Below) + 2] = g
    BY <1>2, PushedTwo
  <2>2. Len(Below) + 1 = Len(stack) /\ Len(Below) + 2 = Len(stack) + 1
    BY <1>1, <1>2
  <2>3. QED
    BY <1>1, <1>2, <1>3, <2>1, <2>2 DEF Keeps
<1>4. CASE stack' = Append(Append(Below, f), g)
  <2>1. /\ Append(Below, f) \in Seq(Frame) /\ Len(Append(Below, f)) = Len(stack)
        /\ \A d \in 1..(Len(stack) - 1) : Append(Below, f)[d] = stack[d]
        /\ Append(Below, f)[Len(stack)] = f
    BY <1>1, <1>2, Pushed
  <2>2. QED
    BY <1>1, <1>4, <2>1, Pushed DEF Keeps
<1>5. QED
  BY <1>3, <1>4

LEMMA TokenFrameIs ==
  ASSUME TypeOK, NEW sets \in [0..MaxToken -> Nat], NEW ls \in Seq(Seq(Block)),
         NEW k \in 0..MaxToken, sets[k] \in 0..Len(ls)
  PROVE  /\ TokenFrame(sets, ls, k) \in Frame
         /\ TokenFrame(sets, ls, k).kind = "token"
         /\ TokenFrame(sets, ls, k).list = sets[k] /\ TokenFrame(sets, ls, k).at = 0
         /\ TokenFrame(sets, ls, k).todo = {} /\ TokenFrame(sets, ls, k).touched = FALSE
         /\ TokenFrame(sets, ls, k).waiter = NoThread
         /\ sets[k] # 0 => TokenFrame(sets, ls, k).size = Len(ls[sets[k]])
<1> DEFINE n == IF sets[k] = 0 THEN 0 ELSE Len(ls[sets[k]])
<1>1. n \in Nat
  <2>1. CASE sets[k] # 0
    <3>1. ls[sets[k]] \in Seq(Block)
      BY <2>1, ElementOfSeq
    <3>2. QED
      BY <2>1, <3>1, LenProperties
  <2>2. QED
    BY <2>1
<1> DEFINE u == contextThread # NoThread
<1>2. sets[k] \in Nat /\ u \in BOOLEAN
  OBVIOUS
<1>3. TokenFrame(sets, ls, k) = [FrameOf("token") EXCEPT !.unset = u, !.list = sets[k], !.size = n]
  BY DEF TokenFrame
<1> HIDE DEF n, u
<1>4. TokenFrame(sets, ls, k) =
        [kind |-> "token", unset |-> u, list |-> sets[k], at |-> 0,
         size |-> n, todo |-> {}, touched |-> FALSE, waiter |-> NoThread]
  BY <1>3 DEF FrameOf
<1>5. TokenFrame(sets, ls, k) \in Frame
  BY <1>1, <1>2, <1>4 DEF Frame
<1>6. QED
  BY <1>4, <1>5 DEF n

FrameOK(d) ==
  /\ stack[d].waiter # NoThread => stack[d].kind = "code"
  /\ stack[d].todo # {} \/ stack[d].touched = TRUE => stack[d].kind = "assign"
  /\ stack[d].list = 0 => stack[d].at = 0
  /\ stack[d].list # 0 =>
       /\ stack[d].kind = "token" /\ stack[d].list <= Len(lists)
       /\ stack[d].at <= Len(lists[stack[d].list])

\* Plain code is such a frame.
LEMMA CodeFrameOK ==
  ASSUME NEW d, NEW w \in Thread \cup {NoThread}, stack'[d] = Code(w)
  PROVE  FrameOK(d)'
<1>1. /\ Code(w).kind = "code" /\ Code(w).list = 0 /\ Code(w).at = 0
      /\ Code(w).todo = {} /\ Code(w).touched = FALSE
  BY CodeIs
<1> HIDE DEF Code
<1>2. QED
  BY <1>1 DEF FrameOK

ListsStay ==
  /\ Len(lists) <= Len(lists')
  /\ \A l \in 1..Len(lists) : Len(lists[l]) <= Len(lists'[l])

LEMMA ListsAre ==
  ASSUME TypeOK
  PROVE  /\ lists \in Seq(Seq(Block)) /\ Len(lists) \in Nat
         /\ \A l \in 1..Len(lists) : lists[l] \in Seq(Block) /\ Len(lists[l]) \in Nat
<1>1. lists \in Seq(Seq(Block))
  BY DEF TypeOK
<1> DEFINE S == Seq(Block)
<1>2. \A s \in S : Len(s) \in Nat
  OBVIOUS
<1> HIDE DEF S
<1>3. lists \in Seq(S)
  BY <1>1 DEF S
<1>4. Len(lists) \in Nat /\ \A l \in 1..Len(lists) : lists[l] \in S
  BY <1>3, ElementOfSeq, LenProperties
<1>5. QED
  BY <1>1, <1>2, <1>4 DEF S

\* Frames that are kept are as good as they were.
LEMMA FramesStay ==
  ASSUME TypeOK, StackOK, ListsStay, TypeOK',
         NEW m \in Nat, NEW n \in Nat, Alike(m, n),
         \A d \in (m + 1)..n : FrameOK(d)',
         m = 0 /\ n > 0 => stack'[1].kind \in {"event", "token"},
         \A d \in 1..n : d >= m /\ d < n /\ stack'[d].kind = "assign" => stack'[d + 1].kind = "token",
         op'[Game].pc # "idle" => OnTop("code")'
  PROVE  StackOK'
<1>1. /\ Len(stack) \in Nat /\ m \in 0..Len(stack) /\ m <= n /\ Len(stack') = n
      /\ \A d \in 1..m : d \in Depth
  BY StackTop DEF Alike, Depth
<1>2. ASSUME NEW d \in 1..m
      PROVE  /\ stack'[d].kind = stack[d].kind /\ stack'[d].waiter = stack[d].waiter
             /\ stack'[d].todo = stack[d].todo
             /\ stack'[d].list = stack[d].list /\ stack'[d].at = stack[d].at
             /\ stack'[d].touched = TRUE => stack[d].touched = TRUE \/ stack[d].kind = "assign"
  <2>1. \/ stack'[d] = stack[d]
        \/ stack[d].kind = "assign" /\ stack'[d] = [stack[d] EXCEPT !.touched = TRUE]
    BY DEF Alike
  <2>2. stack[d] \in Frame
    BY <1>1, StackTop
  <2>3. CASE stack'[d] = stack[d]
    BY <2>3
  <2>4. CASE stack[d].kind = "assign" /\ stack'[d] = [stack[d] EXCEPT !.touched = TRUE]
    BY <2>2, <2>4 DEF Frame
  <2>5. QED
    BY <2>1, <2>3, <2>4
<1>3. stack' # <<>> => stack'[1].kind \in {"event", "token"}
  <2>1. stack' # <<>> <=> n # 0
    BY <1>1, EmptySeq DEF Alike
  <2>2. ASSUME m # 0 PROVE stack'[1].kind = stack[1].kind /\ stack # <<>>
    <3>1. 1 \in 1..m
      BY <2>2
    <3>2. stack'[1].kind = stack[1].kind
      BY <1>2, <3>1
    <3>3. Len(stack) # 0
      BY <1>1, <2>2
    <3>4. QED
      BY <3>2, <3>3, StackTop
  <2>3. stack # <<>> => stack[1].kind \in {"event", "token"}
    BY DEF StackOK
  <2>4. QED
    BY <1>1, <2>1, <2>2, <2>3
<1>4. \A d \in Depth' : stack'[d].kind = "assign" /\ d < Len(stack') => stack'[d + 1].kind = "token"
  <2> SUFFICES ASSUME NEW d \in Depth', stack'[d].kind = "assign", d < Len(stack')
               PROVE  stack'[d + 1].kind = "token"
    OBVIOUS
  <2>1. d \in 1..n
    BY <1>1 DEF Depth
  <2>2. CASE d < m
    <3>1. d \in 1..m /\ d + 1 \in 1..m /\ d < Len(stack)
      BY <1>1, <2>1, <2>2
    <3>2. stack'[d + 1].kind = stack[d + 1].kind /\ stack[d].kind = "assign" /\ d \in Depth
      BY <1>1, <1>2, <3>1
    <3>3. \A e \in Depth : stack[e].kind = "assign" /\ e < Len(stack) => stack[e + 1].kind = "token"
      BY DEF StackOK
    <3>4. stack[d + 1].kind = "token"
      BY <3>1, <3>2, <3>3
    <3>5. QED
      BY <3>2, <3>4
  <2>3. QED
    BY <1>1, <2>1, <2>2
<1>5. \A d \in Depth' : FrameOK(d)'
  <2> SUFFICES ASSUME NEW d \in Depth' PROVE FrameOK(d)'
    OBVIOUS
  <2>1. d \in 1..n
    BY <1>1 DEF Depth
  <2>2. CASE d <= m
    <3>1. d \in 1..m /\ d \in Depth
      BY <1>1, <2>1, <2>2
    <3>2. stack[d] \in Frame
      BY <3>1, StackTop
    <3>3. stack[d].list \in Nat /\ stack[d].at \in Nat
      BY <3>2 DEF Frame
    <3>4. FrameOK(d)
      BY <3>1 DEF StackOK, FrameOK
    <3>5. stack[d].list # 0 =>
             /\ stack[d].list <= Len(lists')
             /\ stack[d].at <= Len(lists'[stack[d].list])
      <4> SUFFICES ASSUME stack[d].list # 0
                   PROVE  /\ stack[d].list <= Len(lists')
                          /\ stack[d].at <= Len(lists'[stack[d].list])
        OBVIOUS
      <4> DEFINE l == stack[d].list
      <4>1. l \in 1..Len(lists) /\ stack[d].at <= Len(lists[l])
        BY <3>3, <3>4, ListsAre DEF FrameOK
      <4>2. Len(lists[l]) <= Len(lists'[l]) /\ Len(lists) <= Len(lists')
        BY <4>1 DEF ListsStay
      <4>3. Len(lists[l]) \in Nat /\ Len(lists) \in Nat /\ Len(lists') \in Nat /\ Len(lists'[l]) \in Nat
        <5>1. lists' \in Seq(Seq(Block))
          BY DEF TypeOK
        <5>2. Len(lists') \in Nat /\ l \in 1..Len(lists')
          BY <4>1, <4>2, <5>1, ListsAre, LenProperties
        <5>3. lists'[l] \in Seq(Block)
          BY <5>1, <5>2, ElementOfSeq
        <5>4. QED
          BY <4>1, <5>2, <5>3, ListsAre, LenProperties
      <4>4. QED
        BY <3>3, <4>1, <4>2, <4>3
    <3>6. QED
      BY <1>2, <3>1, <3>4, <3>5 DEF FrameOK
  <2>3. QED
    BY <1>1, <2>1, <2>2
<1>6. QED
  BY <1>3, <1>4, <1>5 DEF StackOK, FrameOK

-------------------------------------------------------------------------------
(* Types, and waking a thread.                                               *)

OpRecord == [pc : {"idle", "queued", "waiting", "put", "get", "add"},
             obj : Obj \cup {NoThread}, block : Nat, list : Nat]

\* Nobody's operation gets further than to its end.
OpsEnd == \A u \in Thread : op'[u] = op[u] \/ (op[u].pc = "waiting" /\ op'[u] = Idle)

LEMMA Facts ==
  /\ Game \in Thread /\ Game # NoThread /\ Game # Stale /\ Stale # NoThread
  /\ NoThread \notin Thread /\ Worker \subseteq Thread /\ Game \notin Worker
  /\ Thread = Worker \cup {Game}
  /\ MaxBlock \in Nat /\ MaxToken \in Nat /\ MaxFrames \in Nat
  /\ Idle \in OpRecord
BY JvmSchedulerAssumption DEF Thread, Idle, OpRecord

\* What TypeOK says of each thread's operation, and of the blocks' tables.
LEMMA Types ==
  ASSUME TypeOK
  PROVE  /\ op \in [Thread -> OpRecord]
         /\ \A t \in Thread : op[t] \in OpRecord /\ op[t].block \in Nat /\ op[t].list \in Nat
         /\ nextBlock \in 1..(MaxBlock + 1) /\ lastToken \in 0..MaxToken
         /\ tokenMap \in [Obj -> 0..Len(lists)] /\ tokenSets \in [0..MaxToken -> 0..Len(lists)]
         /\ ran \in [Block -> 0..2] /\ queuedBy \in [Block -> Worker \cup {NoThread}]
         /\ accepted \subseteq Block /\ delayed \subseteq 0..MaxToken
         /\ scheduled \in Seq([block : Block, waiter : Thread \cup {NoThread}])
<1>1. op \in [Thread -> OpRecord]
  BY DEF TypeOK, OpRecord
<1>2. \A t \in Thread : op[t] \in OpRecord /\ op[t].block \in Nat /\ op[t].list \in Nat
  BY <1>1 DEF OpRecord
<1>3. QED
  BY <1>1, <1>2 DEF TypeOK

LEMMA NotifyIs ==
  ASSUME TypeOK, NEW t \in Thread \cup {NoThread}, Notify(t)
  PROVE  /\ op' \in [Thread -> OpRecord] /\ OpsEnd
         /\ \A u \in Thread : op'[u] # op[u] => u = t
         /\ t \in Thread /\ op[t].pc = "waiting" => op'[t] = Idle
<1>1. op \in [Thread -> OpRecord] /\ Idle \in OpRecord /\ NoThread \notin Thread
  BY Types, Facts
<1> HIDE DEF OpRecord, Idle
<1>2. op' = IF t # NoThread /\ op[t].pc = "waiting" THEN [op EXCEPT ![t] = Idle] ELSE op
  BY DEF Notify
<1>3. CASE t # NoThread /\ op[t].pc = "waiting"
  <2>1. t \in Thread /\ op' = [op EXCEPT ![t] = Idle]
    BY <1>2, <1>3
  <2>2. op'[t] = Idle /\ \A u \in Thread : u # t => op'[u] = op[u]
    BY <1>1, <2>1
  <2>3. op' \in [Thread -> OpRecord]
    BY <1>1, <2>1
  <2>4. OpsEnd
    <3>1. \A u \in Thread : op'[u] = op[u] \/ (op[u].pc = "waiting" /\ op'[u] = Idle)
      BY <1>3, <2>2
    <3>2. QED
      BY <3>1 DEF OpsEnd
  <2>5. QED
    BY <2>1, <2>2, <2>3, <2>4
<1>4. CASE ~(t # NoThread /\ op[t].pc = "waiting")
  <2>1. op' = op
    BY <1>2, <1>4
  <2>2. t \in Thread => t # NoThread
    BY <1>1
  <2>3. OpsEnd
    BY <2>1 DEF OpsEnd
  <2>4. ~(t \in Thread /\ op[t].pc = "waiting")
    BY <1>4, <2>2
  <2>5. QED
    BY <1>1, <2>1, <2>3, <2>4
<1>5. QED
  BY <1>3, <1>4

LEMMA OpsStay ==
  ASSUME TypeOK, TypeOK', OpOK, OpsEnd, nextBlock <= nextBlock', Len(lists) <= Len(lists'),
         UNCHANGED habit
  PROVE  OpOK'
<1>1. \A t \in Thread : op[t].block \in Nat /\ op[t].list \in Nat
  BY Types
<1>2. nextBlock \in Nat /\ nextBlock' \in Nat /\ nextBlock >= 1
  BY Facts DEF TypeOK
<1>3. Len(lists) \in Nat /\ Len(lists') \in Nat
  <2>1. lists' \in Seq(Seq(Block))
    BY DEF TypeOK
  <2>2. QED
    BY <2>1, ListsAre, LenProperties
<1> SUFFICES ASSUME NEW t \in Thread
             PROVE  /\ op'[t].block < nextBlock'
                    /\ op'[t].pc # "idle" => op'[t].block >= 1
                    /\ Pending(t)' => op'[t].obj \in Obj /\ t \in habit'.assigner
                    /\ op'[t].pc = "add" => op'[t].list \in 1..Len(lists')
  BY DEF OpOK
<1>4. CASE op'[t] = op[t]
  BY <1>1, <1>2, <1>3, <1>4 DEF OpOK, Pending
<1>5. CASE op'[t] = Idle
  BY <1>2, <1>5 DEF Idle, Pending
<1>6. QED
  BY <1>4, <1>5 DEF OpsEnd

\* The game's thread is between two calls whenever its stack changes.
LEMMA GameIsIdle ==
  ASSUME Sane, ~OnTop("code") \/ CodeRuns
  PROVE  op[Game].pc = "idle"
BY DEF Sane, StackOK, CodeRuns

LEMMA ListsUnchanged == TypeOK /\ UNCHANGED lists => ListsStay
BY ListsAre DEF ListsStay

\* What else a step does to the scheduler: the threads' operations may end.
Besides ==
  /\ TypeOK' /\ ListsStay /\ nextBlock <= nextBlock' /\ UNCHANGED habit
  /\ OpsEnd /\ op[Game].pc = "idle"

LEMMA BesidesIs ==
  ASSUME TypeOK, TypeOK', OpsEnd, op[Game].pc = "idle", UNCHANGED <<lists, nextBlock, habit>>
  PROVE  Besides
<1>1. nextBlock \in 1..(MaxBlock + 1)
  BY DEF TypeOK
<1>2. nextBlock <= nextBlock'
  BY <1>1, Facts
<1>3. QED
  BY <1>2, ListsUnchanged DEF Besides

LEMMA BesidesSame ==
  ASSUME TypeOK, TypeOK', op[Game].pc = "idle", UNCHANGED <<op, lists, nextBlock, habit>>
  PROVE  Besides
<1>1. OpsEnd
  BY DEF OpsEnd
<1>2. QED
  BY <1>1, BesidesIs

LEMMA SaneWhen ==
  ASSUME Sane, Besides,
         NEW m \in Nat, NEW n \in Nat, Alike(m, n),
         \A d \in (m + 1)..n : FrameOK(d)',
         m = 0 /\ n > 0 => stack'[1].kind \in {"event", "token"},
         \A d \in 1..n : d >= m /\ d < n /\ stack'[d].kind = "assign" => stack'[d + 1].kind = "token"
  PROVE  Sane'
<1>1. op'[Game].pc = "idle"
  BY Facts DEF Besides, OpsEnd, Idle
<1>2. TypeOK /\ StackOK /\ OpOK /\ TypeOK' /\ ListsStay
  BY DEF Sane, Besides
<1>3. StackOK'
  BY <1>1, <1>2, FramesStay
<1>4. OpOK'
  BY <1>2, OpsStay DEF Besides, ListsStay
<1>5. QED
  BY <1>2, <1>3, <1>4 DEF Sane

\* Frames are taken away.
LEMMA SaneCut ==
  ASSUME Sane, Besides, NEW m \in Nat, Keeps(m, m)
  PROVE  Sane'
<1>1. \A d \in (m + 1)..m : FALSE
  OBVIOUS
<1>2. \A d \in 1..m : ~(d >= m /\ d < m)
  OBVIOUS
<1>3. QED
  BY <1>1, <1>2, SaneWhen, KeepsAlike

\* A frame is pushed.
LEMMA SanePush ==
  ASSUME Sane, Besides, NEW m \in Nat, m = Len(stack), Keeps(m, m + 1),
         FrameOK(m + 1)',
         stack = <<>> => stack'[m + 1].kind \in {"event", "token"},
         OnTop("assign") => stack'[m + 1].kind = "token"
  PROVE  Sane'
<1>1. \A d \in (m + 1)..(m + 1) : d = m + 1
  OBVIOUS
<1>2. \A d \in 1..(m + 1) : d >= m /\ d < m + 1 => d = m
  OBVIOUS
<1>3. stack = <<>> <=> m = 0
  BY StackTop DEF Sane
<1>4. m # 0 => stack'[m] = Top
  BY <1>3, StackTop DEF Sane, Keeps, Depth
<1>5. \A d \in 1..(m + 1) : d >= m /\ d < m + 1 /\ stack'[d].kind = "assign" =>
        stack'[d + 1].kind = "token"
  BY <1>2, <1>3, <1>4 DEF OnTop
<1>6. m = 0 => stack'[1].kind \in {"event", "token"}
  BY <1>3
<1>7. m + 1 \in Nat /\ \A d \in (m + 1)..(m + 1) : FrameOK(d)'
  BY <1>1
<1>8. QED
  BY <1>5, <1>6, <1>7, SaneWhen, KeepsAlike

\* Two frames are pushed.
LEMMA SanePushTwo ==
  ASSUME Sane, Besides, NEW m \in Nat, m = Len(stack), Keeps(m, m + 2),
         FrameOK(m + 1)', FrameOK(m + 2)',
         stack'[m + 1].kind \in {"event", "token"}, ~OnTop("assign")
  PROVE  Sane'
<1>1. \A d \in (m + 1)..(m + 2) : d = m + 1 \/ d = m + 2
  OBVIOUS
<1>2. \A d \in 1..(m + 2) : d >= m /\ d < m + 2 => d = m \/ d = m + 1
  OBVIOUS
<1>3. stack = <<>> <=> m = 0
  BY StackTop DEF Sane
<1>4. m # 0 => stack'[m] = Top
  BY <1>3, StackTop DEF Sane, Keeps, Depth
<1>5. \A d \in 1..(m + 2) : d >= m /\ d < m + 2 => stack'[d].kind # "assign"
  BY <1>2, <1>3, <1>4 DEF OnTop
<1>6. m = 0 => stack'[1].kind \in {"event", "token"}
  BY <1>3
<1>7. m + 2 \in Nat /\ \A d \in (m + 1)..(m + 2) : FrameOK(d)'
  BY <1>1
<1>8. QED
  BY <1>5, <1>6, <1>7, SaneWhen, KeepsAlike

\* The top frame changes but for its kind, and another one is pushed.
LEMMA SaneReplace ==
  ASSUME Sane, Besides, NEW m \in Nat, m + 1 = Len(stack), Keeps(m, m + 2),
         FrameOK(m + 1)', FrameOK(m + 2)',
         stack'[m + 1].kind = Top.kind,
         OnTop("assign") => stack'[m + 2].kind = "token"
  PROVE  Sane'
<1>1. \A d \in (m + 1)..(m + 2) : d = m + 1 \/ d = m + 2
  OBVIOUS
<1>2. \A d \in 1..(m + 2) : d >= m /\ d < m + 2 => d = m \/ d = m + 1
  OBVIOUS
<1>3. stack # <<>> /\ Top = stack[m + 1] /\ m + 1 \in Depth /\ StackOK
  BY StackTop DEF Sane
<1>4. m # 0 => m \in Depth /\ m < Len(stack) /\ stack'[m] = stack[m]
  BY DEF Keeps, Depth
<1>5. m # 0 /\ stack'[m].kind = "assign" => stack'[m + 1].kind = "token"
  <2> SUFFICES ASSUME m # 0, stack'[m].kind = "assign" PROVE stack'[m + 1].kind = "token"
    OBVIOUS
  <2>1. \A e \in Depth : stack[e].kind = "assign" /\ e < Len(stack) => stack[e + 1].kind = "token"
    BY <1>3 DEF StackOK
  <2>2. stack[m + 1].kind = "token"
    BY <1>4, <2>1
  <2>3. QED
    BY <1>3, <2>2
<1>6. stack'[m + 1].kind = "assign" => stack'[m + 2].kind = "token"
  BY <1>3 DEF OnTop
<1>7. \A d \in 1..(m + 2) : d >= m /\ d < m + 2 /\ stack'[d].kind = "assign" =>
        stack'[d + 1].kind = "token"
  BY <1>2, <1>5, <1>6
<1>8. m = 0 => stack'[1].kind \in {"event", "token"}
  BY <1>3 DEF StackOK
<1>9. m + 2 \in Nat /\ \A d \in (m + 1)..(m + 2) : FrameOK(d)'
  BY <1>1
<1>10. QED
  BY <1>7, <1>8, <1>9, SaneWhen, KeepsAlike

-------------------------------------------------------------------------------
(* The actions keep Sane: events, tokens, exceptions.                        *)

LEMMA SaneEvent ==
  ASSUME Sane, Event
  PROVE  Sane'
<1>1. TypeOK /\ Len(stack) \in Nat /\ op[Game].pc = "idle"
  <2>1. ~OnTop("code") \/ CodeRuns
    BY DEF Event, OnTop
  <2>2. QED
    BY <2>1, GameIsIdle, StackTop DEF Sane
<1> PICK m \in Nat : m = Len(stack)
  BY <1>1
<1>2. /\ Keeps(m, m + 2)
      /\ stack'[m + 1] = FrameOf("event")
      /\ stack'[m + 2] = Code(NoThread)
  BY <1>1, EventFrames
<1>3. /\ contextThread' = Game
      /\ UNCHANGED <<tokenMap, tokenSets, lastToken, scheduled, lists, delayed, op, ran, missed,
                     habit, nextBlock, accepted, queuedBy>>
  BY DEF Event, history
<1>4. stack' # <<>> /\ stack' \in Seq(Frame)
  BY <1>2, StackIsSeq
<1>5. TypeOK'
  BY <1>1, <1>3, <1>4 DEF TypeOK
<1>6. Besides
  BY <1>1, <1>3, <1>5, BesidesSame
<1>7. FrameOK(m + 1)' /\ FrameOK(m + 2)'
  <2>1. FrameOK(m + 1)'
    BY <1>2 DEF FrameOK, FrameOf
  <2>2. FrameOK(m + 2)'
    <3>1. NoThread \in Thread \cup {NoThread}
      OBVIOUS
    <3>2. stack'[m + 2] = Code(NoThread)
      BY <1>2
    <3>3. QED
      BY <3>1, <3>2, CodeFrameOK
  <2>3. QED
    BY <2>1, <2>2
<1>8. ~OnTop("assign") /\ stack'[m + 1].kind = "event"
  BY <1>2 DEF Event, CodeRuns, OnTop, FrameOf
<1>9. QED
  BY <1>1, <1>2, <1>6, <1>7, <1>8, SanePushTwo

\* The stack loses a frame.
LEMMA SanePop ==
  ASSUME Sane, Besides, stack # <<>>, stack' = Below
  PROVE  Sane'
<1>1. Len(stack) - 1 \in Nat /\ Keeps(Len(stack) - 1, Len(stack) - 1)
  BY PopFrames, StackTop DEF Sane
<1>2. PICK m \in Nat : m = Len(stack) - 1
  BY <1>1
<1>3. QED
  BY <1>1, <1>2, SaneCut

LEMMA LeaveIs ==
  ASSUME NEW s, NEW c, Leave(s, c), c \in {Game, Stale, NoThread}
  PROVE  /\ stack' = s
         /\ contextThread' \in IF stack' = <<>> THEN {Stale, NoThread} ELSE {Game, Stale, NoThread}
BY Facts DEF Leave

LEMMA SaneEventEnds ==
  ASSUME Sane, EventEnds
  PROVE  Sane'
<1>1. TypeOK /\ stack # <<>> /\ op[Game].pc = "idle"
  <2>1. ~OnTop("code") \/ CodeRuns
    BY DEF EventEnds, OnTop
  <2>2. QED
    BY <2>1, GameIsIdle DEF EventEnds, OnTop, Sane
<1>2. /\ UNCHANGED <<tokenMap, tokenSets, lastToken, scheduled, lists, delayed, op, ran, missed,
                     habit, nextBlock, accepted, queuedBy>>
      /\ Leave(Below, NoThread)
  BY DEF EventEnds, history
<1>3. /\ stack' = Below
      /\ contextThread' \in IF stack' = <<>> THEN {Stale, NoThread} ELSE {Game, Stale, NoThread}
  BY <1>2, LeaveIs
<1>4. TypeOK'
  BY <1>1, <1>2, <1>3, BelowIs DEF TypeOK
<1>5. Besides
  BY <1>1, <1>2, <1>4, BesidesSame
<1>6. QED
  BY <1>1, <1>3, <1>5, SanePop

\* The context at the start of a token.
LEMMA TokenIs ==
  ASSUME Sane, NEW base, NEW sets \in [0..MaxToken -> Nat], NEW ls \in Seq(Seq(Block)),
         NEW k \in 0..MaxToken, sets[k] \in 0..Len(ls), Token(base, sets, ls, k)
  PROVE  /\ contextThread' \in {Game, NoThread}
         /\ tokenSets' = [sets EXCEPT ![k] = 0]
         /\ missed' \in BOOLEAN
         /\ stack' = Append(base, TokenFrame(sets, ls, k))
BY DEF Token, TokenFrame, Sane, TypeOK

LEMMA TokenFrameHere ==
  ASSUME TypeOK, NEW k \in 0..MaxToken
  PROVE  /\ TokenFrame(tokenSets, lists, k) \in Frame
         /\ TokenFrame(tokenSets, lists, k).kind = "token"
         /\ TokenFrame(tokenSets, lists, k).list = tokenSets[k]
         /\ TokenFrame(tokenSets, lists, k).at = 0
         /\ TokenFrame(tokenSets, lists, k).todo = {}
         /\ TokenFrame(tokenSets, lists, k).touched = FALSE
         /\ TokenFrame(tokenSets, lists, k).waiter = NoThread
         /\ tokenSets[k] # 0 => TokenFrame(tokenSets, lists, k).size = Len(lists[tokenSets[k]])
<1>1. tokenSets \in [0..MaxToken -> Nat] /\ lists \in Seq(Seq(Block))
  BY ListsAre, Types
<1>2. tokenSets[k] \in 0..Len(lists)
  BY Types
<1>3. tokenSets \in [0..MaxToken -> Nat]
  BY <1>1
<1>4. lists \in Seq(Seq(Block))
  BY <1>1
<1>5. QED
  BY <1>2, <1>3, <1>4, TokenFrameIs, ZenonT(60)

LEMMA SaneDelayIsOver ==
  ASSUME Sane, NEW k \in delayed, DelayIsOver(k)
  PROVE  Sane'
<1>1. TypeOK /\ stack = <<>> /\ Len(stack) = 0 /\ op[Game].pc = "idle"
  <2>1. ~OnTop("code") \/ CodeRuns
    BY DEF DelayIsOver, OnTop
  <2>2. QED
    BY <2>1, GameIsIdle, StackTop DEF DelayIsOver, Sane
<1>2. /\ UNCHANGED <<tokenMap, lastToken, scheduled, lists, op, ran,
                     habit, nextBlock, accepted, queuedBy>>
      /\ delayed' = delayed \ {k}
      /\ Token(stack, tokenSets, lists, k)
  BY DEF DelayIsOver, history
<1>3. /\ k \in 0..MaxToken /\ tokenSets \in [0..MaxToken -> Nat] /\ lists \in Seq(Seq(Block))
      /\ tokenSets[k] \in 0..Len(lists) /\ Len(lists) \in Nat
      /\ tokenSets \in [0..MaxToken -> 0..Len(lists)]
  BY <1>1, ListsAre, Types
<1> DEFINE f == TokenFrame(tokenSets, lists, k)
<1>4. /\ contextThread' \in {Game, NoThread} /\ missed' \in BOOLEAN
      /\ tokenSets' = [tokenSets EXCEPT ![k] = 0]
      /\ stack' = Append(stack, f)
  BY <1>2, <1>3, TokenIs
<1>5. /\ f \in Frame /\ f.kind = "token" /\ f.list = tokenSets[k] /\ f.at = 0
      /\ f.todo = {} /\ f.touched = FALSE /\ f.waiter = NoThread
  BY <1>1, <1>3, TokenFrameHere
<1> HIDE DEF f, Frame
<1> PICK m \in Nat : m = Len(stack)
  BY <1>1
<1>6. Keeps(m, m + 1) /\ stack'[m + 1] = f
  BY <1>1, <1>4, <1>5, PushFrames
<1>7. stack' # <<>> /\ stack' \in Seq(Frame)
  BY <1>6, StackIsSeq
<1>8. tokenSets' \in [0..MaxToken -> 0..Len(lists)]
  BY <1>3, <1>4
<1>9. TypeOK'
  BY <1>1, <1>2, <1>4, <1>7, <1>8 DEF TypeOK
<1>10. Besides
  BY <1>1, <1>2, <1>9, BesidesSame
<1>11. FrameOK(m + 1)'
  <2>1. f.list # 0 => f.list <= Len(lists) /\ 0 <= Len(lists[f.list])
    BY <1>1, <1>3, <1>5, ListsAre
  <2>2. QED
    BY <1>2, <1>5, <1>6, <2>1 DEF FrameOK
<1>12. QED
  BY <1>1, <1>5, <1>6, <1>10, <1>11, SanePush DEF OnTop

LEMMA SaneRaise ==
  ASSUME Sane, stack # <<>>, Raise, op[Game].pc = "idle", ran' \in [Block -> 0..2],
         UNCHANGED <<tokenMap, tokenSets, lastToken, scheduled, lists, delayed, missed, history>>
  PROVE  Sane'
<1>1. TypeOK /\ StackOK /\ Len(stack) \in Nat
  BY StackTop DEF Sane
<1>2. PICK d \in Depth, n \in 0..Len(stack) :
         /\ stack' \in Seq(Frame) /\ Len(stack') = n
         /\ \A e \in 1..n : stack'[e] = stack[e]
         /\ Notify(stack[d].waiter)
         /\ contextThread' = IF n = 0 /\ contextThread = Game THEN Stale ELSE contextThread
  BY <1>1, RaiseIs
<1>3. n \in Nat /\ Keeps(n, n) /\ (stack' = <<>> <=> n = 0)
  BY <1>1, <1>2, EmptySeq DEF Keeps
<1>4. stack[d].waiter \in Thread \cup {NoThread}
  <2>1. stack[d] \in Frame
    BY <1>1, StackTop
  <2>2. QED
    BY <2>1 DEF Frame
<1>5. op' \in [Thread -> OpRecord] /\ OpsEnd
  BY <1>1, <1>2, <1>4, NotifyIs
<1>6. contextThread' \in IF stack' = <<>> THEN {Stale, NoThread} ELSE {Game, Stale, NoThread}
  BY <1>1, <1>2, <1>3, Facts DEF TypeOK
<1>7. TypeOK'
  BY <1>1, <1>2, <1>5, <1>6 DEF TypeOK, OpRecord, history
<1>8. Besides
  BY <1>1, <1>5, <1>7, BesidesIs DEF history
<1>9. QED
  BY <1>3, <1>8, SaneCut

LEMMA Starting ==
  ASSUME TypeOK, NEW b \in Block, Started(b)
  PROVE  /\ ran' \in [Block -> 0..2] /\ ran'[b] = (IF ran[b] < 2 THEN ran[b] + 1 ELSE 2)
         /\ ran'[b] > 0 /\ \A c \in Block : c # b => ran'[c] = ran[c]
         /\ \A c \in Block : ran[c] > 0 => ran'[c] > 0
<1>1. ran \in [Block -> 0..2] /\ \A c \in Block : ran[c] \in 0..2
  BY Types
<1>2. ran' = [ran EXCEPT ![b] = IF @ < 2 THEN @ + 1 ELSE 2]
  BY DEF Started
<1>3. (IF ran[b] < 2 THEN ran[b] + 1 ELSE 2) \in 0..2
  BY <1>1
<1>4. ran' \in [Block -> 0..2]
  BY <1>1, <1>2, <1>3
<1>5. ran'[b] = (IF ran[b] < 2 THEN ran[b] + 1 ELSE 2) /\ \A c \in Block : c # b => ran'[c] = ran[c]
  BY <1>1, <1>2
<1>6. QED
  BY <1>1, <1>4, <1>5

\* What TokenNext does.
RunsOne ==
  /\ Top.at < Len(lists[Top.list]) /\ Len(lists[Top.list]) = Top.size
  /\ Started(lists[Top.list][Top.at + 1])
  /\ stack' = Below \o <<[Top EXCEPT !.at = @ + 1], Code(NoThread)>>
  /\ UNCHANGED <<contextThread, op>>

LEMMA TokenNextIs ==
  ASSUME TypeOK, StackOK, TokenNext
  PROVE  /\ OnTop("token") /\ Top \in Frame /\ Top.at \in Nat /\ Top.list \in Nat
         /\ UNCHANGED <<tokenMap, tokenSets, lastToken, scheduled, lists, delayed, missed, history>>
         /\ \/ /\ Top.list \in 1..Len(lists) /\ RunsOne
               /\ Top.at + 1 \in 1..Len(lists[Top.list])
               /\ lists[Top.list][Top.at + 1] \in Block
            \/ Top.list # 0 /\ Len(lists[Top.list]) # Top.size /\ Raise /\ UNCHANGED ran
            \/ /\ Top.list # 0 => Top.at = Len(lists[Top.list])
               /\ Leave(Below, IF Top.unset THEN NoThread ELSE contextThread)
               /\ UNCHANGED <<op, ran>>
<1>1. /\ OnTop("token") /\ stack # <<>> /\ Top \in Frame /\ Top = stack[Len(stack)]
      /\ Len(stack) \in Depth
  BY StackTop DEF TokenNext, OnTop
<1>2. Top.at \in Nat /\ Top.list \in Nat
  BY <1>1 DEF Frame
<1>3. /\ Top.list = 0 => Top.at = 0
      /\ Top.list # 0 => Top.list <= Len(lists) /\ Top.at <= Len(lists[Top.list])
  BY <1>1 DEF StackOK
<1> DEFINE length == IF Top.list = 0 THEN 0 ELSE Len(lists[Top.list])
<1>4. UNCHANGED <<tokenMap, tokenSets, lastToken, scheduled, lists, delayed, missed, history>>
  BY DEF TokenNext
<1>5. \/ /\ Top.at < length /\ length = Top.size
         /\ Started(lists[Top.list][Top.at + 1])
         /\ stack' = Below \o <<[Top EXCEPT !.at = @ + 1], Code(NoThread)>>
         /\ UNCHANGED <<contextThread, op>>
      \/ Top.at < length /\ length # Top.size /\ Raise /\ UNCHANGED ran
      \/ /\ Top.at = length
         /\ Leave(Below, IF Top.unset THEN NoThread ELSE contextThread)
         /\ UNCHANGED <<op, ran>>
  BY DEF TokenNext
<1>6. ASSUME Top.at < length PROVE Top.list \in 1..Len(lists) /\ length = Len(lists[Top.list])
  BY <1>2, <1>3, <1>6, ListsAre
<1>7. ASSUME Top.at < length
      PROVE  Top.at + 1 \in 1..Len(lists[Top.list]) /\ lists[Top.list][Top.at + 1] \in Block
  <2>1. Top.list \in 1..Len(lists) /\ length = Len(lists[Top.list])
    BY <1>6, <1>7
  <2>2. lists[Top.list] \in Seq(Block) /\ Len(lists[Top.list]) \in Nat
    BY <2>1, ListsAre
  <2>3. Top.at + 1 \in 1..Len(lists[Top.list])
    BY <1>2, <1>7, <2>1, <2>2
  <2>4. QED
    BY <2>2, <2>3, ElementOfSeq
<1>8. CASE /\ Top.at < length /\ length = Top.size
           /\ Started(lists[Top.list][Top.at + 1])
           /\ stack' = Below \o <<[Top EXCEPT !.at = @ + 1], Code(NoThread)>>
           /\ UNCHANGED <<contextThread, op>>
  BY <1>1, <1>2, <1>4, <1>6, <1>7, <1>8 DEF RunsOne
<1>9. CASE Top.at < length /\ length # Top.size /\ Raise /\ UNCHANGED ran
  BY <1>1, <1>2, <1>4, <1>6, <1>9, ListsAre
<1>10. CASE /\ Top.at = length
            /\ Leave(Below, IF Top.unset THEN NoThread ELSE contextThread)
            /\ UNCHANGED <<op, ran>>
  BY <1>1, <1>2, <1>4, <1>10
<1>11. QED
  BY <1>5, <1>8, <1>9, <1>10

LEMMA RunsOneFrames ==
  ASSUME TypeOK, OnTop("token"), Top \in Frame, Top.at \in Nat, RunsOne,
         NEW m \in Nat, m + 1 = Len(stack)
  PROVE  /\ Keeps(m, m + 2)
         /\ stack'[m + 1] = [Top EXCEPT !.at = Top.at + 1]
         /\ stack'[m + 2] = Code(NoThread)
<1>1. stack # <<>> /\ NoThread \in Thread \cup {NoThread}
  BY DEF OnTop
<1> DEFINE f == [Top EXCEPT !.at = Top.at + 1]
<1>2. f \in Frame
  BY DEF Frame
<1>3. Code(NoThread) \in Frame
  BY <1>1, CodeIs
<1>4. stack' = Below \o <<f, Code(NoThread)>>
  BY DEF RunsOne
<1> HIDE DEF f, Frame
<1>5. /\ Keeps(Len(stack) - 1, Len(stack) + 1)
      /\ stack'[Len(stack)] = f /\ stack'[Len(stack) + 1] = Code(NoThread)
  BY <1>1, <1>2, <1>3, <1>4, ReplaceFrames
<1>6. Len(stack) - 1 = m /\ Len(stack) + 1 = m + 2
  BY StackTop
<1>7. QED
  BY <1>5, <1>6 DEF f

LEMMA SaneTokenNext ==
  ASSUME Sane, TokenNext
  PROVE  Sane'
<1>1. TypeOK /\ StackOK /\ Len(stack) \in Nat
  BY StackTop DEF Sane
<1>2. /\ OnTop("token") /\ Top \in Frame /\ Top.at \in Nat /\ Top.list \in Nat
      /\ UNCHANGED <<tokenMap, tokenSets, lastToken, scheduled, lists, delayed, missed, history>>
  BY <1>1, TokenNextIs
<1>3. stack # <<>> /\ op[Game].pc = "idle"
  BY <1>2, GameIsIdle DEF OnTop
<1>4. ASSUME Top.list \in 1..Len(lists), RunsOne,
             Top.at + 1 \in 1..Len(lists[Top.list]),
             lists[Top.list][Top.at + 1] \in Block
      PROVE  Sane'
  <2> PICK m \in Nat : m + 1 = Len(stack)
    <3>1. Len(stack) - 1 \in Nat /\ (Len(stack) - 1) + 1 = Len(stack)
      BY <1>1, <1>3, StackTop
    <3>2. QED
      BY <3>1
  <2>1. /\ Keeps(m, m + 2)
        /\ stack'[m + 1] = [Top EXCEPT !.at = Top.at + 1]
        /\ stack'[m + 2] = Code(NoThread)
    BY <1>1, <1>2, <1>4, RunsOneFrames
  <2>2. UNCHANGED <<contextThread, op>> /\ ran' \in [Block -> 0..2]
    <3>1. Started(lists[Top.list][Top.at + 1])
      BY <1>4 DEF RunsOne
    <3>2. QED
      BY <1>1, <1>4, <3>1, Starting DEF RunsOne
  <2>3. stack' # <<>> /\ stack' \in Seq(Frame)
    BY <2>1, StackIsSeq
  <2>4. TypeOK'
    BY <1>1, <1>2, <1>3, <2>2, <2>3 DEF TypeOK, history
  <2>5. Besides
    BY <1>1, <1>2, <1>3, <2>2, <2>4, BesidesSame DEF history
  <2>6. FrameOK(m + 1)'
    <3>1. Top = stack[m + 1] /\ m + 1 \in Depth
      BY <1>1, <1>3, StackTop
    <3>2. FrameOK(m + 1)
      BY <1>1, <3>1 DEF StackOK, FrameOK
    <3>3. /\ stack'[m + 1].waiter = Top.waiter /\ stack'[m + 1].todo = Top.todo
          /\ stack'[m + 1].touched = Top.touched /\ stack'[m + 1].list = Top.list
          /\ stack'[m + 1].kind = Top.kind /\ stack'[m + 1].at = Top.at + 1
      BY <1>2, <2>1 DEF Frame
    <3>4. UNCHANGED lists /\ Top.at + 1 <= Len(lists[Top.list])
      BY <1>1, <1>2, <1>4, ListsAre
    <3>5. QED
      BY <1>4, <3>1, <3>2, <3>3, <3>4 DEF FrameOK
  <2>7. FrameOK(m + 2)'
    <3>1. NoThread \in Thread \cup {NoThread}
      OBVIOUS
    <3>2. stack'[m + 2] = Code(NoThread)
      BY <2>1
    <3>3. QED
      BY <3>1, <3>2, CodeFrameOK
  <2>8. stack'[m + 1].kind = Top.kind /\ ~OnTop("assign")
    BY <1>2, <2>1 DEF Frame, OnTop
  <2>9. QED
    BY <2>1, <2>5, <2>6, <2>7, <2>8, SaneReplace
<1>5. ASSUME Raise, UNCHANGED ran PROVE Sane'
  BY <1>1, <1>2, <1>3, <1>5, SaneRaise, Types
<1>6. ASSUME Leave(Below, IF Top.unset THEN NoThread ELSE contextThread), UNCHANGED <<op, ran>>
      PROVE  Sane'
  <2>1. (IF Top.unset THEN NoThread ELSE contextThread) \in {Game, Stale, NoThread}
    BY <1>1 DEF TypeOK
  <2>2. /\ stack' = Below
        /\ contextThread' \in IF stack' = <<>> THEN {Stale, NoThread} ELSE {Game, Stale, NoThread}
    BY <1>6, <2>1, LeaveIs
  <2>3. TypeOK'
    BY <1>1, <1>2, <1>3, <1>6, <2>2, BelowIs DEF TypeOK, history
  <2>4. Besides
    BY <1>1, <1>2, <1>3, <1>6, <2>3, BesidesSame DEF history
  <2>5. QED
    BY <1>3, <2>2, <2>4, SanePop
<1>7. QED
  BY <1>1, <1>4, <1>5, <1>6, TokenNextIs

LEMMA TypesStay ==
  ASSUME TypeOK, stack' \in Seq(Frame), op' \in [Thread -> OpRecord], ran' \in [Block -> 0..2],
         contextThread' \in IF stack' = <<>> THEN {Stale, NoThread} ELSE {Game, Stale, NoThread},
         UNCHANGED <<tokenMap, tokenSets, lastToken, scheduled, lists, delayed, missed, habit,
                     nextBlock, accepted, queuedBy>>
  PROVE  TypeOK'
BY DEF TypeOK, OpRecord

LEMMA SaneCodeReturns ==
  ASSUME Sane, CodeReturns
  PROVE  Sane'
<1>1. TypeOK /\ stack # <<>> /\ op[Game].pc = "idle" /\ Top \in Frame /\ Top = stack[Len(stack)]
  BY StackTop DEF Sane, CodeReturns, CodeRuns, OnTop
<1>2. /\ stack' = Below /\ Notify(Top.waiter)
      /\ UNCHANGED <<contextThread, tokenMap, tokenSets, lastToken, scheduled, lists, delayed,
                     ran, missed, habit, nextBlock, accepted, queuedBy>>
  BY DEF CodeReturns, history
<1>3. op' \in [Thread -> OpRecord] /\ OpsEnd
  <2>1. Top.waiter \in Thread \cup {NoThread}
    BY <1>1 DEF Frame
  <2>2. QED
    BY <1>1, <1>2, <2>1, NotifyIs
<1>4. stack' # <<>>
  <2>1. Len(stack) \in Nat /\ Len(stack) >= 1 /\ stack[1].kind # "code" /\ Top.kind = "code"
    BY <1>1, StackTop DEF Sane, StackOK, CodeReturns, CodeRuns, OnTop
  <2>2. Len(stack) # 1
    BY <1>1, <2>1
  <2>3. Below # <<>>
    BY <1>1, <2>1, <2>2, BelowIs, EmptySeq
  <2>4. QED
    BY <1>2, <2>3
<1>5. TypeOK'
  <2>1. stack' \in Seq(Frame)
    BY <1>1, <1>2, BelowIs
  <2>2. contextThread' \in {Game, Stale, NoThread}
    BY <1>1, <1>2 DEF TypeOK
  <2>3. contextThread' \in IF stack' = <<>> THEN {Stale, NoThread} ELSE {Game, Stale, NoThread}
    BY <1>4, <2>2
  <2>4. ran' \in [Block -> 0..2]
    BY <1>1, <1>2, Types
  <2>5. QED
    BY <1>1, <1>2, <1>3, <2>1, <2>3, <2>4, TypesStay
<1>6. Besides
  BY <1>1, <1>2, <1>3, <1>5, BesidesIs
<1>7. QED
  BY <1>1, <1>2, <1>6, SanePop

LEMMA SaneCodeThrows ==
  ASSUME Sane, CodeThrows
  PROVE  Sane'
<1>1. /\ stack # <<>> /\ op[Game].pc = "idle" /\ Raise /\ UNCHANGED ran
      /\ UNCHANGED <<tokenMap, tokenSets, lastToken, scheduled, lists, delayed, missed, history>>
  BY DEF CodeThrows, CodeRuns, OnTop
<1>2. QED
  BY <1>1, SaneRaise, Types DEF Sane

-------------------------------------------------------------------------------
(* The actions keep Sane: schedule, scheduleWait and assign.                 *)

Entry == [block : Block, waiter : Thread \cup {NoThread}]

LEMMA SaneStill ==
  ASSUME Sane, TypeOK', ListsStay, UNCHANGED stack, OpOK',
         op'[Game].pc # "idle" => OnTop("code")
  PROVE  Sane'
<1>1. TypeOK /\ StackOK /\ stack \in Seq(Frame) /\ Len(stack) \in Nat
  BY StackTop DEF Sane
<1>2. PICK m \in Nat : m = Len(stack)
  BY <1>1
<1>3. Keeps(m, m)
  BY <1>1, <1>2 DEF Keeps
<1>4. \A d \in (m + 1)..m : FALSE
  OBVIOUS
<1>5. \A d \in 1..m : ~(d >= m /\ d < m)
  OBVIOUS
<1>6. op'[Game].pc # "idle" => OnTop("code")'
  BY DEF OnTop, Top
<1>7. StackOK'
  BY <1>1, <1>3, <1>4, <1>5, <1>6, FramesStay, KeepsAlike
<1>8. QED
  BY <1>7 DEF Sane

LEMMA EnqueueIs ==
  ASSUME TypeOK, NEW b \in Block, NEW w \in Thread \cup {NoThread}, Enqueue(b, w)
  PROVE  /\ scheduled' \in Seq(Entry) /\ Len(scheduled') = Len(scheduled) + 1
         /\ Len(scheduled) \in Nat
         /\ \A i \in 1..Len(scheduled) : scheduled'[i] = scheduled[i]
         /\ scheduled'[Len(scheduled) + 1] = [block |-> b, waiter |-> w]
<1> DEFINE e == [block |-> b, waiter |-> w]
<1>1. e \in Entry /\ scheduled \in Seq(Entry) /\ scheduled' = Append(scheduled, e)
  BY Types DEF Enqueue, Entry
<1> HIDE DEF Entry, e
<1>2. QED
  BY <1>1, Pushed, LenProperties DEF e

LEMMA NewBlockIs ==
  ASSUME TypeOK, NEW b \in Block, IsNew(b), NEW w \in Worker \cup {NoThread}, NewBlock(b, w)
  PROVE  /\ b = nextBlock /\ nextBlock' = b + 1 /\ UNCHANGED habit
         /\ b \in Nat /\ nextBlock' \in 1..(MaxBlock + 1)
         /\ accepted' = accepted \cup {b} /\ accepted' \subseteq Block
         /\ queuedBy' = [queuedBy EXCEPT ![b] = w]
         /\ queuedBy' \in [Block -> Worker \cup {NoThread}]
BY Types, Facts DEF NewBlock, IsNew, Block

LEMMA CallerIs ==
  ASSUME Sane, NEW t \in Thread, CanCall(t)
  PROVE  op[t].pc = "idle" /\ (t = Game => OnTop("code"))
BY DEF CanCall, CodeRuns

\* The block is run inside the caller.
LEMMA SaneRunAtOnce ==
  ASSUME Sane, NEW b \in Block, CodeRuns, IsNew(b), RunAtOnce(b), NewBlock(b, NoThread),
         UNCHANGED <<contextThread, tokenMap, tokenSets, lastToken, lists, delayed, missed>>
  PROVE  Sane'
<1>1. TypeOK /\ Len(stack) \in Nat /\ op[Game].pc = "idle" /\ stack # <<>> /\ OnTop("code")
  BY StackTop DEF Sane, CodeRuns, OnTop
<1> PICK m \in Nat : m = Len(stack)
  BY <1>1
<1>2. /\ nextBlock' = nextBlock + 1 /\ nextBlock \in Nat /\ UNCHANGED habit
      /\ nextBlock' \in 1..(MaxBlock + 1) /\ accepted' \subseteq Block
      /\ queuedBy' \in [Block -> Worker \cup {NoThread}]
  BY <1>1, NewBlockIs
<1>3. /\ stack' = Append(stack, Code(NoThread)) /\ UNCHANGED <<scheduled, op>>
      /\ ran' \in [Block -> 0..2]
  BY <1>1, Starting DEF RunAtOnce
<1>4. NoThread \in Thread \cup {NoThread}
  OBVIOUS
<1>5. Keeps(m, m + 1) /\ stack'[m + 1] = Code(NoThread)
  BY <1>1, <1>3, <1>4, CodeIs, PushFrames
<1>6. stack' \in Seq(Frame) /\ stack' # <<>>
  BY <1>5, StackIsSeq
<1>7. TypeOK'
  BY <1>1, <1>2, <1>3, <1>6 DEF TypeOK
<1>8. Besides
  <2>1. nextBlock <= nextBlock'
    BY <1>2
  <2>2. QED
    BY <1>1, <1>2, <1>3, <1>7, <2>1, ListsUnchanged DEF Besides, OpsEnd
<1>9. FrameOK(m + 1)'
  <2>1. stack'[m + 1] = Code(NoThread)
    BY <1>5
  <2>2. QED
    BY <1>4, <2>1, CodeFrameOK
<1>10. QED
  BY <1>1, <1>5, <1>8, <1>9, SanePush DEF OnTop

\* The block is queued; the caller may have to wait for it.
LEMMA SaneEnqueue ==
  ASSUME Sane, NEW t \in Thread, NEW b \in Block, NEW w \in {t, NoThread},
         CanCall(t), IsNew(b), Enqueue(b, w),
         NewBlock(b, IF t = Game THEN NoThread ELSE t),
         op' = op \/ op' = [op EXCEPT ![t] = [Idle EXCEPT !.pc = "queued", !.block = b]],
         UNCHANGED <<contextThread, tokenMap, tokenSets, lastToken, lists, delayed, missed,
                     stack, ran>>
  PROVE  Sane'
<1>1. TypeOK /\ op[t].pc = "idle" /\ (t = Game => OnTop("code")) /\ OpOK
  BY CallerIs DEF Sane
<1>2. (IF t = Game THEN NoThread ELSE t) \in Worker \cup {NoThread}
  BY Facts
<1>3. /\ nextBlock' = nextBlock + 1 /\ nextBlock \in Nat /\ b = nextBlock /\ b >= 1
      /\ UNCHANGED habit
      /\ nextBlock' \in 1..(MaxBlock + 1) /\ accepted' \subseteq Block
      /\ queuedBy' \in [Block -> Worker \cup {NoThread}]
  BY <1>1, <1>2, NewBlockIs, Facts DEF Block
<1>4. scheduled' \in Seq(Entry)
  BY <1>1, EnqueueIs
<1> DEFINE q == [Idle EXCEPT !.pc = "queued", !.block = b]
<1>5. q \in OpRecord /\ q.pc = "queued" /\ q.block = b
  <2>1. b \in Nat
    BY <1>3
  <2>2. QED
    BY <2>1 DEF OpRecord, Idle
<1> HIDE DEF q
<1>6. op \in [Thread -> OpRecord]
  BY <1>1, Types
<1>7. op' \in [Thread -> OpRecord] /\ \A u \in Thread : op'[u] = op[u] \/ (u = t /\ op'[u] = q)
  <2>1. op' = op \/ op' = [op EXCEPT ![t] = q]
    BY DEF q
  <2> HIDE DEF OpRecord
  <2>2. QED
    BY <1>5, <1>6, <2>1
<1>8. TypeOK'
  BY <1>1, <1>3, <1>4, <1>7 DEF TypeOK, OpRecord, Entry
<1>9. OpOK'
  <2> SUFFICES ASSUME NEW u \in Thread
               PROVE  /\ op'[u].block < nextBlock'
                      /\ op'[u].pc # "idle" => op'[u].block >= 1
                      /\ Pending(u)' => op'[u].obj \in Obj /\ u \in habit'.assigner
                      /\ op'[u].pc = "add" => op'[u].list \in 1..Len(lists')
    BY DEF OpOK
  <2>1. CASE op'[u] = op[u]
    <3>1. op[u].block \in Nat
      BY <1>1, Types
    <3>2. QED
      BY <1>1, <1>3, <2>1, <3>1 DEF OpOK, Pending
  <2>2. CASE op'[u] = q
    BY <1>3, <1>5, <2>2 DEF Pending
  <2>3. QED
    BY <1>7, <2>1, <2>2
<1>10. op'[Game].pc # "idle" => OnTop("code")
  <2>1. op'[Game] = op[Game] \/ t = Game
    BY <1>7, Facts
  <2>2. op[Game].pc # "idle" => OnTop("code")
    BY DEF Sane, StackOK
  <2>3. QED
    BY <1>1, <2>1, <2>2
<1>11. QED
  BY <1>1, <1>8, <1>9, <1>10, ListsUnchanged, SaneStill

LEMMA SaneSchedule ==
  ASSUME Sane, NEW t \in Thread, NEW b \in Block, Schedule(t, b) \/ ScheduleWait(t, b)
  PROVE  Sane'
<1>1. /\ CanCall(t) /\ IsNew(b)
      /\ NewBlock(b, IF t = Game THEN NoThread ELSE t)
      /\ UNCHANGED <<contextThread, tokenMap, tokenSets, lastToken, lists, delayed, missed>>
  BY DEF Schedule, ScheduleWait
<1>2. CASE t = Game /\ RunAtOnce(b)
  BY <1>1, <1>2, SaneRunAtOnce DEF CanCall
<1>3. CASE Enqueue(b, NoThread) /\ UNCHANGED <<stack, op, ran>>
  BY <1>1, <1>3, SaneEnqueue
<1>4. CASE /\ Enqueue(b, t) /\ UNCHANGED <<stack, ran>>
           /\ op' = [op EXCEPT ![t] = [Idle EXCEPT !.pc = "queued", !.block = b]]
  BY <1>1, <1>4, SaneEnqueue
<1>5. QED
  BY <1>2, <1>3, <1>4 DEF Schedule, ScheduleWait

\* A thread's operation as OpOK wants it.
OpIs(t, r) ==
  /\ r \in OpRecord
  /\ r.block < nextBlock' /\ (r.pc # "idle" => r.block >= 1)
  /\ r.pc \in {"put", "get", "add"} => r.obj \in Obj /\ t \in habit.assigner
  /\ r.pc = "add" => r.list \in 1..Len(lists')
  /\ r.pc # "idle" /\ t = Game => OnTop("code")

LEMMA OpsAre ==
  ASSUME Sane, TypeOK', NEW t \in Thread, NEW r, OpIs(t, r), op' = [op EXCEPT ![t] = r],
         nextBlock <= nextBlock', Len(lists) <= Len(lists'), UNCHANGED habit
  PROVE  /\ OpOK' /\ op'[t] = r /\ \A u \in Thread : u # t => op'[u] = op[u]
         /\ op'[Game].pc # "idle" => OnTop("code")
<1>1. op \in [Thread -> OpRecord] /\ TypeOK /\ OpOK
      /\ \A u \in Thread : op[u].block \in Nat /\ op[u].list \in Nat
  BY Types DEF Sane
<1>2. op'[t] = r /\ \A u \in Thread : u # t => op'[u] = op[u]
  BY <1>1
<1>3. nextBlock \in Nat /\ nextBlock' \in Nat /\ Len(lists) \in Nat /\ Len(lists') \in Nat
  <2>1. lists' \in Seq(Seq(Block))
    BY DEF TypeOK
  <2>2. nextBlock \in Nat /\ nextBlock' \in Nat
    BY <1>1, Facts DEF TypeOK
  <2>3. QED
    BY <1>1, <2>1, <2>2, ListsAre, LenProperties
<1>4. OpOK'
  <2> SUFFICES ASSUME NEW u \in Thread
               PROVE  /\ op'[u].block < nextBlock'
                      /\ op'[u].pc # "idle" => op'[u].block >= 1
                      /\ Pending(u)' => op'[u].obj \in Obj /\ u \in habit'.assigner
                      /\ op'[u].pc = "add" => op'[u].list \in 1..Len(lists')
    BY DEF OpOK
  <2>1. CASE u # t
    BY <1>1, <1>2, <1>3, <2>1 DEF OpOK, Pending
  <2>2. CASE u = t
    BY <1>2, <2>2 DEF OpIs, Pending
  <2>3. QED
    BY <2>1, <2>2
<1>5. op'[Game].pc # "idle" => OnTop("code")
  <2>1. op[Game].pc # "idle" => OnTop("code")
    BY DEF Sane, StackOK
  <2>2. QED
    BY <1>2, <2>1, Facts DEF OpIs
<1>6. QED
  BY <1>2, <1>4, <1>5

LEMMA SaneOps ==
  ASSUME Sane, NEW t \in Thread, NEW r, OpIs(t, r), op' = [op EXCEPT ![t] = r],
         nextBlock' \in {nextBlock, nextBlock + 1} \cap (1..(MaxBlock + 1)),
         UNCHANGED <<habit, contextThread, tokenMap, tokenSets, lastToken, scheduled, lists,
                     delayed, stack, ran, accepted, queuedBy, missed>>
  PROVE  Sane'
<1>1. TypeOK /\ op \in [Thread -> OpRecord] /\ r \in OpRecord /\ nextBlock \in Nat
  BY Types, Facts DEF Sane, OpIs
<1>2. op' \in [Thread -> OpRecord]
  BY <1>1
<1>3. TypeOK'
  BY <1>1, <1>2 DEF TypeOK, OpRecord
<1>4. nextBlock <= nextBlock' /\ ListsStay
  BY <1>1, ListsUnchanged
<1>5. QED
  BY <1>3, <1>4, OpsAre, SaneStill DEF ListsStay

LEMMA OpNow ==
  ASSUME Sane, NEW t \in Thread
  PROVE  /\ op[t] \in OpRecord /\ op[t].block \in Nat /\ op[t].list \in Nat
         /\ op[t].block < nextBlock /\ (op[t].pc # "idle" => op[t].block >= 1)
         /\ Pending(t) => op[t].obj \in Obj /\ t \in habit.assigner
         /\ op[t].pc = "add" => op[t].list \in 1..Len(lists)
         /\ op[t].pc # "idle" /\ t = Game => OnTop("code")
         /\ nextBlock \in 1..(MaxBlock + 1) /\ nextBlock \in Nat
<1>1. TypeOK /\ OpOK
  BY DEF Sane
<1>2. op[t] \in OpRecord /\ op[t].block \in Nat /\ op[t].list \in Nat
  BY <1>1, Types
<1>3. nextBlock \in 1..(MaxBlock + 1) /\ nextBlock \in Nat
  BY <1>1, Types, Facts
<1>4. op[t].pc # "idle" /\ t = Game => OnTop("code")
  BY DEF Sane, StackOK
<1>5. QED
  BY <1>1, <1>2, <1>3, <1>4 DEF OpOK

LEMMA SaneWait ==
  ASSUME Sane, NEW t \in Thread, Wait(t)
  PROVE  Sane'
<1> DEFINE r == [op[t] EXCEPT !.pc = "waiting"]
<1>1. /\ op' = [op EXCEPT ![t] = r] /\ op[t].pc = "queued"
      /\ UNCHANGED <<habit, contextThread, tokenMap, tokenSets, lastToken, scheduled, lists,
                     delayed, stack, nextBlock, ran, accepted, queuedBy, missed>>
  BY DEF Wait, history
<1>2. op[t] \in OpRecord
  BY OpNow
<1>3. r \in OpRecord /\ r.pc = "waiting" /\ r.block = op[t].block
  BY <1>2 DEF OpRecord
<1> HIDE DEF r, OpRecord
<1>4. OpIs(t, r)
  BY <1>1, <1>3, OpNow DEF OpIs
<1>5. nextBlock' \in {nextBlock, nextBlock + 1} \cap (1..(MaxBlock + 1))
  BY <1>1, OpNow
<1>6. QED
  BY <1>1, <1>4, <1>5, SaneOps

LEMMA IdleIs ==
  ASSUME Sane, NEW t \in Thread, nextBlock <= nextBlock', nextBlock' \in Nat
  PROVE  OpIs(t, Idle)
<1>1. Idle \in OpRecord
  BY Facts
<1>2. QED
  BY <1>1, OpNow DEF OpIs, Idle

LEMMA SaneWakeUp ==
  ASSUME Sane, NEW t \in Thread, WakeUp(t)
  PROVE  Sane'
<1>1. /\ op' = [op EXCEPT ![t] = Idle]
      /\ UNCHANGED <<habit, contextThread, tokenMap, tokenSets, lastToken, scheduled, lists,
                     delayed, stack, nextBlock, ran, accepted, queuedBy, missed>>
  BY DEF WakeUp, history
<1>2. OpIs(t, Idle) /\ nextBlock' \in {nextBlock, nextBlock + 1} \cap (1..(MaxBlock + 1))
  BY <1>1, OpNow, IdleIs
<1>3. QED
  BY <1>1, <1>2, SaneOps

LEMMA SaneAssign ==
  ASSUME Sane, NEW t \in Thread, NEW o \in Obj, NEW b \in Block, Assign(t, o, b)
  PROVE  Sane'
<1>1. PICK pc \in {"put", "get"} :
        op' = [op EXCEPT ![t] = [pc |-> pc, obj |-> o, block |-> b, list |-> 0]]
  BY DEF Assign
<1>2. /\ t \in habit.assigner /\ CanCall(t) /\ IsNew(b) /\ nextBlock' = b + 1
      /\ UNCHANGED <<habit, contextThread, tokenMap, tokenSets, lastToken, scheduled, lists,
                     delayed, stack, ran, accepted, queuedBy, missed>>
  BY DEF Assign, AfterAssign
<1>3. b = nextBlock /\ b \in Nat /\ b >= 1 /\ b <= MaxBlock /\ (t = Game => OnTop("code"))
  BY <1>2, OpNow, CallerIs DEF IsNew, Block
<1> DEFINE r == [pc |-> pc, obj |-> o, block |-> b, list |-> 0]
<1>4. r \in OpRecord /\ r.pc \in {"put", "get"} /\ r.block = b /\ r.obj = o
  BY <1>3 DEF OpRecord
<1> HIDE DEF r
<1>5. OpIs(t, r)
  BY <1>2, <1>3, <1>4 DEF OpIs
<1>6. nextBlock' \in {nextBlock, nextBlock + 1} \cap (1..(MaxBlock + 1))
  BY <1>2, <1>3, Facts
<1>7. op' = [op EXCEPT ![t] = r]
  BY <1>1 DEF r
<1>8. QED
  BY <1>2, <1>5, <1>6, <1>7, SaneOps

LEMMA SaneAssignGet ==
  ASSUME Sane, NEW t \in Thread, AssignGet(t)
  PROVE  Sane'
<1> DEFINE l == tokenMap[op[t].obj]
           r == [op[t] EXCEPT !.pc = "add", !.list = l]
<1>1. /\ op' = [op EXCEPT ![t] = IF l = 0 THEN Idle ELSE r] /\ op[t].pc = "get"
      /\ UNCHANGED <<habit, contextThread, tokenMap, tokenSets, lastToken, scheduled, lists,
                     delayed, stack, nextBlock, ran, accepted, queuedBy, missed>>
  BY DEF AssignGet, AfterAssign, history
<1>2. op[t] \in OpRecord /\ op[t].obj \in Obj /\ t \in habit.assigner
  BY <1>1, OpNow DEF Pending
<1>3. l \in 0..Len(lists) /\ Len(lists) \in Nat
  BY <1>2, Types, ListsAre DEF Sane
<1> HIDE DEF l
<1>4. r \in OpRecord /\ r.pc = "add" /\ r.block = op[t].block /\ r.list = l /\ r.obj = op[t].obj
  <2>1. l \in Nat
    BY <1>3
  <2>2. QED
    BY <1>2, <2>1 DEF OpRecord
<1> HIDE DEF r, OpRecord
<1>5. nextBlock' \in {nextBlock, nextBlock + 1} \cap (1..(MaxBlock + 1)) /\ nextBlock <= nextBlock'
  BY <1>1, OpNow
<1>6. CASE l = 0
  <2>1. op' = [op EXCEPT ![t] = Idle] /\ OpIs(t, Idle)
    BY <1>1, <1>5, <1>6, OpNow, IdleIs
  <2>2. QED
    BY <1>1, <1>5, <2>1, SaneOps
<1>7. CASE l # 0
  <2>1. op' = [op EXCEPT ![t] = r]
    BY <1>1, <1>7
  <2>2. OpIs(t, r)
    BY <1>1, <1>2, <1>3, <1>4, <1>7, OpNow DEF OpIs
  <2>3. QED
    BY <1>1, <1>5, <2>1, <2>2, SaneOps
<1>8. QED
  BY <1>6, <1>7

-------------------------------------------------------------------------------
(* The actions keep Sane: lists, assignNow and delay.                        *)

\* A list more.
LEMMA MoreLists ==
  ASSUME TypeOK, NEW s \in Seq(Block), lists' = Append(lists, s)
  PROVE  /\ lists' \in Seq(Seq(Block)) /\ Len(lists') = Len(lists) + 1 /\ Len(lists) \in Nat
         /\ \A l \in 1..Len(lists) : lists'[l] = lists[l] /\ lists[l] \in Seq(Block)
         /\ lists'[Len(lists) + 1] = s
         /\ ListsStay
<1> DEFINE S == Seq(Block)
<1>1. lists \in Seq(S) /\ s \in S
  BY ListsAre
<1>2. Len(lists) \in Nat /\ \A l \in 1..Len(lists) : lists[l] \in Seq(Block) /\ Len(lists[l]) \in Nat
  BY ListsAre
<1> HIDE DEF S
<1>3. /\ lists' \in Seq(S) /\ Len(lists') = Len(lists) + 1
      /\ \A l \in 1..Len(lists) : lists'[l] = lists[l]
      /\ lists'[Len(lists) + 1] = s
  BY <1>1, Pushed
<1>4. ListsStay
  BY <1>2, <1>3 DEF ListsStay
<1>5. QED
  BY <1>2, <1>3, <1>4 DEF S

\* A list is longer.
LEMMA LongerList ==
  ASSUME TypeOK, NEW l \in 1..Len(lists), NEW b \in Block,
         lists' = [lists EXCEPT ![l] = Append(@, b)]
  PROVE  /\ lists' \in Seq(Seq(Block)) /\ Len(lists') = Len(lists) /\ Len(lists) \in Nat
         /\ \A m \in 1..Len(lists) : m # l => lists'[m] = lists[m]
         /\ lists'[l] = Append(lists[l], b)
         /\ lists[l] \in Seq(Block) /\ Len(lists[l]) \in Nat
         /\ Len(lists'[l]) = Len(lists[l]) + 1
         /\ \A i \in 1..Len(lists[l]) : lists'[l][i] = lists[l][i]
         /\ lists'[l][Len(lists[l]) + 1] = b
         /\ ListsStay
<1> DEFINE S == Seq(Block)
<1>1. lists \in Seq(S) /\ Len(lists) \in Nat
  BY ListsAre
<1>2. \A m \in 1..Len(lists) : lists[m] \in Seq(Block) /\ Len(lists[m]) \in Nat
  BY ListsAre
<1>3. /\ Append(lists[l], b) \in S
      /\ Len(Append(lists[l], b)) = Len(lists[l]) + 1
      /\ \A i \in 1..Len(lists[l]) : Append(lists[l], b)[i] = lists[l][i]
      /\ Append(lists[l], b)[Len(lists[l]) + 1] = b
  BY <1>2, Pushed
<1> HIDE DEF S
<1>4. /\ lists' \in Seq(S) /\ Len(lists') = Len(lists)
      /\ \A m \in 1..Len(lists) : m # l => lists'[m] = lists[m]
      /\ lists'[l] = Append(lists[l], b)
  BY <1>1, <1>3
<1>5. ListsStay
  BY <1>1, <1>2, <1>3, <1>4 DEF ListsStay
<1>6. QED
  BY <1>1, <1>2, <1>3, <1>4, <1>5 DEF S

LEMMA TouchedIs ==
  ASSUME TypeOK, stack' \in {stack, Touch(stack)}, NEW m \in Nat, m = Len(stack)
  PROVE  Alike(m, m)
<1>1. stack \in Seq(Frame)
  BY StackTop
<1>2. /\ Touch(stack) \in Seq(Frame) /\ Len(Touch(stack)) = Len(stack)
      /\ \A d \in 1..Len(stack) :
           Touch(stack)[d] = IF stack[d].kind = "assign" THEN [stack[d] EXCEPT !.touched = TRUE]
                                                         ELSE stack[d]
  BY <1>1, TouchIs
<1> HIDE DEF Frame
<1>3. QED
  BY <1>1, <1>2 DEF Alike

LEMMA AssignPutIs ==
  ASSUME Sane, NEW t \in Thread, AssignPut(t)
  PROVE  /\ op[t].pc = "put" /\ CanLock(t) /\ op[t].obj \in Obj /\ t \in habit.assigner
         /\ lists' = Append(lists, <<>>) /\ <<>> \in Seq(Block)
         /\ tokenMap' = [tokenMap EXCEPT ![op[t].obj] = Len(lists) + 1]
         /\ stack' \in {stack, Touch(stack)}
         /\ tokenMap[op[t].obj] # 0 => stack' = stack
         /\ op' = [op EXCEPT ![t] = [op[t] EXCEPT !.pc = "get"]]
         /\ UNCHANGED <<habit, contextThread, tokenSets, lastToken, scheduled, delayed, ran,
                        missed, nextBlock, accepted, queuedBy>>
<1>1. op[t].pc = "put"
  BY DEF AssignPut
<1>2. op[t].obj \in Obj /\ t \in habit.assigner
  BY <1>1, OpNow DEF Pending
<1>3. QED
  BY <1>1, <1>2 DEF AssignPut, AfterAssign, history

LEMMA SaneAssignPut ==
  ASSUME Sane, NEW t \in Thread, AssignPut(t)
  PROVE  Sane'
<1> DEFINE r == [op[t] EXCEPT !.pc = "get"]
<1>1. /\ op[t].pc = "put" /\ op[t].obj \in Obj /\ t \in habit.assigner
      /\ lists' = Append(lists, <<>>) /\ <<>> \in Seq(Block)
      /\ tokenMap' = [tokenMap EXCEPT ![op[t].obj] = Len(lists) + 1]
      /\ stack' \in {stack, Touch(stack)}
      /\ op' = [op EXCEPT ![t] = r]
      /\ UNCHANGED <<habit, contextThread, tokenSets, lastToken, scheduled, delayed, ran,
                     missed, nextBlock, accepted, queuedBy>>
  BY AssignPutIs
<1>2. /\ TypeOK /\ StackOK /\ Len(stack) \in Nat /\ stack \in Seq(Frame)
      /\ (stack = <<>> <=> Len(stack) = 0)
  BY StackTop DEF Sane
<1> PICK m \in Nat : m = Len(stack)
  BY <1>2
<1>3. Alike(m, m)
  BY <1>1, <1>2, TouchedIs
<1>4. /\ lists' \in Seq(Seq(Block)) /\ Len(lists') = Len(lists) + 1 /\ Len(lists) \in Nat
      /\ ListsStay
  BY <1>1, <1>2, MoreLists
<1>5. op[t] \in OpRecord /\ op \in [Thread -> OpRecord]
  BY <1>2, OpNow, Types
<1>6. r \in OpRecord /\ r.pc = "get" /\ r.block = op[t].block /\ r.obj = op[t].obj
  BY <1>5 DEF OpRecord
<1> HIDE DEF r
<1>7. op' \in [Thread -> OpRecord]
  BY <1>1, <1>5, <1>6
<1>8. stack' \in Seq(Frame) /\ (stack' = <<>> <=> stack = <<>>)
  BY <1>2, <1>3, EmptySeq DEF Alike
<1>9. tokenMap' \in [Obj -> 0..Len(lists')] /\ tokenSets' \in [0..MaxToken -> 0..Len(lists')]
  <2>1. tokenMap \in [Obj -> 0..Len(lists)] /\ tokenSets \in [0..MaxToken -> 0..Len(lists)]
    BY <1>2, Types
  <2>2. 0..Len(lists) \subseteq 0..Len(lists') /\ Len(lists) + 1 \in 0..Len(lists')
    BY <1>4
  <2> DEFINE D == 0..Len(lists)
             E == 0..Len(lists')
  <2>3. D \subseteq E /\ Len(lists) + 1 \in E /\ tokenMap \in [Obj -> D]
        /\ tokenSets \in [0..MaxToken -> D]
    BY <2>1, <2>2
  <2> HIDE DEF D, E
  <2>4. tokenMap' \in [Obj -> E]
    <3>1. tokenMap \in [Obj -> E]
      BY <2>3
    <3>2. PICK o \in Obj : tokenMap' = [tokenMap EXCEPT ![o] = Len(lists) + 1]
      BY <1>1
    <3>3. QED
      BY <2>3, <3>1, <3>2
  <2>5. tokenSets' \in [0..MaxToken -> E]
    BY <1>1, <2>3
  <2>6. QED
    BY <2>4, <2>5 DEF E
<1>10. TypeOK'
  BY <1>1, <1>2, <1>4, <1>7, <1>8, <1>9 DEF TypeOK, OpRecord
<1>11. nextBlock <= nextBlock' /\ Len(lists) <= Len(lists')
  BY <1>1, <1>4, OpNow
<1>12. OpIs(t, r)
  BY <1>1, <1>6, OpNow DEF OpIs
<1>13. OpOK' /\ (op'[Game].pc # "idle" => OnTop("code"))
  BY <1>1, <1>10, <1>11, <1>12, OpsAre
<1>14. OnTop("code") => OnTop("code")'
  <2> SUFFICES ASSUME OnTop("code") PROVE OnTop("code")'
    OBVIOUS
  <2>1. m \in 1..m /\ stack[m].kind = "code" /\ Len(stack') = m /\ stack # <<>>
    BY <1>2, <1>3 DEF Alike, OnTop, Top
  <2>2. stack'[m] = stack[m]
    BY <1>3, <2>1 DEF Alike
  <2>3. QED
    BY <1>8, <2>1, <2>2 DEF OnTop, Top
<1>15. StackOK'
  <2>1. \A d \in (m + 1)..m : FALSE
    OBVIOUS
  <2>2. \A d \in 1..m : ~(d >= m /\ d < m)
    OBVIOUS
  <2>3. op'[Game].pc # "idle" => OnTop("code")'
    BY <1>13, <1>14
  <2>4. TypeOK /\ StackOK /\ ListsStay /\ TypeOK'
    BY <1>2, <1>4, <1>10
  <2>5. ~(m = 0 /\ m > 0)
    OBVIOUS
  <2>6. QED
    BY <1>3, <2>1, <2>2, <2>3, <2>4, <2>5, FramesStay
<1>16. QED
  BY <1>10, <1>13, <1>15 DEF Sane

LEMMA AssignAddIs ==
  ASSUME Sane, NEW t \in Thread, AssignAdd(t)
  PROVE  /\ op[t].pc = "add" /\ op[t].list \in 1..Len(lists) /\ op[t].block \in Block
         /\ lists' = [lists EXCEPT ![op[t].list] = Append(@, op[t].block)]
         /\ accepted' = accepted \cup {op[t].block}
         /\ op' = [op EXCEPT ![t] = Idle]
         /\ UNCHANGED <<habit, contextThread, tokenMap, tokenSets, lastToken, scheduled, delayed,
                        stack, ran, missed, nextBlock, queuedBy>>
<1>1. op[t].pc = "add"
  BY DEF AssignAdd
<1>2. op[t].list \in 1..Len(lists) /\ op[t].block \in Block
  BY <1>1, OpNow, Facts DEF Block
<1>3. QED
  BY <1>1, <1>2 DEF AssignAdd, AfterAssign

LEMMA SaneAssignAdd ==
  ASSUME Sane, NEW t \in Thread, AssignAdd(t)
  PROVE  Sane'
<1>1. /\ op[t].pc = "add" /\ op[t].list \in 1..Len(lists) /\ op[t].block \in Block
      /\ lists' = [lists EXCEPT ![op[t].list] = Append(@, op[t].block)]
      /\ accepted' = accepted \cup {op[t].block}
      /\ op' = [op EXCEPT ![t] = Idle]
      /\ UNCHANGED <<habit, contextThread, tokenMap, tokenSets, lastToken, scheduled, delayed,
                     stack, ran, missed, nextBlock, queuedBy>>
  BY AssignAddIs
<1>2. TypeOK
  BY DEF Sane
<1>3. lists' \in Seq(Seq(Block)) /\ Len(lists') = Len(lists) /\ ListsStay
  BY <1>1, <1>2, LongerList
<1>4. op \in [Thread -> OpRecord] /\ Idle \in OpRecord
  BY <1>2, Types, Facts
<1> HIDE DEF OpRecord
<1>5. op' \in [Thread -> OpRecord]
  BY <1>1, <1>4
<1>6. TypeOK'
  BY <1>1, <1>2, <1>3, <1>5 DEF TypeOK, OpRecord
<1>7. nextBlock <= nextBlock' /\ Len(lists) <= Len(lists') /\ OpIs(t, Idle)
  BY <1>1, <1>2, <1>3, OpNow, ListsAre, IdleIs
<1>8. OpOK' /\ (op'[Game].pc # "idle" => OnTop("code"))
  BY <1>1, <1>6, <1>7, OpsAre
<1>9. QED
  BY <1>1, <1>3, <1>6, <1>8, SaneStill

\* What is said of a new token's frame.
NewToken(f, l, ls) ==
  /\ f.kind = "token" /\ f.list = l /\ f.at = 0 /\ f.todo = {} /\ f.touched = FALSE
  /\ f.waiter = NoThread /\ (l # 0 => f.size = Len(ls[l]))

\* A token for list l, made and called at once.
LEMMA AssignSetIs ==
  ASSUME TypeOK, NEW base, NEW ls \in Seq(Seq(Block)), NEW l \in 0..Len(ls), AssignSet(base, ls, l),
         Len(lists) <= Len(ls)
  PROVE  /\ lastToken < MaxToken /\ lastToken' = lastToken + 1 /\ lastToken' \in 0..MaxToken
         /\ lastToken \in 0..MaxToken
         /\ tokenSets' = [tokenSets EXCEPT ![lastToken] = 0]
         /\ tokenSets' \in [0..MaxToken -> 0..Len(ls)]
         /\ missed' \in BOOLEAN /\ (l # 0 => missed' = missed)
         /\ contextThread' \in {Game, NoThread}
         /\ \E f \in Frame : stack' = Append(base, f) /\ NewToken(f, l, ls)
<1>1. lastToken \in 0..MaxToken /\ tokenSets \in [0..MaxToken -> 0..Len(lists)] /\ MaxToken \in Nat
      /\ Len(lists) \in Nat
  BY Types, ListsAre, Facts
<1> DEFINE S == Seq(Block)
<1>2. Len(ls) \in Nat
  <2>1. ls \in Seq(S)
    OBVIOUS
  <2> HIDE DEF S
  <2>2. QED
    BY <2>1, LenProperties
<1> DEFINE sets == [tokenSets EXCEPT ![lastToken] = l]
<1>3. sets \in [0..MaxToken -> 0..Len(ls)] /\ sets[lastToken] = l
  <2> DEFINE D == 0..Len(ls)
  <2>1. tokenSets \in [0..MaxToken -> D] /\ l \in D
    BY <1>1, <1>2
  <2> HIDE DEF D
  <2>2. QED
    BY <1>1, <2>1 DEF D
<1>4. sets \in [0..MaxToken -> Nat]
  BY <1>2, <1>3
<1>5. /\ lastToken < MaxToken /\ lastToken' = lastToken + 1
      /\ Token(base, sets, ls, lastToken)
  BY DEF AssignSet
<1>6. tokenSets' = [sets EXCEPT ![lastToken] = 0] /\ missed' = (missed \/ sets[lastToken] = 0)
      /\ contextThread' \in {Game, NoThread}
      /\ stack' = Append(base, TokenFrame(sets, ls, lastToken))
  BY <1>5 DEF Token, TokenFrame
<1>7. tokenSets' = [tokenSets EXCEPT ![lastToken] = 0]
  BY <1>1, <1>6
<1>8. tokenSets' \in [0..MaxToken -> 0..Len(ls)]
  <2> DEFINE D == 0..Len(ls)
  <2>1. sets \in [0..MaxToken -> D] /\ 0 \in D
    BY <1>2, <1>3
  <2> HIDE DEF D, sets
  <2>2. QED
    BY <1>1, <1>6, <2>1 DEF D
<1>9. PICK ss \in [0..MaxToken -> Nat], k \in 0..MaxToken : ss = sets /\ k = lastToken
  BY <1>1, <1>4
<1>10. ss[k] = l /\ ss[k] \in 0..Len(ls)
  BY <1>3, <1>9
<1> DEFINE f == TokenFrame(ss, ls, k)
<1>11. /\ f \in Frame /\ f.kind = "token" /\ f.list = l /\ f.at = 0 /\ f.todo = {} /\ f.touched = FALSE
       /\ f.waiter = NoThread /\ (l # 0 => f.size = Len(ls[l]))
  <2>1. ls \in Seq(Seq(Block))
    BY <1>3
  <2>2. /\ f \in Frame /\ f.kind = "token" /\ f.list = ss[k] /\ f.at = 0
        /\ f.todo = {} /\ f.touched = FALSE
        /\ f.waiter = NoThread /\ (ss[k] # 0 => f.size = Len(ls[ss[k]]))
    BY <1>9, <1>10, <2>1, TokenFrameIs, ZenonT(60)
  <2> HIDE DEF f
  <2>3. QED
    BY <1>10, <2>2
<1>12. stack' = Append(base, f)
  BY <1>6, <1>9
<1>13. lastToken' \in 0..MaxToken
  BY <1>1, <1>5
<1>14. missed' \in BOOLEAN /\ (l # 0 => missed' = missed)
  BY <1>3, <1>6 DEF TypeOK
<1> HIDE DEF f, sets
<1>15. \E g \in Frame : stack' = Append(base, g) /\ NewToken(g, l, ls)
  BY <1>11, <1>12 DEF NewToken
<1>16. QED
  BY <1>1, <1>5, <1>6, <1>7, <1>8, <1>13, <1>14, <1>15

LEMMA AssignNowIs ==
  ASSUME Sane, NEW b \in Block, AssignNow(b)
  PROVE  /\ CodeRuns /\ IsNew(b)
         /\ lists' = Append(lists, <<b>>) /\ <<b>> \in Seq(Block)
         /\ lastToken < MaxToken /\ lastToken' = lastToken + 1 /\ lastToken' \in 0..MaxToken
         /\ lastToken \in 0..MaxToken
         /\ tokenSets' = [tokenSets EXCEPT ![lastToken] = 0]
         /\ tokenSets' \in [0..MaxToken -> 0..Len(lists')]
         /\ missed' = missed /\ contextThread' \in {Game, NoThread}
         /\ \E f \in Frame : stack' = Append(stack, f) /\ NewToken(f, Len(lists) + 1, lists')
         /\ NewBlock(b, NoThread)
         /\ UNCHANGED <<tokenMap, scheduled, delayed, op, ran>>
<1>1. /\ CodeRuns /\ IsNew(b)
      /\ lists' = Append(lists, <<b>>) /\ <<b>> \in Seq(Block)
      /\ AssignSet(stack, lists', Len(lists) + 1)
      /\ NewBlock(b, NoThread)
      /\ UNCHANGED <<tokenMap, scheduled, delayed, op, ran>>
  BY DEF AssignNow
<1>2. TypeOK
  BY DEF Sane
<1>3. /\ lists' \in Seq(Seq(Block)) /\ Len(lists') = Len(lists) + 1 /\ Len(lists) \in Nat
  BY <1>1, <1>2, MoreLists
<1> PICK ls \in Seq(Seq(Block)) : ls = lists'
  BY <1>3
<1>4. PICK l \in 0..Len(ls) : l = Len(lists) + 1
  BY <1>3
<1>5. PICK base : AssignSet(base, ls, l) /\ base = stack
  BY <1>1, <1>4
<1>a. Len(lists) <= Len(ls) /\ l # 0
  BY <1>3, <1>4
<1>6. /\ lastToken < MaxToken /\ lastToken' = lastToken + 1 /\ lastToken' \in 0..MaxToken
      /\ lastToken \in 0..MaxToken
      /\ tokenSets' = [tokenSets EXCEPT ![lastToken] = 0]
      /\ tokenSets' \in [0..MaxToken -> 0..Len(ls)]
      /\ missed' = missed /\ contextThread' \in {Game, NoThread}
  BY <1>2, <1>5, <1>a, AssignSetIs
<1>7. \E f \in Frame : stack' = Append(base, f) /\ NewToken(f, l, ls)
  BY <1>2, <1>5, <1>a, AssignSetIs
<1>9. tokenSets' \in [0..MaxToken -> 0..Len(lists')]
  BY <1>6
<1>10. \E f \in Frame : stack' = Append(stack, f) /\ NewToken(f, Len(lists) + 1, lists')
  BY <1>4, <1>5, <1>7
<1>11. QED
  BY <1>1, <1>6, <1>9, <1>10

LEMMA SaneAssignNow ==
  ASSUME Sane, NEW b \in Block, AssignNow(b)
  PROVE  Sane'
<1>1. /\ CodeRuns /\ IsNew(b)
      /\ lists' = Append(lists, <<b>>) /\ <<b>> \in Seq(Block)
      /\ lastToken' \in 0..MaxToken
      /\ tokenSets' \in [0..MaxToken -> 0..Len(lists')]
      /\ missed' = missed /\ contextThread' \in {Game, NoThread}
      /\ \E f \in Frame : stack' = Append(stack, f) /\ NewToken(f, Len(lists) + 1, lists')
      /\ NewBlock(b, NoThread)
      /\ UNCHANGED <<tokenMap, scheduled, delayed, op, ran>>
  BY AssignNowIs
<1>2. TypeOK /\ Len(stack) \in Nat /\ op[Game].pc = "idle" /\ OnTop("code") /\ stack # <<>>
  BY <1>1, StackTop DEF Sane, CodeRuns, OnTop
<1> PICK m \in Nat : m = Len(stack)
  BY <1>2
<1>3. /\ lists' \in Seq(Seq(Block)) /\ Len(lists') = Len(lists) + 1 /\ Len(lists) \in Nat
      /\ ListsStay /\ lists'[Len(lists) + 1] = <<b>>
  BY <1>1, <1>2, MoreLists
<1>4. /\ nextBlock' = nextBlock + 1 /\ nextBlock \in Nat /\ UNCHANGED habit
      /\ nextBlock' \in 1..(MaxBlock + 1) /\ accepted' \subseteq Block
      /\ queuedBy' \in [Block -> Worker \cup {NoThread}]
  BY <1>1, <1>2, NewBlockIs
<1>5. PICK f \in Frame : stack' = Append(stack, f) /\ NewToken(f, Len(lists) + 1, lists')
  BY <1>1
<1>6. Keeps(m, m + 1) /\ stack'[m + 1] = f
  BY <1>2, <1>5, PushFrames
<1>7. stack' \in Seq(Frame) /\ stack' # <<>>
  BY <1>6, StackIsSeq
<1>8. tokenMap' \in [Obj -> 0..Len(lists')]
  <2>1. tokenMap \in [Obj -> 0..Len(lists)]
    BY <1>2, Types
  <2>2. 0..Len(lists) \subseteq 0..Len(lists')
    BY <1>3
  <2>3. QED
    BY <1>1, <2>1, <2>2
<1>9. TypeOK'
  BY <1>1, <1>2, <1>3, <1>4, <1>7, <1>8 DEF TypeOK
<1>10. Besides
  <2>1. nextBlock <= nextBlock'
    BY <1>4
  <2>2. QED
    BY <1>1, <1>2, <1>3, <1>4, <1>9, <2>1 DEF Besides, OpsEnd
<1>11. FrameOK(m + 1)'
  <2>1. Len(lists) + 1 # 0 /\ Len(lists) + 1 <= Len(lists') /\ 0 <= Len(lists'[Len(lists) + 1])
    BY <1>3
  <2>2. QED
    BY <1>5, <1>6, <2>1 DEF FrameOK, NewToken
<1>12. QED
  BY <1>2, <1>6, <1>10, <1>11, SanePush DEF OnTop

LEMMA DelayIs ==
  ASSUME Sane, NEW b \in Block, Delay(b)
  PROVE  /\ CodeRuns /\ IsNew(b)
         /\ lists' = Append(lists, <<b>>) /\ <<b>> \in Seq(Block)
         /\ lastToken < MaxToken /\ lastToken' = lastToken + 1 /\ lastToken' \in 0..MaxToken
         /\ lastToken \in 0..MaxToken
         /\ tokenSets' = [tokenSets EXCEPT ![lastToken] = Len(lists) + 1]
         /\ delayed' = delayed \cup {lastToken}
         /\ NewBlock(b, NoThread)
         /\ UNCHANGED <<contextThread, tokenMap, scheduled, stack, op, ran, missed>>
<1>1. lastToken \in 0..MaxToken /\ MaxToken \in Nat /\ <<b>> \in Seq(Block)
  BY Types, Facts DEF Sane
<1>2. /\ lastToken < MaxToken /\ lastToken' = lastToken + 1
  BY DEF Delay
<1>3. lastToken' \in 0..MaxToken
  BY <1>1, <1>2
<1>4. QED
  BY <1>1, <1>2, <1>3 DEF Delay

LEMMA SaneDelay ==
  ASSUME Sane, NEW b \in Block, Delay(b)
  PROVE  Sane'
<1>1. /\ CodeRuns /\ IsNew(b)
      /\ lists' = Append(lists, <<b>>) /\ <<b>> \in Seq(Block)
      /\ lastToken' \in 0..MaxToken /\ lastToken \in 0..MaxToken
      /\ tokenSets' = [tokenSets EXCEPT ![lastToken] = Len(lists) + 1]
      /\ delayed' = delayed \cup {lastToken}
      /\ NewBlock(b, NoThread)
      /\ UNCHANGED <<contextThread, tokenMap, scheduled, stack, op, ran, missed>>
  BY DelayIs
<1>2. TypeOK /\ op[Game].pc = "idle" /\ OpOK
  BY <1>1 DEF Sane, CodeRuns
<1>3. /\ lists' \in Seq(Seq(Block)) /\ Len(lists') = Len(lists) + 1 /\ Len(lists) \in Nat
      /\ ListsStay
  BY <1>1, <1>2, MoreLists
<1>4. /\ nextBlock' = nextBlock + 1 /\ nextBlock \in Nat /\ UNCHANGED habit
      /\ nextBlock' \in 1..(MaxBlock + 1) /\ accepted' \subseteq Block
      /\ queuedBy' \in [Block -> Worker \cup {NoThread}]
  BY <1>1, <1>2, NewBlockIs
<1> DEFINE D == 0..Len(lists)
           E == 0..Len(lists')
<1>5. /\ D \subseteq E /\ Len(lists) + 1 \in E
      /\ tokenMap \in [Obj -> D] /\ tokenSets \in [0..MaxToken -> D]
  BY <1>2, <1>3, Types
<1> HIDE DEF D, E
<1>6. tokenMap' \in [Obj -> E]
  BY <1>1, <1>5
<1>7. tokenSets' \in [0..MaxToken -> E]
  <2>1. tokenSets \in [0..MaxToken -> E]
    BY <1>5
  <2>2. QED
    BY <1>1, <1>5, <2>1
<1>8. TypeOK'
  BY <1>1, <1>2, <1>3, <1>4, <1>6, <1>7 DEF TypeOK, E
<1>9. nextBlock <= nextBlock' /\ Len(lists) <= Len(lists')
  BY <1>3, <1>4
<1>10. OpOK'
  BY <1>1, <1>2, <1>4, <1>8, <1>9, OpsStay DEF OpsEnd
<1>11. QED
  BY <1>1, <1>2, <1>3, <1>8, <1>10, SaneStill

-------------------------------------------------------------------------------
(* The actions keep Sane: flushQueues.                                       *)

\* A step of flushQueues is the game's thread's, with no code of the users on top.
LEMMA FlushIsIdle ==
  ASSUME Sane, ~OnTop("code") \/ CodeRuns
  PROVE  TypeOK /\ StackOK /\ op[Game].pc = "idle" /\ Len(stack) \in Nat
BY GameIsIdle, StackTop DEF Sane

LEMMA FlushFrame ==
  ASSUME NEW todo \in SUBSET Obj
  PROVE  /\ [FrameOf("assign") EXCEPT !.todo = todo] \in Frame
         /\ [FrameOf("assign") EXCEPT !.todo = todo].kind = "assign"
         /\ [FrameOf("assign") EXCEPT !.todo = todo].waiter = NoThread
         /\ [FrameOf("assign") EXCEPT !.todo = todo].list = 0
         /\ [FrameOf("assign") EXCEPT !.todo = todo].at = 0
         /\ [FrameOf("assign") EXCEPT !.todo = todo].todo = todo
         /\ [FrameOf("assign") EXCEPT !.todo = todo].touched = FALSE
BY DEF FrameOf, Frame

LEMMA SaneFlushQueues ==
  ASSUME Sane, FlushQueues
  PROVE  Sane'
<1>1. /\ CodeRuns
      /\ UNCHANGED <<contextThread, tokenMap, tokenSets, lastToken, scheduled, lists, delayed,
                     op, ran, missed, habit, nextBlock, accepted, queuedBy>>
  BY DEF FlushQueues, history
<1>2. TypeOK /\ StackOK /\ op[Game].pc = "idle" /\ Len(stack) \in Nat
      /\ stack # <<>> /\ ~OnTop("assign")
  BY <1>1, FlushIsIdle DEF CodeRuns, OnTop
<1> PICK m \in Nat : m = Len(stack)
  BY <1>2
<1>3. PICK todo \in SUBSET Obj : todo = {o \in Obj : tokenMap[o] # 0}
  OBVIOUS
<1> DEFINE f == [FrameOf("assign") EXCEPT !.todo = todo]
<1>4. stack' = Append(stack, f)
  BY <1>3 DEF FlushQueues
<1>5. /\ f \in Frame /\ f.kind = "assign" /\ f.waiter = NoThread /\ f.list = 0 /\ f.at = 0
  BY FlushFrame
<1> HIDE DEF f, Frame
<1>6. Keeps(m, m + 1) /\ stack'[m + 1] = f
  BY <1>2, <1>4, <1>5, PushFrames
<1>7. stack' \in Seq(Frame) /\ stack' # <<>>
  BY <1>6, StackIsSeq
<1>8. TypeOK'
  BY <1>1, <1>2, <1>7 DEF TypeOK
<1>9. Besides
  BY <1>1, <1>2, <1>8, BesidesIs DEF OpsEnd
<1>10. FrameOK(m + 1)'
  BY <1>5, <1>6 DEF FrameOK
<1>11. QED
  BY <1>2, <1>6, <1>9, <1>10, SanePush

LEMMA SaneFlushEnds ==
  ASSUME Sane, FlushEnds
  PROVE  Sane'
<1>1. /\ OnTop("sched") /\ stack' = Below
      /\ UNCHANGED <<contextThread, tokenMap, tokenSets, lastToken, scheduled, lists, delayed,
                     op, ran, missed, habit, nextBlock, accepted, queuedBy>>
  BY DEF FlushEnds, history
<1>2. TypeOK /\ StackOK /\ op[Game].pc = "idle" /\ Len(stack) \in Nat /\ stack # <<>>
  BY <1>1, FlushIsIdle DEF OnTop
<1>3. stack' # <<>>
  <2>1. Len(stack) >= 1 /\ stack[1].kind # "sched" /\ Top.kind = "sched" /\ Top = stack[Len(stack)]
    BY <1>1, <1>2, StackTop DEF StackOK, OnTop
  <2>2. Len(stack) # 1
    BY <2>1
  <2>3. QED
    BY <1>1, <1>2, <2>1, <2>2, BelowIs, EmptySeq
<1>4. TypeOK'
  <2>1. stack' \in Seq(Frame)
    BY <1>1, <1>2, BelowIs
  <2>2. QED
    BY <1>1, <1>2, <1>3, <2>1 DEF TypeOK
<1>5. Besides
  BY <1>1, <1>2, <1>4, BesidesIs DEF OpsEnd
<1>6. QED
  BY <1>1, <1>2, <1>5, SanePop

LEMMA RunScheduledIs ==
  ASSUME Sane, RunScheduled
  PROVE  /\ OnTop("sched") /\ scheduled \in Seq(Entry) /\ scheduled # <<>>
         /\ Len(scheduled) \in Nat /\ Len(scheduled) >= 1 /\ scheduled[1] \in Entry
         /\ scheduled' \in Seq(Entry) /\ Len(scheduled') = Len(scheduled) - 1
         /\ \A i \in 1..Len(scheduled') : scheduled'[i] = scheduled[i + 1]
         /\ Started(scheduled[1].block) /\ scheduled[1].block \in Block
         /\ scheduled[1].waiter \in Thread \cup {NoThread}
         /\ stack' = Append(stack, Code(scheduled[1].waiter))
         /\ UNCHANGED <<contextThread, tokenMap, tokenSets, lastToken, lists, delayed, op, missed,
                        habit, nextBlock, accepted, queuedBy>>
<1>1. scheduled \in Seq(Entry) /\ scheduled # <<>>
  BY Types DEF Sane, Entry, RunScheduled
<1> HIDE DEF Entry
<1>2. /\ Head(scheduled) = scheduled[1] /\ Head(scheduled) \in Entry
      /\ Tail(scheduled) \in Seq(Entry)
      /\ Len(scheduled) \in Nat /\ Len(scheduled) >= 1
      /\ Len(Tail(scheduled)) = Len(scheduled) - 1
      /\ \A i \in 1..Len(Tail(scheduled)) : Tail(scheduled)[i] = scheduled[i + 1]
  BY <1>1, TailOf
<1>3. /\ OnTop("sched") /\ scheduled' = Tail(scheduled)
      /\ Started(scheduled[1].block) /\ stack' = Append(stack, Code(scheduled[1].waiter))
      /\ UNCHANGED <<contextThread, tokenMap, tokenSets, lastToken, lists, delayed, op, missed,
                     habit, nextBlock, accepted, queuedBy>>
  BY <1>2 DEF RunScheduled, history
<1>4. scheduled[1].block \in Block /\ scheduled[1].waiter \in Thread \cup {NoThread}
  BY <1>2 DEF Entry
<1>5. QED
  BY <1>1, <1>2, <1>3, <1>4

LEMMA SaneRunScheduled ==
  ASSUME Sane, RunScheduled
  PROVE  Sane'
<1>1. /\ OnTop("sched")
      /\ scheduled' \in Seq(Entry)
      /\ Started(scheduled[1].block) /\ scheduled[1].block \in Block
      /\ scheduled[1].waiter \in Thread \cup {NoThread}
      /\ stack' = Append(stack, Code(scheduled[1].waiter))
      /\ UNCHANGED <<contextThread, tokenMap, tokenSets, lastToken, lists, delayed, op, missed,
                     habit, nextBlock, accepted, queuedBy>>
  BY RunScheduledIs
<1>2. TypeOK /\ StackOK /\ op[Game].pc = "idle" /\ Len(stack) \in Nat
      /\ stack # <<>> /\ ~OnTop("assign")
  BY <1>1, FlushIsIdle DEF OnTop
<1> PICK m \in Nat : m = Len(stack)
  BY <1>2
<1> PICK w \in Thread \cup {NoThread} : w = scheduled[1].waiter
  BY <1>1
<1>3. ran' \in [Block -> 0..2]
  BY <1>1, <1>2, Starting
<1>4. Keeps(m, m + 1) /\ stack'[m + 1] = Code(w)
  <2> PICK f : f = Code(w)
    OBVIOUS
  <2>1. f \in Frame /\ stack' = Append(stack, f)
    BY <1>1, CodeIs
  <2> HIDE DEF Frame
  <2>2. Keeps(m, m + 1) /\ stack'[m + 1] = f
    BY <1>2, <2>1, PushFrames
  <2>3. QED
    BY <2>2
<1>5. stack' \in Seq(Frame) /\ stack' # <<>>
  BY <1>4, StackIsSeq
<1>6. TypeOK'
  <2>1. /\ scheduled' \in Seq([block : Block, waiter : Thread \cup {NoThread}])
        /\ contextThread' \in {Game, Stale, NoThread}
    BY <1>1, <1>2 DEF TypeOK, Entry
  <2>2. contextThread' \in IF stack' = <<>> THEN {Stale, NoThread} ELSE {Game, Stale, NoThread}
    BY <1>5, <2>1
  <2>3. QED
    BY <1>1, <1>2, <1>3, <1>5, <2>1, <2>2 DEF TypeOK
<1>7. Besides
  BY <1>1, <1>2, <1>6, BesidesIs DEF OpsEnd
<1>8. FrameOK(m + 1)'
  <2>1. stack'[m + 1] = Code(w)
    BY <1>4
  <2>2. QED
    BY <2>1, CodeFrameOK
<1>9. QED
  BY <1>2, <1>4, <1>7, <1>8, SanePush

\* The list of o is handed out: f is the frame of the loop now, g the token's.
HandsOut(o, f, g) ==
  /\ Top.touched = FALSE /\ o \in Top.todo
  /\ f.kind = "assign" /\ f.todo = Top.todo \ {o} /\ f.touched = FALSE
  /\ f.list = 0 /\ f.at = 0 /\ f.waiter = NoThread
  /\ NewToken(g, tokenMap[o], lists)
  /\ lastToken < MaxToken /\ lastToken' = lastToken + 1 /\ lastToken' \in 0..MaxToken
  /\ lastToken \in 0..MaxToken
  /\ tokenSets' = [tokenSets EXCEPT ![lastToken] = 0]
  /\ tokenSets' \in [0..MaxToken -> 0..Len(lists)]
  /\ missed' \in BOOLEAN /\ (tokenMap[o] # 0 => missed' = missed)
  /\ contextThread' \in {Game, NoThread}
  /\ stack' = Append(Append(Below, f), g)
  /\ UNCHANGED op

LEMMA HandOutNextIs ==
  ASSUME Sane, HandOutNext
  PROVE  /\ OnTop("assign") /\ stack # <<>>
         /\ UNCHANGED <<tokenMap, scheduled, lists, delayed, ran, habit, nextBlock, accepted,
                        queuedBy>>
         /\ \/ Raise /\ UNCHANGED <<tokenSets, lastToken, missed>> /\ Top.touched = TRUE
            \/ \E o \in Obj, f \in Frame, g \in Frame : HandsOut(o, f, g)
<1>1. /\ OnTop("assign") /\ stack # <<>>
      /\ UNCHANGED <<tokenMap, scheduled, lists, delayed, ran, habit, nextBlock, accepted,
                     queuedBy>>
  BY DEF HandOutNext, OnTop, history
<1>2. TypeOK /\ StackOK /\ Top \in Frame /\ Top = stack[Len(stack)] /\ Len(stack) \in Depth
  BY <1>1, StackTop DEF Sane
<1>3. Top.touched \in BOOLEAN /\ Top.todo \in SUBSET Obj /\ Top.kind = "assign"
  BY <1>1, <1>2 DEF Frame, OnTop
<1>4. Top.list = 0 /\ Top.at = 0 /\ Top.waiter = NoThread
  BY <1>2, <1>3 DEF StackOK
<1>5. ASSUME Top.touched = TRUE
      PROVE  Raise /\ UNCHANGED <<tokenSets, lastToken, missed>>
  BY <1>5 DEF HandOutNext
<1>6. ASSUME Top.touched = FALSE
      PROVE  \E o \in Obj, f \in Frame, g \in Frame : HandsOut(o, f, g)
  <2>1. PICK o \in Top.todo :
           AssignSet(Append(Below, [Top EXCEPT !.todo = @ \ {o}]), lists, tokenMap[o])
    BY <1>6 DEF HandOutNext
  <2>2. UNCHANGED op
    BY <1>6 DEF HandOutNext
  <2> DEFINE f == [Top EXCEPT !.todo = Top.todo \ {o}]
  <2>3. /\ f \in Frame /\ f.kind = "assign" /\ f.todo = Top.todo \ {o} /\ f.touched = FALSE
        /\ f.list = 0 /\ f.at = 0 /\ f.waiter = NoThread
    BY <1>2, <1>3, <1>4, <1>6 DEF Frame
  <2>4. AssignSet(Append(Below, f), lists, tokenMap[o])
    BY <2>1
  <2> HIDE DEF f, Frame
  <2>5. o \in Obj /\ tokenMap[o] \in 0..Len(lists) /\ lists \in Seq(Seq(Block))
        /\ Len(lists) \in Nat
    BY <1>2, <1>3, Types, ListsAre
  <2>a. PICK base : base = Append(Below, f)
    OBVIOUS
  <2>b. PICK ls \in Seq(Seq(Block)) : ls = lists
    BY <2>5
  <2>c. PICK l \in 0..Len(ls) : l = tokenMap[o]
    BY <2>5, <2>b
  <2>6. base = Append(Below, f) /\ ls = lists /\ l = tokenMap[o]
    BY <2>a, <2>b, <2>c
  <2>7. AssignSet(base, ls, l) /\ Len(lists) <= Len(ls)
    BY <2>4, <2>5, <2>6
  <2>8. /\ lastToken < MaxToken /\ lastToken' = lastToken + 1 /\ lastToken' \in 0..MaxToken
        /\ lastToken \in 0..MaxToken
        /\ tokenSets' = [tokenSets EXCEPT ![lastToken] = 0]
        /\ tokenSets' \in [0..MaxToken -> 0..Len(ls)]
        /\ missed' \in BOOLEAN /\ (l # 0 => missed' = missed)
        /\ contextThread' \in {Game, NoThread}
    BY <1>2, <2>7, AssignSetIs
  <2>9. PICK g \in Frame : stack' = Append(base, g) /\ NewToken(g, l, ls)
    BY <1>2, <2>7, AssignSetIs
  <2>10. HandsOut(o, f, g)
    <3>1. NewToken(g, tokenMap[o], lists) /\ stack' = Append(Append(Below, f), g)
      BY <2>6, <2>9
    <3>2. tokenSets' \in [0..MaxToken -> 0..Len(lists)] /\ (tokenMap[o] # 0 => missed' = missed)
      BY <2>6, <2>8
    <3>3. o \in Top.todo
      OBVIOUS
    <3>4. QED
      BY <1>6, <2>2, <2>3, <2>8, <3>1, <3>2, <3>3 DEF HandsOut
  <2>11. QED
    BY <2>3, <2>5, <2>10
<1>7. QED
  BY <1>1, <1>3, <1>5, <1>6

LEMMA SaneHandOutNext ==
  ASSUME Sane, HandOutNext
  PROVE  Sane'
<1>1. /\ OnTop("assign") /\ stack # <<>>
      /\ UNCHANGED <<tokenMap, scheduled, lists, delayed, ran, habit, nextBlock, accepted,
                     queuedBy>>
  BY HandOutNextIs
<1>2. TypeOK /\ StackOK /\ op[Game].pc = "idle" /\ Len(stack) \in Nat
  BY <1>1, FlushIsIdle DEF OnTop
<1>3. ASSUME Raise, UNCHANGED <<tokenSets, lastToken, missed>> PROVE Sane'
  BY <1>1, <1>2, <1>3, SaneRaise, Types DEF history
<1>4. ASSUME NEW o \in Obj, NEW f \in Frame, NEW g \in Frame, HandsOut(o, f, g)
      PROVE  Sane'
  <2> HIDE DEF Frame
  <2>1. Len(stack) >= 1
    BY <1>1, <1>2, StackTop
  <2>2. PICK m \in Nat : m + 1 = Len(stack)
    <3>1. Len(stack) - 1 \in Nat /\ (Len(stack) - 1) + 1 = Len(stack)
      BY <1>2, <2>1
    <3>2. QED
      BY <3>1
  <2>3. stack' = Append(Append(Below, f), g)
    BY <1>4 DEF HandsOut
  <2>4. Keeps(m, m + 2) /\ stack'[m + 1] = f /\ stack'[m + 2] = g
    <3>1. /\ Keeps(Len(stack) - 1, Len(stack) + 1)
          /\ stack'[Len(stack)] = f /\ stack'[Len(stack) + 1] = g
      BY <1>1, <1>2, <1>4, <2>3, ReplaceFrames
    <3>2. Len(stack) - 1 = m /\ Len(stack) + 1 = m + 2
      BY <2>2
    <3>3. QED
      BY <2>2, <3>1, <3>2
  <2>5. stack' \in Seq(Frame) /\ stack' # <<>>
    BY <2>4, StackIsSeq
  <2>6. TypeOK'
    BY <1>1, <1>2, <1>4, <2>5 DEF TypeOK, HandsOut
  <2>7. Besides
    <3>1. UNCHANGED op
      BY <1>4 DEF HandsOut
    <3>2. QED
      BY <1>1, <1>2, <2>6, <3>1, BesidesIs DEF OpsEnd
  <2>8. FrameOK(m + 1)'
    BY <1>4, <2>4 DEF FrameOK, HandsOut
  <2>9. FrameOK(m + 2)'
    <3>1. /\ g.kind = "token" /\ g.list = tokenMap[o] /\ g.at = 0 /\ g.todo = {}
          /\ g.touched = FALSE /\ g.waiter = NoThread
      BY <1>4 DEF HandsOut, NewToken
    <3>2. tokenMap[o] \in 0..Len(lists) /\ Len(lists) \in Nat
      BY <1>2, <1>4, Types, ListsAre
    <3>3. tokenMap[o] # 0 => tokenMap[o] <= Len(lists) /\ 0 <= Len(lists[tokenMap[o]])
      BY <1>2, <3>2, ListsAre
    <3>4. QED
      BY <1>1, <2>4, <3>1, <3>3 DEF FrameOK
  <2>10. stack'[m + 1].kind = Top.kind /\ stack'[m + 2].kind = "token"
    BY <1>1, <1>4, <2>4 DEF HandsOut, NewToken, OnTop
  <2>11. QED
    BY <2>2, <2>4, <2>7, <2>8, <2>9, <2>10, SaneReplace
<1>5. QED
  BY <1>3, <1>4, HandOutNextIs

LEMMA HandOutEndsIs ==
  ASSUME TypeOK, HandOutEnds
  PROVE  /\ OnTop("assign") /\ stack # <<>> /\ Top.todo = {}
         /\ tokenMap' = [o \in Obj |-> 0]
         /\ UNCHANGED <<contextThread, tokenSets, lastToken, scheduled, lists, delayed, op, ran,
                        missed, habit, nextBlock, accepted, queuedBy>>
         /\ Len(stack) >= 1 /\ Alike(Len(stack) - 1, Len(stack))
         /\ stack'[Len(stack)] = FrameOf("sched")
         /\ \A d \in 1..(Len(stack) - 1) :
              stack'[d] = IF stack[d].kind = "assign" THEN [stack[d] EXCEPT !.touched = TRUE]
                                                      ELSE stack[d]
<1>1. /\ OnTop("assign") /\ stack # <<>> /\ Top.todo = {}
      /\ tokenMap' = [o \in Obj |-> 0]
      /\ stack' = Append(Touch(Below), FrameOf("sched"))
      /\ UNCHANGED <<contextThread, tokenSets, lastToken, scheduled, lists, delayed, op, ran,
                     missed, habit, nextBlock, accepted, queuedBy>>
  BY DEF HandOutEnds, OnTop, ClearMap, history
<1>2. Len(stack) \in Nat /\ Len(stack) >= 1
  BY <1>1, StackTop
<1>3. PICK m \in Nat : m + 1 = Len(stack)
  <2>1. Len(stack) - 1 \in Nat /\ (Len(stack) - 1) + 1 = Len(stack)
    BY <1>2
  <2>2. QED
    BY <2>1
<1>4. PICK base : base = Below
  OBVIOUS
<1> HIDE DEF Frame
<1>5. base \in Seq(Frame) /\ Len(base) = m /\ \A d \in 1..m : base[d] = stack[d]
  BY <1>1, <1>3, <1>4, BelowIs
<1>6. /\ Touch(base) \in Seq(Frame) /\ Len(Touch(base)) = m
      /\ \A d \in 1..m :
           Touch(base)[d] = IF base[d].kind = "assign" THEN [base[d] EXCEPT !.touched = TRUE]
                                                       ELSE base[d]
  BY <1>5, TouchIs
<1>7. PICK f \in Frame : f = FrameOf("sched")
  BY FrameIs
<1>8. PICK u \in Seq(Frame) : u = Touch(base)
  BY <1>6
<1>9. stack' = Append(u, f)
  BY <1>1, <1>4, <1>7, <1>8
<1>10. /\ stack' \in Seq(Frame) /\ Len(stack') = m + 1 /\ stack'[m + 1] = f
       /\ \A d \in 1..m : stack'[d] = u[d]
  BY <1>6, <1>8, <1>9, Pushed
<1>11. \A d \in 1..m :
         stack'[d] = IF stack[d].kind = "assign" THEN [stack[d] EXCEPT !.touched = TRUE]
                                                 ELSE stack[d]
  BY <1>5, <1>6, <1>8, <1>10
<1>12. Alike(m, m + 1)
  <2>1. m \in 0..Len(stack) /\ m <= m + 1
    BY <1>3
  <2>2. QED
    BY <1>10, <1>11, <2>1 DEF Alike
<1>13. Len(stack) - 1 = m
  BY <1>3
<1>14. QED
  BY <1>1, <1>2, <1>3, <1>7, <1>10, <1>11, <1>12, <1>13

LEMMA SaneHandOutEnds ==
  ASSUME Sane, HandOutEnds
  PROVE  Sane'
<1>1. TypeOK /\ StackOK
  BY DEF Sane
<1>2. /\ OnTop("assign") /\ stack # <<>>
      /\ tokenMap' = [o \in Obj |-> 0]
      /\ UNCHANGED <<contextThread, tokenSets, lastToken, scheduled, lists, delayed, op, ran,
                     missed, habit, nextBlock, accepted, queuedBy>>
      /\ Len(stack) >= 1 /\ Alike(Len(stack) - 1, Len(stack))
      /\ stack'[Len(stack)] = FrameOf("sched")
  BY <1>1, HandOutEndsIs
<1>3. op[Game].pc = "idle" /\ Len(stack) \in Nat
  BY <1>2, FlushIsIdle DEF OnTop
<1>4. PICK m \in Nat : m + 1 = Len(stack)
  <2>1. Len(stack) - 1 \in Nat /\ (Len(stack) - 1) + 1 = Len(stack)
    BY <1>2, <1>3
  <2>2. QED
    BY <2>1
<1>5. Alike(m, m + 1) /\ stack'[m + 1] = FrameOf("sched") /\ Len(stack) - 1 = m
  BY <1>2, <1>4
<1>6. stack' \in Seq(Frame) /\ stack' # <<>>
  BY <1>5, EmptySeq DEF Alike
<1>7. TypeOK'
  <2>1. tokenMap' \in [Obj -> 0..Len(lists)]
    BY <1>1, <1>2, ListsAre
  <2>2. QED
    BY <1>1, <1>2, <1>6, <2>1 DEF TypeOK
<1>8. Besides
  BY <1>1, <1>2, <1>3, <1>7, BesidesIs DEF OpsEnd
<1>9. Top = stack[m + 1] /\ Top.kind = "assign" /\ m + 1 \in Depth
  BY <1>1, <1>2, <1>4, StackTop DEF OnTop
<1>10. m # 0
  BY <1>1, <1>2, <1>9 DEF StackOK
<1>11. stack'[m].kind # "assign"
  <2>1. m \in 1..m /\ m \in Depth /\ m < Len(stack)
    BY <1>4, <1>10 DEF Depth
  <2>2. stack[m].kind # "assign"
    BY <1>1, <1>9, <2>1 DEF StackOK
  <2>3. stack'[m] = stack[m]
    BY <1>5, <2>1, <2>2 DEF Alike
  <2>4. QED
    BY <2>2, <2>3
<1>12. \A d \in 1..(m + 1) : d >= m /\ d < m + 1 => d = m
  OBVIOUS
<1>13. \A d \in (m + 1)..(m + 1) : FrameOK(d)'
  <2>1. \A d \in (m + 1)..(m + 1) : d = m + 1
    OBVIOUS
  <2>2. FrameOK(m + 1)'
    BY <1>5 DEF FrameOK, FrameOf
  <2>3. QED
    BY <2>1, <2>2
<1>14. \A d \in 1..(m + 1) : d >= m /\ d < m + 1 /\ stack'[d].kind = "assign" =>
          stack'[d + 1].kind = "token"
  BY <1>11, <1>12
<1>15. m + 1 \in Nat
  OBVIOUS
<1>16. QED
  BY <1>5, <1>8, <1>10, <1>13, <1>14, <1>15, SaneWhen
-----------------------------------------------------------------------------
LEMMA SaneInit ==
  ASSUME Init
  PROVE  Sane
<1>1. NoThread \in {Stale, NoThread} /\ habit \in Habits
  BY DEF Init
<1>2. /\ lists = <<>> /\ Len(lists) = 0 /\ stack = <<>> /\ Len(stack) = 0
      /\ lists \in Seq(Seq(Block)) /\ stack \in Seq(Frame)
      /\ scheduled \in Seq([block : Block, waiter : Thread \cup {NoThread}])
  BY DEF Init
<1>3. op \in [Thread -> OpRecord]
  BY Facts DEF Init
<1>4. /\ tokenMap \in [Obj -> 0..0] /\ tokenSets \in [0..MaxToken -> 0..0]
      /\ lastToken \in 0..MaxToken /\ nextBlock \in 1..(MaxBlock + 1)
      /\ ran \in [Block -> 0..2] /\ queuedBy \in [Block -> Worker \cup {NoThread}]
  BY Facts DEF Init
<1>5. TypeOK
  BY <1>1, <1>2, <1>3, <1>4 DEF TypeOK, Init, OpRecord
<1>6. StackOK
  <2>1. \A d \in Depth : FALSE
    BY <1>2 DEF Depth
  <2>2. op[Game].pc = "idle"
    BY Facts DEF Init, Idle
  <2>3. QED
    BY <1>2, <2>1, <2>2 DEF StackOK
<1>7. OpOK
  BY DEF OpOK, Init, Idle, Pending
<1>8. QED
  BY <1>5, <1>6, <1>7 DEF Sane

LEMMA SaneStutter ==
  ASSUME Sane, UNCHANGED vars
  PROVE  Sane'
<1>1. UNCHANGED <<habit, contextThread, tokenMap, tokenSets, lastToken, scheduled, lists, delayed,
                  stack, op, nextBlock, ran, accepted, queuedBy, missed>>
  BY DEF vars
<1>2. QED
  BY <1>1 DEF Sane, TypeOK, StackOK, OpOK, OnTop, Top, Depth, Pending

LEMMA SaneNext ==
  ASSUME Sane, [Next]_vars
  PROVE  Sane'
<1>1. CASE Event
  BY <1>1, SaneEvent
<1>2. CASE EventEnds
  BY <1>2, SaneEventEnds
<1>3. CASE \E k \in delayed : DelayIsOver(k)
  BY <1>3, SaneDelayIsOver
<1>4. CASE TokenNext
  BY <1>4, SaneTokenNext
<1>5. CASE CodeReturns \/ CodeThrows
  BY <1>5, SaneCodeReturns, SaneCodeThrows
<1>6. CASE \E b \in Block : AssignNow(b) \/ Delay(b)
  BY <1>6, SaneAssignNow, SaneDelay
<1>7. CASE FlushQueues
  BY <1>7, SaneFlushQueues
<1>8. CASE HandOutNext
  BY <1>8, SaneHandOutNext
<1>9. CASE HandOutEnds
  BY <1>9, SaneHandOutEnds
<1>10. CASE RunScheduled
  BY <1>10, SaneRunScheduled
<1>11. CASE FlushEnds
  BY <1>11, SaneFlushEnds
<1>12. CASE \E t \in Thread, b \in Block : Schedule(t, b) \/ ScheduleWait(t, b)
  BY <1>12, SaneSchedule
<1>13. CASE \E t \in Thread, b \in Block, o \in Obj : Assign(t, o, b)
  BY <1>13, SaneAssign
<1>14. CASE \E t \in Thread : Wait(t) \/ WakeUp(t)
  BY <1>14, SaneWait, SaneWakeUp
<1>15. CASE \E t \in Thread : AssignPut(t) \/ AssignGet(t) \/ AssignAdd(t)
  BY <1>15, SaneAssignPut, SaneAssignGet, SaneAssignAdd
<1>16. CASE UNCHANGED vars
  BY <1>16, SaneStutter
<1>17. QED
  BY <1>1, <1>2, <1>3, <1>4, <1>5, <1>6, <1>7, <1>8, <1>9, <1>10, <1>11, <1>12, <1>13, <1>14,
     <1>15, <1>16 DEF Next, GameStep

\* Every variable keeps its type: tokenMap and tokenSets refer to lists that were made,
\* contextThread is null or a thread that left the JVM whenever the game's thread is outside,
\* and no operation of Scheduler.java takes the numbers of tokens and blocks out of their range.
THEOREM TypeCorrect == Spec => []TypeOK
<1>1. Spec => []Sane
  BY SaneInit, SaneNext, PTL DEF Spec
<1>2. Sane => TypeOK
  BY DEF Sane
<1>3. QED
  BY <1>1, <1>2, PTL

-------------------------------------------------------------------------------
(* What a step does to the references to lists: the frames.                  *)

\* A block's place in a list.
Place(l, i) == l \in 1..Len(lists) /\ i \in 1..Len(lists[l])

\* What a step does to the frames that hand out blocks.
Plain(f) == f.list = 0 /\ f.kind \in {"event", "code", "sched"}
FrameStays(d) == d \in Depth /\ stack'[d] = stack[d]
FramesQuiet == \A d \in Depth' : FrameStays(d) \/ Plain(stack'[d])
AssignsStay == \A d \in Depth : stack[d].kind = "assign" => d \in Depth' /\ stack'[d] = stack[d]

\* Frames are cut off, none of them in the middle of handing out blocks.
LEMMA CutFrames ==
  ASSUME TypeOK, NEW m \in Nat, Keeps(m, m), \A d \in Depth : stack[d].kind = "assign" => d <= m
  PROVE  FramesQuiet /\ AssignsStay
<1>1. Depth' = 1..m /\ m <= Len(stack) /\ Len(stack) \in Nat
  BY StackTop DEF Keeps, Depth
<1>2. \A d \in 1..m : FrameStays(d)
  BY <1>1 DEF Keeps, FrameStays, Depth
<1>3. FramesQuiet
  BY <1>1, <1>2 DEF FramesQuiet
<1>4. \A d \in Depth : d <= m => d \in 1..m
  BY <1>1 DEF Depth
<1>5. AssignsStay
  BY <1>1, <1>2, <1>4 DEF AssignsStay, FrameStays
<1>6. QED
  BY <1>3, <1>5

LEMMA PoppedFrames ==
  ASSUME TypeOK, stack # <<>>, stack' = Below, Top.kind # "assign"
  PROVE  FramesQuiet /\ AssignsStay
<1>1. Len(stack) \in Nat /\ Len(stack) >= 1 /\ Keeps(Len(stack) - 1, Len(stack) - 1)
      /\ Top = stack[Len(stack)]
  BY PopFrames, StackTop
<1>2. PICK m \in Nat : m = Len(stack) - 1
  <2>1. Len(stack) - 1 \in Nat
    BY <1>1
  <2>2. QED
    BY <2>1
<1>3. \A d \in Depth : stack[d].kind = "assign" => d <= m
  BY <1>1, <1>2 DEF Depth
<1>4. QED
  BY <1>1, <1>2, <1>3, CutFrames

\* Frames are pushed, and none is taken away.
LEMMA PushedFrames ==
  ASSUME TypeOK, NEW m \in Nat, m = Len(stack), NEW n \in Nat, Keeps(m, n)
  PROVE  /\ AssignsStay /\ Depth' = 1..n
         /\ \A d \in Depth' : FrameStays(d) \/ d \in (m + 1)..n
<1>1. Depth' = 1..n /\ m <= n
  BY DEF Keeps, Depth
<1>2. \A d \in 1..m : FrameStays(d)
  BY DEF Keeps, FrameStays, Depth
<1>3. AssignsStay
  BY <1>1, <1>2 DEF AssignsStay, Depth, FrameStays
<1>4. QED
  BY <1>1, <1>2, <1>3

LEMMA PlainCode ==
  ASSUME NEW w \in Thread \cup {NoThread}
  PROVE  Plain(Code(w))
<1>1. Code(w).kind = "code" /\ Code(w).list = 0
  BY CodeIs
<1>2. QED
  BY <1>1 DEF Plain

LEMMA PushedPlain ==
  ASSUME TypeOK, NEW f \in Frame, Plain(f), stack' = Append(stack, f)
  PROVE  FramesQuiet /\ AssignsStay
<1> HIDE DEF Frame
<1>1. PICK m \in Nat : m = Len(stack)
  <2>1. Len(stack) \in Nat
    BY StackTop
  <2>2. QED
    BY <2>1
<1>2. Keeps(m, m + 1) /\ stack'[m + 1] = f
  BY <1>1, PushFrames
<1>3. PICK n \in Nat : n = m + 1
  OBVIOUS
<1>a. Keeps(m, n)
  BY <1>2, <1>3
<1>4. AssignsStay /\ \A d \in Depth' : FrameStays(d) \/ d \in (m + 1)..n
  BY <1>1, <1>a, PushedFrames
<1>b. \A d \in (m + 1)..n : d = m + 1
  BY <1>3
<1>5. \A d \in (m + 1)..n : Plain(stack'[d])
  BY <1>2, <1>b
<1>6. QED
  BY <1>4, <1>5 DEF FramesQuiet

LEMMA SameStack ==
  ASSUME TypeOK, UNCHANGED stack
  PROVE  FramesQuiet /\ AssignsStay
BY DEF FramesQuiet, AssignsStay, FrameStays, Depth

\* An exception does not get past flushQueues handing out blocks.
LEMMA RaisedFrames ==
  ASSUME TypeOK, StackOK, stack # <<>>, Top.kind # "assign", Raise
  PROVE  FramesQuiet /\ AssignsStay
<1>1. PICK d \in Depth, n \in 0..Len(stack) :
         /\ Catches(d) /\ \A e \in Depth : Catches(e) => e <= d
         /\ n = (IF stack[d].kind = "sched" THEN d ELSE d - 1)
         /\ stack' \in Seq(Frame) /\ Len(stack') = n
         /\ \A e \in 1..n : stack'[e] = stack[e]
  BY RaiseIs
<1>2. Len(stack) \in Nat /\ Top = stack[Len(stack)] /\ n \in Nat /\ d \in Nat
  BY StackTop DEF Depth
<1>3. Keeps(n, n)
  BY <1>1 DEF Keeps
<1>4. ASSUME NEW e \in Depth, stack[e].kind = "assign" PROVE e <= n
  <2>1. e < Len(stack) /\ e \in Nat
    BY <1>2, <1>4 DEF Depth
  <2>2. e + 1 \in Depth
    BY <1>2, <2>1 DEF Depth
  <2>3. stack[e + 1].kind = "token"
    BY <1>4, <2>1 DEF StackOK
  <2>4. Catches(e + 1)
    BY <2>3 DEF Catches
  <2>5. e + 1 <= d
    BY <1>1, <2>2, <2>4
  <2>6. QED
    BY <1>1, <1>2, <2>1, <2>5
<1>5. QED
  BY <1>2, <1>3, <1>4, CutFrames

-------------------------------------------------------------------------------
(* What a step does to the references to lists: events and tokens.           *)

SetsIntact == UNCHANGED <<tokenMap, tokenSets, delayed, lastToken, missed>>

\* What the steps do to the references to lists: tokenMap, tokenSets, and the frames of tokens.
Still == FramesQuiet /\ AssignsStay /\ SetsIntact

\* Token lastToken is made, and used at once if its list is 0.
TokenMade(l) ==
  /\ lastToken \in 0..MaxToken /\ lastToken' = lastToken + 1
  /\ tokenSets' = [tokenSets EXCEPT ![lastToken] = l]
  /\ UNCHANGED tokenMap
TokenPushed(l, ls) ==
  /\ AssignsStay /\ Len(stack) + 1 \in Depth'
  /\ \A d \in Depth' : FrameStays(d) \/ (d = Len(stack) + 1 /\ NewToken(stack'[d], l, ls))

Postponed ==
  /\ FramesQuiet /\ AssignsStay /\ TokenMade(Len(lists) + 1)
  /\ delayed' = delayed \cup {lastToken} /\ UNCHANGED missed
Called(k) ==
  /\ stack = <<>> /\ k \in delayed /\ TokenPushed(tokenSets[k], lists)
  /\ tokenSets' = [tokenSets EXCEPT ![k] = 0] /\ delayed' = delayed \ {k}
  /\ missed' \in BOOLEAN /\ (tokenSets[k] # 0 => UNCHANGED missed)
  /\ UNCHANGED <<tokenMap, lastToken>>
MadeNow ==
  /\ TokenPushed(Len(lists) + 1, lists') /\ TokenMade(0)
  /\ UNCHANGED <<delayed, missed>>
TokenRuns ==
  /\ Len(stack) \in Depth /\ stack[Len(stack)].kind = "token" /\ stack[Len(stack)].at \in Nat
  /\ Place(stack[Len(stack)].list, stack[Len(stack)].at + 1)
  /\ lists[stack[Len(stack)].list][stack[Len(stack)].at + 1] \in Block
  /\ Started(lists[stack[Len(stack)].list][stack[Len(stack)].at + 1])
  /\ \A d \in Depth' :
       \/ d < Len(stack) /\ FrameStays(d)
       \/ d = Len(stack) /\ stack'[d] = [stack[d] EXCEPT !.at = stack[d].at + 1]
       \/ Plain(stack'[d])
  /\ AssignsStay /\ SetsIntact
Flushes ==
  /\ habit.disciplined => ~Locked
  /\ ~Pending(Game)'
  /\ AssignsStay /\ SetsIntact
  /\ \A d \in Depth' :
       \/ FrameStays(d)
       \/ /\ d = Len(stack) + 1 /\ stack'[d].kind = "assign"
          /\ stack'[d].list = 0 /\ stack'[d].touched = FALSE
          /\ stack'[d].todo = {o \in Obj : tokenMap[o] # 0}
HandsList(o) ==
  /\ Len(stack) \in Depth /\ Len(stack) \in Depth' /\ Len(stack) + 1 \in Depth'
  /\ stack[Len(stack)].kind = "assign" /\ stack[Len(stack)].touched = FALSE
  /\ o \in stack[Len(stack)].todo
  /\ \A d \in Depth' :
       \/ d < Len(stack) /\ FrameStays(d)
       \/ /\ d = Len(stack) /\ stack'[d].kind = "assign" /\ stack'[d].touched = FALSE
          /\ stack'[d].list = 0 /\ stack'[d].todo = stack[d].todo \ {o}
       \/ d = Len(stack) + 1 /\ NewToken(stack'[d], tokenMap[o], lists)
  /\ TokenMade(0) /\ UNCHANGED delayed
  /\ missed' \in BOOLEAN /\ (tokenMap[o] # 0 => UNCHANGED missed)
Clears ==
  /\ Len(stack) \in Depth /\ stack[Len(stack)].kind = "assign" /\ stack[Len(stack)].todo = {}
  /\ \A d \in Depth' :
       \/ d < Len(stack) /\ stack[d].kind # "assign" /\ FrameStays(d)
       \/ /\ d \in Depth /\ d < Len(stack) /\ stack[d].kind = "assign"
          /\ stack'[d] = [stack[d] EXCEPT !.touched = TRUE]
       \/ Plain(stack'[d])
  /\ tokenMap' = [o \in Obj |-> 0] /\ UNCHANGED <<tokenSets, delayed, lastToken, missed>>
Puts(t) ==
  /\ Pending(t) /\ op[t].pc = "put" /\ CanLock(t) /\ op[t].obj \in Obj
  /\ tokenMap' = [tokenMap EXCEPT ![op[t].obj] = Len(lists) + 1]
  /\ Len(lists') = Len(lists) + 1 /\ lists'[Len(lists) + 1] = <<>>
  /\ Depth' = Depth
  /\ \A d \in Depth :
       stack'[d] = stack[d] \/ (stack[d].kind = "assign" /\ stack'[d] = [stack[d] EXCEPT !.touched = TRUE])
  /\ UNCHANGED <<tokenSets, delayed, lastToken, missed>>
Fails ==
  /\ Len(stack) \in Depth /\ stack[Len(stack)].touched = TRUE
  /\ \A d \in Depth' : FrameStays(d)
  /\ SetsIntact

RefStep ==
  \/ Still \/ Postponed \/ MadeNow \/ TokenRuns \/ Flushes \/ Clears \/ Fails
  \/ \E k \in delayed : Called(k)
  \/ \E o \in Obj : HandsList(o)
  \/ \E t \in Thread : Puts(t)

LEMMA PushedToken ==
  ASSUME TypeOK, NEW f \in Frame, NEW l, NEW ls, NewToken(f, l, ls), stack' = Append(stack, f)
  PROVE  TokenPushed(l, ls)
<1> HIDE DEF Frame
<1>1. PICK m \in Nat : m = Len(stack)
  <2>1. Len(stack) \in Nat
    BY StackTop
  <2>2. QED
    BY <2>1
<1>2. Keeps(m, m + 1) /\ stack'[m + 1] = f
  BY <1>1, PushFrames
<1>3. PICK n \in Nat : n = m + 1
  OBVIOUS
<1>4. Keeps(m, n)
  BY <1>2, <1>3
<1>5. AssignsStay /\ \A d \in Depth' : FrameStays(d) \/ d \in (m + 1)..n
  BY <1>1, <1>4, PushedFrames
<1>6. \A d \in (m + 1)..n : d = m + 1
  BY <1>3
<1>7. \A d \in (m + 1)..n : d = Len(stack) + 1 /\ NewToken(stack'[d], l, ls)
  BY <1>1, <1>2, <1>6
<1>8. Len(stack) + 1 \in Depth'
  BY <1>1, <1>2 DEF Keeps, Depth
<1>9. QED
  BY <1>5, <1>7, <1>8 DEF TokenPushed

LEMMA EventRefs ==
  ASSUME TypeOK, Event
  PROVE  RefStep
<1>1. PICK m \in Nat : m = Len(stack)
  <2>1. Len(stack) \in Nat
    BY StackTop
  <2>2. QED
    BY <2>1
<1>2. PICK n \in Nat : n = m + 2
  OBVIOUS
<1>3. Keeps(m, m + 2) /\ stack'[m + 1] = FrameOf("event") /\ stack'[m + 2] = Code(NoThread)
  BY <1>1, EventFrames
<1>4. Keeps(m, n)
  BY <1>2, <1>3
<1>5. AssignsStay /\ \A d \in Depth' : FrameStays(d) \/ d \in (m + 1)..n
  BY <1>1, <1>4, PushedFrames
<1>6. \A d \in (m + 1)..n : d = m + 1 \/ d = m + 2
  BY <1>2
<1>7. Plain(FrameOf("event")) /\ Plain(Code(NoThread))
  <2>1. NoThread \in Thread \cup {NoThread}
    OBVIOUS
  <2>2. Plain(FrameOf("event"))
    BY DEF Plain, FrameOf
  <2>3. QED
    BY <2>1, <2>2, PlainCode
<1>8. \A d \in (m + 1)..n : Plain(stack'[d])
  BY <1>3, <1>6, <1>7
<1>9. FramesQuiet
  BY <1>5, <1>8 DEF FramesQuiet
<1>10. SetsIntact
  BY DEF Event, SetsIntact, history
<1>11. QED
  BY <1>5, <1>9, <1>10 DEF Still, RefStep

LEMMA PoppingRefs ==
  ASSUME Sane, EventEnds \/ CodeReturns \/ FlushEnds
  PROVE  RefStep
<1>1. TypeOK /\ stack # <<>> /\ stack' = Below /\ Top.kind # "assign" /\ SetsIntact
  BY DEF Sane, EventEnds, CodeReturns, CodeRuns, FlushEnds, OnTop, Leave, SetsIntact
<1>2. QED
  BY <1>1, PoppedFrames DEF Still, RefStep

LEMMA RaisingRefs ==
  ASSUME Sane, stack # <<>>, Top.kind # "assign", Raise, SetsIntact
  PROVE  RefStep
BY RaisedFrames DEF Sane, Still, RefStep

LEMMA RunsOneRefs ==
  ASSUME Sane, OnTop("token"), Top \in Frame, Top.at \in Nat, SetsIntact,
         Top.list \in 1..Len(lists), RunsOne, Top.at + 1 \in 1..Len(lists[Top.list]),
         lists[Top.list][Top.at + 1] \in Block
  PROVE  TokenRuns
<1>1. TypeOK /\ StackOK
  BY DEF Sane
<1>3. /\ stack # <<>> /\ Top.kind = "token" /\ Len(stack) \in Nat /\ Len(stack) \in Depth
      /\ Top = stack[Len(stack)] /\ Len(stack) >= 1
  BY <1>1, StackTop DEF OnTop
<1>11. PICK m \in Nat : m + 1 = Len(stack)
  <2>1. Len(stack) - 1 \in Nat /\ (Len(stack) - 1) + 1 = Len(stack)
    BY <1>3
  <2>2. QED
    BY <2>1
<1>12. /\ Keeps(m, m + 2)
      /\ stack'[m + 1] = [Top EXCEPT !.at = Top.at + 1]
      /\ stack'[m + 2] = Code(NoThread)
  BY <1>1, <1>11, RunsOneFrames
<1>13. Plain(Code(NoThread))
  <2>1. NoThread \in Thread \cup {NoThread}
    OBVIOUS
  <2>2. QED
    BY <2>1, PlainCode
<1>14. Depth' = 1..(m + 2)
  BY <1>12 DEF Keeps, Depth
<1>15. \A d \in 1..m : d < Len(stack) /\ FrameStays(d)
  BY <1>11, <1>12 DEF Keeps, FrameStays, Depth
<1>16. \A d \in 1..(m + 2) : d \in 1..m \/ d = m + 1 \/ d = m + 2
  BY <1>11
<1>17. \A d \in Depth' :
        \/ d < Len(stack) /\ FrameStays(d)
        \/ d = Len(stack) /\ stack'[d] = [stack[d] EXCEPT !.at = stack[d].at + 1]
        \/ Plain(stack'[d])
  <2> TAKE d \in Depth'
  <2>1. d \in 1..m \/ d = m + 1 \/ d = m + 2
    BY <1>14, <1>16
  <2>2. d = m + 1 => d = Len(stack) /\ stack'[d] = [stack[d] EXCEPT !.at = stack[d].at + 1]
    BY <1>3, <1>11, <1>12
  <2>3. d = m + 2 => Plain(stack'[d])
    BY <1>12, <1>13
  <2>4. QED
    BY <1>15, <2>1, <2>2, <2>3
<1>18. AssignsStay
  <2> SUFFICES ASSUME NEW d \in Depth, stack[d].kind = "assign"
               PROVE  d \in Depth' /\ stack'[d] = stack[d]
    BY DEF AssignsStay
  <2>1. d \in 1..m
    BY <1>3, <1>11 DEF Depth
  <2>2. QED
    BY <1>12, <1>14, <2>1 DEF Keeps
<1>19. Place(Top.list, Top.at + 1) /\ Started(lists[Top.list][Top.at + 1])
  BY DEF Place, RunsOne
<1>20. QED
  BY <1>3, <1>17, <1>18, <1>19 DEF TokenRuns

LEMMA TokenNextRefs ==
  ASSUME Sane, TokenNext
  PROVE  RefStep
<1>1. TypeOK /\ StackOK
  BY DEF Sane
<1>2. /\ OnTop("token") /\ Top \in Frame /\ Top.at \in Nat /\ Top.list \in Nat
      /\ SetsIntact
  BY <1>1, TokenNextIs DEF SetsIntact
<1>3. /\ stack # <<>> /\ Top.kind = "token" /\ Len(stack) \in Nat /\ Len(stack) \in Depth
      /\ Top = stack[Len(stack)] /\ Len(stack) >= 1
  BY <1>1, <1>2, StackTop DEF OnTop
<1>4. ASSUME Top.list \in 1..Len(lists), RunsOne, Top.at + 1 \in 1..Len(lists[Top.list]),
             lists[Top.list][Top.at + 1] \in Block
      PROVE  TokenRuns
  BY <1>2, <1>4, RunsOneRefs
<1>5. ASSUME Raise PROVE RefStep
  BY <1>2, <1>3, <1>5, RaisingRefs
<1>6. ASSUME Leave(Below, IF Top.unset THEN NoThread ELSE contextThread) PROVE RefStep
  <2>1. stack' = Below
    BY <1>6 DEF Leave
  <2>2. QED
    BY <1>1, <1>2, <1>3, <2>1, PoppedFrames DEF Still, RefStep
<1>7. QED
  BY <1>1, <1>4, <1>5, <1>6, TokenNextIs DEF RefStep

-------------------------------------------------------------------------------
(* What a step does to the places of blocks.                                 *)

\* What a step does to the lists' contents.
Stays(l, i) == Place(l, i) /\ lists'[l][i] = lists[l][i]
PlacesStay  == \A l, i \in Nat : Place(l, i)' => Stays(l, i)
PlaceMade(b) ==
  \E k, j \in Nat : \A l, i \in Nat :
    Place(l, i)' => Stays(l, i) \/ (l = k /\ i = j /\ lists'[l][i] = b)

\* No operation of assign is begun.
PendingStays == \A t \in Thread : Pending(t)' => Pending(t) /\ op'[t].block = op[t].block

\* What the steps do to the blocks that are queued, in a list, or being assigned.
Quiet ==
  PlacesStay /\ PendingStays /\ UNCHANGED <<scheduled, nextBlock, queuedBy, ran>>
ListedRuns(l, i) ==
  /\ TokenRuns /\ l = stack[Len(stack)].list /\ i = stack[Len(stack)].at + 1
  /\ Place(l, i) /\ lists[l][i] \in Block /\ Started(lists[l][i])
  /\ PlacesStay /\ PendingStays /\ UNCHANGED <<scheduled, nextBlock, queuedBy>>
QueuedRuns ==
  /\ Len(scheduled) \in Nat /\ Len(scheduled) >= 1 /\ Len(scheduled') = Len(scheduled) - 1
  /\ \A i \in 1..Len(scheduled') : scheduled'[i] = scheduled[i + 1]
  /\ scheduled[1].block \in Block /\ Started(scheduled[1].block)
  /\ PlacesStay /\ PendingStays /\ UNCHANGED <<nextBlock, queuedBy>>
NewRuns(b) ==
  /\ b = nextBlock /\ nextBlock' = b + 1 /\ queuedBy' = [queuedBy EXCEPT ![b] = NoThread]
  /\ Started(b)
  /\ PlacesStay /\ PendingStays /\ UNCHANGED scheduled
NewQueued(b, w) ==
  /\ b = nextBlock /\ nextBlock' = b + 1 /\ queuedBy' = [queuedBy EXCEPT ![b] = w]
  /\ Len(scheduled) \in Nat /\ Len(scheduled') = Len(scheduled) + 1
  /\ \A i \in 1..Len(scheduled) : scheduled'[i] = scheduled[i]
  /\ scheduled'[Len(scheduled) + 1].block = b
  /\ PlacesStay /\ PendingStays /\ UNCHANGED ran
NewAssigned(t, b) ==
  /\ b = nextBlock /\ nextBlock' = b + 1 /\ ~Pending(t) /\ op'[t].block = b
  /\ \A u \in Thread : u # t => op'[u] = op[u]
  /\ (habit.disciplined => ~Locked) /\ UNCHANGED stack
  /\ PlacesStay /\ UNCHANGED <<scheduled, queuedBy, ran>>
NewListed(b) ==
  /\ b = nextBlock /\ nextBlock' = b + 1 /\ queuedBy' = [queuedBy EXCEPT ![b] = NoThread]
  /\ PlaceMade(b) /\ PendingStays /\ UNCHANGED <<scheduled, ran>>
Listed(t) ==
  /\ Pending(t) /\ ~Pending(t)' /\ op[t].block \in Block
  /\ \A u \in Thread : u # t => op'[u] = op[u]
  /\ PlaceMade(op[t].block) /\ UNCHANGED <<scheduled, nextBlock, queuedBy, ran>>

LEMMA SameLists ==
  ASSUME TypeOK, UNCHANGED lists
  PROVE  PlacesStay
BY DEF PlacesStay, Place, Stays

LEMMA SamePending ==
  ASSUME UNCHANGED op
  PROVE  PendingStays
BY DEF PendingStays, Pending

LEMMA EndsPending ==
  ASSUME OpsEnd
  PROVE  PendingStays
BY DEF PendingStays, Pending, OpsEnd, Idle

LEMMA EmptyListMade ==
  ASSUME TypeOK, lists' = Append(lists, <<>>)
  PROVE  PlacesStay
<1>1. <<>> \in Seq(Block) /\ Len(<<>>) = 0
  OBVIOUS
<1>2. PICK s \in Seq(Block) : s = <<>> /\ Len(s) = 0
  BY <1>1
<1>3. /\ Len(lists') = Len(lists) + 1 /\ Len(lists) \in Nat
      /\ \A l \in 1..Len(lists) : lists'[l] = lists[l]
      /\ lists'[Len(lists) + 1] = s
  BY <1>2, MoreLists
<1>4. ASSUME NEW l \in Nat, NEW i \in Nat, Place(l, i)'
      PROVE  Stays(l, i)
  <2>1. l \in 1..Len(lists) \/ l = Len(lists) + 1
    BY <1>3, <1>4 DEF Place
  <2>2. l # Len(lists) + 1
    BY <1>2, <1>3, <1>4 DEF Place
  <2>3. QED
    BY <1>3, <1>4, <2>1, <2>2 DEF Place, Stays
<1>5. QED
  BY <1>4 DEF PlacesStay

LEMMA ListMade ==
  ASSUME TypeOK, NEW b \in Block, lists' = Append(lists, <<b>>)
  PROVE  PlaceMade(b)
<1>1. <<b>> \in Seq(Block) /\ Len(<<b>>) = 1 /\ <<b>>[1] = b
  OBVIOUS
<1>a. PICK s : s = <<b>>
  OBVIOUS
<1>b. s \in Seq(Block) /\ Len(s) = 1 /\ s[1] = b
  BY <1>1, <1>a
<1>c. PICK j \in Nat : j = 1
  OBVIOUS
<1>2. /\ Len(lists') = Len(lists) + 1 /\ Len(lists) \in Nat
      /\ \A l \in 1..Len(lists) : lists'[l] = lists[l]
      /\ lists'[Len(lists) + 1] = s
  BY <1>a, <1>b, MoreLists
<1>3. PICK k \in Nat : k = Len(lists) + 1
  BY <1>2
<1>4. ASSUME NEW l \in Nat, NEW i \in Nat, Place(l, i)'
      PROVE  Stays(l, i) \/ (l = k /\ i = j /\ lists'[l][i] = b)
  <2>1. l \in 1..Len(lists) \/ l = k
    BY <1>2, <1>3, <1>4 DEF Place
  <2>2. CASE l = k
    <3>1. lists'[l] = s /\ i \in 1..1
      BY <1>b, <1>2, <1>3, <1>4, <2>2 DEF Place
    <3>2. i = j
      BY <1>c, <3>1
    <3>3. QED
      BY <1>b, <1>c, <2>2, <3>1, <3>2
  <2>3. QED
    BY <1>2, <1>4, <2>1, <2>2 DEF Place, Stays
<1>5. QED
  BY <1>4 DEF PlaceMade

LEMMA ListGrown ==
  ASSUME TypeOK, NEW m \in 1..Len(lists), NEW b \in Block,
         lists' = [lists EXCEPT ![m] = Append(@, b)]
  PROVE  PlaceMade(b)
<1>1. /\ Len(lists') = Len(lists) /\ Len(lists) \in Nat
      /\ \A l \in 1..Len(lists) : l # m => lists'[l] = lists[l]
      /\ Len(lists[m]) \in Nat /\ Len(lists'[m]) = Len(lists[m]) + 1
      /\ \A i \in 1..Len(lists[m]) : lists'[m][i] = lists[m][i]
      /\ lists'[m][Len(lists[m]) + 1] = b
  BY LongerList
<1>2. PICK j \in Nat : j = Len(lists[m]) + 1
  BY <1>1
<1>3. m \in Nat
  BY <1>1
<1>4. ASSUME NEW l \in Nat, NEW i \in Nat, Place(l, i)'
      PROVE  Stays(l, i) \/ (l = m /\ i = j /\ lists'[l][i] = b)
  <2>1. l \in 1..Len(lists) /\ i \in 1..Len(lists'[l])
    BY <1>1, <1>4 DEF Place
  <2>2. CASE l # m
    BY <1>1, <2>1, <2>2 DEF Place, Stays
  <2>3. CASE l = m /\ i = j
    BY <1>1, <1>2, <2>3
  <2>4. CASE l = m /\ i # j
    BY <1>1, <1>2, <2>1, <2>4 DEF Place, Stays
  <2>5. QED
    BY <2>2, <2>3, <2>4
<1>5. QED
  BY <1>3, <1>4 DEF PlaceMade

BlockStep ==
  \/ Quiet \/ QueuedRuns
  \/ \E l, i \in Nat : ListedRuns(l, i)
  \/ \E b \in Block :
       \/ NewRuns(b) \/ NewListed(b)
       \/ \E w \in Worker \cup {NoThread} : NewQueued(b, w)
  \/ \E t \in Thread : Listed(t) \/ \E b \in Block : NewAssigned(t, b)

LEMMA RaiseEnds ==
  ASSUME TypeOK, StackOK, stack # <<>>, Raise
  PROVE  OpsEnd
<1>1. PICK d \in Depth : Notify(stack[d].waiter)
  BY RaiseIs
<1>2. stack[d] \in Frame
  BY StackTop
<1>3. stack[d].waiter \in Thread \cup {NoThread}
  BY <1>2 DEF Frame
<1>4. QED
  BY <1>1, <1>3, NotifyIs

LEMMA OpChanges ==
  ASSUME TypeOK, NEW t \in Thread, NEW r, op' = [op EXCEPT ![t] = r],
         r.pc \in {"put", "get", "add"} => Pending(t) /\ r.block = op[t].block
  PROVE  PendingStays
<1>1. op'[t] = r /\ \A u \in Thread : u # t => op'[u] = op[u]
  BY Types
<1>2. QED
  BY <1>1 DEF PendingStays, Pending

LEMMA QuietIs ==
  ASSUME TypeOK, UNCHANGED <<lists, scheduled, nextBlock, queuedBy, ran>>, PendingStays
  PROVE  BlockStep
BY SameLists DEF BlockStep, Quiet

LEMMA TokenNextStep ==
  ASSUME Sane, TokenNext
  PROVE  BlockStep
<1>1. TypeOK /\ StackOK
  BY DEF Sane
<1>2. OnTop("token") /\ Top.at \in Nat /\ Top.list \in Nat
      /\ UNCHANGED <<lists, scheduled, nextBlock, queuedBy>>
  BY <1>1, TokenNextIs DEF history
<1>3. stack # <<>>
  BY <1>2 DEF OnTop
<1>4. ASSUME Top.list \in 1..Len(lists), RunsOne, Top.at + 1 \in 1..Len(lists[Top.list]),
             lists[Top.list][Top.at + 1] \in Block
      PROVE  BlockStep
  <2>1. PICK l \in Nat, i \in Nat : l = Top.list /\ i = Top.at + 1
    BY <1>2
  <2>2. Place(l, i) /\ lists[l][i] \in Block /\ Started(lists[l][i]) /\ UNCHANGED op
    BY <1>4, <2>1 DEF Place, RunsOne
  <2>3. TokenRuns /\ l = stack[Len(stack)].list /\ i = stack[Len(stack)].at + 1
    <3>1. Top = stack[Len(stack)] /\ Top \in Frame /\ SetsIntact
      BY <1>1, <1>3, StackTop, TokenNextIs DEF SetsIntact
    <3>2. TokenRuns
      BY <1>2, <1>4, <3>1, RunsOneRefs
    <3>3. QED
      BY <2>1, <3>1, <3>2
  <2>4. ListedRuns(l, i)
    BY <1>1, <1>2, <2>2, <2>3, SameLists, SamePending DEF ListedRuns
  <2>5. QED
    BY <2>4 DEF BlockStep
<1>5. ASSUME Raise, UNCHANGED ran PROVE BlockStep
  BY <1>1, <1>2, <1>3, <1>5, RaiseEnds, EndsPending, QuietIs
<1>6. ASSUME UNCHANGED <<op, ran>> PROVE BlockStep
  BY <1>1, <1>2, <1>6, SamePending, QuietIs
<1>7. QED
  BY <1>1, <1>4, <1>5, <1>6, TokenNextIs

LEMMA ScheduleStep ==
  ASSUME Sane, NEW t \in Thread, NEW b \in Block, Schedule(t, b) \/ ScheduleWait(t, b)
  PROVE  BlockStep
<1>1. /\ CanCall(t) /\ IsNew(b) /\ NewBlock(b, IF t = Game THEN NoThread ELSE t)
      /\ UNCHANGED lists /\ TypeOK
  BY DEF Schedule, ScheduleWait, Sane
<1>2. PICK w \in Worker \cup {NoThread} : w = IF t = Game THEN NoThread ELSE t
  BY Facts
<1>3. /\ b = nextBlock /\ nextBlock' = b + 1 /\ queuedBy' = [queuedBy EXCEPT ![b] = w]
      /\ PlacesStay
  BY <1>1, <1>2, SameLists DEF NewBlock, IsNew
<1>4. CASE t = Game /\ RunAtOnce(b)
  <2>1. UNCHANGED <<scheduled, op>> /\ Started(b) /\ w = NoThread
    BY <1>2, <1>4 DEF RunAtOnce
  <2>2. NewRuns(b)
    BY <1>3, <2>1, SamePending DEF NewRuns
  <2>3. QED
    BY <2>2 DEF BlockStep
<1>5. ASSUME NEW v \in {t, NoThread}, Enqueue(b, v), UNCHANGED ran, PendingStays
      PROVE  BlockStep
  <2>1. /\ Len(scheduled') = Len(scheduled) + 1 /\ Len(scheduled) \in Nat
        /\ \A i \in 1..Len(scheduled) : scheduled'[i] = scheduled[i]
        /\ scheduled'[Len(scheduled) + 1] = [block |-> b, waiter |-> v]
    BY <1>1, <1>5, EnqueueIs
  <2>2. NewQueued(b, w)
    BY <1>3, <1>5, <2>1 DEF NewQueued
  <2>3. QED
    BY <2>2 DEF BlockStep
<1>6. CASE Enqueue(b, NoThread) /\ UNCHANGED <<op, ran>>
  BY <1>5, <1>6, SamePending
<1>7. CASE /\ Enqueue(b, t) /\ UNCHANGED ran
           /\ op' = [op EXCEPT ![t] = [Idle EXCEPT !.pc = "queued", !.block = b]]
  <2>1. [Idle EXCEPT !.pc = "queued", !.block = b].pc = "queued"
    BY DEF Idle
  <2>2. PICK r : r = [Idle EXCEPT !.pc = "queued", !.block = b]
    OBVIOUS
  <2>3. PendingStays
    BY <1>1, <1>7, <2>1, <2>2, OpChanges
  <2>4. QED
    BY <1>5, <1>7, <2>3
<1>8. QED
  BY <1>4, <1>6, <1>7 DEF Schedule, ScheduleWait

LEMMA AssignStep ==
  ASSUME Sane, NEW t \in Thread, NEW o \in Obj, NEW b \in Block, Assign(t, o, b)
  PROVE  BlockStep
<1>1. PICK pc \in {"put", "get"} :
        op' = [op EXCEPT ![t] = [pc |-> pc, obj |-> o, block |-> b, list |-> 0]]
  BY DEF Assign
<1>2. /\ CanCall(t) /\ IsNew(b) /\ nextBlock' = b + 1
      /\ (habit.disciplined => ~Locked)
      /\ UNCHANGED <<lists, stack, scheduled, ran, queuedBy>>
  BY DEF Assign, AfterAssign
<1>3. op \in [Thread -> OpRecord] /\ TypeOK
  BY Types DEF Sane
<1>4. op'[t].block = b /\ \A u \in Thread : u # t => op'[u] = op[u]
  BY <1>1, <1>3
<1>5. ~Pending(t)
  BY <1>2, CallerIs DEF Pending
<1>6. NewAssigned(t, b)
  BY <1>2, <1>3, <1>4, <1>5, SameLists DEF NewAssigned, IsNew
<1>7. QED
  BY <1>6 DEF BlockStep

LEMMA AssignPutStep ==
  ASSUME Sane, NEW t \in Thread, AssignPut(t)
  PROVE  BlockStep
<1>1. /\ op[t].pc = "put" /\ lists' = Append(lists, <<>>)
      /\ op' = [op EXCEPT ![t] = [op[t] EXCEPT !.pc = "get"]]
      /\ UNCHANGED <<scheduled, ran, nextBlock, queuedBy>>
  BY AssignPutIs
<1>2. TypeOK /\ op[t] \in OpRecord
  BY Types DEF Sane
<1>3. [op[t] EXCEPT !.pc = "get"].block = op[t].block
  BY <1>2 DEF OpRecord
<1>4. PICK r : r = [op[t] EXCEPT !.pc = "get"]
  OBVIOUS
<1>5. PendingStays
  BY <1>1, <1>2, <1>3, <1>4, OpChanges DEF Pending
<1>6. Quiet
  BY <1>1, <1>2, <1>5, EmptyListMade DEF Quiet
<1>7. QED
  BY <1>6 DEF BlockStep

LEMMA AssignGetStep ==
  ASSUME Sane, NEW t \in Thread, AssignGet(t)
  PROVE  BlockStep
<1> DEFINE l == tokenMap[op[t].obj]
           q == IF l = 0 THEN Idle ELSE [op[t] EXCEPT !.pc = "add", !.list = l]
<1>1. /\ op' = [op EXCEPT ![t] = q] /\ op[t].pc = "get"
      /\ UNCHANGED <<scheduled, ran, nextBlock, queuedBy, lists>>
  BY DEF AssignGet, AfterAssign, history
<1>2. TypeOK /\ op[t] \in OpRecord
  BY Types DEF Sane
<1>3. q.pc \in {"put", "get", "add"} => Pending(t) /\ q.block = op[t].block
  <2>1. CASE l = 0
    BY <2>1 DEF Idle
  <2>2. CASE l # 0
    BY <1>1, <1>2, <2>2 DEF OpRecord, Pending
  <2>3. QED
    BY <2>1, <2>2
<1> HIDE DEF l, q
<1>4. PICK r : r = q
  OBVIOUS
<1>5. PendingStays
  BY <1>1, <1>2, <1>3, <1>4, OpChanges
<1>6. QED
  BY <1>1, <1>2, <1>5, QuietIs

LEMMA AssignAddStep ==
  ASSUME Sane, NEW t \in Thread, AssignAdd(t)
  PROVE  BlockStep
<1>1. /\ op[t].pc = "add" /\ op[t].list \in 1..Len(lists) /\ op[t].block \in Block
      /\ lists' = [lists EXCEPT ![op[t].list] = Append(@, op[t].block)]
      /\ op' = [op EXCEPT ![t] = Idle]
      /\ UNCHANGED <<scheduled, ran, nextBlock, queuedBy>>
  BY AssignAddIs
<1>2. TypeOK /\ op \in [Thread -> OpRecord]
  BY Types DEF Sane
<1>3. PlaceMade(op[t].block)
  <2>1. PICK m \in 1..Len(lists), b \in Block : m = op[t].list /\ b = op[t].block
    BY <1>1
  <2>2. PlaceMade(b)
    BY <1>1, <1>2, <2>1, ListGrown
  <2>3. QED
    BY <2>1, <2>2
<1>4. op'[t] = Idle /\ \A u \in Thread : u # t => op'[u] = op[u]
  BY <1>1, <1>2
<1>5. Listed(t)
  BY <1>1, <1>3, <1>4 DEF Listed, Pending, Idle
<1>6. QED
  BY <1>5 DEF BlockStep

LEMMA ListedStep ==
  ASSUME Sane, NEW b \in Block, AssignNow(b) \/ Delay(b)
  PROVE  BlockStep
<1>1. /\ IsNew(b) /\ lists' = Append(lists, <<b>>) /\ NewBlock(b, NoThread)
      /\ UNCHANGED <<scheduled, op, ran>>
  BY DEF AssignNow, Delay
<1>2. NewListed(b)
  BY <1>1, ListMade, SamePending DEF NewListed, NewBlock, IsNew, Sane
<1>3. QED
  BY <1>2 DEF BlockStep

LEMMA RunScheduledStep ==
  ASSUME Sane, RunScheduled
  PROVE  BlockStep
<1>1. /\ Len(scheduled) \in Nat /\ Len(scheduled) >= 1 /\ Len(scheduled') = Len(scheduled) - 1
      /\ \A i \in 1..Len(scheduled') : scheduled'[i] = scheduled[i + 1]
      /\ Started(scheduled[1].block) /\ scheduled[1].block \in Block
      /\ UNCHANGED <<lists, op, nextBlock, queuedBy>>
  BY RunScheduledIs
<1>2. QueuedRuns
  BY <1>1, SameLists, SamePending DEF QueuedRuns, Sane
<1>3. QED
  BY <1>2 DEF BlockStep

LEMMA BlockSteps ==
  ASSUME Sane, [Next]_vars
  PROVE  BlockStep
<1>1. TypeOK /\ StackOK
  BY DEF Sane
<1>2. CASE Event \/ EventEnds \/ FlushQueues \/ HandOutEnds \/ FlushEnds
  <2>1. UNCHANGED <<lists, scheduled, nextBlock, queuedBy, ran, op>>
    BY <1>2 DEF Event, EventEnds, FlushQueues, HandOutEnds, FlushEnds, history
  <2>2. QED
    BY <1>1, <2>1, SamePending, QuietIs
<1>3. CASE \E k \in delayed : DelayIsOver(k)
  <2>1. UNCHANGED <<lists, scheduled, nextBlock, queuedBy, ran, op>>
    BY <1>3 DEF DelayIsOver, history
  <2>2. QED
    BY <1>1, <2>1, SamePending, QuietIs
<1>4. CASE TokenNext
  BY <1>4, TokenNextStep
<1>5. CASE CodeReturns
  <2>1. /\ Notify(Top.waiter) /\ Top \in Frame
        /\ UNCHANGED <<lists, scheduled, nextBlock, queuedBy, ran>>
    BY <1>1, <1>5, StackTop DEF CodeReturns, CodeRuns, OnTop, history
  <2>2. Top.waiter \in Thread \cup {NoThread}
    BY <2>1 DEF Frame
  <2>3. OpsEnd
    BY <1>1, <2>1, <2>2, NotifyIs
  <2>4. QED
    BY <1>1, <2>1, <2>3, EndsPending, QuietIs
<1>6. CASE CodeThrows
  <2>1. /\ Raise /\ stack # <<>>
        /\ UNCHANGED <<lists, scheduled, nextBlock, queuedBy, ran>>
    BY <1>6 DEF CodeThrows, CodeRuns, OnTop, history
  <2>2. QED
    BY <1>1, <2>1, RaiseEnds, EndsPending, QuietIs
<1>7. CASE \E b \in Block : AssignNow(b) \/ Delay(b)
  BY <1>7, ListedStep
<1>8. CASE HandOutNext
  <2>1. stack # <<>> /\ UNCHANGED <<lists, scheduled, nextBlock, queuedBy, ran>>
    BY <1>8, HandOutNextIs
  <2>2. CASE Raise
    BY <1>1, <2>1, <2>2, RaiseEnds, EndsPending, QuietIs
  <2>3. CASE UNCHANGED op
    BY <1>1, <2>1, <2>3, SamePending, QuietIs
  <2>4. QED
    BY <1>8, <2>2, <2>3, HandOutNextIs DEF HandsOut
<1>9. CASE RunScheduled
  BY <1>9, RunScheduledStep
<1>10. CASE \E t \in Thread, b \in Block : Schedule(t, b) \/ ScheduleWait(t, b)
  BY <1>10, ScheduleStep
<1>11. CASE \E t \in Thread, b \in Block, o \in Obj : Assign(t, o, b)
  BY <1>11, AssignStep
<1>12. CASE \E t \in Thread : Wait(t) \/ WakeUp(t)
  <2>1. PICK t \in Thread : Wait(t) \/ WakeUp(t)
    BY <1>12
  <2>2. /\ \E r : op' = [op EXCEPT ![t] = r] /\ r.pc \in {"waiting", "idle"}
        /\ UNCHANGED <<lists, scheduled, nextBlock, queuedBy, ran>>
    <3>1. op[t] \in OpRecord
      BY <1>1, Types
    <3>2. [op[t] EXCEPT !.pc = "waiting"].pc = "waiting" /\ Idle.pc = "idle"
      BY <3>1 DEF OpRecord, Idle
    <3>3. op' = [op EXCEPT ![t] = [op[t] EXCEPT !.pc = "waiting"]] \/ op' = [op EXCEPT ![t] = Idle]
      BY <2>1 DEF Wait, WakeUp
    <3>4. UNCHANGED <<lists, scheduled, nextBlock, queuedBy, ran>>
      BY <2>1 DEF Wait, WakeUp, history
    <3>5. QED
      BY <3>2, <3>3, <3>4
  <2>3. PICK r : op' = [op EXCEPT ![t] = r] /\ r.pc \in {"waiting", "idle"}
    BY <2>2
  <2>4. PendingStays
    BY <1>1, <2>3, OpChanges
  <2>5. QED
    BY <1>1, <2>2, <2>4, QuietIs
<1>13. CASE \E t \in Thread : AssignPut(t) \/ AssignGet(t) \/ AssignAdd(t)
  BY <1>13, AssignPutStep, AssignGetStep, AssignAddStep
<1>14. CASE UNCHANGED vars
  BY <1>1, <1>14, SamePending, QuietIs DEF vars
<1>15. QED
  BY <1>2, <1>3, <1>4, <1>5, <1>6, <1>7, <1>8, <1>9, <1>10, <1>11, <1>12, <1>13, <1>14
  DEF Next, GameStep

-------------------------------------------------------------------------------
(* Workers' blocks are started in their order.                               *)

Queued == 1..Len(scheduled)

QueueOrdered ==
  /\ \A i \in Queued : scheduled[i].block < nextBlock
  /\ \A i, j \in Queued : i < j => scheduled[i].block < scheduled[j].block

\* Blocks in lists, and on their way there, were not scheduled by a worker.
ListsOrdered ==
  /\ \A l, i \in Nat : Place(l, i) => lists[l][i] < nextBlock /\ queuedBy[lists[l][i]] = NoThread
  /\ \A t \in Thread : Pending(t) => queuedBy[op[t].block] = NoThread

FreshUnused == \A b \in Block : b >= nextBlock => queuedBy[b] = NoThread /\ ran[b] = 0

\* What a worker scheduled and was not started is in the queue.
InQueue ==
  \A b \in Block : queuedBy[b] # NoThread /\ ran[b] = 0 => \E i \in Queued : scheduled[i].block = b

Ordered == QueueOrdered /\ ListsOrdered /\ FreshUnused /\ InQueue /\ WorkerOrderKept

LEMMA Numbers ==
  ASSUME TypeOK
  PROVE  /\ nextBlock \in Nat /\ Len(scheduled) \in Nat
         /\ \A b \in Block : b \in Nat
         /\ \A i \in Queued : scheduled[i].block \in Block
         /\ \A l, i \in Nat : Place(l, i) => lists[l][i] \in Block
         /\ \A b \in Block : ran[b] \in Nat /\ queuedBy[b] \in Worker \cup {NoThread}
<1>1. /\ nextBlock \in Nat /\ \A b \in Block : b \in Nat
  BY Types, Facts DEF Block
<1>2. \A b \in Block : ran[b] \in Nat /\ queuedBy[b] \in Worker \cup {NoThread}
  BY Types
<1>3. scheduled \in Seq(Entry)
  BY Types DEF Entry
<1>4. Len(scheduled) \in Nat /\ \A i \in Queued : scheduled[i] \in Entry
  <2> HIDE DEF Entry
  <2>1. QED
    BY <1>3, ElementOfSeq, LenProperties DEF Queued
<1>5. \A i \in Queued : scheduled[i].block \in Block
  BY <1>4 DEF Entry
<1>6. \A l, i \in Nat : Place(l, i) => lists[l][i] \in Block
  <2> TAKE l, i \in Nat
  <2> HAVE Place(l, i)
  <2>1. lists[l] \in Seq(Block) /\ i \in 1..Len(lists[l])
    BY ListsAre DEF Place
  <2>2. QED
    BY <2>1, ElementOfSeq
<1>7. QED
  BY <1>1, <1>2, <1>4, <1>5, <1>6

\* How the tables of the blocks change.
LEMMA Tables ==
  ASSUME Sane, Sane', BlockStep
  PROVE  /\ nextBlock' \in {nextBlock, nextBlock + 1}
         /\ \A b \in Block : ran[b] > 0 => ran'[b] > 0
         /\ \A b \in Block : b # nextBlock \/ nextBlock' = nextBlock => queuedBy'[b] = queuedBy[b]
         /\ \A b \in Block : ran'[b] # ran[b] =>
              \/ b = nextBlock /\ NewRuns(b)
              \/ QueuedRuns /\ b = scheduled[1].block
              \/ \E l, i \in Nat : ListedRuns(l, i) /\ b = lists[l][i]
         /\ \A b \in Block : ran'[b] # ran[b] => ran'[b] = ran[b] + 1
<1>1. TypeOK /\ ran \in [Block -> 0..2] /\ queuedBy \in [Block -> Worker \cup {NoThread}]
  BY Types DEF Sane
<1>2. CASE Quiet
  BY <1>2 DEF Quiet
<1>3. CASE QueuedRuns
  BY <1>1, <1>3, Starting DEF QueuedRuns
<1>4. ASSUME NEW l \in Nat, NEW i \in Nat, ListedRuns(l, i)
      PROVE  /\ nextBlock' = nextBlock /\ queuedBy' = queuedBy
             /\ \A b \in Block : ran[b] > 0 => ran'[b] > 0
             /\ \A b \in Block : ran'[b] # ran[b] => b = lists[l][i] /\ ran'[b] = ran[b] + 1
  BY <1>1, <1>4, Starting DEF ListedRuns
<1>5. ASSUME NEW b \in Block, NewRuns(b)
      PROVE  /\ b = nextBlock /\ nextBlock' = nextBlock + 1
             /\ \A c \in Block : ran[c] > 0 => ran'[c] > 0
             /\ \A c \in Block : ran'[c] # ran[c] => c = b /\ ran'[c] = ran[c] + 1
             /\ \A c \in Block : c # b => queuedBy'[c] = queuedBy[c]
  BY <1>1, <1>5, Starting DEF NewRuns
<1>6. ASSUME NEW b \in Block, NEW w \in Worker \cup {NoThread}, NewQueued(b, w) \/ NewListed(b)
      PROVE  /\ b = nextBlock /\ nextBlock' = nextBlock + 1 /\ ran' = ran
             /\ \A c \in Block : c # b => queuedBy'[c] = queuedBy[c]
  BY <1>1, <1>6 DEF NewQueued, NewListed
<1>7. ASSUME NEW t \in Thread, NEW b \in Block, Listed(t) \/ NewAssigned(t, b)
      PROVE  nextBlock' \in {nextBlock, nextBlock + 1} /\ ran' = ran /\ queuedBy' = queuedBy
  BY <1>1, <1>7 DEF Listed, NewAssigned
<1>8. CASE \E l, i \in Nat : ListedRuns(l, i)
  <2>1. PICK l \in Nat, i \in Nat : ListedRuns(l, i)
    BY <1>8
  <2>2. /\ nextBlock' = nextBlock /\ queuedBy' = queuedBy
        /\ \A b \in Block : ran[b] > 0 => ran'[b] > 0
        /\ \A b \in Block : ran'[b] # ran[b] => b = lists[l][i] /\ ran'[b] = ran[b] + 1
    BY <1>4, <2>1
  <2>3. \A b \in Block : ran'[b] # ran[b] => \E k, j \in Nat : ListedRuns(k, j) /\ b = lists[k][j]
    BY <2>1, <2>2
  <2>4. QED
    BY <2>2, <2>3
<1>9. CASE \E b \in Block : NewRuns(b)
  <2>1. PICK b \in Block : NewRuns(b)
    BY <1>9
  <2>2. /\ b = nextBlock /\ nextBlock' = nextBlock + 1
        /\ \A c \in Block : ran[c] > 0 => ran'[c] > 0
        /\ \A c \in Block : ran'[c] # ran[c] => c = b /\ ran'[c] = ran[c] + 1
        /\ \A c \in Block : c # b => queuedBy'[c] = queuedBy[c]
    BY <1>5, <2>1
  <2>3. \A c \in Block : ran'[c] # ran[c] => c = nextBlock /\ NewRuns(c)
    BY <2>1, <2>2
  <2>4. nextBlock' \in {nextBlock, nextBlock + 1}
    BY <2>2
  <2>5. \A c \in Block : c # nextBlock \/ nextBlock' = nextBlock => queuedBy'[c] = queuedBy[c]
    BY <1>1, <2>2, Facts DEF Sane, TypeOK
  <2>6. QED
    BY <2>2, <2>3, <2>4, <2>5
<1>10. CASE \E b \in Block : NewListed(b) \/ \E w \in Worker \cup {NoThread} : NewQueued(b, w)
  <2>1. PICK b \in Block, w \in Worker \cup {NoThread} : NewQueued(b, w) \/ NewListed(b)
    BY <1>10
  <2>2. /\ b = nextBlock /\ nextBlock' = nextBlock + 1 /\ ran' = ran
        /\ \A c \in Block : c # b => queuedBy'[c] = queuedBy[c]
    BY <1>6, <2>1
  <2>3. nextBlock \in Nat
    BY <1>1, Types, Facts
  <2>4. QED
    BY <2>2, <2>3
<1>11. CASE \E t \in Thread : Listed(t)
  <2>1. PICK t \in Thread : Listed(t)
    BY <1>11
  <2>2. nextBlock' = nextBlock /\ ran' = ran /\ queuedBy' = queuedBy
    BY <2>1 DEF Listed
  <2>3. QED
    BY <2>2
<1>12. CASE \E t \in Thread : \E b \in Block : NewAssigned(t, b)
  BY <1>7, <1>12
<1>13. QED
  BY <1>2, <1>3, <1>8, <1>9, <1>10, <1>11, <1>12 DEF BlockStep

\* What a step does to the queue.
QueueSame == UNCHANGED scheduled
QueueAfter == QueueSame \/ QueuedRuns \/ \E b \in Block, w \in Worker \cup {NoThread} : NewQueued(b, w)

LEMMA QueueSteps == BlockStep => QueueAfter
BY DEF BlockStep, QueueAfter, QueueSame, Quiet, ListedRuns, NewRuns, NewListed, Listed, NewAssigned

LEMMA QueueOrderedNext ==
  ASSUME Sane, Sane', BlockStep, QueueOrdered
  PROVE  QueueOrdered'
<1>1. /\ nextBlock \in Nat /\ Len(scheduled) \in Nat /\ nextBlock' \in {nextBlock, nextBlock + 1}
      /\ \A i \in Queued : scheduled[i].block \in Nat
  BY Numbers, Tables DEF Sane
<1>2. CASE QueueSame
  BY <1>1, <1>2 DEF QueueOrdered, QueueSame, Queued
<1>3. CASE QueuedRuns
  <2>1. /\ Len(scheduled') = Len(scheduled) - 1 /\ nextBlock' = nextBlock
        /\ \A i \in 1..Len(scheduled') : scheduled'[i] = scheduled[i + 1]
    BY <1>3 DEF QueuedRuns
  <2>2. \A i \in Queued' : i + 1 \in Queued /\ scheduled'[i] = scheduled[i + 1]
    BY <1>1, <2>1 DEF Queued
  <2>3. \A i, j \in Queued' : i < j => i + 1 < j + 1
    BY <1>1, <2>1 DEF Queued
  <2>4. QED
    BY <2>1, <2>2, <2>3 DEF QueueOrdered
<1>4. CASE \E b \in Block, w \in Worker \cup {NoThread} : NewQueued(b, w)
  <2>1. PICK b \in Block, w \in Worker \cup {NoThread} : NewQueued(b, w)
    BY <1>4
  <2>2. /\ b = nextBlock /\ nextBlock' = b + 1 /\ Len(scheduled') = Len(scheduled) + 1
        /\ \A i \in 1..Len(scheduled) : scheduled'[i] = scheduled[i]
        /\ scheduled'[Len(scheduled) + 1].block = b
    BY <2>1 DEF NewQueued
  <2>3. \A i \in Queued' : \/ i \in Queued /\ scheduled'[i] = scheduled[i]
                           \/ i = Len(scheduled) + 1 /\ scheduled'[i].block = nextBlock
    <3> TAKE i \in Queued'
    <3>1. i \in Queued \/ i = Len(scheduled) + 1
      BY <1>1, <2>2 DEF Queued
    <3>2. i \in Queued => scheduled'[i] = scheduled[i]
      BY <2>2 DEF Queued
    <3>3. i = Len(scheduled) + 1 => scheduled'[i].block = nextBlock
      BY <2>2
    <3>4. QED
      BY <3>1, <3>2, <3>3
  <2>4. \A i \in Queued : i < Len(scheduled) + 1 /\ scheduled[i].block < nextBlock
    BY <1>1 DEF QueueOrdered, Queued
  <2>5. \A i \in Queued' : scheduled'[i].block < nextBlock'
    <3> TAKE i \in Queued'
    <3>1. CASE i \in Queued /\ scheduled'[i] = scheduled[i]
      BY <1>1, <2>2, <2>4, <3>1
    <3>2. CASE scheduled'[i].block = nextBlock
      BY <1>1, <2>2, <3>2
    <3>3. QED
      BY <2>3, <3>1, <3>2
  <2>6. \A i, j \in Queued' : i < j => scheduled'[i].block < scheduled'[j].block
    <3> TAKE i, j \in Queued'
    <3> HAVE i < j
    <3>1. i \in Queued /\ scheduled'[i] = scheduled[i]
      BY <1>1, <2>2, <2>3 DEF Queued
    <3>2. CASE j \in Queued /\ scheduled'[j] = scheduled[j]
      BY <3>1, <3>2 DEF QueueOrdered
    <3>3. CASE scheduled'[j].block = nextBlock
      BY <2>4, <3>1, <3>3
    <3>4. QED
      BY <2>3, <3>2, <3>3
  <2>7. QED
    BY <2>5, <2>6 DEF QueueOrdered
<1>5. QED
  BY <1>2, <1>3, <1>4, QueueSteps DEF QueueAfter

\* A place in a list after a step.
LEMMA PlaceSteps ==
  ASSUME BlockStep, NEW l \in Nat, NEW i \in Nat, Place(l, i)'
  PROVE  \/ Stays(l, i)
         \/ lists'[l][i] \in Block /\ NewListed(lists'[l][i])
         \/ \E t \in Thread : Listed(t) /\ lists'[l][i] = op[t].block
<1>1. CASE PlacesStay
  BY <1>1 DEF PlacesStay
<1>2. ASSUME NEW b \in Block, NewListed(b)
      PROVE  Stays(l, i) \/ lists'[l][i] = b
  BY <1>2 DEF NewListed, PlaceMade
<1>3. ASSUME NEW t \in Thread, Listed(t)
      PROVE  Stays(l, i) \/ lists'[l][i] = op[t].block
  BY <1>3 DEF Listed, PlaceMade
<1>4. CASE \E b \in Block : NewListed(b)
  BY <1>2, <1>4
<1>5. CASE \E t \in Thread : Listed(t)
  BY <1>3, <1>5
<1>6. QED
  BY <1>1, <1>4, <1>5
  DEF BlockStep, Quiet, ListedRuns, QueuedRuns, NewRuns, NewQueued, NewAssigned

\* An operation of assign after a step.
LEMMA PendingSteps ==
  ASSUME BlockStep, NEW t \in Thread, Pending(t)'
  PROVE  \/ Pending(t) /\ op'[t].block = op[t].block
         \/ op'[t].block \in Block /\ NewAssigned(t, op'[t].block)
<1>1. CASE PendingStays
  BY <1>1 DEF PendingStays
<1>2. ASSUME NEW u \in Thread, Listed(u) PROVE op'[t] = op[t]
  BY <1>2 DEF Listed
<1>3. ASSUME NEW u \in Thread, NEW b \in Block, NewAssigned(u, b)
      PROVE  op'[t] = op[t] \/ (t = u /\ op'[t].block = b)
  BY <1>3 DEF NewAssigned
<1>4. CASE \E u \in Thread : Listed(u)
  BY <1>2, <1>4 DEF Pending
<1>5. CASE \E u \in Thread : \E b \in Block : NewAssigned(u, b)
  BY <1>3, <1>5 DEF Pending
<1>6. QED
  BY <1>1, <1>4, <1>5
  DEF BlockStep, Quiet, ListedRuns, QueuedRuns, NewRuns, NewQueued, NewListed

LEMMA PendingIs ==
  ASSUME Sane, NEW t \in Thread, Pending(t)
  PROVE  op[t].block \in Block /\ op[t].block < nextBlock
BY OpNow, Facts DEF Pending, Block

LEMMA ListsOrderedNext ==
  ASSUME Sane, Sane', BlockStep, ListsOrdered, FreshUnused
  PROVE  ListsOrdered'
<1>1. /\ nextBlock \in Nat /\ nextBlock' \in {nextBlock, nextBlock + 1}
      /\ \A b \in Block : b \in Nat
      /\ \A b \in Block : b < nextBlock => queuedBy'[b] = queuedBy[b]
  BY Numbers, Tables DEF Sane
<1>2. ASSUME NEW l \in Nat, NEW i \in Nat, Place(l, i)'
      PROVE  lists'[l][i] < nextBlock' /\ queuedBy'[lists'[l][i]] = NoThread
  <2>1. CASE Stays(l, i)
    <3>1. lists[l][i] \in Block
      BY <2>1, Numbers DEF Sane, Stays
    <3>2. QED
      BY <1>1, <2>1, <3>1 DEF ListsOrdered, Stays
  <2>2. CASE lists'[l][i] \in Block /\ NewListed(lists'[l][i])
    <3>1. queuedBy \in [Block -> Worker \cup {NoThread}]
      BY Types DEF Sane
    <3>2. QED
      BY <1>1, <2>2, <3>1 DEF NewListed
  <2>3. ASSUME NEW t \in Thread, Listed(t), lists'[l][i] = op[t].block
        PROVE  lists'[l][i] < nextBlock' /\ queuedBy'[lists'[l][i]] = NoThread
    BY <2>3, PendingIs DEF Listed, ListsOrdered
  <2>4. QED
    BY <1>2, <2>1, <2>2, <2>3, PlaceSteps
<1>3. ASSUME NEW t \in Thread, Pending(t)'
      PROVE  queuedBy'[op'[t].block] = NoThread
  <2>1. CASE Pending(t) /\ op'[t].block = op[t].block
    BY <1>1, <2>1, PendingIs DEF ListsOrdered
  <2>2. CASE op'[t].block \in Block /\ NewAssigned(t, op'[t].block)
    BY <1>1, <2>2 DEF NewAssigned, FreshUnused
  <2>3. QED
    BY <1>3, <2>1, <2>2, PendingSteps
<1>4. QED
  BY <1>2, <1>3 DEF ListsOrdered

LEMMA FreshUnusedNext ==
  ASSUME Sane, Sane', BlockStep, QueueOrdered, ListsOrdered, FreshUnused
  PROVE  FreshUnused'
<1>1. /\ nextBlock \in Nat /\ nextBlock' \in {nextBlock, nextBlock + 1}
      /\ \A b \in Block : b \in Nat
      /\ \A b \in Block : b # nextBlock \/ nextBlock' = nextBlock => queuedBy'[b] = queuedBy[b]
  BY Numbers, Tables DEF Sane
<1> SUFFICES ASSUME NEW b \in Block, b >= nextBlock'
             PROVE  queuedBy'[b] = NoThread /\ ran'[b] = 0
  BY DEF FreshUnused
<1>2. b >= nextBlock /\ (b # nextBlock \/ nextBlock' = nextBlock)
  BY <1>1
<1>3. queuedBy'[b] = NoThread
  BY <1>1, <1>2 DEF FreshUnused
<1>4. ran'[b] = ran[b]
  <2>1. ~(b = nextBlock /\ NewRuns(b))
    BY <1>1 DEF NewRuns
  <2>2. ~(QueuedRuns /\ b = scheduled[1].block)
    <3>1. QueuedRuns => 1 \in Queued
      BY DEF QueuedRuns, Queued
    <3>2. QED
      BY <1>1, <1>2, <3>1 DEF QueueOrdered
  <2>3. ~\E l, i \in Nat : ListedRuns(l, i) /\ b = lists[l][i]
    BY <1>1, <1>2 DEF ListedRuns, ListsOrdered
  <2>4. QED
    BY <2>1, <2>2, <2>3, Tables
<1>5. QED
  BY <1>2, <1>3, <1>4 DEF FreshUnused

\* Who is in the queue afterwards.
LEMMA StaysQueued ==
  ASSUME Sane, BlockStep, NEW i \in Queued
  PROVE  \/ QueuedRuns /\ i = 1
         \/ \E j \in Queued' : scheduled'[j].block = scheduled[i].block
<1>1. Len(scheduled) \in Nat /\ i \in 1..Len(scheduled)
  BY Numbers DEF Sane, Queued
<1>2. CASE QueueSame
  BY <1>2 DEF QueueSame, Queued
<1>3. CASE QueuedRuns /\ i # 1
  <2>1. Len(scheduled') = Len(scheduled) - 1
        /\ \A k \in 1..Len(scheduled') : scheduled'[k] = scheduled[k + 1]
    BY <1>3 DEF QueuedRuns
  <2>2. PICK j \in Nat : j + 1 = i
    <3>1. i - 1 \in Nat /\ (i - 1) + 1 = i
      BY <1>1
    <3>2. QED
      BY <3>1
  <2>3. j \in 1..Len(scheduled')
    BY <1>1, <1>3, <2>1, <2>2
  <2>4. QED
    BY <2>1, <2>2, <2>3 DEF Queued
<1>4. CASE \E b \in Block, w \in Worker \cup {NoThread} : NewQueued(b, w)
  BY <1>1, <1>4 DEF NewQueued, Queued
<1>5. QED
  BY <1>2, <1>3, <1>4, QueueSteps DEF QueueAfter

LEMMA InQueueNext ==
  ASSUME Sane, Sane', BlockStep, InQueue
  PROVE  InQueue'
<1>1. /\ ran \in [Block -> 0..2] /\ ran' \in [Block -> 0..2]
      /\ queuedBy \in [Block -> Worker \cup {NoThread}]
      /\ queuedBy' \in [Block -> Worker \cup {NoThread}]
  BY Types DEF Sane, TypeOK
<1> SUFFICES ASSUME NEW b \in Block, queuedBy'[b] # NoThread, ran'[b] = 0
             PROVE  \E j \in Queued' : scheduled'[j].block = b
  BY DEF InQueue
<1>2. ran[b] = 0
  BY <1>1, Tables
<1>3. CASE queuedBy[b] # NoThread
  <2>1. PICK i \in Queued : scheduled[i].block = b
    BY <1>2, <1>3 DEF InQueue
  <2>2. ~(QueuedRuns /\ i = 1)
    BY <1>1, <2>1, Starting DEF QueuedRuns, Sane
  <2>3. QED
    BY <2>1, <2>2, StaysQueued
<1>4. CASE queuedBy[b] = NoThread
  <2>1. queuedBy'[b] # queuedBy[b]
    BY <1>4
  <2>2. PICK c \in Block, w \in Worker \cup {NoThread} :
           NewRuns(c) \/ NewListed(c) \/ NewQueued(c, w)
    BY <2>1 DEF BlockStep, Quiet, ListedRuns, QueuedRuns, Listed, NewAssigned
  <2>3. ~NewRuns(c) /\ ~NewListed(c)
    BY <1>1, <2>1, <1>4 DEF NewRuns, NewListed
  <2>4. b = c
    BY <1>1, <2>1, <2>2, <2>3 DEF NewQueued
  <2>5. Len(scheduled) + 1 \in Queued' /\ scheduled'[Len(scheduled) + 1].block = b
    BY <2>2, <2>3, <2>4 DEF NewQueued, Queued
  <2>6. QED
    BY <2>5
<1>5. QED
  BY <1>3, <1>4

LEMMA WorkerOrderNext ==
  ASSUME Sane, Sane', BlockStep, Ordered
  PROVE  WorkerOrderKept'
<1>1. /\ ran \in [Block -> 0..2] /\ nextBlock \in Nat /\ \A b \in Block : b \in Nat
  BY Types, Numbers DEF Sane
<1> SUFFICES ASSUME NEW b \in Block, NEW c \in Block, b < c, queuedBy'[b] # NoThread,
                    queuedBy'[b] = queuedBy'[c], ran'[c] > 0
             PROVE  ran'[b] > 0
  BY DEF WorkerOrderKept
<1>2. CASE ran[c] > 0
  <2>1. c < nextBlock
    BY <1>1, <1>2 DEF Ordered, FreshUnused
  <2>2. queuedBy'[b] = queuedBy[b] /\ queuedBy'[c] = queuedBy[c]
    BY <1>1, <2>1, Tables
  <2>3. ran[b] > 0
    BY <1>2, <2>2 DEF Ordered, WorkerOrderKept
  <2>4. QED
    BY <2>3, Tables
<1>3. CASE ran[c] = 0
  <2>1. ran'[c] # ran[c]
    BY <1>3
  <2>2. ~(c = nextBlock /\ NewRuns(c))
    <3>1. queuedBy \in [Block -> Worker \cup {NoThread}]
      BY Types DEF Sane
    <3>2. QED
      BY <3>1 DEF NewRuns
  <2>3. ~\E l, i \in Nat : ListedRuns(l, i) /\ c = lists[l][i]
    BY DEF ListedRuns, Ordered, ListsOrdered
  <2>4. QueuedRuns /\ c = scheduled[1].block
    BY <2>1, <2>2, <2>3, Tables
  <2>5. queuedBy[b] # NoThread
    BY <2>4 DEF QueuedRuns
  <2>6. ran[b] # 0
    <3> SUFFICES ASSUME ran[b] = 0 PROVE FALSE
      OBVIOUS
    <3>1. PICK i \in Queued : scheduled[i].block = b
      BY <2>5 DEF Ordered, InQueue
    <3>2. 1 \in Queued /\ (i = 1 \/ 1 < i)
      BY <2>4 DEF QueuedRuns, Queued
    <3>3. i = 1 \/ scheduled[1].block < scheduled[i].block
      BY <3>1, <3>2 DEF Ordered, QueueOrdered
    <3>4. QED
      BY <1>1, <2>4, <3>1, <3>3
  <2>7. ran[b] > 0
    BY <1>1, <2>6
  <2>8. QED
    BY <2>7, Tables
<1>4. QED
  BY <1>1, <1>2, <1>3

LEMMA OrderedInit ==
  ASSUME Init
  PROVE  Ordered
<1>1. /\ scheduled = <<>> /\ lists = <<>> /\ Len(scheduled) = 0 /\ Len(lists) = 0
      /\ \A t \in Thread : ~Pending(t)
      /\ \A b \in Block : queuedBy[b] = NoThread /\ ran[b] = 0
  BY DEF Init, Pending, Idle
<1>2. QueueOrdered
  BY <1>1 DEF QueueOrdered, Queued
<1>3. ListsOrdered
  BY <1>1 DEF ListsOrdered, Place
<1>4. FreshUnused /\ InQueue /\ WorkerOrderKept
  BY <1>1 DEF FreshUnused, InQueue, WorkerOrderKept
<1>5. QED
  BY <1>2, <1>3, <1>4 DEF Ordered

LEMMA OrderedNext ==
  ASSUME Sane, Ordered, [Next]_vars
  PROVE  Ordered'
<1>1. Sane' /\ BlockStep
  BY SaneNext, BlockSteps
<1>2. QueueOrdered /\ ListsOrdered /\ FreshUnused /\ InQueue
  BY DEF Ordered
<1>3. QueueOrdered' /\ ListsOrdered' /\ FreshUnused' /\ InQueue' /\ WorkerOrderKept'
  BY <1>1, <1>2, QueueOrderedNext, ListsOrderedNext, FreshUnusedNext, InQueueNext, WorkerOrderNext
<1>4. QED
  BY <1>3 DEF Ordered

\* Blocks one worker handed to schedule or scheduleWait are started in the order it did so,
\* however calls of flushQueues nest, end early, or are left by exceptions.
THEOREM WorkersBlocksInOrder == Spec => []WorkerOrderKept
<1>1. Init => Sane /\ Ordered
  BY SaneInit, OrderedInit
<1>2. Sane /\ Ordered /\ [Next]_vars => (Sane /\ Ordered)'
  BY SaneNext, OrderedNext
<1>3. Sane /\ Ordered => WorkerOrderKept
  BY DEF Ordered
<1>4. QED
  BY <1>1, <1>2, <1>3, PTL DEF Spec

-------------------------------------------------------------------------------
(* A block is in one place.                                                  *)

\* A block is in one place: in the queue, or in a list, or on its way to one.
ListsApart ==
  \A l, i, m, j \in Nat :
    Place(l, i) /\ Place(m, j) /\ lists[l][i] = lists[m][j] => l = m /\ i = j
QueueApart ==
  \A q \in Queued :
    /\ ran[scheduled[q].block] = 0
    /\ \A l, i \in Nat : Place(l, i) => lists[l][i] # scheduled[q].block
    /\ \A t \in Thread : Pending(t) => op[t].block # scheduled[q].block
PendingApart ==
  \A t \in Thread : Pending(t) =>
    /\ ran[op[t].block] = 0
    /\ \A l, i \in Nat : Place(l, i) => lists[l][i] # op[t].block
    /\ \A u \in Thread : Pending(u) /\ op[u].block = op[t].block => u = t

Apart == ListsApart /\ QueueApart /\ PendingApart

LEMMA MadeApart ==
  ASSUME Sane, Ordered, Apart, BlockStep
  PROVE  \/ PlacesStay
         \/ \E b \in Block : PlaceMade(b) /\ \A l, i \in Nat : Place(l, i) => lists[l][i] # b
<1>1. ASSUME NEW b \in Block, NewListed(b)
      PROVE  PlaceMade(b) /\ \A l, i \in Nat : Place(l, i) => lists[l][i] # b
  BY <1>1, Numbers DEF NewListed, Ordered, ListsOrdered, Sane
<1>2. ASSUME NEW t \in Thread, Listed(t)
      PROVE  /\ op[t].block \in Block /\ PlaceMade(op[t].block)
             /\ \A l, i \in Nat : Place(l, i) => lists[l][i] # op[t].block
  BY <1>2 DEF Listed, Apart, PendingApart
<1>3. CASE \E b \in Block : NewListed(b)
  BY <1>1, <1>3
<1>4. CASE \E t \in Thread : Listed(t)
  BY <1>2, <1>4
<1>5. QED
  BY <1>3, <1>4 DEF BlockStep, Quiet, ListedRuns, QueuedRuns, NewRuns, NewQueued, NewAssigned

LEMMA ListsApartNext ==
  ASSUME Sane, Ordered, Apart, BlockStep
  PROVE  ListsApart'
<1>1. CASE PlacesStay
  <2> SUFFICES ASSUME NEW l \in Nat, NEW i \in Nat, NEW m \in Nat, NEW j \in Nat,
                      Place(l, i)', Place(m, j)', lists'[l][i] = lists'[m][j]
               PROVE  l = m /\ i = j
    BY DEF ListsApart
  <2>1. Stays(l, i) /\ Stays(m, j)
    BY <1>1 DEF PlacesStay
  <2>2. QED
    BY <2>1 DEF Stays, Apart, ListsApart
<1>2. ASSUME NEW b \in Block, PlaceMade(b), \A l, i \in Nat : Place(l, i) => lists[l][i] # b
      PROVE  ListsApart'
  <2>1. PICK k \in Nat, n \in Nat : \A l, i \in Nat :
           Place(l, i)' => Stays(l, i) \/ (l = k /\ i = n /\ lists'[l][i] = b)
    BY <1>2 DEF PlaceMade
  <2> SUFFICES ASSUME NEW l \in Nat, NEW i \in Nat, NEW m \in Nat, NEW j \in Nat,
                      Place(l, i)', Place(m, j)', lists'[l][i] = lists'[m][j]
               PROVE  l = m /\ i = j
    BY DEF ListsApart
  <2>2. Stays(l, i) => lists'[l][i] # b
    BY <1>2 DEF Stays
  <2>3. Stays(m, j) => lists'[m][j] # b
    BY <1>2 DEF Stays
  <2>4. CASE Stays(l, i) /\ Stays(m, j)
    BY <2>4 DEF Stays, Apart, ListsApart
  <2>5. QED
    BY <2>1, <2>2, <2>3, <2>4
<1>3. QED
  BY <1>1, <1>2, MadeApart

\* A block that is not started by a step.
LEMMA NotStarted ==
  ASSUME Sane, Sane', BlockStep, NEW b \in Block, ran[b] = 0, b # nextBlock \/ nextBlock' = nextBlock,
         QueuedRuns => scheduled[1].block # b,
         \A l, i \in Nat : Place(l, i) => lists[l][i] # b
  PROVE  ran'[b] = 0
<1>1. ~(b = nextBlock /\ NewRuns(b))
  BY Numbers DEF NewRuns, Sane
<1>2. ~\E l, i \in Nat : ListedRuns(l, i) /\ b = lists[l][i]
  BY DEF ListedRuns
<1>3. QED
  BY <1>1, <1>2, Tables

\* What was where in the queue before.
LEMMA WasQueued ==
  ASSUME Sane, BlockStep, NEW q \in Queued'
  PROVE  \/ \E p \in Queued : scheduled'[q].block = scheduled[p].block /\ (QueuedRuns => p # 1)
         \/ /\ scheduled'[q].block = nextBlock /\ nextBlock \in Block
            /\ PlacesStay /\ PendingStays /\ UNCHANGED ran
<1>1. Len(scheduled) \in Nat
  BY Numbers DEF Sane
<1>2. CASE QueueSame /\ ~QueuedRuns
  BY <1>2 DEF QueueSame, Queued
<1>3. CASE QueuedRuns
  <2>1. Len(scheduled') = Len(scheduled) - 1
        /\ \A k \in 1..Len(scheduled') : scheduled'[k] = scheduled[k + 1]
    BY <1>3 DEF QueuedRuns
  <2>2. q + 1 \in Queued /\ scheduled'[q] = scheduled[q + 1] /\ q + 1 # 1
    BY <1>1, <2>1 DEF Queued
  <2>3. QED
    BY <2>2
<1>4. CASE \E b \in Block, w \in Worker \cup {NoThread} : NewQueued(b, w)
  <2>1. PICK b \in Block, w \in Worker \cup {NoThread} : NewQueued(b, w)
    BY <1>4
  <2>2. /\ b = nextBlock /\ Len(scheduled') = Len(scheduled) + 1
        /\ \A i \in 1..Len(scheduled) : scheduled'[i] = scheduled[i]
        /\ scheduled'[Len(scheduled) + 1].block = b
        /\ PlacesStay /\ PendingStays /\ UNCHANGED ran
    BY <2>1 DEF NewQueued
  <2>3. ~QueuedRuns
    BY <1>1, <2>2 DEF QueuedRuns
  <2>4. q \in Queued \/ q = Len(scheduled) + 1
    BY <1>1, <2>2 DEF Queued
  <2>5. CASE q \in Queued
    BY <2>2, <2>3, <2>5 DEF Queued
  <2>6. CASE q = Len(scheduled) + 1
    BY <2>2, <2>6
  <2>7. QED
    BY <2>4, <2>5, <2>6
<1>5. QED
  BY <1>2, <1>3, <1>4, QueueSteps DEF QueueAfter

LEMMA QueueApartNext ==
  ASSUME Sane, Sane', Ordered, Apart, BlockStep
  PROVE  QueueApart'
<1>1. /\ nextBlock \in Nat /\ nextBlock' \in {nextBlock, nextBlock + 1}
      /\ \A b \in Block : b \in Nat
      /\ \A i \in Queued : scheduled[i].block \in Block
  BY Numbers, Tables DEF Sane
<1> SUFFICES ASSUME NEW q \in Queued'
             PROVE  /\ ran'[scheduled'[q].block] = 0
                    /\ \A l, i \in Nat : Place(l, i)' => lists'[l][i] # scheduled'[q].block
                    /\ \A t \in Thread : Pending(t)' => op'[t].block # scheduled'[q].block
  BY DEF QueueApart
<1>2. ASSUME NEW p \in Queued, scheduled'[q].block = scheduled[p].block, QueuedRuns => p # 1
      PROVE  /\ ran'[scheduled'[q].block] = 0
             /\ \A l, i \in Nat : Place(l, i)' => lists'[l][i] # scheduled'[q].block
             /\ \A t \in Thread : Pending(t)' => op'[t].block # scheduled'[q].block
  <2> PICK b \in Block : b = scheduled[p].block
    BY <1>1
  <2>1. /\ ran[b] = 0 /\ b < nextBlock
        /\ \A l, i \in Nat : Place(l, i) => lists[l][i] # b
        /\ \A t \in Thread : Pending(t) => op[t].block # b
    BY DEF Apart, QueueApart, Ordered, QueueOrdered
  <2>2. QueuedRuns => scheduled[1].block # b
    <3>1. QueuedRuns => 1 \in Queued /\ 1 < p
      BY <1>2 DEF QueuedRuns, Queued
    <3>2. QED
      BY <1>1, <3>1 DEF Ordered, QueueOrdered
  <2>3. ran'[b] = 0
    BY <1>1, <2>1, <2>2, NotStarted
  <2>4. ASSUME NEW l \in Nat, NEW i \in Nat, Place(l, i)' PROVE lists'[l][i] # b
    <3>1. CASE Stays(l, i)
      BY <2>1, <3>1 DEF Stays
    <3>2. CASE NewListed(lists'[l][i])
      BY <1>1, <2>1, <3>2 DEF NewListed
    <3>3. CASE \E t \in Thread : Listed(t) /\ lists'[l][i] = op[t].block
      BY <2>1, <3>3 DEF Listed
    <3>4. QED
      BY <2>4, <3>1, <3>2, <3>3, PlaceSteps
  <2>5. ASSUME NEW t \in Thread, Pending(t)' PROVE op'[t].block # b
    <3>1. CASE Pending(t) /\ op'[t].block = op[t].block
      BY <2>1, <3>1
    <3>2. CASE NewAssigned(t, op'[t].block)
      BY <1>1, <2>1, <3>2 DEF NewAssigned
    <3>3. QED
      BY <2>5, <3>1, <3>2, PendingSteps
  <2>6. QED
    BY <1>2, <2>3, <2>4, <2>5
<1>3. ASSUME scheduled'[q].block = nextBlock, nextBlock \in Block, PlacesStay, PendingStays,
             UNCHANGED ran
      PROVE  /\ ran'[scheduled'[q].block] = 0
             /\ \A l, i \in Nat : Place(l, i)' => lists'[l][i] # scheduled'[q].block
             /\ \A t \in Thread : Pending(t)' => op'[t].block # scheduled'[q].block
  <2>1. ran[nextBlock] = 0
    BY <1>1, <1>3 DEF Ordered, FreshUnused
  <2>2. \A l, i \in Nat : Place(l, i)' => lists'[l][i] # nextBlock
    BY <1>1, <1>3, Numbers DEF PlacesStay, Stays, Ordered, ListsOrdered, Sane
  <2>3. \A t \in Thread : Pending(t)' => op'[t].block # nextBlock
    <3> TAKE t \in Thread
    <3> HAVE Pending(t)'
    <3>1. Pending(t) /\ op'[t].block = op[t].block
      BY <1>3 DEF PendingStays
    <3>2. QED
      BY <1>1, <3>1, PendingIs
  <2>4. QED
    BY <1>3, <2>1, <2>2, <2>3
<1>4. QED
  BY <1>2, <1>3, WasQueued

LEMMA PendingApartNext ==
  ASSUME Sane, Sane', Ordered, Apart, BlockStep
  PROVE  PendingApart'
<1>1. /\ nextBlock \in Nat /\ nextBlock' \in {nextBlock, nextBlock + 1}
      /\ \A b \in Block : b \in Nat
      /\ \A l, i \in Nat : Place(l, i) => lists[l][i] \in Block /\ lists[l][i] < nextBlock
  BY Numbers, Tables DEF Sane, Ordered, ListsOrdered
<1> SUFFICES ASSUME NEW t \in Thread, Pending(t)'
             PROVE  /\ ran'[op'[t].block] = 0
                    /\ \A l, i \in Nat : Place(l, i)' => lists'[l][i] # op'[t].block
                    /\ \A u \in Thread : Pending(u)' /\ op'[u].block = op'[t].block => u = t
  BY DEF PendingApart
<1>2. ASSUME Pending(t), op'[t].block = op[t].block
      PROVE  /\ ran'[op'[t].block] = 0
             /\ \A l, i \in Nat : Place(l, i)' => lists'[l][i] # op'[t].block
             /\ \A u \in Thread : Pending(u)' /\ op'[u].block = op'[t].block => u = t
  <2>1. PICK b \in Block : b = op[t].block
    BY <1>2, PendingIs
  <2>2. /\ ran[b] = 0 /\ b < nextBlock
        /\ \A l, i \in Nat : Place(l, i) => lists[l][i] # b
        /\ \A u \in Thread : Pending(u) /\ op[u].block = b => u = t
    BY <1>2, <2>1, PendingIs DEF Apart, PendingApart
  <2>3. QueuedRuns => scheduled[1].block # b
    <3>1. QueuedRuns => 1 \in Queued
      BY DEF QueuedRuns, Queued
    <3>2. QED
      BY <1>2, <2>1, <3>1 DEF Apart, QueueApart
  <2>4. ran'[b] = 0
    BY <1>1, <2>2, <2>3, NotStarted
  <2>5. ASSUME NEW l \in Nat, NEW i \in Nat, Place(l, i)' PROVE lists'[l][i] # b
    <3>1. CASE Stays(l, i)
      BY <2>2, <3>1 DEF Stays
    <3>2. CASE NewListed(lists'[l][i])
      BY <1>1, <2>2, <3>2 DEF NewListed
    <3>3. ASSUME NEW u \in Thread, Listed(u), lists'[l][i] = op[u].block PROVE lists'[l][i] # b
      <4>1. u # t /\ Pending(u)
        BY <3>3 DEF Listed
      <4>2. QED
        BY <2>2, <3>3, <4>1
    <3>4. QED
      BY <2>5, <3>1, <3>2, <3>3, PlaceSteps
  <2>6. ASSUME NEW u \in Thread, Pending(u)', op'[u].block = b PROVE u = t
    <3>1. CASE Pending(u) /\ op'[u].block = op[u].block
      BY <2>2, <2>6, <3>1
    <3>2. CASE NewAssigned(u, op'[u].block)
      BY <1>1, <2>2, <2>6, <3>2 DEF NewAssigned
    <3>3. QED
      BY <2>6, <3>1, <3>2, PendingSteps
  <2>7. QED
    BY <1>2, <2>1, <2>4, <2>5, <2>6
<1>3. ASSUME NEW b \in Block, b = op'[t].block, NewAssigned(t, b)
      PROVE  /\ ran'[b] = 0
             /\ \A l, i \in Nat : Place(l, i)' => lists'[l][i] # b
             /\ \A u \in Thread : Pending(u)' /\ op'[u].block = b => u = t
  <2>1. /\ b = nextBlock /\ PlacesStay /\ UNCHANGED ran
        /\ \A u \in Thread : u # t => op'[u] = op[u]
    BY <1>3 DEF NewAssigned
  <2>2. ran[b] = 0
    BY <1>1, <2>1 DEF Ordered, FreshUnused
  <2>3. \A l, i \in Nat : Place(l, i)' => lists'[l][i] # b
    BY <1>1, <2>1 DEF PlacesStay, Stays
  <2>4. \A u \in Thread : Pending(u)' /\ op'[u].block = b => u = t
    <3> SUFFICES ASSUME NEW u \in Thread, Pending(u)', op'[u].block = b, u # t PROVE FALSE
      OBVIOUS
    <3>1. Pending(u) /\ op[u].block = b
      BY <2>1 DEF Pending
    <3>2. QED
      BY <1>1, <2>1, <3>1, PendingIs
  <2>5. QED
    BY <2>1, <2>2, <2>3, <2>4
<1>4. QED
  BY <1>2, <1>3, PendingSteps

LEMMA ApartInit ==
  ASSUME Init
  PROVE  Apart
<1>1. /\ Len(scheduled) = 0 /\ Len(lists) = 0 /\ \A t \in Thread : ~Pending(t)
  BY DEF Init, Pending, Idle
<1>2. QED
  BY <1>1 DEF Apart, ListsApart, QueueApart, PendingApart, Queued, Place

LEMMA ApartNext ==
  ASSUME Sane, Ordered, Apart, [Next]_vars
  PROVE  Apart'
<1>1. Sane' /\ BlockStep
  BY SaneNext, BlockSteps
<1>2. QED
  BY <1>1, ListsApartNext, QueueApartNext, PendingApartNext DEF Apart

-------------------------------------------------------------------------------
(* What a step does to the references to lists: the other actions.           *)

LEMMA ScheduleRefs ==
  ASSUME Sane, NEW t \in Thread, NEW b \in Block, Schedule(t, b) \/ ScheduleWait(t, b)
  PROVE  RefStep
<1>1. TypeOK /\ SetsIntact
  BY DEF Sane, Schedule, ScheduleWait, SetsIntact, NewBlock, RunAtOnce
<1>2. CASE UNCHANGED stack
  BY <1>1, <1>2, SameStack DEF Still, RefStep
<1>3. CASE RunAtOnce(b)
  <2>1. PICK f : f = Code(NoThread)
    OBVIOUS
  <2>2. f \in Frame /\ Plain(f) /\ stack' = Append(stack, f)
    <3>1. NoThread \in Thread \cup {NoThread}
      OBVIOUS
    <3>2. QED
      BY <1>3, <2>1, <3>1, CodeIs, PlainCode DEF RunAtOnce
  <2>3. QED
    BY <1>1, <2>2, PushedPlain DEF Still, RefStep
<1>4. QED
  BY <1>2, <1>3 DEF Schedule, ScheduleWait

LEMMA RunScheduledRefs ==
  ASSUME Sane, RunScheduled
  PROVE  RefStep
<1>1. TypeOK /\ SetsIntact
  BY DEF Sane, RunScheduled, SetsIntact
<1>2. PICK w \in Thread \cup {NoThread} : w = scheduled[1].waiter /\ stack' = Append(stack, Code(w))
  BY RunScheduledIs
<1>3. PICK f : f = Code(w)
  OBVIOUS
<1>4. f \in Frame /\ Plain(f) /\ stack' = Append(stack, f)
  BY <1>2, <1>3, CodeIs, PlainCode
<1>5. QED
  BY <1>1, <1>4, PushedPlain DEF Still, RefStep

LEMMA DelayIsOverRefs ==
  ASSUME Sane, NEW k \in delayed, DelayIsOver(k)
  PROVE  RefStep
<1>1. TypeOK /\ stack = <<>> /\ k \in 0..MaxToken
  BY Types DEF Sane, DelayIsOver
<1>2. /\ delayed' = delayed \ {k} /\ UNCHANGED <<tokenMap, lastToken>>
      /\ Token(stack, tokenSets, lists, k)
  BY DEF DelayIsOver
<1>3. tokenSets' = [tokenSets EXCEPT ![k] = 0] /\ missed' = (missed \/ tokenSets[k] = 0)
      /\ stack' = Append(stack, TokenFrame(tokenSets, lists, k))
  BY <1>2 DEF Token, TokenFrame
<1>4. missed' \in BOOLEAN /\ (tokenSets[k] # 0 => UNCHANGED missed)
  BY <1>1, <1>3 DEF TypeOK
<1>5. TokenPushed(tokenSets[k], lists)
  <2>1. PICK f : f = TokenFrame(tokenSets, lists, k)
    OBVIOUS
  <2>2. f \in Frame /\ NewToken(f, tokenSets[k], lists)
    BY <1>1, <2>1, TokenFrameHere DEF NewToken
  <2>3. PICK l, ls : l = tokenSets[k] /\ ls = lists
    OBVIOUS
  <2>4. NewToken(f, l, ls) /\ stack' = Append(stack, f)
    BY <1>3, <2>1, <2>2, <2>3
  <2>5. TokenPushed(l, ls)
    BY <1>1, <2>2, <2>4, PushedToken
  <2>6. QED
    BY <2>3, <2>5
<1>6. Called(k)
  BY <1>1, <1>2, <1>3, <1>4, <1>5 DEF Called
<1>7. QED
  BY <1>6 DEF RefStep

LEMMA AssignNowRefs ==
  ASSUME Sane, NEW b \in Block, AssignNow(b)
  PROVE  RefStep
<1>1. /\ lastToken' = lastToken + 1 /\ lastToken \in 0..MaxToken
      /\ tokenSets' = [tokenSets EXCEPT ![lastToken] = 0]
      /\ missed' = missed
      /\ \E f \in Frame : stack' = Append(stack, f) /\ NewToken(f, Len(lists) + 1, lists')
      /\ UNCHANGED <<tokenMap, delayed>>
  BY AssignNowIs
<1>2. PICK f \in Frame : stack' = Append(stack, f) /\ NewToken(f, Len(lists) + 1, lists')
  BY <1>1
<1>3. PICK l, ls : l = Len(lists) + 1 /\ ls = lists'
  OBVIOUS
<1>4. TokenPushed(l, ls)
  BY <1>2, <1>3, PushedToken DEF Sane
<1>5. TokenPushed(Len(lists) + 1, lists')
  BY <1>3, <1>4
<1>6. QED
  BY <1>1, <1>5 DEF MadeNow, TokenMade, RefStep

LEMMA DelayRefs ==
  ASSUME Sane, NEW b \in Block, Delay(b)
  PROVE  RefStep
<1>1. /\ lastToken' = lastToken + 1 /\ lastToken \in 0..MaxToken
      /\ tokenSets' = [tokenSets EXCEPT ![lastToken] = Len(lists) + 1]
      /\ delayed' = delayed \cup {lastToken}
      /\ UNCHANGED <<tokenMap, stack, missed>>
  BY DelayIs
<1>2. QED
  BY <1>1, SameStack DEF Postponed, TokenMade, RefStep, Sane

LEMMA FlushQueuesRefs ==
  ASSUME Sane, FlushQueues
  PROVE  RefStep
<1>1. TypeOK /\ SetsIntact /\ (habit.disciplined => ~Locked) /\ ~Pending(Game)'
  BY DEF Sane, FlushQueues, SetsIntact, CodeRuns, Pending
<1>2. PICK todo \in SUBSET Obj : todo = {o \in Obj : tokenMap[o] # 0}
  OBVIOUS
<1>3. PICK f : f = [FrameOf("assign") EXCEPT !.todo = todo]
  OBVIOUS
<1>4. /\ f \in Frame /\ f.kind = "assign" /\ f.list = 0 /\ f.touched = FALSE /\ f.todo = todo
  BY <1>3, FlushFrame
<1>5. stack' = Append(stack, f)
  BY <1>2, <1>3 DEF FlushQueues
<1> HIDE DEF Frame
<1>6. PICK m \in Nat : m = Len(stack)
  <2>1. Len(stack) \in Nat
    BY <1>1, StackTop
  <2>2. QED
    BY <2>1
<1>7. Keeps(m, m + 1) /\ stack'[m + 1] = f
  BY <1>1, <1>4, <1>5, <1>6, PushFrames
<1>8. PICK n \in Nat : n = m + 1
  OBVIOUS
<1>9. Keeps(m, n)
  BY <1>7, <1>8
<1>10. AssignsStay /\ \A d \in Depth' : FrameStays(d) \/ d \in (m + 1)..n
  BY <1>1, <1>6, <1>9, PushedFrames
<1>11. \A d \in (m + 1)..n : d = Len(stack) + 1 /\ stack'[d] = f
  <2>1. \A d \in (m + 1)..n : d = m + 1
    BY <1>8
  <2>2. QED
    BY <1>6, <1>7, <2>1
<1>12. Flushes
  BY <1>1, <1>2, <1>4, <1>10, <1>11 DEF Flushes
<1>13. QED
  BY <1>12 DEF RefStep

LEMMA HandOutNextRefs ==
  ASSUME Sane, HandOutNext
  PROVE  RefStep
<1>1. /\ OnTop("assign") /\ stack # <<>> /\ UNCHANGED <<tokenMap, delayed>>
  BY HandOutNextIs
<1>2. /\ TypeOK /\ StackOK /\ Top.kind = "assign" /\ Len(stack) \in Nat /\ Len(stack) \in Depth
      /\ Top = stack[Len(stack)] /\ Len(stack) >= 1
  BY <1>1, StackTop DEF Sane, OnTop
<1>3. ASSUME Raise, UNCHANGED <<tokenSets, lastToken, missed>>, Top.touched = TRUE PROVE RefStep
  <2>1. PICK n \in 0..Len(stack) :
          stack' \in Seq(Frame) /\ Len(stack') = n /\ \A e \in 1..n : stack'[e] = stack[e]
    BY <1>1, <1>2, <1>3, RaiseIs
  <2>2. \A d \in Depth' : FrameStays(d)
    BY <1>2, <2>1 DEF Depth, FrameStays
  <2>3. QED
    BY <1>1, <1>2, <1>3, <2>2 DEF Fails, SetsIntact, RefStep
<1>4. ASSUME NEW o \in Obj, NEW f \in Frame, NEW g \in Frame, HandsOut(o, f, g)
      PROVE  HandsList(o)
  <2> HIDE DEF Frame
  <2>1. PICK m \in Nat : m + 1 = Len(stack)
    <3>1. Len(stack) - 1 \in Nat /\ (Len(stack) - 1) + 1 = Len(stack)
      BY <1>2
    <3>2. QED
      BY <3>1
  <2>2. stack' = Append(Append(Below, f), g)
    BY <1>4 DEF HandsOut
  <2>3. /\ Keeps(Len(stack) - 1, Len(stack) + 1)
        /\ stack'[Len(stack)] = f /\ stack'[Len(stack) + 1] = g
    BY <1>1, <1>2, <1>4, <2>2, ReplaceFrames
  <2>4. Depth' = 1..(Len(stack) + 1) /\ \A d \in 1..m : stack'[d] = stack[d]
    BY <2>1, <2>3 DEF Keeps, Depth
  <2>5. \A d \in 1..(Len(stack) + 1) : d \in 1..m \/ d = Len(stack) \/ d = Len(stack) + 1
    BY <1>2, <2>1
  <2>6. \A d \in 1..m : d < Len(stack) /\ FrameStays(d)
    BY <1>2, <2>1, <2>4 DEF FrameStays, Depth
  <2>7. f.kind = "assign" /\ f.touched = FALSE /\ f.list = 0 /\ f.todo = Top.todo \ {o}
        /\ NewToken(g, tokenMap[o], lists) /\ o \in Top.todo /\ Top.touched = FALSE
    BY <1>4 DEF HandsOut
  <2>8. \A d \in Depth' :
          \/ d < Len(stack) /\ FrameStays(d)
          \/ /\ d = Len(stack) /\ stack'[d].kind = "assign" /\ stack'[d].touched = FALSE
             /\ stack'[d].list = 0 /\ stack'[d].todo = stack[d].todo \ {o}
          \/ d = Len(stack) + 1 /\ NewToken(stack'[d], tokenMap[o], lists)
    <3> TAKE d \in Depth'
    <3>1. d \in 1..m \/ d = Len(stack) \/ d = Len(stack) + 1
      BY <2>4, <2>5
    <3>2. CASE d \in 1..m
      BY <2>6, <3>2
    <3>3. CASE d = Len(stack)
      BY <1>2, <2>3, <2>7, <3>3
    <3>4. CASE d = Len(stack) + 1
      BY <2>3, <2>7, <3>4
    <3>5. QED
      BY <3>1, <3>2, <3>3, <3>4
  <2>9. Len(stack) \in Depth' /\ Len(stack) + 1 \in Depth'
    BY <1>2, <2>4
  <2>10. TokenMade(0) /\ missed' \in BOOLEAN /\ (tokenMap[o] # 0 => UNCHANGED missed)
    BY <1>1, <1>4 DEF HandsOut, TokenMade
  <2>11. QED
    BY <1>1, <1>2, <2>7, <2>8, <2>9, <2>10 DEF HandsList
<1>5. QED
  BY <1>3, <1>4, HandOutNextIs DEF RefStep

LEMMA HandOutEndsRefs ==
  ASSUME Sane, HandOutEnds
  PROVE  RefStep
<1>1. TypeOK
  BY DEF Sane
<1>2. /\ OnTop("assign") /\ stack # <<>> /\ Top.todo = {}
      /\ tokenMap' = [o \in Obj |-> 0]
      /\ UNCHANGED <<tokenSets, delayed, lastToken, missed>>
      /\ Len(stack) >= 1 /\ Alike(Len(stack) - 1, Len(stack))
      /\ stack'[Len(stack)] = FrameOf("sched")
      /\ \A d \in 1..(Len(stack) - 1) :
           stack'[d] = IF stack[d].kind = "assign" THEN [stack[d] EXCEPT !.touched = TRUE]
                                                   ELSE stack[d]
  BY <1>1, HandOutEndsIs
<1>3. /\ Len(stack) \in Nat /\ Len(stack) \in Depth
      /\ Top = stack[Len(stack)] /\ stack[Len(stack)].kind = "assign"
  BY <1>1, <1>2, StackTop DEF OnTop
<1>4. Depth' = 1..Len(stack)
  BY <1>2 DEF Alike, Depth
<1>5. Plain(FrameOf("sched"))
  BY DEF Plain, FrameOf
<1>6. \A d \in Depth' :
       \/ d < Len(stack) /\ stack[d].kind # "assign" /\ FrameStays(d)
       \/ /\ d \in Depth /\ d < Len(stack) /\ stack[d].kind = "assign"
          /\ stack'[d] = [stack[d] EXCEPT !.touched = TRUE]
       \/ Plain(stack'[d])
  <2> TAKE d \in Depth'
  <2>1. CASE d = Len(stack)
    BY <1>2, <1>5, <2>1
  <2>2. CASE d # Len(stack)
    <3>1. d \in 1..(Len(stack) - 1) /\ d < Len(stack) /\ d \in Depth
      BY <1>3, <1>4, <2>2 DEF Depth
    <3>2. QED
      BY <1>2, <3>1 DEF FrameStays
  <2>3. QED
    BY <2>1, <2>2
<1>7. Clears
  BY <1>2, <1>3, <1>6 DEF Clears
<1>8. QED
  BY <1>7 DEF RefStep

LEMMA AssignPutRefs ==
  ASSUME Sane, NEW t \in Thread, AssignPut(t)
  PROVE  RefStep
<1>1. /\ op[t].pc = "put" /\ CanLock(t) /\ op[t].obj \in Obj
      /\ lists' = Append(lists, <<>>) /\ <<>> \in Seq(Block)
      /\ tokenMap' = [tokenMap EXCEPT ![op[t].obj] = Len(lists) + 1]
      /\ stack' \in {stack, Touch(stack)}
      /\ UNCHANGED <<tokenSets, lastToken, delayed, missed>>
  BY AssignPutIs
<1>2. TypeOK /\ Len(stack) \in Nat
  BY StackTop DEF Sane
<1>3. PICK m \in Nat : m = Len(stack)
  BY <1>2
<1>4. Alike(m, m)
  BY <1>1, <1>2, <1>3, TouchedIs
<1>5. Len(lists') = Len(lists) + 1 /\ lists'[Len(lists) + 1] = <<>>
  BY <1>1, <1>2, MoreLists
<1>6. Depth' = Depth
  BY <1>3, <1>4 DEF Alike, Depth
<1>7. \A d \in Depth :
       stack'[d] = stack[d] \/ (stack[d].kind = "assign" /\ stack'[d] = [stack[d] EXCEPT !.touched = TRUE])
  BY <1>3, <1>4 DEF Alike, Depth
<1>8. Puts(t)
  BY <1>1, <1>5, <1>6, <1>7 DEF Puts, Pending
<1>9. QED
  BY <1>8 DEF RefStep

LEMMA RefSteps ==
  ASSUME Sane, [Next]_vars
  PROVE  RefStep
<1>1. TypeOK
  BY DEF Sane
<1>2. CASE Event
  BY <1>1, <1>2, EventRefs
<1>3. CASE EventEnds \/ CodeReturns \/ FlushEnds
  BY <1>3, PoppingRefs
<1>4. CASE \E k \in delayed : DelayIsOver(k)
  BY <1>4, DelayIsOverRefs
<1>5. CASE TokenNext
  BY <1>5, TokenNextRefs
<1>6. CASE CodeThrows
  <2>1. Raise /\ stack # <<>> /\ Top.kind # "assign" /\ SetsIntact
    BY <1>6 DEF CodeThrows, CodeRuns, OnTop, SetsIntact
  <2>2. QED
    BY <2>1, RaisingRefs
<1>7. CASE \E b \in Block : AssignNow(b) \/ Delay(b)
  BY <1>7, AssignNowRefs, DelayRefs
<1>8. CASE FlushQueues
  BY <1>8, FlushQueuesRefs
<1>9. CASE HandOutNext
  BY <1>9, HandOutNextRefs
<1>10. CASE HandOutEnds
  BY <1>10, HandOutEndsRefs
<1>11. CASE RunScheduled
  BY <1>11, RunScheduledRefs
<1>12. CASE \E t \in Thread, b \in Block : Schedule(t, b) \/ ScheduleWait(t, b)
  BY <1>12, ScheduleRefs
<1>13. CASE \E t \in Thread : AssignPut(t)
  BY <1>13, AssignPutRefs
<1>14. ASSUME UNCHANGED stack, SetsIntact PROVE RefStep
  BY <1>1, <1>14, SameStack DEF Still, RefStep
<1>15. CASE \E t \in Thread, b \in Block, o \in Obj : Assign(t, o, b)
  BY <1>14, <1>15 DEF Assign, AfterAssign, SetsIntact
<1>16. CASE \E t \in Thread : Wait(t) \/ WakeUp(t) \/ AssignGet(t) \/ AssignAdd(t)
  BY <1>14, <1>16 DEF Wait, WakeUp, AssignGet, AssignAdd, AfterAssign, SetsIntact
<1>17. CASE UNCHANGED vars
  BY <1>14, <1>17 DEF vars, SetsIntact
<1>18. QED
  BY <1>2, <1>3, <1>4, <1>5, <1>6, <1>7, <1>8, <1>9, <1>10, <1>11, <1>12, <1>13, <1>15,
     <1>16, <1>17 DEF Next, GameStep

-------------------------------------------------------------------------------
(* No token is missed.                                                       *)

\* A token the game holds has a list, and the objects flushQueues goes through have one.
TokensHeld ==
  /\ \A k \in 0..MaxToken : tokenSets[k] # 0 <=> k \in delayed
  /\ \A k \in delayed : k < lastToken
  /\ NoTokenIsMissed
ObjectsHeld ==
  \A d \in Depth : stack[d].kind = "assign" /\ stack[d].touched = FALSE =>
    \A o \in stack[d].todo : tokenMap[o] # 0

LEMMA TokensHeldNext ==
  ASSUME Sane, TokensHeld, ObjectsHeld, RefStep
  PROVE  TokensHeld'
<1>1. /\ TypeOK /\ tokenSets \in [0..MaxToken -> 0..Len(lists)] /\ delayed \subseteq 0..MaxToken
      /\ lastToken \in Nat /\ Len(lists) \in Nat /\ missed = FALSE
      /\ \A k \in 0..MaxToken : k \in Nat
  <2>1. TypeOK
    BY DEF Sane
  <2>2. /\ tokenSets \in [0..MaxToken -> 0..Len(lists)] /\ delayed \subseteq 0..MaxToken
        /\ lastToken \in Nat /\ Len(lists) \in Nat
    BY <2>1, Types, ListsAre, Facts
  <2>3. missed = FALSE
    BY <2>1 DEF TokensHeld, NoTokenIsMissed, TypeOK
  <2>4. \A k \in 0..MaxToken : k \in Nat
    BY Facts
  <2>5. QED
    BY <2>1, <2>2, <2>3, <2>4
<1>2. CASE SetsIntact
  BY <1>2 DEF SetsIntact, TokensHeld, NoTokenIsMissed
<1>3. CASE Postponed
  BY <1>1, <1>3 DEF Postponed, TokenMade, TokensHeld, NoTokenIsMissed
<1>4. CASE MadeNow
  BY <1>1, <1>4 DEF MadeNow, TokenMade, TokensHeld, NoTokenIsMissed
<1>5. ASSUME NEW k \in delayed, Called(k) PROVE TokensHeld'
  BY <1>1, <1>5 DEF Called, TokensHeld, NoTokenIsMissed
<1>6. ASSUME NEW o \in Obj, HandsList(o) PROVE TokensHeld'
  <2>1. tokenMap[o] # 0
    BY <1>6 DEF HandsList, ObjectsHeld
  <2>2. QED
    BY <1>1, <1>6, <2>1 DEF HandsList, TokenMade, TokensHeld, NoTokenIsMissed
<1>7. CASE Clears \/ \E t \in Thread : Puts(t)
  <2>1. UNCHANGED <<tokenSets, delayed, lastToken, missed>>
    BY <1>7 DEF Clears, Puts
  <2>2. QED
    BY <2>1 DEF TokensHeld, NoTokenIsMissed
<1>8. QED
  BY <1>2, <1>3, <1>4, <1>5, <1>6, <1>7 DEF RefStep, Still, TokenRuns, Flushes, Fails

LEMMA ObjectsHeldNext ==
  ASSUME Sane, ObjectsHeld, RefStep
  PROVE  ObjectsHeld'
<1>1. /\ TypeOK /\ tokenMap \in [Obj -> 0..Len(lists)] /\ Len(lists) \in Nat
      /\ \A d \in Depth : stack[d] \in Frame
      /\ \A d \in Depth : stack[d].todo \subseteq Obj
  <2>1. TypeOK
    BY DEF Sane
  <2>2. \A d \in Depth : stack[d] \in Frame
    BY <2>1, StackTop
  <2>3. \A d \in Depth : stack[d].todo \subseteq Obj
    BY <2>2 DEF Frame
  <2>4. QED
    BY <2>1, <2>2, <2>3, Types, ListsAre
<1> SUFFICES ASSUME NEW d \in Depth', stack'[d].kind = "assign", stack'[d].touched = FALSE,
                    NEW o \in stack'[d].todo
             PROVE  tokenMap'[o] # 0
  BY DEF ObjectsHeld
<1>2. ~Plain(stack'[d])
  BY DEF Plain
<1>3. CASE FrameStays(d) /\ UNCHANGED tokenMap
  BY <1>3 DEF FrameStays, ObjectsHeld
<1>4. CASE Still \/ Postponed \/ Fails
  BY <1>2, <1>3, <1>4 DEF Still, Postponed, Fails, FramesQuiet, TokenMade, SetsIntact
<1>5. CASE MadeNow \/ \E k \in delayed : Called(k)
  BY <1>3, <1>5 DEF MadeNow, Called, TokenPushed, TokenMade, NewToken
<1>6. CASE TokenRuns
  <2>1. d # Len(stack)
    <3>1. d = Len(stack) => stack'[d] = [stack[d] EXCEPT !.at = stack[d].at + 1] \/ FrameStays(d)
      BY <1>2, <1>6 DEF TokenRuns
    <3>2. d = Len(stack) => stack'[d].kind = "token"
      BY <1>1, <1>6, <3>1 DEF TokenRuns, Frame, FrameStays
    <3>3. QED
      BY <3>2
  <2>2. QED
    BY <1>2, <1>3, <1>6, <2>1 DEF TokenRuns, SetsIntact
<1>7. CASE Flushes
  BY <1>3, <1>7 DEF Flushes, SetsIntact
<1>8. ASSUME NEW p \in Obj, HandsList(p) PROVE tokenMap'[o] # 0
  BY <1>3, <1>8 DEF HandsList, TokenMade, NewToken, ObjectsHeld
<1>9. CASE Clears
  <2>1. \/ d \in Depth /\ stack'[d] = [stack[d] EXCEPT !.touched = TRUE]
        \/ FrameStays(d) /\ stack[d].kind # "assign"
    BY <1>2, <1>9 DEF Clears
  <2>2. d \in Depth /\ stack'[d] = [stack[d] EXCEPT !.touched = TRUE] => stack'[d].touched = TRUE
    BY <1>1 DEF Frame
  <2>3. QED
    BY <2>1, <2>2 DEF FrameStays
<1>10. ASSUME NEW t \in Thread, Puts(t) PROVE tokenMap'[o] # 0
  <2>1. d \in Depth
    BY <1>10 DEF Puts
  <2>2. stack'[d] = stack[d]
    <3>1. stack'[d] = [stack[d] EXCEPT !.touched = TRUE] => stack'[d].touched = TRUE
      <4>1. stack[d] \in Frame
        BY <1>1, <2>1
      <4>2. [stack[d] EXCEPT !.touched = TRUE].touched = TRUE
        BY <4>1 DEF Frame
      <4>3. QED
        BY <4>2
    <3>2. QED
      BY <1>10, <2>1, <3>1 DEF Puts
  <2>3. tokenMap[o] # 0 /\ o \in Obj
    BY <1>1, <2>1, <2>2 DEF ObjectsHeld
  <2>4. QED
    BY <1>1, <1>10, <2>3 DEF Puts
<1>11. QED
  BY <1>4, <1>5, <1>6, <1>7, <1>8, <1>9, <1>10 DEF RefStep

\* Every token that assignNow, delay or flushQueues makes is in tokenSets when the game calls
\* it, even where assign changes tokenMap while flushQueues goes through it.
THEOREM TokensAreFound == Spec => []NoTokenIsMissed
<1> DEFINE I == Sane /\ TokensHeld /\ ObjectsHeld
<1>1. Init => I
  <2> SUFFICES ASSUME Init PROVE I
    OBVIOUS
  <2>1. TokensHeld
    BY DEF Init, TokensHeld, NoTokenIsMissed
  <2>2. ObjectsHeld
    <3>1. Len(stack) = 0
      BY DEF Init
    <3>2. QED
      BY <3>1 DEF ObjectsHeld, Depth
  <2>3. QED
    BY <2>1, <2>2, SaneInit
<1>2. I /\ [Next]_vars => I'
  <2> SUFFICES ASSUME I, [Next]_vars PROVE I'
    OBVIOUS
  <2>1. Sane' /\ RefStep
    BY SaneNext, RefSteps
  <2>2. QED
    BY <2>1, TokensHeldNext, ObjectsHeldNext
<1>3. I => NoTokenIsMissed
  BY DEF TokensHeld
<1>4. QED
  BY <1>1, <1>2, <1>3, PTL DEF Spec

-------------------------------------------------------------------------------
(* A disciplined program: one flushQueues hands out lists.                   *)

LEMMA HabitStays ==
  ASSUME [Next]_vars
  PROVE  habit' = habit
<1>1. CASE GameStep
  BY <1>1 DEF GameStep, Event, EventEnds, DelayIsOver, TokenNext, CodeReturns, CodeThrows,
              AssignNow, Delay, FlushQueues, HandOutNext, HandOutEnds, RunScheduled, FlushEnds,
              NewBlock, history
<1>2. CASE \E t \in Thread : \E b \in Block : Schedule(t, b) \/ ScheduleWait(t, b)
  BY <1>2 DEF Schedule, ScheduleWait, NewBlock
<1>3. CASE \E t \in Thread : \E b \in Block, o \in Obj : Assign(t, o, b)
  BY <1>3 DEF Assign, AfterAssign
<1>4. CASE \E t \in Thread : Wait(t) \/ WakeUp(t) \/ AssignPut(t) \/ AssignGet(t) \/ AssignAdd(t)
  BY <1>4 DEF Wait, WakeUp, AssignPut, AssignGet, AssignAdd, AfterAssign, history
<1>5. CASE UNCHANGED vars
  BY <1>5 DEF vars
<1>6. QED
  BY <1>1, <1>2, <1>3, <1>4, <1>5 DEF Next

\* While blocks are handed out by a disciplined program, no other flushQueues runs and
\* nothing changes tokenMap.
Flushing(d) == d \in Depth /\ stack[d].kind = "assign"
OneFlush      == \A d, e : Flushing(d) /\ Flushing(e) => d = e
Untouched     == \A d : Flushing(d) => stack[d].touched = FALSE
GameLeavesMap == Pending(Game) => ~Locked
Careful       == OneFlush /\ Untouched /\ GameLeavesMap

\* Where a flushQueues that hands out blocks was before a step.
LEMMA FlushFrames ==
  ASSUME Sane, RefStep, NEW d, Flushing(d)'
  PROVE  \/ Flushing(d) /\ stack'[d].touched = stack[d].touched
         \/ Flushing(d) /\ d < Len(stack) /\ Flushing(Len(stack)) /\ Clears
         \/ Flushing(d) /\ \E t \in Thread : Puts(t)
         \/ Flushes /\ d = Len(stack) + 1 /\ stack'[d].touched = FALSE
<1>1. /\ d \in Depth' /\ stack'[d].kind = "assign" /\ ~Plain(stack'[d])
      /\ \A e \in Depth : stack[e] \in Frame
  BY StackTop DEF Flushing, Plain, Sane
<1>2. ASSUME FrameStays(d) PROVE Flushing(d) /\ stack'[d].touched = stack[d].touched
  BY <1>1, <1>2 DEF FrameStays, Flushing
<1>3. CASE Still \/ Postponed \/ Fails
  BY <1>1, <1>2, <1>3 DEF Still, Postponed, Fails, FramesQuiet
<1>4. CASE MadeNow \/ \E k \in delayed : Called(k)
  BY <1>1, <1>2, <1>4 DEF MadeNow, Called, TokenPushed, NewToken
<1>5. CASE TokenRuns
  <2>1. stack'[d] # [stack[d] EXCEPT !.at = stack[d].at + 1] \/ d # Len(stack)
    <3>1. Len(stack) \in Depth /\ stack[Len(stack)] \in Frame /\ stack[Len(stack)].kind = "token"
      BY <1>1, <1>5 DEF TokenRuns
    <3>2. [stack[Len(stack)] EXCEPT !.at = stack[Len(stack)].at + 1].kind = "token"
      BY <3>1 DEF Frame
    <3>3. QED
      BY <1>1, <3>2
  <2>2. QED
    BY <1>1, <1>2, <1>5, <2>1 DEF TokenRuns
<1>6. CASE Flushes
  BY <1>1, <1>2, <1>6 DEF Flushes
<1>7. ASSUME NEW o \in Obj, HandsList(o)
      PROVE  Flushing(d) /\ stack'[d].touched = stack[d].touched
  BY <1>1, <1>2, <1>7 DEF HandsList, NewToken, Flushing
<1>8. CASE Clears
  BY <1>1, <1>2, <1>8 DEF Clears, Flushing
<1>9. ASSUME NEW t \in Thread, Puts(t) PROVE Flushing(d)
  <2>1. d \in Depth /\ stack[d] \in Frame
    BY <1>1, <1>9 DEF Puts
  <2>2. QED
    BY <1>1, <1>9, <2>1 DEF Puts, Flushing
<1>10. QED
  BY <1>3, <1>4, <1>5, <1>6, <1>7, <1>8, <1>9 DEF RefStep

LEMMA LockedIs == Locked <=> \E d : Flushing(d)
BY DEF Locked, Flushing, Depth

LEMMA PutsUnlocked ==
  ASSUME GameLeavesMap, NEW t \in Thread, Puts(t)
  PROVE  ~Locked
BY DEF GameLeavesMap, Puts, CanLock

LEMMA CarefulNext ==
  ASSUME Sane, Sane', RefStep, BlockStep, habit.disciplined, habit' = habit, Careful
  PROVE  Careful'
<1>1. Len(stack) \in Nat
  BY StackTop DEF Sane
<1>2. ASSUME NEW d, Flushing(d)'
      PROVE  \/ Flushing(d) /\ stack'[d].touched = FALSE
             \/ Flushes /\ d = Len(stack) + 1 /\ stack'[d].touched = FALSE
  <2>1. ~(Flushing(d) /\ d < Len(stack) /\ Flushing(Len(stack)))
    BY <1>1 DEF Careful, OneFlush, Flushing, Depth
  <2>2. ~(Flushing(d) /\ \E t \in Thread : Puts(t))
    BY LockedIs, PutsUnlocked DEF Careful
  <2>3. QED
    BY <1>2, <2>1, <2>2, FlushFrames DEF Careful, Untouched
<1>3. OneFlush'
  <2> SUFFICES ASSUME NEW d, NEW e, Flushing(d)', Flushing(e)' PROVE d = e
    BY DEF OneFlush
  <2>1. Flushes => ~Flushing(d) /\ ~Flushing(e)
    BY LockedIs DEF Flushes
  <2>2. Flushing(d) /\ Flushing(e) => d = e
    BY DEF Careful, OneFlush
  <2>3. Flushing(d) \/ (Flushes /\ d = Len(stack) + 1)
    BY <1>2
  <2>4. Flushing(e) \/ (Flushes /\ e = Len(stack) + 1)
    BY <1>2
  <2>5. QED
    BY <2>1, <2>2, <2>3, <2>4
<1>4. Untouched'
  BY <1>2 DEF Untouched
<1>5. GameLeavesMap'
  <2> SUFFICES ASSUME Pending(Game)', Locked' PROVE FALSE
    BY DEF GameLeavesMap
  <2>1. ~Locked
    BY Facts, PendingSteps DEF NewAssigned, Careful, GameLeavesMap
  <2>2. PICK d \in 1..Len(stack') : stack'[d].kind = "assign"
    BY DEF Locked
  <2>3. ~Flushing(d)
    BY <2>1, LockedIs
  <2>4. QED
    BY <1>2, <2>2, <2>3 DEF Flushes, Flushing, Depth
<1>6. QED
  BY <1>3, <1>4, <1>5 DEF Careful

-------------------------------------------------------------------------------
(* A disciplined program: a list has one holder.                             *)

\* Who holds list l, its first f blocks done: tokenMap for an object flushQueues has not
\* come to, a token, or a frame of the stack.
Live(o) == tokenMap[o] # 0 /\ \A d : Flushing(d) => o \in stack[d].todo
Holds(kind, x, l, f) ==
  /\ l \in Nat \ {0} /\ f \in Nat
  /\ \/ kind = "map" /\ x \in Obj /\ Live(x) /\ tokenMap[x] = l /\ f = 0
     \/ kind = "set" /\ x \in 0..MaxToken /\ tokenSets[x] = l /\ f = 0
     \/ kind = "frame" /\ x \in Depth /\ stack[x].list = l /\ stack[x].at = f

\* What a step does to the holders: nothing new, one gets a new list, one gets the list
\* of another that lets go of it, or one goes on in its list.
HoldersStay ==
  \A k, x, l, f : Holds(k, x, l, f)' => Holds(k, x, l, f)
HolderMade(kind, y) ==
  \A k, x, l, f : Holds(k, x, l, f)' =>
    \/ Holds(k, x, l, f) /\ ~(k = kind /\ x = y)
    \/ k = kind /\ x = y /\ l = Len(lists) + 1
ListMoves(from, z, to, y) ==
  \A k, x, l, f : Holds(k, x, l, f)' =>
    \/ Holds(k, x, l, f) /\ ~(k = to /\ x = y) /\ ~(k = from /\ x = z)
    \/ k = to /\ x = y /\ Holds(from, z, l, f)
HolderRuns(y) ==
  \A k, x, l, f : Holds(k, x, l, f)' =>
    \/ Holds(k, x, l, f)
    \/ k = "frame" /\ x = y /\ f - 1 \in Nat /\ Holds(k, x, l, f - 1)

HolderStep ==
  \/ HoldersStay
  \/ \E k, x : HolderMade(k, x)
  \/ \E k, x, m, y : ListMoves(k, x, m, y)
  \/ HolderRuns(Len(stack))

LEMMA LiveStays ==
  ASSUME AssignsStay, UNCHANGED tokenMap, NEW o, Live(o)'
  PROVE  Live(o)
<1>1. \A d : Flushing(d) => Flushing(d)' /\ stack'[d] = stack[d]
  BY DEF AssignsStay, Flushing
<1>2. QED
  BY <1>1 DEF Live

\* Each holder was one before, if its frame stays and the tables do.
LEMMA FramesHold ==
  ASSUME NEW d, FrameStays(d), NEW l, NEW f, Holds("frame", d, l, f)'
  PROVE  Holds("frame", d, l, f)
BY DEF FrameStays, Holds

LEMMA MapHolds ==
  ASSUME AssignsStay, UNCHANGED tokenMap, NEW o, NEW l, NEW f, Holds("map", o, l, f)'
  PROVE  Holds("map", o, l, f)
BY LiveStays DEF Holds

LEMMA HeldFrame ==
  ASSUME NEW d, NEW l, NEW f, Holds("frame", d, l, f)'
  PROVE  d \in Depth' /\ stack'[d].list = l /\ l # 0 /\ stack'[d].at = f /\ f \in Nat /\ ~Plain(stack'[d])
BY DEF Holds, Plain

LEMMA Kinds ==
  ASSUME NEW k, NEW x, NEW l, NEW f, Holds(k, x, l, f)'
  PROVE  k = "map" \/ k = "set" \/ k = "frame"
BY DEF Holds

\* Tokens hold what they held, where tokenSets only loses lists.
LEMMA SetHolds ==
  ASSUME TypeOK, NEW k, tokenSets' = tokenSets \/ tokenSets' = [tokenSets EXCEPT ![k] = 0],
         NEW x, NEW l, NEW f, Holds("set", x, l, f)'
  PROVE  Holds("set", x, l, f) /\ (tokenSets' = [tokenSets EXCEPT ![k] = 0] => x # k)
<1>1. tokenSets \in [0..MaxToken -> 0..Len(lists)]
  BY Types
<1>2. x \in 0..MaxToken /\ tokenSets'[x] = l /\ l # 0 /\ l \in Nat /\ f = 0
  BY DEF Holds
<1>3. tokenSets[x] = l /\ (tokenSets' = [tokenSets EXCEPT ![k] = 0] => x # k)
  BY <1>1, <1>2
<1>4. QED
  BY <1>2, <1>3 DEF Holds

LEMMA StillHolders ==
  ASSUME Sane, Still
  PROVE  HoldersStay
<1>1. ASSUME NEW d, NEW l, NEW f, Holds("frame", d, l, f)' PROVE Holds("frame", d, l, f)
  BY <1>1, HeldFrame, FramesHold DEF Still, FramesQuiet
<1>2. ASSUME NEW d, NEW l, NEW f, Holds("set", d, l, f)' PROVE Holds("set", d, l, f)
  BY <1>2, SetHolds DEF Still, SetsIntact, Sane
<1>3. ASSUME NEW d, NEW l, NEW f, Holds("map", d, l, f)' PROVE Holds("map", d, l, f)
  BY <1>3, MapHolds DEF Still, SetsIntact
<1>4. QED
  BY <1>1, <1>2, <1>3, Kinds DEF HoldersStay

LEMMA FlushHolders ==
  ASSUME Sane, Flushes
  PROVE  HoldersStay
<1>1. ASSUME NEW d, NEW l, NEW f, Holds("frame", d, l, f)' PROVE Holds("frame", d, l, f)
  BY <1>1, HeldFrame, FramesHold DEF Flushes
<1>2. ASSUME NEW d, NEW l, NEW f, Holds("set", d, l, f)' PROVE Holds("set", d, l, f)
  BY <1>2, SetHolds DEF Flushes, SetsIntact, Sane
<1>3. ASSUME NEW d, NEW l, NEW f, Holds("map", d, l, f)' PROVE Holds("map", d, l, f)
  BY <1>3, MapHolds DEF Flushes, SetsIntact
<1>4. QED
  BY <1>1, <1>2, <1>3, Kinds DEF HoldersStay

LEMMA ClearHolders ==
  ASSUME Sane, OneFlush, Clears
  PROVE  HoldersStay
<1>1. ASSUME NEW d, NEW l, NEW f, Holds("frame", d, l, f)' PROVE Holds("frame", d, l, f)
  <2>1. ~(d \in Depth /\ d < Len(stack) /\ stack[d].kind = "assign")
    BY DEF Clears, OneFlush, Flushing, Depth
  <2>2. QED
    BY <1>1, <2>1, HeldFrame, FramesHold DEF Clears
<1>2. ASSUME NEW d, NEW l, NEW f, Holds("set", d, l, f)' PROVE Holds("set", d, l, f)
  BY <1>2, SetHolds DEF Clears, Sane
<1>3. ASSUME NEW d, NEW l, NEW f, Holds("map", d, l, f)' PROVE FALSE
  BY <1>3 DEF Clears, Holds
<1>4. QED
  BY <1>1, <1>2, <1>3, Kinds DEF HoldersStay

LEMMA RunHolders ==
  ASSUME Sane, TokenRuns
  PROVE  HolderRuns(Len(stack))
<1>1. /\ Len(stack) \in Depth /\ stack[Len(stack)] \in Frame /\ stack[Len(stack)].at \in Nat
      /\ stack[Len(stack)].list \in Nat
  BY StackTop DEF TokenRuns, Sane, Frame
<1>2. ASSUME NEW d, NEW l, NEW f, Holds("frame", d, l, f)'
      PROVE  \/ Holds("frame", d, l, f)
             \/ d = Len(stack) /\ f - 1 \in Nat /\ Holds("frame", d, l, f - 1)
  <2>1. CASE d = Len(stack) /\ stack'[d] = [stack[d] EXCEPT !.at = stack[d].at + 1]
    <3>1. stack'[d].list = stack[d].list /\ stack'[d].at = stack[d].at + 1
      BY <1>1, <2>1 DEF Frame
    <3>2. l = stack[d].list /\ l \in Nat \ {0} /\ f - 1 = stack[d].at /\ f - 1 \in Nat
      BY <1>1, <1>2, <2>1, <3>1 DEF Holds
    <3>3. QED
      BY <1>1, <2>1, <3>2 DEF Holds
  <2>2. CASE FrameStays(d)
    BY <1>2, <2>2, FramesHold
  <2>3. QED
    BY <1>2, <2>1, <2>2, HeldFrame DEF TokenRuns
<1>3. ASSUME NEW d, NEW l, NEW f, Holds("set", d, l, f)' PROVE Holds("set", d, l, f)
  BY <1>3, SetHolds DEF TokenRuns, SetsIntact, Sane
<1>4. ASSUME NEW d, NEW l, NEW f, Holds("map", d, l, f)' PROVE Holds("map", d, l, f)
  BY <1>4, MapHolds DEF TokenRuns, SetsIntact
<1>5. QED
  BY <1>2, <1>3, <1>4, Kinds DEF HolderRuns

LEMMA PostponedHolders ==
  ASSUME Sane, Postponed
  PROVE  \E y : HolderMade("set", y)
<1>1. PICK y : y = lastToken
  OBVIOUS
<1>2. /\ tokenSets \in [0..MaxToken -> 0..Len(lists)] /\ y \in 0..MaxToken
      /\ tokenSets' = [tokenSets EXCEPT ![y] = Len(lists) + 1]
  BY <1>1, Types DEF Postponed, TokenMade, Sane
<1>3. ASSUME NEW d, NEW l, NEW f, Holds("frame", d, l, f)' PROVE Holds("frame", d, l, f)
  BY <1>3, HeldFrame, FramesHold DEF Postponed, FramesQuiet
<1>4. ASSUME NEW d, NEW l, NEW f, Holds("set", d, l, f)'
      PROVE  \/ Holds("set", d, l, f) /\ d # y
             \/ d = y /\ l = Len(lists) + 1
  <2>1. d \in 0..MaxToken /\ tokenSets'[d] = l /\ l \in Nat \ {0} /\ f = 0
    BY <1>4 DEF Holds
  <2>2. d = y => l = Len(lists) + 1
    BY <1>2, <2>1
  <2>3. d # y => tokenSets[d] = l
    BY <1>2, <2>1
  <2>4. QED
    BY <2>1, <2>2, <2>3 DEF Holds
<1>5. ASSUME NEW d, NEW l, NEW f, Holds("map", d, l, f)' PROVE Holds("map", d, l, f)
  BY <1>5, MapHolds DEF Postponed, TokenMade
<1>6. HolderMade("set", y)
  BY <1>3, <1>4, <1>5, Kinds DEF HolderMade
<1>7. QED
  BY <1>6

\* The frame of a token is pushed.
LEMMA PushedHolder ==
  ASSUME TypeOK, NEW m, NEW ls, TokenPushed(m, ls), NEW d, NEW l, NEW f, Holds("frame", d, l, f)'
  PROVE  \/ Holds("frame", d, l, f) /\ d # Len(stack) + 1
         \/ d = Len(stack) + 1 /\ l = m /\ f = 0
<1>1. d \in Depth' /\ stack'[d].list = l /\ stack'[d].at = f
  BY HeldFrame
<1>2. CASE FrameStays(d)
  <2>1. Len(stack) \in Nat
    BY StackTop
  <2>2. d # Len(stack) + 1
    BY <1>2, <2>1 DEF FrameStays, Depth
  <2>3. QED
    BY <1>2, <2>2, FramesHold
<1>3. CASE d = Len(stack) + 1 /\ NewToken(stack'[d], m, ls)
  BY <1>1, <1>3 DEF NewToken
<1>4. QED
  BY <1>1, <1>2, <1>3 DEF TokenPushed

LEMMA MadeNowHolders ==
  ASSUME Sane, MadeNow
  PROVE  HolderMade("frame", Len(stack) + 1)
<1>1. TypeOK /\ TokenPushed(Len(lists) + 1, lists') /\ tokenSets' = [tokenSets EXCEPT ![lastToken] = 0]
      /\ UNCHANGED tokenMap /\ AssignsStay
  BY DEF MadeNow, TokenMade, TokenPushed, Sane
<1>2. ASSUME NEW d, NEW l, NEW f, Holds("frame", d, l, f)'
      PROVE  \/ Holds("frame", d, l, f) /\ d # Len(stack) + 1
             \/ d = Len(stack) + 1 /\ l = Len(lists) + 1
  <2>1. PICK m, ls : m = Len(lists) + 1 /\ ls = lists' /\ TokenPushed(m, ls)
    BY <1>1
  <2>2. QED
    BY <1>1, <1>2, <2>1, PushedHolder
<1>3. ASSUME NEW d, NEW l, NEW f, Holds("set", d, l, f)' PROVE Holds("set", d, l, f)
  <2>1. PICK k : k = lastToken
    OBVIOUS
  <2>2. QED
    BY <1>1, <1>3, <2>1, SetHolds
<1>4. ASSUME NEW d, NEW l, NEW f, Holds("map", d, l, f)' PROVE Holds("map", d, l, f)
  BY <1>1, <1>4, MapHolds
<1>5. QED
  BY <1>2, <1>3, <1>4, Kinds DEF HolderMade

LEMMA CalledHolders ==
  ASSUME Sane, NEW k \in delayed, Called(k)
  PROVE  ListMoves("set", k, "frame", Len(stack) + 1)
<1>1. /\ TypeOK /\ TokenPushed(tokenSets[k], lists) /\ tokenSets' = [tokenSets EXCEPT ![k] = 0]
      /\ UNCHANGED tokenMap /\ AssignsStay /\ k \in 0..MaxToken
  BY Types DEF Called, TokenPushed, Sane
<1>2. ASSUME NEW d, NEW l, NEW f, Holds("frame", d, l, f)'
      PROVE  \/ Holds("frame", d, l, f) /\ d # Len(stack) + 1
             \/ d = Len(stack) + 1 /\ Holds("set", k, l, f)
  <2>1. PICK m, ls : m = tokenSets[k] /\ ls = lists /\ TokenPushed(m, ls)
    BY <1>1
  <2>2. \/ Holds("frame", d, l, f) /\ d # Len(stack) + 1
        \/ d = Len(stack) + 1 /\ l = m /\ f = 0
    BY <1>1, <1>2, <2>1, PushedHolder
  <2>3. l \in Nat \ {0}
    BY <1>2 DEF Holds
  <2>4. QED
    BY <1>1, <2>1, <2>2, <2>3 DEF Holds
<1>3. ASSUME NEW d, NEW l, NEW f, Holds("set", d, l, f)' PROVE Holds("set", d, l, f) /\ d # k
  BY <1>1, <1>3, SetHolds
<1>4. ASSUME NEW d, NEW l, NEW f, Holds("map", d, l, f)' PROVE Holds("map", d, l, f)
  BY <1>1, <1>4, MapHolds
<1>5. QED
  BY <1>2, <1>3, <1>4, Kinds DEF ListMoves

LEMMA HandsHolders ==
  ASSUME Sane, OneFlush, ObjectsHeld, NEW o \in Obj, HandsList(o)
  PROVE  ListMoves("map", o, "frame", Len(stack) + 1)
<1>1. /\ TypeOK /\ tokenSets' = [tokenSets EXCEPT ![lastToken] = 0] /\ UNCHANGED tokenMap
      /\ Len(stack) \in Nat /\ Len(stack) \in Depth /\ Len(stack) \in Depth'
      /\ Flushing(Len(stack)) /\ stack[Len(stack)].touched = FALSE
      /\ o \in stack[Len(stack)].todo
  BY StackTop DEF HandsList, TokenMade, Sane, Flushing
<1>2. PICK n \in Nat : n = Len(stack)
  BY <1>1
<1>3. \A d : Flushing(d) => d = n
  BY <1>1, <1>2 DEF OneFlush
<1>4. stack'[n].kind = "assign" /\ stack'[n].todo = stack[n].todo \ {o} /\ stack'[n].list = 0
  <2>1. ~FrameStays(n) \/ ~(n < Len(stack))
    BY <1>2
  <2>2. n # Len(stack) + 1
    BY <1>2
  <2>3. QED
    BY <1>1, <1>2, <2>1, <2>2 DEF HandsList
<1>5. tokenMap[o] # 0 /\ Live(o)
  <2>1. tokenMap[o] # 0
    BY <1>1 DEF ObjectsHeld, Flushing
  <2>2. o \in stack[n].todo
    BY <1>1, <1>2
  <2>3. QED
    BY <1>3, <2>1, <2>2 DEF Live
<1>6. ASSUME NEW p, Live(p)' PROVE Live(p) /\ p # o
  <2>1. tokenMap[p] # 0
    BY <1>1, <1>6 DEF Live
  <2>2. Flushing(n)'
    BY <1>1, <1>2, <1>4 DEF Flushing
  <2>3. p \in stack'[n].todo
    BY <1>6, <2>2 DEF Live
  <2>4. p \in stack[n].todo /\ p # o
    BY <1>4, <2>3
  <2>5. QED
    BY <1>3, <2>1, <2>4 DEF Live
<1>7. ASSUME NEW d, NEW l, NEW f, Holds("frame", d, l, f)'
      PROVE  \/ Holds("frame", d, l, f) /\ d # Len(stack) + 1
             \/ d = Len(stack) + 1 /\ Holds("map", o, l, f)
  <2>1. d \in Depth' /\ stack'[d].list = l /\ stack'[d].at = f /\ l # 0 /\ l \in Nat /\ f \in Nat
    BY <1>7 DEF Holds
  <2>2. CASE d < Len(stack) /\ FrameStays(d)
    <3>1. d # Len(stack) + 1
      BY <1>1, <2>2 DEF FrameStays, Depth
    <3>2. QED
      BY <1>7, <2>2, <3>1, FramesHold
  <2>3. CASE d = Len(stack) + 1 /\ NewToken(stack'[d], tokenMap[o], lists)
    <3>1. l = tokenMap[o] /\ f = 0
      BY <2>1, <2>3 DEF NewToken
    <3>2. QED
      BY <1>5, <2>1, <2>3, <3>1 DEF Holds
  <2>4. d # n
    BY <1>4, <2>1
  <2>5. QED
    BY <1>2, <2>1, <2>2, <2>3, <2>4 DEF HandsList
<1>8. ASSUME NEW d, NEW l, NEW f, Holds("set", d, l, f)' PROVE Holds("set", d, l, f)
  <2>1. PICK k : k = lastToken
    OBVIOUS
  <2>2. QED
    BY <1>1, <1>8, <2>1, SetHolds
<1>9. ASSUME NEW d, NEW l, NEW f, Holds("map", d, l, f)' PROVE Holds("map", d, l, f) /\ d # o
  BY <1>1, <1>6, <1>9 DEF Holds
<1>10. QED
  BY <1>7, <1>8, <1>9, Kinds DEF ListMoves

LEMMA PutHolders ==
  ASSUME Sane, GameLeavesMap, NEW t \in Thread, Puts(t)
  PROVE  HolderMade("map", op[t].obj)
<1>1. PICK y : y = op[t].obj
  OBVIOUS
<1>2. /\ ~Locked /\ tokenMap \in [Obj -> 0..Len(lists)] /\ y \in Obj
      /\ tokenMap' = [tokenMap EXCEPT ![y] = Len(lists) + 1] /\ Depth' = Depth
      /\ UNCHANGED tokenSets
  BY <1>1, PutsUnlocked, Types DEF Puts, Sane
<1>3. \A d : ~Flushing(d)
  BY <1>2, LockedIs
<1>4. \A d \in Depth : FrameStays(d)
  BY <1>3 DEF Puts, FrameStays, Flushing
<1>5. ASSUME NEW d, NEW l, NEW f, Holds("frame", d, l, f)' PROVE Holds("frame", d, l, f)
  BY <1>2, <1>4, <1>5, HeldFrame, FramesHold
<1>6. ASSUME NEW d, NEW l, NEW f, Holds("set", d, l, f)' PROVE Holds("set", d, l, f)
  BY <1>2, <1>6, SetHolds DEF Sane
<1>7. ASSUME NEW d, NEW l, NEW f, Holds("map", d, l, f)'
      PROVE  \/ Holds("map", d, l, f) /\ d # y
             \/ d = y /\ l = Len(lists) + 1
  <2>1. d \in Obj /\ tokenMap'[d] = l /\ l \in Nat \ {0} /\ f = 0
    BY <1>7 DEF Holds
  <2>2. d = y => l = Len(lists) + 1
    BY <1>2, <2>1
  <2>3. d # y => tokenMap[d] = l
    BY <1>2, <2>1
  <2>4. QED
    BY <1>3, <2>1, <2>2, <2>3 DEF Holds, Live
<1>8. HolderMade("map", y)
  BY <1>5, <1>6, <1>7, Kinds DEF HolderMade
<1>9. QED
  BY <1>1, <1>8

LEMMA HolderSteps ==
  ASSUME Sane, Careful, ObjectsHeld, RefStep
  PROVE  HolderStep
<1>1. CASE Still \/ Flushes \/ Clears
  BY <1>1, StillHolders, FlushHolders, ClearHolders DEF HolderStep, Careful
<1>2. CASE Postponed \/ MadeNow
  <2>1. PICK x : x = Len(stack) + 1
    OBVIOUS
  <2>2. QED
    BY <1>2, <2>1, PostponedHolders, MadeNowHolders DEF HolderStep
<1>3. CASE TokenRuns
  BY <1>3, RunHolders DEF HolderStep
<1>4. ASSUME Fails PROVE FALSE
  <2>1. TypeOK /\ StackOK
    BY DEF Sane
  <2>2. Len(stack) \in Depth /\ stack[Len(stack)].touched = TRUE
    BY <1>4 DEF Fails
  <2>3. Flushing(Len(stack))
    BY <2>1, <2>2 DEF StackOK, Flushing
  <2>4. QED
    BY <2>2, <2>3 DEF Careful, Untouched
<1>5. ASSUME NEW k \in delayed, Called(k) PROVE HolderStep
  BY <1>5, CalledHolders DEF HolderStep
<1>6. ASSUME NEW o \in Obj, HandsList(o) PROVE HolderStep
  BY <1>6, HandsHolders DEF HolderStep, Careful
<1>7. ASSUME NEW t \in Thread, Puts(t) PROVE HolderStep
  BY <1>7, PutHolders DEF HolderStep, Careful
<1>8. QED
  BY <1>1, <1>2, <1>3, <1>4, <1>5, <1>6, <1>7 DEF RefStep

-------------------------------------------------------------------------------
(* A disciplined program: blocks are run once.                               *)

\* A list has one holder, and what its holder has not done was not run.
Unrun(l, f) == \A i \in Nat : Place(l, i) /\ i > f => ran[lists[l][i]] = 0
OneHolder == \A k, x, m, y, l, f, g : Holds(k, x, l, f) /\ Holds(m, y, l, g) => k = m /\ x = y
HeldUnrun == \A k, x, l, f : Holds(k, x, l, f) => Unrun(l, f)
RanOnce   == \A b \in Block : ran[b] <= 1
Orderly   == Careful /\ OneHolder /\ HeldUnrun /\ RanOnce

\* A holder's list is there.
LEMMA HeldList ==
  ASSUME Sane, NEW k, NEW x, NEW l, NEW f, Holds(k, x, l, f)
  PROVE  l \in 1..Len(lists) /\ f \in Nat
<1>1. /\ tokenMap \in [Obj -> 0..Len(lists)] /\ tokenSets \in [0..MaxToken -> 0..Len(lists)]
      /\ Len(lists) \in Nat
  BY Types, ListsAre DEF Sane
<1>2. l \in Nat \ {0} /\ f \in Nat
  BY DEF Holds
<1>3. \A d \in Depth : stack[d].list # 0 => stack[d].list <= Len(lists)
  BY DEF Sane, StackOK
<1>4. l <= Len(lists)
  BY <1>1, <1>2, <1>3 DEF Holds
<1>5. QED
  BY <1>1, <1>2, <1>4

LEMMA OneHolderNext ==
  ASSUME Sane, OneHolder, HolderStep
  PROVE  OneHolder'
<1> SUFFICES ASSUME NEW k, NEW x, NEW m, NEW y, NEW l, NEW f, NEW g,
                    Holds(k, x, l, f)', Holds(m, y, l, g)'
             PROVE  k = m /\ x = y
  BY DEF OneHolder
<1>1. CASE HoldersStay
  BY <1>1 DEF HoldersStay, OneHolder
<1>2. ASSUME NEW a, NEW z, HolderMade(a, z) PROVE k = m /\ x = y
  <2>1. Holds(k, x, l, f) \/ Holds(m, y, l, g) => l # Len(lists) + 1
    <3>1. Len(lists) \in Nat
      BY ListsAre DEF Sane
    <3>2. Holds(k, x, l, f) \/ Holds(m, y, l, g) => l \in 1..Len(lists)
      BY HeldList
    <3>3. QED
      BY <3>1, <3>2
  <2>2. Holds(k, x, l, f) \/ (k = a /\ x = z /\ l = Len(lists) + 1)
    BY <1>2 DEF HolderMade
  <2>3. Holds(m, y, l, g) \/ (m = a /\ y = z /\ l = Len(lists) + 1)
    BY <1>2 DEF HolderMade
  <2>4. QED
    BY <2>1, <2>2, <2>3 DEF OneHolder
<1>3. ASSUME NEW a, NEW z, NEW c, NEW w, ListMoves(a, z, c, w) PROVE k = m /\ x = y
  <2>2. \/ Holds(k, x, l, f) /\ ~(k = a /\ x = z)
        \/ k = c /\ x = w /\ Holds(a, z, l, f)
    BY <1>3 DEF ListMoves
  <2>3. \/ Holds(m, y, l, g) /\ ~(m = a /\ y = z)
        \/ m = c /\ y = w /\ Holds(a, z, l, g)
    BY <1>3 DEF ListMoves
  <2>4. QED
    BY <2>2, <2>3 DEF OneHolder
<1>4. CASE HolderRuns(Len(stack))
  <2>1. PICK a : Holds(k, x, l, a)
    BY <1>4 DEF HolderRuns
  <2>2. PICK c : Holds(m, y, l, c)
    BY <1>4 DEF HolderRuns
  <2>3. QED
    BY <2>1, <2>2 DEF OneHolder
<1>5. QED
  BY <1>1, <1>2, <1>3, <1>4 DEF HolderStep

\* The rest of a list that was not run is not run by a step, unless the step starts a
\* block of it.
LEMMA UnrunAfter ==
  ASSUME Sane, Sane', BlockStep, Ordered, Apart, NEW l \in Nat, NEW f \in Nat, Unrun(l, f),
         \A i \in Nat : ListedRuns(l, i) => i <= f
  PROVE  Unrun(l, f)'
<1>1. /\ nextBlock \in Nat /\ ran \in [Block -> 0..2] /\ \A b \in Block : b \in Nat
      /\ \A m, j \in Nat : Place(m, j) => lists[m][j] \in Block
  BY Numbers, Types DEF Sane
<1> SUFFICES ASSUME NEW i \in Nat, Place(l, i)', i > f PROVE ran'[lists'[l][i]] = 0
  BY DEF Unrun
<1>2. CASE Stays(l, i)
  <2>1. PICK b \in Block : b = lists[l][i]
    BY <1>1, <1>2 DEF Stays
  <2>2. ran[b] = 0 /\ b < nextBlock /\ Place(l, i) /\ lists'[l][i] = b
    BY <1>2, <2>1 DEF Stays, Unrun, Ordered, ListsOrdered
  <2>3. ~(b = nextBlock /\ NewRuns(b))
    BY <1>1, <2>2
  <2>4. ~(QueuedRuns /\ b = scheduled[1].block)
    <3>1. QueuedRuns => 1 \in Queued
      BY DEF QueuedRuns, Queued
    <3>2. QED
      BY <2>1, <2>2, <3>1 DEF Apart, QueueApart
  <2>5. ASSUME NEW m \in Nat, NEW j \in Nat, ListedRuns(m, j), b = lists[m][j] PROVE FALSE
    <3>1. Place(m, j)
      BY <2>5 DEF ListedRuns
    <3>2. m = l /\ j = i
      BY <2>1, <2>2, <2>5, <3>1 DEF Apart, ListsApart
    <3>3. QED
      BY <2>5, <3>2
  <2>6. ran'[b] = ran[b]
    BY <2>3, <2>4, <2>5, Tables
  <2>7. QED
    BY <2>2, <2>6
<1>3. CASE lists'[l][i] \in Block /\ NewListed(lists'[l][i])
  BY <1>1, <1>3 DEF NewListed, Ordered, FreshUnused
<1>4. ASSUME NEW t \in Thread, Listed(t), lists'[l][i] = op[t].block PROVE ran'[lists'[l][i]] = 0
  BY <1>4 DEF Listed, Apart, PendingApart
<1>5. QED
  BY <1>2, <1>3, <1>4, PlaceSteps

\* The block that is started is the next of the frame on top.
LEMMA RunIsHeld ==
  ASSUME Sane, NEW l \in Nat, NEW i \in Nat, ListedRuns(l, i)
  PROVE  \E f \in Nat : f + 1 = i /\ Holds("frame", Len(stack), l, f)
<1>1. /\ Len(stack) \in Depth /\ stack[Len(stack)].at \in Nat
      /\ l = stack[Len(stack)].list /\ i = stack[Len(stack)].at + 1 /\ l # 0
  BY DEF ListedRuns, TokenRuns, Place
<1>2. QED
  BY <1>1 DEF Holds

LEMMA HeldUnrunNext ==
  ASSUME Sane, Sane', BlockStep, HolderStep, Ordered, Apart, OneHolder, HeldUnrun
  PROVE  HeldUnrun'
<1> SUFFICES ASSUME NEW k, NEW x, NEW l, NEW f, Holds(k, x, l, f)' PROVE Unrun(l, f)'
  BY DEF HeldUnrun
<1>1. l \in Nat /\ f \in Nat
  BY DEF Holds
<1>2. CASE \E i \in Nat : ListedRuns(l, i) /\ i > f
  <2>1. PICK i \in Nat : ListedRuns(l, i) /\ i > f
    BY <1>2
  <2>2. PICK e \in Nat : e + 1 = i /\ Holds("frame", Len(stack), l, e)
    BY <1>1, <2>1, RunIsHeld
  <2>3. HolderRuns(Len(stack))
    BY <2>1, RunHolders DEF ListedRuns
  <2>4. \E g \in Nat : Holds(k, x, l, g)
    BY <2>3, <1>1 DEF HolderRuns
  <2>5. k = "frame" /\ x = Len(stack)
    BY <2>2, <2>4 DEF OneHolder
  <2>6. stack[Len(stack)].at = e /\ stack[Len(stack)].list = l /\ Len(stack) \in Depth
    BY <2>2 DEF Holds
  <2>7. stack'[Len(stack)].at = f /\ Len(stack) \in Depth'
    BY <2>5 DEF Holds
  <2>8. stack'[Len(stack)] = [stack[Len(stack)] EXCEPT !.at = stack[Len(stack)].at + 1]
    <3>1. ~Plain(stack'[Len(stack)])
      BY <2>5, HeldFrame
    <3>2. Len(stack) \in Nat
      BY StackTop DEF Sane
    <3>3. ~(Len(stack) < Len(stack))
      BY <3>2
    <3>4. QED
      BY <2>1, <2>7, <3>1, <3>3 DEF ListedRuns, TokenRuns
  <2>9. stack[Len(stack)] \in Frame
    BY <2>6, StackTop DEF Sane
  <2>10. stack'[Len(stack)].at = e + 1
    BY <2>6, <2>8, <2>9 DEF Frame
  <2>11. QED
    BY <2>1, <2>2, <2>7, <2>10
<1>3. CASE ~\E i \in Nat : ListedRuns(l, i) /\ i > f
  <2>1. Unrun(l, f)
    <3>1. CASE Holds(k, x, l, f)
      BY <3>1 DEF HeldUnrun
    <3>2. CASE l = Len(lists) + 1
      <4>1. Len(lists) \in Nat
        BY ListsAre DEF Sane
      <4>2. QED
        BY <3>2, <4>1 DEF Unrun, Place
    <3>3. CASE \E m, z : Holds(m, z, l, f)
      BY <3>3 DEF HeldUnrun
    <3>4. CASE f - 1 \in Nat /\ Holds(k, x, l, f - 1)
      <4>1. PICK e \in Nat : e = f - 1 /\ Holds(k, x, l, e)
        BY <3>4
      <4>2. Unrun(l, e)
        BY <4>1 DEF HeldUnrun
      <4>3. \A i \in Nat : i > f => i > e
        BY <1>1, <4>1
      <4>4. QED
        BY <4>2, <4>3 DEF Unrun
    <3>5. QED
      BY <3>1, <3>2, <3>3, <3>4 DEF HolderStep, HoldersStay, HolderMade, ListMoves, HolderRuns
  <2>2. \A i \in Nat : ListedRuns(l, i) => i <= f
    BY <1>1, <1>3
  <2>3. QED
    BY <1>1, <2>1, <2>2, UnrunAfter
<1>4. QED
  BY <1>2, <1>3

LEMMA RanOnceNext ==
  ASSUME Sane, Sane', BlockStep, Ordered, Apart, HeldUnrun, RanOnce
  PROVE  RanOnce'
<1>1. /\ nextBlock \in Nat /\ \A b \in Block : ran[b] \in Nat
  BY Numbers DEF Sane
<1> SUFFICES ASSUME NEW b \in Block PROVE ran'[b] <= 1
  BY DEF RanOnce
<1>2. CASE ran'[b] = ran[b]
  BY <1>2 DEF RanOnce
<1>3. CASE ran'[b] # ran[b]
  <2>1. CASE b = nextBlock
    BY <1>1, <2>1, Tables DEF Ordered, FreshUnused
  <2>2. CASE QueuedRuns /\ b = scheduled[1].block
    <3>1. 1 \in Queued
      BY <2>2 DEF QueuedRuns, Queued
    <3>2. ran[b] = 0
      BY <2>2, <3>1 DEF Apart, QueueApart
    <3>3. QED
      BY <1>3, <3>2, Tables
  <2>3. ASSUME NEW l \in Nat, NEW i \in Nat, ListedRuns(l, i), b = lists[l][i] PROVE ran'[b] <= 1
    <3>1. PICK f \in Nat : f + 1 = i /\ Holds("frame", Len(stack), l, f)
      BY <2>3, RunIsHeld
    <3>2. Unrun(l, f) /\ i > f /\ Place(l, i)
      BY <2>3, <3>1 DEF HeldUnrun, ListedRuns
    <3>3. ran[b] = 0
      BY <2>3, <3>2 DEF Unrun
    <3>4. QED
      BY <1>3, <3>3, Tables
  <2>4. QED
    BY <1>3, <2>1, <2>2, <2>3, Tables
<1>4. QED
  BY <1>2, <1>3

Disciplined == habit.disciplined => Orderly

LEMMA OrderlyInit ==
  ASSUME Init
  PROVE  Orderly
<1>1. /\ Depth = {}
      /\ \A o \in Obj : tokenMap[o] = 0
      /\ \A k \in 0..MaxToken : tokenSets[k] = 0
  <2>1. Len(stack) = 0
    BY DEF Init
  <2>2. QED
    BY <2>1 DEF Init, Depth
<1>2. \A k, x, l, f : ~Holds(k, x, l, f)
  BY <1>1 DEF Holds
<1>3. Careful
  <2>1. \A d : ~Flushing(d)
    BY <1>1 DEF Flushing
  <2>2. QED
    BY <2>1, LockedIs DEF Careful, OneFlush, Untouched, GameLeavesMap
<1>4. RanOnce
  BY DEF Init, RanOnce
<1>5. QED
  BY <1>2, <1>3, <1>4 DEF Orderly, OneHolder, HeldUnrun

LEMMA DisciplinedNext ==
  ASSUME Sane, Ordered, Apart, ObjectsHeld, Disciplined, [Next]_vars
  PROVE  Disciplined'
<1>1. Sane' /\ BlockStep /\ RefStep /\ habit' = habit
  BY SaneNext, BlockSteps, RefSteps, HabitStays
<1> SUFFICES ASSUME habit.disciplined PROVE Orderly'
  BY <1>1 DEF Disciplined
<1>2. Orderly
  BY DEF Disciplined
<1>3. Careful'
  BY <1>1, <1>2, CarefulNext DEF Orderly
<1>4. HolderStep
  BY <1>1, <1>2, HolderSteps DEF Orderly
<1>5. OneHolder' /\ HeldUnrun' /\ RanOnce'
  BY <1>1, <1>2, <1>4, OneHolderNext, HeldUnrunNext, RanOnceNext DEF Orderly
<1>6. QED
  BY <1>3, <1>5 DEF Orderly

\* The inductive invariant of the theorems below.
Inv == Sane /\ Ordered /\ Apart /\ TokensHeld /\ ObjectsHeld /\ Disciplined

LEMMA InvInit == Init => Inv
<1> SUFFICES ASSUME Init PROVE Inv
  OBVIOUS
<1>1. TokensHeld
  BY DEF Init, TokensHeld, NoTokenIsMissed
<1>2. ObjectsHeld
  <2>1. Len(stack) = 0
    BY DEF Init
  <2>2. QED
    BY <2>1 DEF ObjectsHeld, Depth
<1>3. QED
  BY <1>1, <1>2, SaneInit, OrderedInit, ApartInit, OrderlyInit DEF Inv, Disciplined

LEMMA InvNext == Inv /\ [Next]_vars => Inv'
<1> SUFFICES ASSUME Inv, [Next]_vars PROVE Inv'
  OBVIOUS
<1>1. Sane' /\ Ordered' /\ Apart' /\ RefStep
  BY SaneNext, OrderedNext, ApartNext, RefSteps DEF Inv
<1>2. TokensHeld' /\ ObjectsHeld'
  BY <1>1, TokensHeldNext, ObjectsHeldNext DEF Inv
<1>3. Disciplined'
  BY DisciplinedNext DEF Inv
<1>4. QED
  BY <1>1, <1>2, <1>3 DEF Inv

\* No block handed to the scheduler is started twice, by a disciplined program: through the
\* queue, tokenMap, tokens called at once and tokens the game delays, whatever throws.
THEOREM BlocksRunOnce == Spec => []RunsOnce
<1>1. Inv => RunsOnce
  BY DEF Inv, Disciplined, Orderly, RanOnce, RunsOnce
<1>2. QED
  BY <1>1, InvInit, InvNext, PTL DEF Spec
-------------------------------------------------------------------------------
(* Threads that wait for their block: where the scheduler has them.          *)

\* Thread t is in scheduleWait, its block queued; where it is noted who waits.
Awaits(t)     == op[t].pc \in {"queued", "waiting"}
NotedAt(i, t) == i \in Queued /\ scheduled[i].waiter = t
OwedBy(d, t)  == d \in Depth /\ stack[d].waiter = t

\* A thread that is noted in the queue waits for the block there, one that is noted in a
\* frame for a block that was started, and each is noted once.
NotedRight == \A t \in Thread : \A i : NotedAt(i, t) => Awaits(t) /\ scheduled[i].block = op[t].block
OwedRight  == \A t \in Thread : \A d : OwedBy(d, t) => Awaits(t) /\ ran[op[t].block] > 0
NotedOnce  ==
  \A t \in Thread :
    /\ \A i, j : NotedAt(i, t) /\ NotedAt(j, t) => i = j
    /\ \A d, e : OwedBy(d, t) /\ OwedBy(e, t) => d = e
    /\ \A i, d : ~(NotedAt(i, t) /\ OwedBy(d, t))
Waiting == NotedRight /\ OwedRight /\ NotedOnce

\* What a step does to them.
OpsCalm ==
  \A t \in Thread : /\ Awaits(t)' <=> Awaits(t)
                    /\ Awaits(t) => op'[t].block = op[t].block
WaiterKept(d) == d \in Depth /\ stack'[d].waiter = stack[d].waiter
FramesCalm    == \A d \in Depth' : WaiterKept(d) \/ stack'[d].waiter = NoThread
Noted(b, w) ==
  /\ Len(scheduled) \in Nat /\ Len(scheduled') = Len(scheduled) + 1
  /\ \A i \in Queued : scheduled'[i] = scheduled[i]
  /\ scheduled'[Len(scheduled) + 1].waiter = w /\ scheduled'[Len(scheduled) + 1].block = b
NobodyWaits == OpsCalm /\ FramesCalm /\ (UNCHANGED scheduled \/ \E b : Noted(b, NoThread))
BeginsWait(t) ==
  /\ ~Awaits(t) /\ Awaits(t)' /\ Noted(op'[t].block, t) /\ FramesCalm
  /\ \A u \in Thread : u # t => op'[u] = op[u]
RunsNoted ==
  /\ UNCHANGED op
  /\ Len(scheduled) \in Nat /\ Len(scheduled) >= 1 /\ Len(scheduled') = Len(scheduled) - 1
  /\ \A i \in 1..Len(scheduled') : scheduled'[i] = scheduled[i + 1]
  /\ scheduled[1].block \in Block /\ ran'[scheduled[1].block] > 0
  /\ \A d \in Depth' :
       FrameStays(d) \/ (d = Len(stack) + 1 /\ stack'[d].waiter = scheduled[1].waiter)
Notifies(d) ==
  /\ d \in Depth /\ Notify(stack[d].waiter)
  /\ \A e \in Depth' : e # d /\ FrameStays(e)
  /\ UNCHANGED scheduled

WaitStep ==
  \/ NobodyWaits \/ RunsNoted
  \/ \E t \in Thread : BeginsWait(t)
  \/ \E d : Notifies(d)

\* No frame of those that are new owes anybody.
LEMMA CalmFrames ==
  ASSUME Sane, Sane', NEW m \in Nat, NEW n \in Nat, Alike(m, n),
         \A d \in (m + 1)..n : stack'[d].kind # "code" \/ stack'[d].waiter = NoThread
  PROVE  FramesCalm
<1>1. /\ Depth' = 1..n /\ m <= Len(stack) /\ Len(stack) \in Nat
      /\ \A d \in Depth : stack[d] \in Frame
  BY StackTop DEF Alike, Depth, Sane
<1>2. \A d \in Depth' : stack'[d].waiter # NoThread => stack'[d].kind = "code"
  BY DEF Sane, StackOK
<1>3. ASSUME NEW d \in Depth', d <= m PROVE WaiterKept(d)
  <2>1. d \in 1..m /\ d \in Depth
    BY <1>1, <1>3 DEF Depth
  <2>2. stack[d] \in Frame
    BY <1>1, <2>1
  <2>3. stack'[d] = stack[d] \/ stack'[d] = [stack[d] EXCEPT !.touched = TRUE]
    BY <2>1 DEF Alike
  <2>4. QED
    BY <2>1, <2>2, <2>3 DEF WaiterKept, Frame
<1>4. \A d \in Depth' : d <= m \/ d \in (m + 1)..n
  BY <1>1
<1>5. QED
  BY <1>2, <1>3, <1>4 DEF FramesCalm

LEMMA CalmSame ==
  ASSUME UNCHANGED stack
  PROVE  FramesCalm
BY DEF FramesCalm, WaiterKept, Depth

LEMMA CalmCut ==
  ASSUME Sane, Sane', stack # <<>>, stack' = Below
  PROVE  FramesCalm
<1>1. Len(stack) \in Nat /\ Len(stack) >= 1 /\ Keeps(Len(stack) - 1, Len(stack) - 1)
  BY PopFrames, StackTop DEF Sane
<1>2. PICK m \in Nat : m = Len(stack) - 1
  <2>1. Len(stack) - 1 \in Nat
    BY <1>1
  <2>2. QED
    BY <2>1
<1>3. Alike(m, m)
  BY <1>1, <1>2, KeepsAlike
<1>4. \A d \in (m + 1)..m : FALSE
  OBVIOUS
<1>5. QED
  BY <1>3, <1>4, CalmFrames

LEMMA CalmPush ==
  ASSUME Sane, Sane', NEW f \in Frame, stack' = Append(stack, f),
         f.kind # "code" \/ f.waiter = NoThread
  PROVE  FramesCalm
<1> HIDE DEF Frame
<1>1. PICK m \in Nat : m = Len(stack)
  <2>1. Len(stack) \in Nat
    BY StackTop DEF Sane
  <2>2. QED
    BY <2>1
<1>2. Keeps(m, m + 1) /\ stack'[m + 1] = f
  BY <1>1, PushFrames DEF Sane
<1>3. PICK n \in Nat : n = m + 1
  OBVIOUS
<1>4. Alike(m, n)
  BY <1>2, <1>3, KeepsAlike
<1>5. \A d \in (m + 1)..n : d = m + 1
  BY <1>3
<1>6. \A d \in (m + 1)..n : stack'[d].kind # "code" \/ stack'[d].waiter = NoThread
  BY <1>2, <1>5
<1>7. QED
  BY <1>4, <1>6, CalmFrames

\* Two frames are new, above the first m.
LEMMA CalmTwo ==
  ASSUME Sane, Sane', NEW m \in Nat, Keeps(m, m + 2),
         stack'[m + 1].kind # "code" \/ stack'[m + 1].waiter = NoThread,
         stack'[m + 2].kind # "code" \/ stack'[m + 2].waiter = NoThread
  PROVE  FramesCalm
<1>1. PICK n \in Nat : n = m + 2
  OBVIOUS
<1>2. Alike(m, n)
  BY <1>1, KeepsAlike
<1>3. \A d \in (m + 1)..n : d = m + 1 \/ d = m + 2
  BY <1>1
<1>4. \A d \in (m + 1)..n : stack'[d].kind # "code" \/ stack'[d].waiter = NoThread
  BY <1>3
<1>5. QED
  BY <1>2, <1>4, CalmFrames

LEMMA CalmOps ==
  ASSUME UNCHANGED op
  PROVE  OpsCalm
BY DEF OpsCalm, Awaits

LEMMA CalmOp ==
  ASSUME Sane, NEW t \in Thread, NEW r, op' = [op EXCEPT ![t] = r],
         \/ ~Awaits(t) /\ r.pc \notin {"queued", "waiting"}
         \/ Awaits(t) /\ r.pc = "waiting" /\ r.block = op[t].block
  PROVE  OpsCalm
<1>1. op'[t] = r /\ \A u \in Thread : u # t => op'[u] = op[u]
  BY Types DEF Sane
<1>2. QED
  BY <1>1 DEF OpsCalm, Awaits

LEMMA CalmIs ==
  ASSUME OpsCalm, FramesCalm, UNCHANGED scheduled
  PROVE  WaitStep
BY DEF NobodyWaits, WaitStep

-------------------------------------------------------------------------------
(* Threads that wait for their block: what each action does.                 *)

LEMMA RaiseWaits ==
  ASSUME Sane, stack # <<>>, Raise, UNCHANGED scheduled
  PROVE  WaitStep
<1>1. PICK d \in Depth, n \in 0..Len(stack) :
         /\ n = (IF stack[d].kind = "sched" THEN d ELSE d - 1)
         /\ stack' \in Seq(Frame) /\ Len(stack') = n
         /\ \A e \in 1..n : stack'[e] = stack[e]
         /\ Notify(stack[d].waiter)
  BY RaiseIs DEF Sane
<1>2. Len(stack) \in Nat /\ d \in Nat /\ n \in Nat
  BY StackTop DEF Sane, Depth
<1>3. Depth' = 1..n /\ \A e \in 1..n : FrameStays(e)
  BY <1>1, <1>2 DEF Depth, FrameStays
<1>4. CASE stack[d].kind = "sched"
  <2>1. stack[d].waiter = NoThread
    BY <1>4 DEF Sane, StackOK
  <2>2. UNCHANGED op
    BY <1>1, <2>1 DEF Notify
  <2>3. FramesCalm
    BY <1>3 DEF FramesCalm, WaiterKept, FrameStays
  <2>4. QED
    BY <2>2, <2>3, CalmOps, CalmIs
<1>5. CASE stack[d].kind # "sched"
  <2>1. \A e \in Depth' : e # d
    BY <1>1, <1>2, <1>3, <1>5
  <2>2. Notifies(d)
    BY <1>1, <1>3, <2>1 DEF Notifies
  <2>3. QED
    BY <2>2 DEF WaitStep
<1>6. QED
  BY <1>4, <1>5

LEMMA EventWaits ==
  ASSUME Sane, Sane', Event
  PROVE  WaitStep
<1>1. PICK m \in Nat : m = Len(stack)
  <2>1. Len(stack) \in Nat
    BY StackTop DEF Sane
  <2>2. QED
    BY <2>1
<1>2. Keeps(m, m + 2) /\ stack'[m + 1] = FrameOf("event") /\ stack'[m + 2] = Code(NoThread)
  BY <1>1, EventFrames DEF Sane
<1>3. stack'[m + 1].kind = "event" /\ stack'[m + 2].waiter = NoThread
  BY <1>2 DEF FrameOf, Code
<1>4. FramesCalm
  BY <1>2, <1>3, CalmTwo
<1>5. UNCHANGED <<op, scheduled>>
  BY DEF Event
<1>6. QED
  BY <1>4, <1>5, CalmOps, CalmIs

LEMMA EndingWaits ==
  ASSUME Sane, Sane', EventEnds \/ FlushEnds
  PROVE  WaitStep
<1>1. stack # <<>> /\ stack' = Below /\ UNCHANGED <<op, scheduled>>
  BY DEF EventEnds, FlushEnds, Leave, OnTop
<1>2. QED
  BY <1>1, CalmCut, CalmOps, CalmIs

LEMMA DelayIsOverWaits ==
  ASSUME Sane, Sane', NEW k \in delayed, DelayIsOver(k)
  PROVE  WaitStep
<1>1. k \in 0..MaxToken /\ TypeOK
  BY Types DEF Sane
<1>2. stack' = Append(stack, TokenFrame(tokenSets, lists, k)) /\ UNCHANGED <<op, scheduled>>
  BY DEF DelayIsOver, Token, TokenFrame
<1>3. PICK f : f = TokenFrame(tokenSets, lists, k)
  OBVIOUS
<1>4. f \in Frame /\ f.kind = "token" /\ stack' = Append(stack, f)
  BY <1>1, <1>2, <1>3, TokenFrameHere
<1>5. FramesCalm
  BY <1>4, CalmPush
<1>6. QED
  BY <1>2, <1>5, CalmOps, CalmIs

LEMMA TokenNextWaits ==
  ASSUME Sane, Sane', TokenNext
  PROVE  WaitStep
<1>1. TypeOK /\ StackOK /\ Len(stack) \in Nat
  BY StackTop DEF Sane
<1>2. /\ OnTop("token") /\ Top \in Frame /\ Top.at \in Nat /\ Top.list \in Nat
      /\ UNCHANGED scheduled /\ stack # <<>>
  BY <1>1, TokenNextIs DEF OnTop
<1>3. ASSUME RunsOne PROVE WaitStep
  <2>1. PICK m \in Nat : m + 1 = Len(stack)
    <3>1. Len(stack) - 1 \in Nat /\ (Len(stack) - 1) + 1 = Len(stack)
      BY <1>1, <1>2, StackTop
    <3>2. QED
      BY <3>1
  <2>2. /\ Keeps(m, m + 2)
        /\ stack'[m + 1] = [Top EXCEPT !.at = Top.at + 1]
        /\ stack'[m + 2] = Code(NoThread)
    BY <1>1, <1>2, <1>3, <2>1, RunsOneFrames
  <2>3. stack'[m + 1].kind = "token" /\ stack'[m + 2].waiter = NoThread
    BY <1>2, <2>2 DEF OnTop, Code, FrameOf, Frame
  <2>4. FramesCalm
    BY <2>2, <2>3, CalmTwo
  <2>5. UNCHANGED op
    BY <1>3 DEF RunsOne
  <2>6. QED
    BY <1>2, <2>4, <2>5, CalmOps, CalmIs
<1>4. ASSUME Raise PROVE WaitStep
  BY <1>2, <1>4, RaiseWaits
<1>5. ASSUME Leave(Below, IF Top.unset THEN NoThread ELSE contextThread), UNCHANGED op
      PROVE  WaitStep
  <2>1. stack' = Below
    BY <1>5 DEF Leave
  <2>2. QED
    BY <1>2, <1>5, <2>1, CalmCut, CalmOps, CalmIs
<1>6. QED
  BY <1>1, <1>3, <1>4, <1>5, TokenNextIs

LEMMA CodeReturnsWaits ==
  ASSUME Sane, CodeReturns
  PROVE  WaitStep
<1>1. /\ stack # <<>> /\ stack' = Below /\ Notify(Top.waiter) /\ UNCHANGED scheduled
  BY DEF CodeReturns, CodeRuns, OnTop
<1>2. /\ Len(stack) \in Nat /\ Len(stack) \in Depth /\ Top = stack[Len(stack)]
      /\ Len(Below) = Len(stack) - 1 /\ \A d \in 1..Len(Below) : Below[d] = stack[d]
  BY <1>1, StackTop, BelowIs DEF Sane
<1>3. \A e \in Depth' : e # Len(stack) /\ FrameStays(e)
  BY <1>1, <1>2 DEF Depth, FrameStays
<1>4. Notifies(Len(stack))
  BY <1>1, <1>2, <1>3 DEF Notifies
<1>5. QED
  BY <1>4 DEF WaitStep

LEMMA ScheduleWaits ==
  ASSUME Sane, Sane', NEW t \in Thread, NEW b \in Block, Schedule(t, b) \/ ScheduleWait(t, b)
  PROVE  WaitStep
<1>1. TypeOK /\ CanCall(t) /\ op[t].pc = "idle"
  BY CallerIs DEF Sane, Schedule, ScheduleWait
<1>2. CASE RunAtOnce(b)
  <2>1. PICK f : f = Code(NoThread)
    OBVIOUS
  <2>2. NoThread \in Thread \cup {NoThread}
    OBVIOUS
  <2>3. f \in Frame /\ f.waiter = NoThread /\ stack' = Append(stack, f)
    BY <1>2, <2>1, <2>2, CodeIs DEF RunAtOnce
  <2>4. FramesCalm
    BY <2>3, CalmPush
  <2>5. UNCHANGED <<op, scheduled>>
    BY <1>2 DEF RunAtOnce
  <2>6. QED
    BY <2>4, <2>5, CalmOps, CalmIs
<1>3. CASE Enqueue(b, NoThread) /\ UNCHANGED <<stack, op>>
  <2>1. NoThread \in Thread \cup {NoThread}
    OBVIOUS
  <2>2. /\ Len(scheduled') = Len(scheduled) + 1 /\ Len(scheduled) \in Nat
        /\ \A i \in 1..Len(scheduled) : scheduled'[i] = scheduled[i]
        /\ scheduled'[Len(scheduled) + 1] = [block |-> b, waiter |-> NoThread]
    BY <1>1, <1>3, <2>1, EnqueueIs
  <2>3. Noted(b, NoThread)
    BY <2>2 DEF Noted, Queued
  <2>4. OpsCalm /\ FramesCalm
    BY <1>3, CalmOps, CalmSame
  <2>5. NobodyWaits
    BY <2>3, <2>4 DEF NobodyWaits
  <2>6. QED
    BY <2>5 DEF WaitStep
<1>4. CASE /\ Enqueue(b, t) /\ UNCHANGED stack
           /\ op' = [op EXCEPT ![t] = [Idle EXCEPT !.pc = "queued", !.block = b]]
  <2>1. /\ Len(scheduled') = Len(scheduled) + 1 /\ Len(scheduled) \in Nat
        /\ \A i \in 1..Len(scheduled) : scheduled'[i] = scheduled[i]
        /\ scheduled'[Len(scheduled) + 1] = [block |-> b, waiter |-> t]
    BY <1>1, <1>4, EnqueueIs
  <2>2. op \in [Thread -> OpRecord]
    BY <1>1, Types
  <2>3. PICK r : r = [Idle EXCEPT !.pc = "queued", !.block = b]
    OBVIOUS
  <2>4. r.pc = "queued" /\ r.block = b
    BY <2>3 DEF Idle
  <2>5. op'[t] = r /\ \A u \in Thread : u # t => op'[u] = op[u]
    BY <1>4, <2>2, <2>3
  <2>6. Noted(op'[t].block, t)
    BY <2>1, <2>4, <2>5 DEF Noted, Queued
  <2>7. ~Awaits(t) /\ Awaits(t)'
    BY <1>1, <2>4, <2>5 DEF Awaits
  <2>8. BeginsWait(t)
    BY <1>4, <2>5, <2>6, <2>7, CalmSame DEF BeginsWait
  <2>9. QED
    BY <2>8 DEF WaitStep
<1>5. QED
  BY <1>2, <1>3, <1>4 DEF Schedule, ScheduleWait

LEMMA AssignWaits ==
  ASSUME Sane, NEW t \in Thread, NEW o \in Obj, NEW b \in Block, Assign(t, o, b)
  PROVE  WaitStep
<1>1. PICK pc \in {"put", "get"} :
        op' = [op EXCEPT ![t] = [pc |-> pc, obj |-> o, block |-> b, list |-> 0]]
  BY DEF Assign
<1>2. UNCHANGED <<stack, scheduled>> /\ op[t].pc = "idle"
  BY CallerIs DEF Assign, AfterAssign
<1>3. PICK r : r = [pc |-> pc, obj |-> o, block |-> b, list |-> 0]
  OBVIOUS
<1>4. OpsCalm
  BY <1>1, <1>2, <1>3, CalmOp DEF Awaits
<1>5. QED
  BY <1>2, <1>4, CalmSame, CalmIs

LEMMA AssigningWaits ==
  ASSUME Sane, Sane', NEW t \in Thread, AssignPut(t) \/ AssignGet(t) \/ AssignAdd(t)
  PROVE  WaitStep
<1>1. op[t] \in OpRecord /\ Len(stack) \in Nat /\ TypeOK
  BY OpNow, StackTop DEF Sane
<1>2. CASE AssignPut(t)
  <2>1. /\ op[t].pc = "put" /\ stack' \in {stack, Touch(stack)} /\ UNCHANGED scheduled
        /\ op' = [op EXCEPT ![t] = [op[t] EXCEPT !.pc = "get"]]
    BY <1>2, AssignPutIs
  <2>2. PICK r : r = [op[t] EXCEPT !.pc = "get"]
    OBVIOUS
  <2>3. r.pc = "get"
    BY <1>1, <2>2 DEF OpRecord
  <2>4. OpsCalm
    BY <2>1, <2>2, <2>3, CalmOp DEF Awaits
  <2>5. PICK m \in Nat : m = Len(stack)
    BY <1>1
  <2>6. Alike(m, m)
    BY <1>1, <2>1, <2>5, TouchedIs
  <2>7. \A d \in (m + 1)..m : FALSE
    OBVIOUS
  <2>8. FramesCalm
    BY <2>6, <2>7, CalmFrames
  <2>9. QED
    BY <2>1, <2>4, <2>8, CalmIs
<1>3. CASE AssignGet(t)
  <2>1. PICK l : l = tokenMap[op[t].obj]
    OBVIOUS
  <2>2. PICK r : r = IF l = 0 THEN Idle ELSE [op[t] EXCEPT !.pc = "add", !.list = l]
    OBVIOUS
  <2>3. op[t].pc = "get" /\ op' = [op EXCEPT ![t] = r] /\ UNCHANGED <<stack, scheduled>>
    BY <1>3, <2>1, <2>2 DEF AssignGet, AfterAssign
  <2>4. r.pc \in {"idle", "add"}
    BY <1>1, <2>2 DEF OpRecord, Idle
  <2>5. OpsCalm
    BY <2>3, <2>4, CalmOp DEF Awaits
  <2>6. QED
    BY <2>3, <2>5, CalmSame, CalmIs
<1>4. CASE AssignAdd(t)
  <2>1. op[t].pc = "add" /\ op' = [op EXCEPT ![t] = Idle] /\ UNCHANGED <<stack, scheduled>>
    BY <1>4, AssignAddIs
  <2>2. Idle.pc = "idle"
    BY DEF Idle
  <2>3. OpsCalm
    BY <2>1, <2>2, CalmOp DEF Awaits
  <2>4. QED
    BY <2>1, <2>3, CalmSame, CalmIs
<1>5. QED
  BY <1>2, <1>3, <1>4

LEMMA WaitWaits ==
  ASSUME Sane, NEW t \in Thread, Wait(t)
  PROVE  WaitStep
<1>1. PICK r : r = [op[t] EXCEPT !.pc = "waiting"]
  OBVIOUS
<1>2. op[t].pc = "queued" /\ op' = [op EXCEPT ![t] = r] /\ UNCHANGED <<stack, scheduled>>
  BY <1>1 DEF Wait
<1>3. r.pc = "waiting" /\ r.block = op[t].block
  BY <1>1, OpNow DEF OpRecord
<1>4. OpsCalm
  BY <1>2, <1>3, CalmOp DEF Awaits
<1>5. QED
  BY <1>2, <1>4, CalmSame, CalmIs

LEMMA ListedWaits ==
  ASSUME Sane, Sane', NEW b \in Block, AssignNow(b) \/ Delay(b)
  PROVE  WaitStep
<1>1. CASE AssignNow(b)
  <2>1. UNCHANGED <<op, scheduled>>
    BY <1>1, AssignNowIs
  <2>2. PICK f \in Frame : stack' = Append(stack, f) /\ NewToken(f, Len(lists) + 1, lists')
    BY <1>1, AssignNowIs
  <2>3. f.kind = "token"
    BY <2>2 DEF NewToken
  <2>4. FramesCalm
    BY <2>2, <2>3, CalmPush
  <2>5. QED
    BY <2>1, <2>4, CalmOps, CalmIs
<1>2. CASE Delay(b)
  <2>1. UNCHANGED <<stack, op, scheduled>>
    BY <1>2, DelayIs
  <2>2. QED
    BY <2>1, CalmSame, CalmOps, CalmIs
<1>3. QED
  BY <1>1, <1>2

LEMMA FlushQueuesWaits ==
  ASSUME Sane, Sane', FlushQueues
  PROVE  WaitStep
<1>1. PICK todo \in SUBSET Obj : todo = {o \in Obj : tokenMap[o] # 0}
  OBVIOUS
<1>2. PICK f : f = [FrameOf("assign") EXCEPT !.todo = todo]
  OBVIOUS
<1>3. f \in Frame /\ f.kind = "assign"
  BY <1>2, FlushFrame
<1>4. stack' = Append(stack, f) /\ UNCHANGED <<op, scheduled>>
  BY <1>1, <1>2 DEF FlushQueues
<1>5. FramesCalm
  BY <1>3, <1>4, CalmPush
<1>6. QED
  BY <1>4, <1>5, CalmOps, CalmIs

LEMMA HandOutNextWaits ==
  ASSUME Sane, Sane', HandOutNext
  PROVE  WaitStep
<1>1. OnTop("assign") /\ stack # <<>> /\ UNCHANGED scheduled
  BY HandOutNextIs
<1>2. ASSUME Raise PROVE WaitStep
  BY <1>1, <1>2, RaiseWaits
<1>3. ASSUME NEW o \in Obj, NEW f \in Frame, NEW g \in Frame, HandsOut(o, f, g)
      PROVE  WaitStep
  <2> HIDE DEF Frame
  <2>1. /\ stack' = Append(Append(Below, f), g) /\ UNCHANGED op
        /\ f.kind = "assign" /\ g.kind = "token"
    BY <1>3 DEF HandsOut, NewToken
  <2>2. Len(stack) \in Nat /\ Len(stack) >= 1 /\ TypeOK
    BY <1>1, StackTop DEF Sane
  <2>3. PICK m \in Nat : m + 1 = Len(stack)
    <3>1. Len(stack) - 1 \in Nat /\ (Len(stack) - 1) + 1 = Len(stack)
      BY <2>2
    <3>2. QED
      BY <3>1
  <2>4. Keeps(m, m + 2) /\ stack'[m + 1] = f /\ stack'[m + 2] = g
    <3>1. /\ Keeps(Len(stack) - 1, Len(stack) + 1)
          /\ stack'[Len(stack)] = f /\ stack'[Len(stack) + 1] = g
      BY <1>1, <2>1, <2>2, ReplaceFrames
    <3>2. Len(stack) - 1 = m /\ Len(stack) + 1 = m + 2
      BY <2>3
    <3>3. QED
      BY <2>3, <3>1, <3>2
  <2>5. FramesCalm
    BY <2>1, <2>4, CalmTwo
  <2>6. QED
    BY <1>1, <2>1, <2>5, CalmOps, CalmIs
<1>4. QED
  BY <1>2, <1>3, HandOutNextIs

LEMMA HandOutEndsWaits ==
  ASSUME Sane, Sane', HandOutEnds
  PROVE  WaitStep
<1>1. /\ stack # <<>> /\ UNCHANGED <<op, scheduled>>
      /\ Len(stack) >= 1 /\ Alike(Len(stack) - 1, Len(stack))
      /\ stack'[Len(stack)] = FrameOf("sched")
  BY HandOutEndsIs DEF Sane
<1>2. Len(stack) \in Nat /\ FrameOf("sched").kind = "sched"
  BY StackTop DEF Sane, FrameOf
<1>3. PICK m \in Nat, n \in Nat : m = Len(stack) - 1 /\ n = Len(stack)
  <2>1. Len(stack) - 1 \in Nat
    BY <1>1, <1>2
  <2>2. QED
    BY <1>2, <2>1
<1>4. Alike(m, n)
  BY <1>1, <1>3
<1>5. \A d \in (m + 1)..n : d = n
  BY <1>2, <1>3
<1>6. \A d \in (m + 1)..n : stack'[d].kind # "code" \/ stack'[d].waiter = NoThread
  BY <1>1, <1>2, <1>3, <1>5
<1>7. FramesCalm
  BY <1>4, <1>6, CalmFrames
<1>8. QED
  BY <1>1, <1>7, CalmOps, CalmIs

LEMMA RunScheduledWaits ==
  ASSUME Sane, RunScheduled
  PROVE  WaitStep
<1>1. /\ UNCHANGED op
      /\ Len(scheduled) \in Nat /\ Len(scheduled) >= 1 /\ Len(scheduled') = Len(scheduled) - 1
      /\ \A i \in 1..Len(scheduled') : scheduled'[i] = scheduled[i + 1]
      /\ Started(scheduled[1].block) /\ scheduled[1].block \in Block
  BY RunScheduledIs
<1>2. PICK w \in Thread \cup {NoThread} : w = scheduled[1].waiter /\ stack' = Append(stack, Code(w))
  BY RunScheduledIs
<1>3. TypeOK /\ ran'[scheduled[1].block] > 0
  <2>1. PICK b \in Block : b = scheduled[1].block
    BY <1>1
  <2>2. Started(b)
    BY <1>1, <2>1
  <2>3. QED
    BY <2>1, <2>2, Starting DEF Sane
<1>4. PICK f \in Frame : f = Code(w) /\ f.waiter = w
  BY CodeIs
<1>5. stack' = Append(stack, f)
  BY <1>2, <1>4
<1> HIDE DEF Frame
<1>6. PICK m \in Nat : m = Len(stack)
  <2>1. Len(stack) \in Nat
    BY <1>3, StackTop
  <2>2. QED
    BY <2>1
<1>7. Keeps(m, m + 1) /\ stack'[m + 1] = f
  BY <1>3, <1>5, <1>6, PushFrames
<1>8. \A d \in Depth' : d \in 1..m \/ d = m + 1
  BY <1>7 DEF Keeps, Depth
<1>9. \A d \in 1..m : FrameStays(d)
  BY <1>6, <1>7 DEF Keeps, FrameStays, Depth
<1>10. \A d \in Depth' :
         FrameStays(d) \/ (d = Len(stack) + 1 /\ stack'[d].waiter = scheduled[1].waiter)
  BY <1>2, <1>4, <1>6, <1>7, <1>8, <1>9
<1>11. RunsNoted
  BY <1>1, <1>3, <1>10 DEF RunsNoted
<1>12. QED
  BY <1>11 DEF WaitStep

LEMMA WaitSteps ==
  ASSUME Sane, [Next]_vars, ~habit.spurious
  PROVE  WaitStep
<1>1. Sane'
  BY SaneNext
<1>2. CASE Event
  BY <1>1, <1>2, EventWaits
<1>3. CASE EventEnds \/ FlushEnds
  BY <1>1, <1>3, EndingWaits
<1>4. CASE \E k \in delayed : DelayIsOver(k)
  BY <1>1, <1>4, DelayIsOverWaits
<1>5. CASE TokenNext
  BY <1>1, <1>5, TokenNextWaits
<1>6. CASE CodeReturns
  BY <1>6, CodeReturnsWaits
<1>7. CASE CodeThrows
  <2>1. Raise /\ stack # <<>> /\ UNCHANGED scheduled
    BY <1>7 DEF CodeThrows, CodeRuns, OnTop
  <2>2. QED
    BY <2>1, RaiseWaits
<1>8. CASE \E b \in Block : AssignNow(b) \/ Delay(b)
  BY <1>1, <1>8, ListedWaits
<1>9. CASE FlushQueues
  BY <1>1, <1>9, FlushQueuesWaits
<1>10. CASE HandOutNext
  BY <1>1, <1>10, HandOutNextWaits
<1>11. CASE HandOutEnds
  BY <1>1, <1>11, HandOutEndsWaits
<1>12. CASE RunScheduled
  BY <1>12, RunScheduledWaits
<1>13. CASE \E t \in Thread, b \in Block : Schedule(t, b) \/ ScheduleWait(t, b)
  BY <1>1, <1>13, ScheduleWaits
<1>14. CASE \E t \in Thread, b \in Block, o \in Obj : Assign(t, o, b)
  BY <1>14, AssignWaits
<1>15. CASE \E t \in Thread : Wait(t)
  BY <1>15, WaitWaits
<1>16. ASSUME \E t \in Thread : WakeUp(t) PROVE FALSE
  BY <1>16 DEF WakeUp
<1>17. CASE \E t \in Thread : AssignPut(t) \/ AssignGet(t) \/ AssignAdd(t)
  BY <1>1, <1>17, AssigningWaits
<1>18. CASE UNCHANGED vars
  <2>1. UNCHANGED <<op, stack, scheduled>>
    BY <1>18 DEF vars
  <2>2. QED
    BY <2>1, CalmSame, CalmOps, CalmIs
<1>19. QED
  BY <1>2, <1>3, <1>4, <1>5, <1>6, <1>7, <1>8, <1>9, <1>10, <1>11, <1>12, <1>13, <1>14, <1>15,
     <1>16, <1>17, <1>18 DEF Next, GameStep

-------------------------------------------------------------------------------
(* Threads that wait for their block: they return after it.                  *)

LEMMA AwaitedBlock ==
  ASSUME Sane, NEW t \in Thread, Awaits(t)
  PROVE  op[t].block \in Block
BY OpNow, Facts DEF Awaits, Block

\* Nothing is noted that was not, and who awaits goes on.
LEMMA NothingNoted ==
  ASSUME Sane, Waiting,
         \A b \in Block : ran[b] > 0 => ran'[b] > 0,
         \A t \in Thread : \A i : NotedAt(i, t)' =>
           NotedAt(i, t) /\ scheduled'[i].block = scheduled[i].block,
         \A t \in Thread : \A d : OwedBy(d, t)' => OwedBy(d, t),
         \A t \in Thread : \/ Awaits(t) => Awaits(t)' /\ op'[t].block = op[t].block
                          \/ \A i : ~NotedAt(i, t)' /\ ~OwedBy(i, t)'
  PROVE  Waiting'
<1>1. NotedRight'
  BY DEF Waiting, NotedRight
<1>2. OwedRight'
  BY AwaitedBlock DEF Waiting, OwedRight
<1>3. NotedOnce'
  <2> SUFFICES ASSUME NEW t \in Thread
               PROVE  /\ \A i, j : NotedAt(i, t)' /\ NotedAt(j, t)' => i = j
                      /\ \A d, e : OwedBy(d, t)' /\ OwedBy(e, t)' => d = e
                      /\ \A i, d : ~(NotedAt(i, t)' /\ OwedBy(d, t)')
    BY DEF NotedOnce
  <2>1. QED
    BY DEF Waiting, NotedOnce
<1>4. QED
  BY <1>1, <1>2, <1>3 DEF Waiting

\* What is in the queue after a block was put at its end.
LEMMA NotedAfter ==
  ASSUME NEW b, NEW w, Noted(b, w), NEW i, NEW t, NotedAt(i, t)'
  PROVE  \/ NotedAt(i, t) /\ scheduled'[i].block = scheduled[i].block
         \/ i = Len(scheduled) + 1 /\ t = w /\ scheduled'[i].block = b
<1>1. i \in 1..(Len(scheduled) + 1) /\ Len(scheduled) \in Nat
  BY DEF NotedAt, Queued, Noted
<1>2. i \in Queued \/ i = Len(scheduled) + 1
  BY <1>1 DEF Queued
<1>3. QED
  BY <1>2 DEF NotedAt, Noted

LEMMA NobodyWaitsNext ==
  ASSUME Sane, Waiting, \A b \in Block : ran[b] > 0 => ran'[b] > 0, NobodyWaits
  PROVE  Waiting'
<1>1. ASSUME NEW t \in Thread, NEW i, NotedAt(i, t)'
      PROVE  NotedAt(i, t) /\ scheduled'[i].block = scheduled[i].block
  <2>1. CASE UNCHANGED scheduled
    BY <1>1, <2>1 DEF NotedAt, Queued
  <2>2. CASE \E b : Noted(b, NoThread)
    BY <1>1, <2>2, NotedAfter, Facts
  <2>3. QED
    BY <2>1, <2>2 DEF NobodyWaits
<1>2. ASSUME NEW t \in Thread, NEW d, OwedBy(d, t)' PROVE OwedBy(d, t)
  BY <1>2, Facts DEF NobodyWaits, FramesCalm, WaiterKept, OwedBy
<1>3. \A t \in Thread : Awaits(t) => Awaits(t)' /\ op'[t].block = op[t].block
  BY DEF NobodyWaits, OpsCalm
<1>4. QED
  BY <1>1, <1>2, <1>3, NothingNoted

LEMMA NotifiesNext ==
  ASSUME Sane, Waiting, \A b \in Block : ran[b] > 0 => ran'[b] > 0, NEW d, Notifies(d)
  PROVE  Waiting'
<1>1. PICK w \in Thread \cup {NoThread} : w = stack[d].waiter
  <2>1. stack[d] \in Frame
    BY StackTop DEF Notifies, Sane
  <2>2. QED
    BY <2>1 DEF Frame
<1>2. Notify(w) /\ d \in Depth
  BY <1>1 DEF Notifies
<1>3. \A u \in Thread : op'[u] # op[u] => u = w
  BY <1>2, NotifyIs DEF Sane
<1>4. \A t \in Thread : \A i : NotedAt(i, t)' =>
        NotedAt(i, t) /\ scheduled'[i].block = scheduled[i].block
  BY DEF Notifies, NotedAt, Queued
<1>5. \A t \in Thread : \A e : OwedBy(e, t)' => OwedBy(e, t) /\ e # d
  BY DEF Notifies, OwedBy, FrameStays
<1>6. ASSUME NEW t \in Thread, t = w PROVE \A i : ~NotedAt(i, t)' /\ ~OwedBy(i, t)'
  <2>1. OwedBy(d, t)
    BY <1>1, <1>2, <1>6 DEF OwedBy
  <2>2. QED
    BY <1>4, <1>5, <2>1 DEF Waiting, NotedOnce
<1>7. ASSUME NEW t \in Thread, t # w
      PROVE  Awaits(t) => Awaits(t)' /\ op'[t].block = op[t].block
  BY <1>3, <1>7 DEF Awaits
<1>8. QED
  BY <1>4, <1>5, <1>6, <1>7, NothingNoted

LEMMA BeginsWaitNext ==
  ASSUME Sane, Waiting, \A b \in Block : ran[b] > 0 => ran'[b] > 0, NEW t \in Thread, BeginsWait(t)
  PROVE  Waiting'
<1>1. /\ ~Awaits(t) /\ Awaits(t)' /\ Noted(op'[t].block, t) /\ FramesCalm
      /\ \A u \in Thread : u # t => op'[u] = op[u]
  BY DEF BeginsWait
<1>2. \A i : ~NotedAt(i, t) /\ ~OwedBy(i, t)
  BY <1>1 DEF Waiting, NotedRight, OwedRight
<1>3. \A u \in Thread : \A i : NotedAt(i, u)' =>
        \/ NotedAt(i, u) /\ scheduled'[i].block = scheduled[i].block
        \/ i = Len(scheduled) + 1 /\ u = t /\ scheduled'[i].block = op'[t].block
  <2>1. PICK b : b = op'[t].block
    OBVIOUS
  <2>2. Noted(b, t)
    BY <1>1, <2>1
  <2>3. QED
    BY <2>1, <2>2, NotedAfter
<1>4. \A u \in Thread : \A d : OwedBy(d, u)' => OwedBy(d, u)
  BY <1>1, Facts DEF FramesCalm, WaiterKept, OwedBy
<1>5. \A u \in Thread : u # t => (Awaits(u)' <=> Awaits(u))
  BY <1>1 DEF Awaits
<1>6. NotedRight'
  <2> SUFFICES ASSUME NEW u \in Thread, NEW i, NotedAt(i, u)'
               PROVE  Awaits(u)' /\ scheduled'[i].block = op'[u].block
    BY DEF NotedRight
  <2>1. CASE u = t
    BY <1>1, <1>2, <1>3, <2>1
  <2>2. CASE u # t
    BY <1>1, <1>3, <1>5, <2>2 DEF Waiting, NotedRight
  <2>3. QED
    BY <2>1, <2>2
<1>7. OwedRight'
  <2> SUFFICES ASSUME NEW u \in Thread, NEW d, OwedBy(d, u)'
               PROVE  Awaits(u)' /\ ran'[op'[u].block] > 0
    BY DEF OwedRight
  <2>1. u # t /\ OwedBy(d, u)
    BY <1>2, <1>4
  <2>2. Awaits(u) /\ ran[op[u].block] > 0
    BY <2>1 DEF Waiting, OwedRight
  <2>3. op[u].block \in Block /\ op'[u] = op[u]
    BY <1>1, <2>1, <2>2, AwaitedBlock
  <2>4. QED
    BY <1>5, <2>1, <2>2, <2>3
<1>8. NotedOnce'
  <2> SUFFICES ASSUME NEW u \in Thread
               PROVE  /\ \A i, j : NotedAt(i, u)' /\ NotedAt(j, u)' => i = j
                      /\ \A d, e : OwedBy(d, u)' /\ OwedBy(e, u)' => d = e
                      /\ \A i, d : ~(NotedAt(i, u)' /\ OwedBy(d, u)')
    BY DEF NotedOnce
  <2>1. CASE u = t
    BY <1>2, <1>3, <1>4, <2>1
  <2>2. CASE u # t
    BY <1>3, <1>4, <2>2 DEF Waiting, NotedOnce
  <2>3. QED
    BY <2>1, <2>2
<1>9. QED
  BY <1>6, <1>7, <1>8 DEF Waiting

LEMMA RunsNotedNext ==
  ASSUME Sane, Waiting, \A b \in Block : ran[b] > 0 => ran'[b] > 0, RunsNoted
  PROVE  Waiting'
<1>1. /\ Len(scheduled) \in Nat /\ Len(scheduled) >= 1 /\ Len(scheduled') = Len(scheduled) - 1
      /\ \A i \in 1..Len(scheduled') : scheduled'[i] = scheduled[i + 1]
      /\ UNCHANGED op
  BY DEF RunsNoted
<1>2. \A t \in Thread : Awaits(t)' <=> Awaits(t)
  BY <1>1 DEF Awaits
<1>3. ASSUME NEW t, NEW i, NotedAt(i, t)'
      PROVE  i \in Nat \ {0} /\ NotedAt(i + 1, t) /\ scheduled'[i].block = scheduled[i + 1].block
  <2>1. i \in 1..(Len(scheduled) - 1) /\ scheduled'[i].waiter = t
    BY <1>1, <1>3 DEF NotedAt, Queued
  <2>2. i + 1 \in 1..Len(scheduled) /\ scheduled'[i] = scheduled[i + 1] /\ i \in Nat \ {0}
    BY <1>1, <2>1
  <2>3. QED
    BY <2>1, <2>2 DEF NotedAt, Queued
<1>4. ASSUME NEW t, NEW d, OwedBy(d, t)'
      PROVE  OwedBy(d, t) \/ (d = Len(stack) + 1 /\ NotedAt(1, t))
  <2>1. 1 \in Queued
    BY <1>1 DEF Queued
  <2>2. QED
    BY <1>4, <2>1 DEF RunsNoted, OwedBy, FrameStays, NotedAt
<1>5. Len(stack) \in Nat /\ \A t, d : OwedBy(d, t) => d # Len(stack) + 1
  <2>1. Len(stack) \in Nat
    BY StackTop DEF Sane
  <2>2. QED
    BY <2>1 DEF OwedBy, Depth
<1>6. NotedRight'
  BY <1>1, <1>2, <1>3 DEF Waiting, NotedRight
<1>7. OwedRight'
  <2> SUFFICES ASSUME NEW t \in Thread, NEW d, OwedBy(d, t)'
               PROVE  Awaits(t)' /\ ran'[op'[t].block] > 0
    BY DEF OwedRight
  <2>1. CASE OwedBy(d, t)
    BY <1>1, <1>2, <2>1, AwaitedBlock DEF Waiting, OwedRight
  <2>2. CASE NotedAt(1, t)
    <3>1. Awaits(t) /\ scheduled[1].block = op[t].block
      BY <2>2 DEF Waiting, NotedRight
    <3>2. QED
      BY <1>1, <1>2, <3>1 DEF RunsNoted
  <2>3. QED
    BY <1>4, <2>1, <2>2
<1>8. NotedOnce'
  <2> SUFFICES ASSUME NEW t \in Thread
               PROVE  /\ \A i, j : NotedAt(i, t)' /\ NotedAt(j, t)' => i = j
                      /\ \A d, e : OwedBy(d, t)' /\ OwedBy(e, t)' => d = e
                      /\ \A i, d : ~(NotedAt(i, t)' /\ OwedBy(d, t)')
    BY DEF NotedOnce
  <2>1. ASSUME NEW i, NEW j, NotedAt(i, t)', NotedAt(j, t)' PROVE i = j
    <3>1. i \in Nat /\ j \in Nat /\ NotedAt(i + 1, t) /\ NotedAt(j + 1, t)
      BY <1>3, <2>1
    <3>2. i + 1 = j + 1
      BY <3>1 DEF Waiting, NotedOnce
    <3>3. QED
      BY <3>1, <3>2
  <2>2. ASSUME NEW d, NEW e, OwedBy(d, t)', OwedBy(e, t)' PROVE d = e
    BY <1>4, <1>5, <2>2 DEF Waiting, NotedOnce
  <2>3. ASSUME NEW i, NEW d, NotedAt(i, t)', OwedBy(d, t)' PROVE FALSE
    <3>1. i \in Nat \ {0} /\ NotedAt(i + 1, t)
      BY <1>3, <2>3
    <3>2. ~OwedBy(d, t)
      BY <3>1 DEF Waiting, NotedOnce
    <3>3. NotedAt(1, t)
      BY <1>4, <2>3, <3>2
    <3>4. i + 1 = 1
      BY <3>1, <3>3 DEF Waiting, NotedOnce
    <3>5. QED
      BY <3>1, <3>4
  <2>4. QED
    BY <2>1, <2>2, <2>3
<1>9. QED
  BY <1>6, <1>7, <1>8 DEF Waiting

LEMMA WaitingNext ==
  ASSUME Sane, Sane', BlockStep, WaitStep, Waiting
  PROVE  Waiting'
<1>1. \A b \in Block : ran[b] > 0 => ran'[b] > 0
  BY Tables
<1>2. QED
  BY <1>1, NobodyWaitsNext, RunsNotedNext, BeginsWaitNext, NotifiesNext DEF WaitStep

LEMMA WaitingInit == Init => Waiting
<1> SUFFICES ASSUME Init PROVE Waiting
  OBVIOUS
<1>1. Depth = {} /\ Queued = {}
  <2>1. Len(stack) = 0 /\ Len(scheduled) = 0
    BY DEF Init
  <2>2. QED
    BY <2>1 DEF Depth, Queued
<1>2. QED
  BY <1>1 DEF Waiting, NotedRight, OwedRight, NotedOnce, NotedAt, OwedBy

\* A thread that returns from scheduleWait is one that somebody notified.
LEMMA ReturnIsNotified ==
  ASSUME Sane, WaitStep, Waiting, Waiting', NEW t \in Thread,
         op[t].pc = "waiting", op'[t].pc = "idle"
  PROVE  ran[op[t].block] > 0 /\ \A d \in 1..Len(stack') : stack'[d].waiter # t
<1>1. Awaits(t) /\ ~Awaits(t)' /\ op'[t] # op[t]
  BY DEF Awaits
<1>2. \A d : ~OwedBy(d, t)'
  BY <1>1 DEF Waiting, OwedRight
<1>3. PICK d : Notifies(d)
  BY <1>1 DEF WaitStep, NobodyWaits, OpsCalm, RunsNoted, BeginsWait
<1>4. PICK w \in Thread \cup {NoThread} : w = stack[d].waiter
  <2>1. stack[d] \in Frame
    BY <1>3, StackTop DEF Notifies, Sane
  <2>2. QED
    BY <2>1 DEF Frame
<1>5. Notify(w) /\ d \in Depth
  BY <1>3, <1>4 DEF Notifies
<1>6. t = w
  BY <1>1, <1>5, NotifyIs DEF Sane
<1>7. OwedBy(d, t)
  BY <1>4, <1>5, <1>6 DEF OwedBy
<1>8. ran[op[t].block] > 0
  BY <1>7 DEF Waiting, OwedRight
<1>9. QED
  BY <1>2, <1>8 DEF OwedBy, Depth

\* scheduleWait returns after the block has run, where wait() returns only when notified:
\* whatever events, exceptions and flushQueues come in between, and however they nest.
THEOREM WaitersReturnInTime == Spec => ReturnsAfterItsBlock
<1> DEFINE I == Sane /\ (~habit.spurious => Waiting)
<1>1. Init => I
  BY SaneInit, WaitingInit
<1>2. ASSUME I, [Next]_vars
      PROVE  I' /\ (~habit.spurious => Sane' /\ WaitStep /\ Waiting /\ Waiting')
  <2>1. Sane' /\ BlockStep /\ habit' = habit
    BY <1>2, SaneNext, BlockSteps, HabitStays
  <2>2. CASE habit.spurious
    BY <2>1, <2>2
  <2>3. CASE ~habit.spurious
    <3>1. Waiting /\ WaitStep
      BY <1>2, <2>3, WaitSteps
    <3>2. Waiting'
      BY <1>2, <2>1, <3>1, WaitingNext
    <3>3. QED
      BY <2>1, <3>1, <3>2
  <2>4. QED
    BY <2>2, <2>3
<1>3. I /\ [Next]_vars => I'
  BY <1>2
<1>4. I /\ [Next]_vars =>
        [~habit.spurious =>
           \A t \in Thread : op[t].pc = "waiting" /\ op'[t].pc = "idle" =>
             /\ ran[op[t].block] > 0
             /\ \A d \in 1..Len(stack') : stack'[d].waiter # t]_vars
  <2> SUFFICES ASSUME I, [Next]_vars, ~habit.spurious, NEW t \in Thread,
                      op[t].pc = "waiting", op'[t].pc = "idle"
               PROVE  /\ ran[op[t].block] > 0
                      /\ \A d \in 1..Len(stack') : stack'[d].waiter # t
    OBVIOUS
  <2>1. Sane /\ WaitStep /\ Waiting /\ Waiting'
    BY <1>2
  <2>2. QED
    BY <2>1, ReturnIsNotified
<1> HIDE DEF I
<1>5. QED
  BY <1>1, <1>3, <1>4, PTL DEF Spec, ReturnsAfterItsBlock

-------------------------------------------------------------------------------
(* A steady program: what a step leaves of the tokens' frames.               *)

\* What BlockStaysQueued is about: a disciplined program that throws nothing, and where
\* only the game's thread assigns.
Steady == habit.disciplined /\ ~habit.throws /\ habit.assigner \subseteq {Game}

\* Frame d has the size its list has, so that the loop over it is not broken off.
SizesFit == \A d \in Depth : stack[d].list # 0 => stack[d].size = Len(lists[stack[d].list])

\* Nothing of list l is left after its first f blocks.
Done(l, f) == \A i \in Nat : Place(l, i) => i <= f

\* A token's frame stays, starts its next block, or was through with its list.
TokenStays(d) == d \in Depth' /\ stack'[d].list = stack[d].list /\ stack'[d].at = stack[d].at
TokenGoesOn(d) ==
  /\ d \in Depth' /\ stack'[d].list = stack[d].list /\ stack'[d].at = stack[d].at + 1
  /\ ran'[lists[stack[d].list][stack[d].at + 1]] > 0
TokensGoOn ==
  \A d \in Depth : stack[d].list # 0 =>
    TokenStays(d) \/ TokenGoesOn(d) \/ Done(stack[d].list, stack[d].at)

LEMMA FramesGoOn ==
  ASSUME TypeOK, NEW m \in Nat, NEW n \in Nat, Alike(m, n),
         \A d \in Depth : stack[d].list # 0 /\ d > m => Done(stack[d].list, stack[d].at)
  PROVE  TokensGoOn
<1> SUFFICES ASSUME NEW d \in Depth, stack[d].list # 0, d <= m PROVE TokenStays(d)
  <2>1. \A d \in Depth : d \in Nat
    BY DEF Depth
  <2>2. QED
    BY <2>1 DEF TokensGoOn
<1>1. stack[d] \in Frame
  BY StackTop
<1>2. [stack[d] EXCEPT !.touched = TRUE].list = stack[d].list
      /\ [stack[d] EXCEPT !.touched = TRUE].at = stack[d].at
  BY <1>1 DEF Frame
<1>3. d \in 1..m /\ d \in Depth'
  BY DEF Depth, Alike
<1>4. QED
  BY <1>2, <1>3 DEF Alike, TokenStays

LEMMA FramesKeptGoOn ==
  ASSUME TypeOK, NEW n, Keeps(Len(stack), n), n \in Nat
  PROVE  TokensGoOn
<1>1. PICK m \in Nat : m = Len(stack)
  BY StackTop
<1>2. Alike(m, n) /\ \A d \in Depth : ~(d > m)
  BY <1>1, KeepsAlike DEF Depth
<1>3. QED
  BY <1>2, FramesGoOn

LEMMA PushGoesOn ==
  ASSUME TypeOK, NEW f \in Frame, stack' = Append(stack, f)
  PROVE  TokensGoOn
<1> HIDE DEF Frame
<1>1. Keeps(Len(stack), Len(stack) + 1) /\ Len(stack) + 1 \in Nat
  BY PushFrames, StackTop
<1>2. QED
  BY <1>1, FramesKeptGoOn

LEMMA SameGoesOn ==
  ASSUME TypeOK, UNCHANGED stack
  PROVE  TokensGoOn
BY DEF TokensGoOn, TokenStays, Depth

\* A frame is popped that has no list, or is through with it.
LEMMA PopGoesOn ==
  ASSUME TypeOK, stack # <<>>, stack' = Below, Top.list # 0 => Done(Top.list, Top.at)
  PROVE  TokensGoOn
<1>1. Len(stack) >= 1 /\ Keeps(Len(stack) - 1, Len(stack) - 1)
      /\ Len(stack) \in Nat /\ Top = stack[Len(stack)]
  BY PopFrames, StackTop
<1>2. PICK m \in Nat : m = Len(stack) - 1
  BY <1>1
<1>3. Alike(m, m)
  BY <1>1, <1>2, KeepsAlike
<1>4. \A d \in Depth : d > m => d = Len(stack)
  BY <1>1, <1>2 DEF Depth
<1>5. QED
  BY <1>1, <1>3, <1>4, FramesGoOn

\* Only a token's frame has a list.
LEMMA NoList ==
  ASSUME Sane, stack # <<>>, Top.kind # "token"
  PROVE  Top.list = 0
<1>1. Len(stack) \in Depth /\ Top = stack[Len(stack)]
  BY StackTop DEF Sane
<1>2. QED
  BY <1>1 DEF Sane, StackOK

\* Nothing is thrown in the middle of a list or of flushQueues.
LEMMA TokenNextGoesOn ==
  ASSUME Sane, SizesFit, TokenNext
  PROVE  TokensGoOn /\ UNCHANGED op
<1>1. TypeOK /\ StackOK
  BY DEF Sane
<1>2. OnTop("token") /\ Top \in Frame /\ Top.at \in Nat /\ Top.list \in Nat /\ UNCHANGED lists
  BY <1>1, TokenNextIs
<1>3. stack # <<>> /\ Len(stack) \in Depth /\ Top = stack[Len(stack)] /\ Len(stack) \in Nat
  BY <1>1, <1>2, StackTop DEF OnTop
<1>4. Top.list # 0 => Len(lists[Top.list]) = Top.size
  BY <1>3 DEF SizesFit
<1>5. ASSUME Top.list \in 1..Len(lists), RunsOne, Top.at + 1 \in 1..Len(lists[Top.list]),
             lists[Top.list][Top.at + 1] \in Block
      PROVE  TokensGoOn /\ UNCHANGED op
  <2>1. PICK m \in Nat : m + 1 = Len(stack)
    <3>1. Len(stack) - 1 \in Nat /\ (Len(stack) - 1) + 1 = Len(stack)
      BY <1>3 DEF Depth
    <3>2. QED
      BY <3>1
  <2>2. Keeps(m, m + 2) /\ stack'[m + 1] = [Top EXCEPT !.at = Top.at + 1]
    BY <1>1, <1>2, <1>5, <2>1, RunsOneFrames
  <2>3. stack'[m + 1].list = Top.list /\ stack'[m + 1].at = Top.at + 1
    BY <1>2, <2>2 DEF Frame
  <2>4. ran'[lists[Top.list][Top.at + 1]] > 0
    BY <1>1, <1>5, Starting DEF RunsOne
  <2>5. Depth' = 1..(m + 2) /\ \A d \in 1..m : stack'[d] = stack[d]
    BY <2>2 DEF Keeps, Depth
  <2>6. TokenGoesOn(Len(stack))
    <3>1. m + 1 \in Depth'
      BY <2>5
    <3>2. QED
      BY <1>3, <2>1, <2>3, <2>4, <3>1 DEF TokenGoesOn
  <2>7. \A d \in Depth : d = Len(stack) \/ d \in 1..m
    BY <2>1 DEF Depth
  <2>8. \A d \in 1..m : TokenStays(d)
    BY <2>5 DEF TokenStays
  <2>9. QED
    BY <1>5, <2>6, <2>7, <2>8 DEF TokensGoOn, RunsOne
<1>6. ASSUME Top.list # 0 => Top.at = Len(lists[Top.list]),
             Leave(Below, IF Top.unset THEN NoThread ELSE contextThread), UNCHANGED op
      PROVE  TokensGoOn /\ UNCHANGED op
  <2>1. stack' = Below
    BY <1>6 DEF Leave
  <2>2. Top.list # 0 => Done(Top.list, Top.at)
    <3>1. ASSUME Top.list # 0, NEW i \in Nat, Place(Top.list, i) PROVE i <= Top.at
      <4>1. i \in 1..Len(lists[Top.list])
        BY <3>1 DEF Place
      <4>2. QED
        BY <1>6, <3>1, <4>1
    <3>2. QED
      BY <3>1 DEF Done
  <2>3. QED
    BY <1>1, <1>3, <1>6, <2>1, <2>2, PopGoesOn
<1>7. QED
  BY <1>1, <1>4, <1>5, <1>6, TokenNextIs

LEMMA HandOutNextGoesOn ==
  ASSUME Sane, Untouched, HandOutNext
  PROVE  TokensGoOn /\ UNCHANGED op
<1>1. TypeOK /\ StackOK
  BY DEF Sane
<1>2. /\ OnTop("assign") /\ stack # <<>> /\ Len(stack) \in Depth /\ Top = stack[Len(stack)]
      /\ Len(stack) \in Nat /\ Len(stack) >= 1
  BY <1>1, HandOutNextIs, StackTop DEF Depth
<1>3. Top.touched = FALSE
  BY <1>2 DEF Untouched, Flushing, OnTop
<1>4. PICK o \in Obj, f \in Frame, g \in Frame : HandsOut(o, f, g)
  BY <1>3, HandOutNextIs
<1>5. UNCHANGED op
  BY <1>3 DEF HandOutNext
<1> HIDE DEF Frame
<1>6. Keeps(Len(stack) - 1, Len(stack) + 1)
  <2>1. stack' = Append(Append(Below, f), g)
    BY <1>4 DEF HandsOut
  <2>2. QED
    BY <1>1, <1>2, <2>1, ReplaceFrames
<1>7. PICK m \in Nat, n \in Nat : m = Len(stack) - 1 /\ n = Len(stack) + 1
  <2>1. Len(stack) - 1 \in Nat /\ Len(stack) + 1 \in Nat
    BY <1>2
  <2>2. QED
    BY <2>1
<1>8. Alike(m, n)
  BY <1>6, <1>7, KeepsAlike
<1>9. \A d \in Depth : d > m => d = Len(stack)
  BY <1>2, <1>7 DEF Depth
<1>10. Top.list = 0
  BY <1>2, NoList DEF OnTop
<1>11. QED
  BY <1>1, <1>2, <1>5, <1>8, <1>9, <1>10, FramesGoOn

LEMMA HandOutEndsGoesOn ==
  ASSUME Sane, HandOutEnds
  PROVE  TokensGoOn
<1>1. TypeOK
  BY DEF Sane
<1>2. /\ OnTop("assign") /\ stack # <<>> /\ Len(stack) \in Depth /\ Top = stack[Len(stack)]
      /\ Len(stack) \in Nat /\ Len(stack) >= 1 /\ Alike(Len(stack) - 1, Len(stack))
  BY <1>1, HandOutEndsIs, StackTop
<1>3. PICK m \in Nat, n \in Nat : m = Len(stack) - 1 /\ n = Len(stack)
  <2>1. Len(stack) - 1 \in Nat
    BY <1>2
  <2>2. QED
    BY <1>2, <2>1
<1>4. Alike(m, n) /\ \A d \in Depth : d > m => d = Len(stack)
  BY <1>2, <1>3 DEF Depth
<1>5. Top.list = 0
  BY <1>2, NoList DEF OnTop
<1>6. QED
  BY <1>1, <1>2, <1>4, <1>5, FramesGoOn

LEMMA AssignPutGoesOn ==
  ASSUME Sane, NEW t \in Thread, AssignPut(t)
  PROVE  TokensGoOn
<1>1. TypeOK /\ stack' \in {stack, Touch(stack)} /\ Len(stack) \in Nat
  BY AssignPutIs, StackTop DEF Sane
<1>2. PICK m \in Nat : m = Len(stack)
  BY <1>1
<1>3. Alike(m, m) /\ \A d \in Depth : ~(d > m)
  BY <1>1, <1>2, TouchedIs DEF Depth
<1>4. QED
  BY <1>1, <1>3, FramesGoOn

LEMMA TokensGoOnSteps ==
  ASSUME Sane, Steady, SizesFit, Untouched, [Next]_vars
  PROVE  TokensGoOn
<1>1. TypeOK
  BY DEF Sane
<1>2. CASE Event
  BY <1>1, <1>2, EventFrames, FramesKeptGoOn, StackTop
<1>3. CASE EventEnds \/ CodeReturns \/ FlushEnds
  <2>1. stack # <<>> /\ stack' = Below /\ Top.kind # "token"
    BY <1>3 DEF EventEnds, CodeReturns, CodeRuns, FlushEnds, OnTop, Leave
  <2>2. QED
    BY <1>1, <2>1, NoList, PopGoesOn
<1>4. ASSUME NEW k \in delayed, DelayIsOver(k) PROVE TokensGoOn
  <2>1. Len(stack) = 0
    BY <1>1, <1>4, StackTop DEF DelayIsOver
  <2>2. QED
    BY <2>1 DEF TokensGoOn, Depth
<1>5. CASE TokenNext
  BY <1>5, TokenNextGoesOn
<1>6. ~CodeThrows
  BY DEF Steady, CodeThrows
<1>7. ASSUME NEW b \in Block, AssignNow(b) PROVE TokensGoOn
  <2> HIDE DEF Frame
  <2>1. PICK f \in Frame : stack' = Append(stack, f)
    BY <1>7, AssignNowIs
  <2>2. QED
    BY <1>1, <2>1, PushGoesOn
<1>8. CASE FlushQueues
  <2>1. PICK todo \in SUBSET Obj : todo = {o \in Obj : tokenMap[o] # 0}
    OBVIOUS
  <2>2. PICK f \in Frame : f = [FrameOf("assign") EXCEPT !.todo = todo]
    BY FlushFrame
  <2>3. stack' = Append(stack, f)
    BY <1>8, <2>1, <2>2 DEF FlushQueues
  <2> HIDE DEF Frame
  <2>4. QED
    BY <1>1, <2>3, PushGoesOn
<1>9. CASE HandOutNext
  BY <1>9, HandOutNextGoesOn
<1>10. CASE HandOutEnds
  BY <1>10, HandOutEndsGoesOn
<1>11. ASSUME NEW w \in Thread \cup {NoThread}, stack' = Append(stack, Code(w)) PROVE TokensGoOn
  <2>1. PICK f \in Frame : f = Code(w)
    BY CodeIs
  <2> HIDE DEF Frame
  <2>2. stack' = Append(stack, f)
    BY <1>11, <2>1
  <2>3. QED
    BY <1>1, <2>2, PushGoesOn
<1>12. CASE RunScheduled
  BY <1>11, <1>12, RunScheduledIs
<1>13. CASE UNCHANGED stack
  BY <1>1, <1>13, SameGoesOn
<1>14. ASSUME NEW t \in Thread, NEW b \in Block, Schedule(t, b) \/ ScheduleWait(t, b)
       PROVE  TokensGoOn
  BY <1>11, <1>13, <1>14 DEF Schedule, ScheduleWait, RunAtOnce
<1>15. ASSUME NEW t \in Thread, AssignPut(t) PROVE TokensGoOn
  BY <1>15, AssignPutGoesOn
<1>16. CASE \E b \in Block : Delay(b)
  BY <1>13, <1>16 DEF Delay
<1>17. CASE \E t \in Thread, b \in Block, o \in Obj : Assign(t, o, b)
  BY <1>13, <1>17 DEF Assign
<1>18. CASE \E t \in Thread : Wait(t) \/ WakeUp(t) \/ AssignGet(t) \/ AssignAdd(t)
  BY <1>13, <1>18 DEF Wait, WakeUp, AssignGet, AssignAdd
<1>19. CASE UNCHANGED vars
  BY <1>13, <1>19 DEF vars
<1>20. QED
  BY <1>2, <1>3, <1>4, <1>5, <1>6, <1>7, <1>8, <1>9, <1>10, <1>12, <1>14, <1>15, <1>16, <1>17,
     <1>18, <1>19 DEF Next, GameStep

-------------------------------------------------------------------------------
(* A steady program: a list that is held goes on being held.                 *)

\* Whoever holds list l with f blocks done, somebody does after the step, with its next
\* block started or not.
ListGoesOn(l, f) ==
  \E k, x, g : Holds(k, x, l, g)' /\ (g = f \/ (g = f + 1 /\ ran'[lists[l][g]] > 0))
HoldersGoOn == \A k, x, l, f : Holds(k, x, l, f) => ListGoesOn(l, f) \/ Done(l, f)

\* tokenMap has a list that the game's thread adds to, and none where it puts one.
GameMap ==
  /\ op[Game].pc = "put" => tokenMap[op[Game].obj] = 0
  /\ op[Game].pc = "add" => tokenMap[op[Game].obj] = op[Game].list

LEMMA FrameGoesOn ==
  ASSUME TokensGoOn, NEW d, NEW l, NEW f, Holds("frame", d, l, f)
  PROVE  ListGoesOn(l, f) \/ Done(l, f)
<1>1. d \in Depth /\ stack[d].list = l /\ stack[d].at = f /\ l \in Nat \ {0} /\ f \in Nat
  BY DEF Holds
<1>2. CASE TokenStays(d)
  <2>1. Holds("frame", d, l, f)'
    BY <1>1, <1>2 DEF TokenStays, Holds
  <2>2. QED
    BY <2>1 DEF ListGoesOn
<1>3. CASE TokenGoesOn(d)
  <2>1. PICK g \in Nat : g = f + 1
    BY <1>1
  <2>2. Holds("frame", d, l, g)' /\ ran'[lists[l][g]] > 0
    BY <1>1, <1>3, <2>1 DEF TokenGoesOn, Holds
  <2>3. QED
    BY <2>1, <2>2 DEF ListGoesOn
<1>4. QED
  BY <1>1, <1>2, <1>3 DEF TokensGoOn

\* The token that is pushed holds the list it was made for.
LEMMA PushedHolds ==
  ASSUME TypeOK, NEW m, NEW ls, TokenPushed(m, ls), m \in Nat \ {0}
  PROVE  ListGoesOn(m, 0)
<1>1. Len(stack) + 1 \in Depth' /\ ~FrameStays(Len(stack) + 1)
  BY StackTop DEF TokenPushed, FrameStays, Depth
<1>2. NewToken(stack'[Len(stack) + 1], m, ls)
  BY <1>1 DEF TokenPushed
<1>3. PICK d : d = Len(stack) + 1
  OBVIOUS
<1>4. Holds("frame", d, m, 0)'
  BY <1>1, <1>2, <1>3 DEF NewToken, Holds
<1>5. QED
  BY <1>4 DEF ListGoesOn

LEMMA SetGoesOn ==
  ASSUME Sane, TokensHeld, RefStep, NEW x, NEW l, NEW f, Holds("set", x, l, f)
  PROVE  ListGoesOn(l, f)
<1>1. /\ x \in 0..MaxToken /\ tokenSets[x] = l /\ l \in Nat \ {0} /\ f = 0
      /\ x \in delayed /\ x \in Nat /\ x < lastToken
      /\ tokenSets \in [0..MaxToken -> 0..Len(lists)] /\ TypeOK /\ lastToken \in Nat
  <2>1. x \in 0..MaxToken /\ tokenSets[x] = l /\ l \in Nat \ {0} /\ f = 0
    BY DEF Holds
  <2>2. TypeOK /\ tokenSets \in [0..MaxToken -> 0..Len(lists)] /\ lastToken \in Nat
    BY Types, Facts DEF Sane
  <2>3. x \in delayed /\ x \in Nat /\ x < lastToken
    BY <2>1, Facts DEF TokensHeld
  <2>4. QED
    BY <2>1, <2>2, <2>3
<1>2. ASSUME tokenSets'[x] = tokenSets[x] PROVE ListGoesOn(l, f)
  <2>1. Holds("set", x, l, f)'
    BY <1>1, <1>2 DEF Holds
  <2>2. QED
    BY <2>1 DEF ListGoesOn
<1>3. ASSUME NEW n, TokenMade(n) PROVE tokenSets'[x] = tokenSets[x]
  <2>1. x # lastToken /\ tokenSets' = [tokenSets EXCEPT ![lastToken] = n]
    BY <1>1, <1>3 DEF TokenMade
  <2>2. QED
    BY <1>1, <2>1
<1>4. ASSUME NEW k \in delayed, Called(k) PROVE ListGoesOn(l, f)
  <2>1. tokenSets' = [tokenSets EXCEPT ![k] = 0]
    BY <1>4 DEF Called
  <2>2. x # k => tokenSets'[x] = tokenSets[x]
    BY <1>1, <2>1
  <2>3. ASSUME x = k PROVE ListGoesOn(l, f)
    <3>1. PICK m, ls : m = tokenSets[k] /\ TokenPushed(m, ls)
      BY <1>4 DEF Called
    <3>2. m = l
      BY <1>1, <2>3, <3>1
    <3>3. QED
      BY <1>1, <3>1, <3>2, PushedHolds
  <2>4. QED
    BY <1>2, <2>2, <2>3
<1>5. CASE UNCHANGED tokenSets
  BY <1>2, <1>5
<1>6. QED
  BY <1>2, <1>3, <1>4, <1>5
     DEF RefStep, Still, Postponed, MadeNow, TokenRuns, Flushes, Clears, Fails, HandsList, Puts,
         SetsIntact

\* flushQueues does not pass over an object that has a list.
LEMMA StaysToDo ==
  ASSUME Sane, Careful, RefStep, NEW x \in Obj, Live(x),
         \A o \in Obj : HandsList(o) => o # x, NEW d, Flushing(d)'
  PROVE  x \in stack'[d].todo
<1>1. /\ d \in Depth' /\ stack'[d].kind = "assign" /\ ~Plain(stack'[d])
      /\ \A e \in Depth : stack[e] \in Frame
  BY StackTop DEF Flushing, Plain, Sane
<1>2. ASSUME FrameStays(d) PROVE x \in stack'[d].todo
  BY <1>1, <1>2 DEF FrameStays, Flushing, Live
<1>3. CASE Still \/ Postponed \/ Fails
  BY <1>1, <1>2, <1>3 DEF Still, Postponed, Fails, FramesQuiet
<1>4. CASE MadeNow \/ \E k \in delayed : Called(k)
  BY <1>1, <1>2, <1>4 DEF MadeNow, Called, TokenPushed, NewToken
<1>5. CASE TokenRuns
  <2>1. stack'[d] # [stack[d] EXCEPT !.at = stack[d].at + 1] \/ d # Len(stack)
    <3>1. Len(stack) \in Depth /\ stack[Len(stack)] \in Frame /\ stack[Len(stack)].kind = "token"
      BY <1>1, <1>5 DEF TokenRuns
    <3>2. [stack[Len(stack)] EXCEPT !.at = stack[Len(stack)].at + 1].kind = "token"
      BY <3>1 DEF Frame
    <3>3. QED
      BY <1>1, <3>2
  <2>2. QED
    BY <1>1, <1>2, <1>5, <2>1 DEF TokenRuns
<1>6. CASE Flushes
  BY <1>1, <1>2, <1>6 DEF Flushes, Live
<1>7. ASSUME NEW o \in Obj, HandsList(o) PROVE x \in stack'[d].todo
  <2>1. Flushing(Len(stack)) /\ o # x
    BY <1>7 DEF HandsList, Flushing
  <2>2. x \in stack[Len(stack)].todo \ {o}
    BY <2>1 DEF Live
  <2>3. QED
    BY <1>1, <1>2, <1>7, <2>2 DEF HandsList, NewToken
<1>8. ~Clears
  BY DEF Clears, Live, Flushing
<1>9. ASSUME NEW t \in Thread, Puts(t) PROVE FALSE
  <2>1. d \in Depth /\ stack[d] \in Frame
    BY <1>1, <1>9 DEF Puts
  <2>2. Flushing(d)
    BY <1>1, <1>9, <2>1 DEF Puts, Flushing
  <2>3. QED
    BY <1>9, <2>2, LockedIs, PutsUnlocked DEF Careful
<1>10. QED
  BY <1>3, <1>4, <1>5, <1>6, <1>7, <1>8, <1>9 DEF RefStep

LEMMA MapGoesOn ==
  ASSUME Sane, Careful, Steady, GameMap, RefStep, NEW x, NEW l, NEW f, Holds("map", x, l, f)
  PROVE  ListGoesOn(l, f)
<1>1. /\ x \in Obj /\ Live(x) /\ tokenMap[x] = l /\ l \in Nat \ {0} /\ f = 0
      /\ tokenMap \in [Obj -> 0..Len(lists)] /\ TypeOK
  BY Types DEF Holds, Sane
<1>2. ASSUME tokenMap'[x] = tokenMap[x], \A o \in Obj : HandsList(o) => o # x
      PROVE  ListGoesOn(l, f)
  <2>1. \A d : Flushing(d)' => x \in stack'[d].todo
    BY <1>1, <1>2, StaysToDo
  <2>2. Live(x)'
    BY <1>1, <1>2, <2>1 DEF Live
  <2>3. Holds("map", x, l, f)'
    BY <1>1, <1>2, <2>2 DEF Holds
  <2>4. QED
    BY <2>3 DEF ListGoesOn
<1>3. CASE HandsList(x)
  <2>1. Len(stack) + 1 \in Depth' /\ ~FrameStays(Len(stack) + 1) /\ Len(stack) \in Nat
    BY <1>1, <1>3, StackTop DEF HandsList, FrameStays, Depth
  <2>2. NewToken(stack'[Len(stack) + 1], tokenMap[x], lists)
    <3>1. ~(Len(stack) + 1 < Len(stack)) /\ Len(stack) + 1 # Len(stack)
      BY <2>1
    <3>2. QED
      BY <1>3, <2>1, <3>1 DEF HandsList
  <2>3. PICK d : d = Len(stack) + 1
    OBVIOUS
  <2>4. Holds("frame", d, l, f)'
    BY <1>1, <2>1, <2>2, <2>3 DEF NewToken, Holds
  <2>5. QED
    BY <2>4 DEF ListGoesOn
<1>4. ~Clears
  BY <1>1 DEF Clears, Live, Flushing
<1>5. ASSUME NEW t \in Thread, Puts(t) PROVE tokenMap'[x] = tokenMap[x]
  <2>1. t = Game
    BY <1>5 DEF Puts, Steady, Sane, OpOK
  <2>2. tokenMap[op[t].obj] = 0
    BY <1>5, <2>1 DEF Puts, GameMap
  <2>3. op[t].obj # x
    BY <1>1, <2>2
  <2>4. QED
    BY <1>1, <1>5, <2>3 DEF Puts
<1>6. CASE ~HandsList(x)
  <2>1. \A o \in Obj : HandsList(o) => o # x
    BY <1>6
  <2>2. tokenMap'[x] = tokenMap[x]
    BY <1>4, <1>5 DEF RefStep, Still, Postponed, MadeNow, TokenRuns, Flushes, Fails, Called,
                      HandsList, TokenMade, SetsIntact
  <2>3. QED
    BY <1>2, <2>1, <2>2
<1>7. QED
  BY <1>3, <1>6

LEMMA HoldersGoOnSteps ==
  ASSUME Sane, TokensHeld, Careful, Steady, GameMap, RefStep, TokensGoOn
  PROVE  HoldersGoOn
<1> SUFFICES ASSUME NEW k, NEW x, NEW l, NEW f, Holds(k, x, l, f)
             PROVE  ListGoesOn(l, f) \/ Done(l, f)
  BY DEF HoldersGoOn
<1>1. k = "map" \/ k = "set" \/ k = "frame"
  BY DEF Holds
<1>2. QED
  BY <1>1, FrameGoesOn, SetGoesOn, MapGoesOn

-------------------------------------------------------------------------------
(* A steady program: lists only grow, and none that is being handed out.     *)

\* What the steps do to the lists.
ListStep ==
  \/ UNCHANGED lists
  \/ \E s \in Seq(Block) : lists' = Append(lists, s)
  \/ \E t \in Thread : AssignAdd(t)

LEMMA ListSteps ==
  ASSUME Sane, [Next]_vars
  PROVE  ListStep
<1>1. ASSUME NEW t \in Thread, AssignPut(t) PROVE ListStep
  BY <1>1, AssignPutIs DEF ListStep
<1>2. ASSUME NEW b \in Block, AssignNow(b) \/ Delay(b) PROVE ListStep
  BY <1>2, AssignNowIs, DelayIs DEF ListStep
<1>3. CASE \/ Event \/ EventEnds \/ TokenNext \/ CodeReturns \/ CodeThrows \/ FlushQueues
           \/ HandOutNext \/ HandOutEnds \/ RunScheduled \/ FlushEnds
           \/ \E k \in delayed : DelayIsOver(k)
  BY <1>3 DEF Event, EventEnds, TokenNext, CodeReturns, CodeThrows, FlushQueues, HandOutNext,
              HandOutEnds, RunScheduled, FlushEnds, DelayIsOver, ListStep
<1>4. CASE \E t \in Thread :
             \/ Wait(t) \/ WakeUp(t) \/ AssignGet(t) \/ AssignAdd(t)
             \/ \E b \in Block : Schedule(t, b) \/ ScheduleWait(t, b)
             \/ \E b \in Block, o \in Obj : Assign(t, o, b)
  BY <1>4 DEF Wait, WakeUp, AssignGet, Schedule, ScheduleWait, Assign, ListStep
<1>5. CASE UNCHANGED vars
  BY <1>5 DEF vars, ListStep
<1>6. QED
  BY <1>1, <1>2, <1>3, <1>4, <1>5 DEF Next, GameStep

\* A block stays at its place.
PlacesKept == \A l, i \in Nat : Place(l, i) => Place(l, i)' /\ lists'[l][i] = lists[l][i]

LEMMA PlacesKeptNext ==
  ASSUME Sane, ListStep
  PROVE  PlacesKept
<1>1. TypeOK /\ Len(lists) \in Nat
  BY ListsAre DEF Sane
<1>2. CASE UNCHANGED lists
  BY <1>2 DEF PlacesKept, Place
<1>3. ASSUME NEW s \in Seq(Block), lists' = Append(lists, s) PROVE PlacesKept
  <2>1. Len(lists') = Len(lists) + 1 /\ \A l \in 1..Len(lists) : lists'[l] = lists[l]
    BY <1>1, <1>3, MoreLists
  <2>2. \A l \in 1..Len(lists) : l \in 1..Len(lists')
    BY <1>1, <2>1
  <2>3. QED
    BY <2>1, <2>2 DEF PlacesKept, Place
<1>4. ASSUME NEW t \in Thread, AssignAdd(t) PROVE PlacesKept
  <2>1. PICK m \in 1..Len(lists), b \in Block :
          lists' = [lists EXCEPT ![m] = Append(@, b)]
    BY <1>4, AssignAddIs
  <2>2. /\ Len(lists') = Len(lists)
        /\ \A l \in 1..Len(lists) : l # m => lists'[l] = lists[l]
        /\ Len(lists[m]) \in Nat /\ Len(lists'[m]) = Len(lists[m]) + 1
        /\ \A i \in 1..Len(lists[m]) : lists'[m][i] = lists[m][i]
    BY <1>1, <2>1, LongerList
  <2>3. \A i \in 1..Len(lists[m]) : i \in 1..Len(lists'[m])
    BY <2>2
  <2>4. QED
    BY <2>2, <2>3 DEF PlacesKept, Place
<1>5. QED
  BY <1>2, <1>3, <1>4 DEF ListStep

\* Only the game's thread is in assign.
LEMMA GameAssigns ==
  ASSUME Sane, Steady, NEW t \in Thread, Pending(t)
  PROVE  t = Game
BY DEF Sane, OpOK, Steady

\* The list that the game's thread adds a block to is in tokenMap, and stays there.
LEMMA AddedToHeld ==
  ASSUME Sane, Steady, Careful, GameMap, NEW t \in Thread, AssignAdd(t)
  PROVE  /\ t = Game
         /\ \E o \in Obj, l \in Nat :
              l = op[Game].list /\ Holds("map", o, l, 0) /\ Holds("map", o, l, 0)'
<1>1. /\ op[t].pc = "add" /\ op[t].list \in 1..Len(lists) /\ Pending(t) /\ UNCHANGED <<tokenMap, stack>>
  BY AssignAddIs DEF Pending
<1>2. t = Game /\ op[t].obj \in Obj /\ tokenMap[op[t].obj] = op[t].list
  BY <1>1, GameAssigns DEF Sane, OpOK, GameMap
<1>3. \A d : ~Flushing(d)
  BY <1>1, <1>2, LockedIs DEF Careful, GameLeavesMap
<1>4. \A d : ~Flushing(d)'
  BY <1>1, <1>3 DEF Flushing, Depth
<1>5. PICK o \in Obj, l \in Nat \ {0} : o = op[t].obj /\ l = op[t].list
  BY <1>1, <1>2
<1>6. tokenMap[o] = l /\ tokenMap'[o] = l
  BY <1>1, <1>2, <1>5
<1>7. Holds("map", o, l, 0) /\ Holds("map", o, l, 0)'
  BY <1>3, <1>4, <1>6 DEF Holds, Live
<1>8. QED
  BY <1>2, <1>5, <1>7

\* Nobody adds to a list while a token goes through it.
LEMMA SizesFitNext ==
  ASSUME Sane, Steady, Careful, OneHolder, GameMap, RefStep, ListStep, SizesFit
  PROVE  SizesFit'
<1>1. /\ TypeOK /\ Len(lists) \in Nat
      /\ \A d \in Depth : stack[d] \in Frame /\ stack[d].list \in Nat /\ stack[d].at \in Nat
      /\ \A d \in Depth : stack[d].list # 0 => stack[d].list \in 1..Len(lists)
  <2>1. TypeOK /\ Len(lists) \in Nat
    BY ListsAre DEF Sane
  <2>2. \A d \in Depth : stack[d] \in Frame
    BY <2>1, StackTop
  <2>3. \A d \in Depth : stack[d].list \in Nat /\ stack[d].at \in Nat
    BY <2>2 DEF Frame
  <2>4. \A d \in Depth : stack[d].list # 0 => stack[d].list <= Len(lists)
    BY DEF Sane, StackOK
  <2>5. QED
    BY <2>1, <2>2, <2>3, <2>4
<1> SUFFICES ASSUME NEW d \in Depth', stack'[d].list # 0
             PROVE  stack'[d].size = Len(lists'[stack'[d].list])
  BY DEF SizesFit
<1>2. ASSUME NEW t \in Thread, AssignAdd(t) PROVE stack'[d].size = Len(lists'[stack'[d].list])
  <2>1. PICK m \in 1..Len(lists), b \in Block :
          /\ m = op[t].list /\ lists' = [lists EXCEPT ![m] = Append(@, b)] /\ UNCHANGED stack
    BY <1>2, AssignAddIs
  <2>2. PICK o \in Obj : t = Game /\ Holds("map", o, m, 0)
    BY <1>2, <2>1, AddedToHeld
  <2>3. d \in Depth /\ stack[d].list # 0 /\ stack[d].size = Len(lists[stack[d].list])
    BY <2>1 DEF SizesFit, Depth
  <2>4. Holds("frame", d, stack[d].list, stack[d].at)
    BY <1>1, <2>3 DEF Holds
  <2>5. stack[d].list # m
    BY <2>2, <2>4 DEF OneHolder
  <2>6. lists'[stack[d].list] = lists[stack[d].list]
    BY <1>1, <2>1, <2>3, <2>5, LongerList
  <2>7. QED
    BY <2>1, <2>3, <2>6
<1>3. ASSUME \A l \in 1..Len(lists) : lists'[l] = lists[l]
      PROVE  stack'[d].size = Len(lists'[stack'[d].list])
  <2>1. ASSUME d \in Depth, stack'[d].list = stack[d].list, stack'[d].size = stack[d].size
        PROVE  stack'[d].size = Len(lists'[stack'[d].list])
    BY <1>1, <1>3, <2>1 DEF SizesFit
  <2>2. ASSUME FrameStays(d) PROVE stack'[d].size = Len(lists'[stack'[d].list])
    BY <2>1, <2>2 DEF FrameStays
  <2>3. ~Plain(stack'[d])
    BY DEF Plain
  <2>4. ASSUME d \in Depth, stack'[d] = [stack[d] EXCEPT !.touched = TRUE]
        PROVE  stack'[d].size = Len(lists'[stack'[d].list])
    <3>1. stack'[d].list = stack[d].list /\ stack'[d].size = stack[d].size
      BY <1>1, <2>4 DEF Frame
    <3>2. QED
      BY <2>1, <2>4, <3>1
  <2>5. ASSUME NEW l \in 0..Len(lists), NewToken(stack'[d], l, lists)
        PROVE  stack'[d].size = Len(lists'[stack'[d].list])
    <3>1. l # 0 /\ l \in 1..Len(lists) /\ stack'[d].list = l
      BY <1>1, <2>5 DEF NewToken
    <3>2. QED
      BY <1>3, <2>5, <3>1 DEF NewToken
  <2>6. CASE Still \/ Postponed \/ Fails \/ Flushes
    BY <2>2, <2>3, <2>6 DEF Still, Postponed, Fails, Flushes, FramesQuiet
  <2>7. CASE MadeNow
    <3>1. ASSUME NewToken(stack'[d], Len(lists) + 1, lists')
          PROVE  stack'[d].size = Len(lists'[stack'[d].list])
      BY <1>1, <3>1 DEF NewToken
    <3>2. QED
      BY <2>2, <2>7, <3>1 DEF MadeNow, TokenPushed
  <2>8. ASSUME NEW k \in delayed, Called(k) PROVE stack'[d].size = Len(lists'[stack'[d].list])
    <3>1. tokenSets[k] \in 0..Len(lists)
      BY <1>1, Types
    <3>2. QED
      BY <2>2, <2>5, <2>8, <3>1 DEF Called, TokenPushed
  <2>9. ASSUME NEW o \in Obj, HandsList(o) PROVE stack'[d].size = Len(lists'[stack'[d].list])
    <3>1. tokenMap[o] \in 0..Len(lists)
      BY <1>1, Types
    <3>2. QED
      BY <2>2, <2>5, <2>9, <3>1 DEF HandsList
  <2>10. CASE TokenRuns
    <3>1. Len(stack) \in Depth
      BY <2>10 DEF TokenRuns
    <3>2. ASSUME d = Len(stack), stack'[d] = [stack[d] EXCEPT !.at = stack[d].at + 1]
          PROVE  stack'[d].size = Len(lists'[stack'[d].list])
      <4>1. stack'[d].list = stack[d].list /\ stack'[d].size = stack[d].size
        BY <1>1, <3>1, <3>2 DEF Frame
      <4>2. QED
        BY <2>1, <3>1, <3>2, <4>1
    <3>3. QED
      BY <2>2, <2>3, <2>10, <3>2 DEF TokenRuns
  <2>11. CASE Clears
    BY <2>2, <2>3, <2>4, <2>11 DEF Clears
  <2>12. ASSUME NEW t \in Thread, Puts(t) PROVE stack'[d].size = Len(lists'[stack'[d].list])
    <3>1. d \in Depth
      BY <2>12 DEF Puts
    <3>2. stack'[d] = stack[d] => FrameStays(d)
      BY <3>1 DEF FrameStays
    <3>3. QED
      BY <2>2, <2>4, <2>12, <3>1, <3>2 DEF Puts
  <2>13. QED
    BY <2>6, <2>7, <2>8, <2>9, <2>10, <2>11, <2>12 DEF RefStep
<1>4. ASSUME NEW s \in Seq(Block), lists' = Append(lists, s)
      PROVE  \A l \in 1..Len(lists) : lists'[l] = lists[l]
  BY <1>1, <1>4, MoreLists
<1>5. QED
  BY <1>2, <1>3, <1>4 DEF ListStep

\* The game's thread finds in tokenMap what it has put there.
LEMMA GameMapNext ==
  ASSUME Sane, Steady, Untouched, SizesFit, GameMap, [Next]_vars
  PROVE  GameMap'
<1>1. TypeOK /\ Game \in Thread /\ op \in [Thread -> OpRecord]
  BY Facts, Types DEF Sane
<1>2. CASE UNCHANGED <<op, tokenMap>>
  BY <1>2 DEF GameMap
<1>3. ASSUME op'[Game].pc \notin {"put", "add"} PROVE GameMap'
  BY <1>3 DEF GameMap
<1>4. ASSUME UNCHANGED op, ~OnTop("code") PROVE GameMap'
  <2>1. op'[Game].pc = "idle"
    BY <1>4 DEF Sane, StackOK
  <2>2. QED
    BY <1>3, <2>1
<1>5. CASE TokenNext
  <2>1. UNCHANGED <<op, tokenMap>>
    BY <1>5, TokenNextGoesOn DEF TokenNext
  <2>2. QED
    BY <1>2, <2>1
<1>6. CASE HandOutNext
  <2>1. UNCHANGED <<op, tokenMap>>
    BY <1>6, HandOutNextGoesOn DEF HandOutNext
  <2>2. QED
    BY <1>2, <2>1
<1>7. CASE HandOutEnds
  BY <1>4, <1>7 DEF HandOutEnds, OnTop
<1>8. CASE CodeReturns
  <2>1. /\ stack # <<>> /\ Top \in Frame /\ op[Game].pc = "idle" /\ Notify(Top.waiter)
    BY <1>1, <1>8, StackTop DEF CodeReturns, CodeRuns, OnTop
  <2>2. Top.waiter \in Thread \cup {NoThread}
    BY <2>1 DEF Frame
  <2>3. OpsEnd
    BY <1>1, <2>1, <2>2, NotifyIs
  <2>4. op'[Game] = op[Game]
    BY <1>1, <2>1, <2>3 DEF OpsEnd
  <2>5. QED
    BY <1>3, <2>1, <2>4
<1>9. ~CodeThrows
  BY DEF Steady, CodeThrows
<1>10. CASE \/ Event \/ EventEnds \/ FlushQueues \/ RunScheduled \/ FlushEnds
            \/ \E k \in delayed : DelayIsOver(k)
            \/ \E b \in Block : AssignNow(b) \/ Delay(b)
  BY <1>2, <1>10 DEF Event, EventEnds, FlushQueues, RunScheduled, FlushEnds, DelayIsOver,
                     AssignNow, Delay
<1>11. ASSUME NEW t \in Thread, NEW r, op' = [op EXCEPT ![t] = r], UNCHANGED tokenMap,
              r.pc \notin {"put", "add"}
       PROVE  GameMap'
  <2>1. t = Game => op'[Game] = r
    BY <1>1, <1>11
  <2>2. t # Game => op'[Game] = op[Game]
    BY <1>1, <1>11
  <2>3. QED
    BY <1>3, <1>11, <2>1, <2>2 DEF GameMap
<1>12. ASSUME NEW t \in Thread, NEW b \in Block, Schedule(t, b) \/ ScheduleWait(t, b)
       PROVE  GameMap'
  <2>1. CASE UNCHANGED op
    BY <1>2, <1>12, <2>1 DEF Schedule, ScheduleWait
  <2>2. PICK r : r = [Idle EXCEPT !.pc = "queued", !.block = b]
    OBVIOUS
  <2>3. r.pc = "queued"
    BY <2>2 DEF Idle
  <2>4. CASE op' = [op EXCEPT ![t] = r]
    BY <1>11, <1>12, <2>3, <2>4 DEF Schedule, ScheduleWait
  <2>5. QED
    BY <1>12, <2>1, <2>2, <2>4 DEF Schedule, ScheduleWait, RunAtOnce
<1>13. ASSUME NEW t \in Thread, Wait(t) \/ WakeUp(t) PROVE GameMap'
  <2>1. PICK r : r = [op[t] EXCEPT !.pc = "waiting"]
    OBVIOUS
  <2>2. r.pc = "waiting" /\ Idle.pc = "idle"
    BY <1>1, <2>1 DEF OpRecord, Idle
  <2>3. CASE Wait(t)
    <3>1. op' = [op EXCEPT ![t] = r] /\ UNCHANGED tokenMap
      BY <2>1, <2>3 DEF Wait
    <3>2. QED
      BY <1>11, <2>2, <3>1
  <2>4. CASE WakeUp(t)
    BY <1>11, <2>2, <2>4 DEF WakeUp
  <2>5. QED
    BY <1>13, <2>3, <2>4
<1>14. ASSUME NEW t \in Thread, NEW b \in Block, NEW o \in Obj, Assign(t, o, b) PROVE GameMap'
  <2>1. t = Game /\ UNCHANGED tokenMap
    BY <1>14 DEF Assign, Steady
  <2>2. PICK r : r = [pc |-> IF tokenMap[o] = 0 THEN "put" ELSE "get", obj |-> o, block |-> b,
                      list |-> 0]
    OBVIOUS
  <2>3. op'[Game] = r
    BY <1>1, <1>14, <2>1, <2>2 DEF Assign
  <2>4. r.obj = o /\ r.pc # "add" /\ (r.pc = "put" => tokenMap[o] = 0)
    BY <2>2
  <2>5. QED
    BY <2>1, <2>3, <2>4 DEF GameMap
<1>15. ASSUME NEW t \in Thread, AssignPut(t) PROVE GameMap'
  <2>1. op[t].pc = "put" /\ op' = [op EXCEPT ![t] = [op[t] EXCEPT !.pc = "get"]]
    BY <1>15, AssignPutIs
  <2>2. t = Game
    BY <2>1, GameAssigns DEF Pending
  <2>3. op'[Game].pc = "get"
    BY <1>1, <2>1, <2>2 DEF OpRecord
  <2>4. QED
    BY <1>3, <2>3
<1>16. ASSUME NEW t \in Thread, AssignGet(t) PROVE GameMap'
  <2>1. op[t].pc = "get" /\ UNCHANGED tokenMap
    BY <1>16 DEF AssignGet, AfterAssign
  <2>2. t = Game
    BY <2>1, GameAssigns DEF Pending
  <2>3. PICK l, c : l = tokenMap[op[t].obj] /\ c = op[t] /\ c \in OpRecord
    BY <1>1
  <2>4. op' = [op EXCEPT ![t] = IF l = 0 THEN Idle ELSE [c EXCEPT !.pc = "add", !.list = l]]
    BY <1>16, <2>3 DEF AssignGet
  <2>5. CASE l = 0
    <3>1. op'[Game] = Idle
      BY <1>1, <2>2, <2>4, <2>5
    <3>2. QED
      BY <1>3, <3>1 DEF Idle
  <2>6. CASE l # 0
    <3>1. op'[Game] = [c EXCEPT !.pc = "add", !.list = l]
      BY <1>1, <2>2, <2>4, <2>6
    <3>2. op'[Game].pc = "add" /\ op'[Game].list = l /\ op'[Game].obj = c.obj
      BY <2>3, <3>1 DEF OpRecord
    <3>3. QED
      BY <2>1, <2>2, <2>3, <3>2 DEF GameMap
  <2>7. QED
    BY <2>5, <2>6
<1>17. ASSUME NEW t \in Thread, AssignAdd(t) PROVE GameMap'
  <2>1. op' = [op EXCEPT ![t] = Idle] /\ UNCHANGED tokenMap /\ Idle.pc = "idle"
    BY <1>17, AssignAddIs DEF Idle
  <2>2. QED
    BY <1>11, <2>1
<1>18. CASE UNCHANGED vars
  BY <1>2, <1>18 DEF vars
<1>19. QED
  BY <1>5, <1>6, <1>7, <1>8, <1>9, <1>10, <1>12, <1>13, <1>14, <1>15, <1>16, <1>17, <1>18
     DEF Next, GameStep

-------------------------------------------------------------------------------
(* A steady program: blocks stay queued until they are run.                  *)

\* Block b was started, or is in the queue, or in a list that is held, where the holder has
\* not come to it.
Listing(b, l, f) == \E i \in Nat : Place(l, i) /\ i > f /\ lists[l][i] = b
Kept(b) ==
  \/ ran[b] > 0
  \/ \E i \in Queued : scheduled[i].block = b
  \/ \E k, x, l, f : Holds(k, x, l, f) /\ Listing(b, l, f)
AllKept == \A b \in accepted : Kept(b)

LEMMA KeptNext ==
  ASSUME Sane, Sane', BlockStep, HoldersGoOn, PlacesKept, NEW b \in Block, Kept(b)
  PROVE  Kept(b)'
<1>1. CASE ran[b] > 0
  BY <1>1, Tables DEF Kept
<1>2. ASSUME NEW i \in Queued, scheduled[i].block = b PROVE Kept(b)'
  <2>1. CASE QueuedRuns /\ i = 1
    <3>1. ran'[b] > 0
      BY <1>2, <2>1, Starting DEF QueuedRuns, Sane
    <3>2. QED
      BY <3>1 DEF Kept
  <2>2. CASE \E j \in Queued' : scheduled'[j].block = scheduled[i].block
    BY <1>2, <2>2 DEF Kept
  <2>3. QED
    BY <2>1, <2>2, StaysQueued
<1>3. ASSUME NEW k, NEW x, NEW l, NEW f, Holds(k, x, l, f), Listing(b, l, f) PROVE Kept(b)'
  <2>1. PICK i \in Nat : Place(l, i) /\ i > f /\ lists[l][i] = b
    BY <1>3 DEF Listing
  <2>2. l \in Nat /\ f \in Nat
    BY <1>3 DEF Holds
  <2>3. Place(l, i)' /\ lists'[l][i] = b
    BY <2>1, <2>2 DEF PlacesKept
  <2>4. ~Done(l, f)
    BY <2>1, <2>2 DEF Done
  <2>5. PICK m, y, g : Holds(m, y, l, g)' /\ (g = f \/ (g = f + 1 /\ ran'[lists[l][g]] > 0))
    BY <1>3, <2>4 DEF HoldersGoOn, ListGoesOn
  <2>6. CASE i = g /\ ran'[lists[l][g]] > 0
    BY <2>1, <2>6 DEF Kept
  <2>7. CASE i > g
    <3>1. Listing(b, l, g)'
      BY <2>3, <2>7 DEF Listing
    <3>2. QED
      BY <2>5, <3>1 DEF Kept
  <2>8. g = f + 1 => i > g \/ i = g
    BY <2>1, <2>2
  <2>9. QED
    BY <2>1, <2>5, <2>6, <2>7, <2>8
<1>4. QED
  BY <1>1, <1>2, <1>3 DEF Kept

\* A block that is queued or run at once.
LEMMA ScheduledKept ==
  ASSUME Sane, NEW t \in Thread, NEW b \in Block, Schedule(t, b) \/ ScheduleWait(t, b)
  PROVE  Kept(b)'
<1>1. TypeOK
  BY DEF Sane
<1>2. CASE RunAtOnce(b)
  <2>1. ran'[b] > 0
    BY <1>1, <1>2, Starting DEF RunAtOnce
  <2>2. QED
    BY <2>1 DEF Kept
<1>3. ASSUME NEW w \in Thread \cup {NoThread}, Enqueue(b, w) PROVE Kept(b)'
  <2>1. /\ Len(scheduled') = Len(scheduled) + 1 /\ Len(scheduled) \in Nat
        /\ scheduled'[Len(scheduled) + 1] = [block |-> b, waiter |-> w]
    BY <1>1, <1>3, EnqueueIs
  <2>2. PICK j : j = Len(scheduled) + 1
    OBVIOUS
  <2>3. j \in Queued' /\ scheduled'[j].block = b
    BY <2>1, <2>2 DEF Queued
  <2>4. QED
    BY <2>3 DEF Kept
<1>4. QED
  BY <1>2, <1>3 DEF Schedule, ScheduleWait

\* A block in a list of its own.
LEMMA ListedKept ==
  ASSUME Sane, NEW b \in Block, AssignNow(b) \/ Delay(b)
  PROVE  Kept(b)'
<1>1. TypeOK /\ Len(lists) \in Nat /\ Len(stack) \in Nat
      /\ tokenSets \in [0..MaxToken -> 0..Len(lists)]
  BY ListsAre, StackTop, Types DEF Sane
<1>2. lists' = Append(lists, <<b>>) /\ <<b>> \in Seq(Block)
  BY AssignNowIs, DelayIs
<1>3. PICK l \in Nat \ {0} : l = Len(lists) + 1
  <2>1. Len(lists) + 1 \in Nat \ {0}
    BY <1>1
  <2>2. QED
    BY <2>1
<1>4. Len(lists') = l /\ lists'[l] = <<b>>
  BY <1>1, <1>2, <1>3, MoreLists
<1>5. Listing(b, l, 0)'
  <2>1. Place(l, 1)' /\ lists'[l][1] = b /\ 1 > 0
    BY <1>1, <1>3, <1>4 DEF Place
  <2>2. QED
    BY <2>1 DEF Listing
<1>6. CASE AssignNow(b)
  <2> HIDE DEF Frame
  <2>1. PICK f \in Frame : stack' = Append(stack, f) /\ NewToken(f, Len(lists) + 1, lists')
    BY <1>6, AssignNowIs
  <2>2. PICK d : d = Len(stack) + 1
    OBVIOUS
  <2>3. d \in Depth' /\ stack'[d] = f
    <3>1. Keeps(Len(stack), Len(stack) + 1) /\ stack'[Len(stack) + 1] = f
      BY <1>1, <2>1, PushFrames
    <3>2. QED
      BY <1>1, <2>2, <3>1 DEF Keeps, Depth
  <2>4. Holds("frame", d, l, 0)'
    BY <1>3, <2>1, <2>3 DEF NewToken, Holds
  <2>5. QED
    BY <1>5, <2>4 DEF Kept
<1>7. CASE Delay(b)
  <2>1. PICK k \in 0..MaxToken : tokenSets' = [tokenSets EXCEPT ![k] = l]
    BY <1>3, <1>7, DelayIs
  <2>2. tokenSets'[k] = l
    BY <1>1, <2>1
  <2>3. Holds("set", k, l, 0)'
    BY <2>2 DEF Holds
  <2>4. QED
    BY <1>5, <2>3 DEF Kept
<1>8. QED
  BY <1>6, <1>7

\* A block that is added to the list of an object.
LEMMA AddedKept ==
  ASSUME Sane, Steady, Careful, GameMap, NEW t \in Thread, AssignAdd(t), NEW b, b = op[t].block
  PROVE  Kept(b)'
<1>1. TypeOK
  BY DEF Sane
<1>2. PICK o \in Obj, l \in Nat : t = Game /\ l = op[Game].list /\ Holds("map", o, l, 0)'
  BY AddedToHeld
<1>3. b \in Block
  BY AssignAddIs
<1>4. l \in 1..Len(lists) /\ lists' = [lists EXCEPT ![l] = Append(@, b)]
  BY <1>2, <1>3, AssignAddIs
<1>5. PICK i \in Nat : i = Len(lists[l]) + 1
  BY <1>1, <1>3, <1>4, LongerList
<1>6. Place(l, i)' /\ i > 0 /\ lists'[l][i] = b
  <2>1. /\ Len(lists') = Len(lists) /\ Len(lists[l]) \in Nat
        /\ Len(lists'[l]) = Len(lists[l]) + 1 /\ lists'[l][Len(lists[l]) + 1] = b
    BY <1>1, <1>4, LongerList
  <2>2. i \in 1..Len(lists'[l]) /\ i > 0
    BY <1>5, <2>1
  <2>3. QED
    BY <1>4, <1>5, <2>1, <2>2 DEF Place
<1>7. Listing(b, l, 0)'
  BY <1>6 DEF Listing
<1>8. QED
  BY <1>2, <1>7 DEF Kept

LEMMA AcceptedKept ==
  ASSUME Sane, Steady, Careful, GameMap, [Next]_vars, NEW b \in accepted', b \notin accepted
  PROVE  Kept(b)'
<1>1. TypeOK
  BY DEF Sane
<1>2. ASSUME NEW c \in Block, NEW w, NewBlock(c, w) PROVE b = c
  BY <1>2 DEF NewBlock
<1>3. ASSUME NEW t \in Thread, NEW c \in Block, Schedule(t, c) \/ ScheduleWait(t, c)
      PROVE  Kept(b)'
  <2>1. b = c
    BY <1>2, <1>3 DEF Schedule, ScheduleWait
  <2>2. Kept(c)'
    BY <1>3, ScheduledKept
  <2>3. QED
    BY <2>1, <2>2
<1>4. ASSUME NEW c \in Block, AssignNow(c) \/ Delay(c) PROVE Kept(b)'
  <2>1. b = c
    BY <1>2, <1>4 DEF AssignNow, Delay
  <2>2. Kept(c)'
    BY <1>4, ListedKept
  <2>3. QED
    BY <2>1, <2>2
<1>5. ASSUME NEW t \in Thread, AssignAdd(t) PROVE Kept(b)'
  <2>1. b = op[t].block
    BY <1>5 DEF AssignAdd
  <2>2. QED
    BY <1>5, <2>1, AddedKept
<1>6. ~UNCHANGED accepted
  OBVIOUS
<1>7. CASE \/ Event \/ EventEnds \/ TokenNext \/ CodeReturns \/ CodeThrows \/ FlushQueues
           \/ HandOutNext \/ HandOutEnds \/ RunScheduled \/ FlushEnds
           \/ \E k \in delayed : DelayIsOver(k)
  BY <1>6, <1>7 DEF Event, EventEnds, TokenNext, CodeReturns, CodeThrows, FlushQueues, HandOutNext,
                    HandOutEnds, RunScheduled, FlushEnds, DelayIsOver, history
<1>8. CASE \E t \in Thread :
             \/ Wait(t) \/ WakeUp(t) \/ AssignPut(t) \/ AssignGet(t)
             \/ \E c \in Block, o \in Obj : Assign(t, o, c)
  BY <1>6, <1>8 DEF Wait, WakeUp, AssignPut, AssignGet, Assign, AfterAssign, history
<1>9. QED
  BY <1>3, <1>4, <1>5, <1>6, <1>7, <1>8 DEF Next, GameStep, vars

-------------------------------------------------------------------------------
Steadily == Steady => GameMap /\ SizesFit /\ AllKept

LEMMA SteadilyInit ==
  ASSUME Init
  PROVE  Steadily
<1>1. Game \in Thread /\ Len(stack) = 0 /\ accepted = {} /\ op = [t \in Thread |-> Idle]
  BY Facts DEF Init
<1>2. op[Game].pc = "idle"
  BY <1>1 DEF Idle
<1>3. QED
  BY <1>1, <1>2 DEF Steadily, GameMap, SizesFit, Depth, AllKept

LEMMA SteadilyNext ==
  ASSUME Inv, Inv', Steadily, [Next]_vars
  PROVE  Steadily'
<1>1. Sane /\ Sane' /\ TokensHeld /\ BlockStep /\ RefStep /\ ListStep /\ habit' = habit
  BY BlockSteps, RefSteps, ListSteps, HabitStays DEF Inv
<1> SUFFICES ASSUME Steady PROVE (GameMap /\ SizesFit /\ AllKept)'
  BY <1>1 DEF Steadily, Steady
<1>2. GameMap /\ SizesFit /\ AllKept
  BY DEF Steadily
<1>3. Careful /\ OneHolder /\ Untouched
  BY DEF Inv, Disciplined, Orderly, Careful, Steady
<1>4. GameMap'
  BY <1>1, <1>2, <1>3, GameMapNext
<1>5. SizesFit'
  BY <1>1, <1>2, <1>3, SizesFitNext
<1>6. HoldersGoOn
  BY <1>1, <1>2, <1>3, TokensGoOnSteps, HoldersGoOnSteps
<1>7. PlacesKept
  BY <1>1, PlacesKeptNext
<1>8. \A b \in accepted' : b \in Block
  BY <1>1, Types DEF Sane, TypeOK
<1>9. AllKept'
  <2> SUFFICES ASSUME NEW b \in accepted' PROVE Kept(b)'
    BY DEF AllKept
  <2>1. CASE b \in accepted
    <3>1. Kept(b) /\ b \in Block
      BY <1>2, <1>8, <2>1 DEF AllKept
    <3>2. QED
      BY <1>1, <1>6, <1>7, <3>1, KeptNext
  <2>2. CASE b \notin accepted
    BY <1>1, <1>2, <1>3, <2>2, AcceptedKept
  <2>3. QED
    BY <2>1, <2>2
<1>10. QED
  BY <1>4, <1>5, <1>9

\* What is kept waits, where BlockStaysQueued looks for it.
LEMMA KeptWaits ==
  ASSUME Sane, TokensHeld, NEW b, Kept(b)
  PROVE  ran[b] > 0 \/ Waits(b)
<1>1. ASSUME NEW i \in Queued, scheduled[i].block = b PROVE Waits(b)
  BY <1>1 DEF Waits, Queued
<1>2. ASSUME NEW k, NEW x, NEW l, NEW f, Holds(k, x, l, f), Listing(b, l, f) PROVE Waits(b)
  <2>1. IsIn(l, b, f) /\ l # 0
    BY <1>2 DEF Listing, Place, IsIn, Holds
  <2>2. CASE k = "map"
    <3>1. x \in Obj /\ tokenMap[x] = l /\ f = 0
      BY <1>2, <2>2 DEF Holds
    <3>2. QED
      BY <2>1, <3>1 DEF Waits
  <2>3. CASE k = "set"
    <3>1. x \in 0..MaxToken /\ tokenSets[x] = l /\ f = 0
      BY <1>2, <2>3 DEF Holds
    <3>2. x \in delayed
      BY <2>1, <3>1 DEF TokensHeld
    <3>3. QED
      BY <2>1, <3>1, <3>2 DEF Waits
  <2>4. CASE k = "frame"
    <3>1. x \in 1..Len(stack) /\ stack[x].list = l /\ stack[x].at = f
      BY <1>2, <2>4 DEF Holds, Depth
    <3>2. stack[x].kind = "token"
      BY <2>1, <3>1 DEF Sane, StackOK, Depth
    <3>3. IsIn(stack[x].list, b, stack[x].at)
      BY <2>1, <3>1
    <3>4. QED
      BY <3>1, <3>2, <3>3 DEF Waits
  <2>5. QED
    BY <1>2, <2>2, <2>3, <2>4 DEF Holds
<1>3. QED
  BY <1>1, <1>2 DEF Kept

\* A block that assign, delay, assignNow, schedule or scheduleWait was done with stays where
\* the game, a token or flushQueues finds it until it is run, for a program that is steady.
THEOREM BlocksStayQueued == Spec => []BlockStaysQueued
<1> DEFINE I == Inv /\ Steadily
<1>1. Init => I
  BY InvInit, SteadilyInit
<1>2. I /\ [Next]_vars => I'
  <2> SUFFICES ASSUME I, [Next]_vars PROVE I'
    OBVIOUS
  <2>1. Inv'
    BY InvNext
  <2>2. QED
    BY <2>1, SteadilyNext
<1>3. I => BlockStaysQueued
  <2> SUFFICES ASSUME I, Steady, NEW b \in accepted PROVE ran[b] > 0 \/ Waits(b)
    BY DEF BlockStaysQueued, EveryBlockStaysQueued, Steady
  <2>1. Sane /\ TokensHeld /\ Kept(b)
    BY DEF Inv, Steadily, AllKept
  <2>2. QED
    BY <2>1, KeptWaits
<1> HIDE DEF I
<1>4. QED
  BY <1>1, <1>2, <1>3, PTL DEF Spec
=============================================================================
