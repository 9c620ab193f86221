-------------------------------- MODULE HashSet --------------------------------
(***************************************************************************)
(* The HashSet plugin (hashset/NWNXHashSet.cpp): sets of keys with values, *)
(* kept in order, each with one iterator, which requests of scripts may    *)
(* interleave with changes of the set.                                     *)
(*                                                                         *)
(* Keys are numbers, in their order.  Where the iterator points to a key   *)
(* that was taken out, or was never set, what the requests that use it do  *)
(* is undefined.  Left out: the values, and the parsing of parameters,     *)
(* which makes iLastOperation FALSE when there are too few.                *)
(***************************************************************************)
EXTENDS Naturals, Sequences, Functions, FiniteSetsExt

CONSTANTS
  SetName,  \* names of sets, with their object
  MaxKey  \* bound: keys are 1..MaxKey

ASSUME HashSetAssumption == MaxKey \in Nat

Key == 1..MaxKey

End == MaxKey + 1    \* end(), and an answer of ""
Undefined == 0       \* an iterator that is not valid
Nothing == MaxKey + 2  \* the request answers no key

VARIABLES
  HashSets,        \* name -> [exists, hashset: its keys, p]
  iLastOperation,  \* what STATUS answers
  keyAnswered,     \* the key answered last
  walk             \* history: name -> the keys answered since GETFIRSTKEY, those in the
                   \* set all the time since, and whether p was valid all the time

hashsetVars == <<HashSets, iLastOperation, keyAnswered, walk>>

NoSet == [exists |-> FALSE, hashset |-> {}, p |-> Undefined]
NewSet == [NoSet EXCEPT !.exists = TRUE]
NoWalk == [given |-> <<>>, there |-> {}, valid |-> FALSE]

HashSetInit ==
  /\ HashSets = [n \in SetName |-> NoSet]
  /\ iLastOperation = FALSE
  /\ keyAnswered = Nothing
  /\ walk = [n \in SetName |-> NoWalk]

\* HashSets[name] makes the set if there is none.
SetOf(n) == IF HashSets[n].exists THEN HashSets[n] ELSE NewSet

Create(n) ==
  /\ HashSets' = [HashSets EXCEPT ![n] = SetOf(n)]
  /\ iLastOperation' = TRUE
  /\ keyAnswered' = Nothing
  /\ UNCHANGED walk

Destroy(n) ==
  /\ HashSets' = [HashSets EXCEPT ![n] = NoSet]
  /\ iLastOperation' = HashSets[n].exists
  /\ keyAnswered' = Nothing
  /\ walk' = [walk EXCEPT ![n] = NoWalk]

Insert(n, k) ==
  /\ HashSets' = [HashSets EXCEPT ![n] = [SetOf(n) EXCEPT !.hashset = @ \cup {k}]]
  /\ iLastOperation' = TRUE
  /\ keyAnswered' = Nothing
  /\ UNCHANGED walk

\* Taking out the key that p points to leaves p undefined.
Without(set, k) ==
  [set EXCEPT !.hashset = @ \ {k},
              !.p = IF k = @ /\ k \in set.hashset THEN Undefined ELSE @]

WalkWithout(n, k) ==
  IF HashSets[n].p = k THEN NoWalk ELSE [walk[n] EXCEPT !.there = @ \ {k}]

Delete(n, k) ==
  /\ HashSets' = [HashSets EXCEPT ![n] = Without(SetOf(n), k)]
  /\ iLastOperation' = TRUE
  /\ keyAnswered' = Nothing
  /\ walk' = [walk EXCEPT ![n] = WalkWithout(n, k)]

\* LOOKUP answers a value; VALID and EXISTS leave STATUS at success.
Lookup(n, k) ==
  /\ iLastOperation' = (k \in HashSets[n].hashset)
  /\ keyAnswered' = Nothing
  /\ UNCHANGED <<HashSets, walk>>

ValidOrExists ==
  /\ iLastOperation' = TRUE
  /\ keyAnswered' = Nothing
  /\ UNCHANGED <<HashSets, walk>>

GetSize(n) ==
  /\ iLastOperation' = HashSets[n].exists
  /\ keyAnswered' = Nothing
  /\ UNCHANGED <<HashSets, walk>>
-------------------------------------------------------------------------------
(* The iterator.                                                             *)

\* The first of some keys in order, or end().
FirstOf(S) == Min(S \cup {End})

After(n) == FirstOf({k \in HashSets[n].hashset : k > HashSets[n].p})

GivenAlso(given, k) == IF k = End THEN given ELSE Append(given, k)

NoSuchSet(n) ==
  /\ ~HashSets[n].exists
  /\ iLastOperation' = FALSE
  /\ keyAnswered' = End
  /\ UNCHANGED <<HashSets, walk>>

\* p is moved to k, whose key is answered.
MoveTo(n, k) ==
  /\ HashSets' = [HashSets EXCEPT ![n].p = k]
  /\ keyAnswered' = k

GetFirstKey(n) ==
  \/ NoSuchSet(n)
  \/ /\ HashSets[n].exists
     /\ MoveTo(n, FirstOf(HashSets[n].hashset))
     /\ walk' = [walk EXCEPT ![n] =
          [given |-> GivenAlso(<<>>, keyAnswered'), there |-> HashSets[n].hashset, valid |-> TRUE]]
     /\ iLastOperation' = TRUE

\* Past the last key p stays at end().
GetNextKey(n) ==
  \/ NoSuchSet(n)
  \/ /\ HashSets[n].exists
     /\ \/ HashSets[n].p = End /\ MoveTo(n, End)
        \/ HashSets[n].p \in Key /\ MoveTo(n, After(n))
        \/ HashSets[n].p = Undefined /\ \E k \in Key \cup {End} : keyAnswered' = k /\ UNCHANGED HashSets
     /\ walk' = [walk EXCEPT ![n].given = IF walk[n].valid THEN GivenAlso(@, keyAnswered') ELSE @]
     /\ iLastOperation' = TRUE

GetCurrentKey(n) ==
  \/ NoSuchSet(n)
  \/ /\ HashSets[n].exists
     /\ \/ HashSets[n].p # Undefined /\ keyAnswered' = HashSets[n].p
        \/ HashSets[n].p = Undefined /\ keyAnswered' \in Key \cup {End}
     /\ iLastOperation' = TRUE
     /\ UNCHANGED <<HashSets, walk>>

\* Mutant of LookAhead: p itself is moved.
MoveAhead(n) ==
  IF HashSets[n].p \in Key THEN MoveTo(n, After(n)) ELSE keyAnswered' = Nothing /\ UNCHANGED HashSets

\* A copy of p is moved.
LookAhead(n) == keyAnswered' = Nothing /\ UNCHANGED HashSets

HasNext(n) ==
  \/ NoSuchSet(n)
  \/ /\ HashSets[n].exists
     /\ LookAhead(n)
     /\ iLastOperation' = TRUE
     /\ UNCHANGED walk

\* GETNTHKEY does nothing but succeed.
HashSetNext ==
  \/ \E n \in SetName :
       \/ Create(n) \/ Destroy(n) \/ GetSize(n)
       \/ \E k \in Key : Insert(n, k) \/ Delete(n, k) \/ Lookup(n, k)
       \/ GetFirstKey(n) \/ GetNextKey(n) \/ GetCurrentKey(n) \/ HasNext(n)
  \/ ValidOrExists

HashSetSpec == HashSetInit /\ [][HashSetNext]_hashsetVars
-------------------------------------------------------------------------------
HashSetTypeOK ==
  /\ HashSets \in [SetName -> [exists : BOOLEAN, hashset : SUBSET Key, p : {Undefined} \cup Key \cup {End}]]
  /\ iLastOperation \in BOOLEAN
  /\ keyAnswered \in Key \cup {End, Nothing}
  /\ walk \in [SetName -> [given : Seq(Key), there : SUBSET Key, valid : BOOLEAN]]

\* A walk with GETFIRSTKEY and GETNEXTKEY, whatever is inserted, deleted, looked
\* up or looked ahead to in between, gets each key that stays in the set once and
\* in order, as long as the key it is at is not deleted: when it has come to k
\* it has had every key up to k that was there all the time, and no later one.
WalkIsComplete ==
  \A n \in SetName : walk[n].valid =>
    /\ HashSets[n].p \in HashSets[n].hashset \cup {End}
    /\ \A i, j \in DOMAIN walk[n].given : i < j => walk[n].given[i] < walk[n].given[j]
    /\ \A i \in DOMAIN walk[n].given : walk[n].given[i] <= HashSets[n].p
    /\ {k \in walk[n].there : k <= HashSets[n].p} \subseteq Range(walk[n].given)
===============================================================================
