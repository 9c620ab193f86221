------------------------------ MODULE ListProofs ------------------------------
(***************************************************************************)
(* Lemmas the other proof modules share: about sequences as the components *)
(* use them, about the smallest and the largest number of a set, about     *)
(* sums over finite sets, and about the lists of lists.c, for elements of  *)
(* any kind.                                                               *)
(***************************************************************************)
EXTENDS Integers, SortedList, FiniteSetsExt, SequenceTheorems, FiniteSetTheorems, WellFoundedInduction,
        TLAPS

\* What a sequence is with one more element.
LEMMA Pushed ==
  ASSUME NEW S, NEW s \in Seq(S), NEW x \in S
  PROVE  /\ Append(s, x) \in Seq(S)
         /\ Len(Append(s, x)) = Len(s) + 1
         /\ \A i \in 1..Len(s) : Append(s, x)[i] = s[i]
         /\ Append(s, x)[Len(s) + 1] = x
BY AppendProperties

\* What a sequence is without its last element.
LEMMA Popped ==
  ASSUME NEW S, NEW s \in Seq(S), s # <<>>
  PROVE  /\ SubSeq(s, 1, Len(s) - 1) \in Seq(S)
         /\ Len(SubSeq(s, 1, Len(s) - 1)) = Len(s) - 1
         /\ \A i \in 1..(Len(s) - 1) : SubSeq(s, 1, Len(s) - 1)[i] = s[i]
         /\ Len(s) \in Nat /\ Len(s) >= 1 /\ s[Len(s)] \in S
<1>1. Len(s) \in Nat /\ Len(s) >= 1
  BY EmptySeq
<1> DEFINE n == Len(s) - 1
<1>2. n \in Nat /\ n + 1 = Len(s)
  BY <1>1
<1>3. \A i \in 1..Len(s) : s[i] \in S
  BY ElementOfSeq
<1>4. \A i \in 1..n : s[i] \in S
  BY <1>2, <1>3
<1> HIDE DEF n
<1>5. /\ SubSeq(s, 1, n) \in Seq(S)
      /\ Len(SubSeq(s, 1, n)) = n
      /\ \A d \in 1..n : SubSeq(s, 1, n)[d] = s[d]
  BY <1>2, <1>4, SubSeqProperties
<1>6. s[Len(s)] \in S
  BY <1>1, <1>3
<1>7. QED
  BY <1>1, <1>2, <1>5, <1>6 DEF n

\* A function on 1..n is a sequence of length n.
LEMMA FunctionIsSeq ==
  ASSUME NEW S, NEW n \in Nat, NEW f \in [1..n -> S]
  PROVE  f \in Seq(S) /\ Len(f) = n
OBVIOUS

\* A set of numbers that is not empty has a smallest, and if it is bounded a largest.
LEMMA SmallestOf ==
  ASSUME NEW T \in SUBSET Nat, T # {}
  PROVE  \E m \in T : \A k \in T : m <= k
<1>1. IsWellFoundedOn(OpToRel(<, Nat), Nat)
  BY NatLessThanWellFounded
<1> DEFINE R == OpToRel(<, Nat)
<1>2. \A x, y \in Nat : <<x, y>> \in R <=> x < y
  BY DEF OpToRel
<1> HIDE DEF R
<1>3. \E x \in T : \A y \in T : <<y, x>> \notin R
  BY <1>1, WFMin DEF R
<1>4. PICK x \in T : \A y \in T : <<y, x>> \notin R
  BY <1>3
<1>5. \A y \in T : ~(y < x)
  BY <1>2, <1>4
<1>6. \A y \in T : y \in Int /\ x \in Int
  OBVIOUS
<1>7. QED
  BY <1>5, <1>6

LEMMA LargestOf ==
  ASSUME NEW n \in Nat, NEW T \in SUBSET (1..n), T # {}
  PROVE  \E m \in T : \A k \in T : k <= m
<1> DEFINE U == {n - k : k \in T}
<1>1. U \in SUBSET Nat /\ U # {}
  <2>1. \A k \in T : n - k \in Nat
    OBVIOUS
  <2>2. QED
    BY <2>1
<1>2. PICK u \in U : \A v \in U : u <= v
  BY <1>1, SmallestOf
<1>3. PICK m \in T : u = n - m
  BY <1>2, Zenon
<1>4. \A k \in T : n - m <= n - k
  <2>1. \A k \in T : n - k \in U
    OBVIOUS
  <2>2. QED
    BY <1>2, <1>3, <2>1
<1> HIDE DEF U
<1>5. \A k \in T : k \in Int /\ m \in Int
  OBVIOUS
<1>6. QED
  BY <1>4, <1>5

\* A sequence with two more elements.
LEMMA PushedTwo ==
  ASSUME NEW S, NEW s \in Seq(S), NEW x \in S, NEW y \in S
  PROVE  /\ s \o <<x, y>> \in Seq(S)
         /\ Len(s \o <<x, y>>) = Len(s) + 2
         /\ \A i \in 1..Len(s) : (s \o <<x, y>>)[i] = s[i]
         /\ (s \o <<x, y>>)[Len(s) + 1] = x
         /\ (s \o <<x, y>>)[Len(s) + 2] = y
<1>1. <<x, y>> \in Seq(S) /\ Len(<<x, y>>) = 2 /\ <<x, y>>[1] = x /\ <<x, y>>[2] = y
  OBVIOUS
<1> DEFINE u == <<x, y>>
<1> HIDE DEF u
<1>2. u \in Seq(S) /\ Len(u) = 2 /\ u[1] = x /\ u[2] = y
  BY <1>1 DEF u
<1>3. /\ s \o u \in Seq(S)
      /\ Len(s \o u) = Len(s) + Len(u)
      /\ \A i \in 1..(Len(s) + Len(u)) :
           (s \o u)[i] = IF i <= Len(s) THEN s[i] ELSE u[i - Len(s)]
  BY <1>2, ConcatProperties
<1>4. Len(s) \in Nat
  OBVIOUS
<1>5. QED
  BY <1>2, <1>3, <1>4 DEF u

\* The first n of a sequence.
LEMMA PrefixOf ==
  ASSUME NEW S, NEW s \in Seq(S), NEW n \in 0..Len(s)
  PROVE  /\ SubSeq(s, 1, n) \in Seq(S)
         /\ Len(SubSeq(s, 1, n)) = n
         /\ \A i \in 1..n : SubSeq(s, 1, n)[i] = s[i]
<1>1. \A i \in 1..n : s[i] \in S
  BY ElementOfSeq
<1>2. QED
  BY <1>1, SubSeqProperties

\* A sequence without its first element.
LEMMA TailOf ==
  ASSUME NEW S, NEW s \in Seq(S), s # <<>>
  PROVE  /\ Head(s) = s[1] /\ Head(s) \in S /\ Tail(s) \in Seq(S)
         /\ Len(s) \in Nat /\ Len(s) >= 1
         /\ Len(Tail(s)) = Len(s) - 1
         /\ \A i \in 1..Len(Tail(s)) : Tail(s)[i] = s[i + 1]
BY HeadTailProperties, EmptySeq
-------------------------------------------------------------------------------
(* The lists of lists.c.                                                     *)

\* Inserting an element gives a list of the same type, one longer.
LEMMA InsertType ==
  ASSUME NEW S, NEW s \in Seq(S), NEW e \in S, NEW i \in 1..(Len(s) + 1)
  PROVE  /\ List_Insert(s, e, i) \in Seq(S)
         /\ Len(List_Insert(s, e, i)) = Len(s) + 1
         /\ \A j \in 1..(Len(s) + 1) :
              List_Insert(s, e, i)[j] = IF j < i THEN s[j]
                                        ELSE IF j = i THEN e ELSE s[j - 1]
BY DEF List_Insert

\* Removing an element gives a list of the same type, one shorter.
LEMMA RemoveType ==
  ASSUME NEW S, NEW s \in Seq(S), NEW i \in 1..Len(s)
  PROVE  /\ List_Remove(s, i) \in Seq(S)
         /\ Len(List_Remove(s, i)) = Len(s) - 1
         /\ \A j \in 1..(Len(s) - 1) :
              List_Remove(s, i)[j] = IF j < i THEN s[j] ELSE s[j + 1]
BY DEF List_Remove

\* What is in a list after an element has been inserted, or removed.
LEMMA InsertMembers ==
  ASSUME NEW S, NEW s \in Seq(S), NEW e \in S, NEW i \in 1..(Len(s) + 1), NEW x
  PROVE  Contains(List_Insert(s, e, i), x) <=> x = e \/ Contains(s, x)
<1> DEFINE t == List_Insert(s, e, i)
<1>1. /\ Len(s) \in Nat /\ Len(t) = Len(s) + 1
      /\ \A j \in 1..(Len(s) + 1) :
           t[j] = IF j < i THEN s[j] ELSE IF j = i THEN e ELSE s[j - 1]
  BY InsertType
<1> HIDE DEF t
<1>2. i \in 1..Len(t) /\ t[i] = e
  BY <1>1
<1>3. ASSUME NEW j \in 1..Len(s) PROVE \E k \in 1..Len(t) : t[k] = s[j]
  <2>1. CASE j < i
    <3>1. j \in 1..Len(t) /\ t[j] = s[j]
      BY <1>1, <2>1
    <3>2. QED
      BY <3>1
  <2>2. CASE ~(j < i)
    <3>1. j + 1 \in 1..Len(t) /\ t[j + 1] = s[j]
      BY <1>1, <2>2
    <3>2. QED
      BY <3>1
  <2>3. QED
    BY <2>1, <2>2
<1>4. ASSUME NEW k \in 1..Len(t), k # i PROVE \E j \in 1..Len(s) : s[j] = t[k]
  <2>1. CASE k < i
    <3>1. k \in 1..Len(s) /\ t[k] = s[k]
      BY <1>1, <2>1
    <3>2. QED
      BY <3>1
  <2>2. CASE ~(k < i)
    <3>1. k - 1 \in 1..Len(s) /\ t[k] = s[k - 1]
      BY <1>1, <1>4, <2>2
    <3>2. QED
      BY <3>1
  <2>3. QED
    BY <2>1, <2>2
<1>5. Contains(t, x) <=> x = e \/ Contains(s, x)
  BY <1>2, <1>3, <1>4 DEF Contains
<1>6. QED
  BY <1>5 DEF t

LEMMA RemoveMembers ==
  ASSUME NEW S, NEW s \in Seq(S), NEW i \in 1..Len(s),
         \A j \in 1..Len(s) : s[j] = s[i] => j = i, NEW x
  PROVE  Contains(List_Remove(s, i), x) <=> x # s[i] /\ Contains(s, x)
<1> DEFINE t == List_Remove(s, i)
<1>1. /\ Len(s) \in Nat /\ Len(t) = Len(s) - 1
      /\ \A j \in 1..(Len(s) - 1) : t[j] = IF j < i THEN s[j] ELSE s[j + 1]
  BY RemoveType
<1> HIDE DEF t
<1>2. ASSUME NEW j \in 1..Len(s), j # i PROVE \E k \in 1..Len(t) : t[k] = s[j]
  <2>1. CASE j < i
    <3>1. j \in 1..Len(t) /\ t[j] = s[j]
      BY <1>1, <2>1
    <3>2. QED
      BY <3>1
  <2>2. CASE ~(j < i)
    <3>1. j - 1 \in 1..Len(t) /\ t[j - 1] = s[j]
      BY <1>1, <1>2, <2>2
    <3>2. QED
      BY <3>1
  <2>3. QED
    BY <2>1, <2>2
<1>3. ASSUME NEW k \in 1..Len(t) PROVE \E j \in 1..Len(s) : j # i /\ s[j] = t[k]
  <2>1. CASE k < i
    <3>1. k \in 1..Len(s) /\ k # i /\ t[k] = s[k]
      BY <1>1, <2>1
    <3>2. QED
      BY <3>1
  <2>2. CASE ~(k < i)
    <3>1. k + 1 \in 1..Len(s) /\ k + 1 # i /\ t[k] = s[k + 1]
      BY <1>1, <2>2
    <3>2. QED
      BY <3>1
  <2>3. QED
    BY <2>1, <2>2
<1>4. Contains(t, x) <=> x # s[i] /\ Contains(s, x)
  BY <1>2, <1>3 DEF Contains
<1>5. QED
  BY <1>4 DEF t

\* An element inserted at its insertion point keeps the list sorted.
LEMMA InsertKeepsSorted ==
  ASSUME NEW S, NEW s \in Seq(S), NEW e \in S, NEW i \in 1..(Len(s) + 1),
         NEW key, \A x \in S : key[x] \in Nat,
         IsSorted(s, key), IsInsertionPoint(s, key, key[e], i)
  PROVE  IsSorted(List_Insert(s, e, i), key)
<1> DEFINE t == List_Insert(s, e, i)
<1>1. /\ Len(t) = Len(s) + 1
      /\ \A j \in 1..(Len(s) + 1) :
           t[j] = IF j < i THEN s[j] ELSE IF j = i THEN e ELSE s[j - 1]
  BY InsertType, SMTT(30)
<1> HIDE DEF t
<1>a. Len(s) \in Nat /\ key[e] \in Nat /\ \A j \in 1..Len(s) : key[s[j]] \in Nat
  OBVIOUS
<1>2. /\ \A j \in 1..Len(s) : j < i => key[s[j]] < key[e]
      /\ \A j \in 1..Len(s) : j >= i => key[e] < key[s[j]]
      /\ \A j, k \in 1..Len(s) : j < k => key[s[j]] < key[s[k]]
  BY <1>a DEF IsInsertionPoint, IsSorted
<1>3. SUFFICES ASSUME NEW j \in 1..(Len(s) + 1), NEW k \in 1..(Len(s) + 1), j < k
               PROVE  key[t[j]] < key[t[k]]
  BY <1>1 DEF IsSorted, t
<1>4. CASE k < i
  <2>1. t[j] = s[j] /\ t[k] = s[k] /\ j \in 1..Len(s) /\ k \in 1..Len(s)
    BY <1>1, <1>a, <1>3, <1>4
  <2>2. QED
    BY <1>2, <1>3, <2>1
<1>5. CASE k = i
  <2>1. t[j] = s[j] /\ t[k] = e /\ j \in 1..Len(s) /\ j < i
    BY <1>1, <1>a, <1>3, <1>5
  <2>2. QED
    BY <1>2, <2>1
<1>6. CASE k > i /\ j < i
  <2>1. t[j] = s[j] /\ t[k] = s[k - 1] /\ j \in 1..Len(s) /\ k - 1 \in 1..Len(s) /\ j < k - 1
    BY <1>1, <1>a, <1>3, <1>6
  <2>2. QED
    BY <1>2, <2>1
<1>7. CASE k > i /\ j = i
  <2>1. t[j] = e /\ t[k] = s[k - 1] /\ k - 1 \in 1..Len(s) /\ k - 1 >= i
    BY <1>1, <1>a, <1>3, <1>7
  <2>2. QED
    BY <1>2, <2>1
<1>8. CASE k > i /\ j > i
  <2>1. /\ t[j] = s[j - 1] /\ t[k] = s[k - 1]
        /\ j - 1 \in 1..Len(s) /\ k - 1 \in 1..Len(s) /\ j - 1 < k - 1
    BY <1>1, <1>a, <1>3, <1>8
  <2>2. QED
    BY <1>2, <2>1
<1>9. QED
  BY <1>3, <1>4, <1>5, <1>6, <1>7, <1>8

\* Removing an element keeps the list sorted.
LEMMA RemoveKeepsSorted ==
  ASSUME NEW S, NEW s \in Seq(S), NEW i \in 1..Len(s), NEW key, IsSorted(s, key)
  PROVE  IsSorted(List_Remove(s, i), key)
<1> DEFINE t == List_Remove(s, i)
           old(j) == IF j < i THEN j ELSE j + 1
<1>1. /\ Len(s) \in Nat /\ Len(t) = Len(s) - 1
      /\ \A j \in 1..(Len(s) - 1) : t[j] = IF j < i THEN s[j] ELSE s[j + 1]
  BY RemoveType
<1> HIDE DEF t
<1>2. SUFFICES ASSUME NEW j \in 1..(Len(s) - 1), NEW k \in 1..(Len(s) - 1), j < k
               PROVE  key[t[j]] < key[t[k]]
  BY <1>1 DEF IsSorted, t
<1>3. /\ t[j] = s[old(j)] /\ t[k] = s[old(k)]
      /\ old(j) \in 1..Len(s) /\ old(k) \in 1..Len(s) /\ old(j) < old(k)
  BY <1>1, <1>2
<1> HIDE DEF old
<1>4. QED
  BY <1>3 DEF IsSorted
-------------------------------------------------------------------------------
(* Sums over finite sets.                                                    *)

\* The sums over a set's subsets, as MapThenSumSet has them.
IsSum(w, S, f) ==
  f = [s \in SUBSET S |-> IF s = {} THEN 0
                          ELSE LET x == CHOOSE x \in s : TRUE IN w[x] + f[s \ {x}]]

SumOver(w, S) == MapThenSumSet(LAMBDA r : w[r], S)

LEMMA SumIs == \A w, S : SumOver(w, S) = (CHOOSE f : IsSum(w, S, f))[S]
BY DEF SumOver, MapThenSumSet, MapThenFoldSet, IsSum

\* A property of finite sets that a smallest set without it cannot lack, holds: the sets
\* without it are given by their sizes.
LEMMA SmallerSet ==
  ASSUME NEW s, IsFiniteSet(s), NEW x \in s
  PROVE  IsFiniteSet(s \ {x}) /\ Cardinality(s \ {x}) \in Nat /\ Cardinality(s) \in Nat
         /\ Cardinality(s \ {x}) < Cardinality(s)
<1>1. IsFiniteSet(s \ {x}) /\ Cardinality(s \ {x}) = Cardinality(s) - 1
  BY FS_RemoveElement
<1>2. Cardinality(s) \in Nat /\ Cardinality(s \ {x}) \in Nat
  BY <1>1, FS_CardinalityType
<1>3. QED
  BY <1>1, <1>2

\* What a sum is of an empty set, and of a set with a chosen element.
LEMMA SumUnfolds ==
  ASSUME NEW w, NEW S, NEW f, IsSum(w, S, f), NEW s \in SUBSET S
  PROVE  /\ s = {} => f[s] = 0
         /\ s # {} => \E x \in s : x = (CHOOSE y \in s : TRUE) /\ f[s] = w[x] + f[s \ {x}]
<1> DEFINE G == [t \in SUBSET S |-> IF t = {} THEN 0
                          ELSE LET x == CHOOSE x \in t : TRUE IN w[x] + f[t \ {x}]]
<1>1. f = G
  BY DEF IsSum
<1>2. G[s] = IF s = {} THEN 0 ELSE LET x == CHOOSE x \in s : TRUE IN w[x] + f[s \ {x}]
  OBVIOUS
<1>3. f[s] = IF s = {} THEN 0 ELSE LET x == CHOOSE x \in s : TRUE IN w[x] + f[s \ {x}]
  BY <1>1, <1>2
<1> HIDE DEF G
<1>4. ASSUME s # {}
      PROVE  \E x \in s : x = (CHOOSE y \in s : TRUE) /\ f[s] = w[x] + f[s \ {x}]
  <2>1. PICK x : x = CHOOSE y \in s : TRUE
    OBVIOUS
  <2>2. x \in s
    BY <1>4, <2>1
  <2>3. f[s] = w[x] + f[s \ {x}]
    BY <1>3, <1>4, <2>1
  <2>4. QED
    BY <2>1, <2>2, <2>3
<1>5. QED
  BY <1>3, <1>4

\* The sums over a set's subsets are those of any larger set's.
LEMMA SumUnique ==
  ASSUME NEW w, NEW S, NEW T, NEW f, NEW g, IsSum(w, S, f), IsSum(w, T, g),
         NEW s \in SUBSET S, s \in SUBSET T, IsFiniteSet(s)
  PROVE  f[s] = g[s]
<1> DEFINE Wrong(t) == t \in SUBSET S /\ t \in SUBSET T /\ IsFiniteSet(t) /\ f[t] # g[t]
           Counts == {n \in Nat : \E t \in SUBSET S : Wrong(t) /\ n = Cardinality(t)}
<1>1. SUFFICES ASSUME Wrong(s) PROVE FALSE
  OBVIOUS
<1>2. Cardinality(s) \in Counts
  BY <1>1, FS_CardinalityType
<1>3. PICK m \in Counts : \A k \in Counts : m <= k
  <2>1. Counts \in SUBSET Nat /\ Counts # {}
    BY <1>2
  <2> HIDE DEF Counts
  <2>2. QED
    BY <2>1, SmallestOf
<1>4. PICK t \in SUBSET S : Wrong(t) /\ m = Cardinality(t)
  BY <1>3
<1>5. t # {}
  <2>1. CASE t = {}
    <3>1. f[t] = 0
      BY <2>1, SumUnfolds
    <3>2. g[t] = 0
      BY <2>1, SumUnfolds
    <3>3. QED
      BY <1>4, <3>1, <3>2
  <2>2. QED
    BY <2>1
<1>6. t \in SUBSET S /\ t \in SUBSET T /\ IsFiniteSet(t)
  BY <1>4
<1>7. PICK x \in t : x = (CHOOSE y \in t : TRUE) /\ f[t] = w[x] + f[t \ {x}]
  BY <1>5, <1>6, SumUnfolds
<1>8. PICK y \in t : y = (CHOOSE z \in t : TRUE) /\ g[t] = w[y] + g[t \ {y}]
  BY <1>5, <1>6, SumUnfolds
<1>9. x = y
  BY <1>7, <1>8
<1>10. /\ IsFiniteSet(t \ {x}) /\ Cardinality(t \ {x}) \in Nat /\ Cardinality(t) \in Nat
       /\ Cardinality(t \ {x}) < Cardinality(t)
  BY <1>6, SmallerSet
<1>11. Wrong(t \ {x})
  BY <1>4, <1>6, <1>7, <1>8, <1>9, <1>10
<1>12. Cardinality(t \ {x}) \in Counts
  BY <1>10, <1>11
<1>13. m = Cardinality(t) /\ m <= Cardinality(t \ {x})
  BY <1>3, <1>4, <1>12
<1>14. QED
  BY <1>10, <1>13

\* There are such sums.
LEMMA SumExists ==
  ASSUME NEW w, NEW S, IsFiniteSet(S)
  PROVE  \E f : IsSum(w, S, f)
<1> DEFINE Lacks(t) == t \in SUBSET S /\ ~\E f : IsSum(w, t, f)
           Counts == {n \in Nat : \E t \in SUBSET S : Lacks(t) /\ n = Cardinality(t)}
<1>1. SUFFICES ASSUME Lacks(S) PROVE FALSE
  OBVIOUS
<1>2. Cardinality(S) \in Counts
  BY <1>1, FS_CardinalityType
<1>3. PICK m \in Counts : \A k \in Counts : m <= k
  <2>1. Counts \in SUBSET Nat /\ Counts # {}
    BY <1>2
  <2> HIDE DEF Counts
  <2>2. QED
    BY <2>1, SmallestOf
<1>4. PICK s \in SUBSET S : Lacks(s) /\ m = Cardinality(s)
  BY <1>3
<1>5. IsFiniteSet(s)
  BY FS_Subset
<1>6. ASSUME NEW t \in SUBSET s, NEW x \in s, x \notin t
      PROVE  \E f : IsSum(w, t, f)
  <2>1. IsFiniteSet(s \ {x}) /\ Cardinality(s \ {x}) \in Nat /\ Cardinality(s) \in Nat
        /\ Cardinality(s \ {x}) < Cardinality(s)
    BY <1>5, SmallerSet
  <2>2. t \in SUBSET (s \ {x})
    BY <1>6
  <2>3. IsFiniteSet(t) /\ Cardinality(t) <= Cardinality(s \ {x})
    BY <2>1, <2>2, FS_Subset
  <2>4. Cardinality(t) \in Nat
    BY <2>3, FS_CardinalityType
  <2>5. t \in SUBSET S
    OBVIOUS
  <2>6. CASE Lacks(t)
    <3>1. Cardinality(t) \in Counts
      BY <2>4, <2>5, <2>6
    <3>2. QED
      BY <1>3, <1>4, <2>1, <2>3, <2>4, <3>1
  <2>7. QED
    BY <2>5, <2>6
<1> DEFINE F(t) == CHOOSE f : IsSum(w, t, f)
           Pick(t) == CHOOSE x \in t : TRUE
           H == [t \in SUBSET s |-> IF t = {} THEN 0 ELSE w[Pick(t)] + F(t \ {Pick(t)})[t \ {Pick(t)}]]
           G == [t \in SUBSET s |-> IF t = {} THEN 0 ELSE w[Pick(t)] + H[t \ {Pick(t)}]]
<1>7. ASSUME NEW t \in SUBSET s, NEW x \in s, x \notin t
      PROVE  H[t] = F(t)[t] /\ IsSum(w, t, F(t))
  <2>1. IsSum(w, t, F(t))
    BY <1>6, <1>7
  <2>2. H[t] = IF t = {} THEN 0 ELSE w[Pick(t)] + F(t \ {Pick(t)})[t \ {Pick(t)}]
    OBVIOUS
  <2>3. PICK f : f = F(t)
    OBVIOUS
  <2>4. IsSum(w, t, f) /\ t \in SUBSET t
    BY <2>1, <2>3
  <2>5. CASE t = {}
    <3>1. f[t] = 0
      BY <2>4, <2>5, SumUnfolds
    <3>2. QED
      BY <2>1, <2>2, <2>3, <2>5, <3>1
  <2>6. CASE t # {}
    <3>1. PICK y \in t : y = (CHOOSE z \in t : TRUE) /\ f[t] = w[y] + f[t \ {y}]
      BY <2>4, <2>6, SumUnfolds
    <3>2. y = Pick(t) /\ y \in s /\ t \ {y} \in SUBSET s /\ t \ {y} \in SUBSET t
      BY <3>1
    <3>3. PICK g : g = F(t \ {y})
      OBVIOUS
    <3>4. IsSum(w, t \ {y}, g)
      <4>1. \E h : IsSum(w, t \ {y}, h)
        BY <1>6, <3>2
      <4>2. QED
        BY <3>3, <4>1
    <3>5. IsFiniteSet(t \ {y})
      BY <1>5, <3>2, FS_Subset
    <3>6. f[t \ {y}] = g[t \ {y}]
      BY <2>4, <3>2, <3>4, <3>5, SumUnique
    <3>7. H[t] = w[y] + g[t \ {y}]
      BY <2>2, <2>6, <3>2, <3>3
    <3>8. QED
      BY <2>1, <2>3, <3>1, <3>6, <3>7
  <2>7. QED
    BY <2>5, <2>6
<1>8. H = G
  <2>1. ASSUME NEW t \in SUBSET s, t # {}
        PROVE  F(t \ {Pick(t)})[t \ {Pick(t)}] = H[t \ {Pick(t)}]
    <3>1. PICK x : x = Pick(t)
      OBVIOUS
    <3>2. x \in t /\ x \in s /\ t \ {x} \in SUBSET s
      BY <2>1, <3>1
    <3>3. H[t \ {x}] = F(t \ {x})[t \ {x}]
      BY <1>7, <3>2
    <3>4. QED
      BY <3>1, <3>3
  <2> DEFINE a(t) == IF t = {} THEN 0 ELSE w[Pick(t)] + F(t \ {Pick(t)})[t \ {Pick(t)}]
             b(t) == IF t = {} THEN 0 ELSE w[Pick(t)] + H[t \ {Pick(t)}]
  <2>2. \A t \in SUBSET s : a(t) = b(t)
    <3> HIDE DEF F, Pick, H
    <3>1. QED
      BY <2>1
  <2>3. H = [t \in SUBSET s |-> a(t)]
    OBVIOUS
  <2>4. G = [t \in SUBSET s |-> b(t)]
    OBVIOUS
  <2> HIDE DEF a, b, H, G
  <2>5. QED
    BY <2>2, <2>3, <2>4
<1>9. IsSum(w, s, H)
  <2>1. G = [t \in SUBSET s |-> IF t = {} THEN 0
                                ELSE LET x == CHOOSE x \in t : TRUE IN w[x] + H[t \ {x}]]
    OBVIOUS
  <2> HIDE DEF H, G
  <2>2. QED
    BY <1>8, <2>1 DEF IsSum
<1>10. QED
  BY <1>4, <1>9

LEMMA SumAt ==
  ASSUME NEW w, NEW S, NEW f, IsSum(w, S, f), NEW s \in SUBSET S, IsFiniteSet(s)
  PROVE  SumOver(w, s) = f[s]
<1>1. PICK g : g = CHOOSE h : IsSum(w, s, h)
  OBVIOUS
<1>2. IsSum(w, s, g)
  BY <1>1, SumExists
<1>3. SumOver(w, s) = g[s]
  BY <1>1, SumIs
<1>4. f[s] = g[s]
  BY <1>2, SumUnique
<1>5. QED
  BY <1>3, <1>4

\* A sum is that of the set without an element, whichever, and the element's weight.
LEMMA SumParts ==
  ASSUME NEW w, NEW S, IsFiniteSet(S), \A r \in S : w[r] \in Nat
  PROVE  /\ SumOver(w, {}) = 0
         /\ SumOver(w, S) \in Nat
         /\ \A y \in S : SumOver(w, S) = w[y] + SumOver(w, S \ {y})
<1>1. PICK f : IsSum(w, S, f)
  BY SumExists
<1>2. \A s \in SUBSET S : IsFiniteSet(s) /\ SumOver(w, s) = f[s]
  BY <1>1, FS_Subset, SumAt
<1>3. f[{}] = 0
  BY <1>1, SumUnfolds
<1> DEFINE Right(s) == f[s] \in Nat /\ \A y \in s : f[s] = w[y] + f[s \ {y}]
           Counts == {n \in Nat : \E t \in SUBSET S : ~Right(t) /\ n = Cardinality(t)}
<1>4. Right(S)
  <2>1. SUFFICES ASSUME ~Right(S) PROVE FALSE
    OBVIOUS
  <2>2. Cardinality(S) \in Counts
    <3>1. S \in SUBSET S /\ Cardinality(S) \in Nat
      BY FS_CardinalityType
    <3> HIDE DEF Right
    <3>2. QED
      BY <2>1, <3>1
  <2>3. PICK m \in Counts : \A k \in Counts : m <= k
    <3>1. Counts \in SUBSET Nat /\ Counts # {}
      BY <2>2
    <3> HIDE DEF Counts
    <3>2. QED
      BY <3>1, SmallestOf
  <2>4. PICK t \in SUBSET S : ~Right(t) /\ m = Cardinality(t)
    BY <2>3
  <2>5. IsFiniteSet(t)
    BY <1>2
  <2>6. ASSUME NEW x \in t, NEW u \in SUBSET (t \ {x})
        PROVE  Right(u) /\ u \in SUBSET S
    <3>1. IsFiniteSet(t \ {x}) /\ Cardinality(t \ {x}) \in Nat /\ Cardinality(t) \in Nat
          /\ Cardinality(t \ {x}) < Cardinality(t)
      BY <2>5, SmallerSet
    <3>2. u \in SUBSET S /\ IsFiniteSet(u) /\ Cardinality(u) <= Cardinality(t \ {x})
      BY <3>1, FS_Subset
    <3>3. Cardinality(u) \in Nat
      BY <3>2, FS_CardinalityType
    <3>4. ~Right(u) => Cardinality(u) \in Counts
      <4> HIDE DEF Right
      <4>1. QED
        BY <3>2, <3>3
    <3> HIDE DEF Right, Counts
    <3>5. ~Right(u) => m <= Cardinality(u)
      BY <2>3, <3>4
    <3>6. QED
      BY <2>4, <3>1, <3>2, <3>3, <3>5
  <2>7. CASE t = {}
    BY <1>3, <2>4, <2>7
  <2>8. CASE t # {}
    <3>1. PICK x \in t : f[t] = w[x] + f[t \ {x}]
      BY <1>1, <2>8, SumUnfolds
    <3>2. f[t \ {x}] \in Nat /\ w[x] \in Nat
      BY <2>6
    <3>3. ASSUME NEW y \in t
          PROVE  f[t] = w[y] + f[t \ {y}]
      <4>1. CASE y = x
        BY <3>1, <4>1
      <4>2. CASE y # x
        <5>1. (t \ {x}) \ {y} = (t \ {y}) \ {x} /\ y \in t \ {x} /\ x \in t \ {y}
          BY <4>2
        <5>2. PICK u : u = (t \ {x}) \ {y}
          OBVIOUS
        <5>3. f[t \ {x}] = w[y] + f[u]
          BY <2>6, <5>1, <5>2
        <5>4. f[t \ {y}] = w[x] + f[u]
          BY <2>6, <5>1, <5>2
        <5>5. f[u] \in Nat
          BY <2>6, <5>2
        <5>6. w[x] \in Nat /\ w[y] \in Nat
          OBVIOUS
        <5>7. QED
          BY <3>1, <5>3, <5>4, <5>5, <5>6
      <4>3. QED
        BY <4>1, <4>2
    <3>4. f[t] \in Nat
      BY <3>1, <3>2
    <3>5. QED
      BY <2>4, <3>3, <3>4
  <2>9. QED
    BY <2>7, <2>8
<1>5. QED
  BY <1>2, <1>3, <1>4

\* The sum over a set is that over a part and that over the rest.
LEMMA SumSplits ==
  ASSUME NEW w, NEW S, IsFiniteSet(S), \A r \in S : w[r] \in Nat, NEW T \in SUBSET S
  PROVE  SumOver(w, S) = SumOver(w, T) + SumOver(w, S \ T)
<1> DEFINE Right(t) == SumOver(w, S) = SumOver(w, t) + SumOver(w, S \ t)
           Counts == {n \in Nat : \E t \in SUBSET S : ~Right(t) /\ n = Cardinality(t)}
<1>1. \A t \in SUBSET S : IsFiniteSet(t) /\ Cardinality(t) \in Nat /\ SumOver(w, t) \in Nat
  <2>1. \A t \in SUBSET S : IsFiniteSet(t)
    BY FS_Subset
  <2>2. QED
    BY <2>1, FS_CardinalityType, SumParts
<1>2. Right(T)
  <2>1. SUFFICES ASSUME ~Right(T) PROVE FALSE
    OBVIOUS
  <2>2. Cardinality(T) \in Counts
    <3> HIDE DEF Right
    <3>1. QED
      BY <1>1, <2>1
  <2>3. PICK m \in Counts : \A k \in Counts : m <= k
    <3>1. Counts \in SUBSET Nat /\ Counts # {}
      BY <2>2
    <3> HIDE DEF Counts
    <3>2. QED
      BY <3>1, SmallestOf
  <2>4. PICK t \in SUBSET S : ~Right(t) /\ m = Cardinality(t)
    BY <2>3
  <2>5. t # {}
    <3>1. CASE t = {}
      <4>1. S \ t = S /\ SumOver(w, t) = 0 /\ SumOver(w, S) \in Nat
        BY <1>1, <3>1, SumParts
      <4>2. QED
        BY <2>4, <4>1
    <3>2. QED
      BY <3>1
  <2>6. PICK x \in t : TRUE
    BY <2>5
  <2>7. PICK u : u = t \ {x}
    OBVIOUS
  <2>8. PICK v : v = S \ u
    OBVIOUS
  <2>9. u \in SUBSET S /\ v \in SUBSET S /\ x \in v /\ v \ {x} = S \ t
    BY <2>6, <2>7, <2>8
  <2>10. Cardinality(u) < Cardinality(t)
    BY <1>1, <2>6, <2>7, SmallerSet
  <2>11. Right(u)
    <3>1. ~Right(u) => Cardinality(u) \in Counts
      <4> HIDE DEF Right
      <4>1. QED
        BY <1>1, <2>9
    <3> HIDE DEF Right, Counts
    <3>2. ~Right(u) => m <= Cardinality(u)
      BY <2>3, <3>1
    <3>3. Cardinality(u) \in Nat /\ Cardinality(t) \in Nat
      BY <1>1, <2>9
    <3>4. QED
      BY <2>4, <2>10, <3>2, <3>3
  <2>12. SumOver(w, S) = SumOver(w, u) + SumOver(w, v)
    BY <2>8, <2>11
  <2>13. SumOver(w, t) = w[x] + SumOver(w, u)
    <3>1. IsFiniteSet(t) /\ \A r \in t : w[r] \in Nat
      BY <1>1
    <3>2. QED
      BY <2>6, <2>7, <3>1, SumParts
  <2>14. SumOver(w, v) = w[x] + SumOver(w, S \ t)
    <3>1. IsFiniteSet(v) /\ \A r \in v : w[r] \in Nat
      BY <1>1, <2>9
    <3>2. \A y \in v : SumOver(w, v) = w[y] + SumOver(w, v \ {y})
      BY <3>1, SumParts
    <3>3. SumOver(w, v) = w[x] + SumOver(w, v \ {x})
      BY <2>9, <3>2
    <3> HIDE DEF Right, Counts
    <3>4. QED
      BY <2>9, <3>3
  <2>15. w[x] \in Nat /\ SumOver(w, u) \in Nat /\ SumOver(w, S \ t) \in Nat
    BY <1>1, <2>9
  <2>16. Right(t)
    BY <2>12, <2>13, <2>14, <2>15
  <2>17. QED
    BY <2>4, <2>16
<1>3. QED
  BY <1>2

\* A sum depends on the weights of the set's elements.
LEMMA SumSame ==
  ASSUME NEW w, NEW v, NEW S, IsFiniteSet(S), \A r \in S : w[r] \in Nat /\ v[r] = w[r]
  PROVE  SumOver(v, S) = SumOver(w, S)
<1> DEFINE Right(t) == SumOver(v, t) = SumOver(w, t)
           Counts == {n \in Nat : \E t \in SUBSET S : ~Right(t) /\ n = Cardinality(t)}
<1>1. \A t \in SUBSET S : IsFiniteSet(t) /\ Cardinality(t) \in Nat
  <2>1. \A t \in SUBSET S : IsFiniteSet(t)
    BY FS_Subset
  <2>2. QED
    BY <2>1, FS_CardinalityType
<1>2. Right(S)
  <2>1. SUFFICES ASSUME ~Right(S) PROVE FALSE
    OBVIOUS
  <2>2. Cardinality(S) \in Counts
    <3>1. S \in SUBSET S
      OBVIOUS
    <3> HIDE DEF Right
    <3>2. QED
      BY <1>1, <2>1, <3>1
  <2>3. PICK m \in Counts : \A k \in Counts : m <= k
    <3>1. Counts \in SUBSET Nat /\ Counts # {}
      BY <2>2
    <3> HIDE DEF Counts
    <3>2. QED
      BY <3>1, SmallestOf
  <2>4. PICK t \in SUBSET S : ~Right(t) /\ m = Cardinality(t)
    BY <2>3
  <2>5. /\ IsFiniteSet(t) /\ \A r \in t : w[r] \in Nat /\ v[r] \in Nat /\ v[r] = w[r]
    BY <1>1
  <2>6. t # {}
    <3>1. CASE t = {}
      <4>1. SumOver(v, {}) = 0 /\ SumOver(w, {}) = 0
        BY <2>5, SumParts
      <4>2. QED
        BY <2>4, <3>1, <4>1
    <3>2. QED
      BY <3>1
  <2>7. PICK x \in t : TRUE
    BY <2>6
  <2>8. t \ {x} \in SUBSET S /\ Cardinality(t \ {x}) < Cardinality(t)
    BY <2>5, SmallerSet
  <2>9. Right(t \ {x})
    <3>1. ~Right(t \ {x}) => Cardinality(t \ {x}) \in Counts
      <4> HIDE DEF Right
      <4>1. QED
        BY <1>1, <2>8
    <3> HIDE DEF Right, Counts
    <3>2. ~Right(t \ {x}) => m <= Cardinality(t \ {x})
      BY <2>3, <3>1
    <3>3. Cardinality(t \ {x}) \in Nat /\ Cardinality(t) \in Nat
      BY <1>1, <2>8
    <3>4. QED
      BY <2>4, <2>8, <3>2, <3>3
  <2>10. SumOver(v, t) = v[x] + SumOver(v, t \ {x}) /\ SumOver(w, t) = w[x] + SumOver(w, t \ {x})
    BY <2>5, SumParts
  <2>11. QED
    BY <2>4, <2>5, <2>9, <2>10
<1>3. QED
  BY <1>2

\* A sum of nothing but zeros.
LEMMA SumOfZeros ==
  ASSUME NEW w, NEW S, IsFiniteSet(S), \A r \in S : w[r] = 0
  PROVE  SumOver(w, S) = 0
<1> DEFINE Right(t) == SumOver(w, t) = 0
           Counts == {n \in Nat : \E t \in SUBSET S : ~Right(t) /\ n = Cardinality(t)}
<1>1. \A t \in SUBSET S : IsFiniteSet(t) /\ Cardinality(t) \in Nat
  <2>1. \A t \in SUBSET S : IsFiniteSet(t)
    BY FS_Subset
  <2>2. QED
    BY <2>1, FS_CardinalityType
<1>2. Right(S)
  <2>1. SUFFICES ASSUME ~Right(S) PROVE FALSE
    OBVIOUS
  <2>2. Cardinality(S) \in Counts
    <3>1. S \in SUBSET S
      OBVIOUS
    <3> HIDE DEF Right
    <3>2. QED
      BY <1>1, <2>1, <3>1
  <2>3. PICK m \in Counts : \A k \in Counts : m <= k
    <3>1. Counts \in SUBSET Nat /\ Counts # {}
      BY <2>2
    <3> HIDE DEF Counts
    <3>2. QED
      BY <3>1, SmallestOf
  <2>4. PICK t \in SUBSET S : ~Right(t) /\ m = Cardinality(t)
    BY <2>3
  <2>5. /\ IsFiniteSet(t) /\ \A r \in t : w[r] \in Nat
    BY <1>1
  <2>6. t # {}
    BY <2>4, <2>5, SumParts
  <2>7. PICK x \in t : TRUE
    BY <2>6
  <2>8. t \ {x} \in SUBSET S /\ Cardinality(t \ {x}) < Cardinality(t)
    BY <2>5, SmallerSet
  <2>9. Right(t \ {x})
    <3>1. ~Right(t \ {x}) => Cardinality(t \ {x}) \in Counts
      <4> HIDE DEF Right
      <4>1. QED
        BY <1>1, <2>8
    <3> HIDE DEF Right, Counts
    <3>2. ~Right(t \ {x}) => m <= Cardinality(t \ {x})
      BY <2>3, <3>1
    <3>3. Cardinality(t \ {x}) \in Nat /\ Cardinality(t) \in Nat
      BY <1>1, <2>8
    <3>4. QED
      BY <2>4, <2>8, <3>2, <3>3
  <2>10. SumOver(w, t) = w[x] + SumOver(w, t \ {x})
    BY <2>5, SumParts
  <2>11. QED
    BY <2>4, <2>9, <2>10
<1>3. QED
  BY <1>2

\* What becomes of a sum when, in U, one element gets another weight and the others none.
LEMMA SumAfter ==
  ASSUME NEW S, IsFiniteSet(S), NEW w, NEW v, NEW U \in SUBSET S, NEW r \in U, NEW z \in Nat,
         \A x \in S : w[x] \in Nat,
         v[r] = z, \A x \in U \ {r} : v[x] = 0, \A x \in S \ U : v[x] = w[x]
  PROVE  SumOver(v, S) \in Nat /\ SumOver(v, S) + SumOver(w, U) = SumOver(w, S) + z
<1>1. \A t \in SUBSET S : IsFiniteSet(t)
  BY FS_Subset
<1>2. \A x \in S : v[x] \in Nat
  <2>1. \A x \in S : x = r \/ x \in U \ {r} \/ x \in S \ U
    OBVIOUS
  <2>2. QED
    BY <2>1
<1>3. \A t \in SUBSET S : SumOver(w, t) \in Nat /\ SumOver(v, t) \in Nat
  BY <1>1, <1>2, SumParts
<1>4. SumOver(w, S) = SumOver(w, U) + SumOver(w, S \ U)
  BY SumSplits
<1>5. SumOver(v, S) = SumOver(v, U) + SumOver(v, S \ U)
  BY <1>2, SumSplits
<1>6. SumOver(v, S \ U) = SumOver(w, S \ U)
  BY <1>1, SumSame
<1>7. SumOver(v, U) = z
  <2>1. SumOver(v, U \ {r}) = 0
    BY <1>1, SumOfZeros
  <2>2. SumOver(v, U) = v[r] + SumOver(v, U \ {r})
    BY <1>1, <1>2, SumParts
  <2>3. QED
    BY <2>1, <2>2
<1>8. SumOver(w, U) \in Nat /\ SumOver(w, S \ U) \in Nat /\ SumOver(v, S) \in Nat
  BY <1>3
<1>9. QED
  BY <1>4, <1>5, <1>6, <1>7, <1>8
===============================================================================
