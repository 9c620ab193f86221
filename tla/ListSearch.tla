------------------------------ MODULE ListSearch ------------------------------
(***************************************************************************)
(* The loop of List_GetIndex (lists.c): the binary search on which every   *)
(* lookup of an event by name and of a service by hash rests.  Items are   *)
(* represented by their keys.  low, high and index are those of the code,  *)
(* so they count from 0; items[mid + 1] is the code's items[i].              *)
(*                                                                         *)
(* The other modules use what this one shows: a search of a sorted list    *)
(* answers Found, and where it does not find, an insertion point.          *)
(***************************************************************************)
EXTENDS Integers, SortedList

CONSTANTS
  MaxLength,  \* bound: length of the list
  MaxKey      \* bound: keys are 0..MaxKey

ASSUME ListSearchAssumption == MaxLength \in Nat /\ MaxKey \in Nat

VARIABLES
  items, value,   \* what is searched, and for what
  low, high,      \* the part still to be searched
  pc,             \* "search", then "done"
  found, index    \* the result, and *p_index

searchVars == <<items, value, low, high, pc, found, index>>

Keys == [k \in 0..MaxKey |-> k]   \* an item is its own key

Middle(l, h) == (l + h) \div 2

mid == Middle(low, high)

SearchInit ==
  /\ \E n \in 0..MaxLength : items \in [1..n -> 0..MaxKey]
  /\ IsSorted(items, Keys)
  /\ value \in 0..MaxKey
  /\ low = 0
  /\ high = Len(items) - 1
  /\ pc = "search"
  /\ found = FALSE
  /\ index = 0     \* whatever the caller's variable holds; not read before "done"

Compare == low <= high

Hit ==
  /\ Compare
  /\ items[mid + 1] = value
  /\ found' = TRUE
  /\ index' = mid
  /\ pc' = "done"
  /\ UNCHANGED <<low, high>>

\* Mutants of GoRight and GoLeft: one item too many is left out, or the item
\* compared is not (which goes on for ever).
SkipRight ==
  /\ Compare
  /\ items[mid + 1] < value
  /\ low' = mid + 2
  /\ UNCHANGED <<high, pc, found, index>>

StayLeft ==
  /\ Compare
  /\ items[mid + 1] > value
  /\ high' = mid
  /\ UNCHANGED <<low, pc, found, index>>

GoRight ==
  /\ Compare
  /\ items[mid + 1] < value
  /\ low' = mid + 1
  /\ UNCHANGED <<high, pc, found, index>>

GoLeft ==
  /\ Compare
  /\ items[mid + 1] > value
  /\ high' = mid - 1
  /\ UNCHANGED <<low, pc, found, index>>

Miss ==
  /\ low > high
  /\ index' = low
  /\ pc' = "done"
  /\ UNCHANGED <<low, high, found>>

SearchNext ==
  /\ pc = "search"
  /\ Hit \/ GoRight \/ GoLeft \/ Miss
  /\ UNCHANGED <<items, value>>

\* The search is a loop of one thread: nothing can stop it.
SearchSpec == SearchInit /\ [][SearchNext]_searchVars /\ WF_searchVars(SearchNext)
-------------------------------------------------------------------------------
SearchTypeOK ==
  /\ items \in Seq(0..MaxKey)
  /\ value \in 0..MaxKey
  /\ low \in 0..Len(items)
  /\ high \in -1..(Len(items) - 1)
  /\ pc \in {"search", "done"}
  /\ found \in BOOLEAN
  /\ index \in 0..Len(items)

\* List_GetIndex answers 1 exactly when the value is in the list, and then
\* *p_index is its place; otherwise *p_index is where to insert the value.
SearchAnswers ==
  pc = "done" =>
    /\ found <=> Found(items, Keys, value)
    /\ found => items[index + 1] = value
    /\ ~found => IsInsertionPoint(items, Keys, value, index + 1)

\* The loop ends.
SearchEnds == <>(pc = "done")
-------------------------------------------------------------------------------
(* The loop invariant: what is left of low is smaller than the value, what   *)
(* is right of high is larger.                                               *)
Narrowed ==
  /\ low <= high + 1
  /\ \A j \in 1..Len(items) :
       /\ j <= low => items[j] < value
       /\ j > high + 1 => value < items[j]

SearchInv ==
  /\ IsSorted(items, Keys)
  /\ pc = "search" => Narrowed /\ ~found
  /\ SearchAnswers
===============================================================================
