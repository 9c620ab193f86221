------------------------------ MODULE SortedList ------------------------------
(***************************************************************************)
(* The pointer lists of lists.c, as the hook and the service engine of     *)
(* modules.c use them.  A list is a sequence of elements; the function key *)
(* gives what the list's sortFunc compares, a natural number in the order  *)
(* of strcmp (hooks) or of the unsigned hash (services).                   *)
(*                                                                         *)
(* List_GetIndex is a binary search.  Here it is what a binary search of a *)
(* sorted list answers; module ListSearch runs the loop itself and checks  *)
(* that the two agree.  Indexes are those of TLA+ (the code's plus one).   *)
(***************************************************************************)
EXTENDS Naturals, Sequences

\* compareHooks / compareServices order the whole list, without duplicates.
IsSorted(s, key) ==
  \A i, j \in 1..Len(s) : i < j => key[s[i]] < key[s[j]]

\* List_GetIndex returned 1: the value is in the list.
Found(s, key, v) == \E i \in 1..Len(s) : key[s[i]] = v

\* *p_index when List_GetIndex returned 0: where the value would be inserted.
IsInsertionPoint(s, key, v, i) ==
  /\ i \in 1..(Len(s) + 1)
  /\ \A j \in 1..(i - 1)  : key[s[j]] < v
  /\ \A j \in i..Len(s)   : v < key[s[j]]

\* List_IndexOf # -1: the pointer itself is in the list.
Contains(s, e) == \E i \in 1..Len(s) : s[i] = e

\* Mutant of List_Insert: p_index is ignored.
List_InsertLast(s, e, i) == Append(s, e)

List_Insert(s, e, i) ==
  [j \in 1..(Len(s) + 1) |-> IF j < i THEN s[j]
                             ELSE IF j = i THEN e ELSE s[j - 1]]

\* Mutant of List_Remove: the count is not lowered.
List_RemoveCounted(s, i) ==
  [j \in 1..Len(s) |-> IF j < i THEN s[j] ELSE IF j < Len(s) THEN s[j + 1] ELSE 0]

List_Remove(s, i) ==
  [j \in 1..(Len(s) - 1) |-> IF j < i THEN s[j] ELSE s[j + 1]]
===============================================================================
