------------------------------ MODULE CoreProofs ------------------------------
(***************************************************************************)
(* Theorems about the services, the search in a list and the dispatcher,   *)
(* for every hash function, list, number of plugins, objects and nested    *)
(* requests; and about the hash of a name, for every name.                 *)
(***************************************************************************)
EXTENDS MCCore, ListProofs, SequenceTheorems

-------------------------------------------------------------------------------
(* ListSearch: the binary search of lists.c is right for lists of every      *)
(* length.                                                                   *)

\* The middle of a part that is not empty lies in it.
LEMMA MiddleIsInside ==
  ASSUME NEW l \in Nat, NEW h \in Nat, l <= h
  PROVE  Middle(l, h) \in Nat /\ l <= Middle(l, h) /\ Middle(l, h) <= h
BY DEF Middle

\* While something is left to search, the item compared is in that part.
LEMMA ComparesInside ==
  ASSUME SearchTypeOK, low <= high
  PROVE  /\ mid \in Nat /\ low \in Nat /\ high \in Nat
         /\ low <= mid /\ mid <= high /\ high <= Len(items) - 1
         /\ mid + 1 \in 1..Len(items)
<1>1. Len(items) \in Nat
  BY DEF SearchTypeOK
<1>2. low \in Nat /\ high \in Nat /\ high <= Len(items) - 1
  BY <1>1 DEF SearchTypeOK
<1>3. mid \in Nat /\ low <= mid /\ mid <= high
  BY <1>2, MiddleIsInside DEF mid
<1>4. QED
  BY <1>1, <1>2, <1>3

\* The types are inductive once low never passes high by more than one.
LEMMA SearchTypeStep == SearchTypeOK /\ SearchInv /\ [SearchNext]_searchVars => SearchTypeOK'
<1> SUFFICES ASSUME SearchTypeOK, SearchInv, [SearchNext]_searchVars PROVE SearchTypeOK'
  OBVIOUS
<1>1. Len(items) \in Nat /\ low \in Int /\ high \in Int
  BY DEF SearchTypeOK
<1>2. ASSUME pc = "search", Hit \/ GoRight \/ GoLeft, UNCHANGED <<items, value>>
      PROVE  SearchTypeOK'
  <2>1. low <= high
    BY <1>2 DEF Hit, GoRight, GoLeft, Compare
  <2>2. /\ mid \in Nat /\ low \in Nat /\ high \in Nat
        /\ low <= mid /\ mid <= high /\ high <= Len(items) - 1
    BY <2>1, ComparesInside
  <2>3. CASE Hit
    BY <1>2, <2>1, <2>2, <2>3 DEF Hit, SearchTypeOK
  <2>4. CASE GoRight
    BY <1>1, <1>2, <2>1, <2>2, <2>4 DEF GoRight, SearchTypeOK
  <2>5. CASE GoLeft
    BY <1>1, <1>2, <2>1, <2>2, <2>5 DEF GoLeft, SearchTypeOK
  <2>6. QED
    BY <1>2, <2>3, <2>4, <2>5
<1>3. CASE Miss /\ UNCHANGED <<items, value>>
  BY <1>3 DEF Miss, SearchTypeOK
<1>4. CASE UNCHANGED searchVars
  BY <1>4 DEF searchVars, SearchTypeOK
<1>5. QED
  BY <1>2, <1>3, <1>4 DEF SearchNext

\* Every turn keeps what is left of low smaller and what is right of high
\* larger than the value, because the list is sorted.
LEMMA SearchInductive == SearchTypeOK /\ SearchInv /\ [SearchNext]_searchVars => SearchInv'
<1> SUFFICES ASSUME SearchTypeOK, SearchInv, [SearchNext]_searchVars PROVE SearchInv'
  OBVIOUS
<1>1. /\ Len(items) \in Nat /\ low \in Int /\ high \in Int /\ value \in Int
      /\ \A j \in 1..Len(items) : items[j] \in 0..MaxKey /\ items[j] \in Int
  BY ListSearchAssumption DEF SearchTypeOK
<1>2. \A j, k \in 1..Len(items) : j < k => items[j] < items[k]
  BY <1>1 DEF SearchInv, IsSorted, Keys
<1>3. CASE UNCHANGED searchVars
  BY <1>3 DEF searchVars, SearchInv, Narrowed, SearchAnswers, Found, IsInsertionPoint, IsSorted, Keys
<1>4. ASSUME pc = "search", UNCHANGED <<items, value>>,
             pc' = "search" => Narrowed' /\ ~found', SearchAnswers'
      PROVE  SearchInv'
  BY <1>4 DEF SearchInv, IsSorted, Keys
<1>5. ASSUME pc = "search", Hit \/ GoRight \/ GoLeft, UNCHANGED <<items, value>>
      PROVE  SearchInv'
  <2>1. low <= high
    BY <1>5 DEF Hit, GoRight, GoLeft, Compare
  <2>2. /\ mid \in Nat /\ low \in Nat /\ high \in Nat
        /\ low <= mid /\ mid <= high /\ mid + 1 \in 1..Len(items)
    BY <2>1, ComparesInside
  <2>3. Narrowed /\ ~found
    BY <1>5 DEF SearchInv
  <2>4. CASE Hit
    <3>1. found' = TRUE /\ index' = mid /\ pc' = "done" /\ items[mid + 1] = value
      BY <2>4 DEF Hit
    <3>2. SearchAnswers'
      <4>1. Keys[items[mid + 1]] = value
        BY <1>1, <2>2, <3>1 DEF Keys
      <4>2. Found(items, Keys, value)
        BY <2>2, <4>1 DEF Found
      <4>3. QED
        BY <1>5, <3>1, <4>2 DEF SearchAnswers, Found, Keys
    <3>3. QED
      BY <1>4, <1>5, <3>1, <3>2
  <2>5. CASE GoRight
    <3>1. low' = mid + 1 /\ high' = high /\ pc' = "search" /\ found' = found /\ items[mid + 1] < value
      BY <1>5, <2>5 DEF GoRight
    <3>2. \A j \in 1..Len(items) : j <= mid + 1 => items[j] < value
      BY <1>1, <1>2, <2>2, <3>1
    <3>3. Narrowed'
      BY <1>1, <1>5, <2>1, <2>2, <2>3, <3>1, <3>2 DEF Narrowed
    <3>4. QED
      BY <1>4, <1>5, <2>3, <3>1, <3>3 DEF SearchAnswers
  <2>6. CASE GoLeft
    <3>1. high' = mid - 1 /\ low' = low /\ pc' = "search" /\ found' = found /\ items[mid + 1] > value
      BY <1>5, <2>6 DEF GoLeft
    <3>2. \A j \in 1..Len(items) : j > mid => value < items[j]
      BY <1>1, <1>2, <2>2, <3>1
    <3>3. Narrowed'
      BY <1>1, <1>5, <2>1, <2>2, <2>3, <3>1, <3>2 DEF Narrowed
    <3>4. QED
      BY <1>4, <1>5, <2>3, <3>1, <3>3 DEF SearchAnswers
  <2>7. QED
    BY <1>5, <2>4, <2>5, <2>6
<1>6. ASSUME pc = "search", Miss, UNCHANGED <<items, value>> PROVE SearchInv'
  <2>1. low = high + 1 /\ index' = low /\ pc' = "done" /\ ~found /\ found' = found
    BY <1>1, <1>6 DEF Miss, SearchInv, Narrowed
  <2>2. \A j \in 1..Len(items) :
          (j <= low => Keys[items[j]] < value) /\ (j > low => value < Keys[items[j]])
    BY <1>1, <1>6, <2>1 DEF SearchInv, Narrowed, Keys
  <2>a. \A j \in 1..Len(items) : j \in Int /\ Keys[items[j]] = items[j]
    BY <1>1 DEF Keys
  <2>3. ~Found(items, Keys, value)
    BY <1>1, <2>2, <2>a DEF Found
  <2>4. IsInsertionPoint(items, Keys, value, low + 1)
    BY <1>1, <2>2 DEF IsInsertionPoint, SearchTypeOK
  <2>5. SearchAnswers'
    BY <1>6, <2>1, <2>3, <2>4 DEF SearchAnswers, Found, IsInsertionPoint, Keys
  <2>6. QED
    BY <1>4, <1>6, <2>1, <2>5
<1>7. QED
  BY <1>3, <1>5, <1>6 DEF SearchNext

LEMMA SearchInvariant == SearchSpec => [](SearchTypeOK /\ SearchInv)
<1>1. SearchInit => SearchTypeOK /\ SearchInv
  <2>1. SUFFICES ASSUME SearchInit PROVE SearchTypeOK /\ SearchInv
    OBVIOUS
  <2>2. PICK n \in 0..MaxLength : items \in [1..n -> 0..MaxKey]
    BY <2>1 DEF SearchInit
  <2>3. items \in Seq(0..MaxKey) /\ Len(items) = n /\ n \in Nat
    BY <2>2, ListSearchAssumption
  <2>4. SearchTypeOK
    <3>1. low \in 0..Len(items) /\ high \in -1..(Len(items) - 1) /\ index \in 0..Len(items)
      BY <2>1, <2>3 DEF SearchInit
    <3>2. QED
      BY <2>1, <2>3, <3>1 DEF SearchInit, SearchTypeOK
  <2>5. QED
    BY <2>1, <2>3, <2>4 DEF SearchInit, SearchInv, Narrowed, SearchAnswers
<1>2. QED
  BY <1>1, SearchTypeStep, SearchInductive, PTL DEF SearchSpec

\* low and high stay where what lies between them is in the list, so sortFunc
\* is never called on an item beyond it (ComparesInside).
THEOREM SearchTypeCorrect == SearchSpec => []SearchTypeOK
BY SearchInvariant, PTL

\* Each turn of the loop of List_GetIndex that does not end it leaves at most half
\* of what was left to search, so the search ends, after a number of turns that
\* is logarithmic in the count of the list.
THEOREM SearchHalves ==
  SearchSpec =>
    [][pc' = "search" => 2 * (high' - low' + 1) <= high - low + 1]_searchVars
<1> DEFINE Halves == pc' = "search" => 2 * (high' - low' + 1) <= high - low + 1
<1>1. ASSUME SearchTypeOK, [SearchNext]_searchVars PROVE [Halves]_searchVars
  <2> SUFFICES ASSUME SearchNext, pc' = "search"
               PROVE  2 * (high' - low' + 1) <= high - low + 1
    BY <1>1
  <2>1. GoRight \/ GoLeft
    BY DEF SearchNext, Hit, Miss
  <2>2. low \in Nat /\ high \in Nat /\ low <= high
    BY <1>1, <2>1, ComparesInside DEF GoRight, GoLeft, Compare
  <2>3. mid \in Nat /\ 2 * mid <= low + high /\ low + high <= 2 * mid + 1
    BY <2>2 DEF mid, Middle
  <2>4. (low' = mid + 1 /\ high' = high) \/ (high' = mid - 1 /\ low' = low)
    BY <2>1 DEF GoRight, GoLeft
  <2>5. QED
    BY <2>2, <2>3, <2>4
<1>2. QED
  BY <1>1, SearchTypeCorrect, PTL DEF SearchSpec

\* List_GetIndex finds a value of a sorted list if it is there and answers with
\* its place, and else with the place where inserting it keeps the list sorted.
\* HookEngine and Services use exactly this of it.
THEOREM SearchIsRight == SearchSpec => []SearchAnswers
<1>1. SearchInv => SearchAnswers
  BY DEF SearchInv
<1>2. QED
  BY <1>1, SearchInvariant, PTL

-------------------------------------------------------------------------------
(* Services.                                                                 *)

LEMMA ServicesTypeStep == TypeOK /\ [Next]_vars => TypeOK'
<1> SUFFICES ASSUME TypeOK, [Next]_vars PROVE TypeOK'
  OBVIOUS
<1>1. ASSUME NEW n \in Name, CreateServiceFunction(n) PROVE TypeOK'
  <2>1. PICK i \in 1..(Len(services) + 1) : NewService(n, i)
    BY <1>1 DEF CreateServiceFunction
  <2>2. nextTicket \in Ticket /\ nextTicket + 1 \in 1..(MaxTicket + 1) /\ NameHash[n] \in Nat
    BY <1>1, ServicesAssumption DEF CreateServiceFunction, TypeOK, Ticket
  <2>3. services' \in Seq(Ticket)
    BY <2>1, <2>2, InsertType DEF NewService, TypeOK
  <2>4. /\ name' \in [Ticket -> Name \cup {<<>>}]
        /\ nameHash' \in [Ticket -> Nat]
        /\ held' \subseteq [h : Nat, ticket : Ticket]
        /\ nextTicket' \in 1..(MaxTicket + 1)
    BY <2>1, <2>2 DEF NewService, TypeOK
  <2>5. QED
    BY <2>1, <2>3, <2>4 DEF NewService, TypeOK
<1>2. ASSUME NEW n \in Name, CallService(n) PROVE TypeOK'
  <2>1. \A i \in 1..Len(services) : services[i] \in Ticket
    BY DEF TypeOK
  <2>2. PICK t \in Ticket \cup {NOTFOUND} : called' = [name |-> n, service |-> t]
    BY <1>2, <2>1 DEF CallService
  <2>3. called' \in [name : Name, service : Ticket \cup {NOTFOUND}]
    BY <2>2
  <2>4. QED
    BY <1>2, <2>3 DEF CallService, TypeOK
<1>3. ASSUME NEW u \in Usable, DestroyServiceFunction(u) PROVE TypeOK'
  <2>1. u \in [h : Nat, ticket : Ticket]
    BY DEF Usable, TypeOK
  <2>2. /\ services' \in Seq(Ticket)
        /\ destroyed' \in [h : Nat, service : Ticket \cup {NOTFOUND}, result : {0, 1}]
    <3>1. ASSUME NEW i \in 1..Len(services),
                 services' = List_Remove(services, i),
                 destroyed' = [h |-> u.h, service |-> services[i], result |-> 0]
          PROVE  /\ services' \in Seq(Ticket)
                 /\ destroyed' \in [h : Nat, service : Ticket \cup {NOTFOUND}, result : {0, 1}]
      <4>1. services \in Seq(Ticket) /\ services[i] \in Ticket
        BY DEF TypeOK
      <4>2. QED
        BY <2>1, <3>1, <4>1, RemoveType
    <3>2. CASE UNCHANGED services /\ destroyed' = [h |-> u.h, service |-> NOTFOUND, result |-> 0]
      BY <2>1, <3>2 DEF TypeOK
    <3>3. QED
      BY <1>3, <3>1, <3>2 DEF DestroyServiceFunction
  <2>3. QED
    BY <1>3, <2>1, <2>2 DEF DestroyServiceFunction, TypeOK
<1>4. CASE UNCHANGED vars
  BY <1>4 DEF vars, TypeOK
<1>5. QED
  BY <1>1, <1>2, <1>3, <1>4 DEF Next

\* The variables of the services always have their types.
THEOREM ServicesTypeCorrect == Spec => []TypeOK
<1>1. Init => TypeOK
  BY ServicesAssumption DEF Init, TypeOK, NOTFOUND
<1>2. QED
  BY <1>1, ServicesTypeStep, PTL DEF Spec

-------------------------------------------------------------------------------
\* A ticket is not in the list before its service is created.
ListFresh == \A i \in 1..Len(services) : services[i] < nextTicket

\* Handles that are held are of tickets that were issued, one each.
HeldOnce ==
  /\ \A u \in held : u.ticket < nextTicket
  /\ \A u, v \in held : u.ticket = v.ticket => u = v

\* The invariant: what the list and the handles have to do with each other.
ServicesInv ==
  /\ ServicesSorted
  /\ ListFresh
  /\ HeldOnce
  /\ ~ReuseHandles => ServiceStaysUntilDestroyed

LEMMA CreateKeepsServicesInv ==
  ASSUME TypeOK, ServicesInv, NEW n \in Name, CreateServiceFunction(n)
  PROVE  ServicesInv'
<1>1. PICK i \in 1..(Len(services) + 1) :
        IsInsertionPoint(services, nameHash, NameHash[n], i) /\ NewService(n, i)
  BY DEF CreateServiceFunction
<1> DEFINE new == [h |-> NameHash[n], ticket |-> nextTicket]
<1>a. /\ nextTicket \in Ticket /\ nextTicket \in Nat /\ NameHash[n] \in Nat
      /\ services \in Seq(Ticket) /\ Len(services) \in Nat
  BY ServicesAssumption DEF CreateServiceFunction, TypeOK, Ticket
<1>b. \A j \in 1..Len(services) : services[j] \in Ticket /\ services[j] \in Nat
  <2>1. \A j \in 1..Len(services) : services[j] \in Ticket
    BY <1>a
  <2>2. \A t \in Ticket : t \in Nat
    BY DEF Ticket
  <2>3. QED
    BY <2>1, <2>2
<1>2. /\ nextTicket \in Ticket /\ nextTicket \in Nat /\ NameHash[n] \in Nat
      /\ services \in Seq(Ticket) /\ Len(services) \in Nat
      /\ \A j \in 1..Len(services) :
           services[j] \in Ticket /\ services[j] \in Nat /\ services[j] # nextTicket
  BY <1>a, <1>b DEF ServicesInv, ListFresh
<1>3. /\ services' = List_Insert(services, nextTicket, i)
      /\ nameHash' = [nameHash EXCEPT ![nextTicket] = NameHash[n]]
      /\ held' = held \cup {new}
      /\ nextTicket' = nextTicket + 1
  BY <1>1 DEF NewService
<1>4. /\ nameHash'[nextTicket] = NameHash[n]
      /\ \A t \in Ticket : t # nextTicket => nameHash'[t] = nameHash[t]
      /\ \A t \in Ticket : nameHash'[t] \in Nat
  BY <1>2, <1>3, ServicesTypeStep DEF TypeOK
<1>5. /\ Len(services') = Len(services) + 1
      /\ \A j \in 1..(Len(services) + 1) :
           services'[j] = IF j < i THEN services[j]
                          ELSE IF j = i THEN nextTicket ELSE services[j - 1]
  BY <1>2, <1>3, InsertType, SMTT(30)
<1>6. ServicesSorted'
  <2>1. IsSorted(services, nameHash')
    BY <1>2, <1>4 DEF ServicesInv, ServicesSorted, IsSorted
  <2>2. IsInsertionPoint(services, nameHash', nameHash'[nextTicket], i)
    <3>1. \A j \in 1..Len(services) : nameHash'[services[j]] = nameHash[services[j]]
      BY <1>2, <1>4
    <3>2. i \in 1..(Len(services) + 1)
      OBVIOUS
    <3>3. \A j \in 1..(i - 1) : j \in 1..Len(services)
      BY <1>2, <3>2
    <3>4. \A j \in i..Len(services) : j \in 1..Len(services)
      BY <1>2, <3>2
    <3>5. QED
      BY <1>1, <1>4, <3>1, <3>2, <3>3, <3>4 DEF IsInsertionPoint
  <2>3. IsSorted(List_Insert(services, nextTicket, i), nameHash')
    BY <1>2, <1>4, <2>1, <2>2, InsertKeepsSorted
  <2>4. QED
    BY <1>3, <2>3 DEF ServicesSorted
<1>7. ListFresh'
  <2>1. SUFFICES ASSUME NEW j \in 1..(Len(services) + 1) PROVE services'[j] < nextTicket + 1
    BY <1>3, <1>5 DEF ListFresh
  <2>2. CASE j < i
    BY <1>2, <1>5, <2>2 DEF ServicesInv, ListFresh
  <2>3. CASE j = i
    BY <1>2, <1>5, <2>3
  <2>4. CASE j > i
    <3>1. j - 1 \in 1..Len(services) /\ services'[j] = services[j - 1]
      BY <1>2, <1>5, <2>4
    <3>2. QED
      BY <1>2, <3>1 DEF ServicesInv, ListFresh
  <2>5. QED
    BY <2>2, <2>3, <2>4
<1>8. HeldOnce'
  <2>1. \A u \in held : u.ticket \in Nat /\ u.ticket < nextTicket
    BY DEF ServicesInv, HeldOnce, TypeOK, Ticket
  <2>2. \A u, v \in held : u.ticket = v.ticket => u = v
    BY DEF ServicesInv, HeldOnce
  <2>3. QED
    BY <1>2, <1>3, <2>1, <2>2 DEF HeldOnce
<1>9. ASSUME NEW j \in 1..Len(services) PROVE \E k \in 1..Len(services') : services'[k] = services[j]
  <2>1. CASE j < i
    BY <1>2, <1>5, <2>1
  <2>2. CASE j >= i
    <3>1. j + 1 \in 1..Len(services') /\ services'[j + 1] = services[(j + 1) - 1] /\ (j + 1) - 1 = j
      BY <1>2, <1>5, <2>2
    <3>2. QED
      BY <3>1
  <2>3. QED
    BY <1>2, <2>1, <2>2
<1>10. ASSUME ~ReuseHandles PROVE ServiceStaysUntilDestroyed'
  <2>1. SUFFICES ASSUME NEW u \in held'
                 PROVE  \E k \in 1..Len(services') :
                          services'[k] = u.ticket /\ nameHash'[u.ticket] = u.h
    BY DEF ServiceStaysUntilDestroyed
  <2>2. CASE u = new
    <3>1. i \in 1..Len(services') /\ services'[i] = nextTicket
      BY <1>2, <1>5
    <3>2. QED
      BY <1>4, <2>2, <3>1
  <2>3. CASE u \in held
    <3>1. PICK j \in 1..Len(services) : services[j] = u.ticket /\ nameHash[u.ticket] = u.h
      BY <1>10, <2>3 DEF ServicesInv, ServiceStaysUntilDestroyed
    <3>2. nameHash'[u.ticket] = u.h
      BY <1>2, <1>4, <3>1
    <3>3. QED
      BY <1>9, <3>1, <3>2
  <2>4. QED
    BY <1>3, <2>1, <2>2, <2>3
<1>11. QED
  BY <1>6, <1>7, <1>8, <1>10 DEF ServicesInv

LEMMA DestroyKeepsServicesInv ==
  ASSUME TypeOK, ServicesInv, NEW u \in Usable, DestroyServiceFunction(u)
  PROVE  ServicesInv'
<1>1. /\ UNCHANGED <<nameHash, nextTicket>> /\ held' = held \ {u}
      /\ services \in Seq(Ticket) /\ Len(services) \in Nat
      /\ nameHash \in [Ticket -> Nat]
  BY DEF DestroyServiceFunction, TypeOK
<1>2. HeldOnce'
  BY <1>1 DEF ServicesInv, HeldOnce
<1>3. CASE UNCHANGED services
  BY <1>1, <1>2, <1>3
     DEF ServicesInv, ServicesSorted, IsSorted, ListFresh, ServiceStaysUntilDestroyed
<1>4. ASSUME NEW i \in 1..Len(services), ServiceAt(u.h, i), services' = List_Remove(services, i)
      PROVE  ServicesInv'
  <2>1. /\ Len(services') = Len(services) - 1
        /\ \A j \in 1..(Len(services) - 1) :
             services'[j] = IF j < i THEN services[j] ELSE services[j + 1]
    BY <1>1, <1>4, RemoveType
  <2>2. ServicesSorted'
    <3>1. IsSorted(services, nameHash)
      BY DEF ServicesInv, ServicesSorted
    <3>2. IsSorted(List_Remove(services, i), nameHash)
      BY <1>1, <1>4, <3>1, RemoveKeepsSorted
    <3>3. QED
      BY <1>1, <1>4, <3>2 DEF ServicesSorted
  <2>3. ListFresh'
    <3>1. SUFFICES ASSUME NEW j \in 1..(Len(services) - 1) PROVE services'[j] < nextTicket
      BY <1>1, <2>1 DEF ListFresh
    <3>2. j \in 1..Len(services) /\ j + 1 \in 1..Len(services)
      BY <1>1
    <3>3. QED
      BY <2>1, <3>2 DEF ServicesInv, ListFresh
  <2>4. ASSUME ~ReuseHandles PROVE ServiceStaysUntilDestroyed'
    <3>1. SUFFICES ASSUME NEW v \in held, v # u
                   PROVE  \E k \in 1..Len(services') :
                            services'[k] = v.ticket /\ nameHash[v.ticket] = v.h
      BY <1>1 DEF ServiceStaysUntilDestroyed
    <3>2. u \in held
      BY <2>4 DEF Usable
    <3>3. PICK ju \in 1..Len(services) : services[ju] = u.ticket /\ nameHash[u.ticket] = u.h
      BY <2>4, <3>2 DEF ServicesInv, ServiceStaysUntilDestroyed
    <3>4. PICK jv \in 1..Len(services) : services[jv] = v.ticket /\ nameHash[v.ticket] = v.h
      BY <2>4, <3>1 DEF ServicesInv, ServiceStaysUntilDestroyed
    <3>5. \A a, b \in 1..Len(services) :
            nameHash[services[a]] \in Nat /\ (a < b => nameHash[services[a]] < nameHash[services[b]])
      BY <1>1 DEF ServicesInv, ServicesSorted, IsSorted
    <3>6. ju = i
      BY <1>4, <3>3, <3>5 DEF ServiceAt
    <3>7. jv # i
      BY <3>1, <3>2, <3>3, <3>4, <3>6 DEF ServicesInv, HeldOnce
    <3>8. CASE jv < i
      <4>1. jv \in 1..Len(services') /\ services'[jv] = services[jv]
        BY <1>1, <2>1, <3>8
      <4>2. QED
        BY <3>4, <4>1
    <3>9. CASE jv > i
      <4>1. /\ jv - 1 \in 1..(Len(services) - 1) /\ jv - 1 \in 1..Len(services')
            /\ ~(jv - 1 < i) /\ (jv - 1) + 1 = jv
        BY <1>1, <2>1, <3>9
      <4>2. services'[jv - 1] = services[jv]
        BY <2>1, <4>1
      <4>3. QED
        BY <3>4, <4>1, <4>2
    <3>10. QED
      BY <1>1, <3>7, <3>8, <3>9
  <2>5. QED
    BY <1>2, <2>2, <2>3, <2>4 DEF ServicesInv
<1>5. QED
  BY <1>3, <1>4 DEF DestroyServiceFunction

LEMMA ServicesInvariant == Spec => []ServicesInv
<1>1. Init => ServicesInv
  BY DEF Init, ServicesInv, ServicesSorted, IsSorted, ListFresh, HeldOnce,
         ServiceStaysUntilDestroyed
<1>2. TypeOK /\ ServicesInv /\ [Next]_vars => ServicesInv'
  <2> SUFFICES ASSUME TypeOK, ServicesInv, [Next]_vars PROVE ServicesInv'
    OBVIOUS
  <2>1. ASSUME UNCHANGED <<services, nameHash, nextTicket, held>> PROVE ServicesInv'
    BY <2>1 DEF ServicesInv, ServicesSorted, IsSorted, ListFresh, HeldOnce,
                ServiceStaysUntilDestroyed
  <2>2. CASE \E n \in Name : CreateServiceFunction(n)
    BY <2>2, CreateKeepsServicesInv
  <2>3. CASE \E n \in Name : CallService(n)
    BY <2>1, <2>3 DEF CallService
  <2>4. CASE \E u \in Usable : DestroyServiceFunction(u)
    BY <2>4, DestroyKeepsServicesInv
  <2>5. CASE UNCHANGED vars
    BY <2>1, <2>5 DEF vars
  <2>6. QED
    BY <2>2, <2>3, <2>4, <2>5 DEF Next
<1>3. QED
  BY <1>1, <1>2, ServicesTypeCorrect, PTL DEF Spec

\* Whatever is created and destroyed, the list stays strictly sorted by hash:
\* a hash is in it at most once, and every search finds it (SearchIsRight).
THEOREM ServiceListStaysSorted == Spec => []ServicesSorted
<1>1. ServicesInv => ServicesSorted
  BY DEF ServicesInv
<1>2. QED
  BY <1>1, ServicesInvariant, PTL

\* As long as no plugin destroys twice with one handle, a service is found
\* under its hash until its own creator destroys it, collisions of hashes or
\* not: a second service of that hash is refused, so no other handle is equal.
THEOREM ServiceStays == ASSUME ~ReuseHandles PROVE Spec => []ServiceStaysUntilDestroyed
<1>1. ServicesInv => ServiceStaysUntilDestroyed
  BY DEF ServicesInv
<1>2. QED
  BY <1>1, ServicesInvariant, PTL

-------------------------------------------------------------------------------
(* Services implement ServiceTable if no two names have one hash: the list   *)
(* is searched by hash, the table by name.                                   *)
HashesDiffer == \A m, n \in Name : NameHash[m] = NameHash[n] => m = n

\* A service in the list is sorted by the hash of its name.
NamesHashed ==
  \A t \in Ticket : Contains(services, t) =>
    name[t] \in Name /\ nameHash[t] = NameHash[name[t]] /\ t < nextTicket

\* A ticket is in the list once.
LEMMA ListedOnce ==
  ASSUME TypeOK, ServicesInv, NEW i \in 1..Len(services), NEW j \in 1..Len(services),
         nameHash[services[i]] = nameHash[services[j]]
  PROVE  i = j
<1>1. nameHash[services[i]] \in Nat /\ nameHash[services[j]] \in Nat
  BY DEF TypeOK
<1>2. i < j => nameHash[services[i]] < nameHash[services[j]]
  BY DEF ServicesInv, ServicesSorted, IsSorted
<1>3. j < i => nameHash[services[j]] < nameHash[services[i]]
  BY DEF ServicesInv, ServicesSorted, IsSorted
<1>4. i \in Int /\ j \in Int
  BY DEF TypeOK
<1>5. QED
  BY <1>1, <1>2, <1>3, <1>4

\* What creating and destroying do to the contents of the list.
LEMMA CreateListed ==
  ASSUME TypeOK, ServicesInv, NEW n \in Name, CreateServiceFunction(n)
  PROVE  /\ nextTicket \in Ticket /\ ~Contains(services, nextTicket)
         /\ \A t : Contains(services', t) <=> t = nextTicket \/ Contains(services, t)
         /\ name'[nextTicket] = n /\ nameHash'[nextTicket] = NameHash[n]
         /\ \A t \in Ticket : t # nextTicket => name'[t] = name[t] /\ nameHash'[t] = nameHash[t]
         /\ nextTicket' = nextTicket + 1 /\ nextTicket \in Nat /\ UNCHANGED called
<1>1. PICK i \in 1..(Len(services) + 1) : NewService(n, i)
  BY DEF CreateServiceFunction
<1>2. nextTicket \in Ticket /\ services \in Seq(Ticket) /\ nextTicket \in Nat
  BY ServicesAssumption DEF CreateServiceFunction, TypeOK, Ticket
<1>3. \A t : Contains(services', t) <=> t = nextTicket \/ Contains(services, t)
  <2>1. services' = List_Insert(services, nextTicket, i)
    BY <1>1 DEF NewService
  <2>2. QED
    BY <1>2, <2>1, InsertMembers
<1>4. ~Contains(services, nextTicket)
  BY <1>2 DEF ServicesInv, ListFresh, Contains
<1>5. /\ name'[nextTicket] = n /\ nameHash'[nextTicket] = NameHash[n]
      /\ \A t \in Ticket : t # nextTicket => name'[t] = name[t] /\ nameHash'[t] = nameHash[t]
      /\ nextTicket' = nextTicket + 1 /\ UNCHANGED called
  BY <1>1, <1>2 DEF NewService, TypeOK
<1>6. QED
  BY <1>2, <1>3, <1>4, <1>5

LEMMA DestroyListed ==
  ASSUME TypeOK, ServicesInv, NEW u \in Usable, DestroyServiceFunction(u)
  PROVE  /\ UNCHANGED <<name, nameHash, nextTicket, called>>
         /\ \/ UNCHANGED services
            \/ \E s \in Ticket : /\ Contains(services, s)
                                 /\ \A t : Contains(services', t) <=> t # s /\ Contains(services, t)
<1>1. UNCHANGED <<name, nameHash, nextTicket, called>> /\ services \in Seq(Ticket)
  BY DEF DestroyServiceFunction, TypeOK
<1>2. ASSUME NEW i \in 1..Len(services), services' = List_Remove(services, i)
      PROVE  \E s \in Ticket : /\ Contains(services, s)
                               /\ \A t : Contains(services', t) <=> t # s /\ Contains(services, t)
  <2>1. \A j \in 1..Len(services) : services[j] = services[i] => j = i
    BY ListedOnce
  <2>2. \A t : Contains(List_Remove(services, i), t) <=> t # services[i] /\ Contains(services, t)
    BY <1>1, <2>1, RemoveMembers
  <2>3. services[i] \in Ticket /\ Contains(services, services[i])
    BY <1>1 DEF Contains
  <2>4. QED
    BY <1>2, <2>2, <2>3
<1>3. QED
  BY <1>1, <1>2 DEF DestroyServiceFunction

LEMMA NamesHashedInvariant == Spec => []NamesHashed
<1>1. Init => NamesHashed
  BY DEF Init, NamesHashed, Contains
<1>2. TypeOK /\ ServicesInv /\ NamesHashed /\ [Next]_vars => NamesHashed'
  <2> SUFFICES ASSUME TypeOK, ServicesInv, NamesHashed, [Next]_vars PROVE NamesHashed'
    OBVIOUS
  <2>1. ASSUME UNCHANGED <<services, name, nameHash, nextTicket>> PROVE NamesHashed'
    BY <2>1 DEF NamesHashed, Contains
  <2>2. ASSUME NEW n \in Name, CreateServiceFunction(n) PROVE NamesHashed'
    <3>1. \A t \in Ticket : t \in Nat
      BY DEF Ticket
    <3>2. QED
      BY <2>2, <3>1, CreateListed DEF NamesHashed
  <2>3. ASSUME NEW n \in Name, CallService(n) PROVE NamesHashed'
    BY <2>1, <2>3 DEF CallService
  <2>4. ASSUME NEW u \in Usable, DestroyServiceFunction(u) PROVE NamesHashed'
    <3>1. CASE UNCHANGED services
      BY <2>1, <2>4, <3>1, DestroyListed
    <3>2. CASE ~UNCHANGED services
      BY <2>4, <3>2, DestroyListed DEF NamesHashed
    <3>3. QED
      BY <3>1, <3>2
  <2>5. CASE UNCHANGED vars
    BY <2>1, <2>5 DEF vars
  <2>6. QED
    BY <2>2, <2>3, <2>4, <2>5 DEF Next
<1>3. QED
  BY <1>1, <1>2, ServicesTypeCorrect, ServicesInvariant, PTL DEF Spec

\* With different hashes, the service of a name is the one with its hash.
LEMMA NamedOnce ==
  ASSUME TypeOK, ServicesInv, NamesHashed, NEW n \in Name,
         NEW s \in ServicesNamed(n), NEW t \in ServicesNamed(n)
  PROVE  s = t
<1>1. PICK i \in 1..Len(services) : services[i] = s
  BY DEF ServicesNamed, Contains
<1>2. PICK j \in 1..Len(services) : services[j] = t
  BY DEF ServicesNamed, Contains
<1>3. nameHash[s] = NameHash[n] /\ nameHash[t] = NameHash[n]
  BY DEF ServicesNamed, NamesHashed
<1>4. i = j
  BY <1>1, <1>2, <1>3, ListedOnce
<1>5. QED
  BY <1>1, <1>2, <1>4

LEMMA EntryOfName ==
  ASSUME TypeOK, ServicesInv, NamesHashed, NEW n \in Name
  PROVE  /\ TableOfNames[n] = NOTFOUND <=> ServicesNamed(n) = {}
         /\ \A t \in Ticket : TableOfNames[n] = t <=> t \in ServicesNamed(n)
<1>1. \A t \in Ticket : t # NOTFOUND
  BY DEF Ticket, NOTFOUND
<1>2. ServicesNamed(n) \subseteq Ticket
  BY DEF ServicesNamed
<1>3. \A s, t \in ServicesNamed(n) : s = t
  BY NamedOnce
<1>4. TableOfNames[n] = IF ServicesNamed(n) = {} THEN NOTFOUND
                        ELSE CHOOSE t \in ServicesNamed(n) : TRUE
  BY DEF TableOfNames
<1>5. ServicesNamed(n) # {} => (CHOOSE t \in ServicesNamed(n) : TRUE) \in ServicesNamed(n)
  OBVIOUS
<1>6. QED
  BY <1>1, <1>2, <1>3, <1>4, <1>5

LEMMA TableKept ==
  ASSUME UNCHANGED <<services, name>>
  PROVE  UNCHANGED TableOfNames
<1> DEFINE of(S) == IF S = {} THEN NOTFOUND ELSE CHOOSE t \in S : TRUE
<1>1. \A n \in Name : ServicesNamed(n)' = ServicesNamed(n)
  BY DEF ServicesNamed, Contains
<1>2. TableOfNames = [n \in Name |-> of(ServicesNamed(n))]
  BY DEF TableOfNames
<1>3. TableOfNames' = [n \in Name |-> of(ServicesNamed(n)')]
  BY DEF TableOfNames
<1> HIDE DEF of
<1>4. QED
  BY <1>1, <1>2, <1>3

\* The table after a step that leaves all but one name as it is.
LEMMA TableChanged ==
  ASSUME NEW n \in Name, NEW v,
         \A m \in Name : m # n => ServicesNamed(m)' = ServicesNamed(m),
         TableOfNames'[n] = v
  PROVE  TableOfNames' = [TableOfNames EXCEPT ![n] = v]
<1> DEFINE of(S) == IF S = {} THEN NOTFOUND ELSE CHOOSE t \in S : TRUE
<1>1. TableOfNames = [m \in Name |-> of(ServicesNamed(m))]
  BY DEF TableOfNames
<1>2. TableOfNames' = [m \in Name |-> of(ServicesNamed(m)')]
  BY DEF TableOfNames
<1> HIDE DEF of
<1>3. \A m \in Name : m # n => TableOfNames'[m] = TableOfNames[m]
  BY <1>1, <1>2
<1>4. QED
  BY <1>1, <1>2, <1>3

LEMMA CreateIsTableCreate ==
  ASSUME TypeOK, ServicesInv, NamesHashed, NEW n \in Name, CreateServiceFunction(n)
  PROVE  Table!Create(n, nextTicket) /\ nextTicket \in Ticket
<1>1. /\ nextTicket \in Ticket /\ ~Contains(services, nextTicket)
      /\ \A t : Contains(services', t) <=> t = nextTicket \/ Contains(services, t)
      /\ name'[nextTicket] = n
      /\ \A t \in Ticket : t # nextTicket => name'[t] = name[t]
      /\ UNCHANGED called
  BY CreateListed
<1>2. ServicesNamed(n) = {}
  <2>1. SUFFICES ASSUME NEW t \in ServicesNamed(n) PROVE FALSE
    OBVIOUS
  <2>2. nameHash[t] = NameHash[n] /\ Contains(services, t)
    BY DEF ServicesNamed, NamesHashed
  <2>3. QED
    BY <2>2 DEF CreateServiceFunction, Found, Contains
<1>3. \A m \in Name : TableOfNames[m] # nextTicket
  BY <1>1, EntryOfName DEF ServicesNamed
<1>4. ServicesNamed(n)' = {nextTicket}
  <2>1. \A t \in Ticket : t \in ServicesNamed(n)' <=> t = nextTicket
    BY <1>1, <1>2 DEF ServicesNamed
  <2>2. QED
    BY <1>1, <2>1 DEF ServicesNamed
<1>5. TableOfNames'[n] = nextTicket
  BY <1>4 DEF TableOfNames
<1>6. \A m \in Name : m # n => ServicesNamed(m)' = ServicesNamed(m)
  <2>1. SUFFICES ASSUME NEW m \in Name, m # n, NEW t \in Ticket
                 PROVE  t \in ServicesNamed(m)' <=> t \in ServicesNamed(m)
    BY DEF ServicesNamed
  <2>2. QED
    BY <1>1, <2>1 DEF ServicesNamed
<1>7. TableOfNames' = [TableOfNames EXCEPT ![n] = nextTicket]
  BY <1>5, <1>6, TableChanged
<1>8. QED
  BY <1>1, <1>2, <1>3, <1>7, EntryOfName DEF Table!Create

LEMMA DestroyIsTableDestroy ==
  ASSUME TypeOK, ServicesInv, NamesHashed, NEW u \in Usable, DestroyServiceFunction(u)
  PROVE  UNCHANGED Table!tableVars \/ \E n \in Name : Table!Destroy(n)
<1>1. CASE UNCHANGED services
  BY <1>1, DestroyListed, TableKept DEF Table!tableVars
<1>2. CASE ~UNCHANGED services
  <2>1. PICK s \in Ticket : /\ Contains(services, s)
                            /\ \A t : Contains(services', t) <=> t # s /\ Contains(services, t)
    BY <1>2, DestroyListed
  <2>2. UNCHANGED <<name, called>>
    BY DestroyListed
  <2>3. PICK n \in Name : name[s] = n
    BY <2>1 DEF NamesHashed
  <2>4. s \in ServicesNamed(n)
    BY <2>1, <2>3 DEF ServicesNamed
  <2>5. ServicesNamed(n)' = {}
    BY <2>1, <2>2, <2>4, NamedOnce DEF ServicesNamed
  <2>6. TableOfNames'[n] = NOTFOUND
    BY <2>5 DEF TableOfNames
  <2>7. \A m \in Name : m # n => ServicesNamed(m)' = ServicesNamed(m)
    BY <2>1, <2>2, <2>3 DEF ServicesNamed
  <2>8. TableOfNames' = [TableOfNames EXCEPT ![n] = NOTFOUND]
    BY <2>6, <2>7, TableChanged
  <2>9. Table!Destroy(n)
    BY <2>2, <2>4, <2>8, EntryOfName DEF Table!Destroy
  <2>10. QED
    BY <2>9
<1>3. QED
  BY <1>1, <1>2

LEMMA CallIsTableCall ==
  ASSUME TypeOK, ServicesInv, NamesHashed, HashesDiffer, NEW n \in Name, CallService(n)
  PROVE  Table!Call(n)
<1>1. UNCHANGED TableOfNames
  BY TableKept DEF CallService
<1>2. \A t \in Ticket : Contains(services, t) /\ nameHash[t] = NameHash[n] => t \in ServicesNamed(n)
  BY DEF ServicesNamed, NamesHashed, HashesDiffer
<1>3. ASSUME NEW i \in 1..Len(services), ServiceAt(NameHash[n], i)
      PROVE  TableOfNames[n] = services[i]
  <2>1. PICK t \in Ticket : t = services[i]
    BY DEF TypeOK
  <2>2. Contains(services, t) /\ nameHash[t] = NameHash[n]
    BY <1>3, <2>1 DEF ServiceAt, Contains
  <2>3. QED
    BY <1>2, <2>1, <2>2, EntryOfName
<1>4. ASSUME NoService(NameHash[n]) PROVE TableOfNames[n] = NOTFOUND
  <2>1. ServicesNamed(n) = {}
    <3>1. SUFFICES ASSUME NEW t \in ServicesNamed(n) PROVE FALSE
      OBVIOUS
    <3>2. nameHash[t] = NameHash[n] /\ Contains(services, t)
      BY DEF ServicesNamed, NamesHashed
    <3>3. QED
      BY <1>4, <3>2 DEF NoService, ServiceAt, Contains
  <2>2. QED
    BY <2>1, EntryOfName
<1>5. called' = [name |-> n, service |-> TableOfNames[n]]
  BY <1>3, <1>4 DEF CallService
<1>6. QED
  BY <1>1, <1>5 DEF Table!Call

\* Where no two names have one hash, the sorted list of hashes behaves as the
\* table of names of modules.h: CallService runs the service of that name, and
\* answers CALLSERVICE_NOTFOUND exactly when there is none.
THEOREM ServicesAreATable == ASSUME HashesDiffer PROVE Spec => ImplementsServiceTable
<1>1. Init => Table!TableInit
  <2> SUFFICES ASSUME Init PROVE Table!TableInit
    OBVIOUS
  <2>1. \A n : ServicesNamed(n) = {}
    BY DEF Init, ServicesNamed, Contains
  <2>2. TableOfNames = [n \in Name |-> NOTFOUND]
    BY <2>1 DEF TableOfNames
  <2>3. QED
    BY <2>2 DEF Init, Table!TableInit
<1>2. ASSUME TypeOK, ServicesInv, NamesHashed, [Next]_vars
      PROVE  [Table!TableNext]_Table!tableVars
  <2>1. ASSUME NEW n \in Name, CreateServiceFunction(n) PROVE Table!TableNext
    BY <1>2, <2>1, CreateIsTableCreate DEF Table!TableNext
  <2>2. ASSUME NEW n \in Name, CallService(n) PROVE Table!TableNext
    BY <1>2, <2>2, CallIsTableCall DEF Table!TableNext
  <2>3. ASSUME NEW u \in Usable, DestroyServiceFunction(u)
        PROVE  UNCHANGED Table!tableVars \/ Table!TableNext
    BY <1>2, <2>3, DestroyIsTableDestroy DEF Table!TableNext
  <2>4. CASE UNCHANGED vars
    BY <2>4, TableKept DEF vars, Table!tableVars
  <2>5. QED
    BY <1>2, <2>1, <2>2, <2>3, <2>4 DEF Next
<1>3. QED
  BY <1>1, <1>2, ServicesTypeCorrect, ServicesInvariant, NamesHashedInvariant, PTL
     DEF Spec, ImplementsServiceTable, Table!TableSpec

-------------------------------------------------------------------------------
(* NameHashFunction, for names of every length.                              *)

\* What the loop has before the first character.
Unturned == [hash |-> {}, shift |-> 0]

\* What the loop has, up to the character k.
IsLoop(szStr, k, f) ==
  f = [i \in 0..k |-> IF i = 0 THEN Unturned ELSE Turn(f[i - 1], szStr[i])]

LEMMA LoopIs ==
  ASSUME NEW szStr
  PROVE  Loop(szStr) = CHOOSE f : IsLoop(szStr, Len(szStr), f)
BY DEF Loop, IsLoop, Unturned

\* There is such a function for every k: there would be a smallest k without.
LEMMA LoopExists ==
  ASSUME NEW szStr, NEW n \in Nat
  PROVE  \E f : IsLoop(szStr, n, f)
<1> DEFINE Lacks == {k \in Nat : ~\E f : IsLoop(szStr, k, f)}
<1>1. SUFFICES ASSUME Lacks # {} PROVE FALSE
  OBVIOUS
<1>2. PICK m \in Lacks : \A k \in Lacks : m <= k
  <2>1. Lacks \in SUBSET Nat
    OBVIOUS
  <2> HIDE DEF Lacks
  <2>2. QED
    BY <1>1, <2>1, SmallestOf
<1>3. m \in Nat /\ ~\E f : IsLoop(szStr, m, f)
  OBVIOUS
<1>4. CASE m = 0
  <2> DEFINE f == [i \in 0..0 |-> Unturned]
  <2>1. f = [i \in 0..0 |-> IF i = 0 THEN Unturned ELSE Turn(f[i - 1], szStr[i])]
    OBVIOUS
  <2>2. QED
    BY <1>3, <1>4, <2>1 DEF IsLoop
<1>5. CASE m # 0
  <2>1. m - 1 \in Nat /\ m - 1 \notin Lacks
    BY <1>2, <1>3, <1>5
  <2>2. PICK g : IsLoop(szStr, m - 1, g)
    BY <2>1
  <2> DEFINE f == [i \in 0..m |-> IF i < m THEN g[i] ELSE Turn(g[m - 1], szStr[m])]
  <2>3. ASSUME NEW i \in 0..m
        PROVE  f[i] = IF i = 0 THEN Unturned ELSE Turn(f[i - 1], szStr[i])
    <3>1. CASE i = 0
      <4>1. 0 \in 0..(m - 1) /\ f[0] = g[0]
        BY <1>3, <1>5
      <4>2. g[0] = Unturned
        BY <2>2, <4>1 DEF IsLoop
      <4>3. QED
        BY <3>1, <4>1, <4>2
    <3>2. CASE i # 0 /\ i < m
      <4>1. i \in 0..(m - 1) /\ i - 1 \in 0..m /\ i - 1 < m
        BY <1>3, <3>2
      <4>2. f[i] = g[i] /\ f[i - 1] = g[i - 1]
        BY <3>2, <4>1
      <4>3. g[i] = Turn(g[i - 1], szStr[i])
        BY <2>2, <3>2, <4>1 DEF IsLoop
      <4>4. QED
        BY <3>2, <4>2, <4>3
    <3>3. CASE i = m
      <4>1. m - 1 \in 0..m /\ m - 1 < m
        BY <1>3, <1>5
      <4>2. f[i] = Turn(g[m - 1], szStr[m]) /\ f[m - 1] = g[m - 1]
        BY <3>3, <4>1
      <4>3. QED
        BY <1>5, <3>3, <4>2
    <3>4. QED
      BY <1>3, <3>1, <3>2, <3>3
  <2>4. f = [i \in 0..m |-> IF i = 0 THEN Unturned ELSE Turn(f[i - 1], szStr[i])]
    <3> DEFINE G == [i \in 0..m |-> IF i = 0 THEN Unturned ELSE Turn(f[i - 1], szStr[i])]
    <3>1. \A i \in 0..m : G[i] = f[i]
      <4>1. \A i \in 0..m : G[i] = IF i = 0 THEN Unturned ELSE Turn(f[i - 1], szStr[i])
        OBVIOUS
      <4> HIDE DEF G, f
      <4>2. QED
        BY <2>3, <4>1
    <3>2. DOMAIN f = 0..m /\ DOMAIN G = 0..m /\ f = [i \in DOMAIN f |-> f[i]]
          /\ G = [i \in DOMAIN G |-> G[i]]
      OBVIOUS
    <3> HIDE DEF G, f
    <3>3. G = f
      BY <3>1, <3>2
    <3>4. QED
      BY <3>3 DEF G
  <2> HIDE DEF f
  <2>5. IsLoop(szStr, m, f)
    BY <2>4 DEF IsLoop
  <2>6. QED
    BY <1>3, <2>5
<1>6. QED
  BY <1>4, <1>5

\* So the loop starts with nothing and makes a turn for each character.
LEMMA LoopTurns ==
  ASSUME NEW szStr \in Seq(Nat)
  PROVE  /\ Loop(szStr)[0] = Unturned
         /\ \A i \in 1..Len(szStr) : Loop(szStr)[i] = Turn(Loop(szStr)[i - 1], szStr[i])
<1>1. Len(szStr) \in Nat
  OBVIOUS
<1>2. PICK f : f = Loop(szStr)
  OBVIOUS
<1>3. IsLoop(szStr, Len(szStr), f)
  BY <1>1, <1>2, LoopExists, LoopIs
<1>4. f[0] = Unturned
  BY <1>1, <1>3 DEF IsLoop
<1>5. ASSUME NEW i \in 1..Len(szStr) PROVE f[i] = Turn(f[i - 1], szStr[i])
  <2>1. i \in 0..Len(szStr) /\ i # 0
    BY <1>1
  <2>2. f = [j \in 0..Len(szStr) |-> IF j = 0 THEN Unturned ELSE Turn(f[j - 1], szStr[j])]
    BY <1>3 DEF IsLoop
  <2>3. f[i] = IF i = 0 THEN Unturned ELSE Turn(f[i - 1], szStr[i])
    BY <2>1, <2>2
  <2>4. QED
    BY <2>1, <2>3
<1>6. QED
  BY <1>2, <1>4, <1>5
-------------------------------------------------------------------------------
\* The bits of a character in the place that the loop has for the k-th.
Placed(c, k) == {bit \in 0..31 : \E b \in Bits(c) : Rotated(b, k) = bit}

LEMMA BitsAreBits == \A c : Bits(c) \subseteq 0..6
BY DEF Bits

\* A rotation by the shift that the loop has for the k-th character.
LEMMA RotatedIs ==
  ASSUME NEW k \in Nat \ {0}, NEW b \in 0..6, NEW s, s = (5 * (k - 1)) % 32
  PROVE  /\ s \in 0..31
         /\ b + s <= 31 => Rotated(b, k) = b + s
         /\ b + s > 31 => Rotated(b, k) = b + s - 32
<1>1. PICK a \in Nat : a = 5 * (k - 1)
  OBVIOUS
<1>2. PICK q \in Int : q = a \div 32
  OBVIOUS
<1>3. a = 32 * q + s /\ s \in 0..31
  BY <1>1, <1>2
<1>4. Rotated(b, k) = (b + a) % 32
  BY <1>1 DEF Rotated
<1>5. CASE b + s <= 31
  <2>1. b + a = 32 * q + (b + s) /\ b + s \in 0..31
    BY <1>1, <1>3, <1>5
  <2>2. (b + a) % 32 = b + s
    BY <1>1, <2>1
  <2>3. QED
    BY <1>3, <1>4, <1>5, <2>2
<1>6. CASE b + s > 31
  <2>1. b + a = 32 * (q + 1) + (b + s - 32) /\ b + s - 32 \in 0..31
    BY <1>1, <1>3, <1>6
  <2>2. (b + a) % 32 = b + s - 32
    BY <1>1, <2>1
  <2>3. QED
    BY <1>3, <1>4, <1>6, <2>2
<1>7. QED
  BY <1>3, <1>5, <1>6

\* What a turn shifts to the left, and what it spills, are the character's bits in
\* their places, each once.
LEMMA TurnPlaces ==
  ASSUME NEW c \in Nat, NEW k \in Nat \ {0}, NEW s, s = (5 * (k - 1)) % 32
  PROVE  /\ ShiftLeft(Bits(c), s) \cup Spill(c, s) = Placed(c, k)
         /\ ShiftLeft(Bits(c), s) \cap Spill(c, s) = {}
<1>10. s \in 0..31
  BY RotatedIs
<1>2. ASSUME NEW b \in 0..6
      PROVE  /\ b + s <= 31 => Rotated(b, k) = b + s
             /\ b + s > 31 => Rotated(b, k) = b + s - 32
  <2>1. b + s <= 31 => Rotated(b, k) = b + s
    BY RotatedIs
  <2>2. b + s > 31 => Rotated(b, k) = b + s - 32
    BY RotatedIs
  <2>3. QED
    BY <2>1, <2>2
<1>11. ASSUME NEW bit
      PROVE  bit \in ShiftLeft(Bits(c), s) <=> \E b \in Bits(c) : b + s <= 31 /\ bit = b + s
  BY <1>10, BitsAreBits DEF ShiftLeft
<1>12. ASSUME NEW bit
      PROVE  bit \in Spill(c, s) <=> \E b \in Bits(c) : b + s > 31 /\ bit = b + s - 32
  <2>1. CASE s > 24
    <3>1. bit \in Spill(c, s) <=> \E b \in Bits(c) : b >= 32 - s /\ bit = b - (32 - s)
      BY <2>1 DEF Spill, ShiftRight
    <3>2. \A b \in Bits(c) : (b >= 32 - s <=> b + s > 31) /\ b - (32 - s) = b + s - 32
      BY <1>10, BitsAreBits
    <3>3. QED
      BY <3>1, <3>2
  <2>2. CASE ~(s > 24)
    <3>1. Spill(c, s) = {}
      BY <2>2 DEF Spill
    <3>2. \A b \in Bits(c) : ~(b + s > 31)
      BY <1>10, <2>2, BitsAreBits
    <3>3. QED
      BY <3>1, <3>2
  <2>3. QED
    BY <2>1, <2>2
<1>13. ASSUME NEW b \in Bits(c)
      PROVE  /\ b \in 0..6 /\ Rotated(b, k) \in 0..31
             /\ b + s <= 31 => Rotated(b, k) = b + s
             /\ b + s > 31 => Rotated(b, k) = b + s - 32
  <2>1. b \in 0..6
    BY BitsAreBits
  <2>2. /\ b + s <= 31 => Rotated(b, k) = b + s
        /\ b + s > 31 => Rotated(b, k) = b + s - 32
    BY <2>1, <1>2
  <2>3. QED
    BY <1>10, <2>1, <2>2
<1>14. ASSUME NEW bit
      PROVE  bit \in Placed(c, k) <=> \E b \in Bits(c) : Rotated(b, k) = bit
  BY <1>13 DEF Placed
<1>15. ASSUME NEW bit
      PROVE  bit \in Placed(c, k) <=> bit \in ShiftLeft(Bits(c), s) \/ bit \in Spill(c, s)
  <2>1. \A b \in Bits(c) : b + s <= 31 \/ b + s > 31
    BY <1>10, <1>13
  <2>2. QED
    BY <1>11, <1>12, <1>13, <1>14, <2>1
<1>8. ASSUME NEW bit, bit \in ShiftLeft(Bits(c), s), bit \in Spill(c, s)
      PROVE  FALSE
  <2>1. PICK b \in Bits(c) : b + s <= 31 /\ bit = b + s
    BY <1>11, <1>8
  <2>2. PICK d \in Bits(c) : d + s > 31 /\ bit = d + s - 32
    BY <1>12, <1>8
  <2>3. b \in 0..6 /\ d \in 0..6
    BY <1>13
  <2>4. QED
    BY <1>10, <2>1, <2>2, <2>3
<1>9. QED
  BY <1>15, <1>8

\* So a turn flips the bits in those places.
LEMMA TurnFlips ==
  ASSUME NEW h, NEW c \in Nat, NEW k \in Nat \ {0}, h.shift = (5 * (k - 1)) % 32
  PROVE  /\ Turn(h, c).hash = SymDiff(h.hash, Placed(c, k))
         /\ Turn(h, c).shift = (5 * k) % 32
<1> DEFINE s == h.shift
           left == ShiftLeft(Bits(c), s)
           spilt == Spill(c, s)
<1>10. left \cup spilt = Placed(c, k) /\ left \cap spilt = {}
  BY TurnPlaces
<1>11. Turn(h, c).hash = SymDiff(SymDiff(h.hash, left), spilt)
  BY DEF Turn
<1> HIDE DEF left, spilt
<1>12. SymDiff(SymDiff(h.hash, left), spilt) = SymDiff(h.hash, left \cup spilt)
  BY <1>10 DEF SymDiff
<1>13. Turn(h, c).shift = (s + 5) % 32
  BY DEF Turn
<1>14. (s + 5) % 32 = (5 * k) % 32
  <2>1. PICK a \in Nat : a = 5 * (k - 1)
    OBVIOUS
  <2>2. 5 * k = a + 5 /\ s = a % 32
    BY <2>1
  <2>3. ((a % 32) + 5) % 32 = (a + 5) % 32
    BY <2>1
  <2>4. QED
    BY <2>2, <2>3
<1>15. QED
  BY <1>10, <1>11, <1>12, <1>13, <1>14
-------------------------------------------------------------------------------
\* The characters, up to the i-th, that have a bit in this place, and the places
\* where an odd number of them has one.
Places(szStr, i, bit) == {k \in 1..i : bit \in Placed(szStr[k], k)}
OddPlaces(szStr, i) == {bit \in 0..31 : Cardinality(Places(szStr, i, bit)) % 2 = 1}

LEMMA PlacesAreFinite ==
  ASSUME NEW szStr, NEW i \in Nat, NEW bit
  PROVE  IsFiniteSet(Places(szStr, i, bit)) /\ Cardinality(Places(szStr, i, bit)) \in Nat
<1>1. IsFiniteSet(1..i)
  BY FS_Interval
<1>2. Places(szStr, i, bit) \subseteq 1..i
  BY DEF Places
<1>3. QED
  BY <1>1, <1>2, FS_Subset, FS_CardinalityType

\* One more makes an odd number even and an even one odd.
LEMMA OneMoreFlips ==
  ASSUME NEW P, IsFiniteSet(P), NEW k, k \notin P
  PROVE  (Cardinality(P \cup {k}) % 2 = 1) <=> (Cardinality(P) % 2 # 1)
<1>1. Cardinality(P) \in Nat /\ Cardinality(P \cup {k}) = Cardinality(P) + 1
  BY FS_AddElement, FS_CardinalityType
<1>2. \A n \in Nat : ((n + 1) % 2 = 1) <=> (n % 2 # 1)
  OBVIOUS
<1>3. QED
  BY <1>1, <1>2

LEMMA OddPlacesFlip ==
  ASSUME NEW szStr, NEW i \in Nat \ {0}
  PROVE  OddPlaces(szStr, i) = SymDiff(OddPlaces(szStr, i - 1), Placed(szStr[i], i))
<1>1. ASSUME NEW bit \in 0..31
      PROVE  bit \in OddPlaces(szStr, i)
               <=> bit \in SymDiff(OddPlaces(szStr, i - 1), Placed(szStr[i], i))
  <2> DEFINE P == Places(szStr, i - 1, bit)
  <2>1. IsFiniteSet(P) /\ i \notin P
    <3>1. i - 1 \in Nat /\ i \notin 1..(i - 1)
      OBVIOUS
    <3>2. IsFiniteSet(P)
      BY <3>1, PlacesAreFinite
    <3>3. QED
      BY <3>1, <3>2 DEF Places
  <2>2. CASE bit \in Placed(szStr[i], i)
    <3>1. Places(szStr, i, bit) = P \cup {i}
      BY <2>2 DEF Places
    <3>2. (Cardinality(P \cup {i}) % 2 = 1) <=> (Cardinality(P) % 2 # 1)
      BY <2>1, OneMoreFlips
    <3>3. QED
      BY <2>2, <3>1, <3>2 DEF OddPlaces, SymDiff
  <2>3. CASE bit \notin Placed(szStr[i], i)
    <3>1. Places(szStr, i, bit) = P
      BY <2>3 DEF Places
    <3>2. QED
      BY <2>3, <3>1 DEF OddPlaces, SymDiff
  <2>4. QED
    BY <2>2, <2>3
<1>2. OddPlaces(szStr, i) \subseteq 0..31
  BY DEF OddPlaces
<1>3. SymDiff(OddPlaces(szStr, i - 1), Placed(szStr[i], i)) \subseteq 0..31
  BY DEF OddPlaces, SymDiff, Placed
<1>4. QED
  BY <1>1, <1>2, <1>3

\* What the loop has after i characters.
LEMMA LoopHasOddPlaces ==
  ASSUME NEW szStr \in Seq(Nat), NEW n \in 0..Len(szStr)
  PROVE  Loop(szStr)[n].hash = OddPlaces(szStr, n) /\ Loop(szStr)[n].shift = (5 * n) % 32
<1> DEFINE Has(i) == /\ Loop(szStr)[i].hash = OddPlaces(szStr, i)
                     /\ Loop(szStr)[i].shift = (5 * i) % 32
           Wrong == {i \in Nat : i \in 0..Len(szStr) /\ ~Has(i)}
<1>1. SUFFICES ASSUME Wrong # {} PROVE FALSE
  <2>1. n \in Nat
    OBVIOUS
  <2>2. CASE Has(n)
    BY <2>2
  <2>3. CASE ~Has(n)
    <3> HIDE DEF Has
    <3>1. n \in Wrong
      BY <2>1, <2>3
    <3>2. QED
      BY <3>1
  <2>4. QED
    BY <2>2, <2>3
<1>2. PICK m \in Wrong : \A i \in Wrong : m <= i
  <2>1. Wrong \in SUBSET Nat
    OBVIOUS
  <2> HIDE DEF Wrong
  <2>2. QED
    BY <1>1, <2>1, SmallestOf
<1>3. m \in 0..Len(szStr) /\ Len(szStr) \in Nat
  OBVIOUS
<1>4. ~Has(m)
  OBVIOUS
<1>5. m # 0
  <2>1. Loop(szStr)[0].hash = {} /\ Loop(szStr)[0].shift = 0
    BY LoopTurns DEF Unturned
  <2>2. ASSUME NEW bit \in 0..31 PROVE bit \notin OddPlaces(szStr, 0)
    <3>1. Places(szStr, 0, bit) = {}
      BY DEF Places
    <3>2. Cardinality(Places(szStr, 0, bit)) = 0
      BY <3>1, FS_EmptySet
    <3>3. QED
      BY <3>2 DEF OddPlaces
  <2>3. OddPlaces(szStr, 0) = {}
    BY <2>2 DEF OddPlaces
  <2>4. (5 * 0) % 32 = 0
    OBVIOUS
  <2>5. Has(0)
    BY <2>1, <2>3, <2>4
  <2>6. QED
    BY <1>4, <2>5
<1>6. m - 1 \in 0..Len(szStr) /\ m \in Nat \ {0} /\ m \in 1..Len(szStr) /\ szStr[m] \in Nat
  BY <1>3, <1>5
<1>7. Has(m - 1)
  BY <1>2, <1>6
<1>8. PICK h : h = Loop(szStr)[m - 1]
  OBVIOUS
<1>9. h.hash = OddPlaces(szStr, m - 1) /\ h.shift = (5 * (m - 1)) % 32
  BY <1>7, <1>8
<1>10. Loop(szStr)[m] = Turn(h, szStr[m])
  BY <1>6, <1>8, LoopTurns
<1>11. /\ Turn(h, szStr[m]).hash = SymDiff(h.hash, Placed(szStr[m], m))
       /\ Turn(h, szStr[m]).shift = (5 * m) % 32
  BY <1>6, <1>9, TurnFlips
<1>12. Has(m)
  BY <1>6, <1>9, <1>10, <1>11, OddPlacesFlip
<1>13. QED
  BY <1>4, <1>12

\* NameHashFunction rotates each character by five bits more than the one before and
\* xors them all, for names of every length: no shift loses or doubles a bit.
THEOREM HashIsXorOfRotated ==
  ASSUME NEW szStr \in Seq(Nat)
  PROVE  NameHashFunction(szStr) = XorOfRotated(szStr)
<1>1. Len(szStr) \in Nat /\ Len(szStr) \in 0..Len(szStr) /\ DOMAIN szStr = 1..Len(szStr)
  OBVIOUS
<1>2. NameHashFunction(szStr) = OddPlaces(szStr, Len(szStr))
  BY <1>1, LoopHasOddPlaces DEF NameHashFunction
<1>3. ASSUME NEW bit \in 0..31
      PROVE  Places(szStr, Len(szStr), bit) =
               {k \in DOMAIN szStr : \E b \in Bits(szStr[k]) : Rotated(b, k) = bit}
  BY <1>1 DEF Places, Placed
<1>4. QED
  BY <1>2, <1>3 DEF OddPlaces, XorOfRotated
-------------------------------------------------------------------------------
\* A 7-bit number is known by its bits.
LEMMA HalvesTell ==
  ASSUME NEW a \in Nat, NEW b \in Nat, a % 2 = b % 2, a \div 2 = b \div 2
  PROVE  a = b
<1>1. a = 2 * (a \div 2) + (a % 2) /\ b = 2 * (b \div 2) + (b % 2)
  OBVIOUS
<1>2. QED
  BY <1>1

LEMMA BitsTell ==
  ASSUME NEW c \in 0..127, NEW d \in 0..127, Bits(c) = Bits(d)
  PROVE  c = d
<1> DEFINE Weights == {1, 2, 4, 8, 16, 32, 64}
<1>1. 2^0 = 1 /\ 2^1 = 2 /\ 2^2 = 4 /\ 2^3 = 8 /\ 2^4 = 16 /\ 2^5 = 32 /\ 2^6 = 64
  OBVIOUS
<1>2. \A n \in Weights : \E b \in 0..6 : n = 2^b
  BY <1>1
<1>3. ASSUME NEW n \in Weights PROVE (c \div n) % 2 = (d \div n) % 2
  <2>1. PICK b \in 0..6 : n = 2^b
    BY <1>2
  <2>2. (c \div n) % 2 = 1 <=> (d \div n) % 2 = 1
    BY <2>1 DEF Bits
  <2>3. \A m \in Nat : m % 2 \in {0, 1}
    OBVIOUS
  <2>4. c \div n \in Nat /\ d \div n \in Nat
    OBVIOUS
  <2>5. QED
    BY <2>2, <2>3, <2>4
<1>4. ASSUME NEW n \in 0..127
      PROVE  /\ (n \div 1) \div 2 = n \div 2 /\ n \div 1 = n
             /\ (n \div 2) \div 2 = n \div 4 /\ (n \div 4) \div 2 = n \div 8
             /\ (n \div 8) \div 2 = n \div 16 /\ (n \div 16) \div 2 = n \div 32
             /\ (n \div 32) \div 2 = n \div 64 /\ (n \div 64) \div 2 = 0
  OBVIOUS
<1>5. ASSUME NEW n \in Weights, (c \div n) \div 2 = (d \div n) \div 2
      PROVE  c \div n = d \div n
  <2>1. c \div n \in Nat /\ d \div n \in Nat
    OBVIOUS
  <2>2. (c \div n) % 2 = (d \div n) % 2
    BY <1>3
  <2>3. QED
    BY <1>5, <2>1, <2>2, HalvesTell
<1>6. c \div 64 = d \div 64
  BY <1>4, <1>5
<1>7. c \div 32 = d \div 32
  BY <1>4, <1>5, <1>6
<1>8. c \div 16 = d \div 16
  BY <1>4, <1>5, <1>7
<1>9. c \div 8 = d \div 8
  BY <1>4, <1>5, <1>8
<1>10. c \div 4 = d \div 4
  BY <1>4, <1>5, <1>9
<1>11. c \div 2 = d \div 2
  BY <1>4, <1>5, <1>10
<1>12. c \div 1 = d \div 1
  BY <1>4, <1>5, <1>11
<1>13. QED
  BY <1>4, <1>12

LEMMA NoCharacter == 0 \in 0..127 /\ Bits(0) = {}
<1>1. 2^0 = 1 /\ 2^1 = 2 /\ 2^2 = 4 /\ 2^3 = 8 /\ 2^4 = 16 /\ 2^5 = 32 /\ 2^6 = 64
  OBVIOUS
<1>2. /\ 0 \div 1 = 0 /\ 0 \div 2 = 0 /\ 0 \div 4 = 0 /\ 0 \div 8 = 0 /\ 0 \div 16 = 0
      /\ 0 \div 32 = 0 /\ 0 \div 64 = 0 /\ 0 % 2 = 0
  OBVIOUS
<1>3. ASSUME NEW b \in 0..6 PROVE ~((0 \div 2^b) % 2 = 1)
  <2>1. b = 0 \/ b = 1 \/ b = 2 \/ b = 3 \/ b = 4 \/ b = 5 \/ b = 6
    OBVIOUS
  <2>2. PICK w : w = 2^b
    OBVIOUS
  <2>3. w = 1 \/ w = 2 \/ w = 4 \/ w = 8 \/ w = 16 \/ w = 32 \/ w = 64
    BY <1>1, <2>1, <2>2
  <2>4. ~((0 \div w) % 2 = 1)
    BY <1>2, <2>3
  <2>5. QED
    BY <2>2, <2>4
<1>4. ASSUME NEW b PROVE b \notin Bits(0)
  BY <1>3 DEF Bits
<1>5. Bits(0) = {}
  BY <1>4
<1>6. QED
  BY <1>5

\* Two bits of a character are in two places.
LEMMA PlacedApart ==
  ASSUME NEW k \in Nat \ {0}, NEW c, NEW b \in 0..6
  PROVE  /\ Rotated(b, k) \in 0..31
         /\ Rotated(b, k) \in Placed(c, k) <=> b \in Bits(c)
<1> DEFINE s == (5 * (k - 1)) % 32
<1>1. ASSUME NEW x \in 0..6
      PROVE  /\ s \in 0..31
             /\ x + s <= 31 => Rotated(x, k) = x + s
             /\ x + s > 31 => Rotated(x, k) = x + s - 32
  BY RotatedIs
<1> HIDE DEF s
<1>2. ASSUME NEW x \in 0..6 PROVE Rotated(x, k) \in 0..31
  <2>1. CASE x + s <= 31
    BY <1>1, <2>1
  <2>2. CASE x + s > 31
    BY <1>1, <2>2
  <2>3. QED
    BY <1>1, <2>1, <2>2
<1>3. ASSUME NEW x \in 0..6, Rotated(x, k) = Rotated(b, k) PROVE x = b
  <2>1. s \in 0..31
    BY <1>1
  <2>2. CASE x + s <= 31
    BY <1>1, <1>3, <2>1, <2>2
  <2>3. CASE x + s > 31
    BY <1>1, <1>3, <2>1, <2>3
  <2>4. QED
    BY <2>1, <2>2, <2>3
<1>4. QED
  BY <1>2, <1>3, BitsAreBits DEF Placed

\* Where one character more, or another one, makes the difference.
LEMMA OneCharacterFlips ==
  ASSUME NEW s, NEW t, NEW m \in Nat, NEW n \in Nat, NEW j \in 1..m, NEW b \in Bits(s[j]),
         \A k \in (1..m) \cup (1..n) : k # j => k \in 1..m /\ k \in 1..n /\ t[k] = s[k],
         j \in 1..n => b \notin Bits(t[j])
  PROVE  OddPlaces(s, m) # OddPlaces(t, n)
<1> DEFINE bit == Rotated(b, j)
           P == Places(t, n, bit)
<1>1. b \in 0..6 /\ j \in Nat \ {0}
  BY BitsAreBits
<1>2. bit \in 0..31 /\ \A c : bit \in Placed(c, j) <=> b \in Bits(c)
  BY <1>1, PlacedApart
<1> HIDE DEF bit
<1>3. IsFiniteSet(P)
  BY PlacesAreFinite
<1>4. j \notin P
  BY <1>2 DEF Places
<1>5. Places(s, m, bit) = P \cup {j}
  BY <1>2 DEF Places
<1> HIDE DEF P
<1>6. (Cardinality(P \cup {j}) % 2 = 1) <=> (Cardinality(P) % 2 # 1)
  BY <1>3, <1>4, OneMoreFlips
<1>7. QED
  BY <1>2, <1>5, <1>6 DEF OddPlaces, P

\* Two names of which one is the other with another character in one place, or with
\* one character more at the end, have different hashes: those of Chat1/a and
\* Chat1/e, and of Chat and Chats.  (Two places may make up for each other: Bb and
\* bc have one hash.)
OneCharacterApart(s, t) ==
  \E j \in 1..Len(s) :
    /\ Len(t) = Len(s) \/ (j = Len(s) /\ Len(t) = Len(s) - 1)
    /\ \A k \in 1..Len(s) : k # j => t[k] = s[k]
    /\ j <= Len(t) => t[j] # s[j]

THEOREM OneCharacterTells ==
  ASSUME NEW s \in Seq(1..127), NEW t \in Seq(1..127), OneCharacterApart(s, t)
  PROVE  NameHashFunction(s) # NameHashFunction(t)
<1>1. /\ Len(s) \in Nat /\ Len(s) \in 0..Len(s) /\ Len(t) \in Nat /\ Len(t) \in 0..Len(t)
      /\ s \in Seq(Nat) /\ t \in Seq(Nat)
      /\ \A k \in 1..Len(s) : s[k] \in 1..127
      /\ \A k \in 1..Len(t) : t[k] \in 1..127
  <2>1. ASSUME NEW u \in Seq(1..127)
        PROVE  /\ Len(u) \in Nat /\ Len(u) \in 0..Len(u) /\ u \in Seq(Nat)
               /\ \A k \in 1..Len(u) : u[k] \in 1..127
    <3>1. Len(u) \in Nat /\ \A k \in 1..Len(u) : u[k] \in 1..127
      BY ElementOfSeq
    <3>2. u \in Seq(Nat)
      <4>1. u \in [1..Len(u) -> 1..127]
        BY LenProperties
      <4>2. u \in [1..Len(u) -> Nat]
        <5>1. 1..127 \subseteq Nat
          OBVIOUS
        <5>2. \A k \in 1..Len(u) : u[k] \in Nat
          BY <3>1, <5>1
        <5>3. QED
          BY <4>1, <5>2
      <4>3. QED
        BY <3>1, <4>2, FunctionIsSeq
    <3>3. QED
      BY <3>1, <3>2
  <2>2. QED
    BY <2>1
<1>2. /\ NameHashFunction(s) = OddPlaces(s, Len(s))
      /\ NameHashFunction(t) = OddPlaces(t, Len(t))
  BY <1>1, LoopHasOddPlaces DEF NameHashFunction
<1>3. PICK j \in 1..Len(s) :
        /\ Len(t) = Len(s) \/ (j = Len(s) /\ Len(t) = Len(s) - 1)
        /\ \A k \in 1..Len(s) : k # j => t[k] = s[k]
        /\ j <= Len(t) => t[j] # s[j]
  BY DEF OneCharacterApart
<1>4. /\ \A k \in (1..Len(s)) \cup (1..Len(t)) :
           k # j => k \in 1..Len(s) /\ k \in 1..Len(t) /\ t[k] = s[k]
      /\ \A k \in (1..Len(s)) \cup (1..Len(t)) :
           k # j => k \in 1..Len(s) /\ k \in 1..Len(t) /\ s[k] = t[k]
  BY <1>1, <1>3
<1>5. CASE j \in 1..Len(t)
  <2>1. s[j] \in 0..127 /\ t[j] \in 0..127 /\ s[j] # t[j]
    BY <1>1, <1>3, <1>5
  <2>2. Bits(s[j]) # Bits(t[j])
    BY <2>1, BitsTell
  <2>3. CASE \E b \in Bits(s[j]) : b \notin Bits(t[j])
    BY <1>1, <1>2, <1>4, <1>5, <2>3, OneCharacterFlips
  <2>4. CASE \E b \in Bits(t[j]) : b \notin Bits(s[j])
    BY <1>1, <1>2, <1>4, <1>5, <2>4, OneCharacterFlips
  <2>5. QED
    BY <2>2, <2>3, <2>4
<1>6. CASE j \notin 1..Len(t)
  <2>1. s[j] \in 1..127
    BY <1>1
  <2>2. s[j] \in 0..127 /\ s[j] # 0
    <3>1. \A n \in 1..127 : n \in 0..127 /\ n # 0
      OBVIOUS
    <3>2. QED
      BY <2>1, <3>1
  <2>3. Bits(0) = {}
    BY NoCharacter
  <2>5. PICK b \in Bits(s[j]) : TRUE
    <3>1. PICK c : c = s[j]
      OBVIOUS
    <3>2. c \in 0..127 /\ c # 0
      BY <2>2, <3>1
    <3>3. Bits(c) # Bits(0)
      BY <3>2, NoCharacter, BitsTell
    <3>4. QED
      BY <2>3, <3>1, <3>3
  <2>4. QED
    BY <1>1, <1>2, <1>4, <1>6, <2>5, OneCharacterFlips
<1>7. QED
  BY <1>5, <1>6
-------------------------------------------------------------------------------
(* HashNumber: a hash is known by its number.                                *)

LEMMA NumberIs == \A bits : NumberOf(bits) = SumOver(Weight, bits)
BY DEF NumberOf, SumOver, MapThenSumSet, MapThenFoldSet

LEMMA WeightsDouble ==
  /\ Weight[0] = 1
  /\ \A b \in 0..31 : Weight[b] \in Nat /\ Weight[b] > 0
  /\ \A b \in 1..31 : Weight[b] = 2 * Weight[b - 1]
<1>1. /\ Weight[0] = 1 /\ Weight[1] = 2 /\ Weight[2] = 4 /\ Weight[3] = 8 /\ Weight[4] = 16
      /\ Weight[5] = 32 /\ Weight[6] = 64 /\ Weight[7] = 128 /\ Weight[8] = 256
  BY DEF Weight
<1>2. /\ Weight[9] = 512 /\ Weight[10] = 1024 /\ Weight[11] = 2048 /\ Weight[12] = 4096
      /\ Weight[13] = 8192 /\ Weight[14] = 16384 /\ Weight[15] = 32768 /\ Weight[16] = 65536
  BY DEF Weight
<1>3. /\ Weight[17] = 131072 /\ Weight[18] = 262144 /\ Weight[19] = 524288
      /\ Weight[20] = 1048576 /\ Weight[21] = 2097152 /\ Weight[22] = 4194304
      /\ Weight[23] = 8388608 /\ Weight[24] = 16777216
  BY DEF Weight
<1>4. /\ Weight[25] = 33554432 /\ Weight[26] = 67108864 /\ Weight[27] = 134217728
      /\ Weight[28] = 268435456 /\ Weight[29] = 536870912 /\ Weight[30] = 1073741824
      /\ Weight[31] = 2147483648
  BY DEF Weight
<1>5. ASSUME NEW b \in 1..8
      PROVE  Weight[b] \in Nat /\ Weight[b] > 0 /\ Weight[b] = 2 * Weight[b - 1]
  <2>1. \/ (b = 1 /\ b - 1 = 0) \/ (b = 2 /\ b - 1 = 1) \/ (b = 3 /\ b - 1 = 2)
        \/ (b = 4 /\ b - 1 = 3) \/ (b = 5 /\ b - 1 = 4) \/ (b = 6 /\ b - 1 = 5)
        \/ (b = 7 /\ b - 1 = 6) \/ (b = 8 /\ b - 1 = 7)
    OBVIOUS
  <2>2. QED
    BY <1>1, <2>1
<1>6. ASSUME NEW b \in 9..16
      PROVE  Weight[b] \in Nat /\ Weight[b] > 0 /\ Weight[b] = 2 * Weight[b - 1]
  <2>1. \/ (b = 9 /\ b - 1 = 8) \/ (b = 10 /\ b - 1 = 9) \/ (b = 11 /\ b - 1 = 10)
        \/ (b = 12 /\ b - 1 = 11) \/ (b = 13 /\ b - 1 = 12) \/ (b = 14 /\ b - 1 = 13)
        \/ (b = 15 /\ b - 1 = 14) \/ (b = 16 /\ b - 1 = 15)
    OBVIOUS
  <2>2. QED
    BY <1>1, <1>2, <2>1
<1>7. ASSUME NEW b \in 17..24
      PROVE  Weight[b] \in Nat /\ Weight[b] > 0 /\ Weight[b] = 2 * Weight[b - 1]
  <2>1. \/ (b = 17 /\ b - 1 = 16) \/ (b = 18 /\ b - 1 = 17) \/ (b = 19 /\ b - 1 = 18)
        \/ (b = 20 /\ b - 1 = 19) \/ (b = 21 /\ b - 1 = 20) \/ (b = 22 /\ b - 1 = 21)
        \/ (b = 23 /\ b - 1 = 22) \/ (b = 24 /\ b - 1 = 23)
    OBVIOUS
  <2>2. QED
    BY <1>2, <1>3, <2>1
<1>8. ASSUME NEW b \in 25..31
      PROVE  Weight[b] \in Nat /\ Weight[b] > 0 /\ Weight[b] = 2 * Weight[b - 1]
  <2>1. \/ (b = 25 /\ b - 1 = 24) \/ (b = 26 /\ b - 1 = 25) \/ (b = 27 /\ b - 1 = 26)
        \/ (b = 28 /\ b - 1 = 27) \/ (b = 29 /\ b - 1 = 28) \/ (b = 30 /\ b - 1 = 29)
        \/ (b = 31 /\ b - 1 = 30)
    OBVIOUS
  <2>2. QED
    BY <1>3, <1>4, <2>1
<1>9. \A b \in 0..31 : b = 0 \/ b \in 1..8 \/ b \in 9..16 \/ b \in 17..24 \/ b \in 25..31
  OBVIOUS
<1>10. \A b \in 1..31 : b \in 0..31 /\ b # 0
  OBVIOUS
<1>11. QED
  BY <1>1, <1>5, <1>6, <1>7, <1>8, <1>9, <1>10

LEMMA SumsSplit ==
  ASSUME NEW w, NEW S, IsFiniteSet(S), \A r \in S : w[r] \in Nat
  PROVE  \A T \in SUBSET S : SumOver(w, S) = SumOver(w, T) + SumOver(w, S \ T)
<1>1. ASSUME NEW T \in SUBSET S
      PROVE  SumOver(w, S) = SumOver(w, T) + SumOver(w, S \ T)
  BY SumSplits
<1>2. QED
  BY <1>1

LEMMA WeightSums ==
  \A S \in SUBSET (0..31) :
    /\ IsFiniteSet(S) /\ SumOver(Weight, S) \in Nat /\ SumOver(Weight, {}) = 0
    /\ \A y \in S : SumOver(Weight, S) = Weight[y] + SumOver(Weight, S \ {y})
    /\ \A T \in SUBSET S : SumOver(Weight, S) = SumOver(Weight, T) + SumOver(Weight, S \ T)
<1>1. PICK w : w = Weight
  OBVIOUS
<1>2. \A r \in 0..31 : w[r] \in Nat
  BY <1>1, WeightsDouble
<1>3. IsFiniteSet(0..31)
  <2>1. 0 \in Int /\ 31 \in Int
    OBVIOUS
  <2>2. QED
    BY <2>1, FS_Interval
<1>4. ASSUME NEW S, S \subseteq 0..31
      PROVE  /\ IsFiniteSet(S) /\ SumOver(w, S) \in Nat /\ SumOver(w, {}) = 0
             /\ \A y \in S : SumOver(w, S) = w[y] + SumOver(w, S \ {y})
             /\ \A T \in SUBSET S : SumOver(w, S) = SumOver(w, T) + SumOver(w, S \ T)
  <2>1. IsFiniteSet(S)
    BY <1>3, <1>4, FS_Subset
  <2>2. \A r \in S : w[r] \in Nat
    BY <1>2, <1>4
  <2>3. /\ SumOver(w, S) \in Nat /\ SumOver(w, {}) = 0
        /\ \A y \in S : SumOver(w, S) = w[y] + SumOver(w, S \ {y})
    BY <2>1, <2>2, SumParts
  <2>4. \A T \in SUBSET S : SumOver(w, S) = SumOver(w, T) + SumOver(w, S \ T)
    BY <2>1, <2>2, SumsSplit
  <2>5. QED
    BY <2>1, <2>3, <2>4
<1>5. QED
  BY <1>1, <1>4

\* All the bits below one together weigh less than it.
LEMMA BitsBelow ==
  ASSUME NEW j \in 0..31, NEW S \in SUBSET (0..(j - 1))
  PROVE  SumOver(Weight, S) < Weight[j]
<1> DEFINE Wrong == {n \in Nat : /\ n \in 0..31
                                 /\ \E T \in SUBSET (0..(n - 1)) : ~(SumOver(Weight, T) < Weight[n])}
<1>1. SUFFICES ASSUME Wrong # {} PROVE FALSE
  <2>1. j \in Nat
    OBVIOUS
  <2>2. QED
    BY <2>1
<1>2. PICK m \in Wrong : \A n \in Wrong : m <= n
  <2>1. Wrong \in SUBSET Nat
    OBVIOUS
  <2> HIDE DEF Wrong
  <2>2. QED
    BY <1>1, <2>1, SmallestOf
<1>3. PICK T \in SUBSET (0..(m - 1)) : ~(SumOver(Weight, T) < Weight[m])
  OBVIOUS
<1>4. m \in 0..31 /\ m \in Nat /\ Weight[m] \in Nat /\ Weight[m] > 0
  BY WeightsDouble
<1>5. T \in SUBSET (0..31)
  BY <1>4
<1>6. CASE m = 0
  <2>1. T = {}
    BY <1>6
  <2>2. SumOver(Weight, T) = 0
    BY <1>5, <2>1, WeightSums
  <2>3. QED
    BY <1>3, <1>4, <2>2
<1>7. CASE m # 0
  <2>1. m - 1 \in 0..31 /\ m - 1 \in Nat /\ m \in 1..31
    BY <1>4, <1>7
  <2>2. \A U \in SUBSET (0..(m - 1 - 1)) : SumOver(Weight, U) < Weight[m - 1]
    <3>1. m - 1 \notin Wrong
      BY <1>2, <1>4, <2>1
    <3>2. QED
      BY <2>1, <3>1
  <2>3. Weight[m - 1] \in Nat /\ Weight[m] = 2 * Weight[m - 1]
    BY <2>1, WeightsDouble
  <2> HIDE DEF Wrong
  <2>4. CASE m - 1 \in T
    <3>1. T \ {m - 1} \in SUBSET (0..(m - 1 - 1))
      BY <1>4
    <3>2. SumOver(Weight, T \ {m - 1}) < Weight[m - 1]
      BY <2>2, <3>1
    <3>3. SumOver(Weight, T \ {m - 1}) \in Nat
      BY <1>5, WeightSums
    <3>4. SumOver(Weight, T) = Weight[m - 1] + SumOver(Weight, T \ {m - 1})
      BY <1>5, <2>4, WeightSums
    <3>5. QED
      BY <1>3, <2>3, <3>2, <3>3, <3>4
  <2>5. CASE m - 1 \notin T
    <3>1. T \in SUBSET (0..(m - 1 - 1))
      BY <1>4, <2>5
    <3>2. SumOver(Weight, T) < Weight[m - 1] /\ SumOver(Weight, T) \in Nat
      BY <1>5, <2>2, <3>1, WeightSums
    <3>3. QED
      BY <1>3, <2>3, <3>2
  <2>6. QED
    BY <2>4, <2>5
<1>8. QED
  BY <1>6, <1>7

\* The highest bit that two numbers differ in decides which is the larger.
LEMMA HighestBitDecides ==
  ASSUME NEW X \in SUBSET (0..31), NEW Y \in SUBSET (0..31), NEW j \in X, j \notin Y,
         \A k \in 0..31 : k > j => (k \in X <=> k \in Y)
  PROVE  NumberOf(Y) < NumberOf(X)
<1> DEFINE H == {k \in X : k > j}
           a == SumOver(Weight, X \ H)
           b == SumOver(Weight, Y \ H)
           h == SumOver(Weight, H)
<1>1. j \in 0..31 /\ H \in SUBSET X /\ H \in SUBSET Y /\ j \in X \ H
  OBVIOUS
<1>2. Y \ H \in SUBSET (0..(j - 1))
  <2>1. ASSUME NEW k \in Y \ H PROVE k \in 0..(j - 1)
    <3>1. k \in 0..31 /\ k # j
      OBVIOUS
    <3>2. ~(k > j)
      BY <3>1
    <3>3. QED
      BY <3>1, <3>2
  <2>2. QED
    BY <2>1
<1>3. X \ H \in SUBSET (0..31) /\ Y \ H \in SUBSET (0..31) /\ H \in SUBSET (0..31)
      /\ (X \ H) \ {j} \in SUBSET (0..31)
  OBVIOUS
<1> HIDE DEF H
<1>4. NumberOf(X) = h + a /\ NumberOf(Y) = h + b
  BY <1>1, WeightSums, NumberIs
<1>5. h \in Nat /\ a \in Nat /\ b \in Nat /\ SumOver(Weight, (X \ H) \ {j}) \in Nat
  BY <1>3, WeightSums
<1>6. a = Weight[j] + SumOver(Weight, (X \ H) \ {j})
  BY <1>1, <1>3, WeightSums
<1>7. b < Weight[j] /\ Weight[j] \in Nat
  BY <1>1, <1>2, BitsBelow, WeightsDouble
<1> HIDE DEF a, b, h
<1>8. QED
  BY <1>4, <1>5, <1>6, <1>7

\* So a number is known by its bits.
LEMMA NumbersTell ==
  ASSUME NEW X \in SUBSET (0..31), NEW Y \in SUBSET (0..31), X # Y
  PROVE  NumberOf(X) # NumberOf(Y)
<1> DEFINE D == {n \in Nat : \E k \in 0..31 : (k \in X <=> k \notin Y) /\ n = 31 - k}
<1>1. D # {}
  <2>1. PICK k \in 0..31 : k \in X <=> k \notin Y
    OBVIOUS
  <2>2. 31 - k \in Nat
    OBVIOUS
  <2>3. 31 - k \in D
    BY <2>1, <2>2
  <2>4. QED
    BY <2>3
<1>2. PICK m \in D : \A n \in D : m <= n
  <2>1. D \in SUBSET Nat
    OBVIOUS
  <2> HIDE DEF D
  <2>2. QED
    BY <1>1, <2>1, SmallestOf
<1>3. PICK j \in 0..31 : (j \in X <=> j \notin Y) /\ m = 31 - j
  OBVIOUS
<1>4. ASSUME NEW k \in 0..31, k > j PROVE k \in X <=> k \in Y
  <2>1. 31 - k \in Nat /\ ~(m <= 31 - k)
    BY <1>3, <1>4
  <2>2. 31 - k \notin D
    BY <1>2, <2>1
  <2>3. QED
    BY <2>1, <2>2
<1>5. /\ \A S \in SUBSET (0..31) : NumberOf(S) \in Nat
      /\ \A x, y \in Nat : x < y => x # y
  BY NumberIs, WeightSums
<1>6. CASE j \in X
  <2>1. NumberOf(Y) < NumberOf(X)
    BY <1>3, <1>4, <1>6, HighestBitDecides
  <2>2. QED
    BY <1>5, <2>1
<1>7. CASE j \in Y
  <2>1. NumberOf(X) < NumberOf(Y)
    BY <1>3, <1>4, <1>7, HighestBitDecides
  <2>2. QED
    BY <1>5, <2>1
<1>8. QED
  BY <1>3, <1>6, <1>7
-------------------------------------------------------------------------------
(* What NameHashFunction's hashes are to the services that have names: what  *)
(* MCCore.tla gives NameHash is HashNumber, for any set of names.            *)
HashesComputed ==
  Name \subseteq Seq(1..127) /\ \A n \in Name : NameHash[n] = HashNumber(n)

LEMMA NamesAreSequences ==
  ASSUME HashesComputed, NEW n \in Name
  PROVE  n \in Seq(1..127) /\ n \in Seq(Nat)
<1>1. n \in Seq(1..127)
  BY DEF HashesComputed
<1>2. n \in [1..Len(n) -> 1..127] /\ Len(n) \in Nat
  BY <1>1, LenProperties
<1>3. \A c \in 1..127 : c \in Nat
  OBVIOUS
<1>4. n \in [1..Len(n) -> Nat]
  BY <1>2, <1>3
<1>5. n \in Seq(Nat)
  BY <1>2, <1>4, FunctionIsSeq
<1>6. QED
  BY <1>1, <1>5

\* Every service in the list is sorted by its name's characters, each rotated by five
\* bits more than the one before, xor-ed: for names of every length, however many
\* times the shifts of NameHashFunction run over bit 31.
THEOREM ServiceHashesAreRotated ==
  ASSUME HashesComputed PROVE Spec => []HashesAreRotated
<1>1. ASSUME TypeOK, NamesHashed PROVE HashesAreRotated
  <2>1. ASSUME NEW i \in 1..Len(services)
        PROVE  nameHash[services[i]] = NumberOf(XorOfRotated(name[services[i]]))
    <3>1. PICK t : t = services[i]
      OBVIOUS
    <3>2. t \in Ticket /\ Contains(services, t)
      BY <1>1, <3>1 DEF TypeOK, Contains
    <3>3. name[t] \in Name /\ nameHash[t] = NameHash[name[t]]
      BY <1>1, <3>2 DEF NamesHashed
    <3>4. NameHash[name[t]] = HashNumber(name[t])
      BY <3>3 DEF HashesComputed
    <3>5. NameHashFunction(name[t]) = XorOfRotated(name[t])
      BY <3>3, NamesAreSequences, HashIsXorOfRotated
    <3>6. QED
      BY <3>1, <3>3, <3>4, <3>5 DEF HashNumber
  <2>2. QED
    BY <2>1 DEF HashesAreRotated
<1>2. QED
  BY <1>1, ServicesTypeCorrect, NamesHashedInvariant, PTL

LEMMA HashIsBits ==
  ASSUME NEW szStr \in Seq(Nat)
  PROVE  NameHashFunction(szStr) \in SUBSET (0..31)
BY HashIsXorOfRotated DEF XorOfRotated

\* Services of which any two have names that differ in one character, or in one more at
\* the end, never share a hash: what a plugin gets that numbers or letters its services.
THEOREM FamilyHashesDiffer ==
  ASSUME HashesComputed,
         \A m, n \in Name : m # n => OneCharacterApart(m, n) \/ OneCharacterApart(n, m)
  PROVE  HashesDiffer
<1>1. ASSUME NEW m \in Name, NEW n \in Name, OneCharacterApart(m, n)
      PROVE  NameHash[m] # NameHash[n]
  <2>1. /\ m \in Seq(1..127) /\ m \in Seq(Nat)
        /\ n \in Seq(1..127) /\ n \in Seq(Nat)
    BY NamesAreSequences
  <2>2. NameHashFunction(m) # NameHashFunction(n)
    BY <1>1, <2>1, OneCharacterTells
  <2>3. /\ NameHashFunction(m) \in SUBSET (0..31)
        /\ NameHashFunction(n) \in SUBSET (0..31)
    BY <2>1, HashIsBits
  <2>4. HashNumber(m) # HashNumber(n)
    BY <2>2, <2>3, NumbersTell DEF HashNumber
  <2>5. QED
    BY <2>4 DEF HashesComputed
<1>2. QED
  BY <1>1 DEF HashesDiffer

\* A service that was called has a name, and that name is the one called.
CalledByName ==
  called.service # NOTFOUND =>
    called.service < nextTicket /\ name[called.service] = called.name

LEMMA CalledByNameStep ==
  ASSUME HashesDiffer, TypeOK, ServicesInv, NamesHashed, CalledByName, [Next]_vars
  PROVE  CalledByName'
<1>1. called.service \in Ticket \cup {NOTFOUND} /\ nextTicket \in Nat
      /\ \A t \in Ticket : t \in Nat /\ t # NOTFOUND
  BY ServicesAssumption DEF TypeOK, Ticket, NOTFOUND
<1>2. ASSUME UNCHANGED <<name, nextTicket, called>> PROVE CalledByName'
  BY <1>2 DEF CalledByName
<1>3. ASSUME NEW n \in Name, CreateServiceFunction(n) PROVE CalledByName'
  <2>1. /\ nextTicket' = nextTicket + 1 /\ UNCHANGED called
        /\ \A t \in Ticket : t # nextTicket => name'[t] = name[t]
    BY <1>3, CreateListed
  <2>2. CASE called.service = NOTFOUND
    BY <2>1, <2>2 DEF CalledByName
  <2>3. CASE called.service # NOTFOUND
    <3>1. /\ called.service \in Ticket /\ called.service \in Nat
          /\ called.service < nextTicket /\ name[called.service] = called.name
      BY <1>1, <2>3 DEF CalledByName
    <3>2. called.service # nextTicket /\ called.service < nextTicket + 1
      BY <1>1, <3>1
    <3>3. QED
      BY <2>1, <3>1, <3>2 DEF CalledByName
  <2>4. QED
    BY <2>2, <2>3
<1>4. ASSUME NEW n \in Name, CallService(n) PROVE CalledByName'
  <2>1. UNCHANGED <<name, nextTicket>>
    BY <1>4 DEF CallService
  <2>2. CASE NoService(NameHash[n]) /\ called' = [name |-> n, service |-> NOTFOUND]
    BY <2>2 DEF CalledByName
  <2>3. ASSUME NEW i \in 1..Len(services), ServiceAt(NameHash[n], i),
               called' = [name |-> n, service |-> services[i]]
        PROVE  CalledByName'
    <3>1. services[i] \in Ticket /\ Contains(services, services[i])
      BY DEF TypeOK, Contains
    <3>2. nameHash[services[i]] = NameHash[n]
      BY <2>3 DEF ServiceAt
    <3>3. /\ name[services[i]] \in Name /\ services[i] < nextTicket
          /\ nameHash[services[i]] = NameHash[name[services[i]]]
      BY <3>1 DEF NamesHashed
    <3>4. name[services[i]] = n
      BY <3>2, <3>3 DEF HashesDiffer
    <3>5. called'.service = services[i] /\ called'.name = n
      BY <2>3
    <3>6. QED
      BY <2>1, <3>3, <3>4, <3>5 DEF CalledByName
  <2>4. QED
    BY <1>4, <2>2, <2>3 DEF CallService
<1>5. ASSUME NEW u \in Usable, DestroyServiceFunction(u) PROVE CalledByName'
  BY <1>2, <1>5, DestroyListed
<1>6. CASE UNCHANGED vars
  BY <1>2, <1>6 DEF vars
<1>7. QED
  BY <1>3, <1>4, <1>5, <1>6 DEF Next

\* Where the names in use have different hashes, which FamilyHashesDiffer gives for
\* families of names, CallService never runs a service of another name: what modules.h
\* says of it.
THEOREM CallsReachTheirService == ASSUME HashesDiffer PROVE Spec => []CallsTheNamedService
<1>1. Init => CalledByName
  BY DEF Init, CalledByName
<1>2. CalledByName => CallsTheNamedService
  BY DEF CalledByName, CallsTheNamedService
<1>3. ASSUME TypeOK, ServicesInv, NamesHashed, CalledByName, [Next]_vars PROVE CalledByName'
  BY <1>3, CalledByNameStep
<1>4. QED
  BY <1>1, <1>2, <1>3, ServicesTypeCorrect, ServicesInvariant, NamesHashedInvariant, PTL DEF Spec

-------------------------------------------------------------------------------
(* Dispatcher.                                                               *)

Requests == [kind : {"string", "object"}, from : Address, library : Library,
             gameObject : Object]

\* A request on top of the stack.
LEMMA PassedOn ==
  ASSUME NEW kind \in {"string", "object"}, NEW from \in Address, NEW l \in Library,
         NEW o \in Object, stack \in Seq(Requests),
         stack' = Request(kind, from, l, o)
  PROVE  /\ stack' \in Seq(Requests)
         /\ Len(stack') = Len(stack) + 1
         /\ \A d \in 1..Len(stack) : stack'[d] = stack[d]
         /\ stack'[Len(stack')].from = from
<1> DEFINE r == [kind |-> kind, from |-> from, library |-> l, gameObject |-> o]
<1>1. r \in Requests /\ stack' = Append(stack, r)
  BY DEF Request, Requests
<1> HIDE DEF r
<1>2. /\ stack' \in Seq(Requests)
      /\ Len(stack') = Len(stack) + 1
      /\ \A d \in 1..Len(stack) : stack'[d] = stack[d]
      /\ stack'[Len(stack')] = r
  BY <1>1, AppendProperties
<1>3. r.from = from
  BY DEF r
<1>4. QED
  BY <1>2, <1>3

\* A request taken off the stack.
LEMMA RequestPopped ==
  ASSUME stack \in Seq(Requests), stack # <<>>,
         stack' = SubSeq(stack, 1, Len(stack) - 1)
  PROVE  /\ stack' \in Seq(Requests)
         /\ Len(stack') = Len(stack) - 1
         /\ \A d \in 1..Len(stack') : stack'[d] = stack[d]
<1>1. Len(stack) \in Nat /\ Len(stack) >= 1
  BY EmptySeq
<1> DEFINE n == Len(stack) - 1
<1>2. n \in Nat /\ n + 1 = Len(stack)
  BY <1>1
<1>3. \A i \in 1..n : stack[i] \in Requests
  <2>1. \A i \in 1..n : i \in 1..Len(stack)
    BY <1>2
  <2>2. QED
    BY <2>1, ElementOfSeq
<1> HIDE DEF n
<1>4. stack' = SubSeq(stack, 1, n)
  BY DEF n
<1>5. /\ SubSeq(stack, 1, n) \in Seq(Requests)
      /\ Len(SubSeq(stack, 1, n)) = n
      /\ \A d \in 1..n : SubSeq(stack, 1, n)[d] = stack[d]
  BY <1>2, <1>3, SubSeqProperties
<1>6. QED
  BY <1>2, <1>4, <1>5

\* The answer of GetObject, whatever it is.
LEMMA AnsweredType ==
  ASSUME NEW owed \in Object \cup {NULL}, NEW r \in BOOLEAN, NEW res \in Object \cup {NULL},
         NEW stored \in Object \cup {NULL}, Answered(owed, r, res, stored)
  PROVE  /\ ObjRet' \in BOOLEAN
         /\ oRes' \in Object \cup {NULL}
         /\ answer' \in [owed : Object \cup {NULL}, given : Object \cup {NULL}]
BY DEF Answered

LEMMA DispatcherTypeInit == DispatcherInit => DispatcherTypeOK
<1> SUFFICES ASSUME DispatcherInit PROVE DispatcherTypeOK
  OBVIOUS
<1>1. init \in IF phase \in {"loading", "running"} THEN {NULL, "0"} ELSE {NULL, "0", "1"}
  BY DEF DispatcherInit
<1>2. stack \in Seq(Requests)
  BY EmptySeq DEF DispatcherInit
<1>3. /\ phase \in {"off", "plain", "loading", "running"}
      /\ returnAddr \in Address \cup {NULL} /\ ObjReturnAddr \in Address \cup {NULL}
      /\ ObjRet \in BOOLEAN /\ oRes \in Object \cup {NULL}
      /\ saved \in {NULL, "0", "1"}
      /\ ranPlain \in BOOLEAN
  BY DEF DispatcherInit
<1>4. answer \in [owed : Object \cup {NULL}, given : Object \cup {NULL}]
  BY DEF DispatcherInit
<1>5. QED
  BY <1>1, <1>2, <1>3, <1>4 DEF DispatcherTypeOK, Requests

LEMMA DispatcherTypeStep == DispatcherTypeOK /\ [DispatcherNext]_dispatcherVars => DispatcherTypeOK'
<1> SUFFICES ASSUME DispatcherTypeOK, [DispatcherNext]_dispatcherVars PROVE DispatcherTypeOK'
  OBVIOUS
<1>0. stack \in Seq(Requests)
  BY DEF DispatcherTypeOK, Requests
<1>1. ASSUME NEW p \in {"loading", "plain"}, Start(p) PROVE DispatcherTypeOK'
  <2>1. init' \in IF phase' \in {"loading", "running"} THEN {NULL, "0"} ELSE {NULL, "0", "1"}
    <3>1. CASE p = "plain"
      BY <1>1, <3>1 DEF DispatcherTypeOK, Start
    <3>2. CASE p = "loading"
      BY <1>1, <3>2 DEF Start
    <3>3. QED
      BY <3>1, <3>2
  <2>2. phase' \in {"off", "plain", "loading", "running"}
    BY <1>1 DEF Start
  <2>3. ranPlain' \in BOOLEAN
    BY <1>1 DEF Start
  <2>4. QED
    BY <1>1, <2>1, <2>2, <2>3 DEF DispatcherTypeOK, Start
<1>2. CASE ModuleIsLoaded
  BY <1>2 DEF DispatcherTypeOK, ModuleIsLoaded
<1>3. CASE PlainInit
  BY <1>3 DEF DispatcherTypeOK, PlainInit
<1>4. CASE Save
  BY <1>4 DEF DispatcherTypeOK, Save
<1>5. CASE Stop
  <2>1. init' \in {NULL, "0", "1"}
    <3>1. CASE phase \in {"loading", "running"}
      BY <1>5, <3>1 DEF DispatcherTypeOK, Stop
    <3>2. CASE phase \notin {"loading", "running"}
      BY <1>5, <3>2 DEF DispatcherTypeOK, Stop
    <3>3. QED
      BY <3>1, <3>2
  <2>2. phase' = "off"
    BY <1>5 DEF Stop
  <2>3. init' \in IF phase' \in {"loading", "running"} THEN {NULL, "0"} ELSE {NULL, "0", "1"}
    BY <2>1, <2>2
  <2>4. stack' \in Seq(Requests)
    BY <1>5, EmptySeq DEF Stop
  <2>5. QED
    BY <1>5, <2>2, <2>3, <2>4 DEF DispatcherTypeOK, Stop, Requests
<1>6. CASE SetInit
  BY <1>6 DEF DispatcherTypeOK, SetInit, InitString, Address, Script, Server
<1>7. ASSUME NEW stored \in Object, GetInit(stored) PROVE DispatcherTypeOK'
  <2>1. Answered(stored, ObjRet, oRes, stored)
    BY <1>7 DEF GetInit
  <2>2. /\ ObjRet' \in BOOLEAN
        /\ oRes' \in Object \cup {NULL}
        /\ answer' \in [owed : Object \cup {NULL}, given : Object \cup {NULL}]
    BY <2>1, AnsweredType DEF DispatcherTypeOK
  <2>3. QED
    BY <1>7, <2>2 DEF DispatcherTypeOK, GetInit, Address, Script
<1>8. ASSUME NEW from \in Address, NEW l \in Library \cup {NULL}, NEW o \in Object,
             SetString(from, l, o)
      PROVE  DispatcherTypeOK'
  <2>1. stack' \in Seq(Requests)
    BY <1>0, <1>8, PassedOn DEF SetString
  <2>2. returnAddr' \in Address \cup {NULL}
    BY <1>8 DEF SetString, Grabbed, DispatcherTypeOK
  <2>3. QED
    BY <1>8, <2>1, <2>2 DEF DispatcherTypeOK, SetString, Requests
<1>9. CASE OnRequestReturns
  BY <1>0, <1>9, RequestPopped DEF DispatcherTypeOK, OnRequestReturns, Requests
<1>10. ASSUME NEW from \in Address, NEW l \in Library \cup {NULL}, NEW o \in Object,
              NEW stored \in Object, GetObject(from, l, o, stored)
       PROVE  DispatcherTypeOK'
  <2>1. stack' \in Seq(Requests)
    BY <1>0, <1>10, PassedOn DEF GetObject
  <2>2. ObjReturnAddr' \in Address \cup {NULL}
    BY <1>10 DEF GetObject, Grabbed, DispatcherTypeOK
  <2>3. /\ ObjRet' \in BOOLEAN
        /\ oRes' \in Object \cup {NULL}
        /\ answer' \in [owed : Object \cup {NULL}, given : Object \cup {NULL}]
    <3>1. CASE Answered(stored, ObjRet, oRes, stored)
      BY <3>1, AnsweredType DEF DispatcherTypeOK
    <3>2. CASE UNCHANGED <<ObjRet, oRes, answer>>
      BY <3>2 DEF DispatcherTypeOK
    <3>3. QED
      BY <1>10, <3>1, <3>2 DEF GetObject
  <2>4. QED
    BY <1>10, <2>1, <2>2, <2>3 DEF DispatcherTypeOK, GetObject, Requests
<1>11. ASSUME NEW from \in Address, NEW stored \in Object, GetPlainObject(from, stored)
       PROVE  DispatcherTypeOK'
  <2>1. /\ ObjRet' \in BOOLEAN
        /\ oRes' \in Object \cup {NULL}
        /\ answer' \in [owed : Object \cup {NULL}, given : Object \cup {NULL}]
    BY <1>11, AnsweredType DEF GetPlainObject, DispatcherTypeOK
  <2>2. QED
    BY <1>11, <2>1 DEF DispatcherTypeOK, GetPlainObject
<1>12. ASSUME NEW r \in Object, OnRequestObjectReturns(r) PROVE DispatcherTypeOK'
  <2>1. stack' \in Seq(Requests)
    BY <1>0, <1>12, RequestPopped DEF OnRequestObjectReturns
  <2>2. Answered(r, TRUE, r, NULL)
    BY <1>12 DEF OnRequestObjectReturns
  <2>3. /\ ObjRet' \in BOOLEAN
        /\ oRes' \in Object \cup {NULL}
        /\ answer' \in [owed : Object \cup {NULL}, given : Object \cup {NULL}]
    BY <2>2, AnsweredType
  <2>4. QED
    BY <1>12, <2>1, <2>3 DEF DispatcherTypeOK, OnRequestObjectReturns, Requests
<1>13. CASE UNCHANGED dispatcherVars
  BY <1>13 DEF DispatcherTypeOK, dispatcherVars
<1>14. ASSUME Start("loading") \/ Start("plain") PROVE DispatcherTypeOK'
  BY <1>1, <1>14
<1>15. ASSUME DispatcherNext PROVE DispatcherTypeOK'
  BY <1>2, <1>3, <1>4, <1>5, <1>6, <1>7, <1>8, <1>9, <1>10, <1>11, <1>12, <1>14, <1>15, Zenon
     DEF DispatcherNext
<1>16. QED
  BY <1>13, <1>15

\* Type correctness; NWNX!INIT is never "1" while the extender loads or runs.
THEOREM DispatcherTypeCorrect == DispatcherSpec => []DispatcherTypeOK
BY DispatcherTypeInit, DispatcherTypeStep, PTL DEF DispatcherSpec

-------------------------------------------------------------------------------
(* TellsScriptsFromServer.  It needs NeverOne: the server itself sets          *)
(* NWNX!INIT only to what was saved, and that is never "1", so the address is  *)
(* always given away by a script.  The type invariant is used for the stack.   *)

LEMMA DispatcherInvInit == DispatcherInit => ScriptsInv
<1> SUFFICES ASSUME DispatcherInit PROVE ScriptsInv
  OBVIOUS
<1>1. NeverOne /\ ObjReturnAddr # Server /\ returnAddr # Server
  BY DispatcherAssumption DEF DispatcherInit, NeverOne, Address
<1>2. stack = <<>> /\ Len(stack) = 0
  BY EmptySeq DEF DispatcherInit
<1>3. QED
  BY <1>1, <1>2 DEF ScriptsInv, ScriptsOnly

\* Nothing that leaves the stack alone disturbs what is known of it.
LEMMA DispatcherInvSameStack ==
  ASSUME ScriptsInv, stack' = stack, NeverOne', ObjReturnAddr' # Server,
         returnAddr' # Server
  PROVE  ScriptsInv'
BY DEF ScriptsInv, ScriptsOnly

\* A request is passed on only for a script.
LEMMA DispatcherInvPassedOn ==
  ASSUME ScriptsInv, stack \in Seq(Requests), NeverOne', ObjReturnAddr' # Server,
         returnAddr' # Server,
         NEW kind \in {"string", "object"}, NEW l \in Library, NEW o \in Object,
         stack' = Request(kind, Script, l, o)
  PROVE  ScriptsInv'
<1>1. /\ stack' \in Seq(Requests)
      /\ Len(stack') = Len(stack) + 1
      /\ \A d \in 1..Len(stack) : stack'[d] = stack[d]
      /\ stack'[Len(stack')].from = Script
  BY PassedOn DEF Address
<1>2. Len(stack) \in Nat
  BY LenProperties
<1>3. \A d \in 1..Len(stack') : d \in 1..Len(stack) \/ d = Len(stack')
  BY <1>1, <1>2
<1>4. \A d \in 1..Len(stack') : stack'[d].from = Script
  BY <1>1, <1>3 DEF ScriptsInv, ScriptsOnly
<1>5. QED
  BY <1>4 DEF ScriptsInv, ScriptsOnly

LEMMA DispatcherInvPopped ==
  ASSUME ScriptsInv, stack \in Seq(Requests), stack # <<>>,
         stack' = SubSeq(stack, 1, Len(stack) - 1), NeverOne', ObjReturnAddr' # Server,
         returnAddr' # Server
  PROVE  ScriptsInv'
<1>1. /\ Len(stack') = Len(stack) - 1
      /\ \A d \in 1..Len(stack') : stack'[d] = stack[d]
  BY RequestPopped
<1>2. Len(stack) \in Nat
  BY LenProperties
<1>3. \A d \in 1..Len(stack') : d \in 1..Len(stack)
  BY <1>1, <1>2
<1>4. \A d \in 1..Len(stack') : stack'[d].from = Script
  BY <1>1, <1>3 DEF ScriptsInv, ScriptsOnly
<1>5. QED
  BY <1>4 DEF ScriptsInv, ScriptsOnly

LEMMA DispatcherInvStep ==
  ASSUME ~nwnxinitdisabled, DispatcherTypeOK, ScriptsInv, [DispatcherNext]_dispatcherVars, ~ranPlain'
  PROVE  ScriptsInv'
<1>0. /\ stack \in Seq(Requests)
      /\ NeverOne /\ ObjReturnAddr # Server /\ returnAddr # Server
      /\ NULL \notin Library
  BY DispatcherAssumption DEF DispatcherTypeOK, Requests, ScriptsInv, ScriptsOnly
<1>1. CASE Start("loading")
  <2>1. NeverOne'
    BY <1>0, <1>1, DispatcherAssumption DEF Start, NeverOne
  <2>2. QED
    BY <1>0, <1>1, <2>1, DispatcherInvSameStack DEF Start
<1>15. ~Start("plain")
  BY DEF Start
<1>2. CASE ModuleIsLoaded
  <2>1. NeverOne'
    BY <1>0, <1>2 DEF ModuleIsLoaded, NeverOne
  <2>2. QED
    BY <1>0, <1>2, <2>1, DispatcherInvSameStack DEF ModuleIsLoaded
<1>3. ~PlainInit
  BY <1>0 DEF PlainInit, NeverOne
<1>4. CASE Save
  <2>1. NeverOne'
    BY <1>0, <1>4 DEF Save, NeverOne
  <2>2. QED
    BY <1>0, <1>4, <2>1, DispatcherInvSameStack DEF Save
<1>5. CASE Stop
  <2>1. NeverOne' /\ ObjReturnAddr' # Server /\ returnAddr' # Server
    BY <1>0, <1>5, DispatcherAssumption DEF Stop, NeverOne, Address
  <2>2. stack' = <<>> /\ Len(stack') = 0
    BY <1>5, EmptySeq DEF Stop
  <2>3. QED
    BY <2>1, <2>2 DEF ScriptsInv, ScriptsOnly
<1>6. CASE SetInit
  <2>1. CASE phase = "loading" /\ saved # NULL /\ InitString(Server, saved)
    <3>1. saved # "1"
      BY <1>0 DEF NeverOne
    <3>2. NeverOne' /\ returnAddr' = returnAddr
      BY <1>0, <1>6, <2>1, <3>1 DEF SetInit, InitString, NeverOne
    <3>3. QED
      BY <1>0, <1>6, <3>2, DispatcherInvSameStack DEF SetInit
  <2>2. CASE phase = "running" /\ InitString(Script, "1")
    <3>1. NeverOne' /\ returnAddr' # Server
      BY <1>0, <1>6, <2>2 DEF SetInit, InitString, NeverOne, Script, Server
    <3>2. QED
      BY <1>0, <1>6, <3>1, DispatcherInvSameStack DEF SetInit
  <2>3. QED
    BY <1>6, <2>1, <2>2 DEF SetInit
<1>7. ASSUME NEW stored \in Object, GetInit(stored) PROVE ScriptsInv'
  <2>1. NeverOne' /\ ObjReturnAddr' # Server
    BY <1>0, <1>7 DEF GetInit, NeverOne, Script, Server
  <2>2. QED
    BY <1>0, <1>7, <2>1, DispatcherInvSameStack DEF GetInit
<1>8. ASSUME NEW from \in Address, NEW l \in Library \cup {NULL}, NEW o \in Object,
             SetString(from, l, o)
      PROVE  ScriptsInv'
  <2>1. NeverOne' /\ ObjReturnAddr' # Server /\ returnAddr' = returnAddr
    BY <1>0, <1>8 DEF SetString, Grabbed, NeverOne
  <2>2. CASE returnAddr' = from /\ l # NULL
    <3>1. from = Script /\ l \in Library
      BY <1>0, <2>1, <2>2 DEF Address
    <3>2. stack' = Request("string", Script, l, o)
      BY <1>8, <2>2, <3>1 DEF SetString
    <3>3. QED
      BY <1>0, <2>1, <3>1, <3>2, DispatcherInvPassedOn
  <2>3. CASE ~(returnAddr' = from /\ l # NULL)
    BY <1>0, <1>8, <2>1, <2>3, DispatcherInvSameStack DEF SetString
  <2>4. QED
    BY <2>2, <2>3
<1>9. CASE OnRequestReturns
  <2>1. NeverOne'
    BY <1>0, <1>9 DEF OnRequestReturns, NeverOne
  <2>2. QED
    BY <1>0, <1>9, <2>1, DispatcherInvPopped DEF OnRequestReturns
<1>10. ASSUME NEW from \in Address, NEW l \in Library \cup {NULL}, NEW o \in Object,
              NEW stored \in Object, GetObject(from, l, o, stored)
       PROVE  ScriptsInv'
  <2>1. NeverOne' /\ ObjReturnAddr' = ObjReturnAddr /\ returnAddr' = returnAddr
    BY <1>0, <1>10 DEF GetObject, Grabbed, NeverOne
  <2>2. CASE ObjReturnAddr' = from /\ l # NULL
    <3>1. from = Script /\ l \in Library
      BY <1>0, <2>1, <2>2 DEF Address
    <3>2. stack' = Request("object", Script, l, o)
      BY <1>10, <2>2, <3>1 DEF GetObject
    <3>3. QED
      BY <1>0, <2>1, <3>1, <3>2, DispatcherInvPassedOn
  <2>3. CASE ~(ObjReturnAddr' = from /\ l # NULL)
    BY <1>0, <1>10, <2>1, <2>3, DispatcherInvSameStack DEF GetObject
  <2>4. QED
    BY <2>2, <2>3
<1>11. ASSUME NEW from \in Address, NEW stored \in Object, GetPlainObject(from, stored)
       PROVE  ScriptsInv'
  <2>1. NeverOne'
    BY <1>0, <1>11 DEF GetPlainObject, NeverOne
  <2>2. QED
    BY <1>0, <1>11, <2>1, DispatcherInvSameStack DEF GetPlainObject
<1>12. ASSUME NEW r \in Object, OnRequestObjectReturns(r) PROVE ScriptsInv'
  <2>1. NeverOne'
    BY <1>0, <1>12 DEF OnRequestObjectReturns, NeverOne
  <2>2. QED
    BY <1>0, <1>12, <2>1, DispatcherInvPopped DEF OnRequestObjectReturns
<1>13. CASE UNCHANGED dispatcherVars
  <2>1. NeverOne'
    BY <1>0, <1>13 DEF dispatcherVars, NeverOne
  <2>2. QED
    BY <1>0, <1>13, <2>1, DispatcherInvSameStack DEF dispatcherVars
<1>14. ASSUME DispatcherNext PROVE ScriptsInv'
  BY <1>1, <1>2, <1>3, <1>4, <1>5, <1>6, <1>7, <1>8, <1>9, <1>10, <1>11, <1>12, <1>14, <1>15, Zenon
     DEF DispatcherNext
<1>16. QED
  BY <1>13, <1>14

\* Once the module has been run without the extender it always has been.
LEMMA RanPlainStays ==
  ASSUME [DispatcherNext]_dispatcherVars, ~ranPlain'
  PROVE  ~ranPlain
<1>1. ASSUME NEW p, Start(p) PROVE ~ranPlain
  BY <1>1 DEF Start
<1>2. CASE ModuleIsLoaded \/ PlainInit \/ Save \/ Stop \/ SetInit
  BY <1>2 DEF ModuleIsLoaded, PlainInit, Save, Stop, SetInit
<1>3. ASSUME NEW from, NEW l, NEW o, SetString(from, l, o) PROVE ~ranPlain
  BY <1>3 DEF SetString
<1>4. ASSUME NEW from, NEW l, NEW o, NEW stored, GetObject(from, l, o, stored) PROVE ~ranPlain
  BY <1>4 DEF GetObject
<1>5. ASSUME NEW from, NEW stored, GetInit(stored) \/ GetPlainObject(from, stored)
      PROVE  ~ranPlain
  BY <1>5 DEF GetInit, GetPlainObject
<1>6. ASSUME NEW r, OnRequestReturns \/ OnRequestObjectReturns(r) PROVE ~ranPlain
  BY <1>6 DEF OnRequestReturns, OnRequestObjectReturns
<1>7. CASE UNCHANGED dispatcherVars
  BY <1>7 DEF dispatcherVars
<1>8. ASSUME DispatcherNext PROVE ~ranPlain
  BY <1>1, <1>2, <1>3, <1>4, <1>5, <1>6, <1>8, Zenon DEF DispatcherNext
<1>9. QED
  BY <1>7, <1>8

\* Unless the option disablenwnxinit is set, and as long as the module is never
\* run without the extender, no call of the server itself is ever passed on to a
\* plugin or taken for the script interpreter's, through any number of saves,
\* restarts and nested requests.
THEOREM OnlyScriptsPass ==
  ASSUME ~nwnxinitdisabled
  PROVE  DispatcherSpec => []TellsScriptsFromServer
<1>1. DispatcherInit => DispatcherInv
  BY DispatcherInvInit DEF DispatcherInv
<1>2. DispatcherTypeOK /\ DispatcherInv /\ [DispatcherNext]_dispatcherVars => DispatcherInv'
  <2> SUFFICES ASSUME DispatcherTypeOK, DispatcherInv, [DispatcherNext]_dispatcherVars, ~ranPlain' PROVE ScriptsInv'
    BY DEF DispatcherInv
  <2>1. ScriptsInv
    BY RanPlainStays DEF DispatcherInv
  <2>2. QED
    BY <2>1, DispatcherInvStep
<1>3. DispatcherInv => TellsScriptsFromServer
  BY DEF DispatcherInv, ScriptsInv, TellsScriptsFromServer
<1>4. QED
  BY <1>1, <1>2, <1>3, DispatcherTypeCorrect, PTL DEF DispatcherSpec

-------------------------------------------------------------------------------
(* GetObjectAnswers.  It needs ~ObjRet: the flag that ObjectPayLoad raises is  *)
(* lowered by the same call of my_GetObject, before any other can look at it.  *)

LEMMA AnsweredRight ==
  ASSUME ~ObjRet, NEW owed, NEW r, NEW res, NEW stored, Answered(owed, r, res, stored),
         owed = IF r THEN res ELSE stored
  PROVE  AnswerInv'
BY DEF Answered, AnswerInv, GetObjectAnswers

LEMMA DispatcherAnswerStep == AnswerInv /\ [DispatcherNext]_dispatcherVars => AnswerInv'
<1> SUFFICES ASSUME AnswerInv, [DispatcherNext]_dispatcherVars PROVE AnswerInv'
  OBVIOUS
<1>0. ~ObjRet
  BY DEF AnswerInv
<1>1. ASSUME NEW p, Start(p) PROVE AnswerInv'
  BY <1>1 DEF Start, AnswerInv, GetObjectAnswers
<1>2. CASE ModuleIsLoaded \/ PlainInit \/ Save \/ Stop \/ SetInit \/ OnRequestReturns
  BY <1>2 DEF ModuleIsLoaded, PlainInit, Save, Stop, SetInit, OnRequestReturns, AnswerInv,
              GetObjectAnswers
<1>3. ASSUME NEW from, NEW l, NEW o, SetString(from, l, o) PROVE AnswerInv'
  BY <1>3 DEF SetString, AnswerInv, GetObjectAnswers
<1>4. ASSUME NEW from, NEW l, NEW o, NEW stored, GetObject(from, l, o, stored)
      PROVE  AnswerInv'
  <2>1. CASE Answered(stored, ObjRet, oRes, stored)
    BY <1>0, <2>1, AnsweredRight
  <2>2. CASE UNCHANGED <<ObjRet, oRes, answer>>
    BY <2>2 DEF AnswerInv, GetObjectAnswers
  <2>3. QED
    BY <1>4, <2>1, <2>2 DEF GetObject
<1>5. ASSUME NEW stored, GetInit(stored) PROVE AnswerInv'
  BY <1>0, <1>5, AnsweredRight DEF GetInit
<1>6. ASSUME NEW from, NEW stored, GetPlainObject(from, stored) PROVE AnswerInv'
  BY <1>0, <1>6, AnsweredRight DEF GetPlainObject
<1>7. ASSUME NEW r, OnRequestObjectReturns(r) PROVE AnswerInv'
  BY <1>0, <1>7, AnsweredRight DEF OnRequestObjectReturns
<1>8. CASE UNCHANGED dispatcherVars
  BY <1>8 DEF dispatcherVars, AnswerInv, GetObjectAnswers
<1>9. ASSUME DispatcherNext PROVE AnswerInv'
  BY <1>1, <1>2, <1>3, <1>4, <1>5, <1>6, <1>7, <1>9, Zenon DEF DispatcherNext
<1>10. QED
  BY <1>8, <1>9

\* A script that reads a local object gets the answer of the plugin it asked,
\* and the stored object for any other name, whatever requests nest in it and
\* with or without the option.
THEOREM AnswersArrive == DispatcherSpec => []GetObjectAnswers
<1>1. DispatcherInit => AnswerInv
  BY DEF DispatcherInit, AnswerInv, GetObjectAnswers
<1>2. AnswerInv => GetObjectAnswers
  BY DEF AnswerInv
<1>3. QED
  BY <1>1, <1>2, DispatcherAnswerStep, PTL DEF DispatcherSpec

-------------------------------------------------------------------------------
(* The three parts in one run.                                               *)

\* A part of MCCore.tla that runs beside the others does nothing it would not do
\* alone: what is proved of each holds of the composition.
THEOREM CorePartsRunAlone == CoreSpec => Spec /\ SearchInit /\ [][SearchNext]_searchVars /\ DispatcherSpec
<1>1. CoreInit => Init /\ SearchInit /\ DispatcherInit
  BY DEF CoreInit
<1>2. [ServicesNext \/ LoopNext \/ CallsNext]_<<vars, searchVars, dispatcherVars, running>>
        => [Next]_vars /\ [SearchNext]_searchVars /\ [DispatcherNext]_dispatcherVars
  BY DEF ServicesNext, LoopNext, CallsNext
<1>3. QED
  BY <1>1, <1>2, PTL DEF CoreSpec, Spec, DispatcherSpec
===============================================================================
