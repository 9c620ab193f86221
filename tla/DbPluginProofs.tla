---------------------------- MODULE DbPluginProofs ----------------------------
(***************************************************************************)
(* Proofs about the queries of the DB plugin: the parameters P_EXECUTE is  *)
(* given are checked for the statement that it runs, and each database     *)
(* gives scripts the rows they may expect (ResultRows).                    *)
(***************************************************************************)
EXTENDS DbPlugin, SequenceTheorems, TLAPS

LEMMA EmptyIff == ASSUME NEW S, NEW s \in Seq(S) PROVE s = <<>> <=> Len(s) = 0
BY EmptySeq

\* <<e>> \o t, taken apart.
LEMMA Cons ==
  ASSUME NEW S, NEW e \in S, NEW t \in Seq(S)
  PROVE  /\ <<e>> \o t \in Seq(S)
         /\ <<e>> \o t # <<>>
         /\ Head(<<e>> \o t) = e
         /\ Tail(<<e>> \o t) = t
         /\ <<e>> \o t = <<e>> <=> t = <<>>
<1> DEFINE c == <<e>> \o t
<1>1. <<e>> \in Seq(S) /\ Len(<<e>>) = 1 /\ <<e>>[1] = e /\ Len(t) \in Nat
  OBVIOUS
<1>2. /\ c \in Seq(S)
      /\ Len(c) = 1 + Len(t)
      /\ \A i \in 1..(1 + Len(t)) : c[i] = IF i <= 1 THEN e ELSE t[i - 1]
  BY <1>1, ConcatProperties
<1>3. c # <<>> /\ Head(c) = e
  BY <1>1, <1>2
<1>4. Tail(c) = t
  <2>1. /\ Tail(c) \in Seq(S)
        /\ Len(Tail(c)) = Len(t)
        /\ \A i \in 1..Len(t) : Tail(c)[i] = c[i + 1]
    BY <1>1, <1>2, <1>3, HeadTailProperties
  <2>2. \A i \in 1..Len(t) : Tail(c)[i] = t[i]
    BY <1>1, <1>2, <2>1
  <2>3. QED
    BY <2>1, <2>2, SeqEqual
<1>5. c = <<e>> <=> t = <<>>
  <2>1. c = <<e>> => t = <<>>
    BY <1>1, <1>2, EmptyIff
  <2>2. t = <<>> => c = <<e>>
    BY <1>1, ConcatEmptySeq
  <2>3. QED
    BY <2>1, <2>2
<1>6. QED
  BY <1>2, <1>3, <1>4, <1>5

LEMMA ConsRows ==
  ASSUME NEW e \in Seq(Row), NEW t \in Seq(Seq(Row))
  PROVE  /\ <<e>> \o t # <<>>
         /\ Head(<<e>> \o t) = e
         /\ Tail(<<e>> \o t) = t
         /\ <<e>> \o t = <<e>> <=> t = <<>>
<1> DEFINE S == Seq(Row)
<1> HIDE DEF S
<1>1. e \in S /\ t \in Seq(S)
  BY DEF S
<1>2. QED
  BY <1>1, Cons, SMTT(60)

\* A sequence of one element.
LEMMA Singleton ==
  ASSUME NEW S, NEW s \in Seq(S), Len(s) = 1
  PROVE  s = <<s[1]>> /\ Head(s) = s[1] /\ Tail(s) = <<>> /\ s # <<>>
<1>1. s[1] \in S /\ <<s[1]>> \in Seq(S) /\ Len(<<s[1]>>) = 1
  OBVIOUS
<1>2. s = <<s[1]>>
  BY <1>1, SeqEqual
<1>3. s # <<>> /\ Head(s) = s[1]
  OBVIOUS
<1>4. Tail(s) \in Seq(S) /\ Len(Tail(s)) = 0
  BY <1>3, HeadTailProperties
<1>5. Tail(s) = <<>>
  BY <1>4, EmptyIff
<1>6. QED
  BY <1>2, <1>3, <1>5
-------------------------------------------------------------------------------
(* What is due of some result sets.                                          *)

LEMMA DueOfNone == ASSUME NEW k PROVE DueOf(<<>>, k) = <<>>
BY DEF DueOf, Null

\* Of sets nothing was taken of, all are due.
LEMMA DueOfAll ==
  ASSUME NEW sets \in Seq(Seq(Row))
  PROVE  DueOf(sets, 0) = Contract!Left(sets)
<1>1. CASE sets = <<>>
  BY <1>1, DueOfNone DEF Contract!Left
<1>2. CASE sets # <<>>
  <2> DEFINE h == Head(sets)
  <2>1. h \in Seq(Row) /\ Len(h) \in Nat
    BY <1>2, HeadTailProperties
  <2>2. SubSeq(h, 0 + 1, Len(h)) = h
    BY <2>1, SubSeqFull
  <2>3. <<h>> \o Tail(sets) = sets
    BY <1>2
  <2>4. DueOf(sets, 0) = IF h = <<>> /\ Len(sets) = 1 THEN <<>> ELSE sets
    BY <1>2, <2>2, <2>3 DEF DueOf, Null
  <2>5. (h = <<>> /\ Len(sets) = 1) <=> sets = << <<>> >>
    BY <1>2
  <2>6. QED
    BY <2>4, <2>5 DEF Contract!Left
<1>3. QED
  BY <1>1, <1>2

\* A row that is taken was the next one due.
LEMMA DueOfRow ==
  ASSUME NEW sets \in Seq(Seq(Row)), sets # <<>>,
         NEW k \in Nat, k < Len(Head(sets))
  PROVE  /\ DueOf(sets, k) # <<>>
         /\ Head(DueOf(sets, k)) # <<>>
         /\ Head(Head(DueOf(sets, k))) = Head(sets)[k + 1]
         /\ DueOf(sets, k + 1)
              = Contract!Left(<<Tail(Head(DueOf(sets, k)))>> \o Tail(DueOf(sets, k)))
<1> DEFINE h == Head(sets)
<1> DEFINE rest == SubSeq(h, k + 1, Len(h))
<1>1. /\ h \in Seq(Row) /\ Len(h) \in Nat /\ k + 1 \in 1..Len(h)
      /\ Tail(sets) \in Seq(Seq(Row))
      /\ Len(sets) = 1 <=> Tail(sets) = <<>>
  <2>1. /\ h \in Seq(Row) /\ Tail(sets) \in Seq(Seq(Row))
        /\ Len(Tail(sets)) = Len(sets) - 1 /\ Len(sets) \in Nat
    BY HeadTailProperties
  <2>2. Len(Tail(sets)) = 0 <=> Tail(sets) = <<>>
    BY <2>1, EmptyIff
  <2>3. Len(h) \in Nat
    BY <2>1
  <2>4. QED
    BY <2>1, <2>2, <2>3, SMTT(60)
<1>2. Head(rest) = h[k + 1] /\ Tail(rest) = SubSeq(h, (k + 1) + 1, Len(h))
  BY <1>1, HeadTailOfSubSeq
<1>3. rest # <<>> /\ rest \in Seq(Row)
  <2>1. \A i \in (k + 1)..Len(h) : h[i] \in Row
    BY <1>1
  <2>2. rest \in Seq(Row) /\ Len(rest) = Len(h) - (k + 1) + 1
    BY <1>1, <2>1, SubSeqProperties
  <2>3. Len(rest) # 0
    BY <1>1, <2>2
  <2> HIDE DEF rest
  <2>4. QED
    BY <2>2, <2>3, EmptyIff
<1>4. DueOf(sets, k) = <<rest>> \o Tail(sets)
  BY <1>3 DEF DueOf, Null
<1>5. Head(DueOf(sets, k)) = rest /\ Tail(DueOf(sets, k)) = Tail(sets) /\ DueOf(sets, k) # <<>>
  <2> HIDE DEF rest
  <2>1. QED
    BY <1>1, <1>3, <1>4, ConsRows
<1>6. DueOf(sets, k + 1)
        = IF Tail(rest) = <<>> /\ Len(sets) = 1 THEN <<>> ELSE <<Tail(rest)>> \o Tail(sets)
  BY <1>2 DEF DueOf, Null
<1>7. Tail(rest) \in Seq(Row)
  BY <1>3, HeadTailProperties
<1>8. (Tail(rest) = <<>> /\ Len(sets) = 1) <=> <<Tail(rest)>> \o Tail(sets) = << <<>> >>
  <2>1. Head(<<Tail(rest)>> \o Tail(sets)) = Tail(rest)
    BY <1>1, <1>7, ConsRows
  <2> HIDE DEF rest
  <2>2. (<<Tail(rest)>> \o Tail(sets) = <<Tail(rest)>>) <=> Tail(sets) = <<>>
    BY <1>1, <1>7, ConsRows
  <2>3. Head(<< <<>> >>) = <<>>
    OBVIOUS
  <2>4. QED
    BY <1>1, <2>1, <2>2, <2>3
<1>9. QED
  BY <1>2, <1>3, <1>5, <1>6, <1>8 DEF Contract!Left

\* When the rows of a set are taken, the next set is due, if there is one.
LEMMA DueOfEnd ==
  ASSUME NEW sets \in Seq(Seq(Row)), sets # <<>>
  PROVE  LET d == DueOf(sets, Len(Head(sets)))
         IN IF Len(sets) = 1 THEN d = <<>>
            ELSE d # <<>> /\ Head(d) = <<>> /\ Tail(d) = Tail(sets)
<1> DEFINE h == Head(sets)
<1>1. h \in Seq(Row) /\ Len(h) \in Nat /\ Tail(sets) \in Seq(Seq(Row))
  BY HeadTailProperties
<1>2. SubSeq(h, Len(h) + 1, Len(h)) = <<>>
  BY <1>1, SubSeqEmpty
<1>3. DueOf(sets, Len(h)) = IF Len(sets) = 1 THEN <<>> ELSE << <<>> >> \o Tail(sets)
  BY <1>2 DEF DueOf, Null
<1>4. <<>> \in Seq(Row)
  OBVIOUS
<1>5. /\ << <<>> >> \o Tail(sets) # <<>>
      /\ Head(<< <<>> >> \o Tail(sets)) = <<>>
      /\ Tail(<< <<>> >> \o Tail(sets)) = Tail(sets)
  BY <1>1, <1>4, ConsRows
<1>6. QED
  BY <1>3, <1>5

\* Of several sets, the rest of the first is due and then the others.
LEMMA DueOfSeveral ==
  ASSUME NEW sets \in Seq(Seq(Row)), Len(sets) > 1, NEW k \in Nat, k <= Len(Head(sets))
  PROVE  LET d == DueOf(sets, k)
             rest == SubSeq(Head(sets), k + 1, Len(Head(sets)))
         IN /\ rest \in Seq(Row) /\ d = <<rest>> \o Tail(sets)
            /\ d # <<>> /\ Len(d) > 1 /\ Head(d) = rest /\ Tail(d) = Tail(sets)
            /\ Tail(sets) \in Seq(Seq(Row))
<1> DEFINE h == Head(sets)
<1> DEFINE rest == SubSeq(h, k + 1, Len(h))
<1>1. /\ sets # <<>> /\ Len(sets) \in Nat /\ h \in Seq(Row) /\ Len(h) \in Nat
      /\ Tail(sets) \in Seq(Seq(Row)) /\ Len(Tail(sets)) = Len(sets) - 1
  <2>1. sets # <<>>
    BY EmptyIff
  <2>2. QED
    BY <2>1, HeadTailProperties
<1>2. rest \in Seq(Row)
  <2>1. \A i \in (k + 1)..Len(h) : h[i] \in Row
    BY <1>1
  <2>2. k + 1 \in Int /\ Len(h) \in Int
    BY <1>1
  <2> HIDE DEF h
  <2>3. QED
    BY ONLY <2>1, <2>2, SubSeqProperties
<1>3. DueOf(sets, k) = <<rest>> \o Tail(sets)
  <2>1. \A n \in Nat : n > 1 => n # 1
    OBVIOUS
  <2>2. Len(sets) # 1 /\ sets # <<>>
    BY <1>1, <2>1, Zenon
  <2>3. QED
    BY ONLY <2>2 DEF DueOf, Null
<1> HIDE DEF rest
<1>4. /\ <<rest>> \o Tail(sets) # <<>>
      /\ Head(<<rest>> \o Tail(sets)) = rest
      /\ Tail(<<rest>> \o Tail(sets)) = Tail(sets)
  BY <1>1, <1>2, ConsRows
<1>5. Len(<<rest>> \o Tail(sets)) > 1
  <2>1. <<rest>> \in Seq(Seq(Row)) /\ Len(<<rest>>) = 1
    BY <1>2
  <2>2. Len(<<rest>> \o Tail(sets)) = 1 + Len(Tail(sets))
    BY <1>1, <2>1, ConcatProperties
  <2>3. QED
    BY <1>1, <2>2
<1>6. QED
  BY <1>1, <1>2, <1>3, <1>4, <1>5 DEF rest

\* What is stored of some sets, and what is left when that is freed.
LEMMA StoredIs ==
  ASSUME NEW sets \in Seq(Seq(Row))
  PROVE  /\ Stored(sets) \in Seq(Seq(Row)) /\ Len(Stored(sets)) <= 1
         /\ Stored(sets) = <<>> <=> sets = <<>>
         /\ Head(Stored(sets)) = Head(sets)
<1>1. CASE Len(sets) <= 1
  BY <1>1 DEF Stored
<1>2. CASE Len(sets) > 1
  <2>1. sets # <<>> /\ Head(sets) \in Seq(Row)
    <3>1. sets # <<>>
      BY <1>2, EmptyIff
    <3>2. QED
      BY <3>1, HeadTailProperties
  <2> DEFINE h == Head(sets)
  <2>2. <<h>> \in Seq(Seq(Row)) /\ Len(<<h>>) = 1 /\ Head(<<h>>) = h /\ <<h>> # <<>>
    BY <2>1
  <2>3. Stored(sets) = <<h>>
    BY <1>2 DEF Stored
  <2>4. QED
    BY <2>1, <2>2, <2>3
<1>3. Len(sets) \in Nat
  OBVIOUS
<1>4. QED
  BY <1>1, <1>2, <1>3

LEMMA UnstoredIs ==
  ASSUME NEW sets \in Seq(Seq(Row))
  PROVE  /\ Unstored(sets) \in Seq(Seq(Row))
         /\ Unstored(sets) # <<>> => Head(Unstored(sets)) = <<>> 
<1>1. CASE Len(sets) <= 1
  BY <1>1 DEF Unstored, Null
<1>2. CASE Len(sets) > 1
  <2>1. Tail(sets) \in Seq(Seq(Row))
    <3>1. sets # <<>>
      BY <1>2, EmptyIff
    <3>2. QED
      BY <3>1, HeadTailProperties
  <2>2. <<>> \in Seq(Row) /\ << <<>> >> \in Seq(Seq(Row))
    OBVIOUS
  <2>3. << <<>> >> \o Tail(sets) \in Seq(Seq(Row))
    BY <2>1, <2>2, ConcatProperties
  <2>4. Head(<< <<>> >> \o Tail(sets)) = <<>>
    BY <2>1, <2>2, ConsRows
  <2>5. QED
    BY <1>2, <2>3, <2>4 DEF Unstored
<1>3. Len(sets) \in Nat
  OBVIOUS
<1>4. QED
  BY <1>1, <1>2, <1>3

\* When what is pending is lost, the rest of the stored set is still due, and what was
\* pending comes after nothing.
LEMMA StoredIsDue ==
  ASSUME NEW sets \in Seq(Seq(Row)), Len(sets) > 1, NEW k \in Nat, k <= Len(Head(sets))
  PROVE  /\ DueOf(Stored(sets), k) = Contract!Left(<<Head(DueOf(sets, k))>>)
         /\ DueOf(Tail(sets), 0) = Contract!Left(Tail(DueOf(sets, k)))
<1> DEFINE h == Head(sets)
<1> DEFINE rest == SubSeq(h, k + 1, Len(h))
<1>1. /\ rest \in Seq(Row) /\ Head(DueOf(sets, k)) = rest
      /\ Tail(DueOf(sets, k)) = Tail(sets) /\ Tail(sets) \in Seq(Seq(Row))
  BY DueOfSeveral
<1>2. Stored(sets) = <<h>>
  BY DEF Stored
<1>3. DueOf(<<h>>, k) = IF rest = <<>> THEN <<>> ELSE <<rest>>
  <2>1. <<h>> # <<>> /\ Head(<<h>>) = h /\ Len(<<h>>) = 1 /\ Tail(<<h>>) = <<>>
    OBVIOUS
  <2>2. <<rest>> \in Seq(Seq(Row))
    BY <1>1
  <2>3. <<rest>> \o <<>> = <<rest>>
    BY <2>2, ConcatEmptySeq
  <2>4. QED
    BY <2>1, <2>3 DEF DueOf, Null
<1>4. <<rest>> = << <<>> >> <=> rest = <<>>
  <2>1. Head(<<rest>>) = rest /\ Head(<< <<>> >>) = <<>>
    OBVIOUS
  <2>2. QED
    BY <2>1
<1>5. DueOf(Tail(sets), 0) = Contract!Left(Tail(sets))
  BY <1>1, DueOfAll
<1> HIDE DEF h, rest
<1>6. QED
  BY <1>1, <1>2, <1>3, <1>4, <1>5 DEF Contract!Left

LEMMA StoredRemains ==
  ASSUME NEW sets \in Seq(Seq(Row)), NEW k \in Nat, sets # <<>> => k <= Len(Head(sets))
  PROVE  DueOf(Stored(sets), k) \in Contract!Remains(DueOf(sets, k))
<1>1. CASE Len(sets) <= 1
  BY <1>1 DEF Stored, Contract!Remains
<1>2. CASE Len(sets) > 1
  <2>1. sets # <<>>
    BY <1>2, EmptyIff
  <2>2. DueOf(sets, k) # <<>>
    BY <1>2, <2>1, DueOfSeveral
  <2>3. DueOf(Stored(sets), k) = Contract!Left(<<Head(DueOf(sets, k))>>)
    BY <1>2, <2>1, StoredIsDue
  <2>4. QED
    BY <2>2, <2>3 DEF Contract!Remains
<1>3. Len(sets) \in Nat
  OBVIOUS
<1>4. QED
  BY <1>1, <1>2, <1>3

LEMMA UnstoredRemains ==
  ASSUME NEW sets \in Seq(Seq(Row)), NEW k \in Nat, sets # <<>> => k <= Len(Head(sets))
  PROVE  DueOf(Unstored(sets), 0) \in Contract!Remains(DueOf(sets, k))
<1>1. CASE Len(sets) <= 1
  BY <1>1, DueOfNone DEF Unstored, Null, Contract!Remains
<1>2. CASE Len(sets) > 1
  <2>1. sets # <<>>
    BY <1>2, EmptyIff
  <2>2. DueOf(sets, k) # <<>> /\ Tail(DueOf(sets, k)) = Tail(sets)
    BY <1>2, <2>1, DueOfSeveral
  <2>3. Unstored(sets) = << <<>> >> \o Tail(sets)
    BY <1>2 DEF Unstored
  <2>4. DueOf(Unstored(sets), 0) = Contract!Left(Unstored(sets))
    BY UnstoredIs, DueOfAll
  <2>5. QED
    BY <2>2, <2>3, <2>4 DEF Contract!Remains
<1>3. Len(sets) \in Nat
  OBVIOUS
<1>4. QED
  BY <1>1, <1>2, <1>3

\* What the database returns: so many sets of rows of this query and run.
LEMMA AnswerSets ==
  ASSUME NEW q \in Nat, NEW n \in Nat, NEW sets \in ResultSets(q, n), runs \in Nat, MaxRows \in Nat
  PROVE  /\ sets \in Seq(Seq(Row))
         /\ Len(sets) = n
         /\ n = 1 => sets # <<>> /\ Head(sets) = sets[1] /\ sets = <<sets[1]>>
         /\ Contract!IsAnswerOf(sets, q, runs + 1)
         /\ Contract!IsAnswerOf(Contract!Left(sets), q, runs + 1)
<1>1. PICK size \in [1..n -> 0..MaxRows] :
        sets = [s \in 1..n |-> [i \in 1..size[s] |->
                  [query |-> q, run |-> runs + 1, set |-> s, row |-> i]]]
  BY DEF ResultSets
<1>2. ASSUME NEW s \in 1..n
      PROVE  sets[s] \in Seq(Row)
  <2>1. size[s] \in Nat
    BY <1>2
  <2>2. sets[s] = [i \in 1..size[s] |-> [query |-> q, run |-> runs + 1, set |-> s, row |-> i]]
    BY <1>1, <1>2
  <2>3. \A i \in 1..size[s] : [query |-> q, run |-> runs + 1, set |-> s, row |-> i] \in Row
    BY <1>2, <2>1 DEF Row
  <2>4. QED
    BY <2>1, <2>2, <2>3
<1>3. sets \in Seq(Seq(Row)) /\ Len(sets) = n
  BY <1>1, <1>2
<1>4. Contract!IsAnswerOf(sets, q, runs + 1)
  BY <1>1 DEF Contract!IsAnswerOf
<1>5. Contract!IsAnswerOf(Contract!Left(sets), q, runs + 1)
  BY <1>4 DEF Contract!IsAnswerOf, Contract!Left
<1>6. n = 1 => sets # <<>> /\ Head(sets) = sets[1] /\ sets = <<sets[1]>>
  BY <1>3, Singleton
<1>7. QED
  BY <1>3, <1>4, <1>5, <1>6
-------------------------------------------------------------------------------
(* The invariant of the cursors and the prepared statement.                  *)

LEMMA DbInitInv == DbInit => DbInv
<1> SUFFICES ASSUME DbInit PROVE DbInv
  OBVIOUS
<1>1. engine \in {"SQLITE", "PGSQL", "MYSQL"}
  BY DbAssumption DEF DbInit
<1>2. CursorInv
  BY DEF DbInit, CursorInv, Null
<1>3. StatementInv
  BY DEF DbInit, StatementInv, NoStatement, PreparedCountAgrees
<1>4. QED
  BY <1>1, <1>2, <1>3 DEF DbInit, DbInv

LEMMA CursorStays ==
  ASSUME CursorInv, UNCHANGED <<engine, resultVars>>
  PROVE  CursorInv'
BY DEF CursorInv, resultVars, CurrentSet, Null

LEMMA StatementStays ==
  ASSUME StatementInv, UNCHANGED <<engine, statementVars>>
  PROVE  StatementInv'
BY DEF StatementInv, statementVars, PreparedCountAgrees

\* No statement is left, or one was never run.
LEMMA StatementGone ==
  ASSUME StatementInv, UNCHANGED engine, statement' = NoStatement, lastBindParamCount' \in Int
  PROVE  StatementInv'
BY DEF StatementInv, NoStatement, PreparedCountAgrees

LEMMA NewStatement ==
  ASSUME StatementInv, UNCHANGED engine, engine # "SQLITE", NEW q \in Nat \ {0}, NEW n \in Nat,
         statement' = [NoStatement EXCEPT !.query = q, !.params = n],
         lastBindParamCount' \in {-1, n}
  PROVE  StatementInv'
<1>1. statement' = [query |-> q, params |-> n, sets |-> <<>>, position |-> 0]
  BY DEF NoStatement
<1>2. <<>> \in Seq(Seq(Row))
  OBVIOUS
<1>3. statement' \in [query : Nat, params : Nat, sets : Seq(Seq(Row)), position : Nat]
  <2>1. q \in Nat /\ n \in Nat /\ 0 \in Nat
    OBVIOUS
  <2>2. QED
    BY ONLY <1>1, <1>2, <2>1
<1>4. /\ statement'.sets = <<>>
      /\ statement'.query # 0
      /\ lastBindParamCount' \in Int
      /\ lastBindParamCount' # -1 => statement'.params = lastBindParamCount'
  <2>1. statement'.sets = <<>> /\ statement'.query = q /\ statement'.params = n
    BY ONLY <1>1
  <2>2. q # 0 /\ lastBindParamCount' \in {-1, n} /\ n \in Nat
    OBVIOUS
  <2>3. QED
    BY ONLY <2>1, <2>2
<1>5. QED
  BY <1>3, <1>4 DEF StatementInv, PreparedCountAgrees, Null

\* Other sets, or another row, of the statement that is there.
LEMMA StatementMoves ==
  ASSUME StatementInv, UNCHANGED <<engine, lastBindParamCount>>, statement # NoStatement,
         NEW sets \in Seq(Seq(Row)), NEW k \in Nat, sets # <<>> => k <= Len(Head(sets)),
         statement' = [statement EXCEPT !.sets = sets, !.position = k]
  PROVE  StatementInv'
<1>1. /\ statement' \in [query : Nat, params : Nat, sets : Seq(Seq(Row)), position : Nat]
      /\ statement'.position = k /\ statement'.sets = sets
      /\ statement'.query = statement.query /\ statement'.params = statement.params
  BY DEF StatementInv
<1>2. QED
  BY <1>1 DEF StatementInv, PreparedCountAgrees, Null

LEMMA NewSets ==
  ASSUME StatementInv, UNCHANGED <<engine, lastBindParamCount>>, statement # NoStatement,
         NEW sets \in Seq(Seq(Row)), statement' = WithSets(sets)
  PROVE  StatementInv'
<1>1. sets # <<>> => Len(Head(sets)) \in Nat
  BY HeadTailProperties
<1>2. sets # <<>> => 0 <= Len(Head(sets))
  BY <1>1
<1>3. statement' = [statement EXCEPT !.sets = sets, !.position = 0] /\ 0 \in Nat
  BY DEF WithSets
<1>4. QED
  BY <1>2, <1>3, StatementMoves

\* The statement with the other sets, and with the stored one only, is otherwise the same.
LEMMA WithSetsIs ==
  ASSUME StatementInv, NEW sets
  PROVE  /\ WithSets(sets).query = statement.query
         /\ WithSets(sets).sets = sets /\ WithSets(sets).position = 0
BY DEF StatementInv, WithSets

LEMMA StatementStoredIs ==
  ASSUME StatementInv
  PROVE  /\ StatementStored.query = statement.query
         /\ StatementStored.sets = Stored(statement.sets)
         /\ StatementStored.position = statement.position
BY DEF StatementInv, StatementStored

LEMMA StatementStoredInv ==
  ASSUME StatementInv, UNCHANGED <<engine, lastBindParamCount>>, statement' = StatementStored
  PROVE  StatementInv'
<1>1. /\ statement.sets \in Seq(Seq(Row)) /\ statement.position \in Nat
      /\ statement.sets # <<>> => statement.position <= Len(Head(statement.sets))
  BY DEF StatementInv, Null
<1>2. CASE statement.sets = <<>>
  <2>1. Stored(statement.sets) = statement.sets
    BY <1>2 DEF Stored
  <2>2. statement' = statement
    BY <2>1 DEF StatementStored, StatementInv
  <2>3. QED
    BY <2>2, StatementStays DEF statementVars
<1>3. CASE statement.sets # <<>>
  <2>1. statement # NoStatement
    BY <1>3 DEF NoStatement
  <2> DEFINE sets == Stored(statement.sets)
  <2> DEFINE k == statement.position
  <2>2. sets \in Seq(Seq(Row)) /\ k \in Nat /\ sets # <<>> => k <= Len(Head(sets))
    BY <1>1, <1>3, StoredIs
  <2>3. statement' = [statement EXCEPT !.sets = sets, !.position = k]
    BY DEF StatementInv, StatementStored
  <2>4. sets \in Seq(Seq(Row)) /\ k \in Nat
    BY <1>1, StoredIs
  <2> HIDE DEF sets, k
  <2>5. QED
    BY <2>1, <2>2, <2>3, <2>4, StatementMoves
<1>4. QED
  BY <1>2, <1>3

\* The one set a query of SQLite or PostgreSQL returns.
LEMMA OneSet ==
  ASSUME DbInv, NEW q \in Nat, NEW sets \in ResultSets(q, 1)
  PROVE  /\ sets \in Seq(Seq(Row)) /\ Len(sets) = 1 /\ sets # <<>>
         /\ Head(sets) = sets[1] /\ sets[1] \in Seq(Row)
<1>1. MaxRows \in Nat /\ runs \in Nat
  BY DbAssumption DEF DbInv
<1>2. sets \in Seq(Seq(Row)) /\ Len(sets) = 1 /\ sets # <<>> /\ Head(sets) = sets[1]
  BY <1>1, AnswerSets
<1>3. QED
  BY <1>2

LEMMA SqliteExecuteInv ==
  ASSUME DbInv, engine = "SQLITE", UNCHANGED engine, NEW q \in Nat, SqliteExecute(q)
  PROVE  CursorInv' /\ runs' \in Nat
<1>1. CASE Failed("simple") /\ SqliteFinalize
  BY <1>1 DEF Failed, SqliteFinalize, DbInv, CursorInv, Null
<1>2. ASSUME Ran("simple"), NEW sets \in ResultSets(q, 1),
             IF sets[1] = <<>> THEN SqliteFinalize
             ELSE result' = sets /\ position' = 1
      PROVE  CursorInv' /\ runs' \in Nat
  <2>1. runs' \in Nat
    BY <1>2 DEF Ran, DbInv
  <2>2. CASE sets[1] = <<>>
    BY <1>2, <2>1, <2>2 DEF SqliteFinalize, DbInv, CursorInv, Null
  <2>3. CASE sets[1] # <<>>
    <3>1. /\ sets \in Seq(Seq(Row)) /\ Len(sets) = 1 /\ sets # <<>>
          /\ Head(sets) = sets[1] /\ sets[1] \in Seq(Row)
      BY <1>2, OneSet
    <3>2. Len(sets[1]) >= 1
      BY <2>3, <3>1, EmptyIff
    <3>3. result' = sets /\ position' = 1
      BY <1>2, <2>3
    <3>4. position' <= Len(Head(result'))
      BY <3>1, <3>2, <3>3
    <3>5. result' \in Seq(Seq(Row)) /\ Len(result') = 1 /\ result' # <<>> /\ engine' = "SQLITE"
      BY <3>1, <3>3
    <3>6. QED
      BY <2>1, <3>3, <3>4, <3>5 DEF CursorInv, CurrentSet, Null
  <2>4. QED
    BY <2>2, <2>3
<1>3. QED
  BY <1>1, <1>2 DEF SqliteExecute

LEMMA SqliteFetchInv ==
  ASSUME DbInv, engine = "SQLITE", UNCHANGED engine, SqliteFetch
  PROVE  CursorInv'
<1>1. CASE UNCHANGED resultVars
  BY <1>1, CursorStays DEF DbInv
<1>2. CASE SqliteFirst
  BY <1>2 DEF SqliteFirst, DbInv, CursorInv, CurrentSet, Null
<1>3. CASE SqliteStep
  <2>1. Len(Head(result)) \in Nat
    BY <1>3, HeadTailProperties DEF SqliteStep, DbInv, CursorInv, Null
  <2>2. QED
    BY <1>3, <2>1 DEF SqliteStep, DbInv, CursorInv, CurrentSet, Null
<1>4. CASE SqliteFinalize
  BY <1>4 DEF SqliteFinalize, DbInv, CursorInv, Null
<1>5. QED
  BY <1>1, <1>2, <1>3, <1>4 DEF SqliteFetch

LEMMA SqliteScorcoInv ==
  ASSUME DbInv, engine = "SQLITE", UNCHANGED engine,
         SqliteWriteScorcoData \/ SqliteReadScorcoData
  PROVE  CursorInv'
<1>1. CASE SqliteFinalize
  BY <1>1 DEF SqliteFinalize, DbInv, CursorInv, Null
<1>2. ASSUME NEW sets \in ResultSets(0, 1), sets[1] # <<>>, result' = sets, position' = 1
      PROVE  CursorInv'
  <2>1. /\ sets \in Seq(Seq(Row)) /\ Len(sets) = 1 /\ sets # <<>>
        /\ Head(sets) = sets[1] /\ sets[1] \in Seq(Row)
    BY OneSet
  <2>2. Len(sets[1]) >= 1
    BY <1>2, <2>1, EmptyIff
  <2>3. QED
    BY <1>2, <2>1, <2>2 DEF CursorInv, CurrentSet, Null
<1>3. QED
  BY <1>1, <1>2 DEF SqliteWriteScorcoData, SqliteReadScorcoData

LEMMA PgsqlClearInv ==
  ASSUME DbInv, engine = "PGSQL", UNCHANGED engine, PgsqlClear
  PROVE  CursorInv'
BY DEF PgsqlClear, RowWhenCleared, DbInv, CursorInv, Null

LEMMA PgsqlRunInv ==
  ASSUME DbInv, engine = "PGSQL", UNCHANGED engine, NEW c, NEW q \in Nat, PgsqlRun(c, q)
  PROVE  CursorInv' /\ runs' \in Nat
<1>1. CASE Failed(c) /\ PgsqlClear
  BY <1>1, PgsqlClearInv DEF Failed, DbInv
<1>2. ASSUME Ran(c), NEW sets \in ResultSets(q, 1), result' = sets, position' = RowWhenCleared
      PROVE  CursorInv' /\ runs' \in Nat
  <2>1. /\ sets \in Seq(Seq(Row)) /\ Len(sets) = 1 /\ sets # <<>>
        /\ Head(sets) = sets[1] /\ sets[1] \in Seq(Row)
    BY OneSet
  <2>2. position' = 0
    BY <1>2 DEF RowWhenCleared, DbInv, CursorInv
  <2>3. QED
    BY <1>2, <2>1, <2>2 DEF Ran, DbInv, CursorInv, CurrentSet, Null
<1>3. QED
  BY <1>1, <1>2 DEF PgsqlRun

LEMMA PgsqlFetchInv ==
  ASSUME DbInv, engine = "PGSQL", UNCHANGED engine, NEW c, PgsqlFetch(c)
  PROVE  CursorInv'
<1>1. CASE UNCHANGED resultVars
  BY <1>1, CursorStays DEF DbInv
<1>2. CASE result # Null /\ position < Len(CurrentSet) /\ position' = position + 1
  <2>1. Len(Head(result)) \in Nat
    BY <1>2, HeadTailProperties DEF DbInv, CursorInv, Null
  <2>2. QED
    BY <1>2, <2>1 DEF PgsqlFetch, DbInv, CursorInv, CurrentSet, Null
<1>3. QED
  BY <1>1, <1>2 DEF PgsqlFetch, resultVars

LEMMA MysqlExecuteInv ==
  ASSUME DbInv, engine = "MYSQL", UNCHANGED <<engine, lastBindParamCount>>,
         NEW q \in Nat, MysqlExecute(q)
  PROVE  CursorInv' /\ StatementInv' /\ runs' \in Nat
<1>1. StatementInv'
  <2>1. statement' \in {statement, StatementStored} /\ StatementInv
    BY DEF MysqlExecute, DbInv
  <2>2. QED
    BY <2>1, StatementStays, StatementStoredInv DEF statementVars
<1>2. CASE Failed("simple") /\ result' = Null
  BY <1>1, <1>2 DEF MysqlExecute, Failed, DbInv, CursorInv, Null
<1>3. ASSUME Ran("simple"), NEW n \in 0..MaxSets, NEW sets \in ResultSets(q, n), result' = sets
      PROVE  CursorInv' /\ runs' \in Nat
  <2>1. n \in Nat /\ MaxRows \in Nat /\ runs \in Nat
    BY DbAssumption DEF DbInv
  <2>2. sets \in Seq(Seq(Row))
    BY <2>1, AnswerSets
  <2>3. sets # <<>> => Len(Head(sets)) \in Nat
    BY <2>2, HeadTailProperties
  <2>4. QED
    BY <1>3, <2>2, <2>3 DEF MysqlExecute, Ran, DbInv, CursorInv, CurrentSet, Null
<1>4. QED
  BY <1>1, <1>2, <1>3 DEF MysqlExecute

\* FETCH reads the first of some sets, or none.
LEMMA MysqlCursor ==
  ASSUME engine' = "MYSQL", result' \in Seq(Seq(Row)), position' \in Nat,
         result' # <<>> => position' <= Len(Head(result'))
  PROVE  CursorInv'
BY DEF CursorInv, CurrentSet, Null

LEMMA TailOfSets ==
  ASSUME NEW sets \in Seq(Seq(Row)), sets # <<>> \/ Len(sets) >= 1
  PROVE  Tail(sets) \in Seq(Seq(Row)) /\ Len(Tail(sets)) = Len(sets) - 1 /\ sets # <<>>
<1>1. sets # <<>>
  BY EmptyIff
<1>2. QED
  BY <1>1, HeadTailProperties

LEMMA MysqlFetchInv ==
  ASSUME DbInv, engine = "MYSQL", UNCHANGED <<engine, lastBindParamCount>>, MysqlFetch
  PROVE  CursorInv' /\ StatementInv'
<1>1. /\ CursorInv /\ StatementInv
      /\ result \in Seq(Seq(Row)) /\ statement.sets \in Seq(Seq(Row))
      /\ UNCHANGED engine /\ UNCHANGED lastBindParamCount /\ engine' = "MYSQL"
  BY DEF DbInv, CursorInv, StatementInv
<1>2. StatementInv'
  <2>1. statement' = statement \/ statement' = StatementStored
    BY DEF MysqlFetch, MysqlNextSet
  <2>2. CASE statement' = statement
    <3>1. UNCHANGED <<engine, statementVars>>
      BY <1>1, <2>2 DEF statementVars
    <3>2. QED
      BY <1>1, <3>1, StatementStays
  <2>3. CASE statement' = StatementStored
    BY <1>1, <2>3, StatementStoredInv
  <2>4. QED
    BY <2>1, <2>2, <2>3
<1>3. CASE UNCHANGED <<result, position>>
  <2>1. result' = result /\ position' = position
    BY <1>3
  <2>2. position \in Nat /\ (result # <<>> => position <= Len(Head(result)))
    BY <1>1 DEF CursorInv, CurrentSet, Null
  <2>3. QED
    BY <1>1, <1>2, <2>1, <2>2, MysqlCursor
<1>4. CASE /\ result # Null /\ position < Len(CurrentSet)
           /\ position' = position + 1 /\ UNCHANGED result
  <2>1. Len(Head(result)) \in Nat
    BY <1>1, <1>4, HeadTailProperties DEF Null
  <2>2. /\ position \in Nat /\ position' \in Nat /\ position' <= Len(Head(result))
        /\ result' = result
    BY <1>1, <1>4, <2>1 DEF CursorInv, CurrentSet
  <2>3. QED
    BY <1>1, <1>2, <2>2, MysqlCursor
<1>5. CASE result # Null /\ MysqlNextSet /\ position' = 0
  <2>1. result' \in Seq(Seq(Row))
    <3>1. CASE result' = Null
      BY <3>1 DEF Null
    <3>2. CASE result' = Tail(result)
      BY <1>1, <1>5, <3>2, TailOfSets DEF Null
    <3>3. CASE Len(statement.sets) > 1 /\ result' = Tail(statement.sets)
      <4>1. Len(statement.sets) >= 1
        BY <1>1, <3>3
      <4>2. QED
        BY <1>1, <3>3, <4>1, TailOfSets
    <3>4. QED
      BY <1>5, <3>1, <3>2, <3>3 DEF MysqlNextSet
  <2>2. position' = 0 /\ (result' # <<>> => Len(Head(result')) \in Nat)
    BY <1>5, <2>1, HeadTailProperties
  <2>3. position' \in Nat /\ (result' # <<>> => position' <= Len(Head(result')))
    BY ONLY <2>2
  <2>4. QED
    BY <1>1, <1>2, <2>1, <2>3, MysqlCursor
<1>6. QED
  BY <1>2, <1>3, <1>4, <1>5 DEF MysqlFetch

\* The sets pending for FETCH are thrown away, at most.
LEMMA CursorStored ==
  ASSUME CursorInv, engine = "MYSQL", UNCHANGED <<engine, position>>,
         result' \in {result, Stored(result)}
  PROVE  CursorInv'
<1>1. result \in Seq(Seq(Row)) /\ (result # <<>> => position <= Len(Head(result))) /\ position \in Nat
  BY DEF CursorInv, CurrentSet, Null
<1>2. result' \in Seq(Seq(Row)) /\ (result' # <<>> => position <= Len(Head(result')))
  BY <1>1, StoredIs
<1>3. QED
  BY <1>1, <1>2 DEF CursorInv, CurrentSet, Null

LEMMA MysqlExecutePreparedInv ==
  ASSUME DbInv, engine = "MYSQL", UNCHANGED <<engine, lastBindParamCount>>,
         NEW n, MysqlExecutePrepared(n)
  PROVE  StatementInv' /\ runs' \in Nat
<1>1. StatementInv /\ runs \in Nat /\ statement.sets \in Seq(Seq(Row))
  BY DEF DbInv, StatementInv
<1>2. CASE Failed("prepared") /\ UNCHANGED statement
  BY <1>1, <1>2, StatementStays DEF Failed, statementVars
<1>3. CASE /\ Failed("prepared") /\ statement # NoStatement
           /\ statement' \in {WithSets(Unstored(statement.sets)), WithSets(Null)}
  <2>1. Unstored(statement.sets) \in Seq(Seq(Row)) /\ Null \in Seq(Seq(Row))
    BY <1>1, UnstoredIs DEF Null
  <2>2. PICK sets \in Seq(Seq(Row)) : statement' = WithSets(sets)
    BY <1>3, <2>1
  <2>3. QED
    BY <1>1, <1>3, <2>2, NewSets DEF Failed
<1>4. ASSUME Ran("prepared"), statement # NoStatement, NEW k \in 0..MaxSets,
             NEW sets \in ResultSets(statement.query, k), statement' = WithSets(sets)
      PROVE  StatementInv' /\ runs' \in Nat
  <2>1. statement.query \in Nat /\ k \in Nat /\ MaxRows \in Nat
    BY <1>1, DbAssumption DEF StatementInv
  <2>2. sets \in Seq(Seq(Row))
    BY <1>1, <2>1, AnswerSets
  <2>3. QED
    BY <1>1, <1>4, <2>2, NewSets DEF Ran
<1>5. QED
  BY <1>2, <1>3, <1>4 DEF MysqlExecutePrepared

LEMMA MysqlFetchPreparedInv ==
  ASSUME DbInv, engine = "MYSQL", UNCHANGED <<engine, lastBindParamCount>>, MysqlFetchPrepared
  PROVE  CursorInv' /\ StatementInv'
<1>1. /\ CursorInv /\ StatementInv
      /\ result \in Seq(Seq(Row)) /\ statement.sets \in Seq(Seq(Row)) /\ statement.position \in Nat
  BY DEF DbInv, CursorInv, StatementInv
<1>2. CursorInv'
  <2>1. result' \in {result, Stored(result)} /\ UNCHANGED position
    BY DEF MysqlFetchPrepared, MysqlNextPreparedSet
  <2>2. QED
    BY <1>1, <2>1, CursorStored
<1>3. CASE UNCHANGED statement
  BY <1>1, <1>2, <1>3, StatementStays DEF statementVars
<1>4. CASE /\ statement.sets # Null /\ Len(Head(statement.sets)) - statement.position > 0
           /\ statement' = [statement EXCEPT !.position = @ + 1]
  <2> DEFINE sets == statement.sets
  <2> DEFINE k == statement.position + 1
  <2>1. statement # NoStatement
    BY <1>4 DEF NoStatement, Null
  <2>2. sets \in Seq(Seq(Row)) /\ k \in Nat
    BY <1>1
  <2>3. k <= Len(Head(sets))
    <3>1. Len(Head(sets)) \in Nat
      BY <1>1, <1>4, HeadTailProperties DEF Null
    <3>2. QED
      BY <1>1, <1>4, <3>1
  <2>4. statement' = [statement EXCEPT !.sets = sets, !.position = k]
    BY <1>1, <1>4 DEF StatementInv
  <2> HIDE DEF sets, k
  <2>5. QED
    BY <1>1, <1>2, <2>1, <2>2, <2>3, <2>4, StatementMoves
<1>5. ASSUME statement # NoStatement, NEW sets \in Seq(Seq(Row)), statement' = WithSets(sets)
      PROVE  CursorInv' /\ StatementInv'
  BY <1>1, <1>2, <1>5, NewSets
<1>6. CASE statement.sets # Null /\ statement' = WithSets(Unstored(statement.sets))
  <2>1. statement # NoStatement
    BY <1>6 DEF NoStatement, Null
  <2>2. QED
    BY <1>1, <1>5, <1>6, <2>1, UnstoredIs
<1>7. CASE statement # NoStatement /\ MysqlNextPreparedSet
  <2>1. CASE statement' = WithSets(Null)
    <3>1. Null \in Seq(Seq(Row))
      BY DEF Null
    <3>2. QED
      BY <1>5, <1>7, <2>1, <3>1
  <2>2. CASE Len(statement.sets) > 1 /\ statement' = WithSets(Tail(statement.sets))
    <3>1. Len(statement.sets) >= 1
      BY <1>1, <2>2
    <3>2. QED
      BY <1>1, <1>5, <1>7, <2>2, <3>1, TailOfSets
  <2>3. CASE Len(result) > 1 /\ statement' = WithSets(Tail(result))
    <3>1. Len(result) >= 1
      BY <1>1, <2>3
    <3>2. QED
      BY <1>1, <1>5, <1>7, <2>3, <3>1, TailOfSets
  <2>4. QED
    BY <1>7, <2>1, <2>2, <2>3 DEF MysqlNextPreparedSet
<1>8. QED
  <2> DEFINE left == IF statement.sets = Null THEN 0
                     ELSE Len(Head(statement.sets)) - statement.position
  <2>1. left > 0 => statement.sets # Null /\ left = Len(Head(statement.sets)) - statement.position
    OBVIOUS
  <2>2. \/ left > 0 /\ statement' = [statement EXCEPT !.position = @ + 1]
        \/ left > 0 /\ statement' = WithSets(Unstored(statement.sets))
        \/ UNCHANGED statement
        \/ statement # NoStatement /\ MysqlNextPreparedSet
    BY DEF MysqlFetchPrepared
  <2> HIDE DEF left
  <2>3. QED
    BY <1>3, <1>4, <1>6, <1>7, <2>1, <2>2

LEMMA ExecuteInv == ASSUME DbInv, Execute PROVE DbInv'
<1>1. /\ texts' \in Nat /\ engine \in {"SQLITE", "PGSQL", "MYSQL"}
      /\ UNCHANGED <<engine, lastBindParamCount>> /\ CursorInv /\ StatementInv /\ runs \in Nat
  BY DEF Execute, Given, DbInv
<1>2. CursorInv' /\ runs' \in Nat
  <2>1. CASE engine = "SQLITE" /\ SqliteExecute(texts')
    BY <1>1, <2>1, SqliteExecuteInv
  <2>2. CASE engine = "PGSQL" /\ PgsqlExecute(texts')
    <3>1. CASE UNCHANGED <<result, position>> /\ Failed("simple")
      BY <1>1, <2>2, <3>1, CursorStays DEF PgsqlExecute, resultVars, Failed
    <3>2. CASE PgsqlRun("simple", texts')
      BY <1>1, <2>2, <3>2, PgsqlRunInv
    <3>3. QED
      BY <2>2, <3>1, <3>2 DEF PgsqlExecute
  <2>3. CASE engine = "MYSQL" /\ MysqlExecute(texts')
    BY <1>1, <2>3, MysqlExecuteInv
  <2>4. QED
    BY <2>1, <2>2, <2>3 DEF Execute
<1>3. StatementInv'
  <2>1. CASE UNCHANGED statement
    BY <1>1, <2>1, StatementStays DEF statementVars
  <2>2. CASE statement' = NoStatement
    <3>1. lastBindParamCount' \in Int
      BY <1>1 DEF StatementInv
    <3>2. QED
      BY <1>1, <2>2, <3>1, StatementGone
  <2>3. CASE engine = "MYSQL" /\ MysqlExecute(texts')
    BY <1>1, <2>3, MysqlExecuteInv
  <2>4. QED
    BY <2>1, <2>2, <2>3 DEF Execute, PgsqlExecute
<1>4. QED
  BY <1>1, <1>2, <1>3 DEF DbInv

LEMMA FetchInv == ASSUME DbInv, Fetch PROVE DbInv'
<1>1. /\ UNCHANGED <<engine, lastBindParamCount, texts, runs>>
      /\ CursorInv /\ StatementInv /\ engine \in {"SQLITE", "PGSQL", "MYSQL"}
  BY DEF Fetch, DbInv
<1>2. CASE engine = "SQLITE" /\ SqliteFetch /\ UNCHANGED statement
  BY <1>1, <1>2, SqliteFetchInv, StatementStays DEF DbInv, statementVars
<1>3. CASE engine = "PGSQL" /\ PgsqlFetch("simple") /\ UNCHANGED statement
  BY <1>1, <1>3, PgsqlFetchInv, StatementStays DEF DbInv, statementVars
<1>4. CASE engine = "MYSQL" /\ MysqlFetch
  BY <1>1, <1>4, MysqlFetchInv DEF DbInv
<1>5. QED
  BY <1>2, <1>3, <1>4 DEF Fetch

\* A request that does not get to the back end.
LEMMA RefusedInv == ASSUME DbInv, Refused PROVE DbInv'
BY CursorStays, StatementStays DEF Refused, Failed, DbInv

LEMMA PrepareInv == ASSUME DbInv, Prepare PROVE DbInv'
<1>1. /\ texts' \in Nat \ {0} /\ UNCHANGED engine
      /\ CursorInv /\ StatementInv /\ engine \in {"SQLITE", "PGSQL", "MYSQL"}
      /\ MaxParams \in Nat
  BY DbAssumption DEF Prepare, Given, DbInv
<1>2. PICK n \in 0..MaxParams :
        \/ engine = "SQLITE" /\ Prepared(0) /\ UNCHANGED <<resultVars, statement>>
        \/ engine = "PGSQL" /\ PgsqlPrepare(texts', n)
        \/ engine = "MYSQL" /\ MysqlPrepare(texts', n)
  BY DEF Prepare
<1>3. n \in Nat
  BY <1>1
<1>4. CASE engine = "SQLITE" /\ Prepared(0) /\ UNCHANGED <<resultVars, statement>>
  <2>1. CursorInv' /\ runs' = runs /\ lastBindParamCount' = 0 /\ statement' = NoStatement
    BY <1>1, <1>4, CursorStays DEF Prepared, StatementInv
  <2>2. StatementInv'
    BY <1>1, <2>1, StatementGone
  <2>3. QED
    BY <1>1, <2>1, <2>2 DEF DbInv
<1>5. CASE engine = "PGSQL" /\ PgsqlPrepare(texts', n)
  <2>1. CASE UNCHANGED <<result, position, statement>> /\ PrepareFailed
    <3>1. CursorInv' /\ runs' = runs /\ lastBindParamCount' = -1
      BY <1>1, <1>5, <2>1, CursorStays DEF PgsqlPrepare, PrepareFailed, Failed, resultVars
    <3>2. StatementInv'
      BY <1>1, <2>1, <3>1 DEF StatementInv, PreparedCountAgrees
    <3>3. QED
      BY <1>1, <3>1, <3>2 DEF DbInv
  <2>2. CASE PrepareFailed /\ PgsqlClear /\ statement' = NoStatement
    <3>1. CursorInv' /\ runs' = runs /\ lastBindParamCount' = -1
      BY <1>1, <1>5, <2>2, PgsqlClearInv DEF PrepareFailed, Failed
    <3>2. StatementInv'
      BY <1>1, <2>2, <3>1, StatementGone
    <3>3. QED
      BY <1>1, <3>1, <3>2 DEF DbInv
  <2>3. CASE /\ Prepared(n) /\ PgsqlClear
             /\ statement' = [NoStatement EXCEPT !.query = texts', !.params = n]
    <3>1. CursorInv' /\ runs' = runs /\ lastBindParamCount' = n
      BY <1>1, <1>5, <2>3, PgsqlClearInv DEF Prepared
    <3>2. StatementInv'
      BY <1>1, <1>3, <1>5, <2>3, <3>1, NewStatement
    <3>3. QED
      BY <1>1, <3>1, <3>2 DEF DbInv
  <2>4. QED
    BY <1>5, <2>1, <2>2, <2>3 DEF PgsqlPrepare
<1>6. CASE engine = "MYSQL" /\ MysqlPrepare(texts', n)
  <2>1. CursorInv'
    BY <1>1, <1>6, CursorStored DEF MysqlPrepare
  <2>2. runs' = runs /\ lastBindParamCount' \in {-1, n}
    BY <1>6 DEF MysqlPrepare, PrepareFailed, Failed, Prepared
  <2>3. CASE statement' = NoStatement
    <3>1. StatementInv'
      BY <1>1, <1>3, <2>2, <2>3, StatementGone
    <3>2. QED
      BY <1>1, <2>1, <2>2, <3>1 DEF DbInv
  <2>4. CASE statement' = [NoStatement EXCEPT !.query = texts', !.params = n]
    <3>1. StatementInv'
      BY <1>1, <1>3, <1>6, <2>2, <2>4, NewStatement
    <3>2. QED
      BY <1>1, <2>1, <2>2, <3>1 DEF DbInv
  <2>5. QED
    BY <1>6, <2>3, <2>4 DEF MysqlPrepare
<1>7. QED
  BY <1>2, <1>4, <1>5, <1>6

LEMMA ExecutePreparedInv == ASSUME DbInv, ExecutePrepared PROVE DbInv'
<1>1. /\ UNCHANGED <<engine, lastBindParamCount, texts>>
      /\ CursorInv /\ StatementInv /\ engine \in {"SQLITE", "PGSQL", "MYSQL"} /\ runs \in Nat
  BY DEF ExecutePrepared, DbInv
<1>2. CASE UNCHANGED <<resultVars, statement, runs>>
  BY <1>1, <1>2, CursorStays, StatementStays DEF DbInv, statementVars
<1>3. ASSUME NEW n, engine = "PGSQL", PgsqlExecutePrepared(n)
      PROVE  DbInv'
  <2>1. StatementInv'
    BY <1>1, <1>3, StatementStays DEF PgsqlExecutePrepared, statementVars
  <2>2. CASE Failed("prepared") /\ UNCHANGED <<result, position>>
    BY <1>1, <1>3, <2>1, <2>2, CursorStays DEF PgsqlExecutePrepared, Failed, resultVars, DbInv
  <2>3. CASE Failed("prepared") /\ PgsqlClear
    BY <1>1, <1>3, <2>1, <2>3, PgsqlClearInv DEF Failed, DbInv
  <2>4. CASE PgsqlRun("prepared", statement.query)
    <3>1. statement.query \in Nat
      BY <1>1 DEF StatementInv
    <3>2. CursorInv' /\ runs' \in Nat
      BY <1>1, <1>3, <2>4, <3>1, PgsqlRunInv
    <3>3. QED
      BY <1>1, <2>1, <3>2 DEF DbInv
  <2>5. QED
    BY <1>3, <2>2, <2>3, <2>4 DEF PgsqlExecutePrepared
<1>4. ASSUME NEW n, engine = "MYSQL", MysqlExecutePrepared(n)
      PROVE  DbInv'
  <2>1. StatementInv' /\ runs' \in Nat
    BY <1>1, <1>4, MysqlExecutePreparedInv
  <2>2. CursorInv'
    BY <1>1, <1>4, CursorStays DEF MysqlExecutePrepared
  <2>3. QED
    BY <1>1, <2>1, <2>2 DEF DbInv
<1>5. QED
  BY <1>2, <1>3, <1>4 DEF ExecutePrepared, Failed

LEMMA FetchPreparedInv == ASSUME DbInv, FetchPrepared PROVE DbInv'
<1>1. /\ UNCHANGED <<engine, lastBindParamCount, texts, runs>>
      /\ CursorInv /\ StatementInv /\ engine \in {"SQLITE", "PGSQL", "MYSQL"}
  BY DEF FetchPrepared, DbInv
<1>2. CASE UNCHANGED <<resultVars, statement>>
  BY <1>1, <1>2, CursorStays, StatementStays DEF DbInv, statementVars
<1>3. CASE engine = "PGSQL" /\ PgsqlFetch("prepared") /\ UNCHANGED statement
  BY <1>1, <1>3, PgsqlFetchInv, StatementStays DEF DbInv, statementVars
<1>4. CASE engine = "MYSQL" /\ MysqlFetchPrepared
  <2>1. CursorInv' /\ StatementInv'
    BY <1>1, <1>4, MysqlFetchPreparedInv
  <2>2. QED
    BY <1>1, <2>1 DEF DbInv
<1>5. QED
  BY <1>2, <1>3, <1>4 DEF FetchPrepared

LEMMA ObjectInv == ASSUME DbInv, StoreObject \/ RetrieveObject PROVE DbInv'
<1>1. /\ UNCHANGED <<engine, lastBindParamCount, texts, runs>>
      /\ CursorInv /\ StatementInv /\ engine \in {"SQLITE", "PGSQL", "MYSQL"}
  BY DEF StoreObject, RetrieveObject, DbInv
<1>2. CASE UNCHANGED <<resultVars, statement>>
  BY <1>1, <1>2, CursorStays, StatementStays DEF DbInv, statementVars
<1>3. CASE /\ engine = "SQLITE" /\ UNCHANGED statement
           /\ SqliteWriteScorcoData \/ SqliteReadScorcoData
  BY <1>1, <1>3, SqliteScorcoInv, StatementStays DEF DbInv, statementVars
<1>4. CASE PgsqlScorco
  <2>1. CursorInv'
    BY <1>1, <1>4, CursorStays DEF PgsqlScorco
  <2>2. lastBindParamCount' \in Int
    BY <1>1 DEF StatementInv
  <2>3. StatementInv'
    BY <1>1, <1>4, <2>2, StatementStays, StatementGone DEF PgsqlScorco, statementVars
  <2>4. QED
    BY <1>1, <2>1, <2>3 DEF DbInv
<1>5. QED
  BY <1>2, <1>3, <1>4 DEF StoreObject, RetrieveObject

LEMMA DbInductive == ASSUME DbInv, [DbNext]_dbVars PROVE DbInv'
<1>1. CASE UNCHANGED <<engine, resultVars, statementVars, texts, runs>>
  BY <1>1, CursorStays, StatementStays DEF DbInv
<1>2. CASE DbNext
  BY <1>1, <1>2, ExecuteInv, FetchInv, RefusedInv, PrepareInv, ExecutePreparedInv, FetchPreparedInv, ObjectInv
  DEF DbNext, ConnectionLost
<1>3. QED
  BY <1>1, <1>2 DEF dbVars

LEMMA DbInvariant == DbSpec => []DbInv
<1>1. DbInit => DbInv
  BY DbInitInv
<1>2. DbInv /\ [DbNext]_dbVars => DbInv'
  BY DbInductive
<1>3. QED
  BY <1>1, <1>2, PTL DEF DbSpec

\* P_EXECUTE never runs one statement with the parameters that were counted for
\* another, whatever was prepared, run, refused, lost or stored in between, on
\* any of the databases (NWNXdb.cpp:689).
THEOREM ParametersFitTheStatement == DbSpec => []PreparedCountAgrees
<1>1. DbInv => PreparedCountAgrees
  BY DEF DbInv, StatementInv
<1>2. QED
  BY <1>1, DbInvariant, PTL

\* What bounds the texts, the runs and the counts of parameters.
DbBounds ==
  /\ engine \in Engines /\ connected \in BOOLEAN /\ firstRowRead \in BOOLEAN
  /\ texts \in 0..MaxTexts /\ runs \in 0..MaxRuns
  /\ statement.query \in 0..texts /\ lastBindParamCount \in -1..MaxParams

LEMMA DbBoundsStep == ASSUME DbInv, DbBounds, [DbNext]_dbVars PROVE DbBounds'
<1>1. /\ engine \in Engines /\ connected \in BOOLEAN /\ firstRowRead \in BOOLEAN
      /\ texts \in 0..MaxTexts /\ texts \in Nat /\ runs \in 0..MaxRuns /\ runs \in Nat
      /\ statement.query \in 0..texts /\ lastBindParamCount \in -1..MaxParams
      /\ MaxTexts \in Nat /\ MaxRuns \in Nat /\ MaxParams \in Nat
  BY DbAssumption DEF DbBounds
<1>2. engine' \in Engines
  BY <1>1 DEF DbNext, Execute, Fetch, Refused, Prepare, ExecutePrepared, FetchPrepared, StoreObject,
              RetrieveObject, ConnectionLost, dbVars
<1>3. connected' \in BOOLEAN
  BY <1>1 DEF DbNext, Execute, Fetch, Refused, Prepare, ExecutePrepared, FetchPrepared, StoreObject,
              RetrieveObject, ConnectionLost, dbVars
<1>4. texts' \in 0..MaxTexts /\ texts' \in Nat /\ texts' >= texts
  <2>1. texts' = texts \/ Given
    BY DEF DbNext, Execute, Fetch, Refused, Prepare, ExecutePrepared, FetchPrepared, StoreObject,
           RetrieveObject, ConnectionLost, dbVars
  <2>2. QED
    BY <1>1, <2>1 DEF Given
<1>0. statement \in [query : Nat, params : Nat, sets : Seq(Seq(Row)), position : Nat] /\ StatementInv
  BY DEF DbInv, StatementInv
\* A request runs a query or does not.
<1>5. \A c : Ran(c) \/ Failed(c) \/ runs' = runs => runs' \in 0..MaxRuns
  BY <1>1 DEF Ran, Failed
<1>6. CASE Execute
  <2>1. lastBindParamCount' = lastBindParamCount
    BY <1>6 DEF Execute
  <2>2. firstRowRead' \in BOOLEAN
    BY <1>1, <1>6 DEF Execute, SqliteExecute, PgsqlExecute, MysqlExecute
  <2>3. runs' \in 0..MaxRuns
    BY <1>5, <1>6 DEF Execute, SqliteExecute, PgsqlExecute, PgsqlRun, MysqlExecute
  <2>4. statement'.query \in 0..texts'
    <3>1. statement' = statement \/ statement' = NoStatement \/ statement' = StatementStored
      BY <1>6 DEF Execute, PgsqlExecute, MysqlExecute
    <3>2. QED
      BY <1>0, <1>1, <1>4, <3>1, StatementStoredIs DEF NoStatement
  <2>5. QED
    BY <1>1, <1>2, <1>3, <1>4, <2>1, <2>2, <2>3, <2>4 DEF DbBounds
<1>7. CASE Fetch
  <2>1. UNCHANGED <<lastBindParamCount, texts, runs>>
    BY <1>7 DEF Fetch
  <2>2. firstRowRead' \in BOOLEAN
    BY <1>1, <1>7 DEF Fetch, SqliteFetch, SqliteFirst, SqliteStep, PgsqlFetch, MysqlFetch, resultVars
  <2>3. statement'.query = statement.query
    <3>1. statement' = statement \/ statement' = StatementStored
      BY <1>7 DEF Fetch, MysqlFetch, MysqlNextSet
    <3>2. QED
      BY <1>0, <3>1, StatementStoredIs
  <2>4. QED
    BY <1>1, <1>2, <1>3, <2>1, <2>2, <2>3 DEF DbBounds
<1>8. CASE Prepare
  <2>1. PICK n \in 0..MaxParams :
          \/ engine = "SQLITE" /\ Prepared(0) /\ UNCHANGED <<resultVars, statement>>
          \/ engine = "PGSQL" /\ PgsqlPrepare(texts', n)
          \/ engine = "MYSQL" /\ MysqlPrepare(texts', n)
    BY <1>8 DEF Prepare
  <2>2. Prepared(0) \/ Prepared(n) \/ PrepareFailed
    BY <2>1 DEF PgsqlPrepare, MysqlPrepare
  <2>3. lastBindParamCount' \in -1..MaxParams /\ runs' = runs
    BY <1>1, <2>2 DEF Prepared, PrepareFailed, Failed
  <2>4. firstRowRead' = firstRowRead
    BY <2>1 DEF PgsqlPrepare, MysqlPrepare, resultVars
  <2>5. statement'.query \in 0..texts'
    <3>1. \/ statement' = statement \/ statement' = NoStatement
          \/ statement' = [NoStatement EXCEPT !.query = texts', !.params = n]
      BY <2>1 DEF PgsqlPrepare, MysqlPrepare
    <3>2. PICK q \in Nat : q = texts'
      BY <1>4
    <3>3. CASE statement' = [NoStatement EXCEPT !.query = texts', !.params = n]
      <4>1. statement' = [NoStatement EXCEPT !.query = q, !.params = n]
        BY <3>2, <3>3
      <4>2. statement' = [query |-> q, params |-> n, sets |-> <<>>, position |-> 0]
        BY <4>1 DEF NoStatement
      <4>3. QED
        BY <1>4, <3>2, <4>2
    <3>4. NoStatement.query = 0
      BY DEF NoStatement
    <3>5. QED
      BY <1>1, <1>4, <3>1, <3>3, <3>4
  <2>6. QED
    BY <1>1, <1>2, <1>3, <1>4, <2>3, <2>4, <2>5 DEF DbBounds
<1>9. CASE ExecutePrepared
  <2>1. UNCHANGED <<lastBindParamCount, texts>>
    BY <1>9 DEF ExecutePrepared
  <2>2. firstRowRead' = firstRowRead
    BY <1>9 DEF ExecutePrepared, PgsqlExecutePrepared, MysqlExecutePrepared, resultVars
  <2>3. runs' \in 0..MaxRuns
    BY <1>5, <1>9 DEF ExecutePrepared, PgsqlExecutePrepared, PgsqlRun, MysqlExecutePrepared
  <2>4. statement'.query = statement.query
    <3>1. statement' = statement \/ \E sets : statement' = WithSets(sets)
      BY <1>9 DEF ExecutePrepared, PgsqlExecutePrepared, MysqlExecutePrepared
    <3>2. QED
      BY <1>0, <3>1, WithSetsIs
  <2>5. QED
    BY <1>1, <1>2, <1>3, <2>1, <2>2, <2>3, <2>4 DEF DbBounds
<1>10. CASE FetchPrepared
  <2>1. UNCHANGED <<lastBindParamCount, texts, runs>>
    BY <1>10 DEF FetchPrepared
  <2>2. firstRowRead' = firstRowRead
    BY <1>10 DEF FetchPrepared, PgsqlFetch, MysqlFetchPrepared, resultVars
  <2>3. statement'.query = statement.query
    <3>1. \/ statement' = statement
          \/ statement' = [statement EXCEPT !.position = @ + 1]
          \/ \E sets : statement' = WithSets(sets)
      BY <1>10 DEF FetchPrepared, MysqlFetchPrepared, MysqlNextPreparedSet
    <3>2. QED
      BY <1>0, <3>1, WithSetsIs
  <2>4. QED
    BY <1>1, <1>2, <1>3, <2>1, <2>2, <2>3 DEF DbBounds
<1>11. CASE StoreObject \/ RetrieveObject
  <2>1. UNCHANGED <<lastBindParamCount, texts, runs>>
    BY <1>11 DEF StoreObject, RetrieveObject
  <2>2. firstRowRead' = firstRowRead
    BY <1>11 DEF StoreObject, RetrieveObject, SqliteWriteScorcoData, SqliteReadScorcoData,
                 PgsqlScorco, resultVars
  <2>3. statement' = statement \/ statement' = NoStatement
    BY <1>11 DEF StoreObject, RetrieveObject, PgsqlScorco
  <2>4. statement'.query \in 0..texts'
    BY <1>1, <2>1, <2>3 DEF NoStatement
  <2>5. QED
    BY <1>1, <1>2, <1>3, <2>1, <2>2, <2>4 DEF DbBounds
<1>12. CASE Refused \/ ConnectionLost \/ UNCHANGED dbVars
  <2>1. UNCHANGED <<firstRowRead, statement, lastBindParamCount, texts, runs>>
    BY <1>12 DEF Refused, Failed, ConnectionLost, dbVars, resultVars, statementVars
  <2>2. QED
    BY <1>1, <1>2, <1>3, <2>1 DEF DbBounds
<1>13. QED
  BY <1>6, <1>7, <1>8, <1>9, <1>10, <1>11, <1>12 DEF DbNext

\* The variables of the DB plugin keep their types, and the cursor stays within the set
\* it reads, on any of the databases.
THEOREM DbTypeCorrect == DbSpec => []DbTypeOK
<1>1. DbInit => DbBounds
  BY DbAssumption DEF DbInit, DbBounds, NoStatement
<1>2. DbInv /\ DbBounds /\ [DbNext]_dbVars => DbBounds'
  BY DbBoundsStep
<1>3. DbInv /\ DbBounds => DbTypeOK
  <2>1. SUFFICES ASSUME DbInv, DbBounds PROVE DbTypeOK
    OBVIOUS
  <2>2. result \in Seq(Seq(Row)) /\ position \in Nat
        /\ (result # Null => position <= Len(CurrentSet))
    BY <2>1 DEF DbInv, CursorInv
  <2>3. \A s \in DOMAIN result : \A i \in DOMAIN result[s] : result[s][i] \in Row
    <3>1. \A s \in DOMAIN result : result[s] \in Seq(Row)
      BY <2>2
    <3>2. QED
      BY <3>1
  <2>4. QED
    BY <2>1, <2>2, <2>3 DEF DbBounds, DbTypeOK
<1>4. QED
  BY <1>1, <1>2, <1>3, DbInvariant, PTL DEF DbSpec
-------------------------------------------------------------------------------
(* The refinement: every request is one that ResultRows allows.              *)

LEMMA Parts ==
  /\ due["simple"] = simpleDue /\ due["prepared"] = preparedDue
  /\ due'["simple"] = simpleDue' /\ due'["prepared"] = preparedDue'
BY DEF due

LEMMA NoResult ==
  /\ result = Null => simpleDue = <<>>
  /\ result' = Null => simpleDue' = <<>>
BY DueOfNone DEF simpleDue, Null

LEMMA NothingDue ==
  ASSUME simpleDue' = simpleDue, preparedDue' = preparedDue
  PROVE  due' = due
BY DEF due

\* What is left of sets may be all of them, or none.
LEMMA AllOrNoneRemains == ASSUME NEW sets PROVE {sets, <<>>} \subseteq Contract!Remains(sets)
BY DEF Contract!Remains

LEMMA DropsSome ==
  ASSUME simpleDue' \in Contract!Remains(simpleDue),
         preparedDue' \in Contract!Remains(preparedDue), UNCHANGED runs
  PROVE  Contract!Dropped
BY Parts DEF Contract!Dropped, Contract!Cursors

LEMMA DropsOnly ==
  ASSUME simpleDue' \in {simpleDue, <<>>}, preparedDue' \in {preparedDue, <<>>}, UNCHANGED runs
  PROVE  Contract!Dropped
BY AllOrNoneRemains, DropsSome

\* c is given the rows of a run of q; the other cursor keeps its own, or what remains
\* of them, or is the same.
LEMMA IsAnsweredDropping ==
  ASSUME NEW c \in {"simple", "prepared"}, NEW q, Ran(c),
         Contract!IsAnswerOf(due'[c], q, runs + 1),
         simpleDue' \in {due'[c]} \cup Contract!Remains(simpleDue),
         preparedDue' \in {due'[c]} \cup Contract!Remains(preparedDue)
  PROVE  Contract!Answered(c, q)
<1>1. \A d \in {"simple", "prepared"} : due'[d] \in {due'[c]} \cup Contract!Remains(due[d])
  BY Parts
<1>2. runs' = runs + 1 /\ answer' = Contract!Answer(c, "1")
  BY DEF Ran, Answer, NoRow, Contract!Answer, Contract!NoRow
<1>3. QED
  BY <1>1, <1>2 DEF Contract!Answered, Contract!Cursors

LEMMA IsAnswered ==
  ASSUME NEW c \in {"simple", "prepared"}, NEW q, Ran(c),
         Contract!IsAnswerOf(due'[c], q, runs + 1),
         simpleDue' \in {simpleDue, due'[c]}, preparedDue' \in {preparedDue, due'[c]}
  PROVE  Contract!Answered(c, q)
<1>1. /\ simpleDue' \in {due'[c]} \cup Contract!Remains(simpleDue)
      /\ preparedDue' \in {due'[c]} \cup Contract!Remains(preparedDue)
  BY AllOrNoneRemains
<1>2. QED
  BY <1>1, IsAnsweredDropping

LEMMA RowIsFetched ==
  ASSUME NEW c \in {"simple", "prepared"}, NEW sets \in Seq(Seq(Row)), sets # <<>>,
         NEW k \in Nat, k < Len(Head(sets)),
         due[c] = DueOf(sets, k), due'[c] = DueOf(sets, k + 1),
         \A d \in {"simple", "prepared"} :
           due'[d] = due[d] \/ (due[d] = due[c] /\ due'[d] = due'[c]),
         answer' = RowAnswer(c, Head(sets)[k + 1]), UNCHANGED runs
  PROVE  Contract!FetchRow(c)
<1>1. /\ due[c] # <<>> /\ Head(due[c]) # <<>>
      /\ Head(Head(due[c])) = Head(sets)[k + 1]
      /\ due'[c] = Contract!Left(<<Tail(Head(due[c]))>> \o Tail(due[c]))
  BY DueOfRow
<1>2. answer' = Contract!RowAnswer(c, Head(Head(due[c])))
  BY <1>1 DEF RowAnswer, Contract!RowAnswer
<1>3. QED
  BY <1>1, <1>2 DEF Contract!FetchRow, Contract!Advance, Contract!Cursors

LEMMA NothingIsFetched ==
  ASSUME NEW c, due[c] = <<>>, UNCHANGED <<due, runs>>, answer' = Answer(c, "none")
  PROVE  Contract!FetchEnd(c)
BY DEF Contract!FetchEnd, Answer, NoRow, Contract!Answer, Contract!NoRow

\* The set of c is at its end, and the next one of its sets is due now.
LEMMA NextSetIsDue ==
  ASSUME NEW c \in {"simple", "prepared"}, NEW sets \in Seq(Seq(Row)), Len(sets) > 1,
         due[c] = DueOf(sets, Len(Head(sets))), due'[c] = DueOf(Tail(sets), 0),
         \A d \in {"simple", "prepared"} :
           due'[d] = due[d] \/ (due[d] = due[c] /\ due'[d] = due'[c]),
         UNCHANGED runs, answer' = Answer(c, "none")
  PROVE  Contract!FetchEnd(c)
<1>1. sets # <<>> /\ Len(sets) # 1 /\ Tail(sets) \in Seq(Seq(Row))
  <2>1. \A n \in Nat : n > 1 => n # 1 /\ n # 0
    OBVIOUS
  <2>2. Len(sets) \in Nat
    OBVIOUS
  <2>3. Len(sets) # 1 /\ Len(sets) # 0
    BY <2>1, <2>2, Zenon
  <2>4. QED
    BY <2>3, EmptyIff, HeadTailProperties
<1>2. due[c] # <<>> /\ Head(due[c]) = <<>> /\ Tail(due[c]) = Tail(sets)
  BY <1>1, DueOfEnd
<1>3. due'[c] = Contract!Left(Tail(due[c]))
  BY <1>1, <1>2, DueOfAll
<1>4. answer' = Contract!Answer(c, "none")
  BY DEF Answer, NoRow, Contract!Answer, Contract!NoRow
<1>5. QED
  BY <1>2, <1>3, <1>4 DEF Contract!FetchEnd, Contract!Advance, Contract!Cursors

\* c is at its end, and takes over what was pending for d, or that is lost.
LEMMA SetsAreTakenOver ==
  ASSUME NEW c \in {"simple", "prepared"}, NEW d \in {"simple", "prepared"}, c # d,
         NEW sets \in Seq(Seq(Row)), Len(sets) > 1, NEW k \in Nat, k <= Len(Head(sets)),
         due[c] = <<>>, due[d] = DueOf(sets, k),
         due'[d] = DueOf(Stored(sets), k), due'[c] \in {DueOf(Tail(sets), 0), <<>>},
         UNCHANGED runs, answer' = Answer(c, "none")
  PROVE  Contract!FetchEnd(c)
<1>1. /\ Len(due[d]) > 1
      /\ due'[d] = Contract!Left(<<Head(due[d])>>)
      /\ due'[c] \in {Contract!Left(Tail(due[d])), <<>>}
  BY DueOfSeveral, StoredIsDue
<1>2. answer' = Contract!Answer(c, "none")
  BY DEF Answer, NoRow, Contract!Answer, Contract!NoRow
<1>3. QED
  BY <1>1, <1>2 DEF Contract!FetchEnd, Contract!TakeOver, Contract!Cursors

\* At the end of the last set nothing is due.
LEMMA NothingLeft ==
  ASSUME NEW sets \in Seq(Seq(Row)), Len(sets) <= 1, NEW k, sets # <<>> => k = Len(Head(sets))
  PROVE  DueOf(sets, k) = <<>>
<1>1. CASE sets = <<>>
  BY <1>1, DueOfNone
<1>2. CASE sets # <<>>
  <2>1. Len(sets) = 1
    <3>1. Len(sets) \in Nat /\ Len(sets) # 0
      BY <1>2, EmptyIff
    <3>2. \A n \in Nat : n <= 1 /\ n # 0 => n = 1
      OBVIOUS
    <3>3. QED
      BY <3>1, <3>2, Zenon
  <2>2. QED
    BY <1>2, <2>1, DueOfEnd
<1>3. QED
  BY <1>1, <1>2

LEMMA FetchIsInError ==
  ASSUME NEW c, Contract!Dropped, answer' = Answer(c, "error")
  PROVE  Contract!FetchFails(c)
BY DEF Contract!FetchFails, Answer, NoRow, Contract!Answer, Contract!NoRow

\* A query that is run with nothing taken yet.
LEMMA RunIsAnswer ==
  ASSUME DbInv, NEW q \in Nat, NEW n \in Nat, result' \in ResultSets(q, n), taken' = 0
  PROVE  Contract!IsAnswerOf(simpleDue', q, runs + 1)
<1>1. MaxRows \in Nat /\ runs \in Nat
  BY DbAssumption DEF DbInv
<1>2. result' \in Seq(Seq(Row)) /\ Contract!IsAnswerOf(Contract!Left(result'), q, runs + 1)
  BY <1>1, AnswerSets
<1>3. simpleDue' = Contract!Left(result')
  BY <1>2, DueOfAll DEF simpleDue
<1>4. QED
  BY <1>2, <1>3

LEMMA NoRowsIsAnswer == ASSUME NEW q, NEW r PROVE Contract!IsAnswerOf(<<>>, q, r)
BY DEF Contract!IsAnswerOf

LEMMA OnlySet ==
  ASSUME CursorInv, engine # "MYSQL", result # Null
  PROVE  Len(result) = 1
<1>1. result \in Seq(Seq(Row)) /\ Len(result) <= 1
  BY DEF CursorInv
<1>2. Len(result) \in Nat
  BY <1>1
<1>3. Len(result) # 0
  <2>1. result # <<>>
    BY DEF Null
  <2>2. QED
    BY <1>1, <2>1, EmptyIff
<1>4. \A n \in Nat : n <= 1 /\ n # 0 => n = 1
  OBVIOUS
<1> DEFINE size == Len(result)
<1>5. size \in Nat /\ size <= 1 /\ size # 0
  BY <1>1, <1>2, <1>3
<1> HIDE DEF size
<1>6. size = 1
  BY <1>4, <1>5, Zenon
<1>7. QED
  BY <1>6 DEF size

\* What each back end's cursor is.
LEMMA SqliteDue ==
  ASSUME engine = "SQLITE", UNCHANGED engine
  PROVE  preparedDue = <<>> /\ preparedDue' = <<>>
BY DEF preparedDue

LEMMA PgsqlDue ==
  ASSUME engine = "PGSQL", UNCHANGED engine
  PROVE  /\ preparedDue = simpleDue /\ preparedDue' = simpleDue'
         /\ taken = position /\ taken' = position'
BY DEF preparedDue, taken

LEMMA MysqlDue ==
  ASSUME engine = "MYSQL", UNCHANGED engine
  PROVE  /\ preparedDue = DueOf(statement.sets, statement.position)
         /\ preparedDue' = DueOf(statement'.sets, statement'.position)
         /\ simpleDue = DueOf(result, position) /\ simpleDue' = DueOf(result', position')
         /\ taken = position /\ taken' = position'
BY DEF preparedDue, simpleDue, taken

\* What is due of what CMySQL has, when it is stored or thrown away.
LEMMA MysqlSets ==
  ASSUME DbInv, engine = "MYSQL"
  PROVE  /\ result \in Seq(Seq(Row)) /\ position \in Nat
         /\ result # <<>> => position <= Len(Head(result))
         /\ statement.sets \in Seq(Seq(Row)) /\ statement.position \in Nat
         /\ statement.sets # <<>> => statement.position <= Len(Head(statement.sets))
         /\ StatementInv
BY DEF DbInv, CursorInv, CurrentSet, StatementInv, Null

LEMMA StatementStoredDue ==
  ASSUME DbInv, engine = "MYSQL", UNCHANGED engine, statement' \in {statement, StatementStored}
  PROVE  preparedDue' \in Contract!Remains(preparedDue)
<1>1. CASE statement' = statement
  BY <1>1, MysqlDue, AllOrNoneRemains
<1>2. CASE statement' = StatementStored
  <2>1. statement'.sets = Stored(statement.sets) /\ statement'.position = statement.position
    BY <1>2, MysqlSets, StatementStoredIs
  <2>2. DueOf(Stored(statement.sets), statement.position)
          \in Contract!Remains(DueOf(statement.sets, statement.position))
    BY MysqlSets, StoredRemains
  <2>3. QED
    BY <2>1, <2>2, MysqlDue
<1>3. QED
  BY <1>1, <1>2

LEMMA ResultStoredDue ==
  ASSUME DbInv, engine = "MYSQL", UNCHANGED <<engine, position>>,
         result' \in {result, Stored(result)}
  PROVE  simpleDue' \in Contract!Remains(simpleDue)
<1>1. simpleDue = DueOf(result, position) /\ simpleDue' = DueOf(result', position)
  BY MysqlDue
<1>2. DueOf(Stored(result), position) \in Contract!Remains(DueOf(result, position))
  BY MysqlSets, StoredRemains
<1>3. QED
  BY <1>1, <1>2, AllOrNoneRemains

LEMMA ExecuteStep ==
  ASSUME DbInv, Execute
  PROVE  Contract!ExecuteQuery
<1>1. /\ texts' = texts + 1 /\ texts' \in Nat /\ UNCHANGED <<engine, lastBindParamCount>>
  BY DEF Execute, Given, DbInv
<1>2. statement'.query \in {statement.query, 0}
  <2>1. statement' \in {statement, NoStatement, StatementStored}
    BY DEF Execute, PgsqlExecute, MysqlExecute
  <2>2. QED
    BY <2>1, StatementStoredIs DEF NoStatement, DbInv
<1>3. (IF lastBindParamCount' = -1 THEN 0 ELSE statement'.query)
        \in {IF lastBindParamCount = -1 THEN 0 ELSE statement.query, 0}
  BY <1>1, <1>2
<1>4. \/ Contract!Answered("simple", texts')
      \/ Contract!Dropped /\ answer' = Contract!Answer("simple", "0")
  <2>1. CASE Failed("simple") /\ simpleDue' \in {simpleDue, <<>>} /\ preparedDue' \in {preparedDue, <<>>}
    BY <2>1, DropsOnly DEF Failed, Answer, NoRow, Contract!Answer, Contract!NoRow
  <2>2. CASE engine = "SQLITE" /\ SqliteExecute(texts') /\ UNCHANGED statement
    <3>1. preparedDue = <<>> /\ preparedDue' = <<>>
      BY <1>1, <2>2, SqliteDue
    <3>2. CASE Failed("simple") /\ SqliteFinalize
      BY <2>1, <3>1, <3>2, NoResult DEF SqliteFinalize
    <3>3. ASSUME Ran("simple"), NEW sets \in ResultSets(texts', 1),
                 IF sets[1] = <<>> THEN SqliteFinalize
                 ELSE result' = sets /\ position' = 1 /\ firstRowRead' = TRUE
          PROVE  Contract!Answered("simple", texts')
      <4>1. CASE sets[1] = <<>>
        <5>1. simpleDue' = <<>>
          BY <3>3, <4>1, NoResult DEF SqliteFinalize
        <5>2. QED
          BY <3>1, <3>3, <5>1, Parts, NoRowsIsAnswer, IsAnswered
      <4>2. CASE sets[1] # <<>>
        <5>1. result' \in ResultSets(texts', 1) /\ result' # Null
          BY <1>1, <3>3, <4>2, OneSet DEF Null
        <5>2. taken' = 0
          BY <1>1, <2>2, <3>3, <4>2, <5>1 DEF taken
        <5>3. Contract!IsAnswerOf(simpleDue', texts', runs + 1)
          BY <1>1, <5>1, <5>2, RunIsAnswer
        <5>4. QED
          BY <3>1, <3>3, <5>3, Parts, IsAnswered
      <4>3. QED
        BY <4>1, <4>2
    <3>4. QED
      BY <2>2, <3>2, <3>3 DEF SqliteExecute
  <2>3. CASE engine = "PGSQL" /\ PgsqlExecute(texts')
    <3>1. /\ preparedDue = simpleDue /\ preparedDue' = simpleDue'
          /\ taken = position /\ taken' = position'
      BY <1>1, <2>3, PgsqlDue
    <3>2. CASE Failed("simple") /\ UNCHANGED <<result, position>>
      BY <2>1, <3>1, <3>2 DEF simpleDue
    <3>3. CASE Failed("simple") /\ PgsqlClear
      BY <2>1, <3>1, <3>3, NoResult DEF PgsqlClear
    <3>4. CASE Ran("simple") /\ result' \in ResultSets(texts', 1) /\ position' = RowWhenCleared
      <4>1. taken' = 0
        BY <2>3, <3>1, <3>4 DEF RowWhenCleared, DbInv, CursorInv
      <4>2. Contract!IsAnswerOf(simpleDue', texts', runs + 1)
        BY <1>1, <3>4, <4>1, RunIsAnswer
      <4>3. QED
        BY <3>1, <3>4, <4>2, Parts, IsAnswered
    <3>5. QED
      BY <2>3, <3>2, <3>3, <3>4 DEF PgsqlExecute, PgsqlRun
  <2>4. CASE engine = "MYSQL" /\ MysqlExecute(texts')
    <3>1. taken' = 0 /\ statement' \in {statement, StatementStored}
      BY <1>1, <2>4, MysqlDue DEF MysqlExecute
    <3>0. preparedDue' \in Contract!Remains(preparedDue)
      BY <1>1, <2>4, <3>1, StatementStoredDue
    <3>2. CASE Failed("simple") /\ result' = Null
      <4>1. simpleDue' \in Contract!Remains(simpleDue) /\ UNCHANGED runs
        BY <3>2, NoResult, AllOrNoneRemains DEF Failed
      <4>2. QED
        BY <3>0, <3>2, <4>1, DropsSome DEF Failed, Answer, NoRow, Contract!Answer, Contract!NoRow
    <3>3. ASSUME Ran("simple"), NEW n \in 0..MaxSets, result' \in ResultSets(texts', n)
          PROVE  Contract!Answered("simple", texts')
      <4>1. n \in Nat
        BY DbAssumption
      <4>2. Contract!IsAnswerOf(simpleDue', texts', runs + 1)
        BY <1>1, <3>1, <3>3, <4>1, RunIsAnswer
      <4>3. QED
        BY <3>0, <3>3, <4>2, Parts, IsAnsweredDropping
    <3>4. QED
      BY <2>4, <3>2, <3>3 DEF MysqlExecute
  <2>5. QED
    BY <2>2, <2>3, <2>4 DEF Execute
<1>5. QED
  BY <1>1, <1>3, <1>4 DEF Contract!ExecuteQuery, Contract!Given

\* Both kinds of fetch, which share a cursor.
LEMMA PgsqlFetchStep ==
  ASSUME DbInv, engine = "PGSQL", UNCHANGED <<engine, runs>>,
         NEW c \in {"simple", "prepared"}, PgsqlFetch(c)
  PROVE  Contract!FetchRow(c) \/ Contract!FetchEnd(c) \/ Contract!FetchFails(c)
<1>1. /\ preparedDue = simpleDue /\ preparedDue' = simpleDue'
      /\ taken = position /\ taken' = position'
  BY PgsqlDue
<1>2. /\ result \in Seq(Seq(Row)) /\ position \in Nat /\ Len(result) \in Nat
      /\ result # Null => result # <<>> /\ Len(Head(result)) \in Nat
  BY HeadTailProperties DEF DbInv, CursorInv, Null
<1>3. UNCHANGED result
  BY DEF PgsqlFetch
<1>4. /\ due[c] = simpleDue /\ due'[c] = simpleDue'
      /\ \A d \in {"simple", "prepared"} : due[d] = due[c] /\ due'[d] = due'[c]
  BY <1>1, Parts
<1>5. CASE answer' = Answer(c, "error") /\ UNCHANGED position
  <2>1. simpleDue' = simpleDue
    BY <1>1, <1>3, <1>5 DEF simpleDue
  <2>2. QED
    BY <1>1, <1>5, <2>1, DropsOnly, FetchIsInError
<1>6. CASE /\ result # Null /\ position >= Len(CurrentSet)
           /\ answer' = Answer(c, "none") /\ UNCHANGED position
  <2>1. simpleDue' = simpleDue
    BY <1>1, <1>3, <1>6 DEF simpleDue
  <2>2. Len(result) = 1 /\ taken = Len(Head(result))
    <3>1. Len(result) = 1
      BY <1>6, OnlySet DEF DbInv
    <3>2. position <= Len(Head(result)) /\ position >= Len(Head(result))
      BY <1>6 DEF DbInv, CursorInv, CurrentSet
    <3>3. position = Len(Head(result))
      BY ONLY <1>2, <1>6, <3>2
    <3>4. QED
      BY <1>1, <3>1, <3>3
  <2>3. simpleDue = <<>>
    BY <1>2, <1>6, <2>2, DueOfEnd DEF simpleDue
  <2>4. UNCHANGED due
    BY <1>1, <2>1, NothingDue
  <2>5. QED
    BY <1>4, <1>6, <2>3, <2>4, NothingIsFetched
<1>7. CASE /\ result # Null /\ position < Len(CurrentSet)
           /\ answer' = RowAnswer(c, CurrentSet[position + 1])
           /\ position' = position + 1
  <2>1. due[c] = DueOf(result, position) /\ due'[c] = DueOf(result, position + 1)
    BY <1>1, <1>3, <1>4, <1>7 DEF simpleDue
  <2>2. QED
    BY <1>2, <1>4, <1>7, <2>1, RowIsFetched DEF CurrentSet
<1>8. QED
  BY <1>5, <1>6, <1>7 DEF PgsqlFetch

LEMMA MysqlFetchStep ==
  ASSUME DbInv, engine = "MYSQL", UNCHANGED <<engine, runs>>, MysqlFetch
  PROVE  \/ Contract!FetchRow("simple")
         \/ Contract!FetchEnd("simple")
         \/ Contract!FetchFails("simple")
<1>1. /\ preparedDue = DueOf(statement.sets, statement.position)
      /\ preparedDue' = DueOf(statement'.sets, statement'.position)
      /\ simpleDue = DueOf(result, position) /\ simpleDue' = DueOf(result', position')
  BY MysqlDue
<1>2. /\ result \in Seq(Seq(Row)) /\ position \in Nat /\ StatementInv
      /\ statement.sets \in Seq(Seq(Row)) /\ statement.position \in Nat
      /\ statement.sets # <<>> => statement.position <= Len(Head(statement.sets))
  BY MysqlSets
<1>3. CASE simpleDue = <<>> /\ simpleDue' = <<>> /\ UNCHANGED statement /\ answer' = Answer("simple", "none")
  BY <1>1, <1>3, Parts, NothingDue, NothingIsFetched
<1>4. CASE result = Null /\ answer' = Answer("simple", "none") /\ UNCHANGED <<result, position, statement>>
  BY <1>3, <1>4, NoResult
<1>5. CASE /\ result # Null /\ position < Len(CurrentSet)
           /\ answer' = RowAnswer("simple", CurrentSet[position + 1])
           /\ position' = position + 1 /\ UNCHANGED <<result, statement>>
  <2>1. due["simple"] = DueOf(result, position) /\ due'["simple"] = DueOf(result, position + 1)
    BY <1>1, <1>5, Parts
  <2>2. \A d \in {"simple", "prepared"} :
          due'[d] = due[d] \/ (due[d] = due["simple"] /\ due'[d] = due'["simple"])
    BY <1>1, <1>5, Parts
  <2>3. QED
    BY <1>2, <1>5, <2>1, <2>2, RowIsFetched DEF CurrentSet, Null
<1>6. CASE /\ result # Null /\ position = Len(CurrentSet)
           /\ answer' = Answer("simple", "none")
           /\ MysqlNextSet /\ position' = 0
  <2>1. position = Len(Head(result)) /\ UNCHANGED runs
    BY <1>6 DEF CurrentSet
  <2>2. CASE Len(result) > 1 /\ result' = Tail(result) /\ UNCHANGED statement
    <3>1. due["simple"] = DueOf(result, Len(Head(result))) /\ due'["simple"] = DueOf(Tail(result), 0)
      BY <1>1, <1>6, <2>1, <2>2, Parts
    <3>2. due'["prepared"] = due["prepared"]
      BY <1>1, <2>2, Parts
    <3>3. \A d \in {"simple", "prepared"} :
            due'[d] = due[d] \/ (due[d] = due["simple"] /\ due'[d] = due'["simple"])
      BY <3>2
    <3>4. QED
      BY <1>2, <1>6, <2>1, <2>2, <3>1, <3>3, NextSetIsDue
  <2>3. CASE /\ Len(result) = 1 /\ Len(statement.sets) > 1
             /\ result' \in {Tail(statement.sets), Null}
             /\ statement' = StatementStored
    <3>1. statement.sets # <<>>
      BY <1>2, <2>3, EmptyIff
    <3>2. due["simple"] = <<>>
      <4>1. Len(result) <= 1
        BY <2>3
      <4>2. QED
        BY <1>1, <1>2, <2>1, <4>1, Parts, NothingLeft
    <3>3. /\ due["prepared"] = DueOf(statement.sets, statement.position)
          /\ due'["prepared"] = DueOf(Stored(statement.sets), statement.position)
      BY <1>1, <1>2, <2>3, Parts, StatementStoredIs
    <3>4. due'["simple"] \in {DueOf(Tail(statement.sets), 0), <<>>}
      BY <1>1, <1>6, <2>3, Parts, DueOfNone DEF Null
    <3> DEFINE sets == statement.sets
    <3> DEFINE k == statement.position
    <3>5. /\ sets \in Seq(Seq(Row)) /\ Len(sets) > 1 /\ k \in Nat /\ k <= Len(Head(sets))
      BY <1>2, <2>3, <3>1
    <3>6. /\ due["prepared"] = DueOf(sets, k) /\ due'["prepared"] = DueOf(Stored(sets), k)
          /\ due'["simple"] \in {DueOf(Tail(sets), 0), <<>>}
      BY <3>3, <3>4
    <3> HIDE DEF sets, k
    <3>7. QED
      BY <1>6, <2>1, <3>2, <3>5, <3>6, SetsAreTakenOver
  <2>4. CASE Len(result) = 1 /\ result' = Null /\ UNCHANGED statement
    <3>1. simpleDue = <<>>
      <4>1. Len(result) <= 1
        BY <2>4
      <4>2. QED
        BY <1>1, <1>2, <2>1, <4>1, NothingLeft
    <3>2. QED
      BY <1>3, <1>6, <2>4, <3>1, NoResult
  <2>5. QED
    BY <1>6, <2>2, <2>3, <2>4 DEF MysqlNextSet
<1>7. QED
  BY <1>4, <1>5, <1>6 DEF MysqlFetch

LEMMA FetchStep ==
  ASSUME DbInv, Fetch
  PROVE  Contract!Fetch
<1>1. UNCHANGED <<engine, lastBindParamCount, texts, runs>>
  BY DEF Fetch
<1>2. /\ result \in Seq(Seq(Row)) /\ position \in Nat /\ runs \in Nat
      /\ result # Null => result # <<>> /\ Len(Head(result)) \in Nat
  BY HeadTailProperties DEF DbInv, CursorInv, Null
<1>3. Contract!FetchRow("simple") \/ Contract!FetchEnd("simple") \/ Contract!FetchFails("simple")
  <2>1. CASE simpleDue' = simpleDue /\ preparedDue' = preparedDue /\ simpleDue = <<>> /\ answer' = Answer("simple", "none")
    BY <1>1, <2>1, Parts, NothingDue, NothingIsFetched
  <2>2. CASE engine = "SQLITE" /\ SqliteFetch
    <3>1. preparedDue = <<>> /\ preparedDue' = <<>>
      BY <1>1, <2>2, SqliteDue
    <3>2. CASE result = Null /\ answer' = Answer("simple", "none") /\ UNCHANGED resultVars
      BY <2>1, <3>1, <3>2, NoResult DEF resultVars
    <3>3. CASE result # Null /\ answer' = RowAnswer("simple", Head(result)[taken + 1])
               /\ UNCHANGED result /\ taken \in Nat /\ taken < Len(Head(result)) /\ taken' = taken + 1
      <4>1. due["simple"] = DueOf(result, taken) /\ due'["simple"] = DueOf(result, taken + 1)
        BY <3>3, Parts DEF simpleDue
      <4>2. due'["prepared"] = due["prepared"]
        BY <3>1, Parts
      <4>3. \A d \in {"simple", "prepared"} :
              due'[d] = due[d] \/ (due[d] = due["simple"] /\ due'[d] = due'["simple"])
        BY <4>2
      <4>4. QED
        BY <1>1, <1>2, <3>3, <4>1, <4>3, RowIsFetched
    <3>4. CASE firstRowRead /\ SqliteFirst
      <4>1. /\ result # Null /\ position >= 1 /\ position <= Len(Head(result))
            /\ taken = position - 1 /\ taken' = position
        BY <1>1, <2>2, <3>4 DEF SqliteFirst, DbInv, CursorInv, CurrentSet, taken
      <4>2. taken + 1 = position
        BY <1>2, <4>1
      <4>3. QED
        BY <1>2, <3>3, <3>4, <4>1, <4>2 DEF SqliteFirst, CurrentSet
    <3>5. CASE ~firstRowRead /\ SqliteStep
      <4>1. taken = position /\ taken' = position + 1
        BY <3>5 DEF SqliteStep, taken
      <4>2. QED
        BY <1>2, <3>3, <3>5, <4>1 DEF SqliteStep, CurrentSet
    <3>6. CASE /\ result # Null /\ ~firstRowRead /\ SqliteFinalize
               /\ position = Len(CurrentSet) /\ answer' = Answer("simple", "none")
      <4>1. simpleDue' = <<>>
        BY <3>6, NoResult DEF SqliteFinalize
      <4>2. Len(result) = 1 /\ taken = Len(Head(result))
        <5>1. Len(result) = 1
          BY <2>2, <3>6, OnlySet DEF DbInv
        <5>2. taken = position
          BY <3>6 DEF taken
        <5>3. QED
          BY <3>6, <5>1, <5>2 DEF CurrentSet
      <4>3. simpleDue = <<>>
        BY <1>2, <3>6, <4>2, DueOfEnd DEF simpleDue
      <4>4. QED
        BY <2>1, <3>1, <3>6, <4>1, <4>3
    <3>7. CASE SqliteFinalize /\ answer' = Answer("simple", "error")
      <4>1. simpleDue' = <<>>
        BY <3>7, NoResult DEF SqliteFinalize
      <4>2. QED
        BY <1>1, <3>1, <3>7, <4>1, DropsOnly, FetchIsInError
    <3>8. QED
      BY <2>2, <3>2, <3>4, <3>5, <3>6, <3>7 DEF SqliteFetch
  <2>3. CASE engine = "PGSQL" /\ PgsqlFetch("simple")
    BY <1>1, <2>3, PgsqlFetchStep
  <2>4. CASE engine = "MYSQL" /\ MysqlFetch
    BY <1>1, <2>4, MysqlFetchStep
  <2>5. QED
    BY <2>2, <2>3, <2>4 DEF Fetch
<1>4. statement'.query = statement.query
  <2>1. statement' \in {statement, StatementStored}
    BY DEF Fetch, MysqlFetch, MysqlNextSet
  <2>2. QED
    BY <2>1, StatementStoredIs DEF DbInv
<1>5. QED
  BY <1>1, <1>3, <1>4 DEF Contract!Fetch

\* What does not touch the statements and results changes nothing that is due.
LEMMA DueStays ==
  ASSUME UNCHANGED <<engine, resultVars, statement>>
  PROVE  simpleDue' = simpleDue /\ preparedDue' = preparedDue /\ due' = due
<1>1. UNCHANGED <<engine, result, position, firstRowRead, statement>>
  BY DEF resultVars
<1>2. taken' = taken
  BY <1>1 DEF taken
<1>3. simpleDue' = simpleDue
  BY <1>1, <1>2 DEF simpleDue
<1>4. preparedDue' = preparedDue
  BY <1>1, <1>3 DEF preparedDue
<1>5. QED
  BY <1>3, <1>4, NothingDue

LEMMA PrepareStep ==
  ASSUME DbInv, Prepare
  PROVE  Contract!PrepareQuery \/ Contract!Unsupported
<1>1. /\ Given /\ texts' = texts + 1 /\ UNCHANGED engine /\ MaxParams \in Nat
      /\ StatementInv
  BY DbAssumption DEF Prepare, Given, DbInv
<1>2. CASE engine = "SQLITE" /\ Prepared(0) /\ UNCHANGED <<resultVars, statement>>
  <2>1. statement.query = 0 /\ statement'.query = 0
    BY <1>1, <1>2 DEF StatementInv, NoStatement
  <2>2. answer' = Contract!Answer("prepared", "1")
    BY <1>2 DEF Prepared, Answer, NoRow, Contract!Answer, Contract!NoRow
  <2>3. UNCHANGED due /\ UNCHANGED runs
    BY <1>1, <1>2, DueStays DEF Prepared
  <2>4. QED
    BY <1>1, <1>2, <2>1, <2>2, <2>3 DEF Contract!Unsupported
<1>3. ASSUME engine # "SQLITE", Contract!Dropped,
             \/ PrepareFailed
             \/ statement'.query = texts' /\ \E n \in 0..MaxParams : Prepared(n)
      PROVE  Contract!PrepareQuery
  <2>1. CASE PrepareFailed
    BY <1>1, <1>3, <2>1
    DEF PrepareFailed, Failed, Answer, NoRow, Contract!PrepareQuery, Contract!Given,
        Contract!Answer, Contract!NoRow
  <2>2. ASSUME NEW n \in 0..MaxParams, statement'.query = texts', Prepared(n)
        PROVE  Contract!PrepareQuery
    <3>1. lastBindParamCount' # -1
      BY <1>1, <2>2 DEF Prepared
    <3>2. answer' = Contract!Answer("prepared", "1")
      BY <2>2 DEF Prepared, Answer, NoRow, Contract!Answer, Contract!NoRow
    <3>3. QED
      BY <1>1, <1>3, <2>2, <3>1, <3>2 DEF Contract!PrepareQuery, Contract!Given
  <2>3. QED
    BY <1>3, <2>1, <2>2
<1>4. ASSUME NEW n \in 0..MaxParams, engine = "PGSQL", PgsqlPrepare(texts', n)
      PROVE  Contract!PrepareQuery
  <2>1. preparedDue = simpleDue /\ preparedDue' = simpleDue' /\ taken = position /\ taken' = position'
    BY <1>1, <1>4, PgsqlDue
  <2>2. simpleDue' \in {simpleDue, <<>>}
    <3>1. CASE UNCHANGED <<result, position>>
      BY <2>1, <3>1 DEF simpleDue
    <3>2. CASE PgsqlClear
      BY <3>2, NoResult DEF PgsqlClear
    <3>3. QED
      BY <1>4, <3>1, <3>2 DEF PgsqlPrepare
  <2>3. UNCHANGED runs
    BY <1>4 DEF PgsqlPrepare, PrepareFailed, Failed, Prepared
  <2>4. Contract!Dropped
    BY <2>1, <2>2, <2>3, DropsOnly
  <2>5. QED
    BY <1>3, <1>4, <2>4 DEF PgsqlPrepare, NoStatement
<1>5. ASSUME NEW n \in 0..MaxParams, engine = "MYSQL", MysqlPrepare(texts', n)
      PROVE  Contract!PrepareQuery
  <2>1. preparedDue' = DueOf(statement'.sets, statement'.position)
    BY <1>1, <1>5, MysqlDue
  <2>2. simpleDue' \in Contract!Remains(simpleDue)
    BY <1>1, <1>5, ResultStoredDue DEF MysqlPrepare
  <2>3. statement'.sets = <<>> /\ statement'.position = 0
    <3>1. \/ statement' = NoStatement
          \/ statement' = [NoStatement EXCEPT !.query = texts', !.params = n]
      BY <1>5 DEF MysqlPrepare
    <3>2. CASE statement' = NoStatement
      BY ONLY <3>2 DEF NoStatement
    <3>3. CASE statement' = [NoStatement EXCEPT !.query = texts', !.params = n]
      BY ONLY <3>3 DEF NoStatement
    <3>4. QED
      BY <3>1, <3>2, <3>3
  <2>4. preparedDue' \in Contract!Remains(preparedDue)
    BY <2>1, <2>3, DueOfNone, AllOrNoneRemains
  <2>5. UNCHANGED runs
    BY <1>5 DEF MysqlPrepare, PrepareFailed, Failed, Prepared
  <2>6. Contract!Dropped
    BY <2>2, <2>4, <2>5, DropsSome
  <2>7. QED
    BY <1>3, <1>5, <2>6 DEF MysqlPrepare, NoStatement
<1>6. QED
  BY <1>2, <1>4, <1>5 DEF Prepare

LEMMA ObjectStep ==
  ASSUME DbInv, "SQLITE" \notin ObjectSqlEngines, StoreObject \/ RetrieveObject
  PROVE  Contract!ObjectRequest
<1>1. UNCHANGED <<engine, lastBindParamCount, texts, runs>> /\ engine # "SQLITE"
  BY DEF StoreObject, RetrieveObject
<1>0. answer' \in {Contract!Answer("object", is) : is \in {"stored", "retrieved"}}
  BY DEF StoreObject, RetrieveObject, Answer, NoRow, Contract!Answer, Contract!NoRow
<1>2. UNCHANGED resultVars /\ statement' \in {statement, NoStatement}
  BY <1>1 DEF StoreObject, RetrieveObject, PgsqlScorco
<1>3. engine = "PGSQL" \/ UNCHANGED statement
  BY <1>1 DEF StoreObject, RetrieveObject
<1>4. UNCHANGED due
  <2>1. CASE engine = "PGSQL"
    <3>1. preparedDue = simpleDue /\ preparedDue' = simpleDue' /\ taken = position /\ taken' = position'
      BY <1>1, <2>1, PgsqlDue
    <3>2. simpleDue' = simpleDue
      BY <1>2, <3>1 DEF resultVars, simpleDue
    <3>3. QED
      BY <3>1, <3>2, NothingDue
  <2>2. CASE UNCHANGED statement
    BY <1>1, <1>2, <2>2, DueStays
  <2>3. QED
    BY <1>3, <2>1, <2>2
<1>5. (IF lastBindParamCount' = -1 THEN 0 ELSE statement'.query)
        \in {IF lastBindParamCount = -1 THEN 0 ELSE statement.query, 0}
  BY <1>1, <1>2 DEF NoStatement
<1>6. QED
  BY <1>0, <1>1, <1>4, <1>5 DEF Contract!ObjectRequest

LEMMA RefusedStep ==
  ASSUME DbInv, Refused
  PROVE  Contract!Refused
<1>1. UNCHANGED <<engine, lastBindParamCount, texts, runs>> /\ UNCHANGED <<engine, resultVars, statement>>
  BY DEF Refused, Failed, statementVars
<1>2. UNCHANGED due
  BY <1>1, DueStays
<1>3. answer' \in {Contract!Answer(c, "0") : c \in Contract!Cursors}
  BY DEF Refused, Failed, Answer, NoRow, Contract!Answer, Contract!NoRow, Contract!Cursors
<1>4. QED
  BY <1>1, <1>2, <1>3 DEF Contract!Refused

LEMMA ExecutePreparedStep ==
  ASSUME DbInv, ExecutePrepared
  PROVE  Contract!RunPrepared \/ Contract!Unsupported
<1>1. /\ UNCHANGED <<engine, lastBindParamCount, texts>> /\ MaxParams \in Nat
      /\ StatementInv /\ runs \in Nat
  BY DbAssumption DEF ExecutePrepared, DbInv
<1>2. ASSUME Failed("prepared") PROVE answer' = Contract!Answer("prepared", "0") /\ UNCHANGED runs
  BY <1>2 DEF Failed, Answer, NoRow, Contract!Answer, Contract!NoRow
<1>3. ASSUME engine # "SQLITE", statement'.query = statement.query,
             \/ Contract!Dropped /\ Failed("prepared")
             \/ /\ statement.query # 0 /\ lastBindParamCount # -1
                /\ Contract!Answered("prepared", statement.query)
      PROVE  Contract!RunPrepared
  BY <1>1, <1>2, <1>3 DEF Contract!RunPrepared
<1>4. CASE UNCHANGED <<resultVars, statement>> /\ Failed("prepared")
  <2>1. UNCHANGED <<due, runs>>
    BY <1>1, <1>2, <1>4, DueStays
  <2>2. CASE engine = "SQLITE"
    BY <1>1, <1>2, <1>4, <2>1, <2>2 DEF Contract!Unsupported
  <2>3. CASE engine # "SQLITE"
    <3>1. Contract!Dropped
      BY <2>1, AllOrNoneRemains DEF Contract!Dropped
    <3>2. QED
      BY <1>3, <1>4, <2>3, <3>1
  <2>4. QED
    BY <2>2, <2>3
<1>5. CASE /\ engine = "SQLITE" /\ answer' = Answer("prepared", "1")
           /\ UNCHANGED <<resultVars, statement, runs>>
  <2>1. UNCHANGED due
    BY <1>1, <1>5, DueStays
  <2>2. answer' = Contract!Answer("prepared", "1")
    BY <1>5 DEF Answer, NoRow, Contract!Answer, Contract!NoRow
  <2>3. QED
    BY <1>1, <1>5, <2>1, <2>2 DEF Contract!Unsupported
<1>6. ASSUME NEW n \in 0..MaxParams, n = lastBindParamCount,
             engine = "PGSQL", PgsqlExecutePrepared(n)
      PROVE  Contract!RunPrepared
  <2>1. /\ preparedDue = simpleDue /\ preparedDue' = simpleDue'
        /\ taken = position /\ taken' = position' /\ UNCHANGED statement
    BY <1>1, <1>6, PgsqlDue DEF PgsqlExecutePrepared
  <2>2. CASE Failed("prepared") /\ UNCHANGED <<result, position>>
    <3>1. simpleDue' = simpleDue
      BY <2>1, <2>2 DEF simpleDue
    <3>2. QED
      BY <1>2, <1>3, <1>6, <2>1, <2>2, <3>1, DropsOnly
  <2>3. CASE Failed("prepared") /\ PgsqlClear
    <3>1. simpleDue' = <<>>
      BY <2>3, NoResult DEF PgsqlClear
    <3>2. QED
      BY <1>2, <1>3, <1>6, <2>1, <2>3, <3>1, DropsOnly
  <2>4. CASE /\ statement # NoStatement /\ Ran("prepared")
             /\ result' \in ResultSets(statement.query, 1) /\ position' = RowWhenCleared
    <3>1. statement.query \in Nat \ {0} /\ lastBindParamCount # -1
      BY <1>1, <1>6, <2>4 DEF StatementInv
    <3>2. taken' = 0
      BY <1>6, <2>1, <2>4 DEF RowWhenCleared, DbInv, CursorInv
    <3>3. Contract!IsAnswerOf(simpleDue', statement.query, runs + 1)
      BY <2>4, <3>1, <3>2, RunIsAnswer
    <3>4. Contract!Answered("prepared", statement.query)
      BY <2>1, <2>4, <3>3, Parts, IsAnswered
    <3>5. QED
      BY <1>3, <1>6, <2>1, <3>1, <3>4
  <2>5. QED
    BY <1>6, <2>2, <2>3, <2>4 DEF PgsqlExecutePrepared, PgsqlRun
<1>7. ASSUME NEW n \in 0..MaxParams, n = lastBindParamCount,
             engine = "MYSQL", MysqlExecutePrepared(n)
      PROVE  Contract!RunPrepared
  <2>1. /\ preparedDue = DueOf(statement.sets, statement.position)
        /\ preparedDue' = DueOf(statement'.sets, statement'.position)
    BY <1>1, <1>7, MysqlDue
  <2>2. simpleDue' = simpleDue
    BY <1>1, <1>7, MysqlDue DEF MysqlExecutePrepared, resultVars
  <2>3. CASE Failed("prepared") /\ UNCHANGED statement
    <3>1. preparedDue' = preparedDue
      BY <2>1, <2>3
    <3>2. QED
      BY <1>2, <1>3, <1>7, <2>2, <2>3, <3>1, DropsOnly
  <2>4. CASE /\ Failed("prepared")
             /\ statement' \in {WithSets(Unstored(statement.sets)), WithSets(Null)}
    <3>1. statement'.query = statement.query
      BY <1>1, <2>4, WithSetsIs
    <3>2. preparedDue' \in {DueOf(Unstored(statement.sets), 0), <<>>}
      BY <1>1, <2>1, <2>4, WithSetsIs, DueOfNone DEF Null
    <3>3. DueOf(Unstored(statement.sets), 0)
            \in Contract!Remains(DueOf(statement.sets, statement.position))
      BY <1>7, MysqlSets, UnstoredRemains
    <3>4. preparedDue' \in Contract!Remains(preparedDue)
      BY <2>1, <3>2, <3>3, AllOrNoneRemains
    <3>5. simpleDue' \in Contract!Remains(simpleDue)
      BY <2>2, AllOrNoneRemains
    <3>6. Contract!Dropped
      BY <1>2, <2>4, <3>4, <3>5, DropsSome
    <3>7. QED
      BY <1>3, <1>7, <2>4, <3>1, <3>6
  <2>5. ASSUME statement # NoStatement, Ran("prepared"), NEW k \in 0..MaxSets,
               NEW sets \in ResultSets(statement.query, k), statement' = WithSets(sets)
        PROVE  Contract!RunPrepared
    <3>1. statement.query \in Nat \ {0} /\ lastBindParamCount # -1
      BY <1>1, <1>7, <2>5 DEF StatementInv
    <3>2. statement'.sets = sets /\ statement'.position = 0 /\ statement'.query = statement.query
      BY <1>1, <2>5, WithSetsIs
    <3>3. /\ sets \in Seq(Seq(Row))
          /\ Contract!IsAnswerOf(Contract!Left(sets), statement.query, runs + 1)
      <4>1. MaxRows \in Nat /\ k \in Nat
        BY DbAssumption
      <4>2. QED
        BY <1>1, <2>5, <3>1, <4>1, AnswerSets
    <3>4. preparedDue' = Contract!Left(sets)
      BY <2>1, <3>2, <3>3, DueOfAll
    <3>5. Contract!Answered("prepared", statement.query)
      BY <2>2, <2>5, <3>3, <3>4, Parts, IsAnswered
    <3>6. QED
      BY <1>3, <1>7, <3>1, <3>2, <3>5
  <2>6. QED
    BY <1>7, <2>3, <2>4, <2>5 DEF MysqlExecutePrepared
<1>8. QED
  BY <1>4, <1>5, <1>6, <1>7 DEF ExecutePrepared

LEMMA MysqlNextPreparedSetStep ==
  ASSUME DbInv, engine = "MYSQL", UNCHANGED <<engine, runs, position>>,
         statement.sets # <<>> => statement.position = Len(Head(statement.sets)),
         MysqlNextPreparedSet
  PROVE  Contract!FetchEnd("prepared") \/ Contract!FetchFails("prepared")
<1>1. /\ preparedDue = DueOf(statement.sets, statement.position)
      /\ preparedDue' = DueOf(statement'.sets, statement'.position)
      /\ simpleDue = DueOf(result, position) /\ simpleDue' = DueOf(result', position)
      /\ UNCHANGED runs
  BY MysqlDue
<1>2. /\ result \in Seq(Seq(Row)) /\ position \in Nat /\ StatementInv
      /\ result # <<>> => position <= Len(Head(result))
      /\ statement.sets \in Seq(Seq(Row)) /\ statement.position \in Nat
  BY MysqlSets
<1>3. ASSUME NEW sets, statement' = WithSets(sets)
      PROVE  preparedDue' = DueOf(sets, 0)
  BY <1>1, <1>2, <1>3, WithSetsIs
<1>4. CASE /\ Len(statement.sets) > 1
           /\ answer' = Answer("prepared", "none")
           /\ statement' = WithSets(Tail(statement.sets))
           /\ UNCHANGED result
  <2>1. statement.sets # <<>>
    BY <1>2, <1>4, EmptyIff
  <2>2. /\ due["prepared"] = DueOf(statement.sets, Len(Head(statement.sets)))
        /\ due'["prepared"] = DueOf(Tail(statement.sets), 0)
        /\ due'["simple"] = due["simple"]
    BY <1>1, <1>3, <1>4, <2>1, Parts
  <2>3. \A d \in {"simple", "prepared"} :
          due'[d] = due[d] \/ (due[d] = due["prepared"] /\ due'[d] = due'["prepared"])
    BY <2>2
  <2>4. QED
    BY <1>1, <1>2, <1>4, <2>2, <2>3, NextSetIsDue
<1>5. CASE /\ Len(statement.sets) <= 1 /\ Len(result) > 1
           /\ answer' = Answer("prepared", "none")
           /\ statement' = WithSets(Tail(result))
           /\ result' = Stored(result)
  <2>1. result # <<>>
    BY <1>2, <1>5, EmptyIff
  <2>2. due["prepared"] = <<>>
    BY <1>1, <1>2, <1>5, Parts, NothingLeft
  <2>3. /\ due["simple"] = DueOf(result, position)
        /\ due'["simple"] = DueOf(Stored(result), position)
        /\ due'["prepared"] = DueOf(Tail(result), 0)
    BY <1>1, <1>3, <1>5, Parts
  <2>4. QED
    BY <1>1, <1>2, <1>5, <2>1, <2>2, <2>3, SetsAreTakenOver
<1>6. CASE /\ ~Pending
           /\ answer' = Answer("prepared", "none")
           /\ statement' = WithSets(Null)
           /\ UNCHANGED result
  <2>1. preparedDue = <<>>
    <3>1. Len(statement.sets) <= 1
      BY <1>2, <1>6 DEF Pending
    <3>2. QED
      BY <1>1, <1>2, <3>1, NothingLeft
  <2>2. preparedDue' = <<>>
    BY <1>3, <1>6, DueOfNone DEF Null
  <2>3. simpleDue' = simpleDue
    BY <1>1, <1>6
  <2>4. QED
    BY <1>1, <1>6, <2>1, <2>2, <2>3, Parts, NothingDue, NothingIsFetched
<1>7. CASE /\ answer' = Answer("prepared", "error")
           /\ statement' = WithSets(Null)
           /\ result' \in {result, Stored(result)}
  <2>1. preparedDue' \in Contract!Remains(preparedDue)
    BY <1>3, <1>7, DueOfNone, AllOrNoneRemains DEF Null
  <2>2. simpleDue' \in Contract!Remains(simpleDue)
    BY <1>7, ResultStoredDue
  <2>3. QED
    BY <1>1, <1>7, <2>1, <2>2, DropsSome, FetchIsInError
<1>8. QED
  BY <1>4, <1>5, <1>6, <1>7 DEF MysqlNextPreparedSet

LEMMA MysqlFetchPreparedStep ==
  ASSUME DbInv, engine = "MYSQL", UNCHANGED <<engine, runs>>, MysqlFetchPrepared
  PROVE  \/ Contract!FetchRow("prepared")
         \/ Contract!FetchEnd("prepared")
         \/ Contract!FetchFails("prepared")
<1>1. /\ preparedDue = DueOf(statement.sets, statement.position)
      /\ preparedDue' = DueOf(statement'.sets, statement'.position)
      /\ simpleDue = DueOf(result, position) /\ simpleDue' = DueOf(result', position)
      /\ UNCHANGED runs /\ UNCHANGED engine /\ UNCHANGED position
  BY MysqlDue DEF MysqlFetchPrepared
<1>2. /\ result \in Seq(Seq(Row)) /\ position \in Nat /\ StatementInv
      /\ statement.sets \in Seq(Seq(Row)) /\ statement.position \in Nat
      /\ statement.sets # <<>> => /\ statement.position <= Len(Head(statement.sets))
                                  /\ Len(Head(statement.sets)) \in Nat
  BY MysqlSets, HeadTailProperties
<1> DEFINE left == IF statement.sets = Null THEN 0
                   ELSE Len(Head(statement.sets)) - statement.position
<1>3. /\ left > 0 => statement.sets # <<>> /\ statement.position < Len(Head(statement.sets))
      /\ left = 0 /\ statement.sets # <<>> => statement.position = Len(Head(statement.sets))
  BY <1>2 DEF Null
<1>4. \/ /\ left > 0
         /\ answer' = RowAnswer("prepared", Head(statement.sets)[statement.position + 1])
         /\ statement' = [statement EXCEPT !.position = @ + 1]
         /\ UNCHANGED result
      \/ /\ left > 0
         /\ answer' = Answer("prepared", "error")
         /\ statement' = WithSets(Unstored(statement.sets))
         /\ UNCHANGED result
      \/ answer' = Answer("prepared", "error") /\ UNCHANGED <<statement, result>>
      \/ statement.sets = Null /\ answer' = Answer("prepared", "none") /\ UNCHANGED <<statement, result>>
      \/ left = 0 /\ MysqlNextPreparedSet
  BY DEF MysqlFetchPrepared
<1> HIDE DEF left
<1>5. CASE /\ left > 0
           /\ answer' = RowAnswer("prepared", Head(statement.sets)[statement.position + 1])
           /\ statement' = [statement EXCEPT !.position = @ + 1]
           /\ UNCHANGED result
  <2>1. statement'.sets = statement.sets /\ statement'.position = statement.position + 1
    BY <1>2, <1>5 DEF StatementInv
  <2>2. /\ due["prepared"] = DueOf(statement.sets, statement.position)
        /\ due'["prepared"] = DueOf(statement.sets, statement.position + 1)
        /\ due'["simple"] = due["simple"]
    BY <1>1, <1>5, <2>1, Parts
  <2>3. \A d \in {"simple", "prepared"} :
          due'[d] = due[d] \/ (due[d] = due["prepared"] /\ due'[d] = due'["prepared"])
    BY <2>2
  <2>4. QED
    BY <1>1, <1>2, <1>3, <1>5, <2>2, <2>3, RowIsFetched
<1>6. CASE /\ left > 0
           /\ answer' = Answer("prepared", "error")
           /\ statement' = WithSets(Unstored(statement.sets))
           /\ UNCHANGED result
  <2>1. preparedDue' = DueOf(Unstored(statement.sets), 0)
    BY <1>1, <1>2, <1>6, WithSetsIs
  <2>2. preparedDue' \in Contract!Remains(preparedDue)
    BY <1>1, <1>2, <2>1, UnstoredRemains
  <2>3. simpleDue' \in Contract!Remains(simpleDue)
    BY <1>1, <1>6, AllOrNoneRemains
  <2>4. QED
    BY <1>1, <1>6, <2>2, <2>3, DropsSome, FetchIsInError
<1>7. CASE answer' = Answer("prepared", "error") /\ UNCHANGED <<statement, result>>
  BY <1>1, <1>7, DropsOnly, FetchIsInError
<1>8. CASE statement.sets = Null /\ answer' = Answer("prepared", "none") /\ UNCHANGED <<statement, result>>
  <2>1. preparedDue = <<>> /\ preparedDue' = preparedDue /\ simpleDue' = simpleDue
    BY <1>1, <1>8, DueOfNone DEF Null
  <2>2. QED
    BY <1>1, <1>8, <2>1, Parts, NothingDue, NothingIsFetched
<1>9. CASE left = 0 /\ MysqlNextPreparedSet
  BY <1>1, <1>3, <1>9, MysqlNextPreparedSetStep
<1>10. QED
  BY <1>4, <1>5, <1>6, <1>7, <1>8, <1>9

LEMMA FetchPreparedStep ==
  ASSUME DbInv, FetchPrepared
  PROVE  Contract!Fetch \/ Contract!Unsupported
<1>1. UNCHANGED <<engine, lastBindParamCount, texts, runs>> /\ StatementInv
  BY DEF FetchPrepared, DbInv
<1>2. CASE /\ engine = "SQLITE" /\ answer' = Answer("prepared", "error")
           /\ UNCHANGED <<resultVars, statement>>
  <2>1. UNCHANGED due
    BY <1>1, <1>2, DueStays
  <2>2. answer' = Contract!Answer("prepared", "error")
    BY <1>2 DEF Answer, NoRow, Contract!Answer, Contract!NoRow
  <2>3. QED
    BY <1>1, <1>2, <2>1, <2>2 DEF Contract!Unsupported
<1>3. ASSUME engine # "SQLITE", statement'.query = statement.query,
             \/ Contract!FetchRow("prepared")
             \/ Contract!FetchEnd("prepared")
             \/ Contract!FetchFails("prepared")
      PROVE  Contract!Fetch
  BY <1>1, <1>3 DEF Contract!Fetch
<1>4. CASE engine = "PGSQL" /\ PgsqlFetch("prepared") /\ UNCHANGED statement
  BY <1>1, <1>3, <1>4, PgsqlFetchStep
<1>5. CASE engine = "MYSQL" /\ MysqlFetchPrepared
  <2>1. statement'.query = statement.query
    <3>1. \/ statement' = statement
          \/ statement' = [statement EXCEPT !.position = @ + 1]
          \/ \E sets : statement' = WithSets(sets)
      BY <1>5 DEF MysqlFetchPrepared, MysqlNextPreparedSet
    <3>2. QED
      BY <1>1, <3>1, WithSetsIs DEF StatementInv
  <2>2. QED
    BY <1>1, <1>3, <1>5, <2>1, MysqlFetchPreparedStep
<1>6. QED
  BY <1>2, <1>4, <1>5 DEF FetchPrepared

LEMMA RowsInitially == ASSUME DbInit, DbInv PROVE Contract!RowsInit
<1>1. result = Null /\ position = 0 /\ statement = NoStatement /\ lastBindParamCount = -1
  BY DEF DbInit
<1>2. simpleDue = <<>>
  BY <1>1, NoResult
<1>3. preparedDue = <<>>
  <2>1. DueOf(statement.sets, statement.position) = <<>>
    BY <1>1, DueOfNone DEF NoStatement
  <2>2. QED
    BY <1>2, <2>1 DEF preparedDue, DbInv
<1>4. due = [c \in {"simple", "prepared"} |-> <<>>]
  BY <1>2, <1>3 DEF due
<1>5. answer = Contract!Answer("simple", "none")
  BY DEF DbInit, Answer, NoRow, Contract!Answer, Contract!NoRow
<1>6. QED
  BY <1>1, <1>4, <1>5 DEF DbInit, Contract!RowsInit, Contract!Cursors

LEMMA EveryStepIsAllowed ==
  ASSUME DbInv, "SQLITE" \notin ObjectSqlEngines, [DbNext]_dbVars
  PROVE  [Contract!RowsNext]_Contract!rowsVars
<1>1. UNCHANGED engine
  BY DEF DbNext, dbVars, Execute, Fetch, Refused, Prepare, ExecutePrepared, FetchPrepared,
         StoreObject, RetrieveObject, ConnectionLost
<1>2. CASE UNCHANGED <<engine, resultVars, statementVars, texts, runs, answer>>
  <2>1. UNCHANGED due
    BY <1>2, DueStays DEF statementVars
  <2>2. QED
    BY <1>2, <2>1 DEF statementVars, Contract!rowsVars
<1>3. CASE DbNext
  <2>1. \/ Contract!Refused \/ Contract!ExecuteQuery \/ Contract!PrepareQuery \/ Contract!RunPrepared
        \/ Contract!Fetch \/ Contract!Unsupported \/ Contract!ObjectRequest
        \/ UNCHANGED <<engine, resultVars, statementVars, texts, runs, answer>>
    BY <1>3, ExecuteStep, FetchStep, RefusedStep, PrepareStep, ExecutePreparedStep, FetchPreparedStep, ObjectStep
    DEF DbNext, ConnectionLost
  <2>2. QED
    BY <1>1, <1>2, <2>1 DEF Contract!RowsNext
<1>4. QED
  BY <1>2, <1>3 DEF dbVars

\* Whatever the database answers, and however scripts mix simple and prepared
\* queries, fetches and objects, each fetch gets the row it should: on SQLite, of
\* objects stored with an SQL statement nothing is said (NWNXdb.cpp:190-741 and
\* the back ends; see MainLoopUnbroken for SQLite's objects).
THEOREM FetchesGetTheRowsDue ==
  ASSUME "SQLITE" \notin ObjectSqlEngines
  PROVE  DbSpec => ImplementsResultRows
<1>1. DbInit => Contract!RowsInit
  BY DbInitInv, RowsInitially
<1>2. DbInv /\ [DbNext]_dbVars => [Contract!RowsNext]_Contract!rowsVars
  BY EveryStepIsAllowed
<1>3. QED
  BY <1>1, <1>2, DbInvariant, PTL DEF DbSpec, ImplementsResultRows, Contract!RowsSpec
===============================================================================
