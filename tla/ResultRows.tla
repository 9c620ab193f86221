------------------------------ MODULE ResultRows ------------------------------
(***************************************************************************)
(* What scripts may expect of the requests EXECUTE / FETCH and P_PREPARE / *)
(* P_EXECUTE / P_FETCH of the DB plugin, whatever database is behind it    *)
(* (plugins/db/nwn/nwnx_db.nss): after a query was run, each fetch gets    *)
(* the next row of a result set, and one fetch between two sets, and every *)
(* fetch after the last one, gets none.                                    *)
(*                                                                         *)
(* There is one cursor for each kind of fetch.  They may be one and the    *)
(* same (PostgreSQL) or not (MySQL): a script cannot count on either.      *)
(* Requests that fail, and other queries, may lose rows that were due, but *)
(* nothing is ever fetched in their place but what was due after them.     *)
(*                                                                         *)
(* Two cursors of one connection (MySQL) are apart but for the end of      *)
(* their sets: the fetch there asks the connection for the next set, which *)
(* may be pending for the other cursor, and takes it over with those after *)
(* it.  Scripts that read one query to its end before they run or fetch    *)
(* another never see that.                                                 *)
(***************************************************************************)
EXTENDS Naturals, Sequences

VARIABLES
  due,       \* by cursor: the result sets, as sequences of rows, still to be fetched
  prepared,  \* the query P_EXECUTE runs; 0 when there is none
  texts,     \* how many queries scripts have given, which numbers them
  runs,      \* how many times one was run
  answer,    \* to the last request of a script: see Answer
  supported  \* the cursors the database has

rowsVars == <<due, prepared, texts, runs, answer, supported>>

Cursors == {"simple", "prepared"}

\* Requests for c are answered "1" or "0", with a row, with none, or in "error"
\* (which nwnx_db.nss does not tell from none).
NoRow == [query |-> 0, run |-> 0, set |-> 0, row |-> 0]
Answer(c, is) == [to |-> c, is |-> is, row |-> NoRow]
RowAnswer(c, r) == [to |-> c, is |-> "row", row |-> r]

\* These are the sets of the r-th run, one of query q: each row in its place.
IsAnswerOf(sets, q, r) ==
  \A s \in DOMAIN sets : \A i \in DOMAIN sets[s] :
    sets[s][i] = [query |-> q, run |-> r, set |-> s, row |-> i]

\* A last set that is used up is the same as none.
Left(sets) == IF sets = << <<>> >> THEN <<>> ELSE sets

\* What is left of sets when some are lost: the current one, those after it, or none.
Remains(sets) ==
  {sets, <<>>} \cup
  IF sets = <<>> THEN {} ELSE {Left(<<Head(sets)>>), Left(<< <<>> >> \o Tail(sets))}

\* c has the rows of a new run of q, and perhaps it is the only cursor.
Answered(c, q) ==
  /\ answer' = Answer(c, "1")
  /\ runs' = runs + 1
  /\ IsAnswerOf(due'[c], q, runs')
  /\ \A d \in Cursors : due'[d] \in {due'[c]} \cup Remains(due[d])

\* What was due may be gone, but is not replaced by anything else.
Dropped ==
  /\ \A d \in Cursors : due'[d] \in Remains(due[d])
  /\ UNCHANGED runs

Given == texts' = texts + 1

RowsInit ==
  /\ due = [c \in Cursors |-> <<>>]
  /\ prepared = 0
  /\ texts = 0
  /\ runs = 0
  /\ answer = Answer("simple", "none")
  /\ "simple" \in supported

\* A request that is no query.
Refused ==
  /\ answer' \in {Answer(c, "0") : c \in Cursors}
  /\ UNCHANGED <<due, prepared, texts, runs>>

ExecuteQuery ==
  /\ Given
  /\ prepared' \in {prepared, 0}
  /\ \/ Answered("simple", texts')
     \/ Dropped /\ answer' = Answer("simple", "0")

PrepareQuery ==
  /\ "prepared" \in supported
  /\ Given
  /\ Dropped
  /\ \/ answer' = Answer("prepared", "1") /\ prepared' = texts'
     \/ answer' = Answer("prepared", "0") /\ prepared' = 0

RunPrepared ==
  /\ "prepared" \in supported
  /\ \/ prepared # 0 /\ Answered("prepared", prepared)
     \/ Dropped /\ answer' = Answer("prepared", "0")
  /\ UNCHANGED <<prepared, texts>>

\* The fetch of c leaves sets due to it.
Advance(c, sets) ==
  /\ due'[c] = sets
  /\ \A d \in Cursors : due'[d] = due[d] \/ (due[d] = due[c] /\ due'[d] = sets)
  /\ UNCHANGED runs

FetchRow(c) ==
  /\ due[c] # <<>>
  /\ Head(due[c]) # <<>>
  /\ answer' = RowAnswer(c, Head(Head(due[c])))
  /\ Advance(c, Left(<<Tail(Head(due[c]))>> \o Tail(due[c])))

\* The sets after the other cursor's current one are taken over by c, or lost.
TakeOver(c) ==
  /\ due[c] = <<>>
  /\ \E d \in Cursors \ {c} :
       /\ Len(due[d]) > 1
       /\ due'[d] = Left(<<Head(due[d])>>)
       /\ due'[c] \in {Left(Tail(due[d])), <<>>}
  /\ UNCHANGED runs

FetchEnd(c) ==
  /\ answer' = Answer(c, "none")
  /\ \/ due[c] # <<>> /\ Head(due[c]) = <<>> /\ Advance(c, Left(Tail(due[c])))
     \/ due[c] = <<>> /\ UNCHANGED <<due, runs>>
     \/ TakeOver(c)

FetchFails(c) == answer' = Answer(c, "error") /\ Dropped

Fetch ==
  /\ \E c \in supported : FetchRow(c) \/ FetchEnd(c) \/ FetchFails(c)
  /\ UNCHANGED <<prepared, texts>>

\* P_PREPARE and its like where the database does not have them.
Unsupported ==
  /\ "prepared" \notin supported
  /\ answer' \in {Answer("prepared", is) : is \in {"0", "1", "error"}}
  /\ texts' \in {texts, texts + 1}
  /\ UNCHANGED <<due, prepared, runs>>

\* An object is stored or retrieved: not to be noticed in what is fetched.
ObjectRequest ==
  /\ prepared' \in {prepared, 0}
  /\ answer' \in {Answer("object", is) : is \in {"stored", "retrieved"}}
  /\ UNCHANGED <<due, texts, runs>>

RowsNext ==
  /\ Refused \/ ExecuteQuery \/ PrepareQuery \/ RunPrepared \/ Fetch \/ Unsupported \/ ObjectRequest
  /\ UNCHANGED supported

RowsSpec == RowsInit /\ [][RowsNext]_rowsVars
===============================================================================
