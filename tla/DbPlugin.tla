------------------------------- MODULE DbPlugin -------------------------------
(***************************************************************************)
(* The queries of the DB plugin: CNWNXDB (NWNXdb.cpp) and its three back   *)
(* ends, CSQLite, CPgSQL and CMySQL.  Scripts run queries and fetch their  *)
(* rows, prepare queries and run these, and store and retrieve objects     *)
(* with an SQL statement of their own (SCO/RCO).  Every request is         *)
(* answered before the next: what is hard is what a request leaves behind  *)
(* for the next ones.                                                      *)
(*                                                                         *)
(* The database decides which queries fail and what they return.  A query  *)
(* is known by the order in which scripts gave it, a row by its place.     *)
(*                                                                         *)
(* Left out: the values in the rows, and the buffer objects pass through;  *)
(* statements of a multi-statement query that return no rows, and the      *)
(* status a stored procedure returns after its sets; a query scripts give  *)
(* for SCO/RCO that has several; a database too busy to step RCO's.        *)
(* ReadScorcoData's "FETCHMODE" is never asked for: ReadSCO calls it for   *)
(* the key "-" only, and passes that on (NWNXdb.cpp:862-875).              *)
(***************************************************************************)
EXTENDS Integers, Sequences

CONSTANTS
  Engines,           \* the back ends looked at, of "SQLITE", "PGSQL" and "MYSQL"
  ObjectSqlEngines,  \* those used with SCO/RCO
  MysqlMaxParams,    \* NWNX_MYSQL_MAX_PARAMETERS
  MaxTexts,          \* bound: queries given by scripts
  MaxRuns,           \* bound: queries run
  MaxSets,           \* bound: result sets of one query
  MaxRows,           \* bound: rows of a set
  MaxParams          \* bound: parameters of a prepared query

ASSUME DbAssumption ==
  /\ ObjectSqlEngines \subseteq Engines
  /\ Engines \subseteq {"SQLITE", "PGSQL", "MYSQL"}
  /\ {MysqlMaxParams, MaxTexts, MaxRuns, MaxSets, MaxRows, MaxParams} \subseteq Nat

VARIABLES
  engine,              \* dbType, from the configuration
  connected,           \* CPgSQL: PQstatus is CONNECTION_OK
  result,              \* the result sets FETCH reads, the current one first: db_result
                       \* and those pending on the connection, or CSQLite's db_statement
  position,            \* the row of the first set taken last: current_row
  firstRowRead,        \* CSQLite: that row was stepped to, but not fetched yet
  statement,           \* what P_EXECUTE runs: CMySQL's db_statement, with the result sets
                       \* P_FETCH reads, those pending included; and on a PostgreSQL
                       \* server the unnamed statement
  lastBindParamCount,  \* last_bind_param_count
  texts, runs,         \* history: queries given by scripts, and queries run
  answer               \* the last answer to a script's query or fetch

resultVars    == <<result, position, firstRowRead>>
statementVars == <<statement, lastBindParamCount>>
dbVars == <<engine, connected, resultVars, statementVars, texts, runs, answer>>

NoStatement == [query |-> 0, params |-> 0, sets |-> <<>>, position |-> 0]

Row == [query : Nat, run : Nat, set : Nat, row : Nat]
NoRow == [query |-> 0, run |-> 0, set |-> 0, row |-> 0]
Answer(c, is) == [to |-> c, is |-> is, row |-> NoRow]
RowAnswer(c, r) == [to |-> c, is |-> "row", row |-> r]

\* What the database may return for query q: so many sets, with so many rows.
ResultSets(q, n) ==
  {[s \in 1..n |-> [i \in 1..size[s] |-> [query |-> q, run |-> runs + 1, set |-> s, row |-> i]]] :
     size \in [1..n -> 0..MaxRows]}

\* As the code has it, db_result and db_statement are NULL.
Null == <<>>
CurrentSet == Head(result)

DbInit ==
  /\ engine \in Engines
  /\ connected = TRUE
  /\ result = Null
  /\ position = 0
  /\ firstRowRead \in BOOLEAN   \* never initialized
  /\ statement = NoStatement
  /\ lastBindParamCount = -1
  /\ texts = 0
  /\ runs = 0
  /\ answer = Answer("simple", "none")

\* A query is run: it fails, or is answered.
Given == texts < MaxTexts /\ texts' = texts + 1
Ran(c) == runs < MaxRuns /\ runs' = runs + 1 /\ answer' = Answer(c, "1")
Failed(c) == answer' = Answer(c, "0") /\ UNCHANGED runs

\* CNWNXDB::Prepare keeps what the back end says.
Prepared(n) ==
  /\ lastBindParamCount' = n
  /\ answer' = Answer("prepared", "1")
  /\ UNCHANGED runs

\* Mutant of PrepareFailed: the count of the statement before is kept.
PrepareFailedKeepingCount == UNCHANGED lastBindParamCount /\ Failed("prepared")

PrepareFailed == lastBindParamCount' = -1 /\ Failed("prepared")
-------------------------------------------------------------------------------
(* SQLite.  There is one statement, whose rows FETCH steps through.          *)

SqliteFinalize == result' = Null /\ UNCHANGED position

SqliteExecute(q) ==
  \/ /\ Failed("simple")          \* not prepared, or not stepped
     /\ SqliteFinalize
     /\ firstRowRead' \in {firstRowRead, FALSE}
  \/ /\ Ran("simple")
     /\ \E sets \in ResultSets(q, 1) :
          IF sets[1] = <<>>
          THEN SqliteFinalize /\ firstRowRead' = FALSE
          ELSE result' = sets /\ position' = 1 /\ firstRowRead' = TRUE

SqliteStep ==
  /\ result # Null
  /\ position < Len(CurrentSet)
  /\ position' = position + 1
  /\ UNCHANGED <<result, firstRowRead>>
  /\ answer' = RowAnswer("simple", CurrentSet[position + 1])

SqliteFirst ==
  /\ result # Null
  /\ firstRowRead' = FALSE
  /\ UNCHANGED <<result, position>>
  /\ answer' = RowAnswer("simple", CurrentSet[position])

SqliteFetch ==
  \/ result = Null /\ answer' = Answer("simple", "none") /\ UNCHANGED resultVars
  \/ firstRowRead /\ SqliteFirst
  \/ ~firstRowRead /\ SqliteStep
  \/ /\ result # Null
     /\ ~firstRowRead
     /\ \/ position = Len(CurrentSet) /\ answer' = Answer("simple", "none")
        \/ answer' = Answer("simple", "error")
     /\ SqliteFinalize
     /\ UNCHANGED firstRowRead

\* SCO and RCO take over the statement of the query, and RCO leaves its own.
SqliteWriteScorcoData == SqliteFinalize /\ UNCHANGED firstRowRead

SqliteReadScorcoData ==
  /\ \/ SqliteFinalize
     \/ \E sets \in ResultSets(0, 1) :
          sets[1] # <<>> /\ result' = sets /\ position' = 1
  /\ UNCHANGED firstRowRead
-------------------------------------------------------------------------------
(* PostgreSQL.  Both kinds of fetch read db_result; the prepared statement   *)
(* is the unnamed one of the server, which a simple query destroys.          *)

\* Mutant of RowWhenCleared: current_row stays.
RowKept == position

RowWhenCleared == IF result # Null THEN 0 ELSE position

PgsqlClear == result' = Null /\ position' = RowWhenCleared

\* db_result is cleared and has the answer of query q, if there is one.
PgsqlRun(c, q) ==
  \/ Failed(c) /\ PgsqlClear
  \/ Ran(c) /\ result' \in ResultSets(q, 1) /\ position' = RowWhenCleared

PgsqlExecute(q) ==
  /\ \/ ~connected /\ Failed("simple") /\ UNCHANGED <<result, position, statement>>
     \/ connected /\ PgsqlRun("simple", q) /\ statement' = NoStatement
  /\ UNCHANGED firstRowRead

PgsqlFetch(c) ==
  /\ \/ /\ ~connected \/ result = Null
        /\ answer' = Answer(c, "error")
        /\ UNCHANGED position
     \/ /\ connected /\ result # Null /\ position >= Len(CurrentSet)
        /\ answer' = Answer(c, "none")
        /\ UNCHANGED position
     \/ /\ connected /\ result # Null /\ position < Len(CurrentSet)
        /\ answer' = RowAnswer(c, CurrentSet[position + 1])
        /\ position' = position + 1
  /\ UNCHANGED <<result, firstRowRead>>

PgsqlPrepare(q, n) ==
  /\ \/ ~connected /\ PrepareFailed /\ UNCHANGED <<result, position, statement>>
     \/ connected /\ PrepareFailed /\ PgsqlClear /\ statement' = NoStatement
     \/ /\ connected
        /\ Prepared(n)
        /\ PgsqlClear
        /\ statement' = [NoStatement EXCEPT !.query = q, !.params = n]
  /\ UNCHANGED firstRowRead

PgsqlExecutePrepared(n) ==
  /\ \/ ~connected /\ Failed("prepared") /\ UNCHANGED <<result, position>>
     \/ /\ connected
        /\ statement = NoStatement \/ statement.params # n
        /\ Failed("prepared")
        /\ PgsqlClear
     \/ /\ connected
        /\ statement # NoStatement /\ statement.params = n
        /\ PgsqlRun("prepared", statement.query)
  /\ UNCHANGED <<firstRowRead, statement>>

\* SCO and RCO have results of their own, but are simple queries.
PgsqlScorco ==
  /\ statement' = IF connected THEN NoStatement ELSE statement
  /\ UNCHANGED resultVars
-------------------------------------------------------------------------------
(* MySQL.  A query may have several sets: EXECUTE and P_EXECUTE store the    *)
(* first, and the others are pending on the connection, which is one for     *)
(* both kinds of requests.  Nothing can be run before they are read, and who *)
(* asks for the next one gets it, whichever query it is of.  A set after the *)
(* first is not stored for P_FETCH, but read row by row: what is sent then   *)
(* fails, as it always may.                                                  *)

Pending == Len(result) > 1 \/ Len(statement.sets) > 1

\* What is stored, when what is pending is read and thrown away; and what is pending,
\* when what is stored is freed.
Stored(sets)  == IF Len(sets) <= 1 THEN sets ELSE <<Head(sets)>>
Unstored(sets) == IF Len(sets) <= 1 THEN Null ELSE << <<>> >> \o Tail(sets)

\* The statement when it has other sets, of which none was fetched from the first; and
\* when nothing is pending any more.
WithSets(sets) == [statement EXCEPT !.sets = sets, !.position = 0]
StatementStored == [statement EXCEPT !.sets = Stored(@)]

\* What is pending, of either query, is thrown away first; it is not while P_FETCH is
\* reading it.
MysqlExecute(q) ==
  /\ \/ Failed("simple") /\ result' = Null /\ statement' \in {statement, StatementStored}
     \/ /\ Ran("simple")
        /\ \E n \in 0..MaxSets : result' \in ResultSets(q, n)
        /\ statement' = StatementStored
  /\ position' = 0
  /\ UNCHANGED firstRowRead

\* Mutant of MysqlNextSet: the sets after the first are not asked for.
MysqlNoNextSet == result' = Null /\ UNCHANGED statement

\* FETCH asks the connection for the next set: it gets the next of its own query; or,
\* when that has none, the statement's, if it can be read; or none.
MysqlNextSet ==
  \/ Len(result) > 1 /\ result' = Tail(result) /\ UNCHANGED statement
  \/ /\ Len(result) = 1 /\ Len(statement.sets) > 1
     /\ result' \in {Tail(statement.sets), Null}
     /\ statement' = StatementStored
  \/ Len(result) = 1 /\ result' = Null /\ UNCHANGED statement

MysqlFetch ==
  /\ \/ /\ result = Null
        /\ answer' = Answer("simple", "none")
        /\ UNCHANGED <<result, position, statement>>
     \/ /\ result # Null /\ position < Len(CurrentSet)
        /\ answer' = RowAnswer("simple", CurrentSet[position + 1])
        /\ position' = position + 1
        /\ UNCHANGED <<result, statement>>
     \/ /\ result # Null /\ position = Len(CurrentSet)
        /\ answer' = Answer("simple", "none")
        /\ MysqlNextSet
        /\ position' = 0
  /\ UNCHANGED firstRowRead

\* The statement before is closed, and what is pending, of either query, is read until
\* there is no more or an error.  With too many parameters the new one stays.
MysqlPrepare(q, n) ==
  /\ result' \in {result} \cup (IF statement = NoStatement THEN {} ELSE {Stored(result)})
  /\ \/ PrepareFailed /\ statement' = NoStatement
     \/ /\ Len(result') <= 1
        /\ IF n > MysqlMaxParams THEN PrepareFailed ELSE Prepared(n)
        /\ statement' = [NoStatement EXCEPT !.query = q, !.params = n]
  /\ UNCHANGED <<position, firstRowRead>>

\* What is pending is not thrown away here.  Nothing prepared, or parameters that are
\* not bound, leave the statement alone; executing it frees what it has stored.
MysqlExecutePrepared(n) ==
  /\ \/ Failed("prepared") /\ UNCHANGED statement
     \/ /\ Failed("prepared")
        /\ statement # NoStatement /\ statement.params = n
        /\ statement' \in {WithSets(Unstored(statement.sets)), WithSets(Null)}
     \/ /\ ~Pending
        /\ statement # NoStatement /\ statement.params = n
        /\ Ran("prepared")
        /\ \E k \in 0..MaxSets : \E sets \in ResultSets(statement.query, k) :
             statement' = WithSets(sets)
  /\ UNCHANGED resultVars

\* P_FETCH asks for the next set: it gets the next of its own query; or, when that has
\* none, FETCH's; or none; or an error, and what is pending is lost.
MysqlNextPreparedSet ==
  \/ /\ Len(statement.sets) > 1
     /\ answer' = Answer("prepared", "none")
     /\ statement' = WithSets(Tail(statement.sets))
     /\ UNCHANGED result
  \/ /\ Len(statement.sets) <= 1 /\ Len(result) > 1
     /\ answer' = Answer("prepared", "none")
     /\ statement' = WithSets(Tail(result))
     /\ result' = Stored(result)
  \/ /\ ~Pending
     /\ answer' = Answer("prepared", "none")
     /\ statement' = WithSets(Null)
     /\ UNCHANGED result
  \/ /\ answer' = Answer("prepared", "error")
     /\ statement' = WithSets(Null)
     /\ result' \in {result, Stored(result)}

MysqlFetchPrepared ==
  LET left == IF statement.sets = Null THEN 0
              ELSE Len(Head(statement.sets)) - statement.position
  IN  /\ \/ /\ left > 0
            /\ answer' = RowAnswer("prepared", Head(statement.sets)[statement.position + 1])
            /\ statement' = [statement EXCEPT !.position = @ + 1]
            /\ UNCHANGED result
         \/ /\ left > 0               \* after an error there is no result set to fetch from
            /\ answer' = Answer("prepared", "error")
            /\ statement' = WithSets(Unstored(statement.sets))
            /\ UNCHANGED result
         \/ /\ answer' = Answer("prepared", "error")   \* no statement, or buffers not bound
            /\ UNCHANGED <<statement, result>>
         \/ /\ statement.sets = Null                   \* there are no columns
            /\ answer' = Answer("prepared", "none")
            /\ UNCHANGED <<statement, result>>
         \/ statement # NoStatement /\ left = 0 /\ MysqlNextPreparedSet
      /\ UNCHANGED <<position, firstRowRead>>
-------------------------------------------------------------------------------
(* The requests of scripts.                                                  *)

\* An empty query, or parameters that cannot be read, do not get to the back end.
Refused ==
  /\ \E c \in {"simple", "prepared"} : Failed(c)
  /\ UNCHANGED <<engine, connected, resultVars, statementVars, texts>>

Execute ==
  /\ Given
  /\ \/ engine = "SQLITE" /\ SqliteExecute(texts') /\ UNCHANGED statement
     \/ engine = "PGSQL" /\ PgsqlExecute(texts')
     \/ engine = "MYSQL" /\ MysqlExecute(texts')
  /\ UNCHANGED <<engine, connected, lastBindParamCount>>

Fetch ==
  /\ \/ engine = "SQLITE" /\ SqliteFetch /\ UNCHANGED statement
     \/ engine = "PGSQL" /\ PgsqlFetch("simple") /\ UNCHANGED statement
     \/ engine = "MYSQL" /\ MysqlFetch
  /\ UNCHANGED <<engine, connected, lastBindParamCount, texts, runs>>

\* CSQLite has no statements to prepare: it answers 0, which is no parameters.
Prepare ==
  /\ Given
  /\ \E n \in 0..MaxParams :
       \/ engine = "SQLITE" /\ Prepared(0) /\ UNCHANGED <<resultVars, statement>>
       \/ engine = "PGSQL" /\ PgsqlPrepare(texts', n)
       \/ engine = "MYSQL" /\ MysqlPrepare(texts', n)
  /\ UNCHANGED <<engine, connected>>

\* P_EXECUTE with n parameters is for the statement prepared last, or refused.
ExecutePrepared ==
  /\ \E n \in 0..MaxParams :
       \/ n # lastBindParamCount /\ Failed("prepared") /\ UNCHANGED <<resultVars, statement>>
       \/ /\ n = lastBindParamCount
          /\ \/ /\ engine = "SQLITE"
                /\ answer' = Answer("prepared", "1")
                /\ UNCHANGED <<resultVars, statement, runs>>
             \/ engine = "PGSQL" /\ PgsqlExecutePrepared(n)
             \/ engine = "MYSQL" /\ MysqlExecutePrepared(n)
  /\ UNCHANGED <<engine, connected, lastBindParamCount, texts>>

FetchPrepared ==
  /\ \/ /\ engine = "SQLITE"
        /\ answer' = Answer("prepared", "error")
        /\ UNCHANGED <<resultVars, statement>>
     \/ engine = "PGSQL" /\ PgsqlFetch("prepared") /\ UNCHANGED statement
     \/ engine = "MYSQL" /\ MysqlFetchPrepared
  /\ UNCHANGED <<engine, connected, lastBindParamCount, texts, runs>>

\* STOREOBJECT and StoreCampaignObject; CMySQL has a statement of its own for it.
StoreObject ==
  /\ engine \in ObjectSqlEngines
  /\ \/ engine = "SQLITE" /\ SqliteWriteScorcoData /\ UNCHANGED statement
     \/ engine = "PGSQL" /\ PgsqlScorco
     \/ engine = "MYSQL" /\ UNCHANGED <<resultVars, statement>>
  /\ answer' = Answer("object", "stored")
  /\ UNCHANGED <<engine, connected, lastBindParamCount, texts, runs>>

\* RETRIEVEOBJECT and RetrieveCampaignObject; CMySQL has a result of its own.
RetrieveObject ==
  /\ engine \in ObjectSqlEngines
  /\ \/ engine = "SQLITE" /\ SqliteReadScorcoData /\ UNCHANGED statement
     \/ engine = "PGSQL" /\ PgsqlScorco
     \/ engine = "MYSQL" /\ UNCHANGED <<resultVars, statement>>
  /\ answer' = Answer("object", "retrieved")
  /\ UNCHANGED <<engine, connected, lastBindParamCount, texts, runs>>

\* The PostgreSQL server goes away; nothing connects again.
ConnectionLost ==
  /\ engine = "PGSQL" /\ connected
  /\ connected' = FALSE
  /\ UNCHANGED <<engine, resultVars, statementVars, texts, runs, answer>>

DbNext ==
  \/ Execute \/ Fetch \/ Refused
  \/ Prepare \/ ExecutePrepared \/ FetchPrepared
  \/ StoreObject \/ RetrieveObject
  \/ ConnectionLost

DbSpec == DbInit /\ [][DbNext]_dbVars
-------------------------------------------------------------------------------
DbTypeOK ==
  /\ engine \in Engines
  /\ connected \in BOOLEAN
  /\ \A s \in DOMAIN result : \A i \in DOMAIN result[s] : result[s][i] \in Row
  /\ position \in Nat
  /\ result # Null => position <= Len(CurrentSet)
  /\ firstRowRead \in BOOLEAN
  /\ statement.query \in 0..texts
  /\ lastBindParamCount \in -1..MaxParams
  /\ texts \in 0..MaxTexts
  /\ runs \in 0..MaxRuns

\* The number of parameters P_EXECUTE is compared with is that of the statement
\* the back end would run, whatever was prepared, executed or failed in between
\* (NWNXdb.cpp keeps the one, the back ends keep the other).
PreparedCountAgrees ==
  statement # NoStatement /\ lastBindParamCount # -1 => statement.params = lastBindParamCount

\* What is due to each kind of fetch.
DueOf(sets, taken) ==
  IF sets = Null THEN <<>>
  ELSE LET rest == SubSeq(Head(sets), taken + 1, Len(Head(sets)))
       IN IF rest = <<>> /\ Len(sets) = 1 THEN <<>> ELSE <<rest>> \o Tail(sets)

\* On SQLite the row stepped to by EXECUTE is due until it is fetched.
taken == IF engine = "SQLITE" /\ result # Null /\ firstRowRead THEN position - 1 ELSE position

simpleDue == DueOf(result, taken)

preparedDue ==
  CASE engine = "PGSQL"  -> simpleDue
    [] engine = "MYSQL"  -> DueOf(statement.sets, statement.position)
    [] engine = "SQLITE" -> <<>>

due == [c \in {"simple", "prepared"} |-> IF c = "simple" THEN simpleDue ELSE preparedDue]

Contract == INSTANCE ResultRows WITH
  prepared  <- IF lastBindParamCount = -1 THEN 0 ELSE statement.query,
  supported <- IF engine = "SQLITE" THEN {"simple"} ELSE {"simple", "prepared"}

\* Whatever the database, fetches get the rows of the query run last, each once
\* and in order, set after set, and then none: through failures and the sets they
\* leave pending, refused requests, other queries of the other kind, and objects
\* stored and retrieved (but on SQLite: see MainLoopUnbroken).  On MySQL sets that
\* are pending may go to the other kind of fetch: see ResultRows.
ImplementsResultRows == Contract!RowsSpec

\* RCO in a loop of fetches does not break it (CHANGES:35-45, version 0.3): the rows
\* still due when an object is retrieved after one was fetched stay due.
MainLoopUnbroken ==
  [][RetrieveObject /\ answer.is = "row" /\ due["simple"] # <<>> => UNCHANGED due]_dbVars
-------------------------------------------------------------------------------
(* Why rows are not given twice or passed over: what each back end keeps of  *)
(* its cursor, on the way to PreparedCountAgrees and ImplementsResultRows.   *)
CursorInv ==
  /\ result \in Seq(Seq(Row))
  /\ position \in Nat
  /\ result # Null => position <= Len(CurrentSet)
  /\ engine # "MYSQL" => Len(result) <= 1
  /\ engine = "SQLITE" /\ result # Null => position >= 1
  /\ engine = "PGSQL" /\ result = Null => position = 0

StatementInv ==
  /\ statement \in [query : Nat, params : Nat, sets : Seq(Seq(Row)), position : Nat]
  /\ statement.sets # Null => statement.position <= Len(Head(statement.sets))
  /\ statement # NoStatement => statement.query # 0
  /\ engine = "SQLITE" => statement = NoStatement
  /\ lastBindParamCount \in Int
  /\ PreparedCountAgrees

DbInv ==
  /\ engine \in {"SQLITE", "PGSQL", "MYSQL"}
  /\ texts \in Nat
  /\ runs \in Nat
  /\ CursorInv
  /\ StatementInv
===============================================================================
