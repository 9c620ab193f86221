------------------------------ MODULE NetOverride ------------------------------
(***************************************************************************)
(* The recvfrom of netoverride.so (override/netoverride/netoverride.c),    *)
(* which stands in for that of libc: it binds the address of a client that *)
(* logs in to the client's CD key, and turns the login of another key from *)
(* there into a rejection, until the client says that it leaves.           *)
(*                                                                         *)
(* The server sees what recvfrom returns.  Left out: gethostbyname, which  *)
(* answers for two hosts with fixed addresses.                             *)
(***************************************************************************)
EXTENDS Naturals, Sequences, FiniteSets

CONSTANTS
  Address,  \* addresses and ports of clients
  CdKey     \* CD keys

VARIABLES
  players,   \* the list: which address is bound to which id, the newest first
  received,  \* what the server got last
  admitted   \* history: address -> the key of the last login the server got from
             \* there, until it got a BNDM

overrideVars == <<players, received, admitted>>

NoKey == "none"

ASSUME NetOverrideAssumption == NoKey \notin CdKey

OverrideInit ==
  /\ players = <<>>
  /\ received = "nothing"
  /\ admitted = [a \in Address |-> NoKey]

At(addr) == {i \in 1..Len(players) : players[i].addr = addr}

\* Every entry of the address is taken out of the list and freed; the rest keeps
\* its order.
no_clear_client(addr) ==
  LET rest == (1..Len(players)) \ At(addr)
      n    == Cardinality(rest)
  IN  \E was \in [1..n -> rest] :
        /\ \A i, j \in 1..n : i < j => was[i] < was[j]
        /\ players' = [i \in 1..n |-> players[was[i]]]

\* Mutant of Matches: an entry of the address will do.
MatchesAny(i, id) == TRUE

\* The first entry of the address has the same id.
Matches(i, id) == players[i].id = id

\* Answers whether the id may log in from the address.
no_match_client(id, addr, ok) ==
  \/ /\ At(addr) # {}
     /\ LET first == CHOOSE i \in At(addr) : \A j \in At(addr) : i <= j
        IN  ok <=> Matches(first, id)
     /\ UNCHANGED players
  \/ /\ At(addr) = {}
     /\ ok
     /\ players' = <<[id |-> id, addr |-> addr]>> \o players

\* A login: its name and key are there and its version is 20 at least.
Login(addr, id) ==
  \E ok \in BOOLEAN :
    /\ no_match_client(id, addr, ok)
    /\ received' = IF ok THEN "BNCS" ELSE "BNLM"
    /\ admitted' = IF ok THEN [admitted EXCEPT ![addr] = id] ELSE admitted

\* A login without, or of an older version: the list is not looked at.
InvalidLogin ==
  /\ received' = "BNLM"
  /\ UNCHANGED <<players, admitted>>

\* A BNDM of four bytes.
Leave(addr) ==
  /\ no_clear_client(addr)
  /\ received' = "BNDM"
  /\ admitted' = [admitted EXCEPT ![addr] = NoKey]

\* Anything else is returned as it is.
Other ==
  /\ received' = "other"
  /\ UNCHANGED <<players, admitted>>

OverrideNext ==
  \/ \E addr \in Address : Leave(addr) \/ \E id \in CdKey : Login(addr, id)
  \/ InvalidLogin \/ Other

OverrideSpec == OverrideInit /\ [][OverrideNext]_overrideVars
-------------------------------------------------------------------------------
OverrideTypeOK ==
  /\ players \in Seq([id : CdKey, addr : Address])
  /\ received \in {"nothing", "BNCS", "BNLM", "BNDM", "other"}
  /\ admitted \in [Address -> CdKey \cup {NoKey}]

\* The list has an address once, with the key of the client that the server
\* admitted from there and that has not left: so that nobody takes its place,
\* and when it leaves anybody may.
BindingsAreAdmissions ==
  /\ \A i \in 1..Len(players) : admitted[players[i].addr] = players[i].id
  /\ Len(players) = Cardinality({a \in Address : admitted[a] # NoKey})
===============================================================================
