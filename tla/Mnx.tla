---------------------------------- MODULE Mnx ----------------------------------
(***************************************************************************)
(* The MNX plugin (mnx/NWNXmnx.cpp): scripts send requests to servers over *)
(* UDP and wait, with the whole game, up to a second for an answer.        *)
(* Nothing in a datagram says which request it answers.                    *)
(*                                                                         *)
(* The network loses, delays, reorders and duplicates datagrams; a server  *)
(* answers each request it gets (mnx.pl).  Requests and sockets are known  *)
(* by the order in which they were made; the port of a closed socket is    *)
(* taken not to be given to another one while answers are on their way.    *)
(* Left out: the branch for a connection without a socket, which is never  *)
(* registered.                                                             *)
(***************************************************************************)
EXTENDS Naturals, Sequences, FiniteSets

CONSTANTS
  Connection,  \* names of connections
  MaxSockets,  \* bound: sockets opened
  MaxSent,     \* bound: requests sent
  MaxWaiting   \* bound: datagrams waiting on a socket

ASSUME MnxAssumption == {MaxSockets, MaxSent, MaxWaiting} \subseteq Nat

VARIABLES
  Connections,  \* name -> its socket, or NoSocket when it is not registered
  openings,     \* history: number of OPENs, each of which makes a socket
  openedBy,     \* history: name -> the number of its last OPEN
  waitingOn,    \* socket -> the answers that arrived on it, by request
  network,      \* the datagrams on their way
  sent,         \* requests sent
  sentOn,       \* request -> the socket it was sent from
  sentIn,       \* history: request -> the number of the OPEN before it
  waitingFor,   \* the request OnRequest waits for, or NoRequest
  limited,      \* whether the wait ends after a second
  unanswered,   \* history: requests whose SEND ended without an answer
  misled,       \* history: requests whose SEND was given the answer to another one
  copied,       \* history: requests of which the network made a copy, or of whose answer
  answerGiven   \* what the last SEND came to

mnxVars == <<Connections, openings, openedBy, waitingOn, network, sent, sentOn, sentIn,
          waitingFor, limited, unanswered, misled, copied, answerGiven>>
open == <<Connections, openings, openedBy>>
sendings == <<sent, sentOn, sentIn>>
wire == <<waitingOn, network, copied>>
failures == <<unanswered, misled>>

NoSocket  == 0
NoRequest == 0
Socket    == 1..MaxSockets
Request   == 1..MaxSent

Outcome(r, is, of) == [request |-> r, is |-> is, of |-> of]

Datagram(r, kind) == [request |-> r, kind |-> kind]

MnxInit ==
  /\ Connections = [n \in Connection |-> NoSocket]
  /\ openings = 0
  /\ openedBy = [n \in Connection |-> 0]
  /\ waitingOn = [s \in Socket |-> <<>>]
  /\ network = {}
  /\ sent = 0
  /\ sentOn = [r \in Request |-> NoSocket]
  /\ sentIn = [r \in Request |-> 0]
  /\ waitingFor = NoRequest
  /\ limited = TRUE
  /\ unanswered = {}
  /\ misled = {}
  /\ copied = {}
  /\ answerGiven = Outcome(NoRequest, "none", NoRequest)

Idle == waitingFor = NoRequest

\* Mutant of NewSocket: connections share a socket.
SharedSocket == 1

NewSocket == openings + 1

\* OPEN, and Configure at the start.  When the name is taken, or there is no such
\* host or no socket, nothing is registered and nobody is told.
ClientInit(n) ==
  /\ Idle
  /\ Connections[n] = NoSocket
  /\ openings < MaxSockets
  /\ Connections' = [Connections EXCEPT ![n] = NewSocket]
  /\ openings' = openings + 1
  /\ openedBy' = [openedBy EXCEPT ![n] = openings']
  /\ UNCHANGED <<wire, sendings, waitingFor, limited, failures, answerGiven>>

\* CLOSE.  What waits on the socket is gone.
ClientClose(n) ==
  /\ Idle
  /\ Connections[n] # NoSocket
  /\ Connections' = [Connections EXCEPT ![n] = NoSocket]
  /\ waitingOn' = [waitingOn EXCEPT ![Connections[n]] = <<>>]
  /\ UNCHANGED <<openings, openedBy, network, sendings, waitingFor, limited, failures, copied,
                 answerGiven>>

\* SEND, up to the wait.
SendMsg(n) ==
  /\ Idle
  /\ \/ /\ Connections[n] = NoSocket
        /\ answerGiven' = Outcome(NoRequest, "not registered", NoRequest)
        /\ UNCHANGED <<network, sendings, waitingFor, limited>>
     \/ /\ Connections[n] # NoSocket
        /\ answerGiven' = Outcome(NoRequest, "send errored", NoRequest)
        /\ UNCHANGED <<network, sendings, waitingFor, limited>>
     \/ /\ Connections[n] # NoSocket
        /\ sent < MaxSent
        /\ sent' = sent + 1
        /\ sentOn' = [sentOn EXCEPT ![sent'] = Connections[n]]
        /\ sentIn' = [sentIn EXCEPT ![sent'] = openedBy[n]]
        /\ network' = network \cup {Datagram(sent', "request")}
        /\ waitingFor' = sent'
        /\ limited' = TRUE
        /\ answerGiven' = Outcome(sent', "none", NoRequest)
  /\ UNCHANGED <<open, waitingOn, failures, copied>>
-------------------------------------------------------------------------------
(* The network and the servers.                                              *)

NetworkLeaves == UNCHANGED <<open, sendings, waitingFor, limited, failures, answerGiven>>

ServerAnswers(d) ==
  /\ d.kind = "request"
  /\ network' = (network \ {d}) \cup {Datagram(d.request, "answer")}
  /\ UNCHANGED <<waitingOn, copied>>
  /\ NetworkLeaves

IsOpen(s) == \E n \in Connection : Connections[n] = s

\* Of an answer that arrives a copy may still be on its way.
Arrives(d) ==
  /\ d.kind = "answer"
  /\ LET s == sentOn[d.request]
     IN \/ /\ IsOpen(s)
           /\ Len(waitingOn[s]) < MaxWaiting
           /\ waitingOn' = [waitingOn EXCEPT ![s] = Append(@, d.request)]
           /\ \/ network' = network \ {d} /\ UNCHANGED copied
              \/ UNCHANGED network /\ copied' = copied \cup {d.request}
        \/ ~IsOpen(s) /\ network' = network \ {d} /\ UNCHANGED <<waitingOn, copied>>
  /\ NetworkLeaves

Lost(d) ==
  /\ network' = network \ {d}
  /\ UNCHANGED <<waitingOn, copied>>
  /\ NetworkLeaves
-------------------------------------------------------------------------------
(* The rest of SEND.                                                         *)

Here == waitingOn[sentOn[waitingFor]]

\* select says that there is an answer, or was interrupted and there is one by
\* now: recvfrom takes the first one that waits on the socket.
Receive ==
  /\ waitingFor # NoRequest
  /\ Here # <<>>
  /\ answerGiven' = Outcome(waitingFor, "answer", Head(Here))
  /\ waitingOn' = [waitingOn EXCEPT ![sentOn[waitingFor]] = Tail(@)]
  /\ waitingFor' = NoRequest
  /\ misled' = IF Head(Here) = waitingFor THEN misled ELSE misled \cup {waitingFor}
  /\ UNCHANGED <<open, network, sendings, limited, unanswered, copied>>

\* recvfrom is interrupted while it waits.
ReceiveErrored ==
  /\ waitingFor # NoRequest
  /\ ~limited
  /\ Here = <<>>
  /\ answerGiven' = Outcome(waitingFor, "recv errored", NoRequest)
  /\ waitingFor' = NoRequest
  /\ unanswered' = unanswered \cup {waitingFor}
  /\ UNCHANGED <<open, wire, sendings, limited, misled>>

\* A signal interrupts select, which answers -1, as if there were an answer:
\* recvfrom waits for one, for however long.
Interrupted ==
  /\ waitingFor # NoRequest
  /\ limited
  /\ limited' = FALSE
  /\ UNCHANGED <<open, wire, sendings, waitingFor, failures, answerGiven>>

\* The script is left with the request in place of an answer.
TimedOut ==
  /\ waitingFor # NoRequest
  /\ limited
  /\ Here = <<>>
  /\ answerGiven' = Outcome(waitingFor, "timed-out", NoRequest)
  /\ waitingFor' = NoRequest
  /\ unanswered' = unanswered \cup {waitingFor}
  /\ UNCHANGED <<open, wire, sendings, limited, misled>>

MnxNext ==
  \/ \E n \in Connection : ClientInit(n) \/ ClientClose(n) \/ SendMsg(n)
  \/ \E d \in network : ServerAnswers(d) \/ Arrives(d) \/ Lost(d)
  \/ Receive \/ ReceiveErrored \/ Interrupted \/ TimedOut

MnxSpec == MnxInit /\ [][MnxNext]_mnxVars
-------------------------------------------------------------------------------
MnxTypeOK ==
  /\ Connections \in [Connection -> Socket \cup {NoSocket}]
  /\ openings \in 0..MaxSockets
  /\ openedBy \in [Connection -> 0..openings]
  /\ waitingOn \in [Socket -> Seq(Request)]
  /\ network \subseteq [request : Request, kind : {"request", "answer"}]
  /\ sent \in 0..MaxSent
  /\ sentOn \in [Request -> Socket \cup {NoSocket}]
  /\ sentIn \in [Request -> 0..openings]
  /\ waitingFor \in {NoRequest} \cup 1..sent
  /\ limited \in BOOLEAN
  /\ unanswered \subseteq 1..sent
  /\ misled \subseteq 1..sent
  /\ copied \subseteq 1..sent
  /\ answerGiven \in [request : 0..sent,
                      is : {"none", "not registered", "send errored", "answer",
                            "recv errored", "timed-out"},
                      of : 0..sent]

\* The answer to request r may come when nobody waits for it any more: its SEND
\* ended without it, with a time-out, an error or the answer to another request, or
\* the network made a copy of it.  And one request of the same opening, r or an
\* earlier one, did time out, fail or have copies: nobody is given the answer to
\* another request before.
MayComeLate(r) ==
  /\ r \in unanswered \cup copied \cup misled
  /\ \E q \in 1..r : q \in unanswered \cup copied /\ sentIn[q] = sentIn[r]

\* The answer a script gets is to its own request.  If it is not, it is to an
\* earlier one of the same opening of the connection, whose own SEND was left
\* without it or of which the network made copies: closing a connection and opening
\* it again gets rid of what is late, and nothing else does.  One time-out is enough
\* to have each later SEND of the opening be given the answer to the one before.
AnswersOfThisOpening ==
  answerGiven.is = "answer" /\ answerGiven.of # answerGiven.request =>
    /\ answerGiven.of < answerGiven.request
    /\ sentIn[answerGiven.of] = sentIn[answerGiven.request]
    /\ MayComeLate(answerGiven.of)
===============================================================================
