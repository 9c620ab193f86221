------------------------------- MODULE Vaultster -------------------------------
(***************************************************************************)
(* The vaultster plugin: it sends a player's character to the vault of     *)
(* another server.  Scripts ask with SEND, get the number of a slot, and   *)
(* ask that slot with STATUS for the outcome.  Each transfer is a client   *)
(* (client.cpp) with a thread of its own; vaultster-serv answers it with a *)
(* session.  The two are separate programs that have only the order of     *)
(* their states in common: every word on the connection means what the     *)
(* reader's state says it means.                                           *)
(*                                                                         *)
(* The state of a client or session is its state_: the operation (a read   *)
(* or a write) that is under way, whose completion handle_state takes up.  *)
(* A write that was started is on the connection.  All transfers here are  *)
(* of one character, the worst case for the file they end in.              *)
(***************************************************************************)
EXTENDS Integers, Sequences

CONSTANTS
  MaxClients,    \* the numbers of slots that are configured
  ShortWrites,   \* whether write() may leave a file shorter than it was told
  ChunkLength,   \* max_length, in the unit the files are measured in
  MaxTransfer,   \* bound: transfers
  MaxSize,       \* bound: length of a compressed file
  MaxEndpoints,  \* bound: addresses a name resolves to
  MaxFaults      \* bound: time-outs, cuts, refusals, disk errors and crashes

ASSUME VaultsterAssumption ==
  /\ MaxClients \subseteq Nat \ {0}
  /\ ShortWrites \in BOOLEAN
  /\ {ChunkLength, MaxTransfer, MaxSize, MaxEndpoints} \subseteq Nat \ {0}
  /\ MaxFaults \in Nat

VARIABLES
  numclients,
  status,        \* of each slot: constants.h
  owner,         \* the transfer each slot was last given to, 0 if none
  lastclient,
  asked,         \* a STATUS request between reading the status and answering
  client,        \* of each transfer
  session,       \* of each transfer
  net,           \* the connection of each transfer
  toServer, toClient,   \* what is under way on it
  serverUp,
  vault,         \* the character's file
  nextTransfer,
  writers,       \* history: transfers that opened the file, in order
  told,          \* history: the outcome a script was told
  faulty,        \* history: what went wrong with each transfer
  faults         \* history: how often

slots   == <<numclients, status, owner, lastclient, asked, told, nextTransfer>>
disk    == <<vault, writers>>
vars    == <<slots, client, session, net, toServer, toClient, serverUp, disk, faulty, faults>>

Transfer == 1..MaxTransfer
Slot     == 0..(numclients - 1)
BUSY  == 0
READY == 1
OK    == 2
ERROR == 3
ACK   == 0
NACK  == 1

\* What is sent.  Of a name, only its length and that it is there matter.
Item(what, at) == [what |-> what, at |-> at]

\* state_ of client.cpp: what handle_state sends when it is in that state...
ClientSends ==
  [RECV_ACK_CMD |-> "password", RECV_ACK_PWD |-> "idlength", SEND_ENC_PIDLEN |-> "id",
   SEND_ENC_PID |-> "namelength", SEND_ENC_BICNAMELEN |-> "name",
   RECV_REDUNDANT_ACK_CMD |-> "size", SEND_FILESIZE |-> "cmpsize"]

\* ... and the state that follows.
ClientNext ==
  [SEND_CMD |-> "RECV_ACK_CMD", RECV_ACK_CMD |-> "SEND_ENC_PWD",
   SEND_ENC_PWD |-> "RECV_ACK_PWD", RECV_ACK_PWD |-> "SEND_ENC_PIDLEN",
   SEND_ENC_PIDLEN |-> "SEND_ENC_PID", SEND_ENC_PID |-> "SEND_ENC_BICNAMELEN",
   SEND_ENC_BICNAMELEN |-> "SEND_ENC_BICNAME",
   SEND_ENC_BICNAME |-> "RECV_REDUNDANT_ACK_CMD",
   RECV_REDUNDANT_ACK_CMD |-> "SEND_FILESIZE", SEND_FILESIZE |-> "CHUNK",
   LAST_CHUNK |-> "FILE_STATUS"]

\* Mutant of AckStates: the third acknowledgement is not waited for.
FirstAckStates == {"RECV_ACK_CMD", "RECV_ACK_PWD"}

AckStates   == {"RECV_ACK_CMD", "RECV_ACK_PWD", "RECV_REDUNDANT_ACK_CMD"}
ClientReads == AckStates \cup {"FILE_STATUS"}
Connected   == DOMAIN ClientNext \cup {"CHUNK", "FILE_STATUS"}

\* The same for session: all but the last of its states.
SessionNext ==
  [RECV_CMD |-> "SEND_ACK_CMD", SEND_ACK_CMD |-> "RECV_ENC_PWD",
   RECV_ENC_PWD |-> "SEND_ACK_PWD", SEND_ACK_PWD |-> "RECV_ENC_PIDLEN",
   RECV_ENC_PIDLEN |-> "RECV_ENC_PID", RECV_ENC_PID |-> "RECV_ENC_BICNAMELEN",
   RECV_ENC_BICNAMELEN |-> "RECV_ENC_BICNAME",
   RECV_ENC_BICNAME |-> "SEND_REDUNDANT_ACK_CMD",
   SEND_REDUNDANT_ACK_CMD |-> "RECV_FILESIZE", RECV_FILESIZE |-> "RECV_CMPFSIZE",
   RECV_CMPFSIZE |-> "CHUNK"]

JudgeStates  == {"RECV_CMD", "RECV_ENC_PWD", "RECV_ENC_BICNAME"}
SessionReads == DOMAIN SessionNext \ {"SEND_ACK_CMD", "SEND_ACK_PWD", "SEND_REDUNDANT_ACK_CMD"}

NotAsked  == [slot |-> 0 - 1, seen |-> BUSY]
NoClient  == [state |-> "none", pos |-> 0, size |-> 0, endpoints |-> 0]
Deleted   == [NoClient EXCEPT !.state = "deleted"]
NoSession == [state |-> "none", cmpsize |-> 0]
SessionDeleted == [NoSession EXCEPT !.state = "deleted"]
Torn      == 0 - 1   \* in vault: neither the old file nor a new one
-------------------------------------------------------------------------------
Init ==
  /\ numclients \in MaxClients
  /\ status = [s \in Slot |-> READY]
  /\ owner = [s \in Slot |-> 0]
  /\ lastclient = 0
  /\ asked = NotAsked
  /\ client = [t \in Transfer |-> NoClient]
  /\ session = [t \in Transfer |-> NoSession]
  /\ net = [t \in Transfer |-> "none"]
  /\ toServer = [t \in Transfer |-> <<>>]
  /\ toClient = [t \in Transfer |-> <<>>]
  /\ serverUp = TRUE
  /\ vault = [file |-> 0, synced |-> TRUE]
  /\ nextTransfer = 1
  /\ writers = <<>>
  /\ told = [t \in Transfer |-> BUSY]
  /\ faulty = [t \in Transfer |-> "no"]
  /\ faults = 0

\* Something goes wrong with the transfers in T: they are "refused" (the client
\* will hear of it), or "broken".  The first time for each, the bound must allow it.
Fault(T, how) ==
  /\ IF \E t \in T : faulty[t] = "no"
     THEN faults < MaxFaults /\ faults' = faults + 1
     ELSE UNCHANGED faults
  /\ faulty' = [t \in Transfer |-> IF t \in T /\ faulty[t] # "broken" THEN how ELSE faulty[t]]

NoFault == UNCHANGED <<faulty, faults>>
-------------------------------------------------------------------------------
(* The game's thread: OnRequest.                                             *)

\* Mutant of SlotAfter: the number of slots is forgotten.
SlotAfterAny(s) == s + 1

SlotAfter(s) == (s + 1) % numclients

\* The search for a slot starts at lastclient_.
Picked(s) ==
  LET distance(x) == (x - lastclient) % numclients
  IN  /\ status[s] = READY
      /\ \A x \in Slot : status[x] = READY => distance(s) <= distance(x)

\* SEND.  When prepfile finds no file, the script gets -3; when there is no slot
\* it gets -2 and nothing happens.
Send(s, size) ==
  /\ asked = NotAsked
  /\ nextTransfer <= MaxTransfer
  /\ Picked(s)
  /\ status' = [status EXCEPT ![s] = BUSY]
  /\ owner' = [owner EXCEPT ![s] = nextTransfer]
  /\ nextTransfer' = nextTransfer + 1
  /\ \/ /\ Fault({nextTransfer}, "broken")                                 \* prepfile failed
        /\ client' = [client EXCEPT ![nextTransfer] = Deleted]
        /\ UNCHANGED lastclient
     \/ /\ NoFault
        /\ client' = [client EXCEPT ![nextTransfer] =
                        [state |-> "RESOLVE", pos |-> 0, size |-> size, endpoints |-> 0]]
        /\ lastclient' = SlotAfter(s)
  /\ UNCHANGED <<numclients, asked, told, session, net, toServer, toClient, serverUp, disk>>

\* STATUS reads the status once, and the transfer's thread may go on before it
\* is set to STATUS_READY.
ReadStatus(s) ==
  /\ asked = NotAsked
  /\ owner[s] # 0
  /\ asked' = [slot |-> s, seen |-> status[s]]
  /\ UNCHANGED <<numclients, status, owner, lastclient, told, nextTransfer, client, session,
                 net, toServer, toClient, serverUp, disk, faulty, faults>>


\* Mutant of OutcomeSeen: the status is read once more.
OutcomeByNow == status[asked.slot] \in {OK, ERROR}

OutcomeSeen == asked.seen \in {OK, ERROR}

AnswerStatus ==
  /\ asked # NotAsked
  /\ asked' = NotAsked
  /\ IF OutcomeSeen
     THEN /\ status' = [status EXCEPT ![asked.slot] = READY]
          /\ told' = [told EXCEPT ![owner[asked.slot]] = asked.seen]
     ELSE UNCHANGED <<status, told>>
  /\ UNCHANGED <<numclients, owner, lastclient, nextTransfer, client, session, net, toServer,
                 toClient, serverUp, disk, faulty, faults>>
-------------------------------------------------------------------------------
(* The transfer's thread: client.cpp.                                        *)

HasSession(t) == session[t].state \notin {"none", "deleted"}
HasClient(t)  == client[t].state \notin {"none", "deleted"}

\* Nothing is read from a connection that is cut, and all that was sent
\* from one that was closed.
ClientReady(t) ==
  /\ client[t].state \in Connected
  /\ client[t].state \in ClientReads => net[t] # "cut" /\ toClient[t] # <<>>

\* The server is one thread for all sessions, and a session in the middle of
\* writing the file keeps it.
Storing(t) == session[t].state \in {"OPENED", "WRITTEN"}
ThreadFree == serverUp /\ \A t \in Transfer : ~Storing(t)

OperationOver(t) ==
  LET s == session[t].state IN
  /\ HasSession(t) /\ ~Storing(t)
  /\ s \in SessionReads => net[t] # "cut" /\ toServer[t] # <<>>
  /\ s = "CHUNK" => net[t] # "cut" /\ Len(toServer[t]) >= session[t].cmpsize
SessionReady(t) == ThreadFree /\ OperationOver(t)

\* A timer that expires is a fault as long as client or session could go on.
\* When both wait for each other it is none, but the way out.
TimeOut(t) ==
  IF net[t] \in {"up", "closed"} /\ (ClientReady(t) \/ OperationOver(t) \/ Storing(t))
  THEN Fault({t}, "broken")
  ELSE NoFault

\* What is sent on a connection that is up, to somebody who is still there.
ClientWrites(t, items) ==
  toServer' = IF net[t] = "up" THEN [toServer EXCEPT ![t] = @ \o items] ELSE toServer

\* The socket is closed, in order or (how = "reset") in the middle; when the
\* connection is cut, the other side does not hear of it.
Close(t, how) == [net EXCEPT ![t] = IF @ = "cut" THEN @ ELSE how]

\* delete this.  What a session has of the file stays part of one of this size.
ClientEnds(t, how) ==
  /\ client' = [client EXCEPT ![t] = IF HasSession(t) THEN [Deleted EXCEPT !.size = client[t].size]
                                                      ELSE Deleted]
  /\ net' = Close(t, how)
  /\ toClient' = [toClient EXCEPT ![t] = <<>>]

HandleResolve(t) ==
  /\ client[t].state = "RESOLVE"
  /\ \/ /\ Fault({t}, "broken")
        /\ client' = [client EXCEPT ![t] = Deleted]
     \/ /\ NoFault
        /\ \E n \in 1..MaxEndpoints :
             client' = [client EXCEPT ![t] = [@ EXCEPT !.state = "CONNECT", !.endpoints = n]]
  /\ UNCHANGED <<slots, session, net, toServer, toClient, serverUp, disk>>

\* An address that does not answer makes it try the next one.
ConnectFails(t) ==
  /\ client[t].state = "CONNECT"
  /\ IF serverUp THEN Fault({t}, "broken")
     ELSE faulty' = [faulty EXCEPT ![t] = "broken"] /\ UNCHANGED faults
  /\ client' = [client EXCEPT ![t] = IF client[t].endpoints > 1
                                     THEN [client[t] EXCEPT !.endpoints = @ - 1]
                                     ELSE Deleted]
  /\ UNCHANGED <<slots, session, net, toServer, toClient, serverUp, disk>>

\* The server accepts and starts a session; the client sends its command.
Connect(t) ==
  /\ client[t].state = "CONNECT"
  /\ serverUp
  /\ client' = [client EXCEPT ![t].state = "SEND_CMD"]
  /\ session' = [session EXCEPT ![t].state = "RECV_CMD"]
  /\ net' = [net EXCEPT ![t] = "up"]
  /\ toServer' = [toServer EXCEPT ![t] = <<Item("command", 0)>>]
  /\ NoFault
  /\ UNCHANGED <<slots, toClient, serverUp, disk>>

\* Mutant of Stored: the word is taken for an acknowledgement.
Acknowledged(word) == word # NACK

Stored(word) == word # 0

Word(t)     == Head(toClient[t]).at
Refused(t)  == client[t].state \in AckStates /\ Word(t) = NACK

\* Mutant of Finish: the client deletes itself as it does when it fails.
FinishQuietly(t, outcome) ==
  /\ ClientEnds(t, "closed")
  /\ UNCHANGED <<slots, toServer>>

\* The outcome is stored in the slot and the client deletes itself.
Finish(t, outcome) ==
  /\ \E s \in Slot : owner[s] = t /\ status' = [status EXCEPT ![s] = outcome]
  /\ ClientEnds(t, "closed")
  /\ UNCHANGED <<numclients, owner, lastclient, asked, told, nextTransfer, toServer>>

\* The state is over, and what it leads to is started.
GoOn(t) ==
  LET s == client[t].state IN
  /\ s \in DOMAIN ClientNext
  /\ client' = [client EXCEPT ![t].state = ClientNext[s]]
  /\ toClient' = IF s \in ClientReads THEN [toClient EXCEPT ![t] = Tail(@)] ELSE toClient
  /\ IF s \in DOMAIN ClientSends
     THEN ClientWrites(t, <<Item(ClientSends[s],
                                 IF ClientSends[s] = "cmpsize" THEN client[t].size ELSE 0)>>)
     ELSE UNCHANGED toServer
  /\ UNCHANGED <<slots, net>>

\* Mutant of IsLastChunk: the last chunk is forgotten.
IsLastChunkButOne(pos, size) == pos + ChunkLength >= size

\* Whether nothing is left to send from pos on.
IsLastChunk(pos, size) == pos >= size

\* A chunk of the file is sent; after the last one the state is LAST_CHUNK.
SendChunk(t) ==
  LET from == client[t].pos
      len  == IF client[t].size - from > ChunkLength THEN ChunkLength ELSE client[t].size - from
  IN  /\ client[t].state = "CHUNK"
      /\ ClientWrites(t, [i \in 1..len |-> Item("byte", from + i)])
      /\ client' = [client EXCEPT ![t] =
                       [@ EXCEPT !.pos = from + ChunkLength,
                                 !.state = IF IsLastChunk(from + ChunkLength, client[t].size)
                                           THEN "LAST_CHUNK" ELSE "CHUNK"]]
      /\ UNCHANGED <<slots, net, toClient>>

ClientHandleState(t) ==
  /\ ClientReady(t)
  /\ CASE Refused(t)                       -> Finish(t, ERROR)
       [] client[t].state = "FILE_STATUS"  -> Finish(t, IF Stored(Word(t)) THEN OK ELSE ERROR)
       [] client[t].state = "CHUNK"        -> SendChunk(t)
       [] OTHER                            -> GoOn(t)
  /\ NoFault
  /\ UNCHANGED <<session, serverUp, disk>>

\* handle_state with an error: the session closed the connection.  What it had
\* sent before is read first.  Writing only fails when the session did not read
\* to the end.
ClientFails(t) ==
  /\ client[t].state \in Connected
  /\ \/ net[t] = "closed" /\ client[t].state \in ClientReads
     \/ net[t] = "reset"
  /\ client[t].state \in ClientReads => toClient[t] = <<>>
  /\ ClientEnds(t, "reset")
  /\ NoFault
  /\ UNCHANGED <<slots, session, toServer, serverUp, disk>>

\* Mutant of ClientTimer: only send starts the timer.
ClientTimerOfWrites(t) == client[t].state \in Connected \ ClientReads

\* send, sendbuf and recv start the timer; resolving and connecting do not.
ClientTimer(t) == client[t].state \in Connected

\* handle_timeout closes the socket and sets state_ to DONE, and then handle_state
\* deletes the client, whether its operation was aborted or had succeeded before.
\* What was sent may be lost.
ClientTimesOut(t) ==
  /\ ClientTimer(t)
  /\ TimeOut(t)
  /\ ClientEnds(t, "reset")
  /\ toServer' \in {toServer, [toServer EXCEPT ![t] = <<>>]}
  /\ UNCHANGED <<slots, session, serverUp, disk>>
-------------------------------------------------------------------------------
(* The server: one thread for all sessions.                                  *)

Reply(t, what, word) ==
  toClient' = IF net[t] = "up" THEN [toClient EXCEPT ![t] = Append(@, Item(what, word))]
                               ELSE toClient

SessionEnds(t, how) ==
  /\ session' = [session EXCEPT ![t] = SessionDeleted]
  /\ net' = Close(t, how)
  /\ toServer' = [toServer EXCEPT ![t] = <<>>]

\* Each state but the last two.  The command, the password and the names may be
\* refused, whatever was sent: the client's address, the configuration, a "/".
SessionStep(t) ==
  LET s == session[t].state IN
  /\ SessionReady(t)
  /\ s \in DOMAIN SessionNext
  /\ toServer' = IF s \in SessionReads THEN [toServer EXCEPT ![t] = Tail(@)] ELSE toServer
  /\ \/ /\ s \in JudgeStates
        /\ Fault({t}, "refused")
        /\ Reply(t, "ack", NACK)
        /\ session' = [session EXCEPT ![t].state = "DONE"]
     \/ /\ NoFault
        /\ IF s \in JudgeStates THEN Reply(t, "ack", ACK) ELSE UNCHANGED toClient
        /\ session' = [session EXCEPT ![t] =
                         [session[t] EXCEPT
                            !.state = SessionNext[s],
                            !.cmpsize = IF s = "RECV_CMPFSIZE" THEN Head(toServer[t]).at ELSE @]]
  /\ UNCHANGED <<slots, client, net, serverUp, disk>>

Answer(t, word) ==
  /\ session' = [session EXCEPT ![t].state = "DONE"]
  /\ Reply(t, "status", word)

\* uncompress() finds out whether the bytes are those of a whole file.
IsWhole(t) ==
  SubSeq(toServer[t], 1, session[t].cmpsize) = [i \in 1..client[t].size |-> Item("byte", i)]

\* The file is complete: it is unpacked, and the old one is opened and truncated.
BeginStore(t) ==
  /\ SessionReady(t)
  /\ session[t].state = "CHUNK"
  /\ toServer' = [toServer EXCEPT ![t] = SubSeq(@, session[t].cmpsize + 1, Len(@))]
  /\ \/ ~IsWhole(t) /\ Answer(t, 0) /\ NoFault /\ UNCHANGED disk
     \/ IsWhole(t) /\ Answer(t, 0) /\ Fault({t}, "refused") /\ UNCHANGED disk      \* prepvault, open
     \/ /\ IsWhole(t)
        /\ session' = [session EXCEPT ![t].state = "OPENED"]
        /\ vault' = [file |-> Torn, synced |-> FALSE]
        /\ writers' = Append(writers, t)
        /\ NoFault
        /\ UNCHANGED toClient
  /\ UNCHANGED <<slots, client, net, serverUp>>

WriteFile(t) ==
  /\ session[t].state = "OPENED"
  /\ \/ Answer(t, 0) /\ Fault({t}, "refused") /\ UNCHANGED vault
     \/ /\ session' = [session EXCEPT ![t].state = "WRITTEN"]
        /\ vault' = [vault EXCEPT !.file = t]
        /\ NoFault
        /\ UNCHANGED toClient
     \/ /\ ShortWrites
        /\ session' = [session EXCEPT ![t].state = "WRITTEN"]
        /\ Fault({t}, "refused")
        /\ UNCHANGED <<vault, toClient>>
  /\ UNCHANGED <<slots, client, net, toServer, serverUp, writers>>

\* fsync and close.
SyncFile(t) ==
  /\ session[t].state = "WRITTEN"
  /\ \/ Answer(t, 0) /\ Fault({t}, "refused") /\ UNCHANGED vault
     \/ Answer(t, 1) /\ NoFault /\ vault' = [vault EXCEPT !.synced = TRUE]
  /\ UNCHANGED <<slots, client, net, toServer, serverUp, writers>>

\* The last word has been sent.
SessionDone(t) ==
  /\ SessionReady(t)
  /\ session[t].state = "DONE"
  /\ SessionEnds(t, "closed")
  /\ NoFault
  /\ UNCHANGED <<slots, client, toClient, serverUp, disk>>

SessionFails(t) ==
  /\ ThreadFree
  /\ HasSession(t)
  /\ \/ net[t] = "closed" /\ ~SessionReady(t)
     \/ net[t] = "reset" /\ (SessionReady(t) => session[t].state \notin SessionReads \cup {"CHUNK"})
  /\ SessionEnds(t, "reset")
  /\ NoFault
  /\ UNCHANGED <<slots, client, toClient, serverUp, disk>>

SessionTimesOut(t) ==
  /\ ThreadFree
  /\ HasSession(t)
  /\ TimeOut(t)
  /\ SessionEnds(t, "reset")
  /\ toClient' \in {toClient, [toClient EXCEPT ![t] = <<>>]}
  /\ UNCHANGED <<slots, client, serverUp, disk>>
-------------------------------------------------------------------------------
(* What the programs can do nothing about.                                   *)

\* The network loses everything from now on, and tells nobody.
Cut(t) ==
  /\ net[t] = "up"
  /\ Fault({t}, "broken")
  /\ net' = [net EXCEPT ![t] = "cut"]
  /\ UNCHANGED <<slots, client, session, toServer, toClient, serverUp, disk>>

\* The server's machine stops; what was not flushed to the disk may be lost.
Crash ==
  /\ serverUp
  /\ Fault({t \in Transfer : HasSession(t) \/ (HasClient(t) /\ net[t] # "none")}, "broken")
  /\ serverUp' = FALSE
  /\ session' = [t \in Transfer |-> IF HasSession(t) THEN SessionDeleted ELSE session[t]]
  /\ net' = [t \in Transfer |-> IF net[t] \in {"none", "cut"} THEN net[t] ELSE "reset"]
  /\ toServer' = [t \in Transfer |-> <<>>]
  /\ toClient' = [t \in Transfer |-> <<>>]
  /\ \E f \in {vault.file, IF vault.synced THEN vault.file ELSE Torn} :
       vault' = [file |-> f, synced |-> TRUE]
  /\ UNCHANGED <<slots, client, writers>>

Restart ==
  /\ ~serverUp
  /\ serverUp' = TRUE
  /\ UNCHANGED <<slots, client, session, net, toServer, toClient, disk, faulty, faults>>
-------------------------------------------------------------------------------
ClientProgress(t) ==
  \/ HandleResolve(t) \/ Connect(t) \/ (~serverUp /\ ConnectFails(t))
  \/ ClientHandleState(t) \/ ClientFails(t)

SessionProgress(t) ==
  \/ SessionStep(t) \/ BeginStore(t) \/ WriteFile(t) \/ SyncFile(t)
  \/ SessionDone(t) \/ SessionFails(t)

Next ==
  \/ \E s \in Slot : ReadStatus(s) \/ \E size \in 1..MaxSize : Send(s, size)
  \/ AnswerStatus
  \/ \E t \in Transfer : \/ ClientProgress(t) \/ ConnectFails(t) \/ ClientTimesOut(t)
                         \/ SessionProgress(t) \/ SessionTimesOut(t) \/ Cut(t)
  \/ Crash \/ Restart

\* Both programs go on as long as they have something to do, the game's threads
\* do not starve each other, names are resolved and connections made or refused,
\* and a timer that nobody cancels expires.
Fairness ==
  \A t \in Transfer :
    /\ WF_vars(ClientProgress(t))
    /\ WF_vars(~ClientReady(t) /\ ClientTimesOut(t))
    /\ WF_vars(SessionProgress(t))
    /\ WF_vars(~SessionReady(t) /\ SessionTimesOut(t))

Spec == Init /\ [][Next]_vars /\ Fairness
-------------------------------------------------------------------------------
ClientType ==
  [state : {"none", "deleted", "RESOLVE", "CONNECT"} \cup Connected, pos : Nat,
   size : 0..MaxSize, endpoints : 0..MaxEndpoints]
SessionType ==
  [state : {"none", "deleted", "CHUNK", "OPENED", "WRITTEN", "DONE"} \cup DOMAIN SessionNext,
   cmpsize : 0..MaxSize]
SentType ==
  [what : {"command", "password", "idlength", "id", "namelength", "name", "size", "cmpsize", "byte"},
   at : 0..MaxSize]
ReplyType == [what : {"ack", "status"}, at : {0, 1}]

SlotsTyped ==
  /\ numclients \in MaxClients
  /\ status \in [Slot -> {BUSY, READY, OK, ERROR}]
  /\ owner \in [Slot -> 0..MaxTransfer]
  /\ lastclient \in Slot
  /\ asked \in {NotAsked} \cup [slot : Slot, seen : {BUSY, READY, OK, ERROR}]
  /\ told \in [Transfer -> {BUSY, OK, ERROR}]
  /\ nextTransfer \in 1..(MaxTransfer + 1)

EndsTyped ==
  /\ client \in [Transfer -> ClientType]
  /\ session \in [Transfer -> SessionType]
  /\ net \in [Transfer -> {"none", "up", "cut", "closed", "reset"}]
  /\ toServer \in [Transfer -> Seq(SentType)]
  /\ toClient \in [Transfer -> Seq(ReplyType)]

ServerTyped ==
  /\ serverUp \in BOOLEAN
  /\ vault \in [file : {Torn} \cup 0..MaxTransfer, synced : BOOLEAN]
  /\ writers \in Seq(Transfer)

FaultsTyped ==
  /\ faulty \in [Transfer -> {"no", "refused", "broken"}]
  /\ faults \in 0..MaxFaults

TypeOK == SlotsTyped /\ EndsTyped /\ ServerTyped /\ FaultsTyped

\* What each side's state says the next item is.
SessionExpects ==
  [RECV_CMD |-> "command", RECV_ENC_PWD |-> "password", RECV_ENC_PIDLEN |-> "idlength",
   RECV_ENC_PID |-> "id", RECV_ENC_BICNAMELEN |-> "namelength", RECV_ENC_BICNAME |-> "name",
   RECV_FILESIZE |-> "size", RECV_CMPFSIZE |-> "cmpsize", CHUNK |-> "byte"]

\* Client and session read every item as what the other sent it for, although
\* nothing on the connection says what it is.
Aligned ==
  \A t \in Transfer :
    /\ session[t].state \in DOMAIN SessionExpects /\ toServer[t] # <<>>
         => Head(toServer[t]).what = SessionExpects[session[t].state]
    /\ client[t].state \in ClientReads /\ toClient[t] # <<>>
         => Head(toClient[t]).what =
              IF client[t].state = "FILE_STATUS" THEN "status" ELSE "ack"

Outcome(t, o) == told[t] = o \/ \E s \in Slot : owner[s] = t /\ status[s] = o

\* A script that is told STATUS_OK finds the whole character in the other
\* server's vault, whatever that server does next, until another transfer
\* opens the file.
OkMeansStored ==
  \A t \in Transfer : Outcome(t, OK) =>
    \E i \in 1..Len(writers) :
      /\ writers[i] = t
      /\ i = Len(writers) => vault = [file |-> t, synced |-> TRUE]

\* A slot is only BUSY for ever (no client will set its status) when its transfer
\* was broken off or never began.
BusyUntilOutcome ==
  \A s \in Slot : status[s] = BUSY /\ ~HasClient(owner[s]) => faulty[owner[s]] = "broken"

\* A slot is given to another transfer only after a script was told the outcome
\* of the last one.
OutcomeTold ==
  \A s \in Slot : status[s] = READY /\ owner[s] # 0 => told[owner[s]] # BUSY

\* Every transfer ends on both sides, whatever happens to the connection.
TransfersEnd == \A t \in Transfer : []<>(~HasClient(t) /\ ~HasSession(t))

\* A transfer that nothing goes wrong with arrives.
GoodTransfersArrive ==
  \A t \in Transfer : nextTransfer > t ~> faulty[t] # "no" \/ Outcome(t, OK)
===============================================================================
