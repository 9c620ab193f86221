---------------------------- MODULE VaultsterProofs ----------------------------
(***************************************************************************)
(* Proofs about the vaultster plugin: what is in the slots, what is on a   *)
(* connection, that a file arrives whole, which slots stay BUSY, what a    *)
(* script that is told STATUS_OK can rely on, and that transfers go        *)
(* forward.                                                                *)
(***************************************************************************)
EXTENDS Vaultster, ListProofs, TLAPS

\* The states by name.
LEMMA TheStates ==
  /\ DOMAIN ClientNext =
       {"SEND_CMD", "RECV_ACK_CMD", "SEND_ENC_PWD", "RECV_ACK_PWD", "SEND_ENC_PIDLEN",
        "SEND_ENC_PID", "SEND_ENC_BICNAMELEN", "SEND_ENC_BICNAME", "RECV_REDUNDANT_ACK_CMD",
        "SEND_FILESIZE", "LAST_CHUNK"}
  /\ DOMAIN ClientSends =
       {"RECV_ACK_CMD", "RECV_ACK_PWD", "SEND_ENC_PIDLEN", "SEND_ENC_PID", "SEND_ENC_BICNAMELEN",
        "RECV_REDUNDANT_ACK_CMD", "SEND_FILESIZE"}
  /\ DOMAIN SessionNext =
       {"RECV_CMD", "SEND_ACK_CMD", "RECV_ENC_PWD", "SEND_ACK_PWD", "RECV_ENC_PIDLEN",
        "RECV_ENC_PID", "RECV_ENC_BICNAMELEN", "RECV_ENC_BICNAME", "SEND_REDUNDANT_ACK_CMD",
        "RECV_FILESIZE", "RECV_CMPFSIZE"}
BY DEF ClientNext, ClientSends, SessionNext

Kinds == {"command", "password", "idlength", "id", "namelength", "name", "size", "cmpsize", "byte"}

LEMMA NextStates ==
  /\ \A s \in DOMAIN ClientNext : ClientNext[s] \in Connected
  /\ \A s \in DOMAIN ClientSends : ClientSends[s] \in Kinds
  /\ \A s \in DOMAIN SessionNext : SessionNext[s] \in DOMAIN SessionNext \cup {"CHUNK"}
<1>1. \A s \in DOMAIN ClientNext : ClientNext[s] \in Connected
  BY TheStates DEF ClientNext, Connected
<1>2. \A s \in DOMAIN ClientSends : ClientSends[s] \in Kinds
  BY TheStates DEF ClientSends, Kinds
<1>3. \A s \in DOMAIN SessionNext : SessionNext[s] \in DOMAIN SessionNext \cup {"CHUNK"}
  BY TheStates DEF SessionNext
<1>4. QED
  BY <1>1, <1>2, <1>3

\* A step of one transfer leaves the ends of the others alone.
OnlyOf(t) ==
  \A r \in Transfer \ {t} :
    /\ client'[r] = client[r] /\ session'[r] = session[r] /\ net'[r] = net[r]
    /\ toServer'[r] = toServer[r] /\ toClient'[r] = toClient[r]

LEMMA Bounds ==
  /\ MaxSize \in Nat \ {0} /\ MaxEndpoints \in Nat \ {0} /\ ChunkLength \in Nat \ {0}
  /\ MaxTransfer \in Nat \ {0}
BY VaultsterAssumption

\* A client or session remains one when a field is changed.
LEMMA StateChanged ==
  ASSUME NEW c \in ClientType,
         NEW x \in {"none", "deleted", "RESOLVE", "CONNECT"} \cup Connected
  PROVE  [c EXCEPT !.state = x] \in ClientType
BY DEF ClientType

LEMMA SizeChanged ==
  ASSUME NEW c \in ClientType, NEW x \in 0..MaxSize PROVE [c EXCEPT !.size = x] \in ClientType
BY DEF ClientType

LEMMA EndpointsChanged ==
  ASSUME NEW c \in ClientType, NEW x \in 0..MaxEndpoints
  PROVE  [c EXCEPT !.endpoints = x] \in ClientType
BY DEF ClientType

LEMMA ConnectChanged ==
  ASSUME NEW c \in ClientType, NEW x \in 0..MaxEndpoints
  PROVE  [c EXCEPT !.state = "CONNECT", !.endpoints = x] \in ClientType
BY DEF ClientType

LEMMA PosChanged ==
  ASSUME NEW c \in ClientType, NEW x \in Nat, NEW s \in Connected
  PROVE  [c EXCEPT !.pos = x, !.state = s] \in ClientType
BY DEF ClientType

LEMMA CmpsizeChanged ==
  ASSUME NEW c \in SessionType, NEW x \in 0..MaxSize,
         NEW s \in {"none", "deleted", "CHUNK", "OPENED", "WRITTEN", "DONE"} \cup DOMAIN SessionNext
  PROVE  [c EXCEPT !.state = s, !.cmpsize = x] \in SessionType
BY DEF SessionType

LEMMA SessionStateChanged ==
  ASSUME NEW c \in SessionType,
         NEW x \in {"none", "deleted", "CHUNK", "OPENED", "WRITTEN", "DONE"} \cup DOMAIN SessionNext
  PROVE  [c EXCEPT !.state = x] \in SessionType
BY DEF SessionType

LEMMA DeletedIsClient == Deleted \in ClientType
BY Bounds DEF Deleted, NoClient, ClientType
-------------------------------------------------------------------------------
(* Types: the ends of the transfers.                                         *)

LEMMA ClientWritesTyped ==
  ASSUME EndsTyped, NEW t \in Transfer, NEW items \in Seq(SentType), ClientWrites(t, items)
  PROVE  /\ toServer' \in [Transfer -> Seq(SentType)]
         /\ \A r \in Transfer \ {t} : toServer'[r] = toServer[r]
         /\ toServer'[t] = IF net[t] = "up" THEN toServer[t] \o items ELSE toServer[t]
<1>1. toServer \in [Transfer -> Seq(SentType)]
  BY DEF EndsTyped
<1>2. toServer[t] \o items \in Seq(SentType)
  BY <1>1, ConcatProperties
<1>3. QED
  BY <1>1, <1>2 DEF ClientWrites

LEMMA ReplyTyped ==
  ASSUME EndsTyped, NEW t \in Transfer, NEW what \in {"ack", "status"}, NEW word \in {0, 1},
         Reply(t, what, word)
  PROVE  /\ toClient' \in [Transfer -> Seq(ReplyType)]
         /\ \A r \in Transfer \ {t} : toClient'[r] = toClient[r]
         /\ toClient'[t] = IF net[t] = "up" THEN Append(toClient[t], Item(what, word)) ELSE toClient[t]
<1>1. toClient \in [Transfer -> Seq(ReplyType)]
  BY DEF EndsTyped
<1>2. Item(what, word) \in ReplyType
  BY DEF Item, ReplyType
<1>3. Append(toClient[t], Item(what, word)) \in Seq(ReplyType)
  BY <1>1, <1>2, AppendProperties
<1>4. QED
  BY <1>1, <1>3 DEF Reply

LEMMA CloseTyped ==
  ASSUME EndsTyped, NEW t \in Transfer, NEW how \in {"closed", "reset"}, net' = Close(t, how)
  PROVE  /\ net' \in [Transfer -> {"none", "up", "cut", "closed", "reset"}]
         /\ \A r \in Transfer \ {t} : net'[r] = net[r]
         /\ net'[t] = IF net[t] = "cut" THEN "cut" ELSE how
BY DEF EndsTyped, Close

LEMMA ClientEndsTyped ==
  ASSUME EndsTyped, NEW t \in Transfer, NEW how \in {"closed", "reset"}, ClientEnds(t, how),
         session' = session,
         toServer' \in [Transfer -> Seq(SentType)],
         \A r \in Transfer \ {t} : toServer'[r] = toServer[r]
  PROVE  EndsTyped' /\ OnlyOf(t)
<1>1. Deleted \in ClientType /\ [Deleted EXCEPT !.size = client[t].size] \in ClientType
  <2>1. client[t].size \in 0..MaxSize
    BY DEF EndsTyped, ClientType
  <2>2. QED
    BY <2>1, DeletedIsClient, SizeChanged
<1>2. /\ client' \in [Transfer -> ClientType]
      /\ \A r \in Transfer \ {t} : client'[r] = client[r]
  BY <1>1 DEF ClientEnds, EndsTyped
<1>3. /\ net' \in [Transfer -> {"none", "up", "cut", "closed", "reset"}]
      /\ \A r \in Transfer \ {t} : net'[r] = net[r]
  BY CloseTyped DEF ClientEnds
<1>4. /\ toClient' \in [Transfer -> Seq(ReplyType)]
      /\ \A r \in Transfer \ {t} : toClient'[r] = toClient[r]
  <2>1. <<>> \in Seq(ReplyType)
    BY EmptySeq
  <2>2. QED
    BY <2>1 DEF ClientEnds, EndsTyped
<1>5. EndsTyped'
  BY <1>2, <1>3, <1>4 DEF EndsTyped
<1>6. QED
  BY <1>2, <1>3, <1>4, <1>5 DEF OnlyOf

LEMMA SessionEndsTyped ==
  ASSUME EndsTyped, NEW t \in Transfer, NEW how \in {"closed", "reset"}, SessionEnds(t, how),
         client' = client,
         toClient' \in [Transfer -> Seq(ReplyType)],
         \A r \in Transfer \ {t} : toClient'[r] = toClient[r]
  PROVE  EndsTyped' /\ OnlyOf(t)
<1>1. SessionDeleted \in SessionType
  BY VaultsterAssumption DEF SessionDeleted, NoSession, SessionType
<1>2. /\ session' \in [Transfer -> SessionType]
      /\ \A r \in Transfer \ {t} : session'[r] = session[r]
  BY <1>1 DEF SessionEnds, EndsTyped
<1>3. /\ net' \in [Transfer -> {"none", "up", "cut", "closed", "reset"}]
      /\ \A r \in Transfer \ {t} : net'[r] = net[r]
  BY CloseTyped DEF SessionEnds
<1>4. /\ toServer' \in [Transfer -> Seq(SentType)]
      /\ \A r \in Transfer \ {t} : toServer'[r] = toServer[r]
  <2>1. <<>> \in Seq(SentType)
    BY EmptySeq
  <2>2. QED
    BY <2>1 DEF SessionEnds, EndsTyped
<1>5. EndsTyped'
  BY <1>2, <1>3, <1>4 DEF EndsTyped
<1>6. QED
  BY <1>2, <1>3, <1>4, <1>5 DEF OnlyOf

LEMMA SendTyped ==
  ASSUME EndsTyped, nextTransfer \in Transfer, NEW s \in Slot, NEW size \in 1..MaxSize,
         Send(s, size)
  PROVE  EndsTyped' /\ OnlyOf(nextTransfer)
<1>1. /\ Deleted \in ClientType
      /\ [state |-> "RESOLVE", pos |-> 0, size |-> size, endpoints |-> 0] \in ClientType
  BY VaultsterAssumption DEF Deleted, NoClient, ClientType
<1>2. /\ client' \in [Transfer -> ClientType]
      /\ \A r \in Transfer \ {nextTransfer} : client'[r] = client[r]
  BY <1>1 DEF Send, EndsTyped
<1>3. UNCHANGED <<session, net, toServer, toClient>>
  BY DEF Send
<1>4. QED
  BY <1>2, <1>3 DEF EndsTyped, OnlyOf

LEMMA BeginningTyped ==
  ASSUME EndsTyped, NEW t \in Transfer, HandleResolve(t) \/ ConnectFails(t)
  PROVE  EndsTyped' /\ OnlyOf(t)
<1>1. client \in [Transfer -> ClientType] /\ client[t] \in ClientType
  BY DEF EndsTyped
<1>2. PICK c \in ClientType : client' = [client EXCEPT ![t] = c]
  <2>1. CASE HandleResolve(t) /\ client' # [client EXCEPT ![t] = Deleted]
    <3>1. PICK n \in 1..MaxEndpoints :
            client' = [client EXCEPT ![t] = [client[t] EXCEPT !.state = "CONNECT", !.endpoints = n]]
      BY <2>1 DEF HandleResolve
    <3>2. n \in 0..MaxEndpoints
      BY Bounds
    <3>3. [client[t] EXCEPT !.state = "CONNECT", !.endpoints = n] \in ClientType
      BY <1>1, <3>2, ConnectChanged
    <3>4. QED
      BY <3>1, <3>3
  <2>2. CASE ConnectFails(t) /\ client' # [client EXCEPT ![t] = Deleted]
    <3>1. client[t].endpoints > 1
      BY <2>2 DEF ConnectFails
    <3>2. client[t].endpoints - 1 \in 0..MaxEndpoints
      BY <1>1, <3>1, Bounds DEF ClientType
    <3>3. [client[t] EXCEPT !.endpoints = client[t].endpoints - 1] \in ClientType
      BY <1>1, <3>2, EndpointsChanged
    <3>4. client' = [client EXCEPT ![t] = [client[t] EXCEPT !.endpoints = client[t].endpoints - 1]]
      BY <1>1, <2>2, <3>1 DEF ConnectFails
    <3>5. QED
      BY <3>3, <3>4
  <2>3. QED
    BY <2>1, <2>2, DeletedIsClient
<1>5. /\ client' \in [Transfer -> ClientType]
      /\ \A r \in Transfer \ {t} : client'[r] = client[r]
  BY <1>1, <1>2
<1>6. UNCHANGED <<session, net, toServer, toClient>>
  BY DEF HandleResolve, ConnectFails
<1>7. QED
  BY <1>5, <1>6 DEF EndsTyped, OnlyOf

LEMMA ConnectTyped ==
  ASSUME EndsTyped, NEW t \in Transfer, Connect(t)
  PROVE  EndsTyped' /\ OnlyOf(t)
<1>1. /\ client' \in [Transfer -> ClientType]
      /\ \A r \in Transfer \ {t} : client'[r] = client[r]
  <2>1. [client[t] EXCEPT !.state = "SEND_CMD"] \in ClientType
    BY TheStates, StateChanged DEF EndsTyped, Connected
  <2>2. QED
    BY <2>1 DEF Connect, EndsTyped
<1>2. /\ session' \in [Transfer -> SessionType]
      /\ \A r \in Transfer \ {t} : session'[r] = session[r]
  <2>1. [session[t] EXCEPT !.state = "RECV_CMD"] \in SessionType
    BY TheStates, SessionStateChanged DEF EndsTyped
  <2>2. QED
    BY <2>1 DEF Connect, EndsTyped
<1>3. <<Item("command", 0)>> \in Seq(SentType)
  BY VaultsterAssumption DEF Item, SentType
<1>4. /\ toServer' \in [Transfer -> Seq(SentType)]
      /\ \A r \in Transfer \ {t} : toServer'[r] = toServer[r]
  BY <1>3 DEF Connect, EndsTyped
<1>5. /\ net' \in [Transfer -> {"none", "up", "cut", "closed", "reset"}]
      /\ \A r \in Transfer \ {t} : net'[r] = net[r]
  BY DEF Connect, EndsTyped
<1>6. toClient' = toClient
  BY DEF Connect
<1>7. QED
  BY <1>1, <1>2, <1>4, <1>5, <1>6 DEF EndsTyped, OnlyOf

LEMMA GoOnTyped ==
  ASSUME EndsTyped, NEW t \in Transfer, ClientReady(t), GoOn(t), UNCHANGED session
  PROVE  EndsTyped' /\ OnlyOf(t)
<1> DEFINE s == client[t].state
<1>1. s \in DOMAIN ClientNext /\ ClientNext[s] \in Connected
  BY NextStates DEF GoOn
<1>2. /\ client' \in [Transfer -> ClientType]
      /\ \A r \in Transfer \ {t} : client'[r] = client[r]
  <2>1. [client[t] EXCEPT !.state = ClientNext[s]] \in ClientType
    BY <1>1, StateChanged DEF EndsTyped
  <2>2. QED
    BY <2>1 DEF GoOn, EndsTyped
<1>3. /\ toClient' \in [Transfer -> Seq(ReplyType)]
      /\ \A r \in Transfer \ {t} : toClient'[r] = toClient[r]
  <2>1. toClient \in [Transfer -> Seq(ReplyType)]
    BY DEF EndsTyped
  <2>2. s \in ClientReads => Tail(toClient[t]) \in Seq(ReplyType)
    BY <2>1, TailOf DEF ClientReady
  <2>3. QED
    BY <2>1, <2>2 DEF GoOn
<1>4. /\ toServer' \in [Transfer -> Seq(SentType)]
      /\ \A r \in Transfer \ {t} : toServer'[r] = toServer[r]
  <2>1. CASE s \in DOMAIN ClientSends
    <3> DEFINE item == Item(ClientSends[s], IF ClientSends[s] = "cmpsize" THEN client[t].size ELSE 0)
    <3>1. client[t].size \in 0..MaxSize
      BY DEF EndsTyped, ClientType
    <3>2. item \in SentType
      BY <2>1, <3>1, NextStates, Bounds DEF Item, SentType, Kinds
    <3>3. <<item>> \in Seq(SentType)
      BY <3>2
    <3>4. ClientWrites(t, <<item>>)
      BY <2>1 DEF GoOn
    <3> HIDE DEF item
    <3>5. QED
      BY <3>3, <3>4, ClientWritesTyped
  <2>2. CASE s \notin DOMAIN ClientSends
    BY <2>2 DEF GoOn, EndsTyped
  <2>3. QED
    BY <2>1, <2>2
<1>5. net' = net
  BY DEF GoOn
<1>6. QED
  BY <1>2, <1>3, <1>4, <1>5 DEF EndsTyped, OnlyOf

\* The piece of the file that SendChunk sends.
Piece(t) ==
  LET from == client[t].pos
      len  == IF client[t].size - from > ChunkLength THEN ChunkLength ELSE client[t].size - from
  IN  [i \in 1..len |-> Item("byte", from + i)]

LEMMA PieceOfFile ==
  ASSUME EndsTyped, NEW t \in Transfer
  PROVE  /\ Piece(t) \in Seq(SentType) /\ Len(Piece(t)) \in Nat
         /\ \A i \in 1..Len(Piece(t)) : Piece(t)[i] = Item("byte", client[t].pos + i)
         /\ Len(Piece(t)) = IF client[t].pos >= client[t].size THEN 0
                            ELSE IF client[t].size - client[t].pos > ChunkLength THEN ChunkLength
                            ELSE client[t].size - client[t].pos
<1> DEFINE from == client[t].pos
           size == client[t].size
           len  == IF size - from > ChunkLength THEN ChunkLength ELSE size - from
<1>1. from \in Nat /\ size \in 0..MaxSize /\ size \in Nat
  BY Bounds DEF EndsTyped, ClientType
<1>2. PICK n \in Nat : n = IF from >= size THEN 0 ELSE len
  BY <1>1, Bounds
<1>3. 1..len = 1..n
  BY <1>1, <1>2, Bounds
<1>4. \A i \in 1..n : from + i \in 0..MaxSize
  BY <1>1, <1>2, Bounds
<1>5. Piece(t) = [i \in 1..n |-> Item("byte", from + i)]
  BY <1>3 DEF Piece
<1> HIDE DEF from, size, len
<1>6. [i \in 1..n |-> Item("byte", from + i)] \in [1..n -> SentType]
  BY <1>4 DEF Item, SentType
<1>7. Piece(t) \in Seq(SentType) /\ Len(Piece(t)) = n
  BY <1>5, <1>6, FunctionIsSeq
<1>8. \A i \in 1..n : Piece(t)[i] = Item("byte", from + i)
  BY <1>5
<1>9. QED
  BY <1>2, <1>7, <1>8 DEF from, size, len

LEMMA SendChunkTyped ==
  ASSUME EndsTyped, NEW t \in Transfer, SendChunk(t), UNCHANGED session
  PROVE  EndsTyped' /\ OnlyOf(t)
<1> DEFINE from == client[t].pos
           next == IF IsLastChunk(from + ChunkLength, client[t].size) THEN "LAST_CHUNK" ELSE "CHUNK"
<1>1. client[t] \in ClientType /\ from \in Nat /\ from + ChunkLength \in Nat
  BY Bounds DEF EndsTyped, ClientType
<1>2. next \in Connected
  BY TheStates DEF Connected
<1>3. client' = [client EXCEPT ![t] = [client[t] EXCEPT !.pos = from + ChunkLength, !.state = next]]
  BY DEF SendChunk
<1>4. ClientWrites(t, Piece(t)) /\ UNCHANGED <<net, toClient>>
  BY DEF SendChunk, Piece
<1> HIDE DEF next, from
<1>5. [client[t] EXCEPT !.pos = from + ChunkLength, !.state = next] \in ClientType
  BY <1>1, <1>2, PosChanged
<1>6. /\ client' \in [Transfer -> ClientType]
      /\ \A r \in Transfer \ {t} : client'[r] = client[r]
  BY <1>3, <1>5 DEF EndsTyped
<1>7. /\ toServer' \in [Transfer -> Seq(SentType)]
      /\ \A r \in Transfer \ {t} : toServer'[r] = toServer[r]
  BY <1>4, PieceOfFile, ClientWritesTyped
<1>8. QED
  BY <1>4, <1>6, <1>7 DEF EndsTyped, OnlyOf

LEMMA ClientHandleStateTyped ==
  ASSUME EndsTyped, NEW t \in Transfer, ClientHandleState(t)
  PROVE  EndsTyped' /\ OnlyOf(t)
<1>1. session' = session /\ ClientReady(t)
  BY DEF ClientHandleState
<1>2. CASE \E o \in {OK, ERROR} : Finish(t, o)
  <2>1. ClientEnds(t, "closed") /\ toServer' = toServer
    BY <1>2 DEF Finish
  <2>2. QED
    BY <1>1, <2>1, ClientEndsTyped DEF EndsTyped
<1>3. CASE GoOn(t)
  BY <1>1, <1>3, GoOnTyped
<1>4. CASE SendChunk(t)
  BY <1>1, <1>4, SendChunkTyped
<1>5. QED
  BY <1>2, <1>3, <1>4 DEF ClientHandleState

LEMMA ClientGoneTyped ==
  ASSUME EndsTyped, NEW t \in Transfer, ClientFails(t) \/ ClientTimesOut(t)
  PROVE  EndsTyped' /\ OnlyOf(t)
<1>1. ClientEnds(t, "reset") /\ session' = session
  BY DEF ClientFails, ClientTimesOut
<1>2. <<>> \in Seq(SentType)
  BY EmptySeq
<1>3. /\ toServer' \in [Transfer -> Seq(SentType)]
      /\ \A r \in Transfer \ {t} : toServer'[r] = toServer[r]
  BY <1>2 DEF EndsTyped, ClientFails, ClientTimesOut
<1>4. QED
  BY <1>1, <1>3, ClientEndsTyped

LEMMA SessionStepTyped ==
  ASSUME EndsTyped, NEW t \in Transfer, SessionStep(t)
  PROVE  EndsTyped' /\ OnlyOf(t)
<1> DEFINE s == session[t].state
<1>1. /\ s \in DOMAIN SessionNext /\ SessionNext[s] \in DOMAIN SessionNext \cup {"CHUNK"}
      /\ UNCHANGED <<client, net>>
  BY NextStates DEF SessionStep
<1>2. /\ session[t] \in SessionType
      /\ toServer \in [Transfer -> Seq(SentType)] /\ toServer[t] \in Seq(SentType)
      /\ toClient \in [Transfer -> Seq(ReplyType)]
      /\ s \in SessionReads => toServer[t] # <<>>
  BY DEF EndsTyped, SessionStep, SessionReady, OperationOver
<1>3. /\ toServer' \in [Transfer -> Seq(SentType)]
      /\ \A r \in Transfer \ {t} : toServer'[r] = toServer[r]
  <2>1. s \in SessionReads => Tail(toServer[t]) \in Seq(SentType)
    BY <1>2, TailOf
  <2>2. toServer' = IF s \in SessionReads THEN [toServer EXCEPT ![t] = Tail(@)] ELSE toServer
    BY DEF SessionStep
  <2>3. QED
    BY <1>2, <2>1, <2>2
<1>4. /\ toClient' \in [Transfer -> Seq(ReplyType)]
      /\ \A r \in Transfer \ {t} : toClient'[r] = toClient[r]
  <2>1. CASE \E word \in {0, 1} : Reply(t, "ack", word)
    BY <2>1, ReplyTyped
  <2>2. CASE UNCHANGED toClient
    BY <1>2, <2>2
  <2>3. QED
    BY <2>1, <2>2 DEF SessionStep, ACK, NACK
<1>5. PICK c \in SessionType : session' = [session EXCEPT ![t] = c]
  <2>1. CASE session' = [session EXCEPT ![t].state = "DONE"]
    <3>1. [session[t] EXCEPT !.state = "DONE"] \in SessionType
      BY <1>2, SessionStateChanged
    <3>2. QED
      BY <2>1, <3>1
  <2>2. CASE session' # [session EXCEPT ![t].state = "DONE"]
    <3> DEFINE n == SessionNext[s]
               z == IF s = "RECV_CMPFSIZE" THEN Head(toServer[t]).at ELSE session[t].cmpsize
    <3>1. session' = [session EXCEPT ![t] = [session[t] EXCEPT !.state = n, !.cmpsize = z]]
      BY <2>2 DEF SessionStep
    <3>2. z \in 0..MaxSize
      <4>1. s = "RECV_CMPFSIZE" => Head(toServer[t]) \in SentType
        BY <1>2, TailOf, TheStates DEF SessionReads
      <4>2. QED
        BY <1>2, <4>1 DEF SentType, SessionType
    <3>3. n \in {"none", "deleted", "CHUNK", "OPENED", "WRITTEN", "DONE"} \cup DOMAIN SessionNext
      BY <1>1
    <3> HIDE DEF n, z
    <3>4. [session[t] EXCEPT !.state = n, !.cmpsize = z] \in SessionType
      BY <1>2, <3>2, <3>3, CmpsizeChanged
    <3>5. QED
      BY <3>1, <3>4
  <2>3. QED
    BY <2>1, <2>2
<1>6. /\ session' \in [Transfer -> SessionType]
      /\ \A r \in Transfer \ {t} : session'[r] = session[r]
  BY <1>5 DEF EndsTyped
<1>7. QED
  BY <1>1, <1>3, <1>4, <1>6 DEF EndsTyped, OnlyOf

LEMMA StoreTyped ==
  ASSUME EndsTyped, NEW t \in Transfer, BeginStore(t) \/ WriteFile(t) \/ SyncFile(t)
  PROVE  EndsTyped' /\ OnlyOf(t)
<1>1. UNCHANGED <<client, net>>
  BY DEF BeginStore, WriteFile, SyncFile
<1>2. /\ toServer' \in [Transfer -> Seq(SentType)]
      /\ \A r \in Transfer \ {t} : toServer'[r] = toServer[r]
  <2>1. toServer \in [Transfer -> Seq(SentType)] /\ session[t].cmpsize \in Nat
    BY Bounds DEF EndsTyped, SessionType
  <2>2. SubSeq(toServer[t], session[t].cmpsize + 1, Len(toServer[t])) \in Seq(SentType)
    <3>1. \A i \in (session[t].cmpsize + 1)..Len(toServer[t]) : toServer[t][i] \in SentType
      BY <2>1, ElementOfSeq, LenProperties
    <3>2. QED
      BY <2>1, <3>1, SubSeqProperties, LenProperties
  <2>3. \/ toServer' = toServer
        \/ toServer' = [toServer EXCEPT ![t] =
                          SubSeq(toServer[t], session[t].cmpsize + 1, Len(toServer[t]))]
    BY DEF BeginStore, WriteFile, SyncFile
  <2>4. QED
    BY <2>1, <2>2, <2>3
<1>3. PICK state \in {"DONE", "OPENED", "WRITTEN"} :
        session' = [session EXCEPT ![t].state = state]
  BY DEF BeginStore, WriteFile, SyncFile, Answer
<1>4. /\ session' \in [Transfer -> SessionType]
      /\ \A r \in Transfer \ {t} : session'[r] = session[r]
  <2>1. [session[t] EXCEPT !.state = state] \in SessionType
    BY SessionStateChanged DEF EndsTyped
  <2>2. QED
    BY <1>3, <2>1 DEF EndsTyped
<1>5. /\ toClient' \in [Transfer -> Seq(ReplyType)]
      /\ \A r \in Transfer \ {t} : toClient'[r] = toClient[r]
  <2>1. toClient' = toClient \/ \E word \in {0, 1} : Reply(t, "status", word)
    BY DEF BeginStore, WriteFile, SyncFile, Answer
  <2>2. CASE \E word \in {0, 1} : Reply(t, "status", word)
    BY <2>2, ReplyTyped
  <2>3. QED
    BY <2>1, <2>2 DEF EndsTyped
<1>6. QED
  BY <1>1, <1>2, <1>4, <1>5 DEF EndsTyped, OnlyOf

LEMMA SessionGoneTyped ==
  ASSUME EndsTyped, NEW t \in Transfer, SessionDone(t) \/ SessionFails(t) \/ SessionTimesOut(t)
  PROVE  EndsTyped' /\ OnlyOf(t)
<1>1. PICK how \in {"closed", "reset"} : SessionEnds(t, how)
  BY DEF SessionDone, SessionFails, SessionTimesOut
<1>2. client' = client
  BY DEF SessionDone, SessionFails, SessionTimesOut
<1>3. <<>> \in Seq(ReplyType)
  BY EmptySeq
<1>4. /\ toClient' \in [Transfer -> Seq(ReplyType)]
      /\ \A r \in Transfer \ {t} : toClient'[r] = toClient[r]
  BY <1>3 DEF EndsTyped, SessionDone, SessionFails, SessionTimesOut
<1>5. QED
  BY <1>1, <1>2, <1>4, SessionEndsTyped

LEMMA CutTyped ==
  ASSUME EndsTyped, NEW t \in Transfer, Cut(t)
  PROVE  EndsTyped' /\ OnlyOf(t)
BY DEF EndsTyped, OnlyOf, Cut

LEMMA CrashTyped ==
  ASSUME EndsTyped, Crash
  PROVE  EndsTyped'
<1>1. SessionDeleted \in SessionType
  BY Bounds DEF SessionDeleted, NoSession, SessionType
<1>2. session' \in [Transfer -> SessionType]
  BY <1>1 DEF Crash, EndsTyped
<1>3. net' \in [Transfer -> {"none", "up", "cut", "closed", "reset"}]
  BY DEF Crash, EndsTyped
<1>4. toServer' \in [Transfer -> Seq(SentType)] /\ toClient' \in [Transfer -> Seq(ReplyType)]
  BY EmptySeq DEF Crash
<1>5. client' = client
  BY DEF Crash
<1>6. QED
  BY <1>2, <1>3, <1>4, <1>5 DEF EndsTyped

\* All steps of one transfer.
StepOf(t) ==
  \/ HandleResolve(t) \/ ConnectFails(t) \/ Connect(t)
  \/ ClientHandleState(t) \/ ClientFails(t) \/ ClientTimesOut(t)
  \/ SessionStep(t) \/ BeginStore(t) \/ WriteFile(t) \/ SyncFile(t)
  \/ SessionDone(t) \/ SessionFails(t) \/ SessionTimesOut(t) \/ Cut(t)

LEMMA StepTyped ==
  ASSUME EndsTyped, NEW t \in Transfer, StepOf(t)
  PROVE  EndsTyped' /\ OnlyOf(t)
<1>1. CASE HandleResolve(t) \/ ConnectFails(t)
  BY <1>1, BeginningTyped
<1>2. CASE Connect(t)
  BY <1>2, ConnectTyped
<1>3. CASE ClientHandleState(t)
  BY <1>3, ClientHandleStateTyped
<1>4. CASE ClientFails(t) \/ ClientTimesOut(t)
  BY <1>4, ClientGoneTyped
<1>5. CASE SessionStep(t)
  BY <1>5, SessionStepTyped
<1>6. CASE BeginStore(t) \/ WriteFile(t) \/ SyncFile(t)
  BY <1>6, StoreTyped
<1>7. CASE SessionDone(t) \/ SessionFails(t) \/ SessionTimesOut(t)
  BY <1>7, SessionGoneTyped
<1>8. CASE Cut(t)
  BY <1>8, CutTyped
<1>9. QED
  BY <1>1, <1>2, <1>3, <1>4, <1>5, <1>6, <1>7, <1>8 DEF StepOf

LEMMA NextIs ==
  Next => \/ \E s \in Slot : ReadStatus(s) \/ \E size \in 1..MaxSize : Send(s, size)
          \/ AnswerStatus
          \/ \E t \in Transfer : StepOf(t)
          \/ Crash \/ Restart
BY DEF Next, StepOf, ClientProgress, SessionProgress
-------------------------------------------------------------------------------
(* Types: the rest.                                                          *)

LEMMA FaultTyped ==
  ASSUME FaultsTyped, NEW T, NEW how \in {"refused", "broken"}, Fault(T, how) \/ NoFault
  PROVE  FaultsTyped'
<1>1. faults' \in 0..MaxFaults
  BY VaultsterAssumption DEF FaultsTyped, Fault, NoFault
<1>2. faulty' \in [Transfer -> {"no", "refused", "broken"}]
  BY DEF FaultsTyped, Fault, NoFault
<1>3. QED
  BY <1>1, <1>2 DEF FaultsTyped

\* What goes wrong in a step of a transfer goes wrong with that transfer.
LEMMA FaultOfStep ==
  ASSUME NEW t \in Transfer, StepOf(t)
  PROVE  \/ \E how \in {"refused", "broken"} : Fault({t}, how)
         \/ NoFault
         \/ faulty' = [faulty EXCEPT ![t] = "broken"] /\ UNCHANGED faults
<1>1. CASE HandleResolve(t) \/ Connect(t) \/ ClientHandleState(t) \/ ClientFails(t) \/ Cut(t)
  BY <1>1 DEF HandleResolve, Connect, ClientHandleState, ClientFails, Cut
<1>2. CASE SessionStep(t) \/ BeginStore(t) \/ WriteFile(t) \/ SyncFile(t)
  BY <1>2 DEF SessionStep, BeginStore, WriteFile, SyncFile
<1>3. CASE SessionDone(t) \/ SessionFails(t)
  BY <1>3 DEF SessionDone, SessionFails
<1>4. CASE ClientTimesOut(t) \/ SessionTimesOut(t)
  BY <1>4 DEF ClientTimesOut, SessionTimesOut, TimeOut
<1>5. CASE ConnectFails(t)
  BY <1>5 DEF ConnectFails
<1>6. QED
  BY <1>1, <1>2, <1>3, <1>4, <1>5 DEF StepOf

LEMMA StepKeepsFaults ==
  ASSUME FaultsTyped, NEW t \in Transfer, StepOf(t)
  PROVE  FaultsTyped'
<1>1. CASE faulty' = [faulty EXCEPT ![t] = "broken"] /\ UNCHANGED faults
  BY <1>1 DEF FaultsTyped
<1>2. QED
  BY <1>1, FaultOfStep, FaultTyped

LEMMA StepKeepsServer ==
  ASSUME ServerTyped, NEW t \in Transfer, StepOf(t)
  PROVE  ServerTyped'
<1>1. CASE BeginStore(t)
  <2>1. serverUp' = serverUp
    BY <1>1 DEF BeginStore
  <2>2. CASE UNCHANGED disk
    BY <2>1, <2>2 DEF ServerTyped, disk
  <2>3. CASE vault' = [file |-> Torn, synced |-> FALSE] /\ writers' = Append(writers, t)
    <3>1. Append(writers, t) \in Seq(Transfer)
      BY Pushed DEF ServerTyped
    <3>2. QED
      BY <2>1, <2>3, <3>1 DEF ServerTyped
  <2>4. QED
    BY <1>1, <2>2, <2>3 DEF BeginStore
<1>2. CASE WriteFile(t) \/ SyncFile(t)
  <2>1. UNCHANGED <<serverUp, writers>>
    BY <1>2 DEF WriteFile, SyncFile
  <2>2. \/ vault' = vault
        \/ vault' = [vault EXCEPT !.file = t]
        \/ vault' = [vault EXCEPT !.synced = TRUE]
    BY <1>2 DEF WriteFile, SyncFile
  <2>3. vault' \in [file : {Torn} \cup 0..MaxTransfer, synced : BOOLEAN]
    <3>1. vault \in [file : {Torn} \cup 0..MaxTransfer, synced : BOOLEAN] /\ t \in 0..MaxTransfer
      BY Bounds DEF ServerTyped, Transfer
    <3>2. QED
      BY <2>2, <3>1
  <2>4. QED
    BY <2>1, <2>3 DEF ServerTyped
<1>3. CASE ~BeginStore(t) /\ ~WriteFile(t) /\ ~SyncFile(t)
  <2>1. UNCHANGED <<serverUp, vault, writers>>
    BY <1>3 DEF StepOf, HandleResolve, Connect, ConnectFails, ClientHandleState, ClientFails,
                ClientTimesOut, SessionStep, SessionDone, SessionFails, SessionTimesOut, Cut, disk
  <2>2. QED
    BY <2>1 DEF ServerTyped
<1>4. QED
  BY <1>1, <1>2, <1>3

LEMMA CrashKeepsServer ==
  ASSUME ServerTyped, Crash
  PROVE  ServerTyped'
<1>1. UNCHANGED writers /\ serverUp' = FALSE
  BY DEF Crash
<1>2. PICK f \in {vault.file, Torn} : vault' = [file |-> f, synced |-> TRUE]
  BY DEF Crash
<1>3. f \in {Torn} \cup 0..MaxTransfer
  BY DEF ServerTyped
<1>4. QED
  BY <1>1, <1>2, <1>3 DEF ServerTyped
-------------------------------------------------------------------------------
(* The slots.                                                                *)

\* What OutcomeTold needs: only a STATUS request whose answer is an outcome makes
\* a slot READY again, and the slot still is the same transfer's when it does.
SlotsInv ==
  /\ SlotsTyped
  /\ asked # NotAsked => owner[asked.slot] \in Transfer
  /\ OutcomeTold

LEMMA SlotsInit == Init => SlotsInv
<1> SUFFICES ASSUME Init PROVE SlotsInv
  OBVIOUS
<1>1. numclients \in MaxClients /\ numclients \in Nat \ {0} /\ 0 \in Slot
  BY VaultsterAssumption DEF Init, Slot
<1>2. SlotsTyped
  <2>1. /\ status \in [Slot -> {BUSY, READY, OK, ERROR}]
        /\ owner \in [Slot -> 0..MaxTransfer]
        /\ told \in [Transfer -> {BUSY, OK, ERROR}]
    BY Bounds DEF Init
  <2>2. lastclient \in Slot /\ asked = NotAsked /\ nextTransfer \in 1..(MaxTransfer + 1)
    BY <1>1, Bounds DEF Init
  <2>3. QED
    BY <1>1, <2>1, <2>2 DEF SlotsTyped
<1>3. OutcomeTold /\ asked = NotAsked
  BY DEF OutcomeTold, Init
<1>4. QED
  BY <1>2, <1>3 DEF SlotsInv

\* What is known of the slots.
LEMMA SlotsAre ==
  ASSUME SlotsInv
  PROVE  /\ numclients \in MaxClients /\ numclients \in Nat \ {0}
         /\ status \in [Slot -> {BUSY, READY, OK, ERROR}] /\ owner \in [Slot -> 0..MaxTransfer]
         /\ told \in [Transfer -> {BUSY, OK, ERROR}]
         /\ lastclient \in Slot /\ nextTransfer \in 1..(MaxTransfer + 1)
         /\ asked # NotAsked => /\ asked.slot \in Slot /\ owner[asked.slot] \in Transfer
                                /\ asked.seen \in {BUSY, READY, OK, ERROR}
         /\ asked \in {NotAsked} \cup [slot : Slot, seen : {BUSY, READY, OK, ERROR}]
         /\ OutcomeTold
BY VaultsterAssumption DEF SlotsInv, SlotsTyped

LEMMA SendKeepsSlots ==
  ASSUME SlotsInv, NEW s \in Slot, NEW size \in 1..MaxSize, Send(s, size)
  PROVE  SlotsInv'
<1>1. /\ asked = NotAsked /\ asked' = NotAsked /\ numclients' = numclients /\ told' = told
      /\ status' = [status EXCEPT ![s] = BUSY]
      /\ owner' = [owner EXCEPT ![s] = nextTransfer]
      /\ nextTransfer <= MaxTransfer /\ nextTransfer' = nextTransfer + 1
  BY DEF Send
<1>2. Slot' = Slot /\ nextTransfer \in 1..MaxTransfer
  BY <1>1, SlotsAre, Bounds DEF Slot
<1>3. /\ status' \in [Slot -> {BUSY, READY, OK, ERROR}]
      /\ owner' \in [Slot -> 0..MaxTransfer]
      /\ nextTransfer' \in 1..(MaxTransfer + 1)
  BY <1>1, <1>2, SlotsAre, Bounds
<1>4. ASSUME NEW x \in Slot, status'[x] = READY, owner'[x] # 0
      PROVE  told'[owner'[x]] # BUSY
  <2>1. x # s
    BY <1>1, <1>4, SlotsAre DEF BUSY, READY
  <2>2. status[x] = READY /\ owner[x] # 0 /\ owner'[x] = owner[x]
    BY <1>1, <1>4, <2>1, SlotsAre
  <2>3. QED
    BY <1>1, <1>4, <2>2, SlotsAre DEF OutcomeTold
<1>5. OutcomeTold'
  BY <1>2, <1>4 DEF OutcomeTold
<1>6. lastclient' \in Slot
  <2>1. s \in Int /\ numclients \in Nat \ {0}
    BY SlotsAre DEF Slot
  <2>2. SlotAfter(s) \in Slot
    BY <2>1 DEF SlotAfter, Slot
  <2>3. QED
    BY <2>2, SlotsAre DEF Send
<1>7. SlotsTyped'
  BY <1>1, <1>2, <1>3, <1>6, SlotsAre DEF SlotsTyped
<1>8. QED
  BY <1>1, <1>5, <1>7 DEF SlotsInv

LEMMA ReadKeepsSlots ==
  ASSUME SlotsInv, NEW s \in Slot, ReadStatus(s)
  PROVE  SlotsInv'
<1>1. /\ UNCHANGED <<numclients, status, owner, lastclient, told, nextTransfer>>
      /\ asked' = [slot |-> s, seen |-> status[s]] /\ owner[s] # 0
  BY DEF ReadStatus
<1>2. Slot' = Slot /\ owner[s] \in Transfer /\ status[s] \in {BUSY, READY, OK, ERROR}
  <2>1. Slot' = Slot
    BY <1>1 DEF Slot
  <2>2. owner[s] \in 0..MaxTransfer /\ owner[s] # 0 /\ MaxTransfer \in Nat
    BY <1>1, SlotsAre, Bounds
  <2>3. owner[s] \in Transfer
    BY ONLY <2>2 DEF Transfer
  <2>4. status[s] \in {BUSY, READY, OK, ERROR}
    BY SlotsAre
  <2>5. QED
    BY <2>1, <2>3, <2>4
<1>3. OutcomeTold'
  BY <1>1, <1>2, SlotsAre DEF OutcomeTold
<1>4. asked' \in [slot : Slot, seen : {BUSY, READY, OK, ERROR}] /\ asked'.slot = s
  BY <1>1, <1>2
<1>5. SlotsTyped'
  BY <1>1, <1>2, <1>4, SlotsAre DEF SlotsTyped
<1>6. QED
  BY <1>1, <1>2, <1>3, <1>4, <1>5 DEF SlotsInv

LEMMA AnswerKeepsSlots ==
  ASSUME SlotsInv, AnswerStatus
  PROVE  SlotsInv'
<1> DEFINE a == asked.slot
<1>1. /\ asked # NotAsked /\ asked' = NotAsked
      /\ UNCHANGED <<numclients, owner, lastclient, nextTransfer>>
  BY DEF AnswerStatus
<1>2. a \in Slot /\ owner[a] \in Transfer /\ Slot' = Slot
  BY <1>1, SlotsAre DEF Slot
<1>3. CASE OutcomeSeen
  <2>1. /\ status' = [status EXCEPT ![a] = READY]
        /\ told' = [told EXCEPT ![owner[a]] = asked.seen]
        /\ asked.seen \in {OK, ERROR}
    BY <1>3 DEF AnswerStatus, OutcomeSeen
  <2>2. /\ status' \in [Slot -> {BUSY, READY, OK, ERROR}]
        /\ told' \in [Transfer -> {BUSY, OK, ERROR}]
    BY <1>2, <2>1, SlotsAre
  <2>3. ASSUME NEW x \in Slot, status'[x] = READY, owner'[x] # 0
        PROVE  told'[owner'[x]] # BUSY
    <3>1. owner'[x] = owner[x] /\ owner[x] \in Transfer
      BY <1>1, <2>3, SlotsAre, Bounds DEF Transfer
    <3>2. CASE owner[x] = owner[a]
      BY <1>2, <2>1, <3>1, <3>2, SlotsAre DEF BUSY, OK, ERROR
    <3>3. CASE owner[x] # owner[a]
      <4>1. told'[owner[x]] = told[owner[x]] /\ status'[x] = status[x]
        BY <1>2, <2>1, <3>1, <3>3, SlotsAre
      <4>2. QED
        BY <2>3, <3>1, <4>1, SlotsAre DEF OutcomeTold
    <3>4. QED
      BY <3>2, <3>3
  <2>4. OutcomeTold'
    BY <1>2, <2>3 DEF OutcomeTold
  <2>5. SlotsTyped'
    BY <1>1, <1>2, <2>2, SlotsAre DEF SlotsTyped
  <2>6. QED
    BY <1>1, <2>4, <2>5 DEF SlotsInv
<1>4. CASE ~OutcomeSeen
  <2>1. UNCHANGED <<status, told>>
    BY <1>4 DEF AnswerStatus
  <2>2. OutcomeTold'
    BY <1>1, <1>2, <2>1, SlotsAre DEF OutcomeTold
  <2>3. SlotsTyped'
    BY <1>1, <1>2, <2>1, SlotsAre DEF SlotsTyped
  <2>4. QED
    BY <1>1, <2>2, <2>3 DEF SlotsInv
<1>5. QED
  BY <1>3, <1>4

\* A client that is over sets its slot's status, and never to READY.
LEMMA FinishKeepsSlots ==
  ASSUME SlotsInv, NEW t \in Transfer, NEW o \in {OK, ERROR}, Finish(t, o)
  PROVE  SlotsInv'
<1>1. PICK s \in Slot : status' = [status EXCEPT ![s] = o]
  BY DEF Finish
<1>2. UNCHANGED <<numclients, owner, lastclient, asked, told, nextTransfer>>
  BY DEF Finish
<1>3. Slot' = Slot /\ status' \in [Slot -> {BUSY, READY, OK, ERROR}]
  BY <1>1, <1>2, SlotsAre DEF Slot
<1>4. ASSUME NEW x \in Slot, status'[x] = READY
      PROVE  status[x] = READY
  BY <1>1, <1>4, SlotsAre DEF READY, OK, ERROR
<1>5. OutcomeTold'
  BY <1>2, <1>3, <1>4, SlotsAre DEF OutcomeTold
<1>6. SlotsTyped'
  BY <1>2, <1>3, SlotsAre DEF SlotsTyped
<1>7. QED
  BY <1>2, <1>5, <1>6 DEF SlotsInv

LEMMA OtherStepsKeepSlots == SlotsInv /\ UNCHANGED slots => SlotsInv'
<1> SUFFICES ASSUME SlotsInv, UNCHANGED slots PROVE SlotsInv'
  OBVIOUS
<1>1. UNCHANGED <<numclients, status, owner, lastclient, asked, told, nextTransfer>>
  BY DEF slots
<1>2. OutcomeTold' /\ Slot' = Slot
  BY <1>1 DEF SlotsInv, OutcomeTold, Slot
<1>3. QED
  BY <1>1, <1>2, SlotsAre DEF SlotsInv, SlotsTyped

\* A step of a transfer is the end of its client, or leaves the slots alone.
LEMMA StepOfSlots ==
  ASSUME NEW t \in Transfer, StepOf(t)
  PROVE  UNCHANGED slots \/ \E o \in {OK, ERROR} : Finish(t, o) /\ ClientHandleState(t)
<1>1. CASE ClientHandleState(t)
  BY <1>1 DEF ClientHandleState, GoOn, SendChunk
<1>2. CASE ~ClientHandleState(t)
  BY <1>2 DEF StepOf, HandleResolve, Connect, ConnectFails, ClientFails, ClientTimesOut,
              SessionStep, BeginStore, WriteFile, SyncFile, SessionDone, SessionFails,
              SessionTimesOut, Cut
<1>3. QED
  BY <1>1, <1>2

LEMMA SlotsInductive == SlotsInv /\ [Next]_vars => SlotsInv'
<1> SUFFICES ASSUME SlotsInv, [Next]_vars PROVE SlotsInv'
  OBVIOUS
<1>1. ASSUME NEW s \in Slot, ReadStatus(s) PROVE SlotsInv'
  BY <1>1, ReadKeepsSlots
<1>2. ASSUME NEW s \in Slot, NEW size \in 1..MaxSize, Send(s, size) PROVE SlotsInv'
  BY <1>2, SendKeepsSlots
<1>3. CASE AnswerStatus
  BY <1>3, AnswerKeepsSlots
<1>4. ASSUME NEW t \in Transfer, StepOf(t) PROVE SlotsInv'
  BY <1>4, StepOfSlots, FinishKeepsSlots, OtherStepsKeepSlots
<1>5. CASE Crash \/ Restart \/ UNCHANGED vars
  BY <1>5, OtherStepsKeepSlots DEF Crash, Restart, vars
<1>6. QED
  BY <1>1, <1>2, <1>3, <1>4, <1>5, NextIs

\* A slot is given to another transfer only after a script was told the outcome of
\* the last one, although STATUS reads the slot and sets it to STATUS_READY in two
\* steps, between which the transfer's thread may set it.
THEOREM OutcomesAreTold == Spec => []OutcomeTold
<1>1. SlotsInv => OutcomeTold
  BY DEF SlotsInv
<1>2. QED
  BY <1>1, SlotsInit, SlotsInductive, PTL DEF Spec
-------------------------------------------------------------------------------
(* Types.                                                                    *)

TypeInv == TypeOK /\ SlotsInv

LEMMA TypeInit == Init => TypeInv
<1> SUFFICES ASSUME Init PROVE TypeInv
  OBVIOUS
<1>1. SlotsInv
  BY SlotsInit
<1>2. EndsTyped
  <2>1. NoClient \in ClientType /\ NoSession \in SessionType
    BY Bounds DEF NoClient, ClientType, NoSession, SessionType
  <2>2. <<>> \in Seq(SentType) /\ <<>> \in Seq(ReplyType)
    BY EmptySeq
  <2>3. client \in [Transfer -> ClientType] /\ session \in [Transfer -> SessionType]
    BY <2>1 DEF Init
  <2>4. /\ net \in [Transfer -> {"none", "up", "cut", "closed", "reset"}]
        /\ toServer \in [Transfer -> Seq(SentType)] /\ toClient \in [Transfer -> Seq(ReplyType)]
    BY <2>2 DEF Init
  <2>5. QED
    BY <2>3, <2>4 DEF EndsTyped
<1>3. ServerTyped
  <2>1. writers \in Seq(Transfer)
    BY EmptySeq DEF Init
  <2>2. QED
    BY <2>1, Bounds DEF Init, ServerTyped
<1>4. FaultsTyped
  BY VaultsterAssumption DEF Init, FaultsTyped
<1>5. QED
  BY <1>1, <1>2, <1>3, <1>4 DEF TypeInv, TypeOK, SlotsInv

LEMMA TypeInductive == TypeInv /\ [Next]_vars => TypeInv'
<1> SUFFICES ASSUME TypeInv, [Next]_vars PROVE TypeInv'
  OBVIOUS
<1>1. SlotsInv /\ SlotsInv' /\ SlotsTyped'
  BY SlotsInductive DEF TypeInv, SlotsInv
<1>2. EndsTyped /\ ServerTyped /\ FaultsTyped
  BY DEF TypeInv, TypeOK
<1>3. ASSUME NEW s \in Slot, NEW size \in 1..MaxSize, Send(s, size)
      PROVE  EndsTyped' /\ ServerTyped' /\ FaultsTyped'
  <2>1. nextTransfer \in Transfer
    BY <1>1, <1>3, SlotsAre, Bounds DEF Send, Transfer
  <2>2. EndsTyped'
    BY <1>2, <1>3, <2>1, SendTyped
  <2>3. UNCHANGED <<serverUp, vault, writers>>
    BY <1>3 DEF Send, disk
  <2>4. ServerTyped'
    BY <1>2, <2>3 DEF ServerTyped
  <2>5. Fault({nextTransfer}, "broken") \/ NoFault
    BY <1>3 DEF Send
  <2>6. FaultsTyped'
    BY <1>2, <2>5, FaultTyped
  <2>7. QED
    BY <2>2, <2>4, <2>6
<1>4. ASSUME NEW t \in Transfer, StepOf(t)
      PROVE  EndsTyped' /\ ServerTyped' /\ FaultsTyped'
  BY <1>2, <1>4, StepTyped, StepKeepsServer, StepKeepsFaults
<1>5. ASSUME Crash PROVE EndsTyped' /\ ServerTyped' /\ FaultsTyped'
  <2>1. FaultsTyped'
    BY <1>2, <1>5, FaultTyped DEF Crash
  <2>2. QED
    BY <1>2, <1>5, <2>1, CrashTyped, CrashKeepsServer
<1>6. ASSUME AnswerStatus \/ Restart \/ UNCHANGED vars \/ \E s \in Slot : ReadStatus(s)
      PROVE  EndsTyped' /\ ServerTyped' /\ FaultsTyped'
  <2>1. /\ UNCHANGED <<client, session, net, toServer, toClient>>
        /\ UNCHANGED <<vault, writers>> /\ UNCHANGED <<faulty, faults>>
        /\ serverUp' = serverUp \/ serverUp' = TRUE
    BY <1>6 DEF AnswerStatus, Restart, vars, ReadStatus, disk
  <2>2. EndsTyped' /\ FaultsTyped'
    BY <1>2, <2>1 DEF EndsTyped, FaultsTyped
  <2>3. ServerTyped'
    BY <1>2, <2>1 DEF ServerTyped
  <2>4. QED
    BY <2>2, <2>3
<1>7. EndsTyped' /\ ServerTyped' /\ FaultsTyped'
  BY <1>3, <1>4, <1>5, <1>6, NextIs
<1>8. QED
  BY <1>1, <1>7 DEF TypeInv, TypeOK

LEMMA TypesAlways == Spec => []TypeInv
BY TypeInit, TypeInductive, PTL DEF Spec

\* Every variable keeps its type: slots are found by numbers there are, and what a side
\* reads as a length is the length of something it was sent.
THEOREM TypeCorrect == Spec => []TypeOK
<1>1. TypeInv => TypeOK
  BY DEF TypeInv
<1>2. QED
  BY <1>1, TypesAlways, PTL
-------------------------------------------------------------------------------
(* What is on a connection: the items a client sends, in its order, from the *)
(* one on that the session has not read.                                     *)

Script == <<"command", "password", "idlength", "id", "namelength", "name", "size", "cmpsize">>

\* The i-th item a client with a file of this size sends.
Sends(size, i) ==
  IF i > 8 THEN Item("byte", i - 8) ELSE Item(Script[i], IF i = 8 THEN size ELSE 0)

\* Of each state, how many items the client has sent when it is in it, without
\* those of the file, and how many acknowledgements it has read.
HasSent ==
  [SEND_CMD |-> 1, RECV_ACK_CMD |-> 1, SEND_ENC_PWD |-> 2, RECV_ACK_PWD |-> 2,
   SEND_ENC_PIDLEN |-> 3, SEND_ENC_PID |-> 4, SEND_ENC_BICNAMELEN |-> 5, SEND_ENC_BICNAME |-> 6,
   RECV_REDUNDANT_ACK_CMD |-> 6, SEND_FILESIZE |-> 7, CHUNK |-> 8, LAST_CHUNK |-> 8,
   FILE_STATUS |-> 8]
AcksRead ==
  [SEND_CMD |-> 0, RECV_ACK_CMD |-> 0, SEND_ENC_PWD |-> 1, RECV_ACK_PWD |-> 1,
   SEND_ENC_PIDLEN |-> 2, SEND_ENC_PID |-> 2, SEND_ENC_BICNAMELEN |-> 2, SEND_ENC_BICNAME |-> 2,
   RECV_REDUNDANT_ACK_CMD |-> 2, SEND_FILESIZE |-> 3, CHUNK |-> 3, LAST_CHUNK |-> 3,
   FILE_STATUS |-> 3]

FileSent(c) == IF c.pos < c.size THEN c.pos ELSE c.size
SentBy(c)   == HasSent[c.state] + FileSent(c)

\* The same of the session: how many items it has read, and acknowledgements sent.
HasRead ==
  [RECV_CMD |-> 0, SEND_ACK_CMD |-> 1, RECV_ENC_PWD |-> 1, SEND_ACK_PWD |-> 2,
   RECV_ENC_PIDLEN |-> 2, RECV_ENC_PID |-> 3, RECV_ENC_BICNAMELEN |-> 4, RECV_ENC_BICNAME |-> 5,
   SEND_REDUNDANT_ACK_CMD |-> 6, RECV_FILESIZE |-> 6, RECV_CMPFSIZE |-> 7, CHUNK |-> 8]
AcksSent ==
  [RECV_CMD |-> 0, SEND_ACK_CMD |-> 1, RECV_ENC_PWD |-> 1, SEND_ACK_PWD |-> 2,
   RECV_ENC_PIDLEN |-> 2, RECV_ENC_PID |-> 2, RECV_ENC_BICNAMELEN |-> 2, RECV_ENC_BICNAME |-> 2,
   SEND_REDUNDANT_ACK_CMD |-> 3, RECV_FILESIZE |-> 3, RECV_CMPFSIZE |-> 3, CHUNK |-> 3,
   OPENED |-> 3, WRITTEN |-> 3]

ReplyKind(i) == IF i <= 3 THEN "ack" ELSE "status"

\* What is under way, when k items have been read before.
ItemsFrom(ts, size, k) == \A i \in 1..Len(ts) : ts[i] = Sends(size, k + i)
RepliesFrom(tc, k)     == \A i \in 1..Len(tc) : tc[i].what = ReplyKind(k + i)

\* Client, session and connection of a transfer, when the client has not begun,
\* while both are there, and after one of them has gone.
EndsAgree(c, s, n, ts, tc) ==
  /\ c.state \in {"none", "RESOLVE", "CONNECT"}
       => s = NoSession /\ n = "none" /\ ts = <<>> /\ tc = <<>>
  /\ c.state \in {"RESOLVE", "CONNECT"} \cup Connected => c.size > 0
  /\ c.state \in Connected => n # "none"
  /\ c.state \notin {"CHUNK", "LAST_CHUNK", "FILE_STATUS"} => c.pos = 0
  /\ c.state \in {"LAST_CHUNK", "FILE_STATUS"} => c.pos >= c.size
  /\ n = "up" => c.state \in Connected /\ s.state \notin {"none", "deleted"}
  /\ n \in {"closed", "reset"} => c.state \notin Connected \/ s.state \in {"none", "deleted"}

ToServerRight(c, s, n, ts) ==
  s.state \in DOMAIN HasRead =>
    /\ ItemsFrom(ts, c.size, HasRead[s.state])
    /\ n = "up" => HasRead[s.state] + Len(ts) = SentBy(c)
    /\ s.state = "CHUNK" => s.cmpsize = c.size

ToClientRight(c, s, n, tc) ==
  c.state \in Connected =>
    /\ RepliesFrom(tc, AcksRead[c.state])
    /\ n = "up" /\ s.state \in DOMAIN AcksSent
         => AcksRead[c.state] + Len(tc) = AcksSent[s.state]

Link(c, s, n, ts, tc) ==
  EndsAgree(c, s, n, ts, tc) /\ ToServerRight(c, s, n, ts) /\ ToClientRight(c, s, n, tc)

Linked == \A t \in Transfer : Link(client[t], session[t], net[t], toServer[t], toClient[t])

LEMMA Tables ==
  /\ DOMAIN HasSent = Connected /\ DOMAIN AcksRead = Connected
  /\ DOMAIN HasRead = DOMAIN SessionNext \cup {"CHUNK"}
  /\ DOMAIN AcksSent = DOMAIN SessionNext \cup {"CHUNK", "OPENED", "WRITTEN"}
  /\ Connected =
       {"SEND_CMD", "RECV_ACK_CMD", "SEND_ENC_PWD", "RECV_ACK_PWD", "SEND_ENC_PIDLEN",
        "SEND_ENC_PID", "SEND_ENC_BICNAMELEN", "SEND_ENC_BICNAME", "RECV_REDUNDANT_ACK_CMD",
        "SEND_FILESIZE", "LAST_CHUNK", "CHUNK", "FILE_STATUS"}
  /\ ClientReads = {"RECV_ACK_CMD", "RECV_ACK_PWD", "RECV_REDUNDANT_ACK_CMD", "FILE_STATUS"}
<1>1. Connected =
       {"SEND_CMD", "RECV_ACK_CMD", "SEND_ENC_PWD", "RECV_ACK_PWD", "SEND_ENC_PIDLEN",
        "SEND_ENC_PID", "SEND_ENC_BICNAMELEN", "SEND_ENC_BICNAME", "RECV_REDUNDANT_ACK_CMD",
        "SEND_FILESIZE", "LAST_CHUNK", "CHUNK", "FILE_STATUS"}
  BY TheStates DEF Connected
<1>2. DOMAIN HasSent = Connected
  BY <1>1 DEF HasSent
<1>3. DOMAIN AcksRead = Connected
  BY <1>1 DEF AcksRead
<1>4. DOMAIN HasRead = DOMAIN SessionNext \cup {"CHUNK"}
  BY TheStates DEF HasRead
<1>5. DOMAIN AcksSent = DOMAIN SessionNext \cup {"CHUNK", "OPENED", "WRITTEN"}
  BY TheStates DEF AcksSent
<1>6. ClientReads = {"RECV_ACK_CMD", "RECV_ACK_PWD", "RECV_REDUNDANT_ACK_CMD", "FILE_STATUS"}
  BY DEF ClientReads, AckStates
<1>7. QED
  BY <1>1, <1>2, <1>3, <1>4, <1>5, <1>6

LEMMA CountsAreNat ==
  /\ \A s \in Connected : HasSent[s] \in Nat /\ HasSent[s] <= 8 /\ AcksRead[s] \in 0..3
  /\ \A s \in DOMAIN HasRead : HasRead[s] \in Nat /\ HasRead[s] <= 8
  /\ \A s \in DOMAIN AcksSent : AcksSent[s] \in 0..3
<1>1. \A s \in Connected : HasSent[s] \in Nat /\ HasSent[s] <= 8
  BY Tables DEF HasSent
<1>2. \A s \in Connected : AcksRead[s] \in 0..3
  BY Tables DEF AcksRead
<1>3. \A s \in DOMAIN HasRead : HasRead[s] \in Nat /\ HasRead[s] <= 8
  BY DEF HasRead
<1>4. \A s \in DOMAIN AcksSent : AcksSent[s] \in 0..3
  BY DEF AcksSent
<1>5. QED
  BY <1>1, <1>2, <1>3, <1>4

LEMMA AcksReadIsNat == ASSUME NEW s \in Connected PROVE AcksRead[s] \in Nat
BY CountsAreNat

\* What a client sends when it leaves a state is the next item, and what it reads
\* the next acknowledgement.
LEMMA ClientCounts ==
  ASSUME NEW s \in DOMAIN ClientNext
  PROVE  /\ s \in DOMAIN ClientSends =>
              /\ HasSent[ClientNext[s]] = HasSent[s] + 1 /\ HasSent[s] + 1 <= 8
              /\ Script[HasSent[s] + 1] = ClientSends[s]
              /\ ClientSends[s] = "cmpsize" <=> HasSent[s] + 1 = 8
         /\ s \notin DOMAIN ClientSends => HasSent[ClientNext[s]] = HasSent[s]
         /\ AcksRead[ClientNext[s]] = IF s \in ClientReads THEN AcksRead[s] + 1 ELSE AcksRead[s]
<1>1. s \in DOMAIN ClientSends =>
         /\ HasSent[ClientNext[s]] = HasSent[s] + 1 /\ HasSent[s] + 1 <= 8
         /\ Script[HasSent[s] + 1] = ClientSends[s]
         /\ ClientSends[s] = "cmpsize" <=> HasSent[s] + 1 = 8
  BY TheStates DEF HasSent, Script, ClientSends, ClientNext
<1>2. s \notin DOMAIN ClientSends => HasSent[ClientNext[s]] = HasSent[s]
  BY TheStates DEF HasSent, ClientNext
<1>3. AcksRead[ClientNext[s]] = IF s \in ClientReads THEN AcksRead[s] + 1 ELSE AcksRead[s]
  BY TheStates, Tables DEF AcksRead, ClientNext
<1>4. QED
  BY <1>1, <1>2, <1>3

LEMMA SessionCounts ==
  ASSUME NEW s \in DOMAIN SessionNext
  PROVE  /\ HasRead[SessionNext[s]] = IF s \in SessionReads THEN HasRead[s] + 1 ELSE HasRead[s]
         /\ AcksSent[SessionNext[s]] = IF s \in JudgeStates THEN AcksSent[s] + 1 ELSE AcksSent[s]
         /\ s \in JudgeStates => AcksSent[s] < 3
         /\ SessionNext[s] = "CHUNK" <=> s = "RECV_CMPFSIZE"
<1>1. HasRead[SessionNext[s]] = IF s \in SessionReads THEN HasRead[s] + 1 ELSE HasRead[s]
  BY TheStates DEF HasRead, SessionNext, SessionReads
<1>2. AcksSent[SessionNext[s]] = IF s \in JudgeStates THEN AcksSent[s] + 1 ELSE AcksSent[s]
  BY TheStates DEF AcksSent, SessionNext, JudgeStates
<1>3. s \in JudgeStates => AcksSent[s] < 3
  BY DEF AcksSent, JudgeStates
<1>4. SessionNext[s] = "CHUNK" <=> s = "RECV_CMPFSIZE"
  BY TheStates DEF SessionNext
<1>5. QED
  BY <1>1, <1>2, <1>3, <1>4

LEMMA ItemsGrow ==
  ASSUME NEW ts \in Seq(SentType), NEW more \in Seq(SentType), NEW size, NEW k \in Nat,
         ItemsFrom(ts, size, k), ItemsFrom(more, size, k + Len(ts))
  PROVE  ItemsFrom(ts \o more, size, k) /\ Len(ts \o more) = Len(ts) + Len(more)
<1>1. Len(ts) \in Nat /\ Len(more) \in Nat /\ Len(ts \o more) = Len(ts) + Len(more)
  BY ConcatProperties, LenProperties
<1>2. ASSUME NEW i \in 1..(Len(ts) + Len(more))
      PROVE  (ts \o more)[i] = Sends(size, k + i)
  <2>1. CASE i <= Len(ts)
    <3>1. (ts \o more)[i] = ts[i] /\ i \in 1..Len(ts)
      BY <1>1, <2>1, ConcatProperties
    <3>2. QED
      BY <3>1 DEF ItemsFrom
  <2>2. CASE i > Len(ts)
    <3>1. PICK j \in 1..Len(more) : i = Len(ts) + j
      <4>1. i - Len(ts) \in 1..Len(more) /\ i = Len(ts) + (i - Len(ts))
        BY <1>1, <2>2
      <4>2. QED
        BY <4>1
    <3>2. (ts \o more)[i] = more[j]
      BY <1>1, <2>2, <3>1, ConcatProperties
    <3>3. more[j] = Sends(size, (k + Len(ts)) + j)
      BY DEF ItemsFrom
    <3>4. (k + Len(ts)) + j = k + i
      BY <1>1, <3>1
    <3>5. QED
      BY <3>2, <3>3, <3>4
  <2>3. QED
    BY <1>1, <2>1, <2>2
<1>3. QED
  BY <1>1, <1>2 DEF ItemsFrom

LEMMA ItemRead ==
  ASSUME NEW ts \in Seq(SentType), ts # <<>>, NEW size, NEW k \in Nat, ItemsFrom(ts, size, k)
  PROVE  /\ ItemsFrom(Tail(ts), size, k + 1) /\ Len(Tail(ts)) = Len(ts) - 1
         /\ Head(ts) = Sends(size, k + 1)
<1>1. /\ Head(ts) = ts[1] /\ Len(ts) \in Nat /\ Len(ts) >= 1 /\ Len(Tail(ts)) = Len(ts) - 1
      /\ \A i \in 1..Len(Tail(ts)) : Tail(ts)[i] = ts[i + 1]
  BY TailOf
<1>2. ASSUME NEW i \in 1..Len(Tail(ts))
      PROVE  Tail(ts)[i] = Sends(size, (k + 1) + i)
  <2>1. ts[i + 1] = Sends(size, k + (i + 1)) /\ k + (i + 1) = (k + 1) + i
    BY <1>1 DEF ItemsFrom
  <2>2. QED
    BY <1>1, <2>1
<1>3. QED
  BY <1>1, <1>2 DEF ItemsFrom

LEMMA ReplyComes ==
  ASSUME NEW tc \in Seq(ReplyType), NEW k \in Nat, RepliesFrom(tc, k),
         NEW x \in ReplyType, x.what = ReplyKind(k + Len(tc) + 1)
  PROVE  RepliesFrom(Append(tc, x), k) /\ Len(Append(tc, x)) = Len(tc) + 1
<1>1. /\ Len(tc) \in Nat /\ Len(Append(tc, x)) = Len(tc) + 1
      /\ \A i \in 1..Len(tc) : Append(tc, x)[i] = tc[i]
      /\ Append(tc, x)[Len(tc) + 1] = x
  BY Pushed, LenProperties
<1>2. ASSUME NEW i \in 1..(Len(tc) + 1)
      PROVE  Append(tc, x)[i].what = ReplyKind(k + i)
  <2>1. CASE i = Len(tc) + 1
    <3>1. k + Len(tc) + 1 = k + i
      BY <1>1, <2>1
    <3>2. QED
      BY <1>1, <2>1, <3>1
  <2>2. CASE i # Len(tc) + 1
    <3>1. i \in 1..Len(tc)
      BY <1>1, <2>2
    <3>2. QED
      BY <1>1, <3>1 DEF RepliesFrom
  <2>3. QED
    BY <2>1, <2>2
<1>3. QED
  BY <1>1, <1>2 DEF RepliesFrom

LEMMA ReplyRead ==
  ASSUME NEW tc \in Seq(ReplyType), tc # <<>>, NEW k \in Nat, RepliesFrom(tc, k)
  PROVE  /\ RepliesFrom(Tail(tc), k + 1) /\ Len(Tail(tc)) = Len(tc) - 1
         /\ Head(tc).what = ReplyKind(k + 1)
<1>1. /\ Head(tc) = tc[1] /\ Len(tc) \in Nat /\ Len(tc) >= 1 /\ Len(Tail(tc)) = Len(tc) - 1
      /\ \A i \in 1..Len(Tail(tc)) : Tail(tc)[i] = tc[i + 1]
  BY TailOf
<1>2. ASSUME NEW i \in 1..Len(Tail(tc))
      PROVE  Tail(tc)[i].what = ReplyKind((k + 1) + i)
  <2>1. tc[i + 1].what = ReplyKind(k + (i + 1)) /\ k + (i + 1) = (k + 1) + i
    BY <1>1 DEF RepliesFrom
  <2>2. QED
    BY <1>1, <2>1
<1>3. QED
  BY <1>1, <1>2 DEF RepliesFrom

LEMMA StatesApart ==
  /\ \A x \in Connected : x \notin {"none", "deleted", "RESOLVE", "CONNECT"}
  /\ \A x \in DOMAIN AcksSent : x \notin {"none", "deleted", "DONE"}
  /\ DOMAIN HasRead \subseteq DOMAIN AcksSent
  /\ "deleted" \notin DOMAIN HasRead /\ "DONE" \notin DOMAIN HasRead
  /\ "OPENED" \notin DOMAIN HasRead /\ "WRITTEN" \notin DOMAIN HasRead
  /\ "none" \notin DOMAIN HasRead /\ "none" \notin DOMAIN AcksSent
BY Tables, TheStates

\* The steps of a transfer, on what it consists of.
LEMMA BeginLinks ==
  ASSUME NEW c, NEW d, NEW s, NEW n, NEW ts, NEW tc, Link(c, s, n, ts, tc),
         c.state \in {"RESOLVE", "CONNECT"},
         \/ d = Deleted
         \/ d.state = "CONNECT" /\ d.pos = c.pos /\ d.size = c.size
  PROVE  Link(d, s, n, ts, tc) /\ d.state # "none"
<1>1. /\ s = NoSession /\ n = "none" /\ ts = <<>> /\ tc = <<>> /\ c.size > 0 /\ c.pos = 0
      /\ s.state = "none"
  BY DEF Link, EndsAgree, NoSession
<1>2. d.state \in {"deleted", "CONNECT"} /\ d.pos = 0 /\ (d.state = "CONNECT" => d.size > 0)
  BY <1>1 DEF Deleted, NoClient
<1>3. EndsAgree(d, s, n, ts, tc)
  BY <1>1, <1>2, StatesApart DEF EndsAgree
<1>4. ToServerRight(d, s, n, ts)
  BY <1>1, StatesApart DEF ToServerRight
<1>5. ToClientRight(d, s, n, tc)
  BY <1>2, StatesApart DEF ToClientRight
<1>6. QED
  BY <1>2, <1>3, <1>4, <1>5 DEF Link

LEMMA ConnectLinks ==
  ASSUME NEW c \in ClientType, NEW d, NEW s, NEW r, NEW n, NEW ts, NEW tc,
         Link(c, s, n, ts, tc), c.state = "CONNECT",
         d.state = "SEND_CMD", d.pos = c.pos, d.size = c.size, r.state = "RECV_CMD"
  PROVE  Link(d, r, "up", <<Item("command", 0)>>, tc)
<1>1. tc = <<>> /\ c.size > 0 /\ c.pos = 0 /\ c.size \in Nat
  BY Bounds DEF Link, EndsAgree, ClientType
<1>2. FileSent(d) = 0 /\ HasSent[d.state] = 1 /\ AcksRead[d.state] = 0
  BY <1>1 DEF FileSent, HasSent, AcksRead
<1>3. HasRead[r.state] = 0 /\ AcksSent[r.state] = 0
  BY DEF HasRead, AcksSent
<1>4. EndsAgree(d, r, "up", <<Item("command", 0)>>, tc)
  BY <1>1, Tables, StatesApart DEF EndsAgree
<1>5. ToServerRight(d, r, "up", <<Item("command", 0)>>)
  <2>1. ItemsFrom(<<Item("command", 0)>>, d.size, 0)
    BY DEF ItemsFrom, Sends, Script
  <2>2. QED
    BY <1>2, <1>3, <2>1 DEF ToServerRight, SentBy
<1>6. ToClientRight(d, r, "up", tc)
  BY <1>1, <1>2, <1>3 DEF ToClientRight, RepliesFrom
<1>7. QED
  BY <1>4, <1>5, <1>6 DEF Link

LEMMA ClientGoneLinks ==
  ASSUME NEW c, NEW d, NEW s, NEW n, NEW m, NEW ts, NEW us, NEW tc,
         Link(c, s, n, ts, tc),
         d.state = "deleted", d.pos = 0,
         s.state \in DOMAIN HasRead => d.size = c.size,
         m \in {"cut", "closed", "reset"}, us \in {ts, <<>>}
  PROVE  Link(d, s, m, us, <<>>)
<1>1. EndsAgree(d, s, m, us, <<>>)
  BY StatesApart DEF EndsAgree
<1>2. ToServerRight(d, s, m, us)
  BY DEF Link, ToServerRight, ItemsFrom
<1>3. ToClientRight(d, s, m, <<>>)
  BY StatesApart DEF ToClientRight
<1>4. QED
  BY <1>1, <1>2, <1>3 DEF Link

LEMMA SessionGoneLinks ==
  ASSUME NEW c, NEW s, NEW n, NEW m, NEW ts, NEW tc, NEW uc,
         Link(c, s, n, ts, tc), s.state # "none",
         m \in {"cut", "closed", "reset"}, uc \in {tc, <<>>}
  PROVE  Link(c, SessionDeleted, m, <<>>, uc) /\ c.state # "none"
<1>1. c.state \notin {"none", "RESOLVE", "CONNECT"} /\ SessionDeleted.state = "deleted"
  BY DEF Link, EndsAgree, NoSession, SessionDeleted
<1>2. EndsAgree(c, SessionDeleted, m, <<>>, uc)
  BY <1>1 DEF Link, EndsAgree
<1>3. ToServerRight(c, SessionDeleted, m, <<>>)
  BY <1>1, StatesApart DEF ToServerRight
<1>4. ToClientRight(c, SessionDeleted, m, uc)
  BY DEF Link, ToClientRight, RepliesFrom
<1>5. QED
  BY <1>1, <1>2, <1>3, <1>4 DEF Link

LEMMA CutLinks ==
  ASSUME NEW c, NEW s, NEW ts, NEW tc, Link(c, s, "up", ts, tc)
  PROVE  Link(c, s, "cut", ts, tc) /\ c.state # "none"
<1>1. c.state \in Connected
  BY DEF Link, EndsAgree
<1>2. c.state \notin {"none", "RESOLVE", "CONNECT"}
  BY <1>1, StatesApart
<1>3. EndsAgree(c, s, "cut", ts, tc)
  BY <1>2 DEF Link, EndsAgree
<1>4. ToServerRight(c, s, "cut", ts)
  BY DEF Link, ToServerRight
<1>5. ToClientRight(c, s, "cut", tc)
  BY DEF Link, ToClientRight
<1>6. QED
  BY <1>2, <1>3, <1>4, <1>5 DEF Link

LEMMA GoOnLinks ==
  ASSUME NEW c \in ClientType, NEW d \in ClientType, NEW s, NEW n, NEW ts \in Seq(SentType), NEW us,
         NEW tc \in Seq(ReplyType), NEW uc, Link(c, s, n, ts, tc),
         c.state \in DOMAIN ClientNext,
         d.state = ClientNext[c.state], d.pos = c.pos, d.size = c.size,
         c.state \in ClientReads => tc # <<>>,
         us = IF c.state \in DOMAIN ClientSends /\ n = "up"
              THEN ts \o <<Item(ClientSends[c.state],
                                IF ClientSends[c.state] = "cmpsize" THEN c.size ELSE 0)>>
              ELSE ts,
         uc = IF c.state \in ClientReads THEN Tail(tc) ELSE tc
  PROVE  Link(d, s, n, us, uc)
<1> DEFINE sends == c.state \in DOMAIN ClientSends
           item  == Item(ClientSends[c.state], IF ClientSends[c.state] = "cmpsize" THEN c.size ELSE 0)
<1>1. /\ c.state \in Connected /\ d.state \in Connected
      /\ c.pos \in Nat /\ c.size \in 0..MaxSize /\ c.size \in Nat /\ c.size > 0 /\ n # "none"
  BY NextStates, Tables, Bounds, TheStates DEF Link, EndsAgree, ClientType
<1>2. /\ HasSent[c.state] \in Nat /\ AcksRead[c.state] \in Nat
      /\ HasSent[d.state] = IF sends THEN HasSent[c.state] + 1 ELSE HasSent[c.state]
      /\ AcksRead[d.state] = IF c.state \in ClientReads THEN AcksRead[c.state] + 1
                                                        ELSE AcksRead[c.state]
  <2> DEFINE st == c.state
  <2>a. st \in Connected
    BY <1>1
  <2> HIDE DEF st
  <2>b. HasSent[st] \in Nat /\ AcksRead[st] \in 0..3
    BY <2>a, CountsAreNat
  <2>1. HasSent[c.state] \in Nat /\ AcksRead[c.state] \in Nat
    BY <2>b DEF st
  <2>2. HasSent[d.state] = IF sends THEN HasSent[c.state] + 1 ELSE HasSent[c.state]
    <3>1. CASE sends
      BY <3>1, ClientCounts
    <3>2. CASE ~sends
      BY <3>2, ClientCounts
    <3>3. QED
      BY <3>1, <3>2
  <2>3. AcksRead[d.state] = IF c.state \in ClientReads THEN AcksRead[c.state] + 1
                                                       ELSE AcksRead[c.state]
    BY ClientCounts
  <2>4. QED
    BY <2>1, <2>2, <2>3
<1>3. c.state # "LAST_CHUNK" => c.pos = 0
  BY <1>1, TheStates DEF Link, EndsAgree
<1>4. FileSent(d) = FileSent(c) /\ (c.state # "LAST_CHUNK" => FileSent(c) = 0)
  BY <1>1, <1>3 DEF FileSent
<1>5. c.state = "LAST_CHUNK" <=> d.state = "FILE_STATUS"
  BY TheStates DEF ClientNext
<1>6. d.state # "LAST_CHUNK"
  BY TheStates DEF ClientNext
<1>7. EndsAgree(d, s, n, us, uc)
  <2>1. d.state \notin {"none", "deleted", "RESOLVE", "CONNECT"}
    BY <1>1, StatesApart
  <2>2. d.state \notin {"CHUNK", "LAST_CHUNK", "FILE_STATUS"} => d.pos = 0
    BY <1>3, <1>5
  <2>3. d.state \in {"LAST_CHUNK", "FILE_STATUS"} => d.pos >= d.size
    BY <1>5, <1>6 DEF Link, EndsAgree
  <2>4. QED
    BY <1>1, <2>1, <2>2, <2>3 DEF Link, EndsAgree
<1>8. ToServerRight(d, s, n, us)
  <2> SUFFICES ASSUME s.state \in DOMAIN HasRead
               PROVE  /\ ItemsFrom(us, c.size, HasRead[s.state])
                      /\ n = "up" => HasRead[s.state] + Len(us) = SentBy(d)
                      /\ s.state = "CHUNK" => s.cmpsize = c.size
    BY DEF ToServerRight
  <2>1. /\ ItemsFrom(ts, c.size, HasRead[s.state])
        /\ n = "up" => HasRead[s.state] + Len(ts) = SentBy(c)
        /\ s.state = "CHUNK" => s.cmpsize = c.size
    BY DEF Link, ToServerRight
  <2>2. HasRead[s.state] \in Nat
    BY CountsAreNat
  <2>3. CASE sends /\ n = "up"
    <3>1. c.state # "LAST_CHUNK"
      BY <2>3, TheStates
    <3>2. SentBy(c) = HasSent[c.state] /\ SentBy(d) = HasSent[c.state] + 1
      BY <1>2, <1>4, <2>3, <3>1 DEF SentBy
    <3>3. Len(ts) \in Nat /\ HasRead[s.state] + Len(ts) = HasSent[c.state]
      BY <2>1, <2>3, <3>2, LenProperties
    <3>4. item = Sends(c.size, HasSent[c.state] + 1)
      BY <1>2, <2>3, ClientCounts DEF Sends
    <3>5. item \in SentType
      BY <1>1, <2>3, NextStates, Bounds DEF Item, SentType, Kinds
    <3> HIDE DEF item
    <3>6. <<item>> \in Seq(SentType) /\ Len(<<item>>) = 1 /\ <<item>>[1] = item
      BY <3>5
    <3>7. ItemsFrom(<<item>>, c.size, HasRead[s.state] + Len(ts))
      BY <3>3, <3>4, <3>6 DEF ItemsFrom
    <3>8. us = ts \o <<item>>
      BY <2>3 DEF item
    <3>9. ItemsFrom(us, c.size, HasRead[s.state]) /\ Len(us) = Len(ts) + 1
      <4> DEFINE more == <<item>>
                 k    == HasRead[s.state]
      <4>1. k \in Nat /\ ItemsFrom(ts, c.size, k)
        BY <2>1, <2>2
      <4>2. more \in Seq(SentType) /\ Len(more) = 1 /\ ItemsFrom(more, c.size, k + Len(ts))
        BY <3>6, <3>7
      <4> HIDE DEF more, k
      <4>3. ItemsFrom(ts \o more, c.size, k) /\ Len(ts \o more) = Len(ts) + Len(more)
        BY <4>1, <4>2, ItemsGrow
      <4>4. QED
        BY <3>8, <4>2, <4>3 DEF more, k
    <3>10. HasRead[s.state] + Len(us) = SentBy(d)
      <4> DEFINE k == HasRead[s.state]
                 h == HasSent[c.state]
      <4>1. /\ k \in Nat /\ h \in Nat /\ Len(ts) \in Nat /\ k + Len(ts) = h
            /\ Len(us) = Len(ts) + 1 /\ SentBy(d) = h + 1
        BY <1>2, <2>2, <3>2, <3>3, <3>9
      <4> HIDE DEF k, h
      <4>2. k + Len(us) = SentBy(d)
        BY <4>1
      <4>3. QED
        BY <4>2 DEF k
    <3>11. QED
      BY <2>1, <3>9, <3>10
  <2>4. CASE ~(sends /\ n = "up")
    <3>1. us = ts
      BY <2>4
    <3>2. n = "up" => SentBy(d) = SentBy(c)
      BY <1>2, <1>4, <2>4 DEF SentBy
    <3>3. QED
      BY <2>1, <3>1, <3>2
  <2>5. QED
    BY <2>3, <2>4
<1>9. ToClientRight(d, s, n, uc)
  <2>1. /\ RepliesFrom(tc, AcksRead[c.state])
        /\ n = "up" /\ s.state \in DOMAIN AcksSent => AcksRead[c.state] + Len(tc) = AcksSent[s.state]
    BY <1>1 DEF Link, ToClientRight
  <2>2. CASE c.state \in ClientReads
    <3>1. /\ RepliesFrom(Tail(tc), AcksRead[c.state] + 1) /\ Len(Tail(tc)) = Len(tc) - 1
          /\ Len(tc) \in Nat
      BY <1>2, <2>1, <2>2, ReplyRead, LenProperties
    <3>2. QED
      BY <1>2, <2>1, <2>2, <3>1 DEF ToClientRight
  <2>3. CASE c.state \notin ClientReads
    BY <1>2, <2>1, <2>3 DEF ToClientRight
  <2>4. QED
    BY <2>2, <2>3
<1>10. QED
  BY <1>7, <1>8, <1>9 DEF Link

LEMMA SendChunkLinks ==
  ASSUME NEW c \in ClientType, NEW d, NEW s, NEW n, NEW ts \in Seq(SentType), NEW us, NEW tc,
         Link(c, s, n, ts, tc), c.state = "CHUNK",
         d.pos = c.pos + ChunkLength, d.size = c.size,
         d.state = IF IsLastChunk(d.pos, c.size) THEN "LAST_CHUNK" ELSE "CHUNK",
         NEW piece \in Seq(SentType),
         \A i \in 1..Len(piece) : piece[i] = Item("byte", c.pos + i),
         Len(piece) = IF c.pos >= c.size THEN 0
                      ELSE IF c.size - c.pos > ChunkLength THEN ChunkLength
                      ELSE c.size - c.pos,
         us = IF n = "up" THEN ts \o piece ELSE ts
  PROVE  Link(d, s, n, us, tc)
<1>1. /\ c.pos \in Nat /\ c.size \in Nat /\ ChunkLength \in Nat \ {0} /\ c.size > 0 /\ n # "none"
      /\ c.state \in Connected /\ d.state \in Connected
  BY Bounds, Tables DEF Link, EndsAgree, ClientType
<1>2. FileSent(d) = FileSent(c) + Len(piece)
  BY <1>1 DEF FileSent
<1>3. HasSent[c.state] = 8 /\ HasSent[d.state] = 8 /\ AcksRead[d.state] = AcksRead[c.state]
  BY DEF HasSent, AcksRead
<1>4. EndsAgree(d, s, n, us, tc)
  <2>1. d.state = "LAST_CHUNK" => d.pos >= d.size
    BY DEF IsLastChunk
  <2>2. d.state \in {"CHUNK", "LAST_CHUNK"}
    OBVIOUS
  <2>3. QED
    BY <1>1, <2>1, <2>2 DEF Link, EndsAgree
<1>5. ToServerRight(d, s, n, us)
  <2> SUFFICES ASSUME s.state \in DOMAIN HasRead
               PROVE  /\ ItemsFrom(us, c.size, HasRead[s.state])
                      /\ n = "up" => HasRead[s.state] + Len(us) = SentBy(d)
                      /\ s.state = "CHUNK" => s.cmpsize = c.size
    BY DEF ToServerRight
  <2> DEFINE k == HasRead[s.state]
  <2>1. /\ ItemsFrom(ts, c.size, k) /\ k \in Nat
        /\ n = "up" => k + Len(ts) = SentBy(c)
        /\ s.state = "CHUNK" => s.cmpsize = c.size
    BY CountsAreNat DEF Link, ToServerRight
  <2> HIDE DEF k
  <2>2. CASE n = "up"
    <3>1. Len(ts) \in Nat /\ Len(piece) \in Nat /\ k + Len(ts) = 8 + FileSent(c)
      BY <1>3, <2>1, <2>2, LenProperties DEF SentBy
    <3>2. ASSUME NEW i \in 1..Len(piece)
          PROVE  piece[i] = Sends(c.size, (k + Len(ts)) + i)
      <4>1. c.pos < c.size
        BY <1>1, <3>1
      <4>2. (k + Len(ts)) + i = 8 + c.pos + i /\ i \in Nat /\ i >= 1
        BY <1>1, <3>1, <4>1 DEF FileSent
      <4>3. (k + Len(ts)) + i > 8 /\ ((k + Len(ts)) + i) - 8 = c.pos + i
        BY <1>1, <4>2
      <4>4. QED
        BY <4>3 DEF Sends
    <3>3. ItemsFrom(piece, c.size, k + Len(ts))
      BY <3>2 DEF ItemsFrom
    <3>4. ItemsFrom(us, c.size, k) /\ Len(us) = Len(ts) + Len(piece)
      BY <2>1, <2>2, <3>3, ItemsGrow
    <3>5. k + Len(us) = SentBy(d)
      <4>1. FileSent(c) \in Nat
        BY <1>1 DEF FileSent
      <4>2. SentBy(d) = 8 + (FileSent(c) + Len(piece))
        BY <1>2, <1>3 DEF SentBy
      <4> DEFINE f == FileSent(c)
                 m == Len(ts)
                 p == Len(piece)
      <4>3. k \in Nat /\ f \in Nat /\ m \in Nat /\ p \in Nat /\ k + m = 8 + f
        BY <2>1, <3>1, <4>1
      <4>4. Len(us) = m + p /\ SentBy(d) = 8 + (f + p)
        BY <3>4, <4>2
      <4> HIDE DEF f, m, p
      <4>5. k + (m + p) = 8 + (f + p)
        BY <4>3
      <4>6. QED
        BY <4>4, <4>5
    <3>6. QED
      BY <2>1, <3>4, <3>5 DEF k
  <2>3. CASE n # "up"
    BY <2>1, <2>3 DEF k
  <2>4. QED
    BY <2>2, <2>3
<1>6. ToClientRight(d, s, n, tc)
  BY <1>1, <1>3 DEF Link, ToClientRight
<1>7. QED
  BY <1>4, <1>5, <1>6 DEF Link

LEMMA SessionStepLinks ==
  ASSUME NEW c, NEW s, NEW r, NEW n, NEW ts \in Seq(SentType), NEW us,
         NEW tc \in Seq(ReplyType), NEW uc, Link(c, s, n, ts, tc),
         s.state \in DOMAIN SessionNext,
         s.state \in SessionReads => ts # <<>>,
         us = IF s.state \in SessionReads THEN Tail(ts) ELSE ts,
         \/ s.state \in JudgeStates /\ r.state = "DONE"
         \/ /\ r.state = SessionNext[s.state]
            /\ r.cmpsize = IF s.state = "RECV_CMPFSIZE" THEN Head(ts).at ELSE s.cmpsize,
         NEW word \in {0, 1},
         uc = IF s.state \in JudgeStates /\ n = "up" THEN Append(tc, Item("ack", word)) ELSE tc
  PROVE  Link(c, r, n, us, uc) /\ c.state # "none"
<1> DEFINE x == s.state
           k == HasRead[x]
<1>1. /\ x \in DOMAIN HasRead /\ x \in DOMAIN AcksSent /\ x \notin {"none", "deleted"}
      /\ k \in Nat
  BY Tables, TheStates, CountsAreNat
<1>2. r.state = "DONE" \/ (r.state = SessionNext[x] /\ SessionNext[x] \in DOMAIN HasRead)
  BY NextStates, Tables
<1>3. r.state \notin {"none", "deleted"}
  BY <1>2, StatesApart
<1>4. c.state \notin {"none", "RESOLVE", "CONNECT"}
  BY <1>1 DEF Link, EndsAgree, NoSession
<1>5. EndsAgree(c, r, n, us, uc)
  BY <1>1, <1>3, <1>4 DEF Link, EndsAgree
<1>6. ToServerRight(c, r, n, us)
  <2> SUFFICES ASSUME r.state \in DOMAIN HasRead
               PROVE  /\ ItemsFrom(us, c.size, HasRead[r.state])
                      /\ n = "up" => HasRead[r.state] + Len(us) = SentBy(c)
                      /\ r.state = "CHUNK" => r.cmpsize = c.size
    BY DEF ToServerRight
  <2>1. /\ r.state = SessionNext[x]
        /\ r.cmpsize = IF x = "RECV_CMPFSIZE" THEN Head(ts).at ELSE s.cmpsize
    BY StatesApart
  <2>2. /\ ItemsFrom(ts, c.size, k)
        /\ n = "up" => k + Len(ts) = SentBy(c)
    BY <1>1 DEF Link, ToServerRight
  <2>3. HasRead[r.state] = IF x \in SessionReads THEN k + 1 ELSE k
    BY <2>1, SessionCounts
  <2>4. x \in SessionReads => /\ ItemsFrom(Tail(ts), c.size, k + 1)
                              /\ Len(Tail(ts)) = Len(ts) - 1 /\ Len(ts) \in Nat
                              /\ Head(ts) = Sends(c.size, k + 1)
    <3> SUFFICES ASSUME x \in SessionReads
                 PROVE  /\ ItemsFrom(Tail(ts), c.size, k + 1)
                        /\ Len(Tail(ts)) = Len(ts) - 1 /\ Len(ts) \in Nat
                        /\ Head(ts) = Sends(c.size, k + 1)
      OBVIOUS
    <3> HIDE DEF k
    <3>1. ts # <<>> /\ k \in Nat
      BY <1>1
    <3>2. QED
      BY <2>2, <3>1, ItemRead, LenProperties
  <2>5. r.state = "CHUNK" => r.cmpsize = c.size
    <3>1. r.state = "CHUNK" => x = "RECV_CMPFSIZE"
      BY <2>1, SessionCounts
    <3>2. x = "RECV_CMPFSIZE" => k = 7 /\ x \in SessionReads
      BY TheStates DEF HasRead, SessionReads
    <3>3. Sends(c.size, 8).at = c.size
      BY DEF Sends, Item
    <3>4. QED
      BY <2>1, <2>4, <3>1, <3>2, <3>3
  <2> HIDE DEF k
  <2>6. CASE x \in SessionReads
    <3>1. ItemsFrom(us, c.size, HasRead[r.state])
      BY <2>3, <2>4, <2>6
    <3>2. n = "up" => HasRead[r.state] + Len(us) = SentBy(c)
      <4> DEFINE m == Len(ts)
      <4>1. m \in Nat /\ k \in Nat /\ Len(us) = m - 1 /\ HasRead[r.state] = k + 1
        BY <1>1, <2>3, <2>4, <2>6
      <4>2. n = "up" => k + m = SentBy(c)
        BY <2>2
      <4> HIDE DEF m
      <4>3. (k + 1) + (m - 1) = k + m
        BY <4>1
      <4>4. QED
        BY <4>1, <4>2, <4>3
    <3>3. QED
      BY <2>5, <3>1, <3>2
  <2>7. CASE x \notin SessionReads
    BY <1>1, <2>2, <2>3, <2>5, <2>7
  <2>8. QED
    BY <2>6, <2>7
<1>7. ToClientRight(c, r, n, uc)
  <2> SUFFICES ASSUME c.state \in Connected
               PROVE  /\ RepliesFrom(uc, AcksRead[c.state])
                      /\ n = "up" /\ r.state \in DOMAIN AcksSent
                           => AcksRead[c.state] + Len(uc) = AcksSent[r.state]
    BY DEF ToClientRight
  <2> DEFINE a == AcksRead[c.state]
  <2>a. a \in Nat
    BY AcksReadIsNat
  <2>b. Len(tc) \in Nat
    BY LenProperties
  <2>c. RepliesFrom(tc, a) /\ (n = "up" => a + Len(tc) = AcksSent[x])
    BY <1>1 DEF Link, ToClientRight
  <2>1. /\ RepliesFrom(tc, a) /\ a \in Nat /\ Len(tc) \in Nat
        /\ n = "up" => a + Len(tc) = AcksSent[x]
    BY <2>a, <2>b, <2>c
  <2>2. r.state \in DOMAIN AcksSent
          => AcksSent[r.state] = IF x \in JudgeStates THEN AcksSent[x] + 1 ELSE AcksSent[x]
    BY StatesApart, SessionCounts
  <2> HIDE DEF a
  <2>3. CASE x \in JudgeStates /\ n = "up"
    <3>1. AcksSent[x] < 3 /\ AcksSent[x] \in Nat
      BY <1>1, <2>3, SessionCounts, CountsAreNat
    <3>2. ReplyKind(a + Len(tc) + 1) = "ack"
      BY <2>1, <2>3, <3>1 DEF ReplyKind
    <3>3. Item("ack", word) \in ReplyType /\ Item("ack", word).what = "ack"
      BY DEF Item, ReplyType
    <3>4. RepliesFrom(uc, a) /\ Len(uc) = Len(tc) + 1
      BY <2>1, <2>3, <3>2, <3>3, ReplyComes
    <3>5. r.state \in DOMAIN AcksSent => a + Len(uc) = AcksSent[r.state]
      BY <2>1, <2>2, <2>3, <3>1, <3>4
    <3>6. QED
      BY <3>4, <3>5 DEF a
  <2>4. CASE ~(x \in JudgeStates /\ n = "up")
    BY <2>1, <2>2, <2>4 DEF a
  <2>5. QED
    BY <2>3, <2>4
<1>8. QED
  BY <1>4, <1>5, <1>6, <1>7 DEF Link

LEMMA StoreLinks ==
  ASSUME NEW c, NEW s, NEW r, NEW n, NEW ts, NEW us, NEW tc \in Seq(ReplyType), NEW uc,
         Link(c, s, n, ts, tc),
         s.state \in {"CHUNK", "OPENED", "WRITTEN"}, r.state \in {"DONE", "OPENED", "WRITTEN"},
         NEW word \in {0, 1},
         uc = IF r.state = "DONE" /\ n = "up" THEN Append(tc, Item("status", word)) ELSE tc
  PROVE  Link(c, r, n, us, uc) /\ c.state # "none"
<1>1. s.state \in DOMAIN AcksSent /\ AcksSent[s.state] = 3
  BY DEF AcksSent
<1>2. c.state \notin {"none", "RESOLVE", "CONNECT"}
  BY DEF Link, EndsAgree, NoSession
<1>3. EndsAgree(c, r, n, us, uc)
  BY <1>2 DEF Link, EndsAgree
<1>4. ToServerRight(c, r, n, us)
  BY StatesApart DEF ToServerRight
<1>5. ToClientRight(c, r, n, uc)
  <2> SUFFICES ASSUME c.state \in Connected
               PROVE  /\ RepliesFrom(uc, AcksRead[c.state])
                      /\ n = "up" /\ r.state \in DOMAIN AcksSent
                           => AcksRead[c.state] + Len(uc) = AcksSent[r.state]
    BY DEF ToClientRight
  <2> DEFINE a == AcksRead[c.state]
  <2>1. /\ RepliesFrom(tc, a) /\ a \in Nat /\ Len(tc) \in Nat
        /\ n = "up" => a + Len(tc) = 3
    BY <1>1, CountsAreNat, LenProperties DEF Link, ToClientRight
  <2>2. r.state \in DOMAIN AcksSent => r.state # "DONE" /\ AcksSent[r.state] = 3
    BY StatesApart DEF AcksSent
  <2> HIDE DEF a
  <2>3. CASE r.state = "DONE" /\ n = "up"
    <3>1. ReplyKind(a + Len(tc) + 1) = "status"
      BY <2>1, <2>3 DEF ReplyKind
    <3>2. Item("status", word) \in ReplyType /\ Item("status", word).what = "status"
      BY DEF Item, ReplyType
    <3>3. RepliesFrom(uc, a)
      BY <2>1, <2>3, <3>1, <3>2, ReplyComes
    <3>4. QED
      BY <2>2, <2>3, <3>3 DEF a
  <2>4. CASE ~(r.state = "DONE" /\ n = "up")
    BY <2>1, <2>2, <2>4 DEF a
  <2>5. QED
    BY <2>3, <2>4
<1>6. QED
  BY <1>2, <1>3, <1>4, <1>5 DEF Link

\* Transfers that have not been asked for have no client yet.
LinkInv ==
  /\ Linked
  /\ \A t \in Transfer : client[t].state = "none" <=> t >= nextTransfer

LinkNow(t) == Link(client[t], session[t], net[t], toServer[t], toClient[t])

LEMMA TypesOf ==
  ASSUME EndsTyped, NEW t \in Transfer
  PROVE  /\ client[t] \in ClientType /\ session[t] \in SessionType
         /\ net[t] \in {"none", "up", "cut", "closed", "reset"}
         /\ toServer[t] \in Seq(SentType) /\ toClient[t] \in Seq(ReplyType)
         /\ client \in [Transfer -> ClientType] /\ session \in [Transfer -> SessionType]
         /\ net \in [Transfer -> {"none", "up", "cut", "closed", "reset"}]
         /\ toServer \in [Transfer -> Seq(SentType)] /\ toClient \in [Transfer -> Seq(ReplyType)]
BY DEF EndsTyped

LEMMA BeginStepLinks ==
  ASSUME EndsTyped, NEW t \in Transfer, LinkNow(t), HandleResolve(t) \/ ConnectFails(t)
  PROVE  LinkNow(t)' /\ client[t].state # "none" /\ client'[t].state # "none"
<1>1. UNCHANGED <<session, net, toServer, toClient>> /\ client[t].state \in {"RESOLVE", "CONNECT"}
  BY DEF HandleResolve, ConnectFails
<1>2. \/ client'[t] = Deleted
      \/ /\ client'[t].state = "CONNECT" /\ client'[t].pos = client[t].pos
         /\ client'[t].size = client[t].size
  <2>1. client[t] \in ClientType
    BY TypesOf
  <2>2. CASE HandleResolve(t)
    <3>1. client' = [client EXCEPT ![t] = Deleted]
            \/ \E m \in 1..MaxEndpoints :
                 client' = [client EXCEPT ![t] =
                              [client[t] EXCEPT !.state = "CONNECT", !.endpoints = m]]
      BY <2>2 DEF HandleResolve
    <3>2. CASE client' = [client EXCEPT ![t] = Deleted]
      BY <3>2 DEF EndsTyped
    <3>3. ASSUME NEW m \in 1..MaxEndpoints,
                 client' = [client EXCEPT ![t] =
                              [client[t] EXCEPT !.state = "CONNECT", !.endpoints = m]]
          PROVE  /\ client'[t].state = "CONNECT" /\ client'[t].pos = client[t].pos
                 /\ client'[t].size = client[t].size
      <4>1. client'[t] = [client[t] EXCEPT !.state = "CONNECT", !.endpoints = m]
        BY <3>3 DEF EndsTyped
      <4>2. QED
        BY <2>1, <4>1 DEF ClientType
    <3>4. QED
      BY <3>1, <3>2, <3>3
  <2>3. CASE ConnectFails(t)
    <3>1. \/ client' = [client EXCEPT ![t] = Deleted]
          \/ client' = [client EXCEPT ![t] =
                          [client[t] EXCEPT !.endpoints = client[t].endpoints - 1]]
      <4>1. client' = [client EXCEPT ![t] =
                         IF client[t].endpoints > 1
                         THEN [client[t] EXCEPT !.endpoints = client[t].endpoints - 1]
                         ELSE Deleted]
        BY <2>3 DEF ConnectFails
      <4>2. QED
        BY <4>1
    <3>2. client[t].state = "CONNECT"
      BY <2>3 DEF ConnectFails
    <3>3. QED
      BY <2>1, <3>1, <3>2 DEF EndsTyped, ClientType
  <2>4. QED
    BY <2>2, <2>3
<1>3. Link(client'[t], session[t], net[t], toServer[t], toClient[t]) /\ client'[t].state # "none"
  BY <1>1, <1>2, BeginLinks DEF LinkNow
<1>4. QED
  BY <1>1, <1>3 DEF LinkNow

LEMMA ConnectStepLinks ==
  ASSUME EndsTyped, NEW t \in Transfer, LinkNow(t), Connect(t)
  PROVE  LinkNow(t)' /\ client[t].state # "none" /\ client'[t].state # "none"
<1>1. /\ client[t] \in ClientType /\ client[t].state = "CONNECT"
      /\ client'[t] = [client[t] EXCEPT !.state = "SEND_CMD"]
      /\ session'[t] = [session[t] EXCEPT !.state = "RECV_CMD"]
      /\ net'[t] = "up" /\ toServer'[t] = <<Item("command", 0)>> /\ toClient'[t] = toClient[t]
      /\ session[t] \in SessionType
  BY DEF Connect, EndsTyped
<1>2. /\ client'[t].state = "SEND_CMD" /\ client'[t].pos = client[t].pos
      /\ client'[t].size = client[t].size /\ session'[t].state = "RECV_CMD"
  BY <1>1 DEF ClientType, SessionType
<1>3. Link(client'[t], session'[t], "up", <<Item("command", 0)>>, toClient[t])
  BY <1>1, <1>2, ConnectLinks DEF LinkNow
<1>4. QED
  BY <1>1, <1>2, <1>3 DEF LinkNow

\* A client that goes.
LEMMA ClientEndsLinks ==
  ASSUME EndsTyped, NEW t \in Transfer, LinkNow(t), NEW how \in {"closed", "reset"},
         ClientEnds(t, how), client[t].state \in Connected, session' = session,
         toServer'[t] \in {toServer[t], <<>>}
  PROVE  LinkNow(t)' /\ client[t].state # "none" /\ client'[t].state = "deleted"
<1>1. /\ client[t] \in ClientType
      /\ client'[t] = IF HasSession(t) THEN [Deleted EXCEPT !.size = client[t].size] ELSE Deleted
      /\ net'[t] \in {"cut", "closed", "reset"} /\ toClient'[t] = <<>>
  BY DEF ClientEnds, Close, EndsTyped
<1>2. client'[t].state = "deleted" /\ client'[t].pos = 0
  BY <1>1 DEF Deleted, NoClient
<1>3. session[t].state \in DOMAIN HasRead => client'[t].size = client[t].size
  BY <1>1, StatesApart DEF HasSession, Deleted, NoClient
<1>4. Link(client'[t], session[t], net'[t], toServer'[t], <<>>)
  BY <1>1, <1>2, <1>3, ClientGoneLinks, ZenonT(60) DEF LinkNow
<1>5. client[t].state # "none"
  BY StatesApart
<1>6. QED
  BY <1>1, <1>2, <1>4, <1>5 DEF LinkNow

LEMMA GoOnStepLinks ==
  ASSUME EndsTyped, NEW t \in Transfer, LinkNow(t), GoOn(t), ClientReady(t), session' = session,
         EndsTyped'
  PROVE  LinkNow(t)' /\ client[t].state # "none" /\ client'[t].state # "none"
<1> DEFINE x == client[t].state
           item == Item(ClientSends[x], IF ClientSends[x] = "cmpsize" THEN client[t].size ELSE 0)
<1>1. /\ x \in DOMAIN ClientNext /\ net' = net /\ ClientNext[x] \in Connected
      /\ client'[t] = [client[t] EXCEPT !.state = ClientNext[x]]
  BY NextStates DEF GoOn, EndsTyped
<1>2. /\ client'[t].state = ClientNext[x] /\ client'[t].pos = client[t].pos
      /\ client'[t].size = client[t].size
  BY <1>1, TypesOf DEF ClientType
<1>3. toClient'[t] = IF x \in ClientReads THEN Tail(toClient[t]) ELSE toClient[t]
  BY DEF GoOn, EndsTyped
<1>4. toServer'[t] = IF x \in DOMAIN ClientSends /\ net[t] = "up" THEN toServer[t] \o <<item>>
                                                                 ELSE toServer[t]
  <2>1. CASE x \in DOMAIN ClientSends
    <3>1. ClientWrites(t, <<item>>)
      BY <2>1 DEF GoOn
    <3>2. QED
      BY <2>1, <3>1 DEF ClientWrites, EndsTyped
  <2>2. CASE x \notin DOMAIN ClientSends
    BY <2>2 DEF GoOn
  <2>3. QED
    BY <2>1, <2>2
<1>5. x \in ClientReads => toClient[t] # <<>>
  BY DEF ClientReady
<1>6. client'[t] \in ClientType
  BY DEF EndsTyped
<1>7. Link(client'[t], session[t], net[t], toServer'[t], toClient'[t])
  BY <1>1, <1>2, <1>3, <1>4, <1>5, <1>6, TypesOf, GoOnLinks DEF LinkNow
<1>8. x \in Connected
  BY <1>1, TheStates, Tables
<1>9. QED
  BY <1>1, <1>2, <1>7, <1>8, StatesApart DEF LinkNow

LEMMA SendChunkStepLinks ==
  ASSUME EndsTyped, NEW t \in Transfer, LinkNow(t), SendChunk(t), session' = session
  PROVE  LinkNow(t)' /\ client[t].state # "none" /\ client'[t].state # "none"
<1> DEFINE from == client[t].pos
           next == IF IsLastChunk(from + ChunkLength, client[t].size) THEN "LAST_CHUNK" ELSE "CHUNK"
<1>1. client[t].state = "CHUNK" /\ UNCHANGED <<net, toClient>>
  BY DEF SendChunk
<1>2. client' = [client EXCEPT ![t] = [client[t] EXCEPT !.pos = from + ChunkLength, !.state = next]]
  BY DEF SendChunk
<1> HIDE DEF next, from
<1>3. /\ client'[t].pos = from + ChunkLength /\ client'[t].state = next
      /\ client'[t].size = client[t].size
  BY <1>2, TypesOf DEF ClientType
<1>4. toServer'[t] = IF net[t] = "up" THEN toServer[t] \o Piece(t) ELSE toServer[t]
  BY DEF SendChunk, Piece, ClientWrites, EndsTyped
<1>5. /\ Piece(t) \in Seq(SentType)
      /\ \A i \in 1..Len(Piece(t)) : Piece(t)[i] = Item("byte", client[t].pos + i)
      /\ Len(Piece(t)) = IF client[t].pos >= client[t].size THEN 0
                         ELSE IF client[t].size - client[t].pos > ChunkLength THEN ChunkLength
                         ELSE client[t].size - client[t].pos
  BY PieceOfFile
<1>6. Link(client'[t], session[t], net[t], toServer'[t], toClient[t])
  <2>1. client'[t].state = IF IsLastChunk(client'[t].pos, client[t].size) THEN "LAST_CHUNK" ELSE "CHUNK"
    BY <1>3 DEF next
  <2>2. client'[t].pos = client[t].pos + ChunkLength
    BY <1>3 DEF from
  <2>3. Link(client[t], session[t], net[t], toServer[t], toClient[t])
    BY DEF LinkNow
  <2>4. client[t] \in ClientType /\ toServer[t] \in Seq(SentType)
    BY TypesOf
  <2>5. client'[t].size = client[t].size
    BY <1>3
  <2>6. PICK piece \in Seq(SentType) : piece = Piece(t)
    BY <1>5
  <2>7. QED
    BY <1>1, <1>4, <1>5, <2>1, <2>2, <2>3, <2>4, <2>5, <2>6, SendChunkLinks
<1>7. QED
  BY <1>1, <1>3, <1>6 DEF LinkNow, next

LEMMA ClientStepLinks ==
  ASSUME EndsTyped, EndsTyped', NEW t \in Transfer, LinkNow(t),
         ClientHandleState(t) \/ ClientFails(t) \/ ClientTimesOut(t)
  PROVE  LinkNow(t)' /\ client[t].state # "none" /\ client'[t].state # "none"
<1>1. session' = session /\ client[t].state \in Connected
  BY DEF ClientHandleState, ClientReady, ClientFails, ClientTimesOut, ClientTimer
<1>2. CASE ClientFails(t) \/ ClientTimesOut(t)
  <2>1. ClientEnds(t, "reset")
    BY <1>2 DEF ClientFails, ClientTimesOut
  <2>2. toServer'[t] \in {toServer[t], <<>>}
    BY <1>2 DEF ClientFails, ClientTimesOut, EndsTyped
  <2>3. QED
    BY <1>1, <2>1, <2>2, ClientEndsLinks
<1>3. CASE ClientHandleState(t)
  <2>1. CASE \E o \in {OK, ERROR} : Finish(t, o)
    <3>1. ClientEnds(t, "closed") /\ toServer' = toServer
      BY <2>1 DEF Finish
    <3>2. QED
      BY <1>1, <3>1, ClientEndsLinks
  <2>2. CASE SendChunk(t)
    BY <1>1, <2>2, SendChunkStepLinks
  <2>3. CASE GoOn(t)
    BY <1>1, <1>3, <2>3, GoOnStepLinks DEF ClientHandleState
  <2>4. QED
    BY <1>3, <2>1, <2>2, <2>3 DEF ClientHandleState
<1>4. QED
  BY <1>2, <1>3

LEMMA SessionStepStepLinks ==
  ASSUME EndsTyped, EndsTyped', NEW t \in Transfer, LinkNow(t), SessionStep(t)
  PROVE  LinkNow(t)' /\ client[t].state # "none" /\ client'[t].state # "none"
<1> DEFINE x == session[t].state
<1>1. /\ x \in DOMAIN SessionNext /\ UNCHANGED <<client, net>>
      /\ x \in SessionReads => toServer[t] # <<>>
  BY DEF SessionStep, SessionReady, OperationOver
<1>2. toServer'[t] = IF x \in SessionReads THEN Tail(toServer[t]) ELSE toServer[t]
  BY DEF SessionStep, EndsTyped
<1>3. CASE x \in JudgeStates /\ Reply(t, "ack", NACK) /\ session' = [session EXCEPT ![t].state = "DONE"]
  <2>1. session'[t].state = "DONE"
    BY <1>3, TypesOf DEF SessionType
  <2>2. PICK word \in {0, 1} :
          toClient'[t] = IF x \in JudgeStates /\ net[t] = "up"
                         THEN Append(toClient[t], Item("ack", word)) ELSE toClient[t]
    BY <1>3, ReplyTyped DEF NACK
  <2>3. Link(client[t], session'[t], net[t], toServer'[t], toClient'[t]) /\ client[t].state # "none"
    <3>1. LinkNow(t) /\ toServer[t] \in Seq(SentType) /\ toClient[t] \in Seq(ReplyType)
      BY TypesOf
    <3>2. Link(client[t], session[t], net[t], toServer[t], toClient[t])
      BY <3>1 DEF LinkNow
    <3>3. x \in JudgeStates /\ session'[t].state = "DONE"
      BY <1>3, <2>1
    <3>4. QED
      BY <1>1, <1>2, <2>2, <3>1, <3>2, <3>3, SessionStepLinks, ZenonT(60)
  <2>4. QED
    BY <1>1, <2>3 DEF LinkNow
<1>4. CASE /\ IF x \in JudgeStates THEN Reply(t, "ack", ACK) ELSE UNCHANGED toClient
           /\ session' = [session EXCEPT ![t] =
                            [session[t] EXCEPT
                               !.state = SessionNext[x],
                               !.cmpsize = IF x = "RECV_CMPFSIZE" THEN Head(toServer[t]).at
                                           ELSE session[t].cmpsize]]
  <2>1. /\ session'[t].state = SessionNext[x]
        /\ session'[t].cmpsize = IF x = "RECV_CMPFSIZE" THEN Head(toServer[t]).at
                                 ELSE session[t].cmpsize
    BY <1>4, TypesOf DEF SessionType
  <2>2. PICK word \in {0, 1} :
          toClient'[t] = IF x \in JudgeStates /\ net[t] = "up"
                         THEN Append(toClient[t], Item("ack", word)) ELSE toClient[t]
    BY <1>4, ReplyTyped DEF ACK
  <2>3. Link(client[t], session'[t], net[t], toServer'[t], toClient'[t]) /\ client[t].state # "none"
    <3>1. LinkNow(t) /\ toServer[t] \in Seq(SentType) /\ toClient[t] \in Seq(ReplyType)
      BY TypesOf
    <3>2. Link(client[t], session[t], net[t], toServer[t], toClient[t])
      BY <3>1 DEF LinkNow
    <3>3. QED
      BY <1>1, <1>2, <2>1, <2>2, <3>1, <3>2, SessionStepLinks, ZenonT(60)
  <2>4. QED
    BY <1>1, <2>3 DEF LinkNow
<1>5. QED
  BY <1>3, <1>4 DEF SessionStep

LEMMA StoreStepLinks ==
  ASSUME EndsTyped, NEW t \in Transfer, LinkNow(t), BeginStore(t) \/ WriteFile(t) \/ SyncFile(t)
  PROVE  LinkNow(t)' /\ client[t].state # "none" /\ client'[t].state # "none"
<1>1. UNCHANGED <<client, net>> /\ session[t].state \in {"CHUNK", "OPENED", "WRITTEN"}
  BY DEF BeginStore, WriteFile, SyncFile
<1>2. \/ \E word \in {0, 1} : Answer(t, word)
      \/ /\ toClient' = toClient
         /\ \E x \in {"OPENED", "WRITTEN"} : session' = [session EXCEPT ![t].state = x]
  BY DEF BeginStore, WriteFile, SyncFile
<1>3. PICK word \in {0, 1} :
        /\ session'[t].state \in {"DONE", "OPENED", "WRITTEN"}
        /\ toClient'[t] = IF session'[t].state = "DONE" /\ net[t] = "up"
                          THEN Append(toClient[t], Item("status", word)) ELSE toClient[t]
  <2>1. CASE \E word \in {0, 1} : Answer(t, word)
    <3>1. PICK word \in {0, 1} : Answer(t, word)
      BY <2>1
    <3>2. session'[t].state = "DONE"
      BY <3>1, TypesOf DEF Answer, SessionType
    <3>3. toClient'[t] = IF net[t] = "up" THEN Append(toClient[t], Item("status", word))
                                          ELSE toClient[t]
      BY <3>1, ReplyTyped DEF Answer
    <3>4. QED
      BY <3>2, <3>3
  <2>2. CASE /\ toClient' = toClient
             /\ \E x \in {"OPENED", "WRITTEN"} : session' = [session EXCEPT ![t].state = x]
    <3>1. session'[t].state \in {"OPENED", "WRITTEN"}
      BY <2>2, TypesOf DEF SessionType
    <3>2. QED
      BY <2>2, <3>1
  <2>3. QED
    BY <1>2, <2>1, <2>2
<1>4. Link(client[t], session'[t], net[t], toServer'[t], toClient'[t]) /\ client[t].state # "none"
  BY <1>1, <1>3, TypesOf, StoreLinks DEF LinkNow
<1>5. QED
  BY <1>1, <1>4 DEF LinkNow

LEMMA SessionGoneStepLinks ==
  ASSUME EndsTyped, NEW t \in Transfer, LinkNow(t),
         SessionDone(t) \/ SessionFails(t) \/ SessionTimesOut(t)
  PROVE  LinkNow(t)' /\ client[t].state # "none" /\ client'[t].state # "none"
<1>1. client' = client /\ session[t].state # "none"
  BY DEF SessionDone, SessionFails, SessionTimesOut, HasSession
<1>2. PICK how \in {"closed", "reset"} : SessionEnds(t, how)
  BY DEF SessionDone, SessionFails, SessionTimesOut
<1>3. /\ session'[t] = SessionDeleted /\ net'[t] \in {"cut", "closed", "reset"}
      /\ toServer'[t] = <<>>
  BY <1>2 DEF SessionEnds, Close, EndsTyped
<1>4. toClient'[t] \in {toClient[t], <<>>}
  BY DEF SessionDone, SessionFails, SessionTimesOut, EndsTyped
<1>5. Link(client[t], SessionDeleted, net'[t], <<>>, toClient'[t]) /\ client[t].state # "none"
  BY <1>1, <1>3, <1>4, SessionGoneLinks DEF LinkNow
<1>6. QED
  BY <1>1, <1>3, <1>5 DEF LinkNow

LEMMA CutStepLinks ==
  ASSUME EndsTyped, NEW t \in Transfer, LinkNow(t), Cut(t)
  PROVE  LinkNow(t)' /\ client[t].state # "none" /\ client'[t].state # "none"
<1>1. /\ UNCHANGED <<client, session, toServer, toClient>> /\ net[t] = "up" /\ net'[t] = "cut"
  BY DEF Cut, EndsTyped
<1>2. QED
  BY <1>1, CutLinks DEF LinkNow

LEMMA StepLinks ==
  ASSUME EndsTyped, EndsTyped', NEW t \in Transfer, LinkNow(t), StepOf(t)
  PROVE  LinkNow(t)' /\ client[t].state # "none" /\ client'[t].state # "none"
<1>1. CASE HandleResolve(t) \/ ConnectFails(t)
  BY <1>1, BeginStepLinks
<1>2. CASE Connect(t)
  BY <1>2, ConnectStepLinks
<1>3. CASE ClientHandleState(t) \/ ClientFails(t) \/ ClientTimesOut(t)
  BY <1>3, ClientStepLinks
<1>4. CASE SessionStep(t)
  BY <1>4, SessionStepStepLinks
<1>5. CASE BeginStore(t) \/ WriteFile(t) \/ SyncFile(t)
  BY <1>5, StoreStepLinks
<1>6. CASE SessionDone(t) \/ SessionFails(t) \/ SessionTimesOut(t)
  BY <1>6, SessionGoneStepLinks
<1>7. CASE Cut(t)
  BY <1>7, CutStepLinks
<1>8. QED
  BY <1>1, <1>2, <1>3, <1>4, <1>5, <1>6, <1>7 DEF StepOf

LEMMA LinkInit == Init => LinkInv
<1> SUFFICES ASSUME Init PROVE LinkInv
  OBVIOUS
<1>1. nextTransfer = 1 /\ \A t \in Transfer : client[t].state = "none" /\ t >= 1
  BY Bounds DEF Init, NoClient, Transfer
<1>2. ASSUME NEW t \in Transfer
      PROVE  Link(client[t], session[t], net[t], toServer[t], toClient[t])
  <2>1. /\ client[t] = NoClient /\ session[t] = NoSession /\ net[t] = "none"
        /\ toServer[t] = <<>> /\ toClient[t] = <<>>
    BY DEF Init
  <2>2. EndsAgree(NoClient, NoSession, "none", <<>>, <<>>)
    BY StatesApart DEF EndsAgree, NoClient
  <2>3. ToServerRight(NoClient, NoSession, "none", <<>>)
    BY StatesApart DEF ToServerRight, NoSession
  <2>4. ToClientRight(NoClient, NoSession, "none", <<>>)
    BY StatesApart DEF ToClientRight, NoClient
  <2>5. QED
    BY <2>1, <2>2, <2>3, <2>4 DEF Link
<1>3. QED
  BY <1>1, <1>2 DEF LinkInv, Linked

LEMMA SendKeepsLinks ==
  ASSUME TypeInv, LinkInv, NEW s \in Slot, NEW size \in 1..MaxSize, Send(s, size)
  PROVE  LinkInv'
<1> DEFINE n == nextTransfer
<1>1. EndsTyped /\ n \in Transfer /\ n' = n + 1 /\ n \in Nat
  BY SlotsAre, Bounds DEF TypeInv, TypeOK, Send, Transfer
<1>2. /\ \/ client' = [client EXCEPT ![n] = Deleted]
         \/ client' = [client EXCEPT ![n] =
                         [state |-> "RESOLVE", pos |-> 0, size |-> size, endpoints |-> 0]]
      /\ UNCHANGED <<session, net, toServer, toClient>>
  BY DEF Send
<1>3. OnlyOf(n)
  BY <1>1, SendTyped
<1>4. client[n].state = "none"
  BY <1>1 DEF LinkInv
<1>5. session[n] = NoSession /\ net[n] = "none" /\ toServer[n] = <<>> /\ toClient[n] = <<>>
  BY <1>1, <1>4 DEF LinkInv, Linked, Link, EndsAgree
<1>6. /\ client'[n].state \in {"deleted", "RESOLVE"} /\ client'[n].pos = 0
      /\ client'[n].state = "RESOLVE" => client'[n].size > 0
  <2>1. CASE client' = [client EXCEPT ![n] = Deleted]
    BY <1>1, <2>1 DEF EndsTyped, Deleted, NoClient
  <2>2. CASE client' = [client EXCEPT ![n] =
                          [state |-> "RESOLVE", pos |-> 0, size |-> size, endpoints |-> 0]]
    BY <1>1, <2>2, Bounds DEF EndsTyped
  <2>3. QED
    BY <1>2, <2>1, <2>2
<1>7. Link(client'[n], NoSession, "none", <<>>, <<>>)
  <2>1. EndsAgree(client'[n], NoSession, "none", <<>>, <<>>)
    BY <1>6, StatesApart DEF EndsAgree
  <2>2. ToServerRight(client'[n], NoSession, "none", <<>>)
    BY StatesApart DEF ToServerRight, NoSession
  <2>3. ToClientRight(client'[n], NoSession, "none", <<>>)
    BY <1>6, StatesApart DEF ToClientRight
  <2>4. QED
    BY <2>1, <2>2, <2>3 DEF Link
<1>8. ASSUME NEW r \in Transfer
      PROVE  /\ Link(client'[r], session'[r], net'[r], toServer'[r], toClient'[r])
             /\ client'[r].state = "none" <=> r >= n + 1
  <2>1. CASE r = n
    BY <1>1, <1>2, <1>5, <1>6, <1>7, <2>1
  <2>2. CASE r # n
    <3>1. r \in Nat /\ (r >= n + 1 <=> r >= n)
      BY <1>1, <2>2 DEF Transfer
    <3>2. QED
      BY <1>2, <1>3, <2>2, <3>1 DEF LinkInv, Linked, OnlyOf
  <2>3. QED
    BY <2>1, <2>2
<1>9. QED
  BY <1>1, <1>8 DEF LinkInv, Linked

LEMMA CrashKeepsLinks ==
  ASSUME TypeInv, LinkInv, Crash
  PROVE  LinkInv'
<1>1. EndsTyped /\ UNCHANGED <<client, nextTransfer>>
  BY DEF TypeInv, TypeOK, Crash, slots
<1>2. ASSUME NEW t \in Transfer
      PROVE  Link(client[t], session'[t], net'[t], toServer'[t], toClient'[t])
  <2>1. /\ session'[t] = IF HasSession(t) THEN SessionDeleted ELSE session[t]
        /\ net'[t] = IF net[t] \in {"none", "cut"} THEN net[t] ELSE "reset"
        /\ toServer'[t] = <<>> /\ toClient'[t] = <<>>
    BY <1>2 DEF Crash
  <2>2. Link(client[t], session[t], net[t], toServer[t], toClient[t])
    BY DEF LinkInv, Linked
  <2>3. session'[t].state \in {"none", "deleted"} /\ net'[t] # "up"
    BY <2>1, TypesOf, <1>1 DEF HasSession, SessionDeleted, NoSession
  <2>4. EndsAgree(client[t], session'[t], net'[t], toServer'[t], toClient'[t])
    BY <2>1, <2>2, <2>3 DEF Link, EndsAgree, NoSession, HasSession
  <2>5. ToServerRight(client[t], session'[t], net'[t], toServer'[t])
    BY <2>3, StatesApart DEF ToServerRight
  <2>6. ToClientRight(client[t], session'[t], net'[t], toClient'[t])
    BY <2>1, <2>3 DEF ToClientRight, RepliesFrom
  <2>7. QED
    BY <2>4, <2>5, <2>6 DEF Link
<1>3. QED
  BY <1>1, <1>2 DEF LinkInv, Linked

LEMMA LinkInductive == TypeInv /\ TypeInv' /\ LinkInv /\ [Next]_vars => LinkInv'
<1> SUFFICES ASSUME TypeInv, TypeInv', LinkInv, [Next]_vars PROVE LinkInv'
  OBVIOUS
<1>1. EndsTyped /\ EndsTyped'
  BY DEF TypeInv, TypeOK
<1>2. ASSUME NEW t \in Transfer, StepOf(t) PROVE LinkInv'
  <2>1. LinkNow(t)
    BY DEF LinkInv, Linked, LinkNow
  <2>2. LinkNow(t)' /\ client[t].state # "none" /\ client'[t].state # "none"
    BY <1>1, <1>2, <2>1, StepLinks
  <2>3. OnlyOf(t)
    BY <1>1, <1>2, StepTyped
  <2>4. nextTransfer' = nextTransfer
    <3>1. UNCHANGED slots \/ \E o \in {OK, ERROR} : Finish(t, o)
      BY <1>2, StepOfSlots
    <3>2. QED
      BY <3>1 DEF slots, Finish
  <2>5. ASSUME NEW r \in Transfer
        PROVE  /\ Link(client'[r], session'[r], net'[r], toServer'[r], toClient'[r])
               /\ client'[r].state = "none" <=> r >= nextTransfer
    <3>1. CASE r = t
      BY <2>2, <3>1 DEF LinkInv, LinkNow
    <3>2. CASE r # t
      BY <2>3, <3>2 DEF LinkInv, Linked, OnlyOf
    <3>3. QED
      BY <3>1, <3>2
  <2>6. QED
    BY <2>4, <2>5 DEF LinkInv, Linked
<1>3. CASE AnswerStatus \/ Restart \/ UNCHANGED vars \/ \E s \in Slot : ReadStatus(s)
  <2>1. /\ UNCHANGED <<client, session, net, toServer, toClient>> /\ nextTransfer' = nextTransfer
    BY <1>3 DEF AnswerStatus, Restart, vars, ReadStatus, slots
  <2>2. QED
    BY <2>1 DEF LinkInv, Linked
<1>4. ASSUME NEW s \in Slot, NEW size \in 1..MaxSize, Send(s, size) PROVE LinkInv'
  BY <1>4, SendKeepsLinks
<1>5. CASE Crash
  BY <1>5, CrashKeepsLinks
<1>6. QED
  BY <1>2, <1>3, <1>4, <1>5, NextIs

LEMMA LinksAlways == Spec => []LinkInv
BY TypesAlways, LinkInit, LinkInductive, PTL DEF Spec

\* Client and session read every item as what the other sent it for, although nothing
\* on the connection says what it is: neither gets ahead of the other, whatever is
\* refused, times out or is cut off.
THEOREM ItemsAreWhatTheyAreTakenFor == Spec => []Aligned
<1>1. TypeInv /\ LinkInv => Aligned
  <2> SUFFICES ASSUME TypeInv, LinkInv, NEW t \in Transfer
               PROVE  /\ session[t].state \in DOMAIN SessionExpects /\ toServer[t] # <<>>
                           => Head(toServer[t]).what = SessionExpects[session[t].state]
                      /\ client[t].state \in ClientReads /\ toClient[t] # <<>>
                           => Head(toClient[t]).what =
                                IF client[t].state = "FILE_STATUS" THEN "status" ELSE "ack"
    BY DEF Aligned
  <2>1. EndsTyped
    BY DEF TypeInv, TypeOK
  <2>2. /\ ToServerRight(client[t], session[t], net[t], toServer[t])
        /\ ToClientRight(client[t], session[t], net[t], toClient[t])
    BY DEF LinkInv, Linked, Link
  <2>3. ASSUME session[t].state \in DOMAIN SessionExpects, toServer[t] # <<>>
        PROVE  Head(toServer[t]).what = SessionExpects[session[t].state]
    <3> DEFINE x == session[t].state
    <3>1. x \in DOMAIN HasRead /\ HasRead[x] \in Nat
      BY <2>3, CountsAreNat DEF SessionExpects, HasRead
    <3>2. Head(toServer[t]) = Sends(client[t].size, HasRead[x] + 1)
      BY <2>1, <2>2, <2>3, <3>1, TypesOf, ItemRead DEF ToServerRight
    <3>3. \A size : Sends(size, HasRead[x] + 1).what = SessionExpects[x]
      BY <2>3 DEF SessionExpects, HasRead, Sends, Script, Item
    <3>4. QED
      BY <3>2, <3>3
  <2>4. ASSUME client[t].state \in ClientReads, toClient[t] # <<>>
        PROVE  Head(toClient[t]).what = IF client[t].state = "FILE_STATUS" THEN "status" ELSE "ack"
    <3> DEFINE x == client[t].state
    <3>1. x \in Connected /\ AcksRead[x] \in Nat
      BY <2>4, Tables, AcksReadIsNat
    <3>2. Head(toClient[t]).what = ReplyKind(AcksRead[x] + 1)
      BY <2>1, <2>2, <2>4, <3>1, TypesOf, ReplyRead DEF ToClientRight
    <3>3. ReplyKind(AcksRead[x] + 1) = IF x = "FILE_STATUS" THEN "status" ELSE "ack"
      BY <2>4, Tables DEF ReplyKind, AcksRead
    <3>4. QED
      BY <3>2, <3>3
  <2>5. QED
    BY <2>3, <2>4
<1>2. QED
  BY <1>1, TypesAlways, LinksAlways, PTL

\* What a session has read when it takes a file for complete is the whole file that was
\* sent, and nothing else: no piece is lost, repeated or taken for another.
THEOREM FilesArriveWhole ==
  Spec => [](\A t \in Transfer : session[t].state = "CHUNK" /\ OperationOver(t) => IsWhole(t))
<1>1. ASSUME TypeInv, LinkInv, NEW t \in Transfer, session[t].state = "CHUNK", OperationOver(t)
      PROVE  IsWhole(t)
  <2> DEFINE ts == toServer[t]
             size == client[t].size
  <2>1. ts \in Seq(SentType) /\ size \in Nat /\ size \in 0..MaxSize
    BY <1>1, TypesOf, Bounds DEF TypeInv, TypeOK, ClientType
  <2>2. ItemsFrom(ts, size, 8) /\ session[t].cmpsize = size
    BY <1>1 DEF LinkInv, Linked, Link, ToServerRight, HasRead
  <2>3. Len(ts) \in Nat /\ size <= Len(ts)
    BY <1>1, <2>1, <2>2, LenProperties DEF OperationOver
  <2> DEFINE file == [i \in 1..size |-> Item("byte", i)]
  <2> HIDE DEF ts, size
  <2>4. /\ SubSeq(ts, 1, size) \in Seq(SentType) /\ Len(SubSeq(ts, 1, size)) = size
        /\ \A i \in 1..size : SubSeq(ts, 1, size)[i] = ts[i]
    BY <2>1, <2>3, PrefixOf
  <2>5. \A i \in 1..size : ts[i] = Item("byte", i)
    <3>1. ASSUME NEW i \in 1..size PROVE ts[i] = Item("byte", i)
      <4>1. ts[i] = Sends(size, 8 + i)
        BY <2>1, <2>2, <2>3 DEF ItemsFrom
      <4>2. 8 + i > 8 /\ (8 + i) - 8 = i
        BY <2>1
      <4>3. QED
        BY <4>1, <4>2 DEF Sends
    <3>2. QED
      BY <3>1
  <2>6. file \in Seq(SentType) /\ Len(file) = size
    <3>1. \A i \in 1..size : i \in 0..MaxSize
      BY <2>1, Bounds
    <3>2. \A i \in 1..size : Item("byte", i) \in SentType
      BY <3>1 DEF Item, SentType
    <3>3. QED
      BY <2>1, <3>2, FunctionIsSeq
  <2>7. \A i \in 1..size : file[i] = SubSeq(ts, 1, size)[i]
    BY <2>4, <2>5
  <2> HIDE DEF file
  <2>8. SubSeq(ts, 1, size) = file
    BY <2>4, <2>6, <2>7, SeqEqual
  <2>9. QED
    BY <2>2, <2>8 DEF IsWhole, file, ts, size
<1>2. TypeInv /\ LinkInv
        => \A t \in Transfer : session[t].state = "CHUNK" /\ OperationOver(t) => IsWhole(t)
  BY <1>1
<1>3. QED
  BY <1>2, TypesAlways, LinksAlways, PTL
-------------------------------------------------------------------------------
(* Slots that stay BUSY.                                                     *)

\* The last word of a session.
IsFinal(x) == x.what = "status" \/ x.at = NACK

\* A client is only left without a last word by what breaks its transfer.
Excused(t) ==
  /\ net[t] = "cut" => faulty[t] = "broken"
  /\ client[t].state \in Connected /\ net[t] = "reset" => faulty[t] = "broken"
  /\ client[t].state \in Connected
       /\ (net[t] = "closed" \/ (net[t] = "up" /\ session[t].state = "DONE"))
     => toClient[t] # <<>> /\ IsFinal(toClient[t][Len(toClient[t])])

\* Every transfer that has begun has at most one slot, and a BUSY slot has one.
Owned ==
  /\ \A s \in Slot : owner[s] < nextTransfer /\ (status[s] = BUSY => owner[s] # 0)
  /\ \A r \in Slot, s \in Slot : owner[r] = owner[s] /\ owner[s] # 0 => r = s

BusyInv == Owned /\ BusyUntilOutcome /\ \A t \in Transfer : Excused(t)

\* Client and session never wait for each other.
LEMMA SomebodyGoesOn ==
  ASSUME EndsTyped, NEW t \in Transfer, LinkNow(t), net[t] = "up"
  PROVE  ClientReady(t) \/ OperationOver(t) \/ Storing(t)
<1> SUFFICES ASSUME ~ClientReady(t), ~Storing(t) PROVE OperationOver(t)
  OBVIOUS
<1> DEFINE x == client[t].state
           y == session[t].state
<1>1. /\ x \in Connected /\ y \notin {"none", "deleted"}
      /\ toServer[t] \in Seq(SentType) /\ toClient[t] \in Seq(ReplyType)
      /\ Len(toServer[t]) \in Nat
      /\ ToServerRight(client[t], session[t], net[t], toServer[t])
      /\ ToClientRight(client[t], session[t], net[t], toClient[t])
      /\ EndsAgree(client[t], session[t], net[t], toServer[t], toClient[t])
  BY TypesOf, LenProperties DEF LinkNow, Link, EndsAgree
<1>2. x \in ClientReads /\ toClient[t] = <<>>
  BY <1>1 DEF ClientReady
<1>3. y \in DOMAIN SessionNext \cup {"CHUNK", "DONE"}
  BY <1>1, TypesOf DEF SessionType, Storing
<1>4. CASE y = "DONE"
  BY <1>1, <1>4, TheStates DEF OperationOver, HasSession, Storing, SessionReads
<1>5. CASE y \in DOMAIN SessionNext \cup {"CHUNK"}
  <2>1. y \in DOMAIN HasRead /\ y \in DOMAIN AcksSent
    BY <1>5, Tables
  <2>2. /\ AcksRead[x] = AcksSent[y]
        /\ HasRead[y] + Len(toServer[t]) = HasSent[x] + FileSent(client[t])
        /\ y = "CHUNK" => session[t].cmpsize = client[t].size
    <3>1. AcksRead[x] + Len(toClient[t]) = AcksSent[y] /\ Len(toClient[t]) = 0
      BY <1>1, <1>2, <2>1 DEF ToClientRight
    <3>2. AcksRead[x] = AcksSent[y]
      BY <1>1, <3>1, AcksReadIsNat
    <3>3. QED
      BY <1>1, <2>1, <3>2 DEF ToServerRight, SentBy
  <2>3. /\ x = "FILE_STATUS" => FileSent(client[t]) = client[t].size
        /\ client[t].size \in Nat /\ client[t].pos \in Nat /\ client[t].size > 0
        /\ x # "FILE_STATUS" => FileSent(client[t]) = 0
    <3>1. client[t].size \in Nat /\ client[t].pos \in Nat
      BY TypesOf, Bounds DEF ClientType
    <3>2. x # "FILE_STATUS" => client[t].pos = 0
      BY <1>1, <1>2, Tables DEF EndsAgree
    <3>3. client[t].size > 0 /\ (x = "FILE_STATUS" => client[t].pos >= client[t].size)
      BY <1>1 DEF EndsAgree
    <3>4. QED
      BY <3>1, <3>2, <3>3 DEF FileSent
  <2>4. /\ HasRead[y] < HasSent[x] \/ (HasRead[y] = 8 /\ x = "FILE_STATUS" /\ y = "CHUNK")
           \/ y \notin SessionReads \cup {"CHUNK"}
        /\ x # "FILE_STATUS" => y # "CHUNK"
        /\ HasRead[y] \in Nat /\ HasSent[x] \in Nat
        /\ y = "CHUNK" => HasRead[y] = 8 /\ HasSent[x] = 8
    <3>1. HasRead[y] \in Nat /\ HasSent[x] \in Nat
      BY <1>1, <2>1, CountsAreNat
    <3>2. y \in {"RECV_CMD"} => x = "RECV_ACK_CMD"
      BY <1>2, <2>2, Tables DEF AcksRead, AcksSent
    <3>3. y \in {"RECV_ENC_PWD"} => x = "RECV_ACK_PWD"
      BY <1>2, <2>2, Tables DEF AcksRead, AcksSent
    <3>4. y \in {"RECV_ENC_PIDLEN", "RECV_ENC_PID", "RECV_ENC_BICNAMELEN", "RECV_ENC_BICNAME"}
            => x = "RECV_REDUNDANT_ACK_CMD"
      BY <1>2, <2>2, Tables DEF AcksRead, AcksSent
    <3>5. y \in {"RECV_FILESIZE", "RECV_CMPFSIZE", "CHUNK"} => x = "FILE_STATUS"
      BY <1>2, <2>2, Tables DEF AcksRead, AcksSent
    <3>6. QED
      BY <2>1, <3>1, <3>2, <3>3, <3>4, <3>5, TheStates DEF HasRead, HasSent, SessionReads
  <2>5. y \in SessionReads => toServer[t] # <<>>
    <3> SUFFICES ASSUME y \in SessionReads, toServer[t] = <<>> PROVE FALSE
      OBVIOUS
    <3>1. Len(toServer[t]) = 0 /\ y # "CHUNK"
      BY TheStates DEF SessionReads
    <3>2. HasRead[y] < HasSent[x] /\ HasRead[y] = HasSent[x] + FileSent(client[t])
      BY <2>2, <2>4, <3>1
    <3>3. FileSent(client[t]) \in Nat
      BY <2>3
    <3>4. QED
      BY <2>4, <3>2, <3>3
  <2>6. y = "CHUNK" => Len(toServer[t]) >= session[t].cmpsize
    BY <1>1, <2>2, <2>3, <2>4
  <2>7. QED
    BY <1>1, <2>5, <2>6 DEF OperationOver, HasSession
<1>6. QED
  BY <1>3, <1>4, <1>5

\* What is broken stays broken.
LEMMA BrokenStays ==
  ASSUME NEW T, NEW how, NEW r \in Transfer, faulty[r] = "broken", Fault(T, how) \/ NoFault
  PROVE  faulty'[r] = "broken"
BY DEF Fault, NoFault

LEMMA FaultBreaks ==
  ASSUME NEW T, NEW r \in Transfer, r \in T, Fault(T, "broken")
  PROVE  faulty'[r] = "broken"
BY DEF Fault

LEMMA BrokenStaysInStep ==
  ASSUME FaultsTyped, NEW t \in Transfer, StepOf(t)
  PROVE  \A r \in Transfer : faulty[r] = "broken" => faulty'[r] = "broken"
<1>1. CASE faulty' = [faulty EXCEPT ![t] = "broken"] /\ UNCHANGED faults
  BY <1>1 DEF FaultsTyped
<1>2. QED
  BY <1>1, FaultOfStep, BrokenStays

\* What a step of a transfer must keep of Excused: a client that goes without an
\* outcome has been broken off.
StillExcused(t) ==
  /\ Excused(t)'
  /\ HasClient(t) /\ ~HasClient(t)'
       => faulty'[t] = "broken" \/ \E o \in {OK, ERROR} : Finish(t, o)

\* Before it is connected, a client that is given up is broken off.
LEMMA BeginExcused ==
  ASSUME EndsTyped, FaultsTyped, NEW t \in Transfer, LinkNow(t), Excused(t),
         HandleResolve(t) \/ ConnectFails(t) \/ Connect(t)
  PROVE  StillExcused(t)
<1>1. client[t].state \in {"RESOLVE", "CONNECT"} /\ client[t] \in ClientType
  BY TypesOf DEF HandleResolve, ConnectFails, Connect
<1>2. net[t] = "none"
  BY <1>1 DEF LinkNow, Link, EndsAgree
<1>3. CASE Connect(t)
  <2>1. net'[t] = "up" /\ client'[t].state = "SEND_CMD" /\ session'[t].state = "RECV_CMD"
    BY <1>3, TypesOf DEF Connect, ClientType, SessionType
  <2>2. QED
    BY <2>1 DEF StillExcused, Excused, HasClient
<1>4. CASE HandleResolve(t) \/ ConnectFails(t)
  <2>1. net'[t] = "none"
    BY <1>2, <1>4 DEF HandleResolve, ConnectFails
  <2>2. HasClient(t)' \/ faulty'[t] = "broken"
    <3>1. CASE HandleResolve(t)
      <4>1. CASE Fault({t}, "broken")
        BY <4>1, FaultBreaks
      <4>2. CASE \E n \in 1..MaxEndpoints :
                   client' = [client EXCEPT ![t] = [client[t] EXCEPT !.state = "CONNECT", !.endpoints = n]]
        <5>1. client'[t].state = "CONNECT"
          BY <4>2, TypesOf DEF ClientType
        <5>2. QED
          BY <5>1 DEF HasClient
      <4>3. QED
        BY <3>1, <4>1, <4>2 DEF HandleResolve
    <3>2. CASE ConnectFails(t)
      BY <3>2, FaultBreaks DEF ConnectFails, FaultsTyped
    <3>3. QED
      BY <1>4, <3>1, <3>2
  <2>3. QED
    BY <2>1, <2>2 DEF StillExcused, Excused
<1>5. QED
  BY <1>3, <1>4

LEMMA LastOfTail ==
  ASSUME NEW S, NEW s \in Seq(S), s # <<>>, Len(s) # 1
  PROVE  Tail(s) # <<>> /\ Tail(s)[Len(Tail(s))] = s[Len(s)]
<1> DEFINE n == Len(Tail(s))
<1>1. /\ Tail(s) \in Seq(S) /\ Len(s) \in Nat /\ Len(s) >= 1 /\ n = Len(s) - 1
      /\ \A i \in 1..n : Tail(s)[i] = s[i + 1]
  BY TailOf
<1> HIDE DEF n
<1>2. n \in 1..n /\ n + 1 = Len(s) /\ n # 0
  BY <1>1
<1>3. Tail(s)[n] = s[Len(s)]
  BY <1>1, <1>2
<1>4. Tail(s) # <<>>
  BY <1>1, <1>2, EmptySeq DEF n
<1>5. QED
  BY <1>3, <1>4 DEF n

\* A client that goes on has not read the last word.
LEMMA GoOnExcused ==
  ASSUME EndsTyped, EndsTyped', FaultsTyped, NEW t \in Transfer, LinkNow(t), Excused(t),
         ClientReady(t), ~Refused(t), GoOn(t), NoFault, session' = session
  PROVE  StillExcused(t)
<1> DEFINE x == client[t].state
           tc == toClient[t]
<1>1. /\ x \in DOMAIN ClientNext /\ x \in Connected
      /\ client'[t].state = ClientNext[x] /\ ClientNext[x] \in Connected
      /\ net' = net /\ faulty' = faulty
      /\ tc \in Seq(ReplyType)
  BY TypesOf, NextStates DEF GoOn, ClientType, Connected, NoFault
<1>2. HasClient(t)'
  BY <1>1, StatesApart DEF HasClient
<1>3. toClient'[t] = IF x \in ClientReads THEN Tail(tc) ELSE tc
  BY TypesOf DEF GoOn
<1>4. ASSUME x \in ClientReads, tc # <<>>, IsFinal(tc[Len(tc)])
      PROVE  Tail(tc) # <<>> /\ IsFinal(Tail(tc)[Len(Tail(tc))])
  <2>1. x \in AckStates
    BY <1>1, <1>4, TheStates DEF ClientReads
  <2>2. RepliesFrom(tc, AcksRead[x]) /\ AcksRead[x] \in 0..2
    <3>1. AcksRead[x] \in 0..2
      BY <2>1 DEF AckStates, AcksRead
    <3>2. QED
      BY <1>1, <3>1 DEF LinkNow, Link, ToClientRight
  <2>3. /\ Head(tc) = tc[1] /\ Len(tc) \in Nat /\ Len(tc) >= 1
        /\ Tail(tc) \in Seq(ReplyType) /\ Len(Tail(tc)) = Len(tc) - 1
        /\ \A i \in 1..Len(Tail(tc)) : Tail(tc)[i] = tc[i + 1]
    BY <1>1, <1>4, TailOf
  <2>4. ~IsFinal(tc[1])
    <3>1. tc[1].what = ReplyKind(AcksRead[x] + 1)
      BY <2>2, <2>3 DEF RepliesFrom
    <3>2. tc[1].what = "ack"
      BY <2>2, <3>1 DEF ReplyKind
    <3>3. tc[1].at # NACK
      BY <2>1, <2>3 DEF Refused, Word
    <3>4. QED
      BY <3>2, <3>3 DEF IsFinal
  <2>5. Len(tc) # 1
    BY <1>4, <2>4
  <2>6. Tail(tc) # <<>> /\ Tail(tc)[Len(Tail(tc))] = tc[Len(tc)]
    BY <1>1, <1>4, <2>5, LastOfTail
  <2>7. QED
    BY <1>4, <2>6
<1>5. Excused(t)'
  BY <1>1, <1>3, <1>4 DEF Excused
<1>6. QED
  BY <1>2, <1>5 DEF StillExcused

\* A client ends with an outcome, or because its transfer is broken off.
LEMMA EndExcused ==
  ASSUME EndsTyped, NEW t \in Transfer, NEW how \in {"closed", "reset"}, Excused(t),
         ClientEnds(t, how), \A r \in Transfer : faulty[r] = "broken" => faulty'[r] = "broken",
         faulty'[t] = "broken" \/ \E o \in {OK, ERROR} : Finish(t, o)
  PROVE  StillExcused(t)
<1>1. net'[t] = IF net[t] = "cut" THEN "cut" ELSE how
  BY CloseTyped DEF ClientEnds
<1>2. client'[t].state = "deleted"
  BY TypesOf DEF ClientEnds, Deleted, NoClient
<1>3. net'[t] = "cut" => faulty'[t] = "broken"
  BY <1>1 DEF Excused
<1>4. Excused(t)'
  BY <1>2, <1>3, StatesApart DEF Excused
<1>5. QED
  BY <1>4 DEF StillExcused

\* When a client's timer expires, the transfer is broken off.
LEMMA TimeOutExcused ==
  ASSUME EndsTyped, FaultsTyped, NEW t \in Transfer, LinkNow(t), Excused(t), ClientTimesOut(t)
  PROVE  faulty'[t] = "broken"
<1>1. client[t].state \in Connected /\ TimeOut(t)
  BY DEF ClientTimesOut, ClientTimer
<1>2. net[t] \in {"up", "closed", "cut", "reset"}
  BY <1>1, TypesOf DEF LinkNow, Link, EndsAgree
<1>3. CASE net[t] = "up"
  <2>1. ClientReady(t) \/ OperationOver(t) \/ Storing(t)
    BY <1>3, SomebodyGoesOn
  <2>2. QED
    BY <1>1, <1>3, <2>1, FaultBreaks DEF TimeOut
<1>4. CASE net[t] = "closed"
  <2>1. ClientReady(t)
    BY <1>1, <1>4 DEF Excused, ClientReady
  <2>2. QED
    BY <1>1, <1>4, <2>1, FaultBreaks DEF TimeOut
<1>5. CASE net[t] \in {"cut", "reset"}
  <2>1. NoFault /\ faulty[t] = "broken"
    BY <1>1, <1>5 DEF TimeOut, Excused
  <2>2. QED
    BY <2>1 DEF NoFault
<1>6. QED
  BY <1>2, <1>3, <1>4, <1>5

LEMMA ClientExcused ==
  ASSUME EndsTyped, EndsTyped', FaultsTyped, NEW t \in Transfer, LinkNow(t), Excused(t),
         ClientHandleState(t) \/ ClientFails(t) \/ ClientTimesOut(t)
  PROVE  StillExcused(t)
<1>1. \A r \in Transfer : faulty[r] = "broken" => faulty'[r] = "broken"
  BY BrokenStaysInStep DEF StepOf
<1>2. CASE ClientHandleState(t)
  <2>1. ClientReady(t) /\ NoFault /\ session' = session
    BY <1>2 DEF ClientHandleState
  <2>2. ASSUME NEW o \in {OK, ERROR}, Finish(t, o) PROVE StillExcused(t)
    BY <1>1, <2>2, EndExcused DEF Finish
  <2>3. CASE ~Refused(t) /\ GoOn(t)
    BY <2>1, <2>3, GoOnExcused
  <2>4. CASE SendChunk(t)
    <3>1. /\ client'[t].state \in {"CHUNK", "LAST_CHUNK"} /\ client[t].state \in Connected
          /\ UNCHANGED <<net, toClient>> /\ faulty' = faulty
      BY <2>1, <2>4, TypesOf DEF SendChunk, ClientType, NoFault, ClientReady
    <3>2. client'[t].state \in Connected
      BY <3>1, Tables
    <3>3. HasClient(t)'
      BY <3>2, StatesApart DEF HasClient
    <3>4. Excused(t)'
      BY <2>1, <3>1, <3>2 DEF Excused
    <3>5. QED
      BY <3>3, <3>4 DEF StillExcused
  <2>5. QED
    BY <1>2, <2>2, <2>3, <2>4 DEF ClientHandleState
<1>3. CASE ClientFails(t)
  <2>1. faulty[t] = "broken"
    BY <1>3 DEF ClientFails, Excused
  <2>2. QED
    BY <1>1, <1>3, <2>1, EndExcused DEF ClientFails
<1>4. CASE ClientTimesOut(t)
  BY <1>1, <1>4, TimeOutExcused, EndExcused DEF ClientTimesOut
<1>5. QED
  BY <1>2, <1>3, <1>4

\* A session that is done has sent its last word.
LEMMA SessionGoesOnExcused ==
  ASSUME EndsTyped, EndsTyped', FaultsTyped, NEW t \in Transfer, LinkNow(t), Excused(t),
         SessionStep(t) \/ BeginStore(t) \/ WriteFile(t) \/ SyncFile(t)
  PROVE  StillExcused(t)
<1>1. \A r \in Transfer : faulty[r] = "broken" => faulty'[r] = "broken"
  BY BrokenStaysInStep DEF StepOf
<1>2. /\ UNCHANGED <<client, net>>
      /\ session[t].state \in DOMAIN SessionNext \cup {"CHUNK", "OPENED", "WRITTEN"}
  BY DEF SessionStep, BeginStore, WriteFile, SyncFile
<1>3. client[t].state \in Connected => net[t] # "closed"
  BY <1>2, TheStates DEF LinkNow, Link, EndsAgree
<1>4. \/ session'[t].state # "DONE"
      \/ \E what \in {"ack", "status"}, word \in {0, 1} :
           Reply(t, what, word) /\ (what = "status" \/ word = NACK)
  <2>1. CASE SessionStep(t)
    <3>1. CASE Reply(t, "ack", NACK)
      BY <3>1 DEF NACK
    <3>2. CASE session' = [session EXCEPT ![t] =
                             [session[t] EXCEPT
                                !.state = SessionNext[session[t].state],
                                !.cmpsize = IF session[t].state = "RECV_CMPFSIZE"
                                            THEN Head(toServer[t]).at ELSE session[t].cmpsize]]
      <4>1. session'[t].state = SessionNext[session[t].state]
        BY <3>2, TypesOf DEF SessionType
      <4>2. session[t].state \in DOMAIN SessionNext
        BY <2>1 DEF SessionStep
      <4>3. QED
        BY <4>1, <4>2, NextStates, TheStates
    <3>3. QED
      BY <2>1, <3>1, <3>2 DEF SessionStep
  <2>2. CASE BeginStore(t) \/ WriteFile(t) \/ SyncFile(t)
    <3>1. CASE \E word \in {0, 1} : Answer(t, word)
      BY <3>1 DEF Answer
    <3>2. CASE \E x \in {"OPENED", "WRITTEN"} : session' = [session EXCEPT ![t].state = x]
      BY <3>2, TypesOf DEF SessionType
    <3>3. QED
      BY <2>2, <3>1, <3>2 DEF BeginStore, WriteFile, SyncFile
  <2>3. QED
    BY <2>1, <2>2
<1>5. ASSUME net[t] = "up", session'[t].state = "DONE"
      PROVE  toClient'[t] # <<>> /\ IsFinal(toClient'[t][Len(toClient'[t])])
  <2>1. PICK what \in {"ack", "status"} : \E word \in {0, 1} :
           Reply(t, what, word) /\ (what = "status" \/ word = NACK)
    BY <1>4, <1>5
  <2>2. PICK word \in {0, 1} : Reply(t, what, word) /\ (what = "status" \/ word = NACK)
    BY <2>1
  <2>3. toClient'[t] = Append(toClient[t], Item(what, word))
    BY <1>5, <2>2, ReplyTyped
  <2>4. toClient[t] \in Seq(ReplyType) /\ Item(what, word) \in ReplyType
    BY TypesOf DEF Item, ReplyType
  <2>5. /\ Len(toClient'[t]) = Len(toClient[t]) + 1 /\ Len(toClient[t]) \in Nat
        /\ toClient'[t][Len(toClient[t]) + 1] = Item(what, word)
    BY <2>3, <2>4, Pushed, LenProperties
  <2>6. IsFinal(Item(what, word))
    BY <2>2 DEF IsFinal, Item
  <2>7. toClient'[t] # <<>>
    <3>1. Len(toClient'[t]) # 0
      BY <2>5
    <3>2. QED
      BY <3>1, EmptySeq
  <2>8. QED
    BY <2>5, <2>6, <2>7
<1>6. Excused(t)'
  <2>1. net'[t] = "cut" => faulty'[t] = "broken"
    BY <1>1, <1>2 DEF Excused
  <2>2. client'[t].state \in Connected /\ net'[t] = "reset" => faulty'[t] = "broken"
    BY <1>1, <1>2 DEF Excused
  <2>3. client'[t].state \in Connected
           /\ (net'[t] = "closed" \/ (net'[t] = "up" /\ session'[t].state = "DONE"))
          => toClient'[t] # <<>> /\ IsFinal(toClient'[t][Len(toClient'[t])])
    BY <1>2, <1>3, <1>5
  <2>4. QED
    BY <2>1, <2>2, <2>3 DEF Excused
<1>7. HasClient(t)' = HasClient(t)
  BY <1>2 DEF HasClient
<1>8. QED
  BY <1>6, <1>7 DEF StillExcused

\* A session only leaves a client that has its last word, or breaks the transfer off.
LEMMA SessionEndExcused ==
  ASSUME EndsTyped, FaultsTyped, NEW t \in Transfer, LinkNow(t), Excused(t),
         SessionDone(t) \/ SessionFails(t) \/ SessionTimesOut(t) \/ Cut(t)
  PROVE  StillExcused(t)
<1>1. \A r \in Transfer : faulty[r] = "broken" => faulty'[r] = "broken"
  BY BrokenStaysInStep DEF StepOf
<1>2. client' = client /\ (HasClient(t)' = HasClient(t))
  BY DEF SessionDone, SessionFails, SessionTimesOut, Cut, HasClient
<1>3. CASE Cut(t)
  <2>1. net'[t] = "cut" /\ faulty'[t] = "broken"
    BY <1>3, FaultBreaks, TypesOf DEF Cut
  <2>2. QED
    BY <1>2, <2>1 DEF StillExcused, Excused
<1>4. HasSession(t) /\ client[t].state \in Connected => net[t] \in {"up", "cut"}
  BY TypesOf DEF HasSession, LinkNow, Link, EndsAgree
<1>5. CASE SessionDone(t)
  <2>1. /\ HasSession(t) /\ session[t].state = "DONE" /\ toClient' = toClient
        /\ SessionEnds(t, "closed")
    BY <1>5 DEF SessionDone, SessionReady, OperationOver
  <2>2. net'[t] = IF net[t] = "cut" THEN "cut" ELSE "closed"
    BY <2>1, CloseTyped DEF SessionEnds
  <2>3. net'[t] = "cut" => faulty'[t] = "broken"
    BY <1>1, <2>2 DEF Excused
  <2>4. client[t].state \in Connected /\ net'[t] = "closed"
          => toClient[t] # <<>> /\ IsFinal(toClient[t][Len(toClient[t])])
    BY <1>4, <2>1, <2>2 DEF Excused
  <2>5. Excused(t)'
    BY <1>2, <2>1, <2>2, <2>3, <2>4 DEF Excused
  <2>6. QED
    BY <1>2, <2>5 DEF StillExcused
<1>6. CASE SessionFails(t) \/ SessionTimesOut(t)
  <2>1. HasSession(t) /\ SessionEnds(t, "reset")
    BY <1>6 DEF SessionFails, SessionTimesOut
  <2>2. net'[t] = IF net[t] = "cut" THEN "cut" ELSE "reset"
    BY <2>1, CloseTyped DEF SessionEnds
  <2>3. net'[t] = "cut" => faulty'[t] = "broken"
    BY <1>1, <2>2 DEF Excused
  <2>4. client[t].state \in Connected => faulty'[t] = "broken"
    <3> SUFFICES ASSUME client[t].state \in Connected PROVE faulty'[t] = "broken"
      OBVIOUS
    <3>1. net[t] \in {"up", "cut"}
      BY <1>4, <2>1
    <3>2. CASE net[t] = "cut"
      BY <1>1, <3>2 DEF Excused
    <3>3. CASE net[t] = "up"
      <4>1. SessionTimesOut(t)
        BY <1>6, <3>3 DEF SessionFails
      <4>2. ClientReady(t) \/ OperationOver(t) \/ Storing(t)
        BY <3>3, SomebodyGoesOn
      <4>3. Fault({t}, "broken")
        BY <3>3, <4>1, <4>2 DEF SessionTimesOut, TimeOut
      <4>4. QED
        BY <4>3, FaultBreaks
    <3>4. QED
      BY <3>1, <3>2, <3>3
  <2>5. Excused(t)'
    BY <1>2, <2>2, <2>3, <2>4 DEF Excused
  <2>6. QED
    BY <1>2, <2>5 DEF StillExcused
<1>7. QED
  BY <1>3, <1>5, <1>6

LEMMA StepExcused ==
  ASSUME EndsTyped, EndsTyped', FaultsTyped, NEW t \in Transfer, LinkNow(t), Excused(t), StepOf(t)
  PROVE  StillExcused(t)
<1>1. CASE HandleResolve(t) \/ ConnectFails(t) \/ Connect(t)
  BY <1>1, BeginExcused
<1>2. CASE ClientHandleState(t) \/ ClientFails(t) \/ ClientTimesOut(t)
  BY <1>2, ClientExcused
<1>3. CASE SessionStep(t) \/ BeginStore(t) \/ WriteFile(t) \/ SyncFile(t)
  BY <1>3, SessionGoesOnExcused
<1>4. CASE SessionDone(t) \/ SessionFails(t) \/ SessionTimesOut(t) \/ Cut(t)
  BY <1>4, SessionEndExcused
<1>5. QED
  BY <1>1, <1>2, <1>3, <1>4 DEF StepOf

LEMMA BusyInit == Init => BusyInv
<1> SUFFICES ASSUME Init PROVE BusyInv
  OBVIOUS
<1>1. /\ \A s \in Slot : owner[s] = 0 /\ status[s] = READY
      /\ nextTransfer = 1
      /\ \A t \in Transfer : net[t] = "none" /\ client[t].state = "none"
  BY DEF Init, NoClient
<1>2. Owned /\ BusyUntilOutcome
  BY <1>1 DEF Owned, BusyUntilOutcome, BUSY, READY
<1>3. \A t \in Transfer : Excused(t)
  BY <1>1 DEF Excused
<1>4. QED
  BY <1>2, <1>3 DEF BusyInv

\* A BUSY slot has a transfer.
LEMMA BusySlot ==
  ASSUME SlotsInv, Owned, NEW s \in Slot, status[s] = BUSY PROVE owner[s] \in Transfer
BY SlotsAre, Bounds DEF Owned, Transfer

LEMMA StepKeepsBusy ==
  ASSUME TypeInv, TypeInv', LinkInv, BusyInv, NEW t \in Transfer, StepOf(t)
  PROVE  BusyInv'
<1>1. EndsTyped /\ EndsTyped' /\ FaultsTyped /\ SlotsInv /\ LinkNow(t) /\ Excused(t) /\ Owned
  BY DEF TypeInv, TypeOK, LinkInv, Linked, LinkNow, BusyInv
<1>2. StillExcused(t)
  BY <1>1, StepExcused
<1>3. OnlyOf(t) /\ \A r \in Transfer : faulty[r] = "broken" => faulty'[r] = "broken"
  BY <1>1, StepTyped, BrokenStaysInStep
<1>4. ASSUME NEW r \in Transfer PROVE Excused(r)'
  <2>1. CASE r = t
    BY <1>2, <2>1 DEF StillExcused
  <2>2. CASE r # t
    BY <1>3, <2>2 DEF BusyInv, Excused, OnlyOf
  <2>3. QED
    BY <2>1, <2>2
<1>5. /\ UNCHANGED <<owner, nextTransfer, numclients>> /\ Slot' = Slot
      /\ \A s \in Slot : status'[s] = BUSY => status[s] = BUSY
      /\ \A o \in {OK, ERROR} : Finish(t, o)
            => \A s \in Slot : owner[s] = t => status'[s] # BUSY
  <2>1. CASE UNCHANGED slots
    <3>1. UNCHANGED <<owner, nextTransfer, numclients, status>> /\ Slot' = Slot
      BY <2>1 DEF slots, Slot
    <3>2. \A o \in {OK, ERROR} : Finish(t, o)
            => \A s \in Slot : owner[s] = t => status'[s] # BUSY
      <4> SUFFICES ASSUME NEW o \in {OK, ERROR}, Finish(t, o), NEW s \in Slot, owner[s] = t
                   PROVE  status'[s] # BUSY
        OBVIOUS
      <4>1. PICK x \in Slot : owner[x] = t /\ status' = [status EXCEPT ![x] = o]
        BY DEF Finish
      <4>2. x = s
        BY <1>1, <4>1 DEF Owned, Transfer
      <4>3. QED
        BY <1>1, <4>1, <4>2, SlotsAre DEF BUSY, OK, ERROR
    <3>3. QED
      BY <3>1, <3>2
  <2>2. ASSUME NEW o \in {OK, ERROR}, Finish(t, o)
        PROVE  /\ UNCHANGED <<owner, nextTransfer, numclients>> /\ Slot' = Slot
               /\ \A s \in Slot : status'[s] = BUSY => status[s] = BUSY
               /\ \A s \in Slot : owner[s] = t => status'[s] # BUSY
    <3>1. PICK x \in Slot : owner[x] = t /\ status' = [status EXCEPT ![x] = o]
      BY <2>2 DEF Finish
    <3>2. UNCHANGED <<owner, nextTransfer, numclients>> /\ Slot' = Slot
      BY <2>2 DEF Finish, Slot
    <3>3. ASSUME NEW s \in Slot, owner[s] = t PROVE s = x
      BY <1>1, <3>1, <3>3 DEF Owned, Transfer
    <3>4. status'[x] # BUSY /\ \A s \in Slot \ {x} : status'[s] = status[s]
      BY <1>1, <3>1, SlotsAre DEF BUSY, OK, ERROR
    <3>5. QED
      BY <3>2, <3>3, <3>4
  <2>3. UNCHANGED slots \/ \E o \in {OK, ERROR} : Finish(t, o)
    BY StepOfSlots
  <2>4. QED
    BY <2>1, <2>2, <2>3
<1>6. ASSUME NEW s \in Slot, status'[s] = BUSY, client'[owner[s]].state \in {"none", "deleted"}
      PROVE  faulty'[owner[s]] = "broken"
  <2> DEFINE r == owner[s]
  <2>1. status[s] = BUSY /\ r \in Transfer /\ owner' = owner
    BY <1>1, <1>5, <1>6, BusySlot
  <2>2. CASE ~HasClient(r)
    BY <1>3, <2>1, <2>2 DEF BusyInv, BusyUntilOutcome
  <2>3. CASE HasClient(r)
    <3>1. r = t
      BY <1>3, <1>6, <2>1, <2>3 DEF OnlyOf, HasClient
    <3>2. ~HasClient(t)'
      BY <1>6, <3>1 DEF HasClient
    <3>3. faulty'[t] = "broken" \/ \E o \in {OK, ERROR} : Finish(t, o)
      BY <1>2, <2>3, <3>1, <3>2 DEF StillExcused
    <3>4. QED
      BY <1>5, <1>6, <3>1, <3>3
  <2>4. QED
    BY <2>2, <2>3
<1>7. BusyUntilOutcome'
  BY <1>5, <1>6 DEF BusyUntilOutcome, HasClient
<1>8. Owned'
  BY <1>1, <1>5 DEF Owned
<1>9. QED
  BY <1>4, <1>7, <1>8 DEF BusyInv

LEMMA SendKeepsBusy ==
  ASSUME TypeInv, LinkInv, BusyInv, NEW s \in Slot, NEW size \in 1..MaxSize, Send(s, size)
  PROVE  BusyInv'
<1> DEFINE n == nextTransfer
<1>1. /\ EndsTyped /\ SlotsInv /\ Owned /\ n \in Transfer /\ n \in Nat \ {0}
      /\ Slot' = Slot /\ nextTransfer' = n + 1
  BY SlotsAre, Bounds DEF TypeInv, TypeOK, BusyInv, Send, Transfer, Slot
<1>2. /\ status' = [status EXCEPT ![s] = BUSY] /\ owner' = [owner EXCEPT ![s] = n]
      /\ UNCHANGED <<session, net, toServer, toClient>>
  BY DEF Send
<1>3. /\ \A r \in Transfer \ {n} : client'[r] = client[r]
      /\ client'[n].state \notin {"none", "deleted"} \/ faulty'[n] = "broken"
      /\ \A r \in Transfer : faulty[r] = "broken" => faulty'[r] = "broken"
  <2>1. CASE Fault({n}, "broken") /\ client' = [client EXCEPT ![n] = Deleted]
    BY <1>1, <2>1, BrokenStays, FaultBreaks DEF EndsTyped
  <2>2. CASE NoFault /\ client' = [client EXCEPT ![n] =
                          [state |-> "RESOLVE", pos |-> 0, size |-> size, endpoints |-> 0]]
    BY <1>1, <2>2, BrokenStays DEF EndsTyped
  <2>3. QED
    BY <2>1, <2>2 DEF Send
<1>4. client[n].state = "none" /\ net[n] = "none"
  BY <1>1 DEF LinkInv, Linked, Link, EndsAgree
<1>5. ASSUME NEW r \in Transfer PROVE Excused(r)'
  <2>1. CASE r = n
    BY <1>2, <1>4, <2>1 DEF Excused
  <2>2. CASE r # n
    BY <1>2, <1>3, <2>2 DEF BusyInv, Excused
  <2>3. QED
    BY <2>1, <2>2
<1>6. ASSUME NEW x \in Slot
      PROVE  /\ owner'[x] < n + 1 /\ (status'[x] = BUSY => owner'[x] # 0)
             /\ owner'[x] = IF x = s THEN n ELSE owner[x]
             /\ owner[x] < n /\ owner[x] \in Nat
  BY <1>1, <1>2, SlotsAre, Bounds DEF Owned
<1>7. Owned'
  <2>1. ASSUME NEW x \in Slot, NEW y \in Slot, owner'[x] = owner'[y], owner'[y] # 0
        PROVE  x = y
    BY <1>1, <1>6, <2>1 DEF Owned
  <2>2. QED
    BY <1>1, <1>6, <2>1 DEF Owned
<1>8. ASSUME NEW x \in Slot, status'[x] = BUSY, client'[owner'[x]].state \in {"none", "deleted"}
      PROVE  faulty'[owner'[x]] = "broken"
  <2>1. CASE x = s
    <3>1. owner'[x] = n
      BY <1>6, <2>1
    <3>2. QED
      BY <1>3, <1>8, <3>1
  <2>2. CASE x # s
    <3>1. owner'[x] = owner[x] /\ status[x] = BUSY
      BY <1>1, <1>2, <1>6, <1>8, <2>2, SlotsAre
    <3>2. owner[x] \in Transfer /\ owner[x] # n
      BY <1>1, <1>6, <3>1, BusySlot
    <3>3. ~HasClient(owner[x])
      BY <1>3, <1>8, <3>1, <3>2 DEF HasClient
    <3>4. QED
      BY <1>3, <3>1, <3>2, <3>3 DEF BusyInv, BusyUntilOutcome
  <2>3. QED
    BY <2>1, <2>2
<1>9. BusyUntilOutcome'
  BY <1>1, <1>8 DEF BusyUntilOutcome, HasClient
<1>10. QED
  BY <1>5, <1>7, <1>9 DEF BusyInv

LEMMA CrashKeepsBusy ==
  ASSUME TypeInv, LinkInv, BusyInv, Crash
  PROVE  BusyInv'
<1> DEFINE T == {t \in Transfer : HasSession(t) \/ (HasClient(t) /\ net[t] # "none")}
<1>1. /\ UNCHANGED <<client, status, owner, numclients, nextTransfer>> /\ Slot' = Slot
      /\ Fault(T, "broken") /\ SlotsInv /\ Owned
  BY DEF Crash, slots, Slot, TypeInv, BusyInv
<1>2. \A r \in Transfer : faulty[r] = "broken" => faulty'[r] = "broken"
  BY <1>1, BrokenStays
<1>3. \A r \in Transfer : r \in T => faulty'[r] = "broken"
  BY <1>1, FaultBreaks
<1>4. ASSUME NEW r \in Transfer PROVE Excused(r)'
  <2>1. net'[r] = IF net[r] \in {"none", "cut"} THEN net[r] ELSE "reset"
    BY DEF Crash
  <2>2. net'[r] = "cut" => faulty'[r] = "broken"
    BY <1>2, <2>1 DEF BusyInv, Excused
  <2>3. client[r].state \in Connected /\ net'[r] = "reset" => faulty'[r] = "broken"
    <3>1. client[r].state \in Connected /\ net'[r] = "reset" => HasClient(r) /\ net[r] # "none"
      BY <2>1, StatesApart DEF HasClient
    <3>2. QED
      BY <1>3, <3>1
  <2>4. net'[r] \notin {"closed", "up"}
    BY <2>1
  <2>5. QED
    BY <1>1, <2>2, <2>3, <2>4 DEF Excused
<1>5. BusyUntilOutcome'
  <2>1. ASSUME NEW s \in Slot, status[s] = BUSY, ~HasClient(owner[s])
        PROVE  faulty'[owner[s]] = "broken"
    BY <1>1, <1>2, <2>1, BusySlot DEF BusyInv, BusyUntilOutcome
  <2>2. QED
    BY <1>1, <2>1 DEF BusyUntilOutcome, HasClient
<1>6. Owned'
  BY <1>1 DEF Owned
<1>7. QED
  BY <1>4, <1>5, <1>6 DEF BusyInv

LEMMA BusyInductive ==
  TypeInv /\ TypeInv' /\ LinkInv /\ BusyInv /\ [Next]_vars => BusyInv'
<1> SUFFICES ASSUME TypeInv, TypeInv', LinkInv, BusyInv, [Next]_vars PROVE BusyInv'
  OBVIOUS
<1>1. ASSUME NEW t \in Transfer, StepOf(t) PROVE BusyInv'
  BY <1>1, StepKeepsBusy
<1>2. CASE AnswerStatus \/ Restart \/ UNCHANGED vars \/ \E s \in Slot : ReadStatus(s)
  <2>1. UNCHANGED <<client, session, net, toClient, faulty, owner, numclients, nextTransfer>>
    BY <1>2 DEF AnswerStatus, Restart, vars, ReadStatus, slots
  <2>2. Slot' = Slot /\ \A s \in Slot : status'[s] = BUSY => status[s] = BUSY
    <3>1. status' = status \/ status' = [status EXCEPT ![asked.slot] = READY]
      BY <1>2 DEF AnswerStatus, Restart, vars, ReadStatus, slots
    <3>2. QED
      BY <2>1, <3>1, SlotsAre DEF TypeInv, Slot, BUSY, READY
  <2>3. Owned' /\ \A t \in Transfer : Excused(t)'
    BY <2>1, <2>2 DEF BusyInv, Owned, Excused
  <2>4. BusyUntilOutcome'
    BY <2>1, <2>2 DEF BusyInv, BusyUntilOutcome, HasClient
  <2>5. QED
    BY <2>3, <2>4 DEF BusyInv
<1>3. ASSUME NEW s \in Slot, NEW size \in 1..MaxSize, Send(s, size) PROVE BusyInv'
  BY <1>3, SendKeepsBusy
<1>4. CASE Crash
  BY <1>4, CrashKeepsBusy
<1>5. QED
  BY <1>1, <1>2, <1>3, <1>4, NextIs

LEMMA BusyAlways == Spec => []BusyInv
BY TypesAlways, LinksAlways, BusyInit, BusyInductive, PTL DEF Spec

\* A slot stays BUSY for ever (no client will set its status) only when its transfer was
\* broken off or never began: not because client and server wait for each other, and not
\* because the server refused what it was sent.
THEOREM BusySlotsAreBroken == Spec => []BusyUntilOutcome
<1>1. BusyInv => BusyUntilOutcome
  BY DEF BusyInv
<1>2. QED
  BY <1>1, BusyAlways, PTL
-------------------------------------------------------------------------------
(* What a script is told is in the vault.                                    *)

\* The word that the file is stored is on its way to the client.
WordComes(t) ==
  \E i \in 1..Len(toClient[t]) : toClient[t][i].what = "status" /\ toClient[t][i].at # 0

\* Somebody has heard, or will hear unless the connection breaks, that t is stored.
Told(t) ==
  \/ Outcome(t, OK)
  \/ asked.seen = OK /\ owner[asked.slot] = t
  \/ WordComes(t)

StoredBy(t) ==
  \E i \in 1..Len(writers) :
    /\ writers[i] = t
    /\ i = Len(writers) => vault = [file |-> t, synced |-> TRUE]

\* What OkMeansStored needs: the word is only sent for a file that is stored, and a
\* session that is writing is alone with the file.
WordIsTrue   == \A t \in Transfer : Told(t) => StoredBy(t) /\ session[t].state \in {"DONE", "deleted"}
LastIsStoring == \A t \in Transfer : Storing(t) => writers # <<>> /\ writers[Len(writers)] = t
WrittenIsIn  == \A t \in Transfer : session[t].state = "WRITTEN" => vault.file = t

StoreInv == WordIsTrue /\ LastIsStoring /\ WrittenIsIn

LEMMA StoreInit == Init => StoreInv
<1> SUFFICES ASSUME Init, NEW t \in Transfer
             PROVE  ~Told(t) /\ session[t].state = "none"
  BY DEF StoreInv, WordIsTrue, LastIsStoring, WrittenIsIn, Storing
<1>1. session[t].state = "none" /\ toClient[t] = <<>> /\ asked = NotAsked /\ told[t] = BUSY
      /\ \A s \in Slot : status[s] = READY
  BY DEF Init, NoSession
<1>2. ~WordComes(t)
  BY <1>1 DEF WordComes
<1>3. ~Outcome(t, OK)
  BY <1>1 DEF Outcome, BUSY, READY, OK
<1>4. asked.seen # OK
  BY <1>1 DEF NotAsked, BUSY, OK
<1>5. QED
  BY <1>1, <1>2, <1>3, <1>4 DEF Told

\* What a step does to the disk.
Opens(t)  == writers' = Append(writers, t) /\ session'[t].state = "OPENED" /\ ThreadFree
Writes(t) == /\ writers' = writers /\ session[t].state = "OPENED" /\ session'[t].state = "WRITTEN"
             /\ vault' = [vault EXCEPT !.file = t]
Syncs(t)  == /\ writers' = writers /\ session[t].state = "WRITTEN" /\ session'[t].state = "DONE"
             /\ vault' = [vault EXCEPT !.synced = TRUE]
Rests(t)  == /\ writers' = writers /\ vault' = vault
             /\ session'[t].state \in {"OPENED", "WRITTEN"} => session'[t].state = session[t].state

\* Only a session that is not over yet goes on to another state.
LEMMA DiskOfStep ==
  ASSUME ShortWrites = FALSE, EndsTyped, NEW t \in Transfer, LinkNow(t), StepOf(t)
  PROVE  /\ Opens(t) \/ Writes(t) \/ Syncs(t) \/ Rests(t)
         /\ session[t].state \in {"DONE", "deleted"} => session'[t].state \in {"DONE", "deleted"}
<1> DEFINE y == session[t].state
<1>1. session \in [Transfer -> SessionType] /\ session[t] \in SessionType
  BY TypesOf
<1>2. CASE session' = session /\ UNCHANGED disk
  BY <1>2 DEF Rests, disk
<1>3. CASE Connect(t)
  <2>1. session'[t].state = "RECV_CMD" /\ UNCHANGED disk
    BY <1>1, <1>3 DEF Connect, SessionType
  <2>2. session[t] = NoSession
    BY <1>3 DEF Connect, LinkNow, Link, EndsAgree
  <2>3. QED
    BY <2>1, <2>2 DEF Rests, NoSession, disk
<1>4. CASE SessionStep(t)
  <2>1. y \in DOMAIN SessionNext /\ UNCHANGED disk
    BY <1>4 DEF SessionStep
  <2>2. session'[t].state \in {"DONE", SessionNext[y]}
    <3>1. CASE session' = [session EXCEPT ![t].state = "DONE"]
      BY <1>1, <3>1 DEF SessionType
    <3>2. CASE session' = [session EXCEPT ![t] =
                             [session[t] EXCEPT
                                !.state = SessionNext[session[t].state],
                                !.cmpsize = IF session[t].state = "RECV_CMPFSIZE"
                                            THEN Head(toServer[t]).at ELSE session[t].cmpsize]]
      BY <1>1, <3>2 DEF SessionType
    <3>3. QED
      BY <1>4, <3>1, <3>2 DEF SessionStep
  <2>3. session'[t].state \notin {"OPENED", "WRITTEN"} /\ y \notin {"DONE", "deleted"}
    BY <2>1, <2>2, NextStates, TheStates
  <2>4. QED
    BY <2>1, <2>3 DEF Rests, disk
<1>5. CASE BeginStore(t) \/ WriteFile(t) \/ SyncFile(t)
  <2>1. y \in {"CHUNK", "OPENED", "WRITTEN"}
    BY <1>5 DEF BeginStore, WriteFile, SyncFile
  <2>2. CASE (\E word \in {0, 1} : Answer(t, word)) /\ UNCHANGED disk
    BY <1>1, <2>2 DEF Answer, Rests, SessionType, disk
  <2>3. CASE BeginStore(t) /\ session' = [session EXCEPT ![t].state = "OPENED"]
                           /\ writers' = Append(writers, t)
    BY <1>1, <2>3 DEF BeginStore, SessionReady, Opens, SessionType
  <2>4. CASE WriteFile(t) /\ session' = [session EXCEPT ![t].state = "WRITTEN"]
                          /\ vault' = [vault EXCEPT !.file = t]
    BY <1>1, <2>4 DEF WriteFile, Writes, SessionType
  <2>5. CASE SyncFile(t) /\ Answer(t, 1) /\ vault' = [vault EXCEPT !.synced = TRUE]
    BY <1>1, <2>5 DEF SyncFile, Answer, Syncs, SessionType
  <2>6. QED
    <3>1. CASE BeginStore(t)
      BY <2>1, <2>2, <2>3, <3>1 DEF BeginStore
    <3>2. CASE WriteFile(t)
      BY <2>1, <2>2, <2>4, <3>2 DEF WriteFile, disk
    <3>3. CASE SyncFile(t)
      BY <2>1, <2>2, <2>5, <3>3 DEF SyncFile, disk
    <3>4. QED
      BY <1>5, <3>1, <3>2, <3>3
<1>6. CASE SessionDone(t) \/ SessionFails(t) \/ SessionTimesOut(t)
  <2>1. UNCHANGED disk /\ session'[t] = SessionDeleted
    BY <1>1, <1>6 DEF SessionDone, SessionFails, SessionTimesOut, SessionEnds
  <2>2. QED
    BY <2>1 DEF Rests, SessionDeleted, NoSession, disk
<1>7. ASSUME HandleResolve(t) \/ ConnectFails(t) \/ ClientHandleState(t) \/ ClientFails(t)
             \/ ClientTimesOut(t) \/ Cut(t)
      PROVE  session' = session /\ UNCHANGED disk
  BY <1>7 DEF HandleResolve, ConnectFails, ClientHandleState, ClientFails, ClientTimesOut, Cut
<1>8. QED
  BY <1>2, <1>3, <1>4, <1>5, <1>6, <1>7 DEF StepOf

\* No answer of a session but the one of a stored file is the word that it is.
LEMMA RepliesSayNothing ==
  ASSUME EndsTyped, NEW t \in Transfer, NEW what \in {"ack", "status"}, NEW word \in {0, 1},
         Reply(t, what, word), what = "ack" \/ word = 0, WordComes(t)'
  PROVE  WordComes(t)
<1>1. /\ toClient'[t] = IF net[t] = "up" THEN Append(toClient[t], Item(what, word)) ELSE toClient[t]
      /\ toClient[t] \in Seq(ReplyType) /\ Item(what, word) \in ReplyType
  BY ReplyTyped, TypesOf DEF Item, ReplyType
<1>2. CASE toClient'[t] = toClient[t]
  BY <1>2 DEF WordComes
<1>3. CASE toClient'[t] = Append(toClient[t], Item(what, word))
  <2>1. /\ Len(toClient'[t]) = Len(toClient[t]) + 1 /\ Len(toClient[t]) \in Nat
        /\ \A i \in 1..Len(toClient[t]) : toClient'[t][i] = toClient[t][i]
        /\ toClient'[t][Len(toClient[t]) + 1] = Item(what, word)
    BY <1>1, <1>3, Pushed, LenProperties
  <2>2. PICK i \in 1..Len(toClient'[t]) : toClient'[t][i].what = "status" /\ toClient'[t][i].at # 0
    BY DEF WordComes
  <2>3. i # Len(toClient[t]) + 1
    BY <2>1, <2>2 DEF Item
  <2>4. i \in 1..Len(toClient[t])
    BY <2>1, <2>3
  <2>5. QED
    BY <2>1, <2>2, <2>4 DEF WordComes
<1>4. QED
  BY <1>1, <1>2, <1>3

LEMMA ReadingSaysNothing ==
  ASSUME EndsTyped, NEW t \in Transfer, toClient'[t] \in {toClient[t], <<>>, Tail(toClient[t])},
         toClient'[t] = Tail(toClient[t]) => toClient[t] # <<>>, WordComes(t)'
  PROVE  WordComes(t)
<1>1. PICK i \in 1..Len(toClient'[t]) : toClient'[t][i].what = "status" /\ toClient'[t][i].at # 0
  BY DEF WordComes
<1>2. CASE toClient'[t] = toClient[t]
  BY <1>2 DEF WordComes
<1>3. CASE toClient'[t] = <<>>
  BY <1>1, <1>3
<1>4. CASE toClient'[t] = Tail(toClient[t])
  <2>1. toClient[t] \in Seq(ReplyType) /\ toClient[t] # <<>>
    BY <1>4, TypesOf
  <2>2. /\ Len(toClient[t]) \in Nat /\ Len(Tail(toClient[t])) = Len(toClient[t]) - 1
        /\ \A j \in 1..Len(Tail(toClient[t])) : Tail(toClient[t])[j] = toClient[t][j + 1]
    BY <2>1, TailOf
  <2>3. i + 1 \in 1..Len(toClient[t]) /\ toClient'[t][i] = toClient[t][i + 1]
    BY <1>1, <1>4, <2>2
  <2>4. QED
    BY <1>1, <2>3 DEF WordComes
<1>5. QED
  BY <1>2, <1>3, <1>4

LEMMA WordOfStep ==
  ASSUME EndsTyped, NEW t \in Transfer, LinkNow(t), StepOf(t), ~Syncs(t), WordComes(t)'
  PROVE  WordComes(t)
<1>1. CASE toClient' = toClient
  BY <1>1 DEF WordComes
<1>2. CASE ClientFails(t) \/ ClientTimesOut(t) \/ SessionTimesOut(t)
           \/ \E o \in {OK, ERROR} : Finish(t, o)
  <2>1. toClient'[t] \in {toClient[t], <<>>}
    BY <1>2, TypesOf DEF ClientFails, ClientTimesOut, SessionTimesOut, Finish, ClientEnds
  <2>2. QED
    BY <2>1, <1>1, ReadingSaysNothing DEF WordComes
<1>3. CASE ClientReady(t) /\ GoOn(t)
  <2>1. toClient'[t] = IF client[t].state \in ClientReads THEN Tail(toClient[t]) ELSE toClient[t]
    BY <1>3, TypesOf DEF GoOn
  <2>2. client[t].state \in ClientReads => toClient[t] # <<>>
    BY <1>3 DEF ClientReady
  <2>3. CASE client[t].state \in ClientReads
    BY <2>1, <2>2, <2>3, ReadingSaysNothing
  <2>4. CASE client[t].state \notin ClientReads
    BY <2>1, <2>4 DEF WordComes
  <2>5. QED
    BY <2>3, <2>4
<1>4. CASE SessionStep(t)
  BY <1>1, <1>4, RepliesSayNothing DEF SessionStep, ACK, NACK
<1>5. CASE BeginStore(t) \/ WriteFile(t) \/ SyncFile(t)
  <2>1. CASE Answer(t, 0)
    BY <2>1, RepliesSayNothing DEF Answer
  <2>2. CASE SyncFile(t) /\ Answer(t, 1) /\ vault' = [vault EXCEPT !.synced = TRUE]
    BY <2>2, TypesOf DEF SyncFile, Answer, Syncs, SessionType
  <2>3. QED
    BY <1>1, <1>5, <2>1, <2>2 DEF BeginStore, WriteFile, SyncFile
<1>6. CASE HandleResolve(t) \/ Connect(t) \/ ConnectFails(t) \/ SessionDone(t) \/ SessionFails(t)
           \/ Cut(t) \/ SendChunk(t)
  BY <1>1, <1>6 DEF HandleResolve, Connect, ConnectFails, SessionDone, SessionFails, Cut, SendChunk
<1>7. QED
  <2>1. CASE ClientHandleState(t)
    BY <2>1, <1>2, <1>3, <1>6 DEF ClientHandleState
  <2>2. QED
    BY <1>2, <1>4, <1>5, <1>6, <2>1 DEF StepOf

\* A client only takes a word for STATUS_OK that says so.
LEMMA OkIsRead ==
  ASSUME EndsTyped, NEW t \in Transfer, LinkNow(t), StepOf(t)
  PROVE  UNCHANGED slots \/ Finish(t, ERROR) \/ (Finish(t, OK) /\ WordComes(t))
<1>1. CASE ClientHandleState(t)
  <2>1. ClientReady(t) /\ client[t].state \in Connected
    BY <1>1 DEF ClientHandleState, ClientReady
  <2>2. CASE client[t].state = "FILE_STATUS" /\ ~Refused(t) /\ Stored(Word(t))
    <3>1. toClient[t] # <<>> /\ toClient[t] \in Seq(ReplyType)
      BY <2>1, <2>2, TypesOf, Tables DEF ClientReady
    <3>2. Head(toClient[t]) = toClient[t][1] /\ Len(toClient[t]) \in Nat /\ Len(toClient[t]) >= 1
      BY <3>1, TailOf
    <3>3. toClient[t][1].at # 0
      BY <2>2, <3>2 DEF Stored, Word
    <3>4. RepliesFrom(toClient[t], AcksRead["FILE_STATUS"])
      BY <2>1, <2>2 DEF LinkNow, Link, ToClientRight
    <3>5. AcksRead["FILE_STATUS"] = 3
      BY DEF AcksRead
    <3>6. toClient[t][1].what = "status"
      BY <3>2, <3>4, <3>5 DEF RepliesFrom, ReplyKind
    <3>7. WordComes(t)
      BY <3>2, <3>3, <3>6 DEF WordComes
    <3>8. Finish(t, OK)
      BY <1>1, <2>2 DEF ClientHandleState
    <3>9. QED
      BY <3>7, <3>8
  <2>3. CASE Refused(t) \/ (client[t].state = "FILE_STATUS" /\ ~Stored(Word(t)))
    <3>1. Refused(t) => client[t].state \notin {"FILE_STATUS", "CHUNK"}
      BY DEF Refused, AckStates
    <3>2. CASE Refused(t)
      BY <1>1, <3>1, <3>2 DEF ClientHandleState
    <3>3. CASE ~Refused(t) /\ client[t].state = "FILE_STATUS" /\ Stored(Word(t)) = FALSE
      BY <1>1, <3>3 DEF ClientHandleState
    <3>4. QED
      BY <2>3, <3>1, <3>2, <3>3 DEF Stored
  <2>4. CASE ~Refused(t) /\ client[t].state # "FILE_STATUS"
    BY <1>1, <2>4 DEF ClientHandleState, SendChunk, GoOn
  <2>5. QED
    BY <2>2, <2>3, <2>4
<1>2. CASE ~ClientHandleState(t)
  BY <1>2 DEF StepOf, HandleResolve, Connect, ConnectFails, ClientFails, ClientTimesOut,
              SessionStep, BeginStore, WriteFile, SyncFile, SessionDone, SessionFails,
              SessionTimesOut, Cut
<1>3. QED
  BY <1>1, <1>2

\* A step of a transfer tells nobody anything new, but that its file is stored.
LEMMA ToldByStep ==
  ASSUME TypeInv, NEW t \in Transfer, LinkNow(t), StepOf(t), NEW r \in Transfer, Told(r)',
         ~(r = t /\ Syncs(t))
  PROVE  Told(r)
<1>1. EndsTyped /\ SlotsInv
  BY DEF TypeInv, TypeOK
<1>2. WordComes(r)' => WordComes(r)
  <2>1. CASE r = t
    BY <1>1, <2>1, WordOfStep
  <2>2. CASE r # t
    BY <1>1, <2>2, StepTyped DEF OnlyOf, WordComes
  <2>3. QED
    BY <2>1, <2>2
<1>3. CASE UNCHANGED slots
  <2>1. Outcome(r, OK)' => Outcome(r, OK)
    BY <1>3 DEF slots, Outcome, Slot
  <2>2. asked' = asked /\ owner' = owner
    BY <1>3 DEF slots
  <2>3. QED
    BY <1>2, <2>1, <2>2 DEF Told
<1>4. ASSUME NEW o \in {OK, ERROR}, Finish(t, o), o = OK => WordComes(t)
      PROVE  Told(r)
  <2>1. PICK x \in Slot : owner[x] = t /\ status' = [status EXCEPT ![x] = o]
    BY <1>4 DEF Finish
  <2>2. UNCHANGED <<owner, asked, told, numclients>> /\ Slot' = Slot
    BY <1>4 DEF Finish, Slot
  <2>3. CASE \E s \in Slot : owner[s] = r /\ status'[s] = OK
    <3>1. PICK s \in Slot : owner[s] = r /\ status'[s] = OK
      BY <2>3
    <3>2. CASE s = x /\ o = OK
      BY <1>4, <2>1, <3>1, <3>2 DEF Told
    <3>3. CASE s # x \/ o = ERROR
      <4>1. status[s] = OK
        BY <1>1, <2>1, <3>1, <3>3, SlotsAre DEF OK, ERROR
      <4>2. QED
        BY <3>1, <4>1 DEF Told, Outcome
    <3>4. QED
      BY <3>2, <3>3
  <2>4. CASE ~\E s \in Slot : owner[s] = r /\ status'[s] = OK
    BY <1>2, <2>2, <2>4 DEF Told, Outcome
  <2>5. QED
    BY <2>3, <2>4
<1>5. Finish(t, ERROR) => Told(r)
  BY <1>4 DEF OK, ERROR
<1>6. Finish(t, OK) /\ WordComes(t) => Told(r)
  BY <1>4
<1>7. QED
  BY <1>1, <1>3, <1>5, <1>6, OkIsRead

LEMMA StepKeepsStored ==
  ASSUME ShortWrites = FALSE, TypeInv, LinkInv, StoreInv, NEW t \in Transfer, StepOf(t)
  PROVE  StoreInv'
<1>1. /\ EndsTyped /\ LinkNow(t) /\ OnlyOf(t) /\ writers \in Seq(Transfer)
      /\ vault \in [file : {Torn} \cup 0..MaxTransfer, synced : BOOLEAN]
  BY StepTyped DEF TypeInv, TypeOK, LinkInv, Linked, LinkNow, ServerTyped
<1>2. Opens(t) \/ Writes(t) \/ Syncs(t) \/ Rests(t)
  BY <1>1, DiskOfStep
<1>3. ASSUME NEW r \in Transfer PROVE r # t => session'[r] = session[r]
  BY <1>1 DEF OnlyOf
<1>4. Len(writers) \in Nat
  BY <1>1, LenProperties
<1>5. Opens(t) => /\ Len(writers') = Len(writers) + 1 /\ writers'[Len(writers')] = t
                  /\ \A i \in 1..Len(writers) : writers'[i] = writers[i]
                  /\ writers' # <<>>
  <2>1. ASSUME Opens(t)
        PROVE  /\ Len(writers') = Len(writers) + 1 /\ writers'[Len(writers')] = t
               /\ \A i \in 1..Len(writers) : writers'[i] = writers[i]
               /\ writers' \in Seq(Transfer)
    BY <1>1, <2>1, Pushed DEF Opens
  <2>2. Opens(t) => writers' # <<>>
    BY <1>4, <2>1, EmptySeq
  <2>3. QED
    BY <2>1, <2>2
<1>6. Writes(t) \/ Syncs(t) => Storing(t) /\ writers # <<>> /\ writers[Len(writers)] = t
  BY DEF Writes, Syncs, Storing, StoreInv, LastIsStoring
<1>7. ASSUME NEW r \in Transfer, StoredBy(r), session[r].state \in {"DONE", "deleted"}
      PROVE  StoredBy(r)' /\ session'[r].state \in {"DONE", "deleted"}
  <2>1. session'[r].state \in {"DONE", "deleted"}
    BY <1>1, <1>3, <1>7, DiskOfStep
  <2>2. PICK i \in 1..Len(writers) : /\ writers[i] = r
                                     /\ i = Len(writers) => vault = [file |-> r, synced |-> TRUE]
    BY <1>7 DEF StoredBy
  <2>3. CASE Rests(t)
    BY <1>7, <2>1, <2>3 DEF Rests, StoredBy
  <2>4. CASE Opens(t)
    <3>1. i \in 1..Len(writers') /\ i # Len(writers') /\ writers'[i] = r
      BY <1>4, <1>5, <2>2, <2>4
    <3>2. QED
      BY <2>1, <3>1 DEF StoredBy
  <2>5. CASE Writes(t) \/ Syncs(t)
    <3>1. r # t
      BY <1>6, <1>7, <2>5 DEF Storing
    <3>2. i # Len(writers) /\ writers' = writers
      BY <1>6, <2>2, <2>5, <3>1 DEF Writes, Syncs
    <3>3. QED
      BY <2>1, <2>2, <3>2 DEF StoredBy
  <2>6. QED
    BY <1>2, <2>1, <2>3, <2>4, <2>5
<1>8. ASSUME Syncs(t) PROVE StoredBy(t)' /\ session'[t].state \in {"DONE", "deleted"}
  <2>1. vault.file = t
    BY <1>8 DEF Syncs, StoreInv, WrittenIsIn
  <2>2. vault' = [file |-> t, synced |-> TRUE]
    BY <1>1, <1>8, <2>1 DEF Syncs
  <2>3. Len(writers) \in 1..Len(writers)
    <3>1. Len(writers) # 0
      BY <1>1, <1>6, <1>8, EmptySeq
    <3>2. QED
      BY <1>4, <3>1
  <2>4. StoredBy(t)'
    BY <1>6, <1>8, <2>2, <2>3 DEF StoredBy, Syncs
  <2>5. QED
    BY <1>8, <2>4 DEF Syncs
<1>9. WordIsTrue'
  <2>1. ASSUME NEW r \in Transfer, Told(r)'
        PROVE  StoredBy(r)' /\ session'[r].state \in {"DONE", "deleted"}
    <3>1. CASE r = t /\ Syncs(t)
      BY <1>8, <3>1
    <3>2. CASE ~(r = t /\ Syncs(t))
      <4>1. Told(r)
        BY <1>1, <2>1, <3>2, ToldByStep
      <4>2. QED
        BY <1>7, <4>1 DEF StoreInv, WordIsTrue
    <3>3. QED
      BY <3>1, <3>2
  <2>2. QED
    BY <2>1 DEF WordIsTrue
<1>10. ASSUME NEW r \in Transfer, Storing(r)'
       PROVE  writers' # <<>> /\ writers'[Len(writers')] = r
  <2>1. CASE Opens(t)
    <3>1. r = t
      BY <1>3, <1>10, <2>1 DEF Opens, ThreadFree, Storing
    <3>2. QED
      BY <1>5, <2>1, <3>1
  <2>2. CASE ~Opens(t)
    <3>1. writers' = writers
      BY <1>2, <2>2 DEF Writes, Syncs, Rests
    <3>2. Storing(r)
      <4>1. CASE r = t
        BY <1>2, <1>10, <2>2, <4>1 DEF Storing, Writes, Syncs, Rests
      <4>2. CASE r # t
        BY <1>3, <1>10, <4>2 DEF Storing
      <4>3. QED
        BY <4>1, <4>2
    <3>3. QED
      BY <3>1, <3>2 DEF StoreInv, LastIsStoring
  <2>3. QED
    BY <2>1, <2>2
<1>11. ASSUME NEW r \in Transfer, session'[r].state = "WRITTEN"
       PROVE  vault'.file = r
  <2>1. CASE r = t
    <3>1. CASE Writes(t)
      BY <1>1, <2>1, <3>1 DEF Writes
    <3>2. CASE Rests(t)
      BY <1>11, <2>1, <3>2 DEF Rests, StoreInv, WrittenIsIn
    <3>3. ~Opens(t) /\ ~Syncs(t)
      BY <1>11, <2>1 DEF Opens, Syncs
    <3>4. QED
      BY <1>2, <3>1, <3>2, <3>3
  <2>2. CASE r # t
    <3>1. session[r].state = "WRITTEN" /\ Storing(r)
      BY <1>3, <1>11, <2>2 DEF Storing
    <3>2. ~Opens(t) /\ ~Writes(t) /\ ~Syncs(t)
      BY <1>6, <2>2, <3>1 DEF Opens, ThreadFree, StoreInv, LastIsStoring
    <3>3. QED
      BY <1>2, <3>1, <3>2 DEF Rests, StoreInv, WrittenIsIn
  <2>3. QED
    BY <2>1, <2>2
<1>12. LastIsStoring' /\ WrittenIsIn'
  BY <1>10, <1>11 DEF LastIsStoring, WrittenIsIn
<1>13. QED
  BY <1>9, <1>12 DEF StoreInv

\* The game's thread passes on what it reads in a slot.
LEMMA GameKeepsStored ==
  ASSUME TypeInv, LinkInv, StoreInv, UNCHANGED <<session, toClient, vault, writers>>,
         \A r \in Transfer : Told(r)' => Told(r)
  PROVE  StoreInv'
<1>1. WordIsTrue'
  BY DEF StoreInv, WordIsTrue, StoredBy
<1>2. LastIsStoring' /\ WrittenIsIn'
  BY DEF StoreInv, LastIsStoring, WrittenIsIn, Storing
<1>3. QED
  BY <1>1, <1>2 DEF StoreInv

LEMMA SendKeepsStored ==
  ASSUME TypeInv, LinkInv, StoreInv, NEW s \in Slot, NEW size \in 1..MaxSize, Send(s, size)
  PROVE  StoreInv'
<1>1. /\ SlotsInv /\ EndsTyped /\ nextTransfer \in Transfer /\ nextTransfer \in Nat
      /\ Slot' = Slot /\ asked = NotAsked /\ asked' = asked /\ told' = told
      /\ status' = [status EXCEPT ![s] = BUSY] /\ owner' = [owner EXCEPT ![s] = nextTransfer]
      /\ UNCHANGED <<session, toClient, vault, writers>>
  BY SlotsAre, Bounds DEF TypeInv, TypeOK, Send, Transfer, Slot, disk
<1>2. ASSUME NEW r \in Transfer, Told(r)' PROVE Told(r)
  <2>1. CASE WordComes(r)'
    BY <1>1, <2>1 DEF WordComes, Told
  <2>2. CASE told[r] = OK
    BY <2>2 DEF Told, Outcome
  <2>3. CASE \E x \in Slot : owner'[x] = r /\ status'[x] = OK
    <3>1. PICK x \in Slot : owner'[x] = r /\ status'[x] = OK
      BY <2>3
    <3>2. x # s
      BY <1>1, <3>1, SlotsAre DEF OK, BUSY
    <3>3. owner[x] = r /\ status[x] = OK
      BY <1>1, <3>1, <3>2, SlotsAre
    <3>4. QED
      BY <3>3 DEF Told, Outcome
  <2>4. asked'.seen # OK
    BY <1>1 DEF NotAsked, BUSY, OK
  <2>5. QED
    BY <1>1, <1>2, <2>1, <2>2, <2>3, <2>4 DEF Told, Outcome
<1>3. QED
  BY <1>1, <1>2, GameKeepsStored

LEMMA AskingKeepsStored ==
  ASSUME TypeInv, LinkInv, StoreInv, AnswerStatus \/ \E s \in Slot : ReadStatus(s)
  PROVE  StoreInv'
<1>1. /\ SlotsInv /\ Slot' = Slot /\ UNCHANGED <<session, toClient, vault, writers, owner>>
  BY DEF TypeInv, AnswerStatus, ReadStatus, Slot, disk
<1>2. ASSUME NEW r \in Transfer, Told(r)' PROVE Told(r)
  <2>1. CASE WordComes(r)'
    BY <1>1, <2>1 DEF WordComes, Told
  <2>2. CASE \E s \in Slot : ReadStatus(s)
    <3>1. PICK s \in Slot : ReadStatus(s)
      BY <2>2
    <3>2. /\ asked' = [slot |-> s, seen |-> status[s]] /\ UNCHANGED <<status, told>>
      BY <3>1 DEF ReadStatus
    <3>3. asked'.seen = OK /\ owner[asked'.slot] = r => Outcome(r, OK)
      BY <3>2 DEF Outcome
    <3>4. Outcome(r, OK)' => Outcome(r, OK)
      BY <1>1, <3>2 DEF Outcome
    <3>5. QED
      BY <1>1, <1>2, <2>1, <3>3, <3>4 DEF Told
  <2>3. CASE AnswerStatus
    <3>1. asked' = NotAsked /\ asked # NotAsked
      BY <2>3 DEF AnswerStatus
    <3>2. asked'.seen # OK
      BY <3>1 DEF NotAsked, BUSY, OK
    <3>3. CASE OutcomeSeen
      <4>1. /\ status' = [status EXCEPT ![asked.slot] = READY]
            /\ told' = [told EXCEPT ![owner[asked.slot]] = asked.seen]
        BY <2>3, <3>3 DEF AnswerStatus
      <4>2. told'[r] = OK => told[r] = OK \/ (asked.seen = OK /\ owner[asked.slot] = r)
        BY <1>1, <4>1, SlotsAre
      <4>3. \A s \in Slot : status'[s] = OK => status[s] = OK
        BY <1>1, <4>1, SlotsAre DEF READY, OK
      <4>4. QED
        BY <1>1, <1>2, <2>1, <3>2, <4>2, <4>3 DEF Told, Outcome
    <3>4. CASE ~OutcomeSeen
      <4>1. UNCHANGED <<status, told>>
        BY <2>3, <3>4 DEF AnswerStatus
      <4>2. QED
        BY <1>1, <1>2, <2>1, <3>2, <4>1 DEF Told, Outcome
    <3>5. QED
      BY <3>3, <3>4
  <2>4. QED
    BY <2>2, <2>3
<1>3. QED
  BY <1>1, <1>2, GameKeepsStored

\* What was synced is still there after a crash.
LEMMA CrashKeepsStored ==
  ASSUME TypeInv, LinkInv, StoreInv, Crash
  PROVE  StoreInv'
<1>1. UNCHANGED <<numclients, owner, status, asked, told, writers>> /\ Slot' = Slot
  BY DEF Crash, slots, Slot
<1>2. vault' = vault \/ ~vault.synced
  <2>1. PICK f \in {vault.file, IF vault.synced THEN vault.file ELSE Torn} :
          vault' = [file |-> f, synced |-> TRUE]
    BY DEF Crash
  <2>2. vault \in [file : {Torn} \cup 0..MaxTransfer, synced : BOOLEAN]
    BY DEF TypeInv, TypeOK, ServerTyped
  <2>3. CASE vault.synced
    <3>1. f = vault.file /\ vault.synced = TRUE
      BY <2>2, <2>3
    <3>2. vault = [file |-> vault.file, synced |-> vault.synced]
      BY <2>2
    <3>3. QED
      BY <2>1, <3>1, <3>2
  <2>4. QED
    BY <2>3
<1>3. ASSUME NEW r \in Transfer
      PROVE  /\ session'[r].state \notin {"OPENED", "WRITTEN"}
             /\ session[r].state \in {"DONE", "deleted"} => session'[r].state \in {"DONE", "deleted"}
             /\ toClient'[r] = <<>>
  BY DEF Crash, HasSession, SessionDeleted, NoSession
<1>4. ASSUME NEW r \in Transfer, Told(r)'
      PROVE  StoredBy(r)' /\ session'[r].state \in {"DONE", "deleted"}
  <2>1. ~WordComes(r)'
    BY <1>3 DEF WordComes
  <2>2. Told(r)
    BY <1>1, <1>4, <2>1 DEF Told, Outcome
  <2>3. StoredBy(r) /\ session[r].state \in {"DONE", "deleted"}
    BY <2>2 DEF StoreInv, WordIsTrue
  <2>4. PICK i \in 1..Len(writers) : /\ writers[i] = r
                                     /\ i = Len(writers) => vault = [file |-> r, synced |-> TRUE]
    BY <2>3 DEF StoredBy
  <2>5. i = Len(writers) => vault' = [file |-> r, synced |-> TRUE]
    BY <1>2, <2>4
  <2>6. QED
    BY <1>1, <1>3, <2>3, <2>4, <2>5 DEF StoredBy
<1>5. QED
  BY <1>3, <1>4 DEF StoreInv, WordIsTrue, LastIsStoring, WrittenIsIn, Storing

LEMMA StoreInductive ==
  ASSUME ShortWrites = FALSE
  PROVE  TypeInv /\ LinkInv /\ StoreInv /\ [Next]_vars => StoreInv'
<1> SUFFICES ASSUME TypeInv, LinkInv, StoreInv, [Next]_vars PROVE StoreInv'
  OBVIOUS
<1>1. ASSUME NEW t \in Transfer, StepOf(t) PROVE StoreInv'
  BY <1>1, StepKeepsStored
<1>2. CASE AnswerStatus \/ \E s \in Slot : ReadStatus(s)
  BY <1>2, AskingKeepsStored
<1>3. CASE Restart \/ UNCHANGED vars
  <2>1. UNCHANGED slots /\ UNCHANGED <<session, toClient, vault, writers>>
    BY <1>3 DEF Restart, vars, disk
  <2>2. \A r \in Transfer : Told(r)' => Told(r)
    BY <2>1 DEF Told, Outcome, WordComes, slots, Slot
  <2>3. QED
    BY <2>1, <2>2, GameKeepsStored
<1>4. ASSUME NEW s \in Slot, NEW size \in 1..MaxSize, Send(s, size) PROVE StoreInv'
  BY <1>4, SendKeepsStored
<1>5. CASE Crash
  BY <1>5, CrashKeepsStored
<1>6. QED
  BY <1>1, <1>2, <1>3, <1>4, <1>5, NextIs

\* A script that is told STATUS_OK finds the whole character in the other server's
\* vault, whatever that server does next, until another transfer opens the file, unless
\* write() leaves the file shorter than it was told, which the server does not look for.
THEOREM OkIsStored ==
  ASSUME ShortWrites = FALSE
  PROVE  Spec => []OkMeansStored
<1>1. TypeInv /\ LinkInv /\ StoreInv /\ [Next]_vars => StoreInv'
  BY StoreInductive
<1>2. StoreInv => OkMeansStored
  BY DEF StoreInv, WordIsTrue, Told, StoredBy, OkMeansStored
<1>3. QED
  BY <1>1, <1>2, StoreInit, TypesAlways, LinksAlways, PTL DEF Spec
-------------------------------------------------------------------------------
(* Transfers go forward: what liveness rests on.                             *)

\* How far from its end a client's state is, and a session's.
ClientPlace ==
  [SEND_CMD |-> 13, RECV_ACK_CMD |-> 12, SEND_ENC_PWD |-> 11, RECV_ACK_PWD |-> 10,
   SEND_ENC_PIDLEN |-> 9, SEND_ENC_PID |-> 8, SEND_ENC_BICNAMELEN |-> 7,
   SEND_ENC_BICNAME |-> 6, RECV_REDUNDANT_ACK_CMD |-> 5, SEND_FILESIZE |-> 4, CHUNK |-> 3,
   LAST_CHUNK |-> 2, FILE_STATUS |-> 1]
SessionPlace ==
  [none |-> 16, RECV_CMD |-> 15, SEND_ACK_CMD |-> 14, RECV_ENC_PWD |-> 13, SEND_ACK_PWD |-> 12,
   RECV_ENC_PIDLEN |-> 11, RECV_ENC_PID |-> 10, RECV_ENC_BICNAMELEN |-> 9,
   RECV_ENC_BICNAME |-> 8, SEND_REDUNDANT_ACK_CMD |-> 7, RECV_FILESIZE |-> 6,
   RECV_CMPFSIZE |-> 5, CHUNK |-> 4, OPENED |-> 3, WRITTEN |-> 2, DONE |-> 1, deleted |-> 0]

\* What client c has still to do: addresses to try, states, and pieces of the file.
FileLeft(c) == IF c.pos < c.size THEN c.size - c.pos ELSE 0
ClientLeft(c) ==
  IF c.state = "deleted" THEN 0
  ELSE IF c.state = "none" THEN MaxEndpoints + MaxSize + 16
  ELSE IF c.state = "RESOLVE" THEN MaxEndpoints + MaxSize + 15
  ELSE IF c.state = "CONNECT" THEN c.endpoints + MaxSize + 14
  ELSE ClientPlace[c.state] + FileLeft(c)
SessionLeft(s) == SessionPlace[s.state]

\* A step changes nothing about a client, or brings it nearer to its end; and so for a session.
GoesForward(t) ==
  /\ client'[t] = client[t] \/ ClientLeft(client'[t]) < ClientLeft(client[t])
  /\ session'[t] = session[t] \/ SessionLeft(session'[t]) < SessionLeft(session[t])

LEMMA PlacesFall ==
  /\ \A s \in Connected : ClientPlace[s] \in 1..13
  /\ \A s \in DOMAIN ClientNext : ClientPlace[ClientNext[s]] < ClientPlace[s]
  /\ \A s \in DOMAIN SessionNext :
       /\ SessionPlace[s] \in 5..15 /\ SessionPlace[SessionNext[s]] < SessionPlace[s]
  /\ ClientPlace["LAST_CHUNK"] < ClientPlace["CHUNK"] /\ ClientPlace["SEND_CMD"] = 13
<1>1. \A s \in Connected : ClientPlace[s] \in 1..13
  BY Tables DEF ClientPlace
<1>2. \A s \in DOMAIN ClientNext : ClientPlace[ClientNext[s]] < ClientPlace[s]
  BY TheStates DEF ClientPlace, ClientNext
<1>3. \A s \in DOMAIN SessionNext : SessionPlace[s] \in 5..15
  BY TheStates DEF SessionPlace
<1>4. \A s \in DOMAIN SessionNext : SessionPlace[SessionNext[s]] < SessionPlace[s]
  BY TheStates DEF SessionPlace, SessionNext
<1>5. ClientPlace["LAST_CHUNK"] < ClientPlace["CHUNK"] /\ ClientPlace["SEND_CMD"] = 13
  BY DEF ClientPlace
<1>6. QED
  BY <1>1, <1>2, <1>3, <1>4, <1>5

\* What is left is a number, and more than nothing for whom is not deleted.
LEMMA LeftIsNat ==
  ASSUME NEW c \in ClientType
  PROVE  /\ FileLeft(c) \in 0..MaxSize
         /\ c.state \in Connected => ClientLeft(c) = ClientPlace[c.state] + FileLeft(c)
         /\ c.state # "deleted" => ClientLeft(c) \in 1..(MaxEndpoints + MaxSize + 16)
         /\ c.state = "deleted" => ClientLeft(c) = 0
<1>1. /\ c.state \in {"none", "deleted", "RESOLVE", "CONNECT"} \cup Connected
      /\ c.pos \in Nat /\ c.size \in 0..MaxSize /\ c.endpoints \in 0..MaxEndpoints
  BY DEF ClientType
<1>2. FileLeft(c) \in 0..MaxSize
  BY <1>1, Bounds DEF FileLeft
<1>3. ASSUME c.state \in Connected
      PROVE  /\ ClientLeft(c) = ClientPlace[c.state] + FileLeft(c)
             /\ ClientLeft(c) \in 1..(MaxEndpoints + MaxSize + 16)
  <2>1. ClientLeft(c) = ClientPlace[c.state] + FileLeft(c)
    BY <1>3, StatesApart DEF ClientLeft
  <2>2. ClientPlace[c.state] \in 1..13
    BY <1>3, PlacesFall
  <2>3. QED
    BY <1>2, <2>1, <2>2, Bounds
<1>4. c.state \in {"none", "RESOLVE", "CONNECT"} => ClientLeft(c) \in 1..(MaxEndpoints + MaxSize + 16)
  BY <1>1, Bounds DEF ClientLeft
<1>5. c.state = "deleted" => ClientLeft(c) = 0
  BY DEF ClientLeft
<1>6. QED
  BY <1>1, <1>2, <1>3, <1>4, <1>5

LEMMA SessionLeftIsNat ==
  ASSUME NEW s \in SessionType
  PROVE  SessionLeft(s) \in 0..16 /\ (s.state # "deleted" => SessionLeft(s) > 0)
<1>1. s.state \in {"none", "deleted", "CHUNK", "OPENED", "WRITTEN", "DONE"} \cup DOMAIN SessionNext
  BY DEF SessionType
<1>2. CASE s.state \in DOMAIN SessionNext
  <2>1. SessionPlace[s.state] \in 5..15
    BY <1>2, PlacesFall
  <2>2. QED
    BY <2>1 DEF SessionLeft
<1>3. CASE s.state \in {"none", "deleted", "CHUNK", "OPENED", "WRITTEN", "DONE"}
  BY <1>3 DEF SessionLeft, SessionPlace
<1>4. QED
  BY <1>1, <1>2, <1>3

\* The deletion of either brings it to its end.
LEMMA ClientGoesForward ==
  ASSUME EndsTyped, EndsTyped', NEW t \in Transfer, session' = session,
         client[t].state # "deleted", client'[t].state = "deleted"
  PROVE  GoesForward(t)
<1>1. client[t] \in ClientType /\ client'[t] \in ClientType /\ session[t] \in SessionType
  BY DEF EndsTyped
<1>2. ClientLeft(client[t]) \in 1..(MaxEndpoints + MaxSize + 16) /\ ClientLeft(client'[t]) = 0
  BY <1>1, LeftIsNat
<1>3. ClientLeft(client'[t]) < ClientLeft(client[t])
  BY <1>2, Bounds
<1>4. QED
  BY <1>3 DEF GoesForward

LEMMA SessionGoesForward ==
  ASSUME EndsTyped, NEW t \in Transfer, client'[t] = client[t],
         session[t].state # "deleted", session'[t].state = "deleted"
  PROVE  GoesForward(t)
<1>1. session[t] \in SessionType /\ client[t] \in ClientType
  BY DEF EndsTyped
<1>2. SessionLeft(session[t]) > 0
  BY <1>1, SessionLeftIsNat
<1>3. SessionLeft(session'[t]) = 0
  BY DEF SessionLeft, SessionPlace
<1>4. QED
  BY <1>2, <1>3 DEF GoesForward

\* Before there is a connection.
LEMMA BeginGoesForward ==
  ASSUME EndsTyped, EndsTyped', NEW t \in Transfer, HandleResolve(t) \/ ConnectFails(t)
  PROVE  GoesForward(t)
<1>1. /\ session' = session /\ client[t].state \in {"RESOLVE", "CONNECT"}
      /\ client[t] \in ClientType /\ client'[t] \in ClientType
  BY DEF HandleResolve, ConnectFails, EndsTyped
<1>2. client[t].endpoints \in 0..MaxEndpoints /\ client'[t].endpoints \in 0..MaxEndpoints
  BY <1>1 DEF ClientType
<1>3. CASE client' = [client EXCEPT ![t] = Deleted]
  <2>1. client'[t].state = "deleted"
    BY <1>3 DEF EndsTyped, Deleted, NoClient
  <2>2. QED
    BY <1>1, <2>1, ClientGoesForward
<1>4. ASSUME client[t].state = "RESOLVE", client'[t].state = "CONNECT" PROVE GoesForward(t)
  <2>1. /\ ClientLeft(client[t]) = MaxEndpoints + MaxSize + 15
        /\ ClientLeft(client'[t]) = client'[t].endpoints + MaxSize + 14
    BY <1>4 DEF ClientLeft
  <2>2. ClientLeft(client'[t]) < ClientLeft(client[t])
    BY <1>2, <2>1, Bounds
  <2>3. QED
    BY <1>1, <2>2 DEF GoesForward
<1>5. ASSUME client[t].state = "CONNECT", client'[t].state = "CONNECT",
             client'[t].endpoints = client[t].endpoints - 1
      PROVE  GoesForward(t)
  <2>1. /\ ClientLeft(client[t]) = client[t].endpoints + MaxSize + 14
        /\ ClientLeft(client'[t]) = client'[t].endpoints + MaxSize + 14
    BY <1>5 DEF ClientLeft
  <2>2. ClientLeft(client'[t]) < ClientLeft(client[t])
    BY <1>2, <1>5, <2>1, Bounds
  <2>3. QED
    BY <1>1, <2>2 DEF GoesForward
<1>6. CASE HandleResolve(t)
  <2>1. \/ client' = [client EXCEPT ![t] = Deleted]
        \/ \E m \in 1..MaxEndpoints :
             client' = [client EXCEPT ![t] = [client[t] EXCEPT !.state = "CONNECT", !.endpoints = m]]
    BY <1>6 DEF HandleResolve
  <2>2. ASSUME NEW m \in 1..MaxEndpoints,
               client' = [client EXCEPT ![t] = [client[t] EXCEPT !.state = "CONNECT", !.endpoints = m]]
        PROVE  client'[t].state = "CONNECT"
    BY <1>1, <2>2 DEF EndsTyped, ClientType
  <2>3. client[t].state = "RESOLVE"
    BY <1>6 DEF HandleResolve
  <2>4. QED
    BY <1>3, <1>4, <2>1, <2>2, <2>3
<1>7. CASE ConnectFails(t)
  <2>1. client' = [client EXCEPT ![t] =
                     IF client[t].endpoints > 1
                     THEN [client[t] EXCEPT !.endpoints = client[t].endpoints - 1]
                     ELSE Deleted]
    BY <1>7 DEF ConnectFails
  <2>2. CASE client[t].endpoints > 1
    <3>1. client'[t] = [client[t] EXCEPT !.endpoints = client[t].endpoints - 1]
      BY <2>1, <2>2 DEF EndsTyped
    <3>2. client[t].state = "CONNECT"
      BY <1>7 DEF ConnectFails
    <3>3. client'[t].state = "CONNECT" /\ client'[t].endpoints = client[t].endpoints - 1
      BY <1>1, <3>1, <3>2 DEF ClientType
    <3>4. QED
      BY <1>5, <3>2, <3>3
  <2>3. CASE ~(client[t].endpoints > 1)
    BY <1>3, <2>1, <2>3
  <2>4. QED
    BY <2>2, <2>3
<1>8. QED
  BY <1>6, <1>7

LEMMA ConnectGoesForward ==
  ASSUME EndsTyped, EndsTyped', NEW t \in Transfer, LinkNow(t), Connect(t)
  PROVE  GoesForward(t)
<1>1. /\ client[t] \in ClientType /\ client[t].state = "CONNECT" /\ client'[t] \in ClientType
      /\ client'[t] = [client[t] EXCEPT !.state = "SEND_CMD"]
      /\ session'[t] = [session[t] EXCEPT !.state = "RECV_CMD"]
      /\ session[t] \in SessionType
  BY DEF Connect, EndsTyped
<1>2. client'[t].state = "SEND_CMD" /\ session'[t].state = "RECV_CMD"
  BY <1>1 DEF ClientType, SessionType
<1>3. session[t].state = "none"
  BY <1>1 DEF LinkNow, Link, EndsAgree, NoSession
<1>4. SessionLeft(session'[t]) < SessionLeft(session[t])
  BY <1>2, <1>3 DEF SessionLeft, SessionPlace
<1>5. ClientLeft(client'[t]) = 13 + FileLeft(client'[t]) /\ FileLeft(client'[t]) \in 0..MaxSize
  BY <1>1, <1>2, Tables, LeftIsNat, PlacesFall
<1>6. ClientLeft(client[t]) = client[t].endpoints + MaxSize + 14 /\ client[t].endpoints \in Nat
  BY <1>1 DEF ClientLeft, ClientType
<1>7. ClientLeft(client'[t]) < ClientLeft(client[t])
  BY <1>5, <1>6, Bounds
<1>8. QED
  BY <1>4, <1>7 DEF GoesForward

\* Each state that a client leaves is left for good, and each piece is sent once.
LEMMA ClientStepGoesForward ==
  ASSUME EndsTyped, EndsTyped', NEW t \in Transfer,
         ClientHandleState(t) \/ ClientFails(t) \/ ClientTimesOut(t)
  PROVE  GoesForward(t)
<1>1. /\ session' = session /\ client[t].state \in Connected
      /\ client[t] \in ClientType /\ client'[t] \in ClientType
  BY DEF ClientHandleState, ClientReady, ClientFails, ClientTimesOut, ClientTimer, EndsTyped
<1>2. /\ ClientLeft(client[t]) = ClientPlace[client[t].state] + FileLeft(client[t])
      /\ FileLeft(client[t]) \in Nat /\ FileLeft(client'[t]) \in Nat
      /\ ClientPlace[client[t].state] \in Nat
  BY <1>1, LeftIsNat, PlacesFall
<1>3. CASE \E how \in {"closed", "reset"} : ClientEnds(t, how)
  <2>1. client'[t].state = "deleted"
    BY <1>3 DEF ClientEnds, EndsTyped, Deleted, NoClient
  <2>2. client[t].state # "deleted"
    BY <1>1, StatesApart
  <2>3. QED
    BY <1>1, <2>1, <2>2, ClientGoesForward
<1>4. CASE GoOn(t)
  <2> DEFINE x == client[t].state
  <2>1. /\ x \in DOMAIN ClientNext /\ ClientNext[x] \in Connected
        /\ client'[t] = [client[t] EXCEPT !.state = ClientNext[x]]
    BY <1>4, NextStates DEF GoOn, EndsTyped
  <2>2. /\ client'[t].state = ClientNext[x] /\ client'[t].pos = client[t].pos
        /\ client'[t].size = client[t].size
    BY <1>1, <2>1 DEF ClientType
  <2>3. FileLeft(client'[t]) = FileLeft(client[t])
    BY <2>2 DEF FileLeft
  <2>4. ClientLeft(client'[t]) = ClientPlace[ClientNext[x]] + FileLeft(client'[t])
    <3>1. client'[t].state \in Connected
      BY <2>1, <2>2
    <3>2. ClientLeft(client'[t]) = ClientPlace[client'[t].state] + FileLeft(client'[t])
      BY <1>1, <3>1, LeftIsNat
    <3>3. QED
      BY <2>2, <3>2
  <2>5. ClientPlace[ClientNext[x]] \in Nat /\ ClientPlace[ClientNext[x]] < ClientPlace[x]
    <3>1. ClientPlace[ClientNext[x]] \in 1..13
      BY <2>1, PlacesFall
    <3>2. ClientPlace[ClientNext[x]] < ClientPlace[x]
      BY <2>1, PlacesFall
    <3>3. QED
      BY <3>1, <3>2
  <2>7. ClientLeft(client'[t]) < ClientLeft(client[t])
    <3>1. ClientLeft(client[t]) = ClientPlace[x] + FileLeft(client[t])
      BY <1>2
    <3>2. ClientLeft(client'[t]) = ClientPlace[ClientNext[x]] + FileLeft(client[t])
      BY <2>3, <2>4
    <3>3. ClientPlace[x] \in Nat /\ FileLeft(client[t]) \in Nat
      BY <1>2
    <3>4. \A a, b, d \in Nat : a < b => a + d < b + d
      OBVIOUS
    <3>5. ClientPlace[ClientNext[x]] + FileLeft(client[t]) < ClientPlace[x] + FileLeft(client[t])
      BY <2>5, <3>3, <3>4
    <3>6. QED
      BY <3>1, <3>2, <3>5
  <2>8. QED
    BY <1>1, <2>7 DEF GoesForward
<1>5. CASE SendChunk(t)
  <2> DEFINE from == client[t].pos
             next == IF IsLastChunk(from + ChunkLength, client[t].size) THEN "LAST_CHUNK" ELSE "CHUNK"
  <2>1. /\ client[t].state = "CHUNK"
        /\ client'[t] = [client[t] EXCEPT !.pos = from + ChunkLength, !.state = next]
    BY <1>5 DEF SendChunk, EndsTyped
  <2>2. /\ client'[t].pos = from + ChunkLength /\ client'[t].state = next
        /\ client'[t].size = client[t].size /\ from \in Nat /\ client[t].size \in Nat
    BY <1>1, <2>1, Bounds DEF ClientType
  <2>3. next \in Connected /\ ClientLeft(client'[t]) = ClientPlace[next] + FileLeft(client'[t])
    BY <1>1, <2>2, Tables, LeftIsNat
  <2>4. CASE from + ChunkLength >= client[t].size
    <3>1. next = "LAST_CHUNK" /\ FileLeft(client'[t]) = 0
      BY <2>2, <2>4, Bounds DEF IsLastChunk, FileLeft
    <3>2. ClientPlace["LAST_CHUNK"] \in Nat /\ ClientPlace["LAST_CHUNK"] < ClientPlace["CHUNK"]
      BY PlacesFall, Tables
    <3>3. QED
      BY <1>1, <1>2, <2>1, <2>3, <3>1, <3>2 DEF GoesForward
  <2>5. CASE ~(from + ChunkLength >= client[t].size)
    <3>1. next = "CHUNK" /\ FileLeft(client'[t]) < FileLeft(client[t])
      BY <2>2, <2>5, Bounds DEF IsLastChunk, FileLeft
    <3>2. QED
      BY <1>1, <1>2, <2>1, <2>3, <3>1 DEF GoesForward
  <2>6. QED
    BY <2>4, <2>5
<1>6. QED
  BY <1>3, <1>4, <1>5 DEF ClientHandleState, ClientFails, ClientTimesOut, Finish

\* And a session.
LEMMA SessionStepGoesForward ==
  ASSUME EndsTyped, NEW t \in Transfer,
         SessionStep(t) \/ BeginStore(t) \/ WriteFile(t) \/ SyncFile(t)
  PROVE  GoesForward(t)
<1> DEFINE x == session[t].state
<1>1. client' = client /\ session[t] \in SessionType
  BY DEF SessionStep, BeginStore, WriteFile, SyncFile, EndsTyped
<1>2. CASE SessionStep(t)
  <2>1. x \in DOMAIN SessionNext
    BY <1>2 DEF SessionStep
  <2>2. session'[t].state \in {"DONE", SessionNext[x]}
    <3>1. \/ session' = [session EXCEPT ![t].state = "DONE"]
          \/ session' = [session EXCEPT ![t] =
                           [session[t] EXCEPT
                              !.state = SessionNext[x],
                              !.cmpsize = IF x = "RECV_CMPFSIZE" THEN Head(toServer[t]).at
                                          ELSE session[t].cmpsize]]
      BY <1>2 DEF SessionStep
    <3>2. CASE session' = [session EXCEPT ![t].state = "DONE"]
      BY <1>1, <3>2 DEF EndsTyped, SessionType
    <3>3. ASSUME NEW c,
                 session' = [session EXCEPT ![t] =
                               [session[t] EXCEPT !.state = SessionNext[x], !.cmpsize = c]]
          PROVE  session'[t].state = SessionNext[x]
      BY <1>1, <3>3 DEF EndsTyped, SessionType
    <3>4. QED
      BY <3>1, <3>2, <3>3
  <2>3. /\ SessionPlace[x] \in 5..15 /\ SessionPlace[SessionNext[x]] < SessionPlace[x]
        /\ SessionPlace["DONE"] = 1
    BY <2>1, PlacesFall DEF SessionPlace
  <2>4. SessionLeft(session'[t]) < SessionLeft(session[t])
    BY <2>2, <2>3 DEF SessionLeft
  <2>5. QED
    BY <1>1, <2>4 DEF GoesForward
<1>3. ASSUME x \in {"CHUNK", "OPENED", "WRITTEN"},
             \/ session'[t].state = "DONE"
             \/ x = "CHUNK" /\ session'[t].state = "OPENED"
             \/ x = "OPENED" /\ session'[t].state = "WRITTEN"
      PROVE  GoesForward(t)
  <2>1. SessionLeft(session'[t]) < SessionLeft(session[t])
    BY <1>3 DEF SessionLeft, SessionPlace
  <2>2. QED
    BY <1>1, <2>1 DEF GoesForward
<1>4. (\E word \in {0, 1} : Answer(t, word)) => session'[t].state = "DONE"
  BY <1>1 DEF Answer, EndsTyped, SessionType
<1>5. ASSUME NEW y, session' = [session EXCEPT ![t].state = y] PROVE session'[t].state = y
  BY <1>1, <1>5 DEF EndsTyped, SessionType
<1>6. CASE BeginStore(t)
  BY <1>3, <1>4, <1>5, <1>6 DEF BeginStore
<1>7. CASE WriteFile(t)
  BY <1>3, <1>4, <1>5, <1>7 DEF WriteFile
<1>8. CASE SyncFile(t)
  BY <1>3, <1>4, <1>8 DEF SyncFile
<1>9. QED
  BY <1>2, <1>6, <1>7, <1>8

LEMMA StepGoesForward ==
  ASSUME EndsTyped, EndsTyped', NEW t \in Transfer, LinkNow(t), StepOf(t)
  PROVE  GoesForward(t)
<1>1. CASE HandleResolve(t) \/ ConnectFails(t)
  BY <1>1, BeginGoesForward
<1>2. CASE Connect(t)
  BY <1>2, ConnectGoesForward
<1>3. CASE ClientHandleState(t) \/ ClientFails(t) \/ ClientTimesOut(t)
  BY <1>3, ClientStepGoesForward
<1>4. CASE SessionStep(t) \/ BeginStore(t) \/ WriteFile(t) \/ SyncFile(t)
  BY <1>4, SessionStepGoesForward
<1>5. CASE SessionDone(t) \/ SessionFails(t) \/ SessionTimesOut(t)
  <2>1. client' = client /\ session[t].state # "deleted"
    BY <1>5 DEF SessionDone, SessionFails, SessionTimesOut, HasSession
  <2>2. session'[t].state = "deleted"
    BY <1>5 DEF SessionDone, SessionFails, SessionTimesOut, SessionEnds, EndsTyped,
                SessionDeleted, NoSession
  <2>3. client'[t] = client[t]
    BY <2>1
  <2>4. QED
    BY <2>1, <2>2, <2>3, SessionGoesForward
<1>6. CASE Cut(t)
  BY <1>6 DEF Cut, GoesForward
<1>7. QED
  BY <1>1, <1>2, <1>3, <1>4, <1>5, <1>6 DEF StepOf

\* No transfer goes round in a circle: whatever happens to it (refusals, time-outs, cuts,
\* crashes of the server's machine), each step of client.cpp's handle_state and of the session's
\* leaves it less to do, out of a number that the addresses and the file's pieces bound.
\* So a transfer makes a bounded number of steps, and then it is over or waits for a timer.
THEOREM TransfersGoForward ==
  Spec => /\ [](\A t \in Transfer : /\ ClientLeft(client[t]) \in 0..(MaxEndpoints + MaxSize + 16)
                                    /\ SessionLeft(session[t]) \in 0..16)
          /\ [][\A t \in Transfer : GoesForward(t)]_vars
<1>1. ASSUME EndsTyped
      PROVE  \A t \in Transfer : /\ ClientLeft(client[t]) \in 0..(MaxEndpoints + MaxSize + 16)
                                 /\ SessionLeft(session[t]) \in 0..16
  <2> SUFFICES ASSUME NEW t \in Transfer
               PROVE  /\ ClientLeft(client[t]) \in 0..(MaxEndpoints + MaxSize + 16)
                      /\ SessionLeft(session[t]) \in 0..16
    OBVIOUS
  <2>1. client[t] \in ClientType /\ session[t] \in SessionType
    BY <1>1 DEF EndsTyped
  <2>2. QED
    BY <2>1, LeftIsNat, SessionLeftIsNat, Bounds
<1>2. ASSUME TypeInv, TypeInv', LinkInv, [Next]_vars
      PROVE  [\A t \in Transfer : GoesForward(t)]_vars
  <2> SUFFICES ASSUME Next, NEW r \in Transfer PROVE GoesForward(r)
    BY <1>2
  <2>1. EndsTyped /\ EndsTyped'
    BY <1>2 DEF TypeInv, TypeOK
  <2>2. ASSUME NEW t \in Transfer, StepOf(t) PROVE GoesForward(r)
    <3>1. LinkNow(t)
      BY <1>2 DEF LinkInv, Linked, LinkNow
    <3>2. GoesForward(t) /\ OnlyOf(t)
      BY <2>1, <2>2, <3>1, StepGoesForward, StepTyped
    <3>3. QED
      BY <3>2 DEF OnlyOf, GoesForward
  <2>3. CASE AnswerStatus \/ Restart \/ \E s \in Slot : ReadStatus(s)
    BY <2>3 DEF AnswerStatus, Restart, ReadStatus, GoesForward
  <2>4. ASSUME NEW s \in Slot, NEW size \in 1..MaxSize, Send(s, size) PROVE GoesForward(r)
    <3> DEFINE n == nextTransfer
    <3>1. n \in Transfer /\ n \in Nat /\ session' = session
      BY <1>2, <2>4, SlotsAre, Bounds DEF TypeInv, Send, Transfer
    <3>2. client[n].state = "none"
      BY <1>2, <3>1 DEF LinkInv
    <3>3. \/ client' = [client EXCEPT ![n] = Deleted]
          \/ client' = [client EXCEPT ![n] =
                          [state |-> "RESOLVE", pos |-> 0, size |-> size, endpoints |-> 0]]
      BY <2>4 DEF Send
    <3>4. CASE r # n
      BY <2>1, <3>1, <3>3, <3>4 DEF EndsTyped, GoesForward
    <3>5. CASE r = n
      <4>1. ClientLeft(client[n]) = MaxEndpoints + MaxSize + 16
        BY <3>2 DEF ClientLeft
      <4>2. client'[n].state \in {"deleted", "RESOLVE"}
        BY <2>1, <3>1, <3>3 DEF EndsTyped, Deleted, NoClient
      <4>3. ClientLeft(client'[n]) \in {0, MaxEndpoints + MaxSize + 15}
        BY <4>2 DEF ClientLeft
      <4>4. ClientLeft(client'[n]) < ClientLeft(client[n])
        BY <4>1, <4>3, Bounds
      <4>5. QED
        BY <3>1, <3>5, <4>4 DEF GoesForward
    <3>6. QED
      BY <3>4, <3>5
  <2>5. CASE Crash
    <3>1. /\ client' = client
          /\ session'[r] = IF HasSession(r) THEN SessionDeleted ELSE session[r]
      BY <2>5 DEF Crash
    <3>2. CASE HasSession(r)
      <4>1. session[r].state # "deleted" /\ session'[r].state = "deleted" /\ client'[r] = client[r]
        BY <3>1, <3>2 DEF HasSession, SessionDeleted, NoSession
      <4>2. QED
        BY <2>1, <4>1, SessionGoesForward
    <3>3. CASE ~HasSession(r)
      BY <3>1, <3>3 DEF GoesForward
    <3>4. QED
      BY <3>2, <3>3
  <2>6. QED
    BY <2>2, <2>3, <2>4, <2>5, NextIs
<1>3. TypeInv => EndsTyped
  BY DEF TypeInv, TypeOK
<1>4. QED
  BY <1>1, <1>2, <1>3, TypesAlways, LinksAlways, PTL DEF Spec
===============================================================================
