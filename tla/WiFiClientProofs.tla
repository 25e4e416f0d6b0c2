-------------------------- MODULE WiFiClientProofs --------------------------
(***************************************************************************)
(* Proofs about WiFiClient: types, and, for callers that keep each other   *)
(* out of the library, the bounds of the socket buffers.                   *)
(***************************************************************************)
EXTENDS WiFiClient, DriverProofs

-----------------------------------------------------------------------------
(* Types *)

LEMMA QueryReplies ==
    ASSUME NEW n \in Nat, NEW reply \in Replies(<<n>>)
    PROVE  reply \in Reply
<1>1. <<n>> \in Seq(Nat) /\ << >> \in Seq(Nat)
  OBVIOUS
<1> QED
  BY <1>1 DEF Replies, Reply

LEMMA DataReplies ==
    ASSUME TypeOK, NEW s \in Sockets, NEW reply \in {<<Sends(s)>>, << >>}
    PROVE  /\ Sends(s) \in Seq(Nat)
           /\ SubSeq(inbox[s], Len(Sends(s)) + 1, Len(inbox[s])) \in Seq(Nat)
           /\ DataOf(reply) \in Seq(Nat)
<1>1. inbox[s] \in Seq(Nat)
  BY DEF TypeOK
<1>2. SIZE \in Nat /\ SIZE > 0
  BY ServerDrvAssumption
<1> DEFINE m == IF Len(inbox[s]) > SIZE THEN SIZE ELSE Len(inbox[s])
<1>3. m \in Nat /\ m <= Len(inbox[s])
  BY <1>1, <1>2, LenProperties
<1>4. Sends(s) \in Seq(Nat)
  <2>1. \A i \in 1..m : inbox[s][i] \in Nat
    BY <1>1, <1>3, ElementOfSeq, LenProperties
  <2> QED
    BY <2>1, <1>3, SubSeqProperties DEF Sends
<1>5. SubSeq(inbox[s], Len(Sends(s)) + 1, Len(inbox[s])) \in Seq(Nat)
  <2>1. Len(Sends(s)) + 1 \in Int /\ Len(inbox[s]) \in Int
    BY <1>1, <1>4, LenProperties
  <2>2. \A i \in Len(Sends(s)) + 1 .. Len(inbox[s]) : inbox[s][i] \in Nat
    BY <1>1, <1>4, ElementOfSeq, LenProperties
  <2> QED
    BY <2>1, <2>2, SubSeqProperties
<1>6. DataOf(reply) \in Seq(Nat)
  <2>1. CASE reply = << >>
    BY <2>1, EmptySeq DEF DataOf
  <2>2. CASE reply # << >>
    <3>1. reply[1] \in Seq(Nat)
      BY <2>2, <1>4
    <3>2. Clocked(reply[1]) \in [1..Len(reply[1]) -> Nat]
      BY <3>1, ElementOfSeq DEF Clocked
    <3>3. Len(reply[1]) \in Nat
      BY <3>1, LenProperties
    <3>4. Clocked(reply[1]) \in Seq(Nat)
      BY <3>2, <3>3, SeqDef
    <3> QED
      BY <2>2, <3>4, <1>2, StoredIsSeq DEF DataOf
  <2> QED
    BY <2>1, <2>2
<1> QED
  BY <1>4, <1>5, <1>6

LEMMA Constants ==
    /\ SIZE \in Nat /\ SIZE > 1 /\ 0 \in Sockets
    /\ NO_SOCKET_AVAIL \notin Sockets
    /\ Empty \in [data : BOOLEAN, head : Nat, length : Nat]
    /\ Fresh \in [data : BOOLEAN, head : Nat, length : Nat]
<1>1. SIZE \in Nat /\ SIZE > 1
  BY ServerDrvAssumption
<1>2. 0 \in Sockets /\ NO_SOCKET_AVAIL \notin Sockets
  BY ClientAssumption DEF Sockets, NO_SOCKET_AVAIL
<1>3. Empty \in [data : BOOLEAN, head : Nat, length : Nat]
  BY DEF Empty
<1>4. Fresh \in [data : BOOLEAN, head : Nat, length : Nat]
  BY DEF Fresh
<1> QED
  BY <1>1, <1>2, <1>3, <1>4

\* Closing keeps the types, and leaves nothing to read.
LEMMA CloseBufferTypes ==
    ASSUME TypeOK, NEW s \in Sockets, CloseBuffer(s)
    PROVE  /\ buf' \in [Sockets -> [data : BOOLEAN, head : Nat, length : Nat]]
           /\ mem' \in [Sockets -> [1..SIZE -> Int]]
           /\ unread' \in [Sockets -> SUBSET Int]
           /\ WindowInBlock => WindowInBlock'
<1> USE Constants DEF TypeOK, CloseBuffer, Uninit
<1>1. buf' \in [Sockets -> [data : BOOLEAN, head : Nat, length : Nat]]
  BY DEF Empty
<1>2. mem' \in [Sockets -> [1..SIZE -> Int]]
  OBVIOUS
<1>3. unread' \in [Sockets -> SUBSET Int]
  OBVIOUS
<1>4. ASSUME WindowInBlock PROVE WindowInBlock'
  BY <1>4 DEF WindowInBlock, Empty
<1> QED
  BY <1>1, <1>2, <1>3, <1>4

Types == TypeOK /\ HasSocket

LEMMA TypesInit == Init => Types
BY Constants DEF Init, Types, TypeOK, HasSocket, Labels, Ops, TcpStates, Uninit, CLOSED, Empty

\* What finishing a call, or going on with it, leaves of the types.
LEMMA FinishTypes ==
    ASSUME TypeOK, NEW t \in Tasks, Finish(t)
    PROVE  /\ pc' = [pc EXCEPT ![t] = "idle"]
           /\ pc' \in [Tasks -> Labels] /\ op' \in [Tasks -> Ops]
           /\ length' \in [Tasks -> Nat] /\ polls' \in [Tasks -> Nat]
BY DEF TypeOK, Finish, Goto, Labels, Ops

\* A lookup fails, and so a connect by name returns at once.
LEMMA NameNotFound ==
    ASSUME NEW t \in Tasks, ConnectHostname(t)
    PROVE  /\ sock' = [sock EXCEPT ![t] = 0]
           /\ UNCHANGED <<pc, op, length, polls, bufVars, espVars>>
<1>1. \A result : \A reply \in Replies(<<1>>) :
         WiFiDrv_getHostByName(HostName, reply, result, Zeros(4)) = 0
  BY QueryReplies, LookupFails
<1> QED
  BY <1>1 DEF ConnectHostname

\* Nor does a write get to wait for its data.
LEMMA WriteReturns ==
    ASSUME Types, NEW t \in Tasks, SendData(t)
    PROVE  Finish(t) /\ UNCHANGED <<sock, bufVars, espVars>>
<1>1. uint8(length[t]) \in Nat
  BY DEF Types, TypeOK, uint8
<1>2. \A reply \in Replies(<<uint8(length[t])>>) :
         ServerDrv_sendData(sock[t], << >>, reply).value = 0
  BY <1>1, QueryReplies, SendDataReturnsZero
<1> QED
  BY <1>2 DEF SendData

LEMMA CallTypes ==
    ASSUME Types, NEW t \in Tasks, TaskCalls(t)
    PROVE  Types'
<1> USE Constants DEF Types, TypeOK, HasSocket, Begin, At, Goto, Labels, Ops,
                      callVars, bufVars, espVars
<1>1. CASE Connect(t)
  BY <1>1 DEF Connect
<1>2. CASE Stop(t)
  BY <1>2 DEF Stop
<1>3. CASE Deinit(t)
  BY <1>3, SMTT(30) DEF Deinit, Empty, Uninit
<1>4. ASSUME NEW o \in {"available", "peek", "connected"}, Query(t, o)
      PROVE  Types'
  BY <1>4 DEF Query
<1>5. ASSUME NEW n \in ReadSizes, Read(t, n)
      PROVE  Types'
  BY <1>5, ClientAssumption DEF Read
<1>6. ASSUME NEW n \in WriteSizes, Write(t, n)
      PROVE  Types'
  BY <1>6, ClientAssumption DEF Write
<1>7. CASE ConnectHostname(t)
  <2>1. /\ sock' = [sock EXCEPT ![t] = 0]
        /\ UNCHANGED <<pc, op, length, polls, buf, mem, unread, tcp, inbox, sent>>
    BY <1>7, NameNotFound
  <2> QED
    BY <2>1
<1> QED
  BY <1>1, <1>2, <1>3, <1>4, <1>5, <1>6, <1>7 DEF TaskCalls

LEMMA ReturnTypes ==
    ASSUME Types, NEW t \in Tasks, NEW connected \in BOOLEAN, Return(t, connected),
           pc[t] \in {"available?", "status"}
    PROVE  /\ pc' \in [Tasks -> Labels] /\ op' \in [Tasks -> Ops]
           /\ length' \in [Tasks -> Nat] /\ polls' \in [Tasks -> Nat]
           /\ sock' \in [Tasks -> Sockets \union {NO_SOCKET_AVAIL}]
           /\ HasSocket'
           /\ \/ pc' = [pc EXCEPT ![t] = "idle"]
              \/ pc' = [pc EXCEPT ![t] = "available"]
<1> USE DEF Types, TypeOK, HasSocket, Goto, Labels, Ops
<1>1. CASE op[t] = "connected" /\ Finish(t) /\ UNCHANGED sock
  BY <1>1, FinishTypes
<1>2. CASE /\ polls' = [polls EXCEPT ![t] = @ + 1]
           /\ Goto(t, "available") /\ UNCHANGED <<op, sock, length>>
  BY <1>2
<1>3. CASE /\ op' = [op EXCEPT ![t] = "confirm"]
           /\ Goto(t, "available") /\ UNCHANGED <<sock, length, polls>>
  BY <1>3
<1>4. CASE /\ sock' = IF connected THEN sock ELSE [sock EXCEPT ![t] = NO_SOCKET_AVAIL]
           /\ Finish(t)
  BY <1>4, FinishTypes
<1> QED
  BY <1>1, <1>2, <1>3, <1>4 DEF Return

LEMMA StepTypes ==
    ASSUME Types, NEW t \in Tasks, TaskStep(t)
    PROVE  Types'
<1> USE Constants DEF Types, callVars, bufVars, espVars
<1> DEFINE s == sock[t]
<1>0. pc[t] \notin {"idle", "getSocket"} => s \in Sockets
  BY DEF HasSocket
<1>1. CASE GetSocket(t)
  <2>1. PICK r \in SocketOffers : \E reply \in Replies(<<r>>) :
            /\ sock' = [sock EXCEPT ![t] = ServerDrv_getSocket(reply).value]
            /\ IF sock'[t] = NO_SOCKET_AVAIL
               THEN Finish(t)
               ELSE Goto(t, "startClient") /\ UNCHANGED <<op, length, polls>>
    BY <1>1 DEF GetSocket
  <2>2. r \in Nat
    BY DEF SocketOffers, FreeSockets, Sockets, NO_SOCKET_AVAIL
  <2>3. PICK reply \in Replies(<<r>>) :
            /\ sock' = [sock EXCEPT ![t] = ServerDrv_getSocket(reply).value]
            /\ IF sock'[t] = NO_SOCKET_AVAIL
               THEN Finish(t)
               ELSE Goto(t, "startClient") /\ UNCHANGED <<op, length, polls>>
    BY <2>1
  <2>4. sock' = [sock EXCEPT ![t] = 0]
    BY <2>2, <2>3, QueryReplies, GetSocketReturnsZero
  <2>5. Goto(t, "startClient") /\ UNCHANGED <<op, length, polls>>
    BY <2>3, <2>4 DEF NO_SOCKET_AVAIL, TypeOK
  <2> QED
    BY <2>4, <2>5, <1>1 DEF GetSocket, TypeOK, HasSocket, Goto, Labels
<1>2. CASE StartClient(t)
  <2>1. s \in Sockets
    BY <1>0, <1>2 DEF StartClient, At
  <2>2. << >> \in Seq(Nat)
    BY EmptySeq
  <2>3. tcp' \in [Sockets -> TcpStates] /\ inbox' \in [Sockets -> Seq(Nat)]
    <3>1. CASE tcp' = [tcp EXCEPT ![s] = SYN_SENT] /\ inbox' = [inbox EXCEPT ![s] = << >>]
      <4>1. tcp' \in [Sockets -> TcpStates]
        BY <2>1, <3>1 DEF TypeOK, TcpStates
      <4>2. inbox' \in [Sockets -> Seq(Nat)]
        BY <2>1, <2>2, <3>1 DEF TypeOK
      <4> QED
        BY <4>1, <4>2
    <3>2. CASE UNCHANGED <<tcp, inbox>>
      BY <3>2 DEF TypeOK
    <3> QED
      BY <3>1, <3>2, <1>2 DEF StartClient
  <2> QED
    BY <2>1, <2>3, <1>2 DEF StartClient, At, Goto, TypeOK, HasSocket, Labels
<1>3. CASE Available(t)
  <2>1. s \in Sockets
    BY <1>0, <1>3 DEF Available, At
  <2>2. buf' \in [Sockets -> [data : BOOLEAN, head : Nat, length : Nat]]
    BY <2>1, <1>3 DEF Available, TypeOK
  <2> QED
    BY <2>1, <2>2, <1>3 DEF Available, At, Goto, TypeOK, HasSocket, Labels
<1>4. CASE GetDataBuf(t)
  <2>1. s \in Sockets
    BY <1>0, <1>4 DEF GetDataBuf, At
  <2>2. PICK reply \in {<<Sends(s)>>, << >>}, executed \in BOOLEAN :
            /\ inbox' = IF executed
                        THEN [inbox EXCEPT ![s] = SubSeq(@, Len(Sends(s)) + 1, Len(@))]
                        ELSE inbox
            /\ Fill(s, DataOf(reply))
            /\ buf' = IF ServerDrv_getDataBuf(s, reply).value # 0
                      THEN [buf EXCEPT ![s].head = 0, ![s].length = Capacity]
                      ELSE buf
    BY <1>4 DEF GetDataBuf
  <2>3. inbox' \in [Sockets -> Seq(Nat)]
    BY <2>1, <2>2, DataReplies DEF TypeOK
  <2>4. buf' \in [Sockets -> [data : BOOLEAN, head : Nat, length : Nat]]
    BY <2>1, <2>2 DEF TypeOK, Capacity
  <2>5. mem' \in [Sockets -> [1..SIZE -> Int]] /\ unread' \in [Sockets -> SUBSET Int]
    <3> DEFINE data == DataOf(reply)
    <3>0. data \in Seq(Nat)
      BY <2>1, DataReplies
    <3>1. Len(data) \in Nat /\ \A k \in 1..Len(data) : data[k] \in Int
      BY <3>0, LenProperties, ElementOfSeq
    <3>2. CASE buf[s].data
      <4>0. mem[s] \in [1..SIZE -> Int]
        BY <2>1 DEF TypeOK
      <4>1. [k \in 1..SIZE |-> IF k <= Len(data) THEN data[k] ELSE mem[s][k]] \in [1..SIZE -> Int]
        <5>1. \A k \in 1..SIZE : k <= Len(data) => k \in 1..Len(data)
          BY <3>1
        <5> QED
          BY <3>1, <4>0, <5>1
      <4>2. {data[k] : k \in 1..Len(data)} \in SUBSET Int
        BY <3>1
      <4>3. mem' = [mem EXCEPT ![s] = [k \in 1..SIZE |->
                       IF k <= Len(data) THEN data[k] ELSE mem[s][k]]]
        BY <2>1, <2>2, <3>2 DEF Fill, TypeOK
      <4>4. unread' = [unread EXCEPT ![s] =
                          unread[s] \union ({data[k] : k \in 1..Len(data)} \ {0})]
        BY <2>1, <2>2, <3>2 DEF Fill, TypeOK
      <4> QED
        BY <4>1, <4>2, <4>3, <4>4, <2>1 DEF TypeOK
    <3>3. CASE ~buf[s].data
      BY <2>2, <3>3 DEF Fill, TypeOK
    <3> QED
      BY <3>2, <3>3
  <2> QED
    BY <2>1, <2>3, <2>4, <2>5, <1>4 DEF GetDataBuf, At, Goto, TypeOK, HasSocket, Labels
<1>5. CASE Deliver(t)
  <2>1. s \in Sockets
    BY <1>0, <1>5 DEF Deliver, At
  <2> DEFINE n == Clip(buf[s].length, length[t])
  <2>2. n \in Nat /\ n <= buf[s].length
    <3>1. buf[s].length \in Nat /\ length[t] \in Nat
      BY <2>1 DEF TypeOK
    <3> QED
      BY <3>1 DEF Clip
  <2>3. buf' \in [Sockets -> [data : BOOLEAN, head : Nat, length : Nat]]
    <3>0. buf[s].head \in Nat /\ buf[s].length \in Nat
      BY <2>1 DEF TypeOK
    <3>1. buf[s].head + n \in Nat /\ buf[s].length - n \in Nat
      BY <2>2, <3>0
    <3>2. \A h, l \in Nat : [buf EXCEPT ![s].head = h, ![s].length = l]
                                \in [Sockets -> [data : BOOLEAN, head : Nat, length : Nat]]
      BY <2>1 DEF TypeOK
    <3>3. buf' = [buf EXCEPT ![s].head = buf[s].head + n, ![s].length = buf[s].length - n]
      BY <1>5 DEF Deliver
    <3> QED
      BY <3>1, <3>2, <3>3
  <2>4. unread' \in [Sockets -> SUBSET Int]
    BY <2>1, <1>5 DEF Deliver, TypeOK
  <2>5. Finish(t) /\ UNCHANGED <<sock, mem, espVars>>
    BY <1>5 DEF Deliver
  <2> QED
    BY <2>3, <2>4, <2>5, FinishTypes DEF TypeOK, HasSocket
<1>6. CASE Answer(t)
  BY <1>6, FinishTypes DEF Answer, TypeOK, HasSocket
<1>7. CASE ConnectedByData(t)
  BY <1>7, ReturnTypes DEF ConnectedByData, At, TypeOK
<1>8. CASE AskStatus(t)
  BY <1>8 DEF AskStatus, At, Goto, TypeOK, HasSocket, Labels
<1>9. CASE ConnectedByStatus(t)
  <2>1. s \in Sockets
    BY <1>0, <1>9 DEF ConnectedByStatus, At
  <2>2. PICK reply \in Replies(<<tcp[s]>>) :
           LET connected == uint8(ServerDrv_getClientState(s, reply).value) \notin Unconnected IN
           Return(t, connected) /\ (IF connected THEN UNCHANGED bufVars ELSE CloseBuffer(s))
    BY <1>9 DEF ConnectedByStatus
  <2>3. /\ buf' \in [Sockets -> [data : BOOLEAN, head : Nat, length : Nat]]
        /\ mem' \in [Sockets -> [1..SIZE -> Int]]
        /\ unread' \in [Sockets -> SUBSET Int]
    BY <2>1, <2>2, CloseBufferTypes DEF TypeOK
  <2> QED
    BY <2>2, <2>3, <1>9, ReturnTypes DEF ConnectedByStatus, At, TypeOK
<1>10. CASE StopClient(t)
  <2>1. s \in Sockets
    BY <1>0, <1>10 DEF StopClient, At
  <2>2. << >> \in Seq(Nat)
    BY EmptySeq
  <2>3. tcp' \in [Sockets -> TcpStates] /\ inbox' \in [Sockets -> Seq(Nat)]
    <3>1. CASE tcp' = [tcp EXCEPT ![s] = CLOSED] /\ inbox' = [inbox EXCEPT ![s] = << >>]
      <4>1. tcp' \in [Sockets -> TcpStates]
        BY <2>1, <3>1 DEF TypeOK, TcpStates
      <4>2. inbox' \in [Sockets -> Seq(Nat)]
        BY <2>1, <2>2, <3>1 DEF TypeOK
      <4> QED
        BY <4>1, <4>2
    <3>2. CASE UNCHANGED <<tcp, inbox>>
      BY <3>2 DEF TypeOK
    <3> QED
      BY <3>1, <3>2, <1>10 DEF StopClient
  <2> QED
    BY <2>1, <2>3, <1>10 DEF StopClient, At, Goto, TypeOK, HasSocket, Labels
<1>11. CASE StopStatus(t)
  <2>1. s \in Sockets
    BY <1>0, <1>11 DEF StopStatus, At
  <2>2. CASE /\ polls' = [polls EXCEPT ![t] = @ + 1]
             /\ UNCHANGED <<pc, op, sock, length, bufVars>>
    <3>1. polls' \in [Tasks -> Nat]
      BY <2>2, SMTT(30) DEF TypeOK
    <3> QED
      BY <3>1, <2>2, <1>11 DEF StopStatus, TypeOK, HasSocket
  <2>3. CASE Finish(t) /\ CloseBuffer(s) /\ UNCHANGED sock
    BY <2>1, <2>3, <1>11, FinishTypes, CloseBufferTypes DEF StopStatus, TypeOK, HasSocket
  <2> QED
    BY <2>2, <2>3, <1>11 DEF StopStatus
<1>12. CASE SendData(t)
  BY <1>12, WriteReturns, FinishTypes DEF TypeOK, HasSocket
<1> QED
  BY <1>1, <1>2, <1>3, <1>4, <1>5, <1>6, <1>7, <1>8, <1>9, <1>10, <1>11, <1>12 DEF TaskStep

LEMMA PeerTypes ==
    ASSUME Types, NEW s \in Sockets, Accept(s) \/ Disconnect(s) \/ Send(s)
    PROVE  Types'
<1> USE DEF Types, TypeOK, HasSocket, callVars, bufVars,
            TcpStates, CLOSED, SYN_SENT, ESTABLISHED, CLOSE_WAIT
<1>1. CASE Accept(s)
  BY <1>1 DEF Accept
<1>2. CASE Disconnect(s)
  BY <1>2 DEF Disconnect
<1>3. CASE Send(s)
  <2>1. Append(inbox[s], sent + 1) \in Seq(Nat)
    OBVIOUS
  <2> QED
    BY <2>1, <1>3 DEF Send
<1> QED
  BY <1>1, <1>2, <1>3

LEMMA TypesStep == Types /\ [Next]_vars => Types'
<1> SUFFICES ASSUME Types, [Next]_vars
             PROVE  Types'
  OBVIOUS
<1>1. CASE UNCHANGED vars
  BY <1>1 DEF vars, callVars, bufVars, espVars, Types, TypeOK, HasSocket
<1> QED
  BY <1>1, CallTypes, StepTypes, PeerTypes DEF Next

\* Every variable keeps its type, and a task in a call has a socket, whether or
\* not the callers keep each other out of the library.
THEOREM ClientTypeCorrect == Spec => []TypeOK
<1>1. Spec => []Types
  BY TypesInit, TypesStep, PTL DEF Spec
<1> QED
  BY <1>1, PTL DEF Types

-----------------------------------------------------------------------------
(* The bounds of the buffers, for serialized callers *)

CInv == Types /\ ClientInv

LEMMA ClientInvInit == Init => ClientInv
BY Constants DEF Init, ClientInv, OneActive, HasSocket, WindowInBlock, TargetAllocated, At, Empty

\* A task that starts a call is the only one.
LEMMA CallInv ==
    ASSUME Serialized, CInv, NEW t \in Tasks, TaskCalls(t)
    PROVE  ClientInv'
<1> USE DEF CInv, Types
<1>1. Types'
  BY CallTypes
<1>2. \A u \in Tasks : pc[u] = "idle"
  BY DEF TaskCalls, Connect, ConnectHostname, Stop, Deinit, Query, Read, Write,
         Begin, Exclusive, At
<1>3. CASE Deinit(t)
  <2>1. \A u \in Tasks : pc'[u] = "idle"
    BY <1>2, <1>3 DEF Deinit, callVars
  <2>2. \A s \in Sockets : buf'[s] = Empty
    BY <1>3 DEF Deinit
  <2>3. WindowInBlock'
    BY <2>2, Constants DEF WindowInBlock, Empty
  <2> QED
    BY <1>1, <2>1, <2>3 DEF ClientInv, OneActive, TargetAllocated, At
<1>4. ASSUME NEW o, NEW label \in {"getSocket", "available", "sendData", "stopClient"},
             Begin(t, o, label), UNCHANGED buf
      PROVE  ClientInv'
  <2>1. pc' = [pc EXCEPT ![t] = label]
    BY <1>4 DEF Begin, Goto
  <2>2. \A u \in Tasks : pc'[u] = IF u = t THEN label ELSE "idle"
    BY <1>2, <2>1 DEF TypeOK
  <2>3. WindowInBlock'
    BY <1>4 DEF ClientInv, WindowInBlock
  <2> QED
    BY <1>1, <2>2, <2>3 DEF ClientInv, OneActive, TargetAllocated, At
<1>5. CASE Connect(t)
  BY <1>4, <1>5 DEF Connect, bufVars
<1>6. CASE Stop(t)
  BY <1>4, <1>6 DEF Stop, bufVars
<1>7. ASSUME NEW o \in {"available", "peek", "connected"}, Query(t, o)
      PROVE  ClientInv'
  BY <1>4, <1>7 DEF Query, bufVars
<1>8. ASSUME NEW n \in ReadSizes, Read(t, n)
      PROVE  ClientInv'
  BY <1>4, <1>8 DEF Read, bufVars
<1>9. ASSUME NEW n \in WriteSizes, Write(t, n)
      PROVE  ClientInv'
  BY <1>4, <1>9 DEF Write, bufVars
<1>10. CASE ConnectHostname(t)
  <2>1. UNCHANGED <<pc, buf>>
    BY <1>10, NameNotFound DEF bufVars
  <2>2. WindowInBlock'
    BY <2>1 DEF ClientInv, WindowInBlock
  <2> QED
    BY <1>1, <1>2, <2>1, <2>2 DEF ClientInv, OneActive, TargetAllocated, At
<1> QED
  BY <1>3, <1>5, <1>6, <1>7, <1>8, <1>9, <1>10 DEF TaskCalls

\* A step of a call moves its own task only, so the others stay out.
LEMMA OthersIdle ==
    ASSUME CInv, NEW t \in Tasks, NEW label, pc[t] # "idle",
           pc' = [pc EXCEPT ![t] = label], Types'
    PROVE  /\ pc'[t] = label /\ \A u \in Tasks \ {t} : pc'[u] = "idle"
           /\ OneActive' /\ HasSocket'
BY DEF CInv, Types, TypeOK, ClientInv, OneActive, At

\* If the buffers are within bounds, and the task is not waiting for one, the
\* invariant holds.
LEMMA AwayFromBuffer ==
    ASSUME CInv, NEW t \in Tasks, Types', pc[t] # "idle",
           NEW label, label \notin {"getDataBuf", "available?"},
           pc' = [pc EXCEPT ![t] = label],
           WindowInBlock'
    PROVE  ClientInv'
BY OthersIdle DEF ClientInv, TargetAllocated, At

LEMMA UnchangedWindow ==
    ASSUME CInv, UNCHANGED buf
    PROVE  WindowInBlock'
BY DEF CInv, ClientInv, WindowInBlock

LEMMA StepInv ==
    ASSUME CInv, NEW t \in Tasks, TaskStep(t)
    PROVE  ClientInv'
<1> DEFINE s == sock[t]
<1> USE DEF bufVars
<1>t. TypeOK /\ Types /\ Types' /\ ClientInv /\ WindowInBlock
  BY StepTypes DEF CInv, Types, ClientInv
<1>s. pc[t] \notin {"idle", "getSocket"} => s \in Sockets
  BY <1>t DEF ClientInv, HasSocket
<1>b. s \in Sockets => buf[s] \in [data : BOOLEAN, head : Nat, length : Nat]
  BY <1>t DEF TypeOK
<1>1. CASE GetSocket(t)
  <2>1. \E label \in {"idle", "startClient"} : pc' = [pc EXCEPT ![t] = label]
    BY <1>1 DEF GetSocket, Finish, Goto
  <2> QED
    BY <2>1, <1>1, <1>t, UnchangedWindow, AwayFromBuffer DEF GetSocket, At
<1>2. CASE StartClient(t)
  BY <1>2, <1>t, UnchangedWindow, AwayFromBuffer DEF StartClient, At, Goto
<1>3. CASE Available(t)
  <2>1. s \in Sockets
    BY <1>s, <1>3 DEF Available, At
  <2>2. CASE NothingLeft(s)
    <3>1. /\ buf' = IF buf[s].data THEN buf ELSE [buf EXCEPT ![s] = Fresh]
          /\ pc' = [pc EXCEPT ![t] = "getDataBuf"] /\ sock' = sock
      BY <2>2, <1>3 DEF Available, Goto
    <3>2. buf'[s].data /\ buf'[s].length = 0 /\ (buf[s].data \/ buf'[s].head = 0)
      BY <2>1, <2>2, <3>1, <1>t DEF NothingLeft, Fresh, TypeOK
    <3>3. WindowInBlock'
      BY <2>1, <3>1, <3>2, <1>t, Constants DEF WindowInBlock, TypeOK
    <3>4. /\ pc'[t] = "getDataBuf" /\ \A u \in Tasks \ {t} : pc'[u] = "idle"
          /\ OneActive' /\ HasSocket'
      BY <3>1, <1>3, <1>t, OthersIdle DEF Available, At
    <3>5. TargetAllocated'
      BY <3>1, <3>2, <3>4 DEF TargetAllocated, At
    <3> QED
      BY <3>3, <3>4, <3>5 DEF ClientInv
  <2>3. CASE ~NothingLeft(s)
    <3>1. buf' = buf /\ pc' = [pc EXCEPT ![t] = "available?"] /\ sock' = sock
      BY <2>3, <1>3 DEF Available, Goto
    <3>2. buf[s].length > 0
      BY <2>1, <2>3, <1>b DEF NothingLeft
    <3>3. buf[s].data
      BY <2>1, <3>2, <1>t DEF WindowInBlock
    <3>4. /\ pc'[t] = "available?" /\ \A u \in Tasks \ {t} : pc'[u] = "idle"
          /\ OneActive' /\ HasSocket'
      BY <3>1, <1>3, <1>t, OthersIdle DEF Available, At
    <3>5. TargetAllocated'
      BY <3>1, <3>3, <3>4 DEF TargetAllocated, At
    <3> QED
      BY <3>1, <3>4, <3>5, UnchangedWindow DEF ClientInv
  <2> QED
    BY <2>2, <2>3
<1>4. CASE GetDataBuf(t)
  <2>1. s \in Sockets
    BY <1>s, <1>4 DEF GetDataBuf, At
  <2>2. buf[s].data
    BY <1>4, <1>t DEF GetDataBuf, ClientInv, TargetAllocated
  <2>3. pc' = [pc EXCEPT ![t] = "available?"] /\ sock' = sock
    BY <1>4 DEF GetDataBuf, Goto
  <2>4. \/ buf' = buf
        \/ buf' = [buf EXCEPT ![s].head = 0, ![s].length = SIZE]
    BY <1>4 DEF GetDataBuf, Capacity
  <2>5. buf'[s].data
    <3>1. CASE buf' = buf
      BY <2>2, <3>1
    <3>2. CASE buf' = [buf EXCEPT ![s].head = 0, ![s].length = SIZE]
      BY <2>1, <2>2, <3>2, <1>t DEF TypeOK
    <3> QED
      BY <2>4, <3>1, <3>2
  <2>6. WindowInBlock'
    <3>1. CASE buf' = buf
      BY <3>1, <1>t, UnchangedWindow
    <3>2. CASE buf' = [buf EXCEPT ![s].head = 0, ![s].length = SIZE]
      <4>1. /\ buf'[s].head = 0 /\ buf'[s].length = SIZE
            /\ \A r \in Sockets \ {s} : buf'[r] = buf[r]
        BY <2>1, <3>2, <1>t DEF TypeOK
      <4>2. buf'[s].head + buf'[s].length <= SIZE
        BY <4>1, Constants
      <4> QED
        BY <2>1, <2>5, <4>1, <4>2, <1>t DEF WindowInBlock
    <3> QED
      BY <2>4, <3>1, <3>2
  <2>7. /\ pc'[t] = "available?" /\ \A u \in Tasks \ {t} : pc'[u] = "idle"
        /\ OneActive' /\ HasSocket'
    BY <2>3, <1>4, <1>t, OthersIdle DEF GetDataBuf, At
  <2>8. TargetAllocated'
    BY <2>3, <2>5, <2>7 DEF TargetAllocated, At
  <2> QED
    BY <2>6, <2>7, <2>8 DEF ClientInv
<1>5. CASE Deliver(t)
  <2>1. s \in Sockets
    BY <1>s, <1>5 DEF Deliver, At
  <2> DEFINE n == Clip(buf[s].length, length[t])
  <2>2. n \in Nat /\ n <= buf[s].length
    <3>1. buf[s].length \in Nat /\ length[t] \in Nat
      BY <2>1, <1>t DEF TypeOK
    <3> QED
      BY <3>1 DEF Clip
  <2>3. /\ buf' = [buf EXCEPT ![s].head = buf[s].head + n, ![s].length = buf[s].length - n]
        /\ pc' = [pc EXCEPT ![t] = "idle"]
    BY <1>5 DEF Deliver, Finish, Goto
  <2>4. buf[s].data
    BY <1>5, <1>t DEF Deliver, ClientInv, TargetAllocated
  <2>5. /\ buf'[s].data /\ buf'[s].head = buf[s].head + n
        /\ buf'[s].length = buf[s].length - n
        /\ \A r \in Sockets \ {s} : buf'[r] = buf[r]
    BY <2>1, <2>3, <2>4, <1>t DEF TypeOK
  <2>6. buf[s].head \in Nat /\ buf[s].length \in Nat /\ buf[s].head + buf[s].length <= SIZE
    BY <2>1, <1>b, <1>t DEF WindowInBlock
  <2>7. buf'[s].head + buf'[s].length <= SIZE
    BY <2>2, <2>5, <2>6, Constants
  <2>8. WindowInBlock'
    BY <2>1, <2>5, <2>7, <1>t DEF WindowInBlock
  <2> QED
    BY <2>3, <2>8, <1>5, <1>t, AwayFromBuffer DEF Deliver, At
<1>6. CASE Answer(t)
  BY <1>6, <1>t, UnchangedWindow, AwayFromBuffer DEF Answer, Finish, At, Goto
<1>r. ASSUME NEW connected \in BOOLEAN, Return(t, connected)
      PROVE  \E label \in {"idle", "available"} : pc' = [pc EXCEPT ![t] = label]
  BY <1>r DEF Return, Finish, Goto
<1>7. CASE ConnectedByData(t)
  BY <1>7, <1>r, <1>t, UnchangedWindow, AwayFromBuffer DEF ConnectedByData, At
<1>8. CASE AskStatus(t)
  BY <1>8, <1>t, UnchangedWindow, AwayFromBuffer DEF AskStatus, At, Goto
<1>9. CASE ConnectedByStatus(t)
  <2>1. s \in Sockets
    BY <1>s, <1>9 DEF ConnectedByStatus, At
  <2>2. PICK connected \in BOOLEAN :
           Return(t, connected) /\ (IF connected THEN UNCHANGED bufVars ELSE CloseBuffer(s))
    BY <1>9 DEF ConnectedByStatus
  <2>3. WindowInBlock'
    BY <2>1, <2>2, <1>t, UnchangedWindow, CloseBufferTypes
  <2> QED
    BY <2>2, <2>3, <1>9, <1>r, <1>t, AwayFromBuffer DEF ConnectedByStatus, At
<1>10. CASE StopClient(t)
  BY <1>10, <1>t, UnchangedWindow, AwayFromBuffer DEF StopClient, At, Goto
<1>11. CASE StopStatus(t)
  <2>1. s \in Sockets
    BY <1>s, <1>11 DEF StopStatus, At
  <2>2. CASE UNCHANGED <<pc, op, sock, length, bufVars>>
    BY <2>2, <1>t DEF ClientInv, OneActive, HasSocket, WindowInBlock, TargetAllocated, At
  <2>3. CASE Finish(t) /\ CloseBuffer(s) /\ UNCHANGED sock
    <3>1. WindowInBlock'
      BY <2>1, <2>3, <1>t, CloseBufferTypes
    <3> QED
      BY <2>3, <3>1, <1>11, <1>t, AwayFromBuffer DEF StopStatus, Finish, Goto, At
  <2> QED
    BY <2>2, <2>3, <1>11 DEF StopStatus
<1>12. CASE SendData(t)
  BY <1>12, <1>t, WriteReturns, UnchangedWindow, AwayFromBuffer DEF SendData, Finish, At, Goto
<1> QED
  BY <1>1, <1>2, <1>3, <1>4, <1>5, <1>6, <1>7, <1>8, <1>9, <1>10, <1>11, <1>12 DEF TaskStep

LEMMA CInvStep ==
    ASSUME Serialized, CInv, [Next]_vars
    PROVE  CInv'
<1>1. Types'
  BY TypesStep DEF CInv
<1>2. ASSUME UNCHANGED <<callVars, bufVars>> PROVE ClientInv'
  BY <1>2 DEF CInv, ClientInv, callVars, bufVars,
              OneActive, HasSocket, WindowInBlock, TargetAllocated, At
<1>3. CASE UNCHANGED vars
  BY <1>1, <1>2, <1>3 DEF vars, CInv
<1>4. ASSUME NEW s \in Sockets, Accept(s) \/ Disconnect(s) \/ Send(s)
      PROVE  CInv'
  BY <1>1, <1>2, <1>4 DEF Accept, Disconnect, Send, CInv
<1> QED
  BY <1>1, <1>3, <1>4, CallInv, StepInv DEF Next, CInv

\* The inductive invariant holds if the callers keep each other out of the
\* library: a task in an exchange for data still owns the block it gave to the
\* parse, and only one task is in a call.
THEOREM ClientInvariant ==
    ASSUME Serialized
    PROVE  Spec => []ClientInv
<1>1. Init => CInv
  BY TypesInit, ClientInvInit DEF CInv
<1>2. CInv /\ [Next]_vars => CInv'
  BY CInvStep
<1>3. Spec => []CInv
  BY <1>1, <1>2, PTL DEF Spec
<1> QED
  BY <1>3, PTL DEF CInv

\* What WiFiSocketBuffer_read copies lies inside an allocated block, for any
\* number of tasks, sockets and replies, lost ones included.
THEOREM ReadsInBounds ==
    ASSUME Serialized
    PROVE  Spec => []WindowInBlock
BY ClientInvariant, PTL DEF ClientInv

-----------------------------------------------------------------------------
(* No stored byte is overwritten or skipped *)

\* What is stored fits the block, ends with a zero, and, when it is reported as
\* empty, is that zero only.
LEMMA DataFits ==
    ASSUME TypeOK, NEW s \in Sockets, NEW reply \in {<<Sends(s)>>, << >>}
    PROVE  /\ DataOf(reply) \in Seq(Nat) /\ Len(DataOf(reply)) <= SIZE
           /\ LengthAfter(reply, SIZE) = 0 => DataOf(reply) = <<0>>
           /\ reply = << >> => DataOf(reply) = << >>
<1>0. SIZE \in Nat /\ SIZE > 1
  BY Constants
<1>1. CASE reply = << >>
  <2>1. DataOf(reply) = << >> /\ LengthAfter(reply, SIZE) = SIZE
    BY <1>1 DEF DataOf, LengthAfter
  <2>2. << >> \in Seq(Nat) /\ Len(<< >>) = 0
    BY EmptySeq
  <2> QED
    BY <1>0, <2>1, <2>2
<1>2. CASE reply = <<Sends(s)>>
  <2> DEFINE bytes == Clocked(Sends(s))
  <2>1. Sends(s) \in Seq(Nat)
    BY DataReplies
  <2>2. bytes \in Seq(Nat) /\ Len(bytes) = Len(Sends(s))
    <3>1. bytes \in [1..Len(Sends(s)) -> Nat]
      BY <2>1, ElementOfSeq DEF Clocked
    <3>2. Len(Sends(s)) \in Nat
      BY <2>1, LenProperties
    <3> QED
      BY <3>1, <3>2, SeqDef, LenProperties
  <2>3. reply # << >> /\ reply[1] = Sends(s)
    BY <1>2
  <2>4. DataOf(reply) = Stored(bytes, SIZE)
    BY <2>3 DEF DataOf
  <2>5. LengthAfter(reply, SIZE) = Kept(Len(bytes), SIZE)
    BY <2>2, <2>3 DEF LengthAfter
  <2> QED
    BY <1>0, <2>2, <2>3, <2>4, <2>5, StoredIsSeq, StoredFits
<1> QED
  BY <1>1, <1>2

LEMMA BuffersUntouched ==
    ASSUME NoneSkipped, UNCHANGED bufVars
    PROVE  NoneSkipped'
BY DEF NoneSkipped, bufVars

\* When a socket counts no bytes, none of its bytes is unread.
LEMMA NothingUnread ==
    ASSUME TypeOK, NoneSkipped, NEW s \in Sockets, buf[s].length = 0
    PROVE  unread[s] = {}
<1>1. buf[s].head \in Nat
  BY DEF TypeOK
<1>2. buf[s].head+1 .. buf[s].head+buf[s].length = {}
  BY <1>1
<1> QED
  BY <1>2 DEF NoneSkipped

\* A step that touches one socket's buffer answers for that socket only.
LEMMA OneBuffer ==
    ASSUME NoneSkipped, NEW s \in Sockets,
           \A r \in Sockets \ {s} :
              buf'[r] = buf[r] /\ mem'[r] = mem[r] /\ unread'[r] = unread[r],
           \A b \in unread'[s] :
              \E k \in buf'[s].head+1 .. buf'[s].head+buf'[s].length : mem'[s][k] = b
    PROVE  NoneSkipped'
BY DEF NoneSkipped

LEMMA CloseSkipsNone ==
    ASSUME TypeOK, NoneSkipped, NEW s \in Sockets, CloseBuffer(s)
    PROVE  NoneSkipped'
<1>1. unread'[s] = {}
  BY DEF TypeOK, CloseBuffer
<1>2. \A r \in Sockets \ {s} : buf'[r] = buf[r] /\ mem'[r] = mem[r] /\ unread'[r] = unread[r]
  BY DEF TypeOK, CloseBuffer
<1> QED
  BY <1>1, <1>2, OneBuffer

\* The allocation finds nothing unread.
LEMMA AvailableSkipsNone ==
    ASSUME CInv, NoneSkipped, NEW t \in Tasks, Available(t)
    PROVE  NoneSkipped'
<1> DEFINE s == sock[t]
<1>1. TypeOK /\ s \in Sockets
  BY DEF CInv, Types, HasSocket, Available, At
<1>2. UNCHANGED <<mem, unread>>
  BY DEF Available
<1>3. CASE NothingLeft(s)
  <2>1. unread[s] = {}
    BY <1>1, <1>3, NothingUnread DEF NothingLeft
  <2>2. \A r \in Sockets \ {s} : buf'[r] = buf[r]
    BY <1>1, <1>3 DEF Available, TypeOK
  <2> QED
    BY <1>1, <1>2, <2>1, <2>2, OneBuffer
<1>4. CASE ~NothingLeft(s)
  BY <1>2, <1>4, BuffersUntouched DEF Available, bufVars
<1> QED
  BY <1>3, <1>4

\* A fetch finds nothing unread, and counts at least what it stores.
LEMMA FetchSkipsNone ==
    ASSUME CInv, NoneSkipped, NEW t \in Tasks, GetDataBuf(t)
    PROVE  NoneSkipped'
<1> DEFINE s == sock[t]
<1>0. SIZE \in Nat
  BY Constants
<1>1. TypeOK /\ s \in Sockets
  BY DEF CInv, Types, HasSocket, GetDataBuf, At
<1>2. buf[s].data /\ buf[s].length = 0
  BY DEF CInv, ClientInv, TargetAllocated, GetDataBuf
<1>3. unread[s] = {}
  BY <1>1, <1>2, NothingUnread
<1>4. PICK reply \in {<<Sends(s)>>, << >>} :
          /\ Fill(s, DataOf(reply))
          /\ buf' = IF ServerDrv_getDataBuf(s, reply).value # 0
                    THEN [buf EXCEPT ![s].head = 0, ![s].length = Capacity]
                    ELSE buf
  BY DEF GetDataBuf
<1> DEFINE data == DataOf(reply)
<1>5. /\ data \in Seq(Nat) /\ Len(data) <= SIZE
      /\ LengthAfter(reply, SIZE) = 0 => data = <<0>>
  BY <1>1, DataFits
<1>6. Len(data) \in Nat
  BY <1>5, LenProperties
<1>7. mem' = [mem EXCEPT ![s] = [k \in 1..SIZE |->
                  IF k <= Len(data) THEN data[k] ELSE mem[s][k]]]
  BY <1>1, <1>2, <1>4 DEF Fill, TypeOK
<1>8. unread' = [unread EXCEPT ![s] = {data[k] : k \in 1..Len(data)} \ {0}]
  BY <1>1, <1>2, <1>3, <1>4 DEF Fill, TypeOK
<1>9. mem'[s] = [k \in 1..SIZE |-> IF k <= Len(data) THEN data[k] ELSE mem[s][k]]
  BY <1>1, <1>7 DEF TypeOK
<1>10. unread'[s] = {data[k] : k \in 1..Len(data)} \ {0}
  BY <1>1, <1>8 DEF TypeOK
<1>11. \A r \in Sockets \ {s} : buf'[r] = buf[r] /\ mem'[r] = mem[r] /\ unread'[r] = unread[r]
  BY <1>1, <1>4, <1>7, <1>8 DEF TypeOK
<1>12. CASE LengthAfter(reply, SIZE) = 0
  <2>1. data = <<0>>
    BY <1>5, <1>12
  <2>2. Len(data) = 1 /\ data[1] = 0
    BY <2>1
  <2>3. unread'[s] = {}
    BY <1>10, <2>2
  <2> QED
    BY <1>1, <1>11, <2>3, OneBuffer
<1>13. CASE LengthAfter(reply, SIZE) # 0
  <2>1. buf' = [buf EXCEPT ![s].head = 0, ![s].length = SIZE]
    BY <1>4, <1>13 DEF ServerDrv_getDataBuf, Exchange, Capacity
  <2>2. buf'[s].head = 0 /\ buf'[s].length = SIZE
    BY <1>1, <2>1 DEF TypeOK
  <2>3. buf'[s].head+1 .. buf'[s].head+buf'[s].length = 1..SIZE
    BY <1>0, <2>2
  <2>4. ASSUME NEW b \in unread'[s]
        PROVE  \E k \in 1..SIZE : mem'[s][k] = b
    <3>1. PICK k \in 1..Len(data) : b = data[k]
      BY <1>10
    <3>2. k \in 1..SIZE /\ k <= Len(data)
      BY <1>0, <1>5, <1>6
    <3> QED
      BY <1>9, <3>1, <3>2
  <2> QED
    BY <1>1, <1>11, <2>3, <2>4, OneBuffer, ZenonT(60)
<1> QED
  BY <1>12, <1>13

\* A read delivers what it passes over.
LEMMA DeliverSkipsNone ==
    ASSUME CInv, NoneSkipped, NEW t \in Tasks, Deliver(t)
    PROVE  NoneSkipped'
<1> DEFINE s == sock[t]
           head == buf[s].head
           n == Clip(buf[s].length, length[t])
<1>0. SIZE \in Nat
  BY Constants
<1>1. TypeOK /\ s \in Sockets
  BY DEF CInv, Types, HasSocket, Deliver, At
<1>2. /\ head \in Nat /\ buf[s].length \in Nat /\ length[t] \in Nat
      /\ head + buf[s].length <= SIZE
  BY <1>1 DEF TypeOK, CInv, ClientInv, WindowInBlock
<1>3. n \in Nat /\ n <= buf[s].length
  BY <1>2 DEF Clip
<1>4. buf' = [buf EXCEPT ![s].head = head + n, ![s].length = buf[s].length - n]
  BY DEF Deliver
<1>5. unread' = [unread EXCEPT ![s] =
                    unread[s] \ {mem[s][k] : k \in (1..SIZE) \intersect (head+1..head+n)}]
  BY <1>1 DEF Deliver, TypeOK
<1>6. mem' = mem
  BY DEF Deliver
<1>7. \A r \in Sockets \ {s} : buf'[r] = buf[r] /\ mem'[r] = mem[r] /\ unread'[r] = unread[r]
  BY <1>1, <1>4, <1>5, <1>6 DEF TypeOK
<1>8. buf'[s].head = head + n /\ buf'[s].length = buf[s].length - n
  BY <1>1, <1>4 DEF TypeOK
<1>9. unread'[s] = unread[s] \ {mem[s][k] : k \in (1..SIZE) \intersect (head+1..head+n)}
  BY <1>1, <1>5 DEF TypeOK
<1>10. ASSUME NEW b \in unread'[s]
       PROVE  \E k \in buf'[s].head+1 .. buf'[s].head+buf'[s].length : mem'[s][k] = b
  <2>1. PICK k \in head+1 .. head+buf[s].length : mem[s][k] = b
    BY <1>1, <1>9 DEF NoneSkipped
  <2>2. k \in 1..SIZE
    BY <1>0, <1>2
  <2>3. k \notin head+1..head+n
    BY <1>9, <2>1, <2>2
  <2>4. k \in buf'[s].head+1 .. buf'[s].head+buf'[s].length
    BY <1>2, <1>3, <1>8, <2>3
  <2> QED
    BY <1>6, <2>1, <2>4
<1> QED
  BY <1>1, <1>7, <1>10, OneBuffer

LEMMA NoneSkippedStep ==
    ASSUME CInv, NoneSkipped, [Next]_vars
    PROVE  NoneSkipped'
<1>0. TypeOK /\ Types
  BY DEF CInv, Types
<1>1. CASE UNCHANGED vars
  BY <1>1, BuffersUntouched DEF vars
<1>2. ASSUME NEW s \in Sockets, Accept(s) \/ Disconnect(s) \/ Send(s)
      PROVE  NoneSkipped'
  BY <1>2, BuffersUntouched DEF Accept, Disconnect, Send
<1>3. ASSUME NEW t \in Tasks, TaskCalls(t)
      PROVE  NoneSkipped'
  <2>1. CASE Deinit(t)
    BY <2>1 DEF Deinit, NoneSkipped
  <2>2. CASE ~Deinit(t)
    <3>1. UNCHANGED bufVars
      BY <1>3, <2>2 DEF TaskCalls, Connect, ConnectHostname, Stop, Query, Read, Write
    <3> QED
      BY <3>1, BuffersUntouched
  <2> QED
    BY <2>1, <2>2
<1>4. ASSUME NEW t \in Tasks, TaskStep(t)
      PROVE  NoneSkipped'
  <2>1. pc[t] \notin {"idle", "getSocket"} => sock[t] \in Sockets
    BY DEF CInv, Types, HasSocket
  <2>3. CASE Available(t)
    BY <2>3, AvailableSkipsNone
  <2>4. CASE GetDataBuf(t)
    BY <2>4, FetchSkipsNone
  <2>5. CASE Deliver(t)
    BY <2>5, DeliverSkipsNone
  <2>6. CASE ConnectedByStatus(t)
    <3>1. UNCHANGED bufVars \/ CloseBuffer(sock[t])
      BY <2>6 DEF ConnectedByStatus
    <3>2. sock[t] \in Sockets
      BY <2>1, <2>6 DEF ConnectedByStatus, At
    <3> QED
      BY <1>0, <3>1, <3>2, BuffersUntouched, CloseSkipsNone
  <2>7. CASE StopStatus(t)
    <3>1. UNCHANGED bufVars \/ CloseBuffer(sock[t])
      BY <2>7 DEF StopStatus
    <3>2. sock[t] \in Sockets
      BY <2>1, <2>7 DEF StopStatus, At
    <3> QED
      BY <1>0, <3>1, <3>2, BuffersUntouched, CloseSkipsNone
  <2>8. CASE GetSocket(t) \/ StartClient(t) \/ Answer(t) \/ ConnectedByData(t)
             \/ AskStatus(t) \/ SendData(t) \/ StopClient(t)
    <3>1. UNCHANGED bufVars
      BY <2>8 DEF GetSocket, StartClient, Answer, ConnectedByData, AskStatus, SendData, StopClient
    <3> QED
      BY <3>1, BuffersUntouched
  <2> QED
    BY <1>4, <2>3, <2>4, <2>5, <2>6, <2>7, <2>8 DEF TaskStep
<1> QED
  BY <1>1, <1>2, <1>3, <1>4 DEF Next

\* A byte stored in a socket's buffer stays in the part still to be read until
\* it is delivered or the socket closed: with callers that keep each other out,
\* a fetch finds nothing unread, whatever the coprocessor answers or loses.
THEOREM NoByteSkipped ==
    ASSUME Serialized
    PROVE  Spec => []NoneSkipped
<1>1. Init => CInv /\ NoneSkipped
  BY TypesInit, ClientInvInit DEF CInv, Init, NoneSkipped
<1>2. (CInv /\ NoneSkipped) /\ [Next]_vars => (CInv /\ NoneSkipped)'
  BY CInvStep, NoneSkippedStep
<1> QED
  BY <1>1, <1>2, PTL DEF Spec

-----------------------------------------------------------------------------
(* Writes *)

\* What txBuffer has room for, with the socket.
WritesFit == WriteSizes \subseteq 1..243

SizesInv == Types /\ \A t \in Tasks : At(t, "sendData") => length[t] \in WriteSizes

LEMMA SizesInit == Init => SizesInv
BY TypesInit DEF Init, SizesInv, At

LEMMA SizesCall ==
    ASSUME SizesInv, NEW t \in Tasks, TaskCalls(t)
    PROVE  SizesInv'
<1>1. Types' /\ pc \in [Tasks -> Labels] /\ length \in [Tasks -> Nat]
  BY CallTypes DEF SizesInv, Types, TypeOK
<1>2. CASE \E n \in WriteSizes : Write(t, n)
  BY <1>1, <1>2 DEF SizesInv, Write, Begin, Goto, At
<1>3. CASE \E n \in ReadSizes : Read(t, n)
  BY <1>1, <1>3 DEF SizesInv, Read, Begin, Goto, At
<1>4. CASE Connect(t) \/ Stop(t) \/ \E o \in {"available", "peek", "connected"} : Query(t, o)
  BY <1>1, <1>4 DEF SizesInv, Connect, Stop, Query, Begin, Goto, At
<1>5. CASE ConnectHostname(t) \/ Deinit(t)
  BY <1>1, <1>5, NameNotFound DEF SizesInv, Deinit, callVars, At
<1> QED
  BY <1>2, <1>3, <1>4, <1>5 DEF TaskCalls

\* Only a write goes to "sendData"; what follows leaves it.
LEMMA SizesStep ==
    ASSUME SizesInv, NEW t \in Tasks, TaskStep(t)
    PROVE  SizesInv'
<1>1. Types' /\ pc \in [Tasks -> Labels] /\ length \in [Tasks -> Nat]
  BY StepTypes DEF SizesInv, Types, TypeOK
<1>2. /\ \A u \in Tasks \ {t} : pc'[u] = pc[u] /\ length'[u] = length[u]
      /\ ~At(t, "sendData")'
  <2> USE <1>1 DEF Goto, At
  <2>1. CASE GetSocket(t)
    BY <2>1 DEF GetSocket, Finish
  <2>2. CASE StartClient(t) \/ AskStatus(t) \/ StopClient(t) \/ GetDataBuf(t)
    BY <2>2 DEF StartClient, AskStatus, StopClient, GetDataBuf
  <2>3. CASE Available(t)
    BY <2>3 DEF Available
  <2>4. CASE Deliver(t) \/ Answer(t)
    BY <2>4 DEF Deliver, Answer, Finish
  <2>5. CASE ConnectedByData(t)
    BY <2>5 DEF ConnectedByData, Return, Finish
  <2>6. CASE ConnectedByStatus(t)
    <3>1. PICK connected \in BOOLEAN : Return(t, connected)
      BY <2>6 DEF ConnectedByStatus
    <3> QED
      BY <3>1 DEF Return, Finish
  <2>7. CASE SendData(t)
    BY <2>7, WriteReturns DEF SizesInv, Finish
  <2>8. CASE StopStatus(t)
    BY <2>8 DEF StopStatus, Finish
  <2> QED
    BY <2>1, <2>2, <2>3, <2>4, <2>5, <2>6, <2>7, <2>8 DEF TaskStep
<1> QED
  BY <1>1, <1>2 DEF SizesInv, At

LEMMA SizesInvStep ==
    ASSUME SizesInv, [Next]_vars
    PROVE  SizesInv'
<1>1. Types'
  BY TypesStep DEF SizesInv
<1>2. CASE UNCHANGED vars \/ \E s \in Sockets : Accept(s) \/ Disconnect(s) \/ Send(s)
  BY <1>1, <1>2 DEF SizesInv, At, vars, callVars, Accept, Disconnect, Send
<1> QED
  BY <1>2, SizesCall, SizesStep DEF Next

\* The frame of a write has two parameters, the socket and the data.
LEMMA CommandOfWrite ==
    ASSUME WritesFit, SizesInv, NEW t \in Tasks, At(t, "sendData")
    PROVE  FitsTxBuffer(WriteCommand(t), TRUE) /\ ReadsBack(WriteCommand(t), TRUE)
<1> DEFINE data == [k \in 1..length[t] % 65536 |-> 0]
           n    == length[t]
           ps   == <<<<sock[t]>>, data>>
           c    == WriteCommand(t)
<1>1. n \in 1..243
  BY DEF SizesInv, WritesFit
<1>2. data \in Seq(Byte) /\ Len(data) = n
  <2>1. \A m \in 1..243 : m % 65536 = m
    OBVIOUS
  <2>2. data = [k \in 1..n |-> 0]
    <3>1. n % 65536 = n
      BY ONLY <1>1, <2>1
    <3> QED
      BY <3>1
  <2> HIDE DEF data, n
  <2>3. n \in Nat /\ 0 \in Byte
    BY <1>1 DEF Byte
  <2>4. data \in [1..n -> Byte]
    BY <2>2, <2>3
  <2>5. data \in Seq(Byte)
    BY <2>3, <2>4, SeqDef
  <2> QED
    BY <2>3, <2>4, <2>5, LenProperties
<1>3. <<sock[t]>> \in Seq(Byte) /\ Len(<<sock[t]>>) = 1
  <2>1. sock[t] \in Byte
    BY ClientAssumption DEF SizesInv, Types, HasSocket, At, Sockets, NO_SOCKET_AVAIL, Byte
  <2> QED
    BY <2>1
<1>4. c = [cmd |-> Code.SEND_DATA_TCP_CMD, params |-> ps]
  BY DEF WriteCommand, ServerDrv_sendData, Exchange
<1>5. FitsTxBuffer(c, TRUE)
  <2> HIDE DEF data, n
  <2>1. Len(data) \in Nat /\ Len(data) <= 243
    BY <1>1, <1>2
  <2>2. c = ServerDrv_sendData(sock[t], data, << >>).sent
    BY DEF WriteCommand, data
  <2>3. Counted(data, TRUE) <= 243
    BY <2>1 DEF Counted, TooLong
  <2> HIDE DEF c
  <2> QED
    BY <2>1, <2>2, <2>3, SendFits
<1> HIDE DEF data, n
<1>6. ps \in Seq(Seq(Byte)) /\ Len(ps) = 2 /\ ps[1] = <<sock[t]>> /\ ps[2] = data
  BY <1>2, <1>3
<1>7. Len(ps) <= MAX_PARAMS /\ \A p \in 1..Len(ps) : Len(ps[p]) < 65536
  <2>1. Len(ps[1]) < 65536 /\ Len(ps[2]) < 65536
    BY <1>1, <1>2, <1>3, <1>6
  <2>2. Len(ps) = 2
    BY <1>6
  <2> HIDE DEF ps
  <2>3. ASSUME NEW p \in 1..Len(ps) PROVE Len(ps[p]) < 65536
    <3>1. p = 1 \/ p = 2
      BY <2>2
    <3> QED
      BY <2>1, <3>1
  <2> QED
    BY <2>2, <2>3 DEF MAX_PARAMS
<1>8. Code.SEND_DATA_TCP_CMD \in 0..REPLY_FLAG-1
  BY DEF Code, REPLY_FLAG
<1> HIDE DEF ps, c
<1>9. IsCommand(c, TRUE)
  <2>1. c \in [cmd : 0..REPLY_FLAG-1, params : Seq(Seq(Byte))] /\ c.params = ps
    BY <1>4, <1>6, <1>8
  <2> QED
    BY <1>7, <2>1 DEF IsCommand, ShortParams, TooLong
<1>10. ReadsBack(c, TRUE)
  BY <1>9, FramesReadBack
<1> QED
  BY <1>5, <1>10 DEF c

\* A write of up to 243 bytes stays within txBuffer, whatever else the tasks and
\* the coprocessor do, and the coprocessor reads the socket and the data that
\* were meant; SendFits is why it must not be more.
THEOREM WritesAreFramed ==
    ASSUME WritesFit
    PROVE  Spec => []WriteFramed
<1>1. SizesInv => WriteFramed
  BY CommandOfWrite DEF WriteFramed
<1>2. Spec => []SizesInv
  BY SizesInit, SizesInvStep, PTL DEF Spec
<1> QED
  BY <1>1, <1>2, PTL
=============================================================================
