----------------------------- MODULE WiFiClient -----------------------------
(***************************************************************************)
(* TCP clients and their socket buffers: WiFiClient.c and                  *)
(* WiFiSocketBuffer.c, over the exchanges of server_drv.c.  A step is what *)
(* a task does up to and including its next exchange with the coprocessor  *)
(* (atomic here: SpiDrv is the model of an exchange), so that other tasks, *)
(* the peer and the coprocessor act in between.                            *)
(*                                                                         *)
(* A byte of data is its number in the order the peer sent it, from 1; in  *)
(* a buffer, 0 is a zero byte and Uninit one that malloc left there.       *)
(***************************************************************************)
EXTENDS ServerDrv, WiFiDrv, FiniteSets

CONSTANTS
    Tasks,
    WIFI_MAX_SOCK_NUM,
    Serialized,        \* do the callers keep each other out of the library?
    Reliable,          \* are all commands executed, and their replies intact?
    ReadSizes,         \* lengths asked of WiFiClient_read
    WriteSizes,        \* lengths given to WiFiClient_write
    ConnectPolls,      \* polls that fit into the 10 seconds of a connect
    StopPolls,         \* 50, in WiFiClient_stop
    MaxSent            \* bound: bytes the peer sends

Sockets == 0..WIFI_MAX_SOCK_NUM-1
NO_SOCKET_AVAIL == 255
Uninit == -1

\* wl_tcp_state, and the states the coprocessor's sockets pass through here.
CLOSED == 0
LISTEN == 1
SYN_SENT == 2
SYN_RCVD == 3
ESTABLISHED == 4
FIN_WAIT_1 == 5
FIN_WAIT_2 == 6
CLOSE_WAIT == 7
TIME_WAIT == 10
TcpStates == {CLOSED, SYN_SENT, ESTABLISHED, CLOSE_WAIT}

ASSUME ClientAssumption ==
    /\ WIFI_MAX_SOCK_NUM \in 1..NO_SOCKET_AVAIL
    /\ Serialized \in BOOLEAN /\ Reliable \in BOOLEAN
    /\ ReadSizes \subseteq Nat /\ WriteSizes \subseteq Nat \ {0}
    /\ ConnectPolls \in Nat /\ StopPolls \in Nat \ {0}
    /\ MaxSent \in Nat

VARIABLES
    pc,            \* what the task does next
    op,            \* the call it is in
    sock,          \* the socket number it holds
    length,        \* length of WiFiClient_read, size of WiFiClient_write
    polls,         \* polls made by a connect, count of a stop
    buf,           \* _buffers: whether data is allocated, head - data, length
    mem,           \* the bytes of each buffer
    tcp,           \* the coprocessor's sockets: state ...
    inbox,         \* ... and data received and not yet fetched
    sent,          \* bytes the peer has sent
    unread         \* ghost: bytes stored in a buffer and not yet delivered

callVars == <<pc, op, sock, length, polls>>
bufVars  == <<buf, mem, unread>>
espVars  == <<tcp, inbox, sent>>
vars     == <<callVars, bufVars, espVars>>

Empty == [data |-> FALSE, head |-> 0, length |-> 0]
Fresh == [data |-> TRUE, head |-> 0, length |-> 0]

\* WiFiSocketBuffer_init, and no connection.
Init ==
    /\ pc = [t \in Tasks |-> "idle"]
    /\ op = [t \in Tasks |-> "none"]
    /\ sock = [t \in Tasks |-> NO_SOCKET_AVAIL]
    /\ length = [t \in Tasks |-> 0]
    /\ polls = [t \in Tasks |-> 0]
    /\ buf = [s \in Sockets |-> Empty]
    /\ mem = [s \in Sockets |-> [k \in 1..SIZE |-> Uninit]]
    /\ tcp = [s \in Sockets |-> CLOSED]
    /\ inbox = [s \in Sockets |-> << >>]
    /\ sent = 0
    /\ unread = [s \in Sockets |-> {}]

At(t, label)   == pc[t] = label
Goto(t, label) == pc' = [pc EXCEPT ![t] = label]

\* The call returns, and its locals go.
Finish(t) ==
    /\ Goto(t, "idle")
    /\ op' = [op EXCEPT ![t] = "none"]
    /\ length' = [length EXCEPT ![t] = 0]
    /\ polls' = [polls EXCEPT ![t] = 0]

\* Faulty: nobody takes the lock.
ExclusiveNever(t) == TRUE

\* The caller's lock, if there is one.
Exclusive(t) == Serialized => \A u \in Tasks \ {t} : At(u, "idle")

\* The replies to a query whose answer is `bytes': the answer, an answer with an
\* empty parameter, or none.
Replies(bytes) == {<<bytes>>} \union (IF Reliable THEN {} ELSE {<< << >> >>, << >>})

\* A command whose reply is ignored may not even have arrived.
Lost == ~Reliable

\* Faulty: forgets the length.
CloseBufferOnlyFreeing(s) ==
    /\ buf' = [buf EXCEPT ![s].data = FALSE, ![s].head = 0]
    /\ mem' = [mem EXCEPT ![s] = [k \in 1..SIZE |-> Uninit]]
    /\ unread' = [unread EXCEPT ![s] = {}]

\* WiFiSocketBuffer_close; what was not read is given up.
CloseBuffer(s) ==
    /\ buf' = IF buf[s].data THEN [buf EXCEPT ![s] = Empty] ELSE buf
    /\ mem' = [mem EXCEPT ![s] = [k \in 1..SIZE |-> Uninit]]
    /\ unread' = [unread EXCEPT ![s] = {}]

HostName    == <<104, 111, 115, 116>>
HostAddress == <<10, 0, 0, 1>>

-----------------------------------------------------------------------------
(* The calls a task can make, up to their first exchange *)

Begin(t, o, label) ==
    /\ At(t, "idle") /\ Exclusive(t)
    /\ op' = [op EXCEPT ![t] = o]
    /\ Goto(t, label)

\* WiFiClient_connect, connectSSL, connectSSLHostname.
Connect(t) ==
    /\ Begin(t, "connect", "getSocket")
    /\ UNCHANGED <<sock, length, polls, bufVars, espVars>>

\* WiFiClient_available, peek and connected.
Query(t, o) ==
    /\ sock[t] # NO_SOCKET_AVAIL
    /\ Begin(t, o, "available")
    /\ UNCHANGED <<sock, length, polls, bufVars, espVars>>

\* WiFiClient_read; readChar is a read of one byte.
Read(t, n) ==
    /\ sock[t] # NO_SOCKET_AVAIL
    /\ Begin(t, "read", "available")
    /\ length' = [length EXCEPT ![t] = n]
    /\ UNCHANGED <<sock, polls, bufVars, espVars>>

\* WiFiClient_write; writeChar is a write of one byte.
Write(t, n) ==
    /\ sock[t] # NO_SOCKET_AVAIL
    /\ Begin(t, "write", "sendData")
    /\ length' = [length EXCEPT ![t] = n]
    /\ UNCHANGED <<sock, polls, bufVars, espVars>>

\* WiFiClient_connectHostname: the name is looked up first, and what a failed
\* lookup returns is the number of a socket.
ConnectHostname(t) ==
    /\ At(t, "idle") /\ Exclusive(t)
    /\ \E reply \in Replies(<<1>>), result \in Replies(HostAddress) :
          IF WiFiDrv_getHostByName(HostName, reply, result, Zeros(4)) # 0
          THEN Begin(t, "connect", "getSocket") /\ UNCHANGED <<sock, length, polls>>
          ELSE sock' = [sock EXCEPT ![t] = 0] /\ UNCHANGED <<pc, op, length, polls>>
    /\ UNCHANGED <<bufVars, espVars>>

Stop(t) ==
    /\ sock[t] # NO_SOCKET_AVAIL
    /\ Begin(t, "stop", "stopClient")
    /\ UNCHANGED <<sock, length, polls, bufVars, espVars>>

\* WiFiSocketBuffer_deinit.
Deinit(t) ==
    /\ At(t, "idle") /\ Exclusive(t)
    /\ buf' = [s \in Sockets |-> Empty]
    /\ mem' = [s \in Sockets |-> [k \in 1..SIZE |-> Uninit]]
    /\ unread' = [s \in Sockets |-> {}]
    /\ UNCHANGED <<callVars, espVars>>

-----------------------------------------------------------------------------
(* WiFiSocketBuffer_available *)

\* Faulty: fetches although there is something left.
EmptyNever(s) == TRUE

NothingLeft(s) == buf[s].length = 0

\* The test of length, and the allocation (which is taken to succeed).
Available(t) ==
    LET s == sock[t] IN
    /\ At(t, "available")
    /\ IF NothingLeft(s)
       THEN /\ buf' = IF buf[s].data THEN buf ELSE [buf EXCEPT ![s] = Fresh]
            /\ Goto(t, "getDataBuf")
       ELSE UNCHANGED buf /\ Goto(t, "available?")
    /\ UNCHANGED <<op, sock, length, polls, mem, unread, espVars>>

\* The coprocessor sends at most what it is asked for.
Sends(s) == SubSeq(inbox[s], 1, IF Len(inbox[s]) > SIZE THEN SIZE ELSE Len(inbox[s]))

\* ServerDrv_getDataBuf writes to the block whose address it was given, if it
\* is still there.
Fill(s, data) ==
    IF buf[s].data
    THEN /\ mem' = [mem EXCEPT ![s] = [k \in 1..SIZE |-> IF k <= Len(data) THEN data[k] ELSE @[k]]]
         /\ unread' = [unread EXCEPT ![s] = @ \union ({data[k] : k \in 1..Len(data)} \ {0})]
    ELSE UNCHANGED <<mem, unread>>

\* What is left in `size', which the exchange does not change.
Capacity == SIZE

\* The exchange, and the assignments after it.  A reply that is lost takes the
\* data with it; a command that is lost does not.
GetDataBuf(t) ==
    LET s == sock[t] IN
    /\ At(t, "getDataBuf")
    /\ \E reply \in {<<Sends(s)>>, << >>}, executed \in BOOLEAN :
          /\ reply # << >> => executed
          /\ reply = << >> => Lost
          /\ inbox' = IF executed THEN [inbox EXCEPT ![s] = SubSeq(@, Len(Sends(s)) + 1, Len(@))]
                                  ELSE inbox
          /\ Fill(s, DataOf(reply))
          /\ buf' = IF ServerDrv_getDataBuf(s, reply).value # 0
                    THEN [buf EXCEPT ![s].head = 0, ![s].length = Capacity]
                    ELSE buf
    /\ Goto(t, "available?")
    /\ UNCHANGED <<op, sock, length, polls, tcp, sent>>

-----------------------------------------------------------------------------
(* What the callers of WiFiSocketBuffer_available do with its result *)

\* Faulty: takes as much as was asked for.
ClipNever(avail, n) == n

\* How much of the length asked for is there.
Clip(avail, n) == IF avail < n THEN avail ELSE n

\* WiFiSocketBuffer_read: memcpy, head and length.
Deliver(t) ==
    LET s == sock[t]
        n == Clip(buf[s].length, length[t])
    IN
    /\ At(t, "available?") /\ op[t] = "read"
    /\ buf' = [buf EXCEPT ![s].head = @ + n, ![s].length = @ - n]
    /\ unread' = [unread EXCEPT ![s] =
                     @ \ {mem[s][k] : k \in (1..SIZE) \intersect (buf[s].head+1..buf[s].head+n)}]
    /\ Finish(t)
    /\ UNCHANGED <<sock, mem, espVars>>

\* WiFiClient_available and peek: the result is for the caller.
Answer(t) ==
    /\ At(t, "available?") /\ op[t] \in {"available", "peek"}
    /\ Finish(t)
    /\ UNCHANGED <<sock, bufVars, espVars>>

-----------------------------------------------------------------------------
(* WiFiClient_connected, and WiFiClient_connectCommon around it *)

\* A task whose call of WiFiClient_connected has returned.  The loop of
\* connectCommon ends when there is a connection or the time is up (the polls
\* may take longer than their delays); then it asks once more.
Return(t, connected) ==
    \/ /\ op[t] = "connected"
       /\ Finish(t) /\ UNCHANGED sock
    \/ /\ op[t] = "connect" /\ ~connected /\ polls[t] < ConnectPolls
       /\ polls' = [polls EXCEPT ![t] = @ + 1]
       /\ Goto(t, "available") /\ UNCHANGED <<op, sock, length>>
    \/ /\ op[t] = "connect"
       /\ op' = [op EXCEPT ![t] = "confirm"]
       /\ Goto(t, "available") /\ UNCHANGED <<sock, length, polls>>
    \/ /\ op[t] = "confirm"
       /\ sock' = IF connected THEN sock ELSE [sock EXCEPT ![t] = NO_SOCKET_AVAIL]
       /\ Finish(t)

\* Data available: connected, without a look at the status.
ConnectedByData(t) ==
    /\ At(t, "available?") /\ op[t] \in {"connected", "connect", "confirm"}
    /\ buf[sock[t]].length # 0
    /\ Return(t, TRUE)
    /\ UNCHANGED <<bufVars, espVars>>

AskStatus(t) ==
    /\ At(t, "available?") /\ op[t] \in {"connected", "connect", "confirm"}
    /\ buf[sock[t]].length = 0
    /\ Goto(t, "status")
    /\ UNCHANGED <<op, sock, length, polls, bufVars, espVars>>

\* The states in which a socket does not count as connected.
Unconnected ==
    {LISTEN, CLOSED, FIN_WAIT_1, FIN_WAIT_2, TIME_WAIT, SYN_SENT, SYN_RCVD, CLOSE_WAIT}

ConnectedByStatus(t) ==
    LET s == sock[t] IN
    /\ At(t, "status")
    /\ \E reply \in Replies(<<tcp[s]>>) :
          LET connected == uint8(ServerDrv_getClientState(s, reply).value) \notin Unconnected IN
          /\ Return(t, connected)
          /\ IF connected THEN UNCHANGED bufVars ELSE CloseBuffer(s)
    /\ UNCHANGED espVars

\* The coprocessor's answer: a socket that is free, or that there is none.
FreeSockets == {s \in Sockets : tcp[s] = CLOSED}
SocketOffers == IF FreeSockets = {} THEN {NO_SOCKET_AVAIL} ELSE FreeSockets

GetSocket(t) ==
    /\ At(t, "getSocket")
    /\ \E s \in SocketOffers : \E reply \in Replies(<<s>>) :
          /\ sock' = [sock EXCEPT ![t] = ServerDrv_getSocket(reply).value]
          /\ IF sock'[t] = NO_SOCKET_AVAIL
             THEN Finish(t)
             ELSE Goto(t, "startClient") /\ UNCHANGED <<op, length, polls>>
    /\ UNCHANGED <<bufVars, espVars>>

\* The result is ignored, and the command may have been lost.
StartClient(t) ==
    LET s == sock[t] IN
    /\ At(t, "startClient")
    /\ \/ tcp' = [tcp EXCEPT ![s] = SYN_SENT] /\ inbox' = [inbox EXCEPT ![s] = << >>]
       \/ Lost /\ UNCHANGED <<tcp, inbox>>
    /\ Goto(t, "available")
    /\ UNCHANGED <<op, sock, length, polls, bufVars, sent>>

-----------------------------------------------------------------------------
(* WiFiClient_stop *)

\* The result is ignored, and the command may have been lost.
StopClient(t) ==
    LET s == sock[t] IN
    /\ At(t, "stopClient")
    /\ \/ tcp' = [tcp EXCEPT ![s] = CLOSED] /\ inbox' = [inbox EXCEPT ![s] = << >>]
       \/ Lost /\ UNCHANGED <<tcp, inbox>>
    /\ Goto(t, "stopStatus")
    /\ UNCHANGED <<op, sock, length, polls, bufVars, sent>>

\* Faulty: the count wraps before it reaches its bound.
StopStatusWrapping(t) ==
    /\ At(t, "stopStatus")
    /\ \E reply \in Replies(<<tcp[sock[t]]>>) :
          IF ServerDrv_getClientState(sock[t], reply).value # CLOSED
          THEN /\ polls' = [polls EXCEPT ![t] = (@ + 1) % StopPolls]
               /\ UNCHANGED <<pc, op, sock, length, bufVars>>
          ELSE Finish(t) /\ CloseBuffer(sock[t]) /\ UNCHANGED sock
    /\ UNCHANGED espVars

\* A turn of the loop, or its end and WiFiSocketBuffer_close.  The assignment
\* to _sock is to a parameter: the caller's number stays.
StopStatus(t) ==
    /\ At(t, "stopStatus")
    /\ \E reply \in Replies(<<tcp[sock[t]]>>) :
          IF ServerDrv_getClientState(sock[t], reply).value # CLOSED /\ polls[t] + 1 < StopPolls
          THEN /\ polls' = [polls EXCEPT ![t] = @ + 1]
               /\ UNCHANGED <<pc, op, sock, length, bufVars>>
          ELSE Finish(t) /\ CloseBuffer(sock[t]) /\ UNCHANGED sock
    /\ UNCHANGED espVars

-----------------------------------------------------------------------------
(* WiFiClient_write *)

\* The command: the size is cut to the uint16 of ServerDrv_sendData.
WriteCommand(t) ==
    ServerDrv_sendData(sock[t], [k \in 1..length[t] % 65536 |-> 0], << >>).sent

\* The coprocessor answers with the number of bytes that it took.  Behind
\* "dataSent" would be the loop of ServerDrv_checkDataSent.
SendData(t) ==
    /\ At(t, "sendData")
    /\ \E reply \in Replies(<<uint8(length[t])>>) :
          IF ServerDrv_sendData(sock[t], << >>, reply).value = 0
          THEN Finish(t)
          ELSE Goto(t, "dataSent") /\ UNCHANGED <<op, length, polls>>
    /\ UNCHANGED <<sock, bufVars, espVars>>

-----------------------------------------------------------------------------
(* The peers *)

Accept(s) ==
    /\ tcp[s] = SYN_SENT
    /\ tcp' = [tcp EXCEPT ![s] = ESTABLISHED]
    /\ UNCHANGED <<callVars, bufVars, inbox, sent>>

Disconnect(s) ==
    /\ \/ tcp[s] = SYN_SENT /\ tcp' = [tcp EXCEPT ![s] = CLOSED]
       \/ tcp[s] = ESTABLISHED /\ tcp' = [tcp EXCEPT ![s] = CLOSE_WAIT]
    /\ UNCHANGED <<callVars, bufVars, inbox, sent>>

Send(s) ==
    /\ tcp[s] = ESTABLISHED /\ sent < MaxSent
    /\ sent' = sent + 1
    /\ inbox' = [inbox EXCEPT ![s] = Append(@, sent + 1)]
    /\ UNCHANGED <<callVars, bufVars, tcp>>

-----------------------------------------------------------------------------

\* What a task does once it is in a call.
TaskStep(t) ==
    \/ GetSocket(t) \/ StartClient(t)
    \/ Available(t) \/ GetDataBuf(t) \/ Deliver(t) \/ Answer(t)
    \/ ConnectedByData(t) \/ AskStatus(t) \/ ConnectedByStatus(t)
    \/ SendData(t) \/ StopClient(t) \/ StopStatus(t)

TaskCalls(t) ==
    \/ Connect(t) \/ ConnectHostname(t) \/ Stop(t) \/ Deinit(t)
    \/ \E o \in {"available", "peek", "connected"} : Query(t, o)
    \/ \E n \in ReadSizes : Read(t, n)
    \/ \E n \in WriteSizes : Write(t, n)

Next ==
    \/ \E t \in Tasks : TaskCalls(t) \/ TaskStep(t)
    \/ \E s \in Sockets : Accept(s) \/ Disconnect(s) \/ Send(s)

Spec     == Init /\ [][Next]_vars
FairSpec == Spec /\ \A t \in Tasks : WF_vars(TaskStep(t))

-----------------------------------------------------------------------------
(* Properties *)

Labels == {"idle", "getSocket", "startClient", "available", "getDataBuf",
           "available?", "status", "sendData", "stopClient", "stopStatus"}
Ops    == {"none", "connect", "confirm", "connected", "available", "peek", "read", "write",
           "stop"}

TypeOK ==
    /\ pc \in [Tasks -> Labels]
    /\ op \in [Tasks -> Ops]
    /\ sock \in [Tasks -> Sockets \union {NO_SOCKET_AVAIL}]
    /\ length \in [Tasks -> Nat]
    /\ polls \in [Tasks -> Nat]
    /\ buf \in [Sockets -> [data : BOOLEAN, head : Nat, length : Nat]]
    /\ mem \in [Sockets -> [1..SIZE -> Int]]
    /\ tcp \in [Sockets -> TcpStates]
    /\ inbox \in [Sockets -> Seq(Nat)]
    /\ sent \in Nat
    /\ unread \in [Sockets -> SUBSET Int]

\* What a read copies lies inside a block that is allocated, although length
\* counts bytes that were never received.
WindowInBlock ==
    \A s \in Sockets :
       /\ buf[s].head + buf[s].length <= SIZE
       /\ buf[s].length > 0 => buf[s].data

\* A task in an exchange for data still owns the block whose address it gave
\* to the parse, and a task about to use the result of available finds it.
TargetAllocated ==
    \A t \in Tasks :
       /\ At(t, "getDataBuf") => buf[sock[t]].data /\ buf[sock[t]].length = 0
       /\ At(t, "available?") => buf[sock[t]].data

OneActive == \A t, u \in Tasks : At(t, "idle") \/ At(u, "idle") \/ t = u

\* A task that is in a call is in one for a socket.
HasSocket ==
    \A t \in Tasks :
       pc[t] \notin {"idle", "getSocket"} => sock[t] \in Sockets

ClientInv == OneActive /\ HasSocket /\ WindowInBlock /\ TargetAllocated

\* A byte that has been stored in a socket's buffer stays in the part that is
\* still to be read until it is delivered or the socket closed: no fetch
\* overwrites it and no read skips it.
NoneSkipped ==
    \A s \in Sockets : \A b \in unread[s] :
       \E k \in buf[s].head+1 .. buf[s].head+buf[s].length : mem[s][k] = b

\* A write of up to 243 bytes stays within txBuffer, and the coprocessor reads
\* the socket and the data that were meant; one of more does not, and nothing in
\* the code keeps a caller from it.
WriteFramed ==
    \A t \in Tasks : At(t, "sendData") =>
       FitsTxBuffer(WriteCommand(t), TRUE) /\ ReadsBack(WriteCommand(t), TRUE)

\* Every call returns, although the coprocessor never reports a connection, or
\* its end, in a way that getClientState can tell.
ClientCallReturns == \A t \in Tasks : ~At(t, "idle") ~> At(t, "idle")

\* Expected of connectCommon, by its comment: a socket is returned once the
\* connection is made, not while it is being made.
ConnectWaits ==
    [][\A t \in Tasks :
          At(t, "available?") \/ At(t, "status") =>
             (op[t] = "confirm" /\ pc'[t] = "idle" /\ sock'[t] # NO_SOCKET_AVAIL
                 => tcp[sock[t]] # SYN_SENT)]_vars

\* Expected of WiFiSocketBuffer_available: what it counts was received.
CountsReceived ==
    \A s \in Sockets : \A k \in buf[s].head+1 .. buf[s].head+buf[s].length :
       mem[s][k] > 0
=============================================================================
