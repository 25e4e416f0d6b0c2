----------------------------- MODULE ServerDrv ------------------------------
(***************************************************************************)
(* The functions of server_drv.c.  They keep no state between calls: each  *)
(* is one exchange, given here as the command it sends and the value its   *)
(* caller gets from the reply, which has one parameter.  Sockets and modes *)
(* are bytes; ports and addresses are the two and four bytes they are sent *)
(* as.                                                                     *)
(***************************************************************************)
EXTENDS ReplyValues, CommandFrame

CONSTANTS
    SIZE,         \* WIFI_SOCKET_BUFFER_SIZE, also the bytes clocked for a reply
    HEADER        \* bytes of a reply before the data: marker, command, count, length

ASSUME ServerDrvAssumption ==
    /\ SIZE \in Nat /\ SIZE > 1
    /\ HEADER \in 0..SIZE-1
    /\ END_CMD \in 0..255

ServerDrv_startServer(port, sock, mode, reply) ==
    Exchange(Code.START_SERVER_TCP_CMD, <<port, <<sock>>, <<mode>>>>, Checked(reply, 1))

ServerDrv_startServerIpAddress(ip, port, sock, mode, reply) ==
    Exchange(Code.START_SERVER_TCP_CMD, <<ip, port, <<sock>>, <<mode>>>>, Checked(reply, 1))

ServerDrv_startClient(ip, port, sock, mode, reply) ==
    Exchange(Code.START_CLIENT_TCP_CMD, <<ip, port, <<sock>>, <<mode>>>>, Checked(reply, 1))

ServerDrv_startClientHostname(host, ip, port, sock, mode, reply) ==
    Exchange(Code.START_CLIENT_TCP_CMD, <<host, ip, port, <<sock>>, <<mode>>>>, Checked(reply, 1))

ServerDrv_stopClient(sock, reply) ==
    Exchange(Code.STOP_CLIENT_TCP_CMD, <<<<sock>>>>, Checked(reply, 1))

ServerDrv_getServerState(sock, reply) ==
    Exchange(Code.GET_STATE_TCP_CMD, <<<<sock>>>>, Checked(reply, 1))

ServerDrv_getClientState(sock, reply) ==
    Exchange(Code.GET_CLIENT_STATE_TCP_CMD, <<<<sock>>>>, Checked(reply, 1))

ServerDrv_availData(sock, reply) ==
    Exchange(Code.AVAIL_DATA_TCP_CMD, <<<<sock>>>>, Uint16(Variable(reply, 2, <<0, 0>>)))

\* Sends one of its two parameters, and has the data stored over its argument
\* instead of where that points.
ServerDrv_getData(sock, peek, reply) ==
    Exchange(Code.GET_DATA_TCP_CMD, <<<<sock>>>>, LengthAfter(reply, SIZE))

\* Only SIZE bytes are clocked, and the header is among them: of the data that
\* does not fit, SpiDrv_readChar makes zeros.
Clocked(bytes) ==
    [k \in 1..Len(bytes) |-> IF k <= SIZE - HEADER THEN bytes[k] ELSE 0]

\* What ServerDrv_getDataBuf writes into a buffer of SIZE bytes, and returns.
DataOf(reply) == IF reply = << >> THEN << >> ELSE Stored(Clocked(reply[1]), SIZE)

ServerDrv_getDataBuf(sock, reply) ==
    Exchange(Code.GET_DATABUF_TCP_CMD, <<<<sock>>, <<SIZE % 256, SIZE \div 256>>>>,
             LengthAfter(reply, SIZE))

ServerDrv_insertDataBuf(sock, data, reply) ==
    Exchange(Code.INSERT_DATABUF_CMD, <<<<sock>>, data>>,
             IF LengthAfter(reply, 2) # 0 /\ Uint16(Variable(reply, 2, <<0, 0>>)) = 1 THEN 1 ELSE 0)

ServerDrv_sendUdpData(sock, reply) ==
    Exchange(Code.SEND_DATA_UDP_CMD, <<<<sock>>>>,
             IF LengthAfter(reply, 1) # 0 /\ OneByte(reply) = 1 THEN 1 ELSE 0)

ServerDrv_sendData(sock, data, reply) ==
    Exchange(Code.SEND_DATA_TCP_CMD, <<<<sock>>, data>>, OneByte(reply))

ServerDrv_getSocket(reply) == Exchange(Code.GET_SOCKET_CMD, << >>, OneByte(reply))
=============================================================================
