---------------------------- MODULE CommandFrame ----------------------------
(***************************************************************************)
(* The frame of a command, as SpiDrv_sendCmd and SpiDrv_sendBuffer build   *)
(* it in txBuffer.  A command is its code and its parameters, each a       *)
(* sequence of bytes; `wide' says which of the two functions sends it.     *)
(***************************************************************************)
EXTENDS Integers, SequencesExt

Code == [
    SET_NET_CMD |-> 16, SET_PASSPHRASE_CMD |-> 17, SET_KEY_CMD |-> 18,
    SET_IP_CONFIG_CMD |-> 20, SET_DNS_CONFIG_CMD |-> 21, SET_HOSTNAME_CMD |-> 22,
    SET_POWER_MODE_CMD |-> 23, SET_AP_NET_CMD |-> 24, SET_AP_PASSPHRASE_CMD |-> 25,
    SET_DEBUG_CMD |-> 26, GET_TEMPERATURE_CMD |-> 27,
    GET_CONN_STATUS_CMD |-> 32, GET_IPADDR_CMD |-> 33, GET_MACADDR_CMD |-> 34,
    GET_CURR_SSID_CMD |-> 35, GET_CURR_BSSID_CMD |-> 36, GET_CURR_RSSI_CMD |-> 37,
    GET_CURR_ENCT_CMD |-> 38, SCAN_NETWORKS |-> 39, START_SERVER_TCP_CMD |-> 40,
    GET_STATE_TCP_CMD |-> 41, AVAIL_DATA_TCP_CMD |-> 43, GET_DATA_TCP_CMD |-> 44,
    START_CLIENT_TCP_CMD |-> 45, STOP_CLIENT_TCP_CMD |-> 46, GET_CLIENT_STATE_TCP_CMD |-> 47,
    DISCONNECT_CMD |-> 48, GET_IDX_RSSI_CMD |-> 50, GET_IDX_ENCT_CMD |-> 51,
    REQ_HOST_BY_NAME_CMD |-> 52, GET_HOST_BY_NAME_CMD |-> 53, START_SCAN_NETWORKS |-> 54,
    GET_FW_VERSION_CMD |-> 55, SEND_DATA_UDP_CMD |-> 57, GET_REMOTE_DATA_CMD |-> 58,
    GET_TIME_CMD |-> 59, GET_IDX_BSSID |-> 60, GET_IDX_CHANNEL_CMD |-> 61, PING_CMD |-> 62,
    GET_SOCKET_CMD |-> 63, SEND_DATA_TCP_CMD |-> 68, GET_DATABUF_TCP_CMD |-> 69,
    INSERT_DATABUF_CMD |-> 70,
    SET_PIN_MODE |-> 80, SET_DIGITAL_WRITE |-> 81, SET_ANALOG_WRITE |-> 82]

START_CMD  == 224
FRAME_END  == 238      \* END_CMD
REPLY_FLAG == 128
MAX_PARAMS == 5
SPI_MAX_TX_BUFFER == 255

LenWidth(wide) == IF wide THEN 2 ELSE 1

\* The first number that a length does not hold: of a tDataParam, a uint16, or
\* of a tParam, a uint8.
TooLong(wide) == IF wide THEN 65536 ELSE 256

\* As many bytes of a parameter are copied as its length holds of their number.
Counted(param, wide) == Len(param) % TooLong(wide)

LenBytes(n, wide) == IF wide THEN <<n \div 256, n % 256>> ELSE <<n>>

\* A parameter in the frame, behind its length.
Part(param, wide) ==
    LET n == Counted(param, wide) IN LenBytes(n, wide) \o SubSeq(param, 1, n)

\* Faulty: pads to a multiple of 32, as the comment has it.
PadTo32(j) == 31 - (j % 32)

\* Faulty: END_CMD begins a word instead of ending one.
PadToWord(j) == (4 - (j % 4)) % 4

\* Zeros before END_CMD, which ends a word of four bytes.
PadCount(j) == 3 - (j % 4)

Frame(c, wide) ==
    LET body == <<START_CMD, c.cmd % REPLY_FLAG, Len(c.params)>>
                \o FlattenSeq([p \in DOMAIN c.params |-> Part(c.params[p], wide)])
    IN  body \o [k \in 1..PadCount(Len(body)) |-> 0] \o <<FRAME_END>>

\* What is written to txBuffer, in bytes.
LengthOf(ps, p, wide) == IF p <= Len(ps) THEN Counted(ps[p], wide) ELSE 0
TotalOf(ps, wide) ==
    LengthOf(ps, 1, wide) + LengthOf(ps, 2, wide) + LengthOf(ps, 3, wide)
    + LengthOf(ps, 4, wide) + LengthOf(ps, 5, wide)
BodyLength(c, wide)  == 3 + LenWidth(wide) * Len(c.params) + TotalOf(c.params, wide)
FrameLength(c, wide) == BodyLength(c, wide) + PadCount(BodyLength(c, wide)) + 1

\* How the coprocessor reads a frame.
Decode(f, wide) ==
    LET w == LenWidth(wide)
        len(k) == IF wide THEN 256 * f[k] + f[k+1] ELSE f[k]
        at[p \in 1..f[3]+1] == IF p = 1 THEN 4 ELSE at[p-1] + w + len(at[p-1])
    IN  [cmd |-> f[2],
         params |-> [p \in 1..f[3] |-> SubSeq(f, at[p] + w, at[p+1] - 1)]]

-----------------------------------------------------------------------------
(* Properties of a command, at the point where a caller sends it *)

\* It stays within txBuffer, which nothing in the code checks.
FitsTxBuffer(c, wide) == FrameLength(c, wide) <= SPI_MAX_TX_BUFFER

\* The coprocessor gets what was meant, in whole words that end with END_CMD.
ReadsBack(c, wide) ==
    LET f == Frame(c, wide) IN
    /\ Decode(f, wide) = c
    /\ Len(f) = FrameLength(c, wide) /\ Len(f) % 4 = 0 /\ f[Len(f)] = FRAME_END
=============================================================================
