------------------------------ MODULE WiFiDrv -------------------------------
(***************************************************************************)
(* The functions of wifi_drv.c, as those of server_drv.c are given in      *)
(* ServerDrv: the command that each sends, and what it returns for a       *)
(* reply.  A function that has a cache takes its bytes and returns the     *)
(* new ones.  Names, keys and addresses are the bytes they are sent as;    *)
(* what a local variable held that the code does not set is a parameter.   *)
(***************************************************************************)
EXTENDS ReplyValues, CommandFrame

CONSTANTS
    WL_SSID_MAX_LENGTH,
    WL_NETWORKS_LIST_MAXNUM,
    LIST_CLOCKED       \* WIFI_SOCKET_BUFFER_SIZE, the bytes clocked for a list

ASSUME WiFiDrvAssumption ==
    /\ END_CMD \in 0..255
    /\ WL_SSID_MAX_LENGTH \in 1..255
    /\ WL_NETWORKS_LIST_MAXNUM \in 1..255
    /\ LIST_CLOCKED \in Nat

DUMMY_DATA   == <<255>>
WIFI_SPI_ACK == 1
ENC_TYPE_UNKNOWN == 255
WL_PING_UNKNOWN_HOST == -3
WL_PING_ERROR == -4

Zeros(n) == [k \in 1..n |-> 0]

-----------------------------------------------------------------------------
(* Networks and configuration.  All variables for the answers have one byte, *)
(* but some functions name more: what the parse then writes behind the       *)
(* variable is taken to hit nothing that is used again.                      *)

WiFiDrv_wifiSetNetwork(ssid, reply) ==
    Exchange(Code.SET_NET_CMD, <<ssid>>,
             IF Checked(reply, 1) = WIFI_SPI_ACK THEN WL_SUCCESS ELSE WL_FAILURE)

WiFiDrv_wifiSetPassphrase(ssid, passphrase, reply) ==
    Exchange(Code.SET_PASSPHRASE_CMD, <<ssid, passphrase>>, Checked(reply, 1))

WiFiDrv_wifiSetKey(ssid, key_idx, key, reply) ==
    Exchange(Code.SET_KEY_CMD, <<ssid, <<key_idx>>, key>>, Checked(reply, 1))

WiFiDrv_config(validParams, local_ip, gateway, subnet, reply) ==
    Exchange(Code.SET_IP_CONFIG_CMD, <<<<validParams>>, local_ip, gateway, subnet>>,
             Checked(reply, 1))

WiFiDrv_setDNS(validParams, dns_server1, dns_server2, reply) ==
    Exchange(Code.SET_DNS_CONFIG_CMD, <<<<validParams>>, dns_server1, dns_server2>>,
             Checked(reply, 1))

WiFiDrv_setHostname(hostname, reply) ==
    Exchange(Code.SET_HOSTNAME_CMD, <<hostname>>, Checked(reply, 1))

WiFiDrv_setPowerMode(mode, reply) ==
    Exchange(Code.SET_POWER_MODE_CMD, <<<<mode>>>>, IF Accepted(reply, 4) THEN 1 ELSE 0)

WiFiDrv_wifiSetApNetwork(ssid, channel, reply) ==
    Exchange(Code.SET_AP_NET_CMD, <<ssid, <<channel>>>>,
             IF Checked(reply, 4) = WIFI_SPI_ACK THEN WL_SUCCESS ELSE WL_FAILURE)

WiFiDrv_wifiSetApPassphrase(ssid, passphrase, channel, reply) ==
    Exchange(Code.SET_AP_PASSPHRASE_CMD, <<ssid, passphrase, <<channel>>>>, Checked(reply, 4))

WiFiDrv_debug(on, reply) ==
    Exchange(Code.SET_DEBUG_CMD, <<<<on>>>>, Variable(reply, 2, <<0>>)[1])

WiFiDrv_pinMode(pin, mode, reply) ==
    Exchange(Code.SET_PIN_MODE, <<<<pin>>, <<mode>>>>, Checked(reply, 1))

WiFiDrv_digitalWrite(pin, level, reply) ==
    Exchange(Code.SET_DIGITAL_WRITE, <<<<pin>>, <<level>>>>, Checked(reply, 1))

WiFiDrv_analogWrite(pin, level, reply) ==
    Exchange(Code.SET_ANALOG_WRITE, <<<<pin>>, <<level>>>>, Checked(reply, 1))

-----------------------------------------------------------------------------
(* The connection *)

WiFiDrv_disconnect(reply) == Exchange(Code.DISCONNECT_CMD, <<DUMMY_DATA>>, OneByte(reply))

\* An int8 that held -1, for an answer of one byte.
WiFiDrv_getConnectionStatus(reply) ==
    Exchange(Code.GET_CONN_STATUS_CMD, << >>, Variable(reply, 1, <<-1>>)[1])

WiFiDrv_getCurrentRSSI(reply, stack) ==
    Exchange(Code.GET_CURR_RSSI_CMD, <<DUMMY_DATA>>, Variable(reply, 4, stack))

WiFiDrv_getCurrentEncryptionType(reply) ==
    Exchange(Code.GET_CURR_ENCT_CMD, <<DUMMY_DATA>>, OneByte(reply))

\* Faulty: leaves what was there.
ClearedNever(old) == old

\* memset of a cache, which the SSID and the list get before a reply, and the
\* others do not.
Cleared(old) == [k \in DOMAIN old |-> 0]

WiFiDrv_getCurrentSSID(reply, ssid) ==
    Exchange(Code.GET_CURR_SSID_CMD, <<DUMMY_DATA>>, Variable(reply, Len(ssid), Cleared(ssid)))

WiFiDrv_getCurrentBSSID(reply, bssid) ==
    Exchange(Code.GET_CURR_BSSID_CMD, <<DUMMY_DATA>>, Variable(reply, Len(bssid), bssid))

WiFiDrv_getMacAddress(reply, mac) ==
    Exchange(Code.GET_MACADDR_CMD, <<DUMMY_DATA>>, Variable(reply, Len(mac), mac))

WiFiDrv_getFwVersion(reply, fwVersion) ==
    Exchange(Code.GET_FW_VERSION_CMD, << >>, Variable(reply, Len(fwVersion), fwVersion))

\* The address, mask and gateway, into variables of four bytes that held `old'.
\* A reply of three addresses is << >>, or the bytes behind its count.
Second(s, room) == Behind(s, 1, room)
Third(s, room)  == Behind(s, Second(s, room), room)

WiFiDrv_getNetworkData(s, old) ==
    Exchange(Code.GET_IPADDR_CMD, <<DUMMY_DATA>>,
             IF s = << >> THEN old
             ELSE <<Over(FieldAt(s, 1, 4), old[1]),
                    Over(FieldAt(s, Second(s, 4), 4), old[2]),
                    Over(FieldAt(s, Third(s, 4), 4), old[3])>>)

WiFiDrv_getRemoteData(sock, s, ip, port) ==
    Exchange(Code.GET_REMOTE_DATA_CMD, <<<<sock>>>>,
             IF s = << >> THEN <<ip, port>>
             ELSE <<Over(FieldAt(s, 1, 4), ip), Over(FieldAt(s, Second(s, 4), 2), port)>>)

-----------------------------------------------------------------------------
(* Scanning *)

WiFiDrv_startScanNetworks(reply) ==
    Exchange(Code.START_SCAN_NETWORKS, << >>,
             IF Checked(reply, 1) = WL_FAILURE THEN WL_FAILURE ELSE WL_SUCCESS)

\* Each name goes to a row of the list.
NamesIn(names, list) ==
    [i \in DOMAIN list |->
        IF i \in DOMAIN names THEN Over(names[i], Cleared(list[i])) ELSE Cleared(list[i])]

\* The reply is << >>, or its count and the bytes behind that.  The number
\* returned is the one that the parse counted, which a refused reply leaves unset.
WiFiDrv_getScanNetworks(reply, list, stack) ==
    LET n     == IF reply[1] > WL_NETWORKS_LIST_MAXNUM THEN WL_NETWORKS_LIST_MAXNUM ELSE reply[1]
        rooms == [i \in 1..n |-> WL_SSID_MAX_LENGTH]
        names == Fields(UpTo(reply[2], LIST_CLOCKED - 3), rooms)
    IN  Exchange(Code.SCAN_NETWORKS, << >>,
                 IF reply = << >> THEN [list |-> NamesIn(<< >>, list), count |-> stack]
                                  ELSE [list |-> NamesIn(names, list), count |-> n])

\* A pointer into the list, or none.
WiFiDrv_getSSIDNetworks(item, list) ==
    IF item >= WL_NETWORKS_LIST_MAXNUM THEN << >> ELSE list[item + 1]

\* The queries for a network of the list: what they return for an item that is
\* not in it, without a command.
Listed(item, none, call) ==
    IF item >= WL_NETWORKS_LIST_MAXNUM THEN [call EXCEPT !.value = none] ELSE call

WiFiDrv_getEncTypeNetworks(item, reply) ==
    Listed(item, ENC_TYPE_UNKNOWN,
           Exchange(Code.GET_IDX_ENCT_CMD, <<<<item>>>>, OneByte(reply)))

WiFiDrv_getBSSIDNetworks(item, reply, bssid) ==
    Listed(item, << >>, Exchange(Code.GET_IDX_BSSID, <<<<item>>>>, Variable(reply, Len(bssid), bssid)))

WiFiDrv_getChannelNetworks(item, reply) ==
    Listed(item, 0, Exchange(Code.GET_IDX_CHANNEL_CMD, <<<<item>>>>, OneByte(reply)))

\* Sends one command and awaits the reply to another.
WiFiDrv_getRSSINetworks(item, reply) ==
    Listed(item, Zeros(4),
           Exchange(Code.GET_IDX_RSSI_CMD, <<<<item>>>>,
                    Variable(Awaiting(Code.GET_IDX_CHANNEL_CMD, Code.GET_IDX_RSSI_CMD, reply),
                             4, Zeros(4))))

-----------------------------------------------------------------------------
(* Names, time, and the rest *)

WiFiDrv_reqHostByName(name, reply) ==
    Exchange(Code.REQ_HOST_BY_NAME_CMD, <<name>>, IF Checked(reply, 1) = 1 THEN 1 ELSE 0)

WiFiDrv_getHostByNameResults(reply, stack) ==
    Exchange(Code.GET_HOST_BY_NAME_CMD, << >>,
             IF Accepted(reply, 4) /\ Variable(reply, 4, stack) # <<255, 255, 255, 255>>
             THEN 1 ELSE 0)

\* Two exchanges, the second only if the first says so (the address, which the
\* first never lets it get to, is left out).
WiFiDrv_getHostByName(name, reply, result, stack) ==
    IF WiFiDrv_reqHostByName(name, reply).value # 0
    THEN WiFiDrv_getHostByNameResults(result, stack).value
    ELSE 0

WiFiDrv_getTime(reply) ==
    Exchange(Code.GET_TIME_CMD, << >>, Variable(reply, 4, Zeros(4)))

\* (int16)(x * 8) of a float x, from the bytes that hold it; what does not fit
\* an int16 is left out.
TimesEight(bytes) ==
    LET exponent == 2 * (bytes[4] % 128) + bytes[3] \div 128
        fraction == 2^23 + 65536 * (bytes[3] % 128) + 256 * bytes[2] + bytes[1]
        size     == IF exponent < 124 THEN 0 ELSE fraction \div 2^(147 - exponent)
    IN  IF bytes[4] >= 128 THEN -size ELSE size

WiFiDrv_getTemperature(reply) ==
    Exchange(Code.GET_TEMPERATURE_CMD, << >>, TimesEight(Variable(reply, 4, Zeros(4))))

Int16(bytes) == IF bytes[2] >= 128 THEN Uint16(bytes) - 65536 ELSE Uint16(bytes)

WiFiDrv_ping(ip, ttl, reply, stack) ==
    Exchange(Code.PING_CMD, <<ip, <<ttl>>>>,
             IF Accepted(reply, 2) THEN Int16(Variable(reply, 2, stack)) ELSE WL_PING_ERROR)
=============================================================================
