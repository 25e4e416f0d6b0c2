-------------------------------- MODULE WiFi --------------------------------
(***************************************************************************)
(* The connection manager, WiFi.c, over the exchanges of wifi_drv.c, with  *)
(* the caches and the list of networks that wifi_drv.c keeps.  A step is   *)
(* one exchange, which is atomic here (SpiDrv is the model of one), with   *)
(* what the task does around it; the coprocessor, reached by frames that   *)
(* it decodes, and the air change in between.                              *)
(***************************************************************************)
EXTENDS WiFiDrv

CONSTANTS
    Tasks,
    Names,                      \* SSIDs
    FoundLists,                 \* what a scan may find: lists of SSIDs
    Queries,                    \* the cached values that are asked for
    Report(_, _),               \* what the coprocessor has to say to a query, by network
    NewCache,                   \* the caches before any query
    Scripts,                    \* the calls of settings, as the commands they send
    Stack,                      \* what a local variable may hold that is not set
    WL_MAX_ATTEMPT_CONNECTION,  \* attempts of each of the loops
    Serialized,                 \* do the callers keep each other out of the library?
    Reliable                    \* are all commands executed, and their replies intact?

ASSUME WiFiAssumption ==
    /\ Names \subseteq Seq(0..255) \ {<< >>}
    /\ FoundLists \subseteq Seq(Names)
    /\ Queries \subseteq {"SSID", "BSSID", "mac", "fw", "addresses"}
    /\ "SSID" \in DOMAIN NewCache /\ NewCache["SSID"] = Zeros(WL_SSID_MAX_LENGTH)
    /\ Stack \subseteq 0..255
    /\ WL_MAX_ATTEMPT_CONNECTION \in 1..255
    /\ Serialized \in BOOLEAN /\ Reliable \in BOOLEAN

WL_IDLE_STATUS    == 0
WL_NO_SSID_AVAIL  == 1
WL_SCAN_COMPLETED == 2
WL_CONNECT_FAILED == 4
WL_AP_FAILED      == 9
WL_CONNECTED      == 3
Statuses          == {WL_IDLE_STATUS, WL_NO_SSID_AVAIL, WL_CONNECTED, WL_CONNECT_FAILED}

Answers == -128..255
NoName  == << >>

\* The calls that set a network and then wait for it.
Stations     == {"open", "WEP", "passphrase"}
AccessPoints == {"AP", "APpassphrase"}

VARIABLES
    pc,         \* what the task does next
    op,         \* the call it is in
    ssid,       \* its argument ssid
    script,     \* the commands that a call of settings has left to send
    attempts,   \* attempts
    status,     \* status or numOfNetworks, and the result
    cache,      \* the cached answers, by query
    list,       \* WiFiDrv__networkSsid
    conf,       \* the coprocessor: the network it was told to set up, ...
    found       \* ... and the networks in the air

callVars == <<pc, op, ssid, script, attempts, status>>
drvVars  == <<cache, list>>
espVars  == <<conf, found>>
vars     == <<callVars, drvVars, espVars>>

Init ==
    /\ pc = [t \in Tasks |-> "idle"]
    /\ op = [t \in Tasks |-> "none"]
    /\ ssid = [t \in Tasks |-> NoName]
    /\ script = [t \in Tasks |-> << >>]
    /\ attempts = [t \in Tasks |-> 0]
    /\ status = [t \in Tasks |-> 0]
    /\ cache = NewCache
    /\ list = [i \in 1..WL_NETWORKS_LIST_MAXNUM |-> Zeros(WL_SSID_MAX_LENGTH)]
    /\ conf = NoName
    /\ found = << >>

At(t, label)   == pc[t] = label
Goto(t, label) == pc' = [pc EXCEPT ![t] = label]

\* The function returns r.
Return(t, r) == Goto(t, "return") /\ status' = [status EXCEPT ![t] = r]

\* What the coprocessor reads in the frame of a command.
Received(c) == Decode(Frame(c, FALSE), FALSE)

\* The replies to a command that answers `bytes': the answer, one with an empty
\* parameter, or none.
Replies(bytes) == {<<bytes>>} \union (IF Reliable THEN {} ELSE {<< << >> >>, << >>})

\* The bytes behind the count of a reply of several parameters.
Behind3(a, b, c) == <<Len(a)>> \o a \o <<Len(b)>> \o b \o <<Len(c)>> \o c \o <<END_CMD>>

-----------------------------------------------------------------------------
(* The calls *)

\* Faulty: nobody takes the lock.
ExclusiveNever(t) == TRUE

\* The caller's lock, if there is one.
Exclusive(t) == Serialized => \A u \in Tasks \ {t} : At(u, "idle")

Begin(t, o, label) ==
    /\ At(t, "idle") /\ Exclusive(t)
    /\ op' = [op EXCEPT ![t] = o]
    /\ Goto(t, label)

\* WiFi_begin_open, _WEP, _passphrase, and WiFi_beginAP_ssid, _ssid_passphrase
\* with and without a channel.
BeginNetwork(t, o, name) ==
    /\ Begin(t, o, "set")
    /\ ssid' = [ssid EXCEPT ![t] = name]
    /\ UNCHANGED <<script, attempts, status, drvVars, espVars>>

ScanNetworks(t) ==
    /\ Begin(t, "scan", "startScan")
    /\ UNCHANGED <<ssid, script, attempts, status, drvVars, espVars>>

\* WiFi_SSID, _BSSID, _macAddress, _firmwareVersion, _localIP, _subnetMask and
\* _gatewayIP.
Query(t, q) ==
    /\ Begin(t, q, "query")
    /\ UNCHANGED <<ssid, script, attempts, status, drvVars, espVars>>

\* The calls that set something and ignore the replies.
Settings(t, commands) ==
    /\ Begin(t, "settings", "settings")
    /\ script' = [script EXCEPT ![t] = commands]
    /\ UNCHANGED <<ssid, attempts, status, drvVars, espVars>>

WiFi_disconnect(t) ==
    /\ Begin(t, "disconnect", "disconnect")
    /\ UNCHANGED <<ssid, script, attempts, status, drvVars, espVars>>

\* WiFi_end, and WiFi_init: the coprocessor is reset, the caches are not.
Restart(t) ==
    /\ At(t, "idle") /\ Exclusive(t)
    /\ conf' = NoName
    /\ UNCHANGED <<callVars, drvVars, found>>

\* The caller has the result, and the locals are gone.
Finish(t) ==
    /\ At(t, "return")
    /\ Goto(t, "idle")
    /\ op' = [op EXCEPT ![t] = "none"]
    /\ ssid' = [ssid EXCEPT ![t] = NoName]
    /\ attempts' = [attempts EXCEPT ![t] = 0]
    /\ status' = [status EXCEPT ![t] = 0]
    /\ UNCHANGED <<script, drvVars, espVars>>

-----------------------------------------------------------------------------
(* WiFi_begin_*, WiFi_beginAP_*, and the loops behind them *)

Key == <<1, 2, 3, 4, 5>>      \* a key, or a passphrase

\* The exchange that sets the network.
SetNetwork(o, name, reply) ==
    CASE o = "open"         -> WiFiDrv_wifiSetNetwork(name, reply)
      [] o = "WEP"          -> WiFiDrv_wifiSetKey(name, 0, Key, reply)
      [] o = "passphrase"   -> WiFiDrv_wifiSetPassphrase(name, Key, reply)
      [] o = "AP"           -> WiFiDrv_wifiSetApNetwork(name, 1, reply)
      [] o = "APpassphrase" -> WiFiDrv_wifiSetApPassphrase(name, Key, 1, reply)

FailedAs(o) == IF o \in Stations THEN WL_CONNECT_FAILED ELSE WL_AP_FAILED

\* Faulty: goes on whatever the driver says.
SetFailedNever(r) == FALSE

SetFailed(r) == r = WL_FAILURE

\* The coprocessor takes the network or refuses it, or the command is lost.
Set(t) ==
    LET c == SetNetwork(op[t], ssid[t], << >>).sent IN
    /\ At(t, "set")
    /\ \E taken \in BOOLEAN : \E reply \in Replies(<<IF taken THEN WIFI_SPI_ACK ELSE 255>>) :
          LET r == SetNetwork(op[t], ssid[t], reply).value IN
          /\ conf' = IF taken THEN Received(c).params[1] ELSE conf
          /\ IF SetFailed(r)
             THEN Return(t, FailedAs(op[t])) /\ UNCHANGED attempts
             ELSE /\ Goto(t, "poll")
                  /\ attempts' = [attempts EXCEPT ![t] = WL_MAX_ATTEMPT_CONNECTION]
                  /\ UNCHANGED status
    /\ UNCHANGED <<op, ssid, script, drvVars, found>>

\* The answers after which a loop goes on.
Undecided(o) ==
    CASE o \in Stations     -> {WL_IDLE_STATUS, WL_NO_SSID_AVAIL, WL_SCAN_COMPLETED}
      [] o \in AccessPoints -> {WL_IDLE_STATUS, WL_SCAN_COMPLETED}
      [] o = "scan"         -> {0}
      [] OTHER              -> {}

\* Faulty: attempts-- > 0.
MoreAttemptsLate(n) == n > 0

\* Faulty: --attempts >= 0, which every uint8 is.
MoreAttemptsEver(n) == TRUE

\* --attempts > 0
MoreAttempts(n) == n - 1 > 0

int8(n) == IF n >= 128 THEN n - 256 ELSE n

\* WiFi_scanNetworks returns its uint8 as an int8.
Result(o, a) == IF o = "scan" THEN int8(a) ELSE a

\* Faulty: starts over with the last attempt.
TurnRestarting(t, a) ==
    IF a \in Undecided(op[t])
    THEN /\ attempts' = [attempts EXCEPT ![t] = IF @ = 1 THEN WL_MAX_ATTEMPT_CONNECTION ELSE @ - 1]
         /\ status' = [status EXCEPT ![t] = a]
         /\ UNCHANGED pc
    ELSE Return(t, Result(op[t], a)) /\ UNCHANGED attempts

\* The end of a turn of a loop, with the answer a.
Turn(t, a) ==
    IF a \in Undecided(op[t]) /\ MoreAttempts(attempts[t])
    THEN /\ attempts' = [attempts EXCEPT ![t] = uint8(@ - 1)]
         /\ status' = [status EXCEPT ![t] = a]
         /\ UNCHANGED pc
    ELSE Return(t, Result(op[t], a)) /\ UNCHANGED attempts

\* WiFi_begin_common and WiFi_beginAP_common: status is a uint8.
Poll(t) ==
    /\ At(t, "poll")
    /\ \E s \in Statuses : \E reply \in Replies(<<s>>) :
          Turn(t, uint8(WiFiDrv_getConnectionStatus(reply).value))
    /\ UNCHANGED <<op, ssid, script, drvVars, espVars>>

-----------------------------------------------------------------------------
(* WiFi_scanNetworks *)

StartScan(t) ==
    /\ At(t, "startScan")
    /\ \E reply \in Replies(<<WIFI_SPI_ACK>>) :
          IF WiFiDrv_startScanNetworks(reply).value = WL_FAILURE
          THEN Return(t, WL_FAILURE) /\ UNCHANGED attempts
          ELSE /\ Goto(t, "getScan")
               /\ attempts' = [attempts EXCEPT ![t] = WL_MAX_ATTEMPT_CONNECTION]
               /\ UNCHANGED status
    /\ UNCHANGED <<op, ssid, script, drvVars, espVars>>

\* The replies to SCAN_NETWORKS: the count, and the bytes behind it.
ListReply(names) ==
    LET upto[i \in 0..Len(names)] ==
            IF i = 0 THEN << >> ELSE upto[i-1] \o <<Len(names[i])>> \o names[i]
    IN  <<Len(names), upto[Len(names)] \o <<END_CMD>>>>

ScanReplies == {ListReply(found)} \union (IF Reliable THEN {} ELSE {ListReply(<< << >> >>), << >>})

GetScan(t) ==
    /\ At(t, "getScan")
    /\ \E reply \in ScanReplies : \E stack \in Stack :
          LET r == WiFiDrv_getScanNetworks(reply, list, stack).value IN
          /\ list' = r.list
          /\ Turn(t, r.count)
    /\ UNCHANGED <<op, ssid, script, cache, espVars>>

-----------------------------------------------------------------------------
(* The other calls *)

\* The calls of settings, as the commands that they send.  An address that is
\* not given is zero.
SetPin(pin)        == WiFiDrv_pinMode(pin, 1, << >>).sent
SetLED(pin, level) == WiFiDrv_analogWrite(pin, level, << >>).sent

WiFi_setLEDs(red, green, blue) ==
    <<SetPin(25), SetPin(26), SetPin(27), SetLED(25, red), SetLED(26, green), SetLED(27, blue)>>

Config(n, ip, gateway, subnet) == WiFiDrv_config(n, ip, gateway, subnet, << >>).sent
DNS(n, server1, server2)       == WiFiDrv_setDNS(n, server1, server2, << >>).sent

WiFi_config_static(ip)          == <<Config(1, ip, Zeros(4), Zeros(4))>>
WiFi_config_static_dns(ip, dns) == <<Config(1, ip, Zeros(4), Zeros(4)), DNS(1, dns, Zeros(4))>>
WiFi_config_static_dns_gateway(ip, dns, gateway) ==
    <<Config(2, ip, gateway, Zeros(4)), DNS(1, dns, Zeros(4))>>
WiFi_config_static_dns_gateway_subnet(ip, dns, gateway, subnet) ==
    <<Config(3, ip, gateway, subnet), DNS(1, dns, Zeros(4))>>

WiFi_setDNS(server)                        == <<DNS(1, server, Zeros(4))>>
WiFi_setDNS_two_servers(server1, server2) == <<DNS(2, server1, server2)>>
WiFi_setHostname(name)                     == <<WiFiDrv_setHostname(name, << >>).sent>>
WiFi_lowPowerMode   == <<WiFiDrv_setPowerMode(1, << >>).sent>>
WiFi_noLowPowerMode == <<WiFiDrv_setPowerMode(0, << >>).sent>>

\* The ttl is an int, and sent as a byte.
WiFi_ping_ipaddress(host, ttl, reply, stack) ==
    WiFiDrv_ping(host, IF ttl <= 0 THEN 128 ELSE uint8(ttl), reply, stack).value

\* Three exchanges: the lookup, its result `ip', and the ping.
WiFi_ping_hostname(hostname, ip, ttl, lookup, result, reply, stack) ==
    IF WiFiDrv_getHostByName(hostname, lookup, result, stack) = 0
    THEN WL_PING_UNKNOWN_HOST
    ELSE WiFi_ping_ipaddress(ip, ttl, reply, stack)

\* The exchange of a query, and what its cache holds afterwards.
QueryCall(q, reply) ==
    CASE q = "SSID"  -> WiFiDrv_getCurrentSSID(reply, cache[q])
      [] q = "BSSID" -> WiFiDrv_getCurrentBSSID(reply, cache[q])
      [] q = "mac"   -> WiFiDrv_getMacAddress(reply, cache[q])
      [] q = "fw"    -> WiFiDrv_getFwVersion(reply, cache[q])
      [] q = "addresses" -> WiFiDrv_getNetworkData(reply, cache[q])

QueryReplies(q) ==
    LET r == Report(q, conf) IN
    IF q = "addresses"
    THEN {Behind3(r[1], r[2], r[3])}
         \union (IF Reliable THEN {} ELSE {Behind3(<< >>, << >>, << >>), << >>})
    ELSE Replies(r)

Ask(t) ==
    /\ At(t, "query")
    /\ \E reply \in QueryReplies(op[t]) :
          cache' = [cache EXCEPT ![op[t]] = QueryCall(op[t], reply).value]
    /\ Goto(t, "return")
    /\ UNCHANGED <<op, ssid, script, attempts, status, list, espVars>>

SendSetting(t) ==
    /\ At(t, "settings")
    /\ script' = [script EXCEPT ![t] = Tail(@)]
    /\ IF Len(script[t]) = 1 THEN Goto(t, "return") ELSE UNCHANGED pc
    /\ UNCHANGED <<op, ssid, attempts, status, drvVars, espVars>>

\* The result is that of WiFiDrv_disconnect, and the command may be lost.
Leave(t) ==
    /\ At(t, "disconnect")
    /\ \E reply \in Replies(<<WIFI_SPI_ACK>>) : Return(t, WiFiDrv_disconnect(reply).value)
    /\ conf' \in {NoName} \union (IF Reliable THEN {} ELSE {conf})
    /\ UNCHANGED <<op, ssid, script, attempts, drvVars, found>>

\* The air: networks come and go, and the coprocessor loses its own.
Air ==
    /\ \/ found' \in FoundLists /\ UNCHANGED conf
       \/ conf' = NoName /\ UNCHANGED found
    /\ UNCHANGED <<callVars, drvVars>>

-----------------------------------------------------------------------------

\* What a task does once it is in a call.
TaskStep(t) ==
    \/ Set(t) \/ Poll(t) \/ StartScan(t) \/ GetScan(t)
    \/ Ask(t) \/ SendSetting(t) \/ Leave(t) \/ Finish(t)

TaskCalls(t) ==
    \/ \E o \in Stations \union AccessPoints : \E n \in Names : BeginNetwork(t, o, n)
    \/ \E q \in Queries : Query(t, q)
    \/ \E commands \in Scripts : Settings(t, commands)
    \/ ScanNetworks(t) \/ WiFi_disconnect(t) \/ Restart(t)

Next == Air \/ \E t \in Tasks : TaskCalls(t) \/ TaskStep(t)

Spec     == Init /\ [][Next]_vars
FairSpec == Spec /\ \A t \in Tasks : WF_vars(TaskStep(t))

-----------------------------------------------------------------------------
(* Properties *)

Labels  == {"idle", "set", "poll", "startScan", "getScan", "query", "settings",
            "disconnect", "return"}
Waiting == Stations \union AccessPoints
Ops     == {"none", "scan", "settings", "disconnect"} \union Waiting \union Queries
Rows    == 1..WL_NETWORKS_LIST_MAXNUM

TypeOK ==
    /\ pc \in [Tasks -> Labels] /\ op \in [Tasks -> Ops]
    /\ ssid \in [Tasks -> Names \union {NoName}]
    /\ script \in [Tasks -> Seq([cmd : 0..127, params : Seq(Seq(0..255))])]
    /\ attempts \in [Tasks -> 0..WL_MAX_ATTEMPT_CONNECTION]
    /\ status \in [Tasks -> Answers]
    /\ DOMAIN cache = DOMAIN NewCache
    /\ list \in [Rows -> [1..WL_SSID_MAX_LENGTH -> 0..255]]
    /\ conf \in Names \union {NoName}
    /\ found \in FoundLists \union {<< >>}

\* A loop whose driver call tells a refusal (beginAP without a passphrase; a
\* begin without one would) waits for its own network: the coprocessor has that
\* one, or has lost it.
PollsOwnNetwork ==
    \A t \in Tasks : At(t, "poll") /\ op[t] \in {"open", "AP"} => conf \in {NoName, ssid[t]}

\* The command that a task is about to send.
Command(t) ==
    CASE At(t, "set")        -> SetNetwork(op[t], ssid[t], << >>).sent
      [] At(t, "poll")       -> WiFiDrv_getConnectionStatus(<< >>).sent
      [] At(t, "startScan")  -> WiFiDrv_startScanNetworks(<< >>).sent
      [] At(t, "getScan")    -> WiFiDrv_getScanNetworks(<< >>, list, 0).sent
      [] At(t, "query")      -> QueryCall(op[t], << >>).sent
      [] At(t, "settings")   -> Head(script[t])
      [] At(t, "disconnect") -> WiFiDrv_disconnect(<< >>).sent

\* Every command of the connection manager is within txBuffer, and is what the
\* coprocessor reads, although the frame's length is checked nowhere, and its
\* end not marked by a length.
CommandsFramed ==
    \A t \in Tasks : pc[t] \notin {"idle", "return"} =>
       FitsTxBuffer(Command(t), FALSE) /\ ReadsBack(Command(t), FALSE)

\* A row of a cache is a name, or the beginning of one, with zeros behind it.
IsCut(row, name) ==
    \E n \in 0..Len(name) :
       \A k \in DOMAIN row : row[k] = IF k <= n THEN name[k] ELSE 0

\* Whatever becomes of the reply, WiFi_SSID does not return the SSID of a
\* network that the coprocessor has left: it is the current one, or empty.
SsidCurrent ==
    [][\A t \in Tasks :
          At(t, "query") /\ op[t] = "SSID" /\ pc'[t] = "return" =>
             IsCut(cache'["SSID"], conf)]_vars

\* After a poll of a scan, the list has nothing of an earlier scan: a row is of
\* the network at its place in this one, or empty.
ScanListCurrent ==
    [][\A t \in Tasks :
          At(t, "getScan") /\ (pc'[t] = "return" \/ attempts'[t] # attempts[t]) =>
             \A i \in Rows : IsCut(list'[i], IF i <= Len(found) THEN found[i] ELSE NoName)]_vars

\* The loops are those of PollLoop.
InLoop(t) == pc[t] \in {"poll", "getScan"}

Loops == INSTANCE PollLoop WITH
    MaxAsked  <- WL_MAX_ATTEMPT_CONNECTION,
    undecided <- [t \in Tasks |-> IF InLoop(t) THEN Undecided(op[t]) ELSE {}],
    asked     <- [t \in Tasks |-> IF InLoop(t) THEN WL_MAX_ATTEMPT_CONNECTION - attempts[t] ELSE 0],
    answer    <- status

\* Each loop asks at least once and at most WL_MAX_ATTEMPT_CONNECTION times,
\* goes on only after an answer that decides nothing, and returns the last one.
ImplementsPollLoop == Loops!Spec

\* Every call returns, although no status but WL_IDLE_STATUS ever gets through.
ManagerCallReturns == \A t \in Tasks : ~At(t, "idle") ~> At(t, "idle")

\* Expected of WiFi_begin_open by the comment on WiFiDrv_wifiSetNetwork, which
\* promises a success: a network that the coprocessor takes in that exchange is
\* not reported as one that failed.
TakenIsNotFailed ==
    [][\A t \in Tasks : op[t] = "open" /\ Set(t) /\ conf' # conf => pc'[t] = "poll"]_vars

\* Expected of WiFi_subnetMask by its comment: it returns the network's mask, as
\* far as the bytes go that are stored.
MaskIsMask ==
    [][\A t \in Tasks :
          At(t, "query") /\ op[t] = "addresses" /\ pc'[t] = "return" =>
             IsCut(cache'["addresses"][2], Report("addresses", conf)[2])]_vars
=============================================================================
