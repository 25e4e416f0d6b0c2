----------------------------- MODULE WiFiProofs -----------------------------
(***************************************************************************)
(* Proofs about WiFi: that the loops of the connection manager are those   *)
(* of PollLoop, that they wait for their own network, that commands are    *)
(* read as they were meant, that an SSID and the list of a scan are the    *)
(* current ones, and the types of the variables.                           *)
(***************************************************************************)
EXTENDS WiFi, DriverProofs

-----------------------------------------------------------------------------
(* What the driver's calls return to the loops *)

LEMMA ManagerConstants ==
    /\ WL_MAX_ATTEMPT_CONNECTION \in 1..255
    /\ WL_NETWORKS_LIST_MAXNUM \in 1..255
    /\ Stack \subseteq 0..255
    /\ Queries \subseteq {"SSID", "BSSID", "mac", "fw", "addresses"}
BY WiFiAssumption, WiFiDrvAssumption

LEMMA ManagerReplies ==
    ASSUME NEW n \in Nat, NEW reply \in Replies(<<n>>)
    PROVE  reply \in Reply
<1>1. <<n>> \in Seq(Nat) /\ << >> \in Seq(Nat)
  OBVIOUS
<1> QED
  BY <1>1 DEF Replies, Reply

LEMMA PollAnswer ==
    ASSUME NEW s \in Statuses, NEW reply \in Replies(<<s>>)
    PROVE  uint8(WiFiDrv_getConnectionStatus(reply).value) \in {0, 255}
<1>1. s \in Nat
  BY DEF Statuses, WL_IDLE_STATUS, WL_NO_SSID_AVAIL, WL_CONNECTED, WL_CONNECT_FAILED
<1>2. WiFiDrv_getConnectionStatus(reply).value \in {0, -1}
  BY <1>1, ManagerReplies, StatusNeverTold
<1> QED
  BY <1>2 DEF uint8

LEMMA ScanAnswer ==
    ASSUME NEW reply \in ScanReplies, NEW stack \in Stack, NEW old,
           found \in FoundLists \union {<< >>}
    PROVE  WiFiDrv_getScanNetworks(reply, old, stack).value.count \in 0..255
<1>1. CASE reply = << >>
  BY <1>1, ManagerConstants DEF WiFiDrv_getScanNetworks, Exchange
<1>2. ASSUME NEW names, Len(names) \in Nat, reply = ListReply(names)
      PROVE  WiFiDrv_getScanNetworks(reply, old, stack).value.count \in 0..255
  <2>1. reply # << >> /\ reply[1] = Len(names)
    BY <1>2 DEF ListReply
  <2>2. (IF reply[1] > WL_NETWORKS_LIST_MAXNUM THEN WL_NETWORKS_LIST_MAXNUM ELSE reply[1])
           \in 0..255
    <3>1. \A n \in Nat, m \in 1..255 : (IF n > m THEN m ELSE n) \in 0..255
      OBVIOUS
    <3> QED
      BY <1>2, <2>1, <3>1, ManagerConstants, ZenonT(60)
  <2> QED
    BY <2>1, <2>2 DEF WiFiDrv_getScanNetworks, Exchange
<1>3. Len(found) \in Nat /\ Len(<< << >> >>) \in Nat
  BY WiFiAssumption, LenProperties
<1> QED
  BY <1>1, <1>2, <1>3 DEF ScanReplies

-----------------------------------------------------------------------------
(* The types of what a call keeps, and the loops *)

CallTypes ==
    /\ pc \in [Tasks -> Labels] /\ op \in [Tasks -> Ops]
    /\ ssid \in [Tasks -> Names \union {NoName}]
    /\ attempts \in [Tasks -> 0..WL_MAX_ATTEMPT_CONNECTION]
    /\ status \in [Tasks -> Answers]
    /\ found \in FoundLists \union {<< >>}

\* Where a task is tells which kind of call it is in; in a loop, attempts are left.
CallFits ==
    \A t \in Tasks :
       /\ pc[t] \in {"set", "poll"} => op[t] \in Waiting
       /\ pc[t] \in {"startScan", "getScan"} => op[t] = "scan"
       /\ pc[t] = "query" => op[t] \in Queries
       /\ InLoop(t) => attempts[t] \in 1..WL_MAX_ATTEMPT_CONNECTION

LoopInv == CallTypes /\ CallFits

\* A step of task t leaves the others where they are.
OthersStay(t) ==
    \A u \in Tasks \ {t} :
       pc'[u] = pc[u] /\ op'[u] = op[u] /\ attempts'[u] = attempts[u] /\ status'[u] = status[u]

\* What a step of task t is for its loop: outside, the start, another turn, or
\* the end.
Outside(t) == ~InLoop(t) /\ ~InLoop(t)'
Starting(t) ==
    /\ ~InLoop(t) /\ InLoop(t)' /\ status' = status
    /\ attempts'[t] = WL_MAX_ATTEMPT_CONNECTION
Turning(t) ==
    /\ InLoop(t) /\ pc'[t] = pc[t] /\ op'[t] = op[t]
    /\ attempts[t] > 1 /\ attempts'[t] = attempts[t] - 1
    /\ status'[t] \in Undecided(op[t])
Ending(t) ==
    /\ InLoop(t) /\ ~InLoop(t)'
    /\ status'[t] \notin Undecided(op[t]) \/ attempts[t] = 1

LoopStep(t) ==
    /\ LoopInv' /\ OthersStay(t)
    /\ Outside(t) \/ Starting(t) \/ Turning(t) \/ Ending(t)

LEMMA LoopInit == Init => LoopInv
BY ManagerConstants
   DEF Init, LoopInv, CallTypes, CallFits, Labels, Ops, Answers, NoName, InLoop

\* A task that starts a call.
LEMMA BeginStep ==
    ASSUME LoopInv, NEW t \in Tasks, NEW o \in Ops, NEW label \in Labels, Begin(t, o, label),
           label \in {"set", "startScan", "query", "settings", "disconnect"},
           label = "set" => o \in Waiting,
           label = "startScan" => o = "scan",
           label = "query" => o \in Queries,
           ssid' \in [Tasks -> Names \union {NoName}],
           UNCHANGED <<attempts, status, found>>
    PROVE  LoopStep(t)
<1> USE DEF LoopInv, CallTypes, CallFits, InLoop
<1>1. /\ pc' = [pc EXCEPT ![t] = label] /\ op' = [op EXCEPT ![t] = o]
      /\ pc[t] = "idle" /\ attempts' = attempts /\ status' = status /\ found' = found
  BY DEF Begin, Goto, At
<1>2. LoopInv'
  BY <1>1
<1>3. OthersStay(t) /\ Outside(t)
  BY <1>1 DEF OthersStay, Outside
<1> QED
  BY <1>2, <1>3 DEF LoopStep

LEMMA CallStep ==
    ASSUME LoopInv, NEW t \in Tasks, TaskCalls(t)
    PROVE  LoopStep(t)
<1> USE DEF Labels, Ops, drvVars, espVars
<1>0. ssid \in [Tasks -> Names \union {NoName}]
  BY DEF LoopInv, CallTypes
<1>1. ASSUME NEW o \in Stations \union AccessPoints, NEW n \in Names, BeginNetwork(t, o, n)
      PROVE  LoopStep(t)
  <2>1. o \in Ops /\ o \in Waiting
    BY DEF Waiting
  <2>2. ssid' \in [Tasks -> Names \union {NoName}]
    BY <1>0, <1>1 DEF BeginNetwork
  <2> QED
    BY <2>1, <2>2, <1>1, BeginStep DEF BeginNetwork
<1>2. ASSUME NEW q \in Queries, Query(t, q)
      PROVE  LoopStep(t)
  BY <1>0, <1>2, BeginStep DEF Query
<1>3. ASSUME NEW commands \in Scripts, Settings(t, commands)
      PROVE  LoopStep(t)
  BY <1>0, <1>3, BeginStep DEF Settings
<1>4. CASE ScanNetworks(t)
  BY <1>0, <1>4, BeginStep DEF ScanNetworks
<1>5. CASE WiFi_disconnect(t)
  BY <1>0, <1>5, BeginStep DEF WiFi_disconnect
<1>6. CASE Restart(t)
  <2>1. /\ pc' = pc /\ op' = op /\ ssid' = ssid /\ attempts' = attempts /\ status' = status
        /\ found' = found /\ pc[t] = "idle"
    BY <1>6 DEF Restart, callVars, At
  <2>2. LoopInv'
    BY <2>1 DEF LoopInv, CallTypes, CallFits, InLoop
  <2> QED
    BY <2>1, <2>2 DEF LoopStep, OthersStay, Outside, InLoop
<1> QED
  BY <1>1, <1>2, <1>3, <1>4, <1>5, <1>6 DEF TaskCalls

\* The step of a task that is in no loop, to where it is in none.
LEMMA AwayStep ==
    ASSUME LoopInv, NEW t \in Tasks, ~InLoop(t),
           NEW label \in {"idle", "return", "settings"}, pc' = [pc EXCEPT ![t] = label],
           NEW o \in Ops, op' = [op EXCEPT ![t] = o],
           ssid' \in [Tasks -> Names \union {NoName}],
           NEW n \in 0..WL_MAX_ATTEMPT_CONNECTION, attempts' = [attempts EXCEPT ![t] = n],
           NEW r \in Answers, status' = [status EXCEPT ![t] = r],
           UNCHANGED found
    PROVE  LoopStep(t)
<1> USE DEF LoopInv, CallTypes, CallFits, InLoop
<1>1. LoopInv'
  BY DEF Labels
<1>2. OthersStay(t) /\ Outside(t)
  BY DEF OthersStay, Outside
<1> QED
  BY <1>1, <1>2 DEF LoopStep

\* The step of a task that goes into a loop.
LEMMA EnterStep ==
    ASSUME LoopInv, NEW t \in Tasks, ~InLoop(t),
           NEW label \in {"poll", "getScan"}, pc' = [pc EXCEPT ![t] = label],
           label = "poll" => op[t] \in Waiting, label = "getScan" => op[t] = "scan",
           attempts' = [attempts EXCEPT ![t] = WL_MAX_ATTEMPT_CONNECTION],
           UNCHANGED <<op, ssid, status, found>>
    PROVE  LoopStep(t)
<1> USE ManagerConstants DEF LoopInv, CallTypes, CallFits, InLoop
<1>1. LoopInv'
  BY DEF Labels
<1>2. OthersStay(t) /\ Starting(t)
  BY DEF OthersStay, Starting
<1> QED
  BY <1>1, <1>2 DEF LoopStep

\* The end of a turn.
LEMMA TurnStep ==
    ASSUME LoopInv, NEW t \in Tasks, InLoop(t), NEW a \in 0..255, Turn(t, a),
           UNCHANGED <<op, ssid, found>>
    PROVE  LoopStep(t)
<1> USE ManagerConstants DEF LoopInv, CallTypes, InLoop
<1>1. attempts[t] \in 1..WL_MAX_ATTEMPT_CONNECTION
  BY DEF CallFits
<1>2. CASE a \in Undecided(op[t]) /\ MoreAttempts(attempts[t])
  <2>1. attempts[t] > 1
    BY <1>1, <1>2 DEF MoreAttempts
  <2>2. uint8(attempts[t] - 1) = attempts[t] - 1
    <3>1. \A n \in 1..255 : n > 1 => (n - 1) % 256 = n - 1
      BY SMTT(30)
    <3>2. attempts[t] \in 1..255
      <4>1. \A m \in 1..255 : \A n \in 1..m : n \in 1..255
        OBVIOUS
      <4> QED
        BY <1>1, <4>1
    <3> QED
      BY <2>1, <3>1, <3>2 DEF uint8
  <2>3. /\ attempts' = [attempts EXCEPT ![t] = attempts[t] - 1]
        /\ status' = [status EXCEPT ![t] = a] /\ pc' = pc
    BY <1>2, <2>2 DEF Turn
  <2>4. attempts[t] - 1 \in 1..WL_MAX_ATTEMPT_CONNECTION /\ a \in Answers
    BY <1>1, <2>1 DEF Answers
  <2>5. LoopInv'
    BY <2>3, <2>4 DEF CallFits
  <2>6. OthersStay(t) /\ Turning(t)
    BY <1>2, <2>1, <2>3 DEF OthersStay, Turning
  <2> QED
    BY <2>5, <2>6 DEF LoopStep
<1>3. CASE ~(a \in Undecided(op[t]) /\ MoreAttempts(attempts[t]))
  <2> DEFINE r == Result(op[t], a)
  <2>1. r \in Answers
    BY DEF Result, int8, Answers
  <2>2. /\ pc' = [pc EXCEPT ![t] = "return"] /\ status' = [status EXCEPT ![t] = r]
        /\ attempts' = attempts
    BY <1>3 DEF Turn, Return, Goto
  <2>3. CASE a \notin Undecided(op[t])
    <3>1. r \notin Undecided(op[t])
      <4>1. CASE op[t] = "scan"
        <5>1. Undecided(op[t]) = {0}
          BY <4>1 DEF Undecided, Stations, AccessPoints
        <5>2. \A n \in 0..255 : n # 0 => int8(n) # 0
          BY DEF int8
        <5> QED
          BY <2>3, <4>1, <5>1, <5>2 DEF Result
      <4>2. CASE op[t] # "scan"
        BY <2>3, <4>2 DEF Result
      <4> QED
        BY <4>1, <4>2
    <3> QED
      BY <2>1, <2>2, <3>1 DEF LoopStep, CallFits, Labels, OthersStay, Ending
  <2>4. CASE attempts[t] = 1
    BY <2>1, <2>2, <2>4 DEF LoopStep, CallFits, Labels, OthersStay, Ending
  <2> QED
    BY <1>1, <1>3, <2>3, <2>4 DEF MoreAttempts
<1> QED
  BY <1>2, <1>3

LEMMA TaskLoopStep ==
    ASSUME LoopInv, NEW t \in Tasks, TaskStep(t)
    PROVE  LoopStep(t)
<1> USE DEF drvVars, espVars
<1>t. CallTypes /\ CallFits
  BY DEF LoopInv
<1>k. /\ op' = op => op' = [op EXCEPT ![t] = op[t]] /\ op[t] \in Ops
      /\ attempts' = attempts => /\ attempts' = [attempts EXCEPT ![t] = attempts[t]]
                                 /\ attempts[t] \in 0..WL_MAX_ATTEMPT_CONNECTION
      /\ status' = status => status' = [status EXCEPT ![t] = status[t]] /\ status[t] \in Answers
      /\ ssid' = ssid => ssid' \in [Tasks -> Names \union {NoName}]
  BY <1>t DEF CallTypes
<1>1. CASE Set(t)
  <2>1. ~InLoop(t) /\ op[t] \in Waiting
    BY <1>1, <1>t DEF Set, At, InLoop, CallFits
  <2>2. UNCHANGED <<op, ssid, found>>
    BY <1>1 DEF Set
  <2>3. CASE Return(t, FailedAs(op[t])) /\ UNCHANGED attempts
    <3>1. FailedAs(op[t]) \in Answers
      BY DEF FailedAs, WL_CONNECT_FAILED, WL_AP_FAILED, Answers
    <3> QED
      BY <1>k, <2>1, <2>2, <2>3, <3>1, AwayStep DEF Return, Goto
  <2>4. CASE /\ Goto(t, "poll")
             /\ attempts' = [attempts EXCEPT ![t] = WL_MAX_ATTEMPT_CONNECTION]
             /\ UNCHANGED status
    BY <2>1, <2>2, <2>4, EnterStep DEF Goto
  <2> QED
    BY <1>1, <2>3, <2>4 DEF Set
<1>2. CASE Poll(t)
  <2>1. PICK s \in Statuses : \E reply \in Replies(<<s>>) :
            Turn(t, uint8(WiFiDrv_getConnectionStatus(reply).value))
    BY <1>2 DEF Poll
  <2>2. PICK reply \in Replies(<<s>>) :
            Turn(t, uint8(WiFiDrv_getConnectionStatus(reply).value))
    BY <2>1
  <2>3. uint8(WiFiDrv_getConnectionStatus(reply).value) \in 0..255
    BY PollAnswer
  <2> QED
    BY <1>2, <2>2, <2>3, TurnStep DEF Poll, At, InLoop
<1>3. CASE StartScan(t)
  <2>1. ~InLoop(t) /\ op[t] = "scan"
    BY <1>3, <1>t DEF StartScan, At, InLoop, CallFits
  <2>2. UNCHANGED <<op, ssid, found>>
    BY <1>3 DEF StartScan
  <2>3. CASE Return(t, WL_FAILURE) /\ UNCHANGED attempts
    <3>1. WL_FAILURE \in Answers
      BY DEF WL_FAILURE, Answers
    <3> QED
      BY <1>k, <2>1, <2>2, <2>3, <3>1, AwayStep DEF Return, Goto
  <2>4. CASE /\ Goto(t, "getScan")
             /\ attempts' = [attempts EXCEPT ![t] = WL_MAX_ATTEMPT_CONNECTION]
             /\ UNCHANGED status
    BY <2>1, <2>2, <2>4, EnterStep DEF Goto
  <2> QED
    BY <1>3, <2>3, <2>4 DEF StartScan
<1>4. CASE GetScan(t)
  <2>1. PICK reply \in ScanReplies, stack \in Stack :
            Turn(t, WiFiDrv_getScanNetworks(reply, list, stack).value.count)
    BY <1>4 DEF GetScan
  <2>2. WiFiDrv_getScanNetworks(reply, list, stack).value.count \in 0..255
    BY <1>t, ScanAnswer DEF CallTypes
  <2> QED
    BY <1>4, <2>1, <2>2, TurnStep DEF GetScan, At, InLoop
<1>5. CASE Ask(t)
  <2>1. ~InLoop(t) /\ pc' = [pc EXCEPT ![t] = "return"] /\ UNCHANGED <<op, ssid, attempts, status, found>>
    BY <1>5 DEF Ask, At, Goto, InLoop
  <2> QED
    BY <1>k, <2>1, AwayStep
<1>6. CASE SendSetting(t)
  <2>1. ~InLoop(t) /\ UNCHANGED <<op, ssid, attempts, status, found>> /\ pc[t] = "settings"
    BY <1>6 DEF SendSetting, At, InLoop
  <2>2. CASE Goto(t, "return")
    BY <1>k, <2>1, <2>2, AwayStep DEF Goto
  <2>3. CASE UNCHANGED pc
    <3>1. pc' = [pc EXCEPT ![t] = "settings"]
      BY <1>t, <2>1, <2>3 DEF CallTypes
    <3> QED
      BY <1>k, <2>1, <3>1, AwayStep
  <2> QED
    BY <1>6, <2>2, <2>3 DEF SendSetting
<1>7. CASE Leave(t)
  <2>1. PICK reply \in Replies(<<WIFI_SPI_ACK>>) : Return(t, WiFiDrv_disconnect(reply).value)
    BY <1>7 DEF Leave
  <2>2. reply \in Reply
    BY ManagerReplies DEF WIFI_SPI_ACK
  <2>3. WiFiDrv_disconnect(reply).value = 0
    BY <2>2, OneByteLost DEF WiFiDrv_disconnect, Exchange, OneByte
  <2>4. 0 \in Answers
    BY DEF Answers
  <2>5. ~InLoop(t) /\ UNCHANGED <<op, ssid, attempts, found>>
    BY <1>7 DEF Leave, At, InLoop
  <2> QED
    BY <1>k, <2>1, <2>3, <2>4, <2>5, AwayStep DEF Return, Goto
<1>8. CASE Finish(t)
  <2>1. /\ ~InLoop(t) /\ pc' = [pc EXCEPT ![t] = "idle"] /\ op' = [op EXCEPT ![t] = "none"]
        /\ attempts' = [attempts EXCEPT ![t] = 0] /\ status' = [status EXCEPT ![t] = 0]
        /\ UNCHANGED found
    BY <1>8 DEF Finish, At, Goto, InLoop
  <2>2. ssid' \in [Tasks -> Names \union {NoName}]
    BY <1>8, <1>t DEF Finish, CallTypes
  <2>3. "none" \in Ops /\ 0 \in Answers /\ 0 \in 0..WL_MAX_ATTEMPT_CONNECTION
    BY ManagerConstants DEF Ops, Answers
  <2> QED
    BY <2>1, <2>2, <2>3, AwayStep
<1> QED
  BY <1>1, <1>2, <1>3, <1>4, <1>5, <1>6, <1>7, <1>8 DEF TaskStep

\* Steps in which no call moves.
LEMMA CallsStay ==
    ASSUME LoopInv, Air \/ UNCHANGED vars
    PROVE  LoopInv' /\ UNCHANGED <<pc, op, attempts, status>>
<1>1. UNCHANGED <<pc, op, ssid, attempts, status>>
  BY DEF Air, vars, callVars
<1>2. found' \in FoundLists \union {<< >>}
  BY DEF Air, vars, espVars, LoopInv, CallTypes
<1> QED
  BY <1>1, <1>2 DEF LoopInv, CallTypes, CallFits, InLoop

LEMMA LoopInvStep == LoopInv /\ [Next]_vars => LoopInv'
BY CallStep, TaskLoopStep, CallsStay DEF Next, LoopStep

LEMMA LoopInvHolds == Spec => []LoopInv
BY LoopInit, LoopInvStep, PTL DEF Spec

-----------------------------------------------------------------------------
(* Refinement *)

\* A step of a task is one of PollLoop's.
LEMMA MapsStep ==
    ASSUME LoopInv, NEW t \in Tasks, LoopStep(t)
    PROVE  Loops!Next
<1> USE ManagerConstants DEF LoopInv, CallTypes
<1> DEFINE und(u) == IF InLoop(u) THEN Undecided(op[u]) ELSE {}
           ask(u) == IF InLoop(u) THEN WL_MAX_ATTEMPT_CONNECTION - attempts[u] ELSE 0
<1>1. \A u \in Tasks \ {t} : und(u)' = und(u) /\ ask(u)' = ask(u) /\ status'[u] = status[u]
  BY DEF LoopStep, OthersStay, InLoop
<1>2. status' \in [Tasks -> Answers] /\ status' = [status EXCEPT ![t] = status'[t]]
  BY <1>1 DEF LoopStep
<1>3. CASE Outside(t)
  <2>1. \A u \in Tasks : und(u)' = und(u) /\ ask(u)' = ask(u)
    BY <1>1, <1>3 DEF Outside
  <2>2. Loops!Elsewhere(t)
    BY <1>2, <1>3, <2>1 DEF Loops!Elsewhere, Loops!Answered, Outside
  <2> QED
    BY <2>2 DEF Loops!Next
<1>4. CASE Starting(t)
  <2>1. ask(t) = 0 /\ ask(t)' = 0 /\ und(t) = {}
    BY <1>4 DEF Starting
  <2>2. und(t)' \subseteq Answers
    BY DEF Undecided, Answers, WL_IDLE_STATUS, WL_NO_SSID_AVAIL, WL_SCAN_COMPLETED
  <2>3. Loops!Start(t)
    BY <1>1, <1>4, <2>1, <2>2, ZenonT(60) DEF Loops!Start, Starting
  <2> QED
    BY <2>3 DEF Loops!Next
<1>5. CASE Turning(t)
  <2>1. attempts[t] \in Int
    BY <1>5, ManagerConstants
  <2>2. InLoop(t)' /\ ask(t)' = ask(t) + 1 /\ ask(t) + 1 < WL_MAX_ATTEMPT_CONNECTION
    <3>1. InLoop(t) /\ InLoop(t)' /\ attempts'[t] = attempts[t] - 1 /\ attempts[t] > 1
      BY <1>5 DEF Turning, InLoop
    <3>2. /\ ask(t) = WL_MAX_ATTEMPT_CONNECTION - attempts[t]
          /\ ask(t)' = WL_MAX_ATTEMPT_CONNECTION - attempts'[t]
      BY <3>1
    <3>3. WL_MAX_ATTEMPT_CONNECTION \in Int
      BY ManagerConstants
    <3> QED
      BY ONLY <2>1, <3>1, <3>2, <3>3
  <2>3. und(t)' = und(t) /\ und(t) = Undecided(op[t])
    BY <1>5, <2>2 DEF Turning
  <2>4. Loops!Again(t)
    BY <1>1, <1>2, <1>5, <2>2, <2>3, ZenonT(60) DEF Loops!Again, Loops!Answered, Turning
  <2> QED
    BY <2>4 DEF Loops!Next
<1>6. CASE Ending(t)
  <2>1. und(t) = Undecided(op[t]) /\ und(t)' = {} /\ ask(t)' = 0
    BY <1>6 DEF Ending
  <2>2. und(t) # {}
    BY <1>6, <2>1 DEF Ending, InLoop, CallFits, Undecided, Waiting
  <2>3. status'[t] \notin und(t) \/ ask(t) + 1 = WL_MAX_ATTEMPT_CONNECTION
    <3>1. InLoop(t) /\ (status'[t] \notin Undecided(op[t]) \/ attempts[t] = 1)
      BY <1>6 DEF Ending
    <3>2. ask(t) = WL_MAX_ATTEMPT_CONNECTION - attempts[t]
      BY <3>1
    <3>3. WL_MAX_ATTEMPT_CONNECTION \in Int
      BY ManagerConstants
    <3> QED
      BY ONLY <2>1, <3>1, <3>2, <3>3
  <2>4. Loops!End(t)
    BY <1>1, <1>2, <2>1, <2>2, <2>3, ZenonT(60) DEF Loops!End, Loops!Answered
  <2> QED
    BY <2>4 DEF Loops!Next
<1> QED
  BY <1>3, <1>4, <1>5, <1>6 DEF LoopStep

\* The loops of WiFi_begin_*, WiFi_beginAP_* and WiFi_scanNetworks ask at least
\* once and at most WL_MAX_ATTEMPT_CONNECTION times, go on only after an answer
\* that decides nothing, and return the last one: for any number of tasks in
\* any of them, with or without a lock, whatever the coprocessor replies.
THEOREM ManagerLoops == Spec => ImplementsPollLoop
<1>1. Init => Loops!Init
  BY DEF Init, Loops!Init, InLoop, Answers
<1>2. LoopInv /\ [Next]_vars =>
         [Loops!Next]_<<[t \in Tasks |-> IF InLoop(t) THEN Undecided(op[t]) ELSE {}],
                        [t \in Tasks |-> IF InLoop(t) THEN WL_MAX_ATTEMPT_CONNECTION - attempts[t]
                                                      ELSE 0],
                        status>>
  <2> SUFFICES ASSUME LoopInv, [Next]_vars
               PROVE  \/ Loops!Next
                      \/ UNCHANGED <<pc, op, attempts, status>>
    BY DEF InLoop
  <2> QED
    BY CallStep, TaskLoopStep, MapsStep, CallsStay DEF Next
<1> QED
  BY <1>1, <1>2, LoopInvHolds, PTL DEF Spec, ImplementsPollLoop, Loops!Spec

\* WiFi_ping_hostname never pings: the lookup fails.
THEOREM PingByNameFails ==
    \A hostname, ip, ttl, result, reply, stack : \A lookup \in Reply :
       WiFi_ping_hostname(hostname, ip, ttl, lookup, result, reply, stack) = WL_PING_UNKNOWN_HOST
BY LookupFails DEF WiFi_ping_hostname

-----------------------------------------------------------------------------
(* The commands *)

\* The names that txBuffer has room for, in the longest command that has one.
NamesFit == \A name \in Names : Len(name) <= 239

\* What a call of settings may send: what the functions of WiFi.c send, with
\* host names that txBuffer has room for.
HostNames == {name \in Seq(Byte) : Len(name) <= 247}

WiFiSettings ==
    {WiFi_setLEDs(x[1], x[2], x[3]) : x \in Byte \X Byte \X Byte}
    \union {WiFi_config_static(ip) : ip \in FourBytes}
    \union {WiFi_config_static_dns(x[1], x[2]) : x \in FourBytes \X FourBytes}
    \union {WiFi_config_static_dns_gateway(x[1], x[2], x[3]) :
               x \in FourBytes \X FourBytes \X FourBytes}
    \union {WiFi_config_static_dns_gateway_subnet(x[1], x[2], x[3], x[4]) :
               x \in FourBytes \X FourBytes \X FourBytes \X FourBytes}
    \union {WiFi_setDNS(server) : server \in FourBytes}
    \union {WiFi_setDNS_two_servers(x[1], x[2]) : x \in FourBytes \X FourBytes}
    \union {WiFi_setHostname(name) : name \in HostNames}
    \union {WiFi_lowPowerMode, WiFi_noLowPowerMode}

ScriptsAreSettings == Scripts \subseteq WiFiSettings

Sent == {c \in [cmd : 0..127, params : Seq(Seq(0..255))] : Framed(c)}

LEMMA SentIf == ASSUME NEW c, Framed(c) PROVE c \in Sent
<1>1. 0..REPLY_FLAG-1 = 0..127
  BY DEF REPLY_FLAG
<1> QED
  BY <1>1 DEF Sent, Framed, IsCommand, Byte

LEMMA AddressBytes ==
    ASSUME NEW a \in FourBytes
    PROVE  a \in Seq(Byte) /\ Len(a) = 4
<1>1. a \in Seq(Byte)
  BY SeqDef DEF FourBytes
<1> QED
  BY <1>1, LenProperties DEF FourBytes

LEMMA OneByteLong ==
    ASSUME NEW b \in Byte
    PROVE  <<b>> \in Seq(Byte) /\ Len(<<b>>) = 1
OBVIOUS

LEMMA CodesAreCommands ==
    /\ Code.SET_NET_CMD \in 0..REPLY_FLAG-1 /\ Code.SET_PASSPHRASE_CMD \in 0..REPLY_FLAG-1
    /\ Code.SET_KEY_CMD \in 0..REPLY_FLAG-1 /\ Code.SET_IP_CONFIG_CMD \in 0..REPLY_FLAG-1
    /\ Code.SET_DNS_CONFIG_CMD \in 0..REPLY_FLAG-1 /\ Code.SET_HOSTNAME_CMD \in 0..REPLY_FLAG-1
    /\ Code.SET_POWER_MODE_CMD \in 0..REPLY_FLAG-1 /\ Code.SET_AP_NET_CMD \in 0..REPLY_FLAG-1
    /\ Code.SET_AP_PASSPHRASE_CMD \in 0..REPLY_FLAG-1 /\ Code.SET_PIN_MODE \in 0..REPLY_FLAG-1
    /\ Code.SET_ANALOG_WRITE \in 0..REPLY_FLAG-1 /\ Code.DISCONNECT_CMD \in 0..REPLY_FLAG-1
    /\ Code.GET_CONN_STATUS_CMD \in 0..REPLY_FLAG-1 /\ Code.GET_CURR_SSID_CMD \in 0..REPLY_FLAG-1
    /\ Code.GET_CURR_BSSID_CMD \in 0..REPLY_FLAG-1 /\ Code.GET_MACADDR_CMD \in 0..REPLY_FLAG-1
    /\ Code.GET_FW_VERSION_CMD \in 0..REPLY_FLAG-1 /\ Code.GET_IPADDR_CMD \in 0..REPLY_FLAG-1
    /\ Code.START_SCAN_NETWORKS \in 0..REPLY_FLAG-1 /\ Code.SCAN_NETWORKS \in 0..REPLY_FLAG-1
BY DEF Code, REPLY_FLAG

\* The command that sets a network names it first.
LEMMA NetworkFramed ==
    ASSUME NamesFit, NEW o \in Waiting, NEW name \in Names
    PROVE  LET c == SetNetwork(o, name, << >>).sent IN Framed(c) /\ c.params[1] = name
<1> DEFINE c == SetNetwork(o, name, << >>).sent
<1> SUFFICES Framed(c) /\ c.params[1] = name
  OBVIOUS
<1>1. name \in Seq(Byte) /\ Len(name) <= 239 /\ Len(name) \in Nat
  BY WiFiAssumption, LenProperties DEF NamesFit, Byte
<1>2. Key \in Seq(Byte) /\ Len(Key) = 5
  BY DEF Key, Byte
<1>3. /\ <<0>> \in Seq(Byte) /\ Len(<<0>>) = 1
      /\ <<1>> \in Seq(Byte) /\ Len(<<1>>) = 1
  BY DEF Byte
<1>4. CASE o = "open"
  <2>1. c = [cmd |-> Code.SET_NET_CMD, params |-> <<name>>]
    BY <1>4 DEF SetNetwork, WiFiDrv_wifiSetNetwork, Exchange
  <2>2. Len(name) <= 247
    BY <1>1
  <2>3. Framed([cmd |-> Code.SET_NET_CMD, params |-> <<name>>])
    BY <1>1, <2>2, CodesAreCommands, FramedOne
  <2> HIDE DEF c
  <2> QED
    BY <2>1, <2>3
<1>5. CASE o = "WEP"
  <2>1. c = [cmd |-> Code.SET_KEY_CMD, params |-> <<name, <<0>>, Key>>]
    BY <1>5 DEF SetNetwork, WiFiDrv_wifiSetKey, Exchange
  <2>2. Len(name) + Len(<<0>>) + Len(Key) <= 245
    BY <1>1, <1>2, <1>3
  <2>3. Framed([cmd |-> Code.SET_KEY_CMD, params |-> <<name, <<0>>, Key>>])
    BY <1>1, <1>2, <1>3, <2>2, CodesAreCommands, FramedThree
  <2> HIDE DEF c
  <2> QED
    BY <2>1, <2>3
<1>6. CASE o = "passphrase"
  <2>1. c = [cmd |-> Code.SET_PASSPHRASE_CMD, params |-> <<name, Key>>]
    BY <1>6 DEF SetNetwork, WiFiDrv_wifiSetPassphrase, Exchange
  <2>2. Len(name) + Len(Key) <= 246
    BY <1>1, <1>2
  <2>3. Framed([cmd |-> Code.SET_PASSPHRASE_CMD, params |-> <<name, Key>>])
    BY <1>1, <1>2, <2>2, CodesAreCommands, FramedTwo
  <2> HIDE DEF c
  <2> QED
    BY <2>1, <2>3
<1>7. CASE o = "AP"
  <2>1. c = [cmd |-> Code.SET_AP_NET_CMD, params |-> <<name, <<1>>>>]
    BY <1>7 DEF SetNetwork, WiFiDrv_wifiSetApNetwork, Exchange
  <2>2. Len(name) + Len(<<1>>) <= 246
    BY <1>1, <1>3
  <2>3. Framed([cmd |-> Code.SET_AP_NET_CMD, params |-> <<name, <<1>>>>])
    BY <1>1, <1>3, <2>2, CodesAreCommands, FramedTwo
  <2> HIDE DEF c
  <2> QED
    BY <2>1, <2>3
<1>8. CASE o = "APpassphrase"
  <2>1. c = [cmd |-> Code.SET_AP_PASSPHRASE_CMD, params |-> <<name, Key, <<1>>>>]
    BY <1>8 DEF SetNetwork, WiFiDrv_wifiSetApPassphrase, Exchange
  <2>2. Len(name) + Len(Key) + Len(<<1>>) <= 245
    BY <1>1, <1>2, <1>3
  <2>3. Framed([cmd |-> Code.SET_AP_PASSPHRASE_CMD, params |-> <<name, Key, <<1>>>>])
    BY <1>1, <1>2, <1>3, <2>2, CodesAreCommands, FramedThree
  <2> HIDE DEF c
  <2> QED
    BY <2>1, <2>3
<1> QED
  BY <1>4, <1>5, <1>6, <1>7, <1>8 DEF Waiting, Stations, AccessPoints

\* The coprocessor reads the name that was meant.
LEMMA NameIsRead ==
    ASSUME NamesFit, NEW o \in Waiting, NEW name \in Names
    PROVE  Received(SetNetwork(o, name, << >>).sent).params[1] = name
BY NetworkFramed DEF Framed, ReadsBack, Received

LEMMA PinFramed ==
    ASSUME NEW a \in Byte, NEW b \in Byte
    PROVE  SetPin(a) \in Sent /\ SetLED(a, b) \in Sent
<1>1. /\ SetPin(a) = [cmd |-> Code.SET_PIN_MODE, params |-> << <<a>>, <<1>> >>]
      /\ SetLED(a, b) = [cmd |-> Code.SET_ANALOG_WRITE, params |-> << <<a>>, <<b>> >>]
  BY DEF SetPin, SetLED, WiFiDrv_pinMode, WiFiDrv_analogWrite, Exchange
<1>2. 1 \in Byte
  BY DEF Byte
<1>3. \A x, y \in Byte : <<x>> \in Seq(Byte) /\ <<y>> \in Seq(Byte) /\ Len(<<x>>) + Len(<<y>>) <= 246
  OBVIOUS
<1>4. Framed(SetPin(a))
  BY <1>1, <1>2, <1>3, CodesAreCommands, FramedTwo
<1>5. Framed(SetLED(a, b))
  BY <1>1, <1>3, CodesAreCommands, FramedTwo
<1> QED
  BY <1>4, <1>5, SentIf

LEMMA ConfigFramed ==
    ASSUME NEW n \in Byte, NEW a \in FourBytes, NEW b \in FourBytes, NEW d \in FourBytes
    PROVE  Config(n, a, b, d) \in Sent /\ DNS(n, a, b) \in Sent
<1>1. /\ Config(n, a, b, d) = [cmd |-> Code.SET_IP_CONFIG_CMD, params |-> << <<n>>, a, b, d >>]
      /\ DNS(n, a, b) = [cmd |-> Code.SET_DNS_CONFIG_CMD, params |-> << <<n>>, a, b >>]
  BY DEF Config, DNS, WiFiDrv_config, WiFiDrv_setDNS, Exchange
<1>2. /\ <<n>> \in Seq(Byte) /\ Len(<<n>>) = 1
      /\ a \in Seq(Byte) /\ b \in Seq(Byte) /\ d \in Seq(Byte)
      /\ Len(a) = 4 /\ Len(b) = 4 /\ Len(d) = 4
  BY AddressBytes, OneByteLong
<1>3. Len(<<n>>) + Len(a) + Len(b) + Len(d) <= 244 /\ Len(<<n>>) + Len(a) + Len(b) <= 245
  BY <1>2
<1>4. Framed(Config(n, a, b, d))
  BY <1>1, <1>2, <1>3, CodesAreCommands, FramedFour, ZenonT(60)
<1>5. Framed(DNS(n, a, b))
  BY <1>1, <1>2, <1>3, CodesAreCommands, FramedThree, ZenonT(60)
<1> QED
  BY <1>4, <1>5, SentIf

LEMMA SettingsSent == WiFiSettings \subseteq Seq(Sent) \ {<< >>}
<1>1. 0 \in Byte /\ 1 \in Byte /\ 2 \in Byte /\ 3 \in Byte
      /\ 25 \in Byte /\ 26 \in Byte /\ 27 \in Byte
  BY DEF Byte
<1>2. Zeros(4) \in FourBytes
  BY <1>1 DEF Zeros, FourBytes
<1>3. ASSUME NEW a \in Sent PROVE <<a>> \in Seq(Sent) \ {<< >>}
  OBVIOUS
<1>4. ASSUME NEW a \in Sent, NEW b \in Sent PROVE <<a, b>> \in Seq(Sent) \ {<< >>}
  OBVIOUS
<1>5. ASSUME NEW r \in Byte, NEW g \in Byte, NEW b \in Byte
      PROVE  WiFi_setLEDs(r, g, b) \in Seq(Sent) \ {<< >>}
  <2>1. /\ SetPin(25) \in Sent /\ SetPin(26) \in Sent /\ SetPin(27) \in Sent
        /\ SetLED(25, r) \in Sent /\ SetLED(26, g) \in Sent /\ SetLED(27, b) \in Sent
    BY <1>1, PinFramed
  <2> QED
    BY <2>1 DEF WiFi_setLEDs
<1>6. ASSUME NEW ip \in FourBytes, NEW dns \in FourBytes, NEW gateway \in FourBytes,
             NEW subnet \in FourBytes
      PROVE  /\ WiFi_config_static(ip) \in Seq(Sent) \ {<< >>}
             /\ WiFi_config_static_dns(ip, dns) \in Seq(Sent) \ {<< >>}
             /\ WiFi_config_static_dns_gateway(ip, dns, gateway) \in Seq(Sent) \ {<< >>}
             /\ WiFi_config_static_dns_gateway_subnet(ip, dns, gateway, subnet)
                   \in Seq(Sent) \ {<< >>}
             /\ WiFi_setDNS(ip) \in Seq(Sent) \ {<< >>}
             /\ WiFi_setDNS_two_servers(ip, dns) \in Seq(Sent) \ {<< >>}
  <2>1. /\ Config(1, ip, Zeros(4), Zeros(4)) \in Sent /\ Config(2, ip, gateway, Zeros(4)) \in Sent
        /\ Config(3, ip, gateway, subnet) \in Sent
        /\ DNS(1, dns, Zeros(4)) \in Sent /\ DNS(1, ip, Zeros(4)) \in Sent
        /\ DNS(2, ip, dns) \in Sent
    BY <1>1, <1>2, ConfigFramed
  <2> QED
    BY <1>3, <1>4, <2>1
       DEF WiFi_config_static, WiFi_config_static_dns, WiFi_config_static_dns_gateway,
           WiFi_config_static_dns_gateway_subnet, WiFi_setDNS, WiFi_setDNS_two_servers
<1>7. ASSUME NEW name \in HostNames PROVE WiFi_setHostname(name) \in Seq(Sent) \ {<< >>}
  <2>1. WiFiDrv_setHostname(name, << >>).sent = [cmd |-> Code.SET_HOSTNAME_CMD, params |-> <<name>>]
    BY DEF WiFiDrv_setHostname, Exchange
  <2>2. name \in Seq(Byte) /\ Len(name) <= 247
    BY DEF HostNames
  <2>3. Framed([cmd |-> Code.SET_HOSTNAME_CMD, params |-> <<name>>])
    BY <2>2, CodesAreCommands, FramedOne
  <2>4. WiFiDrv_setHostname(name, << >>).sent \in Sent
    BY <2>1, <2>3, SentIf
  <2> QED
    BY <1>3, <2>4 DEF WiFi_setHostname
<1>8. WiFi_lowPowerMode \in Seq(Sent) \ {<< >>} /\ WiFi_noLowPowerMode \in Seq(Sent) \ {<< >>}
  <2>1. ASSUME NEW mode \in {0, 1} PROVE WiFiDrv_setPowerMode(mode, << >>).sent \in Sent
    <3>1. WiFiDrv_setPowerMode(mode, << >>).sent =
             [cmd |-> Code.SET_POWER_MODE_CMD, params |-> << <<mode>> >>]
      BY DEF WiFiDrv_setPowerMode, Exchange
    <3>2. <<mode>> \in Seq(Byte) /\ Len(<<mode>>) <= 247
      BY <1>1, OneByteLong
    <3>3. Framed([cmd |-> Code.SET_POWER_MODE_CMD, params |-> << <<mode>> >>])
      BY <3>2, CodesAreCommands, FramedOne
    <3> QED
      BY <3>1, <3>3, SentIf
  <2> QED
    BY <1>3, <2>1 DEF WiFi_lowPowerMode, WiFi_noLowPowerMode
<1> QED
  BY <1>5, <1>6, <1>7, <1>8 DEF WiFiSettings

HasName == \A t \in Tasks : At(t, "set") => ssid[t] \in Names

CommandInv ==
    /\ LoopInv /\ HasName
    /\ script \in [Tasks -> Seq(Sent)]
    /\ \A t \in Tasks : At(t, "settings") => script[t] # << >>

LEMMA CommandInit == Init => CommandInv
<1>1. ASSUME Init PROVE script \in [Tasks -> Seq(Sent)]
  BY <1>1, EmptySeq DEF Init
<1> QED
  BY <1>1, LoopInit DEF Init, CommandInv, HasName, At

\* A call that sets a network has a name for it.
LEMMA NameGiven ==
    ASSUME LoopInv, HasName, NEW t \in Tasks, TaskCalls(t)
    PROVE  HasName'
<1>1. ASSUME NEW o \in Stations \union AccessPoints, NEW n \in Names, BeginNetwork(t, o, n)
      PROVE  HasName'
  BY <1>1 DEF BeginNetwork, Begin, Goto, HasName, LoopInv, CallTypes, At
<1>2. ASSUME NEW label \in {"startScan", "query", "settings", "disconnect"},
             pc' = [pc EXCEPT ![t] = label], ssid' = ssid
      PROVE  HasName'
  BY <1>2 DEF HasName, LoopInv, CallTypes, At
<1>3. CASE Restart(t)
  BY <1>3 DEF Restart, callVars, HasName, At
<1> QED
  BY <1>1, <1>2, <1>3
     DEF TaskCalls, ScanNetworks, Query, Settings, WiFi_disconnect, Begin, Goto

\* The name that a task sets stays in Names.
LEMMA NameKept ==
    ASSUME LoopInv, HasName, NEW t \in Tasks, TaskStep(t)
    PROVE  HasName'
<1>1. LoopInv' /\ LoopInv
  BY TaskLoopStep DEF LoopStep
<1>2. CASE Finish(t)
  BY <1>1, <1>2 DEF Finish, Goto, HasName, LoopInv, CallTypes, At
<1>3. CASE ~Finish(t)
  <2>1. ssid' = ssid
    BY <1>3 DEF TaskStep, Set, Poll, StartScan, GetScan, Ask, SendSetting, Leave
  <2>2. \A u \in Tasks : pc'[u] = "set" => pc[u] = "set"
    <3>1. ASSUME NEW a, Turn(t, a) PROVE pc' = pc \/ pc' = [pc EXCEPT ![t] = "return"]
      BY <3>1 DEF Turn, Return, Goto
    <3>2. \/ pc' = pc
          \/ \E label \in Labels \ {"set"} : pc' = [pc EXCEPT ![t] = label]
      <4>1. CASE Set(t)
        BY <4>1 DEF Set, Return, Goto, Labels
      <4>2. CASE Poll(t)
        <5>1. \E a : Turn(t, a)
          BY <4>2 DEF Poll
        <5> QED
          BY <3>1, <5>1 DEF Labels
      <4>3. CASE GetScan(t)
        <5>1. \E a : Turn(t, a)
          BY <4>3 DEF GetScan
        <5> QED
          BY <3>1, <5>1 DEF Labels
      <4>4. CASE StartScan(t)
        BY <4>4 DEF StartScan, Return, Goto, Labels
      <4>5. CASE Ask(t) \/ SendSetting(t) \/ Leave(t)
        BY <4>5 DEF Ask, SendSetting, Leave, Return, Goto, Labels
      <4> QED
        BY <1>3, <4>1, <4>2, <4>3, <4>4, <4>5 DEF TaskStep
    <3> QED
      BY <1>1, <3>2 DEF LoopInv, CallTypes
  <2> QED
    BY <2>1, <2>2 DEF HasName, At
<1> QED
  BY <1>2, <1>3

LEMMA CommandCall ==
    ASSUME ScriptsAreSettings, CommandInv, NEW t \in Tasks, TaskCalls(t)
    PROVE  CommandInv'
<1>1. LoopInv' /\ HasName' /\ pc \in [Tasks -> Labels]
  BY CallStep, NameGiven DEF CommandInv, LoopStep, LoopInv, CallTypes
<1>2. ASSUME NEW commands \in Scripts, Settings(t, commands) PROVE CommandInv'
  <2>1. commands \in Seq(Sent) /\ commands # << >>
    BY SettingsSent DEF ScriptsAreSettings
  <2> QED
    BY <1>1, <1>2, <2>1 DEF Settings, Begin, Goto, CommandInv, At
<1>3. ASSUME script' = script,
             NEW label \in Labels \ {"settings"},
             pc' = [pc EXCEPT ![t] = label] \/ pc' = pc
      PROVE  CommandInv'
  BY <1>1, <1>3 DEF CommandInv, At
<1>4. ASSUME NEW o \in Stations \union AccessPoints, NEW n \in Names, BeginNetwork(t, o, n)
      PROVE  CommandInv'
  BY <1>3, <1>4 DEF BeginNetwork, Begin, Goto, Labels
<1>5. ASSUME NEW q \in Queries, Query(t, q) PROVE CommandInv'
  BY <1>3, <1>5 DEF Query, Begin, Goto, Labels
<1>6. CASE ScanNetworks(t)
  BY <1>3, <1>6 DEF ScanNetworks, Begin, Goto, Labels
<1>7. CASE WiFi_disconnect(t)
  BY <1>3, <1>7 DEF WiFi_disconnect, Begin, Goto, Labels
<1>8. CASE Restart(t)
  <2>1. script' = script /\ pc' = pc /\ "idle" \in Labels \ {"settings"}
    BY <1>8 DEF Restart, callVars, Labels
  <2> QED
    BY <1>3, <2>1
<1> QED
  BY <1>2, <1>4, <1>5, <1>6, <1>7, <1>8 DEF TaskCalls

LEMMA CommandStep ==
    ASSUME CommandInv, NEW t \in Tasks, TaskStep(t)
    PROVE  CommandInv'
<1>1. LoopInv' /\ HasName' /\ pc \in [Tasks -> Labels] /\ pc' \in [Tasks -> Labels]
  BY TaskLoopStep, NameKept DEF CommandInv, LoopStep, LoopInv, CallTypes
<1>2. /\ script' \in [Tasks -> Seq(Sent)]
      /\ \A u \in Tasks : pc'[u] = "settings" => script'[u] # << >>
  <2>1. CASE SendSetting(t)
    <3>1. script[t] \in Seq(Sent) /\ script[t] # << >>
      BY <2>1 DEF SendSetting, CommandInv, At
    <3>2. Tail(script[t]) \in Seq(Sent) /\ Len(Tail(script[t])) = Len(script[t]) - 1
      BY <3>1, HeadTailProperties
    <3>3. script' = [script EXCEPT ![t] = Tail(script[t])]
      BY <2>1 DEF SendSetting
    <3>4. script' \in [Tasks -> Seq(Sent)]
      BY <3>2, <3>3 DEF CommandInv
    <3>5. \A u \in Tasks \ {t} : pc'[u] = pc[u] /\ script'[u] = script[u]
      BY <1>1, <2>1, <3>3 DEF SendSetting, Goto, CommandInv
    <3>6. pc'[t] = "settings" => Len(script[t]) # 1
      BY <1>1, <2>1 DEF SendSetting, Goto
    <3>7. pc'[t] = "settings" => script'[t] # << >>
      <4>1. Len(script[t]) \in Nat \ {0} /\ Len(<< >>) = 0
        BY <3>1, EmptySeq
      <4>2. script'[t] = Tail(script[t])
        BY <3>3 DEF CommandInv
      <4>3. ASSUME Tail(script[t]) = << >> PROVE Len(script[t]) = 1
        <5>1. Len(Tail(script[t])) = 0
          BY <4>1, <4>3
        <5> QED
          BY <3>2, <4>1, <5>1
      <4> QED
        BY <3>6, <4>2, <4>3
    <3> QED
      BY <3>4, <3>5, <3>7 DEF CommandInv, At
  <2>2. CASE ~SendSetting(t)
    <3>1. script' = script
      BY <2>2 DEF TaskStep, Set, Poll, StartScan, GetScan, Ask, Leave, Finish
    <3>2. \A u \in Tasks : pc'[u] = "settings" => pc[u] = "settings"
      <4>1. \A u \in Tasks \ {t} : pc'[u] = pc[u]
        BY TaskLoopStep DEF CommandInv, LoopStep, OthersStay
      <4>2. pc'[t] = "settings" => pc[t] = "settings"
        <5>1. ASSUME NEW a, Turn(t, a) PROVE pc'[t] \in {pc[t], "return"}
          BY <1>1, <5>1 DEF Turn, Return, Goto
        <5>2. CASE Set(t)
          BY <1>1, <5>2 DEF Set, Return, Goto
        <5>3. CASE Poll(t)
          <6>1. \E a : Turn(t, a)
            BY <5>3 DEF Poll
          <6> QED
            BY <5>1, <6>1
        <5>4. CASE GetScan(t)
          <6>1. \E a : Turn(t, a)
            BY <5>4 DEF GetScan
          <6> QED
            BY <5>1, <6>1
        <5>5. CASE StartScan(t)
          BY <1>1, <5>5 DEF StartScan, Return, Goto
        <5>6. CASE Ask(t) \/ Leave(t) \/ Finish(t)
          BY <1>1, <5>6 DEF Ask, Leave, Finish, Return, Goto
        <5> QED
          BY <2>2, <5>2, <5>3, <5>4, <5>5, <5>6 DEF TaskStep
      <4> QED
        BY <4>1, <4>2
    <3> QED
      BY <3>1, <3>2 DEF CommandInv, At
  <2> QED
    BY <2>1, <2>2
<1> QED
  BY <1>1, <1>2 DEF CommandInv, At

LEMMA CommandInvStep ==
    ASSUME ScriptsAreSettings, CommandInv, [Next]_vars
    PROVE  CommandInv'
<1>1. CASE Air \/ UNCHANGED vars
  <2>1. LoopInv' /\ UNCHANGED <<pc, ssid, script>>
    BY <1>1, CallsStay DEF CommandInv, Air, vars, callVars
  <2> QED
    BY <2>1 DEF CommandInv, HasName, At
<1> QED
  BY <1>1, CommandCall, CommandStep DEF Next

LEMMA CommandIsFramed ==
    ASSUME NamesFit, CommandInv, NEW t \in Tasks, pc[t] \notin {"idle", "return"}
    PROVE  Framed(Command(t))
<1>0. DUMMY_DATA \in Seq(Byte) /\ Len(DUMMY_DATA) <= 247
  BY DEF DUMMY_DATA, Byte
<1>t. pc[t] \in Labels
  BY DEF CommandInv, LoopInv, CallTypes
<1>1. CASE At(t, "set")
  <2>1. op[t] \in Waiting /\ ssid[t] \in Names
    BY <1>1 DEF CommandInv, HasName, LoopInv, CallFits, At
  <2> QED
    BY <1>1, <2>1, NetworkFramed DEF Command, At
<1>2. CASE At(t, "poll")
  <2>1. Command(t) = [cmd |-> Code.GET_CONN_STATUS_CMD, params |-> << >>]
    BY <1>2 DEF Command, At, WiFiDrv_getConnectionStatus, Exchange
  <2> QED
    BY <2>1, CodesAreCommands, FramedNone
<1>3. CASE At(t, "startScan")
  <2>1. Command(t) = [cmd |-> Code.START_SCAN_NETWORKS, params |-> << >>]
    BY <1>3 DEF Command, At, WiFiDrv_startScanNetworks, Exchange
  <2> QED
    BY <2>1, CodesAreCommands, FramedNone
<1>4. CASE At(t, "getScan")
  <2>1. Command(t) = [cmd |-> Code.SCAN_NETWORKS, params |-> << >>]
    BY <1>4 DEF Command, At, WiFiDrv_getScanNetworks, Exchange
  <2> QED
    BY <2>1, CodesAreCommands, FramedNone
<1>5. CASE At(t, "query")
  <2>1. Command(t) = QueryCall(op[t], << >>).sent /\ op[t] \in Queries
    BY <1>5 DEF Command, At, CommandInv, LoopInv, CallFits
  <2>2. CASE op[t] = "fw"
    <3>1. Command(t) = [cmd |-> Code.GET_FW_VERSION_CMD, params |-> << >>]
      BY <2>1, <2>2 DEF QueryCall, WiFiDrv_getFwVersion, Exchange
    <3> QED
      BY <3>1, CodesAreCommands, FramedNone
  <2>3. CASE op[t] # "fw"
    <3>1. \E cmd \in {Code.GET_CURR_SSID_CMD, Code.GET_CURR_BSSID_CMD, Code.GET_MACADDR_CMD,
                       Code.GET_IPADDR_CMD} :
             Command(t) = [cmd |-> cmd, params |-> <<DUMMY_DATA>>]
      <4>1. op[t] \in {"SSID", "BSSID", "mac", "addresses"}
        BY <2>1, <2>3, ManagerConstants
      <4>2. QueryCall(op[t], << >>).sent \in
               {[cmd |-> cmd, params |-> <<DUMMY_DATA>>] :
                  cmd \in {Code.GET_CURR_SSID_CMD, Code.GET_CURR_BSSID_CMD, Code.GET_MACADDR_CMD,
                           Code.GET_IPADDR_CMD}}
        BY <4>1 DEF QueryCall, WiFiDrv_getCurrentSSID, WiFiDrv_getCurrentBSSID,
                    WiFiDrv_getMacAddress, WiFiDrv_getNetworkData, Exchange
      <4> QED
        BY <2>1, <4>2
    <3> QED
      BY <1>0, <3>1, CodesAreCommands, FramedOne
  <2> QED
    BY <2>2, <2>3
<1>6. CASE At(t, "settings")
  <2>1. script[t] \in Seq(Sent) /\ script[t] # << >>
    BY <1>6 DEF CommandInv, At
  <2>2. Head(script[t]) \in Sent
    BY <2>1, HeadTailProperties
  <2>3. Command(t) = Head(script[t])
    BY <1>6 DEF Command, At
  <2> QED
    BY <2>2, <2>3 DEF Sent
<1>7. CASE At(t, "disconnect")
  <2>1. Command(t) = [cmd |-> Code.DISCONNECT_CMD, params |-> <<DUMMY_DATA>>]
    BY <1>7 DEF Command, At, WiFiDrv_disconnect, Exchange
  <2> QED
    BY <1>0, <2>1, CodesAreCommands, FramedOne
<1> QED
  BY <1>t, <1>1, <1>2, <1>3, <1>4, <1>5, <1>6, <1>7 DEF Labels, At

\* Every command that the connection manager sends, in any call and whatever
\* other tasks do meanwhile, stays within txBuffer, and is read as it was meant,
\* if names are of at most 239 bytes and host names of at most 247.
THEOREM ManagerCommandsFramed ==
    ASSUME NamesFit, ScriptsAreSettings
    PROVE  Spec => []CommandsFramed
<1>1. CommandInv /\ [Next]_vars => CommandInv'
  BY CommandInvStep
<1>2. CommandInv => CommandsFramed
  BY CommandIsFramed DEF CommandsFramed, Framed
<1>3. Spec => []CommandInv
  BY CommandInit, <1>1, PTL DEF Spec
<1> QED
  BY <1>2, <1>3, PTL

-----------------------------------------------------------------------------
(* The network that a loop waits for *)

OneActive == \A t, u \in Tasks : At(t, "idle") \/ At(u, "idle") \/ t = u

OwnInv == LoopInv /\ OneActive /\ HasName /\ PollsOwnNetwork

\* The acknowledgement of WiFiDrv_wifiSetApNetwork, whose answer has room.
LEMMA ApAcknowledged ==
    ASSUME NEW name, NEW reply \in Replies(<< 255 >>)
    PROVE  WiFiDrv_wifiSetApNetwork(name, 1, reply).value = WL_FAILURE
<1>1. ASSUME NEW bytes \in {<< 255 >>, << >>} PROVE Variable(<<bytes>>, 4, <<0>>)[1] # 1
  <2>1. bytes \in Seq(Nat) /\ Kept(Len(bytes), 4) = Len(bytes)
    <3>1. << 255 >> \in Seq(Nat) /\ Len(<< 255 >>) = 1 /\ Kept(1, 4) = 1
      BY DEF Kept
    <3>2. << >> \in Seq(Nat) /\ Len(<< >>) = 0 /\ Kept(0, 4) = 0
      BY DEF Kept
    <3> QED
      BY <3>1, <3>2, ZenonT(60)
  <2>2. SubSeq(bytes, 1, Len(bytes)) = bytes
    BY <2>1, SubSeqFull
  <2>3. Stored(bytes, 4) = bytes \o <<0>>
    BY <2>1, <2>2 DEF Stored
  <2>4. Len(bytes \o <<0>>) >= 1 /\ (bytes \o <<0>>)[1] # 1
    <3>1. CASE bytes = << >>
      BY <3>1
    <3>2. CASE bytes = << 255 >>
      BY <3>2
    <3> QED
      BY <3>1, <3>2
  <2> HIDE DEF Stored
  <2>5. Variable(<<bytes>>, 4, <<0>>)[1] = (bytes \o <<0>>)[1]
    BY <2>3, <2>4 DEF Variable, Over
  <2> QED
    BY <2>4, <2>5
<1>2. Checked(reply, 4) # 1
  <2>1. CASE reply = << >>
    BY <2>1 DEF Checked, Accepted, WL_FAILURE
  <2>2. CASE reply # << >>
    <3>1. Variable(reply, 4, <<0>>)[1] # 1
      BY <1>1, <2>2 DEF Replies
    <3> QED
      BY <3>1 DEF Checked, WL_FAILURE
  <2> QED
    BY <2>1, <2>2
<1> QED
  BY <1>2 DEF WiFiDrv_wifiSetApNetwork, Exchange, WIFI_SPI_ACK

\* Where the refusal can be told, a task polls only if its network was taken.
LEMMA SetTaken ==
    ASSUME NEW o \in {"open", "AP"}, NEW name, NEW reply \in Replies(<< 255 >>)
    PROVE  SetNetwork(o, name, reply).value = WL_FAILURE
<1>1. CASE o = "open"
  <2>1. reply \in Reply
    BY ManagerReplies
  <2> QED
    BY <1>1, <2>1, SetNetworkFails DEF SetNetwork
<1>2. CASE o = "AP"
  BY <1>2, ApAcknowledged DEF SetNetwork
<1> QED
  BY <1>1, <1>2

LEMMA OwnInit == Init => OwnInv
BY LoopInit DEF Init, OwnInv, OneActive, HasName, PollsOwnNetwork, At

LEMMA OwnCall ==
    ASSUME Serialized, OwnInv, NEW t \in Tasks, TaskCalls(t)
    PROVE  OwnInv'
<1>1. LoopInv' /\ LoopInv
  BY CallStep DEF OwnInv, LoopStep
<1>2. \A u \in Tasks : pc[u] = "idle"
  BY DEF TaskCalls, BeginNetwork, ScanNetworks, Query, Settings, WiFi_disconnect, Restart,
         Begin, Exclusive, At
<1>3. ASSUME NEW label \in {"set", "startScan", "query", "settings", "disconnect", "idle"},
             pc' = [pc EXCEPT ![t] = label],
             label = "set" => ssid'[t] \in Names
      PROVE  OwnInv'
  <2>1. \A u \in Tasks : pc'[u] = IF u = t THEN label ELSE "idle"
    BY <1>1, <1>2, <1>3 DEF LoopInv, CallTypes
  <2> QED
    BY <1>1, <1>3, <2>1 DEF OwnInv, OneActive, HasName, PollsOwnNetwork, At
<1>4. ASSUME NEW o \in Stations \union AccessPoints, NEW n \in Names, BeginNetwork(t, o, n)
      PROVE  OwnInv'
  <2>1. ssid'[t] = n
    BY <1>1, <1>4 DEF BeginNetwork, LoopInv, CallTypes
  <2> QED
    BY <1>3, <1>4, <2>1 DEF BeginNetwork, Begin, Goto
<1>5. ASSUME NEW q \in Queries, Query(t, q)
      PROVE  OwnInv'
  BY <1>3, <1>5 DEF Query, Begin, Goto
<1>6. ASSUME NEW commands \in Scripts, Settings(t, commands)
      PROVE  OwnInv'
  BY <1>3, <1>6 DEF Settings, Begin, Goto
<1>7. CASE ScanNetworks(t)
  BY <1>3, <1>7 DEF ScanNetworks, Begin, Goto
<1>8. CASE WiFi_disconnect(t)
  BY <1>3, <1>8 DEF WiFi_disconnect, Begin, Goto
<1>9. CASE Restart(t)
  <2>1. pc' = [pc EXCEPT ![t] = "idle"]
    BY <1>1, <1>2, <1>9 DEF Restart, callVars, LoopInv, CallTypes
  <2> QED
    BY <1>3, <2>1
<1> QED
  BY <1>4, <1>5, <1>6, <1>7, <1>8, <1>9 DEF TaskCalls

\* Away from the loops that wait for a network, nothing is to be shown.
LEMMA OwnAway ==
    ASSUME OwnInv, NEW t \in Tasks, pc[t] # "idle", LoopInv',
           NEW label, label \notin {"set", "poll"}, pc' = [pc EXCEPT ![t] = label]
    PROVE  OwnInv'
<1>1. pc'[t] = label /\ \A u \in Tasks \ {t} : pc'[u] = "idle"
  BY DEF OwnInv, LoopInv, CallTypes, OneActive, At
<1> QED
  BY <1>1 DEF OwnInv, OneActive, HasName, PollsOwnNetwork, At

LEMMA OwnStep ==
    ASSUME NamesFit, OwnInv, NEW t \in Tasks, TaskStep(t)
    PROVE  OwnInv'
<1>t. LoopInv' /\ LoopInv
  BY TaskLoopStep DEF OwnInv, LoopStep
<1>s. CASE pc' = pc /\ pc[t] \notin {"set", "idle"} /\ UNCHANGED <<op, ssid, conf>>
  BY <1>s, <1>t DEF OwnInv, OneActive, HasName, PollsOwnNetwork, At
<1>1. CASE Set(t)
  <2> DEFINE Outcome(taken, reply) ==
           LET c == SetNetwork(op[t], ssid[t], << >>).sent
               r == SetNetwork(op[t], ssid[t], reply).value
           IN
           /\ conf' = IF taken THEN Received(c).params[1] ELSE conf
           /\ IF SetFailed(r) THEN pc' = [pc EXCEPT ![t] = "return"]
                              ELSE pc' = [pc EXCEPT ![t] = "poll"]
  <2>0. PICK taken \in BOOLEAN :
           \E reply \in Replies(<<IF taken THEN WIFI_SPI_ACK ELSE 255>>) : Outcome(taken, reply)
    BY <1>1 DEF Set, Return, Goto
  <2>1. PICK reply \in Replies(<<IF taken THEN WIFI_SPI_ACK ELSE 255>>) : Outcome(taken, reply)
    BY <2>0
  <2>2. CASE pc' = [pc EXCEPT ![t] = "return"]
    BY <1>1, <1>t, <2>2, OwnAway DEF Set, At
  <2>3. CASE /\ pc' = [pc EXCEPT ![t] = "poll"]
             /\ SetNetwork(op[t], ssid[t], reply).value # WL_FAILURE
    <3>1. pc'[t] = "poll" /\ \A u \in Tasks \ {t} : pc'[u] = "idle"
      BY <1>1, <1>t, <2>3 DEF Set, OwnInv, LoopInv, CallTypes, OneActive, At
    <3>2. op' = op /\ ssid' = ssid /\ ssid[t] \in Names /\ op[t] \in Waiting
      BY <1>1, <1>t DEF Set, OwnInv, HasName, LoopInv, CallFits, At
    <3>3. op[t] \in {"open", "AP"} => taken
      BY <2>1, <2>3, SetTaken
    <3>4. taken => conf' = ssid[t]
      BY <2>1, <3>2, NameIsRead
    <3> QED
      BY <1>t, <3>1, <3>2, <3>3, <3>4 DEF OwnInv, OneActive, HasName, PollsOwnNetwork, At
  <2> QED
    BY <2>1, <2>2, <2>3 DEF SetFailed
<1>2. ASSUME NEW a, Turn(t, a), pc[t] \in {"poll", "getScan"}, UNCHANGED <<op, ssid, conf>>
      PROVE  OwnInv'
  <2>1. pc' = pc \/ pc' = [pc EXCEPT ![t] = "return"]
    BY <1>2 DEF Turn, Return, Goto
  <2> QED
    BY <1>2, <1>s, <1>t, <2>1, OwnAway
<1>3. CASE Poll(t)
  <2>1. \E a : Turn(t, a)
    BY <1>3 DEF Poll
  <2> QED
    BY <1>2, <1>3, <2>1 DEF Poll, At, espVars
<1>4. CASE GetScan(t)
  <2>1. \E a : Turn(t, a)
    BY <1>4 DEF GetScan
  <2> QED
    BY <1>2, <1>4, <2>1 DEF GetScan, At, espVars
<1>5. CASE StartScan(t)
  <2>1. \E label \in {"return", "getScan"} : pc' = [pc EXCEPT ![t] = label]
    BY <1>5 DEF StartScan, Return, Goto
  <2> QED
    BY <1>5, <1>t, <2>1, OwnAway DEF StartScan, At
<1>6. CASE Ask(t)
  BY <1>6, <1>t, OwnAway DEF Ask, Goto, At
<1>7. CASE SendSetting(t)
  <2>1. CASE Goto(t, "return")
    BY <1>7, <1>t, <2>1, OwnAway DEF SendSetting, Goto, At
  <2>2. CASE UNCHANGED pc
    BY <1>7, <1>s, <2>2 DEF SendSetting, At, espVars
  <2> QED
    BY <1>7, <2>1, <2>2 DEF SendSetting
<1>8. CASE Leave(t)
  BY <1>8, <1>t, OwnAway DEF Leave, Return, Goto, At
<1>9. CASE Finish(t)
  BY <1>9, <1>t, OwnAway DEF Finish, Goto, At
<1> QED
  BY <1>1, <1>3, <1>4, <1>5, <1>6, <1>7, <1>8, <1>9 DEF TaskStep

LEMMA OwnInvStep ==
    ASSUME Serialized, NamesFit, OwnInv, [Next]_vars
    PROVE  OwnInv'
<1>1. CASE Air \/ UNCHANGED vars
  <2>1. LoopInv' /\ UNCHANGED <<pc, op, ssid>> /\ conf' \in {conf, NoName}
    BY <1>1, CallsStay DEF OwnInv, Air, vars, callVars, espVars
  <2> QED
    BY <2>1 DEF OwnInv, OneActive, HasName, PollsOwnNetwork, At
<1> QED
  BY <1>1, OwnCall, OwnStep DEF Next

\* If the callers keep each other out of the library, a loop whose driver call
\* tells a refusal waits for the network that was asked for, and not for the
\* one that the coprocessor had before or that another task has set since.
THEOREM OwnNetwork ==
    ASSUME Serialized, NamesFit
    PROVE  Spec => []PollsOwnNetwork
<1>1. OwnInv /\ [Next]_vars => OwnInv'
  BY OwnInvStep
<1>2. Spec => []OwnInv
  BY OwnInit, <1>1, PTL DEF Spec
<1> QED
  BY <1>2, PTL DEF OwnInv

-----------------------------------------------------------------------------
(* The cached SSID *)

\* What is stored of a name is the beginning of it, and a terminator.
LEMMA StoredIsCut ==
    ASSUME NEW name \in Seq(Nat), NEW room \in Nat, room > 0
    PROVE  LET n == Kept(Len(name), room)
               x == Stored(name, room)
           IN  /\ n \in 0..Len(name) /\ Len(x) = n + 1 /\ x[n + 1] = 0
               /\ \A k \in 1..n : x[k] = name[k]
<1> DEFINE n == Kept(Len(name), room)
           kept == SubSeq(name, 1, n)
<1>1. Len(name) \in Nat /\ n \in Nat /\ n <= Len(name)
  BY KeptBounds, LenProperties
<1>2. \A i \in 1..n : name[i] \in Nat
  BY <1>1, ElementOfSeq
<1>3. /\ kept \in Seq(Nat) /\ Len(kept) = n
      /\ \A i \in 1..n : kept[i] = name[i]
  <2> HIDE DEF n
  <2>1. /\ kept \in Seq(Nat) /\ Len(kept) = IF 1 <= n THEN n - 1 + 1 ELSE 0
        /\ \A i \in 1..n-1+1 : kept[i] = name[1+i-1]
    BY <1>1, <1>2, SubSeqProperties
  <2> QED
    BY <1>1, <2>1
<1> HIDE DEF kept
<1>4. <<0>> \in Seq(Nat) /\ Len(<<0>>) = 1 /\ <<0>>[1] = 0
  OBVIOUS
<1>5. /\ Len(kept \o <<0>>) = n + 1
      /\ \A i \in 1..n+1 : (kept \o <<0>>)[i] = IF i <= n THEN kept[i] ELSE <<0>>[i - n]
  <2> HIDE DEF n
  <2> QED
    BY <1>1, <1>3, <1>4, ConcatProperties
<1>6. Stored(name, room) = kept \o <<0>>
  BY DEF Stored, kept
<1> HIDE DEF n
<1>7. (kept \o <<0>>)[n + 1] = 0
  BY <1>1, <1>4, <1>5
<1>8. \A k \in 1..n : (kept \o <<0>>)[k] = name[k]
  BY <1>1, <1>3, <1>5
<1> QED
  BY <1>1, <1>5, <1>6, <1>7, <1>8 DEF n

\* What the coprocessor reports as its SSID is the one it has.
SsidIsReported == \A name \in Names \union {NoName} : Report("SSID", name) = name

SsidRow == [1..WL_SSID_MAX_LENGTH -> Int]

SsidInv ==
    /\ LoopInv /\ HasName
    /\ conf \in Names \union {NoName}
    /\ "SSID" \in DOMAIN cache /\ cache["SSID"] \in SsidRow

LEMMA NamesAreNats == \A name \in Names \union {NoName} : name \in Seq(Nat)
<1>1. \A name \in Names : name \in Seq(Byte)
  BY WiFiAssumption DEF Byte
<1>2. \A name \in Names : name \in Seq(Nat)
  BY <1>1, BytesAreNats
<1> QED
  BY <1>2, EmptySeq DEF NoName

\* What WiFiDrv_getCurrentSSID leaves in the cache: the beginning of the name
\* that the reply has, or of the empty one.
LEMMA SsidCut ==
    ASSUME NEW old \in SsidRow, NEW name \in Seq(Nat), NEW reply \in Replies(name)
    PROVE  LET row == WiFiDrv_getCurrentSSID(reply, old).value
           IN  row \in SsidRow /\ IsCut(row, name)
<1> DEFINE L == WL_SSID_MAX_LENGTH
           row == WiFiDrv_getCurrentSSID(reply, old).value
<1>1. L \in Nat /\ L > 0
  BY WiFiDrvAssumption
<1>2. Len(old) = L /\ DOMAIN old = 1..L
  BY <1>1 DEF SsidRow
<1>3. DOMAIN Cleared(old) = 1..L /\ \A k \in 1..L : Cleared(old)[k] = 0
  BY <1>2 DEF Cleared
<1>4. row = Variable(reply, L, Cleared(old))
  BY <1>2 DEF WiFiDrv_getCurrentSSID, Exchange
<1> HIDE DEF L, row
<1>5. ASSUME NEW b \in Seq(Nat), reply = <<b>>
      PROVE  \E n \in 0..Len(b) : row = [k \in 1..L |-> IF k <= n THEN b[k] ELSE 0]
  <2> DEFINE n == Kept(Len(b), L)
             x == Stored(b, L)
  <2>1. /\ n \in 0..Len(b) /\ Len(x) = n + 1 /\ x[n + 1] = 0
        /\ \A k \in 1..n : x[k] = b[k]
    BY <1>1, StoredIsCut
  <2>2. row = [k \in 1..L |-> IF k <= Len(x) THEN x[k] ELSE Cleared(old)[k]]
    BY <1>3, <1>4, <1>5 DEF Variable, Over
  <2> HIDE DEF n, x
  <2>3. n \in Nat
    BY <2>1, LenProperties
  <2>4. ASSUME NEW k \in 1..L
        PROVE  (IF k <= Len(x) THEN x[k] ELSE Cleared(old)[k]) = IF k <= n THEN b[k] ELSE 0
    <3>1. CASE k <= n
      BY <1>1, <2>1, <2>3, <3>1
    <3>2. CASE k = n + 1
      BY <1>1, <2>1, <2>3, <3>2
    <3>3. CASE k > n + 1
      BY <1>1, <1>3, <2>1, <2>3, <3>3
    <3> QED
      BY <1>1, <2>3, <3>1, <3>2, <3>3
  <2>5. row = [k \in 1..L |-> IF k <= n THEN b[k] ELSE 0]
    BY <2>2, <2>4
  <2> QED
    BY <2>1, <2>5
<1>6. \E n \in 0..Len(name) : row = [k \in 1..L |-> IF k <= n THEN name[k] ELSE 0]
  <2>0. Len(name) \in Nat
    BY LenProperties
  <2>1. CASE reply = <<name>>
    BY <1>5, <2>1
  <2>2. CASE reply = << << >> >>
    <3>1. PICK n \in 0..Len(<< >>) : row = [k \in 1..L |-> IF k <= n THEN << >>[k] ELSE 0]
      BY <1>5, <2>2, EmptySeq
    <3>2. n = 0
      BY <3>1
    <3>3. row = [k \in 1..L |-> IF k <= 0 THEN name[k] ELSE 0]
      BY <1>1, <3>1, <3>2
    <3> QED
      BY <2>0, <3>3
  <2>3. CASE reply = << >>
    <3>1. row = [k \in 1..L |-> 0]
      BY <1>3, <1>4, <2>3 DEF Variable, Cleared
    <3>2. row = [k \in 1..L |-> IF k <= 0 THEN name[k] ELSE 0]
      BY <1>1, <3>1
    <3> QED
      BY <2>0, <3>2
  <2> QED
    BY <2>1, <2>2, <2>3 DEF Replies
<1>7. PICK n \in 0..Len(name) : row = [k \in 1..L |-> IF k <= n THEN name[k] ELSE 0]
  BY <1>6
<1>8. \A k \in 1..L : k <= n => name[k] \in Nat
  <2>1. \A k \in 1..Len(name) : name[k] \in Nat
    BY ElementOfSeq
  <2>2. Len(name) \in Nat
    BY LenProperties
  <2> QED
    BY <1>1, <2>1, <2>2
<1>9. row \in SsidRow
  BY <1>7, <1>8 DEF SsidRow, L
<1>10. IsCut(row, name)
  BY <1>7 DEF IsCut
<1> QED
  BY <1>9, <1>10 DEF row

LEMMA SsidInit == Init => SsidInv
<1>1. ASSUME Init PROVE "SSID" \in DOMAIN cache /\ cache["SSID"] = Zeros(WL_SSID_MAX_LENGTH)
  BY <1>1, WiFiAssumption DEF Init
<1>2. Zeros(WL_SSID_MAX_LENGTH) \in SsidRow
  BY DEF Zeros, SsidRow
<1>3. ASSUME Init PROVE HasName /\ conf = NoName
  BY <1>3 DEF Init, HasName, At
<1> QED
  BY <1>1, <1>2, <1>3, LoopInit DEF SsidInv

\* A call that starts has a name if it sets one, and changes no cache.
LEMMA SsidCall ==
    ASSUME SsidInv, NEW t \in Tasks, TaskCalls(t)
    PROVE  SsidInv'
<1>1. LoopInv' /\ LoopInv
  BY CallStep DEF SsidInv, LoopStep
<1>2. cache' = cache /\ conf' \in {conf, NoName}
  BY DEF TaskCalls, BeginNetwork, ScanNetworks, Query, Settings, WiFi_disconnect, Restart,
         drvVars, espVars
<1>3. HasName'
  BY NameGiven DEF SsidInv
<1> QED
  BY <1>1, <1>2, <1>3 DEF SsidInv

\* What a query leaves in the cache.
LEMMA AskedSsid ==
    ASSUME SsidIsReported, SsidInv, NEW t \in Tasks, Ask(t), op[t] = "SSID"
    PROVE  cache'["SSID"] \in SsidRow /\ IsCut(cache'["SSID"], conf)
<1>1. PICK reply \in QueryReplies("SSID") :
         cache' = [cache EXCEPT !["SSID"] = QueryCall("SSID", reply).value]
  BY DEF Ask
<1>2. reply \in Replies(conf)
  BY <1>1 DEF QueryReplies, SsidIsReported, SsidInv
<1>3. cache'["SSID"] = WiFiDrv_getCurrentSSID(reply, cache["SSID"]).value
  BY <1>1 DEF SsidInv, QueryCall
<1>4. conf \in Seq(Nat) /\ cache["SSID"] \in SsidRow
  BY NamesAreNats DEF SsidInv
<1> QED
  BY <1>2, <1>3, <1>4, SsidCut

LEMMA SsidStep ==
    ASSUME NamesFit, SsidIsReported, SsidInv, NEW t \in Tasks, TaskStep(t)
    PROVE  SsidInv'
<1>1. LoopInv' /\ LoopInv
  BY TaskLoopStep DEF SsidInv, LoopStep
<1>2. conf' \in Names \union {NoName}
  <2>1. CASE Set(t)
    <3>1. op[t] \in Waiting /\ ssid[t] \in Names
      BY <1>1, <2>1 DEF Set, At, SsidInv, HasName, LoopInv, CallFits
    <3>2. Received(SetNetwork(op[t], ssid[t], << >>).sent).params[1] = ssid[t]
      BY <3>1, NameIsRead
    <3>3. conf' \in {conf, Received(SetNetwork(op[t], ssid[t], << >>).sent).params[1]}
      BY <2>1 DEF Set
    <3> QED
      BY <3>1, <3>2, <3>3 DEF SsidInv
  <2>2. CASE Leave(t)
    BY <2>2 DEF Leave, SsidInv
  <2>3. CASE ~Set(t) /\ ~Leave(t)
    BY <2>3 DEF TaskStep, Poll, StartScan, GetScan, Ask, SendSetting, Finish, espVars, SsidInv
  <2> QED
    BY <2>1, <2>2, <2>3
<1>3. "SSID" \in DOMAIN cache' /\ cache'["SSID"] \in SsidRow
  <2>1. CASE Ask(t) /\ op[t] = "SSID"
    <3>1. DOMAIN cache' = DOMAIN cache
      BY <2>1 DEF Ask
    <3> QED
      BY <2>1, <3>1, AskedSsid DEF SsidInv
  <2>2. CASE Ask(t) /\ op[t] # "SSID"
    BY <2>2 DEF Ask, SsidInv
  <2>3. CASE ~Ask(t)
    BY <2>3 DEF TaskStep, Set, Poll, StartScan, GetScan, SendSetting, Leave, Finish, drvVars,
                SsidInv
  <2> QED
    BY <2>1, <2>2, <2>3
<1> QED
  BY <1>1, <1>2, <1>3, NameKept DEF SsidInv

LEMMA SsidInvStep ==
    ASSUME NamesFit, SsidIsReported, SsidInv, [Next]_vars
    PROVE  SsidInv'
<1>1. CASE Air \/ UNCHANGED vars
  <2>1. LoopInv' /\ UNCHANGED <<pc, ssid, cache>> /\ conf' \in {conf, NoName}
    BY <1>1, CallsStay DEF SsidInv, Air, vars, callVars, drvVars, espVars
  <2> QED
    BY <2>1 DEF SsidInv, HasName, At
<1> QED
  BY <1>1, SsidCall, SsidStep DEF Next

\* A query returns by its own step.
LEMMA ReturnByAsk ==
    ASSUME SsidInv, [Next]_vars, NEW t \in Tasks, At(t, "query"), pc'[t] = "return"
    PROVE  Ask(t)
<1>1. CASE Air \/ UNCHANGED vars
  BY <1>1 DEF Air, vars, callVars, At
<1>2. ASSUME NEW u \in Tasks, TaskCalls(u) \/ TaskStep(u), u # t
      PROVE  FALSE
  <2>1. OthersStay(u)
    BY <1>2, CallStep, TaskLoopStep DEF SsidInv, LoopStep
  <2> QED
    BY <1>2, <2>1 DEF OthersStay, At
<1>3. ~TaskCalls(t)
  BY DEF TaskCalls, BeginNetwork, ScanNetworks, Query, Settings, WiFi_disconnect, Restart,
         Begin, At
<1>4. ASSUME TaskStep(t) PROVE Ask(t)
  BY <1>4 DEF TaskStep, Set, Poll, StartScan, GetScan, SendSetting, Leave, Finish, At
<1> QED
  BY <1>1, <1>2, <1>3, <1>4 DEF Next

\* WiFi_SSID never returns the name of a network that the coprocessor has left,
\* whatever is lost and whichever tasks call what at the same time: the cache is
\* cleared before each reply, and the reply stored into it no further than it came.
THEOREM SsidIsCurrent ==
    ASSUME NamesFit, SsidIsReported
    PROVE  Spec => SsidCurrent
<1>1. SsidInv /\ [Next]_vars => SsidInv'
  BY SsidInvStep
<1>2. SsidInv /\ [Next]_vars =>
         [\A t \in Tasks :
             At(t, "query") /\ op[t] = "SSID" /\ pc'[t] = "return" =>
                IsCut(cache'["SSID"], conf)]_vars
  BY ReturnByAsk, AskedSsid
<1>3. Spec => []SsidInv
  BY SsidInit, <1>1, PTL DEF Spec
<1> QED
  BY <1>2, <1>3, PTL DEF Spec, SsidCurrent

-----------------------------------------------------------------------------
(* The types of all variables *)

ListType == [Rows -> [1..WL_SSID_MAX_LENGTH -> Byte]]

TypeInv ==
    /\ SsidInv /\ CommandInv
    /\ list \in ListType
    /\ DOMAIN cache = DOMAIN NewCache

\* Of any bytes, at any place, a parameter is bytes.
LEMMA FieldBytes ==
    ASSUME NEW s \in Seq(Byte), NEW m \in Int, NEW at, NEW room \in Nat, room > 0
    PROVE  FieldAt(UpTo(s, m), at, room) \in Seq(Byte)
<1>1. UpTo(s, m) \in Seq(Byte)
  <2> DEFINE n == IF Len(s) < m THEN Len(s) ELSE m
  <2>1. n \in Int /\ n <= Len(s) /\ Len(s) \in Nat
    BY LenProperties
  <2>2. \A i \in 1..n : s[i] \in Byte
    BY <2>1, ElementOfSeq
  <2> HIDE DEF n
  <2>3. SubSeq(s, 1, n) \in Seq(Byte)
    BY <2>1, <2>2, SubSeqProperties
  <2> QED
    BY <2>3 DEF UpTo, n
<1>2. \A k : ByteAt(UpTo(s, m), k) \in Byte
  <2>1. \A k \in DOMAIN UpTo(s, m) : UpTo(s, m)[k] \in Byte
    BY <1>1, ElementOfSeq, LenProperties
  <2>2. 0 \in Byte
    BY DEF Byte
  <2> HIDE DEF UpTo
  <2> QED
    BY <2>1, <2>2 DEF ByteAt
<1> DEFINE n == Kept(ByteAt(UpTo(s, m), at), room)
           f == [b \in 1..n |-> ByteAt(UpTo(s, m), at + b)]
<1>3. n \in Nat
  <2>1. ByteAt(UpTo(s, m), at) \in Nat
    BY <1>2, ByteFacts
  <2> QED
    BY <2>1, KeptBounds
<1> HIDE DEF n
<1>4. f \in [1..n -> Byte]
  BY <1>2
<1>5. f \in Seq(Byte)
  BY <1>3, <1>4, SeqDef
<1>6. <<0>> \in Seq(Byte)
  BY DEF Byte
<1> HIDE DEF f
<1>7. f \o <<0>> \in Seq(Byte)
  BY <1>5, <1>6, ConcatProperties
<1> QED
  BY <1>7 DEF FieldAt, f, n

\* What a scan leaves in the list.
LEMMA ScanListTyped ==
    ASSUME NEW old \in ListType, NEW stack, NEW reply,
           reply # << >> => reply[2] \in Seq(Byte)
    PROVE  WiFiDrv_getScanNetworks(reply, old, stack).value.list \in ListType
<1> DEFINE L == WL_SSID_MAX_LENGTH
<1>1. L \in Nat /\ L > 0 /\ LIST_CLOCKED - 3 \in Int
  BY WiFiDrvAssumption
<1>2. 0 \in Byte
  BY DEF Byte
<1>3. ASSUME NEW i \in Rows PROVE Cleared(old[i]) \in [1..L -> Byte]
  BY <1>2 DEF Cleared, ListType
<1>4. ASSUME NEW new \in Seq(Byte), NEW i \in Rows
      PROVE  Over(new, Cleared(old[i])) \in [1..L -> Byte]
  <2>1. \A k \in 1..L : k <= Len(new) => new[k] \in Byte
    BY <1>1, ElementOfSeq, LenProperties
  <2>2. DOMAIN Cleared(old[i]) = 1..L /\ \A k \in 1..L : Cleared(old[i])[k] \in Byte
    BY <1>3
  <2>3. Over(new, Cleared(old[i])) =
           [k \in 1..L |-> IF k <= Len(new) THEN new[k] ELSE Cleared(old[i])[k]]
    BY <2>2 DEF Over
  <2> HIDE DEF L
  <2> QED
    BY <2>1, <2>2, <2>3
<1>5. ASSUME NEW names, \A i \in DOMAIN names : names[i] \in Seq(Byte)
      PROVE  NamesIn(names, old) \in ListType
  <2>1. DOMAIN old = Rows
    BY DEF ListType
  <2>2. \A i \in Rows :
           (IF i \in DOMAIN names THEN Over(names[i], Cleared(old[i])) ELSE Cleared(old[i]))
              \in [1..L -> Byte]
    BY <1>3, <1>4, <1>5
  <2> QED
    BY <2>1, <2>2 DEF NamesIn, ListType
<1>6. CASE reply = << >>
  <2>1. NamesIn(<< >>, old) \in ListType
    BY <1>5
  <2> QED
    BY <1>6, <2>1 DEF WiFiDrv_getScanNetworks, Exchange
<1>7. CASE reply # << >>
  <2> DEFINE n     == IF reply[1] > WL_NETWORKS_LIST_MAXNUM THEN WL_NETWORKS_LIST_MAXNUM
                                                            ELSE reply[1]
             rooms == [i \in 1..n |-> L]
             s     == UpTo(reply[2], LIST_CLOCKED - 3)
             names == Fields(s, rooms)
  <2>1. ASSUME NEW i \in DOMAIN names PROVE names[i] \in Seq(Byte)
    <3>1. DOMAIN names = DOMAIN rooms /\ rooms[i] = L
      BY DEF Fields
    <3>2. names[i] = FieldAt(s, Starts(s, rooms)[i], rooms[i])
      BY <3>1 DEF Fields
    <3> QED
      BY <1>1, <1>7, <3>1, <3>2, FieldBytes
  <2>2. NamesIn(names, old) \in ListType
    <3> HIDE DEF names
    <3> QED
      BY <1>5, <2>1
  <2> QED
    BY <1>7, <2>2 DEF WiFiDrv_getScanNetworks, Exchange
<1> QED
  BY <1>6, <1>7

LEMMA EntryFollows ==
    ASSUME NEW S, NEW x \in Seq(S), NEW name \in Seq(S), Len(name) \in S
    PROVE  x \o <<Len(name)>> \o name \in Seq(S) /\ <<Len(name)>> \o name \in Seq(S)
<1>1. <<Len(name)>> \in Seq(S)
  OBVIOUS
<1>2. x \o <<Len(name)>> \in Seq(S)
  BY <1>1, ConcatProperties
<1> QED
  BY <1>1, <1>2, ConcatProperties

\* The entries of a list, each a name behind its length.
Entries(names) == [p \in 1..Len(names) |-> <<Len(names[p])>> \o names[p]]

\* The bytes behind the count are the entries, one behind the other.
LEMMA ListJoined ==
    ASSUME NEW S, NEW names, Len(names) \in Nat,
           \A p \in 1..Len(names) : names[p] \in Seq(S) /\ Len(names[p]) \in S
    PROVE  \E flat : /\ Joined(flat, Len(names), Entries(names))
                     /\ ListReply(names)[2] =
                           (IF Len(names) = 0 THEN << >> ELSE flat[Len(names)]) \o <<END_CMD>>
<1> DEFINE n     == Len(names)
           Is(f) == f = [i \in 0..n |-> IF i = 0 THEN << >>
                                        ELSE f[i-1] \o <<Len(names[i])>> \o names[i]]
           upto  == CHOOSE f : Is(f)
           step  == [x \in Seq(S) \X (1..n) |-> x[1] \o <<Len(names[x[2]])>> \o names[x[2]]]
           first == << >> \o <<Len(names[1])>> \o names[1]
           G     == {p \in 1..n : upto[p] \in Seq(S)}
<1>0. n \in Nat /\ \A p \in 1..n : names[p] \in Seq(S) /\ Len(names[p]) \in S
  OBVIOUS
<1>1. << >> \in Seq(S)
  BY EmptySeq
<1>e. Entries(names) = [p \in 1..n |-> <<Len(names[p])>> \o names[p]]
  BY DEF Entries
<1>4. ListReply(names)[2] = upto[n] \o <<END_CMD>>
  BY DEF ListReply
<1> HIDE DEF n
<1>2. \E f : Is(f)
  <2>1. \A x \in Seq(S), p \in 1..n :
           step[<<x, p>>] = x \o <<Len(names[p])>> \o names[p]
    OBVIOUS
  <2>2. step \in [Seq(S) \X (1..n) -> Seq(S)]
    BY <1>0, EntryFollows
  <2> HIDE DEF step
  <2>f. n > 0 => first \in Seq(S)
    BY <1>0, <1>1, EntryFollows
  <2> HIDE DEF first
  <2>3. PICK f \in [1..n -> Seq(S)] : n > 0 => Recursive(f, n, first, step)
    <3>1. CASE n = 0
      <4>1. [p \in 1..n |-> << >>] \in [1..n -> Seq(S)]
        BY <1>1
      <4>2. ~(n > 0)
        BY <3>1
      <4> QED
        BY <4>1, <4>2
    <3>2. CASE n > 0
      <4>1. \E f \in [1..n -> Seq(S)] : Recursive(f, n, first, step)
        BY <1>0, <2>2, <2>f, <3>2, RecursionExists
      <4> QED
        BY <4>1
    <3> QED
      BY <1>0, <3>1, <3>2
  <2> DEFINE g == [i \in 0..n |-> IF i = 0 THEN << >> ELSE f[i]]
  <2>0. ASSUME n > 0 PROVE f[1] = first
    <3>1. 1 \in 1..n
      BY <1>0, <2>0
    <3> QED
      BY <2>0, <2>3, <3>1 DEF Recursive
  <2>4. ASSUME NEW i \in 0..n
        PROVE  g[i] = IF i = 0 THEN << >> ELSE g[i-1] \o <<Len(names[i])>> \o names[i]
    <3>1. CASE i = 0
      BY <3>1
    <3>2. CASE i = 1
      <4>1. f[1] = first
        BY <1>0, <2>0, <3>2
      <4>2. g[i] = f[1] /\ g[i-1] = << >>
        BY <1>0, <3>2
      <4> QED
        BY <1>0, <2>0, <3>2, <4>1, <4>2 DEF first
    <3>3. CASE i > 1
      <4>1. n > 0 /\ i \in 1..n /\ i - 1 \in 1..n /\ g[i] = f[i] /\ g[i-1] = f[i-1]
        BY <1>0, <3>3
      <4>2. f[i] = step[<<f[i-1], i>>]
        BY <2>3, <3>3, <4>1 DEF Recursive
      <4>3. f[i-1] \in Seq(S)
        BY <4>1
      <4> QED
        BY <2>1, <3>3, <4>1, <4>2, <4>3
    <3> QED
      BY <1>0, <3>1, <3>2, <3>3
  <2>5. Is(g)
    BY <2>4
  <2> QED
    BY <2>5
<1>3. Is(upto)
  BY <1>2
<1> HIDE DEF upto
<1>5. upto[0] = << >> /\ \A i \in 1..n : upto[i] = upto[i-1] \o <<Len(names[i])>> \o names[i]
  <2>1. upto[0] = << >>
    BY <1>0, <1>3
  <2>2. ASSUME NEW i \in 1..n PROVE upto[i] = upto[i-1] \o <<Len(names[i])>> \o names[i]
    <3>1. i \in 0..n /\ i # 0
      BY <1>0
    <3> QED
      BY <1>3, <3>1
  <2> QED
    BY <2>1, <2>2
<1>6. n > 0 => 1 \in G
  <2>1. SUFFICES ASSUME n > 0 PROVE upto[1] \in Seq(S)
    BY <1>0
  <2>2. 1 \in 1..n /\ 1 - 1 = 0
    BY <1>0, <2>1
  <2>3. upto[1] = << >> \o <<Len(names[1])>> \o names[1]
    BY <1>5, <2>2
  <2> QED
    BY <1>0, <1>1, <2>2, <2>3, EntryFollows
<1>7. ASSUME NEW p \in 1..n-1, p \in G PROVE p + 1 \in G
  <2>1. p + 1 \in 1..n /\ (p + 1) - 1 = p /\ upto[p] \in Seq(S)
    BY <1>0, <1>7
  <2>2. upto[p+1] = upto[p] \o <<Len(names[p+1])>> \o names[p+1]
    BY <1>5, <2>1
  <2>3. upto[p+1] \in Seq(S)
    BY <1>0, <2>1, <2>2, EntryFollows
  <2> QED
    BY <2>1, <2>3
<1>8. \A p \in 1..n : upto[p] \in Seq(S)
  <2> HIDE DEF G
  <2>1. \A p \in 1..n : p \in G
    BY <1>0, <1>6, <1>7, InductionUpTo
  <2> QED
    BY <2>1 DEF G
<1>9. ASSUME NEW p \in 1..n
      PROVE  upto[p] = IF p = 1 THEN Entries(names)[p] ELSE upto[p-1] \o Entries(names)[p]
  <2> DEFINE x == upto[p-1]
             l == <<Len(names[p])>>
             y == names[p]
  <2>1. x \in Seq(S) /\ (p = 1 => x = << >>)
    <3>1. CASE p = 1
      <4>1. p - 1 = 0
        BY <3>1
      <4> QED
        BY <1>1, <1>5, <4>1
    <3>2. CASE p # 1
      <4>1. p - 1 \in 1..n
        BY <1>0, <3>2
      <4> QED
        BY <1>8, <3>2, <4>1
    <3> QED
      BY <3>1, <3>2
  <2>2. l \in Seq(S) /\ y \in Seq(S)
    BY <1>0
  <2>3. upto[p] = (x \o l) \o y /\ Entries(names)[p] = l \o y
    BY <1>5, <1>e
  <2> HIDE DEF x, l, y
  <2>4. (x \o l) \o y = x \o (l \o y)
    BY <2>1, <2>2, ConcatAssociative
  <2>5. l \o y \in Seq(S)
    BY <2>2, ConcatProperties
  <2>6. << >> \o (l \o y) = l \o y
    BY <2>5, ConcatEmptySeq
  <2>7. p = 1 => x = << >>
    BY <2>1
  <2> QED
    BY ONLY <2>3, <2>4, <2>6, <2>7 DEF x
<1>10. Joined(upto, n, Entries(names))
  BY <1>9 DEF Joined
<1> QED
  BY <1>4, <1>5, <1>10 DEF n

LEMMA EntriesFacts ==
    ASSUME NEW S, NEW names, Len(names) \in Nat, NEW p \in 1..Len(names),
           names[p] \in Seq(S), Len(names[p]) \in S
    PROVE  LET e == Entries(names)[p] IN
           /\ e \in Seq(S) /\ Len(names[p]) \in Nat /\ Len(e) = 1 + Len(names[p])
           /\ e[1] = Len(names[p])
           /\ \A b \in 1..Len(names[p]) : e[1 + b] = names[p][b]
<1> DEFINE l == <<Len(names[p])>>
           y == names[p]
<1>1. l \in Seq(S) /\ y \in Seq(S) /\ Len(l) = 1 /\ l[1] = Len(y) /\ Len(y) \in Nat
  BY LenProperties
<1>2. Entries(names)[p] = l \o y
  BY DEF Entries
<1> HIDE DEF l, y
<1>3. /\ l \o y \in Seq(S) /\ Len(l \o y) = Len(l) + Len(y)
      /\ \A j \in 1..Len(l) + Len(y) : (l \o y)[j] = IF j <= Len(l) THEN l[j] ELSE y[j - Len(l)]
  BY <1>1, ConcatProperties
<1>4. (l \o y)[1] = Len(y) /\ \A b \in 1..Len(y) : (l \o y)[1 + b] = y[b]
  <2>1. \A b \in 1..Len(y) : 1 + b \in 1..1+Len(y) /\ ~(1 + b <= 1) /\ (1 + b) - 1 = b
    BY <1>1
  <2>2. 1 \in 1..1+Len(y)
    BY <1>1
  <2> QED
    BY <1>1, <1>3, <2>1, <2>2
<1> QED
  BY <1>1, <1>2, <1>3, <1>4 DEF y

\* The bytes behind the count are bytes, however many networks there are.
LEMMA ListedBytes ==
    ASSUME NEW names, Len(names) \in Nat,
           \A p \in 1..Len(names) : names[p] \in Seq(Byte) /\ Len(names[p]) \in Byte
    PROVE  ListReply(names)[2] \in Seq(Byte)
<1> DEFINE n == Len(names)
<1>1. << >> \in Seq(Byte) /\ <<END_CMD>> \in Seq(Byte)
  BY EmptySeq, OneByteLong, WiFiDrvAssumption DEF Byte
<1>2. PICK flat : /\ Joined(flat, n, Entries(names))
                  /\ ListReply(names)[2] = (IF n = 0 THEN << >> ELSE flat[n]) \o <<END_CMD>>
  BY ListJoined
<1>3. CASE n = 0
  BY <1>1, <1>2, <1>3, ConcatProperties
<1>4. CASE n # 0
  <2>1. \A p \in 1..n : Entries(names)[p] \in Seq(Byte) /\ Len(Entries(names)[p]) \in Nat
    BY EntriesFacts, LenProperties
  <2>2. PICK off : Offsets(off, n, Entries(names))
    BY <2>1, OffsetsExist
  <2>3. n \in Nat /\ n > 0
    BY <1>4
  <2> HIDE DEF n
  <2>4. flat[n] \in Seq(Byte)
    BY <1>2, <2>1, <2>2, <2>3, JoinedAt
  <2> QED
    BY <1>1, <1>2, <1>4, <2>4, ConcatProperties
<1> QED
  BY <1>3, <1>4

LEMMA ListIsBytes ==
    ASSUME NamesFit, NEW names \in FoundLists \union {<< >>, << << >> >>}
    PROVE  ListReply(names)[2] \in Seq(Byte)
<1>1. CASE names \in FoundLists
  <2>1. names \in Seq(Names)
    BY <1>1, WiFiAssumption
  <2>2. Len(names) \in Nat /\ \A p \in 1..Len(names) : names[p] \in Names
    BY <2>1, LenProperties, ElementOfSeq
  <2>3. ASSUME NEW name \in Names PROVE name \in Seq(Byte) /\ Len(name) \in Byte
    <3>1. name \in Seq(Byte) /\ Len(name) <= 239
      BY WiFiAssumption DEF NamesFit, Byte
    <3>2. Len(name) \in Nat
      BY <3>1, LenProperties
    <3>3. \A k \in Nat : k <= 239 => k \in Byte
      BY DEF Byte
    <3> QED
      BY <3>1, <3>2, <3>3
  <2> QED
    BY <2>2, <2>3, ListedBytes
<1>2. CASE names = << >>
  BY <1>2, ListedBytes
<1>3. CASE names = << << >> >>
  <2>1. Len(names) = 1 /\ names[1] = << >>
    BY <1>3
  <2>2. << >> \in Seq(Byte) /\ Len(<< >>) \in Byte
    BY EmptySeq DEF Byte
  <2>3. ASSUME NEW p \in 1..Len(names) PROVE names[p] \in Seq(Byte) /\ Len(names[p]) \in Byte
    <3>1. p = 1
      BY <2>1
    <3> QED
      BY <2>1, <2>2, <3>1
  <2> QED
    BY <2>1, <2>3, ListedBytes
<1> QED
  BY <1>1, <1>2, <1>3

LEMMA TypeInit == Init => TypeInv
<1> SUFFICES ASSUME Init PROVE TypeInv
  OBVIOUS
<1>1. SsidInv
  BY SsidInit
<1>2. Zeros(WL_SSID_MAX_LENGTH) \in [1..WL_SSID_MAX_LENGTH -> Byte]
  BY DEF Zeros, Byte
<1>3. list \in ListType
  BY <1>2 DEF Init, ListType, Rows
<1> QED
  BY <1>1, <1>3, CommandInit DEF Init, TypeInv

LEMMA TypeCall ==
    ASSUME ScriptsAreSettings, TypeInv, NEW t \in Tasks, TaskCalls(t)
    PROVE  TypeInv'
<1>1. SsidInv' /\ CommandInv'
  BY SsidCall, CommandCall DEF TypeInv
<1>2. UNCHANGED <<cache, list>>
  BY DEF TaskCalls, BeginNetwork, ScanNetworks, Query, Settings, WiFi_disconnect, Restart,
         drvVars
<1> QED
  BY <1>1, <1>2 DEF TypeInv

LEMMA TypeStep ==
    ASSUME NamesFit, SsidIsReported, TypeInv, NEW t \in Tasks, TaskStep(t)
    PROVE  TypeInv'
<1>1. SsidInv' /\ pc \in [Tasks -> Labels] /\ pc' \in [Tasks -> Labels]
  BY SsidStep DEF TypeInv, SsidInv, LoopInv, CallTypes
<1>2. CommandInv'
  BY CommandStep DEF TypeInv
<1>3. list' \in ListType
  <2>1. CASE GetScan(t)
    <3>1. PICK reply \in ScanReplies, stack \in Stack :
             list' = WiFiDrv_getScanNetworks(reply, list, stack).value.list
      BY <2>1 DEF GetScan
    <3>2. \A names \in FoundLists \union {<< >>, << << >> >>} : ListReply(names)[2] \in Seq(Byte)
      BY ListIsBytes
    <3>3. found \in FoundLists \union {<< >>}
      BY DEF TypeInv, SsidInv, LoopInv, CallTypes
    <3>4. reply # << >> => reply[2] \in Seq(Byte)
      BY <3>2, <3>3 DEF ScanReplies
    <3> QED
      BY <3>1, <3>4, ScanListTyped DEF TypeInv
  <2>2. CASE ~GetScan(t)
    BY <2>2 DEF TaskStep, Set, Poll, StartScan, Ask, SendSetting, Leave, Finish, drvVars, TypeInv
  <2> QED
    BY <2>1, <2>2
<1>4. DOMAIN cache' = DOMAIN NewCache
  <2>1. CASE Ask(t)
    BY <2>1 DEF Ask, TypeInv
  <2>2. CASE ~Ask(t)
    BY <2>2 DEF TaskStep, Set, Poll, StartScan, GetScan, SendSetting, Leave, Finish, drvVars,
                TypeInv
  <2> QED
    BY <2>1, <2>2
<1> QED
  BY <1>1, <1>2, <1>3, <1>4 DEF TypeInv

LEMMA TypeInvStep ==
    ASSUME ScriptsAreSettings, NamesFit, SsidIsReported, TypeInv, [Next]_vars
    PROVE  TypeInv'
<1>1. CASE Air \/ UNCHANGED vars
  <2>1. SsidInv' /\ CommandInv'
    BY SsidInvStep, CommandInvStep DEF TypeInv
  <2>2. UNCHANGED <<list, cache>>
    BY <1>1 DEF Air, vars, callVars, drvVars
  <2> QED
    BY <2>1, <2>2 DEF TypeInv
<1> QED
  BY <1>1, TypeCall, TypeStep DEF Next

\* Every variable of the connection manager keeps its type: in particular the
\* attempts of a loop, a uint8, never wrap, and a list is full rows of bytes
\* whatever lengths the replies to a scan claim.
THEOREM ManagerTypeCorrect ==
    ASSUME ScriptsAreSettings, NamesFit, SsidIsReported
    PROVE  Spec => []TypeOK
<1>1. TypeInv /\ [Next]_vars => TypeInv'
  BY TypeInvStep
<1>2. TypeInv => TypeOK
  <2> SUFFICES ASSUME TypeInv PROVE TypeOK
    OBVIOUS
  <2>1. script \in [Tasks -> Seq([cmd : 0..127, params : Seq(Seq(0..255))])]
    <3> DEFINE Commands == [cmd : 0..127, params : Seq(Seq(0..255))]
    <3>1. Sent \subseteq Commands
      BY DEF Sent
    <3> SUFFICES script \in [Tasks -> Seq(Commands)]
      OBVIOUS
    <3> HIDE DEF Commands
    <3>2. \A s \in Seq(Sent) : s \in Seq(Commands)
      BY <3>1, SeqMonotonic
    <3> QED
      BY <3>2 DEF TypeInv, CommandInv
  <2> QED
    BY <2>1 DEF TypeInv, TypeOK, SsidInv, LoopInv, CallTypes, ListType, Byte
<1>3. Spec => []TypeInv
  BY TypeInit, <1>1, PTL DEF Spec
<1> QED
  BY <1>2, <1>3, PTL

-----------------------------------------------------------------------------
(* The list of a scan *)

\* The names that fit into a row of the list with the terminator.
NamesFitRows == \A name \in Names : Len(name) < WL_SSID_MAX_LENGTH

\* What is clocked of a sequence, and zeros behind it.
LEMMA ClockedBytes ==
    ASSUME NEW s \in Seq(Nat), NEW m \in Int, NEW k \in Nat, k > 0
    PROVE  /\ ByteAt(UpTo(s, m), k) = IF k <= Len(s) /\ k <= m THEN s[k] ELSE 0
           /\ ByteAt(UpTo(s, m), k) \in Nat
<1> DEFINE n == IF Len(s) < m THEN Len(s) ELSE m
           u == SubSeq(s, 1, n)
<1>1. n \in Int /\ n <= Len(s) /\ n <= m /\ Len(s) \in Nat /\ (n = Len(s) \/ n = m)
  BY LenProperties
<1>2. \A i \in 1..n : s[i] \in Nat
  BY <1>1, ElementOfSeq
<1>3. UpTo(s, m) = u
  BY DEF UpTo
<1> HIDE DEF n
<1>4. /\ u \in Seq(Nat) /\ Len(u) = IF 1 <= n THEN n - 1 + 1 ELSE 0
      /\ \A i \in 1..n - 1 + 1 : u[i] = s[1 + i - 1]
  BY <1>1, <1>2, SubSeqProperties
<1>5. DOMAIN u = 1..Len(u)
  BY <1>4, LenProperties
<1> HIDE DEF u
<1>6. k \in DOMAIN u <=> k <= n
  BY <1>1, <1>4, <1>5
<1>7. ASSUME k <= n PROVE u[k] = s[k] /\ s[k] \in Nat
  <2>1. k \in 1..n - 1 + 1 /\ 1 + k - 1 = k /\ k \in 1..n
    BY <1>1, <1>7
  <2> QED
    BY <1>2, <1>4, <2>1
<1>8. k <= n <=> k <= Len(s) /\ k <= m
  BY <1>1
<1> QED
  BY <1>3, <1>6, <1>7, <1>8 DEF ByteAt

\* Of rows of one length, each parameter begins behind the one before it.
Following(s, at, n, room) ==
    /\ at[1] = 1 /\ \A p \in 1..n+1 : at[p] \in Nat \ {0}
    /\ \A p \in 1..n : at[p+1] = Behind(s, at[p], room)

LEMMA StartsFollow ==
    ASSUME NEW s, NEW n \in Nat, NEW room \in Nat, room > 0,
           \A k \in Nat \ {0} : ByteAt(s, k) \in Nat,
           NEW rooms, Len(rooms) = n, \A p \in 1..n : rooms[p] = room
    PROVE  Following(s, Starts(s, rooms), n, room)
<1> DEFINE D     == Nat \ {0}
           at    == Starts(s, rooms)
           Is(f) == f = [p \in 1..n+1 |-> IF p = 1 THEN 1 ELSE Behind(s, f[p-1], rooms[p-1])]
           the   == CHOOSE f : Is(f)
           step  == [x \in D \X (1..n+1) |-> Behind(s, x[1], room)]
           S     == {p \in 1..n+1 : at[p] \in D}
<1>1. Len(rooms) = n /\ \A p \in 1..n : rooms[p] = room
  OBVIOUS
<1>2. at = the
  BY <1>1 DEF Starts
<1> HIDE DEF at
<1>3. \A x \in D : Behind(s, x, room) \in D
  <2>1. ASSUME NEW x \in D PROVE Kept(ByteAt(s, x), room) \in Nat
    <3>1. ByteAt(s, x) \in Nat
      OBVIOUS
    <3> QED
      BY ONLY <3>1, room \in Nat, room > 0, KeptBounds
  <2> QED
    BY <2>1 DEF Behind
<1>4. \E f : Is(f)
  <2>1. \A x \in D, p \in 1..n+1 : step[<<x, p>>] = Behind(s, x, room)
    OBVIOUS
  <2>2. step \in [D \X (1..n+1) -> D]
    BY <1>3
  <2> HIDE DEF step
  <2>3. PICK f \in [1..n+1 -> D] : Recursive(f, n+1, 1, step)
    <3>1. n + 1 \in Nat /\ 1 \in D
      OBVIOUS
    <3> HIDE DEF D
    <3> QED
      BY <2>2, <3>1, RecursionExists
  <2>4. ASSUME NEW p \in 1..n+1
        PROVE  f[p] = IF p = 1 THEN 1 ELSE Behind(s, f[p-1], rooms[p-1])
    <3>1. f[p] = IF p = 1 THEN 1 ELSE step[<<f[p-1], p>>]
      BY <2>3 DEF Recursive
    <3>2. p # 1 => f[p-1] \in D /\ p - 1 \in 1..n
      BY <2>3
    <3> QED
      BY <1>1, <2>1, <3>1, <3>2
  <2>5. Is(f)
    BY <2>3, <2>4
  <2> QED
    BY <2>5
<1>5. Is(at)
  BY <1>2, <1>4
<1>6. at[1] = 1 /\ \A p \in 1..n : at[p+1] = Behind(s, at[p], room)
  <2>1. 1 \in 1..n+1
    OBVIOUS
  <2>2. ASSUME NEW p \in 1..n PROVE at[p+1] = Behind(s, at[p], rooms[p])
    <3>1. p + 1 \in 1..n+1 /\ p + 1 # 1 /\ (p + 1) - 1 = p
      OBVIOUS
    <3>2. at[p+1] = Behind(s, at[(p+1)-1], rooms[(p+1)-1])
      BY ONLY <1>5, <3>1
    <3> QED
      BY <3>1, <3>2
  <2> QED
    BY <1>1, <1>5, <2>1, <2>2
<1>7. \A p \in 1..n+1 : p \in S
  <2>1. 1 \in S
    BY <1>6
  <2>2. ASSUME NEW p \in 1..(n+1)-1, p \in S PROVE p + 1 \in S
    <3>1. p \in 1..n /\ p + 1 \in 1..n+1
      OBVIOUS
    <3> QED
      BY <1>3, <1>6, <2>2, <3>1
  <2>3. n + 1 \in Nat
    OBVIOUS
  <2> HIDE DEF S
  <2> QED
    BY <2>1, <2>2, <2>3, InductionUpTo
<1> QED
  BY <1>6, <1>7 DEF at, Following

\* Where the names of a list are in the reply.
NamesAt(s, names, off) ==
    /\ off[0] = 0 /\ \A p \in 0..Len(names) : off[p] \in Nat
    /\ \A p \in 1..Len(names) :
          /\ off[p] = off[p-1] + (1 + Len(names[p])) /\ off[p] <= Len(s)
          /\ s[off[p-1] + 1] = Len(names[p])
          /\ \A b \in 1..Len(names[p]) : s[off[p-1] + (1 + b)] = names[p][b]

LEMMA ListAt ==
    ASSUME NEW names, Len(names) \in Nat, \A p \in 1..Len(names) : names[p] \in Seq(Nat)
    PROVE  /\ ListReply(names)[2] \in Seq(Nat)
           /\ \E off : NamesAt(ListReply(names)[2], names, off)
<1> DEFINE n    == Len(names)
           seqs == Entries(names)
           end  == <<END_CMD>>
           s    == ListReply(names)[2]
<1>1. end \in Seq(Nat) /\ Len(end) = 1 /\ << >> \in Seq(Nat) /\ n \in Nat
  BY EmptySeq, WiFiDrvAssumption
<1>2. \A p \in 1..n : /\ seqs[p] \in Seq(Nat) /\ Len(names[p]) \in Nat
                      /\ Len(seqs[p]) = 1 + Len(names[p]) /\ seqs[p][1] = Len(names[p])
                      /\ \A b \in 1..Len(names[p]) : seqs[p][1 + b] = names[p][b]
  BY EntriesFacts, LenProperties
<1>3. PICK flat : /\ Joined(flat, n, seqs)
                  /\ s = (IF n = 0 THEN << >> ELSE flat[n]) \o end
  BY ListJoined, LenProperties
<1>4. PICK off : Offsets(off, n, seqs)
  BY <1>1, <1>2, OffsetsExist, LenProperties
<1>5. off[0] = 0 /\ \A p \in 0..n : off[p] \in Nat
  BY <1>4 DEF Offsets
<1>6. CASE n = 0
  <2>1. s \in Seq(Nat)
    BY <1>1, <1>3, <1>6, ConcatProperties
  <2>2. NamesAt(s, names, off)
    BY <1>5, <1>6 DEF NamesAt
  <2> QED
    BY <2>1, <2>2
<1>7. CASE n # 0
  <2> DEFINE x == flat[n]
             m == off[n]
  <2> HIDE DEF n, seqs, end, s
  <2>1. n > 0
    BY <1>1, <1>7
  <2>2. x \in Seq(Nat) /\ Len(x) = m /\ LaidOut(x, n, seqs, off)
    BY <1>1, <1>2, <1>3, <1>4, <2>1, JoinedAt
  <2>3. s = x \o end /\ m \in Nat
    BY <1>1, <1>3, <1>5, <1>7
  <2> HIDE DEF x, m
  <2>4. /\ s \in Seq(Nat) /\ Len(s) = m + 1 /\ \A j \in 1..m : s[j] = x[j]
    <3>1. /\ x \o end \in Seq(Nat) /\ Len(x \o end) = Len(x) + Len(end)
          /\ \A j \in 1..Len(x) + Len(end) :
                (x \o end)[j] = IF j <= Len(x) THEN x[j] ELSE end[j - Len(x)]
      BY <1>1, <2>2, ConcatProperties
    <3>2. \A j \in 1..m : j \in 1..m+1 /\ j <= m
      BY <2>3
    <3> QED
      BY <1>1, <2>2, <2>3, <3>1, <3>2
  <2>5. ASSUME NEW p \in 1..n
        PROVE  /\ off[p] = off[p-1] + (1 + Len(names[p])) /\ off[p] <= Len(s)
               /\ s[off[p-1] + 1] = Len(names[p])
               /\ \A b \in 1..Len(names[p]) : s[off[p-1] + (1 + b)] = names[p][b]
    <3> DEFINE L == Len(names[p])
               o == off[p-1]
    <3>1. /\ L \in Nat /\ Len(seqs[p]) = 1 + L /\ seqs[p][1] = L
          /\ \A b \in 1..L : seqs[p][1 + b] = names[p][b]
      BY <1>2
    <3>2. off[p] = o + (1 + L)
      BY <1>4, <3>1 DEF Offsets
    <3>3. \A j \in 1..1+L : o + j \in 1..m /\ x[o + j] = seqs[p][j]
      BY <2>2, <3>1 DEF LaidOut, m
    <3>4. \A j \in 1..1+L : s[o + j] = seqs[p][j]
      BY <2>4, <3>3
    <3> HIDE DEF L, o
    <3>5. 1 \in 1..1+L /\ 1 + L \in 1..1+L /\ \A b \in 1..L : 1 + b \in 1..1+L
      BY <3>1
    <3>6. off[p] <= Len(s)
      <4>1. o + (1 + L) \in 1..m
        BY <3>3, <3>5
      <4> QED
        BY <2>3, <2>4, <3>2, <4>1
    <3> QED
      BY <3>1, <3>2, <3>4, <3>5, <3>6 DEF L, o
  <2>6. NamesAt(s, names, off)
    BY <1>5, <2>5 DEF NamesAt, n
  <2> QED
    BY <2>4, <2>6 DEF s
<1> QED
  BY <1>6, <1>7

\* A row of the list, written over zeros: what it holds of a parameter.
LEMMA RowOf ==
    ASSUME NEW s, NEW at \in Nat \ {0}, NEW room \in Nat, room > 0,
           \A k \in Nat \ {0} : ByteAt(s, k) \in Nat
    PROVE  LET x == FieldAt(s, at, room)
               n == Kept(ByteAt(s, at), room)
           IN  /\ n \in Nat /\ Len(x) = n + 1
               /\ \A j \in 1..n+1 : x[j] = IF j <= n THEN ByteAt(s, at + j) ELSE 0
<1> DEFINE n == Kept(ByteAt(s, at), room)
           y == [b \in 1..n |-> ByteAt(s, at + b)]
           z == <<0>>
<1>1. n \in Nat
  BY KeptBounds
<1>2. FieldAt(s, at, room) = y \o z
  BY DEF FieldAt
<1> HIDE DEF n
<1>3. y \in Seq(Nat) /\ Len(y) = n
  <2>1. y \in [1..n -> Nat] /\ DOMAIN y = 1..n
    OBVIOUS
  <2> HIDE DEF y
  <2> QED
    BY <1>1, <2>1
<1>4. \A j \in 1..n : y[j] = ByteAt(s, at + j)
  OBVIOUS
<1>5. z \in Seq(Nat) /\ Len(z) = 1 /\ z[1] = 0
  OBVIOUS
<1> HIDE DEF y, z
<1>6. /\ Len(y \o z) = Len(y) + Len(z)
      /\ \A j \in 1..Len(y) + Len(z) : (y \o z)[j] = IF j <= Len(y) THEN y[j] ELSE z[j - Len(y)]
  BY <1>3, <1>5, ConcatProperties
<1>7. ASSUME NEW j \in 1..n+1 PROVE (y \o z)[j] = IF j <= n THEN ByteAt(s, at + j) ELSE 0
  <2>1. CASE j <= n
    <3>1. j \in 1..n
      BY <1>1, <2>1
    <3> QED
      BY <1>3, <1>4, <1>5, <1>6, <2>1, <3>1
  <2>2. CASE ~(j <= n)
    <3>1. j = n + 1 /\ j - n = 1
      BY <1>1, <2>2
    <3> QED
      BY <1>3, <1>5, <1>6, <2>2, <3>1
  <2> QED
    BY <2>1, <2>2
<1> QED
  BY <1>1, <1>2, <1>3, <1>5, <1>6, <1>7 DEF n

\* Each parameter of a list is where its name is, or behind the bytes clocked.
LEMMA ListParsed ==
    ASSUME NEW names, Len(names) \in Nat,
           \A p \in 1..Len(names) : names[p] \in Seq(Nat) /\ Len(names[p]) < WL_SSID_MAX_LENGTH,
           NEW r \in Seq(Nat), NEW off, NamesAt(r, names, off),
           NEW n \in Nat, n <= Len(names), NEW m \in Int, NEW s, s = UpTo(r, m),
           NEW rooms, Len(rooms) = n, \A p \in 1..n : rooms[p] = WL_SSID_MAX_LENGTH,
           NEW at, at = Starts(s, rooms)
    PROVE  \A p \in 1..n : at[p] \in Nat \ {0} /\ (at[p] = off[p-1] + 1 \/ at[p] > m)
<1> DEFINE room == WL_SSID_MAX_LENGTH
           S    == {p \in 1..n : at[p] = off[p-1] + 1 \/ at[p] > m}
<1>1. room \in Nat /\ room > 0 /\ Len(r) \in Nat
  BY LenProperties, WiFiDrvAssumption
<1>2. \A k \in Nat \ {0} : /\ ByteAt(s, k) = IF k <= Len(r) /\ k <= m THEN r[k] ELSE 0
                           /\ ByteAt(s, k) \in Nat
  BY ClockedBytes
<1>3. /\ at[1] = 1 /\ \A p \in 1..n+1 : at[p] \in Nat \ {0}
      /\ \A p \in 1..n : at[p+1] = Behind(s, at[p], room)
  <2>1. \A k \in Nat \ {0} : ByteAt(s, k) \in Nat
    BY <1>2
  <2>2. Following(s, at, n, room)
    BY <1>1, <2>1, StartsFollow
  <2> QED
    BY <2>2 DEF Following
<1>4. /\ off[0] = 0 /\ \A p \in 0..Len(names) : off[p] \in Nat
      /\ \A p \in 1..Len(names) :
            /\ off[p] = off[p-1] + (1 + Len(names[p])) /\ off[p] <= Len(r)
            /\ r[off[p-1] + 1] = Len(names[p])
  BY DEF NamesAt
<1>5. \A p \in 1..Len(names) : Len(names[p]) \in Nat /\ Len(names[p]) < room
  BY LenProperties
<1> HIDE DEF room
<1>6. n > 0 => 1 \in S
  <2>1. n > 0 => 1 \in 1..n /\ off[1-1] = 0
    BY <1>4
  <2> QED
    BY <1>3, <2>1
<1>7. ASSUME NEW p \in 1..n-1, p \in S PROVE p + 1 \in S
  <2> DEFINE L == Len(names[p])
             o == off[p-1]
  <2>1. p \in 1..n /\ p \in 1..Len(names) /\ p + 1 \in 1..n /\ (p + 1) - 1 = p /\ p - 1 \in 0..Len(names)
    OBVIOUS
  <2>2. /\ at[p] \in Nat \ {0} /\ at[p+1] = at[p] + 1 + Kept(ByteAt(s, at[p]), room)
        /\ at[p] = o + 1 \/ at[p] > m
    <3>1. p \in 1..n+1
      OBVIOUS
    <3> QED
      BY <1>3, <1>7, <2>1, <3>1 DEF Behind
  <2>3. /\ o \in Nat /\ L \in Nat /\ L < room /\ off[p] = o + (1 + L) /\ off[p] <= Len(r)
        /\ r[o + 1] = L
    BY <1>4, <1>5, <2>1
  <2> HIDE DEF L, o
  <2>4. CASE at[p] > m
    <3>1. ByteAt(s, at[p]) = 0
      BY <1>2, <2>2, <2>4
    <3>2. Kept(0, room) = 0
      BY <1>1 DEF Kept
    <3>3. at[p+1] > m
      BY <2>2, <2>4, <3>1, <3>2
    <3> QED
      BY <2>1, <3>3
  <2>5. CASE ~(at[p] > m)
    <3>1. at[p] = o + 1 /\ o + 1 <= m /\ o + 1 <= Len(r)
      BY <1>1, <2>2, <2>3, <2>5, SMTT(30)
    <3>2. ByteAt(s, at[p]) = L
      BY <1>2, <2>2, <2>3, <3>1
    <3>3. Kept(L, room) = L
      BY <1>1, <2>3 DEF Kept
    <3>4. at[p+1] = off[p] + 1
      BY <2>2, <2>3, <3>1, <3>2, <3>3
    <3> QED
      BY <2>1, <3>4
  <2> QED
    BY <2>4, <2>5
<1>8. \A p \in 1..n : p \in S
  <2> HIDE DEF S
  <2> QED
    BY <1>6, <1>7, InductionUpTo
<1>9. \A p \in 1..n : at[p] \in Nat \ {0} /\ (at[p] = off[p-1] + 1 \/ at[p] > m)
  <2>1. \A p \in 1..n : p \in 1..n+1
    OBVIOUS
  <2> QED
    BY <1>3, <1>8, <2>1
<1> QED
  BY <1>9

\* So a row written over zeros holds the beginning of its name.
LEMMA RowIsCut ==
    ASSUME NEW names, Len(names) \in Nat,
           \A p \in 1..Len(names) : names[p] \in Seq(Nat) /\ Len(names[p]) < WL_SSID_MAX_LENGTH,
           NEW n \in Nat, n <= Len(names), NEW m \in Int, NEW p \in 1..n, NEW row,
           DOMAIN row \subseteq Nat \ {0}
    PROVE  LET s     == UpTo(ListReply(names)[2], m)
               rooms == [i \in 1..n |-> WL_SSID_MAX_LENGTH]
           IN  IsCut(Over(Fields(s, rooms)[p], Cleared(row)), names[p])
<1> DEFINE r     == ListReply(names)[2]
           s     == UpTo(r, m)
           room  == WL_SSID_MAX_LENGTH
           rooms == [i \in 1..n |-> room]
           at    == Starts(s, rooms)[p]
           x     == FieldAt(s, at, room)
           k     == Kept(ByteAt(s, at), room)
           L     == Len(names[p])
           name  == names[p]
<1>1. r \in Seq(Nat) /\ room \in Nat /\ room > 0 /\ Len(r) \in Nat
  BY ListAt, LenProperties, WiFiDrvAssumption
<1>2. PICK off : NamesAt(r, names, off)
  BY ListAt
<1>3. at \in Nat \ {0} /\ (at = off[p-1] + 1 \/ at > m)
  <2>1. PICK u : u = Starts(s, rooms)
    OBVIOUS
  <2>2. Len(rooms) = n /\ \A q \in 1..n : rooms[q] = WL_SSID_MAX_LENGTH
    OBVIOUS
  <2>3. at = u[p]
    BY <2>1
  <2> HIDE DEF r, rooms, at
  <2>4. u[p] \in Nat \ {0} /\ (u[p] = off[p-1] + 1 \/ u[p] > m)
    BY <1>1, <1>2, <2>1, <2>2, ListParsed
  <2> QED
    BY <2>3, <2>4
<1>4. \A q \in Nat \ {0} : /\ ByteAt(s, q) = IF q <= Len(r) /\ q <= m THEN r[q] ELSE 0
                           /\ ByteAt(s, q) \in Nat
  <2> HIDE DEF r
  <2> QED
    BY <1>1, ClockedBytes
<1>5. Fields(s, rooms)[p] = x
  BY DEF Fields
<1>6. /\ off[p-1] \in Nat /\ L \in Nat /\ L < room
      /\ off[p-1] + (1 + L) <= Len(r) /\ r[off[p-1] + 1] = L
      /\ \A b \in 1..L : r[off[p-1] + (1 + b)] = name[b]
  <2>1. p \in 1..Len(names) /\ p - 1 \in 0..Len(names)
    OBVIOUS
  <2> QED
    BY <1>2, <2>1, LenProperties DEF NamesAt
<1> HIDE DEF r, s, room, at, L, name
<1>7. /\ k \in Nat /\ Len(x) = k + 1
      /\ \A j \in 1..k+1 : x[j] = IF j <= k THEN ByteAt(s, at + j) ELSE 0
  BY <1>1, <1>3, <1>4, RowOf
<1> HIDE DEF x, k
<1> DEFINE Cut(c) == \A j \in Nat \ {0} : (IF j <= k + 1 THEN x[j] ELSE 0) = IF j <= c THEN name[j] ELSE 0
<1>8. \E c \in 0..L : Cut(c)
  <2>1. CASE at > m
    <3>1. ByteAt(s, at) = 0 /\ Kept(0, room) = 0
      BY <1>1, <1>3, <1>4, <2>1 DEF Kept
    <3>2. k = 0
      BY <3>1 DEF k
    <3>3. Cut(0)
      BY <1>7, <3>2
    <3>4. 0 \in 0..L
      BY <1>6
    <3> HIDE DEF Cut
    <3> QED
      BY <3>3, <3>4
  <2>2. CASE ~(at > m)
    <3>1. at = off[p-1] + 1 /\ at <= m /\ at <= Len(r)
      BY <1>1, <1>3, <1>6, <2>2
    <3>2. ByteAt(s, at) = L /\ Kept(L, room) = L
      <4>1. ByteAt(s, at) = r[at]
        BY <1>3, <1>4, <3>1
      <4>2. Kept(L, room) = L
        BY <1>1, <1>6 DEF Kept
      <4> QED
        BY <1>6, <3>1, <4>1, <4>2
    <3>3. k = L
      BY <3>2 DEF k
    <3> DEFINE c == IF m - at >= L THEN L ELSE m - at
    <3>4. c \in 0..L
      <4>1. m \in Int /\ at \in Nat /\ L \in Nat /\ at <= m
        BY <1>3, <1>6, <3>1
      <4> QED
        BY ONLY <4>1
    <3>5. ASSUME NEW j \in 1..L PROVE ByteAt(s, at + j) = IF j <= c THEN name[j] ELSE 0
      <4>1. at + j \in Nat \ {0} /\ at + j <= Len(r) /\ at + j = off[p-1] + (1 + j)
            /\ (at + j <= m <=> j <= c)
        <5>1. ASSUME NEW o \in Nat, NEW a \in Nat, NEW w \in Nat, NEW i \in 1..w,
                     NEW l \in Nat, NEW e \in Int, a = o + 1, o + (1 + w) <= l
              PROVE  /\ a + i \in Nat \ {0} /\ a + i <= l /\ a + i = o + (1 + i)
                     /\ (a + i <= e <=> i <= IF e - a >= w THEN w ELSE e - a)
          <6>1. CASE e - a >= w
            BY <5>1, <6>1
          <6>2. CASE ~(e - a >= w)
            BY <5>1, <6>2
          <6> QED
            BY <6>1, <6>2
        <5>2. off[p-1] \in Nat /\ at \in Nat /\ L \in Nat /\ Len(r) \in Nat /\ m \in Int
          BY <1>1, <1>3, <1>6
        <5>3. at = off[p-1] + 1 /\ off[p-1] + (1 + L) <= Len(r)
          BY <1>6, <3>1
        <5> QED
          BY ONLY <5>1, <5>2, <5>3, j \in 1..L, SMTT(30)
      <4> HIDE DEF c
      <4> QED
        BY <1>4, <1>6, <4>1
    <3>6. Cut(c)
      <4> SUFFICES ASSUME NEW j \in Nat \ {0}
                   PROVE  (IF j <= k + 1 THEN x[j] ELSE 0) = IF j <= c THEN name[j] ELSE 0
        OBVIOUS
      <4>1. CASE j <= L
        <5>1. j \in 1..L /\ j \in 1..k+1 /\ j <= k + 1 /\ j <= k
          BY <1>6, <3>3, <4>1
        <5> HIDE DEF c
        <5> QED
          BY <1>7, <3>5, <5>1
      <4>2. CASE ~(j <= L)
        <5>1. ~(j <= c) /\ ~(j <= k)
          BY <1>6, <3>3, <3>4, <4>2
        <5>2. j <= k + 1 => j \in 1..k+1
          BY <1>7
        <5> HIDE DEF c
        <5> QED
          BY <1>7, <5>1, <5>2
      <4> QED
        BY <4>1, <4>2
    <3> HIDE DEF c, Cut
    <3> QED
      BY <3>4, <3>6
  <2> QED
    BY <2>1, <2>2
<1>9. PICK c \in 0..L : Cut(c)
  BY <1>8
<1> DEFINE new == Over(x, Cleared(row))
<1>10. DOMAIN new = DOMAIN row /\ \A j \in DOMAIN row : new[j] = IF j <= k + 1 THEN x[j] ELSE 0
  BY <1>7 DEF Over, Cleared
<1>11. \A j \in DOMAIN row : new[j] = IF j <= c THEN name[j] ELSE 0
  BY <1>9, <1>10
<1>12. IsCut(new, name)
  <2> HIDE DEF new
  <2> QED
    BY <1>9, <1>10, <1>11 DEF IsCut, L, name
<1> QED
  BY <1>5, <1>12 DEF s, r, rooms, room, name

\* A row of zeros is the beginning of any name.
LEMMA ClearedIsCut ==
    ASSUME NEW row, NEW name, Len(name) \in Nat
    PROVE  IsCut(Cleared(row), name) \/ ~(DOMAIN row \subseteq Nat \ {0})
<1>1. 0 \in 0..Len(name)
  OBVIOUS
<1>2. ASSUME DOMAIN row \subseteq Nat \ {0}, NEW k \in DOMAIN Cleared(row)
      PROVE  Cleared(row)[k] = IF k <= 0 THEN name[k] ELSE 0
  <2>1. k \in DOMAIN row
    BY DEF Cleared
  <2> QED
    BY <1>2, <2>1 DEF Cleared
<1> QED
  BY <1>1, <1>2 DEF IsCut

\* The list has its rows.
HasRows ==
    /\ LoopInv /\ DOMAIN list = Rows
    /\ \A i \in Rows : DOMAIN list[i] = 1..WL_SSID_MAX_LENGTH

\* What a poll of a scan leaves in the list.
LEMMA ScannedList ==
    ASSUME NamesFitRows, HasRows, NEW t \in Tasks, GetScan(t)
    PROVE  /\ DOMAIN list' = Rows
           /\ \A i \in Rows :
                 /\ DOMAIN list'[i] = 1..WL_SSID_MAX_LENGTH
                 /\ IsCut(list'[i], IF i <= Len(found) THEN found[i] ELSE NoName)
<1> DEFINE Name(i) == IF i <= Len(found) THEN found[i] ELSE NoName
           room    == WL_SSID_MAX_LENGTH
           max     == WL_NETWORKS_LIST_MAXNUM
<1>1. PICK reply \in ScanReplies, stack \in Stack :
         list' = WiFiDrv_getScanNetworks(reply, list, stack).value.list
  BY DEF GetScan
<1>2. max \in Nat /\ LIST_CLOCKED - 3 \in Int /\ room \in Nat /\ room > 0
  BY WiFiDrvAssumption
<1>3. Len(found) \in Nat /\ \A p \in 1..Len(found) : found[p] \in Names
  <2>1. found \in Seq(Names)
    BY WiFiAssumption, EmptySeq, ZenonT(60) DEF HasRows, LoopInv, CallTypes
  <2> QED
    BY <2>1, LenProperties, ElementOfSeq
<1>4. \A name \in Names \union {NoName} : name \in Seq(Nat) /\ Len(name) \in Nat /\ Len(name) < room
  <2>1. Len(NoName) = 0
    BY DEF NoName
  <2> QED
    BY <1>2, <2>1, NamesAreNats, LenProperties DEF NamesFitRows
<1>5. \A i \in Rows : Name(i) \in Names \union {NoName}
  BY <1>3 DEF Rows
<1>6. ASSUME NEW i \in Rows
      PROVE  DOMAIN list[i] = 1..room /\ DOMAIN list[i] \subseteq Nat \ {0}
             /\ IsCut(Cleared(list[i]), Name(i))
  <2>1. DOMAIN list[i] = 1..room /\ DOMAIN list[i] \subseteq Nat \ {0}
    BY <1>2 DEF HasRows
  <2>2. Len(Name(i)) \in Nat
    BY <1>4, <1>5
  <2> HIDE DEF Name
  <2> QED
    BY <2>1, <2>2, ClearedIsCut
<1>7. ASSUME NEW given
      PROVE  /\ DOMAIN NamesIn(given, list) = Rows
             /\ \A i \in Rows :
                   /\ NamesIn(given, list)[i] = IF i \in DOMAIN given
                                                THEN Over(given[i], Cleared(list[i]))
                                                ELSE Cleared(list[i])
                   /\ DOMAIN NamesIn(given, list)[i] = DOMAIN list[i]
  BY DEF NamesIn, HasRows, Over, Cleared
<1>8. CASE reply = << >>
  <2>1. list' = NamesIn(<< >>, list)
    BY <1>1, <1>8 DEF WiFiDrv_getScanNetworks, Exchange
  <2>2. \A i : ~(i \in DOMAIN << >>)
    OBVIOUS
  <2>3. ASSUME NEW i \in Rows PROVE DOMAIN list'[i] = 1..room /\ IsCut(list'[i], Name(i))
    BY <1>6, <1>7, <2>1, <2>2
  <2> QED
    BY <1>7, <2>1, <2>3
<1>9. ASSUME NEW names, reply = ListReply(names),
             Len(names) \in Nat,
             \A p \in 1..Len(names) : names[p] \in Seq(Nat) /\ Len(names[p]) < room,
             \A i \in Rows : i <= Len(names) =>
                \A row : DOMAIN row = 1..room /\ IsCut(row, names[i]) => IsCut(row, Name(i))
      PROVE  /\ DOMAIN list' = Rows
             /\ \A i \in Rows : DOMAIN list'[i] = 1..room /\ IsCut(list'[i], Name(i))
  <2> DEFINE n     == IF reply[1] > max THEN max ELSE reply[1]
             rooms == [i \in 1..n |-> room]
             given == Fields(UpTo(reply[2], LIST_CLOCKED - 3), rooms)
  <2>1. reply # << >> /\ reply[1] = Len(names) /\ reply[2] = ListReply(names)[2]
    BY <1>9 DEF ListReply
  <2>2. list' = NamesIn(given, list)
    BY <1>1, <2>1 DEF WiFiDrv_getScanNetworks, Exchange
  <2>3. n \in Nat /\ n <= Len(names)
    BY <1>2, <1>9, <2>1
  <2>4. DOMAIN given = 1..n
    BY DEF Fields
  <2>5. ASSUME NEW i \in 1..n, DOMAIN list[i] \subseteq Nat \ {0}
        PROVE  IsCut(Over(given[i], Cleared(list[i])), names[i])
    <3> DEFINE row == list[i]
    <3>1. DOMAIN row \subseteq Nat \ {0}
      BY <2>5
    <3> HIDE DEF n, row
    <3> QED
      BY <1>2, <1>9, <2>1, <2>3, <3>1, RowIsCut DEF row
  <2> HIDE DEF given
  <2>6. ASSUME NEW i \in Rows PROVE DOMAIN list'[i] = 1..room /\ IsCut(list'[i], Name(i))
    <3>1. CASE i \in 1..n
      <4>1. i <= Len(names)
        BY <2>3, <3>1
      <4>2. list'[i] = Over(given[i], Cleared(list[i]))
        BY <1>7, <2>2, <2>4, <3>1
      <4>3. IsCut(list'[i], names[i])
        BY <1>6, <2>5, <3>1, <4>2
      <4>4. IsCut(list'[i], Name(i))
        BY <1>6, <1>7, <1>9, <2>2, <4>1, <4>3
      <4> QED
        BY <1>6, <1>7, <2>2, <4>4
    <3>2. CASE i \notin 1..n
      <4>1. list'[i] = Cleared(list[i])
        BY <1>7, <2>2, <2>4, <3>2
      <4> QED
        BY <1>6, <1>7, <2>2, <4>1
    <3> QED
      BY <3>1, <3>2
  <2> QED
    BY <1>7, <2>2, <2>6
<1>10. CASE reply = ListReply(found)
  <2>1. \A p \in 1..Len(found) : found[p] \in Seq(Nat) /\ Len(found[p]) < room
    BY <1>3, <1>4
  <2>2. \A i \in Rows : i <= Len(found) =>
           \A row : DOMAIN row = 1..room /\ IsCut(row, found[i]) => IsCut(row, Name(i))
    OBVIOUS
  <2> HIDE DEF Name
  <2> QED
    BY <1>3, <1>9, <1>10, <2>1, <2>2 DEF Name
<1>11. CASE reply = ListReply(<< << >> >>)
  <2> DEFINE empty == << << >> >>
  <2>1. Len(empty) = 1 /\ empty[1] = << >> /\ << >> \in Seq(Nat) /\ Len(<< >>) = 0
    OBVIOUS
  <2> HIDE DEF empty
  <2>2. Len(empty) \in Nat /\ \A p \in 1..Len(empty) : empty[p] \in Seq(Nat) /\ Len(empty[p]) < room
    <3>1. ASSUME NEW p \in 1..Len(empty) PROVE empty[p] \in Seq(Nat) /\ Len(empty[p]) < room
      <4>1. p = 1
        BY <2>1
      <4> QED
        BY <1>2, <2>1, <4>1
    <3> QED
      BY <2>1, <3>1
  <2>3. ASSUME NEW i \in Rows, i <= Len(empty), NEW row, DOMAIN row = 1..room,
               IsCut(row, empty[i])
        PROVE  IsCut(row, Name(i))
    <3>1. Len(empty[i]) = 0
      <4>1. i = 1
        BY <2>1, <2>3 DEF Rows
      <4> QED
        BY <2>1, <4>1
    <3>2. PICK c \in 0..Len(empty[i]) : \A k \in DOMAIN row : row[k] = IF k <= c THEN empty[i][k] ELSE 0
      BY <2>3 DEF IsCut
    <3>3. c = 0
      BY <3>1, <3>2
    <3>4. \A k \in DOMAIN row : row[k] = IF k <= 0 THEN Name(i)[k] ELSE 0
      <4>1. \A k \in 1..room : ~(k <= 0)
        BY <1>2
      <4> HIDE DEF Name
      <4> QED
        BY <2>3, <3>2, <3>3, <4>1
    <3>5. 0 \in 0..Len(Name(i))
      <4>1. Len(Name(i)) \in Nat
        BY <1>4, <1>5
      <4> QED
        BY ONLY <4>1
    <3> HIDE DEF Name
    <3> QED
      BY <3>4, <3>5 DEF IsCut
  <2> QED
    BY <1>9, <1>11, <2>2, <2>3 DEF empty
<1> QED
  BY <1>1, <1>8, <1>10, <1>11 DEF ScanReplies
LEMMA RowsInit == Init => HasRows
<1>1. WL_NETWORKS_LIST_MAXNUM \in Nat /\ WL_SSID_MAX_LENGTH \in Nat
  BY WiFiDrvAssumption
<1> QED
  BY <1>1, LoopInit DEF Init, HasRows, Rows, Zeros

\* No call but that of the scan writes to the list.
LEMMA RowsInvStep == NamesFitRows /\ HasRows /\ [Next]_vars => HasRows'
<1> SUFFICES ASSUME NamesFitRows, HasRows, [Next]_vars PROVE HasRows'
  OBVIOUS
<1>1. LoopInv'
  BY LoopInvStep DEF HasRows
<1>2. ASSUME UNCHANGED list PROVE HasRows'
  BY <1>1, <1>2 DEF HasRows
<1>3. ASSUME NEW t \in Tasks, GetScan(t) PROVE HasRows'
  BY <1>1, <1>3, ScannedList DEF HasRows
<1>4. CASE Air \/ UNCHANGED vars
  BY <1>2, <1>4 DEF Air, vars, drvVars
<1>5. ASSUME NEW t \in Tasks, TaskCalls(t) PROVE UNCHANGED list
  BY <1>5 DEF TaskCalls, BeginNetwork, Query, Settings, ScanNetworks, WiFi_disconnect, Restart,
              drvVars
<1>6. ASSUME NEW t \in Tasks, TaskStep(t), ~GetScan(t) PROVE UNCHANGED list
  BY <1>6 DEF TaskStep, Set, Poll, StartScan, Ask, SendSetting, Leave, Finish, drvVars
<1> QED
  BY <1>2, <1>3, <1>4, <1>5, <1>6 DEF Next

\* A poll of a scan is over by the exchange that gets the list, and by nothing else.
LEMMA PollByGetScan ==
    ASSUME HasRows, [Next]_vars, NEW t \in Tasks, At(t, "getScan"),
           pc'[t] = "return" \/ attempts'[t] # attempts[t]
    PROVE  GetScan(t)
<1>1. CASE Air \/ UNCHANGED vars
  BY <1>1 DEF Air, vars, callVars, At
<1>2. ASSUME NEW u \in Tasks, TaskCalls(u) \/ TaskStep(u), u # t
      PROVE  FALSE
  <2>1. OthersStay(u)
    BY <1>2, CallStep, TaskLoopStep DEF HasRows, LoopStep
  <2> QED
    BY <1>2, <2>1 DEF OthersStay, At
<1>3. ~TaskCalls(t)
  BY DEF TaskCalls, BeginNetwork, ScanNetworks, Query, Settings, WiFi_disconnect, Restart,
         Begin, At
<1>4. ASSUME TaskStep(t) PROVE GetScan(t)
  BY <1>4 DEF TaskStep, Set, Poll, StartScan, Ask, SendSetting, Leave, Finish, At
<1> QED
  BY <1>1, <1>2, <1>3, <1>4 DEF Next

\* WiFi_scanNetworks never leaves a row of an earlier scan in the list, whatever
\* is found and whatever is lost: each row is what was clocked of the name at
\* its place, or empty.  A name is one that fits with its terminator: of a
\* longer one the parse loses a byte, and the names behind it are not where
\* they are expected.
THEOREM ScanListIsCurrent ==
    ASSUME NamesFitRows
    PROVE  Spec => ScanListCurrent
<1>1. HasRows /\ [Next]_vars => HasRows'
  BY RowsInvStep
<1>2. HasRows /\ [Next]_vars =>
         [\A t \in Tasks :
             At(t, "getScan") /\ (pc'[t] = "return" \/ attempts'[t] # attempts[t]) =>
                \A i \in Rows : IsCut(list'[i], IF i <= Len(found) THEN found[i] ELSE NoName)]_vars
  BY PollByGetScan, ScannedList
<1>3. Spec => []HasRows
  BY RowsInit, <1>1, PTL DEF Spec
<1> QED
  BY <1>2, <1>3, PTL DEF Spec, ScanListCurrent
=============================================================================
