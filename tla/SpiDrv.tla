------------------------------- MODULE SpiDrv -------------------------------
(***************************************************************************)
(* The SPI driver (src/src/spi_drv.c): how a command and the reply to it   *)
(* cross the bus between the FreeRTOS tasks of the PSoC and the ESP32      *)
(* coprocessor.  A call is two exchanges, "send" (SpiDrv_sendCmd) and      *)
(* "recv" (SpiDrv_receiveResponseCmd), each of which waits for the ESPBUSY *)
(* line, asserts chip select, queues its bytes, blocks on the transmit     *)
(* interrupt and deasserts chip select.  Tasks, the two interrupt          *)
(* handlers, the SPI block and the coprocessor are interleaved.            *)
(*                                                                         *)
(* The bytes of a frame are abstracted to the call it belongs to and its   *)
(* command code: the code in the header is all that the receiver compares. *)
(* The parse of the parameters is the subject of module ReplyParser.       *)
(***************************************************************************)
EXTENDS Naturals, Sequences

CONSTANTS
    Tasks,            \* FreeRTOS tasks that call the library
    Cmds,             \* command codes
    NoCmd,            \* no command code: the header of zeros or of noise
    Serialized,       \* the callers exclude one another; nothing in src does
    AppCreatesTxSem,  \* the application creates spiTxCompleted; nothing in src does
    LateBusy,         \* ESPBUSY may rise as late as the end of the next exchange
    MaxCalls,         \* bound on the number of commands issued
    MaxRestarts       \* bound on spontaneous restarts of the coprocessor

ASSUME ConstantsAssumption ==
    /\ NoCmd \notin Cmds
    /\ Serialized \in BOOLEAN
    /\ AppCreatesTxSem \in BOOLEAN
    /\ LateBusy \in BOOLEAN
    /\ MaxCalls \in Nat
    /\ MaxRestarts \in Nat

VARIABLES
    pc,               \* where each task is in the driver
    stage,            \* the exchange it is in: "send", "recv", or "init" for WiFi_init
    cur,              \* ghost: the frame of the call it last made
    reply,            \* the reply its last call accepted, or Nothing
    initialized,      \* SpiDrv_initialized
    slaveReadyDetected, spiTxCompleted,     \* the binary semaphores
    txBuffer,         \* the one transmit buffer all exchanges share
    rx,               \* the oldest reply in the receive buffer; Nothing if empty or noise
    CS,               \* WIFI_CS_OVERRIDE: chip select asserted
    shifting, wire,   \* the SPI block is transferring, and the frame it transfers
    txIrq, readyIrq,  \* interrupts raised and not yet handled
    ESPBUSY,          \* the coprocessor's busy line
    espPhase, espJob, \* what the coprocessor is doing, and the frame it works on
    executed,         \* ghost: the calls whose command the coprocessor executed, in order
    calls, restarts   \* counts for the bounds; calls also numbers the calls

taskVars == <<pc, stage, cur, reply>>
semVars  == <<slaveReadyDetected, spiTxCompleted>>
spiVars  == <<rx, CS, shifting, wire, txIrq>>
espVars  == <<readyIrq, ESPBUSY, espPhase, espJob, executed, restarts>>
vars == <<taskVars, initialized, semVars, txBuffer, spiVars, espVars, calls>>

Frame   == [id : Nat, cmd : Cmds \union {NoCmd}]
Nothing == [id |-> 0, cmd |-> NoCmd]

Labels == {"idle", "waitForSlaveSelect", "begin", "checkReady", "takeReady", "spin",
           "select", "checkSelected", "takeSelected", "put", "takeTx", "deselect",
           "clear", "parse"}

TypeOK ==
    /\ pc \in [Tasks -> Labels]
    /\ stage \in [Tasks -> {"send", "recv", "init"}]
    /\ cur \in [Tasks -> Frame]
    /\ reply \in [Tasks -> Frame]
    /\ initialized \in BOOLEAN
    /\ slaveReadyDetected \in {"null", "empty", "full"}
    /\ spiTxCompleted \in {"null", "empty", "full"}
    /\ txBuffer \in Frame /\ rx \in Frame /\ wire \in Frame /\ espJob \in Frame
    /\ CS \in BOOLEAN /\ shifting \in BOOLEAN
    /\ txIrq \in BOOLEAN /\ readyIrq \in BOOLEAN /\ ESPBUSY \in BOOLEAN
    /\ espPhase \in {"off", "boot", "cmd", "work", "reply", "rearm"}
    /\ executed \in Seq(Nat)
    /\ calls \in Nat /\ restarts \in Nat

(***************************************************************************)
(* Power-up: reset is held low, nothing has been initialised.              *)
(***************************************************************************)
Init ==
    /\ pc = [t \in Tasks |-> "idle"]
    /\ stage = [t \in Tasks |-> "init"]
    /\ cur = [t \in Tasks |-> Nothing]
    /\ reply = [t \in Tasks |-> Nothing]
    /\ initialized = FALSE
    /\ slaveReadyDetected = "null"
    /\ spiTxCompleted = IF AppCreatesTxSem THEN "empty" ELSE "null"
    /\ txBuffer = Nothing /\ rx = Nothing /\ wire = Nothing
    /\ CS = FALSE /\ shifting = FALSE /\ txIrq = FALSE /\ readyIrq = FALSE
    /\ ESPBUSY = TRUE /\ espPhase = "off" /\ espJob = Nothing
    /\ executed = << >>
    /\ calls = 0 /\ restarts = 0

At(t, label)   == pc[t] = label
Goto(t, label) == pc' = [pc EXCEPT ![t] = label]

\* A give fills a binary semaphore; giving to a handle that was never created
\* wakes nobody.
Give(sem) == IF sem = "null" THEN "null" ELSE "full"

\* Faulty: nobody takes the lock.
ExclusiveNever(t) == TRUE

\* The caller's lock, if there is one.
Exclusive(t) == Serialized => \A u \in Tasks \ {t} : At(u, "idle")

\* SPIM_WIFI_ClearTxBuffer and SPIM_WIFI_ClearRxBuffer.
ClearBuffers == rx' = Nothing /\ wire' = Nothing

-----------------------------------------------------------------------------
(* The calls a task can make *)

\* SpiDrv_sendCmd up to the wait: build the frame, clear both buffers.
Call(t, c) ==
    /\ At(t, "idle") /\ Exclusive(t) /\ calls < MaxCalls
    /\ calls' = calls + 1
    /\ cur' = [cur EXCEPT ![t] = [id |-> calls + 1, cmd |-> c]]
    /\ txBuffer' = [id |-> calls + 1, cmd |-> c]
    /\ reply' = [reply EXCEPT ![t] = Nothing]
    /\ stage' = [stage EXCEPT ![t] = "send"]
    /\ ClearBuffers
    /\ Goto(t, "waitForSlaveSelect")
    /\ UNCHANGED <<initialized, semVars, CS, shifting, txIrq, espVars>>

\* SpiDrv_begin up to its delays: a new, empty semaphore, and ESPRST pulsed.
ResetESP ==
    /\ slaveReadyDetected' = "empty"
    /\ espPhase' = "boot" /\ ESPBUSY' = TRUE /\ espJob' = Nothing
    /\ UNCHANGED <<spiTxCompleted, readyIrq, executed, restarts>>

\* WiFi_init: SpiDrv_begin called on its own account.
WiFiInit(t) ==
    /\ At(t, "idle") /\ Exclusive(t)
    /\ stage' = [stage EXCEPT ![t] = "init"]
    /\ ResetESP
    /\ Goto(t, "begin")
    /\ UNCHANGED <<cur, reply, initialized, txBuffer, spiVars, calls>>

\* Faulty: also deletes the semaphore, as the handle's owner might.
SpiDrvEndDeleting(t) ==
    /\ At(t, "idle") /\ Exclusive(t)
    /\ espPhase' = "off" /\ ESPBUSY' = TRUE /\ espJob' = Nothing
    /\ CS' = FALSE
    /\ initialized' = FALSE
    /\ slaveReadyDetected' = "deleted"
    /\ UNCHANGED <<taskVars, spiTxCompleted, txBuffer, rx, shifting, wire, txIrq,
                   readyIrq, executed, restarts, calls>>

\* WiFi_end: hold the coprocessor in reset, release chip select.
SpiDrvEnd(t) ==
    /\ At(t, "idle") /\ Exclusive(t)
    /\ espPhase' = "off" /\ ESPBUSY' = TRUE /\ espJob' = Nothing
    /\ CS' = FALSE
    /\ initialized' = FALSE
    /\ UNCHANGED <<taskVars, semVars, txBuffer, rx, shifting, wire, txIrq,
                   readyIrq, executed, restarts, calls>>

-----------------------------------------------------------------------------
(* One exchange, step by step *)

\* Faulty: the initialisation on first use is left to the caller.
WaitForSlaveSelectNoBegin(t) ==
    /\ At(t, "waitForSlaveSelect")
    /\ Goto(t, "checkReady")
    /\ UNCHANGED <<stage, cur, reply, initialized, semVars, txBuffer, spiVars, espVars, calls>>

\* SpiDrv_waitForSlaveSelect: initialise on first use.
WaitForSlaveSelect(t) ==
    /\ At(t, "waitForSlaveSelect")
    /\ IF initialized
       THEN Goto(t, "checkReady") /\ UNCHANGED <<semVars, espVars>>
       ELSE Goto(t, "begin") /\ ResetESP
    /\ UNCHANGED <<stage, cur, reply, initialized, txBuffer, spiVars, calls>>

\* The 770 ms of delays of SpiDrv_begin are over, in which an interrupt that was
\* raised before them has long been handled.
BeginDone(t) ==
    /\ At(t, "begin") /\ ~readyIrq
    /\ initialized' = TRUE
    /\ Goto(t, IF stage[t] = "init" THEN "idle" ELSE "checkReady")
    /\ UNCHANGED <<stage, cur, reply, semVars, txBuffer, spiVars, espVars, calls>>

\* SpiDrv_waitForSlaveReadyTimeout(portMAX_DELAY): look at the line ...
CheckReady(t) ==
    /\ At(t, "checkReady")
    /\ Goto(t, IF ESPBUSY THEN "takeReady" ELSE "spin")
    /\ UNCHANGED <<stage, cur, reply, initialized, semVars, txBuffer, spiVars, espVars, calls>>

\* ... and only if it was busy block until the falling edge.
TakeReady(t) ==
    /\ At(t, "takeReady")
    /\ slaveReadyDetected = "full"
    /\ slaveReadyDetected' = "empty"
    /\ Goto(t, "spin")
    /\ UNCHANGED <<stage, cur, reply, initialized, spiTxCompleted, txBuffer, spiVars,
                   espVars, calls>>

\* Faulty: trusts the semaphore.
SpinDoneAtOnce(t) ==
    /\ At(t, "spin")
    /\ Goto(t, "select")
    /\ UNCHANGED <<stage, cur, reply, initialized, semVars, txBuffer, spiVars, espVars, calls>>

\* while (ESPBUSY_Read()) {}: leave the loop.
SpinDone(t) ==
    /\ At(t, "spin")
    /\ ~ESPBUSY
    /\ Goto(t, "select")
    /\ UNCHANGED <<stage, cur, reply, initialized, semVars, txBuffer, spiVars, espVars, calls>>

\* SpiDrv_spiSlaveSelect: assert chip select ...
Select(t) ==
    /\ At(t, "select")
    /\ CS' = TRUE
    /\ Goto(t, "checkSelected")
    /\ UNCHANGED <<stage, cur, reply, initialized, semVars, txBuffer, rx, shifting, wire,
                   txIrq, espVars, calls>>

\* ... and look at the line again ...
CheckSelected(t) ==
    /\ At(t, "checkSelected")
    /\ Goto(t, IF ESPBUSY THEN "takeSelected" ELSE "put")
    /\ UNCHANGED <<stage, cur, reply, initialized, semVars, txBuffer, spiVars, espVars, calls>>

\* Faulty: no timeout.
TakeSelectedUntimed(t) ==
    /\ At(t, "takeSelected")
    /\ slaveReadyDetected = "full"
    /\ slaveReadyDetected' = "empty"
    /\ Goto(t, "put")
    /\ UNCHANGED <<stage, cur, reply, initialized, spiTxCompleted, txBuffer, spiVars,
                   espVars, calls>>

\* ... if busy, for at most 5 ms: take the semaphore or time out.
TakeSelected(t) ==
    /\ At(t, "takeSelected")
    /\ slaveReadyDetected' = IF slaveReadyDetected = "full" THEN "empty"
                                                           ELSE slaveReadyDetected
    /\ Goto(t, "put")
    /\ UNCHANGED <<stage, cur, reply, initialized, spiTxCompleted, txBuffer, spiVars,
                   espVars, calls>>

\* SPIM_WIFI_PutArray: queue the command, or as many zeros (memset of txBuffer)
\* as reply bytes are wanted.  Bytes queued behind a transfer under way make
\* no frame.
PutArray(t) ==
    /\ At(t, "put")
    /\ txBuffer' = IF stage[t] = "send" THEN txBuffer ELSE Nothing
    /\ wire' = IF shifting THEN Nothing ELSE txBuffer'
    /\ shifting' = TRUE
    /\ Goto(t, "takeTx")
    /\ UNCHANGED <<stage, cur, reply, initialized, semVars, rx, CS, txIrq, espVars, calls>>

\* Faulty: looks at the semaphore and leaves it full.
TakeTxPeek(t) ==
    /\ At(t, "takeTx")
    /\ spiTxCompleted = "full"
    /\ Goto(t, "deselect")
    /\ UNCHANGED <<stage, cur, reply, initialized, semVars, txBuffer, spiVars, espVars, calls>>

\* xSemaphoreTake(spiTxCompleted, portMAX_DELAY).
TakeTx(t) ==
    /\ At(t, "takeTx")
    /\ spiTxCompleted = "full"
    /\ spiTxCompleted' = "empty"
    /\ Goto(t, "deselect")
    /\ UNCHANGED <<stage, cur, reply, initialized, slaveReadyDetected, txBuffer, spiVars,
                   espVars, calls>>

\* SpiDrv_spiSlaveDeselect: the end of either exchange.
Deselect(t) ==
    /\ At(t, "deselect")
    /\ CS' = FALSE
    /\ Goto(t, IF stage[t] = "send" THEN "clear" ELSE "parse")
    /\ UNCHANGED <<stage, cur, reply, initialized, semVars, txBuffer, rx, shifting, wire,
                   txIrq, espVars, calls>>

\* Faulty: the buffers are not cleared.
ReceiveResponseUncleared(t) ==
    /\ At(t, "clear")
    /\ stage' = [stage EXCEPT ![t] = "recv"]
    /\ Goto(t, "waitForSlaveSelect")
    /\ UNCHANGED <<cur, reply, initialized, semVars, txBuffer, spiVars, espVars, calls>>

\* SpiDrv_receiveResponseCmd up to the wait: clear both buffers.
ReceiveResponse(t) ==
    /\ At(t, "clear")
    /\ stage' = [stage EXCEPT ![t] = "recv"]
    /\ ClearBuffers
    /\ Goto(t, "waitForSlaveSelect")
    /\ UNCHANGED <<cur, reply, initialized, semVars, txBuffer, CS, shifting, txIrq, espVars,
                   calls>>

\* Faulty: a command whose reply does not come is sent again.
ParseResending(t) ==
    /\ At(t, "parse")
    /\ IF rx.cmd = cur[t].cmd
       THEN /\ reply' = [reply EXCEPT ![t] = rx]
            /\ Goto(t, "idle") /\ UNCHANGED <<stage, txBuffer>>
       ELSE /\ stage' = [stage EXCEPT ![t] = "send"]
            /\ txBuffer' = cur[t]
            /\ Goto(t, "waitForSlaveSelect") /\ UNCHANGED reply
    /\ rx' = Nothing
    /\ UNCHANGED <<cur, initialized, semVars, CS, shifting, wire, txIrq, espVars, calls>>

\* The parse: the reply is taken only if its header has cmd | REPLY_FLAG.
Parse(t) ==
    /\ At(t, "parse")
    /\ reply' = IF rx.cmd = cur[t].cmd THEN [reply EXCEPT ![t] = rx] ELSE reply
    /\ rx' = Nothing
    /\ Goto(t, "idle")
    /\ UNCHANGED <<stage, cur, initialized, semVars, txBuffer, CS, shifting, wire, txIrq,
                   espVars, calls>>

TaskStep(t) ==
    \/ WaitForSlaveSelect(t) \/ BeginDone(t)
    \/ CheckReady(t) \/ TakeReady(t) \/ SpinDone(t)
    \/ Select(t) \/ CheckSelected(t) \/ TakeSelected(t)
    \/ PutArray(t) \/ TakeTx(t) \/ Deselect(t)
    \/ ReceiveResponse(t) \/ Parse(t)

-----------------------------------------------------------------------------
(* The interrupt handlers *)

\* Faulty: gives the other semaphore.
ReadyInterruptGivesTx ==
    /\ readyIrq
    /\ readyIrq' = FALSE
    /\ spiTxCompleted' = Give(spiTxCompleted)
    /\ UNCHANGED <<taskVars, initialized, slaveReadyDetected, txBuffer, spiVars, ESPBUSY,
                   espPhase, espJob, executed, restarts, calls>>

\* ESP_BUSY_IRQ_Interrupt_InterruptCallback: a falling edge of ESPBUSY.
ReadyInterrupt ==
    /\ readyIrq
    /\ readyIrq' = FALSE
    /\ slaveReadyDetected' = Give(slaveReadyDetected)
    /\ UNCHANGED <<taskVars, initialized, spiTxCompleted, txBuffer, spiVars, ESPBUSY, espPhase,
                   espJob, executed, restarts, calls>>

\* SPIM_WIFI_TX_ISR_EntryCallback with SPI_DONE in the status.
TxInterrupt ==
    /\ txIrq
    /\ txIrq' = FALSE
    /\ spiTxCompleted' = Give(spiTxCompleted)
    /\ UNCHANGED <<taskVars, initialized, slaveReadyDetected, txBuffer, rx, CS, shifting, wire,
                   espVars, calls>>

-----------------------------------------------------------------------------
(* The SPI block and the coprocessor (external) *)

Listening == CS /\ espPhase \in {"cmd", "reply"}

\* ESPBUSY acknowledges a selection before the bytes of the exchange are all
\* clocked; with LateBusy, before those of the following one are.
Acknowledged == CS => \/ ESPBUSY
                      \/ LateBusy /\ espPhase \in {"cmd", "reply"}

\* The last byte is out and as many have come in.  A listening coprocessor has
\* taken the command, or has given its reply; otherwise both directions carry
\* noise.
TransferDone ==
    /\ shifting /\ Acknowledged
    /\ shifting' = FALSE
    /\ txIrq' = TRUE
    /\ \/ /\ Listening /\ espPhase = "cmd" /\ wire # Nothing
          /\ espPhase' = "work" /\ espJob' = wire
          /\ UNCHANGED rx
       \/ /\ Listening /\ espPhase = "cmd" /\ wire = Nothing
          /\ espPhase' = "rearm"
          /\ UNCHANGED <<rx, espJob>>
       \/ /\ Listening /\ espPhase = "reply"
          /\ rx' = IF rx = Nothing THEN espJob ELSE rx
          /\ espPhase' = "rearm" /\ espJob' = Nothing
       \/ /\ ~Listening
          /\ UNCHANGED <<rx, espPhase, espJob>>
    /\ UNCHANGED <<taskVars, initialized, semVars, txBuffer, CS, wire, readyIrq, ESPBUSY,
                   executed, restarts, calls>>

EspRaiseBusy ==
    /\ ~ESPBUSY
    /\ CS \/ espPhase \in {"work", "rearm"}
    /\ ESPBUSY' = TRUE
    /\ UNCHANGED <<taskVars, initialized, semVars, txBuffer, spiVars, readyIrq, espPhase, espJob,
                   executed, restarts, calls>>

\* The command is executed and its reply queued.
EspExecute ==
    /\ espPhase = "work" /\ ESPBUSY /\ ~CS
    /\ espPhase' = "reply"
    /\ executed' = Append(executed, espJob.id)
    /\ ESPBUSY' = FALSE /\ readyIrq' = TRUE
    /\ UNCHANGED <<taskVars, initialized, semVars, txBuffer, spiVars, espJob, restarts, calls>>

\* Ready for the next command: after booting, after a reply, after a frame
\* that was not a command.
EspArm ==
    /\ espPhase \in {"boot", "rearm"} /\ ESPBUSY /\ ~CS
    /\ espPhase' = "cmd"
    /\ ESPBUSY' = FALSE /\ readyIrq' = TRUE
    /\ UNCHANGED <<taskVars, initialized, semVars, txBuffer, spiVars, espJob, executed, restarts,
                   calls>>

EspRestart ==
    /\ espPhase \notin {"off", "boot"} /\ restarts < MaxRestarts
    /\ restarts' = restarts + 1
    /\ espPhase' = "boot" /\ ESPBUSY' = TRUE /\ espJob' = Nothing
    /\ UNCHANGED <<taskVars, initialized, semVars, txBuffer, spiVars, readyIrq, executed, calls>>

EspStep == EspRaiseBusy \/ EspExecute \/ EspArm

-----------------------------------------------------------------------------
Next ==
    \/ \E t \in Tasks :
          \/ \E c \in Cmds : Call(t, c)
          \/ WiFiInit(t) \/ SpiDrvEnd(t) \/ TaskStep(t)
    \/ ReadyInterrupt \/ TxInterrupt
    \/ TransferDone \/ EspStep \/ EspRestart

Spec == Init /\ [][Next]_vars

\* Interrupts are handled, transfers end, the coprocessor comes back from
\* booting and from every command, and FreeRTOS runs a task that can run.
\* Nobody has to call the library, and nothing has to restart.
Fairness ==
    /\ \A t \in Tasks : WF_vars(TaskStep(t))
    /\ WF_vars(ReadyInterrupt) /\ WF_vars(TxInterrupt)
    /\ WF_vars(TransferDone) /\ WF_vars(EspStep)

FairSpec == Spec /\ Fairness

-----------------------------------------------------------------------------
(* Properties *)

\* A reply that a call accepts answers that very call, not an earlier one with
\* the same command code: the header cannot tell them apart, so this rests on
\* the buffers being cleared before each exchange and on the callers' lock.
ReplyIsOwn ==
    \A t \in Tasks : reply[t] \in {Nothing, cur[t]}

\* Chip select stays asserted while bytes are on the wire: the task that takes
\* spiTxCompleted takes the give of its own transfer, never an older one.
ChipSelectSpansTransfer == shifting => CS

\* The check of ESPBUSY and the take that follows it are not atomic, but no
\* falling edge between them is lost: a task blocked in the untimed take while
\* the line is already low has a token, or an interrupt that brings one.
NoLostWakeup ==
    \A t \in Tasks : At(t, "takeReady") /\ ~ESPBUSY =>
                         slaveReadyDetected = "full" \/ readyIrq

\* No task reaches a take of slaveReadyDetected before SpiDrv_begin has made
\* it, whatever the order of WiFi_init, WiFi_end and commands.
CreatedBeforeTaken ==
    \A t \in Tasks : pc[t] \in {"takeReady", "takeSelected"} => slaveReadyDetected # "null"

\* With a coprocessor that acknowledges in time and does not restart, a call
\* never comes back empty-handed, stale semaphore tokens notwithstanding: both
\* exchanges find the coprocessor armed.
NoSpuriousFailure ==
    ~LateBusy /\ restarts = 0 =>
        \A t \in Tasks : At(t, "idle") /\ stage[t] = "recv" => reply[t] = cur[t]

\* Every call comes back, although four of its waits have no timeout.
CallReturns ==
    \A t \in Tasks : ~At(t, "idle") ~> At(t, "idle")

\* A transfer that has ended releases the task that waits for it.
TransferReleases ==
    \A t \in Tasks : At(t, "takeTx") ~> At(t, "deselect")

\* The busy-wait that follows the semaphore take finds the line low at once.
SpinUnreached ==
    \A t \in Tasks : At(t, "spin") => ~ESPBUSY

\* The driver is a command channel: see module CommandChannel.
Channel == INSTANCE CommandChannel WITH
    issued   <- calls,
    pending  <- [t \in Tasks |-> IF At(t, "idle") \/ stage[t] = "init" THEN 0 ELSE cur[t].id],
    answered <- [t \in Tasks |-> reply[t].id]

ImplementsChannel == Channel!Spec

-----------------------------------------------------------------------------
(* The inductive invariant behind ReplyIsOwn, ChipSelectSpansTransfer and    *)
(* NoLostWakeup, for callers that exclude one another.                       *)

Active(t) == ~At(t, "idle")

\* The command of t's call has been clocked out.
Sent(t) ==
    /\ Active(t)
    /\ \/ stage[t] = "recv"
       \/ stage[t] = "send" /\ pc[t] \in {"deselect", "clear"}
       \/ stage[t] = "send" /\ At(t, "takeTx") /\ ~shifting

\* The exchange that fetches the reply has been clocked too.
Fetched(t) ==
    /\ stage[t] = "recv"
    /\ \/ pc[t] \in {"deselect", "parse"}
       \/ At(t, "takeTx") /\ ~shifting

Unsent(t) == Active(t) /\ stage[t] = "send" /\ ~Sent(t)

\* The steps of an exchange that run with chip select asserted.
SelectedLabels == {"checkSelected", "takeSelected", "put", "takeTx", "deselect"}

OneActive == \A t, u \in Tasks : Active(t) /\ Active(u) => t = u

\* Of a transfer under way, its interrupt and its token there is at most one,
\* and only while the task that started the transfer waits for it.
TxHandover ==
    /\ shifting \/ txIrq \/ spiTxCompleted = "full" => \E t \in Tasks : At(t, "takeTx")
    /\ ~(shifting /\ txIrq)
    /\ ~(spiTxCompleted = "full" /\ (shifting \/ txIrq))

SelectHeld == \A t \in Tasks : pc[t] \in SelectedLabels => CS

ReadyCreated ==
    /\ initialized => slaveReadyDetected # "null"
    /\ \A t \in Tasks :
         pc[t] \in {"begin", "checkReady", "takeReady", "spin", "select"} \union SelectedLabels
            => slaveReadyDetected # "null"

\* Which exchange the steps that belong to one kind of exchange are in.
StageOfStep ==
    \A t \in Tasks :
       /\ Active(t) /\ stage[t] = "init" => At(t, "begin")
       /\ At(t, "clear") => stage[t] = "send"
       /\ At(t, "parse") => stage[t] = "recv"

CallMade == \A t \in Tasks : Active(t) /\ stage[t] # "init" => cur[t].cmd \in Cmds

\* The shared transmit buffer and the wire carry the caller's own frame.
OwnFrame ==
    \A t \in Tasks :
       /\ Unsent(t) => txBuffer = cur[t] /\ (shifting => wire = cur[t])
       /\ stage[t] = "recv" /\ At(t, "takeTx") /\ shifting => wire = Nothing

\* The coprocessor never holds an older job once a command has been sent, and
\* an unsent command never meets a coprocessor that is still working.
JobIsCurrent ==
    /\ \A t \in Tasks : Sent(t) /\ espPhase \in {"work", "reply"} => espJob = cur[t]
    /\ \A t \in Tasks : Unsent(t) /\ pc[t] \in {"select"} \union SelectedLabels
                            => espPhase # "work"
    /\ espPhase = "work" /\ ~ESPBUSY => \E t \in Tasks : Sent(t) /\ ~Fetched(t)

RxIsOwn == \A t \in Tasks : Active(t) /\ stage[t] = "recv" => rx \in {Nothing, cur[t]}

IInv ==
    /\ OneActive /\ TxHandover /\ SelectHeld /\ ReadyCreated /\ NoLostWakeup
    /\ StageOfStep /\ CallMade /\ OwnFrame /\ JobIsCurrent /\ RxIsOwn /\ ReplyIsOwn

-----------------------------------------------------------------------------
(* Beyond IInv: what the refinement of CommandChannel and NoSpuriousFailure  *)
(* rest on.                                                                  *)

DoneCalls == {executed[k] : k \in DOMAIN executed}

\* A command is executed at most once, and never before it is sent: what the
\* coprocessor is about to execute it has not executed, what it answers it has.
AtMostOnce ==
    /\ DoneCalls \subseteq 1..calls
    /\ espPhase = "work" => espJob.id \in 1..calls \ DoneCalls
    /\ espPhase = "reply" => espJob.id \in DoneCalls
    /\ rx # Nothing => rx.id \in DoneCalls
    /\ \A t \in Tasks : Active(t) /\ stage[t] # "init" => cur[t].id \in 1..calls
    /\ \A t \in Tasks : Unsent(t) =>
          /\ cur[t].id \notin DoneCalls
          /\ espPhase = "work" => espJob.id # cur[t].id

\* From the end of the wait for a low line to the end of the transfer.
Transferring(t) ==
    \/ pc[t] \in {"select", "checkSelected", "takeSelected", "put"}
    \/ At(t, "takeTx") /\ shifting

\* Past the initialisation on first use there is no second one in the call.
StaysInitialized ==
    \A t \in Tasks :
       \/ Active(t) /\ stage[t] = "recv"
       \/ pc[t] \in {"checkReady", "takeReady", "spin", "select", "clear"} \union SelectedLabels
       => initialized

\* Driver and coprocessor stay in step: a low line means that the coprocessor
\* listens, and it listens for what the exchange under way carries.
InStep ==
    /\ ~ESPBUSY => espPhase \in {"cmd", "reply"}
    /\ espPhase \in {"work", "reply"} <=> \E t \in Tasks : Sent(t) /\ ~Fetched(t)
    /\ \A t \in Tasks : Transferring(t) =>
          espPhase = IF stage[t] = "send" THEN "cmd" ELSE "reply"
    /\ \A t \in Tasks : Fetched(t) => rx = cur[t]

PhaseInv ==
    /\ StaysInitialized
    /\ ~LateBusy /\ restarts = 0 => InStep
=============================================================================
