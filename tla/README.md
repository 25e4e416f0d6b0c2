# WiFiNINA-PSoC in TLA+

WiFiNINA-PSoC drives an ESP32 WiFi coprocessor (NINA firmware) from a PSoC
running FreeRTOS. The library is a stack of C files over one SPI bus: every
operation of the upper layers becomes a *call*, a command frame sent over the
bus and a reply frame fetched by a second exchange. This directory holds TLA+
models of the library, TLC runs that check them on small instances, and proofs
that TLAPS checks for all instances.

## The system

| component | state | operations | interacts with |
|---|---|---|---|
| SPI driver (`spi_drv.c`) | `slaveReadyDetected`, `spiTxCompleted` (binary semaphores), `SpiDrv_initialized`, `txBuffer`, chip select; the receive buffer of the SPI block | `SpiDrv_begin/end`, `sendCmd/sendBuffer`, `receiveResponseCmd/Buffer`, two interrupt handlers | tasks that call it; the SPI block and the coprocessor's ESPBUSY and reset lines |
| Reply parser (in `spi_drv.c`) | the receive buffer, the caller's `tParam` array | `waitSpiChar`, `readAndCheckChar`, `readChar` and the two parses | called at the end of every call |
| Command framing (in `spi_drv.c`) | `txBuffer` | the frame of a command, its padding | called at the start of every call |
| Server driver (`server_drv.c`) | none between calls | one function per socket command; `checkDataSent` polls | SPI driver |
| WiFi driver (`wifi_drv.c`) | caches: SSID, BSSID, MAC, addresses, network list, firmware version | one function per WiFi command; `getHostByName` is two | SPI driver |
| Socket buffers (`WiFiSocketBuffer.c`) | per socket: `data`, `head`, `length` | `available`, `peek`, `read`, `close`, `init`, `deinit` | server driver; heap |
| TCP client (`WiFiClient.c`) | none: the socket number is the caller's | `connect*`, `write`, `read`, `available`, `connected`, `stop` | socket buffers, server driver |
| Connection manager (`WiFi.c`) | none | `begin*`, `beginAP*`, `scanNetworks`: bounded retry loops; the rest forwards | WiFi driver |

What is hard here:

* **Concurrency.** Nothing in the library locks. Any FreeRTOS task may call it,
  two interrupt handlers give the semaphores, and the coprocessor moves ESPBUSY
  on its own. ESPBUSY is read first and the semaphore taken afterwards, so the
  two can disagree in both directions: an edge between the two steps, and a
  token left over from an edge that nobody waited for.
* **Failure.** The coprocessor may acknowledge late, restart, or answer nothing;
  the driver ignores a timed-out acknowledgement and goes on.
* **Matching.** A reply names only the command code. Nothing in a frame says
  which call it answers.
* **Arithmetic on untrusted lengths.** Lengths come from the wire as bytes,
  sizes from the caller as bytes, and one byte is kept for a terminator.
* **Waits.** Four waits have no timeout; the upper layers poll with counters.

What makes each component correct:

* SPI driver: an accepted reply belongs to its call; a command is executed at
  most once; chip select covers every transfer; no wakeup is lost; every call
  returns.
* Parser: no write past a buffer; nothing made up; a well-formed reply is stored
  as sent; the parse ends.
* Framing: the frame fits `txBuffer` and parses back to the parameters.
* Socket buffers: bytes are delivered once, in order, as received; `head` and
  `length` stay inside `data`.
* TCP client: a socket the coprocessor opened is closed or still known to the
  caller; a failure is never returned as a socket.
* Drivers: what a function returns is the coprocessor's answer, or tells that
  there was none.
* Connection manager: a loop ends within its attempts, reports a status it was
  given, and waits for the network its caller asked for; neither the cached SSID
  nor the list of networks is an earlier one.

## The modules

| module | what it is |
|---|---|
| `SpiDrv` | the SPI driver: tasks, interrupt handlers, SPI block and coprocessor interleaved |
| `CommandChannel` | what the SPI driver promises its callers |
| `MCSpiDrv` | small instances of `SpiDrv` |
| `SpiDrvProofs` | proofs about `SpiDrv`: types, and the inductive invariant with serialized callers |
| `ChannelProofs` | proofs that `SpiDrv` implements `CommandChannel`, and that no call fails without cause |
| `ReplyParser` | the parse of a reply, byte by byte |
| `ReplyFrames` | what a well-formed reply is, and what the parse owes for it |
| `MCReplyParser` | small instances of `ReplyParser` |
| `ReplyParserProofs` | proofs about `ReplyParser` |
| `ReplyFrameProofs` | proofs that the parse is the function of `ReplyValues`, and stores well-formed replies |
| `SequenceFacts` | lemmas for the proofs: induction, recursive functions, flattened sequences |
| `ReplyValues` | what a whole reply leaves in the variables of a call, as functions |
| `CommandFrame` | the frame of a command, its length, and how it is read |
| `ServerDrv` | the functions of the server driver: the command each sends, the value it returns for a reply |
| `WiFiDrv` | the same for the WiFi driver, with what each does to a cache |
| `DriverProofs` | proofs about frames and the two drivers |
| `WiFiClient` | TCP clients, socket buffers and their peers, over the drivers |
| `MCWiFiClient` | small instances of `WiFiClient` |
| `WiFiClientProofs` | proofs about `WiFiClient` |
| `WiFi` | the connection manager, the driver's caches and list, the coprocessor's network |
| `PollLoop` | what a bounded retry loop promises its caller |
| `MCWiFi` | small instances of `WiFi` |
| `WiFiProofs` | proofs about `WiFi` |

`SpiDrv` is the concurrency of one call; `ReplyParser` and `CommandFrame` are the
bytes of its two frames. `ReplyValues` condenses the parse into functions, and the
run of the parser checks that the two agree. The drivers are functions over
`ReplyValues` and `CommandFrame`, and `WiFiClient` and `WiFi` are state machines
whose steps are exchanges: that an exchange is atomic there, and its reply the
one to its own command or none, is what `CommandChannel` promises and `SpiDrv` is
shown to keep.

### SpiDrv

A task is at a label (`pc`) of an exchange (`stage`). A call runs through two
exchanges with the same steps:

| action | code |
|---|---|
| `Call` | `SpiDrv_sendCmd` / `sendBuffer` up to the wait: frame built, both buffers cleared |
| `WaitForSlaveSelect`, `ResetESP`, `BeginDone` | the initialisation on first use; `WiFiInit` and `SpiDrvEnd` are the explicit ones |
| `CheckReady`, `TakeReady`, `SpinDone` | `SpiDrv_waitForSlaveReady`: look at ESPBUSY, take the semaphore without a timeout, busy-wait |
| `Select`, `CheckSelected`, `TakeSelected` | `SpiDrv_spiSlaveSelect`: chip select, then wait at most 5 ms; both outcomes of the timed take |
| `PutArray`, `TakeTx`, `Deselect` | queue the bytes, wait for the transmit interrupt, release chip select |
| `ReceiveResponse`, `Parse` | `SpiDrv_receiveResponseCmd` up to its wait, and after its transfer |
| `ReadyInterrupt`, `TxInterrupt` | the two interrupt handlers |

Each access to the line, to a semaphore or to chip select is a step of its own,
so that interrupts and the coprocessor come in between. The SPI block
(`TransferDone`) and the coprocessor (`EspRaiseBusy`, `EspExecute`, `EspArm`,
`EspRestart`) are not in the repository: they are modelled from what the driver
relies on. The coprocessor acknowledges a selection by raising ESPBUSY, executes
a command once chip select is released, and lowers ESPBUSY, an edge for the
interrupt, when it can take the next frame. With `LateBusy` its acknowledgement
may come as late as the end of the following exchange, which is what puts the
two sides out of step.

A frame is the number of its call, a ghost the code does not have, and its
command code. `rx` keeps the oldest reply received, since that is the one the
parse meets first.

`Serialized` says that at most one task is inside the library. The code does not
ensure it; the README of the repository does not ask for it; it is an assumption
of the runs and of the safety proofs, and the mutation of the lock
(`ExclusiveNever`) shows that without it the driver is not correct.
`BeginDone` waits until the handling of the coprocessor's reset edges is over: the
delays of `SpiDrv_begin`, 770 ms together, are longer than any interrupt is pending.

`AppCreatesTxSem` says that the application assigns `spiTxCompleted`, which the
library declares as a global and never creates. `spi_no_tx_semaphore` is the run
without that.

### CommandChannel

Its actions are *issue*, *execute*, *return answered* and *return unanswered*. A
command is executed at most once; a call returns answered only if its own
command has been executed; a call that returns unanswered says nothing.
`ImplementsChannel` is the refinement: a task's pending command is that of `cur`
until it is idle, and the answer is the frame in `reply`.

### ReplyParser

One step per byte taken from the receive buffer. The bytes are arbitrary numbers
below `Byte`, so that data can look like markers; `Byte` is 256 in the code and
8 in the runs, and the wrap of a length below zero is modelled at that width.
`wide` selects `SpiDrv_receiveResponseBuffer`, whose lengths have two bytes.
`stored[p]` is what has been written to the caller's p-th buffer and
`paramLen[p]` the in-out length of the code. `ReplyFrames` states the reference:
the frame of a list of parameters, from the comment at `spi_drv.c:234` and the
order in which the code reads it.

### The drivers: ReplyValues, CommandFrame, ServerDrv, WiFiDrv

A driver function has no state of its own. It is an operator whose value is a
record: `sent`, the command, and `value`, what the caller gets for a reply. A
reply of one parameter is `<<bytes>>`, or `<< >>` when the parse stores nothing.
`Stored` and `Accepted` say what the parse does with one parameter: the last byte
of the caller's variable is kept for the terminator, and the next byte must end
the frame. `Fields` and `Complete` do so for several parameters: after one that
was cut, data is taken for the next length. `ParseIsFunction` and
`OneParameterIsFunction` check both against the parse of `ReplyParser`.

A function with a cache (`WiFiDrv_getCurrentSSID` and the like) takes the bytes
of the cache and returns the new ones; what a local variable held that the code
does not initialise is a parameter (`stack`), over which the models quantify. The
list of networks is cut at the bytes that are clocked for it. The float of
`WiFiDrv_getTemperature` is computed from its bits.

Most answers have exactly the size of their variable, and then lose their last
byte. That decides how the upper layers behave, and `DriverProofs` has a theorem
for each consequence (see below).

`CommandFrame` gives the bytes that `SpiDrv_sendCmd` and `SpiDrv_sendBuffer` put
into `txBuffer`. The code keeps a length in a `uint8` (`uint16`) and copies as many
bytes as that holds, so that of a longer parameter only the length modulo 256
(65536) is sent: `Counted`. `Decode` is the coprocessor's reading, from the layout.
`FrameLength` counts what is written, which nothing in the code compares with the
size of `txBuffer`. `FitsTxBuffer` and
`ReadsBack` are checked at every point where a task sends a command.

### WiFiClient

A step of `WiFiClient` is what a task does up to and including its next
exchange, which is atomic here; other tasks and the peer act between the steps.

| action | code |
|---|---|
| `Connect`, `GetSocket`, `StartClient` | `WiFiClient_connect`, `connectSSL`, `connectSSLHostname` |
| `ConnectHostname` | `WiFiClient_connectHostname`: its two exchanges, and the return of socket 0 behind a failed lookup |
| `Write`, `SendData` | `WiFiClient_write`, up to the test of `ServerDrv_sendData` |
| `Return` | `WiFiClient_connectCommon`: the loop around `WiFiClient_connected`, and the test after it |
| `Query`, `Read`, `Stop`, `Deinit` | the other calls, up to their first exchange |
| `Available`, `GetDataBuf` | `WiFiSocketBuffer_available`: test and allocation, then the exchange and the assignments after it |
| `Deliver`, `Answer` | `WiFiSocketBuffer_read`, `peek`, and `WiFiClient_available` with the result |
| `ConnectedByData`, `AskStatus`, `ConnectedByStatus` | `WiFiClient_connected` |
| `StopClient`, `StopStatus` | `WiFiClient_stop`: the command, and one turn of its loop |
| `CloseBuffer` | `WiFiSocketBuffer_close` |
| `Accept`, `Disconnect`, `Send` | the peers: external |

A byte of data is its number in the order the peer sent it; in a buffer 0 is a
zero byte and `Uninit` one that `malloc` left. `unread` is a ghost: the bytes
stored in a buffer that no read has delivered. `Reliable` says that every
command is executed and every reply arrives intact; without it a reply may be
missing or carry an empty parameter, and a command whose reply the code ignores
may not have been executed. That a loop of polls may end at any count below its
bound stands for polls that take longer than their delays. Allocation succeeds.
The coprocessor's table has all sockets, but tasks only ever name socket 0. The
two exchanges of a lookup are one step, since the second is never reached.

### WiFi and PollLoop

| action | code |
|---|---|
| `BeginNetwork`, `Set`, `Poll` | `WiFi_begin_open`, `_WEP`, `_passphrase`, `WiFi_beginAP_*`: the exchange that sets the network, then one turn of `WiFi_begin_common` or `WiFi_beginAP_common` at a time |
| `ScanNetworks`, `StartScan`, `GetScan` | `WiFi_scanNetworks`: the same with its list |
| `Query`, `Ask` | `WiFi_SSID`, `_BSSID`, `_macAddress`, `_firmwareVersion`, `_localIP`, `_subnetMask`, `_gatewayIP`: an exchange over a cache |
| `Settings`, `SendSetting` | `WiFi_setLEDs`, `_config_*`, `_setDNS*`, `_setHostname`, `_lowPowerMode`, `_noLowPowerMode`: lists of commands whose replies are ignored |
| `WiFi_disconnect`, `Leave` | `WiFi_disconnect` |
| `Restart` | `WiFi_end`, `WiFi_init`: the coprocessor forgets its network, the caches stay |
| `Finish` | the return to the caller |
| `Air` | external: networks come and go, the coprocessor loses its own |

`cache` and `list` are the driver's static variables; `attempts` and `status` the
locals of a call, at their width: `attempts` is a `uint8` that is counted down
before it is tested, and `WiFi_scanNetworks` returns its `uint8` as an `int8`.
`conf` is the network that the coprocessor has been told to set up. It learns its
name by decoding the frame, so that framing is part of what `PollsOwnNetwork`
depends on. The coprocessor may take a network or refuse it. It may answer a poll
with any status it has for a station, at any time; the run is about what the
driver makes of it. As in `WiFiClient`, without `Reliable` a reply may be missing
or carry an empty parameter.

`PollLoop` is the abstract specification of the three loops: per task, the
answers after which the loop goes on, how many it has had, and the last of them.
Its `Spec` says that a loop asks at least once and at most `MaxAsked` times, goes on
only after an undecided answer, and returns the last one. `ImplementsPollLoop` is
the refinement: `asked` is the attempts used up, and `undecided` is empty outside
a loop.

## The runs

| run | shows |
|---|---|
| `spi_sync` | two serialized tasks, three calls, one restart, timely acknowledgements: types; no lost wakeup; chip select covers transfers; the semaphore exists when taken; without a restart driver and coprocessor stay in step (`PhaseInv`) and every call is answered, stale tokens notwithstanding |
| `spi_late` | late acknowledgements and a restart, four calls of the same command: replies are the caller's own; a command is executed at most once; the inductive invariant; the refinement of `CommandChannel`; every call returns |
| `spi_spin` | finding: the busy-wait marked "Shouldn't happen" is reached, on a token that a completed exchange left |
| `spi_no_tx_semaphore` | finding: a transfer never releases its task |
| `reply_parse` | the parse: bounds, terminators, nothing made up, each parameter read from where the one before it ended, well-formed replies stored as sent, nothing of the caller's touched by a reply without a header, agreement with the functions of `ReplyValues`, termination; and the two inductive invariants behind them, `FromWire` and `ParsePosition` |
| `reply_exact_fit` | finding: a parameter as long as its buffer is cut, and the reply refused |
| `client_stream` | two serialized tasks and a peer, exchanges that fail: types; reads inside the block and the block still there; no stored byte overwritten or skipped; what a write sends is read as meant; every call returns |
| `client_connect` | finding: with every exchange intact, a connect returns a socket that is still being connected |
| `client_count` | finding: with every exchange intact, bytes that were never received are counted as available |
| `wifi_calls` | two serialized tasks over exchanges that fail, in changing air: types; a loop waits for its own network; every command fits and is read as meant; the SSID and the list are never earlier ones; the loops implement `PollLoop`; every call returns |
| `wifi_begin` | finding: with every exchange intact, `WiFi_begin_open` reports a failure for a network that the coprocessor took from this very call |
| `wifi_addresses` | finding: with every exchange intact, `WiFi_subnetMask` returns bytes of the reply's framing |

In `spi_spin` the first of two calls runs through both its exchanges. The wait for
its reply finds ESPBUSY low and takes nothing, so that the token of the edge that
ended its command stays; the second call finds the line high, takes that token at
once, and waits busily. An action constraint, `BootsSlowly`, lets the coprocessor
boot only when a task blocks on its line, later than the delays of `SpiDrv_begin`:
the edge that ends the booting is then awaited, and is not the one that leaves the
token. There is one task and no restart.

**Bounds.** Two tasks are enough for every interference the model has: a third
would be idle whenever the lock is held. Three calls let a stale token or a
stale reply of the first reach the third; four with one command code, in
`spi_late`, let a reply be late by two calls. One restart can fall on any step
of any of them. In the parser's runs bytes are below 8 with 4 to 7 as markers;
every tail of five bytes behind a good header, every stream of up to three
bytes, and frames of up to two parameters of up to two bytes, with up to
`TIMEOUT_CHAR` (3 for 1000) bytes before them, are parsed into buffers of 1 to 3
bytes by both functions. Five bytes are the shortest tail that holds a count,
two parameters and an end, and the buffers are both shorter and longer than the
lengths that occur. In the client's runs a buffer has 4 bytes and a reply 2
before its data, for 255 and 5: as in the code, a full reply is longer than what
is clocked, so that its end is read as zeros. Reads of 1 and of 3 bytes leave
something in a buffer, empty it, and ask for more than it has. The three bytes
sent come over as one, two or three fetches. Writes have 1 byte, and the 243 that
just fit into `txBuffer`. One poll of a connect and two of a
stop reach every branch of the two loops; more only repeat a turn.

In the manager's runs a row of the list, or of the SSID's cache, has 4 bytes: of
the two names one has three bytes, as much as a row keeps, and one has one byte,
so that a shorter name follows a longer one. The list has two rows, and 10 bytes
are clocked for it: a scan of one network fits, of two the end does not. Three
attempts give a first, a middle and a last turn. The cached values asked for are
the SSID, the BSSID and the addresses; the MAC address and the firmware version
are cached as the BSSID is, and left out. A variable that is not set holds 0 or
200, an undecided scan count and one that is negative as an `int8`.

**Fairness.** `FairSpec` assumes that FreeRTOS runs a task that can run, that
interrupts are handled, that a transfer ends, and that the coprocessor goes on
serving: it boots, and it lowers ESPBUSY after each command and reply. Nobody
has to make a call, and a restart never has to happen. No fairness is assumed of
the semaphores beyond what FreeRTOS gives a single waiter. The parse is one
task's sequential code; weak fairness of its step is that the task runs. So it is
in `WiFiClient` and in `WiFi`, for each task: peers and networks need not answer,
and exchanges may fail for ever. Every exchange ends, which is `CallReturns` of
`SpiDrv`.

**Deadlock** is checked in the passing runs: a state in which every task is idle
is no deadlock, since `WiFi_init` remains possible. `spi_no_tx_semaphore` turns
the check off, because being stuck is what it shows.

## The proofs

`TypeCorrect` holds for all constants. The other theorems of `SpiDrvProofs`
assume `Serialized` and hold for any number of tasks, commands, calls and
restarts, with `LateBusy` or without. The properties are not inductive: that a
reply is the caller's own depends on what the coprocessor works on, which
depends on what was on the wire, which depends on the shared `txBuffer` being
left alone and on the transfer's token being taken by its own exchange. `IInv`
says these things, one conjunct each:

* `OneActive`: one task in the driver;
* `TxHandover`: of a transfer, its interrupt and its token at most one exists,
  and only while a task waits for it;
* `SelectHeld`, `ReadyCreated`, `NoLostWakeup`: lines and semaphores;
* `OwnFrame`: `txBuffer`, and the wire during a transfer, carry the caller's
  frame;
* `JobIsCurrent`: a coprocessor at work, or with a reply, has the caller's
  command once that has been sent; and an unsent command never meets one at work;
* `RxIsOwn`, `ReplyIsOwn`: so does the receive buffer, and so the reply;
* `StageOfStep`, `CallMade`: bookkeeping.

`InvariantStep` takes the actions one by one and, under each, the conjuncts that
it disturbs. `RepliesAreOwn`, `ChipSelectHeld`, `NoWakeupLost` and
`TakesAfterCreate` follow.

`ChannelProofs` builds on `IInv`, with two more invariants that TLC checks too:

* `AtMostOnce` (`AtMostOnceInvariant`): what the coprocessor is about to execute
  it has not executed yet, what it answers it has, and a command not yet sent is
  neither executed nor at work. A step of the driver is then a step of
  `CommandChannel` or none: `EspExecute` is *execute*, `Parse` returns answered
  only with the reply that `RxIsOwn` says is its own, and everything in between
  stutters. `ChannelImplemented` is the refinement, for any number of tasks,
  calls and restarts and with acknowledgements as late as the model has them.
* `PhaseInv` (`PhaseInvariant`), of a coprocessor that acknowledges in time and
  has not restarted: a low ESPBUSY means that it listens, and while a task is
  past its wait for the line it listens for the kind of frame that is under way
  (`InStep`). That needs that the initialisation on first use is not repeated in
  the middle of a call (`StaysInitialized`). The busy-wait behind the take is
  what makes it true in spite of stale tokens: without it (`SpinDoneAtOnce`) it
  fails. `NeverSpurious` follows: every call finds its reply.

`ReplyParserProofs` proves, for all receive buffers, all sizes of buffers and
both functions, types (`TypeCorrect`), that nothing is written past a buffer of
at least one byte (`NoOverrun`) and that an accepted reply has set everything its
callers read (`AcceptedIsTerminated`). `ParseInv` splits the parameters into
finished ones, the one at hand and untouched ones. `FromWire`
(`StoredWasReceived`) says that, while bytes are left, each finished parameter is
a run of the bytes received; a parse that ran out of bytes reads zeros, and so
does not find END_CMD; hence `AcceptedWasReceived`.

`ReplyFrameProofs` is about where the parse is. `ParsePosition`
(`PositionInvariant`) ties every state of it to a place in the bytes received:
the search to the noise before the header, each parameter to `Places`, which adds
up the lengths that the reply claims and the buffers clip, and the end to the
byte behind the last. From it follow `ParseIsTheFunction`, that the parse returns
and stores what `ReplyValues` says; `RepliesAreStored`, that a well-formed reply
which is clocked in whole and fits is accepted as it was sent, since then the
`Places` are those of the frame; and `OneParameterIsTheFunction`. The
constants are any that `ReplyParser` and `PayloadsAssumption` allow: any number
of values of a byte, of parameters, and of bytes in each. `HeaderlessIsRefused` is
the other half: without a header in time the parse is refused and leaves the
caller's parameters, lengths and count as they were, which is why a driver that
ignores the result sees its own variables (`<< >>` in `ReplyValues`). Its invariant,
`HeaderNotFound`, follows the search, in which a byte that was made up, a zero, is
never a marker.

`DriverProofs` proves, for every reply, what the drivers return. `OneByteLost`: a
variable of one byte is filled by the terminator, whatever the answer. It follows
that `ServerDrv_getSocket` and `ServerDrv_sendData` return 0
(`GetSocketReturnsZero`, `SendDataReturnsZero`), that a client's state is lost
(`ClientStateNeverTold`), that setting an open network fails
(`SetNetworkFails`), that a connection's status is 0, or -1 without a reply
(`StatusNeverTold`), and that lookups fail (`LookupFails`, and with it
`PingByNameFails` of `WiFiProofs`). `FourthByteLost`: an answer of four bytes
keeps three; so an RSSI loses its sign (`RssiSignLost`), a temperature is 0
(`TemperatureZero`), and the mask begins with a length (`MaskIsMisread`).
`RssiIndexZero` has another cause: the function awaits the reply to another
command. About frames: they are whole words (`FrameIsWords`), and a write, a
passphrase and a host name stay inside `txBuffer` exactly if their lengths, as the
code counts them, are at most those in `SendFits`, `PassphraseFits` and
`HostnameFits`, which no caller checks: a host name of 248 to 255 bytes runs past
the end, and of one of 256 bytes nothing is sent, since its `uint8` length is 0. And
`FramesReadBack`: whatever the parameters, if their number and lengths fit into
the bytes that the frame has for them, the coprocessor decodes from the frame the
command that was meant.

`WiFiClientProofs` proves, for any number of tasks and sockets, all sizes, and
whatever is lost, that a read copies from inside an allocated block
(`ReadsInBounds`), in spite of lengths that count what was never received.
That `head + length` stays inside the block needs that a fetch happens only on
an empty buffer, and that the block is still there needs that nobody closes the
socket between the test and the end of the exchange. Hence `ClientInv`: one task
in a call, a task in a call has a socket, a task in a fetch owns an allocated,
empty block. `NoByteSkipped` adds `NoneSkipped`: a byte not yet delivered is one of
the `length` bytes from `head` on, which a read shortens only by those that it
delivers; a fetch, which happens only when `length` is 0, then overwrites none.
`ClientTypeCorrect` does not need serialized callers; `ClientInvariant`,
`ReadsInBounds` and `NoByteSkipped` do, and the mutation of the lock shows it.
`WritesAreFramed` says the same of what a write sends as `SendFits` and
`FramesReadBack` of any command: of 1 to 243 bytes (`WritesFit`) it fits, and is
read as it was meant.

`WiFiProofs` proves, for any number of tasks, names, rows, attempts below 256 and
whatever is lost:

* `ManagerLoops`: the loops implement `PollLoop`. The invariant is `LoopInv`:
  types, where a task is tells its kind of call, and attempts are left in a loop.
  `LoopStep` classifies each step of a task as outside a loop, a start, a turn or
  an end, and `MapsStep` maps each of the four.
* `OwnNetwork`: with `Serialized`, a loop whose driver call tells a refusal waits
  for its own network. `OwnInv` adds that one task is in a call and that a task
  about to set a network has a name.
* `SsidIsCurrent`: `WiFi_SSID` returns the current network's name, the beginning
  of it, or none. `SsidInv` adds that the cache is a row of its length, since the
  parse writes over what is there and only the clearing makes that right.
* `ManagerTypeCorrect`, with `TypeInv`: among other things, the rows of the list
  stay bytes for whatever lengths a reply claims.

* `ManagerCommandsFramed`: every command that any call is about to send fits, and
  is read as it was meant. `CommandInv` says that a task about to set a network
  has a name and that what is left of a call of settings are commands that fit,
  one at least.
* `ScanListIsCurrent`: after a poll of a scan every row is what was clocked of the
  name at its place in this scan, or empty. The list is cut in the middle
  wherever `LIST_CLOCKED` falls; a name behind the cut has its place behind it
  too, and there a length is read as 0 (`ListParsed`, `RowIsCut`).

What they assume of the constants is named: `NamesFit` (SSIDs of at most 239
bytes, which an SSID of 32 is; with a key a frame of them still fits),
`ScriptsAreSettings` (a call of settings is one of those of `WiFi.c`, with host
names of at most 247 bytes), `SsidIsReported` (the coprocessor reports the SSID as
it is) and `NamesFitRows`. The last one is a real limit: a row has 32 bytes, one
of them for the terminator, and of an SSID of 32 bytes the parse drops a byte and
then takes data for the next length, as `reply_exact_fit` shows; the names behind
it are then not where they are expected, and rows hold something else.

**Induction.** The library's induction theorems take an operator as a parameter,
which the provers cannot instantiate. `SequenceFacts` goes round them:
`InductionUpTo` is induction for a *set* of numbers, from the well-foundedness of
the naturals (`LeastNumber`), and `RecursionExists` gives the function that a
recursive equation defines. `FlattenedAt` says where the parts of a flattened
sequence are, which `FramesReadBack`, `RepliesAreStored` and the list of a scan
rest on.

Only model-checked is liveness, `CallReturns`, `Terminates`, `ClientCallReturns`
and `ManagerCallReturns`, which is out of the prover's reach: it needs ENABLED and
fairness. Every invariant, action property and refinement of the passing runs is
a theorem.

## Not modelled, and the plan

What is left to prove are the steps to liveness that need no fairness: that each
wait is followed by a state in which its condition holds or the coprocessor has
work left, and that the counters of the loops decrease. And what `WiFiClient`
promises of the order in which bytes are delivered, which is not stated as a
property of its own.

Not modelled:

* `ServerDrv_checkDataSent`. Nothing reaches it: `WiFiClient_write` calls it only
  behind a `ServerDrv_sendData` that did not return 0, which never happens
  (`SendDataReturnsZero`). Behind a repaired `sendData`, its second poll would
  offer the parse a buffer of no bytes, which then writes past a variable on the
  stack; what that hits is the compiler's choice.
* Writes behind variables of one byte for which the code names four bytes, or two
  (`WiFiDrv_setPowerMode`, `wifiSetApNetwork`, `wifiSetApPassphrase`, `debug`):
  taken to hit nothing that is used again.
* A heap that runs out: semaphores that each `SpiDrv_begin` allocates, and the
  result of `malloc` in the socket buffers.
* Temperatures outside an `int16`, for which the conversion is undefined.
* Calls with a socket number of 255 (`WiFiClient_read`, `peek`): the models'
  callers do not read from a socket they do not have.
* The forwarding functions of `WiFi.c` and `WiFiClient.c` (signal strength,
  encryption, channel, time, remote address), as state machines: they are the
  functions of `WiFiDrv`. The modes of encryption and authentication are values
  that the code passes on.
* FreeRTOS, the PSoC component library and the firmware of the coprocessor, which
  are not in the repository and appear as external actions; the drain of the
  transmit FIFO in the middle of an array, which depends on the configuration of
  the SPI component.

`PollsOwnNetwork` speaks of the open network and of the access point without a
passphrase only. For a refusal `WiFiDrv_wifiSetApPassphrase` returns the byte 255,
which is not `WL_FAILURE`, and `wifiSetKey` and `wifiSetPassphrase` return 0 for an
empty answer, so that the loops behind them start whatever the coprocessor said. That is the code's behaviour; no document
of it promises otherwise, and the loop still ends (`ImplementsPollLoop`).
