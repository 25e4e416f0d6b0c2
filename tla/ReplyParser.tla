---------------------------- MODULE ReplyParser -----------------------------
(***************************************************************************)
(* The parse of a reply: SpiDrv_receiveResponseCmd and                     *)
(* SpiDrv_receiveResponseBuffer from the moment their transfer is over,    *)
(* one step per byte (or, for a 16-bit length, two) taken from the receive *)
(* buffer.  The bytes are whatever the coprocessor sent; the caller gives  *)
(* the buffers, and their sizes in paramLen (dataLen in the second         *)
(* function), which the parse overwrites with the lengths it stored.       *)
(*                                                                         *)
(* Bytes are numbers below Byte, 256 in the code and less in a small       *)
(* instance, so that a byte of data can look like any marker, and lengths  *)
(* wrap as uint8 (uint16) arithmetic does.                                 *)
(***************************************************************************)
EXTENDS Naturals, Sequences

CONSTANTS
    Byte,             \* number of values of a byte
    START, ERR, END,  \* START_CMD, ERR_CMD, END_CMD
    REPLY,            \* cmd | REPLY_FLAG, for the command of the call
    TIMEOUT_CHAR,     \* how many bytes the start is searched for
    Inputs            \* the calls: what is received, and the caller's arguments

\* A call: the receive buffer, the sizes of the caller's buffers (the array has
\* maxNumParams entries), and which of the two functions is called.
Input == [rx : Seq(0..Byte-1), size : Seq(Nat), wide : BOOLEAN]

ASSUME ConstantsAssumption ==
    /\ Byte \in Nat \ {0}
    /\ {START, ERR, END, REPLY} \subseteq 1..Byte-1
    /\ TIMEOUT_CHAR \in Nat
    /\ Inputs \subseteq Input

VARIABLES
    call,             \* the call, as it was made
    pc,               \* "start", "cmd", "numParam", "len", "data", "end" or "done"
    rx,               \* what is left in the receive buffer
    timeout,          \* bytes that may still be skipped
    numParamRead,     \* *numParamRead once it is assigned, else << >>
    i,                \* the parameter at hand
    len,              \* its length
    stored,           \* per parameter: the bytes written to the caller's buffer
    paramLen,         \* per parameter: paramLen in the caller's array
    ret               \* the result

vars == <<call, pc, rx, timeout, numParamRead, i, len, stored, paramLen, ret>>

\* uint8 is the type of paramLen, uint16 that of dataLen.
Width == IF call.wide THEN Byte * Byte ELSE Byte

maxNumParams == Len(call.size)
numParam     == numParamRead[1]

\* SpiDrv_readChar: zero when there is nothing to read.
readChar(buf) == IF buf = << >> THEN 0 ELSE Head(buf)
Consume(buf)  == IF buf = << >> THEN << >> ELSE Tail(buf)

Return(r) == pc' = "done" /\ ret' = r

Init ==
    /\ call \in Inputs
    /\ pc = "start" /\ rx = call.rx /\ timeout = TIMEOUT_CHAR
    /\ numParamRead = << >>
    /\ i = 1 /\ len = 0
    /\ stored = [p \in 1..Len(call.size) |-> << >>]
    /\ paramLen = call.size
    /\ ret = 0

\* Faulty variants of the operations, for the mutation runs.

WaitStartNoTimeout ==
    /\ pc = "start"
    /\ rx' = Consume(rx)
    /\ pc' = IF readChar(rx) \in {START, ERR} THEN "cmd" ELSE "start"
    /\ UNCHANGED <<call, timeout, numParamRead, i, len, stored, paramLen, ret>>

WaitStartPreDecrement ==
    /\ pc = "start"
    /\ rx' = Consume(rx)
    /\ \/ /\ readChar(rx) \in {START, ERR}
          /\ pc' = "cmd" /\ UNCHANGED <<timeout, ret>>
       \/ /\ readChar(rx) \notin {START, ERR} /\ timeout > 1
          /\ timeout' = timeout - 1 /\ UNCHANGED <<pc, ret>>
       \/ /\ readChar(rx) \notin {START, ERR} /\ timeout <= 1
          /\ Return(0) /\ UNCHANGED timeout
    /\ UNCHANGED <<call, numParamRead, i, len, stored, paramLen>>

CheckCmdUnchecked ==
    /\ pc = "cmd"
    /\ rx' = Consume(rx)
    /\ pc' = "numParam"
    /\ UNCHANGED <<call, timeout, numParamRead, i, len, stored, paramLen, ret>>

ClipCountMissing(n) == n

ClipLenNoTerminator(n, size) == IF n > size THEN size ELSE n

CheckEndUnchecked ==
    /\ pc = "end"
    /\ rx' = Consume(rx)
    /\ Return(1)
    /\ UNCHANGED <<call, timeout, numParamRead, i, len, stored, paramLen>>

\* SpiDrv_waitSpiChar(START_CMD), one turn of its loop.  It returns -1 for
\* ERR_CMD, which its caller takes for success like any other non-zero value.
WaitStart ==
    /\ pc = "start"
    /\ rx' = Consume(rx)
    /\ \/ /\ readChar(rx) \in {START, ERR}
          /\ pc' = "cmd" /\ UNCHANGED <<timeout, ret>>
       \/ /\ readChar(rx) \notin {START, ERR} /\ timeout > 0
          /\ timeout' = timeout - 1 /\ UNCHANGED <<pc, ret>>
       \/ /\ readChar(rx) \notin {START, ERR} /\ timeout = 0
          /\ Return(0) /\ UNCHANGED timeout
    /\ UNCHANGED <<call, numParamRead, i, len, stored, paramLen>>

CheckCmd ==
    /\ pc = "cmd"
    /\ rx' = Consume(rx)
    /\ IF readChar(rx) = REPLY THEN pc' = "numParam" /\ UNCHANGED ret
                               ELSE Return(0)
    /\ UNCHANGED <<call, timeout, numParamRead, i, len, stored, paramLen>>

\* No more parameters than the caller has room for.
ClipCount(n) == IF n > maxNumParams THEN maxNumParams ELSE n

ReadNumParam ==
    /\ pc = "numParam"
    /\ rx' = Consume(rx)
    /\ numParamRead' = <<ClipCount(readChar(rx))>>
    /\ IF numParamRead'[1] = 0 THEN Return(0)
                               ELSE pc' = "len" /\ UNCHANGED ret
    /\ UNCHANGED <<call, timeout, i, len, stored, paramLen>>

\* A length leaves room for the terminator; the subtraction wraps at zero.
LessOne(size) == IF size = 0 THEN Width - 1 ELSE size - 1

ClipLen(n, size) == IF n >= size THEN LessOne(size) ELSE n

ReadLen ==
    /\ pc = "len"
    /\ LET low == Consume(rx) IN
       IF call.wide
       THEN /\ len' = ClipLen(readChar(rx) * Byte + readChar(low), paramLen[i])
            /\ rx' = Consume(low)
       ELSE /\ len' = ClipLen(readChar(rx), paramLen[i])
            /\ rx' = low
    /\ pc' = "data"
    /\ UNCHANGED <<call, timeout, numParamRead, i, stored, paramLen, ret>>

Write(b) == stored' = [stored EXCEPT ![i] = Append(@, b)]

\* Faulty: the test that a byte is there takes one too.
ReadDataTwice ==
    /\ pc = "data" /\ Len(stored[i]) < len
    /\ Write(readChar(Consume(rx)))
    /\ rx' = Consume(Consume(rx))
    /\ UNCHANGED <<call, pc, timeout, numParamRead, i, len, paramLen, ret>>

ReadData ==
    /\ pc = "data" /\ Len(stored[i]) < len
    /\ Write(readChar(rx))
    /\ rx' = Consume(rx)
    /\ UNCHANGED <<call, pc, timeout, numParamRead, i, len, paramLen, ret>>

TerminateKeepingLen ==
    /\ pc = "data" /\ Len(stored[i]) >= len
    /\ Write(0)
    /\ i' = i + 1
    /\ pc' = IF i < numParam THEN "len" ELSE "end"
    /\ UNCHANGED <<call, rx, timeout, numParamRead, len, paramLen, ret>>

Terminate ==
    /\ pc = "data" /\ Len(stored[i]) >= len
    /\ Write(0)
    /\ paramLen' = [paramLen EXCEPT ![i] = len]
    /\ i' = i + 1
    /\ pc' = IF i < numParam THEN "len" ELSE "end"
    /\ UNCHANGED <<call, rx, timeout, numParamRead, len, ret>>

CheckEnd ==
    /\ pc = "end"
    /\ rx' = Consume(rx)
    /\ Return(IF readChar(rx) = END THEN 1 ELSE 0)
    /\ UNCHANGED <<call, timeout, numParamRead, i, len, stored, paramLen>>

Done == pc = "done" /\ UNCHANGED vars

Next ==
    \/ WaitStart \/ CheckCmd \/ ReadNumParam \/ ReadLen
    \/ ReadData \/ Terminate \/ CheckEnd
    \/ Done

Spec     == Init /\ [][Next]_vars
FairSpec == Spec /\ WF_vars(Next)

-----------------------------------------------------------------------------
(* Properties *)

Params == 1..maxNumParams

TypeOK ==
    /\ call \in Input
    /\ pc \in {"start", "cmd", "numParam", "len", "data", "end", "done"}
    /\ rx \in Seq(0..Byte-1)
    /\ timeout \in 0..TIMEOUT_CHAR
    /\ numParamRead \in {<< >>} \union {<<n>> : n \in 0..maxNumParams}
    /\ i \in 1..maxNumParams+1
    /\ len \in Nat
    /\ stored \in [Params -> Seq(0..Byte-1)]
    /\ paramLen \in [Params -> Nat]
    /\ ret \in {0, 1}

\* No caller passes a buffer of size zero on purpose.
HasRoom == \A p \in Params : call.size[p] > 0

\* Whatever bytes arrive, nothing is written past the end of a buffer, the
\* terminator included (the only bound on what the coprocessor may send is
\* the clip of numParam and of len).
InBounds == HasRoom => \A p \in Params : Len(stored[p]) <= call.size[p]

\* A reply that is accepted has set everything the callers read without looking
\* further: *numParamRead, and each parameter's zero-terminated text and length.
Terminated ==
    pc = "done" /\ ret = 1 =>
       /\ numParamRead # << >> /\ numParam > 0
       /\ \A p \in 1..numParam :
             Len(stored[p]) = paramLen[p] + 1 /\ stored[p][paramLen[p] + 1] = 0

\* An accepted reply was received whole: its parameters are runs of bytes that
\* came in, not the zeros readChar makes up when the reply was longer than the
\* bytes clocked for it.
NothingMadeUp ==
    pc = "done" /\ ret = 1 =>
       \A p \in 1..numParam : \E k \in 0..Len(call.rx) :
          /\ k + paramLen[p] < Len(call.rx)
          /\ \A b \in 1..paramLen[p] : stored[p][b] = call.rx[k + b]

(* The inductive invariant behind InBounds and Terminated. *)

\* The parameters from i on are untouched, but for what ReadData has stored.
Pending ==
    \A p \in Params :
       /\ p >= i => paramLen[p] = call.size[p]
       /\ p > i \/ (p = i /\ pc # "data") => stored[p] = << >>

\* Those before i are terminated, within their buffers.
Finished ==
    \A p \in Params : p < i =>
       /\ Len(stored[p]) = paramLen[p] + 1 /\ stored[p][paramLen[p] + 1] = 0
       /\ HasRoom => paramLen[p] < call.size[p]

\* The one at hand is one that was announced, and no longer than it may be.
InProgress ==
    /\ pc \in {"start", "cmd", "numParam"} => i = 1
    /\ pc \in {"len", "data"} => numParamRead # << >> /\ i <= numParam
    /\ pc = "data" => Len(stored[i]) <= len /\ (HasRoom => len < call.size[i])

\* All of them are done before the reply can be accepted.
Complete ==
    pc = "end" \/ ret = 1 => numParamRead # << >> /\ numParam > 0 /\ i = numParam + 1

ParseInv == Pending /\ Finished /\ InProgress /\ Complete

(* The inductive invariant behind NothingMadeUp. *)

Taken == Len(call.rx) - Len(rx)

\* The first n bytes of parameter p are those received from position k on.
Received(p, k, n) == \A b \in 1..n : stored[p][b] = call.rx[k + b]

\* While bytes are left in the receive buffer, none has been made up: every
\* finished parameter is a run of bytes received, and the one at hand is the
\* run that has just been read.
FromWire ==
    /\ Len(rx) <= Len(call.rx)
    /\ \A b \in 1..Len(rx) : rx[b] = call.rx[Taken + b]
    /\ rx # << >> => \A p \in Params :
          /\ p < i => \E k \in 0..Len(call.rx) :
                k + paramLen[p] <= Taken /\ Received(p, k, paramLen[p])
          /\ p = i /\ pc = "data" =>
                Len(stored[p]) <= Taken /\ Received(p, Taken - Len(stored[p]), Len(stored[p]))

\* The parse ends, although neither loop is bounded by the bytes received.
Terminates == <>(pc = "done")
=============================================================================
