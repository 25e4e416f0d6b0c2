---------------------------- MODULE ReplyFrames -----------------------------
(***************************************************************************)
(* What a reply is (the comment above SpiDrv_sendCmd, spi_drv.c:234-239,   *)
(* read with the parse), and what the parse owes the caller of one: the    *)
(* reference that ReplyParser is checked against.                          *)
(***************************************************************************)
EXTENDS ReplyParser, SequencesExt

CONSTANT Payloads     \* lists of parameters, each a sequence of bytes

ASSUME PayloadsAssumption == Payloads \subseteq Seq(Seq(0..Byte-1))

LenBytes(n, wide) == IF wide THEN <<n \div Byte, n % Byte>> ELSE <<n>>

Frame(ps, wide) ==
    <<START, REPLY, Len(ps)>>
    \o FlattenSeq([p \in DOMAIN ps |-> LenBytes(Len(ps[p]), wide) \o ps[p]])
    \o <<END>>

\* The bytes clocked in for call c hold the frame of ps, after at most
\* TIMEOUT_CHAR bytes that do not look like a start.
Holds(c, ps) ==
    \E k \in 0..TIMEOUT_CHAR :
       /\ k <= Len(c.rx)
       /\ \A b \in 1..k : c.rx[b] \notin {START, ERR}
       /\ IsPrefix(Frame(ps, c.wide), SubSeq(c.rx, k + 1, Len(c.rx)))

\* ps is what the call was answered with, and was stored as it came.
StoredAsSent(ps) ==
    /\ ret = 1 /\ numParamRead = <<Len(ps)>>
    /\ \A p \in DOMAIN ps : stored[p] = ps[p] \o <<0>> /\ paramLen[p] = Len(ps[p])

\* A well-formed reply is accepted and stored as it was sent, provided every
\* parameter leaves room for the terminator and the reply was clocked in whole.
RoundTrip ==
    pc = "done" =>
       \A ps \in Payloads :
          /\ Holds(call, ps) /\ Len(ps) \in Params
          /\ \A p \in DOMAIN ps : Len(ps[p]) < call.size[p]
          => StoredAsSent(ps)

\* A parameter as long as the buffer the caller names for it, as an address of
\* WL_MAC_ADDR_LENGTH bytes is, is stored whole.
ExactFit ==
    pc = "done" =>
       \A ps \in Payloads :
          /\ Holds(call, ps) /\ Len(ps) \in Params
          /\ \A p \in DOMAIN ps : Len(ps[p]) = call.size[p]
          => \A p \in DOMAIN ps : IsPrefix(ps[p], stored[p])
-----------------------------------------------------------------------------
(* The parse as one function of the bytes received, for the drivers. *)

Values == INSTANCE ReplyValues WITH END_CMD <- END

\* The number of bytes before the header, if one is found in time.
Noise(c) ==
    {k \in 0..TIMEOUT_CHAR :
        /\ k + 3 <= Len(c.rx)
        /\ c.rx[k + 1] \in {START, ERR} /\ c.rx[k + 2] = REPLY
        /\ \A b \in 1..k : c.rx[b] \notin {START, ERR}}

\* Whatever the bytes behind a header, the parse leaves in the variables, and
\* returns, what ReplyValues says of them: parameters that are cut, lengths read
\* from data, and zeros behind the bytes clocked included.
ParseIsFunction ==
    pc = "done" /\ HasRoom /\ ~call.wide =>
       \A k \in Noise(call) :
          LET s     == SubSeq(call.rx, k + 4, Len(call.rx))
              rooms == SubSeq(call.size, 1, ClipCount(call.rx[k + 3]))
          IN  /\ \A p \in DOMAIN rooms : stored[p] = Values!Fields(s, rooms)[p]
              /\ ret = 1 <=> rooms # << >> /\ Values!Complete(s, rooms)

\* And so of a reply of one parameter, which is nearly every reply there is.
OneParameterIsFunction ==
    pc = "done" /\ HasRoom =>
       \A ps \in Payloads :
          Holds(call, ps) /\ Len(ps) = 1 /\ maxNumParams > 0 =>
             /\ stored[1] = Values!Stored(ps[1], call.size[1])
             /\ ret = 1 <=> Values!Accepted(ps, call.size[1])

\* A reply without a header in time is refused, and leaves everything the callers
\* read without looking at the result as it was (most of them ignore it): no
\* parameter, no length and no count, but for a count of none.
HeaderlessUntouched ==
    pc = "done" /\ Noise(call) = {} =>
       /\ ret = 0 /\ numParamRead \in {<< >>, <<0>>}
       /\ paramLen = call.size
       /\ \A p \in Params : stored[p] = << >>

-----------------------------------------------------------------------------
(* The inductive invariant behind them: where in the bytes received the     *)
(* parse is.                                                                *)

\* Of call c, byte q behind the header at k, and the length that begins there.
ByteBehind(c, k, q) == Values!ByteAt(c.rx, k + 3 + q)
LenWidth(c)         == IF c.wide THEN 2 ELSE 1
LenBehind(c, k, q)  ==
    IF c.wide THEN ByteBehind(c, k, q) * Byte + ByteBehind(c, k, q + 1) ELSE ByteBehind(c, k, q)

\* How many parameters are parsed, how long each is, and where it begins.
Count(c, k)      == LET n == c.rx[k + 3] IN IF n > Len(c.size) THEN Len(c.size) ELSE n
Kept(c, k, q, p) == Values!Kept(LenBehind(c, k, q), c.size[p])

Places(c, k) ==
    LET at[p \in 1..Count(c, k)+1] ==
            IF p = 1 THEN 1 ELSE at[p-1] + LenWidth(c) + Kept(c, k, at[p-1], p-1)
    IN  at

RoomFor(c, k) == \A p \in 1..Count(c, k) : c.size[p] > 0

\* How many bytes are taken when byte q is the next one, if there is one left.
Before(c, k, q) == IF k + 2 + q <= Len(c.rx) THEN k + 2 + q ELSE Len(c.rx)

\* The first n bytes of parameter p are those behind its length.
Copied(c, k, p, bytes, n) ==
    \A b \in 1..n : bytes[b] = ByteBehind(c, k, Places(c, k)[p] + LenWidth(c) + b - 1)

\* The header is found.
Searching(k) ==
    /\ pc = "start" => Taken = TIMEOUT_CHAR - timeout /\ Taken <= k
    /\ pc = "cmd" => Taken = k + 1
    /\ pc = "numParam" => Taken = k + 2

\* The parameter at hand is read where the one before it ended.
Reading(k) ==
    LET at == Places(call, k)
        n  == Count(call, k)
    IN
    /\ pc \in {"len", "data", "end"} => numParamRead = <<n>> /\ n > 0
    /\ pc = "len" => Taken = Before(call, k, at[i])
    /\ pc = "data" =>
          /\ len = Kept(call, k, at[i], i)
          /\ Taken = Before(call, k, at[i] + LenWidth(call) + Len(stored[i]))
          /\ Copied(call, k, i, stored[i], Len(stored[i]))
    /\ pc = "end" => Taken = Before(call, k, at[n+1])

\* Those before it are stored, with the lengths cut to the caller's buffers, and
\* zeros behind the bytes clocked.
Parsed(k) ==
    \A p \in 1..Count(call, k) : p < i =>
       /\ paramLen[p] = Kept(call, k, Places(call, k)[p], p)
       /\ Copied(call, k, p, stored[p], paramLen[p])

\* The byte behind the last one decides.
Decided(k) ==
    LET n == Count(call, k) IN
    pc = "done" =>
       /\ numParamRead = <<n>> /\ (n > 0 => i = n + 1)
       /\ ret = 1 <=> n > 0 /\ ByteBehind(call, k, Places(call, k)[n+1]) = END

\* A reply with a header in time is parsed where it is: each parameter from
\* where the one before it ended, and END_CMD expected behind the last.
ParsePosition ==
    \A k \in Noise(call) :
       RoomFor(call, k) => Searching(k) /\ Reading(k) /\ Parsed(k) /\ Decided(k)

(* The inductive invariant behind HeaderlessUntouched. *)

\* The first k bytes are passed over, in time for the byte behind them to count.
PassedOver(k) ==
    /\ k \in 0..TIMEOUT_CHAR /\ k <= Len(call.rx)
    /\ \A b \in 1..k : call.rx[b] \notin {START, ERR}

\* Without a header the parse does not get past the count, which is then missing.
Unfound ==
    /\ pc \in {"start", "cmd", "numParam", "done"} /\ i = 1 /\ ret = 0
    /\ numParamRead \in {<< >>, <<0>>}
    /\ pc = "start" => PassedOver(Taken) /\ Taken <= TIMEOUT_CHAR - timeout
    /\ pc = "cmd" => \E k \in 0..TIMEOUT_CHAR :
          PassedOver(k) /\ Taken = k + 1 /\ call.rx[k + 1] \in {START, ERR}
    /\ pc = "numParam" => rx = << >>

HeaderNotFound == Noise(call) = {} => Unfound
=============================================================================
