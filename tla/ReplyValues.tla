---------------------------- MODULE ReplyValues -----------------------------
(***************************************************************************)
(* What a reply leaves in the variables of the call that awaits it: the    *)
(* effect of a whole parse, as a function of the reply, which the drivers  *)
(* are built on.  ReplyParser is the parse itself, byte by byte, and       *)
(* ReplyFrames checks that it has this effect.                             *)
(***************************************************************************)
EXTENDS Integers, Sequences

CONSTANT END_CMD      \* the byte that ends a frame

WL_FAILURE == -1
WL_SUCCESS == 1

\* An int that its caller keeps in one byte.
uint8(n) == n % 256

\* Faulty: keeps no byte for the terminator.
KeptAll(n, room) == IF n > room THEN room ELSE n

\* The parse keeps the last byte of a buffer for the terminator.
Kept(n, room) == IF n >= room THEN room - 1 ELSE n

-----------------------------------------------------------------------------
(* A reply of one parameter: << >> when the parse stores nothing (no start, *)
(* another command's header, no parameter), and << bytes >> otherwise.      *)

Stored(bytes, room) == SubSeq(bytes, 1, Kept(Len(bytes), room)) \o <<0>>

\* The next byte has to be END_CMD; of a parameter that was cut, it is data.
Accepted(reply, room) ==
    /\ reply # << >>
    /\ Len(reply[1]) < room \/ reply[1][room] = END_CMD

\* What is stored goes over the first bytes of what was there.
Over(new, old) == [k \in DOMAIN old |-> IF k <= Len(new) THEN new[k] ELSE old[k]]

\* The bytes of a variable that held `old', for which the call names `room'.
Variable(reply, room, old) ==
    IF reply = << >> THEN old ELSE Over(Stored(reply[1], room), old)

\* A number of two bytes, the low one first.
Uint16(bytes) == bytes[1] + 256 * bytes[2]

\* A variable of one byte that held 0 before the call.
OneByte(reply) == Variable(reply, 1, <<0>>)[1]

\* Most commands return it, or that the reply was refused.
Checked(reply, room) ==
    IF Accepted(reply, room) THEN Variable(reply, room, <<0>>)[1] ELSE WL_FAILURE

\* paramLen (dataLen) after the call.
LengthAfter(reply, room) == IF reply = << >> THEN room ELSE Kept(Len(reply[1]), room)

\* What a call awaits that the coprocessor did not reply to is refused.
Awaiting(cmd, sent, reply) == IF cmd = sent THEN reply ELSE << >>

\* A call: the command that it sends, and what it returns.
Exchange(cmd, params, value) == [sent |-> [cmd |-> cmd, params |-> params], value |-> value]

-----------------------------------------------------------------------------
(* A reply of several parameters, as the bytes `s' behind its count.  After *)
(* a parameter that was cut, the parse takes data for the next length.      *)

\* What is clocked of it, and SpiDrv_readChar: zeros behind that.
UpTo(s, n)   == SubSeq(s, 1, IF Len(s) < n THEN Len(s) ELSE n)
ByteAt(s, k) == IF k \in DOMAIN s THEN s[k] ELSE 0

\* The parameter whose length is byte k, and where the next one begins.
FieldAt(s, k, room) ==
    [b \in 1..Kept(ByteAt(s, k), room) |-> ByteAt(s, k + b)] \o <<0>>
Behind(s, k, room) == k + 1 + Kept(ByteAt(s, k), room)

\* Where each of the parameters begins, and where the last one ends.
Starts(s, rooms) ==
    LET at[p \in 1..Len(rooms)+1] ==
            IF p = 1 THEN 1 ELSE Behind(s, at[p-1], rooms[p-1])
    IN  at

Fields(s, rooms) == [p \in DOMAIN rooms |-> FieldAt(s, Starts(s, rooms)[p], rooms[p])]

Complete(s, rooms) == ByteAt(s, Starts(s, rooms)[Len(rooms) + 1]) = END_CMD
=============================================================================
