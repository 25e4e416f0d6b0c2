-------------------------- MODULE ReplyFrameProofs --------------------------
(***************************************************************************)
(* Proofs that the parse of a reply is the function of the bytes received  *)
(* that the drivers are modelled with, and that it stores a well-formed    *)
(* reply as it was sent, for every number of parameters, every length and  *)
(* every number of values of a byte.                                       *)
(***************************************************************************)
EXTENDS ReplyFrames, ReplyParserProofs, SequenceFacts

-----------------------------------------------------------------------------
(* The bytes behind a header *)

LEMMA InputFacts ==
    ASSUME NEW c \in Input
    PROVE  /\ c.rx \in Seq(0..Byte-1) /\ Len(c.rx) \in Nat
           /\ c.size \in Seq(Nat) /\ Len(c.size) \in Nat
           /\ \A p \in 1..Len(c.size) : c.size[p] \in Nat
           /\ Byte \in Nat /\ Byte > 0 /\ LenWidth(c) \in {1, 2}
BY LenProperties, ElementOfSeq, ConstantsAssumption DEF Input, LenWidth

LEMMA ByteFacts ==
    ASSUME NEW c \in Input, NEW k \in Nat, NEW q \in Nat
    PROVE  ByteBehind(c, k, q) \in 0..Byte-1 /\ LenBehind(c, k, q) \in Nat
<1>1. ASSUME NEW r \in Nat PROVE ByteBehind(c, k, r) \in 0..Byte-1
  <2>1. 0 \in 0..Byte-1
    BY ConstantsAssumption
  <2>2. DOMAIN c.rx = 1..Len(c.rx) /\ \A j \in 1..Len(c.rx) : c.rx[j] \in 0..Byte-1
    BY InputFacts, LenProperties, ElementOfSeq
  <2> QED
    BY <2>1, <2>2 DEF ByteBehind, Values!ByteAt
<1>2. q + 1 \in Nat /\ Byte \in Nat
  BY InputFacts
<1>3. ByteBehind(c, k, q) \in 0..Byte-1 /\ ByteBehind(c, k, q + 1) \in 0..Byte-1
  BY <1>1, <1>2
<1>4. \A x, y \in 0..Byte-1 : x \in Nat /\ x * Byte + y \in Nat
  BY <1>2
<1> QED
  BY <1>3, <1>4 DEF LenBehind

LEMMA HeaderFacts ==
    ASSUME NEW c \in Input, NEW k \in Noise(c)
    PROVE  /\ k \in 0..TIMEOUT_CHAR /\ k \in Nat /\ k + 3 <= Len(c.rx) /\ TIMEOUT_CHAR \in Nat
           /\ c.rx[k + 1] \in {START, ERR} /\ c.rx[k + 2] = REPLY
           /\ c.rx[k + 3] \in 0..Byte-1
           /\ Count(c, k) \in 0..Len(c.size)
<1>1. /\ k \in 0..TIMEOUT_CHAR /\ k + 3 <= Len(c.rx) /\ TIMEOUT_CHAR \in Nat
      /\ c.rx[k + 1] \in {START, ERR} /\ c.rx[k + 2] = REPLY
  BY ConstantsAssumption DEF Noise
<1>2. k + 3 \in 1..Len(c.rx)
  BY <1>1, InputFacts
<1>3. c.rx[k + 3] \in 0..Byte-1
  BY <1>2, InputFacts, ElementOfSeq
<1>4. Count(c, k) \in 0..Len(c.size)
  BY <1>3, InputFacts DEF Count
<1> QED
  BY <1>1, <1>3, <1>4

\* A length that is cut leaves room for the terminator.
LEMMA KeptFacts ==
    ASSUME NEW c \in Input, NEW k \in Noise(c), RoomFor(c, k), NEW p \in 1..Count(c, k), NEW q \in Nat
    PROVE  Kept(c, k, q, p) \in Nat /\ Kept(c, k, q, p) < c.size[p]
<1>1. LenBehind(c, k, q) \in Nat
  BY HeaderFacts, ByteFacts
<1>2. c.size[p] \in Nat /\ c.size[p] > 0
  BY HeaderFacts, InputFacts, SMTT(30) DEF RoomFor
<1> QED
  BY <1>1, <1>2 DEF Kept, Values!Kept

\* Each parameter begins behind the one before it.
LEMMA PlacesFacts ==
    ASSUME NEW c \in Input, NEW k \in Noise(c), RoomFor(c, k)
    PROVE  /\ On(Places(c, k), 1..Count(c, k)+1) /\ Places(c, k)[1] = 1
           /\ \A p \in 1..Count(c, k)+1 : Places(c, k)[p] \in Nat /\ Places(c, k)[p] > 0
           /\ \A p \in 1..Count(c, k) :
                 Places(c, k)[p+1] = Places(c, k)[p] + LenWidth(c) + Kept(c, k, Places(c, k)[p], p)
<1> DEFINE n     == Count(c, k)
           W     == LenWidth(c)
           D     == Nat \ {0}
           K(x, p) == Kept(c, k, x, p)
           Is(f) == f = [p \in 1..n+1 |-> IF p = 1 THEN 1 ELSE f[p-1] + W + K(f[p-1], p-1)]
           step  == [x \in D \X (1..n+1) |->
                        IF x[2] = 1 THEN 1 ELSE x[1] + W + K(x[1], x[2] - 1)]
           at    == CHOOSE f : Is(f)
           S     == {p \in 1..n+1 : at[p] \in D}
<1>1. n \in Nat /\ W \in Nat
  <2>1. Count(c, k) \in 0..Len(c.size) /\ Len(c.size) \in Nat
    BY HeaderFacts, InputFacts
  <2>2. LenWidth(c) \in {1, 2}
    BY InputFacts
  <2> QED
    BY <2>1, <2>2
<1>2. \A x \in D, p \in 1..n : K(x, p) \in Nat
  BY KeptFacts
<1>3. Places(c, k) = at
  BY DEF Places
<1> HIDE DEF n, W, K
<1>4. \E f : Is(f)
  <2>1. \A x \in D, p \in 1..n+1 :
           step[<<x, p>>] = IF p = 1 THEN 1 ELSE x + W + K(x, p-1)
    OBVIOUS
  <2>2. step \in [D \X (1..n+1) -> D]
    <3>1. ASSUME NEW x \in D, NEW p \in 1..n+1
          PROVE  (IF p = 1 THEN 1 ELSE x + W + K(x, p-1)) \in D
      <4>1. CASE p = 1
        BY <4>1
      <4>2. CASE p # 1
        <5>1. p - 1 \in 1..n
          BY <1>1, <4>2
        <5>2. K(x, p-1) \in Nat
          BY <1>2, <5>1
        <5> QED
          BY <1>1, <4>2, <5>2
      <4> QED
        BY <4>1, <4>2
    <3> QED
      BY <3>1
  <2> HIDE DEF step
  <2>3. PICK f \in [1..n+1 -> D] : Recursive(f, n+1, 1, step)
    <3>1. n + 1 \in Nat /\ 1 \in D
      BY <1>1
    <3> HIDE DEF D
    <3> QED
      BY <2>2, <3>1, RecursionExists
  <2>4. ASSUME NEW p \in 1..n+1
        PROVE  f[p] = IF p = 1 THEN 1 ELSE f[p-1] + W + K(f[p-1], p-1)
    <3>1. f[p] = IF p = 1 THEN 1 ELSE step[<<f[p-1], p>>]
      BY <2>3 DEF Recursive
    <3>2. p # 1 => f[p-1] \in D
      BY <1>1, <2>3
    <3> QED
      BY <2>1, <3>1, <3>2
  <2>5. Is(f)
    BY <2>3, <2>4
  <2> QED
    BY <2>5
<1>5. Is(at)
  BY <1>4
<1> HIDE DEF at
<1>6. at[1] = 1 /\ \A p \in 1..n : at[p+1] = at[p] + W + K(at[p], p)
  <2>1. 1 \in 1..n+1
    BY <1>1
  <2>2. ASSUME NEW p \in 1..n PROVE at[p+1] = at[p] + W + K(at[p], p)
    <3>1. p + 1 \in 1..n+1 /\ p + 1 # 1 /\ (p + 1) - 1 = p
      BY <1>1
    <3>2. at[p+1] = at[(p+1)-1] + W + K(at[(p+1)-1], (p+1)-1)
      BY ONLY <1>5, <3>1
    <3> QED
      BY <3>1, <3>2
  <2> QED
    BY <1>5, <2>1, <2>2
<1>7. \A p \in 1..n+1 : p \in S
  <2>1. 1 \in S
    BY <1>1, <1>6
  <2>2. ASSUME NEW p \in 1..(n+1)-1, p \in S PROVE p + 1 \in S
    <3>1. p \in 1..n /\ p + 1 \in 1..n+1 /\ at[p] \in D
      BY <1>1, <2>2
    <3>2. K(at[p], p) \in Nat /\ at[p+1] = at[p] + W + K(at[p], p)
      BY <1>2, <1>6, <3>1
    <3> QED
      BY <1>1, <3>1, <3>2
  <2>3. n + 1 \in Nat
    BY <1>1
  <2> HIDE DEF S
  <2> QED
    BY <2>1, <2>2, <2>3, InductionUpTo
<1>8. On(at, 1..n+1)
  BY <1>5 DEF On
<1> QED
  BY <1>3, <1>6, <1>7, <1>8 DEF n, W, K
-----------------------------------------------------------------------------
(* Reading *)

\* What is left of the bytes of call c, in the receive buffer buf, when byte q
\* behind the header is the next one to read.
LeftAt(c, k, q, buf) ==
    /\ buf \in Seq(0..Byte-1)
    /\ Len(buf) = IF k + 2 + q <= Len(c.rx) THEN Len(c.rx) - (k + 2 + q) ELSE 0
    /\ \A b \in 1..Len(buf) : buf[b] = c.rx[Len(c.rx) - Len(buf) + b]

LEMMA ReadNext ==
    ASSUME NEW c \in Input, NEW k \in Nat, NEW q \in Nat, q > 0, NEW buf, LeftAt(c, k, q, buf)
    PROVE  readChar(buf) = ByteBehind(c, k, q) /\ LeftAt(c, k, q + 1, Consume(buf))
<1> DEFINE s == c.rx
           n == Len(s)
<1>1. s \in Seq(0..Byte-1) /\ n \in Nat /\ DOMAIN s = 1..n
  BY InputFacts, LenProperties
<1>2. buf \in Seq(0..Byte-1) /\ Len(buf) \in Nat /\ Consume(buf) \in Seq(0..Byte-1)
  BY ReadFacts, LenProperties DEF LeftAt
<1>3. /\ Len(buf) = IF k + 2 + q <= n THEN n - (k + 2 + q) ELSE 0
      /\ \A b \in 1..Len(buf) : buf[b] = s[n - Len(buf) + b]
  BY DEF LeftAt
<1>4. Len(buf) <= n
  BY <1>1, <1>3
<1>5. /\ \A b \in 1..Len(Consume(buf)) : Consume(buf)[b] = s[n - Len(Consume(buf)) + b]
      /\ buf # << >> => Len(Consume(buf)) = Len(buf) - 1 /\ readChar(buf) = s[n - Len(Consume(buf))]
      /\ buf = << >> => Consume(buf) = << >>
  <2> HIDE DEF s
  <2>1. \A b \in 1..Len(buf) : buf[b] = s[Len(s) - Len(buf) + b]
    BY <1>3
  <2> QED
    BY ONLY <1>1, <1>2, <1>4, <2>1, ConsumeFacts, SMTT(30)
<1>6. CASE buf = << >>
  <2>1. Len(buf) = 0 /\ readChar(buf) = 0 /\ Consume(buf) = << >> /\ Len(Consume(buf)) = 0
    BY <1>5, <1>6 DEF readChar
  <2>2. ~(k + 3 + q \in 1..n) /\ ~(k + 2 + (q + 1) < n)
    BY <1>1, <1>3, <2>1
  <2>3. ByteBehind(c, k, q) = 0
    BY <1>1, <2>2 DEF ByteBehind, Values!ByteAt
  <2>4. 0 = IF k + 2 + (q + 1) <= n THEN n - (k + 2 + (q + 1)) ELSE 0
    BY <1>1, <2>2
  <2> QED
    BY <1>2, <2>1, <2>3, <2>4 DEF LeftAt
<1>7. CASE buf # << >>
  <2>1. Len(buf) > 0
    BY <1>2, <1>7, EmptySeq
  <2>2. Len(buf) = n - (k + 2 + q) /\ k + 2 + q < n
    BY <1>1, <1>3, <2>1
  <2>3. Len(Consume(buf)) = n - (k + 2 + (q + 1)) /\ k + 2 + (q + 1) <= n
        /\ n - Len(Consume(buf)) = k + 3 + q
    BY <1>1, <1>5, <1>7, <2>2
  <2>4. readChar(buf) = s[k + 3 + q] /\ k + 3 + q \in 1..n
    BY <1>1, <1>5, <1>7, <2>3
  <2>5. readChar(buf) = ByteBehind(c, k, q)
    BY <1>1, <2>4 DEF ByteBehind, Values!ByteAt
  <2> QED
    BY <1>2, <1>5, <2>3, <2>5 DEF LeftAt
<1> QED
  BY <1>6, <1>7

LEMMA ReadsLeft ==
    ASSUME TypeOK, Suffix, NEW k \in Nat, NEW q \in Nat, Taken = Before(call, k, q)
    PROVE  LeftAt(call, k, q, rx)
<1>1. call \in Input /\ rx \in Seq(0..Byte-1)
  BY DEF TypeOK
<1>2. Len(rx) \in Nat /\ Len(call.rx) \in Nat
  BY <1>1, InputFacts, LenProperties
<1>3. Len(rx) = IF k + 2 + q <= Len(call.rx) THEN Len(call.rx) - (k + 2 + q) ELSE 0
  BY <1>2 DEF Before, Taken
<1> QED
  BY <1>1, <1>3 DEF LeftAt, Suffix, Taken

LEMMA LeftReads ==
    ASSUME call \in Input, NEW k \in Nat, NEW q \in Nat, call' = call, LeftAt(call, k, q, rx')
    PROVE  Taken' = Before(call, k, q)
<1>1. Len(call.rx) \in Nat /\ k + 2 + q \in Nat
  BY InputFacts
<1>2. Len(rx') = IF k + 2 + q <= Len(call.rx) THEN Len(call.rx) - (k + 2 + q) ELSE 0
  BY DEF LeftAt
<1>3. Taken' = Len(call.rx) - Len(rx')
  BY DEF Taken
<1>4. ASSUME NEW n \in Nat, NEW a \in Nat, NEW m, m = IF a <= n THEN n - a ELSE 0
      PROVE  n - m = IF a <= n THEN a ELSE n
  BY <1>4
<1>5. Taken' = IF k + 2 + q <= Len(call.rx) THEN k + 2 + q ELSE Len(call.rx)
  BY ONLY <1>1, <1>2, <1>3, <1>4
<1> QED
  BY <1>5 DEF Before

\* A byte before the parameters that is within the bytes received.
LEMMA ReadHeader ==
    ASSUME TypeOK, Suffix, Taken < Len(call.rx)
    PROVE  /\ Taken \in Nat /\ readChar(rx) = call.rx[Taken + 1]
           /\ call' = call /\ rx' = Consume(rx) => Taken' = Taken + 1
<1>1. call \in Input /\ rx \in Seq(0..Byte-1)
  BY DEF TypeOK
<1>2. /\ Len(rx) \in Nat /\ Len(call.rx) \in Nat /\ Len(rx) <= Len(call.rx)
      /\ call.rx \in Seq(0..Byte-1)
      /\ \A b \in 1..Len(rx) : rx[b] = call.rx[Len(call.rx) - Len(rx) + b]
  BY <1>1, InputFacts, LenProperties DEF Suffix, Taken
<1>3. rx # << >>
  BY <1>2 DEF Taken
<1>4. Len(Consume(rx)) = Len(rx) - 1 /\ readChar(rx) = call.rx[Len(call.rx) - Len(Consume(rx))]
  BY <1>1, <1>2, <1>3, ConsumeFacts, ZenonT(60)
<1>5. Len(call.rx) - Len(Consume(rx)) = Taken + 1 /\ Taken \in Nat
  BY <1>2, <1>4 DEF Taken
<1>6. ASSUME call' = call, rx' = Consume(rx) PROVE Taken' = Taken + 1
  BY <1>5, <1>6 DEF Taken
<1> QED
  BY <1>4, <1>5, <1>6

-----------------------------------------------------------------------------
(* Where the parse is *)

Position(k) == Searching(k) /\ Reading(k) /\ Parsed(k) /\ Decided(k)

\* What a step may rely on, for a header at k.
Here(k) ==
    /\ TypeOK /\ ParseInv /\ Suffix /\ Position(k)
    /\ k \in Noise(call) /\ RoomFor(call, k) /\ call' = call

LEMMA HereFacts ==
    ASSUME NEW k, Here(k)
    PROVE  /\ call \in Input /\ k \in Nat /\ Count(call, k) \in Nat
           /\ Count(call, k) <= maxNumParams /\ maxNumParams \in Nat
           /\ rx \in Seq(0..Byte-1) /\ i \in Nat
<1>1. call \in Input /\ k \in Noise(call) /\ rx \in Seq(0..Byte-1) /\ i \in 1..maxNumParams+1
  BY DEF Here, TypeOK
<1>2. Count(call, k) \in 0..Len(call.size) /\ k \in Nat
  BY <1>1, HeaderFacts
<1>3. Len(call.size) \in Nat
  BY <1>1, InputFacts
<1> QED
  BY <1>1, <1>2, <1>3 DEF maxNumParams

\* While a parameter is at hand.
LEMMA HandFacts ==
    ASSUME NEW k, Here(k), pc \in {"len", "data"}
    PROVE  /\ i \in 1..Count(call, k) /\ numParam = Count(call, k) /\ i \in Params
           /\ paramLen[i] = call.size[i] /\ call.size[i] \in Nat /\ call.size[i] > 0
           /\ Places(call, k)[i] \in Nat /\ Places(call, k)[i] > 0
<1>1. /\ call \in Input /\ k \in Noise(call) /\ RoomFor(call, k)
      /\ Count(call, k) \in Nat /\ Count(call, k) <= maxNumParams /\ maxNumParams \in Nat
  BY HereFacts DEF Here
<1>2. numParam = Count(call, k)
  BY DEF Here, Position, Reading, numParam
<1>3. i <= numParam /\ i \in 1..maxNumParams+1
  BY DEF Here, ParseInv, InProgress, TypeOK
<1>4. i \in 1..Count(call, k) /\ i \in Params
  BY <1>1, <1>2, <1>3 DEF Params
<1>5. paramLen[i] = call.size[i]
  BY <1>3, <1>4 DEF Here, ParseInv, Pending, TypeOK
<1>6. call.size[i] \in Nat
  BY <1>1, <1>4, InputFacts DEF Params, maxNumParams
<1>7. call.size[i] > 0
  BY <1>1, <1>4 DEF RoomFor
<1>8. i \in 1..Count(call, k)+1
  BY <1>1, <1>4
<1> QED
  BY <1>1, <1>2, <1>4, <1>5, <1>6, <1>7, <1>8, PlacesFacts

LEMMA AtStart ==
    ASSUME NEW k, Here(k), WaitStart
    PROVE  Position(k)'
<1>1. /\ k \in 0..TIMEOUT_CHAR /\ k \in Nat /\ k + 3 <= Len(call.rx) /\ TIMEOUT_CHAR \in Nat
      /\ call.rx[k + 1] \in {START, ERR} /\ Len(call.rx) \in Nat
      /\ \A b \in 1..k : call.rx[b] \notin {START, ERR}
  BY HereFacts, HeaderFacts, InputFacts DEF Here, Noise
<1>2. pc = "start" /\ Taken = TIMEOUT_CHAR - timeout /\ Taken <= k /\ timeout \in 0..TIMEOUT_CHAR
  BY DEF WaitStart, Here, Position, Searching, TypeOK
<1>3. Taken < Len(call.rx)
  BY <1>1, <1>2
<1>4. Taken \in Nat /\ readChar(rx) = call.rx[Taken + 1] /\ Taken' = Taken + 1
  BY <1>3, ReadHeader DEF Here, WaitStart
<1>5. i' = 1 /\ i' \in Nat
  BY <1>2 DEF WaitStart, Here, ParseInv, InProgress
<1>6. CASE Taken = k
  <2>1. readChar(rx) \in {START, ERR} /\ Taken' = k + 1
    BY <1>1, <1>4, <1>6
  <2>2. pc' = "cmd"
    BY <2>1 DEF WaitStart
  <2> QED
    BY <1>5, <2>1, <2>2 DEF Position, Searching, Reading, Parsed, Decided
<1>7. CASE Taken # k
  <2>1. Taken + 1 \in 1..k /\ timeout > 0
    BY <1>1, <1>2, <1>4, <1>7
  <2>2. readChar(rx) \notin {START, ERR}
    BY <1>1, <1>4, <2>1
  <2>3. pc' = "start" /\ timeout' = timeout - 1
    BY <1>2, <2>1, <2>2 DEF WaitStart
  <2>4. Taken' = TIMEOUT_CHAR - timeout' /\ Taken' <= k
    BY <1>1, <1>2, <1>4, <2>1, <2>3
  <2> QED
    BY <1>5, <2>3, <2>4 DEF Position, Searching, Reading, Parsed, Decided
<1> QED
  BY <1>6, <1>7

LEMMA AtCommand ==
    ASSUME NEW k, Here(k), CheckCmd
    PROVE  Position(k)'
<1>1. k \in Nat /\ k + 3 <= Len(call.rx) /\ call.rx[k + 2] = REPLY /\ Len(call.rx) \in Nat
  BY HereFacts, HeaderFacts, InputFacts DEF Here
<1>2. pc = "cmd" /\ Taken = k + 1
  BY DEF CheckCmd, Here, Position, Searching
<1>3. Taken < Len(call.rx)
  BY <1>1, <1>2
<1>4. readChar(rx) = call.rx[Taken + 1] /\ Taken' = Taken + 1
  BY <1>3, ReadHeader DEF Here, CheckCmd
<1>5. readChar(rx) = REPLY /\ Taken' = k + 2
  BY <1>1, <1>2, <1>4
<1>6. pc' = "numParam" /\ i' = 1
  BY <1>2, <1>5 DEF CheckCmd, Here, ParseInv, InProgress
<1> QED
  BY <1>5, <1>6 DEF Position, Searching, Reading, Parsed, Decided

LEMMA AtCount ==
    ASSUME NEW k, Here(k), ReadNumParam
    PROVE  Position(k)'
<1>0. call \in Input /\ k \in Noise(call) /\ RoomFor(call, k) /\ call' = call
  BY HereFacts DEF Here
<1>1. /\ k \in Nat /\ k + 3 <= Len(call.rx) /\ Len(call.rx) \in Nat
      /\ Count(call, k) \in Nat
  BY <1>0, HereFacts, HeaderFacts, InputFacts
<1>2. pc = "numParam" /\ Taken = k + 2
  BY DEF ReadNumParam, Here, Position, Searching
<1>3. Taken < Len(call.rx)
  BY <1>1, <1>2
<1>4. readChar(rx) = call.rx[Taken + 1] /\ Taken' = Taken + 1
  BY <1>3, ReadHeader DEF Here, ReadNumParam
<1>5. readChar(rx) = call.rx[k + 3] /\ Taken' = k + 3
  BY <1>1, <1>2, <1>4
<1>6. numParamRead' = <<Count(call, k)>> /\ i' = 1
  BY <1>2, <1>5 DEF ReadNumParam, ClipCount, Count, maxNumParams, Here, ParseInv, InProgress
<1>7. Count(call', k) = Count(call, k) /\ Places(call', k) = Places(call, k)
  BY <1>0
<1>8. CASE Count(call, k) = 0
  <2>1. pc' = "done" /\ ret' = 0
    BY <1>6, <1>8 DEF ReadNumParam, Return
  <2> QED
    BY <1>6, <1>7, <1>8, <2>1 DEF Position, Searching, Reading, Parsed, Decided
<1>9. CASE Count(call, k) # 0
  <2>1. pc' = "len"
    BY <1>6, <1>9 DEF ReadNumParam
  <2>2. Places(call, k)[i'] = 1
    BY <1>0, <1>6, PlacesFacts
  <2>3. Taken' = Before(call, k, 1)
    BY <1>1, <1>5 DEF Before
  <2>4. Taken' = Before(call', k, Places(call', k)[i']) /\ Count(call, k) > 0
    BY <1>0, <1>1, <1>9, <2>2, <2>3
  <2>5. Reading(k)'
    BY <1>6, <1>7, <2>1, <2>4 DEF Reading
  <2> QED
    BY <1>6, <2>1, <2>5 DEF Position, Searching, Parsed, Decided
<1> QED
  BY <1>8, <1>9

\* The parameters before the one at hand stay as they are.
LEMMA ParsedKept ==
    ASSUME NEW k, Here(k), i' = i,
           \A p \in Params : p < i => stored'[p] = stored[p] /\ paramLen'[p] = paramLen[p]
    PROVE  Parsed(k)'
<1>1. \A p \in 1..Count(call, k) : p \in Params
  BY HereFacts DEF Params
<1> QED
  BY <1>1 DEF Parsed, Here, Position

\* The length at hand, in one byte or two.
LEMMA LengthRead ==
    ASSUME NEW k, Here(k), ReadLen
    PROVE  /\ len' = Kept(call, k, Places(call, k)[i], i)
           /\ Taken' = Before(call, k, Places(call, k)[i] + LenWidth(call))
<1> DEFINE q == Places(call, k)[i]
<1>1. pc = "len" /\ k \in Nat /\ call \in Input /\ call' = call
  BY HereFacts DEF ReadLen, Here
<1>2. q \in Nat /\ q > 0 /\ Taken = Before(call, k, q)
  BY <1>1, HandFacts DEF Here, Position, Reading
<1>3. paramLen[i] = call.size[i] /\ call.size[i] \in Nat /\ call.size[i] > 0
  BY <1>1, HandFacts
<1> HIDE DEF q
<1>4. LeftAt(call, k, q, rx)
  BY <1>1, <1>2, ReadsLeft DEF Here
<1>5. readChar(rx) = ByteBehind(call, k, q) /\ LeftAt(call, k, q + 1, Consume(rx))
  BY <1>1, <1>2, <1>4, ReadNext
<1>6. /\ readChar(Consume(rx)) = ByteBehind(call, k, q + 1)
      /\ LeftAt(call, k, q + 2, Consume(Consume(rx)))
  <2>1. q + 1 \in Nat /\ q + 1 > 0 /\ (q + 1) + 1 = q + 2
    BY <1>2
  <2>2. /\ readChar(Consume(rx)) = ByteBehind(call, k, q + 1)
        /\ LeftAt(call, k, (q + 1) + 1, Consume(Consume(rx)))
    BY <1>1, <1>5, <2>1, ReadNext
  <2> QED
    BY <2>1, <2>2
<1>7. \A n : ClipLen(n, call.size[i]) = Values!Kept(n, call.size[i])
  BY <1>3 DEF ClipLen, LessOne, Values!Kept
<1>8. CASE call.wide
  <2>1. len' = ClipLen(LenBehind(call, k, q), call.size[i]) /\ rx' = Consume(Consume(rx))
    BY <1>3, <1>5, <1>6, <1>8 DEF ReadLen, LenBehind
  <2>2. Taken' = Before(call, k, q + 2)
    <3>1. q + 2 \in Nat /\ LeftAt(call, k, q + 2, rx')
      BY <1>2, <1>6, <2>1
    <3> QED
      BY <1>1, <3>1, LeftReads
  <2> QED
    BY <1>7, <1>8, <2>1, <2>2 DEF Kept, LenWidth, q
<1>9. CASE ~call.wide
  <2>1. len' = ClipLen(LenBehind(call, k, q), call.size[i]) /\ rx' = Consume(rx)
    BY <1>3, <1>5, <1>9 DEF ReadLen, LenBehind
  <2>2. Taken' = Before(call, k, q + 1)
    <3>1. q + 1 \in Nat /\ LeftAt(call, k, q + 1, rx')
      BY <1>2, <1>5, <2>1
    <3> QED
      BY <1>1, <3>1, LeftReads
  <2> QED
    BY <1>7, <1>9, <2>1, <2>2 DEF Kept, LenWidth, q
<1> QED
  BY <1>8, <1>9

LEMMA AtLength ==
    ASSUME NEW k, Here(k), ReadLen
    PROVE  Position(k)'
<1>1. /\ pc = "len" /\ pc' = "data" /\ call' = call /\ i' = i
      /\ UNCHANGED <<stored, paramLen, numParamRead>>
  BY DEF ReadLen, Here
<1>2. i \in Params /\ Places(call, k)[i] \in Nat /\ LenWidth(call) \in Nat
  BY <1>1, HandFacts, HereFacts, InputFacts
<1>3. stored[i] = << >>
  BY <1>1, <1>2 DEF Here, ParseInv, Pending
<1>4. /\ len' = Kept(call', k, Places(call', k)[i'], i')
      /\ Taken' = Before(call', k, Places(call', k)[i'] + LenWidth(call') + Len(stored'[i']))
  <2>1. Len(stored[i]) = 0
    BY <1>3
  <2>2. Places(call, k)[i] + LenWidth(call) + 0 = Places(call, k)[i] + LenWidth(call)
    BY <1>2
  <2> QED
    BY <1>1, <2>1, <2>2, LengthRead
<1>5. Copied(call', k, i', stored'[i'], Len(stored'[i']))
  BY <1>1, <1>3 DEF Copied
<1>6. numParamRead = <<Count(call, k)>> /\ Count(call, k) > 0
  BY <1>1 DEF Here, Position, Reading
<1>7. Reading(k)'
  BY <1>1, <1>4, <1>5, <1>6 DEF Reading
<1> QED
  BY <1>1, <1>7, ParsedKept DEF Position, Searching, Decided

LEMMA AtData ==
    ASSUME NEW k, Here(k), ReadData
    PROVE  Position(k)'
<1> DEFINE q == Places(call, k)[i] + LenWidth(call)
           m == Len(stored[i])
<1>1. /\ pc = "data" /\ pc' = "data" /\ call' = call /\ i' = i /\ len' = len
      /\ UNCHANGED <<paramLen, numParamRead>> /\ rx' = Consume(rx)
      /\ stored' = [stored EXCEPT ![i] = Append(stored[i], readChar(rx))]
  BY DEF ReadData, Write, Here
<1>2. /\ i \in Params /\ call \in Input /\ k \in Nat
      /\ Places(call, k)[i] \in Nat /\ Places(call, k)[i] > 0 /\ LenWidth(call) \in Nat
      /\ rx \in Seq(0..Byte-1)
  BY <1>1, HandFacts, HereFacts, InputFacts
<1>3. stored \in [Params -> Seq(0..Byte-1)] /\ stored[i] \in Seq(0..Byte-1) /\ m \in Nat
  BY <1>2, LenProperties DEF Here, TypeOK
<1>4. /\ numParamRead = <<Count(call, k)>> /\ Count(call, k) > 0
      /\ len = Kept(call, k, Places(call, k)[i], i)
      /\ Taken = Before(call, k, q + m)
      /\ Copied(call, k, i, stored[i], m)
  BY <1>1 DEF Here, Position, Reading
<1>5. q \in Nat /\ q > 0 /\ q + m \in Nat /\ q + m > 0 /\ (q + m) + 1 \in Nat
  BY <1>2, <1>3, SMTT(30)
<1>6. LeftAt(call, k, q + m, rx)
  <2> HIDE DEF q, m
  <2> QED
    BY <1>2, <1>4, <1>5, ReadsLeft DEF Here
<1>7. readChar(rx) = ByteBehind(call, k, q + m) /\ LeftAt(call, k, (q + m) + 1, Consume(rx))
  <2> HIDE DEF q, m
  <2> QED
    BY <1>2, <1>5, <1>6, ReadNext
<1>8. Taken' = Before(call, k, (q + m) + 1)
  <2> HIDE DEF q, m
  <2> QED
    BY <1>1, <1>2, <1>5, <1>7, LeftReads
<1>9. /\ stored'[i] = Append(stored[i], readChar(rx)) /\ Len(stored'[i]) = m + 1
      /\ stored'[i][m + 1] = readChar(rx)
      /\ \A b \in 1..m : stored'[i][b] = stored[i][b]
  <2>1. readChar(rx) \in 0..Byte-1
    BY <1>2, ReadFacts
  <2>2. stored'[i] = Append(stored[i], readChar(rx))
    BY <1>1, <1>2, <1>3
  <2> QED
    BY <1>3, <2>1, <2>2
<1>10. Copied(call, k, i, stored'[i], m + 1)
  <2> SUFFICES ASSUME NEW b \in 1..m+1
               PROVE  stored'[i][b] = ByteBehind(call, k, q + b - 1)
    BY DEF Copied
  <2>1. CASE b = m + 1
    <3>1. q + b - 1 = q + m
      BY <1>3, <1>5, <2>1
    <3> QED
      BY <1>7, <1>9, <2>1, <3>1
  <2>2. CASE b # m + 1
    <3>1. b \in 1..m
      BY <1>3, <2>2
    <3>2. stored[i][b] = ByteBehind(call, k, q + b - 1)
      BY <1>4, <3>1 DEF Copied
    <3> QED
      BY <1>9, <3>1, <3>2
  <2> QED
    BY <2>1, <2>2
<1>11. Taken' = Before(call, k, Places(call, k)[i] + LenWidth(call) + Len(stored'[i]))
  <2>1. (q + m) + 1 = q + (m + 1)
    BY <1>3, <1>5
  <2> QED
    BY <1>8, <1>9, <2>1
<1>12. Reading(k)'
  <2> HIDE DEF q, m
  <2> QED
    BY <1>1, <1>4, <1>9, <1>10, <1>11 DEF Reading
<1>13. \A p \in Params : p < i => stored'[p] = stored[p] /\ paramLen'[p] = paramLen[p]
  BY <1>1, <1>2, <1>3 DEF Params
<1> QED
  BY <1>1, <1>12, <1>13, ParsedKept DEF Position, Searching, Decided

LEMMA AtEndOfParameter ==
    ASSUME NEW k, Here(k), Terminate
    PROVE  Position(k)'
<1> DEFINE at == Places(call, k)
           n  == Count(call, k)
<1>1. /\ pc = "data" /\ call' = call /\ i' = i + 1 /\ rx' = rx /\ numParamRead' = numParamRead
      /\ stored' = [stored EXCEPT ![i] = Append(stored[i], 0)]
      /\ paramLen' = [paramLen EXCEPT ![i] = len]
      /\ pc' = IF i < numParam THEN "len" ELSE "end"
  BY DEF Terminate, Write, Here
<1>2. /\ i \in 1..n /\ numParam = n /\ i \in Params /\ call \in Input
      /\ n \in Nat /\ n <= maxNumParams /\ maxNumParams \in Nat /\ LenWidth(call) \in Nat
      /\ k \in Noise(call) /\ RoomFor(call, k) /\ at[i] \in Nat
  <2>1. i \in 1..n /\ numParam = n /\ i \in Params /\ at[i] \in Nat
    BY <1>1, HandFacts
  <2>2. call \in Input /\ n \in Nat /\ n <= maxNumParams /\ maxNumParams \in Nat
    BY HereFacts
  <2>3. LenWidth(call) \in Nat
    BY <2>2, InputFacts
  <2> QED
    BY <2>1, <2>2, <2>3 DEF Here
<1>3. /\ stored[i] \in Seq(0..Byte-1) /\ Len(stored[i]) = len /\ len \in Nat
      /\ stored \in [Params -> Seq(0..Byte-1)] /\ paramLen \in [Params -> Nat]
  BY <1>1, <1>2 DEF Here, TypeOK, ParseInv, InProgress, Terminate
<1>4. /\ numParamRead = <<n>> /\ n > 0 /\ len = Kept(call, k, at[i], i)
      /\ Taken = Before(call, k, at[i] + LenWidth(call) + len)
      /\ Copied(call, k, i, stored[i], len)
  BY <1>1, <1>3 DEF Here, Position, Reading
<1>5. at[i+1] = at[i] + LenWidth(call) + len
  BY <1>2, <1>4, PlacesFacts
<1>6. Taken' = Taken /\ Taken' = Before(call, k, at[i+1])
  BY <1>1, <1>4, <1>5 DEF Taken
<1>7. /\ stored'[i] = Append(stored[i], 0) /\ paramLen'[i] = len
      /\ \A b \in 1..len : stored'[i][b] = stored[i][b]
      /\ \A p \in Params : p # i => stored'[p] = stored[p] /\ paramLen'[p] = paramLen[p]
  BY <1>1, <1>2, <1>3, ConstantsAssumption, SMTT(30)
<1>8. Copied(call, k, i, stored'[i], len)
  BY <1>4, <1>7 DEF Copied
<1>9. Parsed(k)'
  <2> SUFFICES ASSUME NEW p \in 1..n, p < i + 1
               PROVE  /\ paramLen'[p] = Kept(call, k, at[p], p)
                      /\ Copied(call, k, p, stored'[p], paramLen'[p])
    BY <1>1 DEF Parsed
  <2>1. CASE p = i
    BY <1>4, <1>7, <1>8, <2>1
  <2>2. CASE p # i
    <3>1. p < i /\ p \in Params
      BY <1>2, <2>2 DEF Params
    <3>2. /\ paramLen[p] = Kept(call, k, at[p], p)
          /\ Copied(call, k, p, stored[p], paramLen[p])
      BY <3>1 DEF Here, Position, Parsed
    <3> QED
      BY <1>7, <2>2, <3>1, <3>2
  <2> QED
    BY <2>1, <2>2
<1>10. CASE i < n
  <2>1. pc' = "len"
    BY <1>1, <1>2, <1>10
  <2>2. Reading(k)'
    <3> HIDE DEF at, n
    <3>1. Taken' = Before(call', k, Places(call', k)[i']) /\ Count(call', k) = n
      BY <1>1, <1>6 DEF at, n
    <3> QED
      BY <1>1, <1>4, <2>1, <3>1 DEF Reading
  <2> QED
    BY <1>9, <2>1, <2>2 DEF Position, Searching, Decided
<1>11. CASE ~(i < n)
  <2>1. pc' = "end" /\ i = n
    BY <1>1, <1>2, <1>11
  <2>2. Reading(k)'
    <3> HIDE DEF at, n
    <3>1. Taken' = Before(call', k, Places(call', k)[n+1]) /\ Count(call', k) = n
      BY <1>1, <1>6, <2>1 DEF at, n
    <3> QED
      BY <1>1, <1>4, <2>1, <3>1 DEF Reading
  <2> QED
    BY <1>9, <2>1, <2>2 DEF Position, Searching, Decided
<1> QED
  BY <1>10, <1>11

LEMMA AtEnd ==
    ASSUME NEW k, Here(k), CheckEnd
    PROVE  Position(k)'
<1> DEFINE n == Count(call, k)
           q == Places(call, k)[n+1]
<1>1. /\ pc = "end" /\ pc' = "done" /\ call' = call
      /\ ret' = IF readChar(rx) = END THEN 1 ELSE 0
      /\ UNCHANGED <<i, stored, paramLen, numParamRead>>
  BY DEF CheckEnd, Return, Here
<1>2. numParamRead = <<n>> /\ n > 0 /\ Taken = Before(call, k, q)
  BY <1>1 DEF Here, Position, Reading
<1>3. i = n + 1
  BY <1>1, <1>2 DEF Here, ParseInv, Complete, numParam
<1>4. /\ call \in Input /\ k \in Nat /\ k \in Noise(call) /\ RoomFor(call, k) /\ n \in Nat
  BY HereFacts DEF Here
<1>5. q \in Nat /\ q > 0
  <2>1. n + 1 \in 1..n+1
    BY <1>4
  <2> QED
    BY <1>4, <2>1, PlacesFacts
<1> HIDE DEF q
<1>6. readChar(rx) = ByteBehind(call, k, q)
  BY <1>2, <1>4, <1>5, ReadsLeft, ReadNext DEF Here
<1>7. Decided(k)'
  BY <1>1, <1>2, <1>3, <1>6 DEF Decided, q
<1> QED
  BY <1>1, <1>7, ParsedKept DEF Position, Searching, Reading

LEMMA AtRest ==
    ASSUME NEW k, Here(k), UNCHANGED vars
    PROVE  Position(k)'
BY DEF Here, vars, Position, Searching, Reading, Parsed, Decided, Taken

LEMMA PositionInit == Init => ParsePosition
<1> SUFFICES ASSUME Init, NEW k \in Noise(call) PROVE Position(k)
  BY DEF ParsePosition, Position
<1>1. /\ pc = "start" /\ rx = call.rx /\ timeout = TIMEOUT_CHAR /\ i = 1 /\ call \in Input
  BY ConstantsAssumption DEF Init
<1>2. k \in Nat /\ TIMEOUT_CHAR \in Nat /\ Len(call.rx) \in Nat
  BY <1>1, HeaderFacts, InputFacts
<1>3. Searching(k)
  BY <1>1, <1>2 DEF Searching, Taken
<1> QED
  BY <1>1, <1>3 DEF Position, Reading, Parsed, Decided

LEMMA PositionStep ==
    ASSUME TypeOK, ParseInv, FromWire, ParsePosition, [Next]_vars
    PROVE  ParsePosition'
<1>1. Suffix /\ call' = call
  BY FromWireParts DEF Next, vars, WaitStart, CheckCmd, ReadNumParam, ReadLen, ReadData,
                       Terminate, CheckEnd, Done
<1>2. ASSUME NEW k \in Noise(call), RoomFor(call, k) PROVE Position(k)'
  <2>1. Here(k)
    BY <1>1, <1>2 DEF Here, ParsePosition, Position
  <2> QED
    BY <2>1, AtStart, AtCommand, AtCount, AtLength, AtData, AtEndOfParameter, AtEnd, AtRest
       DEF Next, Done
<1> QED
  BY <1>1, <1>2 DEF ParsePosition, Position

\* A reply whose header comes in time is parsed where it is: each parameter from
\* the byte behind the one before it, and the byte behind the last decides,
\* whatever the lengths claim and however few bytes were clocked.
THEOREM PositionInvariant == Spec => []ParsePosition
BY PositionInit, PositionStep, ParseInvariant, StoredWasReceived, PTL DEF Spec

-----------------------------------------------------------------------------
(* A reply without a header *)

\* A byte that is not zero was received.
LEMMA NotMadeUp ==
    ASSUME TypeOK, Suffix, readChar(rx) # 0
    PROVE  /\ Taken \in Nat /\ Taken < Len(call.rx) /\ readChar(rx) = call.rx[Taken + 1]
           /\ call' = call /\ rx' = Consume(rx) => Taken' = Taken + 1
<1>1. call \in Input /\ rx \in Seq(0..Byte-1) /\ rx # << >>
  BY DEF TypeOK, readChar
<1>2. Len(rx) \in Nat /\ Len(rx) > 0 /\ Len(call.rx) \in Nat /\ Len(rx) <= Len(call.rx)
  BY <1>1, InputFacts, LenProperties, EmptySeq DEF Suffix
<1>3. Taken < Len(call.rx)
  BY <1>2 DEF Taken
<1> QED
  BY <1>3, ReadHeader

\* A byte that is not there is zero, and nothing is taken.
LEMMA MadeUp ==
    ASSUME rx = << >>
    PROVE  readChar(rx) = 0 /\ Consume(rx) = << >>
BY DEF readChar, Consume

LEMMA Markers == START # 0 /\ ERR # 0 /\ REPLY # 0
BY ConstantsAssumption

LEMMA UnfoundAtStart ==
    ASSUME TypeOK, Suffix, Unfound, WaitStart
    PROVE  Unfound'
<1>1. /\ pc = "start" /\ call' = call /\ rx' = Consume(rx)
      /\ UNCHANGED <<numParamRead, i>>
  BY DEF WaitStart
<1>2. /\ timeout \in 0..TIMEOUT_CHAR /\ TIMEOUT_CHAR \in Nat /\ Len(call.rx) \in Nat
      /\ call \in Input /\ rx \in Seq(0..Byte-1)
      /\ Taken \in 0..TIMEOUT_CHAR /\ PassedOver(Taken) /\ Taken <= TIMEOUT_CHAR - timeout
  BY <1>1, ConstantsAssumption, InputFacts DEF TypeOK, Unfound, PassedOver
<1>3. CASE readChar(rx) \in {START, ERR}
  <2>1. /\ Taken < Len(call.rx) /\ readChar(rx) = call.rx[Taken + 1] /\ Taken' = Taken + 1
    BY <1>1, <1>3, Markers, NotMadeUp
  <2>2. pc' = "cmd" /\ ret' = ret
    BY <1>3 DEF WaitStart
  <2>3. \E k \in 0..TIMEOUT_CHAR :
           PassedOver(k)' /\ Taken' = k + 1 /\ call'.rx[k + 1] \in {START, ERR}
    BY <1>1, <1>2, <1>3, <2>1 DEF PassedOver
  <2> QED
    BY <1>1, <2>2, <2>3 DEF Unfound
<1>4. CASE readChar(rx) \notin {START, ERR}
  <2>1. CASE timeout = 0
    <3>1. pc' = "done" /\ ret' = 0
      BY <1>4, <2>1 DEF WaitStart, Return
    <3> QED
      BY <1>1, <3>1 DEF Unfound
  <2>2. CASE timeout # 0
    <3>1. pc' = "start" /\ ret' = ret /\ timeout' = timeout - 1
      BY <1>2, <1>4, <2>2 DEF WaitStart
    <3>2. PassedOver(Taken)' /\ Taken' <= TIMEOUT_CHAR - timeout'
      <4>1. CASE rx = << >>
        <5>1. Taken' = Taken
          BY <1>1, <4>1, MadeUp DEF Taken
        <5> QED
          BY <1>1, <1>2, <2>2, <3>1, <5>1 DEF PassedOver
      <4>2. CASE rx # << >>
        <5>1. Taken < Len(call.rx)
          BY <1>2, <4>2, LenProperties, EmptySeq DEF Suffix, Taken
        <5>2. /\ Taken \in Nat /\ readChar(rx) = call.rx[Taken + 1] /\ Taken' = Taken + 1
          BY <1>1, <5>1, ReadHeader
        <5>3. Taken' \in 0..TIMEOUT_CHAR /\ Taken' <= Len(call.rx) /\ Taken' <= TIMEOUT_CHAR - timeout'
          BY <1>2, <2>2, <3>1, <5>1, <5>2
        <5>4. \A b \in 1..Taken' : call.rx[b] \notin {START, ERR}
          BY <1>2, <1>4, <5>2 DEF PassedOver
        <5> QED
          BY <1>1, <5>3, <5>4 DEF PassedOver
      <4> QED
        BY <4>1, <4>2
    <3> QED
      BY <1>1, <3>1, <3>2 DEF Unfound
  <2> QED
    BY <2>1, <2>2
<1> QED
  BY <1>3, <1>4

LEMMA UnfoundAtCommand ==
    ASSUME TypeOK, Suffix, Unfound, Noise(call) = {}, CheckCmd
    PROVE  Unfound'
<1>1. /\ pc = "cmd" /\ call' = call /\ rx' = Consume(rx)
      /\ UNCHANGED <<numParamRead, i>>
  BY DEF CheckCmd
<1>2. CASE readChar(rx) # REPLY
  <2>1. pc' = "done" /\ ret' = 0
    BY <1>2 DEF CheckCmd, Return
  <2> QED
    BY <1>1, <2>1 DEF Unfound
<1>3. CASE readChar(rx) = REPLY
  <2>1. PICK k \in 0..TIMEOUT_CHAR :
           PassedOver(k) /\ Taken = k + 1 /\ call.rx[k + 1] \in {START, ERR}
    BY <1>1 DEF Unfound
  <2>2. Taken < Len(call.rx) /\ call.rx[Taken + 1] = REPLY /\ Taken' = Taken + 1
    BY <1>1, <1>3, Markers, NotMadeUp
  <2>3. /\ Len(call.rx) \in Nat /\ TIMEOUT_CHAR \in Nat /\ Consume(rx) \in Seq(0..Byte-1)
    BY ConstantsAssumption, InputFacts, ReadFacts DEF TypeOK
  <2>4. call.rx[k + 2] = REPLY
    BY <2>1, <2>2, <2>3
  <2>5. ~(k + 3 <= Len(call.rx))
    BY <2>1, <2>4 DEF Noise, PassedOver
  <2>6. Len(rx') = 0
    <3>1. Len(rx') \in Nat /\ Taken' = Len(call.rx) - Len(rx')
      BY <1>1, <2>3, LenProperties DEF Taken
    <3> QED
      BY <2>1, <2>2, <2>3, <2>5, <3>1
  <2>7. rx' = << >>
    BY <1>1, <2>3, <2>6, EmptySeq
  <2>8. pc' = "numParam" /\ ret' = ret
    BY <1>3 DEF CheckCmd
  <2> QED
    BY <1>1, <2>7, <2>8 DEF Unfound
<1> QED
  BY <1>2, <1>3

LEMMA UnfoundAtCount ==
    ASSUME TypeOK, Unfound, ReadNumParam
    PROVE  Unfound'
<1>1. readChar(rx) = 0
  BY MadeUp DEF ReadNumParam, Unfound
<1>2. ClipCount(0) = 0
  <2>1. maxNumParams \in Nat
    BY InputFacts DEF TypeOK, maxNumParams
  <2> QED
    BY <2>1 DEF ClipCount
<1>3. numParamRead' = <<0>> /\ i' = i
  BY <1>1, <1>2 DEF ReadNumParam
<1>4. pc' = "done" /\ ret' = 0
  BY <1>3 DEF ReadNumParam, Return
<1> QED
  BY <1>3, <1>4 DEF Unfound

LEMMA UnfoundInit == Init => HeaderNotFound
<1> SUFFICES ASSUME Init PROVE Unfound
  BY DEF HeaderNotFound
<1>1. call \in Input /\ pc = "start" /\ rx = call.rx /\ timeout = TIMEOUT_CHAR
  BY ConstantsAssumption DEF Init
<1>2. Len(call.rx) \in Nat /\ TIMEOUT_CHAR \in Nat
  BY <1>1, InputFacts, ConstantsAssumption
<1>3. Taken = 0
  BY <1>1, <1>2 DEF Taken
<1>4. PassedOver(Taken) /\ Taken <= TIMEOUT_CHAR - timeout
  BY <1>1, <1>2, <1>3 DEF PassedOver
<1> QED
  BY <1>1, <1>4 DEF Init, Unfound

LEMMA UnfoundStep ==
    ASSUME TypeOK, FromWire, HeaderNotFound, [Next]_vars
    PROVE  HeaderNotFound'
<1>1. Suffix /\ call' = call
  BY FromWireParts DEF Next, vars, WaitStart, CheckCmd, ReadNumParam, ReadLen, ReadData,
                       Terminate, CheckEnd, Done
<1>2. SUFFICES ASSUME Noise(call) = {}, Unfound PROVE Unfound'
  BY <1>1 DEF HeaderNotFound
<1>3. ~(ReadLen \/ ReadData \/ Terminate \/ CheckEnd)
  BY <1>2 DEF Unfound, ReadLen, ReadData, Terminate, CheckEnd
<1>4. CASE UNCHANGED vars
  BY <1>2, <1>4 DEF vars, Unfound, PassedOver, Taken
<1> QED
  BY <1>1, <1>2, <1>3, <1>4, UnfoundAtStart, UnfoundAtCommand, UnfoundAtCount DEF Next, Done

\* A reply without a header in time is refused, and nothing that the callers read
\* is changed by it, whatever its bytes are and however few there are.
THEOREM HeaderlessIsRefused == Spec => []HeaderlessUntouched
<1>1. TypeOK /\ ParseInv /\ HeaderNotFound => HeaderlessUntouched
  <2> SUFFICES ASSUME TypeOK, ParseInv, HeaderNotFound, pc = "done", Noise(call) = {}
               PROVE  /\ ret = 0 /\ numParamRead \in {<< >>, <<0>>}
                      /\ paramLen = call.size
                      /\ \A p \in Params : stored[p] = << >>
    BY DEF HeaderlessUntouched
  <2>1. i = 1 /\ ret = 0 /\ numParamRead \in {<< >>, <<0>>}
    BY DEF HeaderNotFound, Unfound
  <2>2. \A p \in Params : p \in Nat /\ p >= 1
    BY DEF Params
  <2>3. \A p \in Params : paramLen[p] = call.size[p] /\ stored[p] = << >>
    BY <2>1, <2>2 DEF ParseInv, Pending
  <2>4. call.size = [p \in Params |-> call.size[p]]
    BY InputFacts, LenProperties DEF TypeOK, Params, maxNumParams
  <2>5. paramLen = [p \in Params |-> paramLen[p]]
    BY DEF TypeOK
  <2> QED
    BY <2>1, <2>3, <2>4, <2>5
<1> QED
  BY <1>1, UnfoundInit, UnfoundStep, ParseInvariant, StoredWasReceived, PTL DEF Spec

-----------------------------------------------------------------------------
(* The parse is a function of the bytes received *)

LEMMA WithTerminator ==
    ASSUME NEW T, 0 \in T, NEW x \in Seq(T), NEW y \in Seq(T), Len(x) = Len(y) + 1,
           x[Len(y) + 1] = 0, \A b \in 1..Len(y) : x[b] = y[b]
    PROVE  x = y \o <<0>>
<1> DEFINE z == <<0>>
<1>1. z \in Seq(T) /\ Len(z) = 1 /\ z[1] = 0
  OBVIOUS
<1>2. Len(y) \in Nat /\ Len(x) \in Nat
  BY LenProperties
<1> HIDE DEF z
<1>3. /\ y \o z \in Seq(T) /\ Len(y \o z) = Len(y) + Len(z)
      /\ \A b \in 1..Len(y) + Len(z) : (y \o z)[b] = IF b <= Len(y) THEN y[b] ELSE z[b - Len(y)]
  BY <1>1, ConcatProperties
<1>4. ASSUME NEW b \in 1..Len(x) PROVE x[b] = (y \o z)[b]
  <2>1. CASE b <= Len(y)
    BY <1>1, <1>2, <1>3, <2>1
  <2>2. CASE ~(b <= Len(y))
    <3>1. b = Len(y) + 1 /\ b - Len(y) = 1
      BY <1>2, <2>2
    <3> QED
      BY <1>1, <1>2, <1>3, <2>2, <3>1
  <2> QED
    BY <2>1, <2>2
<1>5. Len(x) = Len(y \o z)
  BY <1>1, <1>3
<1>6. x = y \o z
  BY <1>3, <1>4, <1>5, SeqEqual
<1> QED
  BY <1>6 DEF z

\* What a parse that found its header leaves of each parameter.
LEMMA ParameterStored ==
    ASSUME TypeOK, ParseInv, ParsePosition, pc = "done",
           NEW k \in Noise(call), RoomFor(call, k), NEW p \in 1..Count(call, k)
    PROVE  LET at == Places(call, k)[p]
               n  == Kept(call, k, at, p)
           IN  /\ p \in Params /\ n \in Nat /\ at \in Nat /\ at > 0
               /\ stored[p] \in Seq(0..Byte-1) /\ Len(stored[p]) = n + 1 /\ stored[p][n + 1] = 0
               /\ paramLen[p] = n
               /\ \A b \in 1..n : stored[p][b] = ByteBehind(call, k, at + LenWidth(call) + b - 1)
<1> DEFINE at == Places(call, k)[p]
           n  == Kept(call, k, at, p)
<1>1. call \in Input /\ Count(call, k) \in 0..Len(call.size) /\ Len(call.size) \in Nat
  BY HeaderFacts, InputFacts DEF TypeOK
<1>2. p \in Params /\ p \in 1..Count(call, k)+1
  BY <1>1 DEF Params, maxNumParams
<1>3. at \in Nat /\ at > 0
  BY <1>1, <1>2, PlacesFacts
<1>4. n \in Nat
  BY <1>1, <1>3, KeptFacts
<1>5. Count(call, k) > 0
  BY <1>1
<1>6. Parsed(k) /\ Decided(k)
  BY DEF ParsePosition
<1>7. i = Count(call, k) + 1
  BY <1>5, <1>6 DEF Decided
<1>8. p < i
  BY <1>1, <1>7
<1>9. paramLen[p] = n /\ Copied(call, k, p, stored[p], n)
  BY <1>6, <1>8 DEF Parsed
<1>10. Len(stored[p]) = paramLen[p] + 1 /\ stored[p][paramLen[p] + 1] = 0
  BY <1>2, <1>8 DEF ParseInv, Finished
<1>11. stored[p] \in Seq(0..Byte-1)
  BY <1>2 DEF TypeOK
<1> QED
  BY <1>2, <1>3, <1>4, <1>9, <1>10, <1>11 DEF Copied

\* Byte by byte, a call is what ReplyValues is given.
LEMMA BytesBehind ==
    ASSUME NEW c \in Input, NEW k \in Nat, k + 3 <= Len(c.rx), NEW q \in Nat, q > 0
    PROVE  Values!ByteAt(SubSeq(c.rx, k + 4, Len(c.rx)), q) = ByteBehind(c, k, q)
<1> DEFINE s == SubSeq(c.rx, k + 4, Len(c.rx))
           n == Len(c.rx)
<1>1. /\ c.rx \in Seq(0..Byte-1) /\ n \in Nat /\ DOMAIN c.rx = 1..n
      /\ \A j \in 1..n : c.rx[j] \in 0..Byte-1
  BY InputFacts, LenProperties, ElementOfSeq
<1>2. k + 4 \in Int /\ n \in Int /\ \A j \in k+4..n : c.rx[j] \in 0..Byte-1
  BY <1>1
<1>3. /\ s \in Seq(0..Byte-1) /\ Len(s) = IF k + 4 <= n THEN n - (k + 4) + 1 ELSE 0
      /\ \A j \in 1..n - (k + 4) + 1 : s[j] = c.rx[(k + 4) + j - 1]
  BY <1>2, SubSeqProperties
<1>4. DOMAIN s = 1..Len(s)
  BY <1>3, LenProperties
<1> HIDE DEF s
<1>5. Len(s) = n - k - 3
  BY <1>1, <1>3
<1>6. CASE q <= n - k - 3
  <2>1. q \in DOMAIN s /\ q \in 1..n - (k + 4) + 1 /\ k + 3 + q \in DOMAIN c.rx
    BY <1>1, <1>4, <1>5, <1>6
  <2>2. s[q] = c.rx[(k + 4) + q - 1] /\ (k + 4) + q - 1 = k + 3 + q
    BY <1>3, <2>1
  <2> QED
    BY <2>1, <2>2 DEF ByteBehind, Values!ByteAt, s
<1>7. CASE ~(q <= n - k - 3)
  <2>1. q \notin DOMAIN s /\ k + 3 + q \notin DOMAIN c.rx
    BY <1>1, <1>4, <1>5, <1>7
  <2> QED
    BY <2>1 DEF ByteBehind, Values!ByteAt, s
<1> QED
  BY <1>6, <1>7

LEMMA RoomsFacts ==
    ASSUME NEW c \in Input, NEW k \in Noise(c)
    PROVE  LET rooms == SubSeq(c.size, 1, Count(c, k)) IN
           /\ Len(rooms) = Count(c, k) /\ DOMAIN rooms = 1..Count(c, k)
           /\ rooms # << >> <=> Count(c, k) > 0
           /\ \A p \in 1..Count(c, k) : rooms[p] = c.size[p]
<1> DEFINE n     == Count(c, k)
           rooms == SubSeq(c.size, 1, n)
<1>1. /\ n \in Nat /\ n <= Len(c.size) /\ Len(c.size) \in Nat
      /\ \A p \in 1..Len(c.size) : c.size[p] \in Nat
  <2>1. Count(c, k) \in 0..Len(c.size) /\ Len(c.size) \in Nat
    BY HeaderFacts, InputFacts
  <2> QED
    BY <2>1, InputFacts
<1> HIDE DEF n
<1>2. n \in Int /\ 1 \in Int /\ \A p \in 1..n : c.size[p] \in Nat
  BY <1>1
<1>3. /\ rooms \in Seq(Nat) /\ Len(rooms) = IF 1 <= n THEN n - 1 + 1 ELSE 0
      /\ \A p \in 1..n - 1 + 1 : rooms[p] = c.size[1 + p - 1]
  BY <1>2, SubSeqProperties
<1> HIDE DEF rooms
<1>4. Len(rooms) = n /\ \A p \in 1..n : rooms[p] = c.size[p]
  <2>1. Len(rooms) = n
    BY <1>1, <1>3
  <2>2. ASSUME NEW p \in 1..n PROVE rooms[p] = c.size[p]
    <3>1. p \in 1..n - 1 + 1 /\ 1 + p - 1 = p
      BY <1>1
    <3> QED
      BY <1>3, <3>1
  <2> QED
    BY <2>1, <2>2
<1>5. DOMAIN rooms = 1..n
  BY <1>3, <1>4, LenProperties
<1>6. rooms # << >> <=> n > 0
  BY <1>1, <1>3, <1>4, EmptySeq
<1> QED
  BY <1>4, <1>5, <1>6 DEF n, rooms

\* The parameters begin where ReplyValues says.
LEMMA StartsArePlaces ==
    ASSUME NEW c \in Input, ~c.wide, NEW k \in Noise(c), RoomFor(c, k)
    PROVE  Values!Starts(SubSeq(c.rx, k + 4, Len(c.rx)), SubSeq(c.size, 1, Count(c, k)))
           = Places(c, k)
<1> DEFINE s     == SubSeq(c.rx, k + 4, Len(c.rx))
           n     == Count(c, k)
           rooms == SubSeq(c.size, 1, n)
           at    == Places(c, k)
           Next1(x, p) == Values!Behind(s, x, rooms[p])
           Is(f) == f = [p \in 1..Len(rooms)+1 |-> IF p = 1 THEN 1 ELSE Next1(f[p-1], p-1)]
           starts == CHOOSE f : Is(f)
<1>1. n \in Nat /\ k \in Nat /\ k + 3 <= Len(c.rx)
  <2>1. Count(c, k) \in 0..Len(c.size) /\ Len(c.size) \in Nat
    BY HeaderFacts, InputFacts
  <2> QED
    BY <2>1, HeaderFacts
<1>2. Len(rooms) = n /\ \A p \in 1..n : rooms[p] = c.size[p]
  BY RoomsFacts
<1>3. /\ On(at, 1..n+1) /\ at[1] = 1
      /\ \A p \in 1..n+1 : at[p] \in Nat /\ at[p] > 0
      /\ \A p \in 1..n : at[p+1] = at[p] + LenWidth(c) + Kept(c, k, at[p], p)
  BY PlacesFacts
<1>4. Values!Starts(s, rooms) = starts
  BY DEF Values!Starts
<1> HIDE DEF n, at
<1>5. ASSUME NEW p \in 1..n PROVE at[p+1] = Next1(at[p], p)
  <2>1. p \in 1..n+1
    BY <1>1
  <2>2. at[p] \in Nat /\ at[p] > 0
    BY <1>3, <2>1
  <2>3. Values!ByteAt(s, at[p]) = ByteBehind(c, k, at[p])
    BY <1>1, <2>2, BytesBehind
  <2>4. Kept(c, k, at[p], p) = Values!Kept(Values!ByteAt(s, at[p]), rooms[p]) /\ LenWidth(c) = 1
    BY <1>2, <2>3 DEF Kept, LenBehind, LenWidth
  <2> HIDE DEF s, rooms
  <2> QED
    BY <1>3, <2>4 DEF Values!Behind
<1> HIDE DEF Next1, rooms
<1>6. Is(at)
  <2>1. ASSUME NEW p \in 1..n+1 PROVE at[p] = IF p = 1 THEN 1 ELSE Next1(at[p-1], p-1)
    <3>1. CASE p = 1
      BY <1>3, <3>1
    <3>2. CASE p # 1
      <4>1. p - 1 \in 1..n /\ (p - 1) + 1 = p
        BY <1>1, <3>2
      <4> QED
        BY <1>5, <3>2, <4>1
    <3> QED
      BY <3>1, <3>2
  <2>2. at = [p \in 1..n+1 |-> at[p]]
    BY <1>3 DEF On
  <2> QED
    BY <1>2, <2>1, <2>2
<1>7. Is(starts)
  BY <1>6
<1> HIDE DEF starts
<1>8. On(starts, 1..n+1)
  BY <1>2, <1>7 DEF On
<1>9. starts[1] = at[1] /\ \A p \in 1..(n+1)-1 : starts[p] = at[p] => starts[p+1] = at[p+1]
  <2>1. 1 \in 1..n+1
    BY <1>1
  <2>2. starts[1] = 1
    BY <1>2, <1>7, <2>1
  <2>3. ASSUME NEW p \in 1..n PROVE starts[p+1] = Next1(starts[p], p)
    <3>1. p + 1 \in 1..n+1 /\ p + 1 # 1 /\ (p + 1) - 1 = p
      BY <1>1
    <3>2. starts[p+1] = Next1(starts[(p+1)-1], (p+1)-1)
      BY ONLY <1>2, <1>7, <3>1
    <3> QED
      BY <3>1, <3>2
  <2>4. (n + 1) - 1 = n
    BY <1>1
  <2> QED
    BY <1>3, <1>5, <2>2, <2>3, <2>4
<1>10. n + 1 \in Nat
  BY <1>1
<1>11. starts = at
  <2> DEFINE m == n + 1
  <2>1. m \in Nat /\ On(starts, 1..m) /\ On(at, 1..m) /\ starts[1] = at[1]
        /\ \A p \in 1..m-1 : starts[p] = at[p] => starts[p+1] = at[p+1]
    BY <1>3, <1>8, <1>9, <1>10
  <2> HIDE DEF m
  <2> QED
    BY <2>1, SameFunction
<1> QED
  BY <1>4, <1>11 DEF n, at, rooms

\* What is stored of a parameter is what ReplyValues says of it.
LEMMA FieldStored ==
    ASSUME TypeOK, ParseInv, ParsePosition, pc = "done", ~call.wide,
           NEW k \in Noise(call), RoomFor(call, k), NEW p \in 1..Count(call, k)
    PROVE  stored[p] = Values!FieldAt(SubSeq(call.rx, k + 4, Len(call.rx)),
                                      Places(call, k)[p], call.size[p])
<1> DEFINE s  == SubSeq(call.rx, k + 4, Len(call.rx))
           at == Places(call, k)[p]
           n  == Kept(call, k, at, p)
           y  == [b \in 1..n |-> Values!ByteAt(s, at + b)]
<1>1. /\ call \in Input /\ k \in Nat /\ k + 3 <= Len(call.rx)
  BY HeaderFacts DEF TypeOK
<1>2. /\ n \in Nat /\ at \in Nat /\ at > 0
      /\ stored[p] \in Seq(0..Byte-1) /\ Len(stored[p]) = n + 1 /\ stored[p][n + 1] = 0
      /\ \A b \in 1..n : stored[p][b] = ByteBehind(call, k, at + LenWidth(call) + b - 1)
  BY ParameterStored
<1>3. Values!ByteAt(s, at) = LenBehind(call, k, at) /\ LenWidth(call) = 1
  <2> HIDE DEF at
  <2> QED
    BY <1>1, <1>2, BytesBehind DEF LenBehind, LenWidth
<1>4. Values!FieldAt(s, at, call.size[p]) = y \o <<0>>
  BY <1>3 DEF Values!FieldAt, Kept
<1> HIDE DEF n, at
<1>5. ASSUME NEW b \in 1..n
      PROVE  y[b] = ByteBehind(call, k, at + b) /\ y[b] \in 0..Byte-1 /\ stored[p][b] = y[b]
  <2>1. at + b \in Nat /\ at + b > 0 /\ at + 1 + b - 1 = at + b
    BY <1>2
  <2>2. Values!ByteAt(s, at + b) = ByteBehind(call, k, at + b)
    BY <1>1, <2>1, BytesBehind
  <2>3. ByteBehind(call, k, at + b) \in 0..Byte-1
    BY <1>1, <2>1, ByteFacts
  <2>4. y[b] = Values!ByteAt(s, at + b)
    OBVIOUS
  <2>5. stored[p][b] = ByteBehind(call, k, at + 1 + b - 1)
    BY <1>2, <1>3
  <2> HIDE DEF y, s
  <2> QED
    BY <2>1, <2>2, <2>3, <2>4, <2>5
<1>6. y \in Seq(0..Byte-1) /\ Len(y) = n
  <2>1. DOMAIN y = 1..n
    OBVIOUS
  <2>2. y = [b \in 1..n |-> y[b]]
    OBVIOUS
  <2> HIDE DEF y
  <2> DEFINE T == 0..Byte-1
  <2>3. y \in [1..n -> T]
    BY <1>5, <2>2
  <2> HIDE DEF T
  <2>4. y \in Seq(T) /\ Len(y) = n
    BY <1>2, <2>1, <2>3
  <2> QED
    BY <2>4 DEF T
<1> HIDE DEF y
<1>7. 0 \in 0..Byte-1
  BY ConstantsAssumption
<1>8. stored[p] = y \o <<0>>
  <2> DEFINE T == 0..Byte-1
             x == stored[p]
  <2>1. 0 \in T /\ x \in Seq(T) /\ y \in Seq(T) /\ Len(x) = Len(y) + 1 /\ x[Len(y) + 1] = 0
        /\ \A b \in 1..Len(y) : x[b] = y[b]
    BY <1>2, <1>5, <1>6, <1>7
  <2> HIDE DEF T, x
  <2>2. x = y \o << 0 >>
    BY <2>1, WithTerminator
  <2> QED
    BY <2>2 DEF x
<1> QED
  BY <1>4, <1>8 DEF n, at, y

\* ReplyValues, which the drivers are modelled with, says what a narrow parse
\* leaves in the variables and returns, whatever bytes come behind a header in
\* time, for any number of parameters and any sizes of buffers but zero.
THEOREM ParseIsTheFunction == Spec => []ParseIsFunction
<1>1. TypeOK /\ ParseInv /\ ParsePosition => ParseIsFunction
  <2> SUFFICES ASSUME TypeOK, ParseInv, ParsePosition, pc = "done", HasRoom, ~call.wide,
                      NEW k \in Noise(call)
               PROVE  LET s     == SubSeq(call.rx, k + 4, Len(call.rx))
                          rooms == SubSeq(call.size, 1, ClipCount(call.rx[k + 3]))
                      IN  /\ \A p \in DOMAIN rooms : stored[p] = Values!Fields(s, rooms)[p]
                          /\ ret = 1 <=> rooms # << >> /\ Values!Complete(s, rooms)
    BY DEF ParseIsFunction
  <2> DEFINE s     == SubSeq(call.rx, k + 4, Len(call.rx))
             n     == Count(call, k)
             rooms == SubSeq(call.size, 1, n)
             at    == Places(call, k)
  <2>1. ClipCount(call.rx[k + 3]) = n
    BY DEF ClipCount, Count, maxNumParams
  <2>2. /\ call \in Input /\ k \in Nat /\ k + 3 <= Len(call.rx)
        /\ n \in 0..Len(call.size) /\ Len(call.size) \in Nat /\ n \in Nat
    <3>1. call \in Input
      BY DEF TypeOK
    <3>2. Count(call, k) \in 0..Len(call.size) /\ Len(call.size) \in Nat
      BY <3>1, HeaderFacts, InputFacts
    <3> QED
      BY <3>1, <3>2, HeaderFacts
  <2>3. RoomFor(call, k)
    <3>1. \A p \in 1..Count(call, k) : p \in Params
      BY <2>2 DEF Params, maxNumParams
    <3> QED
      BY <3>1 DEF HasRoom, RoomFor
  <2>4. /\ Len(rooms) = n /\ DOMAIN rooms = 1..n /\ (rooms # << >> <=> n > 0)
        /\ \A p \in 1..n : rooms[p] = call.size[p]
    BY <2>2, RoomsFacts
  <2>5. Values!Starts(s, rooms) = at
    BY <2>2, <2>3, StartsArePlaces
  <2>6. ASSUME NEW p \in DOMAIN rooms PROVE stored[p] = Values!Fields(s, rooms)[p]
    <3>1. p \in 1..Count(call, k)
      BY <2>4
    <3>2. stored[p] = Values!FieldAt(s, at[p], call.size[p])
      BY <2>3, <3>1, FieldStored
    <3>3. Values!Fields(s, rooms)[p] = Values!FieldAt(s, at[p], rooms[p])
      BY <2>5 DEF Values!Fields
    <3> QED
      BY <2>4, <3>1, <3>2, <3>3
  <2>7. ret = 1 <=> rooms # << >> /\ Values!Complete(s, rooms)
    <3>1. ret = 1 <=> n > 0 /\ ByteBehind(call, k, at[n+1]) = END
      BY <2>3 DEF ParsePosition, Decided
    <3>2. n + 1 \in 1..Count(call, k)+1
      BY <2>2
    <3>3. at[n+1] \in Nat /\ at[n+1] > 0
      BY <2>2, <2>3, <3>2, PlacesFacts
    <3>4. Values!ByteAt(s, at[n+1]) = ByteBehind(call, k, at[n+1])
      <4> HIDE DEF n, at
      <4> QED
        BY <2>2, <3>3, BytesBehind
    <3>5. Values!Complete(s, rooms) <=> Values!ByteAt(s, at[n+1]) = END
      BY <2>4, <2>5 DEF Values!Complete
    <3> QED
      BY <2>4, <3>1, <3>4, <3>5
  <2> QED
    BY <2>1, <2>6, <2>7
<1> QED
  BY <1>1, TypeCorrect, ParseInvariant, PositionInvariant, PTL

-----------------------------------------------------------------------------
(* A well-formed reply *)

\* The parameters of a frame, each behind its length.
Fielded(c, ps) == [p \in DOMAIN ps |-> LenBytes(Len(ps[p]), c.wide) \o ps[p]]

LEMMA TwoBytes ==
    ASSUME NEW d \in Nat, d > 0, NEW n \in Nat
    PROVE  n = (n \div d) * d + (n % d) /\ n \div d \in Nat /\ n % d \in Nat
OBVIOUS

LEMMA FieldFacts ==
    ASSUME NEW c \in Input, NEW ps \in Seq(Seq(0..Byte-1)), NEW p \in 1..Len(ps)
    PROVE  LET f == Fielded(c, ps)[p]
               n == Len(ps[p])
           IN  /\ n \in Nat /\ f \in Seq(Nat) /\ Len(f) = LenWidth(c) + n
               /\ n = IF c.wide THEN f[1] * Byte + f[2] ELSE f[1]
               /\ \A b \in 1..n : f[LenWidth(c) + b] = ps[p][b]
<1> DEFINE n == Len(ps[p])
           y == ps[p]
           z == LenBytes(n, c.wide)
<1>1. y \in Seq(0..Byte-1) /\ n \in Nat /\ Byte \in Nat /\ Byte > 0
  BY ElementOfSeq, LenProperties, InputFacts
<1>2. y \in Seq(Nat)
  <2> DEFINE T == 0..Byte-1
  <2>1. T \subseteq Nat
    BY <1>1
  <2>2. y \in Seq(T)
    BY <1>1
  <2> HIDE DEF T, y
  <2> QED
    BY <2>1, <2>2, SeqMonotonic
<1>3. Fielded(c, ps)[p] = z \o y
  BY LenProperties DEF Fielded
<1> HIDE DEF n
<1>4. /\ z \in Seq(Nat) /\ Len(z) = LenWidth(c)
      /\ n = IF c.wide THEN z[1] * Byte + z[2] ELSE z[1]
  <2>1. n = (n \div Byte) * Byte + (n % Byte) /\ n \div Byte \in Nat /\ n % Byte \in Nat
    BY <1>1, TwoBytes
  <2>2. CASE c.wide
    BY <2>1, <2>2 DEF LenBytes, LenWidth
  <2>3. CASE ~c.wide
    BY <1>1, <2>3 DEF LenBytes, LenWidth
  <2> QED
    BY <2>2, <2>3
<1>5. LenWidth(c) \in {1, 2} /\ (c.wide => LenWidth(c) = 2)
  BY InputFacts DEF LenWidth
<1>6. n = Len(y)
  BY DEF n
<1> HIDE DEF z, y
<1>7. /\ z \o y \in Seq(Nat) /\ Len(z \o y) = Len(z) + Len(y)
      /\ \A b \in 1..Len(z) + Len(y) : (z \o y)[b] = IF b <= Len(z) THEN z[b] ELSE y[b - Len(z)]
  BY <1>2, <1>4, ConcatProperties
<1>8. (z \o y)[1] = z[1] /\ (c.wide => (z \o y)[2] = z[2])
  BY <1>1, <1>4, <1>5, <1>6, <1>7
<1>9. ASSUME NEW b \in 1..n PROVE (z \o y)[LenWidth(c) + b] = y[b]
  <2>1. LenWidth(c) + b \in 1..Len(z) + Len(y) /\ ~(LenWidth(c) + b <= Len(z))
        /\ (LenWidth(c) + b) - Len(z) = b
    <3>1. ASSUME NEW w \in Nat, NEW l \in Nat, NEW a \in 1..l
          PROVE  w + a \in 1..w+l /\ ~(w + a <= w) /\ (w + a) - w = a
      OBVIOUS
    <3>2. LenWidth(c) \in Nat /\ Len(z) = LenWidth(c) /\ Len(y) = n /\ n \in Nat
      BY <1>1, <1>4, <1>5, <1>6
    <3> QED
      BY ONLY <1>9, <3>1, <3>2
  <2> QED
    BY <1>7, <2>1
<1> QED
  BY <1>1, <1>3, <1>4, <1>6, <1>7, <1>8, <1>9 DEF n, y

\* The bytes of a frame.
LEMMA FrameBytes ==
    ASSUME NEW c \in Input, NEW ps \in Seq(Seq(0..Byte-1)),
           NEW off, Offsets(off, Len(ps), Fielded(c, ps))
    PROVE  LET f == Frame(ps, c.wide)
               m == off[Len(ps)]
           IN  /\ f \in Seq(Nat) /\ m \in Nat /\ Len(f) = m + 4
               /\ f[1] = START /\ f[2] = REPLY /\ f[3] = Len(ps) /\ f[m + 4] = END
               /\ \A p \in 1..Len(ps) : \A j \in 1..Len(Fielded(c, ps)[p]) :
                     /\ off[p-1] + j \in 1..m
                     /\ f[3 + (off[p-1] + j)] = Fielded(c, ps)[p][j]
<1> DEFINE n    == Len(ps)
           seqs == Fielded(c, ps)
           flat == FlattenSeq(seqs)
           head == <<START, REPLY, n>>
           end  == <<END>>
           body == head \o flat
           m    == off[n]
<1>1. n \in Nat /\ DOMAIN ps = 1..n
  BY LenProperties
<1>2. seqs \in Seq(Seq(Nat)) /\ Len(seqs) = n
  <2>1. \A p \in 1..n : seqs[p] \in Seq(Nat)
    BY FieldFacts
  <2>2. seqs = [p \in 1..n |-> seqs[p]]
    BY <1>1 DEF Fielded
  <2> HIDE DEF n, seqs
  <2>3. seqs \in [1..n -> Seq(Nat)]
    BY <2>1, <2>2
  <2> QED
    BY <1>1, <2>3
<1>3. /\ flat \in Seq(Nat) /\ Len(flat) = m /\ LaidOut(flat, n, seqs, off)
  <2> HIDE DEF seqs
  <2> QED
    BY <1>1, <1>2, FlattenedAt DEF seqs
<1>4. m \in Nat
  BY <1>1 DEF Offsets
<1>5. /\ head \in Seq(Nat) /\ Len(head) = 3 /\ head[1] = START /\ head[2] = REPLY /\ head[3] = n
      /\ end \in Seq(Nat) /\ Len(end) = 1 /\ end[1] = END
  BY <1>1, ConstantsAssumption
<1>6. Frame(ps, c.wide) = body \o end
  BY DEF Frame, Fielded
<1> HIDE DEF head, end, flat, seqs, m
<1>7. /\ body \in Seq(Nat) /\ Len(body) = 3 + m
      /\ \A j \in 1..3 + m : body[j] = IF j <= 3 THEN head[j] ELSE flat[j - 3]
  <2>1. /\ head \o flat \in Seq(Nat) /\ Len(head \o flat) = Len(head) + Len(flat)
        /\ \A j \in 1..Len(head) + Len(flat) :
              (head \o flat)[j] = IF j <= Len(head) THEN head[j] ELSE flat[j - Len(head)]
    BY <1>3, <1>5, ConcatProperties, ZenonT(60)
  <2> QED
    BY <1>3, <1>5, <2>1
<1> HIDE DEF body
<1>8. /\ body \o end \in Seq(Nat) /\ Len(body \o end) = m + 4
      /\ \A j \in 1..m + 4 : (body \o end)[j] = IF j <= 3 + m THEN body[j] ELSE end[j - (3 + m)]
  <2>1. /\ body \o end \in Seq(Nat) /\ Len(body \o end) = Len(body) + Len(end)
        /\ \A j \in 1..Len(body) + Len(end) :
              (body \o end)[j] = IF j <= Len(body) THEN body[j] ELSE end[j - Len(body)]
    <3>1. body \in Seq(Nat) /\ end \in Seq(Nat)
      BY <1>5, <1>7
    <3> QED
      BY ONLY <3>1, ConcatProperties
  <2>2. (3 + m) + 1 = m + 4
    BY <1>4
  <2> QED
    BY <1>5, <1>7, <2>1, <2>2
<1>9. /\ (body \o end)[1] = START /\ (body \o end)[2] = REPLY /\ (body \o end)[3] = n
      /\ (body \o end)[m + 4] = END
  <2>1. 1 \in 1..m+4 /\ 2 \in 1..m+4 /\ 3 \in 1..m+4 /\ m + 4 \in 1..m+4
        /\ 1 \in 1..3+m /\ 2 \in 1..3+m /\ 3 \in 1..3+m /\ ~(m + 4 <= 3 + m) /\ (m + 4) - (3 + m) = 1
    BY <1>4
  <2> QED
    BY <1>5, <1>7, <1>8, <2>1
<1>10. ASSUME NEW p \in 1..n, NEW j \in 1..Len(seqs[p])
       PROVE  off[p-1] + j \in 1..m /\ (body \o end)[3 + (off[p-1] + j)] = seqs[p][j]
  <2>1. off[p-1] + j \in 1..m /\ flat[off[p-1] + j] = seqs[p][j]
    BY <1>3, <1>10 DEF LaidOut, m
  <2> DEFINE b == off[p-1] + j
  <2>2. b \in 1..m /\ flat[b] = seqs[p][j]
    BY <2>1
  <2> HIDE DEF b
  <2>3. 3 + b \in 1..m+4 /\ 3 + b \in 1..3+m /\ ~(3 + b <= 3) /\ (3 + b) - 3 = b /\ 3 + b <= 3 + m
    BY <1>4, <2>2
  <2>4. (body \o end)[3 + b] = flat[b]
    BY <1>7, <1>8, <2>3
  <2> QED
    BY <2>2, <2>4 DEF b
<1> QED
  BY <1>4, <1>6, <1>8, <1>9, <1>10 DEF m, seqs

LEMMA PrefixAt ==
    ASSUME NEW f \in Seq(Nat), NEW s \in Seq(Nat), NEW k \in Nat, k <= Len(s),
           IsPrefix(f, SubSeq(s, k + 1, Len(s)))
    PROVE  k + Len(f) <= Len(s) /\ \A j \in 1..Len(f) : s[k + j] = f[j]
<1> DEFINE t == SubSeq(s, k + 1, Len(s))
           n == Len(s)
           m == Len(f)
<1>1. /\ n \in Nat /\ m \in Nat /\ \A j \in 1..n : s[j] \in Nat
  BY LenProperties, ElementOfSeq
<1>2. k + 1 \in Int /\ n \in Int /\ \A j \in k+1..n : s[j] \in Nat
  BY <1>1
<1>3. /\ t \in Seq(Nat) /\ Len(t) = IF k + 1 <= n THEN n - (k + 1) + 1 ELSE 0
      /\ \A j \in 1..n - (k + 1) + 1 : t[j] = s[(k + 1) + j - 1]
  BY <1>2, SubSeqProperties
<1>4. m <= Len(t) /\ SubSeq(f, 1, m) = SubSeq(t, 1, m)
  BY DEF IsPrefix
<1> HIDE DEF t, n
<1>5. Len(t) = n - k
  BY <1>1, <1>3 DEF n
<1>6. SubSeq(f, 1, m) = f
  BY SubSeqFull
<1> HIDE DEF m
<1>7. /\ k + m <= n
      /\ \A j \in 1..m : j \in 1..Len(t) /\ j \in 1..n - (k + 1) + 1 /\ (k + 1) + j - 1 = k + j
  BY <1>1, <1>4, <1>5
<1>8. ASSUME NEW j \in 1..m PROVE SubSeq(t, 1, m)[j] = t[j]
  <2>1. 1 \in Int /\ m \in Int /\ \A b \in 1..m : t[b] \in Nat
    BY <1>1, <1>3, <1>7, ElementOfSeq
  <2>2. j \in 1..m - 1 + 1 /\ 1 + j - 1 = j
    BY <1>1
  <2> QED
    BY <2>1, <2>2, SubSeqProperties
<1>9. \A j \in 1..m : s[k + j] = f[j]
  BY <1>3, <1>4, <1>6, <1>7, <1>8
<1> QED
  BY <1>7, <1>9 DEF m, n

\* Behind its header, at k, a call holds the parameters ps, of which the first
\* p end with byte off[p].
Laid(c, k, ps, off) ==
    /\ off \in [0..Len(ps) -> Nat] /\ off[0] = 0
    /\ \A p \in 1..Len(ps) :
          /\ off[p] = off[p-1] + (LenWidth(c) + Len(ps[p]))
          /\ LenBehind(c, k, off[p-1] + 1) = Len(ps[p])
          /\ \A b \in 1..Len(ps[p]) :
                ByteBehind(c, k, off[p-1] + (LenWidth(c) + b)) = ps[p][b]
    /\ ByteBehind(c, k, off[Len(ps)] + 1) = END

LEMMA HeldFrame ==
    ASSUME NEW c \in Input, NEW ps \in Seq(Seq(0..Byte-1)), Holds(c, ps)
    PROVE  \E k \in Noise(c) : c.rx[k + 3] = Len(ps) /\ \E off : Laid(c, k, ps, off)
<1> DEFINE n    == Len(ps)
           f    == Frame(ps, c.wide)
           seqs == Fielded(c, ps)
<1>1. PICK k \in 0..TIMEOUT_CHAR :
         /\ k <= Len(c.rx)
         /\ \A b \in 1..k : c.rx[b] \notin {START, ERR}
         /\ IsPrefix(f, SubSeq(c.rx, k + 1, Len(c.rx)))
  BY DEF Holds
<1>2. n \in Nat /\ k \in Nat /\ Len(c.rx) \in Nat /\ DOMAIN c.rx = 1..Len(c.rx)
  BY <1>1, LenProperties, InputFacts, ConstantsAssumption
<1>3. PICK off : Offsets(off, n, seqs)
  <2>1. ASSUME NEW p \in 1..n PROVE Len(seqs[p]) \in Nat
    BY FieldFacts, LenProperties
  <2> HIDE DEF seqs
  <2> QED
    BY <1>2, <2>1, OffsetsExist
<1> DEFINE m == off[n]
<1>4. /\ f \in Seq(Nat) /\ m \in Nat /\ Len(f) = m + 4
      /\ f[1] = START /\ f[2] = REPLY /\ f[3] = n /\ f[m + 4] = END
      /\ \A p \in 1..n : \A j \in 1..Len(seqs[p]) :
            off[p-1] + j \in 1..m /\ f[3 + (off[p-1] + j)] = seqs[p][j]
  BY <1>3, FrameBytes
<1>5. c.rx \in Seq(Nat)
  <2> DEFINE T == 0..Byte-1
             s == c.rx
  <2>1. T \subseteq Nat /\ s \in Seq(T)
    BY InputFacts
  <2> HIDE DEF T, s
  <2>2. s \in Seq(Nat)
    BY <2>1, SeqMonotonic
  <2> QED
    BY <2>2 DEF s
<1> HIDE DEF f, seqs
<1>6. k + Len(f) <= Len(c.rx) /\ \A j \in 1..Len(f) : c.rx[k + j] = f[j]
  <2> DEFINE s == c.rx
  <2>1. s \in Seq(Nat) /\ k <= Len(s) /\ IsPrefix(f, SubSeq(s, k + 1, Len(s)))
    BY <1>1, <1>5
  <2> HIDE DEF s
  <2>2. k + Len(f) <= Len(s) /\ \A j \in 1..Len(f) : s[k + j] = f[j]
    BY <1>2, <1>4, <2>1, PrefixAt
  <2> QED
    BY <2>2 DEF s
<1> HIDE DEF m
<1>7. /\ k + 3 <= Len(c.rx)
      /\ c.rx[k + 1] = START /\ c.rx[k + 2] = REPLY /\ c.rx[k + 3] = n
  <2>1. 1 \in 1..Len(f) /\ 2 \in 1..Len(f) /\ 3 \in 1..Len(f) /\ k + 3 <= Len(c.rx)
    BY <1>2, <1>4, <1>6
  <2> QED
    BY <1>4, <1>6, <2>1
<1>8. k \in Noise(c)
  BY <1>1, <1>7 DEF Noise
<1>9. ASSUME NEW q \in 1..m+1 PROVE ByteBehind(c, k, q) = f[3 + q]
  <2>1. 3 + q \in 1..Len(f) /\ k + 3 + q = k + (3 + q) /\ k + 3 + q \in 1..Len(c.rx)
    BY <1>2, <1>4, <1>6, SMTT(30)
  <2>2. c.rx[k + (3 + q)] = f[3 + q]
    BY <1>6, <2>1
  <2> QED
    BY <1>2, <2>1, <2>2 DEF ByteBehind, Values!ByteAt
<1>10. ByteBehind(c, k, m + 1) = END
  <2>1. m + 1 \in 1..m+1 /\ 3 + (m + 1) = m + 4
    BY <1>4
  <2> QED
    BY <1>4, <1>9, <2>1
<1>11. off \in [0..n -> Nat] /\ off[0] = 0
  BY <1>3 DEF Offsets
<1>12. ASSUME NEW p \in 1..n
       PROVE  /\ off[p] = off[p-1] + (LenWidth(c) + Len(ps[p]))
              /\ LenBehind(c, k, off[p-1] + 1) = Len(ps[p])
              /\ \A b \in 1..Len(ps[p]) :
                    ByteBehind(c, k, off[p-1] + (LenWidth(c) + b)) = ps[p][b]
  <2> DEFINE L == Len(ps[p])
             o == off[p-1]
             W == LenWidth(c)
             x == seqs[p]
  <2>1. /\ L \in Nat /\ Len(x) = W + L
        /\ L = IF c.wide THEN x[1] * Byte + x[2] ELSE x[1]
        /\ \A b \in 1..L : x[W + b] = ps[p][b]
    BY FieldFacts DEF seqs
  <2>2. W = IF c.wide THEN 2 ELSE 1
    BY DEF LenWidth
  <2>3. off[p] = o + (W + L)
    BY <1>3, <2>1 DEF Offsets
  <2>4. o \in Nat
    <3>1. p - 1 \in 0..n
      BY <1>2
    <3> HIDE DEF n
    <3> QED
      BY <1>11, <3>1
  <2>5. \A j \in 1..W + L : o + j \in 1..m /\ f[3 + (o + j)] = x[j]
    BY <1>4, <2>1
  <2> HIDE DEF L, o, W, x
  <2>6. \A j \in 1..W + L : ByteBehind(c, k, o + j) = x[j]
    <3>1. \A q \in 1..m : q \in 1..m+1
      BY <1>4
    <3>2. \A q \in 1..m : ByteBehind(c, k, q) = f[3 + q]
      BY <1>9, <3>1
    <3> QED
      BY <2>5, <3>2
  <2>7. LenBehind(c, k, o + 1) = L
    <3>1. (o + 1) + 1 = o + 2 /\ 1 \in 1..W+L /\ (c.wide => 2 \in 1..W+L)
      BY <2>1, <2>2, <2>4
    <3>2. ByteBehind(c, k, o + 1) = x[1] /\ (c.wide => ByteBehind(c, k, (o + 1) + 1) = x[2])
      BY <2>6, <3>1
    <3> QED
      BY <2>1, <3>2 DEF LenBehind
  <2>8. ASSUME NEW b \in 1..L PROVE ByteBehind(c, k, o + (W + b)) = ps[p][b]
    <3>1. W + b \in 1..W+L
      BY <2>1, <2>2
    <3> QED
      BY <2>1, <2>6, <3>1
  <2> QED
    BY <2>3, <2>7, <2>8 DEF L, o, W
<1>13. Laid(c, k, ps, off)
  BY <1>10, <1>11, <1>12 DEF Laid, m, n
<1> QED
  BY <1>7, <1>8, <1>13 DEF n

\* A frame whose parameters all fit is parsed where its parameters are.
LEMMA PlacesLaid ==
    ASSUME NEW c \in Input, NEW ps \in Seq(Seq(0..Byte-1)), NEW k \in Noise(c), RoomFor(c, k),
           Count(c, k) = Len(ps), NEW off, Laid(c, k, ps, off),
           \A p \in 1..Len(ps) : Len(ps[p]) < c.size[p]
    PROVE  \A p \in 1..Len(ps) :
              /\ Places(c, k)[p] = off[p-1] + 1 /\ Kept(c, k, Places(c, k)[p], p) = Len(ps[p])
              /\ Places(c, k)[p+1] = off[p] + 1
<1> DEFINE n  == Len(ps)
           at == Places(c, k)
           W  == LenWidth(c)
           L(p) == Len(ps[p])
           S  == {p \in 1..n : at[p] = off[p-1] + 1}
<1>1. n \in Nat /\ W \in Nat /\ \A p \in 1..n : L(p) \in Nat
  BY LenProperties, ElementOfSeq, InputFacts
<1>2. /\ at[1] = 1 /\ \A p \in 1..n : at[p+1] = at[p] + W + Kept(c, k, at[p], p)
  BY PlacesFacts
<1>3. /\ \A p \in 0..n : off[p] \in Nat
      /\ off[0] = 0
      /\ \A p \in 1..n : off[p] = off[p-1] + (W + L(p)) /\ LenBehind(c, k, off[p-1] + 1) = L(p)
  BY DEF Laid
<1>4. \A p \in 1..n : L(p) < c.size[p] /\ c.size[p] \in Nat
  <2>1. n \in 0..Len(c.size) /\ Len(c.size) \in Nat
    BY HeaderFacts, InputFacts
  <2>2. \A p \in 1..n : p \in 1..Len(c.size)
    BY <2>1
  <2> QED
    BY <2>2, InputFacts
<1> HIDE DEF n, at, W, L
<1>5. ASSUME NEW p \in 1..n, at[p] = off[p-1] + 1
      PROVE  Kept(c, k, at[p], p) = L(p) /\ at[p+1] = off[p] + 1
  <2>1. Kept(c, k, at[p], p) = L(p)
    <3>1. LenBehind(c, k, at[p]) = L(p)
      BY <1>3, <1>5
    <3>2. ~(L(p) >= c.size[p])
      BY <1>1, <1>4
    <3> QED
      BY <3>1, <3>2 DEF Kept, Values!Kept
  <2>2. off[p-1] \in Nat
    <3>1. p - 1 \in 0..n
      BY <1>1
    <3> QED
      BY <1>3, <3>1
  <2>3. at[p+1] = (off[p-1] + 1) + W + L(p) /\ off[p] = off[p-1] + (W + L(p))
    BY <1>2, <1>3, <1>5, <2>1
  <2>4. ASSUME NEW o \in Nat, NEW w \in Nat, NEW l \in Nat
        PROVE  (o + 1) + w + l = (o + (w + l)) + 1
    OBVIOUS
  <2>5. L(p) \in Nat
    BY <1>1
  <2> QED
    BY ONLY <1>1, <2>1, <2>2, <2>3, <2>4, <2>5
<1>6. n > 0 => 1 \in S
  <2>1. n > 0 => 1 \in 1..n
    BY <1>1
  <2> QED
    BY <1>2, <1>3, <2>1
<1>7. ASSUME NEW p \in 1..n-1, p \in S PROVE p + 1 \in S
  <2>1. p \in 1..n /\ p + 1 \in 1..n /\ (p + 1) - 1 = p
    BY <1>1
  <2> QED
    BY <1>5, <1>7, <2>1
<1> HIDE DEF S
<1>8. \A p \in 1..n : p \in S
  BY <1>1, <1>6, <1>7, InductionUpTo
<1> QED
  BY <1>5, <1>8 DEF S, n, at, L

\* A well-formed reply that is clocked in whole, and whose parameters fit, is
\* accepted and stored as it was sent, with lengths in one byte or two, for any
\* number and lengths of its parameters and behind any noise of at most
\* TIMEOUT_CHAR bytes.
THEOREM RepliesAreStored == Spec => []RoundTrip
<1>1. TypeOK /\ ParseInv /\ ParsePosition => RoundTrip
  <2> SUFFICES ASSUME TypeOK, ParseInv, ParsePosition, pc = "done", NEW ps \in Payloads,
                      Holds(call, ps), Len(ps) \in Params,
                      \A p \in DOMAIN ps : Len(ps[p]) < call.size[p]
               PROVE  StoredAsSent(ps)
    BY DEF RoundTrip
  <2> DEFINE n == Len(ps)
             W == LenWidth(call)
  <2>1. call \in Input /\ ps \in Seq(Seq(0..Byte-1))
    BY PayloadsAssumption DEF TypeOK
  <2>2. /\ n \in Nat /\ n > 0 /\ n <= Len(call.size) /\ Len(call.size) \in Nat
        /\ DOMAIN ps = 1..n /\ \A p \in 1..n : ps[p] \in Seq(0..Byte-1) /\ Len(ps[p]) \in Nat
    BY <2>1, LenProperties, ElementOfSeq, InputFacts DEF Params, maxNumParams
  <2>3. PICK k \in Noise(call) : call.rx[k + 3] = n /\ \E off : Laid(call, k, ps, off)
    BY <2>1, HeldFrame
  <2>4. PICK off : Laid(call, k, ps, off)
    BY <2>3
  <2>5. Count(call, k) = n
    BY <2>2, <2>3 DEF Count
  <2>6. RoomFor(call, k)
    <3>1. ASSUME NEW p \in 1..n PROVE call.size[p] > 0
      <4>1. Len(ps[p]) < call.size[p] /\ Len(ps[p]) \in Nat /\ p \in 1..Len(call.size)
        BY <2>2
      <4>2. call.size[p] \in Nat
        BY <2>1, <4>1, InputFacts
      <4> QED
        BY <4>1, <4>2
    <3> QED
      BY <2>5, <3>1 DEF RoomFor
  <2>7. \A p \in 1..n :
           /\ Places(call, k)[p] = off[p-1] + 1 /\ Kept(call, k, Places(call, k)[p], p) = Len(ps[p])
           /\ Places(call, k)[p+1] = off[p] + 1
    BY <2>1, <2>2, <2>4, <2>5, <2>6, PlacesLaid, ZenonT(60)
  <2>8. ret = 1 /\ numParamRead = << n >>
    <3>1. Decided(k)
      BY <2>6 DEF ParsePosition
    <3>2. Places(call, k)[n+1] = off[n] + 1
      <4>1. n \in 1..n
        BY <2>2
      <4> HIDE DEF n
      <4> QED
        BY <2>7, <4>1
    <3>3. ByteBehind(call, k, off[n] + 1) = END
      BY <2>4 DEF Laid
    <3> QED
      BY <2>2, <2>5, <3>1, <3>2, <3>3 DEF Decided
  <2>9. ASSUME NEW p \in 1..n
        PROVE  stored[p] = ps[p] \o << 0 >> /\ paramLen[p] = Len(ps[p])
    <3> DEFINE L == Len(ps[p])
               o == off[p-1]
               x == stored[p]
               y == ps[p]
    <3>1. /\ x \in Seq(0..Byte-1) /\ Len(x) = L + 1 /\ x[L + 1] = 0 /\ paramLen[p] = L
          /\ \A b \in 1..L : x[b] = ByteBehind(call, k, (o + 1) + W + b - 1)
      <4>1. p \in 1..Count(call, k) /\ Places(call, k)[p] = o + 1
            /\ Kept(call, k, Places(call, k)[p], p) = L
        BY <2>5, <2>7
      <4> DEFINE q == Places(call, k)[p]
                 m == Kept(call, k, q, p)
      <4>2. /\ x \in Seq(0..Byte-1) /\ Len(x) = m + 1 /\ x[m + 1] = 0 /\ paramLen[p] = m
            /\ \A b \in 1..m : x[b] = ByteBehind(call, k, q + W + b - 1)
        BY <2>6, <4>1, ParameterStored
      <4>3. q = o + 1 /\ m = L
        BY <4>1
      <4> HIDE DEF q, m, x, W, o, L
      <4> QED
        BY <4>2, <4>3
    <3>2. \A b \in 1..L : ByteBehind(call, k, o + (W + b)) = y[b]
      BY <2>4 DEF Laid
    <3>3. o \in Nat /\ W \in Nat /\ L \in Nat
      <4>1. p - 1 \in 0..n /\ off \in [0..n -> Nat]
        BY <2>2, <2>4 DEF Laid
      <4>2. W \in Nat
        BY DEF LenWidth
      <4> HIDE DEF n
      <4> QED
        BY <2>2, <4>1, <4>2
    <3>4. y \in Seq(0..Byte-1) /\ Len(y) = L
      BY <2>2
    <3> HIDE DEF L, o, x, y, W
    <3>5. \A b \in 1..L : x[b] = y[b]
      <4>1. \A b \in 1..L : (o + 1) + W + b - 1 = o + (W + b)
        BY <3>3
      <4> QED
        BY <3>1, <3>2, <4>1
    <3>6. x = y \o << 0 >>
      <4> DEFINE T == 0..Byte-1
      <4>1. 0 \in T /\ x \in Seq(T) /\ y \in Seq(T) /\ Len(x) = Len(y) + 1 /\ x[Len(y) + 1] = 0
            /\ \A b \in 1..Len(y) : x[b] = y[b]
        BY <3>1, <3>4, <3>5, ConstantsAssumption
      <4> HIDE DEF T
      <4> QED
        BY <4>1, WithTerminator
    <3> QED
      BY <3>1, <3>6 DEF x, y, L
  <2> QED
    BY <2>2, <2>8, <2>9 DEF StoredAsSent
<1> QED
  BY <1>1, TypeCorrect, ParseInvariant, PositionInvariant, PTL

\* Of a reply of one parameter, whether it fits or is cut, the parse stores and
\* returns what ReplyValues says: a parameter that is too long is refused, but
\* for one with the byte END_CMD where it is cut.
THEOREM OneParameterIsTheFunction == Spec => []OneParameterIsFunction
<1>1. TypeOK /\ ParseInv /\ ParsePosition => OneParameterIsFunction
  <2> SUFFICES ASSUME TypeOK, ParseInv, ParsePosition, pc = "done", HasRoom, NEW ps \in Payloads,
                      Holds(call, ps), Len(ps) = 1, maxNumParams > 0
               PROVE  /\ stored[1] = Values!Stored(ps[1], call.size[1])
                      /\ ret = 1 <=> Values!Accepted(ps, call.size[1])
    BY DEF OneParameterIsFunction
  <2> DEFINE W == LenWidth(call)
             y == ps[1]
             x == stored[1]
             L == Len(y)
             room == call.size[1]
             m == Values!Kept(L, room)
             z == SubSeq(y, 1, m)
             T == 0..Byte-1
  <2>1. call \in Input /\ ps \in Seq(Seq(T)) /\ ps # << >>
    <3>1. Len(ps) # 0 /\ ps \in Seq(Seq(T)) /\ call \in Input
      BY PayloadsAssumption DEF TypeOK
    <3> HIDE DEF T
    <3> QED
      BY <3>1, EmptySeq
  <2>2. /\ y \in Seq(T) /\ L \in Nat /\ W \in {1, 2} /\ 0 \in T
        /\ room \in Nat /\ room > 0
    <3>1. 1 \in 1..Len(ps)
      OBVIOUS
    <3>2. y \in Seq(T) /\ 0 \in T
      BY <2>1, <3>1, ElementOfSeq, ConstantsAssumption
    <3>3. 1 \in Params /\ 1 \in 1..Len(call.size)
      BY <2>1, InputFacts DEF Params, maxNumParams
    <3>4. room \in Nat /\ room > 0
      BY <2>1, <3>3, InputFacts DEF HasRoom
    <3> HIDE DEF T
    <3> QED
      BY <2>1, <3>2, <3>4, LenProperties, InputFacts
  <2>3. PICK k \in Noise(call) : call.rx[k + 3] = 1 /\ \E off : Laid(call, k, ps, off)
    BY <2>1, HeldFrame
  <2>4. PICK off : Laid(call, k, ps, off)
    BY <2>3
  <2>5. Count(call, k) = 1
    BY <2>1, <2>3, InputFacts DEF Count, maxNumParams
  <2>6. RoomFor(call, k)
    BY <2>2, <2>5 DEF RoomFor
  <2>7. /\ LenBehind(call, k, 1) = L /\ ByteBehind(call, k, (W + L) + 1) = END
        /\ \A b \in 1..L : ByteBehind(call, k, W + b) = y[b]
    <3>1. /\ off[0] = 0 /\ off[1] = off[1-1] + (W + L)
          /\ LenBehind(call, k, off[1-1] + 1) = L /\ ByteBehind(call, k, off[1] + 1) = END
          /\ \A b \in 1..L : ByteBehind(call, k, off[1-1] + (W + b)) = y[b]
      BY <2>4 DEF Laid
    <3>2. 1 - 1 = 0 /\ 0 + 1 = 1 /\ 0 + (W + L) = W + L /\ \A b \in 1..L : 0 + (W + b) = W + b
      BY <2>2
    <3> HIDE DEF W, L, y
    <3> QED
      BY <3>1, <3>2
  <2>8. Places(call, k)[1] = 1 /\ Kept(call, k, 1, 1) = m /\ Places(call, k)[2] = 1 + W + m
    <3>1. 1 \in 1..Count(call, k) /\ 1 + 1 = 2
      BY <2>5
    <3>2. Places(call, k)[1] = 1
      BY <2>1, <2>6, PlacesFacts
    <3>3. Places(call, k)[1+1] = Places(call, k)[1] + W + Kept(call, k, Places(call, k)[1], 1)
      BY <2>1, <2>6, <3>1, PlacesFacts
    <3>4. Kept(call, k, 1, 1) = m
      BY <2>7 DEF Kept
    <3> QED
      BY <3>1, <3>2, <3>3, <3>4
  <2>9. m \in Nat /\ m <= L /\ (L < room => m = L) /\ (~(L < room) => m = room - 1 /\ room <= L)
    BY <2>2 DEF Values!Kept
  <2>10. ret = 1 <=> Values!Accepted(ps, room)
    <3>1. ret = 1 <=> ByteBehind(call, k, 1 + W + m) = END
      <4>1. Decided(k) /\ 1 + 1 = 2
        BY <2>6 DEF ParsePosition
      <4> HIDE DEF m, W
      <4> QED
        BY <2>5, <2>8, <4>1 DEF Decided
    <3>2. Values!Accepted(ps, room) <=> L < room \/ y[room] = END
      BY <2>1 DEF Values!Accepted
    <3> HIDE DEF m, W, L, y, room
    <3>3. CASE L < room
      <4>1. 1 + W + m = (W + L) + 1
        BY <2>2, <2>9, <3>3
      <4> QED
        BY <2>7, <3>1, <3>2, <3>3, <4>1
    <3>4. CASE ~(L < room)
      <4>1. 1 + W + m = W + room /\ room \in 1..L
        BY <2>2, <2>9, <3>4
      <4> QED
        BY <2>7, <3>1, <3>2, <3>4, <4>1
    <3> QED
      BY <3>3, <3>4
  <2>11. x = z \o << 0 >>
    <3>1. /\ x \in Seq(T) /\ Len(x) = m + 1 /\ x[m + 1] = 0
          /\ \A b \in 1..m : x[b] = ByteBehind(call, k, 1 + W + b - 1)
      <4>1. 1 \in 1..Count(call, k)
        BY <2>5
      <4> QED
        BY <2>6, <2>8, <4>1, ParameterStored
    <3>2. z \in Seq(T) /\ Len(z) = m /\ \A b \in 1..m : z[b] = y[b]
      <4>1. 1 \in Int /\ m \in Int /\ \A b \in 1..m : y[b] \in T
        <5> HIDE DEF y, m, T
        <5> QED
          BY <2>2, <2>9, ElementOfSeq DEF L
      <4> HIDE DEF y, m, T
      <4>2. /\ z \in Seq(T) /\ Len(z) = IF 1 <= m THEN m - 1 + 1 ELSE 0
            /\ \A b \in 1..m - 1 + 1 : z[b] = y[1 + b - 1]
        BY <4>1, SubSeqProperties
      <4> HIDE DEF z
      <4>3. \A b \in 1..m : b \in 1..m - 1 + 1 /\ 1 + b - 1 = b
        BY <2>9
      <4> QED
        BY <2>9, <4>2, <4>3
    <3> HIDE DEF x, z, y, m, W, T, L
    <3>3. \A b \in 1..m : x[b] = z[b]
      <4>1. \A b \in 1..m : 1 + W + b - 1 = W + b /\ b \in 1..L
        BY <2>2, <2>9
      <4> QED
        BY <2>7, <3>1, <3>2, <4>1
    <3> QED
      BY <2>2, <3>1, <3>2, <3>3, WithTerminator
  <2> QED
    BY <2>10, <2>11 DEF Values!Stored
<1> QED
  BY <1>1, TypeCorrect, ParseInvariant, PositionInvariant, PTL
=============================================================================
