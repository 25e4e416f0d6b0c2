------------------------- MODULE ReplyParserProofs --------------------------
(***************************************************************************)
(* Proofs about the parse of a reply, for every receive buffer and every   *)
(* array of caller's buffers: bytes from the coprocessor never carry a     *)
(* write past the end of a buffer, and an accepted reply leaves nothing    *)
(* unset.                                                                  *)
(***************************************************************************)
EXTENDS ReplyParser, SequenceTheorems, TLAPS

\* What a call is, without the sets it is taken from.
LEMMA CallFacts == ASSUME call \in Input
                   PROVE  /\ maxNumParams \in Nat
                          /\ call.size \in [Params -> Nat]
                          /\ call.rx \in Seq(0..Byte-1)
                          /\ call.wide \in BOOLEAN
BY DEF Input, maxNumParams, Params

LEMMA WidthFacts == Width \in Nat /\ Width >= 1
<1>1. Byte \in Nat /\ Byte >= 1
    BY ConstantsAssumption
<1>2. Byte * Byte \in Nat /\ Byte * Byte >= 1
    BY <1>1
<1> QED
    BY <1>1, <1>2 DEF Width

\* Reading takes a byte off the buffer, or makes up a zero.
LEMMA ReadFacts == ASSUME NEW buf \in Seq(0..Byte-1)
                   PROVE  readChar(buf) \in 0..Byte-1 /\ Consume(buf) \in Seq(0..Byte-1)
<1>1. CASE buf = << >>
    BY <1>1, ConstantsAssumption DEF readChar, Consume
<1>2. CASE buf # << >>
    BY <1>2, HeadTailProperties DEF readChar, Consume
<1> QED
    BY <1>1, <1>2

\* *numParamRead, once assigned, is no more than the caller has room for.
LEMMA CountFacts == TypeOK /\ numParamRead # << >> => numParam \in 0..maxNumParams
<1> SUFFICES ASSUME TypeOK, numParamRead # << >> PROVE numParam \in 0..maxNumParams
    OBVIOUS
<1>1. PICK n \in 0..maxNumParams : numParamRead = <<n>>
    BY DEF TypeOK
<1> QED
    BY <1>1 DEF numParam

\* The length that is stored fits with its terminator, if anything does.
LEMMA ClipFacts == ASSUME NEW n \in Nat, NEW size \in Nat
                   PROVE  /\ ClipLen(n, size) \in Nat
                          /\ size > 0 => ClipLen(n, size) < size
BY WidthFacts DEF ClipLen, LessOne

\* The bytes written so far stay, and the new one is the last.
LEMMA AppendFacts == ASSUME NEW S, NEW s \in Seq(S), NEW b \in S
                     PROVE  /\ Append(s, b) \in Seq(S)
                            /\ Len(Append(s, b)) = Len(s) + 1
                            /\ Append(s, b)[Len(s) + 1] = b
OBVIOUS

LEMMA InitInvariant == Init => TypeOK /\ ParseInv
<1> SUFFICES ASSUME Init PROVE TypeOK /\ ParseInv
    OBVIOUS
<1>1. call \in Input
    BY ConstantsAssumption DEF Init
<1>2. TypeOK
    BY <1>1, CallFacts, ConstantsAssumption DEF Init, TypeOK, Params, maxNumParams
<1>3. ParseInv
    BY <1>1, CallFacts DEF Init, ParseInv, Pending, Finished, InProgress, Complete, Params
<1> QED
    BY <1>2, <1>3

LEMMA StepInvariant == TypeOK /\ ParseInv /\ [Next]_vars => TypeOK' /\ ParseInv'
<1> SUFFICES ASSUME TypeOK, ParseInv, [Next]_vars PROVE TypeOK' /\ ParseInv'
    OBVIOUS
<1>0. /\ call \in Input /\ maxNumParams \in Nat /\ call.size \in [Params -> Nat]
      /\ rx \in Seq(0..Byte-1)
    BY CallFacts DEF TypeOK
<1>c. readChar(rx) \in 0..Byte-1 /\ Consume(rx) \in Seq(0..Byte-1)
    BY <1>0, ReadFacts
<1>1. CASE WaitStart
  <2>1. TypeOK'
    <3>1. timeout' \in 0..TIMEOUT_CHAR
      BY <1>1, ConstantsAssumption DEF WaitStart, TypeOK
    <3>2. pc' \in {"start", "cmd", "done"} /\ ret' \in {0, 1} /\ rx' \in Seq(0..Byte-1)
      BY <1>1, <1>c DEF WaitStart, Return, TypeOK
    <3> QED
      BY <1>1, <3>1, <3>2 DEF WaitStart, TypeOK, Params, maxNumParams
  <2>2. ParseInv'
    BY <1>1, <1>0 DEF WaitStart, Return, TypeOK, ParseInv, Pending, Finished, InProgress, Complete,
                      HasRoom, Params, maxNumParams, numParam
  <2> QED
    BY <2>1, <2>2
<1>2. CASE CheckCmd
  <2>1. TypeOK'
    BY <1>2, <1>0, <1>c DEF CheckCmd, Return, TypeOK, Params, maxNumParams
  <2>2. ParseInv'
    BY <1>2, <1>0 DEF CheckCmd, Return, TypeOK, ParseInv, Pending, Finished, InProgress, Complete,
                      HasRoom, Params, maxNumParams, numParam
  <2> QED
    BY <2>1, <2>2
<1>3. CASE ReadNumParam
  <2>1. ClipCount(readChar(rx)) \in 0..maxNumParams
    BY <1>0, <1>c DEF ClipCount
  <2>2. /\ numParamRead' # << >> /\ numParam' \in 0..maxNumParams
        /\ pc' = "len" => numParam' >= 1
    BY <1>3, <1>0, <2>1 DEF ReadNumParam, Return, numParam
  <2>3. i = 1 /\ ret = 0
    <3>1. i = 1
      BY <1>3 DEF ReadNumParam, ParseInv, InProgress
    <3>2. ret # 1
      BY <3>1, CountFacts, <1>0 DEF ParseInv, Complete
    <3> QED
      BY <3>1, <3>2 DEF TypeOK
  <2>4. TypeOK'
    BY <1>3, <1>0, <1>c, <2>1 DEF ReadNumParam, Return, TypeOK, Params, maxNumParams
  <2>5. ParseInv'
    <3>1. /\ pc' \in {"len", "done"} /\ ret' = 0 /\ i' = 1
          /\ call' = call /\ stored' = stored /\ paramLen' = paramLen
      BY <1>3, <2>3 DEF ReadNumParam, Return
    <3>2. Pending'
      BY <1>3, <2>3, <3>1 DEF ReadNumParam, ParseInv, Pending, Params, maxNumParams
    <3>3. Finished'
      BY <1>0, <3>1 DEF Finished, Params, maxNumParams
    <3>4. InProgress'
      BY <1>0, <2>2, <3>1, SMT DEF InProgress
    <3>5. Complete'
      BY <3>1 DEF Complete
    <3> QED
      BY <3>2, <3>3, <3>4, <3>5 DEF ParseInv
  <2> QED
    BY <2>4, <2>5
<1>4. CASE ReadLen
  <2>1. i \in Params /\ paramLen[i] = call.size[i] /\ call.size[i] \in Nat
    <3>1. numParamRead # << >> /\ i <= numParam
      BY <1>4 DEF ReadLen, ParseInv, InProgress
    <3>2. i \in Params
      BY <3>1, <1>0, CountFacts DEF TypeOK, Params
    <3>3. paramLen[i] = call.size[i]
      BY <3>2 DEF TypeOK, ParseInv, Pending, Params
    <3> QED
      BY <3>2, <3>3, <1>0
  <2>2. /\ readChar(Consume(rx)) \in 0..Byte-1
        /\ Consume(Consume(rx)) \in Seq(0..Byte-1)
    BY <1>c, ReadFacts
  <2>3. /\ readChar(rx) \in Nat
        /\ readChar(rx) * Byte + readChar(Consume(rx)) \in Nat
    <3>1. readChar(rx) \in Nat /\ readChar(Consume(rx)) \in Nat /\ Byte \in Nat
      BY <1>c, <2>2, ConstantsAssumption
    <3>2. readChar(rx) * Byte \in Nat
      BY <3>1
    <3> QED
      BY <3>1, <3>2
  <2>4. len' \in Nat /\ rx' \in Seq(0..Byte-1) /\ (HasRoom => len' < call.size[i])
    <3>1. \E n \in Nat : len' = ClipLen(n, call.size[i])
      BY <1>4, <2>1, <2>3 DEF ReadLen
    <3>2. rx' \in Seq(0..Byte-1)
      BY <1>4, <1>c, <2>2 DEF ReadLen
    <3> QED
      BY <2>1, <3>1, <3>2, ClipFacts DEF HasRoom
  <2>5. TypeOK'
    BY <1>4, <1>0, <2>4 DEF ReadLen, TypeOK, Params, maxNumParams
  <2>6. ParseInv'
    BY <1>4, <1>0, <2>1, <2>4 DEF ReadLen, TypeOK, ParseInv, Pending, Finished, InProgress,
                                 Complete, HasRoom, Params, maxNumParams, numParam
  <2> QED
    BY <2>5, <2>6
<1>5. CASE ReadData
  <2>1. i \in Params /\ stored[i] \in Seq(0..Byte-1)
    BY <1>5, <1>0, CountFacts DEF ReadData, TypeOK, ParseInv, InProgress, Params
  <2>2. /\ stored'[i] \in Seq(0..Byte-1) /\ Len(stored'[i]) = Len(stored[i]) + 1
        /\ \A p \in Params \ {i} : stored'[p] = stored[p]
        /\ stored' \in [Params -> Seq(0..Byte-1)]
    <3> DEFINE s == Append(stored[i], readChar(rx))
    <3>1. s \in Seq(0..Byte-1) /\ Len(s) = Len(stored[i]) + 1
      BY <2>1, <1>c, AppendFacts
    <3>2. stored' = [stored EXCEPT ![i] = s]
      BY <1>5 DEF ReadData, Write
    <3> HIDE DEF s
    <3> QED
      BY <2>1, <3>1, <3>2 DEF TypeOK
  <2>3. TypeOK'
    BY <1>5, <1>0, <1>c, <2>2 DEF ReadData, TypeOK, Params, maxNumParams
  <2>4. ParseInv'
    <3>1. /\ pc = "data" /\ Len(stored[i]) < len
          /\ UNCHANGED <<call, pc, numParamRead, i, len, paramLen, ret>>
      BY <1>5 DEF ReadData
    <3>2. Pending' /\ Finished'
      BY <1>0, <2>1, <2>2, <3>1 DEF TypeOK, ParseInv, Pending, Finished, HasRoom, Params,
                                    maxNumParams
    <3>3. InProgress'
      BY <1>0, <2>1, <2>2, <3>1 DEF TypeOK, ParseInv, InProgress, HasRoom, Params, maxNumParams,
                                    numParam
    <3>4. Complete'
      BY <3>1 DEF ParseInv, Complete, numParam
    <3> QED
      BY <3>2, <3>3, <3>4 DEF ParseInv
  <2> QED
    BY <2>3, <2>4
<1>6. CASE Terminate
  <2>1. /\ i \in Params /\ stored[i] \in Seq(0..Byte-1) /\ numParamRead # << >>
        /\ i <= numParam /\ Len(stored[i]) = len /\ (HasRoom => len < call.size[i])
    <3>1. /\ numParamRead # << >> /\ i <= numParam
          /\ Len(stored[i]) <= len /\ Len(stored[i]) >= len /\ (HasRoom => len < call.size[i])
      BY <1>6 DEF Terminate, ParseInv, InProgress
    <3>2. i \in Params
      BY <3>1, <1>0, CountFacts, SMTT(30) DEF TypeOK, Params
    <3>3. stored[i] \in Seq(0..Byte-1) /\ len \in Nat
      BY <3>2 DEF TypeOK
    <3>4. Len(stored[i]) = len
      BY <3>1, <3>3
    <3> QED
      BY <3>1, <3>2, <3>3, <3>4
  <2>2. numParam \in 1..maxNumParams
    BY <2>1, <1>0, CountFacts DEF TypeOK, Params
  <2>3. /\ Len(stored'[i]) = len + 1 /\ stored'[i][len + 1] = 0
        /\ \A p \in Params \ {i} : stored'[p] = stored[p]
        /\ stored' \in [Params -> Seq(0..Byte-1)]
    <3> DEFINE s == Append(stored[i], 0)
    <3>1. s \in Seq(0..Byte-1) /\ Len(s) = len + 1 /\ s[len + 1] = 0
      BY <2>1, AppendFacts, ConstantsAssumption
    <3>2. stored' = [stored EXCEPT ![i] = s]
      BY <1>6 DEF Terminate, Write
    <3> HIDE DEF s
    <3> QED
      BY <2>1, <3>1, <3>2 DEF TypeOK
  <2>4. /\ paramLen' \in [Params -> Nat] /\ paramLen'[i] = len
        /\ \A p \in Params \ {i} : paramLen'[p] = paramLen[p]
    BY <1>6, <2>1 DEF Terminate, TypeOK
  <2>5. TypeOK'
    BY <1>6, <1>0, <2>1, <2>3, <2>4 DEF Terminate, TypeOK, Params, maxNumParams
  <2>6. ParseInv'
    <3>0. i' = i + 1 /\ i \in Nat /\ call' = call
      BY <1>6, <2>1 DEF Terminate, TypeOK
    <3>1. Pending'
      <4> SUFFICES ASSUME NEW p \in Params, p > i
                   PROVE  paramLen'[p] = call.size[p] /\ stored'[p] = << >>
        BY <3>0 DEF Pending, Params, maxNumParams
      <4>1. p \in Params \ {i} /\ p >= i
        BY <3>0 DEF Params
      <4> QED
        BY <4>1, <2>3, <2>4 DEF ParseInv, Pending
    <3>4. Finished'
      <4> SUFFICES ASSUME NEW p \in Params, p < i + 1
                   PROVE  /\ Len(stored'[p]) = paramLen'[p] + 1 /\ stored'[p][paramLen'[p] + 1] = 0
                          /\ HasRoom => paramLen'[p] < call.size[p]
        BY <3>0 DEF Finished, Params, maxNumParams, HasRoom
      <4>1. CASE p = i
        BY <4>1, <2>1, <2>3, <2>4
      <4>2. CASE p # i
        <5>1. p < i /\ p \in Params \ {i}
          BY <4>2, <3>0 DEF Params
        <5> QED
          BY <5>1, <2>3, <2>4 DEF ParseInv, Finished
      <4> QED
        BY <4>1, <4>2
    <3>2. InProgress' /\ Complete'
      BY <1>6, <1>0, <2>1, <2>2 DEF Terminate, TypeOK, ParseInv, InProgress, Complete, numParam
    <3> QED
      BY <3>1, <3>2, <3>4 DEF ParseInv
  <2> QED
    BY <2>5, <2>6
<1>7. CASE CheckEnd
  <2>1. TypeOK'
    BY <1>7, <1>0, <1>c DEF CheckEnd, Return, TypeOK, Params, maxNumParams
  <2>2. ParseInv'
    BY <1>7, <1>0 DEF CheckEnd, Return, TypeOK, ParseInv, Pending, Finished, InProgress, Complete,
                      HasRoom, Params, maxNumParams, numParam
  <2> QED
    BY <2>1, <2>2
<1>8. CASE Done \/ UNCHANGED vars
    BY <1>8 DEF Done, vars, TypeOK, ParseInv, Pending, Finished, InProgress, Complete, HasRoom,
                Params, maxNumParams, numParam
<1> QED
    BY <1>1, <1>2, <1>3, <1>4, <1>5, <1>6, <1>7, <1>8 DEF Next

\* The parse keeps its types and ParseInv whatever bytes it reads: the functions
\* SpiDrv_receiveResponseCmd and SpiDrv_receiveResponseBuffer, byte by byte.
THEOREM ParseInvariant == Spec => [](TypeOK /\ ParseInv)
BY InitInvariant, StepInvariant, PTL DEF Spec

\* No write past the end of a caller's buffer, for all bytes received, all
\* sizes above zero and all parameter counts (the clips of numParam and len).
THEOREM NoOverrun == Spec => []InBounds
<1>1. TypeOK /\ ParseInv => InBounds
  <2> SUFFICES ASSUME TypeOK, ParseInv, HasRoom, NEW p \in Params
               PROVE  Len(stored[p]) <= call.size[p]
    BY DEF InBounds
  <2>0. call.size[p] \in Nat /\ call.size[p] > 0 /\ paramLen[p] \in Nat /\ i \in Nat /\ p \in Nat
    BY CallFacts, SMTT(30) DEF TypeOK, HasRoom, Params
  <2>1. CASE p < i
    BY <2>0, <2>1 DEF ParseInv, Finished
  <2>2. CASE p = i /\ pc = "data"
    BY <2>0, <2>2 DEF ParseInv, InProgress, TypeOK
  <2>3. CASE p > i \/ (p = i /\ pc # "data")
    BY <2>0, <2>3 DEF ParseInv, Pending
  <2> QED
    BY <2>0, <2>1, <2>2, <2>3
<1> QED
    BY <1>1, ParseInvariant, PTL

\* An accepted reply leaves *numParamRead and every parameter it counts set and
\* zero-terminated, which the callers of both functions rely on.
THEOREM AcceptedIsTerminated == Spec => []Terminated
<1>1. TypeOK /\ ParseInv => Terminated
  <2> SUFFICES ASSUME TypeOK, ParseInv, pc = "done", ret = 1
               PROVE  /\ numParamRead # << >> /\ numParam > 0
                      /\ \A p \in 1..numParam :
                            /\ Len(stored[p]) = paramLen[p] + 1
                            /\ stored[p][paramLen[p] + 1] = 0
    BY DEF Terminated
  <2>1. numParamRead # << >> /\ numParam > 0 /\ i = numParam + 1
    BY DEF ParseInv, Complete
  <2>2. numParam \in 0..maxNumParams /\ maxNumParams \in Nat
    BY <2>1, CountFacts, CallFacts DEF TypeOK
  <2>3. \A p \in 1..numParam : p \in Params /\ p < i
    BY <2>1, <2>2 DEF Params
  <2> QED
    BY <2>1, <2>3 DEF ParseInv, Finished
<1> QED
    BY <1>1, ParseInvariant, PTL

\* Every variable of the parse keeps its type: *numParamRead never exceeds the
\* caller's array, and what is stored are bytes.
THEOREM TypeCorrect == Spec => []TypeOK
BY ParseInvariant, PTL

-----------------------------------------------------------------------------
(* What an accepted reply was made of *)

\* A byte that is really read is the next one received, and the buffer is then
\* one shorter; a zero that is made up leaves it empty.
LEMMA ConsumeFacts ==
    ASSUME NEW S, NEW s \in Seq(S), NEW buf \in Seq(S), Len(buf) <= Len(s),
           \A b \in 1..Len(buf) : buf[b] = s[Len(s) - Len(buf) + b]
    PROVE  /\ Len(Consume(buf)) <= Len(buf)
           /\ \A b \in 1..Len(Consume(buf)) : Consume(buf)[b] = s[Len(s) - Len(Consume(buf)) + b]
           /\ buf # << >> => /\ Len(Consume(buf)) = Len(buf) - 1
                             /\ readChar(buf) = s[Len(s) - Len(Consume(buf))]
           /\ buf = << >> => Consume(buf) = << >>
<1>1. CASE buf = << >>
    BY <1>1 DEF Consume
<1>2. CASE buf # << >>
  <2>1. /\ Tail(buf) \in Seq(S) /\ Len(Tail(buf)) = Len(buf) - 1 /\ Len(buf) >= 1
        /\ \A b \in 1..Len(Tail(buf)) : Tail(buf)[b] = buf[b + 1]
    BY <1>2, HeadTailProperties, EmptySeq
  <2>2. Head(buf) = buf[1] /\ buf[1] = s[Len(s) - Len(buf) + 1]
    BY <1>2, <2>1, HeadTailProperties
  <2>3. \A b \in 1..Len(Tail(buf)) : Tail(buf)[b] = s[Len(s) - Len(Tail(buf)) + b]
    <3> SUFFICES ASSUME NEW b \in 1..Len(Tail(buf))
                 PROVE  Tail(buf)[b] = s[Len(s) - Len(Tail(buf)) + b]
      OBVIOUS
    <3>1. b + 1 \in 1..Len(buf) /\ Tail(buf)[b] = buf[b + 1]
      BY <2>1
    <3>2. buf[b + 1] = s[Len(s) - Len(buf) + (b + 1)]
      BY <3>1
    <3>3. Len(s) - Len(buf) + (b + 1) = Len(s) - Len(Tail(buf)) + b
      BY <2>1
    <3> QED
      BY <3>1, <3>2, <3>3
  <2>4. Len(s) - Len(buf) + 1 = Len(s) - Len(Tail(buf))
    BY <2>1
  <2> QED
    BY <1>2, <2>1, <2>2, <2>3, <2>4 DEF Consume, readChar
<1> QED
    BY <1>1, <1>2

\* The conjuncts of FromWire, one by one.
Suffix ==
    /\ Len(rx) <= Len(call.rx)
    /\ \A b \in 1..Len(rx) : rx[b] = call.rx[Taken + b]

RunOf(p) == \E k \in 0..Len(call.rx) :
               k + paramLen[p] <= Taken /\ Received(p, k, paramLen[p])

Current(p) == Len(stored[p]) <= Taken /\ Received(p, Taken - Len(stored[p]), Len(stored[p]))

LEMMA FromWireParts ==
    FromWire <=> /\ Suffix
                 /\ rx # << >> => \A p \in Params : /\ p < i => RunOf(p)
                                                    /\ p = i /\ pc = "data" => Current(p)
BY DEF FromWire, Suffix, RunOf, Current

LEMMA FromWireInit == Init => FromWire
<1> SUFFICES ASSUME Init PROVE FromWire
    OBVIOUS
<1>1. call \in Input /\ call.rx \in Seq(0..Byte-1) /\ rx = call.rx /\ i = 1 /\ pc = "start"
    BY ConstantsAssumption, CallFacts DEF Init
<1>2. Len(call.rx) \in Nat /\ Taken = 0
    BY <1>1 DEF Taken
<1>3. Suffix
    BY <1>1, <1>2 DEF Suffix
<1> QED
    BY <1>1, <1>3, FromWireParts DEF Params

\* A run that has been received stays one when more is read.
LEMMA RunKept ==
    ASSUME NEW p \in Params, RunOf(p), call' = call, stored'[p] = stored[p],
           paramLen'[p] = paramLen[p], paramLen[p] \in Nat,
           Taken \in Nat, Taken' \in Nat, Taken <= Taken'
    PROVE  RunOf(p)'
<1>1. PICK k \in 0..Len(call.rx) : k + paramLen[p] <= Taken /\ Received(p, k, paramLen[p])
    BY DEF RunOf
<1>2. k + paramLen'[p] <= Taken'
    BY <1>1
<1>3. Received(p, k, paramLen[p])'
    BY <1>1 DEF Received
<1> QED
    BY <1>1, <1>2, <1>3 DEF RunOf, Received

\* Reading shortens the buffer from the front.
LEMMA SuffixKept ==
    ASSUME call \in Input, rx \in Seq(0..Byte-1), Suffix, call' = call,
           rx' \in {rx, Consume(rx), Consume(Consume(rx))}
    PROVE  /\ Suffix'
           /\ Taken \in Nat /\ Taken' \in Nat /\ Taken <= Taken'
           /\ rx' # << >> => rx # << >>
<1> DEFINE s == call.rx
           Tails(buf) == /\ buf \in Seq(0..Byte-1) /\ Len(buf) <= Len(rx)
                         /\ \A b \in 1..Len(buf) : buf[b] = s[Len(s) - Len(buf) + b]
                         /\ buf # << >> => rx # << >>
<1>1. s \in Seq(0..Byte-1) /\ Len(s) \in Nat /\ Len(rx) \in Nat /\ Len(rx) <= Len(s)
    BY CallFacts DEF Suffix
<1>2. Tails(rx)
    BY <1>1 DEF Suffix, Taken
<1>3. ASSUME NEW buf, Tails(buf) PROVE Tails(Consume(buf))
  <2>1. Consume(buf) \in Seq(0..Byte-1)
    BY <1>3, ReadFacts
  <2>2. Len(buf) \in Nat /\ Len(Consume(buf)) \in Nat /\ Len(buf) <= Len(s)
    BY <1>1, <1>3, <2>1
  <2> QED
    BY <1>1, <1>3, <2>1, <2>2, ConsumeFacts, SMTT(30)
<1>4. Tails(rx')
  <2>1. Tails(Consume(rx)) /\ Tails(Consume(Consume(rx)))
    BY <1>2, <1>3
  <2> HIDE DEF Tails
  <2> QED
    BY <1>2, <2>1
<1>5. Len(rx') \in Nat
    BY <1>4
<1> QED
    BY <1>1, <1>4, <1>5 DEF Suffix, Taken

\* A step that reads, but stores and finishes nothing.
LEMMA ReadingKeeps ==
    ASSUME TypeOK, FromWire, rx' \in {rx, Consume(rx), Consume(Consume(rx))},
           UNCHANGED <<call, i, stored, paramLen>>,
           pc' # "data" \/ (i \in Params /\ stored[i] = << >>)
    PROVE  FromWire'
<1>1. call \in Input /\ rx \in Seq(0..Byte-1) /\ Suffix /\ call' = call
    BY FromWireParts DEF TypeOK
<1>2. /\ Suffix' /\ Taken \in Nat /\ Taken' \in Nat /\ Taken <= Taken'
      /\ rx' # << >> => rx # << >>
    BY <1>1, SuffixKept
<1> SUFFICES ASSUME rx' # << >>, NEW p \in Params
             PROVE  /\ p < i => RunOf(p)'
                    /\ p = i /\ pc' = "data" => Current(p)'
    BY <1>2, FromWireParts DEF FromWire, Suffix, RunOf, Current, Params, maxNumParams
<1>3. ASSUME p < i PROVE RunOf(p)'
  <2>1. RunOf(p) /\ paramLen[p] \in Nat
    BY <1>2, <1>3, FromWireParts DEF TypeOK
  <2> QED
    BY <1>2, <2>1, RunKept
<1>4. ASSUME p = i, pc' = "data" PROVE Current(p)'
    BY <1>2, <1>4 DEF Current, Received
<1> QED
    BY <1>3, <1>4

LEMMA FromWireStep == TypeOK /\ ParseInv /\ FromWire /\ [Next]_vars => FromWire'
<1> SUFFICES ASSUME TypeOK, ParseInv, FromWire, [Next]_vars PROVE FromWire'
    OBVIOUS
<1>0. /\ call \in Input /\ maxNumParams \in Nat /\ call.rx \in Seq(0..Byte-1)
      /\ rx \in Seq(0..Byte-1) /\ Suffix
    BY CallFacts, FromWireParts DEF TypeOK
<1>1. CASE WaitStart
    BY <1>1, ReadingKeeps DEF WaitStart, Return
<1>2. CASE CheckCmd \/ ReadNumParam \/ CheckEnd
    BY <1>2, ReadingKeeps DEF CheckCmd, ReadNumParam, CheckEnd, Return
<1>3. CASE ReadLen
  <2>1. i \in Params /\ stored[i] = << >>
    BY <1>0, <1>3, CountFacts DEF ReadLen, TypeOK, ParseInv, InProgress, Pending, Params
  <2> QED
    BY <1>3, <2>1, ReadingKeeps DEF ReadLen
<1>4. CASE ReadData
  <2>1. i \in Params /\ stored[i] \in Seq(0..Byte-1) /\ Len(stored[i]) \in Nat
    BY <1>4, <1>0, CountFacts DEF ReadData, TypeOK, ParseInv, InProgress, Params
  <2>2. rx' = Consume(rx) /\ UNCHANGED <<call, pc, i, paramLen>> /\ pc = "data"
    BY <1>4 DEF ReadData
  <2>3. /\ Suffix' /\ Taken \in Nat /\ Taken' \in Nat /\ Taken <= Taken'
        /\ rx' # << >> => rx # << >>
    BY <1>0, <2>2, SuffixKept
  <2>4. stored' = [stored EXCEPT ![i] = Append(stored[i], readChar(rx))]
    BY <1>4 DEF ReadData, Write
  <2> SUFFICES ASSUME rx' # << >>, NEW p \in Params
               PROVE  /\ p < i => RunOf(p)'
                      /\ p = i => Current(p)'
    BY <2>2, <2>3, FromWireParts DEF FromWire, Suffix, RunOf, Current, Params, maxNumParams
  <2>5. ASSUME p < i PROVE RunOf(p)'
    <3>1. RunOf(p) /\ paramLen[p] \in Nat /\ stored'[p] = stored[p]
      BY <2>1, <2>3, <2>4, <2>5, FromWireParts DEF TypeOK, Params
    <3> QED
      BY <2>2, <2>3, <3>1, RunKept
  <2>6. ASSUME p = i PROVE Current(p)'
    <3> DEFINE n == Len(stored[i])
    <3>1. n <= Taken /\ \A b \in 1..n : stored[i][b] = call.rx[Taken - n + b]
      BY <2>1, <2>2, <2>3, FromWireParts DEF Current, Received
    <3>2. Taken' = Taken + 1 /\ readChar(rx) = call.rx[Taken']
      <4>1. /\ Len(rx') = Len(rx) - 1 /\ readChar(rx) = call.rx[Len(call.rx) - Len(rx')]
        <5>1. /\ Len(rx) <= Len(call.rx) /\ rx # << >>
              /\ \A b \in 1..Len(rx) : rx[b] = call.rx[Len(call.rx) - Len(rx) + b]
          BY <1>0, <2>3 DEF Suffix, Taken
        <5> QED
          BY <1>0, <2>2, <5>1, ConsumeFacts, ZenonT(60)
      <4>2. Len(rx) \in Nat /\ Len(call.rx) \in Nat
        BY <1>0
      <4> QED
        BY <2>2, <4>1, <4>2 DEF Taken
    <3>3. /\ stored'[i] = Append(stored[i], readChar(rx)) /\ Len(stored'[i]) = n + 1
          /\ stored'[i][n + 1] = readChar(rx)
          /\ \A b \in 1..n : stored'[i][b] = stored[i][b]
      <4>1. readChar(rx) \in 0..Byte-1
        BY <1>0, ReadFacts
      <4>2. stored'[i] = Append(stored[i], readChar(rx))
        BY <2>1, <2>4 DEF TypeOK
      <4> QED
        BY <2>1, <4>1, <4>2
    <3>4. \A b \in 1..n+1 : stored'[i][b] = call.rx[Taken' - (n + 1) + b]
      <4> SUFFICES ASSUME NEW b \in 1..n+1 PROVE stored'[i][b] = call.rx[Taken' - (n + 1) + b]
        OBVIOUS
      <4>1. CASE b = n + 1
        <5>1. Taken' - (n + 1) + b = Taken'
          BY <2>1, <2>3, <4>1
        <5> QED
          BY <3>2, <3>3, <4>1, <5>1
      <4>2. CASE b # n + 1
        <5>1. b \in 1..n /\ Taken' - (n + 1) + b = Taken - n + b
          BY <2>1, <2>3, <3>2, <4>2
        <5> QED
          BY <3>1, <3>3, <5>1
      <4> QED
        BY <4>1, <4>2
    <3>5. Len(stored'[i]) <= Taken'
      BY <2>1, <2>3, <3>1, <3>2, <3>3
    <3>6. \A b \in 1..Len(stored'[i]) : stored'[i][b] = call.rx[Taken' - Len(stored'[i]) + b]
      BY <3>3, <3>4
    <3> QED
      BY <2>2, <2>6, <3>5, <3>6 DEF Current, Received
  <2> QED
    BY <2>5, <2>6
<1>5. CASE Terminate
  <2>1. /\ i \in Params /\ stored[i] \in Seq(0..Byte-1) /\ Len(stored[i]) = len /\ len \in Nat
        /\ pc = "data" /\ i \in Nat
    BY <1>5, <1>0, CountFacts DEF Terminate, TypeOK, ParseInv, InProgress, Params
  <2>2. rx' = rx /\ call' = call /\ i' = i + 1 /\ pc' # "data"
    BY <1>5 DEF Terminate
  <2>3. Suffix' /\ Taken \in Nat /\ Taken' \in Nat /\ Taken' = Taken
    BY <1>0, <2>2, SuffixKept DEF Taken
  <2>4. /\ stored' = [stored EXCEPT ![i] = Append(stored[i], 0)]
        /\ paramLen' = [paramLen EXCEPT ![i] = len]
    BY <1>5 DEF Terminate, Write
  <2> SUFFICES ASSUME rx' # << >>, NEW p \in Params, p < i + 1 PROVE RunOf(p)'
    BY <2>2, <2>3, FromWireParts DEF FromWire, Suffix, RunOf, Current, Params, maxNumParams
  <2>5. CASE p # i
    <3>1. p < i
      BY <2>1, <2>5 DEF Params
    <3>2. RunOf(p) /\ paramLen[p] \in Nat /\ stored'[p] = stored[p] /\ paramLen'[p] = paramLen[p]
      BY <2>1, <2>2, <2>4, <2>5, <3>1, FromWireParts DEF TypeOK
    <3> QED
      BY <2>2, <2>3, <3>2, RunKept
  <2>6. CASE p = i
    <3>1. len <= Taken /\ \A b \in 1..len : stored[i][b] = call.rx[Taken - len + b]
      BY <2>1, <2>2, FromWireParts DEF Current, Received
    <3>2. paramLen'[i] = len /\ stored'[i] = Append(stored[i], 0)
      BY <2>1, <2>4 DEF TypeOK
    <3>3. \A b \in 1..len : stored'[i][b] = stored[i][b]
      BY <2>1, <3>2, ConstantsAssumption
    <3>4. Taken - len \in 0..Len(call.rx) /\ Taken - len + len <= Taken
      BY <1>0, <2>1, <2>3, <3>1 DEF Taken, Suffix
    <3>5. \A b \in 1..len : stored'[i][b] = call.rx[(Taken - len) + b]
      BY <3>1, <3>3
    <3> DEFINE k == Taken - len
    <3>6. /\ k \in 0..Len(call'.rx) /\ k + paramLen'[p] <= Taken'
          /\ \A b \in 1..paramLen'[p] : stored'[p][b] = call'.rx[k + b]
      BY <2>2, <2>3, <2>6, <3>2, <3>4, <3>5
    <3> HIDE DEF k
    <3> QED
      BY <3>6 DEF RunOf, Received
  <2> QED
    BY <2>5, <2>6
<1>6. CASE Done \/ UNCHANGED vars
  <2>1. /\ call' = call /\ pc' = pc /\ rx' = rx /\ i' = i
        /\ stored' = stored /\ paramLen' = paramLen
    BY <1>6 DEF Done, vars
  <2>2. Taken' = Taken /\ Params' = Params
    BY <2>1 DEF Taken, Params, maxNumParams
  <2> QED
    BY <2>1, <2>2, ZenonT(60) DEF FromWire, Received
<1> QED
    BY <1>1, <1>2, <1>3, <1>4, <1>5, <1>6 DEF Next

\* While bytes are left, everything stored has been received: the invariant of
\* the reads of SpiDrv_readChar in both functions.
THEOREM StoredWasReceived == Spec => []FromWire
BY FromWireInit, FromWireStep, ParseInvariant, PTL DEF Spec

\* The last read found END_CMD, which is not the zero that readChar makes up.
LEMMA AcceptStep ==
    TypeOK /\ ParseInv /\ FromWire /\ NothingMadeUp /\ [Next]_vars => NothingMadeUp'
<1> SUFFICES ASSUME TypeOK, ParseInv, FromWire, NothingMadeUp, [Next]_vars, pc' = "done", ret' = 1,
                    NEW p \in 1..numParam'
             PROVE  \E k \in 0..Len(call'.rx) :
                       /\ k + paramLen'[p] < Len(call'.rx)
                       /\ \A b \in 1..paramLen'[p] : stored'[p][b] = call'.rx[k + b]
    BY DEF NothingMadeUp
<1>1. CASE Done \/ UNCHANGED vars
    BY <1>1 DEF Done, vars, NothingMadeUp, numParam
<1>2. CASE CheckEnd
  <2>1. readChar(rx) = END /\ UNCHANGED <<call, numParamRead, i, stored, paramLen>> /\ pc = "end"
    BY <1>2 DEF CheckEnd, Return
  <2>2. rx # << >>
    BY <2>1, ConstantsAssumption DEF readChar
  <2>3. numParamRead # << >> /\ i = numParam + 1 /\ numParam \in 0..maxNumParams
        /\ maxNumParams \in Nat
    BY <2>1, CountFacts, CallFacts DEF ParseInv, Complete, TypeOK
  <2>4. p \in Params /\ p < i /\ paramLen[p] \in Nat
    BY <2>1, <2>3 DEF Params, TypeOK, numParam
  <2>5. PICK k \in 0..Len(call.rx) : k + paramLen[p] <= Taken /\ Received(p, k, paramLen[p])
    BY <2>2, <2>4 DEF FromWire
  <2>6. Taken < Len(call.rx)
    <3>1. Len(rx) \in Nat \ {0} /\ Len(call.rx) \in Nat
      BY <2>2, EmptySeq, CallFacts DEF TypeOK
    <3> QED
      BY <3>1 DEF Taken
  <2>7. k + paramLen[p] < Len(call.rx)
    <3>1. Len(rx) \in Nat /\ Len(call.rx) \in Nat
      BY CallFacts DEF TypeOK
    <3> QED
      BY <2>4, <2>5, <2>6, <3>1 DEF Taken
  <2> QED
    BY <2>1, <2>5, <2>7 DEF Received
<1>3. CASE WaitStart \/ CheckCmd \/ ReadNumParam \/ ReadLen \/ ReadData \/ Terminate
  <2>1. ret # 1 \/ pc = "end" \/ pc = "done"
    BY CountFacts, CallFacts DEF ParseInv, Complete, InProgress, TypeOK
  <2> QED
    BY <1>3, <2>1 DEF WaitStart, CheckCmd, ReadNumParam, ReadLen, ReadData, Terminate, Return
<1> QED
    BY <1>1, <1>2, <1>3 DEF Next

\* A reply is accepted only if it was received whole: none of its parameters
\* holds a zero that SpiDrv_readChar made up behind the bytes clocked.
THEOREM AcceptedWasReceived == Spec => []NothingMadeUp
<1>1. Init => NothingMadeUp
    BY DEF Init, NothingMadeUp
<1> QED
    BY <1>1, AcceptStep, ParseInvariant, StoredWasReceived, PTL DEF Spec
=============================================================================
