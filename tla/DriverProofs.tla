---------------------------- MODULE DriverProofs ----------------------------
(***************************************************************************)
(* Proofs about the two drivers and the frames of their commands: what     *)
(* their functions return whatever the coprocessor answers, and which      *)
(* commands fit txBuffer.                                                  *)
(***************************************************************************)
EXTENDS ServerDrv, WiFiDrv, SequenceFacts, TLAPS

\* A reply carries at most one parameter, of bytes.
Reply == {<< >>} \union {<<bytes>> : bytes \in Seq(Nat)}

LEMMA ReplyCases ==
    ASSUME NEW reply \in Reply,
           reply # << >>
    PROVE  reply[1] \in Seq(Nat)
BY DEF Reply

\* A parse keeps fewer bytes than there is room for, and all of them came in.
LEMMA KeptBounds ==
    ASSUME NEW n \in Nat, NEW room \in Nat, room > 0
    PROVE  Kept(n, room) \in 0..room-1 /\ Kept(n, room) <= n
BY DEF Kept

LEMMA StoredIsSeq ==
    ASSUME NEW bytes \in Seq(Nat), NEW room \in Nat, room > 0
    PROVE  /\ Stored(bytes, room) \in Seq(Nat)
           /\ Kept(Len(bytes), room) = 0 => Stored(bytes, room) = <<0>>
<1> DEFINE n == Kept(Len(bytes), room)
           kept == SubSeq(bytes, 1, n)
<1>1. n \in Nat /\ n <= Len(bytes)
  BY KeptBounds, LenProperties
<1>2. \A i \in 1..n : bytes[i] \in Nat
  BY <1>1, ElementOfSeq, LenProperties
<1>3. kept \in Seq(Nat)
  BY <1>1, <1>2, SubSeqProperties
<1>4. <<0>> \in Seq(Nat)
  OBVIOUS
<1>5. kept \o <<0>> \in Seq(Nat)
  BY <1>3, <1>4, ConcatProperties
<1>6. ASSUME n = 0 PROVE kept \o <<0>> = <<0>>
  <2>1. kept = << >>
    BY <1>6, SubSeqEmpty
  <2> QED
    BY <2>1, <1>4, ConcatEmptySeq
<1> QED
  BY <1>5, <1>6 DEF Stored

LEMMA StoredFits ==
    ASSUME NEW bytes \in Seq(Nat), NEW room \in Nat, room > 0
    PROVE  /\ Len(Stored(bytes, room)) = Kept(Len(bytes), room) + 1
           /\ Len(Stored(bytes, room)) <= room
<1> DEFINE n == Kept(Len(bytes), room)
           kept == SubSeq(bytes, 1, n)
<1>1. n \in 0..room-1 /\ n <= Len(bytes)
  BY KeptBounds, LenProperties
<1>2. \A i \in 1..n : bytes[i] \in Nat
  BY <1>1, ElementOfSeq, LenProperties
<1>3. kept \in Seq(Nat) /\ Len(kept) = n
  BY <1>1, <1>2, SubSeqProperties
<1>4. <<0>> \in Seq(Nat) /\ Len(<<0>>) = 1
  OBVIOUS
<1>5. Len(kept \o <<0>>) = n + 1
  BY <1>3, <1>4, ConcatProperties
<1> QED
  BY <1>1, <1>5 DEF Stored

\* What is stored goes over the beginning of a variable.
LEMMA VariableBytes ==
    ASSUME NEW reply \in Reply, reply # << >>, NEW room \in Nat, room > 0,
           NEW old, NEW k \in DOMAIN old
    PROVE  /\ Variable(reply, room, old) =
                  [b \in DOMAIN old |-> IF b <= Len(Stored(reply[1], room))
                                        THEN Stored(reply[1], room)[b] ELSE old[b]]
           /\ Stored(reply[1], room) \in Seq(Nat)
BY ReplyCases, StoredIsSeq DEF Variable, Over

\* A variable of one byte has room for the terminator only: whatever the
\* coprocessor answers, it holds 0, or what it held if there is no answer.
THEOREM OneByteLost ==
    \A x : \A reply \in Reply :
       Variable(reply, 1, <<x>>)[1] = IF reply = << >> THEN x ELSE 0
<1> SUFFICES ASSUME NEW reply \in Reply, NEW x
             PROVE  Variable(reply, 1, <<x>>)[1] = IF reply = << >> THEN x ELSE 0
  OBVIOUS
<1>1. CASE reply = << >>
  BY <1>1 DEF Variable
<1>2. CASE reply # << >>
  <2>1. reply[1] \in Seq(Nat)
    BY <1>2, ReplyCases
  <2>2. Kept(Len(reply[1]), 1) = 0
    BY <2>1, KeptBounds, LenProperties
  <2>3. Stored(reply[1], 1) = <<0>>
    BY <2>1, <2>2, StoredIsSeq
  <2>4. Variable(reply, 1, <<x>>)[1] = <<0>>[1]
    BY <1>2, <2>3 DEF Variable, Over
  <2> QED
    BY <1>2, <2>4
<1> QED
  BY <1>1, <1>2

\* So ServerDrv_getSocket returns 0 whichever socket the coprocessor gives, and
\* when it has none; and ServerDrv_sendData, and with it WiFiClient_write, when
\* the coprocessor took the data.
THEOREM GetSocketReturnsZero ==
    \A reply \in Reply : ServerDrv_getSocket(reply).value = 0
BY OneByteLost DEF ServerDrv_getSocket, Exchange, OneByte

\* See GetSocketReturnsZero.
THEOREM SendDataReturnsZero ==
    \A sock, data : \A reply \in Reply : ServerDrv_sendData(sock, data, reply).value = 0
BY OneByteLost DEF ServerDrv_sendData, Exchange, OneByte

\* Nor does any state of a client that is not the byte END_CMD get through:
\* ServerDrv_getClientState fails.
THEOREM ClientStateNeverTold ==
    \A sock : \A state \in Nat \ {END_CMD} :
       ServerDrv_getClientState(sock, <<<<state>>>>).value = WL_FAILURE
BY DEF ServerDrv_getClientState, Exchange, Checked, Accepted

\* A command that checks its answer of one byte returns 0 or a failure.
LEMMA CheckedByte ==
    ASSUME NEW reply \in Reply
    PROVE  Checked(reply, 1) \in {0, WL_FAILURE}
BY OneByteLost DEF Checked, Accepted

\* WiFiDrv_wifiSetNetwork awaits the acknowledgement 1, which cannot get
\* through: WiFi_begin_open reports a failure, whatever the coprocessor does.
THEOREM SetNetworkFails ==
    \A ssid : \A reply \in Reply : WiFiDrv_wifiSetNetwork(ssid, reply).value = WL_FAILURE
BY CheckedByte DEF WiFiDrv_wifiSetNetwork, Exchange, WIFI_SPI_ACK, WL_FAILURE

\* WiFiDrv_getConnectionStatus returns WL_IDLE_STATUS for every status, and -1
\* for a missing reply.
THEOREM StatusNeverTold ==
    \A reply \in Reply :
       WiFiDrv_getConnectionStatus(reply).value = IF reply = << >> THEN -1 ELSE 0
BY OneByteLost DEF WiFiDrv_getConnectionStatus, Exchange

\* A lookup fails whatever the two replies are, so that WiFi_hostByName,
\* WiFi_ping_hostname and WiFiClient_connectHostname get no further.
THEOREM LookupFails ==
    \A name, result, stack : \A reply \in Reply :
       WiFiDrv_getHostByName(name, reply, result, stack) = 0
BY CheckedByte
   DEF WiFiDrv_getHostByName, WiFiDrv_reqHostByName, Exchange, WL_FAILURE

\* WiFiDrv_getRSSINetworks awaits the reply to another command than the one it
\* sends, and so returns 0.
THEOREM RssiIndexZero ==
    \A reply, item : WiFiDrv_getRSSINetworks(item, reply).value = Zeros(4)
BY DEF WiFiDrv_getRSSINetworks, Listed, Exchange, Awaiting, Code, Variable

-----------------------------------------------------------------------------
(* Answers as long as their variable lose their last byte *)

\* Three bytes and a terminator.
LEMMA ThreeAndTerminator ==
    ASSUME NEW kept \in Seq(Nat), Len(kept) = 3
    PROVE  /\ Len(kept \o <<0>>) = 4
           /\ (kept \o <<0>>)[4] = 0
           /\ \A k \in 1..3 : (kept \o <<0>>)[k] = kept[k]
<1>1. <<0>> \in Seq(Nat) /\ Len(<<0>>) = 1 /\ <<0>>[1] = 0
  OBVIOUS
<1>2. /\ Len(kept \o <<0>>) = Len(kept) + Len(<<0>>)
      /\ \A i \in 1..Len(kept) + Len(<<0>>) :
            (kept \o <<0>>)[i] = IF i <= Len(kept) THEN kept[i] ELSE <<0>>[i - Len(kept)]
  BY <1>1, ConcatProperties
<1> QED
  BY <1>1, <1>2

Byte == 0..255

LEMMA ByteFacts ==
    \A b \in Byte : b \in Nat /\ b \div 128 \in Int /\ b \div 128 < 124
BY DEF Byte

LEMMA BytesAreNats == ASSUME NEW s \in Seq(Byte) PROVE s \in Seq(Nat)
<1>1. \A i \in 1..Len(s) : s[i] \in Byte
  BY ElementOfSeq
<1>2. \A i \in 1..Len(s) : s[i] \in Nat
  BY <1>1, ByteFacts
<1> QED
  BY <1>2, SeqMonotonic

FourBytes == [1..4 -> Byte]

\* The last byte of an answer of four bytes or more becomes the terminator.
THEOREM FourthByteLost ==
    \A bytes \in Seq(Nat), old \in FourBytes : Len(bytes) >= 4 =>
       /\ Variable(<<bytes>>, 4, old)[4] = 0
       /\ \A k \in 1..3 : Variable(<<bytes>>, 4, old)[k] = bytes[k]
<1> SUFFICES ASSUME NEW bytes \in Seq(Nat), NEW old \in FourBytes, Len(bytes) >= 4
             PROVE  /\ Variable(<<bytes>>, 4, old)[4] = 0
                    /\ \A k \in 1..3 : Variable(<<bytes>>, 4, old)[k] = bytes[k]
  OBVIOUS
<1> DEFINE kept == SubSeq(bytes, 1, 3)
           all == kept \o <<0>>
<1>1. Len(bytes) \in Nat
  BY LenProperties
<1>2. Kept(Len(bytes), 4) = 3
  BY <1>1 DEF Kept
<1>3. \A i \in 1..3 : bytes[i] \in Nat
  BY <1>1, ElementOfSeq
<1>4. kept \in Seq(Nat) /\ Len(kept) = 3 /\ \A i \in 1..3 : kept[i] = bytes[i]
  BY <1>1, <1>3, SubSeqProperties
<1>5. Stored(bytes, 4) = all
  BY <1>2 DEF Stored
<1> HIDE DEF kept
<1>6. Len(all) = 4 /\ all[4] = 0 /\ \A k \in 1..3 : all[k] = bytes[k]
  BY <1>4, ThreeAndTerminator
<1> HIDE DEF all
<1>7. Variable(<<bytes>>, 4, old) = [k \in 1..4 |-> IF k <= 4 THEN all[k] ELSE old[k]]
  BY <1>5, <1>6 DEF Variable, Over, FourBytes
<1> QED
  BY <1>6, <1>7

\* An RSSI is negative, but the byte that holds its sign is not: the sign is
\* lost with WiFiDrv_getCurrentRSSI.
THEOREM RssiSignLost ==
    \A bytes \in Seq(Nat), stack \in FourBytes : Len(bytes) = 4 =>
       WiFiDrv_getCurrentRSSI(<<bytes>>, stack).value[4] = 0
<1> SUFFICES ASSUME NEW bytes \in Seq(Nat), NEW stack \in FourBytes, Len(bytes) = 4
             PROVE  WiFiDrv_getCurrentRSSI(<<bytes>>, stack).value[4] = 0
  OBVIOUS
<1>1. Len(bytes) >= 4
  OBVIOUS
<1>2. Variable(<<bytes>>, 4, stack)[4] = 0
  BY <1>1, FourthByteLost
<1> QED
  BY <1>2 DEF WiFiDrv_getCurrentRSSI, Exchange

\* Without its sign and exponent, a temperature is below an eighth of a degree:
\* WiFiDrv_getTemperature returns 0 for every answer of four bytes.
THEOREM TemperatureZero ==
    \A bytes \in Seq(Byte) : Len(bytes) = 4 => WiFiDrv_getTemperature(<<bytes>>).value = 0
<1> SUFFICES ASSUME NEW bytes \in Seq(Byte), Len(bytes) = 4
             PROVE  WiFiDrv_getTemperature(<<bytes>>).value = 0
  OBVIOUS
<1> DEFINE x == Variable(<<bytes>>, 4, Zeros(4))
<1>1. Zeros(4) \in FourBytes
  BY DEF Zeros, FourBytes, Byte
<1>2. \A i \in 1..Len(bytes) : bytes[i] \in Byte
  BY ElementOfSeq
<1>3. bytes \in Seq(Nat)
  BY BytesAreNats
<1>4. x[4] = 0 /\ x[3] = bytes[3]
  <2>1. Len(bytes) >= 4
    OBVIOUS
  <2>2. x[4] = 0 /\ \A k \in 1..3 : x[k] = bytes[k]
    BY <1>1, <1>3, <2>1, FourthByteLost
  <2> QED
    BY <2>2
<1> HIDE DEF x
<1>5. 2 * (x[4] % 128) = 0 /\ ~(x[4] >= 128)
  BY <1>4
<1>6. x[3] \in Byte
  BY <1>2, <1>4
<1>7. x[3] \div 128 < 124 /\ x[3] \div 128 \in Int
  BY <1>6, ByteFacts
<1>8. 2 * (x[4] % 128) + x[3] \div 128 < 124
  BY <1>5, <1>7
<1>9. TimesEight(x) = 0
  BY <1>5, <1>8 DEF TimesEight
<1> QED
  BY <1>9 DEF WiFiDrv_getTemperature, Exchange, x

\* What is left of a first address shifts what follows: if its last byte, which
\* the parse takes for the next length, is 4 or more, the subnet mask that
\* WiFi_subnetMask returns begins with the length of the real one.
THEOREM MaskIsMisread ==
    \A old : \A s \in Seq(Byte) :
       Len(s) >= 6 /\ s[1] = 4 /\ s[5] >= 4 /\ DOMAIN old = 1..3 /\ DOMAIN old[2] = 1..4
       => WiFiDrv_getNetworkData(s, old).value[2][1] = s[6]
<1> SUFFICES ASSUME NEW s \in Seq(Byte), NEW old,
                    Len(s) >= 6, s[1] = 4, s[5] >= 4, DOMAIN old = 1..3, DOMAIN old[2] = 1..4
             PROVE  WiFiDrv_getNetworkData(s, old).value[2][1] = s[6]
  OBVIOUS
<1>1. Len(s) \in Nat /\ DOMAIN s = 1..Len(s) /\ s # << >>
  BY LenProperties
<1>2. \A i \in 1..Len(s) : s[i] \in Byte
  BY ElementOfSeq
<1>3. ByteAt(s, 1) = 4 /\ ByteAt(s, 5) = s[5] /\ ByteAt(s, 6) = s[6]
  BY <1>1 DEF ByteAt
<1>4. Second(s, 4) = 5
  BY <1>3 DEF Second, Behind, Kept
<1>5. Kept(ByteAt(s, 5), 4) = 3
  <2>1. s[5] \in Nat
    BY <1>1, <1>2, ByteFacts
  <2> QED
    BY <1>3, <2>1 DEF Kept
<1> DEFINE kept == [b \in 1..3 |-> ByteAt(s, 5 + b)]
           field == kept \o <<0>>
<1>6. FieldAt(s, 5, 4) = field
  BY <1>5 DEF FieldAt
<1>7. \A b \in 1..3 : ByteAt(s, 5 + b) \in Nat
  <2> SUFFICES ASSUME NEW b \in 1..3
               PROVE  ByteAt(s, 5 + b) \in Nat
    OBVIOUS
  <2>1. CASE 5 + b \in 1..Len(s)
    <3>1. s[5 + b] \in Nat
      BY <1>2, <2>1, ByteFacts
    <3>2. 5 + b \in DOMAIN s
      BY <1>1, <2>1
    <3> QED
      BY <3>1, <3>2 DEF ByteAt
  <2>2. CASE 5 + b \notin 1..Len(s)
    BY <1>1, <2>2 DEF ByteAt
  <2> QED
    BY <2>1, <2>2
<1>8. kept \in Seq(Nat) /\ Len(kept) = 3 /\ kept[1] = s[6]
  BY <1>3, <1>7
<1> HIDE DEF kept
<1>9. Len(field) = 4 /\ field[1] = s[6]
  BY <1>8, ThreeAndTerminator
<1> HIDE DEF field
<1>10. Over(field, old[2])[1] = s[6]
  BY <1>9 DEF Over
<1> QED
  BY <1>1, <1>4, <1>6, <1>10 DEF WiFiDrv_getNetworkData, Exchange

-----------------------------------------------------------------------------
(* Frames *)

\* END_CMD ends a word, at most four bytes behind the body; 251 bytes are the
\* longest body that stays within txBuffer.
LEMMA Padding ==
    ASSUME NEW n \in Nat
    PROVE  /\ (n + PadCount(n) + 1) % 4 = 0
           /\ n + PadCount(n) + 1 \in n+1..n+4
           /\ n + PadCount(n) + 1 <= SPI_MAX_TX_BUFFER <=> n <= 251
<1> DEFINE m == n + PadCount(n) + 1
<1>1. n % 4 \in 0..3 /\ n = 4 * (n \div 4) + (n % 4) /\ n \div 4 \in Nat
  OBVIOUS
<1>2. m = 4 * (n \div 4 + 1)
  BY <1>1 DEF PadCount
<1>3. m % 4 = 0
  BY <1>1, <1>2
<1> QED
  BY <1>1, <1>2, <1>3 DEF PadCount, SPI_MAX_TX_BUFFER

\* The frame of every command is whole words, as SpiDrv_sendCmd and
\* SpiDrv_sendBuffer pad it.
THEOREM FrameIsWords ==
    \A c, wide : BodyLength(c, wide) \in Nat => FrameLength(c, wide) % 4 = 0
BY Padding DEF FrameLength

LEMMA FitsUpTo ==
    \A n \in Nat : n + PadCount(n) + 1 <= SPI_MAX_TX_BUFFER <=> n <= 251
BY Padding

\* A frame counts a number of bytes.
LEMMA CountedIsNat ==
    ASSUME NEW param, Len(param) \in Nat, NEW wide \in BOOLEAN
    PROVE  Counted(param, wide) \in Nat
BY DEF Counted, TooLong

\* The frame of a body of n bytes fits up to 251 of them.
LEMMA BodyFits ==
    ASSUME NEW c, NEW wide, NEW n \in Nat, BodyLength(c, wide) = n
    PROVE  FitsTxBuffer(c, wide) <=> n <= 251
BY FitsUpTo DEF FitsTxBuffer, FrameLength

\* ServerDrv_sendData may be given at most 243 bytes, as its 16 bits count them:
\* nothing in it or below it looks, and with 244 the frame runs over the end of
\* txBuffer.
THEOREM SendFits ==
    \A sock, data, reply : Len(data) \in Nat =>
       (FitsTxBuffer(ServerDrv_sendData(sock, data, reply).sent, TRUE)
           <=> Counted(data, TRUE) <= 243)
<1> SUFFICES ASSUME NEW sock, NEW data, NEW reply, Len(data) \in Nat
             PROVE  FitsTxBuffer(ServerDrv_sendData(sock, data, reply).sent, TRUE)
                       <=> Counted(data, TRUE) <= 243
  OBVIOUS
<1> DEFINE c == ServerDrv_sendData(sock, data, reply).sent
           m == Counted(data, TRUE)
<1>1. c.params = <<<<sock>>, data>>
  BY DEF ServerDrv_sendData, Exchange
<1>2. m \in Nat
  BY CountedIsNat
<1>3. Counted(<<sock>>, TRUE) = 1
  BY DEF Counted, TooLong
<1> HIDE DEF c, m
<1>4. BodyLength(c, TRUE) = 8 + m
  BY <1>1 DEF BodyLength, TotalOf, LengthOf, LenWidth, Counted, TooLong, m
<1>5. FitsTxBuffer(c, TRUE) <=> 8 + m <= 251
  BY <1>2, <1>4, BodyFits, 8 + m \in Nat
<1>6. 8 + m <= 251 <=> m <= 243
  BY <1>2
<1> QED
  BY <1>5, <1>6 DEF c, m

\* WiFiDrv_wifiSetPassphrase may be given a name and a passphrase of 246 bytes
\* together, each as a uint8 counts it.
THEOREM PassphraseFits ==
    \A ssid, phrase, reply : Len(ssid) \in Nat /\ Len(phrase) \in Nat =>
       (FitsTxBuffer(WiFiDrv_wifiSetPassphrase(ssid, phrase, reply).sent, FALSE)
           <=> Counted(ssid, FALSE) + Counted(phrase, FALSE) <= 246)
<1> SUFFICES ASSUME NEW ssid, NEW phrase, NEW reply, Len(ssid) \in Nat, Len(phrase) \in Nat
             PROVE  FitsTxBuffer(WiFiDrv_wifiSetPassphrase(ssid, phrase, reply).sent, FALSE)
                       <=> Counted(ssid, FALSE) + Counted(phrase, FALSE) <= 246
  OBVIOUS
<1> DEFINE c == WiFiDrv_wifiSetPassphrase(ssid, phrase, reply).sent
           m == Counted(ssid, FALSE)
           n == Counted(phrase, FALSE)
<1>1. c.params = <<ssid, phrase>>
  BY DEF WiFiDrv_wifiSetPassphrase, Exchange
<1>2. m \in Nat /\ n \in Nat
  BY CountedIsNat
<1> HIDE DEF c, m, n
<1>3. BodyLength(c, FALSE) = 5 + m + n
  BY <1>1 DEF BodyLength, TotalOf, LengthOf, LenWidth, Counted, TooLong, m, n
<1>4. FitsTxBuffer(c, FALSE) <=> 5 + m + n <= 251
  BY <1>2, <1>3, BodyFits, 5 + m + n \in Nat
<1>5. 5 + m + n <= 251 <=> m + n <= 246
  BY <1>2
<1> QED
  BY <1>4, <1>5 DEF c, m, n

\* A host name, of a lookup (WiFi_hostByName, WiFi_ping_hostname,
\* WiFiClient_connectHostname) or of WiFi_setHostname, fits as long as its uint8
\* counts 247 bytes at most: one of 248 to 255 runs over the end of txBuffer, of
\* one of 256 nothing is sent.
THEOREM HostnameFits ==
    \A name, reply : Len(name) \in Nat =>
       /\ FitsTxBuffer(WiFiDrv_reqHostByName(name, reply).sent, FALSE)
             <=> Counted(name, FALSE) <= 247
       /\ FitsTxBuffer(WiFiDrv_setHostname(name, reply).sent, FALSE)
             <=> Counted(name, FALSE) <= 247
<1> SUFFICES ASSUME NEW name, NEW reply, Len(name) \in Nat
             PROVE  /\ FitsTxBuffer(WiFiDrv_reqHostByName(name, reply).sent, FALSE)
                          <=> Counted(name, FALSE) <= 247
                    /\ FitsTxBuffer(WiFiDrv_setHostname(name, reply).sent, FALSE)
                          <=> Counted(name, FALSE) <= 247
  OBVIOUS
<1>1. ASSUME NEW c, c.params = <<name>>
      PROVE  FitsTxBuffer(c, FALSE) <=> Counted(name, FALSE) <= 247
  <2> DEFINE m == Counted(name, FALSE)
  <2>1. m \in Nat
    BY CountedIsNat
  <2> HIDE DEF m
  <2>2. BodyLength(c, FALSE) = 4 + m
    BY <1>1 DEF BodyLength, TotalOf, LengthOf, LenWidth, Counted, TooLong, m
  <2>3. FitsTxBuffer(c, FALSE) <=> 4 + m <= 251
    BY <2>1, <2>2, BodyFits, 4 + m \in Nat
  <2>4. 4 + m <= 251 <=> m <= 247
    BY <2>1
  <2> QED
    BY <2>3, <2>4 DEF m
<1>2. /\ WiFiDrv_reqHostByName(name, reply).sent.params = <<name>>
      /\ WiFiDrv_setHostname(name, reply).sent.params = <<name>>
  BY DEF WiFiDrv_reqHostByName, WiFiDrv_setHostname, Exchange
<1>3. FitsTxBuffer(WiFiDrv_reqHostByName(name, reply).sent, FALSE) <=> Counted(name, FALSE) <= 247
  BY <1>1, <1>2
<1>4. FitsTxBuffer(WiFiDrv_setHostname(name, reply).sent, FALSE) <=> Counted(name, FALSE) <= 247
  BY <1>1, <1>2
<1> QED
  BY <1>3, <1>4

-----------------------------------------------------------------------------
(* The coprocessor reads in a frame what was meant *)

\* A command whose lengths a frame can carry: in a byte each, or in two.
ShortParams(c, wide) ==
    \A p \in 1..Len(c.params) : Len(c.params[p]) < TooLong(wide)

IsCommand(c, wide) ==
    /\ c \in [cmd : 0..REPLY_FLAG-1, params : Seq(Seq(Byte))]
    /\ Len(c.params) <= MAX_PARAMS
    /\ ShortParams(c, wide)

\* The number that the bytes of a length at k stand for, as Decode has it.
LenAt(f, k, wide) == IF wide THEN 256 * f[k] + f[k+1] ELSE f[k]

LEMMA LenBytesFacts ==
    ASSUME NEW wide \in BOOLEAN, NEW n \in Nat, n < TooLong(wide)
    PROVE  /\ LenBytes(n, wide) \in Seq(Byte)
           /\ Len(LenBytes(n, wide)) = LenWidth(wide)
           /\ LenAt(LenBytes(n, wide), 1, wide) = n
<1>1. CASE wide
  <2>0. n < 65536
    BY <1>1 DEF TooLong
  <2>1. n \div 256 \in 0..255 /\ n % 256 \in 0..255 /\ n = 256 * (n \div 256) + (n % 256)
    BY <2>0
  <2> DEFINE s == <<n \div 256, n % 256>>
  <2>3. s \in Seq(Byte) /\ Len(s) = 2 /\ 256 * s[1] + s[1 + 1] = n
    BY <2>1 DEF Byte
  <2>4. LenBytes(n, wide) = s
    BY <1>1 DEF LenBytes
  <2> HIDE DEF s
  <2> QED
    BY <1>1, <2>3, <2>4, ZenonT(60) DEF LenWidth, LenAt
<1>2. CASE ~wide
  <2>1. n \in 0..255
    BY <1>2 DEF TooLong
  <2> DEFINE s == <<n>>
  <2>2. s \in Seq(Byte) /\ Len(s) = 1 /\ s[1] = n
    BY <2>1 DEF Byte
  <2>3. LenBytes(n, wide) = s
    BY <1>2 DEF LenBytes
  <2> HIDE DEF s
  <2> QED
    BY <1>2, <2>2, <2>3 DEF LenWidth, LenAt
<1> QED
  BY <1>1, <1>2

\* The parts of a frame.
Parts(c, wide) == [p \in DOMAIN c.params |-> Part(c.params[p], wide)]

\* Of a parameter that is not too long all is in the frame.
LEMMA WholePart ==
    ASSUME NEW wide \in BOOLEAN, NEW param \in Seq(Byte), Len(param) < TooLong(wide)
    PROVE  /\ Counted(param, wide) = Len(param)
           /\ Part(param, wide) = LenBytes(Len(param), wide) \o param
<1>1. Len(param) \in Nat
  BY LenProperties
<1>2. Counted(param, wide) = Len(param)
  BY <1>1 DEF Counted, TooLong
<1>3. \A i \in 1..Len(param) : param[i] \in Byte
  BY ElementOfSeq
<1>4. /\ SubSeq(param, 1, Len(param)) \in Seq(Byte)
      /\ Len(SubSeq(param, 1, Len(param))) = Len(param)
      /\ \A i \in 1..Len(param) : SubSeq(param, 1, Len(param))[i] = param[i]
  BY <1>1, <1>3, SubSeqProperties
<1>5. SubSeq(param, 1, Len(param)) = param
  BY <1>4, SeqEqual
<1> QED
  BY <1>2, <1>5 DEF Part

LEMMA PartFacts ==
    ASSUME NEW wide \in BOOLEAN, NEW param \in Seq(Byte), Len(param) < TooLong(wide)
    PROVE  /\ Part(param, wide) \in Seq(Byte)
           /\ Len(Part(param, wide)) = LenWidth(wide) + Len(param)
           /\ LenAt(Part(param, wide), 1, wide) = Len(param)
           /\ \A k \in 1..Len(param) : Part(param, wide)[LenWidth(wide) + k] = param[k]
<1> DEFINE b == LenBytes(Len(param), wide)
           w == LenWidth(wide)
<1>1. Len(param) \in Nat /\ w \in {1, 2} /\ (wide => w = 2) /\ (~wide => w = 1)
  BY LenProperties DEF LenWidth
<1>2. b \in Seq(Byte) /\ Len(b) = w /\ LenAt(b, 1, wide) = Len(param)
  BY <1>1, LenBytesFacts
<1> HIDE DEF b, w
<1>3. /\ b \o param \in Seq(Byte) /\ Len(b \o param) = w + Len(param)
      /\ \A i \in 1..w + Len(param) :
            (b \o param)[i] = IF i <= w THEN b[i] ELSE param[i - w]
  BY <1>2, ConcatProperties
<1>4. LenAt(b \o param, 1, wide) = LenAt(b, 1, wide)
  BY <1>1, <1>3 DEF LenAt
<1>5. ASSUME NEW k \in 1..Len(param) PROVE (b \o param)[w + k] = param[k]
  <2>1. w + k \in 1..w + Len(param) /\ ~(w + k <= w) /\ (w + k) - w = k
    BY <1>1
  <2> QED
    BY <1>3, <2>1
<1> QED
  BY <1>2, <1>3, <1>4, <1>5, WholePart DEF b, w

LEMMA CommandFacts ==
    ASSUME NEW wide, NEW c, IsCommand(c, wide)
    PROVE  /\ c.cmd \in Byte /\ c.cmd % REPLY_FLAG = c.cmd
           /\ Len(c.params) \in Nat /\ Len(c.params) \in Byte /\ Len(c.params) <= MAX_PARAMS
           /\ DOMAIN c.params = 1..Len(c.params)
           /\ \A p \in 1..Len(c.params) : c.params[p] \in Seq(Byte)
<1>1. c.cmd \in 0..REPLY_FLAG-1 /\ c.params \in Seq(Seq(Byte))
  BY DEF IsCommand
<1>2. \A b \in 0..REPLY_FLAG-1 : b \in Byte /\ b % REPLY_FLAG = b
  BY DEF REPLY_FLAG, Byte
<1>3. Len(c.params) <= MAX_PARAMS
  BY DEF IsCommand
<1>4. Len(c.params) \in Nat /\ DOMAIN c.params = 1..Len(c.params)
  BY <1>1, LenProperties
<1>5. Len(c.params) \in Byte
  <2>1. \A k \in Nat : k <= MAX_PARAMS => k \in Byte
    BY DEF MAX_PARAMS, Byte
  <2> QED
    BY <1>3, <1>4, <2>1
<1>6. \A p \in 1..Len(c.params) : c.params[p] \in Seq(Byte)
  BY <1>1, ElementOfSeq
<1> QED
  BY <1>1, <1>2, <1>3, <1>4, <1>5, <1>6

\* The bytes of the command and its parameters are in their places, and the
\* padding brings END_CMD to the end of a word.
LEMMA FrameLayout ==
    ASSUME NEW wide \in BOOLEAN, NEW c, IsCommand(c, wide),
           NEW off, Offsets(off, Len(c.params), Parts(c, wide))
    PROVE  LET f == Frame(c, wide)
               m == 3 + off[Len(c.params)]
           IN  /\ Len(f) = m + PadCount(m) + 1 /\ f[Len(f)] = FRAME_END
               /\ f[2] = c.cmd /\ f[3] = Len(c.params)
               /\ \A j \in 1..off[Len(c.params)] : f[3 + j] = FlattenSeq(Parts(c, wide))[j]
<1> DEFINE n == Len(c.params)
           flat == FlattenSeq(Parts(c, wide))
           head == <<START_CMD, c.cmd % REPLY_FLAG, n>>
           body == head \o flat
           zeros == [k \in 1..PadCount(Len(body)) |-> 0]
           padded == body \o zeros
           end == <<FRAME_END>>
           f == Frame(c, wide)
<1>1. n \in Nat /\ DOMAIN c.params = 1..n /\ \A p \in 1..n : c.params[p] \in Seq(Byte)
  BY CommandFacts
<1>2. Parts(c, wide) \in Seq(Seq(Byte)) /\ Len(Parts(c, wide)) = n
  <2>1. ASSUME NEW p \in 1..n PROVE Part(c.params[p], wide) \in Seq(Byte)
    BY <1>1, PartFacts DEF IsCommand, ShortParams
  <2> QED
    BY <1>1, <2>1 DEF Parts
<1>3. flat \in Seq(Byte) /\ Len(flat) = off[n] /\ off[n] \in Nat
  <2>1. off[n] \in Nat
    BY <1>1 DEF Offsets
  <2> QED
    BY <1>1, <1>2, <2>1, FlattenedAt
<1>4. c.cmd % REPLY_FLAG = c.cmd /\ c.cmd \in Byte /\ n \in Byte
  BY CommandFacts
<1>5. /\ head \in Seq(Byte) /\ Len(head) = 3 /\ head[2] = c.cmd /\ head[3] = n
      /\ end \in Seq(Byte) /\ Len(end) = 1 /\ end[1] = FRAME_END
  <2>1. head = <<START_CMD, c.cmd, n>>
    BY <1>4
  <2>2. START_CMD \in Byte /\ FRAME_END \in Byte
    BY DEF START_CMD, FRAME_END, Byte
  <2> QED
    BY <1>4, <2>1, <2>2
<1>6. f = (body \o zeros) \o end
  BY DEF Frame, Parts
<1> HIDE DEF flat, head, end
<1>7. /\ body \in Seq(Byte) /\ Len(body) = 3 + off[n]
      /\ \A i \in 1..3 + off[n] : body[i] = IF i <= 3 THEN head[i] ELSE flat[i - 3]
  <2>0. head \in Seq(Byte) /\ flat \in Seq(Byte)
    BY <1>3, <1>5
  <2>1. /\ head \o flat \in Seq(Byte) /\ Len(head \o flat) = Len(head) + Len(flat)
        /\ \A i \in 1..Len(head) + Len(flat) :
              (head \o flat)[i] = IF i <= Len(head) THEN head[i] ELSE flat[i - Len(head)]
    BY <2>0, ConcatProperties
  <2> QED
    BY <1>3, <1>5, <2>1
<1> HIDE DEF body
<1>8. PadCount(Len(body)) \in Nat
  BY <1>3, <1>7, SMTT(30) DEF PadCount
<1>9. zeros \in Seq(Byte) /\ Len(zeros) = PadCount(Len(body))
  BY <1>8 DEF Byte
<1> HIDE DEF zeros
<1>10. /\ padded \in Seq(Byte) /\ Len(padded) = Len(body) + Len(zeros)
       /\ \A i \in 1..Len(body) + Len(zeros) :
             padded[i] = IF i <= Len(body) THEN body[i] ELSE zeros[i - Len(body)]
  BY <1>7, <1>9, ConcatProperties
<1>11. f = padded \o end
  BY <1>6
<1> HIDE DEF padded, f
<1>12. /\ Len(f) = Len(padded) + 1
       /\ \A i \in 1..Len(padded) + 1 :
             f[i] = IF i <= Len(padded) THEN padded[i] ELSE end[i - Len(padded)]
  <2>0. padded \in Seq(Byte) /\ end \in Seq(Byte)
    BY <1>5, <1>10
  <2>1. /\ Len(padded \o end) = Len(padded) + Len(end)
        /\ \A i \in 1..Len(padded) + Len(end) :
              (padded \o end)[i] = IF i <= Len(padded) THEN padded[i] ELSE end[i - Len(padded)]
    BY <2>0, ConcatProperties
  <2> QED
    BY <1>5, <1>11, <2>1
<1>13. Len(body) \in Nat /\ Len(zeros) \in Nat /\ Len(padded) \in Nat
  BY <1>7, <1>9, <1>10, LenProperties
<1>14. f[Len(f)] = FRAME_END
  <2>1. Len(f) \in 1..Len(padded) + 1 /\ ~(Len(f) <= Len(padded)) /\ Len(f) - Len(padded) = 1
    BY <1>12, <1>13
  <2> QED
    BY <1>5, <1>12, <2>1
<1>15. ASSUME NEW i \in 1..3 + off[n] PROVE f[i] = body[i]
  <2>1. i <= Len(body) /\ i <= Len(padded) /\ i \in 1..Len(body) + Len(zeros)
        /\ i \in 1..Len(padded) + 1
    BY <1>3, <1>7, <1>10, <1>13, SMTT(30)
  <2> QED
    BY <1>10, <1>12, <2>1
<1>16. f[2] = c.cmd /\ f[3] = n
  <2>1. 2 \in 1..3 + off[n] /\ 3 \in 1..3 + off[n]
    BY <1>3
  <2> QED
    BY <1>5, <1>7, <1>15, <2>1
<1>17. ASSUME NEW j \in 1..off[n] PROVE f[3 + j] = flat[j]
  <2>1. 3 + j \in 1..3 + off[n] /\ ~(3 + j <= 3) /\ (3 + j) - 3 = j
    BY <1>3
  <2> QED
    BY <1>7, <1>15, <2>1
<1>18. Len(f) = 3 + off[n] + PadCount(3 + off[n]) + 1
  BY <1>3, <1>7, <1>9, <1>10, <1>12
<1> QED
  BY <1>14, <1>16, <1>17, <1>18 DEF f, flat

\* BodyLength is where the last parameter ends.
LEMMA BodyEnds ==
    ASSUME NEW wide \in BOOLEAN, NEW c, IsCommand(c, wide),
           NEW off, Offsets(off, Len(c.params), Parts(c, wide))
    PROVE  BodyLength(c, wide) = 3 + off[Len(c.params)] /\ off[Len(c.params)] \in Nat
<1> DEFINE n == Len(c.params)
           w == LenWidth(wide)
           L(p) == Len(c.params[p])
<1>1. n \in Nat /\ n <= MAX_PARAMS /\ w \in Nat /\ DOMAIN c.params = 1..n
  BY CommandFacts DEF LenWidth
<1>2. ASSUME NEW p \in 1..n
      PROVE  /\ L(p) \in Nat /\ off[p] = off[p-1] + (w + L(p))
             /\ Counted(c.params[p], wide) = L(p)
  <2>1. c.params[p] \in Seq(Byte) /\ Len(c.params[p]) < TooLong(wide)
    BY CommandFacts DEF IsCommand, ShortParams
  <2>2. L(p) \in Nat /\ Len(Part(c.params[p], wide)) = w + L(p)
    BY <2>1, PartFacts, LenProperties
  <2>3. Parts(c, wide)[p] = Part(c.params[p], wide)
    BY <1>1 DEF Parts
  <2>4. off[p] = off[p-1] + Len(Parts(c, wide)[p])
    BY DEF Offsets
  <2>5. Counted(c.params[p], wide) = L(p)
    BY <2>1, WholePart
  <2> QED
    BY <2>2, <2>3, <2>4, <2>5
<1>3. off[0] = 0
  BY DEF Offsets
<1> DEFINE C(p) == Counted(c.params[p], wide)
<1>5. /\ TotalOf(c.params, wide) =
            (IF 1 <= n THEN C(1) ELSE 0) + (IF 2 <= n THEN C(2) ELSE 0)
            + (IF 3 <= n THEN C(3) ELSE 0) + (IF 4 <= n THEN C(4) ELSE 0)
            + (IF 5 <= n THEN C(5) ELSE 0)
      /\ BodyLength(c, wide) = 3 + w * n + TotalOf(c.params, wide)
  BY DEF TotalOf, LengthOf, BodyLength
<1>12. \A p \in 1..n : L(p) \in Nat /\ off[p] = off[p-1] + (w + L(p)) /\ C(p) = L(p)
  BY <1>2
<1> HIDE DEF n, w, L, C
<1>4. n \in 0..5
  BY <1>1 DEF MAX_PARAMS
<1>6. CASE n = 0
  BY <1>1, <1>3, <1>5, <1>6 DEF n
<1>7. CASE n = 1
  BY <1>1, <1>12, <1>3, <1>5, <1>7 DEF n
<1>8. CASE n = 2
  BY <1>1, <1>12, <1>3, <1>5, <1>8 DEF n
<1>9. CASE n = 3
  BY <1>1, <1>12, <1>3, <1>5, <1>9 DEF n
<1>10. CASE n = 4
  BY <1>1, <1>12, <1>3, <1>5, <1>10 DEF n
<1>11. CASE n = 5
  BY <1>1, <1>12, <1>3, <1>5, <1>11 DEF n
<1> QED
  BY <1>4, <1>6, <1>7, <1>8, <1>9, <1>10, <1>11

\* A parameter is in f, from `at' up to `next', behind the w bytes of its length.
HasParam(f, w, at, next, param, wide) ==
    /\ at \in Nat /\ at >= 4 /\ w \in 1..2 /\ next \in Nat
    /\ LenAt(f, at, wide) = Len(param)
    /\ next = at + w + Len(param)
    /\ next - 1 <= Len(f)
    /\ \A k \in 1..Len(param) : f[at + w + k - 1] = param[k]

\* What Decode finds where the bytes of a frame are those of its parts.
LEMMA PartInFrame ==
    ASSUME NEW wide \in BOOLEAN, NEW c, IsCommand(c, wide),
           NEW off, Offsets(off, Len(c.params), Parts(c, wide)), NEW p \in 1..Len(c.params)
    PROVE  HasParam(Frame(c, wide), LenWidth(wide), 4 + off[p-1], 4 + off[p], c.params[p], wide)
<1> DEFINE n == Len(c.params)
           seqs == Parts(c, wide)
           flat == FlattenSeq(seqs)
           part == Part(c.params[p], wide)
           f == Frame(c, wide)
           w == LenWidth(wide)
           L == Len(c.params[p])
           o == off[p-1]
           m == off[n]
<1>1. n \in Nat /\ DOMAIN c.params = 1..n /\ c.params[p] \in Seq(Byte) /\ L < TooLong(wide)
  BY CommandFacts DEF IsCommand, ShortParams
<1>2. seqs \in Seq(Seq(Byte)) /\ Len(seqs) = n /\ seqs[p] = part
  <2>1. ASSUME NEW q \in 1..n PROVE Part(c.params[q], wide) \in Seq(Byte)
    BY CommandFacts, PartFacts DEF IsCommand, ShortParams
  <2> QED
    BY <1>1, <2>1 DEF Parts
<1>3. w \in 1..2 /\ (wide => w = 2) /\ (~wide => w = 1) /\ L \in Nat
  BY <1>1, LenProperties DEF LenWidth
<1>4. Len(part) = w + L /\ LenAt(part, 1, wide) = L /\ \A k \in 1..L : part[w + k] = c.params[p][k]
  BY <1>1, PartFacts
<1>5. o \in Nat /\ off[p] = o + (w + L) /\ m \in Nat
  <2>1. p - 1 \in 0..n /\ n \in 0..n
    BY <1>1
  <2>2. off \in [0..n -> Nat] /\ off[p] = off[p-1] + Len(seqs[p])
    BY DEF Offsets
  <2> HIDE DEF part, w, L
  <2>3. off[p] = off[p-1] + (w + L)
    BY <1>2, <1>4, <2>2
  <2> QED
    BY <2>1, <2>2, <2>3
<1>6. \A k \in 1..w + L : o + k \in 1..m /\ flat[o + k] = part[k]
  <2>1. LaidOut(flat, n, seqs, off)
    BY <1>1, <1>2, FlattenedAt
  <2> QED
    BY <1>2, <1>4, <2>1 DEF LaidOut
<1>7. /\ Len(f) = 3 + m + PadCount(3 + m) + 1
      /\ \A j \in 1..m : f[3 + j] = flat[j]
  BY FrameLayout
<1> HIDE DEF n, seqs, flat, part, f, w, L, o, m
<1>8. \A k \in 1..w + L : f[3 + (o + k)] = part[k]
  BY <1>6, <1>7
<1>9. LenAt(f, 4 + o, wide) = L
  <2>1. CASE wide
    <3>1. 1 \in 1..w + L /\ 2 \in 1..w + L
      BY <1>3, <2>1
    <3>2. f[3 + (o + 1)] = part[1] /\ f[3 + (o + 2)] = part[2]
      BY <1>8, <3>1
    <3>3. 3 + (o + 1) = 4 + o /\ 3 + (o + 2) = (4 + o) + 1
      BY <1>5
    <3>4. 256 * part[1] + part[2] = L
      BY <1>4, <2>1 DEF LenAt
    <3> QED
      BY <2>1, <3>2, <3>3, <3>4 DEF LenAt
  <2>2. CASE ~wide
    <3>1. 1 \in 1..w + L
      BY <1>3
    <3>2. f[3 + (o + 1)] = part[1] /\ 3 + (o + 1) = 4 + o
      BY <1>5, <1>8, <3>1
    <3> QED
      BY <1>4, <2>2, <3>2 DEF LenAt
  <2> QED
    BY <2>1, <2>2
<1>10. ASSUME NEW k \in 1..L PROVE f[4 + o + w + k - 1] = c.params[p][k]
  <2>1. w + k \in 1..w + L /\ 3 + (o + (w + k)) = 4 + o + w + k - 1
    BY <1>3, <1>5
  <2> QED
    BY <1>4, <1>8, <2>1
<1>11. (4 + off[p]) - 1 <= Len(f)
  <2>1. o + (w + L) <= m
    <3>1. w + L \in 1..w + L
      BY <1>3
    <3> QED
      BY <1>5, <1>6, <3>1
  <2>2. PadCount(3 + m) \in Nat
    BY <1>5 DEF PadCount
  <2> QED
    BY <1>3, <1>5, <1>7, <2>1, <2>2
<1>12. 4 + off[p] = 4 + o + w + L
  BY <1>3, <1>5
<1>13. 4 + o \in Nat /\ 4 + o >= 4 /\ 4 + off[p] \in Nat
  BY <1>3, <1>5
<1>14. HasParam(f, w, 4 + o, 4 + off[p], c.params[p], wide)
  <2> DEFINE at == 4 + o
             next == 4 + off[p]
  <2>1. /\ at \in Nat /\ at >= 4 /\ w \in 1..2 /\ next \in Nat
        /\ LenAt(f, at, wide) = L
    BY <1>3, <1>9, <1>13
  <2>2. next = at + w + L
    BY <1>12
  <2>3. next - 1 <= Len(f)
    BY <1>11
  <2>4. \A k \in 1..L : f[at + w + k - 1] = c.params[p][k]
    BY <1>10
  <2> HIDE DEF at, next
  <2>5. HasParam(f, w, at, next, c.params[p], wide)
    BY <2>1, <2>2, <2>3, <2>4 DEF HasParam, L
  <2> QED
    BY <2>5 DEF at, next
<1> QED
  BY <1>14 DEF f, w, o

\* Where the parameters of a frame begin, and behind the last one, as Decode
\* finds it.
ParamAts(f, w, n, at, wide) ==
    at = [p \in 1..n+1 |-> IF p = 1 THEN 4 ELSE at[p-1] + w + LenAt(f, at[p-1], wide)]

LEMMA ParamAtsUnique ==
    ASSUME NEW f, NEW w, NEW n \in Nat, NEW wide, NEW at, NEW bt,
           ParamAts(f, w, n, at, wide), ParamAts(f, w, n, bt, wide)
    PROVE  at = bt
<1> DEFINE m == n + 1
<1>1. On(at, 1..m) /\ On(bt, 1..m)
  BY DEF ParamAts, On
<1>2. at[1] = bt[1]
  BY DEF ParamAts
<1>3. ASSUME NEW p \in 1..m-1, at[p] = bt[p] PROVE at[p+1] = bt[p+1]
  <2>1. p + 1 \in 1..n+1 /\ p + 1 # 1 /\ (p + 1) - 1 = p
    OBVIOUS
  <2>2. at[p+1] = at[p] + w + LenAt(f, at[p], wide)
    BY <2>1 DEF ParamAts
  <2>3. bt[p+1] = bt[p] + w + LenAt(f, bt[p], wide)
    BY <2>1 DEF ParamAts
  <2> QED
    BY <1>3, <2>2, <2>3
<1>4. m \in Nat
  OBVIOUS
<1> HIDE DEF m
<1> QED
  BY <1>1, <1>2, <1>3, <1>4, SameFunction

\* Every command that SpiDrv_sendCmd and SpiDrv_sendBuffer frame, whose lengths
\* the frame can carry, reaches the coprocessor as it was meant, in whole words
\* that END_CMD ends.
THEOREM FramesReadBack ==
    \A wide \in BOOLEAN : \A c : IsCommand(c, wide) => ReadsBack(c, wide)
<1> SUFFICES ASSUME NEW wide \in BOOLEAN, NEW c, IsCommand(c, wide)
             PROVE  ReadsBack(c, wide)
  OBVIOUS
<1> DEFINE n == Len(c.params)
           w == LenWidth(wide)
           f == Frame(c, wide)
           L(p) == Len(c.params[p])
<1>1. n \in Nat /\ DOMAIN c.params = 1..n
  BY CommandFacts
<1>2. PICK off : Offsets(off, n, Parts(c, wide))
  <2>1. ASSUME NEW p \in 1..n PROVE Len(Parts(c, wide)[p]) \in Nat
    <3>1. c.params[p] \in Seq(Byte) /\ L(p) < TooLong(wide)
      BY CommandFacts DEF IsCommand, ShortParams
    <3>2. Part(c.params[p], wide) \in Seq(Byte)
      BY <3>1, PartFacts
    <3> QED
      BY <1>1, <3>2, LenProperties DEF Parts
  <2> QED
    BY <1>1, <2>1, OffsetsExist
<1>3. /\ Len(f) = FrameLength(c, wide) /\ f[Len(f)] = FRAME_END
      /\ f[2] = c.cmd /\ f[3] = n /\ Len(f) \in Nat
  <2>1. /\ Len(f) = 3 + off[n] + PadCount(3 + off[n]) + 1 /\ f[Len(f)] = FRAME_END
        /\ f[2] = c.cmd /\ f[3] = n
    BY <1>2, FrameLayout
  <2>2. BodyLength(c, wide) = 3 + off[n] /\ off[n] \in Nat
    BY <1>2, BodyEnds
  <2>3. PadCount(3 + off[n]) \in Nat
    BY <2>2 DEF PadCount
  <2> QED
    BY <2>1, <2>2, <2>3 DEF FrameLength
<1>4. Len(f) % 4 = 0
  <2>1. BodyLength(c, wide) \in Nat
    BY <1>2, BodyEnds
  <2> QED
    BY <1>3, <2>1, FrameIsWords
<1> DEFINE bt == [p \in 1..n+1 |-> 4 + off[p-1]]
<1>5. ParamAts(f, w, n, bt, wide)
  <2>1. ASSUME NEW p \in 1..n+1
        PROVE  bt[p] = IF p = 1 THEN 4 ELSE bt[p-1] + w + LenAt(f, bt[p-1], wide)
    <3>1. CASE p = 1
      <4>1. off[p-1] = 0
        BY <1>2, <3>1 DEF Offsets
      <4> QED
        BY <3>1, <4>1
    <3>2. CASE p # 1
      <4>1. PICK q \in 1..n : q = p - 1
        BY <1>1, <3>2
      <4>2. bt[p] = 4 + off[q] /\ bt[p-1] = 4 + off[q-1]
        BY <1>1, <4>1
      <4>3. HasParam(f, w, 4 + off[q-1], 4 + off[q], c.params[q], wide)
        BY <1>2, PartInFrame
      <4> HIDE DEF bt, f, w, n, L
      <4> QED
        BY <3>2, <4>2, <4>3 DEF HasParam
    <3> QED
      BY <3>1, <3>2
  <2> HIDE DEF f, w, n
  <2> QED
    BY <2>1 DEF ParamAts
<1> DEFINE at == CHOOSE x : ParamAts(f, w, n, x, wide)
<1> HIDE DEF bt
<1>6. at = bt
  <2>1. ParamAts(f, w, n, at, wide)
    BY <1>5
  <2> HIDE DEF at
  <2> QED
    BY <1>1, <1>5, <2>1, ParamAtsUnique
<1>7. Decode(f, wide) =
         [cmd |-> f[2], params |-> [p \in 1..n |-> SubSeq(f, at[p] + w, at[p+1] - 1)]]
  <2> HIDE DEF f, n
  <2> QED
    BY <1>3 DEF Decode, ParamAts, LenAt
<1> HIDE DEF at
<1>8. ASSUME NEW p \in 1..n
      PROVE  SubSeq(f, at[p] + w, at[p+1] - 1) = c.params[p]
  <2> DEFINE a == at[p] + w
             b == at[p+1] - 1
             sub == SubSeq(f, a, b)
  <2>1. at[p] = 4 + off[p-1] /\ at[p+1] = 4 + off[p]
    <3>1. p \in 1..n+1 /\ p + 1 \in 1..n+1 /\ (p + 1) - 1 = p
      BY <1>1
    <3> HIDE DEF n
    <3> QED
      BY <1>6, <3>1 DEF bt
  <2>2. HasParam(f, w, at[p], at[p+1], c.params[p], wide)
    <3>1. HasParam(f, w, 4 + off[p-1], 4 + off[p], c.params[p], wide)
      BY <1>2, PartInFrame
    <3> HIDE DEF f, w
    <3> QED
      BY <2>1, <3>1
  <2>3. c.params[p] \in Seq(Byte) /\ L(p) \in Nat
    BY CommandFacts, LenProperties
  <2>4. \A k \in 1..L(p) : c.params[p][k] \in Byte
    BY <2>3, ElementOfSeq
  <2> HIDE DEF f, w, n
  <2>5. /\ a \in Int /\ b \in Int /\ b - a + 1 = L(p)
        /\ (IF a <= b THEN b - a + 1 ELSE 0) = L(p)
    <3>1. /\ at[p] \in Nat /\ at[p+1] \in Nat /\ w \in 1..2
          /\ at[p+1] = at[p] + w + L(p)
      BY <2>2 DEF HasParam
    <3> DEFINE x == at[p]
               y == at[p+1]
               l == L(p)
    <3>2. x \in Nat /\ y \in Nat /\ l \in Nat /\ w \in 1..2 /\ y = x + w + l
      BY <2>3, <3>1
    <3> HIDE DEF x, y, l
    <3>3. /\ x + w \in Int /\ y - 1 \in Int /\ (y - 1) - (x + w) + 1 = l
          /\ (IF x + w <= y - 1 THEN (y - 1) - (x + w) + 1 ELSE 0) = l
      BY <3>2
    <3> QED
      BY <3>3 DEF x, y, l
  <2>6. \A k \in 1..L(p) : f[a + k - 1] = c.params[p][k]
    BY <2>2 DEF HasParam
  <2> HIDE DEF a, b
  <2>7. ASSUME NEW k \in a..b PROVE f[k] \in Byte
    <3>1. k - a + 1 \in 1..L(p) /\ a + (k - a + 1) - 1 = k
      BY <2>3, <2>5
    <3> QED
      BY <2>4, <2>6, <3>1
  <2>8. /\ sub \in Seq(Byte) /\ Len(sub) = L(p)
        /\ \A k \in 1..L(p) : sub[k] = f[a + k - 1]
    <3>1. /\ sub \in Seq(Byte) /\ Len(sub) = IF a <= b THEN b - a + 1 ELSE 0
          /\ \A k \in 1..b - a + 1 : sub[k] = f[a + k - 1]
      BY <2>5, <2>7, SubSeqProperties
    <3> QED
      BY <2>5, <3>1
  <2> HIDE DEF sub
  <2>9. \A k \in 1..L(p) : sub[k] = c.params[p][k]
    BY <2>6, <2>8
  <2>10. sub = c.params[p]
    BY <2>3, <2>8, <2>9, SeqEqual
  <2> QED
    BY <2>10 DEF sub, a, b
<1>9. Decode(f, wide) = c
  <2>1. c \in [cmd : 0..REPLY_FLAG-1, params : Seq(Seq(Byte))]
    BY DEF IsCommand
  <2>2. c = [cmd |-> c.cmd, params |-> c.params]
    BY <2>1
  <2>3. c.params = [p \in 1..n |-> c.params[p]]
    BY <1>1, <2>1
  <2>4. [p \in 1..n |-> SubSeq(f, at[p] + w, at[p+1] - 1)] = [p \in 1..n |-> c.params[p]]
    BY <1>8
  <2> HIDE DEF f, n, w
  <2> QED
    BY <1>3, <1>7, <2>2, <2>3, <2>4
<1> QED
  BY <1>3, <1>4, <1>9 DEF ReadsBack

-----------------------------------------------------------------------------
(* Commands of SpiDrv_sendCmd, by the number of their parameters *)

\* A command that fits txBuffer, and that the coprocessor reads as it was meant.
Framed(c) == IsCommand(c, FALSE) /\ FitsTxBuffer(c, FALSE) /\ ReadsBack(c, FALSE)

Short(params) == Len(params) <= MAX_PARAMS /\ \A p \in 1..Len(params) : Len(params[p]) < 256

LEMMA FramedIf ==
    ASSUME NEW c, IsCommand(c, FALSE), NEW n \in Nat, n <= 251, BodyLength(c, FALSE) = n
    PROVE  Framed(c)
<1>1. FitsTxBuffer(c, FALSE)
  <2>1. n + PadCount(n) + 1 <= SPI_MAX_TX_BUFFER
    BY FitsUpTo
  <2>2. FrameLength(c, FALSE) = n + PadCount(n) + 1
    BY DEF FrameLength
  <2> QED
    BY <2>1, <2>2 DEF FitsTxBuffer
<1> QED
  BY <1>1, FramesReadBack DEF Framed

LEMMA FramedNone ==
    ASSUME NEW cmd \in 0..REPLY_FLAG-1
    PROVE  Framed([cmd |-> cmd, params |-> << >>])
<1> DEFINE ps == << >>
           c == [cmd |-> cmd, params |-> ps]
           n == 3
<1>1. ps \in Seq(Seq(Byte)) /\ Len(ps) = 0
  OBVIOUS
<1>2. n \in Nat /\ n <= 251
  OBVIOUS
<1>3. BodyLength(c, FALSE) = n
  BY DEF BodyLength, TotalOf, LengthOf, LenWidth
<1> HIDE DEF ps, n
<1>4. Short(ps) /\ ps \in Seq(Seq(Byte))
  BY <1>1 DEF Short, MAX_PARAMS
<1>5. IsCommand(c, FALSE)
  BY <1>4 DEF IsCommand, Short, ShortParams, TooLong
<1> HIDE DEF c
<1>6. Framed(c)
  BY <1>2, <1>3, <1>5, FramedIf
<1> QED
  BY <1>6 DEF c, ps

LEMMA FramedOne ==
    ASSUME NEW cmd \in 0..REPLY_FLAG-1, NEW a \in Seq(Byte),
           Len(a) <= 247
    PROVE  Framed([cmd |-> cmd, params |-> <<a>>])
<1> DEFINE ps == <<a>>
           c == [cmd |-> cmd, params |-> ps]
           n == 4 + Len(a)
<1>1. ps \in Seq(Seq(Byte)) /\ Len(ps) = 1 /\ ps[1] = a
  OBVIOUS
<1>2. Len(a) \in Nat
  BY LenProperties
<1>3. n \in Nat /\ n <= 251
  BY <1>2
<1>4. BodyLength(c, FALSE) = n
  BY <1>2 DEF BodyLength, TotalOf, LengthOf, LenWidth, Counted, TooLong
<1> HIDE DEF ps, n
<1>5. Short(ps) /\ ps \in Seq(Seq(Byte))
  BY <1>1, <1>2 DEF Short, MAX_PARAMS
<1>6. IsCommand(c, FALSE)
  BY <1>5 DEF IsCommand, Short, ShortParams, TooLong
<1> HIDE DEF c
<1>7. Framed(c)
  BY ONLY <1>3, <1>4, <1>6, FramedIf
<1> QED
  BY <1>7 DEF c, ps

LEMMA FramedTwo ==
    ASSUME NEW cmd \in 0..REPLY_FLAG-1, NEW a \in Seq(Byte), NEW b \in Seq(Byte),
           Len(a) + Len(b) <= 246
    PROVE  Framed([cmd |-> cmd, params |-> <<a, b>>])
<1> DEFINE ps == <<a, b>>
           c == [cmd |-> cmd, params |-> ps]
           n == 5 + Len(a) + Len(b)
<1>1. ps \in Seq(Seq(Byte)) /\ Len(ps) = 2 /\ ps[1] = a /\ ps[2] = b
  OBVIOUS
<1>2. Len(a) \in Nat /\ Len(b) \in Nat
  BY LenProperties
<1>3. n \in Nat /\ n <= 251
  BY <1>2
<1>4. BodyLength(c, FALSE) = n
  BY <1>2 DEF BodyLength, TotalOf, LengthOf, LenWidth, Counted, TooLong
<1> HIDE DEF ps, n
<1>5. Short(ps) /\ ps \in Seq(Seq(Byte))
  BY <1>1, <1>2 DEF Short, MAX_PARAMS
<1>6. IsCommand(c, FALSE)
  BY <1>5 DEF IsCommand, Short, ShortParams, TooLong
<1> HIDE DEF c
<1>7. Framed(c)
  BY ONLY <1>3, <1>4, <1>6, FramedIf
<1> QED
  BY <1>7 DEF c, ps

\* See CountedIsNat.
LEMMA ShortRemainder ==
    \A n \in Nat : n < 256 => n % 256 = n
OBVIOUS

LEMMA FramedThree ==
    ASSUME NEW cmd \in 0..REPLY_FLAG-1, NEW a \in Seq(Byte), NEW b \in Seq(Byte), NEW d \in Seq(Byte),
           Len(a) + Len(b) + Len(d) <= 245
    PROVE  Framed([cmd |-> cmd, params |-> <<a, b, d>>])
<1> DEFINE ps == <<a, b, d>>
           c == [cmd |-> cmd, params |-> ps]
           n == 6 + Len(a) + Len(b) + Len(d)
<1>1. ps \in Seq(Seq(Byte)) /\ Len(ps) = 3 /\ ps[1] = a /\ ps[2] = b /\ ps[3] = d
  OBVIOUS
<1>2. Len(a) \in Nat /\ Len(b) \in Nat /\ Len(d) \in Nat
  BY LenProperties
<1>3. n \in Nat /\ n <= 251
  BY <1>2
<1>4. BodyLength(c, FALSE) = n
  <2>1. Len(a) \in Nat /\ Len(a) < 256
    BY <1>2
  <2>2. Len(b) \in Nat /\ Len(b) < 256
    BY <1>2
  <2>3. Len(d) \in Nat /\ Len(d) < 256
    BY <1>2
  <2>4. Len(a) % 256 = Len(a) /\ Len(b) % 256 = Len(b) /\ Len(d) % 256 = Len(d)
    BY ONLY <2>1, <2>2, <2>3, ShortRemainder
  <2> QED
    BY <1>2, <2>4 DEF BodyLength, TotalOf, LengthOf, LenWidth, Counted, TooLong
<1> HIDE DEF ps, n
<1>5. Short(ps) /\ ps \in Seq(Seq(Byte))
  BY <1>1, <1>2 DEF Short, MAX_PARAMS
<1>6. IsCommand(c, FALSE)
  BY <1>5 DEF IsCommand, Short, ShortParams, TooLong
<1> HIDE DEF c
<1>7. Framed(c)
  BY ONLY <1>3, <1>4, <1>6, FramedIf
<1> QED
  BY <1>7 DEF c, ps

LEMMA FramedFour ==
    ASSUME NEW cmd \in 0..REPLY_FLAG-1, NEW a \in Seq(Byte), NEW b \in Seq(Byte), NEW d \in Seq(Byte), NEW e \in Seq(Byte),
           Len(a) + Len(b) + Len(d) + Len(e) <= 244
    PROVE  Framed([cmd |-> cmd, params |-> <<a, b, d, e>>])
<1> DEFINE ps == <<a, b, d, e>>
           c == [cmd |-> cmd, params |-> ps]
           n == 7 + Len(a) + Len(b) + Len(d) + Len(e)
<1>1. ps \in Seq(Seq(Byte)) /\ Len(ps) = 4 /\ ps[1] = a /\ ps[2] = b /\ ps[3] = d /\ ps[4] = e
  OBVIOUS
<1>2. Len(a) \in Nat /\ Len(b) \in Nat /\ Len(d) \in Nat /\ Len(e) \in Nat
  BY LenProperties
<1>3. n \in Nat /\ n <= 251
  BY <1>2
<1>4. BodyLength(c, FALSE) = n
  <2>1. Len(a) \in Nat /\ Len(a) < 256
    BY <1>2
  <2>2. Len(b) \in Nat /\ Len(b) < 256
    BY <1>2
  <2>3. Len(d) \in Nat /\ Len(d) < 256
    BY <1>2
  <2>4. Len(e) \in Nat /\ Len(e) < 256
    BY <1>2
  <2>5. Len(a) % 256 = Len(a) /\ Len(b) % 256 = Len(b) /\ Len(d) % 256 = Len(d) /\ Len(e) % 256 = Len(e)
    BY ONLY <2>1, <2>2, <2>3, <2>4, ShortRemainder
  <2> QED
    BY <1>2, <2>5 DEF BodyLength, TotalOf, LengthOf, LenWidth, Counted, TooLong
<1> HIDE DEF ps, n
<1>5. Short(ps) /\ ps \in Seq(Seq(Byte))
  BY <1>1, <1>2 DEF Short, MAX_PARAMS
<1>6. IsCommand(c, FALSE)
  BY <1>5 DEF IsCommand, Short, ShortParams, TooLong
<1> HIDE DEF c
<1>7. Framed(c)
  BY ONLY <1>3, <1>4, <1>6, FramedIf
<1> QED
  BY <1>7 DEF c, ps
=============================================================================
