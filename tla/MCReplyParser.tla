--------------------------- MODULE MCReplyParser ----------------------------
(***************************************************************************)
(* Small instances of ReplyParser: bytes below 8, of which 4 to 7 are the  *)
(* markers, up to two parameters, and as inputs every stream of a few      *)
(* bytes behind a good header, every short stream, and frames with noise   *)
(* before them and zeros or noise behind them.                             *)
(***************************************************************************)
EXTENDS ReplyFrames

MCSizes == {<<1>>, <<3>>, <<1, 2>>, <<2, 3>>}

Data == {2, END}

MCPayloads ==
    LET texts == BoundedSeq(Data, 2)
    IN  {<<a>> : a \in texts} \union {<<a, b>> : a, b \in texts}

Tails ==
    LET bytes == {0, 1, 2, START, END}
    IN  [1..5 -> bytes]

Calls(streams) == [rx : streams, size : MCSizes, wide : BOOLEAN]

MCNoise ==
    Calls({<<START, REPLY>> \o s : s \in Tails} \union BoundedSeq(0..Byte-1, 3))

MCFrames ==
    UNION {{[rx |-> before \o Frame(ps, w) \o after, size |-> z, wide |-> w] :
               before \in {<< >>, <<0>>, <<0, END, 2>>}, after \in {<< >>, <<0, 0>>, <<START>>},
               ps \in MCPayloads, z \in MCSizes} : w \in BOOLEAN}

MCInputs == MCNoise \union MCFrames
=============================================================================
