--------------------------- MODULE SequenceFacts ---------------------------
(***************************************************************************)
(* Facts about numbers, recursive functions and sequences that the proofs  *)
(* about frames and their parse rest on: induction for a set of numbers,   *)
(* the values of a function defined by recursion, and where the parts of a *)
(* flattened sequence are.                                                 *)
(***************************************************************************)
EXTENDS Integers, SequencesExt, SequenceTheorems, WellFoundedInduction, TLAPS

-----------------------------------------------------------------------------
(* Induction *)

LEMMA LeastNumber ==
    ASSUME NEW S \in SUBSET Nat, S # {}
    PROVE  \E x \in S : \A y \in S : x <= y
<1> DEFINE R == OpToRel(<, Nat)
<1>1. IsWellFoundedOn(R, Nat)
  BY NatLessThanWellFounded
<1>2. \A x, y \in Nat : x < y => <<x, y>> \in R
  BY DEF OpToRel
<1> HIDE DEF R
<1>3. PICK x \in S : \A y \in S : <<y, x>> \notin R
  BY <1>1, WFMin
<1>4. ASSUME NEW y \in S PROVE x <= y
  <2>1. x \in Nat /\ y \in Nat
    OBVIOUS
  <2>2. ~(y < x)
    BY <1>2, <1>3, <2>1
  <2> QED
    BY <2>1, <2>2
<1> QED
  BY <1>4

\* A set that has 1, and the successor of each number below n that it has, has
\* all numbers up to n.
LEMMA InductionUpTo ==
    ASSUME NEW n \in Nat, NEW S, n > 0 => 1 \in S, \A p \in 1..n-1 : p \in S => p + 1 \in S
    PROVE  \A p \in 1..n : p \in S
<1> SUFFICES ASSUME (1..n) \ S # {} PROVE FALSE
  OBVIOUS
<1>1. (1..n) \ S \in SUBSET Nat
  OBVIOUS
<1>2. PICK x \in (1..n) \ S : \A y \in (1..n) \ S : x <= y
  BY <1>1, LeastNumber
<1>3. x \in 1..n /\ x \notin S /\ n > 0
  BY <1>2
<1>4. x # 1
  BY <1>3
<1>5. x - 1 \in 1..n-1 /\ ~(x <= x - 1) /\ (x - 1) + 1 = x
  BY <1>3, <1>4
<1>6. x - 1 \in S
  BY <1>2, <1>5
<1> QED
  BY <1>3, <1>5, <1>6

\* f is a function on S.
On(f, S) == f = [p \in S |-> f[p]]

\* Two functions that begin alike, and go on alike as long as they are, are one.
LEMMA SameFunction ==
    ASSUME NEW n \in Nat, NEW f, NEW g,
           On(f, 1..n), On(g, 1..n),
           n > 0 => f[1] = g[1],
           \A p \in 1..n-1 : f[p] = g[p] => f[p+1] = g[p+1]
    PROVE  f = g
<1> DEFINE S == {p \in 1..n : f[p] = g[p]}
<1>1. n > 0 => 1 \in S
  OBVIOUS
<1>2. ASSUME NEW p \in 1..n-1, p \in S PROVE p + 1 \in S
  <2>1. f[p+1] = g[p+1]
    BY <1>2
  <2> QED
    BY <2>1
<1> HIDE DEF S
<1>3. \A p \in 1..n : p \in S
  BY <1>1, <1>2, InductionUpTo
<1>4. \A p \in 1..n : f[p] = g[p]
  BY <1>3 DEF S
<1> QED
  BY <1>4 DEF On

\* f is defined by recursion, from 1 up to n.
Recursive(f, n, a, step) == \A p \in 1..n : f[p] = IF p = 1 THEN a ELSE step[<<f[p-1], p>>]

\* Such a function exists.
LEMMA RecursionExists ==
    ASSUME NEW n \in Nat, NEW D, NEW a \in D, NEW step \in [D \X (1..n) -> D]
    PROVE  \E f \in [1..n -> D] : Recursive(f, n, a, step)
<1> DEFINE Is(f, m) == Recursive(f, m, a, step)
           S == {m \in 1..n : \E f \in [1..m -> D] : Is(f, m)}
<1>1. ASSUME n > 0 PROVE 1 \in S
  <2> DEFINE f == [p \in 1..1 |-> a]
  <2>1. f \in [1..1 -> D] /\ Is(f, 1)
    BY DEF Recursive
  <2>2. 1 \in 1..n
    BY <1>1
  <2> HIDE DEF f, Is
  <2> QED
    BY <2>1, <2>2
<1>2. ASSUME NEW m \in 1..n-1, m \in S PROVE m + 1 \in S
  <2>1. PICK f \in [1..m -> D] : Is(f, m)
    BY <1>2
  <2> DEFINE g == [p \in 1..m+1 |-> IF p <= m THEN f[p] ELSE step[<<f[m], m+1>>]]
  <2>2. f[m] \in D /\ m + 1 \in 1..n
    BY <2>1
  <2>3. g \in [1..m+1 -> D]
    BY <2>1, <2>2
  <2>4. ASSUME NEW p \in 1..m+1
        PROVE  g[p] = IF p = 1 THEN a ELSE step[<<g[p-1], p>>]
    <3>1. CASE p <= m
      <4>1. f[p] = IF p = 1 THEN a ELSE step[<<f[p-1], p>>]
        BY <2>1, <3>1 DEF Recursive
      <4>2. p # 1 => g[p-1] = f[p-1]
        BY <3>1
      <4> QED
        BY <3>1, <4>1, <4>2
    <3>2. CASE p = m + 1
      <4>1. p # 1 /\ g[p-1] = f[m] /\ ~(p <= m)
        BY <3>2
      <4> QED
        BY <3>2, <4>1
    <3> QED
      BY <3>1, <3>2
  <2>5. Is(g, m+1)
    BY <2>4 DEF Recursive
  <2> QED
    BY <2>2, <2>3, <2>5
<1>3. CASE n = 0
  <2>1. [p \in 1..0 |-> a] \in [1..0 -> D] /\ Recursive([p \in 1..0 |-> a], 0, a, step)
    BY DEF Recursive
  <2> QED
    BY <1>3, <2>1
<1>4. CASE n > 0
  <2> HIDE DEF S
  <2>1. n \in S
    BY <1>1, <1>2, <1>4, InductionUpTo
  <2> QED
    BY <2>1 DEF S
<1> QED
  BY <1>3, <1>4

-----------------------------------------------------------------------------
(* Flattened sequences *)

\* f[p] is the first p of the sequences, one behind the other.
Joined(f, n, seqs) == \A p \in 1..n : f[p] = IF p = 1 THEN seqs[p] ELSE f[p-1] \o seqs[p]

LEMMA JoinedExist ==
    ASSUME NEW n \in Nat, NEW T, NEW seqs, \A p \in 1..n : seqs[p] \in T,
           \A x, y \in T : x \o y \in T
    PROVE  \E f \in [1..n -> T] : Joined(f, n, seqs)
<1>0. CASE n = 0
  <2>1. [p \in 1..0 |-> seqs] \in [1..0 -> T] /\ Joined([p \in 1..0 |-> seqs], 0, seqs)
    BY DEF Joined
  <2> QED
    BY <1>0, <2>1
<1> DEFINE step == [x \in T \X (1..n) |-> x[1] \o seqs[x[2]]]
<1>1. step \in [T \X (1..n) -> T]
  OBVIOUS
<1>2. \A x \in T, p \in 1..n : step[<<x, p>>] = x \o seqs[p]
  OBVIOUS
<1> HIDE DEF step
<1>3. CASE n > 0
  <2>1. seqs[1] \in T
    BY <1>3
  <2>2. PICK f \in [1..n -> T] : Recursive(f, n, seqs[1], step)
    BY <1>1, <2>1, RecursionExists
  <2>3. ASSUME NEW p \in 1..n
        PROVE  f[p] = IF p = 1 THEN seqs[p] ELSE f[p-1] \o seqs[p]
    <3>1. CASE p = 1
      BY <2>2, <3>1 DEF Recursive
    <3>2. CASE p # 1
      <4>1. f[p-1] \in T
        BY <3>2
      <4>2. f[p] = step[<<f[p-1], p>>]
        BY <2>2, <3>2 DEF Recursive
      <4> QED
        BY <1>2, <3>2, <4>1, <4>2
    <3> QED
      BY <3>1, <3>2
  <2> QED
    BY <2>3 DEF Joined
<1> QED
  BY <1>0, <1>3

\* off[p] is where the first p of the sequences end.
Offsets(off, n, seqs) ==
    /\ off \in [0..n -> Nat] /\ off[0] = 0
    /\ \A p \in 1..n : off[p] = off[p-1] + Len(seqs[p])

\* s has each of the sequences where it is to be.
LaidOut(s, n, seqs, off) ==
    \A p \in 1..n : \A k \in 1..Len(seqs[p]) :
       off[p-1] + k \in 1..off[n] /\ s[off[p-1] + k] = seqs[p][k]

LEMMA OffsetsExist ==
    ASSUME NEW n \in Nat, NEW seqs, \A p \in 1..n : Len(seqs[p]) \in Nat
    PROVE  \E off : Offsets(off, n, seqs)
<1>1. CASE n = 0
  <2>1. Offsets([p \in 0..0 |-> 0], 0, seqs)
    BY DEF Offsets
  <2> QED
    BY <1>1, <2>1
<1>2. CASE n > 0
  <2> DEFINE step == [x \in Nat \X (1..n) |-> x[1] + Len(seqs[x[2]])]
  <2>1. step \in [Nat \X (1..n) -> Nat]
    OBVIOUS
  <2>2. \A x \in Nat, p \in 1..n : step[<<x, p>>] = x + Len(seqs[p])
    OBVIOUS
  <2>3. Len(seqs[1]) \in Nat
    BY <1>2
  <2> HIDE DEF step
  <2>4. PICK f \in [1..n -> Nat] : Recursive(f, n, Len(seqs[1]), step)
    BY <2>1, <2>3, RecursionExists
  <2> DEFINE off == [p \in 0..n |-> IF p = 0 THEN 0 ELSE f[p]]
  <2>5. off \in [0..n -> Nat] /\ off[0] = 0
    OBVIOUS
  <2>6. ASSUME NEW p \in 1..n PROVE off[p] = off[p-1] + Len(seqs[p])
    <3>1. CASE p = 1
      <4>1. f[1] = Len(seqs[1])
        BY <2>4, <3>1 DEF Recursive
      <4>2. off[1] = f[1] /\ off[p-1] = 0
        BY <3>1
      <4> QED
        BY <2>3, <3>1, <4>1, <4>2
    <3>2. CASE p # 1
      <4>1. p - 1 \in 1..n /\ f[p-1] \in Nat /\ off[p] = f[p] /\ off[p-1] = f[p-1]
        BY <3>2
      <4>2. f[p] = step[<<f[p-1], p>>]
        BY <2>4, <3>2 DEF Recursive
      <4> QED
        BY <2>2, <4>1, <4>2
    <3> QED
      BY <3>1, <3>2
  <2> HIDE DEF off
  <2> QED
    BY <2>5, <2>6 DEF Offsets
<1> QED
  BY <1>1, <1>2

LEMMA JoinedAt ==
    ASSUME NEW S, NEW n \in Nat, n > 0, NEW seqs, \A p \in 1..n : seqs[p] \in Seq(S),
           NEW off, Offsets(off, n, seqs), NEW flat, Joined(flat, n, seqs)
    PROVE  flat[n] \in Seq(S) /\ Len(flat[n]) = off[n] /\ LaidOut(flat[n], n, seqs, off)
<1>0. \A p \in 1..n : Len(seqs[p]) \in Nat /\ off[p] \in Nat /\ off[p-1] \in Nat
  BY LenProperties DEF Offsets
<1> DEFINE Holds(m) == LaidOut(flat[m], m, seqs, off)
           Good(m) == flat[m] \in Seq(S) /\ Len(flat[m]) = off[m] /\ Holds(m)
           G == {m \in 1..n : Good(m)}
<1>1. Good(1)
  <2>1. 1 \in 1..n /\ off[0] = 0 /\ off[1] = Len(seqs[1]) /\ flat[1] = seqs[1]
    BY <1>0 DEF Offsets, Joined
  <2>2. Holds(1)
    BY <1>0, <2>1 DEF LaidOut
  <2> QED
    BY <2>1, <2>2
<1>2. ASSUME NEW m \in 1..n-1, Good(m) PROVE Good(m + 1)
  <2>1. m \in 1..n /\ m + 1 \in 1..n /\ (m + 1) - 1 = m
    OBVIOUS
  <2>2. seqs[m+1] \in Seq(S) /\ Len(seqs[m+1]) \in Nat /\ off[m] \in Nat
    BY <1>0, <2>1
  <2>3. off[m+1] = off[m] + Len(seqs[m+1])
    BY <2>1 DEF Offsets
  <2>4. flat[m] \in Seq(S) /\ Len(flat[m]) = off[m] /\ flat[m+1] = flat[m] \o seqs[m+1]
    <3>1. m + 1 # 1
      OBVIOUS
    <3>2. flat[m+1] = flat[m] \o seqs[m+1]
      BY <2>1, <3>1 DEF Joined
    <3> QED
      BY <1>2, <3>2
  <2>5. /\ flat[m+1] \in Seq(S) /\ Len(flat[m+1]) = off[m+1]
        /\ \A j \in 1..off[m+1] :
              flat[m+1][j] = IF j <= off[m] THEN flat[m][j] ELSE seqs[m+1][j - off[m]]
    <3> DEFINE x == flat[m]
               y == seqs[m+1]
    <3>1. x \in Seq(S) /\ y \in Seq(S) /\ flat[m+1] = x \o y
      BY <2>2, <2>4
    <3>2. Len(x) = off[m] /\ off[m+1] = Len(x) + Len(y)
      BY <2>3, <2>4
    <3> HIDE DEF x, y
    <3>3. /\ x \o y \in Seq(S) /\ Len(x \o y) = Len(x) + Len(y)
          /\ \A j \in 1..Len(x) + Len(y) :
                (x \o y)[j] = IF j <= Len(x) THEN x[j] ELSE y[j - Len(x)]
      BY <3>1, ConcatProperties
    <3> QED
      BY <3>1, <3>2, <3>3 DEF x, y
  <2>6. ASSUME NEW p \in 1..m+1, NEW k \in 1..Len(seqs[p])
        PROVE  off[p-1] + k \in 1..off[m+1] /\ flat[m+1][off[p-1] + k] = seqs[p][k]
    <3>0. Len(seqs[p]) \in Nat /\ off[p-1] \in Nat
      BY <1>0, <2>1
    <3>1. CASE p <= m
      <4>1. p \in 1..m
        BY <3>1
      <4>2. off[p-1] + k \in 1..off[m] /\ flat[m][off[p-1] + k] = seqs[p][k]
        BY <1>2, <4>1 DEF LaidOut
      <4>3. off[p-1] + k \in 1..off[m+1] /\ off[p-1] + k <= off[m]
        BY <2>2, <2>3, <3>0, <4>2, SMTT(30)
      <4> QED
        BY <2>5, <4>2, <4>3
    <3>2. CASE p = m + 1
      <4>1. off[p-1] = off[m] /\ k \in 1..Len(seqs[m+1])
        BY <2>1, <3>2
      <4>2. off[m] + k \in 1..off[m+1] /\ ~(off[m] + k <= off[m]) /\ (off[m] + k) - off[m] = k
        BY <2>2, <2>3, <3>0, <4>1, SMTT(30)
      <4> QED
        BY <2>5, <3>2, <4>1, <4>2
    <3> QED
      BY <3>1, <3>2
  <2>7. Holds(m + 1)
    BY <2>6 DEF LaidOut
  <2> HIDE DEF Holds
  <2> QED
    BY <2>5, <2>7
<1> HIDE DEF Good
<1>3. 1 \in G
  BY <1>1
<1>4. ASSUME NEW m \in 1..n-1, m \in G PROVE m + 1 \in G
  <2>1. Good(m + 1)
    BY <1>2, <1>4
  <2> QED
    BY <2>1
<1> HIDE DEF G
<1>5. n \in G
  <2>1. \A m \in 1..n : m \in G
    BY <1>3, <1>4, InductionUpTo
  <2> QED
    BY <2>1
<1>6. Good(n)
  BY <1>5 DEF G
<1> QED
  BY <1>6 DEF Good

\* The parts follow each other, each from where the one before it ends.
LEMMA FlattenedAt ==
    ASSUME NEW S, NEW n \in Nat, NEW seqs \in Seq(Seq(S)), Len(seqs) = n,
           NEW off, Offsets(off, n, seqs)
    PROVE  /\ FlattenSeq(seqs) \in Seq(S) /\ Len(FlattenSeq(seqs)) = off[n]
           /\ LaidOut(FlattenSeq(seqs), n, seqs, off)
<1>0. \A p \in 1..n : seqs[p] \in Seq(S)
  BY ElementOfSeq
<1>1. CASE n = 0
  <2>1. seqs = << >>
    BY <1>1, EmptySeq
  <2>2. FlattenSeq(seqs) = << >>
    BY <1>1, <2>1 DEF FlattenSeq
  <2>3. << >> \in Seq(S) /\ Len(<< >>) = 0
    BY EmptySeq
  <2> QED
    BY <1>1, <2>2, <2>3 DEF LaidOut, Offsets
<1>2. CASE n > 0
  <2> DEFINE Is(f) == f = [p \in 1..n |-> IF p = 1 THEN seqs[p] ELSE f[p-1] \o seqs[p]]
             flat == CHOOSE f : Is(f)
  <2>1. \E f : Is(f)
    <3>1. \A x, y \in Seq(S) : x \o y \in Seq(S)
      BY ConcatProperties
    <3>2. PICK f \in [1..n -> Seq(S)] : Joined(f, n, seqs)
      BY <1>0, <3>1, JoinedExist
    <3>3. Is(f)
      BY <3>2 DEF Joined
    <3> QED
      BY <3>3
  <2>2. Is(flat)
    BY <2>1
  <2>3. FlattenSeq(seqs) = flat[n]
    BY <1>2 DEF FlattenSeq
  <2> HIDE DEF flat
  <2>4. Joined(flat, n, seqs)
    BY <2>2 DEF Joined
  <2> QED
    BY <1>0, <1>2, <2>3, <2>4, JoinedAt
<1> QED
  BY <1>1, <1>2
=============================================================================
