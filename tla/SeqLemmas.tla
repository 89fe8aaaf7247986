------------------------------ MODULE SeqLemmas ------------------------------
(***************************************************************************)
(* Induction and recursion over the natural numbers in a first-order form, *)
(* and what FlattenSeq computes.                                           *)
(***************************************************************************)
EXTENDS Naturals, Sequences, SequencesExt, SequenceTheorems, WellFoundedInduction, TLAPS

-------------------------------------------------------------------------------
(* Induction *)

\* A non-empty set of numbers has a least element.
LEMMA LeastElement ==
    ASSUME NEW T, T \subseteq Nat, T # {}
    PROVE  \E x \in T : \A y \in T : x <= y
<1> DEFINE R == {ss \in Nat \X Nat : ss[1] < ss[2]}
<1>1. IsWellFoundedOn(R, Nat)
  BY NatLessThanWellFounded, Zenon DEF OpToRel
<1>2. \E x \in T : \A y \in T : ~(<<y, x>> \in R)
  <2> HIDE DEF R
  <2> QED BY <1>1, WFMin, Zenon
<1>3. PICK x \in T : \A y \in T : ~(<<y, x>> \in R)
  BY <1>2
<1>4. ASSUME NEW y \in T PROVE x <= y
  <2>1. ~(<<y, x>> \in R)
    BY <1>3
  <2>2. ~(y < x)
    BY <2>1
  <2> QED BY <2>2
<1> QED BY <1>4

\* Induction, with the claim given by the set of the numbers it holds for.
LEMMA SetInduction ==
    ASSUME NEW S, 0 \in S, \A n \in Nat : n \in S => n + 1 \in S
    PROVE  \A n \in Nat : n \in S
<1> DEFINE T == Nat \ S
<1>1. SUFFICES ASSUME T # {} PROVE FALSE
  OBVIOUS
<1>2. PICK x \in T : \A y \in T : x <= y
  BY <1>1, LeastElement
<1>3. x # 0 /\ x \in Nat
  OBVIOUS
<1>4. x - 1 \in Nat /\ x - 1 \in S
  BY <1>2, <1>3
<1> QED BY <1>4, <1>3

\* Concatenation is associative.
Regroups(X) == \A a, b, c \in Seq(X) : (a \o b) \o c = a \o (b \o c)

LEMMA Regroup == \A X : Regroups(X)
BY ConcatAssociative, Zenon DEF Regroups

-------------------------------------------------------------------------------
(* FlattenSeq *)

\* f holds the concatenations of the first parts of seqs, up to the n-th: the
\* function that FlattenSeq defines.
Flattens(f, seqs, n) ==
    f = [i \in 1..n |-> IF i = 1 THEN seqs[i] ELSE f[i - 1] \o seqs[i]]

\* Its first value,
LEMMA FlattensFirst ==
    ASSUME NEW seqs, NEW n \in Nat, n # 0, NEW f, Flattens(f, seqs, n)
    PROVE  f[1] = seqs[1]
<1>1. \A i \in 1..n : f[i] = IF i = 1 THEN seqs[i] ELSE f[i - 1] \o seqs[i]
  BY DEF Flattens
<1>2. 1 \in 1..n
  OBVIOUS
<1> QED BY <1>1, <1>2, Zenon

\* and each value from the one before.
Grows(f, seqs, n) ==
    \A i \in Nat : i # 0 /\ i < n => f[i + 1] = f[i] \o seqs[i + 1]

LEMMA FlattensStep ==
    ASSUME NEW seqs, NEW n \in Nat, NEW f, Flattens(f, seqs, n)
    PROVE  Grows(f, seqs, n)
<1> SUFFICES ASSUME NEW i \in Nat, i # 0, i < n PROVE f[i + 1] = f[i] \o seqs[i + 1]
  BY DEF Grows
<1>1. \A j \in 1..n : f[j] = IF j = 1 THEN seqs[j] ELSE f[j - 1] \o seqs[j]
  BY DEF Flattens
<1>2. i + 1 \in 1..n /\ i + 1 # 1 /\ (i + 1) - 1 = i
  OBVIOUS
<1> QED BY <1>1, <1>2, Zenon

\* The values of such a function are sequences over X.
LEMMA FlattensType ==
    ASSUME NEW X, NEW seqs \in Seq(Seq(X)), NEW n \in Nat, n <= Len(seqs),
           NEW f, Flattens(f, seqs, n)
    PROVE  \A i \in 1..n : f[i] \in Seq(X)
<1> DEFINE S == {i \in Nat : i \in 1..n => f[i] \in Seq(X)}
<1>1. 0 \in S
  OBVIOUS
<1>2. ASSUME NEW i \in Nat, i \in S PROVE i + 1 \in S
  <2>1. SUFFICES ASSUME i + 1 \in 1..n PROVE f[i + 1] \in Seq(X)
    OBVIOUS
  <2>2. seqs[i + 1] \in Seq(X)
    BY <2>1
  <2>4. CASE i = 0
    <3>1. n # 0
      BY <2>1
    <3>2. f[1] = seqs[1]
      BY <3>1, FlattensFirst
    <3> QED BY <2>2, <2>4, <3>2
  <2>5. CASE i # 0
    <3>1. f[i] \in Seq(X)
      BY <1>2, <2>1, <2>5
    <3>2. i < n
      BY <2>1
    <3>3. f[i + 1] = f[i] \o seqs[i + 1]
      <4>1. Grows(f, seqs, n)
        BY FlattensStep
      <4> QED BY <2>5, <3>2, <4>1, Zenon DEF Grows
    <3> QED BY <2>2, <3>1, <3>3
  <2> QED BY <2>4, <2>5
<1>3. \A i \in Nat : i \in S
  <2> HIDE DEF S
  <2> QED BY <1>1, <1>2, SetInduction
<1> QED BY <1>3

\* It exists.
LEMMA FlattensExists ==
    ASSUME NEW seqs, NEW n \in Nat
    PROVE  \E f : Flattens(f, seqs, n)
<1> DEFINE S == {m \in Nat : \E f : Flattens(f, seqs, m)}
<1>1. 0 \in S
  <2> DEFINE f == [i \in 1..0 |-> 0]
  <2>1. Flattens(f, seqs, 0)
    BY DEF Flattens
  <2> QED BY <2>1
<1>2. ASSUME NEW m \in Nat, m \in S PROVE m + 1 \in S
  <2>1. PICK g : Flattens(g, seqs, m)
    BY <1>2
  <2> DEFINE last == IF m = 0 THEN seqs[1] ELSE g[m] \o seqs[m + 1]
             f == [i \in 1..(m + 1) |-> IF i = m + 1 THEN last ELSE g[i]]
  <2>2. \A i \in 1..m : g[i] = IF i = 1 THEN seqs[i] ELSE g[i - 1] \o seqs[i]
    BY <2>1 DEF Flattens
  <2>3. ASSUME NEW i \in 1..(m + 1)
        PROVE  f[i] = IF i = 1 THEN seqs[i] ELSE f[i - 1] \o seqs[i]
    BY <2>2
  <2>4. Flattens(f, seqs, m + 1)
    <3> DEFINE h == [i \in 1..(m + 1) |-> IF i = 1 THEN seqs[i] ELSE f[i - 1] \o seqs[i]]
    <3>1. f = h
      BY <2>3
    <3> QED BY <3>1 DEF Flattens
  <2> QED BY <2>4
<1>3. \A m \in Nat : m \in S
  <2> HIDE DEF S
  <2> QED BY <1>1, <1>2, SetInduction
<1> QED BY <1>3

\* FlattenSeq is the last value of any such function.
LEMMA FlattenSeqIs ==
    ASSUME NEW seqs, Len(seqs) \in Nat, Len(seqs) # 0, NEW f, Flattens(f, seqs, Len(seqs))
    PROVE  FlattenSeq(seqs) = f[Len(seqs)]
<1> DEFINE n == Len(seqs)
           c == CHOOSE g : Flattens(g, seqs, n)
<1>0. n \in Nat /\ n # 0 /\ Flattens(f, seqs, n)
  OBVIOUS
<1>1. Flattens(c, seqs, n)
  BY FlattensExists
<1>2. FlattenSeq(seqs) = c[n]
  BY DEF FlattenSeq, Flattens
<1> HIDE DEF c
<1> DEFINE S == {i \in Nat : i \in 1..n => f[i] = c[i]}
<1>3. 0 \in S
  OBVIOUS
<1>4. ASSUME NEW i \in Nat, i \in S PROVE i + 1 \in S
  <2>1. SUFFICES ASSUME i + 1 \in 1..n PROVE f[i + 1] = c[i + 1]
    OBVIOUS
  <2> HIDE DEF n
  <2>2. CASE i = 0
    <3>1. f[1] = seqs[1] /\ c[1] = seqs[1]
      BY <1>0, <1>1, FlattensFirst
    <3> QED BY <2>2, <3>1
  <2>3. CASE i # 0
    <3>1. f[i] = c[i]
      BY <1>0, <1>4, <2>1, <2>3
    <3>2. i < n
      BY <1>0, <2>1
    <3>3. f[i + 1] = f[i] \o seqs[i + 1]
      <4>1. Grows(f, seqs, n)
        BY <1>0, FlattensStep
      <4> QED BY <2>3, <3>2, <4>1, Zenon DEF Grows
    <3>4. c[i + 1] = c[i] \o seqs[i + 1]
      <4>1. Grows(c, seqs, n)
        BY <1>0, <1>1, FlattensStep
      <4> QED BY <2>3, <3>2, <4>1, Zenon DEF Grows
    <3> QED BY <3>1, <3>3, <3>4
  <2> QED BY <2>2, <2>3
<1>5. \A i \in Nat : i \in S
  <2> HIDE DEF S
  <2> QED BY <1>3, <1>4, SetInduction
<1> QED BY <1>2, <1>5

\* Nothing is flattened to nothing.
LEMMA FlattenEmpty == FlattenSeq(<<>>) = <<>>
  BY DEF FlattenSeq

\* The flattened sequence is one over the elements of the parts.
LEMMA FlattenType ==
    ASSUME NEW X, NEW seqs \in Seq(Seq(X))
    PROVE  FlattenSeq(seqs) \in Seq(X)
<1>1. CASE Len(seqs) = 0
  <2>1. seqs = <<>>
    BY <1>1
  <2>2. FlattenSeq(seqs) = <<>>
    BY <2>1, FlattenEmpty
  <2> QED BY <2>2
<1>2. CASE Len(seqs) # 0
  <2>0. Len(seqs) \in Nat /\ Len(seqs) <= Len(seqs) /\ Len(seqs) \in 1..Len(seqs)
    BY <1>2
  <2>1. PICK f : Flattens(f, seqs, Len(seqs))
    BY <2>0, FlattensExists
  <2>2. FlattenSeq(seqs) = f[Len(seqs)]
    BY <1>2, <2>0, <2>1, FlattenSeqIs
  <2>3. f[Len(seqs)] \in Seq(X)
    BY <2>0, <2>1, FlattensType
  <2> QED BY <2>2, <2>3
<1> QED BY <1>1, <1>2

\* A part at the end is flattened to its end.
LEMMA FlattenAppend ==
    ASSUME NEW X, NEW seqs \in Seq(Seq(X)), NEW s \in Seq(X)
    PROVE  FlattenSeq(Append(seqs, s)) = FlattenSeq(seqs) \o s
<1> DEFINE n == Len(seqs)
           more == Append(seqs, s)
<1>1. /\ more \in Seq(Seq(X)) /\ Len(more) = n + 1 /\ more[n + 1] = s
      /\ n \in Nat /\ n + 1 \in Nat /\ n + 1 # 0
      /\ \A i \in 1..n : more[i] = seqs[i]
  OBVIOUS
<1> HIDE DEF more, n
<1>2. PICK f : Flattens(f, more, n + 1)
  BY <1>1, FlattensExists
<1>3. FlattenSeq(more) = f[n + 1]
  BY <1>1, <1>2, FlattenSeqIs
<1>4. CASE n = 0
  <2>1. seqs = <<>>
    BY <1>4 DEF n
  <2>2. FlattenSeq(seqs) = <<>>
    BY <2>1, FlattenEmpty
  <2>3. f[n + 1] = s
    BY <1>1, <1>2, <1>4, FlattensFirst
  <2> QED BY <1>3, <2>2, <2>3 DEF more
<1>5. CASE n # 0
  <2> DEFINE g == [i \in 1..n |-> f[i]]
  <2>1. \A i \in 1..(n + 1) : f[i] = IF i = 1 THEN more[i] ELSE f[i - 1] \o more[i]
    BY <1>2 DEF Flattens
  <2>2. Flattens(g, seqs, n)
    <3> DEFINE h == [i \in 1..n |-> IF i = 1 THEN seqs[i] ELSE g[i - 1] \o seqs[i]]
    <3>1. ASSUME NEW i \in 1..n PROVE g[i] = h[i]
      <4>1. i \in 1..(n + 1) /\ more[i] = seqs[i] /\ g[i] = f[i]
        BY <1>1
      <4>2. CASE i = 1
        BY <2>1, <4>1, <4>2
      <4>3. CASE i # 1
        <5>1. i - 1 \in 1..n
          BY <1>1, <4>3
        <5>2. g[i - 1] = f[i - 1] /\ h[i] = g[i - 1] \o seqs[i]
          BY <4>3, <5>1
        <5> HIDE DEF g, h
        <5> QED BY <2>1, <4>1, <4>3, <5>2
      <4> QED BY <4>2, <4>3
    <3>2. g = h
      BY <3>1
    <3> QED BY <3>2 DEF Flattens
  <2>3. FlattenSeq(seqs) = g[n] /\ g[n] = f[n]
    BY <1>1, <1>5, <2>2, FlattenSeqIs DEF n
  <2>4. f[n + 1] = f[n] \o s
    <3>1. n < n + 1
      BY <1>1
    <3>2. f[n + 1] = f[n] \o more[n + 1]
      <4>1. Grows(f, more, n + 1)
        BY <1>1, <1>2, FlattensStep
      <4> QED BY <1>1, <1>5, <3>1, <4>1, Zenon DEF Grows
    <3> QED BY <1>1, <3>2
  <2> HIDE DEF g
  <2> QED BY <1>3, <2>3, <2>4 DEF more
<1> QED BY <1>4, <1>5

\* A part at the front is flattened to its front.
LEMMA FlattenHead ==
    ASSUME NEW X, NEW seqs \in Seq(Seq(X)), seqs # <<>>
    PROVE  FlattenSeq(seqs) = Head(seqs) \o FlattenSeq(Tail(seqs))
<1> DEFINE n == Len(seqs)
           rest == Tail(seqs)
<1>1. /\ n \in Nat /\ n # 0 /\ rest \in Seq(Seq(X)) /\ Len(rest) = n - 1
      /\ n - 1 \in Nat /\ (n - 1) + 1 = n /\ n - 1 <= Len(rest)
      /\ Head(seqs) = seqs[1] /\ \A i \in 1..(n - 1) : rest[i] = seqs[i + 1]
  OBVIOUS
<1>a. \A i \in 1..n : seqs[i] \in Seq(X)
  OBVIOUS
<1> HIDE DEF rest, n
<1>2. PICK f : Flattens(f, seqs, n)
  BY <1>1, FlattensExists
<1>3. FlattenSeq(seqs) = f[n]
  BY <1>1, <1>2, FlattenSeqIs DEF n
<1>4. f[1] = seqs[1] /\ seqs[1] \in Seq(X)
  <2>1. f[1] = seqs[1]
    BY <1>1, <1>2, FlattensFirst, Zenon
  <2>2. 1 \in 1..n
    BY <1>1
  <2> QED BY <2>1, <2>2, <1>a
<1>5. CASE n = 1
  <2>1. rest = <<>>
    BY <1>1, <1>5
  <2>2. FlattenSeq(rest) = <<>>
    BY <2>1, FlattenEmpty
  <2>3. seqs[1] \o <<>> = seqs[1]
    BY <1>4
  <2> QED BY <1>1, <1>3, <1>4, <1>5, <2>2, <2>3 DEF rest
<1>6. CASE n # 1
  <2>1. n - 1 # 0
    BY <1>1, <1>6
  <2>2. PICK g : Flattens(g, rest, n - 1)
    BY <1>1, FlattensExists
  <2>3. FlattenSeq(rest) = g[n - 1]
    BY <1>1, <2>1, <2>2, FlattenSeqIs
  <2>4. g[1] = rest[1]
    <3> DEFINE k == n - 1
    <3>1. k \in Nat /\ k # 0 /\ Flattens(g, rest, k)
      BY <1>1, <2>1, <2>2
    <3> HIDE DEF k
    <3> QED BY <3>1, FlattensFirst
  <2>5. \A i \in 1..(n - 1) : g[i] \in Seq(X)
    BY <1>1, <2>2, FlattensType, Zenon
  <2> DEFINE S == {i \in Nat : i \in 1..(n - 1) => f[i + 1] = seqs[1] \o g[i]}
  <2>6. 0 \in S
    OBVIOUS
  <2>7. ASSUME NEW i \in Nat, i \in S PROVE i + 1 \in S
    <3>0. i + 1 \in Nat
      OBVIOUS
    <3>1. SUFFICES ASSUME i + 1 \in 1..(n - 1)
                   PROVE  f[(i + 1) + 1] = seqs[1] \o g[i + 1]
      BY <3>0, Zenon
    <3> DEFINE j == i + 1
    <3>2. j \in Nat /\ j # 0 /\ j < n /\ j + 1 \in 1..n /\ j \in 1..(n - 1)
      BY <1>1, <3>1
    <3>3. f[j + 1] = f[j] \o seqs[j + 1]
      <4>1. n \in Nat
        BY <1>1
      <4>2. Grows(f, seqs, n)
        BY <1>2, <4>1, FlattensStep
      <4> HIDE DEF j
      <4> QED BY <3>2, <4>2, Zenon DEF Grows
    <3>4. rest[j] = seqs[j + 1] /\ seqs[j + 1] \in Seq(X)
      BY <1>1, <1>a, <3>2
    <3>5. CASE i = 0
      <4>1. j = 1
        BY <3>5
      <4> HIDE DEF j
      <4>2. f[j + 1] = seqs[1] \o g[j]
        BY <1>4, <2>4, <3>3, <3>4, <4>1, Zenon
      <4> QED BY <4>2 DEF j
    <3>6. CASE i # 0
      <4>1. f[j] = seqs[1] \o g[i]
        <5>1. i \in 1..(n - 1)
          BY <1>1, <3>1, <3>6
        <5> QED BY <2>7, <5>1, Zenon
      <4>2. g[j] = g[i] \o rest[j]
        <5>1. i < n - 1
          BY <1>1, <3>1
        <5>2. Grows(g, rest, n - 1)
          BY <1>1, <2>2, FlattensStep
        <5> QED BY <3>6, <5>1, <5>2, Zenon DEF Grows
      <4>3. g[i] \in Seq(X)
        BY <1>1, <2>5, <3>1, <3>6
      <4> HIDE DEF j
      <4>4. (seqs[1] \o g[i]) \o seqs[j + 1] = seqs[1] \o (g[i] \o seqs[j + 1])
        <5> DEFINE a == seqs[1]
                   b == g[i]
                   d == seqs[j + 1]
        <5>1. a \in Seq(X) /\ b \in Seq(X) /\ d \in Seq(X)
          BY <1>4, <3>4, <4>3
        <5> HIDE DEF a, b, d
        <5>2. Regroups(X)
          BY Regroup, Zenon
        <5>3. (a \o b) \o d = a \o (b \o d)
          BY <5>1, <5>2, Zenon DEF Regroups
        <5> QED BY <5>3 DEF a, b, d
      <4>5. f[j + 1] = seqs[1] \o g[j]
        BY <3>3, <3>4, <4>1, <4>2, <4>4, Zenon
      <4> QED BY <4>5 DEF j
    <3> QED BY <3>5, <3>6
  <2>8. \A i \in Nat : i \in S
    <3> HIDE DEF S
    <3> QED BY <2>6, <2>7, SetInduction
  <2>9. n - 1 \in 1..(n - 1)
    BY <1>1, <2>1
  <2>10. f[(n - 1) + 1] = seqs[1] \o g[n - 1]
    BY <1>1, <2>8, <2>9, Zenon
  <2> QED BY <1>1, <1>3, <2>3, <2>10 DEF rest
<1> QED BY <1>5, <1>6
-------------------------------------------------------------------------------
(* Dividing a sequence *)

\* A piece of a sequence.
LEMMA Piece ==
    ASSUME NEW X, NEW s \in Seq(X), NEW p \in Nat, NEW n \in Nat, p + n <= Len(s)
    PROVE  /\ SubSeq(s, p + 1, p + n) \in Seq(X)
           /\ Len(SubSeq(s, p + 1, p + n)) = n
           /\ \A i \in 1..n : SubSeq(s, p + 1, p + n)[i] = s[p + i]
<1>1. \A i \in (p + 1)..(p + n) : s[i] \in X
  OBVIOUS
<1> DEFINE t == SubSeq(s, p + 1, p + n)
<1>2. /\ t \in Seq(X) /\ Len(t) = IF p + 1 <= p + n THEN (p + n) - (p + 1) + 1 ELSE 0
      /\ \A i \in 1..((p + n) - (p + 1) + 1) : t[i] = s[(p + 1) + i - 1]
  BY <1>1, SubSeqProperties
<1> HIDE DEF t
<1>3. /\ t \in Seq(X) /\ Len(t) = n /\ \A i \in 1..n : t[i] = s[p + i]
  BY <1>2
<1> QED BY <1>3 DEF t

\* What is left of a sequence behind its first p elements.
LEMMA Rest ==
    ASSUME NEW X, NEW s \in Seq(X), NEW p \in Nat, p <= Len(s)
    PROVE  /\ SubSeq(s, p + 1, Len(s)) \in Seq(X)
           /\ Len(SubSeq(s, p + 1, Len(s))) = Len(s) - p
           /\ \A i \in 1..(Len(s) - p) : SubSeq(s, p + 1, Len(s))[i] = s[p + i]
<1>1. Len(s) - p \in Nat /\ p + (Len(s) - p) = Len(s)
  OBVIOUS
<1> DEFINE n == Len(s) - p
<1>2. n \in Nat /\ p + n = Len(s)
  BY <1>1
<1> HIDE DEF n
<1>3. /\ SubSeq(s, p + 1, p + n) \in Seq(X)
      /\ Len(SubSeq(s, p + 1, p + n)) = n
      /\ \A i \in 1..n : SubSeq(s, p + 1, p + n)[i] = s[p + i]
  BY <1>2, Piece
<1> QED BY <1>2, <1>3 DEF n

\* A sequence is its first n elements and the others.
LEMMA TakeDrop ==
    ASSUME NEW X, NEW s \in Seq(X), NEW n \in Nat, n <= Len(s)
    PROVE  SubSeq(s, 1, n) \o SubSeq(s, n + 1, Len(s)) = s
<1>1. 1 \in 1..(Len(s) + 1) /\ n \in (1 - 1)..Len(s) /\ Len(s) \in n..Len(s)
  OBVIOUS
<1>2. SubSeq(s, 1, n) \o SubSeq(s, n + 1, Len(s)) = SubSeq(s, 1, Len(s))
  BY <1>1, ConcatAdjacentSubSeq
<1> QED BY <1>2, SubSeqFull

\* One element more of a sequence.
LEMMA TakeNext ==
    ASSUME NEW X, NEW s \in Seq(X), NEW n \in Nat, n < Len(s)
    PROVE  /\ SubSeq(s, 1, n) \in Seq(X) /\ s[n + 1] \in X
           /\ SubSeq(s, 1, n + 1) = Append(SubSeq(s, 1, n), s[n + 1])
<1> DEFINE a == SubSeq(s, 1, n)
           b == SubSeq(s, 1, n + 1)
           c == Append(a, s[n + 1])
<1>1. n + 1 \in Nat /\ 0 + (n + 1) <= Len(s) /\ 0 + n <= Len(s) /\ n + 1 \in 1..Len(s)
  OBVIOUS
<1>2. /\ SubSeq(s, 0 + 1, 0 + n) \in Seq(X) /\ Len(SubSeq(s, 0 + 1, 0 + n)) = n
      /\ \A i \in 1..n : SubSeq(s, 0 + 1, 0 + n)[i] = s[0 + i]
  BY <1>1, Piece
<1>3. /\ SubSeq(s, 0 + 1, 0 + (n + 1)) \in Seq(X)
      /\ Len(SubSeq(s, 0 + 1, 0 + (n + 1))) = n + 1
      /\ \A i \in 1..(n + 1) : SubSeq(s, 0 + 1, 0 + (n + 1))[i] = s[0 + i]
  BY <1>1, Piece
<1>4. /\ a \in Seq(X) /\ Len(a) = n /\ \A i \in 1..n : a[i] = s[i]
  BY <1>2
<1>5. /\ b \in Seq(X) /\ Len(b) = n + 1 /\ \A i \in 1..(n + 1) : b[i] = s[i]
  BY <1>3
<1>6. s[n + 1] \in X
  BY <1>1
<1> HIDE DEF a, b
<1>7. /\ c \in Seq(X) /\ Len(c) = Len(a) + 1 /\ \A i \in 1..Len(a) : c[i] = a[i]
      /\ c[Len(a) + 1] = s[n + 1]
  BY <1>4, <1>6, AppendProperties
<1> HIDE DEF c
<1>8. ASSUME NEW i \in 1..Len(b) PROVE b[i] = c[i]
  BY <1>4, <1>5, <1>7
<1>9. b = c
  BY <1>4, <1>5, <1>7, <1>8, SeqEqual
<1> QED BY <1>4, <1>6, <1>9 DEF a, b, c

\* src shows w from its p-th element on, as far as it goes.
Shows(src, p, w) == \A j \in 1..Len(w) : p + j <= Len(src) => src[p + j] = w[j]

\* What is shown to its end is a piece of the sequence.
LEMMA ShownPiece ==
    ASSUME NEW X, NEW src \in Seq(X), NEW w \in Seq(X), NEW p \in Nat,
           Shows(src, p, w), p + Len(w) <= Len(src)
    PROVE  SubSeq(src, p + 1, p + Len(w)) = w
<1> DEFINE t == SubSeq(src, p + 1, p + Len(w))
<1>0. Len(w) \in Nat
  OBVIOUS
<1>1. t \in Seq(X) /\ Len(t) = Len(w) /\ \A i \in 1..Len(w) : t[i] = src[p + i]
  BY <1>0, Piece
<1> HIDE DEF t
<1>2. \A i \in 1..Len(t) : t[i] = w[i]
  BY <1>0, <1>1 DEF Shows
<1>3. t = w
  BY <1>1, <1>2, SeqEqual
<1> QED BY <1>3 DEF t

\* What shows two sequences in a row shows the first, and the second behind it.
LEMMA ShowsConcat ==
    ASSUME NEW X, NEW src \in Seq(X), NEW a \in Seq(X), NEW b \in Seq(X), NEW p \in Nat,
           Shows(src, p, a \o b)
    PROVE  Shows(src, p, a) /\ Shows(src, p + Len(a), b)
<1> DEFINE c == a \o b
<1>1. /\ Len(c) = Len(a) + Len(b) /\ Len(a) \in Nat /\ Len(b) \in Nat
      /\ \A i \in 1..(Len(a) + Len(b)) : c[i] = IF i <= Len(a) THEN a[i] ELSE b[i - Len(a)]
  BY ConcatProperties
<1>2. \A j \in 1..Len(c) : p + j <= Len(src) => src[p + j] = c[j]
  BY DEF Shows
<1> HIDE DEF c
<1>3. ASSUME NEW j \in 1..Len(a), p + j <= Len(src) PROVE src[p + j] = a[j]
  <2>1. j \in 1..Len(c) /\ j \in 1..(Len(a) + Len(b)) /\ j <= Len(a)
    BY <1>1
  <2>2. c[j] = a[j]
    BY <1>1, <2>1
  <2> QED BY <1>2, <1>3, <2>1, <2>2
<1>4. ASSUME NEW j \in 1..Len(b), (p + Len(a)) + j <= Len(src)
      PROVE  src[(p + Len(a)) + j] = b[j]
  <2>1. Len(a) + j \in 1..Len(c) /\ p + (Len(a) + j) = (p + Len(a)) + j
    BY <1>1
  <2>2. c[Len(a) + j] = b[j]
    BY <1>1, <2>1
  <2> QED BY <1>2, <1>4, <2>1, <2>2
<1> QED BY <1>3, <1>4 DEF Shows

\* Two ways to divide one sequence: the first part of the one shows that of the
\* other, and if it is the longer one, what it has more comes before the rest.
LEMMA Divide ==
    ASSUME NEW X, NEW b \in Seq(X), NEW w \in Seq(X), NEW e \in Seq(X), NEW r \in Seq(X),
           b \o w = e \o r
    PROVE  /\ Shows(b, 0, e)
           /\ Len(e) <= Len(b) =>
                  /\ SubSeq(b, Len(e) + 1, Len(b)) \in Seq(X)
                  /\ SubSeq(b, Len(e) + 1, Len(b)) \o w = r
           /\ w = <<>> => Len(e) <= Len(b)
<1>1. /\ Len(b \o w) = Len(b) + Len(w)
      /\ \A i \in 1..(Len(b) + Len(w)) : (b \o w)[i] = IF i <= Len(b) THEN b[i] ELSE w[i - Len(b)]
  BY ConcatProperties
<1>2. /\ Len(e \o r) = Len(e) + Len(r)
      /\ \A i \in 1..(Len(e) + Len(r)) : (e \o r)[i] = IF i <= Len(e) THEN e[i] ELSE r[i - Len(e)]
  BY ConcatProperties
<1> DEFINE c == b \o w
<1>3. /\ Len(c) = Len(b) + Len(w) /\ Len(c) = Len(e) + Len(r)
      /\ Len(b) \in Nat /\ Len(w) \in Nat /\ Len(e) \in Nat /\ Len(r) \in Nat
      /\ \A i \in 1..Len(c) : c[i] = IF i <= Len(b) THEN b[i] ELSE w[i - Len(b)]
      /\ \A i \in 1..Len(c) : c[i] = IF i <= Len(e) THEN e[i] ELSE r[i - Len(e)]
  BY <1>1, <1>2
<1> HIDE DEF c
<1>4. Shows(b, 0, e)
  <2>1. ASSUME NEW j \in 1..Len(e), 0 + j <= Len(b) PROVE b[0 + j] = e[j]
    <3>1. j \in 1..Len(c) /\ 0 + j = j
      BY <1>3
    <3> QED BY <1>3, <2>1, <3>1
  <2> QED BY <2>1 DEF Shows
<1>5. ASSUME Len(e) <= Len(b)
      PROVE  /\ SubSeq(b, Len(e) + 1, Len(b)) \in Seq(X)
             /\ SubSeq(b, Len(e) + 1, Len(b)) \o w = r
  <2> DEFINE t == SubSeq(b, Len(e) + 1, Len(b))
  <2>1. /\ t \in Seq(X) /\ Len(t) = Len(b) - Len(e)
        /\ \A i \in 1..(Len(b) - Len(e)) : t[i] = b[Len(e) + i]
    BY <1>3, <1>5, Rest
  <2> HIDE DEF t
  <2>2. /\ t \o w \in Seq(X) /\ Len(t \o w) = Len(t) + Len(w)
        /\ \A i \in 1..(Len(t) + Len(w)) : (t \o w)[i] = IF i <= Len(t) THEN t[i] ELSE w[i - Len(t)]
    BY <2>1, ConcatProperties
  <2> DEFINE u == t \o w
  <2>3. /\ u \in Seq(X) /\ Len(u) = Len(r)
        /\ \A i \in 1..Len(r) : u[i] = IF i <= Len(t) THEN t[i] ELSE w[i - Len(t)]
    <3>1. Len(t) + Len(w) = Len(r)
      BY <1>3, <2>1
    <3>2. /\ u \in Seq(X) /\ Len(u) = Len(t) + Len(w)
          /\ \A i \in 1..(Len(t) + Len(w)) : u[i] = IF i <= Len(t) THEN t[i] ELSE w[i - Len(t)]
      BY <2>2
    <3> HIDE DEF u
    <3> QED BY <3>1, <3>2
  <2> HIDE DEF u
  <2>4. ASSUME NEW i \in 1..Len(r) PROVE u[i] = r[i]
    <3> DEFINE j == Len(e) + i
    <3>1. j \in 1..Len(c) /\ j > Len(e) /\ j - Len(e) = i
      BY <1>3
    <3>2. c[j] = r[i]
      BY <1>3, <3>1
    <3>3. CASE i <= Len(t)
      <4>1. j <= Len(b) /\ i \in 1..(Len(b) - Len(e))
        BY <1>3, <2>1, <3>3
      <4>2. c[j] = b[j] /\ u[i] = t[i] /\ t[i] = b[j]
        BY <1>3, <2>1, <2>3, <3>1, <3>3, <4>1
      <4> QED BY <3>2, <4>2
    <3>4. CASE i > Len(t)
      <4>1. j > Len(b) /\ j - Len(b) = i - Len(t) /\ Len(t) \in Int
        BY <1>3, <2>1, <3>4
      <4>2. c[j] = w[j - Len(b)] /\ u[i] = w[i - Len(t)]
        <5>1. c[j] = w[j - Len(b)]
          BY <1>3, <3>1, <4>1
        <5>2. u[i] = w[i - Len(t)]
          BY <2>3, <3>4, <4>1
        <5> QED BY <5>1, <5>2
      <4> QED BY <3>2, <4>1, <4>2
    <3>5. Len(t) \in Int
      BY <1>3, <2>1
    <3> QED BY <3>3, <3>4, <3>5
  <2>5. u = r
    BY <2>3, <2>4, SeqEqual
  <2> QED BY <2>1, <2>5 DEF t, u
<1>6. ASSUME w = <<>> PROVE Len(e) <= Len(b)
  <2>1. Len(w) = 0
    BY <1>6
  <2> QED BY <1>3, <2>1
<1> QED BY <1>4, <1>5, <1>6

===============================================================================
