----------------------------- MODULE SessionsProofs -----------------------------
(***************************************************************************)
(* Proofs about Sessions: what one end encodes the other end decodes, and  *)
(* a stream of encoded messages is taken apart into the messages again,    *)
(* however its bytes arrive; from there what the tool shows its user.      *)
(***************************************************************************)
EXTENDS Sessions, SeqLemmas, TLAPS

-------------------------------------------------------------------------------
(* A stream of encoded messages *)

\* What a stream ends in if its writer ended within a message.
Tails(code, c) ==
    IF c THEN UNION {{SubSeq(code[m], 1, k) : k \in 1..(Len(code[m]) - 1)} : m \in DOMAIN code}
    ELSE {<<>>}

\* The codes of the messages written and not yet decoded.
Due(code, wr, de) == [i \in 1..(Len(wr) - Len(de)) |-> code[wr[Len(de) + i]]]

\* The bytes that have arrived, b, and those under way, w, are the codes of the
\* messages written, wr, behind the ones decoded, de, and the begin of a last one
\* if the stream was cut.
Line(code, b, w, wr, de, c) ==
    /\ wr \in Seq(DOMAIN code) /\ de \in Seq(DOMAIN code)
    /\ Len(de) <= Len(wr) /\ \A i \in 1..Len(de) : de[i] = wr[i]
    /\ \E t \in Tails(code, c) : b \o w = FlattenSeq(Due(code, wr, de)) \o t

\* code gives each message of M a sequence over Y.
Codes(code, M, Y) == code \in [M -> Seq(Y)]

LEMMA CodesType ==
    ASSUME NEW M, NEW Y, NEW code, Codes(code, M, Y)
    PROVE  /\ DOMAIN code = M
           /\ \A m \in M : code[m] \in Seq(Y) /\ Len(code[m]) \in Nat
BY DEF Codes

LEMMA DueType ==
    ASSUME NEW M, NEW Y, NEW code, Codes(code, M, Y), NEW wr \in Seq(M), NEW de \in Seq(M),
           Len(de) <= Len(wr)
    PROVE  /\ Due(code, wr, de) \in Seq(Seq(Y))
           /\ Len(Due(code, wr, de)) = Len(wr) - Len(de)
           /\ \A i \in 1..(Len(wr) - Len(de)) : Due(code, wr, de)[i] = code[wr[Len(de) + i]]
<1> DEFINE n == Len(wr) - Len(de)
           s == [i \in 1..n |-> code[wr[Len(de) + i]]]
<1>1. n \in Nat /\ \A i \in 1..n : Len(de) + i \in 1..Len(wr)
  OBVIOUS
<1>2. \A i \in 1..n : code[wr[Len(de) + i]] \in Seq(Y)
  BY <1>1, CodesType
<1> HIDE DEF n
<1>3. s \in Seq(Seq(Y)) /\ Len(s) = n /\ \A i \in 1..n : s[i] = code[wr[Len(de) + i]]
  BY <1>1, <1>2
<1> QED BY <1>3 DEF Due, n

LEMMA TailType ==
    ASSUME NEW M, NEW Y, NEW code, Codes(code, M, Y), NEW c, NEW t \in Tails(code, c)
    PROVE  /\ t \in Seq(Y)
           /\ ~c => t = <<>>
           /\ c => \E m \in M : Shows(t, 0, code[m]) /\ Len(t) < Len(code[m]) /\ t # <<>>
<1>1. CASE c
  <2>0. PICK m \in M : t \in {SubSeq(code[m], 1, k) : k \in 1..(Len(code[m]) - 1)}
    BY <1>1, CodesType DEF Tails
  <2>1. PICK k \in 1..(Len(code[m]) - 1) : t = SubSeq(code[m], 1, k)
    BY <2>0
  <2>2. /\ code[m] \in Seq(Y) /\ Len(code[m]) \in Nat /\ k \in Nat /\ 0 + k <= Len(code[m])
        /\ k # 0 /\ k < Len(code[m]) /\ 0 + 1 = 1 /\ 0 + k = k
    BY <2>1, CodesType
  <2>3. /\ SubSeq(code[m], 0 + 1, 0 + k) \in Seq(Y)
        /\ Len(SubSeq(code[m], 0 + 1, 0 + k)) = k
        /\ \A i \in 1..k : SubSeq(code[m], 0 + 1, 0 + k)[i] = code[m][0 + i]
    BY <2>2, Piece
  <2>4. t \in Seq(Y) /\ Len(t) = k /\ \A i \in 1..k : t[i] = code[m][0 + i]
    BY <2>1, <2>2, <2>3
  <2>5. Shows(t, 0, code[m])
    BY <2>2, <2>4 DEF Shows
  <2>6. t # <<>>
    BY <2>2, <2>4
  <2> QED BY <1>1, <2>2, <2>4, <2>5, <2>6
<1>2. CASE ~c
  BY <1>2 DEF Tails
<1> QED BY <1>1, <1>2

\* A message is written.
LEMMA LineWrote ==
    ASSUME NEW M, NEW Y, NEW code, Codes(code, M, Y), NEW b \in Seq(Y), NEW w \in Seq(Y),
           NEW wr, NEW de, NEW m \in M, Line(code, b, w, wr, de, FALSE)
    PROVE  Line(code, b, w \o code[m], Append(wr, m), de, FALSE)
<1>1. /\ wr \in Seq(M) /\ de \in Seq(M) /\ Len(de) <= Len(wr)
      /\ \A i \in 1..Len(de) : de[i] = wr[i]
      /\ Len(de) \in Nat /\ Len(wr) \in Nat
  <2>1. DOMAIN code = M
    BY CodesType
  <2>2. /\ wr \in Seq(M) /\ de \in Seq(M) /\ Len(de) <= Len(wr)
        /\ \A i \in 1..Len(de) : de[i] = wr[i]
    BY <2>1, Zenon DEF Line
  <2> QED BY <2>2
<1>2. b \o w = FlattenSeq(Due(code, wr, de)) \o <<>>
  BY DEF Line, Tails
<1> DEFINE wr2 == Append(wr, m)
           dd == Due(code, wr, de)
           dd2 == Due(code, wr2, de)
           e == code[m]
<1>3. /\ wr2 \in Seq(M) /\ Len(wr2) = Len(wr) + 1 /\ wr2[Len(wr) + 1] = m
      /\ \A i \in 1..Len(wr) : wr2[i] = wr[i]
  BY <1>1, AppendProperties
<1>e. e \in Seq(Y)
  BY CodesType
<1> HIDE DEF wr2
<1>4. /\ dd \in Seq(Seq(Y)) /\ Len(dd) = Len(wr) - Len(de)
      /\ \A i \in 1..(Len(wr) - Len(de)) : dd[i] = code[wr[Len(de) + i]]
  BY <1>1, DueType
<1>5. /\ dd2 \in Seq(Seq(Y)) /\ Len(dd2) = Len(wr2) - Len(de)
      /\ \A i \in 1..(Len(wr2) - Len(de)) : dd2[i] = code[wr2[Len(de) + i]]
  <2>1. Len(de) <= Len(wr2)
    BY <1>1, <1>3
  <2>2. wr2 \in Seq(M) /\ de \in Seq(M)
    BY <1>1, <1>3
  <2> QED BY <2>1, <2>2, DueType
<1> HIDE DEF dd, dd2
<1>6. dd2 = Append(dd, e)
  <2> DEFINE a == Append(dd, e)
  <2>1. /\ a \in Seq(Seq(Y)) /\ Len(a) = Len(dd) + 1 /\ a[Len(dd) + 1] = e
        /\ \A i \in 1..Len(dd) : a[i] = dd[i]
    BY <1>4, <1>e, AppendProperties
  <2> HIDE DEF a
  <2>2. Len(a) = Len(dd2)
    BY <1>1, <1>3, <1>4, <1>5, <2>1
  <2>3. ASSUME NEW i \in 1..Len(a) PROVE a[i] = dd2[i]
    <3>0. dd2[i] = code[wr2[Len(de) + i]]
      BY <1>1, <1>3, <1>5, <2>2
    <3>1. CASE i = Len(dd) + 1
      <4>1. Len(de) + i = Len(wr) + 1
        BY <1>1, <1>4, <3>1
      <4> QED BY <1>3, <2>1, <3>0, <3>1, <4>1
    <3>2. CASE i # Len(dd) + 1
      <4>0. Len(dd) \in Nat /\ Len(dd) = Len(wr) - Len(de) /\ Len(a) = Len(dd) + 1
        BY <1>1, <1>4, <2>1
      <4>1. i \in 1..Len(dd) /\ i \in 1..(Len(wr) - Len(de)) /\ Len(de) + i \in 1..Len(wr)
        BY <1>1, <3>2, <4>0
      <4> QED BY <1>3, <1>4, <2>1, <3>0, <4>1
    <3> QED BY <3>1, <3>2
  <2>4. a = dd2
    BY <1>5, <2>1, <2>2, <2>3, SeqEqual
  <2> QED BY <2>4 DEF a
<1>7. FlattenSeq(dd2) = FlattenSeq(dd) \o e
  <2> HIDE DEF e
  <2> QED BY <1>4, <1>6, <1>e, FlattenAppend
<1> DEFINE f == FlattenSeq(dd)
<1>8. f \in Seq(Y)
  BY <1>4, FlattenType
<1>9. b \o w = f
  BY <1>2, <1>8, ConcatEmptySeq DEF dd
<1>10. b \o (w \o e) = f \o e /\ f \o e \in Seq(Y)
  <2>1. (b \o w) \o e = b \o (w \o e)
    <3>1. Regroups(Y)
      BY Regroup, Zenon
    <3> QED BY <1>e, <3>1, Zenon DEF Regroups
  <2> HIDE DEF f, e
  <2> QED BY <1>8, <1>9, <1>e, <2>1, ConcatProperties
<1>11. b \o (w \o e) = FlattenSeq(dd2) \o <<>>
  <2> HIDE DEF e
  <2>1. f \o e = (f \o e) \o <<>>
    BY <1>10, ConcatEmptySeq
  <2> QED BY <1>7, <1>10, <2>1
<1>12. \A i \in 1..Len(de) : de[i] = wr2[i]
  BY <1>1, <1>3
<1>13. \E t \in Tails(code, FALSE) : b \o (w \o e) = FlattenSeq(dd2) \o t
  BY <1>11 DEF Tails
<1>14. Line(code, b, w \o e, wr2, de, FALSE)
  <2>1. Len(de) <= Len(wr2) /\ DOMAIN code = M
    BY <1>1, <1>3, CodesType
  <2> HIDE DEF e
  <2> QED BY <1>1, <1>3, <1>12, <1>13, <2>1 DEF Line, dd2
<1> QED BY <1>14 DEF wr2

\* The stream is cut within a message.
LEMMA LineCut ==
    ASSUME NEW M, NEW Y, NEW code, Codes(code, M, Y), NEW b \in Seq(Y), NEW w \in Seq(Y),
           NEW wr, NEW de, NEW m \in M, NEW k \in Nat, k # 0, k < Len(code[m]),
           Line(code, b, w, wr, de, FALSE)
    PROVE  Line(code, b, w \o SubSeq(code[m], 1, k), wr, de, TRUE)
<1> DEFINE t == SubSeq(code[m], 1, k)
           f == FlattenSeq(Due(code, wr, de))
<1>1. t \in Tails(code, TRUE)
  <2>1. m \in DOMAIN code /\ k \in 1..(Len(code[m]) - 1)
    BY CodesType
  <2> QED BY <2>1 DEF Tails
<1>2. t \in Seq(Y)
  <2> HIDE DEF t
  <2> QED BY <1>1, TailType
<1> HIDE DEF t
<1>3. f \in Seq(Y)
  <2>1. wr \in Seq(M) /\ de \in Seq(M) /\ Len(de) <= Len(wr)
    BY CodesType DEF Line
  <2>2. Due(code, wr, de) \in Seq(Seq(Y))
    BY <2>1, DueType
  <2> QED BY <2>2, FlattenType
<1>4. b \o w = f \o <<>>
  BY DEF Line, Tails
<1> HIDE DEF f
<1>5. b \o w = f
  BY <1>3, <1>4, ConcatEmptySeq
<1>6. b \o (w \o t) = f \o t
  <2>1. (b \o w) \o t = b \o (w \o t)
    <3>1. Regroups(Y)
      BY Regroup, Zenon
    <3> QED BY <1>2, <3>1, Zenon DEF Regroups
  <2> QED BY <1>5, <2>1
<1>7. Line(code, b, w \o t, wr, de, TRUE)
  BY <1>1, <1>6 DEF Line, f
<1> QED BY <1>7 DEF t

\* A piece arrives.
LEMMA LineArrive ==
    ASSUME NEW M, NEW Y, NEW code, Codes(code, M, Y), NEW b \in Seq(Y), NEW w \in Seq(Y),
           NEW wr, NEW de, NEW c, NEW n \in Nat, n <= Len(w), Line(code, b, w, wr, de, c)
    PROVE  /\ b \o SubSeq(w, 1, n) \in Seq(Y) /\ SubSeq(w, n + 1, Len(w)) \in Seq(Y)
           /\ Line(code, b \o SubSeq(w, 1, n), SubSeq(w, n + 1, Len(w)), wr, de, c)
<1> DEFINE x == SubSeq(w, 1, n)
           y == SubSeq(w, n + 1, Len(w))
<1>1. n \in Nat /\ n <= Len(w) /\ 0 + n <= Len(w) /\ 0 + 1 = 1 /\ 0 + n = n
  OBVIOUS
<1>2. x \in Seq(Y)
  <2>1. SubSeq(w, 0 + 1, 0 + n) \in Seq(Y)
    BY <1>1, Piece
  <2> QED BY <1>1, <2>1
<1>3. y \in Seq(Y)
  BY <1>1, Rest
<1>4. x \o y = w
  BY <1>1, TakeDrop
<1> HIDE DEF x, y
<1>5. (b \o x) \o y = b \o w
  <2>1. (b \o x) \o y = b \o (x \o y)
    <3>1. Regroups(Y)
      BY Regroup, Zenon
    <3> QED BY <1>2, <1>3, <3>1, Zenon DEF Regroups
  <2> QED BY <1>4, <2>1
<1>6. b \o x \in Seq(Y)
  BY <1>2, ConcatProperties
<1>7. Line(code, b \o x, y, wr, de, c)
  BY <1>5 DEF Line
<1> QED BY <1>3, <1>6, <1>7 DEF x, y

\* As long as a message is due, the buffer shows its code; once it holds all of
\* it, the message can be taken, and it does once nothing is under way.
LEMMA LineHead ==
    ASSUME NEW M, NEW Y, NEW code, Codes(code, M, Y), NEW b \in Seq(Y), NEW w \in Seq(Y),
           NEW wr, NEW de, NEW c, Line(code, b, w, wr, de, c), Len(de) < Len(wr)
    PROVE  LET m == wr[Len(de) + 1]  rest == SubSeq(b, Len(code[m]) + 1, Len(b)) IN
           /\ m \in M
           /\ Shows(b, 0, code[m])
           /\ Len(code[m]) <= Len(b) =>
                  rest \in Seq(Y) /\ Line(code, rest, w, wr, Append(de, m), c)
           /\ w = <<>> => Len(code[m]) <= Len(b)
<1>1. /\ wr \in Seq(M) /\ de \in Seq(M) /\ Len(de) <= Len(wr)
      /\ \A i \in 1..Len(de) : de[i] = wr[i]
      /\ Len(de) \in Nat /\ Len(wr) \in Nat
  BY CodesType DEF Line
<1> DEFINE m == wr[Len(de) + 1]
           de2 == Append(de, m)
           dd == Due(code, wr, de)
           dd2 == Due(code, wr, de2)
           e == code[m]
<1>2. m \in M
  BY <1>1
<1>e. e \in Seq(Y)
  BY <1>2, CodesType
<1> HIDE DEF m
<1>3. /\ de2 \in Seq(M) /\ Len(de2) = Len(de) + 1 /\ de2[Len(de) + 1] = m
      /\ \A i \in 1..Len(de) : de2[i] = de[i]
  BY <1>1, <1>2, AppendProperties
<1> HIDE DEF de2
<1>4. /\ dd \in Seq(Seq(Y)) /\ Len(dd) = Len(wr) - Len(de)
      /\ \A i \in 1..(Len(wr) - Len(de)) : dd[i] = code[wr[Len(de) + i]]
  BY <1>1, DueType
<1>5. /\ dd2 \in Seq(Seq(Y)) /\ Len(dd2) = Len(wr) - Len(de2)
      /\ \A i \in 1..(Len(wr) - Len(de2)) : dd2[i] = code[wr[Len(de2) + i]]
  <2>1. Len(de2) <= Len(wr)
    BY <1>1, <1>3
  <2>2. wr \in Seq(M) /\ de2 \in Seq(M)
    BY <1>1, <1>3
  <2> QED BY <2>1, <2>2, DueType
<1>6. PICK t \in Tails(code, c) : b \o w = FlattenSeq(dd) \o t
  BY DEF Line
<1>7. t \in Seq(Y)
  BY TailType
<1> HIDE DEF dd, dd2
<1>8. dd # <<>> /\ Head(dd) = e /\ Tail(dd) = dd2
  <2>1. dd # <<>>
    BY <1>1, <1>4
  <2>2. Head(dd) = e
    <3>1. 1 \in 1..(Len(wr) - Len(de))
      BY <1>1
    <3>2. dd[1] = code[wr[Len(de) + 1]]
      BY <1>4, <3>1
    <3> QED BY <1>4, <2>1, <3>2 DEF m
  <2> DEFINE a == Tail(dd)
  <2>3. a \in Seq(Seq(Y)) /\ Len(a) = Len(dd) - 1 /\ \A i \in 1..Len(a) : a[i] = dd[i + 1]
    BY <1>4, <2>1, HeadTailProperties
  <2> HIDE DEF a
  <2>4. Len(a) = Len(dd2)
    BY <1>1, <1>3, <1>4, <1>5, <2>3
  <2>5. ASSUME NEW i \in 1..Len(a) PROVE a[i] = dd2[i]
    <3>1. i + 1 \in 1..(Len(wr) - Len(de)) /\ i \in 1..(Len(wr) - Len(de2))
      BY <1>1, <1>3, <1>4, <2>3
    <3>2. Len(de) + (i + 1) = Len(de2) + i
      BY <1>1, <1>3, <2>3
    <3>3. a[i] = code[wr[Len(de) + (i + 1)]]
      BY <1>4, <2>3, <3>1
    <3>4. dd2[i] = code[wr[Len(de2) + i]]
      BY <1>5, <3>1
    <3> QED BY <3>2, <3>3, <3>4
  <2>6. a = dd2
    BY <1>5, <2>3, <2>4, <2>5, SeqEqual
  <2> QED BY <2>1, <2>2, <2>6 DEF a
<1> DEFINE f == FlattenSeq(dd2)
<1>9. f \in Seq(Y)
  BY <1>5, FlattenType
<1>10. FlattenSeq(dd) = e \o f
  BY <1>4, <1>8, FlattenHead
<1> HIDE DEF e, f
<1>11. b \o w = e \o (f \o t) /\ f \o t \in Seq(Y)
  <2>1. (e \o f) \o t = e \o (f \o t)
    <3>1. Regroups(Y)
      BY Regroup, Zenon
    <3> QED BY <1>7, <1>9, <1>e, <3>1, Zenon DEF Regroups
  <2>2. f \o t \in Seq(Y)
    BY <1>7, <1>9, ConcatProperties
  <2> QED BY <1>6, <1>10, <2>1, <2>2
<1> DEFINE rest == SubSeq(b, Len(e) + 1, Len(b))
           r == f \o t
<1>12. /\ Shows(b, 0, e)
       /\ Len(e) <= Len(b) => rest \in Seq(Y) /\ rest \o w = r
       /\ w = <<>> => Len(e) <= Len(b)
  <2>1. b \o w = e \o r /\ r \in Seq(Y)
    BY <1>11
  <2> HIDE DEF r
  <2> QED BY <1>e, <2>1, Divide
<1> HIDE DEF rest
<1>13. ASSUME Len(e) <= Len(b) PROVE Line(code, rest, w, wr, de2, c)
  <2>1. rest \o w = f \o t
    BY <1>12, <1>13
  <2>2. Len(de2) <= Len(wr) /\ DOMAIN code = M
    BY <1>1, <1>3, CodesType
  <2>3. \A i \in 1..Len(de2) : de2[i] = wr[i]
    <3>1. ASSUME NEW i \in 1..Len(de2) PROVE de2[i] = wr[i]
      <4>1. CASE i = Len(de) + 1
        BY <1>3, <4>1 DEF m
      <4>2. CASE i # Len(de) + 1
        <5>1. i \in 1..Len(de)
          BY <1>1, <1>3, <4>2
        <5> QED BY <1>1, <1>3, <5>1
      <4> QED BY <4>1, <4>2
    <3> QED BY <3>1
  <2> QED BY <1>1, <1>3, <2>1, <2>2, <2>3 DEF Line, f, dd2
<1> QED BY <1>2, <1>12, <1>13 DEF m, de2, e, rest

\* With no message due, the buffer holds at most the begin of the last one.
LEMMA LineDone ==
    ASSUME NEW M, NEW Y, NEW code, Codes(code, M, Y), NEW b \in Seq(Y), NEW w \in Seq(Y),
           NEW wr, NEW de, NEW c, Line(code, b, w, wr, de, c), Len(de) = Len(wr)
    PROVE  /\ \/ b = <<>>
              \/ \E m \in M : Shows(b, 0, code[m]) /\ Len(b) < Len(code[m])
           /\ ~c => b = <<>>
           /\ de = wr
<1>1. /\ wr \in Seq(M) /\ de \in Seq(M) /\ \A i \in 1..Len(de) : de[i] = wr[i]
      /\ Len(wr) \in Nat
  BY CodesType DEF Line
<1>2. de = wr
  BY <1>1, SeqEqual
<1>3. PICK t \in Tails(code, c) : b \o w = FlattenSeq(Due(code, wr, de)) \o t
  BY CodesType DEF Line
<1>4. /\ t \in Seq(Y)
      /\ ~c => t = <<>>
      /\ c => \E m \in M : Shows(t, 0, code[m]) /\ Len(t) < Len(code[m]) /\ t # <<>>
  BY TailType, Zenon
<1>5. Due(code, wr, de) = <<>>
  <2> DEFINE dd == Due(code, wr, de)
  <2>1. dd \in Seq(Seq(Y)) /\ Len(dd) = Len(wr) - Len(de)
    BY <1>1, DueType
  <2> HIDE DEF dd
  <2>2. Len(dd) = 0
    BY <1>1, <2>1
  <2>3. dd = <<>>
    BY <2>1, <2>2
  <2> QED BY <2>3 DEF dd
<1>6. b \o w = t
  BY <1>3, <1>4, <1>5, FlattenEmpty, ConcatEmptySeq
<1>7. /\ Len(t) = Len(b) + Len(w) /\ Len(b) \in Nat /\ Len(w) \in Nat
      /\ \A i \in 1..Len(t) : t[i] = IF i <= Len(b) THEN b[i] ELSE w[i - Len(b)]
  BY <1>6, ConcatProperties
<1>8. CASE ~c
  <2>1. Len(t) = 0
    BY <1>4, <1>8
  <2>2. Len(b) = 0
    BY <1>7, <2>1
  <2>3. b = <<>>
    BY <2>2
  <2> QED BY <1>2, <2>3
<1>9. CASE c
  <2>1. PICK m \in M : Shows(t, 0, code[m]) /\ Len(t) < Len(code[m])
    BY <1>4, <1>9
  <2>2. Len(code[m]) \in Nat
    OBVIOUS
  <2>3. Shows(b, 0, code[m])
    <3>1. ASSUME NEW j \in 1..Len(code[m]), 0 + j <= Len(b) PROVE b[0 + j] = code[m][j]
      <4>1. j \in 1..Len(t) /\ 0 + j = j /\ j <= Len(b)
        BY <1>7, <2>2, <3>1
      <4>2. t[j] = b[j] /\ t[j] = code[m][j]
        BY <1>7, <2>1, <2>2, <4>1 DEF Shows
      <4> QED BY <4>1, <4>2
    <3> QED BY <3>1 DEF Shows
  <2>4. Len(b) < Len(code[m])
    BY <1>7, <2>1, <2>2
  <2> QED BY <1>2, <1>9, <2>3, <2>4
<1> QED BY <1>8, <1>9

-------------------------------------------------------------------------------
(* Numbers *)

LEMMA BaseFacts ==
    /\ B \in Nat /\ B >= 10 /\ Bytes = 0..(B - 1) /\ Max8 = B - 1 /\ Max8 \in Bytes
    /\ Bytes \subseteq Nat
BY WireAssumption DEF Bytes, Max8

LEMMA WeightFacts ==
    /\ Weight[1] = 1 /\ Weight[2] = B /\ Weight[3] = B * B /\ Weight[4] = B * B * B
    /\ \A k \in 1..4 : Weight[k] \in Nat \ {0}
<1>1. B \in Nat \ {0}
  BY BaseFacts
<1>2. B * B \in Nat \ {0}
  BY <1>1
<1>3. (B * B) * B \in Nat \ {0}
  BY <1>1, <1>2
<1>4. Weight[1] = 1 /\ Weight[2] = B /\ Weight[3] = B * B /\ Weight[4] = B * B * B
  BY DEF Weight
<1>5. \A k \in 1..4 : k = 1 \/ k = 2 \/ k = 3 \/ k = 4
  OBVIOUS
<1> QED BY <1>1, <1>2, <1>3, <1>4, <1>5

LEMMA WidthFacts ==
    /\ \A f \in DOMAIN Width : f # "str" /\ Width[f] \in {1, 2, 4}
    /\ {"u8", "bool", "creq", "cres", "u16", "u32"} \subseteq DOMAIN Width
    /\ Width["u8"] = 1 /\ Width["bool"] = 1 /\ Width["creq"] = 1 /\ Width["cres"] = 1
    /\ Width["u16"] = 2 /\ Width["u32"] = 4
BY DEF Width

\* A number is written as bytes.
LEMMA BigEndianType ==
    ASSUME NEW n \in Nat, NEW w \in {1, 2, 4}
    PROVE  /\ BigEndian(n, w) \in Seq(Bytes) /\ Len(BigEndian(n, w)) = w
           /\ \A i \in 1..w : BigEndian(n, w)[i] = (n \div Weight[w - i + 1]) % B
<1> DEFINE s == [i \in 1..w |-> (n \div Weight[w - i + 1]) % B]
<1>1. ASSUME NEW i \in 1..w PROVE (n \div Weight[w - i + 1]) % B \in Bytes
  <2> DEFINE v == Weight[w - i + 1]
  <2>1. w - i + 1 \in 1..4
    OBVIOUS
  <2>2. v \in Nat \ {0}
    BY <2>1, WeightFacts
  <2> HIDE DEF v
  <2>3. n \div v \in Nat
    BY <2>2
  <2>4. (n \div v) % B \in 0..(B - 1)
    BY <2>3, BaseFacts
  <2> QED BY <2>4, BaseFacts DEF v
<1>2. w \in Nat
  OBVIOUS
<1>3. s \in Seq(Bytes) /\ Len(s) = w
  BY <1>1, <1>2
<1>4. \A i \in 1..w : s[i] = (n \div Weight[w - i + 1]) % B
  OBVIOUS
<1> QED BY <1>3, <1>4 DEF BigEndian

\* g holds the numbers that the first bytes of s make: the function Number defines.
Nums(g, s, n) == g = [i \in 0..n |-> IF i = 0 THEN 0 ELSE g[i - 1] * B + s[i]]

LEMMA NumsExists ==
    ASSUME NEW s, NEW n \in Nat
    PROVE  \E g : Nums(g, s, n)
<1> DEFINE S == {m \in Nat : \E g : Nums(g, s, m)}
<1>1. 0 \in S
  <2> DEFINE g == [i \in 0..0 |-> 0]
  <2>1. g = [i \in 0..0 |-> IF i = 0 THEN 0 ELSE g[i - 1] * B + s[i]]
    OBVIOUS
  <2>2. Nums(g, s, 0)
    BY <2>1 DEF Nums
  <2> QED BY <2>2
<1>2. ASSUME NEW m \in Nat, m \in S PROVE m + 1 \in S
  <2>1. PICK g : Nums(g, s, m)
    BY <1>2
  <2> DEFINE f == [i \in 0..(m + 1) |-> IF i = m + 1 THEN g[m] * B + s[m + 1] ELSE g[i]]
             h == [i \in 0..(m + 1) |-> IF i = 0 THEN 0 ELSE f[i - 1] * B + s[i]]
  <2>2. \A i \in 0..m : g[i] = IF i = 0 THEN 0 ELSE g[i - 1] * B + s[i]
    BY <2>1 DEF Nums
  <2>3. ASSUME NEW i \in 0..(m + 1) PROVE f[i] = h[i]
    BY <2>2
  <2>4. f = h
    BY <2>3
  <2>5. Nums(f, s, m + 1)
    BY <2>4 DEF Nums
  <2> QED BY <2>5
<1>3. \A m \in Nat : m \in S
  <2> HIDE DEF S
  <2> QED BY <1>1, <1>2, SetInduction
<1> QED BY <1>3

\* What Number makes of one, two and four bytes.
LEMMA NumberIs ==
    ASSUME NEW s \in Seq(Nat)
    PROVE  /\ Len(s) = 1 => Number(s) = s[1]
           /\ Len(s) = 2 => Number(s) = s[1] * B + s[2]
           /\ Len(s) = 4 => Number(s) = ((s[1] * B + s[2]) * B + s[3]) * B + s[4]
<1> DEFINE n == Len(s)
           c == CHOOSE g : Nums(g, s, n)
<1>1. Nums(c, s, n)
  <2>1. n \in Nat
    OBVIOUS
  <2> QED BY <2>1, NumsExists
<1>2. Number(s) = c[n]
  BY DEF Number, Nums
<1> HIDE DEF c
<1>3. \A i \in 0..n : c[i] = IF i = 0 THEN 0 ELSE c[i - 1] * B + s[i]
  BY <1>1 DEF Nums
<1>b. B \in Nat
  BY BaseFacts
<1>4. n \in Nat /\ c[0] = 0 /\ \A i \in 1..n : c[i] = c[i - 1] * B + s[i] /\ s[i] \in Nat
  BY <1>3
<1>5. n >= 1 => c[1] = s[1] /\ s[1] \in Nat
  <2>1. n >= 1 => c[1] = c[0] * B + s[1] /\ s[1] \in Nat
    BY <1>4
  <2> QED BY <1>4, <1>b, <2>1
<1>6. n >= 2 => c[2] = s[1] * B + s[2]
  <2>1. n >= 2 => 2 \in 1..n /\ 2 - 1 = 1 /\ n >= 1
    BY <1>4
  <2>2. n >= 2 => c[2] = c[1] * B + s[2]
    BY <1>4, <2>1
  <2> QED BY <1>5, <2>1, <2>2
<1>7. n >= 4 => c[4] = ((s[1] * B + s[2]) * B + s[3]) * B + s[4]
  <2>1. n >= 4 => 3 \in 1..n /\ 3 - 1 = 2 /\ 4 \in 1..n /\ 4 - 1 = 3 /\ n >= 2
    BY <1>4
  <2>2. n >= 4 => c[3] = c[2] * B + s[3]
    BY <1>4, <2>1
  <2>3. n >= 4 => c[4] = c[3] * B + s[4]
    BY <1>4, <2>1
  <2> QED BY <1>6, <2>1, <2>2, <2>3
<1>8. (n = 1 => n >= 1) /\ (n = 2 => n >= 2) /\ (n = 4 => n >= 4)
  <2> HIDE DEF n
  <2> QED BY <1>4
<1>9. /\ n = 1 => c[n] = s[1]
      /\ n = 2 => c[n] = s[1] * B + s[2]
      /\ n = 4 => c[n] = ((s[1] * B + s[2]) * B + s[3]) * B + s[4]
  <2> HIDE DEF n
  <2> QED BY <1>5, <1>6, <1>7, <1>8, Zenon
<1> QED BY <1>2, <1>9, Zenon DEF n

\* Dividing twice is dividing by the product, and a quotient is below the bound
\* of the number divided.
LEMMA Quotients ==
    ASSUME NEW n \in Nat, NEW b \in Nat \ {0}
    PROVE  /\ n \div b \in Nat /\ n = (n \div b) * b + (n % b)
           /\ \A c \in Nat \ {0} : (n \div b) \div c = n \div (b * c)
           /\ \A c \in Nat : n < b * c => n \div b < c
<1>1. n \div b \in Nat
  OBVIOUS
<1>2. n = (n \div b) * b + (n % b)
  OBVIOUS
<1>3. ASSUME NEW c \in Nat \ {0} PROVE (n \div b) \div c = n \div (b * c)
  OBVIOUS
<1>4. ASSUME NEW c \in Nat, n < b * c PROVE n \div b < c
  BY <1>4
<1> QED BY <1>1, <1>2, <1>3, <1>4

\* Reading a number back.
LEMMA NumberInverse ==
    ASSUME NEW w \in {1, 2, 4}, NEW n \in 0..(B * Weight[w] - 1)
    PROVE  Number(BigEndian(n, w)) = n
<1> DEFINE s == BigEndian(n, w)
<1>0. B \in Nat \ {0} /\ n \in Nat /\ n < B * Weight[w]
  <2>1. B \in Nat \ {0} /\ w \in 1..4
    BY BaseFacts
  <2>2. Weight[w] \in Nat \ {0}
    BY <2>1, WeightFacts
  <2>3. B * Weight[w] \in Nat
    BY <2>1, <2>2
  <2> QED BY <2>1, <2>3
<1>1. /\ s \in Seq(Bytes) /\ Len(s) = w
      /\ \A i \in 1..w : s[i] = (n \div Weight[w - i + 1]) % B
  BY <1>0, BigEndianType
<1>2. s \in Seq(Nat)
  BY <1>1, BaseFacts
<1> HIDE DEF s
<1>3. CASE w = 1
  <2>1. s[1] = (n \div 1) % B
    BY <1>1, <1>3, WeightFacts
  <2>2. n < B
    BY <1>0, <1>3, WeightFacts
  <2>3. s[1] = n
    BY <1>0, <2>1, <2>2
  <2> QED BY <1>1, <1>2, <1>3, <2>3, NumberIs DEF s
<1>4. CASE w = 2
  <2>1. s[1] = (n \div B) % B /\ s[2] = (n \div 1) % B
    BY <1>1, <1>4, WeightFacts
  <2>2. n < B * B
    BY <1>0, <1>4, WeightFacts
  <2> DEFINE q1 == n \div B
  <2>3. q1 \in Nat /\ n = q1 * B + (n % B) /\ q1 < B
    BY <1>0, <2>2, Quotients
  <2>4. n \div 1 = n
    BY <1>0
  <2> HIDE DEF q1
  <2>5. s[1] = q1 /\ s[2] = n % B
    BY <1>0, <2>1, <2>3, <2>4 DEF q1
  <2>6. s[1] * B + s[2] = n
    BY <2>3, <2>5
  <2> QED BY <1>1, <1>2, <1>4, <2>6, NumberIs DEF s
<1>5. CASE w = 4
  <2>1. /\ s[1] = (n \div (B * B * B)) % B /\ s[2] = (n \div (B * B)) % B
        /\ s[3] = (n \div B) % B /\ s[4] = (n \div 1) % B
    <3>1. /\ {1, 2, 3, 4} \subseteq 1..w /\ w - 1 + 1 = 4 /\ w - 2 + 1 = 3
          /\ w - 3 + 1 = 2 /\ w - 4 + 1 = 1
      BY <1>5
    <3>2. /\ s[1] = (n \div Weight[4]) % B /\ s[2] = (n \div Weight[3]) % B
          /\ s[3] = (n \div Weight[2]) % B /\ s[4] = (n \div Weight[1]) % B
      <4>1. /\ s[1] = (n \div Weight[w - 1 + 1]) % B /\ s[2] = (n \div Weight[w - 2 + 1]) % B
            /\ s[3] = (n \div Weight[w - 3 + 1]) % B /\ s[4] = (n \div Weight[w - 4 + 1]) % B
        BY <1>1, <3>1
      <4> QED BY <3>1, <4>1
    <3> QED BY <3>2, WeightFacts, Zenon
  <2>2. n < B * (B * B * B)
    BY <1>0, <1>5, WeightFacts
  <2> DEFINE q1 == n \div B
             q2 == q1 \div B
             q3 == q2 \div B
  <2>b. B * B \in Nat \ {0} /\ B * B * B \in Nat \ {0}
    <3>1. B * B \in Nat \ {0}
      BY <1>0
    <3>2. (B * B) * B \in Nat \ {0}
      BY <1>0, <3>1
    <3> QED BY <3>1, <3>2
  <2>3. q1 \in Nat /\ n = q1 * B + (n % B) /\ q1 < B * B * B
    BY <1>0, <2>2, <2>b, Quotients
  <2>s. s[2] = (q1 \div B) % B /\ s[3] = q1 % B /\ n \div (B * B) = q1 \div B
    BY <1>0, <2>1, Quotients
  <2>t. q1 \div (B * B) = n \div (B * B * B)
    <3>1. B * (B * B) = B * B * B
      BY <1>0
    <3>2. q1 \div (B * B) = n \div (B * (B * B))
      BY <1>0, <2>b, Quotients
    <3> QED BY <3>1, <3>2
  <2>4. n \div 1 = n
    BY <1>0
  <2> HIDE DEF q1
  <2>5. q2 \in Nat /\ q1 = q2 * B + (q1 % B) /\ q2 < B * B
    <3>1. q1 < B * (B * B)
      BY <1>0, <2>3
    <3> QED BY <1>0, <2>3, <2>b, <3>1, Quotients
  <2>u. q2 \div B = q1 \div (B * B)
    <3>1. q1 \in Nat
      BY <2>3
    <3>2. \A x \in Nat \ {0} : (q1 \div B) \div x = q1 \div (B * x)
      BY <1>0, <3>1, Quotients
    <3> QED BY <1>0, <3>2
  <2> HIDE DEF q2
  <2>6. q3 \in Nat /\ q2 = q3 * B + (q2 % B) /\ q3 < B
    BY <1>0, <2>5, Quotients
  <2>7. q3 = n \div (B * B * B)
    BY <2>t, <2>u
  <2>8. s[2] = q2 % B
    BY <2>s DEF q2
  <2> HIDE DEF q3
  <2>9. s[1] = q3
    <3>1. q3 % B = q3
      BY <1>0, <2>6
    <3> QED BY <2>1, <2>7, <3>1
  <2>10. s[1] * B + s[2] = q2
    BY <2>6, <2>8, <2>9
  <2>11. q2 * B + s[3] = q1
    BY <2>5, <2>s
  <2>12. q1 * B + s[4] = n
    BY <2>1, <2>3, <2>4
  <2>13. ((s[1] * B + s[2]) * B + s[3]) * B + s[4] = n
    BY <2>10, <2>11, <2>12
  <2> QED BY <1>1, <1>2, <1>5, <2>13, NumberIs DEF s
<1> QED BY <1>3, <1>4, <1>5

-------------------------------------------------------------------------------
(* Fields *)

\* What a field is written as.
LEMMA WrittenType ==
    ASSUME NEW f, NEW v, Fits(f, v)
    PROVE  /\ Written(f, v) \in Seq(Nat)
           /\ ~TooLong(f, v) => Written(f, v) \in Seq(Bytes)
<1>1. CASE f = "str"
  <2>1. v \in Seq(Bytes) /\ Len(v) \in Nat
    BY <1>1, WidthFacts DEF Fits
  <2>2. v \in Seq(Nat)
    BY <2>1, BaseFacts
  <2>3. Written(f, v) = <<Len(v)>> \o v
    BY <1>1 DEF Written
  <2> DEFINE a == <<Len(v)>>
  <2>4. a \in Seq(Nat)
    BY <2>1
  <2>5. ~TooLong(f, v) => a \in Seq(Bytes)
    BY <1>1, <2>1, BaseFacts DEF TooLong
  <2> HIDE DEF a
  <2>6. a \o v \in Seq(Nat)
    BY <2>2, <2>4, ConcatProperties
  <2>7. ~TooLong(f, v) => a \o v \in Seq(Bytes)
    BY <2>1, <2>5, ConcatProperties
  <2> QED BY <2>3, <2>6, <2>7 DEF a
<1>2. CASE f # "str"
  <2>1. f \in DOMAIN Width /\ v \in 0..(B * Weight[Width[f]] - 1)
    BY <1>2 DEF Fits
  <2>2. Width[f] \in {1, 2, 4} /\ v \in Nat
    BY <2>1, WidthFacts
  <2>3. Written(f, v) = BigEndian(v, Width[f])
    BY <1>2 DEF Written
  <2>4. Written(f, v) \in Seq(Bytes)
    BY <2>2, <2>3, BigEndianType
  <2>5. Written(f, v) \in Seq(Nat)
    BY <2>4, BaseFacts
  <2> QED BY <2>4, <2>5
<1> QED BY <1>1, <1>2

\* Reading one field.
Field(src, c, f) == IF f = "str" THEN decode_str(src, c) ELSE try_get(src, c, f)

\* A cursor that takes a value.
LEMMA CursorTook ==
    ASSUME NEW p \in Nat, NEW l, NEW k \in Nat, NEW v
    PROVE  Took([st |-> "ok", pos |-> p, vals |-> l], k, v)
           = [st |-> "ok", pos |-> p + k, vals |-> Append(l, v)]
<1> DEFINE c == [st |-> "ok", pos |-> p, vals |-> l]
           a == Append(l, v)
           q == p + k
<1>0. c.pos = p /\ c.vals = l /\ c.st = "ok"
  OBVIOUS
<1>c. c.pos + k = q /\ Append(c.vals, v) = a
  BY <1>0
<1>d. c = [i \in {"st", "pos", "vals"} |-> c[i]]
  OBVIOUS
<1> HIDE DEF a, q
<1> DEFINE r == [c EXCEPT !.pos = q, !.vals = a]
           s == [st |-> "ok", pos |-> q, vals |-> a]
<1>1. Took(c, k, v) = r
  BY <1>c DEF Took
<1>2. r = [i \in {"st", "pos", "vals"} |-> r[i]] /\ s = [i \in {"st", "pos", "vals"} |-> s[i]]
  BY <1>d
<1>3. r.st = "ok" /\ r.pos = q /\ r.vals = a
  BY <1>d
<1>4. s.st = "ok" /\ s.pos = q /\ s.vals = a
  OBVIOUS
<1>5. \A i \in {"st", "pos", "vals"} : r[i] = s[i]
  BY <1>3, <1>4
<1>6. r = s
  <2> HIDE DEF r, s
  <2> QED BY <1>2, <1>5
<1> QED BY <1>1, <1>6 DEF a, q

\* A field is read as it was written, as soon as all of it is there.
LEMMA FieldRead ==
    ASSUME NEW f, NEW v, Fits(f, v), ~TooLong(f, v), NEW src \in Seq(Bytes), NEW p \in Nat,
           NEW l, Shows(src, p, Written(f, v))
    PROVE  LET c == [st |-> "ok", pos |-> p, vals |-> l]
               n == Len(Written(f, v))
           IN  /\ n \in Nat
               /\ p + n <= Len(src) =>
                      Field(src, c, f) = [st |-> "ok", pos |-> p + n, vals |-> Append(l, v)]
               /\ p + n > Len(src) => Field(src, c, f).st = "none"
<1> DEFINE c == [st |-> "ok", pos |-> p, vals |-> l]
           w == Written(f, v)
           n == Len(w)
<1>0. w \in Seq(Bytes) /\ n \in Nat /\ Len(src) \in Nat
  BY WrittenType
<1>t. ASSUME NEW k \in Nat
      PROVE  Took(c, k, v) = [st |-> "ok", pos |-> p + k, vals |-> Append(l, v)]
  BY CursorTook
<1>m. Missing(c).st = "none" /\ c.pos = p
  BY DEF Missing
<1>s. ASSUME p + n <= Len(src) PROVE SubSeq(src, p + 1, p + n) = w
  <2> HIDE DEF w
  <2> QED BY <1>0, <1>s, ShownPiece DEF w
<1>1. CASE f = "str"
  <2>1. /\ v \in Seq(Bytes) /\ Len(v) \in Nat /\ Utf8(v)
    BY <1>1, WidthFacts DEF Fits
  <2>2. w = <<Len(v)>> \o v
    BY <1>1 DEF Written
  <2>3. /\ n = 1 + Len(v) /\ w[1] = Len(v)
        /\ \A i \in 1..Len(v) : w[1 + i] = v[i]
    <3> DEFINE a == <<Len(v)>>
    <3>1. a \in Seq(Nat) /\ Len(a) = 1 /\ a[1] = Len(v) /\ v \in Seq(Nat)
      BY <2>1, BaseFacts
    <3> HIDE DEF a
    <3>2. /\ Len(a \o v) = Len(a) + Len(v)
          /\ \A i \in 1..(Len(a) + Len(v)) :
                 (a \o v)[i] = IF i <= Len(a) THEN a[i] ELSE v[i - Len(a)]
      BY <3>1, ConcatProperties
    <3> DEFINE u == a \o v
    <3>3. /\ Len(u) = 1 + Len(v)
          /\ \A i \in 1..(1 + Len(v)) : u[i] = IF i <= 1 THEN a[i] ELSE v[i - 1]
      BY <3>1, <3>2
    <3> HIDE DEF u
    <3>4. u[1] = Len(v) /\ \A i \in 1..Len(v) : u[1 + i] = v[i]
      <4>1. 1 \in 1..(1 + Len(v))
        BY <2>1
      <4>2. u[1] = Len(v)
        BY <3>1, <3>3, <4>1
      <4>3. ASSUME NEW i \in 1..Len(v) PROVE u[1 + i] = v[i]
        <5>1. 1 + i \in 1..(1 + Len(v)) /\ ~(1 + i <= 1) /\ (1 + i) - 1 = i
          BY <2>1
        <5> QED BY <3>3, <5>1
      <4> QED BY <4>2, <4>3
    <3>5. w = u
      BY <2>2 DEF u, a
    <3> QED BY <3>3, <3>4, <3>5
  <2> HIDE DEF w
  <2>4. CASE Len(src) <= p
    <3>1. Field(src, c, f) = Missing(c)
      BY <1>1, <1>m, <2>4 DEF Field, decode_str
    <3>2. ~(p + n <= Len(src))
      BY <1>0, <2>1, <2>3, <2>4
    <3> QED BY <1>0, <1>m, <3>1, <3>2 DEF w
  <2>5. CASE Len(src) > p
    <3>1. src[p + 1] = Len(v) /\ ~(Len(src) <= p)
      <4>1. 1 \in 1..Len(w) /\ p + 1 <= Len(src)
        BY <1>0, <2>1, <2>3, <2>5
      <4>2. src[p + 1] = w[1]
        BY <4>1 DEF Shows, w
      <4> QED BY <1>0, <2>3, <2>5, <4>2
    <3>2. CASE Len(src) < p + 1 + Len(v)
      <4>1. Field(src, c, f) = Missing(c)
        BY <1>1, <1>m, <3>1, <3>2 DEF Field, decode_str
      <4>2. ~(p + n <= Len(src))
        BY <1>0, <2>1, <2>3, <3>2
      <4> QED BY <1>0, <1>m, <4>1, <4>2 DEF w
    <3>3. CASE ~(Len(src) < p + 1 + Len(v))
      <4> DEFINE s == SubSeq(src, p + 2, p + 1 + Len(v))
      <4>1. p + n <= Len(src) /\ ~(p + n > Len(src))
        BY <1>0, <2>1, <2>3, <3>3
      <4>2. s = v
        <5> DEFINE q == p + 1
        <5>1. q \in Nat /\ q + Len(v) <= Len(src) /\ q + 1 = p + 2 /\ q + Len(v) = p + 1 + Len(v)
          BY <1>0, <2>1, <3>3
        <5>2. Shows(src, q, v)
          <6>1. ASSUME NEW j \in 1..Len(v), q + j <= Len(src) PROVE src[q + j] = v[j]
            <7>0. Len(w) = 1 + Len(v) /\ Len(v) \in Nat
              BY <2>1, <2>3
            <7>1. 1 + j \in 1..Len(w) /\ p + (1 + j) = q + j
              BY <7>0
            <7>2. src[p + (1 + j)] = w[1 + j]
              BY <6>1, <7>1 DEF Shows, w
            <7> QED BY <2>3, <7>1, <7>2
          <6> QED BY <6>1 DEF Shows
        <5> HIDE DEF q
        <5>3. SubSeq(src, q + 1, q + Len(v)) = v
          BY <2>1, <5>1, <5>2, ShownPiece
        <5> QED BY <5>1, <5>3
      <4>3. decode_str(src, c) = IF Utf8(s) THEN Took(c, 1 + Len(v), s) ELSE Bad(c)
        BY <1>m, <3>1, <3>3 DEF decode_str
      <4> HIDE DEF s
      <4>4. Field(src, c, f) = Took(c, 1 + Len(v), v)
        BY <1>1, <2>1, <4>2, <4>3 DEF Field
      <4>5. Took(c, 1 + Len(v), v) = [st |-> "ok", pos |-> p + n, vals |-> Append(l, v)]
        BY <1>t, <2>1, <2>3
      <4> QED BY <1>0, <4>1, <4>4, <4>5 DEF w
    <3> QED BY <3>2, <3>3
  <2> QED BY <1>0, <2>4, <2>5
<1>2. CASE f # "str"
  <2>1. f \in DOMAIN Width /\ v \in 0..(B * Weight[Width[f]] - 1) /\ Valid(f, v)
    BY <1>2 DEF Fits
  <2>2. Width[f] \in {1, 2, 4} /\ v \in Nat
    BY <2>1, WidthFacts
  <2>3. w = BigEndian(v, Width[f])
    BY <1>2 DEF Written
  <2>4. n = Width[f]
    BY <2>2, <2>3, BigEndianType
  <2>5. Number(w) = v
    BY <2>1, <2>2, <2>3, NumberInverse
  <2>6. Field(src, c, f) = try_get(src, c, f)
    BY <1>2 DEF Field
  <2> HIDE DEF w, c
  <2>7. CASE Len(src) < p + n
    <3>1. try_get(src, c, f) = Missing(c)
      BY <1>m, <2>4, <2>7 DEF try_get
    <3> QED BY <1>0, <1>m, <2>6, <2>7, <3>1 DEF w, c
  <2>8. CASE ~(Len(src) < p + n)
    <3>1. SubSeq(src, p + 1, p + n) = w /\ p + n <= Len(src) /\ ~(p + n > Len(src))
      BY <1>0, <1>s, <2>8
    <3> DEFINE x == Number(SubSeq(src, p + 1, p + n))
    <3>2. try_get(src, c, f) = IF Valid(f, x) THEN Took(c, n, x) ELSE Bad(c)
      BY <1>m, <2>4, <2>8 DEF try_get
    <3>3. x = v
      BY <2>5, <3>1
    <3>4. try_get(src, c, f) = Took(c, n, v)
      BY <2>1, <3>2, <3>3
    <3>5. Field(src, c, f) = [st |-> "ok", pos |-> p + n, vals |-> Append(l, v)]
      BY <1>0, <1>t, <2>6, <3>4
    <3> QED BY <1>0, <3>1, <3>5 DEF w, c
  <2> QED BY <2>7, <2>8
<1> QED BY <1>1, <1>2

\* g holds the cursor behind each of the first n fields: the function ReadFields
\* defines.
Cursors(g, src, cursor, fs, n) ==
    g = [i \in 0..n |->
            IF i = 0 THEN cursor
            ELSE LET c == g[i - 1] IN
                 IF c.st # "ok" THEN c
                 ELSE IF fs[i] = "str" THEN decode_str(src, c) ELSE try_get(src, c, fs[i])]

LEMMA CursorsExists ==
    ASSUME NEW src, NEW cursor, NEW fs, NEW n \in Nat
    PROVE  \E g : Cursors(g, src, cursor, fs, n)
<1> DEFINE S == {m \in Nat : \E g : Cursors(g, src, cursor, fs, m)}
           next(i, c) == IF c.st # "ok" THEN c ELSE Field(src, c, fs[i])
<1>0. ASSUME NEW g, NEW m \in Nat
      PROVE  Cursors(g, src, cursor, fs, m)
             <=> g = [i \in 0..m |-> IF i = 0 THEN cursor ELSE next(i, g[i - 1])]
  BY DEF Cursors, Field
<1> HIDE DEF next
<1>1. 0 \in S
  <2> DEFINE g == [i \in 0..0 |-> cursor]
  <2>1. g = [i \in 0..0 |-> IF i = 0 THEN cursor ELSE next(i, g[i - 1])]
    OBVIOUS
  <2>2. Cursors(g, src, cursor, fs, 0)
    BY <1>0, <2>1
  <2> QED BY <2>2
<1>2. ASSUME NEW m \in Nat, m \in S PROVE m + 1 \in S
  <2>1. PICK g : Cursors(g, src, cursor, fs, m)
    BY <1>2
  <2> DEFINE last == next(m + 1, g[m])
             f == [i \in 0..(m + 1) |-> IF i = m + 1 THEN last ELSE g[i]]
             h == [i \in 0..(m + 1) |-> IF i = 0 THEN cursor ELSE next(i, f[i - 1])]
  <2>2. \A i \in 0..m : g[i] = IF i = 0 THEN cursor ELSE next(i, g[i - 1])
    BY <1>0, <2>1
  <2>3. ASSUME NEW i \in 0..(m + 1) PROVE f[i] = h[i]
    <3>1. CASE i = m + 1
      <4>1. i # 0 /\ i - 1 = m /\ m # m + 1 /\ m \in 0..(m + 1)
        BY <3>1
      <4>2. f[i - 1] = g[m] /\ f[i] = last /\ h[i] = next(i, f[i - 1])
        BY <3>1, <4>1
      <4> QED BY <3>1, <4>2
    <3>2. CASE i # m + 1
      <4>1. i \in 0..m
        BY <3>2
      <4>2. f[i] = g[i]
        BY <3>2
      <4>3. CASE i = 0
        BY <2>2, <4>1, <4>2, <4>3
      <4>4. CASE i # 0
        <5>1. i - 1 \in 0..(m + 1) /\ i - 1 # m + 1
          BY <4>1, <4>4
        <5>2. f[i - 1] = g[i - 1]
          BY <5>1
        <5>3. h[i] = next(i, f[i - 1]) /\ g[i] = next(i, g[i - 1])
          BY <2>2, <4>1, <4>4
        <5> QED BY <4>2, <5>2, <5>3
      <4> QED BY <4>3, <4>4
    <3> QED BY <3>1, <3>2
  <2>4. f = h
    BY <2>3
  <2>5. Cursors(f, src, cursor, fs, m + 1)
    <3>1. m + 1 \in Nat
      OBVIOUS
    <3> HIDE DEF f
    <3> QED BY <1>0, <2>4, <3>1
  <2>6. \E x : Cursors(x, src, cursor, fs, m + 1)
    BY <2>5
  <2> QED BY <2>6
<1>3. \A m \in Nat : m \in S
  <2> HIDE DEF S
  <2> QED BY <1>1, <1>2, SetInduction
<1> QED BY <1>3

\* Some function holds the cursors, and ReadFields is its last value.
LEMMA CursorSteps ==
    ASSUME NEW src, NEW cursor, NEW fs, Len(fs) \in Nat
    PROVE  \E g : /\ ReadFields(src, cursor, fs) = g[Len(fs)]
                  /\ g[0] = cursor
                  /\ \A i \in Nat : i < Len(fs) =>
                         g[i + 1] = IF g[i].st # "ok" THEN g[i] ELSE Field(src, g[i], fs[i + 1])
<1> DEFINE n == Len(fs)
           c == CHOOSE g : Cursors(g, src, cursor, fs, n)
<1>1. Cursors(c, src, cursor, fs, n)
  BY CursorsExists
<1>2. ReadFields(src, cursor, fs) = c[n]
  BY DEF ReadFields, Cursors
<1> HIDE DEF c
<1>3. \A i \in 0..n : c[i] = IF i = 0 THEN cursor
                             ELSE IF c[i - 1].st # "ok" THEN c[i - 1]
                                  ELSE Field(src, c[i - 1], fs[i])
  BY <1>1 DEF Cursors, Field
<1>4. c[0] = cursor
  <2>1. 0 \in 0..n
    OBVIOUS
  <2> QED BY <1>3, <2>1, Zenon
<1>5. ASSUME NEW i \in Nat, i < n
      PROVE  c[i + 1] = IF c[i].st # "ok" THEN c[i] ELSE Field(src, c[i], fs[i + 1])
  <2>1. i + 1 \in 0..n /\ i + 1 # 0 /\ (i + 1) - 1 = i
    BY <1>5
  <2> QED BY <1>3, <2>1, Zenon
<1> QED BY <1>2, <1>4, <1>5

\* The fields as they are written, one by one.
Parts(fs, vs) == [i \in 1..Len(fs) |-> Written(fs[i], vs[i])]

LEMMA PartsType ==
    ASSUME NEW fs, NEW vs, Len(fs) \in Nat, Typed(fs, vs)
    PROVE  /\ Parts(fs, vs) \in Seq(Seq(Nat)) /\ Len(Parts(fs, vs)) = Len(fs)
           /\ ~Unsendable(fs, vs) => Parts(fs, vs) \in Seq(Seq(Bytes))
           /\ \A i \in 1..Len(fs) : Parts(fs, vs)[i] = Written(fs[i], vs[i])
           /\ WriteFields(fs, vs) = FlattenSeq(Parts(fs, vs))
           /\ WriteFields(fs, vs) \in Seq(Nat)
           /\ ~Unsendable(fs, vs) => WriteFields(fs, vs) \in Seq(Bytes)
<1> DEFINE n == Len(fs)
           ws == [i \in 1..n |-> Written(fs[i], vs[i])]
<1>1. \A i \in 1..n : Fits(fs[i], vs[i])
  BY DEF Typed
<1>2. \A i \in 1..n : Written(fs[i], vs[i]) \in Seq(Nat)
  BY <1>1, WrittenType
<1>3. ~Unsendable(fs, vs) => \A i \in 1..n : Written(fs[i], vs[i]) \in Seq(Bytes)
  BY <1>1, WrittenType DEF Unsendable
<1>4. ws \in Seq(Seq(Nat)) /\ Len(ws) = n
  BY <1>2
<1>5. ~Unsendable(fs, vs) => ws \in Seq(Seq(Bytes))
  BY <1>3
<1>6. \A i \in 1..n : ws[i] = Written(fs[i], vs[i])
  OBVIOUS
<1>7. Parts(fs, vs) = ws /\ WriteFields(fs, vs) = FlattenSeq(ws)
  BY DEF Parts, WriteFields
<1> HIDE DEF ws
<1>8. FlattenSeq(ws) \in Seq(Nat)
  BY <1>4, FlattenType
<1>9. ~Unsendable(fs, vs) => FlattenSeq(ws) \in Seq(Bytes)
  BY <1>5, FlattenType
<1> QED BY <1>4, <1>5, <1>6, <1>7, <1>8, <1>9

\* The fields are read as they were written, as soon as all of them are there.
LEMMA FieldsRead ==
    ASSUME NEW fs, NEW vs, Len(fs) \in Nat, Typed(fs, vs), ~Unsendable(fs, vs),
           NEW src \in Seq(Bytes), NEW p \in Nat, p <= Len(src),
           Shows(src, p, WriteFields(fs, vs))
    PROVE  LET n == Len(WriteFields(fs, vs))
               r == ReadFields(src, Cursor(p), fs)
           IN  /\ n \in Nat
               /\ p + n <= Len(src) => r = [st |-> "ok", pos |-> p + n, vals |-> vs]
               /\ p + n > Len(src) => r.st = "none"
<1> DEFINE k == Len(fs)
           ws == Parts(fs, vs)
           G(i) == FlattenSeq(SubSeq(ws, 1, i))
           V == {vs[i] : i \in 1..k}
           At(i) == [st |-> "ok", pos |-> p + Len(G(i)), vals |-> SubSeq(vs, 1, i)]
<1>1. /\ ws \in Seq(Seq(Bytes)) /\ Len(ws) = k /\ k \in Nat
      /\ \A i \in 1..k : ws[i] = Written(fs[i], vs[i])
      /\ WriteFields(fs, vs) = FlattenSeq(ws)
  BY PartsType
<1>2. vs \in Seq(V) /\ Len(vs) = k
  <2>1. vs = [i \in 1..k |-> vs[i]]
    BY DEF Typed
  <2>2. vs \in [1..k -> V]
    BY <2>1
  <2> QED BY <2>2
<1>f. \A i \in 1..k : Fits(fs[i], vs[i]) /\ ~TooLong(fs[i], vs[i])
  BY DEF Typed, Unsendable
<1>3. PICK g : /\ ReadFields(src, Cursor(p), fs) = g[k]
               /\ g[0] = Cursor(p)
               /\ \A i \in Nat : i < k =>
                      g[i + 1] = IF g[i].st # "ok" THEN g[i] ELSE Field(src, g[i], fs[i + 1])
  BY CursorSteps
<1> HIDE DEF ws, V, k
<1>4. G(0) = <<>> /\ SubSeq(vs, 1, 0) = <<>>
  <2>1. SubSeq(ws, 1, 0) = <<>> /\ SubSeq(vs, 1, 0) = <<>>
    BY <1>1, <1>2, SubSeqEmpty
  <2> QED BY <2>1, FlattenEmpty
<1>5. ASSUME NEW i \in Nat, i < k
      PROVE  /\ G(i) \in Seq(Bytes) /\ ws[i + 1] \in Seq(Bytes)
             /\ G(i + 1) = G(i) \o ws[i + 1]
             /\ SubSeq(vs, 1, i + 1) = Append(SubSeq(vs, 1, i), vs[i + 1])
  <2>1. /\ SubSeq(ws, 1, i) \in Seq(Seq(Bytes)) /\ ws[i + 1] \in Seq(Bytes)
        /\ SubSeq(ws, 1, i + 1) = Append(SubSeq(ws, 1, i), ws[i + 1])
    BY <1>1, <1>5, TakeNext
  <2>2. SubSeq(vs, 1, i + 1) = Append(SubSeq(vs, 1, i), vs[i + 1])
    BY <1>2, <1>5, TakeNext
  <2>3. G(i) \in Seq(Bytes)
    BY <2>1, FlattenType
  <2>4. FlattenSeq(Append(SubSeq(ws, 1, i), ws[i + 1])) = G(i) \o ws[i + 1]
    BY <2>1, FlattenAppend
  <2> QED BY <2>1, <2>2, <2>3, <2>4
<1>6. G(k) = WriteFields(fs, vs) /\ SubSeq(vs, 1, k) = vs
  <2>1. SubSeq(ws, 1, k) = ws /\ SubSeq(vs, 1, k) = vs
    BY <1>1, <1>2, SubSeqFull
  <2> QED BY <1>1, <2>1
<1> DEFINE Claim(i) == /\ p + Len(G(i)) <= Len(src) => g[i] = At(i)
                       /\ p + Len(G(i)) > Len(src) => g[i].st = "none"
           S == {i \in Nat : i <= k => (Shows(src, p, G(i)) => Claim(i))}
<1>7. 0 \in S
  <2>1. Len(G(0)) = 0
    BY <1>4
  <2>2. At(0) = [st |-> "ok", pos |-> p, vals |-> <<>>]
    BY <1>4, <2>1
  <2>3. g[0] = At(0)
    BY <1>3, <2>2 DEF Cursor
  <2>4. ~(p + 0 > Len(src))
    OBVIOUS
  <2> HIDE DEF At, G
  <2> QED BY <2>1, <2>3, <2>4
<1>8. ASSUME NEW i \in Nat, i \in S PROVE i + 1 \in S
  <2>0. i + 1 \in Nat
    OBVIOUS
  <2>1. SUFFICES ASSUME i + 1 <= k, Shows(src, p, G(i + 1)) PROVE Claim(i + 1)
    BY <2>0, Zenon
  <2> DEFINE f == fs[i + 1]
             v == vs[i + 1]
             w == Written(f, v)
             a == G(i)
             b == G(i + 1)
             l == SubSeq(vs, 1, i)
             q == p + Len(a)
  <2>2. i < k /\ i <= k /\ i + 1 \in 1..k
    BY <1>1, <2>1
  <2>3. /\ a \in Seq(Bytes) /\ b = a \o w /\ w \in Seq(Bytes)
        /\ SubSeq(vs, 1, i + 1) = Append(l, v)
    <3>1. ws[i + 1] = w
      BY <1>1, <2>2
    <3> QED BY <1>5, <2>2, <3>1
  <2>4. Fits(f, v) /\ ~TooLong(f, v)
    BY <1>f, <2>2 DEF k
  <2>5. At(i) = [st |-> "ok", pos |-> q, vals |-> l]
    OBVIOUS
  <2>6. At(i + 1) = [st |-> "ok", pos |-> p + Len(b), vals |-> Append(l, v)]
    BY <2>3
  <2>7. Shows(src, p, G(i)) => Claim(i)
    <3> HIDE DEF Claim, G
    <3> QED BY <1>8, <2>2, Zenon
  <2>8. g[i + 1] = IF g[i].st # "ok" THEN g[i] ELSE Field(src, g[i], f)
    BY <1>3, <2>2
  <2>9. Shows(src, p, b)
    BY <2>1
  <2> HIDE DEF a, b, w, v, f, l
  <2>10. /\ Shows(src, p, a) /\ Shows(src, q, w)
         /\ Len(b) = Len(a) + Len(w) /\ Len(a) \in Nat /\ Len(w) \in Nat /\ Len(src) \in Nat
    BY <2>3, <2>9, ShowsConcat, ConcatProperties
  <2>11. /\ q <= Len(src) => g[i] = At(i)
         /\ q > Len(src) => g[i].st = "none"
    BY <2>7, <2>10 DEF a
  <2> HIDE DEF At
  <2>12. CASE q <= Len(src)
    <3>1. g[i] = [st |-> "ok", pos |-> q, vals |-> l]
      BY <2>5, <2>11, <2>12
    <3>2. g[i].st = "ok"
      BY <3>1
    <3>3. g[i + 1] = Field(src, [st |-> "ok", pos |-> q, vals |-> l], f)
      BY <2>8, <3>1, <3>2
    <3>4. q \in Nat /\ q + Len(w) = p + Len(b)
      BY <2>10
    <3> HIDE DEF q
    <3>5. /\ q + Len(w) <= Len(src) =>
                 g[i + 1] = [st |-> "ok", pos |-> q + Len(w), vals |-> Append(l, v)]
          /\ q + Len(w) > Len(src) => g[i + 1].st = "none"
      <4> DEFINE x == Field(src, [st |-> "ok", pos |-> q, vals |-> l], f)
      <4>1. Shows(src, q, Written(f, v))
        BY <2>10 DEF w
      <4>2. q \in Nat
        BY <3>4
      <4>3. /\ q + Len(Written(f, v)) <= Len(src) =>
                   x = [st |-> "ok", pos |-> q + Len(Written(f, v)), vals |-> Append(l, v)]
            /\ q + Len(Written(f, v)) > Len(src) => x.st = "none"
        BY <2>4, <4>1, <4>2, FieldRead
      <4> HIDE DEF x
      <4>4. g[i + 1] = x
        BY <3>3 DEF x
      <4> QED BY <4>3, <4>4 DEF w
    <3>6. /\ p + Len(b) <= Len(src) => g[i + 1] = At(i + 1)
          /\ p + Len(b) > Len(src) => g[i + 1].st = "none"
      BY <2>6, <3>4, <3>5
    <3> QED BY <3>6 DEF b
  <2>13. CASE q > Len(src)
    <3>1. g[i].st = "none"
      BY <2>11, <2>13
    <3>2. g[i + 1].st = "none"
      BY <2>8, <3>1
    <3>3. ~(p + Len(b) <= Len(src))
      BY <2>10, <2>13
    <3> QED BY <3>2, <3>3 DEF b
  <2>14. q <= Len(src) \/ q > Len(src)
    BY <2>10
  <2> QED BY <2>12, <2>13, <2>14
<1>9. \A i \in Nat : i \in S
  <2> HIDE DEF S
  <2> QED BY <1>7, <1>8, SetInduction
<1>10. k \in Nat /\ k <= k
  BY <1>1
<1>11. Claim(k)
  <2>1. Shows(src, p, G(k))
    BY <1>6
  <2> HIDE DEF Claim, G
  <2> QED BY <1>9, <1>10, <2>1, Zenon
<1>12. Len(WriteFields(fs, vs)) \in Nat
  <2>1. WriteFields(fs, vs) \in Seq(Bytes)
    BY PartsType
  <2> QED BY <2>1
<1> QED BY <1>3, <1>6, <1>11, <1>12

-------------------------------------------------------------------------------
(* Decoders *)

\* r is a decoder's right result on a buffer that shows the code e of m: the
\* message, if all of it is there.
Reads(r, src, e, m) ==
    /\ Len(e) <= Len(src) =>
           r = [st |-> "item", item |-> m, rest |-> SubSeq(src, Len(e) + 1, Len(src))]
    /\ Len(e) > Len(src) => r.st = "none"

LEMMA NoFields ==
    ASSUME NEW src, NEW cursor
    PROVE  ReadFields(src, cursor, <<>>) = cursor
<1>1. Len(<<>>) = 0
  OBVIOUS
<1>2. PICK g : ReadFields(src, cursor, <<>>) = g[Len(<<>>)] /\ g[0] = cursor
  BY <1>1, CursorSteps
<1> QED BY <1>1, <1>2

\* A message of the control protocol: the kind, then the fields.
LEMMA KindRead ==
    ASSUME NEW kind \in Bytes, NEW fs, NEW vs, Len(fs) \in Nat, Typed(fs, vs),
           ~Unsendable(fs, vs), NEW src \in Seq(Bytes),
           Shows(src, 0, <<kind>> \o WriteFields(fs, vs))
    PROVE  LET e == <<kind>> \o WriteFields(fs, vs) IN
           /\ e \in Seq(Bytes) /\ Len(e) = 1 + Len(WriteFields(fs, vs))
           /\ src = <<>> => Len(e) > Len(src)
           /\ src # <<>> =>
                  /\ Len(src) >= 1 /\ src[1] = kind /\ Shows(src, 1, WriteFields(fs, vs))
                  /\ Reads(Decoded(src, kind, ReadFields(src, Cursor(1), fs)), src, e,
                           [kind |-> kind, vals |-> vs])
<1> DEFINE w == WriteFields(fs, vs)
           a == <<kind>>
           e == a \o w
<1>1. w \in Seq(Bytes) /\ Len(w) \in Nat
  <2>1. w \in Seq(Bytes)
    BY PartsType
  <2> QED BY <2>1
<1>2. a \in Seq(Bytes) /\ Len(a) = 1 /\ a[1] = kind
  OBVIOUS
<1>0. Shows(src, 0, e)
  OBVIOUS
<1> HIDE DEF a, w
<1>3. /\ e \in Seq(Bytes) /\ Len(e) = Len(a) + Len(w)
      /\ Shows(src, 0, a) /\ Shows(src, 0 + Len(a), w)
  BY <1>0, <1>1, <1>2, ConcatProperties, ShowsConcat
<1> HIDE DEF e
<1>4. e \in Seq(Bytes) /\ Len(e) = 1 + Len(w) /\ Len(e) \in Nat /\ Shows(src, 1, w)
  BY <1>1, <1>2, <1>3
<1>5. src = <<>> => Len(e) > Len(src)
  BY <1>1, <1>4
<1>6. ASSUME src # <<>>
      PROVE  /\ Len(src) >= 1 /\ src[1] = kind
             /\ Reads(Decoded(src, kind, ReadFields(src, Cursor(1), fs)), src, e,
                      [kind |-> kind, vals |-> vs])
  <2>1. Len(src) \in Nat /\ 1 <= Len(src)
    BY <1>6
  <2>2. src[1] = kind
    <3>1. 1 \in 1..Len(a) /\ 0 + 1 <= Len(src)
      BY <1>2, <2>1
    <3>2. src[0 + 1] = a[1]
      BY <1>3, <3>1 DEF Shows
    <3> QED BY <1>2, <3>2
  <2> DEFINE r == ReadFields(src, Cursor(1), fs)
  <2>3. /\ 1 + Len(w) <= Len(src) => r = [st |-> "ok", pos |-> 1 + Len(w), vals |-> vs]
        /\ 1 + Len(w) > Len(src) => r.st = "none"
    <3>1. Shows(src, 1, WriteFields(fs, vs)) /\ 1 \in Nat
      BY <1>4 DEF w
    <3> QED BY <2>1, <3>1, FieldsRead DEF w
  <2> HIDE DEF r
  <2>4. CASE Len(e) <= Len(src)
    <3>1. r = [st |-> "ok", pos |-> Len(e), vals |-> vs]
      BY <1>4, <2>3, <2>4
    <3>2. Decoded(src, kind, r) =
              [st |-> "item", item |-> [kind |-> kind, vals |-> vs],
               rest |-> SubSeq(src, Len(e) + 1, Len(src))]
      <4>1. r.st = "ok" /\ r.pos = Len(e) /\ r.vals = vs
        BY <3>1
      <4> QED BY <4>1 DEF Decoded
    <3>3. ~(Len(e) > Len(src))
      BY <1>4, <2>1, <2>4
    <3> QED BY <2>1, <2>2, <3>2, <3>3 DEF Reads, r
  <2>5. CASE Len(e) > Len(src)
    <3>1. r.st = "none"
      BY <1>4, <2>3, <2>5
    <3>2. Decoded(src, kind, r).st = "none"
      BY <3>1 DEF Decoded
    <3>3. ~(Len(e) <= Len(src))
      BY <1>4, <2>1, <2>5
    <3> QED BY <2>1, <2>2, <3>2, <3>3 DEF Reads, r
  <2> QED BY <1>4, <2>1, <2>4, <2>5
<1> QED BY <1>4, <1>5, <1>6 DEF e, w, a

LEMMA RequestKinds ==
    /\ {AddKind, RemoveKind, ListKind, ResetKind, ErrorKind} \subseteq Bytes
    /\ AddKind = 1 /\ RemoveKind = 2 /\ ListKind = 3 /\ ResetKind = 4
    /\ ErrorKind \notin {1, 2, 3, 4}
    /\ \A k \in {AddKind, RemoveKind, ListKind, ResetKind} : Len(RequestFields(k)) \in Nat
<1>1. /\ {AddKind, RemoveKind, ListKind, ResetKind, ErrorKind} \subseteq Bytes
      /\ AddKind = 1 /\ RemoveKind = 2 /\ ListKind = 3 /\ ResetKind = 4
      /\ ErrorKind \notin {1, 2, 3, 4}
  BY BaseFacts DEF AddKind, RemoveKind, ListKind, ResetKind, ErrorKind
<1>2. /\ RequestFields(1) = <<"str", "u32", "u16">> /\ RequestFields(2) = <<"str">>
      /\ RequestFields(4) = <<"str">> /\ RequestFields(3) = <<>>
  BY DEF RequestFields, AddKind, RemoveKind, ListKind, ResetKind
<1>3. /\ Len(RequestFields(1)) \in Nat /\ Len(RequestFields(2)) \in Nat
      /\ Len(RequestFields(3)) \in Nat /\ Len(RequestFields(4)) \in Nat
  BY <1>2
<1> QED BY <1>1, <1>3

\* The daemon reads the request the tool was started with: on a buffer that shows
\* its code, however little of it or however much behind it, DaemonRequestDecoder
\* asks for more bytes until all of it is there, then returns it with the rest.
THEOREM RequestRead ==
    ASSUME NEW m \in CliRequests, ~Unsendable(RequestFields(m.kind), m.vals),
           NEW src \in Seq(Bytes), Shows(src, 0, EncodeRequest(m))
    PROVE  Reads(DecodeRequest(src), src, EncodeRequest(m), m)
<1> DEFINE k == m.kind
           fs == RequestFields(k)
           e == EncodeRequest(m)
<1>1. /\ m = [kind |-> k, vals |-> m.vals] /\ Typed(fs, m.vals)
      /\ k \in {AddKind, RemoveKind, ListKind, ResetKind}
  BY CtlAssumption
<1>2. k \in Bytes /\ Len(fs) \in Nat
  BY <1>1, RequestKinds
<1>3. e = <<k>> \o WriteFields(fs, m.vals)
  BY DEF EncodeRequest
<1>4. /\ src = <<>> => Len(e) > Len(src)
      /\ src # <<>> => /\ src[1] = k
                       /\ Reads(Decoded(src, k, ReadFields(src, Cursor(1), fs)), src, e,
                                [kind |-> k, vals |-> m.vals])
  <2>1. Shows(src, 0, <<k>> \o WriteFields(fs, m.vals))
    BY <1>3
  <2> HIDE DEF k, e
  <2>2. ~Unsendable(fs, m.vals) /\ Typed(fs, m.vals) /\ Len(fs) \in Nat /\ k \in Bytes
    BY <1>1, <1>2 DEF k
  <2> HIDE DEF fs
  <2> QED BY <1>3, <2>1, <2>2, KindRead
<1>5. CASE src = <<>>
  <2>1. DecodeRequest(src).st = "none"
    BY <1>5 DEF DecodeRequest, NoItem
  <2>2. Len(src) = 0 /\ Len(e) > 0
    BY <1>4, <1>5
  <2>3. ~(Len(e) <= Len(src))
    <3>1. e \in Seq(Bytes)
      <4>1. WriteFields(fs, m.vals) \in Seq(Bytes)
        BY <1>1, <1>2, PartsType
      <4>2. <<k>> \in Seq(Bytes)
        BY <1>2
      <4> QED BY <1>3, <4>1, <4>2, ConcatProperties
    <3>2. Len(e) \in Nat
      BY <3>1
    <3> QED BY <2>2, <3>2
  <2> QED BY <2>1, <2>3 DEF Reads
<1>6. CASE src # <<>>
  <2>1. src[1] = k
    BY <1>4, <1>6
  <2>2. DecodeRequest(src) = Decoded(src, k, ReadFields(src, Cursor(1), fs))
    BY <1>1, <1>6, <2>1 DEF DecodeRequest
  <2> QED BY <1>1, <1>4, <1>6, <2>2
<1> QED BY <1>5, <1>6

\* The responses of the daemon.
ResponseOK(m) ==
    /\ m = [kind |-> m.kind, vals |-> m.vals]
    /\ \/ m.kind \in {AddKind, ErrorKind} /\ Typed(<<"str">>, m.vals)
       \/ m.kind \in {RemoveKind, ResetKind} /\ m.vals = <<>>
       \/ /\ m.kind = ListKind /\ Fits("u16", m.vals[1])
          /\ m.vals[1] = Len(m.vals) \div Len(InfoFields)
          /\ Typed(ListFields(m.vals[1]), m.vals)

LEMMA OneString ==
    ASSUME NEW s, Fits("str", s)
    PROVE  Typed(<<"str">>, <<s>>)
<1>1. Len(<<"str">>) = 1 /\ \A i \in 1..1 : i = 1
  OBVIOUS
<1>2. <<s>> = [i \in 1..1 |-> <<s>>[i]]
  OBVIOUS
<1> QED BY <1>1, <1>2 DEF Typed

LEMMA ErrorTextOK ==
    ASSUME NEW name, Fits("str", name)
    PROVE  ResponseOK(ErrorText(name))
<1> DEFINE z == [i \in 1..TextLen |-> 0]
           s == name \o z
           m == ErrorText(name)
<1>1. name \in Seq(Bytes) /\ Utf8(name)
  BY WidthFacts DEF Fits
<1>2. z \in Seq(Bytes) /\ Len(z) = TextLen /\ \A i \in 1..TextLen : z[i] = 0
  BY CtlAssumption, BaseFacts
<1>m. m = [kind |-> ErrorKind, vals |-> <<s>>]
  BY DEF ErrorText
<1> HIDE DEF z
<1>3. /\ s \in Seq(Bytes) /\ Len(s) = Len(name) + Len(z)
      /\ \A i \in 1..(Len(name) + Len(z)) :
             s[i] = IF i <= Len(name) THEN name[i] ELSE z[i - Len(name)]
  BY <1>1, <1>2, ConcatProperties
<1> HIDE DEF s
<1>4. Utf8(s)
  <2>1. ASSUME NEW i \in 1..Len(s) PROVE s[i] # Max8
    <3>0. Len(name) \in Nat /\ Len(z) \in Nat
      BY <1>1, <1>2
    <3>1. CASE i <= Len(name)
      <4>1. i \in 1..Len(name) /\ s[i] = name[i]
        BY <1>3, <3>0, <3>1
      <4> QED BY <1>1, <4>1 DEF Utf8
    <3>2. CASE ~(i <= Len(name))
      <4>1. i - Len(name) \in 1..TextLen /\ s[i] = z[i - Len(name)]
        BY <1>2, <1>3, <3>0, <3>2
      <4>2. s[i] = 0
        BY <1>2, <4>1
      <4> QED BY <4>2, BaseFacts
    <3> QED BY <3>1, <3>2
  <2> QED BY <2>1 DEF Utf8
<1>5. Fits("str", s)
  BY <1>3, <1>4 DEF Fits
<1>6. Typed(<<"str">>, <<s>>)
  BY <1>5, OneString
<1>7. m.kind = ErrorKind /\ m.vals = <<s>> /\ m = [kind |-> m.kind, vals |-> m.vals]
  BY <1>m
<1> HIDE DEF m
<1>8. ResponseOK(m)
  BY <1>6, <1>7 DEF ResponseOK
<1> QED BY <1>8 DEF m

\* Whatever the main loop answers is a response.
LEMMA AnswersOK ==
    ASSUME NEW r \in CliRequests, NEW v \in Answers(r) \cup {ErrorText(<<>>)}
    PROVE  ResponseOK(v)
<1>1. /\ r.kind \in {AddKind, RemoveKind, ListKind, ResetKind}
      /\ Typed(RequestFields(r.kind), r.vals)
  BY CtlAssumption
<1>2. r.kind # ListKind => Fits("str", r.vals[1])
  <2>1. ASSUME r.kind # ListKind
        PROVE  Len(RequestFields(r.kind)) \in Nat \ {0} /\ RequestFields(r.kind)[1] = "str"
    <3>1. r.kind \in {1, 2, 4}
      BY <1>1, <2>1, RequestKinds
    <3>2. /\ RequestFields(1) = <<"str", "u32", "u16">> /\ RequestFields(2) = <<"str">>
          /\ RequestFields(4) = <<"str">>
      BY DEF RequestFields, AddKind, RemoveKind, ListKind, ResetKind
    <3>3. /\ Len(<<"str", "u32", "u16">>) = 3 /\ <<"str", "u32", "u16">>[1] = "str"
          /\ Len(<<"str">>) = 1 /\ <<"str">>[1] = "str" /\ {1, 3} \subseteq Nat \ {0}
      OBVIOUS
    <3>4. r.kind = 1 \/ r.kind = 2 \/ r.kind = 4
      BY <3>1
    <3> QED BY <3>2, <3>3, <3>4, Zenon
  <2>2. ASSUME r.kind # ListKind PROVE Fits("str", r.vals[1])
    <3>1. 1 \in 1..Len(RequestFields(r.kind))
      BY <2>1, <2>2
    <3> QED BY <1>1, <2>1, <2>2, <3>1 DEF Typed
  <2> QED BY <2>2
<1>3. Fits("str", <<>>)
  BY DEF Fits, Utf8
<1>4. CASE v = ErrorText(<<>>)
  BY <1>3, <1>4, ErrorTextOK
<1>5. CASE v = ErrorText(r.vals[1]) /\ r.kind # ListKind
  BY <1>2, <1>5, ErrorTextOK
<1>6. CASE r.kind = AddKind /\ v \in {[kind |-> AddKind, vals |-> <<p>>] : p \in Paths}
  <2>1. PICK p \in Paths : v = [kind |-> AddKind, vals |-> <<p>>]
    BY <1>6
  <2>2. Typed(<<"str">>, <<p>>)
    BY CtlAssumption, OneString
  <2>3. v.kind = AddKind /\ v.vals = <<p>> /\ v = [kind |-> v.kind, vals |-> v.vals]
    BY <2>1
  <2> QED BY <2>2, <2>3 DEF ResponseOK
<1>7. CASE r.kind = ListKind /\ v \in {[kind |-> ListKind, vals |-> l] : l \in ListedInfos}
  <2>1. PICK l \in ListedInfos : v = [kind |-> ListKind, vals |-> l]
    BY <1>7
  <2>2. /\ Fits("u16", l[1]) /\ l[1] = Len(l) \div Len(InfoFields)
        /\ Typed(ListFields(l[1]), l)
    BY CtlAssumption
  <2>3. v.kind = ListKind /\ v.vals = l /\ v = [kind |-> v.kind, vals |-> v.vals]
    BY <2>1
  <2> QED BY <2>2, <2>3 DEF ResponseOK
<1>8. CASE r.kind \in {RemoveKind, ResetKind} /\ v = [kind |-> r.kind, vals |-> <<>>]
  <2>1. v.kind \in {RemoveKind, ResetKind} /\ v.vals = <<>>
        /\ v = [kind |-> v.kind, vals |-> v.vals]
    BY <1>8
  <2> QED BY <2>1 DEF ResponseOK
<1>9. \/ v = ErrorText(<<>>)
      \/ v = ErrorText(r.vals[1]) /\ r.kind # ListKind
      \/ r.kind = AddKind /\ v \in {[kind |-> AddKind, vals |-> <<p>>] : p \in Paths}
      \/ r.kind = ListKind /\ v \in {[kind |-> ListKind, vals |-> l] : l \in ListedInfos}
      \/ r.kind \in {RemoveKind, ResetKind} /\ v = [kind |-> r.kind, vals |-> <<>>]
  <2>1. CASE r.kind = AddKind
    <3>1. Answers(r) = {[kind |-> AddKind, vals |-> <<p>>] : p \in Paths}
                       \cup {ErrorText(r.vals[1]), ErrorText(<<>>)}
      BY <2>1, RequestKinds DEF Answers
    <3>2. r.kind # ListKind
      BY <2>1, RequestKinds
    <3> QED BY <2>1, <3>1, <3>2
  <2>2. CASE r.kind = ListKind
    <3>1. Answers(r) = {[kind |-> ListKind, vals |-> l] : l \in ListedInfos}
      BY <2>2, RequestKinds DEF Answers
    <3> QED BY <2>2, <3>1
  <2>3. CASE r.kind \in {RemoveKind, ResetKind}
    <3>1. r.kind # AddKind /\ r.kind # ListKind
      BY <2>3, RequestKinds
    <3>2. Answers(r) = {[kind |-> r.kind, vals |-> <<>>], ErrorText(r.vals[1])}
      BY <3>1 DEF Answers
    <3> QED BY <2>3, <3>1, <3>2
  <2> QED BY <1>1, <2>1, <2>2, <2>3
<1> QED BY <1>4, <1>5, <1>6, <1>7, <1>8, <1>9

\* The fields of a list with n entries.
LEMMA ListFieldsType ==
    ASSUME NEW n \in Nat
    PROVE  Len(ListFields(n)) \in Nat /\ Len(ListFields(n)) >= 1 /\ ListFields(n)[1] = "u16"
<1> DEFINE a == <<"u16">>
           es == [i \in 1..n |-> InfoFields]
           f == FlattenSeq(es)
           Types == {"u16", "str", "u32", "bool"}
<1>0. {"u16", "str", "u32", "bool"} \subseteq Types
  OBVIOUS
<1>1. a \in Seq(Types) /\ Len(a) = 1 /\ a[1] = "u16"
  OBVIOUS
<1>2. InfoFields \in Seq(Types)
  BY DEF InfoFields
<1>3. es \in Seq(Seq(Types))
  BY <1>2
<1>4. ListFields(n) = a \o f
  BY DEF ListFields
<1> HIDE DEF es, Types
<1>5. f \in Seq(Types)
  BY <1>3, FlattenType
<1> HIDE DEF a, f
<1>6. /\ Len(a \o f) = Len(a) + Len(f) /\ Len(f) \in Nat
      /\ \A i \in 1..(Len(a) + Len(f)) : (a \o f)[i] = IF i <= Len(a) THEN a[i] ELSE f[i - Len(a)]
  <2>1. a \in Seq(Types) /\ f \in Seq(Types)
    BY <1>1, <1>5
  <2>2. Len(f) \in Nat
    BY <2>1, LenProperties
  <2> QED BY <2>1, <2>2, ConcatProperties
<1>7. 1 \in 1..(Len(a) + Len(f)) /\ 1 <= Len(a)
  BY <1>1, <1>6
<1>8. (a \o f)[1] = "u16"
  BY <1>1, <1>6, <1>7
<1> QED BY <1>1, <1>4, <1>6, <1>8

\* The count of a list is there before the list is, and says how many follow.
LEMMA CountRead ==
    ASSUME NEW vs, Fits("u16", vs[1]), Typed(ListFields(vs[1]), vs),
           ~Unsendable(ListFields(vs[1]), vs), NEW src \in Seq(Bytes), Len(src) >= 1,
           Shows(src, 1, WriteFields(ListFields(vs[1]), vs))
    PROVE  LET c == ReadFields(src, Cursor(1), <<"u16">>) IN
           /\ c.st = "ok" => c.vals[1] = vs[1]
           /\ c.st # "ok" => 1 + Len(WriteFields(ListFields(vs[1]), vs)) > Len(src)
<1> DEFINE n == vs[1]
           fs == ListFields(n)
           ws == Parts(fs, vs)
           w == WriteFields(fs, vs)
           h == Written("u16", n)
           c == ReadFields(src, Cursor(1), <<"u16">>)
<1>1. n \in Nat
  <2>1. n \in 0..(B * Weight[Width["u16"]] - 1)
    BY DEF Fits
  <2> QED BY <2>1
<1>2. Len(fs) \in Nat /\ Len(fs) >= 1 /\ fs[1] = "u16"
  BY <1>1, ListFieldsType
<1> HIDE DEF n, fs
<1>3. /\ ws \in Seq(Seq(Bytes)) /\ Len(ws) = Len(fs) /\ ws[1] = h
      /\ w = FlattenSeq(ws) /\ w \in Seq(Bytes)
  <2>1. Typed(fs, vs) /\ ~Unsendable(fs, vs) /\ 1 \in 1..Len(fs)
    BY <1>2 DEF fs, n
  <2>2. /\ ws \in Seq(Seq(Bytes)) /\ Len(ws) = Len(fs)
        /\ \A i \in 1..Len(fs) : ws[i] = Written(fs[i], vs[i])
        /\ w = FlattenSeq(ws) /\ w \in Seq(Bytes)
    BY <1>2, <2>1, PartsType
  <2> QED BY <1>2, <2>1, <2>2 DEF n
<1> HIDE DEF ws, w
<1>4. ws # <<>> /\ Head(ws) = h /\ Tail(ws) \in Seq(Seq(Bytes))
  BY <1>2, <1>3
<1> DEFINE t == FlattenSeq(Tail(ws))
<1>5. t \in Seq(Bytes) /\ w = h \o t
  <2>1. FlattenSeq(ws) = Head(ws) \o FlattenSeq(Tail(ws))
    BY <1>3, <1>4, FlattenHead
  <2>2. t \in Seq(Bytes)
    BY <1>4, FlattenType
  <2> QED BY <1>3, <1>4, <2>1, <2>2
<1> HIDE DEF t
<1>6. h \in Seq(Bytes)
  <2>1. Fits("u16", n) /\ ~TooLong("u16", n)
    BY DEF n, TooLong
  <2> QED BY <2>1, WrittenType
<1>7. Len(w) = Len(h) + Len(t) /\ Shows(src, 1, h) /\ Len(h) \in Nat /\ Len(t) \in Nat
  <2>1. Shows(src, 1, w)
    BY DEF w, fs, n
  <2> HIDE DEF h
  <2> QED BY <1>5, <1>6, <2>1, ConcatProperties, ShowsConcat
<1>8. WriteFields(<<"u16">>, <<n>>) = h
  <2> DEFINE x == <<"u16">>
             y == <<n>>
             ps == [i \in 1..Len(x) |-> Written(x[i], y[i])]
  <2>1. Len(x) = 1 /\ x[1] = "u16" /\ y[1] = n
    OBVIOUS
  <2>2. ps = <<h>>
    BY <2>1
  <2>3. WriteFields(x, y) = FlattenSeq(ps)
    BY DEF WriteFields
  <2> HIDE DEF ps, h
  <2>4. /\ <<h>> \in Seq(Seq(Bytes)) /\ <<h>> # <<>> /\ Head(<<h>>) = h /\ Tail(<<h>>) = <<>>
    BY <1>6
  <2>5. FlattenSeq(<<h>>) = h \o FlattenSeq(<<>>)
    BY <2>4, FlattenHead
  <2>6. h \o <<>> = h
    BY <1>6, ConcatEmptySeq
  <2> QED BY <2>2, <2>3, <2>5, <2>6, FlattenEmpty
<1>9. /\ 1 + Len(h) <= Len(src) => c = [st |-> "ok", pos |-> 1 + Len(h), vals |-> <<n>>]
      /\ 1 + Len(h) > Len(src) => c.st = "none"
  <2> DEFINE x == <<"u16">>
             y == <<n>>
  <2>1. Len(x) = 1 /\ x[1] = "u16" /\ y[1] = n /\ \A i \in 1..1 : i = 1
    OBVIOUS
  <2>2. y = [i \in 1..1 |-> y[i]] /\ Fits("u16", n)
    BY DEF n
  <2>3. Typed(x, y) /\ ~Unsendable(x, y)
    BY <2>1, <2>2 DEF Typed, Unsendable, TooLong
  <2>4. Shows(src, 1, WriteFields(x, y)) /\ 1 \in Nat /\ Len(x) \in Nat /\ 1 <= Len(src)
    BY <1>7, <1>8
  <2> HIDE DEF x, y
  <2>5. /\ 1 + Len(WriteFields(x, y)) <= Len(src) =>
               ReadFields(src, Cursor(1), x)
               = [st |-> "ok", pos |-> 1 + Len(WriteFields(x, y)), vals |-> y]
        /\ 1 + Len(WriteFields(x, y)) > Len(src) => ReadFields(src, Cursor(1), x).st = "none"
    BY <2>3, <2>4, FieldsRead
  <2> QED BY <1>8, <2>5 DEF x, y
<1> HIDE DEF c, h
<1>10. CASE 1 + Len(h) <= Len(src)
  <2>1. c.st = "ok" /\ c.vals[1] = n
    BY <1>9, <1>10
  <2> QED BY <2>1 DEF c, n
<1>11. CASE 1 + Len(h) > Len(src)
  <2>1. c.st = "none" /\ 1 + Len(w) > Len(src)
    BY <1>7, <1>9, <1>11
  <2> QED BY <2>1 DEF c, w, fs, n
<1> QED BY <1>7, <1>10, <1>11

\* The tool reads the response the daemon wrote, a list of any length included:
\* DaemonResponseDecoder inverts every response its encoder accepts, and never
\* takes a part of one for an error.
THEOREM ResponseRead ==
    ASSUME NEW m, ResponseOK(m), ~Unsendable(ResponseFields(m), m.vals),
           NEW src \in Seq(Bytes), Shows(src, 0, EncodeResponse(m))
    PROVE  /\ EncodeResponse(m) \in Seq(Bytes) /\ EncodeResponse(m) # <<>>
           /\ Reads(DecodeResponse(src), src, EncodeResponse(m), m)
<1> DEFINE k == m.kind
           fs == ResponseFields(m)
           e == EncodeResponse(m)
           n == m.vals[1]
<1>1. k \in {AddKind, ErrorKind, RemoveKind, ResetKind, ListKind} /\ k \in Bytes
  BY RequestKinds DEF ResponseOK
<1>2. /\ k \in {AddKind, ErrorKind} => fs = <<"str">>
      /\ k \in {RemoveKind, ResetKind} => fs = <<>>
      /\ k = ListKind => fs = ListFields(n)
  <2>0. k = AddKind \/ k = ErrorKind =>
            k \notin {RemoveKind, ResetKind} /\ k # ListKind
    BY RequestKinds
  <2>1. ASSUME k \in {AddKind, ErrorKind} PROVE fs = <<"str">>
    <3>1. k \notin {RemoveKind, ResetKind} /\ k # ListKind
      BY <2>0, <2>1
    <3> QED BY <2>1, <3>1 DEF ResponseFields
  <2>2. ASSUME k \in {RemoveKind, ResetKind} PROVE fs = <<>>
    <3>1. k \notin {AddKind, ErrorKind} /\ k # ListKind
      BY <2>2, RequestKinds
    <3> QED BY <2>2, <3>1 DEF ResponseFields
  <2>3. ASSUME k = ListKind PROVE fs = ListFields(n)
    <3>1. n = Len(m.vals) \div Len(InfoFields)
      BY <2>3, RequestKinds DEF ResponseOK
    <3>2. fs = ListFields(Len(m.vals) \div Len(InfoFields))
      BY <2>3, RequestKinds DEF ResponseFields
    <3> QED BY <3>1, <3>2
  <2> QED BY <2>1, <2>2, <2>3
<1>3. Typed(fs, m.vals) /\ Len(fs) \in Nat
  <2>1. CASE k \in {AddKind, ErrorKind}
    <3>1. Typed(<<"str">>, m.vals)
      BY <2>1, RequestKinds DEF ResponseOK
    <3>2. Len(<<"str">>) \in Nat
      OBVIOUS
    <3> QED BY <1>2, <2>1, <3>1, <3>2
  <2>2. CASE k \in {RemoveKind, ResetKind}
    <3>1. m.vals = <<>>
      BY <2>2, RequestKinds DEF ResponseOK
    <3>2. Typed(<<>>, <<>>) /\ Len(<<>>) \in Nat
      BY DEF Typed
    <3> QED BY <1>2, <2>2, <3>1, <3>2
  <2>3. CASE k = ListKind
    <3>1. Typed(ListFields(n), m.vals) /\ Fits("u16", n)
      BY <2>3, RequestKinds DEF ResponseOK
    <3>2. n \in Nat
      BY <3>1 DEF Fits
    <3>3. Len(ListFields(n)) \in Nat
      BY <3>2, ListFieldsType
    <3> QED BY <1>2, <2>3, <3>1, <3>3
  <2> QED BY <1>1, <2>1, <2>2, <2>3
<1>4. e = <<k>> \o WriteFields(fs, m.vals)
  BY DEF EncodeResponse
<1>m. m = [kind |-> k, vals |-> m.vals]
  BY DEF ResponseOK
<1>5. /\ e \in Seq(Bytes) /\ Len(e) = 1 + Len(WriteFields(fs, m.vals))
      /\ src = <<>> => Len(e) > Len(src)
      /\ src # <<>> => /\ Len(src) >= 1 /\ src[1] = k /\ Shows(src, 1, WriteFields(fs, m.vals))
                       /\ Reads(Decoded(src, k, ReadFields(src, Cursor(1), fs)), src, e,
                                [kind |-> k, vals |-> m.vals])
  <2>1. Shows(src, 0, <<k>> \o WriteFields(fs, m.vals))
    BY <1>4
  <2>2. ~Unsendable(fs, m.vals)
    OBVIOUS
  <2> HIDE DEF k, e, fs
  <2> QED BY <1>1, <1>3, <1>4, <2>1, <2>2, KindRead
<1>6. e # <<>> /\ Len(e) \in Nat
  <2>1. Len(WriteFields(fs, m.vals)) \in Nat
    <3>1. WriteFields(fs, m.vals) \in Seq(Nat)
      BY <1>3, PartsType
    <3> QED BY <3>1
  <2>2. Len(e) # 0 /\ Len(e) \in Nat
    BY <1>5, <2>1
  <2> HIDE DEF e
  <2> QED BY <1>5, <2>2
<1>7. CASE src = <<>>
  <2>1. DecodeResponse(src).st = "none"
    BY <1>7 DEF DecodeResponse, NoItem
  <2>2. ~(Len(e) <= Len(src))
    BY <1>5, <1>6, <1>7
  <2> QED BY <1>5, <1>6, <2>1, <2>2 DEF Reads
<1>8. CASE src # <<>>
  <2>1. src[1] = k /\ Reads(Decoded(src, k, ReadFields(src, Cursor(1), fs)), src, e, m)
    BY <1>5, <1>8, <1>m
  <2>2. CASE k \in {AddKind, ErrorKind}
    <3>1. DecodeResponse(src) = Decoded(src, k, ReadFields(src, Cursor(1), fs))
      <4>1. src[1] \notin {RemoveKind, ResetKind} /\ src[1] # ListKind
        BY <2>1, <2>2, RequestKinds
      <4> QED BY <1>2, <1>8, <2>1, <2>2, <4>1 DEF DecodeResponse
    <3> QED BY <1>5, <1>6, <2>1, <3>1
  <2>3. CASE k \in {RemoveKind, ResetKind}
    <3>1. DecodeResponse(src) = Decoded(src, k, Cursor(1))
      BY <1>8, <2>1, <2>3, RequestKinds DEF DecodeResponse
    <3>2. ReadFields(src, Cursor(1), fs) = Cursor(1)
      BY <1>2, <2>3, NoFields
    <3> QED BY <1>5, <1>6, <2>1, <3>1, <3>2
  <2>4. CASE k = ListKind
    <3> DEFINE c == ReadFields(src, Cursor(1), <<"u16">>)
    <3>1. DecodeResponse(src) = DecodeList(src)
      BY <1>8, <2>1, <2>4, RequestKinds DEF DecodeResponse
    <3>2. /\ c.st = "ok" => c.vals[1] = n
          /\ c.st # "ok" => 1 + Len(WriteFields(ListFields(n), m.vals)) > Len(src)
      <4>1. Fits("u16", n)
        BY <2>4, RequestKinds DEF ResponseOK
      <4>2. /\ Typed(ListFields(n), m.vals) /\ ~Unsendable(ListFields(n), m.vals)
            /\ Len(src) >= 1 /\ Shows(src, 1, WriteFields(ListFields(n), m.vals))
        BY <1>2, <1>3, <1>5, <1>8, <2>4
      <4> QED BY <4>1, <4>2, CountRead
    <3>3. CASE c.st = "ok"
      <4>1. DecodeList(src) = Decoded(src, ListKind, ReadFields(src, Cursor(1), ListFields(n)))
        BY <3>2, <3>3 DEF DecodeList
      <4> QED BY <1>2, <1>5, <1>6, <2>1, <2>4, <3>1, <4>1
    <3>4. CASE c.st # "ok"
      <4>1. DecodeList(src) = NoItem
        BY <3>4 DEF DecodeList
      <4>2. Len(e) > Len(src)
        BY <1>2, <1>5, <2>4, <3>2, <3>4
      <4>3. ~(Len(e) <= Len(src))
        BY <1>6, <4>2
      <4>4. DecodeResponse(src).st = "none"
        BY <3>1, <4>1 DEF NoItem
      <4> QED BY <1>5, <1>6, <4>2, <4>3, <4>4 DEF Reads
    <3> QED BY <3>3, <3>4
  <2> QED BY <1>1, <2>2, <2>3, <2>4
<1> QED BY <1>7, <1>8

\* What a request is on the wire.
LEMMA RequestType ==
    ASSUME NEW m \in CliRequests
    PROVE  /\ EncodeRequest(m) \in Seq(Nat) /\ EncodeRequest(m) # <<>>
           /\ ~Unsendable(RequestFields(m.kind), m.vals) => EncodeRequest(m) \in Seq(Bytes)
<1> DEFINE k == m.kind
           fs == RequestFields(k)
           w == WriteFields(fs, m.vals)
           a == <<k>>
<1>1. Typed(fs, m.vals) /\ k \in {AddKind, RemoveKind, ListKind, ResetKind}
  BY CtlAssumption
<1>2. k \in Bytes /\ k \in Nat /\ Len(fs) \in Nat
  BY <1>1, RequestKinds, BaseFacts
<1>3. w \in Seq(Nat) /\ (~Unsendable(fs, m.vals) => w \in Seq(Bytes))
  BY <1>1, <1>2, PartsType
<1>4. a \in Seq(Nat) /\ a \in Seq(Bytes) /\ Len(a) = 1
  BY <1>2
<1>5. EncodeRequest(m) = a \o w
  BY DEF EncodeRequest
<1> HIDE DEF a, w
<1>6. a \o w \in Seq(Nat) /\ Len(a \o w) = 1 + Len(w) /\ Len(w) \in Nat
  <2>1. Len(w) \in Nat
    BY <1>3
  <2>2. a \o w \in Seq(Nat) /\ Len(a \o w) = Len(a) + Len(w)
    BY <1>3, <1>4, ConcatProperties
  <2> QED BY <1>4, <2>1, <2>2
<1>7. a \o w # <<>>
  BY <1>6
<1>8. ASSUME w \in Seq(Bytes) PROVE a \o w \in Seq(Bytes)
  BY <1>4, <1>8, ConcatProperties
<1> QED BY <1>3, <1>5, <1>6, <1>7, <1>8

-------------------------------------------------------------------------------
(* The device protocol *)

\* The messages of the device protocol.
DeviceOK(m) ==
    /\ m = [kind |-> m.kind, vals |-> m.vals]
    /\ \/ m.kind = DataKind /\ m.vals \in Seq(Bytes) /\ Len(m.vals) <= Max8
       \/ /\ m.kind \in {ConfigKind, ControlReqKind, ControlResKind}
          /\ Typed(DeviceFields(m.kind), m.vals)

LEMMA DeviceKinds ==
    /\ DataKind = 1 /\ ConfigKind = 2 /\ ControlReqKind = 3 /\ ControlResKind = 4
    /\ {1, 2, 3, 4} \subseteq Bytes
    /\ DeviceFields(2) = <<"u32", "u8", "u8", "u8", "bool">>
    /\ DeviceFields(3) = <<"creq">> /\ DeviceFields(4) = <<"cres">>
<1>1. DataKind = 1 /\ ConfigKind = 2 /\ ControlReqKind = 3 /\ ControlResKind = 4
  BY DEF DataKind, ConfigKind, ControlReqKind, ControlResKind
<1>2. {1, 2, 3, 4} \subseteq Bytes
  BY BaseFacts
<1> QED BY <1>1, <1>2 DEF DeviceFields

\* Fields without a string are never too long, and have their width.
LEMMA PlainFields ==
    ASSUME NEW fs, NEW vs, Len(fs) \in Nat, Typed(fs, vs), \A i \in 1..Len(fs) : fs[i] # "str"
    PROVE  /\ ~Unsendable(fs, vs)
           /\ \A i \in 1..Len(fs) : Len(Parts(fs, vs)[i]) = Width[fs[i]]
<1>1. ~Unsendable(fs, vs)
  BY DEF Unsendable, TooLong
<1>2. ASSUME NEW i \in 1..Len(fs) PROVE Len(Parts(fs, vs)[i]) = Width[fs[i]]
  <2> DEFINE f == fs[i]
             v == vs[i]
  <2>1. f \in DOMAIN Width /\ v \in 0..(B * Weight[Width[f]] - 1)
    BY DEF Typed, Fits
  <2>2. Width[f] \in {1, 2, 4} /\ v \in Nat /\ f # "str"
    BY <2>1, WidthFacts
  <2>3. Parts(fs, vs)[i] = BigEndian(v, Width[f])
    BY <2>2 DEF Parts, Written
  <2> QED BY <2>2, <2>3, BigEndianType
<1> QED BY <1>1, <1>2

LEMMA FlattenOne ==
    ASSUME NEW X, NEW ps \in Seq(Seq(X)), Len(ps) = 1
    PROVE  FlattenSeq(ps) = ps[1]
<1>0. Len(ps) \in Nat /\ Len(ps) # 0
  OBVIOUS
<1>1. PICK f : Flattens(f, ps, Len(ps))
  BY <1>0, FlattensExists
<1>2. f[1] = ps[1]
  BY <1>0, <1>1, FlattensFirst
<1>3. FlattenSeq(ps) = f[Len(ps)]
  BY <1>0, <1>1, FlattenSeqIs
<1> QED BY <1>2, <1>3

LEMMA FlattenFive ==
    ASSUME NEW X, NEW ps \in Seq(Seq(X)), Len(ps) = 5
    PROVE  Len(FlattenSeq(ps)) =
               Len(ps[1]) + Len(ps[2]) + Len(ps[3]) + Len(ps[4]) + Len(ps[5])
<1>0. 5 \in Nat /\ 5 # 0 /\ 5 <= Len(ps) /\ Len(ps) \in Nat
  OBVIOUS
<1>1. PICK f : Flattens(f, ps, 5)
  BY FlattensExists
<1>2. f[1] = ps[1]
  BY <1>1, FlattensFirst
<1>3. \A i \in 1..5 : f[i] \in Seq(X)
  BY <1>0, <1>1, FlattensType
<1>4. \A i \in 1..5 : ps[i] \in Seq(X) /\ Len(ps[i]) \in Nat
  <2>1. \A i \in 1..Len(ps) : ps[i] \in Seq(X)
    BY ElementOfSeq
  <2>2. \A s \in Seq(X) : Len(s) \in Nat
    OBVIOUS
  <2> QED BY <2>1, <2>2
<1>5. ASSUME NEW i \in {1, 2, 3, 4} PROVE Len(f[i + 1]) = Len(f[i]) + Len(ps[i + 1])
  <2>1. i \in Nat /\ i # 0 /\ i < 5 /\ i \in 1..5 /\ i + 1 \in 1..5
    OBVIOUS
  <2>2. f[i + 1] = f[i] \o ps[i + 1]
    <3>1. Grows(f, ps, 5)
      BY <1>1, FlattensStep
    <3> QED BY <2>1, <3>1 DEF Grows
  <2>3. f[i] \in Seq(X) /\ ps[i + 1] \in Seq(X)
    BY <1>3, <1>4, <2>1
  <2> QED BY <2>2, <2>3, ConcatProperties
<1>6. /\ Len(f[2]) = Len(f[1]) + Len(ps[2]) /\ Len(f[3]) = Len(f[2]) + Len(ps[3])
      /\ Len(f[4]) = Len(f[3]) + Len(ps[4]) /\ Len(f[5]) = Len(f[4]) + Len(ps[5])
  <2>1. 1 + 1 = 2 /\ 2 + 1 = 3 /\ 3 + 1 = 4 /\ 4 + 1 = 5
    OBVIOUS
  <2> QED BY <1>5, <2>1
<1>7. FlattenSeq(ps) = f[5]
  <2>1. Flattens(f, ps, Len(ps)) /\ Len(ps) # 0
    BY <1>1
  <2>2. FlattenSeq(ps) = f[Len(ps)]
    BY <1>0, <2>1, FlattenSeqIs
  <2> QED BY <2>2
<1> QED BY <1>2, <1>4, <1>6, <1>7

\* The body of a message, and that its length fits the header.
LEMMA BodyType ==
    ASSUME NEW m, DeviceOK(m)
    PROVE  /\ m.kind \in {1, 2, 3, 4} /\ Body(m) \in Seq(Bytes) /\ Len(Body(m)) \in Bytes
           /\ m.kind = 1 => Body(m) = m.vals
           /\ m.kind # 1 => /\ Len(DeviceFields(m.kind)) \in Nat
                            /\ Typed(DeviceFields(m.kind), m.vals)
                            /\ ~Unsendable(DeviceFields(m.kind), m.vals)
                            /\ Body(m) = WriteFields(DeviceFields(m.kind), m.vals)
                            /\ Len(Body(m)) = IF m.kind = 2 THEN 8 ELSE 1
<1> DEFINE k == m.kind
           fs == DeviceFields(k)
           vs == m.vals
           w == WriteFields(fs, vs)
           ps == Parts(fs, vs)
<1>1. CASE k = 1
  <2>1. vs \in Seq(Bytes) /\ Len(vs) <= Max8
    BY <1>1, DeviceKinds DEF DeviceOK
  <2>2. Body(m) = vs
    BY <1>1, DeviceKinds DEF Body
  <2>3. Len(vs) \in Bytes
    BY <2>1, BaseFacts
  <2> QED BY <1>1, <2>1, <2>2, <2>3
<1>2. CASE k # 1
  <2>1. k \in {2, 3, 4} /\ Typed(fs, vs)
    BY <1>2, DeviceKinds DEF DeviceOK
  <2>2. Body(m) = w
    BY <1>2, DeviceKinds DEF Body
  <2>4. /\ Len(fs) \in Nat /\ (k = 2 => Len(fs) = 5) /\ (k # 2 => Len(fs) = 1)
        /\ \A i \in 1..Len(fs) : fs[i] # "str"
    <3>1. CASE k = 2
      <4>1. fs = <<"u32", "u8", "u8", "u8", "bool">>
        BY <3>1, DeviceKinds
      <4>2. Len(fs) = 5 /\ \A i \in 1..5 : i \in {1, 2, 3, 4, 5}
        BY <4>1
      <4> QED BY <3>1, <4>1, <4>2
    <3>2. CASE k = 3 \/ k = 4
      <4>1. fs = <<"creq">> \/ fs = <<"cres">>
        BY <3>2, DeviceKinds
      <4>2. Len(fs) = 1 /\ \A i \in 1..1 : i = 1
        BY <4>1
      <4> QED BY <3>2, <4>1, <4>2
    <3> QED BY <2>1, <3>1, <3>2
  <2>5. ~Unsendable(fs, vs) /\ \A i \in 1..Len(fs) : Len(ps[i]) = Width[fs[i]]
    <3> HIDE DEF fs, vs
    <3> QED BY <2>1, <2>4, PlainFields
  <2>6. ps \in Seq(Seq(Bytes)) /\ Len(ps) = Len(fs) /\ w = FlattenSeq(ps) /\ w \in Seq(Bytes)
    <3> HIDE DEF fs, vs
    <3> QED BY <2>1, <2>4, <2>5, PartsType
  <2>7. CASE k = 2
    <3>1. Len(w) = Len(ps[1]) + Len(ps[2]) + Len(ps[3]) + Len(ps[4]) + Len(ps[5])
      <4> HIDE DEF ps, w
      <4> QED BY <2>4, <2>6, <2>7, FlattenFive
    <3>2. fs = <<"u32", "u8", "u8", "u8", "bool">>
      BY <2>7, DeviceKinds
    <3>3. /\ Len(ps[1]) = Width["u32"] /\ Len(ps[2]) = Width["u8"] /\ Len(ps[3]) = Width["u8"]
          /\ Len(ps[4]) = Width["u8"] /\ Len(ps[5]) = Width["bool"]
      <4>0. Len(fs) = 5
        BY <2>4, <2>7
      <4>1. 1 \in 1..5 /\ 2 \in 1..5 /\ 3 \in 1..5 /\ 4 \in 1..5 /\ 5 \in 1..5
        OBVIOUS
      <4>2. /\ fs[1] = "u32" /\ fs[2] = "u8" /\ fs[3] = "u8" /\ fs[4] = "u8" /\ fs[5] = "bool"
        BY <3>2
      <4> HIDE DEF ps, fs
      <4> QED BY <2>5, <4>0, <4>1, <4>2
    <3>4. Len(w) = 8
      <4> HIDE DEF ps, w
      <4> QED BY <3>1, <3>3, WidthFacts
    <3>5. 8 \in Bytes
      BY BaseFacts
    <3> QED BY <1>2, <2>1, <2>2, <2>4, <2>5, <2>6, <2>7, <3>4, <3>5
  <2>8. CASE k # 2
    <3>1. w = ps[1]
      <4> HIDE DEF ps, w
      <4> QED BY <2>4, <2>6, <2>8, FlattenOne
    <3>2. fs[1] \in {"creq", "cres"} /\ 1 \in 1..Len(fs)
      <4>1. fs = <<"creq">> \/ fs = <<"cres">>
        BY <2>1, <2>8, DeviceKinds
      <4> QED BY <2>4, <2>8, <4>1
    <3>3. Len(w) = 1
      <4> HIDE DEF ps, w, fs
      <4> QED BY <2>5, <3>1, <3>2, WidthFacts
    <3>4. 1 \in Bytes
      BY BaseFacts
    <3> QED BY <1>2, <2>1, <2>2, <2>4, <2>5, <2>6, <2>8, <3>3, <3>4
  <2> QED BY <2>7, <2>8
<1> QED BY <1>1, <1>2

\* A message on the wire: two bytes of header and the body.
LEMMA EncodeType ==
    ASSUME NEW m, DeviceOK(m)
    PROVE  EncodeDevice(m) \in Seq(Bytes) /\ Len(EncodeDevice(m)) = 2 + Len(Body(m))
<1> DEFINE w == Body(m)
           a == <<m.kind, Len(w)>>
<1>1. m.kind \in Bytes /\ w \in Seq(Bytes) /\ Len(w) \in Bytes
  BY BodyType, DeviceKinds
<1>2. a \in Seq(Bytes) /\ Len(a) = 2
  BY <1>1
<1>3. EncodeDevice(m) = a \o w
  BY DEF EncodeDevice
<1> HIDE DEF a, w
<1>4. a \o w \in Seq(Bytes) /\ Len(a \o w) = Len(a) + Len(w)
  BY <1>1, <1>2, ConcatProperties
<1> QED BY <1>2, <1>3, <1>4 DEF w

LEMMA HeaderRead ==
    ASSUME NEW m, DeviceOK(m), NEW src \in Seq(Bytes), Shows(src, 0, EncodeDevice(m)),
           Len(src) >= 2
    PROVE  src[1] = m.kind /\ src[2] = Len(Body(m)) /\ Shows(src, 2, Body(m))
<1> DEFINE w == Body(m)
           a == <<m.kind, Len(w)>>
<1>1. m.kind \in Bytes /\ w \in Seq(Bytes) /\ Len(w) \in Bytes
  BY BodyType, DeviceKinds
<1>2. a \in Seq(Bytes) /\ Len(a) = 2 /\ a[1] = m.kind /\ a[2] = Len(w)
  BY <1>1
<1>3. Shows(src, 0, a \o w)
  BY DEF EncodeDevice
<1> HIDE DEF a
<1>4. Shows(src, 0, a) /\ Shows(src, 0 + Len(a), w)
  <2> HIDE DEF w
  <2> QED BY <1>1, <1>2, <1>3, ShowsConcat
<1>5. 1 \in 1..Len(a) /\ 2 \in 1..Len(a) /\ 0 + 1 = 1 /\ 0 + 2 = 2 /\ 0 + Len(a) = 2
  BY <1>2
<1>6. src[0 + 1] = a[1] /\ src[0 + 2] = a[2]
  <2>1. 0 + 1 <= Len(src) /\ 0 + 2 <= Len(src)
    OBVIOUS
  <2> QED BY <1>4, <1>5, <2>1 DEF Shows
<1> QED BY <1>2, <1>4, <1>5, <1>6

\* The header is not there, or the body is not: nothing is read.
LEMMA DeviceWaits ==
    ASSUME NEW m, DeviceOK(m), NEW src \in Seq(Bytes), Shows(src, 0, EncodeDevice(m))
    PROVE  (Len(src) < 2 \/ Len(src) - 2 < src[2]) <=> Len(EncodeDevice(m)) > Len(src)
<1>1. Len(EncodeDevice(m)) = 2 + Len(Body(m)) /\ Len(Body(m)) \in Nat /\ Len(src) \in Nat
  <2>1. Len(Body(m)) \in Bytes
    BY BodyType
  <2> QED BY <2>1, EncodeType, BaseFacts
<1>2. CASE Len(src) < 2
  BY <1>1, <1>2
<1>3. CASE Len(src) >= 2
  <2>1. src[2] = Len(Body(m))
    BY <1>3, HeaderRead
  <2> QED BY <1>1, <1>3, <2>1
<1> QED BY <1>1, <1>2, <1>3

\* DeviceCodec reads what any end of a device session writes: its decoder waits for
\* header and body and inverts the encoder for every message the ends send.
THEOREM DeviceRead ==
    ASSUME NEW m, DeviceOK(m), NEW src \in Seq(Bytes), Shows(src, 0, EncodeDevice(m))
    PROVE  Reads(DecodeDevice(src), src, EncodeDevice(m), m)
<1> DEFINE e == EncodeDevice(m)
           k == m.kind
           w == Body(m)
<1>1. e \in Seq(Bytes) /\ Len(e) = 2 + Len(w) /\ Len(e) \in Nat
  <2>1. e \in Seq(Bytes) /\ Len(e) = 2 + Len(w)
    BY EncodeType
  <2> HIDE DEF e
  <2> QED BY <2>1
<1>2. /\ k \in {1, 2, 3, 4} /\ w \in Seq(Bytes) /\ Len(w) \in Nat
      /\ m = [kind |-> k, vals |-> m.vals]
  BY BodyType, BaseFacts DEF DeviceOK
<1>3. CASE Len(e) > Len(src)
  <2>1. Len(src) < 2 \/ Len(src) - 2 < src[2]
    BY <1>3, DeviceWaits
  <2>2. DecodeDevice(src).st = "none"
    BY <2>1 DEF DecodeDevice, NoItem
  <2>3. ~(Len(e) <= Len(src))
    BY <1>1, <1>3
  <2> QED BY <2>2, <2>3 DEF Reads
<1>4. CASE Len(e) <= Len(src)
  <2>0. ~(Len(e) > Len(src)) /\ Len(src) \in Nat /\ Len(src) >= 2
    BY <1>1, <1>2, <1>4
  <2>1. ~(Len(src) < 2 \/ Len(src) - 2 < src[2])
    BY <2>0, DeviceWaits
  <2>2. src[1] = k /\ src[2] = Len(w) /\ Shows(src, 2, w)
    BY <2>0, HeaderRead
  <2>3. 2 \in Nat /\ 2 + Len(w) <= Len(src) /\ 2 <= Len(src)
    BY <1>1, <1>4, <2>0
  <2> HIDE DEF k, w, e
  <2>4. CASE k = 1
    <3>1. SubSeq(src, 2 + 1, 2 + Len(w)) = w
      BY <1>2, <2>2, <2>3, ShownPiece
    <3>2. SubSeq(src, 3, 2 + Len(w)) = m.vals
      <4>1. w = m.vals
        BY <2>4, BodyType DEF k, w
      <4>2. 2 + 1 = 3
        OBVIOUS
      <4> QED BY <3>1, <4>1, <4>2
    <3>3. DecodeDevice(src) =
              Decoded(src, 1, [st |-> "ok", pos |-> 2 + Len(w), vals |-> m.vals])
      <4>1. /\ k = DataKind /\ k \notin {ConfigKind, ControlReqKind, ControlResKind}
            /\ DataKind = 1
        BY <2>4, DeviceKinds
      <4> QED BY <2>1, <2>2, <3>2, <4>1 DEF DecodeDevice
    <3>4. DecodeDevice(src) = [st |-> "item", item |-> [kind |-> k, vals |-> m.vals],
                               rest |-> SubSeq(src, Len(e) + 1, Len(src))]
      <4>1. Len(e) = 2 + Len(w)
        BY <1>1
      <4> QED BY <2>4, <3>3, <4>1 DEF Decoded
    <3> QED BY <1>2, <2>0, <3>4 DEF Reads, e
  <2>5. CASE k # 1
    <3> DEFINE fs == DeviceFields(k)
               r == ReadFields(src, Cursor(2), fs)
    <3>1. /\ Len(fs) \in Nat /\ Typed(fs, m.vals) /\ ~Unsendable(fs, m.vals)
          /\ w = WriteFields(fs, m.vals)
      BY <2>5, BodyType DEF k, w
    <3> HIDE DEF fs
    <3>2. r = [st |-> "ok", pos |-> 2 + Len(w), vals |-> m.vals]
      <4>1. Shows(src, 2, WriteFields(fs, m.vals))
        BY <2>2, <3>1
      <4>2. 2 + Len(WriteFields(fs, m.vals)) <= Len(src)
        BY <2>3, <3>1
      <4> QED BY <2>3, <3>1, <4>1, <4>2, FieldsRead
    <3>3. DecodeDevice(src) = Decoded(src, k, r)
      <4>1. k # DataKind /\ k \in {ConfigKind, ControlReqKind, ControlResKind}
        BY <1>2, <2>5, DeviceKinds
      <4> QED BY <2>1, <2>2, <4>1 DEF DecodeDevice, fs
    <3> HIDE DEF r
    <3>4. DecodeDevice(src) = [st |-> "item", item |-> [kind |-> k, vals |-> m.vals],
                               rest |-> SubSeq(src, Len(e) + 1, Len(src))]
      <4>1. Len(e) = 2 + Len(w) /\ r.st = "ok" /\ r.pos = 2 + Len(w) /\ r.vals = m.vals
        BY <1>1, <3>2
      <4> QED BY <3>3, <4>1 DEF Decoded
    <3> QED BY <1>2, <2>0, <3>4 DEF Reads, e
  <2> QED BY <2>4, <2>5
<1> QED BY <1>1, <1>3, <1>4

\* The structs of the firmware have the fields of the messages, and take any byte
\* for a bool or a request.
LEMMA StructRead ==
    ASSUME NEW m, DeviceOK(m), m.kind \in {2, 3}
    PROVE  /\ ReadFields(Body(m), Cursor(0), StructFields(m.kind)).vals = m.vals
           /\ Len(Body(m)) = StructSize(m.kind)
<1> DEFINE k == m.kind
           fs == DeviceFields(k)
           gs == StructFields(k)
           vs == m.vals
           w == Body(m)
<1>1. /\ Len(fs) \in Nat /\ Typed(fs, vs) /\ w = WriteFields(fs, vs) /\ w \in Seq(Bytes)
      /\ Len(w) = (IF k = 2 THEN 8 ELSE 1)
  BY BodyType
<1>2. /\ Len(gs) = Len(fs)
      /\ \A i \in 1..Len(fs) : \/ gs[i] = fs[i] /\ gs[i] \in {"u8", "u32"}
                               \/ gs[i] = "u8" /\ fs[i] \in {"bool", "creq"}
  <2>1. CASE k = 2
    <3>1. fs = <<"u32", "u8", "u8", "u8", "bool">> /\ gs = <<"u32", "u8", "u8", "u8", "u8">>
      BY <2>1, DeviceKinds DEF StructFields
    <3>2. \A i \in 1..5 : i \in {1, 2, 3, 4, 5}
      OBVIOUS
    <3>3. Len(fs) = 5 /\ Len(gs) = 5
      BY <3>1
    <3> QED BY <3>1, <3>2, <3>3
  <2>2. CASE k = 3
    <3>1. fs = <<"creq">> /\ gs = <<"u8">>
      BY <2>2, DeviceKinds DEF StructFields
    <3>2. \A i \in 1..1 : i = 1
      OBVIOUS
    <3>3. Len(fs) = 1 /\ Len(gs) = 1
      BY <3>1
    <3> QED BY <3>1, <3>2, <3>3
  <2> QED BY <2>1, <2>2
<1> HIDE DEF fs, gs, vs
<1>3. ASSUME NEW i \in 1..Len(fs)
      PROVE  Fits(gs[i], vs[i]) /\ Written(gs[i], vs[i]) = Written(fs[i], vs[i]) /\ gs[i] # "str"
  <2>1. Fits(fs[i], vs[i])
    BY <1>1 DEF Typed
  <2>2. CASE gs[i] = fs[i] /\ gs[i] \in {"u8", "u32"}
    BY <2>1, <2>2
  <2>3. CASE gs[i] = "u8" /\ fs[i] \in {"bool", "creq"}
    <3>1. Width[gs[i]] = Width[fs[i]] /\ gs[i] \in DOMAIN Width
      BY <2>3, WidthFacts
    <3>2. vs[i] \in 0..(B * Weight[Width[gs[i]]] - 1)
      BY <2>1, <2>3, <3>1 DEF Fits
    <3>3. Valid(gs[i], vs[i])
      BY <2>3 DEF Valid
    <3>4. Written(gs[i], vs[i]) = Written(fs[i], vs[i])
      BY <2>3, <3>1 DEF Written
    <3> QED BY <2>3, <3>1, <3>2, <3>3, <3>4 DEF Fits
  <2> QED BY <1>2, <2>2, <2>3
<1>4. Typed(gs, vs) /\ ~Unsendable(gs, vs) /\ Len(gs) \in Nat
  BY <1>1, <1>2, <1>3 DEF Typed, Unsendable, TooLong
<1>5. WriteFields(gs, vs) = w
  <2>1. [i \in 1..Len(gs) |-> Written(gs[i], vs[i])] = [i \in 1..Len(fs) |-> Written(fs[i], vs[i])]
    BY <1>2, <1>3
  <2> QED BY <1>1, <2>1 DEF WriteFields
<1> HIDE DEF w
<1>6. Shows(w, 0, w) /\ Len(w) \in Nat /\ 0 + Len(w) <= Len(w) /\ 0 <= Len(w) /\ 0 \in Nat
  <2>1. Len(w) \in Nat
    BY <1>1
  <2> QED BY <2>1 DEF Shows
<1>7. ReadFields(w, Cursor(0), gs) = [st |-> "ok", pos |-> 0 + Len(w), vals |-> vs]
  <2>1. Shows(w, 0, WriteFields(gs, vs)) /\ 0 + Len(WriteFields(gs, vs)) <= Len(w)
    BY <1>5, <1>6
  <2>2. w \in Seq(Bytes)
    BY <1>1
  <2> QED BY <1>4, <1>5, <1>6, <2>1, <2>2, FieldsRead
<1>8. Len(w) = StructSize(k)
  BY <1>1, DeviceKinds DEF StructSize
<1> QED BY <1>7, <1>8 DEF w, gs, vs

\* The firmware reads what the daemon writes: read_msg, with its own structs and
\* byte order, agrees with the encoder of DeviceCodec.
THEOREM FirmwareRead ==
    ASSUME NEW m, DeviceOK(m), m.kind # ControlResKind, NEW src \in Seq(Bytes),
           Shows(src, 0, EncodeDevice(m))
    PROVE  Reads(read_msg(src), src, EncodeDevice(m), m)
<1> DEFINE e == EncodeDevice(m)
           k == m.kind
           w == Body(m)
<1>1. e \in Seq(Bytes) /\ Len(e) = 2 + Len(w) /\ Len(e) \in Nat
  <2>1. e \in Seq(Bytes) /\ Len(e) = 2 + Len(w)
    BY EncodeType
  <2> HIDE DEF e
  <2> QED BY <2>1
<1>2. /\ k \in {1, 2, 3} /\ w \in Seq(Bytes) /\ Len(w) \in Nat
      /\ m = [kind |-> k, vals |-> m.vals]
  BY BodyType, BaseFacts, DeviceKinds DEF DeviceOK
<1>3. CASE Len(e) > Len(src)
  <2>1. Len(src) < 2 \/ Len(src) - 2 < src[2]
    BY <1>3, DeviceWaits
  <2>2. read_msg(src).st = "none"
    BY <2>1 DEF read_msg, NoItem
  <2>3. ~(Len(e) <= Len(src))
    BY <1>1, <1>3
  <2> QED BY <2>2, <2>3 DEF Reads
<1>4. CASE Len(e) <= Len(src)
  <2>0. ~(Len(e) > Len(src)) /\ Len(src) \in Nat /\ Len(src) >= 2
    BY <1>1, <1>2, <1>4
  <2>1. ~(Len(src) < 2 \/ Len(src) - 2 < src[2])
    BY <2>0, DeviceWaits
  <2>2. src[1] = k /\ src[2] = Len(w) /\ Shows(src, 2, w)
    BY <2>0, HeaderRead
  <2>3. 2 \in Nat /\ 2 + Len(w) <= Len(src)
    BY <1>1, <1>4, <2>0
  <2> HIDE DEF k, w, e
  <2>4. SubSeq(src, 2 + 1, 2 + Len(w)) = w
    BY <1>2, <2>2, <2>3, ShownPiece
  <2>5. SubSeq(src, 3, 2 + src[2]) = w /\ SubSeq(src, 3 + src[2], Len(src)) = SubSeq(src, Len(e) + 1, Len(src))
    <3>1. 2 + 1 = 3 /\ Len(e) + 1 = 3 + Len(w)
      BY <1>1, <1>2
    <3> QED BY <2>2, <2>4, <3>1
  <2>6. read_msg(src) = [st |-> "item", item |-> [kind |-> k, vals |-> m.vals],
                         rest |-> SubSeq(src, Len(e) + 1, Len(src))]
    <3>1. CASE k = 1
      <4>1. w = m.vals
        BY <3>1, BodyType DEF k, w
      <4>2. k = DataKind /\ k \notin {ConfigKind, ControlReqKind}
        BY <3>1, DeviceKinds
      <4> QED BY <2>1, <2>2, <2>5, <4>1, <4>2 DEF read_msg
    <3>2. CASE k \in {2, 3}
      <4>1. ReadFields(w, Cursor(0), StructFields(k)).vals = m.vals /\ Len(w) = StructSize(k)
        BY <3>2, StructRead DEF k, w
      <4>2. k # DataKind /\ k \in {ConfigKind, ControlReqKind}
        BY <3>2, DeviceKinds
      <4> QED BY <2>1, <2>2, <2>5, <4>1, <4>2 DEF read_msg
    <3> QED BY <1>2, <3>1, <3>2
  <2> QED BY <1>2, <2>0, <2>6 DEF Reads, e
<1> QED BY <1>1, <1>3, <1>4

\* What the peers write.
LEMMA PeerMessages ==
    /\ \A s \in Inputs : DeviceOK(DataMessage(s)) /\ Len(EncodeDevice(DataMessage(s))) > 2
    /\ DeviceOK(Response(Ok)) /\ DeviceOK(Response(NotSupported))
<1>1. ASSUME NEW s \in Inputs
      PROVE  DeviceOK(DataMessage(s)) /\ Len(EncodeDevice(DataMessage(s))) > 2
  <2> DEFINE n == IF Len(s) < Max8 THEN Len(s) ELSE Max8
             t == SubSeq(s, 1, n)
             m == DataMessage(s)
  <2>1. s \in Seq(Bytes) /\ s # <<>>
    BY DeviceAssumption
  <2>2. Len(s) \in Nat /\ Len(s) >= 1
    BY <2>1
  <2>3. n \in Nat /\ n >= 1 /\ n <= Max8 /\ 0 + n <= Len(s) /\ 0 + 1 = 1 /\ 0 + n = n
    BY <2>2, BaseFacts
  <2> HIDE DEF n
  <2>4. SubSeq(s, 0 + 1, 0 + n) \in Seq(Bytes) /\ Len(SubSeq(s, 0 + 1, 0 + n)) = n
    BY <2>1, <2>3, Piece
  <2>5. t \in Seq(Bytes) /\ Len(t) = n
    BY <2>3, <2>4
  <2>6. m = [kind |-> DataKind, vals |-> t]
    BY DEF DataMessage, n
  <2> HIDE DEF t, m
  <2>7. m.kind = DataKind /\ m.vals = t /\ m = [kind |-> m.kind, vals |-> m.vals]
    BY <2>6
  <2>8. DeviceOK(m)
    BY <2>3, <2>5, <2>7 DEF DeviceOK
  <2>9. Body(m) = t
    BY <2>7 DEF Body
  <2>10. Len(EncodeDevice(m)) > 2
    BY <2>3, <2>5, <2>8, <2>9, EncodeType
  <2> QED BY <2>8, <2>10 DEF m
<1>2. ASSUME NEW n \in {1, 2} PROVE DeviceOK(Response(n))
  <2> DEFINE m == Response(n)
             x == <<"cres">>
             y == <<n>>
  <2>1. m = [kind |-> 4, vals |-> y]
    BY DeviceKinds DEF Response
  <2>2. Len(x) = 1 /\ x[1] = "cres" /\ y[1] = n /\ (\A i \in 1..1 : i = 1) /\ y = [i \in 1..1 |-> y[i]]
    OBVIOUS
  <2>3. Fits("cres", n)
    <3>1. Valid("cres", n)
      BY DEF Valid
    <3>2. "cres" \in DOMAIN Width /\ Width["cres"] = 1 /\ Weight[1] = 1
      BY WidthFacts, WeightFacts
    <3>3. n \in 0..(B * 1 - 1)
      BY BaseFacts
    <3> QED BY <3>1, <3>2, <3>3 DEF Fits
  <2>4. Typed(x, y)
    BY <2>2, <2>3 DEF Typed
  <2> HIDE DEF m, y
  <2>5. m.kind = 4 /\ m.vals = y /\ m = [kind |-> m.kind, vals |-> m.vals]
    BY <2>1
  <2>6. DeviceFields(m.kind) = x /\ m.kind = ControlResKind
    BY <2>5, DeviceKinds
  <2>7. DeviceOK(m)
    BY <2>4, <2>5, <2>6 DEF DeviceOK
  <2> QED BY <2>7 DEF m
<1> QED BY <1>1, <1>2 DEF Ok, NotSupported

\* What the daemon writes to a device.
LEMMA HostMessagesOK ==
    ASSUME NEW m \in HostMessages
    PROVE  DeviceOK(m) /\ m.kind # ControlResKind
<1>1. /\ m = [kind |-> m.kind, vals |-> m.vals]
      /\ \/ m.kind = DataKind /\ m.vals \in Seq(Bytes) /\ Len(m.vals) <= Max8
         \/ m.kind \in {ConfigKind, ControlReqKind} /\ Typed(DeviceFields(m.kind), m.vals)
  BY DeviceAssumption
<1>2. m.kind # ControlResKind
  BY <1>1, DeviceKinds
<1> QED BY <1>1, <1>2 DEF DeviceOK

-------------------------------------------------------------------------------
(* The state of the streams *)

Names == {"wire", "buf", "open", "cut", "written", "decoded", "broken"}

\* s has the fields of Streams.
IsStreams(s) == s = [i \in Names |-> s[i]]

LEMMA StreamsIs ==
    /\ IsStreams(Streams)
    /\ Streams.wire = wire /\ Streams.buf = buf /\ Streams.open = open /\ Streams.cut = cut
    /\ Streams.written = written /\ Streams.decoded = decoded /\ Streams.broken = broken
BY DEF IsStreams, Streams, Names

LEMMA BecomeIs ==
    ASSUME NEW s, IsStreams(s), Become(s)
    PROVE  Streams' = s
<1> DEFINE t == Streams'
<1>1. t = [i \in Names |-> t[i]]
  BY DEF Streams, Names
<1>2. /\ t.wire = s.wire /\ t.buf = s.buf /\ t.open = s.open /\ t.cut = s.cut
      /\ t.written = s.written /\ t.decoded = s.decoded /\ t.broken = s.broken
  BY DEF Streams, Become
<1> HIDE DEF t
<1>3. \A i \in Names : t[i] = s[i]
  BY <1>2 DEF Names
<1>4. t = s
  BY <1>1, <1>3 DEF IsStreams
<1> QED BY <1>4 DEF t

OnDirs(f) == f = [d \in Dirs |-> f[d]]
Shaped(s) == IsStreams(s) /\ \A i \in Names : OnDirs(s[i])

LEMMA ExceptOnDirs ==
    ASSUME NEW f, OnDirs(f), NEW d \in Dirs, NEW v
    PROVE  LET g == [f EXCEPT ![d] = v] IN
           OnDirs(g) /\ g[d] = v /\ \A e \in Dirs : e # d => g[e] = f[e]
BY DEF OnDirs

\* The fields of a state of the streams.
LEMMA ShapedIs ==
    ASSUME NEW s
    PROVE  Shaped(s) <=> /\ IsStreams(s)
                         /\ OnDirs(s.wire) /\ OnDirs(s.buf) /\ OnDirs(s.open)
                         /\ OnDirs(s.cut) /\ OnDirs(s.written) /\ OnDirs(s.decoded)
                         /\ OnDirs(s.broken)
BY DEF Shaped, Names

\* s and t differ in direction d only.
Aside(s, t, d) == \A i \in Names : \A e \in Dirs : e # d => t[i][e] = s[i][e]

\* What each operation makes of its direction.
LEMMA WroteIs ==
    ASSUME NEW s, Shaped(s), NEW d \in Dirs, NEW m, NEW bytes
    PROVE  LET t == Wrote(s, d, m, bytes) IN
           /\ Shaped(t) /\ Aside(s, t, d)
           /\ t.wire[d] = s.wire[d] \o bytes
           /\ t.written[d] = Append(s.written[d], m)
           /\ t.buf = s.buf /\ t.open = s.open /\ t.cut = s.cut
           /\ t.decoded = s.decoded /\ t.broken = s.broken
<1> DEFINE y1 == s.wire[d] \o bytes
           y2 == Append(s.written[d], m)
           x1 == [s.wire EXCEPT ![d] = y1]
           x2 == [s.written EXCEPT ![d] = y2]
           t == Wrote(s, d, m, bytes)
<1>1. t = [s EXCEPT !.wire = x1, !.written = x2]
  BY DEF Wrote
<1> HIDE DEF y1, y2
<1>2. /\ OnDirs(x1) /\ x1[d] = y1
      /\ \A e \in Dirs : e # d => x1[e] = s.wire[e]
  <2>1. OnDirs(s.wire)
    BY ShapedIs
  <2> QED BY <2>1, ExceptOnDirs
<1>3. /\ OnDirs(x2) /\ x2[d] = y2
      /\ \A e \in Dirs : e # d => x2[e] = s.written[e]
  <2>1. OnDirs(s.written)
    BY ShapedIs
  <2> QED BY <2>1, ExceptOnDirs
<1> HIDE DEF x1, x2, t
<1>4. /\ IsStreams(t) /\ t.wire = x1 /\ t.written = x2
      /\ t.buf = s.buf /\ t.open = s.open /\ t.cut = s.cut
      /\ t.decoded = s.decoded /\ t.broken = s.broken
  BY <1>1 DEF Shaped, IsStreams, Names
<1>5. Shaped(t)
  BY <1>2, <1>3, <1>4, ShapedIs
<1>6. Aside(s, t, d)
  BY <1>2, <1>3, <1>4 DEF Aside, Names
<1> QED BY <1>2, <1>3, <1>4, <1>5, <1>6 DEF t, y1, y2

LEMMA ClosedIs ==
    ASSUME NEW s, Shaped(s), NEW d \in Dirs
    PROVE  LET t == Closed(s, d) IN
           /\ Shaped(t) /\ Aside(s, t, d)
           /\ t.open[d] = FALSE
           /\ t.wire = s.wire /\ t.buf = s.buf /\ t.cut = s.cut
           /\ t.written = s.written /\ t.decoded = s.decoded /\ t.broken = s.broken
<1> DEFINE y1 == FALSE
           x1 == [s.open EXCEPT ![d] = y1]
           t == Closed(s, d)
<1>1. t = [s EXCEPT !.open = x1]
  BY DEF Closed
<1> HIDE DEF y1
<1>2. /\ OnDirs(x1) /\ x1[d] = y1
      /\ \A e \in Dirs : e # d => x1[e] = s.open[e]
  <2>1. OnDirs(s.open)
    BY ShapedIs
  <2> QED BY <2>1, ExceptOnDirs
<1> HIDE DEF x1, t
<1>3. /\ IsStreams(t) /\ t.open = x1
      /\ t.wire = s.wire /\ t.buf = s.buf /\ t.cut = s.cut
      /\ t.written = s.written /\ t.decoded = s.decoded /\ t.broken = s.broken
  BY <1>1 DEF Shaped, IsStreams, Names
<1>4. Shaped(t)
  BY <1>2, <1>3, ShapedIs
<1>5. Aside(s, t, d)
  BY <1>2, <1>3 DEF Aside, Names
<1> QED BY <1>2, <1>3, <1>4, <1>5 DEF t, y1

CutHere(s, t, d, bytes, n) ==
    /\ t.wire[d] = s.wire[d] \o SubSeq(bytes, 1, n)
    /\ t.open[d] = FALSE
    /\ (n = 0 => t.cut[d] = FALSE) /\ (n # 0 => t.cut[d] = TRUE)
    /\ t.buf = s.buf /\ t.written = s.written /\ t.decoded = s.decoded
    /\ t.broken = s.broken

LEMMA CutOffIs ==
    ASSUME NEW s, Shaped(s), NEW d \in Dirs, NEW bytes, NEW n \in Nat,
           s.cut[d] = FALSE
    PROVE  LET t == CutOff(s, d, bytes, n) IN
           Shaped(t) /\ Aside(s, t, d) /\ CutHere(s, t, d, bytes, n)
<1> DEFINE y1 == s.wire[d] \o SubSeq(bytes, 1, n)
           y2 == FALSE
           y3 == (s.cut[d] \/ n > 0)
           x1 == [s.wire EXCEPT ![d] = y1]
           x2 == [s.open EXCEPT ![d] = y2]
           x3 == [s.cut EXCEPT ![d] = y3]
           t == CutOff(s, d, bytes, n)
<1>1. t = [s EXCEPT !.wire = x1, !.open = x2, !.cut = x3]
  BY DEF CutOff
<1>0. (n = 0 => y3 = FALSE) /\ (n # 0 => y3 = TRUE)
  OBVIOUS
<1> HIDE DEF y1, y2, y3
<1>2. /\ OnDirs(x1) /\ x1[d] = y1
      /\ \A e \in Dirs : e # d => x1[e] = s.wire[e]
  <2>1. OnDirs(s.wire)
    BY ShapedIs
  <2> QED BY <2>1, ExceptOnDirs
<1>3. /\ OnDirs(x2) /\ x2[d] = y2
      /\ \A e \in Dirs : e # d => x2[e] = s.open[e]
  <2>1. OnDirs(s.open)
    BY ShapedIs
  <2> QED BY <2>1, ExceptOnDirs
<1>4. /\ OnDirs(x3) /\ x3[d] = y3
      /\ \A e \in Dirs : e # d => x3[e] = s.cut[e]
  <2>1. OnDirs(s.cut)
    BY ShapedIs
  <2> QED BY <2>1, ExceptOnDirs
<1> HIDE DEF x1, x2, x3, t
<1>5. /\ IsStreams(t) /\ t.wire = x1 /\ t.open = x2 /\ t.cut = x3
      /\ t.buf = s.buf /\ t.written = s.written /\ t.decoded = s.decoded
      /\ t.broken = s.broken
  BY <1>1 DEF Shaped, IsStreams, Names
<1>6. Shaped(t)
  BY <1>2, <1>3, <1>4, <1>5, ShapedIs
<1>7. Aside(s, t, d)
  BY <1>2, <1>3, <1>4, <1>5 DEF Aside, Names
<1>8. (n = 0 => t.cut[d] = FALSE) /\ (n # 0 => t.cut[d] = TRUE)
  BY <1>0, <1>4, <1>5
<1>9. t.wire[d] = y1 /\ t.open[d] = y2
  BY <1>2, <1>3, <1>5
<1> QED BY <1>5, <1>6, <1>7, <1>8, <1>9 DEF t, y1, y2, CutHere

TookHere(s, t, d, r) ==
    /\ t.buf[d] = r.rest /\ t.decoded[d] = Append(s.decoded[d], r.item)
    /\ t.wire = s.wire /\ t.open = s.open /\ t.cut = s.cut
    /\ t.written = s.written /\ t.broken = s.broken

LEMMA Took1Is ==
    ASSUME NEW s, Shaped(s), NEW d \in Dirs, NEW r
    PROVE  LET t == Took1(s, d, r) IN
           Shaped(t) /\ Aside(s, t, d) /\ TookHere(s, t, d, r)
<1> DEFINE y1 == r.rest
           y2 == Append(s.decoded[d], r.item)
           x1 == [s.buf EXCEPT ![d] = y1]
           x2 == [s.decoded EXCEPT ![d] = y2]
           t == Took1(s, d, r)
<1>1. t = [s EXCEPT !.buf = x1, !.decoded = x2]
  BY DEF Took1
<1> HIDE DEF y1, y2
<1>2. /\ OnDirs(x1) /\ x1[d] = y1
      /\ \A e \in Dirs : e # d => x1[e] = s.buf[e]
  <2>1. OnDirs(s.buf)
    BY ShapedIs
  <2> QED BY <2>1, ExceptOnDirs
<1>3. /\ OnDirs(x2) /\ x2[d] = y2
      /\ \A e \in Dirs : e # d => x2[e] = s.decoded[e]
  <2>1. OnDirs(s.decoded)
    BY ShapedIs
  <2> QED BY <2>1, ExceptOnDirs
<1> HIDE DEF x1, x2, t
<1>4. /\ IsStreams(t) /\ t.buf = x1 /\ t.decoded = x2
      /\ t.wire = s.wire /\ t.open = s.open /\ t.cut = s.cut
      /\ t.written = s.written /\ t.broken = s.broken
  BY <1>1 DEF Shaped, IsStreams, Names
<1>5. Shaped(t)
  BY <1>2, <1>3, <1>4, ShapedIs
<1>6. Aside(s, t, d)
  BY <1>2, <1>3, <1>4 DEF Aside, Names
<1> QED BY <1>2, <1>3, <1>4, <1>5, <1>6 DEF t, y1, y2, TookHere

LEMMA BrokeIs ==
    ASSUME NEW s, Shaped(s), NEW d \in Dirs
    PROVE  LET t == Broke(s, d) IN
           /\ Shaped(t) /\ Aside(s, t, d)
           /\ t.broken[d] = TRUE
           /\ t.wire = s.wire /\ t.buf = s.buf /\ t.open = s.open
           /\ t.cut = s.cut /\ t.written = s.written /\ t.decoded = s.decoded
<1> DEFINE y1 == TRUE
           x1 == [s.broken EXCEPT ![d] = y1]
           t == Broke(s, d)
<1>1. t = [s EXCEPT !.broken = x1]
  BY DEF Broke
<1> HIDE DEF y1
<1>2. /\ OnDirs(x1) /\ x1[d] = y1
      /\ \A e \in Dirs : e # d => x1[e] = s.broken[e]
  <2>1. OnDirs(s.broken)
    BY ShapedIs
  <2> QED BY <2>1, ExceptOnDirs
<1> HIDE DEF x1, t
<1>3. /\ IsStreams(t) /\ t.broken = x1
      /\ t.wire = s.wire /\ t.buf = s.buf /\ t.open = s.open
      /\ t.cut = s.cut /\ t.written = s.written /\ t.decoded = s.decoded
  BY <1>1 DEF Shaped, IsStreams, Names
<1>4. Shaped(t)
  BY <1>2, <1>3, ShapedIs
<1>5. Aside(s, t, d)
  BY <1>2, <1>3 DEF Aside, Names
<1> QED BY <1>2, <1>3, <1>4, <1>5 DEF t, y1

\* One direction of the streams s carries the codes of its messages; it is cut
\* only once it is closed, and an error is met only if it was cut.
Lane(code, s, d) ==
    /\ s.wire[d] \in Seq(Bytes) /\ s.buf[d] \in Seq(Bytes)
    /\ s.open[d] \in BOOLEAN /\ s.cut[d] \in BOOLEAN /\ s.broken[d] \in BOOLEAN
    /\ Line(code, s.buf[d], s.wire[d], s.written[d], s.decoded[d], s.cut[d])
    /\ s.cut[d] => ~s.open[d]
    /\ s.broken[d] => s.cut[d]

\* Both directions do; code[d] are the codes of the messages of direction d.
Good(code, s) == Shaped(s) /\ \A d \in Dirs : Lane(code[d], s, d)

\* M[d] are the messages of direction d.
Coding(code, M) == \A d \in Dirs : Codes(code[d], M[d], Bytes)

\* An operation on one direction leaves the other one alone.
LEMMA GoodBut ==
    ASSUME NEW code, NEW s, Good(code, s), NEW t, Shaped(t), NEW d \in Dirs,
           Aside(s, t, d), Lane(code[d], t, d)
    PROVE  Good(code, t)
<1>1. SUFFICES ASSUME NEW e \in Dirs, e # d PROVE Lane(code[e], t, e)
  BY DEF Good
<1>2. Lane(code[e], s, e)
  BY DEF Good
<1>3. /\ t.wire[e] = s.wire[e] /\ t.buf[e] = s.buf[e] /\ t.open[e] = s.open[e]
      /\ t.cut[e] = s.cut[e] /\ t.written[e] = s.written[e]
      /\ t.decoded[e] = s.decoded[e] /\ t.broken[e] = s.broken[e]
  BY <1>1 DEF Names, Aside
<1> QED BY <1>2, <1>3 DEF Lane

LEMMA GoodWrote ==
    ASSUME NEW code, NEW M, Coding(code, M), NEW s, Good(code, s), NEW d \in Dirs, s.open[d],
           NEW m \in M[d]
    PROVE  Good(code, Wrote(s, d, m, code[d][m]))
<1> DEFINE bs == code[d][m]
           t == Wrote(s, d, m, bs)
           w2 == s.wire[d] \o bs
           wr2 == Append(s.written[d], m)
<1>1. Shaped(s) /\ Lane(code[d], s, d) /\ Codes(code[d], M[d], Bytes)
  BY DEF Good, Coding
<1> HIDE DEF bs
<1>2. /\ Shaped(t) /\ Aside(s, t, d)
      /\ t.wire[d] = w2 /\ t.written[d] = wr2
      /\ t.buf = s.buf /\ t.open = s.open /\ t.cut = s.cut
      /\ t.decoded = s.decoded /\ t.broken = s.broken
  BY <1>1, WroteIs
<1> HIDE DEF t, w2, wr2
<1>3. ~s.cut[d] /\ s.cut[d] = FALSE
  BY <1>1 DEF Lane
<1>4. Line(code[d], s.buf[d], w2, wr2, s.decoded[d], FALSE)
  <2>1. Line(code[d], s.buf[d], s.wire[d], s.written[d], s.decoded[d], FALSE)
    BY <1>1, <1>3 DEF Lane
  <2>2. s.buf[d] \in Seq(Bytes) /\ s.wire[d] \in Seq(Bytes)
    BY <1>1 DEF Lane
  <2> QED BY <1>1, <2>1, <2>2, LineWrote DEF w2, wr2, bs
<1>5. w2 \in Seq(Bytes)
  <2>1. bs \in Seq(Bytes) /\ s.wire[d] \in Seq(Bytes)
    BY <1>1, CodesType DEF Lane, bs
  <2> QED BY <2>1, ConcatProperties DEF w2
<1>6. Lane(code[d], t, d)
  BY <1>1, <1>2, <1>3, <1>4, <1>5 DEF Lane
<1>7. Good(code, t)
  BY <1>2, <1>6, GoodBut
<1> QED BY <1>7 DEF t, bs

LEMMA GoodClosed ==
    ASSUME NEW code, NEW s, Good(code, s), NEW d \in Dirs
    PROVE  Good(code, Closed(s, d))
<1> DEFINE t == Closed(s, d)
<1>1. Shaped(s) /\ Lane(code[d], s, d)
  BY DEF Good
<1>2. /\ Shaped(t) /\ Aside(s, t, d) /\ t.open[d] = FALSE
      /\ t.wire = s.wire /\ t.buf = s.buf /\ t.cut = s.cut /\ t.written = s.written
      /\ t.decoded = s.decoded /\ t.broken = s.broken
  BY <1>1, ClosedIs
<1> HIDE DEF t
<1>3. Lane(code[d], t, d)
  BY <1>1, <1>2 DEF Lane
<1>4. Good(code, t)
  BY <1>2, <1>3, GoodBut
<1> QED BY <1>4 DEF t

LEMMA GoodBroke ==
    ASSUME NEW code, NEW s, Good(code, s), NEW d \in Dirs, s.cut[d]
    PROVE  Good(code, Broke(s, d))
<1> DEFINE t == Broke(s, d)
<1>1. Shaped(s) /\ Lane(code[d], s, d)
  BY DEF Good
<1>2. /\ Shaped(t) /\ Aside(s, t, d) /\ t.broken[d] = TRUE
      /\ t.wire = s.wire /\ t.buf = s.buf /\ t.open = s.open /\ t.cut = s.cut
      /\ t.written = s.written /\ t.decoded = s.decoded
  BY <1>1, BrokeIs
<1> HIDE DEF t
<1>3. Lane(code[d], t, d)
  BY <1>1, <1>2 DEF Lane
<1>4. Good(code, t)
  BY <1>2, <1>3, GoodBut
<1> QED BY <1>4 DEF t

\* Bytes are written, and the stream closed; those of m if there are any.
LEMMA GoodCutOff ==
    ASSUME NEW code, NEW M, Coding(code, M), NEW s, Good(code, s), NEW d \in Dirs, s.open[d],
           NEW bytes \in Seq(Nat), NEW n \in Nat, n <= Len(bytes),
           n # 0 => \E m \in M[d] : bytes = code[d][m] /\ n < Len(bytes)
    PROVE  Good(code, CutOff(s, d, bytes, n))
<1> DEFINE t == CutOff(s, d, bytes, n)
           w2 == s.wire[d] \o SubSeq(bytes, 1, n)
<1>1. Shaped(s) /\ Lane(code[d], s, d) /\ Codes(code[d], M[d], Bytes)
  BY DEF Good, Coding
<1>3. ~s.cut[d] /\ s.cut[d] = FALSE
  BY <1>1 DEF Lane
<1>2. /\ Shaped(t) /\ Aside(s, t, d)
      /\ t.wire[d] = w2 /\ t.open[d] = FALSE
      /\ (n = 0 => t.cut[d] = FALSE) /\ (n # 0 => t.cut[d] = TRUE)
      /\ t.buf = s.buf /\ t.written = s.written
      /\ t.decoded = s.decoded /\ t.broken = s.broken
  <2>1. Shaped(t) /\ Aside(s, t, d) /\ CutHere(s, t, d, bytes, n)
    BY <1>1, <1>3, CutOffIs
  <2> HIDE DEF t
  <2> QED BY <2>1 DEF CutHere
<1> HIDE DEF t, w2
<1>4. (n = 0 => t.cut[d] = FALSE) /\ (n # 0 => t.cut[d] = TRUE) /\ t.cut[d] \in BOOLEAN
  BY <1>2
<1>5. /\ Line(code[d], s.buf[d], s.wire[d], s.written[d], s.decoded[d], FALSE)
      /\ s.buf[d] \in Seq(Bytes) /\ s.wire[d] \in Seq(Bytes)
  BY <1>1, <1>3 DEF Lane
<1>6. Line(code[d], s.buf[d], w2, s.written[d], s.decoded[d], t.cut[d]) /\ w2 \in Seq(Bytes)
  <2>1. CASE n = 0
    <3>1. SubSeq(bytes, 1, 0) = <<>>
      BY SubSeqProperties
    <3>2. w2 = s.wire[d]
      BY <1>5, <2>1, <3>1, ConcatEmptySeq DEF w2
    <3> QED BY <1>4, <1>5, <2>1, <3>2
  <2>2. CASE n # 0
    <3>1. PICK m \in M[d] : bytes = code[d][m] /\ n < Len(bytes)
      BY <2>2
    <3>3. Line(code[d], s.buf[d], s.wire[d] \o SubSeq(code[d][m], 1, n), s.written[d],
               s.decoded[d], TRUE)
      BY <1>1, <1>5, <2>2, <3>1, LineCut
    <3>4. SubSeq(bytes, 1, n) \in Seq(Bytes)
      <4>1. bytes \in Seq(Bytes) /\ 0 + n <= Len(bytes) /\ 0 + 1 = 1 /\ 0 + n = n
        BY <1>1, <3>1, CodesType
      <4>2. SubSeq(bytes, 0 + 1, 0 + n) \in Seq(Bytes)
        BY <4>1, Piece
      <4> QED BY <4>1, <4>2
    <3>5. w2 \in Seq(Bytes)
      BY <1>5, <3>4, ConcatProperties DEF w2
    <3> QED BY <1>4, <2>2, <3>1, <3>3, <3>5 DEF w2
  <2> QED BY <2>1, <2>2
<1>7. Lane(code[d], t, d)
  <2>1. t.cut[d] \in BOOLEAN /\ t.open[d] \in BOOLEAN /\ (t.cut[d] => ~t.open[d])
    BY <1>2, <1>4, Zenon
  <2>2. t.broken[d] \in BOOLEAN /\ ~t.broken[d]
    <3>1. s.broken[d] \in BOOLEAN /\ ~s.broken[d]
      BY <1>1, <1>3 DEF Lane
    <3> QED BY <1>2, <3>1, Zenon
  <2>3. /\ t.wire[d] \in Seq(Bytes) /\ t.buf[d] \in Seq(Bytes)
        /\ Line(code[d], t.buf[d], t.wire[d], t.written[d], t.decoded[d], t.cut[d])
    BY <1>2, <1>5, <1>6, Zenon
  <2> QED BY <2>1, <2>2, <2>3 DEF Lane
<1>8. Good(code, t)
  BY <1>2, <1>7, GoodBut, Zenon
<1> QED BY <1>8 DEF t

LEMMA GoodArrive ==
    ASSUME NEW code, NEW M, Coding(code, M), Good(code, Streams), NEW d \in Dirs, Arrive(d)
    PROVE  Good(code, Streams')
<1> DEFINE s == Streams
           t == Streams'
<1>1. Shaped(s) /\ Lane(code[d], s, d) /\ Codes(code[d], M[d], Bytes)
  BY DEF Good, Coding
<1>2. /\ s.wire = wire /\ s.buf = buf /\ s.open = open /\ s.cut = cut
      /\ s.written = written /\ s.decoded = decoded /\ s.broken = broken
  BY StreamsIs
<1>3. /\ IsStreams(t)
      /\ t.wire = wire' /\ t.buf = buf' /\ t.open = open' /\ t.cut = cut'
      /\ t.written = written' /\ t.decoded = decoded' /\ t.broken = broken'
  BY DEF IsStreams, Streams, Names
<1> HIDE DEF s, t
<1>4. PICK n \in {1, Len(wire[d])} :
          /\ buf' = [buf EXCEPT ![d] = @ \o SubSeq(wire[d], 1, n)]
          /\ wire' = [wire EXCEPT ![d] = SubSeq(@, n + 1, Len(@))]
  BY DEF Arrive
<1>5. /\ wire[d] # <<>> /\ open' = open /\ cut' = cut /\ written' = written
      /\ decoded' = decoded /\ broken' = broken
  BY DEF Arrive
<1> DEFINE b == buf[d]
           w == wire[d]
           b2 == b \o SubSeq(w, 1, n)
           w2 == SubSeq(w, n + 1, Len(w))
<1>6. /\ b \in Seq(Bytes) /\ w \in Seq(Bytes)
      /\ Line(code[d], b, w, written[d], decoded[d], cut[d])
  BY <1>1, <1>2 DEF Lane
<1>7. n \in Nat /\ n <= Len(w)
  BY <1>4, <1>5, <1>6
<1>8. b2 \in Seq(Bytes) /\ w2 \in Seq(Bytes)
      /\ Line(code[d], b2, w2, written[d], decoded[d], cut[d])
  <2> HIDE DEF b, w
  <2> QED BY <1>1, <1>6, <1>7, LineArrive
<1>9. OnDirs(wire) /\ OnDirs(buf)
  BY <1>1, <1>2, ShapedIs
<1> HIDE DEF b2, w2
<1>10. /\ OnDirs(buf') /\ buf'[d] = b2 /\ (\A e \in Dirs : e # d => buf'[e] = buf[e])
       /\ OnDirs(wire') /\ wire'[d] = w2 /\ (\A e \in Dirs : e # d => wire'[e] = wire[e])
  <2>1. buf' = [buf EXCEPT ![d] = b2] /\ wire' = [wire EXCEPT ![d] = w2]
    BY <1>4 DEF b2, w2
  <2>2. OnDirs(buf') /\ buf'[d] = b2 /\ (\A e \in Dirs : e # d => buf'[e] = buf[e])
    BY <1>9, <2>1 DEF OnDirs
  <2>3. OnDirs(wire') /\ wire'[d] = w2 /\ (\A e \in Dirs : e # d => wire'[e] = wire[e])
    BY <1>9, <2>1 DEF OnDirs
  <2> QED BY <2>2, <2>3
<1>11. Shaped(t)
  <2>1. /\ OnDirs(t.wire) /\ OnDirs(t.buf) /\ OnDirs(t.open) /\ OnDirs(t.cut)
        /\ OnDirs(t.written) /\ OnDirs(t.decoded) /\ OnDirs(t.broken)
    BY <1>1, <1>2, <1>3, <1>5, <1>10, ShapedIs
  <2> QED BY <1>3, <2>1, ShapedIs
<1>12. Aside(s, t, d)
  BY <1>2, <1>3, <1>5, <1>10 DEF Aside, Names
<1>13. Lane(code[d], t, d)
  BY <1>1, <1>2, <1>3, <1>5, <1>8, <1>10 DEF Lane
<1>14. Good(code, t)
  <2>1. Good(code, s)
    BY DEF s
  <2> QED BY <1>11, <1>12, <1>13, <2>1, GoodBut
<1> QED BY <1>14 DEF t

\* r is what a decoder that reads the messages of M makes of b.
Answer(M, code, b, r) ==
    /\ b = <<>> => r.st = "none"
    /\ \A m \in M : Shows(b, 0, code[m]) => Reads(r, b, code[m], m)

\* The decoder takes the next message that is due, and finds it once no bytes are
\* under way.
LEMMA LineNext ==
    ASSUME NEW M, NEW code, Codes(code, M, Bytes), NEW b \in Seq(Bytes), NEW w \in Seq(Bytes),
           NEW wr, NEW de, NEW c, Line(code, b, w, wr, de, c), NEW r, Answer(M, code, b, r)
    PROVE  /\ r.st = "item" \/ r.st = "none"
           /\ r.st = "item" =>
                  /\ Len(de) < Len(wr) /\ r.item = wr[Len(de) + 1] /\ r.rest \in Seq(Bytes)
                  /\ Line(code, r.rest, w, wr, Append(de, r.item), c)
           /\ r.st = "none" /\ w = <<>> => de = wr /\ (~c => b = <<>>)
<1>1. /\ wr \in Seq(M) /\ de \in Seq(M) /\ Len(de) <= Len(wr)
      /\ Len(de) \in Nat /\ Len(wr) \in Nat
  BY CodesType DEF Line
<1>2. CASE Len(de) < Len(wr)
  <2> DEFINE m == wr[Len(de) + 1]
             e == code[m]
             rest == SubSeq(b, Len(e) + 1, Len(b))
  <2>1. /\ m \in M /\ Shows(b, 0, e)
        /\ Len(e) <= Len(b) => rest \in Seq(Bytes) /\ Line(code, rest, w, wr, Append(de, m), c)
        /\ w = <<>> => Len(e) <= Len(b)
    BY <1>2, LineHead
  <2> HIDE DEF m
  <2>2. Len(e) \in Nat /\ Len(b) \in Nat
    BY <2>1, CodesType
  <2>3. Reads(r, b, e, m)
    BY <2>1 DEF Answer
  <2> HIDE DEF e
  <2>4. CASE Len(e) <= Len(b)
    <3>1. r = [st |-> "item", item |-> m, rest |-> rest]
      BY <2>3, <2>4 DEF Reads
    <3>2. r.st = "item" /\ r.item = m /\ r.rest = rest
      BY <3>1
    <3> HIDE DEF rest
    <3>3. r.rest \in Seq(Bytes) /\ Line(code, r.rest, w, wr, Append(de, r.item), c)
      BY <2>1, <2>4, <3>2
    <3> QED BY <1>2, <3>2, <3>3 DEF m
  <2>5. CASE ~(Len(e) <= Len(b))
    <3>1. Len(e) > Len(b)
      BY <2>2, <2>5
    <3>2. r.st = "none" /\ w # <<>>
      BY <2>1, <2>3, <2>5, <3>1 DEF Reads
    <3> QED BY <3>2
  <2> QED BY <2>4, <2>5
<1>3. CASE Len(de) = Len(wr)
  <2>1. /\ \/ b = <<>>
           \/ \E m \in M : Shows(b, 0, code[m]) /\ Len(b) < Len(code[m])
        /\ ~c => b = <<>>
        /\ de = wr
    BY <1>3, LineDone
  <2>2. r.st = "none"
    <3>1. CASE b = <<>>
      BY <3>1 DEF Answer
    <3>2. CASE b # <<>>
      <4>1. PICK m \in M : Shows(b, 0, code[m]) /\ Len(b) < Len(code[m])
        BY <2>1, <3>2
      <4>2. Len(code[m]) > Len(b)
        BY <4>1, CodesType
      <4>3. Reads(r, b, code[m], m)
        BY <4>1 DEF Answer
      <4> QED BY <4>2, <4>3 DEF Reads
    <3> QED BY <3>1, <3>2
  <2> QED BY <2>1, <2>2
<1> QED BY <1>1, <1>2, <1>3

LEMMA GoodTook ==
    ASSUME NEW code, NEW M, Coding(code, M), NEW s, Good(code, s), NEW d \in Dirs, NEW r,
           Answer(M[d], code[d], s.buf[d], r), r.st = "item"
    PROVE  /\ Good(code, Took1(s, d, r))
           /\ Len(s.decoded[d]) < Len(s.written[d])
           /\ r.item = s.written[d][Len(s.decoded[d]) + 1]
<1> DEFINE t == Took1(s, d, r)
           de2 == Append(s.decoded[d], r.item)
<1>1. Shaped(s) /\ Lane(code[d], s, d) /\ Codes(code[d], M[d], Bytes)
  BY DEF Good, Coding
<1>2. /\ Shaped(t) /\ Aside(s, t, d)
      /\ t.buf[d] = r.rest /\ t.decoded[d] = de2
      /\ t.wire = s.wire /\ t.open = s.open /\ t.cut = s.cut
      /\ t.written = s.written /\ t.broken = s.broken
  <2>1. Shaped(t) /\ Aside(s, t, d) /\ TookHere(s, t, d, r)
    BY <1>1, Took1Is
  <2> HIDE DEF t
  <2> QED BY <2>1 DEF TookHere
<1>3. /\ Len(s.decoded[d]) < Len(s.written[d])
      /\ r.item = s.written[d][Len(s.decoded[d]) + 1] /\ r.rest \in Seq(Bytes)
      /\ Line(code[d], r.rest, s.wire[d], s.written[d], de2, s.cut[d])
  <2>1. /\ s.buf[d] \in Seq(Bytes) /\ s.wire[d] \in Seq(Bytes)
        /\ Line(code[d], s.buf[d], s.wire[d], s.written[d], s.decoded[d], s.cut[d])
    BY <1>1 DEF Lane
  <2> QED BY <1>1, <2>1, LineNext
<1> HIDE DEF t, de2
<1>4. Lane(code[d], t, d)
  BY <1>1, <1>2, <1>3 DEF Lane
<1>5. Good(code, t)
  BY <1>2, <1>4, GoodBut
<1> QED BY <1>3, <1>5 DEF t

\* What next returns.
LEMMA NextIs ==
    ASSUME NEW code, NEW M, Coding(code, M), Good(code, Streams), NEW d \in Dirs, NEW r,
           Answer(M[d], code[d], buf[d], r)
    PROVE  LET q == NextResult(d, r) IN
           /\ q.st = "item" => q = r
           /\ q.st = "error" => cut[d] /\ decoded[d] = written[d]
           /\ q.st = "end" => ~open[d] /\ decoded[d] = written[d]
           /\ q.st = "none" => r.st = "none" /\ (open[d] \/ wire[d] # <<>>)
<1>1. Lane(code[d], Streams, d) /\ Codes(code[d], M[d], Bytes)
  BY DEF Good, Coding
<1>2. /\ buf[d] \in Seq(Bytes) /\ wire[d] \in Seq(Bytes)
      /\ Line(code[d], buf[d], wire[d], written[d], decoded[d], cut[d])
  BY <1>1, StreamsIs DEF Lane
<1>3. /\ r.st = "item" \/ r.st = "none"
      /\ r.st = "none" /\ wire[d] = <<>> =>
             decoded[d] = written[d] /\ (~cut[d] => buf[d] = <<>>)
  BY <1>1, <1>2, LineNext
<1>4. CASE r.st = "item"
  <2>1. NextResult(d, r) = r
    BY <1>4 DEF NextResult
  <2> QED BY <1>4, <2>1
<1>5. CASE r.st = "none"
  <2>1. CASE open[d] \/ wire[d] # <<>>
    <3>1. NextResult(d, r) = r
      BY <1>5, <2>1 DEF NextResult
    <3> QED BY <1>5, <2>1, <3>1
  <2>2. CASE ~open[d] /\ wire[d] = <<>>
    <3>1. decoded[d] = written[d] /\ (~cut[d] => buf[d] = <<>>)
      BY <1>3, <1>5, <2>2
    <3>2. CASE buf[d] = <<>>
      <4>1. NextResult(d, r) = [st |-> "end"]
        BY <1>5, <2>2, <3>2 DEF NextResult
      <4>2. NextResult(d, r).st = "end"
        BY <4>1
      <4> QED BY <2>2, <3>1, <4>2
    <3>3. CASE buf[d] # <<>>
      <4>1. NextResult(d, r) = [st |-> "error"]
        BY <1>5, <2>2, <3>3 DEF NextResult
      <4>2. NextResult(d, r).st = "error" /\ cut[d]
        BY <3>1, <3>3, <4>1
      <4> QED BY <3>1, <4>2
    <3> QED BY <3>2, <3>3
  <2> QED BY <2>1, <2>2
<1> QED BY <1>3, <1>4, <1>5

\* What a response is on the wire.
LEMMA ResponseType ==
    ASSUME NEW m, ResponseOK(m), ~Unsendable(ResponseFields(m), m.vals)
    PROVE  EncodeResponse(m) \in Seq(Bytes) /\ EncodeResponse(m) # <<>>
<1>1. <<>> \in Seq(Bytes)
  OBVIOUS
<1>2. Shows(<<>>, 0, EncodeResponse(m))
  BY DEF Shows
<1> QED BY <1>1, <1>2, ResponseRead

-------------------------------------------------------------------------------
(* The messages of a session *)

\* The messages of each direction; p is the protocol, q the request of the tool.
Msgs(p, q) == [d \in Dirs |->
    IF p = "ctl"
    THEN IF d = "up" THEN {m \in {q} : ~Unsendable(RequestFields(m.kind), m.vals)}
         ELSE {m \in Answers(q) \cup {ErrorText(<<>>)} : ~Unsendable(ResponseFields(m), m.vals)}
    ELSE IF d = "up" THEN HostMessages
         ELSE {DataMessage(s) : s \in Inputs} \cup {Response(Ok), Response(NotSupported)}]

Encode(p, d, m) ==
    IF p = "ctl" THEN IF d = "up" THEN EncodeRequest(m) ELSE EncodeResponse(m)
    ELSE EncodeDevice(m)

Lines(p, q) == [d \in Dirs |-> [m \in Msgs(p, q)[d] |-> Encode(p, d, m)]]

LEMMA LinesIs ==
    ASSUME NEW p, NEW q, NEW d \in Dirs
    PROVE  Lines(p, q)[d] = [m \in Msgs(p, q)[d] |-> Lines(p, q)[d][m]]
BY DEF Lines

LEMMA LineCode ==
    ASSUME NEW p, NEW q, NEW d \in Dirs, NEW m \in Msgs(p, q)[d]
    PROVE  Lines(p, q)[d][m] = Encode(p, d, m)
BY DEF Lines

LEMMA MsgsIs ==
    ASSUME NEW q
    PROVE  /\ Msgs("ctl", q)["up"] = {m \in {q} : ~Unsendable(RequestFields(m.kind), m.vals)}
           /\ Msgs("ctl", q)["down"] = {m \in Answers(q) \cup {ErrorText(<<>>)} :
                                            ~Unsendable(ResponseFields(m), m.vals)}
           /\ Msgs("device", q)["up"] = HostMessages
           /\ Msgs("device", q)["down"] =
                  {DataMessage(s) : s \in Inputs} \cup {Response(Ok), Response(NotSupported)}
BY DEF Msgs, Dirs


\* The control protocol, message by message.
LEMMA CtlMessages ==
    ASSUME NEW q \in CliRequests
    PROVE  /\ \A m \in Msgs("ctl", q)["up"] :
                  /\ m = q /\ Encode("ctl", "up", m) = EncodeRequest(m)
                  /\ EncodeRequest(m) \in Seq(Bytes)
                  /\ \A b \in Seq(Bytes) : Shows(b, 0, EncodeRequest(m)) =>
                         Reads(DecodeRequest(b), b, EncodeRequest(m), m)
           /\ \A m \in Msgs("ctl", q)["down"] :
                  /\ Encode("ctl", "down", m) = EncodeResponse(m)
                  /\ EncodeResponse(m) \in Seq(Bytes)
                  /\ \A b \in Seq(Bytes) : Shows(b, 0, EncodeResponse(m)) =>
                         Reads(DecodeResponse(b), b, EncodeResponse(m), m)
<1>1. ASSUME NEW m \in Msgs("ctl", q)["up"]
      PROVE  /\ m = q /\ Encode("ctl", "up", m) = EncodeRequest(m)
             /\ EncodeRequest(m) \in Seq(Bytes)
             /\ \A b \in Seq(Bytes) : Shows(b, 0, EncodeRequest(m)) =>
                    Reads(DecodeRequest(b), b, EncodeRequest(m), m)
  <2>1. m = q /\ ~Unsendable(RequestFields(m.kind), m.vals)
    BY MsgsIs
  <2>2. Encode("ctl", "up", m) = EncodeRequest(m)
    BY DEF Encode
  <2>3. EncodeRequest(m) \in Seq(Bytes)
    BY <2>1, RequestType
  <2> QED BY <2>1, <2>2, <2>3, RequestRead
<1>2. ASSUME NEW m \in Msgs("ctl", q)["down"]
      PROVE  /\ Encode("ctl", "down", m) = EncodeResponse(m)
             /\ EncodeResponse(m) \in Seq(Bytes)
             /\ \A b \in Seq(Bytes) : Shows(b, 0, EncodeResponse(m)) =>
                    Reads(DecodeResponse(b), b, EncodeResponse(m), m)
  <2>1. m \in Answers(q) \cup {ErrorText(<<>>)} /\ ~Unsendable(ResponseFields(m), m.vals)
    BY MsgsIs
  <2>2. ResponseOK(m)
    BY <2>1, AnswersOK
  <2>3. Encode("ctl", "down", m) = EncodeResponse(m)
    BY DEF Encode
  <2>4. EncodeResponse(m) \in Seq(Bytes)
    BY <2>1, <2>2, ResponseType
  <2> QED BY <2>1, <2>2, <2>3, <2>4, ResponseRead
<1> QED BY <1>1, <1>2

\* The device protocol, message by message.
LEMMA DeviceMessages ==
    ASSUME NEW q, NEW d \in Dirs, NEW m \in Msgs("device", q)[d]
    PROVE  /\ DeviceOK(m) /\ Encode("device", d, m) = EncodeDevice(m)
           /\ EncodeDevice(m) \in Seq(Bytes)
           /\ d = "up" => m.kind # ControlResKind
<1>1. DeviceOK(m) /\ (d = "up" => m.kind # ControlResKind)
  <2>1. CASE d = "up"
    <3>1. m \in HostMessages
      BY <2>1, MsgsIs
    <3> QED BY <3>1, HostMessagesOK
  <2>2. CASE d = "down"
    <3>1. m \in {DataMessage(s) : s \in Inputs} \cup {Response(Ok), Response(NotSupported)}
      BY <2>2, MsgsIs
    <3> QED BY <2>2, <3>1, PeerMessages
  <2> QED BY <2>1, <2>2 DEF Dirs
<1>2. Encode("device", d, m) = EncodeDevice(m)
  BY DEF Encode
<1>3. EncodeDevice(m) \in Seq(Bytes)
  BY <1>1, EncodeType
<1> QED BY <1>1, <1>2, <1>3

LEMMA SessionCoding ==
    ASSUME NEW p \in {"ctl", "device"}, NEW q \in CliRequests
    PROVE  Coding(Lines(p, q), Msgs(p, q))
<1>1. ASSUME NEW d \in Dirs, NEW m \in Msgs(p, q)[d] PROVE Lines(p, q)[d][m] \in Seq(Bytes)
  <2>0. Lines(p, q)[d][m] = Encode(p, d, m)
    BY LineCode
  <2>1. CASE p = "ctl" /\ d = "up"
    BY <2>0, <2>1, CtlMessages
  <2>2. CASE p = "ctl" /\ d = "down"
    BY <2>0, <2>2, CtlMessages
  <2>3. CASE p = "device"
    BY <2>0, <2>3, DeviceMessages
  <2> QED BY <2>1, <2>2, <2>3 DEF Dirs
<1>2. ASSUME NEW d \in Dirs PROVE Codes(Lines(p, q)[d], Msgs(p, q)[d], Bytes)
  <2> DEFINE c == Lines(p, q)[d]
             N == Msgs(p, q)[d]
  <2>1. c = [m \in N |-> c[m]] /\ \A m \in N : c[m] \in Seq(Bytes)
    BY <1>1, LinesIs
  <2> HIDE DEF c, N
  <2>2. c \in [N -> Seq(Bytes)]
    BY <2>1
  <2> QED BY <2>2 DEF Codes, c, N
<1> QED BY <1>2 DEF Coding

\* Each decoder answers for the direction it is used on.
LEMMA CtlAnswer ==
    ASSUME NEW q \in CliRequests, NEW b \in Seq(Bytes)
    PROVE  /\ Answer(Msgs("ctl", q)["up"], Lines("ctl", q)["up"], b, DecodeRequest(b))
           /\ Answer(Msgs("ctl", q)["down"], Lines("ctl", q)["down"], b, DecodeResponse(b))
<1>1. b = <<>> => DecodeRequest(b).st = "none" /\ DecodeResponse(b).st = "none"
  BY DEF DecodeRequest, DecodeResponse, NoItem
<1>2. "up" \in Dirs /\ "down" \in Dirs
  BY DEF Dirs
<1>3. \A m \in Msgs("ctl", q)["up"] : Lines("ctl", q)["up"][m] = EncodeRequest(m)
  BY <1>2, LineCode, CtlMessages
<1>4. \A m \in Msgs("ctl", q)["down"] : Lines("ctl", q)["down"][m] = EncodeResponse(m)
  BY <1>2, LineCode, CtlMessages
<1>5. Answer(Msgs("ctl", q)["up"], Lines("ctl", q)["up"], b, DecodeRequest(b))
  BY <1>1, <1>3, CtlMessages DEF Answer
<1>6. Answer(Msgs("ctl", q)["down"], Lines("ctl", q)["down"], b, DecodeResponse(b))
  BY <1>1, <1>4, CtlMessages DEF Answer
<1> QED BY <1>5, <1>6

LEMMA DeviceAnswer ==
    ASSUME NEW q, NEW b \in Seq(Bytes)
    PROVE  /\ \A d \in Dirs :
                  Answer(Msgs("device", q)[d], Lines("device", q)[d], b, DecodeDevice(b))
           /\ Answer(Msgs("device", q)["up"], Lines("device", q)["up"], b, read_msg(b))
<1>1. b = <<>> => DecodeDevice(b).st = "none" /\ read_msg(b).st = "none"
  BY DEF DecodeDevice, read_msg, NoItem
<1>2. ASSUME NEW d \in Dirs, NEW m \in Msgs("device", q)[d], Shows(b, 0, Lines("device", q)[d][m])
      PROVE  /\ Reads(DecodeDevice(b), b, Lines("device", q)[d][m], m)
             /\ d = "up" => Reads(read_msg(b), b, Lines("device", q)[d][m], m)
  <2>1. Lines("device", q)[d][m] = EncodeDevice(m)
    BY LineCode, DeviceMessages
  <2>2. DeviceOK(m) /\ (d = "up" => m.kind # ControlResKind)
    BY DeviceMessages
  <2>3. Shows(b, 0, EncodeDevice(m))
    BY <1>2, <2>1
  <2>4. Reads(DecodeDevice(b), b, EncodeDevice(m), m)
    BY <2>2, <2>3, DeviceRead
  <2>5. d = "up" => Reads(read_msg(b), b, EncodeDevice(m), m)
    BY <2>2, <2>3, FirmwareRead
  <2> QED BY <2>1, <2>4, <2>5
<1>3. "up" \in Dirs
  BY DEF Dirs
<1> QED BY <1>1, <1>2, <1>3 DEF Answer

-------------------------------------------------------------------------------
(* The inductive invariant *)

\* A response that does not fit its length byte.
Refused(v) == v # <<>> /\ Unsendable(ResponseFields(v[1]), v[1].vals)

\* Each end of the tool's connection is open as long as its writer runs.
Ends(s, c, st) ==
    /\ s.open["up"] <=> c # "exited"
    /\ s.open["down"] <=> st # "ended"

\* There is one request and at most one response, and where each of them is
\* follows from what the tool, c, and handle_stream, st, are about to do.
Talk(s, c, q, st, v) ==
    /\ s.written["up"] = <<>> \/ s.written["up"] = <<q>>
    /\ c = "send" => s.written["up"] = <<>>
    /\ c = "await" => s.written["up"] = <<q>>
    /\ c # "exited" => s.decoded["down"] = <<>>
    /\ v = <<>> \/ \E a \in Answers(q) \cup {ErrorText(<<>>)} : v = <<a>>
    /\ v # <<>> => s.decoded["up"] = <<q>>
    /\ st = "read" => s.written["down"] = v /\ (v = <<>> => s.decoded["up"] = <<>>)
    /\ st = "main" => v = <<>> /\ s.decoded["up"] = <<q>> /\ s.written["down"] = <<>>
    /\ st = "reply" => v # <<>> /\ s.written["down"] = <<>>
    /\ s.written["down"] = <<>> \/ s.written["down"] = v

\* What the tool says, o, and why handle_stream has ended while the tool waits.
Shown(s, c, q, o, st, v, ru) ==
    /\ c # "exited" => o = ""
    /\ ~ru => st = "ended"
    /\ ru /\ st = "ended" /\ c # "exited" => Refused(v)
    /\ o = "answered" => v # <<>> /\ s.decoded["up"] = <<q>> /\ s.decoded["down"] = v
    /\ o = "closed" /\ ru => Refused(v)
    /\ o = "undecodable" => s.cut["down"]

CtlOK(s, c, q, o, st, v, ru) ==
    Ends(s, c, st) /\ Talk(s, c, q, st, v) /\ Shown(s, c, q, o, st, v, ru)

OthersOK ==
    /\ cli \in {"send", "await", "exited"} /\ stream \in {"read", "main", "reply", "ended"}
    /\ running \in BOOLEAN
    /\ outcome \in {"", "answered", "send failed", "undecodable", "closed", "killed"}
    /\ peer \in {"firmware", "test_server"} /\ host \in BOOLEAN /\ listens \in BOOLEAN
    /\ last_ctl_resp_status \in {Ok, NotSupported} /\ inputs \in Nat

SessionInv ==
    /\ proto \in {"ctl", "device"} /\ request \in CliRequests
    /\ Good(Lines(proto, request), Streams)
    /\ OthersOK
    /\ proto = "ctl" => CtlOK(Streams, cli, request, outcome, stream, verdict, running)
    /\ proto = "device" => (Streams.open["up"] <=> host)

\* A step that leaves the streams in a good state t.
LEMMA StepOK ==
    ASSUME SessionInv, proto' = proto, request' = request, NEW t, Streams' = t,
           Good(Lines(proto, request), t), OthersOK',
           proto = "ctl" => CtlOK(t, cli', request, outcome', stream', verdict', running'),
           proto = "device" => (t.open["up"] <=> host')
    PROVE  SessionInv'
<1>1. proto' \in {"ctl", "device"} /\ request' \in CliRequests
  BY DEF SessionInv
<1>2. Good(Lines(proto', request'), Streams')
  OBVIOUS
<1>3. proto' = "ctl" =>
          CtlOK(Streams', cli', request', outcome', stream', verdict', running')
  OBVIOUS
<1>4. proto' = "device" => (Streams'.open["up"] <=> host')
  OBVIOUS
<1> QED BY <1>1, <1>2, <1>3, <1>4 DEF SessionInv

\* The other direction.
LEMMA OtherSide ==
    ASSUME NEW s, NEW t, NEW d \in Dirs, Aside(s, t, d), NEW e \in Dirs, e # d
    PROVE  /\ t.wire[e] = s.wire[e] /\ t.buf[e] = s.buf[e] /\ t.open[e] = s.open[e]
           /\ t.cut[e] = s.cut[e] /\ t.written[e] = s.written[e]
           /\ t.decoded[e] = s.decoded[e] /\ t.broken[e] = s.broken[e]
BY DEF Aside, Names

LEMMA DirsIs == "up" \in Dirs /\ "down" \in Dirs /\ "up" # "down"
BY DEF Dirs

\* What holds before any step of a control session.
LEMMA CtlBefore ==
    ASSUME SessionInv, proto = "ctl"
    PROVE  /\ request \in CliRequests /\ Shaped(Streams)
           /\ Good(Lines("ctl", request), Streams)
           /\ Coding(Lines("ctl", request), Msgs("ctl", request))
           /\ Ends(Streams, cli, stream) /\ Talk(Streams, cli, request, stream, verdict)
           /\ Shown(Streams, cli, request, outcome, stream, verdict, running)
           /\ buf["up"] \in Seq(Bytes) /\ buf["down"] \in Seq(Bytes)
<1>1. /\ request \in CliRequests /\ Good(Lines("ctl", request), Streams)
      /\ CtlOK(Streams, cli, request, outcome, stream, verdict, running)
  BY DEF SessionInv
<1>2. Coding(Lines("ctl", request), Msgs("ctl", request))
  BY <1>1, SessionCoding
<1>3. Shaped(Streams) /\ \A d \in Dirs : Lane(Lines("ctl", request)[d], Streams, d)
  BY <1>1 DEF Good
<1>4. buf["up"] \in Seq(Bytes) /\ buf["down"] \in Seq(Bytes)
  BY <1>3, StreamsIs, DirsIs DEF Lane
<1> QED BY <1>1, <1>2, <1>3, <1>4 DEF CtlOK

\* The tool sends its request.
LEMMA CliSendStep ==
    ASSUME SessionInv, proto = "ctl", CliSend, UNCHANGED <<deviceSessionVars, proto>>
    PROVE  SessionInv'
<1> DEFINE s == Streams
           q == request
           t == Wrote(s, "up", q, EncodeRequest(q))
<1>1. /\ q \in CliRequests /\ Shaped(s) /\ Good(Lines("ctl", q), s)
      /\ Coding(Lines("ctl", q), Msgs("ctl", q))
      /\ Ends(s, cli, stream) /\ Talk(s, cli, q, stream, verdict)
      /\ Shown(s, cli, q, outcome, stream, verdict, running)
  BY CtlBefore
<1>2. /\ cli = "send" /\ running /\ ~Unsendable(RequestFields(q.kind), q.vals)
      /\ cli' = "await" /\ Become(t) /\ UNCHANGED <<request, outcome, stream, verdict, running>>
  BY DEF CliSend, RequestBytes
<1>3. q \in Msgs("ctl", q)["up"] /\ Lines("ctl", q)["up"][q] = EncodeRequest(q)
  <2>1. q \in Msgs("ctl", q)["up"]
    BY <1>2, MsgsIs
  <2>2. Lines("ctl", q)["up"][q] = Encode("ctl", "up", q)
    BY <2>1, LineCode, DirsIs
  <2> QED BY <1>1, <2>1, <2>2, CtlMessages
<1> HIDE DEF s, q
<1>4. Good(Lines("ctl", q), t)
  <2>1. s.open["up"]
    BY <1>1, <1>2 DEF Ends
  <2>2. Good(Lines("ctl", q), Wrote(s, "up", q, Lines("ctl", q)["up"][q]))
    BY <1>1, <1>3, <2>1, GoodWrote, DirsIs
  <2> QED BY <1>3, <2>2
<1>5. /\ Shaped(t) /\ Aside(s, t, "up") /\ t.written["up"] = Append(s.written["up"], q)
      /\ t.open = s.open /\ t.cut = s.cut /\ t.decoded = s.decoded
  <2> DEFINE e == EncodeRequest(q)
  <2> HIDE DEF e
  <2> QED BY <1>1, WroteIs, DirsIs
<1> HIDE DEF t
<1>6. Streams' = t
  BY <1>2, <1>5, BecomeIs DEF Shaped
<1>7. t.written["down"] = s.written["down"] /\ t.written["up"] = <<q>>
  <2>1. s.written["up"] = <<>>
    BY <1>1, <1>2 DEF Talk
  <2>2. Append(<<>>, q) = <<q>>
    OBVIOUS
  <2> QED BY <1>5, <2>1, <2>2, OtherSide, DirsIs
<1>8. Ends(t, "await", stream)
  BY <1>1, <1>2, <1>5 DEF Ends
<1>9. Talk(t, "await", q, stream, verdict)
  BY <1>1, <1>2, <1>5, <1>7 DEF Talk
<1>10. Shown(t, "await", q, outcome, stream, verdict, running)
  BY <1>1, <1>2, <1>5 DEF Shown
<1>11. CtlOK(t, cli', q, outcome', stream', verdict', running')
  BY <1>2, <1>8, <1>9, <1>10 DEF CtlOK
<1>12. OthersOK'
  BY <1>2 DEF SessionInv, OthersOK, deviceSessionVars
<1> QED BY <1>2, <1>4, <1>6, <1>11, <1>12, StepOK DEF q

\* The tool exits.
LEMMA LeavesOK ==
    ASSUME NEW s, NEW t, NEW c, NEW q, NEW o, NEW o2, NEW st, NEW v, NEW ru,
           Ends(s, c, st), Talk(s, c, q, st, v), Shown(s, c, q, o, st, v, ru),
           t.open["up"] = FALSE, t.open["down"] = s.open["down"],
           t.written = s.written, t.decoded["up"] = s.decoded["up"],
           o2 = "answered" => v # <<>> /\ t.decoded["up"] = <<q>> /\ t.decoded["down"] = v,
           o2 = "closed" /\ ru => Refused(v),
           o2 = "undecodable" => t.cut["down"]
    PROVE  CtlOK(t, "exited", q, o2, st, v, ru)
<1>1. Ends(t, "exited", st)
  BY DEF Ends
<1>2. Talk(t, "exited", q, st, v)
  BY DEF Talk
<1>3. Shown(t, "exited", q, o2, st, v, ru)
  BY DEF Shown
<1> QED BY <1>1, <1>2, <1>3 DEF CtlOK

\* handle_stream ends.
LEMMA StreamEndsOK ==
    ASSUME NEW s, NEW t, NEW c, NEW q, NEW o, NEW st, NEW v, NEW ru, NEW ru2,
           Ends(s, c, st), Talk(s, c, q, st, v), Shown(s, c, q, o, st, v, ru),
           t.open["down"] = FALSE, t.open["up"] = s.open["up"],
           t.written = s.written, t.decoded = s.decoded,
           s.cut["down"] => t.cut["down"],
           ru2 => ru, ru2 /\ c # "exited" => Refused(v)
    PROVE  CtlOK(t, c, q, o, "ended", v, ru2)
<1>1. Ends(t, c, "ended")
  BY DEF Ends
<1>2. Talk(t, c, q, "ended", v)
  BY DEF Talk
<1>3. Shown(t, c, q, o, "ended", v, ru2)
  BY DEF Shown
<1> QED BY <1>1, <1>2, <1>3 DEF CtlOK

\* Exit closes the tool's end of the streams x that it leaves.
LEMMA ExitStep ==
    ASSUME SessionInv, proto = "ctl", UNCHANGED <<deviceSessionVars, proto>>,
           NEW x, Good(Lines("ctl", request), x),
           NEW o \in {"answered", "send failed", "undecodable", "closed"}, Exit(o, x),
           x.open = open, x.written = written, x.decoded["up"] = decoded["up"], 
           o = "answered" =>
               verdict # <<>> /\ decoded["up"] = <<request>> /\ x.decoded["down"] = verdict,
           o = "closed" /\ running => Refused(verdict),
           o = "undecodable" => x.cut["down"]
    PROVE  SessionInv'
<1> DEFINE s == Streams
           q == request
           t == Closed(x, "up")
<1>1. /\ Ends(s, cli, stream) /\ Talk(s, cli, q, stream, verdict)
      /\ Shown(s, cli, q, outcome, stream, verdict, running)
  BY CtlBefore
<1>2. /\ cli' = "exited" /\ outcome' = o /\ Become(t)
      /\ UNCHANGED <<request, stream, verdict, running>>
  BY DEF Exit
<1>3. s.open = open /\ s.written = written /\ s.decoded = decoded
  BY StreamsIs
<1> HIDE DEF s, q
<1>4. Good(Lines("ctl", q), t)
  BY GoodClosed, DirsIs DEF q
<1>5. /\ Shaped(t) /\ Aside(x, t, "up") /\ t.open["up"] = FALSE
      /\ t.cut = x.cut /\ t.written = x.written /\ t.decoded = x.decoded
  BY ClosedIs, DirsIs DEF Good
<1> HIDE DEF t
<1>6. Streams' = t
  BY <1>2, <1>5, BecomeIs DEF Shaped
<1>7. t.open["down"] = x.open["down"]
  BY <1>5, DirsIs DEF Aside, Names
<1>8. CtlOK(t, "exited", q, o, stream, verdict, running)
  <2>1. /\ t.open["up"] = FALSE /\ t.open["down"] = s.open["down"]
        /\ t.written = s.written /\ t.decoded["up"] = s.decoded["up"]
    BY <1>3, <1>5, <1>7
  <2>2. o = "answered" =>
            verdict # <<>> /\ t.decoded["up"] = <<q>> /\ t.decoded["down"] = verdict
    BY <1>5 DEF q
  <2>3. o = "undecodable" => t.cut["down"]
    BY <1>5
  <2> QED BY <1>1, <2>1, <2>2, <2>3, LeavesOK
<1>9. OthersOK'
  BY <1>2 DEF SessionInv, OthersOK, deviceSessionVars
<1>10. CtlOK(t, cli', q, outcome', stream', verdict', running')
  BY <1>2, <1>8
<1> QED BY <1>2, <1>4, <1>6, <1>9, <1>10, StepOK DEF q

LEMMA CliSendFailsStep ==
    ASSUME SessionInv, proto = "ctl", CliSendFails, UNCHANGED <<deviceSessionVars, proto>>
    PROVE  SessionInv'
<1>1. Good(Lines("ctl", request), Streams)
  BY CtlBefore
<1>2. Exit("send failed", Streams)
  BY DEF CliSendFails
<1>3. Streams.open = open /\ Streams.written = written /\ Streams.decoded["up"] = decoded["up"]
  BY StreamsIs
<1> QED BY <1>1, <1>2, <1>3, ExitStep

LEMMA CliNextStep ==
    ASSUME SessionInv, proto = "ctl", CliNext, UNCHANGED <<deviceSessionVars, proto>>
    PROVE  SessionInv'
<1> DEFINE s == Streams
           q == request
           code == Lines("ctl", q)
           M == Msgs("ctl", q)
           r == DecodeResponse(buf["down"])
           n == NextResult("down", r)
<1>1. /\ q \in CliRequests /\ Shaped(s) /\ Good(code, s) /\ Coding(code, M)
      /\ Ends(s, cli, stream) /\ Talk(s, cli, q, stream, verdict)
      /\ Shown(s, cli, q, outcome, stream, verdict, running)
      /\ buf["down"] \in Seq(Bytes)
  BY CtlBefore
<1>2. /\ cli = "await"
      /\ \/ n.st = "item" /\ Exit("answered", Took1(s, "down", n))
         \/ n.st = "error" /\ Exit("undecodable", Broke(s, "down"))
         \/ n.st = "end" /\ Exit("closed", s)
  BY DEF CliNext
<1>3. /\ s.buf = buf /\ s.open = open /\ s.written = written /\ s.decoded = decoded
      /\ s.cut = cut
  BY StreamsIs
<1>4. Answer(M["down"], code["down"], buf["down"], r)
  BY <1>1, CtlAnswer
<1> HIDE DEF code, M, r
<1>5. /\ n.st = "item" => n = r
      /\ n.st = "error" => cut["down"]
      /\ n.st = "end" => ~open["down"]
  BY <1>1, <1>4, NextIs, DirsIs
<1>s. Good(Lines("ctl", request), s) /\ s.open = open /\ s.written = written /\ s.decoded["up"] = decoded["up"]
  BY <1>1, <1>3 DEF code
<1> HIDE DEF s, n
<1>6. CASE n.st = "item" /\ Exit("answered", Took1(s, "down", n))
  <2> DEFINE x == Took1(s, "down", n)
  <2>1. Answer(M["down"], code["down"], s.buf["down"], n) /\ n.st = "item"
    BY <1>3, <1>4, <1>5, <1>6
  <2>2. /\ Good(code, x) /\ Len(s.decoded["down"]) < Len(s.written["down"])
        /\ n.item = s.written["down"][Len(s.decoded["down"]) + 1]
    BY <1>1, <2>1, GoodTook, DirsIs
  <2>3. Aside(s, x, "down") /\ TookHere(s, x, "down", n)
    BY <1>1, Took1Is, DirsIs
  <2> HIDE DEF x
  <2>4. s.decoded["down"] = <<>>
    BY <1>1, <1>2 DEF Talk
  <2>5. Len(<<>>) = 0 /\ 0 + 1 = 1 /\ ~(0 < 0) /\ (\A z : Append(<<>>, z) = <<z>>)
    OBVIOUS
  <2>6. s.written["down"] = verdict /\ verdict # <<>> /\ n.item = verdict[1]
    <3>1. s.written["down"] # <<>>
      BY <2>2, <2>4, <2>5
    <3>2. s.written["down"] = verdict
      BY <1>1, <3>1 DEF Talk
    <3> QED BY <2>2, <2>4, <2>5, <3>1, <3>2
  <2>7. x.decoded["down"] = verdict
    <3>1. PICK a : verdict = <<a>>
      BY <1>1, <2>6 DEF Talk
    <3>2. verdict[1] = a
      BY <3>1
    <3> QED BY <2>3, <2>4, <2>5, <2>6, <3>1, <3>2 DEF TookHere
  <2>8. decoded["up"] = <<request>>
    BY <1>1, <1>3, <2>6 DEF Talk, q
  <2>9. x.open = open /\ x.written = written /\ x.decoded["up"] = decoded["up"]
    BY <1>3, <2>3, OtherSide, DirsIs DEF TookHere
  <2>10. Good(Lines("ctl", request), x) /\ Exit("answered", x)
    BY <1>6, <2>2 DEF code, x
  <2> QED BY <2>6, <2>7, <2>8, <2>9, <2>10, ExitStep
<1>7. CASE n.st = "error" /\ Exit("undecodable", Broke(s, "down"))
  <2> DEFINE x == Broke(s, "down")
  <2>1. s.cut["down"]
    BY <1>3, <1>5, <1>7
  <2>2. Good(code, x)
    BY <1>1, <2>1, GoodBroke, DirsIs
  <2>3. x.open = s.open /\ x.cut = s.cut /\ x.written = s.written /\ x.decoded = s.decoded
    BY <1>1, BrokeIs, DirsIs
  <2> HIDE DEF x
  <2>4. /\ x.open = open /\ x.written = written /\ x.decoded["up"] = decoded["up"]
        /\ x.cut["down"]
    BY <1>3, <2>1, <2>3
  <2>5. Good(Lines("ctl", request), x) /\ Exit("undecodable", x)
    BY <1>7, <2>2 DEF code, x
  <2> QED BY <2>4, <2>5, ExitStep
<1>8. CASE n.st = "end" /\ Exit("closed", s)
  <2>1. stream = "ended"
    BY <1>1, <1>3, <1>5, <1>8 DEF Ends
  <2>2. running => Refused(verdict)
    BY <1>1, <1>2, <2>1 DEF Shown
  <2> QED BY <1>8, <1>s, <2>2, ExitStep
<1> QED BY <1>2, <1>6, <1>7, <1>8

LEMMA CliKilledStep ==
    ASSUME SessionInv, proto = "ctl", CliKilled, UNCHANGED <<deviceSessionVars, proto>>
    PROVE  SessionInv'
<1> DEFINE s == Streams
           q == request
           code == Lines("ctl", q)
           M == Msgs("ctl", q)
           e == EncodeRequest(q)
<1>1. /\ q \in CliRequests /\ Shaped(s) /\ Good(code, s) /\ Coding(code, M)
      /\ Ends(s, cli, stream) /\ Talk(s, cli, q, stream, verdict)
      /\ Shown(s, cli, q, outcome, stream, verdict, running)
  BY CtlBefore
<1>2. /\ cli # "exited" /\ cli' = "exited" /\ outcome' = "killed"
      /\ UNCHANGED <<request, stream, verdict, running>>
  BY DEF CliKilled
<1>3. PICK n \in 0..(Len(e) - 1) :
          /\ n > 0 => ~Unsendable(RequestFields(q.kind), q.vals)
          /\ Become(CutOff(s, "up", e, n))
  BY DEF CliKilled, RequestBytes
<1> DEFINE t == CutOff(s, "up", e, n)
<1>4. e \in Seq(Nat) /\ Len(e) \in Nat /\ n \in Nat /\ n <= Len(e) /\ n < Len(e)
  <2>1. e \in Seq(Nat)
    BY <1>1, RequestType
  <2> HIDE DEF e
  <2> QED BY <1>3, <2>1
<1>5. n # 0 => \E m \in M["up"] : e = code["up"][m] /\ n < Len(e)
  <2>1. SUFFICES ASSUME n # 0 PROVE \E m \in M["up"] : e = code["up"][m] /\ n < Len(e)
    OBVIOUS
  <2>2. ~Unsendable(RequestFields(q.kind), q.vals)
    BY <1>3, <1>4, <2>1
  <2>3. q \in M["up"]
    BY <2>2, MsgsIs
  <2>4. code["up"][q] = e
    BY <1>1, <2>3, LineCode, CtlMessages, DirsIs
  <2> QED BY <1>4, <2>3, <2>4
<1> HIDE DEF s, q, code, M, e
<1>6. s.open["up"]
  BY <1>1, <1>2 DEF Ends
<1>7. Good(code, t)
  BY <1>1, <1>4, <1>5, <1>6, GoodCutOff, DirsIs
<1>8. Shaped(t) /\ Aside(s, t, "up") /\ CutHere(s, t, "up", e, n)
  <2>1. s.cut["up"] = FALSE
    <3>1. Lane(code["up"], s, "up")
      BY <1>1, DirsIs DEF Good
    <3> QED BY <1>6, <3>1 DEF Lane
  <2> QED BY <1>1, <1>4, <2>1, CutOffIs, DirsIs
<1>9. Become(t)
  BY <1>3
<1> HIDE DEF t
<1>10. Streams' = t
  BY <1>8, <1>9, BecomeIs DEF Shaped
<1>11. CtlOK(t, "exited", q, "killed", stream, verdict, running)
  <2>1. t.open["down"] = s.open["down"]
    BY <1>8, OtherSide, DirsIs
  <2>2. t.open["up"] = FALSE /\ t.written = s.written /\ t.decoded["up"] = s.decoded["up"]
    BY <1>8 DEF CutHere
  <2> QED BY <1>1, <2>1, <2>2, LeavesOK
<1>12. OthersOK'
  BY <1>2 DEF SessionInv, OthersOK, deviceSessionVars
<1>13. CtlOK(t, cli', q, outcome', stream', verdict', running')
  BY <1>2, <1>11
<1> QED BY <1>2, <1>7, <1>10, <1>12, <1>13, StepOK DEF q, code

\* handle_stream, or the process it runs in, ends and closes the streams x.
LEMMA CloseDownStep ==
    ASSUME SessionInv, proto = "ctl", UNCHANGED <<deviceSessionVars, proto>>,
           NEW x, Good(Lines("ctl", request), x), Become(Closed(x, "down")),
           stream' = "ended", UNCHANGED <<cli, request, outcome, verdict>>,
           running' \in BOOLEAN, running' => running,
           x.open = open, x.written = written, x.decoded = decoded, x.cut = cut,
           running' /\ cli # "exited" => Refused(verdict)
    PROVE  SessionInv'
<1> DEFINE s == Streams
           q == request
           t == Closed(x, "down")
<1>1. /\ Ends(s, cli, stream) /\ Talk(s, cli, q, stream, verdict)
      /\ Shown(s, cli, q, outcome, stream, verdict, running)
  BY CtlBefore
<1>2. s.open = open /\ s.written = written /\ s.decoded = decoded /\ s.cut = cut
  BY StreamsIs
<1> HIDE DEF s, q
<1>3. Good(Lines("ctl", q), t)
  BY GoodClosed, DirsIs DEF q
<1>4. /\ Shaped(t) /\ Aside(x, t, "down") /\ t.open["down"] = FALSE
      /\ t.cut = x.cut /\ t.written = x.written /\ t.decoded = x.decoded
  BY ClosedIs, DirsIs DEF Good
<1> HIDE DEF t
<1>5. Streams' = t
  <2>1. Become(t)
    BY DEF t
  <2> QED BY <1>4, <2>1, BecomeIs DEF Shaped
<1>6. t.open["up"] = x.open["up"]
  BY <1>4, DirsIs DEF Aside, Names
<1>7. CtlOK(t, cli, q, outcome, "ended", verdict, running')
  <2>1. /\ t.open["down"] = FALSE /\ t.open["up"] = s.open["up"]
        /\ t.written = s.written /\ t.decoded = s.decoded
    BY <1>2, <1>4, <1>6
  <2>2. s.cut["down"] => t.cut["down"]
    BY <1>2, <1>4
  <2> QED BY <1>1, <2>1, <2>2, StreamEndsOK
<1>8. OthersOK'
  BY DEF SessionInv, OthersOK, deviceSessionVars
<1>9. CtlOK(t, cli', q, outcome', stream', verdict', running')
  BY <1>7
<1> QED BY <1>3, <1>5, <1>8, <1>9, StepOK DEF q

LEMMA StreamNextStep ==
    ASSUME SessionInv, proto = "ctl", StreamNext, UNCHANGED <<deviceSessionVars, proto>>
    PROVE  SessionInv'
<1> DEFINE s == Streams
           q == request
           code == Lines("ctl", q)
           M == Msgs("ctl", q)
           r == DecodeRequest(buf["up"])
           n == NextResult("up", r)
<1>1. /\ q \in CliRequests /\ Shaped(s) /\ Good(code, s) /\ Coding(code, M)
      /\ Ends(s, cli, stream) /\ Talk(s, cli, q, stream, verdict)
      /\ Shown(s, cli, q, outcome, stream, verdict, running)
      /\ buf["up"] \in Seq(Bytes)
  BY CtlBefore
<1>2. /\ stream = "read"
      /\ \/ /\ n.st = "item" /\ stream' = "main" /\ Become(Took1(s, "up", n))
            /\ UNCHANGED <<cli, request, outcome, verdict, running>>
         \/ n.st = "error" /\ StreamEnds(Broke(s, "up"))
         \/ n.st = "end" /\ StreamEnds(s)
  BY DEF StreamNext
<1>3. /\ s.buf = buf /\ s.open = open /\ s.written = written /\ s.decoded = decoded
      /\ s.cut = cut
  BY StreamsIs
<1>4. Answer(M["up"], code["up"], buf["up"], r)
  BY <1>1, CtlAnswer
<1> HIDE DEF code, M, r
<1>5. /\ n.st = "item" => n = r
      /\ n.st = "error" => cut["up"]
      /\ n.st = "end" => ~open["up"]
  BY <1>1, <1>4, NextIs, DirsIs
<1>l. s.cut["up"] => ~s.open["up"]
  <2>1. Lane(code["up"], s, "up")
    BY <1>1, DirsIs DEF Good
  <2> QED BY <2>1 DEF Lane
<1>b. running \in BOOLEAN
  BY DEF SessionInv, OthersOK
<1> HIDE DEF s, n
<1>6. CASE /\ n.st = "item" /\ stream' = "main" /\ Become(Took1(s, "up", n))
           /\ UNCHANGED <<cli, request, outcome, verdict, running>>
  <2> DEFINE t == Took1(s, "up", n)
  <2>1. Answer(M["up"], code["up"], s.buf["up"], n) /\ n.st = "item"
    BY <1>3, <1>4, <1>5, <1>6
  <2>2. /\ Good(code, t) /\ Len(s.decoded["up"]) < Len(s.written["up"])
        /\ n.item = s.written["up"][Len(s.decoded["up"]) + 1]
    BY <1>1, <2>1, GoodTook, DirsIs
  <2>3. Shaped(t) /\ Aside(s, t, "up") /\ TookHere(s, t, "up", n)
    BY <1>1, Took1Is, DirsIs
  <2>b. Become(t)
    BY <1>6
  <2> HIDE DEF t
  <2>4. Streams' = t
    BY <2>3, <2>b, BecomeIs DEF Shaped
  <2>5. Len(<<>>) = 0 /\ Len(<<q>>) = 1 /\ <<q>>[1] = q /\ (\A z : Append(<<>>, z) = <<z>>)
    OBVIOUS
  <2>6. verdict = <<>> /\ s.decoded["up"] = <<>> /\ s.written["up"] = <<q>>
    <3>1. s.written["up"] = <<>> \/ s.written["up"] = <<q>>
      BY <1>1 DEF Talk
    <3>2. s.decoded["up"] # <<q>>
      <4>1. SUFFICES ASSUME s.decoded["up"] = <<q>> PROVE FALSE
        OBVIOUS
      <4>2. ~(1 < 0) /\ ~(1 < 1)
        OBVIOUS
      <4>3. Len(s.decoded["up"]) = 1
        BY <2>5, <4>1, Zenon
      <4>4. Len(s.written["up"]) = 0 \/ Len(s.written["up"]) = 1
        BY <2>5, <3>1, Zenon
      <4> QED BY <2>2, <4>2, <4>3, <4>4, Zenon
    <3>3. verdict = <<>>
      BY <1>1, <3>2 DEF Talk
    <3>4. s.decoded["up"] = <<>>
      BY <1>1, <1>2, <3>3 DEF Talk
    <3>5. s.written["up"] # <<>>
      BY <2>2, <2>5, <3>4
    <3> QED BY <3>1, <3>3, <3>4, <3>5
  <2>7. n.item = q /\ t.decoded["up"] = <<q>>
    <3>1. n.item = q
      BY <2>2, <2>5, <2>6
    <3> QED BY <2>3, <2>5, <2>6, <3>1 DEF TookHere
  <2>8. /\ t.open = s.open /\ t.cut = s.cut /\ t.written = s.written
        /\ t.decoded["down"] = s.decoded["down"]
    BY <2>3, DirsIs DEF TookHere, Aside, Names
  <2>9. Ends(t, cli, "main")
    BY <1>1, <1>2, <2>8 DEF Ends
  <2>10. Talk(t, cli, q, "main", verdict)
    <3>1. s.written["down"] = <<>>
      BY <1>1, <1>2, <2>6 DEF Talk
    <3> QED BY <1>1, <2>6, <2>7, <2>8, <3>1 DEF Talk
  <2>11. Shown(t, cli, q, outcome, "main", verdict, running)
    BY <1>1, <1>2, <2>6, <2>7, <2>8 DEF Shown
  <2>12. CtlOK(t, cli', q, outcome', stream', verdict', running')
    BY <1>6, <2>9, <2>10, <2>11 DEF CtlOK
  <2>13. OthersOK'
    BY <1>6 DEF SessionInv, OthersOK, deviceSessionVars
  <2> QED BY <1>6, <2>2, <2>4, <2>12, <2>13, StepOK DEF q, code
<1>7. CASE n.st = "error" /\ StreamEnds(Broke(s, "up"))
  <2> DEFINE x == Broke(s, "up")
  <2>1. s.cut["up"] /\ cli = "exited"
    BY <1>1, <1>3, <1>5, <1>7, <1>l DEF Ends
  <2>2. Good(code, x)
    BY <1>1, <2>1, GoodBroke, DirsIs
  <2>3. x.open = s.open /\ x.cut = s.cut /\ x.written = s.written /\ x.decoded = s.decoded
    BY <1>1, BrokeIs, DirsIs
  <2>4. /\ stream' = "ended" /\ Become(Closed(x, "down"))
        /\ UNCHANGED <<cli, request, outcome, verdict, running>>
    BY <1>7 DEF StreamEnds
  <2> HIDE DEF x
  <2>5. x.open = open /\ x.written = written /\ x.decoded = decoded /\ x.cut = cut
    BY <1>3, <2>3
  <2>6. Good(Lines("ctl", request), x) /\ running' \in BOOLEAN /\ (running' => running)
    BY <1>b, <2>2, <2>4 DEF code, q
  <2> QED BY <2>1, <2>4, <2>5, <2>6, CloseDownStep
<1>8. CASE n.st = "end" /\ StreamEnds(s)
  <2>1. cli = "exited"
    BY <1>1, <1>3, <1>5, <1>8 DEF Ends
  <2>2. /\ stream' = "ended" /\ Become(Closed(s, "down"))
        /\ UNCHANGED <<cli, request, outcome, verdict, running>>
    BY <1>8 DEF StreamEnds
  <2>3. Good(Lines("ctl", request), s) /\ running' \in BOOLEAN /\ (running' => running)
    BY <1>1, <1>b, <2>2 DEF code, q
  <2> QED BY <1>3, <2>1, <2>2, <2>3, CloseDownStep
<1> QED BY <1>2, <1>6, <1>7, <1>8

LEMMA MainAnswersStep ==
    ASSUME SessionInv, proto = "ctl", MainAnswers, UNCHANGED <<deviceSessionVars, proto>>
    PROVE  SessionInv'
<1> DEFINE s == Streams
           q == request
<1>1. /\ Good(Lines("ctl", q), s) /\ Ends(s, cli, stream) /\ Talk(s, cli, q, stream, verdict)
      /\ Shown(s, cli, q, outcome, stream, verdict, running)
  BY CtlBefore
<1>2. /\ stream = "main" /\ stream' = "reply"
      /\ UNCHANGED <<streamVars, cli, request, outcome, running>>
  BY DEF MainAnswers
<1>3. PICK v \in Answers(decoded["up"][Len(decoded["up"])]) \cup {ErrorText(<<>>)} :
          verdict' = <<v>>
  BY DEF MainAnswers
<1>4. s.decoded = decoded /\ Streams' = s
  BY <1>2, StreamsIs DEF Streams, streamVars
<1> HIDE DEF s
<1>5. verdict = <<>> /\ s.decoded["up"] = <<q>> /\ s.written["down"] = <<>>
  BY <1>1, <1>2 DEF Talk
<1>6. v \in Answers(q) \cup {ErrorText(<<>>)}
  <2>1. Len(<<q>>) = 1 /\ <<q>>[1] = q
    OBVIOUS
  <2> QED BY <1>3, <1>4, <1>5, <2>1
<1>7. <<v>> # <<>>
  OBVIOUS
<1>8. Ends(s, cli, "reply")
  BY <1>1, <1>2 DEF Ends
<1>9. Talk(s, cli, q, "reply", <<v>>)
  BY <1>1, <1>5, <1>6, <1>7 DEF Talk
<1>10. Shown(s, cli, q, outcome, "reply", <<v>>, running)
  BY <1>1, <1>2, <1>5 DEF Shown, Refused
<1>11. CtlOK(s, cli', q, outcome', stream', verdict', running')
  BY <1>2, <1>3, <1>8, <1>9, <1>10 DEF CtlOK
<1>12. OthersOK'
  BY <1>2 DEF SessionInv, OthersOK, deviceSessionVars
<1> QED BY <1>1, <1>2, <1>4, <1>11, <1>12, StepOK

LEMMA ReplyStep ==
    ASSUME SessionInv, proto = "ctl", Reply, UNCHANGED <<deviceSessionVars, proto>>
    PROVE  SessionInv'
<1> DEFINE s == Streams
           q == request
           code == Lines("ctl", q)
           M == Msgs("ctl", q)
           v == Verdict
           t == Wrote(s, "down", v, EncodeResponse(v))
<1>1. /\ q \in CliRequests /\ Shaped(s) /\ Good(code, s) /\ Coding(code, M)
      /\ Ends(s, cli, stream) /\ Talk(s, cli, q, stream, verdict)
      /\ Shown(s, cli, q, outcome, stream, verdict, running)
  BY CtlBefore
<1>2. /\ stream = "reply" /\ cli # "exited" /\ ~Unsendable(ResponseFields(v), v.vals)
      /\ stream' = "read" /\ Become(t) /\ UNCHANGED <<cli, request, outcome, verdict, running>>
  BY DEF Reply
<1>3. verdict = <<v>> /\ v \in Answers(q) \cup {ErrorText(<<>>)} /\ s.written["down"] = <<>>
  <2>1. verdict # <<>> /\ s.written["down"] = <<>>
    BY <1>1, <1>2 DEF Talk
  <2>2. PICK a \in Answers(q) \cup {ErrorText(<<>>)} : verdict = <<a>>
    BY <1>1, <2>1 DEF Talk
  <2>3. v = a
    BY <2>2 DEF Verdict
  <2> QED BY <2>1, <2>2, <2>3
<1>4. v \in M["down"] /\ code["down"][v] = EncodeResponse(v)
  <2>1. v \in M["down"]
    BY <1>2, <1>3, MsgsIs
  <2>2. code["down"][v] = Encode("ctl", "down", v)
    BY <2>1, LineCode, DirsIs
  <2> QED BY <1>1, <2>1, <2>2, CtlMessages
<1> HIDE DEF s, q, code, M, v
<1>5. Good(code, t)
  <2>1. s.open["down"]
    BY <1>1, <1>2 DEF Ends
  <2>2. Good(code, Wrote(s, "down", v, code["down"][v]))
    BY <1>1, <1>4, <2>1, GoodWrote, DirsIs
  <2> QED BY <1>4, <2>2
<1>6. /\ Shaped(t) /\ Aside(s, t, "down") /\ t.written["down"] = Append(s.written["down"], v)
      /\ t.open = s.open /\ t.cut = s.cut /\ t.decoded = s.decoded
  <2> DEFINE e == EncodeResponse(v)
  <2> HIDE DEF e
  <2> QED BY <1>1, WroteIs, DirsIs
<1> HIDE DEF t
<1>7. Streams' = t
  BY <1>2, <1>6, BecomeIs DEF Shaped
<1>8. t.written["up"] = s.written["up"] /\ t.written["down"] = <<v>>
  <2>1. Append(<<>>, v) = <<v>>
    OBVIOUS
  <2> QED BY <1>3, <1>6, <2>1, DirsIs DEF Aside, Names
<1>9. Ends(t, cli, "read")
  BY <1>1, <1>2, <1>6 DEF Ends
<1>10. Talk(t, cli, q, "read", verdict)
  <2>1. verdict # <<>>
    BY <1>1, <1>2 DEF Talk
  <2> QED BY <1>1, <1>3, <1>6, <1>8, <2>1 DEF Talk
<1>11. Shown(t, cli, q, outcome, "read", verdict, running)
  BY <1>1, <1>2, <1>6 DEF Shown
<1>12. CtlOK(t, cli', q, outcome', stream', verdict', running')
  BY <1>2, <1>9, <1>10, <1>11 DEF CtlOK
<1>13. OthersOK'
  BY <1>2 DEF SessionInv, OthersOK, deviceSessionVars
<1> QED BY <1>2, <1>5, <1>7, <1>12, <1>13, StepOK DEF q, code

LEMMA ReplyPanicsStep ==
    ASSUME SessionInv, proto = "ctl", ReplyPanics, UNCHANGED <<deviceSessionVars, proto>>
    PROVE  SessionInv'
<1>1. /\ Good(Lines("ctl", request), Streams)
      /\ Talk(Streams, cli, request, stream, verdict)
  BY CtlBefore
<1>2. /\ stream = "reply" /\ stream' = "ended" /\ Become(Closed(Streams, "down"))
      /\ UNCHANGED <<cli, request, outcome, verdict, running>>
      /\ Unsendable(ResponseFields(Verdict), Verdict.vals) \/ cli = "exited"
  BY DEF ReplyPanics, StreamEnds
<1>3. cli # "exited" => Refused(verdict)
  BY <1>1, <1>2 DEF Talk, Refused, Verdict
<1>4. /\ Streams.open = open /\ Streams.written = written /\ Streams.decoded = decoded
      /\ Streams.cut = cut
  BY StreamsIs
<1>5. running' \in BOOLEAN /\ (running' => running)
  BY <1>2 DEF SessionInv, OthersOK
<1> QED BY <1>1, <1>2, <1>3, <1>4, <1>5, CloseDownStep

LEMMA DaemonStopsStep ==
    ASSUME SessionInv, proto = "ctl", DaemonStops, UNCHANGED <<deviceSessionVars, proto>>
    PROVE  SessionInv'
<1> DEFINE s == Streams
           q == request
           code == Lines("ctl", q)
           M == Msgs("ctl", q)
           v == Verdict
           e == EncodeResponse(v)
<1>1. /\ q \in CliRequests /\ Shaped(s) /\ Good(code, s) /\ Coding(code, M)
      /\ Ends(s, cli, stream) /\ Talk(s, cli, q, stream, verdict)
      /\ Shown(s, cli, q, outcome, stream, verdict, running)
  BY CtlBefore
<1>2. /\ running' = FALSE /\ stream' = "ended" /\ UNCHANGED <<cli, request, outcome, verdict>>
      /\ \/ Become(Closed(s, "down"))
         \/ /\ stream = "reply" /\ cli # "exited"
            /\ ~Unsendable(ResponseFields(v), v.vals)
            /\ \E n \in 1..(Len(e) - 1) : Become(CutOff(s, "down", e, n))
  BY DEF DaemonStops
<1>3. s.open = open /\ s.written = written /\ s.decoded = decoded /\ s.cut = cut
  BY StreamsIs
<1>4. CASE Become(Closed(s, "down"))
  BY <1>1, <1>2, <1>3, <1>4, CloseDownStep
<1>5. CASE /\ stream = "reply" /\ ~Unsendable(ResponseFields(v), v.vals)
           /\ \E n \in 1..(Len(e) - 1) : Become(CutOff(s, "down", e, n))
  <2>1. PICK n \in 1..(Len(e) - 1) : Become(CutOff(s, "down", e, n))
    BY <1>5
  <2> DEFINE t == CutOff(s, "down", e, n)
  <2>2. v \in M["down"]
    <3>1. verdict # <<>>
      BY <1>1, <1>5 DEF Talk
    <3>2. PICK a \in Answers(q) \cup {ErrorText(<<>>)} : verdict = <<a>>
      BY <1>1, <3>1 DEF Talk
    <3>3. v = a
      BY <3>2 DEF Verdict
    <3> QED BY <1>5, <3>2, <3>3, MsgsIs
  <2>3. code["down"][v] = e /\ e \in Seq(Bytes)
    BY <1>1, <2>2, LineCode, CtlMessages, DirsIs
  <2> HIDE DEF s, q, code, M, e
  <2>4. /\ e \in Seq(Nat) /\ n \in Nat /\ n <= Len(e) /\ n # 0 /\ n < Len(e)
    <3>1. e \in Seq(Nat)
      BY <2>3, BaseFacts
    <3> QED BY <2>1, <2>3, <3>1
  <2>5. \E m \in M["down"] : e = code["down"][m] /\ n < Len(e)
    BY <2>2, <2>3, <2>4
  <2>6. s.open["down"]
    BY <1>1, <1>5 DEF Ends
  <2>7. Good(code, t)
    BY <1>1, <2>4, <2>5, <2>6, GoodCutOff, DirsIs
  <2>8. Shaped(t) /\ Aside(s, t, "down") /\ CutHere(s, t, "down", e, n)
    <3>1. s.cut["down"] = FALSE
      <4>1. Lane(code["down"], s, "down")
        BY <1>1, DirsIs DEF Good
      <4> QED BY <2>6, <4>1 DEF Lane
    <3> QED BY <1>1, <2>4, <3>1, CutOffIs, DirsIs
  <2>9. Become(t)
    BY <2>1
  <2> HIDE DEF t
  <2>10. Streams' = t
    BY <2>8, <2>9, BecomeIs DEF Shaped
  <2>11. CtlOK(t, cli, q, outcome, "ended", verdict, FALSE)
    <3>1. t.open["up"] = s.open["up"]
      BY <2>8, DirsIs DEF Aside, Names
    <3>2. /\ t.open["down"] = FALSE /\ t.written = s.written /\ t.decoded = s.decoded
          /\ t.cut["down"] = TRUE
      BY <2>4, <2>8 DEF CutHere
    <3>3. s.cut["down"] => t.cut["down"]
      BY <3>2
    <3> QED BY <1>1, <3>1, <3>2, <3>3, StreamEndsOK
  <2>12. OthersOK'
    BY <1>2 DEF SessionInv, OthersOK, deviceSessionVars
  <2>13. CtlOK(t, cli', q, outcome', stream', verdict', running')
    BY <1>2, <2>11
  <2> QED BY <1>2, <2>7, <2>10, <2>12, <2>13, StepOK DEF q, code
<1> QED BY <1>2, <1>4, <1>5

\* What holds before any step of a device session.
LEMMA DeviceBefore ==
    ASSUME SessionInv, proto = "device"
    PROVE  /\ request \in CliRequests /\ Shaped(Streams)
           /\ Good(Lines("device", request), Streams)
           /\ Coding(Lines("device", request), Msgs("device", request))
           /\ Streams.open["up"] <=> host
           /\ buf["up"] \in Seq(Bytes) /\ buf["down"] \in Seq(Bytes)
<1>1. /\ request \in CliRequests /\ Good(Lines("device", request), Streams)
      /\ Streams.open["up"] <=> host
  BY DEF SessionInv
<1>2. Coding(Lines("device", request), Msgs("device", request))
  BY <1>1, SessionCoding
<1>3. Shaped(Streams) /\ \A d \in Dirs : Lane(Lines("device", request)[d], Streams, d)
  BY <1>1 DEF Good
<1>4. buf["up"] \in Seq(Bytes) /\ buf["down"] \in Seq(Bytes)
  BY <1>3, StreamsIs, DirsIs DEF Lane
<1> QED BY <1>1, <1>2, <1>3, <1>4

LEMMA DeviceStepOK ==
    ASSUME SessionInv, proto = "device", UNCHANGED <<ctlSessionVars, proto>>, NEW t, Become(t),
           Good(Lines("device", request), t), t.open["up"] <=> host',
           peer' = peer, host' \in BOOLEAN, listens' \in BOOLEAN,
           last_ctl_resp_status' \in {Ok, NotSupported}, inputs' \in Nat
    PROVE  SessionInv'
<1>1. Streams' = t
  BY BecomeIs DEF Good, Shaped
<1>2. OthersOK'
  BY DEF SessionInv, OthersOK, ctlSessionVars
<1>3. proto' = proto /\ request' = request
  BY DEF ctlSessionVars
<1> QED BY <1>1, <1>2, <1>3, StepOK

\* The kinds and the values of the variables a device step leaves alone.
LEMMA DeviceTypes ==
    ASSUME SessionInv
    PROVE  /\ host \in BOOLEAN /\ listens \in BOOLEAN
           /\ last_ctl_resp_status \in {Ok, NotSupported} /\ inputs \in Nat
BY DEF SessionInv, OthersOK

\* A message of a device session is written.
LEMMA DeviceWrote ==
    ASSUME NEW q \in CliRequests, NEW s, Good(Lines("device", q), s), NEW d \in Dirs, s.open[d],
           NEW m \in Msgs("device", q)[d]
    PROVE  /\ Good(Lines("device", q), Wrote(s, d, m, EncodeDevice(m)))
           /\ Wrote(s, d, m, EncodeDevice(m)).open = s.open
<1> DEFINE code == Lines("device", q)
           e == EncodeDevice(m)
<1>1. Coding(code, Msgs("device", q))
  BY SessionCoding
<1>2. code[d][m] = e
  BY LineCode, DeviceMessages
<1>3. Shaped(s)
  BY DEF Good
<1> HIDE DEF code, e
<1>4. Good(code, s)
  BY DEF code
<1>5. Good(code, Wrote(s, d, m, code[d][m]))
  BY <1>1, <1>4, GoodWrote
<1>6. Wrote(s, d, m, e).open = s.open
  BY <1>3, WroteIs
<1> QED BY <1>2, <1>5, <1>6 DEF code, e

\* A stream of a device session is cut.
LEMMA DeviceCut ==
    ASSUME NEW q \in CliRequests, NEW s, Good(Lines("device", q), s), NEW d \in Dirs, s.open[d],
           NEW m \in Msgs("device", q)[d], NEW n \in Nat, n < Len(EncodeDevice(m))
    PROVE  LET t == CutOff(s, d, EncodeDevice(m), n) IN
           Good(Lines("device", q), t) /\ Aside(s, t, d) /\ t.open[d] = FALSE
<1> DEFINE code == Lines("device", q)
           M == Msgs("device", q)
           e == EncodeDevice(m)
           t == CutOff(s, d, e, n)
<1>1. Coding(code, M)
  BY SessionCoding
<1>2. code[d][m] = e /\ e \in Seq(Bytes) /\ m \in M[d] /\ n < Len(e)
  BY LineCode, DeviceMessages
<1>3. Shaped(s) /\ Lane(code[d], s, d) /\ Good(code, s)
  BY DEF Good
<1> HIDE DEF code, e, M
<1>4. e \in Seq(Nat) /\ n <= Len(e)
  <2>1. e \in Seq(Nat)
    BY <1>2, BaseFacts
  <2> QED BY <1>2, <2>1
<1>5. \E k \in M[d] : e = code[d][k] /\ n < Len(e)
  BY <1>2
<1>6. Good(code, t)
  BY <1>1, <1>3, <1>4, <1>5, GoodCutOff
<1>7. s.cut[d] = FALSE
  BY <1>3 DEF Lane
<1>8. Aside(s, t, d) /\ CutHere(s, t, d, e, n)
  BY <1>3, <1>7, CutOffIs
<1> HIDE DEF t
<1>9. t.open[d] = FALSE
  BY <1>8 DEF CutHere
<1> QED BY <1>6, <1>8, <1>9 DEF t, e, code

LEMMA BridgeSendStep ==
    ASSUME SessionInv, proto = "device", UNCHANGED <<ctlSessionVars, proto>>,
           NEW m \in HostMessages, BridgeSend(m)
    PROVE  SessionInv'
<1> DEFINE s == Streams
           t == Wrote(s, "up", m, EncodeDevice(m))
<1>1. request \in CliRequests /\ Good(Lines("device", request), s) /\ (s.open["up"] <=> host)
  BY DeviceBefore
<1>2. host /\ Become(t) /\ UNCHANGED deviceSessionVars
  BY DEF BridgeSend
<1>3. m \in Msgs("device", request)["up"]
  BY MsgsIs
<1> HIDE DEF s
<1>4. s.open["up"]
  BY <1>1, <1>2
<1>5. Good(Lines("device", request), t) /\ t.open = s.open
  BY <1>1, <1>3, <1>4, DeviceWrote, DirsIs
<1> HIDE DEF t
<1>6. t.open["up"] <=> host'
  BY <1>1, <1>2, <1>5 DEF deviceSessionVars
<1>7. /\ peer' = peer /\ host' \in BOOLEAN /\ listens' \in BOOLEAN
      /\ last_ctl_resp_status' \in {Ok, NotSupported} /\ inputs' \in Nat
  BY <1>2, DeviceTypes DEF deviceSessionVars
<1> QED BY <1>2, <1>5, <1>6, <1>7, DeviceStepOK

LEMMA BridgeDropsStep ==
    ASSUME SessionInv, proto = "device", UNCHANGED <<ctlSessionVars, proto>>,
           NEW x, Good(Lines("device", request), x), BridgeDrops(x)
    PROVE  SessionInv'
<1> DEFINE t == Closed(x, "up")
<1>1. /\ host' = FALSE /\ Become(t) /\ UNCHANGED <<peer, listens, last_ctl_resp_status, inputs>>
  BY DEF BridgeDrops
<1>2. Good(Lines("device", request), t)
  BY GoodClosed, DirsIs
<1>3. t.open["up"] = FALSE
  BY ClosedIs, DirsIs DEF Good
<1> HIDE DEF t
<1>4. t.open["up"] <=> host'
  BY <1>1, <1>3
<1>5. /\ peer' = peer /\ host' \in BOOLEAN /\ listens' \in BOOLEAN
      /\ last_ctl_resp_status' \in {Ok, NotSupported} /\ inputs' \in Nat
  BY <1>1, DeviceTypes
<1> QED BY <1>1, <1>2, <1>4, <1>5, DeviceStepOK

LEMMA BridgeNextStep ==
    ASSUME SessionInv, proto = "device", UNCHANGED <<ctlSessionVars, proto>>, BridgeNext
    PROVE  SessionInv'
<1> DEFINE s == Streams
           code == Lines("device", request)
           M == Msgs("device", request)
           r == DecodeDevice(buf["down"])
           n == NextResult("down", r)
<1>1. /\ Shaped(s) /\ Good(code, s) /\ Coding(code, M) /\ (s.open["up"] <=> host)
      /\ buf["down"] \in Seq(Bytes)
  BY DeviceBefore
<1>2. \/ n.st = "item" /\ Become(Took1(s, "down", n)) /\ UNCHANGED deviceSessionVars
      \/ n.st = "error" /\ BridgeDrops(Broke(s, "down"))
      \/ n.st = "end" /\ BridgeDrops(s)
  BY DEF BridgeNext
<1>3. s.buf = buf /\ s.cut = cut
  BY StreamsIs
<1>4. Answer(M["down"], code["down"], buf["down"], r)
  BY <1>1, DeviceAnswer, DirsIs
<1> HIDE DEF code, M, r
<1>5. (n.st = "item" => n = r) /\ (n.st = "error" => cut["down"])
  BY <1>1, <1>4, NextIs, DirsIs
<1> HIDE DEF s, n
<1>6. CASE n.st = "item" /\ Become(Took1(s, "down", n)) /\ UNCHANGED deviceSessionVars
  <2> DEFINE t == Took1(s, "down", n)
  <2>1. Answer(M["down"], code["down"], s.buf["down"], n) /\ n.st = "item" /\ Become(t)
    BY <1>3, <1>4, <1>5, <1>6
  <2>2. Good(code, t)
    BY <1>1, <2>1, GoodTook, DirsIs
  <2>3. TookHere(s, t, "down", n)
    BY <1>1, Took1Is, DirsIs
  <2> HIDE DEF t
  <2>4. t.open["up"] <=> host'
    BY <1>1, <1>6, <2>3 DEF TookHere, deviceSessionVars
  <2>5. /\ peer' = peer /\ host' \in BOOLEAN /\ listens' \in BOOLEAN
        /\ last_ctl_resp_status' \in {Ok, NotSupported} /\ inputs' \in Nat
    BY <1>6, DeviceTypes DEF deviceSessionVars
  <2> QED BY <2>1, <2>2, <2>4, <2>5, DeviceStepOK DEF code
<1>7. CASE n.st = "error" /\ BridgeDrops(Broke(s, "down"))
  <2>1. s.cut["down"]
    BY <1>3, <1>5, <1>7
  <2>2. Good(code, Broke(s, "down"))
    BY <1>1, <2>1, GoodBroke, DirsIs
  <2> QED BY <1>7, <2>2, BridgeDropsStep DEF code
<1>8. CASE n.st = "end" /\ BridgeDrops(s)
  BY <1>1, <1>8, BridgeDropsStep DEF code
<1> QED BY <1>2, <1>6, <1>7, <1>8

LEMMA BridgeClosesStep ==
    ASSUME SessionInv, proto = "device", UNCHANGED <<ctlSessionVars, proto>>,
           NEW m \in HostMessages, NEW n \in Nat, BridgeCloses(m, n)
    PROVE  SessionInv'
<1> DEFINE s == Streams
           t == CutOff(s, "up", EncodeDevice(m), n)
<1>1. request \in CliRequests /\ Good(Lines("device", request), s) /\ (s.open["up"] <=> host)
  BY DeviceBefore
<1>2. /\ host /\ n < Len(EncodeDevice(m)) /\ host' = FALSE /\ Become(t)
      /\ UNCHANGED <<peer, listens, last_ctl_resp_status, inputs>>
  BY DEF BridgeCloses
<1>3. m \in Msgs("device", request)["up"] /\ n \in Nat
  BY MsgsIs
<1> HIDE DEF s
<1>4. s.open["up"]
  BY <1>1, <1>2
<1>5. Good(Lines("device", request), t) /\ t.open["up"] = FALSE
  <2>1. n < Len(EncodeDevice(m)) /\ "up" \in Dirs
    BY <1>2, DirsIs
  <2>2. request \in CliRequests /\ Good(Lines("device", request), s)
    BY <1>1
  <2> QED BY <1>3, <1>4, <2>1, <2>2, DeviceCut
<1> HIDE DEF t
<1>6. t.open["up"] <=> host'
  BY <1>2, <1>5
<1>7. /\ peer' = peer /\ host' \in BOOLEAN /\ listens' \in BOOLEAN
      /\ last_ctl_resp_status' \in {Ok, NotSupported} /\ inputs' \in Nat
  BY <1>2, DeviceTypes
<1> QED BY <1>2, <1>5, <1>6, <1>7, DeviceStepOK

\* The peer takes a message, and answers it if it is a request.
LEMMA PeerTakesStep ==
    ASSUME SessionInv, proto = "device", UNCHANGED <<ctlSessionVars, proto>>,
           NEW r, NEW a \in {Ok, NotSupported}, PeerTakes(r, a), open["down"],
           Answer(Msgs("device", request)["up"], Lines("device", request)["up"], buf["up"], r),
           r.st = "item", last_ctl_resp_status' \in {Ok, NotSupported}
    PROVE  SessionInv'
<1> DEFINE s == Streams
           code == Lines("device", request)
           M == Msgs("device", request)
           x == Took1(s, "up", r)
           t == Wrote(x, "down", Response(a), EncodeDevice(Response(a)))
<1>1. /\ request \in CliRequests /\ Shaped(s) /\ Good(code, s) /\ Coding(code, M)
      /\ (s.open["up"] <=> host)
  BY DeviceBefore
<1>2. /\ Become(IF r.item.kind = ControlReqKind THEN t ELSE x)
      /\ UNCHANGED <<peer, host, listens, inputs>>
  BY DEF PeerTakes
<1>3. s.buf = buf /\ s.open = open
  BY StreamsIs
<1>4. /\ peer' = peer /\ host' \in BOOLEAN /\ listens' \in BOOLEAN
      /\ last_ctl_resp_status' \in {Ok, NotSupported} /\ inputs' \in Nat
  BY <1>2, DeviceTypes
<1>5. Answer(M["up"], code["up"], s.buf["up"], r)
  BY <1>3
<1>m. Response(a) \in M["down"]
  BY MsgsIs
<1> HIDE DEF s, code, M
<1>6. Good(code, x)
  BY <1>1, <1>5, GoodTook, DirsIs
<1>7. TookHere(s, x, "up", r)
  BY <1>1, Took1Is, DirsIs
<1> HIDE DEF x
<1>8. x.open = s.open
  BY <1>7 DEF TookHere
<1>9. CASE r.item.kind = ControlReqKind
  <2>1. x.open["down"]
    BY <1>3, <1>8
  <2>2. Good(code, t) /\ t.open = x.open
    BY <1>1, <1>6, <1>m, <2>1, DeviceWrote, DirsIs DEF code, M
  <2>3. Become(t)
    BY <1>2, <1>9
  <2> HIDE DEF t
  <2>4. t.open["up"] <=> host'
    BY <1>1, <1>2, <1>8, <2>2
  <2> QED BY <1>4, <2>2, <2>3, <2>4, DeviceStepOK DEF code
<1>10. CASE r.item.kind # ControlReqKind
  <2>1. Become(x)
    BY <1>2, <1>10
  <2>2. x.open["up"] <=> host'
    BY <1>1, <1>2, <1>8
  <2> QED BY <1>4, <1>6, <2>1, <2>2, DeviceStepOK DEF code
<1> QED BY <1>9, <1>10

LEMMA PeerStopsStep ==
    ASSUME SessionInv, proto = "device", UNCHANGED <<ctlSessionVars, proto>>,
           NEW x, Good(Lines("device", request), x), PeerStops(x), x.open = open
    PROVE  SessionInv'
<1>1. /\ listens' = FALSE /\ Become(x)
      /\ UNCHANGED <<peer, host, last_ctl_resp_status, inputs>>
  BY DEF PeerStops
<1>2. x.open["up"] <=> host'
  <2>1. Streams.open["up"] <=> host
    BY DeviceBefore
  <2>2. Streams.open = open
    BY StreamsIs
  <2> QED BY <1>1, <2>1, <2>2
<1>3. /\ peer' = peer /\ host' \in BOOLEAN /\ listens' \in BOOLEAN
      /\ last_ctl_resp_status' \in {Ok, NotSupported} /\ inputs' \in Nat
  BY <1>1, DeviceTypes
<1> QED BY <1>1, <1>2, <1>3, DeviceStepOK

LEMMA FirmwareReadsStep ==
    ASSUME SessionInv, proto = "device", UNCHANGED <<ctlSessionVars, proto>>, FirmwareReads
    PROVE  SessionInv'
<1> DEFINE r == read_msg(buf["up"])
<1>1. Good(Lines("device", request), Streams) /\ buf["up"] \in Seq(Bytes)
  BY DeviceBefore
<1>2. /\ open["down"]
      /\ \/ /\ r.st = "item" /\ \E a \in {Ok, NotSupported} : PeerTakes(r, a)
            /\ UNCHANGED last_ctl_resp_status
         \/ PeerStops(Streams)
  BY DEF FirmwareReads
<1>3. Answer(Msgs("device", request)["up"], Lines("device", request)["up"], buf["up"], r)
  BY <1>1, DeviceAnswer
<1>4. Streams.open = open
  BY StreamsIs
<1> HIDE DEF r
<1>5. CASE /\ r.st = "item" /\ \E a \in {Ok, NotSupported} : PeerTakes(r, a)
           /\ UNCHANGED last_ctl_resp_status
  <2>1. PICK a \in {Ok, NotSupported} : PeerTakes(r, a)
    BY <1>5
  <2>2. last_ctl_resp_status' \in {Ok, NotSupported}
    BY <1>5, DeviceTypes
  <2> QED BY <1>2, <1>3, <1>5, <2>1, <2>2, PeerTakesStep
<1>6. CASE PeerStops(Streams)
  BY <1>1, <1>4, <1>6, PeerStopsStep
<1> QED BY <1>2, <1>5, <1>6

LEMMA TestServerReadsStep ==
    ASSUME SessionInv, proto = "device", UNCHANGED <<ctlSessionVars, proto>>, TestServerReads
    PROVE  SessionInv'
<1> DEFINE s == Streams
           r == DecodeDevice(buf["up"])
           n == NextResult("up", r)
           code == Lines("device", request)
           M == Msgs("device", request)
           g == IF last_ctl_resp_status = Ok THEN NotSupported ELSE Ok
<1>1. Shaped(s) /\ Good(code, s) /\ Coding(code, M) /\ buf["up"] \in Seq(Bytes)
  BY DeviceBefore
<1>2. /\ open["down"]
      /\ \/ /\ n.st = "item" /\ PeerTakes(n, g)
            /\ last_ctl_resp_status' = IF n.item.kind = ControlReqKind THEN g
                                       ELSE last_ctl_resp_status
         \/ n.st = "error" /\ PeerStops(Broke(s, "up"))
         \/ n.st = "end" /\ PeerStops(s)
  BY DEF TestServerReads
<1>3. Answer(M["up"], code["up"], buf["up"], r)
  BY <1>1, DeviceAnswer, DirsIs
<1>4. s.open = open /\ s.cut = cut
  BY StreamsIs
<1>g. g \in {Ok, NotSupported}
  OBVIOUS
<1> HIDE DEF code, M, r, g
<1>5. (n.st = "item" => n = r) /\ (n.st = "error" => cut["up"])
  BY <1>1, <1>3, NextIs, DirsIs
<1> HIDE DEF s, n
<1>6. CASE /\ n.st = "item" /\ PeerTakes(n, g)
           /\ last_ctl_resp_status' = IF n.item.kind = ControlReqKind THEN g
                                      ELSE last_ctl_resp_status
  <2>1. last_ctl_resp_status' \in {Ok, NotSupported}
    BY <1>6, <1>g, DeviceTypes
  <2>2. Answer(Msgs("device", request)["up"], Lines("device", request)["up"], buf["up"], n)
    BY <1>3, <1>5, <1>6 DEF code, M
  <2> QED BY <1>2, <1>6, <1>g, <2>1, <2>2, PeerTakesStep
<1>7. CASE n.st = "error" /\ PeerStops(Broke(s, "up"))
  <2>1. s.cut["up"]
    BY <1>4, <1>5, <1>7
  <2>2. Good(code, Broke(s, "up"))
    BY <1>1, <2>1, GoodBroke, DirsIs
  <2>3. Broke(s, "up").open = open
    BY <1>1, <1>4, BrokeIs, DirsIs
  <2> QED BY <1>7, <2>2, <2>3, PeerStopsStep DEF code
<1>8. CASE n.st = "end" /\ PeerStops(s)
  BY <1>1, <1>4, <1>8, PeerStopsStep DEF code
<1> QED BY <1>2, <1>6, <1>7, <1>8

LEMMA PeerInputStep ==
    ASSUME SessionInv, proto = "device", UNCHANGED <<ctlSessionVars, proto>>, PeerInput
    PROVE  SessionInv'
<1> DEFINE s == Streams
<1>1. request \in CliRequests /\ Good(Lines("device", request), s) /\ (s.open["up"] <=> host)
  BY DeviceBefore
<1>2. PICK i \in Inputs : Become(Wrote(s, "down", DataMessage(i), EncodeDevice(DataMessage(i))))
  BY DEF PeerInput
<1>3. /\ open["down"] /\ inputs' = inputs + 1
      /\ UNCHANGED <<peer, host, listens, last_ctl_resp_status>>
  BY DEF PeerInput
<1>4. s.open = open
  BY StreamsIs
<1> DEFINE m == DataMessage(i)
           t == Wrote(s, "down", m, EncodeDevice(m))
<1>5. m \in Msgs("device", request)["down"]
  BY MsgsIs
<1> HIDE DEF s, m
<1>6. s.open["down"]
  BY <1>3, <1>4
<1>7. Good(Lines("device", request), t) /\ t.open = s.open
  BY <1>1, <1>5, <1>6, DeviceWrote, DirsIs
<1>8. Become(t)
  BY <1>2 DEF m
<1> HIDE DEF t
<1>9. t.open["up"] <=> host'
  BY <1>1, <1>3, <1>7
<1>10. /\ peer' = peer /\ host' \in BOOLEAN /\ listens' \in BOOLEAN
       /\ last_ctl_resp_status' \in {Ok, NotSupported} /\ inputs' \in Nat
  BY <1>3, DeviceTypes
<1> QED BY <1>7, <1>8, <1>9, <1>10, DeviceStepOK

LEMMA PeerDiesStep ==
    ASSUME SessionInv, proto = "device", UNCHANGED <<ctlSessionVars, proto>>, PeerDies
    PROVE  SessionInv'
<1> DEFINE s == Streams
<1>1. request \in CliRequests /\ Good(Lines("device", request), s) /\ (s.open["up"] <=> host)
  BY DeviceBefore
<1>2. PICK n \in {0, 2}, i \in Inputs :
          Become(CutOff(s, "down", EncodeDevice(DataMessage(i)), n))
  BY DEF PeerDies
<1>3. /\ open["down"] /\ listens' = FALSE
      /\ UNCHANGED <<peer, host, last_ctl_resp_status, inputs>>
  BY DEF PeerDies
<1>4. s.open = open
  BY StreamsIs
<1> DEFINE m == DataMessage(i)
           t == CutOff(s, "down", EncodeDevice(m), n)
<1>5. m \in Msgs("device", request)["down"] /\ n \in Nat /\ n < Len(EncodeDevice(m))
  <2>1. m \in Msgs("device", request)["down"]
    BY MsgsIs
  <2>2. DeviceOK(m) /\ Len(EncodeDevice(m)) > 2
    BY PeerMessages
  <2> HIDE DEF m
  <2>3. Len(EncodeDevice(m)) \in Nat
    <3>1. EncodeDevice(m) \in Seq(Bytes)
      BY <2>2, EncodeType
    <3> QED BY <3>1
  <2> QED BY <2>1, <2>2, <2>3
<1> HIDE DEF s, m
<1>6. s.open["down"]
  BY <1>3, <1>4
<1>7. Good(Lines("device", request), t) /\ Aside(s, t, "down")
  BY <1>1, <1>5, <1>6, DeviceCut, DirsIs
<1>8. Become(t)
  BY <1>2 DEF m
<1> HIDE DEF t
<1>9. t.open["up"] = s.open["up"]
  BY <1>7, DirsIs DEF Aside, Names
<1>10. t.open["up"] <=> host'
  BY <1>1, <1>3, <1>9
<1>11. /\ peer' = peer /\ host' \in BOOLEAN /\ listens' \in BOOLEAN
       /\ last_ctl_resp_status' \in {Ok, NotSupported} /\ inputs' \in Nat
  BY <1>3, DeviceTypes
<1> QED BY <1>7, <1>8, <1>10, <1>11, DeviceStepOK

\* A piece of a stream arrives.
LEMMA ArrivesStep ==
    ASSUME SessionInv, NEW d \in Dirs, Arrive(d),
           UNCHANGED <<ctlSessionVars, deviceSessionVars, proto>>
    PROVE  SessionInv'
<1> DEFINE s == Streams
           t == Streams'
<1>1. /\ proto \in {"ctl", "device"} /\ request \in CliRequests
      /\ Good(Lines(proto, request), s) /\ OthersOK
      /\ proto = "ctl" => CtlOK(s, cli, request, outcome, stream, verdict, running)
      /\ proto = "device" => (s.open["up"] <=> host)
  BY DEF SessionInv
<1>2. /\ proto' = proto /\ request' = request /\ cli' = cli /\ outcome' = outcome
      /\ stream' = stream /\ verdict' = verdict /\ running' = running /\ host' = host
  BY DEF ctlSessionVars, deviceSessionVars
<1>3. OthersOK'
  BY <1>1 DEF OthersOK, ctlSessionVars, deviceSessionVars
<1>4. Good(Lines(proto, request), t)
  BY <1>1, SessionCoding, GoodArrive
<1>5. t.open = s.open /\ t.cut = s.cut /\ t.written = s.written /\ t.decoded = s.decoded
  BY DEF Arrive, Streams
<1>6. Streams' = t
  OBVIOUS
<1> HIDE DEF s, t
<1>7. proto = "ctl" => CtlOK(t, cli', request, outcome', stream', verdict', running')
  <2>1. SUFFICES ASSUME proto = "ctl"
                 PROVE  CtlOK(t, cli, request, outcome, stream, verdict, running)
    BY <1>2
  <2>2. CtlOK(s, cli, request, outcome, stream, verdict, running)
    BY <1>1, <2>1
  <2>3. Ends(t, cli, stream)
    BY <1>5, <2>2 DEF CtlOK, Ends
  <2>4. Talk(t, cli, request, stream, verdict)
    BY <1>5, <2>2 DEF CtlOK, Talk
  <2>5. Shown(t, cli, request, outcome, stream, verdict, running)
    BY <1>5, <2>2 DEF CtlOK, Shown
  <2> QED BY <2>3, <2>4, <2>5 DEF CtlOK
<1>8. proto = "device" => (t.open["up"] <=> host')
  BY <1>1, <1>2, <1>5
<1> QED BY <1>2, <1>3, <1>4, <1>6, <1>7, <1>8, StepOK

\* The streams at the beginning.
LEMMA LineEmpty ==
    ASSUME NEW M, NEW code, Codes(code, M, Bytes)
    PROVE  Line(code, <<>>, <<>>, <<>>, <<>>, FALSE)
<1>1. <<>> \in Seq(DOMAIN code) /\ Len(<<>>) = 0
  OBVIOUS
<1>2. Due(code, <<>>, <<>>) = <<>>
  BY <1>1 DEF Due
<1>3. FlattenSeq(<<>>) = <<>>
  BY FlattenEmpty
<1>4. <<>> \in Tails(code, FALSE)
  BY DEF Tails
<1>5. <<>> \o <<>> = FlattenSeq(Due(code, <<>>, <<>>)) \o <<>>
  BY <1>2, <1>3
<1>6. \E t \in Tails(code, FALSE) : <<>> \o <<>> = FlattenSeq(Due(code, <<>>, <<>>)) \o t
  BY <1>4, <1>5, Zenon
<1>7. Len(<<>>) <= Len(<<>>) /\ 1..Len(<<>>) = {}
  BY <1>1
<1>8. \A i \in 1..Len(<<>>) : <<>>[i] = <<>>[i]
  OBVIOUS
<1> QED BY <1>1, <1>6, <1>7, <1>8, Zenon DEF Line

LEMMA InitStep ==
    ASSUME SessionInit
    PROVE  SessionInv
<1> DEFINE s == Streams
<1>1. proto \in {"ctl", "device"} /\ request \in CliRequests /\ host = TRUE
  BY DEF SessionInit, CtlInit, DeviceInit
<1>2. /\ s.wire = [d \in Dirs |-> <<>>] /\ s.buf = [d \in Dirs |-> <<>>]
      /\ s.open = [d \in Dirs |-> TRUE] /\ s.cut = [d \in Dirs |-> FALSE]
      /\ s.written = [d \in Dirs |-> <<>>] /\ s.decoded = [d \in Dirs |-> <<>>]
      /\ s.broken = [d \in Dirs |-> FALSE]
  BY DEF Streams, SessionInit, FramedInit
<1>3. IsStreams(s)
  BY StreamsIs
<1> HIDE DEF s
<1>4. Shaped(s)
  BY <1>2, <1>3, ShapedIs DEF OnDirs
<1>5. Coding(Lines(proto, request), Msgs(proto, request))
  BY <1>1, SessionCoding
<1>6. ASSUME NEW d \in Dirs PROVE Lane(Lines(proto, request)[d], s, d)
  <2>1. Codes(Lines(proto, request)[d], Msgs(proto, request)[d], Bytes)
    BY <1>5 DEF Coding
  <2>2. Line(Lines(proto, request)[d], <<>>, <<>>, <<>>, <<>>, FALSE)
    BY <2>1, LineEmpty
  <2>3. /\ s.wire[d] = <<>> /\ s.buf[d] = <<>> /\ s.open[d] = TRUE /\ s.cut[d] = FALSE
        /\ s.written[d] = <<>> /\ s.decoded[d] = <<>> /\ s.broken[d] = FALSE
    BY <1>2
  <2>4. <<>> \in Seq(Bytes)
    OBVIOUS
  <2> QED BY <2>2, <2>3, <2>4 DEF Lane
<1>7. Good(Lines(proto, request), s)
  BY <1>4, <1>6 DEF Good
<1>8. /\ s.open["up"] = TRUE /\ s.open["down"] = TRUE /\ s.cut["down"] = FALSE
      /\ s.written["up"] = <<>> /\ s.written["down"] = <<>>
      /\ s.decoded["up"] = <<>> /\ s.decoded["down"] = <<>>
  BY <1>2, DirsIs
<1>9. OthersOK
  BY DEF SessionInit, CtlInit, DeviceInit, OthersOK
<1>10. /\ cli = "send" /\ outcome = "" /\ stream = "read" /\ verdict = <<>> /\ running = TRUE
  BY DEF SessionInit, CtlInit
<1>11. CtlOK(s, cli, request, outcome, stream, verdict, running)
  BY <1>8, <1>10 DEF CtlOK, Ends, Talk, Shown
<1> QED BY <1>1, <1>7, <1>8, <1>9, <1>11 DEF SessionInv, s

LEMMA DeviceStepInv ==
    ASSUME SessionInv, DeviceStep
    PROVE  SessionInv'
<1>1. proto = "device" /\ UNCHANGED <<ctlSessionVars, proto>> /\ DeviceNext
  BY DEF DeviceStep
<1>2. CASE \E m \in HostMessages : BridgeSend(m)
  BY <1>1, <1>2, BridgeSendStep
<1>3. CASE \E m \in HostMessages : \E n \in {0, 1, 3} : BridgeCloses(m, n)
  <2>1. PICK m \in HostMessages, n \in {0, 1, 3} : BridgeCloses(m, n)
    BY <1>3
  <2> QED BY <1>1, <2>1, BridgeClosesStep
<1>4. CASE BridgeNext
  BY <1>1, <1>4, BridgeNextStep
<1>5. CASE BridgeSendFails
  <2>1. Good(Lines("device", request), Streams) /\ BridgeDrops(Streams)
    BY <1>1, <1>5, DeviceBefore DEF BridgeSendFails
  <2> QED BY <1>1, <2>1, BridgeDropsStep
<1>6. CASE FirmwareReads
  BY <1>1, <1>6, FirmwareReadsStep
<1>7. CASE TestServerReads
  BY <1>1, <1>7, TestServerReadsStep
<1>8. CASE PeerInput
  BY <1>1, <1>8, PeerInputStep
<1>9. CASE PeerDies
  BY <1>1, <1>9, PeerDiesStep
<1> QED BY <1>1, <1>2, <1>3, <1>4, <1>5, <1>6, <1>7, <1>8, <1>9 DEF DeviceNext

LEMMA CtlStepInv ==
    ASSUME SessionInv, CtlStep
    PROVE  SessionInv'
<1>1. proto = "ctl" /\ UNCHANGED <<deviceSessionVars, proto>> /\ CtlNext
  BY DEF CtlStep
<1>2. CASE CliSend
  BY <1>1, <1>2, CliSendStep
<1>3. CASE CliSendFails
  BY <1>1, <1>3, CliSendFailsStep
<1>4. CASE CliNext
  BY <1>1, <1>4, CliNextStep
<1>5. CASE CliKilled
  BY <1>1, <1>5, CliKilledStep
<1>6. CASE StreamNext
  BY <1>1, <1>6, StreamNextStep
<1>7. CASE MainAnswers
  BY <1>1, <1>7, MainAnswersStep
<1>8. CASE Reply
  BY <1>1, <1>8, ReplyStep
<1>9. CASE ReplyPanics
  BY <1>1, <1>9, ReplyPanicsStep
<1>10. CASE DaemonStops
  BY <1>1, <1>10, DaemonStopsStep
<1> QED BY <1>1, <1>2, <1>3, <1>4, <1>5, <1>6, <1>7, <1>8, <1>9, <1>10 DEF CtlNext

\* Nothing but the streams changes in the session the behaviour is not about.
Apart == proto = "device" => cli = "send" /\ outcome = ""

\* Every state of a session satisfies the inductive invariant.
THEOREM SessionInvAlways == SessionSpec => [](SessionInv /\ Apart)
<1>1. SessionInit => SessionInv /\ Apart
  BY InitStep DEF SessionInit, CtlInit, Apart
<1>2. ASSUME SessionInv, Apart, [SessionNext]_sessionVars
      PROVE  SessionInv' /\ Apart'
  <2>1. CASE Arrives
    <3>1. SessionInv'
      BY <1>2, <2>1, ArrivesStep DEF Arrives
    <3>2. Apart'
      BY <1>2, <2>1 DEF Arrives, Apart, ctlSessionVars
    <3> QED BY <3>1, <3>2
  <2>2. CASE CtlStep
    <3>1. Apart'
      BY <2>2 DEF CtlStep, Apart
    <3> QED BY <1>2, <2>2, <3>1, CtlStepInv
  <2>3. CASE DeviceStep
    <3>1. Apart'
      BY <1>2, <2>3 DEF DeviceStep, Apart, ctlSessionVars
    <3> QED BY <1>2, <2>3, <3>1, DeviceStepInv
  <2>4. CASE UNCHANGED sessionVars
    <3>1. Streams' = Streams
      BY <2>4 DEF sessionVars, streamVars, Streams
    <3>2. /\ proto' = proto /\ request' = request /\ cli' = cli /\ outcome' = outcome
          /\ stream' = stream /\ verdict' = verdict /\ running' = running /\ host' = host
          /\ UNCHANGED <<peer, listens, last_ctl_resp_status, inputs>>
      BY <2>4 DEF sessionVars, ctlSessionVars, deviceSessionVars
    <3>3. OthersOK /\ Apart
      BY <1>2, Zenon DEF SessionInv
    <3>4. OthersOK'
      BY <3>2, <3>3 DEF OthersOK
    <3>5. Apart'
      BY <3>2, <3>3, Zenon DEF Apart
    <3> QED BY <1>2, <3>1, <3>2, <3>4, <3>5 DEF SessionInv
  <2> QED BY <1>2, <2>1, <2>2, <2>3, <2>4 DEF SessionNext
<1> QED BY <1>1, <1>2, PTL DEF SessionSpec

-------------------------------------------------------------------------------
(* What the invariant gives *)

\* The variables of the streams under the invariant.
LEMMA LaneIs ==
    ASSUME SessionInv, NEW d \in Dirs
    PROVE  /\ wire[d] \in Seq(Bytes) /\ buf[d] \in Seq(Bytes)
           /\ open[d] \in BOOLEAN /\ cut[d] \in BOOLEAN /\ broken[d] \in BOOLEAN
           /\ Line(Lines(proto, request)[d], buf[d], wire[d], written[d], decoded[d], cut[d])
           /\ Codes(Lines(proto, request)[d], Msgs(proto, request)[d], Bytes)
           /\ broken[d] => cut[d]
<1>1. /\ proto \in {"ctl", "device"} /\ request \in CliRequests
      /\ Good(Lines(proto, request), Streams)
  BY DEF SessionInv
<1>2. Coding(Lines(proto, request), Msgs(proto, request))
  BY <1>1, SessionCoding
<1>3. Lane(Lines(proto, request)[d], Streams, d)
  BY <1>1 DEF Good
<1>4. Codes(Lines(proto, request)[d], Msgs(proto, request)[d], Bytes)
  BY <1>2 DEF Coding
<1> QED BY <1>3, <1>4, StreamsIs DEF Lane

\* A decoder that finds nothing, with no bytes under way, has had every message.
LEMMA NothingDue ==
    ASSUME SessionInv, NEW d \in Dirs, NEW r,
           Answer(Msgs(proto, request)[d], Lines(proto, request)[d], buf[d], r)
    PROVE  r.st = "none" /\ wire[d] = <<>> => decoded[d] = written[d]
<1> DEFINE code == Lines(proto, request)[d]
           M == Msgs(proto, request)[d]
<1>1. /\ Codes(code, M, Bytes) /\ buf[d] \in Seq(Bytes) /\ wire[d] \in Seq(Bytes)
      /\ Line(code, buf[d], wire[d], written[d], decoded[d], cut[d])
      /\ Answer(M, code, buf[d], r)
  BY LaneIs
<1> HIDE DEF code, M
<1>2. /\ r.st = "item" \/ r.st = "none"
      /\ r.st = "none" /\ wire[d] = <<>> =>
             decoded[d] = written[d] /\ (~cut[d] => buf[d] = <<>>)
  BY <1>1, LineNext
<1> QED BY <1>2

\* The types of the session's variables (SessionTypeOK).
THEOREM SessionTypeCorrect == SessionSpec => []SessionTypeOK
<1>1. ASSUME SessionInv PROVE SessionTypeOK
  <2>1. \A d \in Dirs : wire[d] \in Seq(Bytes) /\ buf[d] \in Seq(Bytes)
    BY <1>1, LaneIs
  <2>2. \A d \in Dirs : open[d] \in BOOLEAN /\ cut[d] \in BOOLEAN /\ broken[d] \in BOOLEAN
    BY <1>1, LaneIs
  <2>3. OnDirs(open) /\ OnDirs(cut) /\ OnDirs(broken)
    <3>1. Shaped(Streams)
      BY <1>1 DEF SessionInv, Good
    <3> QED BY <3>1, ShapedIs, StreamsIs
  <2>4. open \in [Dirs -> BOOLEAN]
    BY <2>2, <2>3 DEF OnDirs
  <2>5. cut \in [Dirs -> BOOLEAN]
    BY <2>2, <2>3 DEF OnDirs
  <2>6. broken \in [Dirs -> BOOLEAN]
    BY <2>2, <2>3 DEF OnDirs
  <2>7. OthersOK
    BY <1>1 DEF SessionInv
  <2> QED BY <2>1, <2>4, <2>5, <2>6, <2>7, Zenon DEF SessionTypeOK, OthersOK
<1> QED BY <1>1, SessionInvAlways, PTL

\* However the bytes of a stream are cut into pieces, the messages decoded from it
\* are the ones written to it, in their order (StreamsIntact): for every request
\* and response of the control protocol and every message of the device protocol.
THEOREM StreamsIntactAlways == SessionSpec => []StreamsIntact
<1>1. ASSUME SessionInv PROVE StreamsIntact
  <2>1. SUFFICES ASSUME NEW d \in Dirs PROVE IsPrefix(decoded[d], written[d])
    BY DEF StreamsIntact
  <2> DEFINE X == DOMAIN Lines(proto, request)[d]
             de == decoded[d]
             wr == written[d]
  <2>2. /\ wr \in Seq(X) /\ de \in Seq(X) /\ Len(de) <= Len(wr)
        /\ \A i \in 1..Len(de) : de[i] = wr[i]
    BY <1>1, LaneIs DEF Line
  <2> HIDE DEF X, de, wr
  <2>3. Len(de) \in Nat /\ Len(wr) \in Nat
    BY <2>2
  <2>4. SubSeq(de, 1, Len(de)) = [i \in 1..Len(de) |-> de[i]]
    BY <2>2, <2>3
  <2>5. SubSeq(wr, 1, Len(de)) = [i \in 1..Len(de) |-> wr[i]]
    BY <2>2, <2>3
  <2>6. SubSeq(de, 1, Len(de)) = SubSeq(wr, 1, Len(de))
    BY <2>2, <2>4, <2>5
  <2>7. IsPrefix(de, wr)
    BY <2>2, <2>6 DEF IsPrefix
  <2> QED BY <2>7 DEF de, wr
<1> QED BY <1>1, SessionInvAlways, PTL

\* A decoder reports an error only if the stream ended within a message
\* (BrokenOnlyIfCut): what one end encodes, the other end accepts.
THEOREM BrokenOnlyIfCutAlways == SessionSpec => []BrokenOnlyIfCut
<1>1. SessionInv => BrokenOnlyIfCut
  BY LaneIs DEF BrokenOnlyIfCut
<1> QED BY <1>1, SessionInvAlways, PTL

\* What the tool shows is the daemon's answer to its request, and the daemon that
\* runs closes the connection without one only over a text its length byte cannot
\* say (ToolShowsVerdict): for every request, table, path and length of the texts.
THEOREM ToolShowsVerdictAlways == SessionSpec => []ToolShowsVerdict
<1>1. ASSUME SessionInv, Apart PROVE ToolShowsVerdict
  <2>1. CASE proto = "ctl"
    <3>1. Shown(Streams, cli, request, outcome, stream, verdict, running)
      BY <1>1, <2>1, CtlBefore
    <3>2. Streams.decoded = decoded /\ Streams.cut = cut
      BY StreamsIs
    <3> QED BY <3>1, <3>2 DEF Shown, Refused, ToolShowsVerdict, Verdict
  <2>2. CASE proto = "device"
    BY <1>1, <2>2 DEF Apart, ToolShowsVerdict
  <2> QED BY <1>1, <2>1, <2>2 DEF SessionInv
<1> QED BY <1>1, SessionInvAlways, PTL

\* The tool is never left waiting (ToolNotStranded): with no bytes under way and
\* handle_stream at its read or ended, one of the two has something to take.
THEOREM ToolNotStrandedAlways == SessionSpec => []ToolNotStranded
<1>1. ASSUME SessionInv, Apart PROVE ToolNotStranded
  <2> DEFINE u == DecodeRequest(buf["up"])
             v == DecodeResponse(buf["down"])
             code == Lines("ctl", request)
             M == Msgs("ctl", request)
  <2>1. SUFFICES ASSUME cli = "await", stream \in {"read", "ended"},
                        \A d \in Dirs : wire[d] = <<>>
                 PROVE  \/ stream = "read" /\ NextResult("up", u).st # "none"
                        \/ NextResult("down", v).st # "none"
    BY DEF ToolNotStranded
  <2>2. proto = "ctl"
    BY <1>1, <2>1 DEF Apart, SessionInv
  <2>3. /\ request \in CliRequests /\ Good(code, Streams) /\ Coding(code, M)
        /\ Ends(Streams, cli, stream) /\ Talk(Streams, cli, request, stream, verdict)
        /\ buf["up"] \in Seq(Bytes) /\ buf["down"] \in Seq(Bytes)
    BY <1>1, <2>2, CtlBefore
  <2>4. /\ Answer(M["up"], code["up"], buf["up"], u)
        /\ Answer(M["down"], code["down"], buf["down"], v)
    BY <2>3, CtlAnswer
  <2>5. wire["up"] = <<>> /\ wire["down"] = <<>>
    BY <2>1, DirsIs
  <2>6. (u.st = "none" => decoded["up"] = written["up"])
        /\ (v.st = "none" => decoded["down"] = written["down"])
    BY <1>1, <2>2, <2>4, <2>5, NothingDue, DirsIs
  <2> HIDE DEF u, v, code, M
  <2>7. NextResult("up", u).st = "none" => u.st = "none"
    BY <2>3, <2>4, NextIs, DirsIs
  <2>8. NextResult("down", v).st = "none" => v.st = "none" /\ open["down"]
    BY <2>3, <2>4, <2>5, NextIs, DirsIs
  <2>9. Streams.open = open /\ Streams.written = written /\ Streams.decoded = decoded
    BY StreamsIs
  <2>10. CASE stream = "ended"
    BY <2>3, <2>8, <2>9, <2>10 DEF Ends
  <2>11. CASE stream = "read" /\ verdict = <<>>
    <3>1. decoded["up"] = <<>> /\ written["up"] = <<request>>
      BY <2>1, <2>3, <2>9, <2>11 DEF Talk
    <3>2. <<request>> # <<>>
      OBVIOUS
    <3> QED BY <2>6, <2>7, <2>11, <3>1, <3>2
  <2>12. CASE stream = "read" /\ verdict # <<>>
    <3>1. decoded["down"] = <<>> /\ written["down"] = verdict
      BY <2>1, <2>3, <2>9, <2>12 DEF Talk
    <3> QED BY <2>6, <2>8, <2>12, <3>1
  <2> QED BY <2>1, <2>10, <2>11, <2>12
<1> QED BY <1>1, SessionInvAlways, PTL

\* Neither end of a device session ever waits for more bytes than a message has
\* (AllArrive): one that has got every byte and finds no message has had them all.
THEOREM AllArriveAlways == SessionSpec => []AllArrive
<1>1. ASSUME SessionInv PROVE AllArrive
  <2>1. SUFFICES ASSUME proto = "device" PROVE AllArrive
    BY DEF AllArrive
  <2>2. buf["up"] \in Seq(Bytes) /\ buf["down"] \in Seq(Bytes)
    BY <1>1, LaneIs, DirsIs
  <2> DEFINE M == Msgs(proto, request)
             code == Lines(proto, request)
             u == IF peer = "firmware" THEN read_msg(buf["up"]) ELSE DecodeDevice(buf["up"])
             v == DecodeDevice(buf["down"])
  <2>3. /\ Answer(M["up"], code["up"], buf["up"], DecodeDevice(buf["up"]))
        /\ Answer(M["up"], code["up"], buf["up"], read_msg(buf["up"]))
        /\ Answer(M["down"], code["down"], buf["down"], v)
    BY <2>1, <2>2, DeviceAnswer, DirsIs
  <2>4. Answer(M["up"], code["up"], buf["up"], u)
    BY <2>3
  <2> HIDE DEF u, v
  <2>5. wire["up"] = <<>> /\ u.st = "none" => decoded["up"] = written["up"]
    BY <1>1, <2>4, NothingDue, DirsIs
  <2>6. wire["down"] = <<>> /\ v.st = "none" => decoded["down"] = written["down"]
    BY <1>1, <2>3, NothingDue, DirsIs
  <2> QED BY <2>5, <2>6 DEF AllArrive, u, v
<1> QED BY <1>1, SessionInvAlways, PTL

===============================================================================
