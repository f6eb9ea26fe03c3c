--------------------------- MODULE CellDiffProofs ---------------------------
(***************************************************************************)
(* Proofs about CellDiff, for cells of any length, any chunk, any bound on *)
(* the edits and any pair of rows: the walks of a range agree on the value *)
(* it stands for, the digests of two rows are equal exactly when the       *)
(* comparison finds their cells equal, and so the report of a row is       *)
(* explained by its cells; two cells read as numbers are equal exactly     *)
(* when they write the same number; what a cell is found to be is true of  *)
(* its text; and the segments of a cell fill the buffer that was sized for *)
(* them and cover both of its texts.                                       *)
(*                                                                         *)
(* A walk of a range is followed from its last byte back: what it answers  *)
(* at a position depends on what it answers further on.  A range written   *)
(* over a text has one position for each byte of the text, where every     *)
(* walk stops.  A digest is taken apart from outside in: two are equal     *)
(* only when what they were built of is.                                   *)
(*                                                                         *)
(* A numeral stands for its significant digits and the place of its point. *)
(* The segments are followed in two calls at once, the one that counts and *)
(* the one that fills, along the edit script.                              *)
(***************************************************************************)
EXTENDS CellDiff, Induction, SequenceTheorems, FiniteSetTheorems, TLAPS

-----------------------------------------------------------------------------
(* The walks of a range: hash.c.                                           *)

\* A range of bytes with its flag.
IsField(f) == f.raw \in Seq(Byte) /\ f.esc \in BOOLEAN

\* A walk goes on, and not past the end.
LEMMA OnwardIs ==
  ASSUME NEW f, IsField(f), NEW i \in 1 .. Len(f.raw)
  PROVE  Onward(f, i) \in i + 1 .. Len(f.raw) + 1
<1>1. Len(f.raw) \in Nat BY LenProperties DEF IsField
<1> QED BY <1>1 DEF Onward, PairAt

\* What a walk that copies leaves at each position.
Copies(f, L) ==
  /\ L \in [1 .. Len(f.raw) + 1 -> Seq(Byte)]
  /\ L[Len(f.raw) + 1] = <<>>
  /\ \A i \in 1 .. Len(f.raw) : L[i] = <<f.raw[i]>> \o L[Onward(f, i)]

\* The copy is such a walk.
LEMMA LogicalIs ==
  ASSUME NEW f, IsField(f)
  PROVE  \E L : Copies(f, L) /\ Logical(f) = L[1]
<1> DEFINE n == Len(f.raw) + 1
           V == Seq(Byte)
           Goes == 1 .. Len(f.raw)
           next == [i \in 1 .. n |-> Onward(f, i)]
           step == [i \in 1 .. n |-> [v \in V |-> <<f.raw[i]>> \o v]]
           base == [i \in 1 .. n |-> <<>>]
           Body(g, i) == IF i > Len(f.raw) THEN <<>> ELSE <<f.raw[i]>> \o g[Onward(f, i)]
<1>1. Len(f.raw) \in Nat /\ n \in Nat /\ \A i \in 1 .. Len(f.raw) : f.raw[i] \in Byte
  BY LenProperties, ElementOfSeq DEF IsField
<1>2. \A i \in Goes : next[i] \in i + 1 .. n BY <1>1, OnwardIs
<1>3. \A i \in Goes : step[i] \in [V -> V] BY <1>1
<1>4. \A i \in 1 .. n : base[i] \in V OBVIOUS
<1>5. Goes \in SUBSET (1 .. n) BY <1>1
<1>6. /\ \A i \in Goes, v \in V : step[i][v] = <<f.raw[i]>> \o v
      /\ \A i \in Goes : next[i] = Onward(f, i)
      /\ \A i \in 1 .. n : base[i] = <<>>
  BY <1>1
<1>7. \A i \in 1 .. n : i \in Goes <=> ~(i > Len(f.raw)) BY <1>1
<1> HIDE DEF V, Goes, next, step, base
<1>8. PICK L : Descending(L, n, V, Goes, next, step, base)
  <2> HIDE DEF n
  <2> QED BY <1>1, <1>2, <1>3, <1>4, <1>5, Descent
<1>9. ASSUME NEW i \in 1 .. n PROVE L[i] = Body(L, i)
  <2>1. L \in [1 .. n -> V] /\ L[i] = IF i \in Goes THEN step[i][L[next[i]]] ELSE base[i]
    BY <1>8 DEF Descending
  <2>2. CASE i \in Goes
    <3>1. next[i] \in 1 .. n BY <1>1, <1>2, <2>2
    <3>2. L[next[i]] \in V BY <2>1, <3>1
    <3> QED BY <1>6, <1>7, <2>1, <2>2, <3>2
  <2>3. CASE i \notin Goes BY <1>6, <1>7, <2>1, <2>3
  <2> QED BY <2>2, <2>3
<1>10. L = [i \in 1 .. n |-> Body(L, i)]
  <2>1. L = [i \in 1 .. n |-> L[i]] BY <1>8 DEF Descending
  <2> HIDE DEF Body
  <2> QED BY <1>9, <2>1
<1>11. PICK g : g = [i \in 1 .. Len(f.raw) + 1 |-> Body(g, i)] /\ Logical(f) = g[1]
  <2>1. \E g : g = [i \in 1 .. Len(f.raw) + 1 |-> Body(g, i)]
    <3> HIDE DEF Body
    <3> QED BY <1>10
  <2> QED BY <2>1, Zenon DEF Logical
<1>12. \A i \in 1 .. n : g[i] = Body(g, i)
  <2> HIDE DEF Body
  <2> QED BY <1>11
<1> DEFINE S == {i \in 1 .. n : g[i] \in Seq(Byte)}
<1>13. ASSUME NEW i \in 1 .. n, \A j \in i + 1 .. n : j \in S PROVE i \in S
  <2>1. CASE i > Len(f.raw)
    <3>1. <<>> \in Seq(Byte) OBVIOUS
    <3> QED BY <1>12, <2>1, <3>1
  <2>2. CASE ~(i > Len(f.raw))
    <3>1. i \in 1 .. Len(f.raw) BY <1>1, <2>2
    <3>2. g[Onward(f, i)] \in Seq(Byte) /\ f.raw[i] \in Byte BY <1>1, <1>13, <3>1, OnwardIs
    <3>3. <<f.raw[i]>> \o g[Onward(f, i)] \in Seq(Byte) BY <3>2
    <3> QED BY <1>12, <2>2, <3>3
  <2> QED BY <2>1, <2>2
<1>14. g \in [1 .. n -> Seq(Byte)]
  <2>1. 1 .. n \subseteq S
    <3> HIDE DEF S, n
    <3> QED BY <1>1, <1>13, Downwards
  <2>2. g = [i \in 1 .. n |-> g[i]]
    <3> HIDE DEF Body
    <3> QED BY <1>11
  <2> QED BY <2>1, <2>2
<1>15. Copies(f, g)
  <2>1. \A i \in 1 .. Len(f.raw) : i \in 1 .. n /\ ~(i > Len(f.raw)) BY <1>1
  <2>2. n \in 1 .. n /\ n > Len(f.raw) BY <1>1
  <2> QED BY <1>12, <1>14, <2>1, <2>2 DEF Copies
<1> QED BY <1>11, <1>15

\* The count of what is copied.
LEMMA LogicalLenIs ==
  ASSUME NEW f, IsField(f), NEW L, Copies(f, L)
  PROVE  LogicalLen(f) = Len(L[1])
<1> DEFINE n == Len(f.raw) + 1
           Body(g, i) == IF i > Len(f.raw) THEN 0 ELSE 1 + g[Onward(f, i)]
           N == [i \in 1 .. n |-> Len(L[i])]
<1>1. Len(f.raw) \in Nat /\ n \in Nat /\ \A i \in 1 .. Len(f.raw) : f.raw[i] \in Byte
  BY LenProperties, ElementOfSeq DEF IsField
<1>2. \A i \in 1 .. n : L[i] \in Seq(Byte) /\ Len(L[i]) \in Nat BY LenProperties DEF Copies
<1>3. ASSUME NEW i \in 1 .. n
      PROVE  Len(L[i]) = IF i > Len(f.raw) THEN 0 ELSE 1 + Len(L[Onward(f, i)])
  <2>1. CASE i > Len(f.raw)
    <3>1. i = Len(f.raw) + 1 BY <1>1, <2>1
    <3>2. L[i] = <<>> BY <3>1 DEF Copies
    <3> QED BY <2>1, <3>2
  <2>2. CASE ~(i > Len(f.raw))
    <3>1. i \in 1 .. Len(f.raw) BY <1>1, <2>2
    <3>2. Onward(f, i) \in 1 .. n BY <1>1, <3>1, OnwardIs
    <3>3. PICK x, s : x = f.raw[i] /\ s = L[Onward(f, i)] /\ L[i] = <<x>> \o s BY <3>1 DEF Copies
    <3>4. x \in Byte /\ s \in Seq(Byte) /\ Len(s) \in Nat BY <1>1, <1>2, <3>1, <3>2, <3>3
    <3>5. Len(<<x>> \o s) = 1 + Len(s) BY <3>4
    <3> QED BY <2>2, <3>3, <3>5
  <2> QED BY <2>1, <2>2
<1>4. N = [i \in 1 .. n |-> Body(N, i)]
  <2>1. \A i \in 1 .. n : ~(i > Len(f.raw)) => Onward(f, i) \in 1 .. n
    <3>1. \A i \in 1 .. n : ~(i > Len(f.raw)) => i \in 1 .. Len(f.raw) BY <1>1
    <3> QED BY <1>1, <3>1, OnwardIs
  <2>2. \A i \in 1 .. n : N[i] = Len(L[i]) OBVIOUS
  <2>3. \A i \in 1 .. n : Len(L[i]) = Body(N, i)
    <3> HIDE DEF N, n
    <3> QED BY <1>3, <2>1, <2>2
  <2> HIDE DEF Body
  <2> QED BY <2>3
<1>5. PICK g : g = [i \in 1 .. Len(f.raw) + 1 |-> Body(g, i)] /\ LogicalLen(f) = g[1]
  <2>1. \E g : g = [i \in 1 .. Len(f.raw) + 1 |-> Body(g, i)]
    <3> HIDE DEF Body
    <3> QED BY <1>4
  <2> QED BY <2>1, Zenon DEF LogicalLen
<1>6. \A i \in 1 .. n : g[i] = Body(g, i)
  <2> HIDE DEF Body
  <2> QED BY <1>5
<1> DEFINE S == {i \in 1 .. n : g[i] = Len(L[i])}
<1>7. ASSUME NEW i \in 1 .. n, \A j \in i + 1 .. n : j \in S PROVE i \in S
  <2>1. g[i] = Body(g, i) BY <1>6
  <2>2. CASE i > Len(f.raw) BY <1>3, <2>1, <2>2
  <2>3. CASE ~(i > Len(f.raw))
    <3>1. i \in 1 .. Len(f.raw) BY <1>1, <2>3
    <3>2. g[Onward(f, i)] = Len(L[Onward(f, i)]) BY <1>7, <3>1, OnwardIs
    <3> QED BY <1>3, <2>1, <2>3, <3>2
  <2> QED BY <2>2, <2>3
<1>8. 1 .. n \subseteq S
  <2> HIDE DEF S, n
  <2> QED BY <1>1, <1>7, Downwards
<1>9. 1 \in 1 .. n BY <1>1
<1> QED BY <1>5, <1>8, <1>9

-----------------------------------------------------------------------------
(* The comparison: memcmp's order, then by length.                         *)

\* The order of two texts.
Order(a, b) == IF a = b THEN 0 ELSE IF Precedes(a, b) THEN -1 ELSE 1

\* One sequence of bytes after another.
LEMMA BytesAfter ==
  ASSUME NEW a \in Seq(Byte), NEW b \in Seq(Byte)
  PROVE  /\ a \o b \in Seq(Byte) /\ Len(a \o b) = Len(a) + Len(b)
         /\ \A k \in 1 .. Len(a) : (a \o b)[k] = a[k]
         /\ \A k \in 1 .. Len(b) : (a \o b)[Len(a) + k] = b[k]
BY Joined

\* A text with a byte before it.
Headed(A, x, a) ==
  /\ A \in Seq(Byte) /\ Len(A) = Len(a) + 1 /\ A[1] = x
  /\ \A k \in 1 .. Len(a) : A[k + 1] = a[k]

\* The byte put before a text is its first, and the text follows.
LEMMA HeadedIs ==
  ASSUME NEW x \in Byte, NEW a \in Seq(Byte)
  PROVE  Headed(<<x>> \o a, x, a)
<1>1. PICK h : h = <<x>> OBVIOUS
<1>2. h \in Seq(Byte) /\ Len(h) = 1 /\ h[1] = x /\ Len(a) \in Nat BY <1>1, LenProperties
<1>3. /\ h \o a \in Seq(Byte) /\ Len(h \o a) = Len(h) + Len(a)
      /\ \A k \in 1 .. Len(h) : (h \o a)[k] = h[k]
      /\ \A k \in 1 .. Len(a) : (h \o a)[Len(h) + k] = a[k]
  BY <1>2, BytesAfter
<1>4. \A k \in 1 .. Len(a) : k + 1 = 1 + k BY <1>2
<1>5. Headed(h \o a, x, a) BY <1>2, <1>3, <1>4 DEF Headed
<1> QED BY <1>1, <1>5

\* What comes after equal bytes decides, ...
LEMMA OrderOfTails ==
  ASSUME NEW a \in Seq(Byte), NEW b \in Seq(Byte), NEW x \in Byte,
         NEW A, Headed(A, x, a), NEW B, Headed(B, x, b)
  PROVE  Order(A, B) = Order(a, b)
<1>1. Len(a) \in Nat /\ Len(b) \in Nat /\ A \in Seq(Byte) /\ B \in Seq(Byte)
  BY LenProperties DEF Headed
<1>2. A = B <=> a = b
  <2>1. ASSUME a = b PROVE A = B
    <3>1. Len(A) = Len(B) BY <2>1 DEF Headed
    <3>2. ASSUME NEW i \in 1 .. Len(A) PROVE A[i] = B[i]
      <4>1. CASE i = 1 BY <4>1 DEF Headed
      <4>2. CASE i # 1
        <5>1. PICK k \in 1 .. Len(a) : i = k + 1
          <6>1. i - 1 \in 1 .. Len(a) /\ i = (i - 1) + 1 BY <1>1, <4>2 DEF Headed
          <6> QED BY <6>1
        <5> QED BY <2>1, <5>1 DEF Headed
      <4> QED BY <4>1, <4>2
    <3> QED BY <1>1, <3>1, <3>2, SeqEqual
  <2>2. ASSUME A = B PROVE a = b
    <3>1. Len(a) = Len(b) BY <1>1, <2>2 DEF Headed
    <3>2. \A k \in 1 .. Len(a) : a[k] = b[k] BY <2>2, <3>1 DEF Headed
    <3> QED BY <3>1, <3>2, SeqEqual
  <2> QED BY <2>1, <2>2
<1>3. Precedes(A, B) <=> Precedes(a, b)
  <2>1. ASSUME Precedes(a, b) PROVE Precedes(A, B)
    <3>1. PICK i \in 1 .. Len(b) :
            /\ \A j \in 1 .. i - 1 : j <= Len(a) /\ a[j] = b[j]
            /\ i = Len(a) + 1 \/ (i <= Len(a) /\ a[i] < b[i])
      BY <2>1 DEF Precedes
    <3>2. i + 1 \in 1 .. Len(B) BY <1>1 DEF Headed
    <3>3. ASSUME NEW j \in 1 .. (i + 1) - 1 PROVE j <= Len(A) /\ A[j] = B[j]
      <4>1. CASE j = 1 BY <1>1, <4>1 DEF Headed
      <4>2. CASE j # 1
        <5>1. PICK k \in 1 .. i - 1 : j = k + 1
          <6>1. j - 1 \in 1 .. i - 1 /\ j = (j - 1) + 1 BY <1>1, <3>3, <4>2
          <6> QED BY <6>1
        <5>2. k \in 1 .. Len(a) /\ k \in 1 .. Len(b) /\ a[k] = b[k] BY <1>1, <3>1, <5>1
        <5> QED BY <1>1, <5>1, <5>2 DEF Headed
      <4> QED BY <4>1, <4>2
    <3>4. i + 1 = Len(A) + 1 \/ (i + 1 <= Len(A) /\ A[i + 1] < B[i + 1])
      <4>1. CASE i = Len(a) + 1 BY <1>1, <4>1 DEF Headed
      <4>2. CASE i <= Len(a) /\ a[i] < b[i]
        <5>1. i \in 1 .. Len(a) BY <1>1, <4>2
        <5> QED BY <1>1, <4>2, <5>1 DEF Headed
      <4> QED BY <3>1, <4>1, <4>2
    <3> QED BY <3>2, <3>3, <3>4 DEF Precedes
  <2>2. ASSUME Precedes(A, B) PROVE Precedes(a, b)
    <3>1. PICK p \in 1 .. Len(B) :
            /\ \A j \in 1 .. p - 1 : j <= Len(A) /\ A[j] = B[j]
            /\ p = Len(A) + 1 \/ (p <= Len(A) /\ A[p] < B[p])
      BY <2>2 DEF Precedes
    <3>2. PICK i \in 1 .. Len(b) : p = i + 1
      <4>1. p # 1 BY <1>1, <3>1 DEF Headed, Byte
      <4>2. p - 1 \in 1 .. Len(b) /\ p = (p - 1) + 1 BY <1>1, <4>1 DEF Headed
      <4> QED BY <4>2
    <3>3. ASSUME NEW k \in 1 .. i - 1 PROVE k <= Len(a) /\ a[k] = b[k]
      <4>1. k + 1 \in 1 .. p - 1 BY <1>1, <3>2
      <4>2. k + 1 <= Len(A) /\ A[k + 1] = B[k + 1] BY <3>1, <4>1
      <4>3. k \in 1 .. Len(a) /\ k \in 1 .. Len(b) BY <1>1, <4>2 DEF Headed
      <4> QED BY <1>1, <4>2, <4>3 DEF Headed
    <3>4. i = Len(a) + 1 \/ (i <= Len(a) /\ a[i] < b[i])
      <4>1. CASE p = Len(A) + 1 BY <1>1, <3>2, <4>1 DEF Headed
      <4>2. CASE p <= Len(A) /\ A[p] < B[p]
        <5>1. i \in 1 .. Len(a) BY <1>1, <3>2, <4>2 DEF Headed
        <5> QED BY <1>1, <3>2, <4>2, <5>1 DEF Headed
      <4> QED BY <3>1, <4>1, <4>2
    <3> QED BY <3>3, <3>4 DEF Precedes
  <2> QED BY <2>1, <2>2
<1> QED BY <1>2, <1>3 DEF Order

\* ... unequal ones decide at once, ...
LEMMA OrderOfHeads ==
  ASSUME NEW a \in Seq(Byte), NEW b \in Seq(Byte), NEW x \in Byte, NEW y \in Byte, x # y,
         NEW A, Headed(A, x, a), NEW B, Headed(B, y, b)
  PROVE  Order(A, B) = IF x < y THEN -1 ELSE 1
<1>1. Len(a) \in Nat /\ Len(b) \in Nat /\ Len(A) = Len(a) + 1 /\ Len(B) = Len(b) + 1
      /\ A[1] = x /\ B[1] = y
  BY LenProperties DEF Headed
<1>2. A # B BY <1>1
<1>3. ASSUME x < y PROVE Precedes(A, B)
  <2>1. 1 \in 1 .. Len(B) /\ (\A j \in 1 .. 1 - 1 : FALSE) /\ 1 <= Len(A) /\ A[1] < B[1]
    BY <1>1, <1>3
  <2> QED BY <2>1 DEF Precedes
<1>4. ASSUME Precedes(A, B) PROVE x < y
  <2>1. PICK i \in 1 .. Len(B) :
          /\ \A j \in 1 .. i - 1 : j <= Len(A) /\ A[j] = B[j]
          /\ i = Len(A) + 1 \/ (i <= Len(A) /\ A[i] < B[i])
    BY <1>4 DEF Precedes
  <2>2. i = 1
    <3>1. i # 1 => 1 \in 1 .. i - 1 BY <1>1
    <3> QED BY <1>1, <2>1, <3>1
  <2> QED BY <1>1, <2>1, <2>2
<1> QED BY <1>2, <1>3, <1>4 DEF Order

\* ... and so does the end of one.
LEMMA OrderOfEmpty ==
  ASSUME NEW a \in Seq(Byte), NEW b \in Seq(Byte), a = <<>> \/ b = <<>>
  PROVE  Order(a, b) = IF a # <<>> THEN 1 ELSE IF b # <<>> THEN -1 ELSE 0
<1>1. Len(a) \in Nat /\ Len(b) \in Nat BY LenProperties
<1>2. CASE b = <<>>
  <2>1. ~Precedes(a, b) BY <1>2 DEF Precedes
  <2> QED BY <1>2, <2>1 DEF Order
<1>3. CASE a = <<>> /\ b # <<>>
  <2>1. Len(a) = 0 /\ 1 \in 1 .. Len(b) BY <1>1, <1>3, EmptySeq
  <2>2. (\A j \in 1 .. 1 - 1 : j <= Len(a) /\ a[j] = b[j]) /\ 1 = Len(a) + 1 BY <2>1
  <2>3. Precedes(a, b) BY <2>1, <2>2 DEF Precedes
  <2> QED BY <1>3, <2>3 DEF Order
<1> QED BY <1>2, <1>3

\* What is copied from a position on: nothing at the end, and a byte before the
\* rest otherwise.
LEMMA CopyAt ==
  ASSUME NEW f, IsField(f), NEW L, Copies(f, L), NEW i \in 1 .. Len(f.raw) + 1
  PROVE  /\ L[i] \in Seq(Byte)
         /\ i > Len(f.raw) <=> L[i] = <<>>
         /\ i <= Len(f.raw) =>
              /\ Onward(f, i) \in 1 .. Len(f.raw) + 1 /\ f.raw[i] \in Byte
              /\ Headed(L[i], f.raw[i], L[Onward(f, i)])
<1>1. Len(f.raw) \in Nat /\ L[i] \in Seq(Byte) BY LenProperties DEF IsField, Copies
<1>2. ASSUME i <= Len(f.raw)
      PROVE  /\ Onward(f, i) \in 1 .. Len(f.raw) + 1 /\ f.raw[i] \in Byte
             /\ Headed(L[i], f.raw[i], L[Onward(f, i)])
  <2>1. i \in 1 .. Len(f.raw) BY <1>1, <1>2
  <2>2. Onward(f, i) \in 1 .. Len(f.raw) + 1 /\ f.raw[i] \in Byte
    BY <1>1, <2>1, OnwardIs, ElementOfSeq DEF IsField
  <2>3. L[Onward(f, i)] \in Seq(Byte) /\ L[i] = <<f.raw[i]>> \o L[Onward(f, i)]
    BY <2>1, <2>2 DEF Copies
  <2> QED BY <2>2, <2>3, HeadedIs
<1>3. i > Len(f.raw) => L[i] = <<>>
  <2>1. i > Len(f.raw) => i = Len(f.raw) + 1 BY <1>1
  <2> QED BY <2>1 DEF Copies
<1>4. i <= Len(f.raw) => L[i] # <<>>
  <2>1. i <= Len(f.raw) => Len(L[i]) = Len(L[Onward(f, i)]) + 1 /\ Len(L[Onward(f, i)]) \in Nat
    <3>1. i <= Len(f.raw) => L[Onward(f, i)] \in Seq(Byte) BY <1>2 DEF Copies
    <3> QED BY <1>2, <3>1, LenProperties DEF Headed
  <2>2. Len(<<>>) = 0 OBVIOUS
  <2> QED BY <2>1, <2>2
<1> QED BY <1>1, <1>2, <1>3, <1>4

\* The comparison of two ranges is the order of what they stand for.
LEMMA FieldCmpIs ==
  ASSUME NEW f, IsField(f), NEW g, IsField(g), NEW K, Copies(f, K), NEW L, Copies(g, L)
  PROVE  FieldCmp(f, g) = Order(K[1], L[1])
<1> DEFINE n == Len(f.raw) + 1
           m == Len(g.raw) + 1
           Here(i, j, rest) ==
             IF i > Len(f.raw) \/ j > Len(g.raw)
             THEN (IF i <= Len(f.raw) THEN 1 ELSE IF j <= Len(g.raw) THEN -1 ELSE 0)
             ELSE IF f.raw[i] # g.raw[j] THEN (IF f.raw[i] < g.raw[j] THEN -1 ELSE 1)
             ELSE rest
           Body(h, i, j) == Here(i, j, h[Onward(f, i)][Onward(g, j)])
           H == [i \in 1 .. n |-> [j \in 1 .. m |-> Order(K[i], L[j])]]
<1>1. Len(f.raw) \in Nat /\ n \in Nat /\ Len(g.raw) \in Nat /\ m \in Nat
  BY LenProperties DEF IsField
<1>2. ASSUME NEW i \in 1 .. n, NEW j \in 1 .. m
      PROVE  Order(K[i], L[j]) = Here(i, j, Order(K[Onward(f, i)], L[Onward(g, j)]))
  <2>1. /\ K[i] \in Seq(Byte)
        /\ i > Len(f.raw) <=> K[i] = <<>>
        /\ i <= Len(f.raw) =>
             /\ Onward(f, i) \in 1 .. n /\ f.raw[i] \in Byte
             /\ Headed(K[i], f.raw[i], K[Onward(f, i)])
    BY CopyAt
  <2>2. /\ L[j] \in Seq(Byte)
        /\ j > Len(g.raw) <=> L[j] = <<>>
        /\ j <= Len(g.raw) =>
             /\ Onward(g, j) \in 1 .. m /\ g.raw[j] \in Byte
             /\ Headed(L[j], g.raw[j], L[Onward(g, j)])
    BY CopyAt
  <2>3. CASE i > Len(f.raw) \/ j > Len(g.raw)
    <3>1. Order(K[i], L[j]) = IF K[i] # <<>> THEN 1 ELSE IF L[j] # <<>> THEN -1 ELSE 0
      BY <2>1, <2>2, <2>3, OrderOfEmpty
    <3> QED BY <1>1, <2>1, <2>2, <2>3, <3>1
  <2>4. CASE i <= Len(f.raw) /\ j <= Len(g.raw)
    <3>1. K[Onward(f, i)] \in Seq(Byte) /\ L[Onward(g, j)] \in Seq(Byte)
      BY <2>1, <2>2, <2>4 DEF Copies
    <3>2. CASE f.raw[i] = g.raw[j]
      <4>1. PICK x : x = f.raw[i] OBVIOUS
      <4>2. x \in Byte /\ Headed(K[i], x, K[Onward(f, i)]) BY <2>1, <2>4, <4>1
      <4>3. Headed(L[j], x, L[Onward(g, j)]) BY <2>2, <2>4, <3>2, <4>1
      <4>4. Order(K[i], L[j]) = Order(K[Onward(f, i)], L[Onward(g, j)])
        BY <2>1, <2>2, <3>1, <4>2, <4>3, OrderOfTails
      <4> QED BY <1>1, <2>4, <3>2, <4>4
    <3>3. CASE f.raw[i] # g.raw[j]
      <4>1. PICK x, y : x = f.raw[i] /\ y = g.raw[j] OBVIOUS
      <4>2. /\ x \in Byte /\ y \in Byte /\ x # y
            /\ Headed(K[i], x, K[Onward(f, i)]) /\ Headed(L[j], y, L[Onward(g, j)])
        BY <2>1, <2>2, <2>4, <3>3, <4>1
      <4>3. Order(K[i], L[j]) = IF x < y THEN -1 ELSE 1 BY <3>1, <4>2, OrderOfHeads
      <4> QED BY <1>1, <2>4, <3>3, <4>1, <4>3
    <3> QED BY <3>2, <3>3
  <2> QED BY <1>1, <2>3, <2>4
<1>3. \A i \in 1 .. n, j \in 1 .. m :
        ~(i > Len(f.raw) \/ j > Len(g.raw)) =>
          /\ i \in 1 .. Len(f.raw) /\ Onward(f, i) \in i + 1 .. n
          /\ j \in 1 .. Len(g.raw) /\ Onward(g, j) \in j + 1 .. m
  <2>1. \A i \in 1 .. n, j \in 1 .. m :
          ~(i > Len(f.raw) \/ j > Len(g.raw)) => i \in 1 .. Len(f.raw) /\ j \in 1 .. Len(g.raw)
    BY <1>1
  <2> QED BY <2>1, OnwardIs
<1>4. H = [i \in 1 .. n |-> [j \in 1 .. m |-> Body(H, i, j)]]
  <2>1. ASSUME NEW i \in 1 .. n, NEW j \in 1 .. m PROVE Order(K[i], L[j]) = Body(H, i, j)
    <3>1. CASE i > Len(f.raw) \/ j > Len(g.raw) BY <1>2, <3>1
    <3>2. CASE ~(i > Len(f.raw) \/ j > Len(g.raw))
      <4>1. Onward(f, i) \in 1 .. n /\ Onward(g, j) \in 1 .. m BY <1>1, <1>3, <3>2
      <4>2. H[Onward(f, i)][Onward(g, j)] = Order(K[Onward(f, i)], L[Onward(g, j)])
        <5> HIDE DEF n, m
        <5> QED BY <4>1
      <4> HIDE DEF H
      <4> QED BY <1>2, <4>2
    <3> QED BY <3>1, <3>2
  <2>2. H = [i \in 1 .. n |-> [j \in 1 .. m |-> Order(K[i], L[j])]] OBVIOUS
  <2> HIDE DEF Body, H, n, m
  <2> QED BY <2>1, <2>2, Zenon
<1>5. PICK h : /\ h = [i \in 1 .. Len(f.raw) + 1 |-> [j \in 1 .. Len(g.raw) + 1 |-> Body(h, i, j)]]
               /\ FieldCmp(f, g) = h[1][1]
  <2>1. \E h : h = [i \in 1 .. Len(f.raw) + 1 |-> [j \in 1 .. Len(g.raw) + 1 |-> Body(h, i, j)]]
    <3> HIDE DEF Body, H
    <3> QED BY <1>4
  <2> QED BY <2>1, Zenon DEF FieldCmp
<1>6. \A i \in 1 .. n, j \in 1 .. m : h[i][j] = Body(h, i, j)
  <2>1. h = [i \in 1 .. n |-> [j \in 1 .. m |-> Body(h, i, j)]] BY <1>5
  <2>2. ASSUME NEW i \in 1 .. n, NEW j \in 1 .. m PROVE h[i][j] = Body(h, i, j)
    <3> HIDE DEF Body, n, m
    <3>1. h[i] = [k \in 1 .. m |-> Body(h, i, k)] BY <2>1
    <3> QED BY <3>1
  <2> QED BY <2>2
<1> DEFINE S == {i \in 1 .. n : \A j \in 1 .. m : h[i][j] = Order(K[i], L[j])}
<1>7. ASSUME NEW i \in 1 .. n, \A k \in i + 1 .. n : k \in S PROVE i \in S
  <2>1. ASSUME NEW j \in 1 .. m PROVE h[i][j] = Order(K[i], L[j])
    <3>1. h[i][j] = Body(h, i, j) BY <1>6
    <3>2. CASE i > Len(f.raw) \/ j > Len(g.raw) BY <1>2, <3>1, <3>2
    <3>3. CASE ~(i > Len(f.raw) \/ j > Len(g.raw))
      <4>1. Onward(f, i) \in i + 1 .. n /\ Onward(g, j) \in 1 .. m BY <1>1, <1>3, <3>3
      <4>2. h[Onward(f, i)][Onward(g, j)] = Order(K[Onward(f, i)], L[Onward(g, j)]) BY <1>7, <4>1
      <4> QED BY <1>2, <3>1, <4>2
    <3> QED BY <3>2, <3>3
  <2> QED BY <2>1
<1>8. 1 .. n \subseteq S
  <2> HIDE DEF S, n
  <2> QED BY <1>1, <1>7, Downwards
<1>9. 1 \in 1 .. n /\ 1 \in 1 .. m BY <1>1
<1> QED BY <1>5, <1>8, <1>9

\* An order is 0 for equal texts only, and less for the one that precedes.
LEMMA OrderAnswers ==
  ASSUME NEW a \in Seq(Byte), NEW b \in Seq(Byte)
  PROVE  OrderIs(Order(a, b), a, b)
<1>1. Len(b) \in Nat BY LenProperties
<1>2. ~Precedes(b, b)
  <2>1. ASSUME NEW i \in 1 .. Len(b), i = Len(b) + 1 \/ (i <= Len(b) /\ b[i] < b[i]) PROVE FALSE
    <3>1. PICK x : x = b[i] OBVIOUS
    <3>2. x \in Byte BY <3>1, ElementOfSeq
    <3>3. x < x BY <1>1, <2>1, <3>1
    <3> QED BY <3>2, <3>3 DEF Byte
  <2> QED BY <2>1 DEF Precedes
<1>3. CASE a = b BY <1>2, <1>3 DEF Order, OrderIs
<1>4. CASE a # b BY <1>4 DEF Order, OrderIs
<1> QED BY <1>3, <1>4

-----------------------------------------------------------------------------
(* What the parser leaves for a text stands for it.                        *)

\* What a range stands for.
LEMMA LogicalOf ==
  ASSUME NEW f, IsField(f)
  PROVE  Logical(f) \in Seq(Byte) /\ LogicalLen(f) = Len(Logical(f))
<1>1. PICK L : Copies(f, L) /\ Logical(f) = L[1] BY LogicalIs
<1>2. 1 \in 1 .. Len(f.raw) + 1 BY LenProperties DEF IsField
<1>3. L[1] \in Seq(Byte) BY <1>1, <1>2 DEF Copies
<1>4. LogicalLen(f) = Len(L[1]) BY <1>1, LogicalLenIs
<1> QED BY <1>1, <1>3, <1>4

\* The four walks of two ranges agree.
LEMMA FieldCmpOf ==
  ASSUME NEW f, IsField(f), NEW g, IsField(g)
  PROVE  /\ OrderIs(FieldCmp(f, g), Logical(f), Logical(g))
         /\ FieldCmp(f, g) = 0 <=> Logical(f) = Logical(g)
<1>1. PICK K : Copies(f, K) /\ Logical(f) = K[1] BY LogicalIs
<1>2. PICK L : Copies(g, L) /\ Logical(g) = L[1] BY LogicalIs
<1>3. FieldCmp(f, g) = Order(Logical(f), Logical(g)) BY <1>1, <1>2, FieldCmpIs
<1>4. OrderIs(FieldCmp(f, g), Logical(f), Logical(g)) BY <1>3, LogicalOf, OrderAnswers
<1> QED BY <1>4 DEF OrderIs

\* A range f is written over a text when the text's bytes stand, in order, at the
\* positions a walk of it stops at: the one after k bytes is P[k].
Stands(f, text, P) ==
  /\ P \in [0 .. Len(text) -> Nat] /\ P[0] = 1 /\ P[Len(text)] = Len(f.raw) + 1
  /\ \A k \in 1 .. Len(text) :
       P[k - 1] \in 1 .. Len(f.raw) /\ f.raw[P[k - 1]] = text[k] /\ Onward(f, P[k - 1]) = P[k]

\* What such a range stands for is the text.
LEMMA StandsForText ==
  ASSUME NEW f, IsField(f), NEW text \in Seq(Byte), NEW P, Stands(f, text, P)
  PROVE  Logical(f) = text
<1>1. PICK L : Copies(f, L) /\ Logical(f) = L[1] BY LogicalIs
<1>2. Len(text) \in Nat BY LenProperties
<1> DEFINE n == Len(text) + 1
           S == {i \in 1 .. n : L[P[i - 1]] = SubSeq(text, i, Len(text))}
<1>3. ASSUME NEW i \in 1 .. n, \A j \in i + 1 .. n : j \in S PROVE i \in S
  <2>1. CASE i = n
    <3>1. L[P[i - 1]] = <<>> BY <1>1, <1>2, <2>1 DEF Stands, Copies
    <3>2. SubSeq(text, i, Len(text)) = <<>> BY <1>2, <2>1
    <3> QED BY <3>1, <3>2
  <2>2. CASE i # n
    <3>1. i \in 1 .. Len(text) /\ i + 1 \in i + 1 .. n /\ (i + 1) - 1 = i BY <1>2, <2>2
    <3>2. P[i - 1] \in 1 .. Len(f.raw) /\ f.raw[P[i - 1]] = text[i] /\ Onward(f, P[i - 1]) = P[i]
      BY <3>1 DEF Stands
    <3>3. L[P[i]] = SubSeq(text, i + 1, Len(text)) BY <1>3, <3>1
    <3>4. L[P[i - 1]] = <<text[i]>> \o L[P[i]] BY <1>1, <3>2 DEF Copies
    <3> QED BY <3>1, <3>3, <3>4, FirstAndRest
  <2> QED BY <2>1, <2>2
<1>4. 1 .. n \subseteq S
  <2> HIDE DEF S, n
  <2>1. n \in Nat BY <1>2 DEF n
  <2> QED BY <1>3, <2>1, Downwards
<1>5. 1 \in 1 .. n /\ P[1 - 1] = 1 BY <1>2 DEF Stands
<1>6. L[1] = SubSeq(text, 1, Len(text)) BY <1>4, <1>5
<1>7. SubSeq(text, 1, Len(text)) = text BY <1>2
<1> QED BY <1>1, <1>6, <1>7

\* A text written inside quotes, byte by byte.
Quoting(text, D) ==
  /\ D \in [0 .. Len(text) -> Seq(Byte)] /\ D[0] = <<>>
  /\ \A k \in 1 .. Len(text) :
       D[k] = D[k - 1] \o (IF text[k] = Quote THEN <<Quote, Quote>> ELSE <<text[k]>>)

\* The range the parser leaves is the text, or the text so written.
LEMMA FieldParts ==
  ASSUME NEW cell \in CellText
  PROVE  /\ cell.text \in Seq(Byte) /\ cell.quoted \in BOOLEAN
         /\ Field(cell).esc <=> cell.quoted /\ \E k \in DOMAIN cell.text : cell.text[k] = Quote
         /\ Field(cell).esc \in BOOLEAN
         /\ \E D : Quoting(cell.text, D) /\ Field(cell).raw = IF cell.quoted THEN D[Len(cell.text)] ELSE cell.text
<1> DEFINE text == cell.text
           n == Len(text)
           V == Seq(Byte)
           Put(k) == IF text[k] = Quote THEN <<Quote, Quote>> ELSE <<text[k]>>
           step == [k \in 1 .. n |-> [v \in V |-> v \o Put(k)]]
           Body(g, k) == IF k = 0 THEN <<>> ELSE g[k - 1] \o Put(k)
<1>1. text \in Seq(Byte) /\ cell.quoted \in BOOLEAN /\ n \in Nat BY LenProperties DEF CellText
<1>2. \A k \in 1 .. n : Put(k) \in V
  <2>1. \A k \in 1 .. n : text[k] \in Byte BY <1>1, ElementOfSeq
  <2>2. Quote \in Byte BY DEF Quote, Byte
  <2> QED BY <2>1, <2>2
<1> HIDE DEF Put
<1>3. step \in [1 .. n -> [V -> V]] BY <1>2
<1>4. <<>> \in V OBVIOUS
<1>5. \A k \in 1 .. n, v \in V : step[k][v] = v \o Put(k) OBVIOUS
<1> HIDE DEF V, step
<1>6. PICK D : Recursive(D, n, V, <<>>, step)
  <2> HIDE DEF n
  <2> QED BY <1>1, <1>3, <1>4, Recursion
<1>7. D = [k \in 0 .. n |-> Body(D, k)]
  <2>1. D = [k \in 0 .. n |-> D[k]] BY <1>6 DEF Recursive
  <2>2. ASSUME NEW k \in 0 .. n PROVE D[k] = Body(D, k)
    <3>1. CASE k = 0 BY <1>6, <3>1 DEF Recursive
    <3>2. CASE k # 0
      <4>1. k \in 1 .. n /\ k - 1 \in 0 .. n BY <1>1, <3>2
      <4>2. D[k] = step[k][D[k - 1]] /\ D[k - 1] \in V BY <1>6, <4>1 DEF Recursive
      <4> QED BY <1>5, <3>2, <4>1, <4>2
    <3> QED BY <3>1, <3>2
  <2> HIDE DEF Body
  <2> QED BY <2>1, <2>2
<1>8. PICK g : /\ g = [k \in 0 .. Len(cell.text) |-> IF k = 0 THEN <<>> ELSE g[k - 1] \o
                        IF cell.text[k] = Quote THEN <<Quote, Quote>> ELSE <<cell.text[k]>>]
               /\ Field(cell) = [raw |-> IF cell.quoted THEN g[Len(cell.text)] ELSE cell.text,
                                 esc |-> cell.quoted /\ \E k \in DOMAIN cell.text : cell.text[k] = Quote]
  <2>1. \E g : g = [k \in 0 .. Len(cell.text) |-> IF k = 0 THEN <<>> ELSE g[k - 1] \o
                        IF cell.text[k] = Quote THEN <<Quote, Quote>> ELSE <<cell.text[k]>>]
    BY <1>7, Zenon DEF Put
  <2> QED BY <2>1, Zenon DEF Field
<1>9. g = [k \in 0 .. n |-> Body(g, k)] BY <1>8, Zenon DEF Put
<1>10. \A k \in 0 .. n : g[k] = Body(g, k)
  <2> HIDE DEF Body
  <2> QED BY <1>9
<1>11. g[0] = <<>> /\ \A k \in 1 .. n : g[k] = g[k - 1] \o Put(k)
  <2>1. 0 \in 0 .. n /\ \A k \in 1 .. n : k \in 0 .. n /\ k # 0 BY <1>1
  <2> QED BY <1>10, <2>1
<1> DEFINE S == {k \in 0 .. n : g[k] \in V}
<1>12. 0 .. n \subseteq S
  <2>1. 0 \in S BY <1>1, <1>4, <1>11
  <2>2. ASSUME NEW k \in 0 .. n - 1, k \in S PROVE k + 1 \in S
    <3>1. k + 1 \in 1 .. n /\ (k + 1) - 1 = k BY <1>1
    <3>2. g[k + 1] = g[k] \o Put(k + 1) /\ g[k] \in V /\ Put(k + 1) \in V BY <1>2, <1>11, <2>2, <3>1
    <3>3. g[k + 1] \in V BY <3>2 DEF V
    <3> QED BY <1>1, <3>1, <3>3
  <2> HIDE DEF S, n
  <2> QED BY <1>1, <2>1, <2>2, UpTo
<1>13. Quoting(text, g)
  <2>1. g \in [0 .. n -> Seq(Byte)]
    <3>1. g = [k \in 0 .. n |-> g[k]]
      <4> HIDE DEF Body
      <4> QED BY <1>9
    <3> QED BY <1>12, <3>1 DEF V
  <2> QED BY <1>11, <2>1, Zenon DEF Quoting, Put
<1>14. Field(cell).raw = IF cell.quoted THEN g[n] ELSE text BY <1>8
<1>15. Field(cell).esc = (cell.quoted /\ \E k \in DOMAIN text : text[k] = Quote) BY <1>8
<1>16. Field(cell).esc \in BOOLEAN
  <2>1. (cell.quoted /\ \E k \in DOMAIN text : text[k] = Quote) \in BOOLEAN BY Zenon
  <2> QED BY <1>15, <2>1
<1>17. \E D1 : Quoting(text, D1) /\ Field(cell).raw = IF cell.quoted THEN D1[n] ELSE text
  BY <1>13, <1>14
<1> QED BY <1>1, <1>15, <1>16, <1>17

\* What was written stays where it was written.
LEMMA QuotingGrows ==
  ASSUME NEW text \in Seq(Byte), NEW D, Quoting(text, D)
  PROVE  /\ \A k \in 1 .. Len(text) :
              LET d == D[k - 1]  w == IF text[k] = Quote THEN 2 ELSE 1
              IN  /\ d \in Seq(Byte) /\ Len(d) \in Nat /\ Len(D[k]) = Len(d) + w
                  /\ D[k][Len(d) + 1] = text[k] /\ D[k][Len(d) + w] = text[k]
                  /\ \A p \in 1 .. Len(d) : D[k][p] = d[p]
         /\ \A k \in 0 .. Len(text) :
              /\ Len(D[k]) \in Nat /\ Len(D[k]) <= Len(D[Len(text)])
              /\ \A p \in 1 .. Len(D[k]) : D[Len(text)][p] = D[k][p]
<1> DEFINE n == Len(text)
<1>1. n \in Nat /\ \A k \in 0 .. n : D[k] \in Seq(Byte) /\ Len(D[k]) \in Nat
  BY LenProperties DEF Quoting
<1>2. ASSUME NEW k \in 1 .. n
      PROVE  LET d == D[k - 1]  w == IF text[k] = Quote THEN 2 ELSE 1
             IN  /\ d \in Seq(Byte) /\ Len(d) \in Nat /\ Len(D[k]) = Len(d) + w
                 /\ D[k][Len(d) + 1] = text[k] /\ D[k][Len(d) + w] = text[k]
                 /\ \A p \in 1 .. Len(d) : D[k][p] = d[p]
  <2> DEFINE w == IF text[k] = Quote THEN 2 ELSE 1
  <2>1. k - 1 \in 0 .. n /\ text[k] \in Byte BY <1>1, ElementOfSeq
  <2>2. PICK d, x, h : d = D[k - 1] /\ x = text[k] /\ h = IF x = Quote THEN <<Quote, Quote>> ELSE <<x>>
    OBVIOUS
  <2>3. d \in Seq(Byte) /\ Len(d) \in Nat /\ D[k] = d \o h BY <1>1, <2>1, <2>2 DEF Quoting
  <2>4. h \in Seq(Byte) /\ Len(h) = w /\ h[1] = x /\ h[w] = x
    <3>1. x \in Byte BY <2>1, <2>2
    <3> QED BY <2>2, <3>1
  <2>5. /\ Len(d \o h) = Len(d) + Len(h)
        /\ \A p \in 1 .. Len(d) + Len(h) : (d \o h)[p] = IF p <= Len(d) THEN d[p] ELSE h[p - Len(d)]
    BY <2>3, <2>4, ConcatProperties
  <2>6. w \in {1, 2} OBVIOUS
  <2> HIDE DEF w
  <2>7. /\ Len(d) + 1 \in 1 .. Len(d) + Len(h) /\ ~(Len(d) + 1 <= Len(d)) /\ (Len(d) + 1) - Len(d) = 1
        /\ Len(d) + w \in 1 .. Len(d) + Len(h) /\ ~(Len(d) + w <= Len(d)) /\ (Len(d) + w) - Len(d) = w
        /\ \A p \in 1 .. Len(d) : p \in 1 .. Len(d) + Len(h) /\ p <= Len(d)
    BY <2>3, <2>4, <2>6
  <2>8. D[k][Len(d) + 1] = x /\ D[k][Len(d) + w] = x BY <2>3, <2>4, <2>5, <2>7
  <2>9. \A p \in 1 .. Len(d) : D[k][p] = d[p] BY <2>3, <2>5, <2>7
  <2>10. Len(D[k]) = Len(d) + w BY <2>3, <2>4, <2>5
  <2> QED BY <2>2, <2>3, <2>8, <2>9, <2>10 DEF w
<1> DEFINE S == {i \in 1 .. n + 1 : Len(D[i - 1]) <= Len(D[n]) /\ \A p \in 1 .. Len(D[i - 1]) : D[n][p] = D[i - 1][p]}
<1>3. ASSUME NEW i \in 1 .. n + 1, \A j \in i + 1 .. n + 1 : j \in S PROVE i \in S
  <2>1. CASE i = n + 1
    <3>1. i - 1 = n BY <1>1, <2>1
    <3> QED BY <1>1, <3>1
  <2>2. CASE i # n + 1
    <3>1. i \in 1 .. n /\ i + 1 \in i + 1 .. n + 1 /\ (i + 1) - 1 = i /\ i - 1 \in 0 .. n /\ i \in 0 .. n
      BY <1>1, <2>2
    <3>2. Len(D[i]) <= Len(D[n]) /\ \A p \in 1 .. Len(D[i]) : D[n][p] = D[i][p] BY <1>3, <3>1
    <3>3. Len(D[i]) >= Len(D[i - 1]) /\ \A p \in 1 .. Len(D[i - 1]) : D[i][p] = D[i - 1][p]
      <4>1. LET d == D[i - 1]  w == IF text[i] = Quote THEN 2 ELSE 1
            IN  /\ Len(d) \in Nat /\ Len(D[i]) = Len(d) + w
                /\ \A p \in 1 .. Len(d) : D[i][p] = d[p]
        BY <1>2, <3>1
      <4>2. PICK d, w : d = D[i - 1] /\ w = (IF text[i] = Quote THEN 2 ELSE 1) /\ w \in {1, 2}
        OBVIOUS
      <4>3. Len(d) \in Nat /\ Len(D[i]) = Len(d) + w /\ \A p \in 1 .. Len(d) : D[i][p] = d[p]
        BY <4>1, <4>2
      <4>4. d = D[i - 1] /\ Len(D[i]) >= Len(d)
        <5>1. PICK e : e = Len(D[i]) OBVIOUS
        <5>2. w \in {1, 2} /\ Len(d) \in Nat /\ e = Len(d) + w BY <4>2, <4>3, <5>1
        <5>3. e >= Len(d) BY <5>2
        <5> QED BY <4>2, <5>1, <5>3
      <4>5. \A p \in 1 .. Len(d) : D[i][p] = d[p] BY <4>3
      <4> QED BY <4>4, <4>5
    <3>4. Len(D[i]) \in Nat /\ Len(D[i - 1]) \in Nat /\ Len(D[n]) \in Nat BY <1>1, <3>1
    <3>5. Len(D[i - 1]) <= Len(D[n])
      <4>1. PICK x, y, z : x = Len(D[i - 1]) /\ y = Len(D[i]) /\ z = Len(D[n]) OBVIOUS
      <4>2. x \in Nat /\ y \in Nat /\ z \in Nat /\ y <= z /\ y >= x BY <3>2, <3>3, <3>4, <4>1
      <4>3. x <= z BY <4>2
      <4> QED BY <4>1, <4>3
    <3>6. ASSUME NEW p \in 1 .. Len(D[i - 1]) PROVE D[n][p] = D[i - 1][p]
      <4>1. PICK x, y : x = Len(D[i - 1]) /\ y = Len(D[i]) OBVIOUS
      <4>2. x \in Nat /\ y \in Nat /\ y >= x /\ p \in 1 .. x BY <3>3, <3>4, <4>1
      <4>3. p \in 1 .. y BY <4>2
      <4>4. D[n][p] = D[i][p] BY <3>2, <4>1, <4>3
      <4>5. D[i][p] = D[i - 1][p] BY <3>3
      <4> QED BY <4>4, <4>5
    <3> QED BY <3>5, <3>6
  <2> QED BY <2>1, <2>2
<1>4. 1 .. n + 1 \subseteq S
  <2>1. n + 1 \in Nat BY <1>1
  <2> HIDE DEF S, n
  <2>2. PICK m \in Nat : m = n + 1 BY <2>1
  <2>3. \A i \in 1 .. m : (\A j \in i + 1 .. m : j \in S) => i \in S BY <1>3, <2>2
  <2> QED BY <2>2, <2>3, Downwards
<1>5. ASSUME NEW k \in 0 .. n
      PROVE  /\ Len(D[k]) \in Nat /\ Len(D[k]) <= Len(D[n])
             /\ \A p \in 1 .. Len(D[k]) : D[n][p] = D[k][p]
  <2>1. k + 1 \in 1 .. n + 1 /\ (k + 1) - 1 = k BY <1>1
  <2>2. k + 1 \in S BY <1>4, <2>1
  <2> QED BY <1>1, <2>1, <2>2
<1> QED BY <1>2, <1>5

\* The range the parser leaves for a text stands for that text: the flag makes
\* the walks collapse exactly the pairs that quoting put there.
LEMMA FieldStands ==
  ASSUME NEW cell \in CellText
  PROVE  IsField(Field(cell)) /\ \E P : Stands(Field(cell), cell.text, P)
<1> DEFINE f == Field(cell)
           text == cell.text
           n == Len(text)
<1>1. /\ text \in Seq(Byte) /\ cell.quoted \in BOOLEAN
      /\ f.esc <=> cell.quoted /\ \E k \in DOMAIN text : text[k] = Quote
      /\ f.esc \in BOOLEAN
  BY FieldParts
<1>2. PICK D : Quoting(text, D) /\ f.raw = IF cell.quoted THEN D[n] ELSE text BY FieldParts
<1> HIDE DEF f, text
<1>3. n \in Nat BY <1>1, LenProperties
<1>4. IsField(f)
  <2>1. D[n] \in Seq(Byte) BY <1>2, <1>3 DEF Quoting
  <2> QED BY <1>1, <1>2, <2>1 DEF IsField
<1>5. CASE ~cell.quoted
  <2> DEFINE P == [k \in 0 .. n |-> k + 1]
  <2>1. f.raw = text /\ ~f.esc BY <1>1, <1>2, <1>5
  <2>2. P \in [0 .. n -> Nat] /\ P[0] = 1 /\ P[n] = n + 1 BY <1>3
  <2>3. \A k \in 1 .. n : P[k - 1] = k /\ P[k] = k + 1 /\ Onward(f, k) = k + 1
    BY <1>3, <2>1 DEF Onward
  <2> HIDE DEF P
  <2>4. Stands(f, text, P) BY <1>3, <2>1, <2>2, <2>3 DEF Stands
  <2> QED BY <1>4, <2>4 DEF f, text
<1>6. CASE cell.quoted
  <2> DEFINE P == [k \in 0 .. n |-> Len(D[k]) + 1]
  <2>1. f.raw = D[n] /\ (f.esc <=> \E k \in 1 .. n : text[k] = Quote)
    <3>1. DOMAIN text = 1 .. n BY <1>1
    <3> QED BY <1>1, <1>2, <1>6, <3>1
  <2>2. ASSUME NEW k \in 1 .. n
        PROVE  /\ P[k - 1] \in 1 .. Len(f.raw) /\ f.raw[P[k - 1]] = text[k]
               /\ Onward(f, P[k - 1]) = P[k]
    <3>1. k - 1 \in 0 .. n /\ k \in 0 .. n /\ P[k - 1] = Len(D[k - 1]) + 1 /\ P[k] = Len(D[k]) + 1
      BY <1>3
    <3>2. PICK w, m, e : /\ m = Len(D[k - 1]) /\ e = Len(D[k])
                         /\ w = IF text[k] = Quote THEN 2 ELSE 1
      OBVIOUS
    <3>3. m \in Nat /\ e = m + w /\ D[k][m + 1] = text[k] /\ D[k][m + w] = text[k]
      <4>1. LET d == D[k - 1]  v == IF text[k] = Quote THEN 2 ELSE 1
            IN  /\ Len(d) \in Nat /\ Len(D[k]) = Len(d) + v
                /\ D[k][Len(d) + 1] = text[k] /\ D[k][Len(d) + v] = text[k]
        BY <1>1, <1>2, QuotingGrows
      <4> QED BY <3>2, <4>1
    <3>4. e \in Nat /\ e <= Len(f.raw) /\ \A p \in 1 .. e : f.raw[p] = D[k][p]
      <4>1. /\ Len(D[k]) \in Nat /\ Len(D[k]) <= Len(D[n])
            /\ \A p \in 1 .. Len(D[k]) : D[n][p] = D[k][p]
        BY <1>1, <1>2, <3>1, QuotingGrows
      <4> QED BY <2>1, <3>2, <4>1
    <3>5. P[k - 1] = m + 1 /\ P[k] = e + 1 /\ w \in {1, 2} /\ Len(f.raw) \in Nat
      BY <1>4, <3>1, <3>2, LenProperties DEF IsField
    <3>6. m + 1 \in 1 .. Len(f.raw) /\ f.raw[m + 1] = text[k] /\ f.raw[m + w] = text[k]
      <4>1. m + 1 \in 1 .. e /\ m + w \in 1 .. e BY <3>3, <3>5
      <4>2. f.raw[m + 1] = D[k][m + 1] /\ f.raw[m + w] = D[k][m + w] BY <3>4, <4>1
      <4>3. m + 1 \in 1 .. Len(f.raw) BY <3>3, <3>4, <3>5
      <4> QED BY <3>3, <4>2, <4>3
    <3>7. Onward(f, m + 1) = e + 1
      <4>1. CASE text[k] = Quote
        <5>1. w = 2 /\ f.esc /\ PairAt(f.raw, m + 1)
          <6>1. w = 2 /\ f.esc BY <2>1, <3>2, <4>1
          <6>2. m + 1 < Len(f.raw) /\ (m + 1) + 1 = m + w BY <3>3, <3>4, <3>5, <6>1
          <6> QED BY <3>6, <4>1, <6>1, <6>2 DEF PairAt
        <5>2. e + 1 = (m + 1) + 2 BY <3>3, <5>1
        <5> QED BY <5>1, <5>2 DEF Onward
      <4>2. CASE text[k] # Quote
        <5>1. w = 1 /\ ~PairAt(f.raw, m + 1) BY <3>2, <3>6, <4>2 DEF PairAt
        <5>2. e + 1 = (m + 1) + 1 BY <3>3, <5>1
        <5> QED BY <5>1, <5>2 DEF Onward
      <4> QED BY <4>1, <4>2
    <3> QED BY <3>5, <3>6, <3>7
  <2>3. P \in [0 .. n -> Nat] /\ P[0] = 1 /\ P[n] = Len(f.raw) + 1
    <3>1. \A k \in 0 .. n : Len(D[k]) + 1 \in Nat
      <4>1. \A k \in 0 .. n : D[k] \in Seq(Byte) BY <1>2 DEF Quoting
      <4>2. \A k \in 0 .. n : Len(D[k]) \in Nat BY <4>1, LenProperties
      <4> QED BY <4>2
    <3>2. Len(D[0]) = 0 BY <1>2 DEF Quoting
    <3> QED BY <1>3, <2>1, <3>1, <3>2
  <2> HIDE DEF P
  <2>4. Stands(f, text, P) BY <2>2, <2>3 DEF Stands
  <2> QED BY <1>4, <2>4 DEF f, text
<1> QED BY <1>4, <1>5, <1>6 DEF f, text

\* So what it stands for is the text.
LEMMA FieldIs ==
  ASSUME NEW cell \in CellText
  PROVE  IsField(Field(cell)) /\ Logical(Field(cell)) = cell.text
<1>1. cell.text \in Seq(Byte) BY FieldParts
<1>2. PICK P : Stands(Field(cell), cell.text, P) BY FieldStands
<1> QED BY <1>1, <1>2, FieldStands, StandsForText

-----------------------------------------------------------------------------
(* The canonical forms: normalize.c.                                       *)

\* A run ends at or after its start, and past everything in it.
LEMMA PastRunIs ==
  ASSUME NEW p \in Seq(Byte), NEW i \in 1 .. Len(p) + 1, NEW S
  PROVE  /\ PastRun(p, i, S) \in i .. Len(p) + 1
         /\ \A x \in i .. PastRun(p, i, S) - 1 : p[x] \in S
         /\ PastRun(p, i, S) = Len(p) + 1 \/ p[PastRun(p, i, S)] \notin S
<1> DEFINE T == {k \in i .. Len(p) + 1 : k = Len(p) + 1 \/ p[k] \notin S}
<1>1. Len(p) \in Nat BY LenProperties
<1>2. Len(p) + 1 \in T /\ T \in SUBSET Nat BY <1>1
<1>3. PICK k \in T : \A y \in T : k <= y
  <2> HIDE DEF T
  <2> QED BY <1>2, LeastElement
<1>4. \A x \in i .. k - 1 : p[x] \in S
  <2> SUFFICES ASSUME NEW x \in i .. k - 1, p[x] \notin S PROVE FALSE OBVIOUS
  <2>1. x \in T BY <1>1, <1>3
  <2> QED BY <1>1, <1>3, <2>1
<1>5. k \in i .. Len(p) + 1 /\ (k = Len(p) + 1 \/ p[k] \notin S) BY <1>3
<1>6. \E x \in i .. Len(p) + 1 : (\A y \in i .. x - 1 : p[y] \in S) /\ (x = Len(p) + 1 \/ p[x] \notin S)
  BY <1>4, <1>5
<1> QED BY <1>6 DEF PastRun

\* A stretch of bytes, the whole when it is as long.
LEMMA PartIs ==
  ASSUME NEW p \in Seq(Byte), NEW i \in 1 .. Len(p) + 1, NEW j \in i - 1 .. Len(p)
  PROVE  /\ Part(p, i, j) \in Seq(Byte) /\ Len(Part(p, i, j)) = j - i + 1
         /\ \A k \in 1 .. j - i + 1 : Part(p, i, j)[k] = p[i + k - 1]
<1>1. Len(p) \in Nat BY LenProperties
<1> QED BY <1>1 DEF Part

\* A stretch as long as the whole is the whole.
LEMMA WholePart ==
  ASSUME NEW p \in Seq(Byte), NEW i \in 1 .. Len(p) + 1, NEW j \in i - 1 .. Len(p),
         Len(Part(p, i, j)) = Len(p)
  PROVE  Part(p, i, j) = p
<1>1. Len(p) \in Nat BY LenProperties
<1>2. j - i + 1 = Len(p) BY PartIs
<1>3. i = 1 \/ i = Len(p) + 1 BY <1>1, <1>2
<1>4. ASSUME NEW k \in 1 .. Len(p) PROVE Part(p, i, j)[k] = p[k]
  <2>1. i = 1 /\ k \in 1 .. j - i + 1 /\ i + k - 1 = k BY <1>1, <1>2, <1>3
  <2>2. Part(p, i, j)[k] = p[i + k - 1] BY <2>1, PartIs
  <2> QED BY <2>1, <2>2
<1> QED BY <1>4, PartIs, SeqEqual

\* Trimming takes a stretch of the bytes.
LEMMA TrimmedIs ==
  ASSUME NEW p \in Seq(Byte), NEW lead, NEW trail
  PROVE  /\ Trimmed(p, lead, trail) \in Seq(Byte)
         /\ Len(Trimmed(p, lead, trail)) = Len(p) => Trimmed(p, lead, trail) = p
<1> DEFINE first == IF lead THEN PastRun(p, 1, Pads) ELSE 1
           Ends(k) == /\ k = first - 1 \/ p[k] \notin Pads
                      /\ \A x \in k + 1 .. Len(p) : p[x] \in Pads
           last == IF ~trail THEN Len(p) ELSE CHOOSE k \in first - 1 .. Len(p) : Ends(k)
<1>1. Len(p) \in Nat BY LenProperties
<1>2. first \in 1 .. Len(p) + 1 BY <1>1, PastRunIs
<1> HIDE DEF first
<1>3. \E k \in first - 1 .. Len(p) : Ends(k)
  <2> DEFINE T == {k \in 0 .. Len(p) : k >= first - 1 /\ (k = first - 1 \/ p[k] \notin Pads)}
  <2>1. first - 1 \in T /\ T \in SUBSET (0 .. Len(p)) BY <1>1, <1>2
  <2>2. PICK k \in T : \A y \in T : y <= k
    <3> HIDE DEF T
    <3> QED BY <1>1, <2>1, GreatestElement
  <2>3. \A x \in k + 1 .. Len(p) : p[x] \in Pads
    <3> SUFFICES ASSUME NEW x \in k + 1 .. Len(p), p[x] \notin Pads PROVE FALSE OBVIOUS
    <3>1. x \in T BY <1>1, <1>2, <2>2
    <3> QED BY <1>1, <2>2, <3>1
  <2>4. k \in first - 1 .. Len(p) /\ (k = first - 1 \/ p[k] \notin Pads) BY <1>1, <1>2, <2>2
  <2> QED BY <2>3, <2>4
<1>4. last \in first - 1 .. Len(p)
  <2> HIDE DEF Ends
  <2> QED BY <1>1, <1>2, <1>3
<1>5. Trimmed(p, lead, trail) = Part(p, first, last) BY DEF Trimmed, first
<1> HIDE DEF last
<1> QED BY <1>2, <1>4, <1>5, PartIs, WholePart

\* What is left without leading zeros begins at the first digit that is none.
LEMMA LeadingTells ==
  ASSUME NEW w \in Seq(Byte)
  PROVE  \E r \in 1 .. Len(w) + 1 :
           /\ \A x \in 1 .. r - 1 : w[x] = Zero
           /\ r = Len(w) + 1 \/ w[r] # Zero
           /\ NoLeadingZeros(w) \in Seq(Byte) /\ Len(NoLeadingZeros(w)) = Len(w) - r + 1
           /\ \A k \in 1 .. Len(w) - r + 1 : NoLeadingZeros(w)[k] = w[r + k - 1]
<1>1. Len(w) \in Nat /\ 1 \in 1 .. Len(w) + 1 BY LenProperties
<1>2. PICK r : r = PastRun(w, 1, {Zero}) OBVIOUS
<1>3. /\ r \in 1 .. Len(w) + 1 /\ \A x \in 1 .. r - 1 : w[x] \in {Zero}
      /\ r = Len(w) + 1 \/ w[r] \notin {Zero}
  BY <1>1, <1>2, PastRunIs
<1>4. Len(w) \in r - 1 .. Len(w) BY <1>1, <1>3
<1>5. /\ Part(w, r, Len(w)) \in Seq(Byte) /\ Len(Part(w, r, Len(w))) = Len(w) - r + 1
      /\ \A k \in 1 .. Len(w) - r + 1 : Part(w, r, Len(w))[k] = w[r + k - 1]
  BY <1>3, <1>4, PartIs
<1>6. NoLeadingZeros(w) = Part(w, r, Len(w)) BY <1>2 DEF NoLeadingZeros
<1> QED BY <1>3, <1>5, <1>6

\* What is left without trailing ones ends with the last.
LEMMA TrailingTells ==
  ASSUME NEW w \in Seq(Byte)
  PROVE  \E n \in 0 .. Len(w) :
           /\ \A x \in n + 1 .. Len(w) : w[x] = Zero
           /\ n = 0 \/ w[n] # Zero
           /\ NoTrailingZeros(w) \in Seq(Byte) /\ Len(NoTrailingZeros(w)) = n
           /\ \A k \in 1 .. n : NoTrailingZeros(w)[k] = w[k]
<1> DEFINE Ends(k) == (k = 0 \/ w[k] # Zero) /\ \A x \in k + 1 .. Len(w) : w[x] = Zero
           T == {k \in 0 .. Len(w) : k = 0 \/ w[k] # Zero}
<1>1. Len(w) \in Nat BY LenProperties
<1>2. \E k \in 0 .. Len(w) : Ends(k)
  <2>1. 0 \in T /\ T \in SUBSET (0 .. Len(w)) BY <1>1
  <2>2. PICK k \in T : \A y \in T : y <= k
    <3> HIDE DEF T
    <3> QED BY <1>1, <2>1, GreatestElement
  <2>3. \A x \in k + 1 .. Len(w) : w[x] = Zero
    <3> SUFFICES ASSUME NEW x \in k + 1 .. Len(w), w[x] # Zero PROVE FALSE OBVIOUS
    <3>1. x \in T BY <1>1, <2>2
    <3> QED BY <1>1, <2>2, <3>1
  <2> QED BY <2>2, <2>3
<1>3. PICK n : n = CHOOSE x \in 0 .. Len(w) : Ends(x) OBVIOUS
<1>4. n \in 0 .. Len(w) /\ Ends(n)
  <2> HIDE DEF Ends
  <2> QED BY <1>2, <1>3
<1>5. NoTrailingZeros(w) = Part(w, 1, n) BY <1>3 DEF NoTrailingZeros
<1>6. 1 \in 1 .. Len(w) + 1 /\ n \in 1 - 1 .. Len(w) /\ n - 1 + 1 = n /\ \A k \in 1 .. n : 1 + k - 1 = k
  BY <1>1, <1>4
<1>7. /\ Part(w, 1, n) \in Seq(Byte) /\ Len(Part(w, 1, n)) = n
      /\ \A k \in 1 .. n : Part(w, 1, n)[k] = w[k]
  BY <1>6, PartIs
<1> QED BY <1>4, <1>5, <1>7

\* The number some digits write, none being 0.
LEMMA NumberOfIs ==
  ASSUME NEW d \in Seq(Byte)
  PROVE  NumberOf(d) \in Int /\ (Len(d) = 0 => NumberOf(d) = 0)
<1> DEFINE n == Len(d)
           step == [k \in 1 .. n |-> [v \in Int |-> v * 10 + (d[k] - Zero)]]
           Body(g, k) == IF k = 0 THEN 0 ELSE g[k - 1] * 10 + (d[k] - Zero)
<1>1. n \in Nat BY LenProperties
<1>2. \A k \in 1 .. n : d[k] - Zero \in Int
  <2>1. ASSUME NEW k \in 1 .. n PROVE d[k] - Zero \in Int
    <3>1. PICK b : b = d[k] OBVIOUS
    <3>2. b \in Byte BY <3>1, ElementOfSeq
    <3>3. b - Zero \in Int BY <3>2 DEF Byte, Zero
    <3> QED BY <3>1, <3>3
  <2> QED BY <2>1
<1>3. step \in [1 .. n -> [Int -> Int]]
  <2>1. ASSUME NEW k \in 1 .. n, NEW v \in Int PROVE v * 10 + (d[k] - Zero) \in Int BY <1>2
  <2> QED BY <2>1
<1>4. \A k \in 1 .. n, v \in Int : step[k][v] = v * 10 + (d[k] - Zero) OBVIOUS
<1> HIDE DEF step
<1>5. PICK D : Recursive(D, n, Int, 0, step)
  <2> DEFINE V == Int
  <2>1. step \in [1 .. n -> [V -> V]] /\ 0 \in V BY <1>3
  <2> HIDE DEF n, V
  <2>2. \E f : Recursive(f, n, V, 0, step) BY <1>1, <2>1, Recursion
  <2> QED BY <2>2 DEF V
<1>6. D = [k \in 0 .. n |-> Body(D, k)]
  <2>1. D = [k \in 0 .. n |-> D[k]] BY <1>5 DEF Recursive
  <2>2. ASSUME NEW k \in 0 .. n PROVE D[k] = Body(D, k)
    <3>1. CASE k = 0 BY <1>5, <3>1 DEF Recursive
    <3>2. CASE k # 0
      <4>1. k \in 1 .. n /\ k - 1 \in 0 .. n BY <1>1, <3>2
      <4>2. D[k] = step[k][D[k - 1]] /\ D[k - 1] \in Int BY <1>5, <4>1 DEF Recursive
      <4> QED BY <1>4, <3>2, <4>1, <4>2
    <3> QED BY <3>1, <3>2
  <2> HIDE DEF Body
  <2> QED BY <2>1, <2>2
<1>7. PICK g : g = [k \in 0 .. n |-> Body(g, k)] /\ NumberOf(d) = g[n]
  <2>1. \E g : g = [k \in 0 .. n |-> Body(g, k)]
    <3> HIDE DEF Body
    <3> QED BY <1>6
  <2> QED BY <2>1, Zenon DEF NumberOf
<1>8. \A k \in 0 .. n : g[k] = Body(g, k)
  <2> HIDE DEF Body
  <2> QED BY <1>7
<1> DEFINE S == {k \in 0 .. n : g[k] \in Int}
<1>9. 0 .. n \subseteq S
  <2>1. 0 \in S BY <1>1, <1>8
  <2>2. ASSUME NEW k \in 0 .. n - 1, k \in S PROVE k + 1 \in S
    <3>1. k + 1 \in 1 .. n /\ k + 1 \in 0 .. n /\ (k + 1) - 1 = k /\ k + 1 # 0 BY <1>1
    <3>2. PICK v, z : v = g[k] /\ z = d[k + 1] - Zero OBVIOUS
    <3>3. g[k + 1] = v * 10 + z BY <1>8, <3>1, <3>2
    <3>4. v \in Int /\ z \in Int BY <1>2, <2>2, <3>1, <3>2
    <3>5. v * 10 + z \in Int BY <3>4
    <3> QED BY <3>1, <3>3, <3>5
  <2> HIDE DEF S, n
  <2> QED BY <1>1, <2>1, <2>2, UpTo
<1>10. n = 0 => g[n] = 0 BY <1>1, <1>8
<1> QED BY <1>1, <1>7, <1>9, <1>10

\* How many digits stand after position i up to position m.
Between(d, i, m) == Cardinality({j \in i + 1 .. m : IsDigit(d[j])})

\* It is a number, none where the stretch is empty, and one more with one more digit.
LEMMA BetweenIs ==
  ASSUME NEW d, NEW i \in Nat, NEW m \in Nat, i <= m
  PROVE  /\ Between(d, i, m) \in Nat /\ Between(d, m, m) = 0
         /\ Between(d, i, m + 1) = Between(d, i, m) + (IF IsDigit(d[m + 1]) THEN 1 ELSE 0)
<1> DEFINE S(n) == {j \in i + 1 .. n : IsDigit(d[j])}
<1>1. ASSUME NEW n \in Nat PROVE IsFiniteSet(S(n)) /\ Cardinality(S(n)) \in Nat
  <2>1. IsFiniteSet(i + 1 .. n) BY FS_Interval
  <2>2. S(n) \in SUBSET (i + 1 .. n) OBVIOUS
  <2> HIDE DEF S
  <2> QED BY <2>1, <2>2, FS_Subset, FS_CardinalityType
<1>2. IsDigit(d[m + 1]) => S(m + 1) = S(m) \cup {m + 1}
  <2>1. i + 1 .. m + 1 = (i + 1 .. m) \cup {m + 1} OBVIOUS
  <2> QED BY <2>1
<1>3. ~IsDigit(d[m + 1]) => S(m + 1) = S(m)
  <2>1. i + 1 .. m + 1 = (i + 1 .. m) \cup {m + 1} OBVIOUS
  <2> QED BY <2>1
<1>4. m + 1 \notin S(m) OBVIOUS
<1>5. {j \in m + 1 .. m : IsDigit(d[j])} = {} OBVIOUS
<1>6. Between(d, m, m) = 0 BY <1>5, FS_EmptySet DEF Between
<1>7. Between(d, i, m) = Cardinality(S(m)) /\ Between(d, i, m + 1) = Cardinality(S(m + 1))
  BY DEF Between
<1> HIDE DEF S
<1>8. Cardinality(S(m) \cup {m + 1}) = Cardinality(S(m)) + 1 BY <1>1, <1>4, FS_AddElement
<1>9. CASE IsDigit(d[m + 1])
  <2>1. Between(d, i, m + 1) = Between(d, i, m) + 1 BY <1>2, <1>7, <1>8, <1>9
  <2> QED BY <1>1, <1>6, <1>7, <1>9, <2>1
<1>10. CASE ~IsDigit(d[m + 1])
  <2>1. Between(d, i, m + 1) = Between(d, i, m) /\ Between(d, i, m) \in Nat
    BY <1>1, <1>3, <1>7, <1>10
  <2>2. Between(d, i, m + 1) = Between(d, i, m) + 0 BY <2>1
  <2> QED BY <1>6, <1>10, <2>1, <2>2
<1> QED BY <1>9, <1>10

\* A digit further on has fewer after it.
LEMMA BetweenFalls ==
  ASSUME NEW d, NEW i \in Nat, NEW j \in Nat, NEW m \in Nat, i < j, j <= m, IsDigit(d[j])
  PROVE  Between(d, i, m) > Between(d, j, m)
<1> DEFINE S == {x \in i + 1 .. m : IsDigit(d[x])}
           T == {x \in j + 1 .. m : IsDigit(d[x])}
<1>1. IsFiniteSet(S)
  <2>1. IsFiniteSet(i + 1 .. m) BY FS_Interval
  <2>2. S \in SUBSET (i + 1 .. m) OBVIOUS
  <2> HIDE DEF S
  <2> QED BY <2>1, <2>2, FS_Subset
<1>2. T \cup {j} \in SUBSET S /\ j \notin T OBVIOUS
<1>3. Between(d, i, m) = Cardinality(S) /\ Between(d, j, m) = Cardinality(T) BY DEF Between
<1> HIDE DEF S, T
<1>4. IsFiniteSet(T \cup {j}) /\ Cardinality(T \cup {j}) <= Cardinality(S) BY <1>1, <1>2, FS_Subset
<1>5. IsFiniteSet(T)
  <2>1. T \in SUBSET S BY <1>2
  <2> QED BY <1>1, <2>1, FS_Subset
<1>6. Cardinality(T \cup {j}) = Cardinality(T) + 1 BY <1>2, <1>5, FS_AddElement
<1>7. Cardinality(T) \in Nat /\ Cardinality(S) \in Nat BY <1>1, <1>5, FS_CardinalityType
<1> QED BY <1>3, <1>4, <1>6, <1>7

\* w is the digits among the first m bytes, in order: each is as far from the end as
\* it has digits after it.
Gathered(d, m, w) ==
  /\ w \in Seq(Byte) /\ \A k \in 1 .. Len(w) : IsDigit(w[k])
  /\ \A i \in 1 .. m : IsDigit(d[i]) =>
       /\ Len(w) - Between(d, i, m) \in 1 .. Len(w)
       /\ w[Len(w) - Between(d, i, m)] = d[i]
  /\ \A k \in 1 .. Len(w) : \E i \in 1 .. m : IsDigit(d[i]) /\ Between(d, i, m) = Len(w) - k

\* One byte more, a digit ...
LEMMA GatheredDigit ==
  ASSUME NEW d \in Seq(Byte), NEW m \in Nat, m < Len(d), NEW w, Gathered(d, m, w), IsDigit(d[m + 1])
  PROVE  Gathered(d, m + 1, Append(w, d[m + 1]))
<1>0. Len(d) \in Nat /\ w \in Seq(Byte) /\ Len(w) \in Nat BY LenProperties DEF Gathered
<1>1. PICK b : b = d[m + 1] OBVIOUS
<1>2. b \in Byte
  <2>1. m + 1 \in 1 .. Len(d) BY <1>0
  <2> QED BY <1>1, <2>1, ElementOfSeq
<1> DEFINE v == Append(w, b)
           N == Len(w)
<1>3. v \in Seq(Byte) /\ Len(v) = N + 1 /\ v[N + 1] = b /\ \A k \in 1 .. N : v[k] = w[k]
  BY <1>0, <1>2
<1> HIDE DEF v
<1>4. ASSUME NEW i \in 1 .. m
      PROVE  Between(d, i, m) \in Nat /\ Between(d, i, m + 1) = Between(d, i, m) + 1
  <2>1. i \in Nat /\ i <= m OBVIOUS
  <2>2. /\ Between(d, i, m) \in Nat
        /\ Between(d, i, m + 1) = Between(d, i, m) + (IF IsDigit(d[m + 1]) THEN 1 ELSE 0)
    BY <2>1, BetweenIs
  <2> QED BY <2>2
<1>5. Between(d, m + 1, m + 1) = 0 BY BetweenIs
<1>6. \A k \in 1 .. Len(v) : IsDigit(v[k])
  <2> SUFFICES ASSUME NEW k \in 1 .. Len(v) PROVE IsDigit(v[k]) OBVIOUS
  <2>1. k \in 1 .. N \/ k = N + 1 BY <1>0, <1>3
  <2> QED BY <1>1, <1>3, <2>1 DEF Gathered
<1>7. ASSUME NEW i \in 1 .. m + 1, IsDigit(d[i])
      PROVE  /\ Len(v) - Between(d, i, m + 1) \in 1 .. Len(v)
             /\ v[Len(v) - Between(d, i, m + 1)] = d[i]
  <2>1. CASE i = m + 1
    <3>1. Len(v) - Between(d, i, m + 1) = N + 1 BY <1>0, <1>3, <1>5, <2>1
    <3> QED BY <1>0, <1>1, <1>3, <2>1, <3>1
  <2>2. CASE i # m + 1
    <3>1. i \in 1 .. m BY <2>2
    <3>2. PICK r : r = N - Between(d, i, m) OBVIOUS
    <3>3. r \in 1 .. N /\ w[r] = d[i] BY <1>7, <3>1, <3>2 DEF Gathered
    <3>4. Len(v) - Between(d, i, m + 1) = r
      <4>1. PICK x \in Nat : x = Between(d, i, m) /\ Between(d, i, m + 1) = x + 1 BY <1>4, <3>1
      <4>2. (N + 1) - (x + 1) = N - x BY <1>0
      <4> QED BY <1>3, <3>2, <4>1, <4>2
    <3> QED BY <1>0, <1>3, <3>3, <3>4
  <2> QED BY <2>1, <2>2
<1>8. ASSUME NEW k \in 1 .. Len(v)
      PROVE  \E i \in 1 .. m + 1 : IsDigit(d[i]) /\ Between(d, i, m + 1) = Len(v) - k
  <2>1. CASE k = N + 1
    <3>1. m + 1 \in 1 .. m + 1 /\ Len(v) - k = 0 BY <1>0, <1>3, <2>1
    <3> QED BY <1>5, <3>1
  <2>2. CASE k # N + 1
    <3>1. k \in 1 .. N BY <1>0, <1>3, <2>2
    <3>2. PICK i \in 1 .. m : IsDigit(d[i]) /\ Between(d, i, m) = N - k BY <3>1 DEF Gathered
    <3>3. Between(d, i, m + 1) = (N - k) + 1 BY <1>4, <3>2
    <3>4. (N - k) + 1 = (N + 1) - k /\ i \in 1 .. m + 1 BY <1>0, <3>1
    <3> QED BY <1>3, <3>2, <3>3, <3>4
  <2> QED BY <2>1, <2>2
<1>9. Gathered(d, m + 1, v) BY <1>3, <1>6, <1>7, <1>8 DEF Gathered
<1> QED BY <1>1, <1>9 DEF v

\* ... or none.
LEMMA GatheredOther ==
  ASSUME NEW d \in Seq(Byte), NEW m \in Nat, m < Len(d), NEW w, Gathered(d, m, w), ~IsDigit(d[m + 1])
  PROVE  Gathered(d, m + 1, w)
<1>1. \A i \in 1 .. m : Between(d, i, m + 1) = Between(d, i, m)
  <2> SUFFICES ASSUME NEW i \in 1 .. m PROVE Between(d, i, m + 1) = Between(d, i, m) OBVIOUS
  <2>1. i \in Nat /\ i <= m OBVIOUS
  <2>2. /\ Between(d, i, m) \in Nat
        /\ Between(d, i, m + 1) = Between(d, i, m) + (IF IsDigit(d[m + 1]) THEN 1 ELSE 0)
    BY <2>1, BetweenIs
  <2>3. Between(d, i, m + 1) = Between(d, i, m) + 0 BY <2>2
  <2> QED BY <2>2, <2>3
<1>2. \A i \in 1 .. m + 1 : IsDigit(d[i]) => i \in 1 .. m
  <2> SUFFICES ASSUME NEW i \in 1 .. m + 1, IsDigit(d[i]) PROVE i \in 1 .. m OBVIOUS
  <2>1. i # m + 1 OBVIOUS
  <2> QED BY <2>1
<1>3. \A i \in 1 .. m : i \in 1 .. m + 1 OBVIOUS
<1> QED BY <1>1, <1>2, <1>3 DEF Gathered

\* So the digits of a mantissa are gathered.
LEMMA DigitsGathered ==
  ASSUME NEW d \in Seq(Byte)
  PROVE  Gathered(d, Len(d), DigitsOf(d))
<1> DEFINE n == Len(d)
           V == Seq(Byte)
           Put(v, k) == IF IsDigit(d[k]) THEN Append(v, d[k]) ELSE v
           step == [k \in 1 .. n |-> [v \in V |-> Put(v, k)]]
           Body(g, k) == IF k = 0 THEN <<>> ELSE Put(g[k - 1], k)
<1>1. n \in Nat BY LenProperties
<1>2. \A k \in 1 .. n, v \in V : Put(v, k) \in V
  <2>1. \A k \in 1 .. n : d[k] \in Byte BY <1>1, ElementOfSeq
  <2> QED BY <2>1
<1>3. <<>> \in V OBVIOUS
<1> HIDE DEF V, Put
<1>4. step \in [1 .. n -> [V -> V]] BY <1>2
<1>5. \A k \in 1 .. n, v \in V : step[k][v] = Put(v, k) OBVIOUS
<1> HIDE DEF step
<1>6. PICK D : Recursive(D, n, V, <<>>, step)
  <2> HIDE DEF n
  <2> QED BY <1>1, <1>3, <1>4, Recursion
<1>7. D = [k \in 0 .. n |-> Body(D, k)]
  <2>1. D = [k \in 0 .. n |-> D[k]] BY <1>6 DEF Recursive
  <2>2. ASSUME NEW k \in 0 .. n PROVE D[k] = Body(D, k)
    <3>1. CASE k = 0 BY <1>6, <3>1 DEF Recursive
    <3>2. CASE k # 0
      <4>1. k \in 1 .. n /\ k - 1 \in 0 .. n BY <1>1, <3>2
      <4>2. D[k] = step[k][D[k - 1]] /\ D[k - 1] \in V BY <1>6, <4>1 DEF Recursive
      <4> QED BY <1>5, <3>2, <4>1, <4>2
    <3> QED BY <3>1, <3>2
  <2> HIDE DEF Body
  <2> QED BY <2>1, <2>2
<1>8. PICK g : /\ g = [k \in 0 .. Len(d) |-> IF k = 0 THEN <<>> ELSE
                        IF IsDigit(d[k]) THEN Append(g[k - 1], d[k]) ELSE g[k - 1]]
               /\ DigitsOf(d) = g[Len(d)]
  <2>1. \E g : g = [k \in 0 .. Len(d) |-> IF k = 0 THEN <<>> ELSE
                        IF IsDigit(d[k]) THEN Append(g[k - 1], d[k]) ELSE g[k - 1]]
    BY <1>7, Zenon DEF Put
  <2> QED BY <2>1, Zenon DEF DigitsOf
<1>9. \A k \in 0 .. n : g[k] = Body(g, k)
  <2>1. g = [k \in 0 .. n |-> Body(g, k)] BY <1>8, Zenon DEF Put
  <2> HIDE DEF Body
  <2> QED BY <2>1
<1> DEFINE S == {k \in 0 .. n : Gathered(d, k, g[k])}
<1>10. 0 .. n \subseteq S
  <2>1. 0 \in S
    <3>1. g[0] = <<>> /\ 0 \in 0 .. n BY <1>1, <1>9
    <3>2. PICK e : e = <<>> OBVIOUS
    <3>3. e \in Seq(Byte) /\ Len(e) = 0 BY <3>2, EmptySeq
    <3>4. Gathered(d, 0, e)
      <4>1. 1 .. 0 = {} /\ 1 .. Len(e) = {} BY <3>3
      <4> QED BY <3>3, <4>1 DEF Gathered
    <3> QED BY <3>1, <3>2, <3>4
  <2>2. ASSUME NEW k \in 0 .. n - 1, k \in S PROVE k + 1 \in S
    <3>1. k + 1 \in 1 .. n /\ k + 1 \in 0 .. n /\ (k + 1) - 1 = k /\ k + 1 # 0 /\ k \in Nat /\ k < n
      BY <1>1
    <3>2. g[k + 1] = Put(g[k], k + 1) BY <1>9, <3>1
    <3>3. Gathered(d, k, g[k]) BY <2>2
    <3>4. Gathered(d, k + 1, g[k + 1])
      <4>1. CASE IsDigit(d[k + 1]) BY <3>1, <3>2, <3>3, <4>1, GatheredDigit DEF Put
      <4>2. CASE ~IsDigit(d[k + 1]) BY <3>1, <3>2, <3>3, <4>2, GatheredOther DEF Put
      <4> QED BY <4>1, <4>2
    <3> QED BY <3>1, <3>4
  <2> HIDE DEF S, n
  <2> QED BY <1>1, <2>1, <2>2, UpTo
<1> QED BY <1>1, <1>8, <1>10

\* Any of these leaves bytes.
LEMMA DigitsKept ==
  ASSUME NEW d \in Seq(Byte)
  PROVE  /\ DigitsOf(d) \in Seq(Byte) /\ NoLeadingZeros(d) \in Seq(Byte)
         /\ NoTrailingZeros(d) \in Seq(Byte)
BY DigitsGathered, LeadingTells, TrailingTells DEF Gathered

\* The digits after the point are counted.
LEMMA DecimalsIs ==
  ASSUME NEW d \in Seq(Byte)
  PROVE  Decimals(d) \in Nat
<1> DEFINE T == {i \in DOMAIN d : IsDigit(d[i]) /\ \E j \in 1 .. i : d[j] = Point}
<1>1. Len(d) \in Nat /\ DOMAIN d = 1 .. Len(d) BY LenProperties
<1>2. IsFiniteSet(1 .. Len(d)) BY <1>1, FS_Interval
<1>3. T \subseteq 1 .. Len(d) BY <1>1
<1>4. Cardinality(T) \in Nat
  <2> HIDE DEF T
  <2> QED BY <1>2, <1>3, FS_Subset, FS_CardinalityType
<1> QED BY <1>4 DEF Decimals

\* Some zeros are bytes, ...
LEMMA ZerosIs ==
  ASSUME NEW count \in Nat
  PROVE  Zeros(count) \in Seq(Byte)
<1>1. Zeros(count) \in [1 .. count -> Byte] BY DEF Zeros, Zero, Byte
<1> QED BY <1>1

\* ... and so is what follows a sign, ...
LEMMA TailIs ==
  ASSUME NEW p \in Seq(Byte), p # <<>>
  PROVE  Tail(p) \in Seq(Byte)
OBVIOUS

\* ... and so are the few sequences the renderings are put together from.
LEMMA ByteSeqs ==
  /\ <<>> \in Seq(Byte) /\ <<Minus>> \in Seq(Byte) /\ <<Point>> \in Seq(Byte)
  /\ <<Zero>> \in Seq(Byte) /\ <<Zero + 1>> \in Seq(Byte) /\ <<Zero, Point>> \in Seq(Byte)
<1>1. Minus \in Byte /\ Point \in Byte /\ Zero \in Byte /\ Zero + 1 \in Byte
  BY DEF Minus, Point, Zero, Byte
<1> QED BY <1>1

\* The digits with their point, ...
LEMMA PlacedIs ==
  ASSUME NEW sign \in Seq(Byte), NEW digits \in Seq(Byte), NEW point \in Int
  PROVE  Placed(sign, digits, point) \in Seq(Byte)
<1>1. Len(digits) \in Nat BY LenProperties
<1>2. CASE point >= 0
  <2>1. Zeros(point) \in Seq(Byte) BY <1>2, ZerosIs
  <2>2. sign \o digits \o Zeros(point) \in Seq(Byte) BY <2>1
  <2> QED BY <1>2, <2>2 DEF Placed
<1>3. CASE ~(point >= 0) /\ -point < Len(digits)
  <2> DEFINE cut == Len(digits) + point
  <2>1. /\ 1 \in 1 .. Len(digits) + 1 /\ cut \in 1 - 1 .. Len(digits)
        /\ cut + 1 \in 1 .. Len(digits) + 1 /\ Len(digits) \in (cut + 1) - 1 .. Len(digits)
    BY <1>1, <1>3
  <2>2. Part(digits, 1, cut) \in Seq(Byte) /\ Part(digits, cut + 1, Len(digits)) \in Seq(Byte)
    <3> HIDE DEF cut
    <3> QED BY <2>1, PartIs
  <2>3. sign \o Part(digits, 1, cut) \o <<Point>> \o Part(digits, cut + 1, Len(digits)) \in Seq(Byte)
    BY <2>2, ByteSeqs
  <2> QED BY <1>3, <2>3 DEF Placed
<1>4. CASE ~(point >= 0) /\ ~(-point < Len(digits))
  <2>1. -point - Len(digits) \in Nat BY <1>1, <1>4
  <2>2. Zeros(-point - Len(digits)) \in Seq(Byte) BY <2>1, ZerosIs
  <2>3. sign \o <<Zero, Point>> \o Zeros(-point - Len(digits)) \o digits \in Seq(Byte)
    BY <2>2, ByteSeqs
  <2> QED BY <1>4, <2>3 DEF Placed
<1> QED BY <1>2, <1>3, <1>4

\* ... a canonical form if it is not too long.
Form == Seq(Byte) \cup {Declined}

\* The rendering fits the scratch buffer or there is none.
LEMMA RenderWrittenIs ==
  ASSUME NEW sign \in Seq(Byte), NEW written \in Seq(Byte), NEW point \in Int
  PROVE  RenderWritten(sign, written, point) \in Form
<1>1. PICK digits : digits = NoTrailingZeros(written) OBVIOUS
<1>2. digits \in Seq(Byte) BY <1>1, DigitsKept
<1>3. Len(written) \in Nat /\ Len(digits) \in Nat BY <1>2, LenProperties
<1>4. PICK q : q = point + Len(written) - Len(digits) OBVIOUS
<1>5. Placed(sign, digits, q) \in Seq(Byte) BY <1>2, <1>3, <1>4, PlacedIs
<1>6. Render(sign, written, digits, point) \in Form
  BY <1>4, <1>5, ByteSeqs DEF Render, Fitting, Form
<1> QED BY <1>1, <1>6 DEF RenderWritten, Form

\* The power of ten an exponent names.
LEMMA ExponentIs ==
  ASSUME NEW rest \in Seq(Byte)
  PROVE  Exponent(rest) \in Int \cup {Declined}
<1>1. ASSUME NEW q \in Seq(Byte), NEW s \in {-1, 1} PROVE SignedPower(q, s) \in Int \cup {Declined}
  <2>1. s * NumberOf(q) \in Int BY NumberOfIs
  <2> QED BY <2>1 DEF SignedPower
<1>2. ASSUME NEW q \in Seq(Byte) PROVE PowerIn(q) \in Int \cup {Declined}
  <2>1. CASE q # <<>> /\ IsSign(q[1])
    <3>1. Tail(q) \in Seq(Byte) BY <2>1, TailIs
    <3>2. PICK s \in {-1, 1} : s = IF q[1] = Minus THEN -1 ELSE 1 OBVIOUS
    <3>3. SignedPower(Tail(q), s) \in Int \cup {Declined} BY <1>1, <3>1
    <3>4. PowerIn(q) = SignedPower(Tail(q), s) BY <2>1, <3>2, Zenon DEF PowerIn
    <3> QED BY <3>3, <3>4
  <2>2. CASE ~(q # <<>> /\ IsSign(q[1]))
    <3>1. PowerIn(q) = SignedPower(q, 1) BY <2>2, Zenon DEF PowerIn
    <3> QED BY <1>1, <3>1
  <2> QED BY <2>1, <2>2
<1>3. CASE rest = <<>> BY <1>3 DEF Exponent
<1>4. CASE rest # <<>>
  <2>1. PowerIn(Tail(rest)) \in Int \cup {Declined} BY <1>2, <1>4, TailIs
  <2> QED BY <1>4, <2>1 DEF Exponent
<1> QED BY <1>3, <1>4

\* A mantissa and a power of ten have a form or none.
LEMMA Shifted10Is ==
  ASSUME NEW sign \in Seq(Byte), NEW mant \in Seq(Byte), NEW power \in Int \cup {Declined}
  PROVE  Shifted10(sign, mant, power) \in Form
<1>1. PICK digits, point : digits = NoLeadingZeros(DigitsOf(mant)) /\ point = power - Decimals(mant)
  OBVIOUS
<1>2. digits \in Seq(Byte) BY <1>1, DigitsKept
<1>3. CASE power = Declined BY <1>3 DEF Shifted10, Form
<1>4. CASE power # Declined
  <2>1. point \in Int BY <1>1, <1>4, DecimalsIs
  <2>2. RenderWritten(sign, digits, point) \in Form BY <1>2, <2>1, RenderWrittenIs
  <2> QED BY <1>1, <2>2 DEF Shifted10, Form
<1> QED BY <1>3, <1>4

\* The mantissa ends inside the value or with it.
LEMMA MantissaEndIs ==
  ASSUME NEW p \in Seq(Byte)
  PROVE  MantissaEnd(p, 1) \in 1 .. Len(p) + 1
<1>1. Len(p) \in Nat BY LenProperties
<1>2. PICK e : e = DigitsFrom(p, 1) OBVIOUS
<1>3. e \in 1 .. Len(p) + 1 BY <1>1, <1>2, PastRunIs DEF DigitsFrom
<1>4. CASE e <= Len(p) /\ p[e] = Point
  <2>1. e + 1 \in 1 .. Len(p) + 1 BY <1>1, <1>3, <1>4
  <2>2. DigitsFrom(p, e + 1) \in e + 1 .. Len(p) + 1 BY <2>1, PastRunIs DEF DigitsFrom
  <2>3. DigitsFrom(p, e + 1) \in 1 .. Len(p) + 1 BY <1>1, <1>3, <2>2
  <2> QED BY <1>2, <1>4, <2>3 DEF MantissaEnd
<1>5. CASE ~(e <= Len(p) /\ p[e] = Point) BY <1>2, <1>3, <1>5 DEF MantissaEnd
<1> QED BY <1>4, <1>5

\* The three comparators give a form or none: decimal, ...
LEMMA CanonicalDecimalIs ==
  ASSUME NEW p \in Seq(Byte)
  PROVE  CanonicalDecimal(p) \in Form
<1>1. ASSUME NEW sign \in Seq(Byte), NEW q \in Seq(Byte)
      PROVE  FromMantissa(sign, q, MantissaEnd(q, 1)) \in Form
  <2>1. PICK end : end = MantissaEnd(q, 1) OBVIOUS
  <2>2. Len(q) \in Nat /\ end \in 1 .. Len(q) + 1 BY <2>1, MantissaEndIs, LenProperties
  <2>3. 1 \in 1 .. Len(q) + 1 /\ end - 1 \in 1 - 1 .. Len(q) /\ Len(q) \in end - 1 .. Len(q) BY <2>2
  <2>4. Part(q, 1, end - 1) \in Seq(Byte) /\ Part(q, end, Len(q)) \in Seq(Byte)
    BY <2>2, <2>3, PartIs
  <2> QED BY <2>1, <2>4, ExponentIs, Shifted10Is DEF FromMantissa
<1>2. CASE p # <<>> /\ IsSign(p[1])
  <2>1. PICK sign \in Seq(Byte) : sign = IF p[1] = Minus THEN <<Minus>> ELSE <<>> BY ByteSeqs
  <2>2. CanonicalDecimal(p) = FromMantissa(sign, Tail(p), MantissaEnd(Tail(p), 1))
    BY <1>2, <2>1, Zenon DEF CanonicalDecimal
  <2> QED BY <1>1, <1>2, <2>2, TailIs
<1>3. CASE ~(p # <<>> /\ IsSign(p[1]))
  <2>1. CanonicalDecimal(p) = FromMantissa(<<>>, p, MantissaEnd(p, 1))
    BY <1>3, Zenon DEF CanonicalDecimal
  <2> QED BY <1>1, <2>1, ByteSeqs
<1> QED BY <1>2, <1>3

\* ... timestamp, ...
LEMMA CanonicalTimestampIs ==
  ASSUME NEW p \in Seq(Byte)
  PROVE  CanonicalTimestamp(p) \in Form
<1>1. CASE Len(p) > Scratch \/ FractionPoints(p) = {} BY <1>1 DEF CanonicalTimestamp, Form
<1>2. CASE ~(Len(p) > Scratch \/ FractionPoints(p) = {})
  <2>1. PICK dot : dot = CHOOSE i \in FractionPoints(p) : TRUE OBVIOUS
  <2>2. dot \in FractionPoints(p) BY <1>2, <2>1
  <2>3. Len(p) \in Nat /\ dot \in 2 .. Len(p) - 1 BY <2>2, LenProperties DEF FractionPoints
  <2>4. /\ 1 \in 1 .. Len(p) + 1 /\ dot - 1 \in 1 - 1 .. Len(p)
        /\ dot + 1 \in 1 .. Len(p) + 1 /\ Len(p) \in (dot + 1) - 1 .. Len(p)
    BY <2>3
  <2>5. PICK whole, rest : whole = Part(p, 1, dot - 1) /\ rest = NoTrailingZeros(Part(p, dot + 1, Len(p)))
    OBVIOUS
  <2>6. whole \in Seq(Byte) /\ rest \in Seq(Byte) BY <2>4, <2>5, PartIs, DigitsKept
  <2>7. whole \o <<Point>> \o rest \in Seq(Byte) BY <2>6, ByteSeqs
  <2>8. UnlessSame(p, Shortened(whole, rest)) \in Form BY <2>6, <2>7 DEF UnlessSame, Shortened, Form
  <2>9. CanonicalTimestamp(p) = UnlessSame(p, Shortened(whole, rest))
    BY <1>2, <2>1, <2>5, Zenon DEF CanonicalTimestamp
  <2> QED BY <2>8, <2>9
<1> QED BY <1>1, <1>2

\* ... and whichever the column's type and the options call for.
LEMMA CanonicalIs ==
  ASSUME NEW p \in Seq(Byte), NEW type, NEW o
  PROVE  Canonical(p, type, o) \in Form
<1>1. CanonicalBoolean(p) \in Form BY ByteSeqs DEF CanonicalBoolean, Form
<1>2. Declined \in Form BY DEF Form
<1> QED BY <1>1, <1>2, CanonicalDecimalIs, CanonicalTimestampIs DEF Canonical

\* The view of a cell is a range again, and the cell's own when it says it is
\* unchanged.
LEMMA NormalizeIs ==
  ASSUME NEW f, IsField(f), NEW type, NEW o
  PROVE  LET v == Normalize(f, type, o)
         IN  /\ IsField(v)
             /\ ~v.changed => v.raw = f.raw /\ v.esc = f.esc
<1>1. PICK p : p = Trimmed(f.raw, o.trim, o.trim \/ (type = "CHAR" /\ o.charIgnorePad)) OBVIOUS
<1>2. p \in Seq(Byte) /\ (Len(p) = Len(f.raw) => p = f.raw) BY <1>1, TrimmedIs DEF IsField
<1>3. PICK form : form = IF f.esc THEN Declined ELSE Canonical(p, type, o) OBVIOUS
<1>4. form \in Form /\ (form # Declined => ~f.esc) BY <1>2, <1>3, CanonicalIs DEF Form
<1>5. PICK v : v = Normalize(f, type, o) OBVIOUS
<1>6. v = View(f, p, form) BY <1>1, <1>3, <1>5, Zenon DEF Normalize, TrimmedView
<1>7. CASE form = Declined
  <2>1. v.raw = p /\ v.esc = f.esc /\ v.changed = (Len(p) # Len(f.raw)) BY <1>6, <1>7 DEF View
  <2>2. IsField(v) /\ (~v.changed => v.raw = f.raw /\ v.esc = f.esc) BY <1>2, <2>1 DEF IsField
  <2> QED BY <1>5, <2>2
<1>8. CASE form # Declined
  <2>1. v.raw = form /\ v.esc = FALSE /\ v.changed = (Len(p) # Len(f.raw) \/ form # p)
    BY <1>6, <1>8 DEF View
  <2>2. form \in Seq(Byte) /\ ~f.esc BY <1>4, <1>8 DEF Form
  <2>3. IsField(v) /\ (~v.changed => v.raw = f.raw /\ v.esc = f.esc) BY <1>2, <2>1, <2>2 DEF IsField
  <2> QED BY <1>5, <2>3
<1> QED BY <1>7, <1>8

-----------------------------------------------------------------------------
(* The number a text writes, and its one form: normalize.c.                *)

\* Digits of which the first and the last are not 0, each at its power of ten when the
\* last stands at a given one.
Significant(d) ==
  /\ d \in Seq(Byte) /\ \A k \in 1 .. Len(d) : IsDigit(d[k])
  /\ Len(d) # 0 => d[1] # Zero /\ d[Len(d)] # Zero

Standing(d, point) == {<<Len(d) - k + point, d[k]>> : k \in {j \in 1 .. Len(d) : d[j] # Zero}}

\* The digits the renderings are made of: those gathered from a mantissa, without
\* the zeros at both ends.
LEMMA StandingTells ==
  ASSUME NEW m \in Seq(Byte), NEW shift \in Int, NEW w, w = NoLeadingZeros(DigitsOf(m)),
         NEW d, d = NoTrailingZeros(w)
  PROVE  /\ w \in Seq(Byte) /\ Significant(d)
         /\ DigitsAt(m, shift) = Standing(d, shift + Len(w) - Len(d))
         /\ Len(w) = Cardinality({i \in DOMAIN m : IsDigit(m[i]) /\ \E j \in 1 .. i : m[j] \in Zero + 1 .. Nine})
         /\ DigitsOf(m) = <<>> <=> \A i \in DOMAIN m : ~IsDigit(m[i])
<1> DEFINE g == DigitsOf(m)
           n == Len(m)
           L == Len(g)
<1>0. Gathered(m, n, g) /\ n \in Nat /\ DOMAIN m = 1 .. n BY DigitsGathered, LenProperties
<1> HIDE DEF g, n
<1>1. g \in Seq(Byte) /\ L \in Nat BY <1>0, LenProperties DEF Gathered
<1> HIDE DEF L
<1>2. PICK r \in 1 .. L + 1 :
        /\ \A x \in 1 .. r - 1 : g[x] = Zero
        /\ r = L + 1 \/ g[r] # Zero
        /\ w \in Seq(Byte) /\ Len(w) = L - r + 1
        /\ \A k \in 1 .. L - r + 1 : w[k] = g[r + k - 1]
  BY <1>1, LeadingTells DEF g, L
<1>3. PICK K \in 0 .. Len(w) :
        /\ \A x \in K + 1 .. Len(w) : w[x] = Zero
        /\ K = 0 \/ w[K] # Zero
        /\ d \in Seq(Byte) /\ Len(d) = K /\ \A k \in 1 .. K : d[k] = w[k]
  BY <1>2, TrailingTells
<1>4. /\ \A k \in 1 .. L : IsDigit(g[k])
      /\ \A i \in 1 .. n : IsDigit(m[i]) =>
           L - Between(m, i, n) \in 1 .. L /\ g[L - Between(m, i, n)] = m[i]
      /\ \A k \in 1 .. L : \E i \in 1 .. n : IsDigit(m[i]) /\ Between(m, i, n) = L - k
  BY <1>0 DEF Gathered, L
<1>5. \A i \in 1 .. n : Between(m, i, n) \in Nat /\ After(m, i) = Between(m, i, n)
  <2> SUFFICES ASSUME NEW i \in 1 .. n PROVE Between(m, i, n) \in Nat /\ After(m, i) = Between(m, i, n)
    OBVIOUS
  <2>1. i \in Nat /\ i <= n BY <1>0
  <2>2. Between(m, i, n) \in Nat BY <1>0, <2>1, BetweenIs
  <2> QED BY <2>2 DEF After, Between, n
<1>6. /\ \A k \in 1 .. K : d[k] = g[r + k - 1] /\ r + k - 1 \in r .. L
      /\ \A x \in 1 .. L : g[x] # Zero => x - r + 1 \in 1 .. K
  <2>1. ASSUME NEW k \in 1 .. K PROVE d[k] = g[r + k - 1] /\ r + k - 1 \in r .. L
    <3>1. k \in 1 .. L - r + 1 BY <1>1, <1>2, <1>3
    <3>2. r + k - 1 \in r .. L BY <1>1, <1>2, <3>1
    <3>3. d[k] = w[k] BY <1>3
    <3>4. w[k] = g[r + k - 1] BY <1>2, <3>1
    <3> QED BY <3>2, <3>3, <3>4
  <2>2. ASSUME NEW x \in 1 .. L, g[x] # Zero PROVE x - r + 1 \in 1 .. K
    <3>1. x >= r BY <1>1, <1>2, <2>2
    <3>2. PICK y : y = x - r + 1 OBVIOUS
    <3>3. y \in 1 .. L - r + 1 /\ r + y - 1 = x /\ y \in Int BY <1>1, <1>2, <3>1, <3>2
    <3>4. w[y] # Zero BY <1>2, <2>2, <3>3
    <3>5. y <= K BY <1>1, <1>2, <1>3, <3>3, <3>4
    <3> QED BY <1>3, <3>2, <3>3, <3>5
  <2> QED BY <2>1, <2>2
<1>7. Significant(d)
  <2>1. \A k \in 1 .. K : IsDigit(d[k]) BY <1>2, <1>4, <1>6
  <2>2. K # 0 => d[K] # Zero BY <1>3
  <2>3. K # 0 => d[1] # Zero
    <3> SUFFICES ASSUME K # 0 PROVE d[1] # Zero OBVIOUS
    <3>1. 1 \in 1 .. K /\ r + 1 - 1 = r BY <1>1, <1>2, <1>3
    <3>2. d[1] = g[r] /\ r \in r .. L BY <1>6, <3>1
    <3> QED BY <1>1, <1>2, <3>2
  <2> QED BY <1>3, <2>1, <2>2, <2>3 DEF Significant
<1>8. \A b : b \in Zero + 1 .. Nine <=> IsDigit(b) /\ b # Zero BY DEF IsDigit, Digits, Zero, Nine
<1> DEFINE point == shift + Len(w) - Len(d)
<1>9. ASSUME NEW i \in 1 .. n, m[i] \in Zero + 1 .. Nine
      PROVE  \E k \in 1 .. K : d[k] # Zero /\ <<After(m, i) + shift, m[i]>> = <<K - k + point, d[k]>>
  <2>1. PICK x : x = L - Between(m, i, n) OBVIOUS
  <2>2. x \in 1 .. L /\ g[x] = m[i] /\ m[i] # Zero BY <1>4, <1>8, <1>9, <2>1
  <2>3. PICK k : k = x - r + 1 OBVIOUS
  <2>4. k \in 1 .. K BY <1>6, <2>2, <2>3
  <2>5. r + k - 1 = x BY <1>1, <1>2, <2>2, <2>3
  <2>6. d[k] = m[i] BY <1>6, <2>2, <2>4, <2>5
  <2>7. K - k + point = After(m, i) + shift
    <3>1. PICK z \in Nat : z = Between(m, i, n) /\ z = After(m, i) BY <1>5
    <3>2. Len(w) = L - r + 1 /\ Len(d) = K /\ L \in Nat /\ r \in Nat /\ K \in Nat /\ x = L - z
      BY <1>1, <1>2, <1>3, <2>1, <3>1
    <3>3. K - k + (shift + (L - r + 1) - K) = z + shift
      <4>1. k \in Int /\ z \in Int /\ k = L - z - r + 1 BY <2>3, <2>4, <3>1, <3>2
      <4> QED BY <3>2, <4>1
    <3> QED BY <3>1, <3>2, <3>3
  <2> QED BY <2>2, <2>4, <2>6, <2>7
<1>10. ASSUME NEW k \in 1 .. K, d[k] # Zero
       PROVE  \E i \in 1 .. n : m[i] \in Zero + 1 .. Nine
                                /\ <<After(m, i) + shift, m[i]>> = <<K - k + point, d[k]>>
  <2>1. PICK x : x = r + k - 1 OBVIOUS
  <2>2. x \in 1 .. L /\ g[x] = d[k]
    <3>1. d[k] = g[r + k - 1] /\ r + k - 1 \in r .. L BY <1>6
    <3> QED BY <1>1, <1>2, <2>1, <3>1
  <2>3. PICK i \in 1 .. n : IsDigit(m[i]) /\ Between(m, i, n) = L - x BY <1>4, <2>2
  <2>4. L - (L - x) = x BY <1>1, <2>2
  <2>5. m[i] = d[k] BY <1>4, <2>2, <2>3, <2>4
  <2>6. K - k + point = After(m, i) + shift
    <3>1. After(m, i) = L - x BY <1>5, <2>3
    <3>2. Len(w) = L - r + 1 /\ Len(d) = K /\ L \in Nat /\ r \in Nat /\ K \in Nat
      BY <1>1, <1>2, <1>3
    <3>3. K - k + (shift + (L - r + 1) - K) = (L - x) + shift BY <2>1, <3>2
    <3> QED BY <3>1, <3>2, <3>3
  <2> QED BY <1>8, <1>10, <2>3, <2>5, <2>6
<1>11. DigitsAt(m, shift) = Standing(d, point)
  <2>1. DigitsAt(m, shift) = {<<After(m, i) + shift, m[i]>> : i \in {j \in 1 .. n : m[j] \in Zero + 1 .. Nine}}
    BY <1>0 DEF DigitsAt
  <2>2. Standing(d, point) = {<<K - k + point, d[k]>> : k \in {j \in 1 .. K : d[j] # Zero}}
    BY <1>3 DEF Standing
  <2> HIDE DEF point
  <2>3. \A e \in DigitsAt(m, shift) : e \in Standing(d, point) BY <1>9, <2>1, <2>2
  <2>4. \A e \in Standing(d, point) : e \in DigitsAt(m, shift) BY <1>10, <2>1, <2>2
  <2> QED BY <2>3, <2>4
<1>12. Len(w) = Cardinality({i \in DOMAIN m : IsDigit(m[i]) /\ \E j \in 1 .. i : m[j] \in Zero + 1 .. Nine})
  <2> DEFINE S == {i \in 1 .. n : IsDigit(m[i]) /\ \E j \in 1 .. i : m[j] \in Zero + 1 .. Nine}
  <2>1. CASE r = L + 1
    <3>1. ASSUME NEW j \in 1 .. n, m[j] \in Zero + 1 .. Nine PROVE FALSE
      <4>1. PICK x : x = L - Between(m, j, n) OBVIOUS
      <4>2. x \in 1 .. L /\ g[x] = m[j] /\ m[j] # Zero BY <1>4, <1>8, <3>1, <4>1
      <4> QED BY <1>1, <1>2, <2>1, <4>2
    <3>2. S = {} BY <1>0, <3>1
    <3>3. Cardinality(S) = 0 BY <3>2, FS_EmptySet
    <3>4. Len(w) = 0 BY <1>1, <1>2, <2>1
    <3> QED BY <1>0, <3>3, <3>4
  <2>2. CASE r # L + 1
    <3>1. r \in 1 .. L /\ g[r] # Zero BY <1>1, <1>2, <2>2
    <3>2. PICK i \in 1 .. n : IsDigit(m[i]) /\ Between(m, i, n) = L - r BY <1>4, <3>1
    <3>3. m[i] \in Zero + 1 .. Nine
      <4>1. L - (L - r) = r BY <1>1, <3>1
      <4>2. m[i] = g[r] BY <1>4, <3>2, <4>1
      <4> QED BY <1>8, <3>1, <3>2, <4>2
    <3> DEFINE T == {j \in i + 1 .. n : IsDigit(m[j])}
    <3>4. ASSUME NEW j \in 1 .. n, m[j] \in Zero + 1 .. Nine PROVE j >= i
      <4> SUFFICES ASSUME j < i PROVE FALSE BY <1>0
      <4>1. Between(m, j, n) > Between(m, i, n)
        <5>1. j \in Nat /\ i \in Nat /\ i <= n BY <1>0
        <5> QED BY <1>0, <3>2, <5>1, BetweenFalls
      <4>2. PICK x : x = L - Between(m, j, n) OBVIOUS
      <4>3. x \in 1 .. L /\ g[x] = m[j] /\ m[j] # Zero BY <1>4, <1>8, <3>4, <4>2
      <4>4. x < r
        <5>1. PICK z \in Nat : z = Between(m, j, n) BY <1>5
        <5>2. z > L - r /\ x = L - z BY <3>2, <4>1, <4>2, <5>1
        <5> QED BY <1>1, <1>2, <5>2
      <4> QED BY <1>1, <1>2, <4>3, <4>4
    <3>5. S = T \cup {i}
      <4>1. \A x \in S : x \in T \cup {i}
        <5> SUFFICES ASSUME NEW x \in S PROVE x \in T \cup {i} OBVIOUS
        <5>1. PICK j \in 1 .. x : m[j] \in Zero + 1 .. Nine OBVIOUS
        <5>2. j \in 1 .. n BY <1>0, <5>1
        <5>3. j >= i BY <3>4, <5>1, <5>2
        <5> QED BY <1>0, <5>1, <5>3
      <4>2. \A x \in T \cup {i} : x \in S BY <1>0, <3>2, <3>3
      <4> QED BY <4>1, <4>2
    <3>6. i \notin T /\ IsFiniteSet(T)
      <4>1. IsFiniteSet(i + 1 .. n) BY <1>0, FS_Interval
      <4>2. T \in SUBSET (i + 1 .. n) /\ i \notin T BY <1>0
      <4> HIDE DEF T
      <4> QED BY <4>1, <4>2, FS_Subset
    <3>7. Cardinality(T) = L - r BY <3>2 DEF Between
    <3> HIDE DEF T, S
    <3>8. Cardinality(S) = (L - r) + 1 BY <3>5, <3>6, <3>7, FS_AddElement
    <3>9. Len(w) = (L - r) + 1 BY <1>1, <1>2
    <3> QED BY <1>0, <3>8, <3>9 DEF S
  <2> QED BY <2>1, <2>2
<1>13. g = <<>> <=> \A i \in DOMAIN m : ~IsDigit(m[i])
  <2>1. g = <<>> <=> L = 0 BY <1>1, EmptySeq DEF L
  <2>2. ASSUME L # 0 PROVE \E i \in DOMAIN m : IsDigit(m[i])
    <3>1. 1 \in 1 .. L BY <1>1, <2>2
    <3> QED BY <1>0, <1>4, <3>1
  <2>3. ASSUME NEW i \in DOMAIN m, IsDigit(m[i]) PROVE L # 0
    <3>1. PICK x : x = L - Between(m, i, n) OBVIOUS
    <3>2. x \in 1 .. L BY <1>0, <1>4, <2>3, <3>1
    <3> QED BY <3>2
  <2> QED BY <2>1, <2>2, <2>3
<1> QED BY <1>2, <1>7, <1>11, <1>12, <1>13 DEF g

\* Three in a row, whichever two are joined first.
LEMMA Regrouped ==
  ASSUME NEW a \in Seq(Byte), NEW b \in Seq(Byte), NEW c \in Seq(Byte)
  PROVE  (a \o b) \o c = a \o (b \o c)
BY ConcatAssociative

\* A sign comes before everything else.
LEMMA SignedPlaced ==
  ASSUME NEW sign \in Seq(Byte), NEW d \in Seq(Byte), NEW point \in Int
  PROVE  Placed(sign, d, point) = sign \o Placed(<<>>, d, point)
<1>1. Len(d) \in Nat /\ <<>> \in Seq(Byte) /\ \A x \in Seq(Byte) : <<>> \o x = x
  BY LenProperties, ConcatEmptySeq, ByteSeqs
<1>2. CASE point >= 0
  <2>1. PICK z \in Seq(Byte) : z = Zeros(point) BY <1>2, ZerosIs
  <2>2. Placed(sign, d, point) = sign \o d \o z /\ Placed(<<>>, d, point) = <<>> \o d \o z
    BY <1>2, <2>1 DEF Placed
  <2>3. (sign \o d) \o z = sign \o (d \o z) BY Regrouped
  <2> QED BY <1>1, <2>2, <2>3
<1>3. CASE ~(point >= 0) /\ -point < Len(d)
  <2>1. PICK cut : cut = Len(d) + point OBVIOUS
  <2>2. /\ 1 \in 1 .. Len(d) + 1 /\ cut \in 1 - 1 .. Len(d)
        /\ cut + 1 \in 1 .. Len(d) + 1 /\ Len(d) \in (cut + 1) - 1 .. Len(d)
    BY <1>1, <1>3, <2>1
  <2>3. PICK x, y : x = Part(d, 1, cut) /\ y = Part(d, cut + 1, Len(d)) OBVIOUS
  <2>4. x \in Seq(Byte) /\ y \in Seq(Byte) /\ <<Point>> \in Seq(Byte)
    BY <2>2, <2>3, PartIs, ByteSeqs
  <2>5. Placed(sign, d, point) = sign \o x \o <<Point>> \o y
        /\ Placed(<<>>, d, point) = <<>> \o x \o <<Point>> \o y
    BY <1>3, <2>1, <2>3 DEF Placed
  <2>6. PICK o : o = <<Point>> OBVIOUS
  <2>7. o \in Seq(Byte) BY <2>4, <2>6
  <2>8. Placed(sign, d, point) = sign \o (x \o o \o y)
    <3>1. PICK xo : xo = x \o o OBVIOUS
    <3>2. xo \in Seq(Byte) BY <2>4, <2>7, <3>1, ConcatProperties
    <3>3. (sign \o x) \o o = sign \o xo BY <2>4, <2>7, <3>1, Regrouped
    <3>4. (sign \o xo) \o y = sign \o (xo \o y) BY <2>4, <3>2, Regrouped
    <3> QED BY <2>5, <2>6, <3>1, <3>3, <3>4
  <2> QED BY <1>1, <2>4, <2>5, <2>6, <2>8
<1>4. CASE ~(point >= 0) /\ ~(-point < Len(d))
  <2>1. -point - Len(d) \in Nat BY <1>1, <1>4
  <2>2. PICK z \in Seq(Byte) : z = Zeros(-point - Len(d)) BY <2>1, ZerosIs
  <2>3. PICK o \in Seq(Byte) : o = <<Zero, Point>> BY ByteSeqs
  <2>4. Placed(sign, d, point) = sign \o o \o z \o d /\ Placed(<<>>, d, point) = <<>> \o o \o z \o d
    BY <1>4, <2>2, <2>3 DEF Placed
  <2>5. Placed(sign, d, point) = sign \o (o \o z \o d)
    <3>1. PICK oz : oz = o \o z OBVIOUS
    <3>2. oz \in Seq(Byte) BY <3>1, ConcatProperties
    <3>3. (sign \o o) \o z = sign \o oz BY <3>1, Regrouped
    <3>4. (sign \o oz) \o d = sign \o (oz \o d) BY <3>2, Regrouped
    <3> QED BY <2>4, <3>1, <3>3, <3>4
  <2> QED BY <1>1, <2>4, <2>5
<1> QED BY <1>2, <1>3, <1>4

\* The power of ten of position i when the point stands, or would stand, at position P.
PowerAt(P, i) == IF i < P THEN P - 1 - i ELSE P - i

\* b is d laid out as a plain number: digits about a point at P, which one follows, and
\* every digit of d at its power of ten, and no other but 0.
Laid(b, d, point, P) ==
  /\ b \in Seq(Byte) /\ P \in 2 .. Len(b) + 1 /\ P # Len(b)
  /\ P <= Len(b) => b[P] = Point
  /\ \A i \in 1 .. Len(b) : i # P => IsDigit(b[i])
  /\ \A i \in 1 .. Len(b) : i # P /\ b[i] # Zero =>
       \E k \in 1 .. Len(d) : d[k] = b[i] /\ PowerAt(P, i) = Len(d) - k + point
  /\ \A k \in 1 .. Len(d) :
       \E i \in 1 .. Len(b) : i # P /\ b[i] = d[k] /\ PowerAt(P, i) = Len(d) - k + point

\* The bytes that takes.
Taken(n, point) == IF point >= 0 THEN n + point ELSE IF -point < n THEN n + 1 ELSE 2 - point

\* The digits are laid out with the point after them, ...
LEMMA LaidWhole ==
  ASSUME NEW d \in Seq(Byte), \A k \in 1 .. Len(d) : IsDigit(d[k]), Len(d) # 0,
         NEW point \in Nat, NEW b, b = Placed(<<>>, d, point)
  PROVE  Laid(b, d, point, Len(b) + 1) /\ Len(b) = Len(d) + point
<1>1. PICK n \in Nat : n = Len(d) /\ n # 0 BY LenProperties
<1>2. PICK z : z = Zeros(point) OBVIOUS
<1>3. z \in Seq(Byte) /\ Len(z) = point /\ \A k \in 1 .. point : z[k] = Zero
  <2>1. z \in Seq(Byte) BY <1>2, ZerosIs
  <2>2. DOMAIN z = 1 .. point /\ \A k \in 1 .. point : z[k] = Zero BY <1>2 DEF Zeros
  <2> QED BY <2>1, <2>2, LenProperties
<1>4. b = d \o z
  <2>1. b = <<>> \o d \o z /\ <<>> \o d = d BY <1>2, ConcatEmptySeq DEF Placed
  <2> QED BY <2>1
<1>5. /\ b \in Seq(Byte) /\ Len(b) = n + point
      /\ \A k \in 1 .. n : b[k] = d[k]
      /\ \A k \in 1 .. point : b[n + k] = Zero
  <2>1. /\ d \o z \in Seq(Byte) /\ Len(d \o z) = Len(d) + Len(z)
        /\ \A k \in 1 .. Len(d) : (d \o z)[k] = d[k]
        /\ \A k \in 1 .. Len(z) : (d \o z)[Len(d) + k] = z[k]
    BY <1>3, BytesAfter
  <2> QED BY <1>1, <1>3, <1>4, <2>1
<1>6. \A i \in 1 .. n + point : PowerAt(n + point + 1, i) = n + point - i BY DEF PowerAt
<1>7. ASSUME NEW i \in 1 .. n + point PROVE i \in 1 .. n \/ b[i] = Zero
  <2>1. CASE i > n
    <3>1. PICK k : k = i - n OBVIOUS
    <3>2. k \in 1 .. point /\ n + k = i BY <2>1, <3>1
    <3> QED BY <1>5, <3>2
  <2> QED BY <2>1
<1>8. \A i \in 1 .. n + point : IsDigit(b[i]) BY <1>1, <1>5, <1>7 DEF IsDigit, Digits, Zero, Nine
<1>9. ASSUME NEW i \in 1 .. n + point, b[i] # Zero
      PROVE  \E k \in 1 .. n : d[k] = b[i] /\ PowerAt(n + point + 1, i) = n - k + point
  <2>1. i \in 1 .. n BY <1>7, <1>9
  <2>2. PowerAt(n + point + 1, i) = n - i + point BY <1>6
  <2> QED BY <1>5, <2>1, <2>2
<1>10. ASSUME NEW k \in 1 .. n
       PROVE  \E i \in 1 .. n + point : i # n + point + 1 /\ b[i] = d[k]
                                        /\ PowerAt(n + point + 1, i) = n - k + point
  <2>1. k \in 1 .. n + point /\ k # n + point + 1 OBVIOUS
  <2>2. PowerAt(n + point + 1, k) = n - k + point BY <1>6, <2>1
  <2> QED BY <1>5, <2>1, <2>2
<1>11. n + point + 1 \in 2 .. n + point + 1 /\ n + point + 1 # n + point /\ ~(n + point + 1 <= n + point)
  BY <1>1
<1> QED BY <1>1, <1>5, <1>8, <1>9, <1>10, <1>11 DEF Laid

\* ... among them, ...
LEMMA LaidAmong ==
  ASSUME NEW d \in Seq(Byte), \A k \in 1 .. Len(d) : IsDigit(d[k]), Len(d) # 0,
         NEW point \in Int, point < 0, -point < Len(d), NEW b, b = Placed(<<>>, d, point)
  PROVE  Laid(b, d, point, Len(d) + point + 1) /\ Len(b) = Len(d) + 1
<1>1. PICK n \in Nat : n = Len(d) /\ n # 0 BY LenProperties
<1>2. PICK cut : cut = n + point OBVIOUS
<1>3. cut \in 1 .. n - 1 BY <1>1, <1>2
<1>4. PICK x, y, o : x = Part(d, 1, cut) /\ y = Part(d, cut + 1, n) /\ o = <<Point>> OBVIOUS
<1>5. /\ x \in Seq(Byte) /\ Len(x) = cut
      /\ \A k \in 1 .. cut : x[k] = d[k]
  <2>1. 1 \in 1 .. Len(d) + 1 /\ cut \in 1 - 1 .. Len(d) /\ cut - 1 + 1 = cut
        /\ \A k \in 1 .. cut : 1 + k - 1 = k
    BY <1>1, <1>3
  <2> QED BY <1>4, <2>1, PartIs
<1>6. /\ y \in Seq(Byte) /\ Len(y) = n - cut
      /\ \A k \in 1 .. n - cut : y[k] = d[cut + k]
  <2>1. cut + 1 \in 1 .. Len(d) + 1 /\ Len(d) \in (cut + 1) - 1 .. Len(d) /\ n - (cut + 1) + 1 = n - cut
        /\ \A k \in 1 .. n - cut : cut + 1 + k - 1 = cut + k
    BY <1>1, <1>3
  <2>2. /\ Part(d, cut + 1, Len(d)) \in Seq(Byte)
        /\ Len(Part(d, cut + 1, Len(d))) = Len(d) - (cut + 1) + 1
        /\ \A k \in 1 .. Len(d) - (cut + 1) + 1 : Part(d, cut + 1, Len(d))[k] = d[cut + 1 + k - 1]
    BY <2>1, PartIs
  <2> QED BY <1>1, <1>4, <2>1, <2>2
<1>7. o \in Seq(Byte) /\ Len(o) = 1 /\ o[1] = Point BY <1>4, ByteSeqs
<1>8. b = (x \o o) \o y
  <2>1. b = <<>> \o x \o o \o y BY <1>1, <1>2, <1>4 DEF Placed
  <2>2. <<>> \o x = x BY <1>5, ConcatEmptySeq
  <2> QED BY <2>1, <2>2
<1>9. PICK xo : xo = x \o o OBVIOUS
<1>10. /\ xo \in Seq(Byte) /\ Len(xo) = cut + 1
       /\ \A k \in 1 .. cut : xo[k] = d[k]
       /\ xo[cut + 1] = Point
  <2>1. 1 \in 1 .. Len(o) BY <1>7
  <2>2. /\ xo \in Seq(Byte) /\ Len(xo) = Len(x) + Len(o)
        /\ \A k \in 1 .. Len(x) : xo[k] = x[k]
        /\ \A k \in 1 .. Len(o) : xo[Len(x) + k] = o[k]
    BY <1>5, <1>7, <1>9, BytesAfter
  <2> QED BY <1>5, <1>7, <2>1, <2>2
<1>11. /\ b \in Seq(Byte) /\ Len(b) = n + 1
       /\ \A k \in 1 .. cut : b[k] = d[k]
       /\ b[cut + 1] = Point
       /\ \A k \in 1 .. n - cut : b[cut + 1 + k] = d[cut + k]
  <2>1. /\ b \in Seq(Byte) /\ Len(b) = Len(xo) + Len(y)
        /\ \A k \in 1 .. Len(xo) : b[k] = xo[k]
        /\ \A k \in 1 .. Len(y) : b[Len(xo) + k] = y[k]
    <3>1. /\ xo \o y \in Seq(Byte) /\ Len(xo \o y) = Len(xo) + Len(y)
          /\ \A k \in 1 .. Len(xo) : (xo \o y)[k] = xo[k]
          /\ \A k \in 1 .. Len(y) : (xo \o y)[Len(xo) + k] = y[k]
      BY <1>6, <1>10, BytesAfter
    <3> QED BY <1>8, <1>9, <3>1
  <2>2. Len(b) = n + 1 BY <1>3, <1>6, <1>10, <2>1
  <2>3. \A k \in 1 .. cut : b[k] = d[k]
    <3>1. \A k \in 1 .. cut : k \in 1 .. cut + 1 BY <1>3
    <3> QED BY <1>10, <2>1, <3>1
  <2>4. b[cut + 1] = Point
    <3>1. cut + 1 \in 1 .. cut + 1 BY <1>3
    <3> QED BY <1>10, <2>1, <3>1
  <2> QED BY <1>6, <1>10, <2>1, <2>2, <2>3, <2>4
<1>12. ASSUME NEW i \in 1 .. n + 1, i # cut + 1
       PROVE  \E k \in 1 .. n : b[i] = d[k] /\ PowerAt(cut + 1, i) = n - k + point
  <2>1. CASE i <= cut
    <3>1. i \in 1 .. cut /\ i \in 1 .. n BY <1>3, <2>1
    <3>2. PowerAt(cut + 1, i) = n - i + point BY <1>1, <1>2, <1>3, <2>1 DEF PowerAt
    <3> QED BY <1>11, <3>1, <3>2
  <2>2. CASE ~(i <= cut)
    <3>1. PICK j : j = i - cut - 1 OBVIOUS
    <3>2. j \in 1 .. n - cut /\ cut + 1 + j = i /\ cut + j \in 1 .. n BY <1>3, <1>12, <2>2, <3>1
    <3>3. b[i] = d[cut + j] BY <1>11, <3>2
    <3>4. PowerAt(cut + 1, i) = n - (cut + j) + point BY <1>2, <1>3, <1>12, <2>2, <3>2 DEF PowerAt
    <3> QED BY <3>2, <3>3, <3>4
  <2> QED BY <2>1, <2>2
<1>13. ASSUME NEW k \in 1 .. n
       PROVE  \E i \in 1 .. n + 1 : i # cut + 1 /\ b[i] = d[k] /\ PowerAt(cut + 1, i) = n - k + point
  <2>1. CASE k <= cut
    <3>1. k \in 1 .. cut /\ k \in 1 .. n + 1 /\ k # cut + 1 BY <1>3, <2>1
    <3>2. PowerAt(cut + 1, k) = n - k + point BY <1>1, <1>2, <1>3, <2>1 DEF PowerAt
    <3> QED BY <1>11, <3>1, <3>2
  <2>2. CASE ~(k <= cut)
    <3>1. PICK j : j = k - cut OBVIOUS
    <3>2. j \in 1 .. n - cut /\ cut + j = k BY <1>3, <2>2, <3>1
    <3>3. PICK i : i = cut + 1 + j OBVIOUS
    <3>4. i \in 1 .. n + 1 /\ i # cut + 1 /\ ~(i < cut + 1) /\ i = k + 1 BY <1>3, <3>2, <3>3
    <3>5. b[i] = d[k] BY <1>11, <3>2, <3>3
    <3>6. PowerAt(cut + 1, i) = n - k + point BY <1>2, <1>3, <3>4 DEF PowerAt
    <3> QED BY <3>4, <3>5, <3>6
  <2> QED BY <2>1, <2>2
<1>14. \A i \in 1 .. n + 1 : i # cut + 1 => IsDigit(b[i]) BY <1>1, <1>12
<1>15. cut + 1 \in 2 .. (n + 1) + 1 /\ cut + 1 # n + 1 BY <1>3
<1>16. Laid(b, d, point, cut + 1)
  <2>1. \A i \in 1 .. n + 1 : i # cut + 1 /\ b[i] # Zero =>
          \E k \in 1 .. n : d[k] = b[i] /\ PowerAt(cut + 1, i) = n - k + point
    BY <1>12
  <2> QED BY <1>1, <1>11, <1>13, <1>14, <1>15, <2>1 DEF Laid
<1> QED BY <1>1, <1>2, <1>11, <1>16

\* ... or before them.
LEMMA LaidAfter ==
  ASSUME NEW d \in Seq(Byte), \A k \in 1 .. Len(d) : IsDigit(d[k]), Len(d) # 0,
         NEW point \in Int, point < 0, ~(-point < Len(d)), NEW b, b = Placed(<<>>, d, point)
  PROVE  Laid(b, d, point, 2) /\ Len(b) = 2 - point
<1>1. PICK n \in Nat : n = Len(d) /\ n # 0 BY LenProperties
<1>2. PICK pad : pad = -point - n OBVIOUS
<1>3. pad \in Nat /\ pad + n = -point BY <1>1, <1>2
<1>4. PICK o, z : o = <<Zero, Point>> /\ z = Zeros(pad) OBVIOUS
<1>5. o \in Seq(Byte) /\ Len(o) = 2 /\ o[1] = Zero /\ o[2] = Point BY <1>4, ByteSeqs
<1>6. z \in Seq(Byte) /\ Len(z) = pad /\ \A k \in 1 .. pad : z[k] = Zero
  <2>1. z \in Seq(Byte) BY <1>3, <1>4, ZerosIs
  <2>2. DOMAIN z = 1 .. pad /\ \A k \in 1 .. pad : z[k] = Zero BY <1>4 DEF Zeros
  <2> QED BY <1>3, <2>1, <2>2, LenProperties
<1>7. PICK oz : oz = o \o z OBVIOUS
<1>8. /\ oz \in Seq(Byte) /\ Len(oz) = 2 + pad /\ oz[1] = Zero /\ oz[2] = Point
      /\ \A k \in 1 .. pad : oz[2 + k] = Zero
  <2>1. /\ oz \in Seq(Byte) /\ Len(oz) = Len(o) + Len(z)
        /\ \A k \in 1 .. Len(o) : oz[k] = o[k]
        /\ \A k \in 1 .. Len(z) : oz[Len(o) + k] = z[k]
    BY <1>5, <1>6, <1>7, BytesAfter
  <2>2. 1 \in 1 .. Len(o) /\ 2 \in 1 .. Len(o) BY <1>5
  <2>3. oz[1] = Zero /\ oz[2] = Point BY <1>5, <2>1, <2>2
  <2> QED BY <1>5, <1>6, <2>1, <2>3
<1>9. b = oz \o d
  <2>1. b = <<>> \o o \o z \o d BY <1>1, <1>2, <1>4 DEF Placed
  <2>2. <<>> \o o = o BY <1>5, ConcatEmptySeq
  <2> QED BY <1>7, <2>1, <2>2
<1>10. PICK m : m = 2 + pad OBVIOUS
<1>11. m \in Nat /\ m >= 2 /\ m + n = 2 - point BY <1>3, <1>10
<1>12. /\ b \in Seq(Byte) /\ Len(b) = m + n /\ b[1] = Zero /\ b[2] = Point
       /\ \A i \in 3 .. m : b[i] = Zero
       /\ \A k \in 1 .. n : b[m + k] = d[k]
  <2>1. /\ b \in Seq(Byte) /\ Len(b) = Len(oz) + Len(d)
        /\ \A k \in 1 .. Len(oz) : b[k] = oz[k]
        /\ \A k \in 1 .. Len(d) : b[Len(oz) + k] = d[k]
    <3>1. /\ oz \o d \in Seq(Byte) /\ Len(oz \o d) = Len(oz) + Len(d)
          /\ \A k \in 1 .. Len(oz) : (oz \o d)[k] = oz[k]
          /\ \A k \in 1 .. Len(d) : (oz \o d)[Len(oz) + k] = d[k]
      BY <1>8, BytesAfter
    <3> QED BY <1>9, <3>1
  <2>2. 1 \in 1 .. Len(oz) /\ 2 \in 1 .. Len(oz) BY <1>3, <1>8
  <2>3. b[1] = Zero /\ b[2] = Point BY <1>8, <2>1, <2>2
  <2>4. ASSUME NEW i \in 3 .. m PROVE b[i] = Zero
    <3>1. PICK k : k = i - 2 OBVIOUS
    <3>2. k \in 1 .. pad /\ 2 + k = i /\ i \in 1 .. 2 + pad BY <1>3, <1>10, <3>1
    <3>3. oz[i] = Zero BY <1>8, <3>2
    <3>4. b[i] = oz[i] BY <1>8, <2>1, <3>2
    <3> QED BY <3>3, <3>4
  <2>5. \A k \in 1 .. n : b[m + k] = d[k] BY <1>1, <1>8, <1>10, <2>1
  <2> QED BY <1>1, <1>8, <1>10, <2>1, <2>3, <2>4, <2>5
<1>13. ASSUME NEW k \in 1 .. n
       PROVE  m + k \in 1 .. m + n /\ m + k # 2 /\ b[m + k] = d[k] /\ PowerAt(2, m + k) = n - k + point
  <2>1. PICK i : i = m + k OBVIOUS
  <2>2. i \in 1 .. m + n /\ i # 2 /\ ~(i < 2) /\ 2 - i = n - k + point BY <1>11, <2>1
  <2>3. PowerAt(2, i) = n - k + point BY <2>2 DEF PowerAt
  <2> QED BY <1>12, <2>1, <2>2, <2>3
<1>14. ASSUME NEW i \in 1 .. m + n, i # 2
       PROVE  b[i] = Zero \/ \E k \in 1 .. n : i = m + k
  <2>1. CASE i <= m
    <3>1. i = 1 \/ i \in 3 .. m BY <1>11, <1>14, <2>1
    <3> QED BY <1>12, <3>1
  <2>2. CASE ~(i <= m)
    <3>1. PICK k : k = i - m OBVIOUS
    <3>2. k \in 1 .. n /\ i = m + k BY <1>11, <2>2, <3>1
    <3> QED BY <3>2
  <2> QED BY <2>1, <2>2
<1>15. IsDigit(Zero) BY DEF IsDigit, Digits, Zero, Nine
<1>16. \A i \in 1 .. m + n : i # 2 => IsDigit(b[i]) BY <1>1, <1>12, <1>14, <1>15
<1>17. ASSUME NEW i \in 1 .. m + n, i # 2, b[i] # Zero
       PROVE  \E k \in 1 .. n : d[k] = b[i] /\ PowerAt(2, i) = n - k + point
  <2>1. PICK k \in 1 .. n : i = m + k BY <1>14, <1>17
  <2> QED BY <1>13, <2>1
<1>18. \A k \in 1 .. n : \E i \in 1 .. m + n : i # 2 /\ b[i] = d[k] /\ PowerAt(2, i) = n - k + point
  BY <1>13
<1>19. 2 \in 2 .. (m + n) + 1 /\ 2 # m + n BY <1>1, <1>11
<1>20. Laid(b, d, point, 2) BY <1>1, <1>12, <1>16, <1>17, <1>18, <1>19 DEF Laid
<1> QED BY <1>11, <1>12, <1>20

\* Wherever the point goes, the digits are laid out about it.
LEMMA PlacedLaid ==
  ASSUME NEW d, Significant(d), Len(d) # 0, NEW point \in Int, NEW b, b = Placed(<<>>, d, point)
  PROVE  \E P : Laid(b, d, point, P) /\ Len(b) = Taken(Len(d), point)
<1>1. d \in Seq(Byte) /\ \A k \in 1 .. Len(d) : IsDigit(d[k]) BY DEF Significant
<1>2. CASE point >= 0
  <2>1. point \in Nat BY <1>2
  <2>2. Laid(b, d, point, Len(b) + 1) /\ Len(b) = Len(d) + point BY <1>1, <2>1, LaidWhole
  <2> QED BY <1>2, <2>2 DEF Taken
<1>3. CASE point < 0 /\ -point < Len(d)
  <2>1. Laid(b, d, point, Len(d) + point + 1) /\ Len(b) = Len(d) + 1 BY <1>1, <1>3, LaidAmong
  <2>2. Taken(Len(d), point) = Len(d) + 1 BY <1>3 DEF Taken
  <2> QED BY <2>1, <2>2
<1>4. CASE point < 0 /\ ~(-point < Len(d))
  <2>1. Laid(b, d, point, 2) /\ Len(b) = 2 - point BY <1>1, <1>4, LaidAfter
  <2>2. Taken(Len(d), point) = 2 - point BY <1>4 DEF Taken
  <2> QED BY <2>1, <2>2
<1> QED BY <1>2, <1>3, <1>4

\* Every position of a plain number but the point's holds a digit, and the digits after
\* it, less those after the point, say at which power of ten it stands.
LEMMA PlaceIs ==
  ASSUME NEW b \in Seq(Byte), NEW P \in 2 .. Len(b) + 1, P <= Len(b) => b[P] = Point,
         \A i \in 1 .. Len(b) : i # P => IsDigit(b[i])
  PROVE  /\ AfterPoint(b) \in Nat
         /\ \A i \in 1 .. Len(b) : i # P => After(b, i) \in Nat /\ After(b, i) - AfterPoint(b) = PowerAt(P, i)
<1>1. PICK n \in Nat : n = Len(b) /\ DOMAIN b = 1 .. n BY LenProperties
<1>2. P \in Nat /\ P >= 2 /\ P <= n + 1 /\ ~IsDigit(Point)
  BY <1>1 DEF IsDigit, Digits, Zero, Nine, Point
<1>3. \A i \in 1 .. n : IsDigit(b[i]) <=> i # P BY <1>1, <1>2
<1>4. \A i \in 1 .. n : b[i] = Point <=> i = P BY <1>1, <1>2
<1>5. AfterPoint(b) = IF P <= n THEN n - P ELSE 0
  <2>1. AfterPoint(b) = Cardinality({j \in 1 .. n : IsDigit(b[j]) /\ \E i \in 1 .. j : b[i] = Point})
    BY <1>1 DEF AfterPoint
  <2>2. CASE P <= n
    <3>1. {j \in 1 .. n : IsDigit(b[j]) /\ \E i \in 1 .. j : b[i] = Point} = P + 1 .. n
      <4>1. ASSUME NEW j \in 1 .. n, IsDigit(b[j]), NEW i \in 1 .. j, b[i] = Point PROVE j \in P + 1 .. n
        <5>1. i \in 1 .. n OBVIOUS
        <5>2. i = P /\ j # P BY <1>3, <1>4, <4>1, <5>1
        <5> QED BY <1>2, <5>2
      <4>2. ASSUME NEW j \in P + 1 .. n PROVE j \in 1 .. n /\ IsDigit(b[j]) /\ \E i \in 1 .. j : b[i] = Point
        <5>1. j \in 1 .. n /\ j # P /\ P \in 1 .. j /\ P \in 1 .. n BY <1>2, <2>2
        <5> QED BY <1>3, <1>4, <5>1
      <4> QED BY <4>1, <4>2
    <3> QED BY <1>2, <2>1, <2>2, <3>1, Span
  <2>3. CASE ~(P <= n)
    <3>1. {j \in 1 .. n : IsDigit(b[j]) /\ \E i \in 1 .. j : b[i] = Point} = {}
      <4>1. ASSUME NEW j \in 1 .. n, NEW i \in 1 .. j, b[i] = Point PROVE FALSE
        <5>1. i \in 1 .. n OBVIOUS
        <5> QED BY <1>4, <2>3, <4>1, <5>1
      <4> QED BY <4>1
    <3> QED BY <2>1, <2>3, <3>1, FS_EmptySet
  <2> QED BY <2>2, <2>3
<1>6. ASSUME NEW i \in 1 .. n, i # P
      PROVE  After(b, i) = IF i < P /\ P <= n THEN n - i - 1 ELSE n - i
  <2>1. After(b, i) = Cardinality({j \in i + 1 .. n : IsDigit(b[j])}) BY <1>1 DEF After
  <2>2. {j \in i + 1 .. n : IsDigit(b[j])} = (i + 1 .. n) \ {P}
    <3>1. \A j \in i + 1 .. n : j \in 1 .. n OBVIOUS
    <3> QED BY <1>3, <3>1
  <2>3. IsFiniteSet(i + 1 .. n) /\ Cardinality(i + 1 .. n) = n - i BY Span
  <2>4. CASE i < P /\ P <= n
    <3>1. P \in i + 1 .. n BY <1>2, <2>4
    <3>2. PICK S : S = i + 1 .. n OBVIOUS
    <3>3. Cardinality(S \ {P}) = Cardinality(S) - 1 BY <2>3, <3>1, <3>2, FS_RemoveElement
    <3> QED BY <2>1, <2>2, <2>3, <2>4, <3>2, <3>3
  <2>5. CASE ~(i < P /\ P <= n)
    <3>1. (i + 1 .. n) \ {P} = i + 1 .. n BY <1>2, <2>5
    <3> QED BY <2>1, <2>2, <2>3, <2>5, <3>1
  <2> QED BY <2>4, <2>5
<1>7. AfterPoint(b) \in Nat BY <1>2, <1>5
<1>8. ASSUME NEW i \in 1 .. n, i # P PROVE After(b, i) \in Nat /\ After(b, i) - AfterPoint(b) = PowerAt(P, i)
  <2>1. PICK x, y : x = After(b, i) /\ y = AfterPoint(b) OBVIOUS
  <2>2. x = (IF i < P /\ P <= n THEN n - i - 1 ELSE n - i) /\ y = IF P <= n THEN n - P ELSE 0
    BY <1>5, <1>6, <1>8, <2>1
  <2>3. x \in Nat /\ x - y = IF i < P THEN P - 1 - i ELSE P - i
    <3>1. CASE P <= n BY <1>2, <1>8, <2>2, <3>1
    <3>2. CASE ~(P <= n)
      <4>1. P = n + 1 /\ i < P /\ x = n - i /\ y = 0 BY <1>2, <2>2, <3>2
      <4> QED BY <4>1
    <3> QED BY <3>1, <3>2
  <2> QED BY <2>1, <2>3 DEF PowerAt
<1> QED BY <1>1, <1>7, <1>8

\* So what is laid out reads as the digits it was laid out from, and as nothing else.
LEMMA LaidReads ==
  ASSUME NEW d, Significant(d), Len(d) # 0, NEW point \in Int, NEW b, NEW P, Laid(b, d, point, P)
  PROVE  /\ b \in Seq(Byte) /\ Len(b) >= 1 /\ ~IsSign(b[1])
         /\ \A i \in DOMAIN b : (IsDigit(b[i]) \/ b[i] = Point) /\ b[i] \notin ExpMark
         /\ \E i \in DOMAIN b : IsDigit(b[i])
         /\ \A i, j \in DOMAIN b : b[i] = Point /\ b[j] = Point => i = j
         /\ DigitsAt(b, 0 - AfterPoint(b)) = Standing(d, point)
<1>1. PICK n \in Nat : n = Len(b) /\ DOMAIN b = 1 .. n BY LenProperties DEF Laid
<1>2. /\ b \in Seq(Byte) /\ P \in 2 .. n + 1 /\ P # n
      /\ P <= n => b[P] = Point
      /\ \A i \in 1 .. n : i # P => IsDigit(b[i])
  BY <1>1 DEF Laid
<1>3. n >= 1 /\ 1 \in 1 .. n /\ 1 # P BY <1>2
<1>4. \A x : IsDigit(x) => ~IsSign(x) /\ x \notin ExpMark /\ x # Point
  BY DEF IsDigit, IsSign, Digits, Zero, Nine, Plus, Minus, ExpMark, Point
<1>5. Point \notin ExpMark BY DEF Point, ExpMark
<1>6. \A i \in 1 .. n : (IsDigit(b[i]) \/ b[i] = Point) /\ b[i] \notin ExpMark BY <1>2, <1>4, <1>5
<1>7. \A i, j \in 1 .. n : b[i] = Point /\ b[j] = Point => i = j BY <1>2, <1>4
<1>8. /\ AfterPoint(b) \in Nat
      /\ \A i \in 1 .. n : i # P => After(b, i) \in Nat /\ After(b, i) - AfterPoint(b) = PowerAt(P, i)
  <2>1. P \in 2 .. Len(b) + 1 /\ (P <= Len(b) => b[P] = Point) /\ \A i \in 1 .. Len(b) : i # P => IsDigit(b[i])
    BY <1>1, <1>2
  <2> QED BY <1>1, <1>2, <2>1, PlaceIs
<1>9. \A x : x \in Zero + 1 .. Nine <=> IsDigit(x) /\ x # Zero BY DEF IsDigit, Digits, Zero, Nine
<1>10. \A i \in 1 .. n : i # P => After(b, i) + (0 - AfterPoint(b)) = PowerAt(P, i)
  <2> SUFFICES ASSUME NEW i \in 1 .. n, i # P PROVE After(b, i) + (0 - AfterPoint(b)) = PowerAt(P, i)
    OBVIOUS
  <2>1. PICK x \in Nat, y \in Nat : x = After(b, i) /\ y = AfterPoint(b) BY <1>8
  <2>2. x + (0 - y) = x - y OBVIOUS
  <2> QED BY <1>8, <2>1, <2>2
<1>11. DigitsAt(b, 0 - AfterPoint(b)) = Standing(d, point)
  <2>1. PICK shift : shift = 0 - AfterPoint(b) OBVIOUS
  <2>2. DigitsAt(b, shift) = {<<After(b, i) + shift, b[i]>> : i \in {j \in 1 .. n : b[j] \in Zero + 1 .. Nine}}
    BY <1>1 DEF DigitsAt
  <2>3. Standing(d, point) = {<<Len(d) - k + point, d[k]>> : k \in {j \in 1 .. Len(d) : d[j] # Zero}}
    BY DEF Standing
  <2>4. ASSUME NEW i \in 1 .. n, b[i] \in Zero + 1 .. Nine
        PROVE  \E k \in 1 .. Len(d) : d[k] # Zero /\ <<After(b, i) + shift, b[i]>> = <<Len(d) - k + point, d[k]>>
    <3>1. IsDigit(b[i]) /\ b[i] # Zero BY <1>9, <2>4
    <3>2. i # P BY <1>2, <1>4, <3>1
    <3>3. PICK k \in 1 .. Len(d) : d[k] = b[i] /\ PowerAt(P, i) = Len(d) - k + point
      BY <1>1, <3>1, <3>2 DEF Laid
    <3> QED BY <1>10, <2>1, <3>1, <3>2, <3>3
  <2>5. ASSUME NEW k \in 1 .. Len(d), d[k] # Zero
        PROVE  \E i \in 1 .. n : b[i] \in Zero + 1 .. Nine
                                 /\ <<After(b, i) + shift, b[i]>> = <<Len(d) - k + point, d[k]>>
    <3>1. PICK i \in 1 .. n : i # P /\ b[i] = d[k] /\ PowerAt(P, i) = Len(d) - k + point
      BY <1>1 DEF Laid
    <3>2. IsDigit(b[i]) /\ b[i] # Zero BY <1>2, <2>5, <3>1
    <3> QED BY <1>9, <1>10, <2>1, <3>1, <3>2
  <2>6. \A e \in DigitsAt(b, shift) : e \in Standing(d, point) BY <2>2, <2>3, <2>4
  <2>7. \A e \in Standing(d, point) : e \in DigitsAt(b, shift) BY <2>2, <2>3, <2>5
  <2> QED BY <2>1, <2>6, <2>7
<1> QED BY <1>1, <1>2, <1>3, <1>4, <1>6, <1>7, <1>11

\* The bytes taken are those counted from the highest power of ten to the lowest.
LEMMA TakenIs ==
  ASSUME NEW d, Significant(d), Len(d) # 0, NEW point \in Int, NEW neg
  PROVE  SpanLength(Powers(SignedDigits(neg, Standing(d, point))) \cup {0}) = Taken(Len(d), point)
<1>1. PICK n \in Nat : n = Len(d) /\ n # 0 BY LenProperties DEF Significant
<1>2. PICK T : T = Powers(SignedDigits(neg, Standing(d, point))) \cup {0} OBVIOUS
<1>3. \A x : x \in T <=> x = 0 \/ \E k \in 1 .. n : d[k] # Zero /\ x = n - k + point
  <2>1. SignedDigits(neg, Standing(d, point)).digits = Standing(d, point) BY DEF SignedDigits
  <2>2. T = {e[1] : e \in Standing(d, point)} \cup {0} BY <1>2, <2>1 DEF Powers
  <2>3. Standing(d, point) = {<<n - k + point, d[k]>> : k \in {j \in 1 .. n : d[j] # Zero}}
    BY <1>1 DEF Standing
  <2>4. ASSUME NEW e \in Standing(d, point) PROVE \E k \in 1 .. n : d[k] # Zero /\ e[1] = n - k + point
    BY <2>3
  <2>5. ASSUME NEW k \in 1 .. n, d[k] # Zero PROVE \E e \in Standing(d, point) : e[1] = n - k + point
    <3>1. <<n - k + point, d[k]>> \in Standing(d, point) BY <2>3, <2>5
    <3>2. <<n - k + point, d[k]>>[1] = n - k + point OBVIOUS
    <3> QED BY <3>1, <3>2
  <2> QED BY <2>2, <2>4, <2>5
<1>4. d[1] # Zero /\ d[n] # Zero BY <1>1 DEF Significant
<1>5. 0 \in T /\ n - 1 + point \in T /\ point \in T
  <2>1. 1 \in 1 .. n /\ n \in 1 .. n /\ n - n + point = point BY <1>1
  <2> QED BY <1>3, <1>4, <2>1
<1>6. \A x \in T : x \in Int /\ (x = 0 \/ x \in point .. n - 1 + point)
  <2> SUFFICES ASSUME NEW x \in T, x # 0 PROVE x \in point .. n - 1 + point OBVIOUS
  <2>1. PICK k \in 1 .. n : x = n - k + point BY <1>3
  <2> QED BY <1>1, <2>1
<1>7. PICK hi : hi = CHOOSE x \in T : \A y \in T : y <= x OBVIOUS
<1>8. PICK lo : lo = CHOOSE x \in T : \A y \in T : x <= y OBVIOUS
<1>9. hi = IF n - 1 + point >= 0 THEN n - 1 + point ELSE 0
  <2>1. PICK top : top = IF n - 1 + point >= 0 THEN n - 1 + point ELSE 0 OBVIOUS
  <2>2. top \in T /\ top \in Int BY <1>1, <1>5, <2>1
  <2>3. \A y \in T : y <= top BY <1>1, <1>6, <2>1
  <2>4. hi \in T /\ \A y \in T : y <= hi BY <1>7, <2>2, <2>3
  <2>5. hi <= top /\ top <= hi /\ hi \in Int BY <1>6, <2>2, <2>3, <2>4
  <2> QED BY <2>1, <2>2, <2>5
<1>10. lo = IF point <= 0 THEN point ELSE 0
  <2>1. PICK low : low = IF point <= 0 THEN point ELSE 0 OBVIOUS
  <2>2. low \in T /\ low \in Int BY <1>5, <2>1
  <2>3. \A y \in T : low <= y BY <1>1, <1>6, <2>1
  <2>4. lo \in T /\ \A y \in T : lo <= y BY <1>8, <2>2, <2>3
  <2>5. lo <= low /\ low <= lo /\ lo \in Int BY <1>6, <2>2, <2>3, <2>4
  <2> QED BY <2>1, <2>2, <2>5
<1>11. SpanLength(T) = IF lo < 0 THEN hi + 2 - lo ELSE hi + 1 BY <1>7, <1>8 DEF SpanLength
<1>12. (IF lo < 0 THEN hi + 2 - lo ELSE hi + 1) = Taken(n, point)
  <2>1. CASE point >= 0
    <3>1. lo = 0 /\ hi = n - 1 + point BY <1>1, <1>9, <1>10, <2>1
    <3> QED BY <1>1, <2>1, <3>1 DEF Taken
  <2>2. CASE point < 0 /\ -point < n
    <3>1. lo = point /\ hi = n - 1 + point BY <1>1, <1>9, <1>10, <2>2
    <3> QED BY <1>1, <2>2, <3>1 DEF Taken
  <2>3. CASE point < 0 /\ ~(-point < n)
    <3>1. lo = point /\ hi = 0 BY <1>1, <1>9, <1>10, <2>3
    <3> QED BY <1>1, <2>3, <3>1 DEF Taken
  <2> QED BY <2>1, <2>2, <2>3
<1> QED BY <1>1, <1>2, <1>11, <1>12

\* Digits at their powers of ten are those of one sequence at one point only.
LEMMA StandingDetermines ==
  ASSUME NEW d, NEW c, Significant(d), Significant(c), NEW point \in Int, NEW other \in Int,
         Standing(d, point) = Standing(c, other)
  PROVE  (Len(d) = 0 <=> Len(c) = 0) /\ (Len(d) # 0 => d = c /\ point = other)
<1>1. PICK n \in Nat, m \in Nat : n = Len(d) /\ m = Len(c) BY LenProperties DEF Significant
<1>2. \A e : e \in Standing(d, point) <=> \E k \in 1 .. n : d[k] # Zero /\ e = <<n - k + point, d[k]>>
  BY <1>1 DEF Standing
<1>3. \A e : e \in Standing(c, other) <=> \E k \in 1 .. m : c[k] # Zero /\ e = <<m - k + other, c[k]>>
  BY <1>1 DEF Standing
<1>4. ASSUME NEW k \in 1 .. n, d[k] # Zero
      PROVE  \E j \in 1 .. m : c[j] = d[k] /\ m - j + other = n - k + point
  <2>1. <<n - k + point, d[k]>> \in Standing(c, other) BY <1>2, <1>4
  <2>2. PICK j \in 1 .. m : c[j] # Zero /\ <<n - k + point, d[k]>> = <<m - j + other, c[j]>>
    BY <1>3, <2>1
  <2> QED BY <2>2
<1>5. ASSUME NEW j \in 1 .. m, c[j] # Zero
      PROVE  \E k \in 1 .. n : d[k] = c[j] /\ n - k + point = m - j + other
  <2>1. <<m - j + other, c[j]>> \in Standing(d, point) BY <1>3, <1>5
  <2>2. PICK k \in 1 .. n : d[k] # Zero /\ <<m - j + other, c[j]>> = <<n - k + point, d[k]>>
    BY <1>2, <2>1
  <2> QED BY <2>2
<1>6. (n # 0 => d[1] # Zero /\ d[n] # Zero) /\ (m # 0 => c[1] # Zero /\ c[m] # Zero)
  BY <1>1 DEF Significant
<1>7. n = 0 <=> m = 0
  <2>1. ASSUME n # 0 PROVE m # 0
    <3>1. 1 \in 1 .. n /\ d[1] # Zero BY <1>6, <2>1
    <3>2. PICK j \in 1 .. m : TRUE BY <1>4, <3>1
    <3> QED BY <3>2
  <2>2. ASSUME m # 0 PROVE n # 0
    <3>1. 1 \in 1 .. m /\ c[1] # Zero BY <1>6, <2>2
    <3>2. PICK k \in 1 .. n : TRUE BY <1>5, <3>1
    <3> QED BY <3>2
  <2> QED BY <2>1, <2>2
<1>8. ASSUME n # 0 PROVE d = c /\ point = other
  <2>1. 1 \in 1 .. n /\ n \in 1 .. n /\ 1 \in 1 .. m /\ m \in 1 .. m BY <1>7, <1>8
  <2>2. PICK j1 \in 1 .. m : m - j1 + other = n - n + point BY <1>4, <1>6, <1>8, <2>1
  <2>3. PICK k1 \in 1 .. n : n - k1 + point = m - m + other BY <1>5, <1>6, <1>7, <1>8, <2>1
  <2>4. point = other BY <2>2, <2>3
  <2>5. PICK j2 \in 1 .. m : m - j2 + other = n - 1 + point BY <1>4, <1>6, <1>8, <2>1
  <2>6. PICK k2 \in 1 .. n : n - k2 + point = m - 1 + other BY <1>5, <1>6, <1>7, <1>8, <2>1
  <2>7. n = m BY <2>4, <2>5, <2>6
  <2>8. ASSUME NEW k \in 1 .. n PROVE d[k] = c[k]
    <3>1. CASE d[k] # Zero
      <4>1. PICK j \in 1 .. m : c[j] = d[k] /\ m - j + other = n - k + point BY <1>4, <3>1
      <4>2. j = k BY <2>4, <2>7, <4>1
      <4> QED BY <4>1, <4>2
    <3>2. CASE d[k] = Zero
      <4> SUFFICES ASSUME c[k] # Zero PROVE FALSE BY <3>2
      <4>1. k \in 1 .. m BY <2>7
      <4>2. PICK j \in 1 .. n : d[j] = c[k] /\ n - j + point = m - k + other BY <1>5, <4>1
      <4>3. j = k BY <2>4, <2>7, <4>2
      <4> QED BY <3>2, <4>2, <4>3
    <3> QED BY <3>1, <3>2
  <2>9. d \in Seq(Byte) /\ c \in Seq(Byte) BY DEF Significant
  <2> QED BY <1>1, <2>4, <2>7, <2>8, <2>9, SeqEqual
<1> QED BY <1>1, <1>7, <1>8

\* No number is the value of what is none.
LEMMA NumbersApart ==
  ASSUME NEW d, Significant(d), NEW point, NEW neg
  PROVE  SignedDigits(neg, Standing(d, point)) # NotANumber
<1> SUFFICES ASSUME SignedDigits(neg, Standing(d, point)) = NotANumber PROVE FALSE OBVIOUS
<1>1. SignedDigits(neg, Standing(d, point)).digits = Standing(d, point) BY DEF SignedDigits
<1>2. NotANumber.digits = {<<0, 0>>} BY DEF NotANumber
<1>3. <<0, 0>> \in Standing(d, point) BY <1>1, <1>2
<1>4. PICK k \in 1 .. Len(d) : <<0, 0>> = <<Len(d) - k + point, d[k]>> BY <1>3 DEF Standing
<1>5. d[k] = 0 /\ IsDigit(d[k]) BY <1>4 DEF Significant
<1> QED BY <1>5 DEF IsDigit, Digits, Zero, Nine

\* The mantissa is the longest stretch of digits with one point at most.
LEMMA MantissaTells ==
  ASSUME NEW q \in Seq(Byte), NEW end, end = MantissaEnd(q, 1)
  PROVE  /\ end \in 1 .. Len(q) + 1
         /\ \A x \in 1 .. end - 1 : IsDigit(q[x]) \/ q[x] = Point
         /\ \A x, y \in 1 .. end - 1 : q[x] = Point /\ q[y] = Point => x = y
         /\ \/ end = Len(q) + 1
            \/ ~IsDigit(q[end]) /\ (q[end] = Point => \E x \in 1 .. end - 1 : q[x] = Point)
<1>1. PICK n \in Nat : n = Len(q) BY LenProperties
<1>2. PICK e : e = DigitsFrom(q, 1) OBVIOUS
<1>3. /\ e \in 1 .. n + 1 /\ \A x \in 1 .. e - 1 : IsDigit(q[x])
      /\ e = n + 1 \/ ~IsDigit(q[e])
  <2>1. 1 \in 1 .. Len(q) + 1 BY <1>1
  <2>2. /\ PastRun(q, 1, Digits) \in 1 .. Len(q) + 1
        /\ \A x \in 1 .. PastRun(q, 1, Digits) - 1 : q[x] \in Digits
        /\ PastRun(q, 1, Digits) = Len(q) + 1 \/ q[PastRun(q, 1, Digits)] \notin Digits
    BY <2>1, PastRunIs
  <2> QED BY <1>1, <1>2, <2>2 DEF DigitsFrom, IsDigit
<1>4. ~IsDigit(Point) BY DEF IsDigit, Digits, Zero, Nine, Point
<1>5. CASE e <= n /\ q[e] = Point
  <2>1. end = DigitsFrom(q, e + 1) BY <1>1, <1>2, <1>5 DEF MantissaEnd
  <2>2. /\ end \in e + 1 .. n + 1 /\ \A x \in e + 1 .. end - 1 : IsDigit(q[x])
        /\ end = n + 1 \/ ~IsDigit(q[end])
    <3>1. e + 1 \in 1 .. Len(q) + 1 BY <1>1, <1>3, <1>5
    <3>2. /\ PastRun(q, e + 1, Digits) \in e + 1 .. Len(q) + 1
          /\ \A x \in e + 1 .. PastRun(q, e + 1, Digits) - 1 : q[x] \in Digits
          /\ PastRun(q, e + 1, Digits) = Len(q) + 1 \/ q[PastRun(q, e + 1, Digits)] \notin Digits
      BY <3>1, PastRunIs
    <3> QED BY <1>1, <2>1, <3>2 DEF DigitsFrom, IsDigit
  <2>3. \A x \in 1 .. end - 1 : x # e => IsDigit(q[x])
    <3> SUFFICES ASSUME NEW x \in 1 .. end - 1, x # e PROVE IsDigit(q[x]) OBVIOUS
    <3>1. x \in 1 .. e - 1 \/ x \in e + 1 .. end - 1 BY <1>3, <2>2
    <3> QED BY <1>3, <2>2, <3>1
  <2>4. e \in 1 .. end - 1 /\ end \in 1 .. n + 1 BY <1>3, <2>2
  <2> QED BY <1>1, <1>4, <1>5, <2>2, <2>3, <2>4
<1>6. CASE ~(e <= n /\ q[e] = Point)
  <2>1. end = e BY <1>1, <1>2, <1>6 DEF MantissaEnd
  <2> QED BY <1>1, <1>3, <1>4, <1>6, <2>1
<1> QED BY <1>5, <1>6

\* What follows a sign.
LEMMA UnsignedIs ==
  ASSUME NEW p \in Seq(Byte), NEW q, q = Unsigned(p)
  PROVE  /\ q \in Seq(Byte)
         /\ \/ p # <<>> /\ IsSign(p[1]) /\ q = Tail(p) /\ Len(p) = Len(q) + 1
               /\ \A x \in 1 .. Len(q) : q[x] = p[x + 1]
            \/ ~(p # <<>> /\ IsSign(p[1])) /\ q = p
<1>1. CASE p # <<>> /\ IsSign(p[1])
  <2>1. q = Tail(p) BY <1>1 DEF Unsigned
  <2>2. Tail(p) \in Seq(Byte) /\ Len(Tail(p)) = Len(p) - 1 /\ \A x \in 1 .. Len(Tail(p)) : Tail(p)[x] = p[x + 1]
    BY <1>1, HeadTailProperties
  <2>3. Len(p) = Len(q) + 1
    <3>1. Len(p) \in Nat /\ Len(q) = Len(p) - 1 BY <2>1, <2>2, LenProperties
    <3> QED BY <3>1
  <2>4. q \in Seq(Byte) /\ \A x \in 1 .. Len(q) : q[x] = p[x + 1] BY <2>1, <2>2
  <2> QED BY <1>1, <2>1, <2>3, <2>4
<1>2. CASE ~(p # <<>> /\ IsSign(p[1])) BY <1>2 DEF Unsigned
<1> QED BY <1>1, <1>2

\* A numeral is taken apart at the first mark after its sign.
FirstMark(q, k) ==
  /\ k \in 1 .. Len(q) + 1 /\ \A x \in 1 .. k - 1 : q[x] \notin ExpMark
  /\ k = Len(q) + 1 \/ q[k] \in ExpMark

Behind(q, k) == IF k <= Len(q) THEN Part(q, k + 1, Len(q)) ELSE <<>>

\* The two halves are what stands before the first mark and what stands behind it.
LEMMA HalvesTells ==
  ASSUME NEW p \in Seq(Byte), NEW h, h = Halves(p, {i \in DOMAIN p : p[i] \in ExpMark})
  PROVE  \E r : /\ FirstMark(p, r) /\ h.mant = Part(p, 1, r - 1) /\ h.exp = Behind(p, r)
                /\ h.marked = (r <= Len(p))
<1>1. PICK n \in Nat : n = Len(p) /\ DOMAIN p = 1 .. n BY LenProperties
<1>2. PICK marks : marks = {i \in DOMAIN p : p[i] \in ExpMark} OBVIOUS
<1>3. CASE marks = {}
  <2>1. h.mant = p /\ h.exp = <<>> /\ h.marked = FALSE BY <1>2, <1>3 DEF Halves
  <2>2. Part(p, 1, n) = p
    <3>1. 1 \in 1 .. Len(p) + 1 /\ Len(p) \in 1 - 1 .. Len(p) /\ Len(p) - 1 + 1 = Len(p) BY <1>1
    <3>2. Len(Part(p, 1, Len(p))) = Len(p) BY <3>1, PartIs
    <3> QED BY <1>1, <3>1, <3>2, WholePart
  <2>3. FirstMark(p, n + 1) BY <1>1, <1>2, <1>3 DEF FirstMark
  <2>4. Behind(p, n + 1) = <<>> /\ (n + 1) - 1 = n /\ ~(n + 1 <= n) BY <1>1 DEF Behind
  <2>5. PICK r : r = n + 1 OBVIOUS
  <2>6. r - 1 = n /\ ~(r <= Len(p)) BY <1>1, <2>5
  <2>7. h.mant = Part(p, 1, r - 1) BY <2>1, <2>2, <2>6
  <2>8. h.marked = (r <= Len(p))
    <3>1. (r <= Len(p)) = FALSE BY <2>6
    <3> QED BY <2>1, <3>1
  <2> QED BY <2>1, <2>3, <2>4, <2>5, <2>7, <2>8
<1>4. CASE marks # {}
  <2>1. PICK r : r = CHOOSE i \in marks : \A j \in marks : i <= j OBVIOUS
  <2>2. r \in marks /\ \A j \in marks : r <= j
    <3>1. marks \in SUBSET Nat BY <1>1, <1>2
    <3>2. \E i \in marks : \A j \in marks : i <= j BY <1>4, <3>1, LeastElement
    <3> QED BY <2>1, <3>2
  <2>3. r \in 1 .. n /\ p[r] \in ExpMark BY <1>1, <1>2, <2>2
  <2>4. \A x \in 1 .. r - 1 : p[x] \notin ExpMark
    <3> SUFFICES ASSUME NEW x \in 1 .. r - 1, p[x] \in ExpMark PROVE FALSE OBVIOUS
    <3>1. x \in marks BY <1>1, <1>2, <2>3
    <3> QED BY <2>2, <2>3, <3>1
  <2>5. h.mant = Part(p, 1, r - 1) /\ h.exp = Part(p, r + 1, Len(p)) /\ h.marked = TRUE
    BY <1>2, <1>4, <2>1 DEF Halves
  <2>6. FirstMark(p, r) BY <1>1, <2>3, <2>4 DEF FirstMark
  <2>7. r <= Len(p) BY <1>1, <2>3
  <2>8. h.exp = Behind(p, r) BY <2>5, <2>7 DEF Behind
  <2>9. h.marked = (r <= Len(p)) BY <2>5, <2>7
  <2> QED BY <2>5, <2>6, <2>8, <2>9
<1> QED BY <1>2, <1>3, <1>4

\* Taking the sign off first makes no difference: it is no mark.
LEMMA PartsTells ==
  ASSUME NEW p \in Seq(Byte), NEW q, q = Unsigned(p), NEW n, n = PartsOf(p)
  PROVE  \E k : /\ FirstMark(q, k) /\ n.m = Part(q, 1, k - 1) /\ n.neg = Negative(p)
                /\ n.marked = (k <= Len(q))
                /\ n.e = Unsigned(Behind(q, k)) /\ n.negExp = Negative(Behind(q, k))
<1>0. PICK h : h = Halves(p, {i \in DOMAIN p : p[i] \in ExpMark}) OBVIOUS
<1>1. PICK r : /\ FirstMark(p, r) /\ h.mant = Part(p, 1, r - 1) /\ h.exp = Behind(p, r)
               /\ h.marked = (r <= Len(p))
  BY <1>0, HalvesTells
<1>2. n = Parts(h) BY <1>0, Zenon DEF PartsOf
<1>3. /\ n.m = Unsigned(h.mant) /\ n.e = Unsigned(h.exp) /\ n.marked = h.marked
      /\ n.neg = Negative(h.mant) /\ n.negExp = Negative(h.exp)
  BY <1>2 DEF Parts
<1>4. PICK w : w = Part(p, 1, r - 1) OBVIOUS
<1>5. Len(p) \in Nat /\ r \in 1 .. Len(p) + 1 BY <1>1, LenProperties DEF FirstMark
<1>6. w \in Seq(Byte) /\ Len(w) = r - 1 /\ \A x \in 1 .. r - 1 : w[x] = p[x]
  <2>1. 1 \in 1 .. Len(p) + 1 /\ r - 1 \in 1 - 1 .. Len(p) /\ r - 1 - 1 + 1 = r - 1
        /\ \A x \in 1 .. r - 1 : 1 + x - 1 = x
    BY <1>5
  <2>2. /\ Part(p, 1, r - 1) \in Seq(Byte) /\ Len(Part(p, 1, r - 1)) = r - 1 - 1 + 1
        /\ \A x \in 1 .. r - 1 - 1 + 1 : Part(p, 1, r - 1)[x] = p[1 + x - 1]
    BY <2>1, PartIs
  <2> QED BY <1>4, <2>1, <2>2
<1>7. \A b : IsSign(b) => b \notin ExpMark BY DEF IsSign, ExpMark, Plus, Minus
<1>8. CASE p # <<>> /\ IsSign(p[1])
  <2>1. /\ q \in Seq(Byte) /\ Len(p) = Len(q) + 1 /\ \A x \in 1 .. Len(q) : q[x] = p[x + 1]
    BY <1>8, UnsignedIs
  <2>2. Len(q) \in Nat BY <2>1, LenProperties
  <2>3. r # 1 BY <1>1, <1>5, <1>7, <1>8, <2>1, <2>2 DEF FirstMark
  <2>4. PICK k : k = r - 1 OBVIOUS
  <2>5. k \in 1 .. Len(q) + 1 /\ r = k + 1 BY <1>5, <2>1, <2>2, <2>3, <2>4
  <2>6. FirstMark(q, k)
    <3>1. ASSUME NEW x \in 1 .. k - 1 PROVE q[x] \notin ExpMark
      <4>1. x \in 1 .. Len(q) /\ x + 1 \in 1 .. r - 1 BY <2>2, <2>5
      <4> QED BY <1>1, <2>1, <4>1 DEF FirstMark
    <3>2. ASSUME k # Len(q) + 1 PROVE q[k] \in ExpMark
      <4>1. k \in 1 .. Len(q) /\ r # Len(p) + 1 BY <2>1, <2>2, <2>5, <3>2
      <4> QED BY <1>1, <2>1, <2>5, <4>1 DEF FirstMark
    <3> QED BY <2>5, <3>1, <3>2 DEF FirstMark
  <2>7. Unsigned(w) = Part(q, 1, k - 1) /\ Negative(w) = Negative(p)
    <3>1. w # <<>> /\ w[1] = p[1]
      <4>1. Len(w) # 0 /\ 1 \in 1 .. r - 1 BY <1>6, <2>5
      <4> QED BY <1>6, <4>1, EmptySeq
    <3>2. Unsigned(w) = Tail(w) BY <1>8, <3>1 DEF Unsigned
    <3>3. Negative(w) = Negative(p) BY <1>8, <3>1 DEF Negative
    <3>4. Tail(w) \in Seq(Byte) /\ Len(Tail(w)) = Len(w) - 1 /\ \A x \in 1 .. Len(Tail(w)) : Tail(w)[x] = w[x + 1]
      BY <1>6, <3>1, HeadTailProperties
    <3>5. /\ Part(q, 1, k - 1) \in Seq(Byte) /\ Len(Part(q, 1, k - 1)) = k - 1
          /\ \A x \in 1 .. k - 1 : Part(q, 1, k - 1)[x] = q[x]
      <4>1. 1 \in 1 .. Len(q) + 1 /\ k - 1 \in 1 - 1 .. Len(q) /\ k - 1 - 1 + 1 = k - 1
            /\ \A x \in 1 .. k - 1 : 1 + x - 1 = x
        BY <2>2, <2>5
      <4>2. /\ Part(q, 1, k - 1) \in Seq(Byte) /\ Len(Part(q, 1, k - 1)) = k - 1 - 1 + 1
            /\ \A x \in 1 .. k - 1 - 1 + 1 : Part(q, 1, k - 1)[x] = q[1 + x - 1]
        BY <2>1, <4>1, PartIs
      <4> QED BY <4>1, <4>2
    <3>6. Len(Tail(w)) = k - 1 BY <1>6, <2>4, <3>4
    <3>7. ASSUME NEW x \in 1 .. k - 1 PROVE Tail(w)[x] = Part(q, 1, k - 1)[x]
      <4>1. x \in 1 .. Len(q) /\ x + 1 \in 1 .. r - 1 BY <2>2, <2>5
      <4>2. Tail(w)[x] = w[x + 1] /\ w[x + 1] = p[x + 1] /\ q[x] = p[x + 1]
        BY <1>6, <2>1, <3>4, <3>6, <4>1
      <4> QED BY <3>5, <4>2
    <3>8. Tail(w) = Part(q, 1, k - 1) BY <3>4, <3>5, <3>6, <3>7, SeqEqual
    <3> QED BY <3>2, <3>3, <3>8
  <2>8. Behind(p, r) = Behind(q, k)
    <3>1. CASE k <= Len(q)
      <4>1. PICK x, y : x = Part(p, r + 1, Len(p)) /\ y = Part(q, k + 1, Len(q)) OBVIOUS
      <4>2. r + 1 \in 1 .. Len(p) + 1 /\ Len(p) \in (r + 1) - 1 .. Len(p)
        BY <1>5, <2>1, <2>2, <2>5, <3>1
      <4>3. /\ x \in Seq(Byte) /\ Len(x) = Len(p) - (r + 1) + 1
            /\ \A i \in 1 .. Len(p) - (r + 1) + 1 : x[i] = p[r + 1 + i - 1]
        BY <4>1, <4>2, PartIs
      <4>4. k + 1 \in 1 .. Len(q) + 1 /\ Len(q) \in (k + 1) - 1 .. Len(q) BY <2>2, <2>5, <3>1
      <4>5. /\ y \in Seq(Byte) /\ Len(y) = Len(q) - (k + 1) + 1
            /\ \A i \in 1 .. Len(q) - (k + 1) + 1 : y[i] = q[k + 1 + i - 1]
        BY <2>1, <4>1, <4>4, PartIs
      <4>6. Len(p) - (r + 1) + 1 = Len(q) - k /\ Len(q) - (k + 1) + 1 = Len(q) - k
        BY <1>5, <2>1, <2>2, <2>5
      <4>7. ASSUME NEW i \in 1 .. Len(q) - k PROVE x[i] = y[i]
        <5>1. PICK z : z = k + i OBVIOUS
        <5>2. z \in 1 .. Len(q) /\ r + 1 + i - 1 = z + 1 /\ k + 1 + i - 1 = z BY <2>2, <2>5, <5>1
        <5>3. x[i] = p[z + 1] /\ y[i] = q[z] BY <4>3, <4>5, <4>6, <5>2
        <5> QED BY <2>1, <5>2, <5>3
      <4>8. x = y BY <4>3, <4>5, <4>6, <4>7, SeqEqual
      <4>9. r <= Len(p) BY <1>5, <2>1, <2>2, <2>5, <3>1
      <4> QED BY <3>1, <4>1, <4>8, <4>9 DEF Behind
    <3>2. CASE ~(k <= Len(q))
      <4>1. ~(r <= Len(p)) BY <1>5, <2>1, <2>2, <2>5, <3>2
      <4> QED BY <3>2, <4>1 DEF Behind
    <3> QED BY <3>1, <3>2
  <2>9. (r <= Len(p)) = (k <= Len(q)) BY <1>5, <2>1, <2>2, <2>5
  <2> QED BY <1>1, <1>3, <1>4, <2>6, <2>7, <2>8, <2>9
<1>9. CASE ~(p # <<>> /\ IsSign(p[1]))
  <2>1. q = p BY <1>9, UnsignedIs
  <2>2. Negative(p) = FALSE BY <1>9 DEF Negative, IsSign
  <2>3. ~(w # <<>> /\ IsSign(w[1]))
    <3> SUFFICES ASSUME w # <<>>, IsSign(w[1]) PROVE FALSE OBVIOUS
    <3>1. Len(w) # 0 BY <1>6, EmptySeq
    <3>2. 1 \in 1 .. r - 1 /\ Len(p) # 0 BY <1>5, <1>6, <3>1
    <3>3. p # <<>> /\ w[1] = p[1] BY <1>6, <3>2, EmptySeq
    <3> QED BY <1>9, <3>3
  <2>4. Unsigned(w) = w BY <2>3 DEF Unsigned
  <2>5. Negative(w) = FALSE BY <2>3 DEF Negative, IsSign
  <2> QED BY <1>1, <1>3, <1>4, <2>1, <2>2, <2>4, <2>5
<1> QED BY <1>8, <1>9

\* Whatever the sign, the scan of the mantissa begins after it.
SignOf(neg) == IF neg THEN <<Minus>> ELSE <<>>

\* The form is written from the bytes behind the sign, with the sign before it.
LEMMA FormOf ==
  ASSUME NEW p
  PROVE  CanonicalDecimal(p)
           = FromMantissa(SignOf(Negative(p)), Unsigned(p), MantissaEnd(Unsigned(p), 1))
<1>1. CASE p # <<>> /\ IsSign(p[1])
  <2>1. Unsigned(p) = Tail(p) BY <1>1 DEF Unsigned
  <2>2. SignOf(Negative(p)) = IF p[1] = Minus THEN <<Minus>> ELSE <<>> BY <1>1 DEF SignOf, Negative
  <2>3. CanonicalDecimal(p) = FromMantissa(IF p[1] = Minus THEN <<Minus>> ELSE <<>>, Tail(p), MantissaEnd(Tail(p), 1))
    BY <1>1, Zenon DEF CanonicalDecimal
  <2> QED BY <2>1, <2>2, <2>3
<1>2. CASE ~(p # <<>> /\ IsSign(p[1]))
  <2>1. Unsigned(p) = p BY <1>2 DEF Unsigned
  <2>2. SignOf(Negative(p)) = <<>> BY <1>2 DEF SignOf, Negative, IsSign
  <2>3. CanonicalDecimal(p) = FromMantissa(<<>>, p, MantissaEnd(p, 1))
    BY <1>2, Zenon DEF CanonicalDecimal
  <2> QED BY <2>1, <2>2, <2>3
<1> QED BY <1>1, <1>2

\* The digits of an exponent the scan takes in.
TakenIn(e) ==
  /\ e # <<>> /\ \A i \in DOMAIN e : IsDigit(e[i])
  /\ NumberOf(Part(e, 1, Len(e) - 1)) <= MaxExp

\* The power they name, or none.
LEMMA PowerTells ==
  ASSUME NEW x \in Seq(Byte), NEW e, e = Unsigned(x)
  PROVE  /\ e \in Seq(Byte)
         /\ PowerIn(x) = IF TakenIn(e) THEN (IF Negative(x) THEN -1 ELSE 1) * NumberOf(e) ELSE Declined
<1>1. e \in Seq(Byte) BY UnsignedIs
<1>2. PICK s : s = IF Negative(x) THEN -1 ELSE 1 OBVIOUS
<1>3. PowerIn(x) = SignedPower(e, s)
  <2>1. CASE x # <<>> /\ IsSign(x[1])
    <3>1. e = Tail(x) /\ s = IF x[1] = Minus THEN -1 ELSE 1 BY <1>2, <2>1 DEF Unsigned, Negative
    <3>2. PowerIn(x) = SignedPower(Tail(x), IF x[1] = Minus THEN -1 ELSE 1)
      BY <2>1, Zenon DEF PowerIn
    <3> QED BY <3>1, <3>2
  <2>2. CASE ~(x # <<>> /\ IsSign(x[1]))
    <3>1. e = x /\ s = 1 BY <1>2, <2>2 DEF Unsigned, Negative, IsSign
    <3>2. PowerIn(x) = SignedPower(x, 1) BY <2>2, Zenon DEF PowerIn
    <3> QED BY <3>1, <3>2
  <2> QED BY <2>1, <2>2
<1>4. CASE e = <<>> BY <1>2, <1>3, <1>4 DEF SignedPower, TakenIn
<1>5. CASE e # <<>>
  <2>1. PICK v : v = NumberOf(Part(e, 1, Len(e) - 1)) OBVIOUS
  <2>2. v \in Int
    <3>1. Len(e) \in Nat /\ Len(e) # 0 BY <1>1, <1>5, EmptySeq, LenProperties
    <3>2. 1 \in 1 .. Len(e) + 1 /\ Len(e) - 1 \in 1 - 1 .. Len(e) BY <3>1
    <3>3. Part(e, 1, Len(e) - 1) \in Seq(Byte) BY <1>1, <3>2, PartIs
    <3> QED BY <2>1, <3>3, NumberOfIs
  <2>3. v > MaxExp <=> ~(v <= MaxExp) BY <2>2, ValuesAssumption
  <2>4. SignedPower(e, s) = IF TakenIn(e) THEN s * NumberOf(e) ELSE Declined
    BY <1>5, <2>1, <2>3 DEF SignedPower, TakenIn
  <2> QED BY <1>1, <1>2, <1>3, <2>4
<1> QED BY <1>1, <1>4, <1>5

\* What follows a mantissa that ends at a mark, or with the value, or anywhere else.
LEMMA ExponentTells ==
  ASSUME NEW q \in Seq(Byte), NEW k \in 1 .. Len(q) + 1
  PROVE  /\ k = Len(q) + 1 => Exponent(Part(q, k, Len(q))) = 0
         /\ k # Len(q) + 1 /\ q[k] \in ExpMark => Exponent(Part(q, k, Len(q))) = PowerIn(Behind(q, k))
         /\ k # Len(q) + 1 /\ q[k] \notin ExpMark => Exponent(Part(q, k, Len(q))) = Declined
<1>1. PICK n \in Nat : n = Len(q) BY LenProperties
<1>2. PICK rest : rest = Part(q, k, n) OBVIOUS
<1>3. rest \in Seq(Byte) /\ Len(rest) = n - k + 1 /\ \A i \in 1 .. n - k + 1 : rest[i] = q[k + i - 1]
  <2>1. Len(q) \in k - 1 .. Len(q) BY <1>1
  <2>2. /\ Part(q, k, Len(q)) \in Seq(Byte) /\ Len(Part(q, k, Len(q))) = Len(q) - k + 1
        /\ \A i \in 1 .. Len(q) - k + 1 : Part(q, k, Len(q))[i] = q[k + i - 1]
    BY <2>1, PartIs
  <2> QED BY <1>1, <1>2, <2>2
<1>4. CASE k = n + 1
  <2>1. rest = <<>>
    <3>1. Len(rest) = 0 BY <1>1, <1>3, <1>4
    <3> QED BY <1>3, <3>1, EmptySeq
  <2> QED BY <1>1, <1>2, <1>4, <2>1 DEF Exponent
<1>5. CASE k # n + 1
  <2>1. k \in 1 .. n /\ 1 \in 1 .. n - k + 1 /\ k + 1 - 1 = k BY <1>1, <1>5
  <2>2. rest # <<>> /\ rest[1] = q[k]
    <3>1. Len(rest) # 0 BY <1>3, <2>1
    <3>2. rest[1] = q[k + 1 - 1] BY <1>3, <2>1
    <3> QED BY <2>1, <3>1, <3>2
  <2>3. Tail(rest) = Behind(q, k)
    <3>1. Tail(rest) \in Seq(Byte) /\ Len(Tail(rest)) = Len(rest) - 1
          /\ \A x \in 1 .. Len(Tail(rest)) : Tail(rest)[x] = rest[x + 1]
      BY <1>3, <2>2, HeadTailProperties
    <3>2. PICK y : y = Part(q, k + 1, n) OBVIOUS
    <3>3. y \in Seq(Byte) /\ Len(y) = n - k /\ \A i \in 1 .. n - k : y[i] = q[k + i]
      <4>1. k + 1 \in 1 .. Len(q) + 1 /\ Len(q) \in (k + 1) - 1 .. Len(q) BY <1>1, <2>1
      <4>2. /\ Part(q, k + 1, Len(q)) \in Seq(Byte) /\ Len(Part(q, k + 1, Len(q))) = Len(q) - (k + 1) + 1
            /\ \A i \in 1 .. Len(q) - (k + 1) + 1 : Part(q, k + 1, Len(q))[i] = q[(k + 1) + i - 1]
        BY <4>1, PartIs
      <4>3. n - (k + 1) + 1 = n - k /\ \A i \in 1 .. n - k : (k + 1) + i - 1 = k + i BY <2>1
      <4> QED BY <1>1, <3>2, <4>2, <4>3
    <3>4. Len(Tail(rest)) = n - k BY <1>3, <2>1, <3>1
    <3>5. ASSUME NEW x \in 1 .. n - k PROVE Tail(rest)[x] = y[x]
      <4>1. x + 1 \in 1 .. n - k + 1 /\ k + (x + 1) - 1 = k + x BY <2>1
      <4>2. rest[x + 1] = q[k + x] BY <1>3, <4>1
      <4> QED BY <3>1, <3>3, <3>4, <4>2
    <3>6. Tail(rest) = y BY <3>1, <3>3, <3>4, <3>5, SeqEqual
    <3> QED BY <1>1, <2>1, <3>2, <3>6 DEF Behind
  <2>4. Exponent(rest) = IF q[k] \in ExpMark THEN PowerIn(Behind(q, k)) ELSE Declined
    BY <2>2, <2>3 DEF Exponent
  <2> QED BY <1>1, <1>2, <1>5, <2>4
<1> QED BY <1>4, <1>5

\* The digits in plain decimal.
Plainly(neg, d, point) == IF d = <<>> THEN <<Zero>> ELSE Placed(SignOf(neg), d, point)

\* The form of a mantissa the scan took in whole, with a power.
LEMMA ShiftedTells ==
  ASSUME NEW neg, NEW m \in Seq(Byte), NEW power \in Int, NEW w, w = NoLeadingZeros(DigitsOf(m)),
         NEW d, d = NoTrailingZeros(w), DigitsOf(m) # <<>>
  PROVE  Shifted10(SignOf(neg), m, power)
           = IF Len(w) > Scratch THEN Declined
             ELSE Fitting(Plainly(neg, d, power - Decimals(m) + Len(w) - Len(d)))
<1>1. power # Declined BY ValuesAssumption
<1>2. Shifted10(SignOf(neg), m, power) = RenderWritten(SignOf(neg), w, power - Decimals(m))
  BY <1>1 DEF Shifted10
<1>3. RenderWritten(SignOf(neg), w, power - Decimals(m))
        = IF Len(w) > Scratch THEN Declined ELSE Render(SignOf(neg), w, d, power - Decimals(m))
  BY DEF RenderWritten
<1>4. Render(SignOf(neg), w, d, power - Decimals(m))
        = Fitting(Plainly(neg, d, power - Decimals(m) + Len(w) - Len(d)))
  <2>1. Fitting(<<Zero>>) = <<Zero>>
    <3>1. Len(<<Zero>>) = 1 /\ ~(1 > Scratch) BY ValuesAssumption
    <3> QED BY <3>1 DEF Fitting
  <2>2. CASE d = <<>> BY <2>1, <2>2 DEF Render, Plainly
  <2>3. CASE d # <<>> BY <2>3 DEF Render, Plainly
  <2> QED BY <2>2, <2>3
<1> QED BY <1>2, <1>3, <1>4

\* A mantissa is digits and one point at most; it is what the scan takes for one just
\* when the scan stops at the mark.
Shape(m) ==
  /\ \A i \in DOMAIN m : IsDigit(m[i]) \/ m[i] = Point
  /\ \A i, j \in DOMAIN m : m[i] = Point /\ m[j] = Point => i = j

\* The scan of the mantissa stops within the text, at the first byte that cannot belong
\* to one.
LEMMA MantissaStops ==
  ASSUME NEW q \in Seq(Byte), NEW k, FirstMark(q, k), NEW end, end = MantissaEnd(q, 1)
  PROVE  /\ Part(q, 1, k - 1) \in Seq(Byte)
         /\ end \in 1 .. Len(q) + 1 /\ k \in 1 .. Len(q) + 1
         /\ Shape(Part(q, 1, k - 1)) <=> end = k
         /\ end # k => end # Len(q) + 1 /\ q[end] \notin ExpMark
<1>1. PICK n \in Nat : n = Len(q) BY LenProperties
<1>2. /\ k \in 1 .. n + 1 /\ \A x \in 1 .. k - 1 : q[x] \notin ExpMark
      /\ k = n + 1 \/ q[k] \in ExpMark
  BY <1>1 DEF FirstMark
<1>3. /\ end \in 1 .. n + 1
      /\ \A x \in 1 .. end - 1 : IsDigit(q[x]) \/ q[x] = Point
      /\ \A x, y \in 1 .. end - 1 : q[x] = Point /\ q[y] = Point => x = y
      /\ \/ end = n + 1
         \/ ~IsDigit(q[end]) /\ (q[end] = Point => \E x \in 1 .. end - 1 : q[x] = Point)
  BY <1>1, MantissaTells
<1>4. \A b : IsDigit(b) \/ b = Point => b \notin ExpMark
  BY DEF IsDigit, Digits, Zero, Nine, Point, ExpMark
<1>5. end <= k
  <2> SUFFICES ASSUME k < end PROVE FALSE BY <1>2, <1>3
  <2>1. k \in 1 .. end - 1 /\ k # n + 1 BY <1>2, <1>3
  <2> QED BY <1>2, <1>3, <1>4, <2>1
<1>6. PICK m : m = Part(q, 1, k - 1) OBVIOUS
<1>7. m \in Seq(Byte) /\ DOMAIN m = 1 .. k - 1 /\ \A x \in 1 .. k - 1 : m[x] = q[x]
  <2>1. 1 \in 1 .. Len(q) + 1 /\ k - 1 \in 1 - 1 .. Len(q) /\ k - 1 - 1 + 1 = k - 1
        /\ \A x \in 1 .. k - 1 : 1 + x - 1 = x
    BY <1>1, <1>2
  <2>2. /\ Part(q, 1, k - 1) \in Seq(Byte) /\ Len(Part(q, 1, k - 1)) = k - 1 - 1 + 1
        /\ \A x \in 1 .. k - 1 - 1 + 1 : Part(q, 1, k - 1)[x] = q[1 + x - 1]
    BY <2>1, PartIs
  <2> QED BY <1>6, <2>1, <2>2, LenProperties
<1>8. end = k => Shape(m) BY <1>3, <1>7 DEF Shape
<1>9. ASSUME Shape(m) PROVE end = k
  <2> SUFFICES ASSUME end # k PROVE FALSE OBVIOUS
  <2>1. end \in 1 .. k - 1 /\ end # n + 1 BY <1>2, <1>3, <1>5
  <2>2. q[end] = Point BY <1>3, <1>7, <1>9, <2>1 DEF Shape
  <2>3. PICK x \in 1 .. end - 1 : q[x] = Point BY <1>3, <2>1, <2>2
  <2>4. x \in 1 .. k - 1 BY <1>2, <2>1
  <2>5. x = end BY <1>7, <1>9, <2>1, <2>2, <2>3, <2>4 DEF Shape
  <2> QED BY <2>1, <2>5
<1>10. end # k => end # n + 1 /\ q[end] \notin ExpMark
  <2> SUFFICES ASSUME end # k PROVE end # n + 1 /\ q[end] \notin ExpMark OBVIOUS
  <2>1. end \in 1 .. k - 1 BY <1>2, <1>3, <1>5
  <2> QED BY <1>2, <2>1
<1> QED BY <1>1, <1>2, <1>3, <1>6, <1>7, <1>8, <1>9, <1>10

\* The power a numeral's exponent names, when the scan takes it in.
PowerOf(n) == (IF n.negExp THEN -1 ELSE 1) * NumberOf(n.e)

\* What the scan reads behind the mantissa is that power, or nothing at all.
LEMMA PowerFollows ==
  ASSUME NEW q \in Seq(Byte), NEW k, FirstMark(q, k), NEW n,
         n.marked = (k <= Len(q)), n.e = Unsigned(Behind(q, k)), n.negExp = Negative(Behind(q, k))
  PROVE  /\ PowerOf(n) \in Int
         /\ Exponent(Part(q, k, Len(q)))
              = IF n.marked => TakenIn(n.e) THEN PowerOf(n) ELSE Declined
<1>1. Len(q) \in Nat /\ k \in 1 .. Len(q) + 1 /\ (k = Len(q) + 1 \/ q[k] \in ExpMark)
  BY LenProperties DEF FirstMark
<1>2. Behind(q, k) \in Seq(Byte)
  <2>1. CASE k <= Len(q)
    <3>1. k + 1 \in 1 .. Len(q) + 1 /\ Len(q) \in (k + 1) - 1 .. Len(q) BY <1>1, <2>1
    <3> QED BY <2>1, <3>1, PartIs DEF Behind
  <2>2. CASE ~(k <= Len(q)) BY <2>2, ByteSeqs DEF Behind
  <2> QED BY <2>1, <2>2
<1>3. /\ n.e \in Seq(Byte)
      /\ PowerIn(Behind(q, k)) = IF TakenIn(n.e) THEN PowerOf(n) ELSE Declined
  <2>1. PICK x, e : x = Behind(q, k) /\ e = n.e OBVIOUS
  <2>2. e = Unsigned(x) /\ x \in Seq(Byte) BY <1>2, <2>1
  <2>3. /\ e \in Seq(Byte)
        /\ PowerIn(x) = IF TakenIn(e) THEN (IF Negative(x) THEN -1 ELSE 1) * NumberOf(e) ELSE Declined
    BY <2>2, PowerTells
  <2>4. PowerOf(n) = (IF Negative(x) THEN -1 ELSE 1) * NumberOf(e) BY <2>1 DEF PowerOf
  <2> QED BY <2>1, <2>3, <2>4
<1>4. PowerOf(n) \in Int /\ (Len(n.e) = 0 => PowerOf(n) = 0)
  <2>1. PICK v : v = NumberOf(n.e) OBVIOUS
  <2>2. v \in Int /\ (Len(n.e) = 0 => v = 0) BY <1>3, <2>1, NumberOfIs
  <2>3. PICK s \in {-1, 1} : s = IF n.negExp THEN -1 ELSE 1 OBVIOUS
  <2>4. PowerOf(n) = s * v BY <2>1, <2>3 DEF PowerOf
  <2>5. s * v \in Int /\ (v = 0 => s * v = 0)
    <3>1. PICK x \in Int : x = v BY <2>2
    <3>2. s \in Int OBVIOUS
    <3>3. s * x \in Int /\ s * 0 = 0 BY <3>2
    <3> QED BY <3>1, <3>3
  <2> QED BY <2>2, <2>4, <2>5
<1>5. CASE k = Len(q) + 1
  <2>1. Exponent(Part(q, k, Len(q))) = 0 BY <1>1, <1>5, ExponentTells
  <2>2. ~n.marked
    <3>1. ~(k <= Len(q)) BY <1>1, <1>5
    <3> QED BY <3>1, Zenon
  <2>3. n.e = <<>>
    <3>1. Behind(q, k) = <<>> BY <1>1, <1>5 DEF Behind
    <3> QED BY <3>1 DEF Unsigned
  <2>4. PowerOf(n) = 0 BY <1>4, <2>3, EmptySeq
  <2> QED BY <1>4, <2>1, <2>2, <2>4
<1>6. CASE k # Len(q) + 1
  <2>1. Exponent(Part(q, k, Len(q))) = PowerIn(Behind(q, k)) BY <1>1, <1>6, ExponentTells
  <2>2. n.marked
    <3>1. k <= Len(q) BY <1>1, <1>6
    <3> QED BY <3>1, Zenon
  <2> QED BY <1>3, <1>4, <2>1, <2>2
<1> QED BY <1>5, <1>6

\* A text the scan takes for a number is a numeral it can take in, and the form is its
\* significant digits in plain decimal.
Reads(p, d, point) ==
  /\ Significant(d) /\ point \in Int
  /\ NumberIn(PartsOf(p)) = SignedDigits(Negative(p), Standing(d, point))

\* The scan agrees with the grammar: a numeral it can take in gets its plain form, and
\* any other text gets none.
LEMMA ScanTells ==
  ASSUME NEW p \in Seq(Byte), NEW n, n = PartsOf(p)
  PROVE  /\ ~(IsNumeral(n) /\ Readable(n)) => CanonicalDecimal(p) = Declined
         /\ IsNumeral(n) /\ Readable(n) =>
              \E d, point : /\ Reads(p, d, point)
                            /\ CanonicalDecimal(p) = Fitting(Plainly(Negative(p), d, point))
<1>1. PICK q : q = Unsigned(p) OBVIOUS
<1>2. q \in Seq(Byte) BY <1>1, UnsignedIs
<1>3. PICK k : /\ FirstMark(q, k) /\ n.m = Part(q, 1, k - 1) /\ n.neg = Negative(p)
               /\ n.marked = (k <= Len(q))
               /\ n.e = Unsigned(Behind(q, k)) /\ n.negExp = Negative(Behind(q, k))
  BY <1>1, PartsTells
<1>4. PICK end : end = MantissaEnd(q, 1) OBVIOUS
<1>5. PICK m : m = n.m OBVIOUS
<1>6. /\ m \in Seq(Byte) /\ end \in 1 .. Len(q) + 1 /\ k \in 1 .. Len(q) + 1
      /\ Shape(m) <=> end = k
      /\ end # k => end # Len(q) + 1 /\ q[end] \notin ExpMark
  BY <1>2, <1>3, <1>4, <1>5, MantissaStops
<1>7. CanonicalDecimal(p)
        = Shifted10(SignOf(Negative(p)), Part(q, 1, end - 1), Exponent(Part(q, end, Len(q))))
  <2>1. CanonicalDecimal(p) = FromMantissa(SignOf(Negative(p)), q, end) BY <1>1, <1>4, FormOf
  <2> QED BY <2>1 DEF FromMantissa
<1>8. IsNumeral(n) <=> /\ Shape(m) /\ \E i \in DOMAIN m : IsDigit(m[i])
                       /\ n.marked => n.e # <<>> /\ \A i \in DOMAIN n.e : IsDigit(n.e[i])
  BY <1>5 DEF IsNumeral, Shape
<1>9. CASE end # k
  <2>1. Exponent(Part(q, end, Len(q))) = Declined BY <1>2, <1>6, <1>9, ExponentTells
  <2>2. CanonicalDecimal(p) = Declined BY <1>7, <2>1 DEF Shifted10
  <2> QED BY <1>6, <1>8, <1>9, <2>2
<1>10. CASE end = k
  <2>1. PICK power : power = Exponent(Part(q, k, Len(q))) OBVIOUS
  <2>2. PowerOf(n) \in Int /\ power = IF n.marked => TakenIn(n.e) THEN PowerOf(n) ELSE Declined
    BY <1>2, <1>3, <2>1, PowerFollows
  <2>3. CanonicalDecimal(p) = Shifted10(SignOf(Negative(p)), m, power)
    BY <1>3, <1>5, <1>7, <1>10, <2>1
  <2>4. PICK w : w = NoLeadingZeros(DigitsOf(m)) OBVIOUS
  <2>5. PICK d : d = NoTrailingZeros(w) OBVIOUS
  <2>6. PICK shift : shift = PowerOf(n) - Decimals(m) OBVIOUS
  <2>7. shift \in Int
    <3>1. Decimals(m) \in Nat BY <1>6, DecimalsIs
    <3> QED BY <2>2, <2>6, <3>1
  <2>8. /\ w \in Seq(Byte) /\ Significant(d)
        /\ DigitsAt(m, shift) = Standing(d, shift + Len(w) - Len(d))
        /\ Len(w) = Cardinality({i \in DOMAIN m : IsDigit(m[i]) /\ \E j \in 1 .. i : m[j] \in Zero + 1 .. Nine})
        /\ DigitsOf(m) = <<>> <=> \A i \in DOMAIN m : ~IsDigit(m[i])
    BY <1>6, <2>4, <2>5, <2>7, StandingTells
  <2>9. IsNumeral(n) /\ Readable(n)
          <=> DigitsOf(m) # <<>> /\ (n.marked => TakenIn(n.e)) /\ Len(w) <= Scratch
    <3>1. Readable(n) <=> /\ Len(w) <= Scratch
                          /\ n.marked => NumberOf(Part(n.e, 1, Len(n.e) - 1)) <= MaxExp
      BY <1>5, <2>8 DEF Readable
    <3> QED BY <1>6, <1>8, <1>10, <2>8, <3>1 DEF TakenIn
  <2>10. Len(w) \in Nat /\ Len(d) \in Nat BY <2>8, LenProperties DEF Significant
  <2>11. ASSUME ~(IsNumeral(n) /\ Readable(n)) PROVE CanonicalDecimal(p) = Declined
    <3>1. CASE DigitsOf(m) = <<>> \/ ~(n.marked => TakenIn(n.e))
      <4>1. DigitsOf(m) = <<>> \/ power = Declined BY <2>2, <3>1
      <4> QED BY <2>3, <4>1 DEF Shifted10
    <3>2. CASE DigitsOf(m) # <<>> /\ (n.marked => TakenIn(n.e)) /\ ~(Len(w) <= Scratch)
      <4>1. power \in Int /\ Len(w) > Scratch BY <2>2, <2>10, <3>2, ValuesAssumption
      <4>2. Shifted10(SignOf(Negative(p)), m, power) = Declined
        BY <1>6, <2>4, <2>5, <3>2, <4>1, ShiftedTells
      <4> QED BY <2>3, <4>2
    <3> QED BY <2>9, <2>11, <3>1, <3>2
  <2>12. ASSUME IsNumeral(n) /\ Readable(n)
         PROVE  \E e, point : /\ Reads(p, e, point)
                              /\ CanonicalDecimal(p) = Fitting(Plainly(Negative(p), e, point))
    <3>1. power = PowerOf(n) /\ DigitsOf(m) # <<>> /\ Len(w) <= Scratch BY <2>2, <2>9, <2>12
    <3>2. ~(Len(w) > Scratch) BY <2>10, <3>1, ValuesAssumption
    <3>3. Shifted10(SignOf(Negative(p)), m, power)
            = IF Len(w) > Scratch THEN Declined
              ELSE Fitting(Plainly(Negative(p), d, power - Decimals(m) + Len(w) - Len(d)))
      BY <1>6, <2>2, <2>4, <2>5, <3>1, ShiftedTells
    <3>4. PICK point : point = shift + Len(w) - Len(d) OBVIOUS
    <3>5. CanonicalDecimal(p) = Fitting(Plainly(Negative(p), d, point))
      BY <2>3, <2>6, <3>1, <3>2, <3>3, <3>4
    <3>6. point \in Int BY <2>7, <2>10, <3>4
    <3>7. NumberIn(n) = SignedDigits(Negative(p), Standing(d, point))
      <4>1. AfterPoint(m) = Decimals(m) BY DEF AfterPoint, Decimals
      <4>2. NumberIn(n) = SignedDigits(n.neg, DigitsAt(n.m, PowerOf(n) - AfterPoint(n.m)))
        BY DEF NumberIn, PowerOf
      <4> QED BY <1>3, <1>5, <2>6, <2>8, <3>4, <4>1, <4>2
    <3> QED BY <2>8, <3>5, <3>6, <3>7 DEF Reads
  <2> QED BY <2>11, <2>12
<1> QED BY <1>9, <1>10

\* Some digit stands somewhere, unless there is none.
LEMMA StandingSome ==
  ASSUME NEW d, Significant(d), NEW point
  PROVE  (d = <<>> <=> Len(d) = 0) /\ (Standing(d, point) = {} <=> d = <<>>)
<1>1. d \in Seq(Byte) /\ Len(d) \in Nat BY LenProperties DEF Significant
<1>2. d = <<>> <=> Len(d) = 0 BY <1>1, EmptySeq
<1>3. CASE Len(d) = 0
  <2>1. {j \in 1 .. Len(d) : d[j] # Zero} = {} BY <1>3
  <2>2. Standing(d, point) = {} BY <2>1 DEF Standing
  <2> QED BY <1>2, <1>3, <2>2
<1>4. CASE Len(d) # 0
  <2>1. 1 \in 1 .. Len(d) /\ d[1] # Zero BY <1>1, <1>4 DEF Significant
  <2>2. <<Len(d) - 1 + point, d[1]>> \in Standing(d, point) BY <2>1 DEF Standing
  <2> QED BY <1>2, <1>4, <2>2
<1> QED BY <1>3, <1>4

\* The signed number, and whether it has a sign.
LEMMA SignIs ==
  ASSUME NEW neg \in BOOLEAN, NEW S
  PROVE  /\ SignedDigits(neg, S).digits = S
         /\ SignedDigits(neg, S).neg = (neg /\ S # {})
BY DEF SignedDigits

\* The form is what is counted as the bytes the number takes: its sign and its body.
LEMMA PlainlyIs ==
  ASSUME NEW neg \in BOOLEAN, NEW d, Significant(d), NEW point \in Int, NEW f, f = Plainly(neg, d, point)
  PROVE  /\ f \in Seq(Byte) /\ Len(f) = PlainLength(SignedDigits(neg, Standing(d, point)))
         /\ d = <<>> => f = <<Zero>>
         /\ d # <<>> => \E b, P : f = SignOf(neg) \o b /\ Laid(b, d, point, P)
<1>1. PICK v : v = SignedDigits(neg, Standing(d, point)) OBVIOUS
<1>2. v.digits = Standing(d, point) /\ v.neg = (neg /\ Standing(d, point) # {}) BY <1>1, SignIs
<1>3. CASE d = <<>>
  <2>1. f = <<Zero>> /\ f \in Seq(Byte) /\ Len(f) = 1 BY <1>3, ByteSeqs DEF Plainly
  <2>2. v.digits = {} /\ v.neg = FALSE BY <1>2, <1>3, StandingSome
  <2>3. Powers(v) \cup {0} = {0} BY <2>2 DEF Powers
  <2>4. SpanLength({0}) = 1
    <3>1. PICK hi, lo : /\ hi = CHOOSE x \in {0} : \A y \in {0} : y <= x
                        /\ lo = CHOOSE x \in {0} : \A y \in {0} : x <= y
      OBVIOUS
    <3>2. hi = 0 /\ lo = 0 BY <3>1
    <3>3. SpanLength({0}) = IF lo < 0 THEN hi + 2 - lo ELSE hi + 1 BY <3>1 DEF SpanLength
    <3> QED BY <3>2, <3>3
  <2>5. PlainLength(v) = 1 BY <2>2, <2>3, <2>4 DEF PlainLength
  <2> QED BY <1>1, <1>3, <2>1, <2>5
<1>4. CASE d # <<>>
  <2>1. f = Placed(SignOf(neg), d, point) /\ Len(d) # 0 /\ Standing(d, point) # {}
    BY <1>4, StandingSome DEF Plainly
  <2>2. PICK b : b = Placed(<<>>, d, point) OBVIOUS
  <2>3. SignOf(neg) \in Seq(Byte) /\ Len(SignOf(neg)) = IF neg THEN 1 ELSE 0 BY ByteSeqs DEF SignOf
  <2>4. f = SignOf(neg) \o b
    <3>1. d \in Seq(Byte) BY DEF Significant
    <3> QED BY <2>1, <2>2, <2>3, <3>1, SignedPlaced
  <2>5. PICK P : Laid(b, d, point, P) /\ Len(b) = Taken(Len(d), point) BY <2>1, <2>2, PlacedLaid
  <2>6. b \in Seq(Byte) BY <2>5 DEF Laid
  <2>7. f \in Seq(Byte) /\ Len(f) = Len(SignOf(neg)) + Len(b) BY <2>3, <2>4, <2>6, BytesAfter
  <2>8. SpanLength(Powers(v) \cup {0}) = Len(b) BY <1>1, <2>1, <2>5, TakenIs
  <2>9. PlainLength(v) = Len(b) + IF neg THEN 1 ELSE 0 BY <1>2, <2>1, <2>8 DEF PlainLength
  <2>10. Len(f) = PlainLength(v)
    <3>1. Len(b) \in Nat BY <2>6, LenProperties
    <3> QED BY <2>3, <2>7, <2>9, <3>1
  <2> QED BY <1>1, <1>4, <2>4, <2>5, <2>7, <2>10
<1> QED BY <1>3, <1>4

\* A sign and a body that is a numeral without one are the numeral.
LEMMA SignedNumeral ==
  ASSUME NEW neg \in BOOLEAN, NEW b \in Seq(Byte), Len(b) >= 1, ~IsSign(b[1]),
         \A i \in DOMAIN b : (IsDigit(b[i]) \/ b[i] = Point) /\ b[i] \notin ExpMark,
         \E i \in DOMAIN b : IsDigit(b[i]),
         \A i, j \in DOMAIN b : b[i] = Point /\ b[j] = Point => i = j,
         NEW f, f = SignOf(neg) \o b, Len(f) <= Scratch, NEW n, n = PartsOf(f)
  PROVE  /\ IsNumeral(n) /\ Readable(n)
         /\ NumberIn(n) = SignedDigits(neg, DigitsAt(b, 0 - AfterPoint(b)))
<1>1. PICK L \in Nat : L = Len(b) /\ DOMAIN b = 1 .. L BY LenProperties
<1>2. /\ f \in Seq(Byte) /\ Len(f) \in Nat /\ DOMAIN f = 1 .. Len(f) /\ L <= Len(f)
      /\ \A x \in DOMAIN f : f[x] \notin ExpMark
      /\ Unsigned(f) = b /\ Negative(f) = neg
  <2>1. CASE neg
    <3>1. PICK s : s = <<Minus>> OBVIOUS
    <3>2. s \in Seq(Byte) /\ Len(s) = 1 /\ s[1] = Minus /\ f = s \o b
      BY <2>1, <3>1, ByteSeqs DEF SignOf
    <3>3. /\ f \in Seq(Byte) /\ Len(f) = L + 1 /\ f[1] = Minus /\ \A x \in 1 .. L : f[x + 1] = b[x]
      <4>1. /\ s \o b \in Seq(Byte) /\ Len(s \o b) = Len(s) + Len(b)
            /\ \A x \in 1 .. Len(s) : (s \o b)[x] = s[x]
            /\ \A x \in 1 .. Len(b) : (s \o b)[Len(s) + x] = b[x]
        BY <3>2, BytesAfter
      <4>2. 1 \in 1 .. Len(s) /\ 1 + L = L + 1 /\ \A x \in 1 .. L : 1 + x = x + 1 BY <3>2
      <4> QED BY <1>1, <3>2, <4>1, <4>2
    <3>4. f # <<>> /\ IsSign(f[1])
      <4>1. Len(f) # 0 BY <3>3
      <4> QED BY <3>3, <4>1, EmptySeq DEF IsSign
    <3>5. Unsigned(f) = b
      <4>1. PICK q : q = Unsigned(f) OBVIOUS
      <4>2. q \in Seq(Byte) /\ Len(f) = Len(q) + 1 /\ \A x \in 1 .. Len(q) : q[x] = f[x + 1]
        <5>1. /\ q \in Seq(Byte)
              /\ \/ f # <<>> /\ IsSign(f[1]) /\ q = Tail(f) /\ Len(f) = Len(q) + 1
                    /\ \A x \in 1 .. Len(q) : q[x] = f[x + 1]
                 \/ ~(f # <<>> /\ IsSign(f[1])) /\ q = f
          <6>1. f \in Seq(Byte) BY <3>3
          <6> QED BY <4>1, <6>1, UnsignedIs
        <5> QED BY <3>4, <5>1
      <4>3. Len(q) = L
        <5>1. Len(q) \in Nat BY <4>2, LenProperties
        <5> QED BY <3>3, <4>2, <5>1
      <4>4. \A x \in 1 .. L : q[x] = b[x] BY <3>3, <4>2, <4>3
      <4> QED BY <1>1, <4>1, <4>2, <4>3, <4>4, SeqEqual
    <3>6. Negative(f) = neg BY <2>1, <3>3, <3>4 DEF Negative
    <3>7. DOMAIN f = 1 .. L + 1 BY <3>3, LenProperties
    <3>8. ASSUME NEW x \in 1 .. L + 1 PROVE f[x] \notin ExpMark
      <4>1. CASE x = 1 BY <3>3, <4>1 DEF Minus, ExpMark
      <4>2. CASE x # 1
        <5>1. PICK y : y = x - 1 OBVIOUS
        <5>2. y \in 1 .. L /\ y + 1 = x BY <4>2, <5>1
        <5>3. f[y + 1] = b[y] /\ b[y] \notin ExpMark BY <1>1, <3>3, <5>2
        <5> QED BY <5>2, <5>3
      <4> QED BY <4>1, <4>2
    <3> QED BY <3>3, <3>5, <3>6, <3>7, <3>8
  <2>2. CASE ~neg
    <3>1. f = b BY <2>2, ConcatEmptySeq DEF SignOf
    <3>2. Unsigned(f) = b BY <3>1 DEF Unsigned
    <3>3. Negative(f) = FALSE BY <3>1 DEF Negative, IsSign
    <3>4. Negative(f) = neg BY <2>2, <3>3
    <3>5. /\ Len(f) \in Nat /\ DOMAIN f = 1 .. Len(f) /\ L <= Len(f) /\ f \in Seq(Byte)
          /\ \A x \in DOMAIN f : f[x] \notin ExpMark
      BY <1>1, <3>1
    <3> QED BY <3>2, <3>4, <3>5
  <2> QED BY <2>1, <2>2
<1>3. /\ n.m = b /\ n.e = <<>> /\ n.marked = FALSE /\ n.neg = neg /\ n.negExp = FALSE
  <2>1. PICK h : h = Halves(f, {i \in DOMAIN f : f[i] \in ExpMark}) OBVIOUS
  <2>2. {i \in DOMAIN f : f[i] \in ExpMark} = {} BY <1>2
  <2>3. h.mant = f /\ h.exp = <<>> /\ h.marked = FALSE BY <2>1, <2>2 DEF Halves
  <2>4. n = Parts(h) BY <2>1, Zenon DEF PartsOf
  <2>5. Unsigned(<<>>) = <<>> /\ Negative(<<>>) = FALSE BY DEF Unsigned, Negative
  <2> QED BY <1>2, <2>3, <2>4, <2>5 DEF Parts
<1>4. IsNumeral(n) BY <1>3 DEF IsNumeral
<1>5. Readable(n)
  <2>1. PICK S : S = {i \in DOMAIN b : IsDigit(b[i]) /\ \E j \in 1 .. i : b[j] \in Zero + 1 .. Nine}
    OBVIOUS
  <2>2. S \in SUBSET (0 + 1 .. L) /\ IsFiniteSet(0 + 1 .. L) /\ Cardinality(0 + 1 .. L) = L - 0
    <3>1. S \in SUBSET (0 + 1 .. L) BY <1>1, <2>1
    <3>2. 0 \in Nat /\ 0 <= L BY <1>1
    <3> QED BY <3>1, <3>2, Span
  <2>3. IsFiniteSet(S) /\ Cardinality(S) <= L - 0
    <3>1. PICK T : T = 0 + 1 .. L OBVIOUS
    <3>2. S \in SUBSET T /\ IsFiniteSet(T) /\ Cardinality(T) = L - 0 BY <2>2, <3>1
    <3>3. IsFiniteSet(S) /\ Cardinality(S) <= Cardinality(T) BY <3>2, FS_Subset
    <3> QED BY <3>2, <3>3
  <2>4. Cardinality(S) <= Scratch
    <3>1. Cardinality(S) \in Nat BY <2>3, FS_CardinalityType
    <3> QED BY <1>1, <1>2, <2>3, <3>1, ValuesAssumption
  <2> QED BY <1>3, <2>1, <2>4 DEF Readable
<1>6. NumberIn(n) = SignedDigits(neg, DigitsAt(b, 0 - AfterPoint(b)))
  <2>1. NumberOf(<<>>) = 0
    <3>1. PICK z \in Seq(Byte) : z = <<>> /\ Len(z) = 0 BY ByteSeqs
    <3> QED BY <3>1, NumberOfIs
  <2>2. (IF n.negExp THEN -1 ELSE 1) * NumberOf(n.e) = 0 BY <1>3, <2>1
  <2>3. NumberIn(n) = SignedDigits(n.neg, DigitsAt(n.m, (IF n.negExp THEN -1 ELSE 1) * NumberOf(n.e) - AfterPoint(n.m)))
    BY DEF NumberIn
  <2> QED BY <1>3, <2>2, <2>3
<1> QED BY <1>4, <1>5, <1>6

\* So a form is a number, and the one it was made for.
LEMMA ReadBack ==
  ASSUME NEW neg \in BOOLEAN, NEW d, Significant(d), NEW point \in Int, NEW f, f = Plainly(neg, d, point),
         Len(f) <= Scratch
  PROVE  Value(f) = SignedDigits(neg, Standing(d, point))
<1>1. PICK n : n = PartsOf(f) OBVIOUS
<1>2. Len(f) = PlainLength(SignedDigits(neg, Standing(d, point))) BY PlainlyIs
<1>3. IsNumeral(n) /\ Readable(n) /\ NumberIn(n) = SignedDigits(neg, Standing(d, point))
  <2>1. CASE d = <<>>
    <3>1. PICK b : b = <<Zero>> OBVIOUS
    <3>2. b \in Seq(Byte) /\ Len(b) = 1 /\ b[1] = Zero /\ DOMAIN b = {1} BY <3>1, ByteSeqs
    <3>3. f = SignOf(FALSE) \o b
      <4>1. f = b BY <2>1, <3>1 DEF Plainly
      <4> QED BY <3>2, <4>1, ConcatEmptySeq DEF SignOf
    <3>4. IsDigit(Zero) /\ ~IsSign(Zero) /\ Zero \notin ExpMark /\ Zero # Point
      BY DEF IsDigit, IsSign, Digits, Zero, Nine, Plus, Minus, Point, ExpMark
    <3>5. IsNumeral(n) /\ Readable(n)
          /\ NumberIn(n) = SignedDigits(FALSE, DigitsAt(b, 0 - AfterPoint(b)))
      <4>1. FALSE \in BOOLEAN /\ Len(b) >= 1 /\ ~IsSign(b[1]) BY <3>2, <3>4
      <4>2. /\ \A i \in DOMAIN b : (IsDigit(b[i]) \/ b[i] = Point) /\ b[i] \notin ExpMark
            /\ \E i \in DOMAIN b : IsDigit(b[i])
            /\ \A i, j \in DOMAIN b : b[i] = Point /\ b[j] = Point => i = j
        BY <3>2, <3>4
      <4> QED BY <1>1, <3>2, <3>3, <4>1, <4>2, SignedNumeral
    <3>6. DigitsAt(b, 0 - AfterPoint(b)) = {}
      <4>1. {j \in DOMAIN b : b[j] \in Zero + 1 .. Nine} = {} BY <3>2 DEF Zero, Nine
      <4> QED BY <4>1 DEF DigitsAt
    <3>7. Standing(d, point) = {} BY <2>1, StandingSome
    <3>8. SignedDigits(FALSE, {}) = SignedDigits(neg, {}) BY DEF SignedDigits
    <3> QED BY <3>5, <3>6, <3>7, <3>8
  <2>2. CASE d # <<>>
    <3>1. PICK b, P : f = SignOf(neg) \o b /\ Laid(b, d, point, P) BY <2>2, PlainlyIs
    <3>2. Len(d) # 0 BY <2>2, StandingSome
    <3>3. /\ b \in Seq(Byte) /\ Len(b) >= 1 /\ ~IsSign(b[1])
          /\ \A i \in DOMAIN b : (IsDigit(b[i]) \/ b[i] = Point) /\ b[i] \notin ExpMark
          /\ \E i \in DOMAIN b : IsDigit(b[i])
          /\ \A i, j \in DOMAIN b : b[i] = Point /\ b[j] = Point => i = j
          /\ DigitsAt(b, 0 - AfterPoint(b)) = Standing(d, point)
      BY <3>1, <3>2, LaidReads
    <3>4. IsNumeral(n) /\ Readable(n)
          /\ NumberIn(n) = SignedDigits(neg, DigitsAt(b, 0 - AfterPoint(b)))
      BY <1>1, <3>1, <3>3, SignedNumeral
    <3> QED BY <3>3, <3>4
  <2> QED BY <2>1, <2>2
<1>4. PlainLength(NumberIn(n)) <= Scratch BY <1>2, <1>3
<1>5. Value(f) = NumberIn(n) BY <1>1, <1>3, <1>4 DEF Value, NumberOrNot
<1> QED BY <1>3, <1>5

\* A text has a form when and only when it has a value, which is the form's as well.
LEMMA FormTells ==
  ASSUME NEW p \in Seq(Byte), NEW c, c = CanonicalDecimal(p)
  PROVE  \/ c = Declined /\ Value(p) = NotANumber
         \/ /\ c # Declined /\ c \in Seq(Byte) /\ Value(p) # NotANumber /\ Value(c) = Value(p)
            /\ \E neg \in BOOLEAN, d \in Seq(Byte), point \in Int :
                 /\ Significant(d) /\ Value(p) = SignedDigits(neg, Standing(d, point))
                 /\ c = Plainly(neg, d, point)
<1>1. PICK n : n = PartsOf(p) OBVIOUS
<1>2. Value(p) = IF IsNumeral(n) /\ Readable(n) /\ PlainLength(NumberIn(n)) <= Scratch
                 THEN NumberIn(n) ELSE NotANumber
  BY <1>1 DEF Value, NumberOrNot
<1>3. CASE ~(IsNumeral(n) /\ Readable(n))
  <2>1. c = Declined BY <1>1, <1>3, ScanTells
  <2> QED BY <1>2, <1>3, <2>1
<1>4. CASE IsNumeral(n) /\ Readable(n)
  <2>1. PICK d, point : Reads(p, d, point) /\ CanonicalDecimal(p) = Fitting(Plainly(Negative(p), d, point))
    BY <1>1, <1>4, ScanTells
  <2>2. PICK neg : neg = Negative(p) OBVIOUS
  <2>3. neg \in BOOLEAN BY <2>2 DEF Negative
  <2>4. Significant(d) /\ point \in Int /\ NumberIn(n) = SignedDigits(neg, Standing(d, point))
    BY <1>1, <2>1, <2>2 DEF Reads
  <2>5. PICK f : f = Plainly(neg, d, point) OBVIOUS
  <2>6. f \in Seq(Byte) /\ Len(f) = PlainLength(NumberIn(n)) BY <2>3, <2>4, <2>5, PlainlyIs
  <2>7. c = Fitting(f) BY <2>1, <2>2, <2>5
  <2>8. Len(f) \in Nat /\ (Len(f) > Scratch <=> ~(Len(f) <= Scratch))
    <3>1. Len(f) \in Nat BY <2>6, LenProperties
    <3> QED BY <3>1, ValuesAssumption
  <2>9. CASE Len(f) > Scratch
    <3>1. c = Declined BY <2>7, <2>9 DEF Fitting
    <3>2. Value(p) = NotANumber BY <1>2, <2>6, <2>8, <2>9
    <3> QED BY <3>1, <3>2
  <2>10. CASE ~(Len(f) > Scratch)
    <3>1. c = f BY <2>7, <2>10 DEF Fitting
    <3>2. Value(p) = NumberIn(n) BY <1>2, <1>4, <2>6, <2>8, <2>10
    <3>3. Value(f) = SignedDigits(neg, Standing(d, point))
      BY <2>3, <2>4, <2>5, <2>8, <2>10, ReadBack
    <3>4. c # Declined BY <2>6, <3>1, ValuesAssumption
    <3>5. Value(p) # NotANumber BY <2>4, <3>2, NumbersApart
    <3>6. Value(c) = Value(p) /\ c \in Seq(Byte) BY <2>4, <2>6, <3>1, <3>2, <3>3
    <3>7. Value(p) = SignedDigits(neg, Standing(d, point)) /\ c = Plainly(neg, d, point)
      BY <2>4, <2>5, <3>1, <3>2
    <3>8. \E s \in BOOLEAN, e \in Seq(Byte), x \in Int :
            /\ Significant(e) /\ Value(p) = SignedDigits(s, Standing(e, x))
            /\ c = Plainly(s, e, x)
      <4>1. d \in Seq(Byte) BY <2>4 DEF Significant
      <4> QED BY <2>3, <2>4, <3>7, <4>1, Zenon
    <3> QED BY <3>4, <3>5, <3>6, <3>8
  <2> QED BY <2>9, <2>10
<1> QED BY <1>3, <1>4

\* One number has one form.
LEMMA OneForm ==
  ASSUME NEW neg \in BOOLEAN, NEW d, Significant(d), NEW point \in Int,
         NEW opp \in BOOLEAN, NEW e, Significant(e), NEW other \in Int,
         SignedDigits(neg, Standing(d, point)) = SignedDigits(opp, Standing(e, other))
  PROVE  Plainly(neg, d, point) = Plainly(opp, e, other)
<1>1. Standing(d, point) = Standing(e, other)
  <2>1. SignedDigits(neg, Standing(d, point)).digits = Standing(d, point)
        /\ SignedDigits(opp, Standing(e, other)).digits = Standing(e, other)
    BY SignIs
  <2> QED BY <2>1
<1>2. (neg /\ Standing(d, point) # {}) = (opp /\ Standing(e, other) # {})
  <2>1. SignedDigits(neg, Standing(d, point)).neg = (neg /\ Standing(d, point) # {})
        /\ SignedDigits(opp, Standing(e, other)).neg = (opp /\ Standing(e, other) # {})
    BY SignIs
  <2> QED BY <2>1
<1>3. CASE d = <<>>
  <2>1. e = <<>> BY <1>1, <1>3, StandingSome
  <2> QED BY <1>3, <2>1 DEF Plainly
<1>4. CASE d # <<>>
  <2>1. Len(d) # 0 /\ Standing(d, point) # {} BY <1>4, StandingSome
  <2>2. d = e /\ point = other BY <1>1, <2>1, StandingDetermines
  <2>3. neg = opp BY <1>1, <1>2, <2>1
  <2> QED BY <2>2, <2>3
<1> QED BY <1>3, <1>4

\* What a numeric cell is compared as: its form, or its bytes.
Compared(p) == IF CanonicalDecimal(p) = Declined THEN p ELSE CanonicalDecimal(p)

\* It is the same for two texts when and only when they are the same number, or the same
\* bytes where one of them is none.
LEMMA ComparedAsNumbers ==
  ASSUME NEW p \in Seq(Byte), NEW q \in Seq(Byte)
  PROVE  Compared(p) = Compared(q) <=> SameAsNumbers(p, q, Value(p), Value(q))
<1>1. PICK c, e : c = CanonicalDecimal(p) /\ e = CanonicalDecimal(q) OBVIOUS
<1>2. \/ c = Declined /\ Value(p) = NotANumber
      \/ /\ c # Declined /\ c \in Seq(Byte) /\ Value(p) # NotANumber /\ Value(c) = Value(p)
         /\ \E neg \in BOOLEAN, d \in Seq(Byte), point \in Int :
              /\ Significant(d) /\ Value(p) = SignedDigits(neg, Standing(d, point))
              /\ c = Plainly(neg, d, point)
  BY <1>1, FormTells
<1>3. \/ e = Declined /\ Value(q) = NotANumber
      \/ /\ e # Declined /\ e \in Seq(Byte) /\ Value(q) # NotANumber /\ Value(e) = Value(q)
         /\ \E neg \in BOOLEAN, d \in Seq(Byte), point \in Int :
              /\ Significant(d) /\ Value(q) = SignedDigits(neg, Standing(d, point))
              /\ e = Plainly(neg, d, point)
  BY <1>1, FormTells
<1>4. Compared(p) = (IF c = Declined THEN p ELSE c) /\ Compared(q) = IF e = Declined THEN q ELSE e
  BY <1>1 DEF Compared
<1>5. CASE c = Declined /\ e = Declined
  <2>1. Value(p) = NotANumber BY <1>2, <1>5
  <2> QED BY <1>4, <1>5, <2>1 DEF SameAsNumbers
<1>6. CASE c = Declined /\ e # Declined
  <2>1. Value(p) = NotANumber /\ Value(q) # NotANumber /\ Value(e) = Value(q) BY <1>2, <1>3, <1>6
  <2>2. p # e /\ p # q BY <2>1
  <2> QED BY <1>4, <1>6, <2>1, <2>2 DEF SameAsNumbers
<1>7. CASE c # Declined /\ e = Declined
  <2>1. Value(q) = NotANumber /\ Value(p) # NotANumber /\ Value(c) = Value(p) BY <1>2, <1>3, <1>7
  <2>2. q # c /\ p # q BY <2>1
  <2> QED BY <1>4, <1>7, <2>1, <2>2 DEF SameAsNumbers
<1>8. CASE c # Declined /\ e # Declined
  <2>1. /\ Value(p) # NotANumber /\ Value(c) = Value(p)
        /\ Value(q) # NotANumber /\ Value(e) = Value(q)
    BY <1>2, <1>3, <1>8
  <2>2. c = e => Value(p) = Value(q) BY <2>1
  <2>3. ASSUME Value(p) = Value(q) PROVE c = e
    <3>1. PICK neg \in BOOLEAN, d \in Seq(Byte), point \in Int :
            /\ Significant(d) /\ Value(p) = SignedDigits(neg, Standing(d, point))
            /\ c = Plainly(neg, d, point)
      BY <1>2, <1>8
    <3>2. PICK opp \in BOOLEAN, f \in Seq(Byte), other \in Int :
            /\ Significant(f) /\ Value(q) = SignedDigits(opp, Standing(f, other))
            /\ e = Plainly(opp, f, other)
      BY <1>3, <1>8
    <3>3. SignedDigits(neg, Standing(d, point)) = SignedDigits(opp, Standing(f, other))
      BY <2>3, <3>1, <3>2
    <3> QED BY <3>1, <3>2, <3>3, OneForm
  <2>4. SameAsNumbers(p, q, Value(p), Value(q)) <=> Value(p) = Value(q) BY <2>1 DEF SameAsNumbers
  <2> QED BY <1>4, <1>8, <2>2, <2>3, <2>4
<1> QED BY <1>5, <1>6, <1>7, <1>8

-----------------------------------------------------------------------------
(* What a cell is found to be: validate.c.                                 *)

\* The characters of a text: its bytes but for the ones that continue a character.
Chars(text) == Cardinality({i \in DOMAIN text : ~IsContinuation(text[i])})

\* One more with one more byte before it, unless that one continues.
LEMMA CharsHeaded ==
  ASSUME NEW x \in Byte, NEW a \in Seq(Byte), NEW A, Headed(A, x, a)
  PROVE  Chars(a) \in Nat /\ Chars(A) = Chars(a) + (IF IsContinuation(x) THEN 0 ELSE 1)
<1> DEFINE S == {i \in DOMAIN a : ~IsContinuation(a[i])}
           T == {i \in DOMAIN A : ~IsContinuation(A[i])}
           U == T \ {1}
<1>1. /\ Len(a) \in Nat /\ Len(A) = Len(a) + 1 /\ DOMAIN a = 1 .. Len(a) /\ DOMAIN A = 1 .. Len(A)
      /\ A[1] = x /\ \A k \in 1 .. Len(a) : A[k + 1] = a[k]
  BY LenProperties DEF Headed
<1>2. IsFiniteSet(S) /\ IsFiniteSet(T)
  <2>1. IsFiniteSet(1 .. Len(a)) /\ IsFiniteSet(1 .. Len(A)) BY <1>1, FS_Interval
  <2>2. S \subseteq 1 .. Len(a) /\ T \subseteq 1 .. Len(A) BY <1>1
  <2> HIDE DEF S, T
  <2> QED BY <2>1, <2>2, FS_Subset
<1>3. PICK n \in Nat : n = Len(a) BY <1>1
<1>4. Cardinality(U) = Cardinality(S)
  <2>1. \A i \in S : i \in 1 .. n /\ i + 1 \in U
    <3> SUFFICES ASSUME NEW i \in S PROVE i \in 1 .. n /\ i + 1 \in U OBVIOUS
    <3>1. i \in 1 .. n /\ i + 1 \in 1 .. n + 1 /\ i + 1 # 1 /\ A[i + 1] = a[i] BY <1>1, <1>3
    <3> QED BY <1>1, <1>3, <3>1
  <2>2. \A u \in U : u \in 2 .. n + 1 /\ u - 1 \in S
    <3> SUFFICES ASSUME NEW u \in U PROVE u \in 2 .. n + 1 /\ u - 1 \in S OBVIOUS
    <3>1. u \in 2 .. n + 1 /\ u - 1 \in 1 .. n /\ (u - 1) + 1 = u BY <1>1, <1>3
    <3>2. A[u] = a[u - 1] BY <1>1, <1>3, <3>1
    <3> QED BY <1>1, <1>3, <3>1, <3>2
  <2> DEFINE f == [i \in S |-> i + 1]
  <2>3. f \in Bijection(S, U)
    <3>1. \A i \in S : f[i] = i + 1 OBVIOUS
    <3>2. f \in [S -> U] BY <2>1
    <3>3. \A i, j \in S : f[i] = f[j] => i = j
      <4> SUFFICES ASSUME NEW i \in S, NEW j \in S, f[i] = f[j] PROVE i = j OBVIOUS
      <4>1. i \in 1 .. n /\ j \in 1 .. n /\ i + 1 = j + 1 BY <2>1, <3>1
      <4> QED BY <4>1
    <3>4. \A u \in U : \E i \in S : f[i] = u
      <4> SUFFICES ASSUME NEW u \in U PROVE \E i \in S : f[i] = u OBVIOUS
      <4>1. u \in 2 .. n + 1 /\ u - 1 \in S BY <2>2
      <4>2. f[u - 1] = (u - 1) + 1 BY <3>1, <4>1
      <4>3. (u - 1) + 1 = u BY <4>1
      <4> QED BY <4>1, <4>2, <4>3
    <3> HIDE DEF f, S, U
    <3> QED BY <3>2, <3>3, <3>4 DEF Bijection, Injection, IsInjective, Surjection
  <2> HIDE DEF f, S, U
  <2> QED BY <1>2, <2>3, FS_Bijection DEF ExistsBijection
<1>5. Cardinality(S) \in Nat /\ Cardinality(T) \in Nat
  <2> HIDE DEF S, T
  <2> QED BY <1>2, FS_CardinalityType
<1>6. Chars(A) = Cardinality(T) /\ Chars(a) = Cardinality(S) BY DEF Chars
<1>7. (1 \in T <=> ~IsContinuation(x)) /\ (1 \notin T => U = T)
  <2>1. 1 \in 1 .. Len(A) BY <1>1
  <2> QED BY <1>1, <2>1
<1>8. 1 \in T => Cardinality(U) = Cardinality(T) - 1
  <2> HIDE DEF T
  <2> QED BY <1>2, FS_RemoveElement
<1> HIDE DEF S, T, U
<1>9. Cardinality(T) = Cardinality(S) + (IF IsContinuation(x) THEN 0 ELSE 1)
  BY <1>4, <1>5, <1>7, <1>8
<1> QED BY <1>5, <1>6, <1>9

\* The empty text has none.
LEMMA CharsNone == Chars(<<>>) = 0
<1>1. {i \in DOMAIN <<>> : ~IsContinuation(<<>>[i])} = {} OBVIOUS
<1> QED BY <1>1, FS_EmptySet DEF Chars

\* A range's characters are those of the text it stands for.
LEMMA CharCountIs ==
  ASSUME NEW f, IsField(f)
  PROVE  CharCount(f) = Chars(Logical(f))
<1>0. PICK L : Copies(f, L) /\ Logical(f) = L[1] BY LogicalIs
<1> DEFINE n == Len(f.raw) + 1
           W(b) == IF b \in 128 .. 191 THEN 0 ELSE 1
           Body(g, i) == IF i > Len(f.raw) THEN 0 ELSE W(f.raw[i]) + g[Onward(f, i)]
           N == [i \in 1 .. n |-> Chars(L[i])]
<1>1. Len(f.raw) \in Nat /\ n \in Nat /\ \A i \in 1 .. Len(f.raw) : f.raw[i] \in Byte
  BY LenProperties, ElementOfSeq DEF IsField
<1>2. \A i \in 1 .. n : L[i] \in Seq(Byte) BY <1>0 DEF Copies
<1>3. ASSUME NEW i \in 1 .. n
      PROVE  Chars(L[i]) = IF i > Len(f.raw) THEN 0 ELSE W(f.raw[i]) + Chars(L[Onward(f, i)])
  <2>1. CASE i > Len(f.raw)
    <3>1. i = Len(f.raw) + 1 BY <1>1, <2>1
    <3>2. L[i] = <<>> BY <1>0, <3>1 DEF Copies
    <3> QED BY <2>1, <3>2, CharsNone
  <2>2. CASE ~(i > Len(f.raw))
    <3>1. i \in 1 .. Len(f.raw) BY <1>1, <2>2
    <3>2. Onward(f, i) \in 1 .. n BY <1>1, <3>1, OnwardIs
    <3>3. PICK x, s : x = f.raw[i] /\ s = L[Onward(f, i)] /\ L[i] = <<x>> \o s
      BY <1>0, <3>1 DEF Copies
    <3>4. x \in Byte /\ s \in Seq(Byte) BY <1>1, <1>2, <3>1, <3>2, <3>3
    <3>5. Headed(L[i], x, s) BY <3>3, <3>4, HeadedIs
    <3>6. Chars(s) \in Nat /\ Chars(L[i]) = Chars(s) + (IF IsContinuation(x) THEN 0 ELSE 1)
      BY <3>4, <3>5, CharsHeaded
    <3>7. W(x) = (IF IsContinuation(x) THEN 0 ELSE 1) /\ W(x) \in {0, 1} BY DEF IsContinuation
    <3> HIDE DEF W
    <3>8. Chars(L[i]) = W(x) + Chars(s) BY <3>6, <3>7
    <3> QED BY <2>2, <3>3, <3>8
  <2> QED BY <2>1, <2>2
<1> HIDE DEF W
<1>4. N = [i \in 1 .. n |-> Body(N, i)]
  <2>1. \A i \in 1 .. n : ~(i > Len(f.raw)) => Onward(f, i) \in 1 .. n
    <3>1. \A i \in 1 .. n : ~(i > Len(f.raw)) => i \in 1 .. Len(f.raw) BY <1>1
    <3> QED BY <1>1, <3>1, OnwardIs
  <2>2. \A i \in 1 .. n : N[i] = Chars(L[i]) OBVIOUS
  <2>3. \A i \in 1 .. n : Chars(L[i]) = Body(N, i)
    <3> HIDE DEF N, n
    <3> QED BY <1>3, <2>1, <2>2
  <2> HIDE DEF Body
  <2> QED BY <2>3
<1>5. PICK g : g = [i \in 1 .. Len(f.raw) + 1 |-> Body(g, i)] /\ CharCount(f) = g[1]
  <2>1. \E g : g = [i \in 1 .. Len(f.raw) + 1 |-> Body(g, i)]
    <3> HIDE DEF Body
    <3> QED BY <1>4
  <2> QED BY <2>1, Zenon DEF CharCount, W
<1>6. \A i \in 1 .. n : g[i] = Body(g, i)
  <2> HIDE DEF Body
  <2> QED BY <1>5
<1> DEFINE S == {i \in 1 .. n : g[i] = Chars(L[i])}
<1>7. ASSUME NEW i \in 1 .. n, \A j \in i + 1 .. n : j \in S PROVE i \in S
  <2>1. g[i] = Body(g, i) BY <1>6
  <2>2. CASE i > Len(f.raw) BY <1>3, <2>1, <2>2
  <2>3. CASE ~(i > Len(f.raw))
    <3>1. i \in 1 .. Len(f.raw) BY <1>1, <2>3
    <3>2. g[Onward(f, i)] = Chars(L[Onward(f, i)]) BY <1>7, <3>1, OnwardIs
    <3> QED BY <1>3, <2>1, <2>3, <3>2
  <2> QED BY <2>2, <2>3
<1>8. 1 .. n \subseteq S
  <2> HIDE DEF S, n
  <2> QED BY <1>1, <1>7, Downwards
<1>9. 1 \in 1 .. n BY <1>1
<1> QED BY <1>0, <1>5, <1>8, <1>9

\* Where a text begins and ends when the padding is left off.
Bounds(p, a, b) ==
  /\ a \in 1 .. Len(p) + 1 /\ b \in a - 1 .. Len(p)
  /\ \A x \in 1 .. a - 1 : p[x] \in Pads
  /\ a = Len(p) + 1 \/ p[a] \notin Pads
  /\ b = a - 1 \/ p[b] \notin Pads
  /\ \A x \in b + 1 .. Len(p) : p[x] \in Pads

\* There is one place for each.
LEMMA OneBound ==
  ASSUME NEW p \in Seq(Byte), NEW a, NEW b, NEW c, NEW d, Bounds(p, a, b), Bounds(p, c, d)
  PROVE  a = c /\ b = d
<1>1. PICK n \in Nat : n = Len(p) BY LenProperties
<1>2. /\ a \in 1 .. n + 1 /\ b \in a - 1 .. n /\ \A x \in 1 .. a - 1 : p[x] \in Pads
      /\ a = n + 1 \/ p[a] \notin Pads
      /\ b = a - 1 \/ p[b] \notin Pads
      /\ \A x \in b + 1 .. n : p[x] \in Pads
  BY <1>1 DEF Bounds
<1>3. /\ c \in 1 .. n + 1 /\ d \in c - 1 .. n /\ \A x \in 1 .. c - 1 : p[x] \in Pads
      /\ c = n + 1 \/ p[c] \notin Pads
      /\ d = c - 1 \/ p[d] \notin Pads
      /\ \A x \in d + 1 .. n : p[x] \in Pads
  BY <1>1 DEF Bounds
<1>4. a = c
  <2>1. ~(a < c)
    <3> SUFFICES ASSUME a < c PROVE FALSE OBVIOUS
    <3>1. a \in 1 .. c - 1 /\ a # n + 1 BY <1>2, <1>3
    <3> QED BY <1>2, <1>3, <3>1
  <2>2. ~(c < a)
    <3> SUFFICES ASSUME c < a PROVE FALSE OBVIOUS
    <3>1. c \in 1 .. a - 1 /\ c # n + 1 BY <1>2, <1>3
    <3> QED BY <1>2, <1>3, <3>1
  <2> QED BY <1>2, <1>3, <2>1, <2>2
<1>5. b = d
  <2>1. ~(b < d)
    <3> SUFFICES ASSUME b < d PROVE FALSE OBVIOUS
    <3>1. d \in b + 1 .. n /\ d # c - 1 BY <1>2, <1>3, <1>4
    <3> QED BY <1>2, <1>3, <3>1
  <2>2. ~(d < b)
    <3> SUFFICES ASSUME d < b PROVE FALSE OBVIOUS
    <3>1. b \in d + 1 .. n /\ b # a - 1 BY <1>2, <1>3, <1>4
    <3> QED BY <1>2, <1>3, <3>1
  <2> QED BY <1>2, <1>3, <2>1, <2>2
<1> QED BY <1>4, <1>5

\* Trimming at both ends takes what is between them.
LEMMA TrimmedTells ==
  ASSUME NEW p \in Seq(Byte)
  PROVE  \E a, b : Bounds(p, a, b) /\ Trimmed(p, TRUE, TRUE) = Part(p, a, b)
<1> DEFINE first == PastRun(p, 1, Pads)
           Ends(k) == /\ k = first - 1 \/ p[k] \notin Pads
                      /\ \A x \in k + 1 .. Len(p) : p[x] \in Pads
           last == CHOOSE k \in first - 1 .. Len(p) : Ends(k)
<1>1. Len(p) \in Nat BY LenProperties
<1>2. /\ first \in 1 .. Len(p) + 1 /\ \A x \in 1 .. first - 1 : p[x] \in Pads
      /\ first = Len(p) + 1 \/ p[first] \notin Pads
  <2>1. 1 \in 1 .. Len(p) + 1 BY <1>1
  <2> QED BY <2>1, PastRunIs
<1>3. Trimmed(p, TRUE, TRUE) = Part(p, first, last) BY DEF Trimmed
<1> HIDE DEF first
<1>4. \E k \in first - 1 .. Len(p) : Ends(k)
  <2> DEFINE T == {k \in 0 .. Len(p) : k >= first - 1 /\ (k = first - 1 \/ p[k] \notin Pads)}
  <2>1. first - 1 \in T /\ T \in SUBSET (0 .. Len(p)) BY <1>1, <1>2
  <2>2. PICK k \in T : \A y \in T : y <= k
    <3> HIDE DEF T
    <3> QED BY <1>1, <2>1, GreatestElement
  <2>3. \A x \in k + 1 .. Len(p) : p[x] \in Pads
    <3> SUFFICES ASSUME NEW x \in k + 1 .. Len(p), p[x] \notin Pads PROVE FALSE OBVIOUS
    <3>1. x \in T BY <1>1, <1>2, <2>2
    <3> QED BY <1>1, <2>2, <3>1
  <2>4. k \in first - 1 .. Len(p) /\ (k = first - 1 \/ p[k] \notin Pads) BY <1>1, <1>2, <2>2
  <2> QED BY <2>3, <2>4
<1>5. last \in first - 1 .. Len(p) /\ Ends(last)
  <2> HIDE DEF Ends
  <2> QED BY <1>4
<1> HIDE DEF last
<1>6. Bounds(p, first, last) BY <1>2, <1>5 DEF Bounds
<1> QED BY <1>3, <1>6

\* The positions of a range rise with those of the text it stands for, by one over padding.
LEMMA StandsRising ==
  ASSUME NEW f, IsField(f), NEW text \in Seq(Byte), NEW P, Stands(f, text, P)
  PROVE  /\ \A j \in 0 .. Len(text) : P[j] \in 1 .. Len(f.raw) + 1
         /\ \A k \in 1 .. Len(text) :
              /\ P[k - 1] \in 1 .. Len(f.raw) /\ f.raw[P[k - 1]] = text[k] /\ P[k] >= P[k - 1] + 1
              /\ text[k] \in Pads => P[k] = P[k - 1] + 1
              /\ \/ P[k] = P[k - 1] + 1 /\ ~(f.esc /\ PairAt(f.raw, P[k - 1]))
                 \/ P[k] = P[k - 1] + 2 /\ f.esc /\ PairAt(f.raw, P[k - 1])
         /\ \A i, j \in 0 .. Len(text) : i <= j => P[i] <= P[j]
<1>1. PICK n \in Nat, m \in Nat : n = Len(text) /\ m = Len(f.raw) BY LenProperties DEF IsField
<1>2. P \in [0 .. n -> Nat] /\ P[0] = 1 /\ P[n] = m + 1 BY <1>1 DEF Stands
<1>3. ASSUME NEW k \in 1 .. n
      PROVE  /\ P[k - 1] \in 1 .. m /\ f.raw[P[k - 1]] = text[k] /\ P[k] >= P[k - 1] + 1
             /\ text[k] \in Pads => P[k] = P[k - 1] + 1
             /\ \/ P[k] = P[k - 1] + 1 /\ ~(f.esc /\ PairAt(f.raw, P[k - 1]))
                \/ P[k] = P[k - 1] + 2 /\ f.esc /\ PairAt(f.raw, P[k - 1])
  <2>1. P[k - 1] \in 1 .. m /\ f.raw[P[k - 1]] = text[k] /\ Onward(f, P[k - 1]) = P[k]
    BY <1>1 DEF Stands
  <2>2. PICK x, y : x \in 1 .. m /\ x = P[k - 1] /\ y = P[k] BY <2>1
  <2>3. f.raw[x] = text[k] /\ y = Onward(f, x) BY <2>1, <2>2
  <2>4. \/ y = x + 1 /\ ~(f.esc /\ PairAt(f.raw, x))
        \/ y = x + 2 /\ f.esc /\ PairAt(f.raw, x)
    BY <2>3 DEF Onward
  <2>5. PairAt(f.raw, x) => text[k] = Quote BY <2>3 DEF PairAt
  <2>6. Quote \notin Pads BY DEF Quote, Pads
  <2>7. text[k] \in Pads => y = x + 1 BY <2>4, <2>5, <2>6
  <2>8. y >= x + 1 BY <2>2, <2>4
  <2> QED BY <2>2, <2>3, <2>4, <2>7, <2>8
<1>4. ASSUME NEW i \in 0 .. n PROVE \A j \in 0 .. n : i <= j => P[i] <= P[j]
  <2> DEFINE S == {j \in 0 .. n : i <= j => P[i] <= P[j]}
  <2>1. 0 \in S
    <3>1. i <= 0 => i = 0 OBVIOUS
    <3> QED BY <1>2, <3>1
  <2>2. ASSUME NEW j \in 0 .. n - 1, j \in S PROVE j + 1 \in S
    <3>1. j \in 0 .. n /\ j + 1 \in 0 .. n /\ j + 1 \in 1 .. n /\ (j + 1) - 1 = j OBVIOUS
    <3>2. PICK x, y, z : x = P[i] /\ y = P[j] /\ z = P[j + 1] OBVIOUS
    <3>3. x \in Nat /\ y \in Nat /\ z \in Nat BY <1>2, <3>1, <3>2
    <3>4. z >= y + 1 BY <1>3, <3>1, <3>2
    <3>5. i <= j => x <= y BY <2>2, <3>2
    <3>6. i <= j + 1 => x <= z
      <4>1. i <= j + 1 => i <= j \/ i = j + 1 BY <3>1
      <4>2. i = j + 1 => x = z BY <3>2
      <4> QED BY <3>3, <3>4, <3>5, <4>1, <4>2
    <3> QED BY <3>1, <3>2, <3>6
  <2>3. 0 .. n \subseteq S
    <3> HIDE DEF S
    <3> QED BY <2>1, <2>2, UpTo
  <2> QED BY <2>3
<1>5. ASSUME NEW j \in 0 .. n PROVE P[j] \in 1 .. m + 1
  <2>1. 0 \in 0 .. n /\ n \in 0 .. n /\ 0 <= j /\ j <= n OBVIOUS
  <2>2. P[0] <= P[j] /\ P[j] <= P[n] /\ P[j] \in Nat BY <1>2, <1>4, <2>1
  <2> QED BY <1>2, <2>2
<1> QED BY <1>1, <1>3, <1>4, <1>5

\* What is trimmed off a text is trimmed off its range, byte by byte.
LEMMA RangeBounds ==
  ASSUME NEW f, IsField(f), NEW text \in Seq(Byte), NEW P, Stands(f, text, P),
         NEW a, NEW b, Bounds(text, a, b)
  PROVE  P[a - 1] = a /\ Bounds(f.raw, a, P[b] - 1)
<1>1. PICK n \in Nat, m \in Nat : n = Len(text) /\ m = Len(f.raw) BY LenProperties DEF IsField
<1>2. /\ \A j \in 0 .. n : P[j] \in 1 .. m + 1
      /\ \A i, j \in 0 .. n : i <= j => P[i] <= P[j]
  BY <1>1, StandsRising
<1>3. \A k \in 1 .. n :
        /\ P[k - 1] \in 1 .. m /\ f.raw[P[k - 1]] = text[k] /\ P[k] >= P[k - 1] + 1
        /\ text[k] \in Pads => P[k] = P[k - 1] + 1
        /\ \/ P[k] = P[k - 1] + 1 /\ ~(f.esc /\ PairAt(f.raw, P[k - 1]))
           \/ P[k] = P[k - 1] + 2 /\ f.esc /\ PairAt(f.raw, P[k - 1])
  BY <1>1, StandsRising
<1>4. /\ a \in 1 .. n + 1 /\ b \in a - 1 .. n /\ \A x \in 1 .. a - 1 : text[x] \in Pads
      /\ a = n + 1 \/ text[a] \notin Pads
      /\ b = a - 1 \/ text[b] \notin Pads
      /\ \A x \in b + 1 .. n : text[x] \in Pads
  BY <1>1 DEF Bounds
<1>5. P[0] = 1 /\ P[n] = m + 1 BY <1>1 DEF Stands
<1>6. \A j \in 0 .. a - 1 : P[j] = j + 1
  <2> DEFINE S == {j \in 0 .. a - 1 : P[j] = j + 1}
  <2>1. a - 1 \in Nat /\ 0 \in S BY <1>4, <1>5
  <2>2. ASSUME NEW j \in 0 .. a - 1 - 1, j \in S PROVE j + 1 \in S
    <3>1. j + 1 \in 1 .. a - 1 /\ j + 1 \in 1 .. n /\ (j + 1) - 1 = j BY <1>4
    <3>2. P[j + 1] = P[j] + 1 BY <1>3, <1>4, <3>1
    <3>3. P[j + 1] = (j + 1) + 1 BY <2>2, <3>2
    <3> QED BY <3>1, <3>3
  <2>3. 0 .. a - 1 \subseteq S
    <3> HIDE DEF S
    <3> QED BY <2>1, <2>2, UpTo
  <2> QED BY <2>3
<1>7. \A i \in 1 .. n + 1 : i - 1 >= b => P[i - 1] = m - n + i
  <2> DEFINE S == {i \in 1 .. n + 1 : i - 1 >= b => P[i - 1] = m - n + i}
  <2>1. ASSUME NEW i \in 1 .. n + 1, \A j \in i + 1 .. n + 1 : j \in S PROVE i \in S
    <3>1. CASE i = n + 1
      <4>1. i - 1 = n /\ m - n + i = m + 1 BY <3>1
      <4> QED BY <1>5, <4>1
    <3>2. CASE i # n + 1
      <4> SUFFICES ASSUME i - 1 >= b PROVE P[i - 1] = m - n + i OBVIOUS
      <4>1. i \in 1 .. n /\ i + 1 \in i + 1 .. n + 1 /\ (i + 1) - 1 = i /\ i >= b /\ i \in b + 1 .. n
        BY <1>4, <3>2
      <4>2. P[i] = m - n + (i + 1) BY <2>1, <4>1
      <4>3. P[i] = P[i - 1] + 1 /\ P[i - 1] \in 1 .. m BY <1>3, <1>4, <4>1
      <4> QED BY <4>2, <4>3
    <3> QED BY <3>1, <3>2
  <2>2. 1 .. n + 1 \subseteq S
    <3>1. n + 1 \in Nat OBVIOUS
    <3> HIDE DEF S
    <3> QED BY <2>1, <3>1, Downwards
  <2> QED BY <2>2
<1>8. PICK e : e = P[b] - 1 OBVIOUS
<1>9. P[a - 1] = a /\ P[b] = e + 1 /\ e = m - n + b /\ e \in a - 1 .. m /\ a \in 1 .. m + 1
  <2>1. a - 1 \in 0 .. n /\ b \in 0 .. n /\ a - 1 <= b /\ a - 1 \in 0 .. a - 1 /\ (a - 1) + 1 = a
    BY <1>4
  <2>2. P[a - 1] = a BY <1>6, <2>1
  <2>3. b + 1 \in 1 .. n + 1 /\ (b + 1) - 1 = b /\ (b + 1) - 1 >= b BY <2>1
  <2>4. P[b] = m - n + (b + 1) BY <1>7, <2>3
  <2>5. P[b] \in 1 .. m + 1 /\ P[a - 1] <= P[b] /\ P[a - 1] \in 1 .. m + 1 BY <1>2, <2>1
  <2> QED BY <1>8, <2>1, <2>2, <2>4, <2>5
<1>10. \A x \in 1 .. a - 1 : f.raw[x] \in Pads
  <2> SUFFICES ASSUME NEW x \in 1 .. a - 1 PROVE f.raw[x] \in Pads OBVIOUS
  <2>1. x \in 1 .. n /\ x - 1 \in 0 .. a - 1 /\ (x - 1) + 1 = x BY <1>4
  <2>2. P[x - 1] = x /\ f.raw[P[x - 1]] = text[x] BY <1>3, <1>6, <2>1
  <2> QED BY <1>4, <2>2
<1>11. a = m + 1 \/ f.raw[a] \notin Pads
  <2>1. CASE a = n + 1
    <3>1. a - 1 = n BY <2>1
    <3> QED BY <1>5, <1>9, <3>1
  <2>2. CASE a # n + 1
    <3>1. a \in 1 .. n BY <1>4, <2>2
    <3>2. f.raw[a] = text[a] BY <1>3, <1>9, <3>1
    <3> QED BY <1>4, <2>2, <3>2
  <2> QED BY <2>1, <2>2
<1>12. e = a - 1 \/ f.raw[e] \notin Pads
  <2>1. CASE b = a - 1
    <3>1. a = e + 1 BY <1>9, <2>1
    <3> QED BY <1>4, <1>9, <3>1
  <2>2. CASE b # a - 1
    <3>1. b \in 1 .. n /\ text[b] \notin Pads BY <1>4, <2>2
    <3>2. PICK x \in 1 .. m : x = P[b - 1] BY <1>3, <3>1
    <3>3. f.raw[x] = text[b] /\ \/ P[b] = x + 1
                                \/ P[b] = x + 2 /\ PairAt(f.raw, x)
      BY <1>3, <3>1, <3>2
    <3>4. CASE P[b] = x + 1
      <4>1. e = x BY <1>9, <3>4
      <4> QED BY <3>1, <3>3, <4>1
    <3>5. CASE P[b] = x + 2 /\ PairAt(f.raw, x)
      <4>1. e = x + 1 BY <1>9, <3>5
      <4>2. f.raw[x + 1] = Quote BY <3>5 DEF PairAt
      <4>3. Quote \notin Pads BY DEF Quote, Pads
      <4> QED BY <4>1, <4>2, <4>3
    <3> QED BY <3>3, <3>4, <3>5
  <2> QED BY <2>1, <2>2
<1>13. \A x \in e + 1 .. m : f.raw[x] \in Pads
  <2> SUFFICES ASSUME NEW x \in e + 1 .. m PROVE f.raw[x] \in Pads OBVIOUS
  <2>1. PICK i : i = x - m + n OBVIOUS
  <2>2. i \in b + 1 .. n /\ i \in 1 .. n /\ i \in 1 .. n + 1 /\ i - 1 >= b /\ m - n + i = x
    BY <1>4, <1>9, <2>1
  <2>3. P[i - 1] = x BY <1>7, <2>2
  <2>4. f.raw[x] = text[i] BY <1>3, <2>2, <2>3
  <2> QED BY <1>4, <2>2, <2>4
<1>14. Bounds(f.raw, a, e) BY <1>1, <1>9, <1>10, <1>11, <1>12, <1>13 DEF Bounds
<1> QED BY <1>8, <1>9, <1>14

\* So the range without its padding stands for the text without its padding.
LEMMA TrimmedStands ==
  ASSUME NEW f, IsField(f), NEW text \in Seq(Byte), NEW P, Stands(f, text, P),
         NEW v, v = [raw |-> Trimmed(f.raw, TRUE, TRUE), esc |-> f.esc]
  PROVE  IsField(v) /\ Logical(v) = Trimmed(text, TRUE, TRUE)
<1>1. PICK n \in Nat, m \in Nat : n = Len(text) /\ m = Len(f.raw) /\ f.raw \in Seq(Byte)
  BY LenProperties DEF IsField
<1>2. PICK a, b : Bounds(text, a, b) /\ Trimmed(text, TRUE, TRUE) = Part(text, a, b) BY TrimmedTells
<1>3. PICK e : e = P[b] - 1 OBVIOUS
<1>4. P[a - 1] = a /\ Bounds(f.raw, a, e) BY <1>2, <1>3, RangeBounds
<1>5. Trimmed(f.raw, TRUE, TRUE) = Part(f.raw, a, e)
  <2>1. PICK c, d : Bounds(f.raw, c, d) /\ Trimmed(f.raw, TRUE, TRUE) = Part(f.raw, c, d)
    BY <1>1, TrimmedTells
  <2>2. c = a /\ d = e BY <1>1, <1>4, <2>1, OneBound
  <2> QED BY <2>1, <2>2
<1>6. /\ a \in 1 .. n + 1 /\ b \in a - 1 .. n /\ a \in 1 .. m + 1 /\ e \in a - 1 .. m
  BY <1>1, <1>2, <1>4 DEF Bounds
<1>7. PICK t, r : t = Part(text, a, b) /\ r = Part(f.raw, a, e) OBVIOUS
<1>8. /\ t \in Seq(Byte) /\ Len(t) = b - a + 1 /\ \A k \in 1 .. b - a + 1 : t[k] = text[a + k - 1]
  BY <1>1, <1>6, <1>7, PartIs
<1>9. /\ r \in Seq(Byte) /\ Len(r) = e - a + 1 /\ \A k \in 1 .. e - a + 1 : r[k] = f.raw[a + k - 1]
  BY <1>1, <1>6, <1>7, PartIs
<1>10. v.raw = r /\ v.esc = f.esc /\ IsField(v) BY <1>5, <1>7, <1>9 DEF IsField
<1>11. /\ \A j \in 0 .. n : P[j] \in 1 .. m + 1
       /\ \A i, j \in 0 .. n : i <= j => P[i] <= P[j]
  BY <1>1, StandsRising
<1>12. \A k \in 1 .. n :
        /\ P[k - 1] \in 1 .. m /\ f.raw[P[k - 1]] = text[k] /\ P[k] >= P[k - 1] + 1
        /\ \/ P[k] = P[k - 1] + 1 /\ ~(f.esc /\ PairAt(f.raw, P[k - 1]))
           \/ P[k] = P[k - 1] + 2 /\ f.esc /\ PairAt(f.raw, P[k - 1])
  BY <1>1, StandsRising
<1>13. PICK len \in Nat : len = b - a + 1 BY <1>6
<1>14. PICK Q : Q = [k \in 0 .. len |-> P[k + a - 1] - (a - 1)] OBVIOUS
<1>15. ASSUME NEW k \in 0 .. len
       PROVE  Q[k] = P[k + a - 1] - (a - 1) /\ Q[k] \in Nat /\ P[k + a - 1] \in a .. m + 1
  <2>1. k + a - 1 \in 0 .. n /\ a - 1 \in 0 .. n /\ a - 1 <= k + a - 1 BY <1>6, <1>13
  <2>2. P[k + a - 1] \in 1 .. m + 1 /\ a <= P[k + a - 1] BY <1>4, <1>11, <2>1
  <2>3. Q[k] = P[k + a - 1] - (a - 1) BY <1>14
  <2> QED BY <1>6, <2>2, <2>3
<1>16. Q[0] = 1 /\ Q[len] = Len(r) + 1
  <2>1. 0 \in 0 .. len /\ len \in 0 .. len /\ 0 + a - 1 = a - 1 /\ len + a - 1 = b BY <1>6, <1>13
  <2>2. Q[0] = P[a - 1] - (a - 1) /\ Q[len] = P[b] - (a - 1) /\ P[b] \in a .. m + 1 BY <1>15, <2>1
  <2>3. P[b] = e + 1 BY <1>3, <2>2
  <2> QED BY <1>4, <1>6, <1>9, <2>2, <2>3
<1>17. ASSUME NEW k \in 1 .. len
       PROVE  Q[k - 1] \in 1 .. Len(r) /\ r[Q[k - 1]] = t[k] /\ Onward(v, Q[k - 1]) = Q[k]
  <2>1. PICK j : j = k + a - 1 OBVIOUS
  <2>2. j \in a .. b /\ j \in 1 .. n /\ (k - 1) + a - 1 = j - 1 /\ k - 1 \in 0 .. len /\ k \in 0 .. len
    BY <1>6, <1>13, <2>1
  <2>3. PICK z, w : z = P[j - 1] /\ w = P[j] OBVIOUS
  <2>4. PICK y, u : y = Q[k - 1] /\ u = Q[k] OBVIOUS
  <2>5. y = z - (a - 1) /\ u = w - (a - 1) /\ z \in a .. m + 1 /\ w \in a .. m + 1
    BY <1>15, <2>1, <2>2, <2>3, <2>4
  <2>6. z \in 1 .. m /\ f.raw[z] = text[j]
        /\ \/ w = z + 1 /\ ~(f.esc /\ PairAt(f.raw, z))
           \/ w = z + 2 /\ f.esc /\ PairAt(f.raw, z)
    BY <1>12, <2>2, <2>3
  <2>7. w <= e + 1
    <3>1. j \in 0 .. n /\ b \in 0 .. n /\ j <= b BY <1>6, <2>2
    <3>2. P[j] <= P[b] /\ P[b] \in 1 .. m + 1 BY <1>11, <3>1
    <3>3. P[b] = e + 1 BY <1>3, <3>2
    <3> QED BY <2>3, <3>2, <3>3
  <2>8. y \in 1 .. e - a + 1 /\ a + y - 1 = z /\ y \in 1 .. Len(r) BY <1>6, <1>9, <2>5, <2>6, <2>7
  <2>9. r[y] = f.raw[z] BY <1>9, <2>8
  <2>10. t[k] = text[j]
    <3>1. k \in 1 .. b - a + 1 /\ a + k - 1 = j BY <1>6, <1>13, <2>1
    <3> QED BY <1>8, <3>1
  <2>11. y + 1 <= Len(r) => r[y + 1] = f.raw[z + 1] /\ z < m
    <3> SUFFICES ASSUME y + 1 <= Len(r) PROVE r[y + 1] = f.raw[z + 1] /\ z < m OBVIOUS
    <3>1. y + 1 \in 1 .. e - a + 1 /\ a + (y + 1) - 1 = z + 1 /\ z < m BY <1>6, <1>9, <2>5, <2>8
    <3> QED BY <1>9, <3>1
  <2>12. Onward(v, y) = u
    <3>1. CASE f.esc /\ PairAt(f.raw, z)
      <4>1. w = z + 2 BY <2>6, <3>1
      <4>2. y + 1 <= Len(r) /\ y < Len(r) /\ u = y + 2 BY <1>6, <1>9, <2>5, <2>6, <2>7, <4>1
      <4>3. f.raw[z] = Quote /\ f.raw[z + 1] = Quote BY <3>1 DEF PairAt
      <4>4. PairAt(r, y) BY <2>9, <2>11, <4>2, <4>3 DEF PairAt
      <4> QED BY <1>10, <3>1, <4>2, <4>4 DEF Onward
    <3>2. CASE ~(f.esc /\ PairAt(f.raw, z))
      <4>1. w = z + 1 BY <2>6, <3>2
      <4>2. u = y + 1 BY <1>6, <2>5, <2>6, <4>1
      <4>3. ~(f.esc /\ PairAt(r, y))
        <5> SUFFICES ASSUME f.esc, PairAt(r, y) PROVE FALSE OBVIOUS
        <5>1. r[y] = Quote /\ y < Len(r) /\ r[y + 1] = Quote BY DEF PairAt
        <5>2. y + 1 <= Len(r) BY <1>6, <1>9, <2>8, <5>1
        <5>3. PairAt(f.raw, z) BY <1>1, <2>9, <2>11, <5>1, <5>2 DEF PairAt
        <5> QED BY <3>2, <5>3
      <4> QED BY <1>10, <4>2, <4>3 DEF Onward
    <3> QED BY <3>1, <3>2
  <2> QED BY <2>4, <2>6, <2>8, <2>9, <2>10, <2>12
<1>18. Stands(v, t, Q)
  <2>1. Len(t) = len BY <1>8, <1>13
  <2>2. Q \in [0 .. len -> Nat]
    <3>1. \A k \in 0 .. len : P[k + a - 1] - (a - 1) \in Nat BY <1>15
    <3> QED BY <1>14, <3>1
  <2> QED BY <1>10, <1>16, <1>17, <2>1, <2>2 DEF Stands
<1> QED BY <1>2, <1>7, <1>8, <1>10, <1>18, StandsForText

\* The bytes before and after the point of a number in plain decimal.
LEMMA PointOf ==
  ASSUME NEW d, Significant(d), Len(d) # 0, NEW point \in Int, NEW b, b = Placed(<<>>, d, point)
  PROVE  \E P : /\ Laid(b, d, point, P)
                /\ P - 1 = IF Len(d) + point >= 1 THEN Len(d) + point ELSE 1
                /\ (IF P > Len(b) THEN 0 ELSE Len(b) - P) = IF point < 0 THEN -point ELSE 0
<1>1. PICK n \in Nat : n = Len(d) /\ n # 0 BY LenProperties DEF Significant
<1>2. d \in Seq(Byte) /\ \A k \in 1 .. Len(d) : IsDigit(d[k]) BY DEF Significant
<1>3. CASE point >= 0
  <2>1. point \in Nat BY <1>3
  <2>2. Laid(b, d, point, Len(b) + 1) /\ Len(b) = n + point BY <1>1, <1>2, <2>1, LaidWhole
  <2>3. /\ (Len(b) + 1) - 1 = (IF n + point >= 1 THEN n + point ELSE 1)
        /\ (IF Len(b) + 1 > Len(b) THEN 0 ELSE Len(b) - (Len(b) + 1)) = (IF point < 0 THEN -point ELSE 0)
    BY <1>1, <1>3, <2>1, <2>2
  <2> QED BY <1>1, <2>2, <2>3
<1>4. CASE point < 0 /\ -point < n
  <2>1. Laid(b, d, point, n + point + 1) /\ Len(b) = n + 1 BY <1>1, <1>2, <1>4, LaidAmong
  <2>2. /\ (n + point + 1) - 1 = (IF n + point >= 1 THEN n + point ELSE 1)
        /\ (IF n + point + 1 > Len(b) THEN 0 ELSE Len(b) - (n + point + 1)) = (IF point < 0 THEN -point ELSE 0)
    BY <1>1, <1>4, <2>1
  <2> QED BY <1>1, <2>1, <2>2
<1>5. CASE point < 0 /\ ~(-point < n)
  <2>1. Laid(b, d, point, 2) /\ Len(b) = 2 - point BY <1>1, <1>2, <1>5, LaidAfter
  <2>2. /\ 2 - 1 = (IF n + point >= 1 THEN n + point ELSE 1)
        /\ (IF 2 > Len(b) THEN 0 ELSE Len(b) - 2) = (IF point < 0 THEN -point ELSE 0)
    BY <1>1, <1>5, <2>1
  <2> QED BY <1>1, <2>1, <2>2
<1> QED BY <1>3, <1>4, <1>5

\* The digits counted in a form are those before its point and those after it: one at
\* least before, and none after where there is no point.
LEMMA CountsTell ==
  ASSUME NEW neg \in BOOLEAN, NEW d, Significant(d), NEW point \in Int, NEW f, f = Plainly(neg, d, point)
  PROVE  /\ d = <<>> => DigitCounts(f).ints = 1 /\ DigitCounts(f).fracs = 0
         /\ d # <<>> =>
              /\ DigitCounts(f).ints = IF Len(d) + point >= 1 THEN Len(d) + point ELSE 1
              /\ DigitCounts(f).fracs = IF point < 0 THEN -point ELSE 0
<1>1. PICK D, F : /\ D = {i \in DOMAIN f : IsDigit(f[i])}
                  /\ F = {i \in D : \E j \in 1 .. i : f[j] = Point}
  OBVIOUS
<1>2. DigitCounts(f).ints = Cardinality(D \ F) /\ DigitCounts(f).fracs = Cardinality(F)
  BY <1>1 DEF DigitCounts
<1>3. ~IsDigit(Point) /\ Minus # Point /\ ~IsDigit(Minus) /\ IsDigit(Zero) /\ Zero # Point
  BY DEF IsDigit, Digits, Point, Minus, Zero, Nine
<1>4. CASE d = <<>>
  <2>1. f = <<Zero>> /\ DOMAIN f = {1} /\ f[1] = Zero BY <1>4 DEF Plainly
  <2>2. D = {1} BY <1>1, <1>3, <2>1
  <2>3. F = {}
    <3>1. \A j \in 1 .. 1 : f[j] # Point BY <1>3, <2>1
    <3> QED BY <1>1, <2>2, <3>1
  <2>4. D \ F = {1} BY <2>2, <2>3
  <2>5. Cardinality({1}) = 1 /\ Cardinality({}) = 0 BY FS_Singleton, FS_EmptySet
  <2> QED BY <1>2, <1>4, <2>3, <2>4, <2>5
<1>5. CASE d # <<>>
  <2>1. f = Placed(SignOf(neg), d, point) /\ Len(d) # 0 /\ d \in Seq(Byte)
    BY <1>5, StandingSome DEF Plainly, Significant
  <2>2. PICK b : b = Placed(<<>>, d, point) OBVIOUS
  <2>3. PICK P : /\ Laid(b, d, point, P)
                 /\ P - 1 = IF Len(d) + point >= 1 THEN Len(d) + point ELSE 1
                 /\ (IF P > Len(b) THEN 0 ELSE Len(b) - P) = IF point < 0 THEN -point ELSE 0
    BY <2>1, <2>2, PointOf
  <2>4. PICK m \in Nat : m = Len(b) /\ b \in Seq(Byte) BY <2>3, LenProperties DEF Laid
  <2>5. PICK s \in 0 .. 1, sign \in Seq(Byte) :
          s = Len(sign) /\ sign = SignOf(neg) /\ \A k \in 1 .. s : sign[k] = Minus
    <3>1. PICK g : g = SignOf(neg) OBVIOUS
    <3>2. g \in Seq(Byte) /\ Len(g) \in 0 .. 1 /\ \A k \in 1 .. Len(g) : g[k] = Minus
      <4>1. CASE neg
        <5>1. g = <<Minus>> /\ Len(<<Minus>>) = 1 /\ <<Minus>>[1] = Minus BY <3>1, <4>1 DEF SignOf
        <5>2. \A k \in 1 .. 1 : k = 1 OBVIOUS
        <5> QED BY <5>1, <5>2, ByteSeqs
      <4>2. CASE ~neg
        <5>1. g = <<>> /\ Len(<<>>) = 0 BY <3>1, <4>2 DEF SignOf
        <5> QED BY <5>1, ByteSeqs
      <4> QED BY <4>1, <4>2
    <3> QED BY <3>1, <3>2
  <2>6. f = sign \o b BY <2>1, <2>2, <2>5, SignedPlaced
  <2>7. /\ f \in Seq(Byte) /\ Len(f) = s + m
        /\ \A k \in 1 .. s : f[k] = sign[k]
        /\ \A k \in 1 .. m : f[s + k] = b[k]
    BY <2>4, <2>5, <2>6, BytesAfter
  <2>8. DOMAIN f = 1 .. s + m BY <2>7
  <2>9. /\ P \in 2 .. m + 1 /\ P # m /\ (P <= m => b[P] = Point)
        /\ \A i \in 1 .. m : i # P => IsDigit(b[i])
    BY <2>3, <2>4 DEF Laid
  <2>10. \A i \in 1 .. s + m : i <= s \/ (i - s \in 1 .. m /\ f[i] = b[i - s])
    <3> SUFFICES ASSUME NEW i \in 1 .. s + m, ~(i <= s) PROVE i - s \in 1 .. m /\ f[i] = b[i - s]
      OBVIOUS
    <3>1. i - s \in 1 .. m /\ s + (i - s) = i BY <2>4, <2>5
    <3> QED BY <2>7, <3>1
  <2>11. \A i \in 1 .. s + m : IsDigit(f[i]) <=> i > s /\ i # s + P
    <3> SUFFICES ASSUME NEW i \in 1 .. s + m PROVE IsDigit(f[i]) <=> i > s /\ i # s + P OBVIOUS
    <3>1. CASE i <= s
      <4>1. i \in 1 .. s /\ ~(i > s) BY <2>5, <3>1
      <4>2. f[i] = Minus BY <2>5, <2>7, <4>1
      <4> QED BY <1>3, <4>1, <4>2
    <3>2. CASE ~(i <= s)
      <4>1. i - s \in 1 .. m /\ f[i] = b[i - s] /\ i > s BY <2>5, <2>10, <3>2
      <4>2. CASE i = s + P
        <5>1. i - s = P /\ P <= m BY <2>5, <2>9, <4>1, <4>2
        <5> QED BY <1>3, <2>9, <4>1, <4>2, <5>1
      <4>3. CASE i # s + P
        <5>1. i - s # P BY <2>5, <2>9, <4>3
        <5> QED BY <2>9, <4>1, <4>3, <5>1
      <4> QED BY <4>2, <4>3
    <3> QED BY <3>1, <3>2
  <2>12. \A i \in 1 .. s + m : f[i] = Point <=> i = s + P
    <3> SUFFICES ASSUME NEW i \in 1 .. s + m PROVE f[i] = Point <=> i = s + P OBVIOUS
    <3>1. CASE i <= s
      <4>1. i \in 1 .. s /\ i # s + P BY <2>5, <2>9, <3>1
      <4>2. f[i] = Minus BY <2>5, <2>7, <4>1
      <4> QED BY <1>3, <4>1, <4>2
    <3>2. CASE ~(i <= s)
      <4>1. i - s \in 1 .. m /\ f[i] = b[i - s] BY <2>10, <3>2
      <4>2. CASE i = s + P
        <5>1. i - s = P /\ P <= m BY <2>5, <2>9, <4>1, <4>2
        <5> QED BY <2>9, <4>1, <4>2, <5>1
      <4>3. CASE i # s + P
        <5>1. i - s # P BY <2>5, <2>9, <4>3
        <5>2. IsDigit(f[i]) BY <2>9, <4>1, <5>1
        <5> QED BY <1>3, <4>3, <5>2
      <4> QED BY <4>2, <4>3
    <3> QED BY <3>1, <3>2
  <2>13. D = {i \in 1 .. s + m : i > s /\ i # s + P} BY <1>1, <2>8, <2>11
  <2>14. F = s + P + 1 .. s + m
    <3>1. ASSUME NEW i \in F PROVE i \in s + P + 1 .. s + m
      <4>1. i \in 1 .. s + m /\ i # s + P BY <1>1, <2>13, <3>1
      <4>2. PICK j \in 1 .. i : f[j] = Point BY <1>1, <3>1
      <4>3. j \in 1 .. s + m BY <4>1
      <4>4. j = s + P BY <2>12, <4>2, <4>3
      <4> QED BY <2>9, <4>1, <4>2, <4>4
    <3>2. ASSUME NEW i \in s + P + 1 .. s + m PROVE i \in F
      <4>1. i \in 1 .. s + m /\ i > s /\ i # s + P /\ s + P \in 1 .. i /\ s + P \in 1 .. s + m
        BY <2>9
      <4>2. i \in D /\ f[s + P] = Point BY <2>12, <2>13, <4>1
      <4> QED BY <1>1, <4>1, <4>2
    <3> QED BY <3>1, <3>2
  <2>15. D \ F = s + 1 .. s + P - 1
    <3>1. ASSUME NEW i \in D \ F PROVE i \in s + 1 .. s + P - 1 BY <2>9, <2>13, <2>14
    <3>2. ASSUME NEW i \in s + 1 .. s + P - 1 PROVE i \in D \ F BY <2>9, <2>13, <2>14
    <3> QED BY <3>1, <3>2
  <2>16. Cardinality(s + 1 .. s + P - 1) = P - 1
    <3>1. s + 1 \in Int /\ s + P - 1 \in Int /\ ~(s + 1 > s + P - 1) /\ (s + P - 1) - (s + 1) + 1 = P - 1
      BY <2>9
    <3>2. Cardinality(s + 1 .. s + P - 1) =
            IF s + 1 > s + P - 1 THEN 0 ELSE (s + P - 1) - (s + 1) + 1
      BY <3>1, FS_Interval
    <3> QED BY <3>1, <3>2
  <2>17. Cardinality(s + P + 1 .. s + m) = IF P > m THEN 0 ELSE m - P
    <3>1. s + P + 1 \in Int /\ s + m \in Int BY <2>9
    <3>2. Cardinality(s + P + 1 .. s + m) =
            IF s + P + 1 > s + m THEN 0 ELSE (s + m) - (s + P + 1) + 1
      BY <3>1, FS_Interval
    <3>3. (IF s + P + 1 > s + m THEN 0 ELSE (s + m) - (s + P + 1) + 1) = IF P > m THEN 0 ELSE m - P
      BY <2>9
    <3> QED BY <3>2, <3>3
  <2> QED BY <1>2, <1>5, <2>3, <2>4, <2>14, <2>15, <2>16, <2>17
<1> QED BY <1>4, <1>5

\* The powers of ten a number has a digit at run from that of its first digit to that of
\* its last.
LEMMA PowersRun ==
  ASSUME NEW d, Significant(d), NEW point \in Int, NEW neg \in BOOLEAN,
         NEW v, v = SignedDigits(neg, Standing(d, point))
  PROVE  /\ d = <<>> => Powers(v) = {}
         /\ d # <<>> => /\ Len(d) - 1 + point \in Powers(v) /\ point \in Powers(v)
                        /\ Powers(v) \subseteq point .. Len(d) - 1 + point
                        /\ Len(d) \in Nat /\ Len(d) # 0
<1>1. v.digits = Standing(d, point) BY SignIs
<1>2. CASE d = <<>>
  <2>1. v.digits = {} BY <1>1, <1>2, StandingSome
  <2> QED BY <1>2, <2>1 DEF Powers
<1>3. CASE d # <<>>
  <2>1. PICK n \in Nat : n = Len(d) /\ n # 0
    <3>1. Len(d) # 0 BY <1>3, StandingSome
    <3> QED BY <3>1, LenProperties DEF Significant
  <2>2. Standing(d, point) = {<<n - k + point, d[k]>> : k \in {j \in 1 .. n : d[j] # Zero}}
    BY <2>1 DEF Standing
  <2>3. d[1] # Zero /\ d[n] # Zero BY <2>1 DEF Significant
  <2>4. ASSUME NEW e \in Standing(d, point) PROVE e[1] \in point .. n - 1 + point
    <3>1. PICK k \in 1 .. n : e = <<n - k + point, d[k]>> BY <2>2
    <3>2. e[1] = n - k + point BY <3>1
    <3>3. n - k + point \in point .. n - 1 + point OBVIOUS
    <3> QED BY <3>2, <3>3
  <2>5. ASSUME NEW k \in 1 .. n, d[k] # Zero PROVE n - k + point \in Powers(v)
    <3>1. <<n - k + point, d[k]>> \in Standing(d, point) BY <2>2, <2>5
    <3>2. <<n - k + point, d[k]>>[1] = n - k + point OBVIOUS
    <3> QED BY <1>1, <3>1, <3>2 DEF Powers
  <2>6. n - 1 + point \in Powers(v) /\ point \in Powers(v)
    <3>1. 1 \in 1 .. n /\ n \in 1 .. n /\ n - n + point = point BY <2>1
    <3>2. n - 1 + point \in Powers(v) BY <2>3, <2>5, <3>1
    <3>3. n - n + point \in Powers(v) BY <2>3, <2>5, <3>1
    <3> QED BY <3>1, <3>2, <3>3
  <2>7. Powers(v) \subseteq point .. n - 1 + point BY <1>1, <2>4 DEF Powers
  <2> QED BY <1>3, <2>1, <2>6, <2>7
<1> QED BY <1>2, <1>3

\* A number is out of its column's precision when and only when it has a digit the column
\* has no place for, where the column leaves a place before the point.
LEMMA PrecisionTells ==
  ASSUME NEW neg \in BOOLEAN, NEW d, Significant(d), NEW point \in Int, NEW f, f = Plainly(neg, d, point),
         NEW v, v = SignedDigits(neg, Standing(d, point)),
         NEW col \in ColumnType, LeavesPlace(col), col.type \in Numeric
  PROVE  BadPrecision(DigitCounts(f), col) <=> ~FitsDeclared(v, col)
<1>1. PICK size \in Int, scale \in Int, s \in Nat :
        size = col.size /\ scale = col.scale /\ s = IF col.scale > 0 THEN col.scale ELSE 0
  BY DEF ColumnType, Undeclared
<1>2. PICK ints, fracs : ints = DigitCounts(f).ints /\ fracs = DigitCounts(f).fracs OBVIOUS
<1>3. PICK low, top :
        /\ ints \in Nat /\ fracs \in Nat /\ low \in Int /\ top \in Int
        /\ \A x \in Powers(v) : x \in low .. top
        /\ \/ Powers(v) = {} /\ ints = 1 /\ fracs = 0
           \/ /\ low \in Powers(v) /\ top \in Powers(v)
              /\ ints = (IF top >= 0 THEN top + 1 ELSE 1) /\ fracs = IF low < 0 THEN -low ELSE 0
  <2>1. CASE d = <<>>
    <3>1. Powers(v) = {} /\ ints = 1 /\ fracs = 0 BY <1>2, <2>1, CountsTell, PowersRun
    <3>2. PICK x \in Int : x = 0 OBVIOUS
    <3> QED BY <3>1, <3>2
  <2>2. CASE d # <<>>
    <3>1. /\ Len(d) - 1 + point \in Powers(v) /\ point \in Powers(v)
          /\ Powers(v) \subseteq point .. Len(d) - 1 + point /\ Len(d) \in Nat /\ Len(d) # 0
      BY <2>2, PowersRun
    <3>2. /\ ints = IF Len(d) + point >= 1 THEN Len(d) + point ELSE 1
          /\ fracs = IF point < 0 THEN -point ELSE 0
      BY <1>2, <2>2, CountsTell
    <3>3. PICK n \in Nat : n = Len(d) BY <3>1
    <3>4. PICK top \in Int : top = n - 1 + point OBVIOUS
    <3>5. ints = (IF top >= 0 THEN top + 1 ELSE 1) /\ ints \in Nat /\ fracs \in Nat
      BY <3>2, <3>3, <3>4
    <3>6. top \in Powers(v) /\ \A x \in Powers(v) : x \in point .. top BY <3>1, <3>3, <3>4
    <3> QED BY <3>1, <3>2, <3>5, <3>6
  <2> QED BY <2>1, <2>2
<1>4. CASE col.type = "INTEGER"
  <2>1. BadPrecision(DigitCounts(f), col) <=> fracs > 0 \/ (size > 0 /\ ints > size)
    BY <1>1, <1>2, <1>4 DEF BadPrecision
  <2>2. FitsDeclared(v, col) <=> \A x \in Powers(v) : x >= 0 /\ (size > 0 => x < size)
    BY <1>1, <1>4 DEF FitsDeclared
  <2>3. CASE Powers(v) = {} /\ ints = 1 /\ fracs = 0 BY <1>1, <2>1, <2>2, <2>3
  <2>4. CASE /\ low \in Powers(v) /\ top \in Powers(v)
             /\ ints = (IF top >= 0 THEN top + 1 ELSE 1) /\ fracs = IF low < 0 THEN -low ELSE 0
    <3>1. FitsDeclared(v, col) <=> low >= 0 /\ (size > 0 => top < size)
      <4>1. ASSUME low >= 0, size > 0 => top < size, NEW x \in Powers(v)
            PROVE  x >= 0 /\ (size > 0 => x < size)
        <5>1. x \in low .. top BY <1>3
        <5> QED BY <1>1, <1>3, <4>1, <5>1
      <4>2. (\A x \in Powers(v) : x >= 0 /\ (size > 0 => x < size)) => low >= 0 /\ (size > 0 => top < size)
        BY <2>4
      <4> QED BY <2>2, <4>1, <4>2
    <3>2. low <= top BY <1>3, <2>4
    <3>3. fracs > 0 \/ (size > 0 /\ ints > size) <=> ~(low >= 0 /\ (size > 0 => top < size))
      BY <1>1, <1>3, <2>4, <3>2
    <3> QED BY <2>1, <3>1, <3>3
  <2> QED BY <1>3, <2>3, <2>4
<1>5. CASE col.type # "INTEGER"
  <2>1. BadPrecision(DigitCounts(f), col) <=>
          size > 0 /\ (fracs > s \/ (s <= size /\ ints > size - s))
    BY <1>1, <1>2, <1>5 DEF BadPrecision
  <2>2. FitsDeclared(v, col) <=> (size > 0 => \A x \in Powers(v) : x \in -s .. size - s - 1)
    BY <1>1, <1>5 DEF FitsDeclared
  <2>3. size > 0 => s < size
    <3>1. col.type = "DECIMAL" BY <1>5 DEF Numeric
    <3> QED BY <1>1, <3>1 DEF LeavesPlace
  <2>4. CASE Powers(v) = {} /\ ints = 1 /\ fracs = 0 BY <1>1, <2>1, <2>2, <2>3, <2>4
  <2>5. CASE /\ low \in Powers(v) /\ top \in Powers(v)
             /\ ints = (IF top >= 0 THEN top + 1 ELSE 1) /\ fracs = IF low < 0 THEN -low ELSE 0
    <3>1. FitsDeclared(v, col) <=> (size > 0 => low >= -s /\ top <= size - s - 1)
      <4>1. ASSUME low >= -s, top <= size - s - 1, NEW x \in Powers(v) PROVE x \in -s .. size - s - 1
        <5>1. x \in low .. top BY <1>3
        <5> QED BY <1>1, <1>3, <4>1, <5>1
      <4>2. (\A x \in Powers(v) : x \in -s .. size - s - 1) => low >= -s /\ top <= size - s - 1
        <5> SUFFICES ASSUME \A x \in Powers(v) : x \in -s .. size - s - 1
                     PROVE  low >= -s /\ top <= size - s - 1
          OBVIOUS
        <5>1. low \in -s .. size - s - 1 /\ top \in -s .. size - s - 1 BY <2>5
        <5> QED BY <1>1, <1>3, <5>1
      <4> QED BY <2>2, <4>1, <4>2
    <3>3. size > 0 /\ (fracs > s \/ (s <= size /\ ints > size - s))
            <=> ~(size > 0 => low >= -s /\ top <= size - s - 1)
      <4>1. fracs > s <=> ~(low >= -s) BY <1>1, <1>3, <2>5
      <4>2. size > 0 => (ints > size - s <=> ~(top <= size - s - 1)) BY <1>1, <1>3, <2>3, <2>5
      <4>3. size > 0 => s <= size BY <1>1, <2>3
      <4> QED BY <4>1, <4>2, <4>3
    <3> QED BY <2>1, <3>1, <3>3
  <2> QED BY <1>3, <2>4, <2>5
<1> QED BY <1>4, <1>5

\* Trimming takes away no quote, ...
LEMMA QuoteStays ==
  ASSUME NEW text \in Seq(Byte), NEW k \in 1 .. Len(text), text[k] = Quote, NEW trim \in BOOLEAN,
         NEW p, p = Trimmed(text, trim, trim)
  PROVE  p \in Seq(Byte) /\ \E x \in 1 .. Len(p) : p[x] = Quote
<1>1. PICK n \in Nat : n = Len(text) BY LenProperties
<1>2. CASE trim
  <2>1. PICK a, b : Bounds(text, a, b) /\ p = Part(text, a, b)
    <3>1. p = Trimmed(text, TRUE, TRUE) BY <1>2
    <3> QED BY <3>1, TrimmedTells
  <2>2. /\ a \in 1 .. n + 1 /\ b \in a - 1 .. n /\ \A x \in 1 .. a - 1 : text[x] \in Pads
        /\ \A x \in b + 1 .. n : text[x] \in Pads
    BY <1>1, <2>1 DEF Bounds
  <2>3. text[k] \notin Pads BY DEF Quote, Pads
  <2>4. k \in a .. b
    <3>1. k \notin 1 .. a - 1 /\ k \notin b + 1 .. n BY <2>2, <2>3
    <3> QED BY <1>1, <2>2, <3>1
  <2>5. /\ p \in Seq(Byte) /\ Len(p) = b - a + 1 /\ \A x \in 1 .. b - a + 1 : p[x] = text[a + x - 1]
    BY <1>1, <2>1, <2>2, PartIs
  <2>6. k - a + 1 \in 1 .. b - a + 1 /\ a + (k - a + 1) - 1 = k BY <2>2, <2>4
  <2>7. p[k - a + 1] = text[k] BY <2>5, <2>6
  <2> QED BY <2>5, <2>6, <2>7
<1>3. CASE ~trim
  <2>1. p = Part(text, 1, n)
    <3>1. p = Trimmed(text, FALSE, FALSE) BY <1>3
    <3> QED BY <1>1, <3>1 DEF Trimmed
  <2>2. p = text BY <1>1, <2>1 DEF Part
  <2> QED BY <2>2
<1> QED BY <1>2, <1>3

\* ... and no text with a quote in it is a number.
LEMMA QuoteIsNoNumber ==
  ASSUME NEW p \in Seq(Byte), NEW i \in 1 .. Len(p), p[i] = Quote
  PROVE  Value(p) = NotANumber
<1>1. PICK q, n : q = Unsigned(p) /\ n = PartsOf(p) OBVIOUS
<1>2. ~IsSign(Quote) /\ ~IsDigit(Quote) /\ Quote # Point /\ Quote \notin ExpMark
  BY DEF IsSign, IsDigit, Digits, Quote, Plus, Minus, Point, Zero, Nine, ExpMark
<1>3. ASSUME NEW w \in Seq(Byte), NEW x \in 1 .. Len(w), w[x] = Quote, NEW u, u = Unsigned(w)
      PROVE  u \in Seq(Byte) /\ Len(u) \in Nat /\ \E y \in 1 .. Len(u) : u[y] = Quote
  <2>1. /\ u \in Seq(Byte)
        /\ \/ w # <<>> /\ IsSign(w[1]) /\ u = Tail(w) /\ Len(w) = Len(u) + 1
              /\ \A y \in 1 .. Len(u) : u[y] = w[y + 1]
           \/ ~(w # <<>> /\ IsSign(w[1])) /\ u = w
    BY <1>3, UnsignedIs
  <2>2. Len(u) \in Nat BY <2>1, LenProperties
  <2>3. CASE IsSign(w[1]) /\ Len(w) = Len(u) + 1 /\ \A y \in 1 .. Len(u) : u[y] = w[y + 1]
    <3>1. x # 1 BY <1>2, <1>3, <2>3
    <3>2. x - 1 \in 1 .. Len(u) /\ (x - 1) + 1 = x BY <2>2, <2>3, <3>1
    <3>3. u[x - 1] = w[x] BY <2>3, <3>2
    <3> QED BY <1>3, <2>1, <2>2, <3>2, <3>3
  <2>4. CASE u = w BY <1>3, <2>1, <2>2, <2>4
  <2> QED BY <2>1, <2>3, <2>4
<1>4. q \in Seq(Byte) /\ Len(q) \in Nat BY <1>1, <1>3
<1>5. PICK x \in 1 .. Len(q) : q[x] = Quote BY <1>1, <1>3
<1>6. PICK k : /\ FirstMark(q, k) /\ n.m = Part(q, 1, k - 1) /\ n.marked = (k <= Len(q))
               /\ n.e = Unsigned(Behind(q, k))
  BY <1>1, PartsTells
<1>7. k \in 1 .. Len(q) + 1 /\ (k = Len(q) + 1 \/ q[k] \in ExpMark) BY <1>6 DEF FirstMark
<1>8. PICK len \in Nat : len = Len(q) BY <1>4
<1>9. ~IsNumeral(n)
  <2>1. CASE x < k
    <3>1. /\ n.m \in Seq(Byte) /\ Len(n.m) = k - 1
          /\ \A y \in 1 .. k - 1 : n.m[y] = q[y]
      <4>1. 1 \in 1 .. Len(q) + 1 /\ k - 1 \in 1 - 1 .. Len(q) /\ (k - 1) - 1 + 1 = k - 1
        BY <1>7, <1>8
      <4>2. /\ Part(q, 1, k - 1) \in Seq(Byte) /\ Len(Part(q, 1, k - 1)) = (k - 1) - 1 + 1
            /\ \A y \in 1 .. (k - 1) - 1 + 1 : Part(q, 1, k - 1)[y] = q[1 + y - 1]
        BY <1>4, <4>1, PartIs
      <4>3. \A y \in 1 .. k - 1 : 1 + y - 1 = y OBVIOUS
      <4> QED BY <1>6, <4>1, <4>2, <4>3
    <3>2. x \in 1 .. k - 1 /\ DOMAIN n.m = 1 .. Len(n.m) BY <1>7, <1>8, <2>1, <3>1
    <3>3. x \in DOMAIN n.m /\ n.m[x] = Quote BY <1>5, <3>1, <3>2
    <3> QED BY <1>2, <3>3 DEF IsNumeral
  <2>2. CASE ~(x < k)
    <3>1. k # x
      <4> SUFFICES ASSUME k = x PROVE FALSE OBVIOUS
      <4>1. k # Len(q) + 1 BY <1>8
      <4> QED BY <1>2, <1>5, <1>7, <4>1
    <3>2. k <= Len(q) /\ k + 1 \in 1 .. Len(q) + 1 /\ Len(q) \in (k + 1) - 1 .. Len(q)
          /\ x - k \in 1 .. Len(q) - (k + 1) + 1 /\ (k + 1) + (x - k) - 1 = x
      BY <1>7, <1>8, <2>2, <3>1
    <3>3. PICK w : w = Part(q, k + 1, Len(q)) OBVIOUS
    <3>4. /\ w \in Seq(Byte) /\ Len(w) = Len(q) - (k + 1) + 1
          /\ \A y \in 1 .. Len(q) - (k + 1) + 1 : w[y] = q[(k + 1) + y - 1]
      BY <1>4, <3>2, <3>3, PartIs
    <3>5. x - k \in 1 .. Len(w) /\ w[x - k] = Quote BY <1>5, <3>2, <3>4
    <3>6. n.e = Unsigned(w) /\ n.marked
      <4>1. Behind(q, k) = w BY <3>2, <3>3 DEF Behind
      <4>2. n.marked BY <1>6, <3>2, Zenon
      <4> QED BY <1>6, <4>1, <4>2
    <3>7. PICK u : u = n.e OBVIOUS
    <3>8. u \in Seq(Byte) /\ \E y \in 1 .. Len(u) : u[y] = Quote BY <1>3, <3>4, <3>5, <3>6, <3>7
    <3>9. \E y \in DOMAIN u : ~IsDigit(u[y])
      <4>1. DOMAIN u = 1 .. Len(u) BY <3>8
      <4> QED BY <1>2, <3>8, <4>1
    <3> QED BY <3>6, <3>7, <3>9 DEF IsNumeral
  <2> QED BY <2>1, <2>2
<1> QED BY <1>1, <1>9 DEF Value, NumberOrNot

\* What is found in a text checked in such a range is what is said of it.
LEMMA FoundTells ==
  ASSUME NEW p \in Seq(Byte), NEW v, IsField(v), Logical(v) = p, v.raw = <<>> <=> p = <<>>,
         ~v.esc => v.raw = p, v.esc => Value(p) = NotANumber,
         NEW col \in ColumnType, LeavesPlace(col)
  PROVE  FindingsAre(CheckTrimmed(v, Checks(col), col), p, Value(p), col)
<1>1. PICK checks, found : checks = Checks(col) /\ found = CheckTrimmed(v, checks, col) OBVIOUS
<1>2. /\ "required" \in checks <=> col.required
      /\ "length" \in checks <=> col.type \in {"VARCHAR", "CHAR"} /\ col.size > 0
      /\ "numeric" \in checks <=> col.type \in Numeric
  BY <1>1, Zenon DEF Checks
<1>3. CASE p = <<>>
  <2>1. found = IF "required" \in checks THEN {"REQUIRED_EMPTY"} ELSE {}
    BY <1>1, <1>3 DEF CheckTrimmed
  <2>2. found = IF col.required THEN {"REQUIRED_EMPTY"} ELSE {} BY <1>2, <2>1
  <2> QED BY <1>1, <1>3, <2>2 DEF FindingsAre
<1>4. CASE p # <<>>
  <2>1. PICK canon : canon = IF v.esc THEN Declined ELSE CanonicalDecimal(v.raw) OBVIOUS
  <2>2. found = Found(v, checks, canon, col) BY <1>1, <1>4, <2>1 DEF CheckTrimmed
  <2>3. /\ "REQUIRED_EMPTY" \notin found
        /\ "TOO_LONG" \in found <=> "length" \in checks /\ CharCount(v) > col.size
        /\ "NOT_NUMERIC" \in found <=> "numeric" \in checks /\ canon = Declined
        /\ "PRECISION" \in found <=>
             "numeric" \in checks /\ canon # Declined /\ BadPrecision(DigitCounts(canon), col)
    BY <2>2 DEF Found
  <2>4. CharCount(v) = Cardinality({i \in DOMAIN p : ~IsContinuation(p[i])})
    BY CharCountIs DEF Chars
  <2>5. canon = Declined <=> Value(p) = NotANumber
    <3>1. CASE v.esc BY <2>1, <3>1
    <3>2. CASE ~v.esc
      <4>1. canon = CanonicalDecimal(p) BY <2>1, <3>2
      <4> QED BY <4>1, FormTells
    <3> QED BY <3>1, <3>2
  <2>6. ASSUME canon # Declined, col.type \in Numeric
        PROVE  BadPrecision(DigitCounts(canon), col) <=> ~FitsDeclared(Value(p), col)
    <3>1. canon = CanonicalDecimal(p) BY <2>1, <2>6
    <3>2. \E neg \in BOOLEAN, d \in Seq(Byte), point \in Int :
            /\ Significant(d) /\ Value(p) = SignedDigits(neg, Standing(d, point))
            /\ canon = Plainly(neg, d, point)
      BY <2>6, <3>1, FormTells
    <3> QED BY <2>6, <3>2, PrecisionTells
  <2>7. FindingsAre(found, p, Value(p), col) BY <1>2, <1>4, <2>3, <2>4, <2>5, <2>6 DEF FindingsAre
  <2> QED BY <1>1, <2>7
<1> QED BY <1>3, <1>4

-----------------------------------------------------------------------------
(* The digests.                                                            *)

\* A range that reads as another stands for the same text.
LEMMA SameRange ==
  ASSUME NEW f, IsField(f), NEW v, v.raw = f.raw, v.esc = f.esc
  PROVE  Logical(v) = Logical(f)
<1>0. IsField(v) BY DEF IsField
<1>1. PICK K : Copies(f, K) /\ Logical(f) = K[1] BY LogicalIs
<1>2. PICK L : Copies(v, L) /\ Logical(v) = L[1] BY <1>0, LogicalIs
<1>3. \A i : Onward(v, i) = Onward(f, i) BY Zenon DEF Onward
<1>4. Copies(f, L) BY <1>2, <1>3 DEF Copies
<1>5. FieldCmp(f, f) = Order(K[1], L[1]) /\ FieldCmp(f, f) = Order(K[1], K[1])
  BY <1>1, <1>4, FieldCmpIs
<1>6. K[1] = L[1] BY <1>5 DEF Order
<1> QED BY <1>1, <1>2, <1>6

\* The pieces a value is folded from.
Pieces(bytes, F) ==
  /\ F[0] = <<>>
  /\ \A off \in 1 .. Len(bytes) :
       LET start == ((off - 1) \div Chunk) * Chunk
       IN  F[off] = Mix(F[start], Xxh3(Part(bytes, start + 1, off)))

\* A piece starts before it ends.
LEMMA PieceStarts ==
  ASSUME NEW off \in Nat \ {0}
  PROVE  ((off - 1) \div Chunk) * Chunk \in 0 .. off - 1
<1>1. Chunk \in Nat \ {0} /\ off - 1 \in Nat BY ValuesAssumption
<1> QED BY <1>1

\* The folded digest is made of those pieces and of the length.
LEMMA FoldedIs ==
  ASSUME NEW bytes \in Seq(Byte)
  PROVE  \E F : Pieces(bytes, F) /\ Folded(bytes) = Final(F[Len(bytes)], Len(bytes))
<1> DEFINE n == Len(bytes)
           start(off) == ((off - 1) \div Chunk) * Chunk
           Put(v, off) == Mix(v, Xxh3(Part(bytes, start(off) + 1, off)))
           Body(g, off) == IF off = 0 THEN <<>> ELSE Put(g[start(off)], off)
           S == {m \in 0 .. n : \E g : g = [off \in 0 .. m |-> Body(g, off)]}
<1>1. n \in Nat BY LenProperties
<1>2. \A off \in 1 .. n : start(off) \in 0 .. off - 1 BY <1>1, PieceStarts
<1> HIDE DEF start, Put
<1>3. 0 \in S
  <2>1. PICK g : g = [off \in 0 .. 0 |-> <<>>] OBVIOUS
  <2>2. g = [off \in 0 .. 0 |-> Body(g, off)] BY <2>1
  <2>3. 0 \in 0 .. n BY <1>1
  <2> HIDE DEF Body
  <2> QED BY <2>2, <2>3
<1>4. ASSUME NEW m \in 0 .. n - 1, m \in S PROVE m + 1 \in S
  <2>1. PICK g : g = [off \in 0 .. m |-> Body(g, off)]
    <3> HIDE DEF Body
    <3> QED BY <1>4
  <2> DEFINE h == [off \in 0 .. m + 1 |-> IF off = m + 1 THEN Body(g, m + 1) ELSE g[off]]
  <2>2. ASSUME NEW off \in 0 .. m + 1 PROVE h[off] = Body(h, off)
    <3>1. CASE off = 0
      <4>1. h[off] = g[0] /\ 0 \in 0 .. m BY <1>1, <3>1
      <4>2. g[0] = Body(g, 0)
        <5> HIDE DEF Body
        <5> QED BY <2>1, <4>1
      <4> QED BY <3>1, <4>1, <4>2
    <3>2. CASE off # 0
      <4>1. off \in 1 .. n BY <1>1, <3>2
      <4>2. start(off) \in 0 .. m /\ start(off) \in 0 .. m + 1 /\ start(off) # m + 1
        BY <1>1, <1>2, <4>1
      <4>3. h[start(off)] = g[start(off)] BY <4>2
      <4>4. h[off] = Body(g, off)
        <5>1. CASE off = m + 1 BY <5>1
        <5>2. CASE off # m + 1
          <6>1. off \in 0 .. m BY <1>1, <5>2
          <6>2. h[off] = g[off] BY <5>2
          <6> HIDE DEF Body, h
          <6> QED BY <2>1, <6>1, <6>2
        <5> QED BY <5>1, <5>2
      <4> HIDE DEF h
      <4> QED BY <3>2, <4>3, <4>4
    <3> QED BY <3>1, <3>2
  <2>3. h = [off \in 0 .. m + 1 |-> h[off]] OBVIOUS
  <2>4. h = [off \in 0 .. m + 1 |-> Body(h, off)]
    <3> HIDE DEF Body, h
    <3> QED BY <2>2, <2>3
  <2>5. m + 1 \in 0 .. n BY <1>1
  <2> HIDE DEF Body, h
  <2> QED BY <2>4, <2>5
<1>5. 0 .. n \subseteq S
  <2> HIDE DEF S, n
  <2> QED BY <1>1, <1>3, <1>4, UpTo
<1>6. PICK g : g = [off \in 0 .. n |-> Body(g, off)] /\ Folded(bytes) = Final(g[n], n)
  <2>1. \E g : g = [off \in 0 .. n |-> Body(g, off)]
    <3>1. n \in S BY <1>1, <1>5
    <3> HIDE DEF Body
    <3> QED BY <3>1
  <2> QED BY <2>1, Zenon DEF Folded, Put, start
<1>7. \A off \in 0 .. n : g[off] = Body(g, off)
  <2> HIDE DEF Body
  <2> QED BY <1>6
<1>8. g[0] = <<>> /\ \A off \in 1 .. n : g[off] = Put(g[start(off)], off)
  <2>1. 0 \in 0 .. n /\ \A off \in 1 .. n : off \in 0 .. n /\ off # 0 BY <1>1
  <2> QED BY <1>7, <2>1
<1>9. Pieces(bytes, g) BY <1>8, Zenon DEF Pieces, Put, start
<1> QED BY <1>6, <1>9

\* A mixed digest tells what was mixed, ...
LEMMA MixIs ==
  ASSUME NEW a, NEW h, NEW b, NEW k, Mix(a, h) = Mix(b, k)
  PROVE  a = b /\ h = k
BY DEF Mix

\* ... a final one the digest and the count it was made of, ...
LEMMA FinalIs ==
  ASSUME NEW a, NEW m, NEW b, NEW k, Final(a, m) = Final(b, k)
  PROVE  a = b /\ m = k
BY DEF Final

\* ... and that of a value the value; ...
LEMMA Xxh3Is ==
  ASSUME NEW a, NEW b, Xxh3(a) = Xxh3(b)
  PROVE  a = b
BY DEF Xxh3

\* ... none is of two kinds.
LEMMA ShortIsNotFolded ==
  ASSUME NEW a, NEW b, NEW n
  PROVE  Xxh3(a) # Final(b, n)
BY DEF Xxh3, Final

\* Values folded from the same pieces are the same.
LEMMA SamePieces ==
  ASSUME NEW a \in Seq(Byte), NEW b \in Seq(Byte), Len(a) = Len(b),
         NEW F, Pieces(a, F), NEW G, Pieces(b, G), F[Len(a)] = G[Len(b)]
  PROVE  a = b
<1> DEFINE n == Len(a)
           Upto(off) == F[off] = G[off] => \A p \in 1 .. off : a[p] = b[p]
           S == {m \in 0 .. n : \A off \in 0 .. m : Upto(off)}
<1>1. n \in Nat BY LenProperties
<1>2. 0 \in S BY <1>1
<1>3. ASSUME NEW m \in 0 .. n - 1, m \in S PROVE m + 1 \in S
  <2>1. ASSUME F[m + 1] = G[m + 1] PROVE \A p \in 1 .. m + 1 : a[p] = b[p]
    <3>1. PICK off, start : off = m + 1 /\ start = ((off - 1) \div Chunk) * Chunk OBVIOUS
    <3>2. off \in 1 .. n /\ start \in 0 .. off - 1 /\ start \in 0 .. m
      <4>1. off \in Nat \ {0} /\ off \in 1 .. n BY <1>1, <3>1
      <4>2. start \in 0 .. off - 1 BY <3>1, <4>1, PieceStarts
      <4> QED BY <1>1, <3>1, <4>1, <4>2
    <3>3. F[off] = Mix(F[start], Xxh3(Part(a, start + 1, off))) BY <3>1, <3>2, Zenon DEF Pieces
    <3>4. G[off] = Mix(G[start], Xxh3(Part(b, start + 1, off))) BY <3>1, <3>2, Zenon DEF Pieces
    <3>5. F[start] = G[start] /\ Part(a, start + 1, off) = Part(b, start + 1, off)
      <4>1. Mix(F[start], Xxh3(Part(a, start + 1, off))) = Mix(G[start], Xxh3(Part(b, start + 1, off)))
        BY <2>1, <3>1, <3>3, <3>4
      <4>2. F[start] = G[start] /\ Xxh3(Part(a, start + 1, off)) = Xxh3(Part(b, start + 1, off))
        BY <4>1, MixIs
      <4> QED BY <4>2, Xxh3Is
    <3>6. \A p \in 1 .. start : a[p] = b[p] BY <1>3, <3>2, <3>5
    <3>7. ASSUME NEW p \in start + 1 .. off PROVE a[p] = b[p]
      <4>1. /\ start + 1 \in 1 .. Len(a) + 1 /\ off \in (start + 1) - 1 .. Len(a)
            /\ start + 1 \in 1 .. Len(b) + 1 /\ off \in (start + 1) - 1 .. Len(b)
            /\ p - start \in 1 .. off - (start + 1) + 1 /\ (start + 1) + (p - start) - 1 = p
        BY <1>1, <3>2
      <4>2. Part(a, start + 1, off)[p - start] = a[p] BY <4>1, PartIs
      <4>3. Part(b, start + 1, off)[p - start] = b[p] BY <4>1, PartIs
      <4> QED BY <3>5, <4>2, <4>3
    <3> QED BY <1>1, <3>1, <3>2, <3>6, <3>7
  <2>2. \A off \in 0 .. m + 1 : off \in 0 .. m \/ off = m + 1 BY <1>1
  <2>3. \A off \in 0 .. m + 1 : Upto(off) BY <1>3, <2>1, <2>2
  <2> QED BY <1>1, <2>3
<1>4. 0 .. n \subseteq S
  <2> HIDE DEF S, n
  <2> QED BY <1>1, <1>2, <1>3, UpTo
<1>5. \A p \in 1 .. n : a[p] = b[p] BY <1>1, <1>4
<1> QED BY <1>5, SeqEqual

\* Two values of which neither is exactly one chunk long have the same digest when
\* and only when they are the same, whichever path digested them.
LEMMA HashOfTells ==
  ASSUME NEW a \in Seq(Byte), NEW b \in Seq(Byte), NEW e, NEW d,
         Len(a) # Chunk, Len(b) # Chunk
  PROVE  HashOf(a, e) = HashOf(b, d) <=> a = b
<1>2. /\ HashOf(a, e) = IF Len(a) < Chunk THEN Xxh3(a) ELSE Folded(a)
      /\ HashOf(b, d) = IF Len(b) < Chunk THEN Xxh3(b) ELSE Folded(b)
  BY DEF HashOf
<1>3. PICK F : Pieces(a, F) /\ Folded(a) = Final(F[Len(a)], Len(a)) BY FoldedIs
<1>4. PICK G : Pieces(b, G) /\ Folded(b) = Final(G[Len(b)], Len(b)) BY FoldedIs
<1>5. ASSUME a = b PROVE HashOf(a, e) = HashOf(b, d) BY <1>2, <1>5
<1>6. ASSUME HashOf(a, e) = HashOf(b, d) PROVE a = b
  <2>1. CASE Len(a) < Chunk /\ Len(b) < Chunk
    <3>1. Xxh3(a) = Xxh3(b) BY <1>2, <1>6, <2>1
    <3> QED BY <3>1, Xxh3Is
  <2>2. CASE Len(a) < Chunk /\ ~(Len(b) < Chunk)
    <3>1. Xxh3(a) = Final(G[Len(b)], Len(b)) BY <1>2, <1>4, <1>6, <2>2
    <3> QED BY <3>1, ShortIsNotFolded
  <2>3. CASE ~(Len(a) < Chunk) /\ Len(b) < Chunk
    <3>1. Xxh3(b) = Final(F[Len(a)], Len(a)) BY <1>2, <1>3, <1>6, <2>3
    <3> QED BY <3>1, ShortIsNotFolded
  <2>4. CASE ~(Len(a) < Chunk) /\ ~(Len(b) < Chunk)
    <3>1. Final(F[Len(a)], Len(a)) = Final(G[Len(b)], Len(b)) BY <1>2, <1>3, <1>4, <1>6, <2>4
    <3>2. F[Len(a)] = G[Len(b)] /\ Len(a) = Len(b) BY <3>1, FinalIs
    <3> QED BY <1>3, <1>4, <3>2, SamePieces
  <2> QED BY <2>1, <2>2, <2>3, <2>4
<1> QED BY <1>5, <1>6

\* A row's digest, cell by cell.
Folds(hashes, cells, n, F) ==
  /\ F[0] = <<>>
  /\ \A c \in 1 .. n : F[c] = IF c \in cells THEN Mix(F[c - 1], hashes[c]) ELSE F[c - 1]

\* The fold of the chosen cells is built that way.
LEMMA FoldCellsIs ==
  ASSUME NEW n \in Nat, NEW hashes, NEW cells
  PROVE  \E F : Folds(hashes, cells, n, F) /\ FoldCells(hashes, cells, n) = Final(F[n], Cardinality(cells))
<1> DEFINE Put(v, c) == IF c \in cells THEN Mix(v, hashes[c]) ELSE v
           Body(g, c) == IF c = 0 THEN <<>> ELSE Put(g[c - 1], c)
           S == {m \in 0 .. n : \E g : g = [c \in 0 .. m |-> Body(g, c)]}
<1> HIDE DEF Put
<1>3. 0 \in S
  <2>1. PICK g : g = [c \in 0 .. 0 |-> <<>>] OBVIOUS
  <2>2. g = [c \in 0 .. 0 |-> Body(g, c)] BY <2>1
  <2> HIDE DEF Body
  <2> QED BY <2>2
<1>4. ASSUME NEW m \in 0 .. n - 1, m \in S PROVE m + 1 \in S
  <2>1. PICK g : g = [c \in 0 .. m |-> Body(g, c)]
    <3> HIDE DEF Body
    <3> QED BY <1>4
  <2> DEFINE h == [c \in 0 .. m + 1 |-> IF c = m + 1 THEN Body(g, m + 1) ELSE g[c]]
  <2>2. ASSUME NEW c \in 0 .. m + 1 PROVE h[c] = Body(h, c)
    <3>1. CASE c = 0
      <4>1. h[c] = g[0] /\ 0 \in 0 .. m BY <3>1
      <4>2. g[0] = Body(g, 0)
        <5> HIDE DEF Body
        <5> QED BY <2>1, <4>1
      <4> QED BY <3>1, <4>1, <4>2
    <3>2. CASE c # 0
      <4>2. c - 1 \in 0 .. m /\ c - 1 \in 0 .. m + 1 /\ c - 1 # m + 1 BY <3>2
      <4>3. h[c - 1] = g[c - 1] BY <4>2
      <4>4. h[c] = Body(g, c)
        <5>1. CASE c = m + 1 BY <5>1
        <5>2. CASE c # m + 1
          <6>1. c \in 0 .. m BY <5>2
          <6>2. h[c] = g[c] BY <5>2
          <6> HIDE DEF Body, h
          <6> QED BY <2>1, <6>1, <6>2
        <5> QED BY <5>1, <5>2
      <4> HIDE DEF h
      <4> QED BY <3>2, <4>3, <4>4
    <3> QED BY <3>1, <3>2
  <2>3. h = [c \in 0 .. m + 1 |-> h[c]] OBVIOUS
  <2>4. h = [c \in 0 .. m + 1 |-> Body(h, c)]
    <3> HIDE DEF Body, h
    <3> QED BY <2>2, <2>3
  <2> HIDE DEF Body, h
  <2> QED BY <2>4
<1>5. 0 .. n \subseteq S
  <2> HIDE DEF S
  <2> QED BY <1>3, <1>4, UpTo
<1>6. PICK g : g = [c \in 0 .. n |-> Body(g, c)] /\ FoldCells(hashes, cells, n) = Final(g[n], Cardinality(cells))
  <2>1. \E g : g = [c \in 0 .. n |-> Body(g, c)]
    <3>1. n \in S BY <1>5
    <3> HIDE DEF Body
    <3> QED BY <3>1
  <2> QED BY <2>1, Zenon DEF FoldCells, Put
<1>7. \A c \in 0 .. n : g[c] = Body(g, c)
  <2> HIDE DEF Body
  <2> QED BY <1>6
<1>8. g[0] = <<>> /\ \A c \in 1 .. n : g[c] = Put(g[c - 1], c)
  <2>1. 0 \in 0 .. n /\ \A c \in 1 .. n : c \in 0 .. n /\ c # 0 OBVIOUS
  <2> QED BY <1>7, <2>1
<1>9. Folds(hashes, cells, n, g) BY <1>8, Zenon DEF Folds, Put
<1> QED BY <1>6, <1>9

Agree(x, y, cells) == \A c \in cells : x[c] = y[c]

\* Two rows have the same digest of some cells when and only when each of those
\* cells has the same digest in both.
LEMMA FoldCellsTell ==
  ASSUME NEW n \in Nat, NEW cells, cells \subseteq 1 .. n, NEW x, NEW y
  PROVE  FoldCells(x, cells, n) = FoldCells(y, cells, n) <=> Agree(x, y, cells)
<1>1. PICK F : Folds(x, cells, n, F) /\ FoldCells(x, cells, n) = Final(F[n], Cardinality(cells))
  BY FoldCellsIs
<1>2. PICK G : Folds(y, cells, n, G) /\ FoldCells(y, cells, n) = Final(G[n], Cardinality(cells))
  BY FoldCellsIs
<1>3. FoldCells(x, cells, n) = FoldCells(y, cells, n) <=> F[n] = G[n]
  <2>1. Final(F[n], Cardinality(cells)) = Final(G[n], Cardinality(cells)) => F[n] = G[n] BY FinalIs
  <2> QED BY <1>1, <1>2, <2>1
<1> DEFINE S == {m \in 0 .. n : F[m] = G[m] <=> \A c \in cells : c <= m => x[c] = y[c]}
<1>4. 0 \in S
  <2>1. \A c \in cells : ~(c <= 0) OBVIOUS
  <2> QED BY <1>1, <1>2, <2>1 DEF Folds
<1>5. ASSUME NEW m \in 0 .. n - 1, m \in S PROVE m + 1 \in S
  <2>1. m + 1 \in 1 .. n /\ (m + 1) - 1 = m /\ m + 1 \in 0 .. n OBVIOUS
  <2>2. \A c \in cells : c <= m + 1 <=> c <= m \/ c = m + 1 OBVIOUS
  <2>3. F[m] = G[m] <=> \A c \in cells : c <= m => x[c] = y[c] BY <1>5
  <2>4. CASE m + 1 \in cells
    <3>1. F[m + 1] = Mix(F[m], x[m + 1]) /\ G[m + 1] = Mix(G[m], y[m + 1])
      BY <1>1, <1>2, <2>1, <2>4 DEF Folds
    <3>2. F[m + 1] = G[m + 1] <=> F[m] = G[m] /\ x[m + 1] = y[m + 1]
      <4>1. F[m + 1] = G[m + 1] => F[m] = G[m] /\ x[m + 1] = y[m + 1]
        <5>1. PICK a, h, b, k : a = F[m] /\ h = x[m + 1] /\ b = G[m] /\ k = y[m + 1] OBVIOUS
        <5>2. F[m + 1] = Mix(a, h) /\ G[m + 1] = Mix(b, k) BY <3>1, <5>1
        <5>3. Mix(a, h) = Mix(b, k) => a = b /\ h = k BY MixIs
        <5> QED BY <5>1, <5>2, <5>3
      <4> QED BY <3>1, <4>1
    <3>3. F[m + 1] = G[m + 1] <=> \A c \in cells : c <= m + 1 => x[c] = y[c]
      BY <2>2, <2>3, <2>4, <3>2
    <3> QED BY <2>1, <3>3
  <2>5. CASE m + 1 \notin cells
    <3>1. F[m + 1] = F[m] /\ G[m + 1] = G[m] BY <1>1, <1>2, <2>1, <2>5 DEF Folds
    <3>2. F[m + 1] = G[m + 1] <=> \A c \in cells : c <= m + 1 => x[c] = y[c]
      BY <2>2, <2>3, <2>5, <3>1
    <3> QED BY <2>1, <3>2
  <2> QED BY <2>4, <2>5
<1>6. 0 .. n \subseteq S
  <2> HIDE DEF S
  <2> QED BY <1>4, <1>5, UpTo
<1>7. F[n] = G[n] <=> \A c \in cells : x[c] = y[c]
  <2>1. n \in S /\ \A c \in cells : c <= n BY <1>6
  <2> QED BY <2>1
<1> QED BY <1>3, <1>7 DEF Agree

-----------------------------------------------------------------------------
(* Segments as they are pushed.                                            *)

Operations == {"EQUAL", "DELETE", "INSERT"}
Segment == [op : Operations, start : Nat, len : Nat \ {0}]
OutputType ==
  [out : Seq(Segment), cap : Nat, n : Nat, last : Segment \cup {NoSegment}]

LastOf(all) == IF all = <<>> THEN NoSegment ELSE all[Len(all)]

\* An output that was pushed these segments: it counts them all, remembers the last
\* and has written those that its buffer takes.
Holds(o, all) ==
  /\ o \in OutputType
  /\ o.n = Len(all)
  /\ o.last = LastOf(all)
  /\ Len(o.out) = Lesser(o.cap, Len(all))
  /\ \A i \in 1 .. Len(o.out) : o.out[i] = all[i]

\* One segment more, in a list with no bound.
Extended(all, op, start, len) ==
  IF len = 0 THEN all
  ELSE IF LastOf(all).op = op /\ LastOf(all).start + LastOf(all).len = start
  THEN [all EXCEPT ![Len(all)] = [LastOf(all) EXCEPT !.len = @ + len]]
  ELSE Append(all, [op |-> op, start |-> start, len |-> len])

\* The last of a list of segments.
LEMMA LastOfIs ==
  ASSUME NEW all \in Seq(Segment)
  PROVE  /\ Len(all) \in Nat
         /\ LastOf(all) \in Segment \cup {NoSegment}
         /\ LastOf(all).op \in Operations => all # <<>> /\ Len(all) \in 1 .. Len(all)
         /\ all # <<>> => LastOf(all) \in Segment /\ LastOf(all) = all[Len(all)] /\ Len(all) > 0
         /\ all = <<>> <=> Len(all) = 0
<1>1. Len(all) \in Nat /\ (all = <<>> <=> Len(all) = 0) BY EmptySeq, LenProperties
<1>2. all # <<>> => Len(all) > 0 /\ Len(all) \in 1 .. Len(all) BY <1>1
<1>3. all # <<>> => all[Len(all)] \in Segment BY <1>2, ElementOfSeq
<1>4. NoSegment.op \notin Operations BY DEF NoSegment, Operations
<1> QED BY <1>1, <1>2, <1>3, <1>4 DEF LastOf

\* The three things a push can do to a list.
LEMMA ExtendedIs ==
  ASSUME NEW all \in Seq(Segment), NEW op \in Operations, NEW start \in Nat, NEW len \in Nat
  PROVE  \/ len = 0 /\ Extended(all, op, start, len) = all
         \/ /\ len # 0 /\ all # <<>> /\ LastOf(all) \in Segment
            /\ LastOf(all).op = op /\ LastOf(all).start + LastOf(all).len = start
            /\ Extended(all, op, start, len)
                 = [all EXCEPT ![Len(all)] = [LastOf(all) EXCEPT !.len = @ + len]]
         \/ /\ len # 0
            /\ ~(LastOf(all).op = op /\ LastOf(all).start + LastOf(all).len = start)
            /\ Extended(all, op, start, len)
                 = Append(all, [op |-> op, start |-> start, len |-> len])
BY LastOfIs DEF Extended

\* A segment that grew, and a new one.
LEMMA GrownIs ==
  ASSUME NEW s \in Segment, NEW len \in Nat
  PROVE  /\ [s EXCEPT !.len = @ + len] \in Segment
         /\ [s EXCEPT !.len = @ + len].op = s.op
         /\ [s EXCEPT !.len = @ + len].start = s.start
         /\ [s EXCEPT !.len = @ + len].len = s.len + len
BY DEF Segment

\* A list of segments stays one when an op is appended or lengthens its last.
LEMMA ExtendedType ==
  ASSUME NEW all \in Seq(Segment), NEW op \in Operations, NEW start \in Nat, NEW len \in Nat
  PROVE  Extended(all, op, start, len) \in Seq(Segment)
<1> DEFINE new == [op |-> op, start |-> start, len |-> len]
           grown == [LastOf(all) EXCEPT !.len = @ + len]
<1>1. CASE len # 0 /\ all # <<>> /\ LastOf(all) \in Segment
           /\ Extended(all, op, start, len) = [all EXCEPT ![Len(all)] = grown]
  <2>1. grown \in Segment BY <1>1, GrownIs
  <2> HIDE DEF grown
  <2> QED BY <1>1, <2>1, LastOfIs, ExceptSeq
<1>2. CASE len # 0 /\ Extended(all, op, start, len) = Append(all, new)
  <2>1. new \in Segment BY <1>2 DEF Segment
  <2> HIDE DEF new
  <2> QED BY <1>2, <2>1, AppendProperties
<1> QED BY <1>1, <1>2, ExtendedIs

\* What seg_push writes is what it would write to a buffer with no end, cut.
LEMMA PushHolds ==
  ASSUME NEW o, NEW all \in Seq(Segment), Holds(o, all),
         NEW op \in Operations, NEW start \in Nat, NEW len \in Nat
  PROVE  /\ Holds(Push(o, op, start, len), Extended(all, op, start, len))
         /\ Push(o, op, start, len).cap = o.cap
<1> DEFINE p == Push(o, op, start, len)
           e == Extended(all, op, start, len)
           new == [op |-> op, start |-> start, len |-> len]
           grown == [LastOf(all) EXCEPT !.len = @ + len]
<1>1. /\ o \in OutputType /\ o.n = Len(all) /\ o.last = LastOf(all)
      /\ Len(o.out) = Lesser(o.cap, Len(all)) /\ \A i \in 1 .. Len(o.out) : o.out[i] = all[i]
      /\ Len(all) \in Nat /\ o.cap \in Nat /\ o.out \in Seq(Segment) /\ Len(o.out) \in Nat
  BY LastOfIs, LenProperties DEF Holds, OutputType
<1>2. CASE len = 0 BY <1>2 DEF Push, Extended
<1>3. CASE len # 0 /\ LastOf(all).op = op /\ LastOf(all).start + LastOf(all).len = start
  <2>1. all # <<>> /\ LastOf(all) \in Segment /\ Len(all) \in 1 .. Len(all) /\ Len(all) > 0
    BY <1>3, LastOfIs
  <2>2. grown \in Segment BY <2>1, GrownIs
  <2>3. e = [all EXCEPT ![Len(all)] = grown] BY <1>3 DEF Extended
  <2>4. p = [o EXCEPT !.out = IF Len(all) <= o.cap THEN [@ EXCEPT ![Len(all)] = grown] ELSE @,
                      !.last = grown]
    BY <1>1, <1>3 DEF Push
  <2> HIDE DEF grown, e, p
  <2>5. /\ e \in Seq(Segment) /\ Len(e) = Len(all) /\ e[Len(all)] = grown
        /\ \A i \in 1 .. Len(all) : i # Len(all) => e[i] = all[i]
    BY <2>1, <2>2, <2>3, ExceptSeq
  <2>6. LastOf(e) = grown BY <2>1, <2>5, EmptySeq DEF LastOf
  <2>7. CASE Len(all) <= o.cap
    <3>1. Len(o.out) = Len(all) /\ Len(all) \in 1 .. Len(o.out) BY <1>1, <2>1, <2>7 DEF Lesser
    <3> DEFINE out == [o.out EXCEPT ![Len(all)] = grown]
    <3>2. /\ out \in Seq(Segment) /\ Len(out) = Len(all) /\ out[Len(all)] = grown
          /\ \A i \in 1 .. Len(all) : i # Len(all) => out[i] = o.out[i]
      BY <1>1, <2>2, <3>1, ExceptSeq
    <3>3. p = [o EXCEPT !.out = out, !.last = grown] BY <2>4, <2>7
    <3> HIDE DEF out
    <3>4. /\ p \in OutputType /\ p.out = out /\ p.last = grown /\ p.n = o.n /\ p.cap = o.cap
      BY <1>1, <2>2, <3>2, <3>3 DEF OutputType
    <3>5. \A i \in 1 .. Len(all) : out[i] = e[i] BY <1>1, <2>5, <3>1, <3>2
    <3>6. Len(out) = Lesser(o.cap, Len(e)) BY <1>1, <2>5, <3>1, <3>2
    <3>7. Holds(p, e) BY <1>1, <2>5, <2>6, <3>2, <3>4, <3>5, <3>6 DEF Holds
    <3> QED BY <3>4, <3>7 DEF p, e
  <2>8. CASE ~(Len(all) <= o.cap)
    <3>1. p = [o EXCEPT !.last = grown] BY <1>1, <2>4, <2>8 DEF OutputType
    <3>2. /\ p \in OutputType /\ p.out = o.out /\ p.last = grown /\ p.n = o.n /\ p.cap = o.cap
      BY <1>1, <2>2, <3>1 DEF OutputType
    <3>3. \A i \in 1 .. Len(o.out) : i \in 1 .. Len(all) /\ i # Len(all) BY <1>1, <2>8 DEF Lesser
    <3>4. Holds(p, e) BY <1>1, <2>5, <2>6, <3>2, <3>3 DEF Holds
    <3> QED BY <3>2, <3>4 DEF p, e
  <2> QED BY <2>7, <2>8
<1>4. CASE len # 0 /\ ~(LastOf(all).op = op /\ LastOf(all).start + LastOf(all).len = start)
  <2>1. new \in Segment BY <1>4 DEF Segment
  <2>2. e = Append(all, new) BY <1>4 DEF Extended
  <2>3. p = [o EXCEPT !.out = IF Len(all) < o.cap THEN Append(@, new) ELSE @,
                      !.last = new, !.n = @ + 1]
    BY <1>1, <1>4 DEF Push
  <2> HIDE DEF new, e, p
  <2>4. /\ e \in Seq(Segment) /\ Len(e) = Len(all) + 1 /\ e[Len(all) + 1] = new
        /\ \A i \in 1 .. Len(all) : e[i] = all[i]
    BY <2>1, <2>2, AppendProperties
  <2>5. LastOf(e) = new BY <1>1, <2>4, EmptySeq DEF LastOf
  <2>6. CASE Len(all) < o.cap
    <3>1. Len(o.out) = Len(all) BY <1>1, <2>6 DEF Lesser
    <3> DEFINE out == Append(o.out, new)
    <3>2. /\ out \in Seq(Segment) /\ Len(out) = Len(all) + 1 /\ out[Len(all) + 1] = new
          /\ \A i \in 1 .. Len(all) : out[i] = o.out[i]
      BY <1>1, <2>1, <3>1, AppendProperties
    <3>3. p = [out |-> out, cap |-> o.cap, n |-> Len(all) + 1, last |-> new]
      BY <1>1, <2>3, <2>6 DEF OutputType
    <3> HIDE DEF out
    <3>4. /\ p \in OutputType /\ p.out = out /\ p.last = new /\ p.n = Len(all) + 1 /\ p.cap = o.cap
      <4>1. Len(all) + 1 \in Nat BY <1>1
      <4> QED BY <1>1, <2>1, <3>2, <3>3, <4>1 DEF OutputType
    <3>5. \A i \in 1 .. Len(all) + 1 : i \in 1 .. Len(all) \/ i = Len(all) + 1 BY <1>1
    <3>6. \A i \in 1 .. Len(all) + 1 : out[i] = e[i] BY <1>1, <2>4, <3>1, <3>2, <3>5
    <3>7. Len(out) = Lesser(o.cap, Len(e)) BY <1>1, <2>4, <2>6, <3>2 DEF Lesser
    <3>8. Holds(p, e) BY <2>4, <2>5, <3>2, <3>4, <3>6, <3>7 DEF Holds
    <3> QED BY <3>4, <3>8 DEF p, e
  <2>7. CASE ~(Len(all) < o.cap)
    <3>1. p = [out |-> o.out, cap |-> o.cap, n |-> Len(all) + 1, last |-> new]
      BY <1>1, <2>3, <2>7 DEF OutputType
    <3>2. /\ p \in OutputType /\ p.out = o.out /\ p.last = new /\ p.n = Len(all) + 1 /\ p.cap = o.cap
      <4>1. Len(all) + 1 \in Nat BY <1>1
      <4> QED BY <1>1, <2>1, <3>1, <4>1 DEF OutputType
    <3>3. Len(o.out) = Lesser(o.cap, Len(e)) /\ \A i \in 1 .. Len(o.out) : i \in 1 .. Len(all)
      BY <1>1, <2>4, <2>7 DEF Lesser
    <3>4. Holds(p, e) BY <1>1, <2>4, <2>5, <3>2, <3>3 DEF Holds
    <3> QED BY <3>2, <3>4 DEF p, e
  <2> QED BY <2>6, <2>7
<1> QED BY <1>2, <1>3, <1>4

-----------------------------------------------------------------------------
(* Segments that cover two texts up to a position of each.                 *)

\* The bytes of a text from start on.
LEMMA BytesIs ==
  ASSUME NEW p \in Seq(Byte), NEW start \in Nat, NEW len \in Nat, start + len <= Len(p)
  PROVE  /\ Bytes(p, start, len) \in Seq(Byte) /\ Len(Bytes(p, start, len)) = len
         /\ \A i \in 1 .. len : Bytes(p, start, len)[i] = p[start + i]
<1>1. Len(p) \in Nat /\ start + 1 \in 1 .. Len(p) + 1 /\ start + len \in (start + 1) - 1 .. Len(p)
  BY LenProperties
<1>2. /\ SubSeq(p, start + 1, start + len) \in Seq(Byte)
      /\ Len(SubSeq(p, start + 1, start + len)) = (start + len) - (start + 1) + 1
      /\ \A i \in 1 .. (start + len) - (start + 1) + 1 :
           SubSeq(p, start + 1, start + len)[i] = p[(start + 1) + i - 1]
  BY <1>1, SubSeqProperties
<1>3. (start + len) - (start + 1) + 1 = len /\ \A i \in 1 .. len : (start + 1) + i - 1 = start + i
  OBVIOUS
<1> QED BY <1>2, <1>3 DEF Bytes

\* Two ranges hold the same bytes, byte by byte.
Alike(p, s, q, t, len) == \A i \in 1 .. len : p[s + i] = q[t + i]

\* Two ranges of equal length hold the same bytes when and only when they do byte by
\* byte.
LEMMA SameBytes ==
  ASSUME NEW p \in Seq(Byte), NEW q \in Seq(Byte), NEW s \in Nat, NEW t \in Nat, NEW len \in Nat,
         s + len <= Len(p), t + len <= Len(q), Bytes(p, s, len) = Bytes(q, t, len)
  PROVE  Alike(p, s, q, t, len)
<1>1. /\ \A i \in 1 .. len : Bytes(p, s, len)[i] = p[s + i]
      /\ \A i \in 1 .. len : Bytes(q, t, len)[i] = q[t + i]
  BY BytesIs
<1> QED BY <1>1 DEF Alike

\* Texts alike byte by byte over a length hold the same bytes there.
LEMMA EqualBytes ==
  ASSUME NEW p \in Seq(Byte), NEW q \in Seq(Byte), NEW s \in Nat, NEW t \in Nat, NEW len \in Nat,
         s + len <= Len(p), t + len <= Len(q), Alike(p, s, q, t, len)
  PROVE  Bytes(p, s, len) = Bytes(q, t, len)
<1>1. /\ Bytes(p, s, len) \in Seq(Byte) /\ Len(Bytes(p, s, len)) = len
      /\ \A i \in 1 .. len : Bytes(p, s, len)[i] = p[s + i]
      /\ Bytes(q, t, len) \in Seq(Byte) /\ Len(Bytes(q, t, len)) = len
      /\ \A i \in 1 .. len : Bytes(q, t, len)[i] = q[t + i]
  BY BytesIs
<1>2. \A i \in 1 .. len : Bytes(p, s, len)[i] = Bytes(q, t, len)[i] BY <1>1 DEF Alike
<1> QED BY <1>1, <1>2, SeqEqual

\* Equal ranges that follow equal ranges make longer ones.
LEMMA JoinedBytes ==
  ASSUME NEW p \in Seq(Byte), NEW q \in Seq(Byte), NEW s \in Nat, NEW t \in Nat,
         NEW m \in Nat, NEW n \in Nat, s + m + n <= Len(p), t + m + n <= Len(q),
         Bytes(p, s, m) = Bytes(q, t, m), Bytes(p, s + m, n) = Bytes(q, t + m, n)
  PROVE  Bytes(p, s, m + n) = Bytes(q, t, m + n)
<1> DEFINE s2 == s + m
           t2 == t + m
           len == m + n
<1>0. /\ Len(p) \in Nat /\ Len(q) \in Nat /\ s2 \in Nat /\ t2 \in Nat /\ len \in Nat
      /\ s2 <= Len(p) /\ t2 <= Len(q) /\ s2 + n <= Len(p) /\ t2 + n <= Len(q)
      /\ s + len <= Len(p) /\ t + len <= Len(q)
      /\ Bytes(p, s2, n) = Bytes(q, t2, n)
  BY LenProperties
<1>1. ASSUME NEW i \in 1 .. len
      PROVE  \/ i \in 1 .. m
             \/ i - m \in 1 .. n /\ s2 + (i - m) = s + i /\ t2 + (i - m) = t + i
  OBVIOUS
<1>2. Alike(p, s, q, t, m) BY <1>0, SameBytes
<1> HIDE DEF s2, t2, len
<1>3. Alike(p, s2, q, t2, n) BY <1>0, SameBytes
<1>4. ASSUME NEW i \in 1 .. len PROVE p[s + i] = q[t + i] BY <1>1, <1>2, <1>3 DEF Alike
<1>5. Bytes(p, s, len) = Bytes(q, t, len)
  <2>1. Alike(p, s, q, t, len) BY <1>4 DEF Alike
  <2>2. len \in Nat /\ s + len <= Len(p) /\ t + len <= Len(q) BY <1>0
  <2> QED BY <2>1, <2>2, EqualBytes
<1> QED BY <1>5 DEF len

Spots(a, b) == [a : 0 .. Len(a), b : 0 .. Len(b)]
Spot(x, y) == [a |-> x, b |-> y]

\* Where a segment at a pair of positions leads.
Onto(at, s) ==
  [a |-> at.a + IF s.op = "INSERT" THEN 0 ELSE s.len,
   b |-> at.b + IF s.op = "DELETE" THEN 0 ELSE s.len]

\* Every segment begins where the one before it ended and fits there.
Leads(all, u, a, b, x, y) ==
  /\ u \in [0 .. Len(all) -> Spots(a, b)]
  /\ u[0] = Spot(0, 0) /\ u[Len(all)] = Spot(x, y)
  /\ \A i \in 1 .. Len(all) : u[i] = Onto(u[i - 1], all[i]) /\ SegmentFits(all[i], u[i - 1], a, b)

Covering(all, a, b, x, y) == \E u : Leads(all, u, a, b, x, y)

\* A segment that goes on where one of the same kind ends makes a longer one.
LEMMA GrownFits ==
  ASSUME NEW a \in Seq(Byte), NEW b \in Seq(Byte), NEW s \in Segment, NEW at \in Spots(a, b),
         SegmentFits(s, at, a, b), Onto(at, s) \in Spots(a, b),
         NEW t \in Segment, t.op = s.op, SegmentFits(t, Onto(at, s), a, b),
         Onto(Onto(at, s), t) \in Spots(a, b)
  PROVE  /\ SegmentFits([s EXCEPT !.len = @ + t.len], at, a, b)
         /\ Onto(at, [s EXCEPT !.len = @ + t.len]) = Onto(Onto(at, s), t)
<1> DEFINE g == [s EXCEPT !.len = @ + t.len]
           to == Onto(at, s)
<1>1. /\ g \in Segment /\ g.op = s.op /\ g.start = s.start /\ g.len = s.len + t.len
      /\ s.len \in Nat /\ t.len \in Nat /\ s.op \in Operations /\ s.len > 0
  <2>1. t.len \in Nat /\ s.len \in Nat /\ s.op \in Operations /\ s.len > 0 BY DEF Segment
  <2> QED BY <2>1, GrownIs
<1> HIDE DEF g
<1>2. /\ at.a \in Nat /\ at.b \in Nat /\ Len(a) \in Nat /\ Len(b) \in Nat
      /\ to.a = at.a + IF s.op = "INSERT" THEN 0 ELSE s.len
      /\ to.b = at.b + IF s.op = "DELETE" THEN 0 ELSE s.len
      /\ to.a <= Len(a) /\ to.b <= Len(b)
  BY LenProperties DEF Onto, Spots
<1>3. /\ Onto(to, t).a = to.a + IF s.op = "INSERT" THEN 0 ELSE t.len
      /\ Onto(to, t).b = to.b + IF s.op = "DELETE" THEN 0 ELSE t.len
      /\ Onto(to, t).a <= Len(a) /\ Onto(to, t).b <= Len(b)
  BY LenProperties DEF Onto, Spots
<1>4. Onto(at, g) = Onto(to, t)
  <2>1. /\ s.op # "INSERT" => at.a + g.len = to.a + t.len
        /\ s.op # "DELETE" => at.b + g.len = to.b + t.len
        /\ s.op = "INSERT" => at.a + 0 = to.a + 0
        /\ s.op = "DELETE" => at.b + 0 = to.b + 0
    BY <1>1, <1>2
  <2> QED BY <1>1, <2>1 DEF Onto
<1>5. s.op = "EQUAL" => Bytes(a, at.a, g.len) = Bytes(b, at.b, g.len)
  <2> SUFFICES ASSUME s.op = "EQUAL" PROVE Bytes(a, at.a, g.len) = Bytes(b, at.b, g.len) OBVIOUS
  <2>1. to.a = at.a + s.len /\ to.b = at.b + s.len BY <1>2
  <2>2. at.a + s.len + t.len <= Len(a) /\ at.b + s.len + t.len <= Len(b) BY <1>1, <1>2, <1>3
  <2>3. Bytes(a, at.a, s.len) = Bytes(b, at.b, s.len) BY DEF SegmentFits
  <2>4. Bytes(a, at.a + s.len, t.len) = Bytes(b, at.b + s.len, t.len) BY <2>1 DEF SegmentFits
  <2>5. Bytes(a, at.a, s.len + t.len) = Bytes(b, at.b, s.len + t.len)
    BY <1>1, <1>2, <2>2, <2>3, <2>4, JoinedBytes
  <2> QED BY <1>1, <2>5
<1>6. /\ s.op # "INSERT" => at.a + g.len = to.a + t.len
      /\ s.op # "DELETE" => at.b + g.len = to.b + t.len
      /\ g.len > 0
  BY <1>1, <1>2
<1>7. g.start = IF g.op = "INSERT" THEN at.b ELSE at.a BY <1>1 DEF SegmentFits
<1>8. \/ /\ s.op # "INSERT" => WholeAt(a, to.a + t.len)
         /\ s.op # "DELETE" => WholeAt(b, to.b + t.len)
      \/ ~(WellFormed(a) /\ WellFormed(b))
  BY DEF SegmentFits
<1>9. SegmentFits(g, at, a, b) BY <1>1, <1>5, <1>6, <1>7, <1>8 DEF SegmentFits
<1> QED BY <1>4, <1>9 DEF g

\* What seg_push is given fits where the list has got to: the longer list gets on.
LEMMA ExtendedCovers ==
  ASSUME NEW a \in Seq(Byte), NEW b \in Seq(Byte), NEW all \in Seq(Segment),
         NEW x \in 0 .. Len(a), NEW y \in 0 .. Len(b), Covering(all, a, b, x, y),
         NEW op \in Operations, NEW start \in Nat, NEW len \in Nat,
         len # 0 => SegmentFits([op |-> op, start |-> start, len |-> len], Spot(x, y), a, b),
         NEW v \in 0 .. Len(a), NEW w \in 0 .. Len(b),
         v = x + IF op = "INSERT" THEN 0 ELSE len, w = y + IF op = "DELETE" THEN 0 ELSE len
  PROVE  Covering(Extended(all, op, start, len), a, b, v, w)
<1> DEFINE t == [op |-> op, start |-> start, len |-> len]
           e == Extended(all, op, start, len)
<1>0. Len(all) \in Nat /\ x \in Int /\ y \in Int /\ Len(a) \in Nat /\ Len(b) \in Nat
  BY LenProperties
<1>1. PICK u : Leads(all, u, a, b, x, y) BY DEF Covering
<1>2. /\ u \in [0 .. Len(all) -> Spots(a, b)]
      /\ u[0] = Spot(0, 0) /\ u[Len(all)] = Spot(x, y)
      /\ \A i \in 1 .. Len(all) :
           u[i] = Onto(u[i - 1], all[i]) /\ SegmentFits(all[i], u[i - 1], a, b)
  BY <1>1 DEF Leads
<1>3. Onto(Spot(x, y), t) = Spot(v, w) /\ Spot(v, w) \in Spots(a, b) BY DEF Onto, Spot, Spots
<1>4. CASE len = 0
  <2>1. v = x /\ w = y /\ e = all BY <1>0, <1>4 DEF Extended
  <2> QED BY <2>1
<1>5. CASE len # 0 /\ all # <<>> /\ LastOf(all) \in Segment
           /\ LastOf(all).op = op
           /\ e = [all EXCEPT ![Len(all)] = [LastOf(all) EXCEPT !.len = @ + len]]
  <2> DEFINE s == LastOf(all)
             g == [s EXCEPT !.len = @ + t.len]
             n == Len(all)
             h == [u EXCEPT ![n] = Spot(v, w)]
  <2>1. n \in 1 .. n /\ n - 1 \in 0 .. n /\ n \in 0 .. n /\ s = all[n] /\ n # 0 /\ n - 1 # n
    BY <1>0, <1>5, LastOfIs
  <2>2. t \in Segment /\ t.op = s.op /\ t.len = len BY <1>5 DEF Segment
  <2>3. u[n] = Onto(u[n - 1], s) /\ SegmentFits(s, u[n - 1], a, b) BY <1>2, <2>1
  <2>4. u[n - 1] \in Spots(a, b) /\ u[n] \in Spots(a, b) /\ u[n] = Spot(x, y) BY <1>2, <2>1
  <2>5. SegmentFits(t, Spot(x, y), a, b) BY <1>5
  <2> HIDE DEF t, s
  <2>6. SegmentFits(g, u[n - 1], a, b) /\ Onto(u[n - 1], g) = Spot(v, w)
    <3>1. s \in Segment BY <1>5 DEF s
    <3>2. Onto(u[n - 1], s) \in Spots(a, b) /\ Onto(u[n - 1], s) = Spot(x, y) BY <2>3, <2>4
    <3>3. SegmentFits(t, Onto(u[n - 1], s), a, b) /\ Onto(Onto(u[n - 1], s), t) = Spot(v, w)
      BY <1>3, <2>5, <3>2
    <3>4. Onto(Onto(u[n - 1], s), t) \in Spots(a, b) BY <1>3, <3>3
    <3> HIDE DEF n
    <3>5. SegmentFits(g, u[n - 1], a, b) /\ Onto(u[n - 1], g) = Onto(Onto(u[n - 1], s), t)
      BY <2>2, <2>3, <2>4, <3>1, <3>2, <3>3, <3>4, GrownFits
    <3> QED BY <3>3, <3>5
  <2>7. g \in Segment BY <1>5, <2>2, GrownIs DEF s
  <2>8. e = [all EXCEPT ![n] = g] BY <1>5, <2>2 DEF s
  <2> HIDE DEF g, e
  <2>9. /\ Len(e) = n /\ e[n] = g
        /\ \A i \in 1 .. n : i # n => e[i] = all[i]
    BY <2>1, <2>7, <2>8, ExceptSeq
  <2>10. /\ h \in [0 .. n -> Spots(a, b)] /\ h[n] = Spot(v, w)
         /\ \A i \in 0 .. n : i # n => h[i] = u[i]
    BY <1>2, <1>3, <2>1
  <2> HIDE DEF h
  <2>11. ASSUME NEW i \in 1 .. n
         PROVE  h[i] = Onto(h[i - 1], e[i]) /\ SegmentFits(e[i], h[i - 1], a, b)
    <3>1. i - 1 \in 0 .. n /\ i - 1 # n /\ i \in 0 .. n BY <1>0
    <3>2. CASE i = n BY <2>6, <2>9, <2>10, <3>1, <3>2
    <3>3. CASE i # n BY <1>2, <2>9, <2>10, <3>1, <3>3
    <3> QED BY <3>2, <3>3
  <2>12. Leads(e, h, a, b, v, w)
    <3>1. h[0] = Spot(0, 0) BY <1>0, <1>2, <2>1, <2>10
    <3> QED BY <2>9, <2>10, <2>11, <3>1 DEF Leads
  <2> QED BY <2>12 DEF Covering, e
<1>6. CASE len # 0 /\ e = Append(all, t)
  <2> DEFINE n == Len(all)
             h == [i \in 0 .. n + 1 |-> IF i = n + 1 THEN Spot(v, w) ELSE u[i]]
  <2>1. t \in Segment BY <1>6 DEF Segment
  <2>2. SegmentFits(t, Spot(x, y), a, b) BY <1>6
  <2> HIDE DEF t, e
  <2>3. /\ Len(e) = n + 1 /\ e[n + 1] = t
        /\ \A i \in 1 .. n : e[i] = all[i]
    BY <1>6, <2>1, AppendProperties
  <2>4. \A i \in 0 .. n + 1 : i = n + 1 \/ (i # n + 1 /\ i \in 0 .. n) BY <1>0
  <2>5. n + 1 \in 0 .. n + 1 /\ 0 \in 0 .. n + 1 /\ 0 # n + 1 /\ n \in 0 .. n + 1 /\ n # n + 1
    BY <1>0
  <2>6. /\ h \in [0 .. n + 1 -> Spots(a, b)] /\ h[n + 1] = Spot(v, w)
        /\ \A i \in 0 .. n : h[i] = u[i]
    BY <1>0, <1>2, <1>3, <2>4, <2>5
  <2> HIDE DEF h
  <2>7. ASSUME NEW i \in 1 .. n + 1
        PROVE  h[i] = Onto(h[i - 1], e[i]) /\ SegmentFits(e[i], h[i - 1], a, b)
    <3>1. CASE i = n + 1
      <4>1. h[n] = Spot(x, y) /\ i - 1 = n BY <1>0, <1>2, <2>5, <2>6, <3>1
      <4> QED BY <1>3, <2>2, <2>3, <2>6, <3>1, <4>1
    <3>2. CASE i # n + 1
      <4>1. i \in 1 .. n /\ i - 1 \in 0 .. n /\ i \in 0 .. n BY <1>0, <3>2
      <4> QED BY <1>2, <2>3, <2>6, <4>1
    <3> QED BY <3>1, <3>2
  <2>8. Leads(e, h, a, b, v, w)
    <3>1. h[0] = Spot(0, 0) BY <1>0, <1>2, <2>6
    <3> QED BY <2>3, <2>6, <2>7, <3>1 DEF Leads
  <2> QED BY <2>8 DEF Covering, e
<1> QED BY <1>4, <1>5, <1>6, ExtendedIs

\* Two outputs, one with a buffer of cap, that were pushed the same segments: they
\* cover the texts up to x and y.
Together(cap, o, p, a, b, x, y) ==
  /\ x \in 0 .. Len(a) /\ y \in 0 .. Len(b)
  /\ p.cap = cap
  /\ \E all \in Seq(Segment) : Holds(o, all) /\ Holds(p, all) /\ Covering(all, a, b, x, y)

\* No character of two texts that are UTF-8 is cut at a position of one of them.
Clean(a, b, p, i) == WholeAt(p, i) \/ ~(WellFormed(a) /\ WellFormed(b))

\* Nothing has been pushed yet.
LEMMA OutputsTogether ==
  ASSUME NEW a \in Seq(Byte), NEW b \in Seq(Byte), NEW cap \in Nat, NEW other \in Nat
  PROVE  Together(cap, Output(other), Output(cap), a, b, 0, 0)
<1> DEFINE none == <<>>
           u == [i \in 0 .. 0 |-> Spot(0, 0)]
<1>0. Len(a) \in Nat /\ Len(b) \in Nat /\ 0 \in 0 .. Len(a) /\ 0 \in 0 .. Len(b) BY LenProperties
<1>1. none \in Seq(Segment) /\ Len(none) = 0 BY EmptySeq
<1>2. ASSUME NEW c \in Nat PROVE Holds(Output(c), none)
  <2>1. Output(c) \in OutputType BY <1>1 DEF Output, OutputType
  <2> QED BY <1>1, <2>1 DEF Holds, Output, LastOf, Lesser
<1>3. Leads(none, u, a, b, 0, 0)
  <2>1. u \in [0 .. 0 -> Spots(a, b)] /\ u[0] = Spot(0, 0) BY <1>0 DEF Spots, Spot
  <2> HIDE DEF u, none
  <2>2. 1 .. 0 = {} OBVIOUS
  <2> QED BY <1>1, <2>1, <2>2 DEF Leads
<1>4. Covering(none, a, b, 0, 0)
  <2> HIDE DEF u, none
  <2> QED BY <1>3 DEF Covering
<1>5. Output(cap).cap = cap BY DEF Output
<1> HIDE DEF none
<1> QED BY <1>0, <1>1, <1>2, <1>4, <1>5 DEF Together

\* Both are pushed one segment more, that fits.
LEMMA PushTogether ==
  ASSUME NEW a \in Seq(Byte), NEW b \in Seq(Byte), NEW cap \in Nat, NEW o, NEW p, NEW x, NEW y,
         Together(cap, o, p, a, b, x, y),
         NEW op \in Operations, NEW start \in Nat, NEW len \in Nat,
         len # 0 => SegmentFits([op |-> op, start |-> start, len |-> len], Spot(x, y), a, b),
         NEW v \in 0 .. Len(a), NEW w \in 0 .. Len(b),
         v = x + IF op = "INSERT" THEN 0 ELSE len, w = y + IF op = "DELETE" THEN 0 ELSE len
  PROVE  Together(cap, Push(o, op, start, len), Push(p, op, start, len), a, b, v, w)
<1>1. PICK all \in Seq(Segment) : Holds(o, all) /\ Holds(p, all) /\ Covering(all, a, b, x, y)
  BY DEF Together
<1> DEFINE e == Extended(all, op, start, len)
<1>2. e \in Seq(Segment) BY ExtendedType
<1>3. /\ Holds(Push(o, op, start, len), e) /\ Holds(Push(p, op, start, len), e)
      /\ Push(p, op, start, len).cap = cap
  BY <1>1, PushHolds DEF Together
<1>4. x \in 0 .. Len(a) /\ y \in 0 .. Len(b) BY DEF Together
<1>5. Covering(e, a, b, v, w) BY <1>1, <1>4, ExtendedCovers
<1> HIDE DEF e
<1> QED BY <1>2, <1>3, <1>5 DEF Together

\* Bytes of both texts that are the same take both outputs over them.
LEMMA PushEqual ==
  ASSUME NEW a \in Seq(Byte), NEW b \in Seq(Byte), NEW cap \in Nat, NEW o, NEW p, NEW x, NEW y,
         Together(cap, o, p, a, b, x, y),
         NEW len \in Nat, x + len <= Len(a), y + len <= Len(b), Bytes(a, x, len) = Bytes(b, y, len),
         len # 0 => Clean(a, b, a, x + len) /\ Clean(a, b, b, y + len)
  PROVE  Together(cap, Push(o, "EQUAL", x, len), Push(p, "EQUAL", x, len), a, b, x + len, y + len)
<1>0. Len(a) \in Nat /\ Len(b) \in Nat /\ x \in Nat /\ y \in Nat BY LenProperties DEF Together
<1> DEFINE s == [op |-> "EQUAL", start |-> x, len |-> len]
<1>1. len # 0 => SegmentFits(s, Spot(x, y), a, b) BY <1>0 DEF SegmentFits, Spot, Clean
<1>2. x + len \in 0 .. Len(a) /\ y + len \in 0 .. Len(b) /\ "EQUAL" \in Operations
  BY <1>0 DEF Operations
<1> DEFINE v == x + len
           w == y + len
<1>3. v = x + (IF "EQUAL" = "INSERT" THEN 0 ELSE len) /\ w = y + (IF "EQUAL" = "DELETE" THEN 0 ELSE len)
  OBVIOUS
<1> HIDE DEF v, w
<1>4. v \in 0 .. Len(a) /\ w \in 0 .. Len(b) BY <1>2 DEF v, w
<1>5. Together(cap, Push(o, "EQUAL", x, len), Push(p, "EQUAL", x, len), a, b, v, w)
  BY <1>0, <1>1, <1>2, <1>3, <1>4, PushTogether
<1> QED BY <1>5 DEF v, w

\* Bytes of the first text take both outputs over them.
LEMMA PushDelete ==
  ASSUME NEW a \in Seq(Byte), NEW b \in Seq(Byte), NEW cap \in Nat, NEW o, NEW p, NEW x, NEW y,
         Together(cap, o, p, a, b, x, y),
         NEW len \in Nat, x + len <= Len(a), len # 0 => Clean(a, b, a, x + len)
  PROVE  Together(cap, Push(o, "DELETE", x, len), Push(p, "DELETE", x, len), a, b, x + len, y)
<1>0. Len(a) \in Nat /\ Len(b) \in Nat /\ x \in Nat /\ y \in Nat /\ y \in 0 .. Len(b)
  BY LenProperties DEF Together
<1> DEFINE s == [op |-> "DELETE", start |-> x, len |-> len]
<1>1. len # 0 => SegmentFits(s, Spot(x, y), a, b) BY <1>0 DEF SegmentFits, Spot, Clean
<1> DEFINE v == x + len
<1>2. /\ v \in 0 .. Len(a) /\ "DELETE" \in Operations
      /\ v = x + (IF "DELETE" = "INSERT" THEN 0 ELSE len)
      /\ y = y + (IF "DELETE" = "DELETE" THEN 0 ELSE len)
  BY <1>0 DEF Operations
<1> HIDE DEF v
<1>3. Together(cap, Push(o, "DELETE", x, len), Push(p, "DELETE", x, len), a, b, v, y)
  BY <1>0, <1>1, <1>2, PushTogether
<1> QED BY <1>3 DEF v

\* Bytes of the second text take both outputs over them.
LEMMA PushInsert ==
  ASSUME NEW a \in Seq(Byte), NEW b \in Seq(Byte), NEW cap \in Nat, NEW o, NEW p, NEW x, NEW y,
         Together(cap, o, p, a, b, x, y),
         NEW len \in Nat, y + len <= Len(b), len # 0 => Clean(a, b, b, y + len)
  PROVE  Together(cap, Push(o, "INSERT", y, len), Push(p, "INSERT", y, len), a, b, x, y + len)
<1>0. Len(a) \in Nat /\ Len(b) \in Nat /\ x \in Nat /\ y \in Nat /\ x \in 0 .. Len(a)
  BY LenProperties DEF Together
<1> DEFINE s == [op |-> "INSERT", start |-> y, len |-> len]
<1>1. len # 0 => SegmentFits(s, Spot(x, y), a, b) BY <1>0 DEF SegmentFits, Spot, Clean
<1> DEFINE w == y + len
<1>2. /\ w \in 0 .. Len(b) /\ "INSERT" \in Operations
      /\ x = x + (IF "INSERT" = "INSERT" THEN 0 ELSE len)
      /\ w = y + (IF "INSERT" = "DELETE" THEN 0 ELSE len)
  BY <1>0 DEF Operations
<1> HIDE DEF w
<1>3. Together(cap, Push(o, "INSERT", y, len), Push(p, "INSERT", y, len), a, b, x, w)
  BY <1>0, <1>1, <1>2, PushTogether
<1> QED BY <1>3 DEF w

\* One span taken out and another put in.
LEMMA ReplacedTogether ==
  ASSUME NEW a \in Seq(Byte), NEW b \in Seq(Byte), NEW cap \in Nat, NEW o, NEW p, NEW x, NEW y,
         Together(cap, o, p, a, b, x, y),
         NEW alen \in Nat, NEW blen \in Nat, x + alen <= Len(a), y + blen <= Len(b),
         alen # 0 => Clean(a, b, a, x + alen), blen # 0 => Clean(a, b, b, y + blen)
  PROVE  Together(cap, Replaced(o, x, alen, y, blen), Replaced(p, x, alen, y, blen),
                  a, b, x + alen, y + blen)
<1> DEFINE v == x + alen
           o2 == Push(o, "DELETE", x, alen)
           p2 == Push(p, "DELETE", x, alen)
<1>1. Together(cap, o2, p2, a, b, v, y) BY PushDelete
<1> HIDE DEF v, o2, p2
<1>2. Together(cap, Push(o2, "INSERT", y, blen), Push(p2, "INSERT", y, blen), a, b, v, y + blen)
  BY <1>1, PushInsert
<1> QED BY <1>2 DEF v, o2, p2, Replaced

\* When the first counts as many as the second's buffer takes, the second holds
\* segments that cover the texts.
LEMMA TogetherAnswers ==
  ASSUME NEW a \in Seq(Byte), NEW b \in Seq(Byte), NEW cap \in Nat, NEW o, NEW p,
         Together(cap, o, p, a, b, Len(a), Len(b)), o.n = cap
  PROVE  p.n = cap /\ Len(p.out) = cap /\ Covers(p.out, a, b)
<1>1. PICK all \in Seq(Segment) :
        Holds(o, all) /\ Holds(p, all) /\ Covering(all, a, b, Len(a), Len(b))
  BY DEF Together
<1>2. /\ Len(all) = cap /\ p.n = cap /\ p.cap = cap /\ p.out \in Seq(Segment)
      /\ Len(p.out) = Lesser(p.cap, Len(all)) /\ \A i \in 1 .. Len(p.out) : p.out[i] = all[i]
  BY <1>1 DEF Together, Holds, OutputType
<1>3. Len(p.out) = Len(all) BY <1>2 DEF Lesser
<1>4. p.out = all BY <1>2, <1>3, SeqEqual
<1>5. PICK u : Leads(all, u, a, b, Len(a), Len(b)) BY <1>1 DEF Covering
<1>6. Covers(all, a, b)
  <2> DEFINE n == Len(all)
             Body(f, i) ==
               IF i = 0 THEN [a |-> 0, b |-> 0]
               ELSE [a |-> f[i - 1].a + IF all[i].op = "INSERT" THEN 0 ELSE all[i].len,
                     b |-> f[i - 1].b + IF all[i].op = "DELETE" THEN 0 ELSE all[i].len]
  <2>1. n \in Nat BY <1>2
  <2>2. /\ u \in [0 .. n -> Spots(a, b)] /\ u[0] = Spot(0, 0) /\ u[n] = Spot(Len(a), Len(b))
        /\ \A i \in 1 .. n : u[i] = Onto(u[i - 1], all[i]) /\ SegmentFits(all[i], u[i - 1], a, b)
    BY <1>5 DEF Leads
  <2>3. \A i \in 0 .. n : i = 0 \/ i \in 1 .. n BY <2>1
  <2>4. ASSUME NEW i \in 0 .. n PROVE u[i] = Body(u, i) BY <2>2, <2>3 DEF Onto, Spot
  <2>5. u = [i \in 0 .. n |-> Body(u, i)]
    <3> HIDE DEF Body
    <3>1. u = [i \in 0 .. n |-> u[i]] BY <2>2
    <3> QED BY <2>4, <3>1
  <2> DEFINE Right(f) == /\ f[n] = [a |-> Len(a), b |-> Len(b)]
                         /\ \A i \in DOMAIN all : SegmentFits(all[i], f[i - 1], a, b)
  <2>6. PICK g : g = [i \in 0 .. n |-> Body(g, i)] /\ (Covers(all, a, b) <=> Right(g))
    <3>1. \E g : g = [i \in 0 .. n |-> Body(g, i)]
      <4> HIDE DEF Body
      <4> QED BY <2>5
    <3> QED BY <3>1, Zenon DEF Covers
  <2>7. g = u
    <3>1. \A i \in 0 .. n : g[i] = Body(g, i)
      <4> HIDE DEF Body
      <4> QED BY <2>6
    <3>2. g[0] = u[0]
      <4>1. 0 \in 0 .. n BY <2>1
      <4> QED BY <2>4, <3>1, <4>1
    <3>3. ASSUME NEW i \in 0 .. n - 1, g[i] = u[i] PROVE g[i + 1] = u[i + 1]
      <4>1. i + 1 \in 0 .. n /\ i + 1 # 0 /\ (i + 1) - 1 = i BY <2>1
      <4> QED BY <2>4, <3>1, <3>3, <4>1
    <3>4. g = [i \in 0 .. n |-> g[i]] /\ u = [i \in 0 .. n |-> u[i]]
      <4> HIDE DEF Body
      <4> QED BY <2>2, <2>6
    <3> HIDE DEF Body, n
    <3> QED BY <2>1, <3>2, <3>3, <3>4, SameRecursion, ZenonT(60)
  <2>8. Right(u)
    <3>1. DOMAIN all = 1 .. n BY LenProperties
    <3> QED BY <2>2, <3>1 DEF Spot
  <2> QED BY <2>6, <2>7, <2>8
<1> QED BY <1>2, <1>3, <1>4, <1>6

-----------------------------------------------------------------------------
(* The elements of a text: tokenize.                                       *)

Element == [start : Nat, len : Nat \ {0}]

\* Where element i begins, or where the elements end.
StartOf(e, i, hi) == IF i <= Len(e) THEN e[i].start ELSE hi

\* Elements one after the other from lo to hi.
Tiles(e, lo, hi) ==
  /\ e \in Seq(Element) /\ lo \in Nat /\ hi \in Nat
  /\ StartOf(e, 1, hi) = lo
  /\ \A i \in 1 .. Len(e) :
       /\ e[i].start + e[i].len = StartOf(e, i + 1, hi)
       /\ e[i].start >= lo /\ e[i].start + e[i].len <= hi

\* And cut only where an element may begin.
Cuts(p, e, word) ==
  \A i \in 1 .. Len(e) :
    e[i].start + e[i].len = Len(p) \/ StartsAt(p, e[i].start + e[i].len, word)

\* Where the element at i ends.
EndFrom(p, i, word) ==
  CHOOSE j \in i + 1 .. Len(p) :
    /\ j = Len(p) \/ StartsAt(p, j, word)
    /\ \A x \in i + 1 .. j - 1 : ~StartsAt(p, x, word)

\* The end found is past the beginning, and an element begins there or the text ends.
LEMMA EndFromIs ==
  ASSUME NEW p \in Seq(Byte), NEW word, NEW i \in 0 .. Len(p) - 1
  PROVE  /\ EndFrom(p, i, word) \in i + 1 .. Len(p)
         /\ EndFrom(p, i, word) = Len(p) \/ StartsAt(p, EndFrom(p, i, word), word)
<1>0. Len(p) \in Nat BY LenProperties
<1> DEFINE T == {j \in i + 1 .. Len(p) : j = Len(p) \/ StartsAt(p, j, word)}
<1>1. T \in SUBSET Nat /\ Len(p) \in T BY <1>0
<1> HIDE DEF T
<1>2. PICK j \in T : \A k \in T : j <= k BY <1>1, LeastElement
<1>3. j \in i + 1 .. Len(p) /\ (j = Len(p) \/ StartsAt(p, j, word)) BY <1>2 DEF T
<1>4. ASSUME NEW x \in i + 1 .. j - 1 PROVE ~StartsAt(p, x, word)
  <2>1. x \in i + 1 .. Len(p) /\ ~(j <= x) BY <1>0, <1>3
  <2>2. x \notin T BY <1>2, <2>1
  <2> QED BY <2>1, <2>2 DEF T
<1> DEFINE Ends(k) == /\ k = Len(p) \/ StartsAt(p, k, word)
                      /\ \A x \in i + 1 .. k - 1 : ~StartsAt(p, x, word)
<1>5. \E k \in i + 1 .. Len(p) : Ends(k) BY <1>3, <1>4
<1>6. EndFrom(p, i, word) = CHOOSE k \in i + 1 .. Len(p) : Ends(k) BY DEF EndFrom
<1>7. EndFrom(p, i, word) \in i + 1 .. Len(p) /\ Ends(EndFrom(p, i, word))
  <2> HIDE DEF Ends
  <2> QED BY <1>5, <1>6
<1> QED BY <1>7

\* The first of some elements is put before the others.
LEMMA TilesFrom ==
  ASSUME NEW p \in Seq(Byte), NEW word, NEW i \in Nat, NEW j \in Nat, i < j,
         NEW rest, Tiles(rest, j, Len(p)), Cuts(p, rest, word),
         j = Len(p) \/ StartsAt(p, j, word)
  PROVE  /\ Tiles(<<[start |-> i, len |-> j - i]>> \o rest, i, Len(p))
         /\ Cuts(p, <<[start |-> i, len |-> j - i]>> \o rest, word)
<1> DEFINE first == [start |-> i, len |-> j - i]
           e == <<first>> \o rest
           n == Len(rest)
           hi == Len(p)
<1>0. hi \in Nat BY LenProperties
<1>1. first \in Element /\ first.start = i /\ i + first.len = j BY DEF Element
<1>2. /\ rest \in Seq(Element) /\ n \in Nat /\ StartOf(rest, 1, hi) = j
      /\ \A k \in 1 .. n :
           /\ rest[k].start + rest[k].len = StartOf(rest, k + 1, hi)
           /\ rest[k].start >= j /\ rest[k].start + rest[k].len <= hi
           /\ rest[k].start + rest[k].len = hi \/ StartsAt(p, rest[k].start + rest[k].len, word)
           /\ rest[k] \in Element
  BY LenProperties, ElementOfSeq DEF Tiles, Cuts
<1> HIDE DEF first
<1>3. <<first>> \in Seq(Element) /\ Len(<<first>>) = 1 /\ <<first>>[1] = first BY <1>1
<1>4. /\ e \in Seq(Element) /\ Len(e) = n + 1 /\ e[1] = first
      /\ \A k \in 1 .. n : e[k + 1] = rest[k]
  <2>1. /\ e \in Seq(Element) /\ Len(e) = 1 + n
        /\ \A k \in 1 .. 1 + n : e[k] = IF k <= 1 THEN <<first>>[k] ELSE rest[k - 1]
    BY <1>2, <1>3, ConcatProperties
  <2>2. \A k \in 1 .. n : k + 1 \in 1 .. 1 + n /\ ~(k + 1 <= 1) /\ (k + 1) - 1 = k BY <1>2
  <2>3. 1 \in 1 .. 1 + n BY <1>2
  <2> HIDE DEF e
  <2> QED BY <1>2, <1>3, <2>1, <2>2, <2>3
<1> HIDE DEF e, n, hi
<1>5. \A k \in 1 .. n + 1 : k = 1 \/ (k - 1 \in 1 .. n /\ (k - 1) + 1 = k) BY <1>2
<1>6. \A k \in 1 .. n + 1 : StartOf(e, k + 1, hi) = StartOf(rest, k, hi)
  <2> SUFFICES ASSUME NEW k \in 1 .. n + 1 PROVE StartOf(e, k + 1, hi) = StartOf(rest, k, hi)
    OBVIOUS
  <2>1. k + 1 <= n + 1 <=> k <= n BY <1>2
  <2>2. k <= n => k \in 1 .. n BY <1>2
  <2> QED BY <1>2, <1>4, <2>1, <2>2 DEF StartOf, n
<1>7. StartOf(e, 1, hi) = i BY <1>1, <1>2, <1>4 DEF StartOf
<1>8. ASSUME NEW k \in 1 .. n + 1
      PROVE  /\ e[k].start + e[k].len = StartOf(e, k + 1, hi)
             /\ e[k].start >= i /\ e[k].start + e[k].len <= hi
             /\ e[k].start + e[k].len = hi \/ StartsAt(p, e[k].start + e[k].len, word)
  <2>1. CASE k = 1
    <3>1. e[k].start + e[k].len = j /\ e[k].start = i BY <1>1, <1>4, <2>1
    <3>2. StartOf(e, k + 1, hi) = j BY <1>2, <1>6, <2>1
    <3>3. j <= hi
      <4>1. CASE n = 0 BY <1>2, <4>1, <1>0 DEF StartOf, n
      <4>2. CASE n # 0
        <5>1. 1 \in 1 .. n BY <1>2, <4>2
        <5>2. rest[1].start \in Nat /\ rest[1].len \in Nat /\ rest[1].start + rest[1].len <= hi
          BY <1>2, <5>1 DEF Element
        <5> QED BY <1>0, <1>2, <5>1, <5>2
      <4> QED BY <4>1, <4>2
    <3> QED BY <3>1, <3>2, <3>3 DEF hi
  <2>2. CASE k # 1
    <3>1. k - 1 \in 1 .. n /\ (k - 1) + 1 = k /\ e[k] = rest[k - 1] BY <1>4, <1>5, <2>2
    <3>2. StartOf(e, k + 1, hi) = StartOf(rest, k, hi) BY <1>6
    <3>3. e[k].start \in Nat /\ e[k].start >= j BY <1>2, <3>1 DEF Element
    <3> QED BY <1>2, <3>1, <3>2, <3>3
  <2> QED BY <2>1, <2>2
<1>9. Tiles(e, i, hi) BY <1>0, <1>4, <1>7, <1>8 DEF Tiles
<1>10. Cuts(p, e, word) BY <1>4, <1>8 DEF Cuts, hi
<1> QED BY <1>9, <1>10 DEF e, first, hi

\* No element is left at the end.
LEMMA TilesNothing ==
  ASSUME NEW p \in Seq(Byte), NEW word
  PROVE  Tiles(<<>>, Len(p), Len(p)) /\ Cuts(p, <<>>, word)
<1>1. Len(p) \in Nat BY LenProperties
<1> DEFINE none == <<>>
<1>2. none \in Seq(Element) /\ Len(none) = 0 BY EmptySeq
<1> HIDE DEF none
<1>3. Tiles(none, Len(p), Len(p)) /\ Cuts(p, none, word) BY <1>1, <1>2 DEF Tiles, Cuts, StartOf
<1> QED BY <1>3 DEF none

\* A text is cut into elements from its first byte to its last.
LEMMA TokensIs ==
  ASSUME NEW p \in Seq(Byte), NEW word
  PROVE  Tiles(Tokens(p, word), 0, Len(p)) /\ Cuts(p, Tokens(p, word), word)
<1> DEFINE n == Len(p)
           EndOf(i) == CHOOSE j \in i + 1 .. n :
                         /\ j = n \/ StartsAt(p, j, word)
                         /\ \A x \in i + 1 .. j - 1 : ~StartsAt(p, x, word)
           Body(f, i) == IF i = n THEN <<>>
                         ELSE <<[start |-> i, len |-> EndOf(i) - i]>> \o f[EndOf(i)]
           Solves(f, m) == f = [i \in n - m .. n |-> Body(f, i)]
           S == {m \in 0 .. n : \E f : Solves(f, m)}
<1>0. n \in Nat BY LenProperties
<1>1. \A i \in 0 .. n - 1 :
        EndOf(i) \in i + 1 .. n /\ (EndOf(i) = n \/ StartsAt(p, EndOf(i), word))
  BY EndFromIs DEF EndFrom
<1> HIDE DEF EndOf
<1>2. 0 \in S
  <2> DEFINE f == [i \in n - 0 .. n |-> <<>>]
  <2>1. Solves(f, 0) BY <1>0
  <2>2. \E h : Solves(h, 0)
    <3> HIDE DEF Solves, f
    <3> QED BY <2>1
  <2> QED BY <1>0, <2>2
<1>3. ASSUME NEW m \in 0 .. n - 1, m \in S PROVE m + 1 \in S
  <2>1. PICK f : Solves(f, m) BY <1>3
  <2> DEFINE k == n - (m + 1)
             h == [i \in k .. n |-> IF i = k THEN Body(f, k) ELSE f[i]]
  <2>2. /\ m + 1 \in 0 .. n /\ k \in 0 .. n - 1 /\ k # n /\ k \in k .. n
        /\ \A i \in k .. n : i # k => i \in n - m .. n
        /\ \A i \in n - m .. n : i # k /\ i \in k .. n
    BY <1>0
  <2>3. EndOf(k) \in n - m .. n /\ EndOf(k) # k /\ EndOf(k) \in k .. n BY <1>0, <1>1, <2>2
  <2>4. \A i \in n - m .. n : f[i] = Body(f, i)
    <3> HIDE DEF Body
    <3> QED BY <2>1
  <2>5. \A i \in n - m .. n : h[i] = f[i] BY <2>2
  <2>6. ASSUME NEW i \in k .. n PROVE h[i] = Body(h, i)
    <3>1. CASE i = k
      <4>1. h[i] = Body(f, k) BY <2>2, <3>1
      <4>2. h[EndOf(k)] = f[EndOf(k)]
        <5> HIDE DEF h
        <5> QED BY <2>3, <2>5
      <4> HIDE DEF h
      <4> QED BY <3>1, <4>1, <4>2
    <3>2. CASE i # k
      <4>1. i \in n - m .. n /\ i \in 0 .. n BY <1>0, <2>2, <3>2
      <4>2. h[i] = f[i] /\ f[i] = Body(f, i)
        <5> HIDE DEF h, Body
        <5> QED BY <2>4, <2>5, <4>1
      <4>3. CASE i = n BY <4>2, <4>3
      <4>4. CASE i # n
        <5>1. EndOf(i) \in n - m .. n
          <6>1. i \in 0 .. n - 1 BY <1>0, <4>1, <4>4
          <6> QED BY <1>0, <1>1, <4>1, <6>1
        <5>2. h[EndOf(i)] = f[EndOf(i)]
          <6> HIDE DEF h
          <6> QED BY <2>5, <5>1
        <5> HIDE DEF h
        <5> QED BY <4>2, <4>4, <5>2
      <4> QED BY <4>3, <4>4
    <3> QED BY <3>1, <3>2
  <2>7. Solves(h, m + 1)
    <3>1. h = [i \in k .. n |-> h[i]] OBVIOUS
    <3> HIDE DEF h, Body
    <3> QED BY <2>6, <3>1
  <2>8. \E g : Solves(g, m + 1)
    <3> HIDE DEF Solves, h
    <3> QED BY <2>7
  <2> QED BY <2>2, <2>8
<1>4. n \in S
  <2> HIDE DEF S, n
  <2> QED BY <1>0, <1>2, <1>3, UpTo
<1>5. \E f : f = [i \in 0 .. n |-> Body(f, i)]
  <2>1. n - n = 0 BY <1>0
  <2> HIDE DEF Body
  <2>2. PICK f : f = [i \in n - n .. n |-> Body(f, i)] BY <1>4
  <2>3. f = [i \in 0 .. n |-> Body(f, i)] BY <2>1, <2>2
  <2> QED BY <2>3
<1>6. PICK g : g = [i \in 0 .. n |-> Body(g, i)] /\ Tokens(p, word) = g[0]
  BY <1>5, Zenon DEF Tokens, EndOf
<1>7. \A i \in 0 .. n : g[i] = Body(g, i)
  <2> HIDE DEF Body
  <2> QED BY <1>6
<1> DEFINE Good(i) == Tiles(g[i], i, n) /\ Cuts(p, g[i], word)
           G == {m \in 0 .. n : \A i \in n - m .. n : Good(i)}
<1>8. 0 \in G
  <2>1. g[n] = <<>>
    <3>1. n \in 0 .. n BY <1>0
    <3>2. g[n] = Body(g, n)
      <4> HIDE DEF Body, n
      <4> QED BY <1>7, <3>1
    <3> QED BY <3>2
  <2>2. Good(n) BY <2>1, TilesNothing
  <2> HIDE DEF Good
  <2> QED BY <1>0, <2>2
<1>9. ASSUME NEW m \in 0 .. n - 1, m \in G PROVE m + 1 \in G
  <2> DEFINE k == n - (m + 1)
  <2>1. /\ m + 1 \in 0 .. n /\ k \in 0 .. n - 1 /\ k # n /\ k \in 0 .. n /\ k \in Nat
        /\ \A i \in k .. n : i # k => i \in n - m .. n
    BY <1>0
  <2>2. EndOf(k) \in n - m .. n /\ EndOf(k) \in Nat /\ k < EndOf(k)
        /\ (EndOf(k) = n \/ StartsAt(p, EndOf(k), word))
    BY <1>0, <1>1, <2>1
  <2>3. g[k] = <<[start |-> k, len |-> EndOf(k) - k]>> \o g[EndOf(k)] BY <1>7, <2>1
  <2>4. Good(EndOf(k))
    <3> HIDE DEF Good
    <3> QED BY <1>9, <2>2
  <2>5. Good(k)
    <3> DEFINE x == EndOf(k)
    <3> HIDE DEF k, x
    <3>1. Tiles(g[x], x, Len(p)) /\ Cuts(p, g[x], word) /\ x \in Nat /\ k \in Nat /\ k < x
          /\ (x = Len(p) \/ StartsAt(p, x, word))
      BY <2>1, <2>2, <2>4 DEF x
    <3>2. /\ Tiles(<<[start |-> k, len |-> x - k]>> \o g[x], k, Len(p))
          /\ Cuts(p, <<[start |-> k, len |-> x - k]>> \o g[x], word)
      BY <3>1, TilesFrom
    <3> QED BY <2>3, <3>2 DEF x
  <2> HIDE DEF Good
  <2>6. \A i \in k .. n : Good(i) BY <1>9, <2>1, <2>5
  <2> QED BY <2>1, <2>6
<1>10. n \in G
  <2>1. 0 .. n \subseteq G
    <3> HIDE DEF G, n
    <3> QED BY <1>0, <1>8, <1>9, UpTo
  <2> QED BY <1>0, <2>1
<1>11. Good(0)
  <2>1. 0 \in n - n .. n BY <1>0
  <2> HIDE DEF Good
  <2> QED BY <1>10, <2>1
<1> QED BY <1>6, <1>11

-----------------------------------------------------------------------------
(* Edit scripts between two sequences of elements.                         *)

Grid(a, b) == [x : 0 .. Len(a), y : 0 .. Len(b)]
Place(x, y) == [x |-> x, y |-> y]

\* What an op takes: of both sequences, of the first, or of the second.
Takes(a, b, p, op, q) ==
  \/ op = "EQUAL" /\ q = Place(p.x + 1, p.y + 1) /\ At(a, p.x) = At(b, p.y)
  \/ op = "DELETE" /\ q = Place(p.x + 1, p.y)
  \/ op = "INSERT" /\ q = Place(p.x, p.y + 1)

\* The ops lead from p to q, through the places u.
Through(u, ops, a, b, p, q) ==
  /\ u \in [0 .. Len(ops) -> Grid(a, b)]
  /\ u[0] = p /\ u[Len(ops)] = q
  /\ \A i \in 1 .. Len(ops) : Takes(a, b, u[i - 1], ops[i], u[i])

Aligned(ops, a, b, p, q) == ops \in Seq(Operations) /\ \E u : Through(u, ops, a, b, p, q)

\* No op leads from a place to itself.
LEMMA AlignedNothing ==
  ASSUME NEW a, NEW b, NEW p \in Grid(a, b)
  PROVE  Aligned(<<>>, a, b, p, p)
<1> DEFINE none == <<>>
           u == [i \in 0 .. 0 |-> p]
<1>1. none \in Seq(Operations) /\ Len(none) = 0 BY EmptySeq
<1>2. u \in [0 .. 0 -> Grid(a, b)] /\ u[0] = p /\ 1 .. 0 = {} OBVIOUS
<1> HIDE DEF none, u
<1>3. Through(u, none, a, b, p, p) BY <1>1, <1>2 DEF Through
<1>4. Aligned(none, a, b, p, p) BY <1>1, <1>3 DEF Aligned
<1> QED BY <1>4 DEF none

\* One op more.
LEMMA AlignedAppend ==
  ASSUME NEW a, NEW b, NEW ops, NEW p, NEW q, Aligned(ops, a, b, p, q),
         NEW op \in Operations, NEW r \in Grid(a, b), Takes(a, b, q, op, r)
  PROVE  Aligned(Append(ops, op), a, b, p, r)
<1> DEFINE n == Len(ops)
           e == Append(ops, op)
<1>1. PICK u : Through(u, ops, a, b, p, q) BY DEF Aligned
<1>2. ops \in Seq(Operations) /\ n \in Nat BY LenProperties DEF Aligned
<1>3. /\ e \in Seq(Operations) /\ Len(e) = n + 1 /\ e[n + 1] = op
      /\ \A i \in 1 .. n : e[i] = ops[i]
  BY <1>2, AppendProperties
<1>4. /\ u \in [0 .. n -> Grid(a, b)] /\ u[0] = p /\ u[n] = q
      /\ \A i \in 1 .. n : Takes(a, b, u[i - 1], ops[i], u[i])
  BY <1>1 DEF Through
<1> HIDE DEF n, e
<1> DEFINE h == [i \in 0 .. n + 1 |-> IF i = n + 1 THEN r ELSE u[i]]
<1>5. /\ \A i \in 0 .. n + 1 : i = n + 1 \/ (i # n + 1 /\ i \in 0 .. n)
      /\ \A i \in 0 .. n : i # n + 1 /\ i \in 0 .. n + 1
      /\ n + 1 \in 0 .. n + 1 /\ 0 \in 0 .. n /\ n \in 0 .. n
  BY <1>2
<1>6. /\ h \in [0 .. n + 1 -> Grid(a, b)] /\ h[n + 1] = r
      /\ \A i \in 0 .. n : h[i] = u[i]
  BY <1>4, <1>5
<1> HIDE DEF h
<1>7. ASSUME NEW i \in 1 .. n + 1 PROVE Takes(a, b, h[i - 1], e[i], h[i])
  <2>1. CASE i = n + 1
    <3>1. i - 1 = n /\ h[n] = q BY <1>2, <1>4, <1>5, <1>6, <2>1
    <3> QED BY <1>3, <1>6, <2>1, <3>1
  <2>2. CASE i # n + 1
    <3>1. i \in 1 .. n /\ i - 1 \in 0 .. n /\ i \in 0 .. n BY <1>2, <2>2
    <3> QED BY <1>3, <1>4, <1>6, <3>1
  <2> QED BY <2>1, <2>2
<1>8. Through(h, e, a, b, p, r) BY <1>3, <1>4, <1>5, <1>6, <1>7 DEF Through
<1>9. Aligned(e, a, b, p, r) BY <1>3, <1>8 DEF Aligned
<1> QED BY <1>9 DEF e

\* A script that goes on where another ends.
LEMMA AlignedConcat ==
  ASSUME NEW a, NEW b, NEW s, NEW t, NEW p, NEW q, NEW r,
         Aligned(s, a, b, p, q), Aligned(t, a, b, q, r)
  PROVE  Aligned(s \o t, a, b, p, r)
<1> DEFINE m == Len(s)
           n == Len(t)
           e == s \o t
<1>1. PICK u : Through(u, s, a, b, p, q) BY DEF Aligned
<1>2. PICK v : Through(v, t, a, b, q, r) BY DEF Aligned
<1>3. s \in Seq(Operations) /\ t \in Seq(Operations) /\ m \in Nat /\ n \in Nat
  BY LenProperties DEF Aligned
<1>4. /\ e \in Seq(Operations) /\ Len(e) = m + n
      /\ \A i \in 1 .. m + n : e[i] = IF i <= m THEN s[i] ELSE t[i - m]
  BY <1>3, ConcatProperties
<1>5. /\ u \in [0 .. m -> Grid(a, b)] /\ u[0] = p /\ u[m] = q
      /\ \A i \in 1 .. m : Takes(a, b, u[i - 1], s[i], u[i])
      /\ v \in [0 .. n -> Grid(a, b)] /\ v[0] = q /\ v[n] = r
      /\ \A i \in 1 .. n : Takes(a, b, v[i - 1], t[i], v[i])
  BY <1>1, <1>2 DEF Through
<1> HIDE DEF m, n, e
<1> DEFINE h == [i \in 0 .. m + n |-> IF i <= m THEN u[i] ELSE v[i - m]]
<1>6. h \in [0 .. m + n -> Grid(a, b)]
  <2>1. \A i \in 0 .. m + n : IF i <= m THEN i \in 0 .. m ELSE i - m \in 0 .. n BY <1>3
  <2> QED BY <1>5, <2>1
<1>7. \A i \in 0 .. m : h[i] = u[i]
  <2>1. \A i \in 0 .. m : i \in 0 .. m + n /\ i <= m BY <1>3
  <2> QED BY <2>1
<1>8. \A i \in m .. m + n : h[i] = v[i - m]
  <2>1. \A i \in m .. m + n : i \in 0 .. m + n /\ (i <= m => i = m) BY <1>3
  <2>2. m - m = 0 BY <1>3
  <2> QED BY <1>5, <2>1, <2>2
<1> HIDE DEF h
<1>9. ASSUME NEW i \in 1 .. m + n PROVE Takes(a, b, h[i - 1], e[i], h[i])
  <2>1. CASE i <= m
    <3>1. i \in 1 .. m /\ i - 1 \in 0 .. m /\ i \in 0 .. m BY <1>3, <2>1
    <3> QED BY <1>4, <1>5, <1>7, <2>1, <3>1
  <2>2. CASE ~(i <= m)
    <3>1. i - m \in 1 .. n /\ i - 1 \in m .. m + n /\ i \in m .. m + n /\ (i - m) - 1 = (i - 1) - m
      BY <1>3, <2>2
    <3>2. e[i] = t[i - m] /\ h[i] = v[i - m] /\ h[i - 1] = v[(i - m) - 1] BY <1>4, <1>8, <2>2, <3>1
    <3>3. Takes(a, b, v[(i - m) - 1], t[i - m], v[i - m]) BY <1>5, <3>1
    <3> QED BY <3>2, <3>3
  <2> QED BY <2>1, <2>2
<1>10. h[0] = p /\ h[m + n] = r
  <2>1. 0 \in 0 .. m /\ m + n \in m .. m + n /\ (m + n) - m = n BY <1>3
  <2>2. h[m + n] = v[(m + n) - m] BY <1>8, <2>1
  <2> QED BY <1>5, <1>7, <2>1, <2>2
<1>11. Through(h, e, a, b, p, r) BY <1>4, <1>6, <1>9, <1>10 DEF Through
<1>12. Aligned(e, a, b, p, r) BY <1>4, <1>11 DEF Aligned
<1> QED BY <1>12 DEF e

\* Equal elements, one after the other.
LEMMA AlignedEquals ==
  ASSUME NEW a, NEW b, Len(a) \in Nat, Len(b) \in Nat, NEW p \in Grid(a, b), NEW count \in Nat,
         p.x + count <= Len(a), p.y + count <= Len(b),
         \A i \in 0 .. count - 1 : At(a, p.x + i) = At(b, p.y + i)
  PROVE  Aligned(Equals(count), a, b, p, Place(p.x + count, p.y + count))
<1> DEFINE e == Equals(count)
           u == [i \in 0 .. count |-> Place(p.x + i, p.y + i)]
<1>1. p.x \in Nat /\ p.y \in Nat /\ p = Place(p.x, p.y) /\ "EQUAL" \in Operations
  BY DEF Grid, Place, Operations
<1>2. e \in Seq(Operations) /\ Len(e) = count /\ \A i \in 1 .. count : e[i] = "EQUAL"
  BY <1>1 DEF Equals
<1>3. u \in [0 .. count -> Grid(a, b)] BY <1>1 DEF Grid, Place
<1>4. u[0] = p /\ u[count] = Place(p.x + count, p.y + count) BY <1>1
<1> HIDE DEF e
<1>5. ASSUME NEW i \in 1 .. count PROVE Takes(a, b, u[i - 1], e[i], u[i])
  <2>1. i - 1 \in 0 .. count /\ i \in 0 .. count /\ i - 1 \in 0 .. count - 1 OBVIOUS
  <2>2. u[i - 1] = Place(p.x + (i - 1), p.y + (i - 1)) /\ u[i] = Place(p.x + i, p.y + i) BY <2>1
  <2>3. (p.x + (i - 1)) + 1 = p.x + i /\ (p.y + (i - 1)) + 1 = p.y + i BY <1>1
  <2>4. At(a, p.x + (i - 1)) = At(b, p.y + (i - 1)) BY <2>1
  <2> QED BY <1>2, <2>2, <2>3, <2>4 DEF Takes, Place
<1> HIDE DEF u
<1>6. Through(u, e, a, b, p, Place(p.x + count, p.y + count)) BY <1>2, <1>3, <1>4, <1>5 DEF Through
<1>7. Aligned(e, a, b, p, Place(p.x + count, p.y + count)) BY <1>2, <1>6 DEF Aligned
<1> QED BY <1>7 DEF e

\* An edit, and the equal elements after it.
LEMMA AlignedEdit ==
  ASSUME NEW a, NEW b, Len(a) \in Nat, Len(b) \in Nat, NEW q \in Grid(a, b),
         NEW op \in {"INSERT", "DELETE"}, NEW r \in Grid(a, b), Takes(a, b, q, op, r),
         NEW count \in Nat, r.x + count <= Len(a), r.y + count <= Len(b),
         \A i \in 0 .. count - 1 : At(a, r.x + i) = At(b, r.y + i)
  PROVE  Aligned(<<op>> \o Equals(count), a, b, q, Place(r.x + count, r.y + count))
<1>1. op \in Operations BY DEF Operations
<1>2. Aligned(Append(<<>>, op), a, b, q, r) BY <1>1, AlignedNothing, AlignedAppend
<1>3. Append(<<>>, op) = <<op>> OBVIOUS
<1>4. Aligned(<<op>>, a, b, q, r) BY <1>2, <1>3
<1>5. Aligned(Equals(count), a, b, r, Place(r.x + count, r.y + count)) BY AlignedEquals
<1> QED BY <1>4, <1>5, AlignedConcat

-----------------------------------------------------------------------------
(* The furthest points on every diagonal, round by round: myers.           *)

\* The diagonals round d reaches.
OnRound(k, d) == k \in -d .. d /\ (k - d) % 2 = 0

\* They are one off the ones the round before reached.
LEMMA Neighbours ==
  ASSUME NEW d \in Nat, d # 0, NEW k \in Int, OnRound(k, d)
  PROVE  /\ k # d => OnRound(k + 1, d - 1)
         /\ k # -d => OnRound(k - 1, d - 1)
         /\ k = d => ~OnRound(k + 1, d - 1)
         /\ k = -d => ~OnRound(k - 1, d - 1)
<1>1. k \in -d .. d /\ (k - d) % 2 = 0 BY DEF OnRound
<1>2. ((k + 1) - (d - 1)) % 2 = 0 /\ ((k - 1) - (d - 1)) % 2 = 0 BY <1>1
<1>3. k # d => k <= d - 2 BY <1>1
<1>4. k # -d => k >= -d + 2 BY <1>1
<1> QED BY <1>1, <1>2, <1>3, <1>4 DEF OnRound

\* The next round visits the neighbours of a diagonal.
LEMMA NeighbourRound ==
  ASSUME NEW d \in Nat, NEW k \in Int, OnRound(k, d)
  PROVE  OnRound(k + 1, d + 1) /\ OnRound(k - 1, d + 1)
<1>1. k \in -d .. d /\ (k - d) % 2 = 0 BY DEF OnRound
<1>2. ((k + 1) - (d + 1)) % 2 = 0 /\ ((k - 1) - (d + 1)) % 2 = 0 BY <1>1
<1> QED BY <1>1, <1>2 DEF OnRound

\* The first round reaches the diagonal of the origin only.
LEMMA FirstRound == \A k \in Int : OnRound(k, 0) <=> k = 0
BY DEF OnRound

\* The elements at x and on diagonal k are there and equal.
Equal(a, b, k, x) == x < Len(a) /\ x - k < Len(b) /\ At(a, x) = At(b, x - k)

\* A slide goes on over equal elements.
LEMMA SlideIs ==
  ASSUME NEW a, NEW b, Len(a) \in Nat, Len(b) \in Nat, NEW k \in Int, NEW x \in Nat
  PROVE  /\ Slide(a, b, k, x) \in Nat /\ Slide(a, b, k, x) >= x
         /\ \A i \in x .. Slide(a, b, k, x) - 1 : Equal(a, b, k, i)
<1> DEFINE T == {e \in x .. Len(a) + x : ~Equal(a, b, k, e)}
           Ends(e) == /\ \A i \in x .. e - 1 :
                           i < Len(a) /\ i - k < Len(b) /\ At(a, i) = At(b, i - k)
                      /\ ~(e < Len(a) /\ e - k < Len(b) /\ At(a, e) = At(b, e - k))
<1>1. T \in SUBSET Nat /\ Len(a) + x \in T BY DEF Equal
<1> HIDE DEF T
<1>2. PICK e \in T : \A f \in T : e <= f BY <1>1, LeastElement
<1>3. e \in x .. Len(a) + x /\ ~Equal(a, b, k, e) BY <1>2 DEF T
<1>4. ASSUME NEW i \in x .. e - 1 PROVE Equal(a, b, k, i)
  <2>1. i \in x .. Len(a) + x /\ ~(e <= i) BY <1>3
  <2>2. i \notin T BY <1>2, <2>1
  <2> QED BY <2>1, <2>2 DEF T
<1>5. Ends(e) BY <1>3, <1>4 DEF Equal
<1>6. \E f \in x .. Len(a) + x : Ends(f)
  <2> HIDE DEF Ends
  <2> QED BY <1>3, <1>5
<1> DEFINE s == Slide(a, b, k, x)
<1>7. s \in x .. Len(a) + x /\ Ends(s)
  <2>1. s = CHOOSE f \in x .. Len(a) + x : Ends(f) BY DEF Slide
  <2> HIDE DEF Ends, s
  <2> QED BY <1>6, <2>1
<1> QED BY <1>7 DEF Equal

Snapshot == [Diagonals -> Nat]
Origins == [k \in Diagonals |-> 0]

\* Where the slide on diagonal k begins in round d.
From(v, d, k) == IF FromAbove(v, d, k) THEN v[k + 1] ELSE v[k - 1] + 1

\* A round leaves a snapshot, where each diagonal it visits was slid down.
LEMMA RoundIs ==
  ASSUME NEW a, NEW b, Len(a) \in Nat, Len(b) \in Nat,
         NEW d \in 0 .. MaxEdits, NEW v \in Snapshot
  PROVE  /\ Round(a, b, d, v) \in Snapshot
         /\ \A k \in Int : OnRound(k, d) =>
              From(v, d, k) \in Nat /\ Round(a, b, d, v)[k] = Slide(a, b, k, From(v, d, k))
<1> DEFINE w == Round(a, b, d, v)
<1>0. MaxEdits \in Nat BY SegmentsAssumption
<1>1. ASSUME NEW k \in -d .. d PROVE From(v, d, k) \in Nat
  <2>1. k \in Int /\ k \in Diagonals /\ k + 1 \in Diagonals /\ k - 1 \in Diagonals
    BY <1>0 DEF Diagonals
  <2>2. v[k + 1] \in Nat /\ v[k - 1] \in Nat BY <2>1 DEF Snapshot
  <2> QED BY <2>2 DEF From
<1>2. w = [k \in Diagonals |->
             IF k \in -d .. d /\ (k - d) % 2 = 0 THEN Slide(a, b, k, From(v, d, k)) ELSE v[k]]
  BY DEF Round, From
<1> HIDE DEF w
<1>3. ASSUME NEW k \in Diagonals PROVE w[k] \in Nat
  <2>1. k \in Int BY <1>0 DEF Diagonals
  <2>2. CASE k \in -d .. d /\ (k - d) % 2 = 0
    <3>1. w[k] = Slide(a, b, k, From(v, d, k)) /\ From(v, d, k) \in Nat BY <1>1, <1>2, <2>2
    <3> QED BY <2>1, <3>1, SlideIs
  <2>3. CASE ~(k \in -d .. d /\ (k - d) % 2 = 0) BY <1>2, <2>3 DEF Snapshot
  <2> QED BY <2>2, <2>3
<1>4. w \in Snapshot
  <2>1. w = [k \in Diagonals |-> w[k]] BY <1>2
  <2> QED BY <1>3, <2>1 DEF Snapshot
<1>5. ASSUME NEW k \in Int, OnRound(k, d)
      PROVE  From(v, d, k) \in Nat /\ w[k] = Slide(a, b, k, From(v, d, k))
  <2>1. k \in -d .. d /\ (k - d) % 2 = 0 /\ k \in Diagonals BY <1>0, <1>5 DEF OnRound, Diagonals
  <2> QED BY <1>1, <1>2, <2>1
<1> QED BY <1>4, <1>5 DEF w

\* The snapshots of successive rounds, of which only the last may reach both ends.
Traced(t, a, b) ==
  /\ t \in Seq(Snapshot) /\ Len(t) >= 2 /\ Len(t) - 2 <= MaxEdits
  /\ t[1] = Origins
  /\ \A d \in 0 .. Len(t) - 2 : t[d + 2] = Round(a, b, d, t[d + 1])
  /\ \A d \in 0 .. Len(t) - 3 : ~Reaches(a, b, t[d + 2], d)

\* A snapshot more, or none.
LEMMA LongerIs ==
  ASSUME NEW a, NEW b, Len(a) \in Nat, Len(b) \in Nat,
         NEW d \in 0 .. MaxEdits, NEW t \in Seq(Snapshot)
  PROVE  Longer(a, b, t, d) \in Seq(Snapshot)
<1>1. CASE Unfinished(a, b, t, d)
  <2>1. Len(t) = d + 1 /\ d \in Nat /\ d + 1 \in 1 .. Len(t)
    BY <1>1, SegmentsAssumption DEF Unfinished
  <2>2. t[d + 1] \in Snapshot BY <2>1, ElementOfSeq
  <2>3. Round(a, b, d, t[d + 1]) \in Snapshot BY <2>2, RoundIs
  <2> QED BY <1>1, <2>3, AppendProperties DEF Longer
<1>2. CASE ~Unfinished(a, b, t, d) BY <1>2 DEF Longer
<1> QED BY <1>1, <1>2

\* A trace is one still after a further round.
LEMMA TracedLonger ==
  ASSUME NEW a, NEW b, Len(a) \in Nat, Len(b) \in Nat,
         NEW d \in 1 .. MaxEdits, NEW t, Traced(t, a, b), Len(t) <= d + 1
  PROVE  Traced(Longer(a, b, t, d), a, b) /\ Len(Longer(a, b, t, d)) <= d + 2
<1> DEFINE n == Len(t)
<1>0. MaxEdits \in Nat /\ t \in Seq(Snapshot) /\ n \in Nat /\ d \in Nat /\ d > 0
  BY LenProperties, SegmentsAssumption DEF Traced
<1>1. CASE Unfinished(a, b, t, d)
  <2> DEFINE w == Round(a, b, d, t[d + 1])
             e == Append(t, w)
  <2>1. n = d + 1 /\ ~Reaches(a, b, t[d + 1], d - 1) /\ d + 1 \in 1 .. n
    BY <1>0, <1>1 DEF Unfinished
  <2>2. w \in Snapshot
    <3>1. t[d + 1] \in Snapshot BY <1>0, <2>1, ElementOfSeq
    <3>2. d \in 0 .. MaxEdits OBVIOUS
    <3> QED BY <3>1, <3>2, RoundIs
  <2> HIDE DEF w
  <2>3. /\ e \in Seq(Snapshot) /\ Len(e) = n + 1 /\ e[n + 1] = w
        /\ \A i \in 1 .. n : e[i] = t[i]
    BY <1>0, <2>2, AppendProperties
  <2>4. Longer(a, b, t, d) = e BY <1>1 DEF Longer, w
  <2> HIDE DEF e
  <2>5. Len(e) = d + 2 BY <2>1, <2>3
  <2>6. ASSUME NEW i \in 0 .. d PROVE e[i + 2] = Round(a, b, i, e[i + 1])
    <3>1. CASE i = d BY <2>1, <2>3, <3>1 DEF w
    <3>2. CASE i # d
      <4>1. i + 2 \in 1 .. n /\ i + 1 \in 1 .. n /\ i \in 0 .. n - 2 BY <1>0, <2>1, <3>2
      <4>2. t[i + 2] = Round(a, b, i, t[i + 1]) BY <4>1 DEF Traced
      <4> QED BY <2>3, <4>1, <4>2
    <3> QED BY <3>1, <3>2
  <2>7. ASSUME NEW i \in 0 .. d - 1 PROVE ~Reaches(a, b, e[i + 2], i)
    <3>1. i + 2 \in 1 .. n BY <1>0, <2>1
    <3>2. CASE i = d - 1
      <4>1. i + 2 = d + 1 BY <1>0, <3>2
      <4> QED BY <2>1, <2>3, <3>1, <3>2, <4>1
    <3>3. CASE i # d - 1
      <4>1. i \in 0 .. n - 3 BY <1>0, <2>1, <3>3
      <4>2. ~Reaches(a, b, t[i + 2], i) BY <4>1 DEF Traced
      <4> QED BY <2>3, <3>1, <4>2
    <3> QED BY <3>2, <3>3
  <2>8. e[1] = Origins
    <3>1. 1 \in 1 .. n BY <1>0, <2>1
    <3> QED BY <2>3, <3>1 DEF Traced
  <2>9. Len(e) >= 2 /\ Len(e) - 2 <= MaxEdits /\ Len(e) - 2 = d /\ Len(e) - 3 = d - 1 BY <1>0, <2>5
  <2>10. Traced(e, a, b) BY <2>3, <2>6, <2>7, <2>8, <2>9 DEF Traced
  <2> QED BY <1>0, <2>4, <2>5, <2>10
<1>2. CASE ~Unfinished(a, b, t, d)
  <2>1. Longer(a, b, t, d) = t BY <1>2 DEF Longer
  <2> QED BY <1>0, <2>1
<1> QED BY <1>1, <1>2

\* The trace after round 0: what stood at first, and what that round left.
LEMMA TracedFirst ==
  ASSUME NEW a, NEW b, Len(a) \in Nat, Len(b) \in Nat
  PROVE  /\ Traced(Longer(a, b, <<Origins>>, 0), a, b)
         /\ Len(Longer(a, b, <<Origins>>, 0)) = 2
<1>0. MaxEdits \in Nat /\ Origins \in Snapshot /\ 0 \in 0 .. MaxEdits
  BY SegmentsAssumption DEF Origins, Snapshot
<1> DEFINE s == <<Origins>>
           w == Round(a, b, 0, Origins)
           e == Append(s, w)
<1>1. s \in Seq(Snapshot) /\ Len(s) = 1 /\ s[1] = Origins BY <1>0
<1>2. w \in Snapshot BY <1>0, RoundIs
<1> HIDE DEF s, w
<1>3. e \in Seq(Snapshot) /\ Len(e) = 2 /\ e[1] = Origins /\ e[2] = w
  <2>1. 1 \in 1 .. Len(s) /\ 1 + 1 = 2 BY <1>1
  <2>2. /\ e \in Seq(Snapshot) /\ Len(e) = Len(s) + 1 /\ e[Len(s) + 1] = w
        /\ \A i \in 1 .. Len(s) : e[i] = s[i]
    <3>1. s \in Seq(Snapshot) BY <1>1
    <3> QED BY <1>2, <3>1, AppendProperties
  <2> HIDE DEF e
  <2> QED BY <1>1, <2>1, <2>2
<1>4. Longer(a, b, s, 0) = e
  <2>1. Unfinished(a, b, s, 0) BY <1>1 DEF Unfinished
  <2>2. 0 + 1 = 1 OBVIOUS
  <2> QED BY <1>1, <2>1, <2>2 DEF Longer, w
<1> HIDE DEF e
<1>5. \A d \in 0 .. Len(e) - 2 : d = 0 BY <1>3
<1>6. \A d \in 0 .. Len(e) - 3 : FALSE BY <1>3
<1>7. Len(e) >= 2 /\ Len(e) - 2 <= MaxEdits BY <1>0, <1>3
<1>8. \A d \in 0 .. Len(e) - 2 : e[d + 2] = Round(a, b, d, e[d + 1])
  <2>1. 0 + 2 = 2 /\ 0 + 1 = 1 OBVIOUS
  <2> QED BY <1>3, <1>5, <2>1 DEF w
<1>9. Traced(e, a, b) BY <1>3, <1>6, <1>7, <1>8 DEF Traced
<1> QED BY <1>3, <1>4, <1>9 DEF s

\* The trace of two sequences.
LEMMA TraceIs ==
  ASSUME NEW a, NEW b, Len(a) \in Nat, Len(b) \in Nat
  PROVE  Traced(Trace(a, b), a, b)
<1> DEFINE n == MaxEdits
           V == Seq(Snapshot)
           first == Longer(a, b, <<Origins>>, 0)
           step == [d \in 1 .. n |-> [t \in V |-> Longer(a, b, t, d)]]
           Body(f, d) == Longer(a, b, IF d = 0 THEN <<[k \in Diagonals |-> 0]>> ELSE f[d - 1], d)
<1>0. n \in Nat BY SegmentsAssumption
<1>1. first \in V BY TracedFirst DEF Traced
<1>2. /\ step \in [1 .. n -> [V -> V]]
      /\ \A d \in 1 .. n, t \in V : step[d][t] = Longer(a, b, t, d)
  BY <1>0, LongerIs
<1>3. first = Longer(a, b, <<[k \in Diagonals |-> 0]>>, 0) BY DEF Origins
<1> HIDE DEF V, first, step, n
<1>4. PICK f : Recursive(f, n, V, first, step) BY <1>0, <1>1, <1>2, Recursion
<1>5. /\ f \in [0 .. n -> V] /\ f[0] = first
      /\ \A d \in 1 .. n : f[d] = step[d][f[d - 1]]
  BY <1>4 DEF Recursive
<1>6. \A d \in 1 .. n : f[d - 1] \in V /\ f[d] = Longer(a, b, f[d - 1], d)
  <2> SUFFICES ASSUME NEW d \in 1 .. n
               PROVE  f[d - 1] \in V /\ f[d] = Longer(a, b, f[d - 1], d)
    OBVIOUS
  <2>1. d - 1 \in 0 .. n BY <1>0
  <2> QED BY <1>2, <1>5, <2>1
<1>7. ASSUME NEW d \in 0 .. n PROVE f[d] = Body(f, d)
  <2>1. d = 0 \/ (d # 0 /\ d \in 1 .. n) BY <1>0
  <2> QED BY <1>3, <1>5, <1>6, <2>1
<1>8. f = [d \in 0 .. n |-> Body(f, d)]
  <2>1. f = [d \in 0 .. n |-> f[d]] BY <1>5
  <2> HIDE DEF Body
  <2> QED BY <1>7, <2>1
<1>9. PICK g : g = [d \in 0 .. n |-> Body(g, d)] /\ Trace(a, b) = g[n]
  <2>1. \E g : g = [d \in 0 .. n |-> Body(g, d)]
    <3> HIDE DEF Body
    <3> QED BY <1>8
  <2> QED BY <2>1, Zenon DEF Trace, n
<1>10. \A d \in 0 .. n : g[d] = Body(g, d)
  <2> HIDE DEF Body
  <2> QED BY <1>9
<1> DEFINE S == {d \in 0 .. n : Traced(g[d], a, b) /\ Len(g[d]) <= d + 2}
<1>11. 0 \in S
  <2>1. 0 \in 0 .. n BY <1>0
  <2>2. g[0] = first BY <1>3, <1>10, <2>1
  <2>3. Traced(first, a, b) /\ Len(first) = 2 BY TracedFirst DEF first
  <2>4. Traced(g[0], a, b) /\ Len(g[0]) <= 0 + 2 BY <2>2, <2>3
  <2> QED BY <2>1, <2>4
<1>12. ASSUME NEW d \in 0 .. n - 1, d \in S PROVE d + 1 \in S
  <2>1. d + 1 \in 0 .. n /\ d + 1 \in 1 .. n /\ d + 1 # 0 /\ (d + 1) - 1 = d /\ (d + 1) + 1 = d + 2
    BY <1>0
  <2>2. g[d + 1] = Longer(a, b, g[d], d + 1) BY <1>10, <2>1
  <2>3. Traced(g[d], a, b) /\ Len(g[d]) <= (d + 1) + 1 BY <1>12, <2>1
  <2> DEFINE c == d + 1
  <2> HIDE DEF c
  <2>4. c \in 1 .. MaxEdits /\ Len(g[d]) <= c + 1 BY <2>1, <2>3 DEF c, n
  <2>5. Traced(Longer(a, b, g[d], c), a, b) /\ Len(Longer(a, b, g[d], c)) <= c + 2
    BY <2>3, <2>4, TracedLonger
  <2> QED BY <2>1, <2>2, <2>5 DEF c
<1>13. n \in S
  <2> HIDE DEF S
  <2> QED BY <1>0, <1>11, <1>12, UpTo
<1> QED BY <1>9, <1>13

\* How far a diagonal got in a round, given the snapshot before it.
LEMMA RoundStep ==
  ASSUME NEW a, NEW b, Len(a) \in Nat, Len(b) \in Nat, NEW t, Traced(t, a, b),
         NEW d \in 1 .. Len(t) - 2, NEW k \in Int, OnRound(k, d)
  PROVE  \E s \in Nat :
           /\ t[d + 2][k] \in Nat /\ t[d + 2][k] >= s
           /\ \A i \in s .. t[d + 2][k] - 1 : Equal(a, b, k, i)
           /\ \/ /\ FromAbove(t[d + 1], d, k) /\ OnRound(k + 1, d - 1)
                 /\ t[d + 1][k + 1] \in Nat /\ s = t[d + 1][k + 1]
              \/ /\ ~FromAbove(t[d + 1], d, k) /\ OnRound(k - 1, d - 1)
                 /\ t[d + 1][k - 1] \in Nat /\ s = t[d + 1][k - 1] + 1
           /\ OnRound(k + 1, d - 1) => t[d + 1][k + 1] \in Nat /\ s >= t[d + 1][k + 1]
           /\ OnRound(k - 1, d - 1) => t[d + 1][k - 1] \in Nat /\ s >= t[d + 1][k - 1] + 1
<1> DEFINE v == t[d + 1]
           w == t[d + 2]
           s == From(v, d, k)
<1>0. MaxEdits \in Nat /\ t \in Seq(Snapshot) /\ Len(t) \in Nat /\ d \in Nat /\ d # 0 /\ d <= MaxEdits
  BY LenProperties, SegmentsAssumption DEF Traced
<1>1. v \in Snapshot /\ w = Round(a, b, d, v)
  <2>1. d + 1 \in 1 .. Len(t) /\ d \in 0 .. Len(t) - 2 BY <1>0
  <2> QED BY <1>0, <2>1, ElementOfSeq DEF Traced
<1> HIDE DEF v, w
<1>2. s \in Nat /\ w[k] = Slide(a, b, k, s)
  <2>1. d \in 0 .. MaxEdits BY <1>0
  <2> QED BY <1>1, <2>1, RoundIs
<1>3. k \in -d .. d BY DEF OnRound
<1>4. k + 1 \in Diagonals /\ k - 1 \in Diagonals BY <1>0, <1>3 DEF Diagonals
<1>5. v[k + 1] \in Nat /\ v[k - 1] \in Nat BY <1>1, <1>4 DEF Snapshot
<1>6. /\ k # d => OnRound(k + 1, d - 1)
      /\ k # -d => OnRound(k - 1, d - 1)
      /\ k = d => ~OnRound(k + 1, d - 1)
      /\ k = -d => ~OnRound(k - 1, d - 1)
  BY <1>0, Neighbours
<1>7. d # -d BY <1>0
<1>8. FromAbove(v, d, k) <=> (k = -d \/ (k # d /\ v[k - 1] < v[k + 1])) BY DEF FromAbove
<1>9. \/ FromAbove(v, d, k) /\ OnRound(k + 1, d - 1) /\ s = v[k + 1]
      \/ ~FromAbove(v, d, k) /\ OnRound(k - 1, d - 1) /\ s = v[k - 1] + 1
  BY <1>6, <1>7, <1>8 DEF From
<1>10. /\ OnRound(k + 1, d - 1) => s >= v[k + 1]
       /\ OnRound(k - 1, d - 1) => s >= v[k - 1] + 1
  BY <1>5, <1>6, <1>7, <1>8 DEF From
<1> HIDE DEF s
<1>11. w[k] \in Nat /\ w[k] >= s /\ \A i \in s .. w[k] - 1 : Equal(a, b, k, i) BY <1>2, SlideIs
<1> QED BY <1>2, <1>5, <1>9, <1>10, <1>11 DEF v, w

\* The first round slides from the origin.
LEMMA RoundFirst ==
  ASSUME NEW a, NEW b, Len(a) \in Nat, Len(b) \in Nat, NEW t, Traced(t, a, b)
  PROVE  t[2][0] \in Nat /\ \A i \in 0 .. t[2][0] - 1 : Equal(a, b, 0, i)
<1>0. MaxEdits \in Nat /\ 0 \in 0 .. Len(t) - 2 /\ 0 \in 0 .. MaxEdits /\ 1 \in Diagonals
  BY LenProperties, SegmentsAssumption DEF Traced, Diagonals
<1>1. t[0 + 2] = Round(a, b, 0, t[0 + 1]) /\ t[1] = Origins BY <1>0 DEF Traced
<1>2. t[2] = Round(a, b, 0, Origins) BY <1>1
<1>3. Origins \in Snapshot /\ Origins[1] = 0 BY <1>0 DEF Origins, Snapshot
<1>4. From(Origins, 0, 0) = 0
  <2>1. FromAbove(Origins, 0, 0)
    <3>1. ASSUME NEW d \in Int, d = 0 PROVE FromAbove(Origins, d, d)
      <4>0. -d = 0 - d OBVIOUS
      <4>1. d = -d
        <5> DEFINE e == -d
        <5>1. e = 0 - d BY <4>0
        <5> HIDE DEF e
        <5>2. d = e BY <3>1, <5>1
        <5> QED BY <5>2 DEF e
      <4> QED BY <4>1 DEF FromAbove
    <3> QED BY <3>1
  <2>2. 0 + 1 = 1 OBVIOUS
  <2> QED BY <1>3, <2>1, <2>2 DEF From
<1>5. t[2][0] = Slide(a, b, 0, 0)
  <2>1. OnRound(0, 0) BY FirstRound
  <2> QED BY <1>0, <1>2, <1>3, <1>4, <2>1, RoundIs
<1> QED BY <1>5, SlideIs

\* The points reached are in the quarter of the plane that begins at the origin.
Reached(t, d) == \A k \in Int : OnRound(k, d) => t[d + 2][k] \in Nat /\ t[d + 2][k] - k \in Nat

\* So are those of every round, each from the round before.
LEMMA ReachedAll ==
  ASSUME NEW a, NEW b, Len(a) \in Nat, Len(b) \in Nat, NEW t, Traced(t, a, b)
  PROVE  \A d \in 0 .. Len(t) - 2 : Reached(t, d)
<1> DEFINE n == Len(t) - 2
           S == {d \in 0 .. n : Reached(t, d)}
<1>0. n \in Nat BY LenProperties DEF Traced
<1>1. 0 \in S
  <2>1. t[2][0] \in Nat BY RoundFirst
  <2>2. Reached(t, 0)
    <3>1. 0 + 2 = 2 /\ t[2][0] - 0 = t[2][0] BY <2>1
    <3> QED BY <2>1, <3>1, FirstRound DEF Reached
  <2> QED BY <1>0, <2>2
<1>2. ASSUME NEW c \in 0 .. n - 1, c \in S PROVE c + 1 \in S
  <2> DEFINE d == c + 1
  <2>0. d \in 1 .. n /\ d - 1 = c /\ d + 1 = c + 2 /\ d \in 0 .. n BY <1>0
  <2> HIDE DEF d
  <2>1. ASSUME NEW k \in Int, OnRound(k, d)
        PROVE  t[d + 2][k] \in Nat /\ t[d + 2][k] - k \in Nat
    <3>1. PICK s \in Nat :
             /\ t[d + 2][k] \in Nat /\ t[d + 2][k] >= s
             /\ \/ OnRound(k + 1, d - 1) /\ t[d + 1][k + 1] \in Nat /\ s = t[d + 1][k + 1]
                \/ OnRound(k - 1, d - 1) /\ t[d + 1][k - 1] \in Nat /\ s = t[d + 1][k - 1] + 1
      <4>1. d \in 1 .. Len(t) - 2 BY <2>0
      <4>2. \E s \in Nat :
              /\ t[d + 2][k] \in Nat /\ t[d + 2][k] >= s
              /\ \A i \in s .. t[d + 2][k] - 1 : Equal(a, b, k, i)
              /\ \/ /\ FromAbove(t[d + 1], d, k) /\ OnRound(k + 1, d - 1)
                    /\ t[d + 1][k + 1] \in Nat /\ s = t[d + 1][k + 1]
                 \/ /\ ~FromAbove(t[d + 1], d, k) /\ OnRound(k - 1, d - 1)
                    /\ t[d + 1][k - 1] \in Nat /\ s = t[d + 1][k - 1] + 1
              /\ OnRound(k + 1, d - 1) => t[d + 1][k + 1] \in Nat /\ s >= t[d + 1][k + 1]
              /\ OnRound(k - 1, d - 1) => t[d + 1][k - 1] \in Nat /\ s >= t[d + 1][k - 1] + 1
        <5> HIDE DEF n
        <5> QED BY <2>1, <4>1, RoundStep
      <4> QED BY <4>2
    <3>2. \A j \in Int : OnRound(j, d - 1) => t[d + 1][j] - j \in Nat BY <1>2, <2>0 DEF Reached
    <3>3. s - k \in Nat
      <4>1. CASE OnRound(k + 1, d - 1) /\ t[d + 1][k + 1] \in Nat /\ s = t[d + 1][k + 1]
        <5>1. t[d + 1][k + 1] - (k + 1) \in Nat BY <3>2, <4>1
        <5> QED BY <4>1, <5>1
      <4>2. CASE OnRound(k - 1, d - 1) /\ t[d + 1][k - 1] \in Nat /\ s = t[d + 1][k - 1] + 1
        <5>1. t[d + 1][k - 1] - (k - 1) \in Nat BY <3>2, <4>2
        <5> QED BY <4>2, <5>1
      <4> QED BY <3>1, <4>1, <4>2
    <3> QED BY <3>1, <3>3
  <2>2. Reached(t, d) BY <2>1 DEF Reached
  <2> QED BY <2>0, <2>2 DEF d
<1>3. 0 .. n \subseteq S
  <2> HIDE DEF S, n
  <2> QED BY <1>0, <1>1, <1>2, UpTo
<1> QED BY <1>3

\* A point past the end of one sequence is no use: a round less gets as far in the
\* other with the first at an end.
NoUseX(t, a, d) ==
  \A k \in Int : OnRound(k, d) /\ t[d + 2][k] > Len(a) =>
    d # 0 /\ \E j \in Int : /\ OnRound(j, d - 1) /\ t[d + 1][j] >= Len(a)
                            /\ t[d + 1][j] - j >= t[d + 2][k] - k

NoUseY(t, b, d) ==
  \A k \in Int : OnRound(k, d) /\ t[d + 2][k] - k > Len(b) =>
    d # 0 /\ \E j \in Int : /\ OnRound(j, d - 1) /\ t[d + 1][j] - j >= Len(b)
                            /\ t[d + 1][j] >= t[d + 2][k]

\* Round 0 overshoots neither text.
LEMMA NoUseFirst ==
  ASSUME NEW a, NEW b, Len(a) \in Nat, Len(b) \in Nat, NEW t, Traced(t, a, b)
  PROVE  NoUseX(t, a, 0) /\ NoUseY(t, b, 0)
<1> DEFINE w == t[2][0]
<1>1. w \in Nat /\ \A i \in 0 .. w - 1 : Equal(a, b, 0, i) BY RoundFirst
<1> HIDE DEF w
<1>2. w <= Len(a) /\ w <= Len(b)
  <2>1. CASE w = 0 BY <2>1
  <2>2. CASE w # 0
    <3>1. w - 1 \in 0 .. w - 1 BY <1>1, <2>2
    <3>2. w - 1 < Len(a) /\ (w - 1) - 0 < Len(b) BY <1>1, <3>1 DEF Equal
    <3> QED BY <1>1, <3>2
  <2> QED BY <2>1, <2>2
<1>3. \A k \in Int : OnRound(k, 0) =>
        ~(t[0 + 2][k] > Len(a)) /\ ~(t[0 + 2][k] - k > Len(b))
  <2>1. 0 + 2 = 2 /\ w - 0 = w /\ ~(w > Len(a)) /\ ~(w > Len(b)) BY <1>1, <1>2
  <2> QED BY <2>1, FirstRound DEF w
<1> QED BY <1>3 DEF NoUseX, NoUseY

\* A point past the end of a text has one at that end, in the round before, that is as far.
LEMMA NoUseStep ==
  ASSUME NEW a, NEW b, Len(a) \in Nat, Len(b) \in Nat, NEW t, Traced(t, a, b),
         NEW d \in 1 .. Len(t) - 2, NoUseX(t, a, d - 1), NoUseY(t, b, d - 1)
  PROVE  NoUseX(t, a, d) /\ NoUseY(t, b, d)
<1> DEFINE N == Len(a)
           M == Len(b)
           X(e, k) == t[e + 2][k]
<1>0. d \in Nat /\ d # 0 /\ Len(t) \in Nat /\ N \in Nat /\ M \in Nat BY LenProperties DEF Traced
<1>a. /\ d - 1 \in Nat /\ (d - 1) + 2 = d + 1 /\ (d - 1) + 1 = d
      /\ d - 1 # 0 => d - 1 \in 1 .. Len(t) - 2 /\ d - 2 \in 0 .. Len(t) - 2 /\ (d - 1) - 1 = d - 2
                      /\ (d - 2) + 2 = d /\ d - 2 \in Nat
  BY <1>0
\* What a round makes of a neighbour of the round before.
<1>1. ASSUME NEW e \in 1 .. Len(t) - 2, NEW k \in Int, OnRound(k, e)
      PROVE  /\ t[e + 2][k] \in Nat
             /\ OnRound(k + 1, e - 1) => t[e + 1][k + 1] \in Nat /\ t[e + 2][k] >= t[e + 1][k + 1]
             /\ OnRound(k - 1, e - 1) => t[e + 1][k - 1] \in Nat /\ t[e + 2][k] >= t[e + 1][k - 1] + 1
  <2>1. PICK s \in Nat :
          /\ t[e + 2][k] \in Nat /\ t[e + 2][k] >= s
          /\ OnRound(k + 1, e - 1) => t[e + 1][k + 1] \in Nat /\ s >= t[e + 1][k + 1]
          /\ OnRound(k - 1, e - 1) => t[e + 1][k - 1] \in Nat /\ s >= t[e + 1][k - 1] + 1
    BY <1>1, RoundStep
  <2> DEFINE w == t[e + 2][k]
             above == t[e + 1][k + 1]
             below == t[e + 1][k - 1]
  <2>2. /\ w \in Nat /\ w >= s
        /\ OnRound(k + 1, e - 1) => above \in Nat /\ s >= above
        /\ OnRound(k - 1, e - 1) => below \in Nat /\ s >= below + 1
    BY <2>1
  <2> HIDE DEF w, above, below
  <2>3. /\ OnRound(k + 1, e - 1) => above \in Nat /\ w >= above
        /\ OnRound(k - 1, e - 1) => below \in Nat /\ w >= below + 1
    BY <2>2
  <2> QED BY <2>2, <2>3 DEF w, above, below
<1>3. \A k \in Int : d - 1 # 0 /\ OnRound(k, d - 2) => t[d][k] \in Nat
  <2>1. d - 1 # 0 => Reached(t, d - 2) BY <1>a, ReachedAll
  <2> QED BY <1>a, <2>1 DEF Reached
<1>4. ASSUME NEW k \in Int, OnRound(k, d)
      PROVE  \E s \in Nat :
               /\ t[d + 2][k] \in Nat /\ t[d + 2][k] >= s
               /\ t[d + 2][k] > N \/ t[d + 2][k] - k > M => t[d + 2][k] = s
               /\ \/ OnRound(k + 1, d - 1) /\ t[d + 1][k + 1] \in Nat /\ s = t[d + 1][k + 1]
                  \/ OnRound(k - 1, d - 1) /\ t[d + 1][k - 1] \in Nat /\ s = t[d + 1][k - 1] + 1
  <2>1. PICK s \in Nat :
          /\ t[d + 2][k] \in Nat /\ t[d + 2][k] >= s
          /\ \A i \in s .. t[d + 2][k] - 1 : Equal(a, b, k, i)
          /\ \/ OnRound(k + 1, d - 1) /\ t[d + 1][k + 1] \in Nat /\ s = t[d + 1][k + 1]
             \/ OnRound(k - 1, d - 1) /\ t[d + 1][k - 1] \in Nat /\ s = t[d + 1][k - 1] + 1
    BY <1>4, RoundStep
  <2> DEFINE w == t[d + 2][k]
  <2>2. w \in Nat /\ w >= s /\ \A i \in s .. w - 1 : Equal(a, b, k, i) BY <2>1
  <2> HIDE DEF w
  <2>3. ASSUME w # s PROVE w <= N /\ w - k <= M
    <3>1. w - 1 \in s .. w - 1 BY <2>2, <2>3
    <3>2. w - 1 < N /\ (w - 1) - k < M BY <2>2, <3>1 DEF Equal
    <3> QED BY <1>0, <2>2, <3>2
  <2>4. w > N \/ w - k > M => w = s BY <1>0, <2>2, <2>3
  <2> QED BY <2>1, <2>4 DEF w
<1>5. ASSUME NEW k \in Int, OnRound(k, d), t[d + 2][k] > N
      PROVE  \E j \in Int : /\ OnRound(j, d - 1) /\ t[d + 1][j] >= N
                            /\ t[d + 1][j] - j >= t[d + 2][k] - k
  <2> DEFINE w == t[d + 2][k]
  <2>1. /\ w \in Nat
        /\ \/ OnRound(k + 1, d - 1) /\ t[d + 1][k + 1] \in Nat /\ w = t[d + 1][k + 1]
           \/ OnRound(k - 1, d - 1) /\ t[d + 1][k - 1] \in Nat /\ w = t[d + 1][k - 1] + 1
    BY <1>4, <1>5
  <2>2. CASE OnRound(k - 1, d - 1) /\ t[d + 1][k - 1] \in Nat /\ w = t[d + 1][k - 1] + 1
    <3>1. k - 1 \in Int /\ t[d + 1][k - 1] >= N /\ t[d + 1][k - 1] - (k - 1) >= w - k
      BY <1>0, <1>5, <2>2
    <3> QED BY <2>2, <3>1
  <2>3. CASE OnRound(k + 1, d - 1) /\ t[d + 1][k + 1] \in Nat /\ w = t[d + 1][k + 1]
    <3>1. t[(d - 1) + 2][k + 1] > N /\ k + 1 \in Int BY <1>5, <1>a, <2>3
    <3>2. d - 1 # 0 /\ \E j \in Int : /\ OnRound(j, (d - 1) - 1) /\ t[(d - 1) + 1][j] >= N
                                      /\ t[(d - 1) + 1][j] - j >= t[(d - 1) + 2][k + 1] - (k + 1)
      BY <2>3, <3>1 DEF NoUseX
    <3>3. PICK j \in Int : /\ OnRound(j, d - 2) /\ t[d][j] >= N
                           /\ t[d][j] - j >= w - (k + 1)
      BY <1>a, <2>3, <3>2
    <3>4. t[d][j] \in Nat BY <1>3, <3>2, <3>3
    <3> DEFINE i == j - 1
    <3>5. i \in Int /\ i + 1 = j OBVIOUS
    <3> HIDE DEF i
    <3>6. OnRound(i, d - 1)
      <4>1. OnRound(j - 1, (d - 2) + 1) BY <1>a, <3>2, <3>3, NeighbourRound
      <4>2. (d - 2) + 1 = d - 1 BY <1>0
      <4> QED BY <4>1, <4>2 DEF i
    <3>7. t[d + 1][i] \in Nat /\ t[d + 1][i] >= t[d][j]
      <4> DEFINE e == d - 1
      <4>1. e \in 1 .. Len(t) - 2 /\ e + 2 = d + 1 /\ e + 1 = d /\ e - 1 = d - 2 BY <1>a, <3>2
      <4> HIDE DEF e
      <4>2. OnRound(i, e) /\ OnRound(i + 1, e - 1) BY <3>3, <3>5, <3>6, <4>1 DEF e
      <4>3. t[e + 2][i] \in Nat /\ t[e + 2][i] >= t[e + 1][i + 1] BY <1>1, <3>5, <4>1, <4>2
      <4> QED BY <3>5, <4>1, <4>3
    <3>8. t[d + 1][i] >= N /\ t[d + 1][i] - i >= w - k
      <4> DEFINE p == t[d + 1][i]
                 q == t[d][j]
      <4>1. p \in Nat /\ q \in Nat /\ p >= q /\ q >= N /\ q - j >= w - (k + 1) /\ w \in Nat
        BY <2>1, <3>3, <3>4, <3>7
      <4> HIDE DEF p, q, w
      <4>2. p >= N /\ p - i >= w - k BY <1>0, <3>5, <4>1
      <4> QED BY <4>2 DEF p, w
    <3> QED BY <3>5, <3>6, <3>8
  <2> QED BY <2>1, <2>2, <2>3
<1>6. ASSUME NEW k \in Int, OnRound(k, d), t[d + 2][k] - k > M
      PROVE  \E j \in Int : /\ OnRound(j, d - 1) /\ t[d + 1][j] - j >= M
                            /\ t[d + 1][j] >= t[d + 2][k]
  <2> DEFINE w == t[d + 2][k]
  <2>1. /\ w \in Nat
        /\ \/ OnRound(k + 1, d - 1) /\ t[d + 1][k + 1] \in Nat /\ w = t[d + 1][k + 1]
           \/ OnRound(k - 1, d - 1) /\ t[d + 1][k - 1] \in Nat /\ w = t[d + 1][k - 1] + 1
    BY <1>4, <1>6
  <2>2. CASE OnRound(k + 1, d - 1) /\ t[d + 1][k + 1] \in Nat /\ w = t[d + 1][k + 1]
    <3>1. k + 1 \in Int /\ t[d + 1][k + 1] >= w /\ t[d + 1][k + 1] - (k + 1) >= M
      BY <1>0, <1>6, <2>2
    <3> QED BY <2>2, <3>1
  <2>3. CASE OnRound(k - 1, d - 1) /\ t[d + 1][k - 1] \in Nat /\ w = t[d + 1][k - 1] + 1
    <3>1. t[(d - 1) + 2][k - 1] - (k - 1) > M /\ k - 1 \in Int BY <1>0, <1>6, <1>a, <2>3
    <3>2. d - 1 # 0 /\ \E j \in Int : /\ OnRound(j, (d - 1) - 1) /\ t[(d - 1) + 1][j] - j >= M
                                      /\ t[(d - 1) + 1][j] >= t[(d - 1) + 2][k - 1]
      BY <2>3, <3>1 DEF NoUseY
    <3>3. PICK j \in Int : /\ OnRound(j, d - 2) /\ t[d][j] - j >= M
                           /\ t[d][j] >= t[d + 1][k - 1]
      BY <1>a, <2>3, <3>2
    <3>4. t[d][j] \in Nat BY <1>3, <3>2, <3>3
    <3> DEFINE i == j + 1
    <3>5. i \in Int /\ i - 1 = j OBVIOUS
    <3> HIDE DEF i
    <3>6. OnRound(i, d - 1)
      <4>1. OnRound(j + 1, (d - 2) + 1) BY <1>a, <3>2, <3>3, NeighbourRound
      <4>2. (d - 2) + 1 = d - 1 BY <1>0
      <4> QED BY <4>1, <4>2 DEF i
    <3>7. t[d + 1][i] \in Nat /\ t[d + 1][i] >= t[d][j] + 1
      <4> DEFINE e == d - 1
      <4>1. e \in 1 .. Len(t) - 2 /\ e + 2 = d + 1 /\ e + 1 = d /\ e - 1 = d - 2 BY <1>a, <3>2
      <4> HIDE DEF e
      <4>2. OnRound(i, e) /\ OnRound(i - 1, e - 1) BY <3>3, <3>5, <3>6, <4>1 DEF e
      <4>3. t[e + 2][i] \in Nat /\ t[e + 2][i] >= t[e + 1][i - 1] + 1 BY <1>1, <3>5, <4>1, <4>2
      <4> QED BY <3>5, <4>1, <4>3
    <3>8. t[d + 1][i] - i >= M /\ t[d + 1][i] >= w
      <4> DEFINE p == t[d + 1][i]
                 q == t[d][j]
                 r == t[d + 1][k - 1]
      <4>1. /\ p \in Nat /\ q \in Nat /\ p >= q + 1 /\ q - j >= M /\ q >= r
            /\ r \in Nat /\ w = r + 1
        BY <2>1, <2>3, <3>3, <3>4, <3>7
      <4> HIDE DEF p, q, r, w
      <4>2. p - i >= M /\ p >= w BY <1>0, <3>5, <4>1
      <4> QED BY <4>2 DEF p, w
    <3> QED BY <3>5, <3>6, <3>8
  <2> QED BY <2>1, <2>2, <2>3
<1> QED BY <1>0, <1>5, <1>6 DEF NoUseX, NoUseY

\* This holds of every round of a trace.
LEMMA NoUseAll ==
  ASSUME NEW a, NEW b, Len(a) \in Nat, Len(b) \in Nat, NEW t, Traced(t, a, b)
  PROVE  \A d \in 0 .. Len(t) - 2 : NoUseX(t, a, d) /\ NoUseY(t, b, d)
<1> DEFINE n == Len(t) - 2
           S == {d \in 0 .. n : NoUseX(t, a, d) /\ NoUseY(t, b, d)}
<1>0. n \in Nat BY LenProperties DEF Traced
<1>1. 0 \in S BY <1>0, NoUseFirst
<1>2. ASSUME NEW c \in 0 .. n - 1, c \in S PROVE c + 1 \in S
  <2> DEFINE d == c + 1
  <2>1. d \in 1 .. Len(t) - 2 /\ d - 1 = c /\ d \in 0 .. n BY <1>0
  <2> HIDE DEF d
  <2>2. NoUseX(t, a, d - 1) /\ NoUseY(t, b, d - 1) BY <1>2, <2>1
  <2>3. NoUseX(t, a, d) /\ NoUseY(t, b, d) BY <2>1, <2>2, NoUseStep
  <2> QED BY <2>1, <2>3 DEF d
<1>3. 0 .. n \subseteq S
  <2> HIDE DEF S, n
  <2> QED BY <1>0, <1>1, <1>2, UpTo
<1> QED BY <1>3

\* The last round that reaches both ends reaches them exactly: a round that got past
\* an end would come after one that had reached both.
LEMMA ReachesEnd ==
  ASSUME NEW a, NEW b, Len(a) \in Nat, Len(b) \in Nat, NEW t, Traced(t, a, b),
         NEW d \in Nat, d = Len(t) - 2, Reaches(a, b, t[d + 2], d)
  PROVE  OnRound(Len(a) - Len(b), d) /\ t[d + 2][Len(a) - Len(b)] = Len(a)
<1> DEFINE N == Len(a)
           M == Len(b)
<1>1. PICK k \in -d .. d : (k - d) % 2 = 0 /\ t[d + 2][k] >= N /\ t[d + 2][k] - k >= M
  BY DEF Reaches
<1> DEFINE w == t[d + 2][k]
<1>2. k \in Int /\ OnRound(k, d) /\ d \in 0 .. Len(t) - 2 /\ Len(t) \in Nat
  BY <1>1, LenProperties DEF OnRound, Traced
<1>3. w \in Nat /\ w >= N /\ w - k >= M
  <2>1. Reached(t, d) BY <1>2, ReachedAll
  <2> QED BY <1>1, <1>2, <2>1 DEF Reached
<1>4. \A j \in Int : d # 0 /\ OnRound(j, d - 1) => t[d + 1][j] \in Nat /\ t[d + 1][j] - j \in Nat
  <2>1. d # 0 => Reached(t, d - 1) /\ (d - 1) + 2 = d + 1
    <3>1. d # 0 => d - 1 \in 0 .. Len(t) - 2 /\ (d - 1) + 2 = d + 1 BY <1>2
    <3> QED BY <3>1, ReachedAll
  <2> QED BY <2>1 DEF Reached
<1>5. ASSUME d # 0, NEW j \in Int, OnRound(j, d - 1), t[d + 1][j] >= N, t[d + 1][j] - j >= M
      PROVE  FALSE
  <2>1. d - 1 \in 0 .. Len(t) - 3 /\ (d - 1) + 2 = d + 1 BY <1>2, <1>5
  <2>2. ~Reaches(a, b, t[d + 1], d - 1)
    <3>1. ~Reaches(a, b, t[(d - 1) + 2], d - 1) BY <2>1 DEF Traced
    <3> QED BY <2>1, <3>1
  <2>3. j \in -(d - 1) .. d - 1 /\ (j - (d - 1)) % 2 = 0 BY <1>5 DEF OnRound
  <2> QED BY <1>5, <2>2, <2>3 DEF Reaches
<1>6. NoUseX(t, a, d) /\ NoUseY(t, b, d) BY <1>2, NoUseAll
<1>7. ~(w > N)
  <2> SUFFICES ASSUME w > N PROVE FALSE OBVIOUS
  <2>1. d # 0 /\ \E j \in Int : OnRound(j, d - 1) /\ t[d + 1][j] >= N /\ t[d + 1][j] - j >= w - k
    BY <1>2, <1>6 DEF NoUseX
  <2>2. PICK j \in Int : OnRound(j, d - 1) /\ t[d + 1][j] >= N /\ t[d + 1][j] - j >= w - k BY <2>1
  <2>3. t[d + 1][j] - j >= M
    <3> DEFINE p == t[d + 1][j]
    <3>1. p \in Nat /\ p - j >= w - k BY <1>4, <2>1, <2>2
    <3> HIDE DEF p, w
    <3>2. p - j >= M BY <1>2, <1>3, <3>1
    <3> QED BY <3>2 DEF p
  <2> QED BY <1>5, <2>1, <2>2, <2>3
<1>8. ~(w - k > M)
  <2> SUFFICES ASSUME w - k > M PROVE FALSE OBVIOUS
  <2>1. d # 0 /\ \E j \in Int : OnRound(j, d - 1) /\ t[d + 1][j] - j >= M /\ t[d + 1][j] >= w
    BY <1>2, <1>6 DEF NoUseY
  <2>2. PICK j \in Int : OnRound(j, d - 1) /\ t[d + 1][j] - j >= M /\ t[d + 1][j] >= w BY <2>1
  <2>3. t[d + 1][j] >= N
    <3> DEFINE p == t[d + 1][j]
    <3>1. p \in Nat /\ p >= w BY <1>4, <2>1, <2>2
    <3> HIDE DEF p, w
    <3>2. p >= N BY <1>2, <1>3, <3>1
    <3> QED BY <3>2 DEF p
  <2> QED BY <1>5, <2>1, <2>2, <2>3
<1>9. w = N /\ k = N - M BY <1>2, <1>3, <1>7, <1>8
<1> QED BY <1>2, <1>9

\* The furthest point of a round.
Furthest(t, d, k) == Place(t[d + 2][k], t[d + 2][k] - k)

\* The n bytes of a after x and those of b after y are the same.
Same(a, b, x, y, n) == \A c \in 0 .. n - 1 : At(a, x + c) = At(b, y + c)

\* From q at (x, y), one edit leads to (u, w) and n equals from there to p.
Hop(a, b, x, y, u, w, n, q, p) ==
  /\ x \in Nat /\ y \in Nat /\ u \in Nat /\ w \in Nat /\ n \in Nat
  /\ \/ u = x /\ w = y + 1
     \/ u = x + 1 /\ w = y
  /\ u + n <= Len(a) /\ w + n <= Len(b)
  /\ Same(a, b, u, w, n)
  /\ q = Place(x, y) /\ p = Place(u + n, w + n)

\* An edit, then equals.
LEMMA EditThenEqualsIs ==
  ASSUME NEW a, NEW b, Len(a) \in Nat, Len(b) \in Nat, NEW x, NEW y, NEW u, NEW w, NEW n, NEW q,
         NEW p, Hop(a, b, x, y, u, w, n, q, p)
  PROVE  q \in Grid(a, b) /\ Aligned(RoundOps(q, p), a, b, q, p)
<1> DEFINE r == Place(u, w)
           op == IF u = x THEN "INSERT" ELSE "DELETE"
<1>1. /\ q.x = x /\ q.y = y /\ r.x = u /\ r.y = w /\ p.x = u + n /\ p.y = w + n
  BY DEF Hop, Place
<1>0. /\ x \in Nat /\ y \in Nat /\ u \in Nat /\ w \in Nat /\ n \in Nat
      /\ \/ u = x /\ w = y + 1
         \/ u = x + 1 /\ w = y
      /\ u + n <= Len(a) /\ w + n <= Len(b)
  BY DEF Hop
<1>2. x \in 0 .. Len(a) /\ u \in 0 .. Len(a) /\ y \in 0 .. Len(b) /\ w \in 0 .. Len(b) BY <1>0
<1>3. q \in Grid(a, b) /\ r \in Grid(a, b) BY <1>2 DEF Grid, Hop, Place
<1>4. op \in {"INSERT", "DELETE"} /\ Takes(a, b, q, op, r)
  <2>1. \/ u = x /\ w = y + 1
        \/ u # x /\ u = x + 1 /\ w = y
    BY <1>0
  <2> QED BY <1>1, <2>1 DEF Takes
<1>5. RoundOps(q, p) = <<op>> \o Equals(n)
  <2>1. /\ \/ p.x - q.x = n /\ p.y - q.y = n + 1
           \/ p.x - q.x = n + 1 /\ p.y - q.y = n
        /\ p.x - n = q.x <=> u = x
    BY <1>0, <1>1
  <2>2. Lesser(p.x - q.x, p.y - q.y) = n BY <1>0, <2>1 DEF Lesser
  <2> QED BY <2>1, <2>2 DEF RoundOps, EditThenEquals
<1>6. /\ r.x + n <= Len(a) /\ r.y + n <= Len(b)
      /\ \A c \in 0 .. n - 1 : At(a, r.x + c) = At(b, r.y + c)
      /\ Place(r.x + n, r.y + n) = p
  <2>1. Same(a, b, r.x, r.y, n) /\ p = Place(r.x + n, r.y + n) BY <1>1 DEF Hop
  <2> QED BY <1>0, <1>1, <2>1 DEF Same
<1> HIDE DEF r, op
<1>7. Aligned(<<op>> \o Equals(n), a, b, q, Place(r.x + n, r.y + n))
  BY <1>0, <1>3, <1>4, <1>6, AlignedEdit
<1> QED BY <1>3, <1>5, <1>6, <1>7

\* Where a round began, and the edit and the equals that led from there.
LEMMA BackStep ==
  ASSUME NEW a, NEW b, Len(a) \in Nat, Len(b) \in Nat, NEW t, Traced(t, a, b),
         NEW d \in 1 .. Len(t) - 2, NEW k \in Int, OnRound(k, d),
         Furthest(t, d, k) \in Grid(a, b),
         NEW p, p = Furthest(t, d, k), NEW q, q = Origin(t[d + 1], d, p)
  PROVE  /\ q \in Grid(a, b)
         /\ \E j \in Int : OnRound(j, d - 1) /\ q = Furthest(t, d - 1, j)
         /\ Aligned(RoundOps(q, p), a, b, q, p)
<1> DEFINE v == t[d + 1]
           x == t[d + 2][k]
<1>0. d \in Nat /\ d # 0 /\ Len(t) \in Nat /\ (d - 1) + 2 = d + 1 /\ d - 1 \in 0 .. Len(t) - 2
  BY LenProperties DEF Traced
<1>1. PICK s \in Nat :
        /\ x \in Nat /\ x >= s
        /\ \A i \in s .. x - 1 : Equal(a, b, k, i)
        /\ \/ /\ FromAbove(v, d, k) /\ OnRound(k + 1, d - 1)
              /\ v[k + 1] \in Nat /\ s = v[k + 1]
           \/ /\ ~FromAbove(v, d, k) /\ OnRound(k - 1, d - 1)
              /\ v[k - 1] \in Nat /\ s = v[k - 1] + 1
  BY RoundStep
<1>2. \A j \in Int : OnRound(j, d - 1) => v[j] \in Nat /\ v[j] - j \in Nat
  <2>1. Reached(t, d - 1) BY <1>0, ReachedAll
  <2> QED BY <1>0, <2>1 DEF Reached
<1>3. p.x = x /\ p.y = x - k /\ x <= Len(a) /\ x - k <= Len(b) /\ x - k \in Nat /\ p = Place(x, x - k)
  BY DEF Furthest, Place, Grid
<1>4. \A j \in Int : Furthest(t, d - 1, j) = Place(v[j], v[j] - j) BY <1>0 DEF Furthest
<1>5. p.x - p.y = k BY <1>1, <1>3
<1> HIDE DEF v, x
<1>6. PICK count \in Nat : s + count = x /\ count = x - s
  <2>1. x - s \in Nat /\ s + (x - s) = x BY <1>1
  <2> QED BY <2>1
<1>7. Same(a, b, s, s - k, count)
  <2> SUFFICES ASSUME NEW i \in 0 .. count - 1 PROVE At(a, s + i) = At(b, (s - k) + i) BY DEF Same
  <2>1. s + i \in s .. x - 1 /\ (s + i) - k = (s - k) + i BY <1>1, <1>6
  <2>2. Equal(a, b, k, s + i) BY <1>1, <2>1
  <2>3. At(a, s + i) = At(b, (s + i) - k) BY <2>2 DEF Equal
  <2> QED BY <2>1, <2>3
<1>8. s + count <= Len(a) /\ (s - k) + count <= Len(b) /\ p = Place(s + count, (s - k) + count)
  <2>1. x - k = (s - k) + count BY <1>6
  <2> QED BY <1>3, <1>6, <2>1
<1>11. ASSUME NEW w \in Nat, w = s - k
       PROVE  /\ s + count <= Len(a) /\ w + count <= Len(b)
              /\ Same(a, b, s, w, count) /\ p = Place(s + count, w + count)
  BY <1>7, <1>8, <1>11
<1>9. CASE FromAbove(v, d, k) /\ OnRound(k + 1, d - 1) /\ v[k + 1] \in Nat /\ s = v[k + 1]
  <2>1. q = Place(s, s - (k + 1)) BY <1>5, <1>9 DEF Origin, Place, v
  <2>2. PICK y \in Nat : y = s - (k + 1) BY <1>2, <1>9
  <2>3. PICK w \in Nat : w = s - k /\ w = y + 1
    <3>1. s - k = y + 1 /\ y + 1 \in Nat BY <2>2
    <3> QED BY <3>1
  <2>4. q = Place(s, y) BY <2>1, <2>2
  <2>5. Hop(a, b, s, y, s, w, count, q, p)
    <3>1. /\ s + count <= Len(a) /\ w + count <= Len(b)
          /\ Same(a, b, s, w, count) /\ p = Place(s + count, w + count)
      BY <1>11, <2>3
    <3> QED BY <2>3, <2>4, <3>1 DEF Hop
  <2>6. q \in Grid(a, b) /\ Aligned(RoundOps(q, p), a, b, q, p) BY <2>5, EditThenEqualsIs
  <2>7. k + 1 \in Int /\ q = Furthest(t, d - 1, k + 1) BY <1>4, <1>9, <2>1
  <2> QED BY <1>9, <2>6, <2>7
<1>10. CASE ~FromAbove(v, d, k) /\ OnRound(k - 1, d - 1) /\ v[k - 1] \in Nat /\ s = v[k - 1] + 1
  <2>1. PICK u \in Nat : u = v[k - 1] BY <1>10
  <2>2. k - 1 \in Int /\ q = Place(u, u - (k - 1)) BY <1>5, <1>10, <2>1 DEF Origin, Place, v
  <2>3. PICK w \in Nat : w = u - (k - 1)
    <3>1. u - (k - 1) \in Nat BY <1>2, <1>10, <2>1, <2>2
    <3> QED BY <3>1
  <2>4. s = u + 1 /\ w = s - k
    <3>1. s = u + 1 BY <1>10, <2>1
    <3> QED BY <2>3, <3>1
  <2>5. q = Place(u, w) BY <2>2, <2>3
  <2>6. Hop(a, b, u, w, s, w, count, q, p)
    <3>1. /\ s + count <= Len(a) /\ w + count <= Len(b)
          /\ Same(a, b, s, w, count) /\ p = Place(s + count, w + count)
      BY <1>11, <2>4
    <3> QED BY <2>4, <2>5, <3>1 DEF Hop
  <2>7. q \in Grid(a, b) /\ Aligned(RoundOps(q, p), a, b, q, p) BY <2>6, EditThenEqualsIs
  <2>8. q = Furthest(t, d - 1, k - 1) BY <1>4, <2>1, <2>2
  <2> QED BY <1>10, <2>2, <2>7, <2>8
<1> QED BY <1>1, <1>9, <1>10

\* The first round's equals lead from the origin.
LEMMA FirstOps ==
  ASSUME NEW a, NEW b, Len(a) \in Nat, Len(b) \in Nat, NEW t, Traced(t, a, b),
         Furthest(t, 0, 0) \in Grid(a, b)
  PROVE  Aligned(Equals(Furthest(t, 0, 0).x), a, b, Place(0, 0), Furthest(t, 0, 0))
<1> DEFINE w == t[2][0]
<1>1. w \in Nat /\ \A i \in 0 .. w - 1 : Equal(a, b, 0, i) BY RoundFirst
<1>2. Furthest(t, 0, 0) = Place(w, w) /\ Furthest(t, 0, 0).x = w
  <2>1. 0 + 2 = 2 /\ w - 0 = w BY <1>1
  <2> QED BY <2>1 DEF Furthest, Place
<1> HIDE DEF w
<1>3. w <= Len(a) /\ w <= Len(b) BY <1>2 DEF Grid, Place
<1> DEFINE o == Place(0, 0)
<1>4. o \in Grid(a, b) /\ o.x = 0 /\ o.y = 0 BY DEF Grid, Place
<1> HIDE DEF o
<1>5. \A i \in 0 .. w - 1 : At(a, o.x + i) = At(b, o.y + i)
  <2> SUFFICES ASSUME NEW i \in 0 .. w - 1 PROVE At(a, o.x + i) = At(b, o.y + i) OBVIOUS
  <2>1. o.x + i = i /\ o.y + i = i /\ i - 0 = i BY <1>4
  <2>2. At(a, i) = At(b, i - 0) BY <1>1 DEF Equal
  <2> QED BY <2>1, <2>2
<1>6. o.x + w = w /\ o.y + w = w BY <1>1, <1>4
<1>7. Aligned(Equals(w), a, b, o, Place(o.x + w, o.y + w))
  BY <1>1, <1>3, <1>4, <1>5, <1>6, AlignedEquals
<1> QED BY <1>2, <1>6, <1>7 DEF o

\* The ops lead from the beginning of both sequences to their ends.
LEMMA OpsOfIs ==
  ASSUME NEW a, NEW b, Len(a) \in Nat, Len(b) \in Nat, NEW t, Traced(t, a, b),
         NEW found \in Nat, found = Len(t) - 2, Reaches(a, b, t[found + 2], found)
  PROVE  Aligned(OpsOf(a, b, t, found), a, b, Place(0, 0), Place(Len(a), Len(b)))
<1> DEFINE n == found
           last == [x |-> Len(a), y |-> Len(b)]
           Back(f, d) == IF d = n THEN last ELSE Origin(t[d + 2], d + 1, f[d + 1])
           Solves(f, m) == f = [d \in n - m .. n |-> Back(f, d)]
           S == {m \in 0 .. n : \E f : Solves(f, m)}
<1>0. n \in Nat OBVIOUS
<1>1. 0 \in S
  <2> DEFINE f == [d \in n - 0 .. n |-> last]
  <2>1. Solves(f, 0) BY <1>0
  <2>2. \E h : Solves(h, 0)
    <3> HIDE DEF Solves, f
    <3> QED BY <2>1
  <2> QED BY <1>0, <2>2
<1>2. ASSUME NEW m \in 0 .. n - 1, m \in S PROVE m + 1 \in S
  <2>1. PICK f : Solves(f, m) BY <1>2
  <2> DEFINE k == n - (m + 1)
             h == [d \in k .. n |-> IF d = k THEN Back(f, k) ELSE f[d]]
  <2>2. /\ m + 1 \in 0 .. n /\ k # n /\ k \in k .. n
        /\ \A d \in k .. n : d # k => d \in n - m .. n
        /\ \A d \in n - m .. n : d # k /\ d \in k .. n
        /\ \A d \in k .. n : d # n => d + 1 \in n - m .. n
    BY <1>0
  <2>3. \A d \in n - m .. n : f[d] = Back(f, d)
    <3> HIDE DEF Back
    <3> QED BY <2>1
  <2>4. h = [d \in k .. n |-> h[d]] OBVIOUS
  <2>5. h[k] = Back(f, k) /\ \A d \in n - m .. n : h[d] = f[d]
    <3> HIDE DEF Back
    <3> QED BY <2>2
  <2> HIDE DEF h
  <2>6. \A d \in k .. n : Back(h, d) = Back(f, d)
    <3> SUFFICES ASSUME NEW d \in k .. n PROVE Back(h, d) = Back(f, d) OBVIOUS
    <3>1. CASE d = n BY <3>1
    <3>2. CASE d # n
      <4>1. h[d + 1] = f[d + 1] BY <2>2, <2>5, <3>2
      <4> QED BY <3>2, <4>1
    <3> QED BY <3>1, <3>2
  <2>7. \A d \in k .. n : h[d] = Back(h, d)
    <3> HIDE DEF Back, k
    <3> QED BY <2>2, <2>3, <2>5, <2>6
  <2>8. Solves(h, m + 1)
    <3> HIDE DEF Back
    <3> QED BY <2>4, <2>7
  <2>9. \E g : Solves(g, m + 1)
    <3> HIDE DEF Solves
    <3> QED BY <2>8
  <2> QED BY <2>2, <2>9
<1>3. n \in S
  <2> HIDE DEF S, n
  <2> QED BY <1>0, <1>1, <1>2, UpTo
<1>4. \E f : f = [d \in 0 .. n |-> Back(f, d)]
  <2>1. n - n = 0 BY <1>0
  <2> HIDE DEF Back
  <2>2. PICK f : f = [d \in n - n .. n |-> Back(f, d)] BY <1>3
  <2>3. f = [d \in 0 .. n |-> Back(f, d)] BY <2>1, <2>2
  <2> QED BY <2>3
<1> DEFINE end == CHOOSE f : f = [d \in 0 .. found |-> Back(f, d)]
<1>5. end = [d \in 0 .. n |-> Back(end, d)]
  <2> HIDE DEF Back
  <2> QED BY <1>4
<1> HIDE DEF end
<1>6. \A d \in 0 .. n : end[d] = Back(end, d)
  <2> HIDE DEF Back
  <2> QED BY <1>5
\* Every end of a round is its furthest point on a diagonal, within both sequences.
<1> DEFINE Good(d) == /\ end[d] \in Grid(a, b)
                      /\ \E k \in Int : OnRound(k, d) /\ end[d] = Furthest(t, d, k)
           G == {m \in 0 .. n : \A d \in n - m .. n : Good(d)}
<1>7. Good(n)
  <2>1. end[n] = Place(Len(a), Len(b))
    <3>1. n \in 0 .. n BY <1>0
    <3>2. end[n] = Back(end, n)
      <4> HIDE DEF Back, n
      <4> QED BY <1>6, <3>1
    <3> QED BY <3>2 DEF Place
  <2> DEFINE k == Len(a) - Len(b)
  <2>2. k \in Int /\ OnRound(k, n) /\ t[n + 2][k] = Len(a) /\ Len(a) - k = Len(b) BY ReachesEnd
  <2> HIDE DEF k
  <2>3. end[n] = Furthest(t, n, k) BY <2>1, <2>2 DEF Furthest
  <2>4. end[n] \in Grid(a, b) BY <2>1 DEF Grid, Place
  <2> QED BY <2>2, <2>3, <2>4
<1>8. ASSUME NEW d \in 0 .. n - 1, Good(d + 1)
      PROVE  /\ Good(d)
             /\ end[d] = Origin(t[d + 2], d + 1, end[d + 1])
             /\ Aligned(RoundOps(end[d], end[d + 1]), a, b, end[d], end[d + 1])
  <2> DEFINE e == d + 1
  <2>1. e \in 1 .. Len(t) - 2 /\ d + 2 = e + 1 /\ d \in 0 .. n /\ d # n /\ e - 1 = d BY <1>0
  <2>2. end[d] = Origin(t[d + 2], d + 1, end[d + 1]) BY <1>6, <2>1
  <2>3. PICK k \in Int : OnRound(k, e) /\ end[e] = Furthest(t, e, k) BY <1>8
  <2>4. end[e] \in Grid(a, b) /\ end[d] = Origin(t[e + 1], e, end[e]) BY <1>8, <2>1, <2>2
  <2> HIDE DEF e
  <2>5. /\ end[d] \in Grid(a, b)
        /\ \E j \in Int : OnRound(j, e - 1) /\ end[d] = Furthest(t, e - 1, j)
        /\ Aligned(RoundOps(end[d], end[e]), a, b, end[d], end[e])
    BY <2>1, <2>3, <2>4, BackStep
  <2> QED BY <2>1, <2>2, <2>5 DEF e
<1> HIDE DEF Good
<1>9. \A d \in 0 .. n : Good(d)
  <2>1. 0 \in G
    <3>1. \A d \in n - 0 .. n : d = n BY <1>0
    <3> QED BY <1>0, <1>7, <3>1
  <2>2. ASSUME NEW m \in 0 .. n - 1, m \in G PROVE m + 1 \in G
    <3> DEFINE k == n - (m + 1)
    <3>1. /\ m + 1 \in 0 .. n /\ k \in 0 .. n - 1 /\ k + 1 \in n - m .. n
          /\ \A d \in k .. n : d = k \/ d \in n - m .. n
      BY <1>0
    <3>2. Good(k + 1) BY <2>2, <3>1
    <3>3. Good(k)
      <4> HIDE DEF k
      <4> QED BY <1>8, <3>1, <3>2
    <3>4. \A d \in k .. n : Good(d) BY <2>2, <3>1, <3>3
    <3> QED BY <3>1, <3>4
  <2>3. 0 .. n \subseteq G
    <3> HIDE DEF G, n
    <3> QED BY <1>0, <2>1, <2>2, UpTo
  <2>4. n \in 0 .. n /\ n - n = 0 BY <1>0
  <2>5. n \in G
    <3> HIDE DEF G
    <3> QED BY <2>3, <2>4
  <2>6. \A d \in n - n .. n : Good(d) BY <2>5
  <2> QED BY <2>4, <2>6
\* The ops of the rounds, one after the other.
<1> DEFINE V == Seq(Operations)
           first == Equals(end[0].x)
           Ops(d) == RoundOps(Origin(t[d + 1], d, end[d]), end[d])
           step == [d \in 1 .. n |-> [s \in V |-> s \o Ops(d)]]
           Body(f, d) == IF d = 0 THEN Equals(end[0].x)
                         ELSE f[d - 1] \o RoundOps(Origin(t[d + 1], d, end[d]), end[d])
<1>10. Aligned(first, a, b, Place(0, 0), end[0])
  <2>1. Good(0) BY <1>0, <1>9
  <2>2. PICK k \in Int : OnRound(k, 0) /\ end[0] = Furthest(t, 0, k) BY <2>1 DEF Good
  <2>3. end[0] = Furthest(t, 0, 0) /\ end[0] \in Grid(a, b) BY <2>1, <2>2, FirstRound DEF Good
  <2> QED BY <2>3, FirstOps
<1>11. ASSUME NEW d \in 1 .. n PROVE Aligned(Ops(d), a, b, end[d - 1], end[d])
  <2> DEFINE c == d - 1
  <2>1. c \in 0 .. n - 1 /\ c + 1 = d /\ c + 2 = d + 1 /\ d \in 0 .. n BY <1>0
  <2> HIDE DEF c
  <2>2. Good(c + 1) BY <1>9, <2>1
  <2>3. /\ end[c] = Origin(t[c + 2], c + 1, end[c + 1])
        /\ Aligned(RoundOps(end[c], end[c + 1]), a, b, end[c], end[c + 1])
    BY <1>8, <2>1, <2>2
  <2> QED BY <2>1, <2>3 DEF c
<1> HIDE DEF Ops
<1>12. /\ first \in V
       /\ \A d \in 1 .. n : Ops(d) \in V
  BY <1>10, <1>11 DEF Aligned
<1>13. step \in [1 .. n -> [V -> V]] /\ \A d \in 1 .. n, s \in V : step[d][s] = s \o Ops(d)
  <2>1. \A d \in 1 .. n, s \in V : s \o Ops(d) \in V BY <1>12, ConcatProperties
  <2> HIDE DEF V
  <2> QED BY <2>1
<1> HIDE DEF V, first, step
<1>14. PICK f : Recursive(f, n, V, first, step)
  <2> HIDE DEF n
  <2> QED BY <1>0, <1>12, <1>13, Recursion
<1>15. /\ f \in [0 .. n -> V] /\ f[0] = first
       /\ \A d \in 1 .. n : f[d] = f[d - 1] \o Ops(d)
  <2>1. /\ f \in [0 .. n -> V] /\ f[0] = first
        /\ \A d \in 1 .. n : f[d] = step[d][f[d - 1]]
    BY <1>14 DEF Recursive
  <2>2. \A d \in 1 .. n : d - 1 \in 0 .. n BY <1>0
  <2>3. \A d \in 1 .. n : f[d - 1] \in V BY <2>1, <2>2
  <2> QED BY <1>13, <2>1, <2>3
<1>16. f = [d \in 0 .. n |-> Body(f, d)]
  <2>1. ASSUME NEW d \in 0 .. n PROVE f[d] = Body(f, d)
    <3>1. d = 0 \/ (d # 0 /\ d \in 1 .. n) BY <1>0
    <3> QED BY <1>15, <3>1 DEF Ops, first
  <2>2. f = [d \in 0 .. n |-> f[d]] BY <1>15
  <2> HIDE DEF Body
  <2> QED BY <2>1, <2>2
<1>17. PICK g : g = [d \in 0 .. n |-> Body(g, d)] /\ OpsOf(a, b, t, found) = g[n]
  <2>1. \E g : g = [d \in 0 .. n |-> Body(g, d)]
    <3> HIDE DEF Body
    <3> QED BY <1>16
  <2> DEFINE result == CHOOSE g : g = [d \in 0 .. n |-> Body(g, d)]
  <2>2. OpsOf(a, b, t, found) = result[n] BY DEF OpsOf, end
  <2>3. result = [d \in 0 .. n |-> Body(result, d)]
    <3> HIDE DEF Body
    <3> QED BY <2>1
  <2> HIDE DEF result
  <2> QED BY <2>2, <2>3
<1>18. \A d \in 0 .. n : g[d] = Body(g, d)
  <2> HIDE DEF Body
  <2> QED BY <1>17
<1> DEFINE H == {d \in 0 .. n : Aligned(g[d], a, b, Place(0, 0), end[d])}
<1>19. 0 \in H
  <2>1. 0 \in 0 .. n BY <1>0
  <2>2. g[0] = first BY <1>18, <2>1 DEF first
  <2> QED BY <1>10, <2>1, <2>2
<1>20. ASSUME NEW c \in 0 .. n - 1, c \in H PROVE c + 1 \in H
  <2> DEFINE d == c + 1
  <2>1. d \in 0 .. n /\ d \in 1 .. n /\ d # 0 /\ d - 1 = c BY <1>0
  <2> HIDE DEF d
  <2>2. g[d] = g[c] \o Ops(d) BY <1>18, <2>1 DEF Ops
  <2>3. Aligned(Ops(d), a, b, end[c], end[d]) BY <1>11, <2>1
  <2>4. Aligned(g[c], a, b, Place(0, 0), end[c]) BY <1>20
  <2>5. Aligned(g[c] \o Ops(d), a, b, Place(0, 0), end[d]) BY <2>3, <2>4, AlignedConcat
  <2> QED BY <2>1, <2>2, <2>5 DEF d
<1>21. n \in H
  <2> HIDE DEF H, n
  <2> QED BY <1>0, <1>19, <1>20, UpTo
<1>22. end[n] = Place(Len(a), Len(b))
  <2>1. n \in 0 .. n BY <1>0
  <2>2. end[n] = Back(end, n)
    <3> HIDE DEF Back, n
    <3> QED BY <1>6, <2>1
  <2> QED BY <2>2 DEF Place
<1> QED BY <1>17, <1>21, <1>22

\* A script there is leads from the beginning of both sequences to their ends.
LEMMA ScriptIs ==
  ASSUME NEW a, NEW b, Len(a) \in Nat, Len(b) \in Nat, Script(a, b) # TooMany
  PROVE  Aligned(Script(a, b), a, b, Place(0, 0), Place(Len(a), Len(b)))
<1> DEFINE t == Trace(a, b)
           found == Len(t) - 2
<1>1. Traced(t, a, b) /\ found \in Nat /\ found + 2 = Len(t)
  <2>1. Traced(t, a, b) BY TraceIs
  <2> QED BY <2>1, LenProperties DEF Traced
<1> HIDE DEF t
<1>2. Reaches(a, b, t[Len(t)], found) /\ Script(a, b) = OpsOf(a, b, t, found)
  BY DEF Script, ScriptOf, t
<1>3. Reaches(a, b, t[found + 2], found) BY <1>1, <1>2
<1> QED BY <1>1, <1>2, <1>3, OpsOfIs

-----------------------------------------------------------------------------
(* The elements of a part of a text, in positions of the whole.            *)

\* Before a continuation byte of UTF-8 is a byte of the same character.
LEMMA ContinuationFollows ==
  ASSUME NEW p \in Seq(Byte), WellFormed(p), NEW i \in 1 .. Len(p) - 1, IsContinuation(At(p, i))
  PROVE  At(p, i - 1) \in Nat /\ At(p, i - 1) >= 128
<1> DEFINE k == i - 1
<1>0. Len(p) \in Nat /\ k \in 0 .. Len(p) - 1 /\ k + 1 \in 1 .. Len(p) /\ k + 1 = i BY LenProperties
<1>1. PICK c \in Byte : At(p, k) = c BY <1>0, ElementOfSeq DEF At
<1> HIDE DEF k
<1>2. ASSUME c < 128 PROVE FALSE
  <2>1. ~IsContinuation(c) /\ Width(c) = 1 BY <1>2 DEF IsContinuation, Width, Byte
  <2>2. WholeAt(p, k + 1) BY <1>0, <1>1, <2>1 DEF WellFormed
  <2> QED BY <1>0, <2>2 DEF WholeAt
<1>3. c \in Nat /\ c >= 128 BY <1>2 DEF Byte
<1> QED BY <1>1, <1>3 DEF k

\* Elements from lo to hi of one of two texts that cut no character.
Fragments(e, p, lo, hi, a, b) ==
  /\ Tiles(e, lo, hi) /\ hi <= Len(p)
  /\ \A i \in 1 .. Len(e) : Clean(a, b, p, e[i].start + e[i].len)

\* An element of a part may begin only where a character does.
LEMMA BeginsClean ==
  ASSUME NEW p \in Seq(Byte), NEW lo \in Nat, NEW len \in Nat, lo + len <= Len(p),
         NEW i \in 1 .. len - 1, NEW word \in BOOLEAN,
         StartsAt(Bytes(p, lo, len), i, word), WellFormed(p)
  PROVE  WholeAt(p, lo + i)
<1> DEFINE s == Bytes(p, lo, len)
           k == lo + i
<1>0. /\ Len(p) \in Nat /\ i + 1 \in 1 .. len /\ (i - 1) + 1 \in 1 .. len /\ k \in 1 .. Len(p) - 1
      /\ lo + (i + 1) = k + 1 /\ lo + ((i - 1) + 1) = (k - 1) + 1 /\ i # 0
  BY LenProperties
<1>1. \A j \in 1 .. len : s[j] = p[lo + j] BY BytesIs
<1>2. At(s, i) = At(p, k) /\ At(s, i - 1) = At(p, k - 1) BY <1>0, <1>1 DEF At
<1> HIDE DEF s, k
<1>3. ASSUME IsContinuation(At(p, k)) PROVE FALSE
  <2>1. At(p, k - 1) \in Nat /\ At(p, k - 1) >= 128 BY <1>0, <1>3, ContinuationFollows
  <2>2. IsWordByte(At(p, k)) /\ IsWordByte(At(p, k - 1))
    <3>1. PICK c \in 128 .. 191 : c = At(p, k) BY <1>3 DEF IsContinuation
    <3>2. PICK d \in Nat : d = At(p, k - 1) /\ d >= 128 BY <2>1
    <3>3. IsWordByte(c) /\ IsWordByte(d) BY <3>2 DEF IsWordByte
    <3> QED BY <3>1, <3>2, <3>3
  <2>3. StartsAt(s, i, word) BY DEF s
  <2> QED BY <1>0, <1>2, <1>3, <2>2, <2>3 DEF StartsAt
<1> QED BY <1>3 DEF WholeAt, k

\* The elements of a part, moved to where it stands.
LEMMA ShiftedIs ==
  ASSUME NEW e, NEW len, Tiles(e, 0, len), NEW lo \in Nat
  PROVE  /\ Tiles(Shifted(e, lo), lo, lo + len) /\ Len(Shifted(e, lo)) = Len(e)
         /\ \A i \in 1 .. Len(e) : /\ Shifted(e, lo)[i].start = lo + e[i].start
                                   /\ Shifted(e, lo)[i].len = e[i].len
<1> DEFINE s == Shifted(e, lo)
           n == Len(e)
           hi == lo + len
<1>0. /\ e \in Seq(Element) /\ n \in Nat /\ DOMAIN e = 1 .. n /\ len \in Nat /\ StartOf(e, 1, len) = 0
      /\ \A i \in 1 .. n : e[i] \in Element
  BY LenProperties, ElementOfSeq DEF Tiles
<1>1. s = [i \in 1 .. n |-> [e[i] EXCEPT !.start = @ + lo]] BY <1>0 DEF Shifted
<1>2. ASSUME NEW i \in 1 .. n
      PROVE  /\ [e[i] EXCEPT !.start = @ + lo] \in Element
             /\ [e[i] EXCEPT !.start = @ + lo].start = lo + e[i].start
             /\ [e[i] EXCEPT !.start = @ + lo].len = e[i].len
  <2>1. PICK x \in Element : x = e[i] BY <1>0
  <2>2. /\ [x EXCEPT !.start = @ + lo] \in Element
        /\ [x EXCEPT !.start = @ + lo].start = lo + x.start
        /\ [x EXCEPT !.start = @ + lo].len = x.len
    BY DEF Element
  <2> QED BY <2>1, <2>2
<1>3. s \in [1 .. n -> Element] BY <1>1, <1>2
<1>4. \A i \in 1 .. n : s[i].start = lo + e[i].start /\ s[i].len = e[i].len BY <1>1, <1>2
<1> HIDE DEF s
<1>5. s \in Seq(Element) /\ Len(s) = n
  <2> HIDE DEF n
  <2> QED BY <1>0, <1>3
<1>6. \A i \in 1 .. n + 1 : StartOf(s, i, hi) = lo + StartOf(e, i, len)
  BY <1>0, <1>4, <1>5 DEF StartOf
<1>7. hi \in Nat /\ lo + 0 = lo /\ 1 \in 1 .. n + 1 BY <1>0
<1>8. ASSUME NEW i \in 1 .. n
      PROVE  /\ s[i].start + s[i].len = StartOf(s, i + 1, hi)
             /\ s[i].start >= lo /\ s[i].start + s[i].len <= hi
  <2>1. /\ e[i].start + e[i].len = StartOf(e, i + 1, len)
        /\ e[i].start >= 0 /\ e[i].start + e[i].len <= len
    BY DEF Tiles
  <2>2. e[i].start \in Nat /\ e[i].len \in Nat /\ i + 1 \in 1 .. n + 1 BY <1>0 DEF Element
  <2>3. s[i].start + s[i].len = lo + (e[i].start + e[i].len) BY <1>4, <2>2
  <2>4. StartOf(s, i + 1, hi) = lo + StartOf(e, i + 1, len) BY <1>6, <2>2
  <2>5. s[i].start = lo + e[i].start BY <1>4
  <2> QED BY <1>0, <2>1, <2>2, <2>3, <2>4, <2>5
<1>9. StartOf(s, 1, hi) = lo BY <1>0, <1>6, <1>7
<1> HIDE DEF n, hi
<1>10. Tiles(s, lo, hi) BY <1>5, <1>7, <1>8, <1>9 DEF Tiles
<1> QED BY <1>4, <1>5, <1>10 DEF s, n, hi

\* Elements, in positions of the whole text and in those of the part that begins at
\* by; and the bytes each of them holds.
Moved(e, part, by) ==
  /\ Len(e) \in Nat /\ Len(part) = Len(e)
  /\ \A i \in 1 .. Len(e) : e[i].start = by + part[i].start /\ e[i].len = part[i].len
Holding(e, p, s) ==
  Len(e) \in Nat /\ Len(s) = Len(e) /\ \A i \in 1 .. Len(e) : s[i] = Bytes(p, e[i].start, e[i].len)

\* The elements of a part of a text, with the bytes each holds.
LEMMA TokensPieces ==
  ASSUME NEW a \in Seq(Byte), NEW b \in Seq(Byte), NEW p \in {a, b},
         NEW lo \in Nat, NEW len \in Nat, lo + len <= Len(p), Clean(a, b, p, lo + len),
         NEW word \in BOOLEAN, NEW e, e = Tokens(Bytes(p, lo, len), word)
  PROVE  /\ Fragments(Shifted(e, lo), p, lo, lo + len, a, b)
         /\ Moved(Shifted(e, lo), e, lo)
         /\ Holding(Shifted(e, lo), p, Slices(Bytes(p, lo, len), e))
<1> DEFINE t == Bytes(p, lo, len)
           s == Shifted(e, lo)
           n == Len(e)
           c == Slices(t, e)
<1>0. p \in Seq(Byte) /\ Len(p) \in Nat BY LenProperties
<1>1. t \in Seq(Byte) /\ Len(t) = len /\ \A i \in 1 .. len : t[i] = p[lo + i] BY <1>0, BytesIs
<1> HIDE DEF t
<1>2. Tiles(e, 0, len) /\ Cuts(t, e, word) BY <1>1, TokensIs DEF t
<1>3. /\ e \in Seq(Element) /\ n \in Nat /\ DOMAIN e = 1 .. n
      /\ \A i \in 1 .. n : e[i] \in Element
  BY <1>2, LenProperties, ElementOfSeq DEF Tiles
<1>4. /\ Tiles(s, lo, lo + len) /\ Len(s) = n
      /\ \A i \in 1 .. n : s[i].start = lo + e[i].start /\ s[i].len = e[i].len
  BY <1>2, ShiftedIs
<1> HIDE DEF s
<1>5. ASSUME NEW i \in 1 .. n PROVE Clean(a, b, p, s[i].start + s[i].len)
  <2> DEFINE x == e[i].start + e[i].len
  <2>1. x \in 1 .. len /\ s[i].start + s[i].len = lo + x
    <3>1. e[i].start \in Nat /\ e[i].len \in Nat /\ e[i].len # 0 BY <1>3 DEF Element
    <3>2. x <= len BY <1>2 DEF Tiles
    <3>3. s[i].start = lo + e[i].start /\ s[i].len = e[i].len BY <1>4
    <3> QED BY <3>1, <3>2, <3>3
  <2>2. x = len \/ StartsAt(t, x, word) BY <1>1, <1>2 DEF Cuts
  <2> HIDE DEF x
  <2>3. CASE x = len BY <2>1, <2>3
  <2>4. CASE x # len /\ WellFormed(p)
    <3>1. x \in 1 .. len - 1 /\ StartsAt(Bytes(p, lo, len), x, word) BY <2>1, <2>2, <2>4 DEF t
    <3>2. WholeAt(p, lo + x) BY <1>0, <2>4, <3>1, BeginsClean
    <3> QED BY <2>1, <3>2 DEF Clean
  <2>5. CASE ~WellFormed(p) BY <2>5 DEF Clean
  <2> QED BY <2>3, <2>4, <2>5
<1>6. Fragments(s, p, lo, lo + len, a, b) BY <1>4, <1>5 DEF Fragments
<1>7. c = [i \in 1 .. n |-> Bytes(t, e[i].start, e[i].len)] BY <1>3 DEF Slices
<1>8. ASSUME NEW i \in 1 .. n
      PROVE  /\ Bytes(t, e[i].start, e[i].len) \in Seq(Byte)
             /\ Bytes(t, e[i].start, e[i].len) = Bytes(p, s[i].start, s[i].len)
  <2> DEFINE x == e[i].start
             m == e[i].len
             y == s[i].start
  <2>1. x \in Nat /\ m \in Nat /\ x + m <= len /\ y = lo + x /\ s[i].len = m
    <3>1. x \in Nat /\ m \in Nat BY <1>3 DEF Element
    <3>2. x + m <= len BY <1>2 DEF Tiles
    <3> QED BY <1>4, <3>1, <3>2
  <2> HIDE DEF x, m, y
  <2>2. y \in Nat /\ y + m <= Len(p) /\ x + m <= Len(t) BY <1>0, <1>1, <2>1
  <2>3. Bytes(t, x, m) \in Seq(Byte) BY <1>1, <2>1, <2>2, BytesIs
  <2>4. Alike(t, x, p, y, m)
    <3> SUFFICES ASSUME NEW j \in 1 .. m PROVE t[x + j] = p[y + j] BY DEF Alike
    <3>1. x + j \in 1 .. len /\ lo + (x + j) = y + j BY <1>0, <2>1
    <3> QED BY <1>1, <3>1
  <2>5. Bytes(t, x, m) = Bytes(p, y, m) BY <1>0, <1>1, <2>1, <2>2, <2>4, EqualBytes
  <2> QED BY <2>1, <2>3, <2>5 DEF x, m, y
<1>9. c \in [1 .. n -> Seq(Byte)] /\ \A i \in 1 .. n : c[i] = Bytes(p, s[i].start, s[i].len)
  BY <1>7, <1>8
<1> HIDE DEF c
<1>10. Len(c) = n
  <2> HIDE DEF n
  <2> QED BY <1>3, <1>9
<1>11. Moved(s, e, lo) /\ Holding(s, p, c) BY <1>3, <1>4, <1>9, <1>10 DEF Moved, Holding
<1> QED BY <1>6, <1>11 DEF s, c, t

\* An element of a text, and where the next begins.
LEMMA PieceIs ==
  ASSUME NEW a \in Seq(Byte), NEW b \in Seq(Byte), NEW p, p = a \/ p = b, NEW lo, NEW hi, NEW e,
         Fragments(e, p, lo, hi, a, b), NEW i \in 1 .. Len(e)
  PROVE  /\ e[i].start \in Nat /\ e[i].len \in Nat /\ e[i].len # 0
         /\ e[i].start + e[i].len = StartOf(e, i + 1, hi) /\ e[i].start = StartOf(e, i, hi)
         /\ e[i].start + e[i].len <= Len(p) /\ e[i].start >= lo /\ e[i].start + e[i].len <= hi
         /\ Clean(a, b, p, e[i].start + e[i].len) /\ Len(e) \in Nat /\ lo \in Nat /\ hi \in Nat
<1>0. e \in Seq(Element) /\ Len(e) \in Nat /\ Len(p) \in Nat /\ hi \in Nat /\ lo \in Nat
  BY LenProperties DEF Fragments, Tiles
<1>1. e[i] \in Element BY <1>0, ElementOfSeq
<1>2. e[i].start \in Nat /\ e[i].len \in Nat /\ e[i].len # 0 BY <1>1 DEF Element
<1>3. e[i].start + e[i].len = StartOf(e, i + 1, hi) /\ e[i].start + e[i].len <= hi /\ e[i].start >= lo
  BY DEF Fragments, Tiles
<1>4. e[i].start = StartOf(e, i, hi) BY <1>0 DEF StartOf
<1> QED BY <1>0, <1>2, <1>3, <1>4 DEF Fragments

\* Both outputs are pushed an element of both texts.
LEMMA EqualPiece ==
  ASSUME NEW a \in Seq(Byte), NEW b \in Seq(Byte), NEW cap \in Nat, NEW o, NEW p,
         NEW e, NEW alo, NEW ahi, Fragments(e, a, alo, ahi, a, b), NEW i \in 1 .. Len(e),
         NEW f, NEW blo, NEW bhi, Fragments(f, b, blo, bhi, a, b), NEW j \in 1 .. Len(f),
         Bytes(a, e[i].start, e[i].len) = Bytes(b, f[j].start, f[j].len),
         Together(cap, o, p, a, b, StartOf(e, i, ahi), StartOf(f, j, bhi))
  PROVE  Together(cap, Push(o, "EQUAL", e[i].start, e[i].len), Push(p, "EQUAL", e[i].start, e[i].len),
                  a, b, StartOf(e, i + 1, ahi), StartOf(f, j + 1, bhi))
<1> DEFINE x == e[i].start
           y == f[j].start
           len == e[i].len
           m == f[j].len
<1>1. /\ x \in Nat /\ len \in Nat /\ x + len = StartOf(e, i + 1, ahi) /\ x = StartOf(e, i, ahi)
      /\ x + len <= Len(a) /\ Clean(a, b, a, x + len)
  <2>2. /\ e[i].start \in Nat /\ e[i].len \in Nat
        /\ e[i].start + e[i].len = StartOf(e, i + 1, ahi) /\ e[i].start = StartOf(e, i, ahi)
        /\ e[i].start + e[i].len <= Len(a) /\ Clean(a, b, a, e[i].start + e[i].len)
    <3> HIDE DEF x, y, len, m
    <3> QED BY PieceIs
  <2> QED BY <2>2
<1>2. /\ y \in Nat /\ m \in Nat /\ y + m = StartOf(f, j + 1, bhi) /\ y = StartOf(f, j, bhi)
      /\ y + m <= Len(b) /\ Clean(a, b, b, y + m)
  <2>2. /\ f[j].start \in Nat /\ f[j].len \in Nat
        /\ f[j].start + f[j].len = StartOf(f, j + 1, bhi) /\ f[j].start = StartOf(f, j, bhi)
        /\ f[j].start + f[j].len <= Len(b) /\ Clean(a, b, b, f[j].start + f[j].len)
    <3> HIDE DEF x, y, len, m
    <3> QED BY PieceIs
  <2> QED BY <2>2
<1>3. Bytes(a, x, len) = Bytes(b, y, m) /\ Together(cap, o, p, a, b, x, y) BY <1>1, <1>2
<1> HIDE DEF x, y, len, m
<1>4. m = len
  <2>1. Len(Bytes(a, x, len)) = len /\ Len(Bytes(b, y, m)) = m BY <1>1, <1>2, BytesIs
  <2> QED BY <1>3, <2>1
<1>5. Together(cap, Push(o, "EQUAL", x, len), Push(p, "EQUAL", x, len), a, b, x + len, y + len)
  BY <1>1, <1>2, <1>3, <1>4, PushEqual
<1> QED BY <1>1, <1>2, <1>4, <1>5 DEF x, len

\* Both outputs are pushed an element of the first text.
LEMMA DeletePiece ==
  ASSUME NEW a \in Seq(Byte), NEW b \in Seq(Byte), NEW cap \in Nat, NEW o, NEW p,
         NEW e, NEW lo, NEW hi, Fragments(e, a, lo, hi, a, b), NEW i \in 1 .. Len(e), NEW y,
         Together(cap, o, p, a, b, StartOf(e, i, hi), y)
  PROVE  Together(cap, Push(o, "DELETE", e[i].start, e[i].len), Push(p, "DELETE", e[i].start, e[i].len),
                  a, b, StartOf(e, i + 1, hi), y)
<1> DEFINE x == e[i].start
           len == e[i].len
<1>1. /\ x \in Nat /\ len \in Nat /\ x + len = StartOf(e, i + 1, hi) /\ x = StartOf(e, i, hi)
      /\ x + len <= Len(a) /\ Clean(a, b, a, x + len)
  BY PieceIs
<1> HIDE DEF x, len
<1>2. Together(cap, Push(o, "DELETE", x, len), Push(p, "DELETE", x, len), a, b, x + len, y)
  BY <1>1, PushDelete
<1> QED BY <1>1, <1>2 DEF x, len

\* Both outputs are pushed an element of the second.
LEMMA InsertPiece ==
  ASSUME NEW a \in Seq(Byte), NEW b \in Seq(Byte), NEW cap \in Nat, NEW o, NEW p,
         NEW e, NEW lo, NEW hi, Fragments(e, b, lo, hi, a, b), NEW j \in 1 .. Len(e), NEW x,
         Together(cap, o, p, a, b, x, StartOf(e, j, hi))
  PROVE  Together(cap, Push(o, "INSERT", e[j].start, e[j].len), Push(p, "INSERT", e[j].start, e[j].len),
                  a, b, x, StartOf(e, j + 1, hi))
<1> DEFINE y == e[j].start
           len == e[j].len
<1>1. /\ y \in Nat /\ len \in Nat /\ y + len = StartOf(e, j + 1, hi) /\ y = StartOf(e, j, hi)
      /\ y + len <= Len(b) /\ Clean(a, b, b, y + len)
  BY PieceIs
<1> HIDE DEF y, len
<1>2. Together(cap, Push(o, "INSERT", y, len), Push(p, "INSERT", y, len), a, b, x, y + len)
  BY <1>1, PushInsert
<1> QED BY <1>1, <1>2 DEF y, len

-----------------------------------------------------------------------------
(* A replaced run by character: refine.                                    *)

RefineStart(o) == [o |-> o, ai |-> 1, bi |-> 1]

\* The states the ops of a script lead through.
RefineStates(g, o, aoff, ea, boff, eb, ops) ==
  /\ g[0] = RefineStart(o)
  /\ \A i \in 1 .. Len(ops) : g[i] = RefineStep(g[i - 1], ops[i], aoff, ea, boff, eb)

\* The fold over the ops goes through such states and answers the last one's output.
LEMMA RefineOpsIs ==
  ASSUME NEW o, NEW aoff, NEW ea, NEW boff, NEW eb, NEW ops, Len(ops) \in Nat
  PROVE  \E g : /\ RefineStates(g, o, aoff, ea, boff, eb, ops)
                /\ RefineOps(o, aoff, ea, boff, eb, ops) = g[Len(ops)].o
<1> DEFINE n == Len(ops)
           Body(f, i) == IF i = 0 THEN [o |-> o, ai |-> 1, bi |-> 1]
                         ELSE RefineStep(f[i - 1], ops[i], aoff, ea, boff, eb)
           Solves(f, m) == f = [i \in 0 .. m |-> Body(f, i)]
           S == {m \in 0 .. n : \E f : Solves(f, m)}
<1>0. n \in Nat OBVIOUS
<1>1. 0 \in S
  <2> DEFINE f == [i \in 0 .. 0 |-> [o |-> o, ai |-> 1, bi |-> 1]]
  <2>1. Solves(f, 0) OBVIOUS
  <2>2. \E h : Solves(h, 0)
    <3> HIDE DEF Solves, f
    <3> QED BY <2>1
  <2> QED BY <1>0, <2>2
<1>2. ASSUME NEW m \in 0 .. n - 1, m \in S PROVE m + 1 \in S
  <2>1. PICK f : Solves(f, m) BY <1>2
  <2> DEFINE k == m + 1
             h == [i \in 0 .. k |-> IF i = k THEN Body(f, k) ELSE f[i]]
  <2>2. /\ k \in 0 .. n /\ k # 0 /\ k \in 0 .. k
        /\ \A i \in 0 .. k : i # k => i \in 0 .. m
        /\ \A i \in 0 .. m : i # k /\ i \in 0 .. k
        /\ \A i \in 0 .. k : i # 0 => i - 1 \in 0 .. m
    BY <1>0
  <2>3. \A i \in 0 .. m : f[i] = Body(f, i)
    <3> HIDE DEF Body
    <3> QED BY <2>1
  <2>4. h = [i \in 0 .. k |-> h[i]] OBVIOUS
  <2>5. h[k] = Body(f, k) /\ \A i \in 0 .. m : h[i] = f[i]
    <3> HIDE DEF Body
    <3> QED BY <2>2
  <2> HIDE DEF h
  <2>6. \A i \in 0 .. k : Body(h, i) = Body(f, i)
    <3> SUFFICES ASSUME NEW i \in 0 .. k PROVE Body(h, i) = Body(f, i) OBVIOUS
    <3>1. i = 0 \/ h[i - 1] = f[i - 1] BY <2>2, <2>5
    <3> QED BY <3>1
  <2>7. \A i \in 0 .. k : h[i] = Body(h, i)
    <3> HIDE DEF Body, k
    <3> QED BY <2>2, <2>3, <2>5, <2>6
  <2>8. Solves(h, k)
    <3> HIDE DEF Body
    <3> QED BY <2>4, <2>7
  <2>9. \E g : Solves(g, k)
    <3> HIDE DEF Solves
    <3> QED BY <2>8
  <2> QED BY <2>2, <2>9
<1>3. n \in S
  <2> HIDE DEF S, n
  <2> QED BY <1>0, <1>1, <1>2, UpTo
<1>4. \E g : g = [i \in 0 .. n |-> Body(g, i)]
  <2> HIDE DEF Body
  <2> QED BY <1>3
<1>5. PICK g : g = [i \in 0 .. n |-> Body(g, i)] /\ RefineOps(o, aoff, ea, boff, eb, ops) = g[n].o
  BY <1>4, Zenon DEF RefineOps
<1>6. \A i \in 0 .. n : g[i] = Body(g, i)
  <2> HIDE DEF Body
  <2> QED BY <1>5
<1>7. g[0] = RefineStart(o)
  <2>1. 0 \in 0 .. n BY <1>0
  <2> QED BY <1>6, <2>1 DEF RefineStart
<1>8. ASSUME NEW i \in 1 .. n PROVE g[i] = RefineStep(g[i - 1], ops[i], aoff, ea, boff, eb)
  <2>1. i \in 0 .. n /\ i # 0 BY <1>0
  <2> QED BY <1>6, <2>1
<1> QED BY <1>5, <1>7, <1>8 DEF RefineStates

\* An insert takes an element of the second side.
LEMMA InsertStep ==
  ASSUME NEW o, NEW i, NEW j, NEW w, w = [o |-> o, ai |-> i, bi |-> j],
         NEW aoff, NEW ea, NEW boff, NEW eb
  PROVE  RefineStep(w, "INSERT", aoff, ea, boff, eb)
           = [o |-> Push(o, "INSERT", boff + eb[j].start, eb[j].len), ai |-> i, bi |-> j + 1]
<1> DEFINE x == Push(o, "INSERT", boff + eb[j].start, eb[j].len)
<1>1. w.o = o /\ w.bi = j OBVIOUS
<1>2. RefineStep(w, "INSERT", aoff, ea, boff, eb) = [w EXCEPT !.o = x, !.bi = j + 1]
  BY <1>1 DEF RefineStep
<1> HIDE DEF x
<1>3. [w EXCEPT !.o = x, !.bi = j + 1] = [o |-> x, ai |-> i, bi |-> j + 1]
  <2>1. [w EXCEPT !.o = x] = [o |-> x, ai |-> i, bi |-> j] OBVIOUS
  <2>2. [[o |-> x, ai |-> i, bi |-> j] EXCEPT !.bi = j + 1] = [o |-> x, ai |-> i, bi |-> j + 1]
    OBVIOUS
  <2> QED BY <2>1, <2>2
<1> QED BY <1>2, <1>3 DEF x

\* The states of both outputs after the ops that lead to place r.
StatesAt(cap, v, w, a, b, e, ahi, f, bhi, r) ==
  \E o, p : /\ v = [o |-> o, ai |-> r.x + 1, bi |-> r.y + 1]
            /\ w = [o |-> p, ai |-> r.x + 1, bi |-> r.y + 1]
            /\ Together(cap, o, p, a, b, StartOf(e, r.x + 1, ahi), StartOf(f, r.y + 1, bhi))

\* One op, on both outputs.
LEMMA RefineStepTogether ==
  ASSUME NEW a \in Seq(Byte), NEW b \in Seq(Byte), NEW cap \in Nat,
         NEW ea, NEW eb, NEW aoff \in Nat, NEW boff \in Nat,
         NEW e, NEW alo, NEW ahi, Fragments(e, a, alo, ahi, a, b),
         NEW f, NEW blo, NEW bhi, Fragments(f, b, blo, bhi, a, b),
         Moved(e, ea, aoff), Moved(f, eb, boff),
         NEW sa, Holding(e, a, sa), NEW sb, Holding(f, b, sb),
         NEW q \in Grid(sa, sb), NEW r \in Grid(sa, sb), NEW op \in Operations, Takes(sa, sb, q, op, r),
         NEW v, NEW w, StatesAt(cap, v, w, a, b, e, ahi, f, bhi, q)
  PROVE  StatesAt(cap, RefineStep(v, op, aoff, ea, boff, eb), RefineStep(w, op, aoff, ea, boff, eb),
                  a, b, e, ahi, f, bhi, r)
<1> PICK o, p :
      /\ v = [o |-> o, ai |-> q.x + 1, bi |-> q.y + 1]
      /\ w = [o |-> p, ai |-> q.x + 1, bi |-> q.y + 1]
      /\ Together(cap, o, p, a, b, StartOf(e, q.x + 1, ahi), StartOf(f, q.y + 1, bhi))
  BY DEF StatesAt
<1>0. /\ q.x \in 0 .. Len(e) /\ q.y \in 0 .. Len(f) /\ r.x \in 0 .. Len(e) /\ r.y \in 0 .. Len(f)
      /\ q.x \in Nat /\ q.y \in Nat /\ Len(e) \in Nat /\ Len(f) \in Nat
  BY DEF Grid, Holding
<1> DEFINE i == q.x + 1
           j == q.y + 1
<1>2. v.o = o /\ v.ai = i /\ v.bi = j /\ w.o = p /\ w.ai = i /\ w.bi = j OBVIOUS
<1>3. CASE op = "EQUAL"
  <2>1. r.x = q.x + 1 /\ r.y = q.y + 1 /\ sa[q.x + 1] = sb[q.y + 1] BY <1>3 DEF Takes, Place, At
  <2>2. i \in 1 .. Len(e) /\ j \in 1 .. Len(f) /\ r.x + 1 = i + 1 /\ r.y + 1 = j + 1 BY <1>0, <2>1
  <2>3. sa[i] = sb[j] BY <2>1
  <2> HIDE DEF i, j
  <2>4. /\ Bytes(a, e[i].start, e[i].len) = Bytes(b, f[j].start, f[j].len)
        /\ aoff + ea[i].start = e[i].start /\ ea[i].len = e[i].len
    BY <2>2, <2>3 DEF Moved, Holding
  <2>5. Together(cap, o, p, a, b, StartOf(e, i, ahi), StartOf(f, j, bhi)) BY DEF i, j
  <2> DEFINE o2 == Push(o, "EQUAL", e[i].start, e[i].len)
             p2 == Push(p, "EQUAL", e[i].start, e[i].len)
  <2>6. Together(cap, o2, p2, a, b, StartOf(e, i + 1, ahi), StartOf(f, j + 1, bhi))
    BY <2>2, <2>4, <2>5, EqualPiece
  <2>7. /\ RefineStep(v, op, aoff, ea, boff, eb) = [o |-> o2, ai |-> i + 1, bi |-> j + 1]
        /\ RefineStep(w, op, aoff, ea, boff, eb) = [o |-> p2, ai |-> i + 1, bi |-> j + 1]
    BY <1>2, <1>3, <2>4 DEF RefineStep
  <2> HIDE DEF o2, p2
  <2> QED BY <2>2, <2>6, <2>7 DEF StatesAt
<1>4. CASE op = "DELETE"
  <2>1. r.x = q.x + 1 /\ r.y = q.y BY <1>4 DEF Takes, Place
  <2>2. i \in 1 .. Len(e) /\ r.x + 1 = i + 1 /\ r.y + 1 = j BY <1>0, <2>1
  <2> HIDE DEF i, j
  <2>3. aoff + ea[i].start = e[i].start /\ ea[i].len = e[i].len BY <2>2 DEF Moved
  <2>4. Together(cap, o, p, a, b, StartOf(e, i, ahi), StartOf(f, j, bhi)) BY DEF i, j
  <2> DEFINE o2 == Push(o, "DELETE", e[i].start, e[i].len)
             p2 == Push(p, "DELETE", e[i].start, e[i].len)
  <2>5. Together(cap, o2, p2, a, b, StartOf(e, i + 1, ahi), StartOf(f, j, bhi))
    BY <2>2, <2>4, DeletePiece
  <2>6. /\ RefineStep(v, op, aoff, ea, boff, eb) = [o |-> o2, ai |-> i + 1, bi |-> j]
        /\ RefineStep(w, op, aoff, ea, boff, eb) = [o |-> p2, ai |-> i + 1, bi |-> j]
    BY <1>2, <1>4, <2>3 DEF RefineStep
  <2> HIDE DEF o2, p2
  <2> QED BY <2>2, <2>5, <2>6 DEF StatesAt
<1>5. CASE op = "INSERT"
  <2>1. r.x = q.x /\ r.y = q.y + 1 BY <1>5 DEF Takes, Place
  <2>2. j \in 1 .. Len(f) /\ r.x + 1 = i /\ r.y + 1 = j + 1 BY <1>0, <2>1
  <2> HIDE DEF i, j
  <2>3. boff + eb[j].start = f[j].start /\ eb[j].len = f[j].len BY <2>2 DEF Moved
  <2>4. Together(cap, o, p, a, b, StartOf(e, i, ahi), StartOf(f, j, bhi)) BY DEF i, j
  <2> DEFINE o2 == Push(o, "INSERT", f[j].start, f[j].len)
             p2 == Push(p, "INSERT", f[j].start, f[j].len)
  <2>5. Together(cap, o2, p2, a, b, StartOf(e, i, ahi), StartOf(f, j + 1, bhi))
    BY <2>2, <2>4, InsertPiece
  <2>6. v = [o |-> o, ai |-> i, bi |-> j] /\ w = [o |-> p, ai |-> i, bi |-> j] BY DEF i, j
  <2>7. /\ RefineStep(v, op, aoff, ea, boff, eb) = [o |-> o2, ai |-> i, bi |-> j + 1]
        /\ RefineStep(w, op, aoff, ea, boff, eb) = [o |-> p2, ai |-> i, bi |-> j + 1]
    BY <1>5, <2>3, <2>6, InsertStep
  <2> HIDE DEF o2, p2
  <2> QED BY <2>2, <2>5, <2>7 DEF StatesAt
<1> QED BY <1>3, <1>4, <1>5 DEF Operations

\* A run refined leads to its ends.
LEMMA RefineTogether ==
  ASSUME NEW a \in Seq(Byte), NEW b \in Seq(Byte), NEW cap \in Nat, NEW o, NEW p, NEW x, NEW y,
         Together(cap, o, p, a, b, x, y),
         NEW alen \in Nat, NEW blen \in Nat, x + alen <= Len(a), y + blen <= Len(b),
         Clean(a, b, a, x + alen), Clean(a, b, b, y + blen)
  PROVE  Together(cap, Refine(o, Bytes(a, x, alen), x, Bytes(b, y, blen), y),
                       Refine(p, Bytes(a, x, alen), x, Bytes(b, y, blen), y),
                  a, b, x + alen, y + blen)
<1> DEFINE pa == Bytes(a, x, alen)
           pb == Bytes(b, y, blen)
           ea == Tokens(pa, FALSE)
           eb == Tokens(pb, FALSE)
           sa == Slices(pa, ea)
           sb == Slices(pb, eb)
           ops == Script(sa, sb)
<1>0. x \in Nat /\ y \in Nat BY LenProperties DEF Together
<1>1. Len(pa) = alen /\ Len(pb) = blen BY <1>0, BytesIs
<1> DEFINE e == Shifted(ea, x)
           f == Shifted(eb, y)
<1>2. Fragments(e, a, x, x + alen, a, b) /\ Moved(e, ea, x) /\ Holding(e, a, sa)
  BY <1>0, TokensPieces
<1>3. Fragments(f, b, y, y + blen, a, b) /\ Moved(f, eb, y) /\ Holding(f, b, sb)
  BY <1>0, TokensPieces
<1>4. /\ Refine(o, pa, x, pb, y) = RefineBy(o, x, alen, ea, y, blen, eb, ops)
      /\ Refine(p, pa, x, pb, y) = RefineBy(p, x, alen, ea, y, blen, eb, ops)
  BY <1>1 DEF Refine, RefineSpans
<1> HIDE DEF e, f, sa, sb, ea, eb
<1> DEFINE ahi == x + alen
           bhi == y + blen
<1>5. CASE ops = TooMany
  <2>1. Together(cap, Replaced(o, x, alen, y, blen), Replaced(p, x, alen, y, blen), a, b, ahi, bhi)
    BY ReplacedTogether
  <2> HIDE DEF pa, pb, ahi, bhi, ops
  <2>2. Together(cap, Refine(o, pa, x, pb, y), Refine(p, pa, x, pb, y), a, b, ahi, bhi)
    BY <1>4, <1>5, <2>1 DEF RefineBy
  <2> QED BY <2>2 DEF pa, pb, ahi, bhi
<1>6. CASE ops # TooMany
  <2>1. Aligned(ops, sa, sb, Place(0, 0), Place(Len(sa), Len(sb)))
    <3>1. Len(sa) \in Nat /\ Len(sb) \in Nat BY <1>2, <1>3 DEF Holding
    <3> QED BY <1>6, <3>1, ScriptIs
  <2> DEFINE n == Len(ops)
  <2>2. ops \in Seq(Operations) /\ n \in Nat BY <2>1, LenProperties DEF Aligned
  <2>3. PICK u : Through(u, ops, sa, sb, Place(0, 0), Place(Len(sa), Len(sb))) BY <2>1 DEF Aligned
  <2>4. PICK g : RefineStates(g, o, x, ea, y, eb, ops) /\ RefineOps(o, x, ea, y, eb, ops) = g[n].o
    BY <2>2, RefineOpsIs
  <2>5. PICK h : RefineStates(h, p, x, ea, y, eb, ops) /\ RefineOps(p, x, ea, y, eb, ops) = h[n].o
    BY <2>2, RefineOpsIs
  <2> HIDE DEF ops, ahi, bhi, pa, pb
  <2>6. /\ u \in [0 .. n -> Grid(sa, sb)] /\ u[0] = Place(0, 0) /\ u[n] = Place(Len(sa), Len(sb))
        /\ \A i \in 1 .. n : Takes(sa, sb, u[i - 1], ops[i], u[i]) /\ ops[i] \in Operations
    BY <2>2, <2>3, ElementOfSeq DEF Through
  <2> DEFINE Good(i) == StatesAt(cap, g[i], h[i], a, b, e, ahi, f, bhi, u[i])
             S == {i \in 0 .. n : Good(i)}
  <2>7. 0 \in S
    <3>1. u[0].x + 1 = 1 /\ u[0].y + 1 = 1 BY <2>6 DEF Place
    <3>2. StartOf(e, 1, ahi) = x /\ StartOf(f, 1, bhi) = y
      BY <1>2, <1>3 DEF Fragments, Tiles, ahi, bhi
    <3>3. g[0] = [o |-> o, ai |-> 1, bi |-> 1] /\ h[0] = [o |-> p, ai |-> 1, bi |-> 1]
      BY <2>4, <2>5 DEF RefineStates, RefineStart
    <3>4. Good(0) BY <3>1, <3>2, <3>3 DEF StatesAt
    <3>5. 0 \in 0 .. n BY <2>2
    <3> HIDE DEF Good
    <3> QED BY <3>4, <3>5
  <2>8. ASSUME NEW i \in 0 .. n - 1, i \in S PROVE i + 1 \in S
    <3> DEFINE k == i + 1
    <3>1. k \in 1 .. n /\ k \in 0 .. n /\ k - 1 = i /\ i \in 0 .. n BY <2>2
    <3> HIDE DEF k
    <3>2. Good(i) BY <2>8
    <3>3. /\ g[k] = RefineStep(g[i], ops[k], x, ea, y, eb)
          /\ h[k] = RefineStep(h[i], ops[k], x, ea, y, eb)
      BY <2>4, <2>5, <3>1 DEF RefineStates
    <3> DEFINE q == u[i]
               r == u[k]
               v == g[i]
               w == h[i]
               op == ops[k]
    <3>4. q \in Grid(sa, sb) /\ r \in Grid(sa, sb) /\ op \in Operations /\ Takes(sa, sb, q, op, r)
      BY <2>6, <3>1
    <3>5. StatesAt(cap, v, w, a, b, e, ahi, f, bhi, q) BY <3>2
    <3> HIDE DEF q, r, v, w, op
    <3>6. Fragments(e, a, x, ahi, a, b) /\ Fragments(f, b, y, bhi, a, b) BY <1>2, <1>3 DEF ahi, bhi
    <3>8. StatesAt(cap, RefineStep(v, op, x, ea, y, eb), RefineStep(w, op, x, ea, y, eb),
                   a, b, e, ahi, f, bhi, r)
      BY <1>0, <1>2, <1>3, <3>4, <3>5, <3>6, RefineStepTogether
    <3>9. Good(k) BY <3>3, <3>8 DEF q, r, v, w, op
    <3> HIDE DEF Good
    <3>10. k \in S BY <3>1, <3>9
    <3> QED BY <3>10 DEF k
  <2>9. n \in S
    <3> HIDE DEF S, n
    <3> QED BY <2>2, <2>7, <2>8, UpTo
  <2>10. PICK o2, p2 :
           /\ g[n] = [o |-> o2, ai |-> u[n].x + 1, bi |-> u[n].y + 1]
           /\ h[n] = [o |-> p2, ai |-> u[n].x + 1, bi |-> u[n].y + 1]
           /\ Together(cap, o2, p2, a, b, StartOf(e, u[n].x + 1, ahi), StartOf(f, u[n].y + 1, bhi))
    BY <2>9 DEF StatesAt
  <2>11. StartOf(e, u[n].x + 1, ahi) = ahi /\ StartOf(f, u[n].y + 1, bhi) = bhi
    <3>1. u[n].x = Len(e) /\ u[n].y = Len(f) BY <1>2, <1>3, <2>6 DEF Place, Holding
    <3> QED BY <1>2, <1>3, <3>1 DEF StartOf, Holding
  <2>12. RefineOps(o, x, ea, y, eb, ops) = o2 /\ RefineOps(p, x, ea, y, eb, ops) = p2
    BY <2>4, <2>5, <2>10
  <2>13. Together(cap, o2, p2, a, b, ahi, bhi) BY <2>10, <2>11
  <2>14. Refine(o, pa, x, pb, y) = o2 /\ Refine(p, pa, x, pb, y) = p2
    BY <1>4, <1>6, <2>12 DEF RefineBy
  <2>15. Together(cap, Refine(o, pa, x, pb, y), Refine(p, pa, x, pb, y), a, b, ahi, bhi)
    BY <2>13, <2>14
  <2> QED BY <2>15 DEF ahi, bhi, pa, pb
<1> QED BY <1>5, <1>6

-----------------------------------------------------------------------------
(* The script walked into segments: seg_walk.                              *)

WalkOn(w, op, a, b, ea, eb, base, refine) ==
  WalkStep(w, op, RunAt(w, ea, eb, base), a, b, ea, eb, refine)
WalkStart(o) == [o |-> o, ai |-> 1, bi |-> 1, run |-> NoRun]

\* The states the walk of a script leads through.
WalkStates(g, o, a, b, ea, eb, base, ops, refine) ==
  /\ g[0] = WalkStart(o)
  /\ \A i \in 1 .. Len(ops) : g[i] = WalkOn(g[i - 1], ops[i], a, b, ea, eb, base, refine)

\* The walk goes through such states, and flushes the run the last one leaves.
LEMMA WalkIs ==
  ASSUME NEW o, NEW a, NEW b, NEW ea, NEW eb, NEW base, NEW ops, NEW refine, Len(ops) \in Nat
  PROVE  \E g : /\ WalkStates(g, o, a, b, ea, eb, base, ops, refine)
                /\ Walk(o, a, b, ea, eb, base, ops, refine)
                     = Flushed(g[Len(ops)], a, b, refine)
<1> DEFINE n == Len(ops)
           Body(f, i) == IF i = 0 THEN [o |-> o, ai |-> 1, bi |-> 1, run |-> NoRun]
                         ELSE WalkStep(f[i - 1], ops[i], RunAt(f[i - 1], ea, eb, base),
                                       a, b, ea, eb, refine)
           Solves(f, m) == f = [i \in 0 .. m |-> Body(f, i)]
           S == {m \in 0 .. n : \E f : Solves(f, m)}
<1>0. n \in Nat OBVIOUS
<1>1. 0 \in S
  <2> DEFINE f == [i \in 0 .. 0 |-> [o |-> o, ai |-> 1, bi |-> 1, run |-> NoRun]]
  <2>1. Solves(f, 0) OBVIOUS
  <2>2. \E h : Solves(h, 0)
    <3> HIDE DEF Solves, f
    <3> QED BY <2>1
  <2> QED BY <1>0, <2>2
<1>2. ASSUME NEW m \in 0 .. n - 1, m \in S PROVE m + 1 \in S
  <2>1. PICK f : Solves(f, m) BY <1>2
  <2> DEFINE k == m + 1
             h == [i \in 0 .. k |-> IF i = k THEN Body(f, k) ELSE f[i]]
  <2>2. /\ k \in 0 .. n /\ k # 0 /\ k \in 0 .. k
        /\ \A i \in 0 .. k : i # k => i \in 0 .. m
        /\ \A i \in 0 .. m : i # k /\ i \in 0 .. k
        /\ \A i \in 0 .. k : i # 0 => i - 1 \in 0 .. m
    BY <1>0
  <2>3. \A i \in 0 .. m : f[i] = Body(f, i)
    <3> HIDE DEF Body
    <3> QED BY <2>1
  <2>4. h = [i \in 0 .. k |-> h[i]] OBVIOUS
  <2>5. h[k] = Body(f, k) /\ \A i \in 0 .. m : h[i] = f[i]
    <3> HIDE DEF Body
    <3> QED BY <2>2
  <2> HIDE DEF h
  <2>6. \A i \in 0 .. k : Body(h, i) = Body(f, i)
    <3> SUFFICES ASSUME NEW i \in 0 .. k PROVE Body(h, i) = Body(f, i) OBVIOUS
    <3>1. i = 0 \/ h[i - 1] = f[i - 1] BY <2>2, <2>5
    <3> QED BY <3>1
  <2>7. \A i \in 0 .. k : h[i] = Body(h, i)
    <3> HIDE DEF Body, k
    <3> QED BY <2>2, <2>3, <2>5, <2>6
  <2>8. Solves(h, k)
    <3> HIDE DEF Body
    <3> QED BY <2>4, <2>7
  <2>9. \E g : Solves(g, k)
    <3> HIDE DEF Solves
    <3> QED BY <2>8
  <2> QED BY <2>2, <2>9
<1>3. n \in S
  <2> HIDE DEF S, n
  <2> QED BY <1>0, <1>1, <1>2, UpTo
<1>4. \E g : g = [i \in 0 .. n |-> Body(g, i)]
  <2> HIDE DEF Body
  <2> QED BY <1>3
<1>5. PICK g : g = [i \in 0 .. n |-> Body(g, i)] /\ Walk(o, a, b, ea, eb, base, ops, refine) = Flushed(g[n], a, b, refine)
  BY <1>4, Zenon DEF Walk
<1>6. \A i \in 0 .. n : g[i] = Body(g, i)
  <2> HIDE DEF Body
  <2> QED BY <1>5
<1>7. g[0] = WalkStart(o)
  <2>1. 0 \in 0 .. n BY <1>0
  <2> QED BY <1>6, <2>1 DEF WalkStart
<1>8. ASSUME NEW i \in 1 .. n PROVE g[i] = WalkOn(g[i - 1], ops[i], a, b, ea, eb, base, refine)
  <2>1. i \in 0 .. n /\ i # 0 BY <1>0
  <2> QED BY <1>6, <2>1 DEF WalkOn
<1> QED BY <1>5, <1>7, <1>8 DEF WalkStates

\* A run that is open, and the runs there can be where both outputs cover the texts up
\* to its beginning, or up to x and y when there is none.
Open(ra, alen, rb, blen) ==
  [a |-> ra, alen |-> alen, b |-> rb, blen |-> blen, open |-> TRUE]

RunTo(cap, o, p, a, b, run, x, y) ==
  \/ run = NoRun /\ Together(cap, o, p, a, b, x, y)
  \/ \E ra, alen, rb, blen \in Nat :
       /\ run = Open(ra, alen, rb, blen)
       /\ Together(cap, o, p, a, b, ra, rb)
       /\ ra + alen = x /\ rb + blen = y /\ x <= Len(a) /\ y <= Len(b)
       /\ alen # 0 => Clean(a, b, a, x)
       /\ blen # 0 => Clean(a, b, b, y)

\* Once the run is flushed both outputs cover the texts up to its ends.
LEMMA FlushTogether ==
  ASSUME NEW a \in Seq(Byte), NEW b \in Seq(Byte), NEW cap \in Nat, NEW o, NEW p, NEW run, NEW x, NEW y,
         NEW refine \in BOOLEAN, RunTo(cap, o, p, a, b, run, x, y)
  PROVE  Together(cap, Flush(o, run, a, b, refine), Flush(p, run, a, b, refine), a, b, x, y)
<1>1. CASE run = NoRun /\ Together(cap, o, p, a, b, x, y)
  <2>1. Flush(o, run, a, b, refine) = o /\ Flush(p, run, a, b, refine) = p BY <1>1 DEF Flush, NoRun
  <2> QED BY <1>1, <2>1
<1>2. ASSUME NEW ra \in Nat, NEW alen \in Nat, NEW rb \in Nat, NEW blen \in Nat,
             run = Open(ra, alen, rb, blen), Together(cap, o, p, a, b, ra, rb),
             ra + alen = x, rb + blen = y, x <= Len(a), y <= Len(b),
             alen # 0 => Clean(a, b, a, x), blen # 0 => Clean(a, b, b, y)
      PROVE  Together(cap, Flush(o, run, a, b, refine), Flush(p, run, a, b, refine), a, b, x, y)
  <2>1. run.open = TRUE /\ run.a = ra /\ run.alen = alen /\ run.b = rb /\ run.blen = blen
    BY <1>2 DEF Open
  <2>2. CASE refine /\ alen > 0 /\ blen > 0
    <3> DEFINE pa == Bytes(a, ra, alen)
               pb == Bytes(b, rb, blen)
    <3>1. Together(cap, Refine(o, pa, ra, pb, rb), Refine(p, pa, ra, pb, rb),
                   a, b, ra + alen, rb + blen)
      <4>1. /\ ra + alen <= Len(a) /\ rb + blen <= Len(b)
            /\ Clean(a, b, a, ra + alen) /\ Clean(a, b, b, rb + blen)
        BY <1>2, <2>2
      <4> QED BY <1>2, <4>1, RefineTogether
    <3> HIDE DEF pa, pb
    <3>2. /\ Flush(o, run, a, b, refine) = Refine(o, pa, ra, pb, rb)
          /\ Flush(p, run, a, b, refine) = Refine(p, pa, ra, pb, rb)
      BY <2>1, <2>2 DEF Flush, pa, pb
    <3> QED BY <1>2, <3>1, <3>2
  <2>3. CASE ~(refine /\ alen > 0 /\ blen > 0)
    <3>1. Together(cap, Replaced(o, ra, alen, rb, blen), Replaced(p, ra, alen, rb, blen),
                   a, b, ra + alen, rb + blen)
      BY <1>2, ReplacedTogether
    <3>2. /\ Flush(o, run, a, b, refine) = Replaced(o, ra, alen, rb, blen)
          /\ Flush(p, run, a, b, refine) = Replaced(p, ra, alen, rb, blen)
      BY <2>1, <2>3 DEF Flush
    <3> QED BY <1>2, <3>1, <3>2
  <2> QED BY <2>2, <2>3
<1> QED BY <1>1, <1>2 DEF RunTo

\* Where an element begins, or where the elements end.
LEMMA ElemPosIs ==
  ASSUME NEW e, NEW lo, NEW hi, Tiles(e, lo, hi), NEW i \in 1 .. Len(e) + 1
  PROVE  ElemPos(e, i, lo) = StartOf(e, i, hi)
<1>1. e \in Seq(Element) /\ Len(e) \in Nat /\ (e = <<>> <=> Len(e) = 0)
  BY LenProperties, EmptySeq DEF Tiles
<1>2. CASE i <= Len(e) BY <1>2 DEF ElemPos, StartOf
<1>3. CASE ~(i <= Len(e)) /\ e = <<>>
  <2>1. i = 1 BY <1>1, <1>3
  <2>2. ElemPos(e, i, lo) = lo BY <1>3 DEF ElemPos
  <2> QED BY <2>1, <2>2 DEF Tiles
<1>4. CASE ~(i <= Len(e)) /\ e # <<>>
  <2>1. i = Len(e) + 1 /\ Len(e) \in 1 .. Len(e) BY <1>1, <1>4
  <2>2. e[Len(e)].start + e[Len(e)].len = StartOf(e, Len(e) + 1, hi) BY <2>1 DEF Tiles
  <2>3. ElemPos(e, i, lo) = e[Len(e)].start + e[Len(e)].len BY <1>4 DEF ElemPos
  <2> QED BY <2>1, <2>2, <2>3
<1> QED BY <1>2, <1>3, <1>4

\* The states of both walks at place r.
WalksAt(cap, v, w, a, b, e, ahi, f, bhi, r) ==
  \E o, p, run :
    /\ v = [o |-> o, ai |-> r.x + 1, bi |-> r.y + 1, run |-> run]
    /\ w = [o |-> p, ai |-> r.x + 1, bi |-> r.y + 1, run |-> run]
    /\ RunTo(cap, o, p, a, b, run, StartOf(e, r.x + 1, ahi), StartOf(f, r.y + 1, bhi))

\* A run with another length.
LEMMA OpenExcept ==
  ASSUME NEW ra, NEW alen, NEW rb, NEW blen, NEW len
  PROVE  /\ Open(ra, alen, rb, blen).alen = alen /\ Open(ra, alen, rb, blen).blen = blen
         /\ [Open(ra, alen, rb, blen) EXCEPT !.alen = len] = Open(ra, len, rb, blen)
         /\ [Open(ra, alen, rb, blen) EXCEPT !.blen = len] = Open(ra, alen, rb, len)
<1>1. PICK t : t = TRUE OBVIOUS
<1>2. \A m, n : Open(ra, m, rb, n) = [a |-> ra, alen |-> m, b |-> rb, blen |-> n, open |-> t]
  BY <1>1 DEF Open
<1>3. [[a |-> ra, alen |-> alen, b |-> rb, blen |-> blen, open |-> t] EXCEPT !.alen = len]
        = [a |-> ra, alen |-> len, b |-> rb, blen |-> blen, open |-> t]
  OBVIOUS
<1>4. [[a |-> ra, alen |-> alen, b |-> rb, blen |-> blen, open |-> t] EXCEPT !.blen = len]
        = [a |-> ra, alen |-> alen, b |-> rb, blen |-> len, open |-> t]
  OBVIOUS
<1>5. Open(ra, alen, rb, blen).alen = alen /\ Open(ra, alen, rb, blen).blen = blen BY DEF Open
<1> QED BY <1>2, <1>3, <1>4, <1>5

\* A delete makes the run longer on the first side.
LEMMA DeleteWalk ==
  ASSUME NEW o, NEW i, NEW j, NEW r, NEW w, w = [o |-> o, ai |-> i, bi |-> j, run |-> r],
         NEW ra, NEW alen, NEW rb, NEW blen,
         NEW a, NEW b, NEW ea, NEW eb, NEW refine
  PROVE  WalkStep(w, "DELETE", Open(ra, alen, rb, blen), a, b, ea, eb, refine)
           = [o |-> o, ai |-> i + 1, bi |-> j, run |-> Open(ra, alen + ea[i].len, rb, blen)]
<1> DEFINE run == Open(ra, alen, rb, blen)
           x == Open(ra, alen + ea[i].len, rb, blen)
<1>1. w.ai = i OBVIOUS
<1>2. [run EXCEPT !.alen = @ + ea[i].len] = x
  <2> DEFINE len == alen + ea[i].len
  <2> HIDE DEF len
  <2>1. [run EXCEPT !.alen = len] = Open(ra, len, rb, blen) /\ run.alen = alen BY OpenExcept
  <2> QED BY <2>1 DEF len
<1> HIDE DEF x, run
<1>3. WalkStep(w, "DELETE", run, a, b, ea, eb, refine) = [w EXCEPT !.run = x, !.ai = i + 1]
  BY <1>1, <1>2 DEF WalkStep
<1>4. [w EXCEPT !.run = x, !.ai = i + 1] = [o |-> o, ai |-> i + 1, bi |-> j, run |-> x]
  <2>1. [w EXCEPT !.run = x] = [o |-> o, ai |-> i, bi |-> j, run |-> x] OBVIOUS
  <2>2. [[o |-> o, ai |-> i, bi |-> j, run |-> x] EXCEPT !.ai = i + 1]
          = [o |-> o, ai |-> i + 1, bi |-> j, run |-> x]
    OBVIOUS
  <2> QED BY <2>1, <2>2
<1> QED BY <1>3, <1>4 DEF x, run

\* An insert makes the run longer on the second side.
LEMMA InsertWalk ==
  ASSUME NEW o, NEW i, NEW j, NEW r, NEW w, w = [o |-> o, ai |-> i, bi |-> j, run |-> r],
         NEW ra, NEW alen, NEW rb, NEW blen,
         NEW a, NEW b, NEW ea, NEW eb, NEW refine
  PROVE  WalkStep(w, "INSERT", Open(ra, alen, rb, blen), a, b, ea, eb, refine)
           = [o |-> o, ai |-> i, bi |-> j + 1, run |-> Open(ra, alen, rb, blen + eb[j].len)]
<1> DEFINE run == Open(ra, alen, rb, blen)
           x == Open(ra, alen, rb, blen + eb[j].len)
<1>1. w.bi = j OBVIOUS
<1>2. [run EXCEPT !.blen = @ + eb[j].len] = x
  <2> DEFINE len == blen + eb[j].len
  <2> HIDE DEF len
  <2>1. [run EXCEPT !.blen = len] = Open(ra, alen, rb, len) /\ run.blen = blen BY OpenExcept
  <2> QED BY <2>1 DEF len
<1> HIDE DEF x, run
<1>3. WalkStep(w, "INSERT", run, a, b, ea, eb, refine) = [w EXCEPT !.run = x, !.bi = j + 1]
  BY <1>1, <1>2 DEF WalkStep
<1>4. [w EXCEPT !.run = x, !.bi = j + 1] = [o |-> o, ai |-> i, bi |-> j + 1, run |-> x]
  <2>1. [w EXCEPT !.run = x] = [o |-> o, ai |-> i, bi |-> j, run |-> x] OBVIOUS
  <2>2. [[o |-> o, ai |-> i, bi |-> j, run |-> x] EXCEPT !.bi = j + 1]
          = [o |-> o, ai |-> i, bi |-> j + 1, run |-> x]
    OBVIOUS
  <2> QED BY <2>1, <2>2
<1> QED BY <1>3, <1>4 DEF x, run

\* A run that goes on over one more element of one of the texts.
LEMMA OpenLonger ==
  ASSUME NEW a \in Seq(Byte), NEW b \in Seq(Byte), NEW cap, NEW o, NEW p,
         NEW ra \in Nat, NEW alen \in Nat, NEW rb \in Nat, NEW blen \in Nat, NEW x, NEW y,
         RunTo(cap, o, p, a, b, Open(ra, alen, rb, blen), x, y), NEW len \in Nat
  PROVE  /\ x + len <= Len(a) /\ Clean(a, b, a, x + len)
              => RunTo(cap, o, p, a, b, Open(ra, alen + len, rb, blen), x + len, y)
         /\ y + len <= Len(b) /\ Clean(a, b, b, y + len)
              => RunTo(cap, o, p, a, b, Open(ra, alen, rb, blen + len), x, y + len)
<1>1. /\ Together(cap, o, p, a, b, ra, rb)
      /\ ra + alen = x /\ rb + blen = y /\ x <= Len(a) /\ y <= Len(b)
      /\ alen # 0 => Clean(a, b, a, x)
      /\ blen # 0 => Clean(a, b, b, y)
  <2>1. Open(ra, alen, rb, blen) # NoRun BY DEF Open, NoRun
  <2>2. PICK sa, an, sb, bn \in Nat :
          /\ Open(ra, alen, rb, blen) = Open(sa, an, sb, bn)
          /\ Together(cap, o, p, a, b, sa, sb)
          /\ sa + an = x /\ sb + bn = y /\ x <= Len(a) /\ y <= Len(b)
          /\ an # 0 => Clean(a, b, a, x)
          /\ bn # 0 => Clean(a, b, b, y)
    BY <2>1 DEF RunTo
  <2>3. sa = ra /\ an = alen /\ sb = rb /\ bn = blen BY <2>2 DEF Open
  <2> QED BY <2>2, <2>3
<1>2. alen + len \in Nat /\ blen + len \in Nat OBVIOUS
<1>3. ra + (alen + len) = x + len /\ rb + (blen + len) = y + len BY <1>1
<1>4. ASSUME x + len <= Len(a), Clean(a, b, a, x + len)
      PROVE  RunTo(cap, o, p, a, b, Open(ra, alen + len, rb, blen), x + len, y)
  BY <1>1, <1>2, <1>3, <1>4 DEF RunTo
<1>5. ASSUME y + len <= Len(b), Clean(a, b, b, y + len)
      PROVE  RunTo(cap, o, p, a, b, Open(ra, alen, rb, blen + len), x, y + len)
  BY <1>1, <1>2, <1>3, <1>5 DEF RunTo
<1> QED BY <1>4, <1>5

\* One op, on both walks.
LEMMA WalkOnTogether ==
  ASSUME NEW a \in Seq(Byte), NEW b \in Seq(Byte), NEW cap \in Nat, NEW lo, NEW refine \in BOOLEAN,
         NEW e, NEW ahi, Fragments(e, a, lo, ahi, a, b), NEW f, NEW bhi, Fragments(f, b, lo, bhi, a, b),
         NEW sa, Holding(e, a, sa), NEW sb, Holding(f, b, sb),
         NEW q \in Grid(sa, sb), NEW r \in Grid(sa, sb), NEW op \in Operations, Takes(sa, sb, q, op, r),
         NEW v, NEW w, WalksAt(cap, v, w, a, b, e, ahi, f, bhi, q)
  PROVE  WalksAt(cap, WalkOn(v, op, a, b, e, f, lo, refine), WalkOn(w, op, a, b, e, f, lo, refine),
                 a, b, e, ahi, f, bhi, r)
<1> DEFINE i == q.x + 1
           j == q.y + 1
<1>0. /\ q.x \in 0 .. Len(e) /\ q.y \in 0 .. Len(f) /\ r.x \in 0 .. Len(e) /\ r.y \in 0 .. Len(f)
      /\ q.x \in Nat /\ q.y \in Nat /\ Len(e) \in Nat /\ Len(f) \in Nat
      /\ i \in 1 .. Len(e) + 1 /\ j \in 1 .. Len(f) + 1
  BY DEF Grid, Holding
<1>1. PICK o, p, run :
        /\ v = [o |-> o, ai |-> i, bi |-> j, run |-> run]
        /\ w = [o |-> p, ai |-> i, bi |-> j, run |-> run]
        /\ RunTo(cap, o, p, a, b, run, StartOf(e, i, ahi), StartOf(f, j, bhi))
  BY DEF WalksAt
<1> HIDE DEF i, j
<1>2. v.o = o /\ v.ai = i /\ v.bi = j /\ v.run = run /\ w.o = p /\ w.ai = i /\ w.bi = j /\ w.run = run
  BY <1>1
<1> DEFINE x == StartOf(e, i, ahi)
           y == StartOf(f, j, bhi)
<1>3. ElemPos(e, i, lo) = x /\ ElemPos(f, j, lo) = y BY <1>0, ElemPosIs DEF Fragments
\* The run an edit makes longer ends here, whether it was open or not.
<1>4. op # "EQUAL" => \E ra, alen, rb, blen \in Nat :
        /\ RunAt(v, e, f, lo) = Open(ra, alen, rb, blen)
        /\ RunAt(w, e, f, lo) = Open(ra, alen, rb, blen)
        /\ RunTo(cap, o, p, a, b, Open(ra, alen, rb, blen), x, y)
  <2> HIDE DEF x, y
  <2>1. CASE run = NoRun /\ Together(cap, o, p, a, b, x, y)
    <3>1. x \in Nat /\ y \in Nat /\ x <= Len(a) /\ y <= Len(b) /\ x + 0 = x /\ y + 0 = y
      BY <2>1, LenProperties DEF Together
    <3>2. RunAt(v, e, f, lo) = Open(x, 0, y, 0) /\ RunAt(w, e, f, lo) = Open(x, 0, y, 0)
      BY <1>2, <1>3, <2>1 DEF RunAt, NoRun, Open
    <3>3. RunTo(cap, o, p, a, b, Open(x, 0, y, 0), x, y) BY <2>1, <3>1 DEF RunTo
    <3> QED BY <3>1, <3>2, <3>3
  <2>2. ASSUME NEW ra \in Nat, NEW alen \in Nat, NEW rb \in Nat, NEW blen \in Nat,
               run = Open(ra, alen, rb, blen)
        PROVE  RunAt(v, e, f, lo) = Open(ra, alen, rb, blen) /\ RunAt(w, e, f, lo) = Open(ra, alen, rb, blen)
    BY <1>2, <2>2 DEF RunAt, Open
  <2>3. RunTo(cap, o, p, a, b, run, x, y) BY <1>1 DEF x, y
  <2>4. CASE run # NoRun
    <3>1. PICK ra, alen, rb, blen \in Nat : run = Open(ra, alen, rb, blen) BY <2>3, <2>4 DEF RunTo
    <3> QED BY <2>2, <2>3, <3>1
  <2>5. \A ra, alen, rb, blen : Open(ra, alen, rb, blen) # NoRun BY DEF Open, NoRun
  <2>6. run = NoRun => Together(cap, o, p, a, b, x, y) BY <2>3, <2>5 DEF RunTo
  <2> QED BY <2>1, <2>4, <2>6
<1>5. CASE op = "EQUAL"
  <2>1. r.x = q.x + 1 /\ r.y = q.y + 1 /\ sa[q.x + 1] = sb[q.y + 1] BY <1>5 DEF Takes, Place, At
  <2>2. i \in 1 .. Len(e) /\ j \in 1 .. Len(f) /\ r.x + 1 = i + 1 /\ r.y + 1 = j + 1 /\ sa[i] = sb[j]
    BY <1>0, <2>1 DEF i, j
  <2>3. Bytes(a, e[i].start, e[i].len) = Bytes(b, f[j].start, f[j].len) BY <2>2 DEF Holding
  <2> DEFINE o1 == Flush(o, run, a, b, refine)
             p1 == Flush(p, run, a, b, refine)
             o2 == Push(o1, "EQUAL", e[i].start, e[i].len)
             p2 == Push(p1, "EQUAL", e[i].start, e[i].len)
  <2>4. Together(cap, o1, p1, a, b, x, y) BY <1>1, FlushTogether
  <2> HIDE DEF o1, p1
  <2>5. Together(cap, o2, p2, a, b, StartOf(e, i + 1, ahi), StartOf(f, j + 1, bhi))
    BY <2>2, <2>3, <2>4, EqualPiece
  <2>6. /\ WalkOn(v, op, a, b, e, f, lo, refine) = [o |-> o2, ai |-> i + 1, bi |-> j + 1, run |-> NoRun]
        /\ WalkOn(w, op, a, b, e, f, lo, refine) = [o |-> p2, ai |-> i + 1, bi |-> j + 1, run |-> NoRun]
    BY <1>2, <1>5 DEF WalkOn, WalkStep, o1, p1
  <2> HIDE DEF o2, p2
  <2>7. RunTo(cap, o2, p2, a, b, NoRun, StartOf(e, i + 1, ahi), StartOf(f, j + 1, bhi))
    BY <2>5 DEF RunTo
  <2> QED BY <2>2, <2>6, <2>7 DEF WalksAt
<1>6. CASE op = "DELETE"
  <2>1. r.x = q.x + 1 /\ r.y = q.y BY <1>6 DEF Takes, Place
  <2>2. i \in 1 .. Len(e) /\ r.x + 1 = i + 1 /\ r.y + 1 = j BY <1>0, <2>1 DEF i, j
  <2>3. PICK ra, alen, rb, blen \in Nat :
          /\ RunAt(v, e, f, lo) = Open(ra, alen, rb, blen)
          /\ RunAt(w, e, f, lo) = Open(ra, alen, rb, blen)
          /\ RunTo(cap, o, p, a, b, Open(ra, alen, rb, blen), x, y)
    BY <1>4, <1>6
  <2> DEFINE len == e[i].len
             run2 == Open(ra, alen + len, rb, blen)
  <2>4. /\ len \in Nat /\ len # 0 /\ x + len = StartOf(e, i + 1, ahi)
        /\ x + len <= Len(a) /\ Clean(a, b, a, x + len)
    <3>1. a \in {a, b} OBVIOUS
    <3>2. /\ e[i].len \in Nat /\ e[i].len # 0 /\ e[i].start = StartOf(e, i, ahi)
          /\ e[i].start + e[i].len = StartOf(e, i + 1, ahi)
          /\ e[i].start + e[i].len <= Len(a) /\ Clean(a, b, a, e[i].start + e[i].len)
      BY <2>2, <3>1, PieceIs
    <3> QED BY <3>2
  <2>5. /\ WalkOn(v, op, a, b, e, f, lo, refine) = [o |-> o, ai |-> i + 1, bi |-> j, run |-> run2]
        /\ WalkOn(w, op, a, b, e, f, lo, refine) = [o |-> p, ai |-> i + 1, bi |-> j, run |-> run2]
    BY <1>1, <1>6, <2>3, DeleteWalk DEF WalkOn
  <2> HIDE DEF len, x, y
  <2>6. RunTo(cap, o, p, a, b, run2, x + len, y) BY <2>3, <2>4, OpenLonger
  <2> HIDE DEF run2
  <2>7. RunTo(cap, o, p, a, b, run2, StartOf(e, i + 1, ahi), StartOf(f, j, bhi)) BY <2>4, <2>6 DEF y
  <2> QED BY <2>2, <2>5, <2>7 DEF WalksAt
<1>7. CASE op = "INSERT"
  <2>1. r.x = q.x /\ r.y = q.y + 1 BY <1>7 DEF Takes, Place
  <2>2. j \in 1 .. Len(f) /\ r.x + 1 = i /\ r.y + 1 = j + 1 BY <1>0, <2>1 DEF i, j
  <2>3. PICK ra, alen, rb, blen \in Nat :
          /\ RunAt(v, e, f, lo) = Open(ra, alen, rb, blen)
          /\ RunAt(w, e, f, lo) = Open(ra, alen, rb, blen)
          /\ RunTo(cap, o, p, a, b, Open(ra, alen, rb, blen), x, y)
    BY <1>4, <1>7
  <2> DEFINE len == f[j].len
             run2 == Open(ra, alen, rb, blen + len)
  <2>4. /\ len \in Nat /\ len # 0 /\ y + len = StartOf(f, j + 1, bhi)
        /\ y + len <= Len(b) /\ Clean(a, b, b, y + len)
    <3>1. b \in {a, b} OBVIOUS
    <3>2. /\ f[j].len \in Nat /\ f[j].len # 0 /\ f[j].start = StartOf(f, j, bhi)
          /\ f[j].start + f[j].len = StartOf(f, j + 1, bhi)
          /\ f[j].start + f[j].len <= Len(b) /\ Clean(a, b, b, f[j].start + f[j].len)
      BY <2>2, <3>1, PieceIs
    <3> QED BY <3>2
  <2>5. /\ WalkOn(v, op, a, b, e, f, lo, refine) = [o |-> o, ai |-> i, bi |-> j + 1, run |-> run2]
        /\ WalkOn(w, op, a, b, e, f, lo, refine) = [o |-> p, ai |-> i, bi |-> j + 1, run |-> run2]
    BY <1>1, <1>7, <2>3, InsertWalk DEF WalkOn
  <2> HIDE DEF len, x, y
  <2>6. RunTo(cap, o, p, a, b, run2, x, y + len) BY <2>3, <2>4, OpenLonger
  <2> HIDE DEF run2
  <2>7. RunTo(cap, o, p, a, b, run2, StartOf(e, i, ahi), StartOf(f, j + 1, bhi)) BY <2>4, <2>6 DEF x
  <2> QED BY <2>2, <2>5, <2>7 DEF WalksAt
<1> QED BY <1>5, <1>6, <1>7 DEF Operations

\* A walk leads from the beginning of the elements to their ends.
LEMMA WalkTogether ==
  ASSUME NEW a \in Seq(Byte), NEW b \in Seq(Byte), NEW cap \in Nat, NEW lo, NEW refine \in BOOLEAN,
         NEW e, NEW ahi, Fragments(e, a, lo, ahi, a, b), NEW f, NEW bhi, Fragments(f, b, lo, bhi, a, b),
         NEW sa, Holding(e, a, sa), NEW sb, Holding(f, b, sb),
         NEW ops, Aligned(ops, sa, sb, Place(0, 0), Place(Len(sa), Len(sb))),
         NEW o, NEW p, Together(cap, o, p, a, b, lo, lo)
  PROVE  Together(cap, Walk(o, a, b, e, f, lo, ops, refine), Walk(p, a, b, e, f, lo, ops, refine),
                  a, b, ahi, bhi)
<1> DEFINE n == Len(ops)
<1>1. ops \in Seq(Operations) /\ n \in Nat BY LenProperties DEF Aligned
<1>2. PICK u : Through(u, ops, sa, sb, Place(0, 0), Place(Len(sa), Len(sb))) BY DEF Aligned
<1>3. PICK g : /\ WalkStates(g, o, a, b, e, f, lo, ops, refine)
               /\ Walk(o, a, b, e, f, lo, ops, refine) = Flushed(g[n], a, b, refine)
  BY <1>1, WalkIs
<1>4. PICK h : /\ WalkStates(h, p, a, b, e, f, lo, ops, refine)
               /\ Walk(p, a, b, e, f, lo, ops, refine) = Flushed(h[n], a, b, refine)
  BY <1>1, WalkIs
<1>5. /\ u \in [0 .. n -> Grid(sa, sb)] /\ u[0] = Place(0, 0) /\ u[n] = Place(Len(sa), Len(sb))
      /\ \A i \in 1 .. n : Takes(sa, sb, u[i - 1], ops[i], u[i]) /\ ops[i] \in Operations
  BY <1>1, <1>2, ElementOfSeq DEF Through
<1> DEFINE Good(i) == WalksAt(cap, g[i], h[i], a, b, e, ahi, f, bhi, u[i])
           S == {i \in 0 .. n : Good(i)}
<1>6. 0 \in S
  <2>1. u[0].x + 1 = 1 /\ u[0].y + 1 = 1 BY <1>5 DEF Place
  <2>2. StartOf(e, 1, ahi) = lo /\ StartOf(f, 1, bhi) = lo BY DEF Fragments, Tiles
  <2>3. /\ g[0] = [o |-> o, ai |-> 1, bi |-> 1, run |-> NoRun]
        /\ h[0] = [o |-> p, ai |-> 1, bi |-> 1, run |-> NoRun]
    BY <1>3, <1>4 DEF WalkStates, WalkStart
  <2>4. RunTo(cap, o, p, a, b, NoRun, lo, lo) BY DEF RunTo
  <2>5. Good(0) BY <2>1, <2>2, <2>3, <2>4 DEF WalksAt
  <2>6. 0 \in 0 .. n BY <1>1
  <2> HIDE DEF Good
  <2> QED BY <2>5, <2>6
<1>7. ASSUME NEW i \in 0 .. n - 1, i \in S PROVE i + 1 \in S
  <2> DEFINE k == i + 1
  <2>1. k \in 1 .. n /\ k \in 0 .. n /\ k - 1 = i /\ i \in 0 .. n BY <1>1
  <2> HIDE DEF k
  <2>2. Good(i) BY <1>7
  <2>3. /\ g[k] = WalkOn(g[i], ops[k], a, b, e, f, lo, refine)
        /\ h[k] = WalkOn(h[i], ops[k], a, b, e, f, lo, refine)
    BY <1>3, <1>4, <2>1 DEF WalkStates
  <2> DEFINE q == u[i]
             r == u[k]
             v == g[i]
             w == h[i]
             op == ops[k]
  <2>4. q \in Grid(sa, sb) /\ r \in Grid(sa, sb) /\ op \in Operations /\ Takes(sa, sb, q, op, r)
    BY <1>5, <2>1
  <2>5. WalksAt(cap, v, w, a, b, e, ahi, f, bhi, q) BY <2>2
  <2> HIDE DEF q, r, v, w, op
  <2>6. WalksAt(cap, WalkOn(v, op, a, b, e, f, lo, refine), WalkOn(w, op, a, b, e, f, lo, refine),
                a, b, e, ahi, f, bhi, r)
    BY <2>4, <2>5, WalkOnTogether
  <2>7. Good(k) BY <2>3, <2>6 DEF q, r, v, w, op
  <2> HIDE DEF Good
  <2>8. k \in S BY <2>1, <2>7
  <2> QED BY <2>8 DEF k
<1>8. n \in S
  <2> HIDE DEF S, n
  <2> QED BY <1>1, <1>6, <1>7, UpTo
<1>9. PICK o2, p2, run :
        /\ g[n] = [o |-> o2, ai |-> u[n].x + 1, bi |-> u[n].y + 1, run |-> run]
        /\ h[n] = [o |-> p2, ai |-> u[n].x + 1, bi |-> u[n].y + 1, run |-> run]
        /\ RunTo(cap, o2, p2, a, b, run, StartOf(e, u[n].x + 1, ahi), StartOf(f, u[n].y + 1, bhi))
  BY <1>8 DEF WalksAt
<1>10. StartOf(e, u[n].x + 1, ahi) = ahi /\ StartOf(f, u[n].y + 1, bhi) = bhi
  <2>1. u[n].x = Len(e) /\ u[n].y = Len(f) BY <1>5 DEF Place, Holding
  <2> QED BY <2>1 DEF StartOf, Holding
<1>11. /\ Flushed(g[n], a, b, refine) = Flush(o2, run, a, b, refine)
       /\ Flushed(h[n], a, b, refine) = Flush(p2, run, a, b, refine)
  BY <1>9 DEF Flushed
<1>12. Together(cap, Flush(o2, run, a, b, refine), Flush(p2, run, a, b, refine), a, b, ahi, bhi)
  BY <1>9, <1>10, FlushTogether
<1> QED BY <1>3, <1>4, <1>11, <1>12

-----------------------------------------------------------------------------
(* The common ends, and the segments of two texts.                         *)

\* The longest of some lengths is one of them.
LEMMA LongestIs ==
  ASSUME NEW n \in Nat, NEW T \in SUBSET (0 .. n), T # {}
  PROVE  Longest(T) \in T
<1>1. \E x \in T : \A y \in T : y <= x BY GreatestElement
<1> QED BY <1>1 DEF Longest

\* No bytes are the same as no bytes.
LEMMA NoBytes ==
  ASSUME NEW p \in Seq(Byte), NEW q \in Seq(Byte), NEW s \in 0 .. Len(p), NEW t \in 0 .. Len(q)
  PROVE  Bytes(p, s, 0) = Bytes(q, t, 0)
<1>1. s \in Nat /\ t \in Nat /\ s + 0 <= Len(p) /\ t + 0 <= Len(q) BY LenProperties
<1>2. Alike(p, s, q, t, 0) BY DEF Alike
<1> QED BY <1>1, <1>2, EqualBytes

\* Where a character of one text that is UTF-8 ends, after bytes both texts begin with,
\* one of the other does.
LEMMA PrefixClean ==
  ASSUME NEW a \in Seq(Byte), NEW b \in Seq(Byte), WellFormed(a), WellFormed(b),
         NEW pre \in Nat, 0 < pre, pre <= Len(a), pre <= Len(b),
         Bytes(a, 0, pre) = Bytes(b, 0, pre), WholeAt(a, pre)
  PROVE  WholeAt(b, pre)
<1>0. Len(a) \in Nat /\ Len(b) \in Nat /\ 0 + pre <= Len(a) /\ 0 + pre <= Len(b) BY LenProperties
<1>1. \A i \in 0 .. pre - 1 : At(a, i) = At(b, i) /\ At(a, i) \in Byte
  <2>1. Alike(a, 0, b, 0, pre) BY <1>0, SameBytes
  <2> SUFFICES ASSUME NEW i \in 0 .. pre - 1 PROVE At(a, i) = At(b, i) /\ At(a, i) \in Byte OBVIOUS
  <2>2. i + 1 \in 1 .. pre /\ 0 + (i + 1) = i + 1 /\ i + 1 \in 1 .. Len(a) BY <1>0
  <2>3. a[i + 1] = b[i + 1] /\ a[i + 1] \in Byte BY <2>1, <2>2, ElementOfSeq DEF Alike
  <2> QED BY <2>3 DEF At
<1> DEFINE T == {i \in 0 .. pre - 1 : ~IsContinuation(At(a, i))}
<1>2. 0 \in T
  <2>1. a # <<>> BY <1>0, EmptySeq
  <2>2. WholeAt(a, 0) BY <2>1 DEF WellFormed
  <2> QED BY <1>0, <2>2 DEF WholeAt
<1>3. PICK g \in T : \A i \in T : i <= g
  <2>1. T \in SUBSET (0 .. pre - 1) /\ pre - 1 \in Nat OBVIOUS
  <2> HIDE DEF T
  <2> QED BY <1>2, <2>1, GreatestElement
<1>4. g \in 0 .. pre - 1 /\ ~IsContinuation(At(a, g)) OBVIOUS
<1>5. PICK w \in Nat : w >= 1 /\ w = Width(At(a, g))
  <2>1. PICK c \in 0 .. 255 : c = At(a, g) BY <1>1, <1>4 DEF Byte
  <2>2. Width(c) \in {1, 2, 3, 4} BY DEF Width
  <2> QED BY <2>1, <2>2
<1> DEFINE next == g + w
<1>6. /\ next <= Len(a) /\ WholeAt(a, next)
      /\ \A j \in g + 1 .. next - 1 : IsContinuation(At(a, j))
  <2>1. g \in 0 .. Len(a) - 1 BY <1>0, <1>4
  <2> QED BY <1>4, <1>5, <2>1 DEF WellFormed
<1>7. next = pre
  <2>1. ASSUME next < pre PROVE FALSE
    <3>1. next \in 0 .. pre - 1 /\ next # Len(a) /\ ~(next <= g) BY <1>0, <1>4, <1>5, <2>1
    <3>2. ~IsContinuation(At(a, next)) BY <1>6, <3>1 DEF WholeAt
    <3> QED BY <1>3, <3>1, <3>2
  <2>2. ASSUME pre < next PROVE FALSE
    <3>1. pre \in g + 1 .. next - 1 /\ pre # Len(a) BY <1>0, <1>4, <1>5, <1>6, <2>2
    <3> QED BY <1>6, <3>1 DEF WholeAt
  <2>3. next \in Nat BY <1>4, <1>5
  <2> QED BY <2>1, <2>2, <2>3
<1>8. At(b, g) = At(a, g) /\ g \in 0 .. Len(b) - 1 BY <1>0, <1>1, <1>4
<1>9. WholeAt(b, g + Width(At(b, g))) BY <1>4, <1>8 DEF WellFormed
<1> QED BY <1>5, <1>7, <1>8, <1>9

\* The prefix is common and ends where no character is cut.
LEMMA PrefixIs ==
  ASSUME NEW a \in Seq(Byte), NEW b \in Seq(Byte), NEW mode, NEW pre, pre = Prefix(a, b, mode)
  PROVE  /\ pre \in Nat /\ pre <= Len(a) /\ pre <= Len(b)
         /\ Bytes(a, 0, pre) = Bytes(b, 0, pre)
         /\ pre # 0 => Clean(a, b, a, pre) /\ Clean(a, b, b, pre)
<1> DEFINE n == Lesser(Len(a), Len(b))
           common == {p \in 0 .. n : Bytes(a, 0, p) = Bytes(b, 0, p)}
           Next0(p) == IF p < Len(a) THEN At(a, p) ELSE At(b, p)
           Right(p) == p > 0 => ~CutSplits(At(a, p - 1), Next0(p), Word(mode))
           T == {p \in common : Right(p)}
<1>0. Len(a) \in Nat /\ Len(b) \in Nat /\ n \in Nat /\ n <= Len(a) /\ n <= Len(b)
  BY LenProperties DEF Lesser
<1>1. pre = Longest(T) BY DEF Prefix
<1> HIDE DEF n
<1>2. 0 \in T
  <2>1. Bytes(a, 0, 0) = Bytes(b, 0, 0) BY <1>0, NoBytes
  <2>2. Right(0) OBVIOUS
  <2> HIDE DEF Right
  <2> QED BY <1>0, <2>1, <2>2
<1>3. pre \in T
  <2>1. T \in SUBSET (0 .. n) /\ T # {} BY <1>2
  <2> HIDE DEF T
  <2> QED BY <1>0, <1>1, <2>1, LongestIs
<1>4. pre \in Nat /\ pre <= Len(a) /\ pre <= Len(b) /\ Bytes(a, 0, pre) = Bytes(b, 0, pre)
  BY <1>0, <1>3
<1>5. Right(pre) BY <1>3
<1>6. ASSUME pre # 0, WellFormed(a), WellFormed(b) PROVE WholeAt(a, pre) /\ WholeAt(b, pre)
  <2>1. ~IsContinuation(Next0(pre)) /\ 0 < pre BY <1>4, <1>5, <1>6 DEF CutSplits
  <2>2. CASE pre < Len(a)
    <3>1. WholeAt(a, pre) BY <2>1, <2>2 DEF WholeAt
    <3> QED BY <1>4, <1>6, <2>1, <3>1, PrefixClean
  <2>3. CASE ~(pre < Len(a)) BY <1>0, <1>4, <2>1, <2>3 DEF WholeAt
  <2> QED BY <2>2, <2>3
<1> QED BY <1>4, <1>6 DEF Clean

\* So is the suffix, of what the prefix leaves.
LEMMA SuffixIs ==
  ASSUME NEW a \in Seq(Byte), NEW b \in Seq(Byte), NEW mode,
         NEW pre \in Nat, pre <= Len(a), pre <= Len(b), NEW suf, suf = Suffix(a, b, pre, mode)
  PROVE  /\ suf \in Nat /\ pre + suf <= Len(a) /\ pre + suf <= Len(b)
         /\ Bytes(a, Len(a) - suf, suf) = Bytes(b, Len(b) - suf, suf)
         /\ WholeAt(a, Len(a) - suf) /\ WholeAt(b, Len(b) - suf)
<1> DEFINE n == Lesser(Len(a), Len(b)) - pre
           common == {s \in 0 .. n : Bytes(a, Len(a) - s, s) = Bytes(b, Len(b) - s, s)}
           Right(s) == s > 0 => IF s < Len(a) - pre
                                THEN ~CutSplits(At(a, Len(a) - s - 1), At(a, Len(a) - s), Word(mode))
                                ELSE ~IsContinuation(At(a, Len(a) - s))
           T == {s \in common : Right(s)}
<1>0. Len(a) \in Nat /\ Len(b) \in Nat /\ n \in Nat /\ n + pre <= Len(a) /\ n + pre <= Len(b)
  BY LenProperties DEF Lesser
<1>1. suf = Longest(T) BY DEF Suffix
<1> HIDE DEF n
<1>2. 0 \in T
  <2>1. Bytes(a, Len(a) - 0, 0) = Bytes(b, Len(b) - 0, 0)
    <3>1. Len(a) - 0 \in 0 .. Len(a) /\ Len(b) - 0 \in 0 .. Len(b) BY <1>0
    <3> QED BY <3>1, NoBytes
  <2>2. Right(0) OBVIOUS
  <2> HIDE DEF Right
  <2> QED BY <1>0, <2>1, <2>2
<1>3. suf \in T
  <2>1. T \in SUBSET (0 .. n) /\ T # {} BY <1>2
  <2> HIDE DEF T
  <2> QED BY <1>0, <1>1, <2>1, LongestIs
<1>4. suf \in 0 .. n /\ Bytes(a, Len(a) - suf, suf) = Bytes(b, Len(b) - suf, suf) BY <1>3
<1>5. suf \in Nat /\ pre + suf <= Len(a) /\ pre + suf <= Len(b) BY <1>0, <1>4
<1>6. Right(suf) BY <1>3
<1>7. WholeAt(a, Len(a) - suf) /\ WholeAt(b, Len(b) - suf)
  <2>1. CASE suf = 0 BY <1>0, <2>1 DEF WholeAt
  <2>2. CASE suf # 0
    <3>1. ~IsContinuation(At(a, Len(a) - suf)) BY <1>5, <1>6, <2>2 DEF CutSplits
    <3>2. PICK x \in Nat : x = Len(a) - suf BY <1>0, <1>5
    <3>3. PICK y \in Nat : y = Len(b) - suf BY <1>0, <1>5
    <3>4. x + suf <= Len(a) /\ y + suf <= Len(b) /\ Bytes(a, x, suf) = Bytes(b, y, suf)
      <4>1. x + suf <= Len(a)
        <5>1. x + suf = Len(a) BY <1>0, <1>5, <3>2
        <5> QED BY <1>0, <5>1
      <4>2. y + suf <= Len(b)
        <5>1. y + suf = Len(b) BY <1>0, <1>5, <3>3
        <5> QED BY <1>0, <5>1
      <4> QED BY <1>4, <3>2, <3>3, <4>1, <4>2
    <3>5. Alike(a, x, b, y, suf) BY <1>5, <3>4, SameBytes
    <3>6. At(a, x) = At(b, y)
      <4>1. 1 \in 1 .. suf BY <1>5, <2>2
      <4> QED BY <3>5, <4>1 DEF Alike, At
    <3> QED BY <3>1, <3>2, <3>3, <3>6 DEF WholeAt
  <2> QED BY <2>1, <2>2
<1> QED BY <1>4, <1>5, <1>7

\* The middle, from the end of the prefix to the beginning of the suffix.
LEMMA MiddleTogether ==
  ASSUME NEW a \in Seq(Byte), NEW b \in Seq(Byte), NEW mode, NEW cap \in Nat, NEW o, NEW p,
         NEW pre \in Nat, Together(cap, o, p, a, b, pre, pre),
         NEW m \in Nat, NEW k \in Nat, pre + m <= Len(a), pre + k <= Len(b),
         WholeAt(a, pre + m), WholeAt(b, pre + k)
  PROVE  Together(cap, Middle(o, a, b, pre, Bytes(a, pre, m), Bytes(b, pre, k), mode),
                       Middle(p, a, b, pre, Bytes(a, pre, m), Bytes(b, pre, k), mode),
                  a, b, pre + m, pre + k)
<1> DEFINE word == Word(mode)
           refine == mode = "WORD_THEN_CHARACTER"
           amid == Bytes(a, pre, m)
           bmid == Bytes(b, pre, k)
           ea == Tokens(amid, word)
           eb == Tokens(bmid, word)
           sa == Slices(amid, ea)
           sb == Slices(bmid, eb)
           ops == Script(sa, sb)
           e == Shifted(ea, pre)
           f == Shifted(eb, pre)
           ahi == pre + m
           bhi == pre + k
<1>0. word \in BOOLEAN /\ refine \in BOOLEAN /\ Len(amid) = m /\ Len(bmid) = k BY BytesIs DEF Word
<1>1. Clean(a, b, a, ahi) /\ Clean(a, b, b, bhi) BY DEF Clean
<1> HIDE DEF word
<1>2. Fragments(e, a, pre, ahi, a, b) /\ Holding(e, a, sa) BY <1>0, <1>1, TokensPieces
<1>3. Fragments(f, b, pre, bhi, a, b) /\ Holding(f, b, sb) BY <1>0, <1>1, TokensPieces
<1>4. ASSUME NEW x
      PROVE  Middle(x, a, b, pre, amid, bmid, mode)
               = IF ops = TooMany THEN Replaced(x, pre, m, pre, k)
                 ELSE Walk(x, a, b, e, f, pre, ops, refine)
  BY <1>0 DEF Middle, MiddleOf, MiddleBy, word
<1>5. CASE ops = TooMany
  <2>1. Together(cap, Replaced(o, pre, m, pre, k), Replaced(p, pre, m, pre, k), a, b, ahi, bhi)
    BY <1>1, ReplacedTogether
  <2> HIDE DEF ops, ahi, bhi, amid, bmid
  <2>2. /\ Middle(o, a, b, pre, amid, bmid, mode) = Replaced(o, pre, m, pre, k)
        /\ Middle(p, a, b, pre, amid, bmid, mode) = Replaced(p, pre, m, pre, k)
    BY <1>4, <1>5
  <2>3. Together(cap, Middle(o, a, b, pre, amid, bmid, mode), Middle(p, a, b, pre, amid, bmid, mode),
                 a, b, ahi, bhi)
    BY <2>1, <2>2
  <2> QED BY <2>3 DEF ahi, bhi, amid, bmid
<1>6. CASE ops # TooMany
  <2> HIDE DEF sa, sb, e, f, ahi, bhi, amid, bmid, refine
  <2>1. Aligned(ops, sa, sb, Place(0, 0), Place(Len(sa), Len(sb)))
    <3>1. Len(sa) \in Nat /\ Len(sb) \in Nat BY <1>2, <1>3 DEF Holding
    <3> QED BY <1>6, <3>1, ScriptIs
  <2> HIDE DEF ops
  <2>2. Together(cap, Walk(o, a, b, e, f, pre, ops, refine), Walk(p, a, b, e, f, pre, ops, refine),
                 a, b, ahi, bhi)
    BY <1>0, <1>2, <1>3, <2>1, WalkTogether
  <2>3. /\ Middle(o, a, b, pre, amid, bmid, mode) = Walk(o, a, b, e, f, pre, ops, refine)
        /\ Middle(p, a, b, pre, amid, bmid, mode) = Walk(p, a, b, e, f, pre, ops, refine)
    BY <1>4, <1>6
  <2>4. Together(cap, Middle(o, a, b, pre, amid, bmid, mode), Middle(p, a, b, pre, amid, bmid, mode),
                 a, b, ahi, bhi)
    BY <2>2, <2>3
  <2> QED BY <2>4 DEF ahi, bhi, amid, bmid
<1> QED BY <1>5, <1>6

\* The segments cover two texts, whatever the buffers of the two calls.
LEMMA CellSegmentsTogether ==
  ASSUME NEW a \in Seq(Byte), NEW b \in Seq(Byte), NEW mode, NEW maxBytes,
         NEW other \in Nat, NEW cap \in Nat
  PROVE  Together(cap, CellSegments(a, b, mode, maxBytes, other), CellSegments(a, b, mode, maxBytes, cap),
                  a, b, Len(a), Len(b))
<1> DEFINE o == Output(other)
           p == Output(cap)
           m == Len(a)
           n == Len(b)
<1>0. m \in Nat /\ n \in Nat /\ 0 + m = m /\ 0 + n = n BY LenProperties
<1>1. Together(cap, o, p, a, b, 0, 0) BY OutputsTogether
<1>2. Clean(a, b, a, m) /\ Clean(a, b, b, n) BY DEF Clean, WholeAt
<1> DEFINE Whole == Len(a) > Limit(maxBytes) \/ Len(b) > Limit(maxBytes) \/ Len(a) = 0 \/ Len(b) = 0
<1>3. CASE Whole
  <2>1. /\ CellSegments(a, b, mode, maxBytes, other) = Replaced(o, 0, m, 0, n)
        /\ CellSegments(a, b, mode, maxBytes, cap) = Replaced(p, 0, m, 0, n)
    BY <1>3 DEF CellSegments
  <2> HIDE DEF o, p
  <2>2. Together(cap, Replaced(o, 0, m, 0, n), Replaced(p, 0, m, 0, n), a, b, 0 + m, 0 + n)
    <3>1. 0 \in Nat /\ 0 + m <= Len(a) /\ 0 + n <= Len(b) /\ Clean(a, b, a, 0 + m) /\ Clean(a, b, b, 0 + n)
      BY <1>0, <1>2
    <3> QED BY <1>0, <1>1, <3>1, ReplacedTogether
  <2> QED BY <1>0, <2>1, <2>2
<1>4. CASE ~Whole
  <2> DEFINE pre == Prefix(a, b, mode)
             suf == Suffix(a, b, pre, mode)
  <2>1. /\ CellSegments(a, b, mode, maxBytes, other) = Within(o, a, b, pre, suf, mode)
        /\ CellSegments(a, b, mode, maxBytes, cap) = Within(p, a, b, pre, suf, mode)
    BY <1>4 DEF CellSegments, AfterPrefix
  <2> HIDE DEF Whole, o, p
  <2>2. /\ pre \in Nat /\ pre <= Len(a) /\ pre <= Len(b)
        /\ Bytes(a, 0, pre) = Bytes(b, 0, pre)
        /\ pre # 0 => Clean(a, b, a, pre) /\ Clean(a, b, b, pre)
    BY PrefixIs
  <2> HIDE DEF pre
  <2>3. /\ suf \in Nat /\ pre + suf <= Len(a) /\ pre + suf <= Len(b)
        /\ Bytes(a, Len(a) - suf, suf) = Bytes(b, Len(b) - suf, suf)
        /\ WholeAt(a, Len(a) - suf) /\ WholeAt(b, Len(b) - suf)
    BY <2>2, SuffixIs
  <2> HIDE DEF suf
  <2>4. PICK x \in Nat : x = m - pre - suf /\ pre + x = m - suf /\ (pre + x) + suf = m
    <3> HIDE DEF m, n
    <3>1. pre + suf <= m BY <2>3 DEF m
    <3>2. /\ m - pre - suf \in Nat /\ pre + (m - pre - suf) = m - suf
          /\ (pre + (m - pre - suf)) + suf = m
      BY <1>0, <2>2, <2>3, <3>1
    <3> QED BY <3>2
  <2>5. PICK y \in Nat : y = n - pre - suf /\ pre + y = n - suf /\ (pre + y) + suf = n
    <3> HIDE DEF m, n
    <3>1. pre + suf <= n BY <2>3 DEF n
    <3>2. /\ n - pre - suf \in Nat /\ pre + (n - pre - suf) = n - suf
          /\ (pre + (n - pre - suf)) + suf = n
      BY <1>0, <2>2, <2>3, <3>1
    <3> QED BY <3>2
  <2> DEFINE o1 == Push(o, "EQUAL", 0, pre)
             p1 == Push(p, "EQUAL", 0, pre)
             o2 == Middle(o1, a, b, pre, Bytes(a, pre, x), Bytes(b, pre, y), mode)
             p2 == Middle(p1, a, b, pre, Bytes(a, pre, x), Bytes(b, pre, y), mode)
  <2>6. Together(cap, o1, p1, a, b, pre, pre)
    <3>1. 0 \in Nat /\ 0 + pre = pre BY <2>2
    <3>2. 0 + pre <= Len(a) /\ 0 + pre <= Len(b) /\ (pre # 0 => Clean(a, b, a, 0 + pre) /\ Clean(a, b, b, 0 + pre))
      BY <2>2, <3>1
    <3>3. Together(cap, o1, p1, a, b, 0 + pre, 0 + pre) BY <1>1, <2>2, <3>2, PushEqual
    <3> QED BY <3>1, <3>3
  <2>7. /\ Within(o, a, b, pre, suf, mode) = Push(o2, "EQUAL", m - suf, suf)
        /\ Within(p, a, b, pre, suf, mode) = Push(p2, "EQUAL", m - suf, suf)
    BY <2>4, <2>5 DEF Within
  <2> HIDE DEF o1, p1
  <2>8. Together(cap, o2, p2, a, b, pre + x, pre + y)
    <3>1. /\ pre + x <= Len(a) /\ pre + y <= Len(b)
          /\ WholeAt(a, pre + x) /\ WholeAt(b, pre + y)
      BY <1>0, <2>3, <2>4, <2>5
    <3> QED BY <2>2, <2>6, <3>1, MiddleTogether
  <2> HIDE DEF o2, p2
  <2> DEFINE v == pre + x
             w == pre + y
  <2>9. /\ v = m - suf /\ v + suf = m /\ w + suf = n /\ v + suf <= Len(a) /\ w + suf <= Len(b)
        /\ Bytes(a, v, suf) = Bytes(b, w, suf)
        /\ Clean(a, b, a, v + suf) /\ Clean(a, b, b, w + suf) /\ Together(cap, o2, p2, a, b, v, w)
    BY <1>0, <1>2, <2>3, <2>4, <2>5, <2>8
  <2> HIDE DEF v, w
  <2>10. Together(cap, Push(o2, "EQUAL", v, suf), Push(p2, "EQUAL", v, suf), a, b, v + suf, w + suf)
    BY <2>3, <2>9, PushEqual
  <2> QED BY <2>1, <2>7, <2>9, <2>10
<1> QED BY <1>3, <1>4

-----------------------------------------------------------------------------
(* The row, from its digests to its report.                                *)

\* What the enumerated pairs of rows are.
CaseOK ==
  /\ case.cols \in Seq(ColumnType) /\ case.keys \subseteq Columns
  /\ case.source \in [Columns -> CellText] /\ case.target \in [Columns -> CellText]
  /\ case.opts \in Options

\* The views and digests that HashRows leaves, ...
Views(side) == [c \in Columns |-> Normalize(Cell(side, c), Type(c), case.opts)]
Hashed ==
  /\ view = [side \in Side |-> Views(side)]
  /\ digest = [side \in Side |-> HashRow([c \in Columns |-> Cell(side, c)], Views(side), case.keys)]

\* ... which stay, and the report made of them, which stays too.
RowInv ==
  /\ CaseOK
  /\ phase \in {"parsed", "hashed", "emitted", "sized", "filled"}
  /\ phase # "parsed" => Hashed
  /\ phase \notin {"parsed", "hashed"} =>
       report = Reported(digest["source"].full # digest["target"].full,
                         digest["source"].raw # digest["target"].raw,
                         {c \in Columns : SameCell(c)})

\* The cases enumerated are well formed.
LEMMA RowInit == Init => RowInv
<1> SUFFICES ASSUME Init PROVE RowInv OBVIOUS
<1>1. PICK family \in DOMAIN Cases : case \in Cases[family] BY DEF Init
<1>2. /\ case.cols \in Seq(ColumnType) /\ case.keys \subseteq DOMAIN case.cols
      /\ {case.source, case.target} \subseteq [DOMAIN case.cols -> CellText]
      /\ case.opts \in Options
  BY <1>1, CasesAssumption
<1>3. CaseOK BY <1>2 DEF CaseOK, Columns
<1> QED BY <1>3 DEF Init, RowInv

\* Every step keeps the case, and the views, digests and report once made.
LEMMA RowNext == RowInv /\ [Next]_vars => RowInv'
<1> SUFFICES ASSUME RowInv, [Next]_vars PROVE RowInv' OBVIOUS
<1>1. ASSUME case' = case PROVE CaseOK' BY <1>1 DEF RowInv, CaseOK, Columns
<1>2. ASSUME case' = case, view' = view, digest' = digest, Hashed PROVE Hashed'
  BY <1>2 DEF Hashed, Views, Columns, Cell, Type
<1>3. ASSUME case' = case, view' = view, digest' = digest, report' = report,
             report = Reported(digest["source"].full # digest["target"].full,
                               digest["source"].raw # digest["target"].raw,
                               {c \in Columns : SameCell(c)})
      PROVE  (report = Reported(digest["source"].full # digest["target"].full,
                                digest["source"].raw # digest["target"].raw,
                                {c \in Columns : SameCell(c)}))'
  BY <1>3 DEF Reported, SameCell, SameRaw, Columns, Cell
<1>4. CASE HashRows
  <2>1. case' = case /\ phase' = "hashed" BY <1>4 DEF HashRows
  <2>2. Hashed'
    <3>1. view' = [side \in Side |-> Views(side)] BY <1>4, Zenon DEF HashRows, Views
    <3>2. \A side \in Side : view'[side] = Views(side) BY <3>1
    <3>3. digest' = [side \in Side |-> HashRow([c \in Columns |-> Cell(side, c)], view'[side], case.keys)]
      BY <1>4, Zenon DEF HashRows
    <3>4. digest' = [side \in Side |-> HashRow([c \in Columns |-> Cell(side, c)], Views(side), case.keys)]
      BY <3>2, <3>3
    <3> QED BY <2>1, <3>1, <3>4 DEF Hashed, Views, Columns, Cell, Type
  <2> QED BY <1>1, <2>1, <2>2 DEF RowInv
<1>5. CASE EmitRow
  <2>1. /\ case' = case /\ view' = view /\ digest' = digest
        /\ phase = "hashed" /\ phase' = "emitted"
        /\ report' = Reported(digest["source"].full # digest["target"].full,
                              digest["source"].raw # digest["target"].raw,
                              {c \in Columns : SameCell(c)})
    BY <1>5 DEF EmitRow
  <2>2. Hashed' BY <1>2, <2>1 DEF RowInv
  <2>3. (report = Reported(digest["source"].full # digest["target"].full,
                           digest["source"].raw # digest["target"].raw,
                           {c \in Columns : SameCell(c)}))'
    BY <2>1 DEF Reported, SameCell, SameRaw, Columns, Cell
  <2> QED BY <1>1, <2>1, <2>2, <2>3 DEF RowInv
<1>6. CASE Size
  <2>1. /\ case' = case /\ view' = view /\ digest' = digest /\ report' = report
        /\ phase = "emitted" /\ phase' = "sized"
    BY <1>6 DEF Size
  <2> QED BY <1>1, <1>2, <1>3, <2>1 DEF RowInv
<1>7. CASE Fill
  <2>1. /\ case' = case /\ view' = view /\ digest' = digest /\ report' = report
        /\ phase = "sized" /\ phase' = "filled"
    BY <1>7 DEF Fill
  <2> QED BY <1>1, <1>2, <1>3, <2>1 DEF RowInv
<1>8. CASE UNCHANGED vars
  <2>1. case' = case /\ view' = view /\ digest' = digest /\ report' = report /\ phase' = phase
    BY <1>8 DEF vars
  <2> QED BY <1>1, <1>2, <1>3, <2>1 DEF RowInv
<1> QED BY <1>4, <1>5, <1>6, <1>7, <1>8 DEF Next

\* They are kept always.
LEMMA RowAlways == Spec => []RowInv
BY RowInit, RowNext, PTL DEF Spec

\* A cell is a range that stands for its text.
LEMMA CellIs ==
  ASSUME CaseOK, NEW side \in Side, NEW c \in Columns
  PROVE  /\ Text(side, c) \in Seq(Byte) /\ IsField(Cell(side, c))
         /\ Logical(Cell(side, c)) = Text(side, c)
<1>1. PICK cell : cell = case[side][c] OBVIOUS
<1>2. cell \in CellText BY <1>1 DEF CaseOK, Side
<1>3. cell.text \in Seq(Byte) BY <1>2 DEF CellText
<1> QED BY <1>1, <1>2, <1>3, FieldIs DEF Cell, Text

\* Whatever the two texts and however they are written, the walks agree.
LEMMA WalksFollow == RowInv => WalksAgree
<1> SUFFICES ASSUME RowInv, NEW c \in Columns
             PROVE  /\ OrderIs(FieldCmp(Cell("source", c), Cell("target", c)), Text("source", c), Text("target", c))
                    /\ \A side \in Side :
                         /\ Logical(Cell(side, c)) = Text(side, c)
                         /\ LogicalLen(Cell(side, c)) = Len(Text(side, c))
  BY DEF WalksAgree
<1>1. \A side \in Side : /\ Text(side, c) \in Seq(Byte) /\ IsField(Cell(side, c))
                         /\ Logical(Cell(side, c)) = Text(side, c)
  BY CellIs DEF RowInv
<1>2. \A side \in Side : LogicalLen(Cell(side, c)) = Len(Text(side, c)) BY <1>1, LogicalOf
<1>3. OrderIs(FieldCmp(Cell("source", c), Cell("target", c)), Text("source", c), Text("target", c))
  <2>1. "source" \in Side /\ "target" \in Side BY DEF Side
  <2>2. OrderIs(FieldCmp(Cell("source", c), Cell("target", c)),
                Logical(Cell("source", c)), Logical(Cell("target", c)))
    BY <1>1, <2>1, FieldCmpOf
  <2> QED BY <1>1, <2>1, <2>2
<1> QED BY <1>1, <1>2, <1>3

\* A range without "" pairs stands for its own bytes.
LEMMA PlainRange ==
  ASSUME NEW f, IsField(f), ~f.esc
  PROVE  Logical(f) = f.raw
<1>1. PICK text : text = f.raw OBVIOUS
<1>2. text \in Seq(Byte) /\ Len(text) \in Nat BY <1>1, LenProperties DEF IsField
<1>3. PICK P : P = [k \in 0 .. Len(text) |-> k + 1] OBVIOUS
<1>4. P \in [0 .. Len(text) -> Nat] /\ \A k \in 0 .. Len(text) : P[k] = k + 1 BY <1>2, <1>3
<1>5. \A k \in 1 .. Len(text) : Onward(f, k) = k + 1 BY DEF Onward
<1>6. \A k \in 1 .. Len(text) : k - 1 \in 0 .. Len(text) /\ k \in 0 .. Len(text) /\ (k - 1) + 1 = k
  BY <1>2
<1>7. \A k \in 1 .. Len(text) : P[k - 1] = k /\ P[k] = k + 1 BY <1>4, <1>6
<1>8. Stands(f, text, P) BY <1>1, <1>2, <1>4, <1>5, <1>7 DEF Stands
<1> QED BY <1>1, <1>2, <1>8, StandsForText

\* The view of such a cell in a numeric column is its trimmed text, or the form of the
\* number it writes.
LEMMA NumericView ==
  ASSUME CaseOK, Hashed, case.opts.numeric, NEW side \in Side, NEW c \in Columns,
         Type(c) \in Numeric, ~Cell(side, c).esc
  PROVE  /\ Bare(side, c) \in Seq(Byte) /\ IsField(view[side][c])
         /\ Logical(view[side][c]) = Compared(Bare(side, c))
<1>1. PICK f, o, type : f = Cell(side, c) /\ o = case.opts /\ type = Type(c) OBVIOUS
<1>2. IsField(f) /\ Text(side, c) \in Seq(Byte) /\ Logical(f) = Text(side, c) /\ ~f.esc
  BY <1>1, CellIs
<1>3. f.raw = Text(side, c) /\ f.esc = FALSE BY <1>2, PlainRange DEF IsField
<1>4. o \in Options /\ o.numeric /\ o.trim \in BOOLEAN /\ type # "CHAR" /\ type \in Numeric
  BY <1>1 DEF CaseOK, Options, Numeric
<1>5. PICK p : p = Bare(side, c) OBVIOUS
<1>6. p = Trimmed(f.raw, o.trim, o.trim) /\ p \in Seq(Byte)
  <2>1. p = Trimmed(f.raw, o.trim, o.trim) BY <1>1, <1>3, <1>5 DEF Bare
  <2> QED BY <1>2, <1>3, <2>1, TrimmedIs
<1>7. PICK v : v = Normalize(f, type, o) OBVIOUS
<1>8. v = View(f, p, CanonicalDecimal(p))
  <2>1. (o.trim \/ (type = "CHAR" /\ o.charIgnorePad)) = o.trim BY <1>4
  <2>2. v = TrimmedView(f, p, type, o) BY <1>6, <1>7, <2>1 DEF Normalize
  <2>3. Canonical(p, type, o) = CanonicalDecimal(p) BY <1>4 DEF Canonical
  <2>4. (IF f.esc THEN Declined ELSE Canonical(p, type, o)) = CanonicalDecimal(p) BY <1>3, <2>3
  <2> QED BY <2>2, <2>4 DEF TrimmedView
<1>9. v.raw = Compared(p) /\ ~v.esc
  <2>1. CASE CanonicalDecimal(p) = Declined
    <3>1. v = [raw |-> p, esc |-> f.esc, changed |-> Len(p) # Len(f.raw)] BY <1>8, <2>1 DEF View
    <3> QED BY <1>3, <2>1, <3>1 DEF Compared
  <2>2. CASE CanonicalDecimal(p) # Declined
    <3>1. v = [raw |-> CanonicalDecimal(p), esc |-> FALSE,
               changed |-> Len(p) # Len(f.raw) \/ CanonicalDecimal(p) # p]
      BY <1>8, <2>2 DEF View
    <3> QED BY <2>2, <3>1 DEF Compared
  <2> QED BY <2>1, <2>2
<1>10. IsField(v) BY <1>2, <1>7, NormalizeIs
<1>11. Logical(v) = Compared(p) BY <1>9, <1>10, PlainRange
<1>12. view[side][c] = v
  <2>1. view[side][c] = Views(side)[c] BY DEF Hashed
  <2>2. Views(side)[c] = Normalize(Cell(side, c), Type(c), case.opts) BY DEF Views
  <2> QED BY <1>1, <1>7, <2>1, <2>2
<1> QED BY <1>5, <1>6, <1>10, <1>11, <1>12

\* So two of them are equal when and only when they are the same number, or the same text.
LEMMA NumbersFollow == RowInv => SameNumber
<1> SUFFICES ASSUME RowInv, phase = "emitted", case.opts.numeric, NEW c \in Columns,
                    Type(c) \in Numeric, ~Cell("source", c).esc, ~Cell("target", c).esc
             PROVE  SameCell(c) <=> SameAsNumbers(Bare("source", c), Bare("target", c),
                                                  Value(Bare("source", c)), Value(Bare("target", c)))
  BY DEF SameNumber
<1>1. CaseOK /\ Hashed /\ "source" \in Side /\ "target" \in Side BY DEF RowInv, Side
<1>2. PICK p, q, v, w : /\ p = Bare("source", c) /\ q = Bare("target", c)
                        /\ v = view["source"][c] /\ w = view["target"][c]
  OBVIOUS
<1>3. p \in Seq(Byte) /\ IsField(v) /\ Logical(v) = Compared(p) BY <1>1, <1>2, NumericView
<1>4. q \in Seq(Byte) /\ IsField(w) /\ Logical(w) = Compared(q) BY <1>1, <1>2, NumericView
<1>5. SameCell(c) <=> Logical(v) = Logical(w)
  <2>1. FieldCmp(v, w) = 0 <=> Logical(v) = Logical(w) BY <1>3, <1>4, FieldCmpOf
  <2> QED BY <1>2, <2>1 DEF SameCell, CellEqual
<1>6. Compared(p) = Compared(q) <=> SameAsNumbers(p, q, Value(p), Value(q))
  BY <1>3, <1>4, ComparedAsNumbers
<1> QED BY <1>2, <1>3, <1>4, <1>5, <1>6

\* Off the boundary the digests of two cells are equal when and only when their
\* views compare equal, and so are their raw ones with the cells as written.
LEMMA CellDigests ==
  ASSUME CaseOK, Hashed, OffTheBoundary, NEW c \in Columns
  PROVE  /\ FieldHash(Views("source")[c]) = FieldHash(Views("target")[c]) <=> SameCell(c)
         /\ RawHash(Cell("source", c), Views("source")[c]) =
              RawHash(Cell("target", c), Views("target")[c]) <=> SameRaw(c)
<1>1. PICK f, g, v, w : /\ f = Cell("source", c) /\ g = Cell("target", c)
                        /\ v = Views("source")[c] /\ w = Views("target")[c]
  OBVIOUS
<1>2. "source" \in Side /\ "target" \in Side BY DEF Side
<1>3. IsField(f) /\ IsField(g) BY <1>1, <1>2, CellIs
<1>4. v = Normalize(f, Type(c), case.opts) /\ w = Normalize(g, Type(c), case.opts) BY <1>1 DEF Views
<1>5. /\ IsField(v) /\ (~v.changed => v.raw = f.raw /\ v.esc = f.esc)
      /\ IsField(w) /\ (~w.changed => w.raw = g.raw /\ w.esc = g.esc)
  BY <1>3, <1>4, NormalizeIs
<1>6. v = view["source"][c] /\ w = view["target"][c] BY <1>1, <1>2 DEF Hashed
<1>7. /\ LogicalLen(f) # Chunk /\ LogicalLen(v) # Chunk
      /\ LogicalLen(g) # Chunk /\ LogicalLen(w) # Chunk
  BY <1>1, <1>2, <1>6 DEF OffTheBoundary
<1>8. /\ Logical(f) \in Seq(Byte) /\ Len(Logical(f)) # Chunk
      /\ Logical(g) \in Seq(Byte) /\ Len(Logical(g)) # Chunk
      /\ Logical(v) \in Seq(Byte) /\ Len(Logical(v)) # Chunk
      /\ Logical(w) \in Seq(Byte) /\ Len(Logical(w)) # Chunk
  BY <1>3, <1>5, <1>7, LogicalOf
<1>9. FieldHash(v) = FieldHash(w) <=> Logical(v) = Logical(w) BY <1>8, HashOfTells DEF FieldHash
<1>10. FieldHash(f) = FieldHash(g) <=> Logical(f) = Logical(g) BY <1>8, HashOfTells DEF FieldHash
<1>11. FieldCmp(v, w) = 0 <=> Logical(v) = Logical(w) BY <1>5, FieldCmpOf
<1>12. FieldCmp(f, g) = 0 <=> Logical(f) = Logical(g) BY <1>3, FieldCmpOf
<1>13. RawHash(f, v) = FieldHash(f)
  <2>1. CASE v.changed BY <2>1 DEF RawHash
  <2>2. CASE ~v.changed
    <3>1. Logical(v) = Logical(f) /\ v.esc = f.esc BY <1>3, <1>5, <2>2, SameRange
    <3> QED BY <2>2, <3>1 DEF RawHash, FieldHash
  <2> QED BY <2>1, <2>2
<1>14. RawHash(g, w) = FieldHash(g)
  <2>1. CASE w.changed BY <2>1 DEF RawHash
  <2>2. CASE ~w.changed
    <3>1. Logical(w) = Logical(g) /\ w.esc = g.esc BY <1>3, <1>5, <2>2, SameRange
    <3> QED BY <2>2, <3>1 DEF RawHash, FieldHash
  <2> QED BY <2>1, <2>2
<1>15. SameCell(c) <=> FieldCmp(v, w) = 0 BY <1>6 DEF SameCell, CellEqual
<1>16. SameRaw(c) <=> FieldCmp(f, g) = 0 BY <1>1 DEF SameRaw
<1>17. FieldHash(v) = FieldHash(w) <=> SameCell(c) BY <1>9, <1>11, <1>15
<1>18. RawHash(f, v) = RawHash(g, w) <=> SameRaw(c) BY <1>10, <1>12, <1>13, <1>14, <1>16
<1> QED BY <1>1, <1>17, <1>18

\* So a row's digests are equal when and only when those cells' are.
LEMMA RowDigests ==
  ASSUME CaseOK, Hashed, OffTheBoundary
  PROVE  DigestsAre(digest["source"], digest["target"])
<1> DEFINE Hash(side) == [c \in Columns |-> FieldHash(Views(side)[c])]
           Raw(side) == [c \in Columns |-> RawHash(Cell(side, c), Views(side)[c])]
           n == Len(case.cols)
           KeyCells == IF case.keys = {} THEN Columns ELSE case.keys
<1>0. n \in Nat BY LenProperties DEF CaseOK
<1>1. n \in Nat /\ Columns = 1 .. n /\ case.keys \subseteq Columns
  BY <1>0, LenProperties DEF CaseOK, Columns
<1>2. ASSUME NEW side \in Side
      PROVE  /\ digest[side].full = FoldCells(Hash(side), Columns, n)
             /\ digest[side].raw = FoldCells(Raw(side), Columns, n)
             /\ digest[side].key = FoldCells(Hash(side), KeyCells, n)
  <2>1. PICK row : row = [c \in Columns |-> Cell(side, c)] OBVIOUS
  <2>2. DOMAIN row = Columns /\ \A c \in Columns : row[c] = Cell(side, c) BY <2>1
  <2>3. Len(row) = n BY <1>1, <2>1
  <2>4. digest[side] = HashRow(row, Views(side), case.keys) BY <2>1 DEF Hashed
  <2>5. [c \in DOMAIN row |-> FieldHash(Views(side)[c])] = Hash(side) BY <2>2
  <2>6. [c \in DOMAIN row |-> RawHash(row[c], Views(side)[c])] = Raw(side) BY <2>2
  <2> HIDE DEF Hash, Raw, n
  <2>7. digest[side] = FoldedRow(Hash(side), Raw(side), Columns, case.keys, n)
    BY <2>2, <2>3, <2>4, <2>5, <2>6 DEF HashRow
  <2> QED BY <2>7 DEF FoldedRow
<1>3. \A c \in Columns :
        /\ Hash("source")[c] = Hash("target")[c] <=> SameCell(c)
        /\ Raw("source")[c] = Raw("target")[c] <=> SameRaw(c)
  BY CellDigests
<1>4. KeyCells \subseteq 1 .. n /\ Columns \subseteq 1 .. n BY <1>1
<1>5. PICK x, y, r, s : x = Hash("source") /\ y = Hash("target") /\ r = Raw("source") /\ s = Raw("target")
  OBVIOUS
<1> HIDE DEF Hash, Raw, n, KeyCells
<1>6. /\ FoldCells(x, Columns, n) = FoldCells(y, Columns, n) <=> \A c \in Columns : x[c] = y[c]
      /\ FoldCells(x, KeyCells, n) = FoldCells(y, KeyCells, n) <=> \A c \in KeyCells : x[c] = y[c]
      /\ FoldCells(r, Columns, n) = FoldCells(s, Columns, n) <=> \A c \in Columns : r[c] = s[c]
  <2>1. FoldCells(x, Columns, n) = FoldCells(y, Columns, n) <=> Agree(x, y, Columns)
    BY <1>0, <1>4, FoldCellsTell
  <2>2. FoldCells(x, KeyCells, n) = FoldCells(y, KeyCells, n) <=> Agree(x, y, KeyCells)
    BY <1>0, <1>4, FoldCellsTell
  <2>3. FoldCells(r, Columns, n) = FoldCells(s, Columns, n) <=> Agree(r, s, Columns)
    BY <1>0, <1>4, FoldCellsTell
  <2> QED BY <2>1, <2>2, <2>3 DEF Agree
<1>7. /\ digest["source"].full = FoldCells(x, Columns, n) /\ digest["target"].full = FoldCells(y, Columns, n)
      /\ digest["source"].raw = FoldCells(r, Columns, n) /\ digest["target"].raw = FoldCells(s, Columns, n)
      /\ digest["source"].key = FoldCells(x, KeyCells, n) /\ digest["target"].key = FoldCells(y, KeyCells, n)
  BY <1>2, <1>5 DEF Side
<1>8. \A c \in Columns : (x[c] = y[c] <=> SameCell(c)) /\ (r[c] = s[c] <=> SameRaw(c)) BY <1>3, <1>5
<1>9. digest["source"].full = digest["target"].full <=> \A c \in Columns : SameCell(c)
  BY <1>6, <1>7, <1>8
<1>10. digest["source"].raw = digest["target"].raw <=> \A c \in Columns : SameRaw(c)
  BY <1>6, <1>7, <1>8
<1>11. case.keys # {} => (digest["source"].key = digest["target"].key <=> \A c \in case.keys : SameCell(c))
  <2>1. case.keys # {} => KeyCells = case.keys BY DEF KeyCells
  <2> QED BY <1>1, <1>6, <1>7, <1>8, <2>1
<1>12. case.keys = {} => (digest["source"].key = digest["target"].key
                            <=> digest["source"].full = digest["target"].full)
  <2>1. case.keys = {} => KeyCells = Columns BY DEF KeyCells
  <2> QED BY <1>7, <2>1
<1> QED BY <1>9, <1>10, <1>11, <1>12 DEF DigestsAre

\* The digests are as the comparison of the cells says.
LEMMA DigestsFollow == RowInv => DigestsAgreeOffTheBoundary
BY RowDigests DEF RowInv, DigestsAgreeOffTheBoundary, DigestsAgree

\* The report is the comparison's, so the changed and the suppressed cells explain it.
LEMMA ReportFollows == RowInv => CellsExplainRow
<1> SUFFICES ASSUME RowInv, phase = "emitted", OffTheBoundary
             PROVE  /\ report.modified <=> report.changed # {}
                    /\ report.changed \cap report.suppressed = {}
                    /\ \A c \in Columns : ~SameRaw(c) => c \in report.changed \cup report.suppressed
  BY DEF CellsExplainRow
<1> DEFINE modified == digest["source"].full # digest["target"].full
           rawDiffers == digest["source"].raw # digest["target"].raw
           same == {c \in Columns : SameCell(c)}
<1>1. DigestsAre(digest["source"], digest["target"]) BY RowDigests DEF RowInv
<1>2. report = Reported(modified, rawDiffers, same) BY DEF RowInv
<1>3. modified <=> \E c \in Columns : ~SameCell(c) BY <1>1 DEF DigestsAre
<1>4. rawDiffers <=> \E c \in Columns : ~SameRaw(c) BY <1>1 DEF DigestsAre
<1>5. /\ report.modified = modified
      /\ report.changed = IF modified THEN Columns \ same ELSE {}
      /\ report.suppressed = {c \in Columns : (modified => c \in same) /\ rawDiffers /\ ~SameRaw(c)}
  <2> HIDE DEF modified, rawDiffers, same
  <2> QED BY <1>2, Zenon DEF Reported
<1> HIDE DEF modified, rawDiffers
<1>6. report.modified <=> report.changed # {} BY <1>3, <1>5
<1>7. report.changed \cap report.suppressed = {} BY <1>5
<1>8. ASSUME NEW c \in Columns, ~SameRaw(c) PROVE c \in report.changed \cup report.suppressed
  BY <1>4, <1>5, <1>8
<1> QED BY <1>6, <1>7, <1>8

\* The range a cell is checked in stands for the text that is checked.
LEMMA CheckedRange ==
  ASSUME CaseOK, NEW c \in Columns, NEW f, f = Cell("target", c), NEW p, p = Bare("target", c),
         NEW v, v = [raw |-> Trimmed(f.raw, case.opts.trim, case.opts.trim), esc |-> f.esc]
  PROVE  /\ p \in Seq(Byte) /\ IsField(v) /\ Logical(v) = p
         /\ v.raw = <<>> <=> p = <<>>
         /\ ~v.esc => v.raw = p
         /\ v.esc => Value(p) = NotANumber
<1>1. PICK cell, trim, text : cell = case.target[c] /\ trim = case.opts.trim /\ text = cell.text
  OBVIOUS
<1>2. cell \in CellText /\ trim \in BOOLEAN BY <1>1 DEF CaseOK, Options
<1>3. text \in Seq(Byte) /\ f = Field(cell) /\ p = Trimmed(text, trim, trim)
  <2>1. case["target"] = case.target OBVIOUS
  <2> QED BY <1>1, <1>2, <2>1, FieldParts DEF Cell, Bare, Text
<1>4. PICK P : Stands(f, text, P) BY <1>1, <1>2, <1>3, FieldStands
<1>5. IsField(f) BY <1>2, <1>3, FieldStands
<1>6. v.raw = Trimmed(f.raw, trim, trim) /\ v.esc = f.esc BY <1>1
<1>7. IsField(v) /\ Logical(v) = p
  <2>1. CASE trim
    <3>1. v = [raw |-> Trimmed(f.raw, TRUE, TRUE), esc |-> f.esc] BY <1>1, <2>1
    <3>2. p = Trimmed(text, TRUE, TRUE) BY <1>3, <2>1
    <3> QED BY <1>3, <1>4, <1>5, <3>1, <3>2, TrimmedStands
  <2>2. CASE ~trim
    <3>1. f.raw \in Seq(Byte) BY <1>5 DEF IsField
    <3>2. ASSUME NEW s \in Seq(Byte) PROVE Trimmed(s, FALSE, FALSE) = s
      <4>1. Trimmed(s, FALSE, FALSE) = Part(s, 1, Len(s)) BY DEF Trimmed
      <4>2. Len(s) \in Nat BY LenProperties
      <4>3. SubSeq(s, 1, Len(s)) = s BY <4>2
      <4> QED BY <4>1, <4>3 DEF Part
    <3>3. v.raw = f.raw /\ p = text
      <4>1. trim = FALSE BY <1>2, <2>2
      <4>2. v.raw = Trimmed(f.raw, FALSE, FALSE) /\ p = Trimmed(text, FALSE, FALSE)
        BY <1>3, <1>6, <4>1
      <4> QED BY <1>3, <3>1, <3>2, <4>2
    <3>4. IsField(v) BY <1>5, <1>6, <3>3 DEF IsField
    <3>5. Logical(v) = Logical(f) BY <1>5, <1>6, <3>3, SameRange
    <3>6. Logical(f) = text BY <1>3, <1>4, <1>5, StandsForText
    <3> QED BY <3>3, <3>4, <3>5, <3>6
  <2> QED BY <1>2, <2>1, <2>2
<1>8. p \in Seq(Byte) BY <1>7, LogicalOf
<1>9. v.raw = <<>> <=> p = <<>>
  <2>1. PICK L : Copies(v, L) /\ Logical(v) = L[1] BY <1>7, LogicalIs
  <2>2. Len(v.raw) \in Nat /\ (Len(v.raw) = 0 <=> v.raw = <<>>)
    <3>1. v.raw \in Seq(Byte) BY <1>7 DEF IsField
    <3> QED BY <3>1, LenProperties, EmptySeq
  <2>3. 1 \in 1 .. Len(v.raw) + 1 BY <2>2
  <2>4. 1 > Len(v.raw) <=> L[1] = <<>> BY <1>7, <2>1, <2>3, CopyAt
  <2>5. 1 > Len(v.raw) <=> Len(v.raw) = 0 BY <2>2
  <2> QED BY <1>7, <2>1, <2>2, <2>4, <2>5
<1>10. ~v.esc => v.raw = p BY <1>7, PlainRange
<1>11. ASSUME v.esc PROVE Value(p) = NotANumber
  <2>1. \E k \in DOMAIN text : text[k] = Quote BY <1>1, <1>2, <1>3, <1>6, <1>11, FieldParts
  <2>2. PICK k \in 1 .. Len(text) : text[k] = Quote
    <3>1. DOMAIN text = 1 .. Len(text) BY <1>3
    <3> QED BY <2>1, <3>1
  <2>3. \E x \in 1 .. Len(p) : p[x] = Quote BY <1>2, <1>3, <2>2, QuoteStays
  <2> QED BY <1>8, <2>3, QuoteIsNoNumber
<1> QED BY <1>7, <1>8, <1>9, <1>10, <1>11

\* So what the report says of a cell is true of its text.
LEMMA FindingsFollow == RowInv => FindingsTrueWithIntegerPart
<1> SUFFICES ASSUME RowInv, phase = "emitted", NEW c \in Columns, LeavesPlace(case.cols[c])
             PROVE  FindingsOf(c)
  BY DEF FindingsTrueWithIntegerPart
<1>1. CaseOK BY DEF RowInv
<1>2. PICK f, p, col, trim : /\ f = Cell("target", c) /\ p = Bare("target", c) /\ col = case.cols[c]
                             /\ trim = case.opts.trim
  OBVIOUS
<1>3. PICK v : v = [raw |-> Trimmed(f.raw, trim, trim), esc |-> f.esc] OBVIOUS
<1>4. report.findings[c] = CheckTrimmed(v, Checks(col), col)
  <2>1. report.findings = [x \in Columns |-> CheckCell(Cell("target", x), case.cols[x], case.opts)]
    <3>1. report = Reported(digest["source"].full # digest["target"].full,
                            digest["source"].raw # digest["target"].raw,
                            {x \in Columns : SameCell(x)})
      BY DEF RowInv
    <3> QED BY <3>1, Zenon DEF Reported
  <2>2. report.findings[c] = CheckCell(f, col, case.opts) BY <1>2, <2>1
  <2> QED BY <1>2, <1>3, <2>2 DEF CheckCell
<1>5. /\ p \in Seq(Byte) /\ IsField(v) /\ Logical(v) = p
      /\ v.raw = <<>> <=> p = <<>>
      /\ ~v.esc => v.raw = p
      /\ v.esc => Value(p) = NotANumber
  BY <1>1, <1>2, <1>3, CheckedRange
<1>6. col \in ColumnType /\ LeavesPlace(col)
  <2>1. case.cols \in Seq(ColumnType) /\ c \in DOMAIN case.cols BY <1>1 DEF CaseOK, Columns
  <2> QED BY <1>2, <2>1
<1>7. FindingsAre(CheckTrimmed(v, Checks(col), col), p, Value(p), col) BY <1>5, <1>6, FoundTells
<1> QED BY <1>2, <1>4, <1>7 DEF FindingsOf

\* What the two calls for the segments answer.
AskInv ==
  /\ CaseOK
  /\ phase \in {"sized", "filled"} => sized = [c \in Columns |-> Ask(c, 0).n]
  /\ phase = "filled" => segs = [c \in Columns |-> Ask(c, sized[c])]

\* Both answers are kept once given: they are made of the case alone.
LEMMA AskNext == AskInv /\ [Next]_vars => AskInv'
<1> SUFFICES ASSUME AskInv, [Next]_vars PROVE AskInv' OBVIOUS
<1>1. case' = case BY DEF Next, HashRows, EmitRow, Size, Fill, vars
<1>2. CaseOK' BY <1>1 DEF AskInv, CaseOK, Columns
<1>3. ASSUME sized' = [c \in Columns |-> Ask(c, 0).n]
      PROVE  (sized = [c \in Columns |-> Ask(c, 0).n])'
  BY <1>1, <1>3 DEF Ask, SameRaw, Cell, Columns
<1>4. ASSUME sized' = sized, segs' = [c \in Columns |-> Ask(c, sized[c])]
      PROVE  (segs = [c \in Columns |-> Ask(c, sized[c])])'
  BY <1>1, <1>4 DEF Ask, SameRaw, Cell, Columns
<1>5. CASE HashRows
  <2>1. phase' = "hashed" BY <1>5 DEF HashRows
  <2> QED BY <1>2, <2>1 DEF AskInv
<1>6. CASE EmitRow
  <2>1. phase' = "emitted" BY <1>6 DEF EmitRow
  <2> QED BY <1>2, <2>1 DEF AskInv
<1>7. CASE Size
  <2>1. phase' = "sized" /\ sized' = [c \in Columns |-> Ask(c, 0).n] BY <1>7 DEF Size
  <2> QED BY <1>2, <1>3, <2>1 DEF AskInv
<1>8. CASE Fill
  <2>1. /\ phase = "sized" /\ phase' = "filled" /\ sized' = sized
        /\ segs' = [c \in Columns |-> Ask(c, sized[c])]
    BY <1>8 DEF Fill
  <2>2. sized' = [c \in Columns |-> Ask(c, 0).n] BY <2>1 DEF AskInv
  <2> QED BY <1>2, <1>3, <1>4, <2>1, <2>2 DEF AskInv
<1>9. CASE UNCHANGED vars
  <2>1. phase' = phase /\ sized' = sized /\ segs' = segs BY <1>9 DEF vars
  <2>2. phase \in {"sized", "filled"} => (sized = [c \in Columns |-> Ask(c, 0).n])'
    BY <1>3, <2>1 DEF AskInv
  <2>3. phase = "filled" => (segs = [c \in Columns |-> Ask(c, sized[c])])' BY <1>4, <2>1 DEF AskInv
  <2> QED BY <1>2, <2>1, <2>2, <2>3 DEF AskInv
<1> QED BY <1>5, <1>6, <1>7, <1>8, <1>9 DEF Next

\* The two answers are those of one question throughout.
LEMMA AskAlways == Spec => []AskInv
<1>1. Init => AskInv BY RowInit DEF Init, RowInv, AskInv
<1> QED BY <1>1, AskNext, PTL DEF Spec

\* The second call's buffer takes all that the first counted, and together they
\* cover the texts.
LEMMA ScriptFollows == RowInv /\ AskInv => ScriptCovers
<1> SUFFICES ASSUME RowInv, AskInv, phase = "filled",
                    NEW c \in Columns, ~SameRaw(c), case.mode # "NONE"
             PROVE  /\ segs[c].n = sized[c] /\ Len(segs[c].out) = sized[c]
                    /\ Covers(segs[c].out, Text("source", c), Text("target", c))
  BY DEF ScriptCovers
<1> DEFINE a == Text("source", c)
           b == Text("target", c)
           Answer(cap) == CellSegments(a, b, case.mode, case.maxBytes, cap)
<1>1. /\ a \in Seq(Byte) /\ Logical(Cell("source", c)) = a
      /\ b \in Seq(Byte) /\ Logical(Cell("target", c)) = b
  BY CellIs DEF RowInv, Side
<1>2. ASSUME NEW cap PROVE Ask(c, cap) = Answer(cap) BY <1>1 DEF Ask
<1> HIDE DEF a, b
<1>3. \A cap \in Nat : Together(cap, Answer(0), Answer(cap), a, b, Len(a), Len(b))
  BY <1>1, CellSegmentsTogether
<1>4. sized[c] = Answer(0).n /\ segs[c] = Answer(sized[c])
  <2> HIDE DEF Answer
  <2> QED BY <1>2 DEF AskInv
<1> HIDE DEF Answer
<1>5. sized[c] \in Nat
  <2>1. Together(0, Answer(0), Answer(0), a, b, Len(a), Len(b)) BY <1>3
  <2> QED BY <1>4, <2>1 DEF Together, Holds, OutputType
<1>6. Together(sized[c], Answer(0), segs[c], a, b, Len(a), Len(b)) BY <1>3, <1>4, <1>5
<1>7. segs[c].n = sized[c] /\ Len(segs[c].out) = sized[c] /\ Covers(segs[c].out, a, b)
  BY <1>1, <1>4, <1>5, <1>6, TogetherAnswers
<1> QED BY <1>7 DEF a, b

\* hash.c walks a field four ways, and no value is written in a way that makes
\* two of them disagree.
THEOREM CellWalksAgree == Spec => []WalksAgree
BY RowAlways, WalksFollow, PTL

\* The digests of a row and the comparison of its cells never disagree when no
\* value is exactly one chunk long.
THEOREM CellDigestsAgree == Spec => []DigestsAgreeOffTheBoundary
BY RowAlways, DigestsFollow, PTL

\* What emit_target reports of a row is explained by its cells.
THEOREM CellsExplained == Spec => []CellsExplainRow
BY RowAlways, ReportFollows, PTL

\* Whatever the texts, the mode and the cap on bytes, the segments of a cell asked for
\* twice, for their number and for themselves, cover both texts.
THEOREM CellScriptCovers == Spec => []ScriptCovers
BY RowAlways, AskAlways, ScriptFollows, PTL

\* normalize.c's promise of a numeric column, for numerals of any length and exponent: two
\* cells compare equal when and only when they write the same number, or the same bytes
\* where one of them writes none.
THEOREM CellNumbersAgree == Spec => []SameNumber
BY RowAlways, NumbersFollow, PTL

\* validate.c's findings are true of the cell's text, whatever the text, its quoting and
\* the declaration of its column, as long as that leaves a place before the point.
THEOREM CellFindingsTrue == Spec => []FindingsTrueWithIntegerPart
BY RowAlways, FindingsFollow, PTL

=============================================================================
