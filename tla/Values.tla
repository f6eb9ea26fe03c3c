------------------------------- MODULE Values -------------------------------
(***************************************************************************)
(* What a cell's bytes mean: core/src/hash.c's walks of a field's logical  *)
(* value, and core/src/normalize.c's declared type comparators.            *)
(*                                                                         *)
(* A field is the raw range the parser left, with the flag that says it    *)
(* still holds "" pairs.  A byte is its code; a digest is the term that    *)
(* built it, so that two digests are equal when and only when the hashed   *)
(* bytes and the way they were folded are.                                 *)
(***************************************************************************)
EXTENDS Integers, Sequences, FiniteSets

CONSTANTS
  Scratch,   (* IBHA_NORM_SCRATCH: the longest canonical form              *)
  Chunk,     (* IBHA_HASH_CHUNK: the longest value hashed in one call      *)
  MaxExp,    (* the exponent past which canonical_decimal stops reading    *)
  Declined,  (* no canonical form: not of the kind, or too long to write   *)
  BoolTrue,  (* the entries of opts.bool_true and opts.bool_false          *)
  BoolFalse

Byte == 0 .. 255

ASSUME ValuesAssumption ==
  /\ Scratch \in Nat \ {0} /\ Chunk \in Nat \ {0} /\ MaxExp \in Nat
  /\ Declined \notin Seq(Byte) /\ Declined \notin Int

Quote == 34
Zero == 48
Nine == 57
Plus == 43
Minus == 45
Point == 46
ExpMark == {69, 101}

Digits == Zero .. Nine
IsDigit(b) == b \in Digits
IsSign(b) == b \in {Plus, Minus}
Pads == {32, 9}
Upper(b) == IF b \in 97 .. 122 THEN b - 32 ELSE b

\* The bytes of p from position i to position j, nothing when j < i.
Part(p, i, j) == SubSeq(p, i, j)

\* The first position at or after i that is past the end or holds no byte of S.
PastRun(p, i, S) ==
  CHOOSE k \in i .. Len(p) + 1 :
    /\ \A x \in i .. k - 1 : p[x] \in S
    /\ k = Len(p) + 1 \/ p[k] \notin S

Zeros(count) == [i \in 1 .. count |-> Zero]

-----------------------------------------------------------------------------
(* hash.c: a field's logical value is its range with every "" collapsed.   *)

\* A "" pair begins at i; a trailing lone quote is no pair.
PairAt(p, i) == p[i] = Quote /\ i < Len(p) /\ p[i + 1] = Quote

\* The position the loop goes on from, after the byte or the pair at i.
Onward(f, i) == IF f.esc /\ PairAt(f.raw, i) THEN i + 2 ELSE i + 1

\* ibha_field_copy_raw: the logical value, byte by byte.
Logical(f) ==
  LET from[i \in 1 .. Len(f.raw) + 1] ==
        IF i > Len(f.raw) THEN <<>> ELSE <<f.raw[i]>> \o from[Onward(f, i)]
  IN  from[1]

LogicalLen(f) ==
  LET from[i \in 1 .. Len(f.raw) + 1] ==
        IF i > Len(f.raw) THEN 0 ELSE 1 + from[Onward(f, i)]
  IN  from[1]

\* Mutant: only the first field's pairs are collapsed.
FieldCmpOneSided(f, g) ==
  LET a == f.raw
      b == g.raw
      from[i \in 1 .. Len(a) + 1] ==
        [j \in 1 .. Len(b) + 1 |->
           IF i > Len(a) \/ j > Len(b)
           THEN (IF i <= Len(a) THEN 1 ELSE IF j <= Len(b) THEN -1 ELSE 0)
           ELSE IF a[i] # b[j] THEN (IF a[i] < b[j] THEN -1 ELSE 1)
           ELSE from[Onward(f, i)][j + 1]]
  IN  from[1][1]

\* ibha_field_cmp_raw: both ranges walked in step, as memcmp then by length.
FieldCmp(f, g) ==
  LET a == f.raw
      b == g.raw
      from[i \in 1 .. Len(a) + 1] ==
        [j \in 1 .. Len(b) + 1 |->
           IF i > Len(a) \/ j > Len(b)
           THEN (IF i <= Len(a) THEN 1 ELSE IF j <= Len(b) THEN -1 ELSE 0)
           ELSE IF a[i] # b[j] THEN (IF a[i] < b[j] THEN -1 ELSE 1)
           ELSE from[Onward(f, i)][Onward(g, j)]]
  IN  from[1][1]

Xxh3(bytes) == <<"xxh3", bytes>>
Mix(acc, h) == <<"mix", acc, h>>
Final(acc, n) == <<"final", acc, n>>

\* A mixing of the hashes of successive pieces of Chunk bytes, the last shorter.
Folded(bytes) ==
  LET from[off \in 0 .. Len(bytes)] ==
        IF off = 0 THEN <<>>
        ELSE LET start == ((off - 1) \div Chunk) * Chunk
             IN  Mix(from[start], Xxh3(Part(bytes, start + 1, off)))
  IN  Final(from[Len(bytes)], Len(bytes))

\* ibha_field_hash_raw.  The plain path folds what is longer than a chunk; the
\* escaped path folds as soon as its window has filled once.
HashOf(bytes, esc) ==
  IF Len(bytes) < Chunk \/ (~esc /\ Len(bytes) = Chunk) THEN Xxh3(bytes) ELSE Folded(bytes)

FieldHash(f) == HashOf(Logical(f), f.esc)

-----------------------------------------------------------------------------
(* normalize.c: the canonical forms, on the bytes of an unescaped value.   *)

\* The bytes without their leading, or their trailing, zeros.
NoLeadingZeros(d) == Part(d, PastRun(d, 1, {Zero}), Len(d))
NoTrailingZeros(d) ==
  Part(d, 1, CHOOSE k \in 0 .. Len(d) :
               /\ k = 0 \/ d[k] # Zero
               /\ \A x \in k + 1 .. Len(d) : d[x] = Zero)

NumberOf(d) ==
  LET upTo[k \in 0 .. Len(d)] ==
        IF k = 0 THEN 0 ELSE upTo[k - 1] * 10 + (d[k] - Zero)
  IN  upTo[Len(d)]

DigitsFrom(p, i) == PastRun(p, i, Digits)

\* Where the mantissa that begins at i ends: digits, and more after one point.
MantissaEnd(p, i) ==
  LET e == DigitsFrom(p, i)
  IN  IF e <= Len(p) /\ p[e] = Point THEN DigitsFrom(p, e + 1) ELSE e

\* The power of ten an exponent's digits name, or why the scan declines it:
\* no digit, a byte that is none, or a value past MaxExp before its last digit.
SignedPower(digits, sign) ==
  IF \/ digits = <<>> \/ \E i \in DOMAIN digits : ~IsDigit(digits[i])
     \/ NumberOf(Part(digits, 1, Len(digits) - 1)) > MaxExp
  THEN Declined
  ELSE sign * NumberOf(digits)

PowerIn(q) ==
  IF q # <<>> /\ IsSign(q[1])
  THEN SignedPower(Tail(q), IF q[1] = Minus THEN -1 ELSE 1)
  ELSE SignedPower(q, 1)

\* What follows the mantissa: nothing, or an exponent.
Exponent(rest) ==
  IF rest = <<>> THEN 0
  ELSE IF rest[1] \in ExpMark THEN PowerIn(Tail(rest)) ELSE Declined

\* The digits of a mantissa in the order written, and how many follow its point.
DigitsOf(mant) ==
  LET upTo[k \in 0 .. Len(mant)] ==
        IF k = 0 THEN <<>>
        ELSE IF IsDigit(mant[k]) THEN Append(upTo[k - 1], mant[k]) ELSE upTo[k - 1]
  IN  upTo[Len(mant)]
Decimals(mant) ==
  Cardinality({i \in DOMAIN mant : IsDigit(mant[i]) /\ \E j \in 1 .. i : mant[j] = Point})

\* The digits followed by "point" zeros, or with the point among or before them.
Placed(sign, digits, point) ==
  IF point >= 0 THEN sign \o digits \o Zeros(point)
  ELSE IF -point < Len(digits)
  THEN sign \o Part(digits, 1, Len(digits) + point) \o <<Point>>
            \o Part(digits, Len(digits) + point + 1, Len(digits))
  ELSE sign \o <<Zero, Point>> \o Zeros(-point - Len(digits)) \o digits

Fitting(form) == IF Len(form) > Scratch THEN Declined ELSE form

\* Mutant: trailing zeros are dropped and the exponent does not absorb them.
RenderLosesScale(sign, written, digits, point) ==
  IF digits = <<>> THEN <<Zero>> ELSE Fitting(Placed(sign, digits, point))

\* The canonical form of the digits written from the first that is not 0, of
\* which "digits" is what is left when the exponent absorbs the zeros at the end.
Render(sign, written, digits, point) ==
  IF digits = <<>> THEN <<Zero>>
  ELSE Fitting(Placed(sign, digits, point + Len(written) - Len(digits)))

RenderWritten(sign, written, point) ==
  IF Len(written) > Scratch THEN Declined
  ELSE Render(sign, written, NoTrailingZeros(written), point)

\* The value of a mantissa shifted by a power of ten.
Shifted10(sign, mant, power) ==
  IF DigitsOf(mant) = <<>> \/ power = Declined THEN Declined
  ELSE RenderWritten(sign, NoLeadingZeros(DigitsOf(mant)), power - Decimals(mant))

FromMantissa(sign, p, end) ==
  Shifted10(sign, Part(p, 1, end - 1), Exponent(Part(p, end, Len(p))))

\* ibha_canonical_decimal: the value in plain decimal, with no redundant zeros
\* and no sign on zero.
CanonicalDecimal(p) ==
  IF p # <<>> /\ IsSign(p[1])
  THEN FromMantissa(IF p[1] = Minus THEN <<Minus>> ELSE <<>>, Tail(p), MantissaEnd(Tail(p), 1))
  ELSE FromMantissa(<<>>, p, MantissaEnd(p, 1))

\* ibha_canonical_timestamp: the zeros that end a fraction that ends the value.
\* The fraction is the digits after the last point, which nothing else follows and
\* which does not begin the value.
FractionPoints(p) ==
  {i \in 2 .. Len(p) - 1 : p[i] = Point /\ \A x \in i + 1 .. Len(p) : IsDigit(p[x])}

Shortened(whole, fraction) ==
  IF fraction = <<>> THEN whole ELSE whole \o <<Point>> \o fraction

UnlessSame(p, form) == IF form = p THEN Declined ELSE form

CanonicalTimestamp(p) ==
  IF Len(p) > Scratch \/ FractionPoints(p) = {} THEN Declined
  ELSE LET dot == CHOOSE i \in FractionPoints(p) : TRUE
       IN  UnlessSame(p, Shortened(Part(p, 1, dot - 1),
                                NoTrailingZeros(Part(p, dot + 1, Len(p)))))

\* in_set: a truth set entry, case aside.
InSet(set, p) ==
  \E e \in set : Len(e) = Len(p) /\ \A i \in 1 .. Len(p) : Upper(e[i]) = Upper(p[i])

CanonicalBoolean(p) ==
  IF InSet(BoolTrue, p) THEN <<Zero + 1>>
  ELSE IF InSet(BoolFalse, p) THEN <<Zero>> ELSE Declined

\* The bytes without padding at the ends asked for.
Trimmed(p, lead, trail) ==
  LET first == IF lead THEN PastRun(p, 1, Pads) ELSE 1
      last == IF ~trail THEN Len(p)
              ELSE CHOOSE k \in first - 1 .. Len(p) :
                     /\ k = first - 1 \/ p[k] \notin Pads
                     /\ \A x \in k + 1 .. Len(p) : p[x] \in Pads
  IN  Part(p, first, last)

Numeric == {"DECIMAL", "INTEGER"}
Types == Numeric \cup {"VARCHAR", "CHAR", "BOOLEAN", "TIMESTAMP", "UNKNOWN"}
Options ==
  [trim : BOOLEAN, charIgnorePad : BOOLEAN, numeric : BOOLEAN, booleans : BOOLEAN]

\* The canonical form of the trimmed bytes of an unescaped value, if any.
Canonical(p, type, o) ==
  IF o.numeric /\ type \in Numeric THEN CanonicalDecimal(p)
  ELSE IF type = "TIMESTAMP" THEN CanonicalTimestamp(p)
  ELSE IF o.booleans /\ type = "BOOLEAN" THEN CanonicalBoolean(p)
  ELSE Declined

\* Mutant: what trimming took off is forgotten.
ViewForgetsTrim(f, p, form) ==
  IF form = Declined
  THEN [raw |-> p, esc |-> f.esc, changed |-> FALSE]
  ELSE [raw |-> form, esc |-> FALSE, changed |-> form # p]

\* The trimmed bytes or their canonical form, and whether they differ from the
\* raw value.
View(f, p, form) ==
  IF form = Declined
  THEN [raw |-> p, esc |-> f.esc, changed |-> Len(p) # Len(f.raw)]
  ELSE [raw |-> form, esc |-> FALSE, changed |-> Len(p) # Len(f.raw) \/ form # p]

TrimmedView(f, p, type, o) == View(f, p, IF f.esc THEN Declined ELSE Canonical(p, type, o))

\* ibha_normalize: the view every comparison and every digest consumes.  A CHAR
\* drops its trailing pad even when trimming is off.
Normalize(f, type, o) ==
  TrimmedView(f, Trimmed(f.raw, o.trim, o.trim \/ (type = "CHAR" /\ o.charIgnorePad)),
              type, o)

\* col_equal of match.c, on the views of two cells.
CellEqual(v, w) == FieldCmp(v, w) = 0

\* Mutant: the raw digest is folded from the normalized cells.
RawHashNormalized(f, v) == FieldHash(v)

\* What a cell adds to the raw digest: its normalized hash is reused when
\* normalization changed nothing.
RawHash(f, v) == IF v.changed THEN FieldHash(f) ELSE FieldHash(v)

FoldCells(hashes, cells, count) ==
  LET upTo[c \in 0 .. count] ==
        IF c = 0 THEN <<>>
        ELSE IF c \in cells THEN Mix(upTo[c - 1], hashes[c]) ELSE upTo[c - 1]
  IN  Final(upTo[count], Cardinality(cells))

FoldedRow(hashes, raws, all, keys, n) ==
  [full |-> FoldCells(hashes, all, n), raw |-> FoldCells(raws, all, n),
   key |-> FoldCells(hashes, IF keys = {} THEN all ELSE keys, n)]

\* ibha_hash_row: the full, raw and key digests of a row, from its cells' ranges
\* and their views.
HashRow(row, views, keys) ==
  FoldedRow([c \in DOMAIN row |-> FieldHash(views[c])],
            [c \in DOMAIN row |-> RawHash(row[c], views[c])],
            DOMAIN row, keys, Len(row))

=============================================================================
