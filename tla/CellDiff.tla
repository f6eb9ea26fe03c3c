------------------------------ MODULE CellDiff ------------------------------
(***************************************************************************)
(* What the engine says of the cells of one matched pair of rows, from the *)
(* parser's digests to the segments a view asks for: ibha_hash_row,        *)
(* emit_target's classification with fill_cells and ibha_validate_row, and *)
(* ibha_csvd_cell_segments called for the size and then for the segments.  *)
(*                                                                         *)
(* A cell is known by the text somebody wrote and by whether it was        *)
(* written quoted; the engine only sees the range of bytes that makes.     *)
(***************************************************************************)
EXTENDS Findings, Segments

CONSTANT Cases  \* families of pairs of rows, with their columns, options and question

\* Two rows of as many cells as there are columns, and the key's columns among them.
CellText == [text : Seq(Byte), quoted : BOOLEAN]
ColumnType ==
  [type : Types, size : Nat \cup {Undeclared}, scale : Nat \cup {Undeclared}, required : BOOLEAN]

ASSUME CasesAssumption ==
  \A family \in DOMAIN Cases : \A x \in Cases[family] :
    /\ x.cols \in Seq(ColumnType) /\ x.keys \subseteq DOMAIN x.cols
    /\ {x.source, x.target} \subseteq [DOMAIN x.cols -> CellText]
    /\ x.opts \in Options

VARIABLES
  case,    \* [source, target, cols, keys, opts, mode, maxBytes]
  view,    \* view[side][c]: the cell as ibha_normalize hands it out
  phase,   \* "parsed", "hashed", "emitted", "sized", "filled"
  digest,  \* digest[side]: the row's full, raw and key digests
  report,  \* the cursor's row: modified, changed and suppressed, findings
  sized,   \* the segments counted with no buffer, by column
  segs     \* the segments written to a buffer of that size, by column

vars == <<case, view, phase, digest, report, sized, segs>>

Side == {"source", "target"}
Columns == DOMAIN case.cols

\* The range the parser leaves for a text: inside quotes each quote is doubled,
\* and the flag is set by the first pair met.
Field(cell) ==
  LET text == cell.text
      doubled[k \in 0 .. Len(text)] ==
        IF k = 0 THEN <<>>
        ELSE doubled[k - 1]
               \o IF text[k] = Quote THEN <<Quote, Quote>> ELSE <<text[k]>>
  IN  [raw |-> IF cell.quoted THEN doubled[Len(text)] ELSE text,
       esc |-> cell.quoted /\ \E k \in DOMAIN text : text[k] = Quote]

Cell(side, c) == Field(case[side][c])
Type(c) == case.cols[c].type

NoReport == [modified |-> FALSE, changed |-> {}, suppressed |-> {}, findings |-> <<>>]

Init ==
  /\ \E family \in DOMAIN Cases : case \in Cases[family]
  /\ phase = "parsed"
  /\ view = <<>> /\ digest = <<>> /\ report = NoReport /\ sized = <<>> /\ segs = <<>>

\* Both tables' rows are digested as the parser completes them.
HashRows ==
  /\ phase = "parsed"
  /\ phase' = "hashed"
  /\ view' = [side \in Side |->
       [c \in Columns |-> Normalize(Cell(side, c), Type(c), case.opts)]]
  /\ digest' = [side \in Side |->
       HashRow([c \in Columns |-> Cell(side, c)], view'[side], case.keys)]
  /\ UNCHANGED <<case, report, sized, segs>>

SameCell(c) == CellEqual(view["source"][c], view["target"][c])
SameRaw(c) == FieldCmp(Cell("source", c), Cell("target", c)) = 0

Reported(modified, rawDiffers, same) ==
  [modified   |-> modified,
   changed    |-> IF modified THEN Columns \ same ELSE {},
   suppressed |-> {c \in Columns :
                     (modified => c \in same) /\ rawDiffers /\ ~SameRaw(c)},
   findings   |-> [c \in Columns |-> CheckCell(Cell("target", c), case.cols[c], case.opts)]]

\* The digest decides whether the row is modified; only then, or when the raw
\* digests say that normalization hid something, are the cells walked.
EmitRow ==
  /\ phase = "hashed"
  /\ phase' = "emitted"
  /\ report' = Reported(digest["source"].full # digest["target"].full,
                        digest["source"].raw # digest["target"].raw,
                        {c \in Columns : SameCell(c)})
  /\ UNCHANGED <<case, view, digest, sized, segs>>

\* ibha_csvd_cell_segments: nothing for equal raw values, or for no mode.
Ask(c, cap) ==
  IF case.mode = "NONE" \/ SameRaw(c) THEN Output(cap)
  ELSE CellSegments(Logical(Cell("source", c)), Logical(Cell("target", c)),
                    case.mode, case.maxBytes, cap)

\* The first call has no buffer: it answers how many segments there are.
Size ==
  /\ phase = "emitted"
  /\ phase' = "sized"
  /\ sized' = [c \in Columns |-> Ask(c, 0).n]
  /\ UNCHANGED <<case, view, digest, report, segs>>

\* The second call writes them to a buffer of that many.
Fill ==
  /\ phase = "sized"
  /\ phase' = "filled"
  /\ segs' = [c \in Columns |-> Ask(c, sized[c])]
  /\ UNCHANGED <<case, view, digest, report, sized>>

Next == HashRows \/ EmitRow \/ Size \/ Fill

Spec == Init /\ [][Next]_vars

-----------------------------------------------------------------------------
(* What the values mean, said without the algorithms.                      *)

Text(side, c) == case[side][c].text

\* The text as the comparators and the checks trim it.
Bare(side, c) == Trimmed(Text(side, c), case.opts.trim, case.opts.trim)

\* A numeral taken apart: what is before an exponent's mark and what is after it,
\* each without its sign.
Halves(p, marks) ==
  IF marks = {} THEN [mant |-> p, exp |-> <<>>, marked |-> FALSE]
  ELSE LET mark == CHOOSE i \in marks : \A j \in marks : i <= j
       IN  [mant |-> Part(p, 1, mark - 1), exp |-> Part(p, mark + 1, Len(p)), marked |-> TRUE]

Unsigned(p) == IF p # <<>> /\ IsSign(p[1]) THEN Tail(p) ELSE p
Negative(p) == p # <<>> /\ p[1] = Minus

Parts(h) ==
  [m |-> Unsigned(h.mant), e |-> Unsigned(h.exp), marked |-> h.marked,
   neg |-> Negative(h.mant), negExp |-> Negative(h.exp)]

PartsOf(p) == Parts(Halves(p, {i \in DOMAIN p : p[i] \in ExpMark}))

\* Digits, one point at most, and an exponent of digits if there is one.
IsNumeral(n) ==
  /\ \A i \in DOMAIN n.m : IsDigit(n.m[i]) \/ n.m[i] = Point
  /\ \E i \in DOMAIN n.m : IsDigit(n.m[i])
  /\ \A i, j \in DOMAIN n.m : n.m[i] = Point /\ n.m[j] = Point => i = j
  /\ n.marked => n.e # <<>> /\ \A i \in DOMAIN n.e : IsDigit(n.e[i])

\* The digits after position i of a mantissa, or after its point.
After(m, i) == Cardinality({j \in i + 1 .. Len(m) : IsDigit(m[j])})
AfterPoint(m) ==
  Cardinality({j \in DOMAIN m : IsDigit(m[j]) /\ \E i \in 1 .. j : m[i] = Point})

\* A number is its sign and its digits other than 0, each at a power of ten.
DigitsAt(m, shift) == {<<After(m, i) + shift, m[i]>> : i \in {j \in DOMAIN m : m[j] \in Zero + 1 .. Nine}}
SignedDigits(neg, digits) == [neg |-> neg /\ digits # {}, digits |-> digits]
NumberIn(n) ==
  SignedDigits(n.neg, DigitsAt(n.m, (IF n.negExp THEN -1 ELSE 1) * NumberOf(n.e) - AfterPoint(n.m)))

Powers(v) == {d[1] : d \in v.digits}

\* How many bytes the number takes in plain decimal.
SpanLength(span) ==
  LET hi == CHOOSE x \in span : \A y \in span : y <= x
      lo == CHOOSE x \in span : \A y \in span : x <= y
  IN  IF lo < 0 THEN hi + 2 - lo ELSE hi + 1
PlainLength(v) == SpanLength(Powers(v) \cup {0}) + IF v.neg THEN 1 ELSE 0

\* What the scan takes in: so many digits after the leading zeros, and an
\* exponent it does not give up on.
Readable(n) ==
  /\ Cardinality({i \in DOMAIN n.m : IsDigit(n.m[i]) /\
                    \E j \in 1 .. i : n.m[j] \in Zero + 1 .. Nine}) <= Scratch
  /\ n.marked => NumberOf(Part(n.e, 1, Len(n.e) - 1)) <= MaxExp

\* What a text is compared as: a number, when it is one that can be rendered, or
\* its bytes.
NotANumber == [neg |-> FALSE, digits |-> {<<0, 0>>}]
NumberOrNot(n) ==
  IF IsNumeral(n) /\ Readable(n) /\ PlainLength(NumberIn(n)) <= Scratch
  THEN NumberIn(n) ELSE NotANumber
Value(p) == NumberOrNot(PartsOf(p))

-----------------------------------------------------------------------------

\* A numeric column is compared by value (normalize.c:357): two numbers that can
\* be rendered are equal when and only when their digits stand at the same powers
\* of ten, however they are written; any other two cells are equal only when
\* their trimmed bytes are.
SameAsNumbers(p, q, v, w) == IF NotANumber \in {v, w} THEN p = q ELSE v = w

SameNumber ==
  phase = "emitted" /\ case.opts.numeric =>
    \A c \in Columns :
      Type(c) \in Numeric /\ ~Cell("source", c).esc /\ ~Cell("target", c).esc =>
        (SameCell(c) <=> SameAsNumbers(Bare("source", c), Bare("target", c),
                                       Value(Bare("source", c)), Value(Bare("target", c))))

\* The four walks of a range agree on the value it stands for (hash.c:299): the
\* copy is the text, its length is the length counted, and the comparison is the
\* order of the texts, whichever side was written quoted.
Precedes(a, b) ==
  \E i \in 1 .. Len(b) :
    /\ \A j \in 1 .. i - 1 : j <= Len(a) /\ a[j] = b[j]
    /\ i = Len(a) + 1 \/ (i <= Len(a) /\ a[i] < b[i])

OrderIs(order, a, b) == (order = 0 <=> a = b) /\ (order < 0 <=> Precedes(a, b))

WalksAgree ==
  phase = "parsed" =>
    \A c \in Columns :
      /\ OrderIs(FieldCmp(Cell("source", c), Cell("target", c)), Text("source", c), Text("target", c))
      /\ \A side \in Side :
           /\ Logical(Cell(side, c)) = Text(side, c)
           /\ LogicalLen(Cell(side, c)) = Len(Text(side, c))

\* No cell is exactly one chunk long, where the two paths of FieldHash part.
OffTheBoundary ==
  \A side \in Side, c \in Columns :
    /\ LogicalLen(Cell(side, c)) # Chunk
    /\ LogicalLen(view[side][c]) # Chunk

\* "The row digests and the cell comparators cannot disagree" (normalize.c:20):
\* a row is unchanged when and only when no cell differs, its key digest stands
\* for the key cells alone, and its raw digest for the bytes as written.
DigestsAre(source, target) ==
  /\ source.full = target.full <=> \A c \in Columns : SameCell(c)
  /\ case.keys # {} =>
       (source.key = target.key <=> \A c \in case.keys : SameCell(c))
  /\ case.keys = {} => (source.key = target.key <=> source.full = target.full)
  /\ source.raw = target.raw <=> \A c \in Columns : SameRaw(c)

DigestsAgree == phase = "hashed" => DigestsAre(digest["source"], digest["target"])

DigestsAgreeOffTheBoundary == phase = "hashed" /\ OffTheBoundary => DigestsAgree

\* A modified row has a changed cell, "self contradictory output" otherwise
\* (normalize.c:25); the cells of an unchanged row that were written differently
\* are all counted as suppressed, and no cell is both.
CellsExplainRow ==
  phase = "emitted" /\ OffTheBoundary =>
    /\ report.modified <=> report.changed # {}
    /\ report.changed \cap report.suppressed = {}
    /\ \A c \in Columns : ~SameRaw(c) => c \in report.changed \cup report.suppressed

-----------------------------------------------------------------------------

\* The number has no digit outside what DECIMAL(size, scale) declares.
FitsDeclared(v, col) ==
  LET scale == IF col.scale > 0 THEN col.scale ELSE 0
  IN  IF col.type = "INTEGER"
      THEN \A x \in Powers(v) : x >= 0 /\ (col.size > 0 => x < col.size)
      ELSE col.size > 0 => \A x \in Powers(v) : x \in -scale .. col.size - scale - 1

\* Findings say of a cell what its text is (validate.c:64, 80): too long counts
\* the characters written, not a number is what cannot be compared as one, and
\* out of precision is a number with a digit the declared column has no place for.
FindingsAre(found, p, v, col) ==
  IF p = <<>> THEN found = (IF col.required THEN {"REQUIRED_EMPTY"} ELSE {})
  ELSE /\ "REQUIRED_EMPTY" \notin found
       /\ "TOO_LONG" \in found <=>
            /\ col.type \in {"VARCHAR", "CHAR"} /\ col.size > 0
            /\ Cardinality({i \in DOMAIN p : ~IsContinuation(p[i])}) > col.size
       /\ "NOT_NUMERIC" \in found <=> col.type \in Numeric /\ v = NotANumber
       /\ "PRECISION" \in found <=>
            col.type \in Numeric /\ v # NotANumber /\ ~FitsDeclared(v, col)

FindingsOf(c) ==
  FindingsAre(report.findings[c], Bare("target", c), Value(Bare("target", c)), case.cols[c])

FindingsTrue == phase = "emitted" => \A c \in Columns : FindingsOf(c)

\* The same, for the columns that declare no precision or leave a place before the point.
LeavesPlace(col) == col.type # "DECIMAL" \/ col.size <= 0 \/ col.scale < col.size
FindingsTrueWithIntegerPart ==
  phase = "emitted" => \A c \in Columns : LeavesPlace(case.cols[c]) => FindingsOf(c)

-----------------------------------------------------------------------------

\* UTF-8: the first byte of a character says how many continuation bytes follow.
Width(b) == IF b < 192 THEN 1 ELSE IF b < 224 THEN 2 ELSE IF b < 240 THEN 3 ELSE 4
WholeAt(p, i) == i = Len(p) \/ ~IsContinuation(At(p, i))
WellFormed(p) ==
  /\ p # <<>> => WholeAt(p, 0)
  /\ \A i \in 0 .. Len(p) - 1 : ~IsContinuation(At(p, i)) =>
       LET next == i + Width(At(p, i))
       IN  /\ next <= Len(p) /\ WholeAt(p, next)
           /\ \A j \in i + 1 .. next - 1 : IsContinuation(At(p, j))

\* The segments of two different cells, wherever they are cut, cover each text in
\* order and without a gap: EQUAL with DELETE the source's, EQUAL with INSERT the
\* target's (ibha_csvdiff.h), an EQUAL one holds the same bytes on both sides, and
\* none cuts a character of texts that are UTF-8, whatever else is cut.  A buffer
\* of the size first answered takes them all.
SegmentFits(s, at, a, b) ==
  /\ s.len > 0
  /\ s.start = IF s.op = "INSERT" THEN at.b ELSE at.a
  /\ s.op = "EQUAL" => Bytes(a, at.a, s.len) = Bytes(b, at.b, s.len)
  /\ \/ /\ s.op # "INSERT" => WholeAt(a, at.a + s.len)
        /\ s.op # "DELETE" => WholeAt(b, at.b + s.len)
     \/ ~(WellFormed(a) /\ WellFormed(b))

Covers(out, a, b) ==
  LET upTo[i \in 0 .. Len(out)] ==
        IF i = 0 THEN [a |-> 0, b |-> 0]
        ELSE [a |-> upTo[i - 1].a + IF out[i].op = "INSERT" THEN 0 ELSE out[i].len,
              b |-> upTo[i - 1].b + IF out[i].op = "DELETE" THEN 0 ELSE out[i].len]
  IN  /\ upTo[Len(out)] = [a |-> Len(a), b |-> Len(b)]
      /\ \A i \in DOMAIN out : SegmentFits(out[i], upTo[i - 1], a, b)

ScriptCovers ==
  phase = "filled" =>
    \A c \in Columns : ~SameRaw(c) /\ case.mode # "NONE" =>
      /\ segs[c].n = sized[c] /\ Len(segs[c].out) = sized[c]
      /\ Covers(segs[c].out, Text("source", c), Text("target", c))

\* The least edits between two sequences: what is in neither of their longest
\* common subsequence.
EditDistance(x, y) ==
  LET lcs[i \in 0 .. Len(x), j \in 0 .. Len(y)] ==
        IF i = 0 \/ j = 0 THEN 0
        ELSE IF x[i] = y[j] THEN 1 + lcs[i - 1, j - 1]
        ELSE IF lcs[i - 1, j] > lcs[i, j - 1] THEN lcs[i - 1, j] ELSE lcs[i, j - 1]
  IN  Len(x) + Len(y) - 2 * lcs[Len(x), Len(y)]

Characters(p) == Slices(p, Tokens(p, FALSE))

\* The characters the segments mark as deleted or inserted.
Marked(out, a, b) ==
  LET upTo[i \in 0 .. Len(out)] ==
        IF i = 0 THEN 0
        ELSE upTo[i - 1] +
             IF out[i].op = "EQUAL" THEN 0
             ELSE Len(Tokens(Bytes(IF out[i].op = "DELETE" THEN a ELSE b,
                                   out[i].start, out[i].len), FALSE))
  IN  upTo[Len(out)]

\* One replacement at most between common ends.
OneReplacement(out) ==
  \A i, j \in DOMAIN out : out[i].op # "EQUAL" /\ out[i].op = out[j].op => i = j

\* By character, what is marked deleted and inserted is as little as two values of
\* UTF-8 can differ by (segment.c:198), unless that is more than the edits allowed or
\* a value is over the cap, when the highlight never claims an equality it did not
\* find: every value is kept but for its common ends.
IsShortest(out, a, b, least, limit) ==
  IF least <= MaxEdits /\ Len(a) <= limit /\ Len(b) <= limit
  THEN Marked(out, a, b) = least
  ELSE OneReplacement(out)

ScriptShortest ==
  phase = "filled" =>
    \A c \in Columns :
      /\ ~SameRaw(c) /\ case.mode = "CHARACTER"
      /\ WellFormed(Text("source", c)) /\ WellFormed(Text("target", c))
      => IsShortest(segs[c].out, Text("source", c), Text("target", c),
                    EditDistance(Characters(Text("source", c)), Characters(Text("target", c))),
                    Limit(case.maxBytes))

=============================================================================
