----------------------------- MODULE EmitProofs -----------------------------
(***************************************************************************)
(* Proofs about Emit, for reports, buffers and limits of any size: the     *)
(* sink never holds anything but a prefix of the document, a call that     *)
(* says OK has delivered all of it, and a refusal is final.                *)
(*                                                                         *)
(* What the sink has, what the buffer holds and what is left of the line   *)
(* make up, until the sink refuses, exactly the document's lines up to the *)
(* cursor.  The row limit is counted by what has been written; that this   *)
(* stops at the right row is that the count is the number of rows kept.    *)
(***************************************************************************)
EXTENDS Emit, Induction, SequenceTheorems, FiniteSetTheorems, TLAPS

Words == {"summary", "row", "source", "target", "open", "close"}
Pieces == Words \X Nat \X {"body", "end"}

AnyOptions == [format : Formats, changesOnly : BOOLEAN, maxRows : Nat]

TypeOK ==
  /\ report \in Reports /\ status \in {"ok", "invalid", "io"}
  /\ phase \in {"idle", "drain", "rows", "close", "flush"}
  /\ opts \in AnyOptions /\ cursor \in 0 .. Len(report)
  /\ todo \in Seq(Pieces) /\ buf \in Seq(Pieces) /\ accepted \in Seq(Pieces)
  /\ err \in BOOLEAN /\ written \in Nat /\ emits \in Nat

\* The buffer has room for the next piece, and holds nothing once a call is over or
\* the sink has refused.
Room ==
  /\ Len(buf) < BufCap
  /\ err => buf = <<>>
  /\ phase = "idle" => todo = <<>> /\ buf = <<>>

\* The refusal of one call ends the diff.
RefusalEnds == phase = "idle" /\ err => status # "ok"

Sent == (accepted \o buf) \o todo

Draining == phase = "drain" =>
  /\ opts.format = "summary" /\ ~err
  /\ todo = <<>> /\ buf = <<>> /\ accepted = <<>>
  /\ counted = Cells[cursor] /\ written = cursor

InRows == phase = "rows" =>
  /\ opts.format # "summary"
  /\ ~err => Sent = OpenLines(opts.format) \o Lines[cursor]
  /\ written = Cardinality(Kept(cursor))
  /\ opts.maxRows # 0 => written <= opts.maxRows

Closing == phase = "close" =>
  /\ opts.format # "summary"
  /\ ~err => /\ Sent = OpenLines(opts.format) \o Lines[Len(report)]
             /\ written = Cardinality(Selected(Len(report)))

RowsCounted ==
  /\ opts.format # "summary" => written = Cardinality(Selected(Len(report)))
  /\ opts.format = "summary" => written = Len(report)

Flushing == phase = "flush" /\ ~err => Sent = Document /\ RowsCounted

Prefix == \E rest \in Seq(Pieces) : Document = accepted \o rest

Inv == TypeOK /\ Room /\ RefusalEnds /\ Draining /\ InRows /\ Closing /\ Flushing
       /\ Prefix /\ OkIsComplete

-----------------------------------------------------------------------------
(***************************************************************************)
(* The pieces, and the recursions over the report.                         *)
(***************************************************************************)
LEMMA ReportShape ==
  ASSUME TypeOK
  PROVE  /\ Len(report) \in Nat /\ DOMAIN report = 1 .. Len(report)
         /\ \A r \in 1 .. Len(report) : report[r] \in RowShapes /\ report[r].cells \in Nat
<1>1. PICK n \in 0 .. MaxReport : report \in [1 .. n -> RowShapes]
  BY DEF TypeOK, Reports
<1>2. n \in Nat
  BY <1>1, SizeAssumption
<1>3. Len(report) = n /\ DOMAIN report = 1 .. n
  BY <1>1, <1>2
<1>4. \A x \in RowShapes : x.cells \in Nat
  BY ShapeAssumption
<1> QED BY <1>1, <1>2, <1>3, <1>4

\* Concatenation, of pieces.
LEMMA Associative ==
  \A a, b, c \in Seq(Pieces) : (a \o b) \o c = a \o (b \o c)
  BY ConcatAssociative

LEMMA Concatenation ==
  /\ \A a, b \in Seq(Pieces) : a \o b \in Seq(Pieces)
  /\ <<>> \in Seq(Pieces)
  /\ \A a \in Seq(Pieces) : a \o <<>> = a /\ <<>> \o a = a
<1>1. \A a, b \in Seq(Pieces) : a \o b \in Seq(Pieces)
  OBVIOUS
<1>2. <<>> \in Seq(Pieces)
  OBVIOUS
<1>3. \A a \in Seq(Pieces) : a \o <<>> = a /\ <<>> \o a = a
  BY ConcatEmptySeq
<1> QED BY <1>1, <1>2, <1>3

\* A line is a sequence of pieces.
LEMMA LineOfPieces ==
  ASSUME NEW what \in Words, NEW at \in Nat
  PROVE  Line(what, at) \in Seq(Pieces)
<1>1. <<what, at, "body">> \in Pieces /\ <<what, at, "end">> \in Pieces
  BY DEF Pieces
<1> HIDE DEF Pieces
<1>2. <<<<what, at, "body">>, <<what, at, "end">>>> \in Seq(Pieces)
  BY <1>1
<1> QED BY <1>2 DEF Line

LEMMA LinesOfPieces ==
  ASSUME NEW format
  PROVE  /\ OpenLines(format) \in Seq(Pieces) /\ CloseLines(format) \in Seq(Pieces)
         /\ \A n \in Nat : SummaryLine(n) \in Seq(Pieces) /\ RowLines(format, n) \in Seq(Pieces)
<1>0. \A w \in Words, n \in Nat : Line(w, n) \in Seq(Pieces)
  BY LineOfPieces
<1>1. <<>> \in Seq(Pieces) /\ 0 \in Nat
  OBVIOUS
<1>2. OpenLines(format) \in Seq(Pieces) /\ CloseLines(format) \in Seq(Pieces)
  BY <1>0, <1>1 DEF OpenLines, CloseLines, Words
<1>3. ASSUME NEW n \in Nat
      PROVE  SummaryLine(n) \in Seq(Pieces) /\ RowLines(format, n) \in Seq(Pieces)
  <2>1. /\ Line("summary", n) \in Seq(Pieces) /\ Line("row", n) \in Seq(Pieces)
        /\ Line("source", n) \in Seq(Pieces) /\ Line("target", n) \in Seq(Pieces)
    BY <1>0 DEF Words
  <2>2. \A a, b \in Seq(Pieces) : a \o b \in Seq(Pieces)
    OBVIOUS
  <2> QED BY <1>1, <2>1, <2>2 DEF SummaryLine, RowLines
<1> QED BY <1>2, <1>3

\* The lines of the document, row by row.
LEMMA LinesRecursion ==
  ASSUME TypeOK
  PROVE  /\ Lines \in [0 .. Len(report) -> Seq(Pieces)] /\ Lines[0] = <<>>
         /\ \A n \in 1 .. Len(report) :
              Lines[n] = Lines[n - 1] \o (IF n \in Selected(n) THEN RowLines(opts.format, n) ELSE <<>>)
<1> DEFINE L == Len(report)
           next(n, v) == v \o (IF n \in Selected(n) THEN RowLines(opts.format, n) ELSE <<>>)
<1>1. L \in Nat
  BY ReportShape
<1> DEFINE step == [n \in 1 .. L |-> [v \in Seq(Pieces) |-> next(n, v)]]
<1>2. ASSUME NEW n \in 1 .. L, NEW v \in Seq(Pieces) PROVE next(n, v) \in Seq(Pieces)
  <2>1. n \in Nat
    BY <1>1
  <2>2. RowLines(opts.format, n) \in Seq(Pieces) /\ <<>> \in Seq(Pieces)
    <3>1. \A m \in Nat : RowLines(opts.format, m) \in Seq(Pieces)
      BY LinesOfPieces
    <3>2. <<>> \in Seq(Pieces)
      OBVIOUS
    <3> QED BY <2>1, <3>1, <3>2
  <2>3. \A a, b \in Seq(Pieces) : a \o b \in Seq(Pieces)
    OBVIOUS
  <2> QED BY <2>2, <2>3
<1>3. step \in [1 .. L -> [Seq(Pieces) -> Seq(Pieces)]]
  BY <1>2
<1>4. \A n \in 1 .. L, v \in Seq(Pieces) : step[n][v] = next(n, v)
  OBVIOUS
<1>5. <<>> \in Seq(Pieces)
  OBVIOUS
<1> HIDE DEF next, step
<1>6. PICK f : Recursive(f, L, Seq(Pieces), <<>>, step)
  BY <1>1, <1>3, <1>5, Recursion
<1>7. /\ f \in [0 .. L -> Seq(Pieces)] /\ f[0] = <<>>
      /\ \A n \in 1 .. L : f[n] = step[n][f[n - 1]]
  BY <1>6 DEF Recursive
<1>8. \A n \in 0 .. L : f[n] = IF n = 0 THEN <<>> ELSE next(n, f[n - 1])
  BY <1>1, <1>4, <1>7
<1>9. f = [n \in 0 .. L |-> IF n = 0 THEN <<>> ELSE next(n, f[n - 1])]
  BY <1>7, <1>8
<1>10. Lines = [n \in 0 .. L |-> IF n = 0 THEN <<>> ELSE next(n, Lines[n - 1])]
  <2>1. \E g : g = [n \in 0 .. L |-> IF n = 0 THEN <<>> ELSE next(n, g[n - 1])]
    BY <1>9
  <2> QED BY <2>1, Zenon DEF Lines, next
<1>11. \A n \in 0 .. L : Lines[n] = IF n = 0 THEN <<>> ELSE next(n, Lines[n - 1])
  BY <1>10
<1>12. Lines = f
  <2>1. Lines[0] = f[0]
    BY <1>8, <1>11, <1>1
  <2>2. ASSUME NEW n \in 0 .. L - 1, Lines[n] = f[n] PROVE Lines[n + 1] = f[n + 1]
    <3>1. n + 1 \in 0 .. L /\ n + 1 # 0 /\ (n + 1) - 1 = n
      BY <1>1
    <3> QED BY <1>8, <1>11, <2>2, <3>1
  <2>3. Lines = [n \in 0 .. L |-> Lines[n]] /\ f = [n \in 0 .. L |-> f[n]]
    BY <1>7, <1>10
  <2> QED BY <1>1, <2>1, <2>2, <2>3, SameRecursion
<1>13. \A n \in 1 .. L : Lines[n] = next(n, Lines[n - 1])
  BY <1>1, <1>11
<1> QED BY <1>7, <1>12, <1>13 DEF next

\* The cells counted, row by row.
LEMMA CellsRecursion ==
  ASSUME TypeOK
  PROVE  /\ Cells \in [0 .. Len(report) -> Nat] /\ Cells[0] = 0
         /\ \A n \in 1 .. Len(report) : Cells[n] = Cells[n - 1] + report[n].cells
<1> DEFINE L == Len(report)
           next(n, v) == v + report[n].cells
<1>1. L \in Nat
  BY ReportShape
<1> DEFINE step == [n \in 1 .. L |-> [v \in Nat |-> next(n, v)]]
<1>2. \A n \in 1 .. L, v \in Nat : next(n, v) \in Nat
  BY ReportShape
<1>3. step \in [1 .. L -> [Nat -> Nat]]
  BY <1>2
<1>4. \A n \in 1 .. L, v \in Nat : step[n][v] = next(n, v)
  OBVIOUS
<1> HIDE DEF next, step
<1>6. PICK f : Recursive(f, L, Nat, 0, step)
  BY <1>1, <1>3, Recursion
<1>7. /\ f \in [0 .. L -> Nat] /\ f[0] = 0
      /\ \A n \in 1 .. L : f[n] = step[n][f[n - 1]]
  BY <1>6 DEF Recursive
<1>8. \A n \in 0 .. L : f[n] = IF n = 0 THEN 0 ELSE next(n, f[n - 1])
  BY <1>1, <1>4, <1>7
<1>9. f = [n \in 0 .. L |-> IF n = 0 THEN 0 ELSE next(n, f[n - 1])]
  BY <1>7, <1>8
<1>10. Cells = [n \in 0 .. L |-> IF n = 0 THEN 0 ELSE next(n, Cells[n - 1])]
  <2>1. \E g : g = [n \in 0 .. L |-> IF n = 0 THEN 0 ELSE next(n, g[n - 1])]
    BY <1>9
  <2> QED BY <2>1, Zenon DEF Cells, next
<1>11. \A n \in 0 .. L : Cells[n] = IF n = 0 THEN 0 ELSE next(n, Cells[n - 1])
  BY <1>10
<1>12. Cells = f
  <2>1. Cells[0] = f[0]
    BY <1>8, <1>11, <1>1
  <2>2. ASSUME NEW n \in 0 .. L - 1, Cells[n] = f[n] PROVE Cells[n + 1] = f[n + 1]
    <3>1. n + 1 \in 0 .. L /\ n + 1 # 0 /\ (n + 1) - 1 = n
      BY <1>1
    <3> QED BY <1>8, <1>11, <2>2, <3>1
  <2>3. Cells = [n \in 0 .. L |-> Cells[n]] /\ f = [n \in 0 .. L |-> f[n]]
    BY <1>7, <1>10
  <2> QED BY <1>1, <2>1, <2>2, <2>3, SameRecursion
<1>13. \A n \in 1 .. L : Cells[n] = next(n, Cells[n - 1])
  BY <1>1, <1>11
<1> QED BY <1>7, <1>12, <1>13 DEF next

-----------------------------------------------------------------------------
(***************************************************************************)
(* The rows kept and the rows selected.                                    *)
(***************************************************************************)
LEMMA KeptFinite ==
  ASSUME NEW n \in Nat
  PROVE  /\ IsFiniteSet(Kept(n)) /\ Cardinality(Kept(n)) \in Nat /\ Kept(n) \subseteq 1 .. n
         /\ \A m \in 0 .. n : Kept(m) \subseteq Kept(n) /\ Cardinality(Kept(m)) <= Cardinality(Kept(n))
<1>1. Kept(n) \subseteq 1 .. n
  BY DEF Kept
<1>2. IsFiniteSet(1 .. n)
  BY FS_Interval
<1>3. IsFiniteSet(Kept(n))
  BY <1>1, <1>2, FS_Subset
<1>4. Cardinality(Kept(n)) \in Nat
  BY <1>3, FS_CardinalityType
<1>5. ASSUME NEW m \in 0 .. n
      PROVE  Kept(m) \subseteq Kept(n) /\ Cardinality(Kept(m)) <= Cardinality(Kept(n))
  <2>1. 1 .. m \subseteq 1 .. n
    OBVIOUS
  <2>2. Kept(m) \subseteq Kept(n)
    BY <2>1 DEF Kept
  <2> QED BY <1>3, <2>2, FS_Subset
<1> QED BY <1>1, <1>3, <1>4, <1>5

\* A row kept is one more than the rows kept before it.
LEMMA KeptCounts ==
  ASSUME NEW n \in Nat, NEW r \in Nat, n < r, r \in Kept(r)
  PROVE  Cardinality(Kept(n)) + 1 <= Cardinality(Kept(r))
<1>1. r \notin Kept(n) /\ IsFiniteSet(Kept(n)) /\ Cardinality(Kept(n)) \in Nat
  BY KeptFinite
<1>2. Cardinality(Kept(n) \cup {r}) = Cardinality(Kept(n)) + 1
  BY <1>1, FS_AddElement
<1>3. Kept(n) \subseteq Kept(r) /\ IsFiniteSet(Kept(r)) /\ n \in 0 .. r
  BY KeptFinite
<1>4. Kept(n) \cup {r} \subseteq Kept(r)
  BY <1>3
<1>5. Cardinality(Kept(n) \cup {r}) <= Cardinality(Kept(r))
  BY <1>3, <1>4, FS_Subset
<1> QED BY <1>2, <1>5

LEMMA KeptNext ==
  ASSUME NEW n \in Nat
  PROVE  /\ n + 1 \in Kept(n + 1) <=> ~(opts.changesOnly /\ report[n + 1].quiet)
         /\ n + 1 \notin Kept(n + 1) => Kept(n + 1) = Kept(n)
         /\ n + 1 \in Kept(n + 1) => Cardinality(Kept(n + 1)) = Cardinality(Kept(n)) + 1
<1>1. n + 1 \in 1 .. n + 1 /\ 1 .. n + 1 = (1 .. n) \cup {n + 1}
  OBVIOUS
<1>2. n + 1 \in Kept(n + 1) <=> ~(opts.changesOnly /\ report[n + 1].quiet)
  BY <1>1 DEF Kept
<1>3. n + 1 \notin Kept(n + 1) => Kept(n + 1) = Kept(n)
  BY <1>1 DEF Kept
<1>4. n + 1 \in Kept(n + 1) => Kept(n + 1) = Kept(n) \cup {n + 1}
  BY <1>1 DEF Kept
<1>5. n + 1 \notin Kept(n) /\ IsFiniteSet(Kept(n))
  BY KeptFinite
<1>6. Cardinality(Kept(n) \cup {n + 1}) = Cardinality(Kept(n)) + 1
  BY <1>5, FS_AddElement
<1> QED BY <1>2, <1>3, <1>4, <1>6

\* Within the limit the rows selected are the rows kept; once it is reached no row
\* after that is selected.
LEMMA WithinLimit ==
  ASSUME TypeOK, NEW n \in Nat, opts.maxRows = 0 \/ Cardinality(Kept(n)) <= opts.maxRows
  PROVE  Selected(n) = Kept(n)
<1>1. ASSUME NEW r \in Kept(n) PROVE opts.maxRows = 0 \/ Cardinality(Kept(r)) <= opts.maxRows
  <2>1. r \in 0 .. n /\ r \in Nat
    BY KeptFinite
  <2>2. /\ Cardinality(Kept(r)) \in Nat /\ Cardinality(Kept(n)) \in Nat
        /\ Cardinality(Kept(r)) <= Cardinality(Kept(n))
    BY <2>1, KeptFinite
  <2>3. opts.maxRows \in Nat
    BY DEF TypeOK, AnyOptions
  <2> QED BY <2>2, <2>3
<1> QED BY <1>1 DEF Selected

LEMMA LimitReached ==
  ASSUME TypeOK, NEW n \in Nat, opts.maxRows # 0, Cardinality(Kept(n)) = opts.maxRows
  PROVE  /\ \A r \in Nat : n < r => r \notin Selected(r)
         /\ \A m \in Nat : n <= m => Selected(m) = Kept(n)
<1>0. opts.maxRows \in Nat
  BY DEF TypeOK, AnyOptions
<1>1. ASSUME NEW r \in Nat, n < r, r \in Kept(r) PROVE ~(Cardinality(Kept(r)) <= opts.maxRows)
  <2>1. Cardinality(Kept(n)) + 1 <= Cardinality(Kept(r)) /\ Cardinality(Kept(r)) \in Nat
    BY <1>1, KeptCounts, KeptFinite
  <2> QED BY <1>0, <2>1
<1>2. \A r \in Nat : n < r => r \notin Selected(r)
  BY <1>1 DEF Selected
<1>3. ASSUME NEW m \in Nat, n <= m PROVE Selected(m) = Kept(n)
  <2>1. Selected(n) = Kept(n)
    <3>1. Cardinality(Kept(n)) <= opts.maxRows
      BY <1>0
    <3> QED BY <3>1, WithinLimit
  <2>2. Kept(n) \subseteq Kept(m) /\ Kept(m) \subseteq 1 .. m /\ n \in 0 .. m
    BY <1>3, KeptFinite
  <2>3. ASSUME NEW r \in Selected(m) PROVE r \in Kept(n)
    <3>1. r \in Kept(m) /\ r \in Nat /\ Cardinality(Kept(r)) <= opts.maxRows
      BY <2>2 DEF Selected
    <3>2. r \in Kept(r)
      BY <3>1, <2>2 DEF Kept
    <3>3. ~(n < r)
      BY <1>1, <3>1, <3>2
    <3>4. r \in 1 .. n
      BY <3>1, <3>3, <2>2
    <3> QED BY <3>1, <3>4 DEF Kept
  <2>4. ASSUME NEW r \in Kept(n) PROVE r \in Selected(m)
    <3>1. r \in Selected(n)
      BY <2>1
    <3> QED BY <3>1, <2>2 DEF Selected
  <2> QED BY <2>3, <2>4
<1> QED BY <1>2, <1>3

\* The lines only grow, and by nothing over rows that are not selected.
LEMMA LinesGrow ==
  ASSUME TypeOK, NEW m \in 0 .. Len(report)
  PROVE  /\ Lines[m] \in Seq(Pieces)
         /\ \E rest \in Seq(Pieces) : Lines[Len(report)] = Lines[m] \o rest
         /\ (\A r \in Nat : m < r => r \notin Selected(r)) => Lines[Len(report)] = Lines[m]
<1> DEFINE L == Len(report)
           more(n) == IF n \in Selected(n) THEN RowLines(opts.format, n) ELSE <<>>
<1>1. L \in Nat /\ m \in Nat /\ L - m \in Nat /\ m + (L - m) = L
  BY ReportShape
<1>2. \A n \in Nat : more(n) \in Seq(Pieces)
  <2>1. \A n \in Nat : RowLines(opts.format, n) \in Seq(Pieces)
    BY LinesOfPieces
  <2>2. <<>> \in Seq(Pieces)
    OBVIOUS
  <2> QED BY <2>1, <2>2
<1>3. /\ \A n \in 0 .. L : Lines[n] \in Seq(Pieces)
      /\ \A n \in 1 .. L : Lines[n] = Lines[n - 1] \o more(n)
  BY LinesRecursion
<1> HIDE DEF more
<1> DEFINE Grown(k) == \E rest \in Seq(Pieces) : Lines[m + k] = Lines[m] \o rest
           S == {k \in 0 .. L - m : Grown(k)}
<1>4. 0 \in S
  <2>1. <<>> \in Seq(Pieces) /\ Lines[m + 0] = Lines[m] \o <<>>
    BY <1>1, <1>3
  <2>2. Grown(0)
    BY <2>1
  <2> QED BY <1>1, <2>2
<1>5. ASSUME NEW k \in 0 .. (L - m) - 1, k \in S PROVE k + 1 \in S
  <2>1. PICK rest \in Seq(Pieces) : Lines[m + k] = Lines[m] \o rest
    BY <1>5
  <2>2. m + (k + 1) \in 1 .. L /\ (m + (k + 1)) - 1 = m + k /\ k + 1 \in 0 .. L - m
    BY <1>1
  <2>3. Lines[m + (k + 1)] = (Lines[m] \o rest) \o more(m + (k + 1))
    BY <1>3, <2>1, <2>2
  <2>4. more(m + (k + 1)) \in Seq(Pieces) /\ Lines[m] \in Seq(Pieces)
    BY <1>1, <1>2, <1>3, <2>2
  <2>5. rest \o more(m + (k + 1)) \in Seq(Pieces)
    BY <2>4
  <2>6. Lines[m + (k + 1)] = Lines[m] \o (rest \o more(m + (k + 1)))
    BY <2>3, <2>4, Associative
  <2>7. Grown(k + 1)
    BY <2>5, <2>6
  <2> QED BY <2>2, <2>7
<1>6. 0 .. L - m \subseteq S
  <2> HIDE DEF S
  <2> QED BY <1>1, <1>4, <1>5, UpTo
<1>7. Grown(L - m)
  <2>1. L - m \in S
    <3>1. L - m \in 0 .. L - m
      BY <1>1
    <3> HIDE DEF S
    <3> QED BY <1>6, <3>1
  <2> QED BY <2>1
<1>8. ASSUME \A r \in Nat : m < r => r \notin Selected(r) PROVE Lines[L] = Lines[m]
  <2> DEFINE T == {k \in 0 .. L - m : Lines[m + k] = Lines[m]}
  <2>1. 0 \in T
    BY <1>1
  <2>2. ASSUME NEW k \in 0 .. (L - m) - 1, k \in T PROVE k + 1 \in T
    <3>1. m + (k + 1) \in 1 .. L /\ (m + (k + 1)) - 1 = m + k /\ k + 1 \in 0 .. L - m
      BY <1>1
    <3>2. more(m + (k + 1)) = <<>>
      BY <1>1, <1>8 DEF more
    <3>3. Lines[m + (k + 1)] = Lines[m] \o <<>>
      BY <1>3, <2>2, <3>1, <3>2
    <3>4. Lines[m] \o <<>> = Lines[m]
      BY <1>3
    <3> QED BY <3>1, <3>3, <3>4
  <2>3. 0 .. L - m \subseteq T
    <3> HIDE DEF T
    <3> QED BY <1>1, <2>1, <2>2, UpTo
  <2>4. L - m \in T
    <3>1. L - m \in 0 .. L - m
      BY <1>1
    <3> HIDE DEF T
    <3> QED BY <2>3, <3>1
  <2> QED BY <1>1, <2>4
<1> QED BY <1>1, <1>3, <1>7, <1>8

-----------------------------------------------------------------------------
(***************************************************************************)
(* The document, and what is said of it alone.                             *)
(***************************************************************************)
LEMMA DocumentOfPieces ==
  ASSUME TypeOK
  PROVE  Document \in Seq(Pieces)
<1>1. /\ OpenLines(opts.format) \in Seq(Pieces) /\ CloseLines(opts.format) \in Seq(Pieces)
      /\ \A n \in Nat : SummaryLine(n) \in Seq(Pieces)
  BY LinesOfPieces
<1>2. Len(report) \in 0 .. Len(report)
  BY ReportShape
<1>3. Lines[Len(report)] \in Seq(Pieces) /\ Cells[Len(report)] \in Nat
  BY <1>2, LinesRecursion, CellsRecursion
<1> QED BY <1>1, <1>3, Concatenation DEF Document

\* What holds of the document in every state holds in the next one.
LEMMA DocumentStarts ==
  TypeOK => Document \in Seq(Pieces) /\ Lines[0] = <<>> /\ Cells[0] = 0
  BY DocumentOfPieces, LinesRecursion, CellsRecursion

LEMMA NextDocumentStarts ==
  TypeOK' => Document' \in Seq(Pieces) /\ Lines'[0] = <<>> /\ Cells'[0] = 0
<1>1. (TypeOK => Document \in Seq(Pieces) /\ Lines[0] = <<>> /\ Cells[0] = 0)'
  BY DocumentStarts, PTL
<1> QED BY <1>1

LEMMA DocumentStays ==
  ASSUME UNCHANGED <<report, opts>>
  PROVE  /\ Lines' = Lines /\ Cells' = Cells /\ Document' = Document
         /\ Selected(Len(report))' = Selected(Len(report))
<1>1. Lines' = Lines
  BY DEF Lines, Selected, Kept, RowLines, Line
<1>2. Cells' = Cells
  BY Zenon DEF Cells
<1>3. Document' = Document
  BY <1>1, <1>2 DEF Document
<1>4. Selected(Len(report))' = Selected(Len(report))
  BY DEF Selected, Kept
<1> QED BY <1>1, <1>2, <1>3, <1>4

LEMMA CountsStay ==
  ASSUME UNCHANGED <<report, opts, written>>, RowsCounted
  PROVE  RowsCounted'
  BY DocumentStays DEF RowsCounted

\* Before a refusal what has been produced is the document from its start.
LEMMA SentIsPrefix ==
  ASSUME Inv, phase # "idle", ~err
  PROVE  Sent \in Seq(Pieces) /\ \E rest \in Seq(Pieces) : Document = Sent \o rest
<1>0. TypeOK
  BY DEF Inv
<1>1. Sent \in Seq(Pieces)
  BY <1>0, Concatenation DEF Sent, TypeOK
<1>2. /\ OpenLines(opts.format) \in Seq(Pieces) /\ CloseLines(opts.format) \in Seq(Pieces)
  BY LinesOfPieces
<1>3. cursor \in 0 .. Len(report) /\ Len(report) \in 0 .. Len(report)
  BY <1>0, ReportShape DEF TypeOK
<1>4. Lines[cursor] \in Seq(Pieces) /\ Lines[Len(report)] \in Seq(Pieces)
  BY <1>0, <1>3, LinesRecursion
<1>5. CASE phase = "drain"
  <2>1. Sent = <<>>
    BY <1>5, Concatenation DEF Inv, Draining, Sent
  <2> QED BY <1>0, <1>1, <2>1, DocumentOfPieces, Concatenation
<1>6. CASE phase = "rows"
  <2>1. opts.format # "summary" /\ Sent = OpenLines(opts.format) \o Lines[cursor]
    BY <1>6 DEF Inv, InRows
  <2>2. PICK more \in Seq(Pieces) : Lines[Len(report)] = Lines[cursor] \o more
    BY <1>0, <1>3, LinesGrow
  <2>3. Document = (OpenLines(opts.format) \o (Lines[cursor] \o more)) \o CloseLines(opts.format)
    BY <2>1, <2>2 DEF Document
  <2>4. OpenLines(opts.format) \o (Lines[cursor] \o more) = Sent \o more
    BY <1>2, <1>4, <2>1, Associative
  <2>5. Document = Sent \o (more \o CloseLines(opts.format))
    BY <1>1, <1>2, <2>3, <2>4, Associative
  <2> QED BY <1>1, <1>2, <2>5, Concatenation
<1>7. CASE phase = "close"
  <2>1. opts.format # "summary" /\ Sent = OpenLines(opts.format) \o Lines[Len(report)]
    BY <1>7 DEF Inv, Closing
  <2>2. Document = Sent \o CloseLines(opts.format)
    BY <2>1 DEF Document
  <2> QED BY <1>1, <1>2, <2>2
<1>8. CASE phase = "flush"
  <2>1. Document = Sent \o <<>>
    BY <1>1, <1>8, Concatenation DEF Inv, Flushing
  <2> QED BY <1>1, <2>1, Concatenation
<1> QED BY <1>0, <1>5, <1>6, <1>7, <1>8 DEF TypeOK

-----------------------------------------------------------------------------
(***************************************************************************)
(* The steps.                                                              *)
(***************************************************************************)
LEMMA InitInv == Init => Inv
<1> SUFFICES ASSUME Init PROVE Inv
  OBVIOUS
<1>1. /\ report \in Reports /\ status = "ok" /\ phase = "idle" /\ opts = NoOptions
      /\ cursor = 0 /\ todo = <<>> /\ buf = <<>> /\ err = FALSE /\ accepted = <<>>
      /\ written = 0 /\ emits = 0
  BY DEF Init
<1>2. Len(report) \in Nat
  <2>1. PICK n \in 0 .. MaxReport : report \in [1 .. n -> RowShapes]
    BY <1>1 DEF Reports
  <2>2. n \in Nat
    BY <2>1, SizeAssumption
  <2> QED BY <2>1, <2>2
<1>3. TypeOK
  <2>1. opts \in AnyOptions
    BY <1>1 DEF NoOptions, AnyOptions, Formats
  <2>2. 0 \in 0 .. Len(report)
    BY <1>2
  <2> QED BY <1>1, <2>1, <2>2, Concatenation DEF TypeOK
<1>4. Room
  BY <1>1, SizeAssumption DEF Room
<1>5. RefusalEnds /\ Draining /\ InRows /\ Closing /\ Flushing /\ OkIsComplete
  BY <1>1 DEF RefusalEnds, Draining, InRows, Closing, Flushing, OkIsComplete
<1>6. Prefix
  BY <1>1, <1>3, DocumentOfPieces, Concatenation DEF Prefix
<1> QED BY <1>3, <1>4, <1>5, <1>6 DEF Inv

\* A step between two calls that starts none.
LEMMA IdleKeeps ==
  ASSUME Inv, phase = "idle", UNCHANGED <<report, phase, opts, cursor, todo, writer, written>>,
         status' \in {"ok", "invalid", "io"}, status' = "ok" => status = "ok",
         emits' \in Nat, status' = "ok" => emits' = emits
  PROVE  Inv'
<1>1. UNCHANGED <<buf, err, accepted>>
  BY DEF writer
<1>2. TypeOK'
  BY <1>1 DEF Inv, TypeOK
<1>3. Room' /\ RefusalEnds'
  BY <1>1 DEF Inv, Room, RefusalEnds
<1>4. Draining' /\ InRows' /\ Closing' /\ Flushing'
  BY DEF Draining, InRows, Closing, Flushing
<1>5. Prefix'
  BY <1>1, DocumentStays DEF Inv, Prefix
<1>6. OkIsComplete'
  BY <1>1, DocumentStays DEF Inv, OkIsComplete
<1> QED BY <1>2, <1>3, <1>4, <1>5, <1>6 DEF Inv

LEMMA BeginKeeps == ASSUME Inv, NEW o \in Options, Begin(o) PROVE Inv'
<1>1. /\ report' = report /\ status' = status /\ status = "ok"
      /\ opts' = o /\ cursor' = 0 /\ written' = 0
      /\ buf' = <<>> /\ err' = FALSE /\ accepted' = <<>>
      /\ phase' = (IF o.format = "summary" THEN "drain" ELSE "rows")
      /\ counted' = (IF o.format = "summary" THEN 0 ELSE counted)
      /\ todo' = OpenLines(o.format)
      /\ emits' = emits + 1
  BY DEF Begin, host
<1>2. o \in AnyOptions
  <2>1. o.maxRows \in Nat
    BY SizeAssumption DEF Options
  <2> QED BY <2>1 DEF Options, AnyOptions
<1>3. TypeOK'
  <2>1. Len(report) \in Nat
    BY ReportShape DEF Inv
  <2>2. 0 \in 0 .. Len(report)
    BY <2>1
  <2>3. OpenLines(o.format) \in Seq(Pieces)
    BY LinesOfPieces
  <2>4. emits' \in Nat
    BY <1>1 DEF Inv, TypeOK
  <2> QED BY <1>1, <1>2, <2>2, <2>3, <2>4, Concatenation DEF Inv, TypeOK
<1>4. Room' /\ RefusalEnds'
  BY <1>1, SizeAssumption DEF Room, RefusalEnds
<1>5. Draining'
  <2>1. Cells'[0] = 0
    BY <1>3, NextDocumentStarts
  <2> QED BY <1>1, <2>1 DEF Draining, OpenLines
<1>6. InRows'
  <2>1. Lines'[0] = <<>>
    BY <1>3, NextDocumentStarts
  <2>2. Sent' = (<<>> \o <<>>) \o OpenLines(o.format)
    BY <1>1 DEF Sent
  <2>3. OpenLines(o.format) \in Seq(Pieces)
    BY LinesOfPieces
  <2>4. Sent' = OpenLines(o.format) \o Lines'[0]
    BY <2>1, <2>2, <2>3, Concatenation
  <2>5. Cardinality(Kept(cursor)') = 0
    <3>1. Kept(cursor)' = {}
      BY <1>1 DEF Kept
    <3> QED BY <3>1, FS_EmptySet
  <2>6. o.format # "summary" => opts'.format = o.format
    BY <1>1
  <2>7. opts'.maxRows \in Nat
    BY <1>1, <1>2 DEF AnyOptions
  <2> QED BY <1>1, <2>4, <2>5, <2>6, <2>7 DEF InRows
<1>7. Closing' /\ Flushing' /\ OkIsComplete'
  BY <1>1 DEF Closing, Flushing, OkIsComplete
<1>8. Prefix'
  <2>1. Document' \in Seq(Pieces)
    BY <1>3, NextDocumentStarts
  <2> QED BY <1>1, <2>1, Concatenation DEF Prefix
<1> QED BY <1>3, <1>4, <1>5, <1>6, <1>7, <1>8 DEF Inv

\* What every writing step has in common: the row it writes stays the row it writes,
\* and unless the sink refuses nothing is lost between sink, buffer and line.
LEMMA WritingKeeps ==
  ASSUME Inv, UNCHANGED <<report, status, phase, opts, cursor, written, emits>>,
         phase \notin {"idle", "drain"},
         TypeOK', Room', Prefix', ~err' => ~err /\ Sent' = Sent
  PROVE  Inv'
<1>1. RefusalEnds' /\ Draining' /\ OkIsComplete'
  BY DEF RefusalEnds, Draining, OkIsComplete
<1>2. InRows'
  <2>1. Kept(cursor)' = Kept(cursor)
    BY DEF Kept
  <2> QED BY <2>1, DocumentStays DEF Inv, InRows
<1>3. Closing'
  BY DocumentStays DEF Inv, Closing
<1>4. Flushing'
  BY DocumentStays, CountsStay DEF Inv, Flushing
<1> QED BY <1>1, <1>2, <1>3, <1>4 DEF Inv

\* The next piece of a line goes to the end of what is ahead of it.
HeadMoved(a, b, t) ==
  /\ Append(b, Head(t)) \in Seq(Pieces) /\ Tail(t) \in Seq(Pieces)
  /\ (a \o Append(b, Head(t))) \o Tail(t) = (a \o b) \o t

LEMMA HeadMoves ==
  ASSUME NEW a \in Seq(Pieces), NEW b \in Seq(Pieces), NEW t \in Seq(Pieces), t # <<>>
  PROVE  HeadMoved(a, b, t)
<1>1. Head(t) \in Pieces /\ Tail(t) \in Seq(Pieces) /\ t = <<Head(t)>> \o Tail(t)
  BY HeadTailProperties
<1>2. <<Head(t)>> \in Seq(Pieces) /\ Append(b, Head(t)) = b \o <<Head(t)>>
  BY <1>1, AppendIsConcat
<1>3. Append(b, Head(t)) \in Seq(Pieces)
  BY <1>1
<1> DEFINE h == <<Head(t)>>
           r == Tail(t)
<1>4. h \in Seq(Pieces) /\ r \in Seq(Pieces) /\ t = h \o r /\ Append(b, Head(t)) = b \o h
  BY <1>1, <1>2
<1> HIDE DEF h, r
<1>5. (a \o (b \o h)) \o r = ((a \o b) \o h) \o r
  BY <1>4, Associative
<1>6. ((a \o b) \o h) \o r = (a \o b) \o (h \o r)
  <2>1. a \o b \in Seq(Pieces)
    BY Concatenation
  <2> QED BY <1>4, <2>1, Associative, Zenon
<1>7. (a \o Append(b, Head(t))) \o r = (a \o b) \o t
  BY <1>4, <1>5, <1>6
<1> QED BY <1>1, <1>3, <1>7 DEF r, HeadMoved

LEMMA WriteKeeps == Inv /\ Write => Inv'
<1> SUFFICES ASSUME Inv, Write PROVE Inv'
  OBVIOUS
<1> DEFINE b == Append(buf, Head(todo))
<1>1. /\ UNCHANGED <<report, status, phase, opts, cursor, written, emits>>
      /\ todo # <<>> /\ ~err /\ todo' = Tail(todo)
  BY DEF Write
<1>2. \/ Len(b) < BufCap /\ buf' = b /\ err' = err /\ accepted' = accepted
      \/ err' = FALSE /\ accepted' = accepted \o b /\ buf' = <<>>
      \/ err' = TRUE /\ accepted' = accepted /\ buf' = <<>>
  BY DEF Write, FlushOf
<1>3. /\ accepted \in Seq(Pieces) /\ buf \in Seq(Pieces) /\ todo \in Seq(Pieces)
      /\ err \in BOOLEAN
  BY DEF Inv, TypeOK
<1>4. /\ b \in Seq(Pieces) /\ Tail(todo) \in Seq(Pieces)
      /\ (accepted \o b) \o Tail(todo) = Sent
  <2>1. /\ b \in Seq(Pieces) /\ Tail(todo) \in Seq(Pieces)
        /\ (accepted \o b) \o Tail(todo) = (accepted \o buf) \o todo
    <3>1. HeadMoved(accepted, buf, todo)
      BY <1>1, <1>3, HeadMoves
    <3> QED BY <3>1 DEF HeadMoved
  <2> QED BY <2>1 DEF Sent
<1> HIDE DEF b
<1>5. phase \notin {"idle", "drain"}
  BY <1>1 DEF Inv, Room, Draining
<1>6. accepted' \in Seq(Pieces) /\ buf' \in Seq(Pieces) /\ todo' \in Seq(Pieces) /\ err' \in BOOLEAN
  BY <1>1, <1>2, <1>3, <1>4, Concatenation
<1>7. TypeOK'
  BY <1>1, <1>6 DEF Inv, TypeOK
<1>8. Room'
  <2>1. Len(buf') < BufCap
    BY <1>2, SizeAssumption
  <2>2. err' => buf' = <<>>
    BY <1>1, <1>2
  <2> QED BY <1>1, <1>5, <2>1, <2>2 DEF Room
<1>9. ~err' => Sent' = Sent
  <2>1. CASE buf' = b /\ accepted' = accepted
    BY <1>1, <1>4, <2>1 DEF Sent
  <2>2. CASE accepted' = accepted \o b /\ buf' = <<>>
    <3>1. accepted' \o buf' = accepted \o b
      BY <1>3, <1>4, <2>2, Concatenation
    <3> QED BY <1>1, <1>4, <3>1 DEF Sent
  <2> QED BY <1>2, <2>1, <2>2
<1>10. Prefix'
  <2>1. Document' = Document
    BY <1>1, DocumentStays
  <2>2. CASE accepted' = accepted
    BY <2>1, <2>2 DEF Inv, Prefix
  <2>3. CASE accepted' = accepted \o b
    <3>1. PICK rest \in Seq(Pieces) : Document = Sent \o rest
      BY <1>1, <1>5, SentIsPrefix
    <3>2. Document = (accepted' \o Tail(todo)) \o rest
      BY <1>4, <2>3, <3>1
    <3>3. Document = accepted' \o (Tail(todo) \o rest)
      <4>1. (accepted' \o Tail(todo)) \o rest = accepted' \o (Tail(todo) \o rest)
        <5>1. PICK t : t = Tail(todo)
          OBVIOUS
        <5>2. (accepted' \o t) \o rest = accepted' \o (t \o rest)
          BY <1>4, <1>6, <5>1, Associative
        <5> QED BY <5>1, <5>2
      <4> QED BY <3>2, <4>1
    <3> QED BY <1>4, <2>1, <3>3, Concatenation DEF Prefix
  <2> QED BY <1>2, <2>2, <2>3
<1> QED BY <1>1, <1>5, <1>7, <1>8, <1>9, <1>10, WritingKeeps

LEMMA DropLineKeeps == Inv /\ DropLine => Inv'
<1> SUFFICES ASSUME Inv, DropLine PROVE Inv'
  OBVIOUS
<1>1. /\ UNCHANGED <<report, status, phase, opts, cursor, written, emits, buf, err, accepted>>
      /\ todo # <<>> /\ err /\ todo' = <<>>
  BY DEF DropLine, writer, host
<1>2. phase \notin {"idle", "drain"}
  BY <1>1 DEF Inv, Room, Draining
<1>3. TypeOK'
  BY <1>1, Concatenation DEF Inv, TypeOK
<1>4. Room'
  BY <1>1, <1>2 DEF Inv, Room
<1>5. Prefix'
  BY <1>1, DocumentStays DEF Inv, Prefix
<1>6. ~err' => ~err /\ Sent' = Sent
  BY <1>1
<1> QED BY <1>1, <1>2, <1>3, <1>4, <1>5, <1>6, WritingKeeps

\* A step of the loops leaves what has been written alone.
LEMMA LoopKeeps ==
  ASSUME Inv, UNCHANGED <<report, status, opts, buf, err, accepted, emits>>,
         phase \notin {"idle", "drain"}, phase' \in {"rows", "close", "flush"}, TypeOK',
         InRows', Closing', Flushing'
  PROVE  Inv'
<1>1. Room' /\ RefusalEnds'
  BY DEF Inv, Room, RefusalEnds
<1>2. Draining' /\ OkIsComplete'
  BY DEF Draining, OkIsComplete
<1>3. Prefix'
  BY DocumentStays DEF Inv, Prefix
<1> QED BY <1>1, <1>2, <1>3 DEF Inv

LEMMA EmitRowKeeps == Inv /\ EmitRow => Inv'
<1> SUFFICES ASSUME Inv, EmitRow PROVE Inv'
  OBVIOUS
<1>1. /\ UNCHANGED <<report, status, opts, buf, err, accepted, emits>>
      /\ phase = "rows" /\ todo = <<>> /\ ~err /\ cursor < Len(report)
      /\ cursor' = cursor + 1
  BY DEF EmitRow, Between, writer, host
<1>2. TypeOK
  BY DEF Inv
<1>3. /\ Len(report) \in Nat /\ cursor \in Nat /\ cursor + 1 \in 1 .. Len(report)
      /\ (cursor + 1) - 1 = cursor /\ cursor \in 0 .. Len(report)
      /\ cursor + 1 \in 0 .. Len(report)
  BY <1>1, <1>2, ReportShape DEF TypeOK
<1>4. /\ opts.format # "summary" /\ Sent = OpenLines(opts.format) \o Lines[cursor]
      /\ written = Cardinality(Kept(cursor)) /\ (opts.maxRows # 0 => written <= opts.maxRows)
  BY <1>1 DEF Inv, InRows
<1>5. opts.maxRows \in Nat /\ written \in Nat
  BY <1>2 DEF TypeOK, AnyOptions
<1> DEFINE r == cursor + 1
           line == RowLines(opts.format, r)
<1>6. Lines[r] = Lines[cursor] \o (IF r \in Selected(r) THEN line ELSE <<>>)
  BY <1>2, <1>3, LinesRecursion
<1>7. /\ Lines[cursor] \in Seq(Pieces) /\ line \in Seq(Pieces) /\ Sent \in Seq(Pieces)
      /\ OpenLines(opts.format) \in Seq(Pieces)
  <2>1. line \in Seq(Pieces)
    <3>1. \A n \in Nat : RowLines(opts.format, n) \in Seq(Pieces)
      BY LinesOfPieces
    <3>2. r \in Nat
      BY <1>3
    <3> QED BY <3>1, <3>2
  <2>2. Lines[cursor] \in Seq(Pieces)
    BY <1>2, <1>3, LinesRecursion
  <2>3. Sent \in Seq(Pieces)
    BY <1>2, Concatenation DEF Sent, TypeOK
  <2> QED BY <2>1, <2>2, <2>3, LinesOfPieces
<1>8. Kept(cursor)' = Kept(r)
  BY <1>1 DEF Kept
<1>9. r \in Kept(r) <=> ~Skips
  BY <1>1, <1>3, KeptNext DEF Skips, Row
<1> HIDE DEF r, line
<1>10. CASE Skips
  <2>1. UNCHANGED <<phase, todo, written>>
    BY <1>10 DEF EmitRow
  <2>2. TypeOK'
    BY <1>1, <1>2, <1>3, <2>1 DEF TypeOK
  <2>3. r \notin Selected(r) /\ Kept(r) = Kept(cursor)
    BY <1>3, <1>9, <1>10, KeptNext DEF Selected, r
  <2>4. Lines[r] = Lines[cursor]
    BY <1>6, <1>7, <2>3, Concatenation
  <2>5. Sent' = Sent
    BY <1>1, <2>1 DEF Sent
  <2>6. InRows'
    BY <1>1, <1>4, <1>8, <2>1, <2>3, <2>4, <2>5, DocumentStays DEF InRows, r
  <2>7. Closing' /\ Flushing'
    BY <1>1, <2>1 DEF Closing, Flushing
  <2> QED BY <1>1, <2>1, <2>2, <2>6, <2>7, LoopKeeps
<1>11. CASE ~Skips /\ AtLimit
  <2>1. phase' = "close" /\ UNCHANGED <<todo, written>>
    BY <1>11 DEF EmitRow
  <2>2. TypeOK'
    BY <1>1, <1>2, <1>3, <2>1 DEF TypeOK
  <2>3. opts.maxRows # 0 /\ Cardinality(Kept(cursor)) = opts.maxRows
    BY <1>4, <1>5, <1>11 DEF AtLimit
  <2>4. /\ \A n \in Nat : cursor < n => n \notin Selected(n)
        /\ Selected(Len(report)) = Kept(cursor)
    BY <1>1, <1>2, <1>3, <2>3, LimitReached
  <2>5. Lines[Len(report)] = Lines[cursor]
    BY <1>2, <1>3, <2>4, LinesGrow
  <2>6. Sent' = Sent
    BY <1>1, <2>1 DEF Sent
  <2>7. Closing'
    BY <1>1, <1>4, <2>1, <2>4, <2>5, <2>6, DocumentStays DEF Closing
  <2>8. InRows' /\ Flushing'
    BY <2>1 DEF InRows, Flushing
  <2> QED BY <1>1, <2>1, <2>2, <2>7, <2>8, LoopKeeps
<1>12. CASE ~Skips /\ ~AtLimit
  <2>1. phase' = phase /\ todo' = line /\ written' = written + 1
    BY <1>12 DEF EmitRow, r, line
  <2>2. TypeOK'
    BY <1>1, <1>2, <1>3, <1>5, <1>7, <2>1 DEF TypeOK
  <2>3. r \in Kept(r) /\ Cardinality(Kept(r)) = written + 1
    BY <1>3, <1>4, <1>9, <1>12, KeptNext DEF r
  <2>4. opts.maxRows # 0 => written + 1 <= opts.maxRows
    BY <1>5, <1>12 DEF AtLimit
  <2>5. r \in Selected(r)
    BY <2>3, <2>4 DEF Selected
  <2>6. Sent = accepted \o buf
    <3>1. accepted \o buf \in Seq(Pieces)
      BY <1>2, Concatenation DEF TypeOK
    <3> QED BY <1>1, <3>1, Concatenation DEF Sent
  <2>7. Sent' = Sent \o line
    BY <1>1, <2>1, <2>6 DEF Sent
  <2>8. Sent' = OpenLines(opts.format) \o Lines[r]
    <3>1. Sent' = (OpenLines(opts.format) \o Lines[cursor]) \o line
      BY <1>4, <2>7
    <3>2. Lines[r] = Lines[cursor] \o line
      BY <1>6, <2>5
    <3>3. (OpenLines(opts.format) \o Lines[cursor]) \o line
            = OpenLines(opts.format) \o (Lines[cursor] \o line)
      BY <1>7, Associative
    <3> QED BY <3>1, <3>2, <3>3
  <2>9. InRows'
    BY <1>1, <1>4, <1>8, <2>1, <2>3, <2>4, <2>8, DocumentStays DEF InRows, r
  <2>10. Closing' /\ Flushing'
    BY <1>1, <2>1 DEF Closing, Flushing
  <2> QED BY <1>1, <2>1, <2>2, <2>9, <2>10, LoopKeeps
<1> QED BY <1>10, <1>11, <1>12

LEMMA EndRowsKeeps == Inv /\ EndRows => Inv'
<1> SUFFICES ASSUME Inv, EndRows PROVE Inv'
  OBVIOUS
<1>1. /\ UNCHANGED <<report, status, opts, cursor, todo, buf, err, accepted, written, emits>>
      /\ phase = "rows" /\ phase' = "close" /\ (err \/ cursor = Len(report))
  BY DEF EndRows, writer, host
<1>2. TypeOK /\ TypeOK'
  BY <1>1 DEF Inv, TypeOK
<1>3. Closing'
  <2>1. opts.format # "summary"
    BY <1>1 DEF Inv, InRows
  <2>2. ASSUME ~err
        PROVE  /\ Sent = OpenLines(opts.format) \o Lines[Len(report)]
               /\ written = Cardinality(Selected(Len(report)))
    <3>1. /\ cursor = Len(report) /\ Len(report) \in Nat
          /\ Sent = OpenLines(opts.format) \o Lines[cursor]
          /\ written = Cardinality(Kept(cursor)) /\ (opts.maxRows # 0 => written <= opts.maxRows)
      BY <1>1, <1>2, <2>2, ReportShape DEF Inv, InRows
    <3>2. Selected(cursor) = Kept(cursor)
      BY <1>2, <3>1, WithinLimit
    <3> QED BY <3>1, <3>2
  <2>3. Sent' = Sent
    BY <1>1 DEF Sent
  <2> QED BY <1>1, <2>1, <2>2, <2>3, DocumentStays DEF Closing
<1>4. InRows' /\ Flushing'
  BY <1>1 DEF InRows, Flushing
<1> QED BY <1>1, <1>2, <1>3, <1>4, LoopKeeps

LEMMA CloseKeeps == Inv /\ Close => Inv'
<1> SUFFICES ASSUME Inv, Close PROVE Inv'
  OBVIOUS
<1>1. /\ UNCHANGED <<report, status, opts, cursor, buf, err, accepted, written, emits>>
      /\ phase = "close" /\ phase' = "flush" /\ todo = <<>>
      /\ todo' = CloseLines(opts.format)
  BY DEF Close, Between, writer, host
<1>2. TypeOK
  BY DEF Inv
<1>3. CloseLines(opts.format) \in Seq(Pieces)
  BY LinesOfPieces
<1>4. TypeOK'
  BY <1>1, <1>2, <1>3 DEF TypeOK
<1>5. Flushing'
  <2>1. ASSUME ~err PROVE Sent' = Document /\ RowsCounted
    <3>1. /\ opts.format # "summary"
          /\ Sent = OpenLines(opts.format) \o Lines[Len(report)]
          /\ written = Cardinality(Selected(Len(report)))
      BY <1>1, <2>1 DEF Inv, Closing
    <3>2. Sent = accepted \o buf
      <4>1. accepted \o buf \in Seq(Pieces)
        BY <1>2, Concatenation DEF TypeOK
      <4> QED BY <1>1, <4>1, Concatenation DEF Sent
    <3>3. Sent' = Sent \o CloseLines(opts.format)
      BY <1>1, <3>2 DEF Sent
    <3> QED BY <3>1, <3>3 DEF Document, RowsCounted
  <2> QED BY <1>1, <2>1, DocumentStays, CountsStay DEF Flushing
<1>6. InRows' /\ Closing'
  BY <1>1 DEF InRows, Closing
<1> QED BY <1>1, <1>4, <1>5, <1>6, LoopKeeps

LEMMA DrainKeeps == Inv /\ Drain => Inv'
<1> SUFFICES ASSUME Inv, Drain PROVE Inv'
  OBVIOUS
<1>1. /\ UNCHANGED <<report, status, opts, buf, err, accepted, emits>> /\ phase = "drain"
  BY DEF Drain, writer, host
<1>2. /\ opts.format = "summary" /\ ~err /\ todo = <<>> /\ buf = <<>> /\ accepted = <<>>
      /\ counted = Cells[cursor] /\ written = cursor
  BY <1>1 DEF Inv, Draining
<1>3. TypeOK
  BY DEF Inv
<1>4. Len(report) \in Nat /\ cursor \in Nat /\ cursor <= Len(report) /\ cursor \in 0 .. Len(report)
  BY <1>3, ReportShape DEF TypeOK
<1>5. Prefix' /\ RefusalEnds' /\ InRows' /\ Closing' /\ OkIsComplete'
  <2>1. phase' \in {"drain", "flush"}
    BY <1>1 DEF Drain
  <2>2. Prefix'
    BY <1>1, DocumentStays DEF Inv, Prefix
  <2> QED BY <2>1, <2>2 DEF RefusalEnds, InRows, Closing, OkIsComplete
<1>6. CASE cursor < Len(report)
  <2>1. /\ phase' = "drain" /\ todo' = <<>> /\ cursor' = cursor + 1 /\ written' = written + 1
        /\ counted' = counted + report[cursor + 1].cells
    BY <1>1, <1>2, <1>6 DEF Drain, Row
  <2>2. cursor + 1 \in 1 .. Len(report) /\ (cursor + 1) - 1 = cursor
    BY <1>4, <1>6
  <2>3. TypeOK'
    BY <1>1, <1>2, <1>3, <2>1, <2>2, Concatenation DEF TypeOK
  <2>4. Cells[cursor + 1] = Cells[cursor] + report[cursor + 1].cells
    BY <1>3, <2>2, CellsRecursion
  <2>5. Draining'
    BY <1>1, <1>2, <2>1, <2>4, DocumentStays DEF Draining
  <2>6. Room' /\ Flushing'
    BY <1>1, <1>2, <2>1 DEF Inv, Room, Flushing
  <2> QED BY <1>5, <2>3, <2>5, <2>6 DEF Inv
<1>7. CASE ~(cursor < Len(report))
  <2>1. phase' = "flush" /\ todo' = SummaryLine(counted) /\ UNCHANGED <<cursor, written>>
    BY <1>7 DEF Drain
  <2>2. cursor = Len(report)
    BY <1>4, <1>7
  <2>3. counted \in Nat
    BY <1>2, <1>3, <1>4, CellsRecursion
  <2>4. SummaryLine(counted) \in Seq(Pieces)
    BY <2>3, LinesOfPieces
  <2>5. TypeOK'
    BY <1>1, <1>3, <2>1, <2>4 DEF TypeOK
  <2>6. Flushing'
    <3>1. Document = SummaryLine(counted)
      BY <1>2, <2>2 DEF Document
    <3>2. Sent' = (<<>> \o <<>>) \o SummaryLine(counted)
      BY <1>1, <1>2, <2>1 DEF Sent
    <3>3. Sent' = Document
      BY <2>4, <3>1, <3>2, Concatenation
    <3>4. RowsCounted
      BY <1>2, <2>2 DEF RowsCounted
    <3> QED BY <1>1, <2>1, <3>3, <3>4, DocumentStays, CountsStay DEF Flushing
  <2>7. Room' /\ Draining'
    BY <1>1, <1>2, <2>1 DEF Inv, Room, Draining
  <2> QED BY <1>5, <2>5, <2>6, <2>7 DEF Inv
<1> QED BY <1>6, <1>7

LEMMA ReturnKeeps == Inv /\ Return => Inv'
<1> SUFFICES ASSUME Inv, Return PROVE Inv'
  OBVIOUS
<1>1. /\ UNCHANGED <<report, opts, cursor, todo, written, emits>>
      /\ phase = "flush" /\ phase' = "idle" /\ todo = <<>>
      /\ status' = (IF err' THEN "io" ELSE status)
  BY DEF Return, Between
<1>2. \/ (err \/ buf = <<>>) /\ buf' = buf /\ err' = err /\ accepted' = accepted
      \/ ~err /\ err' = FALSE /\ accepted' = accepted \o buf /\ buf' = <<>>
      \/ ~err /\ err' = TRUE /\ accepted' = accepted /\ buf' = <<>>
  BY DEF Return, FlushOf, writer
<1>3. TypeOK /\ (err => buf = <<>>)
  BY DEF Inv, Room
<1>4. /\ accepted \in Seq(Pieces) /\ buf \in Seq(Pieces) /\ accepted \o buf \in Seq(Pieces)
      /\ err \in BOOLEAN
  BY <1>3, Concatenation DEF TypeOK
<1>5. Sent = accepted \o buf
  BY <1>1, <1>4, Concatenation DEF Sent
<1>6. /\ accepted' \in Seq(Pieces) /\ buf' = <<>> /\ err' \in BOOLEAN
      /\ ~err' => ~err /\ accepted' = Sent
      /\ accepted' = accepted \/ (~err /\ accepted' = Sent)
  BY <1>2, <1>3, <1>4, <1>5, Concatenation
<1>7. TypeOK'
  BY <1>1, <1>3, <1>6, Concatenation DEF TypeOK
<1>8. Room' /\ RefusalEnds'
  BY <1>1, <1>6, SizeAssumption DEF Room, RefusalEnds
<1>9. Draining' /\ InRows' /\ Closing' /\ Flushing'
  BY <1>1 DEF Draining, InRows, Closing, Flushing
<1>10. ~err' => accepted' = Document' /\ RowsCounted'
  BY <1>1, <1>6, DocumentStays, CountsStay DEF Inv, Flushing
<1>11. OkIsComplete'
  BY <1>1, <1>10 DEF OkIsComplete, RowsCounted
<1>12. Prefix'
  <2>1. CASE accepted' = accepted
    BY <1>1, <2>1, DocumentStays DEF Inv, Prefix
  <2>2. CASE ~err /\ accepted' = Sent
    BY <1>1, <2>2, SentIsPrefix, DocumentStays DEF Prefix
  <2> QED BY <1>6, <2>1, <2>2
<1> QED BY <1>7, <1>8, <1>9, <1>11, <1>12 DEF Inv

LEMMA StepKeeps == Inv /\ [Next]_vars => Inv'
<1> SUFFICES ASSUME Inv, [Next]_vars PROVE Inv'
  OBVIOUS
<1>1. CASE Pull
  BY <1>1, IdleKeeps DEF Pull, Inv, TypeOK
<1>2. CASE RefuseOptions
  <2>1. emits' \in Nat
    BY <1>2 DEF RefuseOptions, Inv, TypeOK
  <2> QED BY <1>2, <2>1, IdleKeeps DEF RefuseOptions, host
<1>3. CASE \E o \in Options : Begin(o)
  BY <1>3, BeginKeeps
<1>4. CASE Call
  BY <1>4, WriteKeeps, DropLineKeeps, EmitRowKeeps, EndRowsKeeps, CloseKeeps, DrainKeeps,
     ReturnKeeps DEF Call
<1>5. CASE UNCHANGED vars
  <2>1. UNCHANGED <<report, counted, status, phase, opts, cursor, todo, buf, err, accepted, written, emits>>
    BY <1>5 DEF vars, host, writer
  <2>2. TypeOK' /\ Room' /\ RefusalEnds'
    BY <2>1 DEF Inv, TypeOK, Room, RefusalEnds
  <2>3. Sent' = Sent /\ Kept(cursor)' = Kept(cursor)
    BY <2>1 DEF Sent, Kept
  <2>4. Draining' /\ InRows' /\ Closing'
    BY <2>1, <2>3, DocumentStays DEF Inv, Draining, InRows, Closing
  <2>5. Flushing'
    BY <2>1, <2>3, DocumentStays, CountsStay DEF Inv, Flushing
  <2>6. Prefix' /\ OkIsComplete'
    BY <2>1, DocumentStays DEF Inv, Prefix, OkIsComplete
  <2> QED BY <2>2, <2>4, <2>5, <2>6 DEF Inv
<1> QED BY <1>1, <1>2, <1>3, <1>4, <1>5 DEF Next

-----------------------------------------------------------------------------
\* The inductive invariant holds throughout.
THEOREM EmitInvariant == Spec => []Inv
  BY InitInv, StepKeeps, PTL DEF Spec

\* A sequence is a prefix of all it is continued to.
LEMMA ContinuedIsPrefix ==
  ASSUME NEW a \in Seq(Pieces), NEW b \in Seq(Pieces)
  PROVE  IsPrefix(a, a \o b)
  BY DEF IsPrefix

\* For reports, buffers and limits of any size: what the sink has taken is the
\* document from its start, and the buffer has room for the next piece.
THEOREM EmitOutputIsPrefix == Spec => []OutputIsPrefix
<1>1. Inv => OutputIsPrefix
  <2> SUFFICES ASSUME Inv PROVE OutputIsPrefix
    OBVIOUS
  <2>1. PICK rest \in Seq(Pieces) : Document = accepted \o rest
    BY DEF Inv, Prefix
  <2>2. accepted \in Seq(Pieces)
    BY DEF Inv, TypeOK
  <2>3. IsPrefix(accepted, Document)
    BY <2>1, <2>2, ContinuedIsPrefix
  <2> QED BY <2>3 DEF OutputIsPrefix, Inv, Room
<1> QED BY EmitInvariant, <1>1, PTL

\* A call that reports no failure has delivered the whole document and says how many
\* of the report's rows are in it.
THEOREM EmitOkIsComplete == Spec => []OkIsComplete
<1>1. Inv => OkIsComplete
  BY DEF Inv
<1> QED BY EmitInvariant, <1>1, PTL

\* After a refusal the sink is called no more, by this call or a later one.
THEOREM EmitRefusedIsFinal == Spec => RefusedIsFinal
<1>1. Inv /\ [Next]_vars => [err => accepted' = accepted /\ err']_vars
  <2> SUFFICES ASSUME Inv, Next, err PROVE accepted' = accepted /\ err'
    OBVIOUS
  <2>1. phase = "idle" => status # "ok"
    BY DEF Inv, RefusalEnds
  <2>2. CASE Pull \/ RefuseOptions \/ \E o \in Options : Begin(o)
    BY <2>1, <2>2 DEF Pull, RefuseOptions, Begin
  <2>3. CASE Write
    BY <2>3 DEF Write
  <2>4. CASE DropLine \/ EndRows \/ Close \/ Drain \/ EmitRow
    BY <2>4 DEF DropLine, EndRows, Close, Drain, EmitRow, writer
  <2>5. CASE Return
    BY <2>5 DEF Return, writer
  <2> QED BY <2>2, <2>3, <2>4, <2>5 DEF Next, Call
<1> QED BY EmitInvariant, <1>1, PTL DEF Spec, RefusedIsFinal

=============================================================================
