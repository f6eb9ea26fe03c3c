---------------------------- MODULE ParserProofs ----------------------------
(***************************************************************************)
(* For every file, every way of cutting it into chunks and all limits:     *)
(* Parser keeps a sound index, digests the data rows and no others, and    *)
(* never takes back a row; header detection comes to the first row that is *)
(* the column names; and what is read is the table that CsvGrammar gives   *)
(* for the bytes, up to the first error they hold.                         *)
(***************************************************************************)
EXTENDS ParserReads, Induction, SequenceTheorems, TLAPS

Flags == {"quoted", "escape", "newline"}

CellType == [off : Nat, len : Nat, flags : SUBSET Flags]

States ==
  {"FIELD_START", "UNQUOTED", "QUOTED", "QUOTE_IN_QUOTED", "AFTER_QUOTED", "AFTER_CR"}

Statuses ==
  {"ok", "misuse", "too large", "content", "unterminated",
   "columns", "ragged", "rows", "header", "mismatch"}

InputOK ==
  /\ case \in DOMAIN Cases /\ data \in Seq(STRING)
  /\ mode \in {"none", "pushed", "borrowed"} /\ finished \in BOOLEAN
  /\ call \in {"idle", "run", "finish", "settle"} /\ status \in Statuses

MachineOK ==
  /\ bom \in BOOLEAN /\ state \in States /\ flags \in SUBSET Flags
  /\ pos \in 0 .. Len(data) /\ start \in 0 .. Len(data)

IndexOK ==
  /\ cells \in Seq(CellType)
  /\ first \in Seq(Nat) /\ Len(first) >= 1
  /\ columns \in Nat /\ normalized \in Nat

SchemaOK ==
  /\ headerRows \in Nat \cup {HeaderAuto}
  /\ dataFrom \in Nat \cup {None}
  /\ digested \in SUBSET Nat

TypeOK == InputOK /\ MachineOK /\ IndexOK /\ SchemaOK

\* A call runs only while nothing has failed; nothing has been consumed before
\* the mark is decided, nor has anything arrived before the first call.
Phases ==
  /\ call # "idle" => status = "ok"
  /\ call \in {"finish", "settle"} => finished
  /\ call = "settle" => pos = Len(data)
  /\ finished => ~bom /\ call # "run"
  /\ bom => pos = 0 /\ start = 0 /\ state = "FIELD_START"
  /\ mode = "none" => data = <<>>

\* There are bytes still to be consumed, or there may be.
Open == status = "ok" /\ (~finished \/ call = "finish")

\* The open field starts after every closed one and not after the byte at hand,
\* its closing quote apart.
OpenField ==
  Open =>
    /\ start <= pos
    /\ state = "QUOTE_IN_QUOTED" => start < pos
    /\ \A i \in DOMAIN cells : start > cells[i].off + cells[i].len

CellsInOrder ==
  \A i \in DOMAIN cells :
    /\ cells[i].off + cells[i].len <= Len(data)
    /\ i > 1 => cells[i].off > cells[i - 1].off + cells[i - 1].len

RowsAreFull ==
  /\ RowFirst <= Len(cells)
  /\ \A r \in 1 .. NumRows : first[r + 1] = first[r] + columns

\* Until the schema is resolved the rows read are all of the header.
HeaderAhead == status = "ok" /\ dataFrom = None /\ headerRows # HeaderAuto => NumRows <= headerRows

Inv ==
  /\ TypeOK /\ Phases /\ OpenField /\ CellsInOrder /\ RowsAreFull
  /\ HeaderAhead /\ DigestsDataRows

-----------------------------------------------------------------------------
(***************************************************************************)
(* Sequences.                                                              *)
(***************************************************************************)
\* What a sequence is made of, at its indices.
LEMMA IndicesAndElements ==
  ASSUME NEW S, NEW s \in Seq(S)
  PROVE  /\ Len(s) \in Nat /\ DOMAIN s = 1 .. Len(s)
         /\ \A i \in 1 .. Len(s) : s[i] \in S
BY LenProperties, ElementOfSeq

\* Appending leaves every prefix as it was.
LEMMA PrefixOfAppend ==
  ASSUME NEW S, NEW s \in Seq(S), NEW e \in S, NEW n \in 0 .. Len(s)
  PROVE  SubSeq(Append(s, e), 1, n) = SubSeq(s, 1, n)
<1>1. CASE n = 0
  BY <1>1, SubSeqEmpty
<1>2. CASE n # 0
  <2>1. Append(s, e) = s \o <<e>> /\ <<e>> \in Seq(S) /\ s \in Seq(S)
    BY AppendIsConcat
  <2>2. Len(s) \in Nat /\ 1 \in 1 .. Len(s) /\ n \in 1 .. Len(s)
    BY <1>2, LenProperties
  <2>3. QED
    BY <2>1, <2>2, SubSeqOfConcat1
<1>3. QED
  BY <1>1, <1>2

\* A prefix, and a prefix of a prefix.
LEMMA Prefix ==
  ASSUME NEW S, NEW s \in Seq(S), NEW n \in 0 .. Len(s)
  PROVE  /\ SubSeq(s, 1, n) \in Seq(S)
         /\ Len(SubSeq(s, 1, n)) = n
         /\ \A i \in 1 .. n : SubSeq(s, 1, n)[i] = s[i]
         /\ \A m \in 0 .. n : SubSeq(SubSeq(s, 1, n), 1, m) = SubSeq(s, 1, m)
<1>1. Len(s) \in Nat /\ \A i \in 1 .. n : s[i] \in S
  BY IndicesAndElements
<1>2. /\ SubSeq(s, 1, n) \in Seq(S)
      /\ Len(SubSeq(s, 1, n)) = IF 1 <= n THEN n - 1 + 1 ELSE 0
      /\ \A i \in 1 .. n - 1 + 1 : SubSeq(s, 1, n)[i] = s[1 + i - 1]
  BY <1>1, SubSeqProperties
<1>3. ASSUME NEW m \in 0 .. n
      PROVE  SubSeq(SubSeq(s, 1, n), 1, m) = SubSeq(s, 1, m)
  <2>1. CASE m = 0
    BY <2>1, SubSeqEmpty
  <2>2. CASE m # 0
    <3>1. /\ 1 \in 1 .. Len(s) /\ n \in 1 .. Len(s)
          /\ 1 \in 1 .. n - 1 + 1 /\ m \in 1 .. n - 1 + 1
      BY <1>1, <2>2
    <3>2. SubSeq(SubSeq(s, 1, n), 1, m) = SubSeq(s, 1 + 1 - 1, 1 + m - 1)
      BY <3>1, SubSeqOfSubSeq
    <3>3. QED
      BY <3>2
  <2>3. QED
    BY <2>1, <2>2
<1>4. QED
  BY <1>1, <1>2, <1>3

-----------------------------------------------------------------------------
(***************************************************************************)
(* The table of states.                                                    *)
(***************************************************************************)
\* The table leads from a state to a state, and only the quote that may close a
\* quoted field leads to QUOTE_IN_QUOTED.
LEMMA GotoIsState ==
  ASSUME NEW s \in States, NEW c
  PROVE  /\ Goto(s, c) \in States
         /\ Goto(s, c) = "QUOTE_IN_QUOTED" => s = "QUOTED"
BY DEF Goto, States

\* A field that a byte closes is in a state that has one open, and ends before
\* the byte or before the quote in front of it.
LEMMA ClosedField ==
  ASSUME TypeOK, OpenField, Open, pos < Len(data), Does(Closes)
  PROVE  /\ OpenEnd \in Nat /\ start \in Nat /\ start <= OpenEnd /\ OpenEnd <= pos
         /\ Cell(start, OpenEnd - start, flags) \in CellType
         /\ Pushed = Append(cells, Cell(start, OpenEnd - start, flags))
<1>1. pos \in Nat /\ start \in Nat /\ flags \in SUBSET Flags
  BY LenProperties DEF TypeOK, InputOK, MachineOK
<1>2. start <= pos /\ (state = "QUOTE_IN_QUOTED" => start < pos)
  BY DEF OpenField
<1>3. Does(Closes1) => state = "QUOTE_IN_QUOTED"
  BY DEF Does, Closes1
<1>4. OpenEnd \in Nat /\ start <= OpenEnd /\ OpenEnd <= pos
  BY <1>1, <1>2, <1>3 DEF OpenEnd
<1>5. Cell(start, OpenEnd - start, flags) \in CellType
  BY <1>1, <1>4 DEF Cell, CellType
<1>6. QED
  BY <1>1, <1>4, <1>5 DEF Pushed

\* Fields that lie in order in the bytes up to the one at hand, the cells among
\* them.
FieldsUpTo(cs, end) ==
  /\ cs \in Seq(CellType) /\ Len(cs) >= Len(cells)
  /\ \A n \in 0 .. Len(cells) : SubSeq(cs, 1, n) = SubSeq(cells, 1, n)
  /\ \A i \in 1 .. Len(cs) :
       /\ cs[i].off + cs[i].len <= end
       /\ i > 1 => cs[i].off > cs[i - 1].off + cs[i - 1].len

\* The closed fields lie so while one is open behind them.
LEMMA CellsUpToHere ==
  ASSUME TypeOK, OpenField, CellsInOrder, Open
  PROVE  /\ FieldsUpTo(cells, pos) /\ Len(cells) \in Nat /\ pos \in Nat /\ start \in Nat
         /\ \A i \in 1 .. Len(cells) :
              /\ cells[i].off \in Nat /\ cells[i].len \in Nat
              /\ start > cells[i].off + cells[i].len
<1>1. /\ cells \in Seq(CellType) /\ Len(cells) \in Nat /\ DOMAIN cells = 1 .. Len(cells)
      /\ \A i \in 1 .. Len(cells) : cells[i] \in CellType
  BY IndicesAndElements DEF TypeOK, IndexOK
<1>2. pos \in Nat /\ start \in Nat
  BY LenProperties DEF TypeOK, InputOK, MachineOK
<1>3. /\ start <= pos
      /\ \A i \in 1 .. Len(cells) : start > cells[i].off + cells[i].len
  BY <1>1 DEF OpenField
<1>4. \A i \in 1 .. Len(cells) : cells[i].off \in Nat /\ cells[i].len \in Nat
  BY <1>1 DEF CellType
<1>5. \A i \in 1 .. Len(cells) : cells[i].off + cells[i].len <= pos
  BY <1>2, <1>3, <1>4
<1>6. \A i \in 1 .. Len(cells) : i > 1 => cells[i].off > cells[i - 1].off + cells[i - 1].len
  BY <1>1 DEF CellsInOrder
<1>7. FieldsUpTo(cells, pos)
  BY <1>1, <1>5, <1>6 DEF FieldsUpTo
<1>8. QED
  BY <1>1, <1>2, <1>3, <1>4, <1>7

\* So do they with the open one closed at their end.
LEMMA FieldAppended ==
  ASSUME TypeOK, OpenField, CellsInOrder, Open,
         NEW cell \in CellType, cell.off = start, start + cell.len <= pos
  PROVE  FieldsUpTo(Append(cells, cell), pos)
<1> DEFINE cs == Append(cells, cell)
<1>1. /\ cells \in Seq(CellType) /\ FieldsUpTo(cells, pos) /\ Len(cells) \in Nat
      /\ \A i \in 1 .. Len(cells) : start > cells[i].off + cells[i].len
  BY CellsUpToHere DEF TypeOK, IndexOK
<1>2. /\ cs \in Seq(CellType) /\ Len(cs) = Len(cells) + 1
      /\ \A i \in 1 .. Len(cells) : cs[i] = cells[i]
      /\ cs[Len(cells) + 1] = cell
  BY <1>1, AppendProperties
<1>3. \A n \in 0 .. Len(cells) : SubSeq(cs, 1, n) = SubSeq(cells, 1, n)
  BY <1>1, PrefixOfAppend
<1> HIDE DEF cs
<1>4. ASSUME NEW i \in 1 .. Len(cs)
      PROVE  /\ cs[i].off + cs[i].len <= pos
             /\ i > 1 => cs[i].off > cs[i - 1].off + cs[i - 1].len
  <2>1. CASE i = Len(cells) + 1
    <3>1. i > 1 => i - 1 \in 1 .. Len(cells) /\ cs[i - 1] = cells[i - 1]
      BY <1>1, <1>2, <2>1
    <3>2. QED
      BY <1>1, <1>2, <2>1, <3>1
  <2>2. CASE i # Len(cells) + 1
    <3>1. i \in 1 .. Len(cells) /\ cs[i] = cells[i]
      BY <1>1, <1>2, <2>2
    <3>2. i > 1 => i - 1 \in 1 .. Len(cells) /\ cs[i - 1] = cells[i - 1]
      BY <1>1, <1>2, <3>1
    <3>3. QED
      BY <1>1, <3>1, <3>2 DEF FieldsUpTo
  <2>3. QED
    BY <2>1, <2>2
<1>5. QED
  BY <1>1, <1>2, <1>3, <1>4 DEF FieldsUpTo, cs

\* The fields there are once the byte at hand has closed the open one, if it does.
LEMMA FieldsPushed ==
  ASSUME TypeOK, OpenField, CellsInOrder, Open, pos < Len(data)
  PROVE  /\ FieldsUpTo(Pushed, pos)
         /\ ~Does(Closes) => Pushed = cells
<1>1. CASE ~Does(Closes)
  BY <1>1, CellsUpToHere DEF Pushed
<1>2. CASE Does(Closes)
  <2> DEFINE cell == Cell(start, OpenEnd - start, flags)
  <2>1. /\ OpenEnd \in Nat /\ start \in Nat /\ start <= OpenEnd /\ OpenEnd <= pos
        /\ cell \in CellType /\ Pushed = Append(cells, cell)
    BY <1>2, ClosedField
  <2>2. cell.off = start /\ cell.len = OpenEnd - start
    BY DEF Cell
  <2>3. start + cell.len <= pos
    BY <2>1, <2>2, CellsUpToHere
  <2> HIDE DEF cell
  <2>4. QED
    BY <1>2, <2>1, <2>2, <2>3, FieldAppended
<1>3. QED
  BY <1>1, <1>2

-----------------------------------------------------------------------------
(***************************************************************************)
(* row_end.                                                                *)
(***************************************************************************)
\* What RowEnd keeps of the fields is a prefix of them; a row it completes has
\* exactly as many as the table has columns.
LEMMA RowEndKeepsRows ==
  ASSUME TypeOK, RowsAreFull, NEW cs \in Seq(CellType), Len(cs) >= Len(cells),
         RowEnd(cs)
  PROVE  /\ IndexOK' /\ RowsAreFull' /\ status' \in Statuses
         /\ Len(cells') <= Len(cs)
         /\ \A i \in 1 .. Len(cells') : cells'[i] = cs[i]
         /\ \A m \in 0 .. RowFirst : SubSeq(cells', 1, m) = SubSeq(cs, 1, m)
         /\ first' = first \/ first' = Append(first, Len(cells'))
<1>1. /\ first \in Seq(Nat) /\ Len(first) \in Nat /\ Len(first) >= 1
      /\ \A i \in 1 .. Len(first) : first[i] \in Nat
      /\ columns \in Nat /\ normalized \in Nat /\ cells \in Seq(CellType)
  BY IndicesAndElements DEF TypeOK, IndexOK
<1>2. /\ Len(cs) \in Nat /\ Len(cells) \in Nat /\ RowFirst \in Nat /\ RowFirst <= Len(cs)
      /\ NumRows \in Nat
  BY <1>1, LenProperties DEF RowsAreFull, RowFirst, NumRows
<1>3. Width(cs) \in Nat /\ columns' \in Nat
  BY <1>1, <1>2 DEF Width, RowEnd
<1>7. ASSUME RowError(cs) \in {"ok", "rows"}
      PROVE  /\ Kept(cs) \in Seq(CellType) /\ Len(Kept(cs)) = RowFirst + columns'
             /\ RowFirst + columns' \in 0 .. Len(cs) /\ RowFirst + columns' >= RowFirst
             /\ \A i \in 1 .. Len(Kept(cs)) : Kept(cs)[i] = cs[i]
             /\ \A m \in 0 .. RowFirst : SubSeq(Kept(cs), 1, m) = SubSeq(cs, 1, m)
  <2> DEFINE kept == Kept(cs)
             n == RowFirst + columns'
  <2>1. NumRows # 0 => columns <= Width(cs)
    BY <1>1, <1>3, <1>7 DEF RowError
  <2>2. n \in 0 .. Len(cs) /\ n >= RowFirst
    BY <1>1, <1>2, <2>1 DEF RowEnd, Width
  <2>3. kept = SubSeq(cs, 1, n)
    <3>1. CASE NumRows = 0
      <4>1. columns' = Width(cs) /\ kept = cs /\ n = Len(cs)
        BY <1>2, <3>1 DEF RowEnd, Kept, Width
      <4>2. QED
        BY <4>1, SubSeqFull
    <3>2. CASE NumRows # 0
      BY <3>2 DEF RowEnd, Kept
    <3>3. QED
      BY <3>1, <3>2
  <2> HIDE DEF kept, n
  <2>4. /\ kept \in Seq(CellType) /\ Len(kept) = n
        /\ \A i \in 1 .. n : kept[i] = cs[i]
        /\ \A m \in 0 .. n : SubSeq(kept, 1, m) = SubSeq(cs, 1, m)
    BY <2>2, <2>3, Prefix
  <2>5. \A m \in 0 .. RowFirst : m \in 0 .. n
    BY <1>2, <2>2
  <2>6. QED
    BY <2>2, <2>4, <2>5 DEF kept, n
<1>8. normalized' \in Nat
  <2>1. normalized' = normalized \/ normalized' = normalized + 1
    BY <1>1 DEF RowEnd
  <2>2. QED
    BY <1>1, <2>1
<1>4. CASE RowError(cs) # "ok"
  <2>1. first' = first /\ status' \in Statuses
    BY <1>4 DEF RowEnd, RowError, Statuses
  <2>2. /\ cells' \in Seq(CellType) /\ Len(cells') <= Len(cs) /\ RowFirst <= Len(cells')
        /\ \A i \in 1 .. Len(cells') : cells'[i] = cs[i]
        /\ \A m \in 0 .. RowFirst : SubSeq(cells', 1, m) = SubSeq(cs, 1, m)
    <3>1. CASE RowError(cs) \in {"ok", "rows"}
      <4>1. cells' = Kept(cs)
        BY <3>1 DEF RowEnd
      <4>2. Len(cells') = RowFirst + columns' /\ Len(cells') <= Len(cs) /\ RowFirst <= Len(cells')
        <5>1. PICK n : n = RowFirst + columns'
          OBVIOUS
        <5>2. n \in 0 .. Len(cs) /\ n >= RowFirst /\ Len(cells') = n
          BY <1>7, <3>1, <4>1, <5>1
        <5>3. n <= Len(cs) /\ RowFirst <= n
          BY <1>2, <5>2
        <5>4. QED
          BY <5>1, <5>2, <5>3
      <4>3. /\ cells' \in Seq(CellType)
            /\ \A i \in 1 .. Len(cells') : cells'[i] = cs[i]
            /\ \A m \in 0 .. RowFirst : SubSeq(cells', 1, m) = SubSeq(cs, 1, m)
        BY <1>7, <3>1, <4>1
      <4>4. QED
        BY <4>2, <4>3
    <3>2. CASE RowError(cs) \notin {"ok", "rows"}
      <4>1. cells' = cs
        BY <3>2 DEF RowEnd
      <4>2. QED
        BY <1>2, <4>1
    <3>3. QED
      BY <3>1, <3>2
  <2>3. IndexOK'
    BY <1>1, <1>3, <1>8, <2>1, <2>2 DEF IndexOK
  <2>4. RowsAreFull'
    <3>1. RowFirst' <= Len(cells')
      BY <2>1, <2>2 DEF RowFirst
    <3>2. ASSUME NEW r \in 1 .. NumRows' PROVE first'[r + 1] = first'[r] + columns'
      <4>1. NumRows # 0 /\ r \in 1 .. NumRows
        BY <1>1, <1>2, <2>1 DEF NumRows
      <4>2. columns' = columns
        BY <4>1 DEF RowEnd
      <4>3. QED
        BY <2>1, <4>1, <4>2 DEF RowsAreFull
    <3>3. QED
      BY <3>1, <3>2 DEF RowsAreFull
  <2>5. QED
    BY <2>1, <2>2, <2>3, <2>4
<1>5. CASE RowError(cs) = "ok"
  <2> DEFINE kept == Kept(cs)
  <2>1. cells' = kept /\ first' = Append(first, Len(kept)) /\ status' \in Statuses
    BY <1>5 DEF RowEnd, Statuses
  <2> HIDE DEF kept
  <2>3. RowFirst + columns' \in 0 .. Len(cs) /\ RowFirst + columns' >= RowFirst
    BY <1>5, <1>7
  <2>5. /\ kept \in Seq(CellType) /\ Len(kept) = RowFirst + columns'
        /\ \A i \in 1 .. Len(kept) : kept[i] = cs[i]
        /\ \A m \in 0 .. RowFirst : SubSeq(kept, 1, m) = SubSeq(cs, 1, m)
    BY <1>5, <1>7 DEF kept
  <2>6. /\ first' \in Seq(Nat) /\ Len(first') = Len(first) + 1
        /\ \A i \in 1 .. Len(first) : first'[i] = first[i]
        /\ first'[Len(first) + 1] = Len(kept)
    <3>1. Len(kept) \in Nat
      BY <2>5, LenProperties
    <3>2. QED
      BY <1>1, <2>1, <3>1, AppendProperties
  <2>7. IndexOK'
    BY <1>1, <1>3, <1>8, <2>1, <2>5, <2>6 DEF IndexOK
  <2>8. RowsAreFull'
    <3>1. RowFirst' = Len(cells')
      BY <1>1, <2>1, <2>6 DEF RowFirst
    <3>2. ASSUME NEW r \in 1 .. NumRows' PROVE first'[r + 1] = first'[r] + columns'
      <4>1. CASE r = NumRows'
        <5>1. r = Len(first) /\ first'[r] = first[Len(first)]
          BY <1>1, <2>6, <4>1 DEF NumRows
        <5>2. QED
          BY <2>5, <2>6, <5>1 DEF RowFirst
      <4>2. CASE r # NumRows'
        <5>1. r \in 1 .. NumRows /\ r \in 1 .. Len(first) /\ r + 1 \in 1 .. Len(first)
          BY <1>1, <2>6, <4>2 DEF NumRows
        <5>2. columns' = columns
          BY <5>1 DEF RowEnd
        <5>3. QED
          BY <2>6, <5>1, <5>2 DEF RowsAreFull
      <4>3. QED
        BY <4>1, <4>2
    <3>3. RowFirst' <= Len(cells')
      BY <1>2, <1>3, <2>1, <2>5, <3>1
    <3>4. QED
      BY <3>2, <3>3 DEF RowsAreFull
  <2>9. Len(cells') <= Len(cs)
    BY <1>2, <1>3, <2>1, <2>3, <2>5
  <2>10. QED
    BY <2>1, <2>5, <2>7, <2>8, <2>9
<1>6. QED
  BY <1>4, <1>5

\* The schema a row resolves, if it does, begins at that row or after it; so the
\* rows digested are again the complete ones past the header.
LEMMA RowEndDigests ==
  ASSUME TypeOK, HeaderAhead, DigestsDataRows, status = "ok", NEW cs, RowEnd(cs)
  PROVE  SchemaOK' /\ HeaderAhead' /\ DigestsDataRows'
<1>1. /\ Len(first) \in Nat /\ Len(first) >= 1 /\ first \in Seq(Nat)
      /\ headerRows \in Nat \cup {HeaderAuto} /\ dataFrom \in Nat \cup {None}
      /\ digested \in SUBSET Nat
  BY LenProperties DEF TypeOK, IndexOK, SchemaOK
<1>2. NumRows \in Nat
  BY <1>1 DEF NumRows
<1>3. CASE RowError(cs) # "ok"
  <2>1. first' = first /\ UNCHANGED schema /\ status' # "ok"
    BY <1>3 DEF RowEnd
  <2>2. QED
    BY <1>1, <2>1 DEF schema, SchemaOK, HeaderAhead, DigestsDataRows, NumRows
<1>4. CASE RowError(cs) = "ok"
  <2> DEFINE kept == Kept(cs)
             from == DataFromAfter(kept)
             header == HeaderAfter(kept)
  <2>1. /\ Len(first') = Len(first) + 1
        /\ headerRows' = header /\ dataFrom' = from
        /\ status' = IF ScannedOut(kept) THEN "header"
                     ELSE IF Mismatched(kept) THEN "mismatch" ELSE "ok"
        /\ digested' = IF IsData(from) THEN digested \cup {NumRows} ELSE digested
    BY <1>1, <1>4 DEF RowEnd
  <2>2. NumRows' = NumRows + 1
    BY <1>1, <2>1 DEF NumRows
  <2>3. header \in Nat \cup {HeaderAuto} /\ (dataFrom # None => header = headerRows)
    BY <1>1, <1>2 DEF HeaderAfter
  <2>4. dataFrom = None /\ header # HeaderAuto => NumRows <= header
    <3>1. CASE header = NumRows + 1
      BY <1>2, <3>1
    <3>2. CASE header # NumRows + 1
      <4>1. header = headerRows
        BY <3>2 DEF HeaderAfter
      <4>2. QED
        BY <4>1 DEF HeaderAhead
    <3>3. QED
      BY <3>1, <3>2
  <2>5. from \in Nat \cup {None} /\ (dataFrom # None => from = dataFrom)
    BY <1>1, <2>3 DEF DataFromAfter, Resolves
  <2>6. dataFrom = None /\ from # None => from = header /\ NumRows <= from
    BY <2>4 DEF DataFromAfter, Resolves
  <2>7. SchemaOK'
    BY <1>1, <1>2, <2>1, <2>3, <2>5 DEF SchemaOK
  <2>8. HeaderAhead'
    <3>1. ASSUME status' = "ok", from = None, header # HeaderAuto
          PROVE  NumRows + 1 <= header
      <4>1. dataFrom = None /\ ~Resolves(kept)
        BY <1>1, <2>1, <2>3, <2>5, <3>1 DEF DataFromAfter, Mismatched, Resolves, None
      <4>2. ~(NumRows + 1 >= header)
        BY <3>1, <4>1 DEF Resolves
      <4>3. QED
        BY <1>2, <2>3, <3>1, <4>2
    <3>2. QED
      BY <2>1, <2>2, <3>1 DEF HeaderAhead
  <2>9. DigestsDataRows'
    <3> HIDE DEF from
    <3>1. digested = {r \in 0 .. NumRows - 1 : dataFrom # None /\ r >= dataFrom}
      BY DEF DigestsDataRows
    <3>2. digested = {r \in 0 .. NumRows - 1 : from # None /\ r >= from}
      <4>1. CASE dataFrom = None
        BY <1>2, <2>5, <2>6, <3>1, <4>1 DEF None
      <4>2. CASE dataFrom # None
        BY <2>5, <3>1, <4>2
      <4>3. QED
        BY <4>1, <4>2
    <3>3. IsData(from) <=> from # None /\ NumRows >= from
      BY DEF IsData
    <3>4. digested' = {r \in 0 .. NumRows : from # None /\ r >= from}
      BY <1>2, <2>1, <2>5, <3>2, <3>3
    <3>5. QED
      BY <1>2, <2>1, <2>2, <3>4 DEF DigestsDataRows
  <2>10. QED
    BY <2>7, <2>8, <2>9
<1>5. QED
  BY <1>3, <1>4

-----------------------------------------------------------------------------
(***************************************************************************)
(* The invariant, a call's entry or a turn of the loop at a time.          *)
(***************************************************************************)
\* The parser starts in the invariant: nothing has arrived.
LEMMA InitInv == Init => Inv
<1> SUFFICES ASSUME Init PROVE Inv
  OBVIOUS
<1>1. /\ data = <<>> /\ cells = <<>> /\ first = <<0>>
      /\ Len(data) = 0 /\ Len(cells) = 0 /\ Len(first) = 1 /\ DOMAIN cells = 1 .. 0
      /\ data \in Seq(STRING) /\ cells \in Seq(CellType) /\ first \in Seq(Nat)
  BY EmptySeq DEF Init
<1>2. headerRows \in Nat \cup {HeaderAuto}
  BY CasesAssumption DEF Init, HeaderRows
<1>3. NumRows = 0 /\ RowFirst = 0
  BY <1>1 DEF NumRows, RowFirst
<1>4. InputOK /\ MachineOK
  <2>1. InputOK
    BY <1>1 DEF Init, InputOK, Statuses
  <2>2. MachineOK
    BY <1>1 DEF Init, MachineOK, States
  <2>3. QED
    BY <2>1, <2>2
<1>5. IndexOK /\ SchemaOK
  BY <1>1, <1>2 DEF Init, IndexOK, SchemaOK
<1>6. Phases /\ OpenField
  BY <1>1 DEF Init, Phases, OpenField
<1>7. CellsInOrder
  BY <1>1 DEF CellsInOrder
<1>8. RowsAreFull
  BY <1>1, <1>3 DEF RowsAreFull
<1>9. HeaderAhead
  BY <1>2, <1>3 DEF HeaderAhead
<1>10. DigestsDataRows
  BY <1>3 DEF Init, DigestsDataRows
<1>11. QED
  BY <1>4, <1>5, <1>6, <1>7, <1>8, <1>9, <1>10 DEF Inv, TypeOK

\* What a step that leaves the rows and the schema alone keeps.
LEMMA RowsFramed ==
  ASSUME Inv, UNCHANGED <<first, columns, schema, normalized>>,
         cells' \in Seq(CellType), Len(cells') >= Len(cells),
         status' = "ok" => status = "ok"
  PROVE  IndexOK' /\ SchemaOK' /\ RowsAreFull' /\ HeaderAhead' /\ DigestsDataRows'
<1>1. IndexOK' /\ SchemaOK'
  BY DEF Inv, TypeOK, IndexOK, SchemaOK, schema
<1>2. NumRows' = NumRows /\ RowFirst' = RowFirst
  BY DEF NumRows, RowFirst
<1>3. Len(cells') \in Nat /\ Len(cells) \in Nat /\ RowFirst \in Nat
  BY IndicesAndElements DEF Inv, TypeOK, IndexOK, RowFirst
<1>4. RowsAreFull'
  <2>1. RowFirst' <= Len(cells')
    BY <1>2, <1>3 DEF Inv, RowsAreFull
  <2>2. QED
    BY <1>2, <2>1 DEF Inv, RowsAreFull
<1>5. HeaderAhead' /\ DigestsDataRows'
  BY <1>2 DEF Inv, HeaderAhead, DigestsDataRows, schema
<1>6. QED
  BY <1>1, <1>4, <1>5

\* More bytes, or none, under fields that stay as they are.
LEMMA FieldsFramed ==
  ASSUME Inv, cells' = cells, data' \in Seq(STRING), Len(data') >= Len(data)
  PROVE  CellsInOrder'
<1>1. Len(data) \in Nat /\ Len(data') \in Nat
  BY LenProperties DEF Inv, TypeOK, InputOK
<1>2. \A i \in DOMAIN cells : cells[i].off \in Nat /\ cells[i].len \in Nat
  <2>1. \A i \in DOMAIN cells : cells[i] \in CellType
    BY IndicesAndElements DEF Inv, TypeOK, IndexOK
  <2>2. QED
    BY <2>1 DEF CellType
<1>3. QED
  BY <1>1, <1>2 DEF Inv, CellsInOrder

\* A chunk adds bytes behind what is indexed.
LEMMA ChunkKeepsInv ==
  ASSUME Inv, NEW bytes \in Chunks, Chunk(bytes)
  PROVE  Inv'
<1>1. bytes \in Seq(STRING) /\ data \in Seq(STRING)
  BY CasesAssumption DEF Inv, TypeOK, InputOK, Chunks
<1>2. data' \in Seq(STRING) /\ Len(data') >= Len(data)
  <2>1. Len(data) \in Nat /\ Len(bytes) \in Nat
    BY <1>1, LenProperties
  <2>2. data' = data \/ data' = data \o bytes
    BY DEF Chunk
  <2>3. data \o bytes \in Seq(STRING) /\ Len(data \o bytes) = Len(data) + Len(bytes)
    BY <1>1, ConcatProperties
  <2>4. CASE data' = data \o bytes
    <3>1. Len(data') = Len(data) + Len(bytes) /\ data' \in Seq(STRING)
      BY <2>3, <2>4
    <3>2. QED
      BY <2>1, <3>1
  <2>5. CASE data' = data
    BY <1>1, <2>1, <2>5
  <2>6. QED
    BY <2>2, <2>4, <2>5
<1>3. Len(data) \in Nat /\ Len(data') \in Nat
  BY <1>1, <1>2, LenProperties
<1>4. InputOK' /\ MachineOK'
  <2>1. InputOK'
    BY <1>2 DEF Inv, TypeOK, InputOK, Chunk, Fail, Statuses
  <2>2. MachineOK'
    <3>1. UNCHANGED <<bom, pos, state, start, flags>>
      BY DEF Chunk, machine
    <3>2. \A i \in 0 .. Len(data) : i \in 0 .. Len(data')
      BY <1>2, <1>3
    <3>3. QED
      BY <3>1, <3>2 DEF Inv, TypeOK, MachineOK
  <2>3. QED
    BY <2>1, <2>2
<1>5. /\ cells' = cells /\ cells \in Seq(CellType)
      /\ UNCHANGED <<first, columns, schema, normalized>>
      /\ status = "ok"
  BY DEF Inv, TypeOK, IndexOK, Chunk, index
<1>6. IndexOK' /\ SchemaOK' /\ RowsAreFull' /\ HeaderAhead' /\ DigestsDataRows'
  <2>1. Len(cells) \in Nat
    BY <1>5, LenProperties
  <2>2. QED
    BY <1>5, <2>1, RowsFramed
<1>7. CellsInOrder'
  BY <1>2, <1>5, FieldsFramed
<1>8. Phases'
  BY DEF Inv, Phases, Chunk, Fail, machine
<1>9. OpenField'
  BY DEF Inv, OpenField, Open, Chunk, Fail, machine, index
<1>10. QED
  BY <1>4, <1>6, <1>7, <1>8, <1>9 DEF Inv, TypeOK

\* Bytes are lent only before any were pushed.
LEMMA BorrowKeepsInv ==
  ASSUME Inv, NEW bytes \in Chunks, Borrow(bytes)
  PROVE  Inv'
<1>1. bytes \in Seq(STRING) /\ data \in Seq(STRING)
  BY CasesAssumption DEF Inv, TypeOK, InputOK, Chunks
<1>2. data' \in Seq(STRING) /\ Len(data') >= Len(data)
  <2>1. Len(data) \in Nat /\ Len(bytes) \in Nat
    BY <1>1, LenProperties
  <2>2. data' = data \/ (mode = "none" /\ data' = bytes)
    BY DEF Borrow
  <2>3. mode = "none" => Len(data) = 0
    BY EmptySeq DEF Inv, Phases
  <2>4. QED
    BY <1>1, <2>1, <2>2, <2>3
<1>3. Len(data) \in Nat /\ Len(data') \in Nat
  BY <1>1, <1>2, LenProperties
<1>4. InputOK' /\ MachineOK'
  <2>1. InputOK'
    BY <1>2 DEF Inv, TypeOK, InputOK, Borrow, Fail, Statuses
  <2>2. MachineOK'
    <3>1. UNCHANGED <<bom, pos, state, start, flags>>
      BY DEF Borrow, machine
    <3>2. \A i \in 0 .. Len(data) : i \in 0 .. Len(data')
      BY <1>2, <1>3
    <3>3. QED
      BY <3>1, <3>2 DEF Inv, TypeOK, MachineOK
  <2>3. QED
    BY <2>1, <2>2
<1>5. /\ cells' = cells /\ cells \in Seq(CellType)
      /\ UNCHANGED <<first, columns, schema, normalized>>
      /\ status = "ok"
  BY DEF Inv, TypeOK, IndexOK, Borrow, index
<1>6. IndexOK' /\ SchemaOK' /\ RowsAreFull' /\ HeaderAhead' /\ DigestsDataRows'
  <2>1. Len(cells) \in Nat
    BY <1>5, LenProperties
  <2>2. QED
    BY <1>5, <2>1, RowsFramed
<1>7. CellsInOrder'
  BY <1>2, <1>5, FieldsFramed
<1>8. Phases'
  BY DEF Inv, Phases, Borrow, Fail, machine
<1>9. OpenField'
  BY DEF Inv, OpenField, Open, Borrow, Fail, machine, index
<1>10. QED
  BY <1>4, <1>6, <1>7, <1>8, <1>9 DEF Inv, TypeOK

\* Finish and Return move no bytes; an error leaves the fields as they are.
LEMMA FinishKeepsInv ==
  ASSUME Inv, Finish \/ Return \/ Unterminated \/ UNCHANGED vars
  PROVE  Inv'
<1>1. /\ data' = data /\ cells' = cells
      /\ UNCHANGED <<first, columns, schema, normalized, case, mode>>
      /\ UNCHANGED <<pos, state, start, flags>>
  BY DEF Finish, Return, Unterminated, vars, input, machine, index
<1>2. /\ status' \in Statuses /\ call' \in {"idle", "run", "finish", "settle"}
      /\ (status' = "ok" => status = "ok")
      /\ finished' \in BOOLEAN /\ bom' \in BOOLEAN
  BY DEF Inv, TypeOK, InputOK, MachineOK, Finish, Return, Unterminated, Fail, AtEnd, Running,
         vars, input, machine, Statuses
<1>3. InputOK' /\ MachineOK'
  BY <1>1, <1>2 DEF Inv, TypeOK, InputOK, MachineOK
<1>4. data \in Seq(STRING) /\ Len(data) \in Nat /\ cells \in Seq(CellType) /\ Len(cells) \in Nat
  BY LenProperties DEF Inv, TypeOK, InputOK, IndexOK
<1>5. IndexOK' /\ SchemaOK' /\ RowsAreFull' /\ HeaderAhead' /\ DigestsDataRows'
  BY <1>1, <1>2, <1>4, RowsFramed
<1>6. CellsInOrder'
  BY <1>1, <1>4, FieldsFramed
<1>7. Phases' /\ (Open' => Open)
  BY <1>1 DEF Inv, Phases, Open, Finish, Return, Unterminated, Fail, AtEnd, Running, vars, input,
              machine
<1>8. OpenField'
  BY <1>1, <1>7 DEF Inv, OpenField
<1>9. QED
  BY <1>3, <1>5, <1>6, <1>7, <1>8 DEF Inv, TypeOK

\* A mark is skipped before anything is indexed.
LEMMA DecideBomKeepsInv ==
  ASSUME Inv, DecideBom
  PROVE  Inv'
<1>1. /\ data' = data /\ cells' = cells /\ status = "ok" /\ status' = status
      /\ UNCHANGED <<first, columns, schema, normalized, case, mode, finished, state, flags>>
      /\ ~finished /\ call' \in {call, "idle"}
  BY DEF Inv, Phases, DecideBom, Running, input, index
<1>2. data \in Seq(STRING) /\ Len(data) \in Nat /\ cells \in Seq(CellType) /\ Len(cells) \in Nat
  BY LenProperties DEF Inv, TypeOK, InputOK, IndexOK
<1>3. /\ pos' \in 0 .. Len(data) /\ start' = pos' /\ start' >= start /\ state = "FIELD_START"
      /\ (bom' => pos' = 0)
      /\ bom' \in BOOLEAN
  <2>1. pos = 0 /\ start = 0 /\ state = "FIELD_START"
    BY DEF Inv, Phases, DecideBom
  <2> DEFINE marked == Len(data) >= 3 /\ SubSeq(data, 1, 3) = Bom
  <2>2. \/ UNCHANGED <<bom, pos, start>>
        \/ ~bom' /\ pos' = (IF marked THEN 3 ELSE pos) /\ start' = (IF marked THEN 3 ELSE start)
    BY Zenon DEF DecideBom
  <2>3. marked => Len(data) >= 3
    OBVIOUS
  <2>4. bom' \in BOOLEAN
    BY DEF DecideBom, Inv, TypeOK, MachineOK
  <2> HIDE DEF marked
  <2>5. QED
    BY <1>2, <2>1, <2>2, <2>3, <2>4
<1>4. InputOK' /\ MachineOK'
  BY <1>1, <1>2, <1>3 DEF Inv, TypeOK, InputOK, MachineOK
<1>5. IndexOK' /\ SchemaOK' /\ RowsAreFull' /\ HeaderAhead' /\ DigestsDataRows'
  BY <1>1, <1>2, RowsFramed
<1>6. CellsInOrder'
  BY <1>1, <1>2, FieldsFramed
<1>7. Phases'
  BY <1>1, <1>3 DEF Inv, Phases
<1>8. OpenField'
  <2>1. \A i \in DOMAIN cells : cells[i].off \in Nat /\ cells[i].len \in Nat
    <3>1. \A i \in DOMAIN cells : cells[i] \in CellType
      BY <1>2, IndicesAndElements
    <3>2. QED
      BY <3>1 DEF CellType
  <2>2. Open /\ start \in Nat /\ start' \in Nat
    BY <1>1, <1>2, <1>3 DEF Open, Inv, TypeOK, MachineOK
  <2>3. \A i \in DOMAIN cells : start > cells[i].off + cells[i].len
    BY <2>2 DEF Inv, OpenField
  <2>4. \A i \in DOMAIN cells : start' > cells[i].off + cells[i].len
    BY <1>3, <2>1, <2>2, <2>3
  <2>5. start' <= pos' /\ state' # "QUOTE_IN_QUOTED"
    BY <1>1, <1>2, <1>3
  <2>6. QED
    BY <1>1, <2>4, <2>5 DEF OpenField
<1>9. QED
  BY <1>4, <1>5, <1>6, <1>7, <1>8 DEF Inv, TypeOK

\* A turn of the loop finds its byte there and the open field begun.
LEMMA ReadingFacts ==
  ASSUME Inv, Reading
  PROVE  /\ Open /\ status = "ok" /\ ~bom /\ call \in {"run", "finish"}
         /\ pos \in Nat /\ pos < Len(data) /\ pos + 1 \in 0 .. Len(data)
         /\ start \in Nat /\ start <= pos /\ Len(data) \in Nat
         /\ data \in Seq(STRING) /\ cells \in Seq(CellType) /\ Len(cells) \in Nat
         /\ DOMAIN cells = 1 .. Len(cells)
         /\ \A i \in 1 .. Len(cells) :
              /\ cells[i].off \in Nat /\ cells[i].len \in Nat
              /\ start > cells[i].off + cells[i].len
<1>1. data \in Seq(STRING) /\ Len(data) \in Nat /\ cells \in Seq(CellType) /\ Len(cells) \in Nat
  BY LenProperties DEF Inv, TypeOK, InputOK, IndexOK
<1>2. /\ status = "ok" /\ ~bom /\ pos < Len(data) /\ pos \in 0 .. Len(data)
      /\ start \in 0 .. Len(data)
  BY DEF Reading, Running, Inv, TypeOK, MachineOK
<1>3. call \in {"run", "finish"} /\ Open
  BY <1>1, <1>2 DEF Reading, Running, Inv, TypeOK, InputOK, Phases, Open
<1>4. /\ DOMAIN cells = 1 .. Len(cells)
      /\ \A i \in 1 .. Len(cells) : cells[i] \in CellType
  BY <1>1, IndicesAndElements
<1>5. \A i \in 1 .. Len(cells) : cells[i].off \in Nat /\ cells[i].len \in Nat
  BY <1>4 DEF CellType
<1>6. start <= pos /\ \A i \in 1 .. Len(cells) : start > cells[i].off + cells[i].len
  BY <1>3, <1>4 DEF Inv, OpenField
<1>7. QED
  BY <1>1, <1>2, <1>3, <1>4, <1>5, <1>6

\* A turn that changes no row, no field and no schema keeps the invariant when
\* the open field, if it moves, moves on.
LEMMA MachineStepKeepsInv ==
  ASSUME Inv, Reading,
         UNCHANGED <<input, bom, index, schema, normalized>>,
         state' \in States, flags' \in SUBSET Flags,
         pos' \in 0 .. Len(data), start' \in 0 .. Len(data),
         \/ status' = "content" /\ call' = "idle"
         \/ /\ UNCHANGED <<call, status>> /\ start' >= start /\ start' <= pos'
            /\ state' = "QUOTE_IN_QUOTED" => start' < pos'
  PROVE  Inv'
<1>1. /\ data' = data /\ cells' = cells
      /\ UNCHANGED <<first, columns, case, mode, finished>>
      /\ (status' = "ok" => status = "ok")
  BY ReadingFacts DEF input, index
<1>2. InputOK' /\ MachineOK'
  <2>1. InputOK'
    BY <1>1 DEF Inv, TypeOK, InputOK, Statuses
  <2>2. MachineOK'
    BY <1>1 DEF Inv, TypeOK, MachineOK
  <2>3. QED
    BY <2>1, <2>2
<1>3. IndexOK' /\ SchemaOK' /\ RowsAreFull' /\ HeaderAhead' /\ DigestsDataRows'
  BY <1>1, ReadingFacts, RowsFramed
<1>4. CellsInOrder'
  BY <1>1, ReadingFacts, FieldsFramed
<1>5. Phases'
  BY <1>1, ReadingFacts DEF Inv, Phases
<1>6. OpenField'
  <2>1. CASE status' = "content"
    BY <2>1 DEF OpenField, Open
  <2>2. CASE status' # "content"
    <3>1. start' >= start /\ start' <= pos' /\ (state' = "QUOTE_IN_QUOTED" => start' < pos')
      BY <2>2
    <3>2. start' \in Nat /\ start \in Nat
      BY ReadingFacts
    <3>3. \A i \in DOMAIN cells' : start' > cells'[i].off + cells'[i].len
      BY <1>1, <3>1, <3>2, ReadingFacts
    <3>4. QED
      BY <3>1, <3>3 DEF OpenField
  <2>3. QED
    BY <2>1, <2>2
<1>7. QED
  BY <1>2, <1>3, <1>4, <1>5, <1>6 DEF Inv, TypeOK

\* After a CR the next field starts at the byte at hand or after its LF.
LEMMA AfterCrKeepsInv ==
  ASSUME Inv, AfterCr
  PROVE  Inv'
<1>1. Reading
  BY DEF AfterCr
<1>2. pos' \in {pos, pos + 1} /\ start' = pos' /\ state' = "FIELD_START"
  BY DEF AfterCr
<1>3. /\ pos' \in 0 .. Len(data) /\ start' \in 0 .. Len(data)
      /\ start' >= start /\ start' <= pos'
  BY <1>1, <1>2, ReadingFacts
<1>4. UNCHANGED <<input, bom, index, schema, normalized, call, status, flags>>
  BY DEF AfterCr
<1>5. state' \in States /\ flags' \in SUBSET Flags /\ state' # "QUOTE_IN_QUOTED"
  BY <1>2, <1>4 DEF States, Inv, TypeOK, MachineOK
<1>6. QED
  BY <1>1, <1>3, <1>4, <1>5, MachineStepKeepsInv

\* A byte that ends nothing is inside the open field or opens it.
LEMMA ConsumeKeepsInv ==
  ASSUME Inv, Consume
  PROVE  Inv'
<1>1. Reading
  BY DEF Consume
<1>2. pos' = pos + 1 /\ state' = Goto(state, Class(Byte))
  BY DEF Consume
<1>3. start' \in {start, pos + 1} /\ (state = "QUOTED" => start' = start)
  <2>1. state = "QUOTED" => ~Does(Opens) /\ ~Does(SetsStart)
    BY DEF Does, Opens, SetsStart, Closes, Closes0, Closes1
  <2>2. QED
    BY <2>1 DEF Consume
<1>4. /\ pos' \in 0 .. Len(data) /\ start' \in 0 .. Len(data)
      /\ start' >= start /\ start' <= pos'
      /\ (state = "QUOTED" => start' < pos')
  BY <1>1, <1>2, <1>3, ReadingFacts
<1>5. UNCHANGED <<input, bom, index, schema, normalized, call, status>>
  BY DEF Consume
<1>6. state' \in States /\ (state' = "QUOTE_IN_QUOTED" => state = "QUOTED")
  BY <1>2, GotoIsState DEF Inv, TypeOK, MachineOK
<1>7. flags' \in SUBSET Flags
  BY DEF Consume, Inv, TypeOK, MachineOK, Flags
<1>8. QED
  BY <1>1, <1>4, <1>5, <1>6, <1>7, MachineStepKeepsInv

\* Bad content leaves the index as it was.
LEMMA RejectKeepsInv ==
  ASSUME Inv, Reject
  PROVE  Inv'
<1>1. Reading
  BY DEF Reject
<1>2. UNCHANGED <<input, bom, pos, start, flags, index, schema, normalized>>
  BY DEF Reject
<1>3. state' = Goto(state, Class(Byte)) /\ status' = "content" /\ call' = "idle"
  BY DEF Reject, Fail
<1>4. state' \in States /\ flags' \in SUBSET Flags
  BY <1>2, <1>3, GotoIsState DEF Inv, TypeOK, MachineOK
<1>5. pos' \in 0 .. Len(data) /\ start' \in 0 .. Len(data)
  BY <1>2 DEF Inv, TypeOK, MachineOK
<1>6. QED
  BY <1>1, <1>2, <1>3, <1>4, <1>5, MachineStepKeepsInv

\* Fields in order make an index in order, under the bytes they lie in.
LEMMA FieldsInOrder ==
  ASSUME NEW cs, NEW end \in Nat, FieldsUpTo(cs, end), Len(data') \in Nat, end <= Len(data'),
         cells' \in Seq(CellType), Len(cells') <= Len(cs),
         \A i \in 1 .. Len(cells') : cells'[i] = cs[i]
  PROVE  /\ CellsInOrder'
         /\ \A i \in DOMAIN cells' : cells'[i].off + cells'[i].len <= end
<1>1. /\ DOMAIN cells' = 1 .. Len(cells') /\ Len(cells') \in Nat /\ Len(cs) \in Nat
      /\ \A i \in 1 .. Len(cells') : cells'[i] \in CellType
  BY IndicesAndElements DEF FieldsUpTo
<1>2. \A i \in 1 .. Len(cells') : cells'[i].off \in Nat /\ cells'[i].len \in Nat
  BY <1>1 DEF CellType
<1>3. ASSUME NEW i \in 1 .. Len(cells')
      PROVE  /\ cells'[i].off + cells'[i].len <= end
             /\ i > 1 => cells'[i].off > cells'[i - 1].off + cells'[i - 1].len
  <2>1. i \in 1 .. Len(cs) /\ cells'[i] = cs[i]
    BY <1>1
  <2>2. i > 1 => cells'[i - 1] = cs[i - 1]
    BY <1>1
  <2>3. QED
    BY <2>1, <2>2 DEF FieldsUpTo
<1>4. \A i \in 1 .. Len(cells') : cells'[i].off + cells'[i].len <= Len(data')
  BY <1>2, <1>3
<1>5. QED
  BY <1>1, <1>3, <1>4 DEF CellsInOrder

\* The field a delimiter closes lies between the closed ones and the next.
LEMMA CloseFieldKeepsInv ==
  ASSUME Inv, CloseField
  PROVE  Inv'
<1>1. /\ Reading /\ Does(Closes) /\ pos' = pos + 1 /\ start' = pos + 1 /\ flags' = {}
      /\ state' = Goto(state, Class(Byte))
      /\ cells' \in {cells, Pushed}
      /\ UNCHANGED <<input, call, bom, first, columns, schema, normalized, status>>
  BY DEF CloseField
<1>2. /\ Open /\ pos \in Nat /\ pos < Len(data) /\ pos + 1 \in 0 .. Len(data)
      /\ Len(data) \in Nat /\ status = "ok" /\ ~bom /\ call \in {"run", "finish"}
  BY <1>1, ReadingFacts
<1>3. /\ FieldsUpTo(cells', pos) /\ cells' \in Seq(CellType) /\ Len(cells') >= Len(cells)
  <2>1. FieldsUpTo(cells, pos) /\ FieldsUpTo(Pushed, pos)
    BY <1>2, CellsUpToHere, FieldsPushed DEF Inv
  <2>2. QED
    BY <1>1, <2>1 DEF FieldsUpTo
<1>4. data' = data /\ UNCHANGED <<case, mode, finished>>
  BY <1>1 DEF input
<1>5. CellsInOrder' /\ \A i \in DOMAIN cells' : cells'[i].off + cells'[i].len <= pos
  <2>1. Len(cells') \in Nat
    BY <1>3, LenProperties
  <2>2. QED
    BY <1>2, <1>3, <1>4, <2>1, FieldsInOrder
<1>6. IndexOK' /\ SchemaOK' /\ RowsAreFull' /\ HeaderAhead' /\ DigestsDataRows'
  BY <1>1, <1>3, RowsFramed
<1>7. state' \in States /\ state' # "QUOTE_IN_QUOTED"
  <2>1. state # "QUOTED"
    BY <1>1 DEF Does, Closes, Closes0, Closes1
  <2>2. QED
    BY <1>1, <2>1, GotoIsState DEF Inv, TypeOK, MachineOK
<1>8. InputOK' /\ MachineOK'
  BY <1>1, <1>2, <1>4, <1>7 DEF Inv, TypeOK, InputOK, MachineOK
<1>9. Phases'
  BY <1>1, <1>2, <1>4 DEF Inv, Phases
<1>10. OpenField'
  <2>1. \A i \in DOMAIN cells' : cells'[i].off \in Nat /\ cells'[i].len \in Nat
    <3>1. \A i \in DOMAIN cells' : cells'[i] \in CellType
      BY <1>3, IndicesAndElements
    <3>2. QED
      BY <3>1 DEF CellType
  <2>2. \A i \in DOMAIN cells' : start' > cells'[i].off + cells'[i].len
    BY <1>1, <1>2, <1>5, <2>1
  <2>3. QED
    BY <1>1, <1>2, <1>7, <2>2 DEF OpenField
<1>11. QED
  BY <1>5, <1>6, <1>8, <1>9, <1>10 DEF Inv, TypeOK

\* A row that ends is full, and the next field starts behind it.
LEMMA CloseRowKeepsInv ==
  ASSUME Inv, CloseRow
  PROVE  Inv'
<1>1. /\ Reading /\ state' = Goto(state, Class(Byte)) /\ RowEnd(Pushed)
      /\ start' = (IF Does(SetsStart) THEN pos + 1 ELSE start)
      /\ flags' \in {flags, {}}
      /\ (status' = "ok" => pos' = pos + 1 /\ call' = call)
      /\ (status' # "ok" => pos' = pos /\ call' = "idle")
      /\ UNCHANGED <<input, bom>>
      /\ Does(EndsRow)
  BY DEF CloseRow
<1>2. /\ Open /\ pos \in Nat /\ pos < Len(data) /\ pos + 1 \in 0 .. Len(data)
      /\ Len(data) \in Nat /\ status = "ok" /\ ~bom /\ call \in {"run", "finish"}
      /\ start \in Nat /\ start <= pos /\ Len(cells) \in Nat
  BY <1>1, ReadingFacts
<1>3. data' = data /\ UNCHANGED <<case, mode, finished>>
  BY <1>1 DEF input
<1>4. FieldsUpTo(Pushed, pos) /\ (~Does(Closes) => Pushed = cells)
  BY <1>2, FieldsPushed DEF Inv
<1>5. /\ IndexOK' /\ RowsAreFull' /\ status' \in Statuses
      /\ cells' \in Seq(CellType) /\ Len(cells') <= Len(Pushed)
      /\ \A i \in 1 .. Len(cells') : cells'[i] = Pushed[i]
  <2>1. Pushed \in Seq(CellType) /\ Len(Pushed) >= Len(cells)
    BY <1>4 DEF FieldsUpTo
  <2>2. QED
    BY <1>1, <2>1, RowEndKeepsRows DEF Inv, IndexOK
<1>6. SchemaOK' /\ HeaderAhead' /\ DigestsDataRows'
  BY <1>1, <1>2, RowEndDigests DEF Inv
<1>7. CellsInOrder' /\ \A i \in DOMAIN cells' : cells'[i].off + cells'[i].len <= pos
  BY <1>2, <1>3, <1>4, <1>5, FieldsInOrder
<1>8. state' \in States /\ state' # "QUOTE_IN_QUOTED"
  <2>1. state # "QUOTED"
    BY <1>1 DEF Does, EndsRow
  <2>2. QED
    BY <1>1, <2>1, GotoIsState DEF Inv, TypeOK, MachineOK
<1>9. /\ pos' \in 0 .. Len(data) /\ start' \in 0 .. Len(data) /\ start' \in Nat
      /\ (status' = "ok" => start' <= pos')
      /\ call' \in {call, "idle"}
  BY <1>1, <1>2
<1>10. InputOK' /\ MachineOK'
  <2>1. InputOK'
    BY <1>2, <1>3, <1>5, <1>9 DEF Inv, TypeOK, InputOK
  <2>2. MachineOK'
    BY <1>1, <1>3, <1>8, <1>9 DEF Inv, TypeOK, MachineOK
  <2>3. QED
    BY <2>1, <2>2
<1>11. Phases'
  BY <1>1, <1>2, <1>3 DEF Inv, Phases
<1>12. OpenField'
  <2>1. SUFFICES ASSUME status' = "ok", NEW i \in DOMAIN cells'
                 PROVE  start' > cells'[i].off + cells'[i].len
    BY <1>8, <1>9 DEF OpenField, Open
  <2>2. DOMAIN cells' = 1 .. Len(cells') /\ cells'[i] \in CellType
    BY <1>5, IndicesAndElements
  <2>3. cells'[i].off \in Nat /\ cells'[i].len \in Nat
    BY <2>2 DEF CellType
  <2>4. CASE Does(SetsStart)
    BY <1>1, <1>2, <1>7, <2>3, <2>4
  <2>5. CASE ~Does(SetsStart)
    <3>1. ~Does(Closes) /\ start' = start
      BY <1>1, <2>5 DEF Does, SetsStart
    <3>2. cells'[i] = cells[i] /\ i \in 1 .. Len(cells)
      <4>1. Pushed = cells /\ Len(cells') \in Nat
        BY <1>4, <1>5, <3>1, LenProperties
      <4>2. QED
        BY <1>2, <1>5, <2>2, <4>1
    <3>3. start > cells[i].off + cells[i].len
      BY <1>2, <3>2, CellsUpToHere DEF Inv
    <3>4. QED
      BY <3>1, <3>2, <3>3
  <2>6. QED
    BY <2>4, <2>5
<1>13. QED
  BY <1>5, <1>6, <1>7, <1>10, <1>11, <1>12 DEF Inv, TypeOK

\* finish_record closes the field the end of the bytes leaves open.
LEMMA LastFields ==
  ASSUME Inv, AtEnd, OpenRecord
  PROVE  FieldsUpTo(LastCells, pos)
<1>1. /\ Open /\ flags \in SUBSET Flags
  BY DEF AtEnd, Running, Open, Inv, TypeOK, MachineOK
<1>2. FieldsUpTo(cells, pos) /\ pos \in Nat /\ start \in Nat
  BY <1>1, CellsUpToHere DEF Inv
<1>3. start <= pos /\ (state = "QUOTE_IN_QUOTED" => start < pos)
  BY <1>1 DEF Inv, OpenField
<1>4. ASSUME NEW len \in Nat, start + len <= pos
      PROVE  FieldsUpTo(Append(cells, Cell(start, len, flags)), pos)
  <2> DEFINE cell == Cell(start, len, flags)
  <2>1. cell \in CellType
    BY <1>1, <1>2 DEF Cell, CellType
  <2>2. cell.off = start /\ cell.len = len
    BY DEF Cell
  <2> HIDE DEF cell
  <2>3. FieldsUpTo(Append(cells, cell), pos)
    BY <1>1, <1>4, <2>1, <2>2, FieldAppended DEF Inv
  <2>4. QED
    BY <2>3 DEF cell
<1>5. CASE state = "QUOTE_IN_QUOTED"
  <2>1. pos - 1 - start \in Nat /\ start + (pos - 1 - start) <= pos
    BY <1>2, <1>3, <1>5
  <2>2. LastCells = Append(cells, Cell(start, pos - 1 - start, flags))
    BY <1>5 DEF LastCells
  <2>3. QED
    BY <1>4, <2>1, <2>2
<1>6. CASE state = "UNQUOTED"
  <2>1. pos - start \in Nat /\ start + (pos - start) <= pos
    BY <1>2, <1>3
  <2>2. LastCells = Append(cells, Cell(start, pos - start, flags))
    BY <1>6 DEF LastCells
  <2>3. QED
    BY <1>4, <2>1, <2>2
<1>7. CASE state = "FIELD_START"
  <2>1. LastCells = Append(cells, Cell(start, 0, flags)) /\ start + 0 <= pos
    BY <1>2, <1>3, <1>7 DEF LastCells
  <2>2. QED
    BY <1>4, <2>1
<1>8. CASE state = "AFTER_QUOTED"
  BY <1>2, <1>8 DEF LastCells
<1>9. QED
  BY <1>5, <1>6, <1>7, <1>8 DEF OpenRecord

\* The last record is closed as the others are.
LEMMA EndRecordKeepsInv ==
  ASSUME Inv, EndRecord
  PROVE  Inv'
<1>1. /\ AtEnd /\ UNCHANGED <<input, machine>> /\ status = "ok" /\ finished
      /\ pos = Len(data) /\ call = "finish"
      /\ (call' = "settle" /\ status' = "ok") \/ (call' = "idle" /\ status' # "ok")
  BY DEF EndRecord, AtEnd, Running, Inv, Phases
<1>2. /\ UNCHANGED <<case, data, mode, finished, bom, pos, state, start, flags>>
      /\ data \in Seq(STRING) /\ Len(data) \in Nat
      /\ cells \in Seq(CellType) /\ Len(cells) \in Nat
  BY <1>1, LenProperties DEF input, machine, Inv, TypeOK, InputOK, IndexOK
<1>3. IndexOK' /\ SchemaOK' /\ RowsAreFull' /\ HeaderAhead' /\ DigestsDataRows' /\ CellsInOrder'
      /\ status' \in Statuses
  <2>1. CASE OpenRecord
    <3>1. RowEnd(LastCells)
      BY <2>1 DEF EndRecord
    <3>2. FieldsUpTo(LastCells, pos)
      BY <1>1, <2>1, LastFields
    <3>3. LastCells \in Seq(CellType) /\ Len(LastCells) >= Len(cells)
      BY <3>2 DEF FieldsUpTo
    <3>4. /\ IndexOK' /\ RowsAreFull' /\ status' \in Statuses
          /\ cells' \in Seq(CellType) /\ Len(cells') <= Len(LastCells)
          /\ \A i \in 1 .. Len(cells') : cells'[i] = LastCells[i]
      BY <3>1, <3>3, RowEndKeepsRows DEF Inv, IndexOK
    <3>5. SchemaOK' /\ HeaderAhead' /\ DigestsDataRows'
      BY <1>1, <3>1, RowEndDigests DEF Inv
    <3>6. CellsInOrder'
      BY <1>1, <1>2, <3>2, <3>4, FieldsInOrder
    <3>7. QED
      BY <3>4, <3>5, <3>6
  <2>2. CASE ~OpenRecord
    <3>1. UNCHANGED <<index, schema, normalized, status>>
      BY <2>2 DEF EndRecord
    <3>2. /\ cells' = cells /\ UNCHANGED <<first, columns>> /\ status' \in Statuses
      BY <3>1 DEF index, Inv, TypeOK, InputOK
    <3>3. QED
      BY <1>1, <1>2, <3>1, <3>2, RowsFramed, FieldsFramed
  <2>3. QED
    BY <2>1, <2>2
<1>4. InputOK' /\ MachineOK'
  BY <1>1, <1>2, <1>3 DEF Inv, TypeOK, InputOK, MachineOK
<1>5. Phases' /\ OpenField'
  BY <1>1, <1>2 DEF Inv, Phases, OpenField, Open
<1>6. QED
  BY <1>3, <1>4, <1>5 DEF Inv, TypeOK

\* A schema left open to the end begins no earlier than the rows read.
LEMMA SettleKeepsInv ==
  ASSUME Inv, Settle
  PROVE  Inv'
<1>1. /\ call = "settle" /\ call' = "idle" /\ status = "ok" /\ finished
      /\ UNCHANGED <<input, machine, index, headerRows, digested, normalized>>
  BY DEF Settle, Inv, Phases
<1>2. /\ UNCHANGED <<case, data, mode, finished, bom, pos, state, start, flags>>
      /\ UNCHANGED <<cells, first, columns>>
  BY <1>1 DEF input, machine, index
<1>3. NumRows' = NumRows /\ RowFirst' = RowFirst /\ NumRows \in Nat
  <2>1. Len(first) \in Nat /\ Len(first) >= 1
    BY LenProperties DEF Inv, TypeOK, IndexOK
  <2>2. QED
    BY <1>2, <2>1 DEF NumRows, RowFirst
<1>4. /\ headerRows \in Nat \cup {HeaderAuto} /\ dataFrom \in Nat \cup {None}
      /\ (dataFrom = None /\ headerRows # HeaderAuto => NumRows <= headerRows)
  BY <1>1 DEF Inv, TypeOK, SchemaOK, HeaderAhead
<1>5. /\ status' \in {"ok", "header"}
      /\ dataFrom' = dataFrom \/ (/\ dataFrom = None /\ dataFrom' = headerRows
                                 /\ headerRows \in Nat /\ NumRows >= headerRows)
      /\ (status' = "ok" => dataFrom' # None)
  <2>1. headerRows # HeaderAuto => headerRows \in Nat
    BY <1>4
  <2>2. \A k \in Nat : k # None
    BY DEF None
  <2>3. QED
    BY <1>1, <1>4, <2>1, <2>2 DEF Settle
<1>6. InputOK' /\ MachineOK' /\ IndexOK' /\ SchemaOK'
  BY <1>1, <1>2, <1>4, <1>5 DEF Inv, TypeOK, InputOK, MachineOK, IndexOK, SchemaOK, Statuses
<1>7. Phases' /\ OpenField' /\ CellsInOrder'
  BY <1>1, <1>2 DEF Inv, Phases, OpenField, Open, CellsInOrder
<1>8. RowsAreFull' /\ HeaderAhead'
  BY <1>2, <1>3, <1>5 DEF Inv, RowsAreFull, HeaderAhead
<1>9. DigestsDataRows'
  <2>1. digested = {r \in 0 .. NumRows - 1 : dataFrom # None /\ r >= dataFrom}
    BY DEF Inv, DigestsDataRows
  <2>2. digested = {r \in 0 .. NumRows - 1 : dataFrom' # None /\ r >= dataFrom'}
    <3>1. CASE dataFrom' = dataFrom
      BY <2>1, <3>1
    <3>2. CASE dataFrom' # dataFrom
      <4>1. dataFrom = None /\ dataFrom' \in Nat /\ dataFrom' = NumRows
        <5>1. /\ dataFrom = None /\ dataFrom' = headerRows
              /\ headerRows \in Nat /\ NumRows >= headerRows
          BY <1>5, <3>2
        <5>2. NumRows <= headerRows
          BY <1>4, <5>1, HeaderAssumption
        <5>3. QED
          BY <1>3, <5>1, <5>2
      <4>2. \A r \in 0 .. NumRows - 1 : ~(r >= dataFrom')
        BY <1>3, <4>1
      <4>3. QED
        BY <2>1, <4>1, <4>2
    <3>3. QED
      BY <3>1, <3>2
  <2>3. QED
    BY <1>1, <1>3, <2>2 DEF DigestsDataRows
<1>10. QED
  BY <1>6, <1>7, <1>8, <1>9 DEF Inv, TypeOK

\* Every step keeps the invariant.
LEMMA NextKeepsInv == Inv /\ [Next]_vars => Inv'
<1> SUFFICES ASSUME Inv, [Next]_vars PROVE Inv'
  OBVIOUS
<1>1. CASE \E bytes \in Chunks : Chunk(bytes) \/ Borrow(bytes)
  BY <1>1, ChunkKeepsInv, BorrowKeepsInv
<1>2. CASE Finish \/ Return \/ Unterminated \/ UNCHANGED vars
  BY <1>2, FinishKeepsInv
<1>3. CASE DecideBom
  BY <1>3, DecideBomKeepsInv
<1>4. CASE AfterCr
  BY <1>4, AfterCrKeepsInv
<1>5. CASE Consume
  BY <1>5, ConsumeKeepsInv
<1>6. CASE Reject
  BY <1>6, RejectKeepsInv
<1>7. CASE CloseField
  BY <1>7, CloseFieldKeepsInv
<1>8. CASE CloseRow
  BY <1>8, CloseRowKeepsInv
<1>9. CASE EndRecord
  BY <1>9, EndRecordKeepsInv
<1>10. CASE Settle
  BY <1>10, SettleKeepsInv
<1>11. QED
  BY <1>1, <1>2, <1>3, <1>4, <1>5, <1>6, <1>7, <1>8, <1>9, <1>10 DEF Next, Host, Run

\* The parser's state keeps its shape: offsets within the bytes that arrived,
\* one sentinel at least, a sticky status.
THEOREM ParserTypeOK == Spec => []TypeOK
<1>1. Inv => TypeOK
  BY DEF Inv
<1>2. QED
  BY <1>1, InitInv, NextKeepsInv, PTL DEF Spec

\* What the invariant says of the index.
LEMMA InvGivesIndexSound == Inv => IndexSound
<1> SUFFICES ASSUME Inv PROVE IndexSound
  OBVIOUS
<1>1. \A i \in DOMAIN cells : cells[i] \in CellType
  BY IndicesAndElements DEF Inv, TypeOK, IndexOK
<1>2. \A i \in DOMAIN cells : cells[i].off \in Nat /\ cells[i].len \in Nat
  BY <1>1 DEF CellType
<1>3. Ranges
  BY <1>2 DEF Ranges, Inv, TypeOK, MachineOK, CellsInOrder
<1>4. \A r \in 1 .. NumRows : first[r + 1] = first[r] + columns
  BY DEF Inv, RowsAreFull
<1>5. ASSUME NEW i \in DOMAIN cells
      PROVE  /\ i > 1 => cells[i].off > cells[i - 1].off + cells[i - 1].len
             /\ status = "ok" /\ ~finished => start > cells[i].off + cells[i].len
  BY DEF Inv, CellsInOrder, OpenField, Open
<1>6. QED
  BY <1>3, <1>4, <1>5 DEF IndexSound

\* row_first_field plus a column is that cell, in every state of every parse: the
\* completed rows are full, fields lie in order in the bytes received, and no
\* length a field is closed with wraps (parse.c's push_field and row_end).
THEOREM ParserIndexSound == Spec => []IndexSound
BY InitInv, NextKeepsInv, InvGivesIndexSound, PTL DEF Spec

\* hash_row folds each row past the header once it is complete, and no other.
THEOREM ParserDigestsDataRows == Spec => []DigestsDataRows
<1>1. Inv => DigestsDataRows
  BY DEF Inv
<1>2. QED
  BY <1>1, InitInv, NextKeepsInv, PTL DEF Spec

\* RowEnd adds at most a row, under the ones there are.
LEMMA RowEndStands ==
  ASSUME Inv, NEW cs, NEW end, FieldsUpTo(cs, end), RowEnd(cs)
  PROVE  /\ Len(first') >= Len(first)
         /\ SubSeq(first', 1, Len(first)) = first
         /\ SubSeq(cells', 1, RowFirst) = SubSeq(cells, 1, RowFirst)
<1>1. /\ first \in Seq(Nat) /\ Len(first) \in Nat /\ Len(first) >= 1
      /\ RowFirst \in Nat /\ Len(cells) \in Nat /\ RowFirst <= Len(cells)
  BY IndicesAndElements DEF Inv, TypeOK, IndexOK, RowsAreFull, RowFirst
<1>2. cs \in Seq(CellType) /\ Len(cs) >= Len(cells)
  BY DEF FieldsUpTo
<1>3. /\ SubSeq(cells', 1, RowFirst) = SubSeq(cs, 1, RowFirst)
      /\ first' = first \/ first' = Append(first, Len(cells'))
      /\ cells' \in Seq(CellType)
  <2>1. /\ \A m \in 0 .. RowFirst : SubSeq(cells', 1, m) = SubSeq(cs, 1, m)
        /\ first' = first \/ first' = Append(first, Len(cells'))
        /\ IndexOK'
    BY <1>2, RowEndKeepsRows DEF Inv
  <2>2. RowFirst \in 0 .. RowFirst
    BY <1>1
  <2>3. QED
    BY <2>1, <2>2 DEF IndexOK
<1>4. SubSeq(cs, 1, RowFirst) = SubSeq(cells, 1, RowFirst)
  BY <1>1 DEF FieldsUpTo
<1>5. SubSeq(first, 1, Len(first)) = first
  BY <1>1, SubSeqFull
<1>6. Len(first') >= Len(first) /\ SubSeq(first', 1, Len(first)) = first
  <2>1. CASE first' = first
    BY <1>1, <1>5, <2>1
  <2>2. CASE first' = Append(first, Len(cells'))
    <3>1. Len(cells') \in Nat
      BY <1>3, LenProperties
    <3>2. Len(first') = Len(first) + 1
      BY <1>1, <2>2, <3>1, AppendProperties
    <3>3. SubSeq(first', 1, Len(first)) = SubSeq(first, 1, Len(first))
      BY <1>1, <2>2, <3>1, PrefixOfAppend
    <3>4. QED
      BY <1>1, <1>5, <3>2, <3>3
  <2>3. QED
    BY <1>3, <2>1, <2>2
<1>7. QED
  BY <1>3, <1>4, <1>6

\* What no step does to the rows that are complete.
Stands ==
  /\ Len(first') >= Len(first)
  /\ SubSeq(first', 1, Len(first)) = first
  /\ SubSeq(cells', 1, RowFirst) = SubSeq(cells, 1, RowFirst)

LEMMA NextStands == Inv /\ Next => Stands
<1> SUFFICES ASSUME Inv, Next PROVE Stands
  OBVIOUS
<1>1. /\ Len(first) \in Nat /\ RowFirst \in 0 .. Len(cells)
      /\ first \in Seq(Nat) /\ SubSeq(first, 1, Len(first)) = first
  BY IndicesAndElements, SubSeqFull DEF Inv, TypeOK, IndexOK, RowsAreFull, RowFirst
<1>2. CASE UNCHANGED <<first, cells>>
  BY <1>1, <1>2 DEF Stands
<1>3. CASE CloseField
  <2>1. first' = first /\ cells' \in {cells, Pushed} /\ Reading
    BY <1>3 DEF CloseField
  <2>2. FieldsUpTo(Pushed, pos)
    BY <2>1, ReadingFacts, FieldsPushed DEF Inv
  <2>3. SubSeq(Pushed, 1, RowFirst) = SubSeq(cells, 1, RowFirst)
    BY <1>1, <2>2 DEF FieldsUpTo
  <2>4. QED
    BY <1>1, <2>1, <2>3 DEF Stands
<1>4. CASE CloseRow
  <2>1. RowEnd(Pushed) /\ Reading
    BY <1>4 DEF CloseRow
  <2>2. FieldsUpTo(Pushed, pos)
    BY <2>1, ReadingFacts, FieldsPushed DEF Inv
  <2>3. QED
    BY <2>1, <2>2, RowEndStands DEF Stands
<1>5. CASE EndRecord /\ OpenRecord
  <2>1. AtEnd /\ RowEnd(LastCells)
    BY <1>5 DEF EndRecord
  <2>2. FieldsUpTo(LastCells, pos)
    BY <1>5, <2>1, LastFields
  <2>3. QED
    BY <2>1, <2>2, RowEndStands DEF Stands
<1>6. CASE Host \/ DecideBom \/ AfterCr \/ Consume \/ Reject \/ Return
  <2>1. UNCHANGED <<first, cells>>
    BY <1>6 DEF Host, Chunk, Borrow, Finish, DecideBom, AfterCr, Consume, Reject, Return, index
  <2>2. QED
    BY <1>2, <2>1
<1>7. CASE Unterminated \/ Settle \/ (EndRecord /\ ~OpenRecord)
  <2>1. UNCHANGED <<first, cells>>
    BY <1>7 DEF Unterminated, Settle, EndRecord, index
  <2>2. QED
    BY <1>2, <2>1
<1>8. QED
  BY <1>3, <1>4, <1>5, <1>6, <1>7 DEF Next, Run

\* A completed row is never moved, changed or taken back by a later chunk, row or
\* error, so that what points into it stays good (parse.c's row_end and run).
THEOREM ParserRowsStand == Spec => RowsStand
<1>1. Inv /\ [Next]_vars => [Stands]_vars
  BY NextStands
<1>2. QED
  BY <1>1, InitInv, NextKeepsInv, PTL DEF Spec, RowsStand, Stands

-----------------------------------------------------------------------------
(***************************************************************************)
(* What has arrived, and what has been read of it, stays.                  *)
(***************************************************************************)
\* A file of which the bytes of part are the first.
Continues(file, part) ==
  /\ file \in Seq(STRING) /\ Len(part) <= Len(file)
  /\ \A i \in 1 .. Len(part) : file[i] = part[i]

\* What has arrived is the beginning of what will have.
LEMMA DataGrows ==
  ASSUME Inv, [Next]_vars
  PROVE  Continues(data', data)
<1>1. data \in Seq(STRING) /\ Len(data) \in Nat
  BY LenProperties DEF Inv, TypeOK, InputOK
<1>2. CASE data' = data
  BY <1>1, <1>2 DEF Continues
<1>3. CASE \E bytes \in Chunks : Chunk(bytes) \/ Borrow(bytes)
  <2>1. PICK bytes \in Chunks : Chunk(bytes) \/ Borrow(bytes)
    BY <1>3
  <2>2. bytes \in Seq(STRING)
    BY CasesAssumption DEF Inv, TypeOK, InputOK, Chunks
  <2>3. data' = data \/ data' = data \o bytes \/ (mode = "none" /\ data' = bytes)
    BY <2>1 DEF Chunk, Borrow
  <2>4. CASE data' = data \o bytes
    <3>1. /\ Len(data \o bytes) = Len(data) + Len(bytes) /\ data \o bytes \in Seq(STRING)
          /\ \A i \in 1 .. Len(data) + Len(bytes) :
               (data \o bytes)[i] = IF i <= Len(data) THEN data[i] ELSE bytes[i - Len(data)]
      BY <1>1, <2>2, ConcatProperties
    <3>2. Len(bytes) \in Nat
      BY <2>2, LenProperties
    <3> QED BY <1>1, <2>4, <3>1, <3>2 DEF Continues
  <2>5. CASE mode = "none" /\ data' = bytes
    <3>1. Len(data) = 0 /\ Len(bytes) \in Nat
      BY <2>2, <2>5, EmptySeq, LenProperties DEF Inv, Phases
    <3> QED BY <2>2, <2>5, <3>1 DEF Continues
  <2> QED BY <1>2, <2>3, <2>4, <2>5
<1>4. CASE Finish \/ Run \/ Unterminated \/ EndRecord \/ Settle \/ UNCHANGED vars
  <2>1. UNCHANGED data
    BY <1>4 DEF Finish, Run, DecideBom, AfterCr, Consume, Reject, CloseField, CloseRow, Return,
       Unterminated, EndRecord, Settle, input, vars
  <2> QED BY <1>2, <2>1
<1> QED BY <1>3, <1>4 DEF Next, Host

\* The bytes of a range are the same in every file that continues this one.
LEMMA SameBytes ==
  ASSUME NEW part \in Seq(STRING), NEW file, Continues(file, part),
         NEW off \in Nat, NEW len \in Nat, off + len <= Len(part)
  PROVE  SubSeq(file, off + 1, off + len) = SubSeq(part, off + 1, off + len)
<1>1. Len(part) \in Nat /\ Len(file) \in Nat /\ file \in Seq(STRING)
  BY LenProperties DEF Continues
<1>2. /\ \A i \in 1 .. Len(part) : part[i] \in STRING
      /\ \A i \in 1 .. Len(file) : file[i] \in STRING
  BY <1>1, IndicesAndElements
<1>3. \A i \in off + 1 .. off + len :
        i \in 1 .. Len(part) /\ i \in 1 .. Len(file) /\ file[i] = part[i]
  BY <1>1 DEF Continues
<1> DEFINE n == IF off + 1 <= off + len THEN off + len - (off + 1) + 1 ELSE 0
           s == SubSeq(file, off + 1, off + len)
           t == SubSeq(part, off + 1, off + len)
<1>4. \A i \in off + 1 .. off + len : file[i] \in STRING /\ part[i] \in STRING
  BY <1>2, <1>3
<1>5. /\ s \in Seq(STRING) /\ Len(s) = n
      /\ \A i \in 1 .. off + len - (off + 1) + 1 : s[i] = file[off + 1 + i - 1]
  BY <1>4, SubSeqProperties, off + 1 \in Int, off + len \in Int
<1>6. /\ t \in Seq(STRING) /\ Len(t) = n
      /\ \A i \in 1 .. off + len - (off + 1) + 1 : t[i] = part[off + 1 + i - 1]
  BY <1>4, SubSeqProperties, off + 1 \in Int, off + len \in Int
<1>7. \A i \in 1 .. n : s[i] = t[i]
  <2>1. \A i \in 1 .. n : /\ i \in 1 .. off + len - (off + 1) + 1
                          /\ off + 1 + i - 1 \in off + 1 .. off + len
    OBVIOUS
  <2> QED BY <1>3, <1>5, <1>6, <2>1
<1> HIDE DEF s, t, n
<1>8. s = t
  BY <1>5, <1>6, <1>7, SeqEqual
<1> QED BY <1>8 DEF s, t

\* The text of a cell is settled once its bytes are there.
LEMMA TextStays ==
  ASSUME Inv, [Next]_vars, NEW cell \in CellType, cell.off + cell.len <= Len(data)
  PROVE  Text(cell)' = Text(cell)
<1>1. cell.off \in Nat /\ cell.len \in Nat /\ data \in Seq(STRING)
  BY DEF CellType, Inv, TypeOK, InputOK
<1>2. SubSeq(data', cell.off + 1, cell.off + cell.len)
        = SubSeq(data, cell.off + 1, cell.off + cell.len)
  BY <1>1, DataGrows, SameBytes
<1> QED BY <1>2 DEF Text

\* Rows of one width begin one after another.
LEMMA RowsAscend ==
  ASSUME NEW f \in Seq(Nat), NEW w \in Nat, Len(f) >= 1,
         \A i \in 1 .. Len(f) - 1 : f[i + 1] = f[i] + w,
         NEW r \in 1 .. Len(f) - 1
  PROVE  f[r] + w <= f[Len(f)]
<1>1. Len(f) \in Nat /\ \A i \in 1 .. Len(f) : f[i] \in Nat
  BY IndicesAndElements
<1> DEFINE n == Len(f) - 1 - r
           S == {k \in 0 .. n : f[r + 1] <= f[r + 1 + k]}
<1>3. n \in Nat
  BY <1>1
<1>4. 0 \in S
  BY <1>1, <1>3
<1>5. ASSUME NEW i \in 0 .. n - 1, i \in S PROVE i + 1 \in S
  <2>1. r + 1 + i \in 1 .. Len(f) - 1 /\ r + 1 + i \in 1 .. Len(f) /\ r + 1 \in 1 .. Len(f)
        /\ r + 1 + (i + 1) = (r + 1 + i) + 1 /\ r + 1 + (i + 1) \in 1 .. Len(f)
    BY <1>1, <1>3
  <2> QED BY <1>1, <1>3, <1>5, <2>1
<1> HIDE DEF S
<1>6. 0 .. n \subseteq S
  BY <1>3, <1>4, <1>5, UpTo
<1>7. n \in S
  <2>1. n \in 0 .. n
    BY <1>3
  <2> HIDE DEF n
  <2> QED BY <1>6, <2>1
<1>8. f[r + 1] <= f[Len(f)]
  BY <1>1, <1>7 DEF S
<1> QED BY <1>1, <1>8

\* A complete row lies before the sentinel.
LEMMA RowsBefore ==
  ASSUME Inv, NEW r \in 1 .. NumRows
  PROVE  /\ first[r] \in Nat /\ first[r] + columns <= RowFirst
         /\ RowFirst \in Nat /\ RowFirst <= Len(cells) /\ Len(cells) \in Nat /\ columns \in Nat
         /\ \A c \in 1 .. columns :
              first[r] + c \in 1 .. RowFirst /\ first[r] + c \in 1 .. Len(cells)
<1>1. /\ first \in Seq(Nat) /\ Len(first) \in Nat /\ Len(first) >= 1
      /\ \A i \in 1 .. Len(first) : first[i] \in Nat
      /\ columns \in Nat /\ Len(cells) \in Nat
  BY IndicesAndElements DEF Inv, TypeOK, IndexOK
<1>2. /\ RowFirst = first[Len(first)] /\ NumRows = Len(first) - 1 /\ RowFirst <= Len(cells)
      /\ \A i \in 1 .. NumRows : first[i + 1] = first[i] + columns
  BY DEF RowFirst, NumRows, Inv, RowsAreFull
<1>3. first[r] + columns <= RowFirst
  BY <1>1, <1>2, RowsAscend
<1>9. r \in 1 .. Len(first) /\ Len(first) \in 1 .. Len(first)
  BY <1>1, <1>2
<1> QED BY <1>1, <1>2, <1>3, <1>9

\* Complete rows stay where they are.
LEMMA RowsStay ==
  ASSUME Inv, [Next]_vars
  PROVE  /\ NumRows \in Nat /\ NumRows' \in Nat /\ NumRows <= NumRows'
         /\ NumRows > 0 => columns' = columns
         /\ \A r \in 1 .. NumRows : first'[r] = first[r]
         /\ \A i \in 1 .. RowFirst : cells'[i] = cells[i]
<1>1. Inv'
  BY NextKeepsInv
<1>2. /\ first \in Seq(Nat) /\ first' \in Seq(Nat) /\ Len(first) \in Nat /\ Len(first') \in Nat
      /\ Len(first) >= 1 /\ RowFirst \in 0 .. Len(cells)
      /\ cells \in Seq(CellType) /\ cells' \in Seq(CellType)
      /\ Len(cells) \in Nat /\ Len(cells') \in Nat
      /\ RowFirst' \in 0 .. Len(cells')
  BY <1>1, IndicesAndElements DEF Inv, TypeOK, IndexOK, RowsAreFull, RowFirst
<1>3. Stands
  BY <1>2, NextStands, SubSeqFull DEF Stands, vars, index
<1>4. \A r \in 1 .. Len(first) : first'[r] = first[r]
  <2>1. Len(first) \in 0 .. Len(first')
    BY <1>2, <1>3 DEF Stands
  <2>2. \A r \in 1 .. Len(first) : SubSeq(first', 1, Len(first))[r] = first'[r]
    BY <1>2, <2>1, Prefix
  <2> QED BY <1>3, <2>2 DEF Stands
<1>5. RowFirst <= Len(cells')
  <2>1. Len(first) \in 1 .. Len(first') /\ first'[Len(first)] = RowFirst
    BY <1>2, <1>3, <1>4 DEF Stands, RowFirst
  <2>2. CASE Len(first) = Len(first')
    BY <1>2, <2>1, <2>2 DEF RowFirst
  <2>3. CASE Len(first) # Len(first')
    <3>1. Len(first) \in 1 .. Len(first') - 1
      BY <1>2, <2>1, <2>3
    <3>2. columns' \in Nat /\ \A i \in 1 .. Len(first') - 1 : first'[i + 1] = first'[i] + columns'
      BY <1>1, <1>2 DEF Inv, TypeOK, IndexOK, RowsAreFull, NumRows
    <3>3. first'[Len(first)] + columns' <= first'[Len(first')]
      <4>1. Len(first') >= 1
        BY <1>2, <1>3 DEF Stands
      <4> QED BY <1>2, <3>1, <3>2, <4>1, RowsAscend
    <3>4. first'[Len(first)] \in Nat /\ RowFirst' = first'[Len(first')]
      BY <1>2, <2>1 DEF RowFirst
    <3> QED BY <1>2, <2>1, <3>2, <3>3, <3>4
  <2> QED BY <2>2, <2>3
<1>6. \A i \in 1 .. RowFirst : cells'[i] = cells[i]
  <2>1. \A i \in 1 .. RowFirst : SubSeq(cells', 1, RowFirst)[i] = cells'[i]
    BY <1>2, <1>5, Prefix
  <2>2. \A i \in 1 .. RowFirst : SubSeq(cells, 1, RowFirst)[i] = cells[i]
    BY <1>2, Prefix
  <2> QED BY <1>3, <2>1, <2>2 DEF Stands
<1>7. NumRows > 0 => columns' = columns
  <2>1. \/ UNCHANGED columns
        \/ \E cs : RowEnd(cs)
    BY DEF Next, Host, Chunk, Borrow, Finish, Run, DecideBom, AfterCr, Consume, Reject,
       CloseField, CloseRow, Return, Unterminated, EndRecord, Settle, index, vars
  <2>2. NumRows \in Int
    BY <1>2 DEF NumRows
  <2>3. NumRows > 0 => NumRows # 0
    BY <2>2
  <2> QED BY <2>1, <2>3 DEF RowEnd
<1>8. NumRows \in Nat /\ NumRows' \in Nat /\ NumRows <= NumRows'
  BY <1>2, <1>3 DEF Stands, NumRows
<1>9. \A r \in 1 .. NumRows : first'[r] = first[r]
  BY <1>2, <1>4 DEF NumRows
<1> QED BY <1>6, <1>7, <1>8, <1>9

-----------------------------------------------------------------------------
(***************************************************************************)
(* The header.                                                             *)
(***************************************************************************)
\* The cells of row r are the column names.
IsHeader(r) ==
  /\ columns = Len(Names)
  /\ \A c \in DOMAIN Names : Text(cells[first[r] + c]) = Names[c]

\* While no row was found to be the header none is; the one found is the first, and
\* data begins after it unless the caller has the names looked for elsewhere.
Detects ==
  /\ headerRows = HeaderAuto =>
       /\ dataFrom = None
       /\ status = "ok" => NumRows < ScanRows
       /\ \A r \in 1 .. NumRows : r <= ScanRows => ~IsHeader(r)
  /\ headerRows # HeaderAuto =>
       /\ headerRows \in 1 .. NumRows /\ headerRows <= ScanRows
       /\ IsHeader(headerRows) /\ \A r \in 1 .. headerRows - 1 : ~IsHeader(r)
       /\ dataFrom = headerRows \/ (dataFrom = None /\ status # "ok")
  /\ status = "header" => headerRows = HeaderAuto
  /\ status = "mismatch" => NameRow \in 1 .. ScanRows

Settled == finished /\ call = "idle" /\ status = "ok" => dataFrom # None

HeaderInv == Inv /\ (HeaderRows = HeaderAuto => Detects /\ Settled)

\* A complete row goes on being the header, or not being it.
LEMMA IsHeaderStays ==
  ASSUME Inv, [Next]_vars, NEW r \in 1 .. NumRows
  PROVE  IsHeader(r)' <=> IsHeader(r)
<1>1. NumRows \in Nat /\ NumRows > 0 /\ columns' = columns /\ first'[r] = first[r]
  BY RowsStay
<1>2. CASE columns # Len(Names)
  BY <1>1, <1>2 DEF IsHeader
<1>3. CASE columns = Len(Names)
  <2>1. DOMAIN Names = 1 .. columns
    BY <1>3, HeaderAssumption, LenProperties
  <2>2. ASSUME NEW c \in 1 .. columns
        PROVE  Text(cells[first[r] + c])' = Text(cells[first[r] + c])
    <3> DEFINE cell == cells[first[r] + c]
    <3>1. /\ first[r] + c \in 1 .. RowFirst /\ first[r] + c \in 1 .. Len(cells)
          /\ cells' [first'[r] + c] = cell
      BY <1>1, RowsBefore, RowsStay
    <3>2. cell \in CellType /\ cell.off + cell.len <= Len(data)
      BY <3>1, IndicesAndElements DEF Inv, TypeOK, IndexOK, CellsInOrder
    <3>3. ASSUME NEW x \in CellType, x.off + x.len <= Len(data) PROVE Text(x)' = Text(x)
      BY <3>3, TextStays
    <3>4. PICK x : x = cell
      OBVIOUS
    <3>5. Text(x)' = Text(x)
      BY <3>2, <3>3, <3>4
    <3>6. cells'[first'[r] + c] = x /\ cells[first[r] + c] = x
      BY <3>1, <3>4
    <3> QED BY <3>5, <3>6 DEF Text
  <2> QED BY <1>1, <2>1, <2>2 DEF IsHeader
<1> QED BY <1>2, <1>3

\* The row that ends is looked at in its turn.
LEMMA RowEndDetects ==
  ASSUME Inv, [Next]_vars, Detects, status = "ok", data' = data,
         NEW cs \in Seq(CellType), Len(cs) >= Len(cells), RowEnd(cs)
  PROVE  Detects'
<1>1. /\ NumRows \in Nat /\ \A r \in 1 .. NumRows : IsHeader(r)' <=> IsHeader(r)
  BY IsHeaderStays, RowsStay
<1>2. /\ headerRows \in Nat \cup {HeaderAuto} /\ first \in Seq(Nat) /\ Len(first) \in Nat
      /\ Len(first) >= 1 /\ NumRows = Len(first) - 1 /\ RowFirst \in Nat
      /\ ScanRows \in Nat /\ NameRow \in Nat /\ HeaderAuto \notin Nat
  BY HeaderAssumption, IndicesAndElements DEF Inv, TypeOK, SchemaOK, IndexOK, NumRows, RowFirst
<1>3. CASE RowError(cs) # "ok"
  <2>1. /\ first' = first /\ UNCHANGED <<headerRows, dataFrom>> /\ NumRows' = NumRows
        /\ status' \in {"columns", "ragged", "rows"}
    BY <1>3 DEF RowEnd, schema, RowError, NumRows
  <2>2. headerRows = HeaderAuto => Detects'
    BY <1>1, <1>2, <2>1 DEF Detects
  <2>3. headerRows # HeaderAuto => Detects'
    BY <1>1, <1>2, <2>1 DEF Detects
  <2> QED BY <2>2, <2>3
<1>4. CASE RowError(cs) = "ok"
  <2>0. PICK kept, row : kept = Kept(cs) /\ row = NumRows + 1
    OBVIOUS
  <2>1. /\ cells' = kept /\ first' = Append(first, Len(kept))
        /\ headerRows' = HeaderAfter(kept) /\ dataFrom' = DataFromAfter(kept)
        /\ status' = IF ScannedOut(kept) THEN "header"
                     ELSE IF Mismatched(kept) THEN "mismatch" ELSE "ok"
    BY <1>4, <2>0 DEF RowEnd
  <2>2. /\ IndexOK' /\ RowsAreFull'
    BY RowEndKeepsRows DEF Inv
  <2>3. Len(kept) \in Nat /\ kept \in Seq(CellType)
    BY <2>1, <2>2, LenProperties DEF IndexOK
  <2>4. /\ Len(first') = row + 1 /\ first'[row] = RowFirst /\ first'[row + 1] = Len(kept)
        /\ first[row] = RowFirst /\ NumRows' = row
    <3>1. /\ Len(first') = Len(first) + 1
          /\ \A i \in 1 .. Len(first) : first'[i] = first[i]
          /\ first'[Len(first) + 1] = Len(kept)
      BY <1>2, <2>1, <2>3, AppendProperties
    <3> QED BY <1>2, <2>0, <3>1 DEF RowFirst, NumRows
  <2>5. Width(kept) = columns'
    <3>1. row \in 1 .. NumRows' /\ columns' \in Nat
      BY <1>2, <2>0, <2>2, <2>4 DEF IndexOK
    <3>2. first'[row + 1] = first'[row] + columns'
      BY <2>2, <3>1 DEF RowsAreFull
    <3>3. Len(kept) = RowFirst + columns' /\ columns' \in Nat
      BY <2>4, <3>1, <3>2
    <3>4. columns' = Len(kept) - RowFirst
      <4>1. PICK from, n, wide : from = RowFirst /\ n = Len(kept) /\ wide = columns'
        OBVIOUS
      <4>2. from \in Nat /\ n = from + wide /\ wide \in Nat
        BY <1>2, <3>3, <4>1
      <4>3. wide = n - from
        BY <4>2
      <4> QED BY <4>1, <4>3
    <3> QED BY <3>4 DEF Width
  <2>6. MatchesNames(kept, row) <=> IsHeader(row)'
    BY <2>0, <2>1, <2>4, <2>5 DEF MatchesNames, IsHeader, Text
  <2>7. \A r \in 1 .. row : r # row => r \in 1 .. NumRows
    BY <1>2, <2>0
  <2>8. CASE headerRows = HeaderAuto /\ IsHeader(row)'
    <3>1. /\ dataFrom = None /\ row <= ScanRows /\ \A r \in 1 .. NumRows : ~IsHeader(r)
      BY <1>2, <2>0, <2>8 DEF Detects
    <3>2. HeaderAfter(kept) = row /\ row # HeaderAuto /\ Resolves(kept) /\ ~ScannedOut(kept)
      BY <1>2, <2>0, <2>6, <2>8, <3>1 DEF HeaderAfter, Resolves, ScannedOut
    <3>3. Mismatched(kept) => NameRow \in 1 .. ScanRows
      <4>1. NameRow \notin 1 .. row => ~Mismatched(kept)
        BY <2>0, <2>6, <2>8, <3>2 DEF Mismatched, NamesAt
      <4> QED BY <1>2, <2>0, <3>1, <4>1
    <3>4. /\ headerRows' = row
          /\ IF Mismatched(kept) THEN dataFrom' = None /\ status' = "mismatch"
                                ELSE dataFrom' = row /\ status' = "ok"
      BY <2>0, <2>1, <3>1, <3>2 DEF DataFromAfter
    <3>5. \A r \in 1 .. row - 1 : ~IsHeader(r)'
      BY <1>1, <1>2, <2>0, <3>1
    <3> QED BY <1>2, <2>0, <2>4, <2>8, <3>1, <3>2, <3>3, <3>4, <3>5 DEF Detects
  <2>9. CASE headerRows = HeaderAuto /\ ~IsHeader(row)'
    <3>1. /\ dataFrom = None /\ row <= ScanRows /\ \A r \in 1 .. NumRows : ~IsHeader(r)
      BY <1>2, <2>0, <2>9 DEF Detects
    <3>2. HeaderAfter(kept) = HeaderAuto /\ ~Resolves(kept) /\ ~Mismatched(kept)
      BY <1>2, <2>0, <2>6, <2>9, <3>1 DEF HeaderAfter, Resolves, Mismatched
    <3>3. headerRows' = HeaderAuto /\ dataFrom' = None
      BY <2>0, <2>1, <3>1, <3>2 DEF DataFromAfter
    <3>4. status' \in {"ok", "header"} /\ (status' = "ok" => row < ScanRows)
      BY <1>2, <2>0, <2>1, <3>1, <3>2 DEF ScannedOut
    <3>5. \A r \in 1 .. row : ~IsHeader(r)'
      BY <1>1, <2>0, <2>7, <2>9, <3>1
    <3> QED BY <2>4, <3>3, <3>4, <3>5 DEF Detects
  <2>10. CASE headerRows # HeaderAuto
    <3>1. /\ headerRows \in 1 .. NumRows /\ headerRows <= ScanRows
          /\ IsHeader(headerRows) /\ \A r \in 1 .. headerRows - 1 : ~IsHeader(r)
          /\ dataFrom = headerRows /\ dataFrom # None
      BY <1>2, <2>0, <2>10 DEF Detects, None
    <3>2. HeaderAfter(kept) = headerRows /\ ~Resolves(kept) /\ ~Mismatched(kept) /\ ~ScannedOut(kept)
      BY <3>1 DEF HeaderAfter, Resolves, Mismatched, ScannedOut
    <3>3. headerRows' = headerRows /\ dataFrom' = dataFrom /\ status' = "ok"
      BY <2>0, <2>1, <3>2 DEF DataFromAfter
    <3>4. headerRows \in 1 .. row /\ \A r \in 1 .. headerRows - 1 : r \in 1 .. NumRows
      BY <1>2, <2>0, <3>1
    <3>5. IsHeader(headerRows)' /\ \A r \in 1 .. headerRows - 1 : ~IsHeader(r)'
      <4>1. PICK h : h = headerRows
        OBVIOUS
      <4>2. IsHeader(h)'
        BY <1>1, <3>1, <4>1
      <4>3. \A r \in 1 .. headerRows - 1 : ~IsHeader(r)'
        BY <1>1, <3>1, <3>4
      <4> QED BY <3>3, <4>1, <4>2, <4>3 DEF IsHeader
    <3> QED BY <2>4, <2>10, <3>1, <3>3, <3>4, <3>5 DEF Detects
  <2> QED BY <2>8, <2>9, <2>10
<1> QED BY <1>3, <1>4

\* A step that completes no row and settles nothing leaves the header as it is.
LEMMA DetectsFramed ==
  ASSUME Inv, [Next]_vars, Detects, UNCHANGED <<first, headerRows, dataFrom>>,
         status' = status \/ status' \notin {"ok", "header", "mismatch"}
  PROVE  Detects'
<1>1. NumRows' = NumRows /\ NumRows \in Nat
  BY RowsStay DEF NumRows
<1>2. \A r \in 1 .. NumRows : IsHeader(r)' <=> IsHeader(r)
  BY IsHeaderStays
<1>3. CASE headerRows = HeaderAuto
  BY <1>1, <1>2, <1>3 DEF Detects
<1>4. CASE headerRows # HeaderAuto
  <2>1. /\ headerRows \in 1 .. NumRows /\ headerRows <= ScanRows
        /\ IsHeader(headerRows) /\ \A r \in 1 .. headerRows - 1 : ~IsHeader(r)
    BY <1>4 DEF Detects
  <2>2. PICK h : h = headerRows
    OBVIOUS
  <2>3. IsHeader(h)'
    BY <1>2, <2>1, <2>2
  <2>4. \A r \in 1 .. headerRows - 1 : ~IsHeader(r)'
    BY <1>1, <1>2, <2>1
  <2>5. IsHeader(headerRows)'
    BY <2>2, <2>3 DEF IsHeader
  <2>6. dataFrom = headerRows \/ (dataFrom = None /\ status # "ok")
    BY <1>4 DEF Detects
  <2> QED BY <1>1, <1>4, <2>1, <2>4, <2>5, <2>6 DEF Detects
<1> QED BY <1>3, <1>4

\* The schema is settled by the end of the parse.
LEMMA SettlesAtEnd ==
  ASSUME Inv, [Next]_vars, Settled
  PROVE  Settled'
<1>1. call # "idle" => status = "ok"
  BY DEF Inv, Phases
<1>2. CASE \E bytes \in Chunks : Chunk(bytes) \/ Borrow(bytes)
  <2>1. /\ finished' = finished /\ dataFrom' = dataFrom
        /\ call = "idle" /\ status = "ok"
        /\ finished => status' = "misuse"
    BY <1>2 DEF Chunk, Borrow, Fail, schema
  <2> QED BY <2>1 DEF Settled
<1>3. CASE Finish
  BY <1>3 DEF Finish, Settled
<1>4. CASE DecideBom \/ Return
  <2>1. ~finished /\ finished' = finished
    BY <1>4 DEF DecideBom, Return, Inv, Phases, input
  <2> QED BY <2>1 DEF Settled
<1>5. CASE AfterCr \/ Consume \/ CloseField
  <2>1. call' = call /\ call # "idle"
    BY <1>5 DEF AfterCr, Consume, CloseField, Reading, Running
  <2> QED BY <2>1 DEF Settled
<1>6. CASE Reject \/ Unterminated
  <2>1. status' # "ok"
    BY <1>6 DEF Reject, Unterminated, Fail
  <2> QED BY <2>1 DEF Settled
<1>7. CASE CloseRow
  <2>1. status' = "ok" => call' = call /\ call # "idle"
    BY <1>7 DEF CloseRow, Reading, Running
  <2> QED BY <2>1 DEF Settled
<1>8. CASE EndRecord
  <2>1. status' = "ok" => call' = "settle"
    BY <1>8 DEF EndRecord
  <2> QED BY <2>1 DEF Settled
<1>9. CASE Settle
  <2>1. status' = "ok" => dataFrom' # None
    <3>1. \A k \in Nat : k # None
      BY DEF None
    <3>2. headerRows # HeaderAuto => headerRows \in Nat
      BY DEF Inv, TypeOK, SchemaOK
    <3> QED BY <1>1, <1>9, <3>1, <3>2 DEF Settle
  <2> QED BY <2>1 DEF Settled
<1>10. CASE UNCHANGED vars
  BY <1>10 DEF vars, input, schema, Settled
<1> QED BY <1>2, <1>3, <1>4, <1>5, <1>6, <1>7, <1>8, <1>9, <1>10 DEF Next, Host, Run

LEMMA NextDetects ==
  ASSUME Inv, [Next]_vars, Detects
  PROVE  Detects'
<1>1. call # "idle" => status = "ok"
  BY DEF Inv, Phases
<1>2. CASE Host \/ DecideBom \/ AfterCr \/ Consume \/ Reject \/ CloseField \/ Return
             \/ Unterminated \/ (EndRecord /\ ~OpenRecord) \/ UNCHANGED vars
  <2>1. UNCHANGED <<first, headerRows, dataFrom>>
    BY <1>2 DEF Host, Chunk, Borrow, Finish, DecideBom, AfterCr, Consume, Reject, CloseField,
       Return, Unterminated, EndRecord, vars, index, schema
  <2>2. status' = status \/ status' \in {"misuse", "too large", "content", "unterminated"}
    BY <1>2 DEF Host, Chunk, Borrow, Finish, DecideBom, AfterCr, Consume, Reject, CloseField,
       Return, Unterminated, EndRecord, Fail, vars
  <2> QED BY <2>1, <2>2, DetectsFramed
<1>3. CASE CloseRow
  <2>1. Reading /\ RowEnd(Pushed) /\ UNCHANGED data /\ status = "ok"
    BY <1>3 DEF CloseRow, Reading, Running, input
  <2>2. FieldsUpTo(Pushed, pos)
    BY <2>1, ReadingFacts, FieldsPushed DEF Inv
  <2>3. PICK cs : cs = Pushed
    OBVIOUS
  <2>4. cs \in Seq(CellType) /\ Len(cs) >= Len(cells) /\ RowEnd(cs)
    BY <2>1, <2>2, <2>3 DEF FieldsUpTo
  <2> QED BY <2>1, <2>4, RowEndDetects
<1>4. CASE EndRecord /\ OpenRecord
  <2>1. AtEnd /\ RowEnd(LastCells) /\ UNCHANGED data /\ status = "ok"
    BY <1>4 DEF EndRecord, AtEnd, Running, input
  <2>2. FieldsUpTo(LastCells, pos)
    BY <1>4, <2>1, LastFields
  <2>3. PICK cs : cs = LastCells
    OBVIOUS
  <2>4. cs \in Seq(CellType) /\ Len(cs) >= Len(cells) /\ RowEnd(cs)
    BY <2>1, <2>2, <2>3 DEF FieldsUpTo
  <2> QED BY <2>1, <2>4, RowEndDetects
<1>5. CASE Settle
  <2>1. /\ status = "ok" /\ UNCHANGED <<first, columns, headerRows>>
    BY <1>1, <1>5 DEF Settle, index
  <2>2. CASE headerRows = HeaderAuto
    <3>1. dataFrom = None /\ dataFrom' = dataFrom /\ status' = "header"
      BY <1>5, <2>2 DEF Settle, Detects
    <3>2. NumRows' = NumRows /\ NumRows \in Nat
      BY <2>1, RowsStay DEF NumRows
    <3>3. \A r \in 1 .. NumRows : IsHeader(r)' <=> IsHeader(r)
      BY IsHeaderStays
    <3> QED BY <2>1, <2>2, <3>1, <3>2, <3>3 DEF Detects
  <2>3. CASE headerRows # HeaderAuto
    <3>1. headerRows \in 1 .. NumRows /\ dataFrom = headerRows
      BY <2>1, <2>3 DEF Detects
    <3>2. \A k \in Nat : k # None
      BY DEF None
    <3>3. NumRows \in Nat
      BY RowsStay
    <3>4. dataFrom' = dataFrom /\ status' = status
      BY <1>5, <3>1, <3>2, <3>3 DEF Settle
    <3> QED BY <2>1, <3>4, DetectsFramed
  <2> QED BY <2>2, <2>3
<1> QED BY <1>2, <1>3, <1>4, <1>5 DEF Next, Run

LEMMA HeaderInit == Init => HeaderInv
<1> SUFFICES ASSUME Init PROVE HeaderInv
  OBVIOUS
<1>1. first = <<0>> /\ headerRows = HeaderRows /\ dataFrom = None /\ status = "ok" /\ ~finished
  BY DEF Init
<1>2. NumRows = 0 /\ ScanRows \in Nat /\ ScanRows > 0
  BY <1>1, HeaderAssumption DEF NumRows
<1>3. \A r : r \notin 1 .. NumRows
  BY <1>2
<1>4. HeaderRows = HeaderAuto => Detects /\ Settled
  BY <1>1, <1>2, <1>3 DEF Detects, Settled
<1> QED BY <1>4, InitInv DEF HeaderInv

LEMMA HeaderNext == HeaderInv /\ [Next]_vars => HeaderInv'
<1> SUFFICES ASSUME HeaderInv, [Next]_vars PROVE HeaderInv'
  OBVIOUS
<1>1. UNCHANGED case
  BY DEF Next, Host, Chunk, Borrow, Finish, Run, DecideBom, AfterCr, Consume, Reject, CloseField,
     CloseRow, Return, Unterminated, EndRecord, Settle, input, vars
<1>2. HeaderRows' = HeaderRows
  BY <1>1 DEF HeaderRows
<1> QED BY <1>2, NextKeepsInv, NextDetects, SettlesAtEnd DEF HeaderInv

\* The rows of the index that are the column names, among those that are looked at.
LEMMA MatchingRows ==
  ASSUME Inv
  PROVE  Matching(RowsRead) = {r \in 1 .. NumRows : r <= ScanRows /\ IsHeader(r)}
<1>1. NumRows \in Nat /\ columns \in Nat
  BY LenProperties DEF Inv, TypeOK, IndexOK, NumRows
<1>2. Len(RowsRead) = NumRows
  BY <1>1 DEF RowsRead
<1>3. ASSUME NEW r \in 1 .. NumRows
      PROVE  (/\ Len(RowsRead[r]) = Len(Names)
              /\ \A c \in DOMAIN Names : Text(RowsRead[r][c]) = Names[c]) <=> IsHeader(r)
  <2>1. RowsRead[r] = [c \in 1 .. columns |-> cells[first[r] + c]]
    BY DEF RowsRead
  <2>2. Len(RowsRead[r]) = columns
    BY <1>1, <2>1
  <2>3. CASE columns # Len(Names)
    BY <2>2, <2>3 DEF IsHeader
  <2>4. CASE columns = Len(Names)
    <3>1. DOMAIN Names = 1 .. columns
      BY <2>4, HeaderAssumption, LenProperties
    <3>2. \A c \in 1 .. columns : RowsRead[r][c] = cells[first[r] + c]
      BY <2>1
    <3> QED BY <2>2, <2>4, <3>1, <3>2 DEF IsHeader
  <2> QED BY <2>3, <2>4
<1> QED BY <1>2, <1>3 DEF Matching

\* A refusal of what was detected as the header apart, it is the first there is.
LEMMA HeaderInvFinds == HeaderInv /\ status # "mismatch" => HeaderFound
<1> SUFFICES ASSUME HeaderInv, call = "idle", HeaderRows = HeaderAuto, status # "mismatch"
             PROVE  /\ status = "ok" /\ finished =>
                         /\ dataFrom \in Matching(RowsRead)
                         /\ \A r \in Matching(RowsRead) : dataFrom <= r
                    /\ status \in {"header", "mismatch"} => Matching(RowsRead) = {}
  BY DEF HeaderFound
<1>1. /\ Inv /\ Detects /\ Settled
      /\ Matching(RowsRead) = {r \in 1 .. NumRows : r <= ScanRows /\ IsHeader(r)}
  BY MatchingRows DEF HeaderInv
<1>2. CASE status = "ok" /\ finished
  <2>1. dataFrom # None
    BY <1>1, <1>2 DEF Settled
  <2>2. /\ dataFrom = headerRows /\ headerRows \in 1 .. NumRows /\ headerRows <= ScanRows
        /\ IsHeader(headerRows) /\ \A r \in 1 .. headerRows - 1 : ~IsHeader(r)
    BY <1>1, <1>2, <2>1 DEF Detects
  <2>3. \A r \in 1 .. NumRows : IsHeader(r) => headerRows <= r
    <3>1. NumRows \in Nat
      BY <1>1, LenProperties DEF Inv, TypeOK, IndexOK, NumRows
    <3> QED BY <2>2, <3>1
  <2> QED BY <1>1, <1>2, <2>2, <2>3
<1>3. CASE status = "header"
  <2>1. \A r \in 1 .. NumRows : r <= ScanRows => ~IsHeader(r)
    BY <1>1, <1>3 DEF Detects
  <2> QED BY <1>1, <1>3, <2>1
<1> QED BY <1>2, <1>3

\* Whatever rows the caller names: the row taken for the header is the first of the
\* scanned ones whose cells are the column names, and a file that runs out of rows
\* to scan has none (ibha_schema_row_matches_names, row_end, ibha_schema_resolve).
THEOREM ParserHeaderFoundUnlessNamed == Spec => [](status # "mismatch" => HeaderFound)
BY HeaderInit, HeaderNext, HeaderInvFinds, PTL DEF Spec

\* Where the caller's layout names no row the scan could reach, header detection
\* is what its comment says, without exception: the first row that is the column
\* names, or a refusal because no row is (schema.c:10).
THEOREM ParserHeaderFound ==
  ASSUME NameRow \notin 1 .. ScanRows
  PROVE  Spec => []HeaderFound
<1>1. HeaderInv => HeaderFound
  BY HeaderInvFinds DEF HeaderInv, Detects, HeaderFound
<1> QED BY <1>1, HeaderInit, HeaderNext, PTL DEF Spec

-----------------------------------------------------------------------------
(***************************************************************************)
(* The grammar of CsvGrammar: what ends a field, a record and a file.      *)
(***************************************************************************)

\* The least of some numbers.
LEMMA MinIs ==
  ASSUME NEW T \in SUBSET Nat, T # {}
  PROVE  G!Min(T) \in T /\ \A x \in T : G!Min(T) <= x
<1>1. \E x \in T : \A y \in T : x <= y
  BY LeastElement
<1> QED BY <1>1 DEF G!Min

\* So is the greatest of some numbers up to n.
LEMMA MaxIs ==
  ASSUME NEW n \in Nat, NEW T \in SUBSET (0 .. n), T # {}
  PROVE  G!Max(T) \in T /\ \A x \in T : x <= G!Max(T)
<1>1. \E x \in T : \A y \in T : x >= y
  <2>1. PICK x \in T : \A y \in T : y <= x
    BY GreatestElement
  <2>2. \A y \in T : x >= y
    BY <2>1
  <2> QED BY <2>2
<1>2. G!Max(T) \in T /\ \A x \in T : G!Max(T) >= x
  BY <1>1 DEF G!Max
<1> QED BY <1>2

\* The position of the first of some bytes.
Firsts(file, i, S, e) ==
  /\ e \in i .. Len(file) + 1 /\ \A k \in i .. e - 1 : file[k] \notin S
  /\ e <= Len(file) => file[e] \in S

\* FirstFrom is that position, and the only one.
LEMMA FirstFromIs ==
  ASSUME NEW file \in Seq(STRING), NEW i \in 1 .. Len(file) + 1, NEW S
  PROVE  /\ Firsts(file, i, S, G!FirstFrom(file, i, S))
         /\ \A e : Firsts(file, i, S, e) => G!FirstFrom(file, i, S) = e
<1> DEFINE hits == {j \in i .. Len(file) : file[j] \in S}
           m == G!FirstFrom(file, i, S)
<1>1. Len(file) \in Nat /\ hits \in SUBSET Nat
  BY LenProperties
<1>2. m = IF hits = {} THEN Len(file) + 1 ELSE G!Min(hits)
  BY DEF G!FirstFrom
<1>3. hits # {} => G!Min(hits) \in hits /\ \A x \in hits : G!Min(hits) <= x
  BY <1>1, MinIs
<1>4. Firsts(file, i, S, m)
  <2>1. CASE hits = {}
    <3>1. \A k \in i .. Len(file) : file[k] \notin S
      BY <2>1
    <3> QED BY <1>1, <1>2, <2>1, <3>1 DEF Firsts
  <2>2. CASE hits # {}
    <3>1. m \in hits /\ \A x \in hits : m <= x
      BY <1>2, <1>3, <2>2
    <3>2. m \in i .. Len(file) /\ file[m] \in S
      BY <3>1
    <3>3. \A k \in i .. m - 1 : file[k] \notin S
      <4>1. ASSUME NEW k \in i .. m - 1, file[k] \in S PROVE FALSE
        <5>1. k \in hits
          BY <1>1, <3>2, <4>1
        <5> HIDE DEF m, hits
        <5>2. m <= k
          BY <3>1, <5>1
        <5> QED BY <1>1, <3>2, <4>1, <5>2
      <4> QED BY <4>1
    <3> HIDE DEF m
    <3> QED BY <1>1, <3>2, <3>3 DEF Firsts
  <2> QED BY <2>1, <2>2
<1>5. ASSUME NEW e, Firsts(file, i, S, e) PROVE m = e
  <2> HIDE DEF m
  <2> QED BY <1>1, <1>4, <1>5 DEF Firsts
<1> QED BY <1>4, <1>5

\* How many quotes in a row end at a position, one more position at a time.
LEMMA QuotesStep ==
  ASSUME NEW file \in Seq(STRING), NEW i \in 1 .. Len(file) + 1
  PROVE  /\ G!QuotesUpTo(file, i, i - 1) = 0
         /\ \A j \in i .. Len(file) :
              /\ file[j] # "quote" => G!QuotesUpTo(file, i, j) = 0
              /\ file[j] = "quote" => G!QuotesUpTo(file, i, j) = G!QuotesUpTo(file, i, j - 1) + 1
         /\ \A j \in i - 1 .. Len(file) : G!QuotesUpTo(file, i, j) \in Nat
<1> DEFINE Runs(j) == {n \in 0 .. j - i + 1 : \A k \in j - n + 1 .. j : file[k] = "quote"}
<1>1. Len(file) \in Nat
  BY LenProperties
<1>2. ASSUME NEW j \in i - 1 .. Len(file)
      PROVE  /\ G!QuotesUpTo(file, i, j) \in Runs(j)
             /\ \A x \in Runs(j) : x <= G!QuotesUpTo(file, i, j)
  <2>1. j - i + 1 \in Nat /\ Runs(j) \in SUBSET (0 .. j - i + 1)
    BY <1>1
  <2>2. 0 \in Runs(j)
    BY <1>1
  <2> HIDE DEF Runs
  <2>3. G!Max(Runs(j)) \in Runs(j) /\ \A x \in Runs(j) : x <= G!Max(Runs(j))
    BY <2>1, <2>2, MaxIs
  <2> QED BY <2>3 DEF G!QuotesUpTo, Runs
<1>3. \A j \in i - 1 .. Len(file) : G!QuotesUpTo(file, i, j) \in Nat
  BY <1>1, <1>2
<1>4. G!QuotesUpTo(file, i, i - 1) = 0
  <2>1. i - 1 \in i - 1 .. Len(file)
    BY <1>1
  <2>2. G!QuotesUpTo(file, i, i - 1) \in 0 .. (i - 1) - i + 1
    BY <1>2, <2>1
  <2> QED BY <2>2
<1>5. ASSUME NEW j \in i .. Len(file), file[j] # "quote"
      PROVE  G!QuotesUpTo(file, i, j) = 0
  <2>1. PICK n : n = G!QuotesUpTo(file, i, j)
    OBVIOUS
  <2>2. n \in Runs(j)
    BY <1>1, <1>2, <2>1
  <2>3. n \in 0 .. j - i + 1 /\ \A k \in j - n + 1 .. j : file[k] = "quote"
    BY <2>2
  <2>4. n > 0 => j \in j - n + 1 .. j
    BY <1>1, <2>3
  <2> QED BY <1>5, <2>1, <2>3, <2>4
<1>6. ASSUME NEW j \in i .. Len(file), file[j] = "quote"
      PROVE  G!QuotesUpTo(file, i, j) = G!QuotesUpTo(file, i, j - 1) + 1
  <2>1. PICK n, m : n = G!QuotesUpTo(file, i, j) /\ m = G!QuotesUpTo(file, i, j - 1)
    OBVIOUS
  <2>2. /\ n \in Runs(j) /\ \A x \in Runs(j) : x <= n
        /\ m \in Runs(j - 1) /\ \A x \in Runs(j - 1) : x <= m
    <3>1. j \in i - 1 .. Len(file) /\ j - 1 \in i - 1 .. Len(file)
      BY <1>1
    <3> HIDE DEF Runs
    <3> QED BY <1>2, <2>1, <3>1
  <2>3. /\ n \in 0 .. j - i + 1 /\ \A k \in j - n + 1 .. j : file[k] = "quote"
        /\ m \in 0 .. j - 1 - i + 1 /\ \A k \in (j - 1) - m + 1 .. j - 1 : file[k] = "quote"
    BY <2>2
  <2>4. m + 1 \in Runs(j)
    <3>1. m + 1 \in 0 .. j - i + 1
      BY <1>1, <2>3
    <3>2. \A k \in j - (m + 1) + 1 .. j : k = j \/ k \in (j - 1) - m + 1 .. j - 1
      BY <1>1, <2>3
    <3> QED BY <1>6, <2>3, <3>1, <3>2
  <2>5. n > 0 => n - 1 \in Runs(j - 1)
    <3>1. n > 0 => n - 1 \in 0 .. (j - 1) - i + 1
      BY <1>1, <2>3
    <3>2. \A k \in (j - 1) - (n - 1) + 1 .. j - 1 : k \in j - n + 1 .. j
      BY <1>1, <2>3
    <3> QED BY <2>3, <3>1, <3>2
  <2> HIDE DEF Runs
  <2>6. m + 1 <= n /\ (n > 0 => n - 1 <= m)
    BY <2>2, <2>4, <2>5
  <2>7. n = m + 1
    BY <1>1, <2>3, <2>6
  <2> QED BY <2>1, <2>7
<1> QED BY <1>3, <1>4, <1>5, <1>6

\* What a field that starts at a position is made of.
FieldType(file, i) ==
  [field : CellType, end : i .. Len(file) + 1, error : {"ok", "content", "unterminated"}]

\* A bare field is what lies before the first byte that ends one.
LEMMA BareIs ==
  ASSUME NEW file \in Seq(STRING), NEW i \in 1 .. Len(file) + 1
  PROVE  /\ G!Bare(file, i) \in FieldType(file, i)
         /\ \A e : Firsts(file, i, Enders, e) =>
              G!Bare(file, i) = [field |-> Cell(i - 1, e - i, {}), end |-> e, error |-> "ok"]
<1>1. Len(file) \in Nat
  BY LenProperties
<1>2. PICK m : m = G!FirstFrom(file, i, Enders)
  OBVIOUS
<1>3. m \in i .. Len(file) + 1
  BY <1>2, FirstFromIs DEF Firsts
<1>4. G!Bare(file, i) = [field |-> Cell(i - 1, m - i, {}), end |-> m, error |-> "ok"]
  <2>1. G!Enders = Enders
    BY DEF G!Enders, G!Eol, Enders
  <2> QED BY <1>2, <2>1 DEF G!Bare, G!Field, Cell
<1>5. Cell(i - 1, m - i, {}) \in CellType
  BY <1>1, <1>3 DEF CellType, Cell
<1>6. \A e : Firsts(file, i, Enders, e) => e = m
  BY <1>2, FirstFromIs
<1> QED BY <1>3, <1>4, <1>5, <1>6 DEF FieldType

\* The flags of the body of a quoted field.
BodyFlags(file, i, j) ==
  {"quoted"} \cup {x \in {"escape"} : \E k \in i + 1 .. j - 1 : file[k] = "quote"}
             \cup {x \in {"newline"} : \E k \in i + 1 .. j - 1 : file[k] \in {"cr", "lf"}}

\* A field closed at j is its body, its flags, and what follows the padding.
LEMMA ClosedAtIs ==
  ASSUME NEW file \in Seq(STRING), NEW i \in 1 .. Len(file), NEW j \in i + 1 .. Len(file)
  PROVE  /\ G!ClosedAt(file, i, j) \in FieldType(file, i)
         /\ G!ClosedAt(file, i, j).field = Cell(i, j - 1 - i, BodyFlags(file, i, j))
         /\ \A e \in j + 1 .. Len(file) + 1 :
              (\A k \in j + 1 .. e - 1 : file[k] = "space") /\ (e <= Len(file) => file[e] # "space") =>
                /\ G!ClosedAt(file, i, j).end = e
                /\ G!ClosedAt(file, i, j).error =
                     IF e > Len(file) \/ file[e] \in Enders THEN "ok" ELSE "content"
<1>1. Len(file) \in Nat /\ j + 1 \in 1 .. Len(file) + 1
  BY LenProperties
<1> DEFINE solid == G!Range(file) \ {"space"}
<1>2. PICK m : m = G!FirstFrom(file, j + 1, solid)
  OBVIOUS
<1>3. /\ m \in j + 1 .. Len(file) + 1
      /\ \A e : Firsts(file, j + 1, solid, e) => e = m
  <2> HIDE DEF solid
  <2> QED BY <1>1, <1>2, FirstFromIs DEF Firsts
<1>4. PICK fs : fs = BodyFlags(file, i, j)
  OBVIOUS
<1>5. G!Enders = Enders /\ G!Eol = {"cr", "lf"}
  BY DEF G!Enders, G!Eol, Enders
<1>6. G!ClosedAt(file, i, j) =
        [field |-> Cell(i, j - 1 - i, fs), end |-> m,
         error |-> IF m > Len(file) \/ file[m] \in Enders THEN "ok" ELSE "content"]
  BY <1>2, <1>4, <1>5 DEF G!ClosedAt, G!Field, Cell, BodyFlags
<1>7. Cell(i, j - 1 - i, fs) \in CellType
  BY <1>1, <1>4 DEF CellType, Cell, BodyFlags, Flags
<1>8. ASSUME NEW e \in j + 1 .. Len(file) + 1,
             \A k \in j + 1 .. e - 1 : file[k] = "space", e <= Len(file) => file[e] # "space"
      PROVE  e = m
  <2>1. DOMAIN file = 1 .. Len(file)
    BY LenProperties
  <2>2. e <= Len(file) => file[e] \in solid
    <3>1. e <= Len(file) => e \in DOMAIN file
      BY <1>1, <2>1
    <3> QED BY <1>8, <3>1 DEF G!Range
  <2>3. Firsts(file, j + 1, solid, e)
    BY <1>8, <2>2 DEF Firsts
  <2> QED BY <1>3, <2>3
<1>9. G!ClosedAt(file, i, j) \in FieldType(file, i)
  BY <1>1, <1>3, <1>6, <1>7 DEF FieldType
<1> QED BY <1>4, <1>6, <1>8, <1>9

\* Where a quoted field is closed.
LEMMA QuotedIs ==
  ASSUME NEW file \in Seq(STRING), NEW i \in 1 .. Len(file)
  PROVE  /\ G!Quoted(file, i) \in FieldType(file, i)
         /\ G!Closers(file, i) \subseteq i + 1 .. Len(file)
         /\ \A j \in G!Closers(file, i) :
              (\A k \in i + 1 .. j - 1 : k \notin G!Closers(file, i)) =>
                G!Quoted(file, i) = G!ClosedAt(file, i, j)
         /\ G!Closers(file, i) = {} => G!Quoted(file, i).error = "unterminated"
<1>1. Len(file) \in Nat
  BY LenProperties
<1>2. G!Closers(file, i) \in SUBSET Nat /\ G!Closers(file, i) \subseteq i + 1 .. Len(file)
  BY <1>1 DEF G!Closers
<1>3. CASE G!Closers(file, i) = {}
  <2>1. Cell(i, 0, {}) \in CellType
    BY <1>1 DEF CellType, Cell
  <2>2. G!Quoted(file, i) =
          [field |-> Cell(i, 0, {}), end |-> Len(file) + 1, error |-> "unterminated"]
    BY <1>3 DEF G!Quoted, G!Field, Cell
  <2> QED BY <1>1, <1>2, <1>3, <2>1, <2>2 DEF FieldType
<1>4. CASE G!Closers(file, i) # {}
  <2>1. PICK m : m = G!Min(G!Closers(file, i))
    OBVIOUS
  <2>2. m \in G!Closers(file, i) /\ \A x \in G!Closers(file, i) : m <= x
    BY <1>2, <1>4, <2>1, MinIs
  <2>3. G!Quoted(file, i) = G!ClosedAt(file, i, m)
    BY <1>4, <2>1 DEF G!Quoted
  <2>4. ASSUME NEW j \in G!Closers(file, i), \A k \in i + 1 .. j - 1 : k \notin G!Closers(file, i)
        PROVE  j = m
    <3>1. m <= j /\ m \notin i + 1 .. j - 1
      BY <2>2, <2>4
    <3> QED BY <1>1, <1>2, <2>2, <3>1
  <2>5. G!ClosedAt(file, i, m) \in FieldType(file, i)
    BY <1>2, <2>2, ClosedAtIs
  <2> QED BY <1>2, <1>4, <2>3, <2>4, <2>5
<1> QED BY <1>3, <1>4

\* Any field is one of those.
LEMMA FieldFromTyped ==
  ASSUME NEW file \in Seq(STRING), NEW i \in 1 .. Len(file) + 1
  PROVE  G!FieldFrom(file, i) \in FieldType(file, i)
<1>1. Len(file) \in Nat
  BY LenProperties
<1>2. CASE i <= Len(file) /\ file[i] = "quote"
  BY <1>1, <1>2, QuotedIs DEF G!FieldFrom
<1>3. CASE ~(i <= Len(file) /\ file[i] = "quote")
  BY <1>3, BareIs DEF G!FieldFrom
<1> QED BY <1>2, <1>3

-----------------------------------------------------------------------------
\* A field before a record.
Before(field, record) == [record EXCEPT !.fields = <<field>> \o @]

\* The step of the grammar at a position.
Delimited(file, i) ==
  LET r == G!FieldFrom(file, i)
  IN  r.error = "ok" /\ r.end <= Len(file) /\ file[r.end] = "delim"

\* The record that the field at i ends.
Last(file, i) ==
  LET r == G!FieldFrom(file, i)
  IN  [fields |-> <<r.field>>, end |-> r.end, error |-> r.error]

\* What a record is made of.
RecordType(file) ==
  [fields : Seq(CellType), end : 1 .. Len(file) + 1, error : {"ok", "content", "unterminated"}]

\* RecordAt does what it says: the recursion has a solution.
LEMMA RecordAtIs ==
  ASSUME NEW file \in Seq(STRING)
  PROVE  \A i \in 1 .. Len(file) + 1 :
           G!RecordAt(file)[i] =
             IF Delimited(file, i) THEN Before(G!FieldFrom(file, i).field,
                                               G!RecordAt(file)[G!FieldFrom(file, i).end + 1])
             ELSE Last(file, i)
<1> DEFINE n == Len(file) + 1
           V == RecordType(file)
           Goes == {i \in 1 .. n : Delimited(file, i)}
           next == [i \in 1 .. n |-> G!FieldFrom(file, i).end + 1]
           step == [i \in 1 .. n |-> [v \in V |-> Before(G!FieldFrom(file, i).field, v)]]
           base == [i \in 1 .. n |-> Last(file, i)]
<1>1. n \in Nat /\ Len(file) \in Nat
  BY LenProperties
<1>2. \A i \in 1 .. n : G!FieldFrom(file, i) \in FieldType(file, i)
  BY FieldFromTyped
<1>3. \A i \in Goes : next[i] \in i + 1 .. n
  BY <1>1, <1>2 DEF FieldType, Delimited
<1>4. ASSUME NEW field \in CellType, NEW v \in V PROVE Before(field, v) \in V
  <2>1. v.fields \in Seq(CellType) /\ <<field>> \in Seq(CellType)
    BY DEF RecordType
  <2>2. <<field>> \o v.fields \in Seq(CellType)
    BY <2>1
  <2> QED BY <2>2 DEF Before, RecordType
<1>5. \A i \in Goes : step[i] \in [V -> V]
  <2>1. \A i \in Goes : G!FieldFrom(file, i).field \in CellType
    BY <1>2 DEF FieldType
  <2> QED BY <1>4, <2>1
<1>6. \A i \in 1 .. n : base[i] \in V
  <2>1. ASSUME NEW i \in 1 .. n PROVE Last(file, i) \in V
    <3>1. PICK r : r = G!FieldFrom(file, i)
      OBVIOUS
    <3>2. r.field \in CellType /\ r.end \in i .. n /\ r.error \in {"ok", "content", "unterminated"}
      BY <1>2, <3>1 DEF FieldType
    <3>3. <<r.field>> \in Seq(CellType) /\ r.end \in 1 .. n
      BY <1>1, <3>2
    <3> QED BY <3>1, <3>2, <3>3 DEF Last, RecordType
  <2> QED BY <2>1
<1>7. Goes \in SUBSET (1 .. n)
  OBVIOUS
<1>8. \A i \in Goes, v \in V : step[i][v] = Before(G!FieldFrom(file, i).field, v)
  OBVIOUS
<1>9. /\ \A i \in 1 .. n : base[i] = Last(file, i) /\ next[i] = G!FieldFrom(file, i).end + 1
      /\ \A i \in 1 .. n : i \in Goes <=> Delimited(file, i)
  OBVIOUS
<1> HIDE DEF Goes, next, step, base, V, n
<1>10. PICK f : Descending(f, n, V, Goes, next, step, base)
  BY <1>1, <1>3, <1>5, <1>6, <1>7, Descent
<1> DEFINE Body(g, i) ==
      LET r == G!FieldFrom(file, i)
      IN  IF r.error = "ok" /\ r.end <= Len(file) /\ file[r.end] = "delim"
          THEN [g[r.end + 1] EXCEPT !.fields = <<r.field>> \o @]
          ELSE [fields |-> <<r.field>>, end |-> r.end, error |-> r.error]
<1>11. ASSUME NEW i \in 1 .. n PROVE f[i] = Body(f, i)
  <2>1. f \in [1 .. n -> V] /\ f[i] = IF i \in Goes THEN step[i][f[next[i]]] ELSE base[i]
    BY <1>10 DEF Descending
  <2>2. CASE i \in Goes
    <3>1. next[i] \in 1 .. n
      BY <1>1, <1>3, <2>2
    <3>2. f[next[i]] \in V
      BY <2>1, <3>1
    <3> QED BY <1>8, <1>9, <2>1, <2>2, <3>2 DEF Delimited, Before
  <2>3. CASE i \notin Goes
    BY <1>9, <2>1, <2>3 DEF Delimited, Last
  <2> QED BY <2>2, <2>3
<1>12. f = [i \in 1 .. n |-> Body(f, i)]
  <2>1. f = [i \in 1 .. n |-> f[i]]
    BY <1>10 DEF Descending
  <2> HIDE DEF Body
  <2> QED BY <1>11, <2>1
<1>13. G!RecordAt(file) = [i \in 1 .. Len(file) + 1 |-> Body(G!RecordAt(file), i)]
  <2>1. \E g : g = [i \in 1 .. Len(file) + 1 |-> Body(g, i)]
    <3> HIDE DEF Body
    <3> QED BY <1>12 DEF n
  <2> QED BY <2>1, Zenon DEF G!RecordAt
<1> QED BY <1>13 DEF Delimited, Before, Last

\* A record ends where it starts or later.
LEMMA RecordTyped ==
  ASSUME NEW file \in Seq(STRING)
  PROVE  \A i \in 1 .. Len(file) + 1 :
           G!RecordAt(file)[i] \in RecordType(file) /\ G!RecordAt(file)[i].end >= i
<1> DEFINE n == Len(file) + 1
           Good(i) == G!RecordAt(file)[i] \in RecordType(file) /\ G!RecordAt(file)[i].end >= i
           S == {m \in 0 .. n : \A i \in n - m + 1 .. n : Good(i)}
<1>1. n \in Nat /\ Len(file) \in Nat
  BY LenProperties
<1>2. 0 \in S
  BY <1>1
<1>3. ASSUME NEW m \in 0 .. n - 1, m \in S PROVE m + 1 \in S
  <2>1. PICK k : k = n - m
    OBVIOUS
  <2>2. k \in 1 .. n /\ \A i \in k + 1 .. n : Good(i)
    <3>1. \A i \in n - m + 1 .. n : Good(i)
      BY <1>3
    <3> HIDE DEF Good
    <3> QED BY <1>1, <2>1, <3>1
  <2>3. PICK r : r = G!FieldFrom(file, k)
    OBVIOUS
  <2>4. r.field \in CellType /\ r.end \in k .. n /\ r.error \in {"ok", "content", "unterminated"}
    BY <2>2, <2>3, FieldFromTyped DEF FieldType
  <2>5. G!RecordAt(file)[k] =
          IF Delimited(file, k) THEN Before(r.field, G!RecordAt(file)[r.end + 1]) ELSE Last(file, k)
    BY <2>2, <2>3, RecordAtIs
  <2>6. <<r.field>> \in Seq(CellType)
    BY <2>4
  <2>10. m + 1 \in 0 .. n /\ \A i \in n - (m + 1) + 1 .. n : i = k \/ i \in k + 1 .. n
    BY <1>1, <2>1
  <2>11. SUFFICES Good(k)
    <3> HIDE DEF Good
    <3> QED BY <2>2, <2>10
  <2>7. CASE Delimited(file, k)
    <3>1. PICK v : v = G!RecordAt(file)[r.end + 1]
      OBVIOUS
    <3>2. r.end + 1 \in k + 1 .. n
      BY <1>1, <2>2, <2>3, <2>4, <2>7 DEF Delimited
    <3>3. v \in RecordType(file) /\ v.end >= r.end + 1
      BY <2>2, <3>1, <3>2
    <3>4. v.fields \in Seq(CellType) /\ v.end \in 1 .. n
      BY <3>3 DEF RecordType
    <3>5. <<r.field>> \o v.fields \in Seq(CellType)
      BY <2>6, <3>4
    <3>6. Before(r.field, v) \in RecordType(file) /\ Before(r.field, v).end = v.end
      BY <3>3, <3>5 DEF Before, RecordType
    <3>7. v.end >= k
      BY <1>1, <2>2, <3>2, <3>3, <3>4
    <3> QED BY <2>1, <2>5, <2>7, <3>1, <3>6, <3>7, <1>1, <2>2
  <2>8. CASE ~Delimited(file, k)
    <3>1. Last(file, k) = [fields |-> <<r.field>>, end |-> r.end, error |-> r.error]
      BY <2>3 DEF Last
    <3>2. r.end \in 1 .. n /\ r.end >= k
      BY <1>1, <2>2, <2>4
    <3>3. Good(k)
      BY <2>4, <2>5, <2>6, <2>8, <3>1, <3>2 DEF RecordType
    <3> QED BY <3>3
  <2> QED BY <2>7, <2>8
<1>4. 0 .. n \subseteq S
  <2> HIDE DEF S
  <2> QED BY <1>1, <1>2, <1>3, UpTo
<1>5. n \in S /\ n - n + 1 = 1
  <2>1. n \in 0 .. n
    BY <1>1
  <2> HIDE DEF S, n
  <2> QED BY <1>1, <1>4, <2>1
<1> QED BY <1>5

\* What follows a record lies past its start.
LEMMA AfterEndIs ==
  ASSUME NEW file \in Seq(STRING), NEW i \in 1 .. Len(file), NEW end \in i .. Len(file) + 1
  PROVE  G!AfterEnd(file, end) \in i + 1 .. Len(file) + 1
<1>1. Len(file) \in Nat
  BY LenProperties
<1> QED BY <1>1 DEF G!AfterEnd

\* Some rows before a result.
Ahead(rows, result) == [result EXCEPT !.rows = rows \o @]

\* What is read from a position on.
ResultType == [rows : Seq(Seq(CellType)), error : {"ok", "content", "unterminated"}]

\* The records from a position on.
LEMMA RecordsAtIs ==
  ASSUME NEW file \in Seq(STRING)
  PROVE  /\ G!RecordsAt(file)[Len(file) + 1] = [rows |-> <<>>, error |-> "ok"]
         /\ \A i \in 1 .. Len(file) :
              LET r == G!RecordAt(file)[i]
                  tail == G!RecordsAt(file)[G!AfterEnd(file, r.end)]
              IN  G!RecordsAt(file)[i] =
                    IF r.error # "ok" THEN [rows |-> <<>>, error |-> r.error]
                    ELSE IF r.fields = <<Cell(i - 1, 0, {})>> THEN tail
                    ELSE Ahead(<<r.fields>>, tail)
<1> DEFINE n == Len(file) + 1
           V == ResultType
           Fails(i) == G!RecordAt(file)[i].error # "ok"
           Blanks(i) == G!RecordAt(file)[i].fields = <<Cell(i - 1, 0, {})>>
           Goes == {i \in 1 .. Len(file) : ~Fails(i)}
           next == [i \in 1 .. n |-> G!AfterEnd(file, G!RecordAt(file)[i].end)]
           step == [i \in 1 .. n |-> [v \in V |->
                      IF Blanks(i) THEN v ELSE Ahead(<<G!RecordAt(file)[i].fields>>, v)]]
           base == [i \in 1 .. n |-> [rows |-> <<>>,
                      error |-> IF i > Len(file) THEN "ok" ELSE G!RecordAt(file)[i].error]]
<1>1. n \in Nat /\ Len(file) \in Nat /\ 1 .. Len(file) \subseteq 1 .. n
  BY LenProperties
<1>2. \A i \in 1 .. n : G!RecordAt(file)[i] \in RecordType(file) /\ G!RecordAt(file)[i].end >= i
  BY RecordTyped
<1>3. ASSUME NEW i \in Goes PROVE next[i] \in i + 1 .. n
  <2>1. i \in 1 .. Len(file) /\ i \in 1 .. n /\ G!RecordAt(file)[i].end \in i .. n
    BY <1>1, <1>2 DEF RecordType
  <2> QED BY <2>1, AfterEndIs
<1>4. ASSUME NEW fields \in Seq(CellType), NEW v \in V PROVE Ahead(<<fields>>, v) \in V
  <2>1. v.rows \in Seq(Seq(CellType)) /\ <<fields>> \in Seq(Seq(CellType))
    BY DEF ResultType
  <2>2. <<fields>> \o v.rows \in Seq(Seq(CellType))
    BY <2>1
  <2> QED BY <2>2 DEF Ahead, ResultType
<1>5. ASSUME NEW i \in Goes PROVE step[i] \in [V -> V]
  <2>1. i \in 1 .. n /\ G!RecordAt(file)[i].fields \in Seq(CellType)
    BY <1>1, <1>2 DEF RecordType
  <2>2. PICK fields : fields = G!RecordAt(file)[i].fields
    OBVIOUS
  <2>3. step[i] = [v \in V |-> IF Blanks(i) THEN v ELSE Ahead(<<fields>>, v)]
    BY <2>1, <2>2
  <2> HIDE DEF step, Blanks, V
  <2> QED BY <1>4, <2>1, <2>2, <2>3
<1>6. ASSUME NEW i \in 1 .. n PROVE base[i] \in V
  <2>1. <<>> \in Seq(Seq(CellType))
    OBVIOUS
  <2>2. G!RecordAt(file)[i].error \in {"ok", "content", "unterminated"}
    BY <1>2 DEF RecordType
  <2> QED BY <2>1, <2>2 DEF ResultType
<1>7. Goes \in SUBSET (1 .. n)
  BY <1>1
<1>8. /\ \A i \in Goes, v \in V :
           step[i][v] = IF Blanks(i) THEN v ELSE Ahead(<<G!RecordAt(file)[i].fields>>, v)
      /\ \A i \in 1 .. n :
           /\ next[i] = G!AfterEnd(file, G!RecordAt(file)[i].end)
           /\ base[i] = [rows |-> <<>>,
                         error |-> IF i > Len(file) THEN "ok" ELSE G!RecordAt(file)[i].error]
           /\ i \in Goes <=> i <= Len(file) /\ ~Fails(i)
  BY <1>1
<1> HIDE DEF Goes, next, step, base, V, n, Fails, Blanks
<1>10. PICK f : Descending(f, n, V, Goes, next, step, base)
  BY <1>1, <1>3, <1>5, <1>6, <1>7, Descent
<1> DEFINE Body(g, i) ==
      LET r == G!RecordAt(file)[i]
          tail == g[G!AfterEnd(file, r.end)]
      IN  IF i > Len(file) THEN [rows |-> <<>>, error |-> "ok"]
          ELSE IF r.error # "ok" THEN [rows |-> <<>>, error |-> r.error]
          ELSE IF r.fields = <<G!Field(i - 1, 0, {})>> THEN tail
          ELSE [tail EXCEPT !.rows = <<r.fields>> \o @]
<1>11. ASSUME NEW i \in 1 .. n PROVE f[i] = Body(f, i)
  <2>1. f \in [1 .. n -> V] /\ f[i] = IF i \in Goes THEN step[i][f[next[i]]] ELSE base[i]
    BY <1>10 DEF Descending
  <2>2. \A a : G!Field(a, 0, {}) = Cell(a, 0, {})
    BY DEF G!Field, Cell
  <2>0. i \in Nat
    BY <1>1
  <2>3. CASE i \in Goes
    <3>1. next[i] \in 1 .. n
      BY <1>1, <1>3, <2>3
    <3>2. f[next[i]] \in V
      BY <2>1, <3>1
    <3>3. i <= Len(file) /\ ~Fails(i)
      BY <1>8, <2>3
    <3>4. ~(i > Len(file))
      BY <1>1, <2>0, <3>3
    <3>5. f[i] = IF Blanks(i) THEN f[next[i]] ELSE Ahead(<<G!RecordAt(file)[i].fields>>, f[next[i]])
      BY <1>8, <2>1, <2>3, <3>2
    <3>6. f[i] = IF Blanks(i) THEN f[G!AfterEnd(file, G!RecordAt(file)[i].end)]
                 ELSE Ahead(<<G!RecordAt(file)[i].fields>>, f[G!AfterEnd(file, G!RecordAt(file)[i].end)])
      BY <1>8, <3>5
    <3> QED BY <2>2, <3>3, <3>4, <3>6 DEF Blanks, Fails, Ahead
  <2>4. CASE i \notin Goes
    <3>1. i > Len(file) \/ Fails(i)
      <4>1. ~(i <= Len(file)) \/ Fails(i)
        BY <1>8, <2>4
      <4> QED BY <1>1, <2>0, <4>1
    <3> QED BY <1>8, <2>1, <2>4, <3>1 DEF Fails
  <2> QED BY <2>3, <2>4
<1>12. f = [i \in 1 .. n |-> Body(f, i)]
  <2>1. f = [i \in 1 .. n |-> f[i]]
    BY <1>10 DEF Descending
  <2> HIDE DEF Body
  <2> QED BY <1>11, <2>1
<1>13. G!RecordsAt(file) = [i \in 1 .. Len(file) + 1 |-> Body(G!RecordsAt(file), i)]
  <2>1. \E g : g = [i \in 1 .. Len(file) + 1 |-> Body(g, i)]
    <3> HIDE DEF Body
    <3> QED BY <1>12 DEF n
  <2> QED BY <2>1, Zenon DEF G!RecordsAt
<1>14. \A a : G!Field(a, 0, {}) = Cell(a, 0, {})
  BY DEF G!Field, Cell
<1>15. /\ Len(file) + 1 \in 1 .. Len(file) + 1 /\ Len(file) + 1 > Len(file)
       /\ \A i \in 1 .. Len(file) : i \in 1 .. Len(file) + 1 /\ ~(i > Len(file))
  BY <1>1
<1>16. \A i \in 1 .. Len(file) + 1 : G!RecordsAt(file)[i] = Body(G!RecordsAt(file), i)
  <2> HIDE DEF Body
  <2> QED BY <1>13
<1>17. G!RecordsAt(file)[Len(file) + 1] = [rows |-> <<>>, error |-> "ok"]
  BY <1>15, <1>16
<1>18. ASSUME NEW i \in 1 .. Len(file)
       PROVE  LET r == G!RecordAt(file)[i]
                  tail == G!RecordsAt(file)[G!AfterEnd(file, r.end)]
              IN  G!RecordsAt(file)[i] =
                    IF r.error # "ok" THEN [rows |-> <<>>, error |-> r.error]
                    ELSE IF r.fields = <<Cell(i - 1, 0, {})>> THEN tail
                    ELSE Ahead(<<r.fields>>, tail)
  <2>1. G!RecordsAt(file)[i] = Body(G!RecordsAt(file), i) /\ ~(i > Len(file))
    <3> HIDE DEF Body
    <3> QED BY <1>15, <1>16
  <2> QED BY <1>14, <2>1 DEF Ahead
<1> QED BY <1>17, <1>18

\* Rows before a result make a result, ...
LEMMA AheadTyped ==
  ASSUME NEW rows \in Seq(Seq(CellType)), NEW result \in ResultType
  PROVE  /\ Ahead(rows, result) \in ResultType
         /\ Ahead(rows, result).rows = rows \o result.rows
         /\ Ahead(rows, result).error = result.error
<1>1. result.rows \in Seq(Seq(CellType))
  BY DEF ResultType
<1>2. rows \o result.rows \in Seq(Seq(CellType))
  BY <1>1
<1> QED BY <1>2 DEF Ahead, ResultType

\* ... however many at a time they are put there.
LEMMA AheadTwice ==
  ASSUME NEW rows \in Seq(Seq(CellType)), NEW more \in Seq(Seq(CellType)), NEW result \in ResultType
  PROVE  Ahead(rows, Ahead(more, result)) = Ahead(rows \o more, result)
<1>1. result.rows \in Seq(Seq(CellType))
  BY DEF ResultType
<1>2. PICK R, u : R = Seq(CellType) /\ u = result.rows
  OBVIOUS
<1>3. rows \in Seq(R) /\ more \in Seq(R) /\ u \in Seq(R)
  BY <1>1, <1>2
<1>4. (rows \o more) \o u = rows \o (more \o u)
  BY <1>3, ConcatAssociative
<1> QED BY <1>2, <1>4 DEF Ahead, ResultType

\* RecordsAt gives results.
LEMMA RecordsTyped ==
  ASSUME NEW file \in Seq(STRING)
  PROVE  \A i \in 1 .. Len(file) + 1 : G!RecordsAt(file)[i] \in ResultType
<1> DEFINE n == Len(file) + 1
           Good(i) == G!RecordsAt(file)[i] \in ResultType
           S == {m \in 0 .. Len(file) : \A i \in n - m .. n : Good(i)}
<1>1. n \in Nat /\ Len(file) \in Nat
  BY LenProperties
<1>2. 0 \in S
  <2>1. <<>> \in Seq(Seq(CellType))
    OBVIOUS
  <2>2. Good(n)
    <3>1. G!RecordsAt(file)[n] = [rows |-> <<>>, error |-> "ok"]
      BY RecordsAtIs
    <3> QED BY <2>1, <3>1 DEF ResultType
  <2>3. \A i \in n - 0 .. n : i = n
    BY <1>1
  <2> HIDE DEF Good
  <2> QED BY <1>1, <2>2, <2>3
<1>3. ASSUME NEW m \in 0 .. Len(file) - 1, m \in S PROVE m + 1 \in S
  <2>1. PICK k : k = n - (m + 1)
    OBVIOUS
  <2>2. k \in 1 .. Len(file) /\ k \in 1 .. n /\ \A i \in k + 1 .. n : Good(i)
    <3>1. \A i \in n - m .. n : Good(i)
      BY <1>3
    <3> HIDE DEF Good
    <3> QED BY <1>1, <2>1, <3>1
  <2>3. m + 1 \in 0 .. Len(file) /\ \A i \in n - (m + 1) .. n : i = k \/ i \in k + 1 .. n
    BY <1>1, <2>1
  <2>4. SUFFICES Good(k)
    <3> HIDE DEF Good
    <3> QED BY <2>2, <2>3
  <2>5. PICK r, tail : r = G!RecordAt(file)[k] /\ tail = G!RecordsAt(file)[G!AfterEnd(file, r.end)]
    OBVIOUS
  <2>6. r \in RecordType(file) /\ r.end >= k
    BY <2>2, <2>5, RecordTyped
  <2>7. r.end \in k .. n /\ r.fields \in Seq(CellType) /\ r.error \in {"ok", "content", "unterminated"}
    BY <1>1, <2>2, <2>6 DEF RecordType
  <2>8. tail \in ResultType
    <3>1. G!AfterEnd(file, r.end) \in k + 1 .. n
      BY <2>2, <2>7, AfterEndIs
    <3> QED BY <2>2, <2>5, <3>1
  <2>9. G!RecordsAt(file)[k] =
          IF r.error # "ok" THEN [rows |-> <<>>, error |-> r.error]
          ELSE IF r.fields = <<Cell(k - 1, 0, {})>> THEN tail
          ELSE Ahead(<<r.fields>>, tail)
    BY <2>2, <2>5, RecordsAtIs
  <2>10. Ahead(<<r.fields>>, tail) \in ResultType
    <3>1. <<r.fields>> \in Seq(Seq(CellType))
      BY <2>7
    <3> QED BY <2>8, <3>1, AheadTyped
  <2>11. [rows |-> <<>>, error |-> r.error] \in ResultType
    <3>1. <<>> \in Seq(Seq(CellType))
      OBVIOUS
    <3> QED BY <2>7, <3>1 DEF ResultType
  <2> QED BY <2>8, <2>9, <2>10, <2>11
<1>4. 0 .. Len(file) \subseteq S
  <2> HIDE DEF S
  <2> QED BY <1>1, <1>2, <1>3, UpTo
<1>5. Len(file) \in S /\ n - Len(file) = 1
  <2>1. Len(file) \in 0 .. Len(file)
    BY <1>1
  <2>2. Len(file) \in S
    <3> HIDE DEF S, n
    <3> QED BY <1>1, <1>4, <2>1
  <2> QED BY <1>1, <2>2
<1> QED BY <1>5

-----------------------------------------------------------------------------
\* What is read of some rows.
Cut(rows, width) == [r \in 1 .. Len(rows) |-> SubSeq(rows[r], 1, width)]

\* Rows with which nothing is wrong.
Fine(rows, width, maxRows, maxColumns) ==
  /\ rows \in Seq(Seq(CellType))
  /\ Len(rows) > 0 => Len(rows[1]) = width
  /\ \A r \in 1 .. Len(rows) : G!RowError(rows, r, maxRows, maxColumns) = "ok"

\* A table begins with the rows there are; and it ends with them when no row
\* follows, or one that is refused.
LEMMA TableOf ==
  ASSUME NEW width \in Nat, NEW maxRows \in Nat, NEW maxColumns \in Nat,
         NEW done, Fine(done, width, maxRows, maxColumns), NEW rest \in ResultType
  PROVE  LET table == G!Table(Ahead(done, rest), maxRows, maxColumns)
             refusal == G!RowError(done \o rest.rows, Len(done) + 1, maxRows, maxColumns)
         IN  /\ IsPrefixOf(Cut(done, width), table.rows)
             /\ rest.rows = <<>> => table.rows = Cut(done, width) /\ table.error = rest.error
             /\ rest.rows # <<>> /\ refusal # "ok" =>
                  table.rows = Cut(done, width) /\ table.error = refusal
<1>1. PICK all, m, d :
        /\ all = Ahead(done, rest) /\ m = Len(all.rows) /\ d = Len(done)
  OBVIOUS
<1>2. /\ all.rows = done \o rest.rows /\ all.error = rest.error
      /\ rest.rows \in Seq(Seq(CellType)) /\ done \in Seq(Seq(CellType))
      /\ d \in Nat /\ Len(rest.rows) \in Nat
  BY <1>1, AheadTyped, LenProperties DEF Fine, ResultType
<1>3. /\ m = d + Len(rest.rows) /\ m \in Nat /\ all.rows \in Seq(Seq(CellType))
      /\ DOMAIN all.rows = 1 .. m /\ \A r \in 1 .. m : all.rows[r] \in Seq(CellType)
      /\ \A r \in 1 .. d : all.rows[r] = done[r]
  <2>0. PICK R, u : R = Seq(CellType) /\ u = rest.rows
    OBVIOUS
  <2>1. /\ Len(all.rows) = d + Len(u) /\ all.rows \in Seq(R)
        /\ \A r \in 1 .. d + Len(u) : all.rows[r] = IF r <= d THEN done[r] ELSE u[r - d]
    <3>1. done \in Seq(R) /\ u \in Seq(R) /\ all.rows = done \o u
      BY <1>2, <2>0
    <3> QED BY <1>1, <3>1, ConcatProperties
  <2>2. DOMAIN all.rows = 1 .. m /\ \A r \in 1 .. m : all.rows[r] \in R
    BY <1>1, <2>1, IndicesAndElements
  <2>3. m = d + Len(rest.rows)
    BY <1>1, <2>0, <2>1
  <2> QED BY <1>2, <2>0, <2>1, <2>2, <2>3
<1> DEFINE ErrorAt(r) == G!RowError(all.rows, r, maxRows, maxColumns)
           wrong == {r \in 1 .. m : ErrorAt(r) # "ok"}
           good == IF wrong = {} THEN m ELSE G!Min(wrong) - 1
           w == Len(all.rows[1])
           elements == {SubSeq(all.rows[r], 1, w) : r \in 1 .. good}
           kept == [r \in 1 .. good |-> SubSeq(all.rows[r], 1, w)]
<1>4. G!Table(all, maxRows, maxColumns) =
        [rows |-> kept, error |-> IF wrong = {} THEN all.error ELSE ErrorAt(G!Min(wrong))]
  BY <1>1, <1>3 DEF G!Table
<1>5. d > 0 => w = width
  BY <1>1, <1>2, <1>3 DEF Fine
<1>6. \A r \in 1 .. d : ErrorAt(r) = "ok"
  <2>1. ASSUME NEW r \in 1 .. d PROVE ErrorAt(r) = "ok"
    <3>1. all.rows[r] = done[r] /\ all.rows[1] = done[1]
      BY <1>2, <1>3
    <3>2. ErrorAt(r) = G!RowError(done, r, maxRows, maxColumns)
      BY <3>1 DEF G!RowError
    <3> QED BY <1>1, <3>2 DEF Fine
  <2> QED BY <2>1
<1>7. wrong # {} => G!Min(wrong) \in wrong /\ \A x \in wrong : G!Min(wrong) <= x
  <2>1. wrong \in SUBSET Nat
    BY <1>3
  <2> HIDE DEF wrong
  <2> QED BY <2>1, MinIs
<1>8. \A r \in wrong : r \in d + 1 .. m
  <2> HIDE DEF ErrorAt
  <2> QED BY <1>2, <1>3, <1>6
<1> HIDE DEF wrong
<1>9. good \in d .. m
  BY <1>2, <1>3, <1>7, <1>8
<1> HIDE DEF good, ErrorAt, w
<1>10. /\ Len(kept) = good /\ Len(Cut(done, width)) = d
       /\ kept \in Seq(elements)
       /\ \A r \in 1 .. d : kept[r] = Cut(done, width)[r]
  <2>1. /\ good \in Nat /\ 1 .. d \subseteq 1 .. good
    BY <1>2, <1>9
  <2>2. ASSUME NEW r \in 1 .. d PROVE kept[r] = Cut(done, width)[r]
    <3>1. r \in 1 .. good /\ all.rows[r] = done[r] /\ d > 0
      <4>1. all.rows[r] = done[r]
        BY <1>3
      <4>2. d > 0
        BY <1>2
      <4>3. r \in 1 .. good
        BY <2>1
      <4> QED BY <4>1, <4>2, <4>3
    <3>4. w = width
      BY <1>5, <3>1
    <3>2. kept[r] = SubSeq(all.rows[r], 1, w)
      BY <3>1
    <3>3. Cut(done, width)[r] = SubSeq(done[r], 1, width)
      BY <1>1 DEF Cut
    <3> QED BY <3>1, <3>2, <3>3, <3>4
  <2>3. Len(Cut(done, width)) = d
    BY <1>1, <1>2 DEF Cut
  <2>4. Len(kept) = good
    BY <2>1
  <2>5. kept \in Seq(elements)
    <3>1. kept \in [1 .. good -> elements]
      OBVIOUS
    <3> HIDE DEF elements, kept
    <3> QED BY <2>1, <3>1
  <2> QED BY <2>2, <2>3, <2>4, <2>5
<1>11. IsPrefixOf(Cut(done, width), kept)
  <2> HIDE DEF elements
  <2>1. d \in 0 .. Len(kept)
    BY <1>2, <1>9, <1>10
  <2>2. /\ Len(SubSeq(kept, 1, d)) = d /\ SubSeq(kept, 1, d) \in Seq(elements)
        /\ \A r \in 1 .. d : SubSeq(kept, 1, d)[r] = kept[r]
    BY <1>10, <2>1, Prefix
  <2> HIDE DEF kept
  <2>3. Cut(done, width) = [r \in 1 .. d |-> Cut(done, width)[r]]
    BY <1>1 DEF Cut
  <2>4. SubSeq(kept, 1, d) = [r \in 1 .. d |-> SubSeq(kept, 1, d)[r]]
    <3>1. PICK t : t = SubSeq(kept, 1, d)
      OBVIOUS
    <3>2. t \in Seq(elements) /\ Len(t) = d
      BY <2>2, <3>1
    <3>3. t \in [1 .. d -> elements]
      <4>1. t \in [1 .. Len(t) -> elements]
        BY <3>2, LenProperties
      <4> QED BY <3>2, <4>1
    <3>4. t = [r \in 1 .. d |-> t[r]]
      BY <3>3
    <3> QED BY <3>1, <3>4
  <2>5. Cut(done, width) = SubSeq(kept, 1, d)
    BY <1>10, <2>2, <2>3, <2>4
  <2> QED BY <1>9, <1>10, <2>5, <1>2 DEF IsPrefixOf
<1>12. good = d => kept = Cut(done, width)
  BY <1>1, <1>10 DEF Cut
<1>13. CASE rest.rows = <<>>
  <2>1. m = d
    BY <1>2, <1>3, <1>13, EmptySeq
  <2>2. wrong = {} /\ good = d
    BY <1>2, <1>8, <1>9, <2>1
  <2> QED BY <1>1, <1>2, <1>4, <1>11, <1>12, <1>13, <2>2
<1>14. CASE rest.rows # <<>> /\ G!RowError(done \o rest.rows, Len(done) + 1, maxRows, maxColumns) # "ok"
  <2>1. d + 1 \in 1 .. m
    <3>1. Len(rest.rows) # 0
      BY <1>2, <1>14, EmptySeq
    <3> QED BY <1>2, <1>3, <3>1
  <2>2. d + 1 \in wrong /\ ErrorAt(d + 1) = G!RowError(done \o rest.rows, Len(done) + 1, maxRows, maxColumns)
    BY <1>1, <1>2, <1>14, <2>1 DEF wrong, ErrorAt
  <2>3. G!Min(wrong) = d + 1
    BY <1>2, <1>3, <1>7, <1>8, <2>2
  <2>4. good = d /\ wrong # {}
    BY <1>2, <2>2, <2>3 DEF good
  <2> QED BY <1>1, <1>4, <1>11, <1>12, <1>14, <2>2, <2>3, <2>4
<1> QED BY <1>1, <1>4, <1>11, <1>13, <1>14

-----------------------------------------------------------------------------
(***************************************************************************)
(* Where the machine stands in a record.                                   *)
(***************************************************************************)

\* Some fields before a record.
Under(fields, record) == [record EXCEPT !.fields = fields \o @]

\* The record that starts at s has these fields, and then the one that starts at i.
Begun(file, s, fields, i) ==
  /\ i \in 1 .. Len(file) + 1 /\ s \in 1 .. i /\ fields \in Seq(CellType)
  /\ G!RecordAt(file)[s] = Under(fields, G!RecordAt(file)[i])
  /\ fields = <<>> => s = i
  /\ fields # <<>> => s < i

\* What the bytes from i to at are the beginning of: a bare field, ...
BareSoFar(file, i, at) ==
  /\ at \in 1 .. Len(file) /\ i \in 1 .. at /\ file[i] # "quote"
  /\ \A k \in i .. at : file[k] \notin Enders

\* ... a quoted one that is still open, or ...
QuotedSoFar(file, i, at, fs) ==
  /\ at \in 1 .. Len(file) /\ i \in 1 .. at /\ file[i] = "quote"
  /\ fs = BodyFlags(file, i, at + 1)
  /\ \A j \in i + 1 .. at : j \notin G!Closers(file, i)
  /\ G!QuotesUpTo(file, i + 1, at) % 2 = 0

\* ... one that was closed at j, and padding.
Padded(file, i, j, at) ==
  /\ at \in 1 .. Len(file) /\ j \in 1 .. at /\ i \in 1 .. j - 1
  /\ G!FieldFrom(file, i) = G!ClosedAt(file, i, j)
  /\ \A k \in j + 1 .. at : file[k] = "space"

\* Where the machine stands in a record of a file that starts at s and of which
\* these are the fields so far.
At(file, s, fields, st, at, from, fs) ==
  \/ /\ st = "FIELD_START" /\ from = at /\ fs = {}
     /\ Begun(file, s, fields, from + 1)
  \/ /\ st = "UNQUOTED" /\ fs = {} /\ BareSoFar(file, from + 1, at)
     /\ Begun(file, s, fields, from + 1)
  \/ /\ st = "QUOTED" /\ QuotedSoFar(file, from, at, fs)
     /\ Begun(file, s, fields, from)
  \/ /\ st = "QUOTE_IN_QUOTED" /\ at \in 1 .. Len(file) /\ file[at] = "quote"
     /\ QuotedSoFar(file, from, at - 1, fs)
     /\ Begun(file, s, fields, from)
  \/ /\ st = "AFTER_QUOTED" /\ fs = {}
     /\ \E i, j, done :
          /\ Padded(file, i, j, at) /\ Begun(file, s, done, i)
          /\ fields = Append(done, G!ClosedAt(file, i, j).field)
  \/ /\ st = "AFTER_CR" /\ fs = {} /\ fields = <<>>
     /\ at \in 1 .. Len(file) /\ file[at] = "cr" /\ s = G!AfterEnd(file, at)

-----------------------------------------------------------------------------
(***************************************************************************)
(* What ends a field.                                                      *)
(***************************************************************************)
\* A field, what ends it and what is wrong with it.
Ends(file, i, field, end, error) ==
  /\ G!FieldFrom(file, i).field = field /\ G!FieldFrom(file, i).end = end
  /\ G!FieldFrom(file, i).error = error

\* Nothing before what ends a field is an empty one.
LEMMA EmptyEnds ==
  ASSUME NEW file \in Seq(STRING), NEW at \in 0 .. Len(file),
         at < Len(file) => file[at + 1] \in Enders
  PROVE  Ends(file, at + 1, Cell(at, 0, {}), at + 1, "ok")
<1>1. Len(file) \in Nat /\ at + 1 \in 1 .. Len(file) + 1 /\ (at + 1) - 1 = at /\ (at + 1) - (at + 1) = 0
  BY LenProperties
<1>2. Firsts(file, at + 1, Enders, at + 1)
  BY <1>1 DEF Firsts
<1>3. G!Bare(file, at + 1) = [field |-> Cell(at, 0, {}), end |-> at + 1, error |-> "ok"]
  <2>1. \A e : Firsts(file, at + 1, Enders, e) =>
          G!Bare(file, at + 1) = [field |-> Cell((at + 1) - 1, e - (at + 1), {}), end |-> e, error |-> "ok"]
    BY <1>1, BareIs
  <2> QED BY <1>1, <1>2, <2>1
<1>4. ~(at + 1 <= Len(file) /\ file[at + 1] = "quote")
  BY <1>1 DEF Enders
<1> QED BY <1>3, <1>4 DEF G!FieldFrom, Ends

\* A bare field ends where the first such byte stands.
LEMMA BareEnds ==
  ASSUME NEW file \in Seq(STRING), NEW from \in Nat, NEW at, BareSoFar(file, from + 1, at),
         at < Len(file) => file[at + 1] \in Enders
  PROVE  Ends(file, from + 1, Cell(from, at - from, {}), at + 1, "ok")
<1>1. /\ Len(file) \in Nat /\ from + 1 \in 1 .. Len(file) + 1 /\ at \in 1 .. Len(file)
      /\ (from + 1) - 1 = from /\ (at + 1) - (from + 1) = at - from
  BY LenProperties DEF BareSoFar
<1>2. Firsts(file, from + 1, Enders, at + 1)
  BY <1>1 DEF Firsts, BareSoFar
<1>3. G!Bare(file, from + 1) = [field |-> Cell(from, at - from, {}), end |-> at + 1, error |-> "ok"]
  <2>1. \A e : Firsts(file, from + 1, Enders, e) =>
          G!Bare(file, from + 1) = [field |-> Cell((from + 1) - 1, e - (from + 1), {}), end |-> e, error |-> "ok"]
    BY <1>1, BareIs
  <2> QED BY <1>1, <1>2, <2>1
<1> QED BY <1>3 DEF G!FieldFrom, Ends, BareSoFar

\* The quote after an open quoted field closes it when no other follows.
LEMMA QuoteCloses ==
  ASSUME NEW file \in Seq(STRING), NEW i \in Nat, NEW at \in 1 .. Len(file), NEW fs,
         QuotedSoFar(file, i, at - 1, fs), file[at] = "quote",
         at < Len(file) => file[at + 1] # "quote"
  PROVE  /\ Padded(file, i, at, at)
         /\ G!ClosedAt(file, i, at).field = Cell(i, at - 1 - i, fs)
<1>1. /\ Len(file) \in Nat /\ i \in 1 .. Len(file) /\ at \in i + 1 .. Len(file)
      /\ i + 1 \in 1 .. Len(file) + 1 /\ at - 1 \in i .. Len(file)
  BY LenProperties DEF QuotedSoFar
<1>2. at \in G!Closers(file, i)
  <2>1. /\ G!QuotesUpTo(file, i + 1, at) = G!QuotesUpTo(file, i + 1, at - 1) + 1
        /\ G!QuotesUpTo(file, i + 1, at - 1) \in Nat
    <3>1. at - 1 \in (i + 1) - 1 .. Len(file)
      BY <1>1
    <3> QED BY <1>1, <3>1, QuotesStep
  <2>2. G!QuotesUpTo(file, i + 1, at) % 2 = 1
    <3>1. \A n \in Nat : n % 2 = 0 => (n + 1) % 2 = 1
      OBVIOUS
    <3> QED BY <2>1, <3>1 DEF QuotedSoFar
  <2> QED BY <1>1, <2>2 DEF G!Closers
<1>3. \A k \in i + 1 .. at - 1 : k \notin G!Closers(file, i)
  BY DEF QuotedSoFar
<1>4. G!Quoted(file, i) = G!ClosedAt(file, i, at)
  BY <1>1, <1>2, <1>3, QuotedIs
<1>5. G!FieldFrom(file, i) = G!ClosedAt(file, i, at)
  BY <1>1, <1>4 DEF G!FieldFrom, QuotedSoFar
<1>6. G!ClosedAt(file, i, at).field = Cell(i, at - 1 - i, fs)
  <2>1. (at - 1) + 1 = at
    BY <1>1
  <2> QED BY <1>1, <2>1, ClosedAtIs DEF QuotedSoFar
<1>7. \A k \in at + 1 .. at : FALSE
  BY <1>1
<1> QED BY <1>1, <1>5, <1>6, <1>7 DEF Padded

\* A closed field is over with its padding; what stands there tells whether it is one.
LEMMA PaddedEnds ==
  ASSUME NEW file \in Seq(STRING), NEW i, NEW j, NEW at, Padded(file, i, j, at),
         at < Len(file) => file[at + 1] # "space"
  PROVE  Ends(file, i, G!ClosedAt(file, i, j).field, at + 1,
              IF at < Len(file) => file[at + 1] \in Enders THEN "ok" ELSE "content")
<1>1. /\ Len(file) \in Nat /\ i \in 1 .. Len(file) /\ j \in i + 1 .. Len(file)
      /\ at + 1 \in j + 1 .. Len(file) + 1 /\ (at + 1) - 1 = at
      /\ (at + 1 <= Len(file) <=> at < Len(file)) /\ (at + 1 > Len(file) <=> ~(at < Len(file)))
  BY LenProperties DEF Padded
<1>2. /\ G!ClosedAt(file, i, j).end = at + 1
      /\ G!ClosedAt(file, i, j).error =
           IF at + 1 > Len(file) \/ file[at + 1] \in Enders THEN "ok" ELSE "content"
  BY <1>1, ClosedAtIs DEF Padded
<1> QED BY <1>1, <1>2 DEF Ends, Padded

\* An open quoted field is never closed by the end of the file.
LEMMA QuotedNeverEnds ==
  ASSUME NEW file \in Seq(STRING), NEW i, NEW fs, QuotedSoFar(file, i, Len(file), fs)
  PROVE  G!FieldFrom(file, i).error = "unterminated" /\ i \in 1 .. Len(file)
<1>1. Len(file) \in Nat /\ i \in 1 .. Len(file)
  BY LenProperties DEF QuotedSoFar
<1>2. G!Closers(file, i) = {}
  BY <1>1, QuotedIs DEF QuotedSoFar
<1> QED BY <1>1, <1>2, QuotedIs DEF G!FieldFrom, QuotedSoFar

\* The field a record goes on with, and the record that comes of it.
LEMMA BegunGoesOn ==
  ASSUME NEW file \in Seq(STRING), NEW s, NEW fields, NEW i, Begun(file, s, fields, i),
         NEW field, NEW end, Ends(file, i, field, end, "ok"),
         end <= Len(file), file[end] = "delim"
  PROVE  Begun(file, s, Append(fields, field), end + 1)
<1>1. /\ Len(file) \in Nat /\ i \in 1 .. Len(file) + 1 /\ s \in 1 .. i
      /\ fields \in Seq(CellType) /\ Len(fields) \in Nat
  BY LenProperties DEF Begun
<1>2. /\ field \in CellType /\ end \in i .. Len(file) + 1
  BY <1>1, FieldFromTyped DEF Ends, FieldType
<1>3. end + 1 \in 1 .. Len(file) + 1 /\ s < end + 1 /\ end + 1 > i
  BY <1>1, <1>2
<1>4. PICK r : r = G!RecordAt(file)[end + 1]
  OBVIOUS
<1>5. r \in RecordType(file) /\ r.fields \in Seq(CellType)
  BY <1>3, <1>4, RecordTyped DEF RecordType
<1>6. G!RecordAt(file)[i] = Before(field, r)
  BY <1>1, <1>4, RecordAtIs DEF Ends, Delimited
<1>7. PICK u : u = r.fields
  OBVIOUS
<1>8. /\ <<field>> \in Seq(CellType) /\ <<field>> \o u \in Seq(CellType) /\ u \in Seq(CellType)
      /\ Append(fields, field) = fields \o <<field>> /\ Append(fields, field) \in Seq(CellType)
  BY <1>1, <1>2, <1>5, <1>7, AppendIsConcat, AppendProperties
<1>9. fields \o (<<field>> \o u) = Append(fields, field) \o u
  <2>1. PICK one : one = <<field>>
    OBVIOUS
  <2>2. (fields \o one) \o u = fields \o (one \o u)
    <3>1. PICK R : R = CellType
      OBVIOUS
    <3>2. one \in Seq(R) /\ fields \in Seq(R) /\ u \in Seq(R)
      BY <1>1, <1>8, <2>1, <3>1
    <3> QED BY <3>2, ConcatAssociative
  <2> QED BY <1>8, <2>1, <2>2
<1>10. Under(fields, Before(field, r)) = Under(Append(fields, field), r)
  BY <1>5, <1>7, <1>8, <1>9 DEF Under, Before, RecordType
<1>11. Append(fields, field) # <<>>
  BY <1>1, <1>2, AppendProperties, EmptySeq
<1> QED BY <1>1, <1>3, <1>4, <1>6, <1>8, <1>10, <1>11 DEF Begun

\* A field that no delimiter follows is the record's last.
LEMMA BegunEnds ==
  ASSUME NEW file \in Seq(STRING), NEW s, NEW fields, NEW i, Begun(file, s, fields, i),
         NEW field, NEW end, NEW error, Ends(file, i, field, end, error),
         ~(error = "ok" /\ end <= Len(file) /\ file[end] = "delim")
  PROVE  G!RecordAt(file)[s] = [fields |-> Append(fields, field), end |-> end, error |-> error]
<1>1. /\ i \in 1 .. Len(file) + 1 /\ fields \in Seq(CellType)
      /\ G!RecordAt(file)[s] = Under(fields, G!RecordAt(file)[i])
  BY DEF Begun
<1>2. field \in CellType
  BY <1>1, FieldFromTyped DEF Ends, FieldType
<1>3. G!RecordAt(file)[i] = [fields |-> <<field>>, end |-> end, error |-> error]
  BY <1>1, RecordAtIs DEF Ends, Delimited, Last
<1>4. Append(fields, field) = fields \o <<field>>
  BY <1>1, <1>2, AppendIsConcat
<1>5. PICK one : one = <<field>>
  OBVIOUS
<1>6. Under(fields, [fields |-> one, end |-> end, error |-> error])
        = [fields |-> fields \o one, end |-> end, error |-> error]
  <2>1. PICK r, fs : r = [fields |-> one, end |-> end, error |-> error] /\ fs = fields \o one
    OBVIOUS
  <2> DEFINE v == [r EXCEPT !.fields = fs]
  <2>2. r \in [fields : {one, fs}, end : {end}, error : {error}] /\ r.fields = one
    BY <2>1
  <2>3. /\ v \in [fields : {one, fs}, end : {end}, error : {error}]
        /\ v.fields = fs /\ v.end = end /\ v.error = error
    BY <2>1, <2>2
  <2>4. Under(fields, r) = v
    BY <2>1, <2>2 DEF Under
  <2> HIDE DEF v
  <2>5. v = [fields |-> fs, end |-> end, error |-> error]
    BY <2>3
  <2> QED BY <2>1, <2>4, <2>5
<1> QED BY <1>1, <1>3, <1>4, <1>5, <1>6

\* A record that starts where nothing is read yet.
LEMMA BegunAfresh ==
  ASSUME NEW file \in Seq(STRING), NEW i \in 1 .. Len(file) + 1
  PROVE  Begun(file, i, <<>>, i)
<1>1. <<>> \in Seq(CellType) /\ Len(file) \in Nat
  BY LenProperties
<1>2. PICK r : r = G!RecordAt(file)[i]
  OBVIOUS
<1>3. r \in RecordType(file) /\ r.fields \in Seq(CellType)
  BY <1>2, RecordTyped DEF RecordType
<1>4. PICK u : u = r.fields
  OBVIOUS
<1>5. <<>> \o u = u
  BY <1>3, <1>4, ConcatEmptySeq
<1>6. Under(<<>>, r) = r
  BY <1>3, <1>4, <1>5 DEF Under, RecordType
<1> QED BY <1>1, <1>2, <1>6 DEF Begun

\* Records up to one that starts at s, and those from there on.
Reads(file, done, s) ==
  /\ done \in Seq(Seq(CellType)) /\ s \in 1 .. Len(file) + 1
  /\ G!Records(file) = Ahead(done, G!RecordsAt(file)[s])

\* A record that is whole is one of the rows, unless the line is blank, ...
LEMMA RecordRead ==
  ASSUME NEW file \in Seq(STRING), NEW done, NEW s, Reads(file, done, s), s <= Len(file),
         NEW fields \in Seq(CellType), NEW end,
         G!RecordAt(file)[s] = [fields |-> fields, end |-> end, error |-> "ok"]
  PROVE  Reads(file, IF fields = <<Cell(s - 1, 0, {})>> THEN done ELSE Append(done, fields),
               G!AfterEnd(file, end))
<1>1. s \in 1 .. Len(file) /\ s \in 1 .. Len(file) + 1 /\ Len(file) \in Nat
  BY LenProperties DEF Reads
<1>2. end \in s .. Len(file) + 1
  <2>1. G!RecordAt(file)[s] \in RecordType(file) /\ G!RecordAt(file)[s].end >= s
    BY <1>1, RecordTyped
  <2> QED BY <1>1, <2>1 DEF RecordType
<1>3. PICK next, tail : next = G!AfterEnd(file, end) /\ tail = G!RecordsAt(file)[next]
  OBVIOUS
<1>4. next \in 1 .. Len(file) + 1 /\ tail \in ResultType
  <2>1. next \in s + 1 .. Len(file) + 1
    BY <1>1, <1>2, <1>3, AfterEndIs
  <2>2. next \in 1 .. Len(file) + 1
    BY <1>1, <2>1
  <2> QED BY <1>3, <2>2, RecordsTyped
<1>5. G!RecordsAt(file)[s] =
        IF fields = <<Cell(s - 1, 0, {})>> THEN tail ELSE Ahead(<<fields>>, tail)
  BY <1>1, <1>3, RecordsAtIs
<1>6. PICK R : R = Seq(CellType)
  OBVIOUS
<1>7. /\ done \in Seq(R) /\ <<fields>> \in Seq(R) /\ Append(done, fields) = done \o <<fields>>
      /\ Append(done, fields) \in Seq(R)
  BY <1>6, AppendIsConcat, AppendProperties DEF Reads
<1>8. Ahead(done, Ahead(<<fields>>, tail)) = Ahead(Append(done, fields), tail)
  <2>1. PICK one : one = <<fields>>
    OBVIOUS
  <2>2. one \in Seq(Seq(CellType)) /\ done \in Seq(Seq(CellType))
    BY <1>6, <1>7, <2>1
  <2>3. Ahead(done, Ahead(one, tail)) = Ahead(done \o one, tail)
    BY <1>4, <2>2, AheadTwice
  <2> QED BY <1>7, <2>1, <2>3
<1> QED BY <1>3, <1>4, <1>5, <1>6, <1>7, <1>8 DEF Reads

\* ... one that is broken ends the file, ...
LEMMA RecordBroken ==
  ASSUME NEW file \in Seq(STRING), NEW done, NEW s, Reads(file, done, s), s <= Len(file),
         G!RecordAt(file)[s].error # "ok"
  PROVE  G!Records(file) = Ahead(done, [rows |-> <<>>, error |-> G!RecordAt(file)[s].error])
<1>1. s \in 1 .. Len(file)
  BY LenProperties DEF Reads
<1> QED BY <1>1, RecordsAtIs DEF Reads

\* ... and so does what is no record.
LEMMA NothingRead ==
  ASSUME NEW file \in Seq(STRING), NEW done, Reads(file, done, Len(file) + 1)
  PROVE  G!Records(file) = Ahead(done, [rows |-> <<>>, error |-> "ok"])
BY RecordsAtIs DEF Reads

(***************************************************************************)
(* A byte more.                                                            *)
(***************************************************************************)
LEMMA QuotedOpens ==
  ASSUME NEW file \in Seq(STRING), NEW i \in 1 .. Len(file), file[i] = "quote"
  PROVE  QuotedSoFar(file, i, i, {"quoted"})
<1>1. Len(file) \in Nat /\ i + 1 \in 1 .. Len(file) + 1 /\ i = (i + 1) - 1
  BY LenProperties
<1>2. G!QuotesUpTo(file, i + 1, i) = 0
  BY <1>1, QuotesStep
<1>3. \A k : k \notin i + 1 .. i /\ k \notin i + 1 .. (i + 1) - 1
  BY <1>1
<1>4. BodyFlags(file, i, i + 1) = {"quoted"}
  BY <1>3 DEF BodyFlags
<1>5. 0 % 2 = 0
  OBVIOUS
<1> QED BY <1>1, <1>2, <1>3, <1>4, <1>5 DEF QuotedSoFar

\* Within quotes any byte but a quote is taken, ...
LEMMA QuotedTakesByte ==
  ASSUME NEW file \in Seq(STRING), NEW i, NEW at, NEW fs, QuotedSoFar(file, i, at, fs),
         at < Len(file), file[at + 1] # "quote"
  PROVE  QuotedSoFar(file, i, at + 1, fs \cup {x \in {"newline"} : file[at + 1] \in {"cr", "lf"}})
<1>1. /\ Len(file) \in Nat /\ at \in 1 .. Len(file) /\ i \in 1 .. at
      /\ at + 1 \in i + 1 .. Len(file) /\ i + 1 \in 1 .. Len(file) + 1 /\ at + 1 \in 1 .. Len(file)
  BY LenProperties DEF QuotedSoFar
<1>2. G!QuotesUpTo(file, i + 1, at + 1) = 0
  BY <1>1, QuotesStep
<1>3. at + 1 \notin G!Closers(file, i)
  BY DEF G!Closers
<1>4. \A k \in i + 1 .. at + 1 : k = at + 1 \/ k \in i + 1 .. at
  BY <1>1
<1>5. BodyFlags(file, i, (at + 1) + 1) = fs \cup {x \in {"newline"} : file[at + 1] \in {"cr", "lf"}}
  <2>1. (at + 1) + 1 - 1 = at + 1 /\ (at + 1) - 1 = at
    BY <1>1
  <2>2. /\ (\E k \in i + 1 .. at + 1 : file[k] = "quote") <=> (\E k \in i + 1 .. at : file[k] = "quote")
        /\ (\E k \in i + 1 .. at + 1 : file[k] \in {"cr", "lf"}) <=>
             (\E k \in i + 1 .. at : file[k] \in {"cr", "lf"}) \/ file[at + 1] \in {"cr", "lf"}
    BY <1>1, <1>4
  <2>3. /\ BodyFlags(file, i, (at + 1) + 1) = {"quoted"}
             \cup {x \in {"escape"} : \E k \in i + 1 .. at + 1 : file[k] = "quote"}
             \cup {x \in {"newline"} : \E k \in i + 1 .. at + 1 : file[k] \in {"cr", "lf"}}
        /\ fs = {"quoted"}
             \cup {x \in {"escape"} : \E k \in i + 1 .. at : file[k] = "quote"}
             \cup {x \in {"newline"} : \E k \in i + 1 .. at : file[k] \in {"cr", "lf"}}
    BY <2>1 DEF BodyFlags, QuotedSoFar
  <2> QED BY <2>2, <2>3
<1>6. 0 % 2 = 0
  OBVIOUS
<1> QED BY <1>1, <1>2, <1>3, <1>4, <1>5, <1>6 DEF QuotedSoFar

\* ... and so are two quotes.
LEMMA QuotedTakesEscape ==
  ASSUME NEW file \in Seq(STRING), NEW i, NEW at \in Nat, NEW fs, QuotedSoFar(file, i, at - 1, fs),
         file[at] = "quote", at < Len(file), file[at + 1] = "quote"
  PROVE  QuotedSoFar(file, i, at + 1, fs \cup {"escape"})
<1>1. /\ Len(file) \in Nat /\ at - 1 \in 1 .. Len(file) /\ i \in 1 .. at - 1
      /\ at \in i + 1 .. Len(file) /\ at + 1 \in i + 1 .. Len(file)
      /\ i + 1 \in 1 .. Len(file) + 1 /\ at + 1 \in 1 .. Len(file) /\ at \in 1 .. Len(file)
      /\ (at + 1) - 1 = at /\ at - 1 \in (i + 1) - 1 .. Len(file)
  BY LenProperties DEF QuotedSoFar
<1>2. PICK n : n = G!QuotesUpTo(file, i + 1, at - 1)
  OBVIOUS
<1>3. n \in Nat /\ n % 2 = 0 /\ G!QuotesUpTo(file, i + 1, at) = n + 1
      /\ G!QuotesUpTo(file, i + 1, at + 1) = n + 1 + 1
  BY <1>1, <1>2, QuotesStep DEF QuotedSoFar
<1>4. (n + 1 + 1) % 2 = 0
  BY <1>3
<1>5. at \notin G!Closers(file, i)
  BY <1>1 DEF G!Closers
<1>6. at + 1 \notin G!Closers(file, i)
  BY <1>3, <1>4 DEF G!Closers
<1>7. \A k \in i + 1 .. at + 1 : k = at + 1 \/ k = at \/ k \in i + 1 .. at - 1
  BY <1>1
<1>8. BodyFlags(file, i, (at + 1) + 1) = fs \cup {"escape"}
  <2>1. (at + 1) + 1 - 1 = at + 1 /\ (at - 1) + 1 - 1 = at - 1
    BY <1>1
  <2>2. /\ \E k \in i + 1 .. at + 1 : file[k] = "quote"
        /\ (\E k \in i + 1 .. at + 1 : file[k] \in {"cr", "lf"}) <=>
             (\E k \in i + 1 .. at - 1 : file[k] \in {"cr", "lf"})
    BY <1>1, <1>7
  <2>3. /\ BodyFlags(file, i, (at + 1) + 1) = {"quoted"}
             \cup {x \in {"escape"} : \E k \in i + 1 .. at + 1 : file[k] = "quote"}
             \cup {x \in {"newline"} : \E k \in i + 1 .. at + 1 : file[k] \in {"cr", "lf"}}
        /\ fs = {"quoted"}
             \cup {x \in {"escape"} : \E k \in i + 1 .. at - 1 : file[k] = "quote"}
             \cup {x \in {"newline"} : \E k \in i + 1 .. at - 1 : file[k] \in {"cr", "lf"}}
    BY <2>1 DEF BodyFlags, QuotedSoFar
  <2> QED BY <2>2, <2>3
<1> QED BY <1>1, <1>3, <1>4, <1>5, <1>6, <1>7, <1>8 DEF QuotedSoFar

\* The LF of a CRLF belongs to what ended the row.
LEMMA AtAfterCr ==
  ASSUME NEW file \in Seq(STRING), NEW s, NEW fields, NEW at, NEW from, NEW fs,
         At(file, s, fields, "AFTER_CR", at, from, fs), at < Len(file)
  PROVE  LET next == IF file[at + 1] = "lf" THEN at + 1 ELSE at
         IN  At(file, s, fields, "FIELD_START", next, next, fs)
<1>1. /\ fs = {} /\ fields = <<>> /\ at \in 1 .. Len(file) /\ file[at] = "cr"
      /\ s = G!AfterEnd(file, at) /\ Len(file) \in Nat
  BY LenProperties DEF At
<1>2. PICK next : next = IF file[at + 1] = "lf" THEN at + 1 ELSE at
  OBVIOUS
<1>3. s = next + 1 /\ next + 1 \in 1 .. Len(file) + 1
  BY <1>1, <1>2 DEF G!AfterEnd
<1>4. Begun(file, s, fields, next + 1)
  BY <1>1, <1>3, BegunAfresh
<1> QED BY <1>1, <1>2, <1>4 DEF At

\* A row is behind: the machine stands at the next one.
LEMMA AtNextRow ==
  ASSUME NEW file \in Seq(STRING), NEW at \in Nat, at < Len(file), file[at + 1] \in {"cr", "lf"},
         NEW from, file[at + 1] = "lf" => from = at + 1
  PROVE  At(file, G!AfterEnd(file, at + 1), <<>>,
            IF file[at + 1] = "cr" THEN "AFTER_CR" ELSE "FIELD_START", at + 1, from, {})
<1>1. Len(file) \in Nat /\ at + 1 \in 1 .. Len(file)
  BY LenProperties
<1>2. CASE file[at + 1] = "cr"
  BY <1>1, <1>2 DEF At
<1>3. CASE file[at + 1] = "lf"
  <2>1. G!AfterEnd(file, at + 1) = (at + 1) + 1 /\ (at + 1) + 1 \in 1 .. Len(file) + 1
    BY <1>1, <1>3 DEF G!AfterEnd
  <2> QED BY <1>1, <1>3, <2>1, BegunAfresh DEF At
<1> QED BY <1>2, <1>3

\* The open field's flags after a byte of class c.
FlagsAfter(fs, st, c) ==
  fs \cup {f \in {"quoted"} : Opens(st, c)}
     \cup {f \in {"escape"} : Escapes(st, c)}
     \cup {f \in {"newline"} : BreaksLine(st, c)}

\* A byte that ends nothing.
LEMMA AtConsume ==
  ASSUME NEW file \in Seq(STRING), NEW s, NEW fields, NEW st, NEW at \in Nat, NEW from \in Nat,
         NEW fs, At(file, s, fields, st, at, from, fs), at < Len(file), st # "AFTER_CR",
         NEW c, c = Class(file[at + 1]), ~Closes(st, c), ~EndsRow(st, c), ~Rejects(st, c)
  PROVE  At(file, s, fields, Goto(st, c), at + 1,
            IF Opens(st, c) \/ SetsStart(st, c) THEN at + 1 ELSE from, FlagsAfter(fs, st, c))
<1>1. /\ Len(file) \in Nat /\ at + 1 \in 1 .. Len(file) /\ (at + 1) - 1 = at
      /\ at + 1 \in Nat
  BY LenProperties
<1>2. PICK b : b = file[at + 1]
  OBVIOUS
<1>3. /\ c = "quote" <=> b = "quote"
      /\ c \in {"cr", "lf"} <=> b \in {"cr", "lf"}
      /\ c \in Enders <=> b \in Enders
      /\ c = "space" <=> b = "space"
      /\ c = "delim" <=> b = "delim"
  BY <1>2 DEF Class, Enders
<1>4. CASE st = "FIELD_START"
  <2>1. fs = {} /\ from = at /\ Begun(file, s, fields, from + 1)
    BY <1>4 DEF At
  <2>2. c \notin Enders /\ b \notin Enders
    BY <1>3, <1>4 DEF Closes, Closes0
  <2>3. CASE b = "quote"
    <3>1. c = "quote" /\ Goto(st, c) = "QUOTED" /\ FlagsAfter(fs, st, c) = {"quoted"} /\ Opens(st, c)
      BY <1>3, <1>4, <2>1, <2>2, <2>3 DEF Goto, FlagsAfter, Opens, Escapes, BreaksLine
    <3>2. QuotedSoFar(file, at + 1, at + 1, {"quoted"})
      BY <1>1, <1>2, <2>3, QuotedOpens
    <3> QED BY <2>1, <3>1, <3>2 DEF At
  <2>4. CASE b # "quote"
    <3>1. /\ Goto(st, c) = "UNQUOTED" /\ FlagsAfter(fs, st, c) = {}
          /\ ~Opens(st, c) /\ ~SetsStart(st, c)
      BY <1>3, <1>4, <2>1, <2>2, <2>4 DEF Goto, FlagsAfter, Opens, Escapes, BreaksLine, SetsStart
    <3>2. BareSoFar(file, from + 1, at + 1)
      BY <1>1, <1>2, <2>1, <2>2, <2>4 DEF BareSoFar
    <3> QED BY <2>1, <3>1, <3>2 DEF At
  <2> QED BY <2>3, <2>4
<1>5. CASE st = "UNQUOTED"
  <2>1. fs = {} /\ BareSoFar(file, from + 1, at) /\ Begun(file, s, fields, from + 1)
    BY <1>5 DEF At
  <2>2. c \notin Enders /\ b \notin Enders
    BY <1>3, <1>5 DEF Closes, Closes0
  <2>3. /\ Goto(st, c) = "UNQUOTED" /\ FlagsAfter(fs, st, c) = {}
        /\ ~Opens(st, c) /\ ~SetsStart(st, c)
    BY <1>3, <1>5, <2>1, <2>2 DEF Goto, FlagsAfter, Opens, Escapes, BreaksLine, SetsStart, Closes
  <2>4. BareSoFar(file, from + 1, at + 1)
    <3>1. \A k \in from + 1 .. at + 1 : k = at + 1 \/ k \in from + 1 .. at
      BY <1>1
    <3> QED BY <1>1, <1>2, <2>1, <2>2, <3>1 DEF BareSoFar
  <2> QED BY <2>1, <2>3, <2>4 DEF At
<1>6. CASE st = "QUOTED"
  <2>1. QuotedSoFar(file, from, at, fs) /\ Begun(file, s, fields, from)
    BY <1>6 DEF At
  <2>2. ~Opens(st, c) /\ ~SetsStart(st, c)
    BY <1>6 DEF Opens, SetsStart, Closes, Closes0, Closes1
  <2>3. CASE b = "quote"
    <3>1. Goto(st, c) = "QUOTE_IN_QUOTED" /\ FlagsAfter(fs, st, c) = fs
      BY <1>3, <1>6, <2>3 DEF Goto, FlagsAfter, Opens, Escapes, BreaksLine
    <3>2. QuotedSoFar(file, from, (at + 1) - 1, fs)
      BY <1>1, <2>1
    <3>3. file[at + 1] = "quote"
      BY <1>2, <2>3
    <3> QED BY <1>1, <2>1, <2>2, <3>1, <3>2, <3>3 DEF At
  <2>4. CASE b # "quote"
    <3>1. /\ Goto(st, c) = "QUOTED"
          /\ FlagsAfter(fs, st, c) = fs \cup {x \in {"newline"} : b \in {"cr", "lf"}}
      BY <1>3, <1>6, <2>4 DEF Goto, FlagsAfter, Opens, Escapes, BreaksLine
    <3>2. QuotedSoFar(file, from, at + 1, fs \cup {x \in {"newline"} : b \in {"cr", "lf"}})
      BY <1>2, <2>1, <2>4, QuotedTakesByte
    <3> QED BY <2>1, <2>2, <3>1, <3>2 DEF At
  <2> QED BY <2>3, <2>4
<1>7. CASE st = "QUOTE_IN_QUOTED"
  <2>1. /\ at \in 1 .. Len(file) /\ file[at] = "quote"
        /\ QuotedSoFar(file, from, at - 1, fs) /\ Begun(file, s, fields, from)
    BY <1>7 DEF At
  <2>2. c = "quote"
    <3>1. c \in {"delim", "quote", "cr", "lf", "space", "other"}
      BY DEF Class
    <3> QED BY <1>7, <3>1 DEF Closes, Closes1, Rejects, Enders
  <2>3. /\ Goto(st, c) = "QUOTED" /\ FlagsAfter(fs, st, c) = fs \cup {"escape"}
        /\ ~Opens(st, c) /\ ~SetsStart(st, c)
    BY <1>7, <2>2 DEF Goto, FlagsAfter, Opens, Escapes, BreaksLine, SetsStart, Closes, Closes0, Closes1, Enders
  <2>4. QuotedSoFar(file, from, at + 1, fs \cup {"escape"})
    BY <1>2, <1>3, <2>1, <2>2, QuotedTakesEscape
  <2> QED BY <2>1, <2>3, <2>4 DEF At
<1>8. CASE st = "AFTER_QUOTED"
  <2>1. PICK i, j, done :
          /\ Padded(file, i, j, at) /\ Begun(file, s, done, i)
          /\ fields = Append(done, G!ClosedAt(file, i, j).field)
    BY <1>8 DEF At
  <2>2. fs = {}
    BY <1>8 DEF At
  <2>3. c \in {"delim", "space"}
    <3>1. c \in {"delim", "quote", "cr", "lf", "space", "other"}
      BY DEF Class
    <3> QED BY <1>8, <3>1 DEF EndsRow, Rejects
  <2>4. FlagsAfter(fs, st, c) = {}
    BY <1>8, <2>2 DEF FlagsAfter, Opens, Escapes, BreaksLine
  <2>5. CASE c = "delim"
    <3>1. Goto(st, c) = "FIELD_START" /\ SetsStart(st, c)
      BY <1>8, <2>5 DEF Goto, SetsStart, Enders
    <3>2. Ends(file, i, G!ClosedAt(file, i, j).field, at + 1, "ok")
      <4>1. file[at + 1] # "space" /\ file[at + 1] \in Enders
        BY <1>2, <1>3, <2>5 DEF Enders
      <4> QED BY <2>1, <4>1, PaddedEnds
    <3>3. Begun(file, s, fields, (at + 1) + 1)
      <4>1. file[at + 1] = "delim" /\ at + 1 <= Len(file)
        BY <1>1, <1>2, <1>3, <2>5
      <4>2. PICK field : field = G!ClosedAt(file, i, j).field
        OBVIOUS
      <4> QED BY <2>1, <3>2, <4>1, <4>2, BegunGoesOn
    <3> QED BY <2>4, <3>1, <3>3 DEF At
  <2>6. CASE c = "space"
    <3>1. Goto(st, c) = "AFTER_QUOTED"
      BY <1>8, <2>6 DEF Goto, Enders
    <3>2. Padded(file, i, j, at + 1)
      <4>1. \A k \in j + 1 .. at + 1 : k = at + 1 \/ k \in j + 1 .. at
        BY <1>1
      <4> QED BY <1>1, <1>2, <1>3, <2>1, <2>6, <4>1 DEF Padded
    <3> QED BY <2>1, <2>4, <3>1, <3>2 DEF At
  <2> QED BY <2>3, <2>5, <2>6
<1> QED BY <1>4, <1>5, <1>6, <1>7, <1>8 DEF At

\* Where the open field ends, when what comes next closes it.
CloseAt(st, at) == IF st = "QUOTE_IN_QUOTED" THEN at - 1 ELSE at

\* The field that was open, and what follows it.
LEMMA AtEnds ==
  ASSUME NEW file \in Seq(STRING), NEW s, NEW fields, NEW st, NEW at \in Nat, NEW from \in Nat,
         NEW fs, At(file, s, fields, st, at, from, fs),
         st \in {"FIELD_START", "UNQUOTED", "QUOTE_IN_QUOTED"},
         at < Len(file) => file[at + 1] \in Enders
  PROVE  \E i : /\ Begun(file, s, fields, i)
                /\ Ends(file, i, Cell(from, CloseAt(st, at) - from, fs), at + 1, "ok")
                /\ Cell(from, CloseAt(st, at) - from, fs) \in CellType
                /\ i \in 1 .. at + 1 /\ (st = "FIELD_START" \/ i <= at)
                /\ (st = "QUOTE_IN_QUOTED" => "quoted" \in fs)
                /\ (st # "QUOTE_IN_QUOTED" => i = from + 1 /\ fs = {})
<1>1. Len(file) \in Nat
  BY LenProperties
<1>2. SUFFICES \E i : /\ Begun(file, s, fields, i)
                /\ Ends(file, i, Cell(from, CloseAt(st, at) - from, fs), at + 1, "ok")
                /\ i \in 1 .. at + 1 /\ (st = "FIELD_START" \/ i <= at)
                /\ (st = "QUOTE_IN_QUOTED" => "quoted" \in fs)
                /\ (st # "QUOTE_IN_QUOTED" => i = from + 1 /\ fs = {})
  <2>1. \A i : Begun(file, s, fields, i) => i \in 1 .. Len(file) + 1
    BY DEF Begun
  <2>2. \A i, field, end : i \in 1 .. Len(file) + 1 /\ Ends(file, i, field, end, "ok") =>
          field \in CellType
    BY FieldFromTyped DEF Ends, FieldType
  <2> QED BY <1>2, <2>1, <2>2
<1>3. CASE st = "FIELD_START"
  <2>1. fs = {} /\ from = at /\ Begun(file, s, fields, from + 1)
    BY <1>3 DEF At
  <2>2. at \in 0 .. Len(file) /\ CloseAt(st, at) - from = 0 /\ from + 1 \in 1 .. at + 1
    BY <1>1, <1>3, <2>1 DEF Begun, CloseAt
  <2>3. Ends(file, at + 1, Cell(at, 0, {}), at + 1, "ok")
    BY <2>2, EmptyEnds
  <2> QED BY <1>3, <2>1, <2>2, <2>3
<1>4. CASE st = "UNQUOTED"
  <2>1. fs = {} /\ BareSoFar(file, from + 1, at) /\ Begun(file, s, fields, from + 1)
    BY <1>4 DEF At
  <2>2. CloseAt(st, at) = at /\ from + 1 \in 1 .. at + 1 /\ from + 1 <= at
    BY <1>4, <2>1 DEF CloseAt, BareSoFar
  <2>3. Ends(file, from + 1, Cell(from, at - from, {}), at + 1, "ok")
    BY <2>1, BareEnds
  <2> QED BY <1>4, <2>1, <2>2, <2>3
<1>5. CASE st = "QUOTE_IN_QUOTED"
  <2>1. /\ at \in 1 .. Len(file) /\ file[at] = "quote"
        /\ QuotedSoFar(file, from, at - 1, fs) /\ Begun(file, s, fields, from)
    BY <1>5 DEF At
  <2>2. /\ CloseAt(st, at) - from = at - 1 - from /\ from \in 1 .. at + 1 /\ from <= at
    BY <1>5, <2>1 DEF CloseAt, QuotedSoFar
  <2>3. at < Len(file) => file[at + 1] # "quote" /\ file[at + 1] # "space"
    BY DEF Enders
  <2>4. /\ Padded(file, from, at, at)
        /\ G!ClosedAt(file, from, at).field = Cell(from, at - 1 - from, fs)
    BY <2>1, <2>3, QuoteCloses
  <2>5. Ends(file, from, G!ClosedAt(file, from, at).field, at + 1, "ok")
    BY <2>3, <2>4, PaddedEnds
  <2>6. "quoted" \in fs
    BY <2>1 DEF QuotedSoFar, BodyFlags
  <2> QED BY <1>5, <2>1, <2>2, <2>4, <2>5, <2>6
<1> QED BY <1>3, <1>4, <1>5

\* A byte that closes a field and not the row.
LEMMA AtCloses ==
  ASSUME NEW file \in Seq(STRING), NEW s, NEW fields, NEW st, NEW at \in Nat, NEW from \in Nat,
         NEW fs, At(file, s, fields, st, at, from, fs), at < Len(file),
         NEW c, c = Class(file[at + 1]), Closes(st, c), ~EndsRow(st, c)
  PROVE  At(file, s, Append(fields, Cell(from, CloseAt(st, at) - from, fs)), Goto(st, c),
            at + 1, at + 1, {})
<1>1. Len(file) \in Nat /\ at + 1 \in 1 .. Len(file) /\ at + 1 \in Nat
  BY LenProperties
<1>2. PICK b : b = file[at + 1]
  OBVIOUS
<1>3. /\ c = "space" <=> b = "space"
      /\ c = "delim" <=> b = "delim"
  BY <1>2 DEF Class
<1>4. PICK field : field = Cell(from, CloseAt(st, at) - from, fs)
  OBVIOUS
<1>5. /\ st \in {"FIELD_START", "UNQUOTED", "QUOTE_IN_QUOTED"}
      /\ c = "delim" \/ (c = "space" /\ st = "QUOTE_IN_QUOTED")
  BY DEF Closes, Closes0, Closes1, EndsRow, Enders
<1>6. CASE c = "delim"
  <2>1. b \in Enders /\ b = "delim" /\ Goto(st, c) = "FIELD_START"
    BY <1>3, <1>5, <1>6 DEF Enders, Goto
  <2>2. file[at + 1] \in Enders /\ file[at + 1] = "delim" /\ at + 1 <= Len(file)
    BY <1>1, <1>2, <2>1
  <2>3. PICK i : Begun(file, s, fields, i) /\ Ends(file, i, field, at + 1, "ok")
    <3>1. \E i : /\ Begun(file, s, fields, i)
                 /\ Ends(file, i, Cell(from, CloseAt(st, at) - from, fs), at + 1, "ok")
      BY <1>5, <2>2, AtEnds
    <3> QED BY <1>4, <3>1
  <2>4. Begun(file, s, Append(fields, field), (at + 1) + 1)
    <3>1. PICK end : end = at + 1
      OBVIOUS
    <3>2. Begun(file, s, Append(fields, field), end + 1)
      BY <2>2, <2>3, <3>1, BegunGoesOn
    <3> QED BY <3>1, <3>2
  <2> QED BY <1>4, <2>1, <2>4 DEF At
<1>7. CASE c = "space" /\ st = "QUOTE_IN_QUOTED"
  <2>1. /\ at \in 1 .. Len(file) /\ file[at] = "quote"
        /\ QuotedSoFar(file, from, at - 1, fs) /\ Begun(file, s, fields, from)
    BY <1>7 DEF At
  <2>2. Goto(st, c) = "AFTER_QUOTED" /\ CloseAt(st, at) - from = at - 1 - from
    BY <1>7 DEF Goto, Enders, CloseAt
  <2>3. /\ Padded(file, from, at, at)
        /\ G!ClosedAt(file, from, at).field = field
    BY <1>2, <1>3, <1>4, <1>7, <2>1, <2>2, QuoteCloses
  <2>4. Padded(file, from, at, at + 1)
    <3>1. \A k \in at + 1 .. at + 1 : k = at + 1
      BY <1>1
    <3> QED BY <1>1, <1>2, <1>3, <1>7, <2>3, <3>1 DEF Padded
  <2>5. Append(fields, field) = Append(fields, G!ClosedAt(file, from, at).field)
    BY <2>3
  <2> QED BY <1>4, <2>1, <2>2, <2>4, <2>5 DEF At
<1> QED BY <1>5, <1>6, <1>7

\* The fields of a record once the one that may be open is closed.
RecordFields(fields, st, at, from, fs) ==
  IF st = "AFTER_QUOTED" THEN fields ELSE Append(fields, Cell(from, CloseAt(st, at) - from, fs))

\* The line is blank so far.
Nothing(fields, st, at, from, fs) ==
  st \in {"FIELD_START", "UNQUOTED"} /\ fields = <<>> /\ at = from /\ fs = {}

\* What ends a row, or the file, outside quotes ends the record.
LEMMA RecordEnds ==
  ASSUME NEW file \in Seq(STRING), NEW s, NEW fields, NEW st, NEW at \in Nat, NEW from \in Nat,
         NEW fs, At(file, s, fields, st, at, from, fs),
         st \in {"FIELD_START", "UNQUOTED", "QUOTE_IN_QUOTED", "AFTER_QUOTED"},
         at < Len(file) => file[at + 1] \in {"cr", "lf"}
  PROVE  LET all == RecordFields(fields, st, at, from, fs)
         IN  /\ G!RecordAt(file)[s] = [fields |-> all, end |-> at + 1, error |-> "ok"]
             /\ s \in 1 .. at + 1 /\ all \in Seq(CellType) /\ fields \in Seq(CellType)
             /\ s = at + 1 => st = "FIELD_START" /\ fields = <<>>
             /\ all = <<Cell(s - 1, 0, {})>> <=> Nothing(fields, st, at, from, fs)
<1>1. Len(file) \in Nat
  BY LenProperties
<1>2. at < Len(file) => file[at + 1] \in Enders /\ file[at + 1] # "delim" /\ file[at + 1] # "space"
  BY DEF Enders
<1>3. ~("ok" = "ok" /\ at + 1 <= Len(file) /\ file[at + 1] = "delim")
  BY <1>1, <1>2
<1>4. PICK all : all = RecordFields(fields, st, at, from, fs)
  OBVIOUS
<1>5. CASE st # "AFTER_QUOTED"
  <2>1. PICK field : field = Cell(from, CloseAt(st, at) - from, fs)
    OBVIOUS
  <2>2. all = Append(fields, field)
    BY <1>4, <1>5, <2>1 DEF RecordFields
  <2>3. PICK i : /\ Begun(file, s, fields, i) /\ Ends(file, i, field, at + 1, "ok")
                 /\ field \in CellType
                 /\ i \in 1 .. at + 1 /\ (st = "FIELD_START" \/ i <= at)
                /\ (st = "QUOTE_IN_QUOTED" => "quoted" \in fs)
                 /\ (st # "QUOTE_IN_QUOTED" => i = from + 1 /\ fs = {})
    BY <1>2, <1>5, <2>1, AtEnds
  <2>4. G!RecordAt(file)[s] = [fields |-> all, end |-> at + 1, error |-> "ok"]
    <3>1. PICK end : end = at + 1
      OBVIOUS
    <3>2. Begun(file, s, fields, i) /\ Ends(file, i, field, end, "ok")
      BY <2>3, <3>1
    <3>3. ~("ok" = "ok" /\ end <= Len(file) /\ file[end] = "delim")
      BY <1>3, <3>1
    <3>4. G!RecordAt(file)[s] = [fields |-> Append(fields, field), end |-> end, error |-> "ok"]
      BY <3>2, <3>3, BegunEnds
    <3> QED BY <2>2, <3>1, <3>4
  <2>5. /\ fields \in Seq(CellType) /\ s \in 1 .. at + 1 /\ (fields = <<>> => s = i)
        /\ Len(fields) \in Nat /\ (s = at + 1 => st = "FIELD_START" /\ fields = <<>>)
    BY <2>3, LenProperties DEF Begun
  <2>6. all \in Seq(CellType) /\ Len(all) = Len(fields) + 1 /\ all[Len(fields) + 1] = field
    BY <2>2, <2>3, <2>5, AppendProperties
  <2>7. ASSUME all = <<Cell(s - 1, 0, {})>>
        PROVE  st \in {"FIELD_START", "UNQUOTED"} /\ fields = <<>> /\ at = from /\ fs = {}
    <3>1. Len(all) = 1 /\ all[1] = Cell(s - 1, 0, {})
      BY <2>7
    <3>2. Len(fields) = 0 /\ fields = <<>>
      BY <2>5, <2>6, <3>1, EmptySeq
    <3>3. field = Cell(s - 1, 0, {})
      BY <2>6, <3>1, <3>2
    <3>4. fs = {} /\ CloseAt(st, at) - from = 0
      BY <2>1, <3>3 DEF Cell
    <3>5. st \in {"FIELD_START", "UNQUOTED"}
      BY <1>5, <2>3, <3>4
    <3> QED BY <3>2, <3>4, <3>5 DEF CloseAt
  <2>8. ASSUME st \in {"FIELD_START", "UNQUOTED"}, fields = <<>>, at = from, fs = {}
        PROVE  all = <<Cell(s - 1, 0, {})>>
    <3>1. field = Cell(from, 0, {}) /\ s = from + 1
      BY <2>1, <2>3, <2>5, <2>8 DEF CloseAt
    <3>2. s - 1 = from
      BY <3>1
    <3> QED BY <2>2, <2>8, <3>1, <3>2
  <2> QED BY <1>4, <2>4, <2>5, <2>6, <2>7, <2>8 DEF Nothing
<1>6. CASE st = "AFTER_QUOTED"
  <2>1. PICK i, j, done :
          /\ Padded(file, i, j, at) /\ Begun(file, s, done, i)
          /\ fields = Append(done, G!ClosedAt(file, i, j).field)
    BY <1>6 DEF At
  <2>2. PICK field : field = G!ClosedAt(file, i, j).field
    OBVIOUS
  <2>3. Ends(file, i, field, at + 1, "ok")
    BY <1>2, <2>1, <2>2, PaddedEnds
  <2>4. all = Append(done, field) /\ all = fields
    BY <1>4, <1>6, <2>1, <2>2 DEF RecordFields
  <2>5. G!RecordAt(file)[s] = [fields |-> all, end |-> at + 1, error |-> "ok"]
    <3>1. G!RecordAt(file)[s] = [fields |-> Append(done, field), end |-> at + 1, error |-> "ok"]
      BY <1>3, <2>1, <2>3, BegunEnds
    <3> QED BY <2>4, <3>1
  <2>6. i \in 1 .. Len(file) /\ j \in i + 1 .. Len(file) /\ i <= at
    BY <1>1, <2>1 DEF Padded
  <2>7. field \in CellType /\ "quoted" \in field.flags
    <3>1. field = Cell(i, j - 1 - i, BodyFlags(file, i, j)) /\ field \in CellType
      BY <2>2, <2>6, ClosedAtIs DEF FieldType
    <3> QED BY <3>1 DEF Cell, BodyFlags
  <2>8. done \in Seq(CellType) /\ s \in 1 .. at + 1 /\ Len(done) \in Nat /\ s # at + 1
    BY <2>1, <2>6, LenProperties DEF Begun
  <2>9. all \in Seq(CellType) /\ Len(all) = Len(done) + 1 /\ all[Len(done) + 1] = field
    <3>1. PICK u : u = Append(done, field)
      OBVIOUS
    <3>2. u \in Seq(CellType) /\ Len(u) = Len(done) + 1 /\ u[Len(done) + 1] = field
      BY <2>7, <2>8, <3>1, AppendProperties
    <3> QED BY <2>4, <3>1, <3>2
  <2>10. all # <<Cell(s - 1, 0, {})>>
    <3>1. ASSUME all = <<Cell(s - 1, 0, {})>> PROVE FALSE
      <4>1. Len(all) = 1 /\ all[1] = Cell(s - 1, 0, {})
        BY <3>1
      <4>2. field = Cell(s - 1, 0, {})
        BY <2>8, <2>9, <4>1
      <4> QED BY <2>7, <4>2 DEF Cell
    <3> QED BY <3>1
  <2> QED BY <1>4, <1>6, <2>4, <2>5, <2>8, <2>9, <2>10 DEF Nothing
<1> QED BY <1>5, <1>6

\* A byte that cannot follow a closed field.
LEMMA AtRejects ==
  ASSUME NEW file \in Seq(STRING), NEW s, NEW fields, NEW st, NEW at \in Nat, NEW from \in Nat,
         NEW fs, At(file, s, fields, st, at, from, fs), at < Len(file),
         NEW c, c = Class(file[at + 1]), Rejects(st, c)
  PROVE  G!RecordAt(file)[s].error = "content" /\ s <= Len(file)
<1>1. Len(file) \in Nat /\ at + 1 \in 1 .. Len(file)
  BY LenProperties
<1>2. PICK b : b = file[at + 1]
  OBVIOUS
<1>3. /\ c = "quote" <=> b = "quote"
      /\ c \in Enders <=> b \in Enders
      /\ c = "space" <=> b = "space"
  BY <1>2 DEF Class, Enders
<1>4. /\ st \in {"QUOTE_IN_QUOTED", "AFTER_QUOTED"} /\ b \notin Enders /\ b # "space"
      /\ st = "QUOTE_IN_QUOTED" => b # "quote"
  BY <1>3 DEF Rejects, Enders
<1>5. \E i, j, done : Padded(file, i, j, at) /\ Begun(file, s, done, i)
  <2>1. CASE st = "QUOTE_IN_QUOTED"
    <3>1. /\ at \in 1 .. Len(file) /\ file[at] = "quote"
          /\ QuotedSoFar(file, from, at - 1, fs) /\ Begun(file, s, fields, from)
      BY <2>1 DEF At
    <3>2. Padded(file, from, at, at)
      BY <1>2, <1>4, <2>1, <3>1, QuoteCloses
    <3> QED BY <3>1, <3>2
  <2>2. CASE st = "AFTER_QUOTED"
    BY <2>2 DEF At
  <2> QED BY <1>4, <2>1, <2>2
<1>6. PICK i, j, done : Padded(file, i, j, at) /\ Begun(file, s, done, i)
  BY <1>5
<1>7. PICK field : field = G!ClosedAt(file, i, j).field
  OBVIOUS
<1>8. Ends(file, i, field, at + 1, "content")
  BY <1>2, <1>4, <1>6, <1>7, PaddedEnds
<1>9. G!RecordAt(file)[s] = [fields |-> Append(done, field), end |-> at + 1, error |-> "content"]
  <2>1. ~("content" = "ok" /\ at + 1 <= Len(file) /\ file[at + 1] = "delim")
    OBVIOUS
  <2> QED BY <1>6, <1>8, <2>1, BegunEnds
<1>10. s <= Len(file)
  BY <1>1, <1>6 DEF Padded, Begun
<1> QED BY <1>9, <1>10

\* The file ends within quotes.
LEMMA AtUnterminated ==
  ASSUME NEW file \in Seq(STRING), NEW s, NEW fields, NEW from, NEW fs,
         At(file, s, fields, "QUOTED", Len(file), from, fs)
  PROVE  G!RecordAt(file)[s].error = "unterminated" /\ s <= Len(file)
<1>1. /\ QuotedSoFar(file, from, Len(file), fs) /\ Begun(file, s, fields, from)
      /\ Len(file) \in Nat
  BY LenProperties DEF At
<1>2. G!FieldFrom(file, from).error = "unterminated" /\ from \in 1 .. Len(file)
  BY <1>1, QuotedNeverEnds
<1>3. PICK field, end : field = G!FieldFrom(file, from).field /\ end = G!FieldFrom(file, from).end
  OBVIOUS
<1>4. Ends(file, from, field, end, "unterminated")
  BY <1>2, <1>3 DEF Ends
<1>5. ~("unterminated" = "ok" /\ end <= Len(file) /\ file[end] = "delim")
  OBVIOUS
<1>6. G!RecordAt(file)[s] = [fields |-> Append(fields, field), end |-> end, error |-> "unterminated"]
  BY <1>1, <1>4, <1>5, BegunEnds
<1>7. s <= Len(file)
  BY <1>1, <1>2 DEF Begun
<1> QED BY <1>6, <1>7

-----------------------------------------------------------------------------
(***************************************************************************)
(* Rows, in the grammar and in the index.                                  *)
(***************************************************************************)

\* What is read of a row that follows some others, and the width of a table with it.
Verdict(done, row, width, maxRows, maxColumns) ==
  IF Len(done) = 0 THEN IF maxColumns # 0 /\ Len(row) > maxColumns THEN "columns" ELSE "ok"
  ELSE IF ~G!Fits(row, width) THEN "ragged"
  ELSE IF maxRows # 0 /\ Len(done) >= maxRows THEN "rows" ELSE "ok"

\* The first row gives the width.
WidthWith(done, row, width) == IF Len(done) = 0 THEN Len(row) ELSE width

\* Some rows, then another.
Follows(rows, done, row) ==
  (\A r \in 1 .. Len(done) : rows[r] = done[r]) /\ rows[Len(done) + 1] = row

\* ... and nothing more.
Grown(more, done, row) ==
  more \in Seq(Seq(CellType)) /\ Len(more) = Len(done) + 1 /\ Follows(more, done, row)

\* That verdict is the grammar's.
LEMMA RowErrorIs ==
  ASSUME NEW width \in Nat, NEW maxRows \in Nat, NEW maxColumns \in Nat,
         NEW done, Fine(done, width, maxRows, maxColumns), NEW row \in Seq(CellType),
         NEW rows, Follows(rows, done, row)
  PROVE  G!RowError(rows, Len(done) + 1, maxRows, maxColumns)
           = Verdict(done, row, width, maxRows, maxColumns)
<1>1. Len(done) \in Nat /\ Len(row) \in Nat
  BY LenProperties DEF Fine
<1>2. CASE Len(done) = 0
  <2>1. Len(done) + 1 = 1 /\ rows[1] = row
    BY <1>2 DEF Follows
  <2>2. G!Fits(row, Len(row))
    BY <1>1 DEF G!Fits
  <2>3. ~(maxRows # 0 /\ 1 > maxRows)
    OBVIOUS
  <2> QED BY <1>2, <2>1, <2>2, <2>3 DEF G!RowError, Verdict
<1>3. CASE Len(done) # 0
  <2>1. 1 \in 1 .. Len(done) /\ Len(done) + 1 # 1 /\ Len(done) > 0
    BY <1>1, <1>3
  <2>2. rows[1] = done[1] /\ Len(rows[1]) = width
    BY <2>1 DEF Fine, Follows
  <2>3. Len(done) + 1 > maxRows <=> Len(done) >= maxRows
    BY <1>1
  <2> QED BY <1>3, <2>1, <2>2, <2>3 DEF G!RowError, Verdict, Follows
<1> QED BY <1>2, <1>3

\* A row more.
LEMMA FineGrows ==
  ASSUME NEW width \in Nat, NEW maxRows \in Nat, NEW maxColumns \in Nat,
         NEW done, Fine(done, width, maxRows, maxColumns), NEW row \in Seq(CellType),
         NEW more, Grown(more, done, row),
         Verdict(done, row, width, maxRows, maxColumns) = "ok"
  PROVE  LET wider == WidthWith(done, row, width)
         IN  /\ Fine(more, wider, maxRows, maxColumns) /\ wider \in 0 .. Len(row)
             /\ \A r \in 1 .. Len(done) : Cut(more, wider)[r] = Cut(done, width)[r]
             /\ Cut(more, wider)[Len(done) + 1] = SubSeq(row, 1, wider)
<1>1. Len(done) \in Nat /\ Len(row) \in Nat /\ done \in Seq(Seq(CellType))
  BY LenProperties DEF Fine
<1>2. PICK R, wider : R = Seq(CellType) /\ wider = WidthWith(done, row, width)
  OBVIOUS
<1>3. /\ more \in Seq(R) /\ Len(more) = Len(done) + 1 /\ more[Len(done) + 1] = row
      /\ \A r \in 1 .. Len(done) : more[r] = done[r]
  BY <1>2 DEF Grown, Follows
<1>4. Len(more[1]) = wider
  <2>1. CASE Len(done) = 0
    BY <1>2, <1>3, <2>1 DEF WidthWith
  <2>2. CASE Len(done) # 0
    <3>1. 1 \in 1 .. Len(done) /\ Len(done) > 0
      BY <1>1, <2>2
    <3> QED BY <1>2, <1>3, <2>2, <3>1 DEF Fine, WidthWith
  <2> QED BY <2>1, <2>2
<1>5. Follows(more, done, row)
  BY DEF Grown
<1>6. ASSUME NEW r \in 1 .. Len(more) PROVE G!RowError(more, r, maxRows, maxColumns) = "ok"
  <2>1. CASE r = Len(done) + 1
    BY <1>5, <2>1, RowErrorIs
  <2>2. CASE r # Len(done) + 1
    <3>1. r \in 1 .. Len(done) /\ 1 \in 1 .. Len(done)
      BY <1>1, <1>3, <2>2
    <3>2. more[r] = done[r] /\ more[1] = done[1]
      BY <1>3, <3>1
    <3>3. G!RowError(more, r, maxRows, maxColumns) = G!RowError(done, r, maxRows, maxColumns)
      BY <3>2 DEF G!RowError
    <3> QED BY <3>1, <3>3 DEF Fine
  <2> QED BY <2>1, <2>2
<1>7. wider \in 0 .. Len(row)
  <2>1. CASE Len(done) = 0
    BY <1>1, <1>2, <2>1 DEF WidthWith
  <2>2. CASE Len(done) # 0
    <3>1. G!Fits(row, width)
      BY <2>2 DEF Verdict
    <3> QED BY <1>1, <1>2, <2>2, <3>1 DEF G!Fits, WidthWith
  <2> QED BY <2>1, <2>2
<1>8. \A r \in 1 .. Len(more) : Cut(more, wider)[r] = SubSeq(more[r], 1, wider)
  BY DEF Cut
<1>9. ASSUME NEW r \in 1 .. Len(done) PROVE Cut(more, wider)[r] = Cut(done, width)[r]
  <2>1. r \in 1 .. Len(more) /\ Len(done) # 0
    BY <1>1, <1>3
  <2> QED BY <1>2, <1>3, <1>8, <2>1 DEF Cut, WidthWith
<1>10. Len(done) + 1 \in 1 .. Len(more)
  BY <1>1, <1>3
<1>11. Fine(more, wider, maxRows, maxColumns)
  BY <1>2, <1>3, <1>4, <1>6 DEF Fine
<1> QED BY <1>2, <1>3, <1>7, <1>8, <1>9, <1>10, <1>11

\* A row appended is such a one.
LEMMA AppendGrows ==
  ASSUME NEW done \in Seq(Seq(CellType)), NEW row \in Seq(CellType)
  PROVE  Grown(Append(done, row), done, row)
<1>1. PICK R, more : R = Seq(CellType) /\ more = Append(done, row)
  OBVIOUS
<1>2. /\ more \in Seq(R) /\ Len(more) = Len(done) + 1 /\ more[Len(done) + 1] = row
      /\ \A r \in 1 .. Len(done) : more[r] = done[r]
  BY <1>1, AppendProperties
<1> QED BY <1>1, <1>2 DEF Grown, Follows

\* The end of a sequence, from a place on.
LEMMA TailIs ==
  ASSUME NEW S, NEW s \in Seq(S), NEW n \in 0 .. Len(s)
  PROVE  /\ SubSeq(s, n + 1, Len(s)) \in Seq(S)
         /\ Len(SubSeq(s, n + 1, Len(s))) = Len(s) - n
         /\ \A i \in 1 .. Len(s) - n : SubSeq(s, n + 1, Len(s))[i] = s[n + i]
<1>1. Len(s) \in Nat /\ n \in Nat /\ n + 1 \in Int /\ \A i \in n + 1 .. Len(s) : s[i] \in S
  BY IndicesAndElements
<1>2. /\ SubSeq(s, n + 1, Len(s)) \in Seq(S)
      /\ Len(SubSeq(s, n + 1, Len(s))) = IF n + 1 <= Len(s) THEN Len(s) - (n + 1) + 1 ELSE 0
      /\ \A i \in 1 .. Len(s) - (n + 1) + 1 : SubSeq(s, n + 1, Len(s))[i] = s[(n + 1) + i - 1]
  BY <1>1, SubSeqProperties
<1>3. Len(s) - (n + 1) + 1 = Len(s) - n /\ \A i \in 1 .. Len(s) - n : (n + 1) + i - 1 = n + i
  BY <1>1
<1>4. (IF n + 1 <= Len(s) THEN Len(s) - (n + 1) + 1 ELSE 0) = Len(s) - n
  BY <1>1
<1>5. \A i \in 1 .. Len(s) - n : i \in 1 .. Len(s) - (n + 1) + 1
  BY <1>1
<1>6. \A i \in 1 .. Len(s) - n : SubSeq(s, n + 1, Len(s))[i] = s[n + i]
  BY <1>2, <1>3, <1>5
<1> QED BY <1>2, <1>4, <1>6

\* What is appended comes at the end of every tail.
LEMMA TailOfAppend ==
  ASSUME NEW S, NEW s \in Seq(S), NEW n \in 0 .. Len(s), NEW e \in S
  PROVE  /\ SubSeq(Append(s, e), n + 1, Len(Append(s, e))) = Append(SubSeq(s, n + 1, Len(s)), e)
         /\ SubSeq(Append(s, e), 1, n) = SubSeq(s, 1, n)
<1>1. PICK t, u, a, b : /\ t = Append(s, e) /\ u = SubSeq(s, n + 1, Len(s))
                        /\ a = SubSeq(t, n + 1, Len(t)) /\ b = Append(u, e)
  OBVIOUS
<1>2. Len(s) \in Nat /\ n \in Nat
  BY LenProperties
<1>3. /\ t \in Seq(S) /\ Len(t) = Len(s) + 1 /\ t[Len(s) + 1] = e
      /\ \A i \in 1 .. Len(s) : t[i] = s[i]
  BY <1>1, AppendProperties
<1>4. /\ u \in Seq(S) /\ Len(u) = Len(s) - n
      /\ \A i \in 1 .. Len(s) - n : u[i] = s[n + i]
  BY <1>1, TailIs
<1>5. n \in 0 .. Len(t)
  BY <1>2, <1>3
<1>6. /\ a \in Seq(S) /\ Len(a) = Len(t) - n
      /\ \A i \in 1 .. Len(t) - n : a[i] = t[n + i]
  BY <1>1, <1>3, <1>5, TailIs
<1>7. /\ b \in Seq(S) /\ Len(b) = Len(u) + 1 /\ b[Len(u) + 1] = e
      /\ \A i \in 1 .. Len(u) : b[i] = u[i]
  <2>1. b = Append(u, e) /\ u \in Seq(S)
    BY <1>1, <1>4
  <2> QED BY <2>1, AppendProperties
<1>8. Len(a) = Len(b)
  BY <1>2, <1>3, <1>4, <1>6, <1>7
<1>9. ASSUME NEW i \in 1 .. Len(a) PROVE a[i] = b[i]
  <2>1. CASE i = Len(u) + 1
    <3>1. n + i = Len(s) + 1
      BY <1>2, <1>4, <2>1
    <3> QED BY <1>3, <1>6, <1>7, <2>1, <3>1
  <2>2. CASE i # Len(u) + 1
    <3>1. i \in 1 .. Len(u) /\ i \in 1 .. Len(s) - n /\ n + i \in 1 .. Len(s)
      BY <1>2, <1>4, <1>7, <1>8, <2>2
    <3> QED BY <1>3, <1>4, <1>6, <1>7, <3>1
  <2> QED BY <2>1, <2>2
<1>10. a = b
  BY <1>6, <1>7, <1>8, <1>9, SeqEqual
<1> QED BY <1>1, <1>10, PrefixOfAppend

\* The rows a file may begin with, as far as the index holds them.
Done(done) ==
  /\ Fine(done, columns, MaxRows, MaxColumns)
  /\ Len(done) = NumRows /\ RowsRead = Cut(done, columns)

\* The fields of the row that is read.
OpenRow == SubSeq(cells, RowFirst + 1, Len(cells))

\* A file the host may be sending.
Possible(file) == Continues(file, data) /\ (finished => file = data)

\* A file that is possible after a step was possible before it.
LEMMA PossibleBefore ==
  ASSUME Inv, [Next]_vars, NEW file, Possible(file)'
  PROVE  Possible(file)
<1>1. Inv' /\ Continues(data', data)
  BY NextKeepsInv, DataGrows
<1>2. data \in Seq(STRING) /\ data' \in Seq(STRING) /\ Len(data) \in Nat /\ Len(data') \in Nat
  BY <1>1, LenProperties DEF Inv, TypeOK, InputOK
<1>3. Continues(file, data') /\ (finished' => file = data')
  BY DEF Possible, Continues
<1>4. Len(file) \in Nat
  BY <1>3, LenProperties DEF Continues
<1>5. Continues(file, data)
  BY <1>1, <1>2, <1>3, <1>4 DEF Continues
<1>6. finished => finished' /\ data' = data
  BY DEF Next, Host, Chunk, Borrow, Finish, Run, DecideBom, AfterCr, Consume, Reject,
     CloseField, CloseRow, Return, Unterminated, EndRecord, Settle, input, vars
<1> QED BY <1>3, <1>5, <1>6 DEF Possible

\* The file that ends here.
LEMMA DataPossible ==
  ASSUME Inv
  PROVE  Possible(data) /\ data \in Seq(STRING) /\ MaxRows \in Nat /\ MaxColumns \in Nat
<1>1. data \in Seq(STRING) /\ case \in DOMAIN Cases /\ Len(data) \in Nat
  BY LenProperties DEF Inv, TypeOK, InputOK
<1> QED BY <1>1, CasesAssumption DEF Possible, Continues, MaxRows, MaxColumns

\* The limits are the case's.
LEMMA LimitsStay ==
  ASSUME [Next]_vars
  PROVE  MaxRows' = MaxRows /\ MaxColumns' = MaxColumns
<1>1. case' = case
  BY DEF Next, Host, Chunk, Borrow, Finish, Run, DecideBom, AfterCr, Consume, Reject,
     CloseField, CloseRow, Return, Unterminated, EndRecord, Settle, input, vars
<1> QED BY <1>1 DEF MaxRows, MaxColumns

\* No row completed, none lost.
LEMMA DoneStays ==
  ASSUME Inv, [Next]_vars, NumRows' = NumRows, NEW done, Done(done)
  PROVE  Done(done)'
<1>1. /\ NumRows \in Nat
      /\ NumRows > 0 => columns' = columns
      /\ \A r \in 1 .. NumRows : first'[r] = first[r]
      /\ \A i \in 1 .. RowFirst : cells'[i] = cells[i]
  BY RowsStay
<1>2. MaxRows' = MaxRows /\ MaxColumns' = MaxColumns
  BY LimitsStay
<1>3. /\ Len(done) = NumRows /\ RowsRead = Cut(done, columns)
      /\ Fine(done, columns, MaxRows, MaxColumns)
  BY DEF Done
<1>4. CASE NumRows = 0
  <2>1. \A w : Cut(done, w) = [r \in {} |-> 0]
    <3>1. 1 .. Len(done) = {}
      BY <1>3, <1>4
    <3> QED BY <3>1 DEF Cut
  <2>2. RowsRead' = [r \in {} |-> 0]
    <3>1. 1 .. NumRows' = {}
      BY <1>4
    <3> QED BY <3>1 DEF RowsRead
  <2>3. Fine(done, columns', MaxRows', MaxColumns')
    <3>1. ~(Len(done) > 0) /\ 1 .. Len(done) = {} /\ done \in Seq(Seq(CellType))
      BY <1>3, <1>4 DEF Fine
    <3> QED BY <3>1 DEF Fine
  <2> QED BY <1>3, <2>1, <2>2, <2>3 DEF Done
<1>5. CASE NumRows # 0
  <2>1. columns' = columns
    BY <1>1, <1>5
  <2>2. RowsRead' = [r \in 1 .. NumRows |-> [c \in 1 .. columns |-> cells'[first'[r] + c]]]
    BY <2>1 DEF RowsRead
  <2>3. \A r \in 1 .. NumRows : \A c \in 1 .. columns :
          cells'[first'[r] + c] = cells[first[r] + c]
    BY <1>1, RowsBefore
  <2>4. RowsRead' = RowsRead
    BY <2>2, <2>3 DEF RowsRead
  <2> QED BY <1>2, <1>3, <2>1, <2>4 DEF Done
<1> QED BY <1>4, <1>5

\* The row that row_end is called for.
EndsIn(cs, row) == row = SubSeq(cs, RowFirst + 1, Len(cs))

\* What it finds wrong with it.
LEMMA RowErrorFound ==
  ASSUME Inv, NEW done, Done(done), NEW cs \in Seq(CellType), Len(cs) >= RowFirst,
         NEW row, EndsIn(cs, row)
  PROVE  /\ Verdict(done, row, columns, MaxRows, MaxColumns) = RowError(cs)
         /\ row \in Seq(CellType) /\ Len(row) = Width(cs) /\ Width(cs) \in Nat /\ RowFirst \in Nat
         /\ \A c \in 1 .. Len(row) : row[c] = cs[RowFirst + c]
<1>1. /\ Len(cs) \in Nat /\ RowFirst \in Nat /\ columns \in Nat /\ NumRows \in Nat
  BY IndicesAndElements DEF Inv, TypeOK, IndexOK, RowFirst, NumRows
<1>2. /\ row \in Seq(CellType) /\ Len(row) = Width(cs)
      /\ \A c \in 1 .. Len(row) : row[c] = cs[RowFirst + c]
  <2>1. RowFirst \in 0 .. Len(cs)
    BY <1>1
  <2> QED BY <2>1, TailIs DEF Width, EndsIn
<1>3. Len(done) = NumRows
  BY DEF Done
<1>4. Width(cs) \in Nat /\ Len(row) = Len(cs) - RowFirst
  BY <1>1, <1>2 DEF Width
<1>5. ~G!Fits(row, columns) <=> Width(cs) < columns \/ \E i \in Excess(cs) : cs[i].len # 0
  <2>1. ASSUME NEW c \in columns + 1 .. Len(row)
        PROVE  RowFirst + c \in Excess(cs) /\ row[c] = cs[RowFirst + c]
    <3>2. c \in 1 .. Len(row) /\ RowFirst + c \in RowFirst + columns + 1 .. Len(cs)
      BY <1>1, <1>4
    <3> QED BY <1>2, <3>2 DEF Excess
  <2>2. ASSUME NEW i \in Excess(cs)
        PROVE  i - RowFirst \in columns + 1 .. Len(row) /\ row[i - RowFirst] = cs[i]
    <3>1. i \in RowFirst + columns + 1 .. Len(cs)
      BY DEF Excess
    <3>2. i - RowFirst \in columns + 1 .. Len(row) /\ RowFirst + (i - RowFirst) = i
      BY <1>1, <1>2, <3>1 DEF Width
    <3>3. i - RowFirst \in 1 .. Len(row)
      BY <1>1, <3>2
    <3> QED BY <1>2, <3>2, <3>3
  <2>3. Len(row) >= columns <=> ~(Width(cs) < columns)
    BY <1>1, <1>2, <1>4
  <2>4. (\E c \in columns + 1 .. Len(row) : row[c].len # 0) <=> \E i \in Excess(cs) : cs[i].len # 0
    <3>1. ASSUME NEW c \in columns + 1 .. Len(row), row[c].len # 0
          PROVE  \E i \in Excess(cs) : cs[i].len # 0
      BY <2>1, <3>1
    <3>2. ASSUME NEW i \in Excess(cs), cs[i].len # 0
          PROVE  \E c \in columns + 1 .. Len(row) : row[c].len # 0
      BY <2>2, <3>2
    <3> QED BY <3>1, <3>2
  <2> QED BY <2>3, <2>4 DEF G!Fits
<1>6. Verdict(done, row, columns, MaxRows, MaxColumns) = RowError(cs)
  BY <1>2, <1>3, <1>5 DEF RowError, Verdict
<1> QED BY <1>1, <1>2, <1>4, <1>6

\* A row that is refused leaves the rows before it, ...
LEMMA RowRefused ==
  ASSUME Inv, Next, NEW cs \in Seq(CellType), Len(cs) >= RowFirst, RowEnd(cs),
         RowError(cs) # "ok", NEW done, Done(done)
  PROVE  Done(done)' /\ status' = RowError(cs) /\ status' \in {"columns", "ragged", "rows"}
<1>1. first' = first /\ status' = RowError(cs)
  BY DEF RowEnd
<1>2. NumRows' = NumRows
  BY <1>1 DEF NumRows
<1>3. RowError(cs) \in {"columns", "ragged", "rows"}
  BY DEF RowError
<1> QED BY <1>1, <1>2, <1>3, DoneStays

\* ... and one that is not is the next of them.
LEMMA RowTaken ==
  ASSUME Inv, Next, NEW cs \in Seq(CellType), Len(cs) >= RowFirst, RowEnd(cs),
         RowError(cs) = "ok", NEW done, Done(done),
         NEW row, EndsIn(cs, row)
  PROVE  /\ Done(Append(done, row))' /\ OpenRow' = <<>>
         /\ status' \in {"ok", "header", "mismatch"}
<1>1. /\ first \in Seq(Nat) /\ Len(first) \in Nat /\ Len(first) >= 1 /\ columns \in Nat
      /\ RowFirst \in Nat /\ NumRows \in Nat /\ NumRows = Len(first) - 1
      /\ MaxRows \in Nat /\ MaxColumns \in Nat /\ Len(cs) \in Nat
  BY DataPossible, IndicesAndElements DEF Inv, TypeOK, IndexOK, RowFirst, NumRows
<1>2. PICK width, wider : width = columns /\ wider = columns'
  OBVIOUS
<1>3. /\ done \in Seq(Seq(CellType)) /\ Len(done) = NumRows /\ RowsRead = Cut(done, width)
      /\ Fine(done, width, MaxRows, MaxColumns)
  BY <1>2 DEF Done, Fine
<1>4. PICK more : more = Append(done, row)
  OBVIOUS
<1>5. /\ row \in Seq(CellType) /\ Len(row) = Width(cs) /\ Width(cs) \in Nat
      /\ \A c \in 1 .. Len(row) : row[c] = cs[RowFirst + c]
      /\ Verdict(done, row, width, MaxRows, MaxColumns) = "ok"
  BY <1>2, RowErrorFound
<1>6. wider = WidthWith(done, row, width) /\ (NumRows = 0 => wider = Len(row))
      /\ (NumRows # 0 => wider = width)
  BY <1>2, <1>3, <1>5 DEF RowEnd, WidthWith
<1>7. /\ Fine(more, wider, MaxRows, MaxColumns) /\ wider \in 0 .. Len(row)
      /\ \A r \in 1 .. Len(done) : Cut(more, wider)[r] = Cut(done, width)[r]
      /\ Cut(more, wider)[Len(done) + 1] = SubSeq(row, 1, wider)
      /\ Len(more) = Len(done) + 1
  <2>1. PICK limit, widest : limit = MaxRows /\ widest = MaxColumns
    OBVIOUS
  <2>2. /\ width \in Nat /\ limit \in Nat /\ widest \in Nat /\ Fine(done, width, limit, widest)
        /\ Verdict(done, row, width, limit, widest) = "ok" /\ row \in Seq(CellType)
    BY <1>1, <1>2, <1>3, <1>5, <2>1
  <2>3. PICK w : w = WidthWith(done, row, width)
    OBVIOUS
  <2>4. Grown(more, done, row)
    BY <1>3, <1>4, <1>5, AppendGrows
  <2>5. /\ Fine(more, w, limit, widest) /\ w \in 0 .. Len(row)
        /\ \A r \in 1 .. Len(done) : Cut(more, w)[r] = Cut(done, width)[r]
        /\ Cut(more, w)[Len(done) + 1] = SubSeq(row, 1, w)
    <3>1. Fine(more, w, limit, widest)
      BY <2>2, <2>3, <2>4, FineGrows
    <3>2. w \in 0 .. Len(row)
      BY <2>2, <2>3, <2>4, FineGrows
    <3>3. \A r \in 1 .. Len(done) : Cut(more, w)[r] = Cut(done, width)[r]
      BY <2>2, <2>3, <2>4, FineGrows
    <3>4. Cut(more, w)[Len(done) + 1] = SubSeq(row, 1, w)
      BY <2>2, <2>3, <2>4, FineGrows
    <3> QED BY <3>1, <3>2, <3>3, <3>4
  <2> QED BY <1>6, <2>1, <2>3, <2>4, <2>5 DEF Grown
<1>8. wider \in Nat /\ wider <= Len(row)
  BY <1>5, <1>7
<1>10. /\ cells' = Kept(cs) /\ first' = Append(first, Len(Kept(cs)))
       /\ status' \in {"ok", "header", "mismatch"}
  BY DEF RowEnd
<1>11. PICK kept : kept = Kept(cs)
  OBVIOUS
<1>12. /\ kept \in Seq(CellType) /\ Len(kept) = RowFirst + wider
       /\ \A i \in 1 .. RowFirst + wider : kept[i] = cs[i]
  <2>1. RowFirst + wider \in 0 .. Len(cs)
    <3>1. Len(row) = Len(cs) - RowFirst
      BY <1>5 DEF Width
    <3> QED BY <1>1, <1>7, <3>1
  <2>2. kept = SubSeq(cs, 1, RowFirst + wider)
    <3>1. CASE NumRows = 0
      <4>1. kept = cs /\ RowFirst + wider = Len(cs)
        BY <1>1, <1>3, <1>5, <1>6, <1>11, <3>1 DEF Kept, Width
      <4> QED BY <4>1, SubSeqFull
    <3>2. CASE NumRows # 0
      BY <1>2, <1>3, <1>6, <1>11, <3>2 DEF Kept
    <3> QED BY <3>1, <3>2
  <2>3. PICK n : n = RowFirst + wider
    OBVIOUS
  <2>4. /\ SubSeq(cs, 1, n) \in Seq(CellType) /\ Len(SubSeq(cs, 1, n)) = n
        /\ \A i \in 1 .. n : SubSeq(cs, 1, n)[i] = cs[i]
    BY <2>1, <2>3, Prefix
  <2> QED BY <2>2, <2>3, <2>4
<1>13. /\ Len(first') = Len(first) + 1 /\ first'[Len(first) + 1] = Len(kept)
       /\ \A i \in 1 .. Len(first) : first'[i] = first[i]
  <2>1. Len(kept) \in Nat
    BY <1>1, <1>7, <1>12
  <2> QED BY <1>1, <1>10, <1>11, <2>1, AppendProperties
<1>14. /\ NumRows' = NumRows + 1 /\ first'[NumRows + 1] = RowFirst /\ RowFirst' = Len(cells')
  BY <1>1, <1>10, <1>11, <1>13 DEF NumRows, RowFirst
<1>15. OpenRow' = <<>>
  <2>1. Len(cells') \in Nat /\ cells' \in Seq(CellType)
    BY <1>1, <1>7, <1>10, <1>11, <1>12
  <2>2. SubSeq(cells', Len(cells') + 1, Len(cells')) = <<>>
    BY <2>1, SubSeqEmpty
  <2> QED BY <1>14, <2>2 DEF OpenRow
<1>16. RowsRead' = Cut(more, wider)
  <2>1. RowsRead' = [r \in 1 .. NumRows + 1 |-> [c \in 1 .. wider |-> kept[first'[r] + c]]]
    BY <1>2, <1>10, <1>11, <1>14 DEF RowsRead
  <2>2. Cut(more, wider) = [r \in 1 .. NumRows + 1 |-> Cut(more, wider)[r]]
    BY <1>3, <1>7 DEF Cut
  <2>3. ASSUME NEW r \in 1 .. NumRows + 1
        PROVE  [c \in 1 .. wider |-> kept[first'[r] + c]] = Cut(more, wider)[r]
    <3>1. CASE r = NumRows + 1
      <4>1. Cut(more, wider)[r] = SubSeq(row, 1, wider)
        BY <1>3, <1>7, <3>1
      <4>2. wider \in 0 .. Len(row)
        BY <1>5, <1>7
      <4>3. PICK t : t = SubSeq(row, 1, wider)
        OBVIOUS
      <4>4. t \in Seq(CellType) /\ Len(t) = wider /\ \A c \in 1 .. wider : t[c] = row[c]
        BY <1>5, <4>2, <4>3, Prefix
      <4>5. t = [c \in 1 .. wider |-> t[c]]
        <5>1. t \in [1 .. wider -> CellType]
          <6>1. t \in [1 .. Len(t) -> CellType]
            BY <4>4, LenProperties
          <6> QED BY <4>4, <6>1
        <5> QED BY <5>1
      <4>6. \A c \in 1 .. wider : kept[RowFirst + c] = t[c]
        <5>1. ASSUME NEW c \in 1 .. wider PROVE kept[RowFirst + c] = t[c]
          <6>1. RowFirst + c \in 1 .. RowFirst + wider /\ c \in 1 .. Len(row)
            BY <1>1, <1>5, <1>7
          <6> QED BY <1>5, <1>12, <4>4, <6>1
        <5> QED BY <5>1
      <4> QED BY <1>14, <3>1, <4>1, <4>3, <4>5, <4>6
    <3>2. CASE r # NumRows + 1
      <4>1. r \in 1 .. NumRows /\ r \in 1 .. Len(done) /\ r \in 1 .. Len(first) /\ Len(done) # 0
        <5>1. r \in 1 .. NumRows
          BY <1>1, <3>2
        <5>2. NumRows # 0 /\ r \in 1 .. Len(first)
          BY <1>1, <5>1
        <5>3. NumRows = Len(done)
          BY <1>3
        <5> QED BY <5>1, <5>2, <5>3
      <4>2. Cut(more, wider)[r] = RowsRead[r] /\ wider = width
        BY <1>3, <1>6, <1>7, <4>1
      <4>3. RowsRead[r] = [c \in 1 .. width |-> cells[first[r] + c]]
        BY <1>2, <4>1 DEF RowsRead
      <4>4. \A c \in 1 .. width : kept[first'[r] + c] = cells[first[r] + c]
        <5>1. \A i \in 1 .. RowFirst : kept[i] = cells[i]
          BY <1>10, <1>11, RowsStay
        <5>2. \A c \in 1 .. width : first[r] + c \in 1 .. RowFirst
          BY <1>2, <4>1, RowsBefore
        <5> QED BY <1>13, <4>1, <5>1, <5>2
      <4> QED BY <4>2, <4>3, <4>4
    <3> QED BY <3>1, <3>2
  <2>4. PICK table : table = Cut(more, wider)
    OBVIOUS
  <2> QED BY <2>1, <2>2, <2>3, <2>4
<1>17. Done(more)'
  <2>1. MaxRows' = MaxRows /\ MaxColumns' = MaxColumns
    BY LimitsStay
  <2> QED BY <1>2, <1>3, <1>6, <1>7, <1>14, <1>16, <2>1 DEF Done
<1> QED BY <1>4, <1>10, <1>15, <1>17

-----------------------------------------------------------------------------
(***************************************************************************)
(* The invariant: what is read is what the grammar reads.                  *)
(***************************************************************************)

\* What the bytes from here on mean for the row that is open: the records of the
\* file are the rows there are and those from s on.
Middle(file) ==
  \E done, s :
    Done(done) /\ Reads(file, done, s) /\ At(file, s, OpenRow, state, pos, start, flags)

\* What an error says of the records that follow the rows there are.
Tells(error, done, rest, maxRows, maxColumns) ==
  /\ error \in {"content", "unterminated"} => rest = [rows |-> <<>>, error |-> error]
  /\ error \in {"columns", "ragged", "rows"} =>
       /\ rest.rows # <<>>
       /\ G!RowError(done \o rest.rows, Len(done) + 1, maxRows, maxColumns) = error

\* Nothing is read before the mark is decided, ...
Waiting ==
  bom => /\ NumRows = 0 /\ cells = <<>> /\ flags = {}
         /\ call = "idle" => MaybeBom

\* ... then the machine stands in a record of every file there may be, ...
Midway == Open /\ ~bom => \A file : Possible(file) => Middle(file)

\* ... at the end in none, ...
Over ==
  status = "ok" /\ finished /\ call # "finish" =>
    \E done : Done(done) /\ G!Records(data) = Ahead(done, [rows |-> <<>>, error |-> "ok"])

\* ... and an error is one the bytes hold.
Failed ==
  status # "ok" =>
    \E done : \E rest \in ResultType :
      /\ Done(done) /\ G!Records(data) = Ahead(done, rest)
      /\ Tells(status, done, rest, MaxRows, MaxColumns)

\* The invariant of the proof.
GrammarInv == Inv /\ Waiting /\ Midway /\ Over /\ Failed

\* What row_end makes of a record that is no blank line.
LEMMA RowEndReads ==
  ASSUME Inv, Next, NEW cs \in Seq(CellType), Len(cs) >= RowFirst, RowEnd(cs),
         NEW file \in Seq(STRING), NEW done, Done(done), NEW s, Reads(file, done, s),
         s <= Len(file), NEW row, EndsIn(cs, row), NEW end,
         G!RecordAt(file)[s] = [fields |-> row, end |-> end, error |-> "ok"],
         row # <<Cell(s - 1, 0, {})>>
  PROVE  /\ status' \in {"ok", "header", "mismatch", "columns", "ragged", "rows"}
         /\ status' \in {"ok", "header", "mismatch"} =>
              /\ OpenRow' = <<>>
              /\ \E more : Done(more)' /\ Reads(file, more, G!AfterEnd(file, end))
         /\ status' # "ok" =>
              \E more : \E rest \in ResultType :
                /\ Done(more)' /\ G!Records(file) = Ahead(more, rest)
                /\ Tells(status', more, rest, MaxRows', MaxColumns')
<1>1. /\ row \in Seq(CellType) /\ Verdict(done, row, columns, MaxRows, MaxColumns) = RowError(cs)
      /\ MaxRows \in Nat /\ MaxColumns \in Nat /\ columns \in Nat
      /\ MaxRows' = MaxRows /\ MaxColumns' = MaxColumns
  BY RowErrorFound, DataPossible, LimitsStay DEF Inv, TypeOK, IndexOK
<1>2. PICK here, next : here = G!RecordsAt(file)[s] /\ next = G!AfterEnd(file, end)
  OBVIOUS
<1>3. Len(file) \in Nat /\ s \in 1 .. Len(file) + 1 /\ s \in 1 .. Len(file) /\ done \in Seq(Seq(CellType))
  BY LenProperties DEF Reads
<1>4. end \in s .. Len(file) + 1
  <2>1. G!RecordAt(file)[s] \in RecordType(file) /\ G!RecordAt(file)[s].end >= s
    BY <1>3, RecordTyped
  <2> QED BY <1>3, <2>1 DEF RecordType
<1>5. next \in 1 .. Len(file) + 1
  <2>1. next \in s + 1 .. Len(file) + 1
    BY <1>2, <1>3, <1>4, AfterEndIs
  <2> QED BY <1>3, <2>1
<1>6. /\ here \in ResultType /\ G!RecordsAt(file)[next] \in ResultType
      /\ G!Records(file) = Ahead(done, here)
  BY <1>2, <1>3, <1>5, RecordsTyped DEF Reads
<1>7. Reads(file, Append(done, row), next)
  BY <1>1, <1>2, RecordRead
<1>8. CASE RowError(cs) = "ok"
  <2>1. /\ Done(Append(done, row))' /\ OpenRow' = <<>>
        /\ status' \in {"ok", "header", "mismatch"}
    BY <1>8, RowTaken
  <2>2. PICK more, rest : more = Append(done, row) /\ rest = G!RecordsAt(file)[next]
    OBVIOUS
  <2>3. Done(more)' /\ Reads(file, more, next) /\ rest \in ResultType
    BY <1>6, <1>7, <2>1, <2>2
  <2>4. G!Records(file) = Ahead(more, rest)
    BY <2>2, <2>3 DEF Reads
  <2>5. \A d, r, m, n : Tells(status', d, r, m, n)
    BY <2>1 DEF Tells
  <2> QED BY <1>2, <2>1, <2>3, <2>4, <2>5
<1>9. CASE RowError(cs) # "ok"
  <2>1. Done(done)' /\ status' = RowError(cs) /\ status' \in {"columns", "ragged", "rows"}
    BY <1>9, RowRefused
  <2>2. here = Ahead(<<row>>, G!RecordsAt(file)[next])
    <3>1. PICK r : r = G!RecordAt(file)[s]
      OBVIOUS
    <3>2. r.fields = row /\ r.end = end /\ r.error = "ok"
      BY <3>1
    <3>3. G!RecordsAt(file)[s] =
            IF r.error # "ok" THEN [rows |-> <<>>, error |-> r.error]
            ELSE IF r.fields = <<Cell(s - 1, 0, {})>> THEN G!RecordsAt(file)[G!AfterEnd(file, r.end)]
            ELSE Ahead(<<r.fields>>, G!RecordsAt(file)[G!AfterEnd(file, r.end)])
      BY <1>3, <3>1, RecordsAtIs
    <3> QED BY <1>2, <3>2, <3>3
  <2>3. PICK R, one, u, rows : /\ R = Seq(CellType) /\ one = <<row>>
                               /\ u = G!RecordsAt(file)[next].rows /\ rows = done \o here.rows
    OBVIOUS
  <2>4. /\ one \in Seq(R) /\ u \in Seq(R) /\ done \in Seq(R) /\ Len(one) = 1 /\ one[1] = row
    BY <1>1, <1>3, <1>6, <2>3 DEF ResultType
  <2>5. here.rows = one \o u
    <3>1. one \in Seq(Seq(CellType))
      BY <2>3, <2>4
    <3> QED BY <1>6, <2>2, <2>3, <3>1, AheadTyped
  <2>6. /\ one \o u \in Seq(R) /\ Len(one \o u) = 1 + Len(u) /\ Len(u) \in Nat /\ Len(done) \in Nat
        /\ (one \o u)[1] = row
    <3>1. Len(u) \in Nat /\ Len(done) \in Nat
      BY <2>4, LenProperties
    <3>2. /\ one \o u \in Seq(R) /\ Len(one \o u) = Len(one) + Len(u)
          /\ \A r \in 1 .. Len(one) + Len(u) :
               (one \o u)[r] = IF r <= Len(one) THEN one[r] ELSE u[r - Len(one)]
      BY <2>4, ConcatProperties
    <3>3. 1 \in 1 .. Len(one) + Len(u) /\ 1 <= Len(one)
      BY <2>4, <3>1
    <3> QED BY <2>4, <3>1, <3>2, <3>3
  <2>7. /\ \A r \in 1 .. Len(done) : rows[r] = done[r]
        /\ rows[Len(done) + 1] = row
    <3>1. PICK v : v = one \o u
      OBVIOUS
    <3>2. v \in Seq(R) /\ Len(v) = 1 + Len(u) /\ v[1] = row
      BY <2>6, <3>1
    <3>3. \A r \in 1 .. Len(done) + Len(v) :
            (done \o v)[r] = IF r <= Len(done) THEN done[r] ELSE v[r - Len(done)]
      BY <2>4, <3>2, ConcatProperties
    <3>4. rows = done \o v
      BY <2>3, <2>5, <3>1
    <3>5. Len(done) + 1 \in 1 .. Len(done) + Len(v) /\ (Len(done) + 1) - Len(done) = 1
          /\ ~(Len(done) + 1 <= Len(done))
          /\ \A r \in 1 .. Len(done) : r \in 1 .. Len(done) + Len(v) /\ r <= Len(done)
      BY <2>6, <3>2
    <3> QED BY <3>2, <3>3, <3>4, <3>5
  <2>8. here.rows # <<>>
    <3>1. Len(here.rows) # 0
      BY <2>5, <2>6
    <3> QED BY <3>1
  <2>9. G!RowError(rows, Len(done) + 1, MaxRows, MaxColumns) = RowError(cs)
    <3>1. PICK width, limit, widest : width = columns /\ limit = MaxRows /\ widest = MaxColumns
      OBVIOUS
    <3>2. /\ width \in Nat /\ limit \in Nat /\ widest \in Nat /\ Fine(done, width, limit, widest)
          /\ Follows(rows, done, row)
      BY <1>1, <2>7, <3>1 DEF Done, Follows
    <3>3. G!RowError(rows, Len(done) + 1, limit, widest) = Verdict(done, row, width, limit, widest)
      BY <1>1, <3>2, RowErrorIs
    <3> QED BY <1>1, <3>1, <3>3
  <2>10. Tells(status', done, here, MaxRows', MaxColumns')
    BY <1>1, <2>1, <2>3, <2>8, <2>9 DEF Tells
  <2> QED BY <1>6, <2>1, <2>10
<1> QED BY <1>8, <1>9

\* A turn of the loop in a file there may be.
LEMMA InFile ==
  ASSUME GrammarInv, Reading, NEW file, Possible(file)
  PROVE  /\ Middle(file) /\ file \in Seq(STRING) /\ pos \in Nat /\ start \in Nat
         /\ pos < Len(file) /\ file[pos + 1] = Byte /\ Len(file) \in Nat
<1>1. /\ Open /\ ~bom /\ pos \in Nat /\ start \in Nat /\ pos < Len(data) /\ Len(data) \in Nat
  BY ReadingFacts DEF GrammarInv
<1>2. Middle(file)
  BY <1>1 DEF GrammarInv, Midway
<1>3. file \in Seq(STRING) /\ Len(data) <= Len(file) /\ \A i \in 1 .. Len(data) : file[i] = data[i]
  BY DEF Possible, Continues
<1>4. Len(file) \in Nat /\ pos + 1 \in 1 .. Len(data)
  BY <1>1, <1>3, LenProperties
<1> QED BY <1>1, <1>2, <1>3, <1>4 DEF Byte

\* A turn after which the machine stands in a record again.
LEMMA StillReads ==
  ASSUME GrammarInv, Reading, Next, UNCHANGED <<input, call, bom, status>>,
         \A file : Possible(file) => Middle(file)'
  PROVE  GrammarInv'
<1>1. Inv' /\ ~bom /\ status = "ok" /\ call \in {"run", "finish"}
  BY NextKeepsInv, ReadingFacts DEF GrammarInv
<1>2. \A file : Possible(file)' => Middle(file)'
  BY PossibleBefore DEF GrammarInv
<1>3. finished => call # "run"
  BY DEF GrammarInv, Inv, Phases
<1> QED BY <1>1, <1>2, <1>3 DEF GrammarInv, Waiting, Midway, Over, Failed, input

\* The rows stay where no row ends.
LEMMA SameRows ==
  ASSUME GrammarInv, Next, UNCHANGED first, NEW done, Done(done)
  PROVE  Done(done)'
<1>1. NumRows' = NumRows
  BY DEF NumRows
<1> QED BY <1>1, DoneStays DEF GrammarInv

\* The byte after a CR.
LEMMA AfterCrReads ==
  ASSUME GrammarInv, AfterCr
  PROVE  GrammarInv'
<1>1. /\ Reading /\ state = "AFTER_CR" /\ Next
      /\ pos' = (IF Byte = "lf" THEN pos + 1 ELSE pos)
      /\ state' = "FIELD_START" /\ start' = pos'
      /\ UNCHANGED <<input, call, bom, flags, index, schema, normalized, status>>
  BY DEF AfterCr, Next, Run
<1>2. ASSUME NEW file, Possible(file) PROVE Middle(file)'
  <2>1. /\ Middle(file) /\ file \in Seq(STRING) /\ pos < Len(file) /\ file[pos + 1] = Byte
    BY <1>1, <1>2, InFile
  <2>2. PICK done, s, row, at, from, fs :
          /\ Done(done) /\ Reads(file, done, s) /\ At(file, s, row, "AFTER_CR", at, from, fs)
          /\ row = OpenRow /\ at = pos /\ from = start /\ fs = flags
    BY <1>1, <2>1 DEF Middle
  <2>3. At(file, s, row, "FIELD_START", pos', pos', fs)
    <3>1. PICK next : next = IF file[at + 1] = "lf" THEN at + 1 ELSE at
      OBVIOUS
    <3>2. At(file, s, row, "FIELD_START", next, next, fs)
      BY <2>1, <2>2, <3>1, AtAfterCr
    <3> QED BY <1>1, <2>1, <2>2, <3>1, <3>2
  <2>4. Done(done)' /\ OpenRow' = row /\ flags' = fs
    BY <1>1, <2>2, SameRows DEF index, OpenRow, RowFirst
  <2> QED BY <1>1, <2>2, <2>3, <2>4 DEF Middle
<1> QED BY <1>1, <1>2, StillReads

\* A byte that ends nothing.
LEMMA ConsumeReads ==
  ASSUME GrammarInv, Consume
  PROVE  GrammarInv'
<1>1. /\ Reading /\ state # "AFTER_CR" /\ Next
      /\ ~Does(Closes) /\ ~Does(EndsRow) /\ ~Does(Rejects)
      /\ pos' = pos + 1 /\ state' = Goto(state, Class(Byte))
      /\ start' = (IF Does(Opens) \/ Does(SetsStart) THEN pos + 1 ELSE start)
      /\ flags' = flags
           \cup {f \in {"quoted"} : Does(Opens)}
           \cup {f \in {"escape"} : Does(Escapes)}
           \cup {f \in {"newline"} : Does(BreaksLine)}
      /\ UNCHANGED <<input, call, bom, index, schema, normalized, status>>
  BY DEF Consume, Next, Run
<1>2. ASSUME NEW file, Possible(file) PROVE Middle(file)'
  <2>1. /\ Middle(file) /\ file \in Seq(STRING) /\ pos < Len(file) /\ file[pos + 1] = Byte
        /\ pos \in Nat /\ start \in Nat
    BY <1>1, <1>2, InFile
  <2>2. PICK done, s, row, st, at, from, fs, c :
          /\ Done(done) /\ Reads(file, done, s) /\ At(file, s, row, st, at, from, fs)
          /\ row = OpenRow /\ st = state /\ at = pos /\ from = start /\ fs = flags
          /\ c = Class(Byte)
    BY <2>1 DEF Middle
  <2>3. At(file, s, row, Goto(st, c), at + 1,
           IF Opens(st, c) \/ SetsStart(st, c) THEN at + 1 ELSE from, FlagsAfter(fs, st, c))
    <3>1. at \in Nat /\ from \in Nat /\ at < Len(file) /\ st # "AFTER_CR" /\ c = Class(file[at + 1])
      BY <1>1, <2>1, <2>2
    <3>2. ~Closes(st, c) /\ ~EndsRow(st, c) /\ ~Rejects(st, c)
      BY <1>1, <2>2 DEF Does
    <3> QED BY <2>1, <2>2, <3>1, <3>2, AtConsume
  <2>4. /\ state' = Goto(st, c) /\ pos' = at + 1 /\ flags' = FlagsAfter(fs, st, c)
        /\ start' = (IF Opens(st, c) \/ SetsStart(st, c) THEN at + 1 ELSE from)
    BY <1>1, <2>2 DEF Does, FlagsAfter
  <2>5. Done(done)' /\ OpenRow' = row
    BY <1>1, <2>2, SameRows DEF index, OpenRow, RowFirst
  <2> QED BY <2>2, <2>3, <2>4, <2>5 DEF Middle
<1> QED BY <1>1, <1>2, StillReads

-----------------------------------------------------------------------------
\* The open row with a field more.
LEMMA OpenRowGrows ==
  ASSUME Inv, NEW cell \in CellType
  PROVE  /\ EndsIn(Append(cells, cell), Append(OpenRow, cell))
         /\ EndsIn(cells, OpenRow) /\ RowFirst <= Len(cells)
         /\ Append(cells, cell) \in Seq(CellType) /\ Len(Append(cells, cell)) >= RowFirst
         /\ cells \in Seq(CellType)
<1>1. cells \in Seq(CellType) /\ RowFirst \in 0 .. Len(cells) /\ Len(cells) \in Nat
  BY IndicesAndElements DEF Inv, TypeOK, IndexOK, RowsAreFull, RowFirst
<1>2. PICK cs : cs = Append(cells, cell)
  OBVIOUS
<1>3. cs \in Seq(CellType) /\ Len(cs) = Len(cells) + 1
  BY <1>1, <1>2, AppendProperties
<1>4. SubSeq(Append(cells, cell), RowFirst + 1, Len(Append(cells, cell))) = Append(OpenRow, cell)
  <2>1. PICK n : n = RowFirst
    OBVIOUS
  <2>2. SubSeq(Append(cells, cell), n + 1, Len(Append(cells, cell)))
          = Append(SubSeq(cells, n + 1, Len(cells)), cell)
    BY <1>1, <2>1, TailOfAppend
  <2> QED BY <2>1, <2>2 DEF OpenRow
<1> QED BY <1>1, <1>2, <1>3, <1>4 DEF EndsIn, OpenRow

\* What the byte at hand closes.
LEMMA ClosesHere ==
  ASSUME Inv, Reading, Does(Closes)
  PROVE  LET cell == Cell(start, CloseAt(state, pos) - start, flags)
         IN  /\ cell \in CellType /\ Pushed = Append(cells, cell) /\ OpenEnd = CloseAt(state, pos)
<1>1. Does(Closes1) <=> state = "QUOTE_IN_QUOTED"
  BY DEF Does, Closes, Closes0, Closes1
<1>2. OpenEnd = CloseAt(state, pos)
  BY <1>1 DEF OpenEnd, CloseAt
<1>3. TypeOK /\ OpenField /\ Open /\ pos < Len(data)
  BY ReadingFacts DEF Inv
<1>4. /\ Cell(start, OpenEnd - start, flags) \in CellType
      /\ Pushed = Append(cells, Cell(start, OpenEnd - start, flags))
  BY <1>3, ClosedField
<1> QED BY <1>2, <1>4

\* The row that the byte at hand ends.
LEMMA RowEndsHere ==
  ASSUME Inv, Reading, state # "AFTER_CR", Does(EndsRow)
  PROVE  /\ state \in {"FIELD_START", "UNQUOTED", "QUOTE_IN_QUOTED", "AFTER_QUOTED"}
         /\ Byte \in {"cr", "lf"} /\ Class(Byte) = Byte
         /\ Does(Closes) <=> state # "AFTER_QUOTED"
         /\ Pushed \in Seq(CellType) /\ Len(Pushed) >= RowFirst
         /\ EndsIn(Pushed, RecordFields(OpenRow, state, pos, start, flags))
<1>1. Byte \in {"cr", "lf"} /\ Class(Byte) = Byte /\ state # "QUOTED"
  BY DEF Does, EndsRow, Class
<1>2. state \in {"FIELD_START", "UNQUOTED", "QUOTE_IN_QUOTED", "AFTER_QUOTED"}
  BY <1>1 DEF Inv, TypeOK, MachineOK, States
<1>3. Does(Closes) <=> state # "AFTER_QUOTED"
  BY <1>1, <1>2 DEF Does, Closes, Closes0, Closes1, Enders
<1>4. CASE Does(Closes)
  <2>1. PICK cell : cell = Cell(start, CloseAt(state, pos) - start, flags)
    OBVIOUS
  <2>2. cell \in CellType /\ Pushed = Append(cells, cell)
    BY <1>4, <2>1, ClosesHere
  <2>3. RecordFields(OpenRow, state, pos, start, flags) = Append(OpenRow, cell)
    BY <1>3, <1>4, <2>1 DEF RecordFields
  <2>4. /\ EndsIn(Append(cells, cell), Append(OpenRow, cell))
        /\ Append(cells, cell) \in Seq(CellType) /\ Len(Append(cells, cell)) >= RowFirst
    BY <2>2, OpenRowGrows
  <2> QED BY <1>1, <1>2, <1>3, <2>2, <2>3, <2>4
<1>5. CASE ~Does(Closes)
  <2>1. Pushed = cells /\ RecordFields(OpenRow, state, pos, start, flags) = OpenRow
    BY <1>3, <1>5 DEF Pushed, RecordFields
  <2>2. EndsIn(cells, OpenRow) /\ RowFirst <= Len(cells) /\ cells \in Seq(CellType)
    BY DEF EndsIn, OpenRow, Inv, TypeOK, IndexOK, RowsAreFull
  <2>3. RowFirst \in Nat /\ Len(cells) \in Nat
    BY IndicesAndElements DEF Inv, TypeOK, IndexOK, RowFirst
  <2> QED BY <1>1, <1>2, <1>3, <2>1, <2>2, <2>3
<1> QED BY <1>4, <1>5

\* What the grammar takes for a blank line.
BlankAt(row, s) == row = <<Cell(s - 1, 0, {})>>

\* A line is blank when nothing was read of it.
LEMMA BlankIs ==
  ASSUME NEW file \in Seq(STRING), NEW s, NEW fields, NEW st, NEW at \in Nat, NEW from \in Nat,
         NEW fs, At(file, s, fields, st, at, from, fs),
         st \in {"FIELD_START", "UNQUOTED", "QUOTE_IN_QUOTED", "AFTER_QUOTED"},
         at < Len(file) => file[at + 1] \in {"cr", "lf"}
  PROVE  BlankAt(RecordFields(fields, st, at, from, fs), s) <=> Nothing(fields, st, at, from, fs)
<1>1. RecordFields(fields, st, at, from, fs) = <<Cell(s - 1, 0, {})>>
        <=> Nothing(fields, st, at, from, fs)
  BY RecordEnds
<1> QED BY <1>1 DEF BlankAt

\* A row ends and another begins.
LEMMA NextRowBegins ==
  ASSUME NEW file \in Seq(STRING), NEW at \in Nat, at < Len(file), NEW b, b = file[at + 1],
         b \in {"cr", "lf"}, NEW st, st # "QUOTED", NEW from, b = "lf" => from = at + 1
  PROVE  At(file, G!AfterEnd(file, at + 1), <<>>, Goto(st, b), at + 1, from, {})
<1>1. Goto(st, b) = IF file[at + 1] = "cr" THEN "AFTER_CR" ELSE "FIELD_START"
  BY DEF Goto, Enders
<1>2. At(file, G!AfterEnd(file, at + 1), <<>>,
         IF file[at + 1] = "cr" THEN "AFTER_CR" ELSE "FIELD_START", at + 1, from, {})
  BY AtNextRow
<1> QED BY <1>1, <1>2

\* A field is closed, or a blank line skipped.
LEMMA CloseFieldReads ==
  ASSUME GrammarInv, CloseField
  PROVE  GrammarInv'
<1>1. /\ Reading /\ state # "AFTER_CR" /\ Does(Closes) /\ Next /\ (~Does(EndsRow) \/ Blank)
      /\ pos' = pos + 1 /\ state' = Goto(state, Class(Byte))
      /\ start' = pos + 1 /\ flags' = {}
      /\ cells' = (IF Blank THEN cells ELSE Pushed)
      /\ UNCHANGED <<input, call, bom, first, columns, schema, normalized, status>>
  BY DEF CloseField, Next, Run
<1>2. ASSUME NEW file, Possible(file) PROVE Middle(file)'
  <2>1. /\ Middle(file) /\ file \in Seq(STRING) /\ pos < Len(file) /\ file[pos + 1] = Byte
        /\ pos \in Nat /\ start \in Nat /\ Len(file) \in Nat
    BY <1>1, <1>2, InFile
  <2>2. PICK done, s, row, st, at, from, fs, c, cell :
          /\ Done(done) /\ Reads(file, done, s) /\ At(file, s, row, st, at, from, fs)
          /\ row = OpenRow /\ st = state /\ at = pos /\ from = start /\ fs = flags
          /\ c = Class(Byte) /\ cell = Cell(start, CloseAt(state, pos) - start, flags)
    BY <2>1 DEF Middle
  <2>3. /\ at \in Nat /\ from \in Nat /\ at < Len(file) /\ c = Class(file[at + 1])
        /\ Closes(st, c) /\ st # "QUOTED" /\ cell = Cell(from, CloseAt(st, at) - from, fs)
    BY <1>1, <2>1, <2>2 DEF Does, Closes, Closes0, Closes1
  <2>4. Done(done)'
    BY <1>1, <2>2, SameRows
  <2>5. cell \in CellType /\ Pushed = Append(cells, cell) /\ OpenEnd = CloseAt(state, pos)
    BY <1>1, <2>2, ClosesHere DEF GrammarInv
  <2>6. RowFirst' = RowFirst
    BY <1>1 DEF RowFirst
  <2>7. CASE ~Does(EndsRow)
    <3>1. ~Blank /\ ~EndsRow(st, c)
      BY <2>2, <2>7 DEF Blank, Does
    <3>2. At(file, s, Append(row, cell), Goto(st, c), at + 1, at + 1, {})
      BY <2>1, <2>2, <2>3, <3>1, AtCloses
    <3>3. EndsIn(Pushed, Append(row, cell))
      BY <2>2, <2>5, OpenRowGrows DEF GrammarInv
    <3>4. OpenRow' = Append(row, cell)
      BY <1>1, <2>6, <3>1, <3>3 DEF OpenRow, EndsIn
    <3> QED BY <1>1, <2>2, <2>4, <3>2, <3>4 DEF Middle
  <2>8. CASE Does(EndsRow)
    <3>1. Blank
      BY <1>1, <2>8
    <3>2. PICK all : all = RecordFields(row, st, at, from, fs)
      OBVIOUS
    <3>3. /\ st \in {"FIELD_START", "UNQUOTED", "QUOTE_IN_QUOTED", "AFTER_QUOTED"}
          /\ Byte \in {"cr", "lf"} /\ c = Byte /\ st # "AFTER_QUOTED"
      BY <1>1, <2>2, <2>8, RowEndsHere DEF GrammarInv
    <3>4. CloseAt(st, at) = from /\ fs = {} /\ Len(cells) = RowFirst
      BY <2>2, <2>5, <3>1 DEF Blank
    <3>5. OpenRow = <<>> /\ OpenRow' = <<>>
      <4>1. cells \in Seq(CellType) /\ Len(cells) \in Nat
        BY LenProperties DEF GrammarInv, Inv, TypeOK, IndexOK
      <4>2. SubSeq(cells, Len(cells) + 1, Len(cells)) = <<>>
        BY <4>1, SubSeqEmpty
      <4> QED BY <1>1, <2>6, <3>1, <3>4, <4>2 DEF OpenRow
    <3>6. /\ G!RecordAt(file)[s] = [fields |-> all, end |-> at + 1, error |-> "ok"]
          /\ s \in 1 .. at + 1 /\ all \in Seq(CellType)
          /\ all = <<Cell(s - 1, 0, {})>> <=> Nothing(row, st, at, from, fs)
      <4>1. at < Len(file) => file[at + 1] \in {"cr", "lf"}
        BY <2>1, <2>2, <3>3
      <4>2. At(file, s, row, st, at, from, fs) /\ at \in Nat /\ from \in Nat
        BY <2>2, <2>3
      <4>3. G!RecordAt(file)[s] = [fields |-> all, end |-> at + 1, error |-> "ok"]
        BY <2>1, <3>2, <3>3, <4>1, <4>2, RecordEnds
      <4>4. s \in 1 .. at + 1 /\ all \in Seq(CellType)
        BY <2>1, <3>2, <3>3, <4>1, <4>2, RecordEnds
      <4>5. all = <<Cell(s - 1, 0, {})>> <=> Nothing(row, st, at, from, fs)
        <5>1. BlankAt(RecordFields(row, st, at, from, fs), s) <=> Nothing(row, st, at, from, fs)
          BY <2>1, <3>3, <4>1, <4>2, BlankIs
        <5> QED BY <3>2, <5>1 DEF BlankAt
      <4> QED BY <4>3, <4>4, <4>5
    <3>7. st \in {"FIELD_START", "UNQUOTED"} /\ at = from
      <4>1. st # "QUOTE_IN_QUOTED"
        BY <2>2, <3>4 DEF At, QuotedSoFar, BodyFlags
      <4> QED BY <3>3, <3>4, <4>1 DEF CloseAt
    <3>8. all = <<Cell(s - 1, 0, {})>> /\ s <= Len(file)
      BY <2>1, <2>2, <2>3, <3>4, <3>5, <3>6, <3>7 DEF Nothing
    <3>9. Reads(file, done, G!AfterEnd(file, at + 1))
      BY <2>1, <2>2, <3>6, <3>8, RecordRead
    <3>10. At(file, G!AfterEnd(file, at + 1), <<>>, Goto(st, c), at + 1, at + 1, {})
      <4>1. c = file[at + 1]
        BY <2>1, <2>2, <3>3
      <4> QED BY <2>1, <2>3, <3>3, <4>1, NextRowBegins
    <3> QED BY <1>1, <2>2, <2>4, <3>5, <3>9, <3>10 DEF Middle
  <2> QED BY <2>7, <2>8
<1> QED BY <1>1, <1>2, StillReads

\* The record that the byte at hand ends, in a file there may be.
LEMMA RecordHere ==
  ASSUME GrammarInv, Reading, state # "AFTER_CR", Does(EndsRow), ~Blank,
         NEW file, Possible(file)
  PROVE  \E done, s, row :
           /\ Done(done) /\ Reads(file, done, s) /\ s <= Len(file) /\ EndsIn(Pushed, row)
           /\ G!RecordAt(file)[s] = [fields |-> row, end |-> pos + 1, error |-> "ok"]
           /\ row # <<Cell(s - 1, 0, {})>>
           /\ state = "AFTER_QUOTED" => flags = {}
<1>1. /\ Middle(file) /\ file \in Seq(STRING) /\ pos < Len(file) /\ file[pos + 1] = Byte
      /\ pos \in Nat /\ start \in Nat /\ Len(file) \in Nat
  BY InFile
<1>2. PICK done, s, open, st, at, from, fs, row :
        /\ Done(done) /\ Reads(file, done, s) /\ At(file, s, open, st, at, from, fs)
        /\ open = OpenRow /\ st = state /\ at = pos /\ from = start /\ fs = flags
        /\ row = RecordFields(open, st, at, from, fs)
  BY <1>1 DEF Middle
<1>3. /\ st \in {"FIELD_START", "UNQUOTED", "QUOTE_IN_QUOTED", "AFTER_QUOTED"}
      /\ Byte \in {"cr", "lf"} /\ (Does(Closes) <=> st # "AFTER_QUOTED")
      /\ EndsIn(Pushed, row)
  BY <1>2, RowEndsHere DEF GrammarInv
<1>4. at \in Nat /\ from \in Nat /\ (at < Len(file) => file[at + 1] \in {"cr", "lf"})
  BY <1>1, <1>2, <1>3
<1>5. /\ G!RecordAt(file)[s] = [fields |-> row, end |-> at + 1, error |-> "ok"]
      /\ s \in 1 .. at + 1
      /\ row = <<Cell(s - 1, 0, {})>> <=> Nothing(open, st, at, from, fs)
  <2>1. At(file, s, open, st, at, from, fs) /\ row = RecordFields(open, st, at, from, fs)
    BY <1>2
  <2>2. G!RecordAt(file)[s] = [fields |-> row, end |-> at + 1, error |-> "ok"]
    BY <1>1, <1>3, <1>4, <2>1, RecordEnds
  <2>3. s \in 1 .. at + 1
    BY <1>1, <1>3, <1>4, <2>1, RecordEnds
  <2>4. row = <<Cell(s - 1, 0, {})>> <=> Nothing(open, st, at, from, fs)
    <3>1. BlankAt(RecordFields(open, st, at, from, fs), s) <=> Nothing(open, st, at, from, fs)
      BY <1>1, <1>3, <1>4, <2>1, BlankIs
    <3> QED BY <2>1, <3>1 DEF BlankAt
  <2> QED BY <2>2, <2>3, <2>4
<1>6. row # <<Cell(s - 1, 0, {})>>
  <2>1. ASSUME st \in {"FIELD_START", "UNQUOTED"}, open = <<>>, at = from, fs = {} PROVE FALSE
    <3>1. Does(Closes) /\ OpenEnd = CloseAt(state, pos)
      <4>1. Does(Closes)
        BY <1>3, <2>1
      <4> QED BY <4>1, ClosesHere DEF GrammarInv
    <3>2. OpenEnd = start
      BY <1>2, <2>1, <3>1 DEF CloseAt
    <3>3. Len(cells) = RowFirst
      <4>1. cells \in Seq(CellType) /\ RowFirst \in 0 .. Len(cells) /\ Len(cells) \in Nat
        BY IndicesAndElements DEF GrammarInv, Inv, TypeOK, IndexOK, RowsAreFull, RowFirst
      <4>2. Len(SubSeq(cells, RowFirst + 1, Len(cells))) = Len(cells) - RowFirst
        <5>1. PICK n : n = RowFirst
          OBVIOUS
        <5>2. Len(SubSeq(cells, n + 1, Len(cells))) = Len(cells) - n
          BY <4>1, <5>1, TailIs
        <5> QED BY <5>1, <5>2
      <4>3. Len(SubSeq(cells, RowFirst + 1, Len(cells))) = 0
        <5>1. SubSeq(cells, RowFirst + 1, Len(cells)) = <<>>
          BY <1>2, <2>1 DEF OpenRow
        <5>2. Len(<<>>) = 0
          OBVIOUS
        <5>3. PICK t : t = SubSeq(cells, RowFirst + 1, Len(cells))
          OBVIOUS
        <5> QED BY <5>1, <5>2, <5>3
      <4> QED BY <4>1, <4>2, <4>3
    <3> QED BY <1>2, <2>1, <3>1, <3>2, <3>3 DEF Blank
  <2> QED BY <1>5, <2>1 DEF Nothing
<1>7. s <= Len(file) /\ (st = "AFTER_QUOTED" => fs = {})
  BY <1>1, <1>2, <1>5 DEF At
<1> QED BY <1>2, <1>3, <1>5, <1>6, <1>7

\* An error, and nothing else, is what a step that fails has to answer for.
LEMMA FailsReads ==
  ASSUME GrammarInv, Next, Waiting', status' # "ok", Failed'
  PROVE  GrammarInv'
<1>1. Inv'
  BY NextKeepsInv DEF GrammarInv
<1>2. Midway' /\ Over'
  BY DEF Midway, Over, Open
<1> QED BY <1>1, <1>2 DEF GrammarInv

\* A row ends.
LEMMA CloseRowReads ==
  ASSUME GrammarInv, CloseRow
  PROVE  GrammarInv'
<1>1. /\ Reading /\ state # "AFTER_CR" /\ Does(EndsRow) /\ ~Blank /\ Next /\ RowEnd(Pushed)
      /\ state' = Goto(state, Class(Byte)) /\ start' = (IF Does(SetsStart) THEN pos + 1 ELSE start)
      /\ flags' = (IF Does(Closes) THEN {} ELSE flags)
      /\ status' = "ok" => pos' = pos + 1 /\ call' = call
      /\ UNCHANGED <<input, bom>> /\ status = "ok" /\ ~bom
  BY DEF CloseRow, Next, Run, Reading, Running
<1>2. /\ Pushed \in Seq(CellType) /\ Len(Pushed) >= RowFirst /\ Byte \in {"cr", "lf"}
      /\ Class(Byte) = Byte /\ (Does(Closes) <=> state # "AFTER_QUOTED") /\ state # "QUOTED"
  BY <1>1, RowEndsHere DEF GrammarInv
<1>3. Byte = "lf" => start' = pos + 1
  BY <1>1, <1>2 DEF Does, SetsStart
<1>4. ASSUME NEW file, Possible(file)
      PROVE  /\ status' = "ok" => Middle(file)'
             /\ status' # "ok" =>
                  \E more : \E rest \in ResultType :
                    /\ Done(more)' /\ G!Records(file) = Ahead(more, rest)
                    /\ Tells(status', more, rest, MaxRows', MaxColumns')
  <2>1. /\ file \in Seq(STRING) /\ pos \in Nat /\ pos < Len(file) /\ file[pos + 1] = Byte
    BY <1>1, <1>4, InFile
  <2>2. PICK done, s, row, end :
          /\ Done(done) /\ Reads(file, done, s) /\ s <= Len(file) /\ EndsIn(Pushed, row)
          /\ G!RecordAt(file)[s] = [fields |-> row, end |-> end, error |-> "ok"]
          /\ row # <<Cell(s - 1, 0, {})>> /\ end = pos + 1
          /\ state = "AFTER_QUOTED" => flags = {}
    BY <1>1, <1>4, RecordHere
  <2>3. Inv
    BY DEF GrammarInv
  <2>4. status' # "ok" =>
          \E more : \E rest \in ResultType :
            /\ Done(more)' /\ G!Records(file) = Ahead(more, rest)
            /\ Tells(status', more, rest, MaxRows', MaxColumns')
    BY <1>1, <1>2, <2>1, <2>2, <2>3, RowEndReads
  <2>5. ASSUME status' = "ok" PROVE Middle(file)'
    <3>1. OpenRow' = <<>>
      BY <1>1, <1>2, <2>1, <2>2, <2>3, <2>5, RowEndReads
    <3>2. \E more : Done(more)' /\ Reads(file, more, G!AfterEnd(file, end))
      BY <1>1, <1>2, <2>1, <2>2, <2>3, <2>5, RowEndReads
    <3>3. PICK b, st, from, at : b = Byte /\ st = state /\ from = start' /\ at = pos
      OBVIOUS
    <3>4. At(file, G!AfterEnd(file, at + 1), <<>>, Goto(st, b), at + 1, from, {})
      BY <1>2, <1>3, <2>1, <3>3, NextRowBegins
    <3>5. state' = Goto(st, b) /\ pos' = at + 1 /\ start' = from /\ flags' = {} /\ end = at + 1
      BY <1>1, <1>2, <2>2, <2>5, <3>3
    <3> QED BY <3>1, <3>2, <3>4, <3>5 DEF Middle
  <2> QED BY <2>4, <2>5
<1>5. CASE status' = "ok"
  <2>1. UNCHANGED <<input, call, bom, status>>
    BY <1>1, <1>5
  <2>2. \A file : Possible(file) => Middle(file)'
    BY <1>4, <1>5
  <2> QED BY <1>1, <2>1, <2>2, StillReads
<1>6. CASE status' # "ok"
  <2>1. Possible(data) /\ data' = data
    BY <1>1, DataPossible DEF GrammarInv, input
  <2>2. Failed'
    BY <1>4, <1>6, <2>1 DEF Failed
  <2>3. Waiting'
    BY <1>1 DEF Waiting
  <2> QED BY <1>1, <1>6, <2>2, <2>3, FailsReads
<1> QED BY <1>5, <1>6

\* No rows before a result.
LEMMA AheadOfNone ==
  ASSUME NEW result \in ResultType
  PROVE  Ahead(<<>>, result) = result
<1>1. PICK rows : rows = result.rows
  OBVIOUS
<1>2. rows \in Seq(Seq(CellType)) /\ <<>> \o rows = rows
  BY <1>1, ConcatEmptySeq DEF ResultType
<1>3. result = [result EXCEPT !.rows = rows]
  BY <1>1 DEF ResultType
<1> QED BY <1>1, <1>2, <1>3 DEF Ahead

\* Before the mark is decided there are none.
LEMMA NoRowsYet ==
  ASSUME GrammarInv, bom
  PROVE  Done(<<>>) /\ OpenRow = <<>> /\ NumRows = 0
<1>1. NumRows = 0 /\ cells = <<>>
  BY DEF GrammarInv, Waiting
<1>2. RowsRead = <<>> /\ Cut(<<>>, columns) = <<>>
  BY <1>1 DEF RowsRead, Cut
<1>3. RowFirst = 0
  BY <1>1 DEF GrammarInv, Inv, TypeOK, IndexOK, NumRows, RowFirst, RowsAreFull
<1>4. OpenRow = <<>>
  BY <1>1, <1>3 DEF OpenRow
<1> QED BY <1>1, <1>2, <1>4 DEF Done, Fine

\* The records of what has arrived are the rows there are and others.
LEMMA RowsAmong ==
  ASSUME GrammarInv, status = "ok"
  PROVE  \E done : \E rest \in ResultType : Done(done) /\ G!Records(data) = Ahead(done, rest)
<1>1. data \in Seq(STRING) /\ Possible(data) /\ Inv
  BY DataPossible DEF GrammarInv
<1>2. CASE Open /\ ~bom
  <2>1. PICK done, s : Done(done) /\ Reads(data, done, s)
    BY <1>1, <1>2 DEF GrammarInv, Midway, Middle
  <2>2. G!RecordsAt(data)[s] \in ResultType
    BY <1>1, <2>1, RecordsTyped DEF Reads
  <2> QED BY <2>1, <2>2 DEF Reads
<1>3. CASE ~Open
  <2>1. PICK done : Done(done) /\ G!Records(data) = Ahead(done, [rows |-> <<>>, error |-> "ok"])
    BY <1>3 DEF GrammarInv, Over, Open
  <2>2. [rows |-> <<>>, error |-> "ok"] \in ResultType
    BY DEF ResultType
  <2> QED BY <2>1, <2>2
<1>4. CASE bom
  <2>1. Len(data) \in Nat /\ (IF G!HasBom(data) THEN 4 ELSE 1) \in 1 .. Len(data) + 1
    BY <1>1, LenProperties DEF G!HasBom
  <2>2. G!Records(data) \in ResultType
    BY <1>1, <2>1, RecordsTyped DEF G!Records
  <2>3. Done(<<>>) /\ G!Records(data) = Ahead(<<>>, G!Records(data))
    BY <1>4, <2>2, AheadOfNone, NoRowsYet
  <2> QED BY <2>2, <2>3
<1> QED BY <1>2, <1>3, <1>4

\* An error that is not of the bytes read leaves the rows there are.
LEMMA RefusesReads ==
  ASSUME GrammarInv, status = "ok", Next, UNCHANGED <<data, first>>, Waiting',
         status' \in {"misuse", "too large", "header"}
  PROVE  GrammarInv'
<1>1. PICK done : \E rest \in ResultType : Done(done) /\ G!Records(data) = Ahead(done, rest)
  BY RowsAmong
<1>2. PICK rest \in ResultType : Done(done) /\ G!Records(data) = Ahead(done, rest)
  BY <1>1
<1>3. Done(done)'
  BY <1>2, SameRows
<1>4. Tells(status', done, rest, MaxRows', MaxColumns')
  BY DEF Tells
<1>5. Failed'
  BY <1>2, <1>3, <1>4 DEF Failed
<1> QED BY <1>5, FailsReads

\* The machine stands where it stood.
LEMMA MiddleStays ==
  ASSUME GrammarInv, Next, UNCHANGED <<pos, state, start, flags, index>>, NEW file, Middle(file)
  PROVE  Middle(file)'
<1>1. PICK done, s : Done(done) /\ Reads(file, done, s)
                     /\ At(file, s, OpenRow, state, pos, start, flags)
  BY DEF Middle
<1>2. Done(done)' /\ OpenRow' = OpenRow
  BY <1>1, SameRows DEF index, OpenRow, RowFirst
<1> QED BY <1>1, <1>2 DEF Middle

\* A call that begins or returns and reads nothing.
LEMMA RestsReads ==
  ASSUME GrammarInv, Next, UNCHANGED <<machine, index, finished, status>>,
         status = "ok", ~finished, Waiting'
  PROVE  GrammarInv'
<1>1. Inv'
  BY NextKeepsInv DEF GrammarInv
<1>2. ASSUME ~bom', NEW file, Possible(file)' PROVE Middle(file)'
  <2>1. Middle(file)
    BY <1>2, PossibleBefore DEF GrammarInv, Midway, Open, machine
  <2> QED BY <2>1, MiddleStays DEF machine
<1>3. Midway' /\ Over' /\ Failed'
  BY <1>2 DEF Midway, Over, Failed
<1> QED BY <1>1, <1>3 DEF GrammarInv

\* Nothing happens.
LEMMA StutterReads ==
  ASSUME GrammarInv, UNCHANGED vars
  PROVE  GrammarInv'
<1>1. UNCHANGED <<case, data, mode, finished, call, bom, pos, state, start, flags, cells, first,
                  columns, headerRows, dataFrom, digested, normalized, status>>
  BY DEF vars, input, machine, index, schema
<1>2. Inv'
  BY FinishKeepsInv DEF GrammarInv
<1>3. \A done : Done(done)' <=> Done(done)
  BY <1>1 DEF Done, NumRows, RowsRead, MaxRows, MaxColumns
<1>4. OpenRow' = OpenRow /\ MaxRows' = MaxRows /\ MaxColumns' = MaxColumns /\ (MaybeBom' <=> MaybeBom)
      /\ NumRows' = NumRows
  BY <1>1 DEF OpenRow, RowFirst, MaxRows, MaxColumns, MaybeBom, NumRows
<1>5. \A file : (Possible(file)' <=> Possible(file)) /\ (Middle(file)' <=> Middle(file))
  BY <1>1, <1>3, <1>4 DEF Possible, Middle
<1>6. Waiting'
  BY <1>1, <1>4 DEF GrammarInv, Waiting
<1>7. Midway'
  BY <1>1, <1>5 DEF GrammarInv, Midway, Open
<1>8. Over' /\ Failed'
  BY <1>1, <1>3, <1>4 DEF GrammarInv, Over, Failed
<1> QED BY <1>2, <1>6, <1>7, <1>8 DEF GrammarInv

\* Bytes arrive, pushed or lent.
LEMMA ChunkReads ==
  ASSUME GrammarInv, NEW bytes \in Chunks, Chunk(bytes) \/ Borrow(bytes)
  PROVE  GrammarInv'
<1>1. /\ Next /\ call = "idle" /\ status = "ok" /\ UNCHANGED <<finished, machine, index>>
  BY DEF Next, Host, Chunk, Borrow
<1>2. /\ bom' = bom /\ flags' = flags /\ cells' = cells /\ first' = first /\ NumRows' = NumRows
  BY <1>1 DEF machine, index, NumRows
<1>3. CASE status' \in {"misuse", "too large"} /\ data' = data
  <2>1. MaybeBom' <=> MaybeBom
    BY <1>3 DEF MaybeBom
  <2>2. Waiting'
    BY <1>1, <1>2, <2>1 DEF GrammarInv, Waiting
  <2> QED BY <1>1, <1>2, <1>3, <2>2, RefusesReads
<1>4. CASE ~finished /\ status' = status /\ call' = "run"
  <2>1. Waiting'
    BY <1>2, <1>4 DEF GrammarInv, Waiting
  <2> QED BY <1>1, <1>4, <2>1, RestsReads
<1>5. CASE UNCHANGED vars
  BY <1>5, StutterReads
<1>6. \/ status' \in {"misuse", "too large"} /\ data' = data
      \/ ~finished /\ status' = status /\ call' = "run"
      \/ UNCHANGED vars
  BY DEF Chunk, Borrow, Fail, vars, input
<1> QED BY <1>3, <1>4, <1>5, <1>6

\* The call that reads returns.
LEMMA ReturnReads ==
  ASSUME GrammarInv, Return
  PROVE  GrammarInv'
<1>1. /\ Next /\ status = "ok" /\ UNCHANGED <<machine, index, finished, status>> /\ ~bom'
      /\ call = "run"
  BY DEF Return, Next, Run, Running, input, machine
<1>2. ~finished /\ Waiting'
  BY <1>1 DEF GrammarInv, Inv, Phases, Waiting
<1> QED BY <1>1, <1>2, RestsReads

\* The machine stands before the first byte of the table.
LEMMA Beginning ==
  ASSUME GrammarInv, bom, Next, UNCHANGED index, NEW file \in Seq(STRING),
         state' = "FIELD_START", flags' = {}, start' = pos',
         pos' = (IF G!HasBom(file) THEN 3 ELSE 0)
  PROVE  Middle(file)'
<1>1. Done(<<>>)' /\ OpenRow' = <<>>
  <2>1. Done(<<>>) /\ OpenRow = <<>>
    BY NoRowsYet
  <2> QED BY <2>1, SameRows DEF index, OpenRow, RowFirst
<1>2. PICK at : at = pos' /\ at \in Nat /\ at = (IF G!HasBom(file) THEN 3 ELSE 0)
  OBVIOUS
<1>3. at + 1 \in 1 .. Len(file) + 1 /\ at + 1 = (IF G!HasBom(file) THEN 4 ELSE 1)
  BY <1>2, LenProperties DEF G!HasBom
<1>4. Reads(file, <<>>, at + 1)
  <2>1. PICK r : r = G!RecordsAt(file)[at + 1]
    OBVIOUS
  <2>2. r \in ResultType
    BY <1>3, <2>1, RecordsTyped
  <2>3. Ahead(<<>>, r) = r
    BY <2>2, AheadOfNone
  <2>4. G!Records(file) = r
    BY <1>3, <2>1 DEF G!Records
  <2> QED BY <1>3, <2>1, <2>3, <2>4 DEF Reads
<1>5. At(file, at + 1, <<>>, "FIELD_START", at, at, {})
  BY <1>3, BegunAfresh DEF At
<1> QED BY <1>1, <1>2, <1>4, <1>5 DEF Middle

\* The host has sent all: the file is what has arrived.
LEMMA FinishReads ==
  ASSUME GrammarInv, Finish
  PROVE  GrammarInv'
<1>1. /\ Next /\ status = "ok" /\ ~finished /\ finished' /\ ~bom' /\ call' = "finish" /\ call = "idle"
      /\ UNCHANGED <<data, pos, state, start, flags, index, status>>
  BY DEF Finish, Next, Host
<1>2. data \in Seq(STRING) /\ Possible(data)
  BY DataPossible DEF GrammarInv
<1>3. Middle(data)'
  <2>1. CASE ~bom
    <3>1. Middle(data)
      BY <1>1, <1>2, <2>1 DEF GrammarInv, Midway, Open
    <3> QED BY <1>1, <3>1, MiddleStays
  <2>2. CASE bom
    <3>1. MaybeBom /\ flags = {} /\ pos = 0 /\ start = 0 /\ state = "FIELD_START"
      BY <1>1, <2>2 DEF GrammarInv, Waiting, Inv, Phases
    <3>2. ~G!HasBom(data)
      BY <1>2, <3>1, LenProperties DEF MaybeBom, G!HasBom
    <3> QED BY <1>1, <1>2, <2>2, <3>1, <3>2, Beginning
  <2> QED BY <2>1, <2>2
<1>4. \A file : Possible(file)' => file = data
  BY <1>1 DEF Possible
<1>5. Waiting' /\ Midway' /\ Over' /\ Failed'
  BY <1>1, <1>3, <1>4 DEF Waiting, Midway, Over, Failed
<1> QED BY <1>1, <1>5, NextKeepsInv DEF GrammarInv

\* A file that goes on from bytes that decide the mark begins with one as they do.
LEMMA MarkDecided ==
  ASSUME NEW part \in Seq(STRING), NEW file, Continues(file, part),
         Len(part) >= 3 \/ \E i \in DOMAIN part : part[i] # Bom[i]
  PROVE  G!HasBom(file) <=> Len(part) >= 3 /\ SubSeq(part, 1, 3) = Bom
<1>1. /\ file \in Seq(STRING) /\ Len(part) <= Len(file) /\ Len(part) \in Nat /\ Len(file) \in Nat
      /\ DOMAIN part = 1 .. Len(part) /\ \A i \in 1 .. Len(part) : file[i] = part[i]
  BY IndicesAndElements DEF Continues
<1>2. CASE Len(part) >= 3
  <2>1. PICK off, len : off = 0 /\ len = 3 /\ off \in Nat /\ len \in Nat /\ off + len <= Len(part)
    BY <1>1, <1>2
  <2>2. SubSeq(file, off + 1, off + len) = SubSeq(part, off + 1, off + len)
    <3>1. off \in Nat /\ len \in Nat /\ off + len <= Len(part)
      BY <2>1
    <3> QED BY <3>1, SameBytes
  <2>3. off + 1 = 1 /\ off + len = 3
    BY <2>1
  <2>4. SubSeq(file, 1, 3) = SubSeq(part, 1, 3)
    BY <2>2, <2>3
  <2>5. G!HasBom(file) <=> Len(file) >= 3 /\ SubSeq(file, 1, 3) = Bom
    BY DEF G!HasBom, Bom
  <2> HIDE DEF Bom
  <2> QED BY <1>1, <1>2, <2>4, <2>5
<1>3. CASE Len(part) < 3
  <2>1. PICK i \in 1 .. Len(part) : part[i] # Bom[i]
    BY <1>1, <1>3
  <2>2. i \in 1 .. 3 /\ file[i] # Bom[i]
    BY <1>1, <1>3, <2>1
  <2>3. ASSUME G!HasBom(file) PROVE FALSE
    <3>1. SubSeq(file, 1, 3) = Bom /\ 3 \in 0 .. Len(file)
      BY <1>1, <2>3 DEF G!HasBom, Bom
    <3>2. PICK n : n = 3
      OBVIOUS
    <3>3. n \in 0 .. Len(file) /\ i \in 1 .. n
      BY <2>2, <3>1, <3>2
    <3>4. SubSeq(file, 1, n)[i] = file[i]
      BY <1>1, <3>3, Prefix
    <3> QED BY <2>2, <3>1, <3>2, <3>4
  <2> QED BY <1>3, <2>3
<1> QED BY <1>1, <1>2, <1>3

\* The mark is waited for, skipped, or not there.
LEMMA DecideBomReads ==
  ASSUME GrammarInv, DecideBom
  PROVE  GrammarInv'
<1>1. /\ Next /\ status = "ok" /\ bom /\ UNCHANGED <<input, state, flags, index, status>>
  BY DEF DecideBom, Next, Run, Running
<1>2. /\ NumRows = 0 /\ cells = <<>> /\ flags = {} /\ pos = 0 /\ start = 0 /\ state = "FIELD_START"
      /\ ~finished
  BY <1>1 DEF GrammarInv, Waiting, Inv, Phases
<1>3. UNCHANGED <<data, finished, cells, first>> /\ NumRows' = NumRows
  BY <1>1 DEF input, index, NumRows
<1>4. Waiting' /\ (bom' => MaybeBom)
  <2>1. MaybeBom' <=> MaybeBom
    BY <1>3 DEF MaybeBom
  <2>2. bom' => MaybeBom
    BY DEF DecideBom
  <2> QED BY <1>1, <1>2, <1>3, <2>1, <2>2 DEF Waiting
<1>5. ASSUME ~bom', NEW file, Possible(file)' PROVE Middle(file)'
  <2>1. data \in Seq(STRING) /\ Continues(file, data) /\ file \in Seq(STRING)
    BY <1>3, <1>5, DataPossible DEF GrammarInv, Possible, Continues
  <2>2. /\ ~MaybeBom
        /\ pos' = (IF Len(data) >= 3 /\ SubSeq(data, 1, 3) = Bom THEN 3 ELSE pos)
        /\ start' = (IF Len(data) >= 3 /\ SubSeq(data, 1, 3) = Bom THEN 3 ELSE start)
    BY <1>1, <1>5 DEF DecideBom
  <2>3. G!HasBom(file) <=> Len(data) >= 3 /\ SubSeq(data, 1, 3) = Bom
    <3>1. Len(data) >= 3 \/ \E i \in DOMAIN data : data[i] # Bom[i]
      BY <2>1, <2>2, LenProperties DEF MaybeBom
    <3> QED BY <2>1, <3>1, MarkDecided
  <2> QED BY <1>1, <1>2, <2>1, <2>2, <2>3, Beginning
<1>6. Midway' /\ Over' /\ Failed'
  BY <1>1, <1>2, <1>3, <1>5 DEF Midway, Over, Failed
<1> QED BY <1>1, <1>4, <1>6, NextKeepsInv DEF GrammarInv

\* A record that is broken is what the error says.
LEMMA BrokenFails ==
  ASSUME GrammarInv, Next, UNCHANGED <<data, first>>,
         NEW done, Done(done), NEW s, Reads(data, done, s), s <= Len(data),
         G!RecordAt(data)[s].error = status', status' \in {"content", "unterminated"}
  PROVE  Failed'
<1>1. data \in Seq(STRING)
  BY DataPossible DEF GrammarInv
<1>2. PICK rest : rest = [rows |-> <<>>, error |-> status']
  OBVIOUS
<1>3. rest \in ResultType
  BY <1>2 DEF ResultType
<1>4. G!Records(data) = Ahead(done, rest)
  BY <1>1, <1>2, RecordBroken
<1>5. Done(done)'
  BY SameRows
<1>6. Tells(status', done, rest, MaxRows', MaxColumns')
  BY <1>2 DEF Tells
<1> QED BY <1>3, <1>4, <1>5, <1>6 DEF Failed

\* Bad content is bad in the grammar.
LEMMA RejectReads ==
  ASSUME GrammarInv, Reject
  PROVE  GrammarInv'
<1>1. /\ Reading /\ Does(Rejects) /\ Next /\ status' = "content" /\ ~bom'
      /\ UNCHANGED <<data, first>>
  BY DEF Reject, Fail, Next, Run, Reading, input, index
<1>2. data \in Seq(STRING) /\ Possible(data)
  BY DataPossible DEF GrammarInv
<1>3. Middle(data) /\ pos \in Nat /\ start \in Nat /\ pos < Len(data) /\ data[pos + 1] = Byte
  BY <1>1, <1>2, InFile
<1>4. PICK done, s, row, st, at, from, c :
        /\ Done(done) /\ Reads(data, done, s) /\ At(data, s, row, st, at, from, flags)
        /\ st = state /\ at = pos /\ from = start /\ c = Class(Byte)
  BY <1>3 DEF Middle
<1>5. at \in Nat /\ from \in Nat /\ at < Len(data) /\ c = Class(data[at + 1]) /\ Rejects(st, c)
  BY <1>1, <1>3, <1>4 DEF Does
<1>6. G!RecordAt(data)[s].error = "content" /\ s <= Len(data)
  BY <1>2, <1>4, <1>5, AtRejects
<1>7. Failed'
  BY <1>1, <1>4, <1>6, BrokenFails
<1>8. Waiting'
  BY <1>1 DEF Waiting
<1> QED BY <1>1, <1>7, <1>8, FailsReads

\* The machine at the end of the bytes.
LEMMA AtLast ==
  ASSUME GrammarInv, AtEnd
  PROVE  /\ Middle(data) /\ data \in Seq(STRING) /\ pos = Len(data) /\ pos \in Nat /\ start \in Nat
         /\ status = "ok" /\ call = "finish" /\ finished /\ ~bom
<1>1. /\ status = "ok" /\ call = "finish" /\ ~bom /\ pos = Len(data)
  BY DEF AtEnd, Running
<1>2. data \in Seq(STRING) /\ Possible(data) /\ Len(data) \in Nat
  BY DataPossible, LenProperties DEF GrammarInv
<1>3. finished /\ start \in Nat
  BY <1>1, <1>2 DEF GrammarInv, Inv, Phases, TypeOK, MachineOK
<1> QED BY <1>1, <1>2, <1>3 DEF GrammarInv, Midway, Open

\* So is a quote that is never closed.
LEMMA UnterminatedReads ==
  ASSUME GrammarInv, Unterminated
  PROVE  GrammarInv'
<1>1. /\ AtEnd /\ state = "QUOTED" /\ Next /\ status' = "unterminated" /\ bom' = bom
      /\ UNCHANGED <<data, first>>
  BY DEF Unterminated, Fail, Next, input, machine, index
<1>2. /\ Middle(data) /\ data \in Seq(STRING) /\ pos = Len(data) /\ ~bom
  BY <1>1, AtLast
<1>3. PICK done, s : Done(done) /\ Reads(data, done, s)
                     /\ At(data, s, OpenRow, "QUOTED", Len(data), start, flags)
  BY <1>1, <1>2 DEF Middle
<1>4. G!RecordAt(data)[s].error = "unterminated" /\ s <= Len(data)
  BY <1>2, <1>3, AtUnterminated
<1>5. Failed'
  BY <1>1, <1>3, <1>4, BrokenFails
<1>6. Waiting'
  BY <1>1, <1>2 DEF Waiting
<1> QED BY <1>1, <1>5, <1>6, FailsReads

\* The record that the end of the bytes ends.
LEMMA LastRecord ==
  ASSUME GrammarInv, AtEnd, OpenRecord
  PROVE  /\ LastCells \in Seq(CellType) /\ Len(LastCells) >= RowFirst
         /\ \E done, s, row :
              /\ Done(done) /\ Reads(data, done, s) /\ s <= Len(data) /\ EndsIn(LastCells, row)
              /\ G!RecordAt(data)[s] = [fields |-> row, end |-> pos + 1, error |-> "ok"]
              /\ row # <<Cell(s - 1, 0, {})>>
<1>1. /\ Middle(data) /\ data \in Seq(STRING) /\ pos = Len(data) /\ pos \in Nat /\ start \in Nat /\ Inv
  BY AtLast DEF GrammarInv
<1>2. PICK done, s, open, st, at, from, fs, row :
        /\ Done(done) /\ Reads(data, done, s) /\ At(data, s, open, st, at, from, fs)
        /\ open = OpenRow /\ st = state /\ at = pos /\ from = start /\ fs = flags
        /\ row = RecordFields(open, st, at, from, fs)
  BY <1>1 DEF Middle
<1>3. /\ at \in Nat /\ from \in Nat /\ ~(at < Len(data))
      /\ st \in {"FIELD_START", "UNQUOTED", "QUOTE_IN_QUOTED", "AFTER_QUOTED"}
  BY <1>1, <1>2 DEF OpenRecord
<1>4. LastCells \in Seq(CellType) /\ Len(LastCells) >= RowFirst /\ EndsIn(LastCells, row)
  <2>1. CASE st = "AFTER_QUOTED"
    <3>1. LastCells = cells /\ row = OpenRow
      BY <1>2, <2>1 DEF LastCells, RecordFields
    <3>2. Cell(0, 0, {}) \in CellType
      BY DEF Cell, CellType
    <3>3. EndsIn(cells, OpenRow) /\ RowFirst <= Len(cells) /\ cells \in Seq(CellType)
      BY <1>1, <3>2, OpenRowGrows
    <3> QED BY <3>1, <3>3
  <2>2. CASE st # "AFTER_QUOTED"
    <3>1. PICK cell : cell = Cell(from, CloseAt(st, at) - from, fs)
      OBVIOUS
    <3>2. cell \in CellType
      BY <1>1, <1>2, <1>3, <2>2, <3>1, AtEnds
    <3>3. row = Append(open, cell)
      BY <1>2, <2>2, <3>1 DEF RecordFields
    <3>4. LastCells = Append(cells, cell)
      <4>1. st = "FIELD_START" => at - from = 0
        BY <1>2, <1>3 DEF At
      <4> QED BY <1>2, <1>3, <2>2, <3>1, <4>1 DEF LastCells, CloseAt
    <3> QED BY <1>1, <1>2, <3>2, <3>3, <3>4, OpenRowGrows
  <2> QED BY <2>1, <2>2
<1>5. at < Len(data) => data[at + 1] \in {"cr", "lf"}
  BY <1>3
<1>6. G!RecordAt(data)[s] = [fields |-> row, end |-> at + 1, error |-> "ok"]
  BY <1>1, <1>2, <1>3, <1>5, RecordEnds
<1>7. s \in 1 .. at + 1 /\ (s = at + 1 => st = "FIELD_START" /\ open = <<>>)
  <2>1. s \in 1 .. at + 1
    BY <1>1, <1>2, <1>3, <1>5, RecordEnds
  <2>2. s = at + 1 => st = "FIELD_START"
    BY <1>1, <1>2, <1>3, <1>5, RecordEnds
  <2>3. s = at + 1 => open = <<>>
    <3>1. st = "FIELD_START" => Begun(data, s, open, at + 1)
      BY <1>2 DEF At
    <3> QED BY <1>3, <2>2, <3>1 DEF Begun
  <2> QED BY <2>1, <2>2, <2>3
<1>8. ASSUME st = "FIELD_START", open = <<>> PROVE FALSE
  <2>1. Len(cells) > RowFirst
    BY <1>2, <1>8 DEF OpenRecord
  <2>2. cells \in Seq(CellType) /\ Len(cells) \in Nat /\ RowFirst \in 0 .. Len(cells)
    BY <1>1, IndicesAndElements DEF Inv, TypeOK, IndexOK, RowsAreFull, RowFirst
  <2>3. PICK n, tail : n = RowFirst /\ tail = SubSeq(cells, n + 1, Len(cells))
    OBVIOUS
  <2>4. Len(tail) = Len(cells) - n
    BY <2>2, <2>3, TailIs
  <2>5. tail = <<>>
    BY <1>2, <1>8, <2>3 DEF OpenRow
  <2>6. Len(tail) = 0
    BY <2>5
  <2> QED BY <2>1, <2>2, <2>3, <2>4, <2>6
<1>9. ~Nothing(open, st, at, from, fs)
  <2>1. ASSUME st = "UNQUOTED", at = from PROVE FALSE
    BY <1>2, <1>3, <2>1 DEF At, BareSoFar
  <2> QED BY <1>8, <2>1 DEF Nothing
<1>10. row # <<Cell(s - 1, 0, {})>>
  <2>1. BlankAt(RecordFields(open, st, at, from, fs), s) <=> Nothing(open, st, at, from, fs)
    BY <1>1, <1>2, <1>3, <1>5, BlankIs
  <2> QED BY <1>2, <1>9, <2>1 DEF BlankAt
<1>11. s <= Len(data)
  BY <1>1, <1>2, <1>3, <1>7, <1>8
<1> QED BY <1>2, <1>4, <1>6, <1>10, <1>11

\* The end of the bytes ends the last row, or finds none open.
LEMMA EndRecordReads ==
  ASSUME GrammarInv, EndRecord
  PROVE  GrammarInv'
<1>1. /\ AtEnd /\ state # "QUOTED" /\ Next /\ UNCHANGED <<data, bom>>
      /\ OpenRecord => RowEnd(LastCells) /\ (status' = "ok" => call' = "settle")
      /\ ~OpenRecord => call' = "settle" /\ UNCHANGED <<index, status>>
      /\ finished' = finished
  BY DEF EndRecord, Next, input, machine
<1>2. /\ Middle(data) /\ data \in Seq(STRING) /\ pos = Len(data) /\ pos \in Nat /\ start \in Nat
      /\ status = "ok" /\ finished /\ ~bom /\ Len(data) \in Nat
  BY <1>1, AtLast
<1>3. Waiting'
  BY <1>1, <1>2 DEF Waiting
<1>4. ASSUME status' = "ok", call' = "settle", NEW done, Done(done)', Reads(data, done, Len(data) + 1)
      PROVE  GrammarInv'
  <2>1. G!Records(data) = Ahead(done, [rows |-> <<>>, error |-> "ok"])
    BY <1>2, <1>4, NothingRead
  <2>2. Over' /\ Midway' /\ Failed'
    BY <1>1, <1>2, <1>4, <2>1 DEF Over, Midway, Open, Failed
  <2> QED BY <1>1, <1>3, <2>2, NextKeepsInv DEF GrammarInv
<1>5. CASE OpenRecord
  <2>1. LastCells \in Seq(CellType) /\ Len(LastCells) >= RowFirst
    BY <1>1, <1>5, LastRecord
  <2>2. PICK done, s, row, end :
          /\ Done(done) /\ Reads(data, done, s) /\ s <= Len(data) /\ EndsIn(LastCells, row)
          /\ G!RecordAt(data)[s] = [fields |-> row, end |-> end, error |-> "ok"]
          /\ row # <<Cell(s - 1, 0, {})>> /\ end = pos + 1
    BY <1>1, <1>5, LastRecord
  <2>3. Inv
    BY DEF GrammarInv
  <2>4. G!AfterEnd(data, end) = Len(data) + 1
    BY <1>2, <2>2 DEF G!AfterEnd
  <2>5. CASE status' = "ok"
    <3>1. \E more : Done(more)' /\ Reads(data, more, G!AfterEnd(data, end))
      BY <1>1, <1>2, <1>5, <2>1, <2>2, <2>3, <2>5, RowEndReads
    <3> QED BY <1>1, <1>4, <1>5, <2>4, <2>5, <3>1
  <2>6. CASE status' # "ok"
    <3>1. \E more : \E rest \in ResultType :
            /\ Done(more)' /\ G!Records(data) = Ahead(more, rest)
            /\ Tells(status', more, rest, MaxRows', MaxColumns')
      BY <1>1, <1>2, <1>5, <2>1, <2>2, <2>3, <2>6, RowEndReads
    <3>2. Failed'
      BY <1>1, <3>1 DEF Failed
    <3> QED BY <1>1, <1>3, <2>6, <3>2, FailsReads
  <2> QED BY <2>5, <2>6
<1>6. CASE ~OpenRecord
  <2>1. PICK done, s, row, st, at, from :
          /\ Done(done) /\ Reads(data, done, s) /\ At(data, s, row, st, at, from, flags)
          /\ row = OpenRow /\ st = state /\ at = pos /\ from = start
    BY <1>2 DEF Middle
  <2>2. st \in {"FIELD_START", "AFTER_CR"} /\ (st = "FIELD_START" => Len(cells) <= RowFirst)
    <3>1. state \in States /\ Len(cells) \in Nat /\ RowFirst \in Nat
      BY IndicesAndElements DEF GrammarInv, Inv, TypeOK, MachineOK, IndexOK, RowFirst
    <3> QED BY <1>1, <1>6, <2>1, <3>1 DEF OpenRecord, States
  <2>3. s = Len(data) + 1
    <3>1. CASE st = "AFTER_CR"
      <4>1. s = G!AfterEnd(data, at)
        BY <2>1, <3>1 DEF At
      <4> QED BY <1>2, <2>1, <4>1 DEF G!AfterEnd
    <3>2. CASE st = "FIELD_START"
      <4>1. row = <<>>
        <5>1. cells \in Seq(CellType) /\ Len(cells) \in Nat /\ RowFirst = Len(cells)
          BY <2>2, <3>2, IndicesAndElements
             DEF GrammarInv, Inv, TypeOK, IndexOK, RowsAreFull, RowFirst
        <5>2. SubSeq(cells, Len(cells) + 1, Len(cells)) = <<>>
          BY <5>1, SubSeqEmpty
        <5> QED BY <2>1, <5>1, <5>2 DEF OpenRow
      <4>2. from = at /\ Begun(data, s, row, from + 1)
        BY <2>1, <3>2 DEF At
      <4> QED BY <1>2, <2>1, <4>1, <4>2 DEF Begun
    <3> QED BY <2>2, <3>1, <3>2
  <2>4. Done(done)'
    BY <1>1, <1>6, <2>1, SameRows DEF index
  <2> QED BY <1>1, <1>2, <1>4, <1>6, <2>1, <2>3, <2>4
<1> QED BY <1>5, <1>6

\* The schema has no say in what the table is.
LEMMA SettleReads ==
  ASSUME GrammarInv, Settle
  PROVE  GrammarInv'
<1>1. /\ Next /\ call = "settle" /\ call' = "idle" /\ UNCHANGED <<data, finished, first, bom>>
      /\ status' \in {status, "header"}
  BY DEF Settle, Next, input, machine, index
<1>2. finished /\ status = "ok" /\ ~bom
  BY <1>1 DEF GrammarInv, Inv, Phases
<1>3. Waiting'
  BY <1>1, <1>2 DEF Waiting
<1>4. CASE status' = "header"
  BY <1>1, <1>2, <1>3, <1>4, RefusesReads
<1>5. CASE status' = status
  <2>1. PICK done : Done(done) /\ G!Records(data) = Ahead(done, [rows |-> <<>>, error |-> "ok"])
    BY <1>1, <1>2 DEF GrammarInv, Over
  <2>2. Done(done)'
    BY <1>1, <2>1, SameRows
  <2>3. Over' /\ Midway' /\ Failed'
    BY <1>1, <1>2, <1>5, <2>1, <2>2 DEF Over, Midway, Open, Failed
  <2> QED BY <1>1, <1>3, <2>3, NextKeepsInv DEF GrammarInv
<1> QED BY <1>1, <1>4, <1>5

\* Nothing is read yet.
LEMMA InitReads == Init => GrammarInv
<1> SUFFICES ASSUME Init PROVE GrammarInv
  OBVIOUS
<1>1. Inv
  BY InitInv
<1>2. NumRows = 0 /\ MaybeBom
  BY DEF Init, NumRows, MaybeBom
<1>3. Waiting /\ Midway /\ Over /\ Failed
  BY <1>2 DEF Init, Waiting, Midway, Over, Failed
<1> QED BY <1>1, <1>3 DEF GrammarInv

\* Every step reads on as the grammar does.
LEMMA NextReads == GrammarInv /\ [Next]_vars => GrammarInv'
<1> SUFFICES ASSUME GrammarInv, [Next]_vars PROVE GrammarInv'
  OBVIOUS
<1>1. CASE Host
  BY <1>1, ChunkReads, FinishReads DEF Host
<1>2. CASE Run
  BY <1>2, DecideBomReads, AfterCrReads, ConsumeReads, RejectReads, CloseFieldReads, CloseRowReads,
     ReturnReads DEF Run
<1>3. CASE Unterminated
  BY <1>3, UnterminatedReads
<1>4. CASE EndRecord
  BY <1>4, EndRecordReads
<1>5. CASE Settle
  BY <1>5, SettleReads
<1>6. CASE UNCHANGED vars
  BY <1>6, StutterReads
<1> QED BY <1>1, <1>2, <1>3, <1>4, <1>5, <1>6 DEF Next

\* What the invariant says of the table the bytes hold.
LEMMA GrammarInvReads == GrammarInv => ReadsGrammar
<1> SUFFICES ASSUME GrammarInv, call = "idle"
             PROVE  HoldsTable(G!Reading(data, MaxRows, MaxColumns))
  BY DEF ReadsGrammar
<1>1. PICK limit, widest, width : limit = MaxRows /\ widest = MaxColumns /\ width = columns
  OBVIOUS
<1>2. limit \in Nat /\ widest \in Nat /\ width \in Nat
  BY <1>1, DataPossible DEF GrammarInv, Inv, TypeOK, IndexOK
<1>3. ASSUME NEW done, NEW rest \in ResultType, Done(done), G!Records(data) = Ahead(done, rest),
             Tells(status, done, rest, limit, widest),
             status = "ok" /\ finished => rest = [rows |-> <<>>, error |-> "ok"]
      PROVE  HoldsTable(G!Reading(data, MaxRows, MaxColumns))
  <2>1. PICK table, refusal :
          /\ table = G!Table(Ahead(done, rest), limit, widest)
          /\ refusal = G!RowError(done \o rest.rows, Len(done) + 1, limit, widest)
    OBVIOUS
  <2>2. Fine(done, width, limit, widest) /\ RowsRead = Cut(done, width)
    BY <1>1, <1>3 DEF Done
  <2>3. IsPrefixOf(Cut(done, width), table.rows)
    BY <1>2, <1>3, <2>1, <2>2, TableOf
  <2>4. rest.rows = <<>> => table.rows = Cut(done, width)
    BY <1>2, <1>3, <2>1, <2>2, TableOf
  <2>5. rest.rows = <<>> => table.error = rest.error
    BY <1>2, <1>3, <2>1, <2>2, TableOf
  <2>6. rest.rows # <<>> /\ refusal # "ok" => table.rows = Cut(done, width)
    BY <1>2, <1>3, <2>1, <2>2, TableOf
  <2>7. rest.rows # <<>> /\ refusal # "ok" => table.error = refusal
    BY <1>2, <1>3, <2>1, <2>2, TableOf
  <2>8. G!Reading(data, MaxRows, MaxColumns) = table
    BY <1>1, <1>3, <2>1 DEF G!Reading
  <2>9. ASSUME status \in {"content", "unterminated"}
        PROVE  table.error = status /\ RowsRead = table.rows
    <3>1. rest.rows = <<>> /\ rest.error = status
      BY <1>3, <2>9 DEF Tells
    <3> QED BY <2>2, <2>4, <2>5, <3>1
  <2>10. ASSUME status \in {"columns", "ragged", "rows"}
         PROVE  table.error = status /\ RowsRead = table.rows
    <3>1. rest.rows # <<>> /\ refusal = status
      BY <1>3, <2>1, <2>10 DEF Tells
    <3> QED BY <2>2, <2>6, <2>7, <2>10, <3>1
  <2>11. ASSUME status = "ok", finished PROVE table.error = "ok" /\ RowsRead = table.rows
    <3>1. rest.rows = <<>> /\ rest.error = "ok"
      BY <1>3, <2>11
    <3> QED BY <2>2, <2>4, <2>5, <3>1
  <2> QED BY <2>2, <2>3, <2>8, <2>9, <2>10, <2>11 DEF HoldsTable, GrammarErrors
<1>4. \A d, r, m, n : status = "ok" => Tells(status, d, r, m, n)
  BY DEF Tells
<1>5. CASE status # "ok"
  <2>1. PICK done : \E rest \in ResultType :
          /\ Done(done) /\ G!Records(data) = Ahead(done, rest)
          /\ Tells(status, done, rest, limit, widest)
    BY <1>1, <1>5 DEF GrammarInv, Failed
  <2> QED BY <1>3, <1>5, <2>1
<1>6. CASE status = "ok" /\ finished
  <2>1. PICK done, rest : /\ Done(done) /\ G!Records(data) = Ahead(done, rest)
                          /\ rest = [rows |-> <<>>, error |-> "ok"]
    BY <1>6 DEF GrammarInv, Over
  <2>2. rest \in ResultType
    BY <2>1 DEF ResultType
  <2> QED BY <1>3, <1>4, <1>6, <2>1, <2>2
<1>7. CASE status = "ok" /\ ~finished
  BY <1>3, <1>4, <1>7, RowsAmong
<1> QED BY <1>5, <1>6, <1>7

\* For every file, every way of cutting it into chunks and all limits, the parser holds
\* the table the dialect gives for the bytes: at the end all of it, at an error the rows
\* before the first one the file holds, and in between the first rows (parse.c's run,
\* row_end and finish_record, a byte at a time, against the grammar of whole files).
THEOREM ParserReadsGrammar == Spec => []ReadsGrammar
BY InitReads, NextReads, GrammarInvReads, PTL DEF Spec

=============================================================================
