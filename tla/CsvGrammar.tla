----------------------------- MODULE CsvGrammar -----------------------------
(***************************************************************************)
(* The dialect parse.c accepts, read a field at a time from the whole of a *)
(* file, with no states and no chunks: what the resumable machine of       *)
(* Parser must come to.  RFC 4180 with parse.c's two liberties: a quote    *)
(* inside a bare field is data, and padding after a closing quote is       *)
(* skipped.                                                                *)
(*                                                                         *)
(* A file is a sequence of bytes, of which only the class matters.  A      *)
(* field is the range of its bytes (offsets from 0, as field_off) and its  *)
(* flags.                                                                  *)
(***************************************************************************)
EXTENDS Integers, Sequences, FiniteSetsExt, Functions

Eol == {"cr", "lf"}

\* What ends a bare field, or may follow a quoted one.
Enders == Eol \cup {"delim"}

Field(off, len, flags) == [off |-> off, len |-> len, flags |-> flags]

\* The least position from i on that is in S, one past the end when none is.
FirstFrom(file, i, S) ==
  LET hits == {j \in i .. Len(file) : file[j] \in S}
  IN  IF hits = {} THEN Len(file) + 1 ELSE Min(hits)

\* How many quotes in a row end at position j, none of them before i.
QuotesUpTo(file, i, j) ==
  Max({n \in 0 .. j - i + 1 : \A k \in j - n + 1 .. j : file[k] = "quote"})

\* The quote that closes the field opened at i: "" is an escaped quote, so it is
\* the last of the first run of quotes of odd length.
Closers(file, i) ==
  {j \in i + 1 .. Len(file) :
     /\ file[j] = "quote"
     /\ j = Len(file) \/ file[j + 1] # "quote"
     /\ QuotesUpTo(file, i + 1, j) % 2 = 1}

\* The field that starts at i, the position of what ends it, and what is wrong.
Bare(file, i) ==
  LET e == FirstFrom(file, i, Enders)
  IN  [field |-> Field(i - 1, e - i, {}), end |-> e, error |-> "ok"]

\* A quoted field whose closing quote is at j: what follows it, but for padding,
\* must end the field.
ClosedAt(file, i, j) ==
  LET body == i + 1 .. j - 1
      flags == {"quoted"}
        \cup {x \in {"escape"} : \E k \in body : file[k] = "quote"}
        \cup {x \in {"newline"} : \E k \in body : file[k] \in Eol}
      e == FirstFrom(file, j + 1, Range(file) \ {"space"})
  IN  [field |-> Field(i, j - 1 - i, flags), end |-> e,
       error |-> IF e > Len(file) \/ file[e] \in Enders THEN "ok" ELSE "content"]

Quoted(file, i) ==
  IF Closers(file, i) = {}
  THEN [field |-> Field(i, 0, {}), end |-> Len(file) + 1, error |-> "unterminated"]
  ELSE ClosedAt(file, i, Min(Closers(file, i)))

FieldFrom(file, i) ==
  IF i <= Len(file) /\ file[i] = "quote" THEN Quoted(file, i) ELSE Bare(file, i)

\* The record that starts at a position: the fields up to the first that no
\* delimiter follows, the position of what ends it, and what is wrong.
RecordAt(file) ==
  LET record[i \in 1 .. Len(file) + 1] ==
        LET r == FieldFrom(file, i)
        IN  IF r.error = "ok" /\ r.end <= Len(file) /\ file[r.end] = "delim"
            THEN [record[r.end + 1] EXCEPT !.fields = <<r.field>> \o @]
            ELSE [fields |-> <<r.field>>, end |-> r.end, error |-> r.error]
  IN  record

\* Where what follows a record starts, given the position of what ends it.
AfterEnd(file, end) ==
  IF end > Len(file) THEN end
  ELSE IF end < Len(file) /\ file[end] = "cr" /\ file[end + 1] = "lf" THEN end + 2
  ELSE end + 1

\* The records from a position on, blank lines apart, up to the first error.
RecordsAt(file) ==
  LET record == RecordAt(file)
      records[i \in 1 .. Len(file) + 1] ==
        LET r == record[i]
            tail == records[AfterEnd(file, r.end)]
        IN  IF i > Len(file) THEN [rows |-> <<>>, error |-> "ok"]
            ELSE IF r.error # "ok" THEN [rows |-> <<>>, error |-> r.error]
            ELSE IF r.fields = <<Field(i - 1, 0, {})>> THEN tail
            ELSE [tail EXCEPT !.rows = <<r.fields>> \o @]
  IN  records

\* A byte order mark is no part of the first field.
HasBom(file) == Len(file) >= 3 /\ SubSeq(file, 1, 3) = <<"bom1", "bom2", "bom3">>

Records(file) == RecordsAt(file)[IF HasBom(file) THEN 4 ELSE 1]

\* A row with more fields than the first one is read without the excess when
\* all of the excess is empty.
Fits(row, width) ==
  Len(row) >= width /\ \A c \in width + 1 .. Len(row) : row[c].len = 0

\* What is wrong with the r-th of some rows.
RowError(rows, r, maxRows, maxColumns) ==
  IF r = 1 /\ maxColumns # 0 /\ Len(rows[1]) > maxColumns THEN "columns"
  ELSE IF ~Fits(rows[r], Len(rows[1])) THEN "ragged"
  ELSE IF maxRows # 0 /\ r > maxRows THEN "rows" ELSE "ok"

\* The table those records are when nothing is wrong with them, and otherwise the
\* rows before the first error and the error.
Table(raw, maxRows, maxColumns) ==
  LET ErrorAt(r) == RowError(raw.rows, r, maxRows, maxColumns)
      wrong == {r \in DOMAIN raw.rows : ErrorAt(r) # "ok"}
      good == IF wrong = {} THEN Len(raw.rows) ELSE Min(wrong) - 1
  IN  [rows |-> [r \in 1 .. good |-> SubSeq(raw.rows[r], 1, Len(raw.rows[1]))],
       error |-> IF wrong = {} THEN raw.error ELSE ErrorAt(Min(wrong))]

Reading(file, maxRows, maxColumns) == Table(Records(file), maxRows, maxColumns)

=============================================================================
