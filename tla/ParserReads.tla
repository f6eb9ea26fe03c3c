---------------------------- MODULE ParserReads ----------------------------
(***************************************************************************)
(* What the resumable parser of Parser must come to: the table that        *)
(* CsvGrammar reads from the same bytes in one piece, and the header that  *)
(* detection is documented to find in it.                                  *)
(***************************************************************************)
EXTENDS Parser

G == INSTANCE CsvGrammar

\* The rows of the index, as ibha_csvd_row_field addresses them.
RowsRead == [r \in 1 .. NumRows |-> [c \in 1 .. columns |-> cells[first[r] + c]]]

IsPrefixOf(s, t) == Len(s) <= Len(t) /\ s = SubSeq(t, 1, Len(s))

GrammarErrors == {"content", "columns", "ragged", "rows", "unterminated"}

\* What the index may hold of the table, and must hold once the parse is over.
HoldsTable(table) ==
  /\ IsPrefixOf(RowsRead, table.rows)
  /\ status \in GrammarErrors => table.error = status /\ RowsRead = table.rows
  /\ status = "ok" /\ finished => table.error = "ok" /\ RowsRead = table.rows

\* However the bytes were cut into chunks, or lent whole: a finished parse holds
\* exactly the table the dialect gives for the file, an error is the first one
\* the file holds and leaves exactly the rows before it, and between chunks the
\* rows are the first ones of that table (parse.c:441, "Returns with state
\* carried so the next chunk resumes exactly where this one stopped").
ReadsGrammar == call = "idle" => HoldsTable(G!Reading(data, MaxRows, MaxColumns))

\* The rows of the whole file the header is looked for in.
Matching(rows) ==
  {r \in 1 .. Len(rows) :
     /\ r <= ScanRows /\ Len(rows[r]) = Len(Names)
     /\ \A c \in DOMAIN Names : Text(rows[r][c]) = Names[c]}

\* Detection comes to the first row that is the source's column names, and a file
\* is refused for its header only when it has none among its first eight rows
\* (schema.c:10, "we look for the row that *is* those names, within the first
\* eight rows. That gives a definite answer or a definite error").
HeaderFound ==
  call = "idle" /\ HeaderRows = HeaderAuto =>
    /\ status = "ok" /\ finished =>
         dataFrom \in Matching(RowsRead) /\ \A r \in Matching(RowsRead) : dataFrom <= r
    /\ status \in {"header", "mismatch"} => Matching(RowsRead) = {}

=============================================================================
