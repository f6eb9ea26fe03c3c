------------------------------- MODULE Parser -------------------------------
(***************************************************************************)
(* The resumable CSV parser, parse.c: a table of states and byte classes   *)
(* driven over bytes that arrive in chunks of any size (or all at once,    *)
(* borrowed), building a columnar index: one array of fields, and for each *)
(* row the index of its first field, with a running sentinel at the end.   *)
(*                                                                         *)
(* A byte is its class, except that the three bytes of a byte order mark   *)
(* are kept apart.  Offsets count from 0, as in the source.  One action is *)
(* one call's entry or one turn of the loop of run(); between two turns    *)
(* the machine keeps nothing but what the struct keeps, which is what lets *)
(* a chunk end anywhere.  Memory is assumed to suffice.                    *)
(***************************************************************************)
EXTENDS Integers, Sequences, FiniteSets

CONSTANTS
  Cases,        \* what is parsed: the pieces a host pushes or lends, with the limits
  HeaderAuto,   \* IBHA_CSVD_HEADER_AUTO, with the source's table and schema
  NameRow,      \* opts.header.name_row, counted from 1, 0 for absent
  Names,        \* the source's column names, a sequence of byte sequences
  ScanRows      \* IBHA_CSVD_HEADER_SCAN_ROWS

ASSUME CasesAssumption ==
  \A i \in DOMAIN Cases :
    /\ Cases[i].chunks \subseteq Seq(STRING)
    /\ {Cases[i].maxData, Cases[i].maxRows, Cases[i].maxColumns, Cases[i].maxBytes} \subseteq Nat
    /\ Cases[i].headerRows \in Nat \cup {HeaderAuto}

ASSUME HeaderAssumption ==
  /\ HeaderAuto \notin Nat /\ NameRow \in Nat /\ ScanRows \in Nat \ {0}
  /\ Names \in Seq(Seq(STRING))

VARIABLES
  case,       \* which of Cases
  data,       \* tbl.bytes, all that has arrived
  mode,       \* whose bytes they are: "none" yet, "pushed", "borrowed"
  call,       \* the call that runs: "idle", "run", "finish"
  finished,
  bom,        \* bom_pending
  pos,
  state,
  start,      \* field_start
  flags,      \* field_flags
  cells,      \* field_off, field_len, field_flags
  first,      \* row_first_field[0 .. n_rows]
  columns,    \* tbl.n_columns
  headerRows, \* header_rows: HeaderAuto until detected
  dataFrom,   \* schema.first_data_row once the schema is resolved, else None
  digested,   \* the rows hash_row has folded
  normalized, \* stats.ragged_normalized
  status      \* ctx->status, sticky

input == <<case, data, mode, finished>>
machine == <<bom, pos, state, start, flags>>
index == <<cells, first, columns>>
schema == <<headerRows, dataFrom, digested>>
vars == <<input, call, machine, index, schema, normalized, status>>

Chunks == Cases[case].chunks
MaxData == Cases[case].maxData        \* bound: no more than this many bytes are pushed
MaxRows == Cases[case].maxRows        \* ctx->limits.max_rows, 0 for none
MaxColumns == Cases[case].maxColumns  \* ctx->limits.max_columns, 0 for none
MaxBytes == Cases[case].maxBytes      \* ctx->limits.max_bytes
HeaderRows == Cases[case].headerRows  \* opts.header.rows: a number, or HeaderAuto

None == -1

Bom == <<"bom1", "bom2", "bom3">>

\* cls: what the table tells apart.
Class(b) == IF b \in {"delim", "quote", "cr", "lf", "space"} THEN b ELSE "other"

Enders == {"delim", "cr", "lf"}

NumRows == Len(first) - 1
RowFirst == first[Len(first)]

\* k_trans: where a byte of class c leads from state s, and what it does.
Goto(s, c) ==
  IF s # "QUOTED" /\ c \in Enders THEN IF c = "cr" THEN "AFTER_CR" ELSE "FIELD_START"
  ELSE CASE s = "FIELD_START" -> IF c = "quote" THEN "QUOTED" ELSE "UNQUOTED"
         [] s = "UNQUOTED" -> "UNQUOTED"
         [] s = "QUOTED" -> IF c = "quote" THEN "QUOTE_IN_QUOTED" ELSE "QUOTED"
         [] s = "QUOTE_IN_QUOTED" -> IF c = "quote" THEN "QUOTED" ELSE "AFTER_QUOTED"
         [] OTHER -> "AFTER_QUOTED"

EndsRow(s, c) == s # "QUOTED" /\ c \in {"cr", "lf"}

\* A_CLOSE0 and A_CLOSE1: the field ends before this byte, or before the quote
\* that precedes it.
Closes0(s, c) == s \in {"FIELD_START", "UNQUOTED"} /\ c \in Enders
Closes1(s, c) == s = "QUOTE_IN_QUOTED" /\ c \in Enders \cup {"space"}
Closes(s, c) == Closes0(s, c) \/ Closes1(s, c)

Opens(s, c) == s = "FIELD_START" /\ c = "quote"
Escapes(s, c) == s = "QUOTE_IN_QUOTED" /\ c = "quote"
BreaksLine(s, c) == s = "QUOTED" /\ c \in {"cr", "lf"}

Rejects(s, c) ==
  \/ s = "QUOTE_IN_QUOTED" /\ c = "other"
  \/ s = "AFTER_QUOTED" /\ c \in {"other", "quote"}

\* A_SETSTART, or implied by a close.
SetsStart(s, c) == Closes(s, c) \/ (s = "AFTER_QUOTED" /\ c \in {"delim", "lf"})

Cell(off, len, fs) == [off |-> off, len |-> len, flags |-> fs]

-----------------------------------------------------------------------------
Init ==
  /\ case \in DOMAIN Cases
  /\ data = <<>> /\ mode = "none" /\ call = "idle" /\ finished = FALSE
  /\ bom = TRUE /\ pos = 0 /\ state = "FIELD_START" /\ start = 0 /\ flags = {}
  /\ cells = <<>> /\ first = <<0>> /\ columns = 0
  /\ headerRows = HeaderRows /\ dataFrom = None /\ digested = {}
  /\ normalized = 0 /\ status = "ok"

Fail(error) ==
  /\ status' = error /\ call' = "idle"

\* ibha_csvd_parse_chunk up to its call of run, which an empty chunk never makes.
Chunk(bytes) ==
  /\ call = "idle" /\ status = "ok"
  /\ Len(data) + Len(bytes) <= MaxData
  /\ IF finished \/ mode = "borrowed"
     THEN Fail("misuse") /\ UNCHANGED data /\ UNCHANGED mode
     ELSE IF bytes = <<>>
     THEN UNCHANGED <<data, mode, call, status>>
     ELSE IF Len(data) + Len(bytes) > MaxBytes
     THEN Fail("too large") /\ UNCHANGED data /\ UNCHANGED mode
     ELSE /\ data' = data \o bytes /\ mode' = "pushed"
          /\ call' = "run" /\ UNCHANGED status
  /\ UNCHANGED <<case, finished, machine, index, schema, normalized>>

\* ibha_csvd_parse_borrow, likewise.
Borrow(bytes) ==
  /\ call = "idle" /\ status = "ok"
  /\ IF finished \/ mode # "none"
     THEN Fail("misuse") /\ UNCHANGED data /\ UNCHANGED mode
     ELSE IF Len(bytes) > MaxBytes
     THEN Fail("too large") /\ UNCHANGED data /\ UNCHANGED mode
     ELSE /\ data' = bytes /\ mode' = "borrowed"
          /\ call' = "run" /\ UNCHANGED status
  /\ UNCHANGED <<case, finished, machine, index, schema, normalized>>

\* The head of ibha_csvd_parse_finish: what is still unread can be no mark.
Finish ==
  /\ call = "idle" /\ status = "ok" /\ ~finished
  /\ finished' = TRUE /\ bom' = FALSE /\ call' = "finish"
  /\ UNCHANGED <<case, data, mode, pos, state, start, flags, index, schema, normalized, status>>

-----------------------------------------------------------------------------
(***************************************************************************)
(* row_end, for the record whose fields end the sequence cs.               *)
(***************************************************************************)
Width(cs) == Len(cs) - RowFirst

Excess(cs) == RowFirst + columns + 1 .. Len(cs)

RowError(cs) ==
  IF NumRows = 0
  THEN IF MaxColumns # 0 /\ Width(cs) > MaxColumns THEN "columns" ELSE "ok"
  ELSE IF Width(cs) < columns \/ \E i \in Excess(cs) : cs[i].len # 0 THEN "ragged"
  ELSE IF MaxRows # 0 /\ NumRows >= MaxRows THEN "rows" ELSE "ok"

\* The bytes without their padding, as name_eq compares names (a name here has no
\* quote in it, so a cell with an escaped one never equals it).
Stripped(bytes) ==
  LET solid == {i \in DOMAIN bytes : bytes[i] # "space"}
      from == CHOOSE i \in solid : \A j \in solid : i <= j
      to == CHOOSE i \in solid : \A j \in solid : i >= j
  IN  IF solid = {} THEN <<>> ELSE SubSeq(bytes, from, to)

Text(cell) == Stripped(SubSeq(data, cell.off + 1, cell.off + cell.len))

\* ibha_schema_row_matches_names, and what column_mismatch accepts, under the
\* default, strict column policy, of a row counted from 1.
MatchesNames(cs, row) ==
  /\ Width(cs) = Len(Names)
  /\ \A c \in DOMAIN Names : Text(cs[first[row] + c]) = Names[c]

\* header_rows once this row is in.
HeaderAfter(cs) ==
  IF dataFrom = None /\ headerRows = HeaderAuto /\ MatchesNames(cs, NumRows + 1)
  THEN NumRows + 1 ELSE headerRows

\* A mutant: one row too many is looked at.
ScannedOutLate(cs) ==
  dataFrom = None /\ HeaderAfter(cs) = HeaderAuto /\ NumRows + 1 > ScanRows

\* ibha_schema_resolve: with a header found or given it succeeds when the rows
\* are there; without one it reports what is wrong with the header.
ScannedOut(cs) ==
  dataFrom = None /\ HeaderAfter(cs) = HeaderAuto /\ NumRows + 1 >= ScanRows

Resolves(cs) ==
  dataFrom = None /\ HeaderAfter(cs) # HeaderAuto /\ NumRows + 1 >= HeaderAfter(cs)

\* The row ibha_schema_resolve takes for the column names when there is a source
\* to check them against: the caller's layout goes before what was detected.
NamesAt(header) == IF NameRow \in 1 .. header THEN NameRow ELSE header

Mismatched(cs) ==
  Resolves(cs) /\ HeaderRows = HeaderAuto /\ ~MatchesNames(cs, NamesAt(HeaderAfter(cs)))

DataFromAfter(cs) ==
  IF Resolves(cs) /\ ~Mismatched(cs) THEN HeaderAfter(cs) ELSE dataFrom

\* Mutants: the row after the header is skipped; the excess is not dropped, or
\* dropped at the wrong end.
IsDataLate(from) == from # None /\ NumRows > from
KeptAll(cs) == cs
KeptTail(cs) == IF NumRows = 0 THEN cs ELSE SubSeq(cs, Width(cs) - columns + 1, Len(cs))

\* Whether the row that ends is past the header.
IsData(from) == from # None /\ NumRows >= from

Kept(cs) == IF NumRows = 0 THEN cs ELSE SubSeq(cs, 1, RowFirst + columns)

\* The excess goes before the rows are counted against their limit.
RowEnd(cs) ==
  /\ columns' = IF NumRows = 0 THEN Width(cs) ELSE columns
  /\ cells' = IF RowError(cs) \in {"ok", "rows"} THEN Kept(cs) ELSE cs
  /\ normalized' = normalized + (IF cells' = cs THEN 0 ELSE 1)
  /\ IF RowError(cs) # "ok"
     THEN /\ status' = RowError(cs)
          /\ UNCHANGED <<first, schema>>
     ELSE LET kept == Kept(cs)
          IN  /\ first' = Append(first, Len(kept))
              /\ headerRows' = HeaderAfter(kept)
              /\ dataFrom' = DataFromAfter(kept)
              /\ status' = IF ScannedOut(kept) THEN "header"
                           ELSE IF Mismatched(kept) THEN "mismatch" ELSE "ok"
              /\ digested' = IF IsData(DataFromAfter(kept))
                             THEN digested \cup {NumRows} ELSE digested

-----------------------------------------------------------------------------
(***************************************************************************)
(* run.                                                                    *)
(***************************************************************************)
\* The bytes at hand could still turn out to be the start of a mark.
MaybeBom == Len(data) < 3 /\ \A i \in DOMAIN data : data[i] = Bom[i]

Running == call # "idle" /\ status = "ok"

\* A mutant: the mark is looked for in the first chunk alone.
DecideBomEarly ==
  /\ Running /\ bom
  /\ LET marked == Len(data) >= 3 /\ SubSeq(data, 1, 3) = Bom
     IN  /\ bom' = FALSE
         /\ pos' = IF marked THEN 3 ELSE pos
         /\ start' = IF marked THEN 3 ELSE start
  /\ UNCHANGED <<input, call, state, flags, index, schema, normalized, status>>

\* The mark is decided once three bytes are there or one of them differs.
DecideBom ==
  /\ Running /\ bom
  /\ IF MaybeBom
     THEN call' = "idle" /\ UNCHANGED <<bom, pos, start>>
     ELSE LET marked == Len(data) >= 3 /\ SubSeq(data, 1, 3) = Bom
          IN  /\ bom' = FALSE
              /\ pos' = IF marked THEN 3 ELSE pos
              /\ start' = IF marked THEN 3 ELSE start
              /\ UNCHANGED call
  /\ UNCHANGED <<input, state, flags, index, schema, normalized, status>>

Reading == Running /\ ~bom /\ pos < Len(data)
Byte == data[pos + 1]
Does(Act(_, _)) == Act(state, Class(Byte))

\* A mutant: a byte that is no LF is left to a state that has no row for it.
AfterCrStuck ==
  /\ Reading /\ state = "AFTER_CR"
  /\ pos' = IF Byte = "lf" THEN pos + 1 ELSE pos
  /\ state' = IF Byte = "lf" THEN "FIELD_START" ELSE state
  /\ start' = pos'
  /\ UNCHANGED <<input, call, bom, flags, index, schema, normalized, status>>

\* The LF of a CRLF; any other byte is left for the next record.
AfterCr ==
  /\ Reading /\ state = "AFTER_CR"
  /\ pos' = IF Byte = "lf" THEN pos + 1 ELSE pos
  /\ state' = "FIELD_START" /\ start' = pos'
  /\ UNCHANGED <<input, call, bom, flags, index, schema, normalized, status>>

\* A byte that ends nothing: skipped, or noted in the open field's flags.
Consume ==
  /\ Reading /\ state # "AFTER_CR"
  /\ ~Does(Closes) /\ ~Does(EndsRow) /\ ~Does(Rejects)
  /\ pos' = pos + 1 /\ state' = Goto(state, Class(Byte))
  /\ start' = IF Does(Opens) \/ Does(SetsStart) THEN pos + 1 ELSE start
  /\ flags' = flags
       \cup {f \in {"quoted"} : Does(Opens)}
       \cup {f \in {"escape"} : Does(Escapes)}
       \cup {f \in {"newline"} : Does(BreaksLine)}
  /\ UNCHANGED <<input, call, bom, index, schema, normalized, status>>

\* bad_content.
Reject ==
  /\ Reading /\ state # "AFTER_CR" /\ Does(Rejects)
  /\ state' = Goto(state, Class(Byte))
  /\ Fail("content")
  /\ UNCHANGED <<input, bom, pos, start, flags, index, schema, normalized>>

\* The fields once the open one is closed by the byte at pos.
OpenEnd == IF Does(Closes1) THEN pos - 1 ELSE pos

Pushed ==
  IF Does(Closes) THEN Append(cells, Cell(start, OpenEnd - start, flags)) ELSE cells

\* A wholly empty line is no record.
Blank ==
  Does(Closes) /\ Does(EndsRow) /\ OpenEnd = start /\ Len(cells) = RowFirst /\ flags = {}

CloseField ==
  /\ Reading /\ state # "AFTER_CR" /\ Does(Closes)
  /\ ~Does(EndsRow) \/ Blank
  /\ pos' = pos + 1 /\ state' = Goto(state, Class(Byte))
  /\ start' = pos + 1 /\ flags' = {}
  /\ cells' = IF Blank THEN cells ELSE Pushed
  /\ UNCHANGED <<input, call, bom, first, columns, schema, normalized, status>>

CloseRow ==
  /\ Reading /\ state # "AFTER_CR" /\ Does(EndsRow) /\ ~Blank
  /\ state' = Goto(state, Class(Byte))
  /\ start' = IF Does(SetsStart) THEN pos + 1 ELSE start
  /\ flags' = IF Does(Closes) THEN {} ELSE flags
  /\ RowEnd(Pushed)
  /\ IF status' = "ok" THEN pos' = pos + 1 /\ UNCHANGED call ELSE call' = "idle" /\ UNCHANGED pos
  /\ UNCHANGED <<input, bom>>

\* run returns, all that has arrived being consumed.
Return ==
  /\ Running /\ call = "run" /\ ~bom /\ pos = Len(data)
  /\ call' = "idle"
  /\ UNCHANGED <<input, machine, index, schema, normalized, status>>

-----------------------------------------------------------------------------
(***************************************************************************)
(* finish_record, by the state the bytes ended in, and the tail of         *)
(* parse_finish: a schema still open is resolved on the rows there are.    *)
(***************************************************************************)
AtEnd == Running /\ call = "finish" /\ ~bom /\ pos = Len(data)

Unterminated ==
  /\ AtEnd /\ state = "QUOTED"
  /\ Fail("unterminated")
  /\ UNCHANGED <<input, machine, index, schema, normalized>>

OpenRecord ==
  \/ state \in {"QUOTE_IN_QUOTED", "AFTER_QUOTED", "UNQUOTED"}
  \/ state = "FIELD_START" /\ Len(cells) > RowFirst

LastCells ==
  CASE state = "QUOTE_IN_QUOTED" -> Append(cells, Cell(start, pos - 1 - start, flags))
    [] state = "UNQUOTED" -> Append(cells, Cell(start, pos - start, flags))
    [] state = "FIELD_START" -> Append(cells, Cell(start, 0, flags))
    [] state = "AFTER_QUOTED" -> cells

EndRecord ==
  /\ AtEnd /\ state # "QUOTED"
  /\ IF OpenRecord
     THEN /\ RowEnd(LastCells)
          /\ call' = IF status' = "ok" THEN "settle" ELSE "idle"
     ELSE /\ call' = "settle"
          /\ UNCHANGED <<index, schema, normalized, status>>
  /\ UNCHANGED <<input, machine>>

Settle ==
  /\ call = "settle"
  /\ call' = "idle"
  /\ IF dataFrom # None THEN UNCHANGED <<dataFrom, status>>
     ELSE IF headerRows # HeaderAuto /\ NumRows >= headerRows
     THEN dataFrom' = headerRows /\ UNCHANGED status
     ELSE status' = "header" /\ UNCHANGED dataFrom
  /\ UNCHANGED <<input, machine, index, headerRows, digested, normalized>>

Run == DecideBom \/ AfterCr \/ Consume \/ Reject \/ CloseField \/ CloseRow \/ Return

Host ==
  \/ \E bytes \in Chunks : Chunk(bytes) \/ Borrow(bytes)
  \/ Finish

Next == Host \/ Run \/ Unterminated \/ EndRecord \/ Settle

\* A call runs to its end; the host may stop between calls.
Spec == Init /\ [][Next]_vars /\ WF_vars(Run \/ Unterminated \/ EndRecord \/ Settle)

-----------------------------------------------------------------------------
Ranges ==
  /\ pos \in 0 .. Len(data) /\ start \in 0 .. Len(data)
  /\ \A i \in DOMAIN cells :
       /\ cells[i].off \in Nat /\ cells[i].len \in Nat
       /\ cells[i].off + cells[i].len <= Len(data)

\* The index is a table: every completed row has exactly n_columns fields, so
\* that row_first_field plus a column is that cell (parse.c:836), and fields lie
\* one after another in the bytes received, the open one after them all.  None of
\* the unsigned subtractions that close a field (parse.c:515) wraps.
IndexSound ==
  /\ Ranges
  /\ \A r \in 1 .. NumRows : first[r + 1] = first[r] + columns
  /\ \A i \in DOMAIN cells :
       /\ i > 1 => cells[i].off > cells[i - 1].off + cells[i - 1].len
       /\ status = "ok" /\ ~finished => start > cells[i].off + cells[i].len

\* A row is digested exactly when it is complete and lies past the header, and
\* so is never digested under a schema that is not resolved (parse.c:420): a
\* matched pair with equal digests is never compared cell by cell.
DigestsDataRows ==
  digested = {r \in 0 .. NumRows - 1 : dataFrom # None /\ r >= dataFrom}

\* What the source's reader may hold on to: no later chunk, row or error moves
\* or changes a completed row, and the sentinel keeps closing the last one.
RowsStand ==
  [][/\ Len(first') >= Len(first)
     /\ SubSeq(first', 1, Len(first)) = first
     /\ SubSeq(cells', 1, RowFirst) = SubSeq(cells, 1, RowFirst)]_vars

\* Every call returns: no turn of the loop leaves its byte for ever.
Returns == call # "idle" ~> call = "idle"

=============================================================================
