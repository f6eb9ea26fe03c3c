-------------------------------- MODULE Emit --------------------------------
(***************************************************************************)
(* The emitters, emit.c: a loop over a cursor of its own that writes the   *)
(* rows of a diff through one fixed buffer into a sink of the host's, or   *)
(* drains the cursor and writes one summary of it.                         *)
(*                                                                         *)
(* A line is a few pieces; a piece stands for the bytes wr is given in one *)
(* go.  The host's code runs between two calls and inside the sink: there  *)
(* it may advance a cursor it holds on the same diff, whose cell counters  *)
(* are the ones the summary reads.                                         *)
(***************************************************************************)
EXTENDS Integers, Sequences, FiniteSets, SequencesExt, FiniteSetsExt

CONSTANTS
  RowShapes,  \* the rows a report may hold: [kind, quiet, cells]
  MaxReport,  \* bound: rows of a report
  RowLimits,  \* values of opts.max_rows, 0 for none
  BufCap,     \* EMIT_BUF, in pieces
  MaxEmits    \* bound: calls of ibha_csvd_emit

ASSUME SizeAssumption ==
  {MaxReport, MaxEmits} \subseteq Nat /\ BufCap \in Nat \ {0} /\ RowLimits \subseteq Nat

ASSUME ShapeAssumption ==
  RowShapes \subseteq
    [kind : {"unchanged", "modified", "added", "deleted"}, quiet : BOOLEAN, cells : Nat]

VARIABLES
  report,    \* the rows a cursor yields
  hostAt,    \* rows pulled so far from the host's cursor
  counted,   \* d->stats.cells_changed and the other cell level counters
  status,    \* ctx->status, sticky
  phase,     \* of the call: "idle", "drain", "rows", "close", "flush"
  opts,      \* of the call: [format, changesOnly, maxRows]
  cursor,    \* rows the call's own cursor has yielded
  todo,      \* the pieces of the line being written
  buf, err,  \* emit_w
  written,   \* rows_written
  accepted,  \* what the sink has taken from this call
  emits

host == <<report, hostAt>>
writer == <<buf, err, accepted>>
vars == <<host, counted, status, phase, opts, cursor, todo, writer, written, emits>>

Formats == {"jsonl", "csv", "html", "summary"}

Options == [format : Formats, changesOnly : BOOLEAN, maxRows : RowLimits]

Reports == UNION {[1 .. n -> RowShapes] : n \in 0 .. MaxReport}

\* A line's pieces.
Line(what, at) == <<<<what, at, "body">>, <<what, at, "end">>>>

\* Every counter is among the first few hundred bytes of the summary, ahead of
\* the schema findings that can outgrow the buffer.
SummaryLine(n) == Line("summary", n)

\* A modified row is two lines of CSV, what it was and what it became.
RowLines(format, r) ==
  IF format # "csv" THEN Line("row", r)
  ELSE (IF report[r].kind \in {"modified", "deleted"} THEN Line("source", r) ELSE <<>>)
       \o (IF report[r].kind # "deleted" THEN Line("target", r) ELSE <<>>)

OpenLines(format) == IF format \in {"csv", "html"} THEN Line("open", 0) ELSE <<>>
CloseLines(format) == IF format = "html" THEN Line("close", 0) ELSE <<>>

-----------------------------------------------------------------------------
NoOptions == [format |-> "jsonl", changesOnly |-> FALSE, maxRows |-> 0]

Init ==
  /\ report \in Reports /\ hostAt = 0 /\ counted = 0 /\ status = "ok"
  /\ phase = "idle" /\ opts = NoOptions /\ cursor = 0 /\ todo = <<>>
  /\ buf = <<>> /\ err = FALSE /\ accepted = <<>> /\ written = 0 /\ emits = 0

\* The host advances its cursor by up to n rows: fill_cells counts their cells.
HostPulls(n) ==
  \E k \in 0 .. n :
    /\ hostAt + k <= Len(report)
    /\ hostAt' = hostAt + k
    /\ counted' = counted + MapThenSumSet(LAMBDA r : report[r].cells, hostAt + 1 .. hostAt + k)

Pull ==
  /\ phase = "idle" /\ status = "ok" /\ hostAt < Len(report)
  /\ HostPulls(1) /\ hostAt' # hostAt
  /\ UNCHANGED <<report, status, phase, opts, cursor, todo, writer, written, emits>>

\* Options the emitter refuses end the whole diff: the error is the context's.
RefuseOptions ==
  /\ phase = "idle" /\ status = "ok" /\ emits < MaxEmits
  /\ status' = "invalid" /\ emits' = emits + 1
  /\ UNCHANGED <<host, counted, phase, opts, cursor, todo, writer, written>>

\* A mutant: the counters go on from where they stand.
BeginCounting(o) ==
  /\ phase = "idle" /\ status = "ok" /\ emits < MaxEmits
  /\ opts' = o /\ cursor' = 0 /\ written' = 0
  /\ buf' = <<>> /\ err' = FALSE /\ accepted' = <<>>
  /\ phase' = IF o.format = "summary" THEN "drain" ELSE "rows"
  /\ todo' = OpenLines(o.format)
  /\ emits' = emits + 1
  /\ UNCHANGED <<host, counted, status>>

\* ibha_csvd_emit up to its loops.  A summary counts from zero.
Begin(o) ==
  /\ phase = "idle" /\ status = "ok" /\ emits < MaxEmits
  /\ opts' = o /\ cursor' = 0 /\ written' = 0
  /\ buf' = <<>> /\ err' = FALSE /\ accepted' = <<>>
  /\ phase' = IF o.format = "summary" THEN "drain" ELSE "rows"
  /\ counted' = IF o.format = "summary" THEN 0 ELSE counted
  /\ todo' = OpenLines(o.format)
  /\ emits' = emits + 1
  /\ UNCHANGED <<host, status>>

-----------------------------------------------------------------------------
(***************************************************************************)
(* emit_w: the buffer is handed to the sink when it is full, and a sink    *)
(* that refuses is never called again.                                     *)
(***************************************************************************)
FlushOf(b) ==
  \/ err' = FALSE /\ accepted' = accepted \o b /\ buf' = <<>>
  \/ err' = TRUE /\ accepted' = accepted /\ buf' = <<>>

\* A mutant: a refusal is forgotten by the writes that follow it.
DropLineWrites ==
  /\ todo # <<>> /\ err
  /\ todo' = Tail(todo) /\ FlushOf(<<Head(todo)>>)
  /\ UNCHANGED <<host, counted, status, phase, opts, cursor, written, emits>>

\* wr, of the next piece.
Write ==
  /\ todo # <<>> /\ ~err
  /\ todo' = Tail(todo)
  /\ LET b == Append(buf, Head(todo))
     IN  IF Len(b) < BufCap
         THEN buf' = b /\ UNCHANGED <<err, accepted, hostAt, counted>>
         ELSE FlushOf(b) /\ HostPulls(1)
  /\ UNCHANGED <<report, status, phase, opts, cursor, written, emits>>

\* After a refusal every wr is a no-op.
DropLine ==
  /\ todo # <<>> /\ err
  /\ todo' = <<>>
  /\ UNCHANGED <<host, counted, status, phase, opts, cursor, writer, written, emits>>

-----------------------------------------------------------------------------
Between == todo = <<>>

Row == report[cursor + 1]

\* One pass of the loop: pull, then drop the row, stop at the limit, or write it.
Skips == opts.changesOnly /\ Row.quiet

AtLimit == opts.maxRows # 0 /\ written >= opts.maxRows

EmitRow ==
  /\ phase = "rows" /\ Between /\ ~err /\ cursor < Len(report)
  /\ cursor' = cursor + 1 /\ counted' = counted + Row.cells
  /\ IF Skips THEN UNCHANGED <<phase, todo, written>>
     ELSE IF AtLimit THEN phase' = "close" /\ UNCHANGED <<todo, written>>
     ELSE /\ todo' = RowLines(opts.format, cursor + 1)
          /\ written' = written + 1
          /\ UNCHANGED phase
  /\ UNCHANGED <<host, status, opts, writer, emits>>

EndRows ==
  /\ phase = "rows" /\ Between /\ (err \/ cursor = Len(report))
  /\ phase' = "close"
  /\ UNCHANGED <<host, counted, status, opts, cursor, todo, writer, written, emits>>

Close ==
  /\ phase = "close" /\ Between
  /\ phase' = "flush" /\ todo' = CloseLines(opts.format)
  /\ UNCHANGED <<host, counted, status, opts, cursor, writer, written, emits>>

\* The summary's own pass, and then its line.
Drain ==
  /\ phase = "drain"
  /\ IF cursor < Len(report)
     THEN /\ cursor' = cursor + 1 /\ counted' = counted + Row.cells
          /\ written' = written + 1
          /\ UNCHANGED <<phase, todo>>
     ELSE /\ phase' = "flush" /\ todo' = SummaryLine(counted)
          /\ UNCHANGED <<cursor, counted, written>>
  /\ UNCHANGED <<host, status, opts, writer, emits>>

\* A mutant: the last buffer is not handed over.
ReturnUnflushed ==
  /\ phase = "flush" /\ Between
  /\ phase' = "idle" /\ UNCHANGED writer
  /\ UNCHANGED <<host, counted, status, opts, cursor, todo, written, emits>>

\* The last flush and the verdict.
Return ==
  /\ phase = "flush" /\ Between
  /\ phase' = "idle"
  /\ IF err \/ buf = <<>> THEN UNCHANGED <<writer, hostAt, counted>>
     ELSE FlushOf(buf) /\ HostPulls(1)
  /\ status' = IF err' THEN "io" ELSE status
  /\ UNCHANGED <<report, opts, cursor, todo, written, emits>>

Call == Write \/ DropLine \/ EmitRow \/ EndRows \/ Close \/ Drain \/ Return

Next == Pull \/ RefuseOptions \/ (\E o \in Options : Begin(o)) \/ Call

Spec == Init /\ [][Next]_vars

-----------------------------------------------------------------------------
\* The rows a call has to write of the first n: those changes_only keeps, the
\* first max_rows of them.
Kept(n) == {r \in 1 .. n : ~(opts.changesOnly /\ report[r].quiet)}

Selected(n) ==
  {r \in Kept(n) : opts.maxRows = 0 \/ Cardinality(Kept(r)) <= opts.maxRows}

Lines[n \in 0 .. Len(report)] ==
  IF n = 0 THEN <<>>
  ELSE Lines[n - 1] \o (IF n \in Selected(n) THEN RowLines(opts.format, n) ELSE <<>>)

Cells[n \in 0 .. Len(report)] == IF n = 0 THEN 0 ELSE Cells[n - 1] + report[n].cells

\* The document the options ask for.
Document ==
  IF opts.format = "summary" THEN SummaryLine(Cells[Len(report)])
  ELSE OpenLines(opts.format) \o Lines[Len(report)] \o CloseLines(opts.format)

\* What the sink has taken is always the document from its start, byte for byte:
\* a refusal leaves no gap and nothing comes after it.  In a summary the numbers
\* are those of exactly one pass, whatever the host's own cursors and earlier
\* emits have counted (ibha_csvdiff.h:1008).  The buffer between always has room
\* for the next byte: emit.c:87 stores it before it looks.
OutputIsPrefix ==
  /\ Len(buf) < BufCap
  /\ emits > 0 => IsPrefix(accepted, Document)

\* A call that reports no failure has delivered the whole document and says how
\* many rows of the report are in it.
OkIsComplete ==
  phase = "idle" /\ emits > 0 /\ status = "ok" =>
    /\ accepted = Document
    /\ opts.format # "summary" => written = Cardinality(Selected(Len(report)))
    /\ opts.format = "summary" => written = Len(report)

\* Once the sink has refused, it is called no more by anyone: not by the rest of
\* the call, nor by a later one, the diff's context being in error.
RefusedIsFinal ==
  [][err => accepted' = accepted /\ err']_vars

=============================================================================
