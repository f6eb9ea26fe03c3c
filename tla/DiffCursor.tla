----------------------------- MODULE DiffCursor -----------------------------
(***************************************************************************)
(* core/src/diff.c from the moment the pairing is known: the two loops of  *)
(* anchor_deletions, the row counts that end ibha_csvd_diff_run, and the   *)
(* pull cursors (open, next, reset) that walk the buckets lazily.          *)
(*                                                                         *)
(* Bucket b holds the deletions that go in front of target row b, bucket   *)
(* nTgt those that go last.  The buckets are singly linked lists threaded  *)
(* through delNext, which first carries the anchors: the backward loop     *)
(* reads an entry before it overwrites it.                                 *)
(*                                                                         *)
(* A report row's moved flag, suppressed cells and findings are payload    *)
(* that depends on the row alone, as its changed cells do, and are left    *)
(* out.  Of the counters that accumulate as cursors advance, "cells" is    *)
(* cells_changed; cells_suppressed accumulates at the same place, the      *)
(* counters of findings also on added and on deleted rows.  The count of   *)
(* moved rows, final with the other row counts, is left out too.           *)
(***************************************************************************)
EXTENDS Integers, FiniteSets, FiniteSetsExt

CONSTANTS
  Cursors,    (* the cursors a caller may have open at once                *)
  MaxSrc,     (* bound: data rows of the source                            *)
  MaxTgt,     (* bound: data rows of the target                            *)
  MaxCells,   (* bound: changed cells of one row                           *)
  MaxResets   (* bound: how often cursors are reset, all together          *)

ASSUME FinitelyManyCursors == IsFiniteSet(Cursors)
ASSUME CursorAssumption == {MaxSrc, MaxTgt, MaxCells, MaxResets} \subseteq Nat

VARIABLES
  nSrc, nTgt, s2t, t2s, changes, atEnd,  (* as in Report                   *)
  phase,    (* "anchor" and "thread" are the loops, then "ready"           *)
  si,       (* the loops' source row                                       *)
  last,     (* the bucket the next deletion goes to                        *)
  delHead,  (* delHead[b]: the first deletion of bucket b                  *)
  delNext,  (* delNext[s]: the deletion after s in its bucket              *)
  counts,   (* the row counts, final when the run returns                  *)
  status,   (* the context's sticky status                                 *)
  cur,      (* cur[c]: the state of each cursor                            *)
  given,    (* history: the rows c was given since it opened or reset      *)
  cells,    (* stats.cells_changed: shared by every cursor of the diff     *)
  resets    (* bound: resets so far                                        *)

script == <<nSrc, nTgt, s2t, t2s, changes, atEnd>>
lists == <<phase, si, last, delHead, delNext, counts>>
cursors == <<cur, given, cells, resets>>
vars == <<nSrc, nTgt, s2t, t2s, changes, atEnd, phase, si, last, delHead,
          delNext, counts, status, cur, given, cells, resets>>

\* Memory of the arena that nothing has written yet.
Junk == -2

Closed == [open |-> FALSE, bucket |-> 0, del |-> Junk, done |-> FALSE,
           live |-> FALSE, row |-> [kind |-> "none"]]

\* What a cursor has open is what Report calls opened, and cursor_row returns
\* the row buffer only while a row is live.
R == INSTANCE Report WITH
  opened <- {c \in Cursors : cur[c].open},
  shown  <- [c \in Cursors |-> IF cur[c].live THEN cur[c].row ELSE [kind |-> "none"]]

NoRow == R!NoRow
Alike == R!Alike
SrcRows == R!SrcRows
TgtRows == R!TgtRows
Buckets == 0 .. nTgt

-----------------------------------------------------------------------------

Init ==
  /\ nSrc \in 0 .. MaxSrc /\ nTgt \in 0 .. MaxTgt
  /\ s2t \in [SrcRows -> TgtRows \cup {NoRow}]
  /\ \A a, b \in SrcRows : s2t[a] = s2t[b] /\ s2t[a] # NoRow => a = b
  /\ t2s = [t \in TgtRows |->
              IF \E s \in SrcRows : s2t[s] = t
              THEN CHOOSE s \in SrcRows : s2t[s] = t ELSE NoRow]
  /\ changes \in [TgtRows -> 0 .. MaxCells \cup {Alike}]
  /\ \A t \in TgtRows : t2s[t] = NoRow => changes[t] = Alike
  /\ atEnd \in BOOLEAN
  /\ phase = "anchor"
  /\ si = 0
  /\ last = IF atEnd THEN nTgt ELSE 0
  /\ delHead = [b \in Buckets |-> NoRow]
  /\ delNext = [s \in SrcRows |-> Junk]
  /\ counts = [report |-> 0]
  /\ status = "ok"
  /\ cur = [c \in Cursors |-> Closed]
  /\ given = [c \in Cursors |-> {}]
  /\ cells = 0
  /\ resets = 0

\* Mutant: the placement at the end is forgotten once a row is paired.
PassPairedAlways ==
  /\ phase = "anchor" /\ si < nSrc
  /\ s2t[si] # NoRow
  /\ last' = s2t[si] + 1
  /\ si' = si + 1
  /\ UNCHANGED <<script, phase, delHead, delNext, counts, status, cursors>>

\* Forward loop, a row that has a target: later deletions follow that target.
PassPaired ==
  /\ phase = "anchor" /\ si < nSrc
  /\ s2t[si] # NoRow
  /\ last' = IF atEnd THEN last ELSE s2t[si] + 1
  /\ si' = si + 1
  /\ UNCHANGED <<script, phase, delHead, delNext, counts, status, cursors>>

\* Forward loop, a deleted row: its bucket is parked in delNext.
ParkDeleted ==
  /\ phase = "anchor" /\ si < nSrc
  /\ s2t[si] = NoRow
  /\ delNext' = [delNext EXCEPT ![si] = last]
  /\ si' = si + 1
  /\ UNCHANGED <<script, phase, last, delHead, counts, status, cursors>>

EndAnchor ==
  /\ phase = "anchor" /\ si = nSrc
  /\ phase' = "thread"
  /\ UNCHANGED <<script, si, last, delHead, delNext, counts, status, cursors>>

\* Mutant: the head of the bucket is moved before it is linked to.
ThreadSwapped ==
  /\ phase = "thread" /\ si > 0
  /\ si' = si - 1
  /\ IF s2t[si - 1] # NoRow
     THEN UNCHANGED <<delHead, delNext>>
     ELSE LET bucket == delNext[si - 1]
          IN  /\ delHead' = [delHead EXCEPT ![bucket] = si - 1]
              /\ delNext' = [delNext EXCEPT ![si - 1] = si - 1]
  /\ UNCHANGED <<script, phase, last, counts, status, cursors>>

\* Backward loop, from the last source row to the first: a deleted row becomes
\* the head of its bucket; a paired row is skipped.
Thread ==
  /\ phase = "thread" /\ si > 0
  /\ si' = si - 1
  /\ IF s2t[si - 1] # NoRow
     THEN UNCHANGED <<delHead, delNext>>
     ELSE LET bucket == delNext[si - 1]
          IN  /\ delNext' = [delNext EXCEPT ![si - 1] = delHead[bucket]]
              /\ delHead' = [delHead EXCEPT ![bucket] = si - 1]
  /\ UNCHANGED <<script, phase, last, counts, status, cursors>>

\* Mutant: a source row that shares its index with an unpaired target row is
\* taken for a deleted one.
EndRunWrongSide ==
  /\ phase = "thread" /\ si = 0
  /\ phase' = "ready"
  /\ LET deleted == Cardinality({t \in TgtRows : t2s[t] = NoRow})
         ofKind(k) == Cardinality({t \in TgtRows : R!Kind(t) = k})
     IN  counts' = [unchanged |-> ofKind("unchanged"), added |-> ofKind("added"),
                    modified |-> ofKind("modified"), deleted |-> deleted,
                    report |-> nTgt + deleted]
  /\ UNCHANGED <<script, si, last, delHead, delNext, status, cursors>>

\* ibha_csvd_diff_run counts the rows of each kind and returns the diff.
EndRun ==
  /\ phase = "thread" /\ si = 0
  /\ phase' = "ready"
  /\ LET deleted == Cardinality({s \in SrcRows : s2t[s] = NoRow})
         ofKind(k) == Cardinality({t \in TgtRows : R!Kind(t) = k})
     IN  counts' = [unchanged |-> ofKind("unchanged"), added |-> ofKind("added"),
                    modified |-> ofKind("modified"), deleted |-> deleted,
                    report |-> nTgt + deleted]
  /\ UNCHANGED <<script, si, last, delHead, delNext, status, cursors>>

-----------------------------------------------------------------------------

\* Mutant: the list pointer is not rewound.
RewoundBucketOnly(c) ==
  [cur[c] EXCEPT !.bucket = 0, !.done = FALSE, !.live = FALSE]

\* ibha_csvd_cursor_reset
Rewound(c) ==
  [cur[c] EXCEPT !.bucket = 0, !.del = delHead[0], !.done = FALSE, !.live = FALSE]

\* ibha_csvd_cursor_open
Open(c) ==
  /\ phase = "ready" /\ status = "ok"
  /\ ~cur[c].open
  /\ cur' = [cur EXCEPT ![c] = [Rewound(c) EXCEPT !.open = TRUE]]
  /\ UNCHANGED <<script, lists, status, given, cells, resets>>

\* A caller rewinds a cursor; the status is not looked at.
Reset(c) ==
  /\ cur[c].open
  /\ resets < MaxResets
  /\ cur' = [cur EXCEPT ![c] = Rewound(c)]
  /\ given' = [given EXCEPT ![c] = {}]
  /\ resets' = resets + 1
  /\ UNCHANGED <<script, lists, status, cells>>

\* Mutant: the sticky status is not looked at.
PullsAnyway(c) ==
  /\ cur[c].open /\ ~cur[c].done

Pulls(c) ==
  /\ cur[c].open /\ status = "ok" /\ ~cur[c].done

\* ibha_csvd_cursor_next inside a bucket: the next deletion (emit_deleted).
PullDeleted(c) ==
  /\ Pulls(c)
  /\ cur[c].del # NoRow
  /\ LET row == R!DeletedRow(cur[c].del)
     IN  /\ cur' = [cur EXCEPT ![c].del = delNext[cur[c].del],
                               ![c].live = TRUE, ![c].row = row]
         /\ given' = [given EXCEPT ![c] = @ \cup {row}]
  /\ UNCHANGED <<script, lists, status, cells, resets>>

\* Mutant: the bucket just drained is entered again.
PullTargetSameBucket(c) ==
  /\ Pulls(c)
  /\ cur[c].del = NoRow
  /\ cur[c].bucket < nTgt
  /\ LET row == R!TargetRow(cur[c].bucket)
     IN  /\ cur' = [cur EXCEPT ![c].bucket = @ + 1,
                               ![c].del = delHead[cur[c].bucket],
                               ![c].live = TRUE, ![c].row = row]
         /\ given' = [given EXCEPT ![c] = @ \cup {row}]
         /\ cells' = cells + row.cells
  /\ UNCHANGED <<script, lists, status, resets>>

\* Mutant: the counter is overwritten by the row's.
PullTargetLastRow(c) ==
  /\ Pulls(c)
  /\ cur[c].del = NoRow
  /\ cur[c].bucket < nTgt
  /\ LET row == R!TargetRow(cur[c].bucket)
     IN  /\ cur' = [cur EXCEPT ![c].bucket = @ + 1,
                               ![c].del = delHead[cur[c].bucket + 1],
                               ![c].live = TRUE, ![c].row = row]
         /\ given' = [given EXCEPT ![c] = @ \cup {row}]
         /\ cells' = row.cells
  /\ UNCHANGED <<script, lists, status, resets>>

\* ibha_csvd_cursor_next past a bucket: the target row that follows it, and the
\* bucket after that one (emit_target, fill_cells).
PullTarget(c) ==
  /\ Pulls(c)
  /\ cur[c].del = NoRow
  /\ cur[c].bucket < nTgt
  /\ LET row == R!TargetRow(cur[c].bucket)
     IN  /\ cur' = [cur EXCEPT ![c].bucket = @ + 1,
                               ![c].del = delHead[cur[c].bucket + 1],
                               ![c].live = TRUE, ![c].row = row]
         /\ given' = [given EXCEPT ![c] = @ \cup {row}]
         /\ cells' = cells + row.cells
  /\ UNCHANGED <<script, lists, status, resets>>

\* ibha_csvd_cursor_next past the last bucket: the end of the report.
PullEnd(c) ==
  /\ Pulls(c)
  /\ cur[c].del = NoRow
  /\ cur[c].bucket = nTgt
  /\ cur' = [cur EXCEPT ![c].done = TRUE, ![c].live = FALSE]
  /\ UNCHANGED <<script, lists, status, given, cells, resets>>

\* Another entry point of the same context records an error: it is sticky.
FailContext ==
  /\ phase = "ready" /\ status = "ok"
  /\ status' = "error"
  /\ UNCHANGED <<script, lists, cursors>>

Run == PassPaired \/ ParkDeleted \/ EndAnchor \/ Thread \/ EndRun
Pull(c) == PullDeleted(c) \/ PullTarget(c) \/ PullEnd(c)

Next ==
  \/ Run
  \/ FailContext
  \/ \E c \in Cursors : Open(c) \/ Reset(c) \/ Pull(c)

\* The run is one call; a consumer that opened a cursor keeps pulling.
Fairness == WF_vars(Run) /\ \A c \in Cursors : WF_vars(Pull(c))

Spec == Init /\ [][Next]_vars /\ Fairness

-----------------------------------------------------------------------------

Row == [kind : {"added", "modified", "unchanged", "deleted"},
        source : SrcRows \cup {NoRow}, target : TgtRows \cup {NoRow}, cells : Nat]

InputType ==
  /\ nSrc \in 0 .. MaxSrc /\ nTgt \in 0 .. MaxTgt
  /\ R!Pairing
  /\ changes \in [TgtRows -> 0 .. MaxCells \cup {Alike}]
  /\ atEnd \in BOOLEAN

ListType ==
  /\ phase \in {"anchor", "thread", "ready"}
  /\ si \in 0 .. nSrc
  /\ last \in Buckets
  /\ delHead \in [Buckets -> SrcRows \cup {NoRow}]
  /\ delNext \in [SrcRows -> SrcRows \cup Buckets \cup {NoRow, Junk}]

CursorState ==
  [open : BOOLEAN, bucket : Buckets, del : SrcRows \cup {NoRow, Junk},
   done : BOOLEAN, live : BOOLEAN, row : Row \cup {Closed.row}]

CursorType(c) ==
  /\ cur[c] \in CursorState
  /\ cur[c].open => cur[c].del # Junk
  /\ cur[c].live => cur[c].row \in Row

\* Every index a list or a cursor holds is a row or NoRow: a cursor never
\* holds a link that anchor_deletions has not written.
TypeOK ==
  /\ InputType
  /\ ListType
  /\ status \in {"ok", "error"}
  /\ cur \in [Cursors -> CursorState]
  /\ \A c \in Cursors : CursorType(c)
  /\ given \in [Cursors -> SUBSET Row]
  /\ cells \in Nat
  /\ resets \in 0 .. MaxResets

\* Every cursor, whatever the others do, is given the rows the report promises
\* in the order it promises, and none once any call of the context has failed
\* (ctx.c:122): the cursors implement Report.
ImplementsReport == R!Spec

\* "report_rows: how many rows the cursor will yield in total" and the counts
\* by kind, computed before a cell is read, are those of a drained cursor.
CountsFinal ==
  \A c \in Cursors : cur[c].open /\ cur[c].done =>
    /\ Cardinality(given[c]) = counts.report
    /\ \A k \in {"added", "modified", "unchanged", "deleted"} :
         counts[k] = Cardinality({r \in given[c] : r.kind = k})

\* The changed cells of a set of report rows.
CellsOf(rows) == MapThenSumSet(LAMBDA r : r.cells, rows)

\* The shared counter is the sum over the passes: with no reset, over the
\* cursors; a reset never takes anything back.
CellsAccumulate ==
  LET passes == MapThenSumSet(LAMBDA c : CellsOf(given[c]), Cursors)
  IN  IF resets = 0 THEN cells = passes ELSE cells >= passes

\* A drained cursor comes to its end: no list has a cycle.
Drains ==
  \A c \in Cursors :
    cur[c].open ~> (cur[c].done \/ status = "error")

-----------------------------------------------------------------------------
(***************************************************************************)
(* Why the lists and the cursors keep the promise.                         *)
(***************************************************************************)

Deleted == R!Deleted
Anchor(s) == R!Anchor(s)

\* x is the first row of a set of rows, NoRow when the set is empty.
FirstOf(S, x) ==
  IF x = NoRow THEN S = {} ELSE x \in S /\ \A y \in S : x <= y

\* While the anchors are parked in delNext: they are right as far as the
\* forward loop got, and so is the bucket it carries along.
Parked ==
  /\ phase = "anchor" =>
       last = Anchor(si) /\ \A b \in Buckets : delHead[b] = NoRow
  /\ \A s \in Deleted :
       /\ phase = "anchor" /\ s < si => Anchor(s) \in Buckets /\ delNext[s] = Anchor(s)
       /\ phase = "thread" /\ s < si => delNext[s] = Anchor(s)
       /\ phase # "anchor" => Anchor(s) \in Buckets

\* As far as the backward loop got, each bucket is the list, in source order,
\* of its deletions: the overwritten anchors were no longer needed.
Threaded ==
  phase # "anchor" =>
    /\ \A b \in Buckets :
         FirstOf({s \in Deleted : s >= si /\ Anchor(s) = b}, delHead[b])
    /\ \A s \in Deleted :
         s >= si => FirstOf({u \in Deleted : u > s /\ Anchor(u) = Anchor(s)}, delNext[s])
    /\ phase = "ready" => si = 0

\* The rows of the report in front of bucket b's deletion d, or in front of
\* target row b when d is NoRow.
Passed(b, d) ==
  {R!TargetRow(t) : t \in {u \in TgtRows : u < b}} \cup
  {R!DeletedRow(s) : s \in {u \in Deleted :
     Anchor(u) < b \/ (Anchor(u) = b /\ (d = NoRow \/ u < d))}}

\* A cursor's bucket and list pointer say which rows it was given.
Positioned(c) ==
  IF ~cur[c].open
  THEN cur[c] = Closed /\ given[c] = {}
  ELSE /\ phase = "ready"
       /\ cur[c].del # NoRow => cur[c].del \in Deleted /\ Anchor(cur[c].del) = cur[c].bucket
       /\ cur[c].done => cur[c].bucket = nTgt /\ cur[c].del = NoRow /\ ~cur[c].live
       /\ given[c] = Passed(cur[c].bucket, cur[c].del)

\* At every step of the loops and of the cursors: the lists hold each deletion
\* once, in its bucket and in source order, although they are threaded through
\* the array that carries the anchors, and every cursor's place in them agrees
\* with what it was given.
ListsSound == Parked /\ Threaded /\ \A c \in Cursors : Positioned(c)

=============================================================================
