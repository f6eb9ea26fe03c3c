# Formal models of ibha-csvdiff

ibha-csvdiff compares two CSV tables cell by cell. One engine in C parses both
files into columnar indexes, matches rows by key, finds what moved, and hands the
report out through pull cursors; emitters write it as JSONL, CSV, HTML or a
summary. A command line tool, a WebAssembly build with a worker client and a view
model, and a Java binding sit on top of it. This directory holds TLA+ models of
the engine and of its two asynchronous users, the TLC configurations that check them on small instances, and
proofs for all instances checked by TLAPS.

    tlc -config MCParser.cfg MCParser        # any .cfg with its MC module
    tlapm DiffCursorProofs.tla               # any *Proofs module

## Inventory

| part | state | operations | what makes it correct |
|---|---|---|---|
| parser (`core/src/parse.c`) | bytes so far, machine state, field and row index, header and schema progress | `parse_begin`, `parse_chunk`, `parse_borrow`, `parse_finish` | reads one table whatever the chunks; unsigned offsets never wrap; finished rows never move; a row is digested exactly when it is data |
| schema (`schema.c`) | the schema of one file | header detection, resolution, header merge | the header found is the source's names; a lenient policy relaxes exactly what it says |
| column plan (`diff.c: plan_columns`) | pairs of compared columns, findings | one call per diff | name meets name, in both files' order, no key lost |
| sides (`diff.c: check_sides, project_side`, `normalize.c: ibha_compare_id`) | a stamp per table, the projected tables | one call per diff | digests are compared only when they mean the same thing |
| keyed matching (`match.c`) | two open addressing tables, the pairing | `key_map_build`, `match_keyed` | pairs exactly equal keys whatever digests collide; duplicates refused |
| all-keys matching (`match.c`) | consumed rows, candidate index, work budget | `all_keys_exact`, `all_keys_similar` | multiplicities kept; best candidate; bounded work |
| move detection (`match.c`) | ranks, piles, links | `detect_moves` | a smallest set of moves; distances free of drift |
| diff and cursors (`diff.c`) | bucketed deletions threaded in place, counts, cursors, shared cell counters | `diff_run`, `cursor_open`, `next`, `reset` | every row once, in the documented order, per cursor |
| emitters (`emit.c`) | output buffer, error flag, rows written | `ibha_csvd_emit` | a prefix of the document, complete on OK; a summary counts one pass |
| context (`ctx.c`) | sticky status, first message | every entry point | the first error wins and ends everything |
| values (`normalize.c`, `hash.c`) | none | canonical forms, comparators, digests | digest and comparator agree; a number is a number however written |
| findings (`validate.c`) | counters | a check of each target cell | a finding says of a cell what its text is |
| segments (`segment.c`) | the caller's buffer | the script of one cell, for its size and for itself | both values covered, no character cut, as few edits as can be |
| memory and input (`arena.c`, `ingest.c`, `reader.c`, `sys_*.c`) | arena blocks, read buffers | allocate, read to the end | |
| CLI (`core/cli/main.c`) | none | one sequential run | exit codes |
| worker binding (`js/packages/core`) | push sources, pending requests, index, drain generator | message handlers, pumps, abort, dispose | a reply answers its request; no stall; no leak |
| view (`js/packages/view`, `react`) | pages, in-flight requests, current source | `start`, `setSource`, page loads | no stale reply is installed |
| Java (`java/src/main`) | native handles, direct buffers | JNI calls, row feeds, `close` | nothing native is used after `close` |

How they interact: the parser calls the schema code at row ends; a target is
parsed against the source's table and schema, which must therefore be complete;
`diff_run` plans columns, matches, threads deletions and counts; cursors only
read the result, but add to counters that all cursors of one diff share;
`ibha_csvd_emit` opens a cursor of its own and calls back into the host's sink,
from which the host may advance other cursors. All of it shares one context,
whose first error is final.

The engine has no threads. What is hard in it is resumption (bytes cut anywhere,
cursors interleaved anywhere, errors between any two steps), state shared behind
an interface that looks private (counters, status), arrays reused in place, and
invariants of index arithmetic. In the bindings it is asynchrony. PROJECT.json's
`hazards` lists the places line by line.

## Modules

| module | models | composition |
|---|---|---|
| `RowTables` | row numbers and the size of a table of rows | shared by the matchers |
| `KeyedMatch` | `key_map_build` and `match_keyed`, one action per turn of a probe loop | extends `RowTables` |
| `AllKeys` | `match_all_keys`: pairing by digest, the index of signatures, similarity with its budget | extends `RowTables` |
| `MoveDetect` | `detect_moves`, one action per turn of its five loops | extends `RowTables` |
| `RowMatch` | `ibha_match`: one of the two matchers, then moves on what it paired | extends `KeyedMatch`, `AllKeys` and `MoveDetect` by `INSTANCE` |
| `RowMatchProofs` | theorems about pairing by key, by digest and by likeness, and about the moves | extends `RowMatch`, `Induction` |
| `Report` | what a cursor promises: a set of rows, a total order, each cursor given the least row left | abstract |
| `DiffCursor` | `anchor_deletions`' two loops, the counts, `open`, `next`, `reset` of several cursors | `Report` by `INSTANCE` with a refinement mapping |
| `DiffCursorProofs` | its theorems, the refinement among them | extends `DiffCursor`, `Induction` |
| `CsvGrammar` | the dialect as a chunk-free, stateless reading of a whole file | reference definition |
| `Parser` | `parse.c`: calls, turns of `run`, `row_end`, `finish_record`, the schema call-outs under the strict policy | |
| `ParserReads` | the parser against the grammar, and what detection must find | extends `Parser`, `CsvGrammar` by `INSTANCE` |
| `ParserProofs` | theorems about both | extends `ParserReads`, `Induction` |
| `ColumnPlan` | `match_names`, inheritance in `ibha_schema_resolve`, `plan_columns` | |
| `Sides` | a diff under options of its own: `ibha_compare_id`, `project_side`, `build_compare_schema`, `check_sides` | extends `ColumnPlan` |
| `ColumnPlanProofs` | theorems about both | extends `Sides`, `Induction` |
| `Values` | the walks of a field, the canonical forms, `ibha_normalize`, `ibha_hash_row` | pure |
| `Findings` | `ibha_validate_plan` and the checks of a cell | extends `Values` |
| `Segments` | `ibha_csvd_cell_segments`: common ends, Myers' rounds, the walk, refinement | pure |
| `CellDiff` | one pair of rows from its digests to its segments | extends `Findings`, `Segments` |
| `CellDiffProofs` | theorems about the walks, the numbers, the digests, the report, the findings and the segments of a row | extends `CellDiff`, `Induction` |
| `Emit` | `ibha_csvd_emit`, `emit_w`, the sink and a host with a cursor of its own | |
| `EmitProofs` | its theorems | extends `Emit`, `Induction` |
| `WorkerTransfer` | `compareInWorker` with its pumps and requests, the worker's handlers of open, chunk, end, fail and ready, `PushSource`, the comparison's reads | main thread, worker and two channels |
| `WorkerTransferProofs` | its theorems | extends `WorkerTransfer`, `Induction` |
| `ViewModel` | `DiffViewModel` over worker sources that are replaced, and the worker's one index | page, worker and two channels |
| `Induction` | induction over natural numbers, recursion, sums over finite sets, intervals and sequences of any set, as facts about sets | used by the proofs |

Each `MC` module extends the module it checks and gives its constants values.
Operators named in a comment as mutants are the code with one plausible mistake;
PROJECT.json's `mutants` pairs each property with one that breaks it.

### How state and actions correspond to the code

*RowMatch.* `keyed` is whether the source schema has a KEY column and decides which
matcher runs. Each has the maps it fills, and `PairedT`, `PairedS` are the ones
`detect_moves` reads. `DetectMoves` may start only once the matcher is done.

*KeyedMatch.* `slot`, `row`, `idx` are the table, the loop variable and the probe
position; `key` and `hash` are the input, a digest being a function of the key
(equal keys have equal digests, unequal ones may). An action is a turn of the
loop: hash the row (`BeginRow`), step over a slot (`ProbeOn`), place it (`Place`),
or end the row.

*DiffCursor.* `delNext` first carries anchors, then links, as in the code; memory
the arena has not initialised is `Junk`, so reading it would show. `PullDeleted`,
`PullTarget` and `PullEnd` are the three returns of `ibha_csvd_cursor_next`.
`changes[t]` is `Alike` where the two rows have one digest, which is what decides the
kind of a row, and else how many of its cells a comparison finds changed, none
included. `cells` is `cells_changed`; `cells_suppressed` accumulates at the same place
and is left out, as are the counters of findings, which also take in added and deleted
rows, and the count of moved rows. `given` is a history variable. The pairing is any
partial injection: what the matchers return, checked separately. `FailContext` is any
other call of the context that fails; `Report` has the context's `status` too, so that no
cursor may be given a row, or come to the end, after a failure.

*Parser.* A byte is its class, with the three bytes of a mark kept apart. `Goto`,
`Closes0` and the rest are the table `k_trans`, `CloseField` and `CloseRow` the
turns that store a field or end a row. The fast skip loops of `run` are turns of
`Consume`. `RowEnd` is the whole of `row_end`: raggedness, limits, the sentinel,
detection, resolution and digesting in that order. `Settle` is the tail of
`parse_finish`.

*ColumnPlan.* `match_names` is run once and its map kept, since its result depends
on nothing but headers and policy. `Inherit` keeps the code's condition for making
a map at all.

*Sides.* `opts` are the options of the three calls (`ibha_csvd_parse` of each file,
`ibha_csvd_diff_run`), which nothing makes agree. A side is what was folded into its
digests together with its stamp, kept apart, so that one can be renewed without the
other. The comparison settings but the column policy are one value. `DiffRun` is
`plan_columns` and `check_sides` in the code's order and with every refusal.

*CellDiff, Values, Findings, Segments.* A cell is the text somebody wrote and whether
it was written quoted; `Field` is the range of bytes the parser leaves for it, and
from there on the operators follow the code on bytes. A digest is the term that built
it, so it never collides, and differs when the same bytes are folded another way.
Recursive loops are recursive functions. `HashRows`, `EmitRow`, `Size`, `Fill` are
the four calls in which the engine looks at cells. What the properties compare with
(numbers as digits at powers of ten, the least number of edits as the longest common
subsequence) is said without the algorithms.

*ViewModel.* A report is known by its filter; a page is its number and the report it
came from. Requests and replies are two queues, as the worker answers in order.
`SetSource` drops the caches and does not call back what is under way. A caller makes a
source for every change of the filter, or keeps two and swaps them (`keeps`): a source
asks for its index once, and one that is swapped back answers from what it remembers
(`pending`). `Serve` reads whichever index the worker has.

*Emit.* A line is two pieces, a piece the bytes written in one go; the buffer holds
fewer pieces than a document. A sink may refuse any flush (`FlushOf`), and the host
may pull from its cursor inside one. An option the emitter refuses is `RefuseOptions`.

*AllKeys.* A cell is its normalized value, with an empty cell and a blank one kept
apart, because the index tests the raw length and the score the value. `Insert`,
`Reach` and `Met` are a whole probe, since every probe is followed to its end; what a
probe finds is the set of its steps at which it finds it, and the first of them the
least. `Given` says what is assumed of the files and options.
`IndexLeft` is the choice of the number of signature columns by the room there is;
`work` counts the cells compared, as `max_pair_work` does.

*MoveDetect.* `jt`, `tails`, `prev`, `lo`, `hi`, `k` are the code's arrays and indices.

*WorkerTransfer.* A JavaScript thread runs a task and every continuation it wakes
before it takes the next message: `MainIsIdle` and `WorkerIsIdle` guard the actions
that take one. `pump` is the place in `pump()` where a side awaits, `pending` the map
of requests, `writer` and `writerWaits` the write that has not returned and its
`wakeWriter`, `readerWaits` the engine's `wakeReader`. An error is a tuple naming
where it arose; `Copied` is what `WorkerClient` makes of one it sends, an `IO_ERROR`
with its message. A chunk is its number and its size. The model begins with the
worker spawned, both inputs opened and the `open` request sent; the parser and the
matchers behind `compare` are only their outcome. `Died` is the worker's `error`
event, which may overtake messages on their way.

## Runs

| run | instance | shows |
|---|---|---|
| `matching` | with a key: all pairs of files of up to 3 rows over 3 keys; digests that collide fully, by slot, or wrap; tables from 1 slot. Without: all files of up to 3 one-cell rows, 3 by 2 rows of three cells with small and large budgets, all partial pairings of 5 with 5 rows | rows pair exactly by key, the first duplicate is named; without a key equal rows pair one for one and the rest by the best candidate within budget; the rows kept are a longest increasing run; no loop runs for ever |
| `diff_cursor` | all pairings of up to 3 with up to 3 rows, each pair alike or with up to 1 changed cell, both placements, 2 cursors, 1 reset, a failure at any time | the cursors implement `Report`, the end at a failure included; lists sound at every step; counts final; cursors drain |
| `parser` | all files of up to 6 bytes over 6 classes, pieces of up to 2 bytes and of the mark, or lent whole, limits of 2 rows, 2 columns, 5 bytes; and files of up to 8 bytes whose header has to be found within 2 rows | the table, the errors and the stability of rows; detection is exact; every call returns |
| `column_plan` | all headers of up to 4 columns over 4 names (also repeated), all key sets and policies; 31 sets of options for the two parses and the diff | the merge is exact, the plan pairs names, digests compared mean the same thing |
| `cell_values` | numerals of up to 4 characters against 7 numbers; 12 texts under every type and option; texts of up to 5 bytes with quotes; rows of two cells with any key; 16 doubtful cells under 72 declarations; words and two-byte characters under the three modes | a number is one however written, digests agree with cells, findings are true, segments cover both values with the fewest edits |
| `emit` | reports of up to 3 rows of 5 shapes, 4 formats, limits 0 to 2, 2 emits, a refusal at any flush | output is a prefix, OK is complete, a refusal is final |
| `worker_transfer` | files of up to 3 chunks, each below or above a watermark of 2; inputs that fail, an abort, a failure to load, parse or compare, a crash, at any time | the buffer is bounded, only whole files are compared, the caller gets a root cause and no consequence of one, everyone returns |
| `parser_name_row` | files whose header has to be found, name row 1 in the layout | a finding, below |
| `column_inherit` | headers of up to 3 columns | a finding, below |
| `hash_chunk` | the texts with quotes, a chunk of 3 bytes | a finding, below |
| `precision` | the doubtful cells | a finding, below |
| `view_stale` | reports of 1 and 3 pages, caches of 2 and 1, 3 requests under way, sources made anew or kept | a finding, below |

Why the bounds are enough: each is chosen so that every branch of the code is
taken with neighbours on both sides. Three rows give a probe of length three that
wraps; three source and target rows give a bucket with two deletions between two
paired rows and a crossing pair; the five bytes pushed in pieces hold a quoted field
with an escape and its line end, a CRLF cut in the middle between two rows, and the mark
with a row after it, the six of a file lent whole one byte more; the
scan limit of the header is 2 instead of 8, and the row under it and over it are
both reachable in eight bytes; four columns hold an insertion, a removal and a move
at once; five rows have increasing runs that the greedy choice misses; two target
rows compete for three source rows of three cells with one candidate or all of them,
and a budget of 9 cells ends in the middle of a row; a scratch of 5 bytes, a chunk of
3 and 3 edits (48, 4096 and 64 in the code) are each met exactly, passed
by one and missed by one; three pieces
of buffer are filled in the middle of a line; three chunks on either side of a
watermark of 2 make a write wait behind one that does not, wake while there is still
no room, and be failed while it waits. `MaxChunks`, `MaxResets`, `MaxEmits`, `maxData`
and `MaxAsked` bound only histories.

Deadlock checking is off in every run: an engine whose caller stops calling, a
matcher that has answered and a context in error all stop rightly.

### Fairness

Only steps inside a call are fair: a turn of a loop happens once the call was made
(the C code runs to completion). A caller is not assumed to call: chunks, emits,
resets, opening a cursor and failures are never fair. `DiffCursor` also assumes of
a consumer with an open cursor that it keeps pulling, which is what "drain" means;
`Drains` then says that draining ends. `matching` runs one call to its end. `WorkerTransfer` assumes of the two threads
that they run their next task, of the module that it loads or fails to, and of an
input that a read from it is answered; nobody has to abort and nothing has to crash.

### Findings

* `parser_name_row`. With `HEADER_AUTO`, the row that was detected is the last
  header row, but `ibha_schema_resolve` prefers `opts.header.name_row` (4 by
  default) whenever it lies within the detected height. A target whose names stand
  in rows 5 to 8 is then checked against row 4 and refused, although `schema.c`
  promises "a definite answer or a definite error" within eight rows. Confirmed by
  compiling the library and parsing such a file.
* `column_inherit`. The comment in `ibha_schema_resolve` says that a lenient policy
  inherits "by *name*". The map is made only when the numbers of columns differ;
  with one column dropped and one added the flags, the KEY flag included, land on
  the column in the same place. The diff re-derives the schema of the columns in
  common from the source and folds both sides anew, so the effect is confined to the
  target's own schema and the digests folded under it: `DigestsMeanTheDiff` holds.
  Confirmed by compiling the library.
* `hash_chunk`. A cell whose logical value is exactly 4096 bytes gets one digest when
  its range holds a doubled quote and another when it holds none: the escaped path of
  `ibha_field_hash_raw` folds as soon as its window is full, the plain path only what
  is longer. Two equal cells then make their row modified with no changed cell, which
  `normalize.c` calls "self contradictory output". Everywhere else the digests agree
  (`DigestsAgreeOffTheBoundary`).
* `precision`. `digit_counts` counts the zero a canonical number has before its point,
  so under `DECIMAL(2,2)` the value 0.25 is reported as too precise, although
  `validate.c` states "SQL's rule". Wherever a column declares no precision, or one that
  leaves a digit before the point, findings are true (`FindingsTrueWithIntegerPart`).
* `view_stale`. A row count or a page asked of a source that `setSource` has replaced is
  installed when it arrives; `viewModel.ts` promises that "every cache is dropped" and
  that "the virtualizer only ever sees the filtered count". In the run's trace a caller
  goes to the other filter and back before the answers arrive, and is left ready with
  the other report's row count. With a new source for each filter TLC finds a page of the
  one report kept under the count of the other.

Smaller differences met while modelling, which the models follow and no run is about:
`check_cell` does not trim the padding of a CHAR cell when trimming is off; a numeral
too long to render (48 significant digits, or an exponent past 100000) is reported as
not numeric; the cuts of `ibha_csvd_cell_segments` at word ends look only at the first
value's bytes where both go on, so in WORD mode a word of the second can be cut
("ab c" and "abc"); `ibha_csvdiff.h` says cells "at or above" the cap are not refined,
the code means above; probing past rows already taken is not charged to
`max_pair_work`; a blank cell is not an empty one to the index of signatures, which
tests the raw length; a strict diff compares by place, names being checked only when
the target is parsed.

## Proofs

Proved for every value of the constants (`tlapm`, no leaf left open), from the
`ASSUME`s of the modules alone. These say: a table with room for 2n + 1 rows exists
(`MatchAssumption`, and `UnkeyedAssumption` for the rows and the index of
signatures, for which the code bounds the entries first); digests are natural
numbers, and so are signatures, of which nothing else is assumed, so that any two may
collide; bounds on sizes and the options are natural numbers, and the high water mark
and the sizes of chunks are not zero; there are finitely many cursors. The library holds
no induction theorem these provers can use, since those take an operator as a parameter;
`Induction` states what is needed over sets instead: a set of natural numbers has a
least element, a bounded one a greatest, one that holds zero and with each number the
next holds all up to n, one that holds a number whenever it holds all greater ones up to
n the same, and a function given by its first value and its step exists and is the only
one, as does one whose value at a position is given by its value at one further on.
With that the sums and documents that `Emit` defines by recursion can be reasoned about,
and so can the grammar of `CsvGrammar` and the loops of `Values`, which are recursive
functions over the positions of a file or of a value: a file or a value is not taken
apart, its positions are counted. Sums over finite sets, which the community modules' folds take in an order of
their own, are treated the same way: there is exactly one such sum, it depends on
the summands alone, and any summand may be taken out first (`SumsExist`, `SumsAgree`,
`SumsStep`).

* `RowMatchProofs`, of `KeyedMatch`: `TypeCorrect`, `PairingCorrect`, `DuplicatesCorrect`,
  `TablesCorrect`. The invariant is `TypeOK` with `MatchInv`: every placed row is
  reachable from its home slot through occupied slots (`Reachable`), what the probe
  in hand has passed is ruled out (`RuledOut`), and the pairs so far are key equality on
  the rows walked. Without `RuledOut` an empty slot would not mean that the key
  is absent.
* `RowMatchProofs`, of `RowMatch`: `PilesCorrect`, `KeptRowsAreLongest`, `DistancesAreShifts`,
  `PairedByDigest`, `BestCandidatesFound`, `WorkStaysBounded`, for `ibha_match` as a
  whole.
  `MatchedInv` says that the matcher which runs keeps its own invariant (`IInv` of
  the keyed one, `WholeType` of the other), that the two maps it leaves are inverse to
  each other, and that moves are looked for only once it has finished; from there
  `MovesInv` speaks of whatever pairing that was.
  Of the piles (`Piled`): with c[j] the length of the chain of links from row j, row j
  lies on pile c[j] - 1; the rows of one pile decrease, the tops of the piles
  increase, and a top is no greater than any row of its pile. `Sought` says what the
  binary search has excluded on both sides. That nothing longer can be kept is the
  pigeonhole principle: an increasing run takes at most one row of each pile, because
  a pile decreases, while the walk back keeps one row for each (`Unwound`). `Ranked`
  equates the counters of the two loops over ranks with numbers of pairs.
  Of the digests (`ExactInv`): the table files each source row where a probe for its
  digest meets it, the rows of one digest in file order along that probe (`Filed`,
  which needs that a vacant slot is always left, by pigeonhole again); hence the first
  row found that is not consumed is the one of the target row's rank, and the pairs made
  are those of equal digest and equal rank below the row at hand (`PairedUpTo`).
  Afterwards likeness finds only rows whose digests differ (`LikenessDiffers`).
  Of likeness (`LikeInv`): the index holds an entry for every signature of every row
  left over that the loop has passed and for no other row (`TableHolds`), each on its
  probe's path; a vacant slot is always left because the entries to come are counted
  ahead (`Indexing`), from the bound the code sets before it allocates. So what a row
  looks up is the rows not taken that share a signature with it, collisions included,
  and when `similarity_k` cuts none off the candidates are all of them. `Liked` keeps
  the account: each row walked either has the best of what was to be had at its turn
  (`BestOf`) or has none, the number of pairs is `similar`, and the work is the columns
  times the pairs of rows compared. That account stays true as the walk goes on because
  a later pair does not change what an earlier row had: a source row taken since counts
  as one that was to be had then.
* `DiffCursorProofs`: `TypeCorrect`, `ListsCorrect`, `CursorImplementsReport`. Types
  alone are not inductive here: that a cursor follows only links already written
  depends on which bucket each deletion is in. The invariant `TypeOK /\ ListsSound`
  says that the parked anchors are right as far as the forward loop got (`Parked`),
  that each bucket is its deletions in order as far as the backward loop got
  (`Threaded`), and that a cursor's bucket and link say exactly what it was given
  (`Positioned`). From it every pull is `Report`'s `Advance` of the least row left.
  `CountsCorrect`: a drained cursor was given the whole report, and its rows of each
  kind are as many as the indices counted, by a bijection of rows and indices.
  `CellsCorrect`: a pull changes the sum over all passes by the cells of the row that is
  given, which was not given before (`Summed`).
* `ColumnPlanProofs`: `TypeCorrect`, `PlanCorrect`, `PolicyCorrect` for `ColumnPlan`, the
  diff under the policy its target was parsed under; `SidesKeepThePlan` and
  `DigestsCorrect` for `Sides`, where each call has options of its own. The entries of
  the map behind the merge's place increase and carry equal names; entries ahead are
  unset (`MapSound`). That the merge refuses exactly what the policy forbids needs to
  know what it has passed: of a shared name neither side is passed without the other
  (`Seen`), and a column is passed over only under its flag (`PolicyKept`); once it has
  ended every name in common is matched or the headers are out of order. The
  digests of a diff that goes ahead are those of its own settings in three cases: both
  stamps match and nothing was folded anew, one side was projected, or both were
  (`SameMeaning`).
* `ParserProofs`: `ParserTypeOK`, `ParserIndexSound`, `ParserDigestsDataRows`,
  `ParserRowsStand`. An unsigned length is `pos - start`, or one less after a closing
  quote. `OpenField` therefore relates the two places to the state of the machine and to
  the field closed last, and has to be known only while there are bytes to come;
  `CellsInOrder` and `RowsAreFull` carry what was stored; `HeaderAhead` says that a
  header of known height is resolved before a row past it, so that no data row is left
  without a digest and no header row gets one. `ParserRowsStand` is an action property:
  no step changes a row that was finished.
  `ParserReadsGrammar` is that the machine, fed a byte at a time, is a reader of the grammar,
  which sees whole files and has no states. The machine does not know the rest of the file,
  so the invariant (`GrammarInv`) speaks of every file that goes on from the bytes received
  (`Possible`): whichever it will be, the rows finished are the grammar's so far and the
  machine stands inside one of its records, at a place that its state, the field in hand and
  the cells of the open row tell (`Midway`, by `At`). A turn of the machine moves that place
  by a byte, a field or a record. At the end only one file is possible (`Over`); an error
  is one that the bytes hold whatever follows them (`Failed`), and nothing is read while it
  is open whether the first bytes are a mark (`Waiting`). The grammar's side is lemmas on
  its recursive functions: the closing quote is the one after which the run of quotes is
  odd, a record is its first field and the record after the delimiter, the records are the
  first and those after it.
  `ParserHeaderFound` and `ParserHeaderFoundUnlessNamed`: while no header was found, no
  finished row among those scanned is the column names, and the one found is the first that
  is (`Detects`); a parse that ended well has found one (`Settled`). The first theorem has
  the hypothesis that the caller names no row the scan reaches, without which it is
  false (finding `parser_name_row`); the second has none and excepts the refusal
  by which the finding shows. Both use that the source's column names are a
  sequence (`HeaderAssumption`).
* `CellDiffProofs`: `CellWalksAgree`, `CellDigestsAgree`, `CellsExplained`, for texts, chunks
  and rows of any length and any columns, keys and options. A walk is followed from the
  last byte back. `Copies` says what the copying walk leaves from each position on, and it
  decides the others: the count is its length, the comparison of two ranges is the
  order of what is left of them (`OrderOfTails`, `OrderOfHeads`, `OrderOfEmpty`). The range
  the parser leaves for a text has one place for each of its bytes where the walks stop
  (`Stands`), since the flag is set exactly when a quote was doubled. Of the canonical
  forms only this is needed: whatever `ibha_normalize` answers is a range again, and the
  cell's own when it says that nothing changed (`NormalizeIs`), so that reusing its digest
  in the raw digest is right. Digests are terms; two are equal only when what they were
  made of is, down to the pieces of a folded value (`SamePieces`) and the cells of a row
  (`FoldCellsTell`). `DigestsAgreeOffTheBoundary` and `CellsExplainRow` leave out values
  of exactly one chunk because of finding `hash_chunk`. That a 128 bit digest is not
  a term, so that two rows may collide, is outside the model.
  `CellScriptCovers` follows the call that counts segments and the call that fills a buffer
  at once. `Together` says of their outputs that both were pushed one list of
  segments, which covers the two texts up to a place in each, and that each buffer holds the
  beginning of it, however often its last segment grew after the buffer was full. The
  place moves by every push (`PushEqual`, `PushDelete`, `PushInsert`): over the
  common prefix, an element of the middle at a time, over the common suffix, and so to both
  ends. That the walk gets from the one to the other is that the script does (`ScriptIs`):
  the rounds of Myers' algorithm leave snapshots (`Traced`) in which every furthest
  point was slid to from a neighbour in the round before (`RoundStep`); a point that overshot
  one text is no use, since the round before was as far (`NoUseX`, `NoUseY`), so that the
  round that first reaches both ends reaches them exactly, and going back through the
  snapshots passes only places within both texts. A script walked with or without
  refinement is followed op by op (`WalkTogether`, `RefineTogether`), where a script
  beyond `MaxEdits` is the plain replacement. No UTF-8 character is cut because a
  segment ends where an element, the prefix or the part before the suffix does, and none of
  these ends inside one when the texts are UTF-8 (`TokensPieces`, `PrefixIs`, `SuffixIs`).
  `MaxEdits` is assumed a natural number (`SegmentsAssumption`).
  `CellNumbersAgree` says that two numerals have one canonical form exactly when they are
  one number. A numeral stands for a sign, the digits from the first significant one
  to the last, and the place of the point among them. `ibha_normalize` keeps these
  through the scratch buffer, the exponent and the dropped zeros, and renders them; the
  plain decimal form, by which two numbers are the same, is determined by them and
  determines them, and so is the rendering. A numeral it declines is left as written and so
  differs from every rendered one.
  `CellFindingsTrue` says of each finding of `check_cell` that the cell breaks the
  declaration, and of each cell that breaks one that it is found, where a column of type
  DECIMAL declares no precision or leaves a place before the point
  (`LeavesPlace`). The range checked, with its trimming and quoting, stands for the text a
  reader sees (`TrimmedStands`); the characters counted over it are those of the text
  (`CharCountIs`); the digits counted before and after the point are the highest and the
  lowest power of ten of the number (`CountsTell`, `PrecisionTells`).
  `ValuesAssumption` asks a scratch of at least one byte, which the zero takes,
  a chunk of at least one byte, and that the marker of a declined numeral is no text and no
  power of ten.
* `EmitProofs`: `EmitOutputIsPrefix`, `EmitOkIsComplete`, `EmitRefusedIsFinal`. What the
  sink took, what the buffer holds and what is left of the line at hand make up, until the
  sink refuses, exactly the lines up to the cursor (`Draining`, `InRows`, `Closing`,
  `Flushing`). The row limit stops at the right row because the rows written are as many
  as the rows kept so far, a cardinality the proof follows row by row.
* `WorkerTransferProofs`: `WorkerTransferTypeOK`, `WorkerWholeFiles`,
  `WorkerCauseReported`, `WorkerBounded`. The invariant has fourteen parts and follows the requests: while
  nothing has failed, one is either on its way, held by the worker or answered
  (`OnTheirWay`, `Held`, `Replied`), each is awaited by whoever sent it (`Requests`), and a
  message says where its sender stands (`MessagesFit`, `RepliesFit`). So no chunk is
  lost or passed (`NothingLost`, `InOrder`), an end is accepted only after all of them
  (`Ends`), and the copy of a failure that comes back by way of the comparison comes after
  the acknowledgement that lets its cause speak first (`Causes`, `Breaks`, `Outcomes`).
  `Bounded` needs in addition (`Room`) that a side at the watermark holds a write back
  (`FullWaits`): that write is the one request its pump waits for, so no other chunk of
  the side is on its way, and a chunk that arrives finds room.

In `Parser`, `Goto` is a `CASE` whose guards exclude each other: the table has one entry
for a state and a byte, and a `CASE` of overlapping guards has no definite value, which the
proof showed and a run of TLC, which takes the first, does not.

Checked by TLC only: every liveness property (`Returns`, `Drains`, `Settles`), which
needs `ENABLED`; and of `CellDiff`, `ScriptShortest`, that no shorter script exists than
Myers' algorithm finds: what is proved of it for `ScriptCovers` is that each furthest point
it keeps can be reached, not that nothing reaches further. `ScriptShortest` is stated of
texts that are UTF-8: of bytes that are not, the cut of the common prefix may fall inside
what `tokenize` takes for one element of the whole text, and the script found may then be
longer than the shortest one (TLC shows it for a lead byte followed by a letter against
the same byte followed by a continuation).

## Not modelled

Running out of memory; growth and pre-sizing of the index; tables past 2^30 rows,
where `pow2_at_least` clamps and the proofs' assumption of room fails; the arithmetic
of XXH3 (a digest is a term); DATE_VALUE comparison and the parsing of type rows;
escaping and layout of the emitters' documents; reading of KEY and REQUIRED rows
(their outcome is any set of columns); detection of a header under a lenient policy;
widths of 32 and 64 bits except that `Parser` shows that no offset or length is ever
negative and stays within the bytes. The arena, the readers and the platform layer
hold no state a property could be about once memory suffices. The command line and
the wasm binding call the engine in sequence and keep nothing between calls.

Of the worker binding, not: the opening of the inputs, walks by `rows()`, reports, and
disposal. Three things seen there while reading, which no run covers: an input that
cannot be opened after `spawn` leaves the worker running (`workerClient.ts:257`); the
generator behind `drain` is kept by the worker, so a walk of `rows()` that was abandoned
is resumed in its middle by the next one, and two walks share the rows (`worker.ts:173`);
a host that uses `PushSource` in process, without a worker, and whose comparison fails,
waits in `write` for ever, as nothing cancels the source. Of the view, not: sources in
memory, the cache of segments, the search for the next change, focus, the layout of
the virtual list, the React components. Of the Java binding, nothing: a row kept past
`close` reads memory that was released, whose outcome is outside the program.

## Plan

The models are complete as far as listed above, and every safety invariant of a run has
its theorem but for the one named there. What is left:

1. `ScriptShortest`: that the point a round keeps on a diagonal is the furthest any script
   with that many edits leads to, which with what is proved makes the script the shortest.
2. `DiffCursor` and `Emit` together: a document emitted while other cursors of the diff
   are pulled, with the counts of `DiffCursor` in the summary. Each is proved by itself.
