------------------------------ MODULE AllKeys ------------------------------
(***************************************************************************)
(* Row matching when no key is declared, match_all_keys of                 *)
(* core/src/match.c: rows with one full digest are paired one for one, and *)
(* the rows left over with the candidate that shares most cells, found     *)
(* through an index of a few cells of every row and given up when it costs *)
(* too much.  One action is one turn of one of its loops.                  *)
(*                                                                         *)
(* A cell is known by its normalized value; Blank is a cell of padding     *)
(* only, which is not empty in the file and empty once trimmed.            *)
(***************************************************************************)
EXTENDS RowTables, FiniteSets

CONSTANT SigHash(_, _)  \* the digest of a value mixed with its column

Empty == 0
Blank == 1

VARIABLES
  n,         \* n[side]: how many data rows the side has
  cells,     \* cells[side][r]: the cells of a row
  digest,    \* digest[side][r]: row_full_hash
  opts,      \* [columns, k, percent, maxWork] and sigColumns, maxEntries
  stage,     \* "exactIndex", "exactWalk", "leftOver", "sigIndex", "sigWalk", "paired"
  turn,      \* the loop's row: si or ti
  table,     \* the table probed: its entries, Vacant where there is none
  pairT,     \* d->t2s
  pairS,     \* d->s2t; consumed[si] is pairS[si] # NoRow
  width,     \* sig_cols
  work,      \* the cells compared
  truncated, \* stats.pairing_truncated
  similar    \* stats.paired_by_similarity

given == <<n, cells, digest, opts>>
pairs == <<pairT, pairS>>
costs == <<width, work, truncated, similar>>

Rows(side) == 0 .. n[side] - 1
Columns == 1 .. opts.columns

Value(x) == IF x = Blank THEN Empty ELSE x

-----------------------------------------------------------------------------
(* The table.  The one of stage 1 keeps rows only, whose digests are at    *)
(* hand; the candidate index keeps the signature too.                      *)

Vacant == [h |-> 0, row |-> NoRow]
NewTable(entries) == [p \in 0 .. Capacity(entries) - 1 |-> Vacant]

Slot(tab, h, i) == (h + i) % Cardinality(DOMAIN tab)

\* What a probe for h finds i steps from where it starts.
At(tab, h, i) == tab[Slot(tab, h, i)]

\* How far a probe for h goes before it meets a vacant slot.
Reach(tab, h) ==
  CHOOSE i \in DOMAIN tab :
    At(tab, h, i) = Vacant /\ \A j \in 0 .. i - 1 : At(tab, h, j) # Vacant

Insert(tab, h, r) == [tab EXCEPT ![Slot(tab, h, Reach(tab, h))] = [h |-> h, row |-> r]]

\* The steps of a probe for h, as far as it goes.
Met(tab, h) == {i \in DOMAIN tab : \A j \in 0 .. i : At(tab, h, j) # Vacant}

\* Mutant: a row that is taken is found again.
FoundAgain(h) == {i \in Met(table, h) : At(table, h, i).h = h}

\* The steps at which a probe for h finds a row not consumed under h.
Found(h) ==
  {i \in Met(table, h) : At(table, h, i).h = h /\ pairS[At(table, h, i).row] = NoRow}

-----------------------------------------------------------------------------
(* all_keys_exact                                                          *)

ExactIndex ==
  /\ stage = "exactIndex" /\ turn < n["source"]
  /\ table' = Insert(table, digest["source"][turn], turn)
  /\ turn' = turn + 1
  /\ UNCHANGED <<given, stage, pairs, costs>>

PairWith(s, t) ==
  /\ pairT' = [pairT EXCEPT ![t] = s]
  /\ pairS' = [pairS EXCEPT ![s] = t]

ExactWalk ==
  /\ stage = "exactWalk" /\ turn < n["target"]
  /\ LET h == digest["target"][turn]
     IN  IF Found(h) = {} THEN UNCHANGED pairs
         ELSE \E i \in Found(h) :
                (\A j \in Found(h) : i <= j) /\ PairWith(At(table, h, i).row, turn)
  /\ turn' = turn + 1
  /\ UNCHANGED <<given, stage, table, costs>>

\* One of the four loops over rows has run out of them.
EndLoop ==
  /\ \/ stage \in {"exactIndex", "sigIndex"} /\ turn = n["source"]
     \/ stage \in {"exactWalk", "sigWalk"} /\ turn = n["target"]
  /\ stage' = CASE stage = "exactIndex" -> "exactWalk"
                [] stage = "exactWalk"  -> "leftOver"
                [] stage = "sigIndex"   -> "sigWalk"
                [] stage = "sigWalk"    -> "paired"
  /\ turn' = 0
  /\ UNCHANGED <<given, table, pairs, costs>>

-----------------------------------------------------------------------------
(* all_keys_similar                                                        *)

Left == {s \in Rows("source") : pairS[s] = NoRow}

\* As many signature columns as there is room for, and one at least.
SigWidth ==
  CHOOSE w \in 1 .. opts.sigColumns :
    /\ w <= opts.columns
    /\ w = 1 \/ Cardinality(Left) * w <= opts.maxEntries
    /\ \A x \in w + 1 .. opts.sigColumns :
         x > opts.columns \/ Cardinality(Left) * x > opts.maxEntries

NothingLeft ==
  /\ stage = "leftOver"
  /\ Left = {} \/ opts.columns = 0
  /\ stage' = "paired"
  /\ UNCHANGED <<given, turn, table, pairs, costs>>

\* No column leaves room: the rows stay added and deleted, and a flag says so.
TooManyLeft ==
  /\ stage = "leftOver" /\ Left # {} /\ opts.columns > 0
  /\ Cardinality(Left) * SigWidth > opts.maxEntries
  /\ truncated' = TRUE
  /\ stage' = "paired"
  /\ UNCHANGED <<given, turn, table, pairs, width, work, similar>>

IndexLeft ==
  /\ stage = "leftOver" /\ Left # {} /\ opts.columns > 0
  /\ Cardinality(Left) * SigWidth <= opts.maxEntries
  /\ width' = SigWidth
  /\ table' = NewTable(Cardinality(Left) * SigWidth)
  /\ stage' = "sigIndex"
  /\ UNCHANGED <<given, turn, pairs, work, truncated, similar>>

\* The columns a row is indexed by, or looked up by: the first that are not empty.
Signed(r) ==
  {c \in Columns : r[c] # Empty /\ Cardinality({d \in 1 .. c - 1 : r[d] # Empty}) < width}

Sig(r, c) == SigHash(Value(r[c]), c)

Indexed(tab, r, s) ==
  LET upTo[c \in 0 .. opts.columns] ==
        IF c = 0 THEN tab
        ELSE IF c \in Signed(r) THEN Insert(upTo[c - 1], Sig(r, c), s) ELSE upTo[c - 1]
  IN  upTo[opts.columns]

SigIndex ==
  /\ stage = "sigIndex" /\ turn < n["source"]
  /\ table' = IF turn \in Left THEN Indexed(table, cells["source"][turn], turn) ELSE table
  /\ turn' = turn + 1
  /\ UNCHANGED <<given, stage, pairs, costs>>

\* Where a row finds others: under which of its columns, and how far along.
Looked(r) == UNION {{c} \X Found(Sig(r, c)) : c \in Signed(r)}

RowAt(r, p) == At(table, Sig(r, p[1]), p[2]).row

Earlier(q, p) == q[1] < p[1] \/ (q[1] = p[1] /\ q[2] < p[2])

\* The rows found before there are k; one found again is no other candidate.
FirstRows(r, looked) ==
  {RowAt(r, p) : p \in {p \in looked :
     Cardinality({RowAt(r, q) : q \in {q \in looked : Earlier(q, p)}}) < opts.k}}

Candidates(r) == FirstRows(r, Looked(r))

\* The percentage of cells two rows agree on, rounded down.
Score(s, t) ==
  (100 * Cardinality({c \in Columns : Value(cells["source"][s][c]) = Value(cells["target"][t][c])}))
    \div opts.columns

\* Mutant: the first candidate met keeps a tie.
BetterFirst(s, u, t) == Score(s, t) >= Score(u, t)

\* Ties go to the lowest source row.
Better(s, u, t) == Score(s, t) > Score(u, t) \/ (Score(s, t) = Score(u, t) /\ s <= u)

\* Mutant: a row without a pair costs nothing.
WorkIfPaired(cand, best, t) == IF pairT'[t] = NoRow THEN work ELSE work + Cardinality(cand) * opts.columns

\* Every candidate is charged for the comparison of all its cells.
Work(cand, best, t) == work + Cardinality(cand) * opts.columns

Considered(cand, t) ==
  \E best \in cand :
    /\ \A s \in cand : Better(best, s, t)
    /\ IF Score(best, t) >= opts.percent
       THEN PairWith(best, t) /\ similar' = similar + 1
       ELSE UNCHANGED <<pairs, similar>>
    /\ work' = Work(cand, best, t)

\* A target row left over takes its best candidate, if that is near enough.
SigWalk ==
  /\ stage = "sigWalk" /\ turn < n["target"]
  /\ pairT[turn] = NoRow /\ work <= opts.maxWork
  /\ LET cand == Candidates(cells["target"][turn])
     IN  IF cand = {} THEN UNCHANGED <<pairs, work, similar>> ELSE Considered(cand, turn)
  /\ turn' = turn + 1
  /\ UNCHANGED <<given, stage, table, width, truncated>>

SkipPaired ==
  /\ stage = "sigWalk" /\ turn < n["target"]
  /\ pairT[turn] # NoRow
  /\ turn' = turn + 1
  /\ UNCHANGED <<given, stage, table, pairs, costs>>

OutOfWork ==
  /\ stage = "sigWalk" /\ turn < n["target"]
  /\ pairT[turn] = NoRow /\ work > opts.maxWork
  /\ truncated' = TRUE
  /\ stage' = "paired"
  /\ UNCHANGED <<given, turn, table, pairs, width, work, similar>>

Next ==
  \/ ExactIndex \/ ExactWalk \/ EndLoop \/ NothingLeft \/ TooManyLeft \/ IndexLeft
  \/ SigIndex \/ SigWalk \/ SkipPaired \/ OutOfWork

Fresh ==
  /\ stage = "exactIndex" /\ turn = 0
  /\ table = NewTable(n["source"])
  /\ pairT = [t \in Rows("target") |-> NoRow]
  /\ pairS = [s \in Rows("source") |-> NoRow]
  /\ width = 0 /\ work = 0 /\ truncated = FALSE /\ similar = 0

-----------------------------------------------------------------------------
\* The rows of a side with one digest.
Alike(side, h) == {r \in Rows(side) : digest[side][r] = h}
Rank(side, r) == Cardinality({q \in Alike(side, digest[side][r]) : q < r})

Exact(s, t) ==
  /\ digest["source"][s] = digest["target"][t]
  /\ Rank("source", s) = Rank("target", t)

\* "Three identical rows on each side match three to three" (match.c:232): of the
\* rows with one digest the first of one file is paired with the first of the
\* other, the second with the second, and so on while both have one; whatever the
\* slots their digests fall in, and before any pair is made by likeness.
ExactByDigest ==
  /\ stage \notin {"exactIndex", "exactWalk"} =>
       \A s \in Rows("source"), t \in Rows("target") : Exact(s, t) => pairT[t] = s
  /\ \A s \in Rows("source"), t \in Rows("target") :
       /\ pairT[t] = s <=> pairS[s] = t
       /\ pairT[t] = s => Exact(s, t) \/ digest["source"][s] # digest["target"][t]

\* The target rows the walk over what is left has dealt with.
Walked ==
  {t \in Rows("target") :
     \/ stage = "sigWalk" /\ t < turn
     \/ stage = "paired" /\ width > 0 /\ (truncated => t < turn)}

ByLikeness(t) == pairT[t] # NoRow /\ ~Exact(pairT[t], t)

\* One of the cells the one is indexed by has the signature of one of the cells the
\* other is looked up by: the same value in the same column, or a collision.
ShareSignature(s, t) ==
  \E c \in Signed(cells["source"][s]), d \in Signed(cells["target"][t]) :
    Sig(cells["source"][s], c) = Sig(cells["target"][t], d)

\* What was still to be had when target row t had its turn.
Had(t) ==
  {s \in Rows("source") :
     /\ pairS[s] = NoRow \/ (pairS[s] >= t /\ ByLikeness(pairS[s]))
     /\ ShareSignature(s, t)}

Near(s, t) == Score(s, t) >= opts.percent

BestOf(had, t) ==
  IF \E s \in had : Near(s, t)
  THEN /\ pairT[t] \in had
       /\ \A u \in had :
            \/ Score(u, t) < Score(pairT[t], t)
            \/ Score(u, t) = Score(pairT[t], t) /\ pairT[t] <= u
  ELSE pairT[t] = NoRow

\* A pair made by likeness is near enough and shares a signature; when no
\* candidate is cut off by similarity_k it is the one a search of all rows would
\* have chosen (match.c:271): the best of those not yet taken, the lowest of the
\* best, so that the report does not depend on where the digests fell.
BestCandidates ==
  /\ \A t \in Rows("target") : ByLikeness(t) =>
       t \in Walked /\ Near(pairT[t], t) /\ ShareSignature(pairT[t], t)
  /\ similar = Cardinality({t \in Rows("target") : ByLikeness(t)})
  /\ opts.k >= n["source"] =>
       \A t \in Walked : (ByLikeness(t) \/ pairT[t] = NoRow) => BestOf(Had(t), t)

\* The rows compared cell by cell, when none is cut off by similarity_k.
Compared ==
  {p \in Rows("source") \X Walked :
     (ByLikeness(p[2]) \/ pairT[p[2]] = NoRow) /\ p[1] \in Had(p[2])}

\* Likeness compares no more cells than max_pair_work and one row's candidates
\* over it (match.c:330), and it is never cut short in silence: without the flag
\* every target row was dealt with, or there was no source row left for it, and
\* with it the budget is spent or the rows left over are too many to index.
WorkBounded ==
  /\ work <= opts.maxWork + opts.k * opts.columns
  /\ opts.k >= n["source"] =>
       opts.columns * Cardinality(Compared) <= opts.maxWork + opts.k * opts.columns
  /\ stage = "paired" /\ ~truncated =>
       Left = {} \/ opts.columns = 0 \/ Walked = Rows("target")
  /\ stage = "paired" /\ truncated =>
       work > opts.maxWork \/ Cardinality(Left) > opts.maxEntries

=============================================================================
