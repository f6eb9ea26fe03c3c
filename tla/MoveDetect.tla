----------------------------- MODULE MoveDetect -----------------------------
(***************************************************************************)
(* Move detection, detect_moves of core/src/match.c: how far each paired   *)
(* row shifted among the paired rows, and which rows to call moved, by a   *)
(* longest increasing subsequence found patience style.  One action is one *)
(* turn of one of its loops.                                               *)
(***************************************************************************)
EXTENDS RowTables, FiniteSets

VARIABLES
  n,       \* n[side]: how many data rows the side has
  t2s,     \* the source row a target row is paired with, or NoRow
  s2t,     \* the target row a source row is paired with, or NoRow
  detect,  \* opts.detect_moves, off too when the source has no order
  phase,   \* "idle", "rankSource", "rankTarget", "list", "search", "unwind", "done"
  at,      \* the loop's row: si, ti, or j in the list of paired rows
  rank,
  dist,    \* t_move_dist
  moved,   \* t_moved
  m, jt,   \* the paired target rows, in order
  len, tails, prev,
  lo, hi,  \* the binary search
  k        \* the walk back

input == <<n, t2s, s2t, detect>>
marks == <<dist, moved>>
list == <<m, jt>>
piles == <<len, tails, prev>>
vars == <<input, phase, at, rank, marks, list, piles, lo, hi, k>>

Rows == 0 .. n["target"] - 1
Sources == 0 .. n["source"] - 1
Paired == {t \in Rows : t2s[t] # NoRow}

\* What detect_moves finds: calloc'ed marks, and arrays nothing is in yet.
Fresh ==
  /\ phase = "idle" /\ at = 0 /\ rank = 0
  /\ dist = [t \in Rows |-> 0] /\ moved = [t \in Rows |-> FALSE]
  /\ m = 0 /\ jt = [j \in Rows |-> NoRow]
  /\ len = 0 /\ tails = [j \in Rows |-> NoRow] /\ prev = [j \in Rows |-> NoRow]
  /\ lo = 0 /\ hi = 0 /\ k = NoRow

\* The matchers have paired the rows; with no pair there is nothing to do.
Begin ==
  /\ phase = "idle"
  /\ phase' = IF Paired = {} THEN "done" ELSE "rankSource"
  /\ UNCHANGED <<input, at, rank, marks, list, piles, lo, hi, k>>

-----------------------------------------------------------------------------
\* The source pass subtracts the source's rank, the target pass adds its own.
RankSource ==
  /\ phase = "rankSource" /\ at < n["source"]
  /\ at' = at + 1
  /\ IF s2t[at] = NoRow THEN UNCHANGED <<rank, dist>>
     ELSE dist' = [dist EXCEPT ![s2t[at]] = -rank] /\ rank' = rank + 1
  /\ UNCHANGED <<input, phase, moved, list, piles, lo, hi, k>>

\* A mutant: raw row numbers, so a deletion shifts all that follows it.
RankTargetRaw ==
  /\ phase = "rankTarget" /\ at < n["target"]
  /\ at' = at + 1 /\ rank' = rank + 1
  /\ IF t2s[at] = NoRow THEN UNCHANGED dist
     ELSE dist' = [dist EXCEPT ![at] = @ + rank]
  /\ UNCHANGED <<input, phase, moved, list, piles, lo, hi, k>>

RankTarget ==
  /\ phase = "rankTarget" /\ at < n["target"]
  /\ at' = at + 1
  /\ IF t2s[at] = NoRow THEN UNCHANGED <<rank, dist>>
     ELSE dist' = [dist EXCEPT ![at] = @ + rank] /\ rank' = rank + 1
  /\ UNCHANGED <<input, phase, moved, list, piles, lo, hi, k>>

EndRank ==
  /\ \/ phase = "rankSource" /\ at = n["source"]
     \/ phase = "rankTarget" /\ at = n["target"]
  /\ phase' = IF phase = "rankSource" THEN "rankTarget" ELSE IF detect THEN "list" ELSE "done"
  /\ at' = 0 /\ rank' = 0
  /\ UNCHANGED <<input, marks, list, piles, lo, hi, k>>

\* Every paired row is called moved until it is found on the subsequence.
List ==
  /\ phase = "list" /\ at < n["target"]
  /\ at' = at + 1
  /\ IF t2s[at] = NoRow THEN UNCHANGED <<list, moved>>
     ELSE /\ jt' = [jt EXCEPT ![m] = at] /\ m' = m + 1
          /\ moved' = [moved EXCEPT ![at] = TRUE]
  /\ UNCHANGED <<input, phase, rank, dist, piles, lo, hi, k>>

EndList ==
  /\ phase = "list" /\ at = n["target"]
  /\ phase' = "search" /\ at' = 0 /\ lo' = 0 /\ hi' = len
  /\ UNCHANGED <<input, rank, marks, list, piles, k>>

Value(j) == t2s[jt[j]]

Mid == lo + (hi - lo) \div 2

\* Mutants: the search takes the wrong half; the middle is kept in the range.
HalveWrong ==
  /\ phase = "search" /\ at < m /\ lo < hi
  /\ IF Value(tails[Mid]) > Value(at) THEN lo' = Mid + 1 /\ UNCHANGED hi
     ELSE hi' = Mid /\ UNCHANGED lo
  /\ UNCHANGED <<input, phase, at, rank, marks, list, piles, k>>

HalveKeepsMid ==
  /\ phase = "search" /\ at < m /\ lo < hi
  /\ IF Value(tails[Mid]) < Value(at) THEN lo' = Mid /\ UNCHANGED hi
     ELSE hi' = Mid /\ UNCHANGED lo
  /\ UNCHANGED <<input, phase, at, rank, marks, list, piles, k>>

\* One halving of the search for the first pile whose tail is not smaller.
Halve ==
  /\ phase = "search" /\ at < m /\ lo < hi
  /\ IF Value(tails[Mid]) < Value(at) THEN lo' = Mid + 1 /\ UNCHANGED hi
     ELSE hi' = Mid /\ UNCHANGED lo
  /\ UNCHANGED <<input, phase, at, rank, marks, list, piles, k>>

Put ==
  /\ phase = "search" /\ at < m /\ lo = hi
  /\ prev' = [prev EXCEPT ![at] = IF lo = 0 THEN NoRow ELSE tails[lo - 1]]
  /\ tails' = [tails EXCEPT ![lo] = at]
  /\ len' = IF lo = len THEN len + 1 ELSE len
  /\ at' = at + 1 /\ lo' = 0 /\ hi' = len'
  /\ UNCHANGED <<input, phase, rank, marks, list, k>>

EndSearch ==
  /\ phase = "search" /\ at = m
  /\ phase' = "unwind" /\ k' = tails[len - 1]
  /\ UNCHANGED <<input, at, rank, marks, list, piles, lo, hi>>

Unwind ==
  /\ phase = "unwind"
  /\ moved' = [moved EXCEPT ![jt[k]] = FALSE]
  /\ IF prev[k] = NoRow THEN phase' = "done" /\ UNCHANGED k
     ELSE k' = prev[k] /\ UNCHANGED phase
  /\ UNCHANGED <<input, at, rank, dist, list, piles, lo, hi>>

Next ==
  \/ Begin \/ RankSource \/ RankTarget \/ EndRank \/ List \/ EndList
  \/ Halve \/ Put \/ EndSearch \/ Unwind

-----------------------------------------------------------------------------
\* The arrays hold what their indices stay within: every pile and every row on a
\* pile is one listed, and a row is linked to one before it.
Filled ==
  /\ len <= m /\ m <= Cardinality(Paired) /\ hi <= len /\ lo <= hi
  /\ \A j \in Rows : /\ j < m <=> jt[j] # NoRow
                     /\ j < len <=> tails[j] # NoRow
                     /\ tails[j] < m /\ prev[j] < j

\* How many rows the links lead through from row j of the list.
ChainFrom(j) ==
  LET chain[i \in Rows] == IF prev[i] = NoRow THEN 1 ELSE 1 + chain[prev[i]]
  IN  chain[j]

\* What the binary search and the walk back rely on (match.c:439): the tails
\* increase, every row is linked to a smaller row before it, and the chain from
\* pile p is p + 1 rows long.
PilesSound ==
  /\ Filled
  /\ \A p \in 1 .. len - 1 : Value(tails[p - 1]) < Value(tails[p])
  /\ \A p \in 0 .. len - 1 : ChainFrom(tails[p]) = p + 1
  /\ \A j \in Rows : prev[j] # NoRow => Value(prev[j]) < Value(j)

Increasing(S) == \A t, u \in S : t < u => t2s[t] < t2s[u]

Kept == {t \in Paired : ~moved[t]}

\* The rows not called moved are a longest run of paired rows in both files'
\* order: no smaller set of moves explains the two orders (ibha_csvdiff.h:667).
KeptIsLongest ==
  phase = "done" =>
    /\ \A t \in Rows : moved[t] => t \in Paired /\ detect
    /\ detect =>
         /\ Increasing(Kept)
         /\ \A S \in SUBSET Paired : Increasing(S) => Cardinality(S) <= Cardinality(Kept)

\* A row's distance is its shift in rank among the paired rows, so rows either
\* side of a deletion or an addition do not drift (match.c:404), and where nothing
\* is called moved no row has a distance.
DistanceIsRankShift ==
  phase = "done" =>
    /\ \A t \in Paired :
         dist[t] = Cardinality({u \in Paired : u < t})
                   - Cardinality({u \in Paired : t2s[u] < t2s[t]})
    /\ detect /\ (\A t \in Rows : ~moved[t]) => \A t \in Rows : dist[t] = 0

=============================================================================
