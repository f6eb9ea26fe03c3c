------------------------------ MODULE RowMatch ------------------------------
(***************************************************************************)
(* ibha_match of core/src/match.c: the rows are paired by key when the     *)
(* source schema declares one and as whole rows when it does not, and only *)
(* when that went well are moves looked for among the pairs.               *)
(*                                                                         *)
(* The two matchers exclude each other, so each has the maps it fills:     *)
(* t2s and s2t by key, pairT and pairS by whole rows.                      *)
(***************************************************************************)
EXTENDS KeyedMatch, Sequences, FiniteSets

CONSTANTS
  SigHash(_, _),  \* the digest of a value mixed with its column
  KeyedRows,      \* bound: the most data rows a side of a keyed pair has
  Unkeyed         \* families of pairs of files without a key, with their options

VARIABLES
  keyed,  \* ss->n_key_columns > 0
  cells, digest, opts, stage, turn, table, pairT, pairS, width, work, truncated, similar,
  detect, moves, at, rank, dist, moved, m, jt, len, tails, prev, lo, hi, k

keyedVars == <<key, hash, phase, row, idx, slot, t2s, s2t, dup>>
wholeVars ==
  <<cells, digest, opts, stage, turn, table, pairT, pairS, width, work, truncated, similar>>
moveVars == <<detect, moves, at, rank, dist, moved, m, jt, len, tails, prev, lo, hi, k>>
matchVars == <<n, keyed, keyedVars, wholeVars, moveVars>>

Whole == INSTANCE AllKeys

\* The maps of the matcher that ran.
PairedT == IF keyed THEN t2s ELSE pairT
PairedS == IF keyed THEN s2t ELSE pairS

Moves == INSTANCE MoveDetect WITH t2s <- PairedT, s2t <- PairedS, phase <- moves

-----------------------------------------------------------------------------

\* What is assumed of a pair of files without a key, and of its options: there is
\* a table for their rows and for the entries the index may have; digests,
\* signatures and options are natural numbers, as the code's types say; and one
\* signature column at least is asked for.
Given(files) ==
  /\ \A side \in Side : Len(files[side]) \in 0 .. MaxRows
  /\ files.opts.columns \in Nat /\ files.opts.sigColumns \in Nat \ {0}
  /\ {files.opts.maxEntries, files.opts.k, files.opts.percent, files.opts.maxWork} \subseteq Nat
  /\ \A e \in 0 .. files.opts.maxEntries : \E c \in Capacities : FitsTwice(e, c)
  /\ \A side \in Side : \A r \in 1 .. Len(files[side]) :
       /\ files[side][r].digest \in Nat
       /\ \A c \in 1 .. files.opts.columns : SigHash(Whole!Value(files[side][r].cells[c]), c) \in Nat

ASSUME UnkeyedAssumption ==
  \A family \in DOMAIN Unkeyed : \A files \in Unkeyed[family] : Given(files)

NoOptions == [columns |-> 0, k |-> 1, percent |-> 0, maxWork |-> 0, sigColumns |-> 1, maxEntries |-> 0]

\* Every small pair of files with a key; the digests are told apart by their
\* values, which the keys may exchange.
InitKeyed ==
  /\ keyed
  /\ n \in [Side -> 0 .. KeyedRows]
  /\ Init
  /\ \A a, b \in Keys : a < b => hash[a] <= hash[b]
  /\ cells = [side \in Side |-> <<>>] /\ digest = cells
  /\ opts = NoOptions
  /\ detect = TRUE

\* The given pairs of files without one.
InitWhole ==
  /\ ~keyed
  /\ \E family \in DOMAIN Unkeyed : \E files \in Unkeyed[family] :
       /\ n = [side \in Side |-> Len(files[side])]
       /\ cells = [side \in Side |-> [r \in Rows(side) |-> files[side][r + 1].cells]]
       /\ digest = [side \in Side |-> [r \in Rows(side) |-> files[side][r + 1].digest]]
       /\ opts = files.opts
       /\ detect = files.detect
  /\ key = [side \in Side |-> [r \in Rows(side) |-> CHOOSE x \in Keys : TRUE]]
  /\ hash = [x \in Keys |-> CHOOSE h \in Hashes : TRUE]
  /\ phase = "mapSource" /\ row = 0 /\ idx = NoRow
  /\ slot = [side \in Side |-> [p \in Slots(side) |-> 0]]
  /\ t2s = [t \in Rows("target") |-> NoRow]
  /\ s2t = [s \in Rows("source") |-> NoRow]
  /\ dup = NoDuplicate

MatchInit ==
  /\ keyed \in BOOLEAN
  /\ InitKeyed \/ InitWhole
  /\ Whole!Fresh /\ Moves!Fresh

MatchKeyed == keyed /\ Next /\ UNCHANGED <<keyed, wholeVars, moveVars>>

MatchWhole == ~keyed /\ Whole!Next /\ UNCHANGED <<keyed, keyedVars, moveVars>>

\* Mutant: moves are looked for whether or not the matcher was done.
DetectMovesEarly ==
  UNCHANGED <<n, keyed, keyedVars, wholeVars>> /\ Moves!Next

DetectMoves ==
  /\ IF keyed THEN phase = "done" ELSE stage = "paired"
  /\ UNCHANGED <<n, keyed, keyedVars, wholeVars>>
  /\ Moves!Next

MatchNext == MatchKeyed \/ MatchWhole \/ DetectMoves

\* ibha_match is one call on one thread: it never stops between two turns.
MatchSpec == MatchInit /\ [][MatchNext]_matchVars /\ WF_matchVars(MatchNext)

-----------------------------------------------------------------------------

\* The pairs are final once moves are looked for: what AllKeys says of them is
\* checked until then.
Pairing == ~keyed /\ moves = "idle"

\* See AllKeys: rows without a key are paired one for one by digest, in order.
ExactByDigest == Pairing => Whole!ExactByDigest

\* See AllKeys: a pair made by likeness is the best to be had.
BestCandidates == Pairing => Whole!BestCandidates

\* See AllKeys: likeness stays within its budget, and says when it stopped.
WorkBounded == Pairing => Whole!WorkBounded

\* See MoveDetect: what the binary search and the walk back rely on.
PilesSound == moves # "idle" => Moves!PilesSound

\* See MoveDetect: the rows not called moved are a longest run in both orders.
KeptIsLongest == Moves!KeptIsLongest

\* See MoveDetect: a distance is a shift in rank among the rows paired.
DistanceIsRankShift == Moves!DistanceIsRankShift

\* ibha_match returns, whichever matcher runs and however the digests fall: with
\* a duplicate key and nothing marked, or with every pair's distance known.
\* bmap_init leaves a table at most half full, so that a walk along it always
\* meets an empty slot.
Returns == <>(phase = "failed" \/ moves = "done")

=============================================================================
