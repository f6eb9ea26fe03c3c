----------------------------- MODULE ColumnPlan -----------------------------
(***************************************************************************)
(* Which columns of the two files are compared with which: the merge of    *)
(* the two headers (schema.c, match_names), what the target inherits from  *)
(* the source's schema (ibha_schema_resolve), and the plan the diff makes  *)
(* of the columns in common (diff.c, plan_columns).                        *)
(*                                                                         *)
(* Both files carry a name row.  match_names depends on nothing but the    *)
(* headers and the policy and is called again wherever its result is       *)
(* wanted: it is run once here, and its map kept.                          *)
(***************************************************************************)
EXTENDS Integers, Sequences, FiniteSets

CONSTANTS
  Names,       \* column names
  MaxColumns   \* bound: columns of a file

ASSUME SizeAssumption == MaxColumns \in Nat \ {0}

None == 0   \* IBHA_CSVD_NO_COLUMN; columns count from 1

VARIABLES
  src, tgt,       \* the names of the columns of the two files
  keys,           \* the source's KEY columns
  policy,         \* of allow_added_columns and allow_removed_columns, those set
  phase,          \* "merge", "moved", "strict", "resolve", "plan", "done"
  si, ti,         \* the merge's place in src and tgt
  map,            \* map[t]: the source column target column t is
  inherited,      \* inherited[t]: the source column whose flags and type t gets
  compared,       \* the pairs of columns compared
  status

files == <<src, tgt, keys, policy>>
vars == <<files, phase, si, ti, map, inherited, compared, status>>

Headers == UNION {[1 .. n -> Names] : n \in 1 .. MaxColumns}

Lenient == policy # {}

Init ==
  /\ src \in Headers /\ tgt \in Headers
  /\ keys \in SUBSET DOMAIN src
  /\ policy \in SUBSET {"added", "removed"}
  /\ phase = IF Lenient THEN "merge" ELSE "strict"
  /\ si = 1 /\ ti = 1
  /\ map = [t \in DOMAIN tgt |-> None]
  /\ inherited = <<>> /\ compared = {} /\ status = "ok"

Refuse(error) ==
  /\ phase' = "done" /\ status' = error
  /\ UNCHANGED <<si, ti, map, inherited, compared>>

-----------------------------------------------------------------------------
(***************************************************************************)
(* match_names: one action per turn of the merge.                          *)
(***************************************************************************)
Merging == phase = "merge" /\ si <= Len(src) /\ ti <= Len(tgt)

InTargetAhead == \E t \in ti + 1 .. Len(tgt) : tgt[t] = src[si]
InSourceAhead == \E s \in si + 1 .. Len(src) : src[s] = tgt[ti]

Advance(ds, dt) ==
  /\ si' = si + ds /\ ti' = ti + dt
  /\ UNCHANGED <<phase, inherited, compared, status>>

\* A mutant: a match is looked for ahead, and leaves a column behind it unread.
MatchedAhead ==
  /\ Merging /\ tgt[ti] = src[si]
  /\ map' = [t \in DOMAIN map |-> IF t >= ti /\ tgt[t] = src[si] THEN si ELSE map[t]]
  /\ Advance(1, 1) /\ UNCHANGED files

Matched ==
  /\ Merging /\ tgt[ti] = src[si]
  /\ map' = [map EXCEPT ![ti] = si]
  /\ Advance(1, 1) /\ UNCHANGED files

\* The source's name is still to come in the target.
Inserted ==
  /\ Merging /\ tgt[ti] # src[si] /\ InTargetAhead
  /\ IF "added" \in policy THEN Advance(0, 1) /\ UNCHANGED map ELSE Refuse("columns")
  /\ UNCHANGED files

Removed ==
  /\ Merging /\ tgt[ti] # src[si] /\ ~InTargetAhead /\ InSourceAhead
  /\ IF "removed" \in policy THEN Advance(1, 0) /\ UNCHANGED map ELSE Refuse("columns")
  /\ UNCHANGED files

\* One column dropped and another put in its place.
Replaced ==
  /\ Merging /\ tgt[ti] # src[si] /\ ~InTargetAhead /\ ~InSourceAhead
  /\ IF policy = {"added", "removed"} THEN Advance(1, 1) /\ UNCHANGED map
     ELSE Refuse("columns")
  /\ UNCHANGED files

\* Whatever is left of one header is an addition or a removal.
EndMerge ==
  /\ phase = "merge" /\ ~Merging
  /\ IF \/ ti <= Len(tgt) /\ "added" \notin policy
        \/ si <= Len(src) /\ "removed" \notin policy
        \/ \A t \in DOMAIN tgt : map[t] = None
     THEN Refuse("columns")
     ELSE phase' = "moved" /\ UNCHANGED <<si, ti, map, inherited, compared, status>>
  /\ UNCHANGED files

Taken == {map[t] : t \in DOMAIN tgt}

\* A mutant: a column that moved is taken for one dropped and one added.
MovedIgnored ==
  /\ phase = "moved"
  /\ phase' = "resolve" /\ UNCHANGED <<si, ti, map, inherited, compared, status>>
  /\ UNCHANGED files

\* An unmatched source column whose name the target has anywhere did not
\* disappear, it moved.
Moved ==
  /\ phase = "moved"
  /\ IF \E s \in DOMAIN src : s \notin Taken /\ \E t \in DOMAIN tgt : tgt[t] = src[s]
     THEN Refuse("columns")
     ELSE phase' = "resolve" /\ UNCHANGED <<si, ti, map, inherited, compared, status>>
  /\ UNCHANGED files

\* The default policy: the same names in the same places.
Strict ==
  /\ phase = "strict"
  /\ IF tgt = src THEN phase' = "resolve" /\ UNCHANGED <<si, ti, map, inherited, compared, status>>
     ELSE Refuse("columns")
  /\ UNCHANGED files

-----------------------------------------------------------------------------
\* ibha_schema_resolve: the map is made only when the counts differ.
Inherit ==
  /\ phase = "resolve" /\ phase' = "plan"
  /\ inherited' = [t \in DOMAIN tgt |->
       IF Lenient /\ Len(tgt) # Len(src) THEN map[t]
       ELSE IF t \in DOMAIN src THEN t ELSE None]
  /\ UNCHANGED <<files, si, ti, map, compared, status>>

\* src_cols and tgt_cols, filled in the order of the target's columns.
Common == {<<map[t], t>> : t \in {u \in DOMAIN tgt : map[u] # None}}

\* A mutant: a KEY column is a column like any other.
KeyLostIgnored == FALSE

KeyLost == \E s \in keys : s \notin Taken

\* plan_columns: the diff compares the columns in common, in the source's order.
Plan ==
  /\ phase = "plan" /\ phase' = "done"
  /\ IF ~Lenient
     THEN compared' = {<<c, c>> : c \in DOMAIN src} /\ UNCHANGED status
     ELSE IF KeyLost
     THEN status' = "missing key" /\ UNCHANGED compared
     ELSE compared' = Common /\ UNCHANGED status
  /\ UNCHANGED <<files, si, ti, map, inherited>>

Next == Matched \/ Inserted \/ Removed \/ Replaced \/ EndMerge \/ Moved \/ Strict \/ Inherit \/ Plan

Spec == Init /\ [][Next]_vars /\ WF_vars(Next)

-----------------------------------------------------------------------------
\* Type invariant; the merge leaves no map entry it has not reached.
TypeOK ==
  /\ src \in Headers /\ tgt \in Headers /\ keys \subseteq DOMAIN src
  /\ policy \subseteq {"added", "removed"}
  /\ phase \in {"merge", "moved", "strict", "resolve", "plan", "done"}
  /\ si \in 1 .. Len(src) + 1 /\ ti \in 1 .. Len(tgt) + 1
  /\ map \in [DOMAIN tgt -> {None} \cup DOMAIN src]
  /\ \A t \in ti .. Len(tgt) : map[t] = None
  /\ status \in {"ok", "columns", "missing key"}

\* The pairs of the plan carry one name and run in the order of both files, so no
\* column is compared twice (diff.c:99, "it is still true that column c means the
\* same thing on both sides").  Holds for headers that repeat a name too.
PlanPairsNames ==
  /\ \A p \in compared : src[p[1]] = tgt[p[2]]
  /\ \A p, q \in compared : p[1] < q[1] <=> p[2] < q[2]

Injective(s) == \A i, j \in DOMAIN s : s[i] = s[j] => i = j

\* The pairs of places at which the two files have one name.
Shared == {p \in (DOMAIN src) \X (DOMAIN tgt) : src[p[1]] = tgt[p[2]]}

SameOrder == \A p, q \in Shared : p[1] < q[1] => p[2] < q[2]

\* What the policy promises (ibha_csvdiff.h, spec 6.6 and 13.10): the order of the
\* common columns is never relaxed, a column more or less is allowed by its own
\* flag, a KEY column may never be missing; under the default policy nothing is.
Allowed ==
  /\ SameOrder /\ Shared # {}
  /\ "added" \in policy \/ \A t \in DOMAIN tgt : \E p \in Shared : p[2] = t
  /\ "removed" \in policy \/ \A s \in DOMAIN src : \E p \in Shared : p[1] = s
  /\ \A s \in keys : \E p \in Shared : p[1] = s

\* A merge that looks ahead and never back still accepts exactly the pairs of
\* headers the policy allows, and then compares every column they share, whenever
\* no header repeats a name.
PolicyExact ==
  phase = "done" /\ Injective(src) /\ Injective(tgt) =>
    /\ status = "ok" <=> Allowed
    /\ status = "ok" => compared = Shared

\* Under a lenient policy the target's columns inherit the source's flags and
\* types by name, and a column the source does not declare inherits nothing
\* (schema.c:406).
InheritsByName ==
  Lenient /\ inherited # <<>> /\ Injective(src) /\ Injective(tgt) =>
    \A t \in DOMAIN tgt :
      IF inherited[t] = None THEN \A s \in DOMAIN src : src[s] # tgt[t]
      ELSE src[inherited[t]] = tgt[t]

=============================================================================
