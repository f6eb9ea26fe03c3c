------------------------------- MODULE Report -------------------------------
(***************************************************************************)
(* What the cursor of a diff promises (ibha_csvdiff.h, "The single output  *)
(* primitive" and ibha_csvd_deleted_placement), without the buckets and    *)
(* the threaded lists that diff.c keeps the promise with.                  *)
(*                                                                         *)
(* The pairing of the two files decides a set of report rows and a total   *)
(* order on them.  Each cursor, on its own, is given the rows one at a     *)
(* time, the least first, until it has been given them all or any call of  *)
(* the context has failed.                                                 *)
(***************************************************************************)
EXTENDS Integers

CONSTANTS Cursors

\* IBHA_CSVD_NO_ROW, and what cursor_row returns when there is no live row.
NoRow == -1

\* changes[t] of a pair whose digests agree: its cells are not looked at.
Alike == -1

NoneLive == [kind |-> "none"]

VARIABLES
  nSrc, nTgt,  (* data rows on each side                                   *)
  s2t, t2s,    (* the pairing, in both directions, NoRow where there is none *)
  changes,     (* changes[t]: Alike, or the changed cells of t's pair      *)
  atEnd,       (* deletions in a block at the end, not anchored            *)
  status,      (* of the context: "ok" until a call of it fails            *)
  opened,      (* the cursors that are open                                *)
  given,       (* given[c]: the rows c was given since it opened or reset  *)
  shown        (* shown[c]: the row cursor_row returns, or NoneLive        *)

script == <<nSrc, nTgt, s2t, t2s, changes, atEnd>>
vars == <<nSrc, nTgt, s2t, t2s, changes, atEnd, status, opened, given, shown>>

-----------------------------------------------------------------------------

SrcRows == 0 .. nSrc - 1
TgtRows == 0 .. nTgt - 1

Deleted == {s \in SrcRows : s2t[s] = NoRow}

\* The digests decide the kind.  A row they tell apart may have no changed cell:
\* digests and comparisons differ on some values (CellDiff).
Kind(t) ==
  IF t2s[t] = NoRow THEN "added"
  ELSE IF changes[t] = Alike THEN "unchanged" ELSE "modified"

TargetRow(t) ==
  [kind |-> Kind(t), source |-> t2s[t], target |-> t,
   cells |-> IF changes[t] = Alike THEN 0 ELSE changes[t]]

DeletedRow(s) ==
  [kind |-> "deleted", source |-> s, target |-> NoRow, cells |-> 0]

ReportRows == {TargetRow(t) : t \in TgtRows} \cup {DeletedRow(s) : s \in Deleted}

\* The source rows before s that have a target, and the last of them.
PairedBefore(s) == {p \in 0 .. s - 1 : s2t[p] # NoRow}

LastPairedBefore(s) ==
  CHOOSE p \in PairedBefore(s) : \A q \in PairedBefore(s) : q <= p

\* The target row a deletion goes in front of, nTgt for the end of the report:
\* the one after the target position of the most recently matched source row.
Anchor(s) ==
  IF atEnd THEN nTgt
  ELSE IF PairedBefore(s) = {} THEN 0
  ELSE s2t[LastPairedBefore(s)] + 1

\* The order of the report.
Before(a, b) ==
  IF a.target = NoRow
  THEN IF b.target = NoRow
       THEN \/ Anchor(a.source) < Anchor(b.source)
            \/ Anchor(a.source) = Anchor(b.source) /\ a.source < b.source
       ELSE Anchor(a.source) <= b.target
  ELSE IF b.target = NoRow
       THEN a.target < Anchor(b.source)
       ELSE a.target < b.target

Remaining(c) == ReportRows \ given[c]

\* ibha_csvd_diff_run's input: a pairing is a partial injection.
Pairing ==
  /\ s2t \in [SrcRows -> TgtRows \cup {NoRow}]
  /\ t2s \in [TgtRows -> SrcRows \cup {NoRow}]
  /\ \A s \in SrcRows : \A t \in TgtRows : s2t[s] = t <=> t2s[t] = s

Init ==
  /\ nSrc \in Nat /\ nTgt \in Nat
  /\ Pairing
  /\ changes \in [TgtRows -> Nat \cup {Alike}]
  /\ atEnd \in BOOLEAN
  /\ status = "ok"
  /\ opened = {}
  /\ given = [c \in Cursors |-> {}]
  /\ shown = [c \in Cursors |-> NoneLive]

Open(c) ==
  /\ status = "ok"
  /\ c \notin opened
  /\ opened' = opened \cup {c}
  /\ UNCHANGED <<script, status, given, shown>>

\* The cursor is given the least row it has not been given.
Advance(c) ==
  /\ status = "ok"
  /\ c \in opened
  /\ \E r \in Remaining(c) :
       /\ \A q \in Remaining(c) \ {r} : Before(r, q)
       /\ given' = [given EXCEPT ![c] = @ \cup {r}]
       /\ shown' = [shown EXCEPT ![c] = r]
  /\ UNCHANGED <<script, status, opened>>

\* The cursor reports the end only when it has been given every row.
End(c) ==
  /\ status = "ok"
  /\ c \in opened
  /\ Remaining(c) = {}
  /\ shown' = [shown EXCEPT ![c] = NoneLive]
  /\ UNCHANGED <<script, status, opened, given>>

Reset(c) ==
  /\ c \in opened
  /\ given' = [given EXCEPT ![c] = {}]
  /\ shown' = [shown EXCEPT ![c] = NoneLive]
  /\ UNCHANGED <<script, status, opened>>

\* The first error is the context's for good: no cursor advances or ends after it.
Fail ==
  /\ status = "ok"
  /\ status' = "error"
  /\ UNCHANGED <<script, opened, given, shown>>

Next == Fail \/ \E c \in Cursors : Open(c) \/ Advance(c) \/ End(c) \/ Reset(c)

Spec == Init /\ [][Next]_vars

=============================================================================
