-------------------------- MODULE DiffCursorProofs --------------------------
(***************************************************************************)
(* DiffCursor keeps its types and the lists that ListsSound describes, and *)
(* implements Report, whatever the sizes of the two tables, the pairing    *)
(* and the number of cursors.                                              *)
(***************************************************************************)
EXTENDS DiffCursor, Induction, FiniteSetTheorems, TLAPS

USE DEF NoRow, R!NoRow, Alike, R!Alike, Junk, SrcRows, TgtRows, R!SrcRows, R!TgtRows, Buckets

-----------------------------------------------------------------------------
(***************************************************************************)
(* The run's input.                                                        *)
(***************************************************************************)

\* The pairing diff_run is handed is a partial injection with its inverse.
LEMMA InitPairing == Init => R!Pairing
<1> SUFFICES ASSUME Init PROVE R!Pairing
  OBVIOUS
<1>1. \A t \in TgtRows, s \in SrcRows : s2t[s] = t => t2s[t] = s
  <2>1. SUFFICES ASSUME NEW t \in TgtRows, NEW s \in SrcRows, s2t[s] = t
                 PROVE  t2s[t] = s
    OBVIOUS
  <2>2. t2s[t] = CHOOSE a \in SrcRows : s2t[a] = t
    BY <2>1 DEF Init
  <2>3. \A a \in SrcRows : s2t[a] = t => a = s
    BY <2>1 DEF Init
  <2>4. QED
    BY <2>1, <2>2, <2>3
<1>2. \A t \in TgtRows : \/ t2s[t] = NoRow /\ \A s \in SrcRows : s2t[s] # t
                         \/ t2s[t] \in SrcRows /\ s2t[t2s[t]] = t
  <2>1. SUFFICES ASSUME NEW t \in TgtRows
                 PROVE  \/ t2s[t] = NoRow /\ \A s \in SrcRows : s2t[s] # t
                        \/ t2s[t] \in SrcRows /\ s2t[t2s[t]] = t
    OBVIOUS
  <2>2. CASE \E s \in SrcRows : s2t[s] = t
    BY <1>1, <2>2
  <2>3. CASE ~\E s \in SrcRows : s2t[s] = t
    BY <2>3 DEF Init
  <2>4. QED
    BY <2>2, <2>3
<1>3. t2s \in [TgtRows -> SrcRows \cup {NoRow}]
  <2>1. t2s = [t \in TgtRows |-> t2s[t]]
    BY DEF Init
  <2>2. QED
    BY <1>2, <2>1
<1>4. \A s \in SrcRows : \A t \in TgtRows : s2t[s] = t <=> t2s[t] = s
  BY <1>1, <1>2
<1>5. s2t \in [SrcRows -> TgtRows \cup {NoRow}]
  BY DEF Init
<1>6. QED
  BY <1>3, <1>4, <1>5 DEF R!Pairing

\* What a report row is made of, and that the two sorts of row differ.
LEMMA RowFields ==
  /\ \A t : /\ R!TargetRow(t).target = t
            /\ R!TargetRow(t).source = t2s[t]
            /\ R!TargetRow(t).cells = IF changes[t] = Alike THEN 0 ELSE changes[t]
  /\ \A s : /\ R!DeletedRow(s).source = s
            /\ R!DeletedRow(s).target = NoRow
BY DEF R!TargetRow, R!DeletedRow

\* Every row of the report has the fields its kind has in the C structure.
LEMMA RowsTyped ==
  ASSUME TypeOK
  PROVE  /\ \A t \in TgtRows : R!TargetRow(t) \in Row
         /\ \A s \in SrcRows : R!DeletedRow(s) \in Row
<1>1. \A t \in TgtRows : t2s[t] \in SrcRows \cup {NoRow} /\ changes[t] \in Nat \cup {Alike}
  BY CursorAssumption DEF TypeOK, InputType, R!Pairing
<1>2. \A t : R!Kind(t) \in {"added", "modified", "unchanged"}
  BY DEF R!Kind
<1>3. QED
  BY <1>1, <1>2 DEF R!TargetRow, R!DeletedRow, Row

\* What the report promises depends on the edit script alone.
LEMMA ScriptFixed ==
  ASSUME UNCHANGED script
  PROVE  /\ \A s : R!Anchor(s)' = R!Anchor(s) /\ R!DeletedRow(s)' = R!DeletedRow(s)
         /\ \A t : R!TargetRow(t)' = R!TargetRow(t)
         /\ R!Deleted' = R!Deleted /\ R!ReportRows' = R!ReportRows
         /\ SrcRows' = SrcRows /\ TgtRows' = TgtRows /\ Buckets' = Buckets
         /\ Row' = Row
<1>1. /\ \A s : R!Anchor(s)' = R!Anchor(s) /\ R!DeletedRow(s)' = R!DeletedRow(s)
      /\ \A t : R!TargetRow(t)' = R!TargetRow(t)
      /\ R!Deleted' = R!Deleted
  BY DEF script, R!Anchor, R!PairedBefore, R!LastPairedBefore, R!TargetRow, R!Kind,
         R!DeletedRow, R!Deleted
<1>2. R!ReportRows' = R!ReportRows
  BY DEF script, R!ReportRows, R!TargetRow, R!Kind, R!DeletedRow, R!Deleted
<1>3. QED
  BY <1>1, <1>2 DEF script, Row

-----------------------------------------------------------------------------
(***************************************************************************)
(* Types.                                                                  *)
(***************************************************************************)

\* The run's input keeps its type when it keeps its value ...
LEMMA InputsFixed ==
  ASSUME InputType, UNCHANGED script
  PROVE  InputType'
BY DEF InputType, script, R!Pairing

\* ... so do the lists ...
LEMMA ListsFixed ==
  ASSUME ListType, UNCHANGED <<script, phase, si, last, delHead, delNext>>
  PROVE  ListType'
BY DEF ListType, script

\* ... and a cursor.
LEMMA CursorsFixed ==
  ASSUME NEW c \in Cursors, CursorType(c), UNCHANGED script, cur'[c] = cur[c]
  PROVE  CursorType(c)'
<1>1. Row' = Row
  BY ScriptFixed
<1>2. CursorState' = CursorState
  BY <1>1 DEF CursorState, Closed, script
<1>3. QED
  BY <1>1, <1>2 DEF CursorType

\* The cursor structure after a deletion was pulled.
LEMMA AfterDeleted ==
  ASSUME NEW r \in CursorState, NEW d \in SrcRows \cup {NoRow}, NEW w \in Row
  PROVE  /\ [r EXCEPT !.del = d, !.live = TRUE, !.row = w] \in CursorState
         /\ [r EXCEPT !.del = d, !.live = TRUE, !.row = w].del # Junk
         /\ [r EXCEPT !.del = d, !.live = TRUE, !.row = w].row \in Row
<1>1. [r EXCEPT !.del = d]
      \in CursorState
  BY DEF CursorState
<1>2. [[r EXCEPT !.del = d] EXCEPT !.live = TRUE]
      \in CursorState
  BY <1>1 DEF CursorState
<1>3. [[[r EXCEPT !.del = d] EXCEPT !.live = TRUE] EXCEPT !.row = w]
      \in CursorState
  BY <1>2 DEF CursorState
<1>4. [r EXCEPT !.del = d, !.live = TRUE, !.row = w]
      = [[[r EXCEPT !.del = d] EXCEPT !.live = TRUE] EXCEPT !.row = w]
  BY DEF CursorState
<1>5. [r EXCEPT !.del = d, !.live = TRUE, !.row = w].del # Junk
  BY DEF CursorState
<1>6. [r EXCEPT !.del = d, !.live = TRUE, !.row = w].row \in Row
  BY DEF CursorState
<1>7. QED
  BY <1>3, <1>4, <1>5, <1>6

\* The cursor structure after a target row was pulled.
LEMMA AfterTarget ==
  ASSUME NEW r \in CursorState, NEW b \in Buckets,
         NEW d \in SrcRows \cup {NoRow}, NEW w \in Row
  PROVE  /\ [r EXCEPT !.bucket = b, !.del = d, !.live = TRUE, !.row = w] \in CursorState
         /\ [r EXCEPT !.bucket = b, !.del = d, !.live = TRUE, !.row = w].del # Junk
         /\ [r EXCEPT !.bucket = b, !.del = d, !.live = TRUE, !.row = w].row \in Row
<1>1. [r EXCEPT !.bucket = b]
      \in CursorState
  BY DEF CursorState
<1>2. [[r EXCEPT !.bucket = b] EXCEPT !.del = d]
      \in CursorState
  BY <1>1 DEF CursorState
<1>3. [[[r EXCEPT !.bucket = b] EXCEPT !.del = d] EXCEPT !.live = TRUE]
      \in CursorState
  BY <1>2 DEF CursorState
<1>4. [[[[r EXCEPT !.bucket = b] EXCEPT !.del = d] EXCEPT !.live = TRUE] EXCEPT !.row = w]
      \in CursorState
  BY <1>3 DEF CursorState
<1>5. [r EXCEPT !.bucket = b, !.del = d, !.live = TRUE, !.row = w]
      = [[[[r EXCEPT !.bucket = b] EXCEPT !.del = d] EXCEPT !.live = TRUE] EXCEPT !.row = w]
  BY DEF CursorState
<1>6. [r EXCEPT !.bucket = b, !.del = d, !.live = TRUE, !.row = w].del # Junk
  BY DEF CursorState
<1>7. [r EXCEPT !.bucket = b, !.del = d, !.live = TRUE, !.row = w].row \in Row
  BY DEF CursorState
<1>8. QED
  BY <1>4, <1>5, <1>6, <1>7

\* The state diff_run sets up before it calls anchor_deletions.
LEMMA InitTypeOK == Init => TypeOK
<1> SUFFICES ASSUME Init PROVE TypeOK
  OBVIOUS
<1>0. nSrc \in Nat /\ nTgt \in Nat
  BY CursorAssumption DEF Init
<1>1. InputType
  BY InitPairing DEF Init, InputType
<1>2. ListType
  BY <1>0 DEF Init, ListType
<1>3. cur \in [Cursors -> CursorState] /\ \A c \in Cursors : CursorType(c)
  <2>1. Closed \in CursorState /\ ~Closed.open /\ ~Closed.live
    BY <1>0 DEF CursorState, Closed
  <2>2. cur = [c \in Cursors |-> Closed]
    BY DEF Init
  <2>3. QED
    BY <2>1, <2>2 DEF CursorType
<1>4. given \in [Cursors -> SUBSET Row]
  BY DEF Init
<1>5. QED
  BY <1>1, <1>2, <1>3, <1>4, CursorAssumption DEF Init, TypeOK

\* The links a cursor follows are the ones ListsSound says the loops wrote, so
\* the types are inductive only together with it.
IInv == TypeOK /\ ListsSound

\* Every step keeps the types, given that the lists are sound.
LEMMA NextTypeOK == IInv /\ [Next]_vars => TypeOK'
<1> SUFFICES ASSUME TypeOK, ListsSound, [Next]_vars PROVE TypeOK'
  BY DEF IInv
<1> USE CursorAssumption
<1>0. /\ InputType /\ ListType /\ cur \in [Cursors -> CursorState]
      /\ \A c \in Cursors : CursorType(c)
      /\ given \in [Cursors -> SUBSET Row]
      /\ status \in {"ok", "error"} /\ cells \in Nat /\ resets \in 0 .. MaxResets
  BY DEF TypeOK
<1>1. nSrc \in Nat /\ nTgt \in Nat
  BY <1>0 DEF InputType
<1>f. ASSUME UNCHANGED script
      PROVE  Row' = Row /\ CursorState' = CursorState
  <2>1. Row' = Row
    BY <1>f, ScriptFixed
  <2>2. QED
    BY <1>f, <2>1 DEF CursorState, Closed, script
<1>2. ASSUME UNCHANGED <<script, status, cursors>>, ListType'
      PROVE  TypeOK'
  <2>1. InputType'
    BY <1>0, <1>2, InputsFixed
  <2>2. \A c \in Cursors : CursorType(c)'
    BY <1>0, <1>2, CursorsFixed DEF cursors
  <2>3. QED
    BY <1>0, <1>2, <1>f, <2>1, <2>2 DEF cursors, TypeOK
<1>3. CASE PassPaired
  <2>1. si \in SrcRows
    BY <1>0, <1>1, <1>3 DEF PassPaired, ListType
  <2>2. s2t[si] \in TgtRows
    BY <1>0, <1>3, <2>1 DEF PassPaired, InputType, R!Pairing
  <2>3. last' \in Buckets /\ si' \in 0 .. nSrc
    <3>1. last \in Buckets /\ s2t[si] + 1 \in Buckets
      BY <1>0, <1>1, <2>2 DEF ListType
    <3>2. si' \in 0 .. nSrc
      BY <1>1, <1>3, <2>1 DEF PassPaired
    <3>3. QED
      BY <1>3, <3>1, <3>2 DEF PassPaired
  <2>4. ListType'
    BY <1>0, <1>3, <2>3 DEF PassPaired, ListType, script
  <2>5. QED
    BY <1>2, <1>3, <2>4 DEF PassPaired
<1>4. CASE ParkDeleted
  <2>1. si \in SrcRows /\ si' \in 0 .. nSrc
    BY <1>0, <1>1, <1>4 DEF ParkDeleted, ListType
  <2>2. delNext' \in [SrcRows -> SrcRows \cup Buckets \cup {NoRow, Junk}]
    BY <1>0, <1>4, <2>1 DEF ParkDeleted, ListType
  <2>3. ListType'
    BY <1>0, <1>4, <2>1, <2>2 DEF ParkDeleted, ListType, script
  <2>4. QED
    BY <1>2, <1>4, <2>3 DEF ParkDeleted
<1>5. CASE EndAnchor
  <2>1. ListType'
    BY <1>0, <1>5 DEF EndAnchor, ListType, script
  <2>2. QED
    BY <1>2, <1>5, <2>1 DEF EndAnchor
<1>6. CASE Thread
  <2>1. /\ UNCHANGED <<script, status, cursors, phase, last>>
        /\ phase = "thread" /\ si > 0 /\ si' = si - 1
    BY <1>6 DEF Thread
  <2>2. si - 1 \in SrcRows /\ si' \in 0 .. nSrc
    BY <1>0, <1>1, <2>1 DEF ListType
  <2>3. CASE s2t[si - 1] # NoRow
    <3>1. ListType'
      BY <1>0, <1>6, <2>1, <2>2, <2>3 DEF Thread, ListType, script
    <3>2. QED
      BY <1>2, <2>1, <3>1
  <2>4. CASE s2t[si - 1] = NoRow
    <3>1. delNext[si - 1] \in Buckets
      <4>1. si - 1 \in Deleted
        BY <2>2, <2>4 DEF Deleted, R!Deleted
      <4>2. si - 1 < si
        BY <1>0 DEF ListType
      <4>3. QED
        BY <2>1, <4>1, <4>2 DEF ListsSound, Parked
    <3>2. delHead[delNext[si - 1]] \in SrcRows \cup {NoRow}
      BY <1>0, <3>1 DEF ListType
    <3>3. delHead' \in [Buckets -> SrcRows \cup {NoRow}]
      BY <1>0, <1>6, <2>2, <2>4, <3>1 DEF Thread, ListType
    <3>4. delNext' \in [SrcRows -> SrcRows \cup Buckets \cup {NoRow, Junk}]
      BY <1>0, <1>6, <2>2, <2>4, <3>2 DEF Thread, ListType
    <3>5. ListType'
      BY <1>0, <2>1, <2>2, <3>3, <3>4 DEF ListType, script
    <3>6. QED
      BY <1>2, <2>1, <3>5
  <2>5. QED
    BY <2>3, <2>4
<1>7. CASE EndRun
  <2>1. ListType'
    BY <1>0, <1>7 DEF EndRun, ListType, script
  <2>2. QED
    BY <1>2, <1>7, <2>1 DEF EndRun
<1>8. ASSUME UNCHANGED <<script, lists>>,
             status' \in {"ok", "error"}, cur' \in [Cursors -> CursorState],
             \A c \in Cursors : CursorType(c)',
             given' \in [Cursors -> SUBSET Row],
             cells' \in Nat, resets' \in 0 .. MaxResets
      PROVE  TypeOK'
  <2>1. InputType' /\ ListType'
    BY <1>0, <1>8, InputsFixed, ListsFixed DEF lists
  <2>2. QED
    BY <1>8, <1>f, <2>1 DEF TypeOK
<1>9. CASE FailContext
  <2>1. \A c \in Cursors : CursorType(c)'
    BY <1>0, <1>9, CursorsFixed DEF FailContext, cursors
  <2>2. QED
    BY <1>0, <1>8, <1>9, <2>1 DEF FailContext, cursors
\* A step of cursor c that leaves the other cursors alone.
<1>10. ASSUME NEW c \in Cursors, UNCHANGED <<script, lists, status>>,
              NEW e \in CursorState, cur' = [cur EXCEPT ![c] = e],
              e.open => e.del # Junk, e.live => e.row \in Row,
              given' \in [Cursors -> SUBSET Row],
              cells' \in Nat, resets' \in 0 .. MaxResets
       PROVE  TypeOK'
  <2>1. cur' \in [Cursors -> CursorState] /\ cur'[c] = e
    BY <1>0, <1>10
  <2>2. \A x \in Cursors : CursorType(x)'
    <3>1. SUFFICES ASSUME NEW x \in Cursors PROVE CursorType(x)'
      OBVIOUS
    <3>2. CASE x = c
      BY <1>10, <1>f, <2>1, <3>2 DEF CursorType
    <3>3. CASE x # c
      <4>1. cur'[x] = cur[x]
        BY <1>0, <1>10, <3>3
      <4>2. QED
        BY <1>0, <1>10, <4>1, CursorsFixed
    <3>4. QED
      BY <3>2, <3>3
  <2>3. QED
    BY <1>0, <1>8, <1>10, <2>1, <2>2
<1>11. ASSUME NEW c \in Cursors, Open(c) PROVE TypeOK'
  <2> DEFINE e == [Rewound(c) EXCEPT !.open = TRUE]
  <2>0. /\ cur[c] \in CursorState
        /\ delHead[0] \in SrcRows \cup {NoRow} /\ delHead[0] # Junk
        /\ 0 \in Buckets
    BY <1>0, <1>1 DEF ListType
  <2>1. e \in CursorState /\ e.del # Junk /\ ~e.live
    BY <2>0 DEF Rewound, CursorState
  <2>2. /\ cur' = [cur EXCEPT ![c] = e] /\ given' = given /\ cells' = cells
        /\ resets' = resets /\ UNCHANGED <<script, lists, status>>
    BY <1>11 DEF Open
  <2> HIDE DEF e
  <2>3. QED
    BY <1>0, <1>10, <2>1, <2>2
<1>12. ASSUME NEW c \in Cursors, Reset(c) PROVE TypeOK'
  <2> DEFINE e == Rewound(c)
  <2>0. /\ cur[c] \in CursorState
        /\ delHead[0] \in SrcRows \cup {NoRow} /\ delHead[0] # Junk
        /\ 0 \in Buckets
    BY <1>0, <1>1 DEF ListType
  <2>1. e \in CursorState /\ e.del # Junk /\ ~e.live
    BY <2>0 DEF Rewound, CursorState
  <2>2. /\ cur' = [cur EXCEPT ![c] = e] /\ cells' = cells
        /\ UNCHANGED <<script, lists, status>>
    BY <1>12 DEF Reset
  <2>3. given' \in [Cursors -> SUBSET Row] /\ resets' \in 0 .. MaxResets
    BY <1>0, <1>12 DEF Reset
  <2> HIDE DEF e
  <2>4. QED
    BY <1>0, <1>10, <2>1, <2>2, <2>3
<1>c. ASSUME NEW c \in Cursors, Pulls(c)
      PROVE  /\ cur[c] \in CursorState /\ cur[c].del # Junk
             /\ phase = "ready" /\ si = 0
             /\ cur[c].del # NoRow => cur[c].del \in Deleted
  BY <1>0, <1>c DEF Pulls, CursorType, ListsSound, Positioned, Threaded
<1>13. ASSUME NEW c \in Cursors, PullDeleted(c) PROVE TypeOK'
  <2> DEFINE d == cur[c].del
             row == R!DeletedRow(d)
             e == [cur[c] EXCEPT !.del = delNext[d], !.live = TRUE, !.row = row]
  <2>1. d \in Deleted /\ d \in SrcRows /\ cur[c] \in CursorState
    BY <1>c, <1>13 DEF PullDeleted, Deleted, R!Deleted
  <2>2. row \in Row
    BY <2>1, RowsTyped
  <2>3. delNext[d] \in SrcRows \cup {NoRow}
    <3>1. FirstOf({u \in Deleted : u > d /\ Anchor(u) = Anchor(d)}, delNext[d])
      <4>1. phase = "ready" /\ si = 0 /\ d >= si
        BY <1>1, <1>c, <1>13, <2>1 DEF PullDeleted
      <4>2. QED
        BY <2>1, <4>1 DEF ListsSound, Threaded
    <3>2. QED
      BY <3>1 DEF FirstOf, Deleted, R!Deleted
  <2>4. e \in CursorState /\ e.del # Junk /\ e.row \in Row
    BY <2>1, <2>2, <2>3, AfterDeleted
  <2>5. /\ cur' = [cur EXCEPT ![c] = e] /\ cells' = cells /\ resets' = resets
        /\ UNCHANGED <<script, lists, status>>
        /\ given' = [given EXCEPT ![c] = @ \cup {row}]
    BY <1>0, <1>13 DEF PullDeleted
  <2>6. given' \in [Cursors -> SUBSET Row]
    BY <1>0, <2>2, <2>5
  <2> HIDE DEF e
  <2>7. QED
    BY <1>0, <1>10, <2>4, <2>5, <2>6
<1>14. ASSUME NEW c \in Cursors, PullTarget(c) PROVE TypeOK'
  <2> DEFINE b == cur[c].bucket
             row == R!TargetRow(b)
             e == [cur[c] EXCEPT !.bucket = b + 1, !.del = delHead[b + 1],
                                 !.live = TRUE, !.row = row]
  <2>1. b \in TgtRows /\ cur[c] \in CursorState
    BY <1>1, <1>c, <1>14 DEF PullTarget, CursorState
  <2>2. row \in Row /\ row.cells \in Nat
    BY <2>1, RowsTyped DEF Row
  <2>3. delHead[b + 1] \in SrcRows \cup {NoRow} /\ b + 1 \in Buckets
    BY <1>0, <1>1, <2>1 DEF ListType
  <2>4. e \in CursorState /\ e.del # Junk /\ e.row \in Row
    BY <2>1, <2>2, <2>3, AfterTarget
  <2>5. /\ cur' = [cur EXCEPT ![c] = e] /\ cells' = cells + row.cells
        /\ resets' = resets /\ UNCHANGED <<script, lists, status>>
        /\ given' = [given EXCEPT ![c] = @ \cup {row}]
    BY <1>0, <1>14 DEF PullTarget
  <2>6. given' \in [Cursors -> SUBSET Row] /\ cells' \in Nat
    BY <1>0, <2>2, <2>5
  <2> HIDE DEF e
  <2>7. QED
    BY <1>0, <1>10, <2>4, <2>5, <2>6
<1>15. ASSUME NEW c \in Cursors, PullEnd(c) PROVE TypeOK'
  <2> DEFINE e == [cur[c] EXCEPT !.done = TRUE, !.live = FALSE]
  <2>1. e \in CursorState /\ e.del # Junk /\ ~e.live
    BY <1>c, <1>15 DEF PullEnd, CursorState
  <2>2. /\ cur' = [cur EXCEPT ![c] = e]
        /\ UNCHANGED <<script, lists, status, given, cells, resets>>
    BY <1>15 DEF PullEnd
  <2> HIDE DEF e
  <2>3. QED
    BY <1>0, <1>10, <2>1, <2>2
<1>20. CASE UNCHANGED vars
  <2>1. ListType'
    BY <1>0, <1>20, ListsFixed DEF vars, script
  <2>2. QED
    BY <1>2, <1>20, <2>1 DEF vars, script, cursors
<1>21. QED
  BY <1>3, <1>4, <1>5, <1>6, <1>7, <1>9, <1>11, <1>12, <1>13, <1>14, <1>15, <1>20
     DEF Next, Run, Pull


-----------------------------------------------------------------------------
(***************************************************************************)
(* The loops of anchor_deletions.                                          *)
(***************************************************************************)

\* Numbers and membership, from the types.
LEMMA Typed ==
  ASSUME TypeOK
  PROVE  /\ nSrc \in Nat /\ nTgt \in Nat /\ si \in 0 .. nSrc /\ last \in Buckets
         /\ Deleted = {s \in SrcRows : s2t[s] = NoRow}
         /\ Deleted \subseteq SrcRows
         /\ \A s \in SrcRows : s2t[s] \in TgtRows \cup {NoRow}
         /\ delHead \in [Buckets -> SrcRows \cup {NoRow}]
         /\ delNext \in [SrcRows -> SrcRows \cup Buckets \cup {NoRow, Junk}]
         /\ cur \in [Cursors -> CursorState]
         /\ given \in [Cursors -> SUBSET Row]
BY DEF TypeOK, InputType, ListType, Deleted, R!Deleted, R!Pairing

\* No row is before the first; Init's bucket is its anchor.
LEMMA FirstAnchor == Anchor(0) = IF atEnd THEN nTgt ELSE 0
<1>1. R!PairedBefore(0) = {}
  BY DEF R!PairedBefore
<1>2. QED
  BY <1>1 DEF Anchor, R!Anchor

\* The anchor of the row after a paired row, and after a deleted one.
LEMMA NextAnchor ==
  ASSUME TypeOK, NEW s \in SrcRows
  PROVE  Anchor(s + 1) = IF s2t[s] = NoRow THEN Anchor(s)
                         ELSE IF atEnd THEN nTgt ELSE s2t[s] + 1
<1>0. nSrc \in Nat /\ s \in Nat
  BY Typed
<1>1. CASE s2t[s] = NoRow
  <2>1. R!PairedBefore(s + 1) = R!PairedBefore(s)
    BY <1>0, <1>1 DEF R!PairedBefore
  <2>2. R!LastPairedBefore(s + 1) = R!LastPairedBefore(s)
    BY <2>1 DEF R!LastPairedBefore
  <2>3. QED
    BY <1>1, <2>1, <2>2 DEF Anchor, R!Anchor
<1>2. CASE s2t[s] # NoRow
  <2>1. s \in R!PairedBefore(s + 1)
    BY <1>0, <1>2 DEF R!PairedBefore
  <2>2. \A q \in R!PairedBefore(s + 1) : q <= s /\ q \in Nat
    BY <1>0 DEF R!PairedBefore
  <2>3. \A p \in R!PairedBefore(s + 1) :
          (\A q \in R!PairedBefore(s + 1) : q <= p) => p = s
    BY <1>0, <2>1, <2>2
  <2>4. R!LastPairedBefore(s + 1) = s
    BY <2>1, <2>2, <2>3 DEF R!LastPairedBefore
  <2>5. QED
    BY <1>2, <2>1, <2>4 DEF Anchor, R!Anchor
<1>3. QED
  BY <1>1, <1>2

\* Anchors depend on the edit script alone.
LEMMA AnchorFixed ==
  ASSUME UNCHANGED script
  PROVE  /\ \A s : Anchor(s)' = Anchor(s)
         /\ Deleted' = Deleted
         /\ Buckets' = Buckets
BY ScriptFixed DEF Anchor, Deleted

\* The anchor of the row the forward loop comes to.
LEMMA CarriedAnchor ==
  ASSUME UNCHANGED script, si' = si + 1
  PROVE  Anchor(si)' = Anchor(si + 1)
BY DEF script, Anchor, R!Anchor, R!PairedBefore, R!LastPairedBefore

\* Before the first turn no row is parked and no bucket has a head.
LEMMA ListsSoundInit == Init => ListsSound
<1> SUFFICES ASSUME Init PROVE ListsSound
  OBVIOUS
<1>1. TypeOK
  BY InitTypeOK
<1>2. Parked
  <2>1. last = Anchor(si) /\ phase = "anchor"
    BY FirstAnchor DEF Init
  <2>2. \A b \in Buckets : delHead[b] = NoRow
    BY DEF Init
  <2>3. \A s \in Deleted : ~(s < si)
    BY <1>1, Typed DEF Init
  <2>4. QED
    BY <2>1, <2>2, <2>3 DEF Parked
<1>3. Threaded
  BY DEF Init, Threaded
<1>4. \A c \in Cursors : Positioned(c)
  BY DEF Init, Positioned, Closed
<1>5. QED
  BY <1>2, <1>3, <1>4 DEF ListsSound

\* The forward loop parks each deletion's anchor, and the backward loop has
\* not overwritten one it still needs.
LEMMA ParkedNext == IInv /\ [Next]_vars => Parked'
<1> SUFFICES ASSUME TypeOK, Parked, Threaded, [Next]_vars PROVE Parked'
  BY DEF IInv, ListsSound
<1>0. /\ nSrc \in Nat /\ nTgt \in Nat /\ si \in 0 .. nSrc /\ last \in Buckets
      /\ Deleted = {s \in SrcRows : s2t[s] = NoRow}
      /\ \A s \in SrcRows : s2t[s] \in TgtRows \cup {NoRow}
      /\ delHead \in [Buckets -> SrcRows \cup {NoRow}]
      /\ delNext \in [SrcRows -> SrcRows \cup Buckets \cup {NoRow, Junk}]
  BY Typed
<1>1. UNCHANGED script
  BY DEF Next, Run, Pull, PassPaired, ParkDeleted, EndAnchor, Thread, EndRun, Open,
         Reset, PullDeleted, PullTarget, PullEnd, FailContext, vars, script
<1>2. /\ \A s : Anchor(s)' = Anchor(s)
      /\ Deleted' = Deleted
      /\ Buckets' = Buckets
  BY <1>1, AnchorFixed
<1>3. CASE PassPaired
  <2>1. si \in SrcRows /\ si' = si + 1 /\ si \notin Deleted
        /\ phase = "anchor" /\ phase' = "anchor" /\ delHead' = delHead
        /\ delNext' = delNext
    BY <1>0, <1>3 DEF PassPaired
  <2>2. last' = Anchor(si + 1)
    <3>1. CASE atEnd
      <4>1. Anchor(si) = nTgt /\ Anchor(si + 1) = nTgt
        BY <3>1 DEF Anchor, R!Anchor
      <4>2. QED
        BY <1>3, <2>1, <3>1, <4>1 DEF PassPaired, Parked
    <3>2. CASE ~atEnd
      BY <1>3, <2>1, <3>2, NextAnchor DEF PassPaired
    <3>3. QED
      BY <3>1, <3>2
  <2>3. \A s \in Deleted : s < si + 1 => s < si
    BY <1>0, <2>1
  <2>4. Anchor(si)' = Anchor(si + 1)
    BY <1>1, <2>1, CarriedAnchor
  <2>5. QED
    BY <1>2, <2>1, <2>2, <2>3, <2>4 DEF Parked
<1>4. CASE ParkDeleted
  <2>1. si \in SrcRows /\ si' = si + 1 /\ si \in Deleted /\ s2t[si] = NoRow
        /\ phase = "anchor" /\ phase' = "anchor" /\ delHead' = delHead
        /\ last' = last
    BY <1>0, <1>4 DEF ParkDeleted
  <2>2. last = Anchor(si) /\ Anchor(si + 1) = Anchor(si)
    BY <2>1, NextAnchor DEF Parked
  <2>3. delNext'[si] = last /\ \A s \in SrcRows \ {si} : delNext'[s] = delNext[s]
    BY <1>0, <1>4, <2>1 DEF ParkDeleted
  <2>4. \A s \in Deleted : s < si + 1 => s < si \/ s = si
    BY <1>0, <2>1
  <2>5. \A s \in Deleted : s < si + 1 => Anchor(s) \in Buckets /\ delNext'[s] = Anchor(s)
    BY <1>0, <2>1, <2>2, <2>3, <2>4 DEF Parked
  <2>6. Anchor(si)' = Anchor(si + 1)
    BY <1>1, <2>1, CarriedAnchor
  <2>7. QED
    BY <1>2, <2>1, <2>2, <2>5, <2>6 DEF Parked
<1>5. CASE EndAnchor
  <2>1. \A s \in Deleted : s < si
    BY <1>0, <1>5 DEF EndAnchor
  <2>2. QED
    BY <1>2, <1>5, <2>1 DEF EndAnchor, Parked
<1>6. CASE Thread
  <2>1. \A s \in Deleted : s < si - 1 => s < si /\ s # si - 1
    BY <1>0
  <2>2. \A s \in SrcRows : s # si - 1 => delNext'[s] = delNext[s]
    BY <1>0, <1>6 DEF Thread
  <2>3. QED
    BY <1>0, <1>2, <1>6, <2>1, <2>2 DEF Thread, Parked
<1>7. CASE EndRun
  BY <1>2, <1>7 DEF EndRun, Parked
<1>8. ASSUME UNCHANGED lists PROVE Parked'
  BY <1>2, <1>8 DEF lists, Parked
<1>9. QED
  BY <1>3, <1>4, <1>5, <1>6, <1>7, <1>8
     DEF Next, Run, Pull, Open, Reset, PullDeleted, PullTarget, PullEnd, FailContext,
         vars, lists

\* The backward loop extends a bucket's list at its head.
LEMMA ThreadedNext == IInv /\ [Next]_vars => Threaded'
<1> SUFFICES ASSUME TypeOK, Parked, Threaded, [Next]_vars PROVE Threaded'
  BY DEF IInv, ListsSound
<1>0. /\ nSrc \in Nat /\ nTgt \in Nat /\ si \in 0 .. nSrc
      /\ Deleted = {s \in SrcRows : s2t[s] = NoRow}
      /\ delHead \in [Buckets -> SrcRows \cup {NoRow}]
      /\ delNext \in [SrcRows -> SrcRows \cup Buckets \cup {NoRow, Junk}]
  BY Typed
<1>1. UNCHANGED script
  BY DEF Next, Run, Pull, PassPaired, ParkDeleted, EndAnchor, Thread, EndRun, Open,
         Reset, PullDeleted, PullTarget, PullEnd, FailContext, vars, script
<1>2. /\ \A s : Anchor(s)' = Anchor(s)
      /\ Deleted' = Deleted
      /\ Buckets' = Buckets
  BY <1>1, AnchorFixed
\* The rows of a bucket, and those after a row, as far as the loop got.
<1> DEFINE InBucket(i, b) == {u \in Deleted : u >= i /\ Anchor(u) = b}
           AfterRow(s) == {u \in Deleted : u > s /\ Anchor(u) = Anchor(s)}
<1>3. ASSUME NEW i, i = si',
             phase' # "anchor" =>
               /\ \A b \in Buckets : FirstOf(InBucket(i, b), delHead'[b])
               /\ \A s \in Deleted : s >= i => FirstOf(AfterRow(s), delNext'[s])
               /\ phase' = "ready" => i = 0
      PROVE Threaded'
  <2>1. \A b : InBucket(i, b) = {s \in Deleted : s >= si /\ Anchor(s) = b}'
    BY <1>2, <1>3
  <2>2. \A s : AfterRow(s) = {u \in Deleted : u > s /\ Anchor(u) = Anchor(s)}'
    BY <1>2
  <2>3. ASSUME phase' # "anchor", NEW b \in Buckets'
        PROVE  FirstOf({s \in Deleted : s >= si /\ Anchor(s) = b}, delHead[b])'
    <3>1. FirstOf(InBucket(i, b), delHead'[b])
      BY <1>2, <1>3, <2>3
    <3> HIDE DEF InBucket
    <3>2. QED
      BY <2>1, <3>1 DEF FirstOf
  <2>4. ASSUME phase' # "anchor", NEW s \in Deleted', s >= si'
        PROVE  FirstOf({u \in Deleted : u > s /\ Anchor(u) = Anchor(s)}, delNext[s])'
    <3>1. FirstOf(AfterRow(s), delNext'[s])
      BY <1>2, <1>3, <2>4
    <3> HIDE DEF AfterRow
    <3>2. QED
      BY <2>2, <3>1 DEF FirstOf
  <2>5. phase' = "ready" => si' = 0
    BY <1>3
  <2>6. QED
    BY <2>3, <2>4, <2>5 DEF Threaded
<1>4. CASE PassPaired \/ ParkDeleted
  BY <1>4 DEF PassPaired, ParkDeleted, Threaded
<1>5. CASE EndAnchor
  <2>1. \A b : InBucket(si, b) = {}
    BY <1>0, <1>5 DEF EndAnchor
  <2>2. \A b \in Buckets : delHead'[b] = NoRow
    BY <1>5 DEF EndAnchor, Parked
  <2>3. \A s \in Deleted : ~(s >= si)
    BY <1>0, <1>5 DEF EndAnchor
  <2>4. \A b \in Buckets : FirstOf(InBucket(si, b), delHead'[b])
    BY <2>1, <2>2 DEF FirstOf
  <2>5. si' = si /\ phase' = "thread"
    BY <1>5 DEF EndAnchor
  <2> HIDE DEF InBucket, AfterRow
  <2>6. QED
    BY <1>3, <2>3, <2>4, <2>5
<1>6. CASE Thread /\ s2t[si - 1] # NoRow
  <2>1. /\ phase = "thread" /\ phase' = "thread" /\ si' = si - 1
        /\ delHead' = delHead /\ delNext' = delNext
    BY <1>6 DEF Thread
  <2>2. \A u \in Deleted : u >= si - 1 => u >= si
    BY <1>0, <1>6
  <2>3. \A b : InBucket(si - 1, b) = InBucket(si, b)
    BY <1>0, <2>2
  <2>4. \A b \in Buckets : FirstOf(InBucket(si - 1, b), delHead[b])
    BY <2>1, <2>3 DEF Threaded
  <2>5. \A s \in Deleted : s >= si - 1 => FirstOf(AfterRow(s), delNext[s])
    BY <2>1, <2>2 DEF Threaded
  <2> HIDE DEF InBucket, AfterRow
  <2>6. QED
    BY <1>3, <2>1, <2>4, <2>5
<1>7. CASE Thread /\ s2t[si - 1] = NoRow
  <2> DEFINE s0 == si - 1
             b0 == delNext[s0]
  <2>1. /\ phase = "thread" /\ phase' = "thread" /\ si' = s0
        /\ delNext' = [delNext EXCEPT ![s0] = delHead[b0]]
        /\ delHead' = [delHead EXCEPT ![b0] = s0]
    BY <1>7 DEF Thread
  <2>2. s0 \in Deleted /\ s0 \in SrcRows /\ s0 \in Int /\ s0 < si
    BY <1>0, <1>7 DEF Thread
  <2>3. b0 = Anchor(s0) /\ b0 \in Buckets
    BY <2>1, <2>2 DEF Parked
  <2>4. \A u \in Deleted : u \in Int /\ (u >= s0 <=> u = s0 \/ u >= si)
                           /\ (u >= si <=> u > s0)
    BY <1>0, <2>2
  <2>5. \A b \in Buckets : FirstOf(InBucket(si, b), delHead[b])
    BY <2>1 DEF Threaded
  <2>6. \A s \in Deleted : s >= si => FirstOf(AfterRow(s), delNext[s])
    BY <2>1 DEF Threaded
  <2>7. AfterRow(s0) = InBucket(si, b0)
    BY <2>3, <2>4
  <2>8. /\ delNext'[s0] = delHead[b0]
        /\ \A s \in Deleted : s # s0 => delNext'[s] = delNext[s]
    BY <1>0, <2>1, <2>2
  <2>9. \A s \in Deleted : s >= s0 => FirstOf(AfterRow(s), delNext'[s])
    <3> HIDE DEF InBucket, AfterRow, s0, b0
    <3>1. FirstOf(AfterRow(s0), delNext'[s0])
      BY <2>3, <2>5, <2>7, <2>8
    <3>2. QED
      BY <2>4, <2>6, <2>8, <3>1
  <2>10. \A b \in Buckets : FirstOf(InBucket(s0, b), delHead'[b])
    <3>1. SUFFICES ASSUME NEW b \in Buckets PROVE FirstOf(InBucket(s0, b), delHead'[b])
      OBVIOUS
    <3>2. CASE b = b0
      <4>1. delHead'[b] = s0
        BY <1>0, <2>1, <2>3, <3>2
      <4>2. s0 \in InBucket(s0, b) /\ \A y \in InBucket(s0, b) : s0 <= y
        BY <2>2, <2>3, <2>4, <3>2
      <4>3. s0 # NoRow
        BY <1>0, <2>2
      <4>4. QED
        BY <4>1, <4>2, <4>3 DEF FirstOf
    <3>3. CASE b # b0
      <4>1. InBucket(s0, b) = InBucket(si, b)
        BY <2>3, <2>4, <3>3
      <4>2. delHead'[b] = delHead[b]
        BY <1>0, <2>1, <2>3, <3>3
      <4> HIDE DEF InBucket, s0, b0
      <4>3. QED
        BY <2>5, <4>1, <4>2
    <3>4. QED
      BY <3>2, <3>3
  <2>11. \A i : i = s0 => Threaded'
    <3> HIDE DEF InBucket, AfterRow, s0, b0
    <3>1. QED
      BY <1>3, <2>1, <2>9, <2>10
  <2>12. QED
    BY <2>11
<1>8. CASE EndRun
  <2>1. /\ phase = "thread" /\ si = 0 /\ si' = si
        /\ delHead' = delHead /\ delNext' = delNext
    BY <1>8 DEF EndRun
  <2>2. \A b \in Buckets : FirstOf(InBucket(si, b), delHead[b])
    BY <2>1 DEF Threaded
  <2>3. \A s \in Deleted : s >= si => FirstOf(AfterRow(s), delNext[s])
    BY <2>1 DEF Threaded
  <2> HIDE DEF InBucket, AfterRow
  <2>4. QED
    BY <1>3, <2>1, <2>2, <2>3
<1>9. ASSUME UNCHANGED lists PROVE Threaded'
  <2>1. /\ phase' = phase /\ si' = si
        /\ delHead' = delHead /\ delNext' = delNext
    BY <1>9 DEF lists
  <2>2. phase # "anchor" =>
          /\ \A b \in Buckets : FirstOf(InBucket(si, b), delHead[b])
          /\ \A s \in Deleted : s >= si => FirstOf(AfterRow(s), delNext[s])
          /\ phase = "ready" => si = 0
    BY <2>1 DEF Threaded
  <2> HIDE DEF InBucket, AfterRow
  <2>3. QED
    BY <1>3, <2>1, <2>2
<1>10. QED
  BY <1>4, <1>5, <1>6, <1>7, <1>8, <1>9
     DEF Next, Run, Pull, Open, Reset, PullDeleted, PullTarget, PullEnd, FailContext,
         vars, lists

-----------------------------------------------------------------------------
(***************************************************************************)
(* The cursors.                                                            *)
(***************************************************************************)

\* The lists once the run has returned.
LEMMA ReadyLists ==
  ASSUME IInv, phase = "ready"
  PROVE  /\ \A s \in Deleted : s \in Nat /\ Anchor(s) \in Buckets
         /\ \A b \in Buckets : FirstOf({s \in Deleted : Anchor(s) = b}, delHead[b])
         /\ \A s \in Deleted :
              FirstOf({u \in Deleted : u > s /\ Anchor(u) = Anchor(s)}, delNext[s])
<1>1. si = 0 /\ \A s \in Deleted : s \in Nat /\ s >= si
  BY Typed DEF IInv, ListsSound, Threaded
<1>2. \A b : {s \in Deleted : s >= si /\ Anchor(s) = b} = {s \in Deleted : Anchor(s) = b}
  BY <1>1
<1>3. \A s \in Deleted : Anchor(s) \in Buckets
  BY DEF IInv, ListsSound, Parked
<1>4. \A b \in Buckets : FirstOf({s \in Deleted : Anchor(s) = b}, delHead[b])
  BY <1>2 DEF IInv, ListsSound, Threaded
<1>5. \A s \in Deleted :
        FirstOf({u \in Deleted : u > s /\ Anchor(u) = Anchor(s)}, delNext[s])
  BY <1>1 DEF IInv, ListsSound, Threaded
<1>6. QED
  BY <1>1, <1>3, <1>4, <1>5

\* Opening or resetting: nothing is in front of the first bucket's head.
LEMMA PassedNone ==
  ASSUME IInv, phase = "ready"
  PROVE  /\ Passed(0, delHead[0]) = {}
         /\ delHead[0] # NoRow => delHead[0] \in Deleted /\ Anchor(delHead[0]) = 0
<1>0. nSrc \in Nat /\ nTgt \in Nat
  BY Typed DEF IInv
<1>1. FirstOf({s \in Deleted : Anchor(s) = 0}, delHead[0])
  BY <1>0, ReadyLists
<1>2. {u \in TgtRows : u < 0} = {}
  BY <1>0
<1>3. \A u \in Deleted : ~(Anchor(u) < 0)
  BY <1>0, ReadyLists
<1>4. \A u \in Deleted : Anchor(u) = 0 => delHead[0] # NoRow /\ ~(u < delHead[0])
  BY <1>1, ReadyLists DEF FirstOf
<1>5. {u \in Deleted :
         Anchor(u) < 0 \/ (Anchor(u) = 0 /\ (delHead[0] = NoRow \/ u < delHead[0]))} = {}
  BY <1>3, <1>4
<1>6. Passed(0, delHead[0]) = {}
  BY <1>2, <1>5 DEF Passed
<1>7. QED
  BY <1>1, <1>6 DEF FirstOf

\* Pulling a deletion: the list's next entry is the next row of the bucket.
LEMMA PassedDeleted ==
  ASSUME IInv, phase = "ready", NEW b \in Buckets, NEW d \in Deleted, Anchor(d) = b
  PROVE  /\ Passed(b, delNext[d]) = Passed(b, d) \cup {R!DeletedRow(d)}
         /\ delNext[d] # NoRow => delNext[d] \in Deleted /\ Anchor(delNext[d]) = b
<1> DEFINE n == delNext[d]
           Before(x) == {u \in Deleted :
                           Anchor(u) < b \/ (Anchor(u) = b /\ (x = NoRow \/ u < x))}
<1>0. \A s \in Deleted : s \in Nat /\ Anchor(s) \in Buckets
  BY ReadyLists
<1>1. FirstOf({u \in Deleted : u > d /\ Anchor(u) = b}, n)
  BY ReadyLists
<1>2. d # NoRow
  BY <1>0
<1>3. \A u \in Deleted : Anchor(u) = b => ((n = NoRow \/ u < n) <=> (u < d \/ u = d))
  BY <1>0, <1>1 DEF FirstOf
<1>4. ~(Anchor(d) < b)
  BY <1>0
<1>5. Before(n) = Before(d) \cup {d}
  <2> HIDE DEF n
  <2>1. QED
    BY <1>2, <1>3, <1>4
<1>6. {R!DeletedRow(s) : s \in Before(n)} =
        {R!DeletedRow(s) : s \in Before(d)} \cup {R!DeletedRow(d)}
  <2> HIDE DEF Before, n
  <2>1. QED
    BY <1>5
<1>7. Passed(b, n) = Passed(b, d) \cup {R!DeletedRow(d)}
  <2>1. \A x : Passed(b, x) = {R!TargetRow(t) : t \in {u \in TgtRows : u < b}} \cup
                             {R!DeletedRow(s) : s \in Before(x)}
    BY DEF Passed
  <2> HIDE DEF Before, n
  <2>2. QED
    BY <1>6, <2>1
<1>8. QED
  BY <1>1, <1>7 DEF FirstOf

\* Pulling a target row: its bucket is spent and the next one not begun.
LEMMA PassedTarget ==
  ASSUME IInv, phase = "ready", NEW b \in TgtRows
  PROVE  LET h == delHead[b + 1]
         IN  /\ Passed(b + 1, h) = Passed(b, NoRow) \cup {R!TargetRow(b)}
             /\ h # NoRow => h \in Deleted /\ Anchor(h) = b + 1
<1> DEFINE h == delHead[b + 1]
           Before(c, x) == {u \in Deleted :
                              Anchor(u) < c \/ (Anchor(u) = c /\ (x = NoRow \/ u < x))}
           Targets(c) == {u \in TgtRows : u < c}
<1>0. /\ \A s \in Deleted : s \in Nat /\ Anchor(s) \in Buckets
      /\ nTgt \in Nat /\ b + 1 \in Buckets
  BY ReadyLists, Typed DEF IInv
<1>1. FirstOf({u \in Deleted : Anchor(u) = b + 1}, h)
  BY <1>0, ReadyLists
<1>2. \A u \in Deleted : Anchor(u) = b + 1 => h # NoRow /\ ~(u < h)
  BY <1>0, <1>1 DEF FirstOf
<1>3. \A u \in Deleted : Anchor(u) < b + 1 <=> (Anchor(u) < b \/ Anchor(u) = b)
  BY <1>0
<1>4. Before(b + 1, h) = Before(b, NoRow)
  <2> HIDE DEF h
  <2>1. QED
    BY <1>2, <1>3
<1>5. Targets(b + 1) = Targets(b) \cup {b}
  BY <1>0
<1>6. {R!TargetRow(t) : t \in Targets(b + 1)}
      = {R!TargetRow(t) : t \in Targets(b)} \cup {R!TargetRow(b)}
  <2> HIDE DEF Targets
  <2>1. QED
    BY <1>5
<1>7. \A c, x : Passed(c, x) = {R!TargetRow(t) : t \in Targets(c)} \cup
                              {R!DeletedRow(s) : s \in Before(c, x)}
  BY DEF Passed
<1>8. Passed(b + 1, h) = Passed(b, NoRow) \cup {R!TargetRow(b)}
  <2> HIDE DEF Before, Targets, h
  <2>1. QED
    BY <1>4, <1>6, <1>7
<1>9. QED
  BY <1>1, <1>8 DEF FirstOf

\* What Passed is made of depends on the edit script alone.
LEMMA PassedFixed ==
  ASSUME UNCHANGED script, NEW b, NEW d
  PROVE  Passed(b, d)' = Passed(b, d)
<1>1. /\ \A s : Anchor(s)' = Anchor(s) /\ R!DeletedRow(s)' = R!DeletedRow(s)
      /\ \A t : R!TargetRow(t)' = R!TargetRow(t)
      /\ Deleted' = Deleted /\ TgtRows' = TgtRows
  BY ScriptFixed, AnchorFixed
<1>2. QED
  BY <1>1 DEF Passed

\* A cursor that a step leaves alone keeps its place.
LEMMA PositionedFixed ==
  ASSUME NEW c \in Cursors, Positioned(c), UNCHANGED script,
         cur'[c] = cur[c], given'[c] = given[c], phase = "ready" => phase' = "ready"
  PROVE  Positioned(c)'
<1>1. \A b, d : Passed(b, d)' = Passed(b, d)
  BY PassedFixed
<1>2. PICK e : e = cur[c]
  OBVIOUS
<1>3. Passed(cur[c].bucket, cur[c].del)' = Passed(e.bucket, e.del)
  <2>1. cur'[c] = e
    BY <1>2
  <2>2. /\ \A s : Anchor(s)' = Anchor(s) /\ R!DeletedRow(s)' = R!DeletedRow(s)
        /\ \A t : R!TargetRow(t)' = R!TargetRow(t)
        /\ Deleted' = Deleted /\ TgtRows' = TgtRows
    BY ScriptFixed, AnchorFixed
  <2>3. QED
    BY <2>1, <2>2 DEF Passed
<1>4. nTgt' = nTgt /\ Deleted' = Deleted /\ \A s : Anchor(s)' = Anchor(s)
  BY AnchorFixed DEF script
<1>5. CASE ~e.open
  BY <1>2, <1>5 DEF Positioned, Closed
<1>6. CASE e.open
  <2>1. phase = "ready" /\ given[c] = Passed(e.bucket, e.del)
    BY <1>2, <1>6 DEF Positioned
  <2>2. e.del # NoRow => e.del \in Deleted /\ Anchor(e.del) = e.bucket
    BY <1>2, <1>6 DEF Positioned
  <2>3. e.done => e.bucket = nTgt /\ e.del = NoRow /\ ~e.live
    BY <1>2, <1>6 DEF Positioned
  <2>4. (cur[c].del # NoRow => cur[c].del \in Deleted /\ Anchor(cur[c].del) = cur[c].bucket)'
    <3>1. Anchor(cur[c].del)' = Anchor(e.del)
      BY <1>2 DEF script, Anchor, R!Anchor, R!PairedBefore, R!LastPairedBefore
    <3>2. QED
      BY <1>2, <1>4, <2>2, <3>1
  <2>5. QED
    BY <1>2, <1>3, <1>4, <1>6, <2>1, <2>3, <2>4 DEF Positioned
<1>7. QED
  BY <1>5, <1>6

\* A cursor that is at e after the step.
LEMMA PositionedAt ==
  ASSUME NEW c \in Cursors, UNCHANGED script, phase' = "ready",
         NEW e, cur'[c] = e, e.open,
         e.del # NoRow => e.del \in Deleted /\ Anchor(e.del) = e.bucket,
         e.done => e.bucket = nTgt /\ e.del = NoRow /\ ~e.live,
         given'[c] = Passed(e.bucket, e.del)
  PROVE  Positioned(c)'
<1>1. Passed(cur[c].bucket, cur[c].del)' = Passed(e.bucket, e.del)
  <2>1. /\ \A s : Anchor(s)' = Anchor(s) /\ R!DeletedRow(s)' = R!DeletedRow(s)
        /\ \A t : R!TargetRow(t)' = R!TargetRow(t)
        /\ Deleted' = Deleted /\ TgtRows' = TgtRows
    BY ScriptFixed, AnchorFixed
  <2>2. QED
    BY <2>1 DEF Passed
<1>2. Anchor(cur[c].del)' = Anchor(e.del)
  BY DEF script, Anchor, R!Anchor, R!PairedBefore, R!LastPairedBefore
<1>3. nTgt' = nTgt /\ Deleted' = Deleted
  BY AnchorFixed DEF script
<1>4. QED
  BY <1>1, <1>2, <1>3 DEF Positioned

\* The place of the one cursor a step moves.
LEMMA MovedPosition ==
  ASSUME IInv, NEW c \in Cursors, Open(c) \/ Reset(c) \/ Pull(c)
  PROVE  Positioned(c)'
<1>0. /\ nSrc \in Nat /\ nTgt \in Nat
      /\ cur \in [Cursors -> CursorState] /\ given \in [Cursors -> SUBSET Row]
      /\ cur[c] \in CursorState
  BY Typed DEF IInv
<1>1. Positioned(c) /\ UNCHANGED script /\ phase = "ready" /\ phase' = "ready"
  BY DEF Open, Reset, Pull, PullDeleted, PullTarget, PullEnd, Pulls, script, lists,
         IInv, ListsSound, Positioned
<1>2. CASE Open(c) \/ Reset(c)
  <2> DEFINE e == cur'[c]
  <2>1. e.open /\ ~e.done /\ e.bucket = 0 /\ e.del = delHead[0]
    <3>1. CASE Open(c)
      BY <1>0, <3>1 DEF Open, Rewound, CursorState
    <3>2. CASE Reset(c)
      BY <1>0, <3>2 DEF Reset, Rewound, CursorState
    <3>3. QED
      BY <1>2, <3>1, <3>2
  <2>3. given'[c] = {}
    BY <1>0, <1>1, <1>2 DEF Open, Reset, Positioned
  <2>4. Passed(e.bucket, e.del) = {} /\ (e.del # NoRow => e.del \in Deleted /\ Anchor(e.del) = e.bucket)
    BY <1>1, <2>1, PassedNone
  <2>5. QED
    BY <1>1, <2>1, <2>3, <2>4, PositionedAt
<1>3. CASE PullDeleted(c)
  <2> DEFINE b == cur[c].bucket
             d == cur[c].del
             e == cur'[c]
  <2>1. b \in Buckets /\ d \in Deleted /\ Anchor(d) = b /\ given[c] = Passed(b, d)
    BY <1>0, <1>1, <1>3 DEF PullDeleted, Pulls, Positioned, CursorState
  <2>2. e.open /\ ~e.done /\ e.bucket = b /\ e.del = delNext[d]
    BY <1>0, <1>3 DEF PullDeleted, Pulls, CursorState
  <2>3. given'[c] = Passed(b, d) \cup {R!DeletedRow(d)}
    BY <1>0, <1>3, <2>1 DEF PullDeleted
  <2>4. /\ Passed(b, delNext[d]) = Passed(b, d) \cup {R!DeletedRow(d)}
        /\ delNext[d] # NoRow => delNext[d] \in Deleted /\ Anchor(delNext[d]) = b
    BY <1>1, <2>1, PassedDeleted
  <2>5. given'[c] = Passed(e.bucket, e.del)
    BY <2>2, <2>3, <2>4
  <2>6. e.del # NoRow => e.del \in Deleted /\ Anchor(e.del) = e.bucket
    BY <2>2, <2>4
  <2>7. QED
    BY <1>1, <2>2, <2>5, <2>6, PositionedAt
<1>4. CASE PullTarget(c)
  <2> DEFINE b == cur[c].bucket
             h == delHead[b + 1]
             e == cur'[c]
  <2>1. b \in TgtRows /\ given[c] = Passed(b, NoRow)
    BY <1>0, <1>1, <1>4 DEF PullTarget, Pulls, Positioned, CursorState
  <2>2. e.open /\ ~e.done /\ e.bucket = b + 1 /\ e.del = h
    BY <1>0, <1>4 DEF PullTarget, Pulls, CursorState
  <2>3. given'[c] = Passed(b, NoRow) \cup {R!TargetRow(b)}
    BY <1>0, <1>4, <2>1 DEF PullTarget
  <2>4. /\ Passed(b + 1, h) = Passed(b, NoRow) \cup {R!TargetRow(b)}
        /\ h # NoRow => h \in Deleted /\ Anchor(h) = b + 1
    BY <1>1, <2>1, PassedTarget
  <2>5. given'[c] = Passed(e.bucket, e.del)
    BY <2>2, <2>3, <2>4
  <2>6. e.del # NoRow => e.del \in Deleted /\ Anchor(e.del) = e.bucket
    BY <2>2, <2>4
  <2>7. QED
    BY <1>1, <2>2, <2>5, <2>6, PositionedAt
<1>5. CASE PullEnd(c)
  <2> DEFINE e == cur'[c]
  <2>1. e.open /\ ~e.live /\ e.bucket = nTgt /\ e.del = NoRow /\ cur[c].bucket = nTgt
        /\ cur[c].del = NoRow
    BY <1>0, <1>5 DEF PullEnd, Pulls, CursorState
  <2>2. given'[c] = Passed(e.bucket, e.del)
    BY <1>1, <1>5, <2>1 DEF PullEnd, Pulls, Positioned
  <2>3. QED
    BY <1>1, <2>1, <2>2, PositionedAt
<1>6. QED
  BY <1>2, <1>3, <1>4, <1>5 DEF Pull

\* Every step leaves every cursor where the rows it was given say.
LEMMA PositionedNext == IInv /\ [Next]_vars => \A c \in Cursors : Positioned(c)'
<1> SUFFICES ASSUME IInv, [Next]_vars, NEW c \in Cursors PROVE Positioned(c)'
  OBVIOUS
<1>0. Positioned(c) /\ cur \in [Cursors -> CursorState] /\ given \in [Cursors -> SUBSET Row]
  BY Typed DEF IInv, ListsSound
<1>1. CASE Run \/ FailContext \/ UNCHANGED vars
  <2>1. UNCHANGED script /\ cur' = cur /\ given' = given
    BY <1>1 DEF Run, PassPaired, ParkDeleted, EndAnchor, Thread, EndRun, FailContext,
                vars, script, cursors
  <2>2. phase = "ready" => phase' = "ready"
    BY <1>1 DEF Run, PassPaired, ParkDeleted, EndAnchor, Thread, EndRun, FailContext,
                vars, lists
  <2>3. QED
    BY <1>0, <2>1, <2>2, PositionedFixed
<1>2. ASSUME NEW x \in Cursors, Open(x) \/ Reset(x) \/ Pull(x), x # c
      PROVE  Positioned(c)'
  <2>1. UNCHANGED script /\ phase' = phase
    BY <1>2 DEF Open, Reset, Pull, PullDeleted, PullTarget, PullEnd, script, lists
  <2>2. cur'[c] = cur[c] /\ given'[c] = given[c]
    BY <1>0, <1>2 DEF Open, Reset, Pull, PullDeleted, PullTarget, PullEnd
  <2>3. QED
    BY <1>0, <2>1, <2>2, PositionedFixed
<1>3. QED
  BY <1>1, <1>2, MovedPosition DEF Next

\* The inductive invariant: types together with the soundness of the lists.
THEOREM Inductive == Spec => []IInv
<1>1. Init => IInv
  BY InitTypeOK, ListsSoundInit DEF IInv
<1>2. IInv /\ [Next]_vars => IInv'
  BY NextTypeOK, ParkedNext, ThreadedNext, PositionedNext DEF IInv, ListsSound
<1>3. QED
  BY <1>1, <1>2, PTL DEF Spec

\* However large the tables and however many cursors are open, a cursor never
\* follows a link anchor_deletions has not written.
THEOREM TypeCorrect == Spec => []TypeOK
<1>1. IInv => TypeOK
  BY DEF IInv
<1>2. QED
  BY <1>1, Inductive, PTL

\* The buckets threaded in place hold each deletion once, in its bucket and in
\* source order, and every cursor's place agrees with the rows it was given.
THEOREM ListsCorrect == Spec => []ListsSound
<1>1. IInv => ListsSound
  BY DEF IInv
<1>2. QED
  BY <1>1, Inductive, PTL

-----------------------------------------------------------------------------
(***************************************************************************)
(* The cursors implement Report.                                           *)
(***************************************************************************)

\* The initial states are initial states of Report.
LEMMA RefinesInit == Init => R!Init
<1> SUFFICES ASSUME Init PROVE R!Init
  OBVIOUS
<1>1. R!Pairing
  BY InitPairing
<1>2. /\ nSrc \in Nat /\ nTgt \in Nat /\ changes \in [TgtRows -> Nat \cup {Alike}]
      /\ status = "ok"
  BY CursorAssumption DEF Init
<1>3. {c \in Cursors : cur[c].open} = {}
  BY DEF Init, Closed
<1>4. [c \in Cursors |-> IF cur[c].live THEN cur[c].row ELSE [kind |-> "none"]]
      = [c \in Cursors |-> R!NoneLive]
  BY DEF Init, Closed, R!NoneLive
<1>5. QED
  BY <1>1, <1>2, <1>3, <1>4 DEF Init, R!Init

\* The rows a cursor has not been given, by its place.
LEMMA RemainingRows ==
  ASSUME IInv, phase = "ready", NEW b \in Buckets, NEW d,
         NEW q \in R!ReportRows \ Passed(b, d)
  PROVE  \/ \E t \in TgtRows : q = R!TargetRow(t) /\ b <= t
         \/ \E s \in Deleted :
              /\ q = R!DeletedRow(s)
              /\ b < Anchor(s) \/ (Anchor(s) = b /\ d # NoRow /\ ~(s < d))
<1>0. nTgt \in Nat /\ \A s \in Deleted : s \in Nat /\ Anchor(s) \in Buckets
  BY ReadyLists, Typed DEF IInv
<1>1. CASE q \in {R!TargetRow(t) : t \in TgtRows}
  <2>1. PICK t \in TgtRows : q = R!TargetRow(t)
    BY <1>1
  <2>2. ~(t < b)
    BY <2>1 DEF Passed
  <2>3. QED
    BY <1>0, <2>1, <2>2
<1>2. CASE q \in {R!DeletedRow(s) : s \in Deleted}
  <2>1. PICK s \in Deleted : q = R!DeletedRow(s)
    BY <1>2
  <2>2. ~(Anchor(s) < b) /\ ~(Anchor(s) = b /\ (d = NoRow \/ s < d))
    BY <2>1 DEF Passed
  <2>3. Anchor(s) \in Int /\ b \in Int
    BY <1>0
  <2>4. b < Anchor(s) \/ Anchor(s) = b
    BY <2>2, <2>3
  <2>5. QED
    BY <2>1, <2>2, <2>4
<1>3. QED
  BY <1>1, <1>2 DEF R!ReportRows, Deleted

\* The two sorts of row, as the order of the report sees them.
LEMMA Orders ==
  ASSUME IInv
  PROVE  /\ \A s, u : R!Before(R!DeletedRow(s), R!DeletedRow(u)) <=>
              (Anchor(s) < Anchor(u) \/ (Anchor(s) = Anchor(u) /\ s < u))
         /\ \A s : \A t \in TgtRows :
              /\ R!Before(R!DeletedRow(s), R!TargetRow(t)) <=> Anchor(s) <= t
              /\ R!Before(R!TargetRow(t), R!DeletedRow(s)) <=> t < Anchor(s)
         /\ \A t, u \in TgtRows : R!Before(R!TargetRow(t), R!TargetRow(u)) <=> t < u
<1>1. \A t \in TgtRows : t # NoRow
  BY Typed DEF IInv
<1>2. QED
  BY <1>1, RowFields DEF R!Before, Anchor

\* The deletion a cursor points to is the least row it was not given.
LEMMA DeletedIsNext ==
  ASSUME IInv, phase = "ready", NEW b \in Buckets, NEW d \in Deleted, Anchor(d) = b
  PROVE  /\ R!DeletedRow(d) \in R!ReportRows \ Passed(b, d)
         /\ \A q \in (R!ReportRows \ Passed(b, d)) \ {R!DeletedRow(d)} :
              R!Before(R!DeletedRow(d), q)
<1>0. /\ nTgt \in Nat /\ \A s \in Deleted : s \in Nat /\ Anchor(s) \in Buckets
      /\ d # NoRow
  BY ReadyLists, Typed DEF IInv
<1>1. R!DeletedRow(d) \in R!ReportRows
  BY DEF R!ReportRows, Deleted
<1>2. R!DeletedRow(d) \notin Passed(b, d)
  <2>1. \A t \in TgtRows : R!DeletedRow(d) # R!TargetRow(t)
    BY <1>0, RowFields
  <2>2. \A u \in Deleted : R!DeletedRow(u) = R!DeletedRow(d) => u = d
    BY RowFields
  <2>3. ~(Anchor(d) < b) /\ ~(d < d)
    BY <1>0
  <2>4. QED
    BY <1>0, <2>1, <2>2, <2>3 DEF Passed
<1>3. ASSUME NEW q \in R!ReportRows \ Passed(b, d), q # R!DeletedRow(d)
      PROVE  R!Before(R!DeletedRow(d), q)
  <2>1. CASE \E t \in TgtRows : q = R!TargetRow(t) /\ b <= t
    BY <2>1, Orders
  <2>2. CASE \E s \in Deleted :
               /\ q = R!DeletedRow(s)
               /\ b < Anchor(s) \/ (Anchor(s) = b /\ ~(s < d))
    <3>1. PICK s \in Deleted :
            /\ q = R!DeletedRow(s)
            /\ b < Anchor(s) \/ (Anchor(s) = b /\ ~(s < d))
      BY <2>2
    <3>2. s # d
      BY <1>3, <3>1
    <3>3. b < Anchor(s) \/ (Anchor(s) = b /\ d < s)
      BY <1>0, <3>1, <3>2
    <3>4. QED
      BY <3>1, <3>3, Orders
  <2>3. QED
    BY <2>1, <2>2, RemainingRows
<1>4. QED
  BY <1>1, <1>2, <1>3

\* So is the target row of its bucket when the bucket's list is spent.
LEMMA TargetIsNext ==
  ASSUME IInv, phase = "ready", NEW b \in TgtRows
  PROVE  /\ R!TargetRow(b) \in R!ReportRows \ Passed(b, NoRow)
         /\ \A q \in (R!ReportRows \ Passed(b, NoRow)) \ {R!TargetRow(b)} :
              R!Before(R!TargetRow(b), q)
<1>0. nTgt \in Nat /\ b \in Buckets /\ b \in Int /\ b # NoRow
  BY Typed DEF IInv
<1>1. R!TargetRow(b) \in R!ReportRows
  BY DEF R!ReportRows
<1>2. R!TargetRow(b) \notin Passed(b, NoRow)
  <2>1. \A s : R!DeletedRow(s) # R!TargetRow(b)
    BY <1>0, RowFields
  <2>2. \A t \in TgtRows : R!TargetRow(t) = R!TargetRow(b) => ~(t < b)
    BY <1>0, RowFields
  <2>3. QED
    BY <2>1, <2>2 DEF Passed
<1>3. ASSUME NEW q \in R!ReportRows \ Passed(b, NoRow), q # R!TargetRow(b)
      PROVE  R!Before(R!TargetRow(b), q)
  <2>1. CASE \E t \in TgtRows : q = R!TargetRow(t) /\ b <= t
    <3>1. PICK t \in TgtRows : q = R!TargetRow(t) /\ b <= t
      BY <2>1
    <3>2. t # b
      <4>1. SUFFICES ASSUME t = b PROVE q = R!TargetRow(b)
        BY <1>3
      <4>2. QED
        BY <3>1, <4>1, Zenon
    <3>3. b < t
      BY <1>0, <3>1, <3>2
    <3>4. R!Before(R!TargetRow(b), R!TargetRow(t))
      BY <3>3, Orders
    <3>5. QED
      BY <3>1, <3>4, Zenon
  <2>2. CASE \E s \in Deleted : q = R!DeletedRow(s) /\ b < Anchor(s)
    BY <2>2, Orders
  <2>3. QED
    BY <1>0, <2>1, <2>2, RemainingRows
<1>4. QED
  BY <1>1, <1>2, <1>3

\* Nothing remains behind the last bucket.
LEMMA AllPassed ==
  ASSUME IInv, phase = "ready"
  PROVE  R!ReportRows \ Passed(nTgt, NoRow) = {}
<1>0. nTgt \in Nat /\ nTgt \in Buckets /\ \A s \in Deleted : Anchor(s) \in Buckets
  BY ReadyLists, Typed DEF IInv
<1>1. \A t \in TgtRows : ~(nTgt <= t)
  BY <1>0
<1>2. \A s \in Deleted : ~(nTgt < Anchor(s))
  BY <1>0
<1>3. QED
  BY <1>0, <1>1, <1>2, RemainingRows

\* What Report sees of the cursors.
Opened == {c \in Cursors : cur[c].open}
\* What the accessors of a live cursor read.
Shown == [c \in Cursors |-> IF cur[c].live THEN cur[c].row ELSE R!NoneLive]

\* A step that moves cursor c to e, as Report sees it.
LEMMA SeenStep ==
  ASSUME IInv, NEW c \in Cursors, NEW e, cur' = [cur EXCEPT ![c] = e]
  PROVE  /\ Opened' = IF e.open THEN Opened \cup {c} ELSE Opened \ {c}
         /\ Shown' = [Shown EXCEPT ![c] = IF e.live THEN e.row ELSE R!NoneLive]
<1>0. cur \in [Cursors -> CursorState]
  BY Typed DEF IInv
<1>1. cur'[c] = e /\ \A x \in Cursors \ {c} : cur'[x] = cur[x]
  BY <1>0
<1>2. R!NoneLive' = R!NoneLive
  BY DEF R!NoneLive
<1>3. Opened' = IF e.open THEN Opened \cup {c} ELSE Opened \ {c}
  BY <1>1 DEF Opened
<1>4. Shown' = [Shown EXCEPT ![c] = IF e.live THEN e.row ELSE R!NoneLive]
  <2> DEFINE w == IF e.live THEN e.row ELSE R!NoneLive
  <2>1. Shown' = [x \in Cursors |-> IF cur'[x].live THEN cur'[x].row ELSE R!NoneLive]
    BY <1>2 DEF Shown
  <2>2. \A x \in Cursors : Shown'[x] = IF x = c THEN w ELSE Shown[x]
    BY <1>1, <2>1 DEF Shown
  <2>3. Shown = [x \in Cursors |-> Shown[x]] /\ DOMAIN Shown = Cursors
    BY DEF Shown
  <2>4. Shown' = [x \in Cursors |-> IF x = c THEN w ELSE Shown[x]]
    <3> HIDE DEF w
    <3>1. QED
      BY <2>1, <2>2
  <2>5. [Shown EXCEPT ![c] = w] = [x \in Cursors |-> IF x = c THEN w ELSE Shown[x]]
    BY <2>3
  <2>6. QED
    BY <2>4, <2>5
<1>5. QED
  BY <1>3, <1>4

\* A pull is Report's Advance, or its End.
LEMMA RefinesPull ==
  ASSUME IInv, NEW c \in Cursors, Pull(c)
  PROVE  R!Next
<1>0. /\ nSrc \in Nat /\ nTgt \in Nat
      /\ cur \in [Cursors -> CursorState] /\ given \in [Cursors -> SUBSET Row]
      /\ cur[c] \in CursorState
  BY Typed DEF IInv
<1>1. /\ cur[c].open /\ phase = "ready" /\ c \in Opened /\ status = "ok"
      /\ given[c] = Passed(cur[c].bucket, cur[c].del)
      /\ cur[c].del # NoRow => cur[c].del \in Deleted /\ Anchor(cur[c].del) = cur[c].bucket
  BY DEF Pull, PullDeleted, PullTarget, PullEnd, Pulls, IInv, ListsSound, Positioned, Opened
<1>2. UNCHANGED <<script, status>>
  BY DEF Pull, PullDeleted, PullTarget, PullEnd
\* Being given r, the least remaining row.
<1>3. ASSUME NEW r, r \in R!Remaining(c),
             \A q \in R!Remaining(c) \ {r} : R!Before(r, q),
             NEW e, cur' = [cur EXCEPT ![c] = e], e.open, e.live, e.row = r,
             given' = [given EXCEPT ![c] = @ \cup {r}]
      PROVE  R!Advance(c)
  <2>1. Opened' = Opened \cup {c} /\ Shown' = [Shown EXCEPT ![c] = r]
    BY <1>3, SeenStep
  <2>2. Opened' = Opened
    BY <1>1, <2>1
  <2>3. QED
    BY <1>1, <1>2, <1>3, <2>1, <2>2 DEF R!Advance, R!script, script, Opened, Shown, R!NoneLive
<1>4. CASE PullDeleted(c)
  <2> DEFINE d == cur[c].del
             r == R!DeletedRow(d)
             e == [cur[c] EXCEPT !.del = delNext[d], !.live = TRUE, !.row = r]
  <2>1. d \in Deleted /\ cur[c].bucket \in Buckets
    BY <1>0, <1>1, <1>4 DEF PullDeleted, CursorState
  <2>2. r \in R!Remaining(c) /\ \A q \in R!Remaining(c) \ {r} : R!Before(r, q)
    <3>1. R!Remaining(c) = R!ReportRows \ Passed(cur[c].bucket, d)
      BY <1>1 DEF R!Remaining
    <3>2. Anchor(d) = cur[c].bucket
      BY <1>1, <1>4 DEF PullDeleted
    <3> HIDE DEF d
    <3>3. QED
      BY <1>1, <2>1, <3>1, <3>2, DeletedIsNext
  <2>3. cur' = [cur EXCEPT ![c] = e] /\ given' = [given EXCEPT ![c] = @ \cup {r}]
    BY <1>0, <1>4 DEF PullDeleted
  <2>4. e.open /\ e.live /\ e.row = r
    BY <1>0, <1>1 DEF CursorState
  <2> HIDE DEF e, r, d
  <2>5. R!Advance(c)
    BY <1>3, <2>2, <2>3, <2>4
  <2>6. QED
    BY <2>5 DEF R!Next
<1>5. CASE PullTarget(c)
  <2> DEFINE b == cur[c].bucket
             r == R!TargetRow(b)
             e == [cur[c] EXCEPT !.bucket = @ + 1, !.del = delHead[b + 1],
                                 !.live = TRUE, !.row = r]
  <2>1. b \in TgtRows /\ given[c] = Passed(b, NoRow)
    BY <1>0, <1>1, <1>5 DEF PullTarget, CursorState
  <2>2. r \in R!Remaining(c) /\ \A q \in R!Remaining(c) \ {r} : R!Before(r, q)
    BY <1>1, <2>1, TargetIsNext DEF R!Remaining
  <2>3. cur' = [cur EXCEPT ![c] = e] /\ given' = [given EXCEPT ![c] = @ \cup {r}]
    BY <1>0, <1>5 DEF PullTarget
  <2>4. e.open /\ e.live /\ e.row = r
    BY <1>0, <1>1 DEF CursorState
  <2> HIDE DEF e, r, b
  <2>5. R!Advance(c)
    BY <1>3, <2>2, <2>3, <2>4
  <2>6. QED
    BY <2>5 DEF R!Next
<1>6. CASE PullEnd(c)
  <2> DEFINE e == [cur[c] EXCEPT !.done = TRUE, !.live = FALSE]
  <2>1. cur[c].bucket = nTgt /\ cur[c].del = NoRow
    BY <1>6 DEF PullEnd
  <2>2. R!Remaining(c) = {}
    BY <1>1, <2>1, AllPassed DEF R!Remaining
  <2>3. cur' = [cur EXCEPT ![c] = e] /\ given' = given
    BY <1>0, <1>6 DEF PullEnd
  <2>4. e.open /\ ~e.live
    BY <1>0, <1>1 DEF CursorState
  <2> HIDE DEF e
  <2>5. Opened' = Opened \cup {c} /\ Shown' = [Shown EXCEPT ![c] = R!NoneLive]
    BY <2>3, <2>4, SeenStep
  <2>6. Opened' = Opened
    BY <1>1, <2>5
  <2>7. R!End(c)
    BY <1>1, <1>2, <2>2, <2>3, <2>5, <2>6
       DEF R!End, R!script, script, Opened, Shown, R!NoneLive
  <2>8. QED
    BY <2>7 DEF R!Next
<1>7. QED
  BY <1>4, <1>5, <1>6 DEF Pull

\* Every step is a step of Report or leaves what Report sees alone.
LEMMA RefinesNext == IInv /\ [Next]_vars => [R!Next]_(R!vars)
<1> SUFFICES ASSUME IInv, [Next]_vars PROVE [R!Next]_(R!vars)
  OBVIOUS
<1>0. /\ cur \in [Cursors -> CursorState] /\ given \in [Cursors -> SUBSET Row]
      /\ nTgt \in Nat
  BY Typed DEF IInv
<1>1. CASE Run \/ UNCHANGED vars
  <2>1. UNCHANGED <<script, status>> /\ cur' = cur /\ given' = given
    BY <1>1 DEF Run, PassPaired, ParkDeleted, EndAnchor, Thread, EndRun, vars, script, cursors
  <2>2. QED
    BY <2>1 DEF script, R!vars
<1>5. CASE FailContext
  <2>1. /\ UNCHANGED script /\ cur' = cur /\ given' = given
        /\ status = "ok" /\ status' = "error"
    BY <1>5 DEF FailContext, cursors
  <2>2. R!Fail
    BY <2>1 DEF R!Fail, R!script, script
  <2>3. QED
    BY <2>2 DEF R!Next
<1>2. ASSUME NEW c \in Cursors, Open(c) PROVE R!Next
  <2> DEFINE e == [Rewound(c) EXCEPT !.open = TRUE]
  <2>1. /\ cur' = [cur EXCEPT ![c] = e] /\ UNCHANGED <<script, status>> /\ given' = given
        /\ status = "ok"
    BY <1>2 DEF Open
  <2>2. e.open /\ ~e.live /\ cur[c] = Closed /\ c \notin Opened
    BY <1>0, <1>2 DEF Open, Rewound, CursorState, IInv, ListsSound, Positioned, Opened
  <2> HIDE DEF e
  <2>3. Opened' = Opened \cup {c} /\ Shown' = [Shown EXCEPT ![c] = R!NoneLive]
    BY <2>1, <2>2, SeenStep
  <2>4. Shown[c] = R!NoneLive
    BY <2>2 DEF Shown, Closed
  <2>5. Shown' = Shown
    BY <2>3, <2>4 DEF Shown
  <2>6. R!Open(c)
    BY <2>1, <2>2, <2>3, <2>5 DEF R!Open, R!script, script, Opened, Shown, R!NoneLive
  <2>7. QED
    BY <2>6 DEF R!Next
<1>3. ASSUME NEW c \in Cursors, Reset(c) PROVE R!Next
  <2> DEFINE e == Rewound(c)
  <2>1. cur' = [cur EXCEPT ![c] = e] /\ UNCHANGED <<script, status>>
        /\ given' = [given EXCEPT ![c] = {}]
    BY <1>3 DEF Reset
  <2>2. e.open /\ ~e.live /\ c \in Opened
    BY <1>0, <1>3 DEF Reset, Rewound, CursorState, Opened
  <2> HIDE DEF e
  <2>3. Opened' = Opened \cup {c} /\ Shown' = [Shown EXCEPT ![c] = R!NoneLive]
    BY <2>1, <2>2, SeenStep
  <2>4. Opened' = Opened
    BY <2>2, <2>3
  <2>5. R!Reset(c)
    BY <2>1, <2>2, <2>3, <2>4 DEF R!Reset, R!script, script, Opened, Shown, R!NoneLive
  <2>6. QED
    BY <2>5 DEF R!Next
<1>4. QED
  BY <1>1, <1>2, <1>3, <1>5, RefinesPull DEF Next

\* Every cursor of a diff, however many there are and whatever a caller does
\* with the others, yields the rows of the report that ibha_csvdiff.h promises,
\* each once and in the promised order, as long as no call of the context failed.
THEOREM CursorImplementsReport == Spec => ImplementsReport
<1>1. Init => R!Init
  BY RefinesInit
<1>2. IInv /\ [Next]_vars => [R!Next]_(R!vars)
  BY RefinesNext
<1>3. QED
  BY <1>1, <1>2, Inductive, PTL DEF Spec, ImplementsReport, R!Spec

-----------------------------------------------------------------------------
(***************************************************************************)
(* The counts are those of a drained cursor.                               *)
(***************************************************************************)

\* The target rows the report shows as of a kind.
OfKind(k) == {t \in TgtRows : R!Kind(t) = k}

\* What ibha_csvd_diff_run counts, it counts once and for all.
Counted == phase = "ready" =>
  counts = [unchanged |-> Cardinality(OfKind("unchanged")),
            added     |-> Cardinality(OfKind("added")),
            modified  |-> Cardinality(OfKind("modified")),
            deleted   |-> Cardinality(Deleted),
            report    |-> nTgt + Cardinality(Deleted)]

\* A set of rows of either sort has as many rows as the indices it was made from.
LEMMA RowsOfTarget ==
  ASSUME NEW S, IsFiniteSet(S)
  PROVE  LET rows == {R!TargetRow(t) : t \in S}
         IN  IsFiniteSet(rows) /\ Cardinality(rows) = Cardinality(S)
<1> DEFINE rows == {R!TargetRow(t) : t \in S}
           f == [t \in S |-> R!TargetRow(t)]
<1>1. \A t, u \in S : f[t] = f[u] => t = u
  BY RowFields
<1>2. f \in Bijection(S, rows)
  BY <1>1 DEF Bijection, Injection, IsInjective, Surjection
<1> HIDE DEF f
<1> QED BY <1>2, FS_Bijection DEF ExistsBijection

\* A kind of target rows has as many rows as the report has of it.
LEMMA RowsOfSource ==
  ASSUME NEW S, IsFiniteSet(S)
  PROVE  LET rows == {R!DeletedRow(s) : s \in S}
         IN  IsFiniteSet(rows) /\ Cardinality(rows) = Cardinality(S)
<1> DEFINE rows == {R!DeletedRow(s) : s \in S}
           f == [s \in S |-> R!DeletedRow(s)]
<1>1. \A s, u \in S : f[s] = f[u] => s = u
  BY RowFields
<1>2. f \in Bijection(S, rows)
  BY <1>1 DEF Bijection, Injection, IsInjective, Surjection
<1> HIDE DEF f
<1> QED BY <1>2, FS_Bijection DEF ExistsBijection

\* How many rows a report has, of each kind and in total.
LEMMA RowCounts ==
  ASSUME TypeOK
  PROVE  /\ IsFiniteSet(R!ReportRows)
         /\ Cardinality(R!ReportRows) = nTgt + Cardinality(Deleted)
         /\ \A k \in {"added", "modified", "unchanged"} :
              Cardinality({r \in R!ReportRows : r.kind = k}) = Cardinality(OfKind(k))
         /\ Cardinality({r \in R!ReportRows : r.kind = "deleted"}) = Cardinality(Deleted)
<1> DEFINE fromTgt == {R!TargetRow(t) : t \in TgtRows}
           fromSrc == {R!DeletedRow(s) : s \in Deleted}
<1>1. /\ nTgt \in Nat /\ nSrc \in Nat /\ Deleted \subseteq SrcRows
      /\ R!ReportRows = fromTgt \cup fromSrc
  BY Typed DEF R!ReportRows, Deleted
<1>2. /\ IsFiniteSet(TgtRows) /\ Cardinality(TgtRows) = nTgt
      /\ IsFiniteSet(SrcRows)
  <2>1. 0 \in Int /\ nTgt - 1 \in Int /\ nSrc - 1 \in Int
    BY <1>1
  <2>2. /\ IsFiniteSet(0 .. nTgt - 1) /\ IsFiniteSet(0 .. nSrc - 1)
        /\ Cardinality(0 .. nTgt - 1) = IF 0 > nTgt - 1 THEN 0 ELSE (nTgt - 1) - 0 + 1
    BY <2>1, FS_Interval
  <2> QED BY <1>1, <2>2
<1>3. IsFiniteSet(Deleted)
  BY <1>1, <1>2, FS_Subset
<1>4. /\ IsFiniteSet(fromTgt) /\ Cardinality(fromTgt) = nTgt
      /\ IsFiniteSet(fromSrc) /\ Cardinality(fromSrc) = Cardinality(Deleted)
  BY <1>2, <1>3, RowsOfTarget, RowsOfSource
<1>5. /\ \A t \in TgtRows : /\ R!TargetRow(t).kind = R!Kind(t)
                            /\ R!Kind(t) \in {"added", "modified", "unchanged"}
      /\ \A s : R!DeletedRow(s).kind = "deleted"
  BY DEF R!TargetRow, R!DeletedRow, R!Kind
<1>6. fromTgt \cap fromSrc = {}
  BY <1>5
<1>7. /\ IsFiniteSet(R!ReportRows)
      /\ Cardinality(R!ReportRows) = nTgt + Cardinality(Deleted)
  <2>1. Cardinality(fromTgt \cap fromSrc) = 0
    BY <1>6, FS_EmptySet
  <2>2. /\ IsFiniteSet(fromTgt \cup fromSrc)
        /\ Cardinality(fromTgt \cup fromSrc)
             = Cardinality(fromTgt) + Cardinality(fromSrc) - Cardinality(fromTgt \cap fromSrc)
    <3> HIDE DEF fromTgt, fromSrc
    <3> QED BY <1>4, FS_Union
  <2>3. Cardinality(Deleted) \in Nat
    BY <1>3, FS_CardinalityType
  <2> QED BY <1>1, <1>4, <2>1, <2>2, <2>3
<1>8. ASSUME NEW k \in {"added", "modified", "unchanged"}
      PROVE  Cardinality({r \in R!ReportRows : r.kind = k}) = Cardinality(OfKind(k))
  <2>1. {r \in R!ReportRows : r.kind = k} = {R!TargetRow(t) : t \in OfKind(k)}
    BY <1>1, <1>5 DEF OfKind
  <2>2. IsFiniteSet(OfKind(k))
    BY <1>2, FS_Subset DEF OfKind
  <2> QED BY <2>1, <2>2, RowsOfTarget
<1>9. {r \in R!ReportRows : r.kind = "deleted"} = fromSrc
  BY <1>1, <1>5
<1> QED BY <1>4, <1>7, <1>8, <1>9

\* The counts stand, as the script does.
LEMMA CountedNext == IInv /\ Counted /\ [Next]_vars => Counted'
<1> SUFFICES ASSUME IInv, Counted, [Next]_vars PROVE Counted'
  OBVIOUS
<1>1. UNCHANGED script
  BY DEF Next, Run, PassPaired, ParkDeleted, EndAnchor, Thread, EndRun, FailContext,
         Open, Reset, Pull, PullDeleted, PullTarget, PullEnd, vars, script
<1>2. /\ \A k : OfKind(k)' = OfKind(k) /\ Deleted' = Deleted /\ nTgt' = nTgt
  <2>1. \A t : R!Kind(t)' = R!Kind(t)
    BY <1>1 DEF script, R!Kind
  <2> QED BY <1>1, <2>1, ScriptFixed DEF OfKind, Deleted, script
<1>3. CASE EndRun
  BY <1>2, <1>3 DEF EndRun, Counted, OfKind, Deleted, R!Deleted
<1>4. CASE ~EndRun
  <2>1. counts' = counts /\ (phase' = "ready" => phase = "ready")
    BY <1>4 DEF Next, Run, PassPaired, ParkDeleted, EndAnchor, Thread, FailContext,
         Open, Reset, Pull, PullDeleted, PullTarget, PullEnd, vars, lists
  <2> QED BY <1>2, <2>1 DEF Counted
<1> QED BY <1>3, <1>4

\* A drained cursor was given the whole report.
LEMMA DrainedIsWhole ==
  ASSUME IInv, NEW c \in Cursors, cur[c].open, cur[c].done
  PROVE  phase = "ready" /\ given[c] = R!ReportRows
<1>1. phase = "ready" /\ given[c] = Passed(nTgt, NoRow)
  BY DEF IInv, ListsSound, Positioned
<1>2. R!ReportRows \subseteq Passed(nTgt, NoRow)
  BY <1>1, AllPassed
<1>3. Passed(nTgt, NoRow) \subseteq R!ReportRows
  BY DEF Passed, R!ReportRows, Deleted
<1> QED BY <1>1, <1>2, <1>3

\* The rows the report is said to have when the run returns, before a cell is read,
\* in total and of each kind, are those any cursor yields that is drained, however
\* often and in whatever order cursors are advanced and reset.
THEOREM CountsCorrect == Spec => []CountsFinal
<1>1. Init => Counted
  BY DEF Init, Counted
<1>2. IInv /\ Counted /\ [Next]_vars => Counted'
  BY CountedNext
<1>3. IInv /\ Counted => CountsFinal
  <2> SUFFICES ASSUME IInv, Counted, NEW c \in Cursors, cur[c].open, cur[c].done
               PROVE  /\ Cardinality(given[c]) = counts.report
                      /\ \A k \in {"added", "modified", "unchanged", "deleted"} :
                           counts[k] = Cardinality({r \in given[c] : r.kind = k})
    BY DEF CountsFinal
  <2>1. phase = "ready" /\ given[c] = R!ReportRows
    BY DrainedIsWhole
  <2> QED BY <2>1, RowCounts DEF Counted, IInv
<1> QED BY <1>1, <1>2, <1>3, Inductive, PTL DEF Spec

-----------------------------------------------------------------------------
(***************************************************************************)
(* The shared counter is the sum over the passes.                          *)
(***************************************************************************)

\* The changed cells of a finite set of rows are a sum over it.
LEMMA CellsSum ==
  ASSUME NEW S, IsFiniteSet(S), \A r \in S : r.cells \in Nat
  PROVE  \E f : Sums(f, [r \in S |-> r.cells], S) /\ CellsOf(S) = f[S]
<1> DEFINE g == [r \in S |-> r.cells]
           Solves(f) == f = [s \in SUBSET S |->
              IF s = {} THEN 0
              ELSE (CHOOSE x \in s : TRUE).cells + f[s \ {CHOOSE x \in s : TRUE}]]
           h == CHOOSE f : Solves(f)
<1>1. CellsOf(S) = h[S]
  BY DEF CellsOf, MapThenSumSet, MapThenFoldSet
<1>2. \A s \in SUBSET S : s # {} => g[Chosen(s)] = (CHOOSE x \in s : TRUE).cells
  BY DEF Chosen
<1>3. \A f : Sums(f, g, S) <=> Solves(f)
  <2> SUFFICES ASSUME NEW f PROVE Sums(f, g, S) <=> Solves(f)
    OBVIOUS
  <2>1. [s \in SUBSET S |-> IF s = {} THEN 0 ELSE g[Chosen(s)] + f[s \ {Chosen(s)}]]
        = [s \in SUBSET S |->
              IF s = {} THEN 0
              ELSE (CHOOSE x \in s : TRUE).cells + f[s \ {CHOOSE x \in s : TRUE}]]
    <3> HIDE DEF g
    <3> QED BY <1>2 DEF Chosen
  <2> HIDE DEF g
  <2> QED BY <2>1 DEF Sums
<1>4. \A r \in S : g[r] \in Int
  OBVIOUS
<1>5. \E f : Sums(f, g, S)
  <2> HIDE DEF g
  <2> QED BY <1>4, SumsExist
<1> HIDE DEF g, Solves
<1>6. Solves(h)
  BY <1>3, <1>5
<1>7. Sums(h, g, S)
  BY <1>3, <1>6
<1> HIDE DEF h
<1> QED BY <1>1, <1>7 DEF g

\* A row more adds its cells.
LEMMA CellsOfMore ==
  ASSUME NEW S, IsFiniteSet(S), \A r \in S : r.cells \in Nat,
         NEW x, x.cells \in Nat
  PROVE  /\ CellsOf({}) = 0 /\ CellsOf(S) \in Nat
         /\ CellsOf(S \cup {x}) = IF x \in S THEN CellsOf(S) ELSE x.cells + CellsOf(S)
<1> DEFINE T == S \cup {x}
           g == [r \in S |-> r.cells]
           e == [r \in T |-> r.cells]
           z == [r \in {} |-> r.cells]
<1>1. IsFiniteSet(T) /\ \A r \in T : r.cells \in Nat
  BY FS_AddElement
<1>2. PICK f : Sums(f, g, S) /\ CellsOf(S) = f[S]
  BY CellsSum
<1>3. PICK h : Sums(h, e, T) /\ CellsOf(T) = h[T]
  <2> HIDE DEF T
  <2> QED BY <1>1, CellsSum
<1>4. PICK y : Sums(y, z, {}) /\ CellsOf({}) = y[{}]
  BY FS_EmptySet, CellsSum
<1>5. CellsOf({}) = 0
  BY <1>4 DEF Sums
<1>6. (\A r \in S : g[r] \in Nat) /\ (\A r \in T : e[r] \in Int)
      /\ (\A r \in S : g[r] = e[r]) /\ e[x] = x.cells
  BY <1>1
<1> HIDE DEF g, e, z
<1>7. CellsOf(S) \in Nat
  <2>1. \A s \in SUBSET S : f[s] \in Nat
    BY <1>2, <1>6, SumsTyped
  <2> QED BY <1>2, <2>1
<1>8. S \in SUBSET T /\ T \in SUBSET T /\ x \in T /\ (x \notin S => T \ {x} = S) /\ (x \in S => T = S)
  OBVIOUS
<1> HIDE DEF T
<1>9. f[S] = h[S]
  BY <1>2, <1>3, <1>6, <1>8, SumsAgree
<1>10. h[T] = e[x] + h[T \ {x}]
  BY <1>1, <1>3, <1>6, <1>8, SumsStep
<1>11. CellsOf(T) = IF x \in S THEN CellsOf(S) ELSE x.cells + CellsOf(S)
  BY <1>2, <1>3, <1>6, <1>8, <1>9, <1>10
<1> QED BY <1>5, <1>7, <1>11 DEF T

\* What all cursors together were given, of what each was given.
Passes(g) == MapThenSumSet(LAMBDA c : CellsOf(g[c]), Cursors)

\* It is a sum over the cursors.
LEMMA PassesSum ==
  ASSUME NEW g, \A c \in Cursors : CellsOf(g[c]) \in Nat
  PROVE  \E f : Sums(f, [c \in Cursors |-> CellsOf(g[c])], Cursors) /\ Passes(g) = f[Cursors]
<1> DEFINE e == [c \in Cursors |-> CellsOf(g[c])]
           Solves(f) == f = [s \in SUBSET Cursors |->
              IF s = {} THEN 0
              ELSE CellsOf(g[CHOOSE x \in s : TRUE]) + f[s \ {CHOOSE x \in s : TRUE}]]
           h == CHOOSE f : Solves(f)
<1>1. Passes(g) = h[Cursors]
  BY DEF Passes, MapThenSumSet, MapThenFoldSet
<1>2. \A s \in SUBSET Cursors : s # {} => e[Chosen(s)] = CellsOf(g[CHOOSE x \in s : TRUE])
  BY DEF Chosen
<1>3. \A f : Sums(f, e, Cursors) <=> Solves(f)
  <2> SUFFICES ASSUME NEW f PROVE Sums(f, e, Cursors) <=> Solves(f)
    OBVIOUS
  <2>1. [s \in SUBSET Cursors |-> IF s = {} THEN 0 ELSE e[Chosen(s)] + f[s \ {Chosen(s)}]]
        = [s \in SUBSET Cursors |->
              IF s = {} THEN 0
              ELSE CellsOf(g[CHOOSE x \in s : TRUE]) + f[s \ {CHOOSE x \in s : TRUE}]]
    <3> HIDE DEF e
    <3> QED BY <1>2 DEF Chosen
  <2> HIDE DEF e
  <2> QED BY <2>1 DEF Sums
<1>4. \A c \in Cursors : e[c] \in Int
  OBVIOUS
<1>5. \E f : Sums(f, e, Cursors)
  <2> HIDE DEF e
  <2> QED BY <1>4, SumsExist, FinitelyManyCursors
<1> HIDE DEF e, Solves
<1>6. Solves(h)
  BY <1>3, <1>5
<1>7. Sums(h, e, Cursors)
  BY <1>3, <1>6
<1> HIDE DEF h
<1> QED BY <1>1, <1>7 DEF e

\* The sum changes as the one cursor does that moves.
LEMMA PassesStep ==
  ASSUME NEW g, NEW d, NEW c \in Cursors,
         \A x \in Cursors : CellsOf(g[x]) \in Nat /\ CellsOf(d[x]) \in Nat,
         \A x \in Cursors \ {c} : d[x] = g[x]
  PROVE  \E others \in Nat : /\ Passes(g) = CellsOf(g[c]) + others
                             /\ Passes(d) = CellsOf(d[c]) + others
<1> DEFINE G == [x \in Cursors |-> CellsOf(g[x])]
           D == [x \in Cursors |-> CellsOf(d[x])]
           Rest == Cursors \ {c}
<1>0. IsFiniteSet(Cursors)
  BY FinitelyManyCursors
<1>1. PICK f : Sums(f, G, Cursors) /\ Passes(g) = f[Cursors]
  BY PassesSum
<1>2. PICK h : Sums(h, D, Cursors) /\ Passes(d) = h[Cursors]
  BY PassesSum
<1>3. /\ \A x \in Cursors : G[x] \in Nat /\ D[x] \in Nat /\ G[x] \in Int /\ D[x] \in Int
      /\ \A x \in Rest : G[x] = D[x]
      /\ G[c] = CellsOf(g[c]) /\ D[c] = CellsOf(d[c])
  OBVIOUS
<1>4. Rest \in SUBSET Cursors /\ Rest \subseteq Cursors /\ Cursors \in SUBSET Cursors
  OBVIOUS
<1> HIDE DEF G, D
<1>5. f[Rest] \in Nat
  BY <1>0, <1>1, <1>3, <1>4, SumsTyped
<1>6. f[Rest] = h[Rest]
  BY <1>0, <1>1, <1>2, <1>3, <1>4, SumsAgree
<1>7. f[Cursors] = G[c] + f[Rest] /\ h[Cursors] = D[c] + h[Rest]
  BY <1>0, <1>1, <1>2, <1>3, <1>4, SumsStep
<1> QED BY <1>1, <1>2, <1>3, <1>5, <1>6, <1>7

\* What a cursor was given is finite, and is of the report.
LEMMA GivenRows ==
  ASSUME IInv, NEW c \in Cursors
  PROVE  /\ IsFiniteSet(given[c]) /\ \A r \in given[c] : r.cells \in Nat
         /\ CellsOf(given[c]) \in Nat /\ CellsOf({}) = 0
<1>1. given[c] = {} \/ given[c] = Passed(cur[c].bucket, cur[c].del)
  BY DEF IInv, ListsSound, Positioned
<1>2. given[c] \subseteq R!ReportRows
  BY <1>1 DEF Passed, R!ReportRows, Deleted
<1>3. IsFiniteSet(given[c])
  BY <1>2, RowCounts, FS_Subset DEF IInv
<1>4. \A r \in given[c] : r.cells \in Nat
  BY Typed DEF IInv, Row
<1>5. [cells |-> 0].cells \in Nat
  OBVIOUS
<1> QED BY <1>3, <1>4, <1>5, CellsOfMore

\* The counter is the sum of the passes, less those a reset has taken back.
Summed == IF resets = 0 THEN cells = Passes(given) ELSE cells >= Passes(given)

\* That is what the run checks.
LEMMA SummedIsProperty == Summed <=> CellsAccumulate
BY DEF Summed, CellsAccumulate, Passes

\* No cursor has been given anything at first.
LEMMA SummedInit == Init => Summed
<1> SUFFICES ASSUME Init PROVE Summed
  OBVIOUS
<1>1. given = [c \in Cursors |-> {}] /\ cells = 0 /\ resets = 0
  BY DEF Init
<1>2. \A c \in Cursors : CellsOf(given[c]) = 0
  <2>1. CellsOf({}) = 0
    <3>1. [cells |-> 0].cells \in Nat
      OBVIOUS
    <3> QED BY <3>1, FS_EmptySet, CellsOfMore
  <2> QED BY <1>1, <2>1
<1>3. PICK f : Sums(f, [c \in Cursors |-> CellsOf(given[c])], Cursors) /\ Passes(given) = f[Cursors]
  BY <1>2, PassesSum
<1> DEFINE g == [c \in Cursors |-> CellsOf(given[c])]
           zero == [s \in SUBSET Cursors |-> 0]
<1>4. \A c \in Cursors : g[c] = 0
  BY <1>2
<1>5. Sums(zero, g, Cursors)
  <2> HIDE DEF g
  <2>1. \A s \in SUBSET Cursors :
          0 = IF s = {} THEN 0 ELSE g[Chosen(s)] + zero[s \ {Chosen(s)}]
    <3> SUFFICES ASSUME NEW s \in SUBSET Cursors, s # {}
                 PROVE  0 = g[Chosen(s)] + zero[s \ {Chosen(s)}]
      OBVIOUS
    <3>1. Chosen(s) \in Cursors /\ s \ {Chosen(s)} \in SUBSET Cursors
      BY DEF Chosen
    <3>2. g[Chosen(s)] = 0 /\ zero[s \ {Chosen(s)}] = 0
      BY <1>4, <3>1
    <3> QED BY <3>2
  <2> QED BY <2>1 DEF Sums
<1>6. f[Cursors] = zero[Cursors]
  <2> HIDE DEF g, zero
  <2> QED BY <1>3, <1>5, FinitelyManyCursors, SumsAgree DEF g
<1> QED BY <1>1, <1>3, <1>6 DEF Summed

\* Every step keeps the counter the sum.
LEMMA SummedNext == IInv /\ Summed /\ [Next]_vars => Summed'
<1> SUFFICES ASSUME IInv, Summed, [Next]_vars PROVE Summed'
  OBVIOUS
<1>1. /\ cells \in Nat /\ resets \in Nat /\ given \in [Cursors -> SUBSET Row]
      /\ cur \in [Cursors -> CursorState]
  BY CursorAssumption DEF IInv, TypeOK
<1>2. ASSUME UNCHANGED <<given, cells, resets>> PROVE Summed'
  BY <1>2 DEF Summed
<1>3. CASE Run \/ FailContext \/ UNCHANGED vars
  BY <1>2, <1>3 DEF Run, PassPaired, ParkDeleted, EndAnchor, Thread, EndRun, FailContext,
                    vars, cursors
<1>4. ASSUME NEW c \in Cursors, \A x \in Cursors \ {c} : given'[x] = given[x],
             CellsOf(given'[c]) \in Nat
      PROVE  \E others \in Nat : /\ Passes(given) = CellsOf(given[c]) + others
                                 /\ Passes(given)' = CellsOf(given'[c]) + others
  <2> DEFINE d == given'
  <2>1. \A x \in Cursors : CellsOf(given[x]) \in Nat /\ CellsOf(d[x]) \in Nat
    BY <1>4, GivenRows
  <2>2. Passes(given)' = Passes(d)
    OBVIOUS
  <2>3. \A x \in Cursors \ {c} : d[x] = given[x]
    BY <1>4
  <2> HIDE DEF d
  <2>4. \E others \in Nat : /\ Passes(given) = CellsOf(given[c]) + others
                            /\ Passes(d) = CellsOf(d[c]) + others
    BY <2>1, <2>3, PassesStep
  <2> QED BY <2>2, <2>4 DEF d
<1>5. ASSUME NEW c \in Cursors, Open(c) PROVE Summed'
  BY <1>2, <1>5 DEF Open
<1>6. ASSUME NEW c \in Cursors, Reset(c) PROVE Summed'
  <2>1. given' = [given EXCEPT ![c] = {}] /\ cells' = cells /\ resets' = resets + 1
    BY <1>6 DEF Reset
  <2>2. CellsOf(given[c]) \in Nat /\ CellsOf({}) = 0
    BY GivenRows
  <2>3. CellsOf(given'[c]) = 0 /\ \A x \in Cursors \ {c} : given'[x] = given[x]
    <3>1. given'[c] = {} /\ \A x \in Cursors \ {c} : given'[x] = given[x]
      BY <1>1, <2>1
    <3> QED BY <2>2, <3>1
  <2>4. PICK others \in Nat : /\ Passes(given) = CellsOf(given[c]) + others
                              /\ Passes(given)' = CellsOf(given'[c]) + others
    BY <1>4, <2>3
  <2>5. cells >= Passes(given) /\ Passes(given) >= Passes(given)' /\ Passes(given)' \in Nat
    BY <1>1, <2>2, <2>3, <2>4 DEF Summed
  <2>6. resets' # 0 /\ cells' >= Passes(given)'
    BY <1>1, <2>1, <2>4, <2>5, <2>2
  <2> QED BY <2>6 DEF Summed
<1>7. ASSUME NEW c \in Cursors, NEW r, r.cells \in Nat, r \in given[c] => r.cells = 0,
             given' = [given EXCEPT ![c] = given[c] \cup {r}],
             cells' = cells + r.cells, resets' = resets
      PROVE  Summed'
  <2>1. CellsOf(given[c]) \in Nat
    BY GivenRows
  <2>2. CellsOf(given[c] \cup {r}) = r.cells + CellsOf(given[c])
    <3>1. CellsOf(given[c] \cup {r})
            = IF r \in given[c] THEN CellsOf(given[c]) ELSE r.cells + CellsOf(given[c])
      BY <1>7, GivenRows, CellsOfMore
    <3> QED BY <1>7, <2>1, <3>1
  <2>3. /\ CellsOf(given'[c]) = r.cells + CellsOf(given[c])
        /\ \A x \in Cursors \ {c} : given'[x] = given[x]
    <3>1. given'[c] = given[c] \cup {r} /\ \A x \in Cursors \ {c} : given'[x] = given[x]
      BY <1>1, <1>7
    <3> QED BY <2>2, <3>1
  <2>4. PICK others \in Nat : /\ Passes(given) = CellsOf(given[c]) + others
                              /\ Passes(given)' = CellsOf(given'[c]) + others
    <3>1. CellsOf(given'[c]) \in Nat
      BY <1>7, <2>1, <2>3
    <3> QED BY <1>4, <2>3, <3>1
  <2>5. Passes(given)' = r.cells + Passes(given) /\ Passes(given) \in Nat
    BY <1>7, <2>1, <2>3, <2>4
  <2> QED BY <1>1, <1>7, <2>5 DEF Summed
<1>8. ASSUME NEW c \in Cursors, PullDeleted(c) PROVE Summed'
  <2> DEFINE r == R!DeletedRow(cur[c].del)
  <2>1. r.cells = 0
    BY DEF R!DeletedRow
  <2>2. given' = [given EXCEPT ![c] = given[c] \cup {r}] /\ cells' = cells /\ resets' = resets
    BY <1>8 DEF PullDeleted
  <2> HIDE DEF r
  <2>3. cells' = cells + r.cells /\ r.cells \in Nat /\ (r \in given[c] => r.cells = 0)
    BY <1>1, <2>1, <2>2
  <2> QED BY <1>7, <2>2, <2>3
<1>9. ASSUME NEW c \in Cursors, PullTarget(c) PROVE Summed'
  <2> DEFINE r == R!TargetRow(cur[c].bucket)
  <2>1. /\ cur[c].bucket \in TgtRows /\ phase = "ready" /\ cur[c].del = NoRow
        /\ given[c] = Passed(cur[c].bucket, NoRow)
    BY <1>1, <1>9, Typed DEF PullTarget, Pulls, IInv, ListsSound, Positioned, CursorState
  <2>2. r \notin given[c]
    BY <2>1, TargetIsNext
  <2>3. r.cells \in Nat
    BY <2>1, RowsTyped DEF IInv, Row
  <2>4. /\ given' = [given EXCEPT ![c] = given[c] \cup {r}]
        /\ cells' = cells + r.cells /\ resets' = resets
    BY <1>9 DEF PullTarget
  <2> HIDE DEF r
  <2> QED BY <1>7, <2>2, <2>3, <2>4
<1>10. ASSUME NEW c \in Cursors, PullEnd(c) PROVE Summed'
  BY <1>2, <1>10 DEF PullEnd
<1> QED
  BY <1>3, <1>5, <1>6, <1>8, <1>9, <1>10 DEF Next, Pull

\* The counter that every cursor of a diff adds to is the sum over their passes,
\* however their pulls interleave, and a reset never takes anything back.
THEOREM CellsCorrect == Spec => []CellsAccumulate
<1>1. Init => Summed
  BY SummedInit
<1>2. IInv /\ Summed /\ [Next]_vars => Summed'
  BY SummedNext
<1>3. Summed => CellsAccumulate
  BY SummedIsProperty
<1> QED BY <1>1, <1>2, <1>3, Inductive, PTL DEF Spec

=============================================================================
