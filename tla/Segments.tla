------------------------------ MODULE Segments ------------------------------
(***************************************************************************)
(* The intra cell diff of core/src/segment.c: common ends stripped, the    *)
(* middles cut into elements, Myers' algorithm over the elements, and the  *)
(* script walked into segments, a replaced run refined by character.       *)
(*                                                                         *)
(* Values are sequences of bytes, positions are counted from 0 as in the   *)
(* code, and an element is [start, len].                                   *)
(***************************************************************************)
EXTENDS Integers, Sequences, FiniteSets

CONSTANTS
  TooMany,      (* no script: more than MaxEdits edits                     *)
  MaxEdits,     (* SEG_MAX_EDITS                                           *)
  DefaultBytes, (* IBHA_CSVD_DEFAULT_MAX_CELL_BYTES                        *)
  MaxBytes      (* SEG_MAX_CAP                                             *)

ASSUME SegmentsAssumption == MaxEdits \in Nat

Modes == {"WORD", "CHARACTER", "WORD_THEN_CHARACTER"}

\* The continuation bytes of UTF-8, and the bytes a word is made of.
IsContinuation(b) == b \in 128 .. 191
IsWordByte(b) ==
  b \in 48 .. 57 \/ b \in 65 .. 90 \/ b \in 97 .. 122 \/ b = 95 \/ b >= 128

\* p[i] of the code.
At(p, i) == p[i + 1]

Bytes(p, start, len) == SubSeq(p, start + 1, start + len)

-----------------------------------------------------------------------------
(* seg_push                                                                *)

NoSegment == [op |-> "NONE", start |-> 0, len |-> 0]
Output(cap) == [out |-> <<>>, cap |-> cap, n |-> 0, last |-> NoSegment]

\* Mutant: the previous segment is read back out of the caller's buffer.
PushReadsBack(o, op, start, len) ==
  LET last == IF o.n \in 1 .. Len(o.out) THEN o.out[o.n] ELSE NoSegment
      grown == [last EXCEPT !.len = @ + len]
      new == [op |-> op, start |-> start, len |-> len]
  IN  IF len = 0 THEN o
      ELSE IF last.op = op /\ last.start + last.len = start
      THEN [o EXCEPT !.out[o.n] = grown]
      ELSE [o EXCEPT !.out = IF o.n < o.cap THEN Append(@, new) ELSE @,
                     !.last = new, !.n = @ + 1]

\* One segment more, merged into the one before when it continues it.  The
\* previous segment is remembered apart from the buffer, which may be full.
Push(o, op, start, len) ==
  LET grown == [o.last EXCEPT !.len = @ + len]
      new == [op |-> op, start |-> start, len |-> len]
  IN  IF len = 0 THEN o
      ELSE IF o.last.op = op /\ o.last.start + o.last.len = start
      THEN [o EXCEPT !.out = IF o.n <= o.cap THEN [@ EXCEPT ![o.n] = grown] ELSE @,
                     !.last = grown]
      ELSE [o EXCEPT !.out = IF o.n < o.cap THEN Append(@, new) ELSE @,
                     !.last = new, !.n = @ + 1]

-----------------------------------------------------------------------------
(* tokenize                                                                *)

\* An element starts at i: a word is one element and any other byte its own, or
\* a UTF-8 sequence is.
StartsAt(p, i, word) ==
  \/ i = 0
  \/ IF word THEN ~(IsWordByte(At(p, i - 1)) /\ IsWordByte(At(p, i)))
             ELSE ~IsContinuation(At(p, i))

Tokens(p, word) ==
  LET from[i \in 0 .. Len(p)] ==
        IF i = Len(p) THEN <<>>
        ELSE LET next == CHOOSE j \in i + 1 .. Len(p) :
                           /\ j = Len(p) \/ StartsAt(p, j, word)
                           /\ \A x \in i + 1 .. j - 1 : ~StartsAt(p, x, word)
             IN  <<[start |-> i, len |-> next - i]>> \o from[next]
  IN  from[0]

Slices(p, e) == [i \in DOMAIN e |-> Bytes(p, e[i].start, e[i].len)]

-----------------------------------------------------------------------------
(* myers, over two sequences of elements                                   *)

\* The diagonal whose end the point on diagonal k is reached from in round d.
FromAbove(v, d, k) == k = -d \/ (k # d /\ v[k - 1] < v[k + 1])

\* Mutant: one equal element at most.
SlideOnce(a, b, k, x) ==
  IF x < Len(a) /\ x - k < Len(b) /\ At(a, x) = At(b, x - k) THEN x + 1 ELSE x

\* As far as equal elements lead from x on diagonal k.
Slide(a, b, k, x) ==
  CHOOSE end \in x .. Len(a) + x :
    /\ \A i \in x .. end - 1 : i < Len(a) /\ i - k < Len(b) /\ At(a, i) = At(b, i - k)
    /\ ~(end < Len(a) /\ end - k < Len(b) /\ At(a, end) = At(b, end - k))

Diagonals == -(MaxEdits + 1) .. MaxEdits + 1

\* The furthest x on every diagonal after round d, from what it was before.
Round(a, b, d, v) ==
  [k \in Diagonals |->
     IF k \in -d .. d /\ (k - d) % 2 = 0
     THEN Slide(a, b, k, IF FromAbove(v, d, k) THEN v[k + 1] ELSE v[k - 1] + 1)
     ELSE v[k]]

Reaches(a, b, v, d) ==
  \E k \in -d .. d : (k - d) % 2 = 0 /\ v[k] >= Len(a) /\ v[k] - k >= Len(b)

\* The snapshots of the furthest points, each taken before its round, and last
\* the one after the round that reached both ends, or after MaxEdits gave out.
Unfinished(a, b, t, d) == Len(t) = d + 1 /\ ~(d > 0 /\ Reaches(a, b, t[d + 1], d - 1))
Longer(a, b, t, d) ==
  IF Unfinished(a, b, t, d) THEN Append(t, Round(a, b, d, t[d + 1])) ELSE t

Trace(a, b) ==
  LET upTo[d \in 0 .. MaxEdits] ==
        Longer(a, b, IF d = 0 THEN <<[k \in Diagonals |-> 0]>> ELSE upTo[d - 1], d)
  IN  upTo[MaxEdits]

\* Where round d started from to reach point p, given the snapshot before it.
Origin(v, d, p) ==
  LET from == IF FromAbove(v, d, p.x - p.y) THEN p.x - p.y + 1 ELSE p.x - p.y - 1
  IN  [x |-> v[from], y |-> v[from] - from]

Lesser(i, j) == IF i < j THEN i ELSE j

Equals(count) == [i \in 1 .. count |-> "EQUAL"]

\* The edit that leads from q to a diagonal, then the equals along it to p.
EditThenEquals(q, p, equals) ==
  <<IF p.x - equals = q.x THEN "INSERT" ELSE "DELETE">> \o Equals(equals)

RoundOps(q, p) == EditThenEquals(q, p, Lesser(p.x - q.x, p.y - q.y))

\* The ops in forward order, from the snapshots: end[d] is where round d ended.
OpsOf(a, b, t, found) ==
  LET end[d \in 0 .. found] ==
        IF d = found THEN [x |-> Len(a), y |-> Len(b)]
                     ELSE Origin(t[d + 2], d + 1, end[d + 1])
      ops[d \in 0 .. found] ==
        IF d = 0 THEN Equals(end[0].x)
                 ELSE ops[d - 1] \o RoundOps(Origin(t[d + 1], d, end[d]), end[d])
  IN  ops[found]

ScriptOf(a, b, t) ==
  IF Reaches(a, b, t[Len(t)], Len(t) - 2) THEN OpsOf(a, b, t, Len(t) - 2) ELSE TooMany

Script(a, b) == ScriptOf(a, b, Trace(a, b))

-----------------------------------------------------------------------------
(* refine and walk                                                         *)

\* One op of a script by character: which side's next element it takes.
RefineStep(w, op, aoff, ea, boff, eb) ==
  IF op = "INSERT"
  THEN [w EXCEPT !.o = Push(@, op, boff + eb[w.bi].start, eb[w.bi].len), !.bi = @ + 1]
  ELSE [o |-> Push(w.o, op, aoff + ea[w.ai].start, ea[w.ai].len),
        ai |-> w.ai + 1,
        bi |-> IF op = "EQUAL" THEN w.bi + 1 ELSE w.bi]

Replaced(o, aoff, alen, boff, blen) ==
  Push(Push(o, "DELETE", aoff, alen), "INSERT", boff, blen)

RefineOps(o, aoff, ea, boff, eb, ops) ==
  LET done[i \in 0 .. Len(ops)] ==
        IF i = 0 THEN [o |-> o, ai |-> 1, bi |-> 1]
                 ELSE RefineStep(done[i - 1], ops[i], aoff, ea, boff, eb)
  IN  done[Len(ops)].o

RefineBy(o, aoff, alen, ea, boff, blen, eb, ops) ==
  IF ops = TooMany THEN Replaced(o, aoff, alen, boff, blen)
                   ELSE RefineOps(o, aoff, ea, boff, eb, ops)

RefineSpans(o, pa, aoff, ea, pb, boff, eb) ==
  RefineBy(o, aoff, Len(pa), ea, boff, Len(pb), eb, Script(Slices(pa, ea), Slices(pb, eb)))

\* The script over one pair of spans, by character, or the plain replacement
\* when they are too dissimilar.
Refine(o, pa, aoff, pb, boff) ==
  RefineSpans(o, pa, aoff, Tokens(pa, FALSE), pb, boff, Tokens(pb, FALSE))

\* Where element i begins, or where the elements end when there is none.
ElemPos(e, i, base) ==
  IF i <= Len(e) THEN e[i].start
  ELSE IF e = <<>> THEN base
  ELSE e[Len(e)].start + e[Len(e)].len

NoRun == [a |-> 0, alen |-> 0, b |-> 0, blen |-> 0, open |-> FALSE]

\* One maximal run of deletes and inserts is over.
Flush(o, run, a, b, refine) ==
  IF ~run.open THEN o
  ELSE IF refine /\ run.alen > 0 /\ run.blen > 0
  THEN Refine(o, Bytes(a, run.a, run.alen), run.a, Bytes(b, run.b, run.blen), run.b)
  ELSE Replaced(o, run.a, run.alen, run.b, run.blen)

\* The run an edit belongs to: the one that is open, or one that begins here.
RunAt(w, ea, eb, base) ==
  IF w.run.open THEN w.run
  ELSE [a |-> ElemPos(ea, w.ai, base), alen |-> 0,
        b |-> ElemPos(eb, w.bi, base), blen |-> 0, open |-> TRUE]

WalkStep(w, op, run, a, b, ea, eb, refine) ==
  CASE op = "EQUAL" ->
         [o |-> Push(Flush(w.o, w.run, a, b, refine), op, ea[w.ai].start, ea[w.ai].len),
          ai |-> w.ai + 1, bi |-> w.bi + 1, run |-> NoRun]
    [] op = "DELETE" ->
         [w EXCEPT !.run = [run EXCEPT !.alen = @ + ea[w.ai].len], !.ai = @ + 1]
    [] op = "INSERT" ->
         [w EXCEPT !.run = [run EXCEPT !.blen = @ + eb[w.bi].len], !.bi = @ + 1]

Flushed(w, a, b, refine) == Flush(w.o, w.run, a, b, refine)

\* The element script walked forward into segments, ea and eb by now in
\* positions of the whole values.
Walk(o, a, b, ea, eb, base, ops, refine) ==
  LET step[i \in 0 .. Len(ops)] ==
        IF i = 0 THEN [o |-> o, ai |-> 1, bi |-> 1, run |-> NoRun]
        ELSE WalkStep(step[i - 1], ops[i], RunAt(step[i - 1], ea, eb, base),
                      a, b, ea, eb, refine)
  IN  Flushed(step[Len(ops)], a, b, refine)

-----------------------------------------------------------------------------
(* ibha_csvd_cell_segments                                                 *)

Longest(S) == CHOOSE x \in S : \A y \in S : y <= x

Word(mode) == mode # "CHARACTER"

\* A cut before next would leave it inside a character or, with words, a word.
CutSplits(before, next, word) ==
  IsContinuation(next) \/ (word /\ IsWordByte(next) /\ IsWordByte(before))

\* How much of the two values is one prefix: the common bytes, less what would
\* make the cut split something of the value that goes on.
Prefix(a, b, mode) ==
  LET common == {p \in 0 .. Lesser(Len(a), Len(b)) : Bytes(a, 0, p) = Bytes(b, 0, p)}
  IN  Longest({p \in common :
         p > 0 => ~CutSplits(At(a, p - 1), IF p < Len(a) THEN At(a, p) ELSE At(b, p),
                             Word(mode))})

\* How much of what is left of them is one suffix.
Suffix(a, b, pre, mode) ==
  LET common == {s \in 0 .. Lesser(Len(a), Len(b)) - pre :
                   Bytes(a, Len(a) - s, s) = Bytes(b, Len(b) - s, s)}
  IN  Longest({s \in common :
         s > 0 => IF s < Len(a) - pre
                  THEN ~CutSplits(At(a, Len(a) - s - 1), At(a, Len(a) - s), Word(mode))
                  ELSE ~IsContinuation(At(a, Len(a) - s))})

\* The tables index the middle; the walk wants positions of the whole value.
Shifted(e, by) == [i \in DOMAIN e |-> [e[i] EXCEPT !.start = @ + by]]

Limit(maxBytes) == Lesser(IF maxBytes = 0 THEN DefaultBytes ELSE maxBytes, MaxBytes)

MiddleBy(o, a, b, pre, amid, ea, bmid, eb, ops, mode) ==
  IF ops = TooMany THEN Replaced(o, pre, Len(amid), pre, Len(bmid))
  ELSE Walk(o, a, b, Shifted(ea, pre), Shifted(eb, pre), pre, ops,
            mode = "WORD_THEN_CHARACTER")

MiddleOf(o, a, b, pre, amid, ea, bmid, eb, mode) ==
  MiddleBy(o, a, b, pre, amid, ea, bmid, eb, Script(Slices(amid, ea), Slices(bmid, eb)), mode)

Middle(o, a, b, pre, amid, bmid, mode) ==
  MiddleOf(o, a, b, pre, amid, Tokens(amid, Word(mode)), bmid, Tokens(bmid, Word(mode)), mode)

Within(o, a, b, pre, suf, mode) ==
  Push(Middle(Push(o, "EQUAL", 0, pre), a, b, pre,
              Bytes(a, pre, Len(a) - pre - suf), Bytes(b, pre, Len(b) - pre - suf), mode),
       "EQUAL", Len(a) - suf, suf)

AfterPrefix(o, a, b, pre, mode) == Within(o, a, b, pre, Suffix(a, b, pre, mode), mode)

\* The segments of two different logical values, written to a buffer of cap.
CellSegments(a, b, mode, maxBytes, cap) ==
  IF \/ Len(a) > Limit(maxBytes) \/ Len(b) > Limit(maxBytes)
     \/ Len(a) = 0 \/ Len(b) = 0
  THEN Replaced(Output(cap), 0, Len(a), 0, Len(b))
  ELSE AfterPrefix(Output(cap), a, b, Prefix(a, b, mode), mode)

=============================================================================
