-------------------------- MODULE ColumnPlanProofs --------------------------
(***************************************************************************)
(* Proofs about ColumnPlan, for headers of any length over any names: the  *)
(* plan never pairs two columns of different names, nor one column twice.  *)
(* The merge only ever writes an entry at its own place, so what is needed *)
(* is that the entries written so far are all behind it.                   *)
(***************************************************************************)
EXTENDS Sides, Induction, TLAPS

\* The merge's map pairs equal names, in order, behind the merge's place.
MapSound ==
  /\ \A t \in DOMAIN tgt : map[t] # None => src[map[t]] = tgt[t] /\ map[t] < si /\ t < ti
  /\ \A t, u \in DOMAIN tgt :
       map[t] # None /\ map[u] # None /\ t < u => map[t] < map[u]

\* Only a lenient policy merges; the default one plans nothing for headers that
\* differ.
StrictSame ==
  /\ phase \in {"merge", "moved"} => Lenient
  /\ ~Lenient /\ phase \in {"resolve", "plan"} => tgt = src

IInv == TypeOK /\ MapSound /\ StrictSame /\ PlanPairsNames

-----------------------------------------------------------------------------
\* A header is a sequence: its domain is the range of its places.
LEMMA HeaderIsSeq ==
  ASSUME NEW h \in Headers
  PROVE  h \in Seq(Names) /\ Len(h) \in Nat /\ DOMAIN h = 1 .. Len(h)
<1>1. PICK n \in 1 .. MaxColumns : h \in [1 .. n -> Names]
  BY DEF Headers
<1>2. n \in Nat
  BY <1>1, SizeAssumption
<1>3. h \in Seq(Names) /\ Len(h) = n
  BY <1>1, <1>2
<1> QED BY <1>1, <1>2, <1>3

\* The invariant holds at first.
LEMMA InitIInv == Init => IInv
<1> SUFFICES ASSUME Init PROVE IInv
  OBVIOUS
<1>1. /\ src \in Headers /\ tgt \in Headers
  BY DEF Init
<1>2. /\ Len(src) \in Nat /\ DOMAIN src = 1 .. Len(src)
      /\ Len(tgt) \in Nat /\ DOMAIN tgt = 1 .. Len(tgt)
  BY <1>1, HeaderIsSeq
<1>3. TypeOK
  BY <1>1, <1>2 DEF Init, TypeOK, None
<1>4. MapSound
  BY DEF Init, MapSound, None
<1>5. StrictSame /\ PlanPairsNames
  BY DEF Init, StrictSame, PlanPairsNames, Lenient
<1> QED BY <1>3, <1>4, <1>5 DEF IInv

\* A match writes the entry at the merge's place and moves past it.
LEMMA MatchedKeeps == IInv /\ Matched => IInv'
<1> SUFFICES ASSUME IInv, Matched PROVE IInv'
  OBVIOUS
<1>1. /\ UNCHANGED <<src, tgt, keys, policy, phase, inherited, compared, status>>
      /\ phase = "merge" /\ si <= Len(src) /\ ti <= Len(tgt)
      /\ tgt[ti] = src[si] /\ map' = [map EXCEPT ![ti] = si]
      /\ si' = si + 1 /\ ti' = ti + 1
  BY DEF Matched, Merging, Advance, files
<1>2. /\ Len(src) \in Nat /\ DOMAIN src = 1 .. Len(src)
      /\ Len(tgt) \in Nat /\ DOMAIN tgt = 1 .. Len(tgt)
  BY HeaderIsSeq DEF IInv, TypeOK
<1>3. /\ si \in 1 .. Len(src) /\ ti \in 1 .. Len(tgt)
      /\ si \in Nat /\ ti \in Nat
      /\ map \in [DOMAIN tgt -> {None} \cup DOMAIN src]
      /\ \A t \in ti .. Len(tgt) : map[t] = None
  <2>1. /\ si \in 1 .. Len(src) + 1 /\ ti \in 1 .. Len(tgt) + 1
        /\ map \in [DOMAIN tgt -> {None} \cup DOMAIN src]
        /\ \A t \in ti .. Len(tgt) : map[t] = None
    BY DEF IInv, TypeOK
  <2> QED BY <1>1, <1>2, <2>1
<1>4. \A t \in DOMAIN tgt : map'[t] = IF t = ti THEN si ELSE map[t]
  BY <1>1, <1>3
<1>5. TypeOK'
  <2>1. map' \in [DOMAIN tgt -> {None} \cup DOMAIN src]
    BY <1>1, <1>2, <1>3
  <2>2. si' \in 1 .. Len(src) + 1 /\ ti' \in 1 .. Len(tgt) + 1
    BY <1>1, <1>2, <1>3
  <2>3. \A t \in ti + 1 .. Len(tgt) : map'[t] = None
    BY <1>2, <1>3, <1>4
  <2> QED BY <1>1, <2>1, <2>2, <2>3 DEF IInv, TypeOK
<1>6. MapSound'
  <2>1. ASSUME NEW t \in DOMAIN tgt, map'[t] # None
        PROVE  src[map'[t]] = tgt[t] /\ map'[t] < si + 1 /\ t < ti + 1
    BY <2>1, <1>1, <1>2, <1>3, <1>4 DEF IInv, MapSound, None
  <2>2. ASSUME NEW t \in DOMAIN tgt, NEW u \in DOMAIN tgt,
               map'[t] # None, map'[u] # None, t < u
        PROVE  map'[t] < map'[u]
    BY <2>2, <1>2, <1>3, <1>4 DEF IInv, MapSound, None
  <2> QED BY <1>1, <2>1, <2>2 DEF MapSound
<1>7. StrictSame' /\ PlanPairsNames'
  BY <1>1 DEF IInv, StrictSame, PlanPairsNames, Lenient
<1> QED BY <1>5, <1>6, <1>7 DEF IInv

\* A refusal leaves the map and the plan as they are.
LEMMA RefuseKeeps ==
  ASSUME IInv, UNCHANGED files, NEW error \in {"columns", "missing key"}, Refuse(error)
  PROVE  IInv'
<1>1. TypeOK'
  BY DEF IInv, TypeOK, Refuse, files
<1>2. MapSound' /\ StrictSame' /\ PlanPairsNames'
  BY DEF IInv, MapSound, StrictSame, PlanPairsNames, Refuse, files, Lenient
<1> QED BY <1>1, <1>2 DEF IInv

\* A turn of the merge that matches nothing writes nothing.
LEMMA SkipKeeps ==
  ASSUME IInv, UNCHANGED files, UNCHANGED map, Merging,
         NEW ds \in {0, 1}, NEW dt \in {0, 1}, Advance(ds, dt)
  PROVE  IInv'
<1>1. /\ UNCHANGED <<src, tgt, keys, policy, phase, inherited, compared, status, map>>
      /\ phase = "merge" /\ si <= Len(src) /\ ti <= Len(tgt)
      /\ si' = si + ds /\ ti' = ti + dt
  BY DEF Merging, Advance, files
<1>2. Len(src) \in Nat /\ Len(tgt) \in Nat /\ DOMAIN tgt = 1 .. Len(tgt)
  BY HeaderIsSeq DEF IInv, TypeOK
<1>3. /\ si \in 1 .. Len(src) /\ ti \in 1 .. Len(tgt)
      /\ map \in [DOMAIN tgt -> {None} \cup DOMAIN src]
      /\ \A t \in ti .. Len(tgt) : map[t] = None
  <2>1. /\ si \in 1 .. Len(src) + 1 /\ ti \in 1 .. Len(tgt) + 1
        /\ map \in [DOMAIN tgt -> {None} \cup DOMAIN src]
        /\ \A t \in ti .. Len(tgt) : map[t] = None
    BY DEF IInv, TypeOK
  <2> QED BY <1>1, <1>2, <2>1
<1>4. TypeOK'
  <2>1. si' \in 1 .. Len(src) + 1 /\ ti' \in 1 .. Len(tgt) + 1
    BY <1>1, <1>2, <1>3
  <2>2. \A t \in ti' .. Len(tgt) : map[t] = None
    BY <1>1, <1>2, <1>3
  <2> QED BY <1>1, <2>1, <2>2 DEF IInv, TypeOK
<1>5. MapSound'
  <2>1. ASSUME NEW t \in DOMAIN tgt, map[t] # None
        PROVE  src[map[t]] = tgt[t] /\ map[t] < si + ds /\ t < ti + dt
    <3>1. map[t] \in DOMAIN src /\ DOMAIN src = 1 .. Len(src)
      BY <2>1, <1>3, HeaderIsSeq DEF IInv, TypeOK
    <3> QED BY <2>1, <3>1, <1>2, <1>3 DEF IInv, MapSound
  <2> QED BY <1>1, <2>1 DEF IInv, MapSound
<1>6. StrictSame' /\ PlanPairsNames'
  BY <1>1 DEF IInv, StrictSame, PlanPairsNames, Lenient
<1> QED BY <1>4, <1>5, <1>6 DEF IInv

\* A step that only goes on to the next phase.
LEMMA PhaseKeeps ==
  ASSUME IInv, UNCHANGED <<files, si, ti, map, compared, status>>,
         phase' \in {"moved", "resolve", "plan"},
         IF Lenient THEN TRUE ELSE tgt = src /\ phase' # "moved"
  PROVE  IInv'
<1>1. TypeOK'
  BY DEF IInv, TypeOK, files
<1>2. MapSound' /\ StrictSame' /\ PlanPairsNames'
  BY DEF IInv, MapSound, StrictSame, PlanPairsNames, files, Lenient
<1> QED BY <1>1, <1>2 DEF IInv

\* The plan is the map, or under the default policy the identity.
LEMMA PlanKeeps == IInv /\ Plan => IInv'
<1> SUFFICES ASSUME IInv, Plan PROVE IInv'
  OBVIOUS
<1>1. /\ UNCHANGED <<src, tgt, keys, policy, si, ti, map, inherited>>
      /\ phase = "plan" /\ phase' = "done"
  BY DEF Plan, files
<1>2. TypeOK'
  BY <1>1 DEF IInv, TypeOK, Plan
<1>3. MapSound' /\ StrictSame'
  BY <1>1 DEF IInv, MapSound, StrictSame, Lenient
<1>4. PlanPairsNames'
  <2>1. CASE ~Lenient
    <3>1. compared' = {<<c, c>> : c \in DOMAIN src} /\ tgt = src
      BY <1>1, <2>1 DEF Plan, IInv, StrictSame
    <3> QED BY <1>1, <3>1 DEF PlanPairsNames
  <2>2. CASE Lenient /\ KeyLost
    BY <1>1, <2>2 DEF Plan, IInv, PlanPairsNames
  <2>3. CASE Lenient /\ ~KeyLost
    <3>1. compared' = Common
      BY <2>3 DEF Plan
    <3>2. \A p \in Common : p[2] \in DOMAIN tgt /\ map[p[2]] # None /\ p[1] = map[p[2]]
      BY DEF Common
    <3>3. /\ Len(src) \in Nat /\ DOMAIN src = 1 .. Len(src)
          /\ Len(tgt) \in Nat /\ DOMAIN tgt = 1 .. Len(tgt)
          /\ map \in [DOMAIN tgt -> {None} \cup DOMAIN src]
      BY HeaderIsSeq DEF IInv, TypeOK
    <3>4. \A p \in Common : src[p[1]] = tgt[p[2]]
      BY <3>2 DEF IInv, MapSound
    <3>5. ASSUME NEW p \in Common, NEW q \in Common
          PROVE  p[1] < q[1] <=> p[2] < q[2]
      <4>1. p[1] \in Nat /\ q[1] \in Nat /\ p[2] \in Nat /\ q[2] \in Nat
        BY <3>2, <3>3 DEF None
      <4>2. p[2] < q[2] => p[1] < q[1]
        BY <3>2 DEF IInv, MapSound
      <4>3. q[2] < p[2] => q[1] < p[1]
        BY <3>2 DEF IInv, MapSound
      <4>4. p[2] = q[2] => p[1] = q[1]
        BY <3>2
      <4> QED BY <4>1, <4>2, <4>3, <4>4
    <3> QED BY <1>1, <3>1, <3>4, <3>5 DEF PlanPairsNames
  <2> QED BY <2>1, <2>2, <2>3
<1> QED BY <1>2, <1>3, <1>4 DEF IInv

\* Every step keeps the invariant.
LEMMA StepKeeps == IInv /\ [Next]_vars => IInv'
<1> SUFFICES ASSUME IInv, [Next]_vars PROVE IInv'
  OBVIOUS
<1>1. CASE Matched
  BY <1>1, MatchedKeeps
<1>2. CASE Inserted
  BY <1>2, SkipKeeps, RefuseKeeps DEF Inserted
<1>3. CASE Removed
  BY <1>3, SkipKeeps, RefuseKeeps DEF Removed
<1>4. CASE Replaced
  BY <1>4, SkipKeeps, RefuseKeeps DEF Replaced
<1>5. CASE EndMerge
  BY <1>5, RefuseKeeps, PhaseKeeps DEF EndMerge, IInv, StrictSame
<1>6. CASE Moved
  BY <1>6, RefuseKeeps, PhaseKeeps DEF Moved, IInv, StrictSame
<1>7. CASE Strict
  BY <1>7, RefuseKeeps, PhaseKeeps DEF Strict
<1>8. CASE Inherit
  BY <1>8, PhaseKeeps DEF Inherit, IInv, StrictSame
<1>9. CASE Plan
  BY <1>9, PlanKeeps
<1>10. CASE UNCHANGED vars
  <2>1. TypeOK'
    BY <1>10 DEF IInv, TypeOK, vars, files
  <2>2. MapSound' /\ StrictSame' /\ PlanPairsNames'
    BY <1>10 DEF IInv, MapSound, StrictSame, PlanPairsNames, vars, files, Lenient
  <2> QED BY <2>1, <2>2 DEF IInv
<1> QED
  BY <1>1, <1>2, <1>3, <1>4, <1>5, <1>6, <1>7, <1>8, <1>9, <1>10 DEF Next

-----------------------------------------------------------------------------
\* The inductive invariant holds throughout.
THEOREM Inductive == Spec => []IInv
<1> QED BY InitIInv, StepKeeps, PTL DEF Spec

\* The merge's places and its map stay inside the two headers.
THEOREM TypeCorrect == Spec => []TypeOK
<1>1. IInv => TypeOK
  BY DEF IInv
<1> QED BY Inductive, <1>1, PTL

\* Whatever the headers and the policy, repeated names included, the diff never
\* compares two columns of different names, nor a column twice or out of order.
THEOREM PlanCorrect == Spec => []PlanPairsNames
<1>1. IInv => PlanPairsNames
  BY DEF IInv
<1> QED BY Inductive, <1>1, PTL

-----------------------------------------------------------------------------
(***************************************************************************)
(* The merge is exact.  It looks ahead and never back, so what it needs is *)
(* that nothing it has left behind is wanted again: a source column left   *)
(* behind has no namesake in what is left of the target, and, while the    *)
(* common columns are in one order, the other way round too.  Then a turn  *)
(* that is refused is one the policy forbids, and once it ends every       *)
(* shared column is matched.                                               *)
(***************************************************************************)
NamesOnce == Injective(src) /\ Injective(tgt)

SourceSeen == NamesOnce =>
  \A s \in DOMAIN src, t \in DOMAIN tgt : s < si /\ ti <= t => src[s] # tgt[t]

TargetSeen == NamesOnce /\ SameOrder =>
  \A s \in DOMAIN src, t \in DOMAIN tgt : si <= s /\ t < ti => src[s] # tgt[t]

SharedMatched == NamesOnce /\ SameOrder =>
  \A s \in DOMAIN src, t \in DOMAIN tgt : s < si /\ t < ti /\ src[s] = tgt[t] => map[t] = s

Seen == SourceSeen /\ TargetSeen /\ SharedMatched

\* A column is passed over only under its flag.
PolicyKept ==
  /\ "added" \notin policy => \A t \in DOMAIN tgt : t < ti => map[t] # None
  /\ "removed" \notin policy => \A s \in DOMAIN src : s < si => s \in Taken

MergeEnded == phase \in {"moved", "resolve", "plan"} /\ Lenient =>
  /\ Len(src) < si \/ Len(tgt) < ti
  /\ "added" \notin policy => Len(tgt) < ti
  /\ "removed" \notin policy => Len(src) < si
  /\ \E t \in DOMAIN tgt : map[t] # None

NoneMoved == phase \in {"resolve", "plan"} /\ Lenient =>
  \A s \in DOMAIN src : s \notin Taken => \A t \in DOMAIN tgt : tgt[t] # src[s]

Underway ==
  /\ phase # "done" => status = "ok"
  /\ phase = "strict" => ~Lenient

Exact == Seen /\ PolicyKept /\ MergeEnded /\ NoneMoved /\ Underway /\ PolicyExact

-----------------------------------------------------------------------------
\* The shapes of the state the arguments use.
LEMMA Places ==
  ASSUME TypeOK
  PROVE  /\ Len(src) \in Nat /\ DOMAIN src = 1 .. Len(src)
         /\ Len(tgt) \in Nat /\ DOMAIN tgt = 1 .. Len(tgt)
         /\ si \in Nat /\ 1 <= si /\ si <= Len(src) + 1
         /\ ti \in Nat /\ 1 <= ti /\ ti <= Len(tgt) + 1
<1>1. /\ src \in Headers /\ tgt \in Headers
      /\ si \in 1 .. Len(src) + 1 /\ ti \in 1 .. Len(tgt) + 1
  BY DEF TypeOK
<1>2. /\ Len(src) \in Nat /\ DOMAIN src = 1 .. Len(src)
      /\ Len(tgt) \in Nat /\ DOMAIN tgt = 1 .. Len(tgt)
  BY <1>1, HeaderIsSeq
<1> QED BY <1>1, <1>2

\* A column of one file alone, without its flag, is what the policy forbids.
LEMMA AddedForbidden ==
  ASSUME "added" \notin policy, NEW t \in DOMAIN tgt, \A s \in DOMAIN src : src[s] # tgt[t]
  PROVE  ~Allowed
  BY DEF Allowed, Shared

LEMMA RemovedForbidden ==
  ASSUME "removed" \notin policy, NEW s \in DOMAIN src, \A t \in DOMAIN tgt : src[s] # tgt[t]
  PROVE  ~Allowed
  BY DEF Allowed, Shared

\* What the merge knows of the two columns it looks at.
LEMMA TargetAlone ==
  ASSUME TypeOK, Seen, NamesOnce, SameOrder, Merging, tgt[ti] # src[si],
         InTargetAhead \/ ~InSourceAhead
  PROVE  ti \in DOMAIN tgt /\ \A s \in DOMAIN src : src[s] # tgt[ti]
<1>1. /\ Len(src) \in Nat /\ DOMAIN src = 1 .. Len(src)
      /\ Len(tgt) \in Nat /\ DOMAIN tgt = 1 .. Len(tgt)
      /\ si \in Nat /\ 1 <= si /\ si <= Len(src)
      /\ ti \in Nat /\ 1 <= ti /\ ti <= Len(tgt)
  BY Places DEF Merging
<1>2. si \in DOMAIN src /\ ti \in DOMAIN tgt
  BY <1>1
<1>3. ASSUME NEW s \in DOMAIN src, src[s] = tgt[ti] PROVE FALSE
  <2>0. s \in Nat /\ s \in 1 .. Len(src)
    BY <1>1
  <2>1. ~(s < si)
    <3>1. s < si /\ ti <= ti => src[s] # tgt[ti]
      BY <1>2 DEF Seen, SourceSeen
    <3> QED BY <3>1, <1>1, <1>3
  <2>2. s # si
    BY <1>3
  <2>3. s \in si + 1 .. Len(src) /\ si < s
    BY <2>0, <2>1, <2>2, <1>1
  <2>4. InSourceAhead
    BY <2>3, <1>3 DEF InSourceAhead
  <2>5. PICK t \in ti + 1 .. Len(tgt) : tgt[t] = src[si]
    BY <2>4 DEF InTargetAhead
  <2>6. t \in DOMAIN tgt /\ ti < t /\ t \in Nat
    BY <2>5, <1>1
  <2>7. <<si, t>> \in Shared /\ <<s, ti>> \in Shared
    BY <1>2, <1>3, <2>5, <2>6 DEF Shared
  <2>8. t < ti
    BY <2>7, <2>3 DEF SameOrder
  <2> QED BY <2>6, <2>8, <1>1
<1> QED BY <1>2, <1>3

LEMMA SourceAlone ==
  ASSUME TypeOK, Seen, NamesOnce, SameOrder, Merging, tgt[ti] # src[si], ~InTargetAhead
  PROVE  si \in DOMAIN src /\ \A t \in DOMAIN tgt : src[si] # tgt[t]
<1>1. /\ Len(src) \in Nat /\ DOMAIN src = 1 .. Len(src)
      /\ Len(tgt) \in Nat /\ DOMAIN tgt = 1 .. Len(tgt)
      /\ si \in Nat /\ 1 <= si /\ si <= Len(src)
      /\ ti \in Nat /\ 1 <= ti /\ ti <= Len(tgt)
  BY Places DEF Merging
<1>2. si \in DOMAIN src /\ ti \in DOMAIN tgt
  BY <1>1
<1>3. ASSUME NEW t \in DOMAIN tgt, src[si] = tgt[t] PROVE FALSE
  <2>0. t \in Nat /\ t \in 1 .. Len(tgt)
    BY <1>1
  <2>1. ~(t < ti)
    <3>1. si <= si /\ t < ti => src[si] # tgt[t]
      BY <1>2 DEF Seen, TargetSeen
    <3> QED BY <3>1, <1>1, <1>3
  <2>2. t # ti
    BY <1>3
  <2>3. t \in ti + 1 .. Len(tgt)
    BY <2>0, <2>1, <2>2, <1>1
  <2> QED BY <2>3, <1>3 DEF InTargetAhead
<1> QED BY <1>2, <1>3

LEMMA NotAhead ==
  ASSUME TypeOK, Merging, tgt[ti] # src[si], ~InTargetAhead
  PROVE  \A t \in DOMAIN tgt : ti <= t => src[si] # tgt[t]
<1>1. ASSUME NEW t \in DOMAIN tgt, ti <= t, src[si] = tgt[t] PROVE FALSE
  <2>1. t \in ti + 1 .. Len(tgt)
    <3>1. Len(tgt) \in Nat /\ DOMAIN tgt = 1 .. Len(tgt) /\ ti \in Nat /\ t # ti
      BY <1>1, Places
    <3> QED BY <1>1, <3>1
  <2> QED BY <1>1, <2>1 DEF InTargetAhead
<1> QED BY <1>1

\* Of two headers in one order the merge matches every shared column.
LEMMA AllMatched ==
  ASSUME TypeOK, Seen, NamesOnce, SameOrder, Len(src) < si \/ Len(tgt) < ti,
         NEW s \in DOMAIN src, NEW t \in DOMAIN tgt, src[s] = tgt[t]
  PROVE  map[t] = s
<1>1. /\ Len(src) \in Nat /\ DOMAIN src = 1 .. Len(src)
      /\ Len(tgt) \in Nat /\ DOMAIN tgt = 1 .. Len(tgt)
      /\ si \in Nat /\ ti \in Nat /\ s \in Nat /\ t \in Nat
      /\ s <= Len(src) /\ t <= Len(tgt)
  BY Places
<1>2. ~(s < si /\ ti <= t) /\ ~(si <= s /\ t < ti)
  BY DEF Seen, SourceSeen, TargetSeen
<1>3. s < si /\ t < ti
  BY <1>1, <1>2
<1> QED BY <1>3 DEF Seen, SharedMatched

-----------------------------------------------------------------------------
\* What is said of the headers alone stays.
LEMMA FilesStay ==
  ASSUME UNCHANGED files
  PROVE  /\ NamesOnce' <=> NamesOnce
         /\ SameOrder' <=> SameOrder
         /\ Allowed' <=> Allowed
         /\ Shared' = Shared
  BY DEF files, NamesOnce, Injective, SameOrder, Allowed, Shared

\* A refusal is exact if the policy does refuse the headers.
LEMMA RefuseExact ==
  ASSUME Exact, UNCHANGED files, NEW error, error # "ok", Refuse(error),
         NamesOnce => ~Allowed
  PROVE  Exact'
<1>1. /\ UNCHANGED <<src, tgt, keys, policy, si, ti, map>>
      /\ phase' = "done" /\ status' = error
  BY DEF files, Refuse
<1>2. Seen'
  BY <1>1, FilesStay DEF Exact, Seen, SourceSeen, TargetSeen, SharedMatched
<1>3. PolicyKept'
  BY <1>1 DEF Exact, PolicyKept, Taken
<1>4. MergeEnded' /\ NoneMoved' /\ Underway'
  BY <1>1 DEF MergeEnded, NoneMoved, Underway
<1>5. PolicyExact'
  <2>1. NamesOnce' => ~Allowed'
    BY FilesStay
  <2>2. (Injective(src) /\ Injective(tgt))' <=> NamesOnce'
    BY DEF NamesOnce
  <2>3. status' # "ok"
    BY <1>1
  <2> QED BY <2>1, <2>2, <2>3 DEF PolicyExact
<1> QED BY <1>2, <1>3, <1>4, <1>5 DEF Exact

\* A turn of the merge is exact if the columns it leaves behind are known.
LEMMA TurnExact ==
  ASSUME TypeOK, Exact, UNCHANGED files, phase = "merge", phase' = "merge", UNCHANGED status,
         SourceSeen', TargetSeen', SharedMatched', PolicyKept'
  PROVE  Exact'
<1>1. MergeEnded' /\ NoneMoved' /\ PolicyExact'
  BY DEF MergeEnded, NoneMoved, PolicyExact
<1>2. Underway'
  BY DEF Exact, Underway
<1> QED BY <1>1, <1>2 DEF Exact, Seen

LEMMA MatchedExact == IInv /\ Exact /\ Matched => Exact'
<1> SUFFICES ASSUME IInv, Exact, Matched PROVE Exact'
  OBVIOUS
<1>0. TypeOK
  BY DEF IInv
<1>1. /\ UNCHANGED <<src, tgt, keys, policy, phase, status>> /\ UNCHANGED files
      /\ phase = "merge" /\ Merging
      /\ tgt[ti] = src[si] /\ map' = [map EXCEPT ![ti] = si]
      /\ si' = si + 1 /\ ti' = ti + 1
  BY DEF Matched, Merging, Advance, files
<1>2. /\ Len(src) \in Nat /\ DOMAIN src = 1 .. Len(src)
      /\ Len(tgt) \in Nat /\ DOMAIN tgt = 1 .. Len(tgt)
      /\ si \in Nat /\ 1 <= si /\ si <= Len(src)
      /\ ti \in Nat /\ 1 <= ti /\ ti <= Len(tgt)
  BY <1>0, <1>1, Places DEF Merging
<1>3. /\ si \in DOMAIN src /\ ti \in DOMAIN tgt
      /\ map \in [DOMAIN tgt -> {None} \cup DOMAIN src]
      /\ \A s \in DOMAIN src : s \in Nat
      /\ \A t \in DOMAIN tgt : t \in Nat
  <2>1. map \in [DOMAIN tgt -> {None} \cup DOMAIN src]
    BY <1>0 DEF TypeOK
  <2>2. \A n \in Nat : 1 .. n \subseteq Nat
    OBVIOUS
  <2> QED BY <2>1, <2>2, <1>2
<1>4. \A t \in DOMAIN tgt : map'[t] = IF t = ti THEN si ELSE map[t]
  BY <1>1, <1>3
<1>5. SourceSeen'
  <2> SUFFICES ASSUME NamesOnce, NEW s \in DOMAIN src, NEW t \in DOMAIN tgt,
                      s < si + 1, ti + 1 <= t
               PROVE  src[s] # tgt[t]
    BY <1>1, FilesStay DEF SourceSeen
  <2>1. CASE s < si
    <3>1. ti <= t
      BY <1>2, <1>3
    <3> QED BY <2>1, <3>1 DEF Exact, Seen, SourceSeen
  <2>2. CASE s = si
    <3>1. t # ti
      BY <1>2, <1>3
    <3> QED BY <2>2, <3>1, <1>1, <1>3 DEF NamesOnce, Injective
  <2> QED BY <2>1, <2>2, <1>2, <1>3
<1>6. TargetSeen'
  <2> SUFFICES ASSUME NamesOnce, SameOrder, NEW s \in DOMAIN src, NEW t \in DOMAIN tgt,
                      si + 1 <= s, t < ti + 1
               PROVE  src[s] # tgt[t]
    BY <1>1, FilesStay DEF TargetSeen
  <2>1. CASE t < ti
    <3>1. si <= s
      BY <1>2, <1>3
    <3> QED BY <2>1, <3>1 DEF Exact, Seen, TargetSeen
  <2>2. CASE t = ti
    <3>1. s # si
      BY <1>2, <1>3
    <3> QED BY <2>2, <3>1, <1>1, <1>3 DEF NamesOnce, Injective
  <2> QED BY <2>1, <2>2, <1>2, <1>3
<1>7. SharedMatched'
  <2> SUFFICES ASSUME NamesOnce, SameOrder, NEW s \in DOMAIN src, NEW t \in DOMAIN tgt,
                      s < si + 1, t < ti + 1, src[s] = tgt[t]
               PROVE  map'[t] = s
    BY <1>1, FilesStay DEF SharedMatched
  <2>1. CASE t = ti
    <3>1. s = si
      BY <2>1, <1>1, <1>3 DEF NamesOnce, Injective
    <3> QED BY <2>1, <3>1, <1>3, <1>4
  <2>2. CASE t # ti
    <3>1. t < ti
      BY <2>2, <1>2, <1>3
    <3>2. s # si
      BY <2>2, <1>1, <1>3 DEF NamesOnce, Injective
    <3>3. s < si
      BY <3>2, <1>2, <1>3
    <3>4. map[t] = s
      BY <3>1, <3>3 DEF Exact, Seen, SharedMatched
    <3> QED BY <2>2, <3>4, <1>4
  <2> QED BY <2>1, <2>2
<1>8. PolicyKept'
  <2>1. ASSUME "added" \notin policy, NEW t \in DOMAIN tgt, t < ti + 1 PROVE map'[t] # None
    <3>1. CASE t = ti
      BY <3>1, <1>2, <1>4 DEF None
    <3>2. CASE t # ti
      <4>1. t < ti
        BY <2>1, <3>2, <1>2, <1>3
      <4> QED BY <2>1, <3>2, <4>1, <1>4 DEF Exact, PolicyKept
    <3> QED BY <3>1, <3>2
  <2>2. ASSUME "removed" \notin policy, NEW s \in DOMAIN src, s < si + 1
        PROVE  \E t \in DOMAIN tgt : map'[t] = s
    <3>1. CASE s = si
      BY <3>1, <1>3, <1>4
    <3>2. CASE s # si
      <4>1. s < si
        BY <2>2, <3>2, <1>2, <1>3
      <4>2. PICK t \in DOMAIN tgt : map[t] = s
        BY <2>2, <4>1 DEF Exact, PolicyKept, Taken
      <4>3. t # ti
        <5>1. map[ti] = None
          <6>1. ti \in ti .. Len(tgt)
            BY <1>2
          <6> QED BY <6>1, <1>0 DEF TypeOK
        <5>2. s # None
          BY <1>2 DEF None
        <5> QED BY <4>2, <5>1, <5>2
      <4> QED BY <4>2, <4>3, <1>4
    <3> QED BY <3>1, <3>2
  <2>3. \A s : s \in Taken' <=> \E t \in DOMAIN tgt : map'[t] = s
    BY <1>1 DEF Taken
  <2> QED BY <2>1, <2>2, <2>3, <1>1 DEF PolicyKept
<1> QED BY <1>0, <1>1, <1>5, <1>6, <1>7, <1>8, TurnExact

\* A turn that matches nothing passes over a target column that is the target's
\* alone, or a source column the rest of the target does not have.
LEMMA SkipExact ==
  ASSUME TypeOK, Exact, UNCHANGED files, UNCHANGED map, Merging,
         NEW ds \in {0, 1}, NEW dt \in {0, 1}, Advance(ds, dt),
         dt = 1 => "added" \in policy,
         ds = 1 => "removed" \in policy,
         dt = 1 /\ NamesOnce /\ SameOrder => \A s \in DOMAIN src : src[s] # tgt[ti],
         ds = 1 => \A t \in DOMAIN tgt : ti <= t => src[si] # tgt[t]
  PROVE  Exact'
<1>1. /\ UNCHANGED <<src, tgt, keys, policy, phase, status, map>>
      /\ phase = "merge" /\ si' = si + ds /\ ti' = ti + dt
  BY DEF Merging, Advance, files
<1>2. /\ Len(src) \in Nat /\ DOMAIN src = 1 .. Len(src)
      /\ Len(tgt) \in Nat /\ DOMAIN tgt = 1 .. Len(tgt)
      /\ si \in Nat /\ 1 <= si /\ si <= Len(src)
      /\ ti \in Nat /\ 1 <= ti /\ ti <= Len(tgt)
  BY Places DEF Merging
<1>3. si \in DOMAIN src /\ ti \in DOMAIN tgt
  BY <1>2
<1>4. SourceSeen'
  <2> SUFFICES ASSUME NamesOnce, NEW s \in DOMAIN src, NEW t \in DOMAIN tgt,
                      s < si + ds, ti + dt <= t
               PROVE  src[s] # tgt[t]
    BY <1>1, FilesStay DEF SourceSeen
  <2>0. s \in Nat /\ t \in Nat
    BY <1>2
  <2>1. ti <= t
    BY <1>2, <2>0
  <2>2. CASE s < si
    BY <2>1, <2>2 DEF Exact, Seen, SourceSeen
  <2>3. CASE ~(s < si)
    <3>1. s = si /\ ds = 1
      BY <2>0, <2>3, <1>2
    <3> QED BY <2>1, <3>1
  <2> QED BY <2>2, <2>3
<1>5. TargetSeen'
  <2> SUFFICES ASSUME NamesOnce, SameOrder, NEW s \in DOMAIN src, NEW t \in DOMAIN tgt,
                      si + ds <= s, t < ti + dt
               PROVE  src[s] # tgt[t]
    BY <1>1, FilesStay DEF TargetSeen
  <2>0. s \in Nat /\ t \in Nat
    BY <1>2
  <2>1. si <= s
    BY <1>2, <2>0
  <2>2. CASE t < ti
    BY <2>1, <2>2 DEF Exact, Seen, TargetSeen
  <2>3. CASE ~(t < ti)
    <3>1. t = ti /\ dt = 1
      BY <2>0, <2>3, <1>2
    <3> QED BY <3>1
  <2> QED BY <2>2, <2>3
<1>6. SharedMatched'
  <2> SUFFICES ASSUME NamesOnce, SameOrder, NEW s \in DOMAIN src, NEW t \in DOMAIN tgt,
                      s < si + ds, t < ti + dt, src[s] = tgt[t]
               PROVE  map[t] = s
    BY <1>1, FilesStay DEF SharedMatched
  <2>0. s \in Nat /\ t \in Nat
    BY <1>2
  <2>1. t < ti
    <3>1. ASSUME ~(t < ti) PROVE FALSE
      <4>1. t = ti /\ dt = 1
        BY <2>0, <3>1, <1>2
      <4> QED BY <4>1
    <3> QED BY <3>1
  <2>2. ~(si <= s)
    BY <2>1 DEF Exact, Seen, TargetSeen
  <2>3. s < si
    BY <2>0, <2>2, <1>2
  <2> QED BY <2>1, <2>3 DEF Exact, Seen, SharedMatched
<1>7. PolicyKept'
  <2>1. ASSUME "added" \notin policy, NEW t \in DOMAIN tgt, t < ti + dt PROVE map[t] # None
    <3>1. t < ti
      BY <2>1, <1>2
    <3> QED BY <2>1, <3>1 DEF Exact, PolicyKept
  <2>2. ASSUME "removed" \notin policy, NEW s \in DOMAIN src, s < si + ds PROVE s \in Taken
    <3>1. s < si
      BY <2>2, <1>2
    <3> QED BY <2>2, <3>1 DEF Exact, PolicyKept
  <2> QED BY <2>1, <2>2, <1>1 DEF PolicyKept, Taken
<1> QED BY <1>1, <1>4, <1>5, <1>6, <1>7, TurnExact

LEMMA InsertedExact == IInv /\ Exact /\ Inserted => Exact'
<1> SUFFICES ASSUME IInv, Exact, Inserted PROVE Exact'
  OBVIOUS
<1>1. TypeOK /\ Merging /\ tgt[ti] # src[si] /\ InTargetAhead /\ UNCHANGED files
  BY DEF IInv, Inserted
<1>2. NamesOnce /\ SameOrder => ti \in DOMAIN tgt /\ \A s \in DOMAIN src : src[s] # tgt[ti]
  BY <1>1, TargetAlone DEF Exact
<1>3. CASE "added" \in policy
  BY <1>1, <1>2, <1>3, SkipExact DEF Inserted
<1>4. CASE "added" \notin policy
  <2>1. NamesOnce => ~Allowed
    BY <1>2, <1>4, AddedForbidden DEF Allowed
  <2> QED BY <1>1, <1>4, <2>1, RefuseExact DEF Inserted
<1> QED BY <1>3, <1>4

LEMMA RemovedExact == IInv /\ Exact /\ Removed => Exact'
<1> SUFFICES ASSUME IInv, Exact, Removed PROVE Exact'
  OBVIOUS
<1>1. TypeOK /\ Merging /\ tgt[ti] # src[si] /\ ~InTargetAhead /\ UNCHANGED files
  BY DEF IInv, Removed
<1>2. NamesOnce /\ SameOrder => si \in DOMAIN src /\ \A t \in DOMAIN tgt : src[si] # tgt[t]
  BY <1>1, SourceAlone DEF Exact
<1>3. \A t \in DOMAIN tgt : ti <= t => src[si] # tgt[t]
  BY <1>1, NotAhead
<1>4. CASE "removed" \in policy
  BY <1>1, <1>3, <1>4, SkipExact DEF Removed
<1>5. CASE "removed" \notin policy
  <2>1. NamesOnce => ~Allowed
    BY <1>2, <1>5, RemovedForbidden DEF Allowed
  <2> QED BY <1>1, <1>5, <2>1, RefuseExact DEF Removed
<1> QED BY <1>4, <1>5

LEMMA ReplacedExact == IInv /\ Exact /\ Replaced => Exact'
<1> SUFFICES ASSUME IInv, Exact, Replaced PROVE Exact'
  OBVIOUS
<1>1. /\ TypeOK /\ Merging /\ tgt[ti] # src[si] /\ ~InTargetAhead /\ ~InSourceAhead
      /\ UNCHANGED files
  BY DEF IInv, Replaced
<1>2. NamesOnce /\ SameOrder => si \in DOMAIN src /\ \A t \in DOMAIN tgt : src[si] # tgt[t]
  BY <1>1, SourceAlone DEF Exact
<1>3. NamesOnce /\ SameOrder => ti \in DOMAIN tgt /\ \A s \in DOMAIN src : src[s] # tgt[ti]
  BY <1>1, TargetAlone DEF Exact
<1>4. \A t \in DOMAIN tgt : ti <= t => src[si] # tgt[t]
  BY <1>1, NotAhead
<1>5. CASE policy = {"added", "removed"}
  <2>1. "added" \in policy /\ "removed" \in policy
    BY <1>5
  <2> QED BY <1>1, <1>3, <1>4, <1>5, <2>1, SkipExact DEF Replaced
<1>6. CASE policy # {"added", "removed"}
  <2>1. "added" \notin policy \/ "removed" \notin policy
    BY <1>1, <1>6 DEF TypeOK
  <2>2. NamesOnce => ~Allowed
    BY <1>2, <1>3, <2>1, AddedForbidden, RemovedForbidden DEF Allowed
  <2> QED BY <1>1, <1>6, <2>2, RefuseExact DEF Replaced
<1> QED BY <1>5, <1>6

\* What is left over at the end of a merge is one file's alone.
LEMMA EndMergeExact == IInv /\ Exact /\ EndMerge => Exact'
<1> SUFFICES ASSUME IInv, Exact, EndMerge PROVE Exact'
  OBVIOUS
<1>1. TypeOK /\ phase = "merge" /\ ~Merging /\ UNCHANGED files
  BY DEF IInv, EndMerge
<1>2. /\ Len(src) \in Nat /\ DOMAIN src = 1 .. Len(src)
      /\ Len(tgt) \in Nat /\ DOMAIN tgt = 1 .. Len(tgt)
      /\ si \in Nat /\ 1 <= si /\ ti \in Nat /\ 1 <= ti
      /\ Len(src) < si \/ Len(tgt) < ti
  BY <1>1, Places DEF Merging
<1>3. ASSUME ti <= Len(tgt), NamesOnce
      PROVE  ti \in DOMAIN tgt /\ \A s \in DOMAIN src : src[s] # tgt[ti]
  <2>1. ti \in DOMAIN tgt /\ \A s \in DOMAIN src : s < si
    BY <1>2, <1>3
  <2> QED BY <1>2, <1>3, <2>1 DEF Exact, Seen, SourceSeen
<1>4. ASSUME si <= Len(src), NamesOnce, SameOrder
      PROVE  si \in DOMAIN src /\ \A t \in DOMAIN tgt : src[si] # tgt[t]
  <2>1. si \in DOMAIN src /\ \A t \in DOMAIN tgt : t < ti
    BY <1>2, <1>4
  <2> QED BY <1>2, <1>4, <2>1 DEF Exact, Seen, TargetSeen
<1>5. ASSUME \A t \in DOMAIN tgt : map[t] = None, NamesOnce, SameOrder PROVE Shared = {}
  <2>1. ASSUME NEW p \in Shared PROVE FALSE
    <3>1. p[1] \in DOMAIN src /\ p[2] \in DOMAIN tgt /\ src[p[1]] = tgt[p[2]]
      BY DEF Shared
    <3>2. map[p[2]] = p[1]
      BY <1>1, <1>2, <1>5, <3>1, AllMatched DEF Exact
    <3> QED BY <1>2, <1>5, <3>1, <3>2 DEF None
  <2> QED BY <2>1
<1> DEFINE Over == \/ ti <= Len(tgt) /\ "added" \notin policy
                   \/ si <= Len(src) /\ "removed" \notin policy
                   \/ \A t \in DOMAIN tgt : map[t] = None
<1>6. CASE Over
  <2>1. NamesOnce => ~Allowed
    BY <1>3, <1>4, <1>5, <1>6, AddedForbidden, RemovedForbidden DEF Allowed
  <2> QED BY <1>1, <1>6, <2>1, RefuseExact DEF EndMerge
<1>7. CASE ~Over
  <2>1. /\ UNCHANGED <<src, tgt, keys, policy, si, ti, map, status>>
        /\ phase' = "moved"
    BY <1>7, <1>1 DEF EndMerge, files
  <2>2. Seen'
    BY <1>1, <2>1, FilesStay DEF Exact, Seen, SourceSeen, TargetSeen, SharedMatched
  <2>3. PolicyKept'
    BY <2>1 DEF Exact, PolicyKept, Taken
  <2>4. /\ "added" \notin policy => Len(tgt) < ti
        /\ "removed" \notin policy => Len(src) < si
        /\ \E t \in DOMAIN tgt : map[t] # None
    BY <1>7, <1>2
  <2>5. MergeEnded'
    BY <1>2, <2>1, <2>4 DEF MergeEnded
  <2>6. NoneMoved' /\ PolicyExact'
    BY <2>1 DEF NoneMoved, PolicyExact
  <2>7. Underway'
    BY <1>1, <2>1 DEF Exact, Underway
  <2> QED BY <2>2, <2>3, <2>5, <2>6, <2>7 DEF Exact
<1> QED BY <1>6, <1>7

\* Once the merge has ended, and no column has moved, the map's pairs are those
\* the headers share.
LEMMA TakenShared ==
  ASSUME TypeOK, MapSound, NoneMoved, NamesOnce, Lenient, phase \in {"resolve", "plan"}
  PROVE  /\ Common = Shared
         /\ \A s \in DOMAIN src : s \in Taken <=> \E p \in Shared : p[1] = s
<1>1. /\ Len(src) \in Nat /\ DOMAIN src = 1 .. Len(src)
      /\ Len(tgt) \in Nat /\ DOMAIN tgt = 1 .. Len(tgt)
      /\ map \in [DOMAIN tgt -> {None} \cup DOMAIN src]
      /\ None \notin DOMAIN src
  <2>1. map \in [DOMAIN tgt -> {None} \cup DOMAIN src]
    BY DEF TypeOK
  <2> QED BY <2>1, Places DEF None
<1>2. ASSUME NEW t \in DOMAIN tgt, map[t] # None PROVE <<map[t], t>> \in Shared
  BY <1>1, <1>2 DEF MapSound, Shared
<1>3. ASSUME NEW s \in DOMAIN src, NEW t \in DOMAIN tgt, src[s] = tgt[t]
      PROVE  map[t] = s
  <2>1. PICK u \in DOMAIN tgt : map[u] = s
    BY <1>3 DEF NoneMoved, Taken
  <2>2. src[s] = tgt[u]
    BY <2>1, <1>1 DEF MapSound
  <2> QED BY <2>1, <2>2, <1>3 DEF NamesOnce, Injective
<1>4. Common \subseteq Shared
  BY <1>2 DEF Common
<1>5. Shared \subseteq Common
  <2>1. ASSUME NEW p \in Shared PROVE p \in Common
    <3>1. PICK s \in DOMAIN src, t \in DOMAIN tgt : p = <<s, t>> /\ src[s] = tgt[t]
      BY DEF Shared
    <3>2. map[t] = s /\ s # None
      BY <3>1, <1>1, <1>3
    <3> QED BY <3>1, <3>2 DEF Common
  <2> QED BY <2>1
<1>6. ASSUME NEW s \in DOMAIN src
      PROVE  s \in Taken <=> \E p \in Shared : p[1] = s
  <2>1. ASSUME s \in Taken PROVE \E p \in Shared : p[1] = s
    <3>1. PICK t \in DOMAIN tgt : map[t] = s
      BY <2>1 DEF Taken
    <3>2. <<s, t>> \in Shared
      BY <3>1, <1>1, <1>2
    <3> QED BY <3>2
  <2>2. ASSUME NEW p \in Shared, p[1] = s PROVE s \in Taken
    <3>1. p[2] \in DOMAIN tgt /\ src[s] = tgt[p[2]]
      BY <2>2 DEF Shared
    <3>2. map[p[2]] = s
      BY <3>1, <1>3
    <3> QED BY <3>1, <3>2 DEF Taken
  <2> QED BY <2>1, <2>2
<1> QED BY <1>4, <1>5, <1>6

LEMMA MovedExact == IInv /\ Exact /\ Moved => Exact'
<1> SUFFICES ASSUME IInv, Exact, Moved PROVE Exact'
  OBVIOUS
<1>1. TypeOK /\ phase = "moved" /\ UNCHANGED files /\ Lenient
  BY DEF IInv, Moved, StrictSame
<1>2. Len(src) < si \/ Len(tgt) < ti
  BY <1>1 DEF Exact, MergeEnded
<1> DEFINE Gone == \E s \in DOMAIN src : s \notin Taken /\ \E t \in DOMAIN tgt : tgt[t] = src[s]
<1>3. CASE Gone
  <2>1. PICK s \in DOMAIN src, t \in DOMAIN tgt : s \notin Taken /\ tgt[t] = src[s]
    BY <1>3
  <2>2. map[t] # s
    BY <2>1 DEF Taken
  <2>3. NamesOnce => ~SameOrder
    BY <2>1, <2>2, <1>1, <1>2, AllMatched DEF Exact
  <2>4. NamesOnce => ~Allowed
    BY <2>3 DEF Allowed
  <2> QED BY <1>1, <1>3, <2>4, RefuseExact DEF Moved
<1>4. CASE ~Gone
  <2>1. /\ UNCHANGED <<src, tgt, keys, policy, si, ti, map, status>>
        /\ phase' = "resolve"
    BY <1>4, <1>1 DEF Moved, files
  <2>2. Seen'
    BY <1>1, <2>1, FilesStay DEF Exact, Seen, SourceSeen, TargetSeen, SharedMatched
  <2>3. PolicyKept' /\ MergeEnded'
    BY <1>1, <2>1 DEF Exact, PolicyKept, Taken, MergeEnded, Lenient
  <2>4. NoneMoved'
    BY <1>4, <2>1 DEF NoneMoved, Taken
  <2>5. PolicyExact' /\ Underway'
    BY <1>1, <2>1 DEF Exact, PolicyExact, Underway
  <2> QED BY <2>2, <2>3, <2>4, <2>5 DEF Exact
<1> QED BY <1>3, <1>4

\* Two headers that hold the same names, each once and in one order, are one.
LEMMA SameHeaders ==
  ASSUME TypeOK, NamesOnce, SameOrder,
         \A t \in DOMAIN tgt : \E p \in Shared : p[2] = t,
         \A s \in DOMAIN src : \E p \in Shared : p[1] = s
  PROVE  tgt = src
<1>1. /\ Len(src) \in Nat /\ DOMAIN src = 1 .. Len(src)
      /\ Len(tgt) \in Nat /\ DOMAIN tgt = 1 .. Len(tgt)
      /\ src \in Seq(Names) /\ tgt \in Seq(Names)
  BY HeaderIsSeq DEF TypeOK
<1>2. \A s \in DOMAIN src : \E t \in DOMAIN tgt : src[s] = tgt[t]
  BY DEF Shared
<1>3. \A t \in DOMAIN tgt : \E s \in DOMAIN src : src[s] = tgt[t]
  BY DEF Shared
<1>4. \A s, u \in DOMAIN src, t, v \in DOMAIN tgt :
        src[s] = tgt[t] /\ src[u] = tgt[v] /\ s < u => t < v
  <2>1. ASSUME NEW s \in DOMAIN src, NEW u \in DOMAIN src,
               NEW t \in DOMAIN tgt, NEW v \in DOMAIN tgt,
               src[s] = tgt[t], src[u] = tgt[v], s < u
        PROVE  t < v
    <3>1. <<s, t>> \in Shared /\ <<u, v>> \in Shared
      BY <2>1 DEF Shared
    <3> QED BY <2>1, <3>1 DEF SameOrder
  <2> QED BY <2>1
<1> DEFINE Differ == {k \in Nat : k \in DOMAIN src /\ k \in DOMAIN tgt /\ src[k] # tgt[k]}
<1>5. Differ = {}
  <2>1. SUFFICES ASSUME Differ # {} PROVE FALSE
    OBVIOUS
  <2>2. PICK k \in Differ : \A y \in Differ : k <= y
    BY <2>1, LeastElement
  <2>3. k \in DOMAIN src /\ k \in DOMAIN tgt /\ src[k] # tgt[k] /\ k \in Nat
    BY <2>2
  <2>4. PICK t \in DOMAIN tgt : src[k] = tgt[t]
    BY <2>3, <1>2
  <2>5. PICK s \in DOMAIN src : src[s] = tgt[k]
    BY <2>3, <1>3
  <2>6. t \in Nat /\ s \in Nat /\ t # k /\ s # k
    BY <2>3, <2>4, <2>5, <1>1
  <2>7. k < t
    <3>1. ASSUME t < k PROVE FALSE
      <4>1. t \in DOMAIN src
        BY <3>1, <2>3, <2>4, <2>6, <1>1
      <4>2. t \notin Differ
        BY <3>1, <2>2, <2>3, <2>6
      <4>3. src[t] = tgt[t]
        BY <4>1, <4>2, <2>4, <2>6
      <4> QED BY <4>1, <4>3, <2>3, <2>4, <2>6 DEF NamesOnce, Injective
    <3> QED BY <3>1, <2>3, <2>6
  <2>8. k < s
    <3>1. ASSUME s < k PROVE FALSE
      <4>1. s \in DOMAIN tgt
        BY <3>1, <2>3, <2>5, <2>6, <1>1
      <4>2. s \notin Differ
        BY <3>1, <2>2, <2>3, <2>6
      <4>3. src[s] = tgt[s]
        BY <4>1, <4>2, <2>5, <2>6
      <4> QED BY <4>1, <4>3, <2>3, <2>5, <2>6 DEF NamesOnce, Injective
    <3> QED BY <3>1, <2>3, <2>6
  <2>9. t < k
    BY <2>3, <2>4, <2>5, <2>8, <1>4
  <2> QED BY <2>7, <2>9, <2>3, <2>6
<1>6. \A k \in DOMAIN src : k \in DOMAIN tgt => src[k] = tgt[k]
  <2>1. \A k \in DOMAIN src : k \in Nat
    <3>1. \A n \in Nat : 1 .. n \subseteq Nat
      OBVIOUS
    <3> QED BY <3>1, <1>1
  <2> QED BY <2>1, <1>5
<1>7. ~(Len(tgt) < Len(src))
  <2>1. SUFFICES ASSUME Len(tgt) < Len(src) PROVE FALSE
    OBVIOUS
  <2>2. Len(src) \in DOMAIN src /\ \A t \in DOMAIN tgt : t \in DOMAIN src /\ t # Len(src)
    BY <2>1, <1>1
  <2>3. PICK t \in DOMAIN tgt : src[Len(src)] = tgt[t]
    BY <2>2, <1>2
  <2>4. src[t] = src[Len(src)]
    BY <2>2, <2>3, <1>6
  <2> QED BY <2>2, <2>4 DEF NamesOnce, Injective
<1>8. ~(Len(src) < Len(tgt))
  <2>1. SUFFICES ASSUME Len(src) < Len(tgt) PROVE FALSE
    OBVIOUS
  <2>2. Len(tgt) \in DOMAIN tgt /\ \A s \in DOMAIN src : s \in DOMAIN tgt /\ s # Len(tgt)
    BY <2>1, <1>1
  <2>3. PICK s \in DOMAIN src : src[s] = tgt[Len(tgt)]
    BY <2>2, <1>3
  <2>4. tgt[s] = tgt[Len(tgt)]
    BY <2>2, <2>3, <1>6
  <2> QED BY <2>2, <2>4 DEF NamesOnce, Injective
<1>9. Len(tgt) = Len(src)
  <2>1. \A a, b \in Nat : ~(a < b) /\ ~(b < a) => a = b
    OBVIOUS
  <2> QED BY <2>1, <1>1, <1>7, <1>8
<1> QED BY <1>1, <1>6, <1>9

LEMMA StrictExact == IInv /\ Exact /\ Strict => Exact'
<1> SUFFICES ASSUME IInv, Exact, Strict PROVE Exact'
  OBVIOUS
<1>1. TypeOK /\ phase = "strict" /\ UNCHANGED files /\ policy = {}
  BY DEF IInv, Strict, Exact, Underway, Lenient
<1>2. CASE tgt # src
  <2>1. ASSUME NamesOnce, Allowed PROVE FALSE
    <3>1. /\ SameOrder
          /\ \A t \in DOMAIN tgt : \E p \in Shared : p[2] = t
          /\ \A s \in DOMAIN src : \E p \in Shared : p[1] = s
      BY <2>1, <1>1 DEF Allowed
    <3> QED BY <1>1, <1>2, <2>1, <3>1, SameHeaders
  <2> QED BY <1>1, <1>2, <2>1, RefuseExact DEF Strict
<1>3. CASE tgt = src
  <2>1. /\ UNCHANGED <<src, tgt, keys, policy, si, ti, map, status>>
        /\ phase' = "resolve"
    BY <1>3, <1>1 DEF Strict, files
  <2>2. Seen'
    BY <1>1, <2>1, FilesStay DEF Exact, Seen, SourceSeen, TargetSeen, SharedMatched
  <2>3. PolicyKept'
    BY <2>1 DEF Exact, PolicyKept, Taken
  <2>4. MergeEnded' /\ NoneMoved' /\ PolicyExact'
    BY <1>1, <2>1 DEF MergeEnded, NoneMoved, PolicyExact, Lenient
  <2>5. Underway'
    BY <1>1, <2>1 DEF Exact, Underway
  <2> QED BY <2>2, <2>3, <2>4, <2>5 DEF Exact
<1> QED BY <1>2, <1>3

LEMMA InheritExact == IInv /\ Exact /\ Inherit => Exact'
<1> SUFFICES ASSUME IInv, Exact, Inherit PROVE Exact'
  OBVIOUS
<1>1. /\ UNCHANGED <<src, tgt, keys, policy, si, ti, map, status>> /\ UNCHANGED files
      /\ phase = "resolve" /\ phase' = "plan"
  BY DEF Inherit, files
<1>2. Seen'
  BY <1>1, FilesStay DEF Exact, Seen, SourceSeen, TargetSeen, SharedMatched
<1>3. PolicyKept' /\ MergeEnded' /\ NoneMoved'
  BY <1>1 DEF Exact, PolicyKept, MergeEnded, NoneMoved, Taken, Lenient
<1>4. Underway' /\ PolicyExact'
  BY <1>1 DEF Exact, Underway, PolicyExact
<1> QED BY <1>2, <1>3, <1>4 DEF Exact

\* A file has a column.
LEMMA HeaderHasColumn ==
  ASSUME NEW h \in Headers
  PROVE  1 \in DOMAIN h
<1>1. PICK n \in 1 .. MaxColumns : h \in [1 .. n -> Names]
  BY DEF Headers
<1> QED BY <1>1, SizeAssumption

\* Under the default policy the plan is of two equal headers.
LEMMA StrictPlanExact ==
  ASSUME TypeOK, NamesOnce, tgt = src
  PROVE  Allowed /\ Shared = {<<c, c>> : c \in DOMAIN src}
<1>1. 1 \in DOMAIN src /\ keys \subseteq DOMAIN src
  BY HeaderHasColumn DEF TypeOK
<1>2. Shared = {<<c, c>> : c \in DOMAIN src}
  <2>1. ASSUME NEW p \in Shared PROVE p \in {<<c, c>> : c \in DOMAIN src}
    <3>1. PICK s \in DOMAIN src, t \in DOMAIN src : p = <<s, t>> /\ src[s] = src[t]
      BY DEF Shared
    <3>2. s = t
      BY <3>1 DEF NamesOnce, Injective
    <3> QED BY <3>1, <3>2
  <2>2. ASSUME NEW c \in DOMAIN src PROVE <<c, c>> \in Shared
    BY DEF Shared
  <2> QED BY <2>1, <2>2
<1>3. \A c \in DOMAIN src : <<c, c>> \in Shared
  BY <1>2
<1>4. SameOrder /\ Shared # {}
  <2>1. \A p \in Shared : p[1] = p[2]
    BY <1>2
  <2> QED BY <1>1, <1>3, <2>1 DEF SameOrder
<1>5. \A c \in DOMAIN src : (\E p \in Shared : p[1] = c) /\ (\E p \in Shared : p[2] = c)
  BY <1>3
<1> QED BY <1>1, <1>2, <1>4, <1>5 DEF Allowed

\* Under a lenient one it is of the shared columns, once nothing was refused.
LEMMA LenientPlanExact ==
  ASSUME TypeOK, MapSound, Exact, NamesOnce, Lenient, phase = "plan"
  PROVE  /\ KeyLost => ~Allowed
         /\ SameOrder /\ ~KeyLost => Allowed
<1>1. /\ Common = Shared
      /\ \A s \in DOMAIN src : s \in Taken <=> \E p \in Shared : p[1] = s
  BY TakenShared DEF Exact
<1>2. keys \subseteq DOMAIN src
  BY DEF TypeOK
<1>3. KeyLost => ~Allowed
  BY <1>1, <1>2 DEF KeyLost, Allowed
<1>4. ASSUME SameOrder, ~KeyLost PROVE Allowed
  <2>1. \A t \in DOMAIN tgt : map[t] # None => <<map[t], t>> \in Shared
    BY <1>1 DEF Common
  <2>2. Shared # {}
    <3>1. PICK t \in DOMAIN tgt : map[t] # None
      BY DEF Exact, MergeEnded
    <3> QED BY <3>1, <2>1
  <2>3. ASSUME "added" \notin policy, NEW t \in DOMAIN tgt PROVE \E p \in Shared : p[2] = t
    <3>1. Len(tgt) < ti
      BY <2>3 DEF Exact, MergeEnded
    <3>2. t < ti
      <4>1. ti \in Nat /\ Len(tgt) \in Nat /\ DOMAIN tgt = 1 .. Len(tgt)
        BY Places
      <4>2. t \in Nat /\ t <= Len(tgt)
        BY <4>1
      <4> QED BY <3>1, <4>1, <4>2
    <3>3. <<map[t], t>> \in Shared
      BY <2>1, <2>3, <3>2 DEF Exact, PolicyKept
    <3> QED BY <3>3
  <2>4. ASSUME "removed" \notin policy, NEW s \in DOMAIN src PROVE \E p \in Shared : p[1] = s
    <3>1. Len(src) < si
      BY <2>4 DEF Exact, MergeEnded
    <3>2. s < si
      <4>1. si \in Nat /\ Len(src) \in Nat /\ DOMAIN src = 1 .. Len(src)
        BY Places
      <4>2. s \in Nat /\ s <= Len(src)
        BY <4>1
      <4> QED BY <3>1, <4>1, <4>2
    <3>3. s \in Taken
      BY <2>4, <3>2 DEF Exact, PolicyKept
    <3> QED BY <3>3, <1>1
  <2>5. \A s \in keys : \E p \in Shared : p[1] = s
    BY <1>1, <1>2, <1>4 DEF KeyLost
  <2> QED BY <1>4, <2>2, <2>3, <2>4, <2>5 DEF Allowed
<1> QED BY <1>3, <1>4

LEMMA PlanExact == IInv /\ Exact /\ Plan => Exact'
<1> SUFFICES ASSUME IInv, Exact, Plan PROVE Exact'
  OBVIOUS
<1>1. /\ UNCHANGED <<src, tgt, keys, policy, si, ti, map>> /\ UNCHANGED files
      /\ phase = "plan" /\ phase' = "done"
  BY DEF Plan, files
<1>2. TypeOK /\ MapSound /\ status = "ok" /\ (~Lenient => tgt = src)
  BY <1>1 DEF IInv, Exact, Underway, StrictSame
<1>3. Seen'
  BY <1>1, FilesStay DEF Exact, Seen, SourceSeen, TargetSeen, SharedMatched
<1>4. PolicyKept'
  BY <1>1 DEF Exact, PolicyKept, Taken
<1>5. MergeEnded' /\ NoneMoved' /\ Underway'
  BY <1>1 DEF MergeEnded, NoneMoved, Underway
<1>6. PolicyExact'
  <2> SUFFICES ASSUME NamesOnce
               PROVE  (status' = "ok" <=> Allowed) /\ (status' = "ok" => compared' = Shared)
    <3>1. (Injective(src) /\ Injective(tgt))' <=> NamesOnce
      BY <1>1, FilesStay DEF NamesOnce
    <3> QED BY <3>1, <1>1, FilesStay DEF PolicyExact
  <2>1. CASE ~Lenient
    <3>1. compared' = {<<c, c>> : c \in DOMAIN src} /\ status' = "ok"
      BY <1>2, <2>1 DEF Plan
    <3> QED BY <1>2, <2>1, <3>1, StrictPlanExact
  <2>2. CASE Lenient /\ KeyLost
    <3>1. status' = "missing key"
      BY <2>2 DEF Plan
    <3> QED BY <1>1, <1>2, <2>2, <3>1, LenientPlanExact
  <2>3. CASE Lenient /\ ~KeyLost
    <3>1. compared' = Common /\ status' = "ok"
      BY <1>2, <2>3 DEF Plan
    <3>2. Common = Shared
      BY <1>1, <1>2, <2>3, TakenShared DEF Exact
    <3>3. \A p, q \in Shared : p[1] < q[1] <=> p[2] < q[2]
      BY <3>1, <3>2, PlanKeeps DEF IInv, PlanPairsNames
    <3>4. SameOrder
      BY <3>3 DEF SameOrder
    <3> QED BY <1>1, <1>2, <2>3, <3>1, <3>2, <3>4, LenientPlanExact
  <2> QED BY <2>1, <2>2, <2>3
<1> QED BY <1>3, <1>4, <1>5, <1>6 DEF Exact

\* The merge starts with nothing behind it.
LEMMA InitExact == Init => Exact
<1> SUFFICES ASSUME Init PROVE Exact
  OBVIOUS
<1>1. TypeOK
  BY InitIInv DEF IInv
<1>2. /\ DOMAIN src = 1 .. Len(src) /\ Len(src) \in Nat
      /\ DOMAIN tgt = 1 .. Len(tgt) /\ Len(tgt) \in Nat
  BY <1>1, Places
<1>3. /\ \A s \in DOMAIN src : ~(s < si)
      /\ \A t \in DOMAIN tgt : ~(t < ti)
  <2>1. si = 1 /\ ti = 1
    BY DEF Init
  <2>2. \A n \in Nat : \A k \in 1 .. n : ~(k < 1)
    OBVIOUS
  <2> QED BY <1>2, <2>1, <2>2
<1>4. Seen /\ PolicyKept
  BY <1>3 DEF Seen, SourceSeen, TargetSeen, SharedMatched, PolicyKept
<1>5. MergeEnded /\ NoneMoved /\ Underway /\ PolicyExact
  BY DEF Init, MergeEnded, NoneMoved, Underway, PolicyExact
<1> QED BY <1>4, <1>5 DEF Exact

\* Every step keeps the merge exact.
LEMMA StepExact == IInv /\ Exact /\ [Next]_vars => Exact'
<1> SUFFICES ASSUME IInv, Exact, [Next]_vars PROVE Exact'
  OBVIOUS
<1>1. CASE UNCHANGED vars
  <2>1. /\ UNCHANGED <<src, tgt, keys, policy, phase, si, ti, map, compared, status>>
        /\ UNCHANGED files
    BY <1>1 DEF vars, files
  <2>2. Seen'
    BY <2>1, FilesStay DEF Exact, Seen, SourceSeen, TargetSeen, SharedMatched
  <2>3. PolicyKept' /\ MergeEnded' /\ NoneMoved' /\ Underway'
    BY <2>1 DEF Exact, PolicyKept, Taken, MergeEnded, NoneMoved, Underway, Lenient
  <2>4. PolicyExact'
    <3>1. (Injective(src) /\ Injective(tgt))' <=> Injective(src) /\ Injective(tgt)
      BY <2>1 DEF Injective
    <3> QED BY <2>1, <3>1, FilesStay DEF Exact, PolicyExact
  <2> QED BY <2>2, <2>3, <2>4 DEF Exact
<1> QED
  BY <1>1, MatchedExact, InsertedExact, RemovedExact, ReplacedExact, EndMergeExact,
     MovedExact, StrictExact, InheritExact, PlanExact DEF Next

-----------------------------------------------------------------------------
\* For headers of any length that repeat no name, any key set and any policy: the
\* forward-only merge, the check for moved columns and the check of the KEY
\* columns accept exactly what the policy allows, and then the diff compares every
\* column the two files share.
THEOREM PolicyCorrect == Spec => []PolicyExact
<1>1. IInv /\ Exact /\ [Next]_vars => IInv' /\ Exact'
  BY StepKeeps, StepExact
<1>2. Init => IInv /\ Exact
  BY InitIInv, InitExact
<1>3. Exact => PolicyExact
  BY DEF Exact
<1> QED BY <1>1, <1>2, <1>3, PTL DEF Spec

-----------------------------------------------------------------------------
(***************************************************************************)
(* Sides: the two tables a diff goes on to match mean what it takes them   *)
(* to mean, whatever options the three calls were given.  Equal stamps     *)
(* make settings and schemas equal; what is left is that the columns are   *)
(* then the same ones, place by place: of a projection because it is made  *)
(* of the map's pairs, of two whole tables because an increasing map that  *)
(* leaves nothing out is the identity.                                     *)
(***************************************************************************)
InheritedByCount == phase = "plan" =>
  inherited = [t \in DOMAIN tgt |->
    IF Lenient /\ Len(tgt) # Len(src) THEN map[t]
    ELSE IF t \in DOMAIN src THEN t ELSE None]

\* The state in which a diff is planned.
Ready == TypeOK /\ MapSound /\ StrictSame /\ InheritedByCount /\ phase = "plan"

\* Both tables hold digests of the diff's own settings, column by column over cells
\* of one name, with the flags and the types of the source.
SameMeaning(s, t, o) ==
  /\ s.compare = o.diff.compare /\ t.compare = o.diff.compare
  /\ DOMAIN s.columns = DOMAIN t.columns
  /\ \A i \in DOMAIN s.columns :
       /\ src[s.columns[i]] = tgt[t.columns[i]]
       /\ s.schema[i] = SourceSchema[s.columns[i]] /\ t.schema[i] = s.schema[i]

\* The pairs of columns two tables compare.
PairsOf(s, t) == {<<s.columns[i], t.columns[i]>> : i \in DOMAIN s.columns}

SoundPairs(pairs) ==
  /\ \A p \in pairs : src[p[1]] = tgt[p[2]]
  /\ \A p, q \in pairs : p[1] < q[1] <=> p[2] < q[2]

OneSettingOf(o) ==
  /\ o.source.compare = o.diff.compare /\ o.target.compare = o.diff.compare
  /\ o.source.policy = o.diff.policy /\ policy = o.diff.policy

-----------------------------------------------------------------------------
\* All the columns of a header.
LEMMA AllColumns ==
  ASSUME NEW h \in Headers
  PROVE  /\ Len(All(h)) = Len(h) /\ DOMAIN All(h) = DOMAIN h
         /\ \A c \in DOMAIN h : All(h)[c] = c
<1>1. h \in Seq(Names) /\ Len(h) \in Nat /\ DOMAIN h = 1 .. Len(h)
  BY HeaderIsSeq
<1>2. All(h) = [c \in 1 .. Len(h) |-> c]
  BY <1>1 DEF All
<1>3. All(h) \in Seq(Nat) /\ Len(All(h)) = Len(h)
  BY <1>1, <1>2
<1> QED BY <1>1, <1>2, <1>3

\* An increasing map from as many places onto as many is the identity.
LEMMA OntoIsIdentity ==
  ASSUME TypeOK, MapSound, Len(tgt) = Len(src),
         \A t \in DOMAIN tgt : map[t] # None,
         \A s \in DOMAIN src : \E t \in DOMAIN tgt : map[t] = s
  PROVE  \A t \in DOMAIN tgt : map[t] = t
<1>1. /\ Len(src) \in Nat /\ DOMAIN src = 1 .. Len(src) /\ DOMAIN tgt = 1 .. Len(src)
      /\ \A t \in DOMAIN tgt : map[t] \in 1 .. Len(src)
  <2>1. map \in [DOMAIN tgt -> {None} \cup DOMAIN src]
    BY DEF TypeOK
  <2> QED BY <2>1, Places
<1>2. \A t, u \in DOMAIN tgt : t < u => map[t] < map[u]
  BY DEF MapSound
<1> DEFINE Off == {t \in Nat : t \in DOMAIN tgt /\ map[t] # t}
<1>3. SUFFICES ASSUME Off # {} PROVE FALSE
  BY <1>1
<1>4. PICK k \in Off : \A t \in Off : k <= t
  BY <1>3, LeastElement
<1>5. k \in Nat /\ k \in DOMAIN tgt /\ k \in DOMAIN src /\ map[k] # k /\ map[k] \in Nat
  BY <1>1, <1>4
<1>6. \A t \in DOMAIN tgt : t < k => map[t] = t
  <2>1. ASSUME NEW t \in DOMAIN tgt, t < k, map[t] # t PROVE FALSE
    <3>1. t \in Nat
      BY <1>1
    <3>2. t \in Off
      BY <2>1, <3>1
    <3> QED BY <1>4, <1>5, <2>1, <3>1, <3>2
  <2> QED BY <2>1
<1>7. ~(map[k] < k)
  <2>1. SUFFICES ASSUME map[k] < k PROVE FALSE
    OBVIOUS
  <2>2. map[k] \in DOMAIN tgt
    BY <1>1, <1>5
  <2>3. map[map[k]] = map[k] /\ map[map[k]] < map[k]
    BY <1>2, <1>5, <1>6, <2>1, <2>2
  <2> QED BY <1>5, <2>3
<1>8. PICK u \in DOMAIN tgt : map[u] = k
  BY <1>5
<1>9. u \in Nat
  BY <1>1
<1>10. ~(u < k)
  BY <1>5, <1>6, <1>8, <1>9
<1>11. k < u
  BY <1>5, <1>8, <1>9, <1>10
<1>12. map[k] < k
  BY <1>2, <1>5, <1>8, <1>11
<1> QED BY <1>7, <1>12

\* The column loop keeps matched columns of the target.
LEMMA KeptMatched ==
  ASSUME TypeOK
  PROVE  TargetColumns \in Seq({t \in DOMAIN tgt : DiffMap[t] # None})
<1> DEFINE L == Len(tgt)
           M == {t \in DOMAIN tgt : DiffMap[t] # None}
           next(t, v) == IF DiffMap[t] = None THEN v ELSE Append(v, t)
<1>1. L \in Nat /\ DOMAIN tgt = 1 .. L
  BY Places
<1> DEFINE step == [t \in 1 .. L |-> [v \in Seq(M) |-> next(t, v)]]
<1>2. \A t \in 1 .. L, v \in Seq(M) : next(t, v) \in Seq(M)
  BY <1>1
<1>3. step \in [1 .. L -> [Seq(M) -> Seq(M)]]
  BY <1>2
<1>4. \A t \in 1 .. L, v \in Seq(M) : step[t][v] = next(t, v)
  OBVIOUS
<1>5. <<>> \in Seq(M)
  OBVIOUS
<1> HIDE DEF next, step, M
<1>6. PICK f : Recursive(f, L, Seq(M), <<>>, step)
  BY <1>1, <1>3, <1>5, Recursion
<1>f. /\ f \in [0 .. L -> Seq(M)] /\ f[0] = <<>>
       /\ \A t \in 1 .. L : f[t] = step[t][f[t - 1]]
  BY <1>6 DEF Recursive
<1>7. \A t \in 1 .. L : f[t] = next(t, f[t - 1])
  BY <1>1, <1>4, <1>f
<1>8. f = [t \in 0 .. L |-> IF t = 0 THEN <<>> ELSE next(t, f[t - 1])]
  <2>1. \A t \in 0 .. L : f[t] = IF t = 0 THEN <<>> ELSE next(t, f[t - 1])
    BY <1>1, <1>f, <1>7
  <2> QED BY <1>f, <2>1
<1>9. Kept = [t \in 0 .. L |-> IF t = 0 THEN <<>> ELSE next(t, Kept[t - 1])]
  <2>1. \E g : g = [t \in 0 .. L |-> IF t = 0 THEN <<>> ELSE next(t, g[t - 1])]
    BY <1>8
  <2> QED BY <2>1, Zenon DEF Kept, next
<1>10. Kept = f
  <2>1. \A t \in 0 .. L : Kept[t] = IF t = 0 THEN <<>> ELSE next(t, Kept[t - 1])
    BY <1>9
  <2>2. \A t \in 0 .. L : f[t] = IF t = 0 THEN <<>> ELSE next(t, f[t - 1])
    BY <1>1, <1>f, <1>7
  <2>3. Kept[0] = f[0]
    BY <2>1, <2>2, <1>1
  <2>4. ASSUME NEW t \in 0 .. L - 1, Kept[t] = f[t] PROVE Kept[t + 1] = f[t + 1]
    <3>1. t + 1 \in 0 .. L /\ t + 1 # 0 /\ (t + 1) - 1 = t
      BY <1>1
    <3> QED BY <2>1, <2>2, <2>4, <3>1
  <2>5. Kept = [t \in 0 .. L |-> Kept[t]]
    BY <1>9
  <2>6. f = [t \in 0 .. L |-> f[t]]
    BY <1>f
  <2> QED BY <1>1, <2>3, <2>4, <2>5, <2>6, SameRecursion
<1> QED BY <1>1, <1>f, <1>10 DEF TargetColumns, M

\* Two whole tables that check_sides lets pass.
LEMMA ParsedMean ==
  ASSUME Ready, NEW o, o.diff.policy = {} \/ Unmatched \cup Dropped = {},
         SidesError(ParsedSource(o), ParsedTarget(o), o) = "ok"
  PROVE  /\ SameMeaning(ParsedSource(o).fold, ParsedTarget(o).fold, o)
         /\ SoundPairs(PairsOf(ParsedSource(o).fold, ParsedTarget(o).fold))
<1>1. TypeOK /\ src \in Headers /\ tgt \in Headers
  BY DEF Ready, TypeOK
<1>2. /\ Len(src) \in Nat /\ DOMAIN src = 1 .. Len(src)
      /\ Len(tgt) \in Nat /\ DOMAIN tgt = 1 .. Len(tgt)
  BY <1>1, Places
<1> DEFINE s == ParsedSource(o)
           t == ParsedTarget(o)
<1>3. /\ s.fold.columns = All(src) /\ s.fold.schema = SourceSchema
      /\ s.fold.compare = o.source.compare
      /\ s.stamp = <<o.source.compare, o.source.policy, SourceSchema>>
  BY DEF ParsedSource, Digested, Stamp
<1>4. /\ t.fold.columns = All(tgt) /\ t.fold.schema = TargetSchema
      /\ t.fold.compare = o.target.compare
      /\ t.stamp = <<o.target.compare, policy, TargetSchema>>
  BY DEF ParsedTarget, Digested, Stamp
<1> DEFINE want == Stamp(o.diff.compare, o.diff.policy, s.fold.schema)
<1>5. Len(s.fold.columns) = Len(t.fold.columns) /\ s.stamp = want /\ t.stamp = want
  BY DEF SidesError
<1>6. want = <<o.diff.compare, o.diff.policy, SourceSchema>>
  BY <1>3 DEF Stamp
<1> HIDE DEF s, t, want
<1>7. /\ o.source.compare = o.diff.compare /\ o.target.compare = o.diff.compare
      /\ policy = o.diff.policy /\ TargetSchema = SourceSchema
  BY <1>3, <1>4, <1>5, <1>6
<1>8. Len(src) = Len(tgt)
  BY <1>1, <1>3, <1>4, <1>5, AllColumns
<1>9. \A c \in DOMAIN src : src[c] = tgt[c]
  <2>1. CASE ~Lenient
    <3>1. tgt = src
      BY <2>1 DEF Ready, StrictSame
    <3> QED BY <3>1
  <2>2. CASE Lenient
    <3>1. Unmatched \cup Dropped = {} /\ DiffMap = map
      BY <1>7, <2>2 DEF Lenient, DiffMap
    <3>2. \A c \in DOMAIN tgt : map[c] # None
      BY <3>1 DEF Unmatched
    <3>3. \A c \in DOMAIN src : \E u \in DOMAIN tgt : map[u] = c
      BY <3>1 DEF Dropped
    <3>4. \A c \in DOMAIN tgt : map[c] = c
      BY <1>1, <1>8, <3>2, <3>3, OntoIsIdentity DEF Ready
    <3>5. \A c \in DOMAIN tgt : src[map[c]] = tgt[c]
      BY <3>2 DEF Ready, MapSound
    <3> QED BY <3>4, <3>5, <1>2, <1>8
  <2> QED BY <2>1, <2>2
<1>10. /\ DOMAIN All(src) = DOMAIN src /\ DOMAIN All(tgt) = DOMAIN src
       /\ \A c \in DOMAIN src : All(src)[c] = c /\ All(tgt)[c] = c
  BY <1>1, <1>2, <1>8, AllColumns
<1>11. SameMeaning(s.fold, t.fold, o)
  BY <1>3, <1>4, <1>7, <1>9, <1>10 DEF SameMeaning
<1>12. PairsOf(s.fold, t.fold) = {<<c, c>> : c \in DOMAIN src}
  BY <1>3, <1>4, <1>10 DEF PairsOf
<1>13. SoundPairs(PairsOf(s.fold, t.fold))
  BY <1>9, <1>12 DEF SoundPairs
<1> QED BY <1>11, <1>13 DEF s, t

\* The two tables a projection makes.
LEMMA ProjectedMean ==
  ASSUME Ready, NEW o, ~(o.diff.policy = {} \/ Unmatched \cup Dropped = {})
  PROVE  /\ SameMeaning(Projected(o)[1].fold, Projected(o)[2].fold, o)
         /\ SoundPairs(PairsOf(Projected(o)[1].fold, Projected(o)[2].fold))
         /\ SidesError(Projected(o)[1], Projected(o)[2], o) # "settings"
<1>1. TypeOK /\ src \in Headers /\ tgt \in Headers
  BY DEF Ready, TypeOK
<1>2. /\ Len(src) \in Nat /\ DOMAIN src = 1 .. Len(src)
      /\ Len(tgt) \in Nat /\ DOMAIN tgt = 1 .. Len(tgt)
  BY <1>1, Places
<1> DEFINE s == Projected(o)[1]
           t == Projected(o)[2]
<1>3. /\ s.fold.columns = SourceColumns /\ s.fold.schema = ComparedSchema
      /\ t.fold.columns = TargetColumns /\ t.fold.schema = ComparedSchema
      /\ s.fold.compare = o.diff.compare /\ t.fold.compare = o.diff.compare
      /\ s.stamp = Stamp(o.diff.compare, o.diff.policy, ComparedSchema)
      /\ t.stamp = Stamp(o.diff.compare, o.diff.policy, ComparedSchema)
  BY DEF Projected, Digested
<1>4. SidesError(s, t, o) # "settings"
  BY <1>3 DEF SidesError
<1> HIDE DEF s, t
<1>5. Lenient
  <2>1. SUFFICES ASSUME ~Lenient PROVE FALSE
    OBVIOUS
  <2>2. tgt = src /\ DiffMap = All(tgt)
    BY <2>1 DEF Ready, StrictSame, DiffMap
  <2>3. \A c \in DOMAIN tgt : DiffMap[c] = c /\ c # None
    BY <1>1, <1>2, <2>2, AllColumns DEF None
  <2>4. Unmatched = {} /\ Dropped = {}
    BY <2>2, <2>3 DEF Unmatched, Dropped
  <2> QED BY <2>4
<1>6. DiffMap = map
  BY <1>5 DEF DiffMap
<1>7. /\ DOMAIN SourceColumns = DOMAIN TargetColumns
      /\ \A i \in DOMAIN TargetColumns :
           /\ TargetColumns[i] \in DOMAIN tgt /\ map[TargetColumns[i]] # None
           /\ SourceColumns[i] = map[TargetColumns[i]]
  <2>1. \A i \in DOMAIN TargetColumns : TargetColumns[i] \in {u \in DOMAIN tgt : map[u] # None}
    BY <1>1, <1>6, KeptMatched
  <2> QED BY <1>6, <2>1 DEF SourceColumns
<1>8. \A i \in DOMAIN TargetColumns : src[SourceColumns[i]] = tgt[TargetColumns[i]]
  BY <1>7 DEF Ready, MapSound
<1>9. \A i \in DOMAIN SourceColumns : ComparedSchema[i] = SourceSchema[SourceColumns[i]]
  BY DEF ComparedSchema
<1>10. SameMeaning(s.fold, t.fold, o)
  BY <1>3, <1>7, <1>8, <1>9 DEF SameMeaning
<1>11. SoundPairs(PairsOf(s.fold, t.fold))
  <2>1. PairsOf(s.fold, t.fold) = {<<SourceColumns[i], TargetColumns[i]>> : i \in DOMAIN TargetColumns}
    BY <1>3, <1>7 DEF PairsOf
  <2>2. \A p \in PairsOf(s.fold, t.fold) :
          p[2] \in DOMAIN tgt /\ map[p[2]] # None /\ p[1] = map[p[2]]
    BY <2>1, <1>7
  <2>3. \A p \in PairsOf(s.fold, t.fold) : src[p[1]] = tgt[p[2]]
    BY <2>2 DEF Ready, MapSound
  <2>4. ASSUME NEW p \in PairsOf(s.fold, t.fold), NEW q \in PairsOf(s.fold, t.fold)
        PROVE  p[1] < q[1] <=> p[2] < q[2]
    <3>1. map \in [DOMAIN tgt -> {None} \cup DOMAIN src]
      BY <1>1 DEF TypeOK
    <3>2. p[1] \in Nat /\ q[1] \in Nat /\ p[2] \in Nat /\ q[2] \in Nat
      BY <2>2, <3>1, <1>2 DEF None
    <3>3. p[2] < q[2] => p[1] < q[1]
      BY <2>2 DEF Ready, MapSound
    <3>4. q[2] < p[2] => q[1] < p[1]
      BY <2>2 DEF Ready, MapSound
    <3>5. p[2] = q[2] => p[1] = q[1]
      BY <2>2
    <3> QED BY <3>2, <3>3, <3>4, <3>5
  <2> QED BY <2>3, <2>4 DEF SoundPairs
<1> QED BY <1>4, <1>10, <1>11 DEF s, t

\* Three calls under one set of settings: the stamps of two whole tables agree as
\* soon as they have as many columns.
LEMMA OneSettingPasses ==
  ASSUME Ready, NEW o, OneSettingOf(o)
  PROVE  SidesError(ParsedSource(o), ParsedTarget(o), o) # "settings"
<1>1. TypeOK /\ src \in Headers /\ tgt \in Headers
  BY DEF Ready, TypeOK
<1>2. /\ Len(src) \in Nat /\ DOMAIN src = 1 .. Len(src)
      /\ Len(tgt) \in Nat /\ DOMAIN tgt = 1 .. Len(tgt)
  BY <1>1, Places
<1> DEFINE s == ParsedSource(o)
           t == ParsedTarget(o)
<1>3. /\ s.fold.columns = All(src) /\ s.fold.schema = SourceSchema
      /\ s.stamp = Stamp(o.diff.compare, o.diff.policy, SourceSchema)
  BY DEF ParsedSource, Digested, OneSettingOf
<1>4. /\ t.fold.columns = All(tgt)
      /\ t.stamp = Stamp(o.diff.compare, o.diff.policy, TargetSchema)
  BY DEF ParsedTarget, Digested, OneSettingOf
<1>5. Len(src) = Len(tgt) => TargetSchema = SourceSchema
  <2>1. SUFFICES ASSUME Len(src) = Len(tgt) PROVE TargetSchema = SourceSchema
    OBVIOUS
  <2>2. DOMAIN tgt = DOMAIN src
    BY <1>2, <2>1
  <2>3. \A c \in DOMAIN tgt : inherited[c] = c /\ c # None
    BY <1>2, <2>1, <2>2 DEF Ready, InheritedByCount, None
  <2>4. \A c \in DOMAIN tgt : TargetSchema[c] = SourceSchema[c]
    BY <2>3 DEF TargetSchema
  <2>5. /\ TargetSchema = [c \in DOMAIN tgt |-> TargetSchema[c]]
        /\ SourceSchema = [c \in DOMAIN src |-> SourceSchema[c]]
    BY DEF TargetSchema, SourceSchema
  <2> QED BY <2>2, <2>4, <2>5
<1>6. Len(All(src)) = Len(src) /\ Len(All(tgt)) = Len(tgt)
  BY <1>1, AllColumns
<1> HIDE DEF s, t
<1>7. SidesError(s, t, o) # "settings"
  BY <1>3, <1>4, <1>5, <1>6 DEF SidesError
<1> QED BY <1>7 DEF s, t

-----------------------------------------------------------------------------
\* Until the diff has run, the merge's invariant; after it, what it was to promise.
SidesInv ==
  /\ phase # "compared" => IInv /\ Exact /\ InheritedByCount
  /\ PlanPairsNames /\ PolicyExact /\ DigestsMeanTheDiff

LEMMA InitSides == SidesInit => SidesInv
<1> SUFFICES ASSUME SidesInit PROVE SidesInv
  OBVIOUS
<1>1. Init
  BY DEF SidesInit
<1>2. phase \in {"merge", "strict"}
  BY <1>1 DEF Init
<1>3. IInv /\ Exact
  BY <1>1, InitIInv, InitExact
<1>4. InheritedByCount /\ DigestsMeanTheDiff
  BY <1>2 DEF InheritedByCount, DigestsMeanTheDiff
<1> QED BY <1>3, <1>4 DEF SidesInv, IInv, Exact

\* Parsing goes on as before, and what the target inherits is made in one step.
LEMMA ParsedKeeps == SidesInv /\ phase # "compared" /\ Parsed => SidesInv'
<1> SUFFICES ASSUME SidesInv, phase # "compared", Parsed PROVE SidesInv'
  OBVIOUS
<1>1. IInv' /\ Exact'
  BY StepKeeps, StepExact DEF Parsed, SidesInv
<1>2. phase' # "compared"
  BY <1>1 DEF IInv, TypeOK
<1>3. DigestsMeanTheDiff'
  BY <1>2 DEF DigestsMeanTheDiff
<1>4. InheritedByCount'
  <2>1. CASE Inherit
    <3>1. /\ UNCHANGED <<src, tgt, keys, policy, map>>
          /\ inherited' = [t \in DOMAIN tgt |->
               IF Lenient /\ Len(tgt) # Len(src) THEN map[t]
               ELSE IF t \in DOMAIN src THEN t ELSE None]
      BY <2>1 DEF Inherit, files
    <3> QED BY <3>1 DEF InheritedByCount, Lenient
  <2>2. CASE ~Inherit
    <3>1. phase' # "plan"
      BY <2>2 DEF Parsed, Next, Matched, Inserted, Removed, Replaced, EndMerge, Moved, Strict,
                  Plan, Advance, Refuse, Merging
    <3> QED BY <3>1 DEF InheritedByCount
  <2> QED BY <2>1, <2>2
<1> QED BY <1>1, <1>3, <1>4 DEF SidesInv, IInv, Exact

\* The diff compares tables that mean what it takes them to mean, or refuses.
LEMMA DiffRunKeeps == SidesInv /\ DiffRun => SidesInv'
<1> SUFFICES ASSUME SidesInv, DiffRun PROVE SidesInv'
  OBVIOUS
<1>1. phase = "plan" /\ phase' = "compared" /\ UNCHANGED <<src, tgt, keys, policy>>
  BY DEF DiffRun, files
<1>2. Ready /\ PlanPairsNames
  BY <1>1 DEF SidesInv, IInv, Ready
<1>3. PICK o \in Options :
        LET two == Planned(o)
            error == IF PlanError(o.diff.policy) # "ok" THEN PlanError(o.diff.policy)
                     ELSE SidesError(two[1], two[2], o)
        IN /\ opts' = o /\ status' = error
           /\ IF error = "ok"
              THEN /\ sides' = two
                   /\ compared' = {<<two[1].fold.columns[i], two[2].fold.columns[i]>> :
                                     i \in DOMAIN two[1].fold.columns}
              ELSE UNCHANGED <<sides, compared>>
  BY DEF DiffRun
<1> DEFINE two == Planned(o)
           Whole == o.diff.policy = {} \/ Unmatched \cup Dropped = {}
<1>4. /\ status' = "ok" => /\ SidesError(two[1], two[2], o) = "ok" /\ sides' = two
                           /\ compared' = PairsOf(two[1].fold, two[2].fold)
      /\ status' # "ok" => compared' = compared
      /\ status' = "settings" => SidesError(two[1], two[2], o) = "settings"
      /\ opts' = o
  BY <1>3 DEF PairsOf, PlanError
<1>5. /\ Whole => two = <<ParsedSource(o), ParsedTarget(o)>>
      /\ ~Whole => two = Projected(o)
  BY DEF Planned
<1>6. SidesError(two[1], two[2], o) = "ok" =>
        SameMeaning(two[1].fold, two[2].fold, o) /\ SoundPairs(PairsOf(two[1].fold, two[2].fold))
  <2>1. CASE Whole
    <3>1. two[1] = ParsedSource(o) /\ two[2] = ParsedTarget(o)
      BY <1>5, <2>1
    <3> HIDE DEF two
    <3> QED BY <1>2, <2>1, <3>1, ParsedMean
  <2>2. CASE ~Whole
    <3>1. two = Projected(o)
      BY <1>5, <2>2
    <3> HIDE DEF two
    <3> QED BY <1>2, <2>2, <3>1, ProjectedMean
  <2> QED BY <2>1, <2>2
<1>7. OneSettingOf(o) => SidesError(two[1], two[2], o) # "settings"
  <2>1. CASE Whole
    <3>1. two[1] = ParsedSource(o) /\ two[2] = ParsedTarget(o)
      BY <1>5, <2>1
    <3> HIDE DEF two
    <3> QED BY <1>2, <3>1, OneSettingPasses
  <2>2. CASE ~Whole
    <3>1. two = Projected(o)
      BY <1>5, <2>2
    <3> HIDE DEF two
    <3> QED BY <1>2, <2>2, <3>1, ProjectedMean
  <2> QED BY <2>1, <2>2
<1> HIDE DEF two, Whole
<1>8. SourceSchema' = SourceSchema
  BY <1>1 DEF SourceSchema
<1>9. status' = "ok" => SameMeaning(sides'[1].fold, sides'[2].fold, opts')
  BY <1>4, <1>6
<1>10. OneSetting' => status' # "settings"
  <2>1. OneSetting' => OneSettingOf(o)
    BY <1>1, <1>4 DEF OneSetting, OneSettingOf
  <2> QED BY <1>4, <1>7, <2>1
<1>11. DigestsMeanTheDiff'
  BY <1>1, <1>8, <1>9, <1>10 DEF DigestsMeanTheDiff, SameMeaning
<1>12. PlanPairsNames'
  <2>1. CASE status' = "ok"
    BY <1>1, <1>4, <1>6, <2>1 DEF PlanPairsNames, SoundPairs
  <2>2. CASE status' # "ok"
    BY <1>1, <1>2, <1>4, <2>2 DEF PlanPairsNames
  <2> QED BY <2>1, <2>2
<1>13. PolicyExact'
  BY <1>1 DEF PolicyExact
<1> QED BY <1>1, <1>11, <1>12, <1>13 DEF SidesInv

LEMMA SidesStep == SidesInv /\ [SidesNext]_<<vars, sideVars>> => SidesInv'
<1> SUFFICES ASSUME SidesInv, [SidesNext]_<<vars, sideVars>> PROVE SidesInv'
  OBVIOUS
<1>1. CASE phase = "compared" /\ Parsed
  BY <1>1 DEF Parsed, Next, Matched, Inserted, Removed, Replaced, EndMerge, Moved, Strict,
              Inherit, Plan, Merging
<1>2. CASE phase # "compared" /\ Parsed
  BY <1>2, ParsedKeeps
<1>3. CASE DiffRun
  BY <1>3, DiffRunKeeps
<1>4. CASE UNCHANGED <<vars, sideVars>>
  <2>1. /\ UNCHANGED <<src, tgt, keys, policy, phase, si, ti, map, inherited, compared, status>>
        /\ UNCHANGED <<opts, sides>> /\ UNCHANGED vars
    BY <1>4 DEF vars, files, sideVars
  <2>2. phase' # "compared" => IInv' /\ Exact'
    BY <2>1, StepKeeps, StepExact DEF SidesInv
  <2>3. phase' # "compared" => InheritedByCount'
    BY <2>1 DEF SidesInv, InheritedByCount, Lenient
  <2>4. PlanPairsNames' /\ DigestsMeanTheDiff'
    BY <2>1 DEF SidesInv, PlanPairsNames, DigestsMeanTheDiff, OneSetting, SourceSchema
  <2>5. PolicyExact'
    <3>1. (Injective(src) /\ Injective(tgt))' <=> Injective(src) /\ Injective(tgt)
      BY <2>1 DEF Injective
    <3>2. Allowed' = Allowed /\ Shared' = Shared
      BY <2>1 DEF Allowed, Shared, SameOrder
    <3> QED BY <2>1, <3>1, <3>2 DEF SidesInv, PolicyExact
  <2> QED BY <2>2, <2>3, <2>4, <2>5 DEF SidesInv
<1> QED BY <1>1, <1>2, <1>3, <1>4 DEF SidesNext

\* For headers of any length, any declared types and any options of the three
\* calls: when the diff goes on to match rows, both sides' digests were folded
\* through the diff's own comparators, over columns of one name and with the
\* source's flags and types; and calls under one set of settings are not refused
\* for their settings.
THEOREM DigestsCorrect == SidesSpec => []DigestsMeanTheDiff
<1>1. SidesInv => DigestsMeanTheDiff
  BY DEF SidesInv
<1> QED BY InitSides, SidesStep, <1>1, PTL DEF SidesSpec

\* What the merge promises holds also where the diff is run under options of its
\* own: the policy is enforced exactly, and no two columns of different names are
\* compared, nor one twice.
THEOREM SidesKeepThePlan == SidesSpec => [](PolicyExact /\ PlanPairsNames)
<1>1. SidesInv => PolicyExact /\ PlanPairsNames
  BY DEF SidesInv
<1> QED BY InitSides, SidesStep, <1>1, PTL DEF SidesSpec

=============================================================================
