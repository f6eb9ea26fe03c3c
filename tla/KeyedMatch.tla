----------------------------- MODULE KeyedMatch -----------------------------
(***************************************************************************)
(* Keyed row matching, core/src/match.c: key_map_build on each side, then  *)
(* match_keyed's walk of the target rows.  Both are loops over an open     *)
(* addressing table with linear probing; one action below is one turn of   *)
(* such a loop.                                                            *)
(*                                                                         *)
(* The input (the key of every row of the two files, and the digest of     *)
(* every key) is chosen once, in Init, so that a run covers every pair of  *)
(* small files and every way their digests can collide.  Keys that the     *)
(* comparison calls equal have one digest: row_key_hash is folded from the *)
(* normalized cells that keys_equal compares.                              *)
(***************************************************************************)
EXTENDS RowTables

CONSTANTS
  Keys,        (* what keys_equal can tell apart                           *)
  Hashes,      (* the values row_key_hash may take                         *)
  MaxRows      (* bound: the most data rows a side may have                *)

ASSUME MatchAssumption ==
  /\ MaxRows \in Nat
  /\ Hashes \subseteq Nat
  /\ Capacities \subseteq Nat
  /\ \A n \in 0 .. MaxRows : \E c \in Capacities : FitsTwice(n, c)

VARIABLES
  n,      (* n[side]: how many data rows the side has                      *)
  key,    (* key[side][r]: the key of data row r                           *)
  hash,   (* hash[k]: the digest of key k                                  *)
  phase,  (* "mapSource", "mapTarget", "walk", then "done" or "failed"     *)
  row,    (* the loop's row: i in key_map_build, ti in match_keyed         *)
  idx,    (* the slot under the probe, NoRow before the row is hashed      *)
  slot,   (* slot[side][p]: 1 + the row held there, 0 when empty           *)
  t2s,    (* the source row paired with a target row, or NoRow             *)
  s2t,    (* the target row paired with a source row, or NoRow             *)
  dup     (* the duplicate the error names, or NoDuplicate                 *)

inputs == <<n, key, hash>>
results == <<t2s, s2t>>
vars == <<n, key, hash, phase, row, idx, slot, t2s, s2t, dup>>

-----------------------------------------------------------------------------

NoDuplicate == [side |-> "source", first |-> NoRow, second |-> NoRow]

Rows(side) == 0 .. n[side] - 1

Slots(side) == 0 .. Capacity(n[side]) - 1

\* (uint32_t)h & mask
Home(side, k) == hash[k] % Capacity(n[side])

\* Mutant: the probe does not wrap.
AfterNoWrap(side, p) == p + 1

\* (idx + 1) & mask
After(side, p) == IF p + 1 = Capacity(n[side]) THEN 0 ELSE p + 1

Building == phase \in {"mapSource", "mapTarget"}

\* The side whose table is probed, and the side whose rows are looped over.
TableSide == IF phase = "mapTarget" THEN "target" ELSE "source"
RowSide == IF phase = "mapSource" THEN "source" ELSE "target"

Entry == slot[TableSide][idx]

\* Mutant: the digest is taken for the answer.
HoldsDigest(k) == hash[key[TableSide][Entry - 1]] = hash[k]

\* The digest is the filter and keys_equal the answer.
Holds(k) ==
  LET other == key[TableSide][Entry - 1]
  IN  hash[other] = hash[k] /\ other = k

Probing ==
  /\ phase \in {"mapSource", "mapTarget", "walk"}
  /\ row < n[RowSide]
  /\ idx # NoRow

-----------------------------------------------------------------------------

Init ==
  /\ n \in [Side -> 0 .. MaxRows]
  /\ \E sk \in [0 .. n["source"] - 1 -> Keys],
        tk \in [0 .. n["target"] - 1 -> Keys] :
       key = [side \in Side |-> IF side = "source" THEN sk ELSE tk]
  /\ hash \in [Keys -> Hashes]
  /\ phase = "mapSource"
  /\ row = 0
  /\ idx = NoRow
  /\ slot = [side \in Side |-> [p \in Slots(side) |-> 0]]
  /\ t2s = [t \in Rows("target") |-> NoRow]
  /\ s2t = [s \in Rows("source") |-> NoRow]
  /\ dup = NoDuplicate

\* The head of each loop: hash the row's key and start at its home slot.
BeginRow ==
  /\ phase \in {"mapSource", "mapTarget", "walk"}
  /\ row < n[RowSide]
  /\ idx = NoRow
  /\ idx' = Home(TableSide, key[RowSide][row])
  /\ UNCHANGED <<inputs, phase, row, slot, results, dup>>

\* The slot holds another key: the probe moves on.
ProbeOn ==
  /\ Probing
  /\ Entry # 0
  /\ ~Holds(key[RowSide][row])
  /\ idx' = After(TableSide, idx)
  /\ UNCHANGED <<inputs, phase, row, slot, results, dup>>

\* key_map_build reaches an empty slot: the row takes it.
Place ==
  /\ Probing
  /\ Building
  /\ Entry = 0
  /\ slot' = [slot EXCEPT ![TableSide][idx] = row + 1]
  /\ row' = row + 1
  /\ idx' = NoRow
  /\ UNCHANGED <<inputs, phase, results, dup>>

\* key_map_build meets the row's own key: a duplicate is a hard error.
Duplicate ==
  /\ Probing
  /\ Building
  /\ Entry # 0
  /\ Holds(key[RowSide][row])
  /\ dup' = [side |-> TableSide, first |-> Entry - 1, second |-> row]
  /\ phase' = "failed"
  /\ UNCHANGED <<inputs, row, idx, slot, results>>

\* match_keyed reaches an empty slot: the target row is an added one.
Added ==
  /\ Probing
  /\ phase = "walk"
  /\ Entry = 0
  /\ row' = row + 1
  /\ idx' = NoRow
  /\ UNCHANGED <<inputs, phase, slot, results, dup>>

\* Mutant: the pair is recorded in one direction only.
PairOneWay ==
  /\ Probing
  /\ phase = "walk"
  /\ Entry # 0
  /\ Holds(key["target"][row])
  /\ t2s' = [t2s EXCEPT ![row] = Entry - 1]
  /\ row' = row + 1
  /\ idx' = NoRow
  /\ UNCHANGED <<inputs, phase, slot, s2t, dup>>

\* match_keyed meets the target row's key in the source table.
Pair ==
  /\ Probing
  /\ phase = "walk"
  /\ Entry # 0
  /\ Holds(key["target"][row])
  /\ t2s' = [t2s EXCEPT ![row] = Entry - 1]
  /\ s2t' = [s2t EXCEPT ![Entry - 1] = row]
  /\ row' = row + 1
  /\ idx' = NoRow
  /\ UNCHANGED <<inputs, phase, slot, dup>>

\* Mutant: only the source is searched for duplicates.
EndLoopSourceOnly ==
  /\ phase \in {"mapSource", "mapTarget", "walk"}
  /\ row = n[RowSide]
  /\ phase' = IF phase = "walk" THEN "done" ELSE "walk"
  /\ row' = 0
  /\ idx' = NoRow
  /\ UNCHANGED <<inputs, slot, results, dup>>

\* A loop has run out of rows: the source table, the target table, the walk.
EndLoop ==
  /\ phase \in {"mapSource", "mapTarget", "walk"}
  /\ row = n[RowSide]
  /\ phase' = CASE phase = "mapSource" -> "mapTarget"
                [] phase = "mapTarget" -> "walk"
                [] phase = "walk"      -> "done"
  /\ row' = 0
  /\ idx' = NoRow
  /\ UNCHANGED <<inputs, slot, results, dup>>

Next == BeginRow \/ ProbeOn \/ Place \/ Duplicate \/ Added \/ Pair \/ EndLoop

\* The matcher is one call on one thread: it never stops between two turns.
Spec == Init /\ [][Next]_vars /\ WF_vars(Next)

-----------------------------------------------------------------------------

\* The variables keep their shape: indices stay inside their arrays.
TypeOK ==
  /\ n \in [Side -> 0 .. MaxRows]
  /\ DOMAIN key = Side
  /\ \A side \in Side : key[side] \in [Rows(side) -> Keys]
  /\ hash \in [Keys -> Hashes]
  /\ phase \in {"mapSource", "mapTarget", "walk", "done", "failed"}
  /\ row \in 0 .. MaxRows
  /\ idx \in Nat \cup {NoRow}
  /\ phase \in {"mapSource", "mapTarget", "walk"} =>
       /\ row <= n[RowSide]
       /\ idx \in Slots(TableSide) \cup {NoRow}
  /\ DOMAIN slot = Side
  /\ \A side \in Side : slot[side] \in [Slots(side) -> 0 .. n[side]]
  /\ t2s \in [Rows("target") -> Rows("source") \cup {NoRow}]
  /\ s2t \in [Rows("source") -> Rows("target") \cup {NoRow}]
  /\ IF phase = "failed" THEN dup \in [side : Side, first : Nat, second : Nat]
                         ELSE dup = NoDuplicate

\* "A key hash collision costs a key comparison, never a wrong pairing"
\* (match.c): whatever the digests, two rows are paired, in both maps, when
\* and only when they have one key.
PairedByKey ==
  phase = "done" =>
    \A t \in Rows("target"), s \in Rows("source") :
      /\ t2s[t] = s <=> key["target"][t] = key["source"][s]
      /\ s2t[s] = t <=> key["target"][t] = key["source"][s]

\* Rows a and b of a side, a first, share a key.
SameKeyRows(side, a, b) == a < b /\ key[side][a] = key[side][b]

\* The duplicate key error (key_map_build, dup_key_err) is raised when and only
\* when a side has a duplicate; it names the first row that repeats a key,
\* with the row it repeats, and the source file is answered for first.
DuplicateNamed ==
  /\ phase = "failed" =>
       /\ SameKeyRows(dup.side, dup.first, dup.second)
       /\ dup.second \in Rows(dup.side)
       /\ \A a, b \in 0 .. dup.second - 1 : ~SameKeyRows(dup.side, a, b)
       /\ dup.side = "target" =>
            \A a, b \in Rows("source") : ~SameKeyRows("source", a, b)
  /\ phase \in {"walk", "done"} =>
       \A side \in Side : \A a, b \in Rows(side) : ~SameKeyRows(side, a, b)

-----------------------------------------------------------------------------
(***************************************************************************)
(* Why a probe finds what was placed: the slots from a key's home to the   *)
(* slot that holds it are all occupied, and stay so.                       *)
(***************************************************************************)

\* The slots a probe visits from a to b, both included, wrapping at the end.
Path(side, a, b) ==
  IF a <= b THEN a .. b ELSE {p \in Slots(side) : p >= a \/ p <= b}

\* The rows of a side whose turn in key_map_build is over.
Placed(side) ==
  {r \in Rows(side) :
     \/ phase \in {"walk", "done"}
     \/ phase = "mapSource" /\ side = "source" /\ r < row
     \/ phase = "mapTarget" /\ (side = "source" \/ r < row)}

\* Row r of a side sits where a probe for its key gets to without a gap.
Reachable(side, r) ==
  \E p \in Slots(side) :
    /\ slot[side][p] = r + 1
    /\ \A q \in Path(side, Home(side, key[side][r]), p) : slot[side][q] # 0

\* What the probe of the row in hand has already ruled out.
RuledOut ==
  Probing =>
    LET k == key[RowSide][row]
    IN  \A q \in Path(TableSide, Home(TableSide, k), idx) \ {idx} :
          /\ slot[TableSide][q] # 0
          /\ key[TableSide][slot[TableSide][q] - 1] # k

\* The tables hold exactly the placed rows, no key twice, each reachable.
TablesSound ==
  phase # "failed" =>
    \A side \in Side :
      /\ \A p \in Slots(side) :
           slot[side][p] # 0 => slot[side][p] - 1 \in Placed(side)
      /\ \A r \in Placed(side) : Reachable(side, r)
      /\ \A a, b \in Placed(side) : key[side][a] = key[side][b] => a = b

\* The target rows whose turn in the walk is over.
Walked ==
  {t \in Rows("target") : phase = "done" \/ (phase = "walk" /\ t < row)}

\* The pairing so far is exactly key equality on the rows walked.
PairsSound ==
  \A t \in Rows("target"), s \in Rows("source") :
    /\ t2s[t] = s <=>
         t \in Walked /\ key["target"][t] = key["source"][s]
    /\ s2t[s] = t <=>
         t \in Walked /\ key["target"][t] = key["source"][s]

\* At every turn, not only at the end: whatever the probes have met, the tables
\* hold the rows placed, each where a probe finds it, and the pairs made are
\* right (the inductive invariant of the two loops).
MatchInv == RuledOut /\ TablesSound /\ PairsSound

=============================================================================
