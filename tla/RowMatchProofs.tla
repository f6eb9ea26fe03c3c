--------------------------- MODULE RowMatchProofs ---------------------------
(***************************************************************************)
(* The diff of files without key columns, for files of any length: that    *)
(* the passes of diff_allkeys pair equal rows first and every other row    *)
(* with the best candidate the signature index has for it, within the      *)
(* bounds the code sets on the work (RowMatch, AllKeys); and that          *)
(* detect_moves is right about whatever pairing either matcher leaves.     *)
(***************************************************************************)
EXTENDS RowMatch, Induction, FiniteSetTheorems, TLAPS

-----------------------------------------------------------------------------
(* Files with key columns: the tables of KeyedMatch.                       *)

USE DEF Side, NoRow

\* bmap_init returns a table with room for 2n + 1 rows.
LEMMA CapacityFits ==
  ASSUME NEW size \in 0 .. MaxRows
  PROVE  Capacity(size) \in Nat /\ Capacity(size) >= 2 * size + 1
<1>1. PICK c \in Capacities : FitsTwice(size, c)
  BY MatchAssumption
<1>2. Capacity(size) \in Capacities /\ FitsTwice(size, Capacity(size))
  BY <1>1 DEF Capacity
<1>3. QED
  BY <1>2, MatchAssumption DEF FitsTwice

\* A key's home is a slot of the table.
LEMMA HomeIsSlot ==
  ASSUME TypeOK, NEW side \in Side, NEW wanted \in Keys
  PROVE  Home(side, wanted) \in Slots(side)
<1>1. n[side] \in 0 .. MaxRows /\ hash[wanted] \in Nat
  BY MatchAssumption DEF TypeOK
<1>2. Capacity(n[side]) \in Nat \ {0}
  BY <1>1, CapacityFits
<1>3. \A a \in Nat, b \in Nat \ {0} : a % b \in 0 .. b - 1
  BY Z3
<1>4. QED
  BY <1>1, <1>2, <1>3 DEF Home, Slots

\* The probe's next slot is a slot of the table.
LEMMA AfterIsSlot ==
  ASSUME TypeOK, NEW side \in Side, NEW p \in Slots(side)
  PROVE  After(side, p) \in Slots(side)
<1>1. Capacity(n[side]) \in Nat /\ Capacity(n[side]) >= 1
  <2>1. n[side] \in 0 .. MaxRows /\ MaxRows \in Nat
    BY MatchAssumption DEF TypeOK
  <2>2. QED
    BY <2>1, CapacityFits
<1>2. QED
  BY <1>1 DEF After, Slots

\* The empty tables have the shape bmap_init and diff_run give them.
LEMMA InitTypeOK == Init => TypeOK
<1> SUFFICES ASSUME Init PROVE TypeOK
  OBVIOUS
<1>1. n \in [Side -> 0 .. MaxRows]
  BY DEF Init
<1>2. DOMAIN key = Side /\ \A side \in Side : key[side] \in [Rows(side) -> Keys]
  BY DEF Init, Rows
<1>3. /\ DOMAIN slot = Side
      /\ \A side \in Side : slot[side] \in [Slots(side) -> 0 .. n[side]]
  BY <1>1, MatchAssumption DEF Init
<1>4. QED
  BY <1>1, <1>2, <1>3, MatchAssumption DEF Init, TypeOK, RowSide, Slots, TableSide

\* The row in hand is a row of its side, and has a key.
LEMMA RowInHand ==
  ASSUME TypeOK, row < n[RowSide]
  PROVE  /\ RowSide \in Side /\ TableSide \in Side
         /\ row \in Rows(RowSide)
         /\ key[RowSide][row] \in Keys
<1>1. RowSide \in Side /\ TableSide \in Side
  BY DEF RowSide, TableSide
<1>2. n[RowSide] \in Nat /\ row \in Nat
  BY <1>1, MatchAssumption DEF TypeOK
<1>3. row \in Rows(RowSide)
  BY <1>2 DEF Rows
<1>4. key[RowSide] \in [Rows(RowSide) -> Keys]
  BY <1>1 DEF TypeOK
<1>5. QED
  BY <1>1, <1>3, <1>4

\* The slot under a probe holds 0 or 1 + a row of the table's side.
LEMMA EntryInTable ==
  ASSUME TypeOK, Probing
  PROVE  /\ TableSide \in Side
         /\ idx \in Slots(TableSide)
         /\ Entry \in 0 .. n[TableSide]
         /\ Entry # 0 => Entry - 1 \in Rows(TableSide)
<1>1. TableSide \in Side
  BY DEF TableSide
<1>2. idx \in Slots(TableSide)
  BY DEF TypeOK, Probing
<1>3. slot[TableSide] \in [Slots(TableSide) -> 0 .. n[TableSide]]
  BY <1>1 DEF TypeOK
<1>4. Entry \in 0 .. n[TableSide]
  BY <1>2, <1>3 DEF Entry
<1>5. n[TableSide] \in Nat
  BY <1>1, MatchAssumption DEF TypeOK
<1>6. QED
  BY <1>1, <1>2, <1>4, <1>5 DEF Rows

\* No turn of a loop takes an index out of its array.
LEMMA NextTypeOK == TypeOK /\ [Next]_vars => TypeOK'
<1> SUFFICES ASSUME TypeOK, [Next]_vars PROVE TypeOK'
  OBVIOUS
<1> USE MatchAssumption DEF inputs, results, Rows, Building
<1>0. \A side \in Side : Slots(side) \subseteq Nat
  BY DEF Slots
<1>1. CASE BeginRow
  <2>1. key[RowSide][row] \in Keys /\ TableSide \in Side
    BY <1>1, RowInHand DEF BeginRow
  <2>2. Home(TableSide, key[RowSide][row]) \in Slots(TableSide)
    BY <2>1, HomeIsSlot
  <2>3. idx' \in Nat /\ (row <= n[RowSide])' /\ idx' \in Slots(TableSide)'
    BY <1>0, <1>1, <2>1, <2>2 DEF BeginRow, TypeOK, RowSide, TableSide, Slots
  <2>4. QED
    BY <1>1, <2>3 DEF BeginRow, TypeOK, Slots
<1>2. CASE ProbeOn
  <2>1. TableSide \in Side /\ idx \in Slots(TableSide)
    BY <1>2, EntryInTable DEF ProbeOn
  <2>2. After(TableSide, idx) \in Slots(TableSide)
    BY <2>1, AfterIsSlot
  <2>3. idx' \in Nat /\ (row <= n[RowSide])' /\ idx' \in Slots(TableSide)'
    BY <1>0, <1>2, <2>1, <2>2 DEF ProbeOn, Probing, TypeOK, RowSide, TableSide, Slots
  <2>4. QED
    BY <1>2, <2>3 DEF ProbeOn, Probing, TypeOK, Slots
<1>3. CASE Place
  <2>1. /\ TableSide = RowSide /\ TableSide \in Side
        /\ idx \in Slots(TableSide) /\ row \in Rows(TableSide)
    BY <1>3, EntryInTable, RowInHand DEF Place, Probing, RowSide, TableSide
  <2>2. row + 1 \in 0 .. n[TableSide]
    BY <2>1 DEF TypeOK
  <2>3. \A side \in Side : slot'[side] \in [Slots(side) -> 0 .. n[side]]
    BY <1>3, <2>1, <2>2 DEF Place, TypeOK
  <2>4. DOMAIN slot' = Side /\ row' \in 0 .. MaxRows /\ (row <= n[RowSide])'
    BY <1>3, <2>1, <2>2 DEF Place, TypeOK, RowSide
  <2>5. QED
    BY <1>3, <2>3, <2>4 DEF Place, TypeOK, Slots
<1>4. CASE Duplicate
  <2>1. TableSide \in Side /\ Entry - 1 \in Nat
    BY <1>4, EntryInTable DEF Duplicate
  <2>2. dup' \in [side : Side, first : Nat, second : Nat]
    BY <1>4, <2>1 DEF Duplicate, TypeOK
  <2>3. QED
    BY <1>4, <2>2 DEF Duplicate, TypeOK, Slots
<1>5. CASE Added
  <2>1. RowSide = "target" /\ row + 1 \in 0 .. n["target"]
    BY <1>5, RowInHand DEF Added, Probing, RowSide, TypeOK
  <2>2. row' \in 0 .. MaxRows /\ (row <= n[RowSide])'
    BY <1>5, <2>1 DEF Added, TypeOK, RowSide
  <2>3. QED
    BY <1>5, <2>2 DEF Added, TypeOK, Slots
<1>6. CASE Pair
  <2>a. RowSide = "target" /\ row \in Rows(RowSide) /\ n["target"] \in Nat
    BY <1>6, RowInHand DEF Pair, Probing, RowSide, TypeOK
  <2>1. RowSide = "target" /\ row \in Rows("target") /\ row + 1 \in 0 .. n["target"]
    BY <2>a
  <2>2. Entry - 1 \in Rows("source")
    BY <1>6, EntryInTable DEF Pair, TableSide
  <2>3. /\ t2s' \in [Rows("target") -> Rows("source") \cup {NoRow}]
        /\ s2t' \in [Rows("source") -> Rows("target") \cup {NoRow}]
    BY <1>6, <2>1, <2>2 DEF Pair, TypeOK
  <2>4. row' \in 0 .. MaxRows /\ (row <= n[RowSide])'
    BY <1>6, <2>1 DEF Pair, TypeOK, RowSide
  <2>5. QED
    BY <1>6, <2>3, <2>4 DEF Pair, TypeOK, Slots
<1>7. CASE EndLoop
  <2>1. phase' \in {"mapTarget", "walk", "done"} /\ row' \in 0 .. MaxRows
    BY <1>7 DEF EndLoop
  <2>2. (row <= n[RowSide])'
    BY <1>7 DEF EndLoop, TypeOK, RowSide
  <2>3. QED
    BY <1>7, <2>1, <2>2 DEF EndLoop, TypeOK, Slots
<1>8. CASE UNCHANGED vars
  BY <1>8 DEF vars, TypeOK, RowSide, TableSide, Slots
<1>9. QED
  BY <1>1, <1>2, <1>3, <1>4, <1>5, <1>6, <1>7, <1>8 DEF Next

\* The arrays of match.c keep their shape and every index stays inside them.
THEOREM TypeCorrect == Spec => []TypeOK
BY InitTypeOK, NextTypeOK, PTL DEF Spec

-----------------------------------------------------------------------------
(***************************************************************************)
(* Probe paths.                                                            *)
(***************************************************************************)

\* A slot that the path to b misses is one whose own path passes b first.
LEMMA PathOrder ==
  ASSUME NEW side \in Side, NEW a \in Slots(side), NEW b \in Slots(side),
         NEW c \in Slots(side), c \notin Path(side, a, b)
  PROVE  b \in Path(side, a, c) \ {c}
<1>1. a \in Int /\ b \in Int /\ c \in Int
  BY DEF Slots
<1>2. CASE a <= b
  BY <1>1, <1>2 DEF Path
<1>3. CASE ~(a <= b)
  BY <1>1, <1>3 DEF Path
<1>4. QED
  BY <1>2, <1>3

\* One step of the probe adds to the path nothing but the slot it lands on.
LEMMA PathGrows ==
  ASSUME TypeOK, NEW side \in Side, NEW a \in Slots(side), NEW b \in Slots(side)
  PROVE  Path(side, a, After(side, b)) \ {After(side, b)} \subseteq Path(side, a, b)
<1>1. Capacity(n[side]) \in Nat
  BY CapacityFits DEF TypeOK
<1>2. QED
  BY <1>1 DEF Path, After, Slots

\* A path lies in the table.
LEMMA PathInTable ==
  ASSUME TypeOK, NEW side \in Side, NEW a \in Slots(side), NEW b \in Slots(side)
  PROVE  Path(side, a, b) \subseteq Slots(side) /\ b \in Path(side, a, b)
<1>1. Capacity(n[side]) \in Nat
  BY CapacityFits DEF TypeOK
<1>2. QED
  BY <1>1 DEF Path, Slots

\* An empty slot under the probe: no row of the table has the key looked for.
LEMMA NotInTable ==
  ASSUME TypeOK, MatchInv, Probing, Entry = 0
  PROVE  \A r \in Placed(TableSide) : key[TableSide][r] # key[RowSide][row]
<1> DEFINE T == TableSide
           wanted == key[RowSide][row]
<1>1. SUFFICES ASSUME NEW r \in Placed(T), key[T][r] = wanted PROVE FALSE
  OBVIOUS
<1>2. /\ T \in Side /\ idx \in Slots(T) /\ wanted \in Keys
      /\ phase # "failed"
  BY EntryInTable, RowInHand DEF Probing
<1>3. Home(T, wanted) \in Slots(T)
  BY <1>2, HomeIsSlot
<1>4. PICK p \in Slots(T) :
        slot[T][p] = r + 1 /\ \A q \in Path(T, Home(T, wanted), p) : slot[T][q] # 0
  BY <1>1, <1>2 DEF MatchInv, TablesSound, Reachable
<1>5. idx \notin Path(T, Home(T, wanted), p)
  BY <1>4 DEF Entry
<1>6. p \in Path(T, Home(T, wanted), idx) \ {idx}
  BY <1>2, <1>3, <1>4, <1>5, PathOrder
<1>7. key[T][slot[T][p] - 1] # wanted
  BY <1>6 DEF MatchInv, RuledOut
<1>8. slot[T][p] - 1 = r
  BY <1>4 DEF Placed, Rows
<1>9. QED
  BY <1>1, <1>7, <1>8

-----------------------------------------------------------------------------
(***************************************************************************)
(* The inductive invariant.                                                *)
(***************************************************************************)

\* What the error names, in the state that raised it.
FailureNamed ==
  phase = "failed" =>
    /\ SameKeyRows(dup.side, dup.first, dup.second)
    /\ dup.second \in Rows(dup.side)
    /\ \A a, b \in 0 .. dup.second - 1 : ~SameKeyRows(dup.side, a, b)
    /\ dup.side = "target" =>
         \A a, b \in Rows("source") : ~SameKeyRows("source", a, b)

IInv == TypeOK /\ MatchInv /\ FailureNamed

\* Before the first turn nothing is placed and nothing is paired.
LEMMA InitIInv == Init => IInv
<1> SUFFICES ASSUME Init PROVE IInv
  OBVIOUS
<1>1. TypeOK
  BY InitTypeOK
<1>2. RuledOut
  BY DEF Init, RuledOut, Probing
<1>3. TablesSound
  <2>1. \A side \in Side : Placed(side) = {}
    BY <1>1 DEF Init, Placed, Rows, TypeOK
  <2>2. \A side \in Side : \A p \in Slots(side) : slot[side][p] = 0
    BY DEF Init
  <2>3. QED
    BY <2>1, <2>2 DEF TablesSound
<1>4. PairsSound
  <2>1. Walked = {}
    BY DEF Init, Walked
  <2>2. \A t \in Rows("target"), s \in Rows("source") : t2s[t] # s /\ s2t[s] # t
    BY DEF Init, Rows
  <2>3. QED
    BY <2>1, <2>2 DEF PairsSound
<1>5. FailureNamed
  BY DEF Init, FailureNamed
<1>6. QED
  BY <1>1, <1>2, <1>3, <1>4, <1>5 DEF IInv, MatchInv

\* A step that leaves the tables, the placed rows and the walked rows alone.
LEMMA Untouched ==
  ASSUME TablesSound, PairsSound, phase # "failed",
         UNCHANGED <<inputs, slot, results>>,
         \A side \in Side : Placed(side)' = Placed(side),
         Walked' = Walked
  PROVE  TablesSound' /\ PairsSound'
<1> USE DEF inputs, results
<1>1. \A side \in Side : Slots(side)' = Slots(side) /\ Rows(side)' = Rows(side)
  BY DEF Slots, Rows
<1>2. \A side \in Side, r \in Int : Reachable(side, r) => Reachable(side, r)'
  BY DEF Reachable, Path, Home, Slots
<1>3. \A side \in Side : Placed(side) \subseteq Int
  BY DEF Placed, Rows
<1>4. TablesSound'
  BY <1>1, <1>2, <1>3 DEF TablesSound
<1>5. PairsSound'
  BY <1>1 DEF PairsSound
<1>6. QED
  BY <1>4, <1>5

\* A probe that moves on has ruled out one more slot.
LEMMA ProbeOnRulesOut ==
  ASSUME TypeOK, MatchInv, ProbeOn
  PROVE  RuledOut'
<1> USE DEF inputs, results
<1> DEFINE T == TableSide
           wanted == key[RowSide][row]
<1>1. /\ T \in Side /\ idx \in Slots(T) /\ wanted \in Keys
      /\ Entry # 0 /\ Entry - 1 \in Rows(T)
  BY EntryInTable, RowInHand DEF ProbeOn, Probing
<1>2. Home(T, wanted) \in Slots(T)
  BY <1>1, HomeIsSlot
<1>3. T' = T /\ wanted' = wanted /\ Home(T, wanted)' = Home(T, wanted) /\ idx' = After(T, idx)
  BY DEF ProbeOn, TableSide, RowSide, Home
<1>4. key[T][Entry - 1] # wanted
  BY DEF ProbeOn, Holds
<1>5. \A q \in Path(T, Home(T, wanted), idx) :
        slot[T][q] # 0 /\ key[T][slot[T][q] - 1] # wanted
  BY <1>1, <1>4 DEF MatchInv, RuledOut, ProbeOn, Entry
<1>6. \A q \in Path(T, Home(T, wanted), idx') \ {idx'} : q \in Path(T, Home(T, wanted), idx)
  BY <1>1, <1>2, <1>3, PathGrows
<1>7. slot' = slot /\ key' = key
  BY DEF ProbeOn
<1>8. Path(T, Home(T, wanted), idx)' = Path(T, Home(T, wanted), idx')
  BY <1>3 DEF Path, Slots, ProbeOn
<1>9. QED
  BY <1>3, <1>5, <1>6, <1>7, <1>8 DEF RuledOut

\* Taking an empty slot keeps every earlier row within reach of its probe.
LEMMA PlaceKeepsTables ==
  ASSUME TypeOK, MatchInv, Place
  PROVE  TablesSound'
<1> USE DEF inputs, results
\* The table, the row and the slot of this turn: constants from here on.
<1>1. PICK T \in Side, i \in Int, r0 \in Int :
        /\ T = TableSide /\ T = RowSide /\ i = idx /\ r0 = row
        /\ i \in Slots(T) /\ r0 \in Rows(T)
  BY EntryInTable, RowInHand DEF Place, Probing, Building, RowSide, TableSide, Rows, Slots
<1> DEFINE wanted == key[T][r0]
<1>2. wanted \in Keys /\ Home(T, wanted) \in Slots(T) /\ slot[T][i] = 0 /\ phase # "failed"
  BY <1>1, HomeIsSlot DEF Place, Probing, Entry, TypeOK
<1>3. Placed(T)' = Placed(T) \cup {r0}
  BY <1>1 DEF Place, Building, Placed, Rows, RowSide, TableSide
<1>4. \A side \in Side : side # T => Placed(side)' = Placed(side)
  BY <1>1 DEF Place, Building, Placed, Rows, RowSide, TableSide
<1>5. \A side \in Side : Slots(side)' = Slots(side) /\ key'[side] = key[side]
  BY DEF Place, Slots
<1>6. /\ slot'[T] = [slot[T] EXCEPT ![i] = r0 + 1]
      /\ slot[T] \in [Slots(T) -> 0 .. n[T]]
      /\ \A side \in Side : side # T => slot'[side] = slot[side]
  BY <1>1 DEF Place, TypeOK
<1>7. \A side \in Side : \A q \in Slots(side) : slot[side][q] # 0 => slot'[side][q] = slot[side][q]
  BY <1>2, <1>6
<1>8. \A r \in Placed(T) : key[T][r] # wanted
  BY <1>1, NotInTable DEF Place
<1>9. \A side \in Side : \A r \in Rows(side) : Reachable(side, r) => Reachable(side, r)'
  <2>1. SUFFICES ASSUME NEW side \in Side, NEW r \in Rows(side), Reachable(side, r)
                 PROVE  Reachable(side, r)'
    OBVIOUS
  <2>2. r + 1 # 0
    BY DEF Rows
  <2>3. key[side][r] \in Keys
    BY DEF TypeOK
  <2>4. Home(side, key[side][r]) \in Slots(side)
    BY <2>3, HomeIsSlot
  <2>5. PICK p \in Slots(side) :
          /\ slot[side][p] = r + 1
          /\ \A q \in Path(side, Home(side, key[side][r]), p) : slot[side][q] # 0
    BY <2>1 DEF Reachable
  <2>6. \A q \in Path(side, Home(side, key[side][r]), p) : slot'[side][q] # 0
    BY <1>7, <2>4, <2>5, PathInTable
  <2>7. slot'[side][p] = r + 1
    BY <1>7, <2>2, <2>5
  <2>8. Path(side, Home(side, key[side][r]), p)' = Path(side, Home(side, key[side][r]), p)
    BY DEF Path, Home, Slots, Place
  <2>9. QED
    BY <1>5, <2>6, <2>7, <2>8 DEF Reachable
<1>10. Reachable(T, r0)'
  <2>1. \A q \in Path(T, Home(T, wanted), i) \ {i} : slot[T][q] # 0
    BY <1>1 DEF MatchInv, RuledOut, Place
  <2>2. slot'[T][i] = r0 + 1 /\ r0 + 1 # 0
    BY <1>1, <1>6 DEF Rows
  <2>3. \A q \in Path(T, Home(T, wanted), i) : slot'[T][q] # 0
    BY <1>1, <1>2, <1>7, <2>1, <2>2, PathInTable
  <2>4. Path(T, Home(T, key[T][r0]), i)' = Path(T, Home(T, wanted), i)
    BY DEF Path, Home, Slots, Place
  <2>5. QED
    BY <1>1, <1>5, <2>2, <2>3, <2>4 DEF Reachable
<1>11. SUFFICES ASSUME NEW side \in Side
       PROVE  /\ \A p \in Slots(side) :
                   slot'[side][p] # 0 => slot'[side][p] - 1 \in Placed(side)'
              /\ \A r \in Placed(side)' : Reachable(side, r)'
              /\ \A a, b \in Placed(side)' : key'[side][a] = key'[side][b] => a = b
  BY <1>5 DEF TablesSound
<1>12. /\ Placed(side) \subseteq Rows(side)
       /\ \A p \in Slots(side) : slot[side][p] # 0 => slot[side][p] - 1 \in Placed(side)
       /\ \A r \in Placed(side) : Reachable(side, r)
       /\ \A a, b \in Placed(side) : key[side][a] = key[side][b] => a = b
  BY <1>2 DEF MatchInv, TablesSound, Placed
<1>13. CASE side = T
  <2>1. \A p \in Slots(T) : slot'[T][p] # 0 => slot'[T][p] - 1 \in Placed(T)'
    <3>1. ASSUME NEW p \in Slots(T), slot'[T][p] # 0, p # i
          PROVE  slot'[T][p] - 1 \in Placed(T)'
      BY <1>3, <1>6, <1>12, <1>13, <3>1
    <3>2. slot'[T][i] - 1 = r0
      BY <1>1, <1>6 DEF Rows
    <3>3. QED
      BY <1>3, <3>1, <3>2
  <2>2. \A r \in Placed(T)' : Reachable(T, r)'
    BY <1>3, <1>9, <1>10, <1>12, <1>13
  <2>3. \A a, b \in Placed(T)' : key'[T][a] = key'[T][b] => a = b
    BY <1>3, <1>5, <1>8, <1>12, <1>13
  <2>4. QED
    BY <1>13, <2>1, <2>2, <2>3
<1>14. CASE side # T
  BY <1>4, <1>5, <1>6, <1>9, <1>12, <1>14
<1>15. QED
  BY <1>13, <1>14

\* The pairs stay right when a target row's walk ends without a pair.
LEMMA AddedKeepsPairs ==
  ASSUME TypeOK, MatchInv, Added
  PROVE  PairsSound'
<1> USE DEF inputs, results
<1>1. TableSide = "source" /\ RowSide = "target" /\ row \in Rows("target")
  BY RowInHand DEF Added, Probing, TableSide, RowSide
<1>2. \A s \in Rows("source") : key["source"][s] # key["target"][row]
  BY <1>1, NotInTable DEF Added, Placed
<1>3. Walked' = Walked \cup {row}
  BY <1>1 DEF Added, Walked, Rows
<1>4. \A t \in Rows("target"), s \in Rows("source") :
        /\ t2s[t] = s <=> t \in Walked /\ key["target"][t] = key["source"][s]
        /\ s2t[s] = t <=> t \in Walked /\ key["target"][t] = key["source"][s]
  BY DEF MatchInv, PairsSound
<1>5. QED
  BY <1>2, <1>3, <1>4 DEF PairsSound, Added, Rows

\* The pairs stay right when the walk pairs a target row.
LEMMA PairKeepsPairs ==
  ASSUME TypeOK, MatchInv, Pair
  PROVE  PairsSound'
<1> USE DEF inputs, results
<1>1. PICK r \in Int, e \in Int :
        /\ r = row /\ r \in Rows("target")
        /\ e = Entry - 1 /\ e \in Rows("source")
        /\ key["source"][e] = key["target"][r]
  BY RowInHand, EntryInTable DEF Pair, Probing, TableSide, RowSide, Holds, Rows
<1>2. \A a \in Rows("source") : key["source"][a] = key["source"][e] => a = e
  BY <1>1 DEF MatchInv, TablesSound, Placed, Pair
<1>3. \A a \in Rows("target") : key["target"][a] = key["target"][r] => a = r
  BY <1>1 DEF MatchInv, TablesSound, Placed, Pair
<1>4. Walked' = Walked \cup {r} /\ r \notin Walked
  BY <1>1 DEF Pair, Walked, Rows
<1>5. t2s' = [t2s EXCEPT ![r] = e] /\ s2t' = [s2t EXCEPT ![e] = r]
  BY <1>1 DEF Pair
<1>6. /\ DOMAIN t2s = Rows("target") /\ DOMAIN s2t = Rows("source")
      /\ \A side \in Side : Rows(side)' = Rows(side)
      /\ key' = key
  BY DEF TypeOK, Pair, Rows
<1>7. \A t \in Rows("target"), s \in Rows("source") :
        /\ t2s[t] = s <=> t \in Walked /\ key["target"][t] = key["source"][s]
        /\ s2t[s] = t <=> t \in Walked /\ key["target"][t] = key["source"][s]
  BY DEF MatchInv, PairsSound
<1>8. \A t \in Rows("target"), s \in Rows("source") :
        t2s'[t] = s <=> t \in Walked' /\ key["target"][t] = key["source"][s]
  <2>1. SUFFICES ASSUME NEW t \in Rows("target"), NEW s \in Rows("source")
                 PROVE  t2s'[t] = s <=>
                          t \in Walked' /\ key["target"][t] = key["source"][s]
    OBVIOUS
  <2>2. CASE t = r
    <3>1. t2s'[t] = e
      BY <1>1, <1>5, <1>6, <2>2
    <3>2. e = s <=> key["target"][r] = key["source"][s]
      BY <1>1, <1>2
    <3>3. QED
      BY <1>4, <2>2, <3>1, <3>2
  <2>3. CASE t # r
    BY <1>4, <1>5, <1>6, <1>7, <2>3
  <2>4. QED
    BY <2>2, <2>3
<1>9. \A t \in Rows("target"), s \in Rows("source") :
        s2t'[s] = t <=> t \in Walked' /\ key["target"][t] = key["source"][s]
  BY <1>1, <1>2, <1>3, <1>4, <1>5, <1>6, <1>7
<1>10. QED
  BY <1>6, <1>8, <1>9 DEF PairsSound

\* The error names the first row that repeats a key, and the row it repeats.
LEMMA DuplicateIsNamed ==
  ASSUME TypeOK, MatchInv, Duplicate
  PROVE  FailureNamed'
<1> USE DEF inputs, results
<1>1. PICK T \in Side, r \in Int, e \in Int :
        /\ T = TableSide /\ T = RowSide
        /\ r = row /\ r \in Rows(T)
        /\ e = Entry - 1 /\ e \in Placed(T)
        /\ key[T][e] = key[T][r]
  BY RowInHand, EntryInTable
     DEF Duplicate, Probing, Building, TableSide, RowSide, Holds, Rows,
         MatchInv, TablesSound, Entry
<1>2. e < r
  BY <1>1 DEF Placed, Duplicate, Building, Rows, TableSide
<1>3. \A a, b \in Placed(T) : key[T][a] = key[T][b] => a = b
  BY <1>1 DEF MatchInv, TablesSound, Duplicate, Building
<1>4. \A a \in 0 .. r - 1 : a \in Placed(T)
  BY <1>1 DEF Placed, Duplicate, Building, Rows, TableSide, TypeOK
<1>5. T = "target" => \A a, b \in Rows("source") : ~SameKeyRows("source", a, b)
  BY <1>1 DEF MatchInv, TablesSound, Placed, Duplicate, Building, TableSide,
              SameKeyRows, Rows
<1>6. dup' = [side |-> T, first |-> e, second |-> r]
  BY <1>1 DEF Duplicate
<1>7. n' = n /\ key' = key
  BY DEF Duplicate
<1>8. \A a, b \in 0 .. r - 1 : ~SameKeyRows(T, a, b)
  BY <1>1, <1>3, <1>4 DEF SameKeyRows, Rows
<1>9. QED
  BY <1>1, <1>2, <1>5, <1>6, <1>7, <1>8 DEF FailureNamed, SameKeyRows, Rows

\* Every turn of the three loops keeps the invariant.
LEMMA NextIInv == IInv /\ [Next]_vars => IInv'
<1> SUFFICES ASSUME IInv, [Next]_vars PROVE IInv'
  OBVIOUS
<1> USE DEF inputs, results
<1>1. TypeOK'
  BY NextTypeOK DEF IInv
<1>2. TypeOK /\ MatchInv
  BY DEF IInv
<1>3. CASE BeginRow
  <2>1. PICK T \in Side, R \in Side, i \in Int :
          /\ T = TableSide /\ R = RowSide /\ i = Home(T, key[R][row])
          /\ i \in Slots(T)
    BY <1>2, <1>3, RowInHand, HomeIsSlot DEF BeginRow, Slots
  <2>2. Path(T, i, i) \ {i} = {}
    BY <2>1 DEF Path
  <2>3. /\ TableSide' = T /\ RowSide' = R /\ idx' = i
        /\ Home(T, key[R][row])' = i
        /\ Path(T, i, i)' = Path(T, i, i)
    BY <1>3, <2>1 DEF BeginRow, TableSide, RowSide, Home, Path, Slots
  <2>4. RuledOut'
    BY <2>2, <2>3 DEF RuledOut
  <2>5. TablesSound' /\ PairsSound'
    BY <1>2, <1>3, Untouched
       DEF BeginRow, MatchInv, Placed, Walked, Rows
  <2>6. FailureNamed'
    BY <1>3 DEF BeginRow, FailureNamed
  <2>7. QED
    BY <1>1, <2>4, <2>5, <2>6 DEF IInv, MatchInv
<1>4. CASE ProbeOn
  <2>1. RuledOut'
    BY <1>2, <1>4, ProbeOnRulesOut
  <2>2. TablesSound' /\ PairsSound'
    BY <1>2, <1>4, Untouched
       DEF ProbeOn, Probing, MatchInv, Placed, Walked, Rows
  <2>3. FailureNamed'
    BY <1>4 DEF ProbeOn, Probing, FailureNamed
  <2>4. QED
    BY <1>1, <2>1, <2>2, <2>3 DEF IInv, MatchInv
<1>5. CASE Place
  <2>1. RuledOut' /\ FailureNamed'
    BY <1>5 DEF Place, Probing, RuledOut, FailureNamed
  <2>2. TablesSound'
    BY <1>2, <1>5, PlaceKeepsTables
  <2>3. Walked' = Walked
    BY <1>5 DEF Place, Building, Walked, Rows
  <2>4. PairsSound'
    BY <1>2, <1>5, <2>3 DEF Place, MatchInv, PairsSound, Rows
  <2>5. QED
    BY <1>1, <2>1, <2>2, <2>4 DEF IInv, MatchInv
<1>6. CASE Duplicate
  <2>1. RuledOut' /\ TablesSound'
    BY <1>6 DEF Duplicate, RuledOut, TablesSound, Probing
  <2>2. Walked' = Walked
    BY <1>6 DEF Duplicate, Building, Walked, Rows
  <2>3. PairsSound'
    BY <1>2, <1>6, <2>2 DEF Duplicate, MatchInv, PairsSound, Rows
  <2>4. FailureNamed'
    BY <1>2, <1>6, DuplicateIsNamed
  <2>5. QED
    BY <1>1, <2>1, <2>3, <2>4 DEF IInv, MatchInv
<1>7. CASE Added
  <2>1. RuledOut' /\ FailureNamed'
    BY <1>7 DEF Added, RuledOut, FailureNamed, Probing
  <2>2. \A side \in Side : Placed(side)' = Placed(side)
    BY <1>7 DEF Added, Placed, Rows
  <2>3. TablesSound'
    BY <1>2, <1>7, <2>2 DEF Added, MatchInv, TablesSound, Reachable, Path, Home, Slots
  <2>4. PairsSound'
    BY <1>2, <1>7, AddedKeepsPairs
  <2>5. QED
    BY <1>1, <2>1, <2>3, <2>4 DEF IInv, MatchInv
<1>8. CASE Pair
  <2>1. RuledOut' /\ FailureNamed'
    BY <1>8 DEF Pair, RuledOut, FailureNamed, Probing
  <2>2. \A side \in Side : Placed(side)' = Placed(side)
    BY <1>8 DEF Pair, Placed, Rows
  <2>3. TablesSound'
    BY <1>2, <1>8, <2>2 DEF Pair, MatchInv, TablesSound, Reachable, Path, Home, Slots
  <2>4. PairsSound'
    BY <1>2, <1>8, PairKeepsPairs
  <2>5. QED
    BY <1>1, <2>1, <2>3, <2>4 DEF IInv, MatchInv
<1>9. CASE EndLoop
  <2>1. RuledOut' /\ FailureNamed'
    BY <1>9 DEF EndLoop, RuledOut, FailureNamed, Probing
  <2>2. \A side \in Side : Placed(side)' = Placed(side)
    BY <1>2, <1>9 DEF EndLoop, Placed, Rows, RowSide, TypeOK
  <2>3. Walked' = Walked
    BY <1>2, <1>9 DEF EndLoop, Walked, Rows, RowSide, TypeOK
  <2>4. TablesSound' /\ PairsSound'
    BY <1>2, <1>9, <2>2, <2>3, Untouched DEF EndLoop, MatchInv
  <2>5. QED
    BY <1>1, <2>1, <2>4 DEF IInv, MatchInv
<1>10. CASE UNCHANGED vars
  BY <1>1, <1>10
     DEF vars, IInv, MatchInv, RuledOut, Probing, TableSide, RowSide, TablesSound,
         Placed, Reachable, Path, Home, Slots, PairsSound, Walked, Rows,
         FailureNamed, SameKeyRows
<1>11. QED
  BY <1>3, <1>4, <1>5, <1>6, <1>7, <1>8, <1>9, <1>10 DEF Next

\* The types, the state of the tables and the named duplicate, together inductive.
THEOREM InductiveInvariant == Spec => []IInv
BY InitIInv, NextIInv, PTL DEF Spec

-----------------------------------------------------------------------------

\* For every table size, every digest and every pair of files: the walk pairs
\* a source row and a target row when and only when they have one key.
THEOREM PairingCorrect == Spec => []PairedByKey
<1>1. IInv => PairedByKey
  BY DEF IInv, MatchInv, PairsSound, Walked, PairedByKey
<1>2. QED
  BY <1>1, InductiveInvariant, PTL

\* The duplicate key error is raised when and only when a key is repeated, and
\* names the first repetition.
THEOREM DuplicatesCorrect == Spec => []DuplicateNamed
<1>1. IInv => DuplicateNamed
  BY DEF IInv, MatchInv, TablesSound, Placed, FailureNamed, DuplicateNamed,
         SameKeyRows, Rows
<1>2. QED
  BY <1>1, InductiveInvariant, PTL

\* At every turn of the loops the tables hold the rows placed, each where a
\* probe finds it, and the pairs made so far are right.
THEOREM TablesCorrect == Spec => []MatchInv
<1>1. IInv => MatchInv
  BY DEF IInv
<1>2. QED
  BY <1>1, InductiveInvariant, PTL

-----------------------------------------------------------------------------
(* Files without.                                                          *)


Targets == Rows("target")
Sources == Rows("source")
Pairs == Moves!Paired

-----------------------------------------------------------------------------
(* The invariant of the five loops.                                        *)

\* The two maps are inverse to each other: what both matchers leave.
Inverses ==
  /\ n \in [Side -> Nat]
  /\ PairedT \in [Targets -> Sources \cup {NoRow}]
  /\ PairedS \in [Sources -> Targets \cup {NoRow}]
  /\ \A s \in Sources, t \in Targets : PairedT[t] = s <=> PairedS[s] = t

MovesType ==
  /\ moves \in {"idle", "rankSource", "rankTarget", "list", "search", "unwind", "done"}
  /\ at \in Nat /\ rank \in Nat /\ m \in Nat /\ len \in Nat /\ lo \in Nat /\ hi \in Nat
  /\ dist \in [Targets -> Int] /\ moved \in [Targets -> BOOLEAN]
  /\ jt \in [Targets -> Targets \cup {NoRow}]
  /\ tails \in [Targets -> Targets \cup {NoRow}]
  /\ prev \in [Targets -> Targets \cup {NoRow}]
  /\ k \in Targets \cup {NoRow}

\* The paired rows before target row t, and those paired before source row s.
InFront(t) == {u \in Pairs : u < t}
Below(s) == {u \in Pairs : PairedT[u] < s}

Shift(t) == Cardinality(InFront(t)) - Cardinality(Below(PairedT[t]))

\* The rank counts the paired rows gone by, and the rows gone by have theirs.
Ranked ==
  /\ moves = "idle" => at = 0 /\ rank = 0
  /\ moves = "rankSource" =>
       /\ at <= n["source"] /\ rank = Cardinality(Below(at))
       /\ \A t \in Pairs : PairedT[t] < at => dist[t] = -Cardinality(Below(PairedT[t]))
  /\ moves = "rankTarget" =>
       /\ at <= n["target"] /\ rank = Cardinality(InFront(at))
       /\ \A t \in Pairs :
            dist[t] = IF t < at THEN Shift(t) ELSE -Cardinality(Below(PairedT[t]))
  /\ moves \in {"list", "search", "unwind", "done"} => \A t \in Pairs : dist[t] = Shift(t)
  /\ \A t \in Targets \ Pairs : dist[t] = 0

\* The search is under way or over: there was something to look for.
Searched == moves \in {"search", "unwind"} \/ (moves = "done" /\ detect /\ Pairs # {})

\* Moves are looked for only when asked for, and when there are pairs.
Asked ==
  /\ moves \in {"list", "search", "unwind"} => detect
  /\ moves \notin {"idle", "done"} => Pairs # {}

\* How many target rows the list was made from.
Top == IF moves = "list" THEN at ELSE IF Searched THEN n["target"] ELSE 0

\* The list holds the paired rows of the target rows gone by, in order.
Listed ==
  /\ Top <= n["target"]
  /\ m <= Top /\ m = Cardinality(InFront(Top))
  /\ \A j \in Targets : IF j < m THEN jt[j] \in Pairs /\ jt[j] < Top ELSE jt[j] = NoRow
  /\ \A i, j \in Targets : i < j /\ j < m => jt[i] < jt[j]
  /\ \A t \in Pairs : t < Top => \E j \in Targets : j < m /\ jt[j] = t

\* The rows called moved are those listed, until the walk back clears some.
Marked ==
  /\ \A t \in Targets : moved[t] => t \in Pairs
  /\ moves # "unwind" /\ ~(moves = "done" /\ Searched) =>
       \A t \in Targets : moved[t] <=> t \in Pairs /\ t < Top

V(j) == PairedT[jt[j]]

\* How many rows of the list are on piles.
Stacked == IF moves = "search" THEN at ELSE IF Searched THEN m ELSE 0

\* c[j] is how many rows the links lead through from row j of the list.
Chain(c) ==
  /\ c \in [Targets -> Nat]
  /\ \A j \in Targets : c[j] = IF prev[j] = NoRow THEN 1 ELSE 1 + c[prev[j]]

\* The piles: a row is on pile c[j] - 1, on which the rows decrease, so that the
\* last is the least; the last of each is the tail, and the tails increase; and
\* a row is linked to a lesser one before it.
Piled(c) ==
  /\ Stacked <= m /\ len <= Stacked /\ (Stacked > 0 => len > 0)
  /\ \A p \in Targets :
       IF p < len THEN tails[p] \in 0 .. Stacked - 1 /\ c[tails[p]] = p + 1
                  ELSE tails[p] = NoRow
  /\ \A p, q \in Targets : p < q /\ q < len => V(tails[p]) < V(tails[q])
  /\ \A j \in Targets : prev[j] # NoRow => prev[j] < j /\ j < Stacked /\ V(prev[j]) < V(j)
  /\ \A j \in Targets : j < Stacked => c[j] \in 1 .. len /\ V(tails[c[j] - 1]) <= V(j)
  /\ \A i, j \in Targets : i < j /\ j < Stacked /\ c[i] = c[j] => V(j) < V(i)

\* What the binary search has found out.
Sought ==
  /\ lo <= hi /\ hi <= len
  /\ moves = "search" /\ at < m =>
       \A p \in Targets : /\ p < lo => V(tails[p]) < V(at)
                          /\ p >= hi /\ p < len => V(at) < V(tails[p])

\* The walk back has kept the rows behind row k of its chain, which increase.
Unwound(c) ==
  /\ moves = "unwind" =>
       /\ k \in Targets /\ k < m
       /\ Moves!Increasing(Moves!Kept)
       /\ \A t \in Moves!Kept : jt[k] < t /\ V(k) < PairedT[t]
       /\ Cardinality(Moves!Kept) = len - c[k]
  /\ moves = "done" /\ Searched =>
       Moves!Increasing(Moves!Kept) /\ Cardinality(Moves!Kept) = len

\* What is known of the piles, whichever way the chains are counted.
PilesKnown == Sought /\ \E c : Chain(c) /\ Piled(c) /\ Unwound(c)

MovesInv == MovesType /\ Ranked /\ Asked /\ Listed /\ Marked /\ PilesKnown

\* A step of detect_moves leaves its input alone.
Frame == n' = n /\ PairedT' = PairedT /\ PairedS' = PairedS /\ detect' = detect

-----------------------------------------------------------------------------
(* The paired rows and how many of them there are.                         *)

USE DEF NoRow, Moves!NoRow

\* A paired row is a target row, and its source row names it.
LEMMA PairsAre ==
  ASSUME Inverses
  PROVE  /\ Pairs \subseteq Targets /\ Targets \subseteq Nat /\ Sources \subseteq Nat
         /\ n["source"] \in Nat /\ n["target"] \in Nat
         /\ \A t \in Pairs : PairedT[t] \in Sources /\ PairedS[PairedT[t]] = t
         /\ \A t, u \in Pairs : PairedT[t] = PairedT[u] => t = u
         /\ \A s \in Sources : PairedS[s] # NoRow => PairedS[s] \in Pairs /\ PairedT[PairedS[s]] = s
         /\ IsFiniteSet(Pairs) /\ IsFiniteSet(Targets)
<1>1. n["source"] \in Nat /\ n["target"] \in Nat
  BY DEF Inverses, Side
<1>2. Pairs \subseteq Targets
  BY DEF Pairs, Moves!Paired, Moves!Rows, Targets, Rows
<1>3. Targets \subseteq Nat /\ Sources \subseteq Nat
  BY <1>1 DEF Targets, Sources, Rows
<1>4. \A t \in Pairs : PairedT[t] \in Sources
  BY <1>2 DEF Inverses, Pairs, Moves!Paired
<1>5. \A t \in Pairs : PairedS[PairedT[t]] = t
  BY <1>2, <1>4 DEF Inverses
<1>6. \A s \in Sources : PairedS[s] # NoRow => PairedS[s] \in Targets /\ PairedT[PairedS[s]] = s
  BY DEF Inverses
<1>7. \A s \in Sources : s # NoRow
  BY <1>3 DEF NoRow
<1>8. \A s \in Sources : PairedS[s] # NoRow => PairedS[s] \in Pairs
  BY <1>6, <1>7 DEF Pairs, Moves!Paired, Moves!Rows, Targets, Rows
<1>9. IsFiniteSet(Targets)
  <2>1. IsFiniteSet(0 .. n["target"] - 1)
    BY <1>1, FS_Interval
  <2> QED BY <2>1 DEF Targets, Rows
<1>10. IsFiniteSet(Pairs)
  BY <1>2, <1>9, FS_Subset
<1> QED
  BY <1>1, <1>2, <1>3, <1>4, <1>5, <1>6, <1>8, <1>9, <1>10

\* The paired rows before the next row.
LEMMA InFrontNext ==
  ASSUME Inverses, NEW t \in Targets
  PROVE  /\ Cardinality(InFront(t)) \in Nat
         /\ Cardinality(InFront(t + 1)) =
              IF t \in Pairs THEN Cardinality(InFront(t)) + 1 ELSE Cardinality(InFront(t))
<1>1. Pairs \subseteq Nat /\ IsFiniteSet(Pairs) /\ t \in Nat
  BY PairsAre
<1>2. InFront(t) \in SUBSET Pairs /\ t \notin InFront(t)
  BY <1>1 DEF InFront
<1>3. IsFiniteSet(InFront(t))
  BY <1>1, <1>2, FS_Subset
<1>4. InFront(t + 1) = IF t \in Pairs THEN InFront(t) \cup {t} ELSE InFront(t)
  <2>1. \A u \in Pairs : u < t + 1 <=> u < t \/ u = t
    BY <1>1
  <2> QED BY <1>1, <2>1 DEF InFront
<1>5. Cardinality(InFront(t)) \in Nat
  BY <1>3, FS_CardinalityType
<1>6. Cardinality(InFront(t) \cup {t}) = Cardinality(InFront(t)) + 1
  BY <1>2, <1>3, FS_AddElement
<1> QED
  BY <1>4, <1>5, <1>6

\* The rows paired before the next source row.
LEMMA BelowNext ==
  ASSUME Inverses, NEW s \in Sources
  PROVE  /\ Cardinality(Below(s)) \in Nat
         /\ Cardinality(Below(s + 1)) =
              IF PairedS[s] # NoRow THEN Cardinality(Below(s)) + 1 ELSE Cardinality(Below(s))
<1>1. Pairs \subseteq Nat /\ IsFiniteSet(Pairs) /\ s \in Nat /\ Sources \subseteq Nat
  BY PairsAre
<1>2. \A u \in Pairs : PairedT[u] \in Nat /\ (PairedT[u] < s + 1 <=> PairedT[u] < s \/ PairedT[u] = s)
  <2>1. \A x \in Nat : x < s + 1 <=> x < s \/ x = s
    BY <1>1
  <2>2. \A u \in Pairs : PairedT[u] \in Nat
    BY <1>1, PairsAre
  <2> QED BY <2>1, <2>2
<1>3. Below(s) \in SUBSET Pairs /\ PairedS[s] \notin Below(s)
  BY <1>1, PairsAre DEF Below
<1>4. IsFiniteSet(Below(s))
  BY <1>1, <1>3, FS_Subset
<1>5. \A u \in Pairs : PairedT[u] = s <=> PairedS[s] = u
  BY PairsAre DEF Inverses
<1>6. PairedS[s] # NoRow => PairedS[s] \in Pairs
  BY PairsAre
<1>7. CASE PairedS[s] # NoRow
  <2>1. Below(s + 1) = Below(s) \cup {PairedS[s]}
    BY <1>2, <1>5, <1>6, <1>7 DEF Below
  <2>2. Cardinality(Below(s) \cup {PairedS[s]}) = Cardinality(Below(s)) + 1
    BY <1>3, <1>4, FS_AddElement
  <2> QED BY <1>4, <1>7, <2>1, <2>2, FS_CardinalityType
<1>8. CASE PairedS[s] = NoRow
  <2>1. NoRow \notin Pairs
    BY <1>1 DEF NoRow
  <2>2. Below(s + 1) = Below(s)
    BY <1>2, <1>5, <1>8, <2>1 DEF Below
  <2> QED BY <1>4, <1>8, <2>2, FS_CardinalityType
<1> QED
  BY <1>7, <1>8

-----------------------------------------------------------------------------
(* The ranks and the distances.                                            *)

\* What a step that keeps the input keeps.
LEMMA FrameKeeps ==
  ASSUME Frame
  PROVE  /\ Targets' = Targets /\ Sources' = Sources /\ Pairs' = Pairs
         /\ \A t : InFront(t)' = InFront(t) /\ Below(t)' = Below(t) /\ Shift(t)' = Shift(t)
         /\ n' = n /\ PairedT' = PairedT /\ PairedS' = PairedS /\ detect' = detect
         /\ Inverses => Inverses'
BY DEF Frame, Targets, Sources, Rows, Pairs, Moves!Paired, Moves!Rows, InFront, Below, Shift,
       Inverses

\* A shift and its two parts are integers.
LEMMA ShiftType ==
  ASSUME Inverses, NEW t \in Pairs
  PROVE  /\ Cardinality(InFront(t)) \in Nat /\ Cardinality(Below(PairedT[t])) \in Nat
         /\ Shift(t) = Cardinality(InFront(t)) - Cardinality(Below(PairedT[t]))
         /\ Shift(t) \in Int
<1>1. t \in Targets /\ PairedT[t] \in Sources
  BY PairsAre
<1>2. Cardinality(InFront(t)) \in Nat /\ Cardinality(Below(PairedT[t])) \in Nat
  BY <1>1, InFrontNext, BelowNext
<1> QED
  BY <1>2 DEF Shift

\* With no row gone by the ranks are zero.
LEMMA NoneBefore ==
  ASSUME Inverses
  PROVE  Cardinality(InFront(0)) = 0 /\ Cardinality(Below(0)) = 0
<1>1. Pairs \subseteq Nat /\ \A u \in Pairs : PairedT[u] \in Nat
  BY PairsAre
<1>2. InFront(0) = {} /\ Below(0) = {}
  <2>1. \A x \in Nat : ~(x < 0)
    OBVIOUS
  <2> QED BY <1>1, <2>1 DEF InFront, Below
<1> QED
  BY <1>2, FS_EmptySet

\* A turn of the source pass.
LEMMA RankSourceKeeps ==
  ASSUME Inverses, MovesType, Ranked, Frame, Moves!RankSource
  PROVE  Ranked'
<1>1. /\ moves = "rankSource" /\ moves' = moves /\ at < n["source"] /\ at' = at + 1
      /\ IF PairedS[at] = NoRow THEN rank' = rank /\ dist' = dist
         ELSE dist' = [dist EXCEPT ![PairedS[at]] = -rank] /\ rank' = rank + 1
  BY DEF Moves!RankSource
<1>2. at \in Sources /\ at \in Nat /\ n["source"] \in Nat /\ dist \in [Targets -> Int]
  BY <1>1, PairsAre DEF MovesType, Sources, Rows
<1>3. /\ rank = Cardinality(Below(at))
      /\ \A t \in Pairs : PairedT[t] < at => dist[t] = -Cardinality(Below(PairedT[t]))
      /\ \A t \in Targets \ Pairs : dist[t] = 0
  BY <1>1 DEF Ranked
<1>4. rank' = Cardinality(Below(at + 1))
  BY <1>1, <1>2, <1>3, BelowNext
<1>5. ASSUME NEW t \in Pairs, PairedT[t] < at + 1
      PROVE  dist'[t] = -Cardinality(Below(PairedT[t]))
  <2>1. t \in Targets /\ PairedT[t] \in Nat /\ PairedS[PairedT[t]] = t /\ t # NoRow
    BY PairsAre
  <2>2. CASE PairedT[t] < at
    <3>1. PairedT[t] # at
      BY <2>1, <2>2, <1>2
    <3>2. PairedS[at] # t
      <4>1. PairedS[at] = t => PairedT[t] = at
        BY <1>2, <2>1, PairsAre
      <4> QED BY <3>1, <4>1
    <3>3. dist'[t] = dist[t]
      BY <1>1, <1>2, <2>1, <3>2
    <3> QED BY <1>3, <2>2, <3>3
  <2>3. CASE PairedT[t] = at
    BY <1>1, <1>2, <1>3, <2>1, <2>3
  <2> QED BY <1>2, <1>5, <2>1, <2>2, <2>3
<1>6. ASSUME NEW t \in Targets \ Pairs PROVE dist'[t] = 0
  <2>1. PairedS[at] # NoRow => PairedS[at] # t
    BY <1>2, PairsAre
  <2>2. dist'[t] = dist[t]
    BY <1>1, <1>2, <2>1
  <2> QED BY <1>3, <2>2
<1>7. at' <= n["source"]
  BY <1>1, <1>2
<1>8. /\ at' <= n'["source"] /\ rank' = Cardinality(Below(at)')
      /\ \A t \in Pairs' : PairedT'[t] < at' => dist'[t] = -Cardinality(Below(PairedT[t])')
      /\ \A t \in Targets' \ Pairs' : dist'[t] = 0
  <2>1. Below(at)' = Below(at + 1) /\ \A t : Below(PairedT[t])' = Below(PairedT[t])
    BY <1>1, FrameKeeps DEF Below
  <2> QED BY <1>1, <1>4, <1>5, <1>6, <1>7, <2>1, FrameKeeps
<1> QED
  BY <1>1, <1>8 DEF Ranked

\* A turn of the target pass.
LEMMA RankTargetKeeps ==
  ASSUME Inverses, MovesType, Ranked, Frame, Moves!RankTarget
  PROVE  Ranked'
<1>1. /\ moves = "rankTarget" /\ moves' = moves /\ at < n["target"] /\ at' = at + 1
      /\ IF PairedT[at] = NoRow THEN rank' = rank /\ dist' = dist
         ELSE dist' = [dist EXCEPT ![at] = @ + rank] /\ rank' = rank + 1
  BY DEF Moves!RankTarget
<1>2. at \in Targets /\ at \in Nat /\ n["target"] \in Nat /\ dist \in [Targets -> Int]
  BY <1>1, PairsAre DEF MovesType, Targets, Rows
<1>3. /\ rank = Cardinality(InFront(at))
      /\ \A t \in Pairs :
           dist[t] = IF t < at THEN Shift(t) ELSE -Cardinality(Below(PairedT[t]))
      /\ \A t \in Targets \ Pairs : dist[t] = 0
  BY <1>1 DEF Ranked
<1>a. at \in Pairs <=> PairedT[at] # NoRow
  BY <1>2 DEF Pairs, Moves!Paired, Moves!Rows, Targets, Rows
<1>4. rank' = Cardinality(InFront(at + 1))
  BY <1>1, <1>2, <1>3, <1>a, InFrontNext
<1>5. ASSUME NEW t \in Pairs
      PROVE  dist'[t] = IF t < at + 1 THEN Shift(t) ELSE -Cardinality(Below(PairedT[t]))
  <2>1. t \in Targets /\ t \in Nat
    BY PairsAre
  <2>2. CASE t # at
    <3>1. dist'[t] = dist[t]
      BY <1>1, <1>2, <2>1, <2>2
    <3>2. t < at + 1 <=> t < at
      BY <1>2, <2>1, <2>2
    <3> QED BY <1>3, <3>1, <3>2
  <2>3. CASE t = at
    <3>1. dist'[t] = dist[t] + rank
      BY <1>1, <1>2, <2>3, <1>a
    <3>2. dist[t] = -Cardinality(Below(PairedT[t])) /\ t < at + 1
      BY <1>2, <1>3, <2>3
    <3>3. rank = Cardinality(InFront(t))
      BY <1>3, <2>3
    <3> QED BY <3>1, <3>2, <3>3, ShiftType
  <2> QED BY <2>2, <2>3
<1>6. ASSUME NEW t \in Targets \ Pairs PROVE dist'[t] = 0
  <2>1. dist'[t] = dist[t]
    BY <1>1, <1>2, <1>6, <1>a
  <2> QED BY <1>3, <2>1
<1>7. at' <= n["target"]
  BY <1>1, <1>2
<1>8. /\ at' <= n'["target"] /\ rank' = Cardinality(InFront(at)')
      /\ \A t \in Pairs' :
           dist'[t] = IF t < at' THEN Shift(t)' ELSE -Cardinality(Below(PairedT[t])')
      /\ \A t \in Targets' \ Pairs' : dist'[t] = 0
  <2>1. InFront(at)' = InFront(at + 1) /\ \A t : Below(PairedT[t])' = Below(PairedT[t])
    BY <1>1, FrameKeeps DEF Below, InFront
  <2> QED BY <1>1, <1>4, <1>5, <1>6, <1>7, <2>1, FrameKeeps
<1> QED
  BY <1>1, <1>8 DEF Ranked

\* Every turn keeps what is known of ranks and distances.
LEMMA RankedKept ==
  ASSUME Inverses, MovesType, Ranked, Frame, Moves!Next
  PROVE  Ranked'
<1>1. CASE Moves!RankSource
  BY <1>1, RankSourceKeeps
<1>2. CASE Moves!RankTarget
  BY <1>2, RankTargetKeeps
<1>3. CASE Moves!Begin
  <2>1. /\ moves = "idle" /\ at' = at /\ rank' = rank /\ dist' = dist
        /\ moves' = IF Pairs = {} THEN "done" ELSE "rankSource"
    BY <1>3 DEF Moves!Begin, Moves!marks, Pairs
  <2>2. at = 0 /\ rank = 0 /\ \A t \in Targets \ Pairs : dist[t] = 0
    BY <2>1 DEF Ranked
  <2>3. rank' = Cardinality(Below(at)')
    <3>1. Below(at)' = Below(0)
      BY <2>1, <2>2, FrameKeeps DEF Below
    <3> QED BY <2>1, <2>2, <3>1, NoneBefore
  <2>4. \A t \in Pairs' : ~(PairedT'[t] < at')
    <3>1. \A x \in Nat : ~(x < 0)
      OBVIOUS
    <3> QED BY <2>1, <2>2, <3>1, FrameKeeps, PairsAre
  <2>5. at' <= n'["source"]
    BY <2>1, <2>2, FrameKeeps, PairsAre
  <2>6. \A t \in Targets' \ Pairs' : dist'[t] = 0
    BY <2>1, <2>2, FrameKeeps
  <2>7. moves' = "done" => Pairs' = {}
    BY <2>1, FrameKeeps
  <2> QED BY <2>1, <2>3, <2>4, <2>5, <2>6, <2>7 DEF Ranked
<1>4. CASE Moves!EndRank
  <2>1. /\ at' = 0 /\ rank' = 0 /\ dist' = dist
        /\ \/ moves = "rankSource" /\ at = n["source"] /\ moves' = "rankTarget"
           \/ moves = "rankTarget" /\ at = n["target"] /\ moves' \in {"list", "done"}
    BY <1>4 DEF Moves!EndRank, Moves!marks
  <2>2. \A t \in Targets' \ Pairs' : dist'[t] = 0
    BY <2>1, FrameKeeps DEF Ranked
  <2>3. CASE moves = "rankSource"
    <3>1. \A t \in Pairs : dist[t] = -Cardinality(Below(PairedT[t]))
      <4>1. \A t \in Pairs : PairedT[t] < at
        BY <2>1, <2>3, PairsAre DEF Sources, Rows
      <4> QED BY <2>3, <4>1 DEF Ranked
    <3>2. \A t \in Pairs : t \in Nat /\ ~(t < 0)
      BY PairsAre
    <3>3. \A t \in Pairs' :
            dist'[t] = IF t < at' THEN Shift(t)' ELSE -Cardinality(Below(PairedT[t])')
      <4>1. \A t : Below(PairedT[t])' = Below(PairedT[t])
        BY FrameKeeps DEF Below
      <4> QED BY <2>1, <3>1, <3>2, <4>1, FrameKeeps
    <3>4. at' <= n'["target"]
      BY <2>1, FrameKeeps, PairsAre
    <3>5. rank' = Cardinality(InFront(at)')
      <4>1. InFront(at)' = InFront(0)
        BY <2>1, FrameKeeps DEF InFront
      <4> QED BY <2>1, <4>1, NoneBefore
    <3> QED BY <2>1, <2>2, <2>3, <3>3, <3>4, <3>5 DEF Ranked
  <2>4. CASE moves = "rankTarget"
    <3>1. \A t \in Pairs : t < at
      BY <2>1, <2>4, PairsAre DEF Targets, Rows
    <3>2. \A t \in Pairs : dist[t] = Shift(t)
      BY <2>4, <3>1 DEF Ranked
    <3>3. \A t \in Pairs' : dist'[t] = Shift(t)'
      BY <2>1, <3>2, FrameKeeps
    <3> QED BY <2>1, <2>2, <2>4, <3>3 DEF Ranked
  <2> QED BY <2>1, <2>3, <2>4
<1>5. CASE \/ Moves!List \/ Moves!EndList \/ Moves!Halve \/ Moves!Put \/ Moves!EndSearch
           \/ Moves!Unwind
  <2>1. /\ moves \in {"list", "search", "unwind"} /\ dist' = dist
        /\ moves' \in {"list", "search", "unwind", "done"}
    BY <1>5 DEF Moves!List, Moves!EndList, Moves!Halve, Moves!Put, Moves!EndSearch,
                Moves!Unwind, Moves!marks
  <2>2. /\ \A t \in Pairs : dist[t] = Shift(t)
        /\ \A t \in Targets \ Pairs : dist[t] = 0
    BY <2>1 DEF Ranked
  <2>3. /\ \A t \in Pairs' : dist'[t] = Shift(t)'
        /\ \A t \in Targets' \ Pairs' : dist'[t] = 0
    BY <2>1, <2>2, FrameKeeps
  <2> QED BY <2>1, <2>3 DEF Ranked
<1> QED
  BY <1>1, <1>2, <1>3, <1>4, <1>5 DEF Moves!Next

-----------------------------------------------------------------------------
(* The list of paired rows, and the rows called moved.                     *)

\* Every turn that looks for moves was asked to.
LEMMA AskedKept ==
  ASSUME MovesType, Asked, Frame, Moves!Next
  PROVE  Asked'
<1> USE DEF Asked, MovesType
<1>1. CASE Moves!Begin
  BY <1>1, FrameKeeps DEF Moves!Begin, Pairs
<1>2. CASE Moves!EndRank
  BY <1>2, FrameKeeps DEF Moves!EndRank
<1>3. CASE moves' = moves
  BY <1>3, FrameKeeps
<1>4. CASE Moves!EndList \/ Moves!EndSearch \/ Moves!Unwind
  BY <1>4, FrameKeeps DEF Moves!EndList, Moves!EndSearch, Moves!Unwind
<1> QED
  BY <1>1, <1>2, <1>3, <1>4 DEF Moves!Next, Moves!RankSource, Moves!RankTarget, Moves!List,
     Moves!Halve, Moves!Put

\* What a step that keeps the list and its end keeps.
LEMMA ListedSame ==
  ASSUME Listed, Frame, m' = m, jt' = jt, Top' = Top
  PROVE  Listed'
<1>1. InFront(Top)' = InFront(Top)
  BY FrameKeeps DEF InFront
<1> QED
  BY <1>1, FrameKeeps DEF Listed

\* No step but one of List moves the end of the list.
LEMMA TopKept ==
  ASSUME Inverses, MovesType, Asked, Frame, Moves!Next, ~Moves!List
  PROVE  Top' = Top /\ m' = m /\ jt' = jt
<1> USE DEF Top, Searched
<1>1. CASE Moves!Begin
  BY <1>1, FrameKeeps DEF Moves!Begin, Moves!list, Pairs
<1>2. CASE Moves!RankSource \/ Moves!RankTarget \/ Moves!Halve \/ Moves!Put
  BY <1>2, FrameKeeps DEF Moves!RankSource, Moves!RankTarget, Moves!Halve, Moves!Put, Moves!list
<1>3. CASE Moves!EndRank
  BY <1>3, FrameKeeps DEF Moves!EndRank, Moves!list
<1>4. CASE Moves!EndList
  BY <1>4, FrameKeeps DEF Moves!EndList, Moves!list
<1>5. CASE Moves!EndSearch
  BY <1>5, FrameKeeps DEF Moves!EndSearch, Moves!list
<1>6. CASE Moves!Unwind
  BY <1>6, FrameKeeps DEF Moves!Unwind, Moves!list, Asked
<1> QED
  BY <1>1, <1>2, <1>3, <1>4, <1>5, <1>6 DEF Moves!Next

\* A turn of List appends a paired row to the list, and calls it moved.
LEMMA ListKeeps ==
  ASSUME Inverses, MovesType, Asked, Listed, Marked, Frame, Moves!List
  PROVE  Listed' /\ Marked'
<1>1. /\ moves = "list" /\ moves' = "list" /\ at < n["target"] /\ at' = at + 1
      /\ IF PairedT[at] = NoRow THEN m' = m /\ jt' = jt /\ moved' = moved
         ELSE /\ jt' = [jt EXCEPT ![m] = at] /\ m' = m + 1
              /\ moved' = [moved EXCEPT ![at] = TRUE]
  BY DEF Moves!List, Moves!list
<1>2. at \in Targets /\ at \in Nat /\ n["target"] \in Nat /\ m \in Nat
  BY <1>1, PairsAre DEF MovesType, Targets, Rows
<1>3. Top = at /\ Top' = at + 1 /\ ~Searched /\ ~Searched'
  BY <1>1 DEF Top, Searched
<1>4. at \in Pairs <=> PairedT[at] # NoRow
  BY <1>2 DEF Pairs, Moves!Paired, Moves!Rows, Targets, Rows
<1>5. Pairs \subseteq Nat /\ Pairs \subseteq Targets /\ Targets \subseteq Nat
  BY PairsAre
<1>6. Targets = 0 .. n["target"] - 1
  BY DEF Targets, Rows
<1>7. /\ m <= at /\ m = Cardinality(InFront(at))
      /\ \A j \in Targets : IF j < m THEN jt[j] \in Pairs /\ jt[j] < at ELSE jt[j] = NoRow
      /\ \A i, j \in Targets : i < j /\ j < m => jt[i] < jt[j]
      /\ \A t \in Pairs : t < at => \E j \in Targets : j < m /\ jt[j] = t
  BY <1>3 DEF Listed
<1>8. m \in Targets /\ jt \in [Targets -> Targets \cup {NoRow}]
  BY <1>1, <1>2, <1>6, <1>7 DEF MovesType
<1>9. m' = Cardinality(InFront(at + 1)) /\ m' <= at + 1 /\ at + 1 <= n["target"]
  BY <1>1, <1>2, <1>4, <1>7, InFrontNext
<1>10. ASSUME NEW j \in Targets
       PROVE  IF j < m' THEN jt'[j] \in Pairs /\ jt'[j] < at + 1 ELSE jt'[j] = NoRow
  <2>1. CASE at \in Pairs /\ j = m
    BY <1>1, <1>2, <1>4, <1>8, <2>1
  <2>2. CASE at \in Pairs /\ j # m
    <3>1. jt'[j] = jt[j] /\ (j < m' <=> j < m)
      BY <1>1, <1>2, <1>4, <1>5, <1>8, <2>2
    <3>2. jt[j] \in Pairs /\ jt[j] < at => jt[j] < at + 1
      <4>1. \A x \in Nat : x < at => x < at + 1
        BY <1>2
      <4> QED BY <1>5, <4>1, Zenon
    <3> QED BY <1>7, <3>1, <3>2
  <2>3. CASE at \notin Pairs
    <3>1. jt' = jt /\ m' = m
      BY <1>1, <1>4, <2>3
    <3>2. jt[j] \in Pairs /\ jt[j] < at => jt[j] < at + 1
      <4>1. \A x \in Nat : x < at => x < at + 1
        BY <1>2
      <4> QED BY <1>5, <4>1, Zenon
    <3> QED BY <1>7, <3>1, <3>2
  <2> QED BY <2>1, <2>2, <2>3
<1>11. ASSUME NEW i \in Targets, NEW j \in Targets, i < j, j < m'
       PROVE  jt'[i] < jt'[j]
  <2>1. CASE at \in Pairs /\ j = m
    <3>1. i < m /\ i # m /\ jt'[i] = jt[i] /\ jt'[j] = at
      BY <1>1, <1>2, <1>4, <1>5, <1>8, <1>11, <2>1
    <3> QED BY <1>7, <3>1
  <2>2. CASE at \in Pairs /\ j # m
    <3>1. jt'[j] = jt[j] /\ j < m /\ i # m /\ jt'[i] = jt[i]
      BY <1>1, <1>2, <1>4, <1>5, <1>8, <1>11, <2>2
    <3> QED BY <1>7, <1>11, <3>1
  <2>3. CASE at \notin Pairs
    BY <1>1, <1>4, <1>7, <1>11, <2>3
  <2> QED BY <2>1, <2>2, <2>3
<1>12. ASSUME NEW t \in Pairs, t < at + 1
       PROVE  \E j \in Targets : j < m' /\ jt'[j] = t
  <2>1. CASE t = at
    <3>1. m < m' /\ jt'[m] = t
      BY <1>1, <1>2, <1>4, <1>8, <2>1
    <3> QED BY <1>8, <3>1
  <2>2. CASE t # at
    <3>1. t < at
      BY <1>2, <1>5, <1>12, <2>2
    <3>2. PICK j \in Targets : j < m /\ jt[j] = t
      BY <1>7, <3>1
    <3>3. j < m' /\ jt'[j] = jt[j]
      BY <1>1, <1>2, <1>5, <1>8, <3>2
    <3> QED BY <3>2, <3>3
  <2> QED BY <2>1, <2>2
<1>13. Listed'
  <2>1. InFront(Top)' = InFront(at + 1)
    BY <1>3, FrameKeeps DEF InFront
  <2>2. /\ Top' <= n'["target"] /\ m' <= Top' /\ m' = Cardinality(InFront(Top)')
        /\ \A j \in Targets' : IF j < m' THEN jt'[j] \in Pairs' /\ jt'[j] < Top' ELSE jt'[j] = NoRow
        /\ \A i, j \in Targets' : i < j /\ j < m' => jt'[i] < jt'[j]
        /\ \A t \in Pairs' : t < Top' => \E j \in Targets' : j < m' /\ jt'[j] = t
    BY <1>3, <1>9, <1>10, <1>11, <1>12, <2>1, FrameKeeps
  <2> QED BY <2>2 DEF Listed
<1>14. ASSUME NEW t \in Targets PROVE moved'[t] <=> t \in Pairs /\ t < at + 1
  <2>1. moved[t] <=> t \in Pairs /\ t < at
    BY <1>1, <1>3 DEF Marked
  <2>2. CASE t = at
    BY <1>1, <1>2, <1>4, <2>1, <2>2 DEF MovesType
  <2>3. CASE t # at
    <3>1. moved'[t] = moved[t]
      BY <1>1, <2>3 DEF MovesType
    <3> QED BY <1>2, <1>5, <2>1, <2>3, <3>1
  <2> QED BY <2>2, <2>3
<1>15. Marked'
  BY <1>1, <1>3, <1>14, FrameKeeps DEF Marked
<1> QED
  BY <1>13, <1>15

\* Every turn keeps the list.
LEMMA ListedKept ==
  ASSUME Inverses, MovesType, Asked, Listed, Marked, Frame, Moves!Next
  PROVE  Listed'
BY ListKeeps, TopKept, ListedSame

\* Every turn keeps what is known of the rows called moved.
LEMMA MarkedKept ==
  ASSUME Inverses, MovesType, Asked, Listed, Marked, Frame, Moves!Next,
         moves = "unwind" => k \in Targets
  PROVE  Marked'
<1>1. CASE Moves!List
  BY <1>1, ListKeeps
<1>2. CASE ~Moves!List /\ ~Moves!Unwind
  <2>1. Top' = Top /\ moved' = moved
    BY <1>2, TopKept DEF Moves!Next, Moves!Begin, Moves!RankSource, Moves!RankTarget, Moves!EndRank,
       Moves!EndList, Moves!Halve, Moves!Put, Moves!EndSearch, Moves!marks
  <2>2. moves # "unwind" /\ ~(moves = "done" /\ Searched)
    BY <1>2 DEF Moves!Next, Moves!Begin, Moves!RankSource, Moves!RankTarget, Moves!EndRank,
       Moves!EndList, Moves!Halve, Moves!Put, Moves!EndSearch
  <2> QED BY <2>1, <2>2, FrameKeeps DEF Marked
<1>3. CASE Moves!Unwind
  <2>1. /\ moves = "unwind" /\ moves' \in {"unwind", "done"}
        /\ moved' = [moved EXCEPT ![jt[k]] = FALSE]
    BY <1>3 DEF Moves!Unwind
  <2>2. detect /\ Pairs # {}
    BY <2>1 DEF Asked
  <2>3. moves' = "unwind" \/ (moves' = "done" /\ Searched')
    BY <2>1, <2>2, FrameKeeps DEF Searched
  <2>4. \A t \in Targets : moved'[t] => moved[t]
    BY <2>1 DEF MovesType
  <2> QED BY <2>3, <2>4, FrameKeeps DEF Marked
<1> QED
  BY <1>1, <1>2, <1>3

-----------------------------------------------------------------------------
(* The piles.                                                              *)

\* The rows listed have source rows, each its own.
LEMMA Values ==
  ASSUME Inverses, Listed
  PROVE  /\ \A j \in Targets : j < m => V(j) \in Nat /\ V(j) \in Sources /\ jt[j] \in Pairs
         /\ \A i, j \in Targets : i < m /\ j < m /\ V(i) = V(j) => i = j
<1>1. \A j \in Targets : j < m => jt[j] \in Pairs
  BY DEF Listed
<1>2. \A j \in Targets : j < m => V(j) \in Sources
  BY <1>1, PairsAre DEF V
<1>3. ASSUME NEW i \in Targets, NEW j \in Targets, i < m, j < m, V(i) = V(j), i # j PROVE FALSE
  <2>1. jt[i] = jt[j] /\ jt[i] \in Nat
    BY <1>1, <1>3, PairsAre DEF V
  <2>2. i < j \/ j < i
    BY <1>3, PairsAre
  <2>3. jt[i] < jt[j] \/ jt[j] < jt[i]
    BY <1>3, <2>2 DEF Listed
  <2> QED BY <2>1, <2>3
<1> QED
  BY <1>2, <1>3, <1>1, PairsAre

\* A step that keeps the list keeps what it says.
LEMMA ValuesKept ==
  ASSUME Frame, jt' = jt
  PROVE  \A j : V(j)' = V(j)
BY FrameKeeps DEF V

\* While there is no pile there is nothing to know of the piles.
LEMMA NoPiles ==
  ASSUME Inverses, MovesType, Frame, PilesKnown, Stacked = 0, Stacked' = 0, moves' # "unwind",
         ~(moves' = "done" /\ Searched'),
         UNCHANGED <<len, tails, prev>>, lo' = 0, hi' = 0, m' \in Nat
  PROVE  PilesKnown'
<1>1. PICK c : Chain(c) /\ Piled(c)
  BY DEF PilesKnown
<1>2. len = 0 /\ len' = 0
  BY <1>1 DEF Piled, MovesType
<1>3. Chain(c)'
  BY <1>1, FrameKeeps DEF Chain
<1>4. Targets \subseteq Nat
  BY PairsAre
<1>5. Piled(c)'
  <2>1. \A x \in Nat : ~(x < 0)
    OBVIOUS
  <2>2. \A j \in Targets : prev[j] = NoRow /\ tails[j] = NoRow
    BY <1>1, <1>2, <1>4, <2>1 DEF Piled
  <2>3. \A j \in Targets' : prev'[j] = NoRow /\ tails'[j] = NoRow /\ ~(j < Stacked') /\ ~(j < len')
    BY <1>2, <1>4, <2>1, <2>2, FrameKeeps
  <2>4. Stacked' <= m' /\ len' <= Stacked' /\ ~(Stacked' > 0)
    BY <1>2
  <2> QED BY <2>3, <2>4 DEF Piled
<1>6. Sought'
  <2>1. \A x \in Nat : ~(x < 0)
    OBVIOUS
  <2>2. \A p \in Targets' : ~(p < lo') /\ ~(p < len')
    BY <1>2, <1>4, <2>1, FrameKeeps
  <2>3. lo' <= hi' /\ hi' <= len'
    BY <1>2
  <2> QED BY <2>2, <2>3 DEF Sought
<1>7. Unwound(c)'
  BY DEF Unwound
<1> QED
  BY <1>3, <1>5, <1>6, <1>7 DEF PilesKnown

\* Where the middle of a range lies.
LEMMA Middle ==
  ASSUME NEW a \in Nat, NEW b \in Nat, a < b
  PROVE  a + (b - a) \div 2 \in Nat /\ a <= a + (b - a) \div 2 /\ a + (b - a) \div 2 < b
OBVIOUS

\* A halving of the search.
LEMMA HalveKeeps ==
  ASSUME Inverses, MovesType, Listed, PilesKnown, Frame, Moves!Halve
  PROVE  PilesKnown'
<1>1. /\ moves = "search" /\ moves' = moves /\ at < m /\ lo < hi
      /\ IF V(tails[Moves!Mid]) < V(at) THEN lo' = Moves!Mid + 1 /\ hi' = hi
         ELSE hi' = Moves!Mid /\ lo' = lo
      /\ UNCHANGED <<at, m, jt, len, tails, prev>>
  BY DEF Moves!Halve, Moves!Value, V, Moves!list, Moves!piles
<1>2. Moves!Mid \in Nat /\ lo <= Moves!Mid /\ Moves!Mid < hi
  BY <1>1, Middle DEF Moves!Mid, MovesType
<1>3. PICK c : Chain(c) /\ Piled(c) /\ Unwound(c)
  BY DEF PilesKnown
<1>4. /\ lo \in Nat /\ hi \in Nat /\ len \in Nat /\ at \in Nat /\ m \in Nat
      /\ lo <= hi /\ hi <= len /\ len <= at /\ at < m /\ m <= n["target"]
  <2>1. Stacked = at /\ Top = n["target"] /\ n["target"] \in Nat
    BY <1>1, PairsAre DEF Stacked, Top, Searched
  <2> QED BY <1>1, <1>3, <2>1 DEF MovesType, PilesKnown, Sought, Piled, Listed
<1>a. at \in Targets /\ Moves!Mid \in Targets /\ Targets \subseteq Nat
  BY <1>2, <1>4, PairsAre DEF Targets, Rows
<1>5. \A p \in Targets : p < len => tails[p] \in Targets /\ V(tails[p]) \in Nat
  <2>1. Stacked = at
    BY <1>1 DEF Stacked
  <2>2. \A p \in Targets : p < len => tails[p] \in 0 .. at - 1
    BY <1>3, <2>1 DEF Piled
  <2>3. \A x \in 0 .. at - 1 : x \in Targets /\ x < m
    BY <1>4, PairsAre DEF Targets, Rows
  <2> QED BY <2>2, <2>3, Values
<1>b. V(at) \in Nat
  BY <1>1, <1>a, Values
<1>6. ASSUME NEW p \in Targets
      PROVE  /\ p < lo' => V(tails[p]) < V(at)
             /\ p >= hi' /\ p < len => V(at) < V(tails[p])
  <2>1. /\ p < lo => V(tails[p]) < V(at)
        /\ p >= hi /\ p < len => V(at) < V(tails[p])
    BY <1>1 DEF PilesKnown, Sought
  <2>2. p \in Nat /\ p \in Targets
    BY <1>a
  <2>3. CASE V(tails[Moves!Mid]) < V(at)
    <3>1. ASSUME p < lo' PROVE V(tails[p]) < V(at)
      <4>1. p <= Moves!Mid
        BY <1>1, <1>2, <2>2, <2>3, <3>1
      <4>2. p # Moves!Mid => V(tails[p]) < V(tails[Moves!Mid])
        BY <1>2, <1>3, <1>4, <1>a, <2>2, <4>1 DEF Piled
      <4>3. V(tails[p]) \in Nat /\ V(tails[Moves!Mid]) \in Nat
        BY <1>2, <1>4, <1>5, <1>a, <2>2, <4>1
      <4> QED BY <1>b, <2>3, <4>2, <4>3
    <3> QED BY <1>1, <2>1, <2>3, <3>1
  <2>4. CASE ~(V(tails[Moves!Mid]) < V(at))
    <3>1. ASSUME p >= hi', p < len PROVE V(at) < V(tails[p])
      <4>1. p >= Moves!Mid
        BY <1>1, <2>4, <3>1
      <4>2. p # Moves!Mid => V(tails[Moves!Mid]) < V(tails[p])
        BY <1>2, <1>3, <1>4, <1>a, <2>2, <3>1, <4>1 DEF Piled
      <4>3. V(tails[p]) \in Nat /\ V(tails[Moves!Mid]) \in Nat
        BY <1>2, <1>4, <1>5, <1>a, <2>2, <3>1
      <4>4. V(tails[Moves!Mid]) # V(at)
        <5>1. Stacked = at
          BY <1>1 DEF Stacked
        <5>2. tails[Moves!Mid] \in 0 .. at - 1
          BY <1>2, <1>3, <1>4, <1>a, <5>1 DEF Piled
        <5>3. tails[Moves!Mid] \in Targets /\ tails[Moves!Mid] < m /\ tails[Moves!Mid] # at
          BY <1>4, <5>2, PairsAre DEF Targets, Rows
        <5> QED BY <1>1, <1>a, <5>3, Values
      <4> QED BY <1>b, <2>4, <4>2, <4>3, <4>4
    <3> QED BY <1>1, <2>1, <2>4, <3>1
  <2> QED BY <2>3, <2>4
<1>7. Sought'
  <2>1. lo' <= hi' /\ hi' <= len'
    BY <1>1, <1>2, <1>4
  <2> QED BY <1>1, <1>6, <2>1, ValuesKept, FrameKeeps DEF Sought
<1>8. Chain(c)'
  BY <1>1, <1>3, FrameKeeps DEF Chain
<1>9. Piled(c)'
  <2>1. Stacked' = Stacked
    BY <1>1 DEF Stacked
  <2> QED BY <1>1, <1>3, <2>1, ValuesKept, FrameKeeps DEF Piled
<1>10. Unwound(c)'
  BY <1>1 DEF Unwound
<1> QED
  BY <1>7, <1>8, <1>9, <1>10 DEF PilesKnown

\* A row put on the pile the search has found.
LEMMA PutKeeps ==
  ASSUME Inverses, MovesType, Listed, PilesKnown, Frame, Moves!Put
  PROVE  PilesKnown'
<1>1. /\ moves = "search" /\ moves' = moves /\ at < m /\ lo = hi
      /\ prev' = [prev EXCEPT ![at] = IF lo = 0 THEN NoRow ELSE tails[lo - 1]]
      /\ tails' = [tails EXCEPT ![lo] = at]
      /\ len' = IF lo = len THEN len + 1 ELSE len
      /\ at' = at + 1 /\ lo' = 0 /\ hi' = len'
      /\ UNCHANGED <<m, jt>>
  BY DEF Moves!Put, Moves!list
<1>2. PICK c : Chain(c) /\ Piled(c)
  BY DEF PilesKnown
<1>3. Stacked = at /\ Stacked' = at + 1 /\ Top = n["target"] /\ n["target"] \in Nat
  BY <1>1, PairsAre DEF Stacked, Top, Searched
<1>4. /\ lo \in Nat /\ len \in Nat /\ at \in Nat /\ m \in Nat
      /\ lo <= len /\ len <= at /\ at < m /\ m <= n["target"]
  BY <1>1, <1>2, <1>3 DEF MovesType, PilesKnown, Sought, Piled, Listed
<1>5. /\ at \in Targets /\ lo \in Targets /\ Targets \subseteq Nat
      /\ \A x \in 0 .. at : x \in Targets /\ x < m
  BY <1>4, PairsAre DEF Targets, Rows
<1>6. \A x \in 0 .. at : V(x) \in Nat
  BY <1>5, Values
<1>7. \A p \in Targets :
        IF p < len THEN tails[p] \in 0 .. at - 1 /\ c[tails[p]] = p + 1 ELSE tails[p] = NoRow
  BY <1>2, <1>3 DEF Piled
<1>8. \A p \in Targets : p < len =>
        /\ tails[p] \in 0 .. at /\ tails[p] # at /\ tails[p] \in Targets
        /\ c[tails[p]] = p + 1 /\ V(tails[p]) \in Nat
  <2>1. \A x \in 0 .. at - 1 : x \in 0 .. at /\ x # at
    BY <1>4
  <2> QED BY <1>5, <1>6, <1>7, <2>1
<1>9. \A p \in Targets : /\ p < lo => V(tails[p]) < V(at)
                         /\ p >= lo /\ p < len => V(at) < V(tails[p])
  BY <1>1 DEF PilesKnown, Sought
<1>10. \A p, q \in Targets : p < q /\ q < len => V(tails[p]) < V(tails[q])
  BY <1>2 DEF Piled
<1>11. \A j \in Targets : prev[j] # NoRow => prev[j] < j /\ j < at /\ V(prev[j]) < V(j)
  BY <1>2, <1>3 DEF Piled
<1>12. \A j \in Targets : j < at => c[j] \in 1 .. len /\ V(tails[c[j] - 1]) <= V(j)
  BY <1>2, <1>3 DEF Piled
<1>13. \A i, j \in Targets : i < j /\ j < at /\ c[i] = c[j] => V(j) < V(i)
  BY <1>2, <1>3 DEF Piled
<1>14. /\ c \in [Targets -> Nat]
       /\ \A j \in Targets : c[j] = IF prev[j] = NoRow THEN 1 ELSE 1 + c[prev[j]]
  BY <1>2 DEF Chain
<1>15. prev \in [Targets -> Targets \cup {NoRow}] /\ tails \in [Targets -> Targets \cup {NoRow}]
  BY DEF MovesType
<1>16. PICK d : d \in [Targets -> Nat] /\ d[at] = lo + 1 /\ \A j \in Targets : j # at => d[j] = c[j]
  <2> DEFINE longer == [c EXCEPT ![at] = lo + 1]
  <2>1. /\ longer \in [Targets -> Nat] /\ longer[at] = lo + 1
        /\ \A j \in Targets : j # at => longer[j] = c[j]
    BY <1>4, <1>5, <1>14
  <2> HIDE DEF longer
  <2> QED BY <2>1
<1>17. lo > 0 =>
         /\ lo - 1 \in Targets /\ lo - 1 < len /\ lo - 1 < lo
         /\ prev'[at] = tails[lo - 1] /\ prev'[at] \in Targets /\ prev'[at] < at
         /\ prev'[at] # at /\ c[prev'[at]] = lo /\ V(prev'[at]) < V(at)
  <2>1. lo > 0 => lo - 1 \in Targets /\ lo - 1 < len /\ lo - 1 < lo
    BY <1>4, <1>5 DEF Targets, Rows
  <2>2. lo > 0 => prev'[at] = tails[lo - 1]
    BY <1>1, <1>4, <1>5, <1>15
  <2>3. lo > 0 => tails[lo - 1] \in 0 .. at - 1 /\ c[tails[lo - 1]] = (lo - 1) + 1
    BY <1>7, <2>1
  <2>4. (lo - 1) + 1 = lo /\ \A x \in 0 .. at - 1 : x < at
    BY <1>4
  <2> QED BY <1>8, <1>9, <2>1, <2>2, <2>3, <2>4
<1>18. lo = 0 => prev'[at] = NoRow
  BY <1>1, <1>5, <1>15
<1>19. \A j \in Targets : j # at => prev'[j] = prev[j]
  BY <1>1, <1>15
<1>20. tails'[lo] = at /\ \A p \in Targets : p # lo => tails'[p] = tails[p]
  BY <1>1, <1>5, <1>15
<1>21. NoRow \notin Targets
  BY <1>5
<1>22. ASSUME NEW j \in Targets
       PROVE  d[j] = IF prev'[j] = NoRow THEN 1 ELSE 1 + d[prev'[j]]
  <2>1. CASE j = at /\ lo = 0
    BY <1>16, <1>18, <2>1
  <2>2. CASE j = at /\ lo # 0
    <3>1. lo > 0
      BY <1>4, <2>2
    <3>2. prev'[at] # NoRow /\ d[prev'[at]] = lo
      BY <1>16, <1>17, <1>21, <3>1
    <3> QED BY <1>4, <1>16, <2>2, <3>2
  <2>3. CASE j # at
    <3>1. prev'[j] = prev[j] /\ d[j] = c[j]
      BY <1>16, <1>19, <2>3
    <3>2. prev[j] # NoRow => prev[j] \in Targets /\ prev[j] < j /\ j < at
      BY <1>11, <1>15
    <3>3. prev[j] # NoRow => prev[j] # at
      BY <1>5, <3>2
    <3> QED BY <1>14, <1>16, <3>1, <3>2, <3>3
  <2> QED BY <2>1, <2>2, <2>3
<1>23. Chain(d)'
  BY <1>16, <1>22, FrameKeeps DEF Chain
<1>24. ASSUME NEW p \in Targets
       PROVE  IF p < len' THEN tails'[p] \in 0 .. at /\ d[tails'[p]] = p + 1 ELSE tails'[p] = NoRow
  <2>1. CASE p = lo
    BY <1>1, <1>4, <1>16, <1>20, <2>1
  <2>2. CASE p # lo
    <3>1. tails'[p] = tails[p] /\ (p < len' <=> p < len)
      BY <1>1, <1>4, <1>5, <1>20, <2>2
    <3>2. CASE p < len
      BY <1>8, <1>16, <3>1, <3>2
    <3>3. CASE ~(p < len)
      BY <1>7, <3>1, <3>3
    <3> QED BY <3>2, <3>3
  <2> QED BY <2>1, <2>2
<1>25. ASSUME NEW p \in Targets, NEW q \in Targets, p < q, q < len'
       PROVE  V(tails'[p]) < V(tails'[q])
  <2>1. CASE p = lo
    <3>1. q # lo /\ q < len /\ q >= lo
      BY <1>1, <1>4, <1>5, <1>25, <2>1
    <3> QED BY <1>9, <1>20, <2>1, <3>1
  <2>2. CASE q = lo
    <3>1. p # lo /\ p < lo
      BY <1>4, <1>5, <1>25, <2>2
    <3> QED BY <1>9, <1>20, <2>2, <3>1
  <2>3. CASE p # lo /\ q # lo
    <3>1. q < len
      BY <1>1, <1>4, <1>5, <1>25, <2>3
    <3> QED BY <1>10, <1>20, <1>25, <2>3, <3>1
  <2> QED BY <2>1, <2>2, <2>3
<1>26. ASSUME NEW j \in Targets, prev'[j] # NoRow
       PROVE  prev'[j] < j /\ j < at + 1 /\ V(prev'[j]) < V(j)
  <2>1. CASE j = at
    <3>1. lo > 0
      BY <1>4, <1>18, <1>26, <2>1
    <3> QED BY <1>4, <1>17, <2>1, <3>1
  <2>2. CASE j # at
    <3>1. prev[j] < j /\ j < at /\ V(prev[j]) < V(j)
      BY <1>11, <1>19, <1>26, <2>2
    <3>2. j < at + 1
      BY <1>4, <1>5, <3>1
    <3> QED BY <1>19, <2>2, <3>1, <3>2
  <2> QED BY <2>1, <2>2
<1>27. ASSUME NEW j \in Targets, j < at + 1
       PROVE  d[j] \in 1 .. len' /\ V(tails'[d[j] - 1]) <= V(j)
  <2>1. CASE j = at
    <3>1. d[j] = lo + 1 /\ d[j] - 1 = lo
      BY <1>4, <1>16, <2>1
    <3>2. V(at) <= V(at)
      BY <1>4, <1>6
    <3> QED BY <1>1, <1>4, <1>20, <2>1, <3>1, <3>2
  <2>2. CASE j # at
    <3>1. j < at /\ d[j] = c[j] /\ j \in 0 .. at
      BY <1>4, <1>5, <1>16, <1>27, <2>2
    <3>2. c[j] \in 1 .. len /\ V(tails[c[j] - 1]) <= V(j)
      BY <1>12, <3>1
    <3>3. c[j] \in 1 .. len' /\ c[j] - 1 \in Targets /\ c[j] - 1 < len
      <4>1. \A x \in 1 .. len : x \in 1 .. len' /\ x - 1 \in Targets /\ x - 1 < len
        <5>1. len <= len' /\ len' \in Nat
          BY <1>1, <1>4
        <5>2. \A x \in 1 .. len : x \in 1 .. len' /\ x - 1 \in 0 .. at /\ x - 1 < len
          BY <1>4, <5>1
        <5> QED BY <1>5, <5>2
      <4> QED BY <3>2, <4>1
    <3>4. CASE c[j] - 1 = lo
      <4>1. V(at) < V(tails[lo])
        BY <1>4, <1>9, <3>3, <3>4
      <4>2. V(at) \in Nat /\ V(tails[lo]) \in Nat /\ V(j) \in Nat
        BY <1>4, <1>6, <1>8, <3>1, <3>3, <3>4
      <4>3. tails'[c[j] - 1] = at
        BY <1>20, <3>4
      <4>4. V(tails[lo]) <= V(j)
        BY <3>2, <3>4
      <4> QED BY <3>1, <3>3, <4>1, <4>2, <4>3, <4>4
    <3>5. CASE c[j] - 1 # lo
      BY <1>20, <3>1, <3>2, <3>3, <3>5
    <3> QED BY <3>4, <3>5
  <2> QED BY <2>1, <2>2
<1>28. ASSUME NEW i \in Targets, NEW j \in Targets, i < j, j < at + 1, d[i] = d[j]
       PROVE  V(j) < V(i)
  <2>1. i # at /\ i < at /\ d[i] = c[i] /\ i \in 0 .. at
    BY <1>4, <1>5, <1>16, <1>28
  <2>2. CASE j = at
    <3>1. c[i] = lo + 1 /\ c[i] - 1 = lo
      <4>1. c[i] = lo + 1
        BY <1>16, <1>28, <2>1, <2>2, Zenon
      <4>2. (lo + 1) - 1 = lo
        BY <1>4
      <4> QED BY <4>1, <4>2
    <3>2. c[i] \in 1 .. len /\ V(tails[lo]) <= V(i)
      BY <1>12, <2>1, <3>1
    <3>3. lo < len
      BY <1>4, <3>1, <3>2
    <3>4. V(at) < V(tails[lo])
      BY <1>4, <1>5, <1>9, <3>3
    <3>5. V(at) \in Nat /\ V(tails[lo]) \in Nat /\ V(i) \in Nat
      BY <1>4, <1>5, <1>6, <1>8, <2>1, <3>3
    <3> QED BY <2>2, <3>2, <3>4, <3>5
  <2>3. CASE j # at
    <3>1. j < at /\ d[j] = c[j]
      BY <1>4, <1>5, <1>16, <1>28, <2>3
    <3> QED BY <1>13, <1>28, <2>1, <3>1
  <2> QED BY <2>2, <2>3
<1>29. Piled(d)'
  <2>1. at + 1 <= m /\ len' <= at + 1 /\ (at + 1 > 0 => len' > 0) /\ (at + 1) - 1 = at
    BY <1>1, <1>4
  <2>2. /\ Stacked' <= m' /\ len' <= Stacked' /\ (Stacked' > 0 => len' > 0)
        /\ Stacked' - 1 = at
    BY <1>1, <1>3, <2>1
  <2> QED
    BY <1>3, <1>24, <1>25, <1>26, <1>27, <1>28, <2>2, <1>1, ValuesKept, FrameKeeps DEF Piled
<1>30. Sought'
  <2>1. 0 <= len' /\ len' \in Nat
    BY <1>1, <1>4
  <2>2. \A p \in Targets : ~(p < 0) /\ ~(p >= len' /\ p < len')
    BY <1>5, <2>1
  <2> QED BY <1>1, <2>1, <2>2, FrameKeeps DEF Sought
<1>31. Unwound(d)'
  BY <1>1 DEF Unwound
<1> QED
  BY <1>23, <1>29, <1>30, <1>31 DEF PilesKnown

\* What the rows kept so far are: some of those paired.
LEMMA KeptRows ==
  ASSUME Inverses, MovesType
  PROVE  /\ Moves!Kept = {t \in Pairs : ~moved[t]} /\ Moves!Kept \subseteq Pairs
         /\ IsFiniteSet(Moves!Kept) /\ Cardinality(Moves!Kept) \in Nat
<1>1. Moves!Kept = {t \in Pairs : ~moved[t]}
  BY DEF Moves!Kept, Pairs
<1>2. Moves!Kept \in SUBSET Pairs
  BY <1>1
<1>3. IsFiniteSet(Moves!Kept)
  BY <1>2, PairsAre, FS_Subset
<1> QED
  BY <1>1, <1>2, <1>3, FS_CardinalityType

\* The search is over: the walk back starts at the last pile.
LEMMA EndSearchKeeps ==
  ASSUME Inverses, MovesType, Asked, Listed, Marked, PilesKnown, Frame, Moves!EndSearch
  PROVE  PilesKnown'
<1>1. /\ moves = "search" /\ moves' = "unwind" /\ at = m /\ k' = tails[len - 1]
      /\ UNCHANGED <<at, m, jt, len, tails, prev, lo, hi, moved, dist>>
  BY DEF Moves!EndSearch, Moves!list, Moves!piles, Moves!marks
<1>2. PICK c : Chain(c) /\ Piled(c)
  BY DEF PilesKnown
<1>3. Stacked = m /\ Stacked' = m /\ Top = n["target"] /\ n["target"] \in Nat
  BY <1>1, PairsAre DEF Stacked, Top, Searched
<1>4. \A t \in Pairs : t < n["target"]
  BY PairsAre DEF Targets, Rows
<1>5. m > 0
  <2>1. PICK t \in Pairs : TRUE
    BY <1>1 DEF Asked
  <2>2. PICK j \in Targets : j < m
    BY <1>3, <1>4, <2>1 DEF Listed
  <2> QED BY <2>2, PairsAre DEF MovesType
<1>6. /\ len \in Nat /\ m \in Nat /\ len > 0 /\ len <= m /\ m <= n["target"]
  BY <1>2, <1>3, <1>5 DEF MovesType, Piled, Listed
<1>7. len - 1 \in Targets /\ len - 1 < len
  BY <1>3, <1>6 DEF Targets, Rows
<1>8. k' \in 0 .. m - 1 /\ c[k'] = (len - 1) + 1
  BY <1>1, <1>2, <1>3, <1>7 DEF Piled
<1>9. k' \in Targets /\ k' < m /\ c[k'] = len
  BY <1>3, <1>6, <1>8 DEF Targets, Rows
<1>10. Moves!Kept = {}
  <2>1. \A t \in Targets : moved[t] <=> t \in Pairs /\ t < n["target"]
    BY <1>1, <1>3 DEF Marked, Searched
  <2> QED BY <1>4, <2>1, PairsAre, KeptRows
<1>11. Moves!Kept' = {}
  BY <1>1, <1>10, FrameKeeps DEF Moves!Kept, Pairs
<1>12. Cardinality(Moves!Kept') = len' - c[k']
  BY <1>1, <1>6, <1>9, <1>11, FS_EmptySet
<1>13. Unwound(c)'
  <2>1. Moves!Increasing(Moves!Kept)'
    BY <1>11 DEF Moves!Increasing
  <2> QED BY <1>1, <1>9, <1>11, <1>12, <2>1, FrameKeeps DEF Unwound
<1>14. Chain(c)'
  BY <1>1, <1>2, FrameKeeps DEF Chain
<1>15. Piled(c)'
  BY <1>1, <1>2, <1>3, ValuesKept, FrameKeeps DEF Piled
<1>16. Sought'
  BY <1>1 DEF PilesKnown, Sought
<1> QED
  BY <1>13, <1>14, <1>15, <1>16 DEF PilesKnown

\* A step of the walk back: the row behind the rows kept joins them.
LEMMA UnwindKeeps ==
  ASSUME Inverses, MovesType, Asked, Listed, Marked, PilesKnown, Frame, Moves!Unwind
  PROVE  PilesKnown'
<1>1. /\ moves = "unwind" /\ moved' = [moved EXCEPT ![jt[k]] = FALSE]
      /\ IF prev[k] = NoRow THEN moves' = "done" /\ k' = k ELSE k' = prev[k] /\ moves' = moves
      /\ UNCHANGED <<at, m, jt, len, tails, prev, lo, hi>>
  BY DEF Moves!Unwind, Moves!list, Moves!piles
<1>2. PICK c : Chain(c) /\ Piled(c) /\ Unwound(c)
  BY DEF PilesKnown
<1>3. /\ k \in Targets /\ k < m /\ Moves!Increasing(Moves!Kept)
      /\ \A t \in Moves!Kept : jt[k] < t /\ V(k) < PairedT[t]
      /\ Cardinality(Moves!Kept) = len - c[k]
  BY <1>1, <1>2 DEF Unwound
<1>4. jt[k] \in Pairs /\ V(k) = PairedT[jt[k]] /\ V(k) \in Nat
  BY <1>3, Values DEF V
<1>5. Pairs \subseteq Targets /\ Pairs \subseteq Nat /\ \A t \in Pairs : PairedT[t] \in Nat
  BY PairsAre
<1>6. Moves!Kept \subseteq Pairs /\ IsFiniteSet(Moves!Kept) /\ Cardinality(Moves!Kept) \in Nat
  BY KeptRows
<1>7. Moves!Kept' = Moves!Kept \cup {jt[k]}
  <2>1. \A t \in Targets : moved'[t] <=> moved[t] /\ t # jt[k]
    BY <1>1, <1>4, <1>5 DEF MovesType
  <2>2. Moves!Kept' = {t \in Pairs : ~moved'[t]}
    BY FrameKeeps DEF Moves!Kept, Pairs
  <2> QED BY <1>4, <1>5, <2>1, <2>2, KeptRows
<1>8. jt[k] \notin Moves!Kept
  BY <1>3, <1>4, <1>5
<1>9. Cardinality(Moves!Kept') = Cardinality(Moves!Kept) + 1
  BY <1>6, <1>7, <1>8, FS_AddElement
<1>10. c[k] \in Nat /\ len \in Nat /\ c[k] = IF prev[k] = NoRow THEN 1 ELSE 1 + c[prev[k]]
  BY <1>2, <1>3 DEF Chain, MovesType
<1>11. Moves!Increasing(Moves!Kept)'
  <2>1. ASSUME NEW t \in Moves!Kept', NEW u \in Moves!Kept', t < u
        PROVE  PairedT[t] < PairedT[u]
    <3>1. CASE t \in Moves!Kept /\ u \in Moves!Kept
      BY <1>3, <2>1, <3>1 DEF Moves!Increasing
    <3>2. CASE t = jt[k] /\ u \in Moves!Kept
      BY <1>3, <1>4, <3>2
    <3>3. CASE u = jt[k]
      <4>1. t \in Nat /\ u \in Nat /\ (t = u \/ u < t)
        BY <1>3, <1>4, <1>5, <1>6, <1>7, <3>3
      <4> QED BY <2>1, <4>1
    <3> QED BY <1>7, <3>1, <3>2, <3>3
  <2>2. \A t, u \in Moves!Kept' : t < u => PairedT'[t] < PairedT'[u]
    BY <2>1, FrameKeeps
  <2> QED BY <2>2 DEF Moves!Increasing
<1>12. Chain(c)'
  BY <1>1, <1>2, FrameKeeps DEF Chain
<1>13. Stacked' = Stacked /\ Searched'
  <2>1. detect /\ Pairs # {}
    BY <1>1 DEF Asked
  <2> QED BY <1>1, <2>1, FrameKeeps DEF Stacked, Searched
<1>14. Piled(c)'
  BY <1>1, <1>2, <1>13, ValuesKept, FrameKeeps DEF Piled
<1>15. Sought'
  BY <1>1 DEF PilesKnown, Sought
<1>16. CASE prev[k] = NoRow
  <2>1. moves' = "done" /\ c[k] = 1
    BY <1>1, <1>10, <1>16
  <2>2. Cardinality(Moves!Kept') = len'
    BY <1>1, <1>3, <1>9, <1>10, <2>1
  <2>3. Unwound(c)'
    BY <1>11, <2>1, <2>2 DEF Unwound
  <2> QED BY <1>12, <1>14, <1>15, <2>3 DEF PilesKnown
<1>17. CASE prev[k] # NoRow
  <2>1. k' = prev[k] /\ moves' = "unwind" /\ c[k] = 1 + c[k']
    BY <1>1, <1>10, <1>17
  <2>2. k' \in Targets /\ k' < k /\ V(k') < V(k)
    BY <1>2, <1>3, <1>17, <2>1 DEF MovesType, Piled
  <2>3. k' < m /\ k' \in Nat /\ c[k'] \in Nat
    BY <1>2, <1>3, <2>2, PairsAre DEF MovesType, Chain
  <2>4. jt[k'] < jt[k] /\ jt[k'] \in Pairs /\ V(k') \in Nat
    BY <1>3, <2>2, <2>3, Values DEF Listed
  <2>5. ASSUME NEW t \in Moves!Kept' PROVE jt[k'] < t /\ V(k') < PairedT[t]
    <3>1. CASE t = jt[k]
      BY <1>4, <2>2, <2>4, <3>1
    <3>2. CASE t \in Moves!Kept
      <4>1. jt[k] < t /\ V(k) < PairedT[t] /\ t \in Nat /\ PairedT[t] \in Nat
        BY <1>3, <1>5, <1>6, <3>2
      <4>2. jt[k'] \in Nat /\ jt[k] \in Nat
        BY <1>4, <1>5, <2>4
      <4> QED BY <1>4, <2>2, <2>4, <4>1, <4>2
    <3> QED BY <1>7, <3>1, <3>2
  <2>6. Cardinality(Moves!Kept') = len' - c[k']
    BY <1>1, <1>3, <1>9, <1>10, <2>1, <2>3
  <2>7. Unwound(c)'
    <3>1. V(k)' = V(k')
      BY <1>1, FrameKeeps DEF V
    <3>2. /\ k' \in Targets' /\ k' < m'
          /\ \A t \in Moves!Kept' : jt'[k'] < t /\ V(k)' < PairedT'[t]
      BY <1>1, <2>2, <2>3, <2>5, <3>1, FrameKeeps
    <3> QED BY <1>11, <2>1, <2>6, <3>2 DEF Unwound
  <2> QED BY <1>12, <1>14, <1>15, <2>7 DEF PilesKnown
<1> QED
  BY <1>16, <1>17

\* Every turn keeps what is known of the piles.
LEMMA PilesKept ==
  ASSUME Inverses, MovesType, Asked, Listed, Marked, PilesKnown, Frame, Moves!Next
  PROVE  PilesKnown'
<1>1. CASE Moves!Halve
  BY <1>1, HalveKeeps
<1>2. CASE Moves!Put
  BY <1>2, PutKeeps
<1>3. CASE Moves!EndSearch
  BY <1>3, EndSearchKeeps
<1>4. CASE Moves!Unwind
  BY <1>4, UnwindKeeps
<1>5. ASSUME Moves!Begin \/ Moves!RankSource \/ Moves!RankTarget \/ Moves!EndRank \/ Moves!List
             \/ Moves!EndList
      PROVE  PilesKnown'
  <2>1. Stacked = 0
    BY <1>5 DEF Stacked, Searched, Moves!Begin, Moves!RankSource, Moves!RankTarget,
       Moves!EndRank, Moves!List, Moves!EndList
  <2>2. Stacked' = 0 /\ moves' # "unwind" /\ ~(moves' = "done" /\ Searched')
    <3>1. CASE Moves!Begin
      BY <3>1, FrameKeeps DEF Stacked, Searched, Moves!Begin, Pairs
    <3>2. CASE Moves!EndRank
      BY <3>2, FrameKeeps DEF Stacked, Searched, Moves!EndRank
    <3>3. CASE Moves!EndList
      BY <3>3 DEF Stacked, Moves!EndList
    <3>4. CASE Moves!RankSource \/ Moves!RankTarget \/ Moves!List
      BY <3>4 DEF Stacked, Searched, Moves!RankSource, Moves!RankTarget, Moves!List
    <3> QED BY <1>5, <3>1, <3>2, <3>3, <3>4
  <2>3. len = 0 /\ lo = 0 /\ hi = 0
    BY <2>1 DEF PilesKnown, Piled, Sought, MovesType
  <2>4. UNCHANGED <<len, tails, prev>> /\ lo' = 0 /\ hi' = 0
    BY <1>5, <2>3 DEF Moves!Begin, Moves!RankSource, Moves!RankTarget, Moves!EndRank, Moves!List,
       Moves!EndList, Moves!piles
  <2>5. m' \in Nat
    BY <1>5 DEF MovesType, Moves!Begin, Moves!RankSource, Moves!RankTarget, Moves!EndRank,
       Moves!List, Moves!EndList, Moves!list
  <2> QED BY <2>1, <2>2, <2>4, <2>5, NoPiles
<1> QED
  BY <1>1, <1>2, <1>3, <1>4, <1>5 DEF Moves!Next

\* Every index stays inside its array, and every array keeps its shape.
LEMMA MovesTypeKept ==
  ASSUME Inverses, MovesType, Ranked, Asked, Listed, Marked, PilesKnown, Frame, Moves!Next
  PROVE  MovesType'
<1>1. Targets \subseteq Nat /\ n["target"] \in Nat /\ n["source"] \in Nat
  BY PairsAre
<1>2. CASE Moves!Begin
  BY <1>2, FrameKeeps DEF MovesType, Moves!Begin, Moves!marks, Moves!list, Moves!piles
<1>3. CASE Moves!RankSource
  <2>1. dist' \in [Targets -> Int] /\ rank' \in Nat /\ at' \in Nat
    BY <1>3 DEF MovesType, Moves!RankSource
  <2> QED BY <1>3, <2>1, FrameKeeps DEF MovesType, Moves!RankSource, Moves!list, Moves!piles
<1>4. CASE Moves!RankTarget
  <2>1. at \in Targets
    BY <1>1, <1>4 DEF MovesType, Moves!RankTarget, Targets, Rows
  <2>2. dist' \in [Targets -> Int] /\ rank' \in Nat /\ at' \in Nat
    BY <1>4, <2>1 DEF MovesType, Moves!RankTarget
  <2> QED BY <1>4, <2>2, FrameKeeps DEF MovesType, Moves!RankTarget, Moves!list, Moves!piles
<1>5. CASE Moves!EndRank
  BY <1>5, FrameKeeps DEF MovesType, Moves!EndRank, Moves!marks, Moves!list, Moves!piles
<1>6. CASE Moves!List
  <2>1. at \in Targets
    BY <1>1, <1>6 DEF MovesType, Moves!List, Targets, Rows
  <2>2. jt' \in [Targets -> Targets \cup {NoRow}] /\ moved' \in [Targets -> BOOLEAN] /\ m' \in Nat
    <3>1. jt' = jt \/ jt' = [jt EXCEPT ![m] = at]
      BY <1>6 DEF Moves!List, Moves!list
    <3>2. moved' = moved \/ moved' = [moved EXCEPT ![at] = TRUE]
      BY <1>6 DEF Moves!List
    <3>3. m' = m \/ m' = m + 1
      BY <1>6 DEF Moves!List, Moves!list
    <3>4. jt' \in [Targets -> Targets \cup {NoRow}]
      BY <2>1, <3>1 DEF MovesType
    <3>5. moved' \in [Targets -> BOOLEAN]
      BY <3>2 DEF MovesType
    <3>6. m' \in Nat
      BY <3>3 DEF MovesType
    <3> QED BY <3>4, <3>5, <3>6
  <2> QED BY <1>6, <2>2, FrameKeeps DEF MovesType, Moves!List, Moves!piles
<1>7. CASE Moves!EndList
  BY <1>7, FrameKeeps DEF MovesType, Moves!EndList, Moves!marks, Moves!list, Moves!piles
<1>8. CASE Moves!Halve
  <2>1. Moves!Mid \in Nat
    BY <1>8, Middle DEF MovesType, Moves!Halve, Moves!Mid
  <2>2. lo' \in Nat /\ hi' \in Nat
    BY <1>8, <2>1 DEF MovesType, Moves!Halve
  <2> QED BY <1>8, <2>2, FrameKeeps DEF MovesType, Moves!Halve, Moves!marks, Moves!list, Moves!piles
<1>9. CASE Moves!Put
  <2>1. /\ lo \in Nat /\ lo <= len /\ len <= at /\ at < m /\ m <= n["target"] /\ at \in Nat
        /\ len \in Nat /\ m \in Nat
    <3>1. Stacked = at /\ Top = n["target"]
      BY <1>9 DEF Stacked, Top, Searched, Moves!Put
    <3> QED BY <1>9, <3>1 DEF MovesType, Moves!Put, PilesKnown, Sought, Piled, Listed
  <2>2. at \in Targets /\ (lo # 0 => lo - 1 \in Targets)
    BY <1>1, <2>1 DEF Targets, Rows
  <2>3. (IF lo = 0 THEN NoRow ELSE tails[lo - 1]) \in Targets \cup {NoRow}
    BY <2>2 DEF MovesType
  <2>4. /\ prev' \in [Targets -> Targets \cup {NoRow}]
        /\ tails' \in [Targets -> Targets \cup {NoRow}]
        /\ len' \in Nat /\ at' \in Nat /\ lo' \in Nat /\ hi' \in Nat
    <3>1. prev' \in [Targets -> Targets \cup {NoRow}]
      BY <1>9, <2>3 DEF MovesType, Moves!Put
    <3>2. tails' \in [Targets -> Targets \cup {NoRow}]
      BY <1>9, <2>2 DEF MovesType, Moves!Put
    <3>3. len' \in Nat
      BY <1>9, <2>1 DEF Moves!Put
    <3>4. at' \in Nat /\ lo' \in Nat /\ hi' \in Nat
      BY <1>9, <2>1, <3>3 DEF Moves!Put
    <3> QED BY <3>1, <3>2, <3>3, <3>4
  <2> QED BY <1>9, <2>4, FrameKeeps DEF MovesType, Moves!Put, Moves!marks, Moves!list
<1>10. CASE Moves!EndSearch
  <2>1. k' \in Targets
    <3>1. PilesKnown' /\ moves' = "unwind"
      BY <1>10, EndSearchKeeps DEF Moves!EndSearch
    <3> QED BY <3>1, FrameKeeps DEF PilesKnown, Unwound
  <2> QED BY <1>10, <2>1, FrameKeeps DEF MovesType, Moves!EndSearch, Moves!marks, Moves!list,
             Moves!piles
<1>11. CASE Moves!Unwind
  <2>1. k \in Targets
    BY <1>11 DEF Moves!Unwind, PilesKnown, Unwound
  <2>2. k' \in Targets \cup {NoRow} /\ moved' \in [Targets -> BOOLEAN]
    BY <1>11, <2>1 DEF MovesType, Moves!Unwind
  <2> QED BY <1>11, <2>2, FrameKeeps DEF MovesType, Moves!Unwind, Moves!list, Moves!piles
<1> QED
  BY <1>2, <1>3, <1>4, <1>5, <1>6, <1>7, <1>8, <1>9, <1>10, <1>11 DEF Moves!Next

\* The invariant holds of the fresh arrays.
LEMMA FreshIsSound == Inverses /\ Moves!Fresh => MovesInv
<1> SUFFICES ASSUME Inverses, Moves!Fresh PROVE MovesInv
  OBVIOUS
<1>1. /\ moves = "idle" /\ at = 0 /\ rank = 0 /\ m = 0 /\ len = 0 /\ lo = 0 /\ hi = 0
      /\ k = NoRow
      /\ dist = [t \in Targets |-> 0] /\ moved = [t \in Targets |-> FALSE]
      /\ jt = [j \in Targets |-> NoRow] /\ tails = [j \in Targets |-> NoRow]
      /\ prev = [j \in Targets |-> NoRow]
  BY DEF Moves!Fresh, Moves!Rows, Targets, Rows
<1>2. Targets \subseteq Nat /\ Pairs \subseteq Targets /\ n["target"] \in Nat
  BY PairsAre
<1>3. MovesType
  BY <1>1 DEF MovesType
<1>4. Ranked /\ Asked
  BY <1>1, <1>2 DEF Ranked, Asked
<1>5. Top = 0 /\ Stacked = 0 /\ ~Searched
  BY <1>1 DEF Top, Stacked, Searched
<1>6. \A x \in Nat : ~(x < 0)
  OBVIOUS
<1>7. Listed
  <2>1. 0 = Cardinality(InFront(Top))
    BY <1>5, NoneBefore
  <2>2. \A j \in Targets : ~(j < m) /\ jt[j] = NoRow
    BY <1>1, <1>2, <1>6
  <2>3. \A t \in Pairs : ~(t < Top)
    BY <1>2, <1>5, <1>6
  <2> QED BY <1>1, <1>2, <1>5, <2>1, <2>2, <2>3 DEF Listed
<1>8. Marked
  BY <1>1, <1>2, <1>5, <1>6 DEF Marked
<1>9. PilesKnown
  <2>1. \A j \in Targets : ~(j < 0) /\ tails[j] = NoRow /\ prev[j] = NoRow
    BY <1>1, <1>2, <1>6
  <2> DEFINE ones == [j \in Targets |-> 1]
  <2>2. Chain(ones)
    BY <2>1 DEF Chain
  <2>3. Piled(ones) /\ Unwound(ones)
    <3> HIDE DEF ones
    <3> QED BY <1>1, <1>5, <2>1 DEF Piled, Unwound
  <2>4. Sought
    BY <1>1 DEF Sought
  <2> HIDE DEF ones
  <2> QED BY <2>2, <2>3, <2>4 DEF PilesKnown
<1> QED
  BY <1>3, <1>4, <1>7, <1>8, <1>9 DEF MovesInv

\* Every turn of the five loops keeps the invariant.
LEMMA MovesInvKept == Inverses /\ MovesInv /\ Frame /\ Moves!Next => MovesInv'
<1> SUFFICES ASSUME Inverses, MovesInv, Frame, Moves!Next PROVE MovesInv'
  OBVIOUS
<1>1. MovesType /\ Ranked /\ Asked /\ Listed /\ Marked /\ PilesKnown
  BY DEF MovesInv
<1>2. moves = "unwind" => k \in Targets
  BY <1>1 DEF PilesKnown, Unwound
<1> QED
  BY <1>1, <1>2, MovesTypeKept, RankedKept, AskedKept, ListedKept, MarkedKept, PilesKept
     DEF MovesInv

-----------------------------------------------------------------------------
(* What the invariant says of the piles, the rows kept and the distances.  *)

\* MoveDetect counts the way the library does.
LEMMA CountsAlike == \A S : Moves!Cardinality(S) = Cardinality(S)
BY Zenon DEF Moves!Cardinality, Cardinality

\* The links lead through one number of rows, however it is counted.
LEMMA ChainIs ==
  ASSUME Inverses, MovesType, NEW c, Chain(c),
         \A j \in Targets : prev[j] # NoRow => prev[j] \in Targets /\ prev[j] < j
  PROVE  \A j \in Targets : Moves!ChainFrom(j) = c[j]
<1> DEFINE chain == CHOOSE g : g = [i \in Targets |-> IF prev[i] = NoRow THEN 1 ELSE 1 + g[prev[i]]]
<1>1. Targets \subseteq Nat
  BY PairsAre
<1>2. c = [i \in Targets |-> IF prev[i] = NoRow THEN 1 ELSE 1 + c[prev[i]]]
  BY DEF Chain
<1>3. chain = [i \in Targets |-> IF prev[i] = NoRow THEN 1 ELSE 1 + chain[prev[i]]]
  <2>1. \E g : g = [i \in Targets |-> IF prev[i] = NoRow THEN 1 ELSE 1 + g[prev[i]]]
    BY <1>2, Zenon
  <2> QED BY <2>1, Zenon
<1>4. \A j : Moves!ChainFrom(j) = chain[j]
  BY Zenon DEF Moves!ChainFrom, Moves!Rows, Targets, Rows
<1> HIDE DEF chain
<1>5. \A j \in Targets : chain[j] = IF prev[j] = NoRow THEN 1 ELSE 1 + chain[prev[j]]
  BY <1>3, Zenon
<1> DEFINE Other == {j \in Targets : chain[j] # c[j]}
<1>6. SUFFICES ASSUME Other # {} PROVE FALSE
  BY <1>4
<1>7. PICK j \in Other : \A i \in Other : j <= i
  <2>1. Other \in SUBSET Nat
    BY <1>1
  <2> HIDE DEF Other
  <2> QED BY <1>6, <2>1, LeastElement
<1>8. j \in Targets /\ chain[j] # c[j]
  BY <1>7
<1>9. CASE prev[j] = NoRow
  BY <1>2, <1>5, <1>8, <1>9
<1>10. CASE prev[j] # NoRow
  <2>1. prev[j] \in Targets /\ prev[j] < j /\ ~(j <= prev[j])
    <3>1. prev[j] \in Targets /\ prev[j] < j
      BY <1>8, <1>10
    <3>2. prev[j] \in Nat /\ j \in Nat
      BY <1>1, <1>8, <3>1
    <3> QED BY <3>1, <3>2
  <2>2. prev[j] \notin Other
    BY <1>7, <2>1
  <2>3. chain[prev[j]] = c[prev[j]]
    BY <2>1, <2>2
  <2>4. c[j] = 1 + c[prev[j]] /\ chain[j] = 1 + chain[prev[j]]
    BY <1>5, <1>8, <1>10 DEF Chain
  <2> QED BY <1>8, <2>3, <2>4
<1> QED BY <1>9, <1>10

\* The list is never longer than there are pairs, and the piles never more.
LEMMA ListFits ==
  ASSUME Inverses, MovesInv
  PROVE  /\ m \in Nat /\ len \in Nat /\ n["target"] \in Nat
         /\ m <= Cardinality(Pairs) /\ Stacked <= m /\ len <= Stacked /\ m <= n["target"]
         /\ Stacked \in Nat
<1>1. IsFiniteSet(Pairs) /\ InFront(Top) \in SUBSET Pairs /\ n["target"] \in Nat
  BY PairsAre DEF InFront
<1>2. Cardinality(InFront(Top)) <= Cardinality(Pairs)
  BY <1>1, FS_Subset
<1>3. m \in Nat /\ len \in Nat /\ Stacked \in Nat /\ Top \in Nat
  BY <1>1 DEF MovesInv, MovesType, Stacked, Top
<1>4. m = Cardinality(InFront(Top)) /\ m <= Top /\ Top <= n["target"]
  BY DEF MovesInv, Listed
<1>5. Stacked <= m /\ len <= Stacked
  BY DEF MovesInv, PilesKnown, Piled
<1> QED
  BY <1>1, <1>2, <1>3, <1>4, <1>5

\* What the binary search and the walk back rely on.
LEMMA PilesFollow == Inverses /\ MovesInv => Moves!PilesSound
<1> SUFFICES ASSUME Inverses, MovesInv PROVE Moves!PilesSound
  OBVIOUS
<1>1. PICK c : Chain(c) /\ Piled(c)
  BY DEF MovesInv, PilesKnown
<1>2. /\ m \in Nat /\ len \in Nat /\ n["target"] \in Nat /\ Stacked \in Nat
      /\ m <= Cardinality(Pairs) /\ Stacked <= m /\ len <= Stacked /\ m <= n["target"]
  BY ListFits
<1>3. Targets \subseteq Nat /\ Moves!Rows = Targets
  BY PairsAre DEF Moves!Rows, Targets, Rows
<1>4. \A j \in Targets : prev[j] \in Targets \cup {NoRow} /\ tails[j] \in Targets \cup {NoRow}
  BY DEF MovesInv, MovesType
<1>5. \A j \in Targets : prev[j] # NoRow => prev[j] \in Targets /\ prev[j] < j
  BY <1>1, <1>4 DEF Piled
<1>6. \A p \in 0 .. len - 1 : p \in Targets /\ p < len
  BY <1>2 DEF Targets, Rows
<1>7. Moves!Filled
  <2>1. hi <= len /\ lo <= hi
    BY DEF MovesInv, PilesKnown, Sought
  <2>2. len <= m /\ m <= Moves!Cardinality(Moves!Paired)
    BY <1>2, CountsAlike DEF Pairs
  <2>3. ASSUME NEW j \in Targets
        PROVE  (j < m <=> jt[j] # NoRow) /\ (j < len <=> tails[j] # NoRow)
    <3>1. j < m <=> jt[j] # NoRow
      <4>1. Pairs \subseteq Nat
        BY PairsAre
      <4> QED BY <4>1 DEF MovesInv, Listed
    <3>2. j < len <=> tails[j] # NoRow
      BY <1>1, <1>2 DEF Piled
    <3> QED BY <3>1, <3>2
  <2>4. ASSUME NEW j \in Targets PROVE tails[j] < m /\ prev[j] < j
    <3>1. j \in Nat
      BY <1>3
    <3>2. tails[j] < m
      <4>1. tails[j] = NoRow \/ tails[j] \in 0 .. Stacked - 1
        BY <1>1 DEF Piled
      <4> QED BY <1>2, <4>1
    <3>3. prev[j] < j
      <4>1. prev[j] = NoRow \/ prev[j] < j
        BY <1>5
      <4> QED BY <3>1, <4>1
    <3> QED BY <3>2, <3>3
  <2> QED BY <1>3, <2>1, <2>2, <2>3, <2>4, CountsAlike DEF Moves!Filled
<1>8. \A j : Moves!Value(j) = V(j)
  BY DEF Moves!Value, V
<1>9. \A p \in 1 .. len - 1 : Moves!Value(tails[p - 1]) < Moves!Value(tails[p])
  <2> SUFFICES ASSUME NEW p \in 1 .. len - 1 PROVE V(tails[p - 1]) < V(tails[p])
    BY <1>8
  <2>1. p \in 0 .. len - 1 /\ p - 1 \in 0 .. len - 1 /\ p - 1 < p
    BY <1>2
  <2> QED BY <1>1, <1>6, <2>1 DEF Piled
<1>10. \A p \in 0 .. len - 1 : Moves!ChainFrom(tails[p]) = p + 1
  <2> SUFFICES ASSUME NEW p \in 0 .. len - 1 PROVE Moves!ChainFrom(tails[p]) = p + 1
    OBVIOUS
  <2>1. p \in Targets /\ tails[p] \in 0 .. Stacked - 1 /\ c[tails[p]] = p + 1
    BY <1>1, <1>6 DEF Piled
  <2>2. tails[p] \in Targets
    BY <1>2, <2>1 DEF Targets, Rows
  <2>3. Moves!ChainFrom(tails[p]) = c[tails[p]]
    BY <1>1, <1>5, <2>2, ChainIs DEF MovesInv
  <2> QED BY <2>1, <2>3
<1>11. \A j \in Targets : prev[j] # NoRow => Moves!Value(prev[j]) < Moves!Value(j)
  BY <1>1, <1>8 DEF Piled
<1> QED
  BY <1>3, <1>7, <1>9, <1>10, <1>11 DEF Moves!PilesSound

\* Rows of one pile decrease, so no run of rows in both orders takes two of it.
LEMMA RunsFit ==
  ASSUME Inverses, MovesInv, Searched, moves = "done", NEW S \in SUBSET Pairs, Moves!Increasing(S)
  PROVE  Cardinality(S) <= len
<1>1. PICK c : Chain(c) /\ Piled(c)
  BY DEF MovesInv, PilesKnown
<1>2. Stacked = m /\ Top = n["target"] /\ len \in Nat /\ m \in Nat
  BY ListFits DEF Stacked, Top, Searched
<1>3. IsFiniteSet(S) /\ Cardinality(S) \in Nat
  BY PairsAre, FS_Subset, FS_CardinalityType
<1>4. Targets \subseteq Nat /\ S \subseteq Targets /\ \A t \in Targets : t < n["target"]
  BY PairsAre DEF Targets, Rows
<1>5. \A t \in S : \E j \in Targets : j < m /\ jt[j] = t
  BY <1>2, <1>4 DEF MovesInv, Listed
<1> DEFINE at0(t) == CHOOSE j \in Targets : j < m /\ jt[j] = t
           f == [t \in S |-> c[at0(t)]]
<1>6. \A t \in S : at0(t) \in Targets /\ at0(t) < m /\ jt[at0(t)] = t
  BY <1>5
<1>7. f \in [S -> 1 .. len]
  BY <1>1, <1>2, <1>6 DEF Piled
<1>8. ASSUME NEW t \in S, NEW u \in S, t < u PROVE f[t] # f[u]
  <2>1. PICK i \in Targets, j \in Targets : i = at0(t) /\ j = at0(u)
    BY <1>6
  <2>2. i < m /\ j < m /\ jt[i] = t /\ jt[j] = u
    BY <1>6, <2>1
  <2>3. i \in Nat /\ j \in Nat /\ t \in Nat /\ u \in Nat
    BY <1>4
  <2>4. i < j
    <3>1. j < i => jt[j] < jt[i]
      BY <2>2 DEF MovesInv, Listed
    <3>2. i # j
      BY <1>8, <2>2, <2>3
    <3> QED BY <1>8, <2>2, <2>3, <3>1, <3>2
  <2>5. PairedT[t] < PairedT[u]
    BY <1>8 DEF Moves!Increasing
  <2>6. V(i) = PairedT[t] /\ V(j) = PairedT[u] /\ V(i) \in Nat /\ V(j) \in Nat
    BY <2>2, PairsAre DEF V
  <2>7. c[i] = c[j] => V(j) < V(i)
    BY <1>1, <1>2, <2>2, <2>4 DEF Piled
  <2>8. c[i] # c[j]
    BY <2>5, <2>6, <2>7
  <2> QED BY <2>1, <2>8
<1> HIDE DEF f
<1>9. SUFFICES ASSUME ~(Cardinality(S) <= len) PROVE FALSE
  OBVIOUS
<1>10. IsFiniteSet(1 .. len) /\ Cardinality(1 .. len) = len
  BY <1>2, FS_Interval
<1>11. PICK t \in S, u \in S : t # u /\ f[t] = f[u]
  <2>1. Cardinality(1 .. len) < Cardinality(S)
    BY <1>2, <1>3, <1>9, <1>10
  <2> QED BY <1>3, <1>7, <1>10, <2>1, FS_PigeonHole
<1>12. t < u \/ u < t
  BY <1>4, <1>11
<1> QED
  BY <1>8, <1>11, <1>12

\* No smaller set of moves explains the two orders.
LEMMA KeptFollows == Inverses /\ MovesInv => Moves!KeptIsLongest
<1> SUFFICES ASSUME Inverses, MovesInv, moves = "done"
             PROVE  /\ \A t \in Moves!Rows : moved[t] => t \in Moves!Paired /\ detect
                    /\ detect =>
                         /\ Moves!Increasing(Moves!Kept)
                         /\ \A S \in SUBSET Moves!Paired :
                              Moves!Increasing(S) => Cardinality(S) <= Cardinality(Moves!Kept)
  BY CountsAlike, Zenon DEF Moves!KeptIsLongest
<1>1. Moves!Rows = Targets /\ Targets \subseteq Nat /\ Pairs \subseteq Targets
  BY PairsAre DEF Moves!Rows, Targets, Rows
<1>2. ASSUME NEW t \in Targets, moved[t] PROVE t \in Pairs /\ detect
  <2>1. t \in Pairs
    BY <1>2 DEF MovesInv, Marked
  <2>2. ~Searched => Top = 0 /\ t < Top
    BY <1>2 DEF MovesInv, Marked, Top
  <2>3. t \in Nat
    BY <1>1
  <2>4. Searched
    BY <2>2, <2>3
  <2> QED BY <2>1, <2>4 DEF Searched
<1>3. ASSUME detect
      PROVE  /\ Moves!Increasing(Moves!Kept)
             /\ \A S \in SUBSET Pairs :
                  Moves!Increasing(S) => Cardinality(S) <= Cardinality(Moves!Kept)
  <2>1. CASE Pairs = {}
    <3>1. Moves!Kept = {} /\ \A S \in SUBSET Pairs : S = {}
      BY <2>1 DEF Moves!Kept, Pairs
    <3>2. Moves!Increasing(Moves!Kept)
      BY <3>1 DEF Moves!Increasing
    <3>3. \A S \in SUBSET Pairs : Cardinality(S) <= Cardinality(Moves!Kept)
      <4>1. Cardinality({}) = 0
        BY FS_EmptySet
      <4> QED BY <3>1, <4>1
    <3> QED BY <3>2, <3>3
  <2>2. CASE Pairs # {}
    <3>1. Searched
      BY <1>3, <2>2 DEF Searched
    <3>2. Moves!Increasing(Moves!Kept) /\ Cardinality(Moves!Kept) = len
      BY <3>1 DEF MovesInv, PilesKnown, Unwound
    <3> QED BY <3>1, <3>2, RunsFit
  <2> QED BY <2>1, <2>2
<1> QED
  BY <1>1, <1>2, <1>3 DEF Pairs

\* A distance is a shift in rank, and there is none where nothing moved.
LEMMA DistanceFollows == Inverses /\ MovesInv => Moves!DistanceIsRankShift
<1> SUFFICES ASSUME Inverses, MovesInv, moves = "done"
             PROVE  /\ \A t \in Pairs : dist[t] = Shift(t)
                    /\ detect /\ (\A t \in Targets : ~moved[t]) => \A t \in Targets : dist[t] = 0
  BY CountsAlike, Zenon DEF Moves!DistanceIsRankShift, Moves!Rows, Targets, Rows, Pairs, Shift, InFront, Below
<1>1. \A t \in Pairs : dist[t] = Shift(t)
  BY DEF MovesInv, Ranked
<1>2. ASSUME detect, \A t \in Targets : ~moved[t], NEW t \in Targets PROVE dist[t] = 0
  <2>1. CASE t \notin Pairs
    BY <2>1 DEF MovesInv, Ranked
  <2>2. CASE t \in Pairs
    <3>1. Searched
      BY <1>2, <2>2 DEF Searched
    <3>2. Moves!Kept = Pairs
      BY <1>2, PairsAre DEF Moves!Kept, Pairs
    <3>3. Moves!Increasing(Pairs)
      BY <3>1, <3>2 DEF MovesInv, PilesKnown, Unwound
    <3>4. ASSUME NEW u \in Pairs PROVE u < t <=> PairedT[u] < PairedT[t]
      <4>1. /\ u \in Nat /\ t \in Nat /\ PairedT[u] \in Nat /\ PairedT[t] \in Nat
        BY <2>2, PairsAre
      <4>2. u < t => PairedT[u] < PairedT[t]
        BY <2>2, <3>3 DEF Moves!Increasing
      <4>3. t < u => PairedT[t] < PairedT[u]
        BY <2>2, <3>3 DEF Moves!Increasing
      <4>4. t = u => PairedT[t] = PairedT[u]
        OBVIOUS
      <4> QED BY <4>1, <4>2, <4>3, <4>4
    <3>5. InFront(t) = Below(PairedT[t])
      BY <3>4 DEF InFront, Below
    <3>6. Cardinality(InFront(t)) \in Nat
      BY <2>2, ShiftType
    <3>7. Shift(t) = 0
      BY <3>5, <3>6 DEF Shift
    <3> QED BY <1>1, <2>2, <3>7
  <2> QED BY <2>1, <2>2
<1> QED
  BY <1>1, <1>2

-----------------------------------------------------------------------------
(* The matcher of rows without a key: what its tables and its maps hold.   *)

USE DEF Whole!NoRow

\* The files and the options are among those given.
GivenType ==
  /\ opts.columns \in Nat /\ opts.sigColumns \in Nat \ {0} /\ opts.maxEntries \in Nat
  /\ opts.k \in Nat /\ opts.percent \in Nat /\ opts.maxWork \in Nat
  /\ \A side \in Side : \A r \in Rows(side) :
       /\ digest[side][r] \in Nat
       /\ \A c \in Whole!Columns : Whole!Sig(cells[side][r], c) \in Nat
  /\ \A e \in 0 .. opts.maxEntries : Capacity(e) \in Nat /\ Capacity(e) >= 2 * e + 1
  /\ Capacity(n["source"]) \in Nat /\ Capacity(n["source"]) >= 2 * n["source"] + 1

Entries == {Whole!Vacant} \cup [h : Nat, row : Sources]

TableType == \E cap \in Nat \ {0} : table \in [0 .. cap - 1 -> Entries]

\* A row has no pair before its turn in the walk by digest.
TurnType ==
  /\ turn \in Nat
  /\ stage \in {"exactIndex", "exactWalk", "leftOver", "sigIndex", "sigWalk", "paired"}
  /\ stage \in {"exactIndex", "sigIndex"} => turn <= n["source"]
  /\ stage \in {"exactWalk", "sigWalk"} => turn <= n["target"]
  /\ stage = "leftOver" => turn = 0
  /\ stage = "exactIndex" => \A t \in Targets : pairT[t] = NoRow
  /\ stage = "exactWalk" => \A t \in Targets : t >= turn => pairT[t] = NoRow

WholeType == ~keyed /\ Inverses /\ GivenType /\ TableType /\ TurnType

\* The matcher's own names for the rows and the sizes are those used here.
LEMMA WholeNames ==
  /\ \A side : Whole!Rows(side) = Rows(side)
  /\ \A e : Whole!Capacity(e) = Capacity(e)
  /\ \A S : Whole!Cardinality(S) = Cardinality(S)
  /\ Whole!Side = Side
<1>1. \A side : Whole!Rows(side) = Rows(side)
  BY DEF Whole!Rows, Rows
<1>2. \A e : Whole!Capacity(e) = Capacity(e)
  BY Zenon DEF Whole!Capacity, Capacity, Whole!FitsTwice, FitsTwice
<1>3. \A S : Whole!Cardinality(S) = Cardinality(S)
  BY Zenon DEF Whole!Cardinality, Cardinality
<1>4. Whole!Side = Side
  BY DEF Whole!Side, Side
<1> QED BY <1>1, <1>2, <1>3, <1>4

\* A remainder is less than what divides.
LEMMA Remainder == \A a \in Nat, b \in Nat \ {0} : a % b \in 0 .. b - 1
BY Z3

\* A table has as many slots as it was made with, and a probe stays in it.
LEMMA SlotInTable ==
  ASSUME NEW cap \in Nat \ {0}, NEW tab, DOMAIN tab = 0 .. cap - 1, NEW h \in Nat, NEW i \in Nat
  PROVE  /\ Whole!Slot(tab, h, i) = (h + i) % cap
         /\ Whole!Slot(tab, h, i) \in DOMAIN tab
<1>1. Whole!Cardinality(DOMAIN tab) = cap
  <2>1. Cardinality(0 .. cap - 1) = cap
    BY FS_Interval
  <2> QED BY <2>1, WholeNames
<1>2. (h + i) % cap \in 0 .. cap - 1
  <2>1. h + i \in Nat
    OBVIOUS
  <2> QED BY <2>1, Remainder
<1>3. Whole!Slot(tab, h, i) = (h + i) % cap
  BY <1>1 DEF Whole!Slot
<1> QED
  BY <1>2, <1>3

\* A new table has room for twice its entries and one more.
LEMMA NewTableType ==
  ASSUME NEW e \in Nat, Capacity(e) \in Nat, Capacity(e) >= 2 * e + 1
  PROVE  Whole!NewTable(e) \in [0 .. Capacity(e) - 1 -> Entries] /\ Capacity(e) \in Nat \ {0}
<1>1. Whole!NewTable(e) = [p \in 0 .. Capacity(e) - 1 |-> Whole!Vacant]
  BY WholeNames DEF Whole!NewTable
<1> QED
  BY <1>1 DEF Entries

\* Putting a row in a table keeps its shape, wherever the row is put.
LEMMA InsertType ==
  ASSUME NEW cap \in Nat \ {0}, NEW tab \in [0 .. cap - 1 -> Entries],
         NEW h \in Nat, NEW r \in Sources
  PROVE  Whole!Insert(tab, h, r) \in [0 .. cap - 1 -> Entries]
<1>1. [h |-> h, row |-> r] \in Entries
  BY DEF Entries
<1> QED
  BY <1>1 DEF Whole!Insert

\* f[c] is the table once a row is put in it under its signatures up to column c.
FilledBy(f, tab, cap, r, s) ==
  /\ f \in [0 .. opts.columns -> [0 .. cap - 1 -> Entries]] /\ f[0] = tab
  /\ \A c \in 1 .. opts.columns :
       /\ c \in Whole!Signed(r) => f[c] = Whole!Insert(f[c - 1], Whole!Sig(r, c), s)
       /\ c \notin Whole!Signed(r) => f[c] = f[c - 1]
  /\ Whole!Indexed(tab, r, s) = f[opts.columns]

\* A row is put in the index one column after the other.
LEMMA IndexedSteps ==
  ASSUME NEW cap \in Nat \ {0}, NEW tab \in [0 .. cap - 1 -> Entries], opts.columns \in Nat,
         NEW r, \A c \in Whole!Columns : Whole!Sig(r, c) \in Nat, NEW s \in Sources
  PROVE  \E f : FilledBy(f, tab, cap, r, s)
<1> DEFINE N == opts.columns
           Shape == [0 .. cap - 1 -> Entries]
           next(c, T) == IF c \in Whole!Signed(r) THEN Whole!Insert(T, Whole!Sig(r, c), s) ELSE T
           step == [c \in 1 .. N |-> [T \in Shape |-> next(c, T)]]
           upTo == CHOOSE g : g = [c \in 0 .. N |->
                     IF c = 0 THEN tab
                     ELSE IF c \in Whole!Signed(r)
                          THEN Whole!Insert(g[c - 1], Whole!Sig(r, c), s) ELSE g[c - 1]]
<1>1. ASSUME NEW c \in 1 .. N, NEW T \in Shape PROVE next(c, T) \in Shape
  <2>1. Whole!Sig(r, c) \in Nat
    BY DEF Whole!Columns
  <2> QED BY <2>1, InsertType
<1>2. step \in [1 .. N -> [Shape -> Shape]]
  BY <1>1
<1>3. \A c \in 1 .. N, T \in Shape : step[c][T] = next(c, T)
  OBVIOUS
<1>4. Whole!Indexed(tab, r, s) = upTo[N]
  BY Zenon DEF Whole!Indexed
<1>5. upTo = CHOOSE g : g = [c \in 0 .. N |-> IF c = 0 THEN tab ELSE next(c, g[c - 1])]
  BY Zenon
<1>6. tab \in Shape
  OBVIOUS
<1> HIDE DEF next, step, upTo, Shape
<1>7. PICK f : Recursive(f, N, Shape, tab, step)
  BY <1>2, <1>6, Recursion
<1>8. /\ f \in [0 .. N -> Shape] /\ f[0] = tab
      /\ \A c \in 1 .. N : f[c] = step[c][f[c - 1]]
  BY <1>7 DEF Recursive
<1>9. \A c \in 0 .. N : f[c] = IF c = 0 THEN tab ELSE next(c, f[c - 1])
  BY <1>3, <1>8
<1>10. f = [c \in 0 .. N |-> IF c = 0 THEN tab ELSE next(c, f[c - 1])]
  BY <1>8, <1>9
<1>11. upTo = [c \in 0 .. N |-> IF c = 0 THEN tab ELSE next(c, upTo[c - 1])]
  <2>1. \E g : g = [c \in 0 .. N |-> IF c = 0 THEN tab ELSE next(c, g[c - 1])]
    BY <1>10
  <2> QED BY <1>5, <2>1, Zenon
<1>12. upTo = f
  <2>1. \A c \in 0 .. N : upTo[c] = IF c = 0 THEN tab ELSE next(c, upTo[c - 1])
    BY <1>11
  <2>2. upTo[0] = f[0]
    BY <1>9, <2>1
  <2>3. ASSUME NEW c \in 0 .. N - 1, upTo[c] = f[c] PROVE upTo[c + 1] = f[c + 1]
    <3>1. c + 1 \in 0 .. N /\ c + 1 # 0 /\ (c + 1) - 1 = c
      OBVIOUS
    <3> QED BY <1>9, <2>1, <2>3, <3>1
  <2>4. upTo = [c \in 0 .. N |-> upTo[c]] /\ f = [c \in 0 .. N |-> f[c]]
    BY <1>8, <1>11
  <2>5. N \in Nat
    OBVIOUS
  <2> HIDE DEF N
  <2> QED BY <2>2, <2>3, <2>4, <2>5, SameRecursion
<1>13. \A c \in 1 .. N : f[c] = next(c, f[c - 1])
  BY <1>3, <1>8
<1>14. Whole!Indexed(tab, r, s) = f[N]
  BY <1>4, <1>12
<1>15. \A c \in 1 .. N :
         /\ c \in Whole!Signed(r) => f[c] = Whole!Insert(f[c - 1], Whole!Sig(r, c), s)
         /\ c \notin Whole!Signed(r) => f[c] = f[c - 1]
  BY <1>13 DEF next
<1>16. f \in [0 .. N -> [0 .. cap - 1 -> Entries]]
  BY <1>8 DEF Shape
<1>17. FilledBy(f, tab, cap, r, s)
  BY <1>8, <1>14, <1>15, <1>16 DEF FilledBy
<1> QED
  BY <1>17

\* A row put in the index leaves the table its shape.
LEMMA IndexedType ==
  ASSUME NEW cap \in Nat \ {0}, NEW tab \in [0 .. cap - 1 -> Entries], opts.columns \in Nat,
         NEW r, \A c \in Whole!Columns : Whole!Sig(r, c) \in Nat, NEW s \in Sources
  PROVE  Whole!Indexed(tab, r, s) \in [0 .. cap - 1 -> Entries]
<1>1. PICK f : FilledBy(f, tab, cap, r, s)
  BY IndexedSteps
<1>2. opts.columns \in 0 .. opts.columns
  OBVIOUS
<1> QED
  BY <1>1, <1>2 DEF FilledBy

\* What a probe finds is a source row that has no pair yet.
LEMMA FoundRow ==
  ASSUME TableType, NEW h \in Nat, NEW i \in Whole!Found(h)
  PROVE  /\ Whole!At(table, h, i).row \in Sources
         /\ pairS[Whole!At(table, h, i).row] = NoRow
<1>1. PICK cap \in Nat \ {0} : table \in [0 .. cap - 1 -> Entries]
  BY DEF TableType
<1>2. i \in 0 .. cap - 1 /\ i \in Nat
  BY <1>1 DEF Whole!Found, Whole!Met
<1>3. Whole!At(table, h, i) # Whole!Vacant
  <2>1. i \in 0 .. i
    BY <1>2
  <2> QED BY <2>1 DEF Whole!Found, Whole!Met
<1>4. Whole!At(table, h, i) \in Entries
  BY <1>1, <1>2, SlotInTable DEF Whole!At
<1>5. Whole!At(table, h, i).row \in Sources
  BY <1>3, <1>4 DEF Entries
<1> QED
  BY <1>5 DEF Whole!Found

\* A candidate is a source row that has no pair yet.
LEMMA CandidateRow ==
  ASSUME TableType, NEW r, \A c \in Whole!Columns : Whole!Sig(r, c) \in Nat,
         NEW s \in Whole!Candidates(r)
  PROVE  s \in Sources /\ pairS[s] = NoRow
<1>1. PICK p \in Whole!Looked(r) : s = Whole!RowAt(r, p)
  BY DEF Whole!Candidates, Whole!FirstRows
<1>2. PICK c \in Whole!Signed(r) : p \in {c} \X Whole!Found(Whole!Sig(r, c))
  BY <1>1 DEF Whole!Looked
<1>3. p[1] = c /\ p[2] \in Whole!Found(Whole!Sig(r, c)) /\ c \in Whole!Columns
  BY <1>2 DEF Whole!Signed
<1> QED
  BY <1>1, <1>3, FoundRow DEF Whole!RowAt

\* Pairing two rows that have no pair keeps the maps inverse to each other.
LEMMA PairWithKeeps ==
  ASSUME ~keyed, keyed' = keyed, n' = n, Inverses,
         NEW s \in Sources, NEW t \in Targets, pairS[s] = NoRow, pairT[t] = NoRow,
         Whole!PairWith(s, t)
  PROVE  Inverses'
<1>1. PairedT = pairT /\ PairedS = pairS /\ PairedT' = pairT' /\ PairedS' = pairS'
  BY DEF PairedT, PairedS
<1>2. Targets' = Targets /\ Sources' = Sources
  BY DEF Targets, Sources, Rows
<1>3. /\ pairT \in [Targets -> Sources \cup {NoRow}] /\ pairS \in [Sources -> Targets \cup {NoRow}]
      /\ \A a \in Sources, b \in Targets : pairT[b] = a <=> pairS[a] = b
  BY <1>1 DEF Inverses
<1>4. pairT' = [pairT EXCEPT ![t] = s] /\ pairS' = [pairS EXCEPT ![s] = t]
  BY DEF Whole!PairWith
<1>5. pairT' \in [Targets -> Sources \cup {NoRow}] /\ pairS' \in [Sources -> Targets \cup {NoRow}]
  BY <1>3, <1>4
<1>6. NoRow \notin Sources /\ NoRow \notin Targets
  BY PairsAre
<1>7. ASSUME NEW a \in Sources, NEW b \in Targets PROVE pairT'[b] = a <=> pairS'[a] = b
  BY <1>3, <1>4, <1>6
<1> QED
  BY <1>1, <1>2, <1>5, <1>7 DEF Inverses

\* What a step of the matcher leaves as it was.
LEMMA GivenKept ==
  ASSUME n' = n, digest' = digest, cells' = cells, opts' = opts
  PROVE  /\ Targets' = Targets /\ Sources' = Sources /\ Entries' = Entries
         /\ GivenType => GivenType'
         /\ TableType /\ table' = table => TableType'
         /\ \A cap \in Nat \ {0} : table' \in [0 .. cap - 1 -> Entries] => TableType'
<1>1. Targets' = Targets /\ Sources' = Sources /\ Entries' = Entries
  BY DEF Targets, Sources, Rows, Entries, Whole!Vacant
<1>2. GivenType => GivenType'
  BY DEF GivenType, Rows, Whole!Columns, Whole!Sig, Whole!Value, Whole!Blank, Whole!Empty
<1>3. \A cap \in Nat \ {0} : table' \in [0 .. cap - 1 -> Entries] => TableType'
  BY <1>1 DEF TableType
<1>4. TableType /\ table' = table => TableType'
  BY <1>1 DEF TableType
<1> QED
  BY <1>1, <1>2, <1>3, <1>4

\* Pairs left alone stay inverse.
LEMMA PairsKept ==
  ASSUME ~keyed, keyed' = keyed, n' = n, Inverses, UNCHANGED Whole!pairs
  PROVE  Inverses'
<1>1. PairedT' = PairedT /\ PairedS' = PairedS
  BY DEF PairedT, PairedS, Whole!pairs
<1> QED
  BY <1>1 DEF Inverses, Targets, Sources, Rows

\* There is a width for the index, the most columns there is room for.
LEMMA WidthExists ==
  ASSUME GivenType, opts.columns > 0, NEW L \in Nat, L = Whole!Cardinality(Whole!Left)
  PROVE  /\ Whole!SigWidth \in 1 .. opts.sigColumns
         /\ Whole!SigWidth = 1 \/ L * Whole!SigWidth <= opts.maxEntries
<1> DEFINE N == opts.sigColumns
           Room(w) == w <= opts.columns /\ (w = 1 \/ L * w <= opts.maxEntries)
           Narrower == {d \in 0 .. N - 1 : Room(N - d)}
<1>1. N \in Nat \ {0} /\ opts.columns \in Nat /\ opts.maxEntries \in Nat
  BY DEF GivenType
<1>2. N - 1 \in Narrower
  <2>1. N - 1 \in 0 .. N - 1 /\ N - (N - 1) = 1
    BY <1>1
  <2>2. Room(1)
    BY <1>1
  <2> HIDE DEF Room
  <2> QED BY <2>1, <2>2
<1>3. PICK d \in Narrower : \A e \in Narrower : d <= e
  <2>1. Narrower \in SUBSET Nat /\ Narrower # {}
    <3> HIDE DEF Room
    <3> QED BY <1>2
  <2> HIDE DEF Narrower
  <2> QED BY <2>1, LeastElement
<1> DEFINE w == N - d
<1>4. w \in 1 .. N /\ Room(w) /\ w \in Nat
  <2> HIDE DEF Room
  <2>1. d \in 0 .. N - 1 /\ Room(N - d)
    BY <1>3
  <2> QED BY <1>1, <2>1
<1>5. ASSUME NEW x \in w + 1 .. N PROVE x > opts.columns \/ L * x > opts.maxEntries
  <2>1. d \in 0 .. N - 1
    BY <1>3
  <2>2. N - x \in 0 .. N - 1 /\ N - (N - x) = x /\ ~(d <= N - x) /\ x # 1 /\ x \in Nat
    BY <1>1, <1>4, <2>1
  <2>3. ~Room(x)
    <3> HIDE DEF Room
    <3>1. N - x \notin Narrower
      BY <1>3, <2>2
    <3>2. ~Room(N - (N - x))
      <4> HIDE DEF N
      <4> QED BY <2>2, <3>1
    <3> QED BY <2>2, <3>2
  <2>4. L * x \in Nat
    BY <2>2
  <2> QED BY <1>1, <2>2, <2>3, <2>4
<1>6. \E v \in 1 .. opts.sigColumns :
        /\ v <= opts.columns
        /\ v = 1 \/ Whole!Cardinality(Whole!Left) * v <= opts.maxEntries
        /\ \A x \in v + 1 .. opts.sigColumns :
             x > opts.columns \/ Whole!Cardinality(Whole!Left) * x > opts.maxEntries
  BY <1>4, <1>5
<1>7. /\ Whole!SigWidth \in 1 .. opts.sigColumns
      /\ Whole!SigWidth = 1 \/ Whole!Cardinality(Whole!Left) * Whole!SigWidth <= opts.maxEntries
  BY <1>6, Zenon DEF Whole!SigWidth
<1> QED
  BY <1>7

\* The rows left over are source rows.
LEMMA LeftRows ==
  ASSUME Inverses
  PROVE  Whole!Left \subseteq Sources /\ Whole!Cardinality(Whole!Left) \in Nat
<1>1. Whole!Left \in SUBSET Sources
  BY WholeNames DEF Whole!Left, Sources
<1>2. IsFiniteSet(Sources)
  <2>1. n["source"] \in Nat
    BY PairsAre
  <2>2. IsFiniteSet(0 .. n["source"] - 1)
    BY <2>1, FS_Interval
  <2> QED BY <2>2 DEF Sources, Rows
<1>3. Cardinality(Whole!Left) \in Nat
  BY <1>1, <1>2, FS_Subset, FS_CardinalityType
<1> QED
  BY <1>1, <1>3, WholeNames

\* Every turn of the matcher keeps its tables and its maps in shape, and the maps
\* inverse to each other.
LEMMA WholeTypeKept == WholeType /\ MatchWhole => WholeType'
<1> SUFFICES ASSUME WholeType, MatchWhole PROVE WholeType'
  OBVIOUS
<1>1. /\ ~keyed /\ keyed' = keyed /\ Inverses /\ GivenType /\ TableType /\ TurnType
      /\ Whole!Next
  BY DEF WholeType, MatchWhole
<1>2. n' = n /\ digest' = digest /\ cells' = cells /\ opts' = opts
  BY <1>1 DEF Whole!Next, Whole!given, Whole!ExactIndex, Whole!ExactWalk, Whole!EndLoop,
     Whole!NothingLeft, Whole!TooManyLeft, Whole!IndexLeft, Whole!SigIndex, Whole!SigWalk,
     Whole!SkipPaired, Whole!OutOfWork
<1>3. /\ Targets' = Targets /\ Sources' = Sources /\ GivenType' /\ ~keyed'
      /\ table' = table => TableType'
      /\ \A cap \in Nat \ {0} : table' \in [0 .. cap - 1 -> Entries] => TableType'
      /\ UNCHANGED Whole!pairs => Inverses'
  <2>1. UNCHANGED Whole!pairs => Inverses'
    BY <1>1, <1>2, PairsKept
  <2> QED BY <1>1, <1>2, <2>1, GivenKept
<1>4. n["source"] \in Nat /\ n["target"] \in Nat /\ Targets \subseteq Nat /\ turn \in Nat
  BY <1>1, PairsAre DEF TurnType
<1>5. PICK cap \in Nat \ {0} : table \in [0 .. cap - 1 -> Entries]
  BY <1>1 DEF TableType
<1>6. CASE Whole!ExactIndex
  <2>1. turn \in Sources /\ digest["source"][turn] \in Nat
    <3>1. turn \in Rows("source")
      BY <1>4, <1>6 DEF Whole!ExactIndex, Rows
    <3> QED BY <1>1, <3>1 DEF GivenType, Sources, Side
  <2>2. TableType'
    BY <1>3, <1>5, <1>6, <2>1, InsertType DEF Whole!ExactIndex
  <2>3. TurnType'
    BY <1>1, <1>2, <1>3, <1>4, <1>6 DEF Whole!ExactIndex, Whole!pairs, TurnType
  <2>4. UNCHANGED Whole!pairs
    BY <1>6 DEF Whole!ExactIndex
  <2> QED BY <1>3, <2>2, <2>3, <2>4 DEF WholeType
<1>7. CASE Whole!ExactWalk
  <2>1. turn \in Targets /\ digest["target"][turn] \in Nat
    <3>1. turn \in Rows("target")
      BY <1>4, <1>7 DEF Whole!ExactWalk, Rows
    <3> QED BY <1>1, <3>1 DEF GivenType, Targets, Side
  <2>2. TableType'
    BY <1>3, <1>7 DEF Whole!ExactWalk
  <2>3. UNCHANGED Whole!pairs \/ \E s \in Sources : pairS[s] = NoRow /\ Whole!PairWith(s, turn)
    <3>1. ASSUME NEW i \in Whole!Found(digest["target"][turn]),
                 Whole!PairWith(Whole!At(table, digest["target"][turn], i).row, turn)
          PROVE  \E s \in Sources : pairS[s] = NoRow /\ Whole!PairWith(s, turn)
      <4>1. /\ Whole!At(table, digest["target"][turn], i).row \in Sources
            /\ pairS[Whole!At(table, digest["target"][turn], i).row] = NoRow
        BY <1>1, <2>1, <3>1, FoundRow
      <4> QED BY <3>1, <4>1
    <3> QED BY <1>7, <3>1 DEF Whole!ExactWalk
  <2>4. pairT[turn] = NoRow /\ stage = "exactWalk" /\ stage' = stage /\ turn' = turn + 1
    BY <1>1, <1>4, <1>7, <2>1 DEF Whole!ExactWalk, TurnType
  <2>5. Inverses'
    BY <1>1, <1>2, <1>3, <2>1, <2>3, <2>4, PairWithKeeps
  <2>6. ASSUME NEW t \in Targets, t >= turn + 1 PROVE pairT'[t] = NoRow
    <3>1. t # turn /\ pairT[t] = NoRow
      BY <1>1, <1>4, <2>4, <2>6 DEF TurnType
    <3>2. pairT \in [Targets -> Sources \cup {NoRow}]
      BY <1>1 DEF Inverses, PairedT
    <3> QED BY <2>1, <2>3, <3>1, <3>2 DEF Whole!PairWith, Whole!pairs
  <2>7. TurnType'
    <3>1. turn + 1 <= n["target"] /\ turn + 1 \in Nat
      BY <1>4, <1>7 DEF Whole!ExactWalk
    <3> QED BY <1>2, <1>3, <2>4, <2>6, <3>1 DEF TurnType
  <2> QED BY <1>3, <2>2, <2>5, <2>7 DEF WholeType
<1>8. CASE Whole!EndLoop
  <2>1. UNCHANGED Whole!pairs /\ TableType'
    BY <1>3, <1>8 DEF Whole!EndLoop
  <2>2. TurnType'
    <3>1. turn' = 0 /\ stage' \in {"exactWalk", "leftOver", "sigWalk", "paired"}
      BY <1>8 DEF Whole!EndLoop
    <3>2. stage' = "exactWalk" => \A t \in Targets : pairT'[t] = NoRow
      BY <1>1, <1>8 DEF Whole!EndLoop, Whole!pairs, TurnType
    <3> QED BY <1>2, <1>3, <1>4, <3>1, <3>2 DEF TurnType
  <2> QED BY <1>3, <2>1, <2>2 DEF WholeType
<1>9. CASE Whole!NothingLeft \/ Whole!TooManyLeft \/ Whole!OutOfWork
  <2>1. UNCHANGED Whole!pairs /\ TableType' /\ stage' = "paired" /\ turn' = turn
    BY <1>3, <1>9 DEF Whole!NothingLeft, Whole!TooManyLeft, Whole!OutOfWork
  <2>2. TurnType'
    BY <1>4, <2>1 DEF TurnType
  <2> QED BY <1>3, <2>1, <2>2 DEF WholeType
<1>10. CASE Whole!IndexLeft
  <2>1. Whole!Cardinality(Whole!Left) \in Nat
    BY <1>1, LeftRows
  <2>2. Whole!SigWidth \in 1 .. opts.sigColumns /\ opts.sigColumns \in Nat
    BY <1>1, <1>10, <2>1, WidthExists DEF Whole!IndexLeft, GivenType
  <2>3. PICK e \in Nat : e = Whole!Cardinality(Whole!Left) * Whole!SigWidth
    BY <2>1, <2>2
  <2>4. e \in 0 .. opts.maxEntries
    BY <1>1, <1>10, <2>3 DEF Whole!IndexLeft, GivenType
  <2>5. Capacity(e) \in Nat /\ Capacity(e) >= 2 * e + 1
    BY <1>1, <2>4 DEF GivenType
  <2>6. table' = Whole!NewTable(e)
    BY <1>10, <2>3 DEF Whole!IndexLeft
  <2>7. TableType'
    BY <1>3, <2>5, <2>6, NewTableType
  <2>8. UNCHANGED Whole!pairs /\ stage' = "sigIndex" /\ turn' = turn /\ turn = 0
    BY <1>1, <1>10 DEF Whole!IndexLeft, TurnType
  <2>9. TurnType'
    BY <1>2, <1>4, <2>8 DEF TurnType
  <2> QED BY <1>3, <2>7, <2>8, <2>9 DEF WholeType
<1>11. CASE Whole!SigIndex
  <2>1. turn \in Sources /\ \A c \in Whole!Columns : Whole!Sig(cells["source"][turn], c) \in Nat
    <3>1. turn \in Rows("source")
      BY <1>4, <1>11 DEF Whole!SigIndex, Rows
    <3> QED BY <1>1, <3>1 DEF GivenType, Sources, Side
  <2>2. Whole!Indexed(table, cells["source"][turn], turn) \in [0 .. cap - 1 -> Entries]
    BY <1>1, <1>5, <2>1, IndexedType DEF GivenType
  <2>3. TableType'
    BY <1>3, <1>5, <1>11, <2>2 DEF Whole!SigIndex
  <2>4. UNCHANGED Whole!pairs /\ stage = "sigIndex" /\ stage' = stage /\ turn' = turn + 1
        /\ turn < n["source"]
    BY <1>11 DEF Whole!SigIndex
  <2>5. TurnType'
    BY <1>2, <1>4, <2>4 DEF TurnType
  <2> QED BY <1>3, <2>3, <2>4, <2>5 DEF WholeType
<1>12. CASE Whole!SigWalk
  <2>1. turn \in Targets /\ \A c \in Whole!Columns : Whole!Sig(cells["target"][turn], c) \in Nat
    <3>1. turn \in Rows("target")
      BY <1>4, <1>12 DEF Whole!SigWalk, Rows
    <3> QED BY <1>1, <3>1 DEF GivenType, Targets, Side
  <2>2. UNCHANGED Whole!pairs \/ \E s \in Sources : pairS[s] = NoRow /\ Whole!PairWith(s, turn)
    <3>1. \A s \in Whole!Candidates(cells["target"][turn]) : s \in Sources /\ pairS[s] = NoRow
      BY <1>1, <2>1, CandidateRow
    <3> QED BY <1>12, <3>1 DEF Whole!SigWalk, Whole!Considered, Whole!pairs
  <2>3. pairT[turn] = NoRow /\ stage = "sigWalk" /\ stage' = stage /\ turn' = turn + 1
        /\ table' = table /\ turn < n["target"]
    BY <1>12 DEF Whole!SigWalk
  <2>4. Inverses'
    BY <1>1, <1>2, <1>3, <2>1, <2>2, <2>3, PairWithKeeps
  <2>5. TurnType'
    BY <1>2, <1>4, <2>3 DEF TurnType
  <2> QED BY <1>3, <2>3, <2>4, <2>5 DEF WholeType
<1>13. CASE Whole!SkipPaired
  <2>1. UNCHANGED Whole!pairs /\ stage = "sigWalk" /\ stage' = stage /\ turn' = turn + 1
        /\ table' = table /\ turn < n["target"]
    BY <1>13 DEF Whole!SkipPaired
  <2>2. TurnType'
    BY <1>2, <1>4, <2>1 DEF TurnType
  <2> QED BY <1>3, <2>1, <2>2 DEF WholeType
<1> QED
  BY <1>1, <1>6, <1>7, <1>8, <1>9, <1>10, <1>11, <1>12, <1>13 DEF Whole!Next

\* The arrays diff_run hands a pair of files without a key are in shape.
LEMMA WholeStart == InitWhole /\ Whole!Fresh => WholeType
<1> SUFFICES ASSUME InitWhole, Whole!Fresh PROVE WholeType
  OBVIOUS
<1>1. PICK family, files :
        /\ family \in DOMAIN Unkeyed /\ files \in Unkeyed[family]
        /\ n = [side \in Side |-> Len(files[side])]
        /\ cells = [side \in Side |-> [r \in Rows(side) |-> files[side][r + 1].cells]]
        /\ digest = [side \in Side |-> [r \in Rows(side) |-> files[side][r + 1].digest]]
        /\ opts = files.opts
  BY Zenon DEF InitWhole
<1>2. /\ \A side \in Side : Len(files[side]) \in 0 .. MaxRows
      /\ opts.columns \in Nat /\ opts.sigColumns \in Nat \ {0} /\ opts.maxEntries \in Nat
      /\ opts.k \in Nat /\ opts.percent \in Nat /\ opts.maxWork \in Nat
      /\ \A e \in 0 .. opts.maxEntries : \E c \in Capacities : FitsTwice(e, c)
      /\ \A side \in Side : \A r \in 1 .. Len(files[side]) :
           /\ files[side][r].digest \in Nat
           /\ \A c \in 1 .. opts.columns : SigHash(Whole!Value(files[side][r].cells[c]), c) \in Nat
  BY <1>1, UnkeyedAssumption DEF Given
<1>3. n \in [Side -> 0 .. MaxRows] /\ n \in [Side -> Nat] /\ MaxRows \in Nat
  BY <1>1, <1>2, MatchAssumption
<1>4. GivenType
  <2>1. ASSUME NEW side \in Side, NEW r \in Rows(side)
        PROVE  /\ digest[side][r] \in Nat
               /\ \A c \in Whole!Columns : Whole!Sig(cells[side][r], c) \in Nat
    <3>1. r + 1 \in 1 .. Len(files[side]) /\ n[side] = Len(files[side])
      BY <1>1, <1>3 DEF Rows
    <3>2. digest[side][r] = files[side][r + 1].digest
          /\ cells[side][r] = files[side][r + 1].cells
      BY <1>1
    <3>3. /\ files[side][r + 1].digest \in Nat
          /\ \A c \in 1 .. opts.columns : SigHash(Whole!Value(files[side][r + 1].cells[c]), c) \in Nat
      BY <1>2, <3>1
    <3> QED BY <3>2, <3>3 DEF Whole!Sig, Whole!Columns
  <2>2. \A e \in 0 .. opts.maxEntries : Capacity(e) \in Nat /\ Capacity(e) >= 2 * e + 1
    <3> SUFFICES ASSUME NEW e \in 0 .. opts.maxEntries
                 PROVE  Capacity(e) \in Nat /\ Capacity(e) >= 2 * e + 1
      OBVIOUS
    <3>1. Capacity(e) \in Capacities /\ FitsTwice(e, Capacity(e))
      BY <1>2 DEF Capacity
    <3> QED BY <3>1, MatchAssumption DEF FitsTwice
  <2>3. Capacity(n["source"]) \in Nat /\ Capacity(n["source"]) >= 2 * n["source"] + 1
    <3>1. n["source"] \in 0 .. MaxRows
      BY <1>3 DEF Side
    <3> QED BY <3>1, CapacityFits
  <2> QED BY <1>2, <2>1, <2>2, <2>3 DEF GivenType
<1>5. /\ pairT = [t \in Targets |-> NoRow] /\ pairS = [s \in Sources |-> NoRow]
      /\ stage = "exactIndex" /\ turn = 0 /\ table = Whole!NewTable(n["source"]) /\ ~keyed
  BY WholeNames DEF Whole!Fresh, InitWhole, Targets, Sources
<1>6. n["source"] \in Nat
  BY <1>3 DEF Side
<1>7. TableType
  BY <1>4, <1>5, <1>6, NewTableType DEF TableType, GivenType
<1>8. Inverses
  <2>1. PairedT = pairT /\ PairedS = pairS
    BY <1>5 DEF PairedT, PairedS
  <2>2. Targets \subseteq Int /\ Sources \subseteq Int /\ NoRow \notin Targets /\ NoRow \notin Sources
    BY <1>3 DEF Targets, Sources, Rows, Side
  <2> QED BY <1>3, <1>5, <2>1, <2>2 DEF Inverses
<1>9. TurnType
  BY <1>5, <1>6 DEF TurnType
<1> QED
  BY <1>4, <1>5, <1>7, <1>8, <1>9 DEF WholeType

-----------------------------------------------------------------------------
(* ibha_match: the pairs are final once moves are looked for.              *)

Finished == IF keyed THEN phase = "done" ELSE stage = "paired"

\* The matcher that runs keeps its own invariant, and leaves maps that are inverse
\* to each other; nothing is marked before it has finished.
MatchedInv ==
  /\ keyed \in BOOLEAN
  /\ keyed => IInv
  /\ ~keyed => WholeType
  /\ Inverses
  /\ moves = "idle" => Moves!Fresh
  /\ moves # "idle" => Finished /\ MovesInv

\* Rows paired by key are paired in both maps.
LEMMA KeyedInverses == keyed /\ IInv => Inverses
<1> SUFFICES ASSUME keyed, IInv PROVE Inverses
  OBVIOUS
<1>1. TypeOK /\ PairsSound
  BY DEF IInv, MatchInv
<1>2. PairedT = t2s /\ PairedS = s2t
  BY DEF PairedT, PairedS
<1>3. n \in [Side -> Nat]
  BY <1>1, MatchAssumption DEF TypeOK
<1>4. t2s \in [Targets -> Sources \cup {NoRow}] /\ s2t \in [Sources -> Targets \cup {NoRow}]
  BY <1>1 DEF TypeOK, Targets, Sources
<1>5. \A s \in Sources, t \in Targets : t2s[t] = s <=> s2t[s] = t
  BY <1>1 DEF PairsSound, Targets, Sources
<1> QED
  BY <1>2, <1>3, <1>4, <1>5 DEF Inverses

\* Nothing the matcher of rows without a key knows is lost while moves are looked for.
LEMMA WholeStays == WholeType /\ UNCHANGED <<n, keyed, wholeVars>> => WholeType'
<1> SUFFICES ASSUME WholeType, UNCHANGED <<n, keyed, wholeVars>> PROVE WholeType'
  OBVIOUS
<1>1. /\ n' = n /\ digest' = digest /\ cells' = cells /\ opts' = opts /\ table' = table
      /\ keyed' = keyed /\ pairT' = pairT /\ pairS' = pairS /\ turn' = turn /\ stage' = stage
  BY DEF wholeVars
<1>2. GivenType' /\ TableType' /\ Targets' = Targets
  BY <1>1, GivenKept DEF WholeType
<1>3. Inverses'
  BY <1>1, PairsKept DEF WholeType, Whole!pairs
<1>4. TurnType'
  BY <1>1, <1>2 DEF WholeType, TurnType
<1> QED
  BY <1>1, <1>2, <1>3, <1>4 DEF WholeType

\* The invariant holds when ibha_match is called.
LEMMA MatchedStart == MatchInit => MatchedInv
<1> SUFFICES ASSUME MatchInit PROVE MatchedInv
  OBVIOUS
<1>1. keyed \in BOOLEAN /\ Moves!Fresh /\ moves = "idle"
  BY DEF MatchInit, Moves!Fresh
<1>2. CASE InitKeyed
  <2>1. keyed /\ IInv
    BY <1>2, InitIInv DEF InitKeyed
  <2> QED BY <1>1, <2>1, KeyedInverses DEF MatchedInv
<1>3. CASE InitWhole
  <2>1. ~keyed /\ WholeType
    BY <1>3, WholeStart DEF InitWhole, MatchInit
  <2>2. Inverses
    BY <2>1 DEF WholeType
  <2> QED BY <1>1, <2>1, <2>2 DEF MatchedInv
<1> QED
  BY <1>2, <1>3 DEF MatchInit

\* A matcher that has finished makes no more turns.
LEMMA NoMoreTurns ==
  /\ phase = "done" => ~Next
  /\ stage = "paired" => ~Whole!Next
<1>1. phase = "done" => ~Next
  BY DEF Next, BeginRow, ProbeOn, Place, Duplicate, Added, Pair, EndLoop, Probing
<1>2. stage = "paired" => ~Whole!Next
  BY DEF Whole!Next, Whole!ExactIndex, Whole!ExactWalk, Whole!EndLoop, Whole!NothingLeft,
         Whole!TooManyLeft, Whole!IndexLeft, Whole!SigIndex, Whole!SigWalk, Whole!SkipPaired,
         Whole!OutOfWork
<1> QED BY <1>1, <1>2

\* The marks are fresh for as long as they are left alone.
LEMMA FreshStays == Moves!Fresh /\ n' = n /\ UNCHANGED moveVars => Moves!Fresh' /\ moves' = moves
BY DEF Moves!Fresh, Moves!Rows, moveVars

\* A step that changes nothing keeps the invariant of the five loops.
LEMMA MovesInvStays ==
  ASSUME Inverses, MovesInv, Frame, UNCHANGED moveVars
  PROVE  MovesInv'
<1>1. /\ moves' = moves /\ at' = at /\ rank' = rank /\ dist' = dist /\ moved' = moved /\ m' = m
      /\ jt' = jt /\ len' = len /\ tails' = tails /\ prev' = prev /\ lo' = lo /\ hi' = hi
      /\ k' = k
  BY DEF moveVars
<1>2. /\ Targets' = Targets /\ Pairs' = Pairs /\ n' = n /\ PairedT' = PairedT /\ detect' = detect
      /\ \A t : InFront(t)' = InFront(t) /\ Below(t)' = Below(t) /\ Shift(t)' = Shift(t)
  BY FrameKeeps
<1>3. Searched' = Searched /\ Top' = Top /\ Stacked' = Stacked
  BY <1>1, <1>2 DEF Searched, Top, Stacked
<1>4. \A j : V(j)' = V(j)
  BY <1>1, <1>2 DEF V
<1>5. Moves!Kept' = Moves!Kept /\ (Moves!Increasing(Moves!Kept) => Moves!Increasing(Moves!Kept)')
  <2>1. Moves!Kept' = Moves!Kept
    BY <1>1, <1>2 DEF Moves!Kept, Pairs
  <2> QED BY <1>2, <2>1 DEF Moves!Increasing
<1>6. MovesType'
  BY <1>1, <1>2 DEF MovesInv, MovesType
<1>7. Ranked'
  BY <1>1, <1>2 DEF MovesInv, Ranked
<1>8. Asked' /\ Marked'
  BY <1>1, <1>2, <1>3 DEF MovesInv, Asked, Marked
<1>9. Listed'
  BY <1>1, <1>2, <1>3 DEF MovesInv, Listed
<1>10. PilesKnown'
  <2>1. PICK c : Chain(c) /\ Piled(c) /\ Unwound(c)
    BY DEF MovesInv, PilesKnown
  <2>2. Chain(c)'
    BY <1>1, <1>2, <2>1 DEF Chain
  <2>3. Piled(c)'
    BY <1>1, <1>2, <1>3, <1>4, <2>1 DEF Piled
  <2>4. Unwound(c)'
    BY <1>1, <1>2, <1>3, <1>4, <1>5, <2>1 DEF Unwound
  <2>5. Sought'
    BY <1>1, <1>2, <1>4 DEF MovesInv, PilesKnown, Sought
  <2> QED BY <2>2, <2>3, <2>4, <2>5 DEF PilesKnown
<1> QED
  BY <1>6, <1>7, <1>8, <1>9, <1>10 DEF MovesInv

\* Every step of ibha_match keeps the invariant.
LEMMA MatchedKept == MatchedInv /\ [MatchNext]_matchVars => MatchedInv'
<1> SUFFICES ASSUME MatchedInv, [MatchNext]_matchVars PROVE MatchedInv'
  OBVIOUS
<1>1. /\ keyed \in BOOLEAN /\ Inverses
      /\ keyed => IInv
      /\ ~keyed => WholeType
      /\ moves = "idle" => Moves!Fresh
      /\ moves # "idle" => Finished /\ MovesInv
  BY DEF MatchedInv
<1>2. CASE MatchKeyed
  <2>1. keyed /\ keyed' = keyed /\ Next /\ UNCHANGED moveVars
    BY <1>2 DEF MatchKeyed
  <2>2. IInv' /\ n' = n
    BY <1>1, <2>1, NextIInv DEF Next, BeginRow, ProbeOn, Place, Duplicate, Added, Pair, EndLoop,
       inputs
  <2>3. moves = "idle"
    BY <1>1, <2>1, NoMoreTurns DEF Finished
  <2>4. Moves!Fresh' /\ moves' = "idle"
    BY <1>1, <2>1, <2>2, <2>3, FreshStays
  <2>5. (keyed /\ IInv => Inverses)'
    BY KeyedInverses, PTL
  <2> QED BY <1>1, <2>1, <2>2, <2>4, <2>5 DEF MatchedInv
<1>3. CASE MatchWhole
  <2>1. ~keyed /\ keyed' = keyed /\ Whole!Next /\ UNCHANGED moveVars
    BY <1>3 DEF MatchWhole
  <2>2. WholeType' /\ n' = n
    BY <1>1, <1>3, <2>1, WholeTypeKept DEF Whole!Next, Whole!given, Whole!ExactIndex,
       Whole!ExactWalk, Whole!EndLoop, Whole!NothingLeft, Whole!TooManyLeft, Whole!IndexLeft,
       Whole!SigIndex, Whole!SigWalk, Whole!SkipPaired, Whole!OutOfWork
  <2>3. moves = "idle"
    BY <1>1, <2>1, NoMoreTurns DEF Finished
  <2>4. Moves!Fresh' /\ moves' = "idle"
    BY <1>1, <2>1, <2>2, <2>3, FreshStays
  <2>5. Inverses'
    BY <2>2 DEF WholeType
  <2> QED BY <1>1, <2>1, <2>2, <2>4, <2>5 DEF MatchedInv
<1>4. ASSUME UNCHANGED <<n, keyed, keyedVars, wholeVars>>
      PROVE  /\ keyed' = keyed /\ keyed' \in BOOLEAN /\ Inverses' /\ (Finished => Finished')
             /\ keyed' => IInv'
             /\ ~keyed' => WholeType'
             /\ n' = n /\ PairedT' = PairedT /\ PairedS' = PairedS
  <2>1. /\ keyed' = keyed /\ n' = n /\ key' = key /\ hash' = hash /\ phase' = phase /\ row' = row
        /\ idx' = idx /\ slot' = slot /\ t2s' = t2s /\ s2t' = s2t /\ dup' = dup
        /\ stage' = stage /\ pairT' = pairT /\ pairS' = pairS
    BY <1>4 DEF keyedVars, wholeVars
  <2>2. keyed => IInv'
    <3>1. UNCHANGED vars
      BY <2>1 DEF vars
    <3> QED BY <1>1, <3>1, NextIInv
  <2>3. ~keyed => WholeType'
    BY <1>1, <1>4, WholeStays
  <2>4. PairedT' = PairedT /\ PairedS' = PairedS
    BY <2>1 DEF PairedT, PairedS
  <2>5. Inverses'
    BY <1>1, <2>1, <2>4 DEF Inverses, Targets, Sources, Rows
  <2> QED BY <1>1, <2>1, <2>2, <2>3, <2>4, <2>5 DEF Finished
<1>5. CASE DetectMoves
  <2>1. UNCHANGED <<n, keyed, keyedVars, wholeVars>> /\ Moves!Next /\ Finished
    BY <1>5 DEF DetectMoves, Finished
  <2>2. detect' = detect /\ moves' # "idle"
    BY <2>1 DEF Moves!Next, Moves!Begin, Moves!RankSource, Moves!RankTarget, Moves!EndRank,
       Moves!List, Moves!EndList, Moves!Halve, Moves!Put, Moves!EndSearch, Moves!Unwind, Moves!input
  <2>3. Frame
    BY <1>4, <2>1, <2>2 DEF Frame
  <2>4. MovesInv
    BY <1>1, FreshIsSound
  <2>5. MovesInv'
    BY <1>1, <2>1, <2>3, <2>4, MovesInvKept
  <2> QED BY <1>4, <2>1, <2>2, <2>5 DEF MatchedInv
<1>6. CASE UNCHANGED matchVars
  <2>1. UNCHANGED <<n, keyed, keyedVars, wholeVars>> /\ UNCHANGED moveVars
    BY <1>6 DEF matchVars
  <2>2. detect' = detect /\ moves' = moves
    BY <2>1 DEF moveVars
  <2>3. moves = "idle" => Moves!Fresh'
    BY <1>1, <1>4, <2>1, FreshStays
  <2>4. moves # "idle" => Finished' /\ MovesInv'
    BY <1>1, <1>4, <2>1, <2>2, MovesInvStays DEF Frame
  <2> QED BY <1>4, <2>1, <2>2, <2>3, <2>4 DEF MatchedInv
<1> QED
  BY <1>2, <1>3, <1>5, <1>6 DEF MatchNext

\* For files of any length, whichever matcher runs and however the digests fall,
\* the invariant holds at every turn.
THEOREM MatchedInvariant == MatchSpec => []MatchedInv
BY MatchedStart, MatchedKept, PTL DEF MatchSpec

\* Whatever pairing the matchers leave: the piles' tails increase, every row is
\* linked to a smaller row before it, and the chain from pile p is p + 1 rows long.
THEOREM PilesCorrect == MatchSpec => []PilesSound
<1>1. MatchedInv => PilesSound
  BY PilesFollow DEF MatchedInv, PilesSound
<1> QED BY <1>1, MatchedInvariant, PTL

\* For files of any length: the rows not called moved are a longest run of paired
\* rows in both files' order.
THEOREM KeptRowsAreLongest == MatchSpec => []KeptIsLongest
<1>1. MatchedInv => KeptIsLongest
  BY KeptFollows, FreshIsSound DEF MatchedInv, KeptIsLongest
<1> QED BY <1>1, MatchedInvariant, PTL

\* For files of any length: a row's distance is its shift in rank among the paired
\* rows, and where nothing is called moved no row has a distance.
THEOREM DistancesAreShifts == MatchSpec => []DistanceIsRankShift
<1>1. MatchedInv => DistanceIsRankShift
  BY DistanceFollows, FreshIsSound DEF MatchedInv, DistanceIsRankShift
<1> QED BY <1>1, MatchedInvariant, PTL

-----------------------------------------------------------------------------
(* Pairing by digest: the table keeps rows of one digest in their order    *)
(* along the probe, so the walk pairs the first with the first.            *)

\* What is divided is the quotient times the divisor and the remainder.
LEMMA Division ==
  ASSUME NEW a \in Nat, NEW b \in Nat, b > 0
  PROVE  a \div b \in Nat /\ a % b \in Nat /\ a = b * (a \div b) + (a % b)
<1>1. a \div b \in Nat
  <2>1. \A c \in Nat, d \in Nat \ {0} : c \div d \in Nat
    BY Z3
  <2> QED BY <2>1
<1>2. a % b \in Nat
  <2>1. a % b \in 0 .. b - 1
    BY Remainder
  <2> QED BY <2>1
<1>3. a = b * (a \div b) + (a % b)
  BY Z3
<1> QED BY <1>1, <1>2, <1>3

\* A probe visits no slot twice.
LEMMA SlotsDiffer ==
  ASSUME NEW cap \in Nat \ {0}, NEW h \in Nat, NEW i \in 0 .. cap - 1, NEW j \in 0 .. cap - 1,
         (h + i) % cap = (h + j) % cap
  PROVE  i = j
<1>1. PICK p \in Nat, q \in Nat, r \in Nat : h + i = cap * p + r /\ h + j = cap * q + r
  <2> DEFINE a == h + i
             b == h + j
  <2>1. a \in Nat /\ b \in Nat
    OBVIOUS
  <2> HIDE DEF a, b
  <2>2. PICK p \in Nat, r \in Nat : a = cap * p + r /\ r = a % cap
    <3>1. a \div cap \in Nat /\ a % cap \in Nat /\ a = cap * (a \div cap) + (a % cap)
      BY <2>1, Division
    <3>2. \E d \in Nat : d = a \div cap
      BY <3>1
    <3>3. \E d \in Nat : a = cap * d + (a % cap)
      BY <3>1, <3>2
    <3> QED BY <3>1, <3>3
  <2>3. PICK q \in Nat, s \in Nat : b = cap * q + s /\ s = b % cap
    <3>1. b \div cap \in Nat /\ b % cap \in Nat /\ b = cap * (b \div cap) + (b % cap)
      BY <2>1, Division
    <3>2. \E d \in Nat : d = b \div cap
      BY <3>1
    <3>3. \E d \in Nat : b = cap * d + (b % cap)
      BY <3>1, <3>2
    <3> QED BY <3>1, <3>3
  <2>4. r = s
    BY <2>2, <2>3 DEF a, b
  <2>5. a = cap * p + r /\ b = cap * q + r
    BY <2>2, <2>3, <2>4
  <2> QED BY <2>5 DEF a, b
<1>2. \A a \in Nat, b \in Nat \ {0} : a * b >= a
  BY Z3
<1>3. \A a, b, c \in Int : a * b - a * c = a * (b - c)
  BY Z3
<1>4. CASE p = q
  <2>1. cap * p = cap * q /\ cap * p \in Nat
    BY <1>4
  <2> QED BY <1>1, <2>1
<1>5. CASE p > q
  <2>1. p - q \in Nat \ {0} /\ cap \in Nat
    BY <1>5
  <2>2. cap * (p - q) >= cap /\ cap * p - cap * q = cap * (p - q)
    BY <1>2, <1>3, <2>1
  <2>3. cap * p \in Nat /\ cap * q \in Nat /\ cap * (p - q) \in Int
    BY <2>1
  <2> QED BY <1>1, <2>2, <2>3
<1>6. CASE q > p
  <2>1. q - p \in Nat \ {0} /\ cap \in Nat
    BY <1>6
  <2>2. cap * (q - p) >= cap /\ cap * q - cap * p = cap * (q - p)
    BY <1>2, <1>3, <2>1
  <2>3. cap * p \in Nat /\ cap * q \in Nat /\ cap * (q - p) \in Int
    BY <2>1
  <2> QED BY <1>1, <2>2, <2>3
<1> QED
  BY <1>4, <1>5, <1>6

\* The place of x among the elements of A.
RankIn(A, x) == Cardinality({q \in A : q < x})

\* Ranks count, and the later of two elements has the higher one.
LEMMA RanksCount ==
  ASSUME NEW A \in SUBSET Nat, IsFiniteSet(A)
  PROVE  /\ \A x : RankIn(A, x) \in Nat
         /\ \A x, y \in A : x < y => RankIn(A, x) + 1 <= RankIn(A, y)
<1>1. \A x : IsFiniteSet({q \in A : q < x}) /\ RankIn(A, x) \in Nat
  <2> TAKE x
  <2>1. {q \in A : q < x} \in SUBSET A
    OBVIOUS
  <2> QED BY <2>1, FS_Subset, FS_CardinalityType DEF RankIn
<1>2. ASSUME NEW x \in A, NEW y \in A, x < y PROVE RankIn(A, x) + 1 <= RankIn(A, y)
  <2> DEFINE B == {q \in A : q < x}
  <2>1. IsFiniteSet(B) /\ x \notin B
    BY <1>1
  <2>2. Cardinality(B \cup {x}) = Cardinality(B) + 1
    BY <2>1, FS_AddElement
  <2>3. B \cup {x} \in SUBSET {q \in A : q < y}
    <3>1. \A q \in A : q < x => q < y
      BY <1>2
    <3> QED BY <1>2, <3>1
  <2>4. Cardinality(B \cup {x}) <= RankIn(A, y)
    BY <1>1, <2>3, FS_Subset DEF RankIn
  <2> QED BY <2>2, <2>4 DEF RankIn
<1> QED
  BY <1>1, <1>2

\* Every rank up to that of an element is the rank of one, no later than it.
LEMMA RanksOnto ==
  ASSUME NEW A \in SUBSET Nat, IsFiniteSet(A), NEW x \in A, NEW R \in Nat, R <= RankIn(A, x)
  PROVE  \E y \in A : RankIn(A, y) = R /\ y <= x
<1> DEFINE High == {y \in A : R <= RankIn(A, y)}
<1>1. PICK y \in High : \A z \in High : y <= z
  <2>1. High \in SUBSET Nat /\ High # {}
    OBVIOUS
  <2> HIDE DEF High
  <2> QED BY <2>1, LeastElement
<1>2. y \in A /\ R <= RankIn(A, y) /\ y <= x
  BY <1>1
<1>3. SUFFICES ASSUME RankIn(A, y) # R PROVE FALSE
  BY <1>2
<1> DEFINE B == {q \in A : q < y}
<1>4. IsFiniteSet(B) /\ Cardinality(B) \in Nat /\ Cardinality(B) > R
  <2>1. B \in SUBSET A /\ Cardinality(B) = RankIn(A, y)
    BY DEF RankIn
  <2> QED BY <1>2, <1>3, <2>1, FS_Subset, RanksCount
\* The last element before y has the rank before.
<1>5. PICK z \in B : \A q \in B : q <= z
  <2> DEFINE Gaps == {d \in 0 .. y : y - d \in B}
  <2>1. B # {}
    <3>1. Cardinality({}) = 0
      BY FS_EmptySet
    <3> HIDE DEF B
    <3> QED BY <1>4, <3>1
  <2>2. \A q \in B : q \in Nat /\ q < y /\ y \in Nat
    BY <1>2
  <2> HIDE DEF B
  <2>3. \A q \in B : y - q \in Gaps
    <3> TAKE q \in B
    <3>1. y - q \in 0 .. y /\ y - (y - q) = q
      BY <2>2
    <3> QED BY <3>1
  <2>4. Gaps \in SUBSET Nat /\ Gaps # {}
    BY <2>1, <2>3
  <2>5. PICK d \in Gaps : \A e \in Gaps : d <= e
    <3> HIDE DEF Gaps
    <3> QED BY <2>4, LeastElement
  <2>6. y - d \in B /\ d \in Nat
    BY <2>5
  <2>7. \A q \in B : q <= y - d
    <3> TAKE q \in B
    <3>1. d <= y - q
      BY <2>3, <2>5
    <3> QED BY <2>2, <2>6, <3>1
  <2> QED BY <2>6, <2>7
<1>6. z \in A /\ z < y
  BY <1>5
<1>7. B = {q \in A : q < z} \cup {z}
  <2>1. \A q \in A : q < y <=> q < z \/ q = z
    <3> TAKE q \in A
    <3>1. q < y => q <= z
      BY <1>5
    <3>2. q \in Nat /\ z \in Nat /\ y \in Nat
      BY <1>2, <1>6
    <3> QED BY <1>6, <3>1, <3>2
  <2> QED BY <1>6, <2>1
<1>8. RankIn(A, y) = RankIn(A, z) + 1
  <2>1. {q \in A : q < z} \in SUBSET A /\ z \notin {q \in A : q < z}
    OBVIOUS
  <2>2. IsFiniteSet({q \in A : q < z})
    BY <2>1, FS_Subset
  <2> QED BY <1>7, <2>1, <2>2, FS_AddElement DEF RankIn
<1>9. z \in High /\ ~(y <= z)
  <2>1. RankIn(A, z) \in Nat /\ RankIn(A, y) \in Nat
    BY RanksCount
  <2> QED BY <1>2, <1>3, <1>6, <1>8, <2>1
<1> QED
  BY <1>1, <1>9

Dig(s) == digest["source"][s]

\* A table of cap slots holds the rows of P and no others, each in one slot, under
\* its digest, where a probe for it gets to; and of two rows a probe for their one
\* digest meets the one that comes first in the file first.
Filed(tab, cap, P) ==
  /\ tab \in [0 .. cap - 1 -> Entries]
  /\ \A p \in 0 .. cap - 1 :
       tab[p] # Whole!Vacant => tab[p].row \in P /\ tab[p].h = Dig(tab[p].row)
  /\ \A s \in P : \E i \in Whole!Met(tab, Dig(s)) : Whole!At(tab, Dig(s), i).row = s
  /\ \A p, q \in 0 .. cap - 1 :
       tab[p] # Whole!Vacant /\ tab[q] # Whole!Vacant /\ tab[p].row = tab[q].row => p = q
  /\ \A h \in Nat : \A i, j \in Whole!Met(tab, h) :
       i < j /\ Whole!At(tab, h, i).h = h /\ Whole!At(tab, h, j).h = h =>
         Whole!At(tab, h, i).row < Whole!At(tab, h, j).row

\* A probe meets slots of the table, none of them vacant.
LEMMA MetSlots ==
  ASSUME NEW cap \in Nat \ {0}, NEW tab, DOMAIN tab = 0 .. cap - 1, NEW h \in Nat
  PROVE  /\ Whole!Met(tab, h) \subseteq 0 .. cap - 1
         /\ \A i \in Whole!Met(tab, h) : Whole!At(tab, h, i) # Whole!Vacant
         /\ \A i \in Whole!Met(tab, h) : \A j \in 0 .. i : j \in Whole!Met(tab, h)
         /\ \A i \in 0 .. cap - 1 :
              /\ Whole!Slot(tab, h, i) \in 0 .. cap - 1
              /\ Whole!At(tab, h, i) = tab[Whole!Slot(tab, h, i)]
         /\ \A i, j \in 0 .. cap - 1 : Whole!Slot(tab, h, i) = Whole!Slot(tab, h, j) => i = j
<1>1. Whole!Met(tab, h) \subseteq 0 .. cap - 1
  BY DEF Whole!Met
<1>2. ASSUME NEW i \in Whole!Met(tab, h)
      PROVE  Whole!At(tab, h, i) # Whole!Vacant /\ \A j \in 0 .. i : j \in Whole!Met(tab, h)
  <2>1. i \in 0 .. cap - 1 /\ i \in 0 .. i
    BY <1>1
  <2>2. \A j \in 0 .. i : j \in 0 .. cap - 1 /\ \A l \in 0 .. j : l \in 0 .. i
    BY <2>1
  <2> QED BY <2>1, <2>2 DEF Whole!Met
<1>3. \A i \in 0 .. cap - 1 :
        /\ Whole!Slot(tab, h, i) = (h + i) % cap
        /\ Whole!Slot(tab, h, i) \in 0 .. cap - 1
        /\ Whole!At(tab, h, i) = tab[Whole!Slot(tab, h, i)]
  <2> TAKE i \in 0 .. cap - 1
  <2>1. i \in Nat
    OBVIOUS
  <2> QED BY <2>1, SlotInTable DEF Whole!At
<1>4. ASSUME NEW i \in 0 .. cap - 1, NEW j \in 0 .. cap - 1,
             Whole!Slot(tab, h, i) = Whole!Slot(tab, h, j)
      PROVE  i = j
  <2>1. (h + i) % cap = (h + j) % cap
    BY <1>3, <1>4
  <2> QED BY <2>1, SlotsDiffer
<1> QED
  BY <1>1, <1>2, <1>3, <1>4

\* While there are fewer rows than slots a probe meets a vacant slot.
LEMMA RoomLeft ==
  ASSUME NEW cap \in Nat \ {0}, NEW tab, NEW P, Filed(tab, cap, P),
         IsFiniteSet(P), Cardinality(P) < cap, NEW h \in Nat
  PROVE  \E i \in 0 .. cap - 1 : Whole!At(tab, h, i) = Whole!Vacant
<1>1. SUFFICES ASSUME \A i \in 0 .. cap - 1 : Whole!At(tab, h, i) # Whole!Vacant PROVE FALSE
  OBVIOUS
<1>2. DOMAIN tab = 0 .. cap - 1
  BY DEF Filed
<1>3. /\ \A i \in 0 .. cap - 1 :
           /\ Whole!Slot(tab, h, i) \in 0 .. cap - 1
           /\ Whole!At(tab, h, i) = tab[Whole!Slot(tab, h, i)]
      /\ \A i, j \in 0 .. cap - 1 : Whole!Slot(tab, h, i) = Whole!Slot(tab, h, j) => i = j
  BY <1>2, MetSlots
<1> DEFINE f == [i \in 0 .. cap - 1 |-> Whole!At(tab, h, i).row]
<1>4. f \in [0 .. cap - 1 -> P]
  BY <1>1, <1>3 DEF Filed
<1>5. IsFiniteSet(0 .. cap - 1) /\ Cardinality(0 .. cap - 1) = cap
  BY FS_Interval
<1>6. PICK i \in 0 .. cap - 1, j \in 0 .. cap - 1 : i # j /\ f[i] = f[j]
  <2> HIDE DEF f
  <2> QED BY <1>4, <1>5, FS_PigeonHole
<1>7. Whole!At(tab, h, i).row = Whole!At(tab, h, j).row
  BY <1>6
<1>8. Whole!Slot(tab, h, i) = Whole!Slot(tab, h, j)
  <2> HIDE DEF f
  <2>1. \A p, q \in 0 .. cap - 1 :
          tab[p] # Whole!Vacant /\ tab[q] # Whole!Vacant /\ tab[p].row = tab[q].row => p = q
    BY DEF Filed
  <2>2. /\ Whole!Slot(tab, h, i) \in 0 .. cap - 1 /\ Whole!Slot(tab, h, j) \in 0 .. cap - 1
        /\ Whole!At(tab, h, i) = tab[Whole!Slot(tab, h, i)]
        /\ Whole!At(tab, h, j) = tab[Whole!Slot(tab, h, j)]
    BY <1>3
  <2>3. Whole!At(tab, h, i) # Whole!Vacant /\ Whole!At(tab, h, j) # Whole!Vacant
    BY <1>1
  <2> QED BY <1>7, <2>1, <2>2, <2>3
<1> QED
  BY <1>3, <1>6, <1>8

\* An element of a table that a probe for its digest gets to is met on the way.
LEMMA FiledIsMet ==
  ASSUME NEW cap \in Nat \ {0}, NEW tab, NEW P, P \subseteq Sources,
         \A s \in Sources : Dig(s) \in Nat, Filed(tab, cap, P),
         NEW h \in Nat, NEW i \in 0 .. cap - 1,
         Whole!At(tab, h, i) # Whole!Vacant, Whole!At(tab, h, i).h = h
  PROVE  i \in Whole!Met(tab, h)
<1>1. DOMAIN tab = 0 .. cap - 1
  BY DEF Filed
<1>2. /\ \A l \in 0 .. cap - 1 :
           /\ Whole!Slot(tab, h, l) \in 0 .. cap - 1
           /\ Whole!At(tab, h, l) = tab[Whole!Slot(tab, h, l)]
      /\ \A a, b \in 0 .. cap - 1 : Whole!Slot(tab, h, a) = Whole!Slot(tab, h, b) => a = b
      /\ \A l \in Whole!Met(tab, h) : l \in 0 .. cap - 1 /\ Whole!At(tab, h, l) # Whole!Vacant
  BY <1>1, MetSlots
<1>3. PICK s \in P : s = Whole!At(tab, h, i).row /\ Dig(s) = h
  BY <1>2 DEF Filed
<1>4. PICK j \in Whole!Met(tab, h) : Whole!At(tab, h, j).row = s
  BY <1>3 DEF Filed
<1>5. Whole!Slot(tab, h, j) = Whole!Slot(tab, h, i)
  <2>1. /\ Whole!Slot(tab, h, i) \in 0 .. cap - 1 /\ Whole!Slot(tab, h, j) \in 0 .. cap - 1
        /\ tab[Whole!Slot(tab, h, i)] # Whole!Vacant /\ tab[Whole!Slot(tab, h, j)] # Whole!Vacant
        /\ tab[Whole!Slot(tab, h, i)].row = tab[Whole!Slot(tab, h, j)].row
    BY <1>2, <1>3, <1>4
  <2> QED BY <2>1 DEF Filed
<1>6. j = i
  BY <1>2, <1>4, <1>5
<1> QED
  BY <1>4, <1>6

\* A row that comes after those filed is filed at the first vacant slot of its probe.
LEMMA InsertFiles ==
  ASSUME NEW cap \in Nat \ {0}, NEW tab, NEW P, P \subseteq Sources, Sources \subseteq Nat,
         IsFiniteSet(P), Cardinality(P) < cap, \A s \in Sources : Dig(s) \in Nat,
         Filed(tab, cap, P), NEW r \in Sources, \A s \in P : s < r
  PROVE  Filed(Whole!Insert(tab, Dig(r), r), cap, P \cup {r})
<1> DEFINE h0 == Dig(r)
           Vacancies == {i \in 0 .. cap - 1 : Whole!At(tab, h0, i) = Whole!Vacant}
           R == Whole!Reach(tab, h0)
           p0 == Whole!Slot(tab, h0, R)
           e0 == [h |-> h0, row |-> r]
           new == Whole!Insert(tab, h0, r)
<1>1. DOMAIN tab = 0 .. cap - 1 /\ h0 \in Nat
  BY DEF Filed
<1>2. \A h \in Nat :
        /\ \A i \in 0 .. cap - 1 :
             /\ Whole!Slot(tab, h, i) \in 0 .. cap - 1
             /\ Whole!At(tab, h, i) = tab[Whole!Slot(tab, h, i)]
        /\ \A i, j \in 0 .. cap - 1 : Whole!Slot(tab, h, i) = Whole!Slot(tab, h, j) => i = j
        /\ Whole!Met(tab, h) \subseteq 0 .. cap - 1
        /\ \A i \in Whole!Met(tab, h) : Whole!At(tab, h, i) # Whole!Vacant
        /\ \A i \in Whole!Met(tab, h) : \A j \in 0 .. i : j \in Whole!Met(tab, h)
  BY <1>1, MetSlots
<1>3. /\ R \in 0 .. cap - 1 /\ Whole!At(tab, h0, R) = Whole!Vacant
      /\ \A j \in 0 .. R - 1 : Whole!At(tab, h0, j) # Whole!Vacant
  <2>1. Vacancies # {} /\ Vacancies \in SUBSET Nat
    <3>1. \E i \in 0 .. cap - 1 : Whole!At(tab, h0, i) = Whole!Vacant
      <4> HIDE DEF h0
      <4> QED BY <1>1, RoomLeft
    <3> QED BY <3>1
  <2>2. PICK i \in Vacancies : \A j \in Vacancies : i <= j
    <3> HIDE DEF Vacancies
    <3> QED BY <2>1, LeastElement
  <2>3. \A j \in 0 .. i - 1 : j \in 0 .. cap - 1 /\ ~(i <= j)
    BY <2>2
  <2>4. i \in DOMAIN tab /\ Whole!At(tab, h0, i) = Whole!Vacant
        /\ \A j \in 0 .. i - 1 : Whole!At(tab, h0, j) # Whole!Vacant
    BY <1>1, <2>2, <2>3
  <2>5. \E l \in DOMAIN tab : /\ Whole!At(tab, h0, l) = Whole!Vacant
                              /\ \A j \in 0 .. l - 1 : Whole!At(tab, h0, j) # Whole!Vacant
    BY <2>4
  <2> HIDE DEF h0
  <2> QED BY <1>1, <2>5, Zenon DEF Whole!Reach
<1>4. p0 \in 0 .. cap - 1 /\ tab[p0] = Whole!Vacant
  BY <1>1, <1>2, <1>3
<1>5. new = [tab EXCEPT ![p0] = e0]
  BY DEF Whole!Insert
<1> HIDE DEF new, p0, R, Vacancies
<1>6. e0 # Whole!Vacant /\ e0 \in Entries /\ e0.row = r /\ e0.h = h0
  BY <1>1 DEF Entries, Whole!Vacant
<1> HIDE DEF e0
<1>7. /\ tab \in [0 .. cap - 1 -> Entries] /\ new \in [0 .. cap - 1 -> Entries]
      /\ DOMAIN new = 0 .. cap - 1 /\ new[p0] = e0
      /\ \A p \in 0 .. cap - 1 : p # p0 => new[p] = tab[p]
  BY <1>4, <1>5, <1>6 DEF Filed
<1>8. \A p \in 0 .. cap - 1 : tab[p] # Whole!Vacant =>
        tab[p].row \in P /\ tab[p].h = Dig(tab[p].row) /\ tab[p].row < r /\ p # p0
  BY <1>4 DEF Filed
<1>9. \A h, i : Whole!Slot(new, h, i) = Whole!Slot(tab, h, i)
  BY <1>1, <1>7 DEF Whole!Slot
<1>10. \A h \in Nat : \A i \in 0 .. cap - 1 :
         Whole!At(new, h, i) = IF Whole!Slot(tab, h, i) = p0 THEN e0 ELSE Whole!At(tab, h, i)
  BY <1>2, <1>7, <1>9 DEF Whole!At
<1>11. \A h \in Nat : \A i \in 0 .. cap - 1 :
         Whole!At(tab, h, i) # Whole!Vacant =>
           Whole!At(new, h, i) = Whole!At(tab, h, i) /\ Whole!At(new, h, i) # Whole!Vacant
  <2> TAKE h \in Nat
  <2> TAKE i \in 0 .. cap - 1
  <2>1. Whole!At(tab, h, i) = tab[Whole!Slot(tab, h, i)]
    BY <1>2
  <2>2. Whole!At(tab, h, i) # Whole!Vacant => Whole!Slot(tab, h, i) # p0
    BY <1>4, <2>1
  <2> QED BY <1>10, <2>2
<1>12. ASSUME NEW h \in Nat PROVE Whole!Met(tab, h) \subseteq Whole!Met(new, h)
  <2> SUFFICES ASSUME NEW i \in Whole!Met(tab, h) PROVE i \in Whole!Met(new, h)
    OBVIOUS
  <2>1. i \in 0 .. cap - 1 /\ \A j \in 0 .. i : j \in Whole!Met(tab, h)
    BY <1>2
  <2>2. \A j \in 0 .. i : Whole!At(new, h, j) # Whole!Vacant
    BY <1>2, <1>11, <2>1
  <2> QED BY <1>7, <2>1, <2>2 DEF Whole!Met
<1>13. R \in Whole!Met(new, h0) /\ Whole!At(new, h0, R) = e0
  <2>1. Whole!At(new, h0, R) = e0
    BY <1>1, <1>3, <1>10 DEF p0
  <2>2. \A j \in 0 .. R : j \in 0 .. cap - 1 /\ (j = R \/ j \in 0 .. R - 1)
    BY <1>3
  <2>3. \A j \in 0 .. R : Whole!At(new, h0, j) # Whole!Vacant
    BY <1>1, <1>3, <1>6, <1>11, <2>1, <2>2
  <2> QED BY <1>3, <1>7, <2>1, <2>3 DEF Whole!Met
<1>14. ASSUME NEW p \in 0 .. cap - 1, new[p] # Whole!Vacant
       PROVE  new[p].row \in P \cup {r} /\ new[p].h = Dig(new[p].row)
  BY <1>6, <1>7, <1>8, <1>14
<1>15. ASSUME NEW s \in P \cup {r}
       PROVE  \E i \in Whole!Met(new, Dig(s)) : Whole!At(new, Dig(s), i).row = s
  <2>1. CASE s = r
    BY <1>6, <1>13, <2>1
  <2>2. CASE s \in P
    <3>1. PICK i \in Whole!Met(tab, Dig(s)) : Whole!At(tab, Dig(s), i).row = s
      BY <2>2 DEF Filed
    <3>2. Dig(s) \in Nat
      BY <2>2
    <3>3. i \in Whole!Met(new, Dig(s)) /\ Whole!At(new, Dig(s), i) = Whole!At(tab, Dig(s), i)
      BY <1>2, <1>11, <1>12, <3>1, <3>2
    <3> QED BY <3>1, <3>3
  <2> QED BY <2>1, <2>2
<1>16. ASSUME NEW p \in 0 .. cap - 1, NEW q \in 0 .. cap - 1,
              new[p] # Whole!Vacant, new[q] # Whole!Vacant, new[p].row = new[q].row
       PROVE  p = q
  <2>1. \A s \in P : s # r
    <3>1. r \in Nat /\ ~(r < r)
      OBVIOUS
    <3> QED BY <3>1
  <2>2. CASE p = p0 \/ q = p0
    BY <1>6, <1>7, <1>8, <1>16, <2>1, <2>2
  <2>3. CASE p # p0 /\ q # p0
    <3>1. new[p] = tab[p] /\ new[q] = tab[q]
      BY <1>7, <2>3
    <3> QED BY <1>16, <3>1 DEF Filed
  <2> QED BY <2>2, <2>3
<1>17. ASSUME NEW h \in Nat, NEW i \in Whole!Met(new, h), NEW j \in Whole!Met(new, h),
              i < j, Whole!At(new, h, i).h = h, Whole!At(new, h, j).h = h
       PROVE  Whole!At(new, h, i).row < Whole!At(new, h, j).row
  <2>1. /\ i \in 0 .. cap - 1 /\ j \in 0 .. cap - 1 /\ i # j
        /\ Whole!At(new, h, i) # Whole!Vacant /\ Whole!At(new, h, j) # Whole!Vacant
    BY <1>7, <1>17, MetSlots
  <2>2. /\ Whole!Slot(tab, h, i) # Whole!Slot(tab, h, j)
        /\ Whole!Slot(tab, h, i) \in 0 .. cap - 1 /\ Whole!Slot(tab, h, j) \in 0 .. cap - 1
        /\ Whole!At(tab, h, i) = tab[Whole!Slot(tab, h, i)]
        /\ Whole!At(tab, h, j) = tab[Whole!Slot(tab, h, j)]
    BY <1>2, <2>1
  <2>3. ASSUME NEW l \in 0 .. cap - 1, Whole!Slot(tab, h, l) # p0,
               Whole!At(new, h, l) # Whole!Vacant, Whole!At(new, h, l).h = h
        PROVE  Whole!At(new, h, l) = Whole!At(tab, h, l) /\ l \in Whole!Met(tab, h)
    <3>1. Whole!At(new, h, l) = Whole!At(tab, h, l)
      BY <1>10, <2>3
    <3> QED BY <2>3, <3>1, FiledIsMet
  <2>4. CASE Whole!Slot(tab, h, i) # p0 /\ Whole!Slot(tab, h, j) # p0
    <3>1. /\ Whole!At(new, h, i) = Whole!At(tab, h, i) /\ i \in Whole!Met(tab, h)
          /\ Whole!At(new, h, j) = Whole!At(tab, h, j) /\ j \in Whole!Met(tab, h)
      BY <1>17, <2>1, <2>3, <2>4
    <3> QED BY <1>17, <3>1 DEF Filed
  <2>5. CASE Whole!Slot(tab, h, j) = p0
    <3>1. Whole!At(new, h, j) = e0 /\ Whole!At(new, h, i) = Whole!At(tab, h, i)
      BY <1>10, <2>1, <2>2, <2>5
    <3>2. Whole!At(tab, h, i).row < r
      BY <1>8, <2>1, <2>2, <3>1
    <3> QED BY <1>6, <3>1, <3>2
  <2>6. CASE Whole!Slot(tab, h, i) = p0 /\ Whole!Slot(tab, h, j) # p0
    <3>1. h = h0
      BY <1>6, <1>10, <1>17, <2>1, <2>6
    <3>2. i = R
      BY <1>2, <1>3, <2>1, <2>6, <3>1 DEF p0
    <3>3. j \in Whole!Met(tab, h)
      BY <1>17, <2>1, <2>3, <2>6
    <3>4. R \in 0 .. j
      BY <1>3, <1>17, <2>1, <3>2
    <3>5. Whole!At(tab, h0, R) # Whole!Vacant
      BY <1>2, <3>1, <3>3, <3>4
    <3> QED BY <1>3, <3>5
  <2> QED BY <2>4, <2>5, <2>6
<1>18. Filed(new, cap, P \cup {r})
  BY <1>7, <1>14, <1>15, <1>16, <1>17 DEF Filed
<1> QED
  BY <1>18 DEF new

\* The rows of a side with one digest, and how many rows of its digest come before one.
LEMMA RanksAre ==
  ASSUME WholeType, NEW side \in Side
  PROVE  /\ \A h : /\ Whole!Alike(side, h) \in SUBSET Nat /\ IsFiniteSet(Whole!Alike(side, h))
                   /\ Whole!Alike(side, h) = {r \in Rows(side) : digest[side][r] = h}
         /\ \A r : Whole!Rank(side, r) = RankIn(Whole!Alike(side, digest[side][r]), r)
<1>1. n[side] \in Nat
  BY DEF WholeType, Inverses
<1>2. Rows(side) \in SUBSET Nat /\ IsFiniteSet(Rows(side))
  BY <1>1, FS_Interval DEF Rows
<1>3. ASSUME NEW h
      PROVE  /\ Whole!Alike(side, h) \in SUBSET Nat /\ IsFiniteSet(Whole!Alike(side, h))
             /\ Whole!Alike(side, h) = {r \in Rows(side) : digest[side][r] = h}
  <2>1. Whole!Alike(side, h) = {r \in Rows(side) : digest[side][r] = h}
    BY WholeNames DEF Whole!Alike
  <2>2. Whole!Alike(side, h) \in SUBSET Rows(side)
    BY <2>1
  <2> QED BY <1>2, <2>1, <2>2, FS_Subset
<1>4. \A r : Whole!Rank(side, r) = RankIn(Whole!Alike(side, digest[side][r]), r)
  BY WholeNames, Zenon DEF Whole!Rank, RankIn
<1> QED BY <1>3, <1>4

\* Of two rows with one digest the later has the higher rank, and every lower rank
\* is that of an earlier row.
LEMMA RanksOrder ==
  ASSUME WholeType, NEW side \in Side
  PROVE  /\ \A r : Whole!Rank(side, r) \in Nat
         /\ \A q, r \in Rows(side) : digest[side][q] = digest[side][r] /\ q < r =>
              Whole!Rank(side, q) < Whole!Rank(side, r)
         /\ \A q, r \in Rows(side) :
              digest[side][q] = digest[side][r] /\ Whole!Rank(side, q) = Whole!Rank(side, r) => q = r
         /\ \A r \in Rows(side), R \in Nat : R <= Whole!Rank(side, r) =>
              \E q \in Rows(side) :
                digest[side][q] = digest[side][r] /\ Whole!Rank(side, q) = R /\ q <= r
<1>1. /\ \A h : /\ Whole!Alike(side, h) \in SUBSET Nat /\ IsFiniteSet(Whole!Alike(side, h))
                /\ Whole!Alike(side, h) = {r \in Rows(side) : digest[side][r] = h}
      /\ \A r : Whole!Rank(side, r) = RankIn(Whole!Alike(side, digest[side][r]), r)
  BY RanksAre
<1>2. \A r : Whole!Rank(side, r) \in Nat
  BY <1>1, RanksCount
<1>3. ASSUME NEW q \in Rows(side), NEW r \in Rows(side), digest[side][q] = digest[side][r], q < r
      PROVE  Whole!Rank(side, q) < Whole!Rank(side, r)
  <2>1. PICK A : A = Whole!Alike(side, digest[side][r])
    OBVIOUS
  <2>2. q \in A /\ r \in A /\ A \in SUBSET Nat /\ IsFiniteSet(A)
    BY <1>1, <1>3, <2>1
  <2>3. RankIn(A, q) + 1 <= RankIn(A, r) /\ RankIn(A, q) \in Nat /\ RankIn(A, r) \in Nat
    BY <1>3, <2>2, RanksCount
  <2>4. Whole!Rank(side, q) = RankIn(A, q) /\ Whole!Rank(side, r) = RankIn(A, r)
    BY <1>1, <1>3, <2>1
  <2> QED BY <2>3, <2>4
<1>4. ASSUME NEW q \in Rows(side), NEW r \in Rows(side), digest[side][q] = digest[side][r],
             Whole!Rank(side, q) = Whole!Rank(side, r)
      PROVE  q = r
  <2>1. q \in Nat /\ r \in Nat
    BY <1>1, <1>4
  <2>2. ~(q < r) /\ ~(r < q)
    <3>1. \A x \in Nat : ~(x < x)
      OBVIOUS
    <3> QED BY <1>2, <1>3, <1>4, <3>1
  <2> QED BY <2>1, <2>2
<1>5. ASSUME NEW r \in Rows(side), NEW R \in Nat, R <= Whole!Rank(side, r)
      PROVE  \E q \in Rows(side) :
               digest[side][q] = digest[side][r] /\ Whole!Rank(side, q) = R /\ q <= r
  <2>1. PICK A : A = Whole!Alike(side, digest[side][r])
    OBVIOUS
  <2>2. r \in A /\ A \in SUBSET Nat /\ IsFiniteSet(A) /\ R <= RankIn(A, r)
    BY <1>1, <1>5, <2>1
  <2>3. PICK q \in A : RankIn(A, q) = R /\ q <= r
    BY <2>2, RanksOnto
  <2>4. q \in Rows(side) /\ digest[side][q] = digest[side][r]
    BY <1>1, <2>1, <2>3
  <2>5. Whole!Rank(side, q) = RankIn(A, q)
    BY <1>1, <2>1, <2>4
  <2> QED BY <2>3, <2>4, <2>5
<1> QED
  BY <1>2, <1>3, <1>4, <1>5

\* The target rows before top are paired with the source rows of their digest and
\* rank, and no others are.
PairedUpTo(top) ==
  \A s \in Sources, t \in Targets : pairT[t] = s <=> t < top /\ Whole!Exact(s, t)

\* The digests have had their say, and likeness did not overrule them.
DigestsStand ==
  \A s \in Sources, t \in Targets :
    /\ Whole!Exact(s, t) => pairT[t] = s
    /\ pairT[t] = s => Whole!Exact(s, t) \/ digest["source"][s] # digest["target"][t]

ExactInv ==
  /\ stage = "exactIndex" => Filed(table, Capacity(n["source"]), 0 .. turn - 1)
  /\ stage = "exactWalk" => /\ Filed(table, Capacity(n["source"]), Sources)
                            /\ PairedUpTo(turn)
  /\ stage \notin {"exactIndex", "exactWalk"} => DigestsStand

\* A source row of the digest in hand is free when it ranks no lower than the row.
LEMMA FreeByRank ==
  ASSUME WholeType, PairedUpTo(turn), NEW s \in Sources, turn \in Targets,
         digest["source"][s] = digest["target"][turn]
  PROVE  pairS[s] = NoRow <=> Whole!Rank("target", turn) <= Whole!Rank("source", s)
<1>1. "source" \in Side /\ "target" \in Side
  BY DEF Side
<1>2. /\ Whole!Rank("source", s) \in Nat /\ Whole!Rank("target", turn) \in Nat
      /\ Targets \subseteq Nat
  BY <1>1, RanksOrder, PairsAre DEF WholeType
<1>3. /\ pairS \in [Sources -> Targets \cup {NoRow}]
      /\ \A t \in Targets : pairT[t] = s <=> pairS[s] = t
  BY DEF WholeType, Inverses, PairedT, PairedS
<1>4. ASSUME pairS[s] # NoRow PROVE Whole!Rank("source", s) < Whole!Rank("target", turn)
  <2>1. PICK t \in Targets : pairS[s] = t
    BY <1>3, <1>4
  <2>2. t < turn /\ Whole!Exact(s, t)
    BY <1>3, <2>1 DEF PairedUpTo
  <2>3. digest["target"][t] = digest["target"][turn]
    BY <2>2 DEF Whole!Exact
  <2>4. Whole!Rank("target", t) < Whole!Rank("target", turn)
    BY <1>1, <2>2, <2>3, RanksOrder DEF Targets
  <2> QED BY <2>2, <2>4 DEF Whole!Exact
<1>5. ASSUME Whole!Rank("source", s) < Whole!Rank("target", turn) PROVE pairS[s] # NoRow
  <2>1. PICK t \in Targets : /\ digest["target"][t] = digest["target"][turn]
                             /\ Whole!Rank("target", t) = Whole!Rank("source", s) /\ t <= turn
    <3>1. Whole!Rank("source", s) <= Whole!Rank("target", turn)
      BY <1>2, <1>5
    <3> QED BY <1>1, <1>2, <3>1, RanksOrder DEF Targets
  <2>2. t < turn
    <3>1. t # turn
      BY <1>2, <1>5, <2>1
    <3> QED BY <1>2, <2>1, <3>1
  <2>3. Whole!Exact(s, t)
    BY <2>1 DEF Whole!Exact
  <2>4. pairS[s] = t
    BY <1>3, <2>2, <2>3 DEF PairedUpTo
  <2>5. NoRow \notin Targets
    BY <1>2
  <2> QED BY <2>4, <2>5
<1> QED
  BY <1>2, <1>4, <1>5

\* The first free row along the probe is the one of the row's own rank; where none
\* is free there is no such row.
LEMMA FirstFree ==
  ASSUME WholeType, PairedUpTo(turn), turn \in Targets,
         Filed(table, Capacity(n["source"]), Sources)
  PROVE  LET h == digest["target"][turn]
         IN  /\ Whole!Found(h) = {} => \A s \in Sources : ~Whole!Exact(s, turn)
             /\ \A i \in Whole!Found(h) :
                  (\A j \in Whole!Found(h) : i <= j) =>
                    Whole!At(table, h, i).row \in Sources /\ Whole!Exact(Whole!At(table, h, i).row, turn)
<1> DEFINE h == digest["target"][turn]
           cap == Capacity(n["source"])
           row0(i) == Whole!At(table, h, i).row
<1>1. "source" \in Side /\ "target" \in Side
  BY DEF Side
<1>2. h \in Nat /\ cap \in Nat \ {0} /\ TableType /\ n["source"] \in Nat
  BY <1>1, PairsAre DEF WholeType, GivenType, Targets
<1>3. DOMAIN table = 0 .. cap - 1 /\ Sources \subseteq Nat
  BY PairsAre DEF WholeType, Filed
<1>11. \A i \in Whole!Met(table, h) :
         /\ i \in 0 .. cap - 1 /\ Whole!At(table, h, i) # Whole!Vacant
         /\ Whole!Slot(table, h, i) \in 0 .. cap - 1
         /\ Whole!At(table, h, i) = table[Whole!Slot(table, h, i)]
  <2> HIDE DEF h, cap
  <2>1. /\ Whole!Met(table, h) \subseteq 0 .. cap - 1
        /\ \A i \in Whole!Met(table, h) : Whole!At(table, h, i) # Whole!Vacant
        /\ \A i \in 0 .. cap - 1 :
             /\ Whole!Slot(table, h, i) \in 0 .. cap - 1
             /\ Whole!At(table, h, i) = table[Whole!Slot(table, h, i)]
    BY <1>2, <1>3, MetSlots
  <2> QED BY <2>1
<1> DEFINE R == Whole!Rank("target", turn)
<1>4. R \in Nat /\ \A s \in Sources : Whole!Rank("source", s) \in Nat
  BY <1>1, RanksOrder
<1> DEFINE Free == {s \in Sources : digest["source"][s] = h /\ pairS[s] = NoRow}
<1>5. ASSUME NEW i \in Whole!Found(h)
      PROVE  row0(i) \in Free /\ i \in Whole!Met(table, h) /\ Whole!At(table, h, i).h = h
  <2>1. row0(i) \in Sources /\ pairS[row0(i)] = NoRow
    BY <1>2, FoundRow
  <2>2. i \in Whole!Met(table, h) /\ Whole!At(table, h, i).h = h
    BY DEF Whole!Found
  <2>3. /\ i \in 0 .. cap - 1 /\ Whole!At(table, h, i) # Whole!Vacant
        /\ Whole!Slot(table, h, i) \in 0 .. cap - 1
        /\ Whole!At(table, h, i) = table[Whole!Slot(table, h, i)]
    BY <1>11, <2>2
  <2>4. Whole!At(table, h, i).h = Dig(row0(i))
    BY <2>3 DEF Filed
  <2> QED BY <2>1, <2>2, <2>4 DEF Dig
<1>6. ASSUME NEW s \in Free PROVE \E i \in Whole!Found(h) : row0(i) = s
  <2>1. s \in Sources /\ Dig(s) = h /\ pairS[s] = NoRow
    BY DEF Dig
  <2>2. PICK i \in Whole!Met(table, h) : Whole!At(table, h, i).row = s
    BY <2>1 DEF Filed
  <2>3. /\ i \in 0 .. cap - 1 /\ Whole!At(table, h, i) # Whole!Vacant
        /\ Whole!Slot(table, h, i) \in 0 .. cap - 1
        /\ Whole!At(table, h, i) = table[Whole!Slot(table, h, i)]
    BY <1>11, <2>2
  <2>4. Whole!At(table, h, i).h = h
    BY <2>1, <2>2, <2>3 DEF Filed
  <2> QED BY <2>1, <2>2, <2>4 DEF Whole!Found
<1>7. ASSUME NEW s \in Sources, digest["source"][s] = h
      PROVE  s \in Free <=> R <= Whole!Rank("source", s)
  BY <1>7, FreeByRank
<1>8. \A s \in Sources : Whole!Exact(s, turn) <=> digest["source"][s] = h /\ Whole!Rank("source", s) = R
  BY DEF Whole!Exact
<1>9. ASSUME Whole!Found(h) = {}, NEW s \in Sources, Whole!Exact(s, turn) PROVE FALSE
  <2>1. digest["source"][s] = h /\ R <= Whole!Rank("source", s)
    BY <1>4, <1>8, <1>9
  <2> HIDE DEF Free, row0, h, R
  <2> QED BY <1>6, <1>7, <1>9, <2>1
<1>10. ASSUME NEW i \in Whole!Found(h), \A j \in Whole!Found(h) : i <= j
       PROVE  row0(i) \in Sources /\ Whole!Exact(row0(i), turn)
  <2>1. PICK s \in Sources : s = row0(i) /\ s \in Free /\ digest["source"][s] = h
    BY <1>5
  <2>2. R <= Whole!Rank("source", s)
    BY <1>7, <2>1
  <2>3. PICK u \in Sources : digest["source"][u] = h /\ Whole!Rank("source", u) = R /\ u <= s
    <3> HIDE DEF h, R
    <3> QED BY <1>1, <1>4, <2>1, <2>2, RanksOrder DEF Sources
  <2>4. u \in Free
    BY <1>4, <1>7, <2>3
  <2>5. PICK j \in Whole!Found(h) : row0(j) = u
    BY <1>6, <2>4
  <2>6. s <= u
    <3>1. i \in Nat /\ j \in Nat /\ i <= j /\ s \in Nat /\ u \in Nat
      <4>1. i \in 0 .. cap - 1 /\ j \in 0 .. cap - 1
        BY <1>3, <1>5, <2>5 DEF Whole!Met
      <4> QED BY <1>3, <1>10, <2>5, <4>1
    <3>2. CASE i = j
      BY <2>1, <2>5, <3>1, <3>2
    <3>3. CASE i < j
      <4>1. Whole!At(table, h, i).row < Whole!At(table, h, j).row
        BY <1>2, <1>5, <2>5, <3>3 DEF Filed
      <4> QED BY <2>1, <2>5, <3>1, <4>1
    <3> QED BY <3>1, <3>2, <3>3
  <2>7. s = u
    BY <1>3, <2>3, <2>6
  <2> QED BY <1>8, <2>1, <2>3, <2>7
<1> QED
  BY <1>9, <1>10

\* A new table holds no row.
LEMMA ExactStart == InitWhole /\ Whole!Fresh => ExactInv
<1> SUFFICES ASSUME InitWhole, Whole!Fresh PROVE ExactInv
  OBVIOUS
<1>1. WholeType
  BY WholeStart
<1>2. stage = "exactIndex" /\ turn = 0 /\ table = Whole!NewTable(n["source"])
  BY DEF Whole!Fresh
<1> DEFINE cap == Capacity(n["source"])
<1>3. n["source"] \in Nat /\ cap \in Nat /\ cap >= 2 * n["source"] + 1
  BY <1>1, PairsAre DEF WholeType, GivenType
<1>4. table = [p \in 0 .. cap - 1 |-> Whole!Vacant] /\ table \in [0 .. cap - 1 -> Entries]
      /\ cap \in Nat \ {0}
  BY <1>2, <1>3, NewTableType, WholeNames DEF Whole!NewTable
<1>5. 0 .. turn - 1 = {}
  BY <1>2
<1>6. \A h \in Nat : Whole!Met(table, h) = {}
  <2> TAKE h \in Nat
  <2>1. \A i \in Whole!Met(table, h) :
          /\ i \in 0 .. cap - 1 /\ Whole!At(table, h, i) # Whole!Vacant
          /\ Whole!Slot(table, h, i) \in 0 .. cap - 1
          /\ Whole!At(table, h, i) = table[Whole!Slot(table, h, i)]
    <3> HIDE DEF cap
    <3>1. DOMAIN table = 0 .. cap - 1
      BY <1>4
    <3> QED BY <1>4, <3>1, MetSlots
  <2> QED BY <1>4, <2>1
<1>7. Filed(table, cap, {})
  BY <1>4, <1>6 DEF Filed
<1> QED
  BY <1>2, <1>5, <1>7 DEF ExactInv

\* What is said of the digests and the ranks stays so while the files do.
LEMMA ExactNames ==
  ASSUME n' = n, digest' = digest
  PROVE  /\ Targets' = Targets /\ Sources' = Sources
         /\ \A s, t : Whole!Exact(s, t)' = Whole!Exact(s, t)
         /\ \A tab, cap, P : Filed(tab, cap, P) => Filed(tab, cap, P)'
         /\ pairT' = pairT /\ DigestsStand => DigestsStand'
         /\ \A top : pairT' = pairT /\ PairedUpTo(top) => PairedUpTo(top)'
<1>1. Targets' = Targets /\ Sources' = Sources /\ Entries' = Entries
  BY DEF Targets, Sources, Rows, Entries, Whole!Vacant
<1>2. \A side, r : Whole!Rank(side, r)' = Whole!Rank(side, r)
  BY DEF Whole!Rank, Whole!Alike, Whole!Rows
<1>3. \A s, t : Whole!Exact(s, t)' = Whole!Exact(s, t)
  BY <1>2 DEF Whole!Exact
<1>4. \A tab, cap, P : Filed(tab, cap, P) => Filed(tab, cap, P)'
  <2>1. \A s : Dig(s)' = Dig(s)
    BY DEF Dig
  <2>2. \A tab, h, i : /\ Whole!At(tab, h, i)' = Whole!At(tab, h, i)
                       /\ Whole!Met(tab, h)' = Whole!Met(tab, h)
    BY DEF Whole!At, Whole!Met, Whole!Slot, Whole!Vacant
  <2>3. Whole!Vacant' = Whole!Vacant
    BY DEF Whole!Vacant
  <2> SUFFICES ASSUME NEW tab, NEW cap, NEW P, Filed(tab, cap, P) PROVE Filed(tab, cap, P)'
    OBVIOUS
  <2>4. (tab \in [0 .. cap - 1 -> Entries])'
    BY <1>1 DEF Filed
  <2>5. (\A p \in 0 .. cap - 1 :
           tab[p] # Whole!Vacant => tab[p].row \in P /\ tab[p].h = Dig(tab[p].row))'
    BY <2>1, <2>3 DEF Filed
  <2>6. (\A s \in P : \E i \in Whole!Met(tab, Dig(s)) : Whole!At(tab, Dig(s), i).row = s)'
    BY <2>1, <2>2 DEF Filed
  <2>7. (\A p, q \in 0 .. cap - 1 :
           tab[p] # Whole!Vacant /\ tab[q] # Whole!Vacant /\ tab[p].row = tab[q].row => p = q)'
    BY <2>3 DEF Filed
  <2>8. (\A h \in Nat : \A i, j \in Whole!Met(tab, h) :
           i < j /\ Whole!At(tab, h, i).h = h /\ Whole!At(tab, h, j).h = h =>
             Whole!At(tab, h, i).row < Whole!At(tab, h, j).row)'
    BY <2>2 DEF Filed
  <2> QED BY <2>4, <2>5, <2>6, <2>7, <2>8 DEF Filed
<1>5. pairT' = pairT /\ DigestsStand => DigestsStand'
  BY <1>1, <1>3 DEF DigestsStand
<1>6. \A top : pairT' = pairT /\ PairedUpTo(top) => PairedUpTo(top)'
  BY <1>1, <1>3 DEF PairedUpTo
<1> QED BY <1>1, <1>3, <1>4, <1>5, <1>6

\* Likeness pairs rows whose digests differ: of two rows with one digest and no
\* pair each would have been paired by its rank, or neither.
LEMMA LikenessDiffers ==
  ASSUME WholeType, DigestsStand, NEW s \in Sources, NEW t \in Targets,
         pairS[s] = NoRow, pairT[t] = NoRow
  PROVE  digest["source"][s] # digest["target"][t]
<1>1. SUFFICES ASSUME digest["source"][s] = digest["target"][t] PROVE FALSE
  OBVIOUS
<1>2. "source" \in Side /\ "target" \in Side
  BY DEF Side
<1>3. /\ Whole!Rank("source", s) \in Nat /\ Whole!Rank("target", t) \in Nat
      /\ NoRow \notin Targets /\ NoRow \notin Sources
  BY <1>2, RanksOrder, PairsAre DEF WholeType
<1>4. \A a \in Sources, b \in Targets : pairT[b] = a <=> pairS[a] = b
  BY DEF WholeType, Inverses, PairedT, PairedS
<1>5. CASE Whole!Rank("source", s) <= Whole!Rank("target", t)
  <2>1. PICK b \in Targets : /\ digest["target"][b] = digest["target"][t]
                             /\ Whole!Rank("target", b) = Whole!Rank("source", s)
    BY <1>2, <1>3, <1>5, RanksOrder DEF Targets
  <2>2. Whole!Exact(s, b)
    BY <1>1, <2>1 DEF Whole!Exact
  <2>3. pairS[s] = b
    BY <1>4, <2>2 DEF DigestsStand
  <2> QED BY <1>3, <2>3
<1>6. CASE Whole!Rank("target", t) <= Whole!Rank("source", s)
  <2>1. PICK a \in Sources : /\ digest["source"][a] = digest["source"][s]
                             /\ Whole!Rank("source", a) = Whole!Rank("target", t)
    BY <1>2, <1>3, <1>6, RanksOrder DEF Sources
  <2>2. Whole!Exact(a, t)
    BY <1>1, <2>1 DEF Whole!Exact
  <2>3. pairT[t] = a
    BY <2>2 DEF DigestsStand
  <2> QED BY <1>3, <2>3
<1> QED
  BY <1>3, <1>5, <1>6

\* Every turn of the matcher keeps the rows filed and the digests in their right.
LEMMA ExactKept == WholeType /\ ExactInv /\ MatchWhole => ExactInv'
<1> SUFFICES ASSUME WholeType, ExactInv, MatchWhole PROVE ExactInv'
  OBVIOUS
<1>1. /\ ~keyed /\ Inverses /\ GivenType /\ TableType /\ TurnType /\ Whole!Next
  BY DEF WholeType, MatchWhole
<1>2. n' = n /\ digest' = digest
  BY <1>1 DEF Whole!Next, Whole!given, Whole!ExactIndex, Whole!ExactWalk, Whole!EndLoop,
     Whole!NothingLeft, Whole!TooManyLeft, Whole!IndexLeft, Whole!SigIndex, Whole!SigWalk,
     Whole!SkipPaired, Whole!OutOfWork
<1> DEFINE cap == Capacity(n["source"])
<1>3. /\ cap' = cap /\ cap \in Nat \ {0} /\ cap > n["source"]
      /\ n["source"] \in Nat /\ n["target"] \in Nat /\ turn \in Nat
      /\ Targets \subseteq Nat /\ Sources \subseteq Nat
      /\ \A s \in Sources : Dig(s) \in Nat
  <2>1. \A s \in Sources : Dig(s) \in Nat
    BY <1>1 DEF GivenType, Dig, Sources, Side
  <2>2. cap' = cap
    BY <1>2 DEF Capacity
  <2>3. n["source"] \in Nat /\ cap \in Nat /\ cap >= 2 * n["source"] + 1
    BY <1>1, PairsAre DEF GivenType
  <2>4. cap \in Nat \ {0} /\ cap > n["source"]
    <3> HIDE DEF cap
    <3> QED BY <2>3
  <2> QED BY <1>1, <2>1, <2>2, <2>3, <2>4, PairsAre DEF TurnType
<1> HIDE DEF cap
<1>4. /\ Targets' = Targets /\ Sources' = Sources
      /\ \A s, t : Whole!Exact(s, t)' = Whole!Exact(s, t)
      /\ \A tab, c, P : Filed(tab, c, P) => Filed(tab, c, P)'
      /\ pairT' = pairT /\ DigestsStand => DigestsStand'
      /\ \A top : pairT' = pairT /\ PairedUpTo(top) => PairedUpTo(top)'
  BY <1>2, ExactNames
<1>5. /\ pairT \in [Targets -> Sources \cup {NoRow}] /\ pairS \in [Sources -> Targets \cup {NoRow}]
      /\ \A a \in Sources, b \in Targets : pairT[b] = a <=> pairS[a] = b
  BY <1>1 DEF Inverses, PairedT, PairedS
<1>6. CASE Whole!ExactIndex
  <2>1. turn < n["source"] /\ turn' = turn + 1 /\ stage = "exactIndex" /\ stage' = stage
        /\ table' = Whole!Insert(table, Dig(turn), turn)
    BY <1>6 DEF Whole!ExactIndex, Dig
  <2>2. PICK r \in Sources, P \in SUBSET Sources : r = turn /\ P = 0 .. r - 1
    BY <1>3, <2>1 DEF Sources, Rows
  <2>3. IsFiniteSet(P) /\ Cardinality(P) = r /\ r < cap /\ \A s \in P : s < r
    <3>1. r \in Nat /\ r < n["source"]
      BY <1>3, <2>1, <2>2
    <3>2. Cardinality(P) = r /\ IsFiniteSet(P)
      BY <2>2, <3>1, FS_Interval
    <3> QED BY <1>3, <2>2, <3>1, <3>2
  <2>4. Filed(table, cap, P)
    BY <2>1, <2>2 DEF ExactInv, cap
  <2>5. Filed(Whole!Insert(table, Dig(r), r), cap, P \cup {r})
    BY <1>3, <2>2, <2>3, <2>4, InsertFiles
  <2>6. P \cup {r} = 0 .. turn' - 1
    BY <1>3, <2>1, <2>2
  <2>7. PICK tab : tab = Whole!Insert(table, Dig(r), r)
    OBVIOUS
  <2>8. PICK Q : Q = P \cup {r}
    OBVIOUS
  <2>9. PICK c : c = cap
    OBVIOUS
  <2>10. Filed(tab, c, Q)'
    BY <1>4, <2>5, <2>7, <2>8, <2>9
  <2>11. table' = tab /\ Q = 0 .. turn' - 1 /\ c = cap'
    BY <1>3, <2>1, <2>2, <2>6, <2>7, <2>8, <2>9
  <2>12. Filed(table, cap, 0 .. turn - 1)'
    BY <2>10, <2>11
  <2> QED BY <2>1, <2>12 DEF ExactInv, cap
<1>7. CASE Whole!ExactWalk
  <2>1. turn < n["target"] /\ turn' = turn + 1 /\ stage = "exactWalk" /\ stage' = stage
        /\ table' = table
    BY <1>7 DEF Whole!ExactWalk
  <2>2. PICK u \in Targets : u = turn
    BY <1>3, <2>1 DEF Targets, Rows
  <2>3. Filed(table, cap, Sources) /\ PairedUpTo(turn) /\ pairT[u] = NoRow
    BY <1>1, <1>3, <2>1, <2>2 DEF ExactInv, TurnType, cap
  <2> DEFINE h == digest["target"][turn]
  <2>4. /\ Whole!Found(h) = {} => \A s \in Sources : ~Whole!Exact(s, turn)
        /\ \A i \in Whole!Found(h) :
             (\A j \in Whole!Found(h) : i <= j) =>
               Whole!At(table, h, i).row \in Sources /\ Whole!Exact(Whole!At(table, h, i).row, turn)
    BY <2>2, <2>3, FirstFree DEF cap
  <2>5. \/ pairT' = pairT /\ \A s \in Sources : ~Whole!Exact(s, u)
        \/ \E s \in Sources : Whole!Exact(s, u) /\ pairT' = [pairT EXCEPT ![u] = s]
    <3> HIDE DEF h
    <3>1. IF Whole!Found(h) = {} THEN pairT' = pairT
          ELSE \E i \in Whole!Found(h) :
                 /\ \A j \in Whole!Found(h) : i <= j
                 /\ pairT' = [pairT EXCEPT ![turn] = Whole!At(table, h, i).row]
      BY <1>7 DEF Whole!ExactWalk, Whole!PairWith, Whole!pairs, h
    <3> QED BY <2>2, <2>4, <3>1
  <2>6. \A s, a \in Sources : Whole!Exact(s, u) /\ Whole!Exact(a, u) => s = a
    <3>1. "source" \in Side
      BY DEF Side
    <3> QED BY <3>1, RanksOrder DEF Whole!Exact, Sources
  <2>7. NoRow \notin Sources
    BY <1>3
  <2>8. ASSUME NEW s \in Sources, NEW t \in Targets
        PROVE  pairT'[t] = s <=> t < turn + 1 /\ Whole!Exact(s, t)
    <3>1. CASE t = u
      <4>1. t < turn + 1
        BY <1>3, <2>2, <3>1
      <4>2. CASE pairT' = pairT /\ \A a \in Sources : ~Whole!Exact(a, u)
        BY <2>3, <2>7, <3>1, <4>1, <4>2
      <4>3. ASSUME NEW a \in Sources, Whole!Exact(a, u), pairT' = [pairT EXCEPT ![u] = a]
            PROVE  pairT'[t] = s <=> t < turn + 1 /\ Whole!Exact(s, t)
        <5>1. pairT'[t] = a
          BY <1>5, <3>1, <4>3
        <5> QED BY <2>6, <3>1, <4>1, <4>3, <5>1
      <4> QED BY <2>5, <4>2, <4>3
    <3>2. CASE t # u
      <4>1. pairT'[t] = pairT[t]
        BY <1>5, <2>5, <3>2
      <4>2. t < turn + 1 <=> t < turn
        BY <1>3, <2>2, <3>2
      <4> QED BY <2>3, <4>1, <4>2 DEF PairedUpTo
    <3> QED BY <3>1, <3>2
  <2>9. PairedUpTo(turn)'
    BY <1>4, <2>1, <2>8 DEF PairedUpTo
  <2>10. Filed(table, cap, Sources)'
    <3>1. PICK tab, c, P : tab = table /\ c = cap /\ P = Sources
      OBVIOUS
    <3>2. Filed(tab, c, P)'
      BY <1>4, <2>3, <3>1
    <3>3. table' = tab /\ cap' = c /\ Sources' = P
      BY <1>3, <1>4, <2>1, <3>1
    <3> QED BY <3>2, <3>3
  <2> QED BY <2>1, <2>9, <2>10 DEF ExactInv, cap
<1>8. CASE Whole!EndLoop /\ stage = "exactIndex"
  <2>1. turn = n["source"] /\ stage' = "exactWalk" /\ turn' = 0 /\ table' = table /\ pairT' = pairT
    BY <1>8 DEF Whole!EndLoop, Whole!pairs
  <2>2. Filed(table, cap, Sources)
    <3>1. Sources = 0 .. turn - 1
      BY <2>1 DEF Sources, Rows
    <3> QED BY <1>8, <3>1 DEF ExactInv, cap
  <2>3. Filed(table, cap, Sources)'
    <3>1. PICK tab, c, P : tab = table /\ c = cap /\ P = Sources
      OBVIOUS
    <3>2. Filed(tab, c, P)'
      BY <1>4, <2>2, <3>1
    <3>3. table' = tab /\ cap' = c /\ Sources' = P
      BY <1>3, <1>4, <2>1, <3>1
    <3> QED BY <3>2, <3>3
  <2>4. PairedUpTo(turn)'
    <3>1. \A t \in Targets : pairT'[t] = NoRow /\ ~(t < turn')
      BY <1>1, <1>3, <1>8, <2>1 DEF TurnType
    <3>2. NoRow \notin Sources
      BY <1>3
    <3> QED BY <1>4, <3>1, <3>2 DEF PairedUpTo
  <2> QED BY <2>1, <2>3, <2>4 DEF ExactInv, cap
<1>9. CASE Whole!EndLoop /\ stage = "exactWalk"
  <2>1. turn = n["target"] /\ stage' = "leftOver" /\ pairT' = pairT
    BY <1>9 DEF Whole!EndLoop, Whole!pairs
  <2>2. \A t \in Targets : t < turn
    BY <1>3, <2>1 DEF Targets, Rows
  <2>3. PairedUpTo(turn)
    BY <1>9 DEF ExactInv
  <2>4. DigestsStand
    BY <2>2, <2>3 DEF PairedUpTo, DigestsStand
  <2> QED BY <1>4, <2>1, <2>4 DEF ExactInv
<1>10. CASE stage \notin {"exactIndex", "exactWalk"}
  <2>1. DigestsStand
    BY <1>10 DEF ExactInv
  <2>2. stage' \notin {"exactIndex", "exactWalk"}
    BY <1>1, <1>10 DEF Whole!Next, Whole!ExactIndex, Whole!ExactWalk, Whole!EndLoop,
       Whole!NothingLeft, Whole!TooManyLeft, Whole!IndexLeft, Whole!SigIndex, Whole!SigWalk,
       Whole!SkipPaired, Whole!OutOfWork
  <2>3. \/ pairT' = pairT
        \/ \E s \in Sources, t \in Targets :
             /\ pairS[s] = NoRow /\ pairT[t] = NoRow
             /\ pairT' = [pairT EXCEPT ![t] = s]
    <3>1. CASE Whole!SigWalk
      <4>1. turn \in Targets /\ \A c \in Whole!Columns : Whole!Sig(cells["target"][turn], c) \in Nat
        <5>1. turn \in Rows("target")
          BY <1>3, <3>1 DEF Whole!SigWalk, Rows
        <5> QED BY <1>1, <5>1 DEF GivenType, Targets, Side
      <4>2. \A s \in Whole!Candidates(cells["target"][turn]) : s \in Sources /\ pairS[s] = NoRow
        BY <1>1, <4>1, CandidateRow
      <4>3. pairT[turn] = NoRow
        BY <3>1 DEF Whole!SigWalk
      <4>4. pairT' = pairT \/ \E s \in Whole!Candidates(cells["target"][turn]) :
                                pairT' = [pairT EXCEPT ![turn] = s]
        BY <3>1 DEF Whole!SigWalk, Whole!Considered, Whole!PairWith, Whole!pairs
      <4> QED BY <4>1, <4>2, <4>3, <4>4
    <3>2. CASE ~Whole!SigWalk
      BY <1>1, <1>10, <3>2 DEF Whole!Next, Whole!ExactIndex, Whole!ExactWalk, Whole!EndLoop,
         Whole!NothingLeft, Whole!TooManyLeft, Whole!IndexLeft, Whole!SigIndex, Whole!SkipPaired,
         Whole!OutOfWork, Whole!pairs
    <3> QED BY <3>1, <3>2
  <2>4. CASE pairT' = pairT
    BY <1>4, <2>1, <2>2, <2>4 DEF ExactInv
  <2>5. ASSUME NEW s \in Sources, NEW t \in Targets, pairS[s] = NoRow, pairT[t] = NoRow,
               pairT' = [pairT EXCEPT ![t] = s]
        PROVE  ExactInv'
    <3>1. digest["source"][s] # digest["target"][t]
      BY <2>1, <2>5, LikenessDiffers
    <3>2. NoRow \notin Sources
      BY <1>3
    <3>3. ASSUME NEW a \in Sources, NEW b \in Targets
          PROVE  /\ Whole!Exact(a, b) => pairT'[b] = a
                 /\ pairT'[b] = a => Whole!Exact(a, b) \/ digest["source"][a] # digest["target"][b]
      <4>1. CASE b = t
        <5>1. pairT'[b] = s
          BY <1>5, <2>5, <4>1
        <5>2. ~Whole!Exact(a, b)
          BY <2>1, <2>5, <3>2, <4>1 DEF DigestsStand
        <5> QED BY <3>1, <4>1, <5>1, <5>2
      <4>2. CASE b # t
        <5>1. pairT'[b] = pairT[b]
          BY <1>5, <2>5, <4>2
        <5> QED BY <2>1, <5>1 DEF DigestsStand
      <4> QED BY <4>1, <4>2
    <3>4. DigestsStand'
      BY <1>2, <1>4, <3>3 DEF DigestsStand
    <3> QED BY <2>2, <3>4 DEF ExactInv
  <2> QED BY <2>3, <2>4, <2>5
<1>11. stage \in {"exactIndex", "exactWalk"} => Whole!ExactIndex \/ Whole!ExactWalk \/ Whole!EndLoop
  BY <1>1 DEF Whole!Next, Whole!NothingLeft, Whole!TooManyLeft, Whole!IndexLeft, Whole!SigIndex,
     Whole!SigWalk, Whole!SkipPaired, Whole!OutOfWork
<1> QED
  BY <1>6, <1>7, <1>8, <1>9, <1>10, <1>11

\* Nothing is forgotten while moves are looked for.
LEMMA ExactStays == ExactInv /\ UNCHANGED <<n, wholeVars>> => ExactInv'
<1> SUFFICES ASSUME ExactInv, UNCHANGED <<n, wholeVars>> PROVE ExactInv'
  OBVIOUS
<1>1. /\ n' = n /\ digest' = digest /\ pairT' = pairT /\ turn' = turn /\ stage' = stage
      /\ table' = table
  BY DEF wholeVars
<1>2. /\ Sources' = Sources
      /\ \A tab, c, P : Filed(tab, c, P) => Filed(tab, c, P)'
      /\ DigestsStand => DigestsStand'
      /\ \A top : PairedUpTo(top) => PairedUpTo(top)'
  BY <1>1, ExactNames
<1>3. PICK tab, c, P, u : tab = table /\ c = Capacity(n["source"]) /\ P = Sources /\ u = turn
  OBVIOUS
<1>4. table' = tab /\ Capacity(n["source"])' = c /\ Sources' = P /\ turn' = u
  BY <1>1, <1>2, <1>3 DEF Capacity
<1>5. stage = "exactIndex" => Filed(table, Capacity(n["source"]), 0 .. turn - 1)'
  <2>1. Filed(tab, c, 0 .. u - 1) => Filed(tab, c, 0 .. u - 1)'
    BY <1>2
  <2> QED BY <1>3, <1>4, <2>1 DEF ExactInv
<1>6. stage = "exactWalk" => Filed(table, Capacity(n["source"]), Sources)' /\ PairedUpTo(turn)'
  <2>1. Filed(tab, c, P) => Filed(tab, c, P)'
    BY <1>2
  <2>2. PairedUpTo(u) => PairedUpTo(u)'
    BY <1>2
  <2> QED BY <1>3, <1>4, <2>1, <2>2 DEF ExactInv
<1> QED
  BY <1>1, <1>2, <1>5, <1>6 DEF ExactInv

\* At every turn the rows of a file without a key are paired by digest and rank.
LEMMA ExactFollows == WholeType /\ ExactInv => Whole!ExactByDigest
<1> SUFFICES ASSUME WholeType, ExactInv PROVE Whole!ExactByDigest
  OBVIOUS
<1>1. Whole!Rows("source") = Sources /\ Whole!Rows("target") = Targets
  BY WholeNames DEF Sources, Targets
<1>2. \A a \in Sources, b \in Targets : pairT[b] = a <=> pairS[a] = b
  BY DEF WholeType, Inverses, PairedT, PairedS
<1>3. NoRow \notin Sources
  BY PairsAre DEF WholeType
<1>4. stage \notin {"exactIndex", "exactWalk"} =>
        \A s \in Sources, t \in Targets : Whole!Exact(s, t) => pairT[t] = s
  BY DEF ExactInv, DigestsStand
<1>5. \A s \in Sources, t \in Targets :
        pairT[t] = s => Whole!Exact(s, t) \/ digest["source"][s] # digest["target"][t]
  <2>1. CASE stage = "exactIndex"
    BY <1>3, <2>1 DEF WholeType, TurnType
  <2>2. CASE stage = "exactWalk"
    BY <2>2 DEF ExactInv, PairedUpTo
  <2>3. CASE stage \notin {"exactIndex", "exactWalk"}
    BY <2>3 DEF ExactInv, DigestsStand
  <2> QED BY <2>1, <2>2, <2>3
<1> QED
  BY <1>1, <1>2, <1>4, <1>5 DEF Whole!ExactByDigest

\* For files of any length, whatever slots their digests fall in: of the rows with
\* one digest the first of one file is paired with the first of the other, the
\* second with the second, and so on while both have one, and likeness never
\* overrules that.
THEOREM PairedByDigest == MatchSpec => []ExactByDigest
<1> DEFINE Both == MatchedInv /\ (~keyed => ExactInv)
<1>1. MatchInit => Both
  BY MatchedStart, ExactStart DEF MatchInit, InitKeyed, InitWhole
<1>2. Both /\ [MatchNext]_matchVars => Both'
  <2> SUFFICES ASSUME Both, [MatchNext]_matchVars PROVE Both'
    OBVIOUS
  <2>1. MatchedInv' /\ keyed' = keyed
    BY MatchedKept DEF MatchNext, MatchKeyed, MatchWhole, DetectMoves, matchVars
  <2>2. ~keyed => ExactInv'
    <3>1. CASE MatchKeyed
      BY <3>1 DEF MatchKeyed
    <3>2. CASE MatchWhole
      BY <3>2, ExactKept DEF MatchedInv, MatchWhole
    <3>3. CASE DetectMoves \/ UNCHANGED matchVars
      BY <3>3, ExactStays DEF DetectMoves, matchVars
    <3> QED BY <3>1, <3>2, <3>3 DEF MatchNext
  <2> QED BY <2>1, <2>2
<1>3. Both => ExactByDigest
  BY ExactFollows DEF MatchedInv, ExactByDigest, Pairing
<1> QED
  <2> HIDE DEF Both
  <2> QED BY <1>1, <1>2, <1>3, PTL DEF MatchSpec

-----------------------------------------------------------------------------
(* Pairing by likeness: the candidates of a row are the rows that share a  *)
(* signature with it, all of them where k allows, and never more than k.   *)

\* Among the places where a row is found one comes before all others.
LEMMA FirstPlace ==
  ASSUME NEW S \in SUBSET (Nat \X Nat), S # {}
  PROVE  \E p \in S : \A q \in S : ~Whole!Earlier(q, p)
<1> DEFINE Cs == {p[1] : p \in S}
<1>1. PICK c \in Cs : \A d \in Cs : c <= d
  <2>1. Cs \in SUBSET Nat /\ Cs # {}
    OBVIOUS
  <2> HIDE DEF Cs
  <2> QED BY <2>1, LeastElement
<1> DEFINE Is == {i \in Nat : <<c, i>> \in S}
<1>2. PICK i \in Is : \A j \in Is : i <= j
  <2>1. Is \in SUBSET Nat /\ Is # {}
    OBVIOUS
  <2> HIDE DEF Is
  <2> QED BY <2>1, LeastElement
<1>3. <<c, i>> \in S /\ c \in Nat /\ i \in Nat
  BY <1>1, <1>2
<1>4. ASSUME NEW q \in S PROVE ~Whole!Earlier(q, <<c, i>>)
  <2>1. q[1] \in Nat /\ q[2] \in Nat /\ q = <<q[1], q[2]>>
    OBVIOUS
  <2>2. c <= q[1]
    BY <1>1
  <2>3. q[1] = c => i <= q[2]
    BY <1>2, <2>1
  <2> QED BY <1>3, <2>1, <2>2, <2>3 DEF Whole!Earlier
<1> QED
  BY <1>3, <1>4

\* And one comes after all others.
LEMMA LastPlace ==
  ASSUME NEW a \in Nat, NEW b \in Nat, NEW S \in SUBSET ((0 .. a) \X (0 .. b)), S # {}
  PROVE  \E p \in S : \A q \in S : q = p \/ Whole!Earlier(q, p)
<1> DEFINE flip(p) == <<a - p[1], b - p[2]>>
           T == {flip(p) : p \in S}
<1>1. \A p \in S : p[1] \in 0 .. a /\ p[2] \in 0 .. b /\ p = <<p[1], p[2]>>
  OBVIOUS
<1>2. T \in SUBSET (Nat \X Nat) /\ T # {}
  <2>1. \A p \in S : a - p[1] \in Nat /\ b - p[2] \in Nat
    BY <1>1
  <2>2. \A p \in S : flip(p) \in Nat \X Nat
    BY <2>1
  <2> HIDE DEF flip
  <2> QED BY <2>2
<1>3. PICK u \in T : \A v \in T : ~Whole!Earlier(v, u)
  <2> HIDE DEF T
  <2> QED BY <1>2, FirstPlace
<1>4. PICK p \in S : u = flip(p)
  BY <1>3
<1>5. ASSUME NEW q \in S PROVE q = p \/ Whole!Earlier(q, p)
  <2>1. ~Whole!Earlier(<<a - q[1], b - q[2]>>, <<a - p[1], b - p[2]>>)
    BY <1>3, <1>4
  <2>2. ~(a - q[1] < a - p[1] \/ (a - q[1] = a - p[1] /\ b - q[2] < b - p[2]))
    BY <2>1 DEF Whole!Earlier
  <2>3. p[1] \in 0 .. a /\ p[2] \in 0 .. b /\ q[1] \in 0 .. a /\ q[2] \in 0 .. b
    BY <1>1
  <2>4. (q[1] = p[1] /\ q[2] = p[2]) \/ q[1] < p[1] \/ (q[1] = p[1] /\ q[2] < p[2])
    BY <2>2, <2>3
  <2>5. q[1] = p[1] /\ q[2] = p[2] => q = p
    BY <1>1
  <2> QED BY <2>4, <2>5 DEF Whole!Earlier
<1> QED
  BY <1>5

\* What a row finds: places in the table, each a source row that has no pair yet.
LEMMA LookedPlaces ==
  ASSUME TableType, Inverses, opts.columns \in Nat,
         NEW r, \A c \in Whole!Columns : Whole!Sig(r, c) \in Nat
  PROVE  /\ \E b \in Nat : Whole!Looked(r) \in SUBSET ((0 .. opts.columns) \X (0 .. b))
         /\ \A p \in Whole!Looked(r) : Whole!RowAt(r, p) \in Sources
         /\ \A c, i : <<c, i>> \in Whole!Looked(r) <=>
              c \in Whole!Signed(r) /\ i \in Whole!Found(Whole!Sig(r, c))
<1>1. PICK cap \in Nat \ {0} : table \in [0 .. cap - 1 -> Entries]
  BY DEF TableType
<1>2. \A c \in Whole!Signed(r) : c \in Whole!Columns /\ c \in 0 .. opts.columns
                                 /\ Whole!Sig(r, c) \in Nat
  BY DEF Whole!Signed, Whole!Columns
<1>3. \A h : Whole!Found(h) \subseteq 0 .. cap - 1
  BY <1>1 DEF Whole!Found, Whole!Met
<1>4. \A c, i : <<c, i>> \in Whole!Looked(r) <=>
        c \in Whole!Signed(r) /\ i \in Whole!Found(Whole!Sig(r, c))
  BY DEF Whole!Looked
<1>5. ASSUME NEW p \in Whole!Looked(r)
      PROVE  /\ p \in (0 .. opts.columns) \X (0 .. cap - 1)
             /\ p[1] \in Whole!Signed(r) /\ p[2] \in Whole!Found(Whole!Sig(r, p[1]))
  <2>1. PICK c \in Whole!Signed(r) : p \in {c} \X Whole!Found(Whole!Sig(r, c))
    BY DEF Whole!Looked
  <2> QED BY <1>2, <1>3, <2>1
<1>6. cap - 1 \in Nat
  OBVIOUS
<1>7. \A p \in Whole!Looked(r) : Whole!RowAt(r, p) \in Sources
  BY <1>2, <1>5, FoundRow DEF Whole!RowAt
<1> QED
  BY <1>4, <1>5, <1>6, <1>7

\* A row has no more signatures than the index has columns for.
LEMMA SignedCount ==
  ASSUME width \in Nat, opts.columns \in Nat, NEW r
  PROVE  /\ Whole!Signed(r) \in SUBSET (1 .. opts.columns) /\ IsFiniteSet(Whole!Signed(r))
         /\ Cardinality(Whole!Signed(r)) \in Nat /\ Cardinality(Whole!Signed(r)) <= width
<1>1. Whole!Signed(r) \in SUBSET (1 .. opts.columns)
  BY DEF Whole!Signed, Whole!Columns
<1>2. IsFiniteSet(Whole!Signed(r))
  <2>1. IsFiniteSet(1 .. opts.columns)
    BY FS_Interval
  <2> QED BY <1>1, <2>1, FS_Subset
<1>3. CASE Whole!Signed(r) = {}
  <2>1. Cardinality({}) = 0
    BY FS_EmptySet
  <2> QED BY <1>1, <1>2, <1>3, <2>1
<1>4. CASE Whole!Signed(r) # {}
  <2>1. PICK c \in Whole!Signed(r) : \A d \in Whole!Signed(r) : d <= c
    <3>1. Whole!Signed(r) \in SUBSET (0 .. opts.columns)
      BY <1>1
    <3> QED BY <1>4, <3>1, GreatestElement
  <2> DEFINE B == {d \in 1 .. c - 1 : r[d] # Whole!Empty}
  <2>2. c \in 1 .. opts.columns /\ c \in Nat
    BY <1>1
  <2>3. IsFiniteSet(B) /\ Cardinality(B) \in Nat
    <3>1. c - 1 \in Nat
      BY <2>2
    <3>2. IsFiniteSet(1 .. c - 1)
      BY <2>2, <3>1, FS_Interval
    <3>3. B \in SUBSET (1 .. c - 1)
      OBVIOUS
    <3> QED BY <3>2, <3>3, FS_Subset, FS_CardinalityType
  <2>4. Cardinality(B) < width
    <3>1. Whole!Cardinality(B) < width
      BY DEF Whole!Signed
    <3> QED BY <3>1, WholeNames
  <2>5. Whole!Signed(r) \in SUBSET (B \cup {c})
    <3>1. ASSUME NEW d \in Whole!Signed(r) PROVE d \in B \cup {c}
      <4>1. d \in 1 .. opts.columns /\ d <= c /\ r[d] # Whole!Empty
        BY <1>1, <2>1 DEF Whole!Signed
      <4>2. d \in 1 .. c - 1 \/ d = c
        BY <2>2, <4>1
      <4> QED BY <4>1, <4>2
    <3> QED BY <3>1
  <2>6. IsFiniteSet(B \cup {c}) /\ Cardinality(B \cup {c}) = Cardinality(B) + 1
    <3>1. c \notin B
      BY <2>2
    <3> HIDE DEF B
    <3> QED BY <2>3, <3>1, FS_AddElement
  <2>7. Cardinality(Whole!Signed(r)) <= Cardinality(B) + 1 /\ Cardinality(Whole!Signed(r)) \in Nat
    <3> HIDE DEF B
    <3> QED BY <1>2, <2>5, <2>6, FS_Subset, FS_CardinalityType
  <2> QED BY <1>1, <1>2, <2>3, <2>4, <2>7
<1> QED BY <1>3, <1>4

\* The source rows that a row finds.
Finds(r) == {Whole!RowAt(r, p) : p \in Whole!Looked(r)}

\* The source rows that a row finds before it comes to a place.
Before(r, p) == {Whole!RowAt(r, q) : q \in {q \in Whole!Looked(r) : Whole!Earlier(q, p)}}

\* The candidates are found, and are no more than k; and where k allows for every
\* source row they are all the rows found.
LEMMA CandidatesCount ==
  ASSUME TableType, Inverses, opts.columns \in Nat, opts.k \in Nat,
         NEW r, \A c \in Whole!Columns : Whole!Sig(r, c) \in Nat
  PROVE  /\ Whole!Candidates(r) \in SUBSET Finds(r) /\ Finds(r) \in SUBSET Sources
         /\ IsFiniteSet(Whole!Candidates(r)) /\ Cardinality(Whole!Candidates(r)) \in Nat
         /\ Cardinality(Whole!Candidates(r)) <= opts.k
         /\ opts.k >= n["source"] => Whole!Candidates(r) = Finds(r)
<1> DEFINE L == Whole!Looked(r)
           Q == {p \in L : Cardinality(Before(r, p)) < opts.k}
           F == {Whole!RowAt(r, p) : p \in Q}
<1>1. Whole!Candidates(r) = F
  BY WholeNames DEF Whole!Candidates, Whole!FirstRows, Before
<1>2. PICK b \in Nat : L \in SUBSET ((0 .. opts.columns) \X (0 .. b))
  BY LookedPlaces
<1>3. \A p \in L : Whole!RowAt(r, p) \in Sources
  BY LookedPlaces
<1>4. /\ n["source"] \in Nat /\ IsFiniteSet(Sources) /\ Cardinality(Sources) = n["source"]
  <2>1. n["source"] \in Nat
    BY PairsAre
  <2>2. PICK N \in Nat : N = n["source"]
    BY <2>1
  <2>3. IsFiniteSet(0 .. N - 1) /\ Cardinality(0 .. N - 1) = N
    <3>1. 0 \in Int /\ N - 1 \in Int /\ (N - 1) - 0 + 1 = N /\ (0 > N - 1 => N = 0)
      OBVIOUS
    <3>2. /\ IsFiniteSet(0 .. N - 1)
          /\ Cardinality(0 .. N - 1) = IF 0 > N - 1 THEN 0 ELSE (N - 1) - 0 + 1
      BY <3>1, FS_Interval, Zenon
    <3> QED BY <3>1, <3>2
  <2> QED BY <2>1, <2>2, <2>3 DEF Sources, Rows
<1>5. F \in SUBSET Finds(r) /\ Finds(r) \in SUBSET Sources
  BY <1>3 DEF Finds
<1>6. IsFiniteSet(F) /\ Cardinality(F) \in Nat
  <2> HIDE DEF F
  <2>1. F \in SUBSET Sources
    BY <1>5
  <2> QED BY <1>4, <2>1, FS_Subset, FS_CardinalityType
<1>7. \A p : Before(r, p) \in SUBSET Sources /\ IsFiniteSet(Before(r, p))
             /\ Cardinality(Before(r, p)) \in Nat
  <2> TAKE p
  <2>1. Before(r, p) \in SUBSET Sources
    BY <1>3 DEF Before
  <2> QED BY <1>4, <2>1, FS_Subset, FS_CardinalityType
<1>8. Cardinality(F) <= opts.k
  <2>1. CASE Q = {}
    <3>1. F = {}
      BY <2>1
    <3> HIDE DEF F
    <3> QED BY <3>1, FS_EmptySet
  <2>2. CASE Q # {}
    <3>1. PICK p \in Q : \A q \in Q : q = p \/ Whole!Earlier(q, p)
      <4>1. Q \in SUBSET ((0 .. opts.columns) \X (0 .. b))
        BY <1>2
      <4> HIDE DEF Q
      <4> QED BY <2>2, <4>1, LastPlace
    <3>2. F \in SUBSET (Before(r, p) \cup {Whole!RowAt(r, p)})
      <4>1. ASSUME NEW q \in Q PROVE Whole!RowAt(r, q) \in Before(r, p) \cup {Whole!RowAt(r, p)}
        BY <3>1 DEF Before
      <4> HIDE DEF Q
      <4> QED BY <4>1
    <3>3. Cardinality(Before(r, p)) < opts.k
      BY <3>1
    <3>4. /\ IsFiniteSet(Before(r, p) \cup {Whole!RowAt(r, p)})
          /\ Cardinality(Before(r, p) \cup {Whole!RowAt(r, p)}) <= Cardinality(Before(r, p)) + 1
          /\ Cardinality(Before(r, p) \cup {Whole!RowAt(r, p)}) \in Nat
      <4>1. PICK B, x : B = Before(r, p) /\ x = Whole!RowAt(r, p)
        OBVIOUS
      <4>2. IsFiniteSet(B) /\ Cardinality(B) \in Nat
        BY <1>7, <4>1
      <4>3. IsFiniteSet(B \cup {x}) /\ Cardinality(B \cup {x}) <= Cardinality(B) + 1
        <5>1. CASE x \in B
          <6>1. B \cup {x} = B
            BY <5>1
          <6>2. Cardinality(B) <= Cardinality(B) + 1
            BY <4>2
          <6> QED BY <4>2, <6>1, <6>2, Zenon
        <5>2. CASE x \notin B
          <6>1. IsFiniteSet(B \cup {x}) /\ Cardinality(B \cup {x}) = Cardinality(B) + 1
            BY <4>2, <5>2, FS_AddElement
          <6>2. Cardinality(B) + 1 <= Cardinality(B) + 1
            BY <4>2
          <6> QED BY <6>1, <6>2, Zenon
        <5> QED BY <5>1, <5>2
      <4> QED BY <4>1, <4>3, FS_CardinalityType
    <3>5. Cardinality(F) <= Cardinality(Before(r, p) \cup {Whole!RowAt(r, p)})
      <4> HIDE DEF F, Q
      <4> QED BY <3>2, <3>4, FS_Subset
    <3> HIDE DEF F, Q
    <3> QED BY <1>6, <1>7, <3>3, <3>4, <3>5
  <2> QED BY <2>1, <2>2
<1>9. ASSUME opts.k >= n["source"], NEW s \in Finds(r) PROVE s \in F
  <2> DEFINE S == {p \in L : Whole!RowAt(r, p) = s}
  <2>1. PICK p \in S : \A q \in S : ~Whole!Earlier(q, p)
    <3>1. S # {}
      BY <1>9 DEF Finds
    <3>2. S \in SUBSET (Nat \X Nat)
      BY <1>2
    <3> HIDE DEF S
    <3> QED BY <3>1, <3>2, FirstPlace
  <2>2. s \notin Before(r, p)
    BY <2>1 DEF Before
  <2>3. Cardinality(Before(r, p)) < n["source"]
    <3>1. s \in Sources
      BY <1>5, <1>9
    <3>2. Before(r, p) \in SUBSET (Sources \ {s})
      BY <1>7, <2>2
    <3>3. IsFiniteSet(Sources \ {s}) /\ Cardinality(Sources \ {s}) = n["source"] - 1
      BY <1>4, <3>1, FS_RemoveElement
    <3>4. Cardinality(Before(r, p)) <= n["source"] - 1
      BY <3>2, <3>3, FS_Subset
    <3> QED BY <1>4, <1>7, <3>4
  <2>4. p \in Q
    BY <1>4, <1>7, <1>9, <2>1, <2>3
  <2> QED BY <2>1, <2>4
<1> HIDE DEF F, L, Q
<1> QED
  BY <1>1, <1>5, <1>6, <1>8, <1>9

-----------------------------------------------------------------------------
(* The index of signatures: what it is filled with is found in it.         *)

\* A table of cap slots holds the entries of E and no others, each where a probe
\* for it gets to.
TableHolds(tab, cap, E) ==
  /\ tab \in [0 .. cap - 1 -> Entries]
  /\ \A p \in 0 .. cap - 1 : tab[p] # Whole!Vacant => tab[p] \in E
  /\ \A e \in E : e \in Entries /\ e # Whole!Vacant
  /\ \A e \in E : \E i \in Whole!Met(tab, e.h) : Whole!At(tab, e.h, i) = e

\* The slots of a table that are taken.
Used(tab, cap) == {p \in 0 .. cap - 1 : tab[p] # Whole!Vacant}

\* While not every slot is taken a probe meets a vacant one.
LEMMA VacancyMet ==
  ASSUME NEW cap \in Nat \ {0}, NEW tab, DOMAIN tab = 0 .. cap - 1,
         Cardinality(Used(tab, cap)) < cap, NEW h \in Nat
  PROVE  \E i \in 0 .. cap - 1 : Whole!At(tab, h, i) = Whole!Vacant
<1>1. SUFFICES ASSUME \A i \in 0 .. cap - 1 : Whole!At(tab, h, i) # Whole!Vacant PROVE FALSE
  OBVIOUS
<1>2. /\ \A i \in 0 .. cap - 1 :
           /\ Whole!Slot(tab, h, i) \in 0 .. cap - 1
           /\ Whole!At(tab, h, i) = tab[Whole!Slot(tab, h, i)]
      /\ \A i, j \in 0 .. cap - 1 : Whole!Slot(tab, h, i) = Whole!Slot(tab, h, j) => i = j
  BY MetSlots
<1> DEFINE f == [i \in 0 .. cap - 1 |-> Whole!Slot(tab, h, i)]
<1>3. f \in [0 .. cap - 1 -> Used(tab, cap)]
  BY <1>1, <1>2 DEF Used
<1>4. IsFiniteSet(0 .. cap - 1) /\ Cardinality(0 .. cap - 1) = cap
  BY FS_Interval
<1>5. IsFiniteSet(Used(tab, cap))
  <2>1. Used(tab, cap) \in SUBSET (0 .. cap - 1)
    BY DEF Used
  <2> QED BY <1>4, <2>1, FS_Subset
<1>6. PICK i \in 0 .. cap - 1, j \in 0 .. cap - 1 : i # j /\ f[i] = f[j]
  <2> HIDE DEF f
  <2> QED BY <1>3, <1>4, <1>5, FS_PigeonHole
<1> QED
  BY <1>2, <1>6

\* A row put under a signature takes the first vacant slot of its probe.
LEMMA InsertHolds ==
  ASSUME NEW cap \in Nat \ {0}, NEW tab, NEW E, Sources \subseteq Nat, TableHolds(tab, cap, E),
         Cardinality(Used(tab, cap)) < cap, NEW h0 \in Nat, NEW r \in Sources
  PROVE  /\ TableHolds(Whole!Insert(tab, h0, r), cap, E \cup {[h |-> h0, row |-> r]})
         /\ Cardinality(Used(tab, cap)) \in Nat
         /\ Cardinality(Used(Whole!Insert(tab, h0, r), cap)) = Cardinality(Used(tab, cap)) + 1
<1> DEFINE R == Whole!Reach(tab, h0)
           p0 == Whole!Slot(tab, h0, R)
           e0 == [h |-> h0, row |-> r]
           new == Whole!Insert(tab, h0, r)
           Vacancies == {i \in 0 .. cap - 1 : Whole!At(tab, h0, i) = Whole!Vacant}
<1>1. DOMAIN tab = 0 .. cap - 1
  BY DEF TableHolds
<1>2. \A h \in Nat :
        /\ \A i \in 0 .. cap - 1 :
             /\ Whole!Slot(tab, h, i) \in 0 .. cap - 1
             /\ Whole!At(tab, h, i) = tab[Whole!Slot(tab, h, i)]
        /\ Whole!Met(tab, h) \subseteq 0 .. cap - 1
        /\ \A i \in Whole!Met(tab, h) : Whole!At(tab, h, i) # Whole!Vacant
        /\ \A i \in Whole!Met(tab, h) : \A j \in 0 .. i : j \in Whole!Met(tab, h)
  BY <1>1, MetSlots
<1>3. /\ R \in 0 .. cap - 1 /\ Whole!At(tab, h0, R) = Whole!Vacant
      /\ \A j \in 0 .. R - 1 : Whole!At(tab, h0, j) # Whole!Vacant
  <2>1. Vacancies # {} /\ Vacancies \in SUBSET Nat
    <3>1. \E i \in 0 .. cap - 1 : Whole!At(tab, h0, i) = Whole!Vacant
      BY <1>1, VacancyMet
    <3> QED BY <3>1
  <2>2. PICK i \in Vacancies : \A j \in Vacancies : i <= j
    <3> HIDE DEF Vacancies
    <3> QED BY <2>1, LeastElement
  <2>3. \A j \in 0 .. i - 1 : j \in 0 .. cap - 1 /\ ~(i <= j)
    BY <2>2
  <2>4. i \in DOMAIN tab /\ Whole!At(tab, h0, i) = Whole!Vacant
        /\ \A j \in 0 .. i - 1 : Whole!At(tab, h0, j) # Whole!Vacant
    BY <1>1, <2>2, <2>3
  <2>5. \E l \in DOMAIN tab : /\ Whole!At(tab, h0, l) = Whole!Vacant
                              /\ \A j \in 0 .. l - 1 : Whole!At(tab, h0, j) # Whole!Vacant
    BY <2>4
  <2> QED BY <1>1, <2>5, Zenon DEF Whole!Reach
<1>4. p0 \in 0 .. cap - 1 /\ tab[p0] = Whole!Vacant
  BY <1>1, <1>2, <1>3
<1>5. new = [tab EXCEPT ![p0] = e0]
  BY DEF Whole!Insert
<1> HIDE DEF new, p0, R, Vacancies
<1>6. e0 # Whole!Vacant /\ e0 \in Entries /\ e0.row = r /\ e0.h = h0
  BY <1>1 DEF Entries, Whole!Vacant
<1> HIDE DEF e0
<1>7. /\ tab \in [0 .. cap - 1 -> Entries] /\ new \in [0 .. cap - 1 -> Entries]
      /\ DOMAIN new = 0 .. cap - 1 /\ new[p0] = e0
      /\ \A p \in 0 .. cap - 1 : p # p0 => new[p] = tab[p]
  BY <1>4, <1>5, <1>6 DEF TableHolds
<1>8. \A h, i : Whole!Slot(new, h, i) = Whole!Slot(tab, h, i)
  BY <1>1, <1>7 DEF Whole!Slot
<1>9. \A h \in Nat : \A i \in 0 .. cap - 1 :
         Whole!At(new, h, i) = IF Whole!Slot(tab, h, i) = p0 THEN e0 ELSE Whole!At(tab, h, i)
  BY <1>2, <1>7, <1>8 DEF Whole!At
<1>10. \A h \in Nat : \A i \in 0 .. cap - 1 :
         Whole!At(tab, h, i) # Whole!Vacant =>
           Whole!At(new, h, i) = Whole!At(tab, h, i) /\ Whole!At(new, h, i) # Whole!Vacant
  <2> TAKE h \in Nat
  <2> TAKE i \in 0 .. cap - 1
  <2>1. Whole!At(tab, h, i) = tab[Whole!Slot(tab, h, i)]
    BY <1>2
  <2>2. Whole!At(tab, h, i) # Whole!Vacant => Whole!Slot(tab, h, i) # p0
    BY <1>4, <2>1
  <2> QED BY <1>9, <2>2
<1>11. ASSUME NEW h \in Nat PROVE Whole!Met(tab, h) \subseteq Whole!Met(new, h)
  <2> SUFFICES ASSUME NEW i \in Whole!Met(tab, h) PROVE i \in Whole!Met(new, h)
    OBVIOUS
  <2>1. i \in 0 .. cap - 1 /\ \A j \in 0 .. i : j \in Whole!Met(tab, h)
    BY <1>2
  <2>2. \A j \in 0 .. i : Whole!At(new, h, j) # Whole!Vacant
    BY <1>2, <1>10, <2>1
  <2> QED BY <1>7, <2>1, <2>2 DEF Whole!Met
<1>12. R \in Whole!Met(new, h0) /\ Whole!At(new, h0, R) = e0
  <2>1. Whole!At(new, h0, R) = e0
    BY <1>1, <1>3, <1>9 DEF p0
  <2>2. \A j \in 0 .. R : j \in 0 .. cap - 1 /\ (j = R \/ j \in 0 .. R - 1)
    BY <1>3
  <2>3. \A j \in 0 .. R : Whole!At(new, h0, j) # Whole!Vacant
    BY <1>1, <1>3, <1>6, <1>10, <2>1, <2>2
  <2> QED BY <1>3, <1>7, <2>1, <2>3 DEF Whole!Met
<1>13. ASSUME NEW p \in 0 .. cap - 1, new[p] # Whole!Vacant PROVE new[p] \in E \cup {e0}
  BY <1>7, <1>13 DEF TableHolds
<1>14. ASSUME NEW e \in E \cup {e0}
       PROVE  \E i \in Whole!Met(new, e.h) : Whole!At(new, e.h, i) = e
  <2>1. CASE e = e0
    BY <1>6, <1>12, <2>1
  <2>2. CASE e \in E
    <3>1. PICK i \in Whole!Met(tab, e.h) : Whole!At(tab, e.h, i) = e
      BY <2>2 DEF TableHolds
    <3>2. e.h \in Nat
      BY <2>2 DEF TableHolds, Entries
    <3>3. i \in Whole!Met(new, e.h) /\ Whole!At(new, e.h, i) = Whole!At(tab, e.h, i)
      BY <1>2, <1>10, <1>11, <3>1, <3>2
    <3> QED BY <3>1, <3>3
  <2> QED BY <2>1, <2>2
<1>15. TableHolds(new, cap, E \cup {e0})
  BY <1>6, <1>7, <1>13, <1>14 DEF TableHolds
<1>16. Used(new, cap) = Used(tab, cap) \cup {p0} /\ p0 \notin Used(tab, cap)
  BY <1>4, <1>6, <1>7 DEF Used
<1>17. IsFiniteSet(Used(tab, cap))
  <2>1. IsFiniteSet(0 .. cap - 1)
    BY FS_Interval
  <2>2. Used(tab, cap) \in SUBSET (0 .. cap - 1)
    BY DEF Used
  <2> QED BY <2>1, <2>2, FS_Subset
<1>18. /\ Cardinality(Used(tab, cap)) \in Nat
       /\ Cardinality(Used(new, cap)) = Cardinality(Used(tab, cap)) + 1
  BY <1>16, <1>17, FS_AddElement, FS_CardinalityType
<1> QED
  BY <1>15, <1>18 DEF new, e0

\* The entry of a source row under one of its columns, and those of a set of rows.
EntryOf(s, c) == [h |-> Whole!Sig(cells["source"][s], c), row |-> s]
EntriesOf(S) == UNION {{EntryOf(s, c) : c \in Whole!Signed(cells["source"][s])} : s \in S}

\* A source row put in the index is found under each of the columns it is indexed
\* by, as the others still are, and takes no more slots than it has columns there.
LEMMA IndexedHolds ==
  ASSUME Sources \subseteq Nat, opts.columns \in Nat, width \in Nat,
         NEW cap \in Nat \ {0}, NEW tab, NEW E, TableHolds(tab, cap, E), NEW s \in Sources,
         \A c \in Whole!Columns : Whole!Sig(cells["source"][s], c) \in Nat,
         NEW u \in Nat, Cardinality(Used(tab, cap)) <= u, u + width < cap
  PROVE  LET new == Whole!Indexed(tab, cells["source"][s], s)
         IN  /\ TableHolds(new, cap, E \cup EntriesOf({s}))
             /\ Cardinality(Used(new, cap)) <= u + width
<1> DEFINE r == cells["source"][s]
           N == opts.columns
           Upto(c) == {d \in Whole!Signed(r) : d <= c}
           Put(c) == {EntryOf(s, d) : d \in Upto(c)}
<1>1. PICK f : FilledBy(f, tab, cap, r, s)
  <2>1. tab \in [0 .. cap - 1 -> Entries]
    BY DEF TableHolds
  <2> QED BY <2>1, IndexedSteps
<1>2. /\ Whole!Signed(r) \in SUBSET (1 .. N) /\ IsFiniteSet(Whole!Signed(r))
      /\ Cardinality(Whole!Signed(r)) \in Nat /\ Cardinality(Whole!Signed(r)) <= width
  BY SignedCount
<1>3. \A c : IsFiniteSet(Upto(c)) /\ Cardinality(Upto(c)) \in Nat /\ Cardinality(Upto(c)) <= width
  <2> TAKE c
  <2>1. Upto(c) \in SUBSET Whole!Signed(r)
    OBVIOUS
  <2> HIDE DEF Upto
  <2>2. IsFiniteSet(Upto(c)) /\ Cardinality(Upto(c)) <= Cardinality(Whole!Signed(r))
    BY <1>2, <2>1, FS_Subset
  <2>3. Cardinality(Upto(c)) \in Nat
    BY <2>2, FS_CardinalityType
  <2> QED BY <1>2, <2>2, <2>3
<1>4. \A c : Used(f[c], cap) \in SUBSET (0 .. cap - 1) /\ Cardinality(Used(f[c], cap)) \in Nat
  <2> TAKE c
  <2>1. Used(f[c], cap) \in SUBSET (0 .. cap - 1)
    BY DEF Used
  <2>2. IsFiniteSet(0 .. cap - 1)
    BY FS_Interval
  <2> QED BY <2>1, <2>2, FS_Subset, FS_CardinalityType
<1> DEFINE Good == {c \in 0 .. N : /\ TableHolds(f[c], cap, E \cup Put(c))
                                   /\ Cardinality(Used(f[c], cap)) <= u + Cardinality(Upto(c))}
<1>5. 0 \in Good
  <2>1. Upto(0) = {}
    BY <1>2
  <2>2. Put(0) = {}
    BY <2>1
  <2>3. Cardinality(Upto(0)) = 0
    BY <2>1, FS_EmptySet
  <2>4. f[0] = tab
    BY <1>1 DEF FilledBy
  <2>5. E \cup Put(0) = E
    BY <2>2
  <2>6. u + Cardinality(Upto(0)) = u
    <3> HIDE DEF Upto
    <3> QED BY <2>3
  <2>7. 0 \in 0 .. N
    OBVIOUS
  <2> HIDE DEF Put, Upto, N
  <2>8. TableHolds(f[0], cap, E \cup Put(0)) /\ Cardinality(Used(f[0], cap)) <= u + Cardinality(Upto(0))
    BY <2>4, <2>5, <2>6
  <2> QED BY <2>7, <2>8
<1>6. ASSUME NEW c \in 0 .. N - 1, c \in Good PROVE c + 1 \in Good
  <2>1. c + 1 \in 1 .. N /\ (c + 1) - 1 = c /\ c + 1 \in 0 .. N /\ c \in Nat
    OBVIOUS
  <2>2. /\ c + 1 \in Whole!Signed(r) => f[c + 1] = Whole!Insert(f[c], Whole!Sig(r, c + 1), s)
        /\ c + 1 \notin Whole!Signed(r) => f[c + 1] = f[c]
    BY <1>1, <2>1 DEF FilledBy
  <2>3. TableHolds(f[c], cap, E \cup Put(c)) /\ Cardinality(Used(f[c], cap)) <= u + Cardinality(Upto(c))
    BY <1>6
  <2>4. CASE c + 1 \in Whole!Signed(r)
    <3>1. Upto(c + 1) = Upto(c) \cup {c + 1} /\ c + 1 \notin Upto(c)
      BY <1>2, <2>1, <2>4
    <3>2. Put(c + 1) = Put(c) \cup {EntryOf(s, c + 1)}
      BY <3>1
    <3>3. Cardinality(Upto(c + 1)) = Cardinality(Upto(c)) + 1
      <4> HIDE DEF Upto
      <4> QED BY <1>3, <3>1, FS_AddElement
    <3>4. EntryOf(s, c + 1) = [h |-> Whole!Sig(r, c + 1), row |-> s]
      BY DEF EntryOf
    <3>5. Whole!Sig(r, c + 1) \in Nat
      BY <2>1 DEF Whole!Columns
    <3>6. Cardinality(Used(f[c], cap)) < cap
      <4> HIDE DEF Upto
      <4>1. Cardinality(Upto(c)) <= width /\ Cardinality(Upto(c)) \in Nat
            /\ Cardinality(Used(f[c], cap)) \in Nat
        BY <1>3, <1>4
      <4> QED BY <2>3, <4>1
    <3> HIDE DEF Put, Upto, r
    <3>7. PICK T, F : T = f[c] /\ F = E \cup Put(c)
      OBVIOUS
    <3>8. /\ TableHolds(Whole!Insert(T, Whole!Sig(r, c + 1), s), cap,
                   F \cup {[h |-> Whole!Sig(r, c + 1), row |-> s]})
          /\ Cardinality(Used(Whole!Insert(T, Whole!Sig(r, c + 1), s), cap))
               = Cardinality(Used(T, cap)) + 1
      <4>1. TableHolds(T, cap, F) /\ Cardinality(Used(T, cap)) < cap
        BY <2>3, <3>6, <3>7
      <4> QED BY <3>5, <4>1, InsertHolds
    <3>9. F \cup {[h |-> Whole!Sig(r, c + 1), row |-> s]} = E \cup Put(c + 1)
      BY <3>2, <3>4, <3>7
    <3>10. TableHolds(f[c + 1], cap, E \cup Put(c + 1))
      BY <2>2, <2>4, <3>7, <3>8, <3>9
    <3>11. Cardinality(Used(f[c + 1], cap)) = Cardinality(Used(f[c], cap)) + 1
      BY <2>2, <2>4, <3>7, <3>8
    <3>12. Cardinality(Used(f[c + 1], cap)) <= u + Cardinality(Upto(c + 1))
      <4>1. Cardinality(Upto(c)) \in Nat /\ Cardinality(Used(f[c], cap)) \in Nat
        BY <1>3, <1>4
      <4> QED BY <2>3, <3>3, <3>11, <4>1
    <3> QED BY <2>1, <3>10, <3>12
  <2>5. CASE c + 1 \notin Whole!Signed(r)
    <3>1. Upto(c + 1) = Upto(c)
      BY <1>2, <2>1, <2>5
    <3>2. Put(c + 1) = Put(c)
      BY <3>1
    <3> HIDE DEF Put, Upto
    <3> QED BY <2>1, <2>2, <2>3, <2>5, <3>1, <3>2
  <2> QED BY <2>4, <2>5
<1>7. N \in Good
  <2>1. N \in Nat /\ N \in 0 .. N
    OBVIOUS
  <2>2. 0 .. N \subseteq Good
    <3> HIDE DEF Good, N
    <3> QED BY <1>5, <1>6, <2>1, UpTo
  <2> HIDE DEF Good, N
  <2> QED BY <2>1, <2>2
<1>8. Upto(N) = Whole!Signed(r)
  BY <1>2
<1>9. Put(N) = EntriesOf({s})
  BY <1>8 DEF EntriesOf
<1>10. Whole!Indexed(tab, r, s) = f[N]
  BY <1>1 DEF FilledBy
<1>11. TableHolds(f[N], cap, E \cup Put(N)) /\ Cardinality(Used(f[N], cap)) <= u + Cardinality(Upto(N))
  BY <1>7
<1>12. Cardinality(Used(f[N], cap)) <= u + width
  <2> HIDE DEF Upto
  <2> QED BY <1>3, <1>4, <1>11
<1> HIDE DEF Put, Upto
<1> QED
  BY <1>9, <1>10, <1>11, <1>12

-----------------------------------------------------------------------------
(* The walk over what the digests left: what each row had to choose from,  *)
(* what it took, and what that cost.                                       *)

\* The source rows the digests left over.
Lefts == {s \in Sources : pairS[s] = NoRow \/ Whole!ByLikeness(pairS[s])}

\* With the rows left over in the index, a row finds those that have no pair yet and
\* share a signature with it.
LEMMA FindsLeft ==
  ASSUME Inverses, GivenType, NEW t \in Targets, NEW cap \in Nat \ {0},
         TableHolds(table, cap, EntriesOf(Lefts))
  PROVE  Finds(cells["target"][t]) = {s \in Sources : pairS[s] = NoRow /\ Whole!ShareSignature(s, t)}
<1> DEFINE r == cells["target"][t]
<1>1. "source" \in Side /\ "target" \in Side
  BY DEF Side
<1>2. \A c \in Whole!Signed(r) : c \in Whole!Columns /\ Whole!Sig(r, c) \in Nat
  BY <1>1 DEF Whole!Signed, GivenType, Targets
<1>3. TableType /\ DOMAIN table = 0 .. cap - 1
  BY DEF TableHolds, TableType
<1>4. ASSUME NEW s \in Finds(r)
      PROVE  s \in Sources /\ pairS[s] = NoRow /\ Whole!ShareSignature(s, t)
  <2>1. PICK p \in Whole!Looked(r) : s = Whole!RowAt(r, p)
    BY DEF Finds
  <2>2. PICK c \in Whole!Signed(r) : p \in {c} \X Whole!Found(Whole!Sig(r, c))
    BY <2>1 DEF Whole!Looked
  <2> DEFINE h == Whole!Sig(r, c)
             e == Whole!At(table, h, p[2])
  <2>3. p[1] = c /\ p[2] \in Whole!Found(h) /\ h \in Nat
    BY <1>2, <2>2
  <2>4. s = e.row /\ e.h = h /\ p[2] \in Whole!Met(table, h)
    BY <2>1, <2>3 DEF Whole!RowAt, Whole!Found
  <2>5. s \in Sources /\ pairS[s] = NoRow
    BY <1>3, <2>3, <2>4, FoundRow
  <2>6. e # Whole!Vacant /\ \E q \in 0 .. cap - 1 : e = table[q]
    <3> HIDE DEF h
    <3>1. /\ Whole!Met(table, h) \subseteq 0 .. cap - 1
          /\ \A i \in Whole!Met(table, h) : Whole!At(table, h, i) # Whole!Vacant
          /\ \A i \in 0 .. cap - 1 :
               /\ Whole!Slot(table, h, i) \in 0 .. cap - 1
               /\ Whole!At(table, h, i) = table[Whole!Slot(table, h, i)]
      BY <1>3, <2>3, MetSlots
    <3> QED BY <2>4, <3>1
  <2>7. e \in EntriesOf(Lefts)
    <3> HIDE DEF e
    <3> QED BY <2>6 DEF TableHolds
  <2>8. PICK a \in Lefts : \E d \in Whole!Signed(cells["source"][a]) : e = EntryOf(a, d)
    <3> HIDE DEF e
    <3> QED BY <2>7 DEF EntriesOf
  <2>9. PICK d \in Whole!Signed(cells["source"][a]) : e = EntryOf(a, d)
    BY <2>8
  <2>10. a = s /\ Whole!Sig(cells["source"][s], d) = Whole!Sig(r, c)
    <3>1. e.row = a /\ e.h = Whole!Sig(cells["source"][a], d)
      BY <2>9 DEF EntryOf
    <3> QED BY <2>4, <3>1
  <2>11. Whole!ShareSignature(s, t)
    BY <2>9, <2>10 DEF Whole!ShareSignature
  <2> QED BY <2>5, <2>11
<1>5. ASSUME NEW s \in Sources, pairS[s] = NoRow, Whole!ShareSignature(s, t) PROVE s \in Finds(r)
  <2>1. PICK d \in Whole!Signed(cells["source"][s]), c \in Whole!Signed(r) :
          Whole!Sig(cells["source"][s], d) = Whole!Sig(r, c)
    BY <1>5 DEF Whole!ShareSignature
  <2>2. s \in Lefts
    BY <1>5 DEF Lefts
  <2>3. EntryOf(s, d) \in EntriesOf(Lefts)
    BY <2>1, <2>2 DEF EntriesOf
  <2>4. EntryOf(s, d).h = Whole!Sig(r, c) /\ EntryOf(s, d).row = s
    BY <2>1 DEF EntryOf
  <2>5. PICK e : e = EntryOf(s, d)
    OBVIOUS
  <2>6. PICK i \in Whole!Met(table, e.h) : Whole!At(table, e.h, i) = e
    BY <2>3, <2>5 DEF TableHolds
  <2>7. i \in Whole!Met(table, Whole!Sig(r, c)) /\ Whole!At(table, Whole!Sig(r, c), i).row = s
        /\ Whole!At(table, Whole!Sig(r, c), i).h = Whole!Sig(r, c)
    BY <2>4, <2>5, <2>6
  <2>8. i \in Whole!Found(Whole!Sig(r, c))
    BY <1>5, <2>7 DEF Whole!Found
  <2>9. <<c, i>> \in Whole!Looked(r)
    BY <2>1, <2>8 DEF Whole!Looked
  <2>10. Whole!RowAt(r, <<c, i>>) = s
    BY <2>7 DEF Whole!RowAt
  <2> QED BY <2>9, <2>10 DEF Finds
<1> QED
  BY <1>4, <1>5

\* What is said of likeness stays so while the files and the width do, and the pairs.
LEMMA LikeNames ==
  ASSUME n' = n, digest' = digest, cells' = cells, opts' = opts
  PROVE  /\ Targets' = Targets /\ Sources' = Sources
         /\ \A s, t : Whole!Score(s, t)' = Whole!Score(s, t) /\ Whole!Near(s, t)' = Whole!Near(s, t)
         /\ \A t : pairT'[t] = pairT[t] => Whole!ByLikeness(t)' = Whole!ByLikeness(t)
         /\ \A tab, cap, E : TableHolds(tab, cap, E)' = TableHolds(tab, cap, E)
         /\ \A tab, cap : Used(tab, cap)' = Used(tab, cap)
         /\ width' = width =>
              /\ \A s, t : Whole!ShareSignature(s, t)' = Whole!ShareSignature(s, t)
              /\ \A S : EntriesOf(S)' = EntriesOf(S)
<1>1. /\ Targets' = Targets /\ Sources' = Sources
      /\ \A s, t : Whole!Exact(s, t)' = Whole!Exact(s, t)
  BY ExactNames
<1>2. \A s, t : Whole!Score(s, t)' = Whole!Score(s, t)
  BY DEF Whole!Score, Whole!Columns, Whole!Value, Whole!Blank, Whole!Empty, Whole!Cardinality
<1>3. \A s, t : Whole!Near(s, t)' = Whole!Near(s, t)
  BY <1>2 DEF Whole!Near
<1>4. \A t : pairT'[t] = pairT[t] => Whole!ByLikeness(t)' = Whole!ByLikeness(t)
  BY <1>1 DEF Whole!ByLikeness
<1>5. Entries' = Entries /\ Whole!Vacant' = Whole!Vacant
  BY <1>1 DEF Entries, Whole!Vacant
<1>6. \A tab, cap, E : TableHolds(tab, cap, E)' = TableHolds(tab, cap, E)
  <2>1. \A tab, h, i : Whole!At(tab, h, i)' = Whole!At(tab, h, i)
    BY DEF Whole!At, Whole!Slot
  <2>2. \A tab, h : Whole!Met(tab, h)' = Whole!Met(tab, h)
    BY <1>5, <2>1 DEF Whole!Met
  <2> QED BY <1>5, <2>1, <2>2 DEF TableHolds
<1>7. \A tab, cap : Used(tab, cap)' = Used(tab, cap)
  BY <1>5 DEF Used
<1>8. ASSUME width' = width
      PROVE  /\ \A s, t : Whole!ShareSignature(s, t)' = Whole!ShareSignature(s, t)
             /\ \A S : EntriesOf(S)' = EntriesOf(S)
  <2>1. \A r : Whole!Signed(r)' = Whole!Signed(r)
    BY <1>8 DEF Whole!Signed, Whole!Columns, Whole!Empty, Whole!Cardinality
  <2>2. \A r, c : Whole!Sig(r, c)' = Whole!Sig(r, c)
    BY DEF Whole!Sig, Whole!Value, Whole!Blank, Whole!Empty
  <2>3. \A s, t : Whole!ShareSignature(s, t)' = Whole!ShareSignature(s, t)
    <3>1. \A s : Whole!Signed(cells["source"][s])' = Whole!Signed(cells["source"][s])
      BY <2>1
    <3>2. \A t : Whole!Signed(cells["target"][t])' = Whole!Signed(cells["target"][t])
      BY <2>1
    <3>3. \A s, c : Whole!Sig(cells["source"][s], c)' = Whole!Sig(cells["source"][s], c)
      BY <2>2
    <3>4. \A t, c : Whole!Sig(cells["target"][t], c)' = Whole!Sig(cells["target"][t], c)
      BY <2>2
    <3> QED BY <3>1, <3>2, <3>3, <3>4 DEF Whole!ShareSignature
  <2>4. \A s, c : EntryOf(s, c)' = EntryOf(s, c)
    BY <2>2 DEF EntryOf
  <2>5. \A S : EntriesOf(S)' = EntriesOf(S)
    BY <2>1, <2>4 DEF EntriesOf
  <2> QED BY <2>3, <2>5
<1> QED
  BY <1>1, <1>2, <1>3, <1>4, <1>6, <1>7, <1>8

\* The percentage of cells two rows agree on is a natural number.
LEMMA ScoreType ==
  ASSUME opts.columns \in Nat, opts.columns > 0
  PROVE  \A s, t : Whole!Score(s, t) \in Nat
<1> TAKE s, t
<1> DEFINE C == {c \in Whole!Columns : Whole!Value(cells["source"][s][c]) = Whole!Value(cells["target"][t][c])}
<1>1. IsFiniteSet(C)
  <2>1. IsFiniteSet(1 .. opts.columns)
    BY FS_Interval
  <2>2. C \in SUBSET (1 .. opts.columns)
    BY DEF Whole!Columns
  <2> HIDE DEF C
  <2> QED BY <2>1, <2>2, FS_Subset
<1>2. Whole!Cardinality(C) \in Nat
  <2> HIDE DEF C
  <2> QED BY <1>1, FS_CardinalityType, WholeNames
<1>3. PICK q \in Nat : q = Whole!Cardinality(C)
  <2> HIDE DEF C
  <2> QED BY <1>2
<1>4. (100 * q) \div opts.columns \in Nat
  <2>1. 100 * q \in Nat
    OBVIOUS
  <2> QED BY <2>1, Division
<1>5. Whole!Score(s, t) = (100 * q) \div opts.columns
  BY <1>3 DEF Whole!Score
<1> QED
  BY <1>4, <1>5

\* A pair made by likeness leaves the other pairs as they are, and what its row and
\* the rows before it had to choose from.
LEMMA AlikePaired ==
  ASSUME WholeType, DigestsStand, n' = n, digest' = digest, cells' = cells, opts' = opts,
         width' = width, NEW t \in Targets, pairT[t] = NoRow, NEW s \in Sources, pairS[s] = NoRow,
         Whole!PairWith(s, t)
  PROVE  /\ pairT'[t] = s /\ Whole!ByLikeness(t)'
         /\ \A u \in Targets : u # t =>
              pairT'[u] = pairT[u] /\ Whole!ByLikeness(u)' = Whole!ByLikeness(u)
         /\ Lefts' = Lefts
         /\ \A u \in Targets : u <= t => Whole!Had(u)' = Whole!Had(u)
<1>1. /\ Targets' = Targets /\ Sources' = Sources
      /\ \A u : pairT'[u] = pairT[u] => Whole!ByLikeness(u)' = Whole!ByLikeness(u)
      /\ \A a, b : Whole!ShareSignature(a, b)' = Whole!ShareSignature(a, b)
      /\ \A a, b : Whole!Exact(a, b)' = Whole!Exact(a, b)
  BY LikeNames, ExactNames
<1>2. /\ pairT \in [Targets -> Sources \cup {NoRow}] /\ pairS \in [Sources -> Targets \cup {NoRow}]
      /\ \A a \in Sources, b \in Targets : pairT[b] = a <=> pairS[a] = b
  BY DEF WholeType, Inverses, PairedT, PairedS
<1>3. NoRow \notin Sources /\ NoRow \notin Targets /\ Targets \subseteq Nat
  BY PairsAre DEF WholeType
<1>4. /\ pairT' = [pairT EXCEPT ![t] = s] /\ pairS' = [pairS EXCEPT ![s] = t]
      /\ pairT'[t] = s /\ pairS'[s] = t
      /\ \A u \in Targets : u # t => pairT'[u] = pairT[u]
      /\ \A a \in Sources : a # s => pairS'[a] = pairS[a]
  BY <1>2 DEF Whole!PairWith
<1>5. \A u \in Targets : u # t => Whole!ByLikeness(u)' = Whole!ByLikeness(u)
  BY <1>1, <1>4
<1>6. Whole!ByLikeness(t)'
  <2>1. digest["source"][s] # digest["target"][t]
    BY LikenessDiffers
  <2>2. ~Whole!Exact(s, t)
    BY <2>1 DEF Whole!Exact
  <2>3. pairT'[t] # NoRow /\ ~Whole!Exact(pairT[t], t)'
    BY <1>1, <1>3, <1>4, <2>2
  <2> QED BY <2>3 DEF Whole!ByLikeness
<1>7. ASSUME NEW a \in Sources, a # s
      PROVE  /\ pairS'[a] = pairS[a]
             /\ pairS[a] # NoRow =>
                  /\ pairS[a] \in Targets /\ pairS[a] # t
                  /\ Whole!ByLikeness(pairS[a])' = Whole!ByLikeness(pairS[a])
  <2>1. pairS'[a] = pairS[a]
    BY <1>4, <1>7
  <2>2. ASSUME pairS[a] # NoRow PROVE pairS[a] \in Targets /\ pairS[a] # t
    BY <1>2, <1>3, <2>2
  <2>3. ASSUME pairS[a] # NoRow PROVE Whole!ByLikeness(pairS[a])' = Whole!ByLikeness(pairS[a])
    <3>1. PICK u \in Targets : u = pairS[a] /\ u # t /\ u = pairS'[a]
      BY <2>1, <2>2, <2>3
    <3>2. Whole!ByLikeness(u)' = Whole!ByLikeness(u)
      BY <1>5, <3>1
    <3> QED BY <3>1, <3>2
  <2> QED BY <2>1, <2>2, <2>3
<1>8. Whole!ByLikeness(pairS[s])'
  BY <1>4, <1>6
<1>9. Lefts' = Lefts
  <2>1. ASSUME NEW a \in Sources
        PROVE  (pairS'[a] = NoRow \/ Whole!ByLikeness(pairS[a])')
                 <=> (pairS[a] = NoRow \/ Whole!ByLikeness(pairS[a]))
    <3>1. CASE a = s
      BY <1>8, <3>1
    <3>2. CASE a # s
      BY <1>7, <3>2
    <3> QED BY <3>1, <3>2
  <2> QED BY <1>1, <2>1 DEF Lefts
<1>10. ASSUME NEW u \in Targets, u <= t PROVE Whole!Had(u)' = Whole!Had(u)
  <2>1. ASSUME NEW a \in Sources
        PROVE  (pairS'[a] = NoRow \/ (pairS'[a] >= u /\ Whole!ByLikeness(pairS[a])'))
                 <=> (pairS[a] = NoRow \/ (pairS[a] >= u /\ Whole!ByLikeness(pairS[a])))
    <3>1. CASE a = s
      <4>1. t >= u
        BY <1>3, <1>10
      <4> QED BY <1>4, <1>8, <3>1, <4>1
    <3>2. CASE a # s
      BY <1>7, <3>2
    <3> QED BY <3>1, <3>2
  <2>2. Whole!Rows("source") = Sources /\ Whole!Rows("source")' = Sources
    <3>1. Whole!Rows("source") = Sources
      BY WholeNames DEF Sources
    <3>2. Whole!Rows("source")' = Whole!Rows("source")
      BY DEF Whole!Rows
    <3> QED BY <3>1, <3>2
  <2> QED BY <1>1, <2>1, <2>2 DEF Whole!Had
<1> QED
  BY <1>4, <1>5, <1>6, <1>9, <1>10

\* Pairs left alone leave everything as it is.
LEMMA AlikeSame ==
  ASSUME n' = n, digest' = digest, cells' = cells, opts' = opts, width' = width,
         pairT' = pairT, pairS' = pairS
  PROVE  /\ \A u : Whole!ByLikeness(u)' = Whole!ByLikeness(u)
         /\ Lefts' = Lefts
         /\ \A u : Whole!Had(u)' = Whole!Had(u)
<1>1. /\ Targets' = Targets /\ Sources' = Sources
      /\ \A u : Whole!ByLikeness(u)' = Whole!ByLikeness(u)
      /\ \A a, b : Whole!ShareSignature(a, b)' = Whole!ShareSignature(a, b)
  BY LikeNames
<1>2. \A a : Whole!ByLikeness(pairS[a])' = Whole!ByLikeness(pairS[a])
  BY <1>1
<1>3. Lefts' = Lefts
  BY <1>1, <1>2 DEF Lefts
<1>4. \A u : Whole!Had(u)' = Whole!Had(u)
  <2>1. Whole!Rows("source")' = Whole!Rows("source")
    BY DEF Whole!Rows
  <2> QED BY <1>1, <1>2, <2>1 DEF Whole!Had
<1> QED
  BY <1>1, <1>3, <1>4

\* The rows compared cell by cell before target row top has its turn.
ComparedTo(top) ==
  {p \in Sources \X Targets :
     /\ p[2] < top
     /\ Whole!ByLikeness(p[2]) \/ pairT[p[2]] = NoRow
     /\ p[1] \in Whole!Had(p[2])}

\* The pairs made by likeness before target row top has its turn, and what they cost.
Liked(top) ==
  /\ \A t \in Targets : Whole!ByLikeness(t) =>
       t < top /\ Whole!Near(pairT[t], t) /\ Whole!ShareSignature(pairT[t], t)
  /\ similar = Cardinality({t \in Targets : Whole!ByLikeness(t)})
  /\ work \in Nat /\ work <= opts.maxWork + opts.k * opts.columns
  /\ opts.k >= n["source"] =>
       /\ \A t \in Targets : t < top /\ (Whole!ByLikeness(t) \/ pairT[t] = NoRow) =>
            Whole!BestOf(Whole!Had(t), t)
       /\ work = opts.columns * Cardinality(ComparedTo(top))

\* What a row of the target was compared with, and what it took.
Took(cand, had) ==
  /\ cand \in SUBSET had /\ IsFiniteSet(cand)
  /\ Cardinality(cand) \in Nat /\ Cardinality(cand) <= opts.k
  /\ opts.k >= n["source"] => cand = had
  /\ work' = work + Cardinality(cand) * opts.columns
  /\ \/ /\ pairT' = pairT /\ pairS' = pairS /\ similar' = similar
        /\ \A s \in cand : ~Whole!Near(s, turn)
     \/ \E best \in cand :
          /\ Whole!PairWith(best, turn) /\ similar' = similar + 1
          /\ Whole!Near(best, turn) /\ \A s \in cand : Whole!Better(best, s, turn)

\* A row left over is compared with rows that have no pair yet and share a signature
\* with it, and takes the best of them where that is near enough.
LEMMA WalkTakes ==
  ASSUME WholeType, opts.columns > 0, work \in Nat, turn \in Targets, Whole!SigWalk,
         NEW cap \in Nat \ {0}, TableHolds(table, cap, EntriesOf(Lefts))
  PROVE  \E cand : Took(cand, {s \in Sources : pairS[s] = NoRow /\ Whole!ShareSignature(s, turn)})
<1> DEFINE had == {s \in Sources : pairS[s] = NoRow /\ Whole!ShareSignature(s, turn)}
           r == cells["target"][turn]
           cand == Whole!Candidates(r)
<1>1. "target" \in Side /\ Inverses /\ GivenType /\ TableType
  BY DEF Side, WholeType
<1>2. \A c \in Whole!Columns : Whole!Sig(r, c) \in Nat
  BY <1>1 DEF GivenType, Targets
<1>3. Finds(r) = had
  BY <1>1, FindsLeft
<1>4. /\ cand \in SUBSET had /\ IsFiniteSet(cand)
      /\ Cardinality(cand) \in Nat /\ Cardinality(cand) <= opts.k
      /\ opts.k >= n["source"] => cand = had
  <2>1. opts.columns \in Nat /\ opts.k \in Nat
    BY <1>1 DEF GivenType
  <2>2. /\ cand \in SUBSET Finds(r) /\ IsFiniteSet(cand)
        /\ Cardinality(cand) \in Nat /\ Cardinality(cand) <= opts.k
        /\ opts.k >= n["source"] => cand = Finds(r)
    <3> HIDE DEF r
    <3> QED BY <1>1, <1>2, <2>1, CandidatesCount
  <2> HIDE DEF had, cand
  <2> QED BY <1>3, <2>2
<1>5. /\ cand = {} => pairT' = pairT /\ pairS' = pairS /\ work' = work /\ similar' = similar
      /\ cand # {} => Whole!Considered(cand, turn)
  BY DEF Whole!SigWalk, Whole!pairs
<1>6. opts.percent \in Nat /\ opts.columns \in Nat /\ \A s : Whole!Score(s, turn) \in Nat
  BY <1>1, ScoreType DEF GivenType
<1> HIDE DEF had, cand, r
<1>7. CASE cand = {}
  <2>1. Cardinality(cand) = 0
    BY <1>7, FS_EmptySet
  <2>2. work' = work + Cardinality(cand) * opts.columns
    <3>1. 0 * opts.columns = 0
      BY <1>6
    <3> QED BY <1>5, <1>7, <2>1, <3>1
  <2>3. Took(cand, had)
    BY <1>4, <1>5, <1>7, <2>2 DEF Took
  <2> QED BY <2>3 DEF had
<1>8. CASE cand # {}
  <2>1. PICK best \in cand :
          /\ \A s \in cand : Whole!Better(best, s, turn)
          /\ IF Whole!Score(best, turn) >= opts.percent
             THEN Whole!PairWith(best, turn) /\ similar' = similar + 1
             ELSE pairT' = pairT /\ pairS' = pairS /\ similar' = similar
          /\ work' = work + Cardinality(cand) * opts.columns
    BY <1>5, <1>8, WholeNames DEF Whole!Considered, Whole!Work, Whole!pairs
  <2>2. CASE Whole!Score(best, turn) >= opts.percent
    <3>1. Whole!Near(best, turn)
      BY <2>2 DEF Whole!Near
    <3>2. Took(cand, had)
      BY <1>4, <2>1, <2>2, <3>1 DEF Took
    <3> QED BY <3>2 DEF had
  <2>3. CASE ~(Whole!Score(best, turn) >= opts.percent)
    <3>1. \A s \in cand : ~Whole!Near(s, turn)
      BY <1>6, <2>1, <2>3 DEF Whole!Near, Whole!Better
    <3>2. Took(cand, had)
      BY <1>4, <2>1, <2>3, <3>1 DEF Took
    <3> QED BY <3>2 DEF had
  <2> QED BY <2>2, <2>3
<1> QED
  BY <1>7, <1>8

\* Whether a row has the best it could have depends on its pair and the files.
LEMMA BestSame ==
  ASSUME n' = n, digest' = digest, cells' = cells, opts' = opts, NEW t, NEW had,
         pairT'[t] = pairT[t]
  PROVE  Whole!BestOf(had, t)' = Whole!BestOf(had, t)
<1>1. \A s, u : Whole!Score(s, u)' = Whole!Score(s, u) /\ Whole!Near(s, u)' = Whole!Near(s, u)
  BY LikeNames
<1>2. Whole!Score(pairT[t], t)' = Whole!Score(pairT[t], t)
  BY <1>1
<1> QED
  BY <1>1, <1>2 DEF Whole!BestOf

\* The rows compared, and those of one target row, are finitely many.
LEMMA ComparedFinite ==
  ASSUME Inverses
  PROVE  /\ \A top : IsFiniteSet(ComparedTo(top)) /\ Cardinality(ComparedTo(top)) \in Nat
         /\ \A t : Whole!Had(t) \in SUBSET Sources /\ IsFiniteSet(Whole!Had(t))
                   /\ Cardinality(Whole!Had(t)) \in Nat
         /\ IsFiniteSet(Targets) /\ IsFiniteSet(Sources)
<1>1. IsFiniteSet(Targets) /\ IsFiniteSet(Sources)
  <2>1. n["source"] \in Nat /\ n["target"] \in Nat
    BY PairsAre
  <2>2. IsFiniteSet(0 .. n["source"] - 1)
    BY <2>1, FS_Interval
  <2>3. IsFiniteSet(0 .. n["target"] - 1)
    BY <2>1, FS_Interval
  <2> QED BY <2>2, <2>3 DEF Sources, Targets, Rows
<1>2. IsFiniteSet(Sources \X Targets)
  BY <1>1, FS_Product
<1>3. \A top : IsFiniteSet(ComparedTo(top)) /\ Cardinality(ComparedTo(top)) \in Nat
  <2> TAKE top
  <2>1. ComparedTo(top) \in SUBSET (Sources \X Targets)
    BY DEF ComparedTo
  <2> QED BY <1>2, <2>1, FS_Subset, FS_CardinalityType
<1>4. \A t : Whole!Had(t) \in SUBSET Sources /\ IsFiniteSet(Whole!Had(t))
             /\ Cardinality(Whole!Had(t)) \in Nat
  <2> TAKE t
  <2>1. Whole!Had(t) \in SUBSET Sources
    BY WholeNames DEF Whole!Had, Sources
  <2> QED BY <1>1, <2>1, FS_Subset, FS_CardinalityType
<1> QED
  BY <1>1, <1>3, <1>4

\* The walk goes on: after a row's turn what it was compared with and what it took is
\* accounted for.
LEMMA WalkKeeps ==
  ASSUME WholeType, DigestsStand, opts.columns > 0, turn \in Targets, Whole!SigWalk, Liked(turn),
         NEW cap \in Nat \ {0}, TableHolds(table, cap, EntriesOf(Lefts)),
         n' = n, digest' = digest, cells' = cells, opts' = opts, width' = width
  PROVE  Liked(turn)' /\ Lefts' = Lefts
<1>1. PICK t \in Targets : t = turn
  OBVIOUS
<1>2. /\ Inverses /\ GivenType /\ Targets \subseteq Nat /\ turn' = turn + 1
      /\ NoRow \notin Sources /\ NoRow \notin Targets
      /\ opts.columns \in Nat /\ opts.k \in Nat /\ opts.maxWork \in Nat
      /\ work \in Nat /\ work <= opts.maxWork /\ pairT[t] = NoRow
  BY <1>1, PairsAre DEF WholeType, GivenType, Whole!SigWalk, Liked
<1>3. /\ pairT \in [Targets -> Sources \cup {NoRow}] /\ pairS \in [Sources -> Targets \cup {NoRow}]
      /\ \A a \in Sources, b \in Targets : pairT[b] = a <=> pairS[a] = b
  BY <1>2 DEF WholeType, Inverses, PairedT, PairedS
<1>4. /\ \A u \in Targets : Whole!ByLikeness(u) => u < t
      /\ Targets' = Targets /\ Sources' = Sources
  BY <1>1, LikeNames DEF Liked
<1>5. PICK had : had = {s \in Sources : pairS[s] = NoRow /\ Whole!ShareSignature(s, t)}
  OBVIOUS
<1>6. Whole!Had(t) = had
  <2>1. ASSUME NEW s \in Sources, pairS[s] >= t, Whole!ByLikeness(pairS[s]) PROVE pairS[s] = NoRow
    <3>1. CASE pairS[s] \in Targets
      <4>1. pairS[s] < t /\ pairS[s] \in Nat /\ t \in Nat
        BY <1>2, <1>4, <2>1, <3>1
      <4> QED BY <2>1, <4>1
    <3> QED BY <1>3, <3>1
  <2>2. Whole!Rows("source") = Sources
    BY WholeNames DEF Sources
  <2> QED BY <1>5, <2>1, <2>2 DEF Whole!Had
<1>7. PICK cand : Took(cand, had)
  <2>1. \E c : Took(c, {s \in Sources : pairS[s] = NoRow /\ Whole!ShareSignature(s, turn)})
    BY <1>2, WalkTakes
  <2> QED BY <1>1, <1>5, <2>1
<1> DEFINE Unpaired == /\ pairT' = pairT /\ pairS' = pairS /\ similar' = similar
                       /\ \A s \in cand : ~Whole!Near(s, t)
           Takes(best) == /\ best \in cand /\ Whole!PairWith(best, t) /\ similar' = similar + 1
                          /\ Whole!Near(best, t) /\ \A s \in cand : Whole!Better(best, s, t)
<1>8. Unpaired \/ \E best : Takes(best)
  BY <1>1, <1>7 DEF Took
<1>9. /\ cand \in SUBSET had /\ Cardinality(cand) \in Nat /\ Cardinality(cand) <= opts.k
      /\ opts.k >= n["source"] => cand = had
      /\ work' = work + Cardinality(cand) * opts.columns
  BY <1>7 DEF Took
<1>10. \A s \in had : s \in Sources /\ pairS[s] = NoRow /\ Whole!ShareSignature(s, t)
  BY <1>5
<1>11. \A s : Whole!Score(s, t) \in Nat
  BY <1>2, ScoreType
<1>12. opts.percent \in Nat
  BY <1>2 DEF GivenType
<1> DEFINE Stepped == /\ \A u \in Targets : u # t =>
                            pairT'[u] = pairT[u] /\ Whole!ByLikeness(u)' = Whole!ByLikeness(u)
                      /\ \A u \in Targets : u <= t => Whole!Had(u)' = Whole!Had(u)
                      /\ Lefts' = Lefts
                      /\ Whole!ByLikeness(t)' \/ pairT'[t] = NoRow
                      /\ Whole!ByLikeness(t)' =>
                           /\ similar' = similar + 1
                           /\ Whole!Near(pairT'[t], t) /\ Whole!ShareSignature(pairT'[t], t)
                      /\ ~Whole!ByLikeness(t)' => similar' = similar
                      /\ cand = had => Whole!BestOf(had, t)'
<1>13. \A u \in Targets : u # t =>
          (pairT'[u] = pairT[u] => Whole!ByLikeness(u)' = Whole!ByLikeness(u))
  BY LikeNames
<1>14. ~Whole!ByLikeness(t)
  BY <1>2 DEF Whole!ByLikeness
<1>15. ASSUME Unpaired PROVE Stepped
  <2>1. /\ \A u : Whole!ByLikeness(u)' = Whole!ByLikeness(u)
        /\ Lefts' = Lefts
        /\ \A u : Whole!Had(u)' = Whole!Had(u)
    BY <1>15, AlikeSame
  <2>2. ~Whole!ByLikeness(t)' /\ pairT'[t] = NoRow
    BY <1>2, <1>14, <1>15, <2>1
  <2>3. ASSUME cand = had PROVE Whole!BestOf(had, t)'
    <3>1. Whole!BestOf(had, t)
      BY <1>2, <1>15, <2>3 DEF Whole!BestOf
    <3> QED BY <1>15, <3>1, BestSame
  <2> QED BY <1>15, <2>1, <2>2, <2>3
<1>16. ASSUME NEW best, Takes(best) PROVE Stepped
  <2>1. best \in Sources /\ pairS[best] = NoRow /\ Whole!ShareSignature(best, t)
    BY <1>9, <1>10, <1>16
  <2>2. /\ pairT'[t] = best /\ Whole!ByLikeness(t)'
        /\ \A u \in Targets : u # t =>
             pairT'[u] = pairT[u] /\ Whole!ByLikeness(u)' = Whole!ByLikeness(u)
        /\ Lefts' = Lefts
        /\ \A u \in Targets : u <= t => Whole!Had(u)' = Whole!Had(u)
    BY <1>2, <1>16, <2>1, AlikePaired
  <2>3. ASSUME cand = had PROVE Whole!BestOf(had, t)'
    <3>1. \A s : Whole!Score(s, t)' = Whole!Score(s, t) /\ Whole!Near(s, t)' = Whole!Near(s, t)
      BY LikeNames
    <3>2. Whole!Score(pairT[t], t)' = Whole!Score(best, t)
      BY <2>2, <3>1
    <3>3. best \in had /\ pairT'[t] \in had /\ Whole!Near(best, t)'
      BY <1>16, <2>2, <2>3, <3>1
    <3>4. \A u \in had : \/ Whole!Score(u, t)' < Whole!Score(pairT[t], t)'
                         \/ Whole!Score(u, t)' = Whole!Score(pairT[t], t)' /\ pairT'[t] <= u
      BY <1>11, <1>16, <2>2, <2>3, <3>1, <3>2 DEF Whole!Better
    <3> QED BY <3>3, <3>4 DEF Whole!BestOf
  <2> QED BY <1>16, <2>1, <2>2, <2>3
<1>17. Stepped
  BY <1>8, <1>15, <1>16
<1> HIDE DEF Unpaired, Takes
<1>18. \A s, u : /\ Whole!Near(s, u)' = Whole!Near(s, u)
                 /\ Whole!ShareSignature(s, u)' = Whole!ShareSignature(s, u)
  BY LikeNames
<1>19. ASSUME NEW u \in Targets, Whole!ByLikeness(u)'
       PROVE  u < t + 1 /\ Whole!Near(pairT[u], u)' /\ Whole!ShareSignature(pairT[u], u)'
  <2>1. Whole!Near(pairT[u], u)' = Whole!Near(pairT'[u], u)
        /\ Whole!ShareSignature(pairT[u], u)' = Whole!ShareSignature(pairT'[u], u)
    BY <1>18
  <2>2. CASE u = t
    BY <1>2, <1>17, <1>19, <2>1, <2>2
  <2>3. CASE u # t
    <3>1. Whole!ByLikeness(u) /\ pairT'[u] = pairT[u]
      BY <1>17, <1>19, <2>3
    <3>2. u < t /\ Whole!Near(pairT[u], u) /\ Whole!ShareSignature(pairT[u], u)
      BY <1>1, <3>1 DEF Liked
    <3> QED BY <1>2, <2>1, <3>1, <3>2
  <2> QED BY <2>2, <2>3
<1>20. (similar = Cardinality({u \in Targets : Whole!ByLikeness(u)}))'
  <2>1. PICK A, B : A = {u \in Targets : Whole!ByLikeness(u)} /\ B = {u \in Targets : Whole!ByLikeness(u)'}
    OBVIOUS
  <2>2. {u \in Targets : Whole!ByLikeness(u)}' = B
    BY <1>4, <2>1
  <2>3. IsFiniteSet(A) /\ similar = Cardinality(A)
    <3>1. A \in SUBSET Targets /\ IsFiniteSet(Targets)
      BY <1>2, <2>1, ComparedFinite
    <3>2. similar = Cardinality(A)
      BY <2>1 DEF Liked
    <3> QED BY <3>1, <3>2, FS_Subset
  <2>4. t \notin A
    BY <1>14, <2>1
  <2>5. CASE Whole!ByLikeness(t)'
    <3>1. B = A \cup {t}
      BY <1>17, <2>1, <2>5
    <3>2. Cardinality(B) = Cardinality(A) + 1
      BY <2>3, <2>4, <3>1, FS_AddElement
    <3> QED BY <1>17, <2>2, <2>3, <2>5, <3>2
  <2>6. CASE ~Whole!ByLikeness(t)'
    <3>1. B = A
      BY <1>14, <1>17, <2>1, <2>6
    <3> QED BY <1>17, <2>2, <2>3, <2>6, <3>1
  <2> QED BY <2>5, <2>6
<1>21. work' \in Nat /\ work' <= opts.maxWork + opts.k * opts.columns
  <2>1. PICK a \in Nat, b \in Nat, c \in Nat : a = Cardinality(cand) /\ b = opts.columns /\ c = opts.k
    BY <1>2, <1>9
  <2>2. a * b \in Nat /\ c * b \in Nat /\ a * b <= c * b
    <3>1. \A x, y, z \in Nat : x <= y => x * z <= y * z
      BY Z3
    <3> QED BY <1>9, <2>1, <3>1
  <2>3. work' = work + a * b
    BY <1>9, <2>1
  <2> QED BY <1>2, <2>1, <2>2, <2>3
<1>22. ASSUME opts.k >= n["source"], NEW u \in Targets, u < t + 1,
              Whole!ByLikeness(u)' \/ pairT'[u] = NoRow
       PROVE  Whole!BestOf(Whole!Had(u), u)'
  <2>1. CASE u = t
    <3>1. Whole!BestOf(had, t)' /\ Whole!Had(t)' = had
      BY <1>2, <1>6, <1>9, <1>17, <1>22
    <3> QED BY <2>1, <3>1
  <2>2. CASE u # t
    <3>1. u < t /\ u <= t
      BY <1>2, <1>22, <2>2
    <3>2. PICK H : H = Whole!Had(u)
      OBVIOUS
    <3>3. pairT'[u] = pairT[u] /\ Whole!ByLikeness(u)' = Whole!ByLikeness(u) /\ Whole!Had(u)' = H
      BY <1>17, <2>2, <3>1, <3>2
    <3>4. Whole!BestOf(H, u)
      BY <1>1, <1>22, <3>1, <3>2, <3>3 DEF Liked
    <3>5. Whole!BestOf(H, u)'
      BY <3>3, <3>4, BestSame
    <3> QED BY <3>3, <3>5
  <2> QED BY <2>1, <2>2
<1>23. ASSUME opts.k >= n["source"]
       PROVE  work' = opts.columns * Cardinality(ComparedTo(t + 1)')
  <2>1. PICK A, B : A = ComparedTo(t) /\ B = ComparedTo(t + 1)'
    OBVIOUS
  <2>2. /\ IsFiniteSet(A) /\ Cardinality(A) \in Nat /\ work = opts.columns * Cardinality(A)
        /\ IsFiniteSet(had) /\ Cardinality(had) \in Nat
    BY <1>1, <1>2, <1>6, <1>23, <2>1, ComparedFinite DEF Liked
  <2>3. ASSUME NEW p \in Sources \X Targets
        PROVE  p \in B <=> p \in A \/ p \in had \X {t}
    <3>1. PICK a \in Sources, u \in Targets : p = <<a, u>>
      OBVIOUS
    <3>2. p \in B <=> /\ u < t + 1 /\ (Whole!ByLikeness(u)' \/ pairT'[u] = NoRow)
                      /\ a \in Whole!Had(u)'
      BY <1>4, <2>1, <3>1 DEF ComparedTo
    <3>3. p \in A <=> /\ u < t /\ (Whole!ByLikeness(u) \/ pairT[u] = NoRow)
                      /\ a \in Whole!Had(u)
      BY <2>1, <3>1 DEF ComparedTo
    <3>4. p \in had \X {t} <=> u = t /\ a \in had
      BY <3>1
    <3>5. CASE u = t
      <4>1. t \in Nat /\ t < t + 1 /\ t <= t /\ ~(t < t)
        BY <1>2
      <4>2. Whole!Had(t)' = had /\ (Whole!ByLikeness(t)' \/ pairT'[t] = NoRow)
        BY <1>6, <1>17, <4>1
      <4>3. Whole!Had(u)' = had /\ (Whole!ByLikeness(u)' \/ pairT'[u] = NoRow)
        BY <3>5, <4>2
      <4> QED BY <3>2, <3>3, <3>4, <3>5, <4>1, <4>3
    <3>6. CASE u # t
      <4>1. /\ u < t + 1 <=> u < t
            /\ u < t => u <= t
        BY <1>2, <3>6
      <4> QED BY <1>17, <3>2, <3>3, <3>4, <3>6, <4>1
    <3> QED BY <3>5, <3>6
  <2>4. B = A \cup (had \X {t}) /\ A \cap (had \X {t}) = {}
    <3>1. A \in SUBSET (Sources \X Targets) /\ B \in SUBSET (Sources \X Targets)
      BY <1>4, <2>1 DEF ComparedTo
    <3>2. had \X {t} \in SUBSET (Sources \X Targets)
      BY <1>10
    <3>3. \A p \in A : p[2] # t
      BY <1>2, <2>1 DEF ComparedTo
    <3> QED BY <2>3, <3>1, <3>2, <3>3
  <2>5. IsFiniteSet(had \X {t}) /\ Cardinality(had \X {t}) = Cardinality(had)
    <3>1. IsFiniteSet({t}) /\ Cardinality({t}) = 1
      BY FS_Singleton
    <3>2. IsFiniteSet(had \X {t}) /\ Cardinality(had \X {t}) = Cardinality(had) * Cardinality({t})
      BY <2>2, <3>1, FS_Product
    <3> QED BY <2>2, <3>1, <3>2
  <2>6. Cardinality(B) = Cardinality(A) + Cardinality(had)
    <3>1. PICK P : P = had \X {t}
      OBVIOUS
    <3>2. Cardinality(A \cup P) = Cardinality(A) + Cardinality(P) - Cardinality(A \cap P)
      BY <2>2, <2>5, <3>1, FS_Union
    <3>3. Cardinality(A \cap P) = 0
      BY <2>4, <3>1, FS_EmptySet
    <3> QED BY <2>2, <2>4, <2>5, <3>1, <3>2, <3>3
  <2>7. PICK x \in Nat, y \in Nat, z \in Nat :
          x = opts.columns /\ y = Cardinality(A) /\ z = Cardinality(had)
    BY <1>2, <2>2
  <2>8. x * y + z * x = x * (y + z)
    BY Z3
  <2>9. work' = x * y + z * x
    BY <1>9, <1>23, <2>2, <2>7
  <2> QED BY <2>1, <2>6, <2>7, <2>8, <2>9
<1>24. Liked(t + 1)'
  <2>1. (t + 1)' = t + 1 /\ opts' = opts /\ n' = n
    OBVIOUS
  <2> QED BY <1>4, <1>19, <1>20, <1>21, <1>22, <1>23, <2>1 DEF Liked
<1> QED
  <2>1. PICK top : top = t + 1
    OBVIOUS
  <2>2. Liked(top)' /\ turn' = top
    BY <1>1, <1>2, <1>24, <2>1
  <2> QED BY <1>17, <2>2

\* The rows left over that are in the index, and those that are not yet.
Behind == {s \in Whole!Left : s < turn}
Ahead == {s \in Whole!Left : s >= turn}

\* The index holds the rows behind and has room for those ahead.
Indexing ==
  \E cap \in Nat \ {0} :
    /\ TableHolds(table, cap, EntriesOf(Behind))
    /\ Cardinality(Used(table, cap)) + Cardinality(Ahead) * width < cap

\* Up to where the target rows have had their turn in the walk.
Reached ==
  IF stage = "sigWalk" THEN turn
  ELSE IF stage = "paired" /\ width > 0 THEN IF truncated THEN turn ELSE n["target"] ELSE 0

\* No pair was made by likeness yet.
NoneAlike ==
  /\ work = 0 /\ similar = 0 /\ ~truncated
  /\ \A t \in Targets : ~Whole!ByLikeness(t)

LikeInv ==
  /\ width \in Nat /\ truncated \in BOOLEAN
  /\ stage \in {"exactIndex", "exactWalk", "leftOver"} => width = 0
  /\ stage \notin {"sigWalk", "paired"} => NoneAlike
  /\ stage \in {"sigIndex", "sigWalk"} => width > 0 /\ opts.columns > 0
  /\ stage = "sigIndex" => Indexing
  /\ stage = "sigWalk" =>
       ~truncated /\ \E cap \in Nat \ {0} : TableHolds(table, cap, EntriesOf(Lefts))
  /\ stage \in {"sigWalk", "paired"} => Liked(Reached)
  /\ stage = "paired" /\ ~truncated => Whole!Left = {} \/ opts.columns = 0 \/ width > 0
  /\ stage = "paired" /\ truncated =>
       work > opts.maxWork \/ Whole!Cardinality(Whole!Left) > opts.maxEntries

\* Before the digests have had their say no pair is made by likeness.
LEMMA NotYetAlike ==
  WholeType /\ ExactInv /\ stage \in {"exactIndex", "exactWalk"}
    => \A t \in Targets : ~Whole!ByLikeness(t)
<1> SUFFICES ASSUME WholeType, ExactInv, stage \in {"exactIndex", "exactWalk"},
                    NEW t \in Targets, Whole!ByLikeness(t)
             PROVE  FALSE
  OBVIOUS
<1>1. pairT[t] # NoRow /\ ~Whole!Exact(pairT[t], t)
  BY DEF Whole!ByLikeness
<1>2. pairT[t] \in Sources
  BY <1>1 DEF WholeType, Inverses, PairedT
<1>3. stage = "exactWalk"
  BY <1>1 DEF WholeType, TurnType
<1>4. Whole!Exact(pairT[t], t)
  BY <1>2, <1>3 DEF ExactInv, PairedUpTo
<1> QED
  BY <1>1, <1>4

\* Where no pair was made by likeness there is nothing to account for.
LEMMA NoneLiked ==
  ASSUME WholeType, NoneAlike
  PROVE  Liked(0)
<1>1. /\ opts.columns \in Nat /\ opts.k \in Nat /\ opts.maxWork \in Nat /\ Targets \subseteq Nat
      /\ Inverses
  BY PairsAre DEF WholeType, GivenType
<1>2. {t \in Targets : Whole!ByLikeness(t)} = {}
  BY DEF NoneAlike
<1>3. ComparedTo(0) = {}
  <2> SUFFICES ASSUME NEW p \in ComparedTo(0) PROVE FALSE
    OBVIOUS
  <2>1. PICK u : u = p[2]
    OBVIOUS
  <2>2. u \in Targets /\ u < 0
    BY <2>1 DEF ComparedTo
  <2>3. u \in Nat
    BY <1>1, <2>2
  <2> QED BY <2>2, <2>3
<1>4. Cardinality({}) = 0
  BY FS_EmptySet
<1>5. 0 <= opts.maxWork + opts.k * opts.columns
  <2>1. PICK x \in Nat, y \in Nat : x = opts.k /\ y = opts.columns
    BY <1>1
  <2>2. x * y \in Nat
    OBVIOUS
  <2> QED BY <1>1, <2>1, <2>2
<1>6. \A t \in Targets : ~(t < 0)
  BY <1>1
<1>7. work = opts.columns * Cardinality(ComparedTo(0))
  <2>1. opts.columns * 0 = 0
    BY <1>1
  <2> QED BY <1>3, <1>4, <2>1 DEF NoneAlike
<1> QED
  BY <1>2, <1>4, <1>5, <1>6, <1>7 DEF Liked, NoneAlike

\* Nothing is indexed when the matcher is called.
LEMMA LikeStart == InitWhole /\ Whole!Fresh => LikeInv
<1> SUFFICES ASSUME InitWhole, Whole!Fresh PROVE LikeInv
  OBVIOUS
<1>1. WholeType /\ ExactInv
  BY WholeStart, ExactStart
<1>2. stage = "exactIndex" /\ width = 0 /\ work = 0 /\ truncated = FALSE /\ similar = 0
  BY DEF Whole!Fresh
<1>3. \A t \in Targets : ~Whole!ByLikeness(t)
  BY <1>1, <1>2, NotYetAlike
<1> QED
  BY <1>2, <1>3 DEF LikeInv, NoneAlike

\* What the walk does not touch stays accounted for.
LEMMA LikedSame ==
  ASSUME n' = n, digest' = digest, cells' = cells, opts' = opts, width' = width,
         pairT' = pairT, pairS' = pairS, work' = work, similar' = similar
  PROVE  \A top : Liked(top) => Liked(top)'
<1> SUFFICES ASSUME NEW top, Liked(top) PROVE Liked(top)'
  OBVIOUS
<1>1. /\ Targets' = Targets /\ Sources' = Sources
      /\ \A s, u : /\ Whole!Near(s, u)' = Whole!Near(s, u)
                   /\ Whole!ShareSignature(s, u)' = Whole!ShareSignature(s, u)
      /\ \A u : Whole!ByLikeness(u)' = Whole!ByLikeness(u)
      /\ \A u : Whole!Had(u)' = Whole!Had(u)
  BY LikeNames, AlikeSame
<1>2. \A u : Whole!Near(pairT[u], u)' = Whole!Near(pairT[u], u)
             /\ Whole!ShareSignature(pairT[u], u)' = Whole!ShareSignature(pairT[u], u)
  BY <1>1
<1>3. ComparedTo(top)' = ComparedTo(top)
  BY <1>1 DEF ComparedTo
<1>4. {t \in Targets : Whole!ByLikeness(t)}' = {t \in Targets : Whole!ByLikeness(t)}
  BY <1>1
<1>5. ASSUME NEW u \in Targets, Whole!BestOf(Whole!Had(u), u) PROVE Whole!BestOf(Whole!Had(u), u)'
  <2>1. PICK H : H = Whole!Had(u)
    OBVIOUS
  <2>2. Whole!BestOf(H, u)'
    BY <1>5, <2>1, BestSame
  <2>3. Whole!Had(u)' = H
    BY <1>1, <2>1
  <2> QED BY <2>2, <2>3
<1>6. (\A t \in Targets : Whole!ByLikeness(t) =>
         t < top /\ Whole!Near(pairT[t], t) /\ Whole!ShareSignature(pairT[t], t))'
  BY <1>1, <1>2 DEF Liked
<1>7. (similar = Cardinality({t \in Targets : Whole!ByLikeness(t)}))'
  BY <1>4 DEF Liked
<1>8. (opts.k >= n["source"] =>
         /\ \A t \in Targets : t < top /\ (Whole!ByLikeness(t) \/ pairT[t] = NoRow) =>
              Whole!BestOf(Whole!Had(t), t)
         /\ work = opts.columns * Cardinality(ComparedTo(top)))'
  BY <1>1, <1>3, <1>5 DEF Liked
<1> QED
  BY <1>6, <1>7, <1>8 DEF Liked

\* The rows left over are those behind and those ahead, and finitely many.
LEMMA LeftSplit ==
  ASSUME Inverses, turn \in Nat
  PROVE  /\ Behind \in SUBSET Sources /\ Ahead \in SUBSET Sources
         /\ IsFiniteSet(Ahead) /\ Cardinality(Ahead) \in Nat
         /\ turn = 0 => Behind = {} /\ Ahead = Whole!Left
         /\ turn = n["source"] => Behind = Whole!Left
<1>1. Whole!Left \subseteq Sources /\ IsFiniteSet(Sources)
  BY LeftRows, ComparedFinite
<1>2. Sources \subseteq Nat /\ n["source"] \in Nat
  BY PairsAre
<1>3. Behind \in SUBSET Sources /\ Ahead \in SUBSET Sources
  BY <1>1 DEF Behind, Ahead
<1>4. IsFiniteSet(Ahead) /\ Cardinality(Ahead) \in Nat
  BY <1>1, <1>3, FS_Subset, FS_CardinalityType
<1>5. turn = 0 => Behind = {} /\ Ahead = Whole!Left
  <2>1. \A s \in Whole!Left : ~(s < 0) /\ s >= 0
    BY <1>1, <1>2
  <2> QED BY <2>1 DEF Behind, Ahead
<1>6. turn = n["source"] => Behind = Whole!Left
  <2>1. \A s \in Sources : s < n["source"]
    BY <1>2 DEF Sources, Rows
  <2> QED BY <1>1, <2>1 DEF Behind
<1> QED
  BY <1>3, <1>4, <1>5, <1>6

\* A new index is empty and has room for all rows left over.
LEMMA IndexStarts ==
  ASSUME WholeType, LikeInv, Whole!IndexLeft,
         n' = n, digest' = digest, cells' = cells, opts' = opts
  PROVE  Indexing' /\ width' \in Nat /\ width' > 0
<1>1. /\ Inverses /\ GivenType /\ turn = 0 /\ turn' = 0 /\ stage = "leftOver"
      /\ pairT' = pairT /\ pairS' = pairS /\ opts.columns > 0
  BY DEF WholeType, TurnType, Whole!IndexLeft, Whole!pairs
<1>2. PICK L \in Nat : L = Whole!Cardinality(Whole!Left) /\ L = Cardinality(Whole!Left)
  BY <1>1, LeftRows, WholeNames
<1>3. PICK w \in Nat \ {0} : w = Whole!SigWidth /\ width' = w
  <2>1. Whole!SigWidth \in 1 .. opts.sigColumns /\ opts.sigColumns \in Nat
    BY <1>1, <1>2, WidthExists DEF GivenType
  <2> QED BY <2>1 DEF Whole!IndexLeft
<1>4. PICK e \in Nat : e = L * w
  OBVIOUS
<1>5. e \in 0 .. opts.maxEntries /\ table' = Whole!NewTable(e)
  BY <1>1, <1>2, <1>3, <1>4 DEF Whole!IndexLeft, GivenType
<1>6. PICK cap \in Nat \ {0} : cap = Capacity(e) /\ cap >= 2 * e + 1
  BY <1>1, <1>5 DEF GivenType
<1>7. table' = [p \in 0 .. cap - 1 |-> Whole!Vacant]
  BY <1>5, <1>6, WholeNames DEF Whole!NewTable
<1>8. PICK tab : tab = table'
  OBVIOUS
<1>9. TableHolds(tab, cap, {})
  BY <1>7, <1>8 DEF TableHolds, Entries
<1>10. Used(tab, cap) = {}
  BY <1>7, <1>8 DEF Used
<1>11. TableHolds(tab, cap, {})' /\ Used(tab, cap)' = {}
  BY <1>9, <1>10, LikeNames
<1>12. Behind' = {} /\ Ahead' = Whole!Left
  <2>1. Whole!Left' = Whole!Left
    BY <1>1 DEF Whole!Left, Whole!Rows
  <2>2. Behind' = Behind /\ Ahead' = Ahead
    BY <1>1, <2>1 DEF Behind, Ahead
  <2>3. turn \in Nat
    BY <1>1
  <2> QED BY <1>1, <2>2, <2>3, LeftSplit
<1>13. EntriesOf(Behind)' = {}
  BY <1>12 DEF EntriesOf
<1>14. Cardinality(Used(tab, cap)') + Cardinality(Ahead') * w < cap
  <2>1. Cardinality(Used(tab, cap)') = 0
    BY <1>11, FS_EmptySet
  <2>2. Cardinality(Ahead') * w = e
    BY <1>2, <1>4, <1>12
  <2> QED BY <1>6, <2>1, <2>2
<1>15. TableHolds(table, cap, EntriesOf(Behind))' /\ Used(table, cap)' = Used(tab, cap)'
  <2>1. PICK E : E = EntriesOf(Behind)'
    OBVIOUS
  <2>2. TableHolds(tab, cap, E)'
    BY <1>11, <1>13, <2>1
  <2> QED BY <1>8, <2>1, <2>2
<1>16. Indexing'
  BY <1>3, <1>14, <1>15 DEF Indexing
<1> QED
  BY <1>3, <1>16

\* A row left over goes from those ahead to those in the index.
LEMMA IndexGoesOn ==
  ASSUME WholeType, LikeInv, Whole!SigIndex,
         n' = n, digest' = digest, cells' = cells, opts' = opts
  PROVE  Indexing'
<1>1. /\ Inverses /\ GivenType /\ turn \in Nat /\ turn' = turn + 1 /\ stage = "sigIndex"
      /\ turn \in Sources /\ width' = width /\ width \in Nat /\ opts.columns \in Nat
      /\ pairS' = pairS /\ Sources \subseteq Nat
  <2>1. turn \in Nat /\ turn < n["source"] /\ n["source"] \in Nat /\ Inverses
    BY PairsAre DEF WholeType, TurnType, Whole!SigIndex
  <2>2. turn \in Sources
    BY <2>1 DEF Sources, Rows
  <2> QED BY <2>1, <2>2, PairsAre
        DEF WholeType, GivenType, LikeInv, Whole!SigIndex, Whole!pairs, Whole!costs
<1>2. PICK cap \in Nat \ {0} :
        /\ TableHolds(table, cap, EntriesOf(Behind))
        /\ Cardinality(Used(table, cap)) + Cardinality(Ahead) * width < cap
  BY <1>1 DEF LikeInv, Indexing
<1>3. /\ Whole!Left' = Whole!Left /\ Whole!Left \subseteq Sources
      /\ Behind' = {s \in Whole!Left : s < turn + 1}
      /\ Ahead' = {s \in Whole!Left : s >= turn + 1}
  <2>1. Whole!Left' = Whole!Left
    BY <1>1 DEF Whole!Left, Whole!Rows
  <2> QED BY <1>1, <2>1, LeftRows DEF Behind, Ahead
<1>4. IsFiniteSet(Ahead) /\ Cardinality(Ahead) \in Nat
  BY <1>1, LeftSplit
<1>5. PICK u \in Nat : u = Cardinality(Used(table, cap))
  <2>1. IsFiniteSet(0 .. cap - 1)
    BY FS_Interval
  <2>2. Used(table, cap) \in SUBSET (0 .. cap - 1)
    BY DEF Used
  <2>3. Cardinality(Used(table, cap)) \in Nat
    BY <2>1, <2>2, FS_Subset, FS_CardinalityType
  <2> QED BY <2>3
<1>6. PICK tab : tab = table'
  OBVIOUS
<1>7. PICK E, B, A : E = EntriesOf(B) /\ B = Behind' /\ A = Ahead'
  OBVIOUS
<1>8. ASSUME TableHolds(tab, cap, E), Cardinality(Used(tab, cap)) + Cardinality(A) * width < cap
      PROVE  Indexing'
  <2>1. TableHolds(tab, cap, E)' /\ Used(tab, cap)' = Used(tab, cap)
    BY <1>8, LikeNames
  <2>2. EntriesOf(Behind)' = E
    <3>1. EntriesOf(B)' = EntriesOf(B)
      BY <1>1, LikeNames
    <3> QED BY <1>7, <3>1
  <2>3. TableHolds(table, cap, EntriesOf(Behind))'
    BY <1>6, <2>1, <2>2
  <2>4. (Cardinality(Used(table, cap)) + Cardinality(Ahead) * width < cap)'
    BY <1>1, <1>6, <1>7, <1>8, <2>1
  <2> QED BY <2>3, <2>4 DEF Indexing
<1>9. CASE turn \in Whole!Left
  <2>1. /\ \A s \in Whole!Left : /\ s < turn + 1 <=> s < turn \/ s = turn
                                 /\ s >= turn <=> s >= turn + 1 \/ s = turn
        /\ ~(turn >= turn + 1)
    BY <1>1, <1>3
  <2>2. B = {s \in Whole!Left : s < turn + 1} /\ A = {s \in Whole!Left : s >= turn + 1}
    BY <1>3, <1>7
  <2>3. B = Behind \cup {turn}
    <3>1. \A s : s \in B <=> s \in Behind \/ s = turn
      BY <1>9, <2>1, <2>2, Zenon DEF Behind
    <3> QED BY <3>1
  <2>4. Ahead = A \cup {turn} /\ turn \notin A
    <3>1. \A s : s \in Ahead <=> s \in A \/ s = turn
      BY <1>9, <2>1, <2>2, Zenon DEF Ahead
    <3>2. turn \notin A
      BY <2>1, <2>2, Zenon
    <3> QED BY <3>1, <3>2
  <2>5. IsFiniteSet(A) /\ Cardinality(A) \in Nat /\ Cardinality(Ahead) = Cardinality(A) + 1
    <3>1. A \in SUBSET Ahead
      BY <2>4
    <3>2. IsFiniteSet(A)
      BY <1>4, <3>1, FS_Subset
    <3> QED BY <2>4, <3>2, FS_AddElement, FS_CardinalityType
  <2>6. PICK x \in Nat, w \in Nat : x = Cardinality(A) /\ w = width
    BY <1>1, <2>5
  <2>7. (x + 1) * w = x * w + w /\ x * w \in Nat
    BY Z3
  <2>8. u + width + x * w < cap /\ u + width < cap
    BY <1>2, <1>5, <2>5, <2>6, <2>7
  <2>9. E = EntriesOf(Behind) \cup EntriesOf({turn})
    <3>1. E = EntriesOf(Behind \cup {turn})
      BY <1>7, <2>3
    <3> QED BY <3>1 DEF EntriesOf
  <2>10. tab = Whole!Indexed(table, cells["source"][turn], turn)
    BY <1>6, <1>9 DEF Whole!SigIndex
  <2>11. TableHolds(tab, cap, E) /\ Cardinality(Used(tab, cap)) <= u + width
    <3>1. \A c \in Whole!Columns : Whole!Sig(cells["source"][turn], c) \in Nat
      <4>1. "source" \in Side /\ turn \in Rows("source")
        BY <1>1 DEF Side, Sources
      <4> QED BY <1>1, <4>1 DEF GivenType
    <3>2. PICK s, F : s \in Sources /\ s = turn /\ F = EntriesOf(Behind)
      BY <1>1
    <3>3. Cardinality(Used(table, cap)) <= u
      BY <1>5
    <3>4. PICK T : T = table
      OBVIOUS
    <3>5. LET new == Whole!Indexed(T, cells["source"][s], s)
          IN  /\ TableHolds(new, cap, F \cup EntriesOf({s}))
              /\ Cardinality(Used(new, cap)) <= u + width
      <4>1. TableHolds(T, cap, F) /\ Cardinality(Used(T, cap)) <= u
        BY <1>2, <3>2, <3>3, <3>4
      <4>2. \A c \in Whole!Columns : Whole!Sig(cells["source"][s], c) \in Nat
        BY <3>1, <3>2
      <4> QED BY <1>1, <2>8, <3>2, <4>1, <4>2, IndexedHolds
    <3> QED BY <2>9, <2>10, <3>2, <3>4, <3>5
  <2>12. Cardinality(Used(tab, cap)) + Cardinality(A) * width < cap
    <3>1. IsFiniteSet(0 .. cap - 1)
      BY FS_Interval
    <3>2. Used(tab, cap) \in SUBSET (0 .. cap - 1)
      BY DEF Used
    <3>3. Cardinality(Used(tab, cap)) \in Nat
      BY <3>1, <3>2, FS_Subset, FS_CardinalityType
    <3>4. Cardinality(A) * width = x * w
      BY <2>6
    <3> QED BY <1>1, <2>7, <2>8, <2>11, <3>3, <3>4
  <2> QED BY <1>8, <2>11, <2>12
<1>10. CASE turn \notin Whole!Left
  <2>1. B = Behind /\ A = Ahead
    <3>1. \A s \in Whole!Left : (s < turn + 1 <=> s < turn) /\ (s >= turn + 1 <=> s >= turn)
      BY <1>1, <1>3, <1>10
    <3> QED BY <1>3, <1>7, <3>1 DEF Behind, Ahead
  <2>2. tab = table
    BY <1>6, <1>10 DEF Whole!SigIndex
  <2> QED BY <1>2, <1>7, <1>8, <2>1, <2>2
<1> QED
  BY <1>9, <1>10

\* Every turn of the matcher keeps the index and the account of likeness.
LEMMA LikeKept == WholeType /\ ExactInv /\ LikeInv /\ MatchWhole => LikeInv'
<1> SUFFICES ASSUME WholeType, ExactInv, LikeInv, MatchWhole PROVE LikeInv'
  OBVIOUS
<1>1. WholeType' /\ ExactInv' /\ Whole!Next
  BY WholeTypeKept, ExactKept DEF MatchWhole
<1>2. n' = n /\ digest' = digest /\ cells' = cells /\ opts' = opts
  BY <1>1 DEF Whole!Next, Whole!given, Whole!ExactIndex, Whole!ExactWalk, Whole!EndLoop,
     Whole!NothingLeft, Whole!TooManyLeft, Whole!IndexLeft, Whole!SigIndex, Whole!SigWalk,
     Whole!SkipPaired, Whole!OutOfWork
<1>3. /\ Inverses /\ GivenType /\ turn \in Nat /\ Targets \subseteq Nat
      /\ n["source"] \in Nat /\ n["target"] \in Nat /\ width \in Nat /\ truncated \in BOOLEAN
  BY PairsAre DEF WholeType, TurnType, LikeInv
<1>4. (WholeType /\ ExactInv /\ stage \in {"exactIndex", "exactWalk"}
         => \A t \in Targets : ~Whole!ByLikeness(t))'
  BY NotYetAlike, PTL
<1>5. ASSUME pairT' = pairT, pairS' = pairS
      PROVE  /\ Targets' = Targets /\ Whole!Left' = Whole!Left
             /\ \A t : Whole!ByLikeness(t)' = Whole!ByLikeness(t)
             /\ work' = work /\ similar' = similar /\ truncated' = truncated /\ NoneAlike => NoneAlike'
             /\ width' = width => Lefts' = Lefts
             /\ width' = width =>
                  \A cap : table' = table /\ TableHolds(table, cap, EntriesOf(Lefts))
                             => TableHolds(table, cap, EntriesOf(Lefts))'
             /\ width' = width /\ work' = work /\ similar' = similar =>
                  \A top : Liked(top) => Liked(top)'
  <2>1. Targets' = Targets /\ \A t : Whole!ByLikeness(t)' = Whole!ByLikeness(t)
    BY <1>2, <1>5, LikeNames
  <2>2. Whole!Left' = Whole!Left
    BY <1>2, <1>5 DEF Whole!Left, Whole!Rows
  <2>3. width' = width => Lefts' = Lefts
    BY <1>2, <1>5, AlikeSame
  <2>4. ASSUME width' = width, NEW cap, table' = table, TableHolds(table, cap, EntriesOf(Lefts))
        PROVE  TableHolds(table, cap, EntriesOf(Lefts))'
    <3>1. PICK tab, S, E : tab = table /\ S = Lefts /\ E = EntriesOf(S)
      OBVIOUS
    <3>2. TableHolds(tab, cap, E)' /\ EntriesOf(S)' = E
      BY <1>2, <2>4, <3>1, LikeNames
    <3>3. Lefts' = S
      BY <2>3, <2>4, <3>1
    <3>4. EntriesOf(Lefts)' = E
      BY <3>2, <3>3
    <3> QED BY <2>4, <3>1, <3>2, <3>4
  <2>5. width' = width /\ work' = work /\ similar' = similar =>
          \A top : Liked(top) => Liked(top)'
    BY <1>2, <1>5, LikedSame
  <2>6. work' = work /\ similar' = similar /\ truncated' = truncated /\ NoneAlike => NoneAlike'
    BY <2>1 DEF NoneAlike
  <2> QED BY <2>1, <2>2, <2>3, <2>4, <2>5, <2>6
<1>6. CASE Whole!ExactIndex \/ Whole!ExactWalk
  <2>1. /\ stage \in {"exactIndex", "exactWalk"} /\ stage' = stage
        /\ width' = width /\ work' = work /\ truncated' = truncated /\ similar' = similar
    BY <1>6 DEF Whole!ExactIndex, Whole!ExactWalk, Whole!costs
  <2>2. NoneAlike'
    BY <1>1, <1>4, <2>1 DEF LikeInv, NoneAlike
  <2> QED BY <1>3, <2>1, <2>2 DEF LikeInv
<1>7. CASE Whole!EndLoop
  <2>1. /\ pairT' = pairT /\ pairS' = pairS /\ table' = table /\ turn' = 0
        /\ width' = width /\ work' = work /\ truncated' = truncated /\ similar' = similar
    BY <1>7 DEF Whole!EndLoop, Whole!costs, Whole!pairs
  <2>2. CASE stage \in {"exactIndex", "exactWalk"}
    <3>1. stage' \in {"exactWalk", "leftOver"}
      BY <1>7, <2>2 DEF Whole!EndLoop
    <3>2. NoneAlike'
      BY <1>5, <2>1, <2>2 DEF LikeInv
    <3> QED BY <1>3, <2>1, <2>2, <3>1, <3>2 DEF LikeInv
  <2>3. CASE stage = "sigIndex"
    <3>1. stage' = "sigWalk" /\ turn = n["source"] /\ width > 0 /\ opts.columns > 0 /\ NoneAlike
          /\ Indexing
      BY <1>7, <2>3 DEF Whole!EndLoop, LikeInv
    <3>2. Behind = Lefts
      <4>1. Behind = Whole!Left
        BY <1>3, <3>1, LeftSplit
      <4>2. Whole!Left \subseteq Lefts
        BY <1>3, LeftRows DEF Whole!Left, Lefts
      <4>3. ASSUME NEW s \in Lefts PROVE s \in Whole!Left
        <5>1. s \in Sources /\ (pairS[s] \in Targets => ~Whole!ByLikeness(pairS[s]))
          BY <3>1 DEF Lefts, NoneAlike
        <5>2. pairS[s] \in Targets \/ pairS[s] = NoRow
          BY <1>3, <5>1 DEF WholeType, Inverses, PairedS
        <5>3. pairS[s] = NoRow
          BY <5>1, <5>2 DEF Lefts
        <5> QED BY <5>1, <5>3, WholeNames DEF Whole!Left, Sources
      <4> QED BY <4>1, <4>2, <4>3
    <3>3. PICK cap \in Nat \ {0} : TableHolds(table, cap, EntriesOf(Lefts))
      BY <3>1, <3>2 DEF Indexing
    <3>4. TableHolds(table, cap, EntriesOf(Lefts))'
      BY <1>5, <2>1, <3>3
    <3>5. Liked(0)'
      BY <1>5, <2>1, <3>1, NoneLiked
    <3>6. Liked(Reached)'
      <4>1. Reached' = 0
        BY <2>1, <3>1 DEF Reached
      <4> QED BY <3>5, <4>1
    <3>7. ~truncated
      BY <3>1 DEF NoneAlike
    <3> QED BY <1>2, <1>3, <2>1, <3>1, <3>4, <3>6, <3>7 DEF LikeInv
  <2>4. CASE stage = "sigWalk"
    <3>1. stage' = "paired" /\ turn = n["target"] /\ width > 0 /\ ~truncated /\ Liked(turn)
      BY <1>7, <2>4 DEF Whole!EndLoop, LikeInv, Reached
    <3>2. Liked(Reached)'
      <4>1. PICK top : top = turn
        OBVIOUS
      <4>2. Liked(top)'
        BY <1>5, <2>1, <3>1, <4>1
      <4>3. Reached' = top
        BY <1>2, <2>1, <3>1, <4>1 DEF Reached
      <4> QED BY <4>2, <4>3
    <3> QED BY <1>3, <2>1, <3>1, <3>2 DEF LikeInv
  <2> QED BY <1>7, <2>2, <2>3, <2>4 DEF Whole!EndLoop
<1>8. CASE Whole!NothingLeft \/ Whole!TooManyLeft
  <2>1. /\ pairT' = pairT /\ pairS' = pairS /\ stage = "leftOver" /\ stage' = "paired"
        /\ width' = width /\ width = 0 /\ work' = work /\ similar' = similar /\ NoneAlike
    BY <1>8 DEF Whole!NothingLeft, Whole!TooManyLeft, Whole!costs, Whole!pairs, LikeInv
  <2>2. Liked(Reached)'
    <3>1. Liked(0)'
      BY <1>5, <2>1, NoneLiked
    <3>2. Reached' = 0
      BY <2>1 DEF Reached
    <3> QED BY <3>1, <3>2
  <2>3. CASE Whole!NothingLeft
    <3>1. truncated' = FALSE /\ (Whole!Left' = {} \/ opts'.columns = 0)
      BY <1>2, <1>5, <2>1, <2>3 DEF Whole!NothingLeft, Whole!costs, NoneAlike
    <3> QED BY <1>3, <2>1, <2>2, <3>1 DEF LikeInv
  <2>4. CASE Whole!TooManyLeft
    <3>1. PICK L \in Nat : L = Whole!Cardinality(Whole!Left)
      BY <1>3, LeftRows
    <3>2. Whole!SigWidth = 1 \/ L * Whole!SigWidth <= opts.maxEntries
      BY <1>3, <2>4, <3>1, WidthExists DEF Whole!TooManyLeft
    <3>3. L * Whole!SigWidth > opts.maxEntries /\ truncated' = TRUE
      BY <2>4, <3>1 DEF Whole!TooManyLeft
    <3>4. L > opts.maxEntries
      <4>1. Whole!SigWidth \in Nat /\ opts.maxEntries \in Nat
        <5>1. Whole!SigWidth \in 1 .. opts.sigColumns /\ opts.sigColumns \in Nat
          BY <1>3, <2>4, <3>1, WidthExists DEF Whole!TooManyLeft, GivenType
        <5> QED BY <1>3, <5>1 DEF GivenType
      <4>2. PICK w \in Nat : w = Whole!SigWidth
        BY <4>1
      <4>3. L * w \in Nat /\ (w = 1 => L * w = L)
        OBVIOUS
      <4> QED BY <3>2, <3>3, <4>1, <4>2, <4>3
    <3>5. Whole!Cardinality(Whole!Left)' = L
      <4>1. Whole!Cardinality(Whole!Left)' = Whole!Cardinality(Whole!Left)
        <5>1. \A S : Whole!Cardinality(S)' = Whole!Cardinality(S)
          BY DEF Whole!Cardinality
        <5> QED BY <1>5, <2>1, <5>1
      <4> QED BY <3>1, <4>1
    <3> QED BY <1>2, <1>3, <2>1, <2>2, <3>3, <3>4, <3>5 DEF LikeInv
  <2> QED BY <1>8, <2>3, <2>4
<1>9. CASE Whole!IndexLeft
  <2>1. Indexing' /\ width' \in Nat /\ width' > 0
    BY <1>2, <1>9, IndexStarts
  <2>2. /\ pairT' = pairT /\ pairS' = pairS /\ stage = "leftOver" /\ stage' = "sigIndex"
        /\ work' = work /\ similar' = similar /\ truncated' = truncated /\ NoneAlike
        /\ opts.columns > 0
    BY <1>9 DEF Whole!IndexLeft, Whole!pairs, LikeInv
  <2>3. NoneAlike'
    BY <1>5, <2>2
  <2> QED BY <1>2, <1>3, <2>1, <2>2, <2>3 DEF LikeInv
<1>10. CASE Whole!SigIndex
  <2>1. /\ pairT' = pairT /\ pairS' = pairS /\ stage = "sigIndex" /\ stage' = "sigIndex"
        /\ width' = width /\ work' = work /\ similar' = similar /\ truncated' = truncated
        /\ NoneAlike /\ opts.columns > 0 /\ width > 0
    BY <1>10 DEF Whole!SigIndex, Whole!pairs, Whole!costs, LikeInv
  <2>2. NoneAlike'
    BY <1>5, <2>1
  <2>3. Indexing'
    BY <1>2, <1>10, IndexGoesOn
  <2> QED BY <1>2, <1>3, <2>1, <2>2, <2>3 DEF LikeInv
<1>11. CASE Whole!SigWalk
  <2>1. /\ stage = "sigWalk" /\ stage' = "sigWalk" /\ width' = width /\ truncated' = truncated
        /\ ~truncated /\ opts.columns > 0 /\ width > 0 /\ Liked(turn) /\ table' = table
        /\ turn < n["target"]
    BY <1>11 DEF Whole!SigWalk, LikeInv, Reached
  <2>2. PICK cap \in Nat \ {0} : TableHolds(table, cap, EntriesOf(Lefts))
    BY <2>1 DEF LikeInv
  <2>3. turn \in Targets /\ DigestsStand
    BY <1>3, <2>1 DEF Targets, Rows, ExactInv
  <2>4. Liked(turn)' /\ Lefts' = Lefts
    BY <1>2, <1>11, <2>1, <2>2, <2>3, WalkKeeps
  <2>5. TableHolds(table, cap, EntriesOf(Lefts))'
    <3>1. PICK tab, S, E : tab = table /\ S = Lefts /\ E = EntriesOf(S)
      OBVIOUS
    <3>2. TableHolds(tab, cap, E)' /\ EntriesOf(S)' = E
      BY <1>2, <2>1, <2>2, <3>1, LikeNames
    <3>3. Lefts' = S
      BY <2>4, <3>1
    <3>4. EntriesOf(Lefts)' = E
      BY <3>2, <3>3
    <3> QED BY <2>1, <3>1, <3>2, <3>4
  <2>6. Reached' = turn'
    BY <2>1 DEF Reached
  <2>7. Liked(Reached)'
    BY <2>4, <2>6
  <2> QED BY <1>2, <1>3, <2>1, <2>5, <2>7 DEF LikeInv
<1>12. CASE Whole!SkipPaired
  <2>1. /\ stage = "sigWalk" /\ stage' = "sigWalk" /\ turn' = turn + 1 /\ table' = table
        /\ pairT' = pairT /\ pairS' = pairS /\ pairT[turn] # NoRow /\ turn < n["target"]
        /\ width' = width /\ work' = work /\ similar' = similar /\ truncated' = truncated
        /\ ~truncated /\ opts.columns > 0 /\ width > 0 /\ Liked(turn)
    BY <1>12 DEF Whole!SkipPaired, Whole!pairs, Whole!costs, LikeInv, Reached
  <2>2. PICK top \in Nat : top = turn + 1
    BY <1>3
  <2>3. Liked(top)
    <3>1. turn \in Targets /\ ~Whole!ByLikeness(turn)
      <4>1. turn \in Targets /\ ~(turn < turn)
        BY <1>3, <2>1 DEF Targets, Rows
      <4> QED BY <2>1, <4>1 DEF Liked
    <3>2. \A t \in Targets : (t < top <=> t < turn \/ t = turn) /\ (t < turn => t < top)
      BY <1>3, <2>2
    <3>3. \A t \in Targets : t < top /\ (Whole!ByLikeness(t) \/ pairT[t] = NoRow) => t < turn
      BY <2>1, <3>1, <3>2
    <3>4. ComparedTo(top) = ComparedTo(turn)
      <4>1. \A a \in Sources, t \in Targets :
              <<a, t>> \in ComparedTo(top) <=> <<a, t>> \in ComparedTo(turn)
        BY <3>2, <3>3 DEF ComparedTo
      <4>2. ComparedTo(top) \in SUBSET (Sources \X Targets)
            /\ ComparedTo(turn) \in SUBSET (Sources \X Targets)
        BY DEF ComparedTo
      <4> QED BY <4>1, <4>2
    <3> QED BY <2>1, <3>2, <3>3, <3>4 DEF Liked
  <2>4. Liked(Reached)'
    <3>1. Liked(top)'
      BY <1>5, <2>1, <2>3
    <3>2. Reached' = top
      BY <2>1, <2>2 DEF Reached
    <3> QED BY <3>1, <3>2
  <2>5. PICK cap \in Nat \ {0} : TableHolds(table, cap, EntriesOf(Lefts))
    BY <2>1 DEF LikeInv
  <2>6. TableHolds(table, cap, EntriesOf(Lefts))'
    BY <1>5, <2>1, <2>5
  <2> QED BY <1>2, <1>3, <2>1, <2>4, <2>6 DEF LikeInv
<1>13. CASE Whole!OutOfWork
  <2>1. /\ stage = "sigWalk" /\ stage' = "paired" /\ turn' = turn
        /\ pairT' = pairT /\ pairS' = pairS /\ work > opts.maxWork
        /\ width' = width /\ work' = work /\ similar' = similar /\ truncated' = TRUE
        /\ width > 0 /\ Liked(turn)
    BY <1>13 DEF Whole!OutOfWork, Whole!pairs, LikeInv, Reached
  <2>2. Liked(Reached)'
    <3>1. PICK top : top = turn
      OBVIOUS
    <3>2. Liked(top)'
      BY <1>5, <2>1, <3>1
    <3>3. Reached' = top
      BY <2>1, <3>1 DEF Reached
    <3> QED BY <3>2, <3>3
  <2> QED BY <1>2, <1>3, <2>1, <2>2 DEF LikeInv
<1> QED
  BY <1>1, <1>6, <1>7, <1>8, <1>9, <1>10, <1>11, <1>12, <1>13 DEF Whole!Next

\* Nothing is forgotten while moves are looked for.
LEMMA LikeStays == LikeInv /\ UNCHANGED <<n, wholeVars>> => LikeInv'
<1> SUFFICES ASSUME LikeInv, UNCHANGED <<n, wholeVars>> PROVE LikeInv'
  OBVIOUS
<1>1. /\ n' = n /\ digest' = digest /\ cells' = cells /\ opts' = opts /\ table' = table
      /\ pairT' = pairT /\ pairS' = pairS /\ turn' = turn /\ stage' = stage /\ width' = width
      /\ work' = work /\ truncated' = truncated /\ similar' = similar
  BY DEF wholeVars
<1>2. /\ Targets' = Targets /\ Lefts' = Lefts
      /\ \A t : Whole!ByLikeness(t)' = Whole!ByLikeness(t)
      /\ \A tab, cap, E : TableHolds(tab, cap, E)' = TableHolds(tab, cap, E)
      /\ \A tab, cap : Used(tab, cap)' = Used(tab, cap)
      /\ \A S : EntriesOf(S)' = EntriesOf(S)
      /\ \A top : Liked(top) => Liked(top)'
  BY <1>1, LikeNames, AlikeSame, LikedSame
<1>3. Whole!Left' = Whole!Left /\ Behind' = Behind /\ Ahead' = Ahead
  <2>1. Whole!Left' = Whole!Left
    BY <1>1 DEF Whole!Left, Whole!Rows
  <2> QED BY <1>1, <2>1 DEF Behind, Ahead
<1>4. PICK tab, S, E, B, F, top :
        /\ tab = table /\ S = Lefts /\ E = EntriesOf(S) /\ B = Behind /\ F = EntriesOf(B)
        /\ top = Reached
  OBVIOUS
<1>5. table' = tab /\ EntriesOf(Lefts)' = E /\ EntriesOf(Behind)' = F /\ Reached' = top
  <2>1. EntriesOf(S)' = E /\ EntriesOf(B)' = F
    BY <1>2, <1>4
  <2>2. Lefts' = S /\ Behind' = B
    BY <1>2, <1>3, <1>4
  <2>3. Reached' = top
    BY <1>1, <1>4 DEF Reached
  <2> QED BY <1>1, <1>2, <1>4, <2>1, <2>2, <2>3
<1>6. Indexing => Indexing'
  <2> SUFFICES ASSUME NEW cap \in Nat \ {0}, TableHolds(table, cap, EntriesOf(Behind)),
                      Cardinality(Used(table, cap)) + Cardinality(Ahead) * width < cap
               PROVE  Indexing'
    BY DEF Indexing
  <2>1. TableHolds(tab, cap, F)' /\ Used(tab, cap)' = Used(table, cap)
    BY <1>2, <1>4
  <2>2. TableHolds(table, cap, EntriesOf(Behind))' /\ Used(table, cap)' = Used(table, cap)
    BY <1>5, <2>1
  <2> QED BY <1>1, <1>3, <2>2 DEF Indexing
<1>7. (\E cap \in Nat \ {0} : TableHolds(table, cap, EntriesOf(Lefts)))
        => (\E cap \in Nat \ {0} : TableHolds(table, cap, EntriesOf(Lefts)))'
  <2> SUFFICES ASSUME NEW cap \in Nat \ {0}, TableHolds(table, cap, EntriesOf(Lefts))
               PROVE  TableHolds(table, cap, EntriesOf(Lefts))'
    OBVIOUS
  <2>1. TableHolds(tab, cap, E)'
    BY <1>2, <1>4
  <2> QED BY <1>5, <2>1
<1>8. Liked(Reached) => Liked(Reached)'
  <2>1. Liked(top) => Liked(top)'
    BY <1>2
  <2> QED BY <1>4, <1>5, <2>1
<1>9. Whole!Cardinality(Whole!Left)' = Whole!Cardinality(Whole!Left)
  <2>1. \A T : Whole!Cardinality(T)' = Whole!Cardinality(T)
    BY DEF Whole!Cardinality
  <2> QED BY <1>3, <2>1
<1>10. NoneAlike => NoneAlike'
  BY <1>1, <1>2 DEF NoneAlike
<1> QED
  BY <1>1, <1>3, <1>6, <1>7, <1>8, <1>9, <1>10 DEF LikeInv

\* The target rows dealt with are those before the one reached.
LEMMA WalkedRows ==
  ASSUME WholeType, LikeInv
  PROVE  Whole!Walked = {t \in Targets : t < Reached}
<1>1. Whole!Rows("target") = Targets /\ Targets \subseteq Nat /\ n["target"] \in Nat
  BY WholeNames, PairsAre DEF WholeType, Targets
<1>2. \A t \in Targets : ~(t < 0) /\ t < n["target"]
  BY <1>1 DEF Targets, Rows
<1>3. ASSUME NEW t \in Targets
      PROVE  (\/ stage = "sigWalk" /\ t < turn
              \/ stage = "paired" /\ width > 0 /\ (truncated => t < turn)) <=> t < Reached
  <2>1. CASE stage = "sigWalk"
    BY <2>1 DEF Reached
  <2>2. CASE stage = "paired" /\ width > 0
    BY <1>2, <2>2 DEF Reached
  <2>3. CASE stage # "sigWalk" /\ ~(stage = "paired" /\ width > 0)
    BY <1>2, <2>3 DEF Reached
  <2> QED BY <2>1, <2>2, <2>3
<1> QED
  BY <1>1, <1>3 DEF Whole!Walked

\* At every turn what was paired so far is accounted for.
LEMMA AlwaysLiked ==
  ASSUME WholeType, LikeInv
  PROVE  Liked(Reached)
<1>1. CASE stage \in {"sigWalk", "paired"}
  BY <1>1 DEF LikeInv
<1>2. CASE stage \notin {"sigWalk", "paired"}
  <2>1. NoneAlike /\ Reached = 0
    BY <1>2 DEF LikeInv, Reached
  <2> QED BY <2>1, NoneLiked
<1> QED
  BY <1>1, <1>2

\* At every turn a pair made by likeness is the best that was to be had.
LEMMA BestFollows == WholeType /\ LikeInv => Whole!BestCandidates
<1> SUFFICES ASSUME WholeType, LikeInv PROVE Whole!BestCandidates
  OBVIOUS
<1>1. Whole!Rows("target") = Targets /\ Whole!Walked = {t \in Targets : t < Reached}
  BY WalkedRows, WholeNames DEF Targets
<1>2. Liked(Reached)
  BY AlwaysLiked
<1>3. \A t \in Targets : Whole!ByLikeness(t) =>
        t \in Whole!Walked /\ Whole!Near(pairT[t], t) /\ Whole!ShareSignature(pairT[t], t)
  BY <1>1, <1>2 DEF Liked
<1>4. similar = Whole!Cardinality({t \in Targets : Whole!ByLikeness(t)})
  BY <1>2, WholeNames DEF Liked
<1>5. opts.k >= n["source"] => \A t \in Whole!Walked :
        (Whole!ByLikeness(t) \/ pairT[t] = NoRow) => Whole!BestOf(Whole!Had(t), t)
  BY <1>1, <1>2 DEF Liked
<1> QED
  BY <1>1, <1>3, <1>4, <1>5 DEF Whole!BestCandidates

\* At every turn likeness is within its budget, and not cut short in silence.
LEMMA WorkFollows == WholeType /\ LikeInv => Whole!WorkBounded
<1> SUFFICES ASSUME WholeType, LikeInv PROVE Whole!WorkBounded
  OBVIOUS
<1>1. /\ Whole!Rows("target") = Targets /\ Whole!Rows("source") = Sources
      /\ Whole!Walked = {t \in Targets : t < Reached}
  BY WalkedRows, WholeNames DEF Targets, Sources
<1>2. Liked(Reached)
  BY AlwaysLiked
<1>3. Whole!Compared = ComparedTo(Reached)
  BY <1>1 DEF Whole!Compared, ComparedTo
<1>4. opts.k >= n["source"] =>
        opts.columns * Whole!Cardinality(Whole!Compared) <= opts.maxWork + opts.k * opts.columns
  <2> SUFFICES ASSUME opts.k >= n["source"]
               PROVE  opts.columns * Cardinality(ComparedTo(Reached))
                        <= opts.maxWork + opts.k * opts.columns
    BY <1>3, WholeNames
  <2> QED BY <1>2 DEF Liked
<1>5. stage = "paired" /\ ~truncated =>
        Whole!Left = {} \/ opts.columns = 0 \/ Whole!Walked = Whole!Rows("target")
  <2> SUFFICES ASSUME stage = "paired", ~truncated, width > 0 PROVE Whole!Walked = Targets
    BY <1>1 DEF LikeInv
  <2>1. Reached = n["target"]
    BY DEF Reached
  <2>2. \A t \in Targets : t < n["target"]
    <3>1. n["target"] \in Nat
      BY PairsAre DEF WholeType
    <3> QED BY <3>1 DEF Targets, Rows
  <2> QED BY <1>1, <2>1, <2>2
<1>6. stage = "paired" /\ truncated =>
        work > opts.maxWork \/ Whole!Cardinality(Whole!Left) > opts.maxEntries
  BY DEF LikeInv
<1>7. work <= opts.maxWork + opts.k * opts.columns
  BY <1>2 DEF Liked
<1> QED
  BY <1>4, <1>5, <1>6, <1>7 DEF Whole!WorkBounded

\* The invariant of both matchers and of the search for moves, with what the matcher
\* of rows without a key knows of its digests and of likeness.
LikelyInv == MatchedInv /\ (~keyed => ExactInv /\ LikeInv)

LEMMA LikelyStart == MatchInit => LikelyInv
BY MatchedStart, ExactStart, LikeStart DEF LikelyInv, MatchInit, InitKeyed, InitWhole

LEMMA LikelyKept == LikelyInv /\ [MatchNext]_matchVars => LikelyInv'
<1> SUFFICES ASSUME LikelyInv, [MatchNext]_matchVars PROVE LikelyInv'
  OBVIOUS
<1>1. MatchedInv' /\ keyed' = keyed
  BY MatchedKept DEF LikelyInv, MatchNext, MatchKeyed, MatchWhole, DetectMoves, matchVars
<1>2. ~keyed => ExactInv' /\ LikeInv'
  <2>1. CASE MatchKeyed
    BY <2>1 DEF MatchKeyed
  <2>2. CASE MatchWhole
    BY <2>2, ExactKept, LikeKept DEF LikelyInv, MatchedInv, MatchWhole
  <2>3. CASE DetectMoves \/ UNCHANGED matchVars
    BY <2>3, ExactStays, LikeStays DEF LikelyInv, DetectMoves, matchVars
  <2> QED BY <2>1, <2>2, <2>3 DEF MatchNext
<1> QED
  BY <1>1, <1>2 DEF LikelyInv

\* For files of any length, whatever their signatures collide: a pair made by likeness
\* is near enough and shares a signature, and where similarity_k cuts no candidate off
\* it is the one a search of all rows left would have chosen.
THEOREM BestCandidatesFound == MatchSpec => []BestCandidates
<1>1. LikelyInv => BestCandidates
  BY BestFollows DEF LikelyInv, MatchedInv, BestCandidates, Pairing
<1> QED
  BY <1>1, LikelyStart, LikelyKept, PTL DEF MatchSpec

\* For files of any length: likeness compares no more cells than max_pair_work and one
\* row's candidates over it, and says so whenever it stops before its rows are dealt with.
THEOREM WorkStaysBounded == MatchSpec => []WorkBounded
<1>1. LikelyInv => WorkBounded
  BY WorkFollows DEF LikelyInv, MatchedInv, WorkBounded, Pairing
<1> QED
  BY <1>1, LikelyStart, LikelyKept, PTL DEF MatchSpec

=============================================================================
