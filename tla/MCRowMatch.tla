----------------------------- MODULE MCRowMatch -----------------------------
(***************************************************************************)
(* RowMatch on small pairs of files: with a key, every one of at most      *)
(* three rows over three keys, with digests that collide in full, collide  *)
(* in the slot only, or wrap past the end of the table; without one, a     *)
(* family for each part of the pairing.                                    *)
(***************************************************************************)
EXTENDS RowMatch

\* 7 and 15 share a slot of every table; in a table of 4 slots 3 joins them.
CollidingHashes == {3, 7, 15}

\* The code's tables start at 16 slots; these start at 1, so that a table is
\* as full as 2n + 1 ever lets it be.
SmallCapacities == {1, 2, 4, 8, 16, 32}

\* Some signatures fall in one slot, and some are the same: that of a value is the
\* one of the value less by two in the column after.
SmallSigHash(value, column) == 5 * value + 10 * column

Files(rows, least, most) == UNION {[1 .. i -> rows] : i \in least .. most}

Options(columns, ks, percents, works, widths, entries) ==
  [columns : {columns}, k : ks, percent : percents, maxWork : works,
   sigColumns : widths, maxEntries : entries]

\* Rows of one cell, of which several may be alike.
OneCell == {[cells |-> <<h>>, digest |-> h] : h \in CollidingHashes}
Identical ==
  [source : Files(OneCell, 0, 3), target : Files(OneCell, 0, 3),
   opts : Options(1, {2}, {50}, {10}, {8}, {8}), detect : {FALSE}]

\* Rows of three cells: 0 is empty, 1 blank, 2 and 3 two values.
ThreeCells ==
  {[cells |-> c, digest |-> 9 * c[1] + 3 * c[2] + c[3]] :
     c \in {<<2, 2, 2>>, <<2, 2, 3>>, <<3, 2, 3>>, <<0, 2, 2>>, <<3, 1, 1>>}}
Wanted == {x \in ThreeCells : x.cells \in {<<2, 2, 3>>, <<0, 2, 2>>, <<3, 1, 1>>}}
Alike ==
  [source : Files(ThreeCells, 3, 3), target : Files(Wanted, 2, 2),
   opts : Options(3, {1}, {34}, {9}, {2}, {6}) \cup Options(3, {3}, {34}, {0, 9}, {2}, {2, 6}),
   detect : {TRUE}]
Distant ==
  [source : Files(ThreeCells, 3, 3), target : Files(Wanted, 2, 2),
   opts : Options(3, {3}, {66}, {9}, {3}, {9}), detect : {TRUE}]

\* Every way to pair some of five rows with some of five.
Five == [i \in 1 .. 5 |-> [cells |-> <<i + 1>>, digest |-> i]]
Shuffled ==
  {f \in [1 .. 5 -> {Five[i] : i \in 1 .. 5} \cup {[cells |-> <<9>>, digest |-> 9]}] :
     \A i, j \in 1 .. 5 : i # j /\ f[i].digest # 9 => f[i] # f[j]}
Reordered ==
  [source : {Five}, target : Shuffled,
   opts : Options(1, {2}, {50}, {10}, {8}, {8}), detect : {TRUE}]

SmallUnkeyed == <<Identical, Alike, Distant, Reordered>>

=============================================================================
