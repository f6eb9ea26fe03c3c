---------------------------- MODULE MCColumnPlan ----------------------------
(* Every pair of headers of up to three (four) columns, every choice of KEY   *)
(* columns, every policy.  Names only ever meet in equalities.                *)
EXTENDS ColumnPlan, TLC

Symmetry == Permutations(Names)
=============================================================================
