---------------------------- MODULE MCViewModel ----------------------------
(***************************************************************************)
(* ViewModel over a report of three pages, one of them when filtered.      *)
(***************************************************************************)
EXTENDS ViewModel

SmallReport == [changesOnly \in BOOLEAN |-> IF changesOnly THEN 1 ELSE 3]

=============================================================================
