---------------------------- MODULE MCDiffCursor ----------------------------
(***************************************************************************)
(* DiffCursor on every pairing of at most three source rows with at most   *)
(* three target rows, both placements of deletions, two cursors and one    *)
(* reset between them.                                                     *)
(***************************************************************************)
EXTENDS DiffCursor
=============================================================================
