------------------------------- MODULE MCEmit -------------------------------
(***************************************************************************)
(* Reports of up to three rows; of each kind a row that counts a cell or   *)
(* says nothing, as the kinds allow.                                       *)
(***************************************************************************)
EXTENDS Emit

Shape(kind, quiet, n) == [kind |-> kind, quiet |-> quiet, cells |-> n]

MCRowShapes ==
  {Shape("unchanged", TRUE, 0), Shape("unchanged", FALSE, 1), Shape("modified", FALSE, 1),
   Shape("added", FALSE, 0), Shape("deleted", FALSE, 0)}

=============================================================================
