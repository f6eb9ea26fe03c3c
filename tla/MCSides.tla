------------------------------- MODULE MCSides -------------------------------
(* Every pair of headers of up to four columns, every choice of KEY columns,  *)
(* every policy; then a diff whose options agree with those of the parses,    *)
(* or differ from them in one thing or in the policy.                         *)
EXTENDS Sides, TLC

Symmetry == Permutations(Names)

\* Neighbours of one type, and columns apart of different types.
MCTypeAt == <<"text", "text", "number", "number">>

Policies == SUBSET {"added", "removed"}

Call(c) == [compare |-> c, quote |-> "double", digests |-> TRUE]

Three(s, sp, t, d, dp) ==
  [source |-> Call(s) @@ [policy |-> sp], target |-> Call(t),
   diff |-> [compare |-> d, policy |-> dp, requireKey |-> FALSE]]

Compares == {"exact", "trimmed"}

Same == Three("exact", {}, "exact", "exact", {})

MCOptions ==
  {Three("exact", sp, "exact", "exact", dp) : sp, dp \in Policies}
  \cup {Three(s, p, t, "exact", p) : s, t \in Compares, p \in Policies}
  \cup {[Same EXCEPT !.source.quote = "single"], [Same EXCEPT !.target.digests = FALSE],
        [Same EXCEPT !.diff.requireKey = TRUE]}
=============================================================================
