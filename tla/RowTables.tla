----------------------------- MODULE RowTables -----------------------------
(***************************************************************************)
(* The open addressing table of core/src/match.c that both matchers and    *)
(* the candidate index are built on: its size, and the order of a probe.   *)
(***************************************************************************)
EXTENDS Integers

CONSTANT Capacities  \* the table sizes pow2_at_least may return

Side == {"source", "target"}

\* IBHA_CSVD_NO_ROW, 2^32 - 1 in the code: no row has it for its index.
NoRow == -1

\* The capacity bmap_init asks for: the least size with room for 2n + 1.
FitsTwice(n, c) ==
  c >= 2 * n + 1 /\ \A d \in Capacities : d >= 2 * n + 1 => c <= d

Capacity(size) == CHOOSE c \in Capacities : FitsTwice(size, c)

=============================================================================
