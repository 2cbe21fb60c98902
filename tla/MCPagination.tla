----------------------------- MODULE MCPagination -----------------------------
(***************************************************************************)
(* Pagination with the rows of two providers, alternating.                 *)
(***************************************************************************)
EXTENDS Pagination

CONSTANTS MCRows, p1, p2

MCProviderOf == [r \in 1..MCRows |-> IF r % 2 = 1 THEN p1 ELSE p2]
MCOffsets    == {-1, 2}
=============================================================================
