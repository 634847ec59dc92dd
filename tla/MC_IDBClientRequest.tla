------------------------- MODULE MC_IDBClientRequest -------------------------
EXTENDS IDBClientRequest

CONSTANTS r1, r2, n1

(* A cursor request and another request of the same transaction.           *)
MCReqs == {r1, r2}
MCIndexNames == {n1}
(* Two continue() calls: one from the cursor's handler, one from another. *)
MCMaxIterations == 2
(* An index created, deleted, and looked up again.                          *)
MCMaxIndexObjects == 2
=============================================================================
