------------------------------ MODULE MCReview ------------------------------
(* Small instances of Review; who takes part is in the .cfg files.          *)
EXTENDS Review, TLC

CONSTANTS n1, mcp, tab1, tab2, cli

Tabs == Permutations(Requests)
=============================================================================
