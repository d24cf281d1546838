----------------------------- MODULE MCLiveness -----------------------------
(* Small instances of Liveness: which processes there are, and how many     *)
(* entities of the one name, is in the .cfg files.                          *)
EXTENDS Liveness, TLC

CONSTANTS mcp, mcp2, gui, cli, c1, g1, n1, e1, e2

OnlyGoal == c1 :> g1
OneName  == c1 :> "checkout" @@ e1 :> "invoice" @@ e2 :> "invoice"
=============================================================================
