----------------------------- MODULE MCStoreLock -----------------------------
(* Three processes, two of them with two callers (a GUI server that opens a *)
(* second store, a test that opens two): what the registry is for.          *)
EXTENDS StoreLock, TLC

CONSTANTS p1, p2, p3, a, b, c, d, e

MCHome == (a :> p1) @@ (b :> p1) @@ (c :> p2) @@ (d :> p2) @@ (e :> p3)
=============================================================================
