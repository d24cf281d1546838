------------------------------ MODULE MCImpact -------------------------------
(* A small instance of Impact: every graph of up to three nodes.             *)
EXTENDS Impact, TLC

CONSTANTS n1, n2, n3
=============================================================================
