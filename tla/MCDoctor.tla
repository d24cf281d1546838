------------------------------- MODULE MCDoctor -------------------------------
(* A session and a repair on one store.                                      *)
EXTENDS Doctor, TLC

CONSTANTS gui, cli, doctor, w1, w2, u1

\* No action and no property tells one unit of local work from another, or, where
\* none is a server, one session beside the repair from another.
Alike == Permutations(Work) \cup Permutations(Sessions \ ({Repairer} \cup Servers))
=============================================================================
