----------------------------- MODULE MCStoreSync -----------------------------
(* Small instances of StoreSync: which sessions there are and what each run  *)
(* lets them do is in the .cfg files.                                        *)
EXTENDS StoreSync, TLC

CONSTANTS gui, cli, w1, w2, u1

\* No action and no safety property tells one unit of local work from another.
Units == Permutations(Work)
=============================================================================
