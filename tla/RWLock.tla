------------------------------- MODULE RWLock -------------------------------
(***************************************************************************)
(* What locking.py promises to the rest of the system: a readers/writer    *)
(* lock on one store, held by callers (a session of MemoryStore, a rebuild *)
(* in sync.py).  "Every live connection holds a SHARED lock; replacing the *)
(* file requires an EXCLUSIVE one" (locking.py:19-20).                     *)
(*                                                                         *)
(* StoreLock implements this specification with one flock per process and  *)
(* an in-process registry; StoreSync is built on it.                       *)
(***************************************************************************)
CONSTANT Callers

VARIABLES readers,   \* callers holding the lock shared
          writers    \* callers holding it exclusive

lockVars == <<readers, writers>>

holders == readers \cup writers

LockInit == readers = {} /\ writers = {}

\* A shared request loses only to an exclusive holder.
CanShare == writers = {}

\* An exclusive request loses to any holder.
CanExclude == readers = {} /\ writers = {}

AcquireShared(c) ==
    /\ c \notin holders
    /\ CanShare
    /\ readers' = readers \cup {c}
    /\ UNCHANGED writers

AcquireExclusive(c) ==
    /\ c \notin holders
    /\ CanExclude
    /\ writers' = writers \cup {c}
    /\ UNCHANGED readers

\* A release drops one caller; the death of a process drops all of its own.
Drop(gone) ==
    /\ gone \subseteq holders
    /\ gone # {}
    /\ readers' = readers \ gone
    /\ writers' = writers \ gone

LockNext ==
    \/ \E c \in Callers : AcquireShared(c) \/ AcquireExclusive(c)
    \/ \E gone \in SUBSET Callers : Drop(gone)

LockSpec == LockInit /\ [][LockNext]_lockVars

\* No caller ever holds the lock in either mode beside an exclusive holder.
Exclusion ==
    \A w \in writers : readers = {} /\ writers = {w}
=============================================================================
