------------------------------ MODULE StoreLock ------------------------------
(***************************************************************************)
(* The cross-process store lock of src/agentic_memory_system/locking.py.   *)
(*                                                                         *)
(* A caller is one acquire/release pair: a MemoryStore between open and    *)
(* close (shared), or a rebuild of the database file (exclusive).  flock   *)
(* belongs to a file description, so a process keeps ONE descriptor per    *)
(* lock file, counts its own holders in _registry and decides conflicts    *)
(* between its own callers itself; only conflicts between processes reach  *)
(* the kernel.  Every attempt of acquire, and release, runs under _guard,  *)
(* so each is one step here; flock itself is atomic in the kernel.         *)
(***************************************************************************)
EXTENDS Naturals, FiniteSets

CONSTANTS Processes,   \* operating system processes that may open the store
          Callers,     \* the acquire/release pairs, over all processes
          Home         \* the process each caller runs in

ASSUME CallersAssumption == IsFiniteSet(Callers) /\ Home \in [Callers -> Processes]

VARIABLES registry,    \* per process, its _PathLock: fd open?, shared, exclusive
          flock,       \* per process, the mode the kernel granted its descriptor
          caller       \* per caller, how far it is

vars == <<registry, flock, caller>>

PathLock == [fd : BOOLEAN, shared : Nat, exclusive : Nat]
NoEntry  == [fd |-> FALSE, shared |-> 0, exclusive |-> 0]
Modes    == {"SH", "EX"}

Waiting(mode) == IF mode = "EX" THEN "wantEX" ELSE "wantSH"
Holding(mode) == IF mode = "EX" THEN "holdEX" ELSE "holdSH"

TypeOK ==
    /\ registry \in [Processes -> PathLock]
    /\ flock \in [Processes -> Modes \cup {"none"}]
    /\ caller \in [Callers -> {"idle", "wantSH", "wantEX", "holdSH", "holdEX", "unlocked"}]

Init ==
    /\ registry = [p \in Processes |-> NoEntry]
    /\ flock = [p \in Processes |-> "none"]
    /\ caller = [c \in Callers |-> "idle"]

\* The callers of process p that hold the lock in a mode.
HoldersIn(p, mode) == {c \in Callers : Home[c] = p /\ caller[c] = Holding(mode)}

Sharing   == {c \in Callers : caller[c] = "holdSH"}
Excluding == {c \in Callers : caller[c] = "holdEX"}
-----------------------------------------------------------------------------
(* acquire.                                                                *)

\* _PathLock.held
Held(p) == registry[p].shared + registry[p].exclusive

\* What flock(LOCK_NB) answers a fresh descriptor of process p.
KernelGrants(p, mode) ==
    \A q \in Processes \ {p} :
        flock[q] = "none" \/ (mode = "SH" /\ flock[q] = "SH")

MutConflictIgnoresShared(p, mode) == registry[p].exclusive > 0

\* An exclusive request loses to any holder of its own process, a shared one
\* only to an exclusive holder.
InProcessConflict(p, mode) ==
    \/ registry[p].exclusive > 0
    \/ mode = "EX" /\ registry[p].shared > 0

\* A shared request rides the flock its process already holds.
Rides(p, mode) == mode = "SH" /\ Held(p) > 0

MutRefusedByAnyRival(p, mode) ==
    \/ InProcessConflict(p, mode)
    \/ ~Rides(p, mode) /\ \E q \in Processes \ {p} : flock[q] # "none"

\* One attempt fails.
Refused(p, mode) ==
    \/ InProcessConflict(p, mode)
    \/ ~Rides(p, mode) /\ ~KernelGrants(p, mode)

Request(c, mode) ==
    /\ caller[c] = "idle"
    /\ caller' = [caller EXCEPT ![c] = Waiting(mode)]
    /\ UNCHANGED <<registry, flock>>

\* A refused attempt leaves the registry as it was: the entry it made, and the
\* descriptor it opened, are gone again before the next poll.
Acquire(c, mode) ==
    LET p == Home[c] IN
    /\ caller[c] = Waiting(mode)
    /\ ~Refused(p, mode)
    /\ registry' = [registry EXCEPT
            ![p].fd = TRUE,
            ![p].shared = IF mode = "SH" THEN @ + 1 ELSE @,
            ![p].exclusive = IF mode = "EX" THEN @ + 1 ELSE @]
    /\ flock' = [flock EXCEPT ![p] = IF Rides(p, mode) THEN @ ELSE mode]
    /\ caller' = [caller EXCEPT ![c] = Holding(mode)]

\* StoreBusy: the deadline has passed on a refused attempt.
GiveUp(c, mode) ==
    /\ caller[c] = Waiting(mode)
    /\ Refused(Home[c], mode)
    /\ caller' = [caller EXCEPT ![c] = "idle"]
    /\ UNCHANGED <<registry, flock>>

\* The lock file cannot be opened, or the filesystem knows no flock: acquire
\* pops the entry and returns None, and the caller goes on without a lock.
Degrade(c, mode) ==
    LET p == Home[c] IN
    /\ caller[c] = Waiting(mode)
    /\ ~InProcessConflict(p, mode) /\ ~Rides(p, mode)
    /\ registry' = [registry EXCEPT ![p] = NoEntry]
    /\ caller' = [caller EXCEPT ![c] = "unlocked"]
    /\ UNCHANGED flock
-----------------------------------------------------------------------------
(* release, and the death of a process.                                    *)

MutReleaseUnlocksEarly(c, mode) ==
    LET p == Home[c] IN
    /\ caller[c] = Holding(mode)
    /\ registry' = [registry EXCEPT ![p] = NoEntry]
    /\ flock' = [flock EXCEPT ![p] = "none"]
    /\ caller' = [caller EXCEPT ![c] = "idle"]

MutReleaseKeepsFlock(c, mode) ==
    LET p == Home[c]
        left == IF mode = "SH" THEN [registry[p] EXCEPT !.shared = @ - 1]
                               ELSE [registry[p] EXCEPT !.exclusive = @ - 1]
    IN
    /\ caller[c] = Holding(mode)
    /\ registry' = [registry EXCEPT
            ![p] = IF left.shared + left.exclusive = 0 THEN NoEntry ELSE left]
    /\ caller' = [caller EXCEPT ![c] = "idle"]
    /\ UNCHANGED flock

MutReleaseSwapsCounts(c, mode) ==
    LET p == Home[c]
        left == IF mode = "SH" THEN [registry[p] EXCEPT !.exclusive = @ - 1]
                               ELSE [registry[p] EXCEPT !.shared = @ - 1]
        last == left.shared + left.exclusive = 0
    IN
    /\ caller[c] = Holding(mode)
    /\ registry' = [registry EXCEPT ![p] = IF last THEN NoEntry ELSE left]
    /\ flock' = [flock EXCEPT ![p] = IF last THEN "none" ELSE @]
    /\ caller' = [caller EXCEPT ![c] = "idle"]

\* The last holder of the process unlocks, closes the descriptor and pops the
\* entry.
Release(c, mode) ==
    LET p == Home[c]
        left == IF mode = "SH"
                THEN [registry[p] EXCEPT !.shared = IF @ > 0 THEN @ - 1 ELSE 0]
                ELSE [registry[p] EXCEPT !.exclusive = IF @ > 0 THEN @ - 1 ELSE 0]
        last == left.shared + left.exclusive = 0
    IN
    /\ caller[c] = Holding(mode)
    /\ registry' = [registry EXCEPT ![p] = IF last THEN NoEntry ELSE left]
    /\ flock' = [flock EXCEPT ![p] = IF last THEN "none" ELSE @]
    /\ caller' = [caller EXCEPT ![c] = "idle"]

\* release(None) is a no-op.
ReleaseNone(c) ==
    /\ caller[c] = "unlocked"
    /\ caller' = [caller EXCEPT ![c] = "idle"]
    /\ UNCHANGED <<registry, flock>>

\* A killed process loses its memory, and the kernel closes its descriptor.
Die(p) ==
    /\ \E c \in Callers : Home[c] = p /\ caller[c] # "idle"
    /\ registry' = [registry EXCEPT ![p] = NoEntry]
    /\ flock' = [flock EXCEPT ![p] = "none"]
    /\ caller' = [c \in Callers |-> IF Home[c] = p THEN "idle" ELSE caller[c]]

Next ==
    \/ \E c \in Callers, mode \in Modes :
        \/ Request(c, mode)
        \/ Acquire(c, mode)
        \/ GiveUp(c, mode)
        \/ Degrade(c, mode)
        \/ Release(c, mode)
    \/ \E c \in Callers : ReleaseNone(c)
    \/ \E p \in Processes : Die(p)

Spec == Init /\ [][Next]_vars
-----------------------------------------------------------------------------
(* Correctness.                                                            *)

\* The rule of locking.py:19-20: while one caller, in whatever process, holds
\* the lock exclusive, no other caller holds it in any mode.
Exclusion ==
    \A w \in Excluding : Sharing = {} /\ Excluding = {w}

\* The registry is the only record a process has of its own holders, and the
\* kernel the only record other processes have: the counts are exactly the
\* callers that hold, and the descriptor exists and is flocked, in the
\* strongest mode held, exactly while somebody in the process holds.
RegistryAgrees ==
    \A p \in Processes :
        /\ registry[p].shared = Cardinality(HoldersIn(p, "SH"))
        /\ registry[p].exclusive = Cardinality(HoldersIn(p, "EX"))
        /\ registry[p].fd <=> Held(p) > 0
        /\ flock[p] = IF HoldersIn(p, "EX") # {} THEN "EX"
                      ELSE IF HoldersIn(p, "SH") # {} THEN "SH" ELSE "none"

\* An attempt is refused exactly when some live caller anywhere holds the lock
\* in a conflicting mode: a crash leaves nothing stale that could make the
\* store look busy, and no conflict, in this process or another, is missed.
RefusedIffConflict ==
    \A p \in Processes :
        /\ Refused(p, "SH") <=> Excluding # {}
        /\ Refused(p, "EX") <=> Excluding \cup Sharing # {}

\* The registry and the flocks together implement the abstract lock.
Abstract == INSTANCE RWLock WITH readers <- Sharing, writers <- Excluding
ImplementsRWLock == Abstract!LockSpec
=============================================================================
