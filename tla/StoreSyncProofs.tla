-------------------------- MODULE StoreSyncProofs --------------------------
(***************************************************************************)
(* Proofs about the files and the sessions, for any number of sessions,    *)
(* units of work, faults and `sync` commands.                              *)
(*                                                                         *)
(* Everything rests on the lock being held in the mode the phase calls for *)
(* (LockMatchesPhase).  While one session rebuilds, then, no other has a   *)
(* connection or rebuilds (Alone), so no commit gets into the WAL it       *)
(* folded in and copied: that is RebuildOwnsFiles, and from it follow that *)
(* nobody is connected to the file it replaces, that the .bak is complete, *)
(* and where another database's WAL can be.                                *)
(*                                                                         *)
(* Upstream work in the database changes by a rebuild only, and a rebuild  *)
(* waits for the sessions that dump, so what they have read is what they   *)
(* write (RestoredWork).  Where nothing disturbs the files, the dump is    *)
(* the newer one only until its writer aligns the two, so no database that *)
(* is there is ever rebuilt (UndisturbedWork).                             *)
(***************************************************************************)
EXTENDS StoreSync, TLAPS

\* What rests on the lock alone.
Core ==
    /\ TypeOK
    /\ LockMatchesPhase
    /\ NoOrphanedConnection
    /\ RebuildOwnsFiles

\* A WAL nobody has open is a crash's; another database's WAL is that of a crash,
\* which a rebuild somebody asked for, or a second crash of it, left.
WalAccounted ==
    /\ wal # {} /\ Live = {} => faults > 0
    /\ alien => faults > 0
    /\ alien => \/ faults > 1
                \/ \E s \in Sessions : pc[s] = "unlink" /\ why[s] = "restore"

\* Only a `sync` command makes a session leave for a dump or a restore.
CommandsCounted ==
    /\ \A s \in Sessions : why[s] \in {"dump", "restore"} => commands > 0
    /\ alien => commands > 0

IInv ==
    /\ Core
    /\ WalAccounted
    /\ CommandsCounted
-----------------------------------------------------------------------------
(* Types of what the actions write.                                        *)
LEMMA ReadableType ==
    ASSUME TypeOK
    PROVE  Readable \in SUBSET AllWork
  BY DEF TypeOK, Readable

LEMMA FoldType ==
    ASSUME TypeOK, NEW s \in Sessions, Fold(s)
    PROVE  /\ db' \in {NoFile} \cup SUBSET AllWork
           /\ wal' \in SUBSET AllWork
           /\ alien' \in BOOLEAN
           /\ lead' \in {"db", "dump", "even"}
  BY ReadableType DEF TypeOK, Fold

LEMMA DumpType ==
    ASSUME NEW work \in SUBSET AllWork, NEW parses \in BOOLEAN
    PROVE  [work |-> work, parses |-> parses] \in Dumps
  BY DEF Dumps

LEMMA ForgetType ==
    ASSUME TypeOK, NEW s \in Sessions, NEW purpose \in Purposes, Forget(s, purpose)
    PROVE  /\ stale' \in [Sessions -> BOOLEAN]
           /\ wrote' \in [Sessions -> BOOLEAN]
           /\ dirty' \in [Sessions -> BOOLEAN]
           /\ why' \in [Sessions -> Purposes]
           /\ text' \in [Sessions -> {NoFile} \cup SUBSET AllWork]
  BY DEF TypeOK, Forget, Reads

LEMMA FilesAreSomething ==
    /\ \A work \in SUBSET AllWork : work # NoFile
    /\ \A d \in Dumps : d # NoFile /\ d.work \in SUBSET AllWork
<1>1. \A d \in Dumps : d.work \in SUBSET AllWork
  BY DEF Dumps
<1>2. QED
  BY <1>1, SyncAssumption
-----------------------------------------------------------------------------
(* One session moves from one phase to another.                            *)
LEMMA PhaseMove ==
    ASSUME TypeOK, NEW s \in Sessions, NEW from, NEW to, Step(s, from, to)
    PROVE  /\ s \in Live <=> from \in Connected
           /\ s \in Rebuilders <=> from \in Rebuilding
           /\ Live' = IF to \in Connected THEN Live \cup {s} ELSE Live \ {s}
           /\ Rebuilders' = IF to \in Rebuilding
                            THEN Rebuilders \cup {s} ELSE Rebuilders \ {s}
  BY DEF TypeOK, Step, Live, Rebuilders

LEMMA LockKeepsExclusion ==
    ASSUME Lock!Exclusion, NEW s,
           Lock!AcquireShared(s) \/ Lock!AcquireExclusive(s) \/ Lock!Drop({s})
    PROVE  Lock!Exclusion'
  BY DEF Lock!Exclusion, Lock!AcquireShared, Lock!AcquireExclusive, Lock!Drop,
         Lock!CanShare, Lock!CanExclude, Lock!holders

(* The four ways a step keeps lock and phases together: it takes the lock  *)
(* as it enters the phase that needs it, drops it as it leaves, or does    *)
(* neither.                                                                *)
LEMMA JoinWriters ==
    ASSUME TypeOK, LockMatchesPhase, NEW s \in Sessions, NEW from, NEW to,
           Step(s, from, to), from \notin Connected, to \in Rebuilding,
           Lock!AcquireExclusive(s)
    PROVE  LockMatchesPhase'
<1>1. Lock!Exclusion'
  BY LockKeepsExclusion DEF LockMatchesPhase
<1>2. readers' = readers /\ writers' = writers \cup {s}
  BY DEF Lock!AcquireExclusive
<1>3. Live' = Live /\ Rebuilders' = Rebuilders \cup {s}
  BY PhaseMove DEF Rebuilding, Connected
<1>4. QED
  BY <1>1, <1>2, <1>3 DEF LockMatchesPhase

LEMMA JoinReaders ==
    ASSUME TypeOK, LockMatchesPhase, NEW s \in Sessions, NEW from, NEW to,
           Step(s, from, to), from \notin Rebuilding, to \in Connected,
           Lock!AcquireShared(s)
    PROVE  LockMatchesPhase'
<1>1. Lock!Exclusion'
  BY LockKeepsExclusion DEF LockMatchesPhase
<1>2. readers' = readers \cup {s} /\ writers' = writers
  BY DEF Lock!AcquireShared
<1>3. Live' = Live \cup {s} /\ Rebuilders' = Rebuilders
  BY PhaseMove DEF Rebuilding, Connected
<1>4. QED
  BY <1>1, <1>2, <1>3 DEF LockMatchesPhase

LEMMA Leave ==
    ASSUME TypeOK, LockMatchesPhase, NEW s \in Sessions, NEW from, NEW to,
           Step(s, from, to), to \notin Connected \cup Rebuilding,
           Lock!Drop({s}) \/ (UNCHANGED locks /\ s \notin Lock!holders)
    PROVE  LockMatchesPhase'
<1>1. Lock!Exclusion'
  BY LockKeepsExclusion DEF LockMatchesPhase, Lock!Exclusion, locks
<1>2. readers' = readers \ {s} /\ writers' = writers \ {s}
  BY DEF Lock!Drop, Lock!holders, locks
<1>3. Live' = Live \ {s} /\ Rebuilders' = Rebuilders \ {s}
  BY PhaseMove
<1>4. QED
  BY <1>1, <1>2, <1>3 DEF LockMatchesPhase

LEMMA Stay ==
    ASSUME TypeOK, LockMatchesPhase, NEW s \in Sessions, NEW from, NEW to,
           Step(s, from, to), UNCHANGED locks,
           from \in Connected <=> to \in Connected,
           from \in Rebuilding <=> to \in Rebuilding
    PROVE  LockMatchesPhase'
<1>1. Lock!Exclusion'
  BY DEF LockMatchesPhase, Lock!Exclusion, locks
<1>2. Live' = Live /\ Rebuilders' = Rebuilders
  BY PhaseMove
<1>3. QED
  BY <1>1, <1>2 DEF LockMatchesPhase, locks

(* Who rebuilds is alone with the files.                                   *)
LEMMA Alone ==
    ASSUME LockMatchesPhase, NEW s \in Sessions, pc[s] \in Rebuilding
    PROVE  /\ Live = {}
           /\ \A t \in Sessions : pc[t] \in Rebuilding \cup Connected => t = s
<1>1. s \in writers
  BY DEF LockMatchesPhase, Rebuilders
<1>2. Live = {} /\ Rebuilders = {s}
  BY <1>1 DEF LockMatchesPhase, Lock!Exclusion
<1>3. QED
  BY <1>2 DEF Live, Rebuilders
-----------------------------------------------------------------------------
(* Every action keeps the types.                                           *)
LEMMA TypesKept ==
    ASSUME Core, Next
    PROVE  TypeOK'
<1> USE DEF Core, TypeOK, files, locks, session, flags, history, Step, Connected,
            Rebuilding, Outside, Purposes
<1>1. ASSUME NEW s \in Sessions, OpenStore(s) PROVE TypeOK'
  BY <1>1 DEF OpenStore
<1>2. ASSUME NEW s \in Sessions, BeginRestore(s) PROVE TypeOK'
  BY <1>2 DEF BeginRestore, Lock!AcquireExclusive
<1>3. ASSUME NEW s \in Sessions, SkipRestore(s) PROVE TypeOK'
  BY <1>3 DEF SkipRestore
<1>4. ASSUME NEW s \in Sessions, Backup(s) PROVE TypeOK'
  BY <1>4, ReadableType DEF Backup
<1>5. ASSUME NEW s \in Sessions, Build(s) PROVE TypeOK'
  BY <1>5, FilesAreSomething DEF Build, RebuildOwnsFiles, Reads
<1>6. ASSUME NEW s \in Sessions, Swap(s) PROVE TypeOK'
  BY <1>6 DEF Swap, Reads, Live
<1>7. ASSUME NEW s \in Sessions, Unlink(s) PROVE TypeOK'
  BY <1>7 DEF Unlink
<1>8. ASSUME NEW s \in Sessions, EndRestore(s) PROVE TypeOK'
  BY <1>8, ForgetType DEF EndRestore, Lock!Drop
<1>9. ASSUME NEW s \in Sessions, Probe(s) PROVE TypeOK'
  BY <1>9 DEF Probe, DumpIsStale
<1>10. ASSUME NEW s \in Sessions, Connect(s) PROVE TypeOK'
  BY <1>10 DEF Connect, Lock!AcquireShared
<1>11. ASSUME NEW s \in Sessions, OpenFails(s) PROVE TypeOK'
  BY <1>11, ForgetType DEF OpenFails
<1>12. ASSUME NEW s \in Sessions, ServeWrite(s) PROVE TypeOK'
  BY <1>12 DEF ServeWrite
<1>13. ASSUME NEW s \in Sessions, SyncDump(s) PROVE TypeOK'
  BY <1>13, SyncAssumption DEF SyncDump, Command
<1>14. ASSUME NEW s \in Sessions, Snapshot(s) PROVE TypeOK'
  BY <1>14, ReadableType DEF Snapshot, Reads
<1>15. ASSUME NEW s \in Sessions, ReplaceDump(s) PROVE TypeOK'
  <2>1. text[s] \in SUBSET AllWork
    BY <1>15 DEF ReplaceDump, RebuildOwnsFiles
  <2>2. dump' \in Dumps
    BY <1>15, <2>1, DumpType DEF ReplaceDump
  <2>3. QED
    BY <1>15, <2>1, <2>2 DEF ReplaceDump, Reads
<1>16. ASSUME NEW s \in Sessions, Align(s) PROVE TypeOK'
  BY <1>16 DEF Align, AfterDump
<1>17. ASSUME NEW s \in Sessions, Disconnect(s) PROVE TypeOK'
  <2>1. Forget(s, "restore") \/ Forget(s, "open")
    BY <1>17 DEF Disconnect
  <2>2. Fold(s) \/ UNCHANGED <<db, wal, alien, lead>>
    BY <1>17 DEF Disconnect
  <2>3. QED
    BY <1>17, <2>1, <2>2, FoldType, ForgetType DEF Disconnect, Lock!Drop
<1>18. ASSUME NEW s \in Sessions, Reread(s) PROVE TypeOK'
  BY <1>18, FilesAreSomething DEF Reread, RebuildOwnsFiles, Reads
<1>19. ASSUME NEW s \in Sessions, TakeSwapLock(s) PROVE TypeOK'
  BY <1>19 DEF TakeSwapLock, Lock!AcquireExclusive
<1>20. ASSUME NEW s \in Sessions, RestoreBusy(s) PROVE TypeOK'
  BY <1>20, ForgetType DEF RestoreBusy
<1>21. ASSUME NEW s \in Sessions, AutoCheckpoint(s) PROVE TypeOK'
  BY <1>21, FoldType DEF AutoCheckpoint
<1>22. ASSUME NEW s \in Sessions, DumpFails(s) PROVE TypeOK'
  BY <1>22, SyncAssumption DEF DumpFails, AfterDump, Reads
<1>23. ASSUME NEW s \in Sessions, Crash(s) PROVE TypeOK'
  BY <1>23, ForgetType, SyncAssumption DEF Crash, Lock!Drop
<1>24. ASSUME NEW s \in Sessions, NEW w \in Work, Commit(s, w) PROVE TypeOK'
  BY <1>24 DEF Commit, AllWork
<1>25. ASSUME NEW s \in Sessions, NEW purpose \in {"close", "restore"},
              Close(s, purpose)
       PROVE  TypeOK'
  <2>1. Fold(s) /\ purpose \in Purposes
    BY <1>25 DEF Close
  <2>2. commands' \in 0..MaxCommands
    BY <1>25, SyncAssumption DEF Close, Command
  <2>3. QED
    BY <1>25, <2>1, <2>2, FoldType DEF Close, Command
<1>26. ASSUME (\E u \in Upstream, clean \in BOOLEAN : Pull(u, clean)) \/ Resolve
       PROVE  TypeOK'
  <2>1. ASSUME NEW u \in Upstream, NEW clean \in BOOLEAN, Pull(u, clean) PROVE TypeOK'
    <3>1. {u} \cup Dumped \in SUBSET AllWork
      BY FilesAreSomething DEF AllWork, Dumped
    <3>2. QED
      BY <2>1, <3>1, DumpType DEF Pull
  <2>2. ASSUME Resolve PROVE TypeOK'
    <3>1. dump' = [work |-> dump.work, parses |-> TRUE] /\ dump.work \in SUBSET AllWork
      BY <2>2 DEF Resolve, Dumps
    <3>2. QED
      BY <2>2, <3>1, DumpType DEF Resolve
  <2>3. QED
    BY <1>26, <2>1, <2>2
<1>27. QED
  BY <1>1, <1>2, <1>3, <1>4, <1>5, <1>6, <1>7, <1>8, <1>9, <1>10, <1>11,
     <1>12, <1>13, <1>14, <1>15, <1>16, <1>17, <1>18, <1>19, <1>20, <1>21,
     <1>22, <1>23, <1>24, <1>25, <1>26 DEF Next, Progress, Use

(* Every action keeps lock and phases together.                            *)
LEMMA PhasesKept ==
    ASSUME Core, Next
    PROVE  LockMatchesPhase'
<1> USE DEF Core, Connected, Rebuilding
<1>1. ASSUME NEW s \in Sessions, OpenStore(s) PROVE LockMatchesPhase'
  BY <1>1, Stay DEF OpenStore
<1>2. ASSUME NEW s \in Sessions, BeginRestore(s) PROVE LockMatchesPhase'
  BY <1>2, JoinWriters DEF BeginRestore
<1>3. ASSUME NEW s \in Sessions, SkipRestore(s) PROVE LockMatchesPhase'
  BY <1>3, Stay DEF SkipRestore
<1>4. ASSUME NEW s \in Sessions, Backup(s) PROVE LockMatchesPhase'
  BY <1>4, Stay DEF Backup
<1>5. ASSUME NEW s \in Sessions, Build(s) PROVE LockMatchesPhase'
  BY <1>5, Stay DEF Build
<1>6. ASSUME NEW s \in Sessions, Swap(s) PROVE LockMatchesPhase'
  BY <1>6, Stay DEF Swap
<1>7. ASSUME NEW s \in Sessions, Unlink(s) PROVE LockMatchesPhase'
  BY <1>7, Stay DEF Unlink
<1>8. ASSUME NEW s \in Sessions, EndRestore(s) PROVE LockMatchesPhase'
  <2>1. PICK to \in {"idle", "probe"} : Step(s, "unlock", to)
    BY <1>8 DEF EndRestore
  <2>2. QED
    BY <1>8, <2>1, Leave DEF EndRestore
<1>9. ASSUME NEW s \in Sessions, Probe(s) PROVE LockMatchesPhase'
  BY <1>9, Stay DEF Probe
<1>10. ASSUME NEW s \in Sessions, Connect(s) PROVE LockMatchesPhase'
  BY <1>10, JoinReaders DEF Connect
<1>11. ASSUME NEW s \in Sessions, OpenFails(s) PROVE LockMatchesPhase'
  BY <1>11, Stay DEF OpenFails
<1>12. ASSUME NEW s \in Sessions, ServeWrite(s) PROVE LockMatchesPhase'
  BY <1>12, Stay DEF ServeWrite
<1>13. ASSUME NEW s \in Sessions, SyncDump(s) PROVE LockMatchesPhase'
  BY <1>13, Stay DEF SyncDump
<1>14. ASSUME NEW s \in Sessions, Snapshot(s) PROVE LockMatchesPhase'
  BY <1>14, Stay DEF Snapshot
<1>15. ASSUME NEW s \in Sessions, ReplaceDump(s) PROVE LockMatchesPhase'
  BY <1>15, Stay DEF ReplaceDump
<1>16. ASSUME NEW s \in Sessions, Align(s) PROVE LockMatchesPhase'
  BY <1>16, Stay DEF Align, AfterDump
<1>17. ASSUME NEW s \in Sessions, Disconnect(s) PROVE LockMatchesPhase'
  <2>1. PICK to \in {"idle", "reread"} : Step(s, "disconnect", to)
    BY <1>17 DEF Disconnect
  <2>2. QED
    BY <1>17, <2>1, Leave DEF Disconnect
<1>18. ASSUME NEW s \in Sessions, Reread(s) PROVE LockMatchesPhase'
  BY <1>18, Stay DEF Reread
<1>19. ASSUME NEW s \in Sessions, TakeSwapLock(s) PROVE LockMatchesPhase'
  BY <1>19, JoinWriters DEF TakeSwapLock
<1>20. ASSUME NEW s \in Sessions, RestoreBusy(s) PROVE LockMatchesPhase'
  BY <1>20, Stay DEF RestoreBusy
<1>21. ASSUME NEW s \in Sessions, AutoCheckpoint(s) PROVE LockMatchesPhase'
  BY <1>21 DEF AutoCheckpoint, LockMatchesPhase, Live, Rebuilders, locks,
         session, Lock!Exclusion
<1>22. ASSUME NEW s \in Sessions, DumpFails(s) PROVE LockMatchesPhase'
  BY <1>22, Stay DEF DumpFails, AfterDump, Step
<1>23. ASSUME NEW s \in Sessions, Crash(s) PROVE LockMatchesPhase'
  BY <1>23, Leave DEF Crash, Step
<1>24. ASSUME NEW s \in Sessions, NEW w \in Work, Commit(s, w)
       PROVE  LockMatchesPhase'
  BY <1>24 DEF Commit, LockMatchesPhase, Live, Rebuilders, locks, session,
         Lock!Exclusion
<1>25. ASSUME NEW s \in Sessions, NEW purpose \in {"close", "restore"},
              Close(s, purpose)
       PROVE  LockMatchesPhase'
  BY <1>25, Stay DEF Close
<1>26. ASSUME (\E u \in Upstream, clean \in BOOLEAN : Pull(u, clean)) \/ Resolve
       PROVE  LockMatchesPhase'
  BY <1>26 DEF Pull, Resolve, LockMatchesPhase, Live, Rebuilders, locks, session,
         Lock!Exclusion
<1>27. QED
  BY <1>1, <1>2, <1>3, <1>4, <1>5, <1>6, <1>7, <1>8, <1>9, <1>10, <1>11,
     <1>12, <1>13, <1>14, <1>15, <1>16, <1>17, <1>18, <1>19, <1>20, <1>21,
     <1>22, <1>23, <1>24, <1>25, <1>26 DEF Next, Progress, Use

(* No action leaves a connection to a replaced file behind: only Swap adds *)
(* to orphans, and it adds who is connected while the lock is exclusive.   *)
LEMMA NobodyOrphaned ==
    ASSUME Core, Next
    PROVE  NoOrphanedConnection'
<1> USE DEF Core, NoOrphanedConnection
<1>1. ASSUME NEW s \in Sessions, Swap(s) PROVE NoOrphanedConnection'
  BY <1>1, Alone DEF Swap, Step, Rebuilding
<1>2. ASSUME orphans' \subseteq orphans PROVE NoOrphanedConnection'
  BY <1>2
<1>3. ASSUME NEW s \in Sessions, Progress(s), ~Swap(s) PROVE orphans' \subseteq orphans
  BY <1>3 DEF Progress, history, BeginRestore, SkipRestore, Backup, Build, Unlink,
     EndRestore, Probe, Connect, OpenFails, Snapshot, ReplaceDump, Align,
     Disconnect, Reread, TakeSwapLock, RestoreBusy
<1>4. ASSUME NEW s \in Sessions,
             Use(s) \/ AutoCheckpoint(s) \/ DumpFails(s) \/ Crash(s)
      PROVE  orphans' \subseteq orphans
  BY <1>4 DEF Use, OpenStore, Commit, ServeWrite, SyncDump, Close, AutoCheckpoint,
     DumpFails, Crash, Command, history
<1>5. ASSUME (\E u \in Upstream, clean \in BOOLEAN : Pull(u, clean)) \/ Resolve
      PROVE  orphans' \subseteq orphans
  BY <1>5 DEF Pull, Resolve, history
<1>6. QED
  BY <1>1, <1>2, <1>3, <1>4, <1>5 DEF Next

(* What a rebuild looked at stays as it was.                               *)
LEMMA FilesKept ==
    ASSUME Core, Next
    PROVE  RebuildOwnsFiles'
<1> USE DEF Core, TypeOK, RebuildOwnsFiles, Live, Step, Connected, Rebuilding,
       history, session, files, flags
<1>1. ASSUME NEW s \in Sessions, OpenStore(s) PROVE RebuildOwnsFiles'
  BY <1>1, Alone, FilesAreSomething DEF OpenStore, RestoreNeeded, Backed
<1>2. ASSUME NEW s \in Sessions, BeginRestore(s) PROVE RebuildOwnsFiles'
  BY <1>2, Alone, FilesAreSomething DEF BeginRestore, RestoreNeeded, Backed
<1>3. ASSUME NEW s \in Sessions, SkipRestore(s) PROVE RebuildOwnsFiles'
  BY <1>3, Alone, FilesAreSomething DEF SkipRestore, Backed
<1>4. ASSUME NEW s \in Sessions, Backup(s) PROVE RebuildOwnsFiles'
  BY <1>4, Alone, FilesAreSomething DEF Backup, Readable, Backed
<1>5. ASSUME NEW s \in Sessions, Build(s) PROVE RebuildOwnsFiles'
  BY <1>5, Alone, FilesAreSomething DEF Build, Reads, Backed
<1>6. ASSUME NEW s \in Sessions, Swap(s) PROVE RebuildOwnsFiles'
  BY <1>6, Alone, FilesAreSomething DEF Swap, Reads, Backed
<1>7. ASSUME NEW s \in Sessions, Unlink(s) PROVE RebuildOwnsFiles'
  BY <1>7, Alone, FilesAreSomething DEF Unlink, Backed
<1>8. ASSUME NEW s \in Sessions, EndRestore(s) PROVE RebuildOwnsFiles'
  BY <1>8, Alone, FilesAreSomething DEF EndRestore, Forget, Reads, Backed
<1>9. ASSUME NEW s \in Sessions, Probe(s) PROVE RebuildOwnsFiles'
  BY <1>9, Alone, FilesAreSomething DEF Probe, DumpIsStale, Backed
<1>10. ASSUME NEW s \in Sessions, Connect(s) PROVE RebuildOwnsFiles'
  BY <1>10, Alone, FilesAreSomething DEF Connect, Backed
<1>11. ASSUME NEW s \in Sessions, OpenFails(s) PROVE RebuildOwnsFiles'
  BY <1>11, Alone, FilesAreSomething DEF OpenFails, Forget, Reads, Backed
<1>12. ASSUME NEW s \in Sessions, ServeWrite(s) PROVE RebuildOwnsFiles'
  BY <1>12, Alone, FilesAreSomething DEF ServeWrite, Backed
<1>13. ASSUME NEW s \in Sessions, SyncDump(s) PROVE RebuildOwnsFiles'
  BY <1>13, Alone, FilesAreSomething DEF SyncDump, Command, Backed
<1>14. ASSUME NEW s \in Sessions, Snapshot(s) PROVE RebuildOwnsFiles'
  BY <1>14, Alone, FilesAreSomething DEF Snapshot, Readable, Reads, Backed
<1>15. ASSUME NEW s \in Sessions, ReplaceDump(s) PROVE RebuildOwnsFiles'
  <2>1. text[s] \in SUBSET AllWork /\ dump' # NoFile
    BY <1>15, FilesAreSomething, DumpType DEF ReplaceDump
  <2>2. Live # {} /\ \A t \in Sessions : pc[t] \notin Rebuilding
    BY <1>15, Alone DEF ReplaceDump
  <2>3. pc'[s] \in {"open", "align"} /\ text'[s] # NoFile
    BY <1>15, FilesAreSomething DEF ReplaceDump, Reads
  <2>4. QED
    BY <1>15, <2>1, <2>2, <2>3 DEF ReplaceDump, Reads, Backed
<1>16. ASSUME NEW s \in Sessions, Align(s) PROVE RebuildOwnsFiles'
  BY <1>16, Alone, FilesAreSomething DEF Align, AfterDump, Backed
<1>17. ASSUME NEW s \in Sessions, Disconnect(s) PROVE RebuildOwnsFiles'
  BY <1>17, Alone, FilesAreSomething
    DEF Disconnect, Forget, Fold, Reads, Readable, Backed
<1>18. ASSUME NEW s \in Sessions, Reread(s) PROVE RebuildOwnsFiles'
  BY <1>18, Alone, FilesAreSomething DEF Reread, Reads, Backed
<1>19. ASSUME NEW s \in Sessions, TakeSwapLock(s) PROVE RebuildOwnsFiles'
  BY <1>19, Alone, FilesAreSomething DEF TakeSwapLock, Backed
<1>20. ASSUME NEW s \in Sessions, RestoreBusy(s) PROVE RebuildOwnsFiles'
  BY <1>20, Alone, FilesAreSomething DEF RestoreBusy, Forget, Reads, Backed
<1>21. ASSUME NEW s \in Sessions, AutoCheckpoint(s) PROVE RebuildOwnsFiles'
  BY <1>21, Alone, FilesAreSomething DEF AutoCheckpoint, Fold, Readable, Backed
<1>22. ASSUME NEW s \in Sessions, DumpFails(s) PROVE RebuildOwnsFiles'
  BY <1>22, Alone, FilesAreSomething DEF DumpFails, Reads, AfterDump, Backed
<1>23. ASSUME NEW s \in Sessions, Crash(s) PROVE RebuildOwnsFiles'
  BY <1>23, Alone, FilesAreSomething DEF Crash, Forget, Reads, Backed
<1>24. ASSUME NEW s \in Sessions, NEW w \in Work, Commit(s, w)
       PROVE  RebuildOwnsFiles'
  BY <1>24, Alone, FilesAreSomething DEF Commit, Backed
<1>25. ASSUME NEW s \in Sessions, NEW purpose \in {"close", "restore"},
              Close(s, purpose)
       PROVE  RebuildOwnsFiles'
  BY <1>25, Alone, FilesAreSomething DEF Close, Fold, Command, Readable, Backed
<1>26. ASSUME (\E u \in Upstream, clean \in BOOLEAN : Pull(u, clean)) \/ Resolve
       PROVE  RebuildOwnsFiles'
  <2>1. dump' # NoFile
    <3>1. ASSUME NEW u \in Upstream, NEW clean \in BOOLEAN, Pull(u, clean)
          PROVE  dump' # NoFile
      BY <3>1, FilesAreSomething, DumpType DEF Pull, AllWork, Dumped
    <3>2. ASSUME Resolve PROVE dump' # NoFile
      <4>1. dump' = [work |-> dump.work, parses |-> TRUE] /\ dump.work \in SUBSET AllWork
        BY <3>2 DEF Resolve, Dumps
      <4>2. QED
        BY <4>1, FilesAreSomething, DumpType
    <3>3. QED
      BY <1>26, <3>1, <3>2
  <2>2. QED
    BY <1>26, <2>1 DEF Pull, Resolve, Backed
<1>27. QED
  BY <1>1, <1>2, <1>3, <1>4, <1>5, <1>6, <1>7, <1>8, <1>9, <1>10, <1>11,
     <1>12, <1>13, <1>14, <1>15, <1>16, <1>17, <1>18, <1>19, <1>20, <1>21,
     <1>22, <1>23, <1>24, <1>25, <1>26 DEF Next, Progress, Use

(* A WAL nobody has open, and another database's WAL, stay accounted for.  *)
LEMMA WalKept ==
    ASSUME Core, WalAccounted, Next
    PROVE  WalAccounted'
<1> USE DEF Core, WalAccounted, TypeOK, RebuildOwnsFiles,
            NoOrphanedConnection, Live, Step, Connected, Rebuilding, history,
            session, files, flags
<1>1. ASSUME NEW s \in Sessions, OpenStore(s) PROVE WalAccounted'
  BY <1>1, Alone DEF OpenStore, RestoreNeeded
<1>2. ASSUME NEW s \in Sessions, BeginRestore(s) PROVE WalAccounted'
  BY <1>2, Alone DEF BeginRestore, RestoreNeeded
<1>3. ASSUME NEW s \in Sessions, SkipRestore(s) PROVE WalAccounted'
  BY <1>3, Alone DEF SkipRestore
<1>4. ASSUME NEW s \in Sessions, Backup(s) PROVE WalAccounted'
  BY <1>4, Alone DEF Backup
<1>5. ASSUME NEW s \in Sessions, Build(s) PROVE WalAccounted'
  BY <1>5, Alone DEF Build, Reads
<1>6. ASSUME NEW s \in Sessions, Swap(s) PROVE WalAccounted'
  BY <1>6, Alone DEF Swap, Reads
<1>7. ASSUME NEW s \in Sessions, Unlink(s) PROVE WalAccounted'
  BY <1>7, Alone DEF Unlink
<1>8. ASSUME NEW s \in Sessions, EndRestore(s) PROVE WalAccounted'
  BY <1>8, Alone DEF EndRestore, Forget, Reads
<1>9. ASSUME NEW s \in Sessions, Probe(s) PROVE WalAccounted'
  BY <1>9, Alone DEF Probe, DumpIsStale
<1>10. ASSUME NEW s \in Sessions, Connect(s) PROVE WalAccounted'
  BY <1>10, Alone DEF Connect
<1>11. ASSUME NEW s \in Sessions, OpenFails(s) PROVE WalAccounted'
  BY <1>11, Alone DEF OpenFails, Forget, Reads
<1>12. ASSUME NEW s \in Sessions, ServeWrite(s) PROVE WalAccounted'
  BY <1>12, Alone DEF ServeWrite
<1>13. ASSUME NEW s \in Sessions, SyncDump(s) PROVE WalAccounted'
  BY <1>13, Alone DEF SyncDump, Command
<1>14. ASSUME NEW s \in Sessions, Snapshot(s) PROVE WalAccounted'
  BY <1>14, Alone DEF Snapshot, Reads
<1>15. ASSUME NEW s \in Sessions, ReplaceDump(s) PROVE WalAccounted'
  BY <1>15, Alone DEF ReplaceDump, Reads
<1>16. ASSUME NEW s \in Sessions, Align(s) PROVE WalAccounted'
  BY <1>16, Alone DEF Align, AfterDump
<1>17. ASSUME NEW s \in Sessions, Disconnect(s) PROVE WalAccounted'
  BY <1>17, Alone DEF Disconnect, Forget, Fold, Reads
<1>18. ASSUME NEW s \in Sessions, Reread(s) PROVE WalAccounted'
  BY <1>18, Alone DEF Reread, Reads
<1>19. ASSUME NEW s \in Sessions, TakeSwapLock(s) PROVE WalAccounted'
  BY <1>19, Alone DEF TakeSwapLock
<1>20. ASSUME NEW s \in Sessions, RestoreBusy(s) PROVE WalAccounted'
  BY <1>20, Alone DEF RestoreBusy, Forget, Reads
<1>21. ASSUME NEW s \in Sessions, AutoCheckpoint(s) PROVE WalAccounted'
  BY <1>21, Alone DEF AutoCheckpoint, Fold
<1>22. ASSUME NEW s \in Sessions, DumpFails(s) PROVE WalAccounted'
  BY <1>22, Alone DEF DumpFails, Reads, AfterDump
<1>23. ASSUME NEW s \in Sessions, Crash(s) PROVE WalAccounted'
  BY <1>23, Alone DEF Crash, Forget, Reads
<1>24. ASSUME NEW s \in Sessions, NEW w \in Work, Commit(s, w) PROVE WalAccounted'
  BY <1>24, Alone DEF Commit
<1>25. ASSUME NEW s \in Sessions, NEW purpose \in {"close", "restore"},
              Close(s, purpose)
       PROVE  WalAccounted'
  BY <1>25, Alone DEF Close, Fold, Command
<1>26. ASSUME (\E u \in Upstream, clean \in BOOLEAN : Pull(u, clean)) \/ Resolve
       PROVE  WalAccounted'
  BY <1>26 DEF Pull, Resolve
<1>27. QED
  BY <1>1, <1>2, <1>3, <1>4, <1>5, <1>6, <1>7, <1>8, <1>9, <1>10, <1>11,
     <1>12, <1>13, <1>14, <1>15, <1>16, <1>17, <1>18, <1>19, <1>20, <1>21,
     <1>22, <1>23, <1>24, <1>25, <1>26 DEF Next, Progress, Use

(* Only commands leave their purposes, and another database's WAL, behind. *)
LEMMA CommandsKept ==
    ASSUME IInv, Next
    PROVE  CommandsCounted'
<1> USE DEF IInv, Core, CommandsCounted, TypeOK, Step, history, session, files, flags
<1>1. ASSUME NEW s \in Sessions, SyncDump(s) PROVE CommandsCounted'
  BY <1>1 DEF SyncDump, Command
<1>2. ASSUME NEW s \in Sessions, NEW purpose \in {"close", "restore"},
             Close(s, purpose)
      PROVE  CommandsCounted'
  BY <1>2 DEF Close, Fold, Command
<1>3. ASSUME NEW s \in Sessions, Disconnect(s) PROVE CommandsCounted'
  BY <1>3 DEF Disconnect, Forget, Fold
<1>4. ASSUME NEW s \in Sessions,
             EndRestore(s) \/ OpenFails(s) \/ RestoreBusy(s) \/ Crash(s)
      PROVE  CommandsCounted'
  BY <1>4 DEF EndRestore, OpenFails, RestoreBusy, Crash, Forget
<1>5. ASSUME NEW s \in Sessions, Swap(s) PROVE CommandsCounted'
  BY <1>5 DEF Swap, RebuildOwnsFiles
<1>6. ASSUME NEW s \in Sessions, ServeWrite(s) PROVE CommandsCounted'
  BY <1>6 DEF ServeWrite
<1>7. ASSUME UNCHANGED <<why, commands>>, alien' => alien PROVE CommandsCounted'
  BY <1>7
<1>8. ASSUME NEW s \in Sessions, Progress(s) PROVE CommandsCounted'
  <2>1. ASSUME Backup(s) \/ Unlink(s) PROVE alien' => alien
    BY <2>1 DEF Backup, Unlink
  <2>2. QED
    BY <1>3, <1>4, <1>5, <1>7, <1>8, <2>1 DEF Progress, BeginRestore, SkipRestore,
       Backup, Build, Unlink, Probe, Connect, Snapshot, ReplaceDump, Align, Reread,
       TakeSwapLock
<1>9. ASSUME NEW s \in Sessions, Use(s) PROVE CommandsCounted'
  BY <1>1, <1>2, <1>6, <1>7, <1>9 DEF Use, OpenStore, Commit
<1>10. ASSUME NEW s \in Sessions, AutoCheckpoint(s) \/ DumpFails(s)
       PROVE  CommandsCounted'
  BY <1>7, <1>10 DEF AutoCheckpoint, Fold, DumpFails
<1>11. ASSUME (\E u \in Upstream, clean \in BOOLEAN : Pull(u, clean)) \/ Resolve
       PROVE  CommandsCounted'
  BY <1>7, <1>11 DEF Pull, Resolve
<1>12. QED
  BY <1>4, <1>8, <1>9, <1>10, <1>11 DEF Next
-----------------------------------------------------------------------------
LEMMA InitIInv ==
    Init => IInv
<1> USE SyncAssumption DEF Init, Lock!LockInit
<1>1. Init => Live = {} /\ Rebuilders = {}
  BY DEF Live, Rebuilders, Connected, Rebuilding
<1>2. Init => dump \in {NoFile} \cup Dumps
  <2>1. [work |-> {}, parses |-> TRUE] \in Dumps
    BY DumpType
  <2>2. QED
    BY <2>1
<1>3. Init => TypeOK
  <2>1. Init => /\ pc \in [Sessions -> Connected \cup Rebuilding \cup Outside]
                /\ why \in [Sessions -> Purposes]
                /\ text \in [Sessions -> {NoFile} \cup SUBSET AllWork]
    BY DEF Outside, Purposes
  <2>2. Init => /\ faults \in 0..MaxFaults
                /\ commands \in 0..MaxCommands
    OBVIOUS
  <2>3. QED
    BY <1>2, <2>1, <2>2 DEF TypeOK
<1>4. Init => LockMatchesPhase /\ NoOrphanedConnection
  BY <1>1 DEF LockMatchesPhase, NoOrphanedConnection, Lock!Exclusion
<1>5. Init => RebuildOwnsFiles
  BY <1>1, FilesAreSomething DEF RebuildOwnsFiles
<1>6. Init => WalAccounted /\ CommandsCounted
  BY <1>1 DEF WalAccounted, CommandsCounted
<1>7. QED
  BY <1>3, <1>4, <1>5, <1>6 DEF IInv, Core

LEMMA NextIInv ==
    IInv /\ [Next]_vars => IInv'
<1>1. ASSUME IInv, Next PROVE IInv'
  BY <1>1, TypesKept, PhasesKept, NobodyOrphaned, FilesKept, WalKept, CommandsKept
     DEF IInv, Core
<1>2. ASSUME IInv, UNCHANGED vars PROVE IInv'
  BY <1>2 DEF vars, files, locks, session, flags, history, IInv, Core, TypeOK,
     LockMatchesPhase, NoOrphanedConnection, RebuildOwnsFiles, WalAccounted,
     CommandsCounted, Lock!Exclusion, Live, Rebuilders, Backed
<1>3. QED
  BY <1>1, <1>2

(* Every step leaves in the database, or has in the .bak, what was in the  *)
(* database, unless it is a step of a rebuild somebody asked for.          *)
LEMMA StepKeepsBackup ==
    ASSUME IInv, Next
    PROVE  \/ Readable \subseteq Readable' \cup Backed
           \/ \E s \in Sessions : why[s] = "restore" /\ pc[s] \in {"swap", "unlink"}
<1> DEFINE Kept == \/ Readable \subseteq Readable' \cup Backed
                   \/ \E s \in Sessions :
                        why[s] = "restore" /\ pc[s] \in {"swap", "unlink"}
<1> USE DEF IInv, Core, Readable
<1>1. ASSUME NEW s \in Sessions, Swap(s) PROVE Kept
  BY <1>1 DEF Swap, Step, RebuildOwnsFiles, Backed
<1>2. ASSUME NEW s \in Sessions, Unlink(s) PROVE Kept
  BY <1>2 DEF Unlink, Step, RebuildOwnsFiles
<1>3. ASSUME NEW s \in Sessions, Backup(s) PROVE Kept
  BY <1>3, FilesAreSomething DEF Backup, Step, TypeOK, RebuildOwnsFiles
<1>4. ASSUME NEW s \in Sessions, Connect(s) PROVE Kept
  BY <1>4 DEF Connect
<1>5. ASSUME NEW s \in Sessions, Fold(s) PROVE Kept
  BY <1>5, FilesAreSomething DEF Fold, TypeOK
<1>6. ASSUME NEW s \in Sessions, NEW w \in Work, Commit(s, w) PROVE Kept
  BY <1>6 DEF Commit
<1>7. ASSUME UNCHANGED <<db, wal>> PROVE Kept
  BY <1>7
<1>8. ASSUME NEW s \in Sessions, Progress(s) \/ Use(s) \/ AutoCheckpoint(s) PROVE Kept
  BY <1>1, <1>2, <1>3, <1>4, <1>5, <1>6, <1>7, <1>8 DEF Progress, Use, files,
     OpenStore, BeginRestore, SkipRestore, Build, EndRestore, Probe, OpenFails,
     ServeWrite, SyncDump, Snapshot, ReplaceDump, Align, Disconnect, Reread,
     TakeSwapLock, RestoreBusy, AutoCheckpoint, Close
<1>9. ASSUME NEW s \in Sessions, DumpFails(s) \/ Crash(s) PROVE Kept
  BY <1>7, <1>9 DEF DumpFails, Crash, files
<1>10. ASSUME (\E u \in Upstream, clean \in BOOLEAN : Pull(u, clean)) \/ Resolve
       PROVE  Kept
  BY <1>7, <1>10 DEF Pull, Resolve
<1>11. QED
  BY <1>8, <1>9, <1>10 DEF Next
-----------------------------------------------------------------------------
(* What a session read of upstream work, and has yet to write into the     *)
(* dump, stays what the database holds of it: work gets into the database  *)
(* from the dump, and out of it, by a rebuild only, which waits for that   *)
(* session.                                                                *)
SnapshotIsCurrent ==
    \A s \in Sessions : pc[s] = "replace" => Readable \cap Upstream \subseteq text[s]

\* A step other than those of a rebuild leaves upstream work in the database alone.
LEMMA UpstreamStays ==
    ASSUME Core, Next, NEW t \in Sessions, pc[t] \in Connected
    PROVE  Readable' \cap Upstream = Readable \cap Upstream
<1> DEFINE Same == Readable' \cap Upstream = Readable \cap Upstream
<1> USE DEF Core, Readable, TypeOK
<1>1. ASSUME NEW s \in Sessions, Swap(s) \/ Unlink(s) \/ Backup(s) PROVE Same
  BY <1>1, Alone DEF Swap, Unlink, Backup, Step, Rebuilding, Live
<1>2. ASSUME NEW s \in Sessions, Connect(s) PROVE Same
  BY <1>2 DEF Connect, RebuildOwnsFiles, Live
<1>3. ASSUME NEW s \in Sessions, Fold(s) PROVE Same
  BY <1>3, FilesAreSomething DEF Fold, RebuildOwnsFiles, Live
<1>4. ASSUME NEW s \in Sessions, NEW w \in Work, Commit(s, w) PROVE Same
  BY <1>4, SyncAssumption DEF Commit
<1>5. ASSUME UNCHANGED <<db, wal>> PROVE Same
  BY <1>5
<1>6. ASSUME NEW s \in Sessions, Progress(s) \/ Use(s) \/ AutoCheckpoint(s) PROVE Same
  BY <1>1, <1>2, <1>3, <1>4, <1>5, <1>6 DEF Progress, Use, files,
     OpenStore, BeginRestore, SkipRestore, Build, EndRestore, Probe, OpenFails,
     ServeWrite, SyncDump, Snapshot, ReplaceDump, Align, Disconnect, Reread,
     TakeSwapLock, RestoreBusy, AutoCheckpoint, Close
<1>7. ASSUME NEW s \in Sessions, DumpFails(s) \/ Crash(s) PROVE Same
  BY <1>5, <1>7 DEF DumpFails, Crash, files
<1>8. ASSUME (\E u \in Upstream, clean \in BOOLEAN : Pull(u, clean)) \/ Resolve
      PROVE  Same
  BY <1>5, <1>8 DEF Pull, Resolve
<1>9. QED
  BY <1>6, <1>7, <1>8 DEF Next

\* What a session has read, and where it is, only its own steps change.
LEMMA OthersKeepMine ==
    ASSUME TypeOK, Next, NEW t \in Sessions, pc'[t] = "replace"
    PROVE  \/ Snapshot(t)
           \/ pc[t] = "replace" /\ text'[t] = text[t]
<1> USE DEF TypeOK, Step, session, Reads, Forget, AfterDump
<1>1. ASSUME NEW s \in Sessions, Progress(s), s # t
      PROVE  pc[t] = "replace" /\ text'[t] = text[t]
  BY <1>1 DEF Progress, BeginRestore, SkipRestore, Backup, Build, Swap, Unlink,
     EndRestore, Probe, Connect, OpenFails, Snapshot, ReplaceDump, Align,
     Disconnect, Reread, TakeSwapLock, RestoreBusy
<1>2. ASSUME Progress(t) PROVE Snapshot(t)
  BY <1>2 DEF Progress, BeginRestore, SkipRestore, Backup, Build, Swap, Unlink,
     EndRestore, Probe, Connect, OpenFails, ReplaceDump, Align,
     Disconnect, Reread, TakeSwapLock, RestoreBusy
<1>3. ASSUME NEW s \in Sessions, Use(s) PROVE pc[t] = "replace" /\ text'[t] = text[t]
  BY <1>3 DEF Use, OpenStore, Commit, ServeWrite, SyncDump, Close
<1>4. ASSUME NEW s \in Sessions, AutoCheckpoint(s) \/ DumpFails(s) \/ Crash(s)
      PROVE  pc[t] = "replace" /\ text'[t] = text[t]
  BY <1>4 DEF AutoCheckpoint, DumpFails, Crash
<1>5. ASSUME (\E u \in Upstream, clean \in BOOLEAN : Pull(u, clean)) \/ Resolve
      PROVE  pc[t] = "replace" /\ text'[t] = text[t]
  BY <1>5 DEF Pull, Resolve
<1>6. QED
  BY <1>1, <1>2, <1>3, <1>4, <1>5 DEF Next

LEMMA CurrentKept ==
    ASSUME Core, SnapshotIsCurrent, [Next]_vars
    PROVE  SnapshotIsCurrent'
<1>1. CASE UNCHANGED vars
  BY <1>1 DEF SnapshotIsCurrent, vars, files, session, Readable
<1>2. CASE Next
  <2> SUFFICES ASSUME NEW t \in Sessions, pc'[t] = "replace"
               PROVE  Readable' \cap Upstream \subseteq text'[t]
    BY DEF SnapshotIsCurrent
  <2>1. CASE Snapshot(t)
    <3>1. pc[t] \in Connected /\ t \notin orphans
      BY <2>1 DEF Snapshot, Step, Connected, Core, NoOrphanedConnection
    <3>2. text'[t] = Readable
      BY <2>1, <3>1 DEF Snapshot, Reads, Core, TypeOK
    <3>3. QED
      BY <1>2, <3>1, <3>2, UpstreamStays
  <2>2. CASE pc[t] = "replace" /\ text'[t] = text[t]
    BY <1>2, <2>2, UpstreamStays DEF SnapshotIsCurrent, Connected
  <2>3. QED
    BY <1>2, <2>1, <2>2, OthersKeepMine DEF Core
<1>3. QED
  BY <1>1, <1>2

\* Only a session's dump takes anything out of the dump.
LEMMA DumpGrows ==
    ASSUME Core, Next, \A s \in Sessions : ~ReplaceDump(s)
    PROVE  Dumped \subseteq Dumped'
<1>2. ASSUME NEW u \in Upstream, NEW clean \in BOOLEAN, Pull(u, clean)
      PROVE  Dumped \subseteq Dumped'
  <2>1. Dumped \in SUBSET AllWork
    BY FilesAreSomething DEF Dumped, Core, TypeOK
  <2>2. dump' # NoFile /\ dump'.work = {u} \cup Dumped
    BY <1>2, <2>1, DumpType, FilesAreSomething DEF Pull, AllWork
  <2>3. QED
    BY <2>2 DEF Dumped
<1>3. ASSUME Resolve PROVE Dumped \subseteq Dumped'
  <2>1. dump' = [work |-> dump.work, parses |-> TRUE] /\ dump.work \in SUBSET AllWork
    BY <1>3 DEF Resolve, Dumps, Core, TypeOK
  <2>2. QED
    BY <2>1, DumpType, FilesAreSomething DEF Dumped
<1>4. ASSUME UNCHANGED dump PROVE Dumped \subseteq Dumped'
  BY <1>4 DEF Dumped
<1>5. ASSUME NEW s \in Sessions, Progress(s), ~ReplaceDump(s) PROVE UNCHANGED dump
  BY <1>5 DEF Progress, files, BeginRestore, SkipRestore, Backup, Build, Swap, Unlink,
     EndRestore, Probe, Connect, OpenFails, Snapshot, Align, Disconnect, Reread,
     TakeSwapLock, RestoreBusy
<1>6. ASSUME NEW s \in Sessions,
             Use(s) \/ AutoCheckpoint(s) \/ DumpFails(s) \/ Crash(s)
      PROVE  UNCHANGED dump
  BY <1>6 DEF Use, files, OpenStore, Commit, ServeWrite, SyncDump, Close,
     AutoCheckpoint, DumpFails, Crash
<1>7. QED
  BY <1>2, <1>3, <1>4, <1>5, <1>6 DEF Next

\* A session's dump takes nothing out that a rebuild has brought in.
LEMMA RestoredWorkStep ==
    ASSUME Core, SnapshotIsCurrent, Next
    PROVE  Dumped \cap pulled \cap Readable \subseteq Dumped'
<1>1. ASSUME NEW s \in Sessions, ReplaceDump(s)
      PROVE  Dumped \cap pulled \cap Readable \subseteq Dumped'
  <2>1. text[s] \in SUBSET AllWork /\ pc[s] = "replace"
    BY <1>1 DEF ReplaceDump, Step, Core, TypeOK, RebuildOwnsFiles
  <2>2. Dumped' = text[s]
    BY <1>1, <2>1, DumpType, FilesAreSomething DEF ReplaceDump, Dumped
  <2>3. QED
    BY <2>1, <2>2 DEF SnapshotIsCurrent, Core, TypeOK
<1>2. QED
  BY <1>1, DumpGrows
-----------------------------------------------------------------------------
(* While nothing fails, git delivers nothing and nobody runs a command, the *)
(* dump of a database that exists is the newer file only while the session *)
(* that wrote it has yet to align the two; so a rebuild, which waits for   *)
(* that session, is of a database that is not there, and nothing was ever  *)
(* committed.                                                              *)
Undisturbed == faults = 0 /\ pulled = {} /\ commands = 0

UndisturbedInv ==
    Undisturbed =>
        /\ committed \subseteq Readable
        /\ db # NoFile /\ lead = "dump" => \E s \in Sessions : pc[s] = "align"
        /\ db = NoFile => committed = {}
        /\ \A s \in Sessions : pc[s] \in {"backup", "build", "swap", "unlink"} =>
               committed = {}
        /\ dump # NoFile => dump.parses

\* What was disturbed stays so.
LEMMA DisturbedBefore ==
    ASSUME TypeOK, Next, Undisturbed'
    PROVE  Undisturbed
<1> USE DEF Undisturbed, TypeOK, history
<1>1. ASSUME NEW s \in Sessions, Progress(s) PROVE Undisturbed
  BY <1>1 DEF Progress, BeginRestore, SkipRestore, Backup, Build, Swap, Unlink,
     EndRestore, Probe, Connect, OpenFails, Snapshot, ReplaceDump, Align,
     Disconnect, Reread, TakeSwapLock, RestoreBusy
<1>2. ASSUME NEW s \in Sessions, Use(s) PROVE Undisturbed
  BY <1>2 DEF Use, OpenStore, Commit, ServeWrite, SyncDump, Close, Command
<1>3. ASSUME NEW s \in Sessions, AutoCheckpoint(s) \/ DumpFails(s) \/ Crash(s)
      PROVE  Undisturbed
  BY <1>3 DEF AutoCheckpoint, DumpFails, Crash
<1>4. ASSUME (\E u \in Upstream, clean \in BOOLEAN : Pull(u, clean)) \/ Resolve
      PROVE  Undisturbed
  BY <1>4 DEF Pull, Resolve
<1>5. QED
  BY <1>1, <1>2, <1>3, <1>4 DEF Next

LEMMA UndisturbedKept ==
    ASSUME IInv, UndisturbedInv, Next
    PROVE  UndisturbedInv'
<1> SUFFICES ASSUME Undisturbed' PROVE UndisturbedInv'
  BY DEF UndisturbedInv
<1>0. Undisturbed /\ TypeOK /\ LockMatchesPhase
  BY DisturbedBefore DEF IInv, Core
<1>a. \A s \in Sessions : why[s] \notin {"dump", "restore"}
  BY <1>0 DEF IInv, CommandsCounted, Undisturbed, TypeOK
<1> USE <1>0 DEF UndisturbedInv, TypeOK, Step, history, session, files, flags,
        Rebuilding, Connected, Readable
<1>1. ASSUME NEW s \in Sessions, OpenStore(s) PROVE UndisturbedInv'
  BY <1>1 DEF OpenStore
<1>2. ASSUME NEW s \in Sessions, BeginRestore(s) PROVE UndisturbedInv'
  <2>1. Live = {}
    BY <1>2 DEF BeginRestore, Lock!AcquireExclusive, Lock!CanExclude, Lock!holders,
       LockMatchesPhase
  <2>2. \A t \in Sessions : pc[t] # "align"
    BY <2>1 DEF Live
  <2>3. RestoreNeeded => committed = {}
    BY <2>2 DEF RestoreNeeded
  <2>4. QED
    BY <1>2, <2>3 DEF BeginRestore
<1>3. ASSUME NEW s \in Sessions, SkipRestore(s) PROVE UndisturbedInv'
  BY <1>3 DEF SkipRestore
<1>4. ASSUME NEW s \in Sessions, Backup(s) PROVE UndisturbedInv'
  BY <1>4, FilesAreSomething DEF Backup
<1>5. ASSUME NEW s \in Sessions, Build(s) PROVE UndisturbedInv'
  BY <1>5 DEF Build
<1>6. ASSUME NEW s \in Sessions, Swap(s) PROVE UndisturbedInv'
  BY <1>6 DEF Swap
<1>7. ASSUME NEW s \in Sessions, Unlink(s) PROVE UndisturbedInv'
  BY <1>7 DEF Unlink
<1>8. ASSUME NEW s \in Sessions, EndRestore(s) PROVE UndisturbedInv'
  BY <1>8 DEF EndRestore
<1>9. ASSUME NEW s \in Sessions, Probe(s) PROVE UndisturbedInv'
  BY <1>9 DEF Probe
<1>10. ASSUME NEW s \in Sessions, Connect(s) PROVE UndisturbedInv'
  BY <1>10, FilesAreSomething DEF Connect
<1>11. ASSUME NEW s \in Sessions, OpenFails(s) PROVE UndisturbedInv'
  BY <1>11 DEF OpenFails
<1>12. ASSUME NEW s \in Sessions, ServeWrite(s) PROVE UndisturbedInv'
  BY <1>12 DEF ServeWrite
<1>13. ASSUME NEW s \in Sessions, SyncDump(s) PROVE UndisturbedInv'
  BY <1>13 DEF SyncDump, Command, Undisturbed
<1>14. ASSUME NEW s \in Sessions, Snapshot(s) PROVE UndisturbedInv'
  BY <1>14 DEF Snapshot
<1>15. ASSUME NEW s \in Sessions, ReplaceDump(s) PROVE UndisturbedInv'
  <2>1. dump' # NoFile /\ dump'.parses
    BY <1>15, DumpType, FilesAreSomething DEF ReplaceDump, IInv, Core, RebuildOwnsFiles
  <2>2. QED
    BY <1>15, <1>a, <2>1 DEF ReplaceDump
<1>16. ASSUME NEW s \in Sessions, Align(s) PROVE UndisturbedInv'
  BY <1>16 DEF Align, AfterDump
<1>17. ASSUME NEW s \in Sessions, Fold(s) PROVE
              /\ Readable' = Readable
              /\ db' = NoFile <=> db = NoFile
              /\ lead' \in {lead, "db"}
  BY <1>17, FilesAreSomething DEF Fold, IInv, Core, RebuildOwnsFiles
<1>18. ASSUME NEW s \in Sessions, Disconnect(s) PROVE UndisturbedInv'
  BY <1>17, <1>18 DEF Disconnect
<1>19. ASSUME NEW s \in Sessions, Reread(s) PROVE UndisturbedInv'
  BY <1>19 DEF Reread
<1>20. ASSUME NEW s \in Sessions, TakeSwapLock(s) PROVE UndisturbedInv'
  BY <1>20, <1>a DEF TakeSwapLock, IInv, Core, RebuildOwnsFiles
<1>21. ASSUME NEW s \in Sessions, RestoreBusy(s) PROVE UndisturbedInv'
  BY <1>21 DEF RestoreBusy
<1>22. ASSUME NEW s \in Sessions, AutoCheckpoint(s) PROVE UndisturbedInv'
  BY <1>17, <1>22 DEF AutoCheckpoint
<1>23. ASSUME NEW s \in Sessions, DumpFails(s) \/ Crash(s) PROVE UndisturbedInv'
  BY <1>23 DEF DumpFails, Crash, Undisturbed
<1>24. ASSUME NEW s \in Sessions, NEW w \in Work, Commit(s, w) PROVE UndisturbedInv'
  <2>1. s \in Live /\ s \notin orphans
    BY <1>24 DEF Commit, Live, IInv, Core, NoOrphanedConnection
  <2>2. db # NoFile
    BY <2>1 DEF IInv, Core, RebuildOwnsFiles
  <2>3. \A t \in Sessions : pc[t] \notin Rebuilding
    BY <2>1, Alone
  <2>4. QED
    BY <1>24, <2>1, <2>2, <2>3 DEF Commit
<1>25. ASSUME NEW s \in Sessions, NEW purpose \in {"close", "restore"},
              Close(s, purpose)
       PROVE  UndisturbedInv'
  <2>1. purpose = "close"
    BY <1>25 DEF Close, Command, Undisturbed
  <2>2. UNCHANGED <<dump, history>>
    BY <1>25, <2>1 DEF Close
  <2>3. pc' = [pc EXCEPT ![s] = pc'[s]] /\ pc[s] = "open"
        /\ pc'[s] \in {"snapshot", "disconnect"}
    BY <1>25 DEF Close
  <2>4. Fold(s)
    BY <1>25 DEF Close
  <2>5. QED
    BY <1>17, <2>2, <2>3, <2>4
<1>26. ASSUME (\E u \in Upstream, clean \in BOOLEAN : Pull(u, clean)) \/ Resolve
       PROVE  UndisturbedInv'
  <2>1. ASSUME NEW u \in Upstream, NEW clean \in BOOLEAN, Pull(u, clean) PROVE FALSE
    BY <2>1 DEF Pull, Undisturbed
  <2>2. QED
    BY <1>26, <2>1 DEF Resolve
<1>27. QED
  BY <1>1, <1>2, <1>3, <1>4, <1>5, <1>6, <1>7, <1>8, <1>9, <1>10, <1>11,
     <1>12, <1>13, <1>14, <1>15, <1>16, <1>18, <1>19, <1>20, <1>21,
     <1>22, <1>23, <1>24, <1>25, <1>26 DEF Next, Progress, Use
-----------------------------------------------------------------------------
(* Sessions that take turns.  The database holds all that was committed,   *)
(* and the dump all of the database, except while the one session there is *)
(* has written and not dumped yet: upstream work comes in between through  *)
(* the dump only, and a session that has written dumps before it is gone.  *)
InTurn == \A s, t \in Sessions : pc[s] # "idle" /\ pc[t] # "idle" => s = t

\* The session that has written and not dumped yet.
Owes(s) == wrote[s] /\ pc[s] \in {"open", "snapshot", "replace"}

TurnInv ==
    faults = 0 =>
        /\ committed \subseteq Readable
        /\ Readable \subseteq Dumped \/ \E s \in Sessions : Owes(s)
        /\ \A s \in Sessions : pc[s] = "replace" => text[s] = Readable
        /\ \A s \in Sessions :
               pc[s] = "swap" \/ (pc[s] = "await" /\ text[s] # NoFile)
                   => committed \subseteq text[s] /\ text[s] \subseteq Dumped
        /\ Readable \subseteq committed \cup pulled
        /\ Dumped \subseteq committed \cup pulled

\* A checkpoint changes nothing of what a connection reads.
LEMMA FoldReads ==
    ASSUME Core, NEW s \in Sessions, Fold(s)
    PROVE  Readable' = Readable
  BY FilesAreSomething DEF Fold, Core, TypeOK, RebuildOwnsFiles, Readable

\* What a step leaves as it was.
LEMMA TurnStutters ==
    ASSUME TypeOK, TurnInv, Readable' = Readable, Dumped' = Dumped,
           faults' = 0 => faults = 0, UNCHANGED <<committed, pulled>>,
           \A s \in Sessions : Owes(s) => Owes(s)' \/ Readable \subseteq Dumped,
           \A s \in Sessions : pc'[s] = "replace" => text'[s] = Readable,
           \A s \in Sessions :
               pc'[s] = "swap" \/ (pc'[s] = "await" /\ text'[s] # NoFile) =>
                   \/ committed \subseteq text'[s] /\ text'[s] \subseteq Dumped
                   \/ faults # 0
    PROVE  TurnInv'
  BY DEF TurnInv

\* The session that moves is the only one there is.
LEMMA OnlyOne ==
    ASSUME InTurn, InTurn', NEW s \in Sessions, pc[s] # "idle" \/ pc'[s] # "idle",
           \A t \in Sessions : t # s => pc'[t] = pc[t]
    PROVE  \A t \in Sessions : t # s => pc[t] = "idle" /\ pc'[t] = "idle"
  BY DEF InTurn

LEMMA TurnKept ==
    ASSUME Core, WalAccounted, InTurn, InTurn', TurnInv, Next
    PROVE  TurnInv'
<1> SUFFICES ASSUME faults' = 0 PROVE TurnInv'
  BY DEF TurnInv
<1>0. TypeOK /\ LockMatchesPhase /\ Core /\ orphans = {} /\ RebuildOwnsFiles
  BY DEF Core, NoOrphanedConnection
<1> USE <1>0 DEF Step
\* Opening, rebuilding, and what moves the session alone.
<1>1. ASSUME NEW s \in Sessions, UNCHANGED <<files, committed, pulled, faults>>,
             pc' = [pc EXCEPT ![s] = pc'[s]],
             pc'[s] \notin {"replace", "swap", "await"},
             Owes(s) => Owes(s)',
             \A t \in Sessions : t # s => wrote'[t] = wrote[t] /\ text'[t] = text[t]
      PROVE  TurnInv'
  <2>1. Readable' = Readable /\ Dumped' = Dumped
    BY <1>1 DEF files, Readable, Dumped
  <2>2. \A t \in Sessions : t # s => pc'[t] = pc[t]
    BY <1>1 DEF TypeOK
  <2>3. QED
    BY <1>1, <2>1, <2>2, TurnStutters DEF TurnInv, Owes
<1>2. ASSUME NEW s \in Sessions,
             OpenStore(s) \/ BeginRestore(s) \/ SkipRestore(s) \/ EndRestore(s)
                \/ Probe(s) \/ OpenFails(s) \/ ServeWrite(s) \/ SyncDump(s) \/ RestoreBusy(s)
      PROVE  TurnInv'
  BY <1>1, <1>2 DEF OpenStore, BeginRestore, SkipRestore, EndRestore, Probe, OpenFails,
     ServeWrite, SyncDump, RestoreBusy, Forget, Reads, history, Command, flags, Owes,
     TypeOK
<1>3. ASSUME NEW s \in Sessions, Backup(s) PROVE TurnInv'
  <2>1. Readable' = Readable /\ Dumped' = Dumped
    BY <1>3, FilesAreSomething, ReadableType DEF Backup, Readable, Dumped, TypeOK
  <2>2. QED
    BY <1>3, <2>1, TurnStutters DEF Backup, TurnInv, Owes, history, flags, TypeOK
<1>4. ASSUME NEW s \in Sessions, pc[s] # "idle",
             \A t \in Sessions : t # s => pc'[t] = pc[t]
      PROVE  \A t \in Sessions : t # s => pc[t] = "idle" /\ pc'[t] = "idle"
  BY <1>4, OnlyOne
<1>5. ASSUME NEW s \in Sessions, Build(s) \/ Reread(s) PROVE TurnInv'
  <2>1. /\ UNCHANGED <<files, committed, pulled, faults, wrote>>
        /\ pc[s] \in {"build", "reread"} /\ dump # NoFile
        /\ \A t \in Sessions : t # s => pc'[t] = pc[t] /\ text'[t] = text[t]
        /\ pc'[s] # "replace"
    BY <1>5 DEF Build, Reread, Reads, TypeOK, RebuildOwnsFiles, history, flags
  <2>2. \A t \in Sessions : t # s => pc[t] = "idle" /\ pc'[t] = "idle"
    BY <2>1, <1>4
  <2>3. Readable' = Readable /\ Dumped' = Dumped /\ Dumped = dump.work
    BY <2>1 DEF files, Readable, Dumped
  <2>4. pc'[s] = "swap" \/ (pc'[s] = "await" /\ text'[s] # NoFile)
            => text'[s] = dump.work
    BY <1>5 DEF Build, Reread, Reads, TypeOK
  <2>5. \A t \in Sessions : ~Owes(t)
    BY <2>1, <2>2 DEF Owes
  <2>6. faults = 0 => committed \subseteq Dumped
    BY <2>5 DEF TurnInv
  <2>7. QED
    BY <2>1, <2>2, <2>3, <2>4, <2>5, <2>6, TurnStutters
<1>6. ASSUME NEW s \in Sessions, Swap(s) PROVE TurnInv'
  <2>1. /\ pc[s] = "swap" /\ db' = text[s] /\ UNCHANGED <<wal, dump, committed, pulled, faults>>
        /\ \A t \in Sessions : t # s => pc'[t] = pc[t]
        /\ pc'[s] = "unlink"
    BY <1>6 DEF Swap, TypeOK
  <2>2. \A t \in Sessions : t # s => pc[t] = "idle" /\ pc'[t] = "idle"
    BY <2>1, <1>4
  <2>3. wal = {} /\ faults = 0
    <3>1. Live = {}
      BY <2>1, Alone DEF Rebuilding
    <3>2. QED
      BY <2>1, <3>1 DEF WalAccounted
  <2>4. text[s] \in SUBSET AllWork /\ text[s] # NoFile
    BY <2>1, FilesAreSomething DEF RebuildOwnsFiles, TypeOK
  <2>5. Readable' = text[s] /\ Dumped' = Dumped
    BY <2>1, <2>3, <2>4 DEF Readable, Dumped
  <2>6. committed \subseteq text[s] /\ text[s] \subseteq Dumped
    BY <2>1, <2>3 DEF TurnInv
  <2>7. QED
    BY <2>1, <2>2, <2>3, <2>5, <2>6 DEF TurnInv
<1>7. ASSUME NEW s \in Sessions, Unlink(s) PROVE TurnInv'
  <2>1. wal = {} \/ faults # 0
    <3>1. Live = {}
      BY <1>7, Alone DEF Unlink, Rebuilding
    <3>2. QED
      BY <3>1 DEF WalAccounted, TypeOK
  <2>2. wal = {} /\ UNCHANGED <<db, dump, committed, pulled, faults, wrote, text>>
    BY <1>7, <2>1 DEF Unlink, history, flags
  <2>3. Readable' = Readable /\ Dumped' = Dumped
    BY <1>7, <2>2 DEF Unlink, Readable, Dumped
  <2>4. QED
    BY <1>7, <2>2, <2>3, TurnStutters DEF Unlink, TurnInv, Owes, TypeOK
<1>8. ASSUME NEW s \in Sessions, Connect(s) PROVE TurnInv'
  <2>1. Readable' = Readable /\ Dumped' = Dumped
    BY <1>8, FilesAreSomething DEF Connect, Readable, Dumped, RebuildOwnsFiles
  <2>2. QED
    BY <1>8, <2>1, TurnStutters DEF Connect, TurnInv, Owes, history, flags, TypeOK
<1>9. ASSUME NEW s \in Sessions, NEW w \in Work, Commit(s, w) PROVE TurnInv'
  <2>1. /\ pc[s] = "open" /\ UNCHANGED <<pc, db, dump, pulled, faults>>
        /\ wal' = wal \cup {w} /\ committed' = committed \cup {w} /\ wrote'[s]
    BY <1>9 DEF Commit, TypeOK
  <2>2. \A t \in Sessions : t # s => pc[t] = "idle" /\ pc'[t] = "idle"
    BY <2>1, <1>4
  <2>3. s \in Live /\ db # NoFile
    BY <2>1 DEF Live, Connected, RebuildOwnsFiles
  <2>4. Readable' = Readable \cup {w} /\ Dumped' = Dumped
    BY <2>1, <2>3 DEF Readable, Dumped
  <2>5. Owes(s)'
    BY <2>1 DEF Owes
  <2>6. QED
    BY <2>1, <2>2, <2>4, <2>5 DEF TurnInv
<1>10. ASSUME NEW s \in Sessions, AutoCheckpoint(s) PROVE TurnInv'
  <2>1. Readable' = Readable /\ Dumped' = Dumped
    BY <1>10, FoldReads DEF AutoCheckpoint, Dumped
  <2>2. QED
    BY <1>10, <2>1, TurnStutters
       DEF AutoCheckpoint, TurnInv, Owes, history, session, flags
<1>11. ASSUME NEW s \in Sessions, NEW purpose \in {"close", "restore"}, Close(s, purpose)
       PROVE  TurnInv'
  <2>1. Fold(s) /\ UNCHANGED <<dump, wrote, text, committed, pulled, faults>>
        /\ pc[s] = "open"
        /\ pc' = [pc EXCEPT ![s] = IF wrote[s] \/ stale[s] THEN "snapshot" ELSE "disconnect"]
    BY <1>11 DEF Close, Command, history, flags
  <2>2. Readable' = Readable /\ Dumped' = Dumped
    BY <2>1, FoldReads DEF Dumped
  <2>3. Owes(s) => Owes(s)'
    BY <2>1 DEF Owes, TypeOK
  <2>4. QED
    BY <2>1, <2>2, <2>3, TurnStutters DEF TurnInv, Owes, TypeOK
<1>12. ASSUME NEW s \in Sessions, Disconnect(s) PROVE TurnInv'
  <2>1. /\ pc[s] = "disconnect" /\ UNCHANGED <<dump, committed, pulled, faults>>
        /\ pc'[s] \in {"reread", "idle"}
        /\ \A t \in Sessions : t # s =>
               pc'[t] = pc[t] /\ wrote'[t] = wrote[t] /\ text'[t] = text[t]
        /\ Fold(s) \/ UNCHANGED <<db, wal>>
    BY <1>12 DEF Disconnect, Forget, Reads, TypeOK
  <2>2. Readable' = Readable /\ Dumped' = Dumped
    BY <2>1, FoldReads DEF Dumped, Readable
  <2>3. QED
    BY <2>1, <2>2, TurnStutters DEF TurnInv, Owes
<1>13. ASSUME NEW s \in Sessions, Snapshot(s) PROVE TurnInv'
  <2>1. /\ pc[s] = "snapshot" /\ pc'[s] = "replace" /\ text'[s] = Readable
        /\ UNCHANGED <<files, wrote, committed, pulled, faults>>
        /\ \A t \in Sessions : t # s => pc'[t] = pc[t] /\ text'[t] = text[t]
    BY <1>13 DEF Snapshot, Reads, TypeOK, history, flags
  <2>2. Readable' = Readable /\ Dumped' = Dumped
    BY <2>1 DEF files, Readable, Dumped
  <2>3. QED
    BY <2>1, <2>2, TurnStutters DEF TurnInv, Owes
<1>14. ASSUME NEW s \in Sessions, ReplaceDump(s) PROVE TurnInv'
  <2>1. /\ pc[s] = "replace" /\ pc'[s] \in {"open", "align"}
        /\ dump' = [work |-> text[s], parses |-> TRUE]
        /\ UNCHANGED <<db, wal, committed, pulled, faults>>
        /\ \A t \in Sessions : t # s => pc'[t] = pc[t]
    BY <1>14 DEF ReplaceDump, TypeOK, history
  <2>2. \A t \in Sessions : t # s => pc[t] = "idle" /\ pc'[t] = "idle"
    BY <2>1, <1>4
  <2>3. faults = 0 /\ text[s] = Readable /\ text[s] \in SUBSET AllWork
    BY <2>1, ReadableType DEF TurnInv
  <2>4. Readable' = Readable /\ Dumped' = Readable
    BY <2>1, <2>3, DumpType, FilesAreSomething DEF Readable, Dumped
  <2>5. QED
    BY <2>1, <2>2, <2>3, <2>4 DEF TurnInv
<1>15. ASSUME NEW s \in Sessions, Align(s) PROVE TurnInv'
  <2>1. /\ pc[s] = "align" /\ pc'[s] \in {"disconnect", "open"}
        /\ UNCHANGED <<db, wal, dump, wrote, text, committed, pulled, faults>>
        /\ \A t \in Sessions : t # s => pc'[t] = pc[t]
    BY <1>15 DEF Align, AfterDump, TypeOK, history, flags
  <2>2. Readable' = Readable /\ Dumped' = Dumped
    BY <2>1 DEF Readable, Dumped
  <2>3. QED
    BY <2>1, <2>2, TurnStutters DEF TurnInv, Owes
<1>16. ASSUME NEW s \in Sessions, TakeSwapLock(s) PROVE TurnInv'
  <2>1. /\ pc[s] = "await" /\ pc'[s] \in {"unlock", "swap"}
        /\ pc'[s] = "swap" => text[s] # NoFile
        /\ UNCHANGED <<db, wal, dump, wrote, text, committed, pulled, faults>>
        /\ \A t \in Sessions : t # s => pc'[t] = pc[t]
    BY <1>16 DEF TakeSwapLock, TypeOK, history, flags, files
  <2>2. Readable' = Readable /\ Dumped' = Dumped
    BY <2>1 DEF Readable, Dumped
  <2>3. QED
    BY <2>1, <2>2, TurnStutters DEF TurnInv, Owes
<1>17. ASSUME NEW s \in Sessions, DumpFails(s) \/ Crash(s) PROVE TurnInv'
  BY <1>17 DEF DumpFails, Crash, TypeOK
<1>18. ASSUME NEW u \in Upstream, NEW clean \in BOOLEAN, Pull(u, clean) PROVE TurnInv'
  <2>1. Dumped \in SUBSET AllWork
    BY FilesAreSomething DEF Dumped, TypeOK
  <2>2. dump' # NoFile /\ dump'.work = {u} \cup Dumped
    BY <1>18, <2>1, DumpType, FilesAreSomething DEF Pull, AllWork
  <2>3. /\ Dumped' = {u} \cup Dumped /\ pulled' = pulled \cup {u}
        /\ Readable' = Readable /\ UNCHANGED <<pc, wrote, text, committed, faults>>
    BY <1>18, <2>2 DEF Pull, Dumped, Readable, session, flags
  <2>4. QED
    BY <2>3 DEF TurnInv, Owes
<1>19. ASSUME Resolve PROVE TurnInv'
  <2>1. dump' = [work |-> dump.work, parses |-> TRUE] /\ dump.work \in SUBSET AllWork
    BY <1>19 DEF Resolve, Dumps, TypeOK
  <2>2. Dumped' = Dumped
    BY <1>19, <2>1, DumpType, FilesAreSomething DEF Resolve, Dumped
  <2>3. Readable' = Readable /\ UNCHANGED <<pc, wrote, text, committed, pulled, faults>>
    BY <1>19 DEF Resolve, Readable, session, flags, history
  <2>4. QED
    BY <2>2, <2>3 DEF TurnInv, Owes
<1>20. QED
  BY <1>2, <1>3, <1>5, <1>6, <1>7, <1>8, <1>9, <1>10, <1>11, <1>12, <1>13, <1>14,
     <1>15, <1>16, <1>17, <1>18, <1>19 DEF Next, Progress, Use
-----------------------------------------------------------------------------
(* Sessions that take turns, with git touching the dump between them only. *)
(* What git delivered is in the database, or the next opening will put it  *)
(* there (RestoreNeeded), or a rebuild is at it.  After a fault the last   *)
(* is the only evidence: folding a leftover WAL in makes the database the  *)
(* newer file, so a rebuild that dies then is not begun again.             *)
GitWaits ==
    Resolve \/ (\E u \in Upstream, clean \in BOOLEAN : Pull(u, clean))
        => \A s \in Sessions : pc[s] = "idle"

PulledInv ==
    /\ dump # NoFile /\ dump.parses =>
           \/ Dumped \cap pulled \subseteq Readable
           \/ /\ RestoreNeeded
              /\ \A s \in Sessions :
                     pc[s] \in {"idle", "queued", "backup", "build", "swap"}
           \/ faults > 0 /\ \E s \in Sessions : pc[s] \in {"build", "swap"}
    /\ \A s \in Sessions : pc[s] = "replace" => text[s] = Readable
    /\ \A s \in Sessions :
           pc[s] = "swap" \/ (pc[s] = "await" /\ text[s] # NoFile) => text[s] = Dumped
    /\ \A s \in Sessions : pc[s] = "unlink" => db # NoFile /\ Dumped \subseteq db

\* A step of a connected session that changes neither what is readable nor the dump.
LEMMA ConnectedStep ==
    ASSUME PulledInv, NEW s \in Sessions,
           pc[s] \notin {"idle", "queued", "backup", "build", "swap"},
           \A t \in Sessions : t # s => pc[t] = "idle" /\ pc'[t] = "idle",
           pc'[s] \notin {"replace", "swap", "await", "unlink"},
           Readable' = Readable, UNCHANGED <<dump, pulled>>
    PROVE  PulledInv'
  BY DEF PulledInv, Dumped

LEMMA PulledKept ==
    ASSUME Core, WalAccounted, InTurn, InTurn', faults < 2, faults' < 2, GitWaits,
           PulledInv, Next
    PROVE  PulledInv'
<1>0. TypeOK /\ LockMatchesPhase /\ orphans = {} /\ RebuildOwnsFiles
  BY DEF Core, NoOrphanedConnection
<1> USE <1>0 DEF Step
<1>a. ASSUME NEW s \in Sessions, pc[s] # "idle" \/ pc'[s] # "idle",
             \A t \in Sessions : t # s => pc'[t] = pc[t]
      PROVE  \A t \in Sessions : t # s => pc[t] = "idle" /\ pc'[t] = "idle"
  BY <1>a, OnlyOne
<1>b. ASSUME NEW s \in Sessions, NEW to, pc' = [pc EXCEPT ![s] = to],
             pc[s] # "idle" \/ to # "idle"
      PROVE  /\ \A t \in Sessions : t # s => pc[t] = "idle" /\ pc'[t] = "idle"
             /\ pc'[s] = to
  BY <1>b, <1>a DEF TypeOK
<1>1. ASSUME NEW s \in Sessions, OpenStore(s) PROVE PulledInv'
  <2>1. /\ pc[s] = "idle" /\ pc'[s] = IF RestoreNeeded THEN "queued" ELSE "probe"
        /\ UNCHANGED <<db, wal, dump, lead, pulled, faults, text>>
        /\ \A t \in Sessions : t # s => pc[t] = "idle" /\ pc'[t] = "idle"
    BY <1>1, <1>b DEF OpenStore, files, history
  <2>2. QED
    BY <2>1 DEF PulledInv, Readable, Dumped, RestoreNeeded
<1>2. ASSUME NEW s \in Sessions, BeginRestore(s) PROVE PulledInv'
  <2>1. /\ pc[s] = "queued" /\ pc'[s] = IF RestoreNeeded THEN "backup" ELSE "unlock"
        /\ UNCHANGED <<db, wal, dump, lead, pulled, faults, text>>
        /\ \A t \in Sessions : t # s => pc[t] = "idle" /\ pc'[t] = "idle"
    BY <1>2, <1>b DEF BeginRestore, files, history
  <2>2. QED
    BY <2>1 DEF PulledInv, Readable, Dumped, RestoreNeeded
<1>3. ASSUME NEW s \in Sessions, SkipRestore(s) PROVE FALSE
  <2>1. pc[s] = "queued" /\ \A t \in Sessions : t # s => pc[t] = "idle"
    BY <1>3, <1>b DEF SkipRestore
  <2>2. Live = {} /\ Rebuilders = {}
    BY <2>1 DEF Live, Rebuilders, Connected, Rebuilding
  <2>3. QED
    BY <1>3, <2>2 DEF SkipRestore, LockMatchesPhase, Lock!CanExclude
<1>4. ASSUME NEW s \in Sessions, Backup(s) PROVE PulledInv'
  <2>1. /\ pc[s] = "backup" /\ pc'[s] = "build"
        /\ UNCHANGED <<dump, pulled, faults, text>>
        /\ \A t \in Sessions : t # s => pc[t] = "idle" /\ pc'[t] = "idle"
    BY <1>4, <1>b DEF Backup, history
  <2>2. Readable' = Readable /\ (db' = NoFile <=> db = NoFile)
    BY <1>4, FilesAreSomething, ReadableType DEF Backup, Readable, TypeOK
  <2>3. wal # {} => faults > 0
    <3>1. Live = {}
      BY <2>1, Alone DEF Rebuilding
    <3>2. QED
      BY <3>1 DEF WalAccounted
  <2>4. lead' = lead \/ faults > 0
    BY <1>4, <2>3 DEF Backup
  <2>5. QED
    BY <2>1, <2>2, <2>4 DEF PulledInv, Dumped, RestoreNeeded
<1>5. ASSUME NEW s \in Sessions, Build(s) PROVE PulledInv'
  <2>1. /\ pc[s] = "build" /\ pc'[s] = IF dump.parses THEN "swap" ELSE "unlock"
        /\ dump # NoFile /\ (dump.parses => text'[s] = dump.work)
        /\ UNCHANGED <<db, wal, dump, lead, pulled, faults>>
        /\ \A t \in Sessions : t # s => pc[t] = "idle" /\ pc'[t] = "idle"
    BY <1>5, <1>b DEF Build, files, history, Reads, RebuildOwnsFiles, TypeOK
  <2>2. QED
    BY <2>1 DEF PulledInv, Readable, Dumped, RestoreNeeded
<1>6. ASSUME NEW s \in Sessions, Swap(s) PROVE PulledInv'
  <2>1. /\ pc[s] = "swap" /\ pc'[s] = "unlink" /\ db' = text[s]
        /\ UNCHANGED <<wal, dump, pulled, faults>>
        /\ \A t \in Sessions : t # s => pc[t] = "idle" /\ pc'[t] = "idle"
    BY <1>6, <1>b DEF Swap
  <2>2. text[s] # NoFile /\ text[s] = Dumped
    BY <2>1 DEF RebuildOwnsFiles, PulledInv
  <2>3. Readable' = Dumped \cup wal /\ Dumped' = Dumped
    BY <2>1, <2>2 DEF Readable, Dumped
  <2>4. QED
    BY <2>1, <2>2, <2>3 DEF PulledInv
<1>7. ASSUME NEW s \in Sessions, Unlink(s) PROVE PulledInv'
  <2>1. /\ pc[s] = "unlink" /\ pc'[s] = "unlock"
        /\ wal' = {} /\ UNCHANGED <<db, dump, pulled, faults>>
        /\ \A t \in Sessions : t # s => pc[t] = "idle" /\ pc'[t] = "idle"
    BY <1>7, <1>b DEF Unlink, history
  <2>2. Dumped' = Dumped /\ db # NoFile /\ Dumped \subseteq db
    BY <2>1 DEF Dumped, PulledInv
  <2>3. Dumped \subseteq Readable'
    BY <2>1, <2>2 DEF Readable
  <2>4. QED
    BY <2>1, <2>2, <2>3 DEF PulledInv
<1>8. ASSUME NEW s \in Sessions,
             EndRestore(s) \/ Probe(s) \/ OpenFails(s) \/ ServeWrite(s) \/ SyncDump(s)
               \/ Align(s) \/ RestoreBusy(s)
      PROVE  PulledInv'
  <2>1. /\ pc[s] \notin {"idle", "queued", "backup", "build", "swap"}
        /\ \E to \in {"idle", "probe", "connect", "snapshot", "disconnect", "open"} :
               pc' = [pc EXCEPT ![s] = to]
        /\ UNCHANGED <<db, wal, dump, pulled>>
    BY <1>8 DEF EndRestore, Probe, OpenFails, ServeWrite, SyncDump, Align, AfterDump,
       RestoreBusy, files, history, Command
  <2>2. Readable' = Readable
    BY <2>1 DEF Readable
  <2>3. QED
    BY <2>1, <2>2, <1>b, ConnectedStep
<1>9. ASSUME NEW s \in Sessions, Connect(s) PROVE PulledInv'
  <2>1. Readable' = Readable /\ UNCHANGED <<dump, pulled>>
    BY <1>9, FilesAreSomething DEF Connect, Readable, RebuildOwnsFiles, history
  <2>2. pc[s] = "connect" /\ pc' = [pc EXCEPT ![s] = "open"]
    BY <1>9 DEF Connect
  <2>3. QED
    BY <2>1, <2>2, <1>b, ConnectedStep
<1>10. ASSUME NEW s \in Sessions, NEW w \in Work, Commit(s, w) PROVE PulledInv'
  <2>1. /\ pc[s] = "open" /\ UNCHANGED <<pc, db, dump, pulled, faults>> /\ wal \subseteq wal'
    BY <1>10 DEF Commit
  <2>2. \A t \in Sessions : t # s => pc[t] = "idle" /\ pc'[t] = "idle"
    BY <2>1, <1>a
  <2>3. Readable \subseteq Readable' /\ Dumped' = Dumped
    BY <2>1 DEF Readable, Dumped
  <2>4. QED
    BY <2>1, <2>2, <2>3 DEF PulledInv
<1>11. ASSUME NEW s \in Sessions, AutoCheckpoint(s) PROVE PulledInv'
  <2>1. pc[s] = "open" /\ UNCHANGED <<pc, dump, pulled>> /\ Readable' = Readable
    BY <1>11, FoldReads DEF AutoCheckpoint, session, history
  <2>2. \A t \in Sessions : t # s => pc[t] = "idle" /\ pc'[t] = "idle"
    BY <2>1, <1>a
  <2>3. QED
    BY <2>1, <2>2, ConnectedStep
<1>12. ASSUME NEW s \in Sessions, NEW purpose \in {"close", "restore"}, Close(s, purpose)
       PROVE  PulledInv'
  <2>1. /\ Fold(s) /\ UNCHANGED <<dump, pulled>> /\ pc[s] = "open"
        /\ \E to \in {"snapshot", "disconnect"} : pc' = [pc EXCEPT ![s] = to]
    BY <1>12 DEF Close, Command, history
  <2>2. Readable' = Readable
    BY <2>1, FoldReads
  <2>3. QED
    BY <2>1, <2>2, <1>b, ConnectedStep
<1>13. ASSUME NEW s \in Sessions, Disconnect(s) PROVE PulledInv'
  <2>1. /\ Fold(s) \/ UNCHANGED <<db, wal>>
        /\ UNCHANGED <<dump, pulled>> /\ pc[s] = "disconnect"
        /\ \E to \in {"reread", "idle"} : pc' = [pc EXCEPT ![s] = to]
    BY <1>13 DEF Disconnect
  <2>2. Readable' = Readable
    BY <2>1, FoldReads DEF Readable
  <2>3. QED
    BY <2>1, <2>2, <1>b, ConnectedStep
<1>14. ASSUME NEW s \in Sessions, Snapshot(s) PROVE PulledInv'
  <2>1. /\ pc[s] = "snapshot" /\ pc'[s] = "replace" /\ text'[s] = Readable
        /\ UNCHANGED <<files, pulled>>
        /\ \A t \in Sessions : t # s => pc[t] = "idle" /\ pc'[t] = "idle"
    BY <1>14, <1>b DEF Snapshot, Reads, TypeOK, history
  <2>2. Readable' = Readable /\ Dumped' = Dumped
    BY <2>1 DEF files, Readable, Dumped
  <2>3. QED
    BY <2>1, <2>2 DEF PulledInv, files
<1>15. ASSUME NEW s \in Sessions, ReplaceDump(s) PROVE PulledInv'
  <2>1. /\ pc[s] = "replace" /\ pc'[s] \in {"open", "align"}
        /\ dump' = [work |-> text[s], parses |-> TRUE]
        /\ UNCHANGED <<db, wal, pulled>>
        /\ \A t \in Sessions : t # s => pc[t] = "idle" /\ pc'[t] = "idle"
    BY <1>15, <1>b DEF ReplaceDump, history
  <2>2. text[s] = Readable /\ text[s] \in SUBSET AllWork
    BY <2>1, ReadableType DEF PulledInv
  <2>3. Readable' = Readable /\ Dumped' = Readable
    BY <2>1, <2>2, DumpType, FilesAreSomething DEF Readable, Dumped
  <2>4. QED
    BY <2>1, <2>3 DEF PulledInv
<1>16. ASSUME NEW s \in Sessions, Reread(s) PROVE PulledInv'
  <2>1. /\ pc[s] = "reread" /\ pc'[s] = "await" /\ dump # NoFile
        /\ text'[s] # NoFile => text'[s] = dump.work
        /\ UNCHANGED <<files, pulled>>
        /\ \A t \in Sessions : t # s => pc[t] = "idle" /\ pc'[t] = "idle"
    BY <1>16, <1>b DEF Reread, Reads, TypeOK, history, RebuildOwnsFiles
  <2>2. Readable' = Readable /\ Dumped' = Dumped /\ Dumped = dump.work
    BY <2>1 DEF files, Readable, Dumped
  <2>3. QED
    BY <2>1, <2>2 DEF PulledInv, files
<1>17. ASSUME NEW s \in Sessions, TakeSwapLock(s) PROVE PulledInv'
  <2>1. /\ pc[s] = "await" /\ pc'[s] = IF text[s] = NoFile THEN "unlock" ELSE "swap"
        /\ UNCHANGED <<db, wal, dump, text, pulled>>
        /\ \A t \in Sessions : t # s => pc[t] = "idle" /\ pc'[t] = "idle"
    BY <1>17, <1>b DEF TakeSwapLock, files, history
  <2>2. Readable' = Readable /\ Dumped' = Dumped
    BY <2>1 DEF Readable, Dumped
  <2>3. QED
    BY <2>1, <2>2 DEF PulledInv
<1>18. ASSUME NEW s \in Sessions, DumpFails(s) PROVE PulledInv'
  <2>1. /\ pc[s] \in {"replace", "align"} /\ UNCHANGED <<db, wal, dump, pulled>>
        /\ \E to \in {"disconnect", "open"} : pc' = [pc EXCEPT ![s] = to]
    BY <1>18 DEF DumpFails, AfterDump, files
  <2>2. Readable' = Readable
    BY <2>1 DEF Readable
  <2>3. QED
    BY <2>1, <2>2, <1>b, ConnectedStep
<1>19. ASSUME NEW s \in Sessions, Crash(s) PROVE PulledInv'
  <2>1. /\ pc[s] # "idle" /\ pc'[s] = "idle"
        /\ UNCHANGED <<db, wal, dump, lead, pulled>>
        /\ \A t \in Sessions : t # s => pc[t] = "idle" /\ pc'[t] = "idle"
    BY <1>19, <1>b DEF Crash, files
  <2>2. faults = 0
    BY <1>19, SyncAssumption DEF Crash, TypeOK
  <2>3. QED
    BY <2>1, <2>2 DEF PulledInv, Readable, Dumped, RestoreNeeded
<1>20. ASSUME (\E u \in Upstream, clean \in BOOLEAN : Pull(u, clean)) \/ Resolve
       PROVE  PulledInv'
  <2>1. (\A t \in Sessions : pc[t] = "idle") /\ UNCHANGED pc
    BY <1>20 DEF GitWaits, Pull, Resolve, session
  <2>2. lead' = "dump"
    BY <1>20 DEF Pull, Resolve
  <2>3. QED
    BY <2>1, <2>2 DEF PulledInv, RestoreNeeded
<1>21. QED
  BY <1>1, <1>2, <1>3, <1>4, <1>5, <1>6, <1>7, <1>8, <1>9, <1>10, <1>11, <1>12, <1>13,
     <1>14, <1>15, <1>16, <1>17, <1>18, <1>19, <1>20 DEF Next, Progress, Use

\* While git waits and sessions take turns, no dump takes upstream work out.
LEMMA PulledStep ==
    ASSUME Core, InTurn, PulledInv, Next, dump # NoFile, dump.parses
    PROVE  Dumped \cap pulled \subseteq Dumped'
<1>1. ASSUME NEW s \in Sessions, ReplaceDump(s)
      PROVE  Dumped \cap pulled \subseteq Dumped'
  <2>1. pc[s] = "replace" /\ text[s] = Readable /\ Readable \in SUBSET AllWork
    BY <1>1, ReadableType DEF ReplaceDump, Step, Core, PulledInv
  <2>2. \A t \in Sessions : t # s => pc[t] = "idle"
    BY <2>1 DEF InTurn
  <2>3. Dumped \cap pulled \subseteq Readable
    BY <2>1, <2>2 DEF PulledInv
  <2>4. Dumped' = Readable
    BY <1>1, <2>1, DumpType, FilesAreSomething DEF ReplaceDump, Dumped
  <2>5. QED
    BY <2>3, <2>4
<1>2. CASE \A s \in Sessions : ~ReplaceDump(s)
  BY <1>2, DumpGrows
<1>3. QED
  BY <1>1, <1>2
-----------------------------------------------------------------------------
THEOREM Invariance ==
    Spec => []IInv
  BY InitIInv, NextIInv, PTL DEF Spec

(* Every variable keeps its type, whatever sessions, git and crashes do.   *)
THEOREM TypeCorrect ==
    Spec => []TypeOK
  BY Invariance, PTL DEF IInv, Core

(* Sessions hold the store lock in the mode their phase calls for          *)
(* (storage.py:156-163, sync.py:277, 184).                                 *)
THEOREM LockDiscipline ==
    Spec => []LockMatchesPhase
  BY Invariance, PTL DEF IInv, Core

(* No rebuild, automatic or asked for, replaces the database file under a  *)
(* live connection (sync.py:43-54, 264-267).                               *)
THEOREM NoSwapUnderAConnection ==
    Spec => []NoOrphanedConnection
  BY Invariance, PTL DEF IInv, Core

(* A rebuild has the files to itself until it is done.                     *)
THEOREM RebuildIsAlone ==
    Spec => []RebuildOwnsFiles
  BY Invariance, PTL DEF IInv, Core

(* Where a WAL that is not the database's own can be, and after what       *)
(* (sync.py:122-128, 168-172).                                             *)
THEOREM ForeignWal ==
    Spec => []WalBelongsToDatabase
<1>1. IInv => WalBelongsToDatabase
  BY DEF IInv, WalAccounted, CommandsCounted, WalBelongsToDatabase
<1>2. QED
  BY <1>1, Invariance, PTL

(* Whatever an automatic rebuild discards, the .bak holds (sync.py:262).   *)
THEOREM BackupIsComplete ==
    Spec => RestoreKeepsBackup
<1>1. IInv /\ [Next]_vars =>
        [ \/ Readable \subseteq Readable' \cup Backed
          \/ \E s \in Sessions : why[s] = "restore" /\ pc[s] \in {"swap", "unlink"} ]_vars
  BY StepKeepsBackup
<1>2. QED
  BY <1>1, Invariance, PTL DEF Spec, RestoreKeepsBackup

(* Upstream work that a rebuild brought into the database stays in the     *)
(* dump, whichever sessions dump in whatever order (sync.py:48-56, 216).   *)
THEOREM RestoredWork ==
    Spec => RestoredWorkStaysInDump
<1>1. Init => SnapshotIsCurrent
  BY DEF Init, SnapshotIsCurrent
<1>2. Spec => [](Core /\ SnapshotIsCurrent)
  BY <1>1, Invariance, CurrentKept, PTL DEF Spec, IInv
<1>3. Core /\ SnapshotIsCurrent /\ [Next]_vars =>
        [ dump # NoFile /\ dump.parses
            => Dumped \cap pulled \cap Readable \subseteq Dumped' ]_vars
  BY RestoredWorkStep
<1>4. QED
  BY <1>2, <1>3, PTL DEF Spec, RestoredWorkStaysInDump

(* Where nothing fails, git delivers nothing and nobody runs a command, no *)
(* committed work leaves the database (sync.py:256-260, 330-337).          *)
THEOREM UndisturbedWork ==
    Spec => []UndisturbedWorkStays
<1>1. Init => UndisturbedInv
  BY FilesAreSomething DEF Init, UndisturbedInv, Readable
<1>2. IInv /\ UndisturbedInv /\ [Next]_vars => UndisturbedInv'
  <2>1. ASSUME UndisturbedInv, UNCHANGED vars PROVE UndisturbedInv'
    BY <2>1 DEF UndisturbedInv, Undisturbed, vars, files, session, history, Readable
  <2>2. QED
    BY <2>1, UndisturbedKept
<1>3. Spec => []UndisturbedInv
  BY <1>1, <1>2, Invariance, PTL DEF Spec
<1>4. UndisturbedInv => UndisturbedWorkStays
  BY DEF UndisturbedInv, Undisturbed, UndisturbedWorkStays
<1>5. QED
  BY <1>3, <1>4, PTL
(* Every step of a session takes the lock, or drops it, as the abstract    *)
(* lock allows, or leaves it alone.                                        *)
LEMMA StepUsesLock ==
    ASSUME TypeOK, Next
    PROVE  Lock!LockNext \/ UNCHANGED locks
<1>1. ASSUME NEW s \in Sessions,
             Lock!AcquireShared(s) \/ Lock!AcquireExclusive(s) \/ Lock!Drop({s})
      PROVE  Lock!LockNext
  BY <1>1 DEF Lock!LockNext
<1>2. ASSUME NEW s \in Sessions, Progress(s) PROVE Lock!LockNext \/ UNCHANGED locks
  BY <1>1, <1>2 DEF Progress, BeginRestore, SkipRestore, Backup, Build, Swap, Unlink,
     EndRestore, Probe, Connect, OpenFails, Snapshot, ReplaceDump, Align, Disconnect,
     Reread, TakeSwapLock, RestoreBusy
<1>3. ASSUME NEW s \in Sessions, Use(s) PROVE UNCHANGED locks
  BY <1>3 DEF Use, OpenStore, Commit, ServeWrite, SyncDump, Close
<1>4. ASSUME NEW s \in Sessions, AutoCheckpoint(s) \/ DumpFails(s) PROVE UNCHANGED locks
  BY <1>4 DEF AutoCheckpoint, DumpFails
<1>5. ASSUME NEW s \in Sessions, Crash(s) PROVE Lock!LockNext \/ UNCHANGED locks
  BY <1>1, <1>5 DEF Crash
<1>6. ASSUME (\E u \in Upstream, clean \in BOOLEAN : Pull(u, clean)) \/ Resolve
      PROVE  UNCHANGED locks
  BY <1>6 DEF Pull, Resolve
<1>7. QED
  BY <1>2, <1>3, <1>4, <1>5, <1>6 DEF Next

(* What sessions, rebuilds and crashes do to the lock is a behaviour of    *)
(* the lock that locking.py promises: RWLock, which StoreLock implements   *)
(* (storage.py:156-163, sync.py:184, 277).                                 *)
THEOREM SessionsUseTheLock ==
    Spec => Lock!LockSpec
<1>1. Init => Lock!LockInit
  BY DEF Init
<1>2. TypeOK /\ [Next]_vars => [Lock!LockNext]_(Lock!lockVars)
  BY StepUsesLock DEF vars, locks, Lock!lockVars
<1>3. QED
  BY <1>1, <1>2, TypeCorrect, PTL DEF Spec, Lock!LockSpec

(* What sessions that take turns keep.                                     *)
THEOREM TurnInvariance ==
    Spec /\ []InTurn => []TurnInv
<1>1. Init => TurnInv
  BY FilesAreSomething DEF Init, TurnInv, Readable, Dumped
<1>2. IInv /\ InTurn /\ InTurn' /\ TurnInv /\ [Next]_vars => TurnInv'
  <2>1. ASSUME TurnInv, UNCHANGED vars PROVE TurnInv'
    BY <2>1 DEF TurnInv, Owes, vars, files, session, flags, history, Readable, Dumped
  <2>2. QED
    BY <2>1, TurnKept DEF IInv
<1>3. QED
  BY <1>1, <1>2, Invariance, PTL DEF Spec

(* Sessions that take turns, any number of them, with git delivering work  *)
(* and `sync` commands between, leave everything published (storage.py:1718). *)
THEOREM TurnsPublish ==
    Spec /\ []InTurn => []ClosedMeansPublished
<1>1. TurnInv => ClosedMeansPublished
  BY DEF TurnInv, Owes, ClosedMeansPublished
<1>2. QED
  BY <1>1, TurnInvariance, PTL

(* For sessions that take turns, and while nothing fails, the mtimes are   *)
(* the evidence the documentation takes them for: a database nobody has    *)
(* open never holds more than its dump without being the newer file, and,  *)
(* unless git delivered work, equal mtimes mean equal contents             *)
(* (sync.py:257-260, 335-336; docs/09:77-79, 98-99).                       *)
THEOREM TurnsAreEvidence ==
    Spec /\ []InTurn =>
        [](faults = 0 =>
               /\ UndumpedWorkIsNewer
               /\ pulled = {} => EvenMeansInSync)
<1>1. ASSUME TurnInv, faults = 0, Live = {}
      PROVE  Readable \subseteq Dumped /\ (pulled = {} => Dumped = Readable)
  <2>1. \A s \in Sessions : ~Owes(s)
    BY <1>1 DEF Owes, Live, Connected
  <2>2. QED
    BY <1>1, <2>1 DEF TurnInv
<1>2. TurnInv => (faults = 0 =>
               /\ UndumpedWorkIsNewer
               /\ pulled = {} => EvenMeansInSync)
  BY <1>1 DEF UndumpedWorkIsNewer, EvenMeansInSync
<1>3. QED
  BY <1>2, TurnInvariance, PTL

(* For sessions that take turns, with git touching the dump between them   *)
(* and not more than one fault, what git delivered stays in the dump: it   *)
(* waits there for the next restore, as docs/10:153-155 says.              *)
THEOREM TurnsKeepPulledWork ==
    Spec /\ []InTurn /\ [](faults < 2) /\ [][GitWaits]_vars => PulledWorkStaysInDump
<1>1. Init => PulledInv
  BY FilesAreSomething DEF Init, PulledInv, Readable, Dumped
<1>2. IInv /\ InTurn /\ InTurn' /\ faults < 2 /\ (faults < 2)' /\ PulledInv
         /\ [GitWaits]_vars /\ [Next]_vars => PulledInv'
  <2>1. ASSUME PulledInv, UNCHANGED vars PROVE PulledInv'
    BY <2>1 DEF PulledInv, RestoreNeeded, vars, files, session, history, Readable, Dumped
  <2>2. QED
    BY <2>1, PulledKept DEF IInv
<1>3. Spec /\ []InTurn /\ [](faults < 2) /\ [][GitWaits]_vars => []PulledInv
  BY <1>1, <1>2, Invariance, PTL DEF Spec
<1>4. IInv /\ InTurn /\ PulledInv /\ [Next]_vars =>
        [ dump # NoFile /\ dump.parses => Dumped \cap pulled \subseteq Dumped' ]_vars
  BY PulledStep DEF IInv
<1>5. QED
  BY <1>3, <1>4, Invariance, PTL DEF Spec, PulledWorkStaysInDump
=============================================================================
