---------------------------- MODULE DoctorProofs -----------------------------
(***************************************************************************)
(* Proofs about a repair beside sessions, for any number of sessions,      *)
(* repairs, faults and commands.                                           *)
(*                                                                         *)
(* The lemmas of StoreSyncProofs that rest on the lock alone (Core) hold   *)
(* for the sessions' steps here too, the repair's rebuild among them; what *)
(* is left is that the steps the repair takes without the lock disturb     *)
(* nothing that rests on it.  The .bak is complete, although doctor writes *)
(* it before it has the lock, because of where work can go in between:     *)
(* what was in the database file is never again in the -wal, so it is in   *)
(* whatever file a session that gets the lock first copies (KeptIsCopied). *)
(***************************************************************************)
EXTENDS Doctor, StoreSyncProofs

\* The repairing process is at nothing but its rebuild.
RepairerRestores ==
    /\ pc[Repairer] \in {"idle", "await", "swap", "unlink", "unlock"}
    /\ pc[Repairer] # "idle" => why[Repairer] = "restore"

\* What the repair found it works on: no dump and no database is ever deleted.
FilesAreThere ==
    /\ phase \in {"checkpoint", "copy", "text"} => dump # NoFile
    /\ phase \in {"fold", "checkpoint", "copy"} => db # NoFile

\* Local work that is anywhere was committed, and no other is in a -wal.
LocalWork ==
    /\ wal \subseteq Work
    /\ Readable \cap Work \subseteq committed
    /\ Dumped \cap Work \subseteq committed
    /\ \A s \in Sessions : text[s] # NoFile => text[s] \cap Work \subseteq committed

KeptIsCopied ==
    /\ phase \in {"dump", "database", "sidecars", "fold", "decide", "checkpoint"}
         => kept = {}
    /\ phase \in {"copy", "text"} \/ pc[Repairer] \in {"await", "swap"}
         => kept \subseteq Readable /\ kept \cap wal = {}
    /\ phase = "text" \/ pc[Repairer] \in {"await", "swap"} => kept \subseteq Backed

StoreInv == Core /\ WalAccounted /\ LocalWork

DoctorInv ==
    /\ StoreInv
    /\ DoctorTypeOK
    /\ RepairerRestores
    /\ FilesAreThere
    /\ KeptIsCopied
-----------------------------------------------------------------------------
(* The steps of the sessions.                                              *)

\* No dump is deleted.
LEMMA DumpStays ==
    ASSUME Core, Next, dump # NoFile
    PROVE  dump' # NoFile
<1>1. ASSUME NEW s \in Sessions, ReplaceDump(s) PROVE dump' # NoFile
  BY <1>1, DumpType, FilesAreSomething DEF ReplaceDump, Step, Core, TypeOK,
     RebuildOwnsFiles
<1>2. ASSUME NEW u \in Upstream, NEW clean \in BOOLEAN, Pull(u, clean)
      PROVE  dump' # NoFile
  <2>1. Dumped \in SUBSET AllWork
    BY FilesAreSomething DEF Dumped, Core, TypeOK
  <2>2. QED
    BY <1>2, <2>1, DumpType, FilesAreSomething DEF Pull, AllWork
<1>3. ASSUME Resolve PROVE dump' # NoFile
  <2>1. dump' = [work |-> dump.work, parses |-> TRUE] /\ dump.work \in SUBSET AllWork
    BY <1>3 DEF Resolve, Dumps, Core, TypeOK
  <2>2. QED
    BY <2>1, DumpType, FilesAreSomething
<1>4. ASSUME NEW s \in Sessions, Progress(s), ~ReplaceDump(s) PROVE UNCHANGED dump
  BY <1>4 DEF Progress, files, BeginRestore, SkipRestore, Backup, Build, Swap, Unlink,
     EndRestore, Probe, Connect, OpenFails, Snapshot, Align, Disconnect, Reread,
     TakeSwapLock, RestoreBusy
<1>5. ASSUME NEW s \in Sessions,
             Use(s) \/ AutoCheckpoint(s) \/ DumpFails(s) \/ Crash(s)
      PROVE  UNCHANGED dump
  BY <1>5 DEF Use, files, OpenStore, Commit, ServeWrite, SyncDump, Close,
     AutoCheckpoint, DumpFails, Crash
<1>6. QED
  BY <1>1, <1>2, <1>3, <1>4, <1>5 DEF Next

\* No database is deleted: what is moved over one is another.
LEMMA DatabaseStays ==
    ASSUME Core, Next, db # NoFile
    PROVE  db' # NoFile
<1> USE DEF Core, TypeOK
<1>1. ASSUME NEW s \in Sessions, Swap(s) PROVE db' # NoFile
  BY <1>1 DEF Swap, Step, RebuildOwnsFiles
<1>2. ASSUME NEW s \in Sessions, Backup(s) \/ Connect(s) \/ Fold(s) PROVE db' # NoFile
  BY <1>2, ReadableType, FilesAreSomething DEF Backup, Connect, Fold
<1>3. ASSUME UNCHANGED db PROVE db' # NoFile
  BY <1>3
<1>4. ASSUME NEW s \in Sessions, Progress(s) \/ Use(s) \/ AutoCheckpoint(s)
      PROVE  db' # NoFile
  BY <1>1, <1>2, <1>3, <1>4 DEF Progress, Use, files,
     OpenStore, BeginRestore, SkipRestore, Build, Unlink, EndRestore, Probe, OpenFails,
     Commit, ServeWrite, SyncDump, Snapshot, ReplaceDump, Align, Disconnect, Reread,
     TakeSwapLock, RestoreBusy, AutoCheckpoint, Close
<1>5. ASSUME NEW s \in Sessions, DumpFails(s) \/ Crash(s) PROVE db' # NoFile
  BY <1>3, <1>5 DEF DumpFails, Crash, files
<1>6. ASSUME (\E u \in Upstream, clean \in BOOLEAN : Pull(u, clean)) \/ Resolve
      PROVE  db' # NoFile
  BY <1>3, <1>6 DEF Pull, Resolve
<1>7. QED
  BY <1>4, <1>5, <1>6 DEF Next

\* A -wal grows by what is committed only.
LEMMA WalGrows ==
    ASSUME Next
    PROVE  wal' \subseteq wal \cup (Work \ committed)
<1>1. ASSUME NEW s \in Sessions, Progress(s) PROVE wal' \subseteq wal
  BY <1>1 DEF Progress, files, BeginRestore, SkipRestore, Backup, Build, Swap, Unlink,
     EndRestore, Probe, Connect, OpenFails, Snapshot, ReplaceDump, Align, Disconnect,
     Fold, Reread, TakeSwapLock, RestoreBusy
<1>2. ASSUME NEW s \in Sessions, Use(s)
      PROVE  wal' \subseteq wal \cup (Work \ committed)
  BY <1>2 DEF Use, files, OpenStore, Commit, ServeWrite, SyncDump, Close, Fold
<1>3. ASSUME NEW s \in Sessions, AutoCheckpoint(s) \/ DumpFails(s) \/ Crash(s)
      PROVE  wal' \subseteq wal
  BY <1>3 DEF AutoCheckpoint, Fold, DumpFails, Crash, files
<1>4. ASSUME (\E u \in Upstream, clean \in BOOLEAN : Pull(u, clean)) \/ Resolve
      PROVE  wal' \subseteq wal
  BY <1>4 DEF Pull, Resolve
<1>5. QED
  BY <1>1, <1>2, <1>3, <1>4 DEF Next

\* A session that copies the database copies all of it.
LEMMA CopiesAll ==
    ASSUME Core, Next
    PROVE  \/ bak' = bak
           \/ Backed' = Readable
<1>1. ASSUME NEW s \in Sessions, Backup(s) PROVE bak' = bak \/ Backed' = Readable
  BY <1>1, ReadableType, FilesAreSomething DEF Backup, Backed, Core
<1>2. ASSUME NEW s \in Sessions, Progress(s), ~Backup(s) PROVE UNCHANGED bak
  BY <1>2 DEF Progress, files, BeginRestore, SkipRestore, Build, Swap, Unlink,
     EndRestore, Probe, Connect, OpenFails, Snapshot, ReplaceDump, Align, Disconnect,
     Reread, TakeSwapLock, RestoreBusy
<1>3. ASSUME NEW s \in Sessions,
             Use(s) \/ AutoCheckpoint(s) \/ DumpFails(s) \/ Crash(s)
      PROVE  UNCHANGED bak
  BY <1>3 DEF Use, files, OpenStore, Commit, ServeWrite, SyncDump, Close,
     AutoCheckpoint, DumpFails, Crash
<1>4. ASSUME (\E u \in Upstream, clean \in BOOLEAN : Pull(u, clean)) \/ Resolve
      PROVE  UNCHANGED bak
  BY <1>4 DEF Pull, Resolve
<1>5. QED
  BY <1>1, <1>2, <1>3, <1>4 DEF Next

\* Local work goes from a commit to the files, and between them, only.
LEMMA LocalWorkKept ==
    ASSUME Core, LocalWork, Next
    PROVE  LocalWork'
<1> USE DEF Core, TypeOK, LocalWork, Readable, Dumped, files, history, session,
            Reads, Forget, Step
<1>1. ASSUME NEW s \in Sessions, Swap(s) PROVE LocalWork'
  BY <1>1, FilesAreSomething DEF Swap, RebuildOwnsFiles
<1>2. ASSUME NEW s \in Sessions, Unlink(s) \/ Backup(s) PROVE LocalWork'
  BY <1>2, FilesAreSomething DEF Unlink, Backup
<1>3. ASSUME NEW s \in Sessions, Connect(s) PROVE LocalWork'
  BY <1>3, FilesAreSomething DEF Connect, RebuildOwnsFiles
<1>4. ASSUME NEW s \in Sessions, Fold(s), UNCHANGED <<dump, committed>>,
             \A t \in Sessions : text'[t] # NoFile => text'[t] \in {text[t], {}}
      PROVE  LocalWork'
  BY <1>4, FilesAreSomething DEF Fold
<1>5. ASSUME NEW s \in Sessions, NEW w \in Work, Commit(s, w) PROVE LocalWork'
  BY <1>5, FilesAreSomething DEF Commit, RebuildOwnsFiles, NoOrphanedConnection, Live,
     Connected
<1>6. ASSUME NEW s \in Sessions, Snapshot(s) \/ Build(s) \/ Reread(s) PROVE LocalWork'
  BY <1>6, FilesAreSomething DEF Snapshot, Build, Reread, RebuildOwnsFiles
<1>7. ASSUME NEW s \in Sessions, ReplaceDump(s) PROVE LocalWork'
  <2>1. text[s] \in SUBSET AllWork
    BY <1>7 DEF ReplaceDump, RebuildOwnsFiles
  <2>2. Dumped' = text[s]
    BY <1>7, <2>1, DumpType, FilesAreSomething DEF ReplaceDump
  <2>3. QED
    BY <1>7, <2>1, <2>2, FilesAreSomething DEF ReplaceDump
<1>8. ASSUME UNCHANGED <<db, wal, dump, committed>>,
             \A t \in Sessions : text'[t] # NoFile => text'[t] \in {text[t], {}}
      PROVE  LocalWork'
  BY <1>8
<1>9. ASSUME NEW s \in Sessions, Progress(s) PROVE LocalWork'
  <2>1. CASE Disconnect(s)
    BY <1>4, <1>8, <2>1 DEF Disconnect
  <2>2. CASE BeginRestore(s) \/ SkipRestore(s) \/ EndRestore(s) \/ Probe(s)
             \/ OpenFails(s) \/ Align(s) \/ TakeSwapLock(s) \/ RestoreBusy(s)
    BY <1>8, <2>2 DEF BeginRestore, SkipRestore, EndRestore, Probe, OpenFails, Align,
       TakeSwapLock, RestoreBusy
  <2>3. QED
    BY <1>1, <1>2, <1>3, <1>6, <1>7, <1>9, <2>1, <2>2 DEF Progress
<1>10. ASSUME NEW s \in Sessions, Use(s) PROVE LocalWork'
  <2>1. ASSUME NEW purpose \in {"close", "restore"}, Close(s, purpose) PROVE LocalWork'
    BY <1>4, <2>1 DEF Close, Command
  <2>2. CASE OpenStore(s) \/ ServeWrite(s) \/ SyncDump(s)
    BY <1>8, <2>2 DEF OpenStore, ServeWrite, SyncDump, Command
  <2>3. QED
    BY <1>5, <1>10, <2>1, <2>2 DEF Use
<1>11. ASSUME NEW s \in Sessions, AutoCheckpoint(s) \/ DumpFails(s) \/ Crash(s)
       PROVE  LocalWork'
  BY <1>4, <1>8, <1>11 DEF AutoCheckpoint, DumpFails, Crash
<1>12. ASSUME NEW u \in Upstream, NEW clean \in BOOLEAN, Pull(u, clean)
       PROVE  LocalWork'
  <2>1. Dumped \in SUBSET AllWork
    BY FilesAreSomething
  <2>2. Dumped' = {u} \cup Dumped
    BY <1>12, <2>1, DumpType, FilesAreSomething DEF Pull, AllWork
  <2>3. QED
    BY <1>12, <2>2, SyncAssumption DEF Pull
<1>13. ASSUME Resolve PROVE LocalWork'
  <2>1. dump' = [work |-> dump.work, parses |-> TRUE] /\ dump.work \in SUBSET AllWork
    BY <1>13 DEF Resolve, Dumps
  <2>2. QED
    BY <1>13, <2>1, DumpType, FilesAreSomething DEF Resolve
<1>14. QED
  BY <1>9, <1>10, <1>11, <1>12, <1>13 DEF Next

\* The repairing process, once its rebuild has begun, goes on with that or stops.
LEMMA RestoresOn ==
    ASSUME TypeOK, RepairerRestores, Next, pc[Repairer] = "idle" => pc'[Repairer] = "idle"
    PROVE  /\ RepairerRestores'
           /\ pc'[Repairer] \in {"await", "swap"} => pc[Repairer] \in {"await", "swap"}
<1> DEFINE On == /\ RepairerRestores'
                 /\ pc'[Repairer] \in {"await", "swap"} => pc[Repairer] \in {"await", "swap"}
<1> USE DoctorAssumption DEF TypeOK, RepairerRestores, Step, session, flags, Forget,
        AfterDump
<1>1. ASSUME NEW s \in Sessions, s # Repairer, Progress(s) PROVE On
  BY <1>1 DEF Progress, BeginRestore, SkipRestore, Backup, Build, Swap, Unlink,
     EndRestore, Probe, Connect, OpenFails, Snapshot, ReplaceDump, Align,
     Disconnect, Reread, TakeSwapLock, RestoreBusy
<1>2. ASSUME Progress(Repairer) PROVE On
  BY <1>2 DEF Progress, BeginRestore, SkipRestore, Backup, Build, Swap, Unlink,
     EndRestore, Probe, Connect, OpenFails, Snapshot, ReplaceDump, Align,
     Disconnect, Reread, TakeSwapLock, RestoreBusy
<1>3. ASSUME NEW s \in Sessions, Use(s) PROVE On
  BY <1>3 DEF Use, OpenStore, Commit, ServeWrite, SyncDump, Close
<1>4. ASSUME NEW s \in Sessions, AutoCheckpoint(s) \/ DumpFails(s) \/ Crash(s) PROVE On
  BY <1>4 DEF AutoCheckpoint, DumpFails, Crash
<1>5. ASSUME (\E u \in Upstream, clean \in BOOLEAN : Pull(u, clean)) \/ Resolve
      PROVE  On
  BY <1>5 DEF Pull, Resolve
<1>6. QED
  BY <1>1, <1>2, <1>3, <1>4, <1>5 DEF Next

LEMMA StoreStepKeeps ==
    ASSUME DoctorInv, StoreStep
    PROVE  DoctorInv'
<1> USE DEF DoctorInv, StoreInv, StoreStep
<1>1. StoreInv'
  BY TypesKept, PhasesKept, NobodyOrphaned, FilesKept, WalKept, LocalWorkKept DEF Core
<1>2. RepairerRestores'
  BY RestoresOn DEF Core
<1>3. FilesAreThere'
  BY DumpStays, DatabaseStays DEF FilesAreThere
<1>4. DoctorTypeOK'
  <2>1. gone' \subseteq gone /\ \A s \in gone' : pc'[s] = pc[s]
    OBVIOUS
  <2>2. gone' \in SUBSET HasStaging'
    BY <2>1 DEF DoctorTypeOK, HasStaging
  <2>3. QED
    BY <1>1, <2>2 DEF Core, DoctorTypeOK
<1>5. KeptIsCopied'
  <2>1. kept' \subseteq kept /\ kept' \subseteq Readable'
    OBVIOUS
  <2>2. ASSUME kept \subseteq Readable /\ kept \cap wal = {} PROVE kept' \cap wal' = {}
    BY <2>1, <2>2, WalGrows DEF LocalWork
  <2>3. ASSUME kept \subseteq Readable,
               kept \subseteq Backed PROVE kept' \subseteq Backed'
    BY <2>1, <2>3, CopiesAll DEF Backed
  <2>4. pc'[Repairer] \in {"await", "swap"} => pc[Repairer] \in {"await", "swap"}
    BY RestoresOn DEF Core
  <2>5. QED
    BY <2>1, <2>2, <2>3, <2>4 DEF KeptIsCopied
<1>6. QED
  BY <1>1, <1>2, <1>3, <1>4, <1>5
-----------------------------------------------------------------------------
(* The steps of the repair.                                                *)

\* While the store is as it was, so is what is known of it.
LEMMA StoreUntouched ==
    ASSUME StoreInv, UNCHANGED vars
    PROVE  StoreInv' /\ Readable' = Readable /\ Backed' = Backed /\ Live' = Live
  BY DEF StoreInv, vars, files, locks, session, flags, history, Core, TypeOK,
     LockMatchesPhase, NoOrphanedConnection, RebuildOwnsFiles, WalAccounted, LocalWork,
     Lock!Exclusion, Live, Rebuilders, Backed, Readable, Dumped

\* A checkpoint without the lock moves what was committed, and loses nothing.
LEMMA CheckpointKeeps ==
    ASSUME StoreInv, CheckpointFile, db # NoFile,
           UNCHANGED <<dump, bak, locks, session, history>>
    PROVE  /\ StoreInv' /\ Readable' = Readable /\ db' # NoFile
           /\ Live = {} => wal' = {}
<1> USE DEF StoreInv, Core, session, flags, history, locks
<1>1. Readable \in SUBSET AllWork /\ Readable # NoFile
  BY ReadableType, FilesAreSomething
<1>2. /\ db' \in SUBSET AllWork /\ db' # NoFile /\ wal' \subseteq wal
      /\ alien' \in BOOLEAN /\ (alien' => alien)
      /\ lead' \in {"db", "dump", "even"}
      /\ Readable' = Readable /\ db \subseteq db'
      /\ wal = {} => db' = db
      /\ Live = {} => wal' = {}
  <2>1. Readable = db \cup wal
    BY DEF Readable
  <2>2. CASE db' = Readable /\ wal' = {} /\ alien' = FALSE
             /\ lead' = IF wal = {} THEN lead ELSE "db"
    <3>1. Readable' = Readable
      BY <1>1, <2>2 DEF Readable
    <3>2. QED
      BY <1>1, <2>1, <2>2, <3>1 DEF TypeOK
  <2>3. CASE wal # {} /\ Live # {} /\ lead' \in {lead, "db"} /\ UNCHANGED <<db, wal, alien>>
    BY <2>3 DEF Readable, TypeOK
  <2>4. QED
    BY <2>2, <2>3 DEF CheckpointFile
<1>3. Live' = Live /\ Rebuilders' = Rebuilders /\ Backed' = Backed /\ Dumped' = Dumped
  BY DEF Live, Rebuilders, Backed, Dumped
<1>4. TypeOK'
  BY <1>2 DEF TypeOK
<1>5. LockMatchesPhase' /\ NoOrphanedConnection'
  BY <1>3 DEF LockMatchesPhase, NoOrphanedConnection, Lock!Exclusion
<1>6. RebuildOwnsFiles'
  BY <1>2, <1>3 DEF RebuildOwnsFiles
<1>7. WalAccounted'
  BY <1>2, <1>3 DEF WalAccounted
<1>8. LocalWork'
  BY <1>2, <1>3 DEF LocalWork
<1>9. QED
  BY <1>2, <1>4, <1>5, <1>6, <1>7, <1>8

LEMMA DiagnosisKeeps ==
    ASSUME DoctorInv,
           \/ \E forced \in BOOLEAN : BeginRepair(forced)
           \/ DiagnoseDump \/ DiagnoseDatabase \/ DiagnoseSidecars \/ Decide
    PROVE  DoctorInv'
<1> USE DEF DoctorInv, To
<1>1. UNCHANGED vars
  BY DEF BeginRepair, DiagnoseDump, DiagnoseDatabase, DiagnoseSidecars, Decide
<1>2. StoreInv' /\ pc' = pc /\ why' = why
  BY <1>1, StoreUntouched DEF vars, session
<1>3. HasStaging' = HasStaging
  BY <1>2 DEF HasStaging
<1>4. inDump' \in {NoFile} \cup SUBSET AllWork
  BY FilesAreSomething DEF DoctorTypeOK, StoreInv, Core, TypeOK, BeginRepair,
     DiagnoseDump, DiagnoseDatabase, DiagnoseSidecars, Decide
<1>5. needed' \in BOOLEAN /\ force' \in BOOLEAN
  BY DEF DoctorTypeOK, BeginRepair, DiagnoseDump, DiagnoseDatabase, DiagnoseSidecars,
     Decide, StoreInv, Core, TypeOK, DumpIsStale
<1>6. gone' \in SUBSET HasStaging
  BY DEF DoctorTypeOK, BeginRepair, DiagnoseDump, DiagnoseDatabase, DiagnoseSidecars,
     Decide
<1>7. repairs' \in 0..MaxRepairs
  <2>1. repairs' = repairs \/ (repairs < MaxRepairs /\ repairs' = repairs + 1)
    BY DEF BeginRepair, DiagnoseDump, DiagnoseDatabase, DiagnoseSidecars, Decide
  <2>2. QED
    BY <2>1, DoctorAssumption DEF DoctorTypeOK
<1>8. phase' \in Phases /\ phase # "copy" /\ phase # "text" /\ phase' # "copy"
  BY DEF Phases, BeginRepair, DiagnoseDump, DiagnoseDatabase, DiagnoseSidecars, Decide
<1>9. phase' # "none" => pc[Repairer] = "idle"
  BY DEF DoctorTypeOK, BeginRepair, DiagnoseDump, DiagnoseDatabase, DiagnoseSidecars,
     Decide
<1>10. kept' \in SUBSET AllWork /\ (phase' # "none" => kept' = {})
       /\ (phase' = "none" => kept' = kept)
  BY DEF DoctorTypeOK, KeptIsCopied, BeginRepair, DiagnoseDump, DiagnoseDatabase,
     DiagnoseSidecars, Decide
<1>11. DoctorTypeOK'
  BY <1>2, <1>3, <1>4, <1>5, <1>6, <1>7, <1>8, <1>9, <1>10
     DEF DoctorTypeOK, StoreInv, Core
<1>12. RepairerRestores'
  BY <1>2 DEF RepairerRestores
<1>13. FilesAreThere'
  BY <1>1 DEF FilesAreThere, vars, files, BeginRepair, DiagnoseDump, DiagnoseDatabase,
     DiagnoseSidecars, Decide, StoreInv, Core, RebuildOwnsFiles
<1>14. KeptIsCopied'
  <2>1. Readable' = Readable /\ Backed' = Backed /\ wal' = wal
    BY <1>1, StoreUntouched DEF vars, files
  <2>2. CASE phase' = "none"
    BY <1>2, <1>10, <2>1, <2>2 DEF KeptIsCopied
  <2>3. CASE phase' # "none"
    BY <1>10, <2>3, <1>2, <1>9 DEF KeptIsCopied
  <2>4. QED
    BY <2>2, <2>3
<1>15. QED
  BY <1>2, <1>11, <1>12, <1>13, <1>14

LEMMA FoldKeeps ==
    ASSUME DoctorInv, FoldLeftover \/ Checkpoint
    PROVE  DoctorInv'
<1> USE DEF DoctorInv, To
<1>1. CheckpointFile /\ UNCHANGED <<dump, bak, locks, session, history>>
  BY DEF FoldLeftover, Checkpoint
<1>2. db # NoFile /\ phase \in {"fold", "checkpoint"}
  BY DEF FilesAreThere, FoldLeftover, Checkpoint
<1>3. /\ StoreInv' /\ Readable' = Readable /\ db' # NoFile
      /\ Live = {} => wal' = {}
  BY <1>1, <1>2, CheckpointKeeps
<1>4. pc' = pc /\ why' = why /\ dump' = dump /\ Backed' = Backed /\ kept = {}
  BY <1>1, <1>2 DEF session, Backed, KeptIsCopied
<1>5. /\ phase' \in {"decide", "copy"} /\ pc[Repairer] = "idle"
      /\ phase' = "decide" => kept' = {}
      /\ phase' = "copy" => kept' \in {{}, Readable} /\ (Live # {} => kept' = {})
                            /\ phase = "checkpoint"
  BY <1>4 DEF FoldLeftover, Checkpoint, DoctorTypeOK
<1>6. Readable \in SUBSET AllWork
  BY ReadableType DEF StoreInv, Core
<1>7. DoctorTypeOK'
  <2>1. HasStaging' = HasStaging
    BY <1>4 DEF HasStaging
  <2>2. UNCHANGED <<force, inDump, needed, gone, repairs>>
    BY DEF FoldLeftover, Checkpoint
  <2>3. kept' \in SUBSET AllWork /\ phase' \in Phases
    BY <1>5, <1>6 DEF Phases
  <2>4. QED
    BY <1>3, <1>4, <1>5, <2>1, <2>2, <2>3 DEF DoctorTypeOK, StoreInv, Core
<1>8. RepairerRestores' /\ FilesAreThere'
  BY <1>3, <1>4, <1>5 DEF RepairerRestores, FilesAreThere
<1>9. KeptIsCopied'
  BY <1>3, <1>4, <1>5 DEF KeptIsCopied
<1>10. QED
  BY <1>3, <1>7, <1>8, <1>9

LEMMA CopyKeeps ==
    ASSUME DoctorInv, CopyDatabase
    PROVE  DoctorInv'
<1> USE DEF DoctorInv, StoreInv, Core, To, CopyDatabase, session, flags, history, locks
<1>1. /\ Live' = Live /\ Rebuilders' = Rebuilders /\ Readable' = Readable
      /\ Dumped' = Dumped /\ HasStaging' = HasStaging
  BY DEF Live, Rebuilders, Readable, Dumped, HasStaging
<1>2. db # NoFile /\ Backed' = db /\ bak' \in SUBSET AllWork
  BY DEF FilesAreThere, Backed, TypeOK
<1>3. TypeOK'
  BY <1>2 DEF TypeOK
<1>4. LockMatchesPhase' /\ NoOrphanedConnection'
  BY <1>1 DEF LockMatchesPhase, NoOrphanedConnection, Lock!Exclusion
<1>5. RebuildOwnsFiles'
  BY <1>1, <1>2 DEF RebuildOwnsFiles
<1>6. WalAccounted' /\ LocalWork'
  BY <1>1 DEF WalAccounted, LocalWork
<1>7. DoctorTypeOK'
  BY <1>1, <1>3 DEF DoctorTypeOK, Phases
<1>8. RepairerRestores' /\ FilesAreThere'
  BY DEF RepairerRestores, FilesAreThere
<1>9. KeptIsCopied'
  <2>1. kept \subseteq Readable /\ kept \cap wal = {} /\ kept' = kept
    BY DEF KeptIsCopied
  <2>2. kept \subseteq db
    BY <1>2, <2>1 DEF Readable
  <2>3. QED
    BY <1>1, <1>2, <2>1, <2>2 DEF KeptIsCopied, DoctorTypeOK
<1>10. QED
  BY <1>3, <1>4, <1>5, <1>6, <1>7, <1>8, <1>9

LEMMA ReadDumpKeeps ==
    ASSUME DoctorInv, ReadDump
    PROVE  DoctorInv'
<1> USE DoctorAssumption DEF DoctorInv, StoreInv, Core, To, ReadDump, Step, Reads,
        files, locks, flags, history
<1>1. dump \in Dumps /\ dump # NoFile /\ dump.work \in SUBSET AllWork
  BY FilesAreSomething DEF FilesAreThere, TypeOK
<1>2. TypeOK'
  BY <1>1 DEF TypeOK, Outside, Purposes
<1>3. LockMatchesPhase'
  BY Stay DEF Connected, Rebuilding
<1>4. /\ Readable' = Readable /\ Backed' = Backed /\ Dumped' = Dumped
      /\ Live' = Live
  BY DEF Readable, Backed, Dumped, Live, Connected, TypeOK
<1>5. NoOrphanedConnection' /\ RebuildOwnsFiles'
  BY <1>1, <1>4, FilesAreSomething DEF NoOrphanedConnection, RebuildOwnsFiles, TypeOK
<1>6. WalAccounted'
  BY <1>4 DEF WalAccounted, TypeOK
<1>7. LocalWork'
  BY <1>1, <1>4 DEF LocalWork, Dumped, TypeOK
<1>8. HasStaging \subseteq HasStaging'
  BY DEF HasStaging, TypeOK
<1>9. DoctorTypeOK'
  BY <1>2, <1>8 DEF DoctorTypeOK, Phases
<1>10. RepairerRestores' /\ FilesAreThere'
  BY DEF RepairerRestores, FilesAreThere, TypeOK
<1>11. KeptIsCopied'
  BY <1>4 DEF KeptIsCopied, TypeOK
<1>12. QED
  BY <1>2, <1>3, <1>5, <1>6, <1>7, <1>9, <1>10, <1>11

LEMMA KillKeeps ==
    ASSUME DoctorInv, KillRepair
    PROVE  DoctorInv'
<1> USE DEF DoctorInv, StoreInv, Core, KillRepair, session, flags, files, locks
<1>1. /\ Live' = Live /\ Rebuilders' = Rebuilders /\ Readable' = Readable
      /\ Dumped' = Dumped /\ Backed' = Backed /\ HasStaging' = HasStaging
  BY DEF Live, Rebuilders, Readable, Dumped, Backed, HasStaging
<1>2. TypeOK' /\ faults' > faults
  BY SyncAssumption DEF TypeOK
<1>3. LockMatchesPhase' /\ NoOrphanedConnection' /\ RebuildOwnsFiles'
  BY <1>1 DEF LockMatchesPhase, NoOrphanedConnection, Lock!Exclusion, RebuildOwnsFiles
<1>4. WalAccounted'
  BY <1>1, SyncAssumption DEF WalAccounted, TypeOK
<1>5. LocalWork'
  BY <1>1 DEF LocalWork
<1>6. DoctorTypeOK'
  BY <1>1, <1>2 DEF DoctorTypeOK, Phases
<1>7. RepairerRestores' /\ FilesAreThere' /\ KeptIsCopied'
  BY <1>1 DEF RepairerRestores, FilesAreThere, KeptIsCopied, DoctorTypeOK
<1>8. QED
  BY <1>2, <1>3, <1>4, <1>5, <1>6, <1>7

\* A rebuild or a dump that is given up leaves what it would have replaced.
LEMMA StagingKeeps ==
    ASSUME DoctorInv, NEW s \in Sessions, StagingIsGone(s)
    PROVE  DoctorInv'
<1> USE DEF DoctorInv, StoreInv, Core, StagingIsGone, Reads, flags, files, locks, history
<1>1. pc[s] \in {"swap", "replace"}
  BY DEF DoctorTypeOK, HasStaging
<1>2. PICK to \in {"unlock", "disconnect", "open"} :
        /\ Step(s, pc[s], to)
        /\ pc[s] = "swap" <=> to = "unlock"
  BY <1>1 DEF Step, AfterDump, TypeOK
<1>3. TypeOK'
  BY <1>2 DEF TypeOK, Step, Connected, Rebuilding
<1>4. LockMatchesPhase'
  BY <1>1, <1>2, Stay DEF Connected, Rebuilding
<1>5. /\ Readable' = Readable /\ Backed' = Backed /\ Dumped' = Dumped
      /\ Live' = Live
  BY <1>1, <1>2 DEF Readable, Backed, Dumped, Live, Connected, Step, TypeOK
<1>6. NoOrphanedConnection' /\ RebuildOwnsFiles'
  BY <1>1, <1>2, <1>5, FilesAreSomething DEF NoOrphanedConnection, RebuildOwnsFiles,
     Step, TypeOK
<1>7. WalAccounted'
  BY <1>1, <1>2, <1>5 DEF WalAccounted, Step, TypeOK
<1>8. LocalWork'
  BY <1>5 DEF LocalWork, TypeOK
<1>9. gone' \subseteq HasStaging'
  BY <1>2 DEF HasStaging, DoctorTypeOK, Step, TypeOK
<1>10. DoctorTypeOK'
  BY <1>1, <1>2, <1>3, <1>9 DEF DoctorTypeOK, Step, TypeOK
<1>11. RepairerRestores' /\ FilesAreThere'
  BY <1>1, <1>2 DEF RepairerRestores, FilesAreThere, Step, TypeOK
<1>12. KeptIsCopied'
  BY <1>1, <1>2, <1>5 DEF KeptIsCopied, Step, TypeOK
<1>13. QED
  BY <1>3, <1>4, <1>6, <1>7, <1>8, <1>10, <1>11, <1>12
-----------------------------------------------------------------------------
LEMMA InitDoctorInv ==
    DoctorInit => DoctorInv
<1> USE SyncAssumption, DoctorAssumption DEF DoctorInit
<1>1. DoctorInit => Core /\ WalAccounted
  BY InitIInv DEF IInv
<1>2. DoctorInit => LocalWork
  BY FilesAreSomething DEF Init, LocalWork, Readable, Dumped
<1>3. DoctorInit => DoctorTypeOK
  <2>1. 0 \in 0..MaxRepairs
    OBVIOUS
  <2>2. DoctorInit => TypeOK
    BY <1>1 DEF Core
  <2>3. QED
    BY <2>1, <2>2 DEF DoctorTypeOK, Phases
<1>4. DoctorInit => RepairerRestores /\ FilesAreThere /\ KeptIsCopied
  BY DEF Init, RepairerRestores, FilesAreThere, KeptIsCopied
<1>5. QED
  BY <1>1, <1>2, <1>3, <1>4 DEF DoctorInv, StoreInv

LEMMA NextDoctorInv ==
    ASSUME DoctorInv, [Repair \/ StoreStep]_<<vars, repairing>>
    PROVE  DoctorInv'
<1>1. CASE Repair
  BY <1>1, DiagnosisKeeps, FoldKeeps, CopyKeeps, ReadDumpKeeps, KillKeeps,
     StagingKeeps DEF Repair
<1>2. CASE StoreStep
  BY <1>2, StoreStepKeeps
<1>3. CASE UNCHANGED <<vars, repairing>>
  <2>1. StoreInv' /\ Readable' = Readable /\ Backed' = Backed
    BY <1>3, StoreUntouched DEF DoctorInv
  <2>2. UNCHANGED <<pc, why, db, wal, dump>>
    BY <1>3 DEF vars, session, files
  <2>3. UNCHANGED repairing
    BY <1>3
  <2>4. HasStaging' = HasStaging
    BY <2>2 DEF HasStaging
  <2>5. DoctorTypeOK'
    BY <2>1, <2>2, <2>3, <2>4 DEF DoctorInv, DoctorTypeOK, repairing, StoreInv, Core
  <2>6. RepairerRestores' /\ FilesAreThere' /\ KeptIsCopied'
    BY <2>1, <2>2, <2>3 DEF DoctorInv, RepairerRestores, FilesAreThere, KeptIsCopied,
       repairing
  <2>7. QED
    BY <2>1, <2>5, <2>6 DEF DoctorInv
<1>4. QED
  BY <1>1, <1>2, <1>3

THEOREM DoctorInvariant ==
    DoctorSpec => []DoctorInv
  BY InitDoctorInv, NextDoctorInv, PTL DEF DoctorSpec

(* Types are kept, by the store's variables and by the repair's.           *)
THEOREM DoctorTypes ==
    DoctorSpec => []DoctorTypeOK
  BY DoctorInvariant, PTL DEF DoctorInv

(* Nobody is connected, and no other rebuild runs, while doctor replaces   *)
(* the database (doctor.py:22-25, sync.py:177).                            *)
THEOREM RepairAlone ==
    DoctorSpec => []RepairIsAlone
<1>1. DoctorInv => RepairIsAlone
  <2> SUFFICES ASSUME DoctorInv, pc[Repairer] \in {"swap", "unlink"}
               PROVE  Live = {} /\ orphans = {} /\ Rebuilders = {Repairer}
    BY DEF RepairIsAlone
  <2>1. pc[Repairer] \in Rebuilding /\ Repairer \in Sessions
    BY DoctorAssumption DEF Rebuilding
  <2>2. Live = {} /\ Rebuilders = {Repairer}
    BY <2>1, Alone DEF DoctorInv, StoreInv, Core, Rebuilders
  <2>3. QED
    BY <2>2 DEF DoctorInv, StoreInv, Core, NoOrphanedConnection
<1>2. QED
  BY <1>1, DoctorInvariant, PTL

(* Where another database's -wal can be, with doctor too, and after what   *)
(* (sync.py:168-172).                                                      *)
THEOREM ForeignWalBrief ==
    DoctorSpec => []ForeignWalIsBrief
<1>1. DoctorInv => ForeignWalIsBrief
  BY DEF DoctorInv, StoreInv, WalAccounted, ForeignWalIsBrief
<1>2. QED
  BY <1>1, DoctorInvariant, PTL

(* What doctor had to copy, and what no session took out since, is in the  *)
(* .bak when doctor replaces the database (doctor.py:291-297).             *)
THEOREM CopiesFirst ==
    DoctorSpec => RepairCopiesFirst
<1>1. DoctorInv /\ [Repair \/ StoreStep]_<<vars, repairing>> =>
        [ pc[Repairer] = "swap" /\ pc'[Repairer] = "unlink"
            => kept \subseteq Readable' \cup Backed ]_<<vars, repairing>>
  BY DEF DoctorInv, KeptIsCopied
<1>2. QED
  BY <1>1, DoctorInvariant, PTL DEF DoctorSpec, RepairCopiesFirst
(* With repairs too, the lock is held in the mode each phase calls for, no  *)
(* connection is left on a replaced file, and a rebuild has the files to   *)
(* itself: what is proved of the sessions alone stands beside doctor, which *)
(* looks, folds and copies without the lock (doctor.py:22-25).             *)
THEOREM DoctorDisturbsNobody ==
    DoctorSpec => [](LockMatchesPhase /\ NoOrphanedConnection /\ RebuildOwnsFiles)
  BY DoctorInvariant, PTL DEF DoctorInv, StoreInv, Core

(* Repairs and sessions use the lock as RWLock promises it.                *)
THEOREM DoctorUsesTheLock ==
    DoctorSpec => Lock!LockSpec
<1>1. DoctorInit => Lock!LockInit
  BY DEF DoctorInit, Init
<1>2. DoctorInv /\ [Repair \/ StoreStep]_<<vars, repairing>>
          => [Lock!LockNext]_(Lock!lockVars)
  <2> SUFFICES ASSUME DoctorInv, [Repair \/ StoreStep]_<<vars, repairing>>
               PROVE  Lock!LockNext \/ UNCHANGED locks
    BY DEF Lock!lockVars, locks
  <2>1. CASE Repair
    BY <2>1 DEF Repair, BeginRepair, DiagnoseDump, DiagnoseDatabase, DiagnoseSidecars,
       FoldLeftover, Decide, Checkpoint, CopyDatabase, ReadDump, KillRepair,
       StagingIsGone, vars, locks
  <2>2. CASE StoreStep
    BY <2>2, StepUsesLock DEF StoreStep, DoctorInv, StoreInv, Core
  <2>3. CASE UNCHANGED <<vars, repairing>>
    BY <2>3 DEF vars
  <2>4. QED
    BY <2>1, <2>2, <2>3
<1>3. QED
  BY <1>1, <1>2, DoctorInvariant, PTL DEF DoctorSpec, Lock!LockSpec
-----------------------------------------------------------------------------
(* Repairs and sessions that take turns: a repair begins when nobody has    *)
(* the store open, and nobody opens it until it calls restore_from_text or *)
(* ends.  Then no staging file is there to be deleted, and the dump it     *)
(* rebuilds from holds all of the database (TurnInv).                      *)
RepairInTurn == InTurn /\ (phase # "none" => \A s \in Sessions : pc[s] = "idle")

\* A step of the repair that leaves sessions and dump alone keeps all that turns give.
LEMMA RepairStutters ==
    ASSUME TurnInv, Readable' = Readable,
           UNCHANGED <<dump, pc, wrote, text, committed, pulled, faults>>
    PROVE  TurnInv'
  BY DEF TurnInv, Owes, Dumped

LEMMA RepairKeepsTurns ==
    ASSUME DoctorInv, RepairInTurn, RepairInTurn', TurnInv, gone = {},
           [Repair \/ StoreStep]_<<vars, repairing>>
    PROVE  TurnInv' /\ gone' = {}
<1> USE DEF RepairInTurn
<1>1. ASSUME NEW forced \in BOOLEAN, BeginRepair(forced) PROVE TurnInv' /\ gone' = {}
  <2>1. \A s \in Sessions : pc[s] = "idle"
    BY <1>1 DEF BeginRepair, To, vars, session
  <2>2. gone' = {}
    BY <1>1, <2>1 DEF BeginRepair, HasStaging
  <2>3. TurnInv'
    BY <1>1, RepairStutters
       DEF BeginRepair, vars, files, session, flags, history, Readable
  <2>4. QED
    BY <2>2, <2>3
<1>2. CASE DiagnoseDump \/ DiagnoseDatabase \/ DiagnoseSidecars \/ Decide
  BY <1>2, RepairStutters
     DEF DiagnoseDump, DiagnoseDatabase, DiagnoseSidecars, Decide, vars, files, session,
         flags, history, Readable
<1>3. CASE FoldLeftover \/ Checkpoint
  <2>1. /\ CheckpointFile /\ UNCHANGED <<dump, bak, locks, session, history>>
        /\ gone' = gone /\ db # NoFile
    BY <1>3 DEF FoldLeftover, Checkpoint, DoctorInv, FilesAreThere, To
  <2>2. Readable' = Readable
    BY <2>1, CheckpointKeeps DEF DoctorInv
  <2>3. QED
    BY <2>1, <2>2, RepairStutters DEF session, flags, history
<1>4. CASE CopyDatabase
  BY <1>4, RepairStutters DEF CopyDatabase, session, flags, history, Readable
<1>5. CASE ReadDump
  <2>1. /\ \A s \in Sessions : pc[s] = "idle"
        /\ dump # NoFile /\ Repairer \in Sessions
        /\ UNCHANGED <<db, wal, dump, wrote, committed, pulled, faults, gone>>
        /\ \A s \in Sessions : s # Repairer => pc'[s] = "idle"
        /\ pc'[Repairer] = "await"
    BY <1>5, DoctorAssumption DEF ReadDump, To, Step, DoctorInv, FilesAreThere, StoreInv,
       Core, TypeOK, files, flags, history
  <2>2. Readable' = Readable /\ Dumped' = Dumped /\ Dumped = dump.work
    BY <2>1 DEF Readable, Dumped
  <2>3. text'[Repairer] # NoFile => text'[Repairer] = dump.work
    BY <1>5, <2>1 DEF ReadDump, Reads, DoctorInv, StoreInv, Core, TypeOK
  <2>4. faults = 0 => committed \subseteq Readable /\ Readable \subseteq Dumped
    BY <2>1 DEF TurnInv, Owes
  <2>5. QED
    BY <2>1, <2>2, <2>3, <2>4 DEF TurnInv
<1>6. CASE KillRepair
  <2>1. faults' # 0
    BY <1>6, SyncAssumption DEF KillRepair, DoctorInv, DoctorTypeOK, TypeOK
  <2>2. QED
    BY <1>6, <2>1 DEF KillRepair, TurnInv
<1>7. ASSUME NEW s \in Sessions, StagingIsGone(s) PROVE FALSE
  BY <1>7 DEF StagingIsGone
<1>8. CASE StoreStep
  BY <1>8, TurnKept DEF StoreStep, DoctorInv, StoreInv
<1>9. CASE UNCHANGED <<vars, repairing>>
  BY <1>9, RepairStutters
     DEF vars, repairing, files, session, flags, history, Readable
<1>10. QED
  BY <1>1, <1>2, <1>3, <1>4, <1>5, <1>6, <1>7, <1>8, <1>9 DEF Repair

(* A repair that nobody has the store open during discards no committed    *)
(* work, with --force or without, whatever git delivered before: only a    *)
(* repair beside a session does (doctor.py:16-21).                         *)
THEOREM RepairsInTurnKeepWork ==
    DoctorSpec /\ []RepairInTurn =>
        [](/\ faults = 0 => committed \subseteq Readable
           /\ UnforcedRepairKeepsWork)
<1>1. DoctorInit => TurnInv /\ gone = {}
  BY FilesAreSomething DEF DoctorInit, Init, TurnInv, Readable, Dumped
<1>2. DoctorInv /\ RepairInTurn /\ RepairInTurn' /\ (TurnInv /\ gone = {})
         /\ [Repair \/ StoreStep]_<<vars, repairing>> => (TurnInv /\ gone = {})'
  BY RepairKeepsTurns
<1>3. DoctorSpec /\ []RepairInTurn => [](TurnInv /\ gone = {})
  BY <1>1, <1>2, DoctorInvariant, PTL DEF DoctorSpec
<1>4. TurnInv =>
        /\ faults = 0 => committed \subseteq Readable
        /\ UnforcedRepairKeepsWork
  BY DEF TurnInv, UnforcedRepairKeepsWork, UndisturbedWorkStays
<1>5. QED
  BY <1>3, <1>4, PTL
=============================================================================
