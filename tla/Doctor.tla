------------------------------- MODULE Doctor --------------------------------
(***************************************************************************)
(* `doctor --repair` beside the sessions of StoreSync: repair of doctor.py, *)
(* which deletes staging files, diagnoses the store again, folds a leftover *)
(* -wal in, and rebuilds the database from the dump.                       *)
(*                                                                         *)
(* What it decides on it reads without the lock, as it does what it copies *)
(* and what it builds from; restore_from_text takes the lock, and from     *)
(* there its steps are those of StoreSync's `sync restore`.  A staging file *)
(* is there between a session's Build and its Swap, and between its        *)
(* Snapshot and its ReplaceDump, or not yet.                               *)
(***************************************************************************)
EXTENDS StoreSync

CONSTANTS Repairer,    \* the process that runs doctor (bound: one at a time)
          MaxRepairs   \* bound: repairs begun in a behaviour

ASSUME DoctorAssumption == Repairer \in Sessions \ Servers /\ MaxRepairs \in Nat

VARIABLES phase,       \* the repair's next step
          force,       \* it was called with --force
          inDump,      \* the work it found in the dump; NoFile if it is unusable
          needed,      \* the findings call for a rebuild
          gone,        \* sessions whose staging file was deleted
          kept,        \* history: what the database has held ever since it was
                       \* there to copy and nobody had it open
          repairs
repairing == <<phase, force, inDump, needed, gone, kept, repairs>>

Phases == {"none", "dump", "database", "sidecars", "fold", "decide",
           "checkpoint", "copy", "text"}

HasStaging == {s \in Sessions : pc[s] \in {"swap", "replace"}}

DoctorInit ==
    /\ Init
    /\ phase = "none" /\ force = FALSE /\ inDump = NoFile /\ needed = FALSE
    /\ gone = {} /\ kept = {} /\ repairs = 0

To(from, to) == phase = from /\ phase' = to

\* _checkpoint, with a connection of its own: it finishes, unless a session that
\* reads keeps it from writing all pages.
CheckpointFile ==
    \/ /\ db' = Readable /\ wal' = {} /\ alien' = FALSE
       /\ lead' = IF wal = {} THEN lead ELSE "db"
    \/ /\ wal # {} /\ Live # {}
       /\ lead' \in {lead, "db"}
       /\ UNCHANGED <<db, wal, alien>>
-----------------------------------------------------------------------------
\* Every staging file that is there is deleted, whoever is building it.
BeginRepair(forced) ==
    /\ pc[Repairer] = "idle" /\ repairs < MaxRepairs
    /\ To("none", "dump")
    /\ force' = forced
    /\ gone' \in {gone \cup hit : hit \in SUBSET HasStaging}
    /\ inDump' = NoFile /\ needed' = FALSE /\ kept' = {}
    /\ repairs' = repairs + 1
    /\ UNCHANGED vars

\* diagnose, the dump: missing or unreadable, or the work it holds.
DiagnoseDump ==
    /\ To("dump", "database")
    /\ inDump' = IF dump # NoFile /\ dump.parses THEN dump.work ELSE NoFile
    /\ UNCHANGED <<vars, force, needed, gone, kept, repairs>>

\* diagnose, the database: pages of another database's -wal may show as damage; and
\* if dump and database differ, the later mtime says which is to be rebuilt.  Work
\* that made no node does not show: it is the ids of the nodes that are compared.
DiagnoseDatabase ==
    /\ To("database", "sidecars")
    /\ \E damaged \in {FALSE, alien}, differ \in {FALSE, Readable # inDump} :
         needed' = \/ damaged
                   \/ /\ db # NoFile /\ inDump # NoFile
                      /\ differ /\ ~DumpIsStale
    /\ UNCHANGED <<vars, force, inDump, gone, kept, repairs>>

\* diagnose, the sidecars: a -wal is a leftover if the lock was free for a moment.
DiagnoseSidecars ==
    /\ To("sidecars", IF wal # {} /\ Lock!CanExclude THEN "fold" ELSE "decide")
    /\ UNCHANGED <<vars, force, inDump, needed, gone, kept, repairs>>

FoldLeftover ==
    /\ To("fold", "decide")
    /\ CheckpointFile
    /\ UNCHANGED <<dump, bak, locks, session, history,
                   force, inDump, needed, gone, kept, repairs>>

\* A rebuild needs a dump that is there and was usable.
Decide ==
    /\ To("decide",
          IF (needed \/ force) /\ dump # NoFile /\ inDump # NoFile
          THEN IF db # NoFile THEN "checkpoint" ELSE "text"
          ELSE "none")
    /\ UNCHANGED <<vars, force, inDump, needed, gone, kept, repairs>>

MutCheckpoint ==
    /\ To("checkpoint", "copy")
    /\ kept' = IF Live = {} /\ writers = {} THEN Readable ELSE {}
    /\ UNCHANGED <<vars, force, inDump, needed, gone, repairs>>

Checkpoint ==
    /\ To("checkpoint", "copy")
    /\ CheckpointFile
    /\ kept' = IF Live = {} /\ writers = {} THEN Readable ELSE {}
    /\ UNCHANGED <<dump, bak, locks, session, history,
                   force, inDump, needed, gone, repairs>>

\* shutil.copy2 of the database file.
CopyDatabase ==
    /\ To("copy", "text")
    /\ bak' = db
    /\ UNCHANGED <<db, wal, alien, dump, lead, locks, session, history,
                   force, inDump, needed, gone, kept, repairs>>

MutReadDump ==
    /\ To("text", "none")
    /\ Step(Repairer, "idle", IF dump.parses THEN "swap" ELSE "idle")
    /\ Reads(Repairer, IF dump.parses THEN dump.work ELSE {})
    /\ why' = [why EXCEPT ![Repairer] = "restore"]
    /\ UNCHANGED <<files, locks, flags, history,
                   force, inDump, needed, gone, kept, repairs>>

\* The text is read, and restore_from_text called.
ReadDump ==
    /\ To("text", "none")
    /\ Step(Repairer, "idle", "await")
    /\ Reads(Repairer, IF dump.parses THEN dump.work ELSE NoFile)
    /\ why' = [why EXCEPT ![Repairer] = "restore"]
    /\ UNCHANGED <<files, locks, flags, history,
                   force, inDump, needed, gone, kept, repairs>>

\* The repairing process is killed before it calls restore_from_text.
KillRepair ==
    /\ phase # "none" /\ faults < MaxFaults
    /\ phase' = "none"
    /\ faults' = faults + 1
    /\ UNCHANGED <<files, locks, session, committed, pulled, orphans, commands,
                   force, inDump, needed, gone, kept, repairs>>

\* replace() of a staging file that was deleted fails: the rebuild, or the dump, is
\* given up with a note, and what was there stays.
StagingIsGone(s) ==
    /\ s \in gone
    /\ pc' = [pc EXCEPT ![s] = IF @ = "swap" THEN "unlock" ELSE AfterDump(s)]
    /\ Reads(s, {})
    /\ gone' = gone \ {s}
    /\ UNCHANGED <<files, locks, flags, why, history,
                   phase, force, inDump, needed, kept, repairs>>
-----------------------------------------------------------------------------
Repair ==
    \/ \E forced \in BOOLEAN : BeginRepair(forced)
    \/ DiagnoseDump \/ DiagnoseDatabase \/ DiagnoseSidecars \/ FoldLeftover
    \/ Decide \/ Checkpoint \/ CopyDatabase \/ ReadDump \/ KillRepair
    \/ \E s \in Sessions : StagingIsGone(s)

\* The repairing process runs no other command, and a session whose staging file
\* is gone goes no further by it.
StoreStep ==
    /\ Next
    /\ \A s \in gone : ~Swap(s) /\ ~ReplaceDump(s)
    /\ pc[Repairer] = "idle" => pc'[Repairer] = "idle"
    /\ gone' = {s \in gone : pc'[s] = pc[s]}
    /\ kept' = kept \cap Readable'
    /\ UNCHANGED <<phase, force, inDump, needed, repairs>>

DoctorSpec == DoctorInit /\ [][Repair \/ StoreStep]_<<vars, repairing>>
-----------------------------------------------------------------------------
(* Properties.                                                             *)

DoctorTypeOK ==
    /\ TypeOK
    /\ phase \in Phases
    /\ force \in BOOLEAN /\ needed \in BOOLEAN
    /\ inDump \in {NoFile} \cup SUBSET AllWork
    /\ gone \in SUBSET HasStaging
    /\ kept \in SUBSET AllWork
    /\ repairs \in 0..MaxRepairs
    /\ phase # "none" => pc[Repairer] = "idle"

\* A rebuild by doctor is alone with the files, although all that it decided on
\* was read without the lock: nobody is connected while it replaces the database,
\* and no other rebuild runs (doctor.py:22-25, sync.py:177).
RepairIsAlone ==
    pc[Repairer] \in {"swap", "unlink"} =>
        Live = {} /\ orphans = {} /\ Rebuilders = {Repairer}

\* A -wal of another database is there only while a rebuild that did not fold it in
\* under the lock, as doctor's, is between its swap and its deletion of the
\* sidecars, or after a second process died (sync.py:168-172).
ForeignWalIsBrief ==
    alien => \/ faults > 1
             \/ \E s \in Sessions : pc[s] = "unlink" /\ why[s] = "restore"

\* What nobody had open when doctor folded the -wal in, and what no session took
\* out since, doctor does not take out of the database while the .bak lacks it,
\* whatever other sessions fold in, rebuild and copy before doctor gets the lock
\* (doctor.py:291-297, sync.py:122-128).
RepairCopiesFirst ==
    [][ pc[Repairer] = "swap" /\ pc'[Repairer] = "unlink"
          => kept \subseteq Readable' \cup Backed
      ]_<<vars, repairing>>

\* A repair without --force discards nothing: where nothing failed and git
\* delivered nothing, committed work stays in the database (doctor.py:16-21).
UnforcedRepairKeepsWork ==
    ~force => UndisturbedWorkStays
=============================================================================
