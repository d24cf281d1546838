------------------------------ MODULE StoreSync ------------------------------
(***************************************************************************)
(* The database file, its -wal sidecar, its .bak copy and the git-tracked  *)
(* dump beside it, as sessions of MemoryStore open, write and close them,  *)
(* while git replaces the dump and processes die: sync.py, open and close  *)
(* of storage.py, the dump middleware of gui_api.py, `sync` of cli.py.     *)
(*                                                                         *)
(* A file's content is the set of units of work it holds.  Of the files'   *)
(* mtimes the code only ever compares the database's with the dump's, so   *)
(* the model keeps that order (lead) and no clock.  A commit goes to the   *)
(* -wal, and moves no mtime the code looks at; a checkpoint writes the     *)
(* database file.  The lock is the abstract one of RWLock, which StoreLock *)
(* implements.                                                             *)
(***************************************************************************)
EXTENDS Naturals, FiniteSets

CONSTANTS Sessions,    \* MemoryStore objects, each in a process of its own
          Servers,     \* those a GUI server holds for its life
          Work,        \* units of work a session may commit here
          Upstream,    \* units of work others publish through git
          NoFile,      \* the file is not there
          MaxFaults,   \* bound: crashes and failed dumps in a behaviour
          MaxCommands  \* bound: `sync dump` and `sync restore` commands

AllWork == Work \cup Upstream
Dumps   == [work : SUBSET AllWork, parses : BOOLEAN]

ASSUME SyncAssumption ==
    /\ Servers \subseteq Sessions
    /\ Work \cap Upstream = {}
    /\ \A file \in (SUBSET AllWork) \cup Dumps : file # NoFile
    /\ MaxFaults \in Nat /\ MaxCommands \in Nat

VARIABLES db,          \* the database file's pages, or NoFile
          wal,         \* committed to the -wal, not yet in the database file
          alien,       \* the -wal belongs to a database that was replaced
          dump,        \* the tracked dump, its work and whether it parses, or NoFile
          bak,         \* the copy a restore leaves, or NoFile
          lead         \* which of db and dump has the later mtime
files == <<db, wal, alien, dump, bak, lead>>

VARIABLES readers, writers      \* the store lock
Lock == INSTANCE RWLock WITH Callers <- Sessions
locks == <<readers, writers>>

VARIABLES pc,          \* per session, the next step it takes
          stale,       \* _dump_stale
          wrote,       \* total_changes > 0
          dirty,       \* total_changes above the middleware's watermark
          why,         \* what the session is dumping, or leaving, for
          text         \* what the session has read, to write it elsewhere
flags    == <<stale, wrote, dirty>>
session  == <<pc, flags, why, text>>

VARIABLES committed,   \* local work whose commit returned
          pulled,      \* upstream work git has delivered
          orphans,     \* sessions connected to a replaced database file
          faults,
          commands
history == <<committed, pulled, orphans, faults, commands>>

vars == <<files, locks, session, history>>

Purposes   == {"open", "close", "request", "dump", "restore"}
Connected  == {"open", "snapshot", "replace", "align", "disconnect"}
Rebuilding == {"backup", "build", "swap", "unlink", "unlock"}
Outside    == {"idle", "queued", "probe", "connect", "reread", "await"}

TypeOK ==
    /\ db \in {NoFile} \cup SUBSET AllWork
    /\ wal \in SUBSET AllWork
    /\ alien \in BOOLEAN
    /\ dump \in {NoFile} \cup Dumps
    /\ bak \in {NoFile} \cup SUBSET AllWork
    /\ lead \in {"db", "dump", "even"}
    /\ readers \in SUBSET Sessions /\ writers \in SUBSET Sessions
    /\ pc \in [Sessions -> Connected \cup Rebuilding \cup Outside]
    /\ stale \in [Sessions -> BOOLEAN]
    /\ wrote \in [Sessions -> BOOLEAN]
    /\ dirty \in [Sessions -> BOOLEAN]
    /\ why \in [Sessions -> Purposes]
    /\ text \in [Sessions -> {NoFile} \cup SUBSET AllWork]
    /\ committed \in SUBSET Work /\ pulled \in SUBSET Upstream
    /\ orphans \in SUBSET Sessions
    /\ faults \in 0..MaxFaults /\ commands \in 0..MaxCommands

\* A clone with the empty dump of a new project and no database yet, or a
\* directory with neither.
Init ==
    /\ dump \in {NoFile, [work |-> {}, parses |-> TRUE]}
    /\ db = NoFile /\ wal = {} /\ alien = FALSE /\ bak = NoFile /\ lead = "dump"
    /\ Lock!LockInit
    /\ pc = [s \in Sessions |-> "idle"]
    /\ stale = [s \in Sessions |-> FALSE]
    /\ wrote = [s \in Sessions |-> FALSE]
    /\ dirty = [s \in Sessions |-> FALSE]
    /\ why = [s \in Sessions |-> "open"]
    /\ text = [s \in Sessions |-> {}]
    /\ committed = {} /\ pulled = {} /\ orphans = {}
    /\ faults = 0 /\ commands = 0

Live       == {s \in Sessions : pc[s] \in Connected}
Rebuilders == {s \in Sessions : pc[s] \in Rebuilding}

\* What a connection made now would read: the file with its WAL replayed.
Readable == IF db = NoFile THEN {} ELSE db \cup wal

\* What the dump holds.
Dumped == IF dump = NoFile THEN {} ELSE dump.work

\* What the copy a restore left holds.
Backed == IF bak = NoFile THEN {} ELSE bak

Step(s, from, to) == pc[s] = from /\ pc' = [pc EXCEPT ![s] = to]

Reads(s, work) == text' = [text EXCEPT ![s] = work]

\* The store object is gone, and with it what the session knew.
Forget(s, purpose) ==
    /\ stale' = [stale EXCEPT ![s] = FALSE]
    /\ wrote' = [wrote EXCEPT ![s] = FALSE]
    /\ dirty' = [dirty EXCEPT ![s] = FALSE]
    /\ why' = [why EXCEPT ![s] = purpose]
    /\ Reads(s, {})
-----------------------------------------------------------------------------
(* Opening, first half: auto_restore.                                      *)

\* _restore_needed
RestoreNeeded ==
    /\ dump # NoFile
    /\ db = NoFile \/ lead = "dump"

\* The cheap check, without the lock.
OpenStore(s) ==
    /\ Step(s, "idle", IF RestoreNeeded THEN "queued" ELSE "probe")
    /\ UNCHANGED <<files, locks, flags, why, text, history>>

MutBeginRestoreUnlocked(s) ==
    /\ Step(s, "queued", IF RestoreNeeded THEN "backup" ELSE "probe")
    /\ UNCHANGED <<files, locks, flags, why, text, history>>

\* The check under the exclusive lock: another session may have restored.
BeginRestore(s) ==
    /\ Step(s, "queued", IF RestoreNeeded THEN "backup" ELSE "unlock")
    /\ Lock!AcquireExclusive(s)
    /\ UNCHANGED <<files, flags, why, text, history>>

\* StoreBusy: skip the rebuild, say so, and open the database as it is.
SkipRestore(s) ==
    /\ Step(s, "queued", "probe")
    /\ ~Lock!CanExclude
    /\ UNCHANGED <<files, locks, flags, why, text, history>>

MutBackupWithoutCheckpoint(s) ==
    /\ Step(s, "backup", "build")
    /\ bak' = IF db = NoFile THEN bak ELSE db
    /\ UNCHANGED <<db, wal, alien, dump, lead, locks, flags, why, text, history>>

\* Fold a leftover WAL into the database file, then copy the file.
Backup(s) ==
    /\ Step(s, "backup", "build")
    /\ IF db = NoFile
       THEN UNCHANGED <<db, wal, alien, bak, lead>>
       ELSE /\ db' = Readable /\ wal' = {} /\ alien' = FALSE
            /\ bak' = Readable
            /\ lead' = IF wal = {} THEN lead ELSE "db"
    /\ UNCHANGED <<dump, locks, flags, why, text, history>>

\* Read the dump and build the staging database; text that does not parse ends
\* the restore with a note.
Build(s) ==
    /\ Step(s, "build", IF dump.parses THEN "swap" ELSE "unlock")
    /\ Reads(s, IF dump.parses THEN dump.work ELSE {})
    /\ UNCHANGED <<files, locks, flags, why, history>>

\* staging.replace(target): whoever is connected keeps the old file.  The staging
\* file's mtime is the end of its build; a pull between that and the move leaves
\* what a pull after the move leaves, so the two are one step.
Swap(s) ==
    /\ Step(s, "swap", "unlink")
    /\ db' = text[s]
    /\ lead' = "db"
    /\ alien' = (wal # {})
    /\ orphans' = orphans \cup Live
    /\ Reads(s, {})
    /\ UNCHANGED <<wal, dump, bak, locks, flags, why,
                   committed, pulled, faults, commands>>

MutUnlinkNothing(s) ==
    /\ Step(s, "unlink", "unlock")
    /\ UNCHANGED <<files, locks, flags, why, text, history>>

\* Delete the sidecars of the replaced database.
Unlink(s) ==
    /\ Step(s, "unlink", "unlock")
    /\ wal' = {} /\ alien' = FALSE
    /\ UNCHANGED <<db, dump, bak, lead, locks, flags, why, text, history>>

\* auto_restore goes on opening; `sync restore` is done.
EndRestore(s) ==
    /\ Step(s, "unlock", IF why[s] = "restore" THEN "idle" ELSE "probe")
    /\ Lock!Drop({s})
    /\ Forget(s, "open")
    /\ UNCHANGED <<files, history>>
-----------------------------------------------------------------------------
(* Opening, second half: dump_is_stale, then the shared lock and connect.  *)

MutStaleNever == FALSE

MutStaleIsNone ==
    IF db = NoFile \/ dump = NoFile THEN NoFile ELSE lead = "db"

DumpIsStale == db # NoFile /\ dump # NoFile /\ lead = "db"

Probe(s) ==
    /\ Step(s, "probe", "connect")
    /\ stale' = [stale EXCEPT ![s] = DumpIsStale]
    /\ UNCHANGED <<files, locks, wrote, dirty, why, text, history>>

\* The shared lock, held until close; sqlite creates a missing database.
Connect(s) ==
    /\ Step(s, "connect", "open")
    /\ Lock!AcquireShared(s)
    /\ IF db = NoFile THEN db' = {} /\ lead' = "db" ELSE UNCHANGED <<db, lead>>
    /\ UNCHANGED <<wal, alien, dump, bak, flags, why, text, history>>

\* StoreBusy on the shared lock: the open fails.
OpenFails(s) ==
    /\ Step(s, "connect", "idle")
    /\ ~Lock!CanShare
    /\ Forget(s, "open")
    /\ UNCHANGED <<files, locks, history>>
-----------------------------------------------------------------------------
(* An open session.                                                        *)

\* A transaction commits, to the WAL of the file the session has open.
Commit(s, w) ==
    /\ pc[s] = "open"
    /\ w \notin committed
    /\ committed' = committed \cup {w}
    /\ wal' = IF s \in orphans THEN wal ELSE wal \cup {w}
    /\ wrote' = [wrote EXCEPT ![s] = TRUE]
    /\ dirty' = [dirty EXCEPT ![s] = TRUE]
    /\ UNCHANGED <<db, alien, dump, bak, lead, locks, pc, stale, why, text,
                   pulled, orphans, faults, commands>>

\* Write the session's WAL into its database file.  Another connection's read can
\* keep a checkpoint from finishing: it then wrote some pages, or none.
Fold(s) ==
    \/ /\ s \in orphans \/ wal = {}
       /\ UNCHANGED <<db, wal, alien, lead>>
    \/ /\ s \notin orphans /\ wal # {}
       /\ db' = Readable /\ wal' = {} /\ alien' = FALSE /\ lead' = "db"
    \/ /\ s \notin orphans /\ wal # {} /\ Live # {s}
       /\ lead' \in {lead, "db"}
       /\ UNCHANGED <<db, wal, alien>>

\* SQLite folds a long WAL in on its own, in whatever session commits.
AutoCheckpoint(s) ==
    /\ pc[s] = "open"
    /\ wal # {}
    /\ Fold(s)
    /\ UNCHANGED <<dump, bak, locks, session, history>>

\* After a request that wrote, the GUI refreshes the dump and stays open.
ServeWrite(s) ==
    /\ s \in Servers /\ dirty[s]
    /\ Step(s, "open", "snapshot")
    /\ dirty' = [dirty EXCEPT ![s] = FALSE]
    /\ why' = [why EXCEPT ![s] = "request"]
    /\ UNCHANGED <<files, locks, stale, wrote, text, history>>

\* One more command of `sync`.
Command ==
    /\ commands < MaxCommands
    /\ commands' = commands + 1
    /\ UNCHANGED <<committed, pulled, orphans, faults>>

\* `sync dump`: the session writes nothing else.
SyncDump(s) ==
    /\ s \notin Servers /\ ~wrote[s]
    /\ Command
    /\ Step(s, "open", "snapshot")
    /\ why' = [why EXCEPT ![s] = "dump"]
    /\ UNCHANGED <<files, locks, flags, text>>

MutCloseForgetsStale(s, purpose) ==
    /\ IF purpose = "restore"
       THEN s \notin Servers /\ ~wrote[s] /\ dump # NoFile /\ Command
       ELSE UNCHANGED history
    /\ Step(s, "open", IF wrote[s] THEN "snapshot" ELSE "disconnect")
    /\ why' = [why EXCEPT ![s] = purpose]
    /\ Fold(s)
    /\ UNCHANGED <<dump, bak, locks, flags, text>>

MutCloseForgetsWrites(s, purpose) ==
    /\ IF purpose = "restore"
       THEN s \notin Servers /\ ~wrote[s] /\ dump # NoFile /\ Command
       ELSE UNCHANGED history
    /\ Step(s, "open", IF stale[s] THEN "snapshot" ELSE "disconnect")
    /\ why' = [why EXCEPT ![s] = purpose]
    /\ Fold(s)
    /\ UNCHANGED <<dump, bak, locks, flags, text>>

\* close(): checkpoint, and dump if the session changed anything or found the
\* dump stale.  `sync restore` begins with it, if there is a dump.
Close(s, purpose) ==
    /\ IF purpose = "restore"
       THEN s \notin Servers /\ ~wrote[s] /\ dump # NoFile /\ Command
       ELSE UNCHANGED history
    /\ Step(s, "open", IF wrote[s] \/ stale[s] THEN "snapshot" ELSE "disconnect")
    /\ why' = [why EXCEPT ![s] = purpose]
    /\ Fold(s)
    /\ UNCHANGED <<dump, bak, locks, flags, text>>

\* conn.close() folds the WAL in if this was the last connection; the lock goes
\* last.
Disconnect(s) ==
    /\ Step(s, "disconnect", IF why[s] = "restore" THEN "reread" ELSE "idle")
    /\ IF Live = {s} THEN Fold(s) ELSE UNCHANGED <<db, wal, alien, lead>>
    /\ Lock!Drop({s})
    /\ orphans' = orphans \ {s}
    /\ Forget(s, IF why[s] = "restore" THEN "restore" ELSE "open")
    /\ UNCHANGED <<dump, bak, committed, pulled, faults, commands>>
-----------------------------------------------------------------------------
(* auto_dump and write_dump.                                               *)

\* Where a session goes once it has dumped, or failed to.
AfterDump(s) == IF why[s] \in {"close", "restore"} THEN "disconnect" ELSE "open"

\* dump_pairs reads the graph.
Snapshot(s) ==
    /\ Step(s, "snapshot", "replace")
    /\ Reads(s, IF s \in orphans THEN {} ELSE Readable)
    /\ UNCHANGED <<files, locks, flags, why, history>>

\* Write the staging file and move it over the dump.  write_dump ends here.
ReplaceDump(s) ==
    /\ Step(s, "replace", IF why[s] = "dump" THEN "open" ELSE "align")
    /\ dump' = [work |-> text[s], parses |-> TRUE]
    /\ lead' = "dump"
    /\ Reads(s, {})
    /\ UNCHANGED <<db, wal, alien, bak, locks, flags, why, history>>

MutAlignNothing(s) ==
    /\ Step(s, "align", AfterDump(s))
    /\ UNCHANGED <<files, locks, flags, why, text, history>>

\* Give the database the mtime the dump has now.
Align(s) ==
    /\ Step(s, "align", AfterDump(s))
    /\ lead' = "even"
    /\ UNCHANGED <<db, wal, alien, dump, bak, locks, flags, why, text, history>>

\* A dump that cannot be written, or aligned, is noted and given up: what was
\* replaced by then stays replaced.
DumpFails(s) ==
    /\ pc[s] \in {"replace", "align"}
    /\ faults < MaxFaults
    /\ faults' = faults + 1
    /\ pc' = [pc EXCEPT ![s] = AfterDump(s)]
    /\ Reads(s, {})
    /\ UNCHANGED <<files, locks, flags, why,
                   committed, pulled, orphans, commands>>
-----------------------------------------------------------------------------
(* `sync restore`, after its close: restore_from_text.                     *)

\* The text is read first.
Reread(s) ==
    /\ Step(s, "reread", "await")
    /\ Reads(s, IF dump.parses THEN dump.work ELSE NoFile)
    /\ UNCHANGED <<files, locks, flags, why, history>>

\* Then the exclusive lock is taken, around build, swap and unlink; text that does
\* not parse ends the command there.
TakeSwapLock(s) ==
    /\ Step(s, "await", IF text[s] = NoFile THEN "unlock" ELSE "swap")
    /\ Lock!AcquireExclusive(s)
    /\ UNCHANGED <<files, flags, why, text, history>>

\* StoreBusy: the command fails, the database is untouched.
RestoreBusy(s) ==
    /\ Step(s, "await", "idle")
    /\ ~Lock!CanExclude
    /\ Forget(s, "open")
    /\ UNCHANGED <<files, locks, history>>
-----------------------------------------------------------------------------
(* The environment.                                                        *)

\* git merges upstream work into the tracked dump; a conflict leaves markers in
\* it, until somebody resolves them.
Pull(u, clean) ==
    /\ u \notin pulled
    /\ dump # NoFile => dump.parses
    /\ pulled' = pulled \cup {u}
    /\ dump' = [work |-> {u} \cup Dumped,
                parses |-> clean]
    /\ lead' = "dump"
    /\ UNCHANGED <<db, wal, alien, bak, locks, session, committed, orphans,
                   faults, commands>>

Resolve ==
    /\ dump # NoFile
    /\ ~dump.parses
    /\ dump' = [dump EXCEPT !.parses = TRUE]
    /\ lead' = "dump"
    /\ UNCHANGED <<db, wal, alien, bak, locks, session, history>>

\* A session's process is killed: the kernel drops its lock, its WAL stays.
Crash(s) ==
    /\ pc[s] # "idle"
    /\ faults < MaxFaults
    /\ faults' = faults + 1
    /\ pc' = [pc EXCEPT ![s] = "idle"]
    /\ IF s \in Lock!holders THEN Lock!Drop({s}) ELSE UNCHANGED locks
    /\ orphans' = orphans \ {s}
    /\ Forget(s, "open")
    /\ UNCHANGED <<files, committed, pulled, commands>>
-----------------------------------------------------------------------------
\* The steps the session's own code takes, once it is opening or closing.
Progress(s) ==
    \/ BeginRestore(s) \/ SkipRestore(s) \/ Backup(s) \/ Build(s)
    \/ Swap(s) \/ Unlink(s) \/ EndRestore(s)
    \/ Probe(s) \/ Connect(s) \/ OpenFails(s)
    \/ Snapshot(s) \/ ReplaceDump(s) \/ Align(s) \/ Disconnect(s)
    \/ Reread(s) \/ TakeSwapLock(s) \/ RestoreBusy(s)

\* The steps a user or an agent decides on.
Use(s) ==
    \/ OpenStore(s)
    \/ \E w \in Work : Commit(s, w)
    \/ ServeWrite(s)
    \/ SyncDump(s)
    \/ \E purpose \in {"close", "restore"} : Close(s, purpose)

Next ==
    \/ \E s \in Sessions :
        \/ Progress(s)
        \/ Use(s)
        \/ AutoCheckpoint(s)
        \/ DumpFails(s)
        \/ Crash(s)
    \/ \E u \in Upstream, clean \in BOOLEAN : Pull(u, clean)
    \/ Resolve

Spec == Init /\ [][Next]_vars

\* Code that has begun to open or to close goes on.  Nobody has to open the
\* store, to write to it, or to end a session.
FairSpec == Spec /\ \A s \in Sessions : WF_vars(Progress(s))

\* Besides, somebody always opens the store again, and ends the session.
BusySpec ==
    /\ FairSpec
    /\ \A s \in Sessions : WF_vars(OpenStore(s)) /\ WF_vars(Close(s, "close"))
-----------------------------------------------------------------------------
(* Properties.                                                             *)

\* The lock is held in the mode the phase calls for: shared by exactly the
\* sessions with a connection, exclusive by exactly those that are replacing
\* the database file, and never both (sync.py:115-119, storage.py:156-163).
LockMatchesPhase ==
    /\ readers = Live
    /\ writers = Rebuilders
    /\ Lock!Exclusion

\* No session is ever left connected to a database file that was replaced under
\* it: the one thing SQLite does not survive (sync.py:43-54).
NoOrphanedConnection == orphans = {}

\* What a rebuild looked at stays as it was until it is done: no commit gets into
\* the WAL that was folded in, none of the folded work is missing from the copy,
\* and there is text to build from (sync.py:142-147, 304-314).
RebuildOwnsFiles ==
    /\ db = NoFile => wal = {} /\ Live = {}
    /\ \A s \in Sessions :
        /\ pc[s] \in {"backup", "build"} \/ why[s] = "restore" => dump # NoFile
        /\ pc[s] \in {"reread", "await"} => why[s] = "restore"
        /\ text[s] = NoFile => pc[s] \in {"await", "unlock"}
        /\ pc[s] \in {"build", "swap", "unlink"} /\ why[s] # "restore"
             => wal = {} /\ (pc[s] # "unlink" /\ db # NoFile => db \subseteq Backed)

\* No connection ever replays another database's pages.  A -wal that is not the
\* database file's own is never there after a rebuild that auto_restore decided
\* on, whatever crashes; a `sync restore` has one between its swap and its
\* deletion of the sidecars, where nobody can connect, and only two crashes, of
\* which the second is its own, leave it behind (sync.py:122-128, 168-172).
WalBelongsToDatabase ==
    alien => /\ commands > 0
             /\ faults > 1 \/ \E s \in Sessions : pc[s] = "unlink"

\* No step takes work out of the database that is not in the .bak beside it,
\* unless it is the rebuild that somebody asked for: a rebuild auto_restore
\* decided on copies the whole database first, WAL included (sync.py:122-128,
\* 262-263, docs/09:73).
RestoreKeepsBackup ==
    [][ \/ Readable \subseteq Readable' \cup Backed
        \/ \E s \in Sessions : why[s] = "restore" /\ pc[s] \in {"swap", "unlink"}
      ]_vars

\* While nothing fails, git delivers nothing and nobody runs a `sync` command, no
\* committed work leaves the database: no session's opening reads the dump that
\* another's closing is writing as one that moved ahead (sync.py:256-260,
\* 330-337).
UndisturbedWorkStays ==
    faults = 0 /\ pulled = {} /\ commands = 0 => committed \subseteq Readable

\* The mtimes are evidence: a database nobody has open that holds work its dump
\* does not is the newer file (sync.py:257-260, docs/09:77-79).
UndumpedWorkIsNewer ==
    Live = {} /\ writers = {} /\ db # NoFile /\ dump # NoFile
        => Readable \subseteq Dumped \/ lead = "db"

\* Equal mtimes of files nobody has open mean that the dump holds what the
\* database holds (sync.py:335-336, docs/09:98-99).
EvenMeansInSync ==
    Live = {} /\ writers = {} /\ lead = "even" => Dumped = Readable

\* While nothing fails, sessions that take turns leave all their work in the database
\* and all of the database in the dump: "by the time a commit is staged, the
\* legible dump beside the database already reflects it" (storage.py:1718-1720).
\* Sessions that do not take turns may not, see UndumpedWorkIsNewer.
ClosedMeansPublished ==
    faults = 0 /\ (\A s \in Sessions : pc[s] = "idle")
        => committed \subseteq Readable /\ Readable \subseteq Dumped

\* Upstream work that git delivered to the dump is never taken out of it by a
\* session: it waits there for the next restore (docs/10:153-155).
PulledWorkStaysInDump ==
    [][ dump # NoFile /\ dump.parses
          => Dumped \cap pulled \subseteq Dumped' ]_vars

\* Upstream work stays in the dump from the moment a rebuild has brought it into
\* the database: no session that read the graph before, or was connected to the
\* database before, can take it out again (sync.py:48-56, 216-228).
RestoredWorkStaysInDump ==
    [][ dump # NoFile /\ dump.parses
          => Dumped \cap pulled \cap Readable \subseteq Dumped' ]_vars

\* `sync restore` discards local writes in favour of the tracked dump: it does
\* not change what the dump holds (docs/09:110, cli.py:256-262).
RestoreLeavesTheDump ==
    [][ \A s \in Sessions :
          pc[s] = "replace" /\ pc'[s] = "align" /\ why[s] = "restore"
              => Dumped' = Dumped ]_vars

\* Work that was committed beside a dump reaches the dump, whatever crashes and
\* however often a dump fails, as long as sessions go on being opened and closed
\* (sync.py:231-239, gui_api.py:107-109).
WorkIsPublished ==
    \A w \in Work :
        (w \in committed /\ dump # NoFile) ~> (w \in Dumped)
=============================================================================
