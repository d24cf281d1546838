# TLA+ models of the agentic memory system

This directory holds a formal model of the memory store in
`src/agentic_memory_system`: TLA+ modules, the TLC runs that check them on small
instances, and TLAPS proofs that hold for instances of every size. Source paths
below are relative to that package unless they begin with `docs/` or `scripts/`.

## 1. The system

One project has one store: an SQLite database in WAL mode, `memory-graph.db`,
and beside it a text dump that git tracks. Several processes use it at once:
an MCP server per coding agent, a GUI server, command line tools. None of them
talks to another; they meet in the files, in a lock file, and in the journal of
events inside the database.

| component | state | operations | hard about it |
|---|---|---|---|
| store lock (`locking.py`) | lock file; per process a registry of holders and one descriptor | `acquire` shared or exclusive with a deadline, `release` | conflicts inside one process are invisible to `flock`; processes die |
| git sync (`sync.py`, open and close in `storage.py`, middleware in `gui_api.py`, `sync` in `cli.py`) | database file, `-wal`, `.bak`, dump, their mtimes; per session what it found on opening | open (rebuild from a newer dump), write, dump, close, `sync dump`, `sync restore` | decisions made from mtimes before the lock is taken; crashes between any two file operations; git moving the dump |
| graph and journal (`storage.py`) | nodes, edges, events | captures, links, rulings | an operation reads in several statements, each its own snapshot, then writes in one transaction |
| liveness (`sweep`, slices, entities in `storage.py`; `agent_surface.py`; `scripts/memory_lifecycle.py`) | archived flags, tiers, lifecycle events | `create_change`, `capture_artifact`, `capture_entity`, activate, deactivate, confirm, retire, promote, consolidate, `sweep` | a sweep makes four reads while others mint and rule |
| review (`storage.py`, `fold.py`, review endpoints of `gui_api.py`) | `needs_review`, `trust_weight`, journal | contradict, confirm, clear, resolve, recompute one or all | trust is derived from a journal others append to; stamps and commits have different orders |
| evaluator (`evaluator.py`) | cache of guidance by node and latest event | `guidance` | awaits a model call between the cache lookup and the cache write |
| recall (`retrieval.py`, `traverse`, `recall_multi`, `embedding.py`, `impact_of` in `storage.py`) | none | ranking; the impact of a node | floating point; edges in cycles; an answer is read in several statements |
| penalty and resolver (`penalty.py`, `resolver.py`) | none | pure functions | the order of the ladder |
| dump format (`serialization.py`, `dump_pairs`) | the dump's text | dump, parse, restore | escaping and line ends; a dump is not one snapshot; a restore builds table by table |
| doctor (`doctor.py`) | none of its own | `diagnose`, `repair` | decides, copies and reads without the lock, beside live sessions, dumps and restores |
| GUI server, CLI, MCP server | one store each | call the operations above | the GUI is one event loop; the MCP server never closes its store |
| schema, migrations; browser code; benchmark | – | – | – |

What makes each part correct, in a sentence: the lock is a readers/writer lock
over callers in all processes; no file is replaced under a connection, and no
work disappears without a copy; a dump says what it leaves out and comes back as
it was; a sweep archives only what nothing holds; flag and trust are what the
journal says; the impact of a node is every dependent at its distance.

`PROJECT.json` lists the components with what became of each, and the hazards:
the places where this code could go wrong in a way a test would hardly reach.

## 2. Plan

| step | module | state |
|---|---|---|
| 1 | `RWLock` (what the lock promises), `StoreLock` (how it keeps the promise) | checked, proved |
| 2 | `StoreSync`, on `RWLock` | checked, proved |
| 3 | `Liveness` | checked, proved |
| 4 | `Review`, evaluator included | checked, proved |
| 5 | `Graph` (the rows and their transactions), `DumpText` (the text and its parse), `Dump` on both: `dump_pairs` statement by statement, and the restore | checked, proved |
| 6 | `Impact`, on `Graph`: `impact_of` against the distances in a relation | checked, proved |
| 7 | `Doctor`, on `StoreSync`: `repair` beside its sessions | checked, proved |
| 8 | the resolver ladder and the penalty, as functions of a node's events | left |

Three compositions matter: `StoreSync` uses the lock only through `RWLock`,
which `StoreLock` implements (and what its sessions do to the lock, those of
`Doctor` included, is proved to be a behaviour of `RWLock`); `Doctor` is a further process among `StoreSync`'s
sessions; `Dump` and `Impact` are readers beside the transactions of `Graph`.
The other big modules share no more than the database's transactions: sync sees
a transaction as a unit of work, liveness and review see the rows, each those
columns it is about. They are therefore separate modules.

## 3. Modules and the code

### RWLock and StoreLock

`StoreLock` has `_registry` (per process: descriptor open, shared count,
exclusive count), the kernel's `flock` per process, and a phase per caller. A
caller is one `acquire`/`release` pair; `Home` says in which process it runs.
`Request`, `Acquire`, `GiveUp`, `Degrade` are the outcomes of `acquire`;
`Release` and `ReleaseNone` are `release`; `Die` is a killed process. Each
attempt runs under `_guard`, so it is one step. `RWLock` is the abstract lock:
readers, writers, and when each may come in.

Left out: threads waiting on `_guard`, and the length of the deadline (giving
up is possible whenever an attempt is refused).

### StoreSync

State: the database file's content (`db`), its `-wal`, whether that `-wal`
belongs to another database (`alien`), the dump, `.bak`, which of database and
dump has the later mtime (`lead`), the abstract lock, and per session the next
step, `_dump_stale`, `total_changes` and its watermark. A content is a set of
units of work. Steps, by function:

- `_restore_needed`, `auto_restore`: `OpenStore`, `BeginRestore`, `SkipRestore`, `EndRestore`;
- `restore_from_text`: `Backup`, `Build`, `Swap`, `Unlink` (and `Reread`, `TakeSwapLock`, `RestoreBusy` for `sync restore`);
- `MemoryStore.__init__`: `Probe`, `Connect`, `OpenFails`;
- transactions and SQLite's own checkpoint: `Commit`, `AutoCheckpoint`;
- the GUI's middleware: `ServeWrite`; `sync dump`: `SyncDump`; `close`: `Close`, `Disconnect`;
- `auto_dump`, `write_dump`: `Snapshot`, `ReplaceDump`, `Align`, `DumpFails`;
- environment: `Pull`, `Resolve` (git), `Crash`.

Choices worth knowing:

- The staging file's mtime is set when it is built, and the model's `Swap`
  builds and moves in one step; a pull in between leaves what a pull after the
  move leaves. `Align` merges `stat` and `utime`, `ReplaceDump` merges
  `write_text` and `replace` of a private staging file.
- A checkpoint is partial, or does nothing, when another connection reads
  (third disjunct of `Fold`).
- A session is in a process of its own. Two sessions of one process are what
  `StoreLock` is about.
- An MCP server exits without `close`: to this model, its end is a `Crash`.
- A command of `sync` writes nothing else in its session, as in `cli.py`.
- Left out: dump text found at the database's path, an empty database file,
  a clock with a coarse grain, `MEMORY_AUTO_SYNC=0`, `MEMORY_LOCK=0` and a
  degraded lock (`StoreLock` has the degradation; a store without a lock has
  none of the properties below, by design).

### Liveness

The name is the system's: a node is *live* if a root holds it. State: nodes,
`SCOPED_TO` edges, tier and archived flag per node, the latest lifecycle event
of each slice and entity, and per process the operation it is in with what it
has read. `sweep` is `BeginSweep` (the entities' statuses), `ReadActive` (the
active slices), `Mark` (root tiers and edges), `ReadRows` (the rows, compared
with the mark), `WriteSweep`. `create_change` is `CheckChange`, `MintChange`,
`OpenChange`: two transactions after a check. `capture_artifact` is
`CheckGoal`, `ReadScope`, `MintNote`; `capture_entity` is `CheckEntity`,
`MintEntity`. The privileged operations are one transaction each.

- The status is the latest event by the order of commits. The code sorts by
  `created_at`, which is stamped before the commit; where two rulings on one
  node race, either order is a possible outcome of both.
- A ruling that sets what is set already is a stuttering step; its guard
  leaves it out.
- `roots`, `retired` and `live` are forgotten after their last use. They are
  local variables, so nothing can tell.
- Edges other than `SCOPED_TO` are not followed by a sweep and are left out.
- `held` and `dead` are history: what one root has held, and what none has
  held, at every moment since a sweep began.

### Review

State: per node the journal, `needs_review`, `archived` and `trust_weight`;
per actor the operation it is in; the evaluator's cache; and `turn`, the
request that has the GUI's event loop. The journal is a sequence in the order
of `created_at`, where an entry appears when it is stamped and becomes visible
when it is committed. Agents: `Look`, `StampEvent`, `CommitEvent`. GUI:
`BeginClear`/`CommitClear` (clear_flag), `CheckFlagged`, `Reject`,
`BeginResolution`, `CommitResolution` (review_resolve), `BeginRuling`,
`SetTrust`, `SetArchived` (the journaled updates), `OpenReview`, `LookUp`,
`Answered`, `NoAnswer`, `CommitVerdict` (review_guidance). Trust:
`ReadJournal`/`WriteTrust` for one node, `ReadJournals`, `ReadWeights`,
`WriteBehind` for all, in the GUI or in `scripts/memory_lifecycle.py`.

- Requests of one GUI take turns: while one runs, no other does, and it hands
  over only where it awaits. Other processes come in between any two steps.
- Every event with a weight has weight 1.0 in this program, so the clamped sum
  is 0 or 1, and the severity a clearance mirrors is 1.0.
- The events of one resolution share one stamp and at most one of them has a
  weight; they are one entry.
- `counted` (what trust was folded from), `byHand` (trust was set since) and
  `about` (which state of the journal a verdict is about) are history.

### Graph, DumpText and Dump

`Graph` has the rows as the transactions of other processes change them:
nodes, flags, dormant nodes, edges, and the journal as a set of events. Each
action is one transaction: `Capture` (`write_atomic`), `Link`, `Contradict`,
`Clear`, `Supersede` (a resolution that archives), `DeleteEdge`, `SetArchived`.

`DumpText` is `serialization.py` and the text-mode `read_text` of its callers.
A line is a sequence of pieces with a carriage return between any two, and of a
piece matters whether it is empty, a rule of dashes with some backslashes, a
comment, a header, or anything else. `DumpAll` writes, `ReadText` does what
universal newlines do, `ParseDump` trims, splits and unescapes.

`Dump` reads the graph as `dump_pairs` does: `ListNodes`, then for each node
`ReadNode`, `ReadEdges`, `ReadEvents`, each a statement with its own snapshot,
then `Publish` or `GiveUpDump`. A clone restores: `StartRestore` (read, parse),
`RestoreNodes`, `RestoreEdges` (or the failure of a foreign key),
`RestoreEvents`, `SwapIn`, and `CrashRestore` between any two.

- The ids are read in any order; the code's order is by creation.
- `Text` gives each node the body it has, and the reason of what names it. A
  body's edits are not followed: it is read with its row, in one statement.
- The graphs of `GraphInit` have no flag, contradiction or edge from a node to
  itself; `MaxWrites` transactions then add them.
- A dump and a restore do not overlap here: what the file holds at a restore's
  reading is all that matters, and who may replace files when is `StoreSync`'s.

### Impact

`impact_of`, as `Ask` (the seed is read), `ReadDependencies` (the one join),
`Take` and `Look` (the queue, breadth first), `EndWalk`, `ReadReached` (each
node again), `Answer`. Between any two of these others commit transactions of
`Graph`. The result's sorting is left out: the answer is a set with distances.

### Doctor

`repair` as `BeginRepair` (staging files are deleted: `gone`), `DiagnoseDump`,
`DiagnoseDatabase`, `DiagnoseSidecars`, `FoldLeftover`, `Decide`, `Checkpoint`,
`CopyDatabase`, `ReadDump`, none of which holds the lock, and then the steps
`TakeSwapLock`, `Swap`, `Unlink`, `EndRestore` of `StoreSync`, which
`restore_from_text` shares with `sync restore`. `StagingIsGone` is the `replace`
of a session whose staging file was deleted; `KillRepair` a death.

- `diagnose` reads the database with several connections of its own; those
  reads are merged, one step for the dump, one for the database, one for the
  sidecars. That another database's `-wal` shows as damage is a possibility,
  not a rule.
- The journal-size finding and the report repair nothing and are left out.
- The ids of the nodes are compared, so work that made no node may not show.
- `kept` is history: what was readable when doctor folded the `-wal` in with
  nobody connected or rebuilding, and has been readable ever since.

## 4. Runs

`tlc -workers 2 -config <cfg> <module>`.

| run | module, cfg | states | shows |
|---|---|---|---|
| `store_lock` | MCStoreLock, MCStoreLock.cfg | 4 405 | exclusion, an exact registry, honest refusals, and refinement of `RWLock` |
| `sync_safety` | MCStoreSync, SyncSafety.cfg | 3.6 M | no swap under a connection, no foreign WAL, complete backups, undisturbed work stays |
| `sync_alone` | MCStoreSync, SyncAlone.cfg | 1 131 | a close publishes, and committed work is published in the end (liveness) |
| `liveness_safety` | MCLiveness, LivenessSafety.cfg | 1.06 M | sweeps archive and revive rightly beside captures and rulings |
| `review` | MCReview, ReviewSafety.cfg | 2.4 M | flag, trust and verdicts against the journal |
| `dump` | MCDump, Dump.cfg | 793 571 | what a dump leaves out and still explains, that it comes back, and restores: whole, and of what was dumped |
| `impact` | MCImpact, Impact.cfg | 265 278 | the walk ends with shortest distances; an undisturbed answer is about one database |
| `doctor` | MCDoctor, Doctor.cfg | 4.0 M | a repair is alone with the files, and copies what it takes out |
| `sync_crash`, `sync_two_closers` | MCStoreSync, SyncCrash.cfg, SyncTwoClosers.cfg | – | two sentences about mtimes that the code does not keep (section 7) |
| `dump_text` | MCDump, DumpReturns.cfg | – | a body that does not come back (section 7) |
| `doctor_unforced` | MCDoctor, DoctorUnforced.cfg | – | a repair without `--force` that takes committed work out (section 7) |

Five more configurations, for divergences of section 7, are run by hand; each
ends with a counterexample to its one property.

Bounds, and why they are enough:

- `store_lock`: three processes, two with two callers. Conflicts are between a
  caller and another of its process, or one of another process; a third process
  lets a refused one meet two kinds of holder. No counter is bounded.
- `sync_safety`: a GUI (which dumps while open) and a command line session,
  two units of local work, one pulled unit, `MaxFaults = 2`, `MaxCommands = 1`.
  A race here needs one session that swaps, dumps or closes and one that opens;
  two faults are what it takes to break a `sync restore` that follows a crash,
  and the one bounded exception in `WalBelongsToDatabase` does occur. Units are
  symmetric.
- `sync_alone`: one session, two faults; see fairness. One session is what
  `ClosedMeansPublished` is about: sessions that take turns. The theorem has any
  number of them.
- `liveness_safety`: one agent, one GUI, one sweeper, one change with its goal,
  one note, one entity, tiers `short-term` and `long-term`, `MaxCrashes = 1`.
  Rulings are the GUI's and sweeps the script's; in the code each can do both,
  and the theorems cover that, and any number of sweeps at once. `mid-term`
  behaves like `short-term`, and `lifetime` like `long-term`.
- `review`: one node (no property relates two), one agent, two requests,
  `MaxEvents = 4`, `MaxCrashes = 1`. A third verdict on one state of the
  journal needs a contradiction and three verdicts: four entries.
- `dump`: every graph of two nodes that `GraphInit` allows, `MaxWrites = 2`,
  `MaxDumps = 1`, `MaxRestores = 2`. A dump goes wrong over a node it has read
  and one it has not, and over two statements about one node: two nodes have
  both. Two transactions put something in and take it out again. A second
  restore meets the first one's leftovers. The texts have a rule of dashes, an
  escaped rule, and a rule before an empty line.
  A clone is compared with what was dumped (`CloneIsWhatWasDumped`), so escape,
  parse and restore are checked as one way there and back.
- `impact`: every graph of three nodes, so every cycle of two and three and two
  paths of different length; `MaxWrites = 1`, `MaxAsks = 1`. A call keeps
  nothing for the next one.
- `doctor`: two sessions and a repair, forced or not, one unit of local and one
  of pulled work, `MaxFaults = 1`, `MaxRepairs = 1`, `MaxCommands = 0`, and no
  session that dumps while open (`Servers = {}`; `SyncDump` and the GUI's dump
  race as the dumps of two closers do). A repair goes wrong over a session that
  gets the lock before it, and a second that opens or dumps meanwhile. One
  repair at a time; sessions are symmetric.

In `dump` and `impact` no node is an anchor (a slice or a facet), as an anchor
is only left out of an impact; the proofs are for any set of anchors.

Fairness. Safety runs use `Spec`. `WorkIsPublished` is checked under `BusySpec`:
weak fairness of `Progress(s)`, because code that has begun to open or close
runs on, and of `OpenStore` and `Close`, which says that somebody goes on using
the store. Nothing forces a commit, a pull or a fault, and the faults are
bounded, since a dump that always fails is never written. The property needs
one session: with two that dump at once the older snapshot may land last
(`sync_two_closers`) and nothing repairs it until the next write. `WalkEnds` is
checked under `FairImpactSpec`: weak fairness of the walk's own steps, because a
call that began runs on. Nothing forces a call, and others may write as often
as the bound lets them.

Every property of a passing run has a mutant in `PROJECT.json`: an operator
`Mut...`, defined beside the one it stands for, that makes a plausible mistake
(a check outside the lock, a missing checkpoint, a statement out of its
transaction), under which TLC finds the property violated. No specification
refers to them.

## 5. Proofs

`tlapm M.tla`, for each of the eight modules whose name ends in `Proofs`. They
assume only what the modules' `ASSUME`s say:
`CallersAssumption` (finitely many callers, each with a process),
`SyncAssumption` (local and pulled work are disjoint, `NoFile` is not a file),
`LivenessAssumption` (ids of different kinds are disjoint, each change has a
goal of its own), `ReviewAssumption` (agents, requests and scripts are
different, requests finitely many, the bounds are numbers). Two theorems of
`ReviewProofs` also assume, in their statement, that no script recomputes.
`GraphAssumption`, `DumpAssumption`, `ImpactAssumption` and `DoctorAssumption`
say that the bounds are numbers, that anchors are nodes, and that the process
that repairs is a session and not a server; nothing says that the nodes are
finitely many, and the three theorems that need that, or texts of a certain kind,
say so in their statement.

A theorem whose hypothesis is `[]` of a state predicate, or `[][...]_vars` of an
action, is about those behaviours of the same specification in which the users do
what the code does not see to: take turns, say. Each of these hypotheses was
given to TLC as a constraint first, to see that the interesting states are still
reached. They say where the sentences of section 7 hold after all.

**StoreLock.** The invariant adds to exclusion and the exact registry what
callers' counts are: cardinalities, which `CountJoin` and `CountLeave` follow
through a step. From it: mutual exclusion, the registry, `RefusedIffConflict`,
and that each step is a step of `RWLock` or a stutter (`Implementation`), for
any number of processes and callers.

**StoreSync.** `NoOrphanedConnection` is not inductive: it holds because a
rebuilder is alone, and it is alone because the lock matches the phase. So
`Core` is `TypeOK`, `LockMatchesPhase`, `NoOrphanedConnection` and
`RebuildOwnsFiles`; Lemma `Alone` turns the lock into "no other session has a
connection or is rebuilding"; `RebuildOwnsFiles` then says that what was folded
in and copied is still what is there at the swap. `IInv` adds the bookkeeping of
when a `-wal` may outlive a crash (`WalAccounted`) and of who leaves for what
(`CommandsCounted`); from it come `WalBelongsToDatabase` and
`RestoreKeepsBackup`. `Core` stands alone because `Doctor` keeps it too.

- `RestoredWork` adds `SnapshotIsCurrent`: what a session has read of upstream
  work and has yet to write into the dump is all that the database holds of it.
  Upstream work gets into the database, and out of it, by a rebuild only, and a
  rebuild waits for every session that dumps.
- `UndisturbedWork` adds `UndisturbedInv`, guarded by "no fault, no pull, no
  command": the dump of a database that is there is the newer file only while
  the session that wrote it has yet to align the two, and that session holds the
  lock; so every rebuild is of a database that is not there, and then nothing
  was committed. No pending dump has to be spoken of.
- `SessionsUseTheLock`: each step is a step of `RWLock` or changes nothing of it,
  so `StoreLock`, which implements `RWLock`, is a lock these sessions may use.
- Sessions that take turns (`InTurn`: at most one is not idle). `TurnInv` says,
  while nothing failed, that the database has all that was committed and the dump
  all the database has, except while the one session owes a dump. Pulls and
  commands are allowed. From it `TurnsPublish` (`ClosedMeansPublished`) and
  `TurnsAreEvidence`: both sentences about mtimes that section 7 refutes hold for
  sessions in turn, and each of the two refutations needs what the theorem
  excludes, a fault in one and a second session in the other.
- `TurnsKeepPulledWork` also has git pull between sessions only (`GitWaits`) and
  at most one fault. `PulledInv` is a disjunction along the rebuild: upstream work
  of the dump is in the database, or the next opening will rebuild
  (`RestoreNeeded`), or a rebuild is at it. With two faults it is false (section 7).

**Liveness.** A sweep decides from four snapshots, so nothing about one state
helps. `Facts(p)` says for each phase what the sweep of `p` has learnt about
pairs that stayed held and nodes that stayed unheld: after the first read, that
every unretired entity held so far is among the roots, and so on up to the rows.
Other processes' steps leave the facts alone (`StepsAside`): they do not touch
the sweep's variables, what they take away leaves `held` too, and an edge drawn
later ends in a node minted later (`MintInv`: ids in use are not fresh). The
theorems are `SteadySurvive`, `DeadStayDead` and `Opened`, for any number of
agents, rulers and concurrent sweeps.

- `NamesAreOneInTurn`: while no two processes are between look-up and transaction
  (`NamedInTurn`), the name that was free stays free (`NameInv`), for `NameStep`
  sorts the steps into one that looks up, one that mints what it looked up, and
  those that mint no entity.
- `SweepsSpareEntities`: an entity that is not retired is a root, and holds itself.
  If none stands up while a sweep runs (`NoneStandsUp`), those there are have been
  held since it began (`StandingInv`), and the facts of the sweep do the rest. So
  the one way a sweep archives such an entity is item 5 of section 7.

**Review.** `BaseInv` is `TypeOK` with `DraftInv`: an operation that is about to
commit has an event of its own in the journal, not committed, of a kind that
fits the operation. Without it a commit could be of somebody else's event, or
of none. Lemma `JournalSteps` then sorts every step into one that stamps, one
that commits (and does to the flag what the committed event says), and one that
leaves both alone; `FlagAndJournal` follows, and `ResolutionFoldsAll` with it.

- `TrustDerived` and `NeverGoesBack` add `DerivedInv`: a request that is not
  awaiting has the event loop (`TurnInv`); what was read and what was counted is
  committed (`SeenInv`); and a fold under way has read at least what trust is
  folded from, and the weights as they are (`FoldOK`). The last is why nothing
  that moves trust may come between the read and the write, and why the
  theorems exclude a second recomputing process.
- `NoFlood` adds `FloodInv`: the verdicts about one state of a node's journal
  and the requests that ask about it are together within the bound, and where
  nothing is cached the verdicts alone are within the bound of the restarts
  before. The property alone is not inductive: it says nothing of those that
  will still answer.
- `GuidanceSeesItsKey`: where nothing is journaled about its node between the two
  reads of a review (`ReadsAgree`), what it has read is all that is committed when
  it computes its key, which is one of these (`SawInv`, `NewestExists`). Answers
  that come late, verdicts, rulings and restarts do not matter.

**Dump.** `GraphProofs` shows what every transaction keeps: the foreign keys, a
raising event for every flag, an archiving event for every dormant node, and
that nothing leaves the journal (`Grows`). `DumpInv` says what the statements
read so far have in common with the database now: a node's flag has its event
in the journal now, hence in what `ReadEvents` will read, because the node is
read first; an edge that was there at the beginning is in what was read, or its
removal is in the journal by then, because the edges are read before the events.
The order of the three reads is the whole argument, and a mutant that changes it
fails. `QuietDump` and `RestoreWhole` follow the tables through. That every
escaped line is no separator, and unescapes to itself, is proved for every line
(`EscapedIsNoSeparator`, `UnescapeUndoesEscape`).

`DumpReturns` is the whole text, of any length: what is parsed is what was dumped.
Its hypotheses are that the nodes are finitely many, or there is no file to write,
and that no body and no reason has a carriage return in it (`TextIsPlain`). The
texts of Dump.cfg satisfy it; those of DumpReturns.cfg do not, and there TLC has
the counterexample (section 7). The proof takes the text apart block by block. No
block holds a separator, so the separators of the file are those `DumpAll` wrote
(`BlocksRead`); trimming, the comments on top and the join of a body's lines are
followed for one block, and the sequence of blocks by induction on its length.
The provers have no induction over data, but it can be had for one set at a time:
`Least` takes from the library that a nonempty set of naturals has a least
element, and `Induct` is about a set that contains 0 and, with each number, the
next. Both are stated for a set, not for an operator. `DumpRoundTrip` and what is
before it then say of each step, as a set of numbers, for which lengths it holds.
For the file to be that text, `FileIsOfPublished` follows it through the dump, with
one pair for each node (`Tidy`). `CloneIsDumped` puts the restore behind it: the
database a clone swaps in is the one dumped.

**Impact.** The invariant of a breadth-first search: distances along the queue
do not decrease and span at most one (`queue` ends at most one further than the
node it is at); every node reached and not queued or pending has all its
dependents reached, at most one further; every node but the seed has one it was
reached from. At the end the queue is empty, and `Distances` is what is left.
`WalkFindsShortestWays` says what `Distances` means: a node is listed if and only if
some way of dependencies (`Away`) leads back to the seed from it, at the length of
a shortest one. That it is one way is by induction on the distance, that none is
shorter by induction on the way. `WalkCountsDown` is what termination rests on,
with cycles too: the phase of the call, then the nodes not yet looked at, then those
pending count down with every step of the walk, and others' transactions leave
all three alone.

**Doctor.** What the repair does without the lock disturbs nothing that rests on
it: it opens a connection only to checkpoint, writes only `.bak`, and reads. So
`Core` holds (`StoreStepKeeps` for the sessions, one lemma for each unlocked
step), and with it `RepairAlone` and, for the sessions beside a repair,
`DoctorDisturbsNobody`; `DoctorUsesTheLock` is `SessionsUseTheLock` for both.
The copy is made before the lock is held, and is complete all the same for what nobody had open: what was in the database
file is never again in the `-wal` (`KeptIsCopied`, on `LocalWork`), so if a
session comes first and rebuilds, the `.bak` it writes has that work too, or its
database has. `RepairsInTurnKeepWork` is about a repair that begins while nobody has
the store open and has it to itself up to its rebuild (`RepairInTurn`): there is no
staging file to delete, and the dump it reads has all of the database, so what it
rebuilds has, while nothing failed, all that was committed. With `--force` or without:
item 9 of section 7 takes a session beside it.

## 6. Only model-checked

- `WorkIsPublished`, `WalkEnds` and everything under fairness: liveness and
  `ENABLED` are out of the prover's reach. What each rests on is proved:
  `TurnsPublish`, and the variant `WalkCountsDown`. What is not is that the next
  step is enabled and taken.

All other properties of the passing runs are theorems, `DumpComesBack` and
`CloneIsWhatWasDumped` for texts with no carriage return, `ClosedMeansPublished` for
sessions in turn, and those of recomputed trust where no script recomputes. A
carriage return that does no harm, with no rule of dashes before it, is neither
proved nor checked to come back.

## 7. Where code and documentation part

Each is a run TLC ends with a counterexample. Runs with a name are in
`PROJECT.json`, which quotes the line; the others are run by hand.

1. `sync_crash`: "a database with un-dumped work is always the newer file". In
   WAL mode a commit does not touch the database file; after a crash the mtimes
   can be equal, and the next pull rebuilds the database without that work. It
   is in `.bak`.
2. `sync_two_closers`: "equal mtimes mean in sync". Of two sessions that dump
   at once, the older snapshot can be moved last.
3. `PulledWorkStaysInDump` (MCStoreSync, SyncPull.cfg): "a `git pull` that moves
   the dump ahead is picked up when the GUI stops". The GUI's own dump overwrites it.
   Sessions in turn and pulls between them keep it across one fault, and not across
   two: a session that dies leaves a `-wal`; after a pull, the next opening's backup
   folds it in, which makes the database the newer file, and dies before its swap;
   the one after that sees no newer dump, and its close dumps over the pulled work.
4. `RestoreLeavesTheDump` (MCStoreSync, SyncRestore.cfg): `sync restore` discards
   local writes. If it finds undumped ones its own close dumps them first, and it
   restores those.
5. `EntitiesSurviveSweep` (MCLiveness, SweepEntities.cfg): an entity "survives every
   sweep". One captured during a sweep, or taken back from retirement, may be
   archived by it; the next sweep brings it back. There is no other way
   (`SweepsSpareEntities`).
6. `EntityNamesAreOne` (MCLiveness, EntityNames.cfg): capturing a name twice returns
   the first node. Two agents at once mint it twice. One at a time do not
   (`NamesAreOneInTurn`).
7. `GuidanceSawItsKey` (MCReview, ReviewGuidance.cfg): guidance is cached against the
   latest event. One that is committed between the two reads of the journal is in
   the key and was not shown to the model. Nothing else does that
   (`GuidanceSeesItsKey`).
8. `dump_text`: a body comes back from a dump whatever line ends it has. A line
   of dashes that ends in carriage return and newline is not escaped, is read in
   text mode as a line of dashes, and cuts the body in two; what follows it is lost.
9. `doctor_unforced`: a rebuild of a readable database with un-dumped work needs
   `--force`. Which file is the newer is read from mtimes while a session's
   commits are in the `-wal`, and not again once the lock is granted. The work
   is in the `.bak` only if it was committed before doctor's copy.

Limits of what holds, seen while modelling and not in the documentation:

- A dump that others write during may have an edge to a node that it does not
  list: one captured after the ids were read, and linked to before its target's
  edges were. `DumpIsClosed` says otherwise and does not hold. `RestoreIsWhole`
  says what then happens: the restore is refused and the database stays. The
  next dump of the same store lists the node.
- What a session commits between doctor's copy and doctor's lock is in neither
  the `.bak` nor, after the rebuild, the database. `RepairCopiesFirst` is about
  what was there to copy and nobody had open.
- doctor's checkpoint runs without the lock: closing its connection after
  another process has swapped the database may fold or delete a `-wal` that is
  not the one it opened. SQLite's behaviour there is not modelled; the model's
  checkpoint is one step.
- A rebuild on opening folds a leftover `-wal` in before it parses the dump. If
  the parse then fails (a pull with a conflict), the database is the newer file
  from then on, and the next close writes its dump over the conflicted one.
- `UndisturbedWorkStays` excludes commands: a `sync dump` that races a closing
  session can leave the dump newer and without the session's last work, which
  the next opening then takes out of the database (and puts in `.bak`).
- `RecomputeNeverGoesBack` is about one recomputing process. With
  `Scripts = {cli}` beside the GUI, two recomputes that overlap may land in the
  other order, and trust then counts fewer events than before.
- `SteadyRootsSurvive` asks for one root that holds the node throughout. A node
  handed from one root to another during a sweep can be archived by it.

## 8. Not modelled

Recall's ranking (floating point, reads only, nothing of it kept) and
`consolidation_candidates`, a read that compares embeddings; the penalty and the
resolver ladder, pure functions of one node and its events whose verdict the
review queue shows and nothing acts on (step 8 of the plan); prompts and wording; migrations (one transaction when a
store is opened); the browser's code, whose requests are the GUI's actions; the
benchmark.

Of what is modelled: the header fields and timestamps of a dump are one value;
the staging file of a dump is private to its process and so never seen; a
database at the dump's path, an empty file and the two switches that turn sync
and lock off are left out (section 3).
