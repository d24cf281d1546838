------------------------------ MODULE Liveness ------------------------------
(***************************************************************************)
(* What is live in the memory graph, and the mark-sweep that archives the  *)
(* rest: sweep and the slice, entity, tier and archive operations of       *)
(* storage.py, with the agent operations of agent_surface.py that mint     *)
(* what a sweep decides about.                                             *)
(*                                                                         *)
(* Processes share the database.  A write is one transaction; the reads an *)
(* operation makes before it are separate statements, each its own         *)
(* snapshot, so every read is a step of its own.  The status of a slice or *)
(* entity is its latest lifecycle event, so only that event is kept.       *)
(* SCOPED_TO is the one edge a sweep follows; the agent surface draws it   *)
(* only from a slice to a goal or note that is being minted, so what a     *)
(* root reaches it reaches in one step.                                    *)
(***************************************************************************)
EXTENDS Naturals, FiniteSets

CONSTANTS Agents,      \* processes that serve the agent surface
          Humans,      \* processes somebody rules on nodes in: GUI, lifecycle CLI
          Sweepers,    \* processes somebody runs a sweep in: the same, or some of them
          Slices,      \* ids create_change may mint for its change
          Goals,       \* and for the goal that goes with it
          GoalOf,
          Notes,       \* ids of captured and consolidated artifacts
          Entities,    \* ids of domain entities
          Path,        \* the path of each slice and entity, from its name
          Tiers,       \* the tiers in use
          None,
          MaxCrashes   \* bound: processes killed in a behaviour

Processes == Agents \cup Humans \cup Sweepers
Content   == Goals \cup Notes \cup Entities

RootTiers     == {"long-term", "lifetime"}
CreationTiers == {"short-term", "mid-term"} \cap Tiers

Lifecycle == {"slice_activated", "slice_deactivated",
              "entity_proposed", "entity_confirmed", "entity_retired"}

ASSUME LivenessAssumption ==
    /\ Slices \cap Content = {} /\ Goals \cap Notes = {}
    /\ Entities \cap (Goals \cup Notes) = {}
    /\ GoalOf \in [Slices -> Goals]
    /\ \A c, d \in Slices : GoalOf[c] = GoalOf[d] => c = d
    /\ None \notin Slices \cup Content \cup Lifecycle
    /\ {"short-term"} \subseteq Tiers
    /\ Tiers \subseteq RootTiers \cup {"short-term", "mid-term"}
    /\ MaxCrashes \in Nat

VARIABLES nodes,       \* the ids that are in the database
          scoped,      \* the SCOPED_TO edges
          tier,        \* of each content node
          archived,    \* the content nodes that are archived
          latest       \* latest lifecycle event of each slice and entity
graph == <<nodes, scoped, tier, archived, latest>>

VARIABLES pc,          \* per process, the next step of the operation it is in
          minting,     \* the node that operation is going to mint
          goal,        \* the goal it is captured for
          under        \* the slices it is to be scoped to
capture == <<minting, goal, under>>

VARIABLES retired,     \* what a sweep has read: the retired entities,
          roots,       \* the roots by id,
          live,        \* what it marked,
          archives,    \* and the rows it is to write, those to archive
          revives      \* and those to reactivate
sweep == <<retired, roots, live, archives, revives>>

VARIABLES held,        \* history: pairs of a root and a node it holds, so far
                       \* for as long as the process's sweep runs
          dead,        \* history: nodes no root has held for as long
          crashes
history == <<held, dead>>

vars == <<graph, pc, capture, sweep, history, crashes>>

Sweeping  == {"active", "mark", "rows", "write"}
Capturing == {"mint-change", "open-change", "scope", "mint-note", "mint-entity"}

TypeOK ==
    /\ nodes \subseteq Slices \cup Content
    /\ scoped \subseteq (Slices \cap nodes) \X ((Goals \cup Notes) \cap nodes)
    /\ tier \in [Content -> Tiers]
    /\ archived \subseteq Content \cap nodes
    /\ latest \in [Slices \cup Entities -> Lifecycle \cup {None}]
    /\ pc \in [Processes -> {"idle"} \cup Sweeping \cup Capturing]
    /\ minting \in [Processes -> Slices \cup Content \cup {None}]
    /\ goal \in [Processes -> Goals \cup {None}]
    /\ under \in [Processes -> SUBSET (Slices \cap nodes)]
    /\ retired \in [Processes -> SUBSET Entities]
    /\ roots \in [Processes -> SUBSET (Slices \cup Entities)]
    /\ live \in [Processes -> SUBSET (Slices \cup Content)]
    /\ archives \in [Processes -> SUBSET (Content \cap nodes)]
    /\ revives \in [Processes -> SUBSET (Content \cap nodes)]
    /\ held \in [Processes -> SUBSET (nodes \X Content)]
    /\ dead \in [Processes -> SUBSET (Content \cap nodes)]
    /\ crashes \in 0..MaxCrashes

\* A new store.
Init ==
    /\ nodes = {} /\ scoped = {} /\ archived = {}
    /\ tier = [n \in Content |-> "short-term"]
    /\ latest = [x \in Slices \cup Entities |-> None]
    /\ pc = [p \in Processes |-> "idle"]
    /\ minting = [p \in Processes |-> None]
    /\ goal = [p \in Processes |-> None]
    /\ under = [p \in Processes |-> {}]
    /\ retired = [p \in Processes |-> {}]
    /\ roots = [p \in Processes |-> {}]
    /\ live = [p \in Processes |-> {}]
    /\ archives = [p \in Processes |-> {}]
    /\ revives = [p \in Processes |-> {}]
    /\ held = [p \in Processes |-> {}]
    /\ dead = [p \in Processes |-> {}]
    /\ crashes = 0
-----------------------------------------------------------------------------
(* What is live now.                                                       *)

Active  == {c \in Slices \cap nodes : latest[c] = "slice_activated"}
Retired == {e \in Entities \cap nodes : latest[e] = "entity_retired"}
Promoted == {n \in Content \cap nodes : tier[n] \in RootTiers}

\* The root set: active slices, every entity that is not retired, and what was
\* promoted to a root tier, unless it is a retired entity.
Roots == Active \cup ((Entities \cap nodes) \ Retired) \cup (Promoted \ Retired)

\* The roots, and what is scoped to them.
Holds == {<<n, n>> : n \in Roots \cap Content}
             \cup {edge \in scoped : edge[1] \in Roots}

\* The content nodes no root holds.
Unheld == {n \in Content \cap nodes : \A h \in Holds : h[2] # n}

\* The history of what stayed held, and what stayed unheld, since p began to sweep.
Track ==
    /\ held' = [p \in Processes |->
                  IF pc'[p] \notin Sweeping THEN {}
                  ELSE IF pc[p] = "idle" THEN Holds' ELSE held[p] \cap Holds']
    /\ dead' = [p \in Processes |->
                  IF pc'[p] \notin Sweeping THEN {}
                  ELSE IF pc[p] = "idle" THEN Unheld' ELSE dead[p] \cap Unheld']

Step(p, from, to) == pc[p] = from /\ pc' = [pc EXCEPT ![p] = to]

\* Ids are fresh uuids.
Fresh(n) == n \notin nodes /\ \A p \in Processes : minting[p] # n

\* No node of the kind has the path n is to have.
PathIsFree(n, kind) == \A m \in kind \cap nodes : Path[m] # Path[n]

\* What the operation of p goes on with, and what it leaves behind.
Plan(p, n, g, slices) ==
    /\ minting' = [minting EXCEPT ![p] = n]
    /\ goal' = [goal EXCEPT ![p] = g]
    /\ under' = [under EXCEPT ![p] = slices]

Done(p) == Plan(p, None, None, {})
-----------------------------------------------------------------------------
(* The agent surface.                                                      *)

\* create_change: look the path up,
CheckChange(p, c) ==
    /\ p \in Agents
    /\ Step(p, "idle", "mint-change")
    /\ Fresh(c) /\ PathIsFree(c, Slices)
    /\ Plan(p, c, None, {})
    /\ UNCHANGED <<graph, sweep, crashes>>
    /\ Track

MutChangeStaysClosed(p) ==
    /\ Step(p, "mint-change", "idle")
    /\ nodes' = nodes \cup {minting[p], GoalOf[minting[p]]}
    /\ scoped' = scoped \cup {<<minting[p], GoalOf[minting[p]]>>}
    /\ Done(p)
    /\ UNCHANGED <<tier, archived, latest, sweep, crashes>>
    /\ Track

\* write the change, its goal and the edge between them,
MintChange(p) ==
    /\ Step(p, "mint-change", "open-change")
    /\ nodes' = nodes \cup {minting[p], GoalOf[minting[p]]}
    /\ scoped' = scoped \cup {<<minting[p], GoalOf[minting[p]]>>}
    /\ UNCHANGED <<tier, archived, latest, capture, sweep, crashes>>
    /\ Track

\* and activate it, in a transaction of its own.
OpenChange(p) ==
    /\ Step(p, "open-change", "idle")
    /\ latest' = [latest EXCEPT ![minting[p]] = "slice_activated"]
    /\ Done(p)
    /\ UNCHANGED <<nodes, scoped, tier, archived, sweep, crashes>>
    /\ Track

\* capture_artifact, on the agent surface or the GUI's: the goal is there and not
\* archived,
CheckGoal(p, g, n) ==
    /\ p \in Agents \cup Humans
    /\ Step(p, "idle", "scope")
    /\ g \in nodes \ archived
    /\ Fresh(n)
    /\ Plan(p, n, g, {})
    /\ UNCHANGED <<graph, sweep, crashes>>
    /\ Track

\* its scope is read,
ReadScope(p) ==
    /\ Step(p, "scope", "mint-note")
    /\ Plan(p, minting[p], goal[p], {c \in Slices : <<c, goal[p]>> \in scoped})
    /\ UNCHANGED <<graph, sweep, crashes>>
    /\ Track

MutEdgeBeforeNode(p, t) ==
    /\ t \in CreationTiers
    /\ Step(p, "mint-note", "idle")
    /\ tier' = [tier EXCEPT ![minting[p]] = t]
    /\ scoped' = scoped \cup (under[p] \X {minting[p]})
    /\ Done(p)
    /\ UNCHANGED <<nodes, archived, latest, sweep, crashes>>
    /\ Track

\* and the artifact is written with its edges.
MintNote(p, t) ==
    /\ t \in CreationTiers
    /\ Step(p, "mint-note", "idle")
    /\ nodes' = nodes \cup {minting[p]}
    /\ tier' = [tier EXCEPT ![minting[p]] = t]
    /\ scoped' = scoped \cup (under[p] \X {minting[p]})
    /\ Done(p)
    /\ UNCHANGED <<archived, latest, sweep, crashes>>
    /\ Track

\* capture_entity: the goal as above, and the path, which is the name, is free.  A
\* path that is free when it is looked up was free when the goal was, so the two
\* reads are one step.
CheckEntity(p, g, e) ==
    /\ p \in Agents
    /\ Step(p, "idle", "mint-entity")
    /\ g \in nodes \ archived
    /\ Fresh(e) /\ PathIsFree(e, Entities)
    /\ Plan(p, e, g, {})
    /\ UNCHANGED <<graph, sweep, crashes>>
    /\ Track

\* An entity is proposed, short-term and without a scope.
MintEntity(p) ==
    /\ Step(p, "mint-entity", "idle")
    /\ nodes' = nodes \cup {minting[p]}
    /\ latest' = [latest EXCEPT ![minting[p]] = "entity_proposed"]
    /\ Done(p)
    /\ UNCHANGED <<scoped, tier, archived, sweep, crashes>>
    /\ Track
-----------------------------------------------------------------------------
(* The privileged surface: operations of one transaction.  One that sets    *)
(* what is set already is a stuttering step, and no guard needs to allow it.*)

Ruling(p) ==
    /\ p \in Humans /\ pc[p] = "idle"
    /\ UNCHANGED <<pc, capture, sweep, crashes>>

\* activate_slice, deactivate_slice, confirm_entity, retire_entity
Journal(p, x, event) ==
    /\ x \in nodes
    /\ x \in Slices <=> event \in {"slice_activated", "slice_deactivated"}
    /\ event \notin {"entity_proposed", latest[x]}
    /\ latest' = [latest EXCEPT ![x] = event]
    /\ Ruling(p)
    /\ UNCHANGED <<nodes, scoped, tier, archived>>
    /\ Track

SetTier(p, n, t) ==
    /\ n \in nodes /\ tier[n] # t
    /\ tier' = [tier EXCEPT ![n] = t]
    /\ Ruling(p)
    /\ UNCHANGED <<nodes, scoped, archived, latest>>
    /\ Track

\* set_archived; a review that rules a node wrong or superseded archives it too.
SetArchived(p, n, flag) ==
    /\ n \in nodes /\ (n \in archived) # flag
    /\ archived' = IF flag THEN archived \cup {n} ELSE archived \ {n}
    /\ Ruling(p)
    /\ UNCHANGED <<nodes, scoped, tier, latest>>
    /\ Track

\* consolidate: an abstraction over two or more content nodes, without a scope.
\* Nothing it read can go away before its transaction.
Consolidate(p, n, t) ==
    /\ Cardinality(Content \cap nodes) > 1
    /\ Fresh(n)
    /\ nodes' = nodes \cup {n}
    /\ tier' = [tier EXCEPT ![n] = t]
    /\ Ruling(p)
    /\ UNCHANGED <<scoped, archived, latest>>
    /\ Track

DeleteEdge(p, edge) ==
    /\ edge \in scoped
    /\ scoped' = scoped \ {edge}
    /\ Ruling(p)
    /\ UNCHANGED <<nodes, tier, archived, latest>>
    /\ Track
-----------------------------------------------------------------------------
(* sweep: four reads, then one transaction.                                *)

MutOnlyConfirmedAreRoots(p) ==
    /\ p \in Sweepers
    /\ Step(p, "idle", "active")
    /\ retired' = [retired EXCEPT ![p] = Retired]
    /\ roots' = [roots EXCEPT ![p] =
                    {e \in Entities \cap nodes : latest[e] = "entity_confirmed"}]
    /\ UNCHANGED <<graph, capture, live, archives, revives, crashes>>
    /\ Track

\* Fold every entity's status.
BeginSweep(p) ==
    /\ p \in Sweepers
    /\ Step(p, "idle", "active")
    /\ retired' = [retired EXCEPT ![p] = Retired]
    /\ roots' = [roots EXCEPT ![p] = (Entities \cap nodes) \ Retired]
    /\ UNCHANGED <<graph, capture, live, archives, revives, crashes>>
    /\ Track

MutEverySliceIsActive(p) ==
    /\ Step(p, "active", "mark")
    /\ roots' = [roots EXCEPT ![p] = @ \cup (Slices \cap nodes)]
    /\ UNCHANGED <<graph, capture, retired, live, archives, revives, crashes>>
    /\ Track

\* Fold every slice's status.
ReadActive(p) ==
    /\ Step(p, "active", "mark")
    /\ roots' = [roots EXCEPT ![p] = @ \cup Active]
    /\ UNCHANGED <<graph, capture, retired, live, archives, revives, crashes>>
    /\ Track

MutTierOutranksRetirement(p) ==
    LET rooted == Promoted \cup (roots[p] \cap nodes)
    IN
    /\ Step(p, "mark", "rows")
    /\ live' = [live EXCEPT ![p] =
                   rooted \cup {n \in Content : \E r \in rooted : <<r, n>> \in scoped}]
    /\ retired' = [retired EXCEPT ![p] = {}]
    /\ roots' = [roots EXCEPT ![p] = {}]
    /\ UNCHANGED <<graph, capture, archives, revives, crashes>>
    /\ Track

\* The root tiers are read here, in the statement that follows the edges.  Nothing
\* reads the roots after it, so they are forgotten.
Mark(p) ==
    LET rooted == (Promoted \ retired[p]) \cup (roots[p] \cap nodes)
    IN
    /\ Step(p, "mark", "rows")
    /\ live' = [live EXCEPT ![p] =
                   rooted \cup {n \in Content : \E r \in rooted : <<r, n>> \in scoped}]
    /\ retired' = [retired EXCEPT ![p] = {}]
    /\ roots' = [roots EXCEPT ![p] = {}]
    /\ UNCHANGED <<graph, capture, archives, revives, crashes>>
    /\ Track

\* The rows, by their archived flag, are compared with what was marked.
ReadRows(p) ==
    /\ Step(p, "rows", "write")
    /\ archives' = [archives EXCEPT ![p] = ((Content \cap nodes) \ archived) \ live[p]]
    /\ revives' = [revives EXCEPT ![p] = archived \cap live[p]]
    /\ live' = [live EXCEPT ![p] = {}]
    /\ UNCHANGED <<graph, capture, retired, roots, crashes>>
    /\ Track

Forget(p) ==
    /\ retired' = [retired EXCEPT ![p] = {}]
    /\ roots' = [roots EXCEPT ![p] = {}]
    /\ live' = [live EXCEPT ![p] = {}]
    /\ archives' = [archives EXCEPT ![p] = {}]
    /\ revives' = [revives EXCEPT ![p] = {}]

\* One transaction writes every difference.
WriteSweep(p) ==
    /\ Step(p, "write", "idle")
    /\ archived' = (archived \cup archives[p]) \ revives[p]
    /\ Forget(p)
    /\ UNCHANGED <<nodes, scoped, tier, latest, capture, crashes>>
    /\ Track
-----------------------------------------------------------------------------
\* A process is killed in an operation: what it committed stays.
Crash(p) ==
    /\ pc[p] # "idle"
    /\ crashes < MaxCrashes
    /\ crashes' = crashes + 1
    /\ pc' = [pc EXCEPT ![p] = "idle"]
    /\ Done(p) /\ Forget(p)
    /\ UNCHANGED graph
    /\ Track

\* The steps of a process.
Operation(p) ==
    \/ \E c \in Slices : CheckChange(p, c)
    \/ MintChange(p) \/ OpenChange(p)
    \/ \E g \in Goals, n \in Notes : CheckGoal(p, g, n)
    \/ ReadScope(p)
    \/ \E t \in Tiers : MintNote(p, t)
    \/ \E g \in Goals, e \in Entities : CheckEntity(p, g, e)
    \/ MintEntity(p)
    \/ \E x \in Slices \cup Entities, event \in Lifecycle : Journal(p, x, event)
    \/ \E n \in Content, t \in Tiers : SetTier(p, n, t)
    \/ \E n \in Content, flag \in BOOLEAN : SetArchived(p, n, flag)
    \/ \E n \in Notes, t \in Tiers : Consolidate(p, n, t)
    \/ \E edge \in scoped : DeleteEdge(p, edge)
    \/ BeginSweep(p) \/ ReadActive(p) \/ Mark(p) \/ ReadRows(p) \/ WriteSweep(p)
    \/ Crash(p)

Next == \E p \in Processes : Operation(p)

Spec == Init /\ [][Next]_vars
-----------------------------------------------------------------------------
(* Properties.                                                             *)

\* A sweep never archives a node that one and the same root has held since the
\* sweep began, whatever other processes mint, promote, retire, deactivate or
\* archive between its reads: its four snapshots differ, and each of the four may
\* be the one that tells (storage.py:1137-1218).
SteadyRootsSurvive ==
    \A p \in Processes : pc[p] = "write" =>
        \A n \in archives[p] : \A h \in held[p] : h[2] # n

\* A sweep never reactivates a node that no root has held at any time since the
\* sweep began: a root tier does not outrank a retirement, and a change that was
\* closed all along revives nothing (storage.py:1163-1187).
SweepRevivesOnlyTheLive ==
    \A p \in Processes : pc[p] = "write" => revives[p] \cap dead[p] = {}

\* Unless a process dies, a change that exists was opened, or its creator is about
\* to open it (agent_surface.py:192, 239-242).
ChangesAreOpened ==
    crashes = 0 =>
        \A c \in Slices \cap nodes :
            \/ latest[c] # None
            \/ \E p \in Processes : pc[p] = "open-change" /\ minting[p] = c

\* An entity that is not retired survives every sweep (schema.py:21,
\* storage.py:1148-1151).
EntitiesSurviveSweep ==
    [][ \A p \in Processes :
          pc[p] = "write" /\ pc'[p] = "idle" /\ crashes' = crashes
            => \A e \in (archived' \ archived) \cap Entities : e \in Retired ]_vars

\* One name, one entity (agent_surface.py:443-445).
EntityNamesAreOne ==
    \A d, e \in Entities \cap nodes : Path[d] = Path[e] => d = e
=============================================================================
