------------------------------- MODULE Impact --------------------------------
(***************************************************************************)
(* The impact of a node: impact_of of storage.py, which reads the seed,    *)
(* then the dependencies between live content nodes in one statement,      *)
(* walks them backwards breadth first, and reads each node it reached      *)
(* again, while other sessions write.                                      *)
(***************************************************************************)
EXTENDS Graph, Sequences

CONSTANTS MaxAsks    \* bound: calls in a behaviour

ASSUME ImpactAssumption == MaxAsks \in Nat

VARIABLES ipc,       \* the call's next statement
          seed,
          askedAt,   \* history: the transactions there were when it began
          deps,      \* the pairs <<dependent, node>> it read
          dist,      \* how far from the seed each node it reached is
          queue,     \* reached, and not yet looked at
          here,      \* the node whose dependents it looks at
          pending,   \* those of them it has not come to
          answer,    \* the rows read for the result, with their distances
          asks
asking == <<ipc, seed, askedAt, deps, dist, queue, here, pending, answer, asks>>

LiveContent == rows \ (archived \cup Anchors)

Dependencies == {<<e[1], e[3]>> : e \in {d \in edges :
                    /\ d[2] = "depends"
                    /\ d[1] \in LiveContent /\ d[3] \in LiveContent}}

ImpactInit ==
    /\ GraphInit
    /\ ipc = "idle" /\ seed \in Nodes /\ askedAt = 0
    /\ deps = {} /\ dist = [n \in {} |-> 0] /\ queue = <<>>
    /\ here = seed /\ pending = {}
    /\ answer = {} /\ asks = 0
-----------------------------------------------------------------------------
\* The seed is read; one that is not there, dormant or an anchor has no impact.
Ask(n) ==
    /\ ipc = "idle" /\ asks < MaxAsks
    /\ ipc' = IF n \in LiveContent THEN "edges" ELSE "answered"
    /\ seed' = n /\ here' = n
    /\ askedAt' = writes
    /\ deps' = {} /\ dist' = [m \in {} |-> 0] /\ queue' = <<>> /\ pending' = {}
    /\ answer' = {}
    /\ asks' = asks + 1

MutReadDependencies ==
    /\ ipc = "edges"
    /\ ipc' = "walk"
    /\ deps' = {<<e[1], e[3]>> : e \in {d \in edges : d[2] = "depends"}}
    /\ dist' = [n \in {seed} |-> 0]
    /\ queue' = <<seed>>
    /\ UNCHANGED <<seed, askedAt, here, pending, answer, asks>>

ReadDependencies ==
    /\ ipc = "edges"
    /\ ipc' = "walk"
    /\ deps' = Dependencies
    /\ dist' = [n \in {seed} |-> 0]
    /\ queue' = <<seed>>
    /\ UNCHANGED <<seed, askedAt, here, pending, answer, asks>>

\* current = queue.popleft()
Take ==
    /\ ipc = "walk" /\ pending = {} /\ queue # <<>>
    /\ here' = Head(queue)
    /\ queue' = Tail(queue)
    /\ pending' = {n \in Nodes : <<n, Head(queue)>> \in deps}
    /\ UNCHANGED <<ipc, seed, askedAt, deps, dist, answer, asks>>

MutLookForgets(n) ==
    /\ ipc = "walk" /\ n \in pending
    /\ pending' = pending \ {n}
    /\ dist' = [m \in DOMAIN dist \cup {n} |->
                   IF m = n THEN dist[here] + 1 ELSE dist[m]]
    /\ queue' = Append(queue, n)
    /\ UNCHANGED <<ipc, seed, askedAt, deps, here, answer, asks>>

MutLookRequeues(n) ==
    /\ ipc = "walk" /\ n \in pending
    /\ pending' = pending \ {n}
    /\ dist' = [m \in DOMAIN dist \cup {n} |->
                   IF m \in DOMAIN dist THEN dist[m] ELSE dist[here] + 1]
    /\ queue' = Append(queue, n)
    /\ UNCHANGED <<ipc, seed, askedAt, deps, here, answer, asks>>

\* One dependent of it: a node keeps its first distance, and is queued once.
Look(n) ==
    /\ ipc = "walk" /\ n \in pending
    /\ pending' = pending \ {n}
    /\ IF n \in DOMAIN dist
       THEN UNCHANGED <<dist, queue>>
       ELSE /\ dist' = [m \in DOMAIN dist \cup {n} |->
                            IF m = n THEN dist[here] + 1 ELSE dist[m]]
            /\ queue' = Append(queue, n)
    /\ UNCHANGED <<ipc, seed, askedAt, deps, here, answer, asks>>

\* The queue is empty: the nodes other than the seed are read again.
EndWalk ==
    /\ ipc = "walk" /\ pending = {} /\ queue = <<>>
    /\ ipc' = "nodes"
    /\ pending' = {n \in DOMAIN dist : dist[n] > 0}
    /\ UNCHANGED <<seed, askedAt, deps, dist, queue, here, answer, asks>>

ReadReached(n) ==
    /\ ipc = "nodes" /\ n \in pending
    /\ pending' = pending \ {n}
    /\ answer' = answer \cup {[id |-> n, archived |-> n \in archived,
                               depth |-> dist[n]]}
    /\ UNCHANGED <<ipc, seed, askedAt, deps, dist, queue, here, asks>>

Answer ==
    /\ ipc = "nodes" /\ pending = {}
    /\ ipc' = "answered"
    /\ UNCHANGED <<seed, askedAt, deps, dist, queue, here, pending, answer, asks>>

\* The caller has its answer, and may ask again.
Forget ==
    /\ ipc = "answered"
    /\ ipc' = "idle" /\ answer' = {}
    /\ UNCHANGED <<seed, askedAt, deps, dist, queue, here, pending, asks>>
-----------------------------------------------------------------------------
Walk ==
    \/ ReadDependencies \/ Take \/ EndWalk \/ Answer
    \/ \E n \in Nodes : Look(n) \/ ReadReached(n)

ImpactNext == (Walk \/ Forget \/ \E n \in Nodes : Ask(n)) /\ UNCHANGED graph

\* Bound: others write while a call reads; GraphInit has what they wrote before.
WriteMeanwhile == ipc \in {"edges", "walk", "nodes"} /\ Write /\ UNCHANGED asking

ImpactSpec ==
    ImpactInit /\ [][ImpactNext \/ WriteMeanwhile]_<<graph, asking>>

\* A call that began goes on.
FairImpactSpec == ImpactSpec /\ WF_<<graph, asking>>(Walk /\ UNCHANGED graph)
-----------------------------------------------------------------------------
(* Properties.                                                             *)

ImpactTypeOK ==
    /\ GraphTypeOK
    /\ ipc \in {"idle", "edges", "walk", "nodes", "answered"}
    /\ seed \in Nodes /\ here \in Nodes
    /\ askedAt \in Nat
    /\ deps \in SUBSET (Nodes \X Nodes)
    /\ DOMAIN dist \in SUBSET Nodes /\ \A n \in DOMAIN dist : dist[n] \in Nat
    /\ queue \in Seq(Nodes)
    /\ pending \in SUBSET Nodes
    /\ answer \in SUBSET [id : Nodes, archived : BOOLEAN, depth : Nat]
    /\ asks \in 0..MaxAsks

\* What makes d the distances from s in a relation: s is at 0; a node that depends
\* on a node at k is at k + 1 or nearer; and every other node at k + 1 depends on
\* one at k.
Distances(d, s, relation) ==
    /\ s \in DOMAIN d /\ d[s] = 0
    /\ \A e \in relation : e[2] \in DOMAIN d =>
           e[1] \in DOMAIN d /\ d[e[1]] <= d[e[2]] + 1
    /\ \A n \in DOMAIN d \ {s} :
           \E m \in DOMAIN d : <<n, m>> \in relation /\ d[n] = d[m] + 1

\* The walk reaches exactly the nodes that depend on the seed, however the edges
\* run in cycles, and gives each its shortest distance (storage.py:1292-1302).
WalkIsShortest == ipc = "nodes" => Distances(dist, seed, deps)

\* An answer during which nobody wrote is about one database: the seed is live,
\* what was walked are its dependencies, and no node in the answer is dormant,
\* although they were read in separate statements (storage.py:1262-1263).
QuietImpactIsExact ==
    ipc = "answered" /\ askedAt = writes /\ answer # {} =>
        /\ seed \in LiveContent
        /\ {a.id : a \in answer} \subseteq LiveContent \ {seed}
        /\ Distances([n \in {seed} \cup {a.id : a \in answer} |->
                         IF n = seed THEN 0
                         ELSE (CHOOSE a \in answer : a.id = n).depth],
                     seed, Dependencies)

\* A walk ends, on edges that run in cycles as on others (storage.py:1292-1293).
WalkEnds == (ipc = "walk") ~> (ipc = "answered")
=============================================================================
