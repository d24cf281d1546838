-------------------------------- MODULE Dump ---------------------------------
(***************************************************************************)
(* A dump that is read while other sessions write, and the database that   *)
(* another clone builds from it: dump_pairs of storage.py, write_dump and  *)
(* restore_from_text of sync.py.                                           *)
(*                                                                         *)
(* dump_pairs reads the ids in one statement and then, for each, the node, *)
(* its edges and its events, in three; each statement is a snapshot of its *)
(* own.  Who may dump or restore when is StoreSync's subject; here a       *)
(* restore reads the file that is there and builds a clone's database.     *)
(* Bound: it does so while nobody dumps, for it reads the file only once.  *)
(***************************************************************************)
EXTENDS Graph, DumpText

CONSTANTS Text,        \* of a node, its body and the reason of what names it
          Nothing,     \* no dump, no database
          MaxDumps,    \* bound: dumps begun in a behaviour
          MaxRestores  \* bound: restores begun in a behaviour

ASSUME DumpAssumption == MaxDumps \in Nat /\ MaxRestores \in Nat

VARIABLES pc,         \* the dump's next statement
          begun,      \* history: the database when its ids were listed
          todo,       \* the ids it has still to read
          current,    \* what it has read of the node it is at
          pairs,      \* what it has read of the others
          file,       \* the text of the dump file
          published,  \* history: the pairs that text was made of
          truth,      \* history: the database, if nobody wrote during that dump
          dumps
dumping == <<pc, begun, todo, current, pairs, file, published, truth, dumps>>

VARIABLES rpc,        \* the restore's next step
          parsed,     \* the pairs it read from the file
          staged,     \* the tables of its staging database
          clone,      \* the tables of the database it replaces
          restores
restoring == <<rpc, parsed, staged, clone, restores>>

NodeRow  == [id : Nodes, flagged : BOOLEAN, archived : BOOLEAN]
Entry(e) == [says |-> e, reason |-> Text[e.about]]
Pair     == [node : NodeRow, body : {Text[n] : n \in Nodes}, edges : SUBSET Edge,
             events : SUBSET {Entry(e) : e \in Event}]

Row(n) == [id |-> n, flagged |-> n \in flagged, archived |-> n \in archived]

\* What the pairs say, table by table.
Tables(ps) == [nodes  |-> {[row |-> p.node, body |-> p.body] : p \in ps},
               edges  |-> UNION {p.edges : p \in ps},
               events |-> UNION {p.events : p \in ps}]
Ids(ps)    == {p.node.id : p \in ps}

\* The database, now.
Database == [nodes  |-> {[row |-> Row(n), body |-> Text[n]] : n \in rows},
             edges  |-> edges,
             events |-> {Entry(e) : e \in journal}]
Empty    == [nodes |-> {}, edges |-> {}, events |-> {}]

\* No edge leads to a node that is not there.
Closed(ps) == \A e \in Tables(ps).edges : e[3] \in Ids(ps)

DumpInit ==
    /\ GraphInit
    /\ pc = "idle" /\ todo = {} /\ pairs = {} /\ dumps = 0
    /\ begun = [rows |-> {}, edges |-> {}, journal |-> {}, writes |-> 0]
    /\ current = Nothing
    /\ file = Nothing /\ published = {} /\ truth = Nothing
    /\ rpc = "idle" /\ parsed = {} /\ staged = Empty /\ clone = Nothing
    /\ restores = 0
-----------------------------------------------------------------------------
(* dump_pairs and write_dump.                                              *)

MutListNodes ==
    /\ pc = "idle" /\ rpc = "idle" /\ dumps < MaxDumps
    /\ pc' = "node"
    /\ todo' = rows \ archived /\ pairs' = {} /\ current' = Nothing
    /\ begun' = [rows |-> rows, edges |-> edges, journal |-> journal,
                 writes |-> writes]
    /\ dumps' = dumps + 1
    /\ UNCHANGED <<file, published, truth, restoring>>

ListNodes ==
    /\ pc = "idle" /\ rpc = "idle" /\ dumps < MaxDumps
    /\ pc' = "node"
    /\ todo' = rows /\ pairs' = {} /\ current' = Nothing
    /\ begun' = [rows |-> rows, edges |-> edges, journal |-> journal,
                 writes |-> writes]
    /\ dumps' = dumps + 1
    /\ UNCHANGED <<file, published, truth, restoring>>

ReadNode(n) ==
    /\ pc = "node" /\ n \in todo
    /\ pc' = "edges"
    /\ current' = [node |-> Row(n), body |-> Text[n], edges |-> {}, events |-> {}]
    /\ UNCHANGED <<begun, todo, pairs, file, published, truth, dumps, restoring>>

MutReadEdges ==
    /\ pc = "edges"
    /\ pc' = "events"
    /\ current' = [current EXCEPT !.edges =
                     {e \in edges : e[1] = current.node.id /\ e[3] \notin archived}]
    /\ UNCHANGED <<begun, todo, pairs, file, published, truth, dumps, restoring>>

ReadEdges ==
    /\ pc = "edges"
    /\ pc' = "events"
    /\ current' = [current EXCEPT !.edges = {e \in edges : e[1] = current.node.id}]
    /\ UNCHANGED <<begun, todo, pairs, file, published, truth, dumps, restoring>>

ReadEvents ==
    /\ pc = "events"
    /\ pc' = "node"
    /\ LET mine == {e \in journal : e.on = current.node.id}
       IN  pairs' = pairs \cup
             {[current EXCEPT !.events = {Entry(e) : e \in mine}]}
    /\ todo' = todo \ {current.node.id}
    /\ current' = Nothing
    /\ UNCHANGED <<begun, file, published, truth, dumps, restoring>>

\* The whole text goes to a staging file, which is moved over the dump.
Publish ==
    /\ pc = "node" /\ todo = {}
    /\ pc' = "idle"
    /\ file' = DumpAll(SetToSeq(pairs))
    /\ published' = pairs
    /\ truth' = IF begun.writes = writes THEN Database ELSE Nothing
    /\ UNCHANGED <<begun, todo, current, pairs, dumps, restoring>>

\* The process dies, or the dump is given up: the file stays as it was.
GiveUpDump ==
    /\ pc # "idle"
    /\ pc' = "idle" /\ current' = Nothing
    /\ UNCHANGED <<begun, todo, pairs, file, published, truth, dumps, restoring>>
-----------------------------------------------------------------------------
(* restore_from_text, by which a clone builds its database.                *)

\* A staging file of an earlier restore is unlinked, and the text parsed.
StartRestore ==
    /\ pc = "idle" /\ rpc = "idle" /\ file # Nothing /\ restores < MaxRestores
    /\ rpc' = "nodes"
    /\ parsed' = ParseDump(ReadText(file))
    /\ staged' = Empty
    /\ restores' = restores + 1
    /\ UNCHANGED <<clone, dumping>>

\* write_node, for every pair.
RestoreNodes ==
    /\ rpc = "nodes"
    /\ rpc' = "edges"
    /\ staged' = [staged EXCEPT !.nodes = @ \cup Tables(parsed).nodes]
    /\ UNCHANGED <<parsed, clone, restores, dumping>>

MutRestoreEdges ==
    /\ rpc = "edges"
    /\ rpc' = "events"
    /\ staged' = [staged EXCEPT !.edges = @ \cup Tables(parsed).edges]
    /\ UNCHANGED <<parsed, clone, restores, dumping>>

\* write_edge, for every edge of every pair: an edge to a node that is not in the
\* staging database fails on its foreign key, and ends the restore.
RestoreEdges ==
    /\ rpc = "edges"
    /\ IF Closed(parsed)
       THEN /\ rpc' = "events"
            /\ staged' = [staged EXCEPT !.edges = @ \cup Tables(parsed).edges]
       ELSE rpc' = "idle" /\ staged' = Empty
    /\ UNCHANGED <<parsed, clone, restores, dumping>>

\* append_event, for every event of every pair.
RestoreEvents ==
    /\ rpc = "events"
    /\ rpc' = "swap"
    /\ staged' = [staged EXCEPT !.events = @ \cup Tables(parsed).events]
    /\ UNCHANGED <<parsed, clone, restores, dumping>>

\* staging.replace(target)
SwapIn ==
    /\ rpc = "swap"
    /\ rpc' = "idle"
    /\ clone' = staged /\ staged' = Empty
    /\ UNCHANGED <<parsed, restores, dumping>>

\* The restoring process dies; its staging file stays.
CrashRestore ==
    /\ rpc # "idle"
    /\ rpc' = "idle"
    /\ UNCHANGED <<parsed, staged, clone, restores, dumping>>
-----------------------------------------------------------------------------
DumpNext ==
    /\ \/ ListNodes \/ ReadEdges \/ ReadEvents \/ Publish \/ GiveUpDump
       \/ \E n \in Nodes : ReadNode(n)
       \/ StartRestore \/ RestoreNodes \/ RestoreEdges \/ RestoreEvents
       \/ SwapIn \/ CrashRestore
    /\ UNCHANGED graph

\* Bound: others write while the dump reads.  What they wrote before is in GraphInit,
\* and what they write after is in no dump.
WriteMeanwhile == pc # "idle" /\ Write /\ UNCHANGED <<dumping, restoring>>

DumpSpec ==
    DumpInit /\ [][DumpNext \/ WriteMeanwhile]_<<graph, dumping, restoring>>
-----------------------------------------------------------------------------
(* Properties.                                                             *)

DumpTypeOK ==
    /\ GraphTypeOK
    /\ pc \in {"idle", "node", "edges", "events"}
    /\ begun \in [rows : SUBSET Nodes, edges : SUBSET Edge,
                  journal : SUBSET Event, writes : Nat]
    /\ todo \in SUBSET Nodes
    /\ current \in IF pc \in {"edges", "events"} THEN Pair ELSE {Nothing}
    /\ pairs \in SUBSET Pair /\ published \in SUBSET Pair
    /\ dumps \in 0..MaxDumps /\ restores \in 0..MaxRestores
    /\ rpc \in {"idle", "nodes", "edges", "events", "swap"}

\* What the events of a pair say.
Journaled(p) == {e.says : e \in p.events}

\* A dump explains itself, whatever is written while it is read: a flag in it has
\* the event that raised it, a dormant node the event that archived it, and an
\* edge that was there when the dump began is in it or has its removal in it.
\* This is why a node is read before its edges, and those before its events
\* (storage.py:1694-1710).
DumpExplainsItself ==
    \A p \in pairs :
        /\ p.node.flagged =>
             \E m \in Nodes : Says(p.node.id, "raised", m) \in Journaled(p)
        /\ p.node.archived =>
             Says(p.node.id, "archived", p.node.id) \in Journaled(p)
        /\ \A e \in begun.edges :
             e[1] = p.node.id => e \in p.edges \/ Says(e[1], e[2], e[3]) \in Journaled(p)

\* A dump lists exactly the nodes there were when it began, each with at least
\* the events it had then and none that was never written: nothing committed
\* before a dump is left out of it, whoever writes meanwhile (storage.py:1690-1711).
DumpIsBetween ==
    /\ pc # "idle" => Ids(pairs) \cup todo = begun.rows
    /\ \A p \in pairs :
        {e \in begun.journal : e.on = p.node.id} \subseteq Journaled(p)
    /\ UNION {Journaled(p) : p \in pairs} \subseteq journal

\* A dump that nobody wrote during is the database, and a clone can build it:
\* every edge in it leads to a node in it (sync.py:180-190, docs/09:73-90).
QuietDumpIsTheDatabase ==
    truth # Nothing => Tables(published) = truth /\ Closed(published)

\* What is parsed back from the file is what was dumped, whatever the bodies and
\* reasons hold (serialization.py:10-15, 97-112).
DumpComesBack ==
    file # Nothing => ParseDump(ReadText(file)) = published

\* A restore replaces the clone's database by all that the text says, or not at
\* all: nothing of a restore that died before gets into it, and no edge in it
\* leads nowhere (sync.py:166-168, docs/09:82-84).
RestoreIsWhole ==
    [][clone' # clone => clone' = Tables(parsed) /\ Closed(parsed)]_restoring

\* What a clone builds is what was dumped, and the database itself if nobody wrote
\* during that dump: no node, edge, event or line of a text is lost or changed on the
\* way through the file (sync.py:1-17, 184-206, serialization.py:10-15).
CloneIsWhatWasDumped ==
    [][clone' # clone =>
          /\ clone' = Tables(published)
          /\ truth # Nothing => clone' = truth]_restoring

\* The dump is never torn: every edge in it leads to a node in it
\* (sync.py:220-222).
DumpIsClosed == Closed(published)
=============================================================================
