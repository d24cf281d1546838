-------------------------------- MODULE Graph --------------------------------
(***************************************************************************)
(* The rows of one database, as the transactions of any session change     *)
(* them: what the multi-statement reads of storage.py (Dump, Impact) read  *)
(* while others write.  Every action is one transaction.                   *)
(*                                                                         *)
(* A node is never deleted.  Its body is not modelled: it is read, written *)
(* and edited with its row, in one statement.  "depends" stands for        *)
(* DEPENDS_ON and ABOUT, the edges impact_of follows.  An event says of    *)
(* which node it is, what kind it is (a removed edge's type, for a         *)
(* removal), and which other node it names; events that agree in all three *)
(* are one here.                                                           *)
(***************************************************************************)
EXTENDS Naturals, FiniteSets

CONSTANTS Nodes,
          Anchors,     \* the nodes whose type is slice or facet_value
          MaxWrites    \* bound: transactions in a behaviour

EdgeTypes == {"depends", "contradicts"}
Edge  == Nodes \X EdgeTypes \X Nodes
Kinds == {"raised", "cleared", "archived", "reactivated"} \cup EdgeTypes
Event == [on : Nodes, kind : Kinds, about : Nodes]

ASSUME GraphAssumption ==
    /\ Anchors \subseteq Nodes
    /\ MaxWrites \in Nat

VARIABLES rows,      \* the nodes there are
          flagged,   \* those with needs_review set
          archived,  \* those that are dormant
          edges,
          journal,   \* the events
          writes     \* how many transactions committed
graph == <<rows, flagged, archived, edges, journal, writes>>

GraphTypeOK ==
    /\ rows \in SUBSET Nodes
    /\ flagged \in SUBSET rows /\ archived \in SUBSET rows
    /\ edges \in SUBSET Edge
    /\ journal \in SUBSET Event
    /\ writes \in 0..MaxWrites

\* The foreign keys.
KeysHold ==
    /\ \A e \in edges : e[1] \in rows /\ e[3] \in rows
    /\ \A e \in journal : e.on \in rows

Says(n, kind, m) == [on |-> n, kind |-> kind, about |-> m]

\* A graph that earlier transactions left, with the events they journaled.  Bound:
\* none left a flag, a contradiction or an edge from a node to itself.
GraphInit ==
    /\ rows \in SUBSET Nodes /\ rows # {}
    /\ flagged = {}
    /\ archived \in SUBSET rows
    /\ edges \in SUBSET {e \in rows \X {"depends"} \X rows : e[1] # e[3]}
    /\ journal = {Says(n, "archived", n) : n \in archived}
    /\ writes = 0
-----------------------------------------------------------------------------
Transaction == writes < MaxWrites /\ writes' = writes + 1

\* write_atomic, as capture_artifact calls it: the new node and the edge from its
\* goal, which was there when the call began; if the note contradicts a node,
\* that edge, the event and the flag too.
Capture(goal, n, against) ==
    /\ Transaction
    /\ n \notin rows /\ {goal} \cup against \subseteq rows
    /\ rows' = rows \cup {n}
    /\ edges' = edges \cup {<<goal, "depends", n>>}
                      \cup {<<n, "contradicts", m>> : m \in against}
    /\ flagged' = flagged \cup against
    /\ journal' = journal \cup {Says(m, "raised", n) : m \in against}
    /\ UNCHANGED archived

\* write_edge: the primary key refuses an edge that is there.
Link(a, b) ==
    /\ Transaction
    /\ {a, b} \subseteq rows /\ <<a, "depends", b>> \notin edges
    /\ edges' = edges \cup {<<a, "depends", b>>}
    /\ UNCHANGED <<rows, flagged, archived, journal>>

MutContradict(a, b) ==
    /\ Transaction
    /\ edges' = edges \cup {<<a, "contradicts", b>>}
    /\ flagged' = flagged \cup {b}
    /\ journal' = journal \cup {Says(b, "raised", a)}
    /\ UNCHANGED <<rows, archived>>

\* raise_contradiction: the edge, the flag and the event in one transaction.
Contradict(a, b) ==
    /\ Transaction
    /\ {a, b} \subseteq rows
    /\ edges' = edges \cup {<<a, "contradicts", b>>}
    /\ flagged' = flagged \cup {b}
    /\ journal' = journal \cup {Says(b, "raised", a)}
    /\ UNCHANGED <<rows, archived>>

\* clear_contradiction
Clear(n) ==
    /\ Transaction
    /\ n \in rows
    /\ flagged' = flagged \ {n}
    /\ journal' = journal \cup {Says(n, "cleared", n)}
    /\ UNCHANGED <<rows, archived, edges>>

\* resolve_review, superseded or wrong: archive, clear, and record what replaces
\* the node, if anything was named.
Supersede(n, replacement) ==
    /\ Transaction
    /\ {n} \cup replacement \subseteq rows
    /\ archived' = archived \cup {n}
    /\ flagged' = flagged \ {n}
    /\ edges' = edges \cup {<<m, "depends", n>> : m \in replacement}
    /\ journal' = journal \cup {Says(n, "archived", n), Says(n, "cleared", n)}
    /\ UNCHANGED rows

MutDeleteEdge(a, type, b) ==
    /\ Transaction
    /\ <<a, type, b>> \in edges
    /\ edges' = edges \ {<<a, type, b>>}
    /\ UNCHANGED <<rows, flagged, archived, journal>>

\* delete_edge: the removal is journaled on the source.
DeleteEdge(a, type, b) ==
    /\ Transaction
    /\ <<a, type, b>> \in edges
    /\ edges' = edges \ {<<a, type, b>>}
    /\ journal' = journal \cup {Says(a, type, b)}
    /\ UNCHANGED <<rows, flagged, archived>>

\* set_archived; a sweep does the same to each node whose state it changes.
SetArchived(n) ==
    /\ Transaction
    /\ n \in rows
    /\ archived' = (archived \ {n}) \cup ({n} \ archived)
    /\ journal' = journal \cup
         {Says(n, IF n \in archived THEN "reactivated" ELSE "archived", n)}
    /\ UNCHANGED <<rows, flagged, edges>>

Write ==
    \/ \E n \in Nodes : \E named \in {{}} \cup {{m} : m \in Nodes} :
        \/ \E goal \in Nodes : Capture(goal, n, named)
        \/ Supersede(n, named)
    \/ \E a, b \in Nodes :
        \/ Link(a, b) \/ Contradict(a, b)
        \/ \E type \in EdgeTypes : DeleteEdge(a, type, b)
    \/ \E n \in Nodes : Clear(n) \/ SetArchived(n)
=============================================================================
