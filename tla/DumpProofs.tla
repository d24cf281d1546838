----------------------------- MODULE DumpProofs -----------------------------
(***************************************************************************)
(* What a dump holds, for any nodes, texts and number of writers, what a   *)
(* restore replaces, and that what is parsed from a dump is what was       *)
(* written to it.                                                          *)
(*                                                                         *)
(* The order of the reads carries the proof: what was read of a node had   *)
(* its events by then, an edge that has gone since the dump began left an  *)
(* event, and the events are read last.  The text is taken apart by        *)
(* induction over its blocks: no block holds a separator, so every         *)
(* separator is one that DumpAll wrote.                                    *)
(***************************************************************************)
EXTENDS Dump, GraphProofs, SequenceTheorems

\* What the dump began with is still there, or its removal is journaled.
BegunIsKept ==
    /\ begun.journal \subseteq journal
    /\ begun.writes <= writes
    /\ \A e \in begun.edges : e \in edges \/ Says(e[1], e[2], e[3]) \in journal

\* The node being read is one of those left to read, and its flag, its state and
\* the edges it had are explained by events that are there to be read.
CurrentIsExplained ==
    /\ pc \in {"edges", "events"} =>
        /\ current.node.id \in todo
        /\ current.node.flagged =>
             \E m \in Nodes : Says(current.node.id, "raised", m) \in journal
        /\ current.node.archived =>
             Says(current.node.id, "archived", current.node.id) \in journal
    /\ pc = "events" =>
        \A e \in begun.edges :
            e[1] = current.node.id =>
                e \in current.edges \/ Says(e[1], e[2], e[3]) \in journal

\* What a dump of a database at rest reads of a node.
EdgesOf(n)  == {e \in edges : e[1] = n}
EventsOf(n) == {Entry(e) : e \in {f \in journal : f.on = n}}

\* While nobody writes, all that was read is as it is.
QuietReads ==
    pc # "idle" /\ begun.writes = writes =>
        /\ begun.rows = rows
        /\ \A p \in pairs :
            /\ p.node = Row(p.node.id) /\ p.body = Text[p.node.id]
            /\ p.edges = EdgesOf(p.node.id) /\ p.events = EventsOf(p.node.id)
        /\ pc \in {"edges", "events"} =>
            /\ current.node = Row(current.node.id)
            /\ current.body = Text[current.node.id]
        /\ pc = "events" => current.edges = EdgesOf(current.node.id)

\* The staging database holds the tables that were written to it so far.
StagingIsPartOfTheText ==
    /\ rpc = "nodes" => staged = Empty
    /\ rpc = "edges" =>
        staged = [nodes |-> Tables(parsed).nodes, edges |-> {}, events |-> {}]
    /\ rpc = "events" =>
        /\ Closed(parsed)
        /\ staged = [nodes |-> Tables(parsed).nodes, edges |-> Tables(parsed).edges,
                     events |-> {}]
    /\ rpc = "swap" => Closed(parsed) /\ staged = Tables(parsed)

DumpInv ==
    /\ GraphInv /\ DumpTypeOK
    /\ BegunIsKept /\ CurrentIsExplained
    /\ DumpExplainsItself /\ DumpIsBetween
    /\ QuietReads /\ QuietDumpIsTheDatabase
    /\ StagingIsPartOfTheText

-----------------------------------------------------------------------------
\* The line of dashes that separates blocks is never a line of a text: escaping
\* always adds a backslash (serialization.py:10-15).
THEOREM EscapedIsNoSeparator ==
    ASSUME NEW k \in Nat, NEW line, line = <<Rule(k)>> \/ ~IsRule(line)
    PROVE  Escape(line) # Separator
BY DEF Escape, IsRule, Separator, Rule

\* A line is read back as it was written (serialization.py:18-27).
THEOREM UnescapeUndoesEscape ==
    ASSUME NEW k \in Nat, NEW line, line = <<Rule(k)>> \/ ~IsRule(line)
    PROVE  Unescape(Escape(line)) = line
BY DEF Escape, Unescape, IsRule, Rule
-----------------------------------------------------------------------------
\* The first state satisfies the invariant.
LEMMA DumpStarts == ASSUME DumpInit PROVE DumpInv
<1>1. GraphInv
  BY GraphInitInv DEF DumpInit
<1>2. DumpTypeOK
  BY <1>1, DumpAssumption DEF DumpInit, DumpTypeOK, GraphInv, DumpAssumption
<1>3. BegunIsKept
  BY GraphAssumption DEF DumpInit, BegunIsKept, GraphInit, GraphAssumption
<1>4. CurrentIsExplained /\ QuietReads /\ StagingIsPartOfTheText
  BY DEF DumpInit, CurrentIsExplained, QuietReads, StagingIsPartOfTheText
<1>5. DumpExplainsItself /\ QuietDumpIsTheDatabase
  BY DEF DumpInit, DumpExplainsItself, QuietDumpIsTheDatabase
<1>6. DumpIsBetween
  BY DEF DumpInit, DumpIsBetween
<1>7. QED
  BY <1>1, <1>2, <1>3, <1>4, <1>5, <1>6 DEF DumpInv

\* Every step of the dump, of the restore and of the writers keeps the types.
LEMMA DumpKeepsTypes ==
    ASSUME DumpInv, GraphInv', DumpNext \/ WriteMeanwhile PROVE DumpTypeOK'
<1> USE DEF DumpInv, DumpTypeOK, GraphInv
<1>0. GraphTypeOK'
  OBVIOUS
<1>1. CASE ListNodes
  BY <1>0, <1>1, DumpAssumption DEF ListNodes, restoring, GraphTypeOK, DumpAssumption
<1>2. ASSUME NEW n \in Nodes, ReadNode(n) PROVE DumpTypeOK'
  <2>1. [node |-> Row(n), body |-> Text[n], edges |-> {}, events |-> {}] \in Pair
    BY DEF Pair, NodeRow, Row
  <2>2. QED
    BY <1>0, <1>2, <2>1 DEF ReadNode, restoring
<1>3. CASE ReadEdges
  <2>1. current \in Pair
    BY <1>3 DEF ReadEdges
  <2>2. current' \in Pair
    BY <1>3, <2>1 DEF ReadEdges, Pair, GraphTypeOK
  <2>3. QED
    BY <1>0, <1>3, <2>2 DEF ReadEdges, restoring
<1>4. CASE ReadEvents
  <2> DEFINE mine == {Entry(e) : e \in {f \in journal : f.on = current.node.id}}
             read == [current EXCEPT !.events = mine]
  <2>1. current \in Pair
    BY <1>4 DEF ReadEvents
  <2>2. mine \subseteq {Entry(e) : e \in Event}
    BY DEF GraphTypeOK
  <2>3. read \in Pair
    BY <2>1, <2>2 DEF Pair
  <2>4. pairs' = pairs \cup {read}
    BY <1>4 DEF ReadEvents
  <2> HIDE DEF read
  <2>5. QED
    BY <1>0, <1>4, <2>3, <2>4 DEF ReadEvents, restoring
<1>5. CASE Publish
  BY <1>0, <1>5 DEF Publish, restoring
<1>6. CASE GiveUpDump
  BY <1>0, <1>6 DEF GiveUpDump, restoring
<1>7. CASE StartRestore
  BY <1>0, <1>7, DumpAssumption DEF StartRestore, dumping, DumpAssumption
<1>8. CASE RestoreNodes \/ RestoreEdges \/ RestoreEvents \/ SwapIn \/ CrashRestore
  BY <1>0, <1>8
     DEF RestoreNodes, RestoreEdges, RestoreEvents, SwapIn, CrashRestore, dumping
<1>9. CASE WriteMeanwhile
  BY <1>0, <1>9 DEF WriteMeanwhile, dumping, restoring
<1>10. QED
  BY <1>1, <1>2, <1>3, <1>4, <1>5, <1>6, <1>7, <1>8, <1>9 DEF DumpNext

\* Nothing that the dump began with is lost, and nothing it has read of a node
\* becomes unexplained.
LEMMA DumpKeepsExplanations ==
    ASSUME DumpInv, DumpNext \/ WriteMeanwhile, DumpTypeOK',
           WriteMeanwhile => Grows
    PROVE  BegunIsKept' /\ CurrentIsExplained'
<1> USE DEF DumpInv, BegunIsKept, CurrentIsExplained, Says
<1>1. CASE ListNodes /\ UNCHANGED graph
  <2>1. /\ begun' = [rows |-> rows, edges |-> edges, journal |-> journal,
                     writes |-> writes]
        /\ pc' = "node"
    BY <1>1 DEF ListNodes
  <2>2. writes \in Nat
    BY DEF GraphInv, GraphTypeOK
  <2>3. QED
    BY <1>1, <2>1, <2>2 DEF graph
<1>2. ASSUME NEW n \in Nodes, ReadNode(n), UNCHANGED graph
      PROVE  BegunIsKept' /\ CurrentIsExplained'
  <2>1. BegunIsKept'
    BY <1>2 DEF ReadNode, graph
  <2>2. current' = [node |-> Row(n), body |-> Text[n], edges |-> {}, events |-> {}]
    BY <1>2 DEF ReadNode
  <2>3. n \in flagged => \E m \in Nodes : Says(n, "raised", m) \in journal
    BY DEF GraphInv, StateIsJournaled
  <2>4. n \in archived => Says(n, "archived", n) \in journal
    BY DEF GraphInv, StateIsJournaled
  <2>5. /\ current'.node.id = n /\ n \in todo'
        /\ current'.node.flagged => n \in flagged
        /\ current'.node.archived => n \in archived
        /\ pc' = "edges" /\ journal' = journal
    <3>1. current'.node = Row(n) /\ n \in todo' /\ pc' = "edges"
      BY <1>2, <2>2 DEF ReadNode
    <3>2. /\ Row(n).id = n /\ Row(n).flagged = (n \in flagged)
          /\ Row(n).archived = (n \in archived)
      BY DEF Row
    <3>3. QED
      BY <1>2, <3>1, <3>2 DEF graph
  <2>6. CurrentIsExplained'
    BY <2>3, <2>4, <2>5
  <2>7. QED
    BY <2>1, <2>6
<1>3. ASSUME ReadEdges, UNCHANGED graph
      PROVE  BegunIsKept' /\ CurrentIsExplained'
  <2>1. current \in Pair
    BY <1>3 DEF ReadEdges, DumpTypeOK
  <2>2. /\ current'.node = current.node
        /\ current'.edges = {e \in edges : e[1] = current.node.id}
    BY <1>3, <2>1 DEF ReadEdges, Pair
  <2>3. QED
    BY <1>3, <2>2 DEF ReadEdges, graph
<1>4. CASE ReadEvents /\ UNCHANGED graph
  BY <1>4 DEF ReadEvents, graph
<1>5. CASE (Publish \/ GiveUpDump) /\ UNCHANGED graph
  BY <1>5 DEF Publish, GiveUpDump, graph
<1>6. CASE UNCHANGED dumping /\ UNCHANGED graph
  BY <1>6 DEF dumping, graph
<1>7. CASE WriteMeanwhile
  <2>1. Grows /\ UNCHANGED dumping /\ begun.writes \in Nat /\ writes \in Nat
    BY <1>7 DEF WriteMeanwhile, DumpTypeOK, GraphTypeOK
  <2>2. BegunIsKept'
    BY <2>1 DEF Grows, dumping
  <2>3. CurrentIsExplained'
    BY <2>1 DEF Grows, dumping
  <2>4. QED
    BY <2>2, <2>3
<1>8. QED
  BY <1>1, <1>2, <1>3, <1>4, <1>5, <1>6, <1>7 DEF DumpNext, StartRestore,
     RestoreNodes, RestoreEdges, RestoreEvents, SwapIn, CrashRestore

\* What reading the events adds to the pairs.
LEMMA PairIsRead ==
    ASSUME DumpInv, ReadEvents
    PROVE  \E p \in Pair :
               /\ pairs' = pairs \cup {p} /\ todo' = todo \ {p.node.id}
               /\ p.node = current.node /\ p.body = current.body
               /\ p.edges = current.edges /\ p.events = EventsOf(p.node.id)
               /\ Journaled(p) = {e \in journal : e.on = p.node.id}
<1> DEFINE p == [current EXCEPT !.events = EventsOf(current.node.id)]
<1>1. current \in Pair
  BY DEF DumpInv, DumpTypeOK, ReadEvents
<1>2. EventsOf(current.node.id) \subseteq {Entry(e) : e \in Event}
  BY DEF DumpInv, GraphInv, GraphTypeOK, EventsOf
<1>3. p \in Pair
  BY <1>1, <1>2 DEF Pair
<1>4. /\ p.node = current.node /\ p.body = current.body /\ p.edges = current.edges
      /\ p.events = EventsOf(current.node.id)
  BY <1>1 DEF Pair
<1>5. Journaled(p) = {e \in journal : e.on = p.node.id}
  <2> DEFINE mine == {e \in journal : e.on = p.node.id}
  <2>1. p.events = {Entry(e) : e \in mine}
    BY <1>4 DEF EventsOf
  <2>2. \A e : Entry(e).says = e
    BY DEF Entry
  <2> HIDE DEF p, mine
  <2>3. Journaled(p) = mine
    BY <2>1, <2>2 DEF Journaled
  <2>4. QED
    BY <2>3 DEF mine
<1>6. pairs' = pairs \cup {p} /\ todo' = todo \ {p.node.id}
  BY <1>4 DEF ReadEvents, EventsOf
<1> HIDE DEF p
<1>7. QED
  BY <1>3, <1>4, <1>5, <1>6

\* The pairs explain themselves after every step.
LEMMA DumpKeepsExplaining ==
    ASSUME DumpInv, DumpNext \/ WriteMeanwhile, WriteMeanwhile => Grows
    PROVE  DumpExplainsItself' /\ DumpIsBetween'
<1> USE DEF DumpExplainsItself, DumpIsBetween
<1>0. DumpExplainsItself /\ DumpIsBetween
  BY DEF DumpInv
<1>1. CASE ListNodes
  BY <1>1 DEF ListNodes, Ids, DumpInv, GraphInv, GraphTypeOK
<1>2. ASSUME NEW n \in Nodes, ReadNode(n), UNCHANGED graph
      PROVE  DumpExplainsItself' /\ DumpIsBetween'
  BY <1>0, <1>2 DEF ReadNode, Ids, Journaled, graph
<1>3. CASE ReadEdges /\ UNCHANGED graph
  BY <1>0, <1>3 DEF ReadEdges, Ids, Journaled, graph
<1>4. CASE ReadEvents /\ UNCHANGED graph
  <2>1. PICK p \in Pair :
               /\ pairs' = pairs \cup {p} /\ todo' = todo \ {p.node.id}
               /\ p.node = current.node /\ p.edges = current.edges
               /\ Journaled(p) = {e \in journal : e.on = p.node.id}
    BY <1>4, PairIsRead
  <2>2. UNCHANGED <<begun, graph>> /\ pc = "events" /\ pc' = "node"
    BY <1>4 DEF ReadEvents
  <2>3. CurrentIsExplained /\ BegunIsKept
    BY DEF DumpInv
  <2>4. DumpExplainsItself'
    <3>1. /\ p.node.flagged =>
                \E m \in Nodes : Says(p.node.id, "raised", m) \in Journaled(p)
          /\ p.node.archived => Says(p.node.id, "archived", p.node.id) \in Journaled(p)
      BY <2>1, <2>2, <2>3 DEF CurrentIsExplained, Says
    <3>2. ASSUME NEW e \in begun.edges, e[1] = p.node.id
          PROVE  e \in p.edges \/ Says(e[1], e[2], e[3]) \in Journaled(p)
      BY <2>1, <2>2, <2>3, <3>2 DEF CurrentIsExplained, Says
    <3>3. QED
      BY <1>0, <2>1, <2>2, <3>1, <3>2 DEF Journaled
  <2>5. Ids(pairs') \cup todo' = begun'.rows
    <3>1. Ids(pairs') = Ids(pairs) \cup {p.node.id}
      BY <2>1 DEF Ids
    <3>2. p.node.id \in todo
      BY <2>1, <2>2, <2>3 DEF CurrentIsExplained
    <3>3. QED
      BY <1>0, <2>1, <2>2, <3>1, <3>2
  <2>6. \A q \in pairs' : {e \in begun'.journal : e.on = q.node.id} \subseteq Journaled(q)
    BY <1>0, <2>1, <2>2, <2>3 DEF BegunIsKept
  <2>7. UNION {Journaled(q) : q \in pairs'} \subseteq journal'
    BY <1>0, <2>1, <2>2 DEF graph
  <2>8. DumpIsBetween'
    BY <2>5, <2>6, <2>7 DEF Journaled, Ids
  <2>9. QED
    BY <2>4, <2>8
<1>5. CASE (Publish \/ GiveUpDump) /\ UNCHANGED graph
  BY <1>0, <1>5 DEF Publish, GiveUpDump, Ids, Journaled, graph
<1>6. CASE UNCHANGED dumping /\ UNCHANGED graph
  BY <1>0, <1>6 DEF dumping, graph, Ids, Journaled
<1>7. CASE WriteMeanwhile
  <2>1. Grows /\ UNCHANGED dumping
    BY <1>7 DEF WriteMeanwhile
  <2>2. QED
    BY <1>0, <2>1 DEF Grows, dumping, Ids, Journaled
<1>8. QED
  BY <1>1, <1>2, <1>3, <1>4, <1>5, <1>6, <1>7 DEF DumpNext, StartRestore,
     RestoreNodes, RestoreEdges, RestoreEvents, SwapIn, CrashRestore

\* While nobody writes, what is read is the database.
LEMMA DumpReadsQuietly ==
    ASSUME DumpInv, DumpNext \/ WriteMeanwhile, WriteMeanwhile => Grows
    PROVE  QuietReads'
<1> USE DEF DumpInv, QuietReads
<1>1. CASE ListNodes /\ UNCHANGED graph
  BY <1>1 DEF ListNodes, graph
<1>2. ASSUME NEW n \in Nodes, ReadNode(n), UNCHANGED graph PROVE QuietReads'
  <2>1. /\ current'.node = Row(n) /\ current'.node.id = n
        /\ current'.body = Text[n]
        /\ pc' = "edges" /\ pc = "node" /\ UNCHANGED <<pairs, begun>>
    BY <1>2 DEF ReadNode, Row
  <2>2. QED
    BY <1>2, <2>1 DEF graph, Row, EdgesOf, EventsOf
<1>3. CASE ReadEdges /\ UNCHANGED graph
  <2>1. current \in Pair
    BY <1>3 DEF ReadEdges, DumpTypeOK
  <2>2. /\ current'.node = current.node /\ current'.body = current.body
        /\ current'.edges = EdgesOf(current.node.id)
    BY <1>3, <2>1 DEF ReadEdges, Pair, EdgesOf
  <2>3. QED
    BY <1>3, <2>2 DEF ReadEdges, graph, Row, EdgesOf, EventsOf
<1>4. CASE ReadEvents /\ UNCHANGED graph
  <2>1. PICK p \in Pair :
               /\ pairs' = pairs \cup {p}
               /\ p.node = current.node /\ p.body = current.body
               /\ p.edges = current.edges /\ p.events = EventsOf(p.node.id)
    BY <1>4, PairIsRead
  <2>2. pc = "events" /\ pc' = "node" /\ UNCHANGED begun
    BY <1>4 DEF ReadEvents
  <2>3. QED
    BY <1>4, <2>1, <2>2 DEF graph, Row, EdgesOf, EventsOf
<1>5. CASE (Publish \/ GiveUpDump) /\ UNCHANGED graph
  BY <1>5 DEF Publish, GiveUpDump
<1>6. CASE UNCHANGED dumping /\ UNCHANGED graph
  BY <1>6 DEF dumping, graph, Row, EdgesOf, EventsOf
<1>7. CASE WriteMeanwhile
  <2>1. /\ Grows /\ UNCHANGED dumping /\ begun.writes <= writes
        /\ begun.writes \in Nat /\ writes \in Nat
    BY <1>7 DEF WriteMeanwhile, DumpTypeOK, GraphTypeOK, BegunIsKept
  <2>2. begun'.writes # writes'
    BY <2>1 DEF Grows, dumping
  <2>3. QED
    BY <2>2
<1>8. QED
  BY <1>1, <1>2, <1>3, <1>4, <1>5, <1>6, <1>7 DEF DumpNext, StartRestore,
     RestoreNodes, RestoreEdges, RestoreEvents, SwapIn, CrashRestore

\* A dump published while nobody wrote is the database.
LEMMA QuietDumpIsWhole ==
    ASSUME DumpInv, Publish, begun.writes = writes
    PROVE  Tables(pairs) = Database /\ Closed(pairs)
<1> USE DEF DumpInv
<1>1. /\ Ids(pairs) = rows
      /\ \A p \in pairs :
            /\ p.node = Row(p.node.id) /\ p.body = Text[p.node.id]
            /\ p.edges = EdgesOf(p.node.id) /\ p.events = EventsOf(p.node.id)
  BY DEF Publish, QuietReads, DumpIsBetween
<1>2. \A n \in rows : \E p \in pairs : p.node.id = n
  BY <1>1 DEF Ids
<1>3. \A p \in pairs : p.node.id \in rows
  BY <1>1 DEF Ids
<1>4. Tables(pairs).nodes = Database.nodes
  BY <1>1, <1>2, <1>3 DEF Tables, Database
<1>5. Tables(pairs).edges = Database.edges
  <2>1. UNION {p.edges : p \in pairs} = edges
    <3>1. \A e \in edges : \E p \in pairs : e \in p.edges
      BY <1>1, <1>2 DEF EdgesOf, GraphInv, KeysHold
    <3>2. \A p \in pairs : p.edges \subseteq edges
      BY <1>1 DEF EdgesOf
    <3>3. QED
      BY <3>1, <3>2
  <2>2. QED
    BY <2>1 DEF Tables, Database
<1>6. Tables(pairs).events = Database.events
  <2> DEFINE all == {Entry(e) : e \in journal}
  <2>1. UNION {p.events : p \in pairs} = all
    <3>1. \A e \in journal : \E p \in pairs : Entry(e) \in p.events
      BY <1>1, <1>2 DEF EventsOf, GraphInv, KeysHold
    <3>2. \A p \in pairs : p.events \subseteq all
      BY <1>1 DEF EventsOf
    <3>3. QED
      BY <3>1, <3>2
  <2>2. QED
    BY <2>1 DEF Tables, Database
<1>7. Tables(pairs) = Database
  BY <1>4, <1>5, <1>6 DEF Tables, Database
<1>8. Closed(pairs)
  BY <1>1, <1>5 DEF Closed, Database, GraphInv, KeysHold
<1>9. QED
  BY <1>7, <1>8

\* What is published stays what it was, and the staging database follows the text.
LEMMA DumpKeepsTheRest ==
    ASSUME DumpInv, DumpNext \/ WriteMeanwhile
    PROVE  QuietDumpIsTheDatabase' /\ StagingIsPartOfTheText'
<1>1. QuietDumpIsTheDatabase'
  <2>1. CASE Publish /\ UNCHANGED graph
    <3>1. published' = pairs /\ truth' = IF begun.writes = writes THEN Database ELSE Nothing
      BY <2>1 DEF Publish
    <3>2. QED
      BY <2>1, <3>1, QuietDumpIsWhole DEF QuietDumpIsTheDatabase, Closed, Tables, Ids
  <2>2. CASE UNCHANGED <<published, truth>>
    BY <2>2 DEF DumpInv, QuietDumpIsTheDatabase, Closed, Tables, Ids
  <2>3. QED
    BY <2>1, <2>2 DEF DumpNext, WriteMeanwhile, ListNodes, ReadNode, ReadEdges,
       ReadEvents,
       GiveUpDump, StartRestore, RestoreNodes, RestoreEdges, RestoreEvents, SwapIn,
       CrashRestore, dumping
<1>2. StagingIsPartOfTheText'
  <2> USE DEF StagingIsPartOfTheText, Empty
  <2>0. StagingIsPartOfTheText
    BY DEF DumpInv
  <2>1. CASE UNCHANGED restoring
    BY <2>0, <2>1 DEF restoring, Closed, Tables, Ids
  <2>2. CASE StartRestore
    BY <2>2 DEF StartRestore
  <2>3. CASE RestoreNodes
    <3>1. staged' = [nodes |-> Tables(parsed).nodes, edges |-> {}, events |-> {}]
      <4> DEFINE T == Tables(parsed).nodes
      <4>1. staged = [nodes |-> {}, edges |-> {}, events |-> {}]
        BY <2>0, <2>3 DEF RestoreNodes
      <4>2. staged' = [staged EXCEPT !.nodes = @ \cup T]
        BY <2>3 DEF RestoreNodes
      <4> HIDE DEF T
      <4>3. staged' = [nodes |-> T, edges |-> {}, events |-> {}]
        BY <4>1, <4>2
      <4>4. QED
        BY <4>3 DEF T
    <3>2. QED
      BY <2>3, <3>1 DEF RestoreNodes, Tables
  <2>4. CASE RestoreEdges
    BY <2>0, <2>4 DEF RestoreEdges, Tables, Closed, Ids
  <2>5. CASE RestoreEvents
    <3>1. staged' = Tables(parsed) /\ Closed(parsed)
      <4> DEFINE T == Tables(parsed)
      <4>1. staged = [nodes |-> T.nodes, edges |-> T.edges, events |-> {}]
        BY <2>0, <2>5 DEF RestoreEvents
      <4>2. staged' = [staged EXCEPT !.events = @ \cup T.events]
        BY <2>5 DEF RestoreEvents
      <4>3. T = [nodes |-> T.nodes, edges |-> T.edges, events |-> T.events]
        BY DEF Tables
      <4> HIDE DEF T
      <4>4. staged' = T
        BY <4>1, <4>2, <4>3
      <4>5. Closed(parsed)
        BY <2>0, <2>5 DEF RestoreEvents
      <4>6. QED
        BY <4>4, <4>5 DEF T
    <3>2. QED
      BY <2>5, <3>1 DEF RestoreEvents, Tables, Closed, Ids
  <2>6. CASE SwapIn \/ CrashRestore
    BY <2>6 DEF SwapIn, CrashRestore
  <2>7. QED
    BY <2>1, <2>2, <2>3, <2>4, <2>5, <2>6 DEF DumpNext, WriteMeanwhile, ListNodes,
       ReadNode, ReadEdges, ReadEvents, Publish, GiveUpDump
<1>3. QED
  BY <1>1, <1>2

\* The invariant is inductive.
LEMMA DumpInvStep ==
    ASSUME DumpInv, [DumpNext \/ WriteMeanwhile]_<<graph, dumping, restoring>>
    PROVE  DumpInv'
<1>1. CASE DumpNext \/ WriteMeanwhile
  <2>1. GraphInv' /\ (WriteMeanwhile => Grows)
    <3>1. CASE DumpNext
      <4>1. UNCHANGED graph
        BY <3>1 DEF DumpNext
      <4>2. ~WriteMeanwhile \/ Grows
        <5>1. WriteMeanwhile => Write
          BY DEF WriteMeanwhile
        <5>2. QED
          BY <5>1, WriteKeepsGraph DEF DumpInv
      <4>3. QED
        BY <4>1, <4>2, GraphStutters DEF DumpInv
    <3>2. CASE WriteMeanwhile
      BY <3>2, WriteKeepsGraph DEF WriteMeanwhile, DumpInv
    <3>3. QED
      BY <1>1, <3>1, <3>2
  <2>2. DumpTypeOK'
    BY <1>1, <2>1, DumpKeepsTypes
  <2>3. BegunIsKept' /\ CurrentIsExplained'
    BY <1>1, <2>1, <2>2, DumpKeepsExplanations
  <2>4. DumpExplainsItself' /\ DumpIsBetween'
    BY <1>1, <2>1, DumpKeepsExplaining
  <2>5. QuietReads'
    BY <1>1, <2>1, DumpReadsQuietly
  <2>6. QuietDumpIsTheDatabase' /\ StagingIsPartOfTheText'
    BY <1>1, DumpKeepsTheRest
  <2>7. QED
    BY <2>1, <2>2, <2>3, <2>4, <2>5, <2>6 DEF DumpInv
<1>2. CASE UNCHANGED <<graph, dumping, restoring>>
  <2>1. GraphInv'
    BY <1>2, GraphStutters DEF DumpInv
  <2>2. DumpTypeOK' /\ BegunIsKept' /\ CurrentIsExplained'
    BY <1>2, <2>1 DEF DumpInv, GraphInv, graph, dumping, restoring, DumpTypeOK,
       BegunIsKept,
       CurrentIsExplained, Says
  <2>3. DumpExplainsItself' /\ DumpIsBetween'
    BY <1>2 DEF DumpInv, graph, dumping, DumpExplainsItself, DumpIsBetween, Says,
       Journaled, Ids
  <2>4. QuietReads'
    BY <1>2 DEF DumpInv, graph, dumping, QuietReads, Row, EdgesOf, EventsOf
  <2>5. QuietDumpIsTheDatabase' /\ StagingIsPartOfTheText'
    BY <1>2 DEF DumpInv, dumping, restoring, QuietDumpIsTheDatabase,
       StagingIsPartOfTheText, Closed, Tables, Ids, Empty
  <2>6. QED
    BY <2>1, <2>2, <2>3, <2>4, <2>5 DEF DumpInv
<1>3. QED
  BY <1>1, <1>2

\* It holds in every state of every behaviour.
THEOREM DumpInvariant == DumpSpec => []DumpInv
<1>1. DumpInit => DumpInv
  BY DumpStarts
<1>2. DumpInv /\ [DumpNext \/ WriteMeanwhile]_<<graph, dumping, restoring>> => DumpInv'
  BY DumpInvStep
<1>3. QED
  BY <1>1, <1>2, PTL DEF DumpSpec
-----------------------------------------------------------------------------
\* The graph, the reader and the restore keep their types.
THEOREM DumpTypes == DumpSpec => []DumpTypeOK
<1>1. DumpInv => DumpTypeOK
  BY DEF DumpInv
<1>2. QED
  BY <1>1, DumpInvariant, PTL

\* A flag, a dormant state and a missing edge in a dump are explained by events
\* in it, for any number of writers that interleave with its reads
\* (storage.py:1694-1710).
THEOREM DumpExplained == DumpSpec => []DumpExplainsItself
<1>1. DumpInv => DumpExplainsItself
  BY DEF DumpInv
<1>2. QED
  BY <1>1, DumpInvariant, PTL

\* Nothing that was committed before a dump began is left out of it, and nothing
\* is in it that was never written (storage.py:1690-1711).
THEOREM DumpBetween == DumpSpec => []DumpIsBetween
<1>1. DumpInv => DumpIsBetween
  BY DEF DumpInv
<1>2. QED
  BY <1>1, DumpInvariant, PTL

\* A dump during which nobody wrote is the database, and a clone can build it
\* (sync.py:180-190).
THEOREM QuietDump == DumpSpec => []QuietDumpIsTheDatabase
<1>1. DumpInv => QuietDumpIsTheDatabase
  BY DEF DumpInv
<1>2. QED
  BY <1>1, DumpInvariant, PTL

\* A restore replaces the database by all the text says or not at all
\* (sync.py:166-168, 184-206).
THEOREM RestoreWhole == DumpSpec => RestoreIsWhole
<1>1. DumpInv /\ [DumpNext \/ WriteMeanwhile]_<<graph, dumping, restoring>>
        => [clone' # clone => clone' = Tables(parsed) /\ Closed(parsed)]_restoring
  <2> SUFFICES ASSUME DumpInv, DumpNext \/ WriteMeanwhile, clone' # clone
               PROVE  clone' = Tables(parsed) /\ Closed(parsed)
    BY DEF restoring
  <2>1. SwapIn
    BY DEF DumpNext, WriteMeanwhile, ListNodes, ReadNode, ReadEdges, ReadEvents, Publish,
       GiveUpDump, StartRestore, RestoreNodes, RestoreEdges, RestoreEvents, CrashRestore,
       restoring
  <2>2. QED
    BY <2>1 DEF SwapIn, DumpInv, StagingIsPartOfTheText
<1>2. QED
  BY <1>1, DumpInvariant, PTL DEF DumpSpec, RestoreIsWhole
-----------------------------------------------------------------------------
(* Sequences and their parts.                                              *)

\* A bounded set of numbers has a greatest one, and Max is it.
LEMMA GreatestOf ==
    ASSUME NEW S \in SUBSET Nat, NEW n \in Nat, S # {}, \A k \in S : k <= n
    PROVE  Max(S) \in S /\ \A k \in S : k <= Max(S)
<1> DEFINE D == {n - k : k \in S}
<1>1. D \in SUBSET Nat /\ D # {}
  <2>1. \A k \in S : n - k \in Nat
    OBVIOUS
  <2>2. QED
    BY <2>1
<1>2. PICK d \in D : \A e \in D : d <= e
  BY <1>1, Least
<1>3. PICK m \in S : d = n - m
  BY <1>2
<1>4. \A k \in S : k <= m
  BY <1>2, <1>3
<1>5. \E x \in S : \A y \in S : x >= y
  BY <1>4
<1>6. QED
  BY <1>5 DEF Max

\* Min is the least of a set of numbers.
LEMMA LeastOf ==
    ASSUME NEW S \in SUBSET Nat, S # {}
    PROVE  Min(S) \in S /\ \A k \in S : Min(S) <= k
<1>1. \E x \in S : \A y \in S : x =< y
  BY Least
<1>2. QED
  BY <1>1 DEF Min

\* A finite set, listed, is a sequence of its elements.
LEMMA ListedSet ==
    ASSUME NEW S, IsFiniteSet(S)
    PROVE  /\ SetToSeq(S) \in Seq(S)
           /\ {SetToSeq(S)[i] : i \in 1..Len(SetToSeq(S))} = S
<1> DEFINE n == Cardinality(S)
           f == SetToSeq(S)
<1>0. n \in Nat
  BY FS_CardinalityType
<1>1. \E g \in [1..n -> S] : IsInjective(g)
  BY FS_CardinalityType DEF ExistsBijection, Bijection, Injection
<1>2. f \in [1..n -> S] /\ IsInjective(f)
  BY <1>1 DEF SetToSeq
<1>3. f \in Injection(1..n, S)
  BY <1>2 DEF Injection
<1>4. IsFiniteSet(1..n) /\ Cardinality(1..n) = n
  BY <1>0, FS_Interval
<1>5. f \in Surjection(1..n, S)
  BY <1>3, <1>4, FS_Injection
<1>6. f \in Seq(S) /\ Len(f) = n
  BY <1>0, <1>2
<1>7. QED
  BY <1>2, <1>5, <1>6 DEF Surjection

\* The recursive function by which FlattenSeq is defined exists: its values are the
\* sequences of the first parts, put together.
LEMMA FlattenUnfolds ==
    ASSUME NEW seqs, Len(seqs) \in Nat \ {0}
    PROVE  \E f : /\ FlattenSeq(seqs) = f[Len(seqs)]
                  /\ f[1] = seqs[1]
                  /\ \A i \in 2..Len(seqs) : f[i] = f[i - 1] \o seqs[i]
<1> DEFINE Unfolds(f, n) ==
             f = [i \in 1..n |-> IF i = 1 THEN seqs[i] ELSE f[i - 1] \o seqs[i]]
           S == {n \in Nat : \E f : Unfolds(f, n)}
<1>1. 0 \in S
  <2>1. Unfolds(<<>>, 0)
    OBVIOUS
  <2>2. QED
    BY <2>1
<1>2. ASSUME NEW n \in S PROVE n + 1 \in S
  <2>1. PICK f : Unfolds(f, n)
    OBVIOUS
  <2> DEFINE g == [i \in 1..(n + 1) |->
                     IF i <= n THEN f[i] ELSE
                     IF i = 1 THEN seqs[1] ELSE f[n] \o seqs[i]]
  <2>2. ASSUME NEW i \in 1..(n + 1)
        PROVE  g[i] = IF i = 1 THEN seqs[i] ELSE g[i - 1] \o seqs[i]
    <3>1. CASE i <= n
      <4>1. i \in 1..n /\ (i # 1 => i - 1 \in 1..n /\ i - 1 \in 1..(n + 1))
        BY <3>1
      <4>2. f[i] = IF i = 1 THEN seqs[i] ELSE f[i - 1] \o seqs[i]
        BY <2>1, <4>1
      <4>3. QED
        BY <3>1, <4>1, <4>2
    <3>2. CASE i = n + 1
      BY <3>2
    <3>3. QED
      BY <3>1, <3>2
  <2>3. Unfolds(g, n + 1)
    BY <2>2
  <2>4. n + 1 \in Nat
    OBVIOUS
  <2> HIDE DEF Unfolds
  <2>5. QED
    BY <2>3, <2>4
<1>3. S = Nat
  <2> HIDE DEF S
  <2>1. S \in SUBSET Nat
    BY DEF S
  <2>2. QED
    BY <1>1, <1>2, <2>1, Induct
<1>4. \E f : Unfolds(f, Len(seqs))
  BY <1>3
<1> DEFINE f == CHOOSE f : Unfolds(f, Len(seqs))
<1>5. Unfolds(f, Len(seqs))
  BY <1>4
<1>6. FlattenSeq(seqs) = f[Len(seqs)]
  BY DEF FlattenSeq
<1> HIDE DEF f
<1>7. f[1] = seqs[1]
  BY <1>5
<1>8. ASSUME NEW i \in 2..Len(seqs) PROVE f[i] = f[i - 1] \o seqs[i]
  <2>1. i \in 1..Len(seqs) /\ i # 1
    OBVIOUS
  <2>2. QED
    BY <1>5, <2>1
<1>9. QED
  BY <1>6, <1>7, <1>8

\* Nothing is put together to nothing.
LEMMA FlattenOfNone ==
    ASSUME NEW seqs, seqs = <<>> PROVE FlattenSeq(seqs) = <<>>
BY DEF FlattenSeq

\* What a flattened sequence holds is what its parts hold.
LEMMA FlattenRange ==
    ASSUME NEW S, NEW seqs \in Seq(Seq(S))
    PROVE  /\ FlattenSeq(seqs) \in Seq(S)
           /\ Range(FlattenSeq(seqs)) = UNION {Range(seqs[i]) : i \in 1..Len(seqs)}
<1>1. CASE seqs = <<>>
  <2>1. FlattenSeq(seqs) = <<>>
    BY <1>1, FlattenOfNone
  <2>2. Range(<<>>) = {} /\ <<>> \in Seq(S) /\ Len(<<>>) = 0
    BY DEF Range
  <2>3. UNION {Range(seqs[i]) : i \in 1..0} = {}
    OBVIOUS
  <2>4. QED
    BY <1>1, <2>1, <2>2, <2>3
<1>2. CASE seqs # <<>>
  <2>0. Len(seqs) \in Nat \ {0}
    BY <1>2, EmptySeq
  <2>1. PICK f : /\ FlattenSeq(seqs) = f[Len(seqs)]
                 /\ f[1] = seqs[1]
                 /\ \A i \in 2..Len(seqs) : f[i] = f[i - 1] \o seqs[i]
    BY <2>0, FlattenUnfolds
  <2> DEFINE Good(n) == /\ f[n] \in Seq(S)
                        /\ Range(f[n]) = UNION {Range(seqs[i]) : i \in 1..n}
             T == {n \in Nat : n + 1 <= Len(seqs) => Good(n + 1)}
  <2>2. 0 \in T
    <3>1. Good(1)
      <4>1. f[1] \in Seq(S)
        BY <2>0, <2>1
      <4>2. UNION {Range(seqs[i]) : i \in 1..1} = Range(seqs[1])
        OBVIOUS
      <4>3. QED
        BY <2>1, <4>1, <4>2
    <3>2. QED
      BY <3>1
  <2>3. ASSUME NEW n \in T, n + 2 <= Len(seqs) PROVE Good(n + 2)
    <3>1. Good(n + 1) /\ n \in Nat
      BY <2>0, <2>3
    <3>2. n + 2 \in 2..Len(seqs) /\ (n + 2) - 1 = n + 1 /\ n + 2 \in 1..Len(seqs)
      BY <2>0, <2>3, <3>1
    <3>3. f[n + 2] = f[n + 1] \o seqs[n + 2]
      BY <2>1, <3>2
    <3>4. seqs[n + 2] \in Seq(S)
      BY <3>2
    <3>5. f[n + 2] \in Seq(S) /\ Range(f[n + 2]) = Range(f[n + 1]) \cup Range(seqs[n + 2])
      BY <3>1, <3>3, <3>4, RangeConcatenation
    <3>6. 1..(n + 2) = 1..(n + 1) \cup {n + 2}
      BY <3>1
    <3>7. UNION {Range(seqs[i]) : i \in 1..(n + 2)}
            = (UNION {Range(seqs[i]) : i \in 1..(n + 1)}) \cup Range(seqs[n + 2])
      BY <3>6
    <3>8. QED
      BY <3>1, <3>5, <3>7
  <2>4. ASSUME NEW n \in T PROVE n + 1 \in T
    <3>1. n + 1 \in Nat /\ (n + 1) + 1 = n + 2
      OBVIOUS
    <3> HIDE DEF Good
    <3>2. QED
      BY <2>3, <3>1
  <2>5. T = Nat
    <3> HIDE DEF T
    <3>1. T \in SUBSET Nat
      BY DEF T
    <3>2. QED
      BY <2>2, <2>4, <3>1, Induct
  <2>6. Good(Len(seqs))
    <3>1. Len(seqs) - 1 \in Nat /\ (Len(seqs) - 1) + 1 = Len(seqs) /\ Len(seqs) <= Len(seqs)
      BY <2>0
    <3> HIDE DEF Good
    <3>2. QED
      BY <2>5, <3>1
  <2>7. QED
    BY <2>1, <2>6
<1>3. QED
  BY <1>1, <1>2

\* A sequence put together from its elements is itself.
LEMMA FlattenSingles ==
    ASSUME NEW S, NEW text \in Seq(S)
    PROVE  FlattenSeq([i \in DOMAIN text |-> <<text[i]>>]) = text
<1> DEFINE n == Len(text)
           seqs == [i \in DOMAIN text |-> <<text[i]>>]
<1>0. n \in Nat /\ DOMAIN text = 1..n
  OBVIOUS
<1>1. Len(seqs) = n /\ \A i \in 1..n : seqs[i] = <<text[i]>>
  <2>1. DOMAIN seqs = 1..n
    BY <1>0
  <2>2. QED
    BY <1>0, <2>1
<1>2. CASE n = 0
  <2>1. text = <<>> /\ seqs = <<>>
    BY <1>0, <1>2
  <2>2. QED
    BY <2>1, FlattenOfNone
<1>3. CASE n # 0
  <2> HIDE DEF seqs
  <2>1. n \in Nat \ {0} /\ Len(seqs) \in Nat \ {0}
    BY <1>0, <1>1, <1>3
  <2>2. PICK f : /\ FlattenSeq(seqs) = f[Len(seqs)]
                 /\ f[1] = seqs[1]
                 /\ \A i \in 2..Len(seqs) : f[i] = f[i - 1] \o seqs[i]
    BY <2>1, FlattenUnfolds
  <2>3. /\ FlattenSeq(seqs) = f[n]
        /\ f[1] = <<text[1]>>
        /\ \A i \in 2..n : f[i] = f[i - 1] \o <<text[i]>>
    <3>1. 1 \in 1..n /\ \A i \in 2..n : i \in 1..n
      BY <2>1
    <3>2. f[1] = <<text[1]>>
      BY <1>1, <2>2, <3>1
    <3>3. ASSUME NEW i \in 2..n PROVE f[i] = f[i - 1] \o <<text[i]>>
      <4>1. i \in 2..Len(seqs) /\ seqs[i] = <<text[i]>>
        BY <1>1, <3>1
      <4>2. f[i] = f[i - 1] \o seqs[i]
        BY <2>2, <4>1
      <4>3. QED
        BY <4>1, <4>2
    <3>4. FlattenSeq(seqs) = f[n]
      BY <1>1, <2>2
    <3>5. QED
      BY <3>2, <3>3, <3>4
  <2> DEFINE T == {k \in Nat : k + 1 <= n => f[k + 1] = SubSeq(text, 1, k + 1)}
  <2>4. 0 \in T
    <3>1. SubSeq(text, 1, 1) = <<text[1]>>
      <4>1. 1 \in 1..n /\ text[1] \in S
        BY <2>1
      <4>2. SubSeq(text, 1, 1) = SubSeq(text, 1, 1 - 1) \o <<text[1]>>
        BY <4>1, SubSeqRecursiveSecond
      <4>3. SubSeq(text, 1, 1 - 1) = <<>>
        BY SubSeqEmpty
      <4>4. <<>> \o <<text[1]>> = <<text[1]>>
        BY <4>1
      <4>5. QED
        BY <4>2, <4>3, <4>4
    <3>2. QED
      BY <2>3, <3>1
  <2>5. ASSUME NEW k \in T, k + 2 <= n PROVE f[k + 2] = SubSeq(text, 1, k + 2)
    <3>1. k + 2 \in 2..n /\ (k + 2) - 1 = k + 1 /\ k + 1 <= n /\ k + 2 \in 1..n
      BY <2>1, <2>5
    <3>2. f[k + 2] = SubSeq(text, 1, k + 1) \o <<text[k + 2]>>
      BY <2>3, <3>1
    <3>3. SubSeq(text, 1, k + 2) = SubSeq(text, 1, (k + 2) - 1) \o <<text[k + 2]>>
      BY <2>1, <3>1, SubSeqRecursiveSecond
    <3>4. QED
      BY <3>1, <3>2, <3>3
  <2>6. \A k \in T : k + 1 \in T
    <3> SUFFICES ASSUME NEW k \in T PROVE k + 1 \in T
      OBVIOUS
    <3>1. k \in Nat /\ k + 1 \in Nat /\ (k + 1) + 1 = k + 2
      OBVIOUS
    <3>2. QED
      BY <2>5, <3>1
  <2>7. T = Nat
    <3> HIDE DEF T
    <3>1. T \in SUBSET Nat
      BY DEF T
    <3>2. QED
      BY <2>4, <2>6, <3>1, Induct
  <2>8. f[n] = SubSeq(text, 1, n)
    <3>1. n - 1 \in Nat /\ (n - 1) + 1 = n /\ n <= n
      BY <2>1
    <3> HIDE DEF n
    <3>2. QED
      BY <2>7, <3>1
  <2>9. QED
    BY <2>3, <2>8, SubSeqFull DEF seqs
<1>4. QED
  BY <1>2, <1>3
-----------------------------------------------------------------------------
(* Separators.                                                             *)

\* Where a text has a separator, and what lies between.
Separators(t) == {i \in 1..Len(t) : t[i] = Separator}
Between(t, cuts) ==
    {SubSeq(t, 1 + Max({0} \cup {c \in cuts : c < end}), end - 1) :
         end \in cuts \cup {Len(t) + 1}}

\* The last cut before an end: none, which counts as 0, or a greatest one.
LEMMA LastCut ==
    ASSUME NEW n \in Nat, NEW C \in SUBSET (1..n), NEW end \in 1..(n + 1)
    PROVE  LET last == Max({0} \cup {c \in C : c < end}) IN
           /\ last \in {0} \cup C /\ last < end /\ last \in Nat
           /\ \A c \in C : c < end => c <= last
<1> DEFINE S == {0} \cup {c \in C : c < end}
<1>1. S \in SUBSET Nat /\ S # {} /\ \A k \in S : k <= n
  <2>1. \A k \in C : k \in Nat /\ k <= n
    OBVIOUS
  <2>2. \A k \in S : k \in Nat /\ k <= n
    BY <2>1
  <2> HIDE DEF S
  <2>3. S \in SUBSET Nat /\ \A k \in S : k <= n
    BY <2>2
  <2>4. S # {}
    BY DEF S
  <2>5. QED
    BY <2>3, <2>4
<1>2. Max(S) \in S /\ \A k \in S : k <= Max(S)
  <2> HIDE DEF S
  <2>1. QED
    BY <1>1, GreatestOf
<1> DEFINE last == Max(S)
<1>3. last \in S /\ \A k \in S : k <= last
  BY <1>2
<1> HIDE DEF last
<1>4. last \in {0} \cup C /\ last < end /\ last \in Nat
  BY <1>3
<1>5. \A c \in C : c < end => c <= last
  BY <1>3
<1>6. QED
  BY <1>4, <1>5 DEF last

\* A text without a cut is one part.
LEMMA BetweenNone ==
    ASSUME NEW L, NEW t \in Seq(L) PROVE Between(t, {}) = {t}
<1>1. {0} \cup {c \in {} : c < Len(t) + 1} = {0}
  OBVIOUS
<1>2. Max({0}) = 0
  BY DEF Max
<1>3. SubSeq(t, 1 + 0, (Len(t) + 1) - 1) = t
  <2>1. (Len(t) + 1) - 1 = Len(t)
    OBVIOUS
  <2>2. QED
    BY <2>1, SubSeqFull
<1>4. {} \cup {Len(t) + 1} = {Len(t) + 1}
  OBVIOUS
<1>5. QED
  BY <1>1, <1>2, <1>3, <1>4 DEF Between

\* A text, a separator and a block.
Joined(t, b) == t \o (<<Separator>> \o b)

\* One more separator makes one more part.
LEMMA BetweenMore ==
    ASSUME NEW L, NEW t \in Seq(L), NEW b \in Seq(L), NEW u \in Seq(L),
           Separator \in L, u = Joined(t, b)
    PROVE  Between(u, Separators(t) \cup {Len(t) + 1})
             = Between(t, Separators(t)) \cup {b}
<1> DEFINE C == Separators(t)
           n == Len(t)
           m == Len(u)
           D == C \cup {n + 1}
           Part(s, B, end) == SubSeq(s, 1 + Max({0} \cup {c \in B : c < end}), end - 1)
<1> USE DEF Joined
<1>. C \in SUBSET (1..n)
  BY DEF Separators
<1> HIDE DEF C
<1>0. n \in Nat /\ Len(b) \in Nat /\ m = n + 1 + Len(b)
  <2>1. <<Separator>> \in Seq(L) /\ Len(<<Separator>>) = 1
    OBVIOUS
  <2>2. QED
    BY <2>1
<1>1. \A i \in 1..n : u[i] = t[i]
  OBVIOUS
<1>2. \A i \in 1..Len(b) : u[n + 1 + i] = b[i]
  OBVIOUS
<1>3. ASSUME NEW end \in 1..(n + 1) PROVE Part(u, D, end) = Part(t, C, end)
  <2>1. {c \in D : c < end} = {c \in C : c < end}
    OBVIOUS
  <2> DEFINE last == Max({0} \cup {c \in C : c < end})
  <2>2. last \in Nat /\ last < end
    BY <1>0, LastCut
  <2> HIDE DEF last
  <2>3. SubSeq(u, 1 + last, end - 1) = SubSeq(t, 1 + last, end - 1)
    <3>1. /\ SubSeq(u, 1 + last, end - 1) \in Seq(L) /\ SubSeq(t, 1 + last, end - 1) \in Seq(L)
          /\ Len(SubSeq(u, 1 + last, end - 1)) = Len(SubSeq(t, 1 + last, end - 1))
          /\ \A i \in 1..Len(SubSeq(u, 1 + last, end - 1)) :
               SubSeq(u, 1 + last, end - 1)[i] = SubSeq(t, 1 + last, end - 1)[i]
      BY <1>0, <1>1, <2>2
    <3>2. QED
      BY <3>1, SeqEqual
  <2>4. QED
    BY <2>1, <2>3 DEF last
<1>4. Part(u, D, m + 1) = b
  <2>0. \A c \in D : c \in Nat /\ c <= n + 1 /\ c < m + 1
    <3>1. \A c \in C : c \in Nat /\ c <= n
      OBVIOUS
    <3> HIDE DEF n, m
    <3>2. QED
      BY <1>0, <3>1
  <2>1. {c \in D : c < m + 1} = D
    BY <2>0
  <2>2. Max({0} \cup D) = n + 1
    <3> DEFINE S == {0} \cup D
    <3>1. S \in SUBSET Nat /\ n + 1 \in S /\ n + 1 \in Nat /\ \A k \in S : k <= n + 1
      <4>1. \A k \in S : k \in Nat /\ k <= n + 1
        BY <1>0, <2>0
      <4>2. n + 1 \in S /\ n + 1 \in Nat
        BY <1>0
      <4> HIDE DEF S, n
      <4>3. QED
        BY <4>1, <4>2
    <3> HIDE DEF S, n
    <3>2. Max(S) \in S /\ \A k \in S : k <= Max(S)
      BY <3>1, GreatestOf
    <3>3. Max(S) <= n + 1 /\ n + 1 <= Max(S) /\ Max(S) \in Nat
      BY <3>1, <3>2
    <3>4. Max(S) = n + 1
      BY <3>1, <3>3
    <3>5. QED
      BY <3>4 DEF S, n
  <2>3. SubSeq(u, 1 + (n + 1), (m + 1) - 1) = b
    <3>1. /\ SubSeq(u, 1 + (n + 1), (m + 1) - 1) \in Seq(L)
          /\ Len(SubSeq(u, 1 + (n + 1), (m + 1) - 1)) = Len(b)
          /\ \A i \in 1..Len(b) : SubSeq(u, 1 + (n + 1), (m + 1) - 1)[i] = b[i]
      BY <1>0, <1>2
    <3>2. QED
      BY <3>1, SeqEqual
  <2>4. QED
    BY <2>1, <2>2, <2>3
<1>5. Between(u, D) = {Part(u, D, end) : end \in D \cup {m + 1}}
  BY DEF Between
<1>6. Between(t, C) = {Part(t, C, end) : end \in C \cup {n + 1}}
  BY DEF Between
<1>7. \A end \in D : end \in 1..(n + 1)
  OBVIOUS
<1> HIDE DEF Part
<1>8. Between(u, D) = Between(t, C) \cup {b}
  <2>1. {Part(u, D, end) : end \in D} = {Part(t, C, end) : end \in C \cup {n + 1}}
    BY <1>3, <1>7
  <2>2. QED
    BY <1>4, <1>5, <1>6, <2>1
<1>9. QED
  BY <1>8 DEF C

\* No separator is first, last or next to another.
Fenced(t) == \A i \in 1..Len(t) :
    t[i] = Separator => i > 1 /\ i < Len(t) /\ t[i - 1] # Separator

\* In such a text split() cuts at every separator.
LEMMA CutsAreSeparators ==
    ASSUME NEW L, NEW t \in Seq(L), Fenced(t)
    PROVE  Cuts(t) = Separators(t)
<1> DEFINE n == Len(t)
           Step(f, i) == i > 1 /\ i < n /\ t[i] = Separator /\ ~f[i - 1]
           Solves(f) == f = [i \in 0..n |-> Step(f, i)]
           g == [i \in 0..n |-> i \in Separators(t)]
           cut == CHOOSE f : Solves(f)
<1>0. n \in Nat
  OBVIOUS
<1>1. Solves(g)
  <2>1. ASSUME NEW i \in 0..n PROVE g[i] = Step(g, i)
    <3>1. CASE i = 0 \/ i = 1
      BY <1>0, <3>1 DEF Separators, Fenced
    <3>2. CASE i > 1
      <4>1. i \in 1..n /\ i - 1 \in 1..n /\ i - 1 \in 0..n
        BY <1>0, <3>2
      <4>2. g[i - 1] = (t[i - 1] = Separator) /\ g[i] = (t[i] = Separator)
        BY <4>1 DEF Separators
      <4>3. t[i] = Separator => i < n /\ t[i - 1] # Separator
        BY <4>1 DEF Fenced
      <4> HIDE DEF g
      <4>4. QED
        BY <3>2, <4>2, <4>3
    <3>3. QED
      BY <1>0, <3>1, <3>2
  <2> HIDE DEF Step
  <2>2. QED
    BY <2>1
<1>2. Solves(cut)
  <2> HIDE DEF Solves, g
  <2>1. QED
    BY <1>1
<1>3. Cuts(t) = {i \in 1..n : cut[i]}
  BY DEF Cuts
<1> HIDE DEF cut
<1>4. \A i \in 0..n : cut[i] = Step(cut, i)
  <2> HIDE DEF Step
  <2>1. QED
    BY <1>2
<1> DEFINE S == {i \in Nat : i <= n => (cut[i] <=> i \in Separators(t))}
<1>5. 0 \in S
  <2>1. ~cut[0]
    <3>1. 0 \in 0..n /\ ~(0 > 1)
      BY <1>0
    <3>2. QED
      BY <1>4, <3>1
  <2>. 0 \notin Separators(t)
    BY <1>0 DEF Separators
  <2>2. QED
    BY <2>1
<1>6. ASSUME NEW i \in S, i + 1 <= n PROVE cut[i + 1] <=> i + 1 \in Separators(t)
  <2>1. i + 1 \in 0..n /\ (i + 1) - 1 = i /\ (cut[i] <=> i \in Separators(t)) /\ i + 1 \in 1..n
    BY <1>0, <1>6
  <2>2. cut[i + 1] = (i + 1 > 1 /\ i + 1 < n /\ t[i + 1] = Separator /\ ~cut[i])
    BY <1>4, <2>1
  <2>3. t[i + 1] = Separator => i + 1 > 1 /\ i + 1 < n /\ t[i] # Separator
    BY <2>1 DEF Fenced
  <2>4. CASE t[i + 1] = Separator
    <3>1. i + 1 > 1 /\ i + 1 < n /\ i \notin Separators(t) /\ i + 1 \in Separators(t)
      BY <2>1, <2>3, <2>4 DEF Separators
    <3>2. ~cut[i]
      BY <2>1, <3>1
    <3>3. cut[i + 1]
      BY <2>2, <2>4, <3>1, <3>2
    <3>4. QED
      BY <3>1, <3>3
  <2>5. CASE t[i + 1] # Separator
    <3>1. ~cut[i + 1]
      BY <2>2, <2>5
    <3>2. i + 1 \notin Separators(t)
      BY <2>5 DEF Separators
    <3>3. QED
      BY <3>1, <3>2
  <2>6. QED
    BY <2>4, <2>5
<1>7. \A i \in S : i + 1 \in S
  BY <1>6
<1>8. S = Nat
  <2> HIDE DEF S
  <2>1. S \in SUBSET Nat
    BY DEF S
  <2>2. QED
    BY <1>5, <1>7, <2>1, Induct
<1>9. \A i \in 1..n : cut[i] <=> i \in Separators(t)
  BY <1>0, <1>8
<1>10. QED
  BY <1>3, <1>9 DEF Separators

\* Blocks put together with separators between them are what the text is split into.
LEMMA JoinedSplits ==
    ASSUME NEW L, NEW bs \in Seq(Seq(L)), Separator \in L, Len(bs) > 0,
           \A i \in 1..Len(bs) : bs[i] # <<>> /\ Separator \notin Range(bs[i])
    PROVE  LET joined == FlattenSeq([i \in DOMAIN bs |->
                             IF i = 1 THEN bs[i] ELSE <<Separator>> \o bs[i]])
           IN  /\ joined \in Seq(L) /\ Len(joined) > 0 /\ joined[1] = bs[1][1]
               /\ Blocks(joined) = Range(bs)
<1> DEFINE n == Len(bs)
           parts == [i \in DOMAIN bs |-> IF i = 1 THEN bs[i] ELSE <<Separator>> \o bs[i]]
<1>0. n \in Nat \ {0} /\ DOMAIN bs = 1..n
  OBVIOUS
<1>1. Len(parts) = n
  <2>1. DOMAIN parts = 1..n
    BY <1>0
  <2>2. QED
    BY <1>0, <2>1
<1>2. PICK f : /\ FlattenSeq(parts) = f[n]
               /\ f[1] = parts[1]
               /\ \A i \in 2..n : f[i] = f[i - 1] \o parts[i]
  <2> HIDE DEF parts
  <2>1. Len(parts) \in Nat \ {0}
    BY <1>0, <1>1
  <2>2. \E f : /\ FlattenSeq(parts) = f[Len(parts)]
               /\ f[1] = parts[1]
               /\ \A i \in 2..Len(parts) : f[i] = f[i - 1] \o parts[i]
    BY <2>1, FlattenUnfolds
  <2>3. QED
    BY <1>1, <2>2
<1>3. f[1] = bs[1] /\ \A i \in 2..n : f[i] = Joined(f[i - 1], bs[i])
  <2>1. parts[1] = bs[1] /\ \A i \in 2..n : parts[i] = <<Separator>> \o bs[i]
    BY <1>0
  <2> HIDE DEF parts
  <2>2. QED
    BY <1>2, <2>1 DEF Joined
<1> DEFINE Good(k) ==
             /\ f[k] \in Seq(L) /\ Len(f[k]) > 0 /\ f[k][1] = bs[1][1]
             /\ Fenced(f[k]) /\ f[k][Len(f[k])] # Separator
             /\ Between(f[k], Separators(f[k])) = {bs[i] : i \in 1..k}
           S == {k \in Nat : k + 1 <= n => Good(k + 1)}
<1>4. ASSUME NEW k \in 1..n
      PROVE  /\ bs[k] \in Seq(L) /\ Len(bs[k]) \in Nat \ {0}
             /\ \A j \in 1..Len(bs[k]) : bs[k][j] # Separator
  <2>1. bs[k] \in Seq(L) /\ bs[k] # <<>> /\ Separator \notin Range(bs[k])
    BY <1>0
  <2>2. Len(bs[k]) \in Nat \ {0} /\ DOMAIN bs[k] = 1..Len(bs[k])
    BY <2>1, EmptySeq
  <2>3. QED
    BY <2>1, <2>2 DEF Range
<1>5. Good(1)
  <2>1. 1 \in 1..n /\ bs[1] = f[1]
    BY <1>0, <1>3
  <2>2. Separators(bs[1]) = {} /\ Fenced(bs[1])
    BY <1>4, <2>1 DEF Separators, Fenced
  <2>3. Between(bs[1], {}) = {bs[1]}
    BY <1>4, <2>1, BetweenNone
  <2>4. {bs[i] : i \in 1..1} = {bs[1]}
    OBVIOUS
  <2>5. Len(bs[1]) \in 1..Len(bs[1]) /\ bs[1] \in Seq(L) /\ Len(bs[1]) > 0
    BY <1>4, <2>1
  <2>6. bs[1][Len(bs[1])] # Separator
    BY <1>4, <2>1, <2>5
  <2>7. QED
    BY <2>1, <2>2, <2>3, <2>4, <2>5, <2>6
<1>6. ASSUME NEW k \in Nat, k + 2 <= n, Good(k + 1) PROVE Good(k + 2)
  <2> DEFINE t == f[k + 1]
             b == bs[k + 2]
             u == f[k + 2]
  <2>1. k + 2 \in 2..n /\ (k + 2) - 1 = k + 1 /\ k + 2 \in 1..n
    BY <1>0, <1>6
  <2>2. u = Joined(t, b)
    BY <1>3, <2>1
  <2>3. /\ b \in Seq(L) /\ Len(b) \in Nat \ {0}
        /\ \A j \in 1..Len(b) : b[j] # Separator
    BY <1>4, <2>1
  <2>4. t \in Seq(L) /\ Len(t) \in Nat \ {0}
    BY <1>6
  <2>5. u \in Seq(L) /\ Len(u) = Len(t) + 1 + Len(b)
    <3> HIDE DEF t, b, u
    <3>1. <<Separator>> \in Seq(L) /\ Len(<<Separator>>) = 1
      OBVIOUS
    <3>2. QED
      BY <2>2, <2>3, <2>4, <3>1 DEF Joined
  <2>6. /\ \A i \in 1..Len(t) : u[i] = t[i]
        /\ u[Len(t) + 1] = Separator
        /\ \A i \in 1..Len(b) : u[Len(t) + 1 + i] = b[i]
    <3> HIDE DEF t, b, u
    <3>1. QED
      BY <2>2, <2>3, <2>4 DEF Joined
  <2>7. /\ t[1] = bs[1][1] /\ Fenced(t) /\ t[Len(t)] # Separator
        /\ Between(t, Separators(t)) = {bs[i] : i \in 1..(k + 1)}
    BY <1>6
  <2> HIDE DEF t, b, u
  <2>8. ASSUME NEW i \in 1..Len(u)
        PROVE  \/ i \in 1..Len(t) /\ u[i] = t[i]
               \/ i = Len(t) + 1 /\ u[i] = Separator
               \/ i \in (Len(t) + 2)..Len(u) /\ u[i] # Separator
    <3>1. CASE i > Len(t) + 1
      <4> DEFINE j == i - (Len(t) + 1)
      <4>1. j \in 1..Len(b) /\ i = Len(t) + 1 + j
        BY <2>3, <2>4, <2>5, <3>1
      <4> HIDE DEF j
      <4>2. u[i] = b[j] /\ b[j] # Separator
        BY <2>3, <2>6, <4>1
      <4>3. i \in (Len(t) + 2)..Len(u)
        BY <2>3, <2>4, <2>5, <3>1
      <4>4. QED
        BY <4>2, <4>3
    <3>2. QED
      BY <2>3, <2>4, <2>5, <2>6, <3>1
  <2>9. Separators(u) = Separators(t) \cup {Len(t) + 1}
    BY <2>3, <2>4, <2>5, <2>6, <2>8 DEF Separators
  <2>10. Fenced(u)
    <3> SUFFICES ASSUME NEW i \in 1..Len(u), u[i] = Separator
                 PROVE  i > 1 /\ i < Len(u) /\ u[i - 1] # Separator
      BY DEF Fenced
    <3>1. CASE i \in 1..Len(t) /\ u[i] = t[i]
      <4>1. i > 1 /\ i < Len(t) /\ t[i - 1] # Separator /\ i - 1 \in 1..Len(t)
        BY <2>4, <2>7, <3>1 DEF Fenced
      <4>2. u[i - 1] = t[i - 1]
        BY <2>6, <4>1
      <4>3. i < Len(u)
        BY <2>3, <2>4, <2>5, <4>1
      <4>4. QED
        BY <4>1, <4>2, <4>3
    <3>2. CASE i = Len(t) + 1
      <4>1. i > 1 /\ i < Len(u) /\ i - 1 = Len(t) /\ Len(t) \in 1..Len(t)
        BY <2>3, <2>4, <2>5, <3>2
      <4>2. u[i - 1] = t[Len(t)]
        BY <2>6, <4>1
      <4>3. QED
        BY <2>7, <4>1, <4>2
    <3>3. QED
      BY <2>8, <3>1, <3>2
  <2>11. Between(u, Separators(u)) = {bs[i] : i \in 1..(k + 2)}
    <3>1. Separators(t) \in SUBSET (1..Len(t))
      BY DEF Separators
    <3>2. Between(u, Separators(u)) = Between(t, Separators(t)) \cup {b}
      <4>1. Between(u, Separators(t) \cup {Len(t) + 1}) = Between(t, Separators(t)) \cup {b}
        BY <2>2, <2>3, <2>4, <2>5, BetweenMore
      <4>2. QED
        BY <2>9, <4>1
    <3>3. {bs[i] : i \in 1..(k + 2)} = {bs[i] : i \in 1..(k + 1)} \cup {bs[k + 2]}
      <4>1. 1..(k + 2) = 1..(k + 1) \cup {k + 2}
        OBVIOUS
      <4>2. QED
        BY <4>1
    <3>4. QED
      BY <2>7, <3>2, <3>3 DEF b
  <2>12. u[1] = bs[1][1] /\ Len(u) > 0
    BY <2>3, <2>4, <2>5, <2>6, <2>7
  <2>13. u[Len(u)] # Separator
    <3>1. Len(u) \in 1..Len(u) /\ Len(u) > Len(t) + 1 /\ Len(u) \notin 1..Len(t)
      BY <2>3, <2>4, <2>5
    <3>2. Len(u) # Len(t) + 1
      BY <2>4, <3>1
    <3>3. QED
      BY <2>8, <3>1, <3>2
  <2>14. QED
    BY <2>5, <2>10, <2>11, <2>12, <2>13 DEF u
<1>7. Good(n)
  <2> HIDE DEF Good
  <2>1. 0 \in S
    BY <1>5
  <2>2. ASSUME NEW k \in S PROVE k + 1 \in S
    <3>1. k \in Nat /\ k + 1 \in Nat /\ (k + 1) + 1 = k + 2 /\ (k + 2 <= n => k + 1 <= n)
      BY <1>0
    <3>2. QED
      BY <1>6, <3>1
  <2>3. S = Nat
    <3> HIDE DEF S
    <3>1. S \in SUBSET Nat
      BY DEF S
    <3>2. QED
      BY <2>1, <2>2, <3>1, Induct
  <2>4. n - 1 \in Nat /\ (n - 1) + 1 = n /\ n <= n
    BY <1>0
  <2> HIDE DEF n
  <2>5. QED
    BY <2>3, <2>4
<1>8. Blocks(f[n]) = {bs[i] : i \in 1..n}
  <2>1. Cuts(f[n]) = Separators(f[n])
    BY <1>7, CutsAreSeparators
  <2>2. Blocks(f[n]) = Between(f[n], Cuts(f[n]))
    BY DEF Blocks, Between
  <2>3. QED
    BY <1>7, <2>1, <2>2
<1>9. {bs[i] : i \in 1..n} = Range(bs)
  BY <1>0 DEF Range
<1> HIDE DEF parts
<1>10. QED
  BY <1>2, <1>7, <1>8, <1>9 DEF parts
-----------------------------------------------------------------------------
(* Lines.                                                                  *)

\* A text without a carriage return is read as it was written.
LEMMA PlainTextReads ==
    ASSUME NEW P, NEW text \in Seq({<<p>> : p \in P})
    PROVE  ReadText(text) = text
<1> DEFINE split(i) ==
             LET pieces == IF Len(text[i]) > 1 /\ Last(text[i]) = Blank
                           THEN Front(text[i]) ELSE text[i]
             IN  [j \in DOMAIN pieces |-> <<pieces[j]>>]
<1>1. ASSUME NEW i \in DOMAIN text PROVE split(i) = <<text[i]>>
  <2>1. PICK p \in P : text[i] = <<p>>
    OBVIOUS
  <2>2. Len(text[i]) = 1
    BY <2>1
  <2>3. split(i) = [j \in DOMAIN text[i] |-> <<text[i][j]>>]
    BY <2>2
  <2>4. [j \in DOMAIN <<p>> |-> <<(<<p>>)[j]>>] = <<(<<p>>)>>
    OBVIOUS
  <2>5. QED
    BY <2>1, <2>3, <2>4
<1>2. [i \in DOMAIN text |-> split(i)] = [i \in DOMAIN text |-> <<text[i]>>]
  <2> HIDE DEF split
  <2>1. QED
    BY <1>1
<1>3. ReadText(text) = FlattenSeq([i \in DOMAIN text |-> split(i)])
  BY DEF ReadText
<1> HIDE DEF split
<1>4. FlattenSeq([i \in DOMAIN text |-> <<text[i]>>]) = text
  BY FlattenSingles
<1>5. QED
  BY <1>2, <1>3, <1>4

\* The comment a dump starts with is what is trimmed from it.
LEMMA HeadIsTrimmed ==
    ASSUME NEW L, NEW body \in Seq(L), <<Comment>> \in L, <<Blank>> \in L,
           body # <<>> => body[1] \notin {<<Comment>>, <<Blank>>}
    PROVE  LET head == << <<Comment>>, <<Comment>>, <<Blank>> >> IN
           head \o body \in Seq(L) /\ Trimmed(head \o body) = body
<1> DEFINE head == << <<Comment>>, <<Comment>>, <<Blank>> >>
           text == head \o body
           kept == {i \in DOMAIN text : text[i] \notin {<<Comment>>, <<Blank>>}}
<1>1. head \in Seq(L) /\ Len(head) = 3
  OBVIOUS
<1>2. \A i \in 1..3 : head[i] \in {<<Comment>>, <<Blank>>}
  OBVIOUS
<1>3. /\ text \in Seq(L) /\ Len(text) = 3 + Len(body) /\ DOMAIN text = 1..(3 + Len(body))
      /\ \A i \in 1..3 : text[i] = head[i]
      /\ \A i \in 1..Len(body) : text[3 + i] = body[i]
  <2> HIDE DEF head
  <2>1. /\ text \in Seq(L) /\ Len(text) = 3 + Len(body)
        /\ \A i \in 1..(3 + Len(body)) :
             text[i] = IF i <= 3 THEN head[i] ELSE body[i - 3]
    <3>1. /\ head \o body \in Seq(L) /\ Len(head \o body) = Len(head) + Len(body)
          /\ \A i \in 1..(Len(head) + Len(body)) :
               (head \o body)[i] = IF i <= Len(head) THEN head[i] ELSE body[i - Len(head)]
      BY <1>1, ConcatProperties
    <3>2. QED
      BY <1>1, <3>1
  <2>2. Len(body) \in Nat
    OBVIOUS
  <2> HIDE DEF text
  <2>3. DOMAIN text = 1..(3 + Len(body))
    BY <2>1
  <2>4. ASSUME NEW i \in 1..Len(body) PROVE text[3 + i] = body[i]
    <3>1. 3 + i \in 1..(3 + Len(body)) /\ ~(3 + i <= 3) /\ (3 + i) - 3 = i
      BY <2>2
    <3>2. QED
      BY <2>1, <3>1
  <2>5. \A i \in 1..3 : text[i] = head[i]
    BY <2>1, <2>2
  <2>6. QED
    BY <2>1, <2>3, <2>4, <2>5
<1>4. Trimmed(text) = IF kept = {} THEN <<>> ELSE SubSeq(text, Min(kept), Len(text))
  BY DEF Trimmed
<1> HIDE DEF text, head
<1>5. kept \in SUBSET Nat /\ \A i \in kept : 4 <= i /\ i <= 3 + Len(body)
  BY <1>2, <1>3
<1>6. CASE body = <<>>
  <2>1. kept = {}
    BY <1>5, <1>6
  <2>2. QED
    BY <1>3, <1>4, <1>6, <2>1 DEF text, head
<1>7. CASE body # <<>>
  <2>1. Len(body) \in Nat \ {0}
    BY <1>7, EmptySeq
  <2>2. 4 \in kept
    <3>1. 1 \in 1..Len(body) /\ 3 + 1 = 4 /\ 4 \in DOMAIN text
      BY <1>3, <2>1
    <3>2. text[4] = body[1]
      BY <1>3, <3>1
    <3>3. QED
      BY <1>7, <3>1, <3>2
  <2>3. Min(kept) = 4
    <3> HIDE DEF kept
    <3>1. Min(kept) \in kept /\ \A k \in kept : Min(kept) <= k
      BY <1>5, <2>2, LeastOf
    <3>2. Min(kept) \in Nat /\ Min(kept) <= 4 /\ 4 <= Min(kept)
      BY <1>5, <2>2, <3>1
    <3>3. QED
      BY <3>2
  <2>4. SubSeq(text, 4, Len(text)) = body
    <3>1. /\ SubSeq(text, 4, Len(text)) \in Seq(L)
          /\ Len(SubSeq(text, 4, Len(text))) = Len(body)
          /\ \A i \in 1..Len(body) : SubSeq(text, 4, Len(text))[i] = body[i]
      BY <1>3, <2>1
    <3>2. QED
      BY <3>1, SeqEqual
  <2>5. QED
    BY <1>3, <1>4, <2>2, <2>3, <2>4 DEF text, head
<1>8. QED
  BY <1>6, <1>7

\* A piece that looks like a rule of dashes is one.
Pieces(P) == \A p \in P : p[1] = "rule" => \E k \in Nat : p = Rule(k)

\* A block holds no separator, and the text in it is read back as it was.
LEMMA BlockReads ==
    ASSUME NEW P, Pieces(P), NEW t \in Seq({<<p>> : p \in P}),
           NEW h, h[1] \in {"node", "event"},
           NEW L, <<h>> \in L, <<Blank>> \in L, {<<p>> : p \in P} \subseteq L,
           \A k \in Nat : <<Rule(k)>> \in L
    PROVE  /\ Block(h, t) \in Seq(L) /\ Block(h, t) # <<>>
           /\ Block(h, t)[1] = <<h>>
           /\ Separator \notin Range(Block(h, t))
           /\ TextOf(Block(h, t)) = t
<1> DEFINE b == Block(h, t)
           n == Len(t)
           escaped == [i \in DOMAIN t |-> Escape(t[i])]
           head == << <<h>>, <<Blank>> >>
<1>0. n \in Nat /\ DOMAIN t = 1..n
  OBVIOUS
<1>1. ASSUME NEW i \in 1..n
      PROVE  /\ Escape(t[i]) \in L /\ Escape(t[i]) # Separator
             /\ Unescape(Escape(t[i])) = t[i]
  <2>1. PICK p \in P : t[i] = <<p>>
    BY <1>0
  <2>2. CASE p[1] = "rule"
    <3>1. PICK k \in Nat : p = Rule(k)
      BY <2>2 DEF Pieces
    <3>2. t[i] = <<Rule(k)>> /\ k + 1 \in Nat
      BY <2>1, <3>1
    <3>3. Escape(t[i]) = <<Rule(k + 1)>>
      BY <3>2 DEF Escape, IsRule, Rule
    <3>4. QED
      BY <3>2, <3>3, EscapedIsNoSeparator, UnescapeUndoesEscape
  <2>3. CASE p[1] # "rule"
    <3>1. ~IsRule(t[i]) /\ t[i] \in L
      BY <2>1, <2>3 DEF IsRule
    <3>2. Escape(t[i]) = t[i]
      BY <3>1 DEF Escape
    <3>3. 0 \in Nat
      OBVIOUS
    <3>4. QED
      BY <3>1, <3>2, <3>3, EscapedIsNoSeparator, UnescapeUndoesEscape
  <2>4. QED
    BY <2>2, <2>3
<1>2. escaped \in Seq(L) /\ Len(escaped) = n /\ \A i \in 1..n : escaped[i] = Escape(t[i])
  BY <1>0, <1>1
<1>3. head \in Seq(L) /\ Len(head) = 2 /\ head[1] = <<h>> /\ head[2] = <<Blank>>
  OBVIOUS
<1> HIDE DEF head, escaped
<1>4. /\ b \in Seq(L) /\ Len(b) = 2 + n
      /\ \A i \in 1..(2 + n) : b[i] = IF i <= 2 THEN head[i] ELSE escaped[i - 2]
  <2>1. b = head \o escaped
    BY DEF Block, head, escaped
  <2>2. /\ head \o escaped \in Seq(L) /\ Len(head \o escaped) = Len(head) + Len(escaped)
        /\ \A i \in 1..(Len(head) + Len(escaped)) :
             (head \o escaped)[i] = IF i <= Len(head) THEN head[i]
                                    ELSE escaped[i - Len(head)]
    <3>1. head \in Seq(L) /\ escaped \in Seq(L)
      BY <1>2, <1>3
    <3>2. QED
      BY <3>1, ConcatProperties
  <2>3. QED
    BY <1>2, <1>3, <2>1, <2>2
<1> HIDE DEF b
<1>5. /\ DOMAIN b = 1..(2 + n) /\ b[1] = <<h>> /\ b[2] = <<Blank>>
      /\ \A i \in 1..n : b[2 + i] = Escape(t[i])
  <2>1. DOMAIN b = 1..(2 + n)
    BY <1>0, <1>4
  <2>2. b[1] = <<h>> /\ b[2] = <<Blank>>
    BY <1>0, <1>3, <1>4
  <2>3. ASSUME NEW i \in 1..n PROVE b[2 + i] = Escape(t[i])
    <3>1. 2 + i \in 1..(2 + n) /\ ~(2 + i <= 2) /\ (2 + i) - 2 = i
      BY <1>0
    <3>2. QED
      BY <1>2, <1>4, <3>1
  <2>4. QED
    BY <2>1, <2>2, <2>3
<1>6. Blank[1] = "blank" /\ h # Blank /\ h # Rule(0)
  BY DEF Blank, Rule
<1>7. b[1] # Separator /\ b[2] # Separator /\ b[1] # <<Blank>>
  BY <1>5, <1>6 DEF Separator, Blank, Rule
<1>8. Separator \notin Range(b)
  <2> SUFFICES ASSUME NEW i \in 1..(2 + n), b[i] = Separator PROVE FALSE
    BY <1>5 DEF Range
  <2>1. CASE i > 2
    <3> DEFINE j == i - 2
    <3>1. j \in 1..n /\ i = 2 + j
      BY <1>0, <2>1
    <3> HIDE DEF j
    <3>2. QED
      BY <1>1, <1>5, <3>1
  <2>2. CASE i = 1 \/ i = 2
    BY <1>7, <2>2
  <2>3. QED
    BY <1>0, <2>1, <2>2
<1>9. SelectInSeq(b, LAMBDA line : line = <<Blank>>) = 2
  <2> DEFINE I == {i \in 1..Len(b) : b[i] = <<Blank>>}
  <2>1. 2 \in I /\ 1 \notin I /\ I \in SUBSET Nat
    BY <1>0, <1>4, <1>5, <1>7
  <2>2. SelectInSeq(b, LAMBDA line : line = <<Blank>>) = IF I # {} THEN Min(I) ELSE 0
    BY DEF SelectInSeq
  <2>3. \A i \in I : i >= 1
    OBVIOUS
  <2> HIDE DEF I
  <2>4. Min(I) \in I /\ \A k \in I : Min(I) <= k
    BY <2>1, LeastOf
  <2>5. Min(I) \in Nat /\ Min(I) >= 1 /\ Min(I) # 1 /\ Min(I) <= 2
    BY <2>1, <2>3, <2>4
  <2>6. QED
    BY <2>1, <2>2, <2>5
<1>10. TextOf(b) = t
  <2> DEFINE s == SubSeq(b, 1 + 2, Len(b))
  <2>1. TextOf(b) = [i \in DOMAIN s |-> Unescape(s[i])]
    BY <1>9 DEF TextOf
  <2>2. s \in Seq(L) /\ Len(s) = n /\ \A i \in 1..n : s[i] = b[2 + i]
    BY <1>0, <1>4
  <2> HIDE DEF s
  <2>3. DOMAIN s = 1..n
    BY <1>0, <2>2
  <2>4. \A i \in 1..n : Unescape(s[i]) = t[i]
    BY <1>1, <1>5, <2>2
  <2>5. TextOf(b) = [i \in 1..n |-> t[i]]
    BY <2>1, <2>3, <2>4
  <2>6. QED
    BY <1>0, <2>5
<1>11. QED
  BY <1>4, <1>5, <1>8, <1>10 DEF b
-----------------------------------------------------------------------------
(* A whole dump.                                                           *)

\* Pairs as a dump makes them: each node once, each event with its node.
Tidy(ps) ==
    /\ IsFiniteSet(ps)
    /\ \A p \in ps : IsFiniteSet(p.events) /\ \A e \in p.events : e.says.on = p.node.id
    /\ \A p, q \in ps : p.node.id = q.node.id => p = q

\* The texts are made of those pieces, a piece a line.
TextIsPlain(P) == Pieces(P) /\ Text \in [Nodes -> Seq({<<p>> : p \in P})]

\* A block's header and the block.
NodeHead(p)   == <<"node", p.node, p.edges>>
EventHead(e)  == <<"event", e.says>>
NodeBlock(p)  == Block(NodeHead(p), p.body)
EventBlock(e) == Block(EventHead(e), e.reason)
Entries       == {Entry(e) : e \in Event}

\* Every piece a dump can hold.
Printed(P) == P \cup {Blank, Comment} \cup {Rule(k) : k \in Nat}
                \cup {NodeHead(p) : p \in Pair} \cup {EventHead(e) : e \in Entries}
Lines(P)   == {<<p>> : p \in Printed(P)}

\* The block of every node and of every event holds no separator, and its text is
\* read back.
LEMMA BlocksRead ==
    ASSUME NEW P, TextIsPlain(P)
    PROVE  /\ \A p \in Pair :
               LET b == NodeBlock(p) IN
               /\ b \in Seq(Lines(P)) /\ b # <<>> /\ Separator \notin Range(b)
               /\ b[1] = <<NodeHead(p)>> /\ TextOf(b) = p.body
           /\ \A e \in Entries :
               LET b == EventBlock(e) IN
               /\ b \in Seq(Lines(P)) /\ b # <<>> /\ Separator \notin Range(b)
               /\ b[1] = <<EventHead(e)>> /\ TextOf(b) = e.reason
<1> DEFINE L == Lines(P)
<1>1. /\ <<Blank>> \in L /\ {<<p>> : p \in P} \subseteq L
      /\ \A k \in Nat : <<Rule(k)>> \in L
  BY DEF Lines, Printed
<1>2. /\ \A p \in Pair : <<NodeHead(p)>> \in L
      /\ \A e \in Entries : <<EventHead(e)>> \in L
  BY DEF Lines, Printed
<1>3. \A p \in Pair : p.body \in Seq({<<q>> : q \in P})
  BY DEF Pair, TextIsPlain
<1>4. \A e \in Entries : e.reason \in Seq({<<q>> : q \in P})
  BY DEF Entries, Entry, Event, TextIsPlain
<1>5. /\ \A p : NodeHead(p)[1] \in {"node", "event"}
      /\ \A e : EventHead(e)[1] \in {"node", "event"}
  BY DEF NodeHead, EventHead
<1> HIDE DEF L
<1>6. Pieces(P)
  BY DEF TextIsPlain
<1>7. ASSUME NEW p \in Pair
      PROVE  LET b == NodeBlock(p) IN
             /\ b \in Seq(L) /\ b # <<>> /\ Separator \notin Range(b)
             /\ b[1] = <<NodeHead(p)>> /\ TextOf(b) = p.body
  <2> DEFINE h == NodeHead(p)
             t == p.body
  <2>1. h[1] \in {"node", "event"} /\ <<h>> \in L /\ t \in Seq({<<q>> : q \in P})
    BY <1>2, <1>3, <1>5
  <2> HIDE DEF h, t
  <2>2. /\ Block(h, t) \in Seq(L) /\ Block(h, t) # <<>>
        /\ Block(h, t)[1] = <<h>> /\ Separator \notin Range(Block(h, t))
        /\ TextOf(Block(h, t)) = t
    BY <1>1, <1>6, <2>1, BlockReads
  <2>3. QED
    BY <2>2 DEF NodeBlock, h, t
<1>8. ASSUME NEW e \in Entries
      PROVE  LET b == EventBlock(e) IN
             /\ b \in Seq(L) /\ b # <<>> /\ Separator \notin Range(b)
             /\ b[1] = <<EventHead(e)>> /\ TextOf(b) = e.reason
  <2> DEFINE h == EventHead(e)
             t == e.reason
  <2>1. h[1] \in {"node", "event"} /\ <<h>> \in L /\ t \in Seq({<<q>> : q \in P})
    BY <1>2, <1>4, <1>5
  <2> HIDE DEF h, t
  <2>2. /\ Block(h, t) \in Seq(L) /\ Block(h, t) # <<>>
        /\ Block(h, t)[1] = <<h>> /\ Separator \notin Range(Block(h, t))
        /\ TextOf(Block(h, t)) = t
    BY <1>1, <1>6, <2>1, BlockReads
  <2>3. QED
    BY <2>2 DEF EventBlock, h, t
<1>9. QED
  BY <1>7, <1>8 DEF L

\* What node p adds to the text.
BlocksOf(p) == {NodeBlock(p)} \cup {EventBlock(e) : e \in p.events}

\* The blocks of a node are its own and those of its events.
LEMMA NodeBlocksRead ==
    ASSUME NEW P, TextIsPlain(P), NEW p \in Pair, IsFiniteSet(p.events)
    PROVE  /\ NodeBlocks(p) \in Seq(Seq(Lines(P)))
           /\ Range(NodeBlocks(p)) = BlocksOf(p)
           /\ NodeBlocks(p) # <<>>
<1> DEFINE S == Seq(Lines(P))
           head == <<NodeBlock(p)>>
           E == {EventBlock(e) : e \in p.events}
           tail == SetToSeq(E)
<1>1. p.events \subseteq Entries
  BY DEF Pair, Entries
<1>2. NodeBlock(p) \in S /\ E \subseteq S
  BY <1>1, BlocksRead
<1>3. IsFiniteSet(E)
  <2>1. [e \in p.events |-> EventBlock(e)] \in Surjection(p.events, E)
    BY DEF Surjection
  <2> HIDE DEF E
  <2>2. QED
    BY <2>1, FS_Surjection
<1> HIDE DEF E, S
<1>4. tail \in Seq(E) /\ {tail[i] : i \in 1..Len(tail)} = E
  BY <1>3, ListedSet
<1> HIDE DEF tail
<1>5. tail \in Seq(S) /\ Range(tail) = E
  <2>1. tail \in Seq(S)
    BY <1>2, <1>4, SeqMonotonic
  <2>2. DOMAIN tail = 1..Len(tail)
    BY <1>4
  <2>3. QED
    BY <1>4, <2>1, <2>2 DEF Range
<1>6. head \in Seq(S) /\ Range(head) = {NodeBlock(p)} /\ Len(head) = 1
  <2>1. head \in Seq(S) /\ Len(head) = 1 /\ DOMAIN head = {1} /\ head[1] = NodeBlock(p)
    BY <1>2
  <2>2. QED
    BY <2>1 DEF Range
<1> HIDE DEF head
<1>7. NodeBlocks(p) = head \o tail
  BY DEF NodeBlocks, head, tail, E, NodeBlock, EventBlock, NodeHead, EventHead
<1>8. /\ head \o tail \in Seq(S) /\ Range(head \o tail) = Range(head) \cup Range(tail)
      /\ head \o tail # <<>>
  <2>1. head \o tail \in Seq(S) /\ Range(head \o tail) = Range(head) \cup Range(tail)
    BY <1>5, <1>6, RangeConcatenation
  <2>2. Range(<<>>) = {}
    BY DEF Range
  <2> HIDE DEF tail
  <2>3. QED
    BY <1>6, <2>1, <2>2
<1>9. QED
  BY <1>5, <1>6, <1>7, <1>8 DEF S, E, BlocksOf

\* What all of them add.
AllBlocks(ps) == UNION {BlocksOf(p) : p \in ps}

\* After its comment, a dump is split into exactly the blocks of what was dumped.
LEMMA DumpedBlocks ==
    ASSUME NEW P, TextIsPlain(P), NEW ps \in SUBSET Pair, Tidy(ps), ps # {}
    PROVE  \E joined \in Seq(Lines(P)) :
               /\ joined # <<>> /\ Blocks(joined) = AllBlocks(ps)
               /\ joined[1] \notin {<<Comment>>, <<Blank>>}
               /\ DumpAll(SetToSeq(ps))
                    = << <<Comment>>, <<Comment>>, <<Blank>> >> \o joined
<1> DEFINE S == Seq(Lines(P))
           sq == SetToSeq(ps)
           parts == [i \in DOMAIN sq |-> NodeBlocks(sq[i])]
           bs == FlattenSeq(parts)
           joined == FlattenSeq([i \in DOMAIN bs |->
                         IF i = 1 THEN bs[i] ELSE <<Separator>> \o bs[i]])
<1>1. sq \in Seq(ps) /\ {sq[i] : i \in 1..Len(sq)} = ps
  BY ListedSet DEF Tidy
<1>2. DumpAll(sq) = << <<Comment>>, <<Comment>>, <<Blank>> >> \o joined
  BY DEF DumpAll
<1> HIDE DEF S, sq
<1>3. Len(sq) \in Nat /\ DOMAIN sq = 1..Len(sq) /\ \A i \in 1..Len(sq) : sq[i] \in ps
  BY <1>1
<1>4. \A p \in ps : /\ NodeBlocks(p) \in Seq(S) /\ NodeBlocks(p) # <<>>
                    /\ Range(NodeBlocks(p)) = BlocksOf(p)
  BY NodeBlocksRead DEF S, Tidy
<1>5. /\ parts \in Seq(Seq(S)) /\ Len(parts) = Len(sq)
      /\ \A i \in 1..Len(sq) : parts[i] = NodeBlocks(sq[i])
  BY <1>3, <1>4
<1> HIDE DEF parts
<1>6. bs \in Seq(S) /\ Range(bs) = UNION {Range(parts[i]) : i \in 1..Len(parts)}
  BY <1>5, FlattenRange
<1> HIDE DEF bs
<1>7. Range(bs) = AllBlocks(ps)
  <2>1. \A i \in 1..Len(sq) : Range(parts[i]) = BlocksOf(sq[i])
    BY <1>3, <1>4, <1>5
  <2>2. {Range(parts[i]) : i \in 1..Len(parts)} = {BlocksOf(sq[i]) : i \in 1..Len(sq)}
    BY <1>5, <2>1
  <2>3. {BlocksOf(sq[i]) : i \in 1..Len(sq)} = {BlocksOf(p) : p \in ps}
    BY <1>1
  <2>4. QED
    BY <1>6, <2>2, <2>3 DEF AllBlocks
<1>8. \A b \in AllBlocks(ps) :
        /\ b # <<>> /\ Separator \notin Range(b)
        /\ b[1] \notin {<<Comment>>, <<Blank>>}
  <2>1. \A p \in ps : p.events \subseteq Entries
    BY DEF Pair, Entries
  <2>2. ASSUME NEW b \in AllBlocks(ps)
        PROVE  \/ \E p \in Pair : b = NodeBlock(p)
               \/ \E e \in Entries : b = EventBlock(e)
    BY <2>1 DEF AllBlocks, BlocksOf
  <2>3. /\ \A p : <<NodeHead(p)>> \notin {<<Comment>>, <<Blank>>}
        /\ \A e : <<EventHead(e)>> \notin {<<Comment>>, <<Blank>>}
    BY DEF NodeHead, EventHead, Comment, Blank
  <2>4. QED
    BY <2>2, <2>3, BlocksRead
<1>9. Len(bs) > 0
  <2>1. PICK p \in ps : TRUE
    OBVIOUS
  <2>2. NodeBlock(p) \in Range(bs)
    BY <1>7 DEF AllBlocks, BlocksOf
  <2>3. DOMAIN bs = 1..Len(bs) /\ Len(bs) \in Nat
    BY <1>6
  <2>4. QED
    BY <2>2, <2>3 DEF Range
<1>10. \A i \in 1..Len(bs) : bs[i] \in AllBlocks(ps)
  <2>1. DOMAIN bs = 1..Len(bs)
    BY <1>6
  <2>2. QED
    BY <1>7, <2>1 DEF Range
<1>11. Separator \in Lines(P)
  BY DEF Lines, Printed, Separator
<1>12. /\ joined \in Seq(Lines(P)) /\ Len(joined) > 0 /\ joined[1] = bs[1][1]
       /\ Blocks(joined) = Range(bs)
  BY <1>6, <1>8, <1>9, <1>10, <1>11, JoinedSplits DEF S
<1> HIDE DEF joined
<1>13. joined[1] \notin {<<Comment>>, <<Blank>>} /\ joined # <<>>
  <2>1. 1 \in 1..Len(bs)
    BY <1>6, <1>9
  <2>2. QED
    BY <1>8, <1>10, <1>12, <2>1
<1>14. QED
  BY <1>2, <1>7, <1>12, <1>13 DEF sq

\* Nothing is parsed from a dump of no nodes.
LEMMA EmptyComesBack ==
    ASSUME NEW P, TextIsPlain(P)
    PROVE  ParseDump(ReadText(DumpAll(SetToSeq({})))) = {}
<1> DEFINE head == << <<Comment>>, <<Comment>>, <<Blank>> >>
<1>1. SetToSeq({}) = <<>>
  <2>1. IsFiniteSet({})
    BY FS_EmptySet
  <2>2. SetToSeq({}) \in Seq({})
    BY <2>1, ListedSet
  <2>3. QED
    BY <2>2
<1>2. DumpAll(<<>>) = head \o <<>>
  <2>1. [i \in DOMAIN <<>> |-> NodeBlocks((<<>>)[i])] = <<>>
    OBVIOUS
  <2>2. FlattenSeq(<<>>) = <<>>
    BY FlattenOfNone
  <2>3. [i \in DOMAIN <<>> |-> IF i = 1 THEN (<<>>)[i] ELSE <<Separator>> \o (<<>>)[i]] = <<>>
    OBVIOUS
  <2> DEFINE bs == FlattenSeq([i \in DOMAIN <<>> |-> NodeBlocks((<<>>)[i])])
  <2>4. DumpAll(<<>>) = head \o FlattenSeq([i \in DOMAIN bs |->
                          IF i = 1 THEN bs[i] ELSE <<Separator>> \o bs[i]])
    BY DEF DumpAll
  <2>5. bs = <<>>
    BY <2>1, <2>2
  <2> HIDE DEF bs, head
  <2>6. QED
    BY <2>2, <2>3, <2>4, <2>5
<1>3. ReadText(head \o <<>>) = head \o <<>> /\ Trimmed(head \o <<>>) = <<>>
  <2>1. <<>> \in Seq(Lines(P)) /\ <<Comment>> \in Lines(P) /\ <<Blank>> \in Lines(P)
    BY DEF Lines, Printed
  <2>2. head \o <<>> \in Seq(Lines(P)) /\ Trimmed(head \o <<>>) = <<>>
    BY <2>1, HeadIsTrimmed
  <2>3. QED
    BY <2>2, PlainTextReads DEF Lines
<1>4. Headed("node", <<>>) = {}
  <2>1. Cuts(<<>>) = {}
    BY DEF Cuts
  <2>2. Between(<<>>, {}) = {<<>>}
    <3>1. <<>> \in Seq({})
      OBVIOUS
    <3>2. QED
      BY <3>1, BetweenNone
  <2>3. Blocks(<<>>) = {<<>>}
    BY <2>1, <2>2 DEF Blocks, Between
  <2>4. QED
    BY <2>3 DEF Headed
<1>5. QED
  BY <1>1, <1>2, <1>3, <1>4 DEF ParseDump

\* What was dumped is what is parsed.
LEMMA DumpRoundTrip ==
    ASSUME NEW P, TextIsPlain(P), NEW ps \in SUBSET Pair, Tidy(ps)
    PROVE  ParseDump(ReadText(DumpAll(SetToSeq(ps)))) = ps
<1>1. CASE ps = {}
  BY <1>1, EmptyComesBack
<1>2. CASE ps # {}
  <2> DEFINE head == << <<Comment>>, <<Comment>>, <<Blank>> >>
             N == {NodeBlock(p) : p \in ps}
             all == UNION {p.events : p \in ps}
             E == {EventBlock(e) : e \in all}
             read(b) == [says |-> b[1][1][2], reason |-> TextOf(b)]
  <2>1. PICK joined \in Seq(Lines(P)) :
               /\ joined # <<>> /\ Blocks(joined) = AllBlocks(ps)
               /\ joined[1] \notin {<<Comment>>, <<Blank>>}
               /\ DumpAll(SetToSeq(ps)) = head \o joined
    BY <1>2, DumpedBlocks
  <2>2. ReadText(head \o joined) = head \o joined /\ Trimmed(head \o joined) = joined
    <3>1. <<Comment>> \in Lines(P) /\ <<Blank>> \in Lines(P)
      BY DEF Lines, Printed
    <3>2. head \o joined \in Seq(Lines(P)) /\ Trimmed(head \o joined) = joined
      BY <2>1, <3>1, HeadIsTrimmed
    <3>3. QED
      BY <3>2, PlainTextReads DEF Lines
  <2>3. /\ \A p \in ps : p \in Pair /\ p.events \subseteq Entries
        /\ all \subseteq Entries
    BY DEF Pair, Entries
  <2>4. \A p \in ps :
          LET b == NodeBlock(p) IN
          /\ b # <<>> /\ b[1] = <<NodeHead(p)>> /\ Len(b[1]) = 1 /\ b[1][1] = NodeHead(p)
          /\ TextOf(b) = p.body
    <3>1. \A p \in Pair : /\ NodeBlock(p) # <<>> /\ NodeBlock(p)[1] = <<NodeHead(p)>>
                          /\ TextOf(NodeBlock(p)) = p.body
      BY BlocksRead
    <3>2. \A h : Len(<<h>>) = 1 /\ (<<h>>)[1] = h
      OBVIOUS
    <3>3. QED
      BY <2>3, <3>1, <3>2
  <2>5. \A e \in all :
          LET b == EventBlock(e) IN
          /\ b # <<>> /\ b[1] = <<EventHead(e)>> /\ Len(b[1]) = 1 /\ b[1][1] = EventHead(e)
          /\ TextOf(b) = e.reason
    <3>1. \A e \in Entries : /\ EventBlock(e) # <<>> /\ EventBlock(e)[1] = <<EventHead(e)>>
                             /\ TextOf(EventBlock(e)) = e.reason
      BY BlocksRead
    <3>2. \A h : Len(<<h>>) = 1 /\ (<<h>>)[1] = h
      OBVIOUS
    <3>3. QED
      BY <2>3, <3>1, <3>2
  <2>6. Blocks(joined) = N \cup E
    BY <2>1 DEF AllBlocks, BlocksOf
  <2>7. /\ \A p : NodeHead(p)[1] = "node" /\ NodeHead(p)[2] = p.node /\ NodeHead(p)[3] = p.edges
        /\ \A e : EventHead(e)[1] = "event" /\ EventHead(e)[2] = e.says
    BY DEF NodeHead, EventHead
  <2>8. Headed("node", joined) = N /\ Headed("event", joined) = E
    <3> DEFINE heads(kind, b) == b # <<>> /\ Len(b[1]) = 1 /\ b[1][1][1] = kind
    <3>1. \A b \in N : heads("node", b) /\ ~heads("event", b)
      BY <2>4, <2>7
    <3>2. \A b \in E : heads("event", b) /\ ~heads("node", b)
      BY <2>5, <2>7
    <3>3. \A kind : Headed(kind, joined) = {b \in N \cup E : heads(kind, b)}
      BY <2>6 DEF Headed
    <3> HIDE DEF heads, N, E
    <3>4. QED
      BY <3>1, <3>2, <3>3
  <2>9. {read(c) : c \in E} = all
    <3>1. \A e \in all : read(EventBlock(e)) = e
      <4>1. \A e \in Entries : e = [says |-> e.says, reason |-> e.reason]
        BY DEF Entries, Entry
      <4>2. QED
        BY <2>3, <2>5, <2>7, <4>1
    <3> HIDE DEF read, all
    <3>2. QED
      BY <3>1
  <2>10. \A p \in ps : {e \in all : e.says.on = p.node.id} = p.events
    BY DEF Tidy
  <2> DEFINE back(b) == [node   |-> b[1][1][2],
                         edges  |-> b[1][1][3],
                         body   |-> TextOf(b),
                         events |-> {e \in all : e.says.on = b[1][1][2].id}]
  <2>11. ASSUME NEW p \in ps PROVE back(NodeBlock(p)) = p
    <3>1. p = [node |-> p.node, body |-> p.body, edges |-> p.edges, events |-> p.events]
      BY <2>3 DEF Pair
    <3> HIDE DEF all
    <3>2. /\ NodeBlock(p)[1][1][2] = p.node /\ NodeBlock(p)[1][1][3] = p.edges
          /\ TextOf(NodeBlock(p)) = p.body
      BY <2>4, <2>7
    <3>3. {e \in all : e.says.on = p.node.id} = p.events
      BY <2>10
    <3>4. back(NodeBlock(p)) = [node |-> p.node, edges |-> p.edges, body |-> p.body,
                                events |-> p.events]
      BY <3>2, <3>3
    <3>5. QED
      BY <3>1, <3>4
  <2>12. ParseDump(head \o joined) = {back(b) : b \in N}
    <3>1. ParseDump(head \o joined)
            = {[node   |-> b[1][1][2],
                edges  |-> b[1][1][3],
                body   |-> TextOf(b),
                events |-> {e \in {read(c) : c \in Headed("event", joined)} :
                              e.says.on = b[1][1][2].id}] : b \in Headed("node", joined)}
      BY <2>2 DEF ParseDump
    <3>2. QED
      BY <2>8, <2>9, <3>1
  <2>13. {back(b) : b \in N} = ps
    <3> HIDE DEF back
    <3>1. QED
      BY <2>11
  <2>14. QED
    BY <2>1, <2>2, <2>12, <2>13
<1>3. QED
  BY <1>1, <1>2

\* There are finitely many events, for there are finitely many nodes.
LEMMA EventsAreFinite == ASSUME IsFiniteSet(Nodes) PROVE IsFiniteSet(Event)
<1> DEFINE triples == (Nodes \X Kinds) \X Nodes
           f == [t \in triples |-> [on |-> t[1][1], kind |-> t[1][2], about |-> t[2]]]
<1>1. IsFiniteSet(Kinds)
  <2>1. \A x, y, z, u : IsFiniteSet({x, y, z, u})
    <3> SUFFICES ASSUME NEW x, NEW y, NEW z, NEW u PROVE IsFiniteSet({x, y, z, u})
      OBVIOUS
    <3>1. IsFiniteSet({x}) /\ IsFiniteSet({y}) /\ IsFiniteSet({z}) /\ IsFiniteSet({u})
      BY FS_Singleton
    <3>2. IsFiniteSet({x} \cup {y}) /\ IsFiniteSet({z} \cup {u})
      BY <3>1, FS_Union
    <3>3. IsFiniteSet(({x} \cup {y}) \cup ({z} \cup {u}))
      BY <3>2, FS_Union
    <3>4. {x, y, z, u} = ({x} \cup {y}) \cup ({z} \cup {u})
      OBVIOUS
    <3>5. QED
      BY <3>3, <3>4
  <2>2. {"depends", "contradicts"} = {"depends", "contradicts", "depends", "contradicts"}
    OBVIOUS
  <2>3. IsFiniteSet({"depends", "contradicts"})
    BY <2>1, <2>2
  <2>4. IsFiniteSet({"raised", "cleared", "archived", "reactivated"})
    BY <2>1
  <2>5. QED
    BY <2>3, <2>4, FS_Union DEF Kinds, EdgeTypes
<1>2. IsFiniteSet(triples)
  BY <1>1, FS_Product
<1>3. f \in Surjection(triples, Event)
  <2>1. f \in [triples -> Event]
    BY DEF Event
  <2>2. ASSUME NEW e \in Event PROVE \E t \in triples : f[t] = e
    <3>1. << <<e.on, e.kind>>, e.about>> \in triples
      BY DEF Event
    <3>2. f[<< <<e.on, e.kind>>, e.about>>] = e
      BY <3>1 DEF Event
    <3>3. QED
      BY <3>1, <3>2
  <2>3. QED
    BY <2>1, <2>2 DEF Surjection
<1>4. QED
  BY <1>2, <1>3, FS_Surjection

\* What is read and what is published is tidy, no node is read twice, and the file is
\* the text of what is published.
FileIsOfPublished ==
    /\ Tidy(pairs) /\ Tidy(published)
    /\ Ids(pairs) \cap todo = {}
    /\ file # Nothing => file = DumpAll(SetToSeq(published))

\* No pairs are tidy.
LEMMA NoneIsTidy == Tidy({}) /\ Ids({}) = {}
BY FS_EmptySet DEF Tidy, Ids

\* Every step keeps the file and what was read so.
LEMMA FileFollows ==
    ASSUME IsFiniteSet(Nodes), DumpInv, FileIsOfPublished,
           [DumpNext \/ WriteMeanwhile]_<<graph, dumping, restoring>>
    PROVE  FileIsOfPublished'
<1> USE DEF FileIsOfPublished
<1>1. CASE ListNodes
  BY <1>1, NoneIsTidy DEF ListNodes
<1>2. CASE ReadEvents
  <2>1. PICK p \in Pair :
               /\ pairs' = pairs \cup {p} /\ todo' = todo \ {p.node.id}
               /\ p.node = current.node /\ p.events = EventsOf(p.node.id)
    BY <1>2, PairIsRead
  <2>2. p.node.id \in todo
    BY <1>2, <2>1 DEF ReadEvents, DumpInv, CurrentIsExplained
  <2>3. IsFiniteSet(p.events) /\ \A e \in p.events : e.says.on = p.node.id
    <3> DEFINE mine == {f \in journal : f.on = p.node.id}
               g == [e \in mine |-> Entry(e)]
    <3>1. p.events = {Entry(e) : e \in mine}
      BY <2>1 DEF EventsOf
    <3>2. mine \in SUBSET Event
      BY DEF DumpInv, GraphInv, GraphTypeOK
    <3>3. IsFiniteSet(mine)
      BY <3>2, EventsAreFinite, FS_Subset
    <3>4. \A e : Entry(e).says = e
      BY DEF Entry
    <3>5. \A e \in p.events : e.says.on = p.node.id
      BY <3>1, <3>4
    <3> HIDE DEF mine
    <3>6. g \in Surjection(mine, p.events)
      BY <3>1 DEF Surjection
    <3> HIDE DEF g
    <3>7. IsFiniteSet(p.events)
      BY <3>3, <3>6, FS_Surjection
    <3>8. QED
      BY <3>5, <3>7
  <2>4. Tidy(pairs \cup {p})
    <3>1. IsFiniteSet(pairs \cup {p})
      BY FS_AddElement DEF Tidy
    <3>2. \A q \in pairs : q.node.id # p.node.id
      BY <2>2 DEF Ids
    <3>3. QED
      BY <2>3, <3>1, <3>2 DEF Tidy
  <2>5. Ids(pairs \cup {p}) \cap (todo \ {p.node.id}) = {}
    BY DEF Ids
  <2>6. UNCHANGED <<file, published>>
    BY <1>2 DEF ReadEvents
  <2>7. QED
    BY <2>1, <2>4, <2>5, <2>6
<1>3. CASE Publish
  BY <1>3 DEF Publish
<1>4. CASE UNCHANGED <<pairs, published, file, todo>>
  BY <1>4
<1>5. QED
  BY <1>1, <1>2, <1>3, <1>4 DEF DumpNext, WriteMeanwhile, ReadNode, ReadEdges,
     GiveUpDump, StartRestore, RestoreNodes, RestoreEdges, RestoreEvents, SwapIn,
     CrashRestore, dumping

\* Whatever lines the bodies and reasons are made of, as long as none holds a carriage
\* return, what is parsed from the file is what was dumped: a line that looks like a
\* separator, like an escaped one or like a comment, and an empty one, come back as
\* they were (serialization.py:10-15, 97-112).
THEOREM DumpReturns ==
    ASSUME NEW P, TextIsPlain(P), IsFiniteSet(Nodes)
    PROVE  DumpSpec => []DumpComesBack
<1>1. DumpInit => FileIsOfPublished
  BY NoneIsTidy DEF DumpInit, FileIsOfPublished
<1>2. DumpInv /\ FileIsOfPublished
        /\ [DumpNext \/ WriteMeanwhile]_<<graph, dumping, restoring>>
          => FileIsOfPublished'
  BY FileFollows
<1>3. DumpInv /\ FileIsOfPublished => DumpComesBack
  <2> SUFFICES ASSUME DumpInv, FileIsOfPublished, file # Nothing
               PROVE  ParseDump(ReadText(file)) = published
    BY DEF DumpComesBack
  <2>1. published \in SUBSET Pair /\ Tidy(published) /\ file = DumpAll(SetToSeq(published))
    BY DEF DumpInv, DumpTypeOK, FileIsOfPublished
  <2>2. QED
    BY <2>1, DumpRoundTrip
<1>4. QED
  BY <1>1, <1>2, <1>3, DumpInvariant, PTL DEF DumpSpec

\* A restore works on what was published, for nobody dumps meanwhile.
RestoresPublished == rpc # "idle" => parsed = published /\ pc = "idle"

\* A database that goes through the file comes back whole, whoever else writes: a clone
\* is built from exactly what was dumped, and is the database if that was at rest
\* (sync.py:1-17, 184-206, serialization.py:10-15).
THEOREM CloneIsDumped ==
    ASSUME NEW P, TextIsPlain(P), IsFiniteSet(Nodes)
    PROVE  DumpSpec => CloneIsWhatWasDumped
<1>1. DumpInit => RestoresPublished
  BY DEF DumpInit, RestoresPublished
<1>2. ASSUME DumpInv, DumpComesBack, RestoresPublished,
             [DumpNext \/ WriteMeanwhile]_<<graph, dumping, restoring>>
      PROVE  RestoresPublished'
  <2> USE DEF RestoresPublished
  <2>1. CASE StartRestore
    BY <1>2, <2>1 DEF StartRestore, DumpComesBack, dumping
  <2>2. CASE ListNodes \/ ReadEdges \/ ReadEvents \/ Publish \/ GiveUpDump
             \/ \E n \in Nodes : ReadNode(n)
    BY <1>2, <2>2 DEF ListNodes, ReadNode, ReadEdges, ReadEvents, Publish, GiveUpDump,
       restoring
  <2>3. CASE RestoreNodes \/ RestoreEdges \/ RestoreEvents \/ SwapIn \/ CrashRestore
    BY <1>2, <2>3 DEF RestoreNodes, RestoreEdges, RestoreEvents, SwapIn, CrashRestore,
       dumping
  <2>4. CASE UNCHANGED <<dumping, restoring>>
    BY <1>2, <2>4 DEF dumping, restoring
  <2>5. QED
    BY <1>2, <2>1, <2>2, <2>3, <2>4 DEF DumpNext, WriteMeanwhile
<1>3. ASSUME DumpInv, RestoresPublished,
             [DumpNext \/ WriteMeanwhile]_<<graph, dumping, restoring>>
      PROVE  [clone' # clone =>
                 /\ clone' = Tables(published)
                 /\ truth # Nothing => clone' = truth]_restoring
  <2> SUFFICES ASSUME DumpNext \/ WriteMeanwhile, clone' # clone
               PROVE  /\ clone' = Tables(published)
                      /\ truth # Nothing => clone' = truth
    BY <1>3 DEF restoring
  <2>1. SwapIn
    BY DEF DumpNext, WriteMeanwhile, ListNodes, ReadNode, ReadEdges, ReadEvents, Publish,
       GiveUpDump, StartRestore, RestoreNodes, RestoreEdges, RestoreEvents, CrashRestore,
       restoring
  <2>2. clone' = Tables(published)
    BY <1>3, <2>1 DEF SwapIn, DumpInv, StagingIsPartOfTheText, RestoresPublished
  <2>3. truth # Nothing => Tables(published) = truth
    BY <1>3 DEF DumpInv, QuietDumpIsTheDatabase
  <2>4. QED
    BY <2>2, <2>3
<1>4. QED
  BY <1>1, <1>2, <1>3, DumpInvariant, DumpReturns, PTL DEF DumpSpec, CloneIsWhatWasDumped
=============================================================================
