--------------------------- MODULE LivenessProofs ---------------------------
(* Proofs about Liveness, for any processes, ids, tiers and crashes.        *)
EXTENDS Liveness, TLAPS

\* Ids that are going to be minted are fresh, and nobody else's.
FreshPhases == {"mint-change", "scope", "mint-note", "mint-entity"}

MintInv ==
    /\ \A p \in Processes :
        /\ pc[p] \in {"mint-change", "open-change"} => minting[p] \in Slices
        /\ pc[p] \in {"scope", "mint-note"} => minting[p] \in Notes
        /\ pc[p] = "mint-entity" => minting[p] \in Entities
        /\ pc[p] \in FreshPhases => minting[p] \notin nodes
        /\ pc[p] = "open-change" => minting[p] \in nodes
    /\ \A p, q \in Processes :
        p # q /\ pc[p] \in Capturing /\ pc[q] \in Capturing => minting[p] # minting[q]
    /\ \A c \in Slices : GoalOf[c] \in nodes => c \in nodes

\* What a sweep has found out about the nodes that stayed held and about those
\* that stayed unheld, one read after the other.
Facts(p) ==
    /\ held[p] \subseteq Holds
    /\ dead[p] \subseteq Unheld
    /\ pc[p] \in {"active", "mark"} =>
        /\ \A h \in held[p] : h[1] \in Entities => h[1] \in roots[p]
        /\ roots[p] \cap dead[p] = {}
        /\ dead[p] \cap Entities \subseteq retired[p]
    /\ pc[p] = "active" => roots[p] \subseteq Entities
    /\ pc[p] = "mark" =>
        /\ \A h \in held[p] : h[1] \in Slices => h[1] \in roots[p]
        /\ \A n \in dead[p], c \in roots[p] : <<c, n>> \notin scoped
    /\ pc[p] = "rows" =>
        /\ \A h \in held[p] : h[2] \in live[p]
        /\ dead[p] \cap live[p] = {}
    /\ pc[p] = "write" =>
        /\ \A h \in held[p] : h[2] \notin archives[p]
        /\ revives[p] \cap dead[p] = {}

SweepInv == \A p \in Processes : Facts(p)

Inv == TypeOK /\ MintInv /\ SweepInv /\ ChangesAreOpened

\* The parts of the type invariant.
GraphOK ==
    /\ nodes \subseteq Slices \cup Content
    /\ scoped \subseteq (Slices \cap nodes) \X ((Goals \cup Notes) \cap nodes)
    /\ tier \in [Content -> Tiers]
    /\ archived \subseteq Content \cap nodes
    /\ latest \in [Slices \cup Entities -> Lifecycle \cup {None}]

OperationOK ==
    /\ pc \in [Processes -> {"idle"} \cup Sweeping \cup Capturing]
    /\ minting \in [Processes -> Slices \cup Content \cup {None}]
    /\ goal \in [Processes -> Goals \cup {None}]
    /\ under \in [Processes -> SUBSET (Slices \cap nodes)]
    /\ crashes \in 0..MaxCrashes

SweepOK ==
    /\ retired \in [Processes -> SUBSET Entities]
    /\ roots \in [Processes -> SUBSET (Slices \cup Entities)]
    /\ live \in [Processes -> SUBSET (Slices \cup Content)]
    /\ archives \in [Processes -> SUBSET (Content \cap nodes)]
    /\ revives \in [Processes -> SUBSET (Content \cap nodes)]

HistoryOK ==
    /\ held \in [Processes -> SUBSET (nodes \X Content)]
    /\ dead \in [Processes -> SUBSET (Content \cap nodes)]

\* The type invariant is its parts.
LEMMA TypeParts == TypeOK <=> GraphOK /\ OperationOK /\ SweepOK /\ HistoryOK
BY DEF TypeOK, GraphOK, OperationOK, SweepOK, HistoryOK

\* Roots are nodes, and what is unheld is content.
LEMMA RootsType ==
    ASSUME GraphOK
    PROVE  Holds \subseteq nodes \X Content /\ Unheld \subseteq Content \cap nodes
BY DEF GraphOK, Holds, Unheld, Roots, Active, Promoted, Retired, Content

\* The same of the next state.
LEMMA RootsTypeNext ==
    ASSUME GraphOK'
    PROVE  Holds' \subseteq nodes' \X Content /\ Unheld' \subseteq Content \cap nodes'
BY DEF GraphOK, Holds, Unheld, Roots, Active, Promoted, Retired, Content

\* Every step keeps the types of the graph,
LEMMA GraphTyped ==
    ASSUME GraphOK, OperationOK, SweepOK, MintInv, NEW p \in Processes, Operation(p)
    PROVE  GraphOK'
<1> USE LivenessAssumption DEF GraphOK, OperationOK, SweepOK, MintInv, FreshPhases,
        Content, Processes, CreationTiers, Capturing
<1>1. ASSUME NEW c \in Slices, CheckChange(p, c)
      PROVE  GraphOK'
  BY <1>1 DEF CheckChange, Step, Plan, graph, capture, sweep
<1>2. CASE MintChange(p)
  BY <1>2 DEF MintChange, Step, capture, graph, capture, sweep
<1>3. CASE OpenChange(p)
  BY <1>3 DEF Lifecycle, OpenChange, Step, Done, Plan, graph, capture, sweep
<1>4. ASSUME NEW g \in Goals, NEW n \in Notes, CheckGoal(p, g, n)
      PROVE  GraphOK'
  BY <1>4 DEF CheckGoal, Step, Plan, graph, capture, sweep
<1>5. CASE ReadScope(p)
  BY <1>5 DEF ReadScope, Step, Plan, graph, capture, sweep
<1>6. ASSUME NEW t \in Tiers, MintNote(p, t)
      PROVE  GraphOK'
  BY <1>6 DEF MintNote, Step, Done, Plan, graph, capture, sweep
<1>7. ASSUME NEW g \in Goals, NEW e \in Entities, CheckEntity(p, g, e)
      PROVE  GraphOK'
  BY <1>7 DEF CheckEntity, Step, Plan, graph, capture, sweep
<1>8. CASE MintEntity(p)
  BY <1>8 DEF Lifecycle, MintEntity, Step, Done, Plan, graph, capture, sweep
<1>9. ASSUME NEW x \in Slices \cup Entities, NEW event \in Lifecycle, Journal(p, x, event)
      PROVE  GraphOK'
  BY <1>9 DEF Journal, Ruling, graph, capture, sweep
<1>10. ASSUME NEW n \in Content, NEW t \in Tiers, SetTier(p, n, t)
      PROVE  GraphOK'
  BY <1>10 DEF SetTier, Ruling, graph, capture, sweep
<1>11. ASSUME NEW n \in Content, NEW flag \in BOOLEAN, SetArchived(p, n, flag)
      PROVE  GraphOK'
  BY <1>11 DEF SetArchived, Ruling, graph, capture, sweep
<1>12. ASSUME NEW n \in Notes, NEW t \in Tiers, Consolidate(p, n, t)
      PROVE  GraphOK'
  BY <1>12 DEF Consolidate, Ruling, graph, capture, sweep
<1>13. ASSUME NEW edge \in scoped, DeleteEdge(p, edge)
      PROVE  GraphOK'
  BY <1>13 DEF DeleteEdge, Ruling, graph, capture, sweep
<1>14. CASE BeginSweep(p)
  BY <1>14 DEF BeginSweep, Step, graph, capture, sweep
<1>15. CASE ReadActive(p)
  BY <1>15 DEF ReadActive, Step, graph, capture, sweep
<1>16. CASE Mark(p)
  BY <1>16 DEF Mark, Step, graph, capture, sweep
<1>17. CASE ReadRows(p)
  BY <1>17 DEF ReadRows, Step, graph, capture, sweep
<1>18. CASE WriteSweep(p)
  BY <1>18 DEF WriteSweep, Step, Forget, graph, capture, sweep
<1>19. CASE Crash(p)
  BY <1>19 DEF Crash, Step, Done, Plan, Forget, graph, capture, sweep
<1> QED
  BY <1>1, <1>2, <1>3, <1>4, <1>5, <1>6, <1>7, <1>8, <1>9, <1>10, <1>11, <1>12, <1>13,
     <1>14, <1>15, <1>16, <1>17, <1>18, <1>19 DEF Operation

\* those of the operations under way,
LEMMA OperationTyped ==
    ASSUME GraphOK, OperationOK, MintInv, NEW p \in Processes, Operation(p)
    PROVE  OperationOK'
<1> USE LivenessAssumption DEF GraphOK, OperationOK, Processes, Content, Sweeping,
        Capturing
<1>1. ASSUME NEW c \in Slices, CheckChange(p, c)
      PROVE  OperationOK'
  BY <1>1 DEF CheckChange, Step, Plan, graph, capture, sweep
<1>2. CASE MintChange(p)
  BY <1>2 DEF MintChange, Step, capture, graph, capture, sweep
<1>3. CASE OpenChange(p)
  BY <1>3 DEF OpenChange, Step, Done, Plan, graph, capture, sweep
<1>4. ASSUME NEW g \in Goals, NEW n \in Notes, CheckGoal(p, g, n)
      PROVE  OperationOK'
  BY <1>4 DEF CheckGoal, Step, Plan, graph, capture, sweep
<1>5. CASE ReadScope(p)
  BY <1>5 DEF ReadScope, Step, Plan, graph, capture, sweep
<1>6. ASSUME NEW t \in Tiers, MintNote(p, t)
      PROVE  OperationOK'
  BY <1>6 DEF MintNote, Step, Done, Plan, graph, capture, sweep
<1>7. ASSUME NEW g \in Goals, NEW e \in Entities, CheckEntity(p, g, e)
      PROVE  OperationOK'
  BY <1>7 DEF CheckEntity, Step, Plan, graph, capture, sweep
<1>8. CASE MintEntity(p)
  BY <1>8 DEF MintEntity, Step, Done, Plan, graph, capture, sweep
<1>9. ASSUME NEW x \in Slices \cup Entities, NEW event \in Lifecycle, Journal(p, x, event)
      PROVE  OperationOK'
  BY <1>9 DEF Journal, Ruling, graph, capture, sweep
<1>10. ASSUME NEW n \in Content, NEW t \in Tiers, SetTier(p, n, t)
      PROVE  OperationOK'
  BY <1>10 DEF SetTier, Ruling, graph, capture, sweep
<1>11. ASSUME NEW n \in Content, NEW flag \in BOOLEAN, SetArchived(p, n, flag)
      PROVE  OperationOK'
  BY <1>11 DEF SetArchived, Ruling, graph, capture, sweep
<1>12. ASSUME NEW n \in Notes, NEW t \in Tiers, Consolidate(p, n, t)
      PROVE  OperationOK'
  BY <1>12 DEF Consolidate, Ruling, graph, capture, sweep
<1>13. ASSUME NEW edge \in scoped, DeleteEdge(p, edge)
      PROVE  OperationOK'
  BY <1>13 DEF DeleteEdge, Ruling, graph, capture, sweep
<1>14. CASE BeginSweep(p)
  BY <1>14 DEF BeginSweep, Step, graph, capture, sweep
<1>15. CASE ReadActive(p)
  BY <1>15 DEF ReadActive, Step, graph, capture, sweep
<1>16. CASE Mark(p)
  BY <1>16 DEF Mark, Step, graph, capture, sweep
<1>17. CASE ReadRows(p)
  BY <1>17 DEF ReadRows, Step, graph, capture, sweep
<1>18. CASE WriteSweep(p)
  BY <1>18 DEF WriteSweep, Step, Forget, graph, capture, sweep
<1>19. CASE Crash(p)
  BY <1>19 DEF Crash, Step, Done, Plan, Forget, graph, capture, sweep
<1> QED
  BY <1>1, <1>2, <1>3, <1>4, <1>5, <1>6, <1>7, <1>8, <1>9, <1>10, <1>11, <1>12, <1>13,
     <1>14, <1>15, <1>16, <1>17, <1>18, <1>19 DEF Operation

\* and those of the sweeps.
LEMMA SweepTyped ==
    ASSUME GraphOK, OperationOK, SweepOK, NEW p \in Processes, Operation(p)
    PROVE  SweepOK'
<1> USE LivenessAssumption DEF GraphOK, SweepOK, Content, Retired, Active, Promoted
<1>1. ASSUME NEW c \in Slices, CheckChange(p, c)
      PROVE  SweepOK'
  BY <1>1 DEF CheckChange, Step, Plan, graph, capture, sweep
<1>2. CASE MintChange(p)
  BY <1>2 DEF MintChange, Step, capture, graph, capture, sweep
<1>3. CASE OpenChange(p)
  BY <1>3 DEF OpenChange, Step, Done, Plan, graph, capture, sweep
<1>4. ASSUME NEW g \in Goals, NEW n \in Notes, CheckGoal(p, g, n)
      PROVE  SweepOK'
  BY <1>4 DEF CheckGoal, Step, Plan, graph, capture, sweep
<1>5. CASE ReadScope(p)
  BY <1>5 DEF ReadScope, Step, Plan, graph, capture, sweep
<1>6. ASSUME NEW t \in Tiers, MintNote(p, t)
      PROVE  SweepOK'
  BY <1>6 DEF MintNote, Step, Done, Plan, graph, capture, sweep
<1>7. ASSUME NEW g \in Goals, NEW e \in Entities, CheckEntity(p, g, e)
      PROVE  SweepOK'
  BY <1>7 DEF CheckEntity, Step, Plan, graph, capture, sweep
<1>8. CASE MintEntity(p)
  BY <1>8 DEF MintEntity, Step, Done, Plan, graph, capture, sweep
<1>9. ASSUME NEW x \in Slices \cup Entities, NEW event \in Lifecycle, Journal(p, x, event)
      PROVE  SweepOK'
  BY <1>9 DEF Journal, Ruling, graph, capture, sweep
<1>10. ASSUME NEW n \in Content, NEW t \in Tiers, SetTier(p, n, t)
      PROVE  SweepOK'
  BY <1>10 DEF SetTier, Ruling, graph, capture, sweep
<1>11. ASSUME NEW n \in Content, NEW flag \in BOOLEAN, SetArchived(p, n, flag)
      PROVE  SweepOK'
  BY <1>11 DEF SetArchived, Ruling, graph, capture, sweep
<1>12. ASSUME NEW n \in Notes, NEW t \in Tiers, Consolidate(p, n, t)
      PROVE  SweepOK'
  BY <1>12 DEF Consolidate, Ruling, graph, capture, sweep
<1>13. ASSUME NEW edge \in scoped, DeleteEdge(p, edge)
      PROVE  SweepOK'
  BY <1>13 DEF DeleteEdge, Ruling, graph, capture, sweep
<1>14. CASE BeginSweep(p)
  BY <1>14 DEF BeginSweep, Step, graph, capture, sweep
<1>15. CASE ReadActive(p)
  BY <1>15 DEF ReadActive, Step, graph, capture, sweep
<1>16. CASE Mark(p)
  BY <1>16 DEF Mark, Step, graph, capture, sweep
<1>17. CASE ReadRows(p)
  BY <1>17 DEF ReadRows, Step, graph, capture, sweep
<1>18. CASE WriteSweep(p)
  BY <1>18 DEF WriteSweep, Step, Forget, graph, capture, sweep
<1>19. CASE Crash(p)
  BY <1>19 DEF Crash, Step, Done, Plan, Forget, graph, capture, sweep
<1> QED
  BY <1>1, <1>2, <1>3, <1>4, <1>5, <1>6, <1>7, <1>8, <1>9, <1>10, <1>11, <1>12, <1>13,
     <1>14, <1>15, <1>16, <1>17, <1>18, <1>19 DEF Operation

\* What is to be minted stays fresh.
LEMMA MintKept ==
    ASSUME GraphOK, OperationOK, MintInv, NEW p \in Processes, Operation(p)
    PROVE  MintInv'
<1> USE LivenessAssumption DEF MintInv, FreshPhases, Capturing, Sweeping, OperationOK,
        GraphOK, Processes, Content
<1>1. ASSUME NEW c \in Slices, CheckChange(p, c)
      PROVE  MintInv'
  BY <1>1 DEF CheckChange, Step, Plan, graph, capture, sweep, Fresh
<1>2. CASE MintChange(p)
  BY <1>2 DEF MintChange, Step, capture, graph, capture, sweep
<1>3. CASE OpenChange(p)
  BY <1>3 DEF OpenChange, Step, Done, Plan, graph, capture, sweep
<1>4. ASSUME NEW g \in Goals, NEW n \in Notes, CheckGoal(p, g, n)
      PROVE  MintInv'
  BY <1>4 DEF CheckGoal, Step, Plan, graph, capture, sweep, Fresh
<1>5. CASE ReadScope(p)
  BY <1>5 DEF ReadScope, Step, Plan, graph, capture, sweep
<1>6. ASSUME NEW t \in Tiers, MintNote(p, t)
      PROVE  MintInv'
  BY <1>6 DEF MintNote, Step, Done, Plan, graph, capture, sweep
<1>7. ASSUME NEW g \in Goals, NEW e \in Entities, CheckEntity(p, g, e)
      PROVE  MintInv'
  BY <1>7 DEF CheckEntity, Step, Plan, graph, capture, sweep, Fresh
<1>8. CASE MintEntity(p)
  BY <1>8 DEF MintEntity, Step, Done, Plan, graph, capture, sweep
<1>9. ASSUME NEW x \in Slices \cup Entities, NEW event \in Lifecycle, Journal(p, x, event)
      PROVE  MintInv'
  BY <1>9 DEF Journal, Ruling, graph, capture, sweep
<1>10. ASSUME NEW n \in Content, NEW t \in Tiers, SetTier(p, n, t)
      PROVE  MintInv'
  BY <1>10 DEF SetTier, Ruling, graph, capture, sweep
<1>11. ASSUME NEW n \in Content, NEW flag \in BOOLEAN, SetArchived(p, n, flag)
      PROVE  MintInv'
  BY <1>11 DEF SetArchived, Ruling, graph, capture, sweep
<1>12. ASSUME NEW n \in Notes, NEW t \in Tiers, Consolidate(p, n, t)
      PROVE  MintInv'
  BY <1>12 DEF Consolidate, Ruling, graph, capture, sweep, Fresh
<1>13. ASSUME NEW edge \in scoped, DeleteEdge(p, edge)
      PROVE  MintInv'
  BY <1>13 DEF DeleteEdge, Ruling, graph, capture, sweep
<1>14. CASE BeginSweep(p)
  BY <1>14 DEF BeginSweep, Step, graph, capture, sweep
<1>15. CASE ReadActive(p)
  BY <1>15 DEF ReadActive, Step, graph, capture, sweep
<1>16. CASE Mark(p)
  BY <1>16 DEF Mark, Step, graph, capture, sweep
<1>17. CASE ReadRows(p)
  BY <1>17 DEF ReadRows, Step, graph, capture, sweep
<1>18. CASE WriteSweep(p)
  BY <1>18 DEF WriteSweep, Step, Forget, graph, capture, sweep
<1>19. CASE Crash(p)
  BY <1>19 DEF Crash, Step, Done, Plan, Forget, graph, capture, sweep
<1> QED
  BY <1>1, <1>2, <1>3, <1>4, <1>5, <1>6, <1>7, <1>8, <1>9, <1>10, <1>11, <1>12, <1>13,
     <1>14, <1>15, <1>16, <1>17, <1>18, <1>19 DEF Operation

\* A step leaves other processes' operations alone, and draws no edge to a node
\* that is there already.
Aside(p) ==
    /\ nodes \subseteq nodes'
    /\ scoped' \subseteq scoped \cup ((Slices \cup Content) \X ((Slices \cup Content) \ nodes))
    /\ Track
    /\ \A q \in Processes \ {p} :
        /\ pc'[q] = pc[q]
        /\ retired'[q] = retired[q] /\ roots'[q] = roots[q] /\ live'[q] = live[q]
        /\ archives'[q] = archives[q] /\ revives'[q] = revives[q]

\* Every step is aside of the others'.
LEMMA StepsAside ==
    ASSUME GraphOK, OperationOK, SweepOK, MintInv, NEW p \in Processes, Operation(p)
    PROVE  Aside(p)
<1> USE LivenessAssumption DEF Aside, MintInv, FreshPhases, GraphOK, OperationOK,
        SweepOK, Content
<1>1. ASSUME NEW c \in Slices, CheckChange(p, c)
      PROVE  Aside(p)
  BY <1>1 DEF CheckChange, Step, Plan, graph, capture, sweep, Fresh
<1>2. CASE MintChange(p)
  BY <1>2 DEF MintChange, Step, capture, graph, capture, sweep
<1>3. CASE OpenChange(p)
  BY <1>3 DEF OpenChange, Step, Done, Plan, graph, capture, sweep
<1>4. ASSUME NEW g \in Goals, NEW n \in Notes, CheckGoal(p, g, n)
      PROVE  Aside(p)
  BY <1>4 DEF CheckGoal, Step, Plan, graph, capture, sweep, Fresh
<1>5. CASE ReadScope(p)
  BY <1>5 DEF ReadScope, Step, Plan, graph, capture, sweep
<1>6. ASSUME NEW t \in Tiers, MintNote(p, t)
      PROVE  Aside(p)
  BY <1>6 DEF MintNote, Step, Done, Plan, graph, capture, sweep
<1>7. ASSUME NEW g \in Goals, NEW e \in Entities, CheckEntity(p, g, e)
      PROVE  Aside(p)
  BY <1>7 DEF CheckEntity, Step, Plan, graph, capture, sweep, Fresh
<1>8. CASE MintEntity(p)
  BY <1>8 DEF MintEntity, Step, Done, Plan, graph, capture, sweep
<1>9. ASSUME NEW x \in Slices \cup Entities, NEW event \in Lifecycle, Journal(p, x, event)
      PROVE  Aside(p)
  BY <1>9 DEF Journal, Ruling, graph, capture, sweep
<1>10. ASSUME NEW n \in Content, NEW t \in Tiers, SetTier(p, n, t)
      PROVE  Aside(p)
  BY <1>10 DEF SetTier, Ruling, graph, capture, sweep
<1>11. ASSUME NEW n \in Content, NEW flag \in BOOLEAN, SetArchived(p, n, flag)
      PROVE  Aside(p)
  BY <1>11 DEF SetArchived, Ruling, graph, capture, sweep
<1>12. ASSUME NEW n \in Notes, NEW t \in Tiers, Consolidate(p, n, t)
      PROVE  Aside(p)
  BY <1>12 DEF Consolidate, Ruling, graph, capture, sweep, Fresh
<1>13. ASSUME NEW edge \in scoped, DeleteEdge(p, edge)
      PROVE  Aside(p)
  BY <1>13 DEF DeleteEdge, Ruling, graph, capture, sweep
<1>14. CASE BeginSweep(p)
  BY <1>14 DEF BeginSweep, Step, graph, capture, sweep
<1>15. CASE ReadActive(p)
  BY <1>15 DEF ReadActive, Step, graph, capture, sweep
<1>16. CASE Mark(p)
  BY <1>16 DEF Mark, Step, graph, capture, sweep
<1>17. CASE ReadRows(p)
  BY <1>17 DEF ReadRows, Step, graph, capture, sweep
<1>18. CASE WriteSweep(p)
  BY <1>18 DEF WriteSweep, Step, Forget, graph, capture, sweep
<1>19. CASE Crash(p)
  BY <1>19 DEF Crash, Step, Done, Plan, Forget, graph, capture, sweep
<1> QED
  BY <1>1, <1>2, <1>3, <1>4, <1>5, <1>6, <1>7, <1>8, <1>9, <1>10, <1>11, <1>12, <1>13,
     <1>14, <1>15, <1>16, <1>17, <1>18, <1>19 DEF Operation

\* The histories keep their types,
LEMMA HistoryTyped ==
    ASSUME HistoryOK, GraphOK', Track, nodes \subseteq nodes'
    PROVE  HistoryOK'
BY RootsTypeNext DEF HistoryOK, Track

\* and while a sweep runs they only shrink.
LEMMA HistoryHolds ==
    ASSUME HistoryOK, Track, NEW q \in Processes
    PROVE  /\ held'[q] \subseteq Holds' /\ dead'[q] \subseteq Unheld'
           /\ pc'[q] \notin Sweeping => held'[q] = {} /\ dead'[q] = {}
           /\ pc'[q] \in Sweeping /\ pc[q] # "idle"
                => held'[q] \subseteq held[q] /\ dead'[q] \subseteq dead[q]
BY DEF HistoryOK, Track

\* A sweep's facts outlive the steps of other processes.
LEMMA FactsFrame ==
    ASSUME HistoryOK, Track, NEW q \in Processes, Facts(q), GraphOK,
           scoped' \subseteq scoped \cup ((Slices \cup Content) \X ((Slices \cup Content) \ nodes)),
           pc'[q] = pc[q], retired'[q] = retired[q], roots'[q] = roots[q], live'[q] = live[q],
           archives'[q] = archives[q], revives'[q] = revives[q]
    PROVE  Facts(q)'
<1>1. CASE pc[q] \in Sweeping
  <2>1. /\ held'[q] \subseteq Holds' /\ dead'[q] \subseteq Unheld'
        /\ held'[q] \subseteq held[q] /\ dead'[q] \subseteq dead[q]
    BY <1>1, HistoryHolds DEF Sweeping
  <2>2. dead[q] \subseteq nodes
    BY DEF HistoryOK
  <2>3. \A n \in dead'[q], c \in roots[q] : <<c, n>> \in scoped' => <<c, n>> \in scoped
    BY <2>1, <2>2
  <2> QED
    BY <2>1, <2>3 DEF Facts
<1>2. CASE pc[q] \notin Sweeping
  BY <1>2, HistoryHolds DEF Facts, Sweeping
<1> QED
  BY <1>1, <1>2

\* There are none outside a sweep.
LEMMA Away ==
    ASSUME HistoryOK, Track, NEW q \in Processes, pc'[q] \notin Sweeping
    PROVE  Facts(q)'
BY HistoryHolds DEF Facts, Sweeping

\* What no root holds is no root.
LEMMA UnheldNoRoot ==
    ASSUME NEW n \in Unheld
    PROVE  n \in Content \cap nodes /\ n \notin Roots
<1>1. n \in Content \cap nodes /\ \A h \in Holds : h[2] # n
  BY DEF Unheld
<1>2. n \in Roots => <<n, n>> \in Holds
  BY <1>1 DEF Holds
<1> QED
  BY <1>1, <1>2

\* After the statuses of the entities are read,
LEMMA BeginFacts ==
    ASSUME GraphOK, OperationOK, SweepOK, HistoryOK, NEW p \in Processes, BeginSweep(p)
    PROVE  Facts(p)'
<1>1. /\ pc'[p] = "active" /\ roots'[p] = (Entities \cap nodes) \ Retired
      /\ retired'[p] = Retired /\ UNCHANGED graph /\ Track
  BY DEF BeginSweep, Step, OperationOK, SweepOK
<1>2. held'[p] \subseteq Holds /\ dead'[p] \subseteq Unheld
  BY <1>1, HistoryHolds DEF graph, Holds, Unheld, Roots, Active, Retired, Promoted
<1>3. \A h \in held'[p] : h[1] \in Entities => h[1] \in roots'[p]
  BY <1>1, <1>2, LivenessAssumption DEF Holds, Roots, Active, Promoted, GraphOK, Content
<1>4. roots'[p] \cap dead'[p] = {}
  BY <1>1, <1>2, UnheldNoRoot DEF Roots
<1>5. dead'[p] \cap Entities \subseteq retired'[p]
  BY <1>1, <1>2, UnheldNoRoot DEF Roots
<1>6. roots'[p] \subseteq Entities
  BY <1>1
<1> QED
  BY <1>1, <1>3, <1>4, <1>5, <1>6, HistoryHolds DEF Facts

\* after those of the slices,
LEMMA ActiveFacts ==
    ASSUME GraphOK, OperationOK, SweepOK, HistoryOK, NEW p \in Processes,
           ReadActive(p), Facts(p)
    PROVE  Facts(p)'
<1>1. /\ pc[p] = "active" /\ pc'[p] = "mark" /\ roots'[p] = roots[p] \cup Active
      /\ retired'[p] = retired[p] /\ UNCHANGED graph /\ Track
  BY DEF ReadActive, Step, OperationOK, SweepOK
<1>2. /\ held'[p] \subseteq held[p] /\ dead'[p] \subseteq dead[p]
      /\ held'[p] \subseteq Holds /\ dead'[p] \subseteq Unheld
  BY <1>1, HistoryHolds DEF Sweeping, graph, Holds, Unheld, Roots, Active, Retired,
     Promoted
<1>3. \A h \in held'[p] : h[1] \in Slices => h[1] \in roots'[p]
  BY <1>1, <1>2, LivenessAssumption DEF Holds, Roots, Active, Promoted, GraphOK, Content
<1>4. \A h \in held'[p] : h[1] \in Entities => h[1] \in roots'[p]
  BY <1>1, <1>2 DEF Facts
<1>5. roots'[p] \cap dead'[p] = {}
  BY <1>1, <1>2, LivenessAssumption DEF Facts, Unheld, Active
<1>6. dead'[p] \cap Entities \subseteq retired'[p]
  BY <1>1, <1>2 DEF Facts
<1>7. \A n \in dead'[p], c \in roots'[p] : <<c, n>> \notin scoped'
  <2> SUFFICES ASSUME NEW n \in dead'[p], NEW c \in roots'[p], <<c, n>> \in scoped
               PROVE  FALSE
    BY <1>1 DEF graph
  <2>1. c \in Slices
    BY DEF GraphOK
  <2>2. c \in Active
    BY <1>1, <2>1, LivenessAssumption DEF Facts, Content
  <2>3. <<c, n>> \in Holds
    BY <2>2 DEF Holds, Roots
  <2> QED
    BY <1>2, <2>3 DEF Unheld
<1> QED
  BY <1>1, <1>3, <1>4, <1>5, <1>6, <1>7, HistoryHolds DEF Facts

\* after the mark,
LEMMA MarkFacts ==
    ASSUME GraphOK, OperationOK, SweepOK, HistoryOK, NEW p \in Processes,
           Mark(p), Facts(p)
    PROVE  Facts(p)'
<1> DEFINE rooted == (Promoted \ retired[p]) \cup (roots[p] \cap nodes)
<1>1. /\ pc[p] = "mark" /\ pc'[p] = "rows" /\ UNCHANGED graph /\ Track
      /\ live'[p] = rooted \cup {n \in Content : \E r \in rooted : <<r, n>> \in scoped}
  BY DEF Mark, Step, OperationOK, SweepOK
<1>2. /\ held'[p] \subseteq held[p] /\ dead'[p] \subseteq dead[p]
      /\ held'[p] \subseteq Holds /\ dead'[p] \subseteq Unheld
  BY <1>1, HistoryHolds DEF Sweeping, graph, Holds, Unheld, Roots, Active, Retired,
     Promoted
<1>3. ASSUME NEW h \in held'[p]
      PROVE  h[2] \in live'[p]
  <2>1. CASE h \in scoped /\ h[1] \in Roots
    <3>1. h[1] \in Slices \cap nodes /\ h[2] \in Content /\ h = <<h[1], h[2]>>
      BY <2>1 DEF GraphOK, Content
    <3>2. h[1] \in rooted
      BY <1>1, <1>2, <3>1 DEF Facts
    <3> QED
      BY <1>1, <2>1, <3>1, <3>2
  <2>2. CASE \E n \in Roots \cap Content : h = <<n, n>>
    <3>1. PICK n \in Roots \cap Content : h = <<n, n>>
      BY <2>2
    <3>2. h[1] = n /\ h[2] = n
      BY <3>1
    <3>3. n \in nodes
      BY <1>2, <3>1, RootsType
    <3>4. CASE n \in Entities
      BY <1>1, <1>2, <3>2, <3>3, <3>4 DEF Facts
    <3>5. CASE n \notin Entities
      <4>1. n \in Promoted
        BY <3>1, <3>5, LivenessAssumption DEF Roots, Active
      <4> QED
        BY <1>1, <3>2, <3>5, <4>1 DEF SweepOK
    <3> QED
      BY <3>4, <3>5
  <2> QED
    BY <1>2, <2>1, <2>2 DEF Holds
<1>4. ASSUME NEW n \in dead'[p], n \in live'[p]
      PROVE  FALSE
  <2>1. n \in Content \cap nodes /\ n \in dead[p] /\ n \notin Roots
    BY <1>2, UnheldNoRoot
  <2>2. CASE n \in Promoted \ retired[p]
    <3>1. n \in Retired
      BY <2>1, <2>2 DEF Roots
    <3> QED
      BY <1>1, <2>1, <2>2, <3>1 DEF Facts, Retired
  <2>3. CASE n \in roots[p]
    BY <1>1, <2>1, <2>3 DEF Facts
  <2>4. CASE \E r \in rooted : <<r, n>> \in scoped
    <3>1. PICK r \in rooted : <<r, n>> \in scoped
      BY <2>4
    <3>2. r \in Slices
      BY <3>1 DEF GraphOK
    <3>3. r \in roots[p]
      BY <3>1, <3>2, LivenessAssumption DEF Promoted
    <3> QED
      BY <1>1, <2>1, <3>1, <3>3 DEF Facts
  <2> QED
    BY <1>1, <1>4, <2>2, <2>3, <2>4
<1> QED
  BY <1>1, <1>3, <1>4, HistoryHolds DEF Facts

\* and after the rows, the facts of that phase hold.
LEMMA RowFacts ==
    ASSUME GraphOK, OperationOK, SweepOK, HistoryOK, NEW p \in Processes,
           ReadRows(p), Facts(p)
    PROVE  Facts(p)'
<1>1. /\ pc[p] = "rows" /\ pc'[p] = "write" /\ Track
      /\ archives'[p] = ((Content \cap nodes) \ archived) \ live[p]
      /\ revives'[p] = archived \cap live[p]
  BY DEF ReadRows, Step, OperationOK, SweepOK
<1>2. held'[p] \subseteq held[p] /\ dead'[p] \subseteq dead[p]
  BY <1>1, HistoryHolds DEF Sweeping
<1>3. \A h \in held'[p] : h[2] \notin archives'[p]
  BY <1>1, <1>2 DEF Facts
<1>4. revives'[p] \cap dead'[p] = {}
  BY <1>1, <1>2 DEF Facts
<1> QED
  BY <1>1, <1>3, <1>4, HistoryHolds DEF Facts

\* Every step that ends in a sweep's phase for its process is a read of that sweep.
LEMMA OwnStep ==
    ASSUME GraphOK, OperationOK, NEW p \in Processes, Operation(p)
    PROVE  \/ pc'[p] \notin Sweeping
           \/ BeginSweep(p) \/ ReadActive(p) \/ Mark(p) \/ ReadRows(p)
<1> USE DEF Sweeping, OperationOK
<1>1. ASSUME NEW c \in Slices, CheckChange(p, c)
      PROVE  pc'[p] \notin Sweeping
  BY <1>1 DEF CheckChange, Step, Plan
<1>2. ASSUME MintChange(p)
      PROVE  pc'[p] \notin Sweeping
  BY <1>2 DEF MintChange, Step, capture
<1>3. ASSUME OpenChange(p)
      PROVE  pc'[p] \notin Sweeping
  BY <1>3 DEF OpenChange, Step, Done, Plan
<1>4. ASSUME NEW g \in Goals, NEW n \in Notes, CheckGoal(p, g, n)
      PROVE  pc'[p] \notin Sweeping
  BY <1>4 DEF CheckGoal, Step, Plan
<1>5. ASSUME ReadScope(p)
      PROVE  pc'[p] \notin Sweeping
  BY <1>5 DEF ReadScope, Step, Plan
<1>6. ASSUME NEW t \in Tiers, MintNote(p, t)
      PROVE  pc'[p] \notin Sweeping
  BY <1>6 DEF MintNote, Step, Done, Plan
<1>7. ASSUME NEW g \in Goals, NEW e \in Entities, CheckEntity(p, g, e)
      PROVE  pc'[p] \notin Sweeping
  BY <1>7 DEF CheckEntity, Step, Plan
<1>8. ASSUME MintEntity(p)
      PROVE  pc'[p] \notin Sweeping
  BY <1>8 DEF MintEntity, Step, Done, Plan
<1>9. ASSUME NEW x \in Slices \cup Entities, NEW event \in Lifecycle, Journal(p, x, event)
      PROVE  pc'[p] \notin Sweeping
  BY <1>9 DEF Journal, Ruling
<1>10. ASSUME NEW n \in Content, NEW t \in Tiers, SetTier(p, n, t)
      PROVE  pc'[p] \notin Sweeping
  BY <1>10 DEF SetTier, Ruling
<1>11. ASSUME NEW n \in Content, NEW flag \in BOOLEAN, SetArchived(p, n, flag)
      PROVE  pc'[p] \notin Sweeping
  BY <1>11 DEF SetArchived, Ruling
<1>12. ASSUME NEW n \in Notes, NEW t \in Tiers, Consolidate(p, n, t)
      PROVE  pc'[p] \notin Sweeping
  BY <1>12 DEF Consolidate, Ruling
<1>13. ASSUME NEW edge \in scoped, DeleteEdge(p, edge)
      PROVE  pc'[p] \notin Sweeping
  BY <1>13 DEF DeleteEdge, Ruling
<1>14. ASSUME WriteSweep(p)
      PROVE  pc'[p] \notin Sweeping
  BY <1>14 DEF WriteSweep, Step, Forget
<1>15. ASSUME Crash(p)
      PROVE  pc'[p] \notin Sweeping
  BY <1>15 DEF Crash, Step, Done, Plan, Forget
<1> QED
  BY <1>1, <1>2, <1>3, <1>4, <1>5, <1>6, <1>7, <1>8, <1>9, <1>10, <1>11, <1>12, <1>13,
     <1>14, <1>15 DEF Operation

\* Every step keeps every sweep's facts.
LEMMA FactsKept ==
    ASSUME TypeOK, MintInv, SweepInv, NEW p \in Processes, Operation(p)
    PROVE  SweepInv'
<1> USE TypeParts
<1>1. Aside(p)
  BY StepsAside
<1>2. ASSUME NEW q \in Processes
      PROVE  Facts(q)'
  <2>1. Facts(q)
    BY DEF SweepInv
  <2>2. CASE q # p
    BY <1>1, <2>1, <2>2, FactsFrame DEF Aside
  <2>3. CASE q = p
    <3>1. CASE pc'[p] \notin Sweeping
      BY <1>1, <2>3, <3>1, Away DEF Aside
    <3>2. CASE BeginSweep(p)
      BY <2>3, <3>2, BeginFacts
    <3>3. CASE ReadActive(p)
      BY <2>1, <2>3, <3>3, ActiveFacts
    <3>4. CASE Mark(p)
      BY <2>1, <2>3, <3>4, MarkFacts
    <3>5. CASE ReadRows(p)
      BY <2>1, <2>3, <3>5, RowFacts
    <3> QED
      BY <3>1, <3>2, <3>3, <3>4, <3>5, OwnStep
  <2> QED
    BY <2>2, <2>3
<1> QED
  BY <1>2 DEF SweepInv

\* Every step keeps that changes are opened.
LEMMA ChangesOpened ==
    ASSUME GraphOK, OperationOK, MintInv, ChangesAreOpened, NEW p \in Processes,
           Operation(p)
    PROVE  ChangesAreOpened'
<1> USE LivenessAssumption DEF ChangesAreOpened, MintInv, OperationOK, GraphOK, Content,
        Lifecycle, Capturing
<1>1. ASSUME NEW c \in Slices, CheckChange(p, c)
      PROVE  ChangesAreOpened'
  BY <1>1 DEF CheckChange, Step, Plan, graph, capture
<1>2. CASE MintChange(p)
  BY <1>2 DEF MintChange, Step, capture, graph, capture
<1>3. CASE OpenChange(p)
  BY <1>3 DEF OpenChange, Step, Done, Plan, graph, capture
<1>4. ASSUME NEW g \in Goals, NEW n \in Notes, CheckGoal(p, g, n)
      PROVE  ChangesAreOpened'
  BY <1>4 DEF CheckGoal, Step, Plan, graph, capture
<1>5. CASE ReadScope(p)
  BY <1>5 DEF ReadScope, Step, Plan, graph, capture
<1>6. ASSUME NEW t \in Tiers, MintNote(p, t)
      PROVE  ChangesAreOpened'
  BY <1>6 DEF MintNote, Step, Done, Plan, graph, capture
<1>7. ASSUME NEW g \in Goals, NEW e \in Entities, CheckEntity(p, g, e)
      PROVE  ChangesAreOpened'
  BY <1>7 DEF CheckEntity, Step, Plan, graph, capture
<1>8. CASE MintEntity(p)
  BY <1>8 DEF MintEntity, Step, Done, Plan, graph, capture
<1>9. ASSUME NEW x \in Slices \cup Entities, NEW event \in Lifecycle, Journal(p, x, event)
      PROVE  ChangesAreOpened'
  BY <1>9 DEF Journal, Ruling, graph, capture
<1>10. ASSUME NEW n \in Content, NEW t \in Tiers, SetTier(p, n, t)
      PROVE  ChangesAreOpened'
  BY <1>10 DEF SetTier, Ruling, graph, capture
<1>11. ASSUME NEW n \in Content, NEW flag \in BOOLEAN, SetArchived(p, n, flag)
      PROVE  ChangesAreOpened'
  BY <1>11 DEF SetArchived, Ruling, graph, capture
<1>12. ASSUME NEW n \in Notes, NEW t \in Tiers, Consolidate(p, n, t)
      PROVE  ChangesAreOpened'
  BY <1>12 DEF Consolidate, Ruling, graph, capture
<1>13. ASSUME NEW edge \in scoped, DeleteEdge(p, edge)
      PROVE  ChangesAreOpened'
  BY <1>13 DEF DeleteEdge, Ruling, graph, capture
<1>14. CASE BeginSweep(p)
  BY <1>14 DEF BeginSweep, Step, graph, capture
<1>15. CASE ReadActive(p)
  BY <1>15 DEF ReadActive, Step, graph, capture
<1>16. CASE Mark(p)
  BY <1>16 DEF Mark, Step, graph, capture
<1>17. CASE ReadRows(p)
  BY <1>17 DEF ReadRows, Step, graph, capture
<1>18. CASE WriteSweep(p)
  BY <1>18 DEF WriteSweep, Step, Forget, graph, capture
<1>19. CASE Crash(p)
  BY <1>19 DEF Crash, Step, Done, Plan, Forget, graph, capture
<1> QED
  BY <1>1, <1>2, <1>3, <1>4, <1>5, <1>6, <1>7, <1>8, <1>9, <1>10, <1>11, <1>12, <1>13,
     <1>14, <1>15, <1>16, <1>17, <1>18, <1>19 DEF Operation

\* The invariant holds at the start,
LEMMA Start == Init => Inv
<1> SUFFICES ASSUME Init PROVE Inv
  OBVIOUS
<1> USE LivenessAssumption DEF Init
<1>1. TypeOK
  BY DEF TypeOK, Content
<1>2. MintInv
  BY DEF MintInv, FreshPhases, Capturing
<1>3. SweepInv
  BY DEF SweepInv, Facts
<1>4. ChangesAreOpened
  BY DEF ChangesAreOpened
<1> QED
  BY <1>1, <1>2, <1>3, <1>4 DEF Inv

\* every step keeps it,
LEMMA Induction == Inv /\ [Next]_vars => Inv'
<1> SUFFICES ASSUME Inv, [Next]_vars PROVE Inv'
  OBVIOUS
<1>1. ASSUME NEW p \in Processes, Operation(p) PROVE Inv'
  <2>1. GraphOK /\ OperationOK /\ SweepOK /\ HistoryOK /\ MintInv
    BY TypeParts DEF Inv
  <2>2. GraphOK' /\ OperationOK' /\ SweepOK' /\ MintInv'
    BY <1>1, <2>1, GraphTyped, OperationTyped, SweepTyped, MintKept
  <2>3. HistoryOK'
    BY <1>1, <2>1, <2>2, StepsAside, HistoryTyped DEF Aside
  <2>4. TypeOK'
    BY <2>2, <2>3 DEF TypeOK, GraphOK, OperationOK, SweepOK, HistoryOK
  <2>5. SweepInv'
    BY <1>1, FactsKept DEF Inv
  <2>6. ChangesAreOpened'
    BY <1>1, <2>1, ChangesOpened DEF Inv
  <2> QED
    BY <2>2, <2>4, <2>5, <2>6 DEF Inv
<1>2. CASE UNCHANGED vars
  <2> USE <1>2 DEF vars, graph, capture, sweep, history, Inv
  <2>1. TypeOK'
    BY DEF TypeOK
  <2>2. MintInv'
    BY DEF MintInv
  <2>3. SweepInv'
    BY DEF SweepInv, Facts, Holds, Unheld, Roots, Active, Retired, Promoted
  <2>4. ChangesAreOpened'
    BY DEF ChangesAreOpened
  <2> QED
    BY <2>1, <2>2, <2>3, <2>4
<1>3. CASE Next
  BY <1>1, <1>3 DEF Next
<1> QED
  BY <1>2, <1>3

\* and so it always holds.
LEMMA Invariance == Spec => []Inv
BY Start, Induction, PTL DEF Spec

\* Types are kept for every set of processes, ids and tiers, and every edge,
\* archived flag and pending write is about a node that is in the database.
THEOREM TypeCorrect == Spec => []TypeOK
<1>1. Inv => TypeOK
  BY DEF Inv
<1> QED
  BY <1>1, Invariance, PTL

\* No sweep, of any number that run at once, archives a node one root held all
\* the while, whatever is minted and ruled between its reads (storage.py:1137-1218).
THEOREM SteadySurvive == Spec => []SteadyRootsSurvive
<1>1. Inv => SteadyRootsSurvive
  BY DEF Inv, SweepInv, Facts, SteadyRootsSurvive
<1> QED
  BY <1>1, Invariance, PTL

\* No sweep reactivates a node that no root held all the while
\* (storage.py:1163-1187).
THEOREM DeadStayDead == Spec => []SweepRevivesOnlyTheLive
<1>1. Inv => SweepRevivesOnlyTheLive
  BY DEF Inv, SweepInv, Facts, SweepRevivesOnlyTheLive
<1> QED
  BY <1>1, Invariance, PTL

\* Without a crash every change is opened (agent_surface.py:239-242).
THEOREM Opened == Spec => []ChangesAreOpened
<1>1. Inv => ChangesAreOpened
  BY DEF Inv
<1> QED
  BY <1>1, Invariance, PTL
-----------------------------------------------------------------------------
(* What the code does not see to, and holds when its users do: a name of    *)
(* its own for every entity, and entities that every sweep spares.          *)

\* At most one process is between the look-up of a name and its transaction.
NamedInTurn ==
    \A p, q \in Processes :
        pc[p] = "mint-entity" /\ pc[q] = "mint-entity" => p = q

\* The entities are one to a name, and a name that was free stays so.
NameInv ==
    /\ EntityNamesAreOne
    /\ \A p \in Processes : pc[p] = "mint-entity" => PathIsFree(minting[p], Entities)

\* What a step does for the names: one looks a name up, one mints what it looked
\* up, and the others mint no entity.
NameStep(p) ==
    \/ /\ Entities \cap nodes' = Entities \cap nodes
       /\ \A q \in Processes : pc'[q] = "mint-entity" =>
            pc[q] = "mint-entity" /\ minting'[q] = minting[q]
    \/ \E e \in Entities :
        /\ PathIsFree(e, Entities)
        /\ nodes' = nodes /\ minting'[p] = e
        /\ \A q \in Processes \ {p} : pc'[q] = pc[q] /\ minting'[q] = minting[q]
    \/ /\ pc[p] = "mint-entity" /\ pc'[p] = "idle"
       /\ nodes' = nodes \cup {minting[p]}
       /\ \A q \in Processes \ {p} : pc'[q] = pc[q]

\* Every step does one of these.
LEMMA NamesMove ==
    ASSUME GraphOK, OperationOK, MintInv, NEW p \in Processes, Operation(p)
    PROVE  NameStep(p)
<1> USE LivenessAssumption DEF NameStep, MintInv, FreshPhases, GraphOK, OperationOK,
        Content
<1>1. ASSUME NEW c \in Slices, CheckChange(p, c)
      PROVE  NameStep(p)
  BY <1>1 DEF CheckChange, Step, Plan, graph, Fresh
<1>2. CASE MintChange(p)
  BY <1>2 DEF MintChange, Step, capture
<1>3. CASE OpenChange(p)
  BY <1>3 DEF OpenChange, Step, Done, Plan
<1>4. ASSUME NEW g \in Goals, NEW n \in Notes, CheckGoal(p, g, n)
      PROVE  NameStep(p)
  BY <1>4 DEF CheckGoal, Step, Plan, graph, Fresh
<1>5. CASE ReadScope(p)
  BY <1>5 DEF ReadScope, Step, Plan, graph
<1>6. ASSUME NEW t \in Tiers, MintNote(p, t)
      PROVE  NameStep(p)
  BY <1>6 DEF MintNote, Step, Done, Plan
<1>7. ASSUME NEW g \in Goals, NEW e \in Entities, CheckEntity(p, g, e)
      PROVE  NameStep(p)
  BY <1>7 DEF CheckEntity, Step, Plan, graph
<1>8. CASE MintEntity(p)
  BY <1>8 DEF MintEntity, Step, Done, Plan
<1>9. ASSUME NEW x \in Slices \cup Entities, NEW event \in Lifecycle, Journal(p, x, event)
      PROVE  NameStep(p)
  BY <1>9 DEF Journal, Ruling, capture
<1>10. ASSUME NEW n \in Content, NEW t \in Tiers, SetTier(p, n, t)
      PROVE  NameStep(p)
  BY <1>10 DEF SetTier, Ruling, capture
<1>11. ASSUME NEW n \in Content, NEW flag \in BOOLEAN, SetArchived(p, n, flag)
      PROVE  NameStep(p)
  BY <1>11 DEF SetArchived, Ruling, capture
<1>12. ASSUME NEW n \in Notes, NEW t \in Tiers, Consolidate(p, n, t)
      PROVE  NameStep(p)
  BY <1>12 DEF Consolidate, Ruling, capture
<1>13. ASSUME NEW edge \in scoped, DeleteEdge(p, edge)
      PROVE  NameStep(p)
  BY <1>13 DEF DeleteEdge, Ruling, capture
<1>14. CASE BeginSweep(p)
  BY <1>14 DEF BeginSweep, Step, graph, capture
<1>15. CASE ReadActive(p)
  BY <1>15 DEF ReadActive, Step, graph, capture
<1>16. CASE Mark(p)
  BY <1>16 DEF Mark, Step, graph, capture
<1>17. CASE ReadRows(p)
  BY <1>17 DEF ReadRows, Step, graph, capture
<1>18. CASE WriteSweep(p)
  BY <1>18 DEF WriteSweep, Step, capture
<1>19. CASE Crash(p)
  BY <1>19 DEF Crash, Step, Done, Plan, graph
<1> QED
  BY <1>1, <1>2, <1>3, <1>4, <1>5, <1>6, <1>7, <1>8, <1>9, <1>10, <1>11, <1>12, <1>13,
     <1>14, <1>15, <1>16, <1>17, <1>18, <1>19 DEF Operation

\* In turn, no step takes a name twice.
LEMMA NamesKept == Inv /\ NamedInTurn /\ NamedInTurn' /\ NameInv /\ [Next]_vars => NameInv'
<1> SUFFICES ASSUME Inv, NamedInTurn, NamedInTurn', NameInv, [Next]_vars
             PROVE  NameInv'
  OBVIOUS
<1> USE DEF NameInv, EntityNamesAreOne, PathIsFree
<1>1. ASSUME NEW p \in Processes, Operation(p)
      PROVE  NameInv'
  <2>1. GraphOK /\ OperationOK /\ MintInv
    BY TypeParts DEF Inv
  <2>2. NameStep(p)
    BY <1>1, <2>1, NamesMove
  <2>3. CASE /\ Entities \cap nodes' = Entities \cap nodes
             /\ \A q \in Processes : pc'[q] = "mint-entity" =>
                  pc[q] = "mint-entity" /\ minting'[q] = minting[q]
    BY <2>3
  <2>4. CASE \E e \in Entities :
               /\ PathIsFree(e, Entities)
               /\ nodes' = nodes /\ minting'[p] = e
               /\ \A q \in Processes \ {p} : pc'[q] = pc[q] /\ minting'[q] = minting[q]
    BY <2>4
  <2>5. CASE /\ pc[p] = "mint-entity" /\ pc'[p] = "idle"
             /\ nodes' = nodes \cup {minting[p]}
             /\ \A q \in Processes \ {p} : pc'[q] = pc[q]
    <3>1. minting[p] \in Entities /\ PathIsFree(minting[p], Entities)
      BY <2>1, <2>5 DEF MintInv
    <3>2. \A q \in Processes : pc'[q] # "mint-entity"
      BY <2>5 DEF NamedInTurn
    <3> QED
      BY <2>5, <3>1, <3>2
  <2> QED
    BY <2>2, <2>3, <2>4, <2>5 DEF NameStep
<1>2. CASE UNCHANGED vars
  BY <1>2 DEF vars, graph, capture
<1> QED
  BY <1>1, <1>2 DEF Next

\* Where no two processes are at once between the look-up of a name and the
\* transaction that takes it, an entity has its name to itself, whoever dies in
\* between: the name is free as long as nobody else looks (agent_surface.py:443-445).
THEOREM NamesAreOneInTurn == Spec /\ []NamedInTurn => []EntityNamesAreOne
<1>1. Init => NameInv
  BY DEF Init, NameInv, EntityNamesAreOne, PathIsFree
<1>2. Inv /\ NamedInTurn /\ NamedInTurn' /\ NameInv /\ [Next]_vars => NameInv'
  BY NamesKept
<1>3. NameInv => EntityNamesAreOne
  BY DEF NameInv
<1> QED
  BY <1>1, <1>2, <1>3, Invariance, PTL DEF Spec

\* The entities a sweep is to spare.
Standing == (Entities \cap nodes) \ Retired

\* No entity is minted, or taken back from retirement, while a sweep is under way.
NoneStandsUp ==
    (\E p \in Processes : pc[p] \in Sweeping) => Standing' \subseteq Standing

\* Every entity that stands has stood since any sweep began.
StandingInv ==
    \A p \in Processes : pc[p] \in Sweeping =>
        \A e \in Standing : <<e, e>> \in held[p]

\* An entity that stands is a root.
LEMMA StandingHolds == \A e \in Standing : <<e, e>> \in Holds
BY DEF Standing, Holds, Roots, Content

\* The same of the next state.
LEMMA StandingHoldsNext == \A e \in Standing' : <<e, e>> \in Holds'
BY DEF Standing, Holds, Roots, Content

\* A step that leaves a process in its sweep finds it there, or begins the sweep.
LEMMA SweepsOnward ==
    ASSUME GraphOK, OperationOK, NEW p \in Processes, Operation(p), Aside(p),
           NEW q \in Processes, pc'[q] \in Sweeping, pc[q] # "idle"
    PROVE  pc[q] \in Sweeping
<1>1. CASE q # p
  BY <1>1 DEF Aside
<1>2. CASE q = p
  BY <1>2, OwnStep DEF BeginSweep, ReadActive, Mark, ReadRows, Step, Sweeping
<1> QED
  BY <1>1, <1>2

\* While none stands up, those that stand have stood all the while.
LEMMA StandingKept ==
    Inv /\ StandingInv /\ [Next]_vars /\ (NoneStandsUp \/ UNCHANGED vars) => StandingInv'
<1> SUFFICES ASSUME Inv, StandingInv, [Next]_vars, NoneStandsUp \/ UNCHANGED vars
             PROVE  StandingInv'
  OBVIOUS
<1>1. CASE UNCHANGED vars
  BY <1>1 DEF vars, graph, history, StandingInv, Standing, Retired
<1>2. ASSUME NoneStandsUp, NEW p \in Processes, Operation(p)
      PROVE  StandingInv'
  <2>1. Aside(p)
    BY <1>2, TypeParts, StepsAside DEF Inv
  <2>2. GraphOK /\ OperationOK
    BY TypeParts DEF Inv
  <2>3. SUFFICES ASSUME NEW q \in Processes, pc'[q] \in Sweeping, NEW e \in Standing'
                 PROVE  <<e, e>> \in held'[q]
    BY DEF StandingInv
  <2>4. <<e, e>> \in Holds'
    BY <2>3, StandingHoldsNext
  <2>5. CASE pc[q] = "idle"
    BY <2>1, <2>3, <2>4, <2>5 DEF Aside, Track
  <2>6. CASE pc[q] # "idle"
    <3>1. pc[q] \in Sweeping
      BY <1>2, <2>1, <2>2, <2>3, <2>6, SweepsOnward
    <3>2. e \in Standing
      BY <1>2, <2>3, <3>1 DEF NoneStandsUp
    <3> QED
      BY <2>1, <2>3, <2>4, <2>6, <3>1, <3>2 DEF Aside, Track, StandingInv
  <2> QED
    BY <2>5, <2>6
<1> QED
  BY <1>1, <1>2 DEF Next

\* The step that ends a sweep, unless it dies, is its transaction.
LEMMA WriteIsWritten ==
    ASSUME OperationOK, NEW p \in Processes, Operation(p), pc[p] = "write",
           crashes' = crashes
    PROVE  WriteSweep(p)
<1>1. ~Crash(p)
  BY DEF Crash, OperationOK
<1> QED
  BY <1>1 DEF Operation, CheckChange, MintChange, OpenChange, CheckGoal, ReadScope,
     MintNote,
     CheckEntity, MintEntity, Journal, SetTier, SetArchived, Consolidate, DeleteEdge, Ruling,
     BeginSweep, ReadActive, Mark, ReadRows, Step

\* A sweep spares the entities that have stood since it began.
SweepSpares ==
    \A p \in Processes :
        pc[p] = "write" /\ pc'[p] = "idle" /\ crashes' = crashes
          => \A e \in (archived' \ archived) \cap Entities : e \in Retired

LEMMA SweepsSpare == Inv /\ StandingInv /\ [Next]_vars => SweepSpares
<1> SUFFICES ASSUME Inv, StandingInv, [Next]_vars, NEW p \in Processes,
                    pc[p] = "write", pc'[p] = "idle", crashes' = crashes,
                    NEW e \in (archived' \ archived) \cap Entities
             PROVE  e \in Retired
  BY DEF SweepSpares
<1>1. PICK q \in Processes : Operation(q)
  BY DEF Next, vars, graph
<1>2. GraphOK /\ OperationOK /\ SweepOK /\ HistoryOK /\ MintInv /\ Facts(p)
  BY TypeParts DEF Inv, SweepInv
<1>3. q = p
  BY <1>1, <1>2, StepsAside DEF Aside
<1>4. archived' = (archived \cup archives[p]) \ revives[p]
  BY <1>1, <1>2, <1>3, WriteIsWritten DEF WriteSweep
<1>5. e \in archives[p] /\ e \in nodes
  BY <1>2, <1>4 DEF SweepOK
<1>6. CASE e \in Standing
  <2>1. <<e, e>> \in held[p]
    BY <1>6 DEF StandingInv, Sweeping
  <2> QED
    BY <1>2, <1>5, <2>1 DEF Facts
<1>7. CASE e \notin Standing
  BY <1>5, <1>7 DEF Standing
<1> QED
  BY <1>6, <1>7

\* A sweep archives an entity that is not retired only if one was minted, or taken
\* back from retirement, while it ran: where none is, every entity that is not
\* retired survives every sweep, of any number that run at once, whatever is minted,
\* promoted, retired or deactivated between their reads (schema.py:21,
\* storage.py:1148-1151).
THEOREM SweepsSpareEntities == Spec /\ [][NoneStandsUp]_vars => EntitiesSurviveSweep
<1>1. Init => StandingInv
  BY DEF Init, StandingInv, Sweeping
<1>2. Inv /\ StandingInv /\ [Next]_vars /\ [NoneStandsUp]_vars => StandingInv'
  BY StandingKept
<1>3. Inv /\ StandingInv /\ [Next]_vars => [SweepSpares]_vars
  BY SweepsSpare
<1> QED
  BY <1>1, <1>2, <1>3, Invariance, PTL DEF Spec, EntitiesSurviveSweep, SweepSpares
=============================================================================
