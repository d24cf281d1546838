---------------------------- MODULE ImpactProofs -----------------------------
(***************************************************************************)
(* The walk of impact_of gives shortest distances in every graph.  The     *)
(* argument is that of breadth-first search: the queue holds the nodes in  *)
(* the order of their distances, no node reached is further than one step  *)
(* beyond the one being looked at, and of a node that has left the queue   *)
(* all dependents are reached, those still pending excepted.               *)
(***************************************************************************)
EXTENDS Impact, GraphProofs

\* Every node reached is one step beyond another that was, but for the seed.
Reached ==
    /\ seed \in DOMAIN dist /\ dist[seed] = 0
    /\ \A n \in DOMAIN dist \ {seed} :
           \E m \in DOMAIN dist : <<n, m>> \in deps /\ dist[n] = dist[m] + 1

\* The queue is sorted, and nothing is further than one step beyond here.
Frontier ==
    /\ here \in DOMAIN dist
    /\ \A n \in DOMAIN dist : dist[n] <= dist[here] + 1
    /\ \A i \in 1..Len(queue) : queue[i] \in DOMAIN dist /\ dist[here] <= dist[queue[i]]
    /\ \A i \in 1..Len(queue) : \A j \in i..Len(queue) : dist[queue[i]] <= dist[queue[j]]
    /\ \A n \in pending : <<n, here>> \in deps

Queued(m) == \E i \in 1..Len(queue) : queue[i] = m

\* A node that left the queue has been looked at from all sides.
Explored ==
    \A n, m \in Nodes :
        <<n, m>> \in deps /\ m \in DOMAIN dist /\ ~Queued(m) =>
            \/ n \in DOMAIN dist /\ dist[n] <= dist[m] + 1
            \/ m = here /\ n \in pending

WalkInv ==
    /\ ipc = "edges" => here = seed /\ pending = {}
    /\ ipc = "walk" => Reached /\ Frontier /\ Explored

\* The rows read again are those the walk reached.
AnswerInv ==
    /\ ipc \in {"idle", "edges", "walk"} => answer = {}
    /\ ipc = "answered" /\ answer # {} => Distances(dist, seed, deps)
    /\ ipc \in {"nodes", "answered"} =>
           \A a \in answer : a.id \in DOMAIN dist \ {seed} /\ a.depth = dist[a.id]
    /\ ipc = "nodes" =>
           \A n \in DOMAIN dist \ {seed} : n \in pending \/ \E a \in answer : a.id = n
    /\ ipc = "nodes" => pending \subseteq DOMAIN dist \ {seed}
    /\ ipc = "answered" /\ answer # {} =>
           \A n \in DOMAIN dist \ {seed} : \E a \in answer : a.id = n

\* Since nobody wrote, what was read is what is there.
QuietAsk ==
    /\ askedAt <= writes
    /\ askedAt = writes =>
        /\ ipc \in {"edges", "walk", "nodes"} => seed \in LiveContent
        /\ ipc = "answered" /\ answer # {} => seed \in LiveContent
        /\ ipc \in {"walk", "nodes", "answered"} /\ (answer # {} \/ ipc # "answered") =>
             deps = Dependencies

ImpactInv ==
    /\ GraphInv /\ ImpactTypeOK
    /\ WalkInv /\ WalkIsShortest /\ AnswerInv /\ QuietAsk

-----------------------------------------------------------------------------
\* The first state.
LEMMA ImpactStarts == ASSUME ImpactInit PROVE ImpactInv
<1>1. GraphInv
  BY GraphInitInv DEF ImpactInit
<1>2. ImpactTypeOK
  BY <1>1, ImpactAssumption DEF ImpactInit, ImpactTypeOK, GraphInv, ImpactAssumption
<1>3. WalkInv /\ WalkIsShortest /\ AnswerInv
  BY DEF ImpactInit, WalkInv, WalkIsShortest, AnswerInv
<1>4. QuietAsk
  BY DEF ImpactInit, QuietAsk, GraphInit
<1>5. QED
  BY <1>1, <1>2, <1>3, <1>4 DEF ImpactInv

\* Every step of the call keeps the types.
LEMMA ImpactKeepsTypes ==
    ASSUME ImpactTypeOK, WalkInv, AnswerInv, GraphTypeOK',
           Walk \/ Forget \/ (\E n \in Nodes : Ask(n)) \/ UNCHANGED asking
    PROVE  ImpactTypeOK'
<1> USE DEF ImpactTypeOK
<1>1. ASSUME NEW n \in Nodes, Ask(n) PROVE ImpactTypeOK'
  BY <1>1, ImpactAssumption DEF Ask, GraphTypeOK, ImpactAssumption
<1>2. CASE ReadDependencies
  <2>1. Dependencies \subseteq Nodes \X Nodes
    BY DEF Dependencies, LiveContent, GraphTypeOK
  <2>2. QED
    BY <1>2, <2>1 DEF ReadDependencies
<1>3. CASE Take
  BY <1>3 DEF Take
<1>4. ASSUME NEW n \in Nodes, Look(n) PROVE ImpactTypeOK'
  <2>1. here \in DOMAIN dist /\ dist[here] + 1 \in Nat
    BY <1>4 DEF Look, WalkInv, Frontier
  <2>2. DOMAIN dist' \in SUBSET Nodes /\ \A m \in DOMAIN dist' : dist'[m] \in Nat
    BY <1>4, <2>1 DEF Look
  <2>3. queue' \in Seq(Nodes)
    BY <1>4 DEF Look
  <2>4. QED
    BY <1>4, <2>2, <2>3 DEF Look
<1>5. CASE EndWalk
  BY <1>5 DEF EndWalk
<1>6. ASSUME NEW n \in Nodes, ReadReached(n) PROVE ImpactTypeOK'
  <2>1. [id |-> n, archived |-> n \in archived, depth |-> dist[n]]
            \in [id : Nodes, archived : BOOLEAN, depth : Nat]
    BY <1>6 DEF ReadReached, AnswerInv
  <2>2. QED
    BY <1>6, <2>1 DEF ReadReached
<1>7. CASE Answer \/ Forget
  BY <1>7 DEF Answer, Forget
<1>8. CASE UNCHANGED asking
  BY <1>8 DEF asking
<1>9. QED
  BY <1>1, <1>2, <1>3, <1>4, <1>5, <1>6, <1>7, <1>8 DEF Walk

\* Looking at a dependent keeps the order of the queue.
LEMMA LookKeepsOrder ==
    ASSUME ImpactTypeOK, Reached, Frontier, Explored, NEW n \in Nodes, Look(n)
    PROVE  Reached' /\ Frontier' /\ Explored'
<1> USE DEF ImpactTypeOK
<1>0. /\ here \in DOMAIN dist /\ <<n, here>> \in deps /\ n \in pending
      /\ dist[here] \in Nat /\ UNCHANGED <<seed, deps, here>>
      /\ pending' = pending \ {n}
  BY DEF Look, Frontier
<1>1. CASE n \in DOMAIN dist
  <2>1. UNCHANGED <<dist, queue>>
    BY <1>1 DEF Look
  <2>2. Reached' /\ Frontier'
    BY <1>0, <2>1 DEF Reached, Frontier
  <2>3. Explored'
    BY <1>0, <1>1, <2>1 DEF Explored, Queued, Frontier
  <2>4. QED
    BY <2>2, <2>3
<1>2. CASE n \notin DOMAIN dist
  <2>1. /\ DOMAIN dist' = DOMAIN dist \cup {n}
        /\ dist'[n] = dist[here] + 1
        /\ \A m \in DOMAIN dist : dist'[m] = dist[m]
    BY <1>2 DEF Look
  <2>2. /\ Len(queue') = Len(queue) + 1 /\ Len(queue) \in Nat
        /\ \A i \in 1..Len(queue) : queue'[i] = queue[i]
        /\ queue'[Len(queue) + 1] = n
    BY <1>2 DEF Look
  <2>3. Reached'
    BY <1>0, <2>1 DEF Reached
  <2>4. Frontier'
    <3>1. \A m \in DOMAIN dist' : dist'[m] <= dist'[here] + 1
      BY <1>0, <2>1 DEF Frontier
    <3>2. \A i \in 1..Len(queue') :
             queue'[i] \in DOMAIN dist' /\ dist'[here] <= dist'[queue'[i]]
      BY <1>0, <2>1, <2>2 DEF Frontier
    <3>3. ASSUME NEW i \in 1..Len(queue'), NEW j \in i..Len(queue')
          PROVE  dist'[queue'[i]] <= dist'[queue'[j]]
      <4>1. CASE j = Len(queue) + 1
        <5>1. queue'[j] = n /\ dist'[queue'[j]] = dist[here] + 1
          BY <4>1, <2>1, <2>2
        <5>2. queue'[i] \in DOMAIN dist'
          BY <3>2
        <5>3. QED
          BY <1>0, <2>1, <3>1, <5>1, <5>2
      <4>2. CASE j \in 1..Len(queue)
        <5>1. i \in 1..Len(queue) /\ j \in i..Len(queue)
          BY <4>2
        <5>2. queue'[i] = queue[i] /\ queue'[j] = queue[j]
          BY <2>2, <5>1
        <5>3. queue[i] \in DOMAIN dist /\ queue[j] \in DOMAIN dist
          BY <4>2, <5>1 DEF Frontier
        <5>4. dist[queue[i]] <= dist[queue[j]]
          BY <5>1 DEF Frontier
        <5>5. QED
          BY <2>1, <5>2, <5>3, <5>4
      <4>3. QED
        BY <2>2, <4>1, <4>2
    <3>4. QED
      BY <1>0, <2>1, <3>1, <3>2, <3>3 DEF Frontier
  <2>5. Explored'
    <3>1. \A m : Queued(m)' <=> Queued(m) \/ m = n
      BY <2>2 DEF Queued
    <3>2. ASSUME NEW k \in Nodes, NEW m \in Nodes,
                 <<k, m>> \in deps, m \in DOMAIN dist', ~(Queued(m)')
          PROVE  \/ k \in DOMAIN dist' /\ dist'[k] <= dist'[m] + 1
                 \/ m = here /\ k \in pending'
      <4>1. m \in DOMAIN dist /\ ~Queued(m) /\ dist'[m] = dist[m]
        BY <2>1, <3>1, <3>2
      <4>2. CASE k \in DOMAIN dist /\ dist[k] <= dist[m] + 1
        BY <2>1, <4>1, <4>2
      <4>3. CASE m = here /\ k \in pending
        BY <1>0, <2>1, <4>1, <4>3
      <4>4. QED
        BY <3>2, <4>1, <4>2, <4>3 DEF Explored
    <3>3. QED
      BY <1>0, <3>2 DEF Explored
  <2>6. QED
    BY <2>3, <2>4, <2>5
<1>3. QED
  BY <1>1, <1>2

\* Taking the next node of the queue.
LEMMA TakeKeepsOrder ==
    ASSUME ImpactTypeOK, Reached, Frontier, Explored, Take
    PROVE  Reached' /\ Frontier' /\ Explored'
<1> USE DEF ImpactTypeOK
<1>1. /\ queue # <<>> /\ Len(queue) \in Nat \ {0} /\ here' = queue[1]
      /\ Len(queue') = Len(queue) - 1
      /\ \A i \in 1..Len(queue') : queue'[i] = queue[i + 1]
      /\ pending = {} /\ pending' = {n \in Nodes : <<n, queue[1]>> \in deps}
      /\ UNCHANGED <<seed, deps, dist>>
  BY DEF Take
<1>2. /\ queue[1] \in DOMAIN dist /\ queue[1] \in Nodes
      /\ dist[queue[1]] \in Nat /\ dist[here] \in Nat
      /\ dist[here] <= dist[queue[1]]
  BY <1>1 DEF Frontier
<1>3. Reached'
  BY <1>1 DEF Reached
<1>4. Frontier'
  <2>1. \A n \in DOMAIN dist : dist[n] <= dist[queue[1]] + 1
    BY <1>2 DEF Frontier
  <2>2. ASSUME NEW i \in 1..Len(queue')
        PROVE  queue'[i] \in DOMAIN dist /\ dist[queue[1]] <= dist[queue'[i]]
    <3>1. i + 1 \in 1..Len(queue) /\ 1 \in 1..Len(queue)
      BY <1>1
    <3>2. QED
      BY <1>1, <3>1 DEF Frontier
  <2>3. ASSUME NEW i \in 1..Len(queue'), NEW j \in i..Len(queue')
        PROVE  dist[queue'[i]] <= dist[queue'[j]]
    <3>1. i + 1 \in 1..Len(queue) /\ j + 1 \in (i + 1)..Len(queue) /\ j \in 1..Len(queue')
      BY <1>1
    <3>2. dist[queue[i + 1]] <= dist[queue[j + 1]]
      BY <3>1 DEF Frontier
    <3>3. QED
      BY <1>1, <3>1, <3>2
  <2>4. QED
    BY <1>1, <1>2, <2>1, <2>2, <2>3 DEF Frontier
<1>5. Explored'
  <2>1. \A m : Queued(m) => Queued(m)' \/ m = queue[1]
    <3>1. SUFFICES ASSUME NEW i \in 1..Len(queue), i # 1
                   PROVE  \E j \in 1..Len(queue') : queue'[j] = queue[i]
      BY DEF Queued
    <3>2. i - 1 \in 1..Len(queue') /\ queue'[i - 1] = queue[(i - 1) + 1]
      BY <1>1, <3>1
    <3>3. QED
      BY <3>2
  <2>2. QED
    BY <1>1, <1>2, <2>1 DEF Explored
<1>6. QED
  BY <1>3, <1>4, <1>5

\* The walk keeps its invariant, and ends with the shortest distances.
LEMMA ImpactKeepsWalk ==
    ASSUME ImpactTypeOK, WalkInv, WalkIsShortest,
           Walk \/ Forget \/ (\E n \in Nodes : Ask(n)) \/ UNCHANGED asking
    PROVE  WalkInv' /\ WalkIsShortest'
<1> USE DEF WalkInv, WalkIsShortest
<1>1. CASE Forget \/ Answer \/ \E n \in Nodes : Ask(n)
  BY <1>1 DEF Forget, Answer, Ask
<1>2. CASE ReadDependencies
  <2>1. /\ DOMAIN dist' = {seed} /\ dist'[seed] = 0 /\ queue' = <<seed>>
        /\ UNCHANGED <<seed, here, pending>> /\ ipc' = "walk"
    BY <1>2 DEF ReadDependencies
  <2>2. here = seed /\ pending = {}
    BY <1>2 DEF ReadDependencies
  <2>3. QED
    BY <2>1, <2>2 DEF Reached, Frontier, Explored, Queued
<1>3. CASE Take
  <2>1. ipc = "walk" /\ ipc' = "walk"
    BY <1>3 DEF Take
  <2>2. QED
    BY <1>3, <2>1, TakeKeepsOrder
<1>4. ASSUME NEW n \in Nodes, Look(n) PROVE WalkInv' /\ WalkIsShortest'
  <2>1. ipc = "walk" /\ ipc' = "walk"
    BY <1>4 DEF Look
  <2>2. QED
    BY <1>4, <2>1, LookKeepsOrder
<1>5. CASE EndWalk
  <2>1. /\ Reached /\ Explored /\ queue = <<>> /\ pending = {}
        /\ ipc' = "nodes" /\ UNCHANGED <<dist, seed, deps>>
    BY <1>5 DEF EndWalk
  <2>2. \A m : ~Queued(m)
    BY <2>1 DEF Queued
  <2>3. ASSUME NEW e \in deps, e[2] \in DOMAIN dist
        PROVE  e[1] \in DOMAIN dist /\ dist[e[1]] <= dist[e[2]] + 1
    <3>1. e[1] \in Nodes /\ e[2] \in Nodes /\ e = <<e[1], e[2]>>
      BY DEF ImpactTypeOK
    <3>2. QED
      BY <2>1, <2>2, <2>3, <3>1 DEF Explored
  <2>4. Distances(dist, seed, deps)
    BY <2>1, <2>3 DEF Distances, Reached
  <2>5. QED
    BY <2>1, <2>4 DEF Distances
<1>6. ASSUME NEW n \in Nodes, ReadReached(n) PROVE WalkInv' /\ WalkIsShortest'
  BY <1>6 DEF ReadReached, Distances
<1>7. CASE UNCHANGED asking
  BY <1>7 DEF asking, Distances, Reached, Frontier, Explored, Queued
<1>8. QED
  BY <1>1, <1>2, <1>3, <1>4, <1>5, <1>6, <1>7 DEF Walk

\* The nodes read again are those that were reached.
LEMMA ImpactKeepsAnswer ==
    ASSUME ImpactTypeOK, WalkInv, WalkIsShortest, AnswerInv,
           Walk \/ Forget \/ (\E n \in Nodes : Ask(n)) \/ UNCHANGED asking
    PROVE  AnswerInv'
<1> USE DEF AnswerInv
<1>1. CASE Forget \/ \E n \in Nodes : Ask(n)
  BY <1>1 DEF Forget, Ask
<1>2. CASE ReadDependencies \/ Take \/ \E n \in Nodes : Look(n)
  BY <1>2 DEF ReadDependencies, Take, Look
<1>3. CASE EndWalk
  <2>1. /\ Reached /\ answer = {} /\ answer' = {} /\ ipc' = "nodes"
        /\ pending' = {n \in DOMAIN dist : dist[n] > 0}
        /\ UNCHANGED <<dist, seed>>
    BY <1>3 DEF EndWalk, WalkInv
  <2>2. ASSUME NEW n \in DOMAIN dist \ {seed} PROVE dist[n] > 0
    <3>1. PICK m \in DOMAIN dist : dist[n] = dist[m] + 1
      BY <2>1 DEF Reached
    <3>2. dist[m] \in Nat
      BY DEF ImpactTypeOK
    <3>3. QED
      BY <3>1, <3>2
  <2>3. pending' = DOMAIN dist \ {seed}
    BY <2>1, <2>2 DEF Reached
  <2>4. QED
    BY <2>1, <2>3
<1>4. ASSUME NEW n \in Nodes, ReadReached(n) PROVE AnswerInv'
  <2> DEFINE row == [id |-> n, archived |-> n \in archived, depth |-> dist[n]]
  <2>1. /\ ipc = "nodes" /\ ipc' = "nodes" /\ n \in pending
        /\ answer' = answer \cup {row} /\ pending' = pending \ {n}
        /\ UNCHANGED <<dist, seed>>
    BY <1>4 DEF ReadReached
  <2>2. row.id = n /\ row.depth = dist[n]
    OBVIOUS
  <2> HIDE DEF row
  <2>3. QED
    BY <2>1, <2>2
<1>5. CASE Answer
  BY <1>5 DEF Answer, WalkIsShortest, Distances
<1>6. CASE UNCHANGED asking
  BY <1>6 DEF asking, Distances
<1>7. QED
  BY <1>1, <1>2, <1>3, <1>4, <1>5, <1>6 DEF Walk

\* While nobody writes, what was read is there.
LEMMA ImpactKeepsQuiet ==
    ASSUME ImpactTypeOK, AnswerInv, QuietAsk,
           \/ (Walk \/ Forget \/ (\E n \in Nodes : Ask(n)) \/ UNCHANGED asking)
                 /\ UNCHANGED graph
           \/ WriteMeanwhile /\ Grows
    PROVE  QuietAsk'
<1> USE DEF QuietAsk
<1>1. CASE WriteMeanwhile /\ Grows
  <2>1. askedAt' = askedAt /\ writes' = writes + 1 /\ askedAt \in Nat /\ writes \in Nat
    BY <1>1 DEF WriteMeanwhile, asking, Grows, ImpactTypeOK, GraphTypeOK
  <2>2. QED
    BY <2>1
<1>2. ASSUME UNCHANGED graph,
             Walk \/ Forget \/ (\E n \in Nodes : Ask(n)) \/ UNCHANGED asking
      PROVE  QuietAsk'
  <2>0. LiveContent' = LiveContent /\ Dependencies' = Dependencies /\ writes' = writes
    BY <1>2 DEF graph, LiveContent, Dependencies
  <2>1. CASE \E n \in Nodes : Ask(n)
    BY <2>0, <2>1 DEF Ask, ImpactTypeOK, GraphTypeOK
  <2>2. CASE ReadDependencies
    BY <2>0, <2>2 DEF ReadDependencies
  <2>3. CASE Take \/ (\E n \in Nodes : Look(n)) \/ EndWalk \/ Answer \/ Forget
    BY <2>0, <2>3 DEF Take, Look, EndWalk, Answer, Forget, AnswerInv
  <2>4. CASE \E n \in Nodes : ReadReached(n)
    BY <2>0, <2>4 DEF ReadReached
  <2>5. CASE UNCHANGED asking
    BY <2>0, <2>5 DEF asking
  <2>6. QED
    BY <1>2, <2>1, <2>2, <2>3, <2>4, <2>5 DEF Walk
<1>3. QED
  BY <1>1, <1>2

\* The invariant is inductive.
LEMMA ImpactInvStep ==
    ASSUME ImpactInv, [ImpactNext \/ WriteMeanwhile]_<<graph, asking>>
    PROVE  ImpactInv'
<1> USE DEF ImpactInv
<1>1. CASE ImpactNext \/ UNCHANGED <<graph, asking>>
  <2>1. /\ Walk \/ Forget \/ (\E n \in Nodes : Ask(n)) \/ UNCHANGED asking
        /\ UNCHANGED graph
    BY <1>1 DEF ImpactNext
  <2>2. GraphInv'
    BY <2>1, GraphStutters
  <2>3. ImpactTypeOK'
    BY <2>1, <2>2, ImpactKeepsTypes DEF GraphInv
  <2>4. WalkInv' /\ WalkIsShortest'
    BY <2>1, ImpactKeepsWalk
  <2>5. AnswerInv'
    BY <2>1, ImpactKeepsAnswer
  <2>6. QuietAsk'
    BY <2>1, ImpactKeepsQuiet
  <2>7. QED
    BY <2>2, <2>3, <2>4, <2>5, <2>6
<1>2. CASE WriteMeanwhile
  <2>1. Write /\ UNCHANGED asking
    BY <1>2 DEF WriteMeanwhile
  <2>2. GraphInv' /\ Grows
    BY <2>1, WriteKeepsGraph
  <2>3. ImpactTypeOK'
    BY <2>1, <2>2, ImpactKeepsTypes DEF GraphInv
  <2>4. WalkInv' /\ WalkIsShortest'
    BY <2>1, ImpactKeepsWalk
  <2>5. AnswerInv'
    BY <2>1, ImpactKeepsAnswer
  <2>6. QuietAsk'
    BY <1>2, <2>2, ImpactKeepsQuiet
  <2>7. QED
    BY <2>2, <2>3, <2>4, <2>5, <2>6
<1>3. QED
  BY <1>1, <1>2

\* It holds in every state of every behaviour.
THEOREM ImpactInvariant == ImpactSpec => []ImpactInv
<1>1. ImpactInit => ImpactInv
  BY ImpactStarts
<1>2. ImpactInv /\ [ImpactNext \/ WriteMeanwhile]_<<graph, asking>> => ImpactInv'
  BY ImpactInvStep
<1>3. QED
  BY <1>1, <1>2, PTL DEF ImpactSpec
-----------------------------------------------------------------------------
\* The graph and the call keep their types.
THEOREM ImpactTypes == ImpactSpec => []ImpactTypeOK
<1>1. ImpactInv => ImpactTypeOK
  BY DEF ImpactInv
<1>2. QED
  BY <1>1, ImpactInvariant, PTL

\* The walk of impact_of ends with the shortest distances over what it read, in
\* every graph, cycles included (storage.py:1291-1301).
THEOREM ShortestWalk == ImpactSpec => []WalkIsShortest
<1>1. ImpactInv => WalkIsShortest
  BY DEF ImpactInv
<1>2. QED
  BY <1>1, ImpactInvariant, PTL

\* The answer's distances, as a function of the nodes, are those of the walk.
LEMMA AnswerIsDist ==
    ASSUME ImpactInv, ipc = "answered", answer # {}
    PROVE  /\ {seed} \cup {a.id : a \in answer} = DOMAIN dist
           /\ \A n \in DOMAIN dist \ {seed} :
                  (CHOOSE a \in answer : a.id = n).depth = dist[n]
           /\ Distances(dist, seed, deps)
<1>1. Distances(dist, seed, deps)
  BY DEF ImpactInv, AnswerInv
<1>2. seed \in DOMAIN dist
  BY <1>1 DEF Distances
<1>3. {seed} \cup {a.id : a \in answer} = DOMAIN dist
  <2>1. \A a \in answer : a.id \in DOMAIN dist
    BY DEF ImpactInv, AnswerInv
  <2>2. \A n \in DOMAIN dist \ {seed} : \E a \in answer : a.id = n
    BY DEF ImpactInv, AnswerInv
  <2>3. QED
    BY <1>2, <2>1, <2>2
<1>4. ASSUME NEW n \in DOMAIN dist \ {seed}
      PROVE  (CHOOSE a \in answer : a.id = n).depth = dist[n]
  <2>1. \E a \in answer : a.id = n
    BY DEF ImpactInv, AnswerInv
  <2> DEFINE a == CHOOSE b \in answer : b.id = n
  <2>2. a \in answer /\ a.id = n
    BY <2>1
  <2> HIDE DEF a
  <2>3. a.depth = dist[n]
    BY <2>2 DEF ImpactInv, AnswerInv
  <2>4. QED
    BY <2>3 DEF a
<1>5. QED
  BY <1>1, <1>3, <1>4

\* An answer during which nobody wrote is about one database, whatever the graph
\* (storage.py:1277-1303).
THEOREM QuietImpact == ImpactSpec => []QuietImpactIsExact
<1>1. ImpactInv => QuietImpactIsExact
  <2> SUFFICES ASSUME ImpactInv, ipc = "answered", askedAt = writes, answer # {}
               PROVE  /\ seed \in LiveContent
                      /\ {a.id : a \in answer} \subseteq LiveContent \ {seed}
                      /\ Distances([n \in {seed} \cup {a.id : a \in answer} |->
                             IF n = seed THEN 0
                             ELSE (CHOOSE a \in answer : a.id = n).depth],
                             seed, Dependencies)
    BY DEF QuietImpactIsExact
  <2> DEFINE d == [n \in {seed} \cup {a.id : a \in answer} |->
                      IF n = seed THEN 0
                      ELSE (CHOOSE a \in answer : a.id = n).depth]
  <2>1. seed \in LiveContent /\ deps = Dependencies
    BY DEF ImpactInv, QuietAsk
  <2>2. /\ Distances(dist, seed, deps)
        /\ DOMAIN d = DOMAIN dist /\ \A n \in DOMAIN dist : d[n] = dist[n]
    BY AnswerIsDist DEF Distances
  <2> HIDE DEF d
  <2>3. Distances(d, seed, Dependencies)
    BY <2>1, <2>2 DEF Distances
  <2>4. {a.id : a \in answer} \subseteq LiveContent \ {seed}
    <3>1. SUFFICES ASSUME NEW a \in answer PROVE a.id \in LiveContent \ {seed}
      OBVIOUS
    <3>2. a.id \in DOMAIN dist \ {seed}
      BY DEF ImpactInv, AnswerInv
    <3>3. PICK m \in DOMAIN dist : <<a.id, m>> \in Dependencies
      BY <2>1, <2>2, <3>2 DEF Distances
    <3>4. QED
      BY <3>2, <3>3 DEF Dependencies
  <2>5. QED
    BY <2>1, <2>3, <2>4 DEF d
<1>2. QED
  BY <1>1, ImpactInvariant, PTL
-----------------------------------------------------------------------------
(* What Distances says is what shortest distance means, by induction over  *)
(* the distances for one half and over the lengths of ways for the other.  *)

\* Some way of k dependencies leads back from n to s.
Away(n, k, s, relation) ==
    \E way \in [0..k -> Nodes] :
        /\ way[0] = s /\ way[k] = n
        /\ \A i \in 0..(k - 1) : <<way[i + 1], way[i]>> \in relation

\* A way gets longer by one dependency at its end.
LEMMA AwayOnward ==
    ASSUME NEW relation, NEW s, NEW m \in Nodes, NEW n \in Nodes, NEW k \in Nat,
           Away(m, k, s, relation), <<n, m>> \in relation
    PROVE  Away(n, k + 1, s, relation)
<1>1. PICK way \in [0..k -> Nodes] :
         /\ way[0] = s /\ way[k] = m
         /\ \A i \in 0..(k - 1) : <<way[i + 1], way[i]>> \in relation
  BY DEF Away
<1> DEFINE longer == [i \in 0..(k + 1) |-> IF i = k + 1 THEN n ELSE way[i]]
<1>2. longer \in [0..(k + 1) -> Nodes] /\ longer[0] = s /\ longer[k + 1] = n
  BY <1>1
<1>3. ASSUME NEW i \in 0..((k + 1) - 1)
      PROVE  <<longer[i + 1], longer[i]>> \in relation
  <2>1. CASE i = k
    BY <1>1, <2>1
  <2>2. CASE i # k
    <3>1. i \in 0..(k - 1) /\ longer[i + 1] = way[i + 1] /\ longer[i] = way[i]
      BY <2>2
    <3>2. QED
      BY <1>1, <3>1
  <2>3. QED
    BY <2>1, <2>2
<1>4. QED
  BY <1>2, <1>3 DEF Away

\* The last dependency of a way.
LEMMA AwayLast ==
    ASSUME NEW relation, NEW s, NEW n \in Nodes, NEW k \in Nat,
           Away(n, k + 1, s, relation)
    PROVE  \E m \in Nodes : Away(m, k, s, relation) /\ <<n, m>> \in relation
<1>1. PICK way \in [0..(k + 1) -> Nodes] :
         /\ way[0] = s /\ way[k + 1] = n
         /\ \A i \in 0..((k + 1) - 1) : <<way[i + 1], way[i]>> \in relation
  BY DEF Away
<1> DEFINE shorter == [i \in 0..k |-> way[i]]
<1>2. shorter \in [0..k -> Nodes] /\ shorter[0] = s /\ shorter[k] = way[k]
  BY <1>1
<1>3. \A i \in 0..(k - 1) : <<shorter[i + 1], shorter[i]>> \in relation
  BY <1>1
<1>4. way[k] \in Nodes /\ <<n, way[k]>> \in relation
  BY <1>1
<1>5. QED
  BY <1>2, <1>3, <1>4 DEF Away

\* What satisfies Distances has a way of its length to every node it lists, lists
\* every node there is a way to, and no way is shorter.
LEMMA DistancesAreShortest ==
    ASSUME NEW relation \in SUBSET (Nodes \X Nodes), NEW s \in Nodes, NEW d,
           DOMAIN d \subseteq Nodes, \A n \in DOMAIN d : d[n] \in Nat,
           Distances(d, s, relation)
    PROVE  /\ \A n \in DOMAIN d : Away(n, d[n], s, relation)
           /\ \A n \in Nodes, k \in Nat :
                  Away(n, k, s, relation) => n \in DOMAIN d /\ d[n] <= k
<1> DEFINE Listed == {k \in Nat : \A n \in DOMAIN d : d[n] = k => Away(n, k, s, relation)}
           Led    == {k \in Nat : \A n \in Nodes :
                          Away(n, k, s, relation) => n \in DOMAIN d /\ d[n] <= k}
<1>1. 0 \in Listed
  <2>1. ASSUME NEW n \in DOMAIN d, d[n] = 0, n # s PROVE FALSE
    <3>1. PICK m \in DOMAIN d : d[n] = d[m] + 1
      BY <2>1 DEF Distances
    <3>2. d[m] \in Nat
      OBVIOUS
    <3>3. QED
      BY <2>1, <3>1, <3>2
  <2>2. Away(s, 0, s, relation)
    <3> DEFINE way == [i \in 0..0 |-> s]
    <3>1. way \in [0..0 -> Nodes] /\ way[0] = s /\ 0..(0 - 1) = {}
      OBVIOUS
    <3> HIDE DEF way
    <3>2. QED
      BY <3>1 DEF Away
  <2>3. QED
    BY <2>1, <2>2
<1>2. ASSUME NEW k \in Listed PROVE k + 1 \in Listed
  <2>1. SUFFICES ASSUME NEW n \in DOMAIN d, d[n] = k + 1
                 PROVE  Away(n, k + 1, s, relation)
    BY <1>2
  <2>2. PICK m \in DOMAIN d : <<n, m>> \in relation /\ d[n] = d[m] + 1
    BY <2>1 DEF Distances
  <2>3. d[m] = k
    BY <2>1, <2>2
  <2>4. QED
    BY <1>2, <2>2, <2>3, AwayOnward
<1>3. Listed = Nat
  <2> HIDE DEF Listed
  <2>1. Listed \in SUBSET Nat
    BY DEF Listed
  <2>2. QED
    BY <1>1, <1>2, <2>1, Induct
<1>4. 0 \in Led
  <2>1. \A n \in Nodes : Away(n, 0, s, relation) => n = s
    BY DEF Away
  <2>2. QED
    BY <2>1 DEF Distances
<1>5. ASSUME NEW k \in Led PROVE k + 1 \in Led
  <2>1. SUFFICES ASSUME NEW n \in Nodes, Away(n, k + 1, s, relation)
                 PROVE  n \in DOMAIN d /\ d[n] <= k + 1
    BY <1>5
  <2>2. PICK m \in Nodes : Away(m, k, s, relation) /\ <<n, m>> \in relation
    BY <2>1, <1>5, AwayLast
  <2>3. m \in DOMAIN d /\ d[m] <= k
    BY <1>5, <2>2
  <2>4. n \in DOMAIN d /\ d[n] <= d[m] + 1
    BY <2>2, <2>3 DEF Distances
  <2>5. QED
    BY <2>3, <2>4
<1>6. Led = Nat
  <2> HIDE DEF Led
  <2>1. Led \in SUBSET Nat
    BY DEF Led
  <2>2. QED
    BY <1>4, <1>5, <2>1, Induct
<1>7. QED
  BY <1>3, <1>6

\* The walk of impact_of lists the nodes some way of dependencies leads back to the
\* seed from, no others, and each with the length of its shortest way, whatever
\* the graph (storage.py:1291-1301).
THEOREM WalkFindsShortestWays ==
    ImpactSpec =>
        [](ipc = "nodes" =>
               \A n \in Nodes :
                   /\ n \in DOMAIN dist <=> \E k \in Nat : Away(n, k, seed, deps)
                   /\ n \in DOMAIN dist => Away(n, dist[n], seed, deps)
                   /\ \A k \in Nat : Away(n, k, seed, deps) => dist[n] <= k)
<1>1. ASSUME ImpactInv, ipc = "nodes", NEW n \in Nodes
      PROVE  /\ n \in DOMAIN dist <=> \E k \in Nat : Away(n, k, seed, deps)
             /\ n \in DOMAIN dist => Away(n, dist[n], seed, deps)
             /\ \A k \in Nat : Away(n, k, seed, deps) => dist[n] <= k
  <2>1. /\ deps \in SUBSET (Nodes \X Nodes) /\ seed \in Nodes
        /\ DOMAIN dist \subseteq Nodes /\ \A m \in DOMAIN dist : dist[m] \in Nat
        /\ Distances(dist, seed, deps)
    BY <1>1 DEF ImpactInv, ImpactTypeOK, WalkIsShortest
  <2>2. /\ \A m \in DOMAIN dist : Away(m, dist[m], seed, deps)
        /\ \A m \in Nodes, k \in Nat :
               Away(m, k, seed, deps) => m \in DOMAIN dist /\ dist[m] <= k
    BY <2>1, DistancesAreShortest
  <2>3. QED
    BY <2>1, <2>2
<1>2. ImpactInv =>
          (ipc = "nodes" =>
               \A n \in Nodes :
                   /\ n \in DOMAIN dist <=> \E k \in Nat : Away(n, k, seed, deps)
                   /\ n \in DOMAIN dist => Away(n, dist[n], seed, deps)
                   /\ \A k \in Nat : Away(n, k, seed, deps) => dist[n] <= k)
  BY <1>1
<1>3. QED
  BY <1>2, ImpactInvariant, PTL
-----------------------------------------------------------------------------
(* What the end of the walk rests on, in graphs with cycles too.           *)

Phase == CASE ipc = "edges" -> 3 [] ipc = "walk" -> 2 [] ipc = "nodes" -> 1
           [] OTHER -> 0

\* Nodes not yet looked at: those not reached, and those in the queue.
Ahead == Cardinality(Nodes \ DOMAIN dist) + Len(queue)

\* Phase, then Ahead, then what is pending count down, in this order.
CountsDown ==
    \/ Phase' < Phase
    \/ Phase' = Phase /\ Ahead' < Ahead
    \/ Phase' = Phase /\ Ahead' = Ahead /\ Cardinality(pending') < Cardinality(pending)

\* Each statement and each turn of the loop brings a call of impact_of nearer to its
\* end: three natural numbers count down in lexicographic order, whatever the
\* graph, and no other session's transaction sets them back
\* (storage.py:1292-1301).
THEOREM WalkCountsDown ==
    ASSUME IsFiniteSet(Nodes)
    PROVE  ImpactSpec =>
               /\ [](Phase \in Nat /\ Ahead \in Nat /\ Cardinality(pending) \in Nat)
               /\ [][/\ Walk => CountsDown
                     /\ WriteMeanwhile => UNCHANGED <<Phase, Ahead, pending>>
                    ]_<<graph, asking>>
<1>1. ASSUME ImpactInv
      PROVE  /\ Phase \in Nat /\ Ahead \in Nat /\ Cardinality(pending) \in Nat
             /\ IsFiniteSet(Nodes \ DOMAIN dist) /\ IsFiniteSet(pending)
             /\ Cardinality(Nodes \ DOMAIN dist) \in Nat /\ Len(queue) \in Nat
  <2>1. queue \in Seq(Nodes) /\ pending \subseteq Nodes
    BY <1>1 DEF ImpactInv, ImpactTypeOK
  <2>2. IsFiniteSet(Nodes \ DOMAIN dist) /\ IsFiniteSet(pending)
    BY <2>1, FS_Subset
  <2>3. Cardinality(Nodes \ DOMAIN dist) \in Nat /\ Cardinality(pending) \in Nat
    BY <2>2, FS_CardinalityType
  <2>4. QED
    BY <2>1, <2>2, <2>3 DEF Phase, Ahead
<1>2. ASSUME ImpactInv, Walk PROVE CountsDown
  <2>1. ASSUME NEW n \in Nodes, n \in pending, pending' = pending \ {n}
        PROVE  Cardinality(pending') < Cardinality(pending)
    <3>1. Cardinality(pending \ {n}) = Cardinality(pending) - 1
      BY <1>1, <1>2, <2>1, FS_RemoveElement
    <3>2. QED
      BY <1>1, <1>2, <2>1, <3>1
  <2>2. CASE ReadDependencies \/ EndWalk \/ Answer
    BY <2>2 DEF ReadDependencies, EndWalk, Answer, Phase, CountsDown
  <2>3. CASE Take
    <3>1. queue \in Seq(Nodes) /\ queue # <<>> /\ queue' = Tail(queue) /\ UNCHANGED dist
      BY <1>2, <2>3 DEF Take, ImpactInv, ImpactTypeOK
    <3>2. Len(queue') < Len(queue) /\ Len(queue') \in Nat
      BY <3>1
    <3>3. Phase' = Phase /\ Ahead' < Ahead
      BY <1>1, <1>2, <2>3, <3>1, <3>2 DEF Take, Phase, Ahead
    <3>4. QED
      BY <3>3 DEF CountsDown
  <2>4. ASSUME NEW n \in Nodes, Look(n) PROVE CountsDown
    <3>1. Phase' = Phase /\ n \in pending /\ pending' = pending \ {n}
      BY <2>4 DEF Look, Phase
    <3>2. Ahead' = Ahead
      <4>1. CASE n \in DOMAIN dist
        BY <2>4, <4>1 DEF Look, Ahead
      <4>2. CASE n \notin DOMAIN dist
        <5>1. DOMAIN dist' = DOMAIN dist \cup {n} /\ queue' = Append(queue, n)
          BY <2>4, <4>2 DEF Look
        <5>2. Nodes \ DOMAIN dist' = (Nodes \ DOMAIN dist) \ {n}
              /\ n \in Nodes \ DOMAIN dist
          BY <4>2, <5>1
        <5>3. Cardinality((Nodes \ DOMAIN dist) \ {n})
                  = Cardinality(Nodes \ DOMAIN dist) - 1
          BY <1>1, <1>2, <5>2, FS_RemoveElement
        <5>4. Len(queue') = Len(queue) + 1
          BY <1>2, <5>1 DEF ImpactInv, ImpactTypeOK
        <5>5. /\ Cardinality(Nodes \ DOMAIN dist') = Cardinality(Nodes \ DOMAIN dist) - 1
              /\ Cardinality(Nodes \ DOMAIN dist) \in Nat /\ Len(queue) \in Nat
          BY <1>1, <1>2, <5>2, <5>3
        <5>6. QED
          BY <5>4, <5>5 DEF Ahead
      <4>3. QED
        BY <4>1, <4>2
    <3>3. QED
      BY <2>1, <3>1, <3>2 DEF CountsDown
  <2>5. ASSUME NEW n \in Nodes, ReadReached(n) PROVE CountsDown
    <3>1. /\ Phase' = Phase /\ Ahead' = Ahead
          /\ n \in pending /\ pending' = pending \ {n}
      BY <2>5 DEF ReadReached, Phase, Ahead
    <3>2. QED
      BY <2>1, <3>1 DEF CountsDown
  <2>6. QED
    BY <1>2, <2>2, <2>3, <2>4, <2>5 DEF Walk
<1>3. WriteMeanwhile => UNCHANGED <<Phase, Ahead, pending>>
  BY DEF WriteMeanwhile, asking, Phase, Ahead
<1>4. QED
  BY <1>1, <1>2, <1>3, ImpactInvariant, PTL DEF ImpactSpec
=============================================================================
