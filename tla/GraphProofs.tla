----------------------------- MODULE GraphProofs -----------------------------
(* What every transaction of Graph preserves and what it may change, for any *)
(* nodes and any number of writes.                                           *)
EXTENDS Graph, TLAPS, FiniteSetTheorems, WellFoundedInduction

\* Every set of natural numbers that has an element has a least one.
LEMMA Least ==
    ASSUME NEW S \in SUBSET Nat, S # {}
    PROVE  \E m \in S : \A k \in S : m <= k
<1> DEFINE Below == {0..(n - 1) : n \in S}
<1>1. IsWellFoundedOn(StrictSubsetOrdering(Nat), FiniteSubsetsOf(Nat))
  BY FS_StrictSubsetOrderingWellFounded
<1>2. Below \subseteq FiniteSubsetsOf(Nat) /\ Below # {}
  <2>1. \A n \in S : IsFiniteSet(0..(n - 1)) /\ 0..(n - 1) \subseteq Nat
    BY FS_Interval
  <2>2. QED
    BY <2>1 DEF FiniteSubsetsOf
<1>3. PICK b \in Below : \A c \in Below : <<c, b>> \notin StrictSubsetOrdering(Nat)
  <2> HIDE DEF Below
  <2>1. QED
    BY <1>1, <1>2, WFMin
<1>4. PICK m \in S : b = 0..(m - 1)
  BY <1>3
<1>5. \A k \in S : m <= k
  <2> SUFFICES ASSUME NEW k \in S, k < m PROVE FALSE
    OBVIOUS
  <2>1. 0..(k - 1) \in Below /\ 0..(k - 1) \subseteq b /\ k \in b /\ k \notin 0..(k - 1)
    BY <1>4
  <2>2. 0..(k - 1) \in SUBSET Nat /\ b \in SUBSET Nat
    BY <1>4
  <2>3. <<0..(k - 1), b>> \in StrictSubsetOrdering(Nat)
    BY <2>1, <2>2 DEF StrictSubsetOrdering
  <2>4. QED
    BY <1>3, <2>1, <2>3
<1>6. QED
  BY <1>5

\* What holds of zero, and of the successor of each number it holds of, holds of all.
LEMMA Induct ==
    ASSUME NEW S \in SUBSET Nat, 0 \in S, \A n \in S : n + 1 \in S
    PROVE  S = Nat
<1> SUFFICES ASSUME Nat \ S # {} PROVE FALSE
  OBVIOUS
<1>1. PICK m \in Nat \ S : \A k \in Nat \ S : m <= k
  BY Least
<1>2. m - 1 \in Nat /\ ~(m <= m - 1)
  OBVIOUS
<1>3. m - 1 \in S
  BY <1>1, <1>2
<1>4. (m - 1) + 1 \in S
  BY <1>3
<1>5. QED
  BY <1>4

\* Everything flagged or dormant has an event that made it so.
StateIsJournaled ==
    /\ \A n \in flagged : \E m \in Nodes : Says(n, "raised", m) \in journal
    /\ \A n \in archived : Says(n, "archived", n) \in journal

GraphInv == GraphTypeOK /\ KeysHold /\ StateIsJournaled

\* What a transaction does to what a reader has seen: nodes and events stay, an
\* edge stays or its removal is journaled, and the count moves.
Grows ==
    /\ rows \subseteq rows' /\ journal \subseteq journal'
    /\ \A e \in edges : e \in edges' \/ Says(e[1], e[2], e[3]) \in journal'
    /\ writes' = writes + 1

\* An edge is a triple.
LEMMA EdgeIsTriple ==
    ASSUME NEW e \in Edge
    PROVE  /\ e = <<e[1], e[2], e[3]>>
           /\ e[1] \in Nodes /\ e[2] \in EdgeTypes /\ e[3] \in Nodes
BY DEF Edge

\* The graph a behaviour starts from has its foreign keys and its events.
LEMMA GraphInitInv == ASSUME GraphInit PROVE GraphInv
<1>1. GraphTypeOK
  BY GraphAssumption DEF GraphInit, GraphTypeOK, GraphAssumption, Edge, EdgeTypes,
     Event, Kinds, Says
<1>2. KeysHold
  BY DEF GraphInit, KeysHold, Says
<1>3. StateIsJournaled
  BY DEF GraphInit, StateIsJournaled, Says
<1>4. QED
  BY <1>1, <1>2, <1>3 DEF GraphInv

\* A transaction keeps types, foreign keys and explanations, and only grows what a
\* reader may rely on.
LEMMA WriteKeepsGraph == ASSUME GraphInv, Write PROVE GraphInv' /\ Grows
<1> USE DEF GraphInv, GraphTypeOK, KeysHold, StateIsJournaled, Grows, Transaction,
        Says, Edge, EdgeTypes, Event, Kinds
<1>0. writes + 1 \in 0..MaxWrites \/ ~(writes < MaxWrites)
  BY GraphAssumption DEF GraphAssumption
<1>1. ASSUME NEW goal \in Nodes, NEW n \in Nodes,
             NEW against \in {{}} \cup {{m} : m \in Nodes}, Capture(goal, n, against)
      PROVE  GraphInv' /\ Grows
  <2>1. against \in SUBSET Nodes
    OBVIOUS
  <2>2. GraphTypeOK'
    BY <1>0, <1>1, <2>1 DEF Capture
  <2>3. KeysHold'
    BY <1>1, <2>1 DEF Capture
  <2>4. StateIsJournaled'
    BY <1>1, <2>1 DEF Capture
  <2>5. Grows
    BY <1>1 DEF Capture
  <2>6. QED
    BY <2>2, <2>3, <2>4, <2>5
<1>2. ASSUME NEW a \in Nodes, NEW b \in Nodes, Link(a, b)
      PROVE  GraphInv' /\ Grows
  BY <1>0, <1>2 DEF Link
<1>3. ASSUME NEW a \in Nodes, NEW b \in Nodes, Contradict(a, b)
      PROVE  GraphInv' /\ Grows
  <2>1. GraphTypeOK'
    BY <1>0, <1>3 DEF Contradict
  <2>2. KeysHold'
    BY <1>3 DEF Contradict
  <2>3. StateIsJournaled'
    BY <1>3 DEF Contradict
  <2>4. Grows
    BY <1>3 DEF Contradict
  <2>5. QED
    BY <2>1, <2>2, <2>3, <2>4
<1>4. ASSUME NEW n \in Nodes, NEW named \in {{}} \cup {{m} : m \in Nodes},
             Supersede(n, named)
      PROVE  GraphInv' /\ Grows
  <2>0. named \in SUBSET Nodes
    OBVIOUS
  <2>1. GraphTypeOK'
    BY <2>0, <1>0, <1>4 DEF Supersede
  <2>2. KeysHold'
    BY <1>4 DEF Supersede
  <2>3. StateIsJournaled'
    BY <1>4 DEF Supersede
  <2>4. Grows
    BY <1>4 DEF Supersede
  <2>5. QED
    BY <2>1, <2>2, <2>3, <2>4
<1>5. ASSUME NEW a \in Nodes, NEW b \in Nodes, NEW type \in EdgeTypes,
             DeleteEdge(a, type, b)
      PROVE  GraphInv' /\ Grows
  <2>1. GraphInv'
    BY <1>0, <1>5 DEF DeleteEdge
  <2>2. Grows
    BY <1>5 DEF DeleteEdge
  <2>3. QED
    BY <2>1, <2>2
<1>6. ASSUME NEW n \in Nodes, Clear(n)
      PROVE  GraphInv' /\ Grows
  BY <1>0, <1>6 DEF Clear
<1>7. ASSUME NEW n \in Nodes, SetArchived(n)
      PROVE  GraphInv' /\ Grows
  BY <1>0, <1>7 DEF SetArchived
<1>8. QED
  BY <1>1, <1>2, <1>3, <1>4, <1>5, <1>6, <1>7 DEF Write

\* A step that leaves the graph alone keeps all of it.
LEMMA GraphStutters == ASSUME GraphInv, UNCHANGED graph PROVE GraphInv'
BY DEF GraphInv, GraphTypeOK, KeysHold, StateIsJournaled, graph, Says
=============================================================================
