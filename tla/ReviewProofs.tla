---------------------------- MODULE ReviewProofs ----------------------------
(***************************************************************************)
(* Theorems about Review, for any nodes, agents, requests and scripts, any *)
(* length of the journals and any number of crashes.                       *)
(*                                                                         *)
(* BaseInv, types and the events that are stamped and not yet committed,   *)
(* is inductive, and the action properties of flag and resolution follow   *)
(* from it step by step (FlagAndJournal, ResolutionFoldsAll).  With        *)
(* DerivedInv, what a fold has read, it gives TrustDerived and             *)
(* NeverGoesBack where no script recomputes; with FloodInv, what is cached *)
(* and who asks, it gives NoFlood.                                         *)
(***************************************************************************)
EXTENDS Review, FiniteSetTheorems, WellFoundedInduction, TLAPS

\* Where an operation has stamped an event; where it is about a node.
Drafting == {"event", "clear", "resolve", "ruling", "verdict"}
Placed   == {"looked", "body", "context", "asking", "fold"}

\* The parts of TypeOK.
StoreOK ==
    /\ journal \in [Nodes -> Seq(Entry)]
    /\ \A n \in Nodes : Len(journal[n]) <= MaxEvents
    /\ flag \in [Nodes -> BOOLEAN]
    /\ archived \in [Nodes -> BOOLEAN]
    /\ trust \in [Nodes -> 0..1]

LocalOK ==
    /\ pc \in [Actors -> Awaiting \cup Running]
    /\ op \in [Actors -> Op]
    /\ turn \in Requests \cup {None}
    /\ cache \subseteq Guidance

HistoryOK ==
    /\ counted \in [Nodes -> SUBSET Places]
    /\ byHand \subseteq Nodes
    /\ crashes \in 0..MaxCrashes

\* TypeOK by its parts.
LEMMA TypeParts == TypeOK <=> StoreOK /\ LocalOK /\ HistoryOK
BY DEF TypeOK, StoreOK, LocalOK, HistoryOK

\* The events an operation stamps.
Fits(at, kind) ==
    \/ at = "event" /\ kind \in {"raised", "confirmed", "other"}
    \/ at = "clear" /\ kind = "cleared"
    \/ at = "resolve" /\ kind \in {"cleared", "other"}
    \/ at = "ruling" /\ kind = "other"
    \/ at = "verdict" /\ kind = "verdict"

\* The event x has stamped: it is in its node's journal and not committed.
DraftOK(x) ==
    /\ op[x].on \in Nodes
    /\ op[x].draft \in DOMAIN journal[op[x].on]
    /\ ~journal[op[x].on][op[x].draft].committed
    /\ Fits(pc[x], Drafted(x))

\* Operations that write have events of their own.
DraftInv ==
    /\ \A x \in Actors : pc[x] \in Drafting => DraftOK(x)
    /\ \A x, y \in Actors :
        /\ x # y /\ pc[x] \in Drafting /\ pc[y] \in Drafting
        => op[x].on # op[y].on \/ op[x].draft # op[y].draft
    /\ \A x \in Actors : pc[x] \in Placed => op[x].on \in Nodes

\* Events have a place and keep it.
Kept ==
    \A n \in Nodes :
        /\ DOMAIN journal[n] \subseteq DOMAIN journal'[n]
        /\ \A i \in DOMAIN journal[n] :
            /\ journal'[n][i].kind = journal[n][i].kind
            /\ journal'[n][i].about = journal[n][i].about

\* A stamped event is a new last entry of its node's journal, not committed yet.
LEMMA StampEffect ==
    ASSUME StoreOK, LocalOK, NEW x \in Actors, NEW n \in Nodes, NEW kind \in Kinds,
           NEW about \in 0..MaxEvents, Stamp(x, n, kind, about)
    PROVE  /\ StoreOK'
           /\ op' \in [Actors -> Op]
           /\ Kept
           /\ \A m \in Nodes : Committed(m)' = Committed(m)
           /\ \A m \in Nodes : \A i \in DOMAIN journal[m] : journal'[m][i] = journal[m][i]
           /\ \A m \in Nodes : \A i \in DOMAIN journal'[m] :
                i \in DOMAIN journal[m] \/ (m = n /\ i = op'[x].draft)
           /\ op' = [op EXCEPT ![x] = op'[x]]
           /\ op'[x].on = n
           /\ op'[x].cut = Nothing
           /\ op'[x].draft \in DOMAIN journal'[n]
           /\ op'[x].draft \notin DOMAIN journal[n]
           /\ journal'[n][op'[x].draft] = [kind |-> kind, about |-> about, committed |-> FALSE]
<1> USE ReviewAssumption
<1> DEFINE e == [kind |-> kind, about |-> about, committed |-> FALSE]
           d == Len(journal[n]) + 1
<1>1. e \in Entry
  BY DEF Entry
<1>2. journal[n] \in Seq(Entry) /\ Len(journal[n]) \in Nat /\ Len(journal[n]) < MaxEvents
  BY DEF StoreOK, Stamp
<1>3. journal' = [journal EXCEPT ![n] = Append(@, e)]
  BY DEF Stamp
<1>4. journal'[n] = Append(journal[n], e) /\ \A m \in Nodes : m # n => journal'[m] = journal[m]
  BY <1>3 DEF StoreOK
<1>5. /\ DOMAIN journal'[n] = DOMAIN journal[n] \cup {d}
      /\ d \notin DOMAIN journal[n]
      /\ journal'[n][d] = e
      /\ \A i \in DOMAIN journal[n] : journal'[n][i] = journal[n][i]
      /\ Len(journal'[n]) = d
  BY <1>1, <1>2, <1>4
<1>6. StoreOK'
  <2>1. Append(journal[n], e) \in Seq(Entry)
    BY <1>1, <1>2
  <2>2. journal' \in [Nodes -> Seq(Entry)]
    BY <1>3, <2>1 DEF StoreOK
  <2>3. ASSUME NEW m \in Nodes PROVE Len(journal'[m]) <= MaxEvents
    <3>1. CASE m = n
      BY <1>2, <1>5, <3>1
    <3>2. CASE m # n
      BY <1>4, <3>2 DEF StoreOK
    <3> QED
      BY <3>1, <3>2
  <2> QED
    BY <2>2, <2>3 DEF StoreOK, Stamp
<1> DEFINE draft == Doing(n, d, Nothing)
<1>7. op' = [op EXCEPT ![x] = draft]
  BY DEF Stamp, Keep
<1>8. d \in 0..MaxEvents
  BY <1>2
<1>9. draft \in Op
  BY <1>8 DEF Op, Asks, Doing, Nothing
<1>10. op' \in [Actors -> Op] /\ op'[x] = draft
  BY <1>7, <1>9 DEF LocalOK
<1>11. op'[x].on = n /\ op'[x].draft = d /\ op'[x].cut = Nothing
  BY <1>10 DEF Doing
<1>12. \A m \in Nodes : DOMAIN journal'[m] = (IF m = n THEN DOMAIN journal[n] \cup {d} ELSE DOMAIN journal[m])
  BY <1>4, <1>5
<1>13. \A m \in Nodes : \A i \in DOMAIN journal[m] : journal'[m][i] = journal[m][i]
  BY <1>4, <1>5
<1>14. \A m \in Nodes : Committed(m)' = Committed(m)
  BY <1>5, <1>12, <1>13 DEF Committed
<1>15. Kept
  BY <1>12, <1>13 DEF Kept
<1>16. op' = [op EXCEPT ![x] = op'[x]]
  BY <1>7, <1>10
<1>17. \A m \in Nodes : \A i \in DOMAIN journal'[m] : i \in DOMAIN journal[m] \/ (m = n /\ i = d)
  BY <1>12
<1> HIDE DEF e, d, draft
<1> QED
  BY <1>5, <1>6, <1>10, <1>11, <1>13, <1>14, <1>15, <1>16, <1>17 DEF e

\* A commit makes the event its transaction stamped visible, and nothing else.
LEMMA WriteEffect ==
    ASSUME StoreOK, LocalOK, NEW x \in Actors, DraftOK(x), Write(x)
    PROVE  /\ journal' \in [Nodes -> Seq(Entry)]
           /\ \A m \in Nodes : Len(journal'[m]) <= MaxEvents
           /\ op' = [op EXCEPT ![x] = NoOp]
           /\ op' \in [Actors -> Op]
           /\ Kept
           /\ \A m \in Nodes : DOMAIN journal'[m] = DOMAIN journal[m]
           /\ \A m \in Nodes : \A i \in DOMAIN journal[m] :
                m # op[x].on \/ i # op[x].draft => journal'[m][i] = journal[m][i]
           /\ \A m \in Nodes : Committed(m)' = IF m = op[x].on
                                              THEN Committed(m) \cup {op[x].draft}
                                              ELSE Committed(m)
<1> USE ReviewAssumption
<1> DEFINE n == op[x].on
           d == op[x].draft
           e == [journal[n][d] EXCEPT !.committed = TRUE]
<1>1. n \in Nodes /\ d \in DOMAIN journal[n] /\ journal[n] \in Seq(Entry)
  BY DEF DraftOK, StoreOK
<1>2. journal[n][d] \in Entry
  BY <1>1
<1>3. /\ e \in Entry /\ e.committed
      /\ e.kind = journal[n][d].kind /\ e.about = journal[n][d].about
  BY <1>2 DEF Entry
<1>4. journal' = [journal EXCEPT ![n] = [journal[n] EXCEPT ![d] = e]]
  BY <1>1 DEF Write, StoreOK
<1>5. journal'[n] = [journal[n] EXCEPT ![d] = e] /\ \A m \in Nodes : m # n => journal'[m] = journal[m]
  BY <1>1, <1>4 DEF StoreOK
<1>6. /\ DOMAIN journal'[n] = DOMAIN journal[n]
      /\ journal'[n][d] = e
      /\ \A i \in DOMAIN journal[n] : i # d => journal'[n][i] = journal[n][i]
  BY <1>1, <1>5
<1>7. journal'[n] \in Seq(Entry) /\ Len(journal'[n]) = Len(journal[n])
  BY <1>1, <1>3, <1>5
<1>8. journal' \in [Nodes -> Seq(Entry)] /\ \A m \in Nodes : Len(journal'[m]) <= MaxEvents
  <2>1. journal' \in [Nodes -> Seq(Entry)]
    BY <1>1, <1>4, <1>5, <1>7 DEF StoreOK
  <2> QED
    BY <1>5, <1>7, <2>1 DEF StoreOK
<1>9. op' = [op EXCEPT ![x] = NoOp] /\ op' \in [Actors -> Op]
  BY DEF Write, Done, Keep, NoOp, Doing, Nothing, Asks, Op, LocalOK
<1>10. \A m \in Nodes : DOMAIN journal'[m] = DOMAIN journal[m]
  BY <1>5, <1>6
<1>11. Kept
  BY <1>3, <1>5, <1>6, <1>10 DEF Kept
<1>12. ASSUME NEW m \in Nodes, m = n PROVE Committed(m)' = Committed(m) \cup {d}
  BY <1>1, <1>3, <1>6, <1>12 DEF Committed
<1>13. ASSUME NEW m \in Nodes, m # n PROVE Committed(m)' = Committed(m)
  BY <1>5, <1>13 DEF Committed
<1>14. \A m \in Nodes : Committed(m)' = IF m = op[x].on
                                      THEN Committed(m) \cup {op[x].draft}
                                      ELSE Committed(m)
  BY <1>12, <1>13
<1> QED
  BY <1>5, <1>6, <1>8, <1>9, <1>10, <1>11, <1>14

\* A step of an actor moves its own control, and the event loop.
LEMMA StepEffect ==
    ASSUME LocalOK, NEW x \in Actors, NEW from, NEW to \in Awaiting \cup Running,
           Step(x, from, to)
    PROVE  /\ pc[x] = from
           /\ pc' = [pc EXCEPT ![x] = to]
           /\ pc' \in [Actors -> Awaiting \cup Running]
           /\ turn' \in Requests \cup {None}
BY DEF LocalOK, Step

\* A step that stamps and commits nothing keeps what others have stamped.
LEMMA QuietStep ==
    ASSUME TypeOK, DraftInv, NEW x \in Actors, NEW from, NEW to \in Awaiting \cup Running,
           Step(x, from, to), NEW v \in Op, Keep(x, v), journal' = journal,
           to \notin Drafting, to \in Placed => v.on \in Nodes
    PROVE  /\ pc' \in [Actors -> Awaiting \cup Running]
           /\ op' \in [Actors -> Op]
           /\ turn' \in Requests \cup {None}
           /\ DraftInv'
<1>1. LocalOK /\ StoreOK
  BY TypeParts
<1>2. /\ pc' = [pc EXCEPT ![x] = to] /\ op' = [op EXCEPT ![x] = v]
      /\ pc' \in [Actors -> Awaiting \cup Running] /\ turn' \in Requests \cup {None}
      /\ op' \in [Actors -> Op]
  BY <1>1, StepEffect DEF Keep, LocalOK
<1>3. /\ pc'[x] = to /\ op'[x] = v
      /\ \A y \in Actors : y # x => pc'[y] = pc[y] /\ op'[y] = op[y]
  BY <1>1, <1>2 DEF LocalOK
<1>4. \A y \in Actors : pc'[y] \in Drafting => y # x /\ pc[y] \in Drafting /\ op'[y] = op[y]
  BY <1>3
<1>5. \A y \in Actors : pc'[y] \in Drafting => DraftOK(y)'
  BY <1>3, <1>4 DEF DraftInv, DraftOK, Drafted
<1>6. \A y, z \in Actors :
        y # z /\ pc'[y] \in Drafting /\ pc'[z] \in Drafting
        => op'[y].on # op'[z].on \/ op'[y].draft # op'[z].draft
  BY <1>4 DEF DraftInv
<1>7. \A y \in Actors : pc'[y] \in Placed => op'[y].on \in Nodes
  BY <1>3 DEF DraftInv
<1> QED
  BY <1>2, <1>5, <1>6, <1>7 DEF DraftInv

\* So does one that stamps an event, whose place nobody else has.
LEMMA StampStep ==
    ASSUME TypeOK, DraftInv, NEW x \in Actors, NEW from, NEW to \in Drafting,
           Step(x, from, to), NEW n \in Nodes, NEW kind \in Kinds, NEW about \in 0..MaxEvents,
           Stamp(x, n, kind, about), Fits(to, kind)
    PROVE  /\ StoreOK'
           /\ pc' \in [Actors -> Awaiting \cup Running]
           /\ op' \in [Actors -> Op]
           /\ turn' \in Requests \cup {None}
           /\ DraftInv'
<1>1. LocalOK /\ StoreOK
  BY TypeParts
<1>2. to \in Awaiting \cup Running /\ to \notin Placed
  BY DEF Drafting, Running, Placed
<1>3. /\ pc' = [pc EXCEPT ![x] = to]
      /\ pc' \in [Actors -> Awaiting \cup Running] /\ turn' \in Requests \cup {None}
  BY <1>1, <1>2, StepEffect
<1>4. /\ StoreOK' /\ Kept
      /\ op' \in [Actors -> Op] /\ op' = [op EXCEPT ![x] = op'[x]]
      /\ op'[x].on = n
      /\ op'[x].draft \in DOMAIN journal'[n] /\ op'[x].draft \notin DOMAIN journal[n]
      /\ journal'[n][op'[x].draft] = [kind |-> kind, about |-> about, committed |-> FALSE]
      /\ \A m \in Nodes : \A i \in DOMAIN journal[m] : journal'[m][i] = journal[m][i]
  BY <1>1, StampEffect
<1>5. /\ pc'[x] = to
      /\ \A y \in Actors : y # x => pc'[y] = pc[y] /\ op'[y] = op[y]
  BY <1>1, <1>3, <1>4 DEF LocalOK
<1>6. DraftOK(x)'
  BY <1>4, <1>5 DEF DraftOK, Drafted
<1>7. ASSUME NEW y \in Actors, y # x, pc'[y] \in Drafting
      PROVE  /\ DraftOK(y)'
             /\ op'[y].on # n \/ op'[y].draft # op'[x].draft
  <2>1. DraftOK(y) /\ op'[y] = op[y] /\ pc'[y] = pc[y]
    BY <1>5, <1>7 DEF DraftInv
  <2>2. journal'[op[y].on][op[y].draft] = journal[op[y].on][op[y].draft]
        /\ op[y].draft \in DOMAIN journal'[op[y].on]
    BY <1>4, <2>1 DEF DraftOK, Kept
  <2> QED
    BY <1>4, <2>1, <2>2 DEF DraftOK, Drafted
<1>8. \A y \in Actors : pc'[y] \in Placed => op'[y].on \in Nodes
  BY <1>2, <1>5 DEF DraftInv
<1>9. \A y \in Actors : pc'[y] \in Drafting => DraftOK(y)'
  BY <1>6, <1>7
<1>10. ASSUME NEW y \in Actors, NEW z \in Actors, y # z, pc'[y] \in Drafting,
              pc'[z] \in Drafting
       PROVE  op'[y].on # op'[z].on \/ op'[y].draft # op'[z].draft
  <2>1. CASE y = x
    BY <1>4, <1>7, <1>10, <2>1
  <2>2. CASE z = x
    BY <1>4, <1>7, <1>10, <2>2
  <2>3. CASE y # x /\ z # x
    BY <1>5, <1>10, <2>3 DEF DraftInv
  <2> QED
    BY <2>1, <2>2, <2>3
<1> QED
  BY <1>3, <1>4, <1>8, <1>9, <1>10 DEF DraftInv

\* So does one that commits its own.
LEMMA WriteStep ==
    ASSUME TypeOK, DraftInv, NEW x \in Actors, NEW from \in Drafting,
           Step(x, from, "idle"), Write(x)
    PROVE  /\ journal' \in [Nodes -> Seq(Entry)]
           /\ \A m \in Nodes : Len(journal'[m]) <= MaxEvents
           /\ pc' \in [Actors -> Awaiting \cup Running]
           /\ op' \in [Actors -> Op]
           /\ turn' \in Requests \cup {None}
           /\ op[x].on \in Nodes
           /\ DraftInv'
<1>1. LocalOK /\ StoreOK
  BY TypeParts
<1>2. "idle" \in Awaiting \cup Running /\ "idle" \notin Drafting \cup Placed
  BY DEF Awaiting, Drafting, Placed
<1>3. /\ pc' = [pc EXCEPT ![x] = "idle"] /\ pc[x] = from
      /\ pc' \in [Actors -> Awaiting \cup Running] /\ turn' \in Requests \cup {None}
  BY <1>1, <1>2, StepEffect
<1>4. DraftOK(x)
  BY <1>3 DEF DraftInv
<1>5. /\ journal' \in [Nodes -> Seq(Entry)]
      /\ \A m \in Nodes : Len(journal'[m]) <= MaxEvents
      /\ op' = [op EXCEPT ![x] = NoOp] /\ op' \in [Actors -> Op]
      /\ \A m \in Nodes : DOMAIN journal'[m] = DOMAIN journal[m]
      /\ \A m \in Nodes : \A i \in DOMAIN journal[m] :
            m # op[x].on \/ i # op[x].draft => journal'[m][i] = journal[m][i]
  BY <1>1, <1>4, WriteEffect
<1>6. /\ pc'[x] = "idle"
      /\ \A y \in Actors : y # x => pc'[y] = pc[y] /\ op'[y] = op[y]
  BY <1>1, <1>3, <1>5 DEF LocalOK
<1>7. ASSUME NEW y \in Actors, pc'[y] \in Drafting
      PROVE  DraftOK(y)'
  <2>1. y # x /\ pc'[y] = pc[y] /\ op'[y] = op[y]
    BY <1>2, <1>6, <1>7
  <2>2. DraftOK(y)
    BY <1>7, <2>1 DEF DraftInv
  <2>3. op[y].on # op[x].on \/ op[y].draft # op[x].draft
    BY <1>3, <1>7, <2>1 DEF DraftInv
  <2>4. journal'[op[y].on][op[y].draft] = journal[op[y].on][op[y].draft]
        /\ op[y].draft \in DOMAIN journal'[op[y].on]
    BY <1>5, <2>2, <2>3 DEF DraftOK
  <2> QED
    BY <2>1, <2>2, <2>4 DEF DraftOK, Drafted
<1>8. \A y \in Actors : pc'[y] \in Placed => op'[y].on \in Nodes
  BY <1>2, <1>6 DEF DraftInv
<1>9. \A y, z \in Actors :
        y # z /\ pc'[y] \in Drafting /\ pc'[z] \in Drafting
        => op'[y].on # op'[z].on \/ op'[y].draft # op'[z].draft
  BY <1>2, <1>6 DEF DraftInv
<1> QED
  BY <1>3, <1>4, <1>5, <1>7, <1>8, <1>9 DEF DraftInv, DraftOK

\* A nonempty set of places has a greatest element: of the sets of places above one of
\* them, the least by inclusion is empty.
LEMMA NewestExists ==
    ASSUME NEW S \in SUBSET Places, S # {}
    PROVE  Newest(S) \in S /\ \A j \in S : j <= Newest(S)
<1> USE ReviewAssumption
<1> DEFINE Above(i) == {j \in S : j > i}
           T == {Above(i) : i \in S}
           R == StrictSubsetOrdering(Places)
<1>1. IsFiniteSet(Places) /\ \A i \in S : i \in Int
  BY FS_Interval DEF Places
<1>2. T \subseteq FiniteSubsetsOf(Places)
  <2>1. ASSUME NEW i \in S PROVE IsFiniteSet(Above(i)) /\ Above(i) \subseteq Places
    BY <1>1, FS_Subset
  <2> QED
    BY <2>1 DEF FiniteSubsetsOf
<1>3. T # {}
  OBVIOUS
<1>4. IsWellFoundedOn(R, FiniteSubsetsOf(Places))
  BY FS_StrictSubsetOrderingWellFounded
<1>5. PICK U \in T : \A V \in T : ~ (<<V, U>> \in R)
  <2> HIDE DEF T, R
  <2> QED
    BY <1>2, <1>3, <1>4, WFMin
<1>6. PICK i \in S : U = Above(i)
  BY <1>5
<1>7. ASSUME NEW j \in S, j > i PROVE FALSE
  <2>1. Above(j) \in T /\ Above(j) \subseteq Above(i) /\ Above(j) # Above(i)
    BY <1>1, <1>7
  <2>2. Above(j) \in SUBSET Places /\ Above(i) \in SUBSET Places
    OBVIOUS
  <2>3. <<Above(j), Above(i)>> \in R
    BY <2>1, <2>2 DEF StrictSubsetOrdering
  <2> QED
    BY <1>5, <1>6, <2>1, <2>3
<1>8. \A j \in S : j <= i
  BY <1>1, <1>7
<1> QED
  BY <1>8 DEF Newest

\* The trust folded from any set of events.
LEMMA FoldType ==
    ASSUME StoreOK, NEW n \in Nodes, NEW events
    PROVE  Fold(n, events) \in 0..1
<1>1. journal[n] \in Seq(Entry) /\ Len(journal[n]) \in Nat /\ DOMAIN journal[n] = 1..Len(journal[n])
  BY DEF StoreOK
<1>2. IsFiniteSet(DOMAIN journal[n])
  BY <1>1, FS_Interval
<1>3. \A kinds : Cardinality(events \cap Of(n, kinds)) \in Nat
  <2>1. ASSUME NEW kinds PROVE Cardinality(events \cap Of(n, kinds)) \in Nat
    <3>1. events \cap Of(n, kinds) \in SUBSET DOMAIN journal[n]
      BY DEF Of
    <3> QED
      BY <1>2, <3>1, FS_Subset, FS_CardinalityType
  <2> QED
    BY <2>1
<1> QED
  BY <1>3 DEF Fold, Clamp

\* What is committed has a place; so has the event guidance is filed under.
LEMMA EventTypes ==
    ASSUME StoreOK, NEW n \in Nodes
    PROVE  /\ Committed(n) \subseteq DOMAIN journal[n]
           /\ DOMAIN journal[n] \subseteq Places
           /\ CacheKey(n) \in 0..MaxEvents
<1> USE ReviewAssumption
<1>1. journal[n] \in Seq(Entry) /\ Len(journal[n]) \in Nat /\ Len(journal[n]) <= MaxEvents
  BY DEF StoreOK
<1>2. DOMAIN journal[n] \subseteq Places
  BY <1>1 DEF Places
<1>3. Committed(n) \subseteq DOMAIN journal[n]
  BY DEF Committed
<1> DEFINE S == Committed(n) \ Of(n, {"verdict"})
<1>4. S = {} => CacheKey(n) \in 0..MaxEvents
  BY DEF CacheKey, Newest
<1>5. S # {} => CacheKey(n) \in 0..MaxEvents
  BY <1>2, <1>3, NewestExists DEF CacheKey, Places
<1> QED
  BY <1>2, <1>3, <1>4, <1>5

\* Operations have their type.
LEMMA DoingType ==
    ASSUME NEW n \in Nodes \cup {None}, NEW d \in 0..MaxEvents,
           NEW cut \in [Nodes -> SUBSET Places]
    PROVE  /\ Doing(n, d, cut) \in Op
           /\ Doing(n, d, cut).on = n /\ Doing(n, d, cut).cut = cut
           /\ Nothing \in [Nodes -> SUBSET Places]
           /\ NoOp \in Op
BY ReviewAssumption DEF Doing, Op, Asks, NoOp, Nothing

\* What ReadJournal and OpenReview keep.
LEMMA CutType ==
    ASSUME StoreOK, NEW n \in Nodes
    PROVE  /\ [Nothing EXCEPT ![n] = Committed(n)] \in [Nodes -> SUBSET Places]
           /\ [m \in Nodes |-> Committed(m)] \in [Nodes -> SUBSET Places]
           /\ [Nothing EXCEPT ![n] = Committed(n)][n] = Committed(n)
<1>1. \A m \in Nodes : Committed(m) \in SUBSET Places
  BY EventTypes
<1> QED
  BY <1>1 DEF Nothing

\* What the other invariants rest on.
BaseInv == TypeOK /\ DraftInv

\* Nodes as they were captured have the types, and nothing is stamped.
LEMMA BaseStart == Init => BaseInv
<1> USE ReviewAssumption
<1> SUFFICES ASSUME Init PROVE BaseInv
  OBVIOUS
<1>1. op \in [Actors -> Op]
  BY DoingType DEF Init
<1>2. StoreOK
  BY DEF Init, StoreOK
<1>3. LocalOK /\ HistoryOK
  BY <1>1 DEF Init, LocalOK, HistoryOK, Awaiting, Running
<1>4. DraftInv
  BY DEF Init, DraftInv, Drafting, Placed
<1> QED
  BY <1>2, <1>3, <1>4, TypeParts DEF BaseInv

\* Types and stamped events are kept by every step.
LEMMA BaseStep == BaseInv /\ [Next]_vars => BaseInv'
<1> USE ReviewAssumption
<1> SUFFICES ASSUME BaseInv, [Next]_vars PROVE BaseInv'
  OBVIOUS
<1>1. TypeOK /\ DraftInv /\ StoreOK /\ LocalOK /\ HistoryOK
  BY TypeParts DEF BaseInv
<1>2. \A x \in Actors : op[x] \in Op
  BY <1>1 DEF LocalOK
<1>3. NoOp \in Op /\ NoOp.on = None /\ Nothing \in [Nodes -> SUBSET Places]
  BY DEF NoOp, Doing, Op, Asks, Nothing
<1>4. Agents \subseteq Actors /\ Requests \subseteq Actors /\ Scripts \subseteq Actors
  BY DEF Actors
<1> DEFINE Typed == /\ pc' \in [Actors -> Awaiting \cup Running]
                    /\ op' \in [Actors -> Op]
                    /\ turn' \in Requests \cup {None}
\* Steps that leave the journal alone.
<1>q. ASSUME NEW x \in Actors, NEW from, NEW to \in (Awaiting \cup Running) \ Drafting,
             Step(x, from, to), NEW v \in Op, Keep(x, v), journal' = journal,
             to \in Placed => v.on \in Nodes
      PROVE  Typed /\ DraftInv'
  BY <1>1, <1>q, QuietStep
<1>r. ASSUME NEW x \in Actors, NEW from, NEW to \in (Awaiting \cup Running) \ Drafting,
             Step(x, from, to), NEW v \in Op, Keep(x, v),
             to \in Placed => v.on \in Nodes, UNCHANGED <<store, cache, history>>
      PROVE  BaseInv'
  <2>1. Typed /\ DraftInv'
    BY <1>q, <1>r DEF store
  <2>2. StoreOK' /\ HistoryOK' /\ LocalOK'
    BY <1>1, <1>r, <2>1 DEF StoreOK, HistoryOK, LocalOK, store, history
  <2> QED
    BY <2>1, <2>2 DEF BaseInv, TypeOK, StoreOK, LocalOK, HistoryOK
\* Steps that stamp an event.
<1>s. ASSUME NEW x \in Actors, NEW from, NEW to \in Drafting, Step(x, from, to),
             NEW n \in Nodes, NEW kind \in Kinds, NEW about \in 0..MaxEvents,
             Stamp(x, n, kind, about), Fits(to, kind), cache' \subseteq Guidance
      PROVE  BaseInv'
  <2>1. StoreOK' /\ Typed /\ DraftInv'
    BY <1>1, <1>s, StampStep
  <2>2. HistoryOK' /\ LocalOK'
    BY <1>1, <1>s, <2>1 DEF HistoryOK, LocalOK, history, Stamp
  <2> QED
    BY <2>1, <2>2 DEF BaseInv, TypeOK, StoreOK, LocalOK, HistoryOK
\* Steps that commit one.
<1>w. ASSUME NEW x \in Actors, NEW from \in Drafting, Step(x, from, "idle"), Write(x),
             flag' \in [Nodes -> BOOLEAN], archived' \in [Nodes -> BOOLEAN],
             trust' \in [Nodes -> 0..1], HistoryOK'
      PROVE  BaseInv'
  <2>1. /\ journal' \in [Nodes -> Seq(Entry)]
        /\ \A m \in Nodes : Len(journal'[m]) <= MaxEvents
        /\ Typed /\ DraftInv'
    BY <1>1, <1>w, WriteStep
  <2>2. StoreOK' /\ LocalOK'
    BY <1>1, <1>w, <2>1 DEF StoreOK, LocalOK, Write
  <2> QED
    BY <1>w, <2>1, <2>2 DEF BaseInv, TypeOK, StoreOK, LocalOK, HistoryOK
<1>d. \A x \in Actors : pc[x] \in Drafting => op[x].on \in Nodes /\ op[x].draft \in Places
  <2>1. ASSUME NEW x \in Actors, pc[x] \in Drafting
        PROVE  op[x].on \in Nodes /\ op[x].draft \in Places
    BY <1>1, <2>1, EventTypes DEF DraftInv, DraftOK
  <2> QED
    BY <2>1
<1> HIDE DEF Typed
<1>5. ASSUME NEW a \in Agents, NEW n \in Nodes, Look(a, n) PROVE BaseInv'
  BY <1>3, <1>4, <1>5, <1>r, DoingType DEF Look, Running, Drafting, Placed
<1>6. ASSUME NEW a \in Agents, NEW kind \in Kinds, StampEvent(a, kind) PROVE BaseInv'
  <2>1. op[a].on \in Nodes
    BY <1>1, <1>4, <1>6 DEF StampEvent, Step, DraftInv, Placed
  <2> QED
    BY <1>1, <1>4, <1>6, <1>s, <2>1 DEF StampEvent, Drafting, Fits, LocalOK
<1>7. ASSUME NEW a \in Agents, CommitEvent(a) PROVE BaseInv'
  <2>1. flag' \in [Nodes -> BOOLEAN]
    BY <1>1, <1>7 DEF CommitEvent, StoreOK
  <2>2. archived' \in [Nodes -> BOOLEAN] /\ trust' \in [Nodes -> 0..1] /\ HistoryOK'
    BY <1>1, <1>7 DEF CommitEvent, StoreOK, HistoryOK, history
  <2> QED
    BY <1>4, <1>7, <1>w, <2>1, <2>2 DEF CommitEvent, Drafting
<1>8. ASSUME NEW r \in Requests, NEW n \in Nodes, BeginClear(r, n) PROVE BaseInv'
  BY <1>1, <1>4, <1>8, <1>s DEF BeginClear, Drafting, Fits, LocalOK, Kinds
<1>9. ASSUME NEW r \in Requests, CommitClear(r) PROVE BaseInv'
  <2>1. flag' \in [Nodes -> BOOLEAN]
    BY <1>1, <1>9 DEF CommitClear, StoreOK
  <2>2. archived' \in [Nodes -> BOOLEAN] /\ trust' \in [Nodes -> 0..1] /\ HistoryOK'
    BY <1>1, <1>9 DEF CommitClear, StoreOK, HistoryOK, history
  <2> QED
    BY <1>4, <1>9, <1>w, <2>1, <2>2 DEF CommitClear, Drafting
<1>10. ASSUME NEW r \in Requests, NEW n \in Nodes, CheckFlagged(r, n) PROVE BaseInv'
  BY <1>3, <1>4, <1>10, <1>r, DoingType DEF CheckFlagged, Awaiting, Drafting, Placed
<1>11. ASSUME NEW r \in Requests, Reject(r) \/ NoAnswer(r) PROVE BaseInv'
  BY <1>3, <1>4, <1>11, <1>r DEF Reject, NoAnswer, Done, Awaiting, Drafting, Placed
<1>12. ASSUME NEW r \in Requests, NEW kind \in Kinds,
              BeginResolution(r, kind) PROVE BaseInv'
  <2>1. op[r].on \in Nodes
    BY <1>1, <1>4, <1>12 DEF BeginResolution, Step, DraftInv, Placed
  <2> QED
    BY <1>1, <1>4, <1>12, <1>s, <2>1 DEF BeginResolution, Drafting, Fits, LocalOK
<1>13. ASSUME NEW r \in Requests, NEW archive \in BOOLEAN, NEW recompute \in BOOLEAN,
              CommitResolution(r, archive, recompute)
       PROVE  BaseInv'
  <2> DEFINE n == op[r].on
             all == Committed(n) \cup {op[r].draft}
  <2>1. n \in Nodes /\ op[r].draft \in Places
    BY <1>4, <1>13, <1>d DEF CommitResolution, Step, Drafting
  <2>2. all \in SUBSET Places /\ Fold(n, all) \in 0..1
    <3> HIDE DEF n
    <3> QED
      BY <1>1, <2>1, EventTypes, FoldType DEF n
  <2>3. flag' \in [Nodes -> BOOLEAN] /\ archived' \in [Nodes -> BOOLEAN]
    BY <1>1, <1>13, <2>1 DEF CommitResolution, StoreOK
  <2>4. /\ trust' = trust \/ trust' = [trust EXCEPT ![n] = Fold(n, all)]
        /\ counted' = counted \/ counted' = [counted EXCEPT ![n] = all]
        /\ byHand' = byHand \/ byHand' = byHand \ {n}
        /\ crashes' = crashes
    BY <1>13 DEF CommitResolution
  <2> HIDE DEF n, all
  <2>5. trust' \in [Nodes -> 0..1]
    BY <1>1, <2>2, <2>4 DEF StoreOK
  <2>6. HistoryOK'
    BY <1>1, <2>2, <2>4 DEF HistoryOK
  <2> QED
    BY <1>4, <1>13, <1>w, <2>3, <2>5, <2>6 DEF CommitResolution, Drafting
<1>14. ASSUME NEW r \in Requests, NEW n \in Nodes, BeginRuling(r, n) PROVE BaseInv'
  BY <1>1, <1>4, <1>14, <1>s DEF BeginRuling, Drafting, Fits, LocalOK, Kinds
<1>15. ASSUME NEW r \in Requests, NEW weight \in 0..1, SetTrust(r, weight) PROVE BaseInv'
  <2>1. op[r].on \in Nodes
    BY <1>4, <1>15, <1>d DEF SetTrust, Step, Drafting
  <2>2. flag' \in [Nodes -> BOOLEAN] /\ archived' \in [Nodes -> BOOLEAN] /\ trust' \in [Nodes -> 0..1]
    BY <1>1, <1>15 DEF SetTrust, StoreOK
  <2>3. HistoryOK'
    BY <1>1, <1>15, <2>1 DEF SetTrust, HistoryOK
  <2> QED
    BY <1>4, <1>15, <1>w, <2>2, <2>3 DEF SetTrust, Drafting
<1>16. ASSUME NEW r \in Requests, NEW value \in BOOLEAN,
              SetArchived(r, value) PROVE BaseInv'
  <2>1. flag' \in [Nodes -> BOOLEAN] /\ archived' \in [Nodes -> BOOLEAN] /\ trust' \in [Nodes -> 0..1]
    BY <1>1, <1>16 DEF SetArchived, StoreOK
  <2>2. HistoryOK'
    BY <1>1, <1>16 DEF SetArchived, HistoryOK, history
  <2> QED
    BY <1>4, <1>16, <1>w, <2>1, <2>2 DEF SetArchived, Drafting
<1>17. ASSUME NEW r \in Requests, NEW n \in Nodes, OpenReview(r, n) PROVE BaseInv'
  <2>1. Doing(n, 0, [Nothing EXCEPT ![n] = Committed(n)]) \in Op
        /\ Doing(n, 0, [Nothing EXCEPT ![n] = Committed(n)]).on = n
    BY <1>1, CutType, DoingType
  <2> QED
    BY <1>4, <1>17, <1>r, <2>1 DEF OpenReview, Running, Drafting
<1>18. ASSUME NEW r \in Requests, LookUp(r) PROVE BaseInv'
  <2> DEFINE n == op[r].on
             hit == \E g \in cache : g.node = n /\ g.key = CacheKey(n)
             asked == [op[r] EXCEPT !.asks =
                        [key |-> CacheKey(n),
                         about |-> Newest(Committed(n) \ Of(n, {"verdict"}))]]
             to == IF hit THEN "idle" ELSE "asking"
             v == IF hit THEN NoOp ELSE asked
  <2>1. n \in Nodes
    BY <1>1, <1>4, <1>18 DEF LookUp, Step, DraftInv, Placed
  <2>2. CacheKey(n) \in 0..MaxEvents /\ Newest(Committed(n) \ Of(n, {"verdict"})) \in 0..MaxEvents
    BY <1>1, <2>1, EventTypes DEF CacheKey
  <2>3. asked \in Op /\ asked.on = n
    BY <1>2, <1>4, <2>2 DEF Op, Asks
  <2>4. Step(r, "context", to) /\ Keep(r, v) /\ UNCHANGED <<store, cache, history>>
    BY <1>18 DEF LookUp, Done
  <2>5. v \in Op /\ to \in (Awaiting \cup Running) \ Drafting /\ (to \in Placed => v.on \in Nodes)
    BY <1>3, <2>1, <2>3 DEF Awaiting, Drafting, Placed
  <2> HIDE DEF to, v
  <2> QED
    BY <1>4, <1>r, <2>4, <2>5
<1>19. ASSUME NEW r \in Requests, Answered(r) PROVE BaseInv'
  <2>1. op[r].on \in Nodes
    BY <1>1, <1>4, <1>19 DEF Answered, Step, DraftInv, Placed
  <2>2. op[r].asks.key \in 0..MaxEvents /\ op[r].asks.about \in 0..MaxEvents
        /\ op[r].cut[op[r].on] \in SUBSET Places
    BY <1>2, <1>4, <2>1 DEF Op, Asks
  <2>3. cache' \subseteq Guidance
    BY <1>1, <1>19, <2>1, <2>2 DEF Answered, Guidance, LocalOK
  <2> QED
    BY <1>4, <1>19, <1>s, <2>1, <2>2, <2>3 DEF Answered, Drafting, Fits, Kinds
<1>20. ASSUME NEW r \in Requests, CommitVerdict(r) PROVE BaseInv'
  <2>1. flag' \in [Nodes -> BOOLEAN] /\ archived' \in [Nodes -> BOOLEAN] /\ trust' \in [Nodes -> 0..1]
        /\ HistoryOK'
    BY <1>1, <1>20 DEF CommitVerdict, StoreOK, HistoryOK, history
  <2> QED
    BY <1>4, <1>20, <1>w, <2>1 DEF CommitVerdict, Drafting
<1>21. ASSUME NEW r \in Requests, NEW n \in Nodes, ReadJournal(r, n) PROVE BaseInv'
  <2>1. Doing(n, 0, [Nothing EXCEPT ![n] = Committed(n)]) \in Op
        /\ Doing(n, 0, [Nothing EXCEPT ![n] = Committed(n)]).on = n
    BY <1>1, CutType, DoingType
  <2> QED
    BY <1>4, <1>21, <1>r, <2>1 DEF ReadJournal, Running, Drafting
<1>22. ASSUME NEW r \in Requests, WriteTrust(r) PROVE BaseInv'
  <2> DEFINE n == op[r].on
  <2>1. n \in Nodes
    BY <1>1, <1>4, <1>22 DEF WriteTrust, Step, DraftInv, Placed
  <2>2. op[r].cut[n] \in SUBSET Places /\ Fold(n, op[r].cut[n]) \in 0..1
    BY <1>1, <1>2, <1>4, <2>1, FoldType DEF Op
  <2>3. Typed /\ DraftInv'
    BY <1>3, <1>4, <1>22, <1>q DEF WriteTrust, Done, Awaiting, Drafting, Placed
  <2>4. StoreOK' /\ LocalOK' /\ HistoryOK'
    BY <1>1, <1>22, <2>2, <2>3 DEF WriteTrust, StoreOK, LocalOK, HistoryOK, Typed
  <2> QED
    BY <2>3, <2>4 DEF BaseInv, TypeOK, StoreOK, LocalOK, HistoryOK
<1>23. ASSUME NEW x \in Requests \cup Scripts, ReadJournals(x) PROVE BaseInv'
  <2>1. Doing(None, 0, [n \in Nodes |-> Committed(n)]) \in Op
    BY <1>1, EventTypes, DoingType
  <2> QED
    BY <1>4, <1>23, <1>r, <2>1 DEF ReadJournals, Running, Drafting, Placed
<1>24. ASSUME NEW x \in Requests \cup Scripts, ReadWeights(x) PROVE BaseInv'
  <2>1. [op[x] EXCEPT !.stored = trust] \in Op
    BY <1>1, <1>2, <1>4 DEF Op, StoreOK
  <2> QED
    BY <1>4, <1>24, <1>r, <2>1 DEF ReadWeights, Running, Drafting, Placed
<1>25. ASSUME NEW x \in Requests \cup Scripts, WriteBehind(x) PROVE BaseInv'
  <2>1. op[x].cut \in [Nodes -> SUBSET Places]
    BY <1>2, <1>4 DEF Op
  <2>2. Typed /\ DraftInv'
    BY <1>3, <1>4, <1>25, <1>q DEF WriteBehind, Done, Awaiting, Drafting, Placed
  <2>3. trust' \in [Nodes -> 0..1]
    BY <1>1, <1>25, FoldType DEF WriteBehind, StoreOK
  <2>4. StoreOK' /\ LocalOK' /\ HistoryOK'
    BY <1>1, <1>25, <2>1, <2>2, <2>3 DEF WriteBehind, StoreOK, LocalOK, HistoryOK, Typed
  <2> QED
    BY <2>2, <2>4 DEF BaseInv, TypeOK, StoreOK, LocalOK, HistoryOK
\* What is stamped and not committed is forgotten, and nothing else is disturbed.
<1>k. ASSUME NEW K \in SUBSET Actors, UNCHANGED <<store, counted, byHand>>,
             crashes' \in 0..MaxCrashes, turn' \in Requests \cup {None}, cache' \subseteq Guidance,
             pc' = [x \in Actors |-> IF x \in K THEN "idle" ELSE pc[x]],
             op' = [x \in Actors |-> IF x \in K THEN NoOp ELSE op[x]]
      PROVE  BaseInv'
  <2>1. StoreOK' /\ LocalOK' /\ HistoryOK'
    BY <1>1, <1>3, <1>k DEF StoreOK, LocalOK, HistoryOK, store, Awaiting
  <2>2. \A x \in Actors : pc'[x] \in Drafting \cup Placed =>
                          pc'[x] = pc[x] /\ op'[x] = op[x]
    BY <1>k DEF Drafting, Placed
  <2>3. journal' = journal
    BY <1>k DEF store
  <2>4. \A x \in Actors : pc'[x] \in Drafting => DraftOK(x)'
    BY <1>1, <2>2, <2>3 DEF DraftInv, DraftOK, Drafted
  <2>5. DraftInv'
    BY <1>1, <2>2, <2>4 DEF DraftInv
  <2> QED
    BY <2>1, <2>5 DEF BaseInv, TypeOK, StoreOK, LocalOK, HistoryOK
<1>26. ASSUME NEW x \in Agents \cup Scripts, Crash(x) PROVE BaseInv'
  <2>1. pc' = [y \in Actors |-> IF y \in {x} THEN "idle" ELSE pc[y]]
        /\ op' = [y \in Actors |-> IF y \in {x} THEN NoOp ELSE op[y]]
    BY <1>1, <1>4, <1>26 DEF Crash, Done, Keep, LocalOK
  <2>2. crashes' \in 0..MaxCrashes
    BY <1>1, <1>26 DEF Crash, HistoryOK
  <2> QED
    BY <1>1, <1>4, <1>26, <1>k, <2>1, <2>2 DEF Crash, LocalOK
<1>27. ASSUME Restart PROVE BaseInv'
  <2>1. crashes' \in 0..MaxCrashes
    BY <1>1, <1>27 DEF Restart, HistoryOK
  <2> QED
    BY <1>1, <1>4, <1>27, <1>k, <2>1 DEF Restart
<1>28. ASSUME UNCHANGED vars PROVE BaseInv'
  <2>1. StoreOK' /\ LocalOK' /\ HistoryOK'
    BY <1>1, <1>28 DEF StoreOK, LocalOK, HistoryOK, vars, store, local, history
  <2>2. DraftInv'
    BY <1>1, <1>28 DEF DraftInv, DraftOK, Drafted, vars, store, local
  <2> QED
    BY <2>1, <2>2 DEF BaseInv, TypeOK, StoreOK, LocalOK, HistoryOK
<1> QED
  BY <1>5, <1>6, <1>7, <1>8, <1>9, <1>10, <1>11, <1>12, <1>13, <1>14, <1>15, <1>16,
     <1>17, <1>18,
     <1>19, <1>20, <1>21, <1>22, <1>23, <1>24, <1>25, <1>26, <1>27, <1>28
     DEF Next, Rule, Guide, RecomputeAll

\* Every variable keeps its type, whatever agents, the GUI, scripts and crashes do.
THEOREM TypeCorrect == Spec => []TypeOK
<1>1. BaseInv => TypeOK
  BY DEF BaseInv
<1> QED
  BY <1>1, BaseStart, BaseStep, PTL DEF Spec
-----------------------------------------------------------------------------
\* What a transaction does to the flag of its node goes by the event it commits.
FlagEffect(x) ==
    flag' = [flag EXCEPT ![op[x].on] =
               IF Drafted(x) = "raised" THEN TRUE
               ELSE IF Drafted(x) = "cleared" THEN FALSE ELSE @]

\* Every step stamps an event, commits one, or leaves journal and flag alone.
LEMMA JournalSteps ==
    ASSUME BaseInv, [Next]_vars
    PROVE  \/ \E x \in Actors, n \in Nodes, kind \in Kinds, about \in 0..MaxEvents :
                Stamp(x, n, kind, about)
           \/ \E x \in Actors : DraftOK(x) /\ Write(x) /\ FlagEffect(x)
           \/ journal' = journal /\ flag' = flag
<1>1. StoreOK /\ LocalOK /\ DraftInv /\ 0 \in 0..MaxEvents
  BY ReviewAssumption, TypeParts DEF BaseInv
<1>2. \A x \in Actors : op[x].asks.about \in 0..MaxEvents
  BY <1>1 DEF LocalOK, Op, Asks
<1>3. Agents \subseteq Actors /\ Requests \subseteq Actors
  BY DEF Actors
<1>4. \A x \in Actors :
        /\ pc[x] \in Placed => op[x].on \in Nodes
        /\ pc[x] \in Drafting => DraftOK(x)
  BY <1>1 DEF DraftInv
<1>f. flag \in [Nodes -> BOOLEAN]
  BY <1>1 DEF StoreOK
<1>w. ASSUME NEW x \in Actors, NEW from \in Drafting, pc[x] = from
      PROVE  DraftOK(x) /\ op[x].on \in Nodes /\ Fits(from, Drafted(x))
  BY <1>4, <1>w DEF DraftOK
<1>o. ASSUME NEW x \in Actors, op[x].on \in Nodes,
             Drafted(x) \notin {"raised", "cleared"},
             flag' = flag
      PROVE  FlagEffect(x)
  BY <1>f, <1>o DEF FlagEffect
<1>5. ASSUME NEW a \in Agents, NEW kind \in Kinds, StampEvent(a, kind)
      PROVE  Stamp(a, op[a].on, kind, 0) /\ op[a].on \in Nodes
  BY <1>3, <1>4, <1>5 DEF StampEvent, Step, Placed
<1>6. ASSUME NEW r \in Requests, NEW kind \in Kinds, BeginResolution(r, kind)
      PROVE  Stamp(r, op[r].on, kind, 0) /\ op[r].on \in Nodes
  BY <1>3, <1>4, <1>6 DEF BeginResolution, Step, Placed
<1>7. ASSUME NEW r \in Requests, Answered(r)
      PROVE  Stamp(r, op[r].on, "verdict", op[r].asks.about) /\ op[r].on \in Nodes
  BY <1>3, <1>4, <1>7 DEF Answered, Step, Placed
<1>8. ASSUME NEW r \in Requests, NEW n \in Nodes, BeginClear(r, n) \/ BeginRuling(r, n)
      PROVE  \E kind \in Kinds : Stamp(r, n, kind, 0)
  BY <1>8 DEF BeginClear, BeginRuling, Kinds
<1>9. ASSUME NEW a \in Agents, CommitEvent(a)
      PROVE  DraftOK(a) /\ Write(a) /\ FlagEffect(a)
  <2>1. DraftOK(a) /\ Drafted(a) \in {"raised", "confirmed", "other"} /\ op[a].on \in Nodes
    BY <1>3, <1>9, <1>w DEF CommitEvent, Step, Drafting, Fits
  <2>2. flag' = [flag EXCEPT ![op[a].on] = @ \/ Drafted(a) = "raised"] /\ Write(a)
    BY <1>9 DEF CommitEvent
  <2>3. FlagEffect(a)
    BY <1>f, <2>1, <2>2 DEF FlagEffect
  <2> QED
    BY <2>1, <2>2, <2>3
<1>10. ASSUME NEW r \in Requests, CommitClear(r) \/ CommitVerdict(r)
       PROVE  DraftOK(r) /\ Write(r) /\ FlagEffect(r)
  <2>1. CASE CommitClear(r)
    <3>1. DraftOK(r) /\ Drafted(r) = "cleared"
      BY <1>3, <1>w, <2>1 DEF CommitClear, Step, Drafting, Fits
    <3> QED
      BY <2>1, <3>1 DEF CommitClear, FlagEffect
  <2>2. CASE CommitVerdict(r)
    <3>1. DraftOK(r) /\ Drafted(r) = "verdict" /\ op[r].on \in Nodes
      BY <1>3, <1>w, <2>2 DEF CommitVerdict, Step, Drafting, Fits
    <3> QED
      BY <1>3, <1>o, <2>2, <3>1 DEF CommitVerdict
  <2> QED
    BY <1>10, <2>1, <2>2
<1>11. ASSUME NEW r \in Requests, NEW archive \in BOOLEAN, NEW recompute \in BOOLEAN,
              CommitResolution(r, archive, recompute)
       PROVE  DraftOK(r) /\ Write(r) /\ FlagEffect(r)
  <2>1. DraftOK(r) /\ Drafted(r) \in {"cleared", "other"} /\ op[r].on \in Nodes
    BY <1>3, <1>11, <1>w DEF CommitResolution, Step, Drafting, Fits
  <2>2. flag' = [flag EXCEPT ![op[r].on] = @ /\ Drafted(r) # "cleared"] /\ Write(r)
    BY <1>11 DEF CommitResolution
  <2>3. FlagEffect(r)
    BY <1>f, <2>1, <2>2 DEF FlagEffect
  <2> QED
    BY <2>1, <2>2, <2>3
<1>12. ASSUME NEW r \in Requests, NEW value, SetTrust(r, value) \/ SetArchived(r, value)
       PROVE  DraftOK(r) /\ Write(r) /\ FlagEffect(r)
  <2>1. DraftOK(r) /\ Drafted(r) = "other" /\ op[r].on \in Nodes
    BY <1>3, <1>12, <1>w DEF SetTrust, SetArchived, Step, Drafting, Fits
  <2> QED
    BY <1>3, <1>12, <1>o, <2>1 DEF SetTrust, SetArchived
<1>13. ASSUME NEW r \in Requests, NEW n \in Nodes,
              CheckFlagged(r, n) \/ OpenReview(r, n) \/ ReadJournal(r, n)
       PROVE  journal' = journal /\ flag' = flag
  BY <1>13 DEF CheckFlagged, OpenReview, ReadJournal, store
<1>14. ASSUME NEW r \in Requests, Reject(r) \/ LookUp(r) \/ NoAnswer(r) \/ WriteTrust(r)
       PROVE  journal' = journal /\ flag' = flag
  BY <1>14 DEF Reject, LookUp, NoAnswer, WriteTrust, store
<1>15. ASSUME NEW x, RecomputeAll(x) \/ Crash(x)
       PROVE  journal' = journal /\ flag' = flag
  BY <1>15 DEF RecomputeAll, ReadJournals, ReadWeights, WriteBehind, Crash, store
<1>16. ASSUME NEW a \in Agents, NEW n \in Nodes,
              Look(a, n) PROVE journal' = journal /\ flag' = flag
  BY <1>16 DEF Look, store
<1>17. Restart \/ UNCHANGED vars => journal' = journal /\ flag' = flag
  BY DEF Restart, vars, store
<1> DEFINE Goal ==
      \/ \E x \in Actors, n \in Nodes, kind \in Kinds, about \in 0..MaxEvents :
           Stamp(x, n, kind, about)
      \/ \E x \in Actors : DraftOK(x) /\ Write(x) /\ FlagEffect(x)
      \/ journal' = journal /\ flag' = flag
<1>18. ASSUME NEW a \in Agents, NEW kind \in Kinds, StampEvent(a, kind) PROVE Goal
  BY <1>1, <1>3, <1>5, <1>18
<1>19. ASSUME NEW r \in Requests, Rule(r) PROVE Goal
  <2>1. ASSUME NEW n \in Nodes, BeginClear(r, n) \/ BeginRuling(r, n) PROVE Goal
    BY <1>1, <1>3, <1>8, <2>1
  <2>2. ASSUME NEW kind \in Kinds, BeginResolution(r, kind) PROVE Goal
    BY <1>1, <1>3, <1>6, <2>2
  <2>3. CommitClear(r) \/ Reject(r) => Goal
    BY <1>3, <1>10, <1>14
  <2>4. ASSUME NEW archive \in BOOLEAN, NEW recompute \in BOOLEAN,
               CommitResolution(r, archive, recompute)
        PROVE  Goal
    BY <1>3, <1>11, <2>4
  <2>5. ASSUME NEW value, SetTrust(r, value) \/ SetArchived(r, value) PROVE Goal
    BY <1>3, <1>12, <2>5
  <2>6. ASSUME NEW n \in Nodes, CheckFlagged(r, n) PROVE Goal
    BY <1>13, <2>6
  <2> HIDE DEF Goal
  <2> QED
    BY <1>19, <2>1, <2>2, <2>3, <2>4, <2>5, <2>6 DEF Rule
<1>20. ASSUME NEW r \in Requests, Guide(r) PROVE Goal
  <2>1. ASSUME NEW n \in Nodes, OpenReview(r, n) PROVE Goal
    BY <1>13, <2>1
  <2>2. Answered(r) => Goal
    BY <1>2, <1>3, <1>7 DEF Kinds
  <2>3. LookUp(r) \/ NoAnswer(r) \/ CommitVerdict(r) => Goal
    BY <1>3, <1>10, <1>14
  <2> HIDE DEF Goal
  <2> QED
    BY <1>20, <2>1, <2>2, <2>3 DEF Guide
<1>21. ASSUME NEW a \in Agents, CommitEvent(a) PROVE Goal
  BY <1>3, <1>9, <1>21
<1>22. journal' = journal /\ flag' = flag => Goal
  OBVIOUS
<1>23. Goal
  <2> HIDE DEF Goal
  <2> QED
    BY <1>13, <1>14, <1>15, <1>16, <1>17, <1>18, <1>19, <1>20, <1>21, <1>22 DEF Next
<1> QED
  BY <1>23

\* No event is lost, changed, or taken back.
LEMMA JournalGrows ==
    ASSUME BaseInv, [Next]_vars
    PROVE  Kept /\ \A n \in Nodes : Committed(n) \subseteq Committed(n)'
<1>1. StoreOK /\ LocalOK
  BY TypeParts DEF BaseInv
<1>2. ASSUME NEW x \in Actors, NEW n \in Nodes, NEW kind \in Kinds,
             NEW about \in 0..MaxEvents,
             Stamp(x, n, kind, about)
      PROVE  Kept /\ \A m \in Nodes : Committed(m) \subseteq Committed(m)'
  <2>1. Kept /\ \A m \in Nodes : Committed(m)' = Committed(m)
    BY <1>1, <1>2, StampEffect
  <2> QED
    BY <2>1
<1>3. ASSUME NEW x \in Actors, DraftOK(x), Write(x)
      PROVE  Kept /\ \A m \in Nodes : Committed(m) \subseteq Committed(m)'
  <2>1. Kept /\ \A m \in Nodes : Committed(m)' = IF m = op[x].on
                                                THEN Committed(m) \cup {op[x].draft}
                                                ELSE Committed(m)
    BY <1>1, <1>3, WriteEffect
  <2> QED
    BY <2>1
<1>4. CASE journal' = journal /\ flag' = flag
  BY <1>4 DEF Kept, Committed
<1> QED
  BY <1>2, <1>3, <1>4, JournalSteps

-----------------------------------------------------------------------------
\* The step's new events of a kind.
NewEvent(n, kind) ==
    \E i \in Committed(n)' \ Committed(n) : journal'[n][i].kind = kind

\* FlagFollowsJournal, of a step.
FlagStep ==
    \A n \in Nodes :
        /\ NewEvent(n, "raised") => flag'[n]
        /\ NewEvent(n, "cleared") => ~flag'[n]
        /\ flag'[n] # flag[n] => NewEvent(n, "raised") \/ NewEvent(n, "cleared")

\* Every step moves flag and journal together.
LEMMA FlagMoves == BaseInv /\ [Next]_vars => FlagStep
<1> SUFFICES ASSUME BaseInv, [Next]_vars PROVE FlagStep
  OBVIOUS
<1>1. StoreOK /\ LocalOK
  BY TypeParts DEF BaseInv
<1>2. ASSUME \A n \in Nodes : Committed(n)' = Committed(n), flag' = flag
      PROVE  FlagStep
  BY <1>2 DEF FlagStep, NewEvent
<1>3. ASSUME NEW x \in Actors, NEW n \in Nodes, NEW kind \in Kinds,
             NEW about \in 0..MaxEvents,
             Stamp(x, n, kind, about)
      PROVE  FlagStep
  <2>1. \A m \in Nodes : Committed(m)' = Committed(m)
    BY <1>1, <1>3, StampEffect
  <2> QED
    BY <1>2, <1>3, <2>1 DEF Stamp
<1>4. ASSUME NEW x \in Actors, DraftOK(x), Write(x), FlagEffect(x)
      PROVE  FlagStep
  <2> DEFINE on == op[x].on
             d == op[x].draft
  <2>1. /\ Kept
        /\ \A m \in Nodes : Committed(m)' = IF m = on THEN Committed(m) \cup {d} ELSE Committed(m)
    BY <1>1, <1>4, WriteEffect
  <2>2. on \in Nodes /\ d \in DOMAIN journal[on] /\ d \notin Committed(on)
    BY <1>4 DEF DraftOK, Committed
  <2>3. journal'[on][d].kind = Drafted(x)
    BY <2>1, <2>2 DEF Kept, Drafted
  <2>4. \A m \in Nodes, kind \in Kinds : NewEvent(m, kind) <=> m = on /\ Drafted(x) = kind
    BY <2>1, <2>2, <2>3 DEF NewEvent
  <2>5. /\ \A m \in Nodes : NewEvent(m, "raised") <=> m = on /\ Drafted(x) = "raised"
        /\ \A m \in Nodes : NewEvent(m, "cleared") <=> m = on /\ Drafted(x) = "cleared"
    BY <2>4 DEF Kinds
  <2>6. /\ flag \in [Nodes -> BOOLEAN]
        /\ flag' = [flag EXCEPT ![on] = IF Drafted(x) = "raised" THEN TRUE
                                       ELSE IF Drafted(x) = "cleared" THEN FALSE ELSE @]
    BY <1>1, <1>4 DEF StoreOK, FlagEffect
  <2> HIDE DEF on, d
  <2> QED
    BY <2>2, <2>5, <2>6 DEF FlagStep
<1>5. CASE journal' = journal /\ flag' = flag
  BY <1>2, <1>5 DEF Committed
<1> QED
  BY <1>3, <1>4, <1>5, JournalSteps

\* Flag and journal move together (storage.py:482-486, 627-628, 677-678).
THEOREM FlagAndJournal == Spec => FlagFollowsJournal
<1>1. FlagStep => \A n \in Nodes :
          LET new(kind) == \E i \in Committed(n)' \ Committed(n) : journal'[n][i].kind = kind
          IN  /\ new("raised") => flag'[n]
              /\ new("cleared") => ~flag'[n]
              /\ flag'[n] # flag[n] => new("raised") \/ new("cleared")
  BY DEF FlagStep, NewEvent
<1> QED
  BY <1>1, BaseStart, BaseStep, FlagMoves, PTL DEF Spec, FlagFollowsJournal
-----------------------------------------------------------------------------
\* ResolutionFoldsEverything, of a step.
ResolutionStep ==
    \A r \in Requests, n \in Nodes :
        pc[r] = "resolve" /\ pc'[r] = "idle" /\ counted'[n] # counted[n]
            => counted'[n] = Committed(n)'

\* A resolution that moves the trust of a node folds all of its journal.
LEMMA ResolutionFolds == BaseInv /\ [Next]_vars => ResolutionStep
<1> SUFFICES ASSUME BaseInv, [Next]_vars,
                    NEW r \in Requests, NEW n \in Nodes,
                    pc[r] = "resolve", pc'[r] = "idle", counted'[n] # counted[n]
             PROVE  counted'[n] = Committed(n)'
  BY DEF ResolutionStep
<1>1. StoreOK /\ LocalOK /\ HistoryOK /\ DraftInv
  BY TypeParts DEF BaseInv
<1>2. Requests \subseteq Actors /\ Scripts \subseteq Actors
  BY DEF Actors
\* The step is the request's own.
<1>3. ASSUME NEW x \in Actors, NEW from, NEW to \in Awaiting \cup Running,
             Step(x, from, to)
      PROVE  x = r /\ from = "resolve"
  <2>1. pc' = [pc EXCEPT ![x] = to] /\ pc[x] = from
    BY <1>1, <1>3, StepEffect
  <2> QED
    BY <1>1, <1>2, <2>1 DEF LocalOK
<1>4. counted' # counted
  OBVIOUS
<1>5. ASSUME NEW archive \in BOOLEAN, NEW recompute \in BOOLEAN, NEW s \in Requests,
             CommitResolution(s, archive, recompute)
      PROVE  counted'[n] = Committed(n)'
  <2>1. s = r
    BY <1>2, <1>3, <1>5 DEF CommitResolution, Awaiting
  <2>2. DraftOK(r) /\ Write(r)
    BY <1>1, <1>2, <1>5, <2>1 DEF CommitResolution, DraftInv, Drafting
  <2>3. \A m \in Nodes : Committed(m)' = IF m = op[r].on THEN Committed(m) \cup {op[r].draft}
                                        ELSE Committed(m)
    BY <1>1, <1>2, <2>2, WriteEffect
  <2>4. counted' = [counted EXCEPT ![op[r].on] = Committed(op[r].on) \cup {op[r].draft}]
    BY <1>4, <1>5, <2>1 DEF CommitResolution
  <2>5. n = op[r].on
    BY <1>1, <2>4 DEF HistoryOK
  <2> QED
    BY <1>1, <2>3, <2>4, <2>5 DEF HistoryOK
<1>6. ASSUME NEW s \in Requests PROVE ~WriteTrust(s)
  BY <1>2, <1>3 DEF WriteTrust, Awaiting
<1>7. ASSUME NEW x \in Requests \cup Scripts PROVE ~WriteBehind(x)
  BY <1>2, <1>3 DEF WriteBehind, Awaiting
<1>8. ASSUME NEW a \in Agents, NEW m \in Nodes PROVE ~Look(a, m)
  BY <1>4 DEF Look, history
<1>9. ASSUME NEW a \in Agents, NEW kind PROVE ~StampEvent(a, kind) /\ ~CommitEvent(a)
  BY <1>4 DEF StampEvent, CommitEvent, Stamp, history
<1>10. ASSUME NEW s \in Requests, NEW m \in Nodes
       PROVE  /\ ~BeginClear(s, m) /\ ~CheckFlagged(s, m) /\ ~BeginRuling(s, m)
              /\ ~OpenReview(s, m) /\ ~ReadJournal(s, m)
  BY <1>4 DEF BeginClear, CheckFlagged, BeginRuling, OpenReview, ReadJournal, Stamp,
     history
<1>11. ASSUME NEW s \in Requests, NEW value
       PROVE  ~BeginResolution(s, value) /\ ~SetTrust(s, value) /\ ~SetArchived(s, value)
  BY <1>4 DEF BeginResolution, SetTrust, SetArchived, Stamp, history
<1>12. ASSUME NEW s \in Requests
       PROVE  /\ ~CommitClear(s) /\ ~Reject(s)
              /\ ~LookUp(s) /\ ~Answered(s) /\ ~NoAnswer(s) /\ ~CommitVerdict(s)
  BY <1>4 DEF CommitClear, Reject, LookUp, Answered, NoAnswer, CommitVerdict, Stamp,
     history
<1>13. ASSUME NEW x PROVE ~ReadJournals(x) /\ ~ReadWeights(x) /\ ~Crash(x)
  BY <1>4 DEF ReadJournals, ReadWeights, Crash, history
<1>14. ~Restart /\ ~UNCHANGED vars
  BY <1>4 DEF Restart, vars, history
<1> QED
  BY <1>5, <1>6, <1>7, <1>8, <1>9, <1>10, <1>11, <1>12, <1>13, <1>14
     DEF Next, Rule, Guide, RecomputeAll

\* A resolution that recomputes folds the journal it leaves (storage.py:679-680).
THEOREM ResolutionFoldsAll == Spec => ResolutionFoldsEverything
<1>1. ResolutionStep => \A r \in Requests, n \in Nodes :
          pc[r] = "resolve" /\ pc'[r] = "idle" /\ counted'[n] # counted[n]
              => counted'[n] = Committed(n)'
  BY DEF ResolutionStep
<1> QED
  BY <1>1, BaseStart, BaseStep, ResolutionFolds, PTL DEF Spec, ResolutionFoldsEverything

-----------------------------------------------------------------------------
(* Trust, where no script recomputes: a request that folds has the event   *)
(* loop, so that nothing it has read of trust changes until it writes.     *)

\* Where a fold has begun.
Folding == {"fold", "weights", "fold-all"}

\* A request that is not awaiting has the event loop.
TurnInv == \A r \in Requests : pc[r] \in Running => turn = r

\* Only committed events were read, and counted.
SeenInv ==
    /\ \A x \in Actors, n \in Nodes : op[x].cut[n] \subseteq Committed(n)
    /\ \A n \in Nodes : counted[n] \subseteq Committed(n)

\* A fold under way read what trust is folded from, or more, and the weights as they are.
FoldOK(r) ==
    /\ pc[r] = "fold" => counted[op[r].on] \subseteq op[r].cut[op[r].on]
    /\ pc[r] \in {"weights", "fold-all"} => \A n \in Nodes : counted[n] \subseteq op[r].cut[n]
    /\ pc[r] = "fold-all" => op[r].stored = trust

\* Trust is the fold of what was counted, and a fold under way makes it so again.
DerivedInv ==
    /\ TurnInv /\ SeenInv
    /\ \A r \in Requests : FoldOK(r)
    /\ TrustIsDerived

\* What a set of events folds to is settled once they are journaled.
LEMMA FoldKept ==
    ASSUME Kept, NEW n \in Nodes, NEW events \in SUBSET DOMAIN journal[n]
    PROVE  Fold(n, events)' = Fold(n, events)
<1>1. \A kinds : events \cap Of(n, kinds)' = events \cap Of(n, kinds)
  BY DEF Kept, Of
<1> QED
  BY <1>1 DEF Fold

\* A step of x keeps or hands on its turn at the event loop.
LEMMA TurnStep ==
    ASSUME BaseInv, TurnInv, NEW x \in Actors, NEW from, NEW to \in Awaiting \cup Running,
           Step(x, from, to)
    PROVE  /\ TurnInv'
           /\ x \in Requests => \A r \in Requests : r # x => pc[r] \notin Running
<1>1. LocalOK
  BY TypeParts DEF BaseInv
<1>2. pc' = [pc EXCEPT ![x] = to]
  BY <1>1, StepEffect
<1>3. Awaiting \cap Running = {}
  BY DEF Awaiting, Running
<1>4. \A r \in Requests : r \in Actors /\ r # None
  BY ReviewAssumption DEF Actors
<1> QED
  BY <1>1, <1>2, <1>3, <1>4 DEF TurnInv, Step, LocalOK

\* A step of x that leaves the trust alone.
LEMMA CalmStep ==
    ASSUME BaseInv, DerivedInv, [Next]_vars,
           NEW x \in Actors, NEW from, NEW to \in Awaiting \cup Running,
           Step(x, from, to),
           NEW v, Keep(x, v), UNCHANGED <<trust, counted, byHand>>,
           \A n \in Nodes : v.cut[n] \subseteq Committed(n),
           x \in Requests => FoldOK(x)'
    PROVE  DerivedInv'
<1>1. LocalOK /\ StoreOK
  BY TypeParts DEF BaseInv
<1>2. TurnInv'
  BY TurnStep DEF DerivedInv
<1>3. pc' = [pc EXCEPT ![x] = to] /\ op' = [op EXCEPT ![x] = v]
  BY <1>1, StepEffect DEF Keep
<1>4. Kept /\ \A n \in Nodes : Committed(n) \subseteq Committed(n)'
  BY JournalGrows
<1>5. \A y \in Actors : IF y = x THEN op'[y] = v ELSE pc'[y] = pc[y] /\ op'[y] = op[y]
  BY <1>1, <1>3 DEF LocalOK
<1>6. SeenInv'
  <2>1. ASSUME NEW y \in Actors,
               NEW n \in Nodes PROVE op'[y].cut[n] \subseteq Committed(n)
    BY <1>5 DEF DerivedInv, SeenInv
  <2>2. \A n \in Nodes : counted'[n] \subseteq Committed(n)'
    BY <1>4 DEF DerivedInv, SeenInv
  <2> QED
    BY <1>4, <2>1, <2>2 DEF SeenInv
<1>7. ASSUME NEW r \in Requests PROVE FoldOK(r)'
  <2>1. CASE r = x
    BY <2>1
  <2>2. CASE r # x
    <3>1. pc'[r] = pc[r] /\ op'[r] = op[r]
      BY <1>5, <2>2 DEF Actors
    <3> QED
      BY <3>1 DEF DerivedInv, FoldOK
  <2> QED
    BY <2>1, <2>2
<1>8. TrustIsDerived'
  <2>1. ASSUME NEW n \in Nodes \ byHand PROVE trust'[n] = Fold(n, counted[n])'
    <3>1. counted[n] \in SUBSET DOMAIN journal[n]
      BY DEF DerivedInv, SeenInv, Committed
    <3>2. \A events \in SUBSET DOMAIN journal[n] : Fold(n, events)' = Fold(n, events)
      BY <1>4, FoldKept
    <3>3. trust[n] = Fold(n, counted[n])
      BY DEF DerivedInv, TrustIsDerived
    <3> DEFINE c == counted[n]
    <3>4. counted'[n] = c
      OBVIOUS
    <3> QED
      BY <3>1, <3>2, <3>3
  <2> QED
    BY <2>1 DEF TrustIsDerived
<1> QED
  BY <1>2, <1>6, <1>7, <1>8 DEF DerivedInv


\* The last step of a request's fold, or its resolution, that moves trust.
LEMMA MoveStep ==
    ASSUME BaseInv, DerivedInv, [Next]_vars,
           NEW x \in Requests, NEW from, Step(x, from, "idle"), Done(x),
           \A n \in Nodes : counted'[n] \subseteq Committed(n)',
           \A n \in Nodes \ byHand' : trust'[n] = Fold(n, counted[n])'
    PROVE  DerivedInv'
<1>1. LocalOK /\ StoreOK
  BY TypeParts DEF BaseInv
<1>2. x \in Actors /\ "idle" \in Awaiting \cup Running
  BY DEF Actors, Awaiting
<1>3. TurnInv' /\ \A r \in Requests : r # x => pc[r] \notin Running
  BY <1>2, TurnStep DEF DerivedInv
<1>4. pc' = [pc EXCEPT ![x] = "idle"] /\ op' = [op EXCEPT ![x] = NoOp]
  BY <1>1, <1>2, StepEffect DEF Done, Keep
<1>5. \A n \in Nodes : Committed(n) \subseteq Committed(n)'
  BY JournalGrows
<1>6. SeenInv'
  <2>1. ASSUME NEW y \in Actors,
               NEW n \in Nodes PROVE op'[y].cut[n] \subseteq Committed(n)
    <3>1. CASE y = x
      BY <1>1, <1>4, <3>1 DEF LocalOK, NoOp, Doing, Nothing
    <3>2. CASE y # x
      BY <1>1, <1>4, <3>2 DEF LocalOK, DerivedInv, SeenInv
    <3> QED
      BY <3>1, <3>2
  <2> QED
    BY <1>5, <2>1 DEF SeenInv
<1>7. ASSUME NEW r \in Requests PROVE FoldOK(r)'
  <2>1. pc'[r] \notin {"fold", "weights", "fold-all"}
    BY <1>1, <1>3, <1>4 DEF LocalOK, Running, Actors
  <2> QED
    BY <2>1 DEF FoldOK
<1> QED
  BY <1>3, <1>6, <1>7 DEF DerivedInv, TrustIsDerived

\* As captured, the trust is the fold of no event.
LEMMA DerivedStart == Init => DerivedInv
<1> SUFFICES ASSUME Init PROVE DerivedInv
  OBVIOUS
<1>1. \A n \in Nodes : Fold(n, {}) = 1
  <2>1. \A n \in Nodes : \A kinds : {} \cap Of(n, kinds) = {}
    OBVIOUS
  <2> QED
    BY <2>1, FS_EmptySet DEF Fold, Clamp
<1>2. TrustIsDerived
  BY <1>1 DEF Init, TrustIsDerived
<1>3. SeenInv /\ TurnInv /\ \A r \in Requests : FoldOK(r)
  BY DEF Init, SeenInv, TurnInv, FoldOK, NoOp, Doing, Nothing, Actors, Running
<1> QED
  BY <1>2, <1>3 DEF DerivedInv

\* RecomputeNeverGoesBack, of a step.
NeverBack == \A n \in Nodes : counted[n] \subseteq counted'[n]

\* Without a script, a fold writes what it read while trust stood still.
LEMMA DerivedStep ==
    ASSUME Scripts = {}
    PROVE  BaseInv /\ DerivedInv /\ [Next]_vars => DerivedInv' /\ NeverBack
<1> SUFFICES ASSUME BaseInv, DerivedInv, [Next]_vars PROVE DerivedInv' /\ NeverBack
  OBVIOUS
<1>1. StoreOK /\ LocalOK /\ HistoryOK /\ DraftInv
  BY TypeParts DEF BaseInv
<1>2. Agents \subseteq Actors /\ Requests \subseteq Actors /\ Agents \cap Requests = {}
  BY ReviewAssumption DEF Actors
<1>3. /\ \A n \in Nodes : Nothing[n] \subseteq Committed(n)
      /\ \A n \in Nodes : NoOp.cut[n] \subseteq Committed(n)
      /\ \A n, d, cut : Doing(n, d, cut).cut = cut /\ Doing(n, d, cut).on = n
  BY DEF Nothing, NoOp, Doing
<1>4. counted' = counted => NeverBack
  BY DEF NeverBack
<1> DEFINE Quiet == Awaiting \cup (Running \ Folding)
<1>5. Quiet \subseteq Awaiting \cup Running
  OBVIOUS
<1>q. ASSUME NEW x \in Actors, NEW from, NEW to \in Quiet, Step(x, from, to),
             NEW v, Keep(x, v), UNCHANGED <<trust, counted, byHand>>,
             \A n \in Nodes : v.cut[n] \subseteq Committed(n)
      PROVE  DerivedInv' /\ NeverBack
  <2>1. pc'[x] = to
    BY <1>1, <1>5, <1>q, StepEffect DEF LocalOK
  <2>2. FoldOK(x)'
    BY <2>1, <1>q DEF FoldOK, Folding, Awaiting
  <2> QED
    BY <1>4, <1>5, <1>q, <2>2, CalmStep
<1>6. "idle" \in Quiet /\ "asking" \in Quiet /\ "body" \in Quiet /\ "looked" \in Quiet
      /\ "event" \in Quiet /\ "clear" \in Quiet /\ "resolve" \in Quiet /\ "ruling" \in Quiet
      /\ "context" \in Quiet /\ "verdict" \in Quiet
  BY DEF Awaiting, Running, Folding
<1>s. ASSUME NEW x \in Actors, NEW from, NEW to \in Quiet, Step(x, from, to),
             NEW n, NEW kind, NEW about, Stamp(x, n, kind, about)
      PROVE  DerivedInv' /\ NeverBack
  <2>1. Keep(x, Doing(n, Len(journal[n]) + 1, Nothing)) /\ UNCHANGED <<trust, counted, byHand>>
    BY <1>s DEF Stamp, history
  <2> DEFINE v == Doing(n, Len(journal[n]) + 1, Nothing)
  <2>2. \A m \in Nodes : v.cut[m] \subseteq Committed(m)
    BY <1>3
  <2> HIDE DEF v, Quiet
  <2> QED
    BY <1>q, <1>s, <2>1, <2>2 DEF v
<1>w. ASSUME NEW x \in Actors, NEW from, Step(x, from, "idle"), Done(x),
             UNCHANGED <<trust, counted, byHand>>
      PROVE  DerivedInv' /\ NeverBack
  BY <1>3, <1>6, <1>q, <1>w DEF Done
<1> HIDE DEF Quiet
<1>7. ASSUME NEW a \in Agents, NEW n \in Nodes, Look(a, n) PROVE DerivedInv' /\ NeverBack
  BY <1>2, <1>3, <1>6, <1>7, <1>q DEF Look, store, history
<1>8. ASSUME NEW a \in Agents, NEW kind,
             StampEvent(a, kind) PROVE DerivedInv' /\ NeverBack
  BY <1>2, <1>6, <1>8, <1>s DEF StampEvent
<1>9. ASSUME NEW a \in Agents, CommitEvent(a) PROVE DerivedInv' /\ NeverBack
  BY <1>2, <1>9, <1>w DEF CommitEvent, Write, history
<1>10. ASSUME NEW r \in Requests, NEW n \in Nodes, BeginClear(r, n) \/ BeginRuling(r, n)
       PROVE  DerivedInv' /\ NeverBack
  BY <1>2, <1>6, <1>10, <1>s DEF BeginClear, BeginRuling
<1>11. ASSUME NEW r \in Requests, NEW value,
              CommitClear(r) \/ CommitVerdict(r) \/ Reject(r) \/ NoAnswer(r) \/ SetArchived(r, value)
       PROVE  DerivedInv' /\ NeverBack
  BY <1>2, <1>11, <1>w DEF CommitClear, CommitVerdict, Reject, NoAnswer, SetArchived,
     Write, store, history
<1>12. ASSUME NEW r \in Requests, NEW n \in Nodes, CheckFlagged(r, n)
       PROVE  DerivedInv' /\ NeverBack
  BY <1>2, <1>3, <1>6, <1>12, <1>q DEF CheckFlagged, store, history
<1>13. ASSUME NEW r \in Requests, NEW kind, BeginResolution(r, kind) \/ Answered(r)
       PROVE  DerivedInv' /\ NeverBack
  BY <1>2, <1>6, <1>13, <1>s DEF BeginResolution, Answered
<1>14. ASSUME NEW r \in Requests, NEW archive \in BOOLEAN, NEW recompute \in BOOLEAN,
              CommitResolution(r, archive, recompute)
       PROVE  DerivedInv' /\ NeverBack
  <2> DEFINE n == op[r].on
             all == Committed(n) \cup {op[r].draft}
  <2>1. Step(r, "resolve", "idle") /\ Done(r)
    BY <1>14 DEF CommitResolution, Write
  <2>2. CASE ~recompute
    BY <1>2, <1>14, <1>w, <2>1, <2>2 DEF CommitResolution
  <2>3. CASE recompute
    <3>1. DraftOK(r) /\ Write(r) /\ n \in Nodes
      BY <1>1, <1>2, <1>14 DEF CommitResolution, Step, DraftInv, Drafting, DraftOK
    <3>2. /\ Kept
          /\ \A m \in Nodes : Committed(m)' = IF m = n THEN Committed(m) \cup {op[r].draft}
                                              ELSE Committed(m)
      BY <1>1, <1>2, <3>1, WriteEffect
    <3>3. /\ trust' = [trust EXCEPT ![n] = Fold(n, all)]
          /\ counted' = [counted EXCEPT ![n] = all]
          /\ byHand' = byHand \ {n}
      BY <1>14, <2>3 DEF CommitResolution
    <3>4. all \in SUBSET DOMAIN journal[n] /\ \A m \in Nodes : m = n => Committed(m)' = all
      BY <3>1, <3>2 DEF DraftOK, Committed
    <3>5. \A m \in Nodes : counted[m] \in SUBSET DOMAIN journal[m]
      BY DEF DerivedInv, SeenInv, Committed
    <3>6. \A m \in Nodes : \A events \in SUBSET DOMAIN journal[m] :
            Fold(m, events)' = Fold(m, events)
      BY <3>2, FoldKept
    <3> HIDE DEF n, all
    <3>7. ASSUME NEW m \in Nodes PROVE counted[m] \subseteq counted'[m] /\ counted'[m] \subseteq Committed(m)'
      <4>1. CASE m = n
        BY <1>1, <3>2, <3>3, <3>4, <4>1 DEF DerivedInv, SeenInv, HistoryOK
      <4>2. CASE m # n
        BY <1>1, <3>2, <3>3, <4>2 DEF DerivedInv, SeenInv, HistoryOK
      <4> QED
        BY <4>1, <4>2
    <3>8. ASSUME NEW m \in Nodes \ byHand' PROVE trust'[m] = Fold(m, counted[m])'
      <4>1. CASE m = n
        <5>1. trust'[m] = Fold(n, all) /\ counted'[m] = all
          BY <1>1, <3>3, <4>1 DEF StoreOK, HistoryOK
        <5> QED
          BY <3>1, <3>4, <3>6, <4>1, <5>1
      <4>2. CASE m # n
        <5>1. trust'[m] = Fold(m, counted[m]) /\ counted'[m] = counted[m]
          BY <1>1, <3>3, <4>2 DEF StoreOK, HistoryOK, DerivedInv, TrustIsDerived
        <5> QED
          BY <3>5, <3>6, <5>1
      <4> QED
        BY <4>1, <4>2
    <3> QED
      BY <2>1, <3>7, <3>8, MoveStep DEF NeverBack
  <2> QED
    BY <2>2, <2>3
<1>15. ASSUME NEW r \in Requests, NEW weight,
              SetTrust(r, weight) PROVE DerivedInv' /\ NeverBack
  <2> DEFINE n == op[r].on
  <2>1. Step(r, "ruling", "idle") /\ Done(r)
    BY <1>15 DEF SetTrust, Write
  <2>2. /\ trust' = [trust EXCEPT ![n] = weight]
        /\ byHand' = byHand \cup {n} /\ counted' = counted
    BY <1>15 DEF SetTrust
  <2>3. Kept /\ \A m \in Nodes : Committed(m) \subseteq Committed(m)'
    BY JournalGrows
  <2>4. \A m \in Nodes : \A events \in SUBSET DOMAIN journal[m] :
            Fold(m, events)' = Fold(m, events)
    BY <2>3, FoldKept
  <2> HIDE DEF n
  <2>5. ASSUME NEW m \in Nodes \ byHand' PROVE trust'[m] = Fold(m, counted[m])'
    <3>1. trust'[m] = Fold(m, counted[m]) /\ counted'[m] = counted[m]
      BY <1>1, <2>2 DEF StoreOK, DerivedInv, TrustIsDerived
    <3>2. counted[m] \in SUBSET DOMAIN journal[m]
      BY DEF DerivedInv, SeenInv, Committed
    <3> QED
      BY <2>4, <3>1, <3>2
  <2>6. \A m \in Nodes : counted'[m] \subseteq Committed(m)'
    BY <2>2, <2>3 DEF DerivedInv, SeenInv
  <2> QED
    BY <1>4, <2>1, <2>2, <2>5, <2>6, MoveStep
<1>16. ASSUME NEW r \in Requests, NEW n \in Nodes, OpenReview(r, n)
       PROVE  DerivedInv' /\ NeverBack
  <2> DEFINE v == Doing(n, 0, [Nothing EXCEPT ![n] = Committed(n)])
  <2>1. \A m \in Nodes : v.cut[m] \subseteq Committed(m)
    BY <1>3 DEF Nothing
  <2>2. Step(r, "idle", "context") /\ Keep(r, v) /\ UNCHANGED <<trust, counted, byHand>>
    BY <1>16 DEF OpenReview, store, history
  <2> HIDE DEF v
  <2> QED
    BY <1>2, <1>6, <1>q, <2>1, <2>2
<1>17. ASSUME NEW r \in Requests, LookUp(r) PROVE DerivedInv' /\ NeverBack
  <2> DEFINE n == op[r].on
             hit == \E g \in cache : g.node = n /\ g.key = CacheKey(n)
             asks == [key |-> CacheKey(n), about |-> Newest(Committed(n) \ Of(n, {"verdict"}))]
             asked == [op[r] EXCEPT !.asks = asks]
             to == IF hit THEN "idle" ELSE "asking"
             v == IF hit THEN NoOp ELSE asked
  <2>1. Step(r, "context", to) /\ Keep(r, v) /\ UNCHANGED <<trust, counted, byHand>>
    BY <1>17 DEF LookUp, Done, store, history
  <2>2. to \in Quiet
    BY <1>6
  <2>3. asked.cut = op[r].cut
    BY <1>1, <1>2 DEF LocalOK, Op
  <2>4. \A m \in Nodes : v.cut[m] \subseteq Committed(m)
    BY <1>2, <1>3, <2>3 DEF DerivedInv, SeenInv
  <2> HIDE DEF to, v
  <2> QED
    BY <1>2, <1>q, <2>1, <2>2, <2>4
<1>18. ASSUME NEW r \in Requests, NEW n \in Nodes,
              ReadJournal(r, n) PROVE DerivedInv' /\ NeverBack
  <2> DEFINE v == Doing(n, 0, [Nothing EXCEPT ![n] = Committed(n)])
  <2>1. (\A m \in Nodes : v.cut[m] \subseteq Committed(m)) /\ v.on = n /\ v.cut[n] = Committed(n)
    BY <1>3 DEF Nothing
  <2>2. Step(r, "idle", "fold") /\ Keep(r, v) /\ UNCHANGED <<trust, counted, byHand>>
    BY <1>18 DEF ReadJournal, store, history
  <2> HIDE DEF v
  <2>3. "fold" \in Awaiting \cup Running
    BY DEF Running
  <2>4. pc'[r] = "fold" /\ op'[r] = v
    BY <1>1, <1>2, <2>2, <2>3, StepEffect DEF LocalOK, Keep
  <2>5. FoldOK(r)'
    BY <2>1, <2>2, <2>4 DEF FoldOK, DerivedInv, SeenInv
  <2> QED
    BY <1>2, <1>4, <2>1, <2>2, <2>3, <2>5, CalmStep
<1>19. ASSUME NEW r \in Requests, WriteTrust(r) PROVE DerivedInv' /\ NeverBack
  <2> DEFINE n == op[r].on
             cut == op[r].cut[n]
  <2>1. n \in Nodes /\ counted[n] \subseteq cut
    BY <1>1, <1>2, <1>19 DEF WriteTrust, Step, DraftInv, Placed, DerivedInv, FoldOK
  <2>2. cut \subseteq Committed(n)
    BY <1>2, <2>1 DEF DerivedInv, SeenInv
  <2>3. /\ Step(r, "fold", "idle") /\ Done(r) /\ journal' = journal
        /\ trust' = [trust EXCEPT ![n] = Fold(n, cut)]
        /\ counted' = [counted EXCEPT ![n] = cut]
        /\ byHand' = byHand \ {n}
    BY <1>19 DEF WriteTrust
  <2> HIDE DEF n, cut
  <2>4. \A m \in Nodes : counted[m] \subseteq counted'[m] /\ counted'[m] \subseteq Committed(m)
    BY <1>1, <2>1, <2>2, <2>3 DEF HistoryOK, DerivedInv, SeenInv
  <2>5. \A m \in Nodes \ byHand' : trust'[m] = Fold(m, counted'[m])
    BY <1>1, <2>1, <2>3 DEF StoreOK, HistoryOK, DerivedInv, TrustIsDerived
  <2>6. /\ \A m \in Nodes : Committed(m)' = Committed(m)
        /\ \A m \in Nodes : Fold(m, counted[m])' = Fold(m, counted'[m])
    BY <2>3 DEF Committed, Fold, Of
  <2> QED
    BY <2>3, <2>4, <2>5, <2>6, MoveStep DEF NeverBack
<1>20. ASSUME NEW r \in Requests, ReadJournals(r) PROVE DerivedInv' /\ NeverBack
  <2> DEFINE v == Doing(None, 0, [n \in Nodes |-> Committed(n)])
  <2>1. \A m \in Nodes : v.cut[m] = Committed(m)
    BY <1>3
  <2>2. Step(r, "idle", "weights") /\ Keep(r, v) /\ UNCHANGED <<trust, counted, byHand>>
    BY <1>20 DEF ReadJournals, store, history
  <2> HIDE DEF v
  <2>3. "weights" \in Awaiting \cup Running
    BY DEF Running
  <2>4. pc'[r] = "weights" /\ op'[r] = v
    BY <1>1, <1>2, <2>2, <2>3, StepEffect DEF LocalOK, Keep
  <2>5. FoldOK(r)'
    BY <2>1, <2>2, <2>4 DEF FoldOK, DerivedInv, SeenInv
  <2> QED
    BY <1>2, <1>4, <2>1, <2>2, <2>3, <2>5, CalmStep
<1>21. ASSUME NEW r \in Requests, ReadWeights(r) PROVE DerivedInv' /\ NeverBack
  <2> DEFINE v == [op[r] EXCEPT !.stored = trust]
  <2>1. v.cut = op[r].cut /\ v.stored = trust
    BY <1>1, <1>2 DEF LocalOK, Op
  <2>2. Step(r, "weights", "fold-all") /\ Keep(r, v) /\ UNCHANGED <<trust, counted, byHand>>
    BY <1>21 DEF ReadWeights, store, history
  <2> HIDE DEF v
  <2>3. "fold-all" \in Awaiting \cup Running
    BY DEF Running
  <2>4. pc[r] = "weights" /\ pc'[r] = "fold-all" /\ op'[r] = v
    BY <1>1, <1>2, <2>2, <2>3, StepEffect DEF LocalOK, Keep
  <2>5. FoldOK(r)'
    BY <2>1, <2>2, <2>4 DEF FoldOK, DerivedInv
  <2>6. \A m \in Nodes : v.cut[m] \subseteq Committed(m)
    BY <1>2, <2>1 DEF DerivedInv, SeenInv
  <2> QED
    BY <1>2, <1>4, <2>2, <2>3, <2>5, <2>6, CalmStep
<1>22. ASSUME NEW r \in Requests, WriteBehind(r) PROVE DerivedInv' /\ NeverBack
  <2> DEFINE cut == op[r].cut
             behind == {n \in Nodes : Fold(n, cut[n]) # op[r].stored[n]}
  <2>1. /\ \A n \in Nodes : counted[n] \subseteq cut[n] /\ cut[n] \subseteq Committed(n)
        /\ op[r].stored = trust
    BY <1>2, <1>22 DEF WriteBehind, Step, DerivedInv, FoldOK, SeenInv
  <2>2. /\ Step(r, "fold-all", "idle") /\ Done(r) /\ journal' = journal
        /\ trust' = [n \in Nodes |-> IF n \in behind THEN Fold(n, cut[n]) ELSE trust[n]]
        /\ counted' = cut
    BY <1>22 DEF WriteBehind
  <2>3. \A m \in Nodes : trust'[m] = Fold(m, cut[m])
    BY <2>1, <2>2
  <2> HIDE DEF cut, behind
  <2>4. /\ \A m \in Nodes : Committed(m)' = Committed(m)
        /\ \A m \in Nodes : Fold(m, counted[m])' = Fold(m, counted'[m])
    BY <2>2 DEF Committed, Fold, Of
  <2> QED
    BY <2>1, <2>2, <2>3, <2>4, MoveStep DEF NeverBack
<1>k. ASSUME UNCHANGED <<store, counted, byHand>>,
             \A x \in Actors : (pc'[x] = "idle" /\ op'[x] = NoOp) \/ (pc'[x] = pc[x] /\ op'[x] = op[x]),
             turn' = turn \/ \A r \in Requests : pc'[r] = "idle"
      PROVE  DerivedInv' /\ NeverBack
  <2>1. \A n \in Nodes : Committed(n)' = Committed(n)
    BY <1>k DEF store, Committed
  <2>2. SeenInv'
    <3>1. ASSUME NEW x \in Actors,
                 NEW n \in Nodes PROVE op'[x].cut[n] \subseteq Committed(n)
      BY <1>3, <1>k DEF DerivedInv, SeenInv
    <3> QED
      BY <1>k, <2>1, <3>1 DEF DerivedInv, SeenInv
  <2>3. TurnInv'
    BY <1>2, <1>k DEF DerivedInv, TurnInv, Running
  <2>4. \A r \in Requests : FoldOK(r)'
    BY <1>2, <1>k DEF DerivedInv, FoldOK, store
  <2>5. TrustIsDerived'
    BY <1>k DEF DerivedInv, TrustIsDerived, Fold, Of, store
  <2> QED
    BY <1>4, <1>k, <2>2, <2>3, <2>4, <2>5 DEF DerivedInv
<1>23. ASSUME NEW a \in Agents, Crash(a) PROVE DerivedInv' /\ NeverBack
  BY <1>1, <1>2, <1>23, <1>k DEF Crash, Done, Keep, LocalOK
<1>24. ASSUME Restart PROVE DerivedInv' /\ NeverBack
  BY <1>2, <1>24, <1>k DEF Restart
<1>25. ASSUME UNCHANGED vars PROVE DerivedInv' /\ NeverBack
  BY <1>25, <1>k DEF vars, store, local, history
<1> QED
  BY <1>7, <1>8, <1>9, <1>10, <1>11, <1>12, <1>13, <1>14, <1>15, <1>16, <1>17, <1>18,
     <1>19,
     <1>20, <1>21, <1>22, <1>23, <1>24, <1>25 DEF Next, Rule, Guide, RecomputeAll


\* Trust is the fold of the events it was last folded from, where only a GUI recomputes
\* (storage.py:815-824).
THEOREM TrustDerived ==
    ASSUME Scripts = {}
    PROVE  Spec => []TrustIsDerived
<1>1. Init => BaseInv /\ DerivedInv
  BY BaseStart, DerivedStart
<1>2. BaseInv /\ DerivedInv /\ [Next]_vars => (BaseInv /\ DerivedInv)'
  BY BaseStep, DerivedStep
<1>3. DerivedInv => TrustIsDerived
  BY DEF DerivedInv
<1> QED
  BY <1>1, <1>2, <1>3, PTL DEF Spec

\* A recompute never takes trust back to a state of the journal before one that was
\* counted already, where only a GUI recomputes (storage.py:817-819).
THEOREM NeverGoesBack ==
    ASSUME Scripts = {}
    PROVE  Spec => RecomputeNeverGoesBack
<1>1. Init => BaseInv /\ DerivedInv
  BY BaseStart, DerivedStart
<1>2. BaseInv /\ DerivedInv /\ [Next]_vars => (BaseInv /\ DerivedInv)'
  BY BaseStep, DerivedStep
<1>3. BaseInv /\ DerivedInv /\ [Next]_vars =>
        [\A n \in Nodes : counted[n] \subseteq counted'[n]]_vars
  BY DerivedStep DEF NeverBack
<1> QED
  BY <1>1, <1>2, <1>3, PTL DEF Spec, RecomputeNeverGoesBack

-----------------------------------------------------------------------------
(* The flood of verdicts.  A verdict is journaled about a state of the     *)
(* journal by a request that found nothing cached about it; those that are *)
(* asking while it does so may follow, and then the cache answers until a  *)
(* restart empties it.                                                     *)

Verdicts(n, key) == {i \in Of(n, {"verdict"}) : journal[n][i].about = key}
Asking(n, key)   == {r \in Requests : pc[r] = "asking" /\ op[r].on = n /\ op[r].asks.about = key}
Cached(n, key)   == \E g \in cache : g.node = n /\ g.key = key

\* With those that ask, verdicts are within the bound; not cached, within that of the
\* restarts before.
FloodOK(n, key) ==
    /\ Cardinality(Verdicts(n, key)) + Cardinality(Asking(n, key))
         <= Cardinality(Requests) * (1 + crashes)
    /\ ~Cached(n, key) => Cardinality(Verdicts(n, key)) <= Cardinality(Requests) * crashes

\* Who asks files the answer under what the verdict will be about.
FloodInv ==
    /\ \A r \in Requests : pc[r] = "asking" => op[r].asks.key = op[r].asks.about
    /\ \A n \in Nodes, key \in 0..MaxEvents : FloodOK(n, key)

\* The sets that are counted are finite.
LEMMA Sizes ==
    ASSUME BaseInv, NEW n \in Nodes, NEW key
    PROVE  /\ IsFiniteSet(Verdicts(n, key)) /\ IsFiniteSet(Asking(n, key))
           /\ Cardinality(Verdicts(n, key)) \in Nat
           /\ Cardinality(Asking(n, key)) \in Nat
           /\ Cardinality(Asking(n, key)) <= Cardinality(Requests)
           /\ Cardinality(Requests) \in Nat /\ crashes \in Nat
<1>1. IsFiniteSet(Requests) /\ Cardinality(Requests) \in Nat
  BY ReviewAssumption, FS_CardinalityType
<1>2. Asking(n, key) \in SUBSET Requests
  BY DEF Asking
<1>3. journal[n] \in Seq(Entry)
  BY TypeParts DEF BaseInv, StoreOK
<1>4. IsFiniteSet(DOMAIN journal[n])
  BY <1>3, FS_Interval
<1>5. Verdicts(n, key) \in SUBSET DOMAIN journal[n]
  BY DEF Verdicts, Of
<1>6. crashes \in Nat
  BY ReviewAssumption, TypeParts DEF BaseInv, HistoryOK
<1> QED
  BY <1>1, <1>2, <1>4, <1>5, <1>6, FS_Subset, FS_CardinalityType

\* The two bounds differ by the requests that can ask at once.
LEMMA Products ==
    \A R, c \in Nat : /\ R * (1 + c) = R * c + R
                      /\ R * c <= R * (c + 1) /\ R * c \in Nat
OBVIOUS

\* A step adds a verdict only where it stamps one.
LEMMA SameVerdicts ==
    ASSUME BaseInv, NEW n \in Nodes, NEW key,
           \/ \E x \in Actors, m \in Nodes, kind \in Kinds \ {"verdict"}, about \in 0..MaxEvents :
                Stamp(x, m, kind, about)
           \/ \E x \in Actors : DraftOK(x) /\ Write(x)
           \/ journal' = journal
    PROVE  Verdicts(n, key)' = Verdicts(n, key)
<1>1. StoreOK /\ LocalOK
  BY TypeParts DEF BaseInv
<1>2. ASSUME NEW x \in Actors, NEW m \in Nodes, NEW kind \in Kinds \ {"verdict"},
             NEW about \in 0..MaxEvents, Stamp(x, m, kind, about)
      PROVE  Verdicts(n, key)' = Verdicts(n, key)
  <2>1. /\ Kept
        /\ \A i \in DOMAIN journal'[n] : i \in DOMAIN journal[n] \/ (n = m /\ i = op'[x].draft)
        /\ journal'[m][op'[x].draft] = [kind |-> kind, about |-> about, committed |-> FALSE]
    BY <1>1, <1>2, StampEffect
  <2>2. journal'[m][op'[x].draft].kind # "verdict"
    BY <2>1
  <2> QED
    BY <2>1, <2>2 DEF Kept, Verdicts, Of
<1>3. ASSUME NEW x \in Actors, DraftOK(x), Write(x)
      PROVE  Verdicts(n, key)' = Verdicts(n, key)
  <2>1. Kept /\ DOMAIN journal'[n] = DOMAIN journal[n]
    BY <1>1, <1>3, WriteEffect
  <2> QED
    BY <2>1 DEF Kept, Verdicts, Of
<1>4. journal' = journal => Verdicts(n, key)' = Verdicts(n, key)
  BY DEF Verdicts, Of
<1> QED
  BY <1>2, <1>3, <1>4

\* No verdict more, and nobody more who asks.
LEMMA FloodCalm ==
    ASSUME BaseInv, BaseInv', FloodInv,
           \A n \in Nodes, key \in 0..MaxEvents : Verdicts(n, key)' = Verdicts(n, key),
           \A r \in Requests : pc'[r] = "asking" => pc[r] = "asking" /\ op'[r] = op[r],
           cache' = cache, crashes' = crashes \/ crashes' = crashes + 1
    PROVE  FloodInv'
<1>1. ASSUME NEW n \in Nodes, NEW key \in 0..MaxEvents PROVE FloodOK(n, key)'
  <2>1. Asking(n, key)' \in SUBSET Asking(n, key)
    BY DEF Asking
  <2>2. Cardinality(Asking(n, key)') <= Cardinality(Asking(n, key))
        /\ Cardinality(Asking(n, key)') \in Nat
    BY <2>1, Sizes, FS_Subset, FS_CardinalityType
  <2>3. Cardinality(Verdicts(n, key)') = Cardinality(Verdicts(n, key))
    OBVIOUS
  <2>4. Cached(n, key)' = Cached(n, key)
    BY DEF Cached
  <2>5. FloodOK(n, key)
    BY DEF FloodInv
  <2> DEFINE R == Cardinality(Requests)
  <2>6. R \in Nat /\ crashes \in Nat /\ R * crashes \in Nat /\ R * (1 + crashes) \in Nat
        /\ R * crashes <= R * crashes' /\ R * (1 + crashes) <= R * (1 + crashes')
    <3>1. R \in Nat /\ crashes \in Nat
      BY Sizes
    <3> HIDE DEF R
    <3> QED
      BY <3>1, Products
  <2>7. Cardinality(Verdicts(n, key)) \in Nat /\ Cardinality(Asking(n, key)) \in Nat
    BY Sizes
  <2> QED
    BY <2>2, <2>3, <2>4, <2>5, <2>6, <2>7 DEF FloodOK
<1> QED
  BY <1>1 DEF FloodInv


\* As captured, there is no verdict and nobody asks.
LEMMA FloodStart == Init => FloodInv
<1> SUFFICES ASSUME Init PROVE FloodInv
  OBVIOUS
<1>1. BaseInv
  BY BaseStart
<1>2. ASSUME NEW n \in Nodes, NEW key \in 0..MaxEvents PROVE FloodOK(n, key)
  <2>1. Verdicts(n, key) = {} /\ Asking(n, key) = {}
    BY DEF Init, Verdicts, Of, Asking, Actors
  <2> DEFINE R == Cardinality(Requests)
  <2>2. R \in Nat /\ crashes = 0
    BY <1>1, Sizes DEF Init
  <2> HIDE DEF R
  <2>3. R * crashes \in Nat /\ R * (1 + crashes) \in Nat
    BY <2>2, Products
  <2> QED
    BY <2>1, <2>3, FS_EmptySet DEF FloodOK, R
<1>3. \A r \in Requests : pc[r] # "asking"
  BY DEF Init, Actors
<1> QED
  BY <1>2, <1>3 DEF FloodInv

\* The bounds are kept by every step.
LEMMA FloodStep == BaseInv /\ FloodInv /\ [Next]_vars => FloodInv'
<1> SUFFICES ASSUME BaseInv, FloodInv, [Next]_vars PROVE FloodInv'
  OBVIOUS
<1>1. StoreOK /\ LocalOK /\ DraftInv /\ BaseInv'
  BY TypeParts, BaseStep DEF BaseInv
<1>2. Agents \subseteq Actors /\ Requests \subseteq Actors /\ Scripts \subseteq Actors
      /\ (Agents \cup Scripts) \cap Requests = {} /\ 0 \in 0..MaxEvents
  BY ReviewAssumption DEF Actors
<1>3. \A x \in Actors : /\ pc[x] \in Placed => op[x].on \in Nodes
                        /\ pc[x] \in Drafting => DraftOK(x)
  BY <1>1 DEF DraftInv
<1> DEFINE Same == \A n \in Nodes, key \in 0..MaxEvents : Verdicts(n, key)' = Verdicts(n, key)
<1>a. ASSUME NEW x \in Actors, NEW from, NEW to \in (Awaiting \cup Running) \ {"asking"},
             Step(x, from, to), NEW v, Keep(x, v), cache' = cache, crashes' = crashes, Same
      PROVE  FloodInv'
  <2>1. pc' = [pc EXCEPT ![x] = to] /\ op' = [op EXCEPT ![x] = v]
    BY <1>1, <1>a, StepEffect DEF Keep
  <2>2. \A r \in Requests : pc'[r] = "asking" => pc[r] = "asking" /\ op'[r] = op[r]
    BY <1>1, <1>2, <1>a, <2>1 DEF LocalOK
  <2> QED
    BY <1>1, <1>a, <2>2, FloodCalm
<1>b. journal' = journal => Same
  BY SameVerdicts
<1>s. ASSUME NEW x \in Actors, NEW from, NEW to \in Drafting, Step(x, from, to),
             NEW n \in Nodes,
             NEW kind \in Kinds \ {"verdict"}, Stamp(x, n, kind, 0), cache' = cache
      PROVE  FloodInv'
  <2>1. Same
    BY <1>2, <1>s, SameVerdicts
  <2>2. to \in (Awaiting \cup Running) \ {"asking"} /\ crashes' = crashes
        /\ Keep(x, Doing(n, Len(journal[n]) + 1, Nothing))
    BY <1>s DEF Drafting, Running, Stamp, history
  <2> HIDE DEF Same
  <2> QED
    BY <1>a, <1>s, <2>1, <2>2
<1>w. ASSUME NEW x \in Actors, NEW from \in Drafting, Step(x, from, "idle"), Write(x),
             crashes' = crashes
      PROVE  FloodInv'
  <2>1. DraftOK(x)
    BY <1>3, <1>w DEF Step
  <2>2. Same
    BY <1>w, <2>1, SameVerdicts
  <2> HIDE DEF Same
  <2> QED
    BY <1>a, <1>w, <2>2 DEF Write, Done, Awaiting
<1>q. ASSUME NEW x \in Actors, NEW from, NEW to \in (Awaiting \cup Running) \ {"asking"},
             Step(x, from, to), NEW v, Keep(x, v), journal' = journal, cache' = cache,
             crashes' = crashes
      PROVE  FloodInv'
  <2> HIDE DEF Same
  <2> QED
    BY <1>a, <1>b, <1>q
<1> HIDE DEF Same
<1>4. ASSUME NEW a \in Agents, NEW n \in Nodes, Look(a, n) PROVE FloodInv'
  BY <1>2, <1>4, <1>q DEF Look, store, history, Running
<1>5. ASSUME NEW a \in Agents, NEW kind \in Kinds, StampEvent(a, kind) PROVE FloodInv'
  <2>1. op[a].on \in Nodes
    BY <1>2, <1>3, <1>5 DEF StampEvent, Step, Placed
  <2> QED
    BY <1>2, <1>5, <1>s, <2>1 DEF StampEvent, Drafting
<1>6. ASSUME NEW a \in Agents, CommitEvent(a) PROVE FloodInv'
  BY <1>2, <1>6, <1>w DEF CommitEvent, Drafting, history
<1>7. ASSUME NEW r \in Requests, NEW n \in Nodes, BeginClear(r, n) \/ BeginRuling(r, n)
      PROVE  FloodInv'
  BY <1>2, <1>7, <1>s DEF BeginClear, BeginRuling, Drafting, Kinds
<1>8. ASSUME NEW r \in Requests, CommitClear(r) \/ CommitVerdict(r) PROVE FloodInv'
  BY <1>2, <1>8, <1>w DEF CommitClear, CommitVerdict, Drafting, history
<1>9. ASSUME NEW r \in Requests, Reject(r) \/ NoAnswer(r) \/ WriteTrust(r) PROVE FloodInv'
  BY <1>2, <1>9, <1>q DEF Reject, NoAnswer, WriteTrust, Done, store, history, Awaiting
<1>10. ASSUME NEW r \in Requests, NEW n \in Nodes,
              CheckFlagged(r, n) \/ OpenReview(r, n) \/ ReadJournal(r, n)
       PROVE  FloodInv'
  BY <1>2, <1>10, <1>q DEF CheckFlagged, OpenReview, ReadJournal, store, history,
     Awaiting, Running
<1>11. ASSUME NEW r \in Requests, NEW kind \in Kinds,
              BeginResolution(r, kind) PROVE FloodInv'
  <2>1. op[r].on \in Nodes
    BY <1>2, <1>3, <1>11 DEF BeginResolution, Step, Placed
  <2> QED
    BY <1>2, <1>11, <1>s, <2>1 DEF BeginResolution, Drafting, Kinds
<1>12. ASSUME NEW r \in Requests, NEW archive, NEW recompute,
              CommitResolution(r, archive, recompute)
       PROVE  FloodInv'
  BY <1>2, <1>12, <1>w DEF CommitResolution, Drafting
<1>13. ASSUME NEW r \in Requests, NEW value, SetTrust(r, value) \/ SetArchived(r, value)
       PROVE  FloodInv'
  BY <1>2, <1>13, <1>w DEF SetTrust, SetArchived, Drafting, history
<1>14. ASSUME NEW x \in Requests \cup Scripts, RecomputeAll(x) PROVE FloodInv'
  BY <1>2, <1>14, <1>q DEF RecomputeAll, ReadJournals, ReadWeights, WriteBehind, Done,
     store, history,
                           Awaiting, Running
<1>15. ASSUME NEW x \in Agents \cup Scripts, Crash(x) PROVE FloodInv'
  <2>1. \A r \in Requests : pc'[r] = pc[r] /\ op'[r] = op[r]
    BY <1>1, <1>2, <1>15 DEF Crash, Done, Keep, LocalOK
  <2>2. Same /\ cache' = cache /\ crashes' = crashes + 1
    BY <1>15, <1>b DEF Crash, store
  <2> QED
    BY <1>1, <2>1, <2>2, FloodCalm DEF Same
<1>16. ASSUME UNCHANGED vars PROVE FloodInv'
  <2>1. Same
    BY <1>16, <1>b DEF vars, store
  <2> QED
    BY <1>1, <1>16, <2>1, FloodCalm DEF Same, vars, local, history
\* A restart forgets what was cached, and who asked.
<1>17. ASSUME Restart PROVE FloodInv'
  <2>1. ASSUME NEW n \in Nodes, NEW key \in 0..MaxEvents PROVE FloodOK(n, key)'
    <3>1. Verdicts(n, key)' = Verdicts(n, key) /\ Asking(n, key)' = {} /\ crashes' = crashes + 1
      BY <1>2, <1>17, <1>b DEF Restart, store, Same, Asking
    <3> DEFINE R == Cardinality(Requests)
    <3>2. /\ R \in Nat /\ crashes \in Nat
          /\ Cardinality(Verdicts(n, key)) \in Nat /\ Cardinality(Asking(n, key)) \in Nat
          /\ Cardinality(Verdicts(n, key)) + Cardinality(Asking(n, key)) <= R * (1 + crashes)
      BY Sizes DEF FloodInv, FloodOK
    <3> HIDE DEF R
    <3>3. R * (1 + crashes) = R * crashes' /\ R * crashes' <= R * (1 + crashes')
          /\ R * crashes' \in Nat /\ R * (1 + crashes') \in Nat
      BY <3>1, <3>2, Products
    <3>4. Cardinality(Verdicts(n, key)') <= R * crashes'
      BY <3>1, <3>2, <3>3
    <3> QED
      BY <3>1, <3>2, <3>3, <3>4, FS_EmptySet DEF FloodOK, R
  <2>2. \A r \in Requests : pc'[r] # "asking"
    BY <1>2, <1>17 DEF Restart
  <2> QED
    BY <2>1, <2>2 DEF FloodInv
\* A request that finds nothing cached asks: they are at most all who ask about a state
\* that was not journaled about since the last restart.
<1>18. ASSUME NEW r \in Requests, LookUp(r) PROVE FloodInv'
  <2> DEFINE m == op[r].on
             hit == \E g \in cache : g.node = m /\ g.key = CacheKey(m)
             asks == [key |-> CacheKey(m), about |-> Newest(Committed(m) \ Of(m, {"verdict"}))]
             asked == [op[r] EXCEPT !.asks = asks]
  <2>1. journal' = journal /\ cache' = cache /\ crashes' = crashes
    BY <1>18 DEF LookUp, store, history
  <2>2. CASE hit
    <3>1. Step(r, "context", "idle") /\ Keep(r, NoOp)
      BY <1>18, <2>2 DEF LookUp, Done
    <3> QED
      BY <1>2, <1>q, <2>1, <3>1 DEF Awaiting
  <2>3. CASE ~hit
    <3>1. Step(r, "context", "asking") /\ Keep(r, asked)
      BY <1>18, <2>3 DEF LookUp
    <3>2. pc' = [pc EXCEPT ![r] = "asking"] /\ op' = [op EXCEPT ![r] = asked] /\ pc[r] = "context"
      BY <1>1, <1>2, <3>1, StepEffect DEF Keep, Awaiting
    <3>3. m \in Nodes /\ asks.key = asks.about /\ asks.key = CacheKey(m)
      BY <1>2, <1>3, <3>2 DEF Placed, CacheKey
    <3>4. asked.on = m /\ asked.asks = asks
      BY <1>1, <1>2 DEF LocalOK, Op
    <3>5. /\ pc'[r] = "asking" /\ op'[r] = asked
          /\ \A s \in Requests : s # r => pc'[s] = pc[s] /\ op'[s] = op[s]
      BY <1>1, <1>2, <3>2 DEF LocalOK
    <3> HIDE DEF asked, asks
    <3>6. \A s \in Requests : pc'[s] = "asking" => op'[s].asks.key = op'[s].asks.about
      BY <3>3, <3>4, <3>5 DEF FloodInv
    <3>7. ASSUME NEW n \in Nodes, NEW key \in 0..MaxEvents PROVE FloodOK(n, key)'
      <4> DEFINE R == Cardinality(Requests)
      <4>1. /\ R \in Nat /\ crashes \in Nat
            /\ Cardinality(Verdicts(n, key)) \in Nat /\ Cardinality(Asking(n, key)) \in Nat
            /\ IsFiniteSet(Asking(n, key)) /\ IsFiniteSet(Requests)
        BY ReviewAssumption, Sizes
      <4>2. Verdicts(n, key)' = Verdicts(n, key) /\ Cached(n, key)' = Cached(n, key)
        BY <1>b, <2>1 DEF Same, Cached
      <4>3. FloodOK(n, key)
        BY DEF FloodInv
      <4>4. CASE n = m /\ key = CacheKey(m)
        <5>1. ~Cached(n, key)
          BY <2>3, <4>4 DEF Cached
        <5>2. Asking(n, key)' \in SUBSET Requests
          BY DEF Asking
        <5>3. Cardinality(Asking(n, key)') <= R /\ Cardinality(Asking(n, key)') \in Nat
          BY <4>1, <5>2, FS_Subset, FS_CardinalityType
        <5>4. Cardinality(Verdicts(n, key)) <= R * crashes
          BY <4>3, <5>1 DEF FloodOK
        <5> HIDE DEF R
        <5>5. R * (1 + crashes) = R * crashes + R /\ R * crashes \in Nat
          BY <4>1, Products
        <5>6. Cardinality(Verdicts(n, key)) + Cardinality(Asking(n, key)') <= R * (1 + crashes)
          BY <4>1, <5>3, <5>4, <5>5
        <5> QED
          BY <2>1, <4>2, <5>4, <5>6 DEF FloodOK, R
      <4>5. CASE ~(n = m /\ key = CacheKey(m))
        <5>1. r \notin Asking(n, key)'
          BY <3>3, <3>4, <3>5, <4>5 DEF Asking
        <5>2. Asking(n, key)' \in SUBSET Asking(n, key)
          BY <3>5, <5>1 DEF Asking
        <5>3. Cardinality(Asking(n, key)') <= Cardinality(Asking(n, key))
              /\ Cardinality(Asking(n, key)') \in Nat
          BY <4>1, <5>2, FS_Subset, FS_CardinalityType
        <5> HIDE DEF R
        <5>4. R * (1 + crashes) \in Nat
          BY <4>1, Products
        <5> QED
          BY <2>1, <4>1, <4>2, <4>3, <5>3, <5>4 DEF FloodOK, R
      <4> QED
        BY <4>4, <4>5
    <3> QED
      BY <3>6, <3>7 DEF FloodInv
  <2> QED
    BY <2>2, <2>3
\* One asks less and one verdict is more; from now on the cache answers.
<1>19. ASSUME NEW r \in Requests, Answered(r) PROVE FloodInv'
  <2> DEFINE m == op[r].on
             k == op[r].asks.about
             d == op'[r].draft
             new == [node |-> m, key |-> k, seen |-> op[r].cut[m]]
             same == {g \in cache : g.node = m /\ g.key = k}
  <2>1. pc[r] = "asking" /\ m \in Nodes /\ k \in 0..MaxEvents /\ op[r].asks.key = k
    BY <1>1, <1>2, <1>3, <1>19 DEF Answered, Step, Placed, FloodInv, LocalOK, Op, Asks
  <2>2. Step(r, "asking", "verdict") /\ Stamp(r, m, "verdict", k)
    BY <1>19 DEF Answered
  <2>3. cache' = (cache \ same) \cup {new} /\ crashes' = crashes
    BY <1>19, <2>1 DEF Answered, Stamp, history
  <2>4. /\ Kept
        /\ \A n \in Nodes : \A i \in DOMAIN journal'[n] : i \in DOMAIN journal[n] \/ (n = m /\ i = d)
        /\ d \in DOMAIN journal'[m] /\ d \notin DOMAIN journal[m]
        /\ journal'[m][d] = [kind |-> "verdict", about |-> k, committed |-> FALSE]
        /\ op' = [op EXCEPT ![r] = op'[r]]
    BY <1>1, <1>2, <2>1, <2>2, StampEffect DEF Kinds
  <2>5. journal'[m][d].kind = "verdict" /\ journal'[m][d].about = k
    BY <2>4
  <2>6. pc' = [pc EXCEPT ![r] = "verdict"]
    BY <1>1, <1>2, <2>2, StepEffect DEF Running
  <2>7. /\ pc'[r] = "verdict"
        /\ \A s \in Requests : s # r => pc'[s] = pc[s] /\ op'[s] = op[s]
    BY <1>1, <1>2, <2>4, <2>6 DEF LocalOK
  <2>8. new.node = m /\ new.key = k
    OBVIOUS
  <2> HIDE DEF m, k, d, new
  <2>9. \A s \in Requests : pc'[s] = "asking" => op'[s].asks.key = op'[s].asks.about
    BY <2>7 DEF FloodInv
  <2>10. ASSUME NEW n \in Nodes, NEW key \in 0..MaxEvents PROVE FloodOK(n, key)'
    <3> DEFINE R == Cardinality(Requests)
    <3>1. /\ R \in Nat /\ crashes \in Nat
          /\ Cardinality(Verdicts(n, key)) \in Nat /\ Cardinality(Asking(n, key)) \in Nat
          /\ IsFiniteSet(Asking(n, key)) /\ IsFiniteSet(Verdicts(n, key))
      BY Sizes
    <3>2. FloodOK(n, key)
      BY DEF FloodInv
    <3>3. CASE n = m /\ key = k
      <4>1. Verdicts(n, key)' = Verdicts(n, key) \cup {d} /\ d \notin Verdicts(n, key)
        BY <2>4, <2>5, <3>3 DEF Kept, Verdicts, Of
      <4>2. Asking(n, key)' = Asking(n, key) \ {r} /\ r \in Asking(n, key)
        BY <2>1, <2>7, <3>3 DEF Asking, m, k
      <4>3. Cardinality(Verdicts(n, key)') = Cardinality(Verdicts(n, key)) + 1
        BY <3>1, <4>1, FS_AddElement
      <4>4. Cardinality(Asking(n, key)') = Cardinality(Asking(n, key)) - 1
        BY <3>1, <4>2, FS_RemoveElement
      <4>5. Cached(n, key)'
        BY <2>3, <2>8, <3>3 DEF Cached
      <4> HIDE DEF R
      <4>6. R * (1 + crashes) \in Nat
        BY <3>1, Products
      <4>7. Cardinality(Verdicts(n, key)') + Cardinality(Asking(n, key)')
              = Cardinality(Verdicts(n, key)) + Cardinality(Asking(n, key))
        BY <3>1, <4>3, <4>4
      <4> QED
        BY <2>3, <3>2, <4>5, <4>7 DEF FloodOK, R
    <3>4. CASE ~(n = m /\ key = k)
      <4>1. Verdicts(n, key)' = Verdicts(n, key)
        BY <2>4, <2>5, <3>4 DEF Kept, Verdicts, Of
      <4>2. Asking(n, key)' = Asking(n, key)
        BY <2>1, <2>7, <3>4 DEF Asking, m, k
      <4>3. Cached(n, key)' = Cached(n, key)
        BY <2>3, <2>8, <3>4 DEF Cached
      <4> QED
        BY <2>3, <3>2, <4>1, <4>2, <4>3 DEF FloodOK
    <3> QED
      BY <3>3, <3>4
  <2> QED
    BY <2>9, <2>10 DEF FloodInv
<1> QED
  BY <1>4, <1>5, <1>6, <1>7, <1>8, <1>9, <1>10, <1>11, <1>12, <1>13, <1>14, <1>15,
     <1>16, <1>17,
     <1>18, <1>19 DEF Next, Rule, Guide

\* A refreshed page cannot flood the journal (evaluator.py:178-180, 190-194).
THEOREM NoFlood == Spec => []RefreshCannotFlood
<1>1. Init => BaseInv /\ FloodInv
  BY BaseStart, FloodStart
<1>2. BaseInv /\ FloodInv /\ [Next]_vars => (BaseInv /\ FloodInv)'
  BY BaseStep, FloodStep
<1>3. BaseInv /\ FloodInv => RefreshCannotFlood
  <2> SUFFICES ASSUME BaseInv, FloodInv, NEW n \in Nodes, NEW key \in 0..MaxEvents
               PROVE  Cardinality(Verdicts(n, key)) <= Cardinality(Requests) * (1 + crashes)
    BY DEF RefreshCannotFlood, Verdicts
  <2> DEFINE R == Cardinality(Requests)
  <2>1. /\ R \in Nat /\ crashes \in Nat
        /\ Cardinality(Verdicts(n, key)) \in Nat /\ Cardinality(Asking(n, key)) \in Nat
        /\ Cardinality(Verdicts(n, key)) + Cardinality(Asking(n, key)) <= R * (1 + crashes)
    BY Sizes DEF FloodInv, FloodOK
  <2> HIDE DEF R
  <2>2. R * (1 + crashes) \in Nat
    BY <2>1, Products
  <2> QED
    BY <2>1, <2>2 DEF R
<1> QED
  BY <1>1, <1>2, <1>3, PTL DEF Spec
-----------------------------------------------------------------------------
(* Guidance: what is filed under an event was made in view of it, unless    *)
(* that event was journaled between the two reads of the journal.           *)

\* Nothing is journaled about a node between the two reads of a review of it.
ReadsAgree ==
    \A r \in Requests, n \in Nodes :
        pc[r] = "context" /\ op[r].on = n => Committed(n)' = Committed(n)

\* A review has read all there is when it reads again, and asks about what it saw.
SawInv ==
    /\ \A r \in Requests, n \in Nodes :
        pc[r] = "context" /\ op[r].on = n => op[r].cut[n] = Committed(n)
    /\ \A r \in Requests :
        pc[r] = "asking" /\ op[r].asks.key > 0 => op[r].asks.key \in op[r].cut[op[r].on]
    /\ GuidanceSawItsKey

\* How a step moves reviews: they are where they were, open, look up, or answer.
ReviewStep ==
    /\ \A r \in Requests :
        /\ pc'[r] = "context" =>
            (pc[r] = "context" /\ op'[r] = op[r]) \/ \E n \in Nodes : OpenReview(r, n)
        /\ pc'[r] = "asking" => (pc[r] = "asking" /\ op'[r] = op[r]) \/ LookUp(r)
    /\ cache' \subseteq cache \/ \E r \in Requests : Answered(r)

\* Every step moves them so.
LEMMA ReviewsMove == BaseInv /\ [Next]_vars => ReviewStep
<1> SUFFICES ASSUME BaseInv, [Next]_vars PROVE ReviewStep
  OBVIOUS
<1>1. LocalOK /\ StoreOK
  BY TypeParts DEF BaseInv
<1>2. Agents \subseteq Actors /\ Requests \subseteq Actors /\ Scripts \subseteq Actors
      /\ (Agents \cup Scripts) \cap Requests = {}
  BY ReviewAssumption DEF Actors
<1> DEFINE Same(r) == pc'[r] = pc[r] /\ op'[r] = op[r]
<1>a. ASSUME NEW x \in Actors, NEW from, NEW to \in Awaiting \cup Running,
             Step(x, from, to), NEW v, Keep(x, v)
      PROVE  /\ pc'[x] = to
             /\ \A r \in Actors : r # x => Same(r)
  BY <1>1, <1>a, StepEffect DEF Keep, LocalOK
<1>b. ASSUME NEW x \in Actors, NEW from,
             NEW to \in (Awaiting \cup Running) \ {"context", "asking"},
             Step(x, from, to), NEW v, Keep(x, v), cache' = cache
      PROVE  ReviewStep
  BY <1>2, <1>a, <1>b DEF ReviewStep
<1> HIDE DEF Same
<1>3. ASSUME NEW a \in Agents, NEW n \in Nodes, Look(a, n) PROVE ReviewStep
  BY <1>2, <1>3, <1>b DEF Look, Running
<1>4. ASSUME NEW a \in Agents, NEW kind \in Kinds, StampEvent(a, kind) PROVE ReviewStep
  BY <1>2, <1>4, <1>b DEF StampEvent, Stamp, Running
<1>5. ASSUME NEW a \in Agents, CommitEvent(a) PROVE ReviewStep
  BY <1>2, <1>5, <1>b DEF CommitEvent, Write, Done, Awaiting
<1>6. ASSUME NEW r \in Requests, NEW n \in Nodes, BeginClear(r, n) \/ BeginRuling(r, n)
      PROVE  ReviewStep
  <2>1. PICK to \in {"clear", "ruling"}, kind \in Kinds :
          Step(r, "idle", to) /\ Stamp(r, n, kind, 0) /\ cache' = cache
    BY <1>6 DEF BeginClear, BeginRuling, Kinds
  <2> QED
    BY <1>2, <1>b, <2>1 DEF Stamp, Running
<1>7. ASSUME NEW r \in Requests, NEW n \in Nodes, CheckFlagged(r, n) PROVE ReviewStep
  BY <1>2, <1>7, <1>b DEF CheckFlagged, Awaiting
<1>8. ASSUME NEW r \in Requests, CommitClear(r) \/ CommitVerdict(r) PROVE ReviewStep
  <2>1. PICK from \in {"clear", "verdict"} :
          Step(r, from, "idle") /\ Keep(r, NoOp) /\ cache' = cache
    BY <1>8 DEF CommitClear, CommitVerdict, Write, Done
  <2> QED
    BY <1>2, <1>b, <2>1 DEF Awaiting
<1>9. ASSUME NEW r \in Requests, Reject(r) \/ NoAnswer(r) PROVE ReviewStep
  <2>1. PICK from \in {"body", "asking"} :
          Step(r, from, "idle") /\ Keep(r, NoOp) /\ cache' = cache
    BY <1>9 DEF Reject, NoAnswer, Done
  <2> QED
    BY <1>2, <1>b, <2>1 DEF Awaiting
<1>10. ASSUME NEW r \in Requests, NEW kind \in Kinds,
              BeginResolution(r, kind) PROVE ReviewStep
  BY <1>2, <1>10, <1>b DEF BeginResolution, Stamp, Running
<1>11. ASSUME NEW r \in Requests, NEW archive \in BOOLEAN, NEW recompute \in BOOLEAN,
              CommitResolution(r, archive, recompute)
       PROVE  ReviewStep
  <2>1. Step(r, "resolve", "idle") /\ Keep(r, NoOp) /\ cache' = cache
    BY <1>11 DEF CommitResolution, Write, Done
  <2> QED
    BY <1>2, <1>b, <2>1 DEF Awaiting
<1>12. ASSUME NEW r \in Requests, NEW value, SetTrust(r, value) \/ SetArchived(r, value)
       PROVE  ReviewStep
  <2>1. Step(r, "ruling", "idle") /\ Keep(r, NoOp) /\ cache' = cache
    BY <1>12 DEF SetTrust, SetArchived, Write, Done
  <2> QED
    BY <1>2, <1>b, <2>1 DEF Awaiting
<1>13. ASSUME NEW r \in Requests, NEW n \in Nodes, OpenReview(r, n) PROVE ReviewStep
  <2>1. pc'[r] = "context" /\ (\A s \in Actors : s # r => Same(s)) /\ cache' = cache
    BY <1>2, <1>13, <1>a DEF OpenReview, Running
  <2> QED
    BY <1>2, <1>13, <2>1 DEF ReviewStep, Same
<1>14. ASSUME NEW r \in Requests, LookUp(r) PROVE ReviewStep
  <2>1. PICK to \in {"idle", "asking"} :
          Step(r, "context", to) /\ (\E v : Keep(r, v)) /\ cache' = cache
    BY <1>14 DEF LookUp, Done
  <2>2. pc'[r] = to /\ \A s \in Actors : s # r => Same(s)
    BY <1>2, <1>a, <2>1 DEF Awaiting
  <2> QED
    BY <1>2, <1>14, <2>1, <2>2 DEF ReviewStep, Same
<1>15. ASSUME NEW r \in Requests, Answered(r) PROVE ReviewStep
  <2>1. pc'[r] = "verdict" /\ \A s \in Actors : s # r => Same(s)
    BY <1>2, <1>15, <1>a DEF Answered, Stamp, Running
  <2> QED
    BY <1>2, <1>15, <2>1 DEF ReviewStep, Same
<1>16. ASSUME NEW r \in Requests, NEW n \in Nodes, ReadJournal(r, n) PROVE ReviewStep
  BY <1>2, <1>16, <1>b DEF ReadJournal, Running
<1>17. ASSUME NEW r \in Requests, WriteTrust(r) PROVE ReviewStep
  BY <1>2, <1>17, <1>b DEF WriteTrust, Done, Awaiting
<1>18. ASSUME NEW x \in Requests \cup Scripts, RecomputeAll(x) PROVE ReviewStep
  <2>1. PICK to \in {"weights", "fold-all", "idle"} :
          (\E from : Step(x, from, to)) /\ (\E v : Keep(x, v)) /\ cache' = cache
    BY <1>18 DEF RecomputeAll, ReadJournals, ReadWeights, WriteBehind, Done
  <2> QED
    BY <1>2, <1>b, <2>1 DEF Awaiting, Running
<1>19. ASSUME NEW x \in Agents \cup Scripts, Crash(x) PROVE ReviewStep
  BY <1>1, <1>2, <1>19 DEF Crash, Done, Keep, LocalOK, ReviewStep
<1>20. Restart => ReviewStep
  BY <1>2 DEF Restart, ReviewStep
<1>21. UNCHANGED vars => ReviewStep
  BY DEF vars, local, ReviewStep
<1> QED
  BY <1>3, <1>4, <1>5, <1>6, <1>7, <1>8, <1>9, <1>10, <1>11, <1>12, <1>13, <1>14, <1>15,
     <1>16,
     <1>17, <1>18, <1>19, <1>20, <1>21 DEF Next, Rule, Guide

\* Where the two reads agree, a review asks about what it saw.
LEMMA SawStep ==
    BaseInv /\ SawInv /\ [Next]_vars /\ (ReadsAgree \/ UNCHANGED vars) => SawInv'
<1> SUFFICES ASSUME BaseInv, SawInv, [Next]_vars, ReadsAgree \/ UNCHANGED vars
             PROVE  SawInv'
  OBVIOUS
<1>1. LocalOK /\ StoreOK /\ DraftInv /\ ReviewStep
  BY TypeParts, ReviewsMove DEF BaseInv
<1>2. Requests \subseteq Actors /\ 0 \in 0..MaxEvents
  BY ReviewAssumption DEF Actors
<1>3. ASSUME NEW r \in Requests, pc[r] = "context"
      PROVE  op[r].on \in Nodes /\ \A n \in Nodes : op[r].on = n => Committed(n)' = Committed(n)
  <2>1. op[r].on \in Nodes
    BY <1>1, <1>2, <1>3 DEF DraftInv, Placed
  <2>2. UNCHANGED vars => \A n : Committed(n)' = Committed(n)
    BY DEF vars, store, Committed
  <2> QED
    BY <1>3, <2>1, <2>2 DEF ReadsAgree
<1>4. ASSUME NEW r \in Requests, NEW n \in Nodes, pc'[r] = "context", op'[r].on = n
      PROVE  op'[r].cut[n] = Committed(n)'
  <2>1. CASE pc[r] = "context" /\ op'[r] = op[r]
    BY <1>3, <1>4, <2>1 DEF SawInv
  <2>2. ASSUME NEW m \in Nodes, OpenReview(r, m)
        PROVE  op'[r].cut[n] = Committed(n)'
    <3>1. op'[r] = Doing(m, 0, [Nothing EXCEPT ![m] = Committed(m)]) /\ journal' = journal
      BY <1>1, <1>2, <2>2 DEF OpenReview, Keep, LocalOK, store
    <3>2. m = n /\ op'[r].cut[n] = Committed(n)
      BY <1>1, <1>2, <1>4, <3>1, CutType DEF Doing
    <3>3. Committed(n)' = Committed(n)
      BY <3>1 DEF Committed
    <3> QED
      BY <3>2, <3>3
  <2> QED
    BY <1>1, <1>4, <2>1, <2>2 DEF ReviewStep
<1>5. ASSUME NEW r \in Requests, pc'[r] = "asking", op'[r].asks.key > 0
      PROVE  op'[r].asks.key \in op'[r].cut[op'[r].on]
  <2>1. CASE pc[r] = "asking" /\ op'[r] = op[r]
    BY <1>5, <2>1 DEF SawInv
  <2>2. CASE LookUp(r)
    <3> DEFINE n == op[r].on
               S == Committed(n) \ Of(n, {"verdict"})
    <3>1. pc[r] = "context" /\ n \in Nodes /\ op[r] \in Op
      BY <1>1, <1>2, <1>3, <2>2 DEF LookUp, Step, LocalOK
    <3>2. op'[r] = [op[r] EXCEPT !.asks =
                      [key |-> CacheKey(n), about |-> Newest(Committed(n) \ Of(n, {"verdict"}))]]
      BY <1>1, <1>2, <1>5, <2>2 DEF LookUp, Step, Done, Keep, LocalOK
    <3>3. op'[r].asks.key = CacheKey(n) /\ op'[r].on = n /\ op'[r].cut = op[r].cut
      BY <3>1, <3>2 DEF Op
    <3>4. S # {}
      BY <1>5, <3>3 DEF CacheKey, Newest
    <3>5. S \in SUBSET Places
      BY <1>1, <3>1, EventTypes
    <3>6. CacheKey(n) \in Committed(n)
      BY <3>4, <3>5, NewestExists DEF CacheKey
    <3>7. op[r].cut[n] = Committed(n)
      BY <3>1 DEF SawInv
    <3> QED
      BY <3>3, <3>6, <3>7
  <2> QED
    BY <1>1, <1>5, <2>1, <2>2 DEF ReviewStep
<1>6. GuidanceSawItsKey'
  <2>1. CASE cache' \subseteq cache
    BY <2>1 DEF SawInv, GuidanceSawItsKey
  <2>2. ASSUME NEW r \in Requests, Answered(r), NEW g \in cache' \ cache
        PROVE  g.key > 0 => g.key \in g.seen
    <3>1. g = [node |-> op[r].on, key |-> op[r].asks.key, seen |-> op[r].cut[op[r].on]]
      BY <2>2 DEF Answered
    <3>2. pc[r] = "asking"
      BY <2>2 DEF Answered, Step
    <3> QED
      BY <3>1, <3>2 DEF SawInv
  <2> QED
    BY <1>1, <2>1, <2>2 DEF ReviewStep, SawInv, GuidanceSawItsKey
<1> QED
  BY <1>4, <1>5, <1>6 DEF SawInv

\* Guidance is filed under an event it has seen, unless somebody journals about its
\* node between the two reads of the endpoint: where nobody does, no order of
\* answers, verdicts, rulings and restarts files one under an event it has not seen
\* (evaluator.py:162-165, gui_api.py:336-347).
THEOREM GuidanceSeesItsKey == Spec /\ [][ReadsAgree]_vars => []GuidanceSawItsKey
<1>1. Init => BaseInv /\ SawInv
  BY BaseStart DEF Init, SawInv, GuidanceSawItsKey, Actors
<1>2. BaseInv /\ [Next]_vars => BaseInv'
  BY BaseStep
<1>3. BaseInv /\ SawInv /\ [Next]_vars /\ [ReadsAgree]_vars => SawInv'
  BY SawStep
<1>4. SawInv => GuidanceSawItsKey
  BY DEF SawInv
<1> QED
  BY <1>1, <1>2, <1>3, <1>4, PTL DEF Spec
=============================================================================
