--------------------------- MODULE StoreLockProofs ---------------------------
(***************************************************************************)
(* Proofs about the store lock, for any number of processes and callers.   *)
(*                                                                         *)
(* The inductive invariant is IInv: the types, the agreement of registry   *)
(* and kernel with the callers that hold (RegistryAgrees), and Exclusion.  *)
(* The last two need each other: an exclusive attempt is refused by the    *)
(* counts and the flocks, which name real holders only because of          *)
(* RegistryAgrees; and the last exclusive holder may clear the whole flock *)
(* only because of Exclusion.                                              *)
(***************************************************************************)
EXTENDS StoreLock, FiniteSetTheorems, TLAPS

IInv == TypeOK /\ RegistryAgrees /\ Exclusion
-----------------------------------------------------------------------------
(* The sets of holders are finite, so their cardinalities are numbers.     *)
LEMMA HoldersFinite ==
    ASSUME NEW p, NEW mode
    PROVE  /\ IsFiniteSet(HoldersIn(p, mode))
           /\ Cardinality(HoldersIn(p, mode)) \in Nat
           /\ Cardinality(HoldersIn(p, mode)) = 0 <=> HoldersIn(p, mode) = {}
<1>1. HoldersIn(p, mode) \subseteq Callers
  BY DEF HoldersIn
<1>2. IsFiniteSet(HoldersIn(p, mode))
  BY <1>1, CallersAssumption, FS_Subset
<1>3. QED
  BY <1>2, FS_CardinalityType, FS_EmptySet

(* Moving one caller from one place to another changes the holders of its  *)
(* own process, and only in the modes it enters or leaves.                 *)
LEMMA HoldersAfterMove ==
    ASSUME TypeOK, NEW c \in Callers, NEW place,
           caller' = [caller EXCEPT ![c] = place],
           NEW p, NEW mode \in Modes
    PROVE  HoldersIn(p, mode)' = IF Home[c] = p /\ place = Holding(mode)
                                 THEN HoldersIn(p, mode) \cup {c}
                                 ELSE HoldersIn(p, mode) \ {c}
  BY DEF TypeOK, HoldersIn

(* A caller joining, or leaving, the holders moves their number by one.    *)
LEMMA CountJoin ==
    ASSUME NEW p, NEW mode, NEW c, c \notin HoldersIn(p, mode)
    PROVE  Cardinality(HoldersIn(p, mode) \cup {c}) = Cardinality(HoldersIn(p, mode)) + 1
  BY HoldersFinite, FS_AddElement

LEMMA CountLeave ==
    ASSUME NEW p, NEW mode, NEW c, c \in HoldersIn(p, mode)
    PROVE  /\ Cardinality(HoldersIn(p, mode) \ {c}) = Cardinality(HoldersIn(p, mode)) - 1
           /\ Cardinality(HoldersIn(p, mode)) > 0
<1>1. Cardinality(HoldersIn(p, mode) \ {c}) = Cardinality(HoldersIn(p, mode)) - 1
  BY HoldersFinite, FS_RemoveElement
<1>2. HoldersIn(p, mode) # {}
  OBVIOUS
<1>3. QED
  BY <1>1, <1>2, HoldersFinite
-----------------------------------------------------------------------------
(* What an attempt sees is what the callers hold, whatever their process.  *)
LEMMA RefusalMeansConflict ==
    ASSUME IInv
    PROVE  RefusedIffConflict
<1> SUFFICES ASSUME NEW p \in Processes
             PROVE  /\ Refused(p, "SH") <=> Excluding # {}
                    /\ Refused(p, "EX") <=> Excluding \cup Sharing # {}
  BY DEF RefusedIffConflict
<1>1. /\ registry[p].exclusive > 0 <=> HoldersIn(p, "EX") # {}
      /\ registry[p].shared > 0 <=> HoldersIn(p, "SH") # {}
      /\ Held(p) > 0 <=> HoldersIn(p, "EX") # {} \/ HoldersIn(p, "SH") # {}
  BY HoldersFinite DEF IInv, RegistryAgrees, TypeOK, PathLock, Held
<1>2. \A q \in Processes :
          /\ flock[q] = "EX" <=> HoldersIn(q, "EX") # {}
          /\ flock[q] = "none" <=> HoldersIn(q, "EX") = {} /\ HoldersIn(q, "SH") = {}
          /\ flock[q] \in {"SH", "EX", "none"}
  BY DEF IInv, RegistryAgrees
<1>3. /\ Excluding # {} <=> \E q \in Processes : HoldersIn(q, "EX") # {}
      /\ Sharing # {} <=> \E q \in Processes : HoldersIn(q, "SH") # {}
  BY CallersAssumption DEF Excluding, Sharing, HoldersIn, Holding
<1>4. HoldersIn(p, "SH") # {} => Excluding = {}
  BY DEF IInv, Exclusion, HoldersIn, Sharing, Holding
<1>5. Refused(p, "SH") <=> Excluding # {}
  BY <1>1, <1>2, <1>3, <1>4 DEF Refused, InProcessConflict, Rides, KernelGrants
<1>6. Refused(p, "EX") <=> Excluding \cup Sharing # {}
  BY <1>1, <1>2, <1>3 DEF Refused, InProcessConflict, Rides, KernelGrants
<1>7. QED
  BY <1>5, <1>6
-----------------------------------------------------------------------------
(* Acquiring: the caller was not refused, so nobody holds in conflict.     *)
LEMMA AcquireKeepsIInv ==
    ASSUME IInv, NEW c \in Callers, NEW mode \in Modes, Acquire(c, mode)
    PROVE  IInv'
<1> DEFINE p == Home[c]
<1>0. p \in Processes /\ registry[p] \in PathLock
  BY CallersAssumption DEF IInv, TypeOK
<1>1. TypeOK'
  BY <1>0 DEF IInv, TypeOK, Acquire, PathLock, Holding, Modes
<1>2. /\ mode = "EX" => Excluding = {} /\ Sharing = {}
      /\ mode = "SH" => Excluding = {}
  BY <1>0, RefusalMeansConflict DEF RefusedIffConflict, Acquire, Modes
<1>3. c \notin HoldersIn(p, mode)
  BY DEF Acquire, HoldersIn, Holding, Waiting, Modes
<1>4. ASSUME NEW q \in Processes, NEW m \in Modes
      PROVE  HoldersIn(q, m)' = IF p = q /\ mode = m THEN HoldersIn(q, m) \cup {c}
                                ELSE HoldersIn(q, m)
  <2>1. c \notin HoldersIn(q, m)
    BY DEF Acquire, HoldersIn, Holding, Waiting, Modes
  <2>2. Holding(mode) = Holding(m) <=> mode = m
    BY DEF Holding, Modes
  <2>3. caller' = [caller EXCEPT ![c] = Holding(mode)]
    BY DEF Acquire
  <2>4. HoldersIn(q, m)' = IF p = q /\ Holding(mode) = Holding(m)
                           THEN HoldersIn(q, m) \cup {c} ELSE HoldersIn(q, m) \ {c}
    BY <2>3, HoldersAfterMove DEF IInv
  <2>5. QED
    BY <2>1, <2>2, <2>4
<1>5. Exclusion'
  BY <1>2 DEF IInv, TypeOK, Exclusion, Excluding, Sharing, Acquire, Holding, Modes
<1>6. RegistryAgrees'
  <2> SUFFICES ASSUME NEW q \in Processes
               PROVE  /\ (registry[q].shared = Cardinality(HoldersIn(q, "SH")))'
                      /\ (registry[q].exclusive = Cardinality(HoldersIn(q, "EX")))'
                      /\ (registry[q].fd <=> Held(q) > 0)'
                      /\ (flock[q] = IF HoldersIn(q, "EX") # {} THEN "EX"
                           ELSE IF HoldersIn(q, "SH") # {} THEN "SH" ELSE "none")'
    BY DEF RegistryAgrees
  <2>1. CASE q # p
    BY <2>1, <1>0, <1>4 DEF IInv, RegistryAgrees, TypeOK, Acquire, Held, Modes
  <2>2. CASE q = p /\ mode = "SH"
    <3>1. HoldersIn(q, "EX") = {}
      BY <2>2, <1>2 DEF Excluding, HoldersIn, Holding
    <3>2. registry'[q].shared = registry[q].shared + 1 /\ registry'[q].exclusive = registry[q].exclusive
      BY <2>2, <1>0 DEF IInv, TypeOK, Acquire, PathLock
    <3>3. registry'[q].fd = TRUE
      BY <2>2, <1>0 DEF IInv, TypeOK, Acquire, PathLock
    <3>4. /\ HoldersIn(q, "SH")' = HoldersIn(q, "SH") \cup {c}
          /\ HoldersIn(q, "EX")' = HoldersIn(q, "EX")
      BY <2>2, <1>4 DEF Modes
    <3>5. Cardinality(HoldersIn(q, "SH"))' = Cardinality(HoldersIn(q, "SH")) + 1
      BY <2>2, <3>4, <1>3, CountJoin
    <3>6. registry[q].shared \in Nat /\ registry[q].exclusive \in Nat
      BY <2>2, <1>0 DEF PathLock
    <3>7. flock'[q] = "SH"
      BY <2>2, <3>1, <1>0, <3>6, HoldersFinite
      DEF IInv, TypeOK, RegistryAgrees, Acquire, Rides, Held
    <3>8. QED
      BY <3>1, <3>2, <3>3, <3>4, <3>5, <3>6, <3>7 DEF IInv, RegistryAgrees, Held
  <2>3. CASE q = p /\ mode = "EX"
    <3>1. HoldersIn(q, "EX") = {} /\ HoldersIn(q, "SH") = {}
      BY <2>3, <1>2 DEF Excluding, Sharing, HoldersIn, Holding
    <3>2. registry'[q].shared = registry[q].shared /\ registry'[q].exclusive = registry[q].exclusive + 1
      BY <2>3, <1>0 DEF IInv, TypeOK, Acquire, PathLock
    <3>3. registry'[q].fd = TRUE /\ flock'[q] = "EX"
      BY <2>3, <1>0 DEF IInv, TypeOK, Acquire, PathLock, Rides
    <3>4. /\ HoldersIn(q, "EX")' = HoldersIn(q, "EX") \cup {c}
          /\ HoldersIn(q, "SH")' = HoldersIn(q, "SH")
      BY <2>3, <1>4 DEF Modes
    <3>5. Cardinality(HoldersIn(q, "EX"))' = Cardinality(HoldersIn(q, "EX")) + 1
      BY <2>3, <3>4, <1>3, CountJoin
    <3>6. registry[q].shared \in Nat /\ registry[q].exclusive \in Nat
      BY <2>3, <1>0 DEF PathLock
    <3>7. HoldersIn(q, "EX")' # {}
      BY <3>4
    <3>8. Held(q)' > 0
      BY <3>2, <3>6 DEF Held
    <3>9. QED
      BY <3>2, <3>3, <3>4, <3>5, <3>7, <3>8 DEF IInv, RegistryAgrees
  <2>4. QED
    BY <2>1, <2>2, <2>3 DEF Modes
<1>7. QED
  BY <1>1, <1>5, <1>6 DEF IInv

(* A caller that moves between places where it holds nothing disturbs      *)
(* nothing, as long as registry and kernel stay as they were.              *)
LEMMA QuietMoveKeepsIInv ==
    ASSUME IInv, NEW c \in Callers,
           NEW place \in {"idle", "wantSH", "wantEX", "unlocked"},
           caller[c] \notin {"holdSH", "holdEX"},
           caller' = [caller EXCEPT ![c] = place],
           UNCHANGED <<registry, flock>>
    PROVE  IInv'
<1>1. TypeOK'
  BY DEF IInv, TypeOK
<1>2. ASSUME NEW q, NEW m \in Modes
      PROVE  HoldersIn(q, m)' = HoldersIn(q, m)
  <2>1. HoldersIn(q, m)' = HoldersIn(q, m) \ {c}
    BY HoldersAfterMove DEF IInv, Holding, Modes
  <2>2. c \notin HoldersIn(q, m)
    BY DEF HoldersIn, Holding, Modes
  <2>3. QED
    BY <2>1, <2>2
<1>3. RegistryAgrees'
  BY <1>2 DEF IInv, RegistryAgrees, Held, Modes
<1>4. Exclusion'
  BY DEF IInv, TypeOK, Exclusion, Sharing, Excluding
<1>5. QED
  BY <1>1, <1>3, <1>4 DEF IInv

(* An entry nobody holds through is no entry, so popping it is no change.  *)
LEMMA UnheldEntry ==
    ASSUME IInv, NEW p \in Processes, Held(p) = 0
    PROVE  registry[p] = NoEntry
  BY DEF IInv, TypeOK, RegistryAgrees, PathLock, NoEntry, Held

(* Releasing: the counts fall with the holders, and the descriptor goes    *)
(* with the last of them.                                                  *)
LEMMA ReleaseKeepsIInv ==
    ASSUME IInv, NEW c \in Callers, NEW mode \in Modes, Release(c, mode)
    PROVE  IInv'
<1> DEFINE p == Home[c]
<1>0. /\ p \in Processes
      /\ registry[p] \in PathLock
      /\ registry[p].shared \in Nat /\ registry[p].exclusive \in Nat
  BY CallersAssumption DEF IInv, TypeOK, PathLock
<1>1. c \in HoldersIn(p, mode)
  BY DEF Release, HoldersIn
<1>2. ASSUME NEW q \in Processes, NEW m \in Modes
      PROVE  HoldersIn(q, m)' = IF p = q /\ mode = m THEN HoldersIn(q, m) \ {c}
                                ELSE HoldersIn(q, m)
  <2>1. caller' = [caller EXCEPT ![c] = "idle"] /\ "idle" # Holding(m) /\ TypeOK
    BY DEF Release, Holding, IInv
  <2>2. HoldersIn(q, m)' = HoldersIn(q, m) \ {c}
    BY <2>1 DEF HoldersIn, TypeOK
  <2>3. c \in HoldersIn(q, m) => p = q /\ mode = m
    BY DEF Release, HoldersIn, Holding, Modes
  <2>4. QED
    BY <2>1, <2>2, <2>3
<1>3. TypeOK'
  BY <1>0 DEF IInv, TypeOK, Release, PathLock, NoEntry, Modes
<1>4. Exclusion'
  BY DEF IInv, TypeOK, Exclusion, Sharing, Excluding, Release
<1>5. RegistryAgrees'
  <2> SUFFICES ASSUME NEW q \in Processes
               PROVE  /\ (registry[q].shared = Cardinality(HoldersIn(q, "SH")))'
                      /\ (registry[q].exclusive = Cardinality(HoldersIn(q, "EX")))'
                      /\ (registry[q].fd <=> Held(q) > 0)'
                      /\ (flock[q] = IF HoldersIn(q, "EX") # {} THEN "EX"
                           ELSE IF HoldersIn(q, "SH") # {} THEN "SH" ELSE "none")'
    BY DEF RegistryAgrees
  <2>1. CASE q # p
    BY <2>1, <1>0, <1>2 DEF IInv, RegistryAgrees, TypeOK, Release, Held, Modes
  <2>2. CASE q = p /\ mode = "SH"
    <3>1. HoldersIn(q, "EX") = {} /\ HoldersIn(q, "EX")' = {}
      BY <2>2, <1>1, <1>2 DEF IInv, Exclusion, Sharing, Excluding, HoldersIn, Holding,
         Modes
    <3>2. /\ Cardinality(HoldersIn(q, "SH"))' = Cardinality(HoldersIn(q, "SH")) - 1
          /\ Cardinality(HoldersIn(q, "SH")) > 0
      BY <2>2, <1>1, <1>2, CountLeave DEF Modes
    <3>3. registry[q].exclusive = 0 /\ registry[q].shared > 0 /\ registry[q].fd = TRUE
      BY <3>1, <3>2, <2>2, <1>0, HoldersFinite DEF IInv, TypeOK, RegistryAgrees,
         PathLock, Held
    <3>4. CASE registry[q].shared = 1
      <4>1. HoldersIn(q, "SH")' = {}
        <5>1. Cardinality(HoldersIn(q, "SH") \ {c}) = 0
          BY <3>2, <3>4, <2>2, <1>2 DEF IInv, RegistryAgrees, Modes
        <5>2. IsFiniteSet(HoldersIn(q, "SH") \ {c})
          BY HoldersFinite, FS_RemoveElement
        <5>3. HoldersIn(q, "SH") \ {c} = {}
          BY <5>1, <5>2, FS_EmptySet
        <5>4. QED
          BY <5>3, <2>2, <1>2 DEF Modes
      <4>2. registry'[q] = NoEntry /\ flock'[q] = "none"
        BY <3>3, <3>4, <2>2, <1>0 DEF IInv, TypeOK, Release, PathLock
      <4>3. QED
        BY <4>1, <4>2, <3>1, FS_EmptySet DEF NoEntry, Held
    <3>5. CASE registry[q].shared > 1
      <4>1. registry'[q] = [registry[q] EXCEPT !.shared = @ - 1] /\ flock'[q] = flock[q]
        BY <3>3, <3>5, <2>2, <1>0 DEF IInv, TypeOK, Release, PathLock
      <4>2. /\ registry'[q].shared = registry[q].shared - 1
            /\ registry'[q].exclusive = 0
            /\ registry'[q].fd = TRUE
        BY <4>1, <3>3, <2>2, <1>0 DEF PathLock
      <4>3. HoldersIn(q, "SH")' # {}
        <5>1. Cardinality(HoldersIn(q, "SH") \ {c}) # 0
          <6>1. Cardinality(HoldersIn(q, "SH")) = registry[q].shared
            BY DEF IInv, RegistryAgrees
          <6>2. HoldersIn(q, "SH")' = HoldersIn(q, "SH") \ {c}
            BY <2>2, <1>2 DEF Modes
          <6>3. Cardinality(HoldersIn(q, "SH") \ {c}) = registry[q].shared - 1
            BY <6>1, <6>2, <3>2
          <6>4. QED
            BY <6>3, <3>5, <2>2, <1>0
        <5>2. HoldersIn(q, "SH") \ {c} # {}
          BY <5>1, FS_EmptySet
        <5>3. QED
          BY <5>2, <2>2, <1>2 DEF Modes
      <4>4. flock[q] = "SH"
        BY <3>1, <2>2, <1>1 DEF IInv, RegistryAgrees
      <4>5. registry'[q].shared = Cardinality(HoldersIn(q, "SH"))'
        BY <4>2, <3>2 DEF IInv, RegistryAgrees
      <4>6. registry'[q].exclusive = Cardinality(HoldersIn(q, "EX"))'
        BY <4>2, <3>1, FS_EmptySet
      <4>7. Held(q)' > 0
        BY <4>2, <3>5, <1>0, <2>2 DEF Held
      <4>8. QED
        BY <4>1, <4>2, <4>3, <4>4, <4>5, <4>6, <4>7, <3>1
    <3>6. QED
      BY <3>3, <3>4, <3>5, <1>0, <2>2
  <2>3. CASE q = p /\ mode = "EX"
    <3>1. /\ HoldersIn(q, "EX") = {c}
          /\ HoldersIn(q, "SH") = {} /\ HoldersIn(q, "SH")' = {} /\ HoldersIn(q, "EX")' = {}
      BY <2>3, <1>1, <1>2 DEF IInv, Exclusion, Sharing, Excluding, HoldersIn, Holding,
         Modes
    <3>2. registry[q].exclusive = 1 /\ registry[q].shared = 0
      <4>1. Cardinality({c}) = 1 /\ Cardinality({}) = 0
        BY FS_Singleton, FS_EmptySet
      <4>2. QED
        BY <3>1, <4>1 DEF IInv, RegistryAgrees
    <3>3. registry'[q] = NoEntry /\ flock'[q] = "none"
      BY <3>2, <2>3, <1>0 DEF IInv, TypeOK, Release, PathLock
    <3>4. QED
      BY <3>1, <3>3, FS_EmptySet DEF NoEntry, Held
  <2>4. QED
    BY <2>1, <2>2, <2>3 DEF Modes
<1>6. QED
  BY <1>3, <1>4, <1>5 DEF IInv

(* A process that dies takes its registry, its flock and its holders with  *)
(* it, and nothing of any other process.                                   *)
LEMMA DieKeepsIInv ==
    ASSUME IInv, NEW p \in Processes, Die(p)
    PROVE  IInv'
<1>1. TypeOK'
  BY DEF IInv, TypeOK, Die, PathLock, NoEntry
<1>2. Exclusion'
  BY DEF IInv, Exclusion, Sharing, Excluding, Die
<1>3. ASSUME NEW q \in Processes, NEW m \in Modes
      PROVE  HoldersIn(q, m)' = IF q = p THEN {} ELSE HoldersIn(q, m)
  BY DEF Die, HoldersIn, Holding, Modes
<1>4. RegistryAgrees'
  <2> SUFFICES ASSUME NEW q \in Processes
               PROVE  /\ (registry[q].shared = Cardinality(HoldersIn(q, "SH")))'
                      /\ (registry[q].exclusive = Cardinality(HoldersIn(q, "EX")))'
                      /\ (registry[q].fd <=> Held(q) > 0)'
                      /\ (flock[q] = IF HoldersIn(q, "EX") # {} THEN "EX"
                           ELSE IF HoldersIn(q, "SH") # {} THEN "SH" ELSE "none")'
    BY DEF RegistryAgrees
  <2>1. CASE q # p
    BY <2>1, <1>3 DEF IInv, RegistryAgrees, TypeOK, Die, Held, Modes
  <2>2. CASE q = p
    <3>1. registry'[q] = NoEntry /\ flock'[q] = "none"
      BY <2>2 DEF IInv, TypeOK, Die
    <3>2. HoldersIn(q, "SH")' = {} /\ HoldersIn(q, "EX")' = {}
      BY <2>2, <1>3 DEF Modes
    <3>3. QED
      BY <3>1, <3>2, FS_EmptySet DEF NoEntry, Held
  <2>3. QED
    BY <2>1, <2>2
<1>5. QED
  BY <1>1, <1>2, <1>4 DEF IInv
-----------------------------------------------------------------------------
(* IInv is an inductive invariant.                                         *)
LEMMA InitIInv == Init => IInv
<1> SUFFICES ASSUME Init PROVE IInv
  OBVIOUS
<1>1. TypeOK
  BY DEF Init, TypeOK, PathLock, NoEntry
<1>2. \A p \in Processes, m \in Modes : HoldersIn(p, m) = {}
  BY DEF Init, HoldersIn, Holding
<1>3. RegistryAgrees
  BY <1>2, FS_EmptySet DEF Init, RegistryAgrees, NoEntry, Held, Modes
<1>4. Exclusion
  BY DEF Init, Exclusion, Excluding
<1>5. QED
  BY <1>1, <1>3, <1>4 DEF IInv

LEMMA NextIInv == IInv /\ [Next]_vars => IInv'
<1> SUFFICES ASSUME IInv, [Next]_vars PROVE IInv'
  OBVIOUS
<1>1. ASSUME NEW c \in Callers, NEW mode \in Modes, Request(c, mode)
      PROVE  IInv'
  <2>1. /\ caller[c] \notin {"holdSH", "holdEX"}
        /\ Waiting(mode) \in {"idle", "wantSH", "wantEX", "unlocked"}
    BY <1>1 DEF Request, Waiting
  <2>2. QED
    BY <1>1, <2>1, QuietMoveKeepsIInv DEF Request
<1>2. ASSUME NEW c \in Callers, NEW mode \in Modes, Acquire(c, mode)
      PROVE  IInv'
  BY <1>2, AcquireKeepsIInv
<1>3. ASSUME NEW c \in Callers, NEW mode \in Modes, GiveUp(c, mode)
      PROVE  IInv'
  <2>1. caller[c] \notin {"holdSH", "holdEX"}
    BY <1>3 DEF GiveUp, Waiting
  <2>2. QED
    BY <1>3, <2>1, QuietMoveKeepsIInv DEF GiveUp
<1>4. ASSUME NEW c \in Callers, NEW mode \in Modes, Degrade(c, mode)
      PROVE  IInv'
  <2>1. caller[c] \notin {"holdSH", "holdEX"}
    BY <1>4 DEF Degrade, Waiting
  <2>2. Home[c] \in Processes
    BY CallersAssumption
  <2>3. Held(Home[c]) = 0
    <3>1. /\ registry[Home[c]].shared \in Nat
          /\ registry[Home[c]].exclusive \in Nat
      BY <2>2 DEF IInv, TypeOK, PathLock
    <3>2. QED
      BY <1>4, <3>1 DEF Degrade, InProcessConflict, Rides, Held, Modes
  <2>4. registry' = registry
    BY <1>4, <2>2, <2>3, UnheldEntry DEF Degrade, IInv, TypeOK
  <2>5. QED
    BY <1>4, <2>1, <2>4, QuietMoveKeepsIInv DEF Degrade
<1>5. ASSUME NEW c \in Callers, NEW mode \in Modes, Release(c, mode)
      PROVE  IInv'
  BY <1>5, ReleaseKeepsIInv
<1>6. ASSUME NEW c \in Callers, ReleaseNone(c)
      PROVE  IInv'
  BY <1>6, QuietMoveKeepsIInv DEF ReleaseNone
<1>7. ASSUME NEW p \in Processes, Die(p)
      PROVE  IInv'
  BY <1>7, DieKeepsIInv
<1>8. CASE UNCHANGED vars
  <2>1. TypeOK'
    BY <1>8 DEF vars, IInv, TypeOK
  <2>2. \A q, m : HoldersIn(q, m)' = HoldersIn(q, m)
    BY <1>8 DEF vars, HoldersIn
  <2>3. RegistryAgrees'
    BY <1>8, <2>2 DEF vars, IInv, RegistryAgrees, Held
  <2>4. Exclusion'
    BY <1>8 DEF vars, IInv, Exclusion, Sharing, Excluding
  <2>5. QED
    BY <2>1, <2>3, <2>4 DEF IInv
<1>9. QED
  BY <1>1, <1>2, <1>3, <1>4, <1>5, <1>6, <1>7, <1>8 DEF Next

THEOREM Invariance == Spec => []IInv
<1>1. QED
  BY InitIInv, NextIInv, PTL DEF Spec
-----------------------------------------------------------------------------
(* The theorems.                                                           *)

(* Every reachable state of the lock is well typed.                        *)
THEOREM TypeCorrect == Spec => []TypeOK
<1>1. IInv => TypeOK
  BY DEF IInv
<1>2. QED
  BY <1>1, Invariance, PTL

(* locking.py:19-20, for any number of processes and callers: whoever      *)
(* holds the store exclusive holds it alone.                               *)
THEOREM MutualExclusion == Spec => []Exclusion
<1>1. IInv => Exclusion
  BY DEF IInv
<1>2. QED
  BY <1>1, Invariance, PTL

(* The in-process counts and the kernel's flocks always name exactly the   *)
(* live holders.                                                           *)
THEOREM Agreement == Spec => []RegistryAgrees
<1>1. IInv => RegistryAgrees
  BY DEF IInv
<1>2. QED
  BY <1>1, Invariance, PTL

(* A request is turned away exactly when a live caller holds in conflict,  *)
(* whichever of the two mechanisms turned it away.                         *)
THEOREM HonestRefusal == Spec => []RefusedIffConflict
<1>1. IInv => RefusedIffConflict
  BY RefusalMeansConflict
<1>2. QED
  BY <1>1, Invariance, PTL

(* One step of the implementation is one step, or none, of the abstract    *)
(* lock.                                                                   *)
LEMMA StepRefines == IInv /\ [Next]_vars => [Abstract!LockNext]_(Abstract!lockVars)
<1> SUFFICES ASSUME IInv, [Next]_vars
             PROVE  Abstract!LockNext \/ UNCHANGED <<Sharing, Excluding>>
  BY DEF Abstract!lockVars
<1> USE DEF Sharing, Excluding
<1>1. ASSUME NEW c \in Callers, NEW mode \in Modes, Acquire(c, mode)
      PROVE  Abstract!LockNext
  <2>0. Home[c] \in Processes
    BY CallersAssumption
  <2>1. CASE mode = "SH"
    <3>1. Excluding = {} /\ c \notin Sharing
      BY <2>0, <2>1, <1>1, RefusalMeansConflict DEF RefusedIffConflict, Acquire, Waiting
    <3>2. Sharing' = Sharing \cup {c} /\ Excluding' = Excluding
      BY <2>1, <1>1 DEF IInv, TypeOK, Acquire, Waiting, Holding
    <3>3. Abstract!AcquireShared(c)
      BY <3>1, <3>2 DEF Abstract!AcquireShared, Abstract!CanShare, Abstract!holders
    <3>4. QED
      BY <3>3 DEF Abstract!LockNext
  <2>2. CASE mode = "EX"
    <3>1. Excluding = {} /\ Sharing = {}
      BY <2>0, <2>2, <1>1, RefusalMeansConflict DEF RefusedIffConflict, Acquire
    <3>2. Excluding' = Excluding \cup {c} /\ Sharing' = Sharing
      BY <2>2, <1>1 DEF IInv, TypeOK, Acquire, Waiting, Holding
    <3>3. Abstract!AcquireExclusive(c)
      BY <3>1, <3>2 DEF Abstract!AcquireExclusive, Abstract!CanExclude, Abstract!holders
    <3>4. QED
      BY <3>3 DEF Abstract!LockNext
  <2>3. QED
    BY <2>1, <2>2 DEF Modes
<1>2. ASSUME NEW c \in Callers, NEW mode \in Modes, Release(c, mode)
      PROVE  Abstract!LockNext
  <2>1. c \in Sharing \cup Excluding
    BY <1>2 DEF Release, Holding
  <2>2. Sharing' = Sharing \ {c} /\ Excluding' = Excluding \ {c}
    BY <1>2 DEF IInv, TypeOK, Release
  <2>3. Abstract!Drop({c})
    BY <2>1, <2>2 DEF Abstract!Drop, Abstract!holders
  <2>4. QED
    BY <2>3 DEF Abstract!LockNext
<1>3. ASSUME NEW p \in Processes, Die(p)
      PROVE  Abstract!LockNext \/ UNCHANGED <<Sharing, Excluding>>
  <2> DEFINE gone == {c \in Sharing \cup Excluding : Home[c] = p}
  <2>1. Sharing' = Sharing \ gone /\ Excluding' = Excluding \ gone
    BY <1>3 DEF Die
  <2>2. CASE gone = {}
    BY <2>1, <2>2
  <2>3. CASE gone # {}
    BY <2>1, <2>3 DEF Abstract!LockNext, Abstract!Drop, Abstract!holders
  <2>4. QED
    BY <2>2, <2>3
<1>4. ASSUME NEW c \in Callers, NEW mode \in Modes,
             Request(c, mode) \/ GiveUp(c, mode) \/ Degrade(c, mode) \/ ReleaseNone(c)
      PROVE  UNCHANGED <<Sharing, Excluding>>
  BY <1>4 DEF IInv, TypeOK, Request, GiveUp, Degrade, ReleaseNone, Waiting
<1>5. CASE UNCHANGED vars
  BY <1>5 DEF vars
<1>6. QED
  BY <1>1, <1>2, <1>3, <1>4, <1>5 DEF Next, Modes

(* locking.py implements the readers/writer lock that the rest of the      *)
(* system is written against.                                              *)
THEOREM Implementation == Spec => ImplementsRWLock
<1>1. Init => Abstract!LockInit
  BY DEF Init, Abstract!LockInit, Sharing, Excluding
<1>2. QED
  BY <1>1, StepRefines, Invariance, PTL DEF Spec, ImplementsRWLock, Abstract!LockSpec
=============================================================================
