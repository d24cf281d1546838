------------------------------- MODULE Review -------------------------------
(***************************************************************************)
(* The review of contradicted nodes: the event journal, the needs_review   *)
(* flag, the trust folded from the journal, and the evaluator's guidance,  *)
(* as agents journal, a GUI serves people and a script recomputes:         *)
(* storage.py, fold.py, evaluator.py and the review endpoints of           *)
(* gui_api.py.                                                             *)
(*                                                                         *)
(* A write is one transaction.  Its event is stamped (created_at) before   *)
(* the transaction gets the write lock, and everybody reads the journal in *)
(* the order of the stamps, so a journal is a sequence in that order and   *)
(* an entry of it is seen once it is committed.  A GUI is one event loop:  *)
(* its requests take turns, and give the turn away only where they await;  *)
(* other processes come in between any two statements.  Every event that   *)
(* counts has weight 1.0, so trust is 0 or 1.                              *)
(***************************************************************************)
EXTENDS Naturals, Integers, Sequences, FiniteSets

CONSTANTS Nodes,
          Agents,      \* processes that serve the agent surface
          Requests,    \* requests a GUI server handles at a time
          Scripts,     \* processes that run `recompute-trust`
          None,
          MaxEvents,   \* bound: entries in a node's journal
          MaxCrashes   \* bound: processes killed in a behaviour

Actors == Agents \cup Requests \cup Scripts
Kinds  == {"raised", "cleared", "confirmed", "verdict", "other"}

ASSUME ReviewAssumption ==
    /\ Agents \cap Requests = {} /\ Scripts \cap (Agents \cup Requests) = {}
    /\ IsFiniteSet(Requests)
    /\ None \notin Actors \cup Nodes
    /\ MaxEvents \in Nat /\ MaxCrashes \in Nat

VARIABLES journal,     \* per node, its events in the order of created_at
          flag,        \* needs_review
          archived,
          trust
store == <<journal, flag, archived, trust>>

VARIABLES pc,          \* per actor, the next step of the operation it is in
          op,          \* and what that operation has read or stamped
          turn,        \* the request that has the event loop, or None
          cache        \* the evaluator's guidance, by node and key
local == <<pc, op, turn, cache>>

VARIABLES counted,     \* history: the events a node's trust was folded from
          byHand,      \* history: the nodes whose trust was set since
          crashes
history == <<counted, byHand, crashes>>

vars == <<store, local, history>>

Places == 1..MaxEvents
Entry  == [kind : Kinds, about : 0..MaxEvents, committed : BOOLEAN]
Asks   == [key : 0..MaxEvents, about : 0..MaxEvents]
Op     == [on : Nodes \cup {None}, draft : 0..MaxEvents, cut : [Nodes -> SUBSET Places],
           stored : [Nodes -> 0..1], asks : Asks]

\* An operation on a node, with the place of an event it has stamped and the events
\* it has read.
Nothing == [n \in Nodes |-> {}]
Doing(n, draft, cut) ==
    [on |-> n, draft |-> draft, cut |-> cut, stored |-> [m \in Nodes |-> 0],
     asks |-> [key |-> 0, about |-> 0]]
NoOp == Doing(None, 0, Nothing)
Guidance == [node : Nodes, key : 0..MaxEvents, seen : SUBSET Places]

\* Where a request gives the event loop away, or has ended.
Awaiting == {"idle", "body", "asking"}
Running  == {"looked", "event", "clear", "resolve", "ruling", "context", "verdict",
             "fold", "weights", "fold-all"}

TypeOK ==
    /\ journal \in [Nodes -> Seq(Entry)]
    /\ \A n \in Nodes : Len(journal[n]) <= MaxEvents
    /\ flag \in [Nodes -> BOOLEAN]
    /\ archived \in [Nodes -> BOOLEAN]
    /\ trust \in [Nodes -> 0..1]
    /\ pc \in [Actors -> Awaiting \cup Running]
    /\ op \in [Actors -> Op]
    /\ turn \in Requests \cup {None}
    /\ cache \subseteq Guidance
    /\ counted \in [Nodes -> SUBSET Places]
    /\ byHand \subseteq Nodes
    /\ crashes \in 0..MaxCrashes

\* Nodes as they were captured.
Init ==
    /\ journal = [n \in Nodes |-> <<>>]
    /\ flag = [n \in Nodes |-> FALSE]
    /\ archived = [n \in Nodes |-> FALSE]
    /\ trust = [n \in Nodes |-> 1]
    /\ pc = [x \in Actors |-> "idle"]
    /\ op = [x \in Actors |-> NoOp]
    /\ turn = None /\ cache = {}
    /\ counted = [n \in Nodes |-> {}] /\ byHand = {} /\ crashes = 0
-----------------------------------------------------------------------------
(* Journal and fold.                                                       *)

\* What read_events returns.
Committed(n) == {i \in DOMAIN journal[n] : journal[n][i].committed}

Of(n, kinds) == {i \in DOMAIN journal[n] : journal[n][i].kind \in kinds}

MutNoCeiling(x) == IF x < 0 THEN 0 ELSE x

Clamp(x) == IF x > 1 THEN 1 ELSE IF x < 0 THEN 0 ELSE x

\* SumAndClampFold over some of a node's events.
Fold(n, events) ==
    Clamp(1 + Cardinality(events \cap Of(n, {"confirmed", "cleared"}))
            - Cardinality(events \cap Of(n, {"raised"})))

\* The newest of some events, 0 if there is none.
Newest(events) ==
    IF events = {} THEN 0 ELSE CHOOSE i \in events : \A j \in events : j <= i

MutKeyCountsVerdicts(n) == Newest(Committed(n))

\* _cache_key: the evaluator's own entries do not count.
CacheKey(n) == Newest(Committed(n) \ Of(n, {"verdict"}))

\* One step of an actor.  A request runs while no other has the event loop.
Step(x, from, to) ==
    /\ pc[x] = from
    /\ pc' = [pc EXCEPT ![x] = to]
    /\ IF x \in Requests
       THEN turn \in {None, x} /\ turn' = (IF to \in Awaiting THEN None ELSE x)
       ELSE UNCHANGED turn

\* The operation of x goes on with this; or it is over.
Keep(x, what) == op' = [op EXCEPT ![x] = what]
Done(x) == Keep(x, NoOp)

\* Stamp an event of node n, to be committed in the next step.
Stamp(x, n, kind, about) ==
    /\ Len(journal[n]) < MaxEvents
    /\ journal' = [journal EXCEPT ![n] =
                     Append(@, [kind |-> kind, about |-> about, committed |-> FALSE])]
    /\ Keep(x, Doing(n, Len(journal[n]) + 1, Nothing))
    /\ UNCHANGED <<flag, archived, trust, history>>

\* The transaction of x commits the event it stamped.
Write(x) ==
    /\ journal' = [journal EXCEPT ![op[x].on][op[x].draft].committed = TRUE]
    /\ Done(x)
    /\ UNCHANGED cache

\* The kind of the event x has stamped.
Drafted(x) == journal[op[x].on][op[x].draft].kind
-----------------------------------------------------------------------------
(* The agent surface.                                                      *)

\* _require_node
Look(a, n) ==
    /\ ~archived[n]
    /\ Step(a, "idle", "looked")
    /\ Keep(a, Doing(n, 0, Nothing))
    /\ UNCHANGED <<store, cache, history>>

\* _EVENT_MAP: only CONFIRMED and CONTRADICTED have a weight.  A CONTRADICTS edge, of
\* a link or a capture, journals what CONTRADICTED does.
StampEvent(a, kind) ==
    /\ kind \in {"raised", "confirmed", "other"}
    /\ Step(a, "looked", "event")
    /\ Stamp(a, op[a].on, kind, 0)
    /\ UNCHANGED cache

\* A contradiction raises the flag with its event.
CommitEvent(a) ==
    /\ Step(a, "event", "idle")
    /\ flag' = [flag EXCEPT ![op[a].on] = @ \/ Drafted(a) = "raised"]
    /\ Write(a)
    /\ UNCHANGED <<archived, trust, history>>
-----------------------------------------------------------------------------
(* The GUI: rulings.                                                       *)

\* clear_flag asks nothing of the node.
BeginClear(r, n) ==
    /\ Step(r, "idle", "clear")
    /\ Stamp(r, n, "cleared", 0)
    /\ UNCHANGED cache

\* clear_contradiction
CommitClear(r) ==
    /\ Step(r, "clear", "idle")
    /\ flag' = [flag EXCEPT ![op[r].on] = FALSE]
    /\ Write(r)
    /\ UNCHANGED <<archived, trust, history>>

\* review_resolve: the node must be flagged; then the request's body is awaited.
CheckFlagged(r, n) ==
    /\ flag[n]
    /\ Step(r, "idle", "body")
    /\ Keep(r, Doing(n, 0, Nothing))
    /\ UNCHANGED <<store, cache, history>>

\* A body that asks for nothing valid, or never comes.
Reject(r) ==
    /\ Step(r, "body", "idle")
    /\ Done(r)
    /\ UNCHANGED <<store, cache, history>>

\* resolve_review: one of its events, at most, counts; those beside it have the same
\* stamp and no weight.  "other" is a deferral.
BeginResolution(r, kind) ==
    /\ kind \in {"cleared", "other"}
    /\ Step(r, "body", "resolve")
    /\ Stamp(r, op[r].on, kind, 0)
    /\ UNCHANGED cache

MutDeferLowersFlag(r, archive, recompute) ==
    LET n == op[r].on
    IN
    /\ Step(r, "resolve", "idle")
    /\ archive => Drafted(r) = "cleared"
    /\ flag' = [flag EXCEPT ![n] = FALSE]
    /\ archived' = [archived EXCEPT ![n] = @ \/ archive]
    /\ UNCHANGED <<trust, counted, byHand>>
    /\ Write(r)
    /\ UNCHANGED crashes

MutFoldBeforeResolution(r, archive, recompute) ==
    LET n == op[r].on
    IN
    /\ Step(r, "resolve", "idle")
    /\ archive => Drafted(r) = "cleared"
    /\ flag' = [flag EXCEPT ![n] = @ /\ Drafted(r) # "cleared"]
    /\ archived' = [archived EXCEPT ![n] = @ \/ archive]
    /\ IF recompute
       THEN /\ trust' = [trust EXCEPT ![n] = Fold(n, Committed(n))]
            /\ counted' = [counted EXCEPT ![n] = Committed(n)]
            /\ byHand' = byHand \ {n}
       ELSE UNCHANGED <<trust, counted, byHand>>
    /\ Write(r)
    /\ UNCHANGED crashes

\* Its transaction, which may archive the node (superseded, wrong) and fold the
\* journal with the resolution in it.
CommitResolution(r, archive, recompute) ==
    LET n == op[r].on
        all == Committed(n) \cup {op[r].draft}
    IN
    /\ Step(r, "resolve", "idle")
    /\ archive => Drafted(r) = "cleared"
    /\ flag' = [flag EXCEPT ![n] = @ /\ Drafted(r) # "cleared"]
    /\ archived' = [archived EXCEPT ![n] = @ \/ archive]
    /\ IF recompute
       THEN /\ trust' = [trust EXCEPT ![n] = Fold(n, all)]
            /\ counted' = [counted EXCEPT ![n] = all]
            /\ byHand' = byHand \ {n}
       ELSE UNCHANGED <<trust, counted, byHand>>
    /\ Write(r)
    /\ UNCHANGED crashes

\* _journaled_update, of a weight, the archived flag, the body or the tier.
BeginRuling(r, n) ==
    /\ Step(r, "idle", "ruling")
    /\ Stamp(r, n, "other", 0)
    /\ UNCHANGED cache

SetTrust(r, weight) ==
    /\ Step(r, "ruling", "idle")
    /\ trust' = [trust EXCEPT ![op[r].on] = weight]
    /\ byHand' = byHand \cup {op[r].on}
    /\ Write(r)
    /\ UNCHANGED <<flag, archived, counted, crashes>>

SetArchived(r, value) ==
    /\ Step(r, "ruling", "idle")
    /\ archived' = [archived EXCEPT ![op[r].on] = value]
    /\ Write(r)
    /\ UNCHANGED <<flag, trust, history>>
-----------------------------------------------------------------------------
(* The GUI: guidance.                                                      *)

\* review_guidance: the node must be flagged, and _review_context reads its journal.
OpenReview(r, n) ==
    /\ flag[n]
    /\ Step(r, "idle", "context")
    /\ Keep(r, Doing(n, 0, [Nothing EXCEPT ![n] = Committed(n)]))
    /\ UNCHANGED <<store, cache, history>>

\* The journal is read again for the key; the evaluator looks in its cache, and asks
\* the model if it finds nothing.
LookUp(r) ==
    LET n == op[r].on
        hit == \E g \in cache : g.node = n /\ g.key = CacheKey(n)
    IN
    /\ Step(r, "context", IF hit THEN "idle" ELSE "asking")
    /\ IF hit THEN Done(r)
       ELSE Keep(r, [op[r] EXCEPT !.asks =
               [key |-> CacheKey(n),
                about |-> Newest(Committed(n) \ Of(n, {"verdict"}))]])
    /\ UNCHANGED <<store, cache, history>>

\* The answer is cached; a verdict, being new, is to be journaled.
Answered(r) ==
    LET same == {g \in cache : g.node = op[r].on /\ g.key = op[r].asks.key}
    IN
    /\ Step(r, "asking", "verdict")
    /\ cache' = (cache \ same) \cup
                  {[node |-> op[r].on, key |-> op[r].asks.key, seen |-> op[r].cut[op[r].on]]}
    /\ Stamp(r, op[r].on, "verdict", op[r].asks.about)

\* No answer, or none that parses: the template, which is neither cached nor journaled.
NoAnswer(r) ==
    /\ Step(r, "asking", "idle")
    /\ Done(r)
    /\ UNCHANGED <<store, cache, history>>

CommitVerdict(r) ==
    /\ Step(r, "verdict", "idle")
    /\ Write(r)
    /\ UNCHANGED <<flag, archived, trust, history>>
-----------------------------------------------------------------------------
(* Trust.                                                                  *)

MutReadThenAwait(r, n) ==
    /\ r \in Requests /\ turn = None
    /\ pc[r] = "idle"
    /\ pc' = [pc EXCEPT ![r] = "fold"]
    /\ UNCHANGED turn
    /\ Keep(r, Doing(n, 0, [Nothing EXCEPT ![n] = Committed(n)]))
    /\ UNCHANGED <<store, cache, history>>

\* recompute_trust reads the journal,
ReadJournal(r, n) ==
    /\ Step(r, "idle", "fold")
    /\ Keep(r, Doing(n, 0, [Nothing EXCEPT ![n] = Committed(n)]))
    /\ UNCHANGED <<store, cache, history>>

\* and writes its fold.
WriteTrust(r) ==
    LET n == op[r].on
    IN
    /\ Step(r, "fold", "idle")
    /\ trust' = [trust EXCEPT ![n] = Fold(n, op[r].cut[n])]
    /\ counted' = [counted EXCEPT ![n] = op[r].cut[n]]
    /\ byHand' = byHand \ {n}
    /\ Done(r)
    /\ UNCHANGED <<journal, flag, archived, cache, crashes>>

\* recompute_all_trust reads every journal,
ReadJournals(x) ==
    /\ Step(x, "idle", "weights")
    /\ Keep(x, Doing(None, 0, [n \in Nodes |-> Committed(n)]))
    /\ UNCHANGED <<store, cache, history>>

\* then every stored weight,
ReadWeights(x) ==
    /\ Step(x, "weights", "fold-all")
    /\ Keep(x, [op[x] EXCEPT !.stored = trust])
    /\ UNCHANGED <<store, cache, history>>

MutWriteOnlyLosses(x) ==
    LET behind == {n \in Nodes : Fold(n, op[x].cut[n]) < op[x].stored[n]}
    IN
    /\ Step(x, "fold-all", "idle")
    /\ trust' = [n \in Nodes |-> IF n \in behind THEN Fold(n, op[x].cut[n]) ELSE trust[n]]
    /\ counted' = op[x].cut
    /\ byHand' = {}
    /\ Done(x)
    /\ UNCHANGED <<journal, flag, archived, cache, crashes>>

\* and writes those that were behind.
WriteBehind(x) ==
    LET behind == {n \in Nodes : Fold(n, op[x].cut[n]) # op[x].stored[n]}
    IN
    /\ Step(x, "fold-all", "idle")
    /\ trust' = [n \in Nodes |-> IF n \in behind THEN Fold(n, op[x].cut[n]) ELSE trust[n]]
    /\ counted' = op[x].cut
    /\ byHand' = {}
    /\ Done(x)
    /\ UNCHANGED <<journal, flag, archived, cache, crashes>>
-----------------------------------------------------------------------------
\* An agent's process or a script is killed; what it stamped is never committed.
Crash(x) ==
    /\ pc[x] # "idle" /\ crashes < MaxCrashes
    /\ crashes' = crashes + 1
    /\ pc' = [pc EXCEPT ![x] = "idle"]
    /\ Done(x)
    /\ UNCHANGED <<store, turn, cache, counted, byHand>>

\* The GUI server is restarted, with an empty cache.
Restart ==
    /\ crashes < MaxCrashes
    /\ crashes' = crashes + 1
    /\ pc' = [x \in Actors |-> IF x \in Requests THEN "idle" ELSE pc[x]]
    /\ op' = [x \in Actors |-> IF x \in Requests THEN NoOp ELSE op[x]]
    /\ turn' = None /\ cache' = {}
    /\ UNCHANGED <<store, counted, byHand>>

Rule(r) ==
    \/ \E n \in Nodes : BeginClear(r, n) \/ CheckFlagged(r, n) \/ BeginRuling(r, n)
    \/ CommitClear(r) \/ Reject(r)
    \/ \E kind \in Kinds : BeginResolution(r, kind)
    \/ \E archive, recompute \in BOOLEAN : CommitResolution(r, archive, recompute)
    \/ \E weight \in 0..1 : SetTrust(r, weight)
    \/ \E value \in BOOLEAN : SetArchived(r, value)

Guide(r) ==
    \/ \E n \in Nodes : OpenReview(r, n)
    \/ LookUp(r) \/ Answered(r) \/ NoAnswer(r) \/ CommitVerdict(r)

RecomputeAll(x) == ReadJournals(x) \/ ReadWeights(x) \/ WriteBehind(x)

Next ==
    \/ \E a \in Agents :
        \/ \E n \in Nodes : Look(a, n)
        \/ \E kind \in Kinds : StampEvent(a, kind)
        \/ CommitEvent(a)
    \/ \E r \in Requests :
        \/ Rule(r)
        \/ Guide(r)
        \/ \E n \in Nodes : ReadJournal(r, n)
        \/ WriteTrust(r)
    \/ \E x \in Requests \cup Scripts : RecomputeAll(x)
    \/ \E x \in Agents \cup Scripts : Crash(x)
    \/ Restart

Spec == Init /\ [][Next]_vars
-----------------------------------------------------------------------------
(* Properties.                                                             *)

\* Flag and journal move together: a contradiction that is journaled raises the
\* flag, a clearance lowers it, and nothing else does; a deferred node stays in the
\* queue (storage.py:482-486, 627-628, 677-678).
FlagFollowsJournal ==
    [][ \A n \in Nodes :
          LET new(kind) == \E i \in Committed(n)' \ Committed(n) : journal'[n][i].kind = kind
          IN  /\ new("raised") => flag'[n]
              /\ new("cleared") => ~flag'[n]
              /\ flag'[n] # flag[n] => new("raised") \/ new("cleared")
      ]_vars

\* Trust is derived: unless it was set by hand since, it is the fold of the events it
\* is said to be folded from, also where a recompute left the stored value as it was
\* (storage.py:815-824).
TrustIsDerived ==
    \A n \in Nodes \ byHand : trust[n] = Fold(n, counted[n])

\* A recompute catches trust up with the journal: it never takes it back to a state
\* of the journal before one that was counted already (storage.py:817-819).
RecomputeNeverGoesBack ==
    [][ \A n \in Nodes : counted[n] \subseteq counted'[n] ]_vars

\* A resolution that recomputes folds the journal it leaves: the resolution, and what
\* agents journaled until then (storage.py:679-680).
ResolutionFoldsEverything ==
    [][ \A r \in Requests, n \in Nodes :
          pc[r] = "resolve" /\ pc'[r] = "idle" /\ counted'[n] # counted[n]
              => counted'[n] = Committed(n)' ]_vars

\* However often a page is refreshed, the evaluator journals about one state of a
\* node's journal no more verdicts than requests can be under way at once, afresh
\* with every restart (evaluator.py:178-180, 190-194).
RefreshCannotFlood ==
    \A n \in Nodes, key \in 0..MaxEvents :
        Cardinality({i \in Of(n, {"verdict"}) : journal[n][i].about = key})
            <= Cardinality(Requests) * (1 + crashes)

\* A guidance in the cache was made in view of the event it is filed under
\* (evaluator.py:162-165).
GuidanceSawItsKey ==
    \A g \in cache : g.key > 0 => g.key \in g.seen
=============================================================================
