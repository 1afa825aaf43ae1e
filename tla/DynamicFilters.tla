---------------------------- MODULE DynamicFilters ----------------------------
(***************************************************************************)
(* Dynamic filters of a scan served over HTTP (protocol.py).  Whichever     *)
(* worker answers a turn has the filters only for that turn: the stream's   *)
(* sealed cursor carries the deltas that still matter and the predicate     *)
(* order, and the next turn's worker rebuilds the filters by replaying      *)
(* them over the snapshot of the init call.  The history is compacted at    *)
(* every delta, so replay meets deltas without the ones they came after.    *)
(***************************************************************************)
EXTENDS Integers, FiniteSets, SequencesExt

CONSTANTS Ids, Documents, MaxPredicates, MaxPredicateIds, MaxNodes, MaxDeltas

\* What the parser refuses in any state, a repeated identifier or a negative
\* revision, is not a document; a removal has no expression.
ASSUME FilterAssumption ==
    /\ MaxPredicates \in Nat /\ MaxPredicateIds \in Nat /\ MaxNodes \in Nat /\ MaxDeltas \in Nat
    /\ \A updates \in Documents :
        /\ \A k \in DOMAIN updates :
            /\ updates[k] \in [op : {"upsert", "remove"}, id : Ids, revision : Nat, nodes : Nat,
                               fault : {"none", "malformed", "does not bind"}]
            /\ updates[k].op = "remove" => updates[k].nodes = 0 /\ updates[k].fault = "none"
        /\ \A j, k \in DOMAIN updates : updates[j].id = updates[k].id => j = k

VARIABLES snapshot,   \* the init call's filters, carried by the call token
          filters,    \* _pushdown_filters of the worker serving the stream
          history,    \* cursor: _filter_delta_history, of [number, updates]
          order,      \* cursor: _filter_predicate_order
          sent,       \* the deltas the client has sent, in order
          status      \* "open", "refused" a delta, or "lost" its filters at a turn

vars == <<snapshot, filters, history, order, sent, status>>

F == INSTANCE FilterState WITH state <- filters

Init ==
    /\ snapshot \in F!Snapshots
    /\ filters = snapshot
    /\ history = <<>> /\ order = <<>>
    /\ sent = <<>>
    /\ status = "open"

-----------------------------------------------------------------------------
\* The (id, revision) of every update a delta carries, stale ones included.
delta_revisions(delta) ==
    {<<delta.updates[k].id, delta.updates[k].revision>> : k \in DOMAIN delta.updates}

\* Every identifier seen with its last revision, removed ones included.
RevisionMap(s) == {<<i, s.revisions[i]>> : i \in F!Known(s)}

\* (mutation) every delta is carried.
Everything(deltas, wanted) == deltas

\* The first delta that carries each wanted revision, in order of arrival.
Compacted(deltas, wanted) ==
    FoldLeft(LAMBDA acc, delta :
                LET carried == delta_revisions(delta) \cap acc.wanted
                IN  IF carried = {} THEN acc
                    ELSE [kept |-> Append(acc.kept, delta), wanted |-> acc.wanted \ carried],
             [kept |-> <<>>, wanted |-> wanted], deltas).kept

\* A tick carries a delta: apply it, then compact what the cursor carries.
RecordFilterDelta(updates) ==
    /\ status = "open" /\ Len(sent) < MaxDeltas
    /\ F!Accepts(filters, updates)
    /\ sent' = Append(sent, updates)
    /\ filters' = F!Applied(filters, updates, Len(sent'))
    /\ history' = Compacted(Append(history, [number |-> Len(sent'), updates |-> updates]),
                            RevisionMap(filters'))
    /\ order' = [k \in DOMAIN filters'.predicates |-> filters'.predicates[k].id]
    /\ UNCHANGED <<snapshot, status>>

\* A delta that is refused ends the scan; nothing of it is applied.
RefuseDelta(updates) ==
    /\ status = "open" /\ Len(sent) < MaxDeltas
    /\ ~F!Accepts(filters, updates)
    /\ sent' = Append(sent, updates)
    /\ status' = "refused"
    /\ UNCHANGED <<snapshot, filters, history, order>>

-----------------------------------------------------------------------------
\* (mutation) replay binds the expressions again.
Rebound ==
    FoldLeft(LAMBDA acc, delta :
                IF acc.ok /\ F!Accepts(acc.state, delta.updates)
                THEN [acc EXCEPT !.state = F!Applied(@, delta.updates, delta.number)]
                ELSE [acc EXCEPT !.ok = FALSE],
             [ok |-> TRUE, state |-> snapshot], history)

\* Replay over the snapshot: every delta is parsed again, its applicable
\* updates being those of the state it meets now, but nothing is bound.
Replayed ==
    FoldLeft(LAMBDA acc, delta :
                IF acc.ok /\ F!Parses(acc.state, delta.updates)
                THEN [acc EXCEPT !.state = F!Applied(@, delta.updates, delta.number)]
                ELSE [acc EXCEPT !.ok = FALSE],
             [ok |-> TRUE, state |-> snapshot], history)

\* (mutation) the recorded order is not restored.
AsReplayed(s, ids) == s

\* The live predicates in the order the cursor recorded.
Reordered(s, ids) ==
    [s EXCEPT !.predicates =
        [k \in DOMAIN ids |-> CHOOSE p \in ToSet(s.predicates) : p.id = ids[k]]]

\* Replay succeeds, and the recorded order names exactly the live predicates.
Replays == Replayed.ok /\ (history # <<>> => ToSet(order) = F!IdsOf(Replayed.state.predicates))

\* The next turn lands on a worker that has nothing but the cursor; a history
\* it cannot replay ends the scan.
Rehydrate ==
    /\ status = "open"
    /\ IF Replays
       THEN /\ filters' = IF history = <<>> THEN Replayed.state ELSE Reordered(Replayed.state, order)
            /\ UNCHANGED status
       ELSE status' = "lost" /\ UNCHANGED filters
    /\ UNCHANGED <<snapshot, history, order, sent>>

Next ==
    \/ \E updates \in Documents : RecordFilterDelta(updates) \/ RefuseDelta(updates)
    \/ Rehydrate

Spec == Init /\ [][Next]_vars

-----------------------------------------------------------------------------
\* A turn's worker, rebuilding the filters from the compacted cursor, holds
\* exactly the filters of a scan that applied every delta once, in order:
\* same predicates, same expressions, same order, same revisions, so a late
\* delta is stale or not as it would have been (_replay_filter_history).
ImplementsFilterState == F!Spec

\* The cursor grows with the predicate identifiers a scan uses and not with
\* the ticks it runs (_record_filter_delta compacts).
HistoryIsBounded == Len(history) <= Cardinality(F!Known(filters))

\* What was not read of a delta when it came, nothing having it to apply.
Before(delta) ==
    FoldLeft(LAMBDA s, k : F!Applied(s, sent[k], k), snapshot,
             [k \in 1..(delta.number - 1) |-> k])
Unread(delta) == ToSet(delta.updates) \ ToSet(F!Applicable(Before(delta), delta.updates))

\* A scan loses its filters at a turn over nothing that was read: the cursor
\* carries a delta with an update that was stale when it came, and replay, which
\* has not got what made it stale, finds it malformed or one too many to count.
OnlyUnreadUpdatesLoseAScan ==
    status = "lost" => \E k \in DOMAIN history :
        LET delta == history[k]
        IN  /\ Unread(delta) # {}
            /\ \/ \E u \in Unread(delta) : u.fault = "malformed"
               \/ F!Nodes(delta.updates) > MaxNodes

\* protocol.py says of the replayed history that "every document here was
\* validated when it first arrived": no turn refuses what a tick accepted.
ReplayIsAccepted == status # "lost"
=============================================================================
