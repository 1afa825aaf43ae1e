----------------------------- MODULE FilterState -----------------------------
(***************************************************************************)
(* The pushed-down filters of one scan, as filter_v2.py promises them: a    *)
(* snapshot of identified predicates, and deltas that upsert or remove      *)
(* predicates under per-identifier revisions.  A delta is applied as a      *)
(* whole or not at all; an update that is not newer than the last one       *)
(* applied to its identifier, a removal included, has no effect.            *)
(*                                                                          *)
(* A predicate is [id, from]: the snapshot or the delta (by its place in    *)
(* the stream) whose expression it carries.  An update is                   *)
(* [op, id, revision, nodes, fault]: the nodes its expression has, and what *)
(* is wrong with it.  The expression is read only when the update is        *)
(* applicable.                                                              *)
(***************************************************************************)
EXTENDS Integers, FiniteSets, SequencesExt

CONSTANTS Ids,              \* predicate identifiers
          Documents,        \* the deltas a client may send: sequences of updates
          MaxPredicates,    \* predicates of a snapshot (1024 in the code)
          MaxPredicateIds,  \* identifiers one scan may use (4096 in the code)
          MaxNodes,         \* expression nodes of one document (10000 in the code)
          MaxDeltas         \* bound: deltas one stream is sent

VARIABLES state,      \* [predicates, revisions, required]: the immutable FilterState
          sent        \* the deltas the stream has been sent, in order

vars == <<state, sent>>

Unseen == -1
Snapshot == 0
IdsOf(entries) == {entries[k].id : k \in DOMAIN entries}

-----------------------------------------------------------------------------
\* The snapshot: any distinct predicates, all at revision zero, some required.
Snapshots ==
    {[predicates |-> [k \in DOMAIN order |-> [id |-> order[k], from |-> Snapshot]],
      revisions  |-> [i \in Ids |-> IF i \in ToSet(order) THEN 0 ELSE Unseen],
      required   |-> required] :
        <<order, required>> \in
            {pair \in (UNION {[1..n -> Ids] : n \in 0..MaxPredicates}) \X SUBSET Ids :
                /\ Cardinality(ToSet(pair[1])) = Len(pair[1])
                /\ pair[2] \subseteq ToSet(pair[1])}}

Known(s) == {i \in Ids : s.revisions[i] # Unseen}
Applicable(s, updates) == SelectSeq(updates, LAMBDA u : u.revision > s.revisions[u.id])

Faults(updates) == {updates[k].fault : k \in DOMAIN updates}
Nodes(updates) == FoldLeft(LAMBDA total, u : total + u.nodes, 0, updates)

\* Of the expressions, those of the applicable updates are read and counted.
Parses(s, updates) ==
    LET news == Applicable(s, updates)
    IN  /\ IdsOf(updates) \cap s.required = {}
        /\ "malformed" \notin Faults(news)
        /\ Nodes(news) <= MaxNodes
        /\ Cardinality(Known(s) \cup IdsOf(news)) <= MaxPredicateIds

\* An expression that is new to the scan must evaluate on its columns as well.
Accepts(s, updates) ==
    Parses(s, updates) /\ "does not bind" \notin Faults(Applicable(s, updates))

\* The predicates keep their place when upserted, go to the end when new or
\* re-added, and leave a revision behind when removed.
Applied(s, updates, number) ==
    LET news    == Applicable(s, updates)
        live    == IdsOf(s.predicates)
        removed == {news[k].id : k \in {j \in DOMAIN news : news[j].op = "remove"}}
        updated == IdsOf(news) \ removed
        kept    == SelectSeq(s.predicates, LAMBDA p : p.id \notin removed)
        added   == SelectSeq(news, LAMBDA u : u.op = "upsert" /\ u.id \notin live)
    IN  [s EXCEPT
          !.predicates = [k \in DOMAIN kept |->
                              IF kept[k].id \in updated THEN [kept[k] EXCEPT !.from = number]
                                                        ELSE kept[k]]
                         \o [k \in DOMAIN added |-> [id |-> added[k].id, from |-> number]],
          !.revisions = [i \in Ids |->
                              IF i \in IdsOf(news)
                              THEN (CHOOSE u \in ToSet(news) : u.id = i).revision
                              ELSE @[i]]]

-----------------------------------------------------------------------------
Init == state \in Snapshots /\ sent = <<>>

ApplyDelta(updates) ==
    /\ Len(sent) < MaxDeltas
    /\ sent' = Append(sent, updates)
    /\ state' = IF Accepts(state, updates) THEN Applied(state, updates, Len(sent')) ELSE state

Next == \E updates \in Documents : ApplyDelta(updates)

Spec == Init /\ [][Next]_vars
=============================================================================
