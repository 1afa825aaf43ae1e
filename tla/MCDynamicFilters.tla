--------------------------- MODULE MCDynamicFilters ---------------------------
(***************************************************************************)
(* Instances of DynamicFilters for TLC.                                     *)
(***************************************************************************)
EXTENDS DynamicFilters, TLC

CONSTANTS Ranked,  \* the identifiers updated at every revision, alone and in pairs
          MaxRevision

Revisions == 0..MaxRevision
Upsert(i, r, nodes, fault) ==
    [op |-> "upsert", id |-> i, revision |-> r, nodes |-> nodes, fault |-> fault]
Insertion(i, r) == Upsert(i, r, 1, "none")
Removal(i, r) == [op |-> "remove", id |-> i, revision |-> r, nodes |-> 0, fault |-> "none"]

Updates(i) == {Insertion(i, r) : r \in Revisions} \cup {Removal(i, r) : r \in Revisions}

\* What only a stale update may carry into the history: an expression that is
\* malformed, one that does not bind, and one that leaves room for no other.
Odd(i) == {Upsert(i, 0, 1, "malformed"), Upsert(i, 0, 1, "does not bind"),
           Upsert(i, 0, MaxNodes, "none")}

\* An odd update comes at the lowest revision, where it can be stale, and first
\* in its delta; the second update of a pair comes at the highest; the other
\* identifiers appear once.
MCDocuments ==
    {<<u>> : u \in UNION {Updates(i) : i \in Ranked}}
    \cup {<<Insertion(i, 0)>> : i \in Ids \ Ranked}
    \cup UNION {{<<u, w>> : u \in Updates(pair[1]) \cup Odd(pair[1]),
                            w \in {Insertion(pair[2], MaxRevision), Removal(pair[2], MaxRevision)}} :
                    pair \in {p \in Ranked \X Ranked : p[1] # p[2]}}

Symmetry == Permutations(Ranked)
=============================================================================
