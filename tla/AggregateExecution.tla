------------------------- MODULE AggregateExecution -------------------------
(***************************************************************************)
(* One execution of an aggregate function (vgi/worker.py, aggregate_*;     *)
(* vgi/client/aggregate.py).  A call is planned in one of three ways:      *)
(*                                                                         *)
(* "grouped": threads fold their batches into states of their own, one per *)
(* group id, which are merged into one state per key and finalized.  The   *)
(* states live only in the function storage; an update or a combine reads  *)
(* them, runs the user's code and writes them, without a transaction.      *)
(*                                                                         *)
(* "windowed": the caller ships partitions, asks for rows over their       *)
(* frames and destroys them.  A partition lives in the function storage    *)
(* and in the least-recently-used cache of every worker that served it.    *)
(*                                                                         *)
(* "streamed": a session, as in module StreamingSession.                   *)
(*                                                                         *)
(* In a grouped call a user's state is the bag of the rows folded into it. *)
(* The user's code may change the state it is given or assign a new one.   *)
(***************************************************************************)
EXTENDS StreamingSession, Sequences, Bags

CONSTANTS
  Threads,     \* the caller's threads (the Python client has one)
  Keys,        \* values of the grouping columns
  Batches,     \* bound: batches a thread feeds
  Partitions,  \* partition ids
  CacheMax,    \* _WINDOW_PARTITION_CACHE_MAX
  MaxBuilds,   \* bound: partitions shipped under one id
  Rebuilds,    \* TRUE: a caller served by several workers reuses a partition id
  MaxFaults    \* bound: requests that fail and workers that restart

ASSUME Parameters ==
  /\ Batches \in Nat /\ MaxBuilds \in Nat /\ MaxFaults \in Nat
  /\ CacheMax \in Nat \ {0} /\ Rebuilds \in BOOLEAN

\* A batch is one row: a thread and the number of its batch.
Rows == Threads \X (1..Batches)
States == {SetToBag(rows) : rows \in SUBSET Rows}

ASSUME NoneIsApart ==
  /\ None \notin Threads /\ None \notin Nat
  /\ \A state \in States : state # None
  /\ \A states \in [Keys -> States \cup {None}] : states # None

VARIABLES
  plan,       \* "grouped", "windowed" or "streamed"
  pc,         \* of the caller: "running", "failing", "destroyed"
  team,       \* the threads of the call
  fed,        \* fed[t]: batches thread t has sent
  met,        \* met[t]: keys t has a group id for
  groupRow,   \* groupRow[g]: the stored state of group g, or None
  update,     \* update[t]: what the worker that serves t will store, or None
  merge,      \* the combine under way, or None
  merged,     \* threads whose groups are merged
  output,     \* key -> the state its result was made of
  folded,     \* (history) folded[k]: rows of key k the user's code folded
  assigned,   \* (history) assigned[k]: those after which it assigned the state
  pool,       \* the workers that serve the call
  partitionRow, \* partitionRow[p]: which build of partition p is stored, or None
  cached,     \* cached[w]: w's cache, least recently used first
  builds,     \* builds[p]: partitions shipped under the id p
  live,       \* ids shipped and not destroyed
  served,     \* (history) windowed answers: the build asked for, and the one used
  faults

groups == <<team, fed, met, groupRow, update, merge, merged, output, folded, assigned>>
windows == <<pool, partitionRow, cached, builds, live, served>>
execution == <<plan, pc, groups, windows, faults>>
vars == <<execution, sessionVars>>

Owners == Threads \cup {None}

\* (mutation) threads share the group id of a key.
Shared(t, k) == <<None, k>>

\* Group ids come from one counter: no two threads use the same one.
Group(t, k) == <<t, k>>

Absent == [g \in Owners \X Keys |-> None]

Init ==
  /\ plan \in {"grouped", "windowed", "streamed"} /\ pc = "running"
  /\ team \in IF plan = "grouped" THEN SUBSET Threads \ {{}} ELSE {{}}
  /\ fed = [t \in Threads |-> 0]
  /\ \E first \in {{}} \cup {{k} : k \in Keys} :  \* a global aggregate has its group from the start
       met = [t \in Threads |-> IF t \in team THEN first ELSE {}]
  /\ groupRow = Absent
  /\ update = [t \in Threads |-> None] /\ merge = None /\ merged = {}
  /\ output = [k \in {} |-> None]
  /\ folded = [k \in Keys |-> {}] /\ assigned = folded
  /\ pool \in IF plan = "windowed" THEN SUBSET Workers \ {{}} ELSE {{}}
  /\ partitionRow = [p \in Partitions |-> None] /\ cached = [w \in Workers |-> <<>>]
  /\ builds = [p \in Partitions |-> 0] /\ live = {} /\ served = {}
  /\ faults = 0
  /\ SessionInit

Running(p) == plan = p /\ pc = "running"
Fault == faults < MaxFaults /\ faults' = faults + 1

-----------------------------------------------------------------------------
(* Grouped: aggregate_update                                               *)

\* What the user's code does with the rows a batch has for each key: there are
\* none, it passes over them (NULLs), it folds them into the state it is given
\* and leaves it there, or it assigns a new one, states[gid] = ....
Batch == [Keys -> {"no", "null", "in place", "assigned"}]
HasRows(b) == {k \in Keys : b[k] # "no"}

Row(t) == <<t, fed[t] + 1>>

\* initial_state() stands in for a state that is not stored.
Seed(state) == IF state = None THEN EmptyBag ELSE state

\* A group that has a row is stored again; one that was seeded, only if the
\* user's code assigned its state.
Persisted(t, b, k) ==
  k \in HasRows(b) /\ (groupRow[Group(t, k)] # None \/ b[k] = "assigned")

Folded(t, b, k) ==
  LET state == Seed(groupRow[Group(t, k)])
  IN  IF b[k] \in {"in place", "assigned"} THEN state (+) SetToBag({Row(t)}) ELSE state

UpdateLoad(t, b) ==
  /\ Running("grouped") /\ t \in team /\ update[t] = None
  /\ t \notin merged /\ (merge # None => t \notin merge.from) /\ DOMAIN output = {}
  /\ fed[t] < Batches /\ HasRows(b) # {}
  /\ fed' = [fed EXCEPT ![t] = @ + 1]
  /\ met' = [met EXCEPT ![t] = @ \cup HasRows(b)]
  /\ folded' = [k \in Keys |-> IF b[k] \in {"in place", "assigned"} THEN folded[k] \cup {Row(t)}
                               ELSE folded[k]]
  /\ assigned' = [k \in Keys |-> IF b[k] = "assigned" THEN assigned[k] \cup {Row(t)} ELSE assigned[k]]
  /\ update' = [update EXCEPT ![t] =
                  [k \in Keys |-> IF Persisted(t, b, k) THEN Folded(t, b, k) ELSE None]]
  /\ UNCHANGED <<plan, pc, team, groupRow, merge, merged, output, windows, faults, sessionVars>>

UpdateStore(t) ==
  /\ plan = "grouped" /\ update[t] # None
  /\ groupRow' = [g \in Owners \X Keys |->
                    IF g = Group(t, g[2]) /\ update[t][g[2]] # None THEN update[t][g[2]]
                    ELSE groupRow[g]]
  /\ update' = [update EXCEPT ![t] = None]
  /\ UNCHANGED <<plan, pc, team, fed, met, merge, merged, output, folded, assigned>>
  /\ UNCHANGED <<windows, faults, sessionVars>>

\* User code raises or the worker dies: nothing is stored, the query fails.
UpdateFails(t) ==
  /\ plan = "grouped" /\ update[t] # None /\ Fault
  /\ update' = [update EXCEPT ![t] = None]
  /\ pc' = "failing"
  /\ UNCHANGED <<plan, team, fed, met, groupRow, merge, merged, output, folded, assigned>>
  /\ UNCHANGED <<windows, sessionVars>>

-----------------------------------------------------------------------------
(* Grouped: aggregate_combine, aggregate_finalize                          *)

\* A call with several threads merges their groups into one per key.
Merges == \E t, u \in team : t # u

\* One combine at a time writes a target.  A request carries the groups of
\* some threads, each paired with the target of its key, and loads them all.
CombineLoad(from) ==
  /\ Running("grouped") /\ Merges /\ merge = None
  /\ from # {} /\ from \subseteq team \ merged
  /\ \A t \in from : update[t] = None
  /\ merge' = [from |-> from, left |-> from, states |-> groupRow]
  /\ UNCHANGED <<plan, pc, team, fed, met, groupRow, update, merged, output, folded, assigned>>
  /\ UNCHANGED <<windows, faults, sessionVars>>

\* A pair neither of whose sides is stored is passed over.
Combined(source, target) ==
  IF source = None /\ target = None THEN None ELSE Seed(source) (+) Seed(target)

\* states[tgt] = combine(states[src], states[tgt]), for the pairs of one thread.
CombinePairs(t) ==
  /\ plan = "grouped" /\ merge # None /\ t \in merge.left
  /\ merge' = [merge EXCEPT
       !.left = @ \ {t},
       !.states = [g \in Owners \X Keys |->
                     IF g[1] = None THEN Combined(@[Group(t, g[2])], @[g]) ELSE @[g]]]
  /\ UNCHANGED <<plan, pc, team, fed, met, groupRow, update, merged, output, folded, assigned>>
  /\ UNCHANGED <<windows, faults, sessionVars>>

\* The targets are stored; the sources stay as they are.
CombineStore ==
  /\ plan = "grouped" /\ merge # None /\ merge.left = {}
  /\ groupRow' = [g \in Owners \X Keys |->
                    IF g[1] = None /\ merge.states[g] # None THEN merge.states[g]
                    ELSE groupRow[g]]
  /\ merged' = merged \cup merge.from
  /\ merge' = None
  /\ UNCHANGED <<plan, pc, team, fed, met, update, output, folded, assigned>>
  /\ UNCHANGED <<windows, faults, sessionVars>>

CombineFails ==
  /\ plan = "grouped" /\ merge # None /\ Fault
  /\ merge' = None
  /\ pc' = "failing"
  /\ UNCHANGED <<plan, team, fed, met, groupRow, update, merged, output, folded, assigned>>
  /\ UNCHANGED <<windows, sessionVars>>

Met == UNION {met[t] : t \in team}
Result(k) == Group(IF Merges THEN None ELSE CHOOSE t \in team : TRUE, k)

\* A chunk of the keys; a group that is not stored has no state (NULL).
Finalize(chunk) ==
  /\ Running("grouped")
  /\ IF Merges THEN merged = team ELSE \A t \in team : update[t] = None
  /\ chunk # {} /\ chunk \subseteq Met \ DOMAIN output
  /\ output' = [k \in DOMAIN output \cup chunk |->
                  IF k \in chunk THEN groupRow[Result(k)] ELSE output[k]]
  /\ UNCHANGED <<plan, pc, team, fed, met, groupRow, update, merge, merged, folded, assigned,
                 windows, faults, sessionVars>>

-----------------------------------------------------------------------------
(* Windowed: _WindowPartitionCache                                         *)

\* An OrderedDict: an id has one entry, and a new or used one goes to the end.
Ids(c) == {c[i].id : i \in DOMAIN c}
Hits(c, p) == {c[i] : i \in {j \in DOMAIN c : c[j].id = p}}
Place(c, p) == CHOOSE i \in DOMAIN c : c[i].id = p
Without(c, p) ==
  IF p \notin Ids(c) THEN c
  ELSE [i \in 1..(Len(c) - 1) |-> IF i < Place(c, p) THEN c[i] ELSE c[i + 1]]

\* The entry goes to the end, and the first makes room for it.
Put(c, e) ==
  LET longer == Append(Without(c, e.id), e)
  IN  IF Len(longer) > CacheMax THEN Tail(longer) ELSE longer

(* A request touches one partition's row, and its caller sends the requests *)
(* of a partition one after the other: each is a step.                      *)

\* Reusing an id is sound where one worker serves the call.
MayBuild(p) ==
  /\ p \notin live /\ builds[p] < MaxBuilds
  /\ builds[p] = 0 \/ Rebuilds \/ \A v, w \in pool : v = w

\* (mutation) a partition that is cached is not replaced.
KeptIn(w, p, build) ==
  IF Hits(cached[w], p) # {} THEN cached[w] ELSE Put(cached[w], [id |-> p, build |-> build])

CachedIn(w, p, build) == Put(cached[w], [id |-> p, build |-> build])

WindowInit(w, p) ==
  /\ Running("windowed") /\ w \in pool /\ MayBuild(p)
  /\ builds' = [builds EXCEPT ![p] = @ + 1]
  /\ partitionRow' = [partitionRow EXCEPT ![p] = builds'[p]]
  /\ cached' = [cached EXCEPT ![w] = CachedIn(w, p, builds'[p])]
  /\ live' = live \cup {p}
  /\ UNCHANGED <<plan, pc, groups, pool, served, faults, sessionVars>>

\* The request fails, before or after the partition was stored.
WindowInitFails(p) ==
  /\ Running("windowed") /\ MayBuild(p) /\ Fault
  /\ builds' = [builds EXCEPT ![p] = @ + 1]
  /\ \/ partitionRow' = [partitionRow EXCEPT ![p] = builds'[p]]
     \/ UNCHANGED partitionRow
  /\ pc' = "failing"
  /\ UNCHANGED <<plan, groups, pool, cached, live, served, sessionVars>>

\* aggregate_window and aggregate_window_batch, through
\* _load_cached_window_partition: the cache, then the storage.
WindowCached(w, p) ==
  /\ Running("windowed") /\ w \in pool /\ p \in live
  /\ \E e \in Hits(cached[w], p) :
       /\ cached' = [cached EXCEPT ![w] = Put(@, e)]
       /\ served' = served \cup {[wanted |-> builds[p], used |-> e.build]}
  /\ UNCHANGED <<plan, pc, groups, pool, partitionRow, builds, live, faults, sessionVars>>

WindowLoaded(w, p) ==
  /\ Running("windowed") /\ w \in pool /\ p \in live
  /\ Hits(cached[w], p) = {}
  /\ IF partitionRow[p] = None
     THEN /\ pc' = "failing"                  \* unknown partition_id
          /\ served' = served \cup {[wanted |-> builds[p], used |-> 0]}
          /\ UNCHANGED cached
     ELSE /\ cached' = [cached EXCEPT ![w] = Put(@, [id |-> p, build |-> partitionRow[p]])]
          /\ served' = served \cup {[wanted |-> builds[p], used |-> partitionRow[p]]}
          /\ UNCHANGED pc
  /\ UNCHANGED <<plan, groups, pool, partitionRow, builds, live, faults, sessionVars>>

\* The row goes, and what the worker that serves the call has cached.
WindowDestroy(w, p) ==
  /\ Running("windowed") /\ w \in pool /\ p \in live
  /\ partitionRow' = [partitionRow EXCEPT ![p] = None]
  /\ cached' = [cached EXCEPT ![w] = Without(@, p)]
  /\ live' = live \ {p}
  /\ UNCHANGED <<plan, pc, groups, pool, builds, served, faults, sessionVars>>

\* Best effort: the caller goes on.
WindowDestroyFails(p) ==
  /\ Running("windowed") /\ p \in live /\ Fault
  /\ live' = live \ {p}
  /\ UNCHANGED <<plan, pc, groups, pool, partitionRow, cached, builds, served, sessionVars>>

Restart(w) ==
  /\ w \in pool /\ cached[w] # <<>> /\ Fault
  /\ cached' = [cached EXCEPT ![w] = <<>>]
  /\ UNCHANGED <<plan, pc, groups, pool, partitionRow, builds, live, served, sessionVars>>

-----------------------------------------------------------------------------
(* aggregate_destructor                                                    *)

\* The caller's input or another of its calls fails.
CallerFails ==
  /\ plan # "streamed" /\ pc = "running" /\ Fault
  /\ pc' = "failing"
  /\ UNCHANGED <<plan, groups, windows, sessionVars>>

\* On every way out, once the caller's threads have come back.
MayDestroy ==
  /\ \A t \in team : update[t] = None
  /\ merge = None
  /\ \/ pc = "failing"
     \/ Running("grouped") /\ Met = DOMAIN output /\ (Merges => merged = team)
     \/ Running("windowed") /\ live = {}

\* execution_clear, and the caches of the worker that serves the call.
Destroy(emptied) ==
  /\ MayDestroy
  /\ pc' = "destroyed"
  /\ groupRow' = Absent
  /\ partitionRow' = [p \in Partitions |-> None]
  /\ cached' = emptied
  /\ UNCHANGED <<plan, team, fed, met, update, merge, merged, output, folded, assigned, pool,
                 builds, live, served, faults, sessionVars>>

DestroyOn(w) == w \in pool /\ Destroy([cached EXCEPT ![w] = <<>>])
DestroyGroups == plan = "grouped" /\ Destroy(cached)

-----------------------------------------------------------------------------
\* A streamed call is a session.
Streamed == plan = "streamed" /\ SessionNext /\ UNCHANGED execution

Next ==
  \/ \E t \in Threads : \/ \E b \in Batch : UpdateLoad(t, b)
                        \/ UpdateStore(t) \/ UpdateFails(t) \/ CombinePairs(t)
  \/ \E from \in SUBSET Threads : CombineLoad(from)
  \/ CombineStore \/ CombineFails
  \/ \E chunk \in SUBSET Keys : Finalize(chunk)
  \/ \E w \in Workers : \/ \E p \in Partitions : WindowInit(w, p) \/ WindowCached(w, p)
                                                 \/ WindowLoaded(w, p) \/ WindowDestroy(w, p)
                        \/ Restart(w) \/ DestroyOn(w)
  \/ \E p \in Partitions : WindowInitFails(p) \/ WindowDestroyFails(p)
  \/ CallerFails \/ DestroyGroups
  \/ Streamed

Spec == Init /\ [][Next]_vars

-----------------------------------------------------------------------------
(* Properties                                                              *)

\* The rows a thread folds for a key count from the first one after which it
\* assigned the state: what is changed in place before that is in a state that
\* was only seeded, and is not stored.
Saved(k) == {r \in folded[k] : \E a \in assigned[k] : a[1] = r[1] /\ a[2] <= r[2]}

Whole(k, rows) == output[k] = IF rows = {} THEN None ELSE SetToBag(rows)

\* Whatever threads fed the rows, however their requests interleave and in
\* whatever portions the groups are merged: the result of a key is made of
\* every saved row, each once, and of no state (NULL) where there is none,
\* though the key was met.
GroupsAreWhole == \A k \in DOMAIN output : Whole(k, Saved(k))

\* "update values in-place.  The framework saves all modified states"
\* (docs/aggregate-functions.md): every folded row counts.
ChangesAreSaved == \A k \in DOMAIN output : Whole(k, folded[k])

\* Across evictions, restarts and workers, a windowed answer is computed over
\* the partition the caller shipped last under that id, and never refused.
WindowsReadTheirPartition == \A a \in served : a.used = a.wanted
=============================================================================
