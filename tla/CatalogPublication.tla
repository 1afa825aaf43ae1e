------------------------- MODULE CatalogPublication -------------------------
(***************************************************************************)
(* Publication of immutable catalog snapshots (vgi/catalog/snapshot.py     *)
(* and catalog_contents of vgi/worker.py).  Several worker processes share *)
(* an S3 repository: immutable objects, and one manifest slot per cache    *)
(* key that is only written by conditional PutObject.  Each process keeps  *)
(* a bounded cache of manifests it has read back, and one reentrant lock   *)
(* per key.  Every I/O operation is a step, so that other processes, the   *)
(* clock and the catalog can move in between.                              *)
(*                                                                         *)
(* The catalog's source revision is a number; it is also the content of a  *)
(* snapshot of it.  The cache key is the revision: all else it hashes is   *)
(* fixed.  A change may or may not move the catalog's version.  A manifest's URL is *)
(* identified by its expiry, and an ETag of a slot by what the slot holds. *)
(***************************************************************************)
EXTENDS Integers, Sequences, SequencesExt

CONSTANTS
  Workers,      \* processes
  Threads,      \* calls that can be under way at once, on any process
  Ops,          \* subset of {"resolve", "import", "invalidate"}
  Fallback,     \* TRUE: on_publication_failure = "ordinary"
  CacheSize,    \* max_cached_manifests
  TTL,          \* url_ttl_seconds
  Retention,    \* retention_seconds
  Margin,       \* expiration_margin_seconds
  Floor,        \* the 60 seconds below which a URL is not renewed
  MaxTries,     \* attempts of a conditional write (8 in the code)
  MaxRevision,  \* bound: changes of the catalog
  MaxTime,      \* bound: the clock
  MaxUploads,   \* bound: objects uploaded
  MaxCalls,     \* bound: calls
  MaxFaults,    \* bound: crashes, failed fetches, lost objects and answers
  None

ASSUME Parameters ==
  /\ Ops \subseteq {"resolve", "import", "invalidate"}
  /\ Fallback \in BOOLEAN
  /\ CacheSize \in Nat \ {0} /\ MaxTries \in Nat \ {0}
  /\ TTL \in Nat \ {0} /\ Retention \in Nat /\ Retention > TTL
  /\ Margin \in Nat /\ Floor \in Nat
  /\ {MaxRevision, MaxTime, MaxUploads, MaxCalls, MaxFaults} \subseteq Nat

VARIABLES
  revision,   \* the catalog's current source revision
  version,    \* its catalog version
  now,        \* the clock all processes share
  slot,       \* slot[k]: the manifest object of key k: None, Tombstone or a manifest
  objects,    \* ids of the snapshot objects the bucket still holds intact
  uploads,    \* number of objects uploaded
  validated,  \* validated[w][k]: w's manifest of key k, or None
  order,      \* order[w]: the keys w has a manifest of, oldest first
  holder,     \* holder[w][k]: the thread of w that holds the lock of k, or None
  thread,     \* the call each thread executes
  calls, faults,
  answers,    \* (history) answers given
  removed,    \* (history) ids of publications that were tombstoned
  seen        \* (history) seen[w]: the references w has read back since it started

bucket == <<slot, objects, uploads>>
cache == <<validated, order>>
local == <<cache, holder>>
world == <<revision, version, now>>
history == <<answers, removed, seen>>
vars == <<world, bucket, local, thread, calls, faults, history>>

Revisions == 0..MaxRevision
Torn == MaxRevision + 1             \* content read while the catalog changed
Manifests == [id : Nat, key : Revisions, content : Revisions \cup {Torn}, expires : Int,
              retain : Int]
Tombstone == [tombstone |-> TRUE]
Reference(m) == <<m.id, m.expires>>

ASSUME NoneIsApart == None \notin Manifests

Idle == [pc |-> "idle", worker |-> None, op |-> None, version |-> 0, key |-> 0, manifest |-> None,
         before |-> None, cause |-> None, content |-> Torn, tries |-> 0]

Init ==
  /\ revision = 0 /\ version = 0 /\ now = 0
  /\ slot = [k \in Revisions |-> None] /\ objects = {} /\ uploads = 0
  /\ validated = [w \in Workers |-> [k \in Revisions |-> None]]
  /\ order = [w \in Workers |-> <<>>]
  /\ holder = [w \in Workers |-> [k \in Revisions |-> None]]
  /\ thread = [t \in Threads |-> Idle]
  /\ calls = 0 /\ faults = 0
  /\ answers = {} /\ removed = {} /\ seen = [w \in Workers |-> {}]

At(t, pc) == thread[t].pc = pc
WorkerOf(t) == thread[t].worker
Key(t) == thread[t].key
Mine(t) == thread[t].manifest
Goto(t, pc) == thread' = [thread EXCEPT ![t].pc = pc]

\* The lock of t's key is released when the call leaves the block.
Unlocked(t) ==
  [holder EXCEPT ![WorkerOf(t)] =
     [k \in Revisions |-> IF @[k] = t THEN None ELSE @[k]]]

Return(t) == thread' = [thread EXCEPT ![t] = Idle] /\ holder' = Unlocked(t)

\* An exception leaves the manager.  The worker hands it to the client or
\* falls back to an ordinary answer.
Raise(t) ==
  /\ holder' = Unlocked(t)
  /\ thread' = [thread EXCEPT ![t] =
       IF Fallback /\ @.op = "resolve" THEN [@ EXCEPT !.pc = "fallback"] ELSE Idle]

\* cache_key refuses an identity whose version is not the request's.
SameVersion(t) == version = thread[t].version

Usable(m) == m.expires > now + Margin /\ m.retain > now + Margin

Cached(w, k) == validated[w][k]

\* _remember: the newest entry goes last, the oldest ones make room.
Kept(w, key) ==
  LET others == Remove(order[w], key)
      over == Len(others) - CacheSize + 1
  IN IF over > 0 THEN SubSeq(others, over + 1, Len(others)) ELSE others

Remember(t, m) ==
  LET w == WorkerOf(t)
      kept == Kept(w, m.key)
  IN /\ order' = [order EXCEPT ![w] = Append(kept, m.key)]
     /\ validated' = [validated EXCEPT ![w] =
          [k \in Revisions |-> IF k = m.key THEN m
                               ELSE IF k \in ToSet(kept) THEN @[k] ELSE None]]

\* The call has its manifest; what led to it no longer matters.
Found(t, m) == [Idle EXCEPT !.pc = "final", !.worker = WorkerOf(t), !.op = thread[t].op, 
                           !.key = Key(t), !.version = thread[t].version, !.manifest = m]

IsManifest(s) == s # None /\ s # Tombstone

-----------------------------------------------------------------------------
(* A call arrives: catalog_version is read, then the lock of its key taken. *)

Start(t, w, op) ==
  /\ At(t, "idle") /\ op \in Ops /\ calls < MaxCalls
  /\ calls' = calls + 1
  /\ thread' = [thread EXCEPT ![t] = 
       [Idle EXCEPT !.pc = "key", !.worker = w, !.op = op, !.version = version]]
  /\ UNCHANGED <<world, bucket, local, faults, history>>

\* _lock: an RLock, so that resolve can call invalidate.
CanLock(t) == holder[WorkerOf(t)][Key(t)] \in {None, t}

ComputeKey(t) ==
  /\ At(t, "key")
  /\ IF SameVersion(t)
     THEN thread' = [thread EXCEPT ![t].pc = "lock", ![t].key = revision] /\ UNCHANGED holder
     ELSE Raise(t)
  /\ UNCHANGED <<world, bucket, cache, calls, faults, history>>

Lock(t, op, pc) ==
  /\ At(t, "lock") /\ thread[t].op = op /\ CanLock(t)
  /\ holder' = [holder EXCEPT ![WorkerOf(t)][Key(t)] = t]
  /\ thread' = [thread EXCEPT ![t] = pc]
  /\ UNCHANGED <<world, bucket, calls, faults, history>>

\* resolve: a cached manifest is served, renewed first when it is about to expire.
ResolveCached(t) ==
  LET m == Cached(WorkerOf(t), Key(t))
  IN /\ Lock(t, "resolve",
          IF m = None THEN [thread[t] EXCEPT !.pc = "lookup"]
          ELSE IF Usable(m) THEN Found(t, m)
          ELSE [thread[t] EXCEPT !.pc = "renew", !.manifest = m, !.cause = "cached"])
     /\ UNCHANGED cache

\* (mutation) a usable manifest is served as it is.
Trusting(t, m, cause) ==
  IF Usable(m) THEN Found(t, m)
  ELSE [thread[t] EXCEPT !.pc = "renew", !.manifest = m, !.cause = cause]

\* _recover checks the manifest and renews its URL when it is about to expire.
Recovering(t, m, cause) ==
  [thread[t] EXCEPT !.pc = IF Usable(m) THEN "readback" ELSE "renew",
                    !.manifest = m, !.cause = cause]

\* import_publication: a trusted descriptor that was current once.
Import(t, m) ==
  /\ At(t, "lock")
  /\ IF m.key = Key(t)
     THEN /\ Lock(t, "import", Recovering(t, m, "imported"))
          /\ UNCHANGED cache
     ELSE /\ thread[t].op = "import" /\ CanLock(t)
          /\ Return(t)                           \* _check_manifest refuses it
          /\ UNCHANGED <<world, bucket, cache, calls, faults, history>>

\* invalidate drops the cached manifest with the given id and goes to the bucket.
Drop(t, id) ==
  LET w == WorkerOf(t)
      m == Cached(w, Key(t))
  IN IF m # None /\ m.id = id
     THEN /\ validated' = [validated EXCEPT ![w][Key(t)] = None]
          /\ order' = [order EXCEPT ![w] = Remove(@, Key(t))]
     ELSE UNCHANGED cache

Repair(t, m) ==
  /\ Lock(t, "invalidate", [thread[t] EXCEPT !.pc = "invalidate", !.manifest = m, !.cause = "asked"])
  /\ Drop(t, m.id)

-----------------------------------------------------------------------------
(* S3: invalidate, renew and commit_if_absent load the slot, then write it  *)
(* if its ETag is still the one loaded.                                     *)

\* What follows an invalidation, whether or not it removed anything.
Invalidated(t) ==
  \/ thread[t].cause = "cached" /\ Goto(t, "lookup") /\ UNCHANGED holder
  \/ thread[t].cause = "candidate" /\ Goto(t, "build") /\ UNCHANGED holder
  \/ thread[t].cause \notin {"cached", "candidate"} /\ Return(t)

\* (mutation) whatever is installed is taken for the manifest in hand.
AnyInstalled(t, current) == IsManifest(current)

\* The slot holds the publication the call is about.
Concerns(t, current) == IsManifest(current) /\ current.id = Mine(t).id

InvalidateLoad(t) ==
  LET current == slot[Key(t)]
  IN /\ At(t, "invalidate") /\ CanLock(t)
     /\ IF Concerns(t, current)
        THEN /\ thread' = [thread EXCEPT ![t].pc = "tombstone", ![t].before = current]
             /\ UNCHANGED holder
        ELSE Invalidated(t)
     /\ UNCHANGED <<world, bucket, cache, calls, faults, history>>

\* IfMatch / IfNoneMatch.
SameTag(t) == slot[Key(t)] = thread[t].before

InvalidatePut(t) ==
  /\ At(t, "tombstone")
  /\ IF SameTag(t)
     THEN /\ slot' = [slot EXCEPT ![Key(t)] = Tombstone]
          /\ removed' = removed \cup {m.id : m \in {slot[Key(t)]} \ {Tombstone}}
     ELSE UNCHANGED <<slot, removed>>
  /\ Invalidated(t)
  /\ UNCHANGED <<world, objects, uploads, cache, calls, faults, answers, seen>>

\* The tombstone was written, the answer to the write is lost.
InvalidateUnanswered(t) ==
  /\ At(t, "tombstone") /\ SameTag(t) /\ faults < MaxFaults
  /\ faults' = faults + 1
  /\ slot' = [slot EXCEPT ![Key(t)] = Tombstone]
  /\ removed' = removed \cup {m.id : m \in {slot[Key(t)]} \ {Tombstone}}
  /\ Raise(t)
  /\ UNCHANGED <<world, objects, uploads, cache, calls, answers, seen>>

\* resolve catches what is raised about the candidate of its lookup, and
\* invalidates it; any other exception leaves the manager.
Failed(t) ==
  IF thread[t].cause = "candidate" THEN Goto(t, "invalidate") /\ UNCHANGED holder ELSE Raise(t)

\* No renewal: a cached manifest is dropped and its slot invalidated, the
\* candidate of a lookup is invalidated, everybody else raises.
NotRenewed(t) ==
  \/ thread[t].cause = "cached" /\ Drop(t, Mine(t).id) /\ Goto(t, "invalidate") /\ UNCHANGED holder
  \/ thread[t].cause = "candidate" /\ Goto(t, "invalidate") /\ UNCHANGED local
  \/ thread[t].cause \notin {"cached", "candidate"} /\ Raise(t) /\ UNCHANGED cache

Lower(a, b) == IF a < b THEN a ELSE b
Lifetime(m) == Lower(TTL, m.retain - now)

\* renew signs a new URL for the object, for as long as the object is kept.
RenewLoad(t) ==
  LET current == slot[Key(t)]
  IN /\ At(t, "renew")
     /\ IF Concerns(t, current) /\ Lifetime(current) > Floor
        THEN /\ thread' = [thread EXCEPT ![t].pc = "renewed", ![t].before = current,
                 ![t].manifest = [current EXCEPT !.expires = now + Lifetime(current)]]
             /\ UNCHANGED local
        ELSE NotRenewed(t)
     /\ UNCHANGED <<world, bucket, calls, faults, history>>

\* A conditional write that lost its race is tried again from the load.
Again(t, pc) ==
  IF thread[t].tries + 1 < MaxTries
  THEN thread' = [thread EXCEPT ![t].pc = pc, ![t].tries = @ + 1] /\ UNCHANGED holder
  ELSE Failed(t)

RenewPut(t) ==
  /\ At(t, "renewed")
  /\ IF SameTag(t)
     THEN /\ slot' = [slot EXCEPT ![Key(t)] = Mine(t)]
          /\ IF Usable(Mine(t))
             THEN /\ thread' = [thread EXCEPT ![t].pc = "readback", ![t].tries = 0]
                  /\ UNCHANGED local
             ELSE NotRenewed(t)
     ELSE Again(t, "renew") /\ UNCHANGED <<slot, cache>>
  /\ UNCHANGED <<world, objects, uploads, calls, faults, history>>

\* The renewed manifest was written, the answer to the write is lost.
RenewUnanswered(t) ==
  /\ At(t, "renewed") /\ SameTag(t) /\ faults < MaxFaults
  /\ faults' = faults + 1
  /\ slot' = [slot EXCEPT ![Key(t)] = Mine(t)]
  /\ Failed(t)
  /\ UNCHANGED <<world, objects, uploads, cache, calls, history>>

Lookup(t) ==
  LET current == slot[Key(t)]
  IN /\ At(t, "lookup")
     /\ thread' = [thread EXCEPT ![t] =
          IF IsManifest(current) THEN Recovering(t, current, "candidate")
                                 ELSE [@ EXCEPT !.pc = "build"]]
     /\ UNCHANGED <<world, bucket, local, calls, faults, history>>

-----------------------------------------------------------------------------
(* _readback fetches the URL and checks all of the object against the      *)
(* manifest.                                                               *)

Fetched(t) == Mine(t).id \in objects /\ now < Mine(t).expires

\* A manifest that was read back is remembered, except by its publisher, who
\* commits it first; an import is checked once more before it is committed.
Readback(t) ==
  /\ At(t, "readback") /\ Fetched(t)
  /\ seen' = [seen EXCEPT ![WorkerOf(t)] = @ \cup {Reference(Mine(t))}]
  /\ \/ thread[t].cause = "published" /\ Goto(t, "commit") /\ UNCHANGED cache
     \/ thread[t].cause = "imported" /\ Goto(t, "imported") /\ Remember(t, Mine(t))
     \/ /\ thread[t].cause \notin {"published", "imported"}
        /\ thread' = [thread EXCEPT ![t] = Found(t, Mine(t))]
        /\ Remember(t, Mine(t))
  /\ UNCHANGED <<world, bucket, holder, calls, faults, answers, removed>>

\* The URL has expired, or the object is gone or is not what was published.
ReadbackFails(t) ==
  /\ At(t, "readback")
  /\ faults' = IF Fetched(t) THEN faults + 1 ELSE faults
  /\ faults' <= MaxFaults
  /\ Failed(t)
  /\ UNCHANGED <<world, bucket, cache, calls, history>>

-----------------------------------------------------------------------------
(* Building: the catalog is read over time, then the version and the       *)
(* revision are read again.                                                *)

Build(t, pc, next) ==
  /\ At(t, pc)
  /\ thread' = [thread EXCEPT ![t].pc = next, ![t].content = revision]
  /\ UNCHANGED <<world, bucket, local, calls, faults, history>>

\* The inventory is of one revision only if none passed while it was read.
Inventory(t) == IF revision = thread[t].content THEN revision ELSE Torn

Built(t, pc, next) ==
  /\ At(t, pc)
  /\ thread' = [thread EXCEPT ![t].pc = next, ![t].content = Inventory(t)]
  /\ UNCHANGED <<world, bucket, local, calls, faults, history>>

\* (mutation) only the catalog's version is compared.
VersionOnly(t) == SameVersion(t)

\* catalog_version and cache_key are those of the request.
SameGeneration(t) == SameVersion(t) /\ revision = Key(t)

CheckBuilt(t) ==
  /\ At(t, "check built")
  /\ IF SameGeneration(t)
     THEN Goto(t, "upload") /\ UNCHANGED holder
     ELSE Raise(t)
  /\ UNCHANGED <<world, bucket, cache, calls, faults, history>>

-----------------------------------------------------------------------------
(* Publishing: upload, read back, commit.                                  *)

Upload(t) ==
  LET m == [id |-> uploads + 1, key |-> Key(t), content |-> thread[t].content,
            expires |-> now + TTL, retain |-> now + Retention]
  IN /\ At(t, "upload") /\ uploads < MaxUploads
     /\ uploads' = uploads + 1
     /\ objects' = objects \cup {m.id}
     /\ IF Usable(m)
        THEN /\ thread' = [thread EXCEPT ![t].pc = "readback", ![t].manifest = m,
                                         ![t].cause = "published", ![t].content = Torn]
             /\ UNCHANGED holder
        ELSE Raise(t)
     /\ UNCHANGED <<world, slot, cache, calls, faults, history>>

\* (mutation) the loser of the race serves its own publication.
OwnWins(t, current) == Found(t, Mine(t))

\* A manifest that is already there wins; one with our id needs no recovery.
Winner(t, current) ==
  IF current.id = Mine(t).id
  THEN Found(t, current)
  ELSE Recovering(t, current, "winner")

CommitLoad(t) ==
  LET current == slot[Key(t)]
  IN /\ At(t, "commit")
     /\ thread' = [thread EXCEPT ![t] =
          IF IsManifest(current) THEN Winner(t, current)
                                 ELSE [@ EXCEPT !.pc = "install", !.before = current]]
     /\ UNCHANGED <<world, bucket, local, calls, faults, history>>

CommitPut(t) ==
  /\ At(t, "install")
  /\ IF SameTag(t)
     THEN /\ slot' = [slot EXCEPT ![Key(t)] = Mine(t)]
          /\ IF thread[t].cause = "published" THEN Remember(t, Mine(t)) ELSE UNCHANGED cache
          /\ thread' = [thread EXCEPT ![t] = Found(t, Mine(t))]
          /\ UNCHANGED holder
     ELSE Again(t, "commit") /\ UNCHANGED <<slot, cache>>
  /\ UNCHANGED <<world, objects, uploads, calls, faults, history>>

\* The manifest was installed, the answer to the write is lost.
CommitUnanswered(t) ==
  /\ At(t, "install") /\ SameTag(t) /\ faults < MaxFaults
  /\ faults' = faults + 1
  /\ slot' = [slot EXCEPT ![Key(t)] = Mine(t)]
  /\ Raise(t)
  /\ UNCHANGED <<world, objects, uploads, cache, calls, history>>

CheckImport(t) ==
  /\ At(t, "imported")
  /\ IF SameGeneration(t) THEN Goto(t, "commit") /\ UNCHANGED holder ELSE Raise(t)
  /\ UNCHANGED <<world, bucket, cache, calls, faults, history>>

-----------------------------------------------------------------------------
(* The answer                                                              *)

Answer(t, content, ref) ==
  answers' = answers \cup {[worker |-> WorkerOf(t), op |-> thread[t].op, key |-> Key(t),
                           content |-> content, current |-> revision, ref |-> ref,
                           read |-> ref \in seen[WorkerOf(t)] \cup {None}]}

\* The revision is compared a last time: lookup, readback, renewal and commit
\* may have taken long.
Final(t) ==
  /\ At(t, "final")
  /\ IF SameGeneration(t)
     THEN Return(t) /\ Answer(t, Mine(t).content, Reference(Mine(t)))
     ELSE Raise(t) /\ UNCHANGED answers
  /\ UNCHANGED <<world, bucket, cache, calls, faults, removed, seen>>

\* catalog_contents after a failed publication: an ordinary response, between
\* two reads of the key.
FallbackKey(t) ==
  /\ At(t, "fallback")
  /\ thread' = [thread EXCEPT ![t] =
       IF SameVersion(t) THEN [@ EXCEPT !.pc = "ordinary", !.key = revision] ELSE Idle]
  /\ UNCHANGED <<world, bucket, local, calls, faults, history>>

FallbackAnswer(t) ==
  /\ At(t, "check ordinary")
  /\ thread' = [thread EXCEPT ![t] = Idle]
  /\ IF SameGeneration(t) THEN Answer(t, thread[t].content, None) ELSE UNCHANGED answers
  /\ UNCHANGED <<world, bucket, local, calls, faults, removed, seen>>

-----------------------------------------------------------------------------
(* The rest of the world                                                    *)

Change ==
  /\ revision < MaxRevision
  /\ revision' = revision + 1
  /\ version' \in {version, version + 1}
  /\ UNCHANGED <<now, bucket, local, thread, calls, faults, history>>

Tick ==
  /\ now < MaxTime
  /\ now' = now + 1
  /\ UNCHANGED <<revision, version, bucket, local, thread, calls, faults, history>>

\* An object is deleted or damaged.
Lose(id) ==
  /\ faults < MaxFaults
  /\ faults' = faults + 1
  /\ objects' = objects \ {id}
  /\ UNCHANGED <<world, slot, uploads, local, thread, calls, history>>

\* A process dies; a new one takes its place with an empty cache.
Crash(w) ==
  /\ faults < MaxFaults
  /\ faults' = faults + 1
  /\ validated' = [validated EXCEPT ![w] = [k \in Revisions |-> None]]
  /\ order' = [order EXCEPT ![w] = <<>>]
  /\ holder' = [holder EXCEPT ![w] = [k \in Revisions |-> None]]
  /\ thread' = [t \in Threads |-> IF WorkerOf(t) = w THEN Idle ELSE thread[t]]
  /\ seen' = [seen EXCEPT ![w] = {}]
  /\ UNCHANGED <<world, bucket, calls, answers, removed>>

\* Descriptors an operator can have: those in the slots and the caches.
Known == ({slot[k] : k \in Revisions} \ {None, Tombstone})
           \cup ({validated[w][k] : w \in Workers, k \in Revisions} \ {None})

\* The steps of a call after it arrived.
Step(t) ==
  \/ ComputeKey(t)
  \/ ResolveCached(t)
  \/ InvalidateLoad(t)
  \/ InvalidatePut(t)
  \/ RenewLoad(t)
  \/ RenewPut(t)
  \/ Lookup(t)
  \/ Readback(t)
  \/ Build(t, "build", "built")
  \/ Built(t, "built", "check built")
  \/ CheckBuilt(t)
  \/ Upload(t)
  \/ CommitLoad(t)
  \/ CommitPut(t)
  \/ CheckImport(t)
  \/ Final(t)
  \/ FallbackKey(t)
  \/ Build(t, "ordinary", "ordinary built")
  \/ Built(t, "ordinary built", "check ordinary")
  \/ FallbackAnswer(t)

Next ==
  \/ \E t \in Threads : \/ Step(t) \/ ReadbackFails(t) \/ CommitUnanswered(t)
                         \/ RenewUnanswered(t) \/ InvalidateUnanswered(t)
  \/ \E t \in Threads, w \in Workers, op \in Ops : Start(t, w, op)
  \/ \E t \in Threads, m \in Known : Import(t, m) \/ Repair(t, m)
  \/ \E id \in objects : Lose(id)
  \/ \E w \in Workers : Crash(w)
  \/ Change
  \/ Tick

Spec == Init /\ [][Next]_vars

-----------------------------------------------------------------------------
(* Properties                                                              *)

\* Whatever was built, published, recovered, renewed or imported by whichever
\* process: an answer describes the catalog as it is when it is given.
AnswersAreCurrent == \A a \in answers : a.content = a.current

\* Every reference that resolve returns was fetched and validated by the
\* process that returns it.
ResolvesReadBack == \A a \in answers : a.op = "resolve" => a.read

\* The same of every call: the module's header says that a manifest is never
\* served before readback, the documentation that changed URLs are validated.
EverythingReadBack == \A a \in answers : a.read

\* Processes converge: two different publications of one key are only ever
\* served when one of them was invalidated, so the loser of a race between
\* publishers is never served.
PublishersConverge ==
  \A a, b \in answers :
    a.key = b.key /\ a.ref # None /\ b.ref # None /\ a.ref[1] # b.ref[1]
      => {a.ref[1], b.ref[1]} \cap removed # {}

\* An invalidation removes the publication it was asked to remove, never one
\* that was installed in between.
SparesReplacements ==
  [][\A k \in Revisions : IsManifest(slot[k]) /\ slot'[k] = Tombstone =>
       \E t \in Threads : Key(t) = k /\ At(t, "tombstone") /\ Mine(t).id = slot[k].id]_vars
=============================================================================
