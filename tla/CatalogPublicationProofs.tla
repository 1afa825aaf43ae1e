---------------------- MODULE CatalogPublicationProofs ----------------------
(***************************************************************************)
(* Proofs about CatalogPublication for any processes, calls, clock and     *)
(* limits: what is answered describes the catalog as it is, was read back  *)
(* by the process that answers, and is what the other processes serve.     *)
(*                                                                         *)
(* Three facts carry the invariant.  A manifest never changes its key, and *)
(* its content is its key: the revision of the catalog only grows, so a    *)
(* call whose key is still the revision was computed from that revision.   *)
(* A manifest that any process may serve is Installed: its publication is  *)
(* in the slot of its key, or it was removed from there.  And the id of a  *)
(* publication that is not committed yet is known to its call alone.       *)
(***************************************************************************)
EXTENDS CatalogPublication, TLAPS

PCs == {"idle", "key", "lock", "lookup", "renew", "renewed", "readback", "imported", "commit",
        "install", "final", "invalidate", "tombstone", "build", "built", "check built", "upload",
        "fallback", "ordinary", "ordinary built", "check ordinary"}

Calls == [pc : PCs, worker : Workers \cup {None}, op : Ops \cup {None}, version : Nat,
          key : Revisions, manifest : Manifests \cup {None},
          before : Manifests \cup {None, Tombstone},
          cause : {"cached", "candidate", "imported", "asked", "published", "winner", None},
          content : Revisions \cup {Torn}, tries : Nat]

TypeInv ==
  /\ revision \in Revisions /\ version \in Nat /\ now \in Nat /\ uploads \in Nat
  /\ slot \in [Revisions -> Manifests \cup {None, Tombstone}]
  /\ validated \in [Workers -> [Revisions -> Manifests \cup {None}]]
  /\ thread \in [Threads -> Calls]
  /\ seen \in [Workers -> SUBSET (Nat \X Int)]

\* The content of a manifest is that of its key.
Good(m) == m.content = m.key /\ m.id <= uploads

Installed(id, k) ==
  \/ id \in removed
  \/ slot[k] \in Manifests /\ slot[k].id = id

\* A call that may commit the publication it has uploaded.
Pending(c) == c.cause = "published" /\ c.pc \in {"readback", "commit", "install"}

\* The places of a call that has a manifest in hand, of its own key.
Serving == {"renew", "renewed", "readback", "imported", "commit", "install", "final"}

\* What is known of the call c.
Holds(c) ==
  /\ c.manifest # None => Good(c.manifest)
  /\ c.pc \in Serving \cup {"invalidate", "tombstone"} => c.manifest # None
  /\ c.pc \in Serving => /\ c.manifest.key = c.key
                         /\ Pending(c) \/ Installed(c.manifest.id, c.key)
  /\ c.pc \in {"tombstone", "renewed"} => c.before \in Manifests /\ c.before.id = c.manifest.id
  /\ c.pc = "install" => c.before \notin Manifests
  /\ c.pc \in {"renew", "renewed"} => c.cause # "published"

HasRead(c) ==
  /\ c.pc # "idle" => c.worker \in Workers
  /\ c.pc \in Serving \ {"final"} /\ c.cause = "imported" => c.op = "import"
  /\ c.pc = "imported" => c.cause = "imported"
  /\ c.pc \in {"commit", "install"} =>
       \/ c.cause = "imported"
       \/ c.cause = "published" /\ Reference(c.manifest) \in seen[c.worker]
  /\ c.pc = "final" /\ c.op = "resolve" => Reference(c.manifest) \in seen[c.worker]

\* The catalog as the call reads it.
Reads(c) ==
  /\ c.key <= revision
  /\ c.pc \in {"built", "ordinary built"} => c.key <= c.content /\ c.content <= revision
  /\ c.pc \in {"check built", "check ordinary"} /\ revision = c.key => c.content = c.key
  /\ c.pc = "upload" => c.content = c.key

Sound(c) == Holds(c) /\ HasRead(c) /\ Reads(c)

Slots == \A k \in Revisions : slot[k] \in Manifests => slot[k].key = k /\ Good(slot[k])

Caches == \A w \in Workers, k \in Revisions :
  LET m == validated[w][k]
  IN m # None => m.key = k /\ Good(m) /\ Installed(m.id, k) /\ Reference(m) \in seen[w]

\* The ids in the bucket and the caches, and the id a call has in hand.
Circulates(id) ==
  \/ \E k \in Revisions : slot[k] \in Manifests /\ slot[k].id = id
  \/ \E w \in Workers, k \in Revisions : validated[w][k] # None /\ validated[w][k].id = id
Owns(c, id) == c.manifest # None /\ c.manifest.id = id

\* An uncommitted publication is known to its call alone.
Own(t) == \A id \in Nat : Pending(thread[t]) /\ Owns(thread[t], id) =>
  /\ ~Circulates(id)
  /\ \A u \in Threads \ {t} : ~Owns(thread[u], id)

Answered == \A a \in answers :
  /\ a.content = a.current
  /\ a.op = "resolve" => a.read
  /\ a.ref # None => a.ref[1] \in Nat /\ a.key \in Revisions /\ Installed(a.ref[1], a.key)

Inv ==
  /\ TypeInv /\ Slots /\ Caches /\ Answered
  /\ \A t \in Threads : Sound(thread[t]) /\ Own(t)

-----------------------------------------------------------------------------
LEMMA Apart == None \notin Manifests /\ Tombstone \notin Manifests
<1>1. ASSUME NEW m \in Manifests PROVE m # Tombstone
  <2>1. "id" \in DOMAIN m
    BY DEF Manifests
  <2>2. "id" \notin DOMAIN Tombstone
    BY DEF Tombstone
  <2> QED BY <2>1, <2>2
<1> QED BY <1>1, NoneIsApart

LEMMA IsManifestMeans ==
  ASSUME TypeInv, NEW k \in Revisions
  PROVE  IsManifest(slot[k]) <=> slot[k] \in Manifests
  BY Apart DEF IsManifest, TypeInv

LEMMA RevisionsAreNaturals ==
  MaxRevision \in Nat /\ Revisions \subseteq Nat /\ 0 \in Revisions /\ Torn \in Nat
  BY Parameters DEF Revisions, Torn

LEMMA IdleIsSound ==
  ASSUME TypeInv
  PROVE  Idle \in Calls /\ Sound(Idle) /\ ~Pending(Idle) /\ Idle.manifest = None /\ Idle.pc = "idle"
<1>1. Idle \in Calls
  BY RevisionsAreNaturals DEF Idle, Calls, PCs
<1>2. /\ Idle.pc = "idle" /\ Idle.manifest = None /\ Idle.key = 0 /\ Idle.cause = None
      /\ Idle.worker = None /\ Idle.op = None
  BY DEF Idle
<1> QED BY <1>1, <1>2, RevisionsAreNaturals DEF TypeInv, Sound, Holds, HasRead, Reads, Serving, Pending

LEMMA InitInv == Init => Inv
<1> SUFFICES ASSUME Init PROVE Inv
  OBVIOUS
<1>1. TypeInv
  <2>1. Idle \in Calls
    BY RevisionsAreNaturals DEF Idle, Calls, PCs
  <2> QED BY <2>1, RevisionsAreNaturals DEF Init, TypeInv
<1>2. Slots /\ Caches /\ Answered
  BY Apart DEF Init, Slots, Caches, Answered
<1>3. \A t \in Threads : thread[t] = Idle
  BY DEF Init
<1> QED BY <1>1, <1>2, <1>3, IdleIsSound DEF Inv, Own

-----------------------------------------------------------------------------
(* What a step leaves true of the calls that do not take it.               *)

\* The history only grows, an installed publication stays so or is removed,
\* and the revision does not go back.
Onward(w) ==
  /\ revision <= revision' /\ uploads <= uploads'
  /\ \A id \in Nat, k \in Revisions : Installed(id, k) => Installed(id, k)'
  /\ w \in Workers => seen[w] \subseteq seen'[w]

LEMMA SoundStays ==
  ASSUME TypeInv, TypeInv', NEW u \in Threads, NEW c \in Calls, thread'[u] = c, Sound(c),
         Onward(c.worker)
  PROVE  Sound(thread[u])'
<1> USE RevisionsAreNaturals
<1>1. Holds(thread[u])'
  <2>1. c.manifest # None => Good(c.manifest)'
    BY DEF Calls, Manifests, Sound, Holds, Good, Onward, TypeInv
  <2>2. ASSUME c.pc \in Serving, Installed(c.manifest.id, c.key)
        PROVE  Installed(c.manifest.id, c.key)'
    <3>1. c.manifest \in Manifests /\ c.key \in Revisions
      BY <2>2 DEF Calls, Sound, Holds
    <3>2. c.manifest.id \in Nat
      BY <3>1 DEF Manifests
    <3> QED BY <2>2, <3>1, <3>2 DEF Onward
  <2> QED BY <2>1, <2>2 DEF Sound, Holds, Pending, Serving, Good, Installed
<1>2. HasRead(thread[u])'
  BY DEF Sound, HasRead, Onward
<1>3. Reads(thread[u])'
  <2>1. /\ revision \in Nat /\ revision' \in Nat /\ c.key \in Nat /\ c.content \in Nat
        /\ revision <= revision'
    BY DEF TypeInv, Calls, Onward
  <2>2. Reads(c)
    BY DEF Sound
  <2>3. Reads(c)'
    <3>0. c.key <= revision
      BY <2>2 DEF Reads
    <3>1. c.key <= revision /\ (c.content <= revision => c.content <= revision')
      BY <2>1, <3>0
    <3>2. c.key <= revision'
      BY <2>1, <3>1
    <3>3. revision' = c.key => revision = c.key
      BY <2>1, <3>1
    <3> QED BY <2>2, <3>1, <3>2, <3>3 DEF Reads
  <2> QED BY <2>3 DEF Reads
<1> QED BY <1>1, <1>2, <1>3 DEF Sound

\* A step of t hands no publication to the bucket and the caches but its own,
\* and takes none but from there.
Exchanges(t) ==
  \A id \in Nat :
    /\ Circulates(id)' => Circulates(id) \/ Owns(thread[t], id)
    /\ Owns(thread'[t], id) => Circulates(id) \/ Owns(thread[t], id) \/ id = uploads + 1

\* t still has the publication it may commit, or has just uploaded it.
KeepsOwn(t) == \A id \in Nat : Pending(thread'[t]) /\ Owns(thread'[t], id) =>
  \/ Pending(thread[t]) /\ Owns(thread[t], id) /\ (Circulates(id)' => Circulates(id))
  \/ id = uploads + 1 /\ ~Circulates(id)'

LEMMA OwnedIsUploaded ==
  ASSUME TypeInv, NEW u \in Threads, Sound(thread[u]), NEW id \in Nat, Owns(thread[u], id)
  PROVE  id <= uploads /\ id # uploads + 1
<1>1. id <= uploads
  BY DEF Owns, Sound, Holds, Good
<1> QED BY <1>1 DEF TypeInv

LEMMA OwnStays ==
  ASSUME Inv, TypeInv', NEW t \in Threads, \A u \in Threads \ {t} : thread'[u] = thread[u],
         Exchanges(t), KeepsOwn(t)
  PROVE  \A u \in Threads : Own(u)'
<1>0. /\ TypeInv
      /\ \A u \in Threads : Sound(thread[u]) /\ Own(u)
  BY DEF Inv
<1> SUFFICES ASSUME NEW u \in Threads, NEW id \in Nat, Pending(thread'[u]), Owns(thread'[u], id)
             PROVE  /\ ~Circulates(id)'
                    /\ \A v \in Threads \ {u} : ~Owns(thread'[v], id)
  BY DEF Own, Pending, Owns
<1>1. CASE u # t
  <2>1. thread'[u] = thread[u]
    BY <1>1
  <2>2. ~Circulates(id) /\ \A v \in Threads \ {u} : ~Owns(thread[v], id)
    BY <1>0, <2>1 DEF Own
  <2>3. id # uploads + 1
    BY <1>0, <2>1, OwnedIsUploaded
  <2>4. ~Circulates(id)' /\ ~Owns(thread'[t], id)
    BY <1>1, <2>2, <2>3 DEF Exchanges
  <2> QED BY <2>2, <2>4
<1>2. CASE u = t
  <2>1. ~Circulates(id)' /\ \A v \in Threads \ {t} : ~Owns(thread[v], id)
    <3>1. CASE Pending(thread[t]) /\ Owns(thread[t], id) /\ (Circulates(id)' => Circulates(id))
      BY <1>0, <3>1 DEF Own
    <3>2. CASE id = uploads + 1 /\ ~Circulates(id)'
      BY <1>0, <3>2, OwnedIsUploaded
    <3> QED BY <1>2, <3>1, <3>2 DEF KeepsOwn
  <2> QED BY <1>2, <2>1
<1> QED BY <1>1, <1>2

\* What is left to show of a step of t.
LEMMA StepInv ==
  ASSUME Inv, TypeInv', NEW t \in Threads, \A u \in Threads \ {t} : thread'[u] = thread[u],
         \A w \in Workers \cup {None} : Onward(w),
         Sound(thread[t])', Exchanges(t), KeepsOwn(t), Slots', Caches', Answered'
  PROVE  Inv'
<1>1. ASSUME NEW u \in Threads \ {t} PROVE Sound(thread[u])'
  <2>1. thread[u] \in Calls /\ Sound(thread[u]) /\ TypeInv /\ thread'[u] = thread[u]
    BY DEF Inv, TypeInv
  <2>2. Onward(thread[u].worker)
    BY <2>1 DEF Calls
  <2> QED BY <2>1, <2>2, SoundStays
<1>2. \A u \in Threads : Own(u)'
  BY OwnStays
<1> QED BY <1>1, <1>2 DEF Inv

-----------------------------------------------------------------------------
(* Steps that concern the bucket, the clock and the history not at all.    *)

\* The cache loses manifests at most.
Drops ==
  /\ validated' \in [Workers -> [Revisions -> Manifests \cup {None}]]
  /\ \A w \in Workers, k \in Revisions : validated'[w][k] \in {None, validated[w][k]}

\* The call of t goes on, with nothing new in hand.
Continues(t) ==
  /\ thread' = [thread EXCEPT ![t] = thread'[t]]
  /\ thread'[t] \in Calls /\ Sound(thread'[t])
  /\ Pending(thread'[t]) => Pending(thread[t]) /\ thread'[t].manifest = thread[t].manifest
  /\ \A id \in Nat : Owns(thread'[t], id) => Circulates(id) \/ Owns(thread[t], id)

LEMMA CachesStay ==
  ASSUME Inv, Drops, TypeInv', \A w \in Workers : Onward(w)
  PROVE  Caches'
<1> SUFFICES ASSUME NEW w \in Workers, NEW k \in Revisions, NEW m, m = validated'[w][k], m # None
             PROVE  m.key = k /\ Good(m)' /\ Installed(m.id, k)' /\ Reference(m) \in seen'[w]
  BY DEF Caches, Good, Installed, Reference
<1>1. m = validated[w][k] /\ m \in Manifests
  BY DEF Drops, Inv, TypeInv
<1>2. m.key = k /\ Good(m) /\ Installed(m.id, k) /\ Reference(m) \in seen[w]
  BY <1>1 DEF Inv, Caches
<1>3. m.id \in Nat /\ uploads \in Nat /\ uploads' \in Nat
  BY <1>1 DEF Manifests, Inv, TypeInv
<1> QED BY <1>2, <1>3 DEF Onward, Good

LEMMA AnsweredStays ==
  ASSUME Inv, UNCHANGED answers, \A w \in Workers \cup {None} : Onward(w)
  PROVE  Answered'
  BY DEF Inv, Answered, Onward

LEMMA NothingNew ==
  ASSUME Inv, UNCHANGED <<uploads, slot, removed, seen>>,
         revision \in Nat /\ revision' \in Nat /\ revision <= revision'
  PROVE  \A w \in Workers \cup {None} : Onward(w)
  BY DEF Inv, TypeInv, Onward, Installed

LEMMA LocalStep ==
  ASSUME Inv, NEW t \in Threads, Continues(t), Drops, UNCHANGED <<world, bucket, history>>
  PROVE  Inv'
<1> DEFINE d == thread'[t]
<1>1. TypeInv'
  BY DEF Inv, TypeInv, Continues, Drops, world, bucket, history
<1>2. \A w \in Workers \cup {None} : Onward(w)
  BY NothingNew, RevisionsAreNaturals DEF Inv, TypeInv, world, bucket, history
<1>3. Slots' /\ Caches' /\ Answered'
  BY <1>1, <1>2, CachesStay, AnsweredStays DEF Inv, Slots, Good, bucket, history
<1>4. Sound(thread[t])'
  <2>1. d \in Calls /\ Sound(d) /\ TypeInv
    BY DEF Continues, Inv
  <2>2. Onward(d.worker)
    BY <1>2, <2>1 DEF Calls
  <2> QED BY <1>1, <2>1, <2>2, SoundStays
<1>5. \A id \in Nat : Circulates(id)' => Circulates(id)
  BY DEF Circulates, Drops, bucket
<1>6. Exchanges(t) /\ KeepsOwn(t)
  <2>1. ASSUME NEW id \in Nat, Pending(thread'[t]), Owns(thread'[t], id)
        PROVE  Pending(thread[t]) /\ Owns(thread[t], id)
    BY <2>1 DEF Continues, Owns
  <2> QED BY <1>5, <2>1 DEF Continues, Exchanges, KeepsOwn
<1>7. \A u \in Threads \ {t} : thread'[u] = thread[u]
  BY DEF Continues, Inv, TypeInv
<1> QED BY <1>1, <1>2, <1>3, <1>4, <1>6, <1>7, StepInv

LEMMA CallOf ==
  ASSUME Inv, NEW t \in Threads
  PROVE  /\ thread[t] \in Calls /\ Sound(thread[t]) /\ TypeInv
         /\ thread[t].key \in Revisions /\ thread[t].pc \in PCs
         /\ At(t, "idle") \/ thread[t].worker \in Workers
  BY DEF Inv, TypeInv, Calls, Sound, HasRead, At

LEMMA Drop_Drops ==
  ASSUME Inv, NEW t \in Threads, NEW id, Drop(t, id) \/ UNCHANGED cache
  PROVE  Drops
  BY DEF Drop, Drops, Inv, TypeInv, cache

LEMMA ReturnContinues ==
  ASSUME Inv, NEW t \in Threads, thread' = [thread EXCEPT ![t] = Idle]
  PROVE  Continues(t)
<1>1. thread'[t] = Idle /\ TypeInv
  BY DEF Inv, TypeInv
<1> QED BY <1>1, IdleIsSound DEF Continues, Owns

LEMMA GotoContinues ==
  ASSUME Inv, NEW t \in Threads, NEW pc \in {"fallback", "lookup", "build", "invalidate", "commit"},
         Goto(t, pc), ~At(t, "idle"),
         pc = "invalidate" => Mine(t) # None,
         pc = "commit" => At(t, "imported")
  PROVE  Continues(t)
<1> DEFINE c == thread[t] d == thread'[t]
<1>1. c \in Calls /\ Sound(c) /\ TypeInv /\ c.worker \in Workers
  BY CallOf
<1>2. /\ thread' = [thread EXCEPT ![t] = d]
      /\ d \in Calls /\ d.pc = pc /\ d.key = c.key /\ d.manifest = c.manifest
      /\ d.op = c.op /\ d.worker = c.worker /\ d.cause = c.cause
  BY <1>1 DEF Goto, TypeInv, Calls, PCs
<1>3. Holds(d)
  BY <1>1, <1>2 DEF Sound, Holds, Serving, Pending, Mine, At
<1>4. HasRead(d)
  BY <1>1, <1>2 DEF Sound, HasRead, Serving, At
<1>5. Reads(d)
  BY <1>1, <1>2 DEF Sound, Reads
<1>6. Pending(d) => Pending(c)
  BY <1>1, <1>2 DEF Pending, At, Sound, HasRead, Serving
<1> QED BY <1>2, <1>3, <1>4, <1>5, <1>6 DEF Continues, Sound, Owns

LEMMA RaiseContinues ==
  ASSUME Inv, NEW t \in Threads, Raise(t), ~At(t, "idle")
  PROVE  Continues(t)
<1>1. CASE thread' = [thread EXCEPT ![t] = Idle]
  BY <1>1, ReturnContinues
<1>2. CASE Goto(t, "fallback")
  BY <1>2, GotoContinues
<1>3. CASE Fallback /\ thread[t].op = "resolve"
  BY <1>2, <1>3 DEF Raise, Goto
<1>4. CASE ~(Fallback /\ thread[t].op = "resolve")
  BY <1>1, <1>4 DEF Raise
<1> QED BY <1>3, <1>4

-----------------------------------------------------------------------------
(* A call arrives and takes its lock.                                      *)

LEMMA StartInv ==
  ASSUME Inv, NEW t \in Threads, NEW w \in Workers, NEW op \in Ops, Start(t, w, op)
  PROVE  Inv'
<1> DEFINE d == thread'[t]
<1>1. /\ d \in Calls /\ d.pc = "key" /\ d.key = 0 /\ d.manifest = None /\ d.worker = w
      /\ thread' = [thread EXCEPT ![t] = d]
  BY IdleIsSound, RevisionsAreNaturals DEF Inv, TypeInv, Start, Idle, Calls, PCs
<1>2. revision \in Nat /\ 0 <= revision
  BY RevisionsAreNaturals DEF Inv, TypeInv
<1>3. Sound(d)
  BY <1>1, <1>2 DEF Sound, Holds, HasRead, Reads, Serving
<1>4. Continues(t)
  BY <1>1, <1>3 DEF Continues, Owns, Pending
<1> QED BY <1>4, LocalStep, Drop_Drops DEF Start, local

LEMMA ComputeKeyInv ==
  ASSUME Inv, NEW t \in Threads, ComputeKey(t)
  PROVE  Inv'
<1> DEFINE c == thread[t] d == thread'[t]
<1>1. ASSUME SameVersion(t) PROVE Continues(t)
  <2>1. /\ c \in Calls /\ Sound(c) /\ TypeInv /\ revision \in Nat /\ revision \in Revisions
        /\ c.worker \in Workers /\ thread' = [thread EXCEPT ![t].pc = "lock", ![t].key = revision]
    BY <1>1, CallOf, RevisionsAreNaturals DEF ComputeKey, TypeInv, At
  <2>2. d \in Calls
    BY <2>1 DEF TypeInv, Calls, PCs
  <2>3. /\ d.pc = "lock" /\ d.key = revision /\ d.manifest = c.manifest
        /\ d.worker = c.worker /\ thread' = [thread EXCEPT ![t] = d]
    BY <2>1 DEF TypeInv, Calls
  <2>4. Holds(d)
    BY <2>1, <2>3 DEF Sound, Holds, Serving
  <2>5. HasRead(d)
    BY <2>1, <2>3 DEF Sound, HasRead, Serving
  <2>6. Reads(d)
    <3>1. d.key <= revision
      BY <2>1, <2>3
    <3> QED BY <2>3, <3>1 DEF Reads
  <2> QED BY <2>2, <2>3, <2>4, <2>5, <2>6 DEF Continues, Owns, Pending, Sound
<1>2. ASSUME ~SameVersion(t) PROVE Continues(t)
  BY <1>2, RaiseContinues DEF ComputeKey, At
<1>3. Continues(t)
  BY <1>1, <1>2
<1> QED BY <1>3, LocalStep, Drop_Drops DEF ComputeKey

\* What Found and Recovering make of a manifest of the call's key that is
\* installed.
LEMMA FoundIsSound ==
  ASSUME Inv, NEW t \in Threads, NEW m \in Manifests, ~At(t, "idle"),
         Good(m), m.key = Key(t), Installed(m.id, Key(t)),
         thread[t].op = "resolve" => Reference(m) \in seen[WorkerOf(t)]
  PROVE  /\ Found(t, m) \in Calls /\ Sound(Found(t, m)) /\ ~Pending(Found(t, m))
         /\ Found(t, m).manifest = m
<1> DEFINE c == thread[t] d == Found(t, m)
<1>1. c \in Calls /\ Sound(c) /\ TypeInv /\ c.worker \in Workers
  BY CallOf
<1>2. /\ d.pc = "final" /\ d.worker = c.worker /\ d.op = c.op /\ d.key = c.key
      /\ d.manifest = m /\ d \in Calls
  BY <1>1, IdleIsSound, ZenonT(40) DEF Found, Key, WorkerOf, Idle, Calls, PCs
<1>3. Holds(d)
  BY <1>1, <1>2, Apart DEF Holds, Serving, Key
<1>4. HasRead(d)
  BY <1>1, <1>2 DEF HasRead, WorkerOf
<1>5. Reads(d)
  BY <1>1, <1>2 DEF Reads, Sound
<1> QED BY <1>2, <1>3, <1>4, <1>5 DEF Sound, Pending

LEMMA RecoveringIsSound ==
  ASSUME Inv, NEW t \in Threads, NEW m \in Manifests, ~At(t, "idle"),
         NEW cause \in {"imported", "candidate", "winner"},
         cause = "imported" => thread[t].op = "import",
         Good(m), m.key = Key(t), Installed(m.id, Key(t))
  PROVE  /\ Recovering(t, m, cause) \in Calls /\ Sound(Recovering(t, m, cause))
         /\ ~Pending(Recovering(t, m, cause)) /\ Recovering(t, m, cause).manifest = m
<1> DEFINE c == thread[t] d == Recovering(t, m, cause)
<1>1. c \in Calls /\ Sound(c) /\ TypeInv /\ c.worker \in Workers
  BY CallOf
<1>2. /\ d.pc \in {"readback", "renew"} /\ d.worker = c.worker /\ d.op = c.op /\ d.key = c.key
      /\ d.manifest = m /\ d.cause = cause /\ d \in Calls
  <2>1. CASE Usable(m)
    BY <1>1, <2>1, ZenonT(40) DEF Recovering, Calls, PCs
  <2>2. CASE ~Usable(m)
    BY <1>1, <2>2, ZenonT(40) DEF Recovering, Calls, PCs
  <2> QED BY <2>1, <2>2
<1>3. Holds(d)
  BY <1>1, <1>2, Apart DEF Holds, Serving, Key
<1>4. HasRead(d)
  BY <1>1, <1>2 DEF HasRead, WorkerOf
<1>5. Reads(d)
  BY <1>1, <1>2 DEF Reads, Sound
<1> QED BY <1>2, <1>3, <1>4, <1>5 DEF Sound, Pending

\* What is in a slot or in a cache.
LEMMA InSlot ==
  ASSUME Inv, NEW k \in Revisions, slot[k] \in Manifests
  PROVE  /\ slot[k].key = k /\ Good(slot[k]) /\ Installed(slot[k].id, k)
         /\ slot[k].id \in Nat /\ Circulates(slot[k].id)
  BY DEF Inv, Slots, Installed, Circulates, Manifests

LEMMA InCache ==
  ASSUME Inv, NEW w \in Workers, NEW k \in Revisions, NEW m, m = Cached(w, k), m # None
  PROVE  /\ m \in Manifests /\ m.key = k /\ Good(m) /\ Installed(m.id, k)
         /\ Reference(m) \in seen[w] /\ m.id \in Nat /\ Circulates(m.id)
<1>1. validated[w][k] = m /\ m \in Manifests
  BY DEF Cached, Inv, TypeInv
<1> QED BY <1>1 DEF Inv, Caches, Circulates, Manifests

LEMMA ResolveCachedInv ==
  ASSUME Inv, NEW t \in Threads, ResolveCached(t)
  PROVE  Inv'
<1> DEFINE c == thread[t] d == thread'[t] m == Cached(WorkerOf(t), Key(t))
<1>1. /\ c \in Calls /\ Sound(c) /\ TypeInv /\ c.worker \in Workers /\ c.key \in Revisions
      /\ At(t, "lock") /\ c.op = "resolve" /\ ~At(t, "idle")
  BY CallOf DEF ResolveCached, Lock, At
<1>2. ASSUME m = None PROVE Continues(t)
  BY <1>1, <1>2, GotoContinues DEF ResolveCached, Lock, Goto
<1>3. ASSUME m # None PROVE Continues(t)
  <2>1. /\ m \in Manifests /\ m.key = Key(t) /\ Good(m) /\ Installed(m.id, Key(t))
        /\ Reference(m) \in seen[WorkerOf(t)] /\ Circulates(m.id)
    BY <1>1, <1>3, InCache DEF Key, WorkerOf
  <2>2. CASE Usable(m)
    <3>1. thread' = [thread EXCEPT ![t] = Found(t, m)]
      BY <1>3, <2>2 DEF ResolveCached, Lock
    <3>2. d = Found(t, m)
      BY <1>1, <3>1 DEF TypeInv
    <3> QED BY <1>1, <2>1, <3>1, <3>2, FoundIsSound DEF Continues, Owns
  <2>3. CASE ~Usable(m)
    <3>1. thread' = [thread EXCEPT ![t] = [c EXCEPT !.pc = "renew", !.manifest = m, !.cause = "cached"]]
      BY <1>3, <2>3 DEF ResolveCached, Lock
    <3>2. /\ d.pc = "renew" /\ d.worker = c.worker /\ d.op = c.op /\ d.key = c.key
          /\ d.manifest = m /\ d.cause = "cached" /\ d \in Calls
          /\ thread' = [thread EXCEPT ![t] = d]
      BY <1>1, <2>1, <3>1 DEF TypeInv, Calls, PCs
    <3>3. Holds(d)
      BY <1>1, <2>1, <3>2, Apart DEF Holds, Serving, Key
    <3>4. HasRead(d) /\ Reads(d)
      BY <1>1, <3>2 DEF HasRead, Reads, Sound
    <3> QED BY <2>1, <3>2, <3>3, <3>4 DEF Continues, Sound, Owns, Pending
  <2> QED BY <2>2, <2>3
<1>4. Continues(t)
  BY <1>2, <1>3
<1> QED BY <1>4, LocalStep, Drop_Drops DEF ResolveCached, Lock

LEMMA KnownIsGood ==
  ASSUME Inv, NEW m \in Known
  PROVE  /\ m \in Manifests /\ m.key \in Revisions /\ Good(m) /\ Installed(m.id, m.key)
         /\ m.id \in Nat /\ Circulates(m.id)
<1>1. CASE \E k \in Revisions : m = slot[k] /\ m \notin {None, Tombstone}
  <2> PICK k \in Revisions : m = slot[k] /\ m \notin {None, Tombstone}
    BY <1>1
  <2>1. slot[k] \in Manifests
    BY DEF Inv, TypeInv
  <2> QED BY <2>1, InSlot
<1>2. CASE \E w \in Workers, k \in Revisions : m = validated[w][k] /\ m # None
  BY <1>2, InCache DEF Cached
<1> QED BY <1>1, <1>2 DEF Known

LEMMA ImportInv ==
  ASSUME Inv, NEW t \in Threads, NEW m \in Known, Import(t, m)
  PROVE  Inv'
<1>1. ~At(t, "idle") /\ thread[t].op = "import"
  BY DEF Import, Lock, At
<1>2. ASSUME m.key = Key(t) PROVE Continues(t)
  <2>1. thread' = [thread EXCEPT ![t] = Recovering(t, m, "imported")]
    BY <1>2 DEF Import, Lock
  <2>2. thread'[t] = Recovering(t, m, "imported")
    BY <2>1, CallOf DEF TypeInv
  <2>3. /\ m \in Manifests /\ m.key = Key(t) /\ Good(m) /\ Installed(m.id, Key(t))
        /\ Circulates(m.id)
    BY <1>2, KnownIsGood
  <2>4. /\ thread'[t] \in Calls /\ Sound(thread'[t]) /\ ~Pending(thread'[t])
        /\ thread'[t].manifest = m
    BY <1>1, <2>2, <2>3, RecoveringIsSound
  <2> QED BY <2>1, <2>2, <2>3, <2>4 DEF Continues, Owns
<1>3. ASSUME m.key # Key(t) PROVE Continues(t)
  BY <1>3, ReturnContinues DEF Import, Return
<1>4. Continues(t)
  BY <1>2, <1>3
<1> QED BY <1>4, LocalStep, Drop_Drops DEF Import, Lock

LEMMA RepairInv ==
  ASSUME Inv, NEW t \in Threads, NEW m \in Known, Repair(t, m)
  PROVE  Inv'
<1> DEFINE c == thread[t] d == thread'[t]
<1>1. /\ c \in Calls /\ Sound(c) /\ TypeInv /\ c.worker \in Workers
  BY CallOf DEF Repair, Lock, At
<1>2. /\ d.pc = "invalidate" /\ d.worker = c.worker /\ d.op = c.op /\ d.key = c.key
      /\ d.manifest = m /\ d.cause = "asked" /\ d \in Calls
      /\ thread' = [thread EXCEPT ![t] = d]
  BY <1>1, KnownIsGood, ZenonT(40) DEF Repair, Lock, TypeInv, Calls, PCs
<1>3. Holds(d)
  BY <1>1, <1>2, KnownIsGood, Apart DEF Holds, Serving
<1>4. HasRead(d) /\ Reads(d)
  BY <1>1, <1>2 DEF HasRead, Reads, Sound, Serving
<1>5. Continues(t)
  BY <1>2, <1>3, <1>4, KnownIsGood DEF Continues, Sound, Owns, Pending
<1> QED BY <1>5, LocalStep, Drop_Drops DEF Repair, Lock

-----------------------------------------------------------------------------
(* The slot is read: invalidate, renew, lookup and commit.                 *)

LEMMA InvalidatedContinues ==
  ASSUME Inv, NEW t \in Threads, Invalidated(t), ~At(t, "idle")
  PROVE  Continues(t)
  BY GotoContinues, ReturnContinues DEF Invalidated, Return

LEMMA InvalidateLoadInv ==
  ASSUME Inv, NEW t \in Threads, InvalidateLoad(t)
  PROVE  Inv'
<1> DEFINE c == thread[t] d == thread'[t] current == slot[Key(t)]
<1>1. /\ c \in Calls /\ Sound(c) /\ TypeInv /\ c.worker \in Workers /\ Key(t) \in Revisions
      /\ c.pc = "invalidate"
  BY CallOf DEF InvalidateLoad, At, Key
<1>2. ASSUME Concerns(t, current) PROVE Continues(t)
  <2>1. current \in Manifests /\ current.id = c.manifest.id
    BY <1>1, <1>2, IsManifestMeans DEF Concerns, Mine
  <2>2. thread' = [thread EXCEPT ![t].pc = "tombstone", ![t].before = current]
    BY <1>2 DEF InvalidateLoad
  <2>3. d \in Calls
    BY <1>1, <2>1, <2>2 DEF TypeInv, Calls, PCs
  <2>4. /\ d.pc = "tombstone" /\ d.before = current /\ d.manifest = c.manifest /\ d.key = c.key
        /\ d.worker = c.worker /\ d.op = c.op /\ thread' = [thread EXCEPT ![t] = d]
    BY <1>1, <2>2 DEF TypeInv, Calls
  <2>5. Holds(d)
    BY <1>1, <2>1, <2>4 DEF Sound, Holds, Serving
  <2>6. HasRead(d)
    BY <1>1, <2>4 DEF Sound, HasRead, Serving
  <2>7. Reads(d)
    BY <1>1, <2>4 DEF Sound, Reads
  <2> QED BY <2>3, <2>4, <2>5, <2>6, <2>7 DEF Continues, Owns, Pending, Sound
<1>3. ASSUME ~Concerns(t, current) PROVE Continues(t)
  BY <1>3, InvalidatedContinues DEF InvalidateLoad, At
<1>4. Continues(t)
  BY <1>2, <1>3
<1> QED BY <1>4, LocalStep, Drop_Drops DEF InvalidateLoad

LEMMA NotRenewedContinues ==
  ASSUME Inv, NEW t \in Threads, NotRenewed(t), At(t, "renew") \/ At(t, "renewed")
  PROVE  Continues(t) /\ Drops
<1>1. ~At(t, "idle") /\ Mine(t) # None
  BY CallOf DEF At, Mine, Sound, Holds, Serving
<1>2. ASSUME Goto(t, "invalidate") PROVE Continues(t)
  BY <1>1, <1>2, GotoContinues
<1>3. ASSUME Raise(t) PROVE Continues(t)
  BY <1>1, <1>3, RaiseContinues
<1> QED BY <1>2, <1>3, Drop_Drops DEF NotRenewed, local

LEMMA RenewLoadInv ==
  ASSUME Inv, NEW t \in Threads, RenewLoad(t)
  PROVE  Inv'
<1> DEFINE c == thread[t] d == thread'[t] current == slot[Key(t)]
           m == [current EXCEPT !.expires = now + Lifetime(current)]
<1>1. /\ c \in Calls /\ Sound(c) /\ TypeInv /\ c.worker \in Workers /\ Key(t) \in Revisions
      /\ c.pc = "renew" /\ c.cause # "published" /\ c.manifest # None
  BY CallOf DEF RenewLoad, At, Key, Sound, Holds, Serving
<1>2. ASSUME Concerns(t, current), Lifetime(current) > Floor PROVE Continues(t) /\ Drops
  <2>1. current \in Manifests /\ current.id = c.manifest.id
    BY <1>1, <1>2, IsManifestMeans DEF Concerns, Mine
  <2>2. /\ current.key = Key(t) /\ Good(current) /\ Installed(current.id, Key(t))
        /\ Circulates(current.id)
    BY <1>1, <2>1, InSlot
  <2>3. Lifetime(current) \in Int
    BY <1>1, <2>1, Parameters DEF Lifetime, Lower, TypeInv, Manifests
  <2>4. /\ m \in Manifests /\ m.id = current.id /\ m.key = current.key
        /\ m.content = current.content
    BY <1>1, <2>1, <2>3 DEF TypeInv, Manifests
  <2>5. thread' = [thread EXCEPT ![t].pc = "renewed", ![t].before = current, ![t].manifest = m]
        /\ UNCHANGED local
    BY <1>2 DEF RenewLoad
  <2> HIDE DEF m
  <2>6. d \in Calls
    BY <1>1, <2>1, <2>4, <2>5 DEF TypeInv, Calls, PCs
  <2>7. /\ d.pc = "renewed" /\ d.before = current /\ d.manifest = m /\ d.key = c.key
        /\ d.worker = c.worker /\ d.op = c.op /\ d.cause = c.cause
        /\ thread' = [thread EXCEPT ![t] = d]
    BY <1>1, <2>5 DEF TypeInv, Calls
  <2>8. Holds(d)
    <3>1. Good(m)
      BY <2>2, <2>4 DEF Good
    <3>2. /\ d.manifest.key = d.key /\ d.manifest.id = current.id
          /\ Installed(d.manifest.id, d.key)
      BY <2>2, <2>4, <2>7 DEF Key
    <3> QED BY <1>1, <2>1, <2>4, <2>7, <3>1, <3>2, Apart DEF Holds, Serving
  <2>9. HasRead(d)
    BY <1>1, <2>7 DEF Sound, HasRead, Serving
  <2>10. Reads(d)
    BY <1>1, <2>7 DEF Sound, Reads
  <2> QED BY <1>1, <2>1, <2>4, <2>5, <2>6, <2>7, <2>8, <2>9, <2>10, Drop_Drops
          DEF Continues, Owns, Pending, Sound, local
<1>3. ASSUME NotRenewed(t) PROVE Continues(t) /\ Drops
  BY <1>3, NotRenewedContinues DEF RenewLoad
<1>4. Continues(t) /\ Drops
  BY <1>2, <1>3 DEF RenewLoad
<1> QED BY <1>4, LocalStep DEF RenewLoad

LEMMA LookupInv ==
  ASSUME Inv, NEW t \in Threads, Lookup(t)
  PROVE  Inv'
<1> DEFINE current == slot[Key(t)]
<1>1. /\ TypeInv /\ Key(t) \in Revisions /\ ~At(t, "idle")
  BY CallOf DEF Lookup, At, Key
<1>2. ASSUME IsManifest(current) PROVE Continues(t)
  <2>1. /\ current \in Manifests /\ current.key = Key(t) /\ Good(current)
        /\ Installed(current.id, Key(t)) /\ Circulates(current.id)
    BY <1>1, <1>2, IsManifestMeans, InSlot
  <2>2. thread' = [thread EXCEPT ![t] = Recovering(t, current, "candidate")]
    BY <1>2 DEF Lookup
  <2>3. thread'[t] = Recovering(t, current, "candidate")
    BY <1>1, <2>2 DEF TypeInv
  <2>4. /\ thread'[t] \in Calls /\ Sound(thread'[t]) /\ ~Pending(thread'[t])
        /\ thread'[t].manifest = current
    BY <1>1, <2>1, <2>3, RecoveringIsSound
  <2> QED BY <2>1, <2>2, <2>3, <2>4 DEF Continues, Owns
<1>3. ASSUME ~IsManifest(current) PROVE Continues(t)
  BY <1>1, <1>3, GotoContinues DEF Lookup, Goto
<1>4. Continues(t)
  BY <1>2, <1>3
<1> QED BY <1>4, LocalStep, Drop_Drops DEF Lookup, local

LEMMA CommitLoadInv ==
  ASSUME Inv, NEW t \in Threads, CommitLoad(t)
  PROVE  Inv'
<1> DEFINE c == thread[t] d == thread'[t] current == slot[Key(t)]
<1>1. /\ c \in Calls /\ Sound(c) /\ TypeInv /\ c.worker \in Workers /\ Key(t) \in Revisions
      /\ c.pc = "commit" /\ c.manifest # None /\ ~At(t, "idle")
  BY CallOf DEF CommitLoad, At, Key, Sound, Holds, Serving
<1>2. ASSUME IsManifest(current) PROVE Continues(t)
  <2>1. /\ current \in Manifests /\ current.key = Key(t) /\ Good(current) /\ current.id \in Nat
        /\ Installed(current.id, Key(t)) /\ Circulates(current.id)
    BY <1>1, <1>2, IsManifestMeans, InSlot
  <2>2. thread' = [thread EXCEPT ![t] = Winner(t, current)]
    BY <1>2 DEF CommitLoad
  <2>3. d = Winner(t, current)
    BY <1>1, <2>2 DEF TypeInv
  <2>4. ASSUME current.id = Mine(t).id
        PROVE  c.op # "resolve"
    <3>1. ~Pending(c)
      BY <1>1, <2>1, <2>4 DEF Inv, Own, Owns, Mine
    <3> QED BY <1>1, <3>1 DEF Pending, Sound, HasRead, Serving
  <2>5. ASSUME current.id = Mine(t).id
        PROVE  d \in Calls /\ Sound(d) /\ ~Pending(d) /\ d.manifest = current
    BY <1>1, <2>1, <2>3, <2>4, <2>5, FoundIsSound DEF Winner
  <2>6. ASSUME current.id # Mine(t).id
        PROVE  d \in Calls /\ Sound(d) /\ ~Pending(d) /\ d.manifest = current
    BY <1>1, <2>1, <2>3, <2>6, RecoveringIsSound DEF Winner
  <2> QED BY <2>1, <2>2, <2>3, <2>5, <2>6 DEF Continues, Owns
<1>3. ASSUME ~IsManifest(current) PROVE Continues(t)
  <2>1. thread' = [thread EXCEPT ![t].pc = "install", ![t].before = current]
    BY <1>3 DEF CommitLoad
  <2>2. current \in {None, Tombstone} /\ current \notin Manifests
    BY <1>3, Apart DEF IsManifest
  <2>3. d \in Calls
    BY <1>1, <2>1, <2>2 DEF TypeInv, Calls, PCs
  <2>4. /\ d.pc = "install" /\ d.before = current /\ d.manifest = c.manifest /\ d.key = c.key
        /\ d.worker = c.worker /\ d.op = c.op /\ d.cause = c.cause
        /\ thread' = [thread EXCEPT ![t] = d]
    BY <1>1, <2>1 DEF TypeInv, Calls
  <2>5. Holds(d)
    BY <1>1, <2>2, <2>4 DEF Sound, Holds, Serving, Pending
  <2>6. HasRead(d)
    BY <1>1, <2>4 DEF Sound, HasRead, Serving
  <2>7. Reads(d)
    BY <1>1, <2>4 DEF Sound, Reads
  <2> QED BY <1>1, <2>3, <2>4, <2>5, <2>6, <2>7 DEF Continues, Owns, Pending, Sound
<1>4. Continues(t)
  BY <1>2, <1>3
<1> QED BY <1>4, LocalStep, Drop_Drops DEF CommitLoad, local

-----------------------------------------------------------------------------
(* The catalog is read: building, and the checks of key and version.       *)

LEMMA Between ==
  ASSUME NEW a \in Nat, NEW b \in Nat, NEW c \in Nat
  PROVE  a <= a /\ (a <= b /\ b <= c /\ c = a => b = a)
  OBVIOUS

LEMMA BuildInv ==
  ASSUME Inv, NEW t \in Threads,
         Build(t, "build", "built") \/ Build(t, "ordinary", "ordinary built")
  PROVE  Inv'
<1> DEFINE c == thread[t] d == thread'[t]
<1>1. /\ c \in Calls /\ Sound(c) /\ TypeInv /\ c.worker \in Workers
      /\ revision \in Nat /\ revision \in Revisions /\ c.key \in Nat
  BY CallOf, RevisionsAreNaturals DEF Build, At, TypeInv
<1>2. PICK next \in {"built", "ordinary built"} :
        thread' = [thread EXCEPT ![t].pc = next, ![t].content = revision]
  BY DEF Build
<1>3. d \in Calls
  BY <1>1, <1>2 DEF TypeInv, Calls, PCs
<1>4. /\ d.pc = next /\ d.content = revision /\ d.manifest = c.manifest /\ d.key = c.key
      /\ d.worker = c.worker /\ thread' = [thread EXCEPT ![t] = d]
  BY <1>1, <1>2 DEF TypeInv, Calls
<1>5. Holds(d)
  BY <1>1, <1>4 DEF Sound, Holds, Serving
<1>6. HasRead(d)
  BY <1>1, <1>4 DEF Sound, HasRead, Serving
<1>7. Reads(d)
  <2>1. d.key <= revision /\ d.key <= d.content /\ d.content <= revision
    <3>1. c.key <= revision
      BY <1>1 DEF Sound, Reads
    <3>2. d.key = c.key /\ d.content = revision
      BY <1>4
    <3>3. c.key \in Nat /\ revision \in Nat
      BY <1>1
    <3> QED BY <3>1, <3>2, <3>3, Between
  <2> QED BY <1>4, <2>1 DEF Reads
<1>8. Continues(t)
  BY <1>3, <1>4, <1>5, <1>6, <1>7 DEF Continues, Owns, Pending, Sound
<1> QED BY <1>8, LocalStep, Drop_Drops DEF Build, local

LEMMA BuiltInv ==
  ASSUME Inv, NEW t \in Threads,
         Built(t, "built", "check built") \/ Built(t, "ordinary built", "check ordinary")
  PROVE  Inv'
<1> DEFINE c == thread[t] d == thread'[t] content == Inventory(t)
<1>1. /\ c \in Calls /\ Sound(c) /\ TypeInv /\ c.worker \in Workers /\ c.key \in Nat
      /\ c.content \in Nat /\ revision \in Nat /\ content \in Revisions \cup {Torn}
  BY CallOf, RevisionsAreNaturals DEF Built, At, TypeInv, Calls, Inventory
<1>2. /\ c.key <= revision /\ c.key <= c.content /\ c.content <= revision
  BY <1>1 DEF Built, At, Sound, Reads
<1>3. revision = c.key => content = c.key
  <2> HIDE DEF content
  <2>0. c.key \in Nat /\ c.content \in Nat /\ revision \in Nat
    BY <1>1
  <2>1. revision = c.key => revision = c.content
    BY <1>2, <2>0, Between
  <2> QED BY <2>1 DEF content, Inventory
<1>4. PICK next \in {"check built", "check ordinary"} :
        thread' = [thread EXCEPT ![t].pc = next, ![t].content = content]
  BY DEF Built
<1> HIDE DEF content
<1>5. d \in Calls
  BY <1>1, <1>4 DEF TypeInv, Calls, PCs
<1>6. /\ d.pc = next /\ d.content = content /\ d.manifest = c.manifest /\ d.key = c.key
      /\ d.worker = c.worker /\ thread' = [thread EXCEPT ![t] = d]
  BY <1>1, <1>4 DEF TypeInv, Calls
<1>7. Holds(d)
  BY <1>1, <1>6 DEF Sound, Holds, Serving
<1>8. HasRead(d)
  BY <1>1, <1>6 DEF Sound, HasRead, Serving
<1>9. Reads(d)
  BY <1>2, <1>3, <1>6 DEF Reads
<1>10. Continues(t)
  BY <1>5, <1>6, <1>7, <1>8, <1>9 DEF Continues, Owns, Pending, Sound
<1> QED BY <1>10, LocalStep, Drop_Drops DEF Built, local

LEMMA CheckBuiltInv ==
  ASSUME Inv, NEW t \in Threads, CheckBuilt(t)
  PROVE  Inv'
<1> DEFINE c == thread[t] d == thread'[t]
<1>1. /\ c \in Calls /\ Sound(c) /\ TypeInv /\ c.worker \in Workers /\ c.pc = "check built"
  BY CallOf DEF CheckBuilt, At
<1>2. ASSUME SameGeneration(t) PROVE Continues(t)
  <2>1. thread' = [thread EXCEPT ![t].pc = "upload"]
    BY <1>2 DEF CheckBuilt, Goto
  <2>2. /\ d \in Calls /\ d.pc = "upload" /\ d.content = c.content /\ d.manifest = c.manifest
        /\ d.key = c.key /\ d.worker = c.worker /\ thread' = [thread EXCEPT ![t] = d]
    BY <1>1, <2>1 DEF TypeInv, Calls, PCs
  <2>3. Holds(d)
    BY <1>1, <2>2 DEF Sound, Holds, Serving
  <2>4. HasRead(d)
    BY <1>1, <2>2 DEF Sound, HasRead, Serving
  <2>5. Reads(d)
    BY <1>1, <1>2, <2>2 DEF Sound, Reads, SameGeneration, Key
  <2> QED BY <2>2, <2>3, <2>4, <2>5 DEF Continues, Owns, Pending, Sound
<1>3. ASSUME ~SameGeneration(t) PROVE Continues(t)
  BY <1>3, RaiseContinues DEF CheckBuilt, At
<1>4. Continues(t)
  BY <1>2, <1>3
<1> QED BY <1>4, LocalStep, Drop_Drops DEF CheckBuilt

LEMMA CheckImportInv ==
  ASSUME Inv, NEW t \in Threads, CheckImport(t)
  PROVE  Inv'
<1>1. At(t, "imported") /\ ~At(t, "idle")
  BY DEF CheckImport, At
<1>2. Continues(t)
  BY <1>1, GotoContinues, RaiseContinues DEF CheckImport
<1> QED BY <1>2, LocalStep, Drop_Drops DEF CheckImport

LEMMA FallbackKeyInv ==
  ASSUME Inv, NEW t \in Threads, FallbackKey(t)
  PROVE  Inv'
<1> DEFINE c == thread[t] d == thread'[t]
<1>1. /\ c \in Calls /\ Sound(c) /\ TypeInv /\ c.worker \in Workers
      /\ revision \in Nat /\ revision \in Revisions
  BY CallOf, RevisionsAreNaturals DEF FallbackKey, At, TypeInv
<1>2. ASSUME SameVersion(t) PROVE Continues(t)
  <2>1. thread' = [thread EXCEPT ![t].pc = "ordinary", ![t].key = revision]
    BY <1>2 DEF FallbackKey
  <2>2. d \in Calls
    BY <1>1, <2>1 DEF TypeInv, Calls, PCs
  <2>3. /\ d.pc = "ordinary" /\ d.key = revision /\ d.manifest = c.manifest
        /\ d.worker = c.worker /\ thread' = [thread EXCEPT ![t] = d]
    BY <1>1, <2>1 DEF TypeInv, Calls
  <2>4. Holds(d)
    BY <1>1, <2>3 DEF Sound, Holds, Serving
  <2>5. HasRead(d)
    BY <1>1, <2>3 DEF Sound, HasRead, Serving
  <2>6. Reads(d)
    <3>1. d.key <= revision
      BY <1>1, <2>3
    <3> QED BY <2>3, <3>1 DEF Reads
  <2> QED BY <2>2, <2>3, <2>4, <2>5, <2>6 DEF Continues, Owns, Pending, Sound
<1>3. ASSUME ~SameVersion(t) PROVE Continues(t)
  BY <1>3, ReturnContinues DEF FallbackKey
<1>4. Continues(t)
  BY <1>2, <1>3
<1> QED BY <1>4, LocalStep, Drop_Drops DEF FallbackKey, local

-----------------------------------------------------------------------------
(* Steps on the bucket, the cache and the history.                         *)

\* What is left to show of a step of t whose call goes on with nothing new.
LEMMA ContinuedInv ==
  ASSUME Inv, NEW t \in Threads, Continues(t), TypeInv',
         \A w \in Workers \cup {None} : Onward(w), Slots', Caches', Answered',
         \A id \in Nat : Circulates(id)' =>
           Circulates(id) \/ (Owns(thread[t], id) /\ ~Pending(thread'[t]))
  PROVE  Inv'
<1> DEFINE d == thread'[t]
<1>1. Sound(thread[t])'
  <2>1. d \in Calls /\ Sound(d) /\ TypeInv
    BY DEF Continues, Inv
  <2>2. Onward(d.worker)
    BY <2>1 DEF Calls
  <2> QED BY <2>1, <2>2, SoundStays
<1>2. Exchanges(t) /\ KeepsOwn(t)
  <2>1. ASSUME NEW id \in Nat, Pending(thread'[t]), Owns(thread'[t], id)
        PROVE  Pending(thread[t]) /\ Owns(thread[t], id)
    BY <2>1 DEF Continues, Owns
  <2> QED BY <2>1 DEF Continues, Exchanges, KeepsOwn
<1>3. \A u \in Threads \ {t} : thread'[u] = thread[u]
  BY DEF Continues, Inv, TypeInv
<1> QED BY <1>1, <1>2, <1>3, StepInv

LEMMA RememberStores ==
  ASSUME Inv, NEW t \in Threads, NEW m \in Manifests, WorkerOf(t) \in Workers, Remember(t, m)
  PROVE  /\ validated' \in [Workers -> [Revisions -> Manifests \cup {None}]]
         /\ \A w \in Workers, k \in Revisions :
              \/ validated'[w][k] \in {None, validated[w][k]}
              \/ w = WorkerOf(t) /\ k = m.key /\ validated'[w][k] = m
  BY DEF Remember, Inv, TypeInv

LEMMA CachesTake ==
  ASSUME Inv, TypeInv', \A w \in Workers \cup {None} : Onward(w),
         NEW v \in Workers, NEW m \in Manifests,
         Good(m)', Installed(m.id, m.key)', Reference(m) \in seen'[v],
         \A w \in Workers, k \in Revisions :
           \/ validated'[w][k] \in {None, validated[w][k]}
           \/ w = v /\ k = m.key /\ validated'[w][k] = m
  PROVE  Caches'
<1> SUFFICES ASSUME NEW w \in Workers, NEW k \in Revisions, NEW n, n = validated'[w][k], n # None
             PROVE  n.key = k /\ Good(n)' /\ Installed(n.id, k)' /\ Reference(n) \in seen'[w]
  BY DEF Caches, Good, Installed, Reference
<1>1. CASE n = validated[w][k]
  <2>1. n \in Manifests /\ n.key = k /\ Good(n) /\ Installed(n.id, k) /\ Reference(n) \in seen[w]
    BY <1>1 DEF Inv, TypeInv, Caches
  <2>2. n.id \in Nat /\ uploads \in Nat /\ uploads' \in Nat
    BY <2>1 DEF Manifests, Inv, TypeInv
  <2> QED BY <2>1, <2>2 DEF Onward, Good
<1>2. CASE w = v /\ k = m.key /\ n = m
  BY <1>2
<1> QED BY <1>1, <1>2

\* After a step the call d has in hand m, read back and not yet committed, or
\* installed.
LEMMA SoundAfter ==
  ASSUME NEW t \in Threads, NEW d \in Calls, thread'[t] = d, Holds(d)', HasRead(d)', Reads(d)'
  PROVE  Sound(thread[t])'
  BY ZenonT(40) DEF Sound, Holds, HasRead, Reads, Good, Installed

LEMMA CirculatingIsUploaded ==
  ASSUME Inv, NEW id \in Nat, Circulates(id)
  PROVE  id <= uploads /\ id # uploads + 1
<1>1. uploads \in Nat
  BY DEF Inv, TypeInv
<1>2. id <= uploads
  BY DEF Inv, Slots, Caches, Good, Circulates
<1> QED BY <1>1, <1>2

-----------------------------------------------------------------------------
LEMMA ReadbackInv ==
  ASSUME Inv, NEW t \in Threads, Readback(t)
  PROVE  Inv'
<1> DEFINE c == thread[t]
<1>1. /\ c \in Calls /\ Sound(c) /\ TypeInv /\ c.worker \in Workers /\ Key(t) \in Revisions
      /\ c.pc = "readback" /\ c.manifest \in Manifests /\ WorkerOf(t) = c.worker
  BY CallOf DEF Readback, At, Key, Sound, Holds, Serving, Calls, WorkerOf
<1>2. PICK m \in Manifests : m = c.manifest
  BY <1>1
<1>3. /\ m.key = c.key /\ Good(m) /\ m.id \in Nat /\ Reference(m) \in Nat \X Int
      /\ Pending(c) \/ Installed(m.id, m.key)
  BY <1>1, <1>2 DEF Sound, Holds, Serving, Manifests, Reference
<1>4. /\ seen' = [seen EXCEPT ![c.worker] = @ \cup {Reference(m)}]
      /\ Reference(m) \in seen'[c.worker] /\ seen' \in [Workers -> SUBSET (Nat \X Int)]
  BY <1>1, <1>2, <1>3 DEF Readback, Mine, TypeInv
<1>5. \A w \in Workers \cup {None} : Onward(w)
  BY <1>1, <1>4, RevisionsAreNaturals DEF Readback, TypeInv, Onward, Installed, world, bucket
<1>6. \/ c.cause = "published" /\ Goto(t, "commit") /\ UNCHANGED cache
      \/ c.cause = "imported" /\ Goto(t, "imported") /\ Remember(t, m)
      \/ /\ c.cause \notin {"published", "imported"}
         /\ thread' = [thread EXCEPT ![t] = Found(t, m)] /\ Remember(t, m)
  BY <1>2 DEF Readback, Mine
<1>7. \/ UNCHANGED validated /\ Pending(c)
      \/ /\ validated' \in [Workers -> [Revisions -> Manifests \cup {None}]]
         /\ \A w \in Workers, k \in Revisions :
              \/ validated'[w][k] \in {None, validated[w][k]}
              \/ w = c.worker /\ k = m.key /\ validated'[w][k] = m
  BY <1>1, <1>6, RememberStores DEF cache, Pending
<1>8. PICK d \in Calls :
        /\ thread' = [thread EXCEPT ![t] = d]
        /\ d.manifest = m /\ d.key = c.key /\ d.worker = c.worker /\ d.op = c.op
        /\ \/ c.cause = "published" /\ d.pc = "commit" /\ d.cause = "published"
           \/ c.cause = "imported" /\ d.pc = "imported" /\ d.cause = "imported"
           \/ c.cause \notin {"published", "imported"} /\ d.pc = "final"
  <2>1. CASE c.cause \in {"published", "imported"}
    <3> DEFINE pc == IF c.cause = "published" THEN "commit" ELSE "imported"
    <3>1. thread' = [thread EXCEPT ![t].pc = pc]
      <4>1. CASE c.cause = "published"
        BY <1>6, <4>1 DEF Goto
      <4>2. CASE c.cause = "imported"
        BY <1>6, <4>2 DEF Goto
      <4> QED BY <2>1, <4>1, <4>2
    <3>0. pc \in PCs
      BY DEF PCs
    <3> HIDE DEF pc
    <3>2. thread'[t] \in Calls
      BY <1>1, <3>0, <3>1 DEF TypeInv, Calls
    <3>3. /\ thread'[t].pc = pc /\ thread'[t].cause = c.cause /\ thread'[t].manifest = m
          /\ thread'[t].key = c.key /\ thread'[t].worker = c.worker /\ thread'[t].op = c.op
          /\ thread' = [thread EXCEPT ![t] = thread'[t]]
      BY <1>1, <1>2, <3>1 DEF TypeInv, Calls
    <3> QED BY <2>1, <3>2, <3>3 DEF pc
  <2>2. CASE c.cause \notin {"published", "imported"}
    <3>1. thread' = [thread EXCEPT ![t] = Found(t, m)]
      BY <1>6, <2>2
    <3>2. /\ Found(t, m) \in Calls /\ Found(t, m).pc = "final" /\ Found(t, m).manifest = m
          /\ Found(t, m).key = c.key /\ Found(t, m).worker = c.worker /\ Found(t, m).op = c.op
      BY <1>1, IdleIsSound, ZenonT(40) DEF Found, Key, WorkerOf, Idle, Calls, PCs
    <3> QED BY <2>2, <3>1, <3>2
  <2> QED BY <2>1, <2>2
<1>9. TypeInv'
  BY <1>1, <1>4, <1>7, <1>8 DEF Readback, TypeInv, world, bucket
<1>10. Slots' /\ Answered'
  BY <1>5, AnsweredStays DEF Readback, Inv, Slots, Good, bucket
<1>11. Installed(m.id, m.key) => Installed(m.id, m.key)'
  BY <1>1, <1>3, <1>5 DEF Onward, Key
<1>12. Caches'
  <2>1. CASE UNCHANGED validated
    <3>1. Drops
      BY <1>1, <2>1 DEF Drops, TypeInv
    <3> QED BY <1>5, <1>9, <3>1, CachesStay
  <2>2. CASE ~UNCHANGED validated
    <3>1. ~Pending(c)
      BY <1>6, <2>2 DEF Pending, cache
    <3>2. Good(m)' /\ Installed(m.id, m.key)'
      BY <1>3, <1>11, <3>1 DEF Good, Readback, bucket
    <3> QED BY <1>1, <1>4, <1>5, <1>7, <1>9, <2>2, <3>2, CachesTake
  <2> QED BY <2>1, <2>2
<1>13. Sound(thread[t])'
  <2>1. Holds(d)'
    <3>1. Good(m)'
      BY <1>3 DEF Good, Readback, bucket
    <3> QED BY <1>1, <1>3, <1>8, <1>11, <3>1, Apart DEF Holds, Serving, Pending
  <2>2. HasRead(d)'
    BY <1>1, <1>4, <1>8 DEF HasRead, Sound, Serving
  <2>3. Reads(d)'
    BY <1>1, <1>8 DEF Reads, Sound, Readback, world
  <2> QED BY <1>1, <1>8, <2>1, <2>2, <2>3, SoundAfter DEF TypeInv
<1>14. Exchanges(t) /\ KeepsOwn(t)
  <2>1. thread'[t] = d
    BY <1>1, <1>8 DEF TypeInv
  <2>2. \A id \in Nat : Circulates(id)' => Circulates(id) \/ (Owns(c, id) /\ ~Pending(c))
    <3>1. CASE UNCHANGED validated
      BY <3>1 DEF Circulates, Readback, bucket
    <3>2. CASE ~UNCHANGED validated
      BY <1>2, <1>6, <1>7, <3>2, Apart DEF Circulates, Owns, Readback, bucket, Pending, cache
    <3> QED BY <3>1, <3>2
  <2>3. \A id \in Nat : Owns(d, id) => Owns(c, id)
    BY <1>2, <1>8 DEF Owns
  <2>4. Pending(d) => Pending(c)
    BY <1>1, <1>8 DEF Pending
  <2> QED BY <2>1, <2>2, <2>3, <2>4 DEF Exchanges, KeepsOwn
<1>15. \A u \in Threads \ {t} : thread'[u] = thread[u]
  BY <1>1, <1>8 DEF TypeInv
<1> QED BY <1>5, <1>9, <1>10, <1>12, <1>13, <1>14, <1>15, StepInv

LEMMA FailedContinues ==
  ASSUME Inv, NEW t \in Threads, Failed(t), ~At(t, "idle"), Mine(t) # None
  PROVE  Continues(t)
  BY GotoContinues, RaiseContinues DEF Failed

LEMMA ReadbackFailsInv ==
  ASSUME Inv, NEW t \in Threads, ReadbackFails(t)
  PROVE  Inv'
<1>1. At(t, "readback") /\ ~At(t, "idle") /\ Mine(t) # None
  BY CallOf DEF ReadbackFails, At, Mine, Sound, Holds, Serving
<1>2. Continues(t)
  BY <1>1, FailedContinues DEF ReadbackFails
<1> QED BY <1>2, LocalStep, Drop_Drops DEF ReadbackFails

LEMMA UploadInv ==
  ASSUME Inv, NEW t \in Threads, Upload(t)
  PROVE  Inv'
<1> DEFINE c == thread[t]
<1>1. /\ c \in Calls /\ Sound(c) /\ TypeInv /\ c.worker \in Workers /\ Key(t) \in Revisions
      /\ c.pc = "upload" /\ ~At(t, "idle") /\ uploads \in Nat /\ now \in Nat
  BY CallOf DEF Upload, At, Key, TypeInv
<1>2. c.content = c.key /\ c.content \in Revisions \cup {Torn}
  BY <1>1 DEF Sound, Reads, Calls
<1>3. PICK m \in Manifests :
        /\ m = [id |-> uploads + 1, key |-> Key(t), content |-> thread[t].content,
                expires |-> now + TTL, retain |-> now + Retention]
        /\ m.id = uploads + 1 /\ m.key = c.key /\ m.content = c.content
  <2> DEFINE m == [id |-> uploads + 1, key |-> Key(t), content |-> thread[t].content,
                   expires |-> now + TTL, retain |-> now + Retention]
  <2>1. now + TTL \in Int /\ now + Retention \in Int /\ uploads + 1 \in Nat
    BY <1>1, Parameters
  <2>2. m \in Manifests
    BY <1>1, <1>2, <2>1 DEF Manifests
  <2>3. m.id = uploads + 1 /\ m.key = c.key /\ m.content = c.content
    BY DEF Key
  <2> QED BY <2>2, <2>3
<1>4. /\ uploads' = uploads + 1 /\ uploads <= uploads' /\ uploads' \in Nat
      /\ UNCHANGED <<revision, slot, validated, removed, answers, seen>>
      /\ \/ thread' = [thread EXCEPT ![t].pc = "readback", ![t].manifest = m,
                                     ![t].cause = "published", ![t].content = Torn]
         \/ Raise(t)
  BY <1>1, <1>3 DEF Upload, world, cache, history
<1>5. \A w \in Workers \cup {None} : Onward(w)
  BY <1>1, <1>4, RevisionsAreNaturals DEF TypeInv, Onward, Installed
<1>6. \A n \in Manifests : Good(n) => Good(n)'
  BY <1>1, <1>4 DEF Good, Manifests
<1>7. Slots' /\ Answered'
  <2>1. Slots'
    <3>1. ASSUME NEW k \in Revisions, NEW s \in Manifests, s = slot[k]
          PROVE  s.key = k /\ Good(s)'
      BY <1>6, <3>1, InSlot
    <3> QED BY <1>4, <3>1 DEF Slots, Good
  <2> QED BY <1>4, <1>5, <2>1, AnsweredStays
<1>8. \A id \in Nat : Circulates(id)' => Circulates(id)
  BY <1>4 DEF Circulates
<1>9. CASE Raise(t)
  <2>1. Continues(t)
    BY <1>1, <1>9, RaiseContinues
  <2>2. TypeInv'
    BY <1>1, <1>4, <2>1 DEF TypeInv, Continues, Upload, world
  <2>3. Caches'
    BY <1>1, <1>4, <1>5, <2>2, CachesStay DEF Drops, TypeInv
  <2> QED BY <1>5, <1>7, <1>8, <2>1, <2>2, <2>3, ContinuedInv
<1>10. CASE thread' = [thread EXCEPT ![t].pc = "readback", ![t].manifest = m,
                                     ![t].cause = "published", ![t].content = Torn]
  <2>1. PICK d \in Calls :
          /\ thread' = [thread EXCEPT ![t] = d]
          /\ d.pc = "readback" /\ d.manifest = m /\ d.cause = "published" /\ d.key = c.key
          /\ d.worker = c.worker
    <3>1. thread'[t] \in Calls
      BY <1>1, <1>10 DEF TypeInv, Calls, PCs
    <3>2. /\ thread'[t].pc = "readback" /\ thread'[t].manifest = m
          /\ thread'[t].cause = "published" /\ thread'[t].key = c.key
          /\ thread'[t].worker = c.worker /\ thread' = [thread EXCEPT ![t] = thread'[t]]
      BY <1>1, <1>10 DEF TypeInv, Calls
    <3> QED BY <3>1, <3>2
  <2>2. thread'[t] = d /\ \A u \in Threads \ {t} : thread'[u] = thread[u]
    BY <1>1, <2>1 DEF TypeInv
  <2>3. TypeInv'
    BY <1>1, <1>4, <2>1 DEF TypeInv, Upload, world
  <2>4. Caches'
    BY <1>1, <1>4, <1>5, <2>3, CachesStay DEF Drops, TypeInv
  <2>5. Sound(thread[t])'
    <3>1. Good(m)'
      BY <1>1, <1>2, <1>3, <1>4 DEF Good
    <3>2. Holds(d)'
      BY <1>3, <2>1, <3>1, Apart DEF Holds, Serving, Pending
    <3>3. HasRead(d)'
      BY <1>1, <2>1 DEF HasRead
    <3>4. Reads(d)'
      BY <1>1, <1>4, <2>1 DEF Reads, Sound
    <3> QED BY <2>2, <3>2, <3>3, <3>4, SoundAfter
  <2>6. Exchanges(t) /\ KeepsOwn(t)
    <3>1. \A id \in Nat : Owns(d, id) => id = uploads + 1
      BY <1>3, <2>1 DEF Owns
    <3>2. ~Circulates(uploads + 1)
      BY <1>1, CirculatingIsUploaded
    <3>3. \A id \in Nat : id = uploads + 1 => ~Circulates(id)'
      BY <1>8, <3>2
    <3> QED BY <1>8, <2>2, <3>1, <3>3 DEF Exchanges, KeepsOwn
  <2> QED BY <1>5, <1>7, <2>2, <2>3, <2>4, <2>5, <2>6, StepInv
<1> QED BY <1>4, <1>9, <1>10

LEMMA InvalidatePutInv ==
  ASSUME Inv, NEW t \in Threads, InvalidatePut(t) \/ InvalidateUnanswered(t)
  PROVE  Inv'
<1> DEFINE c == thread[t]
<1>1. /\ c \in Calls /\ Sound(c) /\ TypeInv /\ Key(t) \in Revisions
      /\ c.pc = "tombstone" /\ ~At(t, "idle") /\ c.before \in Manifests
  BY CallOf DEF InvalidatePut, InvalidateUnanswered, At, Key, Sound, Holds
<1>2. Continues(t)
  BY <1>1, InvalidatedContinues, RaiseContinues DEF InvalidatePut, InvalidateUnanswered
<1>3. /\ UNCHANGED <<revision, uploads, validated, answers, seen>>
      /\ \/ /\ slot' = [slot EXCEPT ![Key(t)] = Tombstone] /\ slot[Key(t)] \in Manifests
            /\ removed' = removed \cup {m.id : m \in {slot[Key(t)]} \ {Tombstone}}
         \/ UNCHANGED <<slot, removed>>
  BY <1>1 DEF InvalidatePut, InvalidateUnanswered, SameTag, world, cache
<1>4. /\ \A k \in Revisions : slot'[k] \in {slot[k], Tombstone}
      /\ slot' \in [Revisions -> Manifests \cup {None, Tombstone}]
  BY <1>1, <1>3 DEF TypeInv
<1>5. \A id \in Nat, k \in Revisions : Installed(id, k) => Installed(id, k)'
  <2>1. CASE UNCHANGED <<slot, removed>>
    BY <2>1 DEF Installed
  <2>2. CASE /\ slot' = [slot EXCEPT ![Key(t)] = Tombstone] /\ slot[Key(t)] \in Manifests
             /\ removed' = removed \cup {m.id : m \in {slot[Key(t)]} \ {Tombstone}}
    <3>1. slot[Key(t)].id \in removed' /\ removed \subseteq removed'
      BY <2>2, Apart
    <3>2. \A k \in Revisions \ {Key(t)} : slot'[k] = slot[k]
      BY <1>1, <2>2 DEF TypeInv
    <3> QED BY <3>1, <3>2 DEF Installed
  <2> QED BY <1>3, <2>1, <2>2
<1>6. \A w \in Workers \cup {None} : Onward(w)
  BY <1>1, <1>3, <1>5, RevisionsAreNaturals DEF TypeInv, Onward
<1>7. TypeInv'
  BY <1>1, <1>2, <1>3, <1>4 DEF TypeInv, Continues, InvalidatePut, InvalidateUnanswered, world
<1>8. Slots' /\ Caches' /\ Answered'
  <2>1. Slots'
    BY <1>3, <1>4, Apart DEF Inv, Slots, Good
  <2>2. Drops
    BY <1>1, <1>3 DEF Drops, TypeInv
  <2> QED BY <1>3, <1>6, <1>7, <2>1, <2>2, CachesStay, AnsweredStays
<1>9. \A id \in Nat : Circulates(id)' => Circulates(id)
  BY <1>3, <1>4, Apart DEF Circulates
<1> QED BY <1>2, <1>6, <1>7, <1>8, <1>9, ContinuedInv

LEMMA AgainContinues ==
  ASSUME Inv, NEW t \in Threads, NEW pc,
         \/ At(t, "renewed") /\ pc = "renew" /\ Again(t, pc)
         \/ At(t, "install") /\ pc = "commit" /\ Again(t, pc)
  PROVE  Continues(t)
<1> DEFINE c == thread[t] d == thread'[t]
<1>1. /\ c \in Calls /\ Sound(c) /\ TypeInv /\ c.worker \in Workers /\ ~At(t, "idle")
      /\ pc \in {"renew", "commit"}
  BY CallOf DEF At
<1>2. ASSUME thread' = [thread EXCEPT ![t].pc = pc, ![t].tries = @ + 1] PROVE Continues(t)
  <2>1. d \in Calls
    <3>1. c.tries + 1 \in Nat /\ pc \in PCs
      <4>1. c.tries \in Nat /\ pc \in PCs
        BY <1>1 DEF Calls, PCs
      <4>2. \A n \in Nat : n + 1 \in Nat
        OBVIOUS
      <4> QED BY <4>1, <4>2
    <3>2. d = [c EXCEPT !.pc = pc, !.tries = @ + 1]
      BY <1>1, <1>2 DEF TypeInv
    <3> QED BY <1>1, <3>1, <3>2 DEF Calls
  <2>2. /\ d.pc = pc /\ d.manifest = c.manifest /\ d.key = c.key /\ d.cause = c.cause
        /\ d.worker = c.worker /\ d.op = c.op /\ thread' = [thread EXCEPT ![t] = d]
    BY <1>1, <1>2 DEF TypeInv, Calls
  <2>3. Holds(d)
    BY <1>1, <2>2 DEF Sound, Holds, Serving, Pending, At
  <2>4. HasRead(d)
    BY <1>1, <2>2 DEF Sound, HasRead, Serving, At
  <2>5. Reads(d)
    BY <1>1, <2>2 DEF Sound, Reads
  <2>6. Pending(d) => Pending(c)
    BY <1>1, <2>2 DEF Pending, Sound, Holds, At
  <2> QED BY <2>1, <2>2, <2>3, <2>4, <2>5, <2>6 DEF Continues, Owns, Sound
<1>3. ASSUME Failed(t) PROVE Continues(t)
  <2>1. Mine(t) # None
    BY <1>1 DEF At, Mine, Sound, Holds, Serving, Pending
  <2> QED BY <1>1, <1>3, <2>1, FailedContinues
<1> QED BY <1>2, <1>3 DEF Again

LEMMA RenewPutInv ==
  ASSUME Inv, NEW t \in Threads, RenewPut(t) \/ RenewUnanswered(t)
  PROVE  Inv'
<1> DEFINE c == thread[t] d == thread'[t]
<1>1. /\ c \in Calls /\ Sound(c) /\ TypeInv /\ c.worker \in Workers /\ Key(t) \in Revisions
      /\ c.pc = "renewed" /\ ~At(t, "idle") /\ c.before \in Manifests /\ c.manifest \in Manifests
      /\ c.before.id = c.manifest.id /\ Good(c.manifest) /\ c.manifest.key = Key(t)
      /\ c.cause # "published"
  BY CallOf DEF RenewPut, RenewUnanswered, At, Key, Sound, Holds, Serving, Calls
<1>2. Continues(t) /\ Drops
  <2>1. ASSUME RenewPut(t), ~SameTag(t) PROVE Continues(t) /\ Drops
    BY <2>1, AgainContinues, Drop_Drops DEF RenewPut
  <2>2. ASSUME RenewPut(t), SameTag(t), ~Usable(Mine(t)) PROVE Continues(t) /\ Drops
    BY <2>2, NotRenewedContinues DEF RenewPut
  <2>3. ASSUME thread' = [thread EXCEPT ![t].pc = "readback", ![t].tries = 0], UNCHANGED local
        PROVE  Continues(t) /\ Drops
    <3>1. d \in Calls
      BY <1>1, <2>3 DEF TypeInv, Calls, PCs
    <3>2. /\ d.pc = "readback" /\ d.manifest = c.manifest /\ d.key = c.key /\ d.cause = c.cause
          /\ d.worker = c.worker /\ d.op = c.op /\ thread' = [thread EXCEPT ![t] = d]
      BY <1>1, <2>3 DEF TypeInv, Calls
    <3>3. Holds(d)
      BY <1>1, <3>2 DEF Sound, Holds, Serving, Pending
    <3>4. HasRead(d)
      BY <1>1, <3>2 DEF Sound, HasRead, Serving
    <3>5. Reads(d)
      BY <1>1, <3>2 DEF Sound, Reads
    <3>6. ~Pending(d)
      BY <1>1, <3>2 DEF Pending
    <3> QED BY <2>3, <3>1, <3>2, <3>3, <3>4, <3>5, <3>6, Drop_Drops
            DEF Continues, Owns, Sound, local
  <2>4. ASSUME RenewUnanswered(t) PROVE Continues(t) /\ Drops
    <3>1. Mine(t) # None
      BY <1>1, Apart DEF Mine
    <3> QED BY <1>1, <2>4, <3>1, FailedContinues, Drop_Drops DEF RenewUnanswered
  <2> QED BY <2>1, <2>2, <2>3, <2>4 DEF RenewPut
<1>3. /\ UNCHANGED <<revision, uploads, removed, answers, seen>>
      /\ \/ slot' = [slot EXCEPT ![Key(t)] = c.manifest] /\ slot[Key(t)] = c.before
         \/ UNCHANGED slot
  BY <1>1 DEF RenewPut, RenewUnanswered, SameTag, Mine, world, history
<1>4. /\ slot' \in [Revisions -> Manifests \cup {None, Tombstone}]
      /\ \A k \in Revisions :
           \/ slot'[k] = slot[k]
           \/ /\ slot[k] \in Manifests /\ slot'[k] \in Manifests /\ slot'[k].id = slot[k].id
              /\ slot'[k].key = k /\ Good(slot'[k])
  BY <1>1, <1>3 DEF TypeInv
<1>5. \A id \in Nat, k \in Revisions : Installed(id, k) => Installed(id, k)'
  BY <1>3, <1>4 DEF Installed
<1>6. \A w \in Workers \cup {None} : Onward(w)
  BY <1>1, <1>3, <1>5, RevisionsAreNaturals DEF TypeInv, Onward
<1>7. TypeInv'
  BY <1>1, <1>2, <1>3, <1>4 DEF TypeInv, Continues, Drops, RenewPut, RenewUnanswered, world
<1>8. Slots' /\ Caches' /\ Answered'
  <2>1. Slots'
    BY <1>3, <1>4 DEF Inv, Slots, Good
  <2> QED BY <1>2, <1>3, <1>6, <1>7, <2>1, CachesStay, AnsweredStays
<1>9. \A id \in Nat : Circulates(id)' => Circulates(id)
  BY <1>2, <1>4 DEF Circulates, Drops
<1> QED BY <1>2, <1>6, <1>7, <1>8, <1>9, ContinuedInv

\* The slot takes the manifest of t's call, of which there was no publication.
Installs(t) ==
  /\ slot' = [slot EXCEPT ![Key(t)] = Mine(t)] /\ slot[Key(t)] \notin Manifests
  /\ UNCHANGED <<revision, uploads, removed, answers, seen>>

LEMMA AtInstall ==
  ASSUME Inv, NEW t \in Threads, At(t, "install")
  PROVE  /\ TypeInv /\ Key(t) \in Revisions /\ ~At(t, "idle") /\ WorkerOf(t) \in Workers
         /\ Mine(t) \in Manifests /\ Mine(t).key = Key(t) /\ Good(Mine(t))
         /\ SameTag(t) => slot[Key(t)] \notin Manifests
         /\ \/ thread[t].cause = "imported" /\ thread[t].op = "import"
            \/ thread[t].cause = "published" /\ Reference(Mine(t)) \in seen[WorkerOf(t)]
  BY CallOf DEF At, Key, Mine, WorkerOf, Sound, Holds, HasRead, Serving, Calls, SameTag

LEMMA InstallsLemma ==
  ASSUME Inv, NEW t \in Threads, At(t, "install"), Installs(t)
  PROVE  /\ \A w \in Workers \cup {None} : Onward(w)
         /\ slot' \in [Revisions -> Manifests \cup {None, Tombstone}]
         /\ Slots' /\ Answered'
         /\ \A m \in Manifests : m = Mine(t) => Good(m)' /\ Installed(m.id, m.key)'
         /\ \A id \in Nat, k \in Revisions : slot'[k] \in Manifests /\ slot'[k].id = id =>
              (slot[k] \in Manifests /\ slot[k].id = id) \/ Owns(thread[t], id)
<1>1. PICK m \in Manifests : m = Mine(t) /\ m.key = Key(t) /\ Good(m)
  BY AtInstall
<1>2. /\ TypeInv /\ Key(t) \in Revisions /\ slot'[Key(t)] = m
      /\ \A k \in Revisions \ {Key(t)} : slot'[k] = slot[k]
      /\ slot' \in [Revisions -> Manifests \cup {None, Tombstone}]
  BY <1>1, AtInstall DEF Installs, TypeInv
<1>3. \A id \in Nat, k \in Revisions : Installed(id, k) => Installed(id, k)'
  BY <1>2 DEF Installs, Installed
<1>4. \A w \in Workers \cup {None} : Onward(w)
  BY <1>2, <1>3, RevisionsAreNaturals DEF Installs, TypeInv, Onward
<1>5. Slots'
  BY <1>1, <1>2 DEF Installs, Inv, Slots, Good
<1>6. Answered'
  BY <1>4, AnsweredStays DEF Installs
<1>7. Good(m)' /\ Installed(m.id, m.key)'
  BY <1>1, <1>2 DEF Installs, Good, Installed
<1>8. \A id \in Nat, k \in Revisions : slot'[k] \in Manifests /\ slot'[k].id = id =>
        (slot[k] \in Manifests /\ slot[k].id = id) \/ Owns(thread[t], id)
  BY <1>1, <1>2, Apart DEF Owns, Mine
<1> QED BY <1>1, <1>2, <1>4, <1>5, <1>6, <1>7, <1>8

LEMMA CommitPutInv ==
  ASSUME Inv, NEW t \in Threads, CommitPut(t)
  PROVE  Inv'
<1> DEFINE c == thread[t]
<1>1. CASE ~SameTag(t)
  <2>1. Continues(t) /\ UNCHANGED <<cache, slot>>
    BY <1>1, AgainContinues DEF CommitPut
  <2> QED BY <2>1, LocalStep, Drop_Drops DEF CommitPut, bucket
<1>2. CASE SameTag(t)
  <2>1. /\ c \in Calls /\ Sound(c) /\ TypeInv /\ At(t, "install") /\ ~At(t, "idle")
        /\ WorkerOf(t) \in Workers /\ c.worker = WorkerOf(t) /\ c.key = Key(t)
    BY CallOf, AtInstall DEF CommitPut, WorkerOf, Key
  <2>2. Installs(t)
    BY <1>2, <2>1, AtInstall DEF Installs, CommitPut, world, history
  <2>3. PICK m \in Manifests : /\ m = Mine(t) /\ m.key = Key(t)
                               /\ Good(m)' /\ Installed(m.id, m.key)'
    BY <2>1, <2>2, AtInstall, InstallsLemma
  <2>4. c.op = "resolve" => Reference(m) \in seen[c.worker]
    BY <2>1, <2>3, AtInstall
  <2>5. \/ c.cause = "published" /\ Remember(t, m)
        \/ c.cause # "published" /\ UNCHANGED cache
    BY <1>2, <2>3 DEF CommitPut
  <2>6. /\ validated' \in [Workers -> [Revisions -> Manifests \cup {None}]]
        /\ \A w \in Workers, k \in Revisions :
             \/ validated'[w][k] \in {None, validated[w][k]}
             \/ w = WorkerOf(t) /\ k = m.key /\ validated'[w][k] = m
    BY <2>1, <2>5, RememberStores DEF cache, TypeInv
  <2>7. PICK d \in Calls :
          /\ thread' = [thread EXCEPT ![t] = d]
          /\ d.pc = "final" /\ d.manifest = m /\ d.key = c.key /\ d.worker = c.worker
          /\ d.op = c.op
    <3>1. /\ Found(t, m) \in Calls /\ Found(t, m).pc = "final" /\ Found(t, m).manifest = m
          /\ Found(t, m).key = c.key /\ Found(t, m).worker = c.worker /\ Found(t, m).op = c.op
      BY <2>1, IdleIsSound, ZenonT(40) DEF Found, Key, WorkerOf, Idle, Calls, PCs
    <3>2. thread' = [thread EXCEPT ![t] = Found(t, m)]
      BY <1>2, <2>3 DEF CommitPut
    <3> QED BY <3>1, <3>2
  <2>8. thread'[t] = d /\ \A u \in Threads \ {t} : thread'[u] = thread[u]
    BY <2>1, <2>7 DEF TypeInv
  <2>9. TypeInv'
    BY <2>1, <2>2, <2>6, <2>7, InstallsLemma DEF TypeInv, Installs, CommitPut, world
  <2>10. Caches'
    <3>1. CASE c.cause = "published"
      <4>1. Reference(m) \in seen'[WorkerOf(t)]
        BY <2>1, <2>2, <2>3, <3>1, AtInstall DEF Installs
      <4> QED BY <2>1, <2>2, <2>3, <2>6, <2>9, <4>1, InstallsLemma, CachesTake
    <3>2. CASE c.cause # "published"
      BY <2>1, <2>2, <2>5, <2>9, <3>2, Drop_Drops, InstallsLemma, CachesStay
    <3> QED BY <3>1, <3>2
  <2>11. Sound(thread[t])'
    <3>1. Holds(d)'
      BY <2>1, <2>3, <2>7, Apart DEF Holds, Serving
    <3>2. HasRead(d)'
      BY <2>1, <2>2, <2>4, <2>7 DEF HasRead, Installs
    <3>3. Reads(d)'
      BY <2>1, <2>2, <2>7 DEF Reads, Sound, Installs
    <3> QED BY <2>8, <3>1, <3>2, <3>3, SoundAfter
  <2>12. Exchanges(t) /\ KeepsOwn(t)
    <3>1. \A id \in Nat : Owns(d, id) => Owns(c, id)
      BY <2>3, <2>7 DEF Owns, Mine
    <3>2. ~Pending(d)
      BY <2>7 DEF Pending
    <3>3. ASSUME NEW id \in Nat, Circulates(id)' PROVE Circulates(id) \/ Owns(c, id)
      <4>1. CASE \E k \in Revisions : slot'[k] \in Manifests /\ slot'[k].id = id
        BY <2>1, <2>2, <4>1, InstallsLemma DEF Circulates
      <4>2. CASE \E w \in Workers, k \in Revisions :
                   validated'[w][k] # None /\ validated'[w][k].id = id
        BY <2>3, <2>6, <4>2, Apart DEF Circulates, Owns, Mine
      <4> QED BY <3>3, <4>1, <4>2 DEF Circulates
    <3> QED BY <2>8, <3>1, <3>2, <3>3 DEF Exchanges, KeepsOwn
  <2> QED BY <2>1, <2>2, <2>8, <2>9, <2>10, <2>11, <2>12, InstallsLemma, StepInv
<1> QED BY <1>1, <1>2

LEMMA CommitUnansweredInv ==
  ASSUME Inv, NEW t \in Threads, CommitUnanswered(t)
  PROVE  Inv'
<1>1. TypeInv /\ At(t, "install") /\ ~At(t, "idle") /\ Raise(t)
  BY AtInstall DEF CommitUnanswered
<1>2. Installs(t) /\ UNCHANGED cache
  BY AtInstall DEF Installs, CommitUnanswered, world, history
<1>3. Continues(t) /\ Drops
  BY <1>1, <1>2, RaiseContinues, Drop_Drops
<1>4. ~Pending(thread'[t])
  <2>1. thread'[t].pc \in {"idle", "fallback"}
    BY <1>1, CallOf, IdleIsSound DEF Raise, TypeInv, Calls
  <2> QED BY <2>1 DEF Pending
<1>5. TypeInv'
  BY <1>1, <1>2, <1>3, InstallsLemma DEF TypeInv, Continues, Drops, Installs, CommitUnanswered, world
<1>6. Slots' /\ Caches' /\ Answered'
  BY <1>1, <1>2, <1>3, <1>5, InstallsLemma, CachesStay
<1>7. \A id \in Nat : Circulates(id)' => Circulates(id) \/ Owns(thread[t], id)
  BY <1>1, <1>2, InstallsLemma DEF Circulates, cache
<1> QED BY <1>1, <1>2, <1>3, <1>4, <1>5, <1>6, <1>7, InstallsLemma, ContinuedInv

-----------------------------------------------------------------------------
(* The answer.                                                             *)

LEMMA FinalInv ==
  ASSUME Inv, NEW t \in Threads, Final(t)
  PROVE  Inv'
<1> DEFINE c == thread[t]
<1>1. /\ c \in Calls /\ Sound(c) /\ TypeInv /\ At(t, "final") /\ ~At(t, "idle")
      /\ WorkerOf(t) \in Workers /\ Key(t) \in Revisions
  BY CallOf DEF Final, At, WorkerOf, Key
<1>2. Continues(t)
  BY <1>1, ReturnContinues, RaiseContinues DEF Final, Return
<1>3. UNCHANGED <<world, bucket, cache, removed, seen>>
  BY DEF Final
<1>4. TypeInv' /\ Drops
  BY <1>1, <1>2, <1>3, Drop_Drops DEF TypeInv, Continues, Drops, world, bucket
<1>5. \A w \in Workers \cup {None} : Onward(w)
  <2>1. revision \in Nat /\ revision' = revision
    BY <1>1, <1>3, RevisionsAreNaturals DEF TypeInv, world
  <2>2. revision <= revision'
    BY <2>1
  <2> QED BY <1>3, <2>1, <2>2, NothingNew DEF bucket
<1>6. Slots' /\ Caches'
  BY <1>3, <1>4, <1>5, CachesStay DEF Inv, Slots, Good, bucket
<1>7. Answered'
  <2>1. CASE SameGeneration(t)
    <3>1. /\ Mine(t).content = revision /\ Mine(t).id \in Nat
          /\ Installed(Mine(t).id, Key(t))
          /\ c.op = "resolve" => Reference(Mine(t)) \in seen[WorkerOf(t)]
      BY <1>1, <2>1 DEF SameGeneration, Sound, Holds, HasRead, Serving, Pending, Good, At, Key,
                        Mine, WorkerOf, Calls, Manifests
    <3>2. Answer(t, Mine(t).content, Reference(Mine(t)))
      BY <2>1 DEF Final
    <3>3. ASSUME NEW a \in answers'
          PROVE  /\ a.content = a.current
                 /\ a.op = "resolve" => a.read
                 /\ a.ref # None => /\ a.ref[1] \in Nat /\ a.key \in Revisions
                                    /\ Installed(a.ref[1], a.key)
      <4>1. CASE a \in answers
        BY <4>1 DEF Inv, Answered
      <4>2. CASE a \notin answers
        <5> DEFINE B == Reference(Mine(t)) \in seen[WorkerOf(t)] \cup {None}
        <5>1. c.op = "resolve" => B
          BY <3>1
        <5>2. a = [worker |-> WorkerOf(t), op |-> c.op, key |-> Key(t), content |-> Mine(t).content,
                   current |-> revision, ref |-> Reference(Mine(t)), read |-> B]
          BY <3>2, <4>2 DEF Answer
        <5> HIDE DEF B
        <5>3. /\ a.content = Mine(t).content /\ a.current = revision
              /\ a.op = c.op /\ a.key = Key(t) /\ a.ref = Reference(Mine(t))
          BY <5>2
        <5>4. a.read = B
          BY <5>2
        <5>5. a.op = "resolve" => a.read
          BY <5>1, <5>3, <5>4
        <5> QED BY <1>1, <3>1, <5>3, <5>5 DEF Reference
      <4> QED BY <4>1, <4>2
    <3> QED BY <1>3, <3>3 DEF Answered, Installed, bucket
  <2>2. CASE ~SameGeneration(t)
    BY <1>5, <2>2, AnsweredStays DEF Final
  <2> QED BY <2>1, <2>2
<1>8. \A id \in Nat : Circulates(id)' => Circulates(id)
  BY <1>3, <1>4 DEF Circulates, Drops, bucket
<1> QED BY <1>2, <1>4, <1>5, <1>6, <1>7, <1>8, ContinuedInv

LEMMA FallbackAnswerInv ==
  ASSUME Inv, NEW t \in Threads, FallbackAnswer(t)
  PROVE  Inv'
<1> DEFINE c == thread[t]
<1>1. /\ c \in Calls /\ Sound(c) /\ TypeInv /\ c.pc = "check ordinary"
  BY CallOf DEF FallbackAnswer, At
<1>2. Continues(t)
  BY <1>1, ReturnContinues DEF FallbackAnswer
<1>3. UNCHANGED <<world, bucket, cache, removed, seen>>
  BY DEF FallbackAnswer, local
<1>4. TypeInv' /\ Drops
  BY <1>1, <1>2, <1>3, Drop_Drops DEF TypeInv, Continues, Drops, world, bucket
<1>5. \A w \in Workers \cup {None} : Onward(w)
  <2>1. revision \in Nat /\ revision' = revision
    BY <1>1, <1>3, RevisionsAreNaturals DEF TypeInv, world
  <2>2. revision <= revision'
    BY <2>1
  <2> QED BY <1>3, <2>1, <2>2, NothingNew DEF bucket
<1>6. Slots' /\ Caches'
  BY <1>3, <1>4, <1>5, CachesStay DEF Inv, Slots, Good, bucket
<1>7. Answered'
  <2>1. CASE SameGeneration(t)
    <3>1. c.content = revision
      BY <1>1, <2>1 DEF SameGeneration, Sound, Reads, Key
    <3>2. Answer(t, c.content, None)
      BY <2>1 DEF FallbackAnswer
    <3>3. ASSUME NEW a \in answers'
          PROVE  /\ a.content = a.current
                 /\ a.op = "resolve" => a.read
                 /\ a.ref # None => /\ a.ref[1] \in Nat /\ a.key \in Revisions
                                    /\ Installed(a.ref[1], a.key)
      <4>1. CASE a \in answers
        BY <4>1 DEF Inv, Answered
      <4>2. CASE a \notin answers
        <5> DEFINE B == None \in seen[WorkerOf(t)] \cup {None}
        <5>1. B
          OBVIOUS
        <5>2. a = [worker |-> WorkerOf(t), op |-> c.op, key |-> Key(t), content |-> c.content,
                   current |-> revision, ref |-> None, read |-> B]
          BY <3>2, <4>2 DEF Answer
        <5> HIDE DEF B
        <5>3. /\ a.content = c.content /\ a.current = revision
              /\ a.op = c.op /\ a.key = Key(t) /\ a.ref = None
          BY <5>2
        <5>4. a.read = B
          BY <5>2
        <5>5. a.op = "resolve" => a.read
          BY <5>1, <5>3, <5>4
        <5> QED BY <1>1, <3>1, <5>3, <5>5
      <4> QED BY <4>1, <4>2
    <3> QED BY <1>3, <3>3 DEF Answered, Installed, bucket
  <2>2. CASE ~SameGeneration(t)
    BY <1>5, <2>2, AnsweredStays DEF FallbackAnswer
  <2> QED BY <2>1, <2>2
<1>8. \A id \in Nat : Circulates(id)' => Circulates(id)
  BY <1>3, <1>4 DEF Circulates, Drops, bucket
<1> QED BY <1>2, <1>4, <1>5, <1>6, <1>7, <1>8, ContinuedInv

-----------------------------------------------------------------------------
(* The rest of the world.                                                  *)

LEMMA WorldStepInv ==
  ASSUME Inv, TypeInv', UNCHANGED <<slot, uploads, cache, thread, history>>,
         revision <= revision'
  PROVE  Inv'
<1>1. \A w \in Workers \cup {None} : Onward(w)
  BY NothingNew, RevisionsAreNaturals DEF Inv, TypeInv, history
<1>2. Slots' /\ Caches' /\ Answered'
  <2>1. Drops
    BY DEF Inv, TypeInv, Drops, cache
  <2> QED BY <1>1, <2>1, CachesStay, AnsweredStays DEF Inv, Slots, Good, history
<1>3. ASSUME NEW t \in Threads PROVE Sound(thread[t])' /\ Own(t)'
  <2>1. TypeInv /\ thread[t] \in Calls /\ Sound(thread[t]) /\ Own(t) /\ thread'[t] = thread[t]
    BY DEF Inv, TypeInv
  <2>2. Onward(thread[t].worker)
    BY <1>1, <2>1 DEF Calls
  <2>3. \A id \in Nat : Circulates(id)' => Circulates(id)
    BY DEF Circulates, cache
  <2> QED BY <2>1, <2>2, <2>3, SoundStays DEF Own
<1> QED BY <1>2, <1>3 DEF Inv

LEMMA CrashInv ==
  ASSUME Inv, NEW w \in Workers, Crash(w)
  PROVE  Inv'
<1>1. /\ TypeInv /\ UNCHANGED <<world, bucket, answers, removed>>
      /\ validated' = [validated EXCEPT ![w] = [k \in Revisions |-> None]]
      /\ thread' = [t \in Threads |-> IF WorkerOf(t) = w THEN Idle ELSE thread[t]]
      /\ seen' = [seen EXCEPT ![w] = {}]
  BY DEF Crash, Inv
<1>2. TypeInv'
  BY <1>1, IdleIsSound DEF TypeInv, world, bucket
<1>3. \A v \in (Workers \cup {None}) \ {w} : Onward(v)
  BY <1>1, RevisionsAreNaturals DEF TypeInv, Onward, Installed, world, bucket
<1>4. Slots' /\ Answered'
  BY <1>1 DEF Inv, Slots, Answered, Good, Installed, bucket
<1>5. Caches'
  <2>1. \A v \in Workers \ {w} : validated'[v] = validated[v] /\ seen'[v] = seen[v]
    BY <1>1 DEF TypeInv
  <2>2. \A k \in Revisions : validated'[w][k] = None
    BY <1>1 DEF TypeInv
  <2> QED BY <1>1, <2>1, <2>2 DEF Inv, Caches, Good, Installed, bucket
<1>6. ASSUME NEW t \in Threads PROVE Sound(thread[t])'
  <2>1. CASE WorkerOf(t) = w
    <3>1. thread'[t] = Idle
      BY <1>1, <2>1
    <3>2. Sound(Idle)'
      BY <1>2, IdleIsSound, RevisionsAreNaturals
      DEF Idle, TypeInv, Sound, Holds, HasRead, Reads, Serving
    <3> QED BY <3>1, <3>2, ZenonT(40) DEF Sound, Holds, HasRead, Reads, Good, Installed
  <2>2. CASE WorkerOf(t) # w
    <3>1. thread[t] \in Calls /\ Sound(thread[t]) /\ thread'[t] = thread[t]
      BY <1>1, <2>2 DEF Inv, TypeInv
    <3>2. Onward(thread[t].worker)
      BY <1>3, <2>2, <3>1 DEF Calls, WorkerOf
    <3> QED BY <1>1, <1>2, <3>1, <3>2, SoundStays
  <2> QED BY <2>1, <2>2
<1>7. ASSUME NEW t \in Threads PROVE Own(t)'
  <2>1. \A u \in Threads, id \in Nat : Owns(thread'[u], id) => Owns(thread[u], id)
    BY <1>1, IdleIsSound DEF Owns
  <2>2. Pending(thread'[t]) => Pending(thread[t])
    BY <1>1, IdleIsSound
  <2>3. \A id \in Nat : Circulates(id)' => Circulates(id)
    BY <1>1 DEF Circulates, TypeInv, bucket
  <2> QED BY <2>1, <2>2, <2>3 DEF Inv, Own
<1> QED BY <1>2, <1>4, <1>5, <1>6, <1>7 DEF Inv

LEMMA WorldInv ==
  ASSUME Inv, Change \/ Tick \/ (\E id \in objects : Lose(id)) \/ UNCHANGED vars
  PROVE  Inv'
<1>1. TypeInv /\ revision \in Nat /\ version \in Nat /\ now \in Nat
  BY RevisionsAreNaturals DEF Inv, TypeInv
<1>2. /\ UNCHANGED <<slot, uploads, cache, thread, history>>
      /\ version' \in Nat /\ now' \in Nat /\ revision' \in Revisions /\ revision <= revision'
  <2>1. CASE Change
    <3>1. revision + 1 \in Revisions /\ revision <= revision + 1 /\ version + 1 \in Nat
      BY <1>1, <2>1, Parameters DEF Change, Revisions
    <3> QED BY <1>1, <2>1, <3>1 DEF Change, bucket, local
  <2>2. CASE Tick
    BY <1>1, <2>2 DEF Tick, TypeInv, bucket, local
  <2>3. CASE \E id \in objects : Lose(id)
    BY <1>1, <2>3 DEF Lose, TypeInv, world, local
  <2>4. CASE UNCHANGED vars
    BY <1>1, <2>4 DEF TypeInv, vars, world, bucket, local
  <2> QED BY <2>1, <2>2, <2>3, <2>4
<1>3. TypeInv'
  BY <1>1, <1>2 DEF TypeInv, cache, history
<1> QED BY <1>2, <1>3, WorldStepInv

-----------------------------------------------------------------------------
LEMMA NextInv == Inv /\ [Next]_vars => Inv'
<1> SUFFICES ASSUME Inv, [Next]_vars PROVE Inv'
  OBVIOUS
<1>1. ASSUME NEW t \in Threads, Step(t) PROVE Inv'
  BY <1>1, ComputeKeyInv, ResolveCachedInv, InvalidateLoadInv, InvalidatePutInv, RenewLoadInv,
     RenewPutInv, LookupInv, ReadbackInv, BuildInv, BuiltInv, CheckBuiltInv, UploadInv,
     CommitLoadInv, CommitPutInv, CheckImportInv, FinalInv, FallbackKeyInv, FallbackAnswerInv
  DEF Step
<1>2. ASSUME NEW t \in Threads,
             \/ ReadbackFails(t) \/ CommitUnanswered(t)
             \/ RenewUnanswered(t) \/ InvalidateUnanswered(t)
      PROVE  Inv'
  BY <1>2, ReadbackFailsInv, CommitUnansweredInv, RenewPutInv, InvalidatePutInv
<1>3. ASSUME NEW t \in Threads, NEW w \in Workers, NEW op \in Ops, Start(t, w, op) PROVE Inv'
  BY <1>3, StartInv
<1>4. ASSUME NEW t \in Threads, NEW m \in Known, Import(t, m) \/ Repair(t, m) PROVE Inv'
  BY <1>4, ImportInv, RepairInv
<1>5. ASSUME NEW w \in Workers, Crash(w) PROVE Inv'
  BY <1>5, CrashInv
<1>6. CASE Change \/ Tick \/ (\E id \in objects : Lose(id)) \/ UNCHANGED vars
  BY <1>6, WorldInv
<1> QED BY <1>1, <1>2, <1>3, <1>4, <1>5, <1>6 DEF Next

LEMMA Invariance == Spec => []Inv
  BY InitInv, NextInv, PTL DEF Spec

\* Whoever built, published, recovered, renewed or imported what is answered,
\* and whatever failed in between: catalog_contents describes the catalog as it
\* is when it is answered.
THEOREM AnswersDescribeTheCatalog == Spec => []AnswersAreCurrent
<1>1. Inv => AnswersAreCurrent
  BY DEF Inv, Answered, AnswersAreCurrent
<1> QED BY <1>1, Invariance, PTL

\* resolve returns no reference that its process has not fetched and validated
\* since it started.
THEOREM ReferencesAreReadBack == Spec => []ResolvesReadBack
<1>1. Inv => ResolvesReadBack
  BY DEF Inv, Answered, ResolvesReadBack
<1> QED BY <1>1, Invariance, PTL

\* Two processes that serve different publications of a key do so only when one
\* of the two was invalidated: the conditional commit has one winner.
THEOREM OneWinnerPerKey == Spec => []PublishersConverge
<1>1. Inv => PublishersConverge
  BY DEF Inv, Answered, PublishersConverge, Installed
<1> QED BY <1>1, Invariance, PTL

\* A tombstone replaces the publication that the invalidation is about, and no
\* other: not one that was committed since the slot was loaded.
THEOREM InvalidationSpares == Spec => SparesReplacements
<1> DEFINE Spares == \A k \in Revisions : IsManifest(slot[k]) /\ slot'[k] = Tombstone =>
             \E t \in Threads : Key(t) = k /\ At(t, "tombstone") /\ Mine(t).id = slot[k].id
<1>1. ASSUME Inv, [Next]_vars PROVE Spares
  <2> SUFFICES ASSUME NEW k \in Revisions, IsManifest(slot[k]), slot'[k] = Tombstone
               PROVE  \E t \in Threads : /\ Key(t) = k /\ At(t, "tombstone")
                                         /\ Mine(t).id = slot[k].id
    OBVIOUS
  <2>1. slot'[k] # slot[k] /\ TypeInv
    BY <1>1 DEF IsManifest, Inv
  <2>2. PICK t \in Threads :
          \/ InvalidatePut(t) \/ RenewPut(t) \/ CommitPut(t)
          \/ InvalidateUnanswered(t) \/ RenewUnanswered(t) \/ CommitUnanswered(t)
    <3>1. ~UNCHANGED slot
      BY <2>1
    <3>2. ASSUME NEW t \in Threads, Step(t)
          PROVE  InvalidatePut(t) \/ RenewPut(t) \/ CommitPut(t)
      BY <3>1, <3>2
      DEF Step, ComputeKey, ResolveCached, Lock, InvalidateLoad, RenewLoad, Lookup, Readback,
          Build, Built, CheckBuilt, Upload, CommitLoad, CheckImport, Final, FallbackKey,
          FallbackAnswer, bucket
    <3>3. \A t \in Threads : ~ReadbackFails(t)
      BY <3>1 DEF ReadbackFails, bucket
    <3>4. ~\E t \in Threads, w \in Workers, op \in Ops : Start(t, w, op)
      BY <3>1 DEF Start, bucket
    <3>5. ~\E t \in Threads, m \in Known : Import(t, m) \/ Repair(t, m)
      BY <3>1 DEF Import, Repair, Lock, bucket
    <3>6. ~(\E w \in Workers : Crash(w)) /\ ~(\E id \in objects : Lose(id)) /\ ~Change /\ ~Tick
          /\ ~UNCHANGED vars
      BY <3>1 DEF Crash, Lose, Change, Tick, vars, bucket
    <3> QED BY <1>1, <3>2, <3>3, <3>4, <3>5, <3>6 DEF Next
  <2>3. InvalidatePut(t) \/ InvalidateUnanswered(t)
    <3>1. ASSUME slot' = [slot EXCEPT ![Key(t)] = Mine(t)], Mine(t) \in Manifests PROVE FALSE
      BY <2>1, <3>1, Apart DEF TypeInv
    <3>2. ASSUME RenewPut(t) \/ RenewUnanswered(t) PROVE FALSE
      <4>1. Mine(t) \in Manifests
        BY <1>1, <3>2, CallOf
        DEF RenewPut, RenewUnanswered, At, Mine, Sound, Holds, Serving, Calls
      <4> QED BY <2>1, <3>1, <3>2, <4>1 DEF RenewPut, RenewUnanswered
    <3>3. ASSUME CommitPut(t) \/ CommitUnanswered(t) PROVE FALSE
      <4>1. Mine(t) \in Manifests
        BY <1>1, <3>3, AtInstall DEF CommitPut, CommitUnanswered
      <4> QED BY <2>1, <3>1, <3>3, <4>1 DEF CommitPut, CommitUnanswered
    <3> QED BY <2>2, <3>2, <3>3
  <2>4. Key(t) = k /\ At(t, "tombstone") /\ slot[k] = thread[t].before
    BY <2>1, <2>3 DEF InvalidatePut, InvalidateUnanswered, SameTag, TypeInv
  <2>5. Mine(t).id = thread[t].before.id
    BY <1>1, <2>4, CallOf DEF At, Mine, Sound, Holds
  <2> QED BY <2>4, <2>5
<1> QED BY <1>1, Invariance, PTL DEF Spec, SparesReplacements
=============================================================================
