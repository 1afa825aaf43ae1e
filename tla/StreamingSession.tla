-------------------------- MODULE StreamingSession --------------------------
(***************************************************************************)
(* One streaming-partitioned aggregate session (vgi/worker.py,             *)
(* aggregate_streaming_open / _chunk / _close).  The session lives in a    *)
(* process-local cache of the worker that serves a call and in the shared  *)
(* FunctionStorage, where any other worker of the pool can load it.  The   *)
(* client (vgi/client/aggregate.py) sends one call at a time.              *)
(*                                                                         *)
(* The user's state is abstracted to the set of chunks folded into it.     *)
(* A worker that is killed loses its cache and the call it serves; its     *)
(* replacement has an empty cache and the same name.                       *)
(***************************************************************************)
EXTENDS Integers

CONSTANTS
  Workers,     \* the pool
  ConstArgs,   \* TRUE: the function has const arguments to stash
  MaxChunks,   \* bound: chunks the client sends
  MaxCrashes,  \* bound: workers killed
  None

ASSUME SessionParameters ==
  /\ ConstArgs \in BOOLEAN
  /\ MaxChunks \in Nat /\ MaxCrashes \in Nat

Chunks == 1..MaxChunks

\* The states a session can have, and the calls a worker can be serving.
Sessions == (SUBSET Chunks) \cup {None}
Calls == [worker : Workers, op : {"open", "chunk", "close"},
          step : {"cache", "load", "fold", "persist", "pop", "delete"}]

ASSUME SessionsAreApart ==
  /\ None \notin Workers
  /\ \A state \in SUBSET Chunks : state # None
  /\ \A c \in Calls : c # None

VARIABLES
  cache,     \* cache[w]: the state in w's _streaming_session_cache, or None
  stored,    \* the state in the STREAMING_SESSION row, or None
  argsRow,   \* the const-args row (AGGREGATE_STATE, key -2) exists
  call,      \* the call in progress, or None
  sent,      \* chunks sent so far
  client,    \* "opening", "open", "failed", "closed"
  answers,   \* (history) chunk -> the state its rows were computed from
  servers,   \* (history) 0 -> the worker that opened the session,
             \* chunk -> the worker that answered it
  crashes

sessionVars == <<cache, stored, argsRow, call, sent, client, answers, servers, crashes>>

At(w, op, step) ==
  IF call = None THEN FALSE ELSE call.worker = w /\ call.op = op /\ call.step = step

SessionInit ==
  /\ cache = [w \in Workers |-> None]
  /\ stored = None /\ argsRow = FALSE
  /\ call = None /\ sent = 0 /\ client = "opening"
  /\ answers = [k \in {} |-> {}] /\ servers = [k \in {} |-> None] /\ crashes = 0

\* A request reaches any worker of the pool.
Request(w, op, step) ==
  /\ call = None
  /\ call' = [worker |-> w, op |-> op, step |-> step]

Return(status) ==
  /\ call' = None
  /\ client' = status

-----------------------------------------------------------------------------
(* aggregate_streaming_open                                                *)

Open(w) ==
  /\ client = "opening"
  /\ Request(w, "open", "cache")
  /\ argsRow' = ConstArgs
  /\ UNCHANGED <<cache, stored, sent, client, answers, servers, crashes>>

OpenCache(w) ==
  /\ At(w, "open", "cache")
  /\ cache' = [cache EXCEPT ![w] = {}]
  /\ call' = [call EXCEPT !.step = "persist"]
  /\ UNCHANGED <<stored, argsRow, sent, client, answers, servers, crashes>>

OpenPersist(w) ==
  /\ At(w, "open", "persist")
  /\ stored' = {}
  /\ servers' = [k \in {0} |-> w]
  /\ Return("open")
  /\ UNCHANGED <<cache, argsRow, sent, answers, crashes>>

-----------------------------------------------------------------------------
(* aggregate_streaming_chunk                                               *)

Chunk(w) ==
  /\ client = "open"
  /\ sent < MaxChunks
  /\ Request(w, "chunk", "load")
  /\ sent' = sent + 1
  /\ UNCHANGED <<cache, stored, argsRow, client, answers, servers, crashes>>

\* (mutation) a cache miss starts an empty session.
Restarted(w) == IF cache[w] = None THEN {} ELSE cache[w]

\* The cached session wins; on a miss the persisted one is loaded.
Session(w) == IF cache[w] = None THEN stored ELSE cache[w]

ChunkLoad(w) ==
  /\ At(w, "chunk", "load")
  /\ IF Session(w) = None
     THEN /\ Return("failed")                   \* OSError: unknown execution_id
          /\ UNCHANGED cache
     ELSE /\ cache' = [cache EXCEPT ![w] = Session(w)]
          /\ call' = [call EXCEPT !.step = "fold"]
          /\ UNCHANGED client
  /\ UNCHANGED <<stored, argsRow, sent, answers, servers, crashes>>

\* func_cls.streaming_chunk folds the chunk into the cached object in place.
ChunkFold(w) ==
  /\ At(w, "chunk", "fold")
  /\ cache' = [cache EXCEPT ![w] = @ \cup {sent}]
  /\ call' = [call EXCEPT !.step = "persist"]
  /\ UNCHANGED <<stored, argsRow, sent, client, answers, servers, crashes>>

\* The updated session is persisted, then the answer is returned.
ChunkPersist(w) ==
  /\ At(w, "chunk", "persist")
  /\ stored' = cache[w]
  /\ answers' = [k \in DOMAIN answers \cup {sent} |-> IF k = sent THEN cache[w] ELSE answers[k]]
  /\ servers' = [k \in DOMAIN servers \cup {sent} |-> IF k = sent THEN w ELSE servers[k]]
  /\ Return("open")
  /\ UNCHANGED <<cache, argsRow, sent, crashes>>

\* The user's code raises, or returns the wrong number of values.  What it
\* did to the cached state stays.
ChunkRaises(w) ==
  /\ At(w, "chunk", "persist")
  /\ Return("failed")
  /\ UNCHANGED <<cache, stored, argsRow, sent, answers, servers, crashes>>

-----------------------------------------------------------------------------
(* aggregate_streaming_close                                               *)

Close(w) ==
  /\ client \in {"open", "failed"}
  /\ Request(w, "close", "pop")
  /\ UNCHANGED <<cache, stored, argsRow, sent, client, answers, servers, crashes>>

\* A cached session is popped.
ClosePop(w) ==
  /\ At(w, "close", "pop")
  /\ cache[w] # None
  /\ cache' = [cache EXCEPT ![w] = None]
  /\ call' = [call EXCEPT !.step = "delete"]
  /\ UNCHANGED <<stored, argsRow, sent, client, answers, servers, crashes>>

\* Cold close: the session comes from the storage, whose row goes first.
CloseLoad(w) ==
  /\ At(w, "close", "pop")
  /\ cache[w] = None
  /\ stored' = None
  /\ IF stored = None
     THEN Return("closed")
     ELSE call' = [call EXCEPT !.step = "delete"] /\ UNCHANGED client
  /\ UNCHANGED <<cache, argsRow, sent, answers, servers, crashes>>

\* The user's streaming_close runs, and what it raises is logged; then the
\* session row goes, and the const-args row is left alone.
CloseDelete(w) ==
  /\ At(w, "close", "delete")
  /\ stored' = None
  /\ Return("closed")
  /\ UNCHANGED <<cache, argsRow, sent, answers, servers, crashes>>

Serving(w) == IF call = None THEN FALSE ELSE call.worker = w

\* The worker dies: the client sees an error, which after a chunk leaves the
\* session to be closed; a failed open has no session, a failed close is
\* ignored.
Crash(w) ==
  /\ crashes < MaxCrashes
  /\ crashes' = crashes + 1
  /\ cache' = [cache EXCEPT ![w] = None]
  /\ IF Serving(w)
     THEN Return(IF call.op = "chunk" THEN "failed" ELSE "closed")
     ELSE UNCHANGED <<call, client>>
  /\ UNCHANGED <<stored, argsRow, sent, answers, servers>>

Step(w) ==
  \/ Open(w) \/ OpenCache(w) \/ OpenPersist(w)
  \/ Chunk(w) \/ ChunkLoad(w) \/ ChunkFold(w) \/ ChunkPersist(w) \/ ChunkRaises(w)
  \/ Close(w) \/ ClosePop(w) \/ CloseLoad(w) \/ CloseDelete(w)
  \/ Crash(w)

SessionNext == \E w \in Workers : Step(w)

SessionSpec == SessionInit /\ [][SessionNext]_sessionVars

-----------------------------------------------------------------------------
(* Properties.                                                             *)

\* A chunk's rows are computed from a state that holds every chunk up to it:
\* "so the next chunk (possibly on a different pool worker) sees the same
\* state" (aggregate_streaming_chunk).  A worker that served an earlier chunk
\* has the session cached as it was then, and the cache comes first.
SeesAllChunks == \A k \in DOMAIN answers : answers[k] = 1..k

\* By chunk n the session has come back to a worker it had left.
Returned(n) ==
  \E i, j, l \in 0..n : i < j /\ j < l /\ servers[i] = servers[l] /\ servers[j] # servers[i]

\* That is the only way to miss a chunk: on any workers, whichever of them die
\* and wherever they are in a call when they do, every chunk is computed from
\* all chunks up to it until the session returns to a worker it had left.
MissesOnlyOnReturn == \A k \in DOMAIN answers : answers[k] = 1..k \/ Returned(k)
=============================================================================
