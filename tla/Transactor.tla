----------------------------- MODULE Transactor -----------------------------
(***************************************************************************)
(* The db-transactor of vgi/transactor/server.py: a threaded RPC server    *)
(* that holds open DuckDB transactions for writable catalogs.  One         *)
(* attached database, the registries _transactions and _tx_locks guarded   *)
(* by _lock, the per-transaction locks, and the catalog version with which *)
(* clients decide whether what they cached of the catalog is still good.   *)
(*                                                                         *)
(* Each "with self._lock" block is one action.  What lies between two of   *)
(* them is where another handler thread runs.  The engine (DuckDB) is      *)
(* external: a transaction is active until it is committed or rolled back, *)
(* a commit may fail on a conflict and is then rolled back, and a          *)
(* statement or a commit on a transaction that is not active raises.       *)
(***************************************************************************)
EXTENDS Integers, FiniteSets

CONSTANTS
  Threads,    \* RPC handler threads
  Txs,        \* transaction ids begin may draw
  Clients,    \* processes that cache the catalog
  Ops,        \* the methods the workload calls
  MaxDdl,     \* bound: DDL statements ever executed
  MaxLocks,   \* bound: per-transaction locks ever created
  None

\* A handler: the method it is in, its transaction, where it is, and the
\* transaction's lock as it read it.
Calls == [op : {"begin", "commit", "rollback", "exchange", "ddl"}, tx : Txs,
          at : {"begun", "conn", "lock", "run", "bump", "pop"},
          lock : 1..MaxLocks \cup {None}]

ASSUME Bounds == MaxLocks \in Nat /\ MaxDdl \in Nat
ASSUME NoneIsApart == None \notin 1..MaxLocks /\ \A c \in Calls : c # None

VARIABLES
  open,          \* the database is in _databases
  transactions,  \* the transactions in _transactions
  tx_locks,      \* _tx_locks: the lock of a transaction, or None
  locks,         \* locks created so far; a lock is a number
  held,          \* locks held by a thread
  version,       \* _catalog_versions
  thread,        \* thread[t]: the handler t is in, or None
  engine,        \* (engine) the status of each transaction
  pending,       \* (engine) DDL statements executed in each transaction
  catalog,       \* (engine) the committed catalog: the DDL it contains
  cache          \* cache[c]: the version c last polled and what it cached

vars == <<open, transactions, tx_locks, locks, held, version, thread, engine,
          pending, catalog, cache>>
registry == <<open, transactions, tx_locks, locks>>
duckdb == <<engine, pending, catalog>>

At(t, ops, at) ==
  IF thread[t] = None THEN FALSE ELSE thread[t].op \in ops /\ thread[t].at = at

Goto(t, at) == thread' = [thread EXCEPT ![t].at = at]
Leave(t) == thread' = [thread EXCEPT ![t] = None]

-----------------------------------------------------------------------------
(* begin: the cursor is opened outside _lock, then registered.             *)

BeginCursor(t) == \E x \in Txs :
  /\ thread[t] = None
  /\ open
  /\ engine[x] = "unused"
  /\ engine' = [engine EXCEPT ![x] = "active"]
  /\ thread' = [thread EXCEPT ![t] = [op |-> "begin", tx |-> x, at |-> "begun", lock |-> None]]
  /\ UNCHANGED <<registry, held, version, pending, catalog, cache>>

BeginRegister(t) ==
  /\ At(t, {"begin"}, "begun")
  /\ locks < MaxLocks
  /\ transactions' = transactions \cup {thread[t].tx}
  /\ locks' = locks + 1
  /\ tx_locks' = [tx_locks EXCEPT ![thread[t].tx] = locks + 1]
  /\ Leave(t)
  /\ UNCHANGED <<open, held, version, duckdb, cache>>

\* _get_tx_conn: ValueError when the transaction is not registered.
GetConn(t) == \E x \in transactions, op \in Ops \cap {"commit", "rollback", "exchange", "ddl"} :
  /\ thread[t] = None
  /\ thread' = [thread EXCEPT ![t] = [op |-> op, tx |-> x, at |-> "conn", lock |-> None]]
  /\ UNCHANGED <<registry, held, version, duckdb, cache>>

-----------------------------------------------------------------------------
(* execute_ddl_tx, and the insert, delete, update and scan exchanges.      *)

\* (mutation) _get_tx_lock without "if tx_id not in db_locks".
AlwaysNew(x) == TRUE

NeedsLock(x) == tx_locks[x] = None

\* _get_tx_lock: the registered lock, or a new one.
GetLock(t) ==
  /\ At(t, {"exchange", "ddl"}, "conn")
  /\ LET x == thread[t].tx IN
     IF NeedsLock(x)
     THEN /\ locks < MaxLocks
          /\ locks' = locks + 1
          /\ tx_locks' = [tx_locks EXCEPT ![x] = locks + 1]
          /\ thread' = [thread EXCEPT ![t].lock = locks + 1, ![t].at = "lock"]
     ELSE /\ thread' = [thread EXCEPT ![t].lock = tx_locks[x], ![t].at = "lock"]
          /\ UNCHANGED <<locks, tx_locks>>
  /\ UNCHANGED <<open, transactions, held, version, duckdb, cache>>

\* with tx_lock:
Acquire(t) ==
  /\ At(t, {"exchange", "ddl"}, "lock")
  /\ thread[t].lock \notin held
  /\ held' = held \cup {thread[t].lock}
  /\ Goto(t, "run")
  /\ UNCHANGED <<registry, version, duckdb, cache>>

Release(t) == held' = held \ {thread[t].lock}

\* conn.execute(sql) in the transaction, then out of the with block.
ExecuteDdl(t) ==
  /\ At(t, {"ddl"}, "run")
  /\ engine[thread[t].tx] = "active"
  /\ catalog + pending[thread[t].tx] < MaxDdl
  /\ pending' = [pending EXCEPT ![thread[t].tx] = @ + 1]
  /\ Release(t)
  /\ Goto(t, "bump")
  /\ UNCHANGED <<registry, version, engine, catalog, cache>>

\* The version is incremented in a second critical section.
BumpVersion(t) ==
  /\ At(t, {"ddl"}, "bump")
  /\ version' = version + 1
  /\ Leave(t)
  /\ UNCHANGED <<registry, held, duckdb, cache>>

\* An exchange ends; or the statement raises.
EndRun(t) ==
  /\ At(t, {"exchange", "ddl"}, "run")
  /\ thread[t].op = "exchange" \/ engine[thread[t].tx] # "active"
  /\ Release(t)
  /\ Leave(t)
  /\ UNCHANGED <<registry, version, duckdb, cache>>

-----------------------------------------------------------------------------
(* commit and rollback: no transaction lock is taken.                      *)

\* conn.commit(); conn.close()
CommitEngine(t) ==
  /\ At(t, {"commit"}, "conn")
  /\ engine[thread[t].tx] = "active"
  /\ engine' = [engine EXCEPT ![thread[t].tx] = "committed"]
  /\ catalog' = catalog + pending[thread[t].tx]
  /\ Goto(t, "pop")
  /\ UNCHANGED <<registry, held, version, pending, cache>>

\* (mutation) conn.close() without conn.rollback().
ForgottenRollback(t) ==
  /\ At(t, {"rollback"}, "conn")
  /\ Goto(t, "pop")
  /\ UNCHANGED <<registry, held, version, duckdb, cache>>

\* conn.rollback(); conn.close()
RollbackEngine(t) ==
  /\ At(t, {"rollback"}, "conn")
  /\ engine[thread[t].tx] = "active"
  /\ engine' = [engine EXCEPT ![thread[t].tx] = "aborted"]
  /\ Goto(t, "pop")
  /\ UNCHANGED <<registry, held, version, pending, catalog, cache>>

\* The commit fails on a conflict: the exception skips close and pop.
CommitConflict(t) ==
  /\ At(t, {"commit"}, "conn")
  /\ engine[thread[t].tx] = "active"
  /\ engine' = [engine EXCEPT ![thread[t].tx] = "aborted"]
  /\ Leave(t)
  /\ UNCHANGED <<registry, held, version, pending, catalog, cache>>

\* Someone else completed it first: conn.commit() raises.
AlreadyOver(t) ==
  /\ At(t, {"commit", "rollback"}, "conn")
  /\ engine[thread[t].tx] # "active"
  /\ Leave(t)
  /\ UNCHANGED <<registry, held, version, duckdb, cache>>

Pop(t) ==
  /\ At(t, {"commit", "rollback"}, "pop")
  /\ transactions' = transactions \ {thread[t].tx}
  /\ tx_locks' = [tx_locks EXCEPT ![thread[t].tx] = None]
  /\ Leave(t)
  /\ UNCHANGED <<open, locks, held, version, duckdb, cache>>

-----------------------------------------------------------------------------

\* (mutation) the version is left alone.
SilentDdl(t) ==
  /\ "execute_ddl" \in Ops /\ open /\ thread[t] = None /\ catalog < MaxDdl
  /\ catalog' = catalog + 1
  /\ UNCHANGED <<registry, held, version, thread, engine, pending, cache>>

\* execute_ddl: statement and version in one critical section (autocommit).
execute_ddl(t) ==
  /\ "execute_ddl" \in Ops /\ open /\ thread[t] = None /\ catalog < MaxDdl
  /\ catalog' = catalog + 1
  /\ version' = version + 1
  /\ UNCHANGED <<registry, held, thread, engine, pending, cache>>

\* shutdown: under _lock, roll back what is registered and forget everything.
shutdown(t) ==
  /\ "shutdown" \in Ops /\ open /\ thread[t] = None
  /\ engine' = [x \in Txs |-> IF x \in transactions /\ engine[x] = "active"
                              THEN "aborted" ELSE engine[x]]
  /\ transactions' = {}
  /\ tx_locks' = [x \in Txs |-> None]
  /\ open' = FALSE
  /\ UNCHANGED <<locks, held, version, thread, pending, catalog, cache>>

\* A client polls catalog_version, and when it differs from the version of its
\* cache reads the catalog in a transaction begun after the poll.
Poll(c) ==
  /\ open
  /\ cache[c].polled = None
  /\ version # cache[c].version
  /\ cache' = [cache EXCEPT ![c].polled = version]
  /\ UNCHANGED <<registry, held, version, thread, duckdb>>

Load(c) ==
  /\ open
  /\ cache[c].polled # None
  /\ cache' = [cache EXCEPT ![c] = [version |-> cache[c].polled, contents |-> catalog,
                                    polled |-> None]]
  /\ UNCHANGED <<registry, held, version, thread, duckdb>>

Init ==
  /\ open = TRUE
  /\ transactions = {} /\ tx_locks = [x \in Txs |-> None] /\ locks = 0 /\ held = {}
  /\ version = 1
  /\ thread = [t \in Threads |-> None]
  /\ engine = [x \in Txs |-> "unused"]
  /\ pending = [x \in Txs |-> 0]
  /\ catalog = 0
  /\ cache = [c \in Clients |-> [version |-> 1, contents |-> 0, polled |-> None]]

Handler(t) ==
  \/ BeginCursor(t) \/ BeginRegister(t) \/ GetConn(t)
  \/ GetLock(t) \/ Acquire(t) \/ ExecuteDdl(t) \/ BumpVersion(t) \/ EndRun(t)
  \/ CommitEngine(t) \/ RollbackEngine(t) \/ CommitConflict(t) \/ AlreadyOver(t) \/ Pop(t)
  \/ execute_ddl(t) \/ shutdown(t)

Next == \/ \E t \in Threads : Handler(t)
        \/ \E c \in Clients : Poll(c) \/ Load(c)

Spec == Init /\ [][Next]_vars

-----------------------------------------------------------------------------
(* Properties.                                                             *)

\* Two handlers never run statements of one live transaction at the same time,
\* although commit, rollback and shutdown drop locks that are in use.
OneRunner ==
  \A t, u \in Threads :
    /\ At(t, {"exchange", "ddl"}, "run")
    /\ At(u, {"exchange", "ddl"}, "run")
    /\ thread[t].tx = thread[u].tx
    /\ engine[thread[t].tx] = "active"
    => t = u

\* A transaction that is open in the engine can be reached: it is registered,
\* or begin is about to register it.  Otherwise nobody could ever end it.
ActiveIsReachable ==
  \A x \in Txs : engine[x] = "active" =>
    x \in transactions \/ \E t \in Threads : At(t, {"begin"}, "begun") /\ thread[t].tx = x

\* "It is used to expire cached catalog information": a client whose cache
\* carries the current version has cached the committed catalog.
CacheFresh ==
  \A c \in Clients : cache[c].version = version => cache[c].contents = catalog

\* The same as long as no transaction has run DDL: then the version moves
\* together with the catalog, in execute_ddl's one critical section.
AutocommitFresh == (\A x \in Txs : pending[x] = 0) => CacheFresh

\* A transaction that was completed and is not being used has no lock left
\* behind in _tx_locks.
NoLeftoverLocks ==
  \A x \in Txs :
    engine[x] \in {"committed", "aborted"} /\ x \notin transactions
      /\ (\A t \in Threads : thread[t] = None)
    => tx_locks[x] = None
=============================================================================
