-------------------------- MODULE TransactorProofs --------------------------
(***************************************************************************)
(* Proofs about Transactor, for any number of handler threads,             *)
(* transactions and clients and any selection of methods: statements of    *)
(* one live transaction never overlap, an open transaction can be reached, *)
(* and without transactional DDL a client's cache is current.              *)
(*                                                                         *)
(* The first two rest on one invariant.  What it adds is how long a lock   *)
(* is the lock of its transaction (until the transaction is over), and     *)
(* that nobody but begin knows of a transaction not yet registered.        *)
(***************************************************************************)
EXTENDS Transactor, TLAPS

Statement(t) == thread[t] # None /\ thread[t].op \in {"exchange", "ddl"}
Waits(t) == Statement(t) /\ thread[t].at \in {"lock", "run"}
Runs(t) == Statement(t) /\ thread[t].at = "run"
Begins(t) == thread[t] # None /\ thread[t].op = "begin"
Completes(t) == thread[t] # None /\ thread[t].op \in {"commit", "rollback"}
Active(x) == engine[x] = "active"

Types ==
  /\ transactions \in SUBSET Txs
  /\ tx_locks \in [Txs -> 1..MaxLocks \cup {None}]
  /\ locks \in 0..MaxLocks
  /\ \A x \in Txs : tx_locks[x] # None => tx_locks[x] <= locks
  /\ held \in SUBSET (1..locks)
  /\ thread \in [Threads -> Calls \cup {None}]
  /\ engine \in [Txs -> {"unused", "active", "committed", "aborted"}]

\* A handler's steps belong to its method.
Steps == \A t \in Threads : thread[t] # None =>
  /\ Begins(t) <=> thread[t].at = "begun"
  /\ thread[t].at = "pop" => Completes(t)
  /\ thread[t].at \in {"lock", "run"} => Statement(t) /\ thread[t].lock \in 1..locks

\* What is registered, or used by a handler, has been begun.
Begun ==
  /\ \A x \in transactions : engine[x] # "unused"
  /\ \A t \in Threads : thread[t] # None => engine[thread[t].tx] # "unused"

\* A handler that took a transaction down has completed it in the engine.
PopIsOver == \A t \in Threads :
  thread[t] # None /\ thread[t].at = "pop" => ~ Active(thread[t].tx)

\* Until begin registers a transaction nobody else has it.
BeginsAlone == \A t \in Threads : Begins(t) =>
  /\ thread[t].tx \notin transactions
  /\ \A u \in Threads \ {t} : thread[u] # None => thread[u].tx # thread[t].tx

\* As long as a transaction is open, who waits for its lock waits for the one
\* that is registered.
SameLock == \A t \in Threads :
  Waits(t) /\ Active(thread[t].tx) => thread[t].lock = tx_locks[thread[t].tx]

\* The lock of a handler that runs is held, and no other runs with it.
Exclusive ==
  /\ \A t \in Threads : Runs(t) => thread[t].lock \in held
  /\ \A t, u \in Threads : Runs(t) /\ Runs(u) /\ thread[t].lock = thread[u].lock => t = u

Inv ==
  /\ Types
  /\ Steps
  /\ Begun
  /\ PopIsOver
  /\ BeginsAlone
  /\ SameLock
  /\ Exclusive
  /\ ActiveIsReachable

-----------------------------------------------------------------------------
LEMMA InitInv == Init => Inv
<1> SUFFICES ASSUME Init PROVE Inv
  OBVIOUS
<1>1. Types
  BY Bounds DEF Init, Types
<1>2. \A t \in Threads : thread[t] = None
  BY DEF Init
<1>3. Steps /\ PopIsOver /\ BeginsAlone /\ SameLock /\ Exclusive
  BY <1>2 DEF Steps, PopIsOver, BeginsAlone, SameLock, Exclusive, Begins, Waits, Runs, Statement
<1>4. Begun /\ ActiveIsReachable
  BY <1>2 DEF Init, Begun, ActiveIsReachable
<1> QED BY <1>1, <1>3, <1>4 DEF Inv

\* What a handler that is somewhere is.
LEMMA There ==
  ASSUME Types, NEW t \in Threads, NEW ops, NEW at, At(t, ops, at)
  PROVE  thread[t] # None /\ thread[t] \in Calls /\ thread[t].op \in ops /\ thread[t].at = at
         /\ thread[t].tx \in Txs /\ thread[t].lock \in 1..MaxLocks \cup {None}
  BY DEF Types, At, Calls

\* Where it goes, if its method has that step.
LEMMA Went ==
  ASSUME Types, NEW t \in Threads, thread[t] # None,
         NEW at \in {"begun", "conn", "lock", "run", "bump", "pop"}, Goto(t, at)
  PROVE  /\ thread' \in [Threads -> Calls \cup {None}]
         /\ thread'[t] # None /\ thread'[t].op = thread[t].op /\ thread'[t].tx = thread[t].tx
         /\ thread'[t].lock = thread[t].lock /\ thread'[t].at = at
         /\ \A u \in Threads \ {t} : thread'[u] = thread[u]
<1>1. thread[t] \in Calls
  BY DEF Types
<1>2. thread'[t] = [thread[t] EXCEPT !.at = at] /\ \A u \in Threads \ {t} : thread'[u] = thread[u]
  BY DEF Types, Goto
<1>3. thread'[t] = [op |-> thread[t].op, tx |-> thread[t].tx, at |-> at, lock |-> thread[t].lock]
  BY <1>1, <1>2 DEF Calls
<1>4. thread'[t] \in Calls
  BY <1>1, <1>3 DEF Calls
<1>5. DOMAIN thread' = Threads /\ thread' = [u \in Threads |-> thread'[u]]
  BY DEF Types, Goto
<1> QED BY <1>2, <1>3, <1>4, <1>5, NoneIsApart DEF Types

LEMMA Left ==
  ASSUME Types, NEW t \in Threads, Leave(t)
  PROVE  /\ thread' \in [Threads -> Calls \cup {None}]
         /\ thread'[t] = None /\ \A u \in Threads \ {t} : thread'[u] = thread[u]
  BY DEF Types, Leave

-----------------------------------------------------------------------------
(* A step of handler t, after which it has left or is somewhere in its     *)
(* method, in two parts: what it has to do with completion, and with locks.*)

\* The others do not move.
OthersStay(t) == \A u \in Threads \ {t} : thread'[u] = thread[u]

\* t has left, or is where it was in the same transaction, at another step.
SameCall(t) ==
  thread'[t] # None => thread[t] # None /\ thread'[t].op = thread[t].op /\ thread'[t].tx = thread[t].tx

\* A handler that goes on, where nothing opens a transaction or hides an open one.
LEMMA GoesOn ==
  ASSUME Inv, NEW t \in Threads, thread' \in [Threads -> Calls \cup {None}],
         OthersStay(t), SameCall(t), Steps', engine' \in [Txs -> {"unused", "active", "committed", "aborted"}],
         ~ Begins(t), transactions' \in SUBSET transactions,
         \A x \in Txs : (engine'[x] = "unused" <=> engine[x] = "unused") /\ (Active(x)' => Active(x)),
         \A x \in transactions : Active(x)' => x \in transactions',
         (thread[t] # None /\ thread[t].at = "pop" => ~ Active(thread[t].tx))'
  PROVE  Begun' /\ PopIsOver' /\ BeginsAlone' /\ ActiveIsReachable'
<1>0. \A u \in Threads : /\ thread[u] # None => thread[u].tx \in Txs
                         /\ thread'[u] # None => thread'[u].tx \in Txs
  BY DEF Inv, Types, Calls
<1>1. Begun'
  BY <1>0 DEF Inv, Types, Begun, OthersStay, SameCall
<1>2. PopIsOver'
  BY <1>0 DEF Inv, Types, PopIsOver, OthersStay, SameCall, Active
<1>3. BeginsAlone'
  BY <1>0 DEF Inv, BeginsAlone, Begins, OthersStay, SameCall
<1>4. ActiveIsReachable'
  <2>1. \A x \in Txs : Active(x)' => x \in transactions' \/
          \E u \in Threads \ {t} : At(u, {"begin"}, "begun") /\ thread[u].tx = x
    BY DEF Inv, ActiveIsReachable, Active, At, Begins
  <2> QED BY <2>1 DEF ActiveIsReachable, Active, At, OthersStay
<1> QED BY <1>1, <1>2, <1>3, <1>4

\* A handler that is not at a statement afterwards, and that drops locks only
\* of transactions that are over.
LEMMA NoStatement ==
  ASSUME Inv, NEW t \in Threads, OthersStay(t), ~ Waits(t)', thread' \in [Threads -> Calls \cup {None}],
         \A u \in Threads \ {t} : Runs(u) => thread[u].lock \in held',
         \A u \in Threads \ {t} : Waits(u) /\ engine'[thread[u].tx] = "active" =>
            Active(thread[u].tx) /\ tx_locks'[thread[u].tx] = tx_locks[thread[u].tx]
  PROVE  SameLock' /\ Exclusive'
<1>1. \A u \in Threads : Waits(u)' => u # t /\ Waits(u) /\ thread'[u] = thread[u]
  BY DEF OthersStay, Waits, Statement
<1>2. \A u \in Threads : Runs(u)' => u # t /\ Runs(u) /\ thread'[u] = thread[u]
  BY DEF OthersStay, Waits, Runs, Statement
<1>3. SameLock'
  BY <1>1 DEF Inv, SameLock, Active
<1>4. Exclusive'
  BY <1>2 DEF Inv, Exclusive
<1> QED BY <1>3, <1>4

-----------------------------------------------------------------------------
LEMMA BeginCursorInv ==
  ASSUME Inv, NEW t \in Threads, BeginCursor(t)
  PROVE  Inv'
<1> PICK x \in Txs :
      /\ thread[t] = None /\ engine[x] = "unused"
      /\ engine' = [engine EXCEPT ![x] = "active"]
      /\ thread' = [thread EXCEPT ![t] = [op |-> "begin", tx |-> x, at |-> "begun", lock |-> None]]
      /\ UNCHANGED <<registry, held>>
  BY DEF BeginCursor
<1> DEFINE call == [op |-> "begin", tx |-> x, at |-> "begun", lock |-> None]
<1>1. call \in Calls
  BY DEF Calls
<1>2. /\ thread' \in [Threads -> Calls \cup {None}] /\ OthersStay(t)
      /\ thread'[t] = call /\ thread'[t] # None
  BY <1>1, NoneIsApart DEF Inv, Types, OthersStay
<1>3. UNCHANGED <<transactions, tx_locks, locks, held>>
  BY DEF registry
<1>4. Types'
  BY <1>2, <1>3 DEF Inv, Types
<1>5. Steps'
  BY <1>2, <1>3 DEF Inv, Steps, OthersStay, Begins, Completes, Statement
<1>6. x \notin transactions /\ \A u \in Threads \ {t} : thread[u] # None => thread[u].tx # x
  BY DEF Inv, Begun
<1>7. Begun'
  BY <1>2, <1>3 DEF Inv, Types, Begun, Calls, OthersStay
<1>8. PopIsOver'
  BY <1>2, <1>6 DEF Inv, Types, PopIsOver, Active, OthersStay
<1>9. BeginsAlone'
  BY <1>2, <1>3, <1>6 DEF Inv, BeginsAlone, Begins, OthersStay
<1>10. SameLock' /\ Exclusive'
  <2>1. \A u \in Threads \ {t} : Waits(u) => engine'[thread[u].tx] = engine[thread[u].tx]
    BY <1>6 DEF Inv, Types, Waits, Statement, Calls
  <2> QED BY <1>2, <1>3, <2>1, NoStatement DEF Waits, Statement, Active, Inv, Exclusive
<1>11. ActiveIsReachable'
  <2>1. At(t, {"begin"}, "begun")' /\ thread'[t].tx = x
    BY <1>2 DEF At
  <2>2. \A u \in Threads : At(u, {"begin"}, "begun") => u # t /\ thread'[u] = thread[u]
    BY <1>2 DEF At, OthersStay
  <2>3. ASSUME NEW y \in Txs, Active(y)', y # x
        PROVE  y \in transactions' \/ \E u \in Threads : (At(u, {"begin"}, "begun") /\ thread[u].tx = y)'
    <3>1. Active(y)
      BY <2>3 DEF Active, Inv, Types
    <3> QED BY <1>3, <2>2, <3>1 DEF Inv, ActiveIsReachable, Active, At
  <2> QED BY <2>1, <2>3 DEF ActiveIsReachable, Active
<1> QED BY <1>4, <1>5, <1>7, <1>8, <1>9, <1>10, <1>11 DEF Inv

LEMMA BeginRegisterInv ==
  ASSUME Inv, NEW t \in Threads, BeginRegister(t)
  PROVE  Inv'
<1> DEFINE x == thread[t].tx
<1>1. /\ thread[t] # None /\ Begins(t) /\ x \in Txs
  BY There DEF BeginRegister, Inv, Begins
<1>2. /\ thread' \in [Threads -> Calls \cup {None}] /\ OthersStay(t) /\ thread'[t] = None
      /\ transactions' = transactions \cup {x} /\ locks' = locks + 1 /\ locks < MaxLocks
      /\ tx_locks' = [tx_locks EXCEPT ![x] = locks + 1]
      /\ UNCHANGED <<engine, held>>
  BY Left DEF BeginRegister, Inv, OthersStay, duckdb
<1>3. x \notin transactions /\ \A u \in Threads \ {t} : thread[u] # None => thread[u].tx # x
  BY <1>1 DEF Inv, BeginsAlone
<1>4. Types'
  <2>1. locks' \in 1..MaxLocks /\ locks' = locks + 1 /\ locks \in Nat
    BY <1>2, Bounds DEF Inv, Types
  <2>2. tx_locks' \in [Txs -> 1..MaxLocks \cup {None}]
    BY <1>1, <1>2, <2>1 DEF Inv, Types
  <2>3. ASSUME NEW y \in Txs, tx_locks'[y] # None PROVE tx_locks'[y] <= locks'
    <3>1. CASE y = x
      BY <1>1, <1>2, <2>1, <3>1 DEF Inv, Types
    <3>2. CASE y # x
      <4>1. tx_locks[y] # None /\ tx_locks'[y] = tx_locks[y] /\ tx_locks[y] <= locks /\ tx_locks[y] \in 1..MaxLocks
        BY <1>2, <2>3, <3>2 DEF Inv, Types
      <4> QED BY <2>1, <4>1
    <3> QED BY <3>1, <3>2
  <2>4. held' \in SUBSET (1..locks')
    BY <1>2, <2>1 DEF Inv, Types
  <2> QED BY <1>1, <1>2, <2>1, <2>2, <2>3, <2>4 DEF Inv, Types
<1>5. Steps'
  <2>1. \A u \in Threads : thread'[u] # None => u # t /\ thread'[u] = thread[u]
    BY <1>2 DEF OthersStay
  <2>2. \A l \in 1..locks : l \in 1..locks'
    BY <1>2, Bounds DEF Inv, Types
  <2> QED BY <2>1, <2>2 DEF Inv, Steps, Begins, Completes, Statement
<1>6. Begun'
  BY <1>1, <1>2 DEF Inv, Types, Begun, OthersStay
<1>7. PopIsOver'
  BY <1>2 DEF Inv, PopIsOver, Active, OthersStay
<1>8. BeginsAlone'
  <2>1. ASSUME NEW u \in Threads, Begins(u)' PROVE u # t /\ Begins(u) /\ thread'[u] = thread[u] /\ thread[u].tx # x
    BY <1>2, <1>3, <2>1 DEF Begins, OthersStay
  <2> QED BY <1>2, <2>1 DEF Inv, BeginsAlone, OthersStay
<1>9. SameLock' /\ Exclusive'
  <2>1. \A u \in Threads \ {t} : Waits(u) => tx_locks'[thread[u].tx] = tx_locks[thread[u].tx]
    BY <1>2, <1>3 DEF Inv, Types, Waits, Statement, Calls
  <2> QED BY <1>2, <2>1, NoStatement DEF Waits, Statement, Active, Inv, Exclusive
<1>10. ActiveIsReachable'
  <2>1. \A u \in Threads : At(u, {"begin"}, "begun") => thread[u].tx = x \/ thread'[u] = thread[u]
    BY <1>2 DEF OthersStay
  <2> QED BY <1>2, <2>1 DEF Inv, ActiveIsReachable, At
<1> QED BY <1>4, <1>5, <1>6, <1>7, <1>8, <1>9, <1>10 DEF Inv

LEMMA GetConnInv ==
  ASSUME Inv, NEW t \in Threads, GetConn(t)
  PROVE  Inv'
<1> PICK x \in transactions, op \in {"commit", "rollback", "exchange", "ddl"} :
      /\ thread[t] = None
      /\ thread' = [thread EXCEPT ![t] = [op |-> op, tx |-> x, at |-> "conn", lock |-> None]]
      /\ UNCHANGED <<registry, held, engine>>
  BY DEF GetConn, duckdb
<1> DEFINE call == [op |-> op, tx |-> x, at |-> "conn", lock |-> None]
<1>1. call \in Calls /\ x \in Txs
  BY DEF Calls, Inv, Types
<1>2. /\ thread' \in [Threads -> Calls \cup {None}] /\ OthersStay(t)
      /\ thread'[t] = call /\ thread'[t] # None
  BY <1>1, NoneIsApart DEF Inv, Types, OthersStay
<1>3. UNCHANGED <<transactions, tx_locks, locks, held, engine>>
  BY DEF registry
<1>4. Types'
  BY <1>2, <1>3 DEF Inv, Types
<1>5. Steps'
  BY <1>2, <1>3 DEF Inv, Steps, OthersStay, Begins, Completes, Statement
<1>6. Begun' /\ PopIsOver'
  BY <1>2, <1>3 DEF Inv, Begun, PopIsOver, Active, OthersStay
<1>7. BeginsAlone'
  BY <1>2, <1>3 DEF Inv, BeginsAlone, Begins, OthersStay
<1>8. SameLock' /\ Exclusive'
  BY <1>2, <1>3, NoStatement DEF Waits, Statement, Active, Inv, Exclusive
<1>9. ActiveIsReachable'
  <2>1. \A u \in Threads : At(u, {"begin"}, "begun") => thread'[u] = thread[u]
    BY <1>2 DEF At, OthersStay
  <2> QED BY <1>3, <2>1 DEF Inv, ActiveIsReachable, At
<1> QED BY <1>4, <1>5, <1>6, <1>7, <1>8, <1>9 DEF Inv

-----------------------------------------------------------------------------
(* Statements.  The registry of transactions and the engine stay as they   *)
(* are, so that GoesOn leaves types, steps and locks to show.              *)

\* Where nothing but t and the locks change.
LEMMA StatementStep ==
  ASSUME Inv, NEW t \in Threads, thread[t] # None, Statement(t), OthersStay(t), SameCall(t),
         Types', Steps', SameLock', Exclusive', UNCHANGED <<transactions, engine>>,
         thread'[t] # None => thread'[t].at # "pop"
  PROVE  Inv'
<1>1. Begun' /\ PopIsOver' /\ BeginsAlone' /\ ActiveIsReachable'
  <2>1. thread' \in [Threads -> Calls \cup {None}]
        /\ engine' \in [Txs -> {"unused", "active", "committed", "aborted"}] /\ ~ Begins(t)
    BY DEF Types, Begins, Statement
  <2> QED BY <2>1, GoesOn DEF Active
<1> QED BY <1>1 DEF Inv

LEMMA GetLockInv ==
  ASSUME Inv, NEW t \in Threads, GetLock(t)
  PROVE  Inv'
<1> DEFINE x == thread[t].tx
           lock == thread'[t].lock
<1>1. thread[t] # None /\ thread[t] \in Calls /\ Statement(t) /\ thread[t].at = "conn" /\ x \in Txs
  BY There DEF GetLock, Inv, Statement
<1>2. /\ thread' \in [Threads -> Calls \cup {None}] /\ OthersStay(t)
      /\ thread'[t] # None /\ thread'[t].op = thread[t].op /\ thread'[t].tx = x /\ thread'[t].at = "lock"
      /\ lock = tx_locks'[x] /\ locks' \in 0..MaxLocks /\ locks <= locks' /\ lock \in 1..locks'
      /\ tx_locks' \in [Txs -> 1..MaxLocks \cup {None}]
      /\ \A y \in Txs : tx_locks'[y] # None => tx_locks'[y] <= locks'
      /\ \A y \in Txs : tx_locks[y] # None => tx_locks'[y] = tx_locks[y]
      /\ UNCHANGED <<transactions, held, engine>>
  <2>0. UNCHANGED <<transactions, held, engine>> /\ locks \in 0..MaxLocks
    BY DEF GetLock, duckdb, Inv, Types
  <2>1. CASE NeedsLock(x)
    <3>1. /\ locks < MaxLocks /\ locks' = locks + 1 /\ tx_locks' = [tx_locks EXCEPT ![x] = locks + 1]
          /\ thread' = [thread EXCEPT ![t].lock = locks + 1, ![t].at = "lock"]
      BY <2>1 DEF GetLock
    <3>2. locks' \in 1..MaxLocks
      BY <2>0, <3>1, Bounds
    <3>3. /\ OthersStay(t)
          /\ thread'[t] = [op |-> thread[t].op, tx |-> x, at |-> "lock", lock |-> locks']
      BY <1>1, <3>1 DEF Inv, Types, OthersStay, Calls
    <3>4. thread'[t] \in Calls
      BY <1>1, <3>2, <3>3 DEF Calls
    <3>5. thread' \in [Threads -> Calls \cup {None}] /\ thread'[t] # None
      BY <3>1, <3>3, <3>4, NoneIsApart DEF Inv, Types, OthersStay
    <3>6. tx_locks' \in [Txs -> 1..MaxLocks \cup {None}] /\ tx_locks'[x] = locks'
      BY <1>1, <3>1, <3>2 DEF Inv, Types
    <3>7. ASSUME NEW y \in Txs, y # x PROVE tx_locks'[y] = tx_locks[y]
      BY <3>1, <3>7 DEF Inv, Types
    <3>8. ASSUME NEW y \in Txs, tx_locks'[y] # None PROVE tx_locks'[y] <= locks'
      <4>1. CASE y = x
        BY <3>2, <3>6, <4>1
      <4>2. CASE y # x
        <5>1. tx_locks[y] \in 1..MaxLocks /\ tx_locks[y] <= locks /\ tx_locks'[y] = tx_locks[y]
          BY <3>7, <3>8, <4>2 DEF Inv, Types
        <5> QED BY <2>0, <3>1, <5>1
      <4> QED BY <4>1, <4>2
    <3>9. \A y \in Txs : tx_locks[y] # None => tx_locks'[y] = tx_locks[y]
      BY <2>1, <3>7 DEF NeedsLock
    <3>10. lock = locks' /\ locks' \in 0..MaxLocks /\ locks <= locks' /\ locks' \in 1..locks'
      BY <2>0, <3>1, <3>2, <3>3
    <3> QED BY <2>0, <3>3, <3>5, <3>6, <3>8, <3>9, <3>10
  <2>2. CASE ~ NeedsLock(x)
    <3>1. thread' = [thread EXCEPT ![t].lock = tx_locks[x], ![t].at = "lock"] /\ UNCHANGED <<locks, tx_locks>>
      BY <2>2 DEF GetLock
    <3>2. tx_locks[x] \in 1..MaxLocks /\ tx_locks[x] <= locks
      BY <1>1, <2>2 DEF NeedsLock, Inv, Types
    <3>3. /\ OthersStay(t)
          /\ thread'[t] = [op |-> thread[t].op, tx |-> x, at |-> "lock", lock |-> tx_locks[x]]
      BY <1>1, <3>1 DEF Inv, Types, OthersStay, Calls
    <3>4. thread'[t] \in Calls
      BY <1>1, <3>2, <3>3 DEF Calls
    <3>5. thread' \in [Threads -> Calls \cup {None}] /\ thread'[t] # None
      BY <3>1, <3>3, <3>4, NoneIsApart DEF Inv, Types, OthersStay
    <3>6. lock \in 1..locks /\ locks <= locks
      BY <2>0, <3>2, <3>3
    <3> QED BY <2>0, <3>1, <3>3, <3>5, <3>6 DEF Inv, Types
  <2> QED BY <2>1, <2>2
<1>3. Types'
  <2>1. held' \in SUBSET (1..locks')
    BY <1>2, Bounds DEF Inv, Types
  <2> QED BY <1>2, <2>1 DEF Inv, Types
<1>4. Steps'
  <2>1. \A l \in 1..locks : l \in 1..locks'
    BY <1>2, Bounds DEF Inv, Types
  <2> QED BY <1>1, <1>2, <2>1 DEF Inv, Steps, Begins, Completes, Statement, OthersStay
<1>5. SameLock'
  <2>1. ASSUME NEW u \in Threads \ {t}, Waits(u), Active(thread[u].tx)
        PROVE  thread[u].lock = tx_locks'[thread[u].tx]
    <3>1. thread[u].tx \in Txs /\ thread[u].lock \in 1..locks /\ thread[u].lock = tx_locks[thread[u].tx]
      BY <2>1 DEF Waits, Statement, Inv, Types, Calls, Steps, SameLock
    <3>2. thread[u].lock \in 1..MaxLocks
      BY <3>1, Bounds DEF Inv, Types
    <3> QED BY <1>2, <3>1, <3>2, NoneIsApart
  <2>2. \A u \in Threads \ {t} : (Waits(u) /\ Active(thread[u].tx))' => Waits(u) /\ Active(thread[u].tx)
    BY <1>2 DEF OthersStay, Waits, Statement, Active
  <2> QED BY <1>2, <2>1, <2>2 DEF SameLock, OthersStay
<1>6. Exclusive'
  <2>1. \A u \in Threads : Runs(u)' => Runs(u) /\ thread'[u] = thread[u]
    BY <1>2 DEF OthersStay, Runs, Statement
  <2> QED BY <1>2, <2>1 DEF Inv, Exclusive
<1> QED BY <1>1, <1>2, <1>3, <1>4, <1>5, <1>6, StatementStep DEF SameCall

LEMMA AcquireInv ==
  ASSUME Inv, NEW t \in Threads, Acquire(t)
  PROVE  Inv'
<1>1. thread[t] # None /\ Statement(t) /\ thread[t].at = "lock" /\ thread[t].lock \in 1..locks
  BY There DEF Acquire, Inv, Statement, Steps
<1>2. /\ thread' \in [Threads -> Calls \cup {None}] /\ OthersStay(t)
      /\ thread'[t] # None /\ thread'[t].op = thread[t].op /\ thread'[t].tx = thread[t].tx
      /\ thread'[t].lock = thread[t].lock /\ thread'[t].at = "run"
      /\ thread[t].lock \notin held /\ held' = held \cup {thread[t].lock}
      /\ UNCHANGED <<transactions, tx_locks, locks, engine>>
  BY <1>1, Went DEF Acquire, Inv, OthersStay, registry, duckdb
<1>3. Types'
  BY <1>1, <1>2 DEF Inv, Types
<1>4. Steps'
  BY <1>1, <1>2 DEF Inv, Steps, Begins, Completes, Statement, OthersStay
<1>5. SameLock'
  BY <1>1, <1>2 DEF Inv, SameLock, Waits, Statement, Active, OthersStay
<1>6. Exclusive'
  <2>1. \A u \in Threads \ {t} : Runs(u)' => Runs(u) /\ thread'[u] = thread[u]
    BY <1>2 DEF OthersStay, Runs, Statement
  <2> QED BY <1>2, <2>1 DEF Inv, Exclusive
<1> QED BY <1>1, <1>2, <1>3, <1>4, <1>5, <1>6, StatementStep DEF SameCall

\* The end of a with block, after which t is not at a statement.
LEMMA ReleaseInv ==
  ASSUME Inv, NEW t \in Threads, Runs(t), Release(t), thread' \in [Threads -> Calls \cup {None}],
         OthersStay(t), SameCall(t), thread'[t] # None => thread'[t].at = "bump",
         UNCHANGED <<registry, engine>>
  PROVE  Inv'
<1>1. thread[t] # None /\ Statement(t)
  BY DEF Runs, Statement
<1>2. Types'
  BY DEF Inv, Types, Release, registry
<1>3. Steps'
  BY <1>1 DEF Inv, Steps, Begins, Completes, Statement, OthersStay, SameCall, registry
<1>4. SameLock' /\ Exclusive'
  <2>1. \A u \in Threads \ {t} : Runs(u) => thread[u].lock \in held'
    BY DEF Inv, Exclusive, Release
  <2> QED BY <2>1, NoStatement DEF Waits, Statement, Active, registry
<1> QED BY <1>1, <1>2, <1>3, <1>4, StatementStep DEF registry

LEMMA RunEndsInv ==
  ASSUME Inv, NEW t \in Threads, ExecuteDdl(t) \/ EndRun(t)
  PROVE  Inv'
<1>1. CASE ExecuteDdl(t)
  <2>1. thread[t] # None /\ Runs(t)
    BY <1>1, There DEF ExecuteDdl, Inv, Runs, Statement
  <2> QED BY <1>1, <2>1, Went, ReleaseInv DEF ExecuteDdl, Inv, OthersStay, SameCall
<1>2. CASE EndRun(t)
  <2>1. Runs(t)
    BY <1>2, There DEF EndRun, Inv, Runs, Statement
  <2> QED BY <1>2, <2>1, Left, ReleaseInv DEF EndRun, Inv, OthersStay, SameCall, duckdb
<1> QED BY <1>1, <1>2

LEMMA BumpVersionInv ==
  ASSUME Inv, NEW t \in Threads, BumpVersion(t)
  PROVE  Inv'
<1>1. thread[t] # None /\ Statement(t) /\ thread[t].at = "bump"
  BY There DEF BumpVersion, Inv, Statement
<1>2. /\ thread' \in [Threads -> Calls \cup {None}] /\ OthersStay(t) /\ thread'[t] = None
      /\ UNCHANGED <<transactions, tx_locks, locks, engine, held>>
  BY Left DEF BumpVersion, Inv, OthersStay, registry, duckdb
<1>3. Types'
  BY <1>2 DEF Inv, Types
<1>4. Steps'
  BY <1>2 DEF Inv, Steps, Begins, Completes, Statement, OthersStay
<1>5. SameLock' /\ Exclusive'
  BY <1>2, NoStatement DEF Waits, Statement, Active, Inv, Exclusive
<1> QED BY <1>1, <1>2, <1>3, <1>4, <1>5, StatementStep DEF SameCall

-----------------------------------------------------------------------------
(* Completion and shutdown.                                                *)

\* Where a transaction may be over and t goes on to take it down, or leaves.
LEMMA CompletionStep ==
  ASSUME Inv, NEW t \in Threads, Completes(t), thread' \in [Threads -> Calls \cup {None}],
         OthersStay(t), SameCall(t), thread'[t] # None => thread'[t].at = "pop",
         (thread[t] # None => ~ Active(thread[t].tx))',
         engine' \in [Txs -> {"unused", "active", "committed", "aborted"}],
         \A x \in Txs : (engine'[x] = "unused" <=> engine[x] = "unused") /\ (Active(x)' => Active(x)),
         UNCHANGED <<registry, held>>
  PROVE  Inv'
<1>1. UNCHANGED <<transactions, tx_locks, locks>>
  BY DEF registry
<1>2. Types'
  BY <1>1 DEF Inv, Types
<1>3. Steps'
  BY <1>1 DEF Inv, Steps, Begins, Completes, Statement, OthersStay, SameCall
<1>4. Begun' /\ PopIsOver' /\ BeginsAlone' /\ ActiveIsReachable'
  BY <1>1, <1>3, GoesOn DEF Begins, Completes
<1>5. SameLock' /\ Exclusive'
  <2>1. ~ Waits(t)'
    BY DEF Waits, Statement
  <2>2. \A u \in Threads \ {t} : Waits(u) /\ engine'[thread[u].tx] = "active" => Active(thread[u].tx)
    BY DEF Inv, Types, Calls, Waits, Statement, Active
  <2>3. \A u \in Threads \ {t} : Runs(u) => thread[u].lock \in held'
    BY DEF Inv, Exclusive
  <2> QED BY <1>1, <2>1, <2>2, <2>3, NoStatement
<1> QED BY <1>2, <1>3, <1>4, <1>5 DEF Inv

LEMMA CompletionInv ==
  ASSUME Inv, NEW t \in Threads,
         CommitEngine(t) \/ RollbackEngine(t) \/ CommitConflict(t) \/ AlreadyOver(t)
  PROVE  Inv'
<1>1. thread[t] # None /\ Completes(t) /\ thread[t].tx \in Txs
  BY There DEF CommitEngine, RollbackEngine, CommitConflict, AlreadyOver, Inv, Completes
<1>2. Goto(t, "pop") \/ Leave(t)
  BY DEF CommitEngine, RollbackEngine, CommitConflict, AlreadyOver
<1>3. /\ thread' \in [Threads -> Calls \cup {None}] /\ OthersStay(t) /\ SameCall(t)
      /\ thread'[t] # None => thread'[t].at = "pop"
  BY <1>1, <1>2, Went, Left DEF Inv, OthersStay, SameCall
<1>4. UNCHANGED <<registry, held>>
  BY DEF CommitEngine, RollbackEngine, CommitConflict, AlreadyOver
<1>5. CASE AlreadyOver(t)
  BY <1>1, <1>3, <1>4, <1>5, Left, CompletionStep DEF AlreadyOver, Inv, Types, duckdb, Active
<1>6. CASE CommitEngine(t) \/ RollbackEngine(t) \/ CommitConflict(t)
  <2>1. PICK over \in {"committed", "aborted"} :
           Active(thread[t].tx) /\ engine' = [engine EXCEPT ![thread[t].tx] = over]
    BY <1>6 DEF CommitEngine, RollbackEngine, CommitConflict, Active
  <2>2. /\ engine' \in [Txs -> {"unused", "active", "committed", "aborted"}]
        /\ engine'[thread[t].tx] \notin {"unused", "active"}
        /\ \A x \in Txs : (engine'[x] = "unused" <=> engine[x] = "unused") /\ (Active(x)' => Active(x))
    BY <1>1, <2>1 DEF Inv, Types, Active
  <2>3. (thread[t] # None => ~ Active(thread[t].tx))'
    BY <1>3, <2>2 DEF SameCall, Active
  <2> QED BY <1>1, <1>3, <1>4, <2>2, <2>3, CompletionStep
<1> QED BY <1>5, <1>6

\* What t takes down is over.
LEMMA PopInv ==
  ASSUME Inv, NEW t \in Threads, Pop(t)
  PROVE  Inv'
<1> DEFINE x == thread[t].tx
<1>1. thread[t] # None /\ Completes(t) /\ x \in Txs /\ ~ Active(x)
  BY There DEF Pop, Inv, Completes, PopIsOver
<1>2. /\ thread' \in [Threads -> Calls \cup {None}] /\ OthersStay(t) /\ thread'[t] = None
      /\ transactions' = transactions \ {x} /\ tx_locks' = [tx_locks EXCEPT ![x] = None]
      /\ UNCHANGED <<locks, held, engine>>
  BY Left DEF Pop, Inv, OthersStay, duckdb
<1>3. Types'
  BY <1>2 DEF Inv, Types
<1>4. Steps'
  BY <1>2 DEF Inv, Steps, Begins, Completes, Statement, OthersStay
<1>5. Begun' /\ PopIsOver' /\ BeginsAlone' /\ ActiveIsReachable'
  <2>1. transactions' \in SUBSET transactions /\ \A y \in transactions : Active(y)' => y \in transactions'
    BY <1>1, <1>2 DEF Active
  <2>2. engine' \in [Txs -> {"unused", "active", "committed", "aborted"}] /\ ~ Begins(t) /\ SameCall(t)
    BY <1>1, <1>2 DEF Inv, Types, Begins, Completes, SameCall
  <2> QED BY <1>2, <1>4, <2>1, <2>2, GoesOn DEF Active
<1>6. SameLock' /\ Exclusive'
  <2>1. \A u \in Threads \ {t} : Waits(u) /\ engine'[thread[u].tx] = "active" =>
           Active(thread[u].tx) /\ tx_locks'[thread[u].tx] = tx_locks[thread[u].tx]
    BY <1>1, <1>2 DEF Inv, Types, Calls, Waits, Statement, Active
  <2>2. ~ Waits(t)' /\ \A u \in Threads \ {t} : Runs(u) => thread[u].lock \in held'
    BY <1>2 DEF Waits, Statement, Inv, Exclusive
  <2> QED BY <1>2, <2>1, <2>2, NoStatement
<1> QED BY <1>3, <1>4, <1>5, <1>6 DEF Inv

\* Nobody waits for the lock of a transaction that outlives shutdown: it is
\* still begin's.
LEMMA ShutdownInv ==
  ASSUME Inv, NEW t \in Threads, shutdown(t)
  PROVE  Inv'
<1>1. /\ thread[t] = None /\ thread' = thread
      /\ engine' = [x \in Txs |-> IF x \in transactions /\ engine[x] = "active" THEN "aborted" ELSE engine[x]]
      /\ transactions' = {} /\ tx_locks' = [x \in Txs |-> None] /\ UNCHANGED <<locks, held>>
  BY DEF shutdown
<1>2. /\ engine' \in [Txs -> {"unused", "active", "committed", "aborted"}]
      /\ \A x \in Txs : (engine'[x] = "unused" <=> engine[x] = "unused") /\ (Active(x)' => Active(x))
      /\ \A x \in transactions : ~ Active(x)'
  BY <1>1 DEF Inv, Types, Active
<1>3. Types'
  BY <1>1, <1>2 DEF Inv, Types
<1>4. Steps'
  BY <1>1 DEF Inv, Steps, Begins, Completes, Statement
<1>5. OthersStay(t) /\ SameCall(t) /\ ~ Begins(t)
  BY <1>1 DEF OthersStay, SameCall, Begins
<1>6. Begun' /\ PopIsOver' /\ BeginsAlone' /\ ActiveIsReachable'
  <2>1. thread' \in [Threads -> Calls \cup {None}] /\ transactions' \in SUBSET transactions
    BY <1>1 DEF Inv, Types
  <2> QED BY <1>1, <1>2, <1>4, <1>5, <2>1, GoesOn
<1>7. SameLock' /\ Exclusive'
  <2>1. ASSUME NEW u \in Threads, Waits(u) PROVE engine'[thread[u].tx] # "active"
    <3>1. thread[u] # None /\ thread[u].tx \in Txs /\ thread[u].op # "begin"
      BY <2>1 DEF Waits, Statement, Inv, Types, Calls
    <3>2. ASSUME Active(thread[u].tx) PROVE thread[u].tx \in transactions
      <4>1. ASSUME NEW v \in Threads, At(v, {"begin"}, "begun"), thread[v].tx = thread[u].tx PROVE FALSE
        <5>1. Begins(v) /\ u # v
          BY <3>1, <4>1 DEF At, Begins
        <5> QED BY <3>1, <4>1, <5>1 DEF Inv, BeginsAlone
      <4> QED BY <3>1, <3>2, <4>1 DEF Inv, ActiveIsReachable, Active
    <3> QED BY <1>2, <3>1, <3>2 DEF Active
  <2> QED BY <1>1, <2>1 DEF SameLock, Exclusive, Waits, Runs, Statement, Active, Inv
<1> QED BY <1>3, <1>4, <1>6, <1>7 DEF Inv

-----------------------------------------------------------------------------
LEMMA NextInv ==
  ASSUME Inv, [Next]_vars
  PROVE  Inv'
<1>1. CASE UNCHANGED <<registry, held, thread, engine>>
  BY <1>1 DEF registry, Inv, Types, Steps, Begun, PopIsOver, BeginsAlone, SameLock, Exclusive,
              ActiveIsReachable, Begins, Completes, Statement, Waits, Runs, Active, At
<1>2. ASSUME NEW t \in Threads, Handler(t) PROVE Inv'
  <2>1. CASE execute_ddl(t)
    BY <1>1, <2>1 DEF execute_ddl
  <2> QED BY <1>2, <2>1, BeginCursorInv, BeginRegisterInv, GetConnInv, GetLockInv, AcquireInv,
             RunEndsInv, BumpVersionInv, CompletionInv, PopInv, ShutdownInv DEF Handler
<1>3. ASSUME NEW c \in Clients, Poll(c) \/ Load(c) PROVE Inv'
  BY <1>1, <1>3 DEF Poll, Load, duckdb
<1>4. CASE UNCHANGED vars
  BY <1>1, <1>4 DEF vars, registry
<1> QED BY <1>2, <1>3, <1>4 DEF Next

LEMMA InvSafe ==
  ASSUME Inv
  PROVE  OneRunner /\ ActiveIsReachable
<1>1. ASSUME NEW t \in Threads, NEW u \in Threads,
             At(t, {"exchange", "ddl"}, "run"), At(u, {"exchange", "ddl"}, "run"),
             thread[t].tx = thread[u].tx, engine[thread[t].tx] = "active"
      PROVE  t = u
  BY <1>1 DEF Inv, SameLock, Exclusive, Waits, Runs, Statement, Active, At
<1> QED BY <1>1 DEF OneRunner, Inv

LEMMA AlwaysInv == Spec => []Inv
<1>1. Inv /\ [Next]_vars => Inv'
  BY NextInv
<1> QED BY <1>1, InitInv, PTL DEF Spec

\* Two handlers never run statements of one live transaction at the same time,
\* although _get_tx_lock makes locks on demand and commit, rollback and
\* shutdown drop locks that handlers hold or wait for.
THEOREM StatementsDoNotOverlap == Spec => []OneRunner
<1>1. Inv => OneRunner
  BY InvSafe
<1> QED BY <1>1, AlwaysInv, PTL

\* A transaction that is open in the engine is registered or about to be: no
\* order of commit, rollback, failure and shutdown leaves one that nobody can
\* end.
THEOREM NoTransactionIsLost == Spec => []ActiveIsReachable
<1>1. Inv => ActiveIsReachable
  BY InvSafe
<1> QED BY <1>1, AlwaysInv, PTL

-----------------------------------------------------------------------------
(* What clients cache.                                                     *)

Counts ==
  /\ version \in Nat /\ catalog \in Nat
  /\ pending \in [Txs -> Nat]
  /\ cache \in [Clients -> [version : Nat, contents : Nat, polled : Nat \cup {None}]]

\* A handler that is about to move the version has executed a statement.
Bumps == \A t \in Threads : At(t, {"ddl"}, "bump") => pending[thread[t].tx] > 0

NoTxDdl == \A x \in Txs : pending[x] = 0

\* Every version then stands for one change of the catalog, and what a client
\* has cached is at least as new as the version it goes by.
InStep ==
  /\ version = catalog + 1
  /\ \A c \in Clients :
       /\ cache[c].version <= cache[c].contents + 1 /\ cache[c].contents <= catalog
       /\ cache[c].polled # None => cache[c].polled <= version

CacheInv == Counts /\ Bumps /\ (NoTxDdl => InStep)

LEMMA InitCacheInv == Init => CacheInv
<1> SUFFICES ASSUME Init PROVE CacheInv
  OBVIOUS
<1>1. Counts
  BY DEF Init, Counts
<1>2. Bumps
  BY DEF Init, Bumps, At
<1>3. InStep
  BY DEF Init, InStep
<1> QED BY <1>1, <1>2, <1>3 DEF CacheInv

\* Steps that touch neither the version nor the catalog.
LEMMA CatalogKept ==
  ASSUME CacheInv, UNCHANGED <<version, pending, catalog, cache>>,
         \A u \in Threads : At(u, {"ddl"}, "bump")' => At(u, {"ddl"}, "bump") /\ thread'[u] = thread[u]
  PROVE  CacheInv'
<1>1. Bumps'
  BY DEF CacheInv, Bumps
<1> QED BY <1>1 DEF CacheInv, Counts, NoTxDdl, InStep

\* What handler t does to the others is nothing.
LEMMA NotBumping ==
  ASSUME Types, NEW t \in Threads, OthersStay(t), ~ At(t, {"ddl"}, "bump")'
  PROVE  \A u \in Threads : At(u, {"ddl"}, "bump")' => At(u, {"ddl"}, "bump") /\ thread'[u] = thread[u]
  BY DEF OthersStay, At

LEMMA HandlerCacheInv ==
  ASSUME Inv, CacheInv, NEW t \in Threads, Handler(t)
  PROVE  CacheInv'
<1>1. CASE BeginCursor(t) \/ GetConn(t)
  <2>1. PICK call : (call.op # "ddl" \/ call.at # "bump") /\ thread' = [thread EXCEPT ![t] = call]
    BY <1>1 DEF BeginCursor, GetConn
  <2>2. OthersStay(t) /\ ~ At(t, {"ddl"}, "bump")'
    BY <2>1 DEF Inv, Types, OthersStay, At
  <2> QED BY <1>1, <2>2, NotBumping, CatalogKept DEF BeginCursor, GetConn, duckdb, Inv
<1>2. CASE GetLock(t)
  <2>1. thread[t] \in Calls
    BY <1>2, There DEF GetLock, Inv
  <2>2. PICK lock : thread' = [thread EXCEPT ![t].lock = lock, ![t].at = "lock"]
    BY <1>2 DEF GetLock
  <2>3. OthersStay(t) /\ thread'[t].at = "lock"
    BY <2>1, <2>2 DEF Inv, Types, Calls, OthersStay
  <2> QED BY <1>2, <2>3, NotBumping, CatalogKept DEF GetLock, duckdb, Inv, At
<1>3. CASE BeginRegister(t) \/ EndRun(t) \/ CommitConflict(t) \/ AlreadyOver(t) \/ Pop(t)
  BY <1>3, Left, NotBumping, CatalogKept
     DEF BeginRegister, EndRun, CommitConflict, AlreadyOver, Pop, duckdb, Inv, At, OthersStay
<1>4. CASE Acquire(t)
  <2>1. thread[t] # None /\ Goto(t, "run")
    BY <1>4, There DEF Acquire, Inv
  <2>2. OthersStay(t) /\ ~ At(t, {"ddl"}, "bump")'
    BY <2>1, Went DEF Inv, At, OthersStay
  <2> QED BY <1>4, <2>2, NotBumping, CatalogKept DEF Acquire, duckdb, Inv
<1>5. CASE ExecuteDdl(t)
  <2>1. thread[t] # None /\ Goto(t, "bump") /\ thread[t].tx \in Txs
    BY <1>5, There DEF ExecuteDdl, Inv
  <2>2. thread'[t].tx = thread[t].tx /\ OthersStay(t)
    BY <2>1, Went DEF Inv, OthersStay
  <2>3. /\ pending' = [pending EXCEPT ![thread[t].tx] = @ + 1] /\ pending' \in [Txs -> Nat]
        /\ pending'[thread[t].tx] > 0 /\ \A x \in Txs : pending[x] > 0 => pending'[x] > 0
        /\ UNCHANGED <<version, catalog, cache>>
    BY <1>5, <2>1 DEF ExecuteDdl, CacheInv, Counts
  <2>4. Counts' /\ ~ NoTxDdl'
    BY <2>1, <2>3 DEF CacheInv, Counts, NoTxDdl
  <2>5. Bumps'
    <3>1. ASSUME NEW u \in Threads \ {t}, At(u, {"ddl"}, "bump")' PROVE (pending[thread[u].tx] > 0)'
      <4>1. thread'[u] = thread[u] /\ At(u, {"ddl"}, "bump")
        BY <2>2, <3>1 DEF OthersStay, At
      <4>2. thread[u].tx \in Txs
        BY <4>1, There DEF Inv
      <4> QED BY <2>3, <4>1, <4>2 DEF CacheInv, Bumps
    <3> QED BY <2>2, <2>3, <3>1 DEF Bumps
  <2> QED BY <2>4, <2>5 DEF CacheInv
<1>6. CASE BumpVersion(t)
  <2>1. thread[t].tx \in Txs /\ pending[thread[t].tx] > 0
    BY <1>6, There DEF BumpVersion, Inv, CacheInv, Bumps
  <2>2. UNCHANGED <<pending, catalog, cache>> /\ version' = version + 1
    BY <1>6 DEF BumpVersion, duckdb
  <2>3. Counts' /\ ~ NoTxDdl'
    BY <2>1, <2>2 DEF CacheInv, Counts, NoTxDdl
  <2>4. Bumps'
    BY <1>6, <2>2, Left DEF BumpVersion, Inv, CacheInv, Bumps, At
  <2> QED BY <2>3, <2>4 DEF CacheInv
<1>7. CASE CommitEngine(t)
  <2>1. thread[t] # None /\ Goto(t, "pop") /\ thread[t].tx \in Txs
    BY <1>7, There DEF CommitEngine, Inv
  <2>2. UNCHANGED <<version, pending, cache>> /\ catalog' = catalog + pending[thread[t].tx]
    BY <1>7 DEF CommitEngine
  <2>3. Counts' /\ (NoTxDdl => catalog' = catalog)
    BY <2>1, <2>2 DEF CacheInv, Counts, NoTxDdl
  <2>4. Bumps'
    BY <2>1, <2>2, Went DEF Inv, CacheInv, Bumps, At
  <2> QED BY <2>2, <2>3, <2>4 DEF CacheInv, NoTxDdl, InStep
<1>8. CASE RollbackEngine(t)
  <2>1. thread[t] # None /\ Goto(t, "pop")
    BY <1>8, There DEF RollbackEngine, Inv
  <2>2. OthersStay(t) /\ ~ At(t, {"ddl"}, "bump")'
    BY <2>1, Went DEF Inv, At, OthersStay
  <2> QED BY <1>8, <2>2, NotBumping, CatalogKept DEF RollbackEngine, Inv
<1>9. CASE execute_ddl(t)
  <2>1. UNCHANGED <<pending, thread, cache>> /\ catalog' = catalog + 1 /\ version' = version + 1
    BY <1>9 DEF execute_ddl
  <2>2. Counts' /\ Bumps'
    BY <2>1 DEF CacheInv, Counts, Bumps, At
  <2>3. ASSUME NoTxDdl PROVE InStep'
    <3>1. InStep
      BY <2>3 DEF CacheInv
    <3>2. \A c \in Clients : cache[c].contents \in Nat /\ (cache[c].polled # None => cache[c].polled \in Nat)
      BY DEF CacheInv, Counts
    <3> QED BY <2>1, <3>1, <3>2 DEF CacheInv, Counts, InStep
  <2> QED BY <2>1, <2>2, <2>3 DEF CacheInv, NoTxDdl
<1>10. CASE shutdown(t)
  BY <1>10, CatalogKept DEF shutdown, At
<1> QED BY <1>1, <1>2, <1>3, <1>4, <1>5, <1>6, <1>7, <1>8, <1>9, <1>10 DEF Handler

LEMMA ClientCacheInv ==
  ASSUME CacheInv, NEW c \in Clients, Poll(c) \/ Load(c)
  PROVE  CacheInv'
<1>0. cache[c] \in [version : Nat, contents : Nat, polled : Nat \cup {None}]
  BY DEF CacheInv, Counts
<1>1. PICK entry \in [version : Nat, contents : Nat, polled : Nat \cup {None}] :
        /\ cache' = [cache EXCEPT ![c] = entry] /\ UNCHANGED <<version, thread, pending, catalog>>
        /\ \/ /\ entry.version = cache[c].version /\ entry.contents = cache[c].contents
              /\ entry.polled = version
           \/ /\ cache[c].polled # None /\ entry.version = cache[c].polled /\ entry.contents = catalog
              /\ entry.polled = None
  <2>1. CASE Poll(c)
    <3> DEFINE entry == [version |-> cache[c].version, contents |-> cache[c].contents, polled |-> version]
    <3>0. [cache[c] EXCEPT !.polled = version] = entry
      BY <1>0
    <3>1. cache' = [cache EXCEPT ![c] = entry]
      BY <2>1, <3>0, Zenon DEF Poll
    <3>2. entry \in [version : Nat, contents : Nat, polled : Nat \cup {None}]
      BY <1>0 DEF CacheInv, Counts
    <3> QED BY <2>1, <3>1, <3>2 DEF Poll, duckdb
  <2>2. CASE Load(c)
    <3> DEFINE entry == [version |-> cache[c].polled, contents |-> catalog, polled |-> None]
    <3>1. cache' = [cache EXCEPT ![c] = entry] /\ entry \in [version : Nat, contents : Nat, polled : Nat \cup {None}]
      BY <1>0, <2>2 DEF Load, CacheInv, Counts
    <3> QED BY <2>2, <3>1 DEF Load, duckdb
  <2> QED BY <2>1, <2>2
<1>2. Counts' /\ Bumps'
  BY <1>1 DEF CacheInv, Counts, Bumps, At
<1>3. ASSUME NoTxDdl PROVE InStep'
  <2>1. InStep
    BY <1>3 DEF CacheInv
  <2>2. version \in Nat /\ catalog \in Nat /\ cache[c].contents \in Nat
        /\ (cache[c].polled # None => cache[c].polled \in Nat)
    BY DEF CacheInv, Counts
  <2>3. entry.version <= entry.contents + 1 /\ entry.contents <= catalog
        /\ (entry.polled # None => entry.polled <= version)
    BY <1>1, <2>1, <2>2 DEF InStep
  <2>4. \A d \in Clients : cache'[d] = IF d = c THEN entry ELSE cache[d]
    BY <1>1 DEF CacheInv, Counts
  <2> QED BY <1>1, <2>1, <2>3, <2>4 DEF InStep
<1> QED BY <1>1, <1>2, <1>3 DEF CacheInv, NoTxDdl

LEMMA NextCacheInv ==
  ASSUME Inv, CacheInv, [Next]_vars
  PROVE  CacheInv'
<1>1. CASE UNCHANGED vars
  BY <1>1, CatalogKept DEF vars, At
<1> QED BY <1>1, HandlerCacheInv, ClientCacheInv DEF Next

\* While no transaction has run DDL, the version a client goes by tells it the
\* truth: what it cached under the current version is the committed catalog.
THEOREM CachesAreCurrent == Spec => []AutocommitFresh
<1>1. Inv /\ CacheInv /\ [Next]_vars => CacheInv'
  BY NextCacheInv
<1>2. ASSUME CacheInv PROVE AutocommitFresh
  <2>1. ASSUME NoTxDdl, NEW c \in Clients, cache[c].version = version PROVE cache[c].contents = catalog
    <3>1. cache[c].contents \in Nat /\ catalog \in Nat /\ version \in Nat
      BY <1>2, <2>1 DEF CacheInv, Counts
    <3> QED BY <1>2, <2>1, <3>1 DEF CacheInv, InStep
  <2> QED BY <2>1 DEF AutocommitFresh, CacheFresh, NoTxDdl
<1> QED BY <1>1, <1>2, AlwaysInv, InitCacheInv, PTL DEF Spec
=============================================================================
