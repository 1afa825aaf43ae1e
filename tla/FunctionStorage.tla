--------------------------- MODULE FunctionStorage ---------------------------
(***************************************************************************)
(* The shared SQLite store of vgi/function_storage.py: the work queue, the *)
(* key/value table, the append-only log and the counters that the worker   *)
(* processes of one query share.                                           *)
(*                                                                         *)
(* Every public method of FunctionStorageSqlite is one transaction: its    *)
(* statements run under SQLite's single write lock and are published by    *)
(* conn.commit().  The module keeps the two apart.  "db" is what is        *)
(* committed, which is all that a reader of another connection sees (WAL); *)
(* "tx" is the open transaction with the tables as its statements left     *)
(* them.  A worker that dies between the two loses the transaction, one    *)
(* that dies after the commit does not give back what it claimed.          *)
(*                                                                         *)
(* A row's payload is abstracted to a stamp that names the write it comes  *)
(* from.  The fields claims, discarded, drained, tickets, clearedAt and    *)
(* stamp of db are history: no statement reads them.                       *)
(***************************************************************************)
EXTENDS Integers, FiniteSets

CONSTANTS
  Workers,     \* worker processes (or threads), each with its own connection
  Scopes,      \* execution ids / transaction ids
  Namespaces,  \* the ns column
  Keys,        \* the key column
  Deltas,      \* what counter_add adds when it hands out tickets
  Ops,         \* the methods the workload calls
  MaxItems,    \* bound: queue items and log rows ever inserted (each)
  MaxStamp,    \* bound: writes ever made
  None         \* no open transaction

ASSUME DeltasPositive == Deltas \subseteq Nat \ {0}

VARIABLES
  db,      \* the committed tables
  tx,      \* the open write transaction, or None
  cursor,  \* cursor[w][c]: after_id of w's next state_log_scan of cell c
  seen     \* seen[w]: stamps of the log rows w has scanned since it started

vars == <<db, tx, cursor, seen>>

Cells == Scopes \X Namespaces \X Keys
ScopeOf(c) == c[1]
NsOf(c) == c[2]
CellsOf(s) == {c \in Cells : ScopeOf(c) = s}
NsCells(s, ns) == {c \in Cells : ScopeOf(c) = s /\ NsOf(c) = ns}

-----------------------------------------------------------------------------
(* The tables.                                                             *)

RowId      == Nat \ {0}
QueueRow   == [id : RowId, exec : Scopes]
StateRow   == [cell : Cells, stamp : Nat]
LogRow     == [id : RowId, cell : Cells, stamp : Nat]
CounterRow == [cell : Cells, n : Int, born : Nat]
Ticket     == [cell : Cells, n : Int, stamp : Nat]

Tables == [queue     : SUBSET QueueRow,     \* work_queue
           qseq      : Nat,                 \* its AUTOINCREMENT sequence
           state     : SUBSET StateRow,     \* function_state
           log       : SUBSET LogRow,       \* function_state_log
           lseq      : Nat,                 \* its AUTOINCREMENT sequence
           counter   : SUBSET CounterRow,   \* function_counter
           stamp     : Nat,                 \* writes so far
           claims    : SUBSET (QueueRow \X Workers),
           discarded : SUBSET QueueRow,
           drained   : SUBSET (StateRow \X Workers),
           tickets   : SUBSET Ticket,
           clearedAt : [Scopes -> Nat]]

EmptyTables ==
  [queue |-> {}, qseq |-> 0, state |-> {}, log |-> {}, lseq |-> 0,
   counter |-> {}, stamp |-> 0, claims |-> {}, discarded |-> {},
   drained |-> {}, tickets |-> {}, clearedAt |-> [s \in Scopes |-> 0]]

-----------------------------------------------------------------------------
(* What the statements of each method do to the tables.                    *)

\* queue_push: INSERT one row per item, ids from the sequence.
Pushed(d, e, n) ==
  [d EXCEPT !.queue = @ \cup [id : (d.qseq + 1)..(d.qseq + n), exec : {e}],
            !.qseq = @ + n]

\* (mutation) ORDER BY id DESC.
NewestFirst(d, e) ==
  {r \in d.queue : /\ r.exec = e
                   /\ \A o \in d.queue : o.exec = e => r.id >= o.id}

\* SELECT id ... WHERE execution_id = ? ORDER BY id ASC LIMIT 1
Oldest(d, e) ==
  {r \in d.queue : /\ r.exec = e
                   /\ \A o \in d.queue : o.exec = e => r.id <= o.id}

\* (mutation) the item is read and never deleted.
PeekedOnly(d, e, w) == [d EXCEPT !.claims = @ \cup (Oldest(d, e) \X {w})]

\* queue_pop: DELETE ... RETURNING work_item; no row when the queue is empty.
Popped(d, e, w) ==
  [d EXCEPT !.queue = @ \ Oldest(d, e),
            !.claims = @ \cup (Oldest(d, e) \X {w})]

\* (mutation) the execution is not part of the WHERE clause.
ClearsEveryQueue(d, e) ==
  [d EXCEPT !.queue = {}, !.discarded = @ \cup d.queue]

\* queue_clear: DELETE every item of the execution.
QueueCleared(d, e) ==
  LET gone == {r \in d.queue : r.exec = e} IN
  [d EXCEPT !.queue = @ \ gone, !.discarded = @ \cup gone]

\* state_put_many: upsert of a batch of cells.
Put(d, cs) ==
  [d EXCEPT !.state = {r \in @ : r.cell \notin cs}
                        \cup [cell : cs, stamp : {d.stamp + 1}],
            !.stamp = @ + 1]

\* (mutation) a scan that forgets to delete.
ScannedOnly(d, s, ns, w) ==
  [d EXCEPT !.drained = @ \cup ({r \in d.state : r.cell \in NsCells(s, ns)} \X {w})]

\* state_drain: DELETE ... RETURNING of a namespace.
Drained(d, s, ns, w) ==
  LET taken == {r \in d.state : r.cell \in NsCells(s, ns)} IN
  [d EXCEPT !.state = @ \ taken, !.drained = @ \cup (taken \X {w})]

\* state_delete: by key list, by range or the whole namespace.
Deleted(d, cs) == [d EXCEPT !.state = {r \in @ : r.cell \notin cs}]

\* (mutation) ordinals that start at zero.
ZeroAppended(d, c) ==
  [d EXCEPT !.log = @ \cup {[id |-> d.lseq, cell |-> c, stamp |-> d.stamp + 1]},
            !.lseq = @ + 1,
            !.stamp = @ + 1]

\* (mutation) INTEGER PRIMARY KEY without AUTOINCREMENT: the id is one more
\* than the largest id still in the table.
RowidAppended(d, c) ==
  LET id == CHOOSE i \in 1..(d.lseq + 1) :
              /\ \A r \in d.log : r.id < i
              /\ i = 1 \/ \E r \in d.log : r.id = i - 1
  IN [d EXCEPT !.log = @ \cup {[id |-> id, cell |-> c, stamp |-> d.stamp + 1]},
               !.lseq = @ + 1,
               !.stamp = @ + 1]

\* state_append: INSERT ... RETURNING id, the id from the sequence.
Appended(d, c) ==
  [d EXCEPT !.log = @ \cup {[id |-> d.lseq + 1, cell |-> c, stamp |-> d.stamp + 1]},
            !.lseq = @ + 1,
            !.stamp = @ + 1]

\* function_counter has one row per cell, or none.
CounterOf(d, c) == {r \in d.counter : r.cell = c}
CounterValue(d, c) ==
  IF CounterOf(d, c) = {} THEN 0 ELSE (CHOOSE r \in CounterOf(d, c) : TRUE).n

WithCounter(d, c, n, born) ==
  (d.counter \ CounterOf(d, c)) \cup {[cell |-> c, n |-> n, born |-> born]}

\* (mutation) DO UPDATE SET n = excluded.n: an add that overwrites.
Overwritten(d, c, delta) ==
  [d EXCEPT !.counter = WithCounter(d, c, delta, d.stamp + 1),
            !.tickets = @ \cup {[cell |-> c, n |-> delta, stamp |-> d.stamp + 1]},
            !.stamp = @ + 1]

\* state_counter_add: INSERT ... ON CONFLICT DO UPDATE SET n = n + delta
\* RETURNING n.  An update leaves the row where it was born.
Added(d, c, delta) ==
  LET n    == CounterValue(d, c) + delta
      born == IF CounterOf(d, c) = {} THEN d.stamp + 1
              ELSE (CHOOSE r \in CounterOf(d, c) : TRUE).born
  IN [d EXCEPT !.counter = WithCounter(d, c, n, born),
               !.tickets = @ \cup {[cell |-> c, n |-> n, stamp |-> d.stamp + 1]},
               !.stamp = @ + 1]

\* state_counter_set starts a new series of tickets.
CounterSet(d, c, n) ==
  [d EXCEPT !.counter = WithCounter(d, c, n, d.stamp + 1),
            !.tickets = {t \in @ : t.cell # c},
            !.stamp = @ + 1]

CounterDeleted(d, c) ==
  [d EXCEPT !.counter = @ \ CounterOf(d, c),
            !.tickets = {t \in @ : t.cell # c}]

\* (mutation) function_counter, the table added last, is forgotten.
ClearedTwoTables(d, s) ==
  [d EXCEPT !.state = {r \in @ : ScopeOf(r.cell) # s},
            !.log = {r \in @ : ScopeOf(r.cell) # s},
            !.clearedAt = [@ EXCEPT ![s] = d.stamp]]

\* execution_clear: three DELETEs, one commit; the work queue is left alone.
Cleared(d, s) ==
  [d EXCEPT !.state = {r \in @ : ScopeOf(r.cell) # s},
            !.log = {r \in @ : ScopeOf(r.cell) # s},
            !.counter = {r \in @ : ScopeOf(r.cell) # s},
            !.tickets = {t \in @ : ScopeOf(t.cell) # s},
            !.clearedAt = [@ EXCEPT ![s] = d.stamp]]

-----------------------------------------------------------------------------
(* Actions.                                                                *)

Init ==
  /\ db = EmptyTables
  /\ tx = None
  /\ cursor = [w \in Workers |-> [c \in Cells |-> -1]]
  /\ seen = [w \in Workers |-> {}]

InTransaction(w) == IF tx = None THEN FALSE ELSE tx.owner = w

\* The first DML statement takes the write lock and holds it to the commit.
Execute(w, op, d) ==
  /\ op \in Ops
  /\ tx = None
  /\ tx' = [owner |-> w, db |-> d]
  /\ UNCHANGED <<db, cursor, seen>>

queue_push(w) == \E e \in Scopes, n \in 1..2 :
  db.qseq + n <= MaxItems /\ Execute(w, "queue_push", Pushed(db, e, n))
queue_pop(w) == \E e \in Scopes : Execute(w, "queue_pop", Popped(db, e, w))
queue_clear(w) == \E e \in Scopes : Execute(w, "queue_clear", QueueCleared(db, e))

state_put_many(w) == \E s \in Scopes, ns \in Namespaces :
  \E cs \in SUBSET NsCells(s, ns) :
    /\ db.stamp < MaxStamp
    /\ Execute(w, "state_put_many", Put(db, cs))
state_drain(w) == \E s \in Scopes, ns \in Namespaces :
  Execute(w, "state_drain", Drained(db, s, ns, w))
state_delete(w) == \E s \in Scopes, ns \in Namespaces :
  \E cs \in SUBSET NsCells(s, ns) : Execute(w, "state_delete", Deleted(db, cs))

state_append(w) == \E c \in Cells :
  /\ db.lseq < MaxItems /\ db.stamp < MaxStamp
  /\ Execute(w, "state_append", Appended(db, c))

state_counter_add(w) == \E c \in Cells, delta \in Deltas :
  db.stamp < MaxStamp /\ Execute(w, "state_counter_add", Added(db, c, delta))
state_counter_set(w) == \E c \in Cells, n \in Deltas \cup {0} :
  db.stamp < MaxStamp /\ Execute(w, "state_counter_set", CounterSet(db, c, n))
state_counter_delete(w) == \E c \in Cells :
  Execute(w, "state_counter_delete", CounterDeleted(db, c))

execution_clear(w) == \E s \in Scopes :
  Execute(w, "execution_clear", Cleared(db, s))

\* conn.commit(), after which the method returns its rows to the worker.
Commit(w) ==
  /\ InTransaction(w)
  /\ db' = tx.db
  /\ tx' = None
  /\ UNCHANGED <<cursor, seen>>

\* state_log_scan(after_id, limit): the first rows after the cursor, in id
\* order, up to one of them; the last id returned is the next cursor.
state_log_scan(w) == \E c \in Cells :
  LET rows == {r \in db.log : r.cell = c /\ r.id > cursor[w][c]} IN
  \E last \in rows :
    /\ "state_log_scan" \in Ops
    /\ ~InTransaction(w)
    /\ cursor' = [cursor EXCEPT ![w][c] = last.id]
    /\ seen' = [seen EXCEPT ![w] = @ \cup {r.stamp : r \in {q \in rows : q.id <= last.id}}]
    /\ UNCHANGED <<db, tx>>

\* The process dies: SQLite rolls its transaction back, its memory is gone and
\* its replacement scans from the start.
Crash(w) ==
  /\ tx' = IF InTransaction(w) THEN None ELSE tx
  /\ cursor' = [cursor EXCEPT ![w] = [c \in Cells |-> -1]]
  /\ seen' = [seen EXCEPT ![w] = {}]
  /\ UNCHANGED db

Next == \E w \in Workers :
  \/ queue_push(w) \/ queue_pop(w) \/ queue_clear(w)
  \/ state_put_many(w) \/ state_drain(w) \/ state_delete(w)
  \/ state_append(w) \/ state_log_scan(w)
  \/ state_counter_add(w) \/ state_counter_set(w) \/ state_counter_delete(w)
  \/ execution_clear(w)
  \/ Commit(w) \/ Crash(w)

Spec == Init /\ [][Next]_vars

-----------------------------------------------------------------------------
(* Properties.                                                             *)

\* The variables have their types, in the committed tables and in the open
\* transaction (function_storage.py, _ensure_tables).
TypeOK ==
  /\ db \in Tables
  /\ tx \in {None} \cup [owner : Workers, db : Tables]
  /\ cursor \in [Workers -> [Cells -> Int]]
  /\ seen \in [Workers -> SUBSET Nat]

\* A pushed item is queued, discarded by queue_clear, or claimed, never two of
\* these, and by at most one worker: queue_pop is an exactly-once claim however
\* pops, pushes, clears and crashes interleave.
QueueConserved(d) ==
  LET claimed == {p[1] : p \in d.claims} IN
  /\ \A p, q \in d.claims : p[1].id = q[1].id => p = q
  /\ \A a, b \in d.queue \cup d.discarded \cup claimed : a.id = b.id => a = b
  /\ {r.id : r \in d.queue \cup d.discarded \cup claimed} = 1..d.qseq
  /\ d.queue \cap d.discarded = {}
  /\ d.queue \cap claimed = {}
  /\ d.discarded \cap claimed = {}

ClaimedAtMostOnce == QueueConserved(db)

\* What queue_push, queue_pop and queue_clear publish to other connections is an
\* atomic FIFO queue (WorkQueue): no transaction, nor a crash in one, shows a
\* half-made claim or touches the queue of another execution.
Queue == INSTANCE WorkQueue WITH
  Executions <- Scopes, pending <- db.queue, claimed <- db.claims, discarded <- db.discarded

ImplementsWorkQueue == Queue!QueueSpec

\* Items of one execution leave the queue oldest first: nothing still queued
\* is older than something already claimed (queue_pop, ORDER BY id ASC).
ClaimsInOrder(d) ==
  \A p \in d.claims, r \in d.queue : p[1].exec = r.exec => p[1].id < r.id

FifoClaims == ClaimsInOrder(db)

\* A value handed out by state_drain is handed out once and is no longer in
\* the table: two concurrent drains split the namespace.
DrainSplits(d) ==
  /\ \A p, q \in d.drained : p[1] = q[1] => p = q
  /\ \A p \in d.drained : p[1] \notin d.state

DrainedOnce == DrainSplits(db)

\* Concurrent counter_add calls never return the same value within a series
\* (the adds between two resets of the counter): "no read-modify-write race,
\* no caller loop".
TicketsDiffer(d) ==
  \A t, u \in d.tickets : t.cell = u.cell /\ t.n = u.n => t = u

DistinctTickets == TicketsDiffer(db)

\* Nothing written to a scope before its execution_clear is left in any of the
\* three scope-keyed tables.
ClearedBefore(d) ==
  /\ \A r \in d.state : r.stamp > d.clearedAt[ScopeOf(r.cell)]
  /\ \A r \in d.log : r.stamp > d.clearedAt[ScopeOf(r.cell)]
  /\ \A r \in d.counter : r.born > d.clearedAt[ScopeOf(r.cell)]

ClearIsTotal == ClearedBefore(db)

\* A reader that scrolls the log with the last id as its cursor misses no
\* append: every committed row at or below its cursor is one it has scanned
\* (state_log_scan, "Use the returned id of the last row as the next after_id").
TailComplete ==
  \A w \in Workers : \A r \in db.log :
    r.id <= cursor[w][r.cell] => r.stamp \in seen[w]
=============================================================================
