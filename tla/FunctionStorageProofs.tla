------------------------ MODULE FunctionStorageProofs ------------------------
(***************************************************************************)
(* What FunctionStorage guarantees for any number of workers, executions,  *)
(* cells and writes.  Every theorem follows the same path: each method     *)
(* takes tables that satisfy an invariant to tables that satisfy it (one   *)
(* lemma per method), so the invariant holds of the committed tables and   *)
(* of the open transaction alike, and Commit only copies one to the other. *)
(***************************************************************************)
EXTENDS FunctionStorage, TLAPS

-----------------------------------------------------------------------------
(* Types.                                                                  *)

LEMMA CellFacts ==
  ASSUME NEW c \in Cells
  PROVE  ScopeOf(c) \in Scopes /\ NsOf(c) \in Namespaces
BY DEF Cells, ScopeOf, NsOf

LEMMA EmptyType == EmptyTables \in Tables
BY DEF EmptyTables, Tables

LEMMA PushedType ==
  ASSUME NEW d \in Tables, NEW e \in Scopes, NEW n \in Nat
  PROVE  Pushed(d, e, n) \in Tables
<1> DEFINE new == [id : (d.qseq + 1)..(d.qseq + n), exec : {e}]
<1>1. new \subseteq QueueRow /\ d.qseq + n \in Nat
  BY DEF Tables, QueueRow, RowId
<1>2. Pushed(d, e, n) = [d EXCEPT !.queue = d.queue \cup new, !.qseq = d.qseq + n]
  BY DEF Pushed
<1> HIDE DEF new
<1> QED BY <1>1, <1>2 DEF Tables

LEMMA PoppedType ==
  ASSUME NEW d \in Tables, NEW e \in Scopes, NEW w \in Workers
  PROVE  Popped(d, e, w) \in Tables
<1>1. Oldest(d, e) \X {w} \subseteq QueueRow \X Workers
  BY DEF Oldest, Tables
<1> QED BY <1>1 DEF Tables, Popped

LEMMA QueueClearedType ==
  ASSUME NEW d \in Tables, NEW e \in Scopes
  PROVE  QueueCleared(d, e) \in Tables
BY DEF Tables, QueueCleared

LEMMA PutType ==
  ASSUME NEW d \in Tables, NEW cs \in SUBSET Cells
  PROVE  Put(d, cs) \in Tables
<1> DEFINE new == [cell : cs, stamp : {d.stamp + 1}]
<1>1. new \subseteq StateRow /\ d.stamp + 1 \in Nat
  BY DEF Tables, StateRow
<1>2. Put(d, cs) = [d EXCEPT !.state = {r \in d.state : r.cell \notin cs} \cup new,
                             !.stamp = d.stamp + 1]
  BY DEF Put
<1> HIDE DEF new
<1> QED BY <1>1, <1>2 DEF Tables

LEMMA DrainedType ==
  ASSUME NEW d \in Tables, NEW s \in Scopes, NEW ns \in Namespaces, NEW w \in Workers
  PROVE  Drained(d, s, ns, w) \in Tables
<1> DEFINE taken == {r \in d.state : r.cell \in NsCells(s, ns)}
<1>1. taken \X {w} \subseteq StateRow \X Workers
  BY DEF Tables
<1> QED BY <1>1 DEF Tables, Drained

LEMMA DeletedType ==
  ASSUME NEW d \in Tables, NEW cs \in SUBSET Cells
  PROVE  Deleted(d, cs) \in Tables
BY DEF Tables, Deleted

LEMMA AppendedType ==
  ASSUME NEW d \in Tables, NEW c \in Cells
  PROVE  Appended(d, c) \in Tables
<1> DEFINE new == {[id |-> d.lseq + 1, cell |-> c, stamp |-> d.stamp + 1]}
<1>1. new \subseteq LogRow /\ d.lseq + 1 \in Nat /\ d.stamp + 1 \in Nat
  BY DEF Tables, LogRow, RowId
<1>2. Appended(d, c) = [d EXCEPT !.log = d.log \cup new,
                                 !.lseq = d.lseq + 1, !.stamp = d.stamp + 1]
  BY DEF Appended
<1> HIDE DEF new
<1> QED BY <1>1, <1>2 DEF Tables

LEMMA CounterValueType ==
  ASSUME NEW d \in Tables, NEW c \in Cells
  PROVE  CounterValue(d, c) \in Int
<1>1. CASE CounterOf(d, c) = {}
  BY <1>1 DEF CounterValue
<1>2. CASE CounterOf(d, c) # {}
  <2>1. (CHOOSE r \in CounterOf(d, c) : TRUE) \in CounterOf(d, c)
    BY <1>2
  <2> QED BY <1>2, <2>1 DEF CounterValue, CounterOf, Tables, CounterRow
<1> QED BY <1>1, <1>2

LEMMA WithCounterType ==
  ASSUME NEW d \in Tables, NEW c \in Cells, NEW n \in Int, NEW born \in Nat
  PROVE  WithCounter(d, c, n, born) \in SUBSET CounterRow
BY DEF WithCounter, Tables, CounterRow, CounterOf

LEMMA AddedType ==
  ASSUME NEW d \in Tables, NEW c \in Cells, NEW delta \in Deltas
  PROVE  Added(d, c, delta) \in Tables
<1> DEFINE n == CounterValue(d, c) + delta
           born == IF CounterOf(d, c) = {} THEN d.stamp + 1
                   ELSE (CHOOSE r \in CounterOf(d, c) : TRUE).born
<1>1. n \in Int
  BY CounterValueType, DeltasPositive
<1>2. d.stamp + 1 \in Nat
  BY DEF Tables
<1>3. born \in Nat
  <2>1. CASE CounterOf(d, c) = {}
    BY <2>1, <1>2
  <2>2. CASE CounterOf(d, c) # {}
    <3>1. (CHOOSE r \in CounterOf(d, c) : TRUE) \in CounterOf(d, c)
      BY <2>2
    <3> QED BY <2>2, <3>1 DEF CounterOf, Tables, CounterRow
  <2> QED BY <2>1, <2>2
<1>4. WithCounter(d, c, n, born) \in SUBSET CounterRow
  BY <1>1, <1>3, WithCounterType
<1>5. [cell |-> c, n |-> n, stamp |-> d.stamp + 1] \in Ticket
  BY <1>1, <1>2 DEF Ticket
<1>6. d.tickets \cup {[cell |-> c, n |-> n, stamp |-> d.stamp + 1]} \in SUBSET Ticket
  BY <1>5 DEF Tables
<1> HIDE DEF n, born
<1>7. Added(d, c, delta) =
        [d EXCEPT !.counter = WithCounter(d, c, n, born),
                  !.tickets = d.tickets \cup {[cell |-> c, n |-> n, stamp |-> d.stamp + 1]},
                  !.stamp = d.stamp + 1]
  BY DEF Added, n, born, Tables
<1> QED BY <1>2, <1>4, <1>6, <1>7 DEF Tables

LEMMA CounterSetType ==
  ASSUME NEW d \in Tables, NEW c \in Cells, NEW n \in Int
  PROVE  CounterSet(d, c, n) \in Tables
<1>1. d.stamp + 1 \in Nat
  BY DEF Tables
<1>2. WithCounter(d, c, n, d.stamp + 1) \in SUBSET CounterRow
  BY <1>1, WithCounterType
<1> QED BY <1>1, <1>2 DEF Tables, CounterSet

LEMMA CounterDeletedType ==
  ASSUME NEW d \in Tables, NEW c \in Cells
  PROVE  CounterDeleted(d, c) \in Tables
BY DEF Tables, CounterDeleted

LEMMA ClearedType ==
  ASSUME NEW d \in Tables, NEW s \in Scopes
  PROVE  Cleared(d, s) \in Tables
BY DEF Tables, Cleared

(***************************************************************************)
(* d2 is what some method of the store makes of d.                         *)
(***************************************************************************)
Wrote(d, d2) ==
  \/ \E e \in Scopes, n \in 1..2 : d2 = Pushed(d, e, n)
  \/ \E e \in Scopes, w \in Workers : d2 = Popped(d, e, w)
  \/ \E e \in Scopes : d2 = QueueCleared(d, e)
  \/ \E cs \in SUBSET Cells : d2 = Put(d, cs)
  \/ \E s \in Scopes, ns \in Namespaces, w \in Workers : d2 = Drained(d, s, ns, w)
  \/ \E cs \in SUBSET Cells : d2 = Deleted(d, cs)
  \/ \E c \in Cells : d2 = Appended(d, c)
  \/ \E c \in Cells, delta \in Deltas : d2 = Added(d, c, delta)
  \/ \E c \in Cells, n \in Int : d2 = CounterSet(d, c, n)
  \/ \E c \in Cells : d2 = CounterDeleted(d, c)
  \/ \E s \in Scopes : d2 = Cleared(d, s)

\* A step is the statements of one method, its commit, a scan or a crash.
Executes == \E w \in Workers : \E d2 :
  /\ tx = None
  /\ Wrote(db, d2)
  /\ tx' = [owner |-> w, db |-> d2]
  /\ UNCHANGED <<db, cursor, seen>>

LEMMA StepShape ==
  ASSUME Next
  PROVE  \/ Executes
         \/ \E w \in Workers : Commit(w) \/ state_log_scan(w) \/ Crash(w)
<1>0. \A s, ns : NsCells(s, ns) \subseteq Cells
  BY DEF NsCells
<1>1. PICK w \in Workers :
        \/ queue_push(w) \/ queue_pop(w) \/ queue_clear(w)
        \/ state_put_many(w) \/ state_drain(w) \/ state_delete(w)
        \/ state_append(w) \/ state_log_scan(w)
        \/ state_counter_add(w) \/ state_counter_set(w) \/ state_counter_delete(w)
        \/ execution_clear(w)
        \/ Commit(w) \/ Crash(w)
  BY DEF Next
<1>2. ASSUME NEW op, NEW d2, Execute(w, op, d2), Wrote(db, d2)
      PROVE  Executes
  BY <1>2 DEF Execute, Executes
<1>3. CASE queue_push(w)
  BY <1>2, <1>3 DEF queue_push, Wrote
<1>4. CASE queue_pop(w)
  BY <1>2, <1>4 DEF queue_pop, Wrote
<1>5. CASE queue_clear(w)
  BY <1>2, <1>5 DEF queue_clear, Wrote
<1>6. CASE state_put_many(w)
  BY <1>0, <1>2, <1>6 DEF state_put_many, Wrote
<1>7. CASE state_drain(w)
  BY <1>2, <1>7 DEF state_drain, Wrote
<1>8. CASE state_delete(w)
  BY <1>0, <1>2, <1>8 DEF state_delete, Wrote
<1>9. CASE state_append(w)
  BY <1>2, <1>9 DEF state_append, Wrote
<1>10. CASE state_counter_add(w)
  BY <1>2, <1>10 DEF state_counter_add, Wrote
<1>11. CASE state_counter_set(w)
  BY <1>2, <1>11, DeltasPositive DEF state_counter_set, Wrote
<1>12. CASE state_counter_delete(w)
  BY <1>2, <1>12 DEF state_counter_delete, Wrote
<1>13. CASE execution_clear(w)
  BY <1>2, <1>13 DEF execution_clear, Wrote
<1> QED BY <1>1, <1>3, <1>4, <1>5, <1>6, <1>7, <1>8, <1>9, <1>10, <1>11, <1>12, <1>13

LEMMA WroteType ==
  ASSUME NEW d \in Tables, NEW d2, Wrote(d, d2)
  PROVE  d2 \in Tables
BY PushedType, PoppedType, QueueClearedType, PutType, DrainedType, DeletedType,
   AppendedType, AddedType, CounterSetType, CounterDeletedType, ClearedType
   DEF Wrote

\* What InTransaction hides from the provers.
LEMMA CommitShape ==
  ASSUME NEW w \in Workers, Commit(w)
  PROVE  tx # None /\ tx.owner = w /\ db' = tx.db /\ tx' = None
BY DEF Commit, InTransaction

(***************************************************************************)
(* The variables keep their types, for every instance.                     *)
(***************************************************************************)
THEOREM TypeCorrect == Spec => []TypeOK
<1>1. Init => TypeOK
  BY EmptyType DEF Init, TypeOK
<1>2. TypeOK /\ [Next]_vars => TypeOK'
  <2> SUFFICES ASSUME TypeOK, [Next]_vars PROVE TypeOK'
    OBVIOUS
  <2>1. CASE Executes
    BY <2>1, WroteType DEF Executes, TypeOK
  <2>2. ASSUME NEW w \in Workers, Commit(w) PROVE TypeOK'
    BY <2>2, CommitShape DEF Commit, TypeOK
  <2>3. ASSUME NEW w \in Workers, state_log_scan(w) PROVE TypeOK'
    <3>1. PICK c \in Cells, last \in db.log :
            /\ cursor' = [cursor EXCEPT ![w][c] = last.id]
            /\ seen' = [seen EXCEPT ![w] =
                 @ \cup {r.stamp : r \in {q \in {r \in db.log : r.cell = c /\ r.id > cursor[w][c]} :
                                         q.id <= last.id}}]
            /\ UNCHANGED <<db, tx>>
      BY <2>3 DEF state_log_scan
    <3> DEFINE new == {r.stamp : r \in {q \in {r \in db.log : r.cell = c /\ r.id > cursor[w][c]} :
                                      q.id <= last.id}}
    <3>2. last.id \in Int /\ new \subseteq Nat
      BY DEF TypeOK, Tables, LogRow, RowId
    <3> HIDE DEF new
    <3> QED BY <3>1, <3>2 DEF TypeOK, new
  <2>4. ASSUME NEW w \in Workers, Crash(w) PROVE TypeOK'
    BY <2>4 DEF Crash, TypeOK
  <2>5. CASE UNCHANGED vars
    BY <2>5 DEF vars, TypeOK
  <2> QED BY <2>1, <2>2, <2>3, <2>4, <2>5, StepShape
<1> QED BY <1>1, <1>2, PTL DEF Spec

-----------------------------------------------------------------------------
(***************************************************************************)
(* The work queue.  Conservation and order are inductive together.         *)
(***************************************************************************)
QueueInv(d) == QueueConserved(d) /\ ClaimsInOrder(d)

SameQueue(d, d2) ==
  /\ d2.queue = d.queue /\ d2.qseq = d.qseq
  /\ d2.claims = d.claims /\ d2.discarded = d.discarded

\* The methods of the other tables leave the queue alone, execution_clear too.
LEMMA OthersKeepQueue ==
  ASSUME NEW d \in Tables, NEW d2, Wrote(d, d2)
  PROVE  \/ SameQueue(d, d2)
         \/ \E e \in Scopes, n \in 1..2 : d2 = Pushed(d, e, n)
         \/ \E e \in Scopes, w \in Workers : d2 = Popped(d, e, w)
         \/ \E e \in Scopes : d2 = QueueCleared(d, e)
BY DEF Wrote, SameQueue, Tables, Put, Drained, Deleted, Appended, Added,
       CounterSet, CounterDeleted, Cleared

LEMMA PushedQueue ==
  ASSUME NEW d \in Tables, QueueInv(d), NEW e \in Scopes, NEW n \in 1..2
  PROVE  QueueInv(Pushed(d, e, n))
<1> DEFINE new == [id : (d.qseq + 1)..(d.qseq + n), exec : {e}]
           d2 == Pushed(d, e, n)
           claimed == {p[1] : p \in d.claims}
           all == d.queue \cup d.discarded \cup claimed
<1>1. /\ d2.queue = d.queue \cup new /\ d2.qseq = d.qseq + n
      /\ d2.claims = d.claims /\ d2.discarded = d.discarded
  BY DEF Pushed, Tables
<1>2. \A r \in new : r.id > d.qseq /\ r.id <= d.qseq + n /\ r.id \in Nat /\ r.exec = e
  BY DEF Tables
<1>3. \A a, b \in new : a.id = b.id => a = b
  OBVIOUS
<1>4. {r.id : r \in new} = (d.qseq + 1)..(d.qseq + n)
  <2>1. ASSUME NEW i \in (d.qseq + 1)..(d.qseq + n) PROVE \E r \in new : r.id = i
    <3> WITNESS [id |-> i, exec |-> e] \in new
    <3> QED OBVIOUS
  <2> QED BY <2>1
<1>5. {r.id : r \in all} = 1..d.qseq
  BY DEF QueueInv, QueueConserved
<1>6. \A r \in all : r.id \in 1..d.qseq
  BY <1>5
<1>7. \A r \in all : r \notin new
  BY <1>2, <1>6 DEF Tables
<1>8. \A a \in all, b \in new : a.id # b.id
  BY <1>2, <1>6 DEF Tables
<1>9. {r.id : r \in all \cup new} = 1..(d.qseq + n)
  <2>1. (1..d.qseq) \cup ((d.qseq + 1)..(d.qseq + n)) = 1..(d.qseq + n)
    BY DEF Tables
  <2> HIDE DEF new, all
  <2>2. {r.id : r \in all \cup new} = {r.id : r \in all} \cup {r.id : r \in new}
    OBVIOUS
  <2> QED BY <1>4, <1>5, <2>1, <2>2
<1>10. d2.queue \cup d2.discarded \cup {p[1] : p \in d2.claims} = all \cup new
  BY <1>1
<1>11. claimed \subseteq all /\ d.queue \subseteq all /\ d.discarded \subseteq all
  OBVIOUS
<1>12. QueueConserved(d2)
  <2> HIDE DEF new, all
  <2>1. \A a, b \in all : a.id = b.id => a = b
    BY DEF QueueInv, QueueConserved, all
  <2>2. \A a, b \in all \cup new : a.id = b.id => a = b
    BY <2>1, <1>3, <1>8
  <2>3. /\ \A p, q \in d.claims : p[1].id = q[1].id => p = q
        /\ d.queue \cap d.discarded = {}
        /\ d.queue \cap claimed = {}
        /\ d.discarded \cap claimed = {}
    BY DEF QueueInv, QueueConserved
  <2>4. /\ (d.queue \cup new) \cap d.discarded = {}
        /\ (d.queue \cup new) \cap claimed = {}
    BY <2>3, <1>7, <1>11
  <2> HIDE DEF d2
  <2> QED BY <1>1, <1>9, <1>10, <2>2, <2>3, <2>4 DEF QueueConserved
<1>13. ClaimsInOrder(d2)
  <2>1. \A p \in d.claims : p[1] \in claimed
    OBVIOUS
  <2>2. \A p \in d.claims, r \in new : p[1].id < r.id
    <3> HIDE DEF new, all, claimed
    <3> QED BY <1>2, <1>6, <1>11, <2>1 DEF Tables
  <2> HIDE DEF new, d2
  <2> QED BY <1>1, <2>2 DEF QueueInv, ClaimsInOrder
<1> QED BY <1>12, <1>13 DEF QueueInv

LEMMA PoppedQueue ==
  ASSUME NEW d \in Tables, QueueInv(d), NEW e \in Scopes, NEW w \in Workers
  PROVE  QueueInv(Popped(d, e, w))
<1> DEFINE old == Oldest(d, e)
           d2 == Popped(d, e, w)
           claimed == {p[1] : p \in d.claims}
           claimed2 == {p[1] : p \in d2.claims}
           all == d.queue \cup d.discarded \cup claimed
<1>1. /\ d2.queue = d.queue \ old /\ d2.qseq = d.qseq
      /\ d2.claims = d.claims \cup (old \X {w}) /\ d2.discarded = d.discarded
  BY DEF Popped, Tables
<1>2. /\ old \subseteq d.queue
      /\ \A r \in old : r.exec = e /\ \A o \in d.queue : o.exec = e => r.id <= o.id
  BY DEF Oldest
<1>3. \A r \in d.queue : r.id \in Nat
  BY DEF Tables, QueueRow, RowId
<1>4. /\ \A p, q \in d.claims : p[1].id = q[1].id => p = q
      /\ \A a, b \in all : a.id = b.id => a = b
      /\ {r.id : r \in all} = 1..d.qseq
      /\ d.queue \cap d.discarded = {}
      /\ d.queue \cap claimed = {}
      /\ d.discarded \cap claimed = {}
  BY DEF QueueInv, QueueConserved
<1>5. \A a, b \in old : a = b
  <2>1. \A a, b \in old : a.id <= b.id /\ b.id <= a.id /\ a \in d.queue /\ b \in d.queue
    BY <1>2
  <2>2. \A a, b \in old : a.id = b.id
    BY <2>1, <1>3
  <2> QED BY <2>1, <2>2, <1>4
<1> HIDE DEF old, d2
<1>6. claimed2 = claimed \cup old
  <2>1. \A r \in old : <<r, w>> \in d2.claims /\ <<r, w>>[1] = r
    BY <1>1
  <2>2. \A p \in d2.claims : p[1] \in claimed \cup old
    BY <1>1
  <2>3. \A p \in d.claims : p[1] \in claimed2
    BY <1>1
  <2> QED BY <2>1, <2>2, <2>3
<1>7. d2.queue \cup d2.discarded \cup claimed2 = all
  BY <1>1, <1>2, <1>6
<1>8. \A p, q \in d2.claims : p[1].id = q[1].id => p = q
  <2> SUFFICES ASSUME NEW p \in d2.claims, NEW q \in d2.claims, p[1].id = q[1].id
               PROVE  p = q
    OBVIOUS
  <2>1. CASE p \in d.claims /\ q \in d.claims
    BY <2>1, <1>4
  <2>2. CASE p \in old \X {w} /\ q \in old \X {w}
    BY <2>2, <1>5
  <2>3. CASE p \in d.claims /\ q \in old \X {w}
    <3>1. p[1] \in claimed /\ q[1] \in d.queue
      BY <2>3, <1>2
    <3> QED BY <3>1, <1>4
  <2>4. CASE q \in d.claims /\ p \in old \X {w}
    <3>1. q[1] \in claimed /\ p[1] \in d.queue
      BY <2>4, <1>2
    <3> QED BY <3>1, <1>4
  <2> QED BY <2>1, <2>2, <2>3, <2>4, <1>1
<1>9. QueueConserved(d2)
  <2> HIDE DEF claimed
  <2>1. /\ d2.queue \cap d2.discarded = {}
        /\ d2.queue \cap claimed2 = {}
        /\ d2.discarded \cap claimed2 = {}
    BY <1>1, <1>2, <1>4, <1>6
  <2> HIDE DEF all
  <2> QED BY <1>1, <1>4, <1>7, <1>8, <2>1 DEF QueueConserved
<1>10. ClaimsInOrder(d2)
  <2> SUFFICES ASSUME NEW p \in d2.claims, NEW r \in d2.queue, p[1].exec = r.exec
               PROVE  p[1].id < r.id
    BY DEF ClaimsInOrder
  <2>1. CASE p \in d.claims
    BY <2>1, <1>1 DEF QueueInv, ClaimsInOrder
  <2>2. CASE p \in old \X {w}
    <3>1. p[1] \in old /\ r \in d.queue /\ r \notin old
      BY <2>2, <1>1
    <3>2. p[1].id <= r.id /\ p[1] \in d.queue
      BY <3>1, <1>2
    <3>3. p[1].id # r.id
      BY <3>1, <3>2, <1>4
    <3> QED BY <3>1, <3>2, <3>3, <1>3
  <2> QED BY <2>1, <2>2, <1>1
<1> QED BY <1>9, <1>10 DEF QueueInv, d2

LEMMA QueueClearedQueue ==
  ASSUME NEW d \in Tables, QueueInv(d), NEW e \in Scopes
  PROVE  QueueInv(QueueCleared(d, e))
<1> DEFINE gone == {r \in d.queue : r.exec = e}
           d2 == QueueCleared(d, e)
           claimed == {p[1] : p \in d.claims}
<1>1. /\ d2.queue = d.queue \ gone /\ d2.qseq = d.qseq
      /\ d2.claims = d.claims /\ d2.discarded = d.discarded \cup gone
  BY DEF QueueCleared, Tables
<1>2. gone \subseteq d.queue
  OBVIOUS
<1> HIDE DEF gone, d2
<1>3. d2.queue \cup d2.discarded \cup claimed = d.queue \cup d.discarded \cup claimed
  BY <1>1, <1>2
<1>4. QueueConserved(d2)
  <2>1. /\ d2.queue \cap d2.discarded = {}
        /\ d2.queue \cap claimed = {}
        /\ d2.discarded \cap claimed = {}
    BY <1>1, <1>2 DEF QueueInv, QueueConserved
  <2> QED BY <1>1, <1>3, <2>1 DEF QueueInv, QueueConserved
<1>5. ClaimsInOrder(d2)
  BY <1>1 DEF QueueInv, ClaimsInOrder
<1> QED BY <1>4, <1>5 DEF QueueInv, d2

LEMMA WroteQueue ==
  ASSUME NEW d \in Tables, QueueInv(d), NEW d2, Wrote(d, d2)
  PROVE  QueueInv(d2)
<1>1. CASE SameQueue(d, d2)
  BY <1>1 DEF SameQueue, QueueInv, QueueConserved, ClaimsInOrder
<1> QED BY <1>1, OthersKeepQueue, PushedQueue, PoppedQueue, QueueClearedQueue

-----------------------------------------------------------------------------
(***************************************************************************)
(* Draining.  A put makes rows no drain has returned, because every write  *)
(* has a stamp of its own.                                                 *)
(***************************************************************************)
StateInv(d) ==
  /\ DrainSplits(d)
  /\ \A r \in d.state : r.stamp <= d.stamp
  /\ \A p \in d.drained : p[1].stamp <= d.stamp

LEMMA PutState ==
  ASSUME NEW d \in Tables, StateInv(d), NEW cs \in SUBSET Cells
  PROVE  StateInv(Put(d, cs))
<1> DEFINE new == [cell : cs, stamp : {d.stamp + 1}]
           d2 == Put(d, cs)
<1>1. /\ d2.state = {r \in d.state : r.cell \notin cs} \cup new
      /\ d2.stamp = d.stamp + 1 /\ d2.drained = d.drained
  BY DEF Put, Tables
<1>2. \A r \in new : r.stamp = d.stamp + 1
  OBVIOUS
<1>3. d.stamp \in Nat
  BY DEF Tables
<1>4. /\ \A r \in d.state : r.stamp \in Nat
      /\ \A p \in d.drained : p[1].stamp \in Nat
  BY DEF Tables, StateRow
<1> HIDE DEF new, d2
<1>5. DrainSplits(d2)
  BY <1>1, <1>2, <1>3, <1>4 DEF StateInv, DrainSplits
<1>6. \A r \in d2.state : r.stamp <= d2.stamp
  BY <1>1, <1>2, <1>3, <1>4 DEF StateInv
<1>7. \A p \in d2.drained : p[1].stamp <= d2.stamp
  BY <1>1, <1>3, <1>4 DEF StateInv
<1> QED BY <1>5, <1>6, <1>7 DEF StateInv, d2

LEMMA DrainedState ==
  ASSUME NEW d \in Tables, StateInv(d),
         NEW s \in Scopes, NEW ns \in Namespaces, NEW w \in Workers
  PROVE  StateInv(Drained(d, s, ns, w))
<1> DEFINE taken == {r \in d.state : r.cell \in NsCells(s, ns)}
           d2 == Drained(d, s, ns, w)
<1>1. /\ d2.state = d.state \ taken /\ d2.stamp = d.stamp
      /\ d2.drained = d.drained \cup (taken \X {w})
  BY DEF Drained, Tables
<1>2. taken \subseteq d.state
  OBVIOUS
<1> HIDE DEF taken, d2
<1>3. DrainSplits(d2)
  <2>1. \A p, q \in d2.drained : p[1] = q[1] => p = q
    BY <1>1, <1>2 DEF StateInv, DrainSplits
  <2>2. \A p \in d2.drained : p[1] \notin d2.state
    BY <1>1 DEF StateInv, DrainSplits
  <2> QED BY <2>1, <2>2 DEF DrainSplits
<1>4. \A r \in d2.state : r.stamp <= d2.stamp
  BY <1>1 DEF StateInv
<1>5. \A p \in d2.drained : p[1].stamp <= d2.stamp
  BY <1>1, <1>2 DEF StateInv
<1> QED BY <1>3, <1>4, <1>5 DEF StateInv, d2

\* Every other method only removes rows or only advances the stamp.
LEMMA WroteState ==
  ASSUME NEW d \in Tables, StateInv(d), NEW d2, Wrote(d, d2)
  PROVE  StateInv(d2)
<1>1. \/ \E cs \in SUBSET Cells : d2 = Put(d, cs)
      \/ \E s \in Scopes, ns \in Namespaces, w \in Workers : d2 = Drained(d, s, ns, w)
      \/ /\ d2.state \subseteq d.state /\ d2.drained = d.drained
         /\ d2.stamp \in {d.stamp, d.stamp + 1}
  BY DEF Wrote, Tables, Pushed, Popped, QueueCleared, Deleted, Appended, Added,
         CounterSet, CounterDeleted, Cleared
<1>2. CASE /\ d2.state \subseteq d.state /\ d2.drained = d.drained
           /\ d2.stamp \in {d.stamp, d.stamp + 1}
  <2>1. DrainSplits(d2)
    BY <1>2 DEF StateInv, DrainSplits
  <2>2. \A n \in Nat : n <= d.stamp => n <= d2.stamp
    BY <1>2 DEF Tables
  <2>3. /\ \A r \in d.state : r.stamp \in Nat
        /\ \A p \in d.drained : p[1].stamp \in Nat
    BY DEF Tables, StateRow
  <2> QED BY <1>2, <2>1, <2>2, <2>3 DEF StateInv
<1> QED BY <1>1, <1>2, PutState, DrainedState

-----------------------------------------------------------------------------
(***************************************************************************)
(* Tickets.  The counter is at or above every ticket of its series, so an  *)
(* add returns one that is new.                                            *)
(***************************************************************************)
TicketInv(d) ==
  /\ TicketsDiffer(d)
  /\ \A q, r \in d.counter : q.cell = r.cell => q = r
  /\ \A t \in d.tickets : \E r \in d.counter : r.cell = t.cell /\ t.n <= r.n

SameCounter(d, d2) == d2.counter = d.counter /\ d2.tickets = d.tickets

LEMMA AddedTicket ==
  ASSUME NEW d \in Tables, TicketInv(d), NEW c \in Cells, NEW delta \in Deltas
  PROVE  TicketInv(Added(d, c, delta))
<1> DEFINE n == CounterValue(d, c) + delta
           born == IF CounterOf(d, c) = {} THEN d.stamp + 1
                   ELSE (CHOOSE r \in CounterOf(d, c) : TRUE).born
           row == [cell |-> c, n |-> n, born |-> born]
           ticket == [cell |-> c, n |-> n, stamp |-> d.stamp + 1]
           d2 == Added(d, c, delta)
<1>1. CounterValue(d, c) \in Int /\ delta \in Nat \ {0} /\ n \in Int
  BY CounterValueType, DeltasPositive
<1>2. /\ d2.counter = (d.counter \ CounterOf(d, c)) \cup {row}
      /\ d2.tickets = d.tickets \cup {ticket}
  BY DEF Added, Tables, WithCounter
<1>3. row.cell = c /\ row.n = n /\ ticket.cell = c /\ ticket.n = n
  OBVIOUS
<1> HIDE DEF n, row, ticket, d2
<1>4. \A r \in d.counter : r.cell = c => CounterOf(d, c) = {r} /\ r.n = CounterValue(d, c)
  <2> SUFFICES ASSUME NEW r \in d.counter, r.cell = c
               PROVE  CounterOf(d, c) = {r} /\ r.n = CounterValue(d, c)
    OBVIOUS
  <2>1. CounterOf(d, c) = {r}
    BY DEF CounterOf, TicketInv
  <2>2. (CHOOSE q \in CounterOf(d, c) : TRUE) = r
    BY <2>1
  <2> QED BY <2>1, <2>2 DEF CounterValue
<1>5. \A t \in d.tickets : t.n \in Int /\ (t.cell = c => t.n < n)
  <2> SUFFICES ASSUME NEW t \in d.tickets PROVE t.n \in Int /\ (t.cell = c => t.n < n)
    OBVIOUS
  <2>1. t.n \in Int
    BY DEF Tables, Ticket
  <2>2. PICK r \in d.counter : r.cell = t.cell /\ t.n <= r.n
    BY DEF TicketInv
  <2> QED BY <2>1, <2>2, <1>1, <1>4 DEF n
<1>6. TicketsDiffer(d2)
  BY <1>1, <1>2, <1>3, <1>5 DEF TicketInv, TicketsDiffer
<1>7. \A q, r \in d2.counter : q.cell = r.cell => q = r
  BY <1>2, <1>3 DEF TicketInv, CounterOf
<1>8. \A t \in d2.tickets : \E r \in d2.counter : r.cell = t.cell /\ t.n <= r.n
  <2> SUFFICES ASSUME NEW t \in d2.tickets
               PROVE  \E r \in d2.counter : r.cell = t.cell /\ t.n <= r.n
    OBVIOUS
  <2>1. CASE t.cell = c
    <3>1. t.n <= row.n
      BY <2>1, <1>1, <1>2, <1>3, <1>5
    <3> QED BY <2>1, <3>1, <1>2, <1>3
  <2>2. CASE t.cell # c
    <3>1. PICK r \in d.counter : r.cell = t.cell /\ t.n <= r.n
      BY <2>2, <1>2, <1>3 DEF TicketInv
    <3> QED BY <3>1, <2>2, <1>2 DEF CounterOf
  <2> QED BY <2>1, <2>2
<1> QED BY <1>6, <1>7, <1>8 DEF TicketInv, d2

LEMMA ResetTicket ==
  ASSUME NEW d \in Tables, TicketInv(d), NEW c \in Cells, NEW n \in Int
  PROVE  TicketInv(CounterSet(d, c, n)) /\ TicketInv(CounterDeleted(d, c))
<1>1. ASSUME NEW d2, d2.tickets = {t \in d.tickets : t.cell # c},
             d.counter \ CounterOf(d, c) \subseteq d2.counter,
             \A q, r \in d2.counter : q.cell = r.cell => q = r
      PROVE  TicketInv(d2)
  <2>1. TicketsDiffer(d2)
    BY <1>1 DEF TicketInv, TicketsDiffer
  <2>2. \A t \in d2.tickets : \E r \in d2.counter : r.cell = t.cell /\ t.n <= r.n
    BY <1>1 DEF TicketInv, CounterOf
  <2> QED BY <1>1, <2>1, <2>2 DEF TicketInv
<1>2. TicketInv(CounterSet(d, c, n))
  <2> DEFINE d2 == CounterSet(d, c, n)
             row == [cell |-> c, n |-> n, born |-> d.stamp + 1]
  <2>1. /\ d2.counter = (d.counter \ CounterOf(d, c)) \cup {row}
        /\ d2.tickets = {t \in d.tickets : t.cell # c}
        /\ row.cell = c
    BY DEF CounterSet, Tables, WithCounter
  <2> HIDE DEF d2, row
  <2>2. \A q, r \in d2.counter : q.cell = r.cell => q = r
    BY <2>1 DEF TicketInv, CounterOf
  <2>3. TicketInv(d2)
    BY <1>1, <2>1, <2>2
  <2> QED BY <2>3 DEF d2
<1>3. TicketInv(CounterDeleted(d, c))
  <2> DEFINE d2 == CounterDeleted(d, c)
  <2>1. /\ d2.counter = d.counter \ CounterOf(d, c)
        /\ d2.tickets = {t \in d.tickets : t.cell # c}
    BY DEF CounterDeleted, Tables
  <2> HIDE DEF d2
  <2>2. TicketInv(d2)
    BY <1>1, <2>1 DEF TicketInv
  <2> QED BY <2>2 DEF d2
<1> QED BY <1>2, <1>3

LEMMA ClearedTicket ==
  ASSUME NEW d \in Tables, TicketInv(d), NEW s \in Scopes
  PROVE  TicketInv(Cleared(d, s))
<1> DEFINE d2 == Cleared(d, s)
<1>1. /\ d2.counter = {r \in d.counter : ScopeOf(r.cell) # s}
      /\ d2.tickets = {t \in d.tickets : ScopeOf(t.cell) # s}
  BY DEF Cleared, Tables
<1> HIDE DEF d2
<1>2. TicketInv(d2)
  BY <1>1 DEF TicketInv, TicketsDiffer
<1> QED BY <1>2 DEF d2

LEMMA WroteTicket ==
  ASSUME NEW d \in Tables, TicketInv(d), NEW d2, Wrote(d, d2)
  PROVE  TicketInv(d2)
<1>1. \/ SameCounter(d, d2)
      \/ \E c \in Cells, delta \in Deltas : d2 = Added(d, c, delta)
      \/ \E c \in Cells, n \in Int : d2 = CounterSet(d, c, n)
      \/ \E c \in Cells : d2 = CounterDeleted(d, c)
      \/ \E s \in Scopes : d2 = Cleared(d, s)
  BY DEF Wrote, SameCounter, Tables, Pushed, Popped, QueueCleared, Put, Drained,
         Deleted, Appended
<1>2. CASE SameCounter(d, d2)
  BY <1>2 DEF SameCounter, TicketInv, TicketsDiffer
<1>3. 0 \in Int
  OBVIOUS
<1> QED BY <1>1, <1>2, <1>3, AddedTicket, ResetTicket, ClearedTicket

-----------------------------------------------------------------------------
(***************************************************************************)
(* execution_clear.                                                        *)
(***************************************************************************)
ClearInv(d) ==
  /\ ClearedBefore(d)
  /\ \A s \in Scopes : d.clearedAt[s] <= d.stamp

\* Rows that are new carry the newest stamp; the others were there before.
LEMMA YoungRows ==
  ASSUME NEW d \in Tables, ClearInv(d), NEW d2 \in Tables,
         d2.clearedAt = d.clearedAt, d2.stamp \in {d.stamp, d.stamp + 1},
         \A r \in d2.state : r \in d.state \/ r.stamp = d.stamp + 1,
         \A r \in d2.log : r \in d.log \/ r.stamp = d.stamp + 1,
         \A r \in d2.counter :
           \/ r.born = d.stamp + 1
           \/ \E q \in d.counter : q.cell = r.cell /\ q.born = r.born
  PROVE  ClearInv(d2)
<1>1. /\ d.stamp \in Nat /\ \A s \in Scopes : d.clearedAt[s] \in Nat
      /\ \A s \in Scopes : d.stamp + 1 > d.clearedAt[s]
  BY DEF Tables, ClearInv
<1>2. /\ \A r \in d2.state : r.cell \in Cells
      /\ \A r \in d2.log : r.cell \in Cells
      /\ \A r \in d2.counter : r.cell \in Cells
  BY DEF Tables, StateRow, LogRow, CounterRow
<1>3. /\ \A r \in d2.state : r.stamp > d2.clearedAt[ScopeOf(r.cell)]
      /\ \A r \in d2.log : r.stamp > d2.clearedAt[ScopeOf(r.cell)]
  BY <1>1, <1>2, CellFacts DEF ClearInv, ClearedBefore
<1>4. \A r \in d2.counter : r.born > d2.clearedAt[ScopeOf(r.cell)]
  BY <1>1, <1>2, CellFacts DEF ClearInv, ClearedBefore
<1>5. \A s \in Scopes : d2.clearedAt[s] <= d2.stamp
  BY <1>1 DEF ClearInv
<1> QED BY <1>3, <1>4, <1>5 DEF ClearInv, ClearedBefore

LEMMA ClearedClear ==
  ASSUME NEW d \in Tables, ClearInv(d), NEW s \in Scopes
  PROVE  ClearInv(Cleared(d, s))
<1> DEFINE d2 == Cleared(d, s)
<1>1. /\ d2.state = {r \in d.state : ScopeOf(r.cell) # s}
      /\ d2.log = {r \in d.log : ScopeOf(r.cell) # s}
      /\ d2.counter = {r \in d.counter : ScopeOf(r.cell) # s}
      /\ d2.clearedAt = [d.clearedAt EXCEPT ![s] = d.stamp]
      /\ d2.stamp = d.stamp
  BY DEF Cleared, Tables
<1>2. /\ \A r \in d.state : r.cell \in Cells
      /\ \A r \in d.log : r.cell \in Cells
      /\ \A r \in d.counter : r.cell \in Cells
      /\ d.clearedAt \in [Scopes -> Nat] /\ d.stamp \in Nat
  BY DEF Tables, StateRow, LogRow, CounterRow
<1> HIDE DEF d2
<1>3. \A u \in Scopes : d2.clearedAt[u] = IF u = s THEN d.stamp ELSE d.clearedAt[u]
  BY <1>1, <1>2
<1>4. ClearedBefore(d2)
  BY <1>1, <1>2, <1>3, CellFacts DEF ClearInv, ClearedBefore
<1>5. \A u \in Scopes : d2.clearedAt[u] <= d2.stamp
  BY <1>1, <1>2, <1>3 DEF ClearInv
<1> QED BY <1>4, <1>5 DEF ClearInv, d2

LEMMA WroteClear ==
  ASSUME NEW d \in Tables, ClearInv(d), NEW d2, Wrote(d, d2)
  PROVE  ClearInv(d2)
<1>0. d2 \in Tables
  BY WroteType
<1>1. \/ \E s \in Scopes : d2 = Cleared(d, s)
      \/ \E c \in Cells, delta \in Deltas : d2 = Added(d, c, delta)
      \/ \E cs \in SUBSET Cells : d2 = Put(d, cs)
      \/ \E c \in Cells : d2 = Appended(d, c)
      \/ \E c \in Cells, n \in Int : d2 = CounterSet(d, c, n)
      \/ /\ d2.clearedAt = d.clearedAt /\ d2.stamp = d.stamp
         /\ d2.state \subseteq d.state /\ d2.log = d.log
         /\ d2.counter \subseteq d.counter
  BY DEF Wrote, Tables, Pushed, Popped, QueueCleared, Drained, Deleted, CounterDeleted
<1>5. ASSUME NEW c \in Cells, d2 = Appended(d, c)
      PROVE  ClearInv(d2)
  <2>1. /\ d2.clearedAt = d.clearedAt /\ d2.stamp = d.stamp + 1
        /\ d2.state = d.state /\ d2.counter = d.counter
        /\ \A r \in d2.log : r \in d.log \/ r.stamp = d.stamp + 1
    BY <1>5 DEF Appended, Tables
  <2> QED BY <1>0, <2>1, YoungRows
<1>6. ASSUME NEW c \in Cells, NEW n \in Int, d2 = CounterSet(d, c, n)
      PROVE  ClearInv(d2)
  <2>1. /\ d2.clearedAt = d.clearedAt /\ d2.stamp = d.stamp + 1
        /\ d2.state = d.state /\ d2.log = d.log
        /\ \A r \in d2.counter : r \in d.counter \/ r.born = d.stamp + 1
    BY <1>6 DEF CounterSet, Tables, WithCounter
  <2> QED BY <1>0, <2>1, YoungRows
<1>2. ASSUME NEW c \in Cells, NEW delta \in Deltas, d2 = Added(d, c, delta)
      PROVE  ClearInv(d2)
  <2> DEFINE born == IF CounterOf(d, c) = {} THEN d.stamp + 1
                     ELSE (CHOOSE r \in CounterOf(d, c) : TRUE).born
             row == [cell |-> c, n |-> CounterValue(d, c) + delta, born |-> born]
  <2>1. /\ d2.clearedAt = d.clearedAt /\ d2.stamp = d.stamp + 1
        /\ d2.state = d.state /\ d2.log = d.log
        /\ d2.counter = (d.counter \ CounterOf(d, c)) \cup {row}
    BY <1>2 DEF Added, Tables, WithCounter
  <2>2. row.cell = c /\ row.born = born
    OBVIOUS
  <2>3. born = d.stamp + 1 \/ \E q \in d.counter : q.cell = c /\ q.born = born
    <3>1. CASE CounterOf(d, c) # {}
      <4>1. PICK q \in CounterOf(d, c) : q = (CHOOSE r \in CounterOf(d, c) : TRUE)
        BY <3>1
      <4> QED BY <3>1, <4>1 DEF CounterOf
    <3> QED BY <3>1
  <2> HIDE DEF born, row
  <2> QED BY <1>0, <2>1, <2>2, <2>3, YoungRows
<1>3. ASSUME NEW cs \in SUBSET Cells, d2 = Put(d, cs)
      PROVE  ClearInv(d2)
  <2> DEFINE new == [cell : cs, stamp : {d.stamp + 1}]
  <2>1. /\ d2.clearedAt = d.clearedAt /\ d2.stamp = d.stamp + 1
        /\ d2.log = d.log /\ d2.counter = d.counter
        /\ d2.state = {r \in d.state : r.cell \notin cs} \cup new
    BY <1>3 DEF Put, Tables
  <2>2. \A r \in new : r.stamp = d.stamp + 1
    OBVIOUS
  <2> HIDE DEF new
  <2> QED BY <1>0, <2>1, <2>2, YoungRows
<1>4. CASE /\ d2.clearedAt = d.clearedAt /\ d2.stamp = d.stamp
           /\ d2.state \subseteq d.state /\ d2.log = d.log
           /\ d2.counter \subseteq d.counter
  BY <1>0, <1>4, YoungRows
<1> QED BY <1>1, <1>2, <1>3, <1>4, <1>5, <1>6, ClearedClear

-----------------------------------------------------------------------------
(***************************************************************************)
(* The inductive invariant: the four parts hold of the committed tables    *)
(* and of the open transaction, and the log only grows past a cursor.      *)
(***************************************************************************)
Sound(d) == QueueInv(d) /\ StateInv(d) /\ TicketInv(d) /\ ClearInv(d)

LEMMA WroteSound ==
  ASSUME NEW d \in Tables, Sound(d), NEW d2, Wrote(d, d2)
  PROVE  Sound(d2)
BY WroteQueue, WroteState, WroteTicket, WroteClear DEF Sound

LEMMA EmptySound == Sound(EmptyTables)
<1>1. {r.id : r \in {}} = 1..0
  OBVIOUS
<1> QED BY <1>1 DEF Sound, QueueInv, QueueConserved, ClaimsInOrder, StateInv, DrainSplits,
       TicketInv, TicketsDiffer, ClearInv, ClearedBefore, EmptyTables

SoundInv == Sound(db) /\ (tx # None => Sound(tx.db))

(***************************************************************************)
(* Every table property at once; the theorems below read it off.           *)
(***************************************************************************)
THEOREM TablesSound == Spec => []SoundInv
<1>1. Init => SoundInv
  BY EmptySound DEF Init, SoundInv
<1>2. TypeOK /\ SoundInv /\ [Next]_vars => SoundInv'
  <2> SUFFICES ASSUME TypeOK, SoundInv, [Next]_vars PROVE SoundInv'
    OBVIOUS
  <2>1. CASE Executes
    <3>1. \E w \in Workers : \E d2 :
            Wrote(db, d2) /\ tx' = [owner |-> w, db |-> d2] /\ db' = db
      BY <2>1 DEF Executes
    <3>3. PICK d2 : Wrote(db, d2) /\ tx'.db = d2 /\ db' = db
      BY <3>1
    <3>2. Sound(d2)
      BY <3>3, WroteSound DEF TypeOK, SoundInv
    <3> QED BY <3>2, <3>3 DEF SoundInv
  <2>2. ASSUME NEW w \in Workers, Commit(w) PROVE SoundInv'
    BY <2>2, CommitShape DEF SoundInv
  <2>3. ASSUME NEW w \in Workers, state_log_scan(w) PROVE SoundInv'
    BY <2>3 DEF state_log_scan, SoundInv
  <2>4. ASSUME NEW w \in Workers, Crash(w) PROVE SoundInv'
    BY <2>4 DEF Crash, SoundInv
  <2>5. CASE UNCHANGED vars
    BY <2>5 DEF vars, SoundInv
  <2> QED BY <2>1, <2>2, <2>3, <2>4, <2>5, StepShape
<1> QED BY <1>1, <1>2, TypeCorrect, PTL DEF Spec

\* queue_pop is an exactly-once claim, for any number of workers and items.
THEOREM ExactlyOnceClaims == Spec => []ClaimedAtMostOnce
<1>1. SoundInv => ClaimedAtMostOnce
  BY DEF SoundInv, Sound, QueueInv, ClaimedAtMostOnce
<1> QED BY <1>1, TablesSound, PTL

\* The queue is first in, first out per execution.
THEOREM ClaimsAreFifo == Spec => []FifoClaims
<1>1. SoundInv => FifoClaims
  BY DEF SoundInv, Sound, QueueInv, FifoClaims
<1> QED BY <1>1, TablesSound, PTL

\* Concurrent drains never return the same write twice.
THEOREM DrainsSplit == Spec => []DrainedOnce
<1>1. SoundInv => DrainedOnce
  BY DEF SoundInv, Sound, StateInv, DrainedOnce
<1> QED BY <1>1, TablesSound, PTL

\* Concurrent adds return different values within a series.
THEOREM TicketsAreDistinct == Spec => []DistinctTickets
<1>1. SoundInv => DistinctTickets
  BY DEF SoundInv, Sound, TicketInv, DistinctTickets
<1> QED BY <1>1, TablesSound, PTL

\* Nothing older than an execution_clear survives it.
THEOREM ClearsAreTotal == Spec => []ClearIsTotal
<1>1. SoundInv => ClearIsTotal
  BY DEF SoundInv, Sound, ClearInv, ClearIsTotal
<1> QED BY <1>1, TablesSound, PTL

-----------------------------------------------------------------------------
(***************************************************************************)
(* The log and its cursors.                                                *)
(***************************************************************************)

\* d2's log is d's, with rows removed and rows added past d's sequence.
LogAfter(d, d2) ==
  /\ d2.lseq >= d.lseq
  /\ \A r \in d2.log : r \in d.log \/ r.id > d.lseq
  /\ \A r \in d2.log : r.id <= d2.lseq

LogInv ==
  /\ LogAfter(db, db)
  /\ tx # None => LogAfter(db, tx.db)
  /\ \A w \in Workers, c \in Cells : cursor[w][c] <= db.lseq
  /\ TailComplete

LEMMA WroteLog ==
  ASSUME NEW d \in Tables, LogAfter(d, d), NEW d2, Wrote(d, d2)
  PROVE  LogAfter(d, d2)
<1>0. d.lseq \in Nat /\ \A r \in d.log : r.id \in Nat
  BY DEF Tables, LogRow, RowId
<1>1. \/ \E c \in Cells : d2 = Appended(d, c)
      \/ d2.log \subseteq d.log /\ d2.lseq = d.lseq
  BY DEF Wrote, Tables, Pushed, Popped, QueueCleared, Put, Drained, Deleted, Added,
         CounterSet, CounterDeleted, Cleared
<1>2. ASSUME NEW c \in Cells, d2 = Appended(d, c)
      PROVE  LogAfter(d, d2)
  <2> DEFINE row == [id |-> d.lseq + 1, cell |-> c, stamp |-> d.stamp + 1]
  <2>1. d2.log = d.log \cup {row} /\ d2.lseq = d.lseq + 1 /\ row.id = d.lseq + 1
    BY <1>2 DEF Appended, Tables
  <2> HIDE DEF row
  <2> QED BY <2>1, <1>0 DEF LogAfter
<1>3. CASE d2.log \subseteq d.log /\ d2.lseq = d.lseq
  BY <1>0, <1>3 DEF LogAfter
<1> QED BY <1>1, <1>2, <1>3

\* A reader that scrolls by last id misses no append, for any number of
\* readers, writers and clears: ids are never given twice.
THEOREM TailsAreComplete == Spec => []TailComplete
<1>1. Init => LogInv
  BY DEF Init, LogInv, LogAfter, TailComplete, EmptyTables
<1>2. TypeOK /\ LogInv /\ [Next]_vars => LogInv'
  <2> SUFFICES ASSUME TypeOK, LogInv, [Next]_vars PROVE LogInv'
    OBVIOUS
  <2>0. /\ db.lseq \in Nat
        /\ \A r \in db.log : r.id \in RowId /\ r.cell \in Cells
        /\ \A w \in Workers, c \in Cells : cursor[w][c] \in Int
    BY DEF TypeOK, Tables, LogRow
  <2>1. CASE Executes
    <3>1. PICK d2 : Wrote(db, d2) /\ tx'.db = d2 /\ UNCHANGED <<db, cursor, seen>>
      BY <2>1 DEF Executes
    <3>2. LogAfter(db, d2)
      BY <3>1, WroteLog DEF TypeOK, LogInv
    <3> QED BY <3>1, <3>2 DEF LogInv, TailComplete
  <2>2. ASSUME NEW w \in Workers, Commit(w) PROVE LogInv'
    <3>1. /\ tx # None /\ db' = tx.db /\ tx' = None /\ UNCHANGED <<cursor, seen>>
          /\ tx.db \in Tables
      BY <2>2, CommitShape DEF Commit, TypeOK
    <3>2. LogAfter(db, tx.db)
      BY <3>1 DEF LogInv
    <3>3. tx.db.lseq \in Nat /\ \A r \in tx.db.log : r.id \in RowId /\ r.cell \in Cells
      BY <3>1 DEF Tables, LogRow
    <3>4. LogAfter(tx.db, tx.db)
      BY <3>2, <3>3 DEF LogAfter
    <3>5. \A v \in Workers, c \in Cells : cursor[v][c] <= tx.db.lseq
      BY <2>0, <3>2, <3>3 DEF LogInv, LogAfter
    <3>6. \A v \in Workers : \A r \in tx.db.log :
            r.id <= cursor[v][r.cell] => r.stamp \in seen[v]
      BY <2>0, <3>2, <3>3 DEF LogInv, LogAfter, TailComplete, RowId
    <3> QED BY <3>1, <3>4, <3>5, <3>6 DEF LogInv, TailComplete
  <2>3. ASSUME NEW w \in Workers, state_log_scan(w) PROVE LogInv'
    <3>1. PICK c \in Cells, last \in db.log :
            /\ last.cell = c /\ last.id > cursor[w][c]
            /\ cursor' = [cursor EXCEPT ![w][c] = last.id]
            /\ seen' = [seen EXCEPT ![w] =
                 @ \cup {r.stamp : r \in {q \in {r \in db.log : r.cell = c /\ r.id > cursor[w][c]} :
                                         q.id <= last.id}}]
            /\ UNCHANGED <<db, tx>>
      BY <2>3 DEF state_log_scan
    <3>2. \A v \in Workers, e \in Cells :
            cursor'[v][e] = IF v = w /\ e = c THEN last.id ELSE cursor[v][e]
      BY <3>1 DEF TypeOK
    <3>3. \A v \in Workers : seen[v] \subseteq seen'[v]
      BY <3>1 DEF TypeOK
    <3>4. \A r \in db.log : r.cell = c /\ r.id > cursor[w][c] /\ r.id <= last.id
            => r.stamp \in seen'[w]
      BY <3>1 DEF TypeOK
    <3>5. \A v \in Workers, e \in Cells : cursor'[v][e] <= db.lseq
      BY <2>0, <3>1, <3>2 DEF LogInv, LogAfter
    <3>6. \A v \in Workers : \A r \in db.log :
            r.id <= cursor'[v][r.cell] => r.stamp \in seen'[v]
      <4> SUFFICES ASSUME NEW v \in Workers, NEW r \in db.log, r.id <= cursor'[v][r.cell]
                   PROVE  r.stamp \in seen'[v]
        OBVIOUS
      <4>1. CASE r.id <= cursor[v][r.cell]
        BY <4>1, <3>3 DEF LogInv, TailComplete
      <4>2. CASE ~(r.id <= cursor[v][r.cell])
        BY <4>2, <2>0, <3>2, <3>4 DEF RowId
      <4> QED BY <4>1, <4>2
    <3> QED BY <3>1, <3>5, <3>6 DEF LogInv, TailComplete
  <2>4. ASSUME NEW w \in Workers, Crash(w) PROVE LogInv'
    <3>1. /\ \A v \in Workers, c \in Cells :
               cursor'[v][c] = IF v = w THEN -1 ELSE cursor[v][c]
          /\ \A v \in Workers : v # w => seen'[v] = seen[v]
          /\ db' = db /\ (tx' = tx \/ tx' = None)
      BY <2>4 DEF Crash, TypeOK
    <3>2. \A v \in Workers : \A r \in db.log :
            r.id <= cursor'[v][r.cell] => r.stamp \in seen'[v]
      <4> SUFFICES ASSUME NEW v \in Workers, NEW r \in db.log, r.id <= cursor'[v][r.cell]
                   PROVE  r.stamp \in seen'[v]
        OBVIOUS
      <4>1. v # w
        BY <3>1, <2>0 DEF RowId
      <4> QED BY <4>1, <3>1, <2>0 DEF LogInv, TailComplete
    <3>3. \A v \in Workers, c \in Cells : cursor'[v][c] <= db.lseq
      BY <3>1, <2>0 DEF LogInv
    <3> QED BY <3>1, <3>2, <3>3 DEF LogInv, TailComplete
  <2>5. CASE UNCHANGED vars
    BY <2>5 DEF vars, LogInv, TailComplete
  <2> QED BY <2>1, <2>2, <2>3, <2>4, <2>5, StepShape
<1>3. LogInv => TailComplete
  BY DEF LogInv
<1> QED BY <1>1, <1>2, <1>3, TypeCorrect, PTL DEF Spec
-----------------------------------------------------------------------------
(***************************************************************************)
(* The store implements WorkQueue.  While a transaction is open nobody     *)
(* else writes, so what Commit publishes is still what some method makes   *)
(* of the committed tables.                                                *)
(***************************************************************************)
OpenWrote == tx # None => Wrote(db, tx.db)

THEOREM TransactionsAreIsolated == Spec => []OpenWrote
<1>1. Init => OpenWrote
  BY DEF Init, OpenWrote
<1>2. OpenWrote /\ [Next]_vars => OpenWrote'
  <2> SUFFICES ASSUME OpenWrote, [Next]_vars PROVE OpenWrote'
    OBVIOUS
  <2>1. CASE Executes
    <3>0. PICK w \in Workers : \E d : Wrote(db, d) /\ tx' = [owner |-> w, db |-> d] /\ db' = db
      BY <2>1 DEF Executes
    <3>1. PICK d2 : Wrote(db, d2) /\ tx' = [owner |-> w, db |-> d2] /\ db' = db
      BY <3>0
    <3>2. tx'.db = d2
      BY <3>1
    <3>3. Wrote(db', tx'.db)
      BY <3>1, <3>2
    <3> QED BY <3>3 DEF OpenWrote
  <2>2. ASSUME NEW w \in Workers, Commit(w) PROVE OpenWrote'
    BY <2>2, CommitShape DEF OpenWrote
  <2>3. ASSUME NEW w \in Workers, state_log_scan(w) PROVE OpenWrote'
    <3>1. db' = db /\ tx' = tx
      BY <2>3 DEF state_log_scan
    <3> QED BY <3>1 DEF OpenWrote
  <2>4. ASSUME NEW w \in Workers, Crash(w) PROVE OpenWrote'
    <3>1. db' = db /\ (tx' = tx \/ tx' = None)
      BY <2>4 DEF Crash
    <3> QED BY <3>1 DEF OpenWrote
  <2>5. CASE UNCHANGED vars
    <3>1. db' = db /\ tx' = tx
      BY <2>5 DEF vars
    <3> QED BY <3>1 DEF OpenWrote
  <2> QED BY <2>1, <2>2, <2>3, <2>4, <2>5, StepShape
<1> QED BY <1>1, <1>2, PTL DEF Spec

\* Publishing a method's work is one step of the abstract queue, or none.
LEMMA WroteIsQueueStep ==
  ASSUME db \in Tables, QueueInv(db), Wrote(db, db')
  PROVE  [Queue!QueueNext]_(Queue!queue)
<1>1. CASE SameQueue(db, db')
  BY <1>1 DEF SameQueue, Queue!queue
<1>2. ASSUME NEW e \in Scopes, NEW n \in 1..2, db' = Pushed(db, e, n)
      PROVE  Queue!Push(e)
  <2> DEFINE new == [id : (db.qseq + 1)..(db.qseq + n), exec : {e}]
  <2>1. /\ db'.queue = db.queue \cup new
        /\ db'.claims = db.claims /\ db'.discarded = db.discarded
    BY <1>2 DEF Pushed, Tables
  <2>2. \A r \in new : r.exec = e /\ r.id \in Nat /\ r.id > db.qseq
    BY DEF Tables
  <2>3. \A old \in Queue!Known : old.id \in 1..db.qseq
    <3>1. Queue!Known = db.queue \cup db.discarded \cup {p[1] : p \in db.claims}
      BY DEF Queue!Known
    <3> QED BY <3>1 DEF QueueInv, QueueConserved
  <2>4. db.qseq \in Nat
    BY DEF Tables
  <2> HIDE DEF new
  <2>5. \A r \in db'.queue \ db.queue : r.exec = e /\ \A old \in Queue!Known : old.id < r.id
    BY <2>1, <2>2, <2>3, <2>4
  <2> QED BY <2>1, <2>5 DEF Queue!Push
<1>3. ASSUME NEW e \in Scopes, NEW w \in Workers, db' = Popped(db, e, w)
      PROVE  Queue!Claim(e, w) \/ SameQueue(db, db')
  <2>1. /\ db'.queue = db.queue \ Oldest(db, e) /\ db'.qseq = db.qseq
        /\ db'.claims = db.claims \cup (Oldest(db, e) \X {w})
        /\ db'.discarded = db.discarded
    BY <1>3 DEF Popped, Tables
  <2>2. CASE Oldest(db, e) = {}
    BY <2>1, <2>2 DEF SameQueue
  <2>3. ASSUME NEW r \in Oldest(db, e) PROVE Queue!Claim(e, w)
    <3>1. r \in db.queue /\ r.exec = e /\ \A o \in db.queue : o.exec = e => r.id <= o.id
      BY <2>3 DEF Oldest
    <3>2. \A q \in Oldest(db, e) : q = r
      <4>1. ASSUME NEW q \in Oldest(db, e) PROVE q = r
        <5>1. q \in db.queue /\ q.exec = e /\ r.id <= q.id /\ q.id <= r.id
          BY <3>1 DEF Oldest
        <5>2. q.id \in Nat /\ r.id \in Nat
          BY <5>1, <3>1 DEF Tables, QueueRow, RowId
        <5>3. q.id = r.id
          BY <5>1, <5>2
        <5> QED BY <5>1, <5>3, <3>1 DEF QueueInv, QueueConserved
      <4> QED BY <4>1
    <3>3. Oldest(db, e) = {r}
      BY <3>2, <2>3
    <3>4. Oldest(db, e) \X {w} = {<<r, w>>}
      BY <3>3
    <3> QED BY <2>1, <3>1, <3>3, <3>4 DEF Queue!Claim
  <2> QED BY <2>2, <2>3
<1>4. ASSUME NEW e \in Scopes, db' = QueueCleared(db, e)
      PROVE  Queue!Discard(e)
  <2> DEFINE gone == {r \in db.queue : r.exec = e}
  <2>1. /\ db'.queue = db.queue \ gone /\ db'.claims = db.claims
        /\ db'.discarded = db.discarded \cup gone
    BY <1>4 DEF QueueCleared, Tables
  <2>2. db.queue \ gone = {r \in db.queue : r.exec # e} /\ db.queue \ (db.queue \ gone) = gone
    OBVIOUS
  <2> HIDE DEF gone
  <2> QED BY <2>1, <2>2 DEF Queue!Discard
<1> QED BY <1>1, <1>2, <1>3, <1>4, OthersKeepQueue DEF Queue!QueueNext, Queue!queue, SameQueue

(***************************************************************************)
(* Seen from outside, the store's queue is an atomic FIFO queue: the       *)
(* detailed specification implements WorkQueue.                            *)
(***************************************************************************)
THEOREM StoreImplementsQueue == Spec => ImplementsWorkQueue
<1>1. Init => Queue!QueueInit
  BY DEF Init, EmptyTables, Queue!QueueInit
<1>2. TypeOK /\ SoundInv /\ OpenWrote /\ [Next]_vars => [Queue!QueueNext]_(Queue!queue)
  <2> SUFFICES ASSUME TypeOK, SoundInv, OpenWrote, [Next]_vars
               PROVE  [Queue!QueueNext]_(Queue!queue)
    OBVIOUS
  <2>1. CASE db' = db
    BY <2>1 DEF Queue!queue
  <2>2. ASSUME NEW w \in Workers, Commit(w) PROVE [Queue!QueueNext]_(Queue!queue)
    <3>1. Wrote(db, db')
      BY <2>2, CommitShape DEF OpenWrote
    <3>2. db \in Tables /\ QueueInv(db)
      BY DEF TypeOK, SoundInv, Sound
    <3> QED BY <3>1, <3>2, WroteIsQueueStep
  <2>3. db' = db \/ \E w \in Workers : Commit(w)
    BY StepShape DEF Executes, state_log_scan, Crash, vars
  <2> QED BY <2>1, <2>2, <2>3
<1> QED BY <1>1, <1>2, TypeCorrect, TablesSound, TransactionsAreIsolated, PTL
        DEF Spec, ImplementsWorkQueue, Queue!QueueSpec
=============================================================================
