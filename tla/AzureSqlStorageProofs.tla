------------------------ MODULE AzureSqlStorageProofs ------------------------
(***************************************************************************)
(* Proofs about AzureSqlStorage for any workers, cells, calls and          *)
(* workload.                                                               *)
(*                                                                         *)
(* BaseInv holds whatever overlaps: what the open transaction of each      *)
(* method holds, that no two hold one row, and that the identity values    *)
(* only grow.  It gives ClaimedOnce.  Upon it, Identified says whose       *)
(* attempt id is whose, AppendInv and LandInv that the effect of a call    *)
(* that landed is where its SELECT looks, unless the call was disturbed,   *)
(* and TailInv that an append in progress is ahead of every reader that    *)
(* has not overtaken it.                                                   *)
(***************************************************************************)
EXTENDS AzureSqlStorage, TLAPS

USE DEF history, reading

\* Each table has rows of its own type.
Typed(f) ==
  /\ \A r \in StateNames \cap DOMAIN f : f[r] \in StateRow \cup {None}
  /\ \A r \in CounterNames \cap DOMAIN f : f[r] \in CounterRow \cup {None}
  /\ \A r \in LogNames \cap DOMAIN f : f[r] \in LogRow \cup {None}
  /\ \A r \in ItemNames \cap DOMAIN f : f[r] \in ItemRow \cup {None}

TypeInv ==
  /\ rows \in [Names -> RowTypes \cup {None}] /\ Typed(rows)
  /\ identity \in [queue : Nat, log : Nat]
  /\ calls \in Nat
  /\ call \in [Workers -> Calls \cup {None}]
  /\ orphans \subseteq Calls

\* The cells of a call are those its method touches.
Scoped(t) ==
  /\ t.first \in t.cells
  /\ t.op \in OneCell => t.cells = {t.first}
  /\ t.op \in {"state_drain", "execution_clear"} => t.cells = CellsOf(t.first[1])

\* What the open transaction of each method holds.
Content(t) ==
  /\ \A x \in Cells : KV(x) \in DOMAIN t.write \/ Count(x) \in DOMAIN t.write => x \in t.cells
  /\ \A r \in DOMAIN t.write \cap LogNames :
       IF t.write[r] = None THEN t.op = "execution_clear" ELSE t.op = "state_append"
  /\ \A r \in DOMAIN t.write \cap StateNames :
       t.write[r] # None => t.op \in {"state_put_many", "state_drain"}
  /\ \A r \in DOMAIN t.write \cap CounterNames :
       t.write[r] # None => t.op = "state_counter_add" \/ t.write[r].by = None
  /\ t.op = "queue_pop" => /\ DOMAIN t.write \subseteq ItemNames
                           /\ t.got = {r[2] : r \in DOMAIN t.write}
                           /\ \A r \in DOMAIN t.write : t.write[r] = None
  /\ t.op = "state_append" => \E n \in 1..MaxRows :
       /\ DOMAIN t.write = {Log(n)} /\ t.got = {n}
       /\ t.write[Log(n)] = [cell |-> t.first, by |-> t.id]
  /\ t.op = "state_put_many" => \A x \in t.cells :
       KV(x) \in DOMAIN t.write /\ t.write[KV(x)] = [put |-> t.id, drained |-> None]
  /\ t.op = "state_drain" =>
       /\ \A x \in t.cells : KV(x) \in DOMAIN t.write =>
            t.write[KV(x)] # None /\ t.write[KV(x)].drained = t.id
       /\ t.got = {<<x, t.write[KV(x)].put>> : x \in {y \in t.cells : KV(y) \in DOMAIN t.write}}
  /\ t.op = "state_counter_add" => \E n \in Int :
       /\ Count(t.first) \in DOMAIN t.write /\ t.got = {n}
       /\ t.write[Count(t.first)] = [n |-> n, by |-> t.id]

WellFormed(t) ==
  /\ Typed(t.write) /\ Scoped(t)
  /\ IF t.step = "commit" THEN Content(t) ELSE t.write = Untried

\* Items and log rows are inserted with fresh identity values, and deleted
\* while they are there, log rows by a call on their cell.
Numbered(r) == \/ r \in ItemNames /\ r[2] <= identity.queue
               \/ r \in LogNames /\ r[2] <= identity.log
Careful(t) == \A r \in DOMAIN t.write \cap (ItemNames \cup LogNames) :
  /\ Numbered(r)
  /\ rows[r] = None <=> t.write[r] # None
  /\ r \in LogNames /\ t.write[r] = None => rows[r].cell \in t.cells

Orders ==
  /\ \A r \in ItemNames \cup LogNames : rows[r] # None => Numbered(r)
  /\ \A t \in Transactions : WellFormed(t) /\ Careful(t)
  /\ \A o \in orphans : o.step = "commit"

\* No row is written by two open transactions.
Disjoint(t, u) == DOMAIN t.write \cap DOMAIN u.write = {}
Locks ==
  /\ \A v, w \in Workers : v # w /\ Busy(v) /\ Busy(w) => Disjoint(call[v], call[w])
  /\ \A w \in Workers, o \in orphans : Busy(w) => Disjoint(call[w], o)
  /\ \A o, p \in orphans : o # p => Disjoint(o, p)

\* A claimed item is gone, and nothing will bring it back.
Taken(i) ==
  /\ Item(i) \in ItemNames /\ Numbered(Item(i)) /\ rows[Item(i)] = None
  /\ \A t \in Transactions : Item(i) \notin DOMAIN t.write

Claimed ==
  /\ \A a \in answers : a.op = "queue_pop" => \A i \in a.got : Taken(i)
  /\ \A a, b \in answers : a.op = "queue_pop" /\ b.op = "queue_pop" /\ a # b
       => a.got \cap b.got = {}

BaseInv == TypeInv /\ Orders /\ Locks /\ Claimed

-----------------------------------------------------------------------------
LEMMA NamesApart ==
  /\ \A c, d : (KV(c) = KV(d) => c = d) /\ (Count(c) = Count(d) => c = d)
  /\ \A i, j : (Log(i) = Log(j) => i = j) /\ (Item(i) = Item(j) => i = j)
  /\ \A i : Log(i)[2] = i /\ Item(i)[2] = i
  /\ \A c, d : KV(c) # Count(d) /\ KV(c) # Log(d) /\ KV(c) # Item(d)
  /\ \A c, d : Count(c) # Log(d) /\ Count(c) # Item(d) /\ Log(c) # Item(d)
  BY DEF KV, Count, Log, Item

LEMMA NamesOfTables ==
  /\ \A c \in Cells : KV(c) \in StateNames /\ Count(c) \in CounterNames
  /\ \A i \in 1..MaxRows : Log(i) \in LogNames /\ Item(i) \in ItemNames
  /\ \A r \in LogNames : r[2] \in 1..MaxRows /\ r = Log(r[2])
  /\ \A r \in ItemNames : r[2] \in 1..MaxRows /\ r = Item(r[2])
  /\ Names = StateNames \cup CounterNames \cup LogNames \cup ItemNames
  /\ StateNames \cap CounterNames = {} /\ StateNames \cap LogNames = {}
  /\ StateNames \cap ItemNames = {} /\ CounterNames \cap LogNames = {}
  /\ CounterNames \cap ItemNames = {} /\ LogNames \cap ItemNames = {}
  BY NamesApart DEF StateNames, CounterNames, LogNames, ItemNames, Names

LEMMA UntriedIsEmpty == Untried \in Writes /\ DOMAIN Untried = {} /\ Typed(Untried)
<1>1. DOMAIN Untried = {} /\ Untried \in [{} -> RowTypes \cup {None}] /\ {} \in SUBSET Names
  BY DEF Untried
<1>2. Untried \in Writes
  BY <1>1 DEF Writes
<1> QED BY <1>1, <1>2 DEF Typed

LEMMA WritesAre ==
  ASSUME NEW f \in Writes
  PROVE  DOMAIN f \subseteq Names /\ \A r \in DOMAIN f : f[r] \in RowTypes \cup {None}
  BY DEF Writes

LEMMA CallsAre ==
  ASSUME NEW t \in Calls
  PROVE  /\ t.op \in Ops /\ t.cells \subseteq Cells /\ t.first \in Cells /\ t.id \in Ids
         /\ t.step \in Steps /\ t.write \in Writes /\ t.got \in Results /\ t # None
  BY NoneIsApart DEF Calls

\* What a commit does to the rows.
LEMMA AppliedRows ==
  ASSUME TypeInv, NEW t \in Calls, Typed(t.write), rows' = Applied(t.write)
  PROVE  /\ \A r \in Names : rows'[r] = IF r \in DOMAIN t.write THEN t.write[r] ELSE rows[r]
         /\ rows' \in [Names -> RowTypes \cup {None}] /\ Typed(rows')
<1>1. \A r \in Names : rows'[r] = IF r \in DOMAIN t.write THEN t.write[r] ELSE rows[r]
  BY DEF Applied
<1>2. \A r \in DOMAIN t.write : t.write[r] \in RowTypes \cup {None}
  BY CallsAre, WritesAre
<1>3. rows' \in [Names -> RowTypes \cup {None}]
  BY <1>2 DEF Applied, TypeInv
<1>4. Typed(rows')
  BY <1>1, <1>3, NamesOfTables DEF Typed, TypeInv
<1> QED BY <1>1, <1>3, <1>4

LEMMA InitBase == Init => BaseInv
<1> SUFFICES ASSUME Init PROVE BaseInv
  OBVIOUS
<1>1. Transactions = {} /\ \A w \in Workers : ~Busy(w)
  BY DEF Init, Transactions, Busy
<1>2. TypeInv
  <2>1. rows \in [Names -> RowTypes \cup {None}] /\ \A r \in Names : rows[r] = None
    BY DEF Init
  <2>2. Typed(rows)
    BY <2>1, NamesOfTables DEF Typed
  <2> QED BY <2>1, <2>2 DEF Init, TypeInv
<1>3. Orders
  BY <1>1, NamesOfTables DEF Init, Orders
<1>4. Locks /\ Claimed
  BY <1>1 DEF Init, Locks, Claimed
<1> QED BY <1>2, <1>3, <1>4 DEF BaseInv

-----------------------------------------------------------------------------
(* A method leaves its images in the open transaction.                     *)

Same(c, d) == c.op = d.op /\ c.cells = d.cells /\ c.first = d.first /\ c.id = d.id

\* w's call writes: it becomes c, whose images and result are the method's.
Opens(w, c) ==
  /\ Busy(w) /\ call[w].step = "write"
  /\ call' = [call EXCEPT ![w] = c]
  /\ c.step = "commit" /\ Same(c, call[w])
  /\ UNCHANGED <<rows, orphans, calls, history, reading>>
  /\ identity' \in [queue : Nat, log : Nat]
  /\ identity.queue <= identity'.queue /\ identity.log <= identity'.log

\* c's images are of a well-formed transaction that holds no foreign row.
Fits(w, c) ==
  /\ Typed(c.write) /\ Content(c)
  /\ DOMAIN c.write \cap Locked(w) = {}
  /\ \A r \in DOMAIN c.write \cap (ItemNames \cup LogNames) :
       /\ Numbered(r)' /\ (rows[r] = None <=> c.write[r] # None)
       /\ rows[r] # None \/ ~Numbered(r)
       /\ r \in LogNames /\ c.write[r] = None => rows[r].cell \in c.cells

LEMMA AfterOpens ==
  ASSUME BaseInv, NEW w \in Workers, NEW c \in Calls, Opens(w, c)
  PROVE  /\ c # None /\ call'[w] = c /\ \A v \in Workers \ {w} : call'[v] = call[v]
         /\ \A v \in Workers : Busy(v)' <=> Busy(v)
         /\ \A t \in Transactions' : t = c \/ t \in Transactions
         /\ TypeInv' /\ call[w] \in Transactions
<1>1. /\ c # None /\ call'[w] = c /\ \A v \in Workers \ {w} : call'[v] = call[v]
  BY CallsAre DEF BaseInv, TypeInv, Opens
<1>2. \A v \in Workers : Busy(v)' <=> Busy(v)
  BY <1>1 DEF Busy, Opens
<1>3. \A t \in Transactions' : t = c \/ t \in Transactions
  BY <1>1, <1>2 DEF Transactions, Opens
<1>4. TypeInv'
  BY DEF BaseInv, TypeInv, Opens
<1> QED BY <1>1, <1>2, <1>3, <1>4 DEF Transactions, Opens

LEMMA NumberedStays ==
  ASSUME TypeInv, TypeInv', identity.queue <= identity'.queue, identity.log <= identity'.log, NEW r,
         Numbered(r)
  PROVE  Numbered(r)'
<1>1. /\ identity.queue \in Nat /\ identity.log \in Nat
      /\ identity'.queue \in Nat /\ identity'.log \in Nat
  BY DEF TypeInv
<1>2. CASE r \in ItemNames /\ r[2] <= identity.queue
  <2>1. r[2] \in Nat
    BY <1>2, NamesOfTables, Bounds
  <2> QED BY <1>1, <1>2, <2>1 DEF Numbered
<1>3. CASE r \in LogNames /\ r[2] <= identity.log
  <2>1. r[2] \in Nat
    BY <1>3, NamesOfTables, Bounds
  <2> QED BY <1>1, <1>3, <2>1 DEF Numbered
<1> QED BY <1>2, <1>3 DEF Numbered

LEMMA OpensBase ==
  ASSUME BaseInv, NEW w \in Workers, NEW c \in Calls, Opens(w, c), Fits(w, c)
  PROVE  BaseInv'
<1> USE AfterOpens
<1>1. \A r : Numbered(r) => Numbered(r)'
  BY NumberedStays DEF BaseInv, Opens
<1>2. WellFormed(c) /\ Careful(c)'
  <2>1. Scoped(c)
    <3>1. Scoped(call[w])
      BY DEF BaseInv, Orders, WellFormed
    <3> QED BY <3>1 DEF Opens, Same, Scoped
  <2> QED BY <2>1 DEF Fits, Opens, WellFormed, Careful
<1>3. Orders'
  <2>1. ASSUME NEW t \in Transactions PROVE WellFormed(t) /\ Careful(t)'
    BY <1>1 DEF BaseInv, Orders, Careful, Opens
  <2>2. \A r \in ItemNames \cup LogNames : rows'[r] # None => Numbered(r)'
    BY <1>1 DEF BaseInv, Orders, Opens
  <2>3. ASSUME NEW t \in Transactions' PROVE WellFormed(t) /\ Careful(t)'
    BY <1>2, <2>1
  <2> QED BY <2>2, <2>3 DEF Orders, Opens, BaseInv, WellFormed, Careful, Numbered
<1>4. Locks'
  <2>1. ASSUME NEW v \in Workers \ {w}, Busy(v) PROVE Disjoint(c, call[v])
    BY <2>1 DEF Fits, Locked, Others, Disjoint, Busy
  <2>2. ASSUME NEW o \in orphans PROVE Disjoint(c, o)
    BY DEF Fits, Locked, Others, Disjoint
  <2>3. \A v, u \in Workers : v # u /\ Busy(v)' /\ Busy(u)' => Disjoint(call'[v], call'[u])
    BY <2>1 DEF BaseInv, Locks, Disjoint
  <2>4. \A v \in Workers, o \in orphans : Busy(v)' => Disjoint(call'[v], o)
    BY <2>2 DEF BaseInv, Locks
  <2> QED BY <2>3, <2>4 DEF BaseInv, Locks, Disjoint, Opens
<1>5. Claimed'
  <2>1. ASSUME NEW i, Taken(i) PROVE Taken(i)'
    <3>1. Item(i) \notin DOMAIN c.write
      BY <2>1 DEF Taken, Fits
    <3>2. \A t \in Transactions' : Item(i) \notin DOMAIN t.write
      BY <2>1, <3>1 DEF Taken
    <3> QED BY <1>1, <2>1, <3>2 DEF Taken, Opens
  <2> QED BY <2>1 DEF BaseInv, Claimed, Opens
<1> QED BY <1>3, <1>4, <1>5 DEF BaseInv

\* What Write does.
LEMMA WriteOpens ==
  ASSUME BaseInv, NEW w \in Workers, NEW op, NEW needs, NEW write \in Writes, NEW got \in Results,
         Write(w, op, needs, write, got),
         identity' \in [queue : Nat, log : Nat],
         identity.queue <= identity'.queue, identity.log <= identity'.log
  PROVE  \E c \in Calls : Opens(w, c) /\ c.op = op /\ c.write = write /\ c.got = got
<1> DEFINE c == call'[w]
<1>1. /\ call[w] # None /\ call[w].op = op /\ call[w].step = "write" /\ call[w] \in Calls
  BY DEF Write, At, BaseInv, TypeInv
<1>2. call' = [call EXCEPT ![w].step = "commit", ![w].write = write, ![w].got = got]
  BY DEF Write
<1>3. c \in Calls
  BY <1>1, <1>2 DEF BaseInv, TypeInv, Calls, Steps
<1>4. /\ c.step = "commit" /\ c.op = op /\ c.write = write /\ c.got = got /\ c.cells = call[w].cells
      /\ c.first = call[w].first /\ c.id = call[w].id /\ call' = [call EXCEPT ![w] = c]
  BY <1>1, <1>2 DEF BaseInv, TypeInv, Calls
<1>5. Opens(w, c)
  BY <1>1, <1>4 DEF Opens, Same, Busy, Write
<1> QED BY <1>3, <1>4, <1>5

-----------------------------------------------------------------------------
(* The methods.                                                            *)

LEMMA LockedRows ==
  ASSUME BaseInv, NEW w \in Workers
  PROVE  \A t \in Others(w) : t \in Transactions /\ DOMAIN t.write \subseteq Names
                              /\ DOMAIN t.write \subseteq Locked(w)
<1>1. \A t \in Others(w) : t \in Transactions /\ t \in Calls
  BY DEF Others, Transactions, BaseInv, TypeInv, Busy
<1> QED BY <1>1, CallsAre, WritesAre DEF Locked

\* A row with the next identity value is nobody's yet.
LEMMA NextIsNew ==
  ASSUME BaseInv, NEW w \in Workers,
         NEW r \in ItemNames \cup LogNames, ~Numbered(r)
  PROVE  rows[r] = None /\ r \notin Locked(w)
<1>1. rows[r] = None
  BY DEF BaseInv, Orders
<1>2. ASSUME NEW t \in Transactions, r \in DOMAIN t.write PROVE FALSE
  BY <1>2 DEF BaseInv, Orders, Careful
<1> QED BY <1>1, <1>2, LockedRows DEF Locked

LEMMA ScopesAre ==
  ASSUME BaseInv, NEW w \in Workers, Busy(w)
  PROVE  /\ call[w] \in Calls /\ Scoped(call[w]) /\ call[w].cells \subseteq Cells
         /\ call[w].first \in call[w].cells /\ ScopesIn(call[w]) \subseteq Scopes
<1>1. call[w] \in Calls /\ Scoped(call[w])
  BY DEF BaseInv, TypeInv, Orders, WellFormed, Busy, Transactions
<1>2. \A x \in Cells : x[1] \in Scopes
  BY DEF Cells
<1> QED BY <1>1, <1>2, CallsAre DEF Scoped, ScopesIn

LEMMA InsertionIs ==
  ASSUME NEW r \in Names, NEW row \in RowTypes
  PROVE  /\ Insertion(r, row) \in Writes /\ DOMAIN Insertion(r, row) = {r}
         /\ Insertion(r, row)[r] = row /\ row # None
<1>1. Insertion(r, row) \in [{r} -> RowTypes \cup {None}] /\ {r} \in SUBSET Names
  BY DEF Insertion
<1>2. Insertion(r, row) \in Writes
  BY <1>1 DEF Writes
<1> QED BY <1>2, NoneIsApart DEF Insertion

LEMMA DeletionIs ==
  ASSUME NEW D \in SUBSET Names
  PROVE  /\ Deletion(D) \in Writes /\ DOMAIN Deletion(D) = D /\ Typed(Deletion(D))
         /\ \A r \in D : Deletion(D)[r] = None
<1>1. Deletion(D) \in [D -> RowTypes \cup {None}]
  BY DEF Deletion
<1>2. Deletion(D) \in Writes
  BY <1>1 DEF Writes
<1> QED BY <1>2 DEF Deletion, Typed

LEMMA DeletionFits ==
  ASSUME BaseInv, NEW w \in Workers, NEW c \in Calls, NEW D \in SUBSET Names,
         c.write = Deletion(D), D \cap Locked(w) = {}, identity' = identity,
         \A r \in D \cap (ItemNames \cup LogNames) : rows[r] # None,
         \A r \in D \cap LogNames : rows[r].cell \in c.cells,
         Content(c)
  PROVE  Fits(w, c)
<1>1. \A r \in D \cap (ItemNames \cup LogNames) : Numbered(r)'
  <2>1. \A r \in D \cap (ItemNames \cup LogNames) : Numbered(r)
    BY DEF BaseInv, Orders
  <2> QED BY <2>1 DEF Numbered
<1> QED BY <1>1, DeletionIs DEF Fits

\* The methods that leave the identity values alone.
LEMMA WriteOpensHere ==
  ASSUME BaseInv, NEW w \in Workers, NEW op, NEW needs, NEW write \in Writes, NEW got \in Results,
         Write(w, op, needs, write, got), identity' = identity
  PROVE  \E c \in Calls : Opens(w, c) /\ c.op = op /\ c.write = write /\ c.got = got
<1>1. identity' \in [queue : Nat, log : Nat] /\ identity.queue \in Nat /\ identity.log \in Nat
  BY DEF BaseInv, TypeInv
<1>2. identity.queue <= identity'.queue /\ identity.log <= identity'.log
  BY <1>1
<1> QED BY <1>1, <1>2, WriteOpens

LEMMA QueuePushOpens ==
  ASSUME BaseInv, NEW w \in Workers, queue_push(w)
  PROVE  \E c \in Calls : Opens(w, c) /\ Fits(w, c)
<1>1. PICK n \in 1..MaxRows : n = identity.queue + 1 /\ n \in Nat
  BY Bounds DEF queue_push, BaseInv, TypeInv
<1>2. /\ identity' \in [queue : Nat, log : Nat] /\ identity'.queue = n
      /\ identity.queue \in Nat /\ identity'.log = identity.log /\ identity.log \in Nat
  BY <1>1 DEF queue_push, BaseInv, TypeInv
<1>3. PICK s \in ScopesIn(call[w]) :
        Write(w, "queue_push", {}, Insertion(Item(n), [scope |-> s]), {n})
  BY <1>1 DEF queue_push
<1>4. PICK row \in ItemRow : row = [scope |-> s]
  <2>1. s \in Scopes
    BY <1>3, ScopesAre DEF Write, At, Busy
  <2> QED BY <2>1 DEF ItemRow
<1>5. /\ Item(n) \in ItemNames /\ Item(n)[2] = n /\ Item(n) \in Names /\ row \in RowTypes
      /\ Item(n) \notin LogNames
  BY <1>4, NamesOfTables, NamesApart DEF RowTypes
<1>6. {n} \in Results
  BY DEF Results
<1>7. PICK c \in Calls : /\ Opens(w, c) /\ c.op = "queue_push"
                         /\ c.write = Insertion(Item(n), row) /\ c.got = {n}
  <2>1. identity.queue <= identity'.queue /\ identity.log <= identity'.log
    BY <1>1, <1>2
  <2>2. Write(w, "queue_push", {}, Insertion(Item(n), row), {n})
    BY <1>3, <1>4
  <2>3. Insertion(Item(n), row) \in Writes
    BY <1>5, InsertionIs
  <2> QED BY <1>2, <1>6, <2>1, <2>2, <2>3, WriteOpens
<1>8. DOMAIN c.write = {Item(n)} /\ c.write[Item(n)] = row /\ row # None
  BY <1>5, <1>7, InsertionIs
<1>9. ~Numbered(Item(n)) /\ Numbered(Item(n))'
  <2>1. ~(n <= identity.queue) /\ n <= identity'.queue
    BY <1>1, <1>2
  <2> QED BY <1>5, <2>1 DEF Numbered
<1>10. Typed(c.write) /\ Content(c)
  BY <1>4, <1>5, <1>7, <1>8, NamesOfTables, NamesApart DEF Typed, Content
<1>11. Fits(w, c)
  BY <1>5, <1>8, <1>9, <1>10, NextIsNew DEF Fits
<1> QED BY <1>7, <1>11

LEMMA QueuePopOpens ==
  ASSUME BaseInv, NEW w \in Workers, queue_pop(w)
  PROVE  \E c \in Calls : Opens(w, c) /\ Fits(w, c)
<1>0. PICK s \in ScopesIn(call[w]) :
        LET oldest == {r \in Poppable(w, s) : \A q \in Poppable(w, s) : r[2] <= q[2]} IN
        Write(w, "queue_pop", {}, Deletion(oldest), {r[2] : r \in oldest}) /\ identity' = identity
  BY DEF queue_pop
<1>1. PICK D \in SUBSET Poppable(w, s) :
        Write(w, "queue_pop", {}, Deletion(D), {r[2] : r \in D}) /\ identity' = identity
  BY <1>0
<1>2. /\ D \subseteq ItemNames /\ D \in SUBSET Names /\ D \cap Locked(w) = {}
      /\ \A r \in D : rows[r] # None /\ r[2] \in Int /\ r \notin LogNames
  BY NamesOfTables, Bounds DEF Poppable, ItemsOf, Present
<1>3. {r[2] : r \in D} \in Results
  BY <1>2 DEF Results
<1>4. PICK c \in Calls : /\ Opens(w, c) /\ c.op = "queue_pop"
                         /\ c.write = Deletion(D) /\ c.got = {r[2] : r \in D}
  BY <1>1, <1>2, <1>3, DeletionIs, WriteOpensHere
<1>5. Content(c)
  BY <1>2, <1>4, DeletionIs, NamesOfTables DEF Content
<1>6. Fits(w, c)
  BY <1>1, <1>2, <1>4, <1>5, DeletionFits
<1> QED BY <1>4, <1>6

LEMMA QueueClearOpens ==
  ASSUME BaseInv, NEW w \in Workers, queue_clear(w)
  PROVE  \E c \in Calls : Opens(w, c) /\ Fits(w, c)
<1>1. PICK s \in ScopesIn(call[w]) :
        /\ Write(w, "queue_clear", ItemsOf(s) \cup Inserted(w, s), Deletion(ItemsOf(s)), {})
        /\ identity' = identity
  BY DEF queue_clear
<1>2. PICK D \in SUBSET ItemNames : D = ItemsOf(s)
  BY DEF ItemsOf, Present
<1>3. /\ D \in SUBSET Names /\ D \cap Locked(w) = {}
      /\ \A r \in D : rows[r] # None /\ r \notin LogNames
  BY <1>1, <1>2, NamesOfTables DEF Write, ItemsOf, Present
<1>4. {} \in Results
  BY DEF Results
<1>5. PICK c \in Calls : Opens(w, c) /\ c.op = "queue_clear" /\ c.write = Deletion(D)
  BY <1>1, <1>2, <1>3, <1>4, DeletionIs, WriteOpensHere
<1>6. Content(c)
  BY <1>3, <1>5, DeletionIs, NamesOfTables DEF Content
<1>7. Fits(w, c)
  BY <1>1, <1>2, <1>3, <1>5, <1>6, DeletionFits
<1> QED BY <1>5, <1>7

LEMMA StatePutManyOpens ==
  ASSUME BaseInv, NEW w \in Workers, state_put_many(w)
  PROVE  \E c \in Calls : Opens(w, c) /\ Fits(w, c)
<1>1. /\ Busy(w) /\ call[w] \in Calls /\ call[w].cells \subseteq Cells /\ call[w].id \in Ids
      /\ identity' = identity
  BY ScopesAre, CallsAre DEF state_put_many, Write, At, Busy
<1>2. PICK row \in StateRow : row = [put |-> call[w].id, drained |-> None]
  BY <1>1 DEF StateRow
<1>3. PICK names \in SUBSET StateNames : names = {KV(x) : x \in call[w].cells}
  <2>1. {KV(x) : x \in call[w].cells} \in SUBSET StateNames
    BY <1>1, NamesOfTables
  <2> QED BY <2>1
<1>4. PICK write \in Writes : write = [r \in names |-> row]
  <2>1. names \in SUBSET Names /\ [r \in names |-> row] \in [names -> RowTypes \cup {None}]
    BY NamesOfTables DEF RowTypes
  <2> QED BY <2>1 DEF Writes
<1>5. Write(w, "state_put_many", names, write, {}) /\ {} \in Results
  BY <1>2, <1>3, <1>4 DEF state_put_many, Results
<1>6. PICK c \in Calls : Opens(w, c) /\ c.op = "state_put_many" /\ c.write = write /\ c.got = {}
  BY <1>1, <1>5, WriteOpensHere
<1>7. /\ c.cells = call[w].cells /\ c.id = call[w].id /\ DOMAIN c.write = names
      /\ \A r \in names : c.write[r] = row
  BY <1>4, <1>6 DEF Opens, Same
<1>8. Typed(c.write)
  BY <1>7, NamesOfTables DEF Typed
<1>9. Content(c)
  BY <1>1, <1>2, <1>3, <1>6, <1>7, NamesOfTables, NamesApart DEF Content
<1>10. Fits(w, c)
  BY <1>5, <1>7, <1>8, <1>9, NamesOfTables DEF Fits, Write
<1> QED BY <1>6, <1>10

LEMMA StateDrainOpens ==
  ASSUME BaseInv, NEW w \in Workers, state_drain(w)
  PROVE  \E c \in Calls : Opens(w, c) /\ Fits(w, c) /\ c.got = Values(LiveCells(call[w]))
                          /\ \A x \in Cells : KV(x) \in DOMAIN c.write <=> x \in LiveCells(call[w])
<1> DEFINE live == LiveCells(call[w]) names == {KV(x) : x \in live}
           write == [r \in names |-> [rows[r] EXCEPT !.drained = call[w].id]]
<1>1. /\ Busy(w) /\ call[w] \in Calls /\ call[w].cells \subseteq Cells /\ call[w].id \in Ids
      /\ call[w].cells = CellsOf(call[w].first[1]) /\ identity' = identity
  BY ScopesAre, CallsAre DEF state_drain, Write, At, Busy, Scoped
<1>2. live \subseteq call[w].cells /\ live \subseteq Cells /\ \A x \in live : rows[KV(x)] # None
  BY <1>1 DEF LiveCells
<1>3. names \subseteq StateNames /\ \A r \in names : rows[r] \in StateRow
  BY <1>2, NamesOfTables DEF BaseInv, TypeInv, Typed
<1>4. \A r \in names : write[r] \in StateRow /\ write[r].drained = call[w].id
                       /\ write[r].put = rows[r].put
  BY <1>1, <1>3 DEF StateRow
<1>5. write \in Writes
  <2>1. names \in SUBSET Names /\ write \in [names -> RowTypes \cup {None}]
    BY <1>3, <1>4, NamesOfTables DEF RowTypes
  <2> QED BY <2>1 DEF Writes
<1>6. Values(live) \in Results
  BY <1>2, <1>3 DEF Values, Results, StateRow
<1>7. Write(w, "state_drain", {KV(x) : x \in call[w].cells}, write, Values(live))
  BY <1>1 DEF state_drain
<1>8. DOMAIN write = names
  OBVIOUS
<1> HIDE DEF write
<1>9. PICK c \in Calls :
        Opens(w, c) /\ c.op = "state_drain" /\ c.write = write /\ c.got = Values(live)
  BY <1>1, <1>5, <1>6, <1>7, WriteOpensHere
<1>10. c.cells = call[w].cells /\ c.id = call[w].id
  BY <1>9 DEF Opens, Same
<1>11. Typed(c.write)
  BY <1>3, <1>4, <1>8, <1>9, NamesOfTables DEF Typed
<1>12. \A x \in Cells : KV(x) \in DOMAIN c.write <=> x \in live
  <2>1. DOMAIN c.write = {KV(x) : x \in live}
    BY <1>8, <1>9
  <2> HIDE DEF live
  <2>2. \A x, y : KV(x) = KV(y) => x = y
    BY NamesApart
  <2> QED BY <2>1, <2>2
<1>13. Content(c)
  <2>1. {y \in c.cells : KV(y) \in DOMAIN c.write} = live
    BY <1>1, <1>2, <1>10, <1>12
  <2>2. c.got = {<<x, c.write[KV(x)].put>> : x \in {y \in c.cells : KV(y) \in DOMAIN c.write}}
    BY <1>4, <1>9, <2>1 DEF Values
  <2>3. \A x \in c.cells : KV(x) \in DOMAIN c.write =>
          c.write[KV(x)] # None /\ c.write[KV(x)].drained = c.id
    BY <1>4, <1>8, <1>9, <1>10, NoneIsApart DEF RowTypes
  <2>4. \A x \in Cells : Count(x) \notin DOMAIN c.write
    BY <1>8, <1>9, NamesApart
  <2>5. DOMAIN c.write \cap LogNames = {} /\ DOMAIN c.write \cap CounterNames = {}
    BY <1>3, <1>8, <1>9, NamesOfTables
  <2> QED BY <1>2, <1>9, <1>10, <1>12, <2>2, <2>3, <2>4, <2>5 DEF Content
<1>14. Fits(w, c)
  BY <1>2, <1>3, <1>7, <1>8, <1>9, <1>11, <1>13, NamesOfTables DEF Fits, Write
<1> QED BY <1>9, <1>12, <1>14

LEMMA StateDeleteOpens ==
  ASSUME BaseInv, NEW w \in Workers, state_delete(w)
  PROVE  \E c \in Calls : Opens(w, c) /\ Fits(w, c)
<1>1. /\ Busy(w) /\ call[w] \in Calls /\ call[w].cells \subseteq Cells /\ identity' = identity
  BY ScopesAre, CallsAre DEF state_delete, Write, At, Busy
<1>2. PICK names \in SUBSET StateNames : names = {KV(x) : x \in call[w].cells}
  <2>1. {KV(x) : x \in call[w].cells} \in SUBSET StateNames
    BY <1>1, NamesOfTables
  <2> QED BY <2>1
<1>3. PICK D \in SUBSET names : D = Present(names)
  BY DEF Present
<1>4. Write(w, "state_delete", names, Deletion(D), {}) /\ {} \in Results
  BY <1>2, <1>3 DEF state_delete, Results
<1>5. D \in SUBSET Names /\ D \cap Locked(w) = {} /\ D \cap (ItemNames \cup LogNames) = {}
  BY <1>4, NamesOfTables DEF Write
<1>6. PICK c \in Calls : Opens(w, c) /\ c.op = "state_delete" /\ c.write = Deletion(D)
  BY <1>1, <1>4, <1>5, DeletionIs, WriteOpensHere
<1>7. c.cells = call[w].cells
  BY <1>6 DEF Opens, Same
<1>8. Content(c)
  <2>1. DOMAIN c.write = D /\ DOMAIN c.write \cap LogNames = {} /\ \A r \in D : c.write[r] = None
    BY <1>5, <1>6, DeletionIs
  <2>2. \A x \in Cells : KV(x) \in D \/ Count(x) \in D => x \in c.cells
    BY <1>2, <1>7, NamesApart
  <2> QED BY <1>6, <2>1, <2>2 DEF Content
<1>9. Fits(w, c)
  BY <1>1, <1>5, <1>6, <1>8, DeletionFits
<1> QED BY <1>6, <1>9

LEMMA StateAppendOpens ==
  ASSUME BaseInv, NEW w \in Workers, state_append(w)
  PROVE  \E c \in Calls : /\ Opens(w, c) /\ Fits(w, c) /\ c.op = "state_append"
                          /\ DOMAIN c.write = {Log(identity.log + 1)}
<1>1. PICK n \in 1..MaxRows : n = identity.log + 1 /\ n \in Nat
  BY Bounds DEF state_append, BaseInv, TypeInv
<1>2. /\ identity' \in [queue : Nat, log : Nat] /\ identity'.log = n
      /\ identity.log \in Nat /\ identity'.queue = identity.queue /\ identity.queue \in Nat
  BY <1>1 DEF state_append, BaseInv, TypeInv
<1>3. Busy(w) /\ call[w] \in Calls /\ call[w].first \in Cells /\ call[w].id \in Ids
  BY ScopesAre, CallsAre DEF state_append, Write, At, Busy
<1>4. PICK row \in LogRow : row = [cell |-> call[w].first, by |-> call[w].id]
  BY <1>3 DEF LogRow
<1>5. /\ Log(n) \in LogNames /\ Log(n)[2] = n /\ Log(n) \in Names /\ row \in RowTypes
      /\ Log(n) \notin ItemNames
  BY NamesOfTables, NamesApart DEF RowTypes
<1>6. {n} \in Results /\ identity.queue <= identity'.queue /\ identity.log <= identity'.log
  BY <1>1, <1>2 DEF Results
<1>7. Write(w, "state_append", {}, Insertion(Log(n), row), {n}) /\ Insertion(Log(n), row) \in Writes
  BY <1>1, <1>4, <1>5, InsertionIs DEF state_append
<1>8. PICK c \in Calls : /\ Opens(w, c) /\ c.op = "state_append"
                         /\ c.write = Insertion(Log(n), row) /\ c.got = {n}
  BY <1>2, <1>6, <1>7, WriteOpens
<1>9. /\ DOMAIN c.write = {Log(n)} /\ c.write[Log(n)] = row /\ row # None
      /\ c.first = call[w].first /\ c.id = call[w].id
  <2>1. c.first = call[w].first /\ c.id = call[w].id
    BY <1>8 DEF Opens, Same
  <2>2. DOMAIN c.write = {Log(n)} /\ c.write[Log(n)] = row /\ row # None
    BY <1>5, <1>8, InsertionIs, ZenonT(40)
  <2> QED BY <2>1, <2>2
<1>10. ~Numbered(Log(n)) /\ Numbered(Log(n))'
  <2>1. ~(n <= identity.log) /\ n <= identity'.log
    BY <1>1, <1>2
  <2> QED BY <1>5, <2>1 DEF Numbered
<1>11. Typed(c.write)
  BY <1>5, <1>9, NamesOfTables DEF Typed
<1>12. Content(c)
  <2>1. DOMAIN c.write \cap (StateNames \cup CounterNames) = {}
    BY <1>5, <1>9, NamesOfTables
  <2> QED BY <1>4, <1>8, <1>9, <2>1, NamesApart DEF Content
<1>13. Fits(w, c)
  BY <1>5, <1>9, <1>10, <1>11, <1>12, NextIsNew DEF Fits
<1> QED BY <1>1, <1>8, <1>9, <1>13

LEMMA CounterOpens ==
  ASSUME BaseInv, NEW w \in Workers, NEW op, NEW row \in CounterRow,
         op \in {"state_counter_set", "state_counter_add"}, identity' = identity,
         NEW got \in Results, Write(w, op, {Count(call[w].first)}, Insertion(Count(call[w].first), row), got),
         op = "state_counter_set" => row.by = None,
         op = "state_counter_add" => \E n \in Int : row = [n |-> n, by |-> call[w].id] /\ got = {n}
  PROVE  \E c \in Calls : Opens(w, c) /\ Fits(w, c)
<1>1. Busy(w) /\ call[w] \in Calls /\ call[w].first \in Cells /\ call[w].first \in call[w].cells
  BY ScopesAre, CallsAre DEF Write, At, Busy
<1>2. PICK r \in CounterNames : r = Count(call[w].first)
  BY <1>1, NamesOfTables
<1>3. r \in Names /\ row \in RowTypes /\ r \notin ItemNames /\ r \notin LogNames
  BY NamesOfTables DEF RowTypes
<1>4. Insertion(r, row) \in Writes /\ Write(w, op, {r}, Insertion(r, row), got)
  BY <1>2, <1>3, InsertionIs
<1>5. PICK c \in Calls : Opens(w, c) /\ c.op = op /\ c.write = Insertion(r, row) /\ c.got = got
  BY <1>4, WriteOpensHere
<1>6. /\ DOMAIN c.write = {r} /\ c.write[r] = row /\ c.cells = call[w].cells
      /\ c.first = call[w].first /\ c.id = call[w].id
  <2>1. c.cells = call[w].cells /\ c.first = call[w].first /\ c.id = call[w].id
    BY <1>5 DEF Opens, Same
  <2>2. DOMAIN Insertion(r, row) = {r} /\ Insertion(r, row)[r] = row
    BY <1>3, InsertionIs
  <2>3. DOMAIN c.write = {r} /\ c.write[r] = row
    BY <1>5, <2>2
  <2> QED BY <2>1, <2>3
<1>7. Typed(c.write)
  BY <1>6, NamesOfTables DEF Typed
<1>8. Content(c)
  <2>1. DOMAIN c.write \cap StateNames = {} /\ DOMAIN c.write \cap LogNames = {}
    BY <1>3, <1>6, NamesOfTables
  <2>2. \A x \in Cells : KV(x) \in DOMAIN c.write \/ Count(x) \in DOMAIN c.write => x \in c.cells
    BY <1>1, <1>2, <1>6, NamesApart
  <2>3. \A q \in DOMAIN c.write : c.op = "state_counter_add" \/ c.write[q].by = None
    BY <1>5, <1>6
  <2>4. c.op = "state_counter_add" => \E n \in Int :
          /\ Count(c.first) \in DOMAIN c.write /\ c.got = {n}
          /\ c.write[Count(c.first)] = [n |-> n, by |-> c.id]
    BY <1>2, <1>5, <1>6
  <2> QED BY <1>5, <2>1, <2>2, <2>3, <2>4 DEF Content
<1>9. Fits(w, c)
  BY <1>3, <1>4, <1>6, <1>7, <1>8 DEF Fits, Write
<1> QED BY <1>5, <1>9

LEMMA CounterAddOpens ==
  ASSUME BaseInv, NEW w \in Workers, state_counter_add(w)
  PROVE  \E c \in Calls : Opens(w, c) /\ Fits(w, c)
<1> DEFINE r == Count(call[w].first)
<1>1. /\ Busy(w) /\ call[w] \in Calls /\ call[w].first \in Cells /\ call[w].id \in Ids
      /\ identity' = identity
  BY ScopesAre, CallsAre DEF state_counter_add, Write, At, Busy
<1>2. r \in Names /\ rows[r] \in CounterRow \cup {None}
  BY <1>1, NamesOfTables DEF BaseInv, TypeInv, Typed
<1>3. PICK n \in Int : n = (IF rows[r] = None THEN 0 ELSE rows[r].n) + 1
  <2>1. (IF rows[r] = None THEN 0 ELSE rows[r].n) \in Int
    <3>1. CASE rows[r] = None
      BY <3>1
    <3>2. CASE rows[r] # None
      <4>1. rows[r] \in CounterRow
        BY <1>2, <3>2
      <4> HIDE DEF r
      <4>2. rows[r].n \in Int
        BY <4>1 DEF CounterRow
      <4> QED BY <3>2, <4>2
    <3> QED BY <3>1, <3>2
  <2>2. \A n \in Int : n + 1 \in Int
    OBVIOUS
  <2> QED BY <2>1, <2>2
<1>4. PICK row \in CounterRow : row = [n |-> n, by |-> call[w].id]
  BY <1>1 DEF CounterRow
<1>5. Write(w, "state_counter_add", {r}, Insertion(r, row), {n}) /\ {n} \in Results
  BY <1>3, <1>4 DEF state_counter_add, Results
<1> QED BY <1>1, <1>4, <1>5, CounterOpens

LEMMA CounterSetOpens ==
  ASSUME BaseInv, NEW w \in Workers, state_counter_set(w)
  PROVE  \E c \in Calls : Opens(w, c) /\ Fits(w, c)
<1>1. PICK row \in CounterRow : row = [n |-> 0, by |-> None]
  <2>1. [n |-> 0, by |-> None] \in CounterRow
    BY DEF CounterRow
  <2> QED BY <2>1
<1>2. /\ identity' = identity /\ {} \in Results
      /\ Write(w, "state_counter_set", {Count(call[w].first)}, Insertion(Count(call[w].first), row), {})
  BY <1>1 DEF state_counter_set, Results
<1>3. row.by = None
  BY <1>1
<1> QED BY <1>2, <1>3, CounterOpens

LEMMA CounterDeleteOpens ==
  ASSUME BaseInv, NEW w \in Workers, state_counter_delete(w)
  PROVE  \E c \in Calls : Opens(w, c) /\ Fits(w, c)
<1>1. /\ Busy(w) /\ call[w] \in Calls /\ call[w].first \in Cells /\ call[w].first \in call[w].cells
      /\ identity' = identity
  BY ScopesAre, CallsAre DEF state_counter_delete, Write, At, Busy
<1>2. PICK r \in CounterNames : r = Count(call[w].first)
  BY <1>1, NamesOfTables
<1>3. PICK D \in SUBSET {r} : D = Present({r})
  BY DEF Present
<1>4. Write(w, "state_counter_delete", {r}, Deletion(D), {}) /\ {} \in Results
  BY <1>2, <1>3 DEF state_counter_delete, Results
<1>5. D \in SUBSET Names /\ D \cap Locked(w) = {} /\ D \cap (ItemNames \cup LogNames) = {}
  BY <1>4, NamesOfTables DEF Write
<1>6. PICK c \in Calls : Opens(w, c) /\ c.op = "state_counter_delete" /\ c.write = Deletion(D)
  BY <1>1, <1>4, <1>5, DeletionIs, WriteOpensHere
<1>7. c.cells = call[w].cells
  BY <1>6 DEF Opens, Same
<1>8. Content(c)
  BY <1>1, <1>2, <1>5, <1>6, <1>7, DeletionIs, NamesApart DEF Content
<1>9. Fits(w, c)
  BY <1>1, <1>5, <1>6, <1>8, DeletionFits
<1> QED BY <1>6, <1>9

LEMMA ExecutionClearOpens ==
  ASSUME BaseInv, NEW w \in Workers, execution_clear(w)
  PROVE  \E c \in Calls : Opens(w, c) /\ Fits(w, c)
<1>1. PICK s \in ScopesIn(call[w]) :
       LET names == Present({KV(x) : x \in CellsOf(s)} \cup {Count(x) : x \in CellsOf(s)})
                      \cup UNION {LogOf(x) : x \in CellsOf(s)}
       IN Write(w, "execution_clear", names \cup Inserted(w, s), Deletion(names), {})
  BY DEF execution_clear
<1>2. /\ Busy(w) /\ call[w] \in Calls /\ call[w].cells = CellsOf(call[w].first[1])
      /\ identity' = identity /\ call[w].cells \subseteq Cells
  BY <1>1, ScopesAre DEF execution_clear, Write, At, Busy, Scoped
<1>3. call[w].cells = CellsOf(s)
  BY <1>2 DEF ScopesIn, CellsOf
<1>4. PICK D \in SUBSET Names :
        /\ D = Present({KV(x) : x \in CellsOf(s)} \cup {Count(x) : x \in CellsOf(s)})
                 \cup UNION {LogOf(x) : x \in CellsOf(s)}
        /\ \A x \in Cells : KV(x) \in D \/ Count(x) \in D => x \in CellsOf(s)
        /\ \A r \in D \cap (ItemNames \cup LogNames) : rows[r] # None
        /\ \A r \in D \cap LogNames : rows[r].cell \in CellsOf(s)
  <2> DEFINE D == Present({KV(x) : x \in CellsOf(s)} \cup {Count(x) : x \in CellsOf(s)})
                    \cup UNION {LogOf(x) : x \in CellsOf(s)}
  <2>1. D \subseteq Names
    BY <1>2, <1>3, NamesOfTables DEF Present, LogOf
  <2>2. \A x \in Cells : KV(x) \in D \/ Count(x) \in D => x \in CellsOf(s)
    <3>1. D \subseteq {KV(x) : x \in CellsOf(s)} \cup {Count(x) : x \in CellsOf(s)} \cup LogNames
      BY DEF Present, LogOf
    <3>2. \A x \in Cells : KV(x) \notin LogNames /\ Count(x) \notin LogNames
      BY NamesOfTables
    <3> HIDE DEF D
    <3> QED BY <3>1, <3>2, NamesApart
  <2>3. \A r \in D \cap (ItemNames \cup LogNames) : rows[r] # None
    BY DEF Present, LogOf
  <2>4. \A r \in D \cap LogNames : rows[r].cell \in CellsOf(s)
    BY <1>2, <1>3, NamesOfTables DEF Present, LogOf
  <2> QED BY <2>1, <2>2, <2>3, <2>4
<1>5. /\ Write(w, "execution_clear", D \cup Inserted(w, s), Deletion(D), {}) /\ {} \in Results
      /\ D \cap Locked(w) = {}
  BY <1>1, <1>4 DEF Write, Results
<1>6. PICK c \in Calls : Opens(w, c) /\ c.op = "execution_clear" /\ c.write = Deletion(D)
  BY <1>2, <1>5, DeletionIs, WriteOpensHere
<1>7. c.cells = CellsOf(s)
  BY <1>3, <1>6 DEF Opens, Same
<1>8. Content(c)
  <2>1. DOMAIN c.write = D /\ \A r \in D : c.write[r] = None
    BY <1>6, DeletionIs
  <2> QED BY <1>4, <1>6, <1>7, <2>1 DEF Content
<1>9. Fits(w, c)
  <2>1. /\ \A r \in D \cap (ItemNames \cup LogNames) : rows[r] # None
        /\ \A r \in D \cap LogNames : rows[r].cell \in c.cells
    BY <1>4, <1>7
  <2> QED BY <1>2, <1>5, <1>6, <1>8, <2>1, DeletionFits
<1> QED BY <1>6, <1>9

-----------------------------------------------------------------------------
(* How a try ends.                                                         *)

\* w's call is now c, which holds no row, or is over.
Resets(w, c) ==
  /\ call' = [call EXCEPT ![w] = c]
  /\ c = None \/ (c \in Calls /\ c.write = Untried /\ c.step # "commit" /\ Scoped(c))
  /\ calls' \in Nat
  /\ UNCHANGED <<rows, identity>>

LEMMA AfterResets ==
  ASSUME BaseInv, NEW w \in Workers, NEW c \in Calls \cup {None}, Resets(w, c),
         orphans' \subseteq orphans \cup {call[w]}, orphans' \subseteq Calls
  PROVE  /\ call'[w] = c /\ \A v \in Workers \ {w} : call'[v] = call[v]
         /\ \A v \in Workers \ {w} : Busy(v)' <=> Busy(v)
         /\ Busy(w)' <=> c # None
         /\ TypeInv'
         /\ \A t \in Transactions' : t \in Transactions \/ (Busy(w) /\ t = call[w]) \/ (c # None /\ t = c)
         /\ \A t \in Transactions' : t \in Transactions \/ t.write = Untried
<1>1. call'[w] = c /\ \A v \in Workers \ {w} : call'[v] = call[v]
  BY DEF BaseInv, TypeInv, Resets
<1>2. TypeInv'
  BY DEF BaseInv, TypeInv, Resets
<1>3. \A v \in Workers \ {w} : Busy(v)' <=> Busy(v)
  BY <1>1 DEF Busy
<1>4. Busy(w)' <=> c # None
  BY <1>1 DEF Busy
<1>5. \A o \in orphans' : o # None
  BY CallsAre
<1>6. \A o \in orphans' : o \in orphans \/ (Busy(w) /\ o = call[w])
  BY <1>5 DEF Busy
<1>7. \A t \in Transactions' : t \in Transactions \/ (Busy(w) /\ t = call[w]) \/ (c # None /\ t = c)
  BY <1>1, <1>3, <1>4, <1>6 DEF Transactions
<1>8. \A t \in Transactions' : t \in Transactions \/ t.write = Untried
  BY <1>7 DEF Transactions, Resets
<1> QED BY <1>1, <1>2, <1>3, <1>4, <1>7, <1>8

\* The transactions that were there keep their rows; the new one has none.
LEMMA RepliesBase ==
  ASSUME BaseInv, NEW w \in Workers, NEW c \in Calls \cup {None}, Resets(w, c),
         orphans' \subseteq orphans \/ (Busy(w) /\ orphans' \subseteq Orphaned(w))
  PROVE  TypeInv' /\ Orders' /\ Locks' /\ \A i : Taken(i) => Taken(i)'
<1>1. /\ orphans' \subseteq Calls /\ orphans' \subseteq orphans \cup {call[w]}
      /\ \A o \in orphans' : o.step = "commit" /\ (o \in orphans \/ (Busy(w) /\ o = call[w]))
  <2>1. CASE Busy(w) /\ orphans' \subseteq Orphaned(w)
    <3>1. call[w] \in Calls
      BY <2>1 DEF BaseInv, TypeInv, Busy
    <3>2. orphans \subseteq Calls /\ \A o \in orphans : o.step = "commit"
      BY DEF BaseInv, TypeInv, Orders
    <3> QED BY <2>1, <3>1, <3>2 DEF Orphaned
  <2>2. CASE orphans' \subseteq orphans
    BY <2>2 DEF BaseInv, TypeInv, Orders
  <2> QED BY <2>1, <2>2
<1> USE <1>1, AfterResets
<1>2. \A t \in Transactions' : t \in Transactions \/ (c # None /\ t = c)
  BY DEF Transactions
<1>3. \A r : Numbered(r)' <=> Numbered(r)
  BY DEF Numbered, Resets
<1>4. Orders'
  <2>1. \A t \in Transactions : WellFormed(t) /\ Careful(t)'
    BY <1>3 DEF BaseInv, Orders, Careful, Resets
  <2>2. c # None => WellFormed(c) /\ Careful(c)'
    BY UntriedIsEmpty DEF Resets, WellFormed, Careful
  <2>3. \A r \in ItemNames \cup LogNames : rows'[r] # None => Numbered(r)'
    BY <1>3 DEF BaseInv, Orders, Resets
  <2> QED BY <1>2, <2>1, <2>2, <2>3 DEF Orders, WellFormed, Careful, Numbered
<1>5. Locks'
  <2>1. c # None => \A u : Disjoint(c, u) /\ Disjoint(u, c)
    BY UntriedIsEmpty DEF Resets, Disjoint
  <2>2. \A v, u \in Workers : v # u /\ Busy(v)' /\ Busy(u)' => Disjoint(call'[v], call'[u])
    BY <2>1 DEF BaseInv, Locks
  <2>3. \A v \in Workers, o \in orphans' : Busy(v)' => Disjoint(call'[v], o)
    BY <2>1 DEF BaseInv, Locks
  <2>4. \A o, p \in orphans' : o # p => Disjoint(o, p)
    <3>1. \A t, u : Disjoint(t, u) => Disjoint(u, t)
      BY DEF Disjoint
    <3> QED BY <3>1 DEF BaseInv, Locks
  <2> QED BY <2>2, <2>3, <2>4 DEF Locks, Disjoint
<1>6. ASSUME NEW i, Taken(i) PROVE Taken(i)'
  <2>1. \A t \in Transactions' : Item(i) \notin DOMAIN t.write
    BY <1>2, <1>6, UntriedIsEmpty DEF Taken, Resets
  <2> QED BY <1>3, <1>6, <2>1 DEF Taken, Resets
<1> QED BY <1>4, <1>5, <1>6

LEMMA ResetBase ==
  ASSUME BaseInv, NEW w \in Workers, NEW c \in Calls \cup {None}, Resets(w, c),
         orphans' \subseteq orphans \/ (Busy(w) /\ orphans' \subseteq Orphaned(w)),
         UNCHANGED answers
  PROVE  BaseInv'
  BY RepliesBase DEF BaseInv, Claimed

\* A step that moves no row and starts no transaction.
LEMMA UnchangedBase ==
  ASSUME BaseInv, orphans' \subseteq orphans,
         UNCHANGED <<rows, identity, call, calls, answers>>
  PROVE  BaseInv'
<1>1. \A t \in Transactions' : t \in Transactions
  BY DEF Transactions, Busy
<1>2. TypeInv'
  BY DEF BaseInv, TypeInv
<1>3. Orders'
  BY <1>1 DEF BaseInv, Orders, WellFormed, Careful, Numbered
<1>4. Locks'
  BY DEF BaseInv, Locks, Busy
<1>5. Claimed'
  BY <1>1 DEF BaseInv, Claimed, Taken, Numbered
<1> QED BY <1>2, <1>3, <1>4, <1>5 DEF BaseInv

\* t's images become the rows, and t is over.
LEMMA AppliedBase ==
  ASSUME BaseInv, NEW t \in Transactions, t.step = "commit", rows' = Applied(t.write),
         call' \in [Workers -> Calls \cup {None}], orphans' \subseteq orphans,
         UNCHANGED <<identity, calls>>,
         \A u \in Transactions' : u \in Transactions /\ Disjoint(t, u),
         Locks',
         answers' \subseteq answers \cup {[id |-> t.id, op |-> t.op, got |-> t.got]}
  PROVE  BaseInv'
<1>1. t \in Calls /\ WellFormed(t) /\ Careful(t) /\ Content(t) /\ DOMAIN t.write \subseteq Names
  <2>1. t \in Calls /\ WellFormed(t) /\ Careful(t)
    BY DEF BaseInv, TypeInv, Orders, Transactions, Busy
  <2> QED BY <2>1, CallsAre, WritesAre DEF WellFormed
<1>2. /\ \A r \in Names : rows'[r] = IF r \in DOMAIN t.write THEN t.write[r] ELSE rows[r]
      /\ TypeInv'
  <2>1. /\ \A r \in Names : rows'[r] = IF r \in DOMAIN t.write THEN t.write[r] ELSE rows[r]
        /\ rows' \in [Names -> RowTypes \cup {None}] /\ Typed(rows')
    BY <1>1, AppliedRows DEF BaseInv, WellFormed
  <2> QED BY <2>1 DEF BaseInv, TypeInv
<1>3. \A r : Numbered(r)' <=> Numbered(r)
  BY DEF Numbered
<1>4. Orders'
  <2>1. ASSUME NEW u \in Transactions' PROVE WellFormed(u) /\ Careful(u)'
    <3>1. u \in Transactions /\ Disjoint(t, u) /\ WellFormed(u) /\ Careful(u)
      BY DEF BaseInv, Orders
    <3>2. ASSUME NEW r \in DOMAIN u.write \cap (ItemNames \cup LogNames)
          PROVE  rows'[r] = rows[r]
      BY <1>2, <3>1, NamesOfTables DEF Disjoint
    <3> QED BY <1>3, <3>1, <3>2 DEF Careful
  <2>2. ASSUME NEW r \in ItemNames \cup LogNames, rows'[r] # None PROVE Numbered(r)'
    <3>1. CASE r \in DOMAIN t.write
      BY <1>1, <1>3, <3>1 DEF Careful
    <3>2. CASE r \notin DOMAIN t.write
      BY <1>2, <1>3, <2>2, <3>2, NamesOfTables DEF BaseInv, Orders
    <3> QED BY <3>1, <3>2
  <2> QED BY <2>1, <2>2 DEF BaseInv, Orders, WellFormed, Careful, Numbered
<1>5. Claimed'
  <2>1. ASSUME NEW i, Taken(i) PROVE Taken(i)' /\ Item(i) \notin DOMAIN t.write
    <3>1. Item(i) \in Names /\ Item(i) \notin DOMAIN t.write
      BY <2>1, NamesOfTables DEF Taken
    <3>2. rows'[Item(i)] = None
      BY <1>2, <2>1, <3>1 DEF Taken
    <3>3. \A u \in Transactions' : Item(i) \notin DOMAIN u.write
      BY <2>1 DEF Taken
    <3> QED BY <1>3, <2>1, <3>1, <3>2, <3>3 DEF Taken
  <2>2. ASSUME t.op = "queue_pop", NEW i \in t.got PROVE Taken(i)' /\ Item(i) \in DOMAIN t.write
    <3>1. PICK r \in DOMAIN t.write : i = r[2] /\ r \in ItemNames /\ t.write[r] = None
      BY <1>1, <2>2 DEF Content
    <3>2. Item(i) = r
      BY <3>1, NamesOfTables
    <3>3. Numbered(r)' /\ rows'[r] = None
      BY <1>1, <1>2, <1>3, <3>1, NamesOfTables DEF Careful
    <3>4. \A u \in Transactions' : r \notin DOMAIN u.write
      BY DEF Disjoint
    <3> QED BY <3>1, <3>2, <3>3, <3>4 DEF Taken
  <2>3. \A a \in answers' : a.op = "queue_pop" =>
          \/ a \in answers /\ \A i \in a.got : Taken(i)
          \/ t.op = "queue_pop" /\ a = [id |-> t.id, op |-> t.op, got |-> t.got]
    BY DEF BaseInv, Claimed
  <2>4. \A a \in answers' : a.op = "queue_pop" => \A i \in a.got : Taken(i)'
    BY <2>1, <2>2, <2>3
  <2>5. ASSUME NEW a \in answers', NEW b \in answers', a.op = "queue_pop", b.op = "queue_pop", a # b
        PROVE  a.got \cap b.got = {}
    <3>1. CASE a \in answers /\ b \in answers
      BY <2>5, <3>1 DEF BaseInv, Claimed
    <3>2. CASE (a \in answers /\ \A i \in a.got : Taken(i)) /\ b.got = t.got /\ t.op = "queue_pop"
      BY <2>1, <2>2, <3>2
    <3>3. CASE (b \in answers /\ \A i \in b.got : Taken(i)) /\ a.got = t.got /\ t.op = "queue_pop"
      BY <2>1, <2>2, <3>3
    <3> QED BY <2>3, <2>5, <3>1, <3>2, <3>3
  <2> QED BY <2>4, <2>5 DEF Claimed
<1> QED BY <1>2, <1>4, <1>5 DEF BaseInv

LEMMA CommitBase ==
  ASSUME BaseInv, NEW w \in Workers, Commit(w)
  PROVE  BaseInv'
<1> DEFINE t == call[w]
<1>1. /\ Busy(w) /\ t \in Calls /\ t \in Transactions /\ t.step = "commit" /\ rows' = Applied(t.write)
      /\ answers' = answers \cup {[id |-> t.id, op |-> t.op, got |-> t.got]}
      /\ call' = [call EXCEPT ![w] = None] /\ UNCHANGED <<identity, orphans, calls>>
  BY DEF Commit, Lands, At, Return, Busy, Transactions, BaseInv, TypeInv
<1>2. call'[w] = None /\ \A v \in Workers \ {w} : call'[v] = call[v]
  BY <1>1 DEF BaseInv, TypeInv
<1>3. call' \in [Workers -> Calls \cup {None}]
  BY <1>1 DEF BaseInv, TypeInv
<1> HIDE DEF t
<1>4. \A v \in Workers : Busy(v)' => v # w /\ Busy(v)
  BY <1>2 DEF Busy
<1>5. \A u \in Transactions' : u \in Transactions /\ Disjoint(t, u)
  <2>1. \A v \in Workers \ {w} : Busy(v) => Disjoint(t, call[v])
    BY <1>1 DEF BaseInv, Locks, t
  <2>2. \A o \in orphans : Disjoint(t, o)
    BY <1>1 DEF BaseInv, Locks, t
  <2> QED BY <1>1, <1>2, <1>4, <2>1, <2>2 DEF Transactions
<1>6. Locks'
  BY <1>1, <1>2, <1>4 DEF BaseInv, Locks, Disjoint
<1> QED BY <1>1, <1>3, <1>5, <1>6, AppliedBase

LEMMA OrphanCommitsBase ==
  ASSUME BaseInv, OrphanCommits
  PROVE  BaseInv'
<1>1. PICK o \in orphans : /\ orphans' = orphans \ {o} /\ rows' = Applied(o.write)
                           /\ UNCHANGED <<identity, call, calls, answers>>
  BY DEF OrphanCommits, Lands
<1>2. o \in Transactions /\ o.step = "commit"
  BY DEF Transactions, BaseInv, Orders
<1>3. \A u \in Transactions' : u \in Transactions /\ Disjoint(o, u)
  <2>1. \A v \in Workers : Busy(v) => Disjoint(o, call[v])
    BY <1>1 DEF BaseInv, Locks, Disjoint
  <2>2. \A p \in orphans' : p \in orphans /\ Disjoint(o, p)
    BY <1>1 DEF BaseInv, Locks
  <2> QED BY <1>1, <2>1, <2>2 DEF Transactions, Busy
<1>4. Locks'
  BY <1>1 DEF BaseInv, Locks, Disjoint, Busy
<1>5. call' \in [Workers -> Calls \cup {None}]
  BY <1>1 DEF BaseInv, TypeInv
<1> QED BY <1>1, <1>2, <1>3, <1>4, <1>5, AppliedBase

LEMMA BeginBase ==
  ASSUME BaseInv, NEW w \in Workers, Begin(w)
  PROVE  /\ BaseInv'
         /\ \E c \in Calls : /\ Resets(w, c) /\ c.id = calls + 1 /\ c.try = 1
                             /\ c.step = FirstStep(c.op) /\ c.step # "commit"
         /\ call[w] = None /\ calls' = calls + 1
         /\ UNCHANGED <<rows, identity, orphans, history, reading>>
<1>1. PICK op \in Ops, s \in Scopes : \E cells \in Touches(op, s) : \E first \in cells :
    call' = [call EXCEPT ![w] = [op |-> op, cells |-> cells, first |-> first,
                                 id |-> calls + 1, try |-> 1, step |-> FirstStep(op),
                                 write |-> Untried, got |-> {}]]
  BY DEF Begin
<1>1a. PICK cells \in Touches(op, s) : \E first \in cells :
    call' = [call EXCEPT ![w] = [op |-> op, cells |-> cells, first |-> first,
                                 id |-> calls + 1, try |-> 1, step |-> FirstStep(op),
                                 write |-> Untried, got |-> {}]]
  BY <1>1
<1>2. PICK first \in cells :
    call' = [call EXCEPT ![w] = [op |-> op, cells |-> cells, first |-> first,
                                 id |-> calls + 1, try |-> 1, step |-> FirstStep(op),
                                 write |-> Untried, got |-> {}]]
  BY <1>1a
<1>3. /\ call[w] = None /\ calls < MaxCalls /\ calls' = calls + 1
      /\ UNCHANGED <<rows, identity, orphans, history, reading>>
  BY DEF Begin
<1>4. cells \subseteq CellsOf(s) /\ cells \subseteq Cells /\ first \in Cells /\ first[1] = s
  BY <1>2 DEF Touches, CellsOf
<1>5. calls + 1 \in Ids /\ calls + 1 \in Nat
  BY <1>3, Bounds DEF Ids, BaseInv, TypeInv
<1>6. FirstStep(op) \in Steps /\ FirstStep(op) # "commit"
  BY DEF FirstStep, Steps
<1>7. PICK c \in Calls : /\ c.op = op /\ c.cells = cells /\ c.first = first /\ c.id = calls + 1
                         /\ c.step = FirstStep(op) /\ c.write = Untried /\ c.try = 1
                         /\ call' = [call EXCEPT ![w] = c]
  <2> DEFINE c == [op |-> op, cells |-> cells, first |-> first,
                   id |-> calls + 1, try |-> 1, step |-> FirstStep(op),
                   write |-> Untried, got |-> {}]
  <2>1. c \in Calls
    <3>1. {} \in Results /\ 1 \in 1..2
      BY DEF Results
    <3> QED BY <1>4, <1>5, <1>6, <3>1, UntriedIsEmpty DEF Calls
  <2> QED BY <1>2, <2>1
<1>8. Scoped(c)
  <2>1. op \in OneCell => cells = {first}
    BY <1>2 DEF Touches, OneCell, Batched
  <2>2. op \in {"state_drain", "execution_clear"} => cells = CellsOf(s)
    BY <1>2 DEF Touches, OneCell, Batched
  <2> QED BY <1>2, <1>4, <1>7, <2>1, <2>2 DEF Scoped
<1>9. Resets(w, c)
  BY <1>3, <1>5, <1>6, <1>7, <1>8 DEF Resets
<1>10. BaseInv'
  BY <1>3, <1>9, ResetBase
<1> QED BY <1>2, <1>3, <1>6, <1>7, <1>9, <1>10

\* The methods' writing statements.
Writing(w) ==
  \/ queue_push(w) \/ queue_pop(w) \/ queue_clear(w)
  \/ state_put_many(w) \/ state_drain(w) \/ state_delete(w) \/ state_append(w)
  \/ state_counter_add(w) \/ state_counter_set(w) \/ state_counter_delete(w)
  \/ execution_clear(w)

LEMMA WritingOpens ==
  ASSUME BaseInv, NEW w \in Workers, Writing(w)
  PROVE  \E c \in Calls : Opens(w, c) /\ Fits(w, c)
  BY QueuePushOpens, QueuePopOpens, QueueClearOpens, StatePutManyOpens, StateDrainOpens,
     StateDeleteOpens, StateAppendOpens, CounterAddOpens, CounterSetOpens, CounterDeleteOpens,
     ExecutionClearOpens DEF Writing

\* w's call is over.
LEMMA OverResets ==
  ASSUME BaseInv, NEW w \in Workers, call' = [call EXCEPT ![w] = None],
         UNCHANGED <<rows, identity, calls>>
  PROVE  Resets(w, None)
  BY DEF Resets, BaseInv, TypeInv

LEMMA CheckIs ==
  ASSUME BaseInv, NEW w \in Workers, Check(w)
  PROVE  /\ Busy(w) /\ call[w].op \in Attempted /\ call[w].step = "check"
         /\ UNCHANGED <<rows, identity, orphans, calls, commits, displaced, reading>>
         /\ \/ UNCHANGED raced /\ \E got \in Replayed(call[w]) : Return(w, got)
            \/ /\ Replayed(call[w]) = {} /\ UNCHANGED answers
               /\ raced' = raced \cup {o.id : o \in OrphanOf(call[w])}
               /\ \E c \in Calls : /\ Same(c, call[w]) /\ c.step = "write" /\ c.try = call[w].try
                                   /\ Resets(w, c)
<1>1. /\ Busy(w) /\ call[w].op \in Attempted /\ call[w].step = "check"
      /\ UNCHANGED <<rows, identity, orphans, calls, commits, displaced, reading>>
      /\ call[w] \in Calls
  BY DEF Check, At, Busy, BaseInv, TypeInv
<1>2. ASSUME call' = [call EXCEPT ![w].step = "write"]
      PROVE  \E c \in Calls : /\ Same(c, call[w]) /\ c.step = "write" /\ c.try = call[w].try
                              /\ Resets(w, c)
  <2>1. PICK c \in Calls : c = [call[w] EXCEPT !.step = "write"]
    <3>1. [call[w] EXCEPT !.step = "write"] \in Calls
      BY <1>1 DEF Calls, Steps
    <3> QED BY <3>1
  <2>2. c.step = "write" /\ c.write = call[w].write /\ c.try = call[w].try /\ Same(c, call[w])
    BY <1>1, <2>1 DEF Calls, Same
  <2>3. WellFormed(call[w])
    BY <1>1 DEF BaseInv, Orders, Transactions
  <2>4. c.write = Untried /\ Scoped(c)
    BY <1>1, <2>2, <2>3 DEF WellFormed, Scoped, Same
  <2>5. call' = [call EXCEPT ![w] = c]
    BY <1>2, <2>1 DEF BaseInv, TypeInv
  <2>6. Resets(w, c)
    BY <1>1, <2>2, <2>4, <2>5 DEF Resets, BaseInv, TypeInv
  <2> QED BY <2>2, <2>6
<1> QED BY <1>1, <1>2 DEF Check

LEMMA CheckBase ==
  ASSUME BaseInv, NEW w \in Workers, Check(w)
  PROVE  BaseInv'
<1>1. CASE \E got \in Replayed(call[w]) : Return(w, got)
  <2>1. PICK got \in Replayed(call[w]) : Return(w, got)
    BY <1>1
  <2>2. PICK a \in {[id |-> call[w].id, op |-> call[w].op, got |-> got]} :
          answers' = answers \cup {a} /\ a.op = call[w].op
    BY <2>1 DEF Return
  <2>3. a.op # "queue_pop"
    BY <2>2, CheckIs DEF Attempted
  <2>4. Resets(w, None) /\ UNCHANGED <<orphans, rows, identity>>
    BY <2>1, CheckIs, OverResets DEF Return
  <2>5. TypeInv' /\ Orders' /\ Locks' /\ \A i : Taken(i) => Taken(i)'
    BY <2>4, RepliesBase
  <2>6. Claimed'
    BY <2>2, <2>3, <2>5 DEF BaseInv, Claimed
  <2> QED BY <2>5, <2>6 DEF BaseInv
<1>2. CASE UNCHANGED answers /\ \E c \in Calls : Resets(w, c)
  BY <1>2, CheckIs, ResetBase
<1> QED BY <1>1, <1>2, CheckIs

LEMMA DisconnectIs ==
  ASSUME BaseInv, NEW w \in Workers, Disconnect(w)
  PROVE  /\ Busy(w) /\ orphans' = Orphaned(w)
         /\ UNCHANGED <<rows, identity, calls, history, reading>>
         /\ \E c \in Calls \cup {None} :
              /\ Resets(w, c)
              /\ c # None => /\ Same(c, call[w]) /\ c.try = 2 /\ call[w].try = 1
                             /\ c.step = FirstStep(c.op)
<1>1. /\ Busy(w) /\ orphans' = Orphaned(w) /\ call[w] \in Calls
      /\ UNCHANGED <<rows, identity, calls, history, reading>>
  BY DEF Disconnect, Busy, BaseInv, TypeInv
<1>2. CASE ~MayRetry(call[w])
  <2>1. call' = [call EXCEPT ![w] = None]
    BY <1>2 DEF Disconnect, BaseInv, TypeInv
  <2> QED BY <1>1, <2>1, OverResets
<1>3. CASE MayRetry(call[w])
  <2>1. call[w].try = 1
    BY <1>1, <1>3 DEF MayRetry, Calls
  <2>2. FirstStep(call[w].op) \in Steps /\ FirstStep(call[w].op) # "commit"
    BY DEF FirstStep, Steps
  <2>3. PICK c \in Calls : c = Retried(call[w])
    <3>1. Retried(call[w]) \in Calls
      <4>1. {} \in Results /\ 1 + 1 \in 1..2
        BY DEF Results
      <4> QED BY <1>1, <2>1, <2>2, <4>1, UntriedIsEmpty DEF Calls, Retried
    <3> QED BY <3>1
  <2>4. c.step = FirstStep(c.op) /\ c.write = Untried /\ c.try = 2 /\ Same(c, call[w])
    BY <1>1, <2>1, <2>3 DEF Calls, Same, Retried
  <2>5. Scoped(c)
    <3>1. Scoped(call[w])
      BY <1>1 DEF BaseInv, Orders, Transactions, WellFormed
    <3> QED BY <2>4, <3>1 DEF Scoped, Same
  <2>6. call' = [call EXCEPT ![w] = c]
    BY <1>3, <2>3 DEF Disconnect, BaseInv, TypeInv
  <2>7. c.step # "commit"
    BY <2>2, <2>4 DEF Same
  <2>8. Resets(w, c)
    BY <1>1, <2>4, <2>5, <2>6, <2>7 DEF Resets, BaseInv, TypeInv
  <2> QED BY <1>1, <2>1, <2>4, <2>8
<1> QED BY <1>2, <1>3

LEMMA BaseStep == BaseInv /\ [Next]_vars => BaseInv'
<1> SUFFICES ASSUME BaseInv, [Next]_vars PROVE BaseInv'
  OBVIOUS
<1>1. ASSUME NEW w \in Workers, Step(w) PROVE BaseInv'
  <2>1. CASE Begin(w)
    BY <2>1, BeginBase
  <2>2. CASE Check(w)
    BY <2>2, CheckBase
  <2>3. CASE Commit(w)
    BY <2>3, CommitBase
  <2>4. CASE Disconnect(w)
    BY <2>4, DisconnectIs, ResetBase
  <2>5. CASE Crash(w)
    <3>1. Resets(w, None) /\ Busy(w) /\ orphans' = Orphaned(w) /\ UNCHANGED answers
      BY <2>5, OverResets DEF Crash, Busy
    <3> QED BY <3>1, ResetBase
  <2>6. CASE AppendRefused(w)
    <3>1. Resets(w, None) /\ UNCHANGED <<orphans, answers>>
      BY <2>6, OverResets DEF AppendRefused
    <3> QED BY <3>1, ResetBase
  <2>7. CASE state_log_scan(w)
    <3>1. UNCHANGED <<rows, identity, call, orphans, calls, history>>
      BY <2>7 DEF state_log_scan
    <3> QED BY <3>1, UnchangedBase
  <2>8. CASE Writing(w)
    BY <2>8, WritingOpens, OpensBase
  <2> QED BY <1>1, <2>1, <2>2, <2>3, <2>4, <2>5, <2>6, <2>7, <2>8 DEF Step, Writing
<1>2. CASE OrphanCommits
  BY <1>2, OrphanCommitsBase
<1>3. CASE OrphanRollsBack
  <2>1. orphans' \subseteq orphans /\ UNCHANGED <<rows, identity, call, calls, history>>
    BY <1>3 DEF OrphanRollsBack
  <2> QED BY <2>1, UnchangedBase
<1>4. CASE UNCHANGED vars
  BY <1>4, UnchangedBase DEF vars
<1> QED BY <1>1, <1>2, <1>3, <1>4 DEF Next

\* A popped item is never popped again, whatever connections fail and however
\* pops, pushes and clears overlap (queue_pop, ROWLOCK, UPDLOCK, READPAST).
THEOREM PopsAreClaims == Spec => []ClaimedOnce
<1>1. BaseInv => ClaimedOnce
  BY DEF BaseInv, Claimed, Taken, ClaimedOnce
<1> QED BY <1>1, InitBase, BaseStep, PTL DEF Spec

-----------------------------------------------------------------------------
(* A call keeps its attempt id over its tries, and no two calls share one.  *)

Drawn(i) == i \in Nat /\ i <= calls

Identified ==
  /\ \A t \in Transactions : Drawn(t.id)
  /\ \A k \in commits \cup answers : Drawn(k.id)
  /\ \A v, w \in Workers : v # w /\ Busy(v) /\ Busy(w) => call[v].id # call[w].id
  /\ \A t, u \in Transactions : t.id = u.id => Same(t, u)
  /\ \A t \in Transactions, k \in commits : k.id = t.id => k.op = t.op

\* A log row was committed by its append.
Written == \A r \in LogNames : rows[r] # None =>
  \E k \in commits : k.op = "state_append" /\ k.id = rows[r].by /\ k.got = {r[2]}

\* w's call is now c: the same call, a new one, or none.
Continues(w, c) ==
  /\ call' = [call EXCEPT ![w] = c]
  /\ \/ c = None /\ calls' = calls
     \/ c \in Calls /\ Busy(w) /\ Same(c, call[w]) /\ calls' = calls
     \/ c \in Calls /\ ~Busy(w) /\ c.id = calls + 1 /\ calls' = calls + 1

\* What is committed or answered is of an open call.
OfOpenCalls ==
  /\ \A k \in commits' : k \in commits \/ \E t \in Transactions : k.id = t.id /\ k.op = t.op
  /\ \A a \in answers' : a \in answers \/ \E t \in Transactions : a.id = t.id

LEMMA DrawnStays ==
  ASSUME TypeInv, calls' = calls \/ calls' = calls + 1
  PROVE  /\ calls \in Nat /\ calls' \in Nat
         /\ \A i : Drawn(i) => Drawn(i)' /\ i # calls + 1
         /\ \A i : i = calls + 1 /\ calls' = calls + 1 => Drawn(i)'
<1>1. calls \in Nat /\ calls' \in Nat
  BY DEF TypeInv
<1>2. \A i, n \in Nat : i <= n => i <= n + 1 /\ i # n + 1
  OBVIOUS
<1>3. \A i : Drawn(i) => Drawn(i)' /\ i # calls + 1
  <2>1. CASE calls' = calls
    BY <1>1, <1>2, <2>1 DEF Drawn
  <2>2. CASE calls' = calls + 1
    BY <1>1, <1>2, <2>2 DEF Drawn
  <2> QED BY <2>1, <2>2
<1>4. \A i : i = calls + 1 /\ calls' = calls + 1 => Drawn(i)'
  BY <1>1 DEF Drawn
<1> QED BY <1>1, <1>3, <1>4

LEMMA TransactionsAre ==
  ASSUME TypeInv
  PROVE  /\ \A t \in Transactions : t \in Calls /\ t # None
         /\ \A w \in Workers : Busy(w) => call[w] \in Transactions
<1>1. \A t \in Transactions : t \in Calls /\ t # None
  BY CallsAre DEF Transactions, TypeInv, Busy
<1> QED BY <1>1 DEF Transactions, Busy

LEMMA SameIsSymmetric ==
  /\ \A c : Same(c, c)
  /\ \A c, d : Same(c, d) => Same(d, c)
  /\ \A c, d, e : Same(c, d) /\ Same(d, e) => Same(c, e)
  BY DEF Same

LEMMA KnownStep ==
  ASSUME TypeInv, Identified, NEW w \in Workers, NEW c, Continues(w, c),
         \A o \in orphans' : o \in orphans \/ (Busy(w) /\ o = call[w]),
         OfOpenCalls
  PROVE  Identified'
<1>1. /\ call'[w] = c /\ \A v \in Workers \ {w} : call'[v] = call[v]
      /\ calls' = calls \/ calls' = calls + 1
  BY DEF TypeInv, Continues
<1>2. /\ \A v \in Workers \ {w} : Busy(v)' <=> Busy(v)
      /\ Busy(w)' <=> c # None
  BY <1>1 DEF Busy
<1>3. \A t \in Transactions' : t \in Transactions \/ (c # None /\ t = c /\ Busy(w)')
  BY <1>1, <1>2, TransactionsAre DEF Transactions
<1>4. /\ \A i : Drawn(i) => Drawn(i)' /\ i # calls + 1
      /\ \A i : i = calls + 1 /\ calls' = calls + 1 => Drawn(i)'
  BY <1>1, DrawnStays
<1>5. c # None => \/ Busy(w) /\ Same(c, call[w])
                  \/ ~Busy(w) /\ c.id = calls + 1 /\ calls' = calls + 1
  BY DEF Continues
<1>6. \A t \in Transactions' : Drawn(t.id)'
  <2>1. \A t \in Transactions : Drawn(t.id)'
    BY <1>4 DEF Identified
  <2>2. Busy(w) /\ Same(c, call[w]) => Drawn(c.id)'
    BY <2>1, TransactionsAre DEF Same
  <2> QED BY <1>3, <1>4, <1>5, <2>1, <2>2
<1>7. \A k \in commits' \cup answers' : Drawn(k.id)'
  BY <1>4 DEF Identified, OfOpenCalls
<1>8. ASSUME NEW v \in Workers \ {w}, Busy(v)', c # None PROVE call'[v].id # c.id
  <2>1. Busy(v) /\ Drawn(call[v].id) /\ call'[v] = call[v]
    BY <1>1, <1>2, <1>8, TransactionsAre DEF Identified
  <2> QED BY <1>4, <1>5, <1>8, <2>1 DEF Identified, Same
<1>9. \A v, u \in Workers : v # u /\ Busy(v)' /\ Busy(u)' => call'[v].id # call'[u].id
  BY <1>1, <1>2, <1>8 DEF Identified
<1>10. ASSUME NEW t \in Transactions, c # None, t.id = c.id PROVE Same(t, c)
  <2>1. CASE Busy(w) /\ Same(c, call[w])
    <3>1. c.id = call[w].id
      BY <2>1 DEF Same
    <3>2. Same(t, call[w])
      BY <1>10, <2>1, <3>1, TransactionsAre DEF Identified
    <3> QED BY <2>1, <3>2, SameIsSymmetric
  <2>2. CASE c.id = calls + 1
    BY <1>4, <1>10, <2>2 DEF Identified
  <2> QED BY <1>5, <1>10, <2>1, <2>2
<1>11. \A t, u \in Transactions' : t.id = u.id => Same(t, u)
  BY <1>3, <1>10, SameIsSymmetric DEF Identified
<1>12. ASSUME NEW t \in Transactions', NEW k \in commits', k.id = t.id PROVE k.op = t.op
  <2>1. CASE k \in commits
    <3>1. CASE t \in Transactions
      BY <1>12, <2>1, <3>1 DEF Identified
    <3>2. CASE c # None /\ t = c
      <4>1. CASE Busy(w) /\ Same(c, call[w])
        <5>1. c.id = call[w].id /\ c.op = call[w].op
          BY <4>1 DEF Same
        <5> QED BY <1>12, <2>1, <3>2, <4>1, <5>1, TransactionsAre DEF Identified
      <4>2. CASE c.id = calls + 1
        BY <1>4, <1>12, <2>1, <3>2, <4>2 DEF Identified
      <4> QED BY <1>5, <3>2, <4>1, <4>2
    <3> QED BY <1>3, <3>1, <3>2
  <2>2. ASSUME NEW u \in Transactions, k.id = u.id, k.op = u.op PROVE k.op = t.op
    <3>1. Same(t, u)
      <4>1. t.id = u.id
        BY <1>12, <2>2
      <4>2. CASE t \in Transactions
        BY <2>2, <4>1, <4>2 DEF Identified
      <4>3. CASE c # None /\ t = c
        BY <1>10, <2>2, <4>1, <4>3, SameIsSymmetric
      <4> QED BY <1>3, <4>2, <4>3
    <3> QED BY <2>2, <3>1 DEF Same
  <2> QED BY <2>1, <2>2 DEF OfOpenCalls
<1> QED BY <1>6, <1>7, <1>9, <1>11, <1>12 DEF Identified, Same

LEMMA KnownStays ==
  ASSUME TypeInv, Identified, UNCHANGED <<call, calls>>, orphans' \subseteq orphans, OfOpenCalls
  PROVE  Identified'
<1>1. \A t \in Transactions' : t \in Transactions
  BY DEF Transactions, Busy
<1>2. \A i : Drawn(i)' <=> Drawn(i)
  BY DEF Drawn
<1>3. \A t \in Transactions', k \in commits' : k.id = t.id => k.op = t.op
  BY <1>1 DEF Identified, OfOpenCalls, Same
<1>4. \A k \in commits' \cup answers' : Drawn(k.id)'
  BY <1>2 DEF Identified, OfOpenCalls
<1> QED BY <1>1, <1>2, <1>3, <1>4 DEF Identified, Busy, Same

-----------------------------------------------------------------------------
(* The kinds of step.                                                      *)

Forgets(w) == /\ cursor' = [cursor EXCEPT ![w] = [c \in Cells |-> -1]]
              /\ seen' = [seen EXCEPT ![w] = {}]
              /\ overtaken' = [overtaken EXCEPT ![w] = {}]

\* w's call begins, goes on, is tried again, returns a replay or is given up;
\* the transaction it leaves is an orphan.
Leaves(w, c) ==
  /\ Continues(w, c)
  /\ c # None => c.step # "commit"
  /\ \A o \in orphans' : o \in orphans \/ (Busy(w) /\ call[w].step = "commit" /\ o = call[w])
  /\ \/ UNCHANGED answers
     \/ /\ Busy(w) /\ c = None /\ call[w].op \in Attempted /\ UNCHANGED orphans
        /\ \E got \in Replayed(call[w]) :
             answers' = answers \cup {[id |-> call[w].id, op |-> call[w].op, got |-> got]}
  /\ c # None /\ c.step = "write" /\ c.op \in Attempted =>
       /\ Busy(w) /\ Replayed(call[w]) = {} /\ UNCHANGED orphans
       /\ \A o \in orphans : o.id = call[w].id => o.id \in raced'
  /\ raced \subseteq raced'
  /\ UNCHANGED <<rows, identity, commits, displaced>>
  /\ UNCHANGED reading \/ Forgets(w)

\* What the writing statements saw.
Saw(w, c) ==
  /\ c.op = "state_append" =>
       /\ OrphanOf(call[w]) = {} /\ Duplicates(call[w]) = {}
       /\ DOMAIN c.write = {Log(identity.log + 1)}
  /\ c.op = "state_drain" =>
       /\ c.got = Values(LiveCells(call[w]))
       /\ \A x \in Cells : KV(x) \in DOMAIN c.write <=> x \in LiveCells(call[w])

Stays == /\ orphans' \subseteq orphans
         /\ UNCHANGED <<rows, identity, call, calls, history>>
         /\ UNCHANGED reading \/ \E w \in Workers : state_log_scan(w)

LEMMA OpensSaw ==
  ASSUME BaseInv, NEW w \in Workers, Writing(w)
  PROVE  \E c \in Calls : Opens(w, c) /\ Fits(w, c) /\ Saw(w, c)
<1>1. CASE state_append(w)
  <2>1. PICK c \in Calls : /\ Opens(w, c) /\ Fits(w, c) /\ c.op = "state_append"
                           /\ DOMAIN c.write = {Log(identity.log + 1)}
    BY <1>1, StateAppendOpens
  <2>2. OrphanOf(call[w]) = {} /\ Duplicates(call[w]) = {}
    BY <1>1 DEF state_append
  <2> QED BY <2>1, <2>2 DEF Saw
<1>2. CASE state_drain(w)
  <2>1. PICK c \in Calls : /\ Opens(w, c) /\ Fits(w, c) /\ c.got = Values(LiveCells(call[w]))
                           /\ \A x \in Cells : KV(x) \in DOMAIN c.write <=> x \in LiveCells(call[w])
    BY <1>2, StateDrainOpens
  <2>2. c.op # "state_append"
    BY <1>2, <2>1 DEF state_drain, At, Opens, Same
  <2> QED BY <2>1, <2>2 DEF Saw
<1>3. CASE ~state_append(w) /\ ~state_drain(w)
  <2>1. PICK c \in Calls : Opens(w, c) /\ Fits(w, c)
    BY WritingOpens
  <2>2. call[w].op # "state_append" /\ call[w].op # "state_drain"
    BY <1>3 DEF Writing, queue_push, queue_pop, queue_clear, state_put_many, state_delete, Write, At,
                state_counter_add, state_counter_set, state_counter_delete, execution_clear
  <2> QED BY <2>1, <2>2 DEF Saw, Opens, Same
<1> QED BY <1>1, <1>2, <1>3

LEMMA BeginLeaves ==
  ASSUME BaseInv, NEW w \in Workers, Begin(w)
  PROVE  \E c \in Calls \cup {None} : Leaves(w, c)
<1>1. PICK c \in Calls : /\ Resets(w, c) /\ c.id = calls + 1 /\ c.step # "commit"
                         /\ c.step = FirstStep(c.op)
  BY BeginBase
<1>2. /\ ~Busy(w) /\ calls' = calls + 1
      /\ UNCHANGED <<rows, identity, orphans, history, reading>>
  BY BeginBase DEF Busy
<1>3. c.step = "write" => c.op \notin Attempted
  BY <1>1 DEF FirstStep
<1>4. Continues(w, c)
  BY <1>1, <1>2 DEF Continues, Resets
<1> QED BY <1>1, <1>2, <1>3, <1>4 DEF Leaves

LEMMA CheckLeaves ==
  ASSUME BaseInv, NEW w \in Workers, Check(w)
  PROVE  \E c \in Calls \cup {None} : Leaves(w, c)
<1>1. /\ Busy(w) /\ call[w].op \in Attempted
      /\ UNCHANGED <<rows, identity, orphans, calls, commits, displaced, reading>>
  BY CheckIs
<1>2. ASSUME NEW got \in Replayed(call[w]), Return(w, got), UNCHANGED raced
      PROVE  Leaves(w, None)
  <2>1. Continues(w, None)
    BY <1>1, <1>2 DEF Continues, Return
  <2> QED BY <1>1, <1>2, <2>1 DEF Leaves, Return
<1>3. ASSUME Replayed(call[w]) = {}, UNCHANGED answers, NEW c \in Calls, Same(c, call[w]),
             c.step = "write", Resets(w, c), raced' = raced \cup {o.id : o \in OrphanOf(call[w])}
      PROVE  Leaves(w, c)
  <2>1. Continues(w, c)
    BY <1>1, <1>3 DEF Continues, Resets
  <2>2. \A o \in orphans : o.id = call[w].id => o.id \in raced'
    BY <1>3 DEF OrphanOf
  <2> QED BY <1>1, <1>3, <2>1, <2>2 DEF Leaves
<1> QED BY <1>2, <1>3, CheckIs

LEMMA DisconnectLeaves ==
  ASSUME BaseInv, NEW w \in Workers, Disconnect(w)
  PROVE  \E c \in Calls \cup {None} : Leaves(w, c)
<1>1. PICK c \in Calls \cup {None} :
        Resets(w, c) /\ (c # None => Same(c, call[w]) /\ c.step = FirstStep(c.op))
  BY DisconnectIs
<1>2. /\ Busy(w) /\ orphans' = Orphaned(w)
      /\ UNCHANGED <<rows, identity, calls, history, reading>>
  BY DisconnectIs
<1>3. Continues(w, c)
  BY <1>1, <1>2 DEF Continues, Resets
<1>4. c # None => c.step # "commit" /\ (c.step = "write" => c.op \notin Attempted)
  BY <1>1 DEF FirstStep
<1> QED BY <1>2, <1>3, <1>4 DEF Leaves, Orphaned

LEMMA GivesUp ==
  ASSUME BaseInv, NEW w \in Workers, Crash(w) \/ AppendRefused(w)
  PROVE  Leaves(w, None)
<1>1. /\ Busy(w) /\ call' = [call EXCEPT ![w] = None]
      /\ orphans' = Orphaned(w) \/ orphans' = orphans
      /\ UNCHANGED <<rows, identity, calls, history>>
      /\ UNCHANGED reading \/ Forgets(w)
  BY DEF Crash, AppendRefused, At, Busy, Forgets
<1>2. Continues(w, None)
  BY <1>1 DEF Continues
<1> QED BY <1>1, <1>2 DEF Leaves, Orphaned

\* Every step is of one of these kinds.
LEMMA NextIs ==
  ASSUME BaseInv, [Next]_vars
  PROVE  \/ \E w \in Workers : \E c \in Calls \cup {None} : Leaves(w, c)
         \/ \E w \in Workers : \E c \in Calls : Opens(w, c) /\ Fits(w, c) /\ Saw(w, c)
         \/ \E w \in Workers : Commit(w)
         \/ OrphanCommits
         \/ Stays
<1>1. ASSUME NEW w \in Workers, Step(w)
      PROVE  \/ \E c \in Calls \cup {None} : Leaves(w, c)
             \/ \E c \in Calls : Opens(w, c) /\ Fits(w, c) /\ Saw(w, c)
             \/ Commit(w) \/ Stays
  <2>1. CASE Begin(w) \/ Check(w) \/ Disconnect(w) \/ Crash(w) \/ AppendRefused(w)
    BY <2>1, BeginLeaves, CheckLeaves, DisconnectLeaves, GivesUp
  <2>2. CASE Writing(w)
    BY <2>2, OpensSaw
  <2>3. CASE state_log_scan(w)
    BY <2>3 DEF state_log_scan, Stays
  <2> QED BY <1>1, <2>1, <2>2, <2>3 DEF Step, Writing
<1>2. CASE OrphanRollsBack \/ UNCHANGED vars
  BY <1>2 DEF OrphanRollsBack, vars, Stays
<1> QED BY <1>1, <1>2 DEF Next

\* The commit of t, by its connection or by the server.
Commits(t) ==
  /\ t \in Transactions /\ t.step = "commit"
  /\ Lands(t)
  /\ \/ \E w \in Workers :
          /\ Busy(w) /\ t = call[w] /\ call' = [call EXCEPT ![w] = None] /\ UNCHANGED orphans
          /\ answers' = answers \cup {[id |-> t.id, op |-> t.op, got |-> t.got]}
     \/ t \in orphans /\ orphans' = orphans \ {t} /\ UNCHANGED <<call, answers>>
  /\ UNCHANGED <<identity, calls, raced, reading>>

LEMMA CommitCommits ==
  ASSUME BaseInv, (\E w \in Workers : Commit(w)) \/ OrphanCommits
  PROVE  \E t \in Calls : Commits(t)
<1>1. ASSUME NEW w \in Workers, Commit(w)
      PROVE  call[w] \in Calls /\ Commits(call[w])
  <2>1. Busy(w) /\ call[w] \in Calls /\ call[w] \in Transactions /\ call[w].step = "commit"
    BY <1>1 DEF Commit, At, Busy, BaseInv, TypeInv, Transactions
  <2> QED BY <1>1, <2>1 DEF Commit, Return, Commits
<1>2. ASSUME NEW o \in orphans, orphans' = orphans \ {o}, Lands(o),
             UNCHANGED <<identity, call, calls, answers, raced, reading>>
      PROVE  o \in Calls /\ Commits(o)
  BY <1>2 DEF BaseInv, TypeInv, Orders, Transactions, Commits
<1> QED BY <1>1, <1>2 DEF OrphanCommits

\* What is left of the transactions, and what the rows are.
LEMMA AfterCommits ==
  ASSUME BaseInv, NEW t \in Calls, Commits(t)
  PROVE  /\ \A r \in Names : rows'[r] = IF r \in DOMAIN t.write THEN t.write[r] ELSE rows[r]
         /\ \A w \in Workers : Busy(w)' => Busy(w) /\ call'[w] = call[w] /\ Disjoint(t, call[w])
         /\ \A o \in orphans' : o \in orphans /\ Disjoint(t, o)
         /\ \A u \in Transactions' : u \in Transactions /\ Disjoint(t, u)
         /\ WellFormed(t) /\ Careful(t) /\ Content(t)
<1>1. WellFormed(t) /\ Careful(t) /\ Content(t)
  BY DEF BaseInv, Orders, Commits, WellFormed
<1>2. \A r \in Names : rows'[r] = IF r \in DOMAIN t.write THEN t.write[r] ELSE rows[r]
  BY <1>1, AppliedRows DEF BaseInv, Commits, Lands, WellFormed
<1>3. /\ \A w \in Workers : Busy(w)' => Busy(w) /\ call'[w] = call[w] /\ Disjoint(t, call[w])
      /\ \A o \in orphans' : o \in orphans /\ Disjoint(t, o)
  <2>1. ASSUME NEW w \in Workers, Busy(w), t = call[w], call' = [call EXCEPT ![w] = None],
               UNCHANGED orphans
        PROVE  <1>3!1 /\ <1>3!2
    <3>1. call'[w] = None /\ \A v \in Workers \ {w} : call'[v] = call[v]
      BY <2>1 DEF BaseInv, TypeInv
    <3> QED BY <2>1, <3>1 DEF BaseInv, Locks, Busy
  <2>2. ASSUME t \in orphans, orphans' = orphans \ {t}, UNCHANGED call
        PROVE  <1>3!1 /\ <1>3!2
    BY <2>2 DEF BaseInv, Locks, Busy, Disjoint
  <2> QED BY <2>1, <2>2 DEF Commits
<1>4. \A u \in Transactions' : u \in Transactions /\ Disjoint(t, u)
  BY <1>3 DEF Transactions
<1> QED BY <1>1, <1>2, <1>3, <1>4

-----------------------------------------------------------------------------
LEMMA CommitsOfOpen ==
  ASSUME BaseInv, NEW t \in Calls, Commits(t)
  PROVE  OfOpenCalls
  BY DEF Commits, Lands, Committed, OfOpenCalls

LEMMA KnownNext ==
  ASSUME BaseInv, Identified, [Next]_vars
  PROVE  Identified'
<1>0. TypeInv
  BY DEF BaseInv
<1>1. ASSUME NEW w \in Workers, NEW c \in Calls \cup {None}, Leaves(w, c)
      PROVE  Identified'
  <2>1. OfOpenCalls
    BY <1>0, <1>1, TransactionsAre DEF Leaves, OfOpenCalls
  <2> QED BY <1>0, <1>1, <2>1, KnownStep DEF Leaves
<1>2. ASSUME NEW w \in Workers, NEW c \in Calls, Opens(w, c)
      PROVE  Identified'
  <2>1. Continues(w, c) /\ OfOpenCalls /\ orphans' = orphans
    BY <1>2 DEF Opens, Continues, OfOpenCalls
  <2> QED BY <1>0, <2>1, KnownStep
<1>3. ASSUME NEW t \in Calls, Commits(t)
      PROVE  Identified'
  <2>1. OfOpenCalls
    BY <1>3, CommitsOfOpen
  <2>2. ASSUME NEW w \in Workers, call' = [call EXCEPT ![w] = None], UNCHANGED orphans
        PROVE  Identified'
    <3>1. Continues(w, None)
      BY <1>3, <2>2 DEF Commits, Continues
    <3> QED BY <1>0, <2>1, <2>2, <3>1, KnownStep
  <2>3. ASSUME orphans' \subseteq orphans, UNCHANGED call
        PROVE  Identified'
    BY <1>0, <1>3, <2>1, <2>3, KnownStays DEF Commits
  <2> QED BY <1>3, <2>2, <2>3 DEF Commits
<1>4. CASE Stays
  <2>1. OfOpenCalls
    BY <1>4 DEF Stays, OfOpenCalls
  <2> QED BY <1>0, <1>4, <2>1, KnownStays DEF Stays
<1> QED BY <1>1, <1>2, <1>3, <1>4, NextIs, CommitCommits

LEMMA WrittenNext ==
  ASSUME BaseInv, Written, [Next]_vars
  PROVE  Written'
<1>1. CASE UNCHANGED <<rows, commits>>
  BY <1>1 DEF Written
<1>2. ASSUME NEW t \in Calls, Commits(t) PROVE Written'
  <2>0. commits \subseteq commits'
    BY <1>2 DEF Commits, Lands, Committed
  <2> SUFFICES ASSUME NEW r \in LogNames, rows'[r] # None
               PROVE  \E k \in commits' : k.op = "state_append" /\ k.id = rows'[r].by /\ k.got = {r[2]}
    BY DEF Written
  <2>1. CASE r \notin DOMAIN t.write
    <3>1. rows'[r] = rows[r]
      BY <1>2, <2>1, AfterCommits, NamesOfTables
    <3> QED BY <2>0, <3>1 DEF Written
  <2>2. CASE r \in DOMAIN t.write
    <3>1. rows'[r] = t.write[r] /\ t.op = "state_append"
      BY <1>2, <2>2, AfterCommits, NamesOfTables DEF Content
    <3>2. PICK n \in 1..MaxRows : /\ DOMAIN t.write = {Log(n)} /\ t.got = {n}
                                  /\ t.write[Log(n)] = [cell |-> t.first, by |-> t.id]
      BY <1>2, <3>1, AfterCommits DEF Content
    <3>3. r = Log(n) /\ r[2] = n
      BY <2>2, <3>2, NamesApart
    <3>4. [id |-> t.id, op |-> t.op, try |-> t.try, got |-> t.got] \in commits'
      BY <1>2 DEF Commits, Lands, Committed
    <3> QED BY <3>1, <3>2, <3>3, <3>4
  <2> QED BY <2>1, <2>2
<1> QED BY <1>1, <1>2, NextIs, CommitCommits DEF Leaves, Opens, Stays

-----------------------------------------------------------------------------
(* Appends.                                                                *)

HasLanded(id) == \E k \in commits : k.id = id

\* The row of an append that landed is there while the call goes on, or was
\* cleared.
AppendThere(t) == t.op = "state_append" /\ HasLanded(t.id) =>
  \/ t.id \in displaced
  \/ \E n \in 1..MaxRows : rows[Log(n)] = [cell |-> t.first, by |-> t.id]

\* An append whose transaction is open has not landed, or its row was cleared.
OpenOnce(t) == t.op = "state_append" /\ t.step = "commit" => t.id \in displaced \/ ~HasLanded(t.id)

AppendInv ==
  /\ \A t \in Transactions : AppendThere(t) /\ OpenOnce(t)
  /\ \A w \in Workers, o \in orphans :
       Busy(w) /\ call[w].op = "state_append" /\ call[w].step = "commit" => o.id # call[w].id
  /\ \A o, p \in orphans : o.op = "state_append" /\ o.id = p.id => o = p
  /\ AppendOnce

\* The attempt ids in the rows of each table.
LEMMA MarksAre ==
  /\ Marks(None) = {}
  /\ \A row \in StateRow : Marks(row) = {<<"put", row.put>>, <<"drained", row.drained>>}
  /\ \A row \in CounterRow \cup LogRow : Marks(row) = {<<"by", row.by>>}
<1>1. Marks(None) = {}
  BY DEF Marks
<1>2. ASSUME NEW row \in StateRow
      PROVE  Marks(row) = {<<"put", row.put>>, <<"drained", row.drained>>}
  <2>1. row # None
    BY NoneIsApart DEF RowTypes
  <2>2. {"put", "drained", "by"} \cap DOMAIN row = {"put", "drained"}
    BY DEF StateRow
  <2>3. Marks(row) = {<<f, row[f]>> : f \in {"put", "drained"}}
    BY <2>1, <2>2 DEF Marks
  <2> QED BY <2>3
<1>3. ASSUME NEW row \in CounterRow \cup LogRow
      PROVE  Marks(row) = {<<"by", row.by>>}
  <2>1. row # None
    BY NoneIsApart DEF RowTypes
  <2>2. {"put", "drained", "by"} \cap DOMAIN row = {"by"}
    BY DEF CounterRow, LogRow
  <2>3. Marks(row) = {<<f, row[f]>> : f \in {"by"}}
    BY <2>1, <2>2 DEF Marks
  <2> QED BY <2>3
<1> QED BY <1>1, <1>2, <1>3

\* An attempt id that a commit takes out of a row is displaced.
LEMMA TakenOut ==
  ASSUME NEW t \in Calls, Lands(t), NEW r \in DOMAIN t.write, NEW f, NEW i \in Ids,
         <<f, i>> \in Marks(rows[r]), <<f, i>> \notin Marks(t.write[r])
  PROVE  i \in displaced'
<1>1. i # None /\ <<f, i>>[2] = i
  BY NoneIsApart
<1>2. <<f, i>> \in UNION {Marks(rows[q]) \ Marks(t.write[q]) : q \in DOMAIN t.write}
  OBVIOUS
<1> QED BY <1>1, <1>2 DEF Lands, Displaced

\* A commit leaves the log row of another call alone, or displaces the call.
LEMMA LogRowStays ==
  ASSUME BaseInv, NEW t \in Calls, Commits(t), NEW u \in Transactions, u.id # t.id,
         NEW n \in 1..MaxRows, rows[Log(n)] = [cell |-> u.first, by |-> u.id]
  PROVE  rows'[Log(n)] = rows[Log(n)] \/ u.id \in displaced'
<1>1. Log(n) \in LogNames /\ Log(n) \in Names
  BY NamesOfTables
<1>2. u.first \in Cells /\ u.id \in Ids
  BY TransactionsAre, CallsAre DEF BaseInv
<1>3. rows[Log(n)] \in LogRow /\ rows[Log(n)] # None
  <2>1. rows[Log(n)] \in LogRow
    BY <1>2 DEF LogRow
  <2> QED BY <2>1, NoneIsApart DEF RowTypes
<1>4. CASE Log(n) \in DOMAIN t.write
  <2>1. t.write[Log(n)] = None
    BY <1>1, <1>3, <1>4, AfterCommits DEF Careful
  <2>2. <<"by", u.id>> \in Marks(rows[Log(n)]) /\ Marks(t.write[Log(n)]) = {}
    BY <1>3, <2>1, MarksAre
  <2> QED BY <1>2, <1>4, <2>2, TakenOut DEF Commits
<1> QED BY <1>1, <1>4, AfterCommits

LEMMA AppendLeaves ==
  ASSUME BaseInv, Identified, Written, AppendInv,
         NEW w \in Workers, NEW c \in Calls \cup {None}, Leaves(w, c)
  PROVE  AppendInv'
<1>1. /\ call'[w] = c /\ \A v \in Workers \ {w} : call'[v] = call[v]
      /\ UNCHANGED <<rows, identity, commits, displaced>>
      /\ \A o \in orphans' : o \in orphans \/ (Busy(w) /\ call[w].step = "commit" /\ o = call[w])
  BY DEF Leaves, Continues, BaseInv, TypeInv
<1>2. \A v \in Workers : v # w /\ Busy(v)' => Busy(v)
  BY <1>1 DEF Busy
<1>3. c # None => c.step # "commit" /\ ((Busy(w) /\ Same(c, call[w])) \/ c.id = calls + 1)
  BY DEF Leaves, Continues
<1>4. \A i : HasLanded(i)' <=> HasLanded(i)
  BY <1>1 DEF HasLanded
<1>5. c # None => AppendThere(c)' /\ OpenOnce(c)'
  <2>1. CASE Busy(w) /\ Same(c, call[w])
    <3>1. AppendThere(call[w])
      BY <2>1, TransactionsAre DEF AppendInv, BaseInv
    <3> QED BY <1>1, <1>3, <1>4, <2>1, <3>1 DEF AppendThere, OpenOnce, Same
  <2>2. CASE c.id = calls + 1
    <3>1. ~HasLanded(c.id)
      BY <2>2, DrawnStays DEF HasLanded, Identified, Drawn, BaseInv, TypeInv
    <3> QED BY <1>3, <1>4, <3>1 DEF AppendThere, OpenOnce
  <2> QED BY <1>3, <2>1, <2>2
<1>6. \A t \in Transactions' : t \in Transactions \/ (c # None /\ t = c)
  BY <1>1, <1>2 DEF Transactions, Busy
<1>7. \A t \in Transactions' : AppendThere(t)' /\ OpenOnce(t)'
  <2>1. \A t \in Transactions : AppendThere(t)' /\ OpenOnce(t)'
    BY <1>1, <1>4 DEF AppendInv, AppendThere, OpenOnce
  <2> QED BY <1>5, <1>6, <2>1
<1>8. ASSUME NEW v \in Workers, NEW o \in orphans', Busy(v)', call'[v].op = "state_append",
             call'[v].step = "commit"
      PROVE  o.id # call'[v].id
  <2>1. v # w /\ Busy(v) /\ call'[v] = call[v]
    BY <1>1, <1>2, <1>3, <1>8 DEF Busy
  <2>2. CASE o \in orphans
    BY <1>8, <2>1, <2>2 DEF AppendInv
  <2>3. CASE Busy(w) /\ o = call[w]
    BY <2>1, <2>3 DEF Identified
  <2> QED BY <1>1, <2>2, <2>3
<1>9. ASSUME NEW o \in orphans', NEW p \in orphans', o.op = "state_append", o.id = p.id
      PROVE  o = p
  <2>1. ASSUME NEW q \in orphans, Busy(w), call[w].step = "commit", q.id = call[w].id,
               q.op = "state_append" \/ call[w].op = "state_append"
        PROVE  FALSE
    <3>1. Same(q, call[w])
      BY <2>1, TransactionsAre DEF Identified, Transactions, BaseInv
    <3> QED BY <2>1, <3>1 DEF AppendInv, Same
  <2> QED BY <1>1, <1>9, <2>1 DEF AppendInv
<1>10. AppendOnce'
  <2>1. ASSUME Busy(w), call[w].op = "state_append",
               NEW got \in Replayed(call[w])
        PROVE  \E k \in commits : k.id = call[w].id /\ k.got = got
    <3>1. got \in {{r[2]} : r \in {l \in LogOf(call[w].first) : rows[l].by = call[w].id}}
      BY <2>1 DEF Replayed
    <3>2. PICK r \in LogNames : rows[r] # None /\ rows[r].by = call[w].id /\ got = {r[2]}
      BY <3>1 DEF LogOf, Present
    <3> QED BY <3>2 DEF Written
  <2>2. \A a \in answers' : a \in answers \/
          (Busy(w) /\ \E got \in Replayed(call[w]) : a = [id |-> call[w].id, op |-> call[w].op, got |-> got])
    BY DEF Leaves
  <2>3. \A a \in answers' : a.op = "state_append" => \E k \in commits : k.id = a.id /\ k.got = a.got
    BY <2>1, <2>2 DEF AppendInv, AppendOnce, OnceBut
  <2> QED BY <1>1, <2>3 DEF AppendInv, AppendOnce, OnceBut
<1> QED BY <1>7, <1>8, <1>9, <1>10 DEF AppendInv

LEMMA AppendOpens ==
  ASSUME BaseInv, Identified, AppendInv,
         NEW w \in Workers, NEW c \in Calls, Opens(w, c), Saw(w, c)
  PROVE  AppendInv'
<1> USE AfterOpens
<1>1. UNCHANGED <<rows, orphans, commits, answers, displaced>> /\ Same(c, call[w]) /\ Busy(w)
  BY DEF Opens
<1>2. \A i : HasLanded(i)' <=> HasLanded(i)
  BY <1>1 DEF HasLanded
<1>3. \A t \in Transactions : AppendThere(t)' /\ OpenOnce(t)'
  BY <1>1, <1>2 DEF AppendInv, AppendThere, OpenOnce
<1>4. c.op = "state_append" => (c.id \in displaced \/ ~HasLanded(c.id)) /\ \A o \in orphans : o.id # c.id
  <2> SUFFICES ASSUME c.op = "state_append"
               PROVE  (c.id \in displaced \/ ~HasLanded(c.id)) /\ \A o \in orphans : o.id # c.id
    OBVIOUS
  <2>1. \A o \in orphans : o.id # c.id
    BY <1>1 DEF Saw, OrphanOf, Same
  <2>2. ASSUME HasLanded(c.id), c.id \notin displaced PROVE FALSE
    <3>1. PICK n \in 1..MaxRows : rows[Log(n)] = [cell |-> call[w].first, by |-> call[w].id]
      BY <1>1, <2>2 DEF AppendInv, AppendThere, Same
    <3>2. Log(n) \in LogNames
      BY NamesOfTables
    <3>3. rows[Log(n)] # None
      <4>1. call[w].first \in Cells /\ call[w].id \in Ids
        BY TransactionsAre, CallsAre DEF BaseInv
      <4>2. [cell |-> call[w].first, by |-> call[w].id] \in RowTypes
        BY <4>1 DEF RowTypes, LogRow
      <4> QED BY <3>1, <4>2, NoneIsApart
    <3>4. Log(n) \in Duplicates(call[w])
      BY <3>1, <3>2, <3>3 DEF Duplicates, LogOf, Present
    <3> QED BY <3>4 DEF Saw
  <2> QED BY <2>1, <2>2
<1>5. AppendThere(c)' /\ OpenOnce(c)'
  <2>1. AppendThere(call[w])
    BY DEF AppendInv
  <2>2. AppendThere(c)
    BY <1>1, <2>1 DEF AppendThere, Same
  <2> QED BY <1>1, <1>2, <1>4, <2>2 DEF AppendThere, OpenOnce
<1>6. \A t \in Transactions' : AppendThere(t)' /\ OpenOnce(t)'
  BY <1>3, <1>5
<1>7. ASSUME NEW v \in Workers, NEW o \in orphans', Busy(v)', call'[v].op = "state_append",
             call'[v].step = "commit"
      PROVE  o.id # call'[v].id
  <2>1. CASE v = w
    BY <1>1, <1>4, <1>7, <2>1
  <2>2. CASE v # w
    BY <1>1, <1>7, <2>2 DEF AppendInv
  <2> QED BY <2>1, <2>2
<1> QED BY <1>1, <1>6, <1>7 DEF AppendInv, AppendOnce, OnceBut

\* No other transaction of an append that commits is open.
LEMMA OneOpenAppend ==
  ASSUME BaseInv, Identified, AppendInv, NEW t \in Calls, Commits(t),
         NEW u \in Transactions', u.id = t.id, t.op = "state_append"
  PROVE  u.step # "commit"
<1> USE AfterCommits
<1>1. u \in Transactions /\ Same(u, t)
  BY DEF Identified, Commits
<1>2. CASE t \in orphans /\ orphans' = orphans \ {t} /\ UNCHANGED call
  <2>1. u \notin orphans'
    BY <1>2 DEF AppendInv
  <2>2. PICK v \in Workers : Busy(v)' /\ u = call'[v]
    BY <2>1 DEF Transactions
  <2> QED BY <1>1, <1>2, <2>2 DEF AppendInv, Same
<1>3. ASSUME NEW w \in Workers, Busy(w), t = call[w], call' = [call EXCEPT ![w] = None],
             UNCHANGED orphans
      PROVE  FALSE
  <2>1. u \notin orphans'
    BY <1>3 DEF AppendInv, Commits
  <2>2. PICK v \in Workers : Busy(v)' /\ u = call'[v]
    BY <2>1 DEF Transactions
  <2>3. v # w /\ Busy(v) /\ u = call[v]
    BY <1>3, <2>2 DEF Busy, BaseInv, TypeInv
  <2> QED BY <1>3, <2>3 DEF Identified
<1> QED BY <1>2, <1>3 DEF Commits

LEMMA AppendCommits ==
  ASSUME BaseInv, Identified, AppendInv, NEW t \in Calls, Commits(t)
  PROVE  AppendInv'
<1> USE AfterCommits
<1> DEFINE k == [id |-> t.id, op |-> t.op, try |-> t.try, got |-> t.got]
<1>1. commits' = commits \cup {k} /\ k.id = t.id /\ k.op = t.op /\ k.got = t.got /\ t \in Transactions
      /\ t.step = "commit" /\ displaced \subseteq displaced'
  BY DEF Commits, Lands, Committed
<1> HIDE DEF k
<1>2. \A i : HasLanded(i)' <=> HasLanded(i) \/ i = t.id
  BY <1>1 DEF HasLanded
<1>3. \A u \in Transactions : u.id = t.id => Same(u, t)
  BY <1>1 DEF Identified
<1>4. ASSUME NEW u \in Transactions', u.id = t.id, t.op = "state_append"
      PROVE  u.step # "commit"
  BY <1>4, OneOpenAppend
<1>5. ASSUME NEW u \in Transactions' PROVE AppendThere(u)' /\ OpenOnce(u)'
  <2>1. u \in Transactions /\ AppendThere(u) /\ OpenOnce(u)
    BY DEF AppendInv
  <2>2. CASE u.id = t.id
    <3>1. ASSUME u.op = "state_append"
          PROVE  \E n \in 1..MaxRows : rows'[Log(n)] = [cell |-> u.first, by |-> u.id]
      <4>1. t.op = "state_append" /\ u.first = t.first
        BY <1>3, <2>1, <2>2, <3>1 DEF Same
      <4>2. PICK n \in 1..MaxRows : /\ DOMAIN t.write = {Log(n)}
                                    /\ t.write[Log(n)] = [cell |-> t.first, by |-> t.id]
        BY <4>1 DEF Content
      <4>3. Log(n) \in Names
        BY NamesOfTables
      <4> QED BY <2>2, <4>1, <4>2, <4>3
    <3>2. u.op = "state_append" => u.step # "commit"
      BY <1>3, <1>4, <2>1, <2>2 DEF Same
    <3> QED BY <3>1, <3>2 DEF AppendThere, OpenOnce
  <2>3. CASE u.id # t.id
    <3>1. HasLanded(u.id)' <=> HasLanded(u.id)
      BY <1>2, <2>3
    <3>2. ASSUME NEW n \in 1..MaxRows, rows[Log(n)] = [cell |-> u.first, by |-> u.id]
          PROVE  u.id \in displaced' \/ rows'[Log(n)] = [cell |-> u.first, by |-> u.id]
      BY <2>1, <2>3, <3>2, LogRowStays
    <3> QED BY <1>1, <2>1, <3>1, <3>2 DEF AppendThere, OpenOnce
  <2> QED BY <2>2, <2>3
<1>6. /\ \A w \in Workers, o \in orphans' :
           Busy(w)' /\ call'[w].op = "state_append" /\ call'[w].step = "commit" => o.id # call'[w].id
      /\ \A o, p \in orphans' : o.op = "state_append" /\ o.id = p.id => o = p
  BY DEF AppendInv
<1>7. AppendOnce'
  <2>1. t.op = "state_append" => t.id \in displaced \/ ~HasLanded(t.id)
    BY <1>1 DEF AppendInv, OpenOnce
  <2>2. ASSUME NEW c \in commits', NEW d \in commits', c.op = "state_append", c.id = d.id, c # d
        PROVE  c.id \in displaced'
    <3>1. CASE c \in commits /\ d \in commits
      BY <1>1, <2>2, <3>1 DEF AppendInv, AppendOnce, OnceBut
    <3>2. ASSUME NEW e \in commits, e.id = t.id, e.op = "state_append" \/ t.op = "state_append"
          PROVE  t.id \in displaced'
      <4>1. e.op = t.op
        BY <1>1, <3>2 DEF Identified
      <4> QED BY <1>1, <2>1, <3>2, <4>1 DEF HasLanded
    <3> QED BY <1>1, <2>2, <3>1, <3>2
  <2>3. \A a \in answers' : a.op = "state_append" => \E c \in commits' : c.id = a.id /\ c.got = a.got
    BY <1>1 DEF Commits, AppendInv, AppendOnce, OnceBut
  <2> QED BY <2>2, <2>3 DEF AppendOnce, OnceBut
<1> QED BY <1>5, <1>6, <1>7 DEF AppendInv

LEMMA AppendStays ==
  ASSUME AppendInv, Stays
  PROVE  AppendInv'
<1>1. \A t \in Transactions' : t \in Transactions
  BY DEF Transactions, Busy, Stays
<1>2. \A t \in Transactions' : AppendThere(t)' /\ OpenOnce(t)'
  BY <1>1 DEF AppendInv, AppendThere, OpenOnce, HasLanded, Stays
<1> QED BY <1>2 DEF AppendInv, AppendOnce, OnceBut, Stays, Busy

KnownInv == BaseInv /\ Identified /\ Written

LEMMA InitKnown == Init => KnownInv /\ AppendInv
<1> SUFFICES ASSUME Init PROVE KnownInv /\ AppendInv
  OBVIOUS
<1>1. Transactions = {} /\ commits = {} /\ answers = {} /\ orphans = {} /\ \A w \in Workers : ~Busy(w)
  BY DEF Init, Transactions, Busy
<1>2. Identified
  BY <1>1 DEF Identified
<1>3. Written
  BY NamesOfTables DEF Init, Written
<1>4. AppendInv
  BY <1>1 DEF AppendInv, AppendOnce, OnceBut
<1> QED BY <1>2, <1>3, <1>4, InitBase DEF KnownInv

LEMMA NextKnown == KnownInv /\ [Next]_vars => KnownInv'
  BY BaseStep, KnownNext, WrittenNext DEF KnownInv

LEMMA NextAppend == KnownInv /\ AppendInv /\ [Next]_vars => AppendInv'
  BY NextIs, CommitCommits, AppendLeaves, AppendOpens, AppendCommits, AppendStays DEF KnownInv

\* A retried append maps back to the row it inserted, however late its first
\* try lands (state_append, the replay index); only a call whose row a clear
\* has removed can insert again.
THEOREM AppendsAreOnce == Spec => []AppendOnce
<1>1. Init => KnownInv /\ AppendInv
  BY InitKnown
<1>2. KnownInv /\ AppendInv /\ [Next]_vars => (KnownInv /\ AppendInv)'
  BY NextKnown, NextAppend
<1>3. AppendInv => AppendOnce
  BY DEF AppendInv
<1> QED BY <1>1, <1>2, <1>3, PTL DEF Spec

-----------------------------------------------------------------------------
(* The tail of a log.                                                      *)

\* An append that is open will land after the cursor of every reader that has
\* not overtaken it.
Ahead(t) == t.op = "state_append" /\ t.step = "commit" =>
  \A n \in 1..MaxRows, w \in Workers :
    Log(n) \in DOMAIN t.write => cursor[w][t.first] < n \/ Log(n) \in overtaken[w]

TailInv ==
  /\ cursor \in [Workers -> [Cells -> Int]] /\ seen \in [Workers -> SUBSET LogNames]
  /\ overtaken \in [Workers -> SUBSET LogNames]
  /\ \A t \in Transactions : Ahead(t)
  /\ \A w \in Workers, c \in Cells : cursor[w][c] <= identity.log
  /\ TailComplete

LEMMA LogNumbers ==
  ASSUME BaseInv
  PROVE  /\ \A r \in LogNames : r[2] \in Nat /\ r[2] >= 1
         /\ \A r \in LogNames : rows[r] # None => rows[r].cell \in Cells /\ r[2] <= identity.log
         /\ identity.log \in Nat
<1>1. \A r \in LogNames : r[2] \in Nat /\ r[2] >= 1
  BY NamesOfTables, Bounds
<1>2. \A r \in LogNames : rows[r] # None => rows[r].cell \in Cells
  BY NamesOfTables DEF BaseInv, TypeInv, Typed, LogRow
<1>3. \A r \in LogNames : rows[r] # None => r[2] <= identity.log
  BY NamesOfTables DEF BaseInv, Orders, Numbered
<1> QED BY <1>1, <1>2, <1>3 DEF BaseInv, TypeInv

LEMMA LeavesTransactions ==
  ASSUME BaseInv, NEW w \in Workers, NEW c \in Calls \cup {None}, Leaves(w, c)
  PROVE  \A t \in Transactions' : t \in Transactions \/ t.step # "commit"
<1>1. /\ call'[w] = c /\ \A v \in Workers \ {w} : call'[v] = call[v]
      /\ \A o \in orphans' : o \in orphans \/ (Busy(w) /\ o = call[w])
      /\ c # None => c.step # "commit"
  BY DEF Leaves, Continues, BaseInv, TypeInv
<1> QED BY <1>1 DEF Transactions, Busy

LEMMA TailLeaves ==
  ASSUME BaseInv, TailInv, NEW w \in Workers, NEW c \in Calls \cup {None}, Leaves(w, c)
  PROVE  TailInv'
<1>1. UNCHANGED <<rows, identity>> /\ (UNCHANGED reading \/ Forgets(w))
  BY DEF Leaves
<1>2. \A t \in Transactions' : t \in Transactions \/ t.step # "commit"
  BY LeavesTransactions
<1>3. CASE UNCHANGED reading
  <2>1. \A t \in Transactions' : Ahead(t)'
    BY <1>1, <1>2, <1>3 DEF TailInv, Ahead
  <2> QED BY <1>1, <1>3, <2>1 DEF TailInv, TailComplete, Present
<1>4. CASE Forgets(w)
  <2>1. /\ cursor' \in [Workers -> [Cells -> Int]] /\ seen' \in [Workers -> SUBSET LogNames]
        /\ overtaken' \in [Workers -> SUBSET LogNames]
        /\ \A x \in Cells : cursor'[w][x] = -1
        /\ \A v \in Workers \ {w} :
             cursor'[v] = cursor[v] /\ seen'[v] = seen[v] /\ overtaken'[v] = overtaken[v]
    BY <1>4 DEF Forgets, TailInv
  <2>2. \A n \in 1..MaxRows : -1 < n
    BY Bounds
  <2>3. ASSUME NEW t \in Transactions PROVE Ahead(t)'
    <3>1. t.first \in Cells
      BY TransactionsAre, CallsAre DEF BaseInv
    <3>2. \A n \in 1..MaxRows, v \in Workers :
            cursor[v][t.first] < n \/ Log(n) \in overtaken[v] =>
              cursor'[v][t.first] < n \/ Log(n) \in overtaken'[v]
      BY <2>1, <2>2, <3>1
    <3> QED BY <3>2 DEF TailInv, Ahead
  <2>4. \A t \in Transactions' : Ahead(t)'
    BY <1>2, <2>3 DEF Ahead
  <2>5. \A v \in Workers, x \in Cells : cursor'[v][x] <= identity'.log
    <3>1. -1 <= identity.log
      BY LogNumbers
    <3> QED BY <1>1, <2>1, <3>1 DEF TailInv
  <2>6. ASSUME NEW v \in Workers, NEW r \in Present(LogNames)', r[2] <= cursor'[v][rows'[r].cell]
        PROVE  r \in seen'[v] \cup overtaken'[v]
    <3>1. r \in Present(LogNames) /\ rows[r].cell \in Cells /\ ~(r[2] <= -1)
      BY <1>1, LogNumbers DEF Present
    <3> QED BY <1>1, <2>1, <2>6, <3>1 DEF TailInv, TailComplete
  <2> QED BY <2>1, <2>4, <2>5, <2>6 DEF TailInv, TailComplete
<1> QED BY <1>1, <1>3, <1>4

LEMMA TailOpens ==
  ASSUME BaseInv, TailInv, NEW w \in Workers, NEW c \in Calls, Opens(w, c), Saw(w, c)
  PROVE  TailInv'
<1> USE AfterOpens
<1>1. /\ UNCHANGED <<rows, reading>> /\ identity.log <= identity'.log
      /\ identity.log \in Nat /\ identity'.log \in Nat
  BY DEF Opens, BaseInv, TypeInv
<1>2. \A t \in Transactions : Ahead(t)'
  BY <1>1 DEF TailInv, Ahead
<1>3. Ahead(c)'
  <2> SUFFICES ASSUME c.op = "state_append", NEW n \in 1..MaxRows, NEW v \in Workers,
                      Log(n) \in DOMAIN c.write
               PROVE  cursor[v][c.first] < n
    BY <1>1 DEF Ahead
  <2>1. n = identity.log + 1
    BY NamesApart DEF Saw
  <2>2. cursor[v][c.first] \in Int /\ cursor[v][c.first] <= identity.log
    BY CallsAre DEF TailInv
  <2> QED BY <1>1, <2>1, <2>2
<1>4. \A t \in Transactions' : Ahead(t)'
  BY <1>2, <1>3
<1>5. \A v \in Workers, x \in Cells : cursor'[v][x] <= identity'.log
  <2>1. \A v \in Workers, x \in Cells : cursor[v][x] \in Int /\ cursor[v][x] <= identity.log
    BY DEF TailInv
  <2>2. \A i \in Int : i <= identity.log => i <= identity'.log
    BY <1>1
  <2> QED BY <1>1, <2>1, <2>2
<1> QED BY <1>1, <1>4, <1>5 DEF TailInv, TailComplete, Present

LEMMA TailCommits ==
  ASSUME BaseInv, TailInv, NEW t \in Calls, Commits(t)
  PROVE  TailInv'
<1> USE AfterCommits
<1>1. UNCHANGED <<identity, reading>> /\ t \in Transactions /\ t.step = "commit"
  BY DEF Commits
\* A row the commit inserts.
<1>2. ASSUME NEW r \in LogNames, rows'[r] # None, rows'[r] # rows[r]
      PROVE  /\ rows'[r].cell = t.first
             /\ \A v \in Workers : cursor[v][t.first] < r[2] \/ r \in overtaken[v]
  <2>1. r \in DOMAIN t.write /\ rows'[r] = t.write[r] /\ t.op = "state_append"
    <3>1. r \in Names /\ r \in DOMAIN t.write /\ rows'[r] = t.write[r]
      BY <1>2, NamesOfTables
    <3>2. t.write[r] # None
      BY <1>2, <3>1
    <3> QED BY <3>1, <3>2 DEF Content
  <2>2. PICK n \in 1..MaxRows : DOMAIN t.write = {Log(n)} /\ t.write[Log(n)] = [cell |-> t.first, by |-> t.id]
    BY <2>1 DEF Content
  <2>3. r = Log(n) /\ r[2] = n
    BY <2>1, <2>2, NamesApart
  <2> QED BY <1>1, <2>1, <2>2, <2>3 DEF TailInv, Ahead
<1>3. \A u \in Transactions' : Ahead(u)'
  BY <1>1 DEF TailInv, Ahead
<1>4. ASSUME NEW v \in Workers, NEW r \in Present(LogNames)', r[2] <= cursor'[v][rows'[r].cell]
      PROVE  r \in seen'[v] \cup overtaken'[v]
  <2>1. r \in LogNames /\ rows'[r] # None /\ r[2] \in Nat
    BY LogNumbers DEF Present
  <2>2. CASE rows'[r] = rows[r]
    BY <1>1, <1>4, <2>1, <2>2 DEF TailInv, TailComplete, Present
  <2>3. CASE rows'[r] # rows[r]
    <3>1. t.first \in Cells
      BY CallsAre
    <3>2. cursor[v][t.first] \in Int /\ r[2] <= cursor[v][t.first]
      BY <1>1, <1>2, <1>4, <2>1, <2>3, <3>1 DEF TailInv
    <3>3. ~(cursor[v][t.first] < r[2])
      BY <2>1, <3>2
    <3> QED BY <1>1, <1>2, <2>1, <2>3, <3>3
  <2> QED BY <2>2, <2>3
<1> QED BY <1>1, <1>3, <1>4 DEF TailInv, TailComplete

LEMMA TailScans ==
  ASSUME BaseInv, TailInv, NEW w \in Workers, state_log_scan(w)
  PROVE  TailInv'
<1>1. PICK c \in Cells, last \in LogNames :
        /\ last \in After(w, c)
        /\ cursor' = [cursor EXCEPT ![w][c] = last[2]]
        /\ seen' = [seen EXCEPT ![w] = @ \cup {r \in After(w, c) : r[2] <= last[2]}]
        /\ overtaken' = [overtaken EXCEPT ![w] = @ \cup {r \in Uncommitted(c) : r[2] < last[2]}]
  BY DEF state_log_scan, After, LogOf, Present
<1>2. /\ UNCHANGED <<rows, identity, call, orphans>>
      /\ rows[last] # None /\ rows[last].cell = c /\ last[2] \in Nat /\ last[2] <= identity.log
  BY <1>1, LogNumbers DEF state_log_scan, After, LogOf, Present
<1>3. /\ cursor' \in [Workers -> [Cells -> Int]] /\ cursor'[w][c] = last[2]
      /\ \A v \in Workers, x \in Cells : v # w \/ x # c => cursor'[v][x] = cursor[v][x]
  BY <1>1, <1>2 DEF TailInv
<1>4. /\ seen' \in [Workers -> SUBSET LogNames]
      /\ seen'[w] = seen[w] \cup {r \in After(w, c) : r[2] <= last[2]}
      /\ \A v \in Workers \ {w} : seen'[v] = seen[v]
  <2>1. After(w, c) \subseteq LogNames
    BY DEF After, LogOf, Present
  <2> QED BY <1>1, <2>1 DEF TailInv
<1>4a. /\ overtaken' \in [Workers -> SUBSET LogNames]
       /\ overtaken'[w] = overtaken[w] \cup {r \in Uncommitted(c) : r[2] < last[2]}
       /\ \A v \in Workers : overtaken[v] \subseteq overtaken'[v]
  <2>1. Uncommitted(c) \subseteq LogNames
    BY DEF Uncommitted
  <2> QED BY <1>1, <2>1 DEF TailInv
\* The reader passes the rows that are not committed yet, or stays behind them.
<1>5. ASSUME NEW t \in Transactions' PROVE Ahead(t)'
  <2>1. t \in Transactions /\ t.first \in Cells
    BY <1>2, TransactionsAre, CallsAre DEF Transactions, Busy, BaseInv
  <2> SUFFICES ASSUME t.op = "state_append", t.step = "commit", NEW n \in 1..MaxRows, NEW v \in Workers,
                      Log(n) \in DOMAIN t.write
               PROVE  cursor'[v][t.first] < n \/ Log(n) \in overtaken'[v]
    BY DEF Ahead
  <2>2. cursor[v][t.first] < n \/ Log(n) \in overtaken[v]
    BY <2>1 DEF TailInv, Ahead
  <2>3. CASE v # w \/ t.first # c
    BY <1>3, <1>4a, <2>1, <2>2, <2>3
  <2>4. CASE v = w /\ t.first = c
    <3>1. t.write[Log(n)] # None /\ Log(n) \in LogNames /\ Log(n)[2] = n /\ n \in Nat
      <4>1. WellFormed(t) /\ Content(t) /\ Log(n) \in LogNames
        BY <2>1, NamesOfTables DEF BaseInv, Orders, WellFormed
      <4> QED BY <4>1, NamesApart, Bounds DEF Content
    <3>2. Log(n) \in Uncommitted(c)
      BY <2>1, <2>4, <3>1 DEF Uncommitted
    <3>3. last # Log(n)
      <4>1. rows[Log(n)] = None
        BY <2>1, <3>1 DEF BaseInv, Orders, Careful
      <4> QED BY <1>2, <4>1
    <3>4. last[2] # n
      BY <3>3, NamesOfTables
    <3>5. CASE n < last[2]
      BY <1>4a, <2>4, <3>1, <3>2, <3>5
    <3>6. CASE last[2] < n
      BY <1>3, <2>4, <3>6
    <3> QED BY <1>2, <3>1, <3>4, <3>5, <3>6
  <2> QED BY <2>3, <2>4
<1>6. \A v \in Workers, x \in Cells : cursor'[v][x] <= identity'.log
  BY <1>2, <1>3 DEF TailInv
<1>7. ASSUME NEW v \in Workers, NEW r \in Present(LogNames)', r[2] <= cursor'[v][rows'[r].cell]
      PROVE  r \in seen'[v] \cup overtaken'[v]
  <2>1. r \in Present(LogNames) /\ r \in LogNames /\ rows[r].cell \in Cells /\ r[2] \in Nat /\ rows[r] # None
    BY <1>2, LogNumbers DEF Present
  <2>2. CASE v = w /\ rows[r].cell = c
    <3>1. r[2] <= last[2]
      BY <1>2, <1>3, <1>7, <2>2
    <3>2. CASE r[2] <= cursor[w][c]
      BY <1>4, <1>4a, <2>1, <2>2, <3>2 DEF TailInv, TailComplete
    <3>3. CASE ~(r[2] <= cursor[w][c])
      <4>1. r[2] > cursor[w][c]
        <5>1. cursor[w][c] \in Int
          BY DEF TailInv
        <5> QED BY <2>1, <3>3, <5>1
      <4>2. r \in After(w, c)
        BY <2>1, <2>2, <4>1 DEF After, LogOf
      <4> QED BY <1>4, <2>2, <3>1, <4>2
    <3> QED BY <3>2, <3>3
  <2>3. CASE v # w \/ rows[r].cell # c
    <3>1. r[2] <= cursor[v][rows[r].cell]
      BY <1>2, <1>3, <1>7, <2>1, <2>3
    <3>2. r \in seen[v] \cup overtaken[v]
      BY <2>1, <3>1 DEF TailInv, TailComplete
    <3> QED BY <1>4, <1>4a, <3>2
  <2> QED BY <2>2, <2>3
<1> QED BY <1>3, <1>4, <1>4a, <1>5, <1>6, <1>7 DEF TailInv, TailComplete

LEMMA NextTail == BaseInv /\ TailInv /\ [Next]_vars => TailInv'
<1> SUFFICES ASSUME BaseInv, TailInv, [Next]_vars PROVE TailInv'
  OBVIOUS
<1>1. CASE Stays /\ UNCHANGED reading
  <2>1. \A t \in Transactions' : Ahead(t)'
    BY <1>1 DEF TailInv, Ahead, Stays, Transactions, Busy
  <2> QED BY <1>1, <2>1 DEF TailInv, TailComplete, Present, Stays
<1>2. ASSUME NEW w \in Workers, state_log_scan(w) PROVE TailInv'
  BY <1>2, TailScans
<1>3. CASE Stays
  BY <1>1, <1>2, <1>3 DEF Stays
<1> QED BY <1>3, NextIs, CommitCommits, TailLeaves, TailOpens, TailCommits

LEMMA InitTail == Init => TailInv
<1> SUFFICES ASSUME Init PROVE TailInv
  OBVIOUS
<1>1. Transactions = {}
  BY DEF Init, Transactions, Busy
<1>2. TailComplete
  BY NamesOfTables DEF Init, TailComplete, Present
<1> QED BY <1>1, <1>2 DEF Init, TailInv

\* A reader that goes on from the last id it was given misses only rows that
\* were not committed when it read a younger one (state_log_scan, after_id).
THEOREM TailsAreComplete == Spec => []TailComplete
<1>1. Init => BaseInv /\ TailInv
  BY InitBase, InitTail
<1>2. BaseInv /\ TailInv /\ [Next]_vars => (BaseInv /\ TailInv)'
  BY BaseStep, NextTail
<1>3. TailInv => TailComplete
  BY DEF TailInv
<1> QED BY <1>1, <1>2, <1>3, PTL DEF Spec

-----------------------------------------------------------------------------
(* Puts, adds and drains, of calls that are not disturbed.                 *)

Got(id) == UNION {k.got : k \in {d \in commits : d.id = id}}

\* The effect of a call that landed is where the call's SELECT looks for it.
PutThere(t) == t.op = "state_put_many" /\ HasLanded(t.id) =>
  \A x \in t.cells : rows[KV(x)] # None /\ rows[KV(x)].put = t.id
AddThere(t) == t.op = "state_counter_add" /\ HasLanded(t.id) =>
  rows[Count(t.first)] # None /\ rows[Count(t.first)].by = t.id
DrainThere(t) == t.op = "state_drain" => Got(t.id) = Values(Tombstoned(t))

\* A call that found no effect of its own has had none.
Fresh(t) == t.step # "check" =>
  /\ t.op \in {"state_put_many", "state_counter_add"} => ~HasLanded(t.id)
  /\ t.op = "state_drain" => Tombstoned(t) = {}

Landed(t) == PutThere(t) /\ AddThere(t) /\ DrainThere(t) /\ Fresh(t)

\* A tombstone is of a drain that got the value, and a counter's mark of the
\* add that made the value.
Marked ==
  /\ \A x \in Cells : rows[KV(x)] # None => rows[KV(x)].drained = None \/
       \E k \in commits : k.op = "state_drain" /\ k.id = rows[KV(x)].drained
                          /\ <<x, rows[KV(x)].put>> \in k.got
  /\ \A r \in CounterNames : rows[r] # None => rows[r].by = None \/
       \E k \in commits : k.op = "state_counter_add" /\ k.id = rows[r].by /\ k.got = {rows[r].n}

\* No other try of a call that writes is open, and none of one that is over.
Alone ==
  /\ \A w \in Workers, o \in orphans :
       Busy(w) /\ call[w].op \in Attempted /\ call[w].step # "check" /\ o.id = call[w].id
         => o.id \in Disturbed
  /\ \A o, p \in orphans : o.op \in Attempted /\ o.id = p.id /\ o # p => o.id \in Disturbed
  /\ \A a \in answers, t \in Transactions :
       a.op = "state_drain" /\ a.id = t.id => a.id \in Disturbed

LandInv ==
  /\ \A t \in Transactions : t.id \in Disturbed \/ Landed(t)
  /\ Marked /\ Alone
  /\ AddTwiceOnlyIfDisturbed /\ PutOnce /\ DrainAnswered

\* What a drain's rows hold its tries have got.
LEMMA TombstonesAreGot ==
  ASSUME Marked, Identified, NEW t \in Calls
  PROVE  Values(Tombstoned(t)) \subseteq Got(t.id)
<1> SUFFICES ASSUME NEW x \in Tombstoned(t) PROVE <<x, rows[KV(x)].put>> \in Got(t.id)
  BY DEF Values
<1>1. x \in Cells /\ rows[KV(x)] # None /\ rows[KV(x)].drained = t.id /\ t.id # None
  BY CallsAre, NoneIsApart DEF Tombstoned
<1>2. PICK k \in commits : k.id = t.id /\ <<x, rows[KV(x)].put>> \in k.got
  BY <1>1 DEF Marked
<1> QED BY <1>2 DEF Got

LEMMA SameThere ==
  ASSUME NEW t, NEW u, Same(t, u)
  PROVE  /\ PutThere(t) <=> PutThere(u)
         /\ AddThere(t) <=> AddThere(u)
         /\ DrainThere(t) <=> DrainThere(u)
         /\ Tombstoned(t) = Tombstoned(u)
<1>1. t.op = u.op /\ t.cells = u.cells /\ t.first = u.first /\ t.id = u.id
  BY DEF Same
<1>2. Tombstoned(t) = Tombstoned(u)
  BY <1>1 DEF Tombstoned
<1>3. PutThere(t) <=> PutThere(u)
  BY <1>1 DEF PutThere
<1>4. AddThere(t) <=> AddThere(u)
  BY <1>1 DEF AddThere
<1>5. DrainThere(t) <=> DrainThere(u)
  BY <1>1, <1>2 DEF DrainThere
<1> QED BY <1>2, <1>3, <1>4, <1>5

\* A new call has left no trace.
LEMMA NewThere ==
  ASSUME BaseInv, Identified, Marked, NEW t \in Calls, t.id = calls + 1
  PROVE  PutThere(t) /\ AddThere(t) /\ DrainThere(t) /\ Fresh(t)
<1>1. \A i : Drawn(i) => i # t.id
  BY DrawnStays DEF BaseInv, TypeInv, Drawn
<1>2. ~HasLanded(t.id) /\ {d \in commits : d.id = t.id} = {}
  BY <1>1 DEF HasLanded, Identified
<1>3. Tombstoned(t) = {}
  <2>1. ASSUME NEW x \in t.cells, rows[KV(x)] # None, rows[KV(x)].drained = t.id PROVE FALSE
    <3>1. x \in Cells /\ t.id # None
      BY CallsAre, NoneIsApart
    <3>2. PICK k \in commits : k.id = t.id
      BY <2>1, <3>1 DEF Marked
    <3> QED BY <1>1, <3>2 DEF Identified
  <2> QED BY <2>1 DEF Tombstoned
<1>4. Got(t.id) = {}
  BY <1>2 DEF Got
<1>5. Values(Tombstoned(t)) = {}
  BY <1>3 DEF Values
<1>6. PutThere(t) /\ AddThere(t)
  BY <1>2 DEF PutThere, AddThere
<1>7. DrainThere(t)
  BY <1>4, <1>5 DEF DrainThere
<1>8. Fresh(t)
  BY <1>2, <1>3 DEF Fresh
<1> QED BY <1>6, <1>7, <1>8

\* A SELECT that returns no row: the call has had no effect.
LEMMA NotReplayed ==
  ASSUME NEW t, t.first \in t.cells, t.op \in Attempted, Replayed(t) = {},
         PutThere(t), AddThere(t)
  PROVE  /\ t.op \in {"state_put_many", "state_counter_add"} => ~HasLanded(t.id)
         /\ t.op = "state_drain" => Tombstoned(t) = {}
<1>1. CASE t.op = "state_put_many"
  <2>1. ASSUME HasLanded(t.id) PROVE FALSE
    <3>1. rows[KV(t.first)] # None /\ rows[KV(t.first)].put = t.id
      BY <1>1, <2>1 DEF PutThere
    <3>2. t.first \in {y \in {t.first} : rows[KV(y)] # None /\ rows[KV(y)].put = t.id}
      BY <3>1
    <3>3. Replayed(t) = {{} : x \in {y \in {t.first} : rows[KV(y)] # None /\ rows[KV(y)].put = t.id}}
      BY <1>1 DEF Replayed
    <3> QED BY <3>2, <3>3
  <2> QED BY <1>1, <2>1
<1>2. CASE t.op = "state_counter_add"
  <2>1. ASSUME HasLanded(t.id) PROVE FALSE
    <3>1. rows[Count(t.first)] # None /\ rows[Count(t.first)].by = t.id
      BY <1>2, <2>1 DEF AddThere
    <3>2. Replayed(t) = {{rows[Count(x)].n} : x \in
            {y \in {t.first} : rows[Count(y)] # None /\ rows[Count(y)].by = t.id}}
      BY <1>2 DEF Replayed
    <3> QED BY <3>1, <3>2
  <2> QED BY <1>2, <2>1
<1>3. CASE t.op = "state_drain"
  <2>1. Replayed(t) = {Values(Tombstoned(t)) : x \in {u \in {t} : Tombstoned(u) # {}}}
    BY <1>3 DEF Replayed
  <2> QED BY <1>3, <2>1
<1>4. CASE t.op \notin {"state_put_many", "state_counter_add", "state_drain"}
  BY <1>4
<1> QED BY <1>1, <1>2, <1>3, <1>4

LEMMA StillThere ==
  ASSUME UNCHANGED <<rows, commits>>, NEW t
  PROVE  /\ PutThere(t)' <=> PutThere(t)
         /\ AddThere(t)' <=> AddThere(t)
         /\ DrainThere(t)' <=> DrainThere(t)
         /\ Fresh(t)' <=> Fresh(t)
<1>1. HasLanded(t.id)' <=> HasLanded(t.id)
  BY DEF HasLanded
<1>2. Got(t.id)' = Got(t.id)
  BY DEF Got
<1>3. Tombstoned(t)' = Tombstoned(t) /\ Values(Tombstoned(t))' = Values(Tombstoned(t))
  BY DEF Tombstoned, Values
<1>4. PutThere(t)' <=> PutThere(t)
  BY <1>1 DEF PutThere
<1>5. AddThere(t)' <=> AddThere(t)
  BY <1>1 DEF AddThere
<1>6. DrainThere(t)' <=> DrainThere(t)
  BY <1>2, <1>3 DEF DrainThere
<1>7. Fresh(t)' <=> Fresh(t)
  BY <1>1, <1>3 DEF Fresh
<1> QED BY <1>4, <1>5, <1>6, <1>7

LEMMA MarkedStays ==
  ASSUME Marked, UNCHANGED rows, commits \subseteq commits'
  PROVE  Marked'
  BY DEF Marked

LEMMA LandLeaves ==
  ASSUME BaseInv, Identified, LandInv,
         NEW w \in Workers, NEW c \in Calls \cup {None}, Leaves(w, c)
  PROVE  LandInv'
<1>1. /\ call'[w] = c /\ \A v \in Workers \ {w} : call'[v] = call[v]
      /\ UNCHANGED <<rows, commits>> /\ Disturbed \subseteq Disturbed'
      /\ \A o \in orphans' : o \in orphans \/ (Busy(w) /\ call[w].step = "commit" /\ o = call[w])
      /\ calls' = calls \/ calls' = calls + 1
  BY DEF Leaves, Continues, BaseInv, TypeInv, Disturbed
<1>2. \A v \in Workers : v # w /\ Busy(v)' => Busy(v)
  BY <1>1 DEF Busy
<1>3. c # None => /\ c.step # "commit" /\ c \in Calls
                  /\ (Busy(w) /\ Same(c, call[w])) \/ (~Busy(w) /\ c.id = calls + 1)
  BY DEF Leaves, Continues
<1>4. c # None /\ c.step # "check" /\ c.op \in Attempted =>
        /\ Busy(w) /\ Same(c, call[w]) /\ Replayed(call[w]) = {} /\ orphans' = orphans
        /\ \A o \in orphans : o.id = call[w].id => o.id \in Disturbed'
  <2>1. c # None => c.step \in {"check", "write", "commit"}
    BY <1>3, CallsAre DEF Steps
  <2> QED BY <1>3, <2>1 DEF Leaves, Disturbed
<1>5. \A t \in Transactions' : t \in Transactions \/ (c # None /\ t = c)
  BY <1>1, <1>2 DEF Transactions, Busy
<1>6. c # None => c.id \in Disturbed \/ Landed(c)
  <2> SUFFICES ASSUME c # None, c.id \notin Disturbed PROVE Landed(c)
    OBVIOUS
  <2>1. CASE Busy(w) /\ Same(c, call[w])
    <3>1. call[w] \in Transactions /\ call[w].first \in call[w].cells /\ call[w].id = c.id
      BY <2>1, TransactionsAre DEF BaseInv, Orders, WellFormed, Scoped, Same
    <3>2. PutThere(call[w]) /\ AddThere(call[w]) /\ DrainThere(call[w])
      BY <3>1 DEF LandInv, Landed
    <3>3. PutThere(c) /\ AddThere(c) /\ DrainThere(c) /\ Tombstoned(c) = Tombstoned(call[w])
      BY <2>1, <3>2, SameThere
    <3>4. ASSUME c.step # "check", c.op \in Attempted PROVE Fresh(c)
      <4>1. Replayed(call[w]) = {} /\ call[w].op = c.op /\ call[w].id = c.id
        BY <1>4, <2>1, <3>4 DEF Same
      <4>2. /\ call[w].op \in {"state_put_many", "state_counter_add"} => ~HasLanded(call[w].id)
            /\ call[w].op = "state_drain" => Tombstoned(call[w]) = {}
        BY <3>1, <3>2, <3>4, <4>1, NotReplayed
      <4> QED BY <3>3, <4>1, <4>2 DEF Fresh
    <3>5. Fresh(c)
      BY <3>4 DEF Fresh, Attempted
    <3> QED BY <3>3, <3>5 DEF Landed
  <2>2. CASE c.id = calls + 1
    BY <1>3, <2>2, NewThere DEF LandInv, Landed
  <2> QED BY <1>3, <2>1, <2>2
<1>7. \A t \in Transactions' : t.id \in Disturbed' \/ Landed(t)'
  <2>1. \A t \in Transactions' : t.id \in Disturbed \/ Landed(t)
    BY <1>5, <1>6 DEF LandInv
  <2>2. \A t : Landed(t) => Landed(t)'
    BY <1>1, StillThere DEF Landed
  <2> QED BY <1>1, <2>1, <2>2
<1>8. Marked'
  BY <1>1, MarkedStays DEF LandInv
<1>10. ASSUME NEW a \in answers', a \notin answers
       PROVE  /\ Busy(w) /\ c = None /\ orphans' = orphans
              /\ a.id = call[w].id /\ a.op = call[w].op
              /\ a.got \in Replayed(call[w])
  BY <1>10 DEF Leaves
<1>14. ASSUME NEW a \in answers', a \notin answers, a.op = "state_drain"
       PROVE  /\ Busy(w) /\ call[w] \in Calls /\ call[w].op = "state_drain"
              /\ Tombstoned(call[w]) # {} /\ a.got = Values(Tombstoned(call[w]))
  <2>1. Busy(w) /\ call[w].op = "state_drain" /\ a.got \in Replayed(call[w]) /\ call[w] \in Calls
    BY <1>10, <1>14, TransactionsAre DEF BaseInv
  <2>2. Replayed(call[w]) =
          {Values(Tombstoned(call[w])) : x \in {t \in {call[w]} : Tombstoned(t) # {}}}
    BY <2>1 DEF Replayed
  <2> QED BY <2>1, <2>2
<1>9. Alone'
  <2>1. ASSUME NEW v \in Workers, NEW o \in orphans', Busy(v)', call'[v].op \in Attempted,
               call'[v].step # "check", o.id = call'[v].id
        PROVE  o.id \in Disturbed'
    <3>1. CASE v = w
      <4>1. c # None /\ call'[v] = c /\ c.step # "check" /\ c.op \in Attempted
        BY <1>1, <2>1, <3>1 DEF Busy
      <4> QED BY <1>4, <2>1, <4>1 DEF Same
    <3>2. CASE v # w
      <4>1. Busy(v) /\ call'[v] = call[v]
        BY <1>1, <1>2, <2>1, <3>2
      <4>2. CASE o \in orphans
        BY <1>1, <2>1, <4>1, <4>2 DEF LandInv, Alone
      <4>3. CASE Busy(w) /\ o = call[w]
        BY <2>1, <3>2, <4>1, <4>3 DEF Identified
      <4> QED BY <1>1, <4>2, <4>3
    <3> QED BY <3>1, <3>2
  <2>2. ASSUME NEW o \in orphans', NEW p \in orphans', o.op \in Attempted, o.id = p.id, o # p
        PROVE  o.id \in Disturbed'
    <3>1. ASSUME NEW q \in orphans, Busy(w), call[w].step = "commit", q.id = call[w].id,
                 q.op \in Attempted \/ call[w].op \in Attempted
          PROVE  q.id \in Disturbed
      <4>1. Same(q, call[w])
        BY <3>1, TransactionsAre DEF Identified, Transactions, BaseInv
      <4> QED BY <3>1, <4>1 DEF LandInv, Alone, Same
    <3> QED BY <1>1, <2>2, <3>1 DEF LandInv, Alone
  <2>3. ASSUME NEW a \in answers', NEW t \in Transactions', a.op = "state_drain", a.id = t.id
        PROVE  a.id \in Disturbed'
    <3>1. CASE a \in answers
      <4>1. CASE t \in Transactions
        BY <1>1, <2>3, <3>1, <4>1 DEF LandInv, Alone
      <4>2. CASE c # None /\ t = c /\ Busy(w) /\ Same(c, call[w])
        <5>1. call[w] \in Transactions /\ a.id = call[w].id
          BY <2>3, <4>2, TransactionsAre DEF Same, BaseInv
        <5> QED BY <1>1, <2>3, <3>1, <5>1 DEF LandInv, Alone
      <4>3. CASE c # None /\ t = c /\ c.id = calls + 1
        BY <2>3, <3>1, <4>3, DrawnStays DEF Identified, Drawn, BaseInv, TypeInv
      <4> QED BY <1>3, <1>5, <4>1, <4>2, <4>3
    <3>2. CASE a \notin answers
      <4>1. /\ Busy(w) /\ c = None /\ orphans' = orphans /\ a.id = call[w].id
            /\ call[w].op = "state_drain" /\ Tombstoned(call[w]) # {}
        BY <1>10, <1>14, <2>3, <3>2
      <4>2. t \in orphans \/ \E v \in Workers \ {w} : Busy(v) /\ t = call[v]
        BY <1>1, <1>2, <4>1 DEF Transactions, Busy
      <4>3. t \in orphans
        BY <2>3, <4>1, <4>2 DEF Identified
      <4>4. t \in Transactions /\ call[w] \in Transactions /\ t.step = "commit"
        BY <4>1, <4>3 DEF Transactions, BaseInv, Orders
      <4>5. Same(t, call[w])
        BY <2>3, <4>1, <4>4 DEF Identified
      <4>6. Tombstoned(t) = Tombstoned(call[w]) /\ t.op = "state_drain"
        BY <4>1, <4>5, SameThere DEF Same
      <4>7. ~Fresh(t)
        BY <4>1, <4>4, <4>6 DEF Fresh
      <4> QED BY <1>1, <2>3, <4>4, <4>7 DEF LandInv, Landed
    <3> QED BY <3>1, <3>2
  <2> QED BY <2>1, <2>2, <2>3 DEF Alone
<1>11. AddTwiceOnlyIfDisturbed'
  <2>1. ASSUME NEW a \in answers', a.op = "state_counter_add"
        PROVE  \E k \in commits : k.id = a.id /\ k.got = a.got
    <3>1. CASE a \in answers
      BY <2>1, <3>1 DEF LandInv, AddTwiceOnlyIfDisturbed, OnceBut
    <3>2. CASE a \notin answers
      <4>1. Busy(w) /\ a.id = call[w].id /\ call[w].op = "state_counter_add" /\ a.got \in Replayed(call[w])
        BY <1>10, <2>1, <3>2
      <4>2. a.got \in {{rows[Count(x)].n} : x \in
              {y \in {call[w].first} : rows[Count(y)] # None /\ rows[Count(y)].by = call[w].id}}
        BY <4>1 DEF Replayed
      <4>3. PICK r \in CounterNames : rows[r] # None /\ rows[r].by = call[w].id /\ a.got = {rows[r].n}
        <5>1. Count(call[w].first) \in CounterNames
          BY <4>1, TransactionsAre, CallsAre, NamesOfTables DEF BaseInv
        <5> QED BY <4>2, <5>1
      <4>4. rows[r].by # None
        BY <4>1, <4>3, TransactionsAre, CallsAre, NoneIsApart DEF BaseInv
      <4> QED BY <4>1, <4>3, <4>4 DEF LandInv, Marked
    <3> QED BY <3>1, <3>2
  <2> QED BY <1>1, <2>1 DEF LandInv, AddTwiceOnlyIfDisturbed, OnceBut
<1>12. PutOnce'
  BY <1>1 DEF LandInv, PutOnce
<1>13. DrainAnswered'
  <2>1. ASSUME NEW a \in answers', a.op = "state_drain"
        PROVE  a.got \subseteq Got(a.id) /\ (a.got = Got(a.id) \/ a.id \in Disturbed')
    <3>1. CASE a \in answers
      BY <1>1, <2>1, <3>1 DEF LandInv, DrainAnswered, Got
    <3>2. CASE a \notin answers
      <4>1. /\ Busy(w) /\ call[w] \in Calls /\ a.id = call[w].id /\ call[w].op = "state_drain"
            /\ a.got = Values(Tombstoned(call[w]))
        BY <1>10, <1>14, <2>1, <3>2
      <4>2. a.got \subseteq Got(a.id)
        BY <4>1, TombstonesAreGot DEF LandInv
      <4>3. call[w].id \in Disturbed \/ DrainThere(call[w])
        BY <4>1, TransactionsAre DEF LandInv, Landed, BaseInv
      <4> QED BY <1>1, <4>1, <4>2, <4>3 DEF DrainThere
    <3> QED BY <3>1, <3>2
  <2> QED BY <1>1, <2>1 DEF DrainAnswered, Got
<1> QED BY <1>7, <1>8, <1>9, <1>11, <1>12, <1>13 DEF LandInv

LEMMA LandOpens ==
  ASSUME BaseInv, LandInv, NEW w \in Workers, NEW c \in Calls, Opens(w, c)
  PROVE  LandInv'
<1> USE AfterOpens
<1>1. /\ UNCHANGED <<rows, orphans, calls, commits, answers, displaced, raced>>
      /\ Same(c, call[w]) /\ Busy(w) /\ call[w].step = "write" /\ call[w] \in Transactions
      /\ Disturbed' = Disturbed
  BY DEF Opens, Disturbed
<1>2. c.id \in Disturbed \/ Landed(c)
  <2> SUFFICES ASSUME c.id \notin Disturbed PROVE Landed(c)
    OBVIOUS
  <2>1. PutThere(call[w]) /\ AddThere(call[w]) /\ DrainThere(call[w]) /\ Fresh(call[w])
    BY <1>1 DEF LandInv, Landed, Same
  <2>2. PutThere(c) /\ AddThere(c) /\ DrainThere(c) /\ Tombstoned(c) = Tombstoned(call[w])
    BY <1>1, <2>1, SameThere
  <2>3. Fresh(c)
    BY <1>1, <2>1, <2>2 DEF Fresh, Same
  <2> QED BY <2>2, <2>3 DEF Landed
<1>3. \A t \in Transactions' : t.id \in Disturbed' \/ Landed(t)'
  <2>1. \A t \in Transactions' : t.id \in Disturbed \/ Landed(t)
    BY <1>2 DEF LandInv
  <2>2. \A t : Landed(t) => Landed(t)'
    BY <1>1, StillThere DEF Landed
  <2> QED BY <1>1, <2>1, <2>2
<1>4. Marked'
  BY <1>1, MarkedStays DEF LandInv
<1>5. Alone'
  <2>1. ASSUME NEW v \in Workers, NEW o \in orphans, Busy(v)', call'[v].op \in Attempted,
               call'[v].step # "check", o.id = call'[v].id
        PROVE  o.id \in Disturbed
    <3>1. CASE v = w
      BY <1>1, <2>1, <3>1 DEF LandInv, Alone, Same
    <3>2. CASE v # w
      BY <1>1, <2>1, <3>2 DEF LandInv, Alone
    <3> QED BY <3>1, <3>2
  <2>2. \A a \in answers, t \in Transactions' : a.op = "state_drain" /\ a.id = t.id => a.id \in Disturbed
    BY <1>1 DEF LandInv, Alone, Same
  <2> QED BY <1>1, <2>1, <2>2 DEF LandInv, Alone
<1>6. AddTwiceOnlyIfDisturbed' /\ PutOnce' /\ DrainAnswered'
  BY <1>1 DEF LandInv, AddTwiceOnlyIfDisturbed, OnceBut, PutOnce, DrainAnswered
<1> QED BY <1>3, <1>4, <1>5, <1>6 DEF LandInv

\* A commit leaves the marks of another call alone, or displaces the call; and
\* it makes no tombstone of that call.
LEMMA MarkStays ==
  ASSUME BaseInv, NEW t \in Calls, Commits(t), NEW x \in Cells, NEW i \in Ids, i # t.id,
         i \notin displaced'
  PROVE  /\ rows[KV(x)] # None /\ rows[KV(x)].put = i => rows'[KV(x)] # None /\ rows'[KV(x)].put = i
         /\ rows[Count(x)] # None /\ rows[Count(x)].by = i
              => rows'[Count(x)] # None /\ rows'[Count(x)].by = i
         /\ rows[KV(x)] # None /\ rows[KV(x)].drained = i => rows'[KV(x)] = rows[KV(x)]
         /\ rows'[KV(x)] # None /\ rows'[KV(x)].drained = i => rows'[KV(x)] = rows[KV(x)]
<1> USE AfterCommits
<1>1. /\ KV(x) \in StateNames /\ KV(x) \in Names /\ Count(x) \in CounterNames /\ Count(x) \in Names
      /\ i # None /\ Lands(t)
  BY NamesOfTables, NoneIsApart DEF Commits
<1>2. /\ rows[KV(x)] \in StateRow \cup {None} /\ rows[Count(x)] \in CounterRow \cup {None}
      /\ KV(x) \in DOMAIN t.write => t.write[KV(x)] \in StateRow \cup {None}
      /\ Count(x) \in DOMAIN t.write => t.write[Count(x)] \in CounterRow \cup {None}
  BY <1>1 DEF BaseInv, TypeInv, Typed, WellFormed
<1>3. ASSUME KV(x) \in DOMAIN t.write, t.write[KV(x)] # None
      PROVE  t.write[KV(x)].drained \in {t.id, None}
  <2>1. x \in t.cells /\ t.op \in {"state_put_many", "state_drain"}
    BY <1>1, <1>3 DEF Content
  <2>2. CASE t.op = "state_put_many"
    <3>1. t.write[KV(x)] = [put |-> t.id, drained |-> None]
      BY <2>1, <2>2 DEF Content
    <3> QED BY <3>1
  <2>3. CASE t.op = "state_drain"
    <3>1. t.write[KV(x)].drained = t.id
      BY <1>3, <2>1, <2>3 DEF Content
    <3> QED BY <3>1
  <2> QED BY <2>1, <2>2, <2>3
<1>4. ASSUME rows[KV(x)] # None, rows[KV(x)].put = i, KV(x) \in DOMAIN t.write
      PROVE  t.write[KV(x)] # None /\ t.write[KV(x)].put = i
  <2>1. <<"put", i>> \in Marks(rows[KV(x)])
    BY <1>2, <1>4, MarksAre
  <2>2. <<"put", i>> \in Marks(t.write[KV(x)])
    BY <1>1, <1>4, <2>1, TakenOut
  <2> QED BY <1>2, <1>4, <2>2, MarksAre
<1>5. ASSUME rows[Count(x)] # None, rows[Count(x)].by = i, Count(x) \in DOMAIN t.write
      PROVE  t.write[Count(x)] # None /\ t.write[Count(x)].by = i
  <2>1. <<"by", i>> \in Marks(rows[Count(x)])
    BY <1>2, <1>5, MarksAre
  <2>2. <<"by", i>> \in Marks(t.write[Count(x)])
    BY <1>1, <1>5, <2>1, TakenOut
  <2> QED BY <1>2, <1>5, <2>2, MarksAre
<1>6. ASSUME rows[KV(x)] # None, rows[KV(x)].drained = i, KV(x) \in DOMAIN t.write
      PROVE  FALSE
  <2>1. <<"drained", i>> \in Marks(rows[KV(x)])
    BY <1>2, <1>6, MarksAre
  <2>2. <<"drained", i>> \in Marks(t.write[KV(x)])
    BY <1>1, <1>6, <2>1, TakenOut
  <2>3. t.write[KV(x)] # None /\ t.write[KV(x)].drained = i
    BY <1>2, <1>6, <2>2, MarksAre
  <2> QED BY <1>1, <1>3, <1>6, <2>3
<1> QED BY <1>1, <1>3, <1>4, <1>5, <1>6

LEMMA OthersStay ==
  ASSUME BaseInv, NEW t \in Calls, Commits(t), NEW u \in Transactions, u.id # t.id,
         u.id \notin displaced', Landed(u)
  PROVE  Landed(u)'
<1>1. u \in Calls /\ u.cells \subseteq Cells /\ u.first \in Cells /\ u.id \in Ids
  BY TransactionsAre, CallsAre DEF BaseInv
<1>2. {d \in commits' : d.id = u.id} = {d \in commits : d.id = u.id}
  BY DEF Commits, Lands, Committed
<1>3. (HasLanded(u.id)' <=> HasLanded(u.id)) /\ Got(u.id)' = Got(u.id)
  BY <1>2 DEF HasLanded, Got
<1>4. Tombstoned(u)' = Tombstoned(u)
  BY <1>1, MarkStays DEF Tombstoned
<1>5. Values(Tombstoned(u))' = Values(Tombstoned(u))
  <2>1. \A x \in Tombstoned(u) : rows'[KV(x)] = rows[KV(x)]
    BY <1>1, MarkStays DEF Tombstoned
  <2> QED BY <1>4, <2>1 DEF Values
<1>6. PutThere(u)'
  <2>1. ASSUME u.op = "state_put_many", HasLanded(u.id), NEW x \in u.cells
        PROVE  rows'[KV(x)] # None /\ rows'[KV(x)].put = u.id
    BY <1>1, <2>1, MarkStays DEF Landed, PutThere
  <2> QED BY <1>3, <2>1 DEF PutThere
<1>7. AddThere(u)'
  BY <1>1, <1>3, MarkStays DEF Landed, AddThere
<1>8. DrainThere(u)'
  BY <1>3, <1>5 DEF Landed, DrainThere
<1>9. Fresh(u)'
  BY <1>3, <1>4 DEF Landed, Fresh
<1> QED BY <1>6, <1>7, <1>8, <1>9 DEF Landed

\* What is left open of the call whose try commits has yet to look.
LEMMA OnlyChecks ==
  ASSUME BaseInv, Identified, Alone, NEW t \in Calls, Commits(t),
         NEW u \in Transactions', u.id = t.id, t.op \in Attempted, t.id \notin Disturbed
  PROVE  u.step = "check" /\ t \in orphans /\ UNCHANGED answers
<1> USE AfterCommits
<1>1. u \in Transactions /\ Same(u, t)
  BY DEF Identified, Commits
<1>2. CASE t \in orphans /\ orphans' = orphans \ {t} /\ UNCHANGED <<call, answers>>
  <2>1. u \notin orphans'
    BY <1>2 DEF Alone
  <2>2. PICK v \in Workers : Busy(v)' /\ u = call'[v]
    BY <2>1 DEF Transactions
  <2> QED BY <1>1, <1>2, <2>2 DEF Alone, Same
<1>3. ASSUME NEW w \in Workers, Busy(w), t = call[w], call' = [call EXCEPT ![w] = None],
             UNCHANGED orphans
      PROVE  FALSE
  <2>1. u \notin orphans'
    BY <1>3 DEF Alone, Commits
  <2>2. PICK v \in Workers : Busy(v)' /\ u = call'[v]
    BY <2>1 DEF Transactions
  <2>3. v # w /\ Busy(v) /\ u = call[v]
    BY <1>3, <2>2 DEF Busy, BaseInv, TypeInv
  <2> QED BY <1>3, <2>3 DEF Identified
<1> QED BY <1>2, <1>3 DEF Commits

\* The commit brings the call's effect to where the next try looks.
LEMMA EffectThere ==
  ASSUME BaseInv, NEW t \in Calls, Commits(t), Fresh(t), DrainThere(t)
  PROVE  PutThere(t)' /\ AddThere(t)' /\ DrainThere(t)'
<1> USE AfterCommits
<1>0. /\ t.cells \subseteq Cells /\ t.first \in t.cells /\ t.id # None
      /\ \A x \in t.cells : KV(x) \in Names /\ Count(x) \in Names
      /\ t.step = "commit" /\ commits' = Committed(t)
  BY CallsAre, NamesOfTables, NoneIsApart DEF WellFormed, Scoped, Commits, Lands
<1>1. PutThere(t)'
  <2>1. ASSUME t.op = "state_put_many", NEW x \in t.cells
        PROVE  rows'[KV(x)] # None /\ rows'[KV(x)].put = t.id
    <3>0. KV(x) \in DOMAIN t.write /\ t.write[KV(x)] = [put |-> t.id, drained |-> None]
      BY <2>1 DEF Content
    <3>1. rows'[KV(x)] = [put |-> t.id, drained |-> None]
      BY <1>0, <2>1, <3>0
    <3>2. rows'[KV(x)] \in RowTypes
      BY <3>1, CallsAre DEF RowTypes, StateRow
    <3> QED BY <3>1, <3>2, NoneIsApart
  <2> QED BY <2>1 DEF PutThere
<1>2. AddThere(t)'
  <2>1. ASSUME t.op = "state_counter_add"
        PROVE  rows'[Count(t.first)] # None /\ rows'[Count(t.first)].by = t.id
    <3>0. PICK n \in Int : /\ Count(t.first) \in DOMAIN t.write
                           /\ t.write[Count(t.first)] = [n |-> n, by |-> t.id]
      BY <2>1 DEF Content
    <3>1. rows'[Count(t.first)] = [n |-> n, by |-> t.id]
      BY <1>0, <3>0
    <3>2. rows'[Count(t.first)] \in RowTypes
      BY <3>1, CallsAre DEF RowTypes, CounterRow
    <3> QED BY <3>1, <3>2, NoneIsApart
  <2> QED BY <2>1 DEF AddThere
<1>3. DrainThere(t)'
  <2> SUFFICES ASSUME t.op = "state_drain" PROVE Got(t.id)' = Values(Tombstoned(t))'
    BY DEF DrainThere
  <2>1. Tombstoned(t) = {} /\ Values(Tombstoned(t)) = {}
    <3>1. Tombstoned(t) = {}
      BY <1>0 DEF Fresh
    <3> QED BY <3>1 DEF Values
  <2>2. Got(t.id) = {}
    BY <2>1 DEF DrainThere
  <2>3. Got(t.id)' = t.got
    <3>1. \A k \in commits' : k.id = t.id => k \in commits \/ k.got = t.got
      BY <1>0 DEF Committed
    <3>2. [id |-> t.id, op |-> t.op, try |-> t.try, got |-> t.got] \in commits'
      BY <1>0 DEF Committed
    <3>3. \A k \in commits : k.id = t.id => k.got = {}
      BY <2>2 DEF Got
    <3>4. Got(t.id)' \subseteq t.got
      BY <3>1, <3>3 DEF Got
    <3>5. t.got \subseteq Got(t.id)'
      BY <3>2 DEF Got
    <3> QED BY <3>4, <3>5
  <2>4. \A x \in t.cells : rows'[KV(x)] = IF KV(x) \in DOMAIN t.write THEN t.write[KV(x)] ELSE rows[KV(x)]
    BY <1>0
  <2>5. \A x \in t.cells : ~(rows[KV(x)] # None /\ rows[KV(x)].drained = t.id)
    BY <2>1 DEF Tombstoned
  <2>6. \A x \in t.cells : KV(x) \in DOMAIN t.write => t.write[KV(x)] # None /\ t.write[KV(x)].drained = t.id
    BY DEF Content
  <2>7. Tombstoned(t)' = {x \in t.cells : KV(x) \in DOMAIN t.write}
    BY <2>4, <2>5, <2>6 DEF Tombstoned
  <2>8. Values(Tombstoned(t))' = {<<x, t.write[KV(x)].put>> : x \in {y \in t.cells : KV(y) \in DOMAIN t.write}}
    BY <2>4, <2>7 DEF Values
  <2> QED BY <2>3, <2>8 DEF Content
<1> QED BY <1>1, <1>2, <1>3

LEMMA MarkedCommits ==
  ASSUME BaseInv, Identified, Marked, NEW t \in Calls, Commits(t)
  PROVE  Marked'
<1> USE AfterCommits
<1>1. t \in Transactions /\ commits' = Committed(t) /\ commits \subseteq commits'
  BY DEF Commits, Lands, Committed
<1>2. [id |-> t.id, op |-> t.op, try |-> t.try, got |-> t.got] \in commits'
  BY <1>1 DEF Committed
<1>3. ASSUME NEW x \in Cells, rows'[KV(x)] # None
      PROVE  rows'[KV(x)].drained = None \/
             \E k \in commits' : k.op = "state_drain" /\ k.id = rows'[KV(x)].drained
                                 /\ <<x, rows'[KV(x)].put>> \in k.got
  <2>0. KV(x) \in StateNames /\ KV(x) \in Names
    BY NamesOfTables
  <2>1. CASE KV(x) \notin DOMAIN t.write
    BY <1>1, <1>3, <2>0, <2>1 DEF Marked
  <2>2. CASE KV(x) \in DOMAIN t.write
    <3>1. /\ rows'[KV(x)] = t.write[KV(x)] /\ t.op \in {"state_put_many", "state_drain"}
          /\ x \in t.cells
      BY <1>3, <2>0, <2>2 DEF Content
    <3>2. CASE t.op = "state_put_many"
      <4>1. t.write[KV(x)] = [put |-> t.id, drained |-> None]
        BY <3>1, <3>2 DEF Content
      <4> QED BY <3>1, <4>1
    <3>3. CASE t.op = "state_drain"
      <4>1. t.write[KV(x)].drained = t.id
        BY <2>2, <3>1, <3>3 DEF Content
      <4>2. t.got = {<<y, t.write[KV(y)].put>> : y \in {z \in t.cells : KV(z) \in DOMAIN t.write}}
        BY <3>3 DEF Content
      <4>3. <<x, t.write[KV(x)].put>> \in t.got
        BY <2>2, <3>1, <4>2
      <4> QED BY <1>2, <3>1, <3>3, <4>1, <4>3
    <3> QED BY <3>1, <3>2, <3>3
  <2> QED BY <2>1, <2>2
<1>4. ASSUME NEW r \in CounterNames, rows'[r] # None
      PROVE  rows'[r].by = None \/
             \E k \in commits' : k.op = "state_counter_add" /\ k.id = rows'[r].by /\ k.got = {rows'[r].n}
  <2>1. CASE r \notin DOMAIN t.write
    <3>1. rows'[r] = rows[r] /\ commits \subseteq commits'
      BY <1>1, <2>1, NamesOfTables DEF Committed
    <3> QED BY <1>4, <3>1 DEF Marked
  <2>2. CASE r \in DOMAIN t.write
    <3>1. rows'[r] = t.write[r] /\ (t.op = "state_counter_add" \/ t.write[r].by = None)
      BY <1>4, <2>2, NamesOfTables DEF Content
    <3>2. CASE t.op = "state_counter_add"
      <4>1. t.cells = {t.first}
        BY <3>2 DEF WellFormed, Scoped, OneCell
      <4>2. r = Count(t.first)
        <5>1. PICK x \in Cells : r = Count(x)
          BY DEF CounterNames
        <5>2. x \in t.cells
          BY <2>2, <5>1 DEF Content
        <5> QED BY <4>1, <5>1, <5>2
      <4>3. PICK n \in Int : t.got = {n} /\ t.write[Count(t.first)] = [n |-> n, by |-> t.id]
        BY <3>2 DEF Content
      <4>4. [id |-> t.id, op |-> t.op, try |-> t.try, got |-> t.got] \in commits'
        BY <1>1 DEF Committed
      <4> QED BY <3>1, <3>2, <4>2, <4>3, <4>4
    <3> QED BY <3>1, <3>2
  <2> QED BY <2>1, <2>2
<1> QED BY <1>3, <1>4 DEF Marked

LEMMA LandCommits ==
  ASSUME BaseInv, Identified, LandInv, NEW t \in Calls, Commits(t)
  PROVE  LandInv'
<1> USE AfterCommits
<1> DEFINE k == [id |-> t.id, op |-> t.op, try |-> t.try, got |-> t.got]
<1>1. /\ commits' = commits \cup {k} /\ k.id = t.id /\ k.op = t.op /\ k.got = t.got
      /\ t \in Transactions /\ t.step = "commit" /\ Disturbed \subseteq Disturbed'
      /\ displaced' \subseteq Disturbed'
      /\ \A a \in answers' : a \in answers \/ (a.id = t.id /\ a.op = t.op /\ a.got = t.got)
  BY DEF Commits, Lands, Committed, Disturbed
<1> HIDE DEF k
<1>2. t.id \in Disturbed \/ (PutThere(t) /\ AddThere(t) /\ DrainThere(t) /\ Fresh(t))
  BY <1>1 DEF LandInv, Landed
<1>3. \A i : i # t.id => {d \in commits' : d.id = i} = {d \in commits : d.id = i}
  BY <1>1
<1>4. ASSUME NEW u \in Transactions', u.id \notin Disturbed' PROVE Landed(u)'
  <2>1. u \in Transactions /\ Landed(u) /\ u.id \notin Disturbed /\ u.id \notin displaced'
    BY <1>1, <1>4 DEF LandInv
  <2>2. CASE u.id = t.id
    <3>1. Same(u, t)
      BY <1>1, <2>1, <2>2 DEF Identified
    <3>2. PutThere(t)' /\ AddThere(t)' /\ DrainThere(t)'
      BY <1>2, <2>1, <2>2, EffectThere
    <3>3. PutThere(u)' /\ AddThere(u)' /\ DrainThere(u)'
      <4>1. u.op = t.op /\ u.cells = t.cells /\ u.first = t.first /\ u.id = t.id
        BY <3>1 DEF Same
      <4>2. PutThere(u)'
        BY <3>2, <4>1 DEF PutThere
      <4>3. AddThere(u)'
        BY <3>2, <4>1 DEF AddThere
      <4>4. Tombstoned(u)' = Tombstoned(t)'
        BY <4>1 DEF Tombstoned
      <4>5. DrainThere(u)'
        BY <3>2, <4>1, <4>4 DEF DrainThere, Values
      <4> QED BY <4>2, <4>3, <4>5
    <3>4. Fresh(u)'
      <4>1. t.op \in Attempted => u.step = "check"
        BY <2>1, <2>2, OnlyChecks DEF LandInv
      <4> QED BY <3>1, <4>1 DEF Fresh, Same, Attempted
    <3> QED BY <3>3, <3>4 DEF Landed
  <2>3. CASE u.id # t.id
    BY <2>1, <2>3, OthersStay
  <2> QED BY <2>2, <2>3
<1>5. Marked'
  BY MarkedCommits DEF LandInv
<1>6. Alone'
  <2>1. ASSUME NEW a \in answers', NEW u \in Transactions', a.op = "state_drain", a.id = u.id,
               a.id \notin Disturbed
        PROVE  FALSE
    <3>1. CASE a \in answers
      BY <2>1, <3>1 DEF LandInv, Alone
    <3>2. CASE a \notin answers
      <4>1. a.id = t.id /\ t.op = "state_drain"
        BY <1>1, <2>1, <3>2
      <4>2. t.op \in Attempted
        BY <4>1 DEF Attempted
      <4>3. u.id = t.id => answers' = answers
        BY <2>1, <4>1, <4>2, OnlyChecks DEF LandInv
      <4> QED BY <2>1, <3>2, <4>1, <4>3
    <3> QED BY <3>1, <3>2
  <2>2. \A w \in Workers, o \in orphans' :
          Busy(w)' /\ call'[w].op \in Attempted /\ call'[w].step # "check" /\ o.id = call'[w].id
            => o.id \in Disturbed
    BY DEF LandInv, Alone
  <2>3. \A o, p \in orphans' : o.op \in Attempted /\ o.id = p.id /\ o # p => o.id \in Disturbed
    BY DEF LandInv, Alone
  <2> QED BY <1>1, <2>1, <2>2, <2>3 DEF Alone
<1>7. ASSUME NEW c \in commits, c.id = t.id, t.op \in {"state_put_many", "state_counter_add"}
      PROVE  t.id \in Disturbed'
  BY <1>1, <1>2, <1>7 DEF Fresh, HasLanded
<1>8. \A c \in commits : c.id = t.id => c.op = t.op
  BY <1>1 DEF Identified
<1>9. AddTwiceOnlyIfDisturbed'
  <2>1. \A c, d \in commits' : c.op = "state_counter_add" /\ c.id = d.id /\ c # d => c.id \in Disturbed'
    BY <1>1, <1>7, <1>8 DEF LandInv, AddTwiceOnlyIfDisturbed, OnceBut
  <2>2. \A a \in answers' : a.op = "state_counter_add" => \E c \in commits' : c.id = a.id /\ c.got = a.got
    BY <1>1 DEF LandInv, AddTwiceOnlyIfDisturbed, OnceBut
  <2> QED BY <2>1, <2>2 DEF AddTwiceOnlyIfDisturbed, OnceBut
<1>10. PutOnce'
  BY <1>1, <1>7, <1>8 DEF LandInv, PutOnce
<1>11. DrainAnswered'
  <2>0. Got(t.id)' = Got(t.id) \cup t.got
    BY <1>1 DEF Got
  <2>1. ASSUME NEW a \in answers', a.op = "state_drain"
        PROVE  a.got \subseteq Got(a.id)' /\ (a.got = Got(a.id)' \/ a.id \in Disturbed')
    <3>1. CASE a \in answers
      <4>0. a.got \subseteq Got(a.id) /\ (a.got = Got(a.id) \/ a.id \in Disturbed)
        BY <2>1, <3>1 DEF LandInv, DrainAnswered, Got
      <4>1. CASE a.id = t.id
        <5>1. a.id \in Disturbed
          BY <1>1, <2>1, <3>1, <4>1 DEF LandInv, Alone
        <5> QED BY <1>1, <2>0, <4>0, <4>1, <5>1
      <4>2. CASE a.id # t.id
        <5>1. Got(a.id)' = Got(a.id)
          BY <1>3, <4>2 DEF Got
        <5> QED BY <1>1, <4>0, <5>1
      <4> QED BY <4>1, <4>2
    <3>2. CASE a \notin answers
      <4>1. a.id = t.id /\ t.op = "state_drain" /\ a.got = t.got
        BY <1>1, <2>1, <3>2
      <4>2. t.id \in Disturbed \/ Got(t.id) = {}
        <5>1. t.id \in Disturbed \/ Tombstoned(t) = {}
          BY <1>1, <1>2, <4>1 DEF Fresh
        <5> QED BY <1>2, <4>1, <5>1 DEF DrainThere, Values
      <4> QED BY <1>1, <2>0, <4>1, <4>2
    <3> QED BY <3>1, <3>2
  <2> QED BY <2>1 DEF DrainAnswered, Got
<1>12. \A u \in Transactions' : u.id \in Disturbed' \/ Landed(u)'
  BY <1>4
<1> QED BY <1>5, <1>6, <1>9, <1>10, <1>11, <1>12 DEF LandInv

LEMMA LandStays ==
  ASSUME LandInv, Stays
  PROVE  LandInv'
<1>1. /\ UNCHANGED <<rows, commits, calls, call, answers, displaced, raced>> /\ orphans' \subseteq orphans
      /\ \A t \in Transactions' : t \in Transactions
      /\ Disturbed' = Disturbed
  BY DEF Stays, Transactions, Busy, Disturbed
<1>2. \A t \in Transactions' : t.id \in Disturbed' \/ Landed(t)'
  <2>1. \A t : Landed(t) => Landed(t)'
    BY <1>1, StillThere DEF Landed
  <2> QED BY <1>1, <2>1 DEF LandInv
<1>3. Marked'
  BY <1>1, MarkedStays DEF LandInv
<1>4. Alone'
  BY <1>1 DEF LandInv, Alone, Busy
<1>5. AddTwiceOnlyIfDisturbed' /\ PutOnce' /\ DrainAnswered'
  BY <1>1 DEF LandInv, AddTwiceOnlyIfDisturbed, OnceBut, PutOnce, DrainAnswered
<1> QED BY <1>2, <1>3, <1>4, <1>5 DEF LandInv

LEMMA NextLand == KnownInv /\ LandInv /\ [Next]_vars => LandInv'
  BY NextIs, CommitCommits, LandLeaves, LandOpens, LandCommits, LandStays DEF KnownInv

LEMMA InitLand == Init => LandInv
<1> SUFFICES ASSUME Init PROVE LandInv
  OBVIOUS
<1>1. /\ Transactions = {} /\ commits = {} /\ answers = {} /\ orphans = {}
      /\ \A r \in Names : rows[r] = None
  BY DEF Init, Transactions, Busy
<1>2. Marked
  BY <1>1, NamesOfTables DEF Marked
<1>3. Alone
  BY <1>1 DEF Alone
<1>4. AddTwiceOnlyIfDisturbed /\ PutOnce /\ DrainAnswered
  BY <1>1 DEF AddTwiceOnlyIfDisturbed, OnceBut, PutOnce, DrainAnswered
<1> QED BY <1>1, <1>2, <1>3, <1>4 DEF LandInv

\* A call that nobody disturbs finds its first try.
LEMMA LandsOnce == Spec => []LandInv
<1>1. Init => KnownInv /\ LandInv
  BY InitKnown, InitLand
<1>2. KnownInv /\ LandInv /\ [Next]_vars => (KnownInv /\ LandInv)'
  BY NextKnown, NextLand
<1> QED BY <1>1, <1>2, PTL DEF Spec

\* A counter is added to twice by one call only when another call has taken the
\* first try's id out of the row, or the first try was still open when the
\* second looked; and every add returns a value that it made
\* (state_counter_add, last_attempt_id).
THEOREM AddsAreOnce == Spec => []AddTwiceOnlyIfDisturbed
<1>1. LandInv => AddTwiceOnlyIfDisturbed
  BY DEF LandInv
<1> QED BY <1>1, LandsOnce, PTL

\* A batch that landed is put again only in the same two cases
\* (state_put_many, last_put_attempt).
THEOREM PutsAreOnce == Spec => []PutOnce
<1>1. LandInv => PutOnce
  BY DEF LandInv
<1> QED BY <1>1, LandsOnce, PTL

\* A drain's answer holds nothing that its tries did not tombstone, and all of
\* it but in the same two cases (state_drain, drained_by_attempt).
THEOREM DrainsAreAnswered == Spec => []DrainAnswered
<1>1. LandInv => DrainAnswered
  BY DEF LandInv
<1> QED BY <1>1, LandsOnce, PTL

=============================================================================
