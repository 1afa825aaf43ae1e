--------------------------- MODULE AzureSqlStorage ---------------------------
(***************************************************************************)
(* The Azure SQL store of vgi/function_storage_azure_sql.py: the methods   *)
(* of FunctionStorage over a database that is reached through a network.   *)
(*                                                                         *)
(* _execute_with_retry runs a method's _do closure a second time when the  *)
(* connection fails.  A try may fail before its transaction is committed,  *)
(* after it, or while the server still works on the commit: the caller     *)
(* cannot tell, and the transaction is then an orphan that the server      *)
(* commits or rolls back.  state_put_many, state_drain, state_append and   *)
(* state_counter_add draw an attempt id outside _do and look for it in the *)
(* rows before they write; the other methods just run again.               *)
(*                                                                         *)
(* A transaction is the rows it has locked and their new images.  A        *)
(* statement waits for the rows it needs; the pop's READPAST skips them.   *)
(* Reads see committed rows only (row versioning, Azure SQL's default).    *)
(* One scope stands for a (scope_id, ns) pair.                             *)
(*                                                                         *)
(* commits, answers, displaced, raced, seen and overtaken are history: what*)
(* took effect, what callers were told, and which calls had their attempt  *)
(* id or their place in a log taken away by somebody else.                 *)
(***************************************************************************)
EXTENDS Integers

CONSTANTS
  Workers,    \* worker processes, one connection each
  Scopes,     \* (scope_id, ns) pairs, or execution ids for the work queue
  Keys,       \* the key column
  Ops,        \* the methods the workload calls
  MaxCalls,   \* bound: calls ever made
  MaxRows,    \* bound: identity values ever drawn, per table
  None        \* no row, no attempt id

ASSUME Bounds == MaxCalls \in Nat /\ MaxRows \in Nat

VARIABLES
  rows,      \* the committed tables, by row name
  identity,  \* the IDENTITY generators of work_queue and function_state_log
  call,      \* call[w]: the method w is in, or None
  orphans,   \* transactions whose connection is gone
  calls,     \* calls made, the source of attempt ids
  commits,   \* (history) the tries that were committed
  answers,   \* (history) what calls returned
  displaced, \* (history) attempt ids that a commit overwrote or deleted in a row
  raced,     \* (history) attempt ids not found while their first try was open
  cursor,    \* cursor[w]: after_id of w's next state_log_scan
  seen,      \* (history) seen[w]: the log rows w has scanned
  overtaken  \* (history) overtaken[w]: log rows w passed before their commit

history == <<commits, answers, displaced, raced>>
reading == <<cursor, seen, overtaken>>
vars == <<rows, identity, call, orphans, calls, history, reading>>

Cells == Scopes \X Keys
CellsOf(s) == {c \in Cells : c[1] = s}
Ids == 1..MaxCalls

KV(c)    == <<"function_state", c>>
Count(c) == <<"function_counter", c>>
Log(i)   == <<"function_state_log", i>>
Item(i)  == <<"work_queue", i>>

StateNames   == {KV(c) : c \in Cells}
CounterNames == {Count(c) : c \in Cells}
LogNames     == {Log(i) : i \in 1..MaxRows}
ItemNames    == {Item(i) : i \in 1..MaxRows}
Names        == StateNames \cup CounterNames \cup LogNames \cup ItemNames

StateRow   == [put : Ids, drained : Ids \cup {None}]
CounterRow == [n : Int, by : Ids \cup {None}]
LogRow     == [cell : Cells, by : Ids]
ItemRow    == [scope : Scopes]
RowTypes   == StateRow \cup CounterRow \cup LogRow \cup ItemRow

\* A call: the method, its arguments and its attempt id, the try under way,
\* and the images and the result its open transaction holds.
Steps   == {"check", "write", "commit"}
Writes  == UNION {[S -> RowTypes \cup {None}] : S \in SUBSET Names}
Results == SUBSET (Int \cup (Cells \X Ids))
Calls   == [op : Ops, cells : SUBSET Cells, first : Cells, id : Ids, try : 1..2, step : Steps,
            write : Writes, got : Results]

ASSUME NoneIsApart == None \notin RowTypes \cup Ids \cup Calls

Present(S) == {r \in S : rows[r] # None}
LogOf(c)   == {r \in Present(LogNames) : rows[r].cell = c}
ItemsOf(s) == {r \in Present(ItemNames) : rows[r].scope = s}

ScopesIn(c) == {x[1] : x \in c.cells}

\* The calls in progress, with their transactions, and those without a client.
Busy(w) == call[w] # None
Transactions == {call[w] : w \in {v \in Workers : Busy(v)}} \cup orphans

\* The open transactions other than that of w's own connection, the rows they
\* hold, and the rows among these that are new log rows or items of scope s.
Others(w) == {call[v] : v \in {u \in Workers \ {w} : Busy(u)}} \cup orphans
Locked(w) == UNION {DOMAIN t.write : t \in Others(w)}
Inserted(w, s) ==
  UNION {{r \in DOMAIN t.write : /\ r \in LogNames \cup ItemNames
                                 /\ t.write[r] # None
                                 /\ s \in ScopesIn(t)} : t \in Others(w)}

-----------------------------------------------------------------------------
(* _execute_with_retry.                                                    *)

\* The methods that draw an attempt id.
Attempted == {"state_put_many", "state_drain", "state_append", "state_counter_add"}
FirstStep(op) == IF op \in Attempted THEN "check" ELSE "write"
Untried == [r \in {} |-> None]

\* A method is called on a batch of cells, on one cell, or on a whole scope.
Batched == {"state_put_many", "state_delete"}
OneCell == {"state_append", "state_counter_add", "state_counter_set", "state_counter_delete"}
Touches(op, s) ==
  IF op \in Batched THEN SUBSET CellsOf(s) \ {{}}
  ELSE IF op \in OneCell THEN {{c} : c \in CellsOf(s)}
  ELSE {CellsOf(s)}

\* A caller calls a method; first is the first item of a batch.
Begin(w) ==
  \E op \in Ops, s \in Scopes : \E cells \in Touches(op, s) : \E first \in cells :
    /\ call[w] = None
    /\ calls < MaxCalls
    /\ op # "state_put_many" => first = CHOOSE c \in cells : TRUE
    /\ calls' = calls + 1
    /\ call' = [call EXCEPT ![w] = [op |-> op, cells |-> cells, first |-> first,
                                    id |-> calls + 1, try |-> 1, step |-> FirstStep(op),
                                    write |-> Untried, got |-> {}]]
    /\ UNCHANGED <<rows, identity, orphans, history, reading>>

At(w, op, step) ==
  IF call[w] = None THEN FALSE ELSE call[w].op = op /\ call[w].step = step

Return(w, got) ==
  /\ answers' = answers \cup {[id |-> call[w].id, op |-> call[w].op, got |-> got]}
  /\ call' = [call EXCEPT ![w] = None]

\* (mutation) tombstones of every attempt.
AnyTombstoned(c) == {x \in c.cells : rows[KV(x)] # None /\ rows[KV(x)].drained # None}

\* The rows of function_state a drain's attempt has tombstoned.
Tombstoned(c) == {x \in c.cells : rows[KV(x)] # None /\ rows[KV(x)].drained = c.id}
Values(cells) == {<<x, rows[KV(x)].put>> : x \in cells}

\* (mutation) last_attempt_id is never compared.
NeverReplayed(c) == {}

\* The answer the replay-detection SELECT finds, one alternative per method,
\* as a set that is empty when the SELECT returns no row.
Replayed(c) ==
  CASE c.op = "state_put_many" ->
         {{} : x \in {y \in {c.first} : rows[KV(y)] # None /\ rows[KV(y)].put = c.id}}
    [] c.op = "state_drain" ->
         {Values(Tombstoned(c)) : x \in {t \in {c} : Tombstoned(t) # {}}}
    [] c.op = "state_append" ->
         {{r[2]} : r \in {l \in LogOf(c.first) : rows[l].by = c.id}}
    [] c.op = "state_counter_add" ->
         {{rows[Count(x)].n} : x \in
            {y \in {c.first} : rows[Count(y)] # None /\ rows[Count(y)].by = c.id}}

\* The open transactions that a call has lost the connection to.
OrphanOf(c) == {o \in orphans : o.id = c.id}

\* The SELECT: return at once on a replay, otherwise go on to write.  It sees
\* nothing of a first try that the server still works on.
Check(w) ==
  /\ \E op \in Attempted : At(w, op, "check")
  /\ \/ \E got \in Replayed(call[w]) : Return(w, got) /\ UNCHANGED raced
     \/ /\ Replayed(call[w]) = {}
        /\ call' = [call EXCEPT ![w].step = "write"]
        /\ raced' = raced \cup {o.id : o \in OrphanOf(call[w])}
        /\ UNCHANGED answers
  /\ UNCHANGED <<rows, identity, orphans, calls, commits, displaced, reading>>

\* The writing statements: they wait for the rows in needs, and leave the
\* images in write and the result got in the open transaction.
Write(w, op, needs, write, got) ==
  /\ At(w, op, "write")
  /\ needs \cap Locked(w) = {}
  /\ call' = [call EXCEPT ![w].step = "commit", ![w].write = write, ![w].got = got]
  /\ UNCHANGED <<rows, orphans, calls, history, reading>>

Insertion(name, row) == [r \in {name} |-> row]
Deletion(names) == [r \in names |-> None]

queue_push(w) ==
  /\ At(w, "queue_push", "write")
  /\ identity.queue < MaxRows
  /\ identity' = [identity EXCEPT !.queue = @ + 1]
  /\ \E s \in ScopesIn(call[w]) :
       Write(w, "queue_push", {}, Insertion(Item(identity.queue + 1), [scope |-> s]),
             {identity.queue + 1})

\* (mutation) without UPDLOCK and READPAST two pops pick the same row.
Unlocked(w, s) == ItemsOf(s)

\* ROWLOCK, UPDLOCK, READPAST: rows another transaction holds are skipped.
Poppable(w, s) == ItemsOf(s) \ Locked(w)
queue_pop(w) ==
  /\ At(w, "queue_pop", "write")
  /\ \E s \in ScopesIn(call[w]) :
       LET oldest == {r \in Poppable(w, s) : \A q \in Poppable(w, s) : r[2] <= q[2]} IN
       Write(w, "queue_pop", {}, Deletion(oldest), {r[2] : r \in oldest})
  /\ UNCHANGED identity

queue_clear(w) ==
  /\ At(w, "queue_clear", "write")
  /\ \E s \in ScopesIn(call[w]) :
       Write(w, "queue_clear", ItemsOf(s) \cup Inserted(w, s), Deletion(ItemsOf(s)), {})
  /\ UNCHANGED identity

\* MERGE of every item: a new image, live again if it was drained.
state_put_many(w) ==
  /\ At(w, "state_put_many", "write")
  /\ LET names == {KV(x) : x \in call[w].cells} IN
     Write(w, "state_put_many", names,
           [r \in names |-> [put |-> call[w].id, drained |-> None]], {})
  /\ UNCHANGED identity

LiveCells(c) == {x \in CellsOf(c.first[1]) : rows[KV(x)] # None /\ rows[KV(x)].drained = None}

\* UPDATE ... SET drained_by_attempt OUTPUT ... WHERE drained_at IS NULL
state_drain(w) ==
  /\ At(w, "state_drain", "write")
  /\ LET live == LiveCells(call[w]) IN
     Write(w, "state_drain", {KV(x) : x \in CellsOf(call[w].first[1])},
           [r \in {KV(x) : x \in live} |-> [rows[r] EXCEPT !.drained = call[w].id]],
           Values(live))
  /\ UNCHANGED identity

state_delete(w) ==
  /\ At(w, "state_delete", "write")
  /\ LET names == {KV(x) : x \in call[w].cells} IN
     Write(w, "state_delete", names, Deletion(Present(names)), {})
  /\ UNCHANGED identity

\* (mutation) the replay index is not UNIQUE.
NoDuplicates(c) == {}

\* idx_function_state_log_replay: rows that would violate it.
Duplicates(c) == {r \in LogOf(c.first) : rows[r].by = c.id}

\* INSERT ... OUTPUT inserted.id.  The identity value is drawn even if the
\* transaction rolls back.  An orphan with the same attempt id holds the index
\* key: the INSERT waits for it.
state_append(w) ==
  /\ At(w, "state_append", "write")
  /\ identity.log < MaxRows
  /\ OrphanOf(call[w]) = {}
  /\ Duplicates(call[w]) = {}
  /\ identity' = [identity EXCEPT !.log = @ + 1]
  /\ Write(w, "state_append", {},
           Insertion(Log(identity.log + 1), [cell |-> call[w].first, by |-> call[w].id]),
           {identity.log + 1})

\* The first try landed after the retry's SELECT: IntegrityError, which
\* _execute_with_retry does not catch.
AppendRefused(w) ==
  /\ At(w, "state_append", "write")
  /\ Duplicates(call[w]) # {}
  /\ call' = [call EXCEPT ![w] = None]
  /\ UNCHANGED <<rows, identity, orphans, calls, history, reading>>

\* (mutation) the MERGE does not keep the attempt id.
UnmarkedAdd(w) ==
  /\ At(w, "state_counter_add", "write")
  /\ LET r == Count(call[w].first)
         n == (IF rows[r] = None THEN 0 ELSE rows[r].n) + 1
     IN Write(w, "state_counter_add", {r}, Insertion(r, [n |-> n, by |-> None]), {n})
  /\ UNCHANGED identity

\* MERGE ... n = t.n + s.delta, last_attempt_id = s.attempt_id (delta is 1).
state_counter_add(w) ==
  /\ At(w, "state_counter_add", "write")
  /\ LET r == Count(call[w].first)
         n == (IF rows[r] = None THEN 0 ELSE rows[r].n) + 1
     IN Write(w, "state_counter_add", {r}, Insertion(r, [n |-> n, by |-> call[w].id]), {n})
  /\ UNCHANGED identity

state_counter_set(w) ==
  /\ At(w, "state_counter_set", "write")
  /\ LET r == Count(call[w].first) IN
     Write(w, "state_counter_set", {r}, Insertion(r, [n |-> 0, by |-> None]), {})
  /\ UNCHANGED identity

state_counter_delete(w) ==
  /\ At(w, "state_counter_delete", "write")
  /\ LET r == Count(call[w].first) IN
     Write(w, "state_counter_delete", {r}, Deletion(Present({r})), {})
  /\ UNCHANGED identity

\* Three DELETEs, one commit: function_state, function_state_log and
\* function_counter, not the work queue.
execution_clear(w) ==
  /\ At(w, "execution_clear", "write")
  /\ \E s \in ScopesIn(call[w]) :
       LET names == Present({KV(x) : x \in CellsOf(s)} \cup {Count(x) : x \in CellsOf(s)})
                      \cup UNION {LogOf(x) : x \in CellsOf(s)}
       IN Write(w, "execution_clear", names \cup Inserted(w, s), Deletion(names), {})
  /\ UNCHANGED identity

-----------------------------------------------------------------------------
(* How a try ends.                                                         *)

Applied(write) == [r \in Names |-> IF r \in DOMAIN write THEN write[r] ELSE rows[r]]

Committed(c) == commits \cup {[id |-> c.id, op |-> c.op, try |-> c.try, got |-> c.got]}

\* The attempt ids a row carries, by column, and those that a write takes away.
Marks(row) ==
  IF row = None THEN {} ELSE {<<f, row[f]>> : f \in {"put", "drained", "by"} \cap DOMAIN row}
Displaced(write) ==
  {m[2] : m \in UNION {Marks(rows[r]) \ Marks(write[r]) : r \in DOMAIN write}} \ {None}

\* The server makes the writes of a transaction visible.
Lands(t) ==
  /\ rows' = Applied(t.write)
  /\ commits' = Committed(t)
  /\ displaced' = displaced \cup Displaced(t.write)

\* conn.commit() answers, and the method returns its result.
Commit(w) ==
  /\ \E op \in Ops : At(w, op, "commit")
  /\ Lands(call[w])
  /\ Return(w, call[w].got)
  /\ UNCHANGED <<identity, orphans, calls, raced, reading>>

Orphaned(w) ==
  orphans \cup {o \in {call[w]} : o.step = "commit"}

\* for attempt in range(2)
MayRetry(c) == c.try < 2

Retried(c) ==
  [c EXCEPT !.try = @ + 1, !.step = FirstStep(c.op), !.write = Untried, !.got = {}]

\* OperationalError or InterfaceError: reconnect and try once more, or give up.
Disconnect(w) ==
  /\ call[w] # None
  /\ orphans' = Orphaned(w)
  /\ call' = [call EXCEPT ![w] = IF MayRetry(@) THEN Retried(@) ELSE None]
  /\ UNCHANGED <<rows, identity, calls, history, reading>>

\* The worker process dies in the middle of a call.
Crash(w) ==
  /\ call[w] # None
  /\ orphans' = Orphaned(w)
  /\ call' = [call EXCEPT ![w] = None]
  /\ cursor' = [cursor EXCEPT ![w] = [c \in Cells |-> -1]]
  /\ seen' = [seen EXCEPT ![w] = {}]
  /\ overtaken' = [overtaken EXCEPT ![w] = {}]
  /\ UNCHANGED <<rows, identity, calls, history>>

\* The server settles a transaction whose client is gone.
OrphanCommits == \E o \in orphans :
  /\ orphans' = orphans \ {o}
  /\ Lands(o)
  /\ UNCHANGED <<identity, call, calls, answers, raced, reading>>

OrphanRollsBack == \E o \in orphans :
  /\ orphans' = orphans \ {o}
  /\ UNCHANGED <<rows, identity, call, calls, history, reading>>

\* (mutation) ORDER BY id DESC: a limit of one row takes the newest.
NewestAfter(w, c) ==
  {r \in LogOf(c) : r[2] > cursor[w][c] /\ \A q \in LogOf(c) : q[2] <= r[2]}

\* WHERE ... id > after_id
After(w, c) == {r \in LogOf(c) : r[2] > cursor[w][c]}

\* The log rows of a cell in transactions that are still open: their identity
\* values are drawn.
Uncommitted(c) ==
  UNION {{r \in DOMAIN t.write \cap LogNames : t.write[r] # None /\ t.first = c} :
           t \in Transactions}

\* state_log_scan reads the committed rows after the cursor, up to a limit.
state_log_scan(w) == \E c \in Cells :
  LET fresh == After(w, c) IN
  \E last \in fresh :
    /\ "state_log_scan" \in Ops
    /\ call[w] = None
    /\ cursor' = [cursor EXCEPT ![w][c] = last[2]]
    /\ seen' = [seen EXCEPT ![w] = @ \cup {r \in fresh : r[2] <= last[2]}]
    /\ overtaken' = [overtaken EXCEPT ![w] = @ \cup {r \in Uncommitted(c) : r[2] < last[2]}]
    /\ UNCHANGED <<rows, identity, call, orphans, calls, history>>

Init ==
  /\ rows = [r \in Names |-> None]
  /\ identity = [queue |-> 0, log |-> 0]
  /\ call = [w \in Workers |-> None]
  /\ orphans = {} /\ calls = 0
  /\ commits = {} /\ answers = {} /\ displaced = {} /\ raced = {}
  /\ cursor = [w \in Workers |-> [c \in Cells |-> -1]]
  /\ seen = [w \in Workers |-> {}]
  /\ overtaken = [w \in Workers |-> {}]

Step(w) ==
  \/ Begin(w) \/ Check(w) \/ Commit(w) \/ Disconnect(w) \/ Crash(w)
  \/ queue_push(w) \/ queue_pop(w) \/ queue_clear(w)
  \/ state_put_many(w) \/ state_drain(w) \/ state_delete(w)
  \/ state_append(w) \/ AppendRefused(w) \/ state_log_scan(w)
  \/ state_counter_add(w) \/ state_counter_set(w) \/ state_counter_delete(w)
  \/ execution_clear(w)

Next == OrphanCommits \/ OrphanRollsBack \/ \E w \in Workers : Step(w)

Spec == Init /\ [][Next]_vars

-----------------------------------------------------------------------------
(* Properties.                                                             *)

\* A call of op takes effect once however often it is tried, but for the calls
\* in excused; and an answer is always what one of its effects produced.
OnceBut(op, excused) ==
  /\ \A c, d \in commits : c.op = op /\ c.id = d.id /\ c # d => c.id \in excused
  /\ \A a \in answers : a.op = op => \E c \in commits : c.id = a.id /\ c.got = a.got

\* The calls whose attempt id another call's commit took out of a row, or whose
\* second try looked for it while the server still worked on the first.
Disturbed == displaced \cup raced

\* state_append: a retried append maps back to its original ordinal, whatever
\* the others do and however late the first try lands, as long as its row has
\* not been cleared.
AppendOnce == OnceBut("state_append", displaced)


\* state_counter_add, as the code has it: a retry adds a second time only when
\* another add, set or delete has displaced the id of the first try, or the
\* first try was still open when the retry looked; the value returned is one
\* that this call produced even then.
AddTwiceOnlyIfDisturbed == OnceBut("state_counter_add", Disturbed)

\* state_put_many: a retry of a batch that landed is a silent no-op, unless its
\* rows were overwritten or removed meanwhile, or the first try was still open.
PutOnce ==
  \A c, d \in commits :
    c.op = "state_put_many" /\ c.id = d.id /\ c # d => c.id \in Disturbed

\* state_drain: the answer holds nothing but values that the call tombstoned, in
\* either try, and all of them unless one of its tombstones was revived or removed
\* meanwhile, or the first try was still open when the retry looked.
DrainAnswered ==
  \A a \in answers : a.op = "state_drain" =>
    LET tombstoned == UNION {c.got : c \in {d \in commits : d.id = a.id}} IN
    a.got \subseteq tombstoned /\ (a.got = tombstoned \/ a.id \in Disturbed)

\* queue_pop: a call that returns has taken one item off the queue and
\* returns that item.
PopOnce == OnceBut("queue_pop", {})

\* queue_pop: an item is never returned by two calls, whatever connections
\* fail and however pops, pushes and clears overlap.
ClaimedOnce ==
  /\ \A a, b \in answers : a.op = "queue_pop" /\ b.op = "queue_pop" /\ a # b
       => a.got \cap b.got = {}
  /\ \A a \in answers : a.op = "queue_pop" => \A i \in a.got : rows[Item(i)] = None

\* state_log_scan: a reader that goes on from the last id it was given misses
\* only rows of the log that had their id and were not committed when it read a
\* younger one.
TailComplete ==
  \A w \in Workers : \A r \in Present(LogNames) :
    r[2] <= cursor[w][rows[r].cell] => r \in seen[w] \cup overtaken[w]
=============================================================================
