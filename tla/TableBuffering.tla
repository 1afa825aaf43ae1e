--------------------------- MODULE TableBuffering ---------------------------
(***************************************************************************)
(* Buffering table functions (vgi/table_buffering_function.py): a caller   *)
(* sinks every input batch with table_buffering_process, ends the input    *)
(* with table_buffering_combine, drains the output with the ticks of a     *)
(* finalize stream and destroys the execution.  Each request may be served *)
(* by another worker process; what they share is the function storage, in  *)
(* which the sink's init leaves the row that makes later requests possible.*)
(*                                                                         *)
(* The caller is Client.table_buffering_function, with one sink, or the    *)
(* database's operator, with several sinks in parallel.  The function is   *)
(* the fixture batch_index_buffer_input: it logs its batches under their   *)
(* index, sorts them in combine and drains the sorted log.                 *)
(***************************************************************************)
EXTENDS Naturals, Sequences, FiniteSets

CONSTANTS
  Executions,  \* calls, each with an execution id of its own
  Sinks,       \* threads that sink batches (one in the Python client)
  Batches,     \* bound: input batches of a call
  Declaring,   \* schemas that declare the function's name, as registered
  Called,      \* the schema the calls name
  MaxFaults,   \* bound: requests that fail
  None

ASSUME Parameters ==
  /\ Batches \in Nat /\ MaxFaults \in Nat
  /\ Declaring \in Seq(STRING) /\ \E i \in DOMAIN Declaring : Declaring[i] = Called

VARIABLES
  initRow,   \* executions whose init metadata is stored (BUFFERING_INIT)
  unsorted,  \* unsorted[e]: the log of sunk batches
  sorted,    \* sorted[e]: the log combine wrote
  caller,    \* caller[e]: where the caller of e is, and what it has seen
  sink,      \* sink[e][s]: the request sink s has under way, or None
  worker,    \* worker[e]: what the worker that combines has read, or None
  faults,
  output,    \* (history) output[e]: batches yielded to the consumer
  unknown    \* (history) executions a worker found no init row for

\* A sink's request, and the log entry it becomes.
Requests == [index : 1..Batches, stage : {"sent", "loaded", "stored"}]

ASSUME NoneIsApart == None \notin Requests

storage == <<initRow, unsorted, sorted>>
vars == <<storage, caller, sink, worker, faults, output, unknown>>

Init ==
  /\ initRow = {}
  /\ unsorted = [e \in Executions |-> <<>>] /\ sorted = [e \in Executions |-> <<>>]
  /\ caller = [e \in Executions |-> [pc |-> "start", dealt |-> 0, after |-> 0]]
  /\ sink = [e \in Executions |-> [s \in Sinks |-> None]]
  /\ worker = [e \in Executions |-> None]
  /\ faults = 0
  /\ output = [e \in Executions |-> <<>>] /\ unknown = {}

At(e, pc) == caller[e].pc = pc
Goto(e, pc) == caller' = [caller EXCEPT ![e].pc = pc]

\* _resolve_function_by_name: without a schema the first candidate is taken.
Resolved(schema) == IF schema = None THEN Head(Declaring) ELSE schema

\* The requests of the sink, of combine and of the ticks carry no schema.
Implementation == Resolved(None)

Fault == faults < MaxFaults /\ faults' = faults + 1

-----------------------------------------------------------------------------
(* Bind and the sink's init                                                *)

InitPersist(e) ==
  /\ At(e, "start")
  /\ initRow' = initRow \cup {e}
  /\ Goto(e, "init")
  /\ UNCHANGED <<unsorted, sorted, sink, worker, faults, output, unknown>>

InitAnswered(e) ==
  /\ At(e, "init")
  /\ Goto(e, "sink")
  /\ UNCHANGED <<storage, sink, worker, faults, output, unknown>>

\* The caller never learns the execution id and cannot destroy the execution.
InitUnanswered(e) ==
  /\ At(e, "init") /\ Fault
  /\ Goto(e, "lost")
  /\ UNCHANGED <<storage, sink, worker, output, unknown>>

-----------------------------------------------------------------------------
(* Sink                                                                    *)

NextBatch(e) == caller[e].dealt + 1

Send(e, s) ==
  /\ At(e, "sink") /\ sink[e][s] = None /\ NextBatch(e) <= Batches
  /\ caller' = [caller EXCEPT ![e].dealt = NextBatch(e)]
  /\ sink' = [sink EXCEPT ![e][s] = [index |-> NextBatch(e), stage |-> "sent"]]
  /\ UNCHANGED <<storage, worker, faults, output, unknown>>

\* Every request is served from the init row: without it, it is refused.
Known(e) == e \in initRow

\* (mutation) the caller's clean-up is skipped.
Leaves(e) == caller' = [caller EXCEPT ![e].pc = "failed"]

\* The caller gives up: it sends nothing more, and cleans up.
Failing(e) == caller' = [caller EXCEPT ![e].pc = "failing"]

ProcessLoad(e, s) ==
  /\ sink[e][s] # None /\ sink[e][s].stage = "sent"
  /\ IF Known(e)
     THEN /\ sink' = [sink EXCEPT ![e][s].stage = "loaded"]
          /\ UNCHANGED <<caller, unknown>>
     ELSE /\ sink' = [sink EXCEPT ![e][s] = None]
          /\ Failing(e)
          /\ unknown' = unknown \cup {e}
  /\ UNCHANGED <<storage, worker, faults, output>>

Process(e, s) ==
  /\ sink[e][s] # None /\ sink[e][s].stage = "loaded"
  /\ unsorted' = [unsorted EXCEPT ![e] =
                    Append(@, [index |-> sink[e][s].index, by |-> Implementation])]
  /\ sink' = [sink EXCEPT ![e][s].stage = "stored"]
  /\ UNCHANGED <<initRow, sorted, caller, worker, faults, output, unknown>>

ProcessAnswered(e, s) ==
  /\ sink[e][s] # None /\ sink[e][s].stage = "stored"
  /\ sink' = [sink EXCEPT ![e][s] = None]
  /\ UNCHANGED <<storage, caller, worker, faults, output, unknown>>

\* User code raises, or the worker dies, whatever it has done by then.
ProcessFails(e, s) ==
  /\ sink[e][s] # None /\ Fault
  /\ sink' = [sink EXCEPT ![e][s] = None]
  /\ Failing(e)
  /\ UNCHANGED <<storage, worker, output, unknown>>

InputFails(e) ==
  /\ At(e, "sink") /\ Fault
  /\ Failing(e)
  /\ UNCHANGED <<storage, sink, worker, output, unknown>>

-----------------------------------------------------------------------------
(* Combine                                                                 *)

\* (mutation) the end of the input is taken for the end of the sinks.
AllDealt(e) == caller[e].dealt = Batches

\* Every batch was dealt and every request has its answer.
AllSunk(e) == caller[e].dealt = Batches /\ \A s \in Sinks : sink[e][s] = None

\* list.sort by the index, which is stable: the i-th is the one that i - 1
\* others precede.
Precedes(log, j, k) ==
  \/ log[j].index < log[k].index
  \/ log[j].index = log[k].index /\ j < k

InOrder(log) ==
  [i \in DOMAIN log |->
     log[CHOOSE k \in DOMAIN log :
           Cardinality({j \in DOMAIN log : Precedes(log, j, k)}) = i - 1]]

CombineScan(e) ==
  /\ At(e, "sink") /\ AllSunk(e)
  /\ IF Known(e)
     THEN /\ worker' = [worker EXCEPT ![e] = InOrder(unsorted[e])]
          /\ Goto(e, "combine")
          /\ UNCHANGED unknown
     ELSE /\ Failing(e)
          /\ unknown' = unknown \cup {e}
          /\ UNCHANGED worker
  /\ UNCHANGED <<storage, sink, faults, output>>

CombineAppend(e) ==
  /\ At(e, "combine") /\ worker[e] # <<>>
  /\ sorted' = [sorted EXCEPT ![e] = Append(@, Head(worker[e]))]
  /\ worker' = [worker EXCEPT ![e] = Tail(@)]
  /\ UNCHANGED <<initRow, unsorted, caller, sink, faults, output, unknown>>

CombineAnswered(e) ==
  /\ At(e, "combine") /\ worker[e] = <<>>
  /\ worker' = [worker EXCEPT ![e] = None]
  /\ Goto(e, "finalize")
  /\ UNCHANGED <<storage, sink, faults, output, unknown>>

CombineFails(e) ==
  /\ At(e, "combine") /\ Fault
  /\ worker' = [worker EXCEPT ![e] = None]
  /\ Failing(e)
  /\ UNCHANGED <<storage, sink, output, unknown>>

-----------------------------------------------------------------------------
(* Finalize: the stream's state, with the cursor of the user's state, goes  *)
(* back and forth with every tick.                                         *)

Advanced(e) == caller[e].after + 1

Tick(e) ==
  /\ At(e, "finalize")
  /\ IF ~Known(e)
     THEN Failing(e) /\ unknown' = unknown \cup {e} /\ UNCHANGED output
     ELSE /\ UNCHANGED unknown
          /\ IF caller[e].after < Len(sorted[e])
             THEN /\ output' = [output EXCEPT ![e] = Append(@, sorted[e][caller[e].after + 1])]
                  /\ caller' = [caller EXCEPT ![e].pc = "yielded", ![e].after = Advanced(e)]
             ELSE Goto(e, "drained") /\ UNCHANGED output
  /\ UNCHANGED <<storage, sink, worker, faults>>

Resume(e) ==
  /\ At(e, "yielded")
  /\ Goto(e, "finalize")
  /\ UNCHANGED <<storage, sink, worker, faults, output, unknown>>

\* The consumer wants no more, or the stream breaks.
Abandon(e) ==
  /\ At(e, "yielded")
  /\ Failing(e)
  /\ UNCHANGED <<storage, sink, worker, faults, output, unknown>>

TickFails(e) ==
  /\ At(e, "finalize") /\ Fault
  /\ Failing(e)
  /\ UNCHANGED <<storage, sink, worker, output, unknown>>

-----------------------------------------------------------------------------
(* The destructor, on every way out once the execution id is known          *)

\* (mutation) a failing call is destroyed at once.
AtOnce(e) == At(e, "drained") \/ At(e, "failing")

\* The caller's threads have come back by then.
MayDestroy(e) ==
  \/ At(e, "drained")
  \/ At(e, "failing") /\ \A s \in Sinks : sink[e][s] = None

Ending(e) == IF At(e, "drained") THEN "complete" ELSE "failed"

\* execution_clear empties every namespace of the execution at once.
Destroy(e) ==
  /\ MayDestroy(e)
  /\ initRow' = initRow \ {e}
  /\ unsorted' = [unsorted EXCEPT ![e] = <<>>]
  /\ sorted' = [sorted EXCEPT ![e] = <<>>]
  /\ Goto(e, Ending(e))
  /\ UNCHANGED <<sink, worker, faults, output, unknown>>

\* Best effort: the caller ignores an error.
DestroyFails(e) ==
  /\ MayDestroy(e) /\ Fault
  /\ Goto(e, "lost")
  /\ UNCHANGED <<storage, sink, worker, output, unknown>>

SinkStep(e) == \E s \in Sinks :
  \/ Send(e, s)
  \/ ProcessLoad(e, s)
  \/ Process(e, s)
  \/ ProcessAnswered(e, s)
  \/ ProcessFails(e, s)

Next == \E e \in Executions :
  \/ InitPersist(e)
  \/ InitAnswered(e)
  \/ InitUnanswered(e)
  \/ SinkStep(e)
  \/ InputFails(e)
  \/ CombineScan(e)
  \/ CombineAppend(e)
  \/ CombineAnswered(e)
  \/ CombineFails(e)
  \/ Tick(e)
  \/ Resume(e)
  \/ Abandon(e)
  \/ TickFails(e)
  \/ Destroy(e)
  \/ DestroyFails(e)

Spec == Init /\ [][Next]_vars

-----------------------------------------------------------------------------
(* Properties                                                              *)

\* Whatever sink had which batch and whichever workers served the requests:
\* a consumer reads the batches in the order of the input, none twice and
\* none skipped, and to the last one if the call completes.
OutputIsWhole ==
  \A e \in Executions :
    /\ \A i \in DOMAIN output[e] : output[e][i].index = i
    /\ At(e, "complete") => Len(output[e]) = Batches

\* "init never ran or destructor already fired": no request of a call meets
\* that error, on any worker and on any way out.
NeverUnknown == unknown = {}

\* Once a caller that knew its execution and whose destructor was served has
\* ended, the storage holds nothing of the execution and never will.
NothingLeftBehind ==
  \A e \in Executions : caller[e].pc \in {"complete", "failed"} =>
    /\ e \notin initRow
    /\ unsorted[e] = <<>> /\ sorted[e] = <<>>

\* Each batch is sunk by the implementation the bind named.
OneImplementation ==
  \A e \in Executions : \A i \in DOMAIN output[e] : output[e][i].by = Called
=============================================================================
