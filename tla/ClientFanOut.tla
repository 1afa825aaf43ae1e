---------------------------- MODULE ClientFanOut ----------------------------
(***************************************************************************)
(* One client making input-driven calls (vgi/client/client.py,             *)
(* table_in_out_function and scalar_function): the calling thread deals    *)
(* input batches round-robin over worker connections, one thread per       *)
(* connection exchanges them, and the calling thread collects the results. *)
(*                                                                         *)
(* The primary connection serves every call of the client; a call opens    *)
(* secondary ones as it needs them.  A batch is its number in the call,    *)
(* its output the number of batches the worker answered it with.           *)
(***************************************************************************)
EXTENDS Integers, Sequences, FiniteSets

CONSTANTS
  MaxWorkers,   \* fan_out.max_workers
  Calls,        \* bound: calls made on this client
  MaxBatches,   \* bound: input batches of a call
  MaxOutputs,   \* bound: output batches of an input batch
  MaxFailures   \* bound: connections, inputs and RPCs that fail, and
                \* generators the consumer closes early

ASSUME Parameters ==
  /\ {MaxWorkers, Calls, MaxBatches, MaxOutputs} \subseteq Nat \ {0}
  /\ MaxFailures \in Nat

VARIABLES
  main,        \* the calling thread: the call it is in and how far it is
  thread,      \* thread[t]: the worker thread of connection t[2] in call t[1]
  results,     \* output_queue of the current call
  additional,  \* _additional_workers
  stream,      \* stream[c]: the call whose init opened worker.stream, or 0
  made,        \* (history) made[k][b]: outputs the workers made of batch b
  answered,    \* (history) the batches <<k, b>> answered to their last output
  handed,      \* (history) handed[b]: outputs of b the consumer was given
  failures

vars == <<main, thread, results, additional, stream, made, answered, handed, failures>>

Primary == <<0, 0>>
Batches == 1..MaxBatches
Index   == 0..(MaxWorkers - 1)
Threads == (1..Calls) \X Index
Conns   == {Primary} \union ((1..Calls) \X (Index \ {0}))
ConnOf(t) == IF t[2] = 0 THEN Primary ELSE t

None      == 0        \* the end-of-input sentinel of an input queue
Done      == [kind |-> "done"]
Failed    == [kind |-> "failed"]
Output(b, n) == [kind |-> "batch", batch |-> b, outputs |-> n]

NotStarted == [pc |-> "none", queue |-> <<>>, item |-> None, outputs |-> 0]

Init ==
  /\ main = [pc |-> "idle", call |-> 0, sent |-> 0, received |-> 0, outcome |-> "none"]
  /\ thread = [t \in Threads |-> NotStarted]
  /\ results = <<>> /\ additional = {} /\ stream = [c \in Conns |-> 0]
  /\ made = [k \in 1..Calls |-> [b \in Batches |-> 0]] /\ answered = {}
  /\ handed = [b \in Batches |-> 0] /\ failures = 0

Started(k) == {t \in Threads : t[1] = k /\ thread[t].pc # "none"}
MayFail == failures < MaxFailures

\* The call ends, by its last statement or by an exception.  Its queues are
\* garbage from here on: nobody reads what its threads still put there.
Leave(outcome) == main' = [main EXCEPT !.pc = "idle", !.outcome = outcome]

-----------------------------------------------------------------------------
(* The calling thread.                                                     *)

\* table_in_out_function reads the first batch and sends bind and init.
BeginCall ==
  /\ main.pc = "idle" /\ main.call < Calls
  /\ main' = [pc |-> "init", call |-> main.call + 1, sent |-> 0, received |-> 0,
              outcome |-> "none"]
  /\ results' = <<>> /\ handed' = [b \in Batches |-> 0]
  /\ UNCHANGED <<thread, additional, stream, made, answered, failures>>

\* The answer to init: the primary's stream is this call's, its thread starts.
InitAnswered ==
  /\ main.pc = "init"
  /\ main' = [main EXCEPT !.pc = "deal"]
  /\ stream' = [stream EXCEPT ![Primary] = main.call]
  /\ thread' = [thread EXCEPT ![<<main.call, 0>>].pc = "get"]
  /\ UNCHANGED <<results, additional, made, answered, handed, failures>>

InitFails ==
  /\ main.pc = "init" /\ MayFail
  /\ failures' = failures + 1
  /\ Leave("failed")
  /\ UNCHANGED <<thread, results, additional, stream, made, answered, handed>>

\* Batch i goes to connection i % max_workers; a connection opens when its
\* first batch is dealt, and its own thread sends the secondary init.
Target == main.sent % MaxWorkers

NeedsConnection == thread[<<main.call, Target>>].pc = "none"

Deal ==
  /\ main.pc = "deal" /\ main.sent < MaxBatches
  /\ LET t == <<main.call, Target>> IN
       /\ thread' = [thread EXCEPT ![t].pc = IF NeedsConnection THEN "init" ELSE @,
                                   ![t].queue = Append(@, main.sent + 1)]
       /\ additional' = IF NeedsConnection THEN additional \union {ConnOf(t)} ELSE additional
  /\ main' = [main EXCEPT !.sent = @ + 1]
  /\ UNCHANGED <<results, stream, made, answered, handed, failures>>

Sentinels(k) == [t \in Threads |-> IF t \in Started(k)
                                   THEN [thread[t] EXCEPT !.queue = Append(@, None)]
                                   ELSE thread[t]]

\* (mutation) without the except clause.
NoSentinels == thread

\* The input iterator or _spawn_worker raises: every started thread is told
\* to finish what it was dealt, and the exception goes on.
AfterDealingFailed == Sentinels(main.call)

DealingFails ==
  /\ main.pc = "deal" /\ MayFail
  /\ main.sent > 0 \/ NeedsConnection
  /\ failures' = failures + 1
  /\ thread' = AfterDealingFailed
  /\ Leave("failed")
  /\ UNCHANGED <<results, additional, stream, made, answered, handed>>

InputEnds ==
  /\ main.pc = "deal" /\ main.sent > 0
  /\ thread' = Sentinels(main.call)
  /\ main' = [main EXCEPT !.pc = "collect"]
  /\ UNCHANGED <<results, additional, stream, made, answered, handed, failures>>

\* (mutation) completion signals are not counted.
ForgetsSignals == main.sent

\* One result per batch dealt and one completion signal per connection.
Expected == main.sent + Cardinality(Started(main.call))
Collecting == main.pc = "collect" /\ main.received < Expected

CollectBatch ==
  /\ Collecting /\ results # <<>> /\ Head(results).kind = "batch"
  /\ handed' = [handed EXCEPT ![Head(results).batch] = @ + Head(results).outputs]
  /\ results' = Tail(results)
  /\ main' = [main EXCEPT !.pc = "yield", !.received = @ + 1]
  /\ UNCHANGED <<thread, additional, stream, made, answered, failures>>

CollectDone ==
  /\ Collecting /\ results # <<>> /\ Head(results) = Done
  /\ results' = Tail(results)
  /\ main' = [main EXCEPT !.received = @ + 1]
  /\ UNCHANGED <<thread, additional, stream, made, answered, handed, failures>>

\* The first exception ends the call; the other threads are left running.
CollectFailure ==
  /\ Collecting /\ results # <<>> /\ Head(results) = Failed
  /\ results' = Tail(results)
  /\ Leave("failed")
  /\ UNCHANGED <<thread, additional, stream, made, answered, handed, failures>>

\* The consumer asks for the next output ...
Resume ==
  /\ main.pc = "yield"
  /\ main' = [main EXCEPT !.pc = "collect"]
  /\ UNCHANGED <<thread, results, additional, stream, made, answered, handed, failures>>

\* ... or closes the generator: no finally clause runs.
Abandon ==
  /\ main.pc = "yield" /\ MayFail
  /\ failures' = failures + 1
  /\ Leave("abandoned")
  /\ UNCHANGED <<thread, results, additional, stream, made, answered, handed>>

\* (mutation) only the primary's stream is closed.
KeepsSecondaries ==
  /\ main.pc = "collect" /\ main.received = Expected
  /\ stream' = [stream EXCEPT ![Primary] = 0]
  /\ \/ main' = [main EXCEPT !.pc = "finalize"]
     \/ Leave("ok")
  /\ UNCHANGED <<thread, results, additional, made, answered, handed, failures>>

\* Everything is in: close the streams and the secondary connections, then
\* run FINALIZE on the primary if the function has that stage.
CloseStreams ==
  /\ main.pc = "collect" /\ main.received = Expected
  /\ stream' = [c \in Conns |-> IF c \in additional \union {Primary} THEN 0 ELSE stream[c]]
  /\ additional' = {}
  /\ \/ main' = [main EXCEPT !.pc = "finalize"]
     \/ Leave("ok")
  /\ UNCHANGED <<thread, results, made, answered, handed, failures>>

Finalize ==
  /\ main.pc = "finalize"
  /\ \/ Leave("ok") /\ UNCHANGED failures
     \/ MayFail /\ failures' = failures + 1 /\ Leave("failed")
  /\ UNCHANGED <<thread, results, additional, stream, made, answered, handed>>

-----------------------------------------------------------------------------
(* The worker threads (_worker_thread_loop, _process_batch_on_worker).     *)

Put(t, r) ==
  results' = IF t[1] = main.call /\ main.pc # "idle" THEN Append(results, r) ELSE results

\* (mutation) the exception is not put on the output queue.
SilentFail(t) ==
  /\ thread' = [thread EXCEPT ![t].pc = "exit"]
  /\ UNCHANGED results

\* The exception of a thread is its last result; its queue stays unread.
Fail(t) ==
  /\ thread' = [thread EXCEPT ![t].pc = "exit"]
  /\ Put(t, Failed)

InitSecondary(t) ==
  /\ thread[t].pc = "init"
  /\ stream' = [stream EXCEPT ![t] = t[1]]
  /\ thread' = [thread EXCEPT ![t].pc = "get"]
  /\ UNCHANGED <<main, results, additional, made, answered, handed, failures>>

\* The secondary init or an exchange fails.
RpcFails(t) ==
  /\ thread[t].pc \in {"init", "wait"} /\ MayFail
  /\ failures' = failures + 1
  /\ Fail(t)
  /\ UNCHANGED <<main, additional, stream, made, answered, handed>>

Item(t) == Head(thread[t].queue)
HasItem(t) == thread[t].pc = "get" /\ thread[t].queue # <<>>

\* The input is sent on whatever worker.stream is now.
SendBatch(t) ==
  /\ HasItem(t) /\ Item(t) # None /\ stream[ConnOf(t)] # 0
  /\ thread' = [thread EXCEPT ![t] = [pc |-> "wait", queue |-> Tail(thread[t].queue),
                                      item |-> Item(t), outputs |-> 0]]
  /\ UNCHANGED <<main, results, additional, stream, made, answered, handed, failures>>

NoStream(t) ==
  /\ HasItem(t) /\ Item(t) # None /\ stream[ConnOf(t)] = 0
  /\ Fail(t)
  /\ UNCHANGED <<main, additional, stream, made, answered, handed, failures>>

\* (mutation) no tick for the rest.
StopsAtFirst(t, more) == TRUE

\* The worker's reply; after HAVE_MORE_OUTPUT the thread ticks for the next.
LastReply(t, more) == ~more

Answer(t) ==
  /\ thread[t].pc = "wait"
  /\ \E more \in BOOLEAN :
       LET b == thread[t].item
           n == thread[t].outputs + 1
       IN /\ more => n < MaxOutputs
          /\ made' = [made EXCEPT ![t[1]][b] = @ + 1]
          /\ answered' = IF more THEN answered ELSE answered \union {<<t[1], b>>}
          /\ IF LastReply(t, more)
             THEN /\ thread' = [thread EXCEPT ![t].pc = "get", ![t].outputs = 0]
                  /\ Put(t, Output(b, n))
             ELSE /\ thread' = [thread EXCEPT ![t].outputs = n]
                  /\ UNCHANGED results
  /\ UNCHANGED <<main, additional, stream, handed, failures>>

EndOfInput(t) ==
  /\ HasItem(t) /\ Item(t) = None
  /\ thread' = [thread EXCEPT ![t].pc = "exit", ![t].queue = Tail(@)]
  /\ Put(t, Done)
  /\ UNCHANGED <<main, additional, stream, made, answered, handed, failures>>

-----------------------------------------------------------------------------
Calling ==
  \/ InitAnswered \/ InitFails \/ Deal \/ DealingFails \/ InputEnds
  \/ CollectBatch \/ CollectDone \/ CollectFailure \/ Resume \/ Abandon
  \/ CloseStreams \/ Finalize

Working(t) ==
  \/ InitSecondary(t) \/ RpcFails(t) \/ SendBatch(t) \/ NoStream(t) \/ Answer(t)
  \/ EndOfInput(t)

Next == BeginCall \/ Calling \/ \E t \in Threads : Working(t)

Spec == Init /\ [][Next]_vars

\* Threads are scheduled, workers reply or their connection fails, the input
\* ends or goes on, and the consumer goes on or closes the generator.
FairSpec == Spec /\ WF_vars(Calling) /\ \A t \in Threads : WF_vars(Working(t))

-----------------------------------------------------------------------------
(* Properties.                                                             *)

\* A call that returns without an exception gave its consumer every output of
\* every batch it was fed, and at no time is an output given twice.
DeliversEverything ==
  /\ main.call > 0 => \A b \in Batches : handed[b] <= made[main.call][b]
  /\ main.outcome = "ok" =>
       \A b \in 1..main.sent : /\ <<main.call, b>> \in answered
                               /\ handed[b] = made[main.call][b]

\* FINALIZE, which reads the state all the workers have stored, is sent only
\* when every worker has answered everything it was dealt and no thread of
\* the call can touch a connection again.
FinalizeComesLast ==
  main.pc = "finalize" =>
    /\ \A b \in 1..main.sent : <<main.call, b>> \in answered
    /\ \A t \in Started(main.call) : thread[t].pc = "exit"
    /\ additional = {}

\* One thread at a time has a request outstanding on a connection, the one
\* dedicated to it: a pipe carries one request and its reply in lockstep.
OneRequestPerPipe ==
  \A c \in Conns :
    Cardinality({t \in Threads : ConnOf(t) = c /\ thread[t].pc = "wait"})
      + (IF c = Primary /\ main.pc \in {"init", "finalize"} THEN 1 ELSE 0) <= 1

\* A call that ends normally has closed every secondary connection, those that
\* failed calls before it left open included.
SecondariesClosed == main.pc = "idle" /\ main.outcome = "ok" => additional = {}

\* Whatever fails, the consumer gets all of a call's outputs or an exception:
\* the collector never waits for a result no thread will put.
CallEnds == []<>(main.pc = "idle")

\* Every thread ends, the ones an exception leaves behind included.
ThreadsEnd == <>[](\A t \in Threads : thread[t].pc \in {"none", "exit"})
=============================================================================
