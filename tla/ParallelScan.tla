---------------------------- MODULE ParallelScan ----------------------------
(***************************************************************************)
(* A table function scanned over several worker connections                *)
(* (vgi/client/client.py, _spawn_additional_workers and                    *)
(* _table_function_parallel): one reader thread per connection advances    *)
(* its producer stream and puts the batches on a shared queue; the         *)
(* consumer yields them and, however the scan ends, stops and joins the    *)
(* readers before it touches a stream.                                     *)
(*                                                                         *)
(* A worker may take arbitrarily long over a reply, so a join may time     *)
(* out with its reader still waiting.                                      *)
(***************************************************************************)
EXTENDS Integers, Sequences, FiniteSets

CONSTANTS
  NumWorkers,   \* fan_out.max_workers; connection 0 is the primary
  Direct,       \* TRUE: the workers are direct subprocesses (worker.proc is
                \* set); FALSE: pooled, HTTP, TCP or launched ones
  MaxBatches,   \* bound: batches of rows a worker produces
  MaxFailures   \* bound: RPCs that fail

ASSUME Parameters ==
  /\ NumWorkers \in Nat \ {0} /\ Direct \in BOOLEAN
  /\ MaxBatches \in Nat /\ MaxFailures \in Nat

VARIABLES
  main,        \* the consumer: where it is, workers_finished, how the scan ended
  reader,      \* reader[w]: where the thread reading connection w is
  results,     \* output_queue
  stop,        \* the stop event
  open,        \* open[w]: w's stream has neither ended nor been closed
  additional,  \* _additional_workers
  killed,      \* connections whose process was killed or has exited
  produced,    \* (history) produced[w]: batches of rows w has sent
  yielded,     \* (history) yielded[w]: those the consumer was given
  failures

vars == <<main, reader, results, stop, open, additional, killed, produced, yielded,
          failures>>

Workers == 0..(NumWorkers - 1)
Primary == 0
Rows(w) == [kind |-> "rows", worker |-> w]
Done    == [kind |-> "done"]
Failed  == [kind |-> "failed"]
MayFail == failures < MaxFailures

Init ==
  /\ main = [pc |-> "spawn", at |-> 0, finished |-> 0, outcome |-> "none"]
  /\ reader = [w \in Workers |-> "none"]
  /\ results = <<>> /\ stop = FALSE
  /\ open = [w \in Workers |-> w = Primary]
  /\ additional = {} /\ killed = {}
  /\ produced = [w \in Workers |-> 0] /\ yielded = [w \in Workers |-> 0]
  /\ failures = 0

-----------------------------------------------------------------------------
(* Opening the connections.                                                *)

\* _spawn_additional_workers opens every secondary connection and starts an
\* init thread for each.
Spawn ==
  /\ main.pc = "spawn"
  /\ additional' = Workers \ {Primary}
  /\ reader' = [w \in Workers |-> IF w = Primary THEN "ready" ELSE "init"]
  /\ main' = [main EXCEPT !.pc = "init"]
  /\ UNCHANGED <<results, stop, open, killed, produced, yielded, failures>>

InitSecondary(w) ==
  /\ reader[w] = "init"
  /\ \/ /\ reader' = [reader EXCEPT ![w] = "ready"] /\ open' = [open EXCEPT ![w] = TRUE]
        /\ UNCHANGED failures
     \/ /\ MayFail /\ failures' = failures + 1
        /\ reader' = [reader EXCEPT ![w] = "refused"] /\ UNCHANGED open
  /\ UNCHANGED <<main, results, stop, additional, killed, produced, yielded>>

\* All init threads are joined; one that failed fails the scan, and
\* otherwise a reader starts on every connection.
InitJoined ==
  /\ main.pc = "init" /\ \A w \in Workers : reader[w] # "init"
  /\ IF \A w \in Workers : reader[w] = "ready"
     THEN /\ reader' = [w \in Workers |-> "read"]
          /\ main' = [main EXCEPT !.pc = "collect"]
     ELSE /\ main' = [main EXCEPT !.pc = "end", !.outcome = "refused"]
          /\ UNCHANGED reader
  /\ UNCHANGED <<results, stop, open, additional, killed, produced, yielded, failures>>

-----------------------------------------------------------------------------
(* The reader threads (read_worker_output).                                *)

Running(w) == reader[w] \in {"read", "wait", "check", "cancel"}

\* The stream's iterator asks the worker for its next batch.
Ask(w) ==
  /\ reader[w] = "read"
  /\ reader' = [reader EXCEPT ![w] = "wait"]
  /\ UNCHANGED <<main, results, stop, open, additional, killed, produced, yielded, failures>>

\* A batch arrives; one without rows is not put on the queue.  The reply of a
\* worker killed since may already be in the pipe.
ReplyBatch(w) ==
  /\ reader[w] = "wait"
  /\ reader' = [reader EXCEPT ![w] = "check"]
  /\ \/ /\ produced[w] < MaxBatches
        /\ produced' = [produced EXCEPT ![w] = @ + 1]
        /\ results' = Append(results, Rows(w))
     \/ UNCHANGED <<produced, results>>
  /\ UNCHANGED <<main, stop, open, additional, killed, yielded, failures>>

\* The producer has no more: the loop ends and signals completion.
EndSignal == <<Done>>

ReplyEnd(w) ==
  /\ reader[w] = "wait"
  /\ reader' = [reader EXCEPT ![w] = "exit"]
  /\ open' = [open EXCEPT ![w] = FALSE]
  /\ results' = results \o EndSignal
  /\ UNCHANGED <<main, stop, additional, killed, produced, yielded, failures>>

\* The RPC fails, at the latest once the worker is killed.
ReadFails(w) ==
  /\ reader[w] \in {"wait", "cancel"}
  /\ \/ w \in killed /\ UNCHANGED failures
     \/ w \notin killed /\ MayFail /\ failures' = failures + 1
  /\ reader' = [reader EXCEPT ![w] = "exit"]
  /\ results' = Append(results, Failed)
  /\ UNCHANGED <<main, stop, open, additional, killed, produced, yielded>>

\* After each batch the reader looks at the stop event.
SeesStop == stop

CheckStop(w) ==
  /\ reader[w] = "check"
  /\ reader' = [reader EXCEPT ![w] = IF SeesStop THEN "cancel" ELSE "read"]
  /\ UNCHANGED <<main, results, stop, open, additional, killed, produced, yielded, failures>>

Cancel(w) ==
  /\ reader[w] = "cancel" /\ w \notin killed
  /\ reader' = [reader EXCEPT ![w] = "exit"]
  /\ open' = [open EXCEPT ![w] = FALSE]
  /\ results' = Append(results, Done)
  /\ UNCHANGED <<main, stop, additional, killed, produced, yielded, failures>>

-----------------------------------------------------------------------------
(* The consumer.                                                           *)

Take(outcome, stopping) ==
  /\ main' = [main EXCEPT !.pc = "join", !.outcome = outcome, !.at = 0]
  /\ stop' = stopping

CollectRows ==
  /\ main.pc = "collect" /\ results # <<>> /\ Head(results).kind = "rows"
  /\ yielded' = [yielded EXCEPT ![Head(results).worker] = @ + 1]
  /\ results' = Tail(results)
  /\ main' = [main EXCEPT !.pc = "yield"]
  /\ UNCHANGED <<reader, stop, open, additional, killed, produced, failures>>

CollectDone ==
  /\ main.pc = "collect" /\ results # <<>> /\ Head(results) = Done
  /\ results' = Tail(results)
  /\ main' = [main EXCEPT !.finished = @ + 1]
  /\ UNCHANGED <<reader, stop, open, additional, killed, produced, yielded, failures>>

CollectFailure ==
  /\ main.pc = "collect" /\ results # <<>> /\ Head(results) = Failed
  /\ results' = Tail(results)
  /\ Take("failed", TRUE)
  /\ UNCHANGED <<reader, open, additional, killed, produced, yielded, failures>>

Resume ==
  /\ main.pc = "yield"
  /\ main' = [main EXCEPT !.pc = "collect"]
  /\ UNCHANGED <<reader, results, stop, open, additional, killed, produced, yielded, failures>>

\* The consumer closes the generator: GeneratorExit at the yield.
Abandon ==
  /\ main.pc = "yield"
  /\ Take("abandoned", TRUE)
  /\ UNCHANGED <<reader, results, open, additional, killed, produced, yielded, failures>>

\* (mutation) one signal is not waited for.
MissesLast == main.finished >= NumWorkers - 1

\* while workers_finished < num_workers
AllFinished == main.finished = NumWorkers

Complete ==
  /\ main.pc = "collect" /\ AllFinished
  /\ Take("ok", stop)
  /\ UNCHANGED <<reader, results, open, additional, killed, produced, yielded, failures>>

\* _join_threads: each reader in turn, until it exits or the timeout is over.
Join ==
  /\ main.pc = "join"
  /\ main' = IF main.at = NumWorkers - 1
             THEN [main EXCEPT !.pc = "close", !.at = 0]
             ELSE [main EXCEPT !.at = @ + 1]
  /\ UNCHANGED <<reader, results, stop, open, additional, killed, produced, yielded, failures>>

\* (mutation) the worker of a blocked reader is left alone.
KillsNone(w) == {}

\* Each stream in turn: a connection whose reader is still alive has its
\* process killed, if it has one, and every other stream is closed.
Kills(w) == IF Direct THEN {w} ELSE {}

Close ==
  /\ main.pc = "close"
  /\ LET w == main.at IN
       IF Running(w)                           \* is_alive()
       THEN killed' = killed \union Kills(w) /\ UNCHANGED open
       ELSE open' = [open EXCEPT ![w] = FALSE] /\ UNCHANGED killed
  /\ main' = IF main.at = NumWorkers - 1
             THEN [main EXCEPT !.pc = "secondaries", !.at = 0]
             ELSE [main EXCEPT !.at = @ + 1]
  /\ UNCHANGED <<reader, results, stop, additional, produced, yielded, failures>>

\* _close_secondary_workers, _stop_worker: a subprocess is waited for or
\* killed, a pooled worker goes back to its pool.
CloseSecondaries ==
  /\ main.pc = "secondaries"
  /\ additional' = {}
  /\ killed' = IF Direct THEN killed \union additional ELSE killed
  /\ main' = [main EXCEPT !.pc = "end"]
  /\ UNCHANGED <<reader, results, stop, open, produced, yielded, failures>>

-----------------------------------------------------------------------------
Consumer ==
  \/ Spawn \/ InitJoined \/ CollectRows \/ CollectDone \/ CollectFailure \/ Resume
  \/ Abandon \/ Complete \/ Join \/ Close \/ CloseSecondaries

Reader(w) ==
  \/ InitSecondary(w) \/ Ask(w) \/ ReplyBatch(w) \/ ReplyEnd(w) \/ ReadFails(w)
  \/ CheckStop(w) \/ Cancel(w)

Next == Consumer \/ \E w \in Workers : Reader(w)

Spec == Init /\ [][Next]_vars

\* The consumer runs, readers run, and a read of a killed worker's pipe
\* fails.  Nothing makes a living worker reply.
FairSpec ==
  /\ Spec /\ WF_vars(Consumer)
  /\ \A w \in Workers : WF_vars(Ask(w) \/ CheckStop(w)) /\ WF_vars(w \in killed /\ ReadFails(w))

-----------------------------------------------------------------------------
(* Properties.                                                             *)

\* A scan that returns normally gave its consumer every batch of every
\* worker, and every worker's stream had ended by itself.
ScanIsComplete ==
  main.outcome = "ok" => /\ yielded = produced
                         /\ \A w \in Workers : reader[w] = "exit" /\ ~open[w]

\* When the scan is over no reader is left blocked on a pipe: each has
\* exited, or its worker is dead and its read will fail.
NoReaderLeftBlocked ==
  main.pc = "end" => \A w \in Workers : Running(w) => w \in killed

\* When a scan is over or stopped, every reader thread it started ends,
\* whatever the workers do.
ReadersEnd == main.pc = "join" ~> \A w \in Workers : ~Running(w)
=============================================================================
