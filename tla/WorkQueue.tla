----------------------------- MODULE WorkQueue -----------------------------
(***************************************************************************)
(* What the work queue of a FunctionStorage promises to the workers of a   *)
(* query (vgi/function_storage.py, the protocol's queue_push, queue_pop    *)
(* and queue_clear): items are added behind all earlier ones, each leaves  *)
(* the queue once, claimed by one worker, and the oldest of an execution   *)
(* leaves first.  Neither transactions nor crashes appear here: nothing is *)
(* ever half claimed.                                                      *)
(***************************************************************************)
EXTENDS Naturals

CONSTANTS Executions, Workers

VARIABLES
  pending,    \* the items in the queue, with their number and execution
  claimed,    \* who has which item
  discarded   \* items removed by queue_clear

queue == <<pending, claimed, discarded>>

Known == pending \cup discarded \cup {c[1] : c \in claimed}

QueueInit == pending = {} /\ claimed = {} /\ discarded = {}

\* A batch of items arrives at the end of an execution's queue.
Push(e) ==
  /\ pending \subseteq pending'
  /\ \A new \in pending' \ pending :
       new.exec = e /\ \A old \in Known : old.id < new.id
  /\ UNCHANGED <<claimed, discarded>>

\* A worker gets the oldest item of the execution.
Claim(e, w) == \E item \in pending :
  /\ item.exec = e
  /\ \A other \in pending : other.exec = e => item.id <= other.id
  /\ pending' = pending \ {item}
  /\ claimed' = claimed \cup {<<item, w>>}
  /\ UNCHANGED discarded

Discard(e) ==
  /\ pending' = {item \in pending : item.exec # e}
  /\ discarded' = discarded \cup (pending \ pending')
  /\ UNCHANGED claimed

QueueNext == \E e \in Executions :
  Push(e) \/ Discard(e) \/ \E w \in Workers : Claim(e, w)

QueueSpec == QueueInit /\ [][QueueNext]_queue
=============================================================================
