------------------------ MODULE TableBufferingProofs ------------------------
(***************************************************************************)
(* Proofs about TableBuffering, for any number of calls, sinks and batches *)
(* and any number of failed requests: a request never meets an execution   *)
(* whose parameters are not stored, a call that ended leaves nothing, and  *)
(* the output is the input, in order and to its end.                       *)
(*                                                                         *)
(* None of these is inductive by itself.  What makes the first two so is   *)
(* who may still have a request under way: sinks only while the caller     *)
(* sinks or gives up, and the destructor only once none of them has.  The  *)
(* third follows a batch: while the caller sinks, each batch dealt is      *)
(* carried by one sink or logged once, so that combine sorts all of them,  *)
(* and the i-th of the sorted log is batch i.                              *)
(***************************************************************************)
EXTENDS TableBuffering, FiniteSetTheorems, SequenceTheorems, TLAPS

\* What the proofs use of the variables' types: where they are defined.
Shape ==
  /\ DOMAIN caller = Executions /\ \A e \in Executions : "pc" \in DOMAIN caller[e]
  /\ DOMAIN sink = Executions /\ \A e \in Executions : DOMAIN sink[e] = Sinks
  /\ DOMAIN unsorted = Executions /\ DOMAIN sorted = Executions

\* The caller's states in which its requests need the execution's row.
Needing == {"init", "sink", "combine", "finalize", "yielded", "drained", "failing"}

\* The row stays as long as it is needed.
RowStays(e) == caller[e].pc \in Needing => e \in initRow

\* Only a caller that sinks or gives up has sink requests under way.
SinksQuiet(e) == caller[e].pc \notin {"sink", "failing"} => \A s \in Sinks : sink[e][s] = None

\* What ended is gone.
Gone(e) == caller[e].pc \in {"complete", "failed"} =>
  e \notin initRow /\ unsorted[e] = <<>> /\ sorted[e] = <<>>

Inv ==
  /\ Shape
  /\ NeverUnknown
  /\ \A e \in Executions : RowStays(e) /\ SinksQuiet(e) /\ Gone(e)

-----------------------------------------------------------------------------
LEMMA InitInv == Init => Inv
<1> SUFFICES ASSUME Init PROVE Inv
  OBVIOUS
<1>1. Shape
  BY DEF Init, Shape
<1>2. NeverUnknown
  BY DEF Init, NeverUnknown
<1>3. ASSUME NEW e \in Executions PROVE RowStays(e) /\ SinksQuiet(e) /\ Gone(e)
  BY <1>3 DEF Init, RowStays, SinksQuiet, Gone, Needing
<1> QED BY <1>1, <1>2, <1>3 DEF Inv

\* A step that concerns one call keeps the invariant of the others.
OthersKept(e) == \A x \in Executions \ {e} :
  /\ caller'[x] = caller[x] /\ sink'[x] = sink[x]
  /\ unsorted'[x] = unsorted[x] /\ sorted'[x] = sorted[x]
  /\ x \in initRow' <=> x \in initRow

LEMMA OneCallSteps ==
  ASSUME Inv, NEW e \in Executions, OthersKept(e), Shape', unknown' = unknown,
         RowStays(e)', SinksQuiet(e)', Gone(e)'
  PROVE  Inv'
<1>1. ASSUME NEW x \in Executions \ {e} PROVE (RowStays(x) /\ SinksQuiet(x) /\ Gone(x))'
  BY <1>1 DEF Inv, OthersKept, RowStays, SinksQuiet, Gone
<1> QED BY <1>1 DEF Inv, NeverUnknown

\* What going somewhere does to the callers.
LEMMA Went ==
  ASSUME Shape, NEW e \in Executions, NEW pc, Goto(e, pc)
  PROVE  /\ DOMAIN caller' = Executions /\ \A x \in Executions : "pc" \in DOMAIN caller'[x]
         /\ caller'[e].pc = pc
         /\ \A x \in Executions \ {e} : caller'[x] = caller[x]
  BY DEF Shape, Goto

\* A step that only moves the caller, not to an end.
LEMMA MoveInv ==
  ASSUME Inv, NEW e \in Executions, NEW pc, Goto(e, pc), UNCHANGED <<storage, sink, unknown>>,
         pc \in Needing => e \in initRow,
         pc \notin {"sink", "failing"} => \A s \in Sinks : sink[e][s] = None,
         pc \notin {"complete", "failed"}
  PROVE  Inv'
<1>1. Shape' /\ OthersKept(e)
  BY Went DEF Inv, Shape, OthersKept, storage
<1>2. RowStays(e)' /\ SinksQuiet(e)' /\ Gone(e)'
  BY Went DEF Inv, RowStays, SinksQuiet, Gone, storage
<1> QED BY <1>1, <1>2, OneCallSteps

\* Giving up is such a move, wherever the row is still there.
LEMMA FailingInv ==
  ASSUME Inv, NEW e \in Executions, Failing(e), e \in initRow, UNCHANGED <<storage, sink, unknown>>
  PROVE  Inv'
<1>1. Goto(e, "failing")
  BY DEF Failing, Goto
<1> QED BY <1>1, MoveInv

-----------------------------------------------------------------------------
LEMMA InitStepsInv ==
  ASSUME Inv, NEW e \in Executions, InitPersist(e) \/ InitAnswered(e) \/ InitUnanswered(e)
  PROVE  Inv'
<1>1. CASE InitPersist(e)
  <2>1. Shape' /\ OthersKept(e)
    BY <1>1, Went DEF InitPersist, At, Inv, Shape, OthersKept
  <2>2. RowStays(e)' /\ SinksQuiet(e)' /\ Gone(e)'
    BY <1>1, Went DEF InitPersist, At, Inv, RowStays, SinksQuiet, Gone
  <2> QED BY <1>1, <2>1, <2>2, OneCallSteps DEF InitPersist
<1>2. CASE InitAnswered(e)
  BY <1>2, MoveInv DEF InitAnswered, At, Inv, RowStays, Needing
<1>3. CASE InitUnanswered(e)
  BY <1>3, MoveInv DEF InitUnanswered, At, Inv, SinksQuiet, Needing
<1> QED BY <1>1, <1>2, <1>3

\* A sink's step while its caller sinks or gives up: whatever it does to the
\* requests and the log of its call.
LEMMA SinkInv ==
  ASSUME Inv, NEW e \in Executions, Shape', OthersKept(e),
         caller[e].pc \in {"sink", "failing"}, caller'[e].pc \in {"sink", "failing"},
         UNCHANGED <<initRow, unknown>>
  PROVE  Inv'
<1>1. RowStays(e)' /\ SinksQuiet(e)' /\ Gone(e)'
  BY DEF Inv, RowStays, SinksQuiet, Gone, Needing
<1> QED BY <1>1, OneCallSteps

LEMMA SinkStepsInv ==
  ASSUME Inv, NEW e \in Executions, SinkStep(e)
  PROVE  Inv'
<1> PICK s \in Sinks :
       Send(e, s) \/ ProcessLoad(e, s) \/ Process(e, s) \/ ProcessAnswered(e, s) \/ ProcessFails(e, s)
  BY DEF SinkStep
<1>1. sink[e][s] # None => caller[e].pc \in {"sink", "failing"} /\ e \in initRow
  BY DEF Inv, SinksQuiet, RowStays, Needing
<1>2. CASE Send(e, s)
  <2>1. Shape' /\ OthersKept(e) /\ caller'[e].pc = "sink"
    BY <1>2 DEF Send, At, Inv, Shape, OthersKept, storage
  <2> QED BY <1>2, <2>1, SinkInv DEF Send, At, storage
<1>3. CASE ProcessLoad(e, s)
  <2>1. sink' = [sink EXCEPT ![e][s].stage = "loaded"] /\ UNCHANGED <<storage, caller, unknown>>
    BY <1>1, <1>3 DEF ProcessLoad, Known
  <2>2. Shape' /\ OthersKept(e)
    BY <2>1 DEF Inv, Shape, OthersKept, storage
  <2> QED BY <1>1, <1>3, <2>1, <2>2, SinkInv DEF ProcessLoad, storage
<1>4. CASE Process(e, s)
  <2>1. Shape' /\ OthersKept(e)
    BY <1>4 DEF Process, Inv, Shape, OthersKept
  <2> QED BY <1>1, <1>4, <2>1, SinkInv DEF Process
<1>5. CASE ProcessAnswered(e, s)
  <2>1. Shape' /\ OthersKept(e)
    BY <1>5 DEF ProcessAnswered, Inv, Shape, OthersKept, storage
  <2> QED BY <1>1, <1>5, <2>1, SinkInv DEF ProcessAnswered, storage
<1>6. CASE ProcessFails(e, s)
  <2>1. Shape' /\ OthersKept(e) /\ caller'[e].pc = "failing"
    BY <1>6 DEF ProcessFails, Failing, Inv, Shape, OthersKept, storage
  <2> QED BY <1>1, <1>6, <2>1, SinkInv DEF ProcessFails, storage
<1> QED BY <1>2, <1>3, <1>4, <1>5, <1>6

LEMMA CombineStepsInv ==
  ASSUME Inv, NEW e \in Executions,
         \/ InputFails(e) \/ CombineScan(e) \/ CombineAppend(e) \/ CombineAnswered(e) \/ CombineFails(e)
  PROVE  Inv'
<1>1. CASE InputFails(e)
  BY <1>1, FailingInv DEF InputFails, At, Inv, RowStays, Needing
<1>2. CASE CombineScan(e)
  <2>1. e \in initRow
    BY <1>2 DEF CombineScan, At, Inv, RowStays, Needing
  <2> QED BY <1>2, <2>1, MoveInv DEF CombineScan, AllSunk, Known
<1>3. CASE CombineAppend(e)
  <2>1. Shape' /\ OthersKept(e)
    BY <1>3 DEF CombineAppend, Inv, Shape, OthersKept
  <2>2. RowStays(e)' /\ SinksQuiet(e)' /\ Gone(e)'
    BY <1>3 DEF CombineAppend, At, Inv, RowStays, SinksQuiet, Gone
  <2> QED BY <1>3, <2>1, <2>2, OneCallSteps DEF CombineAppend
<1>4. CASE CombineAnswered(e)
  BY <1>4, MoveInv DEF CombineAnswered, At, Inv, RowStays, SinksQuiet, Needing
<1>5. CASE CombineFails(e)
  BY <1>5, FailingInv DEF CombineFails, At, Inv, RowStays, Needing
<1> QED BY <1>1, <1>2, <1>3, <1>4, <1>5

LEMMA FinalizeStepsInv ==
  ASSUME Inv, NEW e \in Executions, Tick(e) \/ Resume(e) \/ Abandon(e) \/ TickFails(e)
  PROVE  Inv'
<1>1. (At(e, "finalize") \/ At(e, "yielded")) => e \in initRow /\ \A s \in Sinks : sink[e][s] = None
  BY DEF At, Inv, RowStays, SinksQuiet, Needing
<1>2. CASE Tick(e)
  <2>1. CASE caller[e].after < Len(sorted[e])
    <3>1. caller' = [caller EXCEPT ![e].pc = "yielded", ![e].after = Advanced(e)]
          /\ UNCHANGED <<storage, sink, unknown>>
      BY <1>1, <1>2, <2>1 DEF Tick, Known
    <3>2. Shape' /\ OthersKept(e) /\ caller'[e].pc = "yielded"
      BY <3>1 DEF Inv, Shape, OthersKept, storage
    <3>3. RowStays(e)' /\ SinksQuiet(e)' /\ Gone(e)'
      BY <1>1, <1>2, <3>1, <3>2 DEF Tick, RowStays, SinksQuiet, Gone, storage
    <3> QED BY <3>1, <3>2, <3>3, OneCallSteps
  <2>2. CASE ~(caller[e].after < Len(sorted[e]))
    BY <1>1, <1>2, <2>2, MoveInv DEF Tick, Known
  <2> QED BY <2>1, <2>2
<1>3. CASE Resume(e)
  BY <1>1, <1>3, MoveInv DEF Resume
<1>4. CASE Abandon(e)
  BY <1>1, <1>4, FailingInv DEF Abandon
<1>5. CASE TickFails(e)
  BY <1>1, <1>5, FailingInv DEF TickFails
<1> QED BY <1>2, <1>3, <1>4, <1>5

\* The destructor meets no request of its call, so nothing is stored after it.
LEMMA DestroyStepsInv ==
  ASSUME Inv, NEW e \in Executions, Destroy(e) \/ DestroyFails(e)
  PROVE  Inv'
<1>1. MayDestroy(e) => \A s \in Sinks : sink[e][s] = None
  BY DEF MayDestroy, At, Inv, SinksQuiet
<1>2. CASE Destroy(e)
  <2>1. Shape' /\ OthersKept(e) /\ caller'[e].pc = Ending(e)
    BY <1>2, Went DEF Destroy, Inv, Shape, OthersKept
  <2>2. Ending(e) \in {"complete", "failed"}
    BY DEF Ending
  <2>3. RowStays(e)' /\ SinksQuiet(e)' /\ Gone(e)'
    BY <1>1, <1>2, <2>1, <2>2 DEF Destroy, Inv, Shape, RowStays, SinksQuiet, Gone, Needing
  <2> QED BY <1>2, <2>1, <2>3, OneCallSteps DEF Destroy
<1>3. CASE DestroyFails(e)
  BY <1>1, <1>3, MoveInv DEF DestroyFails, Needing
<1> QED BY <1>2, <1>3

LEMMA NextInv == Inv /\ [Next]_vars => Inv'
<1> SUFFICES ASSUME Inv, [Next]_vars PROVE Inv'
  OBVIOUS
<1>1. CASE Next
  BY <1>1, InitStepsInv, SinkStepsInv, CombineStepsInv, FinalizeStepsInv, DestroyStepsInv DEF Next
<1>2. CASE UNCHANGED vars
  BY <1>2 DEF vars, storage, Inv, Shape, NeverUnknown, RowStays, SinksQuiet, Gone
<1> QED BY <1>1, <1>2

-----------------------------------------------------------------------------
\* No request of a call, on any worker and on any way out, finds the call's
\* parameters missing: they are stored before the caller knows the execution
\* and removed after the last request has come back (_load_table_buffering_params).
THEOREM RequestsFindTheirCall == Spec => []NeverUnknown
<1>1. Inv => NeverUnknown
  BY DEF Inv
<1> QED BY <1>1, InitInv, NextInv, PTL DEF Spec

\* A call that ended with its destructor served has left no row behind, and no
\* request of it is under way that could still write one (Client.table_buffering_function).
THEOREM EndedIsGone == Spec => []NothingLeftBehind
<1>1. Inv => NothingLeftBehind
  BY DEF Inv, Gone, NothingLeftBehind
<1> QED BY <1>1, InitInv, NextInv, PTL DEF Spec

-----------------------------------------------------------------------------
(* The output.                                                             *)

Entries == [index : 1..Batches, by : {Implementation}]

PCs == {"start", "init", "sink", "combine", "finalize", "yielded", "drained", "failing", "lost",
        "complete", "failed"}

TypeInv ==
  /\ caller \in [Executions -> [pc : PCs, dealt : 0..Batches, after : 0..Batches]]
  /\ sink \in [Executions -> [Sinks -> Requests \cup {None}]]
  /\ unsorted \in [Executions -> Seq(Entries)]
  /\ sorted \in [Executions -> Seq(Entries)]
  /\ output \in [Executions -> Seq(Entries)]
  /\ DOMAIN worker = Executions

Logged(e, n) == \E i \in DOMAIN unsorted[e] : unsorted[e][i].index = n

\* Sink s has batch n and the log does not have it yet.
Carried(e, s, n) ==
  sink[e][s] # None /\ sink[e][s].index = n /\ sink[e][s].stage \in {"sent", "loaded"}

\* While the caller sinks, each batch dealt is carried by one sink or logged
\* once.
Sunk(e) ==
  /\ caller[e].pc \in {"start", "init"} => caller[e].dealt = 0 /\ unsorted[e] = <<>>
  /\ caller[e].pc \in {"start", "init", "sink"} => sorted[e] = <<>>
  /\ caller[e].pc = "sink" =>
       /\ \A n \in 1..caller[e].dealt : Logged(e, n) \/ \E s \in Sinks : Carried(e, s, n)
       /\ \A n \in 1..Batches : Logged(e, n) => n <= caller[e].dealt
       /\ \A s \in Sinks, n \in 1..Batches : Carried(e, s, n) =>
            n <= caller[e].dealt /\ ~Logged(e, n) /\ \A r \in Sinks : Carried(e, r, n) => r = s
       /\ \A i, j \in DOMAIN unsorted[e] : unsorted[e][i].index = unsorted[e][j].index => i = j

\* Combine has written the first batches and holds the others.
Sorting(e) ==
  /\ caller[e].pc = "combine" =>
       /\ worker[e] \in Seq(Entries) /\ Len(sorted[e]) + Len(worker[e]) = Batches
       /\ \A i \in DOMAIN worker[e] : worker[e][i].index = Len(sorted[e]) + i
  /\ caller[e].pc \in {"finalize", "yielded", "drained"} => Len(sorted[e]) = Batches
  /\ caller[e].pc \in {"combine", "finalize", "yielded", "drained"} =>
       \A i \in DOMAIN sorted[e] : sorted[e][i].index = i

\* The consumer has the first batches.
Drained(e) ==
  /\ Len(output[e]) = caller[e].after
  /\ \A i \in DOMAIN output[e] : output[e][i].index = i
  /\ caller[e].pc \in {"drained", "complete"} => caller[e].after = Batches

Whole == TypeInv /\ \A e \in Executions : Sunk(e) /\ Sorting(e) /\ Drained(e)

-----------------------------------------------------------------------------
LEMMA BatchesAre == Batches \in Nat
  BY Parameters

LEMMA IntervalIs ==
  ASSUME NEW n \in Nat
  PROVE  IsFiniteSet(1..n) /\ Cardinality(1..n) = n
<1>1. n >= 1 => n - 1 + 1 = n
  OBVIOUS
<1> QED BY <1>1, FS_Interval

\* A log of all the batches, each once: its i-th entry in order is batch i.
LEMMA OrderIs ==
  ASSUME NEW log \in Seq(Entries), \A n \in 1..Batches : \E i \in DOMAIN log : log[i].index = n,
         \A i, j \in DOMAIN log : log[i].index = log[j].index => i = j
  PROVE  /\ InOrder(log) \in Seq(Entries) /\ Len(InOrder(log)) = Batches
         /\ \A i \in DOMAIN InOrder(log) : InOrder(log)[i].index = i
<1> DEFINE f == [i \in DOMAIN log |-> log[i].index]
           Lower(n) == {i \in DOMAIN log : log[i].index < n}
<1>1. /\ DOMAIN log = 1..Len(log) /\ Len(log) \in Nat
      /\ \A i \in DOMAIN log : i \in Nat /\ log[i] \in Entries /\ log[i].index \in 1..Batches
      /\ \A i \in DOMAIN log : log[i].index \in Nat
  <2>1. /\ DOMAIN log = 1..Len(log) /\ Len(log) \in Nat
        /\ \A i \in DOMAIN log : log[i] \in Entries
    BY LenProperties
  <2>2. \A x \in Entries : x.index \in 1..Batches
    BY DEF Entries
  <2>3. \A i \in DOMAIN log : i \in Nat /\ log[i].index \in 1..Batches
    BY <2>1, <2>2
  <2>4. \A n \in 1..Batches : n \in Nat
    BY BatchesAre
  <2> QED BY <2>1, <2>3, <2>4
<1>2. f \in Bijection(1..Len(log), 1..Batches)
  <2>1. /\ f \in [1..Len(log) -> 1..Batches]
        /\ \A i, j \in 1..Len(log) : f[i] = f[j] => i = j
        /\ \A n \in 1..Batches : \E i \in 1..Len(log) : f[i] = n
    BY <1>1
  <2> QED BY <2>1 DEF Bijection, Injection, IsInjective, Surjection
<1>3. Len(log) = Batches
  <2>1. IsFiniteSet(1..Len(log)) /\ Cardinality(1..Len(log)) = Len(log) /\ Cardinality(1..Batches) = Batches
    BY <1>1, BatchesAre, IntervalIs
  <2> QED BY <1>2, <2>1, FS_Bijection DEF ExistsBijection
<1>4. ASSUME NEW n \in 1..Batches PROVE Cardinality(Lower(n)) = n - 1
  <2> DEFINE g == [i \in Lower(n) |-> log[i].index]
  <2>1. /\ g \in [Lower(n) -> 1..(n - 1)]
        /\ \A i, j \in Lower(n) : g[i] = g[j] => i = j
        /\ \A m \in 1..(n - 1) : \E i \in Lower(n) : g[i] = m
    <3>1. \A i \in Lower(n) : i \in DOMAIN log /\ log[i].index \in 1..(n - 1)
      <4>1. \A i \in Nat : i < n /\ i >= 1 => i \in 1..(n - 1)
        BY BatchesAre
      <4>2. \A i \in Lower(n) : i \in DOMAIN log /\ log[i].index < n /\ log[i].index \in Nat /\ log[i].index >= 1
        BY <1>1
      <4> QED BY <4>1, <4>2
    <3>2. \A m \in 1..(n - 1) : m \in 1..Batches /\ m < n
      BY BatchesAre
    <3>3. \A m \in 1..(n - 1) : \E i \in Lower(n) : log[i].index = m
      BY <3>2
    <3> QED BY <3>1, <3>3
  <2>2. g \in Bijection(Lower(n), 1..(n - 1))
    BY <2>1 DEF Bijection, Injection, IsInjective, Surjection
  <2>3. n \in Nat /\ n - 1 \in Nat
    BY BatchesAre
  <2>4. IsFiniteSet(Lower(n))
    <3>1. IsFiniteSet(DOMAIN log) /\ Lower(n) \in SUBSET DOMAIN log
      BY <1>1, IntervalIs
    <3> QED BY <3>1, FS_Subset
  <2>5. Cardinality(1..(n - 1)) = n - 1
    BY <2>3, IntervalIs
  <2> QED BY <2>2, <2>4, <2>5, FS_Bijection DEF ExistsBijection
<1>5. \A k \in DOMAIN log : {j \in DOMAIN log : Precedes(log, j, k)} = Lower(log[k].index)
  BY <1>1 DEF Precedes
<1>6. ASSUME NEW i \in DOMAIN log PROVE InOrder(log)[i] \in Entries /\ InOrder(log)[i].index = i
  <2> DEFINE Place(k) == Cardinality({j \in DOMAIN log : Precedes(log, j, k)}) = i - 1
  <2>1. \A k \in DOMAIN log : Place(k) <=> log[k].index - 1 = i - 1
    BY <1>1, <1>4, <1>5
  <2>2. i \in 1..Batches
    BY <1>1, <1>3
  <2>3. PICK m \in DOMAIN log : log[m].index = i
    BY <2>2
  <2>4. Place(m)
    BY <2>1, <2>3
  <2>5. \A k \in DOMAIN log : Place(k) => log[k].index = i
    <3>1. \A a, b \in Nat : a - 1 = b - 1 => a = b
      OBVIOUS
    <3>2. i \in Nat /\ \A k \in DOMAIN log : log[k].index \in Nat
      BY <1>1
    <3> HIDE DEF Place
    <3> QED BY <2>1, <3>1, <3>2
  <2>6. (CHOOSE k \in DOMAIN log : Place(k)) \in DOMAIN log /\ log[CHOOSE k \in DOMAIN log : Place(k)].index = i
    BY <2>4, <2>5
  <2>7. InOrder(log)[i] = log[CHOOSE k \in DOMAIN log : Place(k)]
    BY DEF InOrder
  <2> QED BY <1>1, <2>6, <2>7
<1>7. InOrder(log) \in [1..Len(log) -> Entries]
  <2>1. DOMAIN InOrder(log) = 1..Len(log) /\ InOrder(log) = [i \in 1..Len(log) |-> InOrder(log)[i]]
    BY <1>1 DEF InOrder
  <2> QED BY <1>1, <1>6, <2>1
<1> HIDE DEF f, Lower
<1>8. InOrder(log) \in Seq(Entries) /\ Len(InOrder(log)) = Len(log)
  BY <1>1, <1>7
<1>9. DOMAIN InOrder(log) = DOMAIN log
  BY <1>1, <1>7
<1> QED BY <1>3, <1>6, <1>8, <1>9

\* An entry is added to a log, and taken from what combine holds.
LEMMA AddEntry ==
  ASSUME NEW s \in Seq(Entries), NEW x \in Entries
  PROVE  /\ Append(s, x) \in Seq(Entries) /\ Len(Append(s, x)) = Len(s) + 1 /\ Len(s) \in Nat
         /\ DOMAIN Append(s, x) = DOMAIN s \cup {Len(s) + 1} /\ Len(s) + 1 \notin DOMAIN s
         /\ \A i \in DOMAIN s : Append(s, x)[i] = s[i]
         /\ Append(s, x)[Len(s) + 1] = x
  OBVIOUS

LEMMA TakeEntry ==
  ASSUME NEW s \in Seq(Entries), s # <<>>
  PROVE  /\ Head(s) \in Entries /\ Tail(s) \in Seq(Entries) /\ Len(Tail(s)) = Len(s) - 1
         /\ Len(s) \in Nat /\ 1 \in DOMAIN s /\ Head(s) = s[1]
         /\ \A i \in DOMAIN Tail(s) : i \in Nat /\ i + 1 \in DOMAIN s /\ Tail(s)[i] = s[i + 1]
<1>1. /\ Head(s) \in Entries /\ Tail(s) \in Seq(Entries) /\ Len(Tail(s)) = Len(s) - 1
      /\ \A i \in 1..Len(Tail(s)) : Tail(s)[i] = s[i + 1]
  BY HeadTailProperties
<1>2. Len(s) \in Nat \ {0} /\ DOMAIN s = 1..Len(s) /\ DOMAIN Tail(s) = 1..(Len(s) - 1)
  BY <1>1, LenProperties
<1>3. Head(s) = s[1]
  BY <1>2
<1> QED BY <1>1, <1>2, <1>3

-----------------------------------------------------------------------------
Callers == [pc : PCs, dealt : 0..Batches, after : 0..Batches]

\* A step of one call leaves the others as they are.
OthersWhole(e) == \A x \in Executions \ {e} :
  /\ caller'[x] = caller[x] /\ sink'[x] = sink[x]
  /\ unsorted'[x] = unsorted[x] /\ sorted'[x] = sorted[x]
  /\ worker'[x] = worker[x] /\ output'[x] = output[x]

LEMMA OneCallWhole ==
  ASSUME Whole, NEW e \in Executions, TypeInv', OthersWhole(e), Sunk(e)', Sorting(e)', Drained(e)'
  PROVE  Whole'
<1>1. ASSUME NEW x \in Executions \ {e} PROVE Sunk(x)' /\ Sorting(x)' /\ Drained(x)'
  <2>1. Sunk(x) /\ Sorting(x) /\ Drained(x)
    BY <1>1 DEF Whole
  <2>2. Sunk(x)'
    BY <1>1, <2>1 DEF OthersWhole, Sunk, Logged, Carried
  <2>3. Sorting(x)' /\ Drained(x)'
    BY <1>1, <2>1 DEF OthersWhole, Sorting, Drained
  <2> QED BY <2>2, <2>3
<1> QED BY <1>1 DEF Whole

\* Where the caller is after it went somewhere.
LEMMA Moved ==
  ASSUME TypeInv, NEW e \in Executions, NEW pc \in PCs, Goto(e, pc)
  PROVE  /\ caller' \in [Executions -> Callers] /\ caller'[e].pc = pc
         /\ caller'[e].dealt = caller[e].dealt /\ caller'[e].after = caller[e].after
         /\ \A x \in Executions \ {e} : caller'[x] = caller[x]
<1>1. caller \in [Executions -> Callers] /\ caller[e] \in Callers
  BY DEF TypeInv, Callers
<1>2. caller' = [caller EXCEPT ![e] = [caller[e] EXCEPT !.pc = pc]]
  BY <1>1 DEF Goto
<1>3. [caller[e] EXCEPT !.pc = pc] \in Callers
  BY <1>1 DEF Callers
<1>4. caller'[e] = [caller[e] EXCEPT !.pc = pc]
  BY <1>1, <1>2
<1>5. caller'[e].pc = pc /\ caller'[e].dealt = caller[e].dealt /\ caller'[e].after = caller[e].after
  BY <1>1, <1>4 DEF Callers
<1> QED BY <1>1, <1>2, <1>3, <1>5

\* A caller that gives up or ends asks no more of its batches than it has read.
LEMMA LeavingWhole ==
  ASSUME Whole, NEW e \in Executions, NEW pc \in {"failing", "lost", "failed"}, Goto(e, pc),
         sink' \in [Executions -> [Sinks -> Requests \cup {None}]],
         UNCHANGED <<unsorted, sorted, output>>, DOMAIN worker' = Executions,
         \A x \in Executions \ {e} : sink'[x] = sink[x] /\ worker'[x] = worker[x]
  PROVE  Whole'
<1>1. pc \in PCs
  BY DEF PCs
<1>2. TypeInv
  BY DEF Whole
<1>3. /\ caller' \in [Executions -> Callers] /\ caller'[e].pc = pc
      /\ caller'[e].after = caller[e].after
      /\ \A x \in Executions \ {e} : caller'[x] = caller[x]
  BY <1>1, <1>2, Moved
<1>4. TypeInv'
  BY <1>2, <1>3 DEF TypeInv, Callers
<1>5. OthersWhole(e)
  BY <1>3 DEF OthersWhole
<1>6. Sunk(e)' /\ Sorting(e)'
  BY <1>3 DEF Sunk, Sorting
<1>7. Drained(e)'
  <2>1. Drained(e)
    BY DEF Whole
  <2> QED BY <1>3, <2>1 DEF Drained
<1> QED BY <1>4, <1>5, <1>6, <1>7, OneCallWhole

-----------------------------------------------------------------------------
LEMMA InitWhole == Init => Whole
<1> SUFFICES ASSUME Init PROVE Whole
  OBVIOUS
<1>1. TypeInv
  <2>1. 0 \in 0..Batches /\ "start" \in PCs
    BY BatchesAre DEF PCs
  <2>2. <<>> \in Seq(Entries)
    OBVIOUS
  <2> QED BY <2>1, <2>2 DEF Init, TypeInv
<1>2. ASSUME NEW e \in Executions PROVE Sunk(e) /\ Sorting(e) /\ Drained(e)
  BY <1>2 DEF Init, Sunk, Sorting, Drained
<1> QED BY <1>1, <1>2 DEF Whole

LEMMA InitStepsWhole ==
  ASSUME Whole, Inv, NEW e \in Executions, InitPersist(e) \/ InitAnswered(e) \/ InitUnanswered(e)
  PROVE  Whole'
<1>1. ASSUME NEW pc \in {"init", "sink"}, Goto(e, pc),
             At(e, "start") \/ At(e, "init"), UNCHANGED <<unsorted, sorted, sink, worker, output>>
      PROVE  Whole'
  <2>1. TypeInv /\ Sunk(e) /\ Drained(e) /\ pc \in PCs
    BY <1>1 DEF Whole, PCs
  <2>2. /\ caller' \in [Executions -> Callers] /\ caller'[e].pc = pc
        /\ caller'[e].dealt = caller[e].dealt /\ caller'[e].after = caller[e].after
        /\ \A x \in Executions \ {e} : caller'[x] = caller[x]
    BY <1>1, <2>1, Moved
  <2>3. TypeInv' /\ OthersWhole(e)
    BY <1>1, <2>1, <2>2 DEF TypeInv, Callers, OthersWhole
  <2>4. caller[e].dealt = 0 /\ unsorted[e] = <<>> /\ sorted[e] = <<>>
    BY <1>1, <2>1 DEF Sunk, At
  <2>5. \A s \in Sinks : sink[e][s] = None
    BY <1>1 DEF Inv, SinksQuiet, At
  <2>6. Sunk(e)'
    <3>1. \A n : ~Logged(e, n)' /\ \A s \in Sinks : ~Carried(e, s, n)'
      BY <1>1, <2>4, <2>5 DEF Logged, Carried
    <3>2. \A n \in 1..caller'[e].dealt : FALSE
      BY <2>2, <2>4
    <3>3. \A i, j \in DOMAIN unsorted'[e] : unsorted'[e][i].index = unsorted'[e][j].index => i = j
      BY <1>1, <2>4
    <3> QED BY <1>1, <2>2, <2>4, <3>1, <3>2, <3>3 DEF Sunk
  <2>7. Sorting(e)' /\ Drained(e)'
    BY <1>1, <2>1, <2>2 DEF Sorting, Drained
  <2> QED BY <2>3, <2>6, <2>7, OneCallWhole
<1>2. CASE InitPersist(e)
  BY <1>1, <1>2 DEF InitPersist
<1>3. CASE InitAnswered(e)
  BY <1>1, <1>3 DEF InitAnswered, storage
<1>4. CASE InitUnanswered(e)
  <2>1. TypeInv
    BY DEF Whole
  <2> QED BY <1>4, <2>1, LeavingWhole DEF InitUnanswered, storage, TypeInv
<1> QED BY <1>2, <1>3, <1>4

-----------------------------------------------------------------------------
\* A request is replaced, or one stage further.
Puts(e, s, v) == sink' = [sink EXCEPT ![e][s] = v]
Stages(e, s, stage) == sink' = [sink EXCEPT ![e][s].stage = stage]

\* What a step of one sink leaves of the others.
LEMMA SinkSet ==
  ASSUME TypeInv, NEW e \in Executions, NEW s \in Sinks, NEW v \in Requests \cup {None},
         Puts(e, s, v)
  PROVE  /\ sink' \in [Executions -> [Sinks -> Requests \cup {None}]] /\ sink'[e][s] = v
         /\ \A r \in Sinks \ {s} : sink'[e][r] = sink[e][r]
         /\ \A x \in Executions \ {e} : sink'[x] = sink[x]
<1>1. sink \in [Executions -> [Sinks -> Requests \cup {None}]] /\ sink[e] \in [Sinks -> Requests \cup {None}]
  BY DEF TypeInv
<1>2. sink' = [sink EXCEPT ![e] = [sink[e] EXCEPT ![s] = v]]
  BY <1>1 DEF Puts
<1>3. [sink[e] EXCEPT ![s] = v] \in [Sinks -> Requests \cup {None}]
  BY <1>1
<1> QED BY <1>1, <1>2, <1>3

LEMMA RequestStaged ==
  ASSUME TypeInv, NEW e \in Executions, NEW s \in Sinks, sink[e][s] # None,
         NEW stage \in {"sent", "loaded", "stored"}, Stages(e, s, stage)
  PROVE  /\ sink[e][s] \in Requests /\ sink[e][s].index \in 1..Batches
         /\ sink' \in [Executions -> [Sinks -> Requests \cup {None}]]
         /\ sink'[e][s] # None /\ sink'[e][s].stage = stage /\ sink'[e][s].index = sink[e][s].index
         /\ \A r \in Sinks \ {s} : sink'[e][r] = sink[e][r]
         /\ \A x \in Executions \ {e} : sink'[x] = sink[x]
<1> DEFINE v == [sink[e][s] EXCEPT !.stage = stage]
<1>1. sink \in [Executions -> [Sinks -> Requests \cup {None}]]
  BY DEF TypeInv
<1>2. sink[e][s] \in Requests
  BY <1>1
<1>3. v \in Requests /\ v.stage = stage /\ v.index = sink[e][s].index /\ sink[e][s].index \in 1..Batches
  BY <1>2 DEF Requests
<1>4. Puts(e, s, v)
  BY DEF Stages, Puts
<1>5. v # None
  BY <1>3, NoneIsApart
<1> HIDE DEF v
<1>6. /\ sink' \in [Executions -> [Sinks -> Requests \cup {None}]] /\ sink'[e][s] = v
      /\ \A r \in Sinks \ {s} : sink'[e][r] = sink[e][r]
      /\ \A x \in Executions \ {e} : sink'[x] = sink[x]
  BY <1>3, <1>4, SinkSet
<1> QED BY <1>2, <1>3, <1>5, <1>6

LEMMA SendWhole ==
  ASSUME Whole, NEW e \in Executions, NEW s \in Sinks, Send(e, s)
  PROVE  Whole'
<1> DEFINE n == caller[e].dealt + 1
<1>1. TypeInv /\ Sunk(e) /\ Sorting(e) /\ Drained(e)
  BY DEF Whole
<1>2. caller[e] \in Callers /\ caller \in [Executions -> Callers] /\ caller[e].dealt \in 0..Batches
  BY <1>1 DEF TypeInv, Callers
<1>3. n \in 1..Batches
  BY <1>2, BatchesAre DEF Send, NextBatch
<1>4. [index |-> n, stage |-> "sent"] \in Requests
  BY <1>3 DEF Requests
<1>5. /\ sink' \in [Executions -> [Sinks -> Requests \cup {None}]]
      /\ sink'[e][s] = [index |-> n, stage |-> "sent"]
      /\ \A r \in Sinks \ {s} : sink'[e][r] = sink[e][r]
      /\ \A x \in Executions \ {e} : sink'[x] = sink[x]
  <2> DEFINE v == [index |-> n, stage |-> "sent"]
  <2>1. v \in Requests \cup {None} /\ Puts(e, s, v)
    BY <1>4 DEF Send, NextBatch, Puts
  <2> HIDE DEF v
  <2>2. /\ sink' \in [Executions -> [Sinks -> Requests \cup {None}]] /\ sink'[e][s] = v
        /\ \A r \in Sinks \ {s} : sink'[e][r] = sink[e][r]
        /\ \A x \in Executions \ {e} : sink'[x] = sink[x]
    BY <1>1, <2>1, SinkSet
  <2> QED BY <2>2 DEF v
<1>6. /\ caller' \in [Executions -> Callers] /\ caller'[e].dealt = n
      /\ caller'[e].pc = "sink" /\ caller'[e].after = caller[e].after
      /\ \A x \in Executions \ {e} : caller'[x] = caller[x]
  <2>1. caller' = [caller EXCEPT ![e] = [caller[e] EXCEPT !.dealt = n]]
    BY <1>2 DEF Send, NextBatch
  <2>2. [caller[e] EXCEPT !.dealt = n] \in Callers
    BY <1>2, <1>3, BatchesAre DEF Callers
  <2>3. /\ [caller[e] EXCEPT !.dealt = n].dealt = n /\ [caller[e] EXCEPT !.dealt = n].pc = "sink"
        /\ [caller[e] EXCEPT !.dealt = n].after = caller[e].after
    BY <1>2 DEF Callers, Send, At
  <2> QED BY <1>2, <2>1, <2>2, <2>3
<1>7. unsorted' = unsorted /\ sorted' = sorted /\ output' = output /\ worker' = worker
  BY DEF Send, storage
<1>8. TypeInv' /\ OthersWhole(e)
  BY <1>1, <1>5, <1>6, <1>7 DEF TypeInv, Callers, OthersWhole
<1>9. Sunk(e)'
  <2>1. caller[e].pc = "sink" /\ sink[e][s] = None /\ caller[e].dealt \in Nat
    BY <1>2, BatchesAre DEF Send, At
  <2>2. \A m : Logged(e, m)' <=> Logged(e, m)
    BY <1>7 DEF Logged
  <2>3. \A m : Carried(e, s, m)' <=> m = n
    BY <1>4, <1>5, NoneIsApart DEF Carried
  <2>4. \A m : \A r \in Sinks : r # s => (Carried(e, r, m)' <=> Carried(e, r, m))
    BY <1>5 DEF Carried
  <2>5. \A m : ~Carried(e, s, m)
    BY <2>1 DEF Carried
  <2>6. /\ \A m \in 1..caller[e].dealt : Logged(e, m) \/ \E r \in Sinks : Carried(e, r, m)
        /\ \A m \in 1..Batches : Logged(e, m) => m <= caller[e].dealt
        /\ \A r \in Sinks, m \in 1..Batches : Carried(e, r, m) =>
             m <= caller[e].dealt /\ ~Logged(e, m) /\ \A q \in Sinks : Carried(e, q, m) => q = r
        /\ \A i, j \in DOMAIN unsorted[e] : unsorted[e][i].index = unsorted[e][j].index => i = j
        /\ sorted[e] = <<>>
    BY <1>1, <2>1 DEF Sunk
  <2>7. \A m \in 1..n : Logged(e, m)' \/ \E r \in Sinks : Carried(e, r, m)'
    <3>1. \A m \in 1..n : m = n \/ m \in 1..caller[e].dealt
      BY <2>1
    <3> QED BY <2>2, <2>3, <2>4, <2>5, <2>6, <3>1
  <2>8. \A m \in 1..Batches : m <= caller[e].dealt => m <= n /\ m # n
    BY <2>1, BatchesAre
  <2>9. \A m \in 1..Batches : Logged(e, m)' => m <= n
    BY <2>2, <2>6, <2>8
  <2>10. ASSUME NEW r \in Sinks, NEW m \in 1..Batches, Carried(e, r, m)'
         PROVE  m <= n /\ ~Logged(e, m)' /\ \A q \in Sinks : Carried(e, q, m)' => q = r
    <3>1. CASE r = s
      <4>1. m = n
        BY <2>3, <2>10, <3>1
      <4>2. ~Logged(e, m) /\ \A q \in Sinks : ~Carried(e, q, m)
        BY <1>3, <2>6, <2>8, <4>1
      <4> QED BY <1>3, <2>2, <2>3, <2>4, <3>1, <4>1, <4>2, BatchesAre
    <3>2. CASE r # s
      <4>1. Carried(e, r, m)
        BY <2>4, <2>10, <3>2
      <4>2. m # n /\ m <= n
        BY <2>6, <2>8, <4>1
      <4> QED BY <2>2, <2>3, <2>4, <2>6, <4>1, <4>2
    <3> QED BY <3>1, <3>2
  <2> HIDE DEF n
  <2> QED BY <1>6, <1>7, <2>6, <2>7, <2>9, <2>10 DEF Sunk
<1>10. Sorting(e)' /\ Drained(e)'
  BY <1>1, <1>6, <1>7 DEF Sorting, Drained
<1> QED BY <1>8, <1>9, <1>10, OneCallWhole

\* A sink's step that leaves alone what is logged and which batches it carries.
LEMMA QuietSinkWhole ==
  ASSUME Whole, NEW e \in Executions, NEW s \in Sinks,
         sink' \in [Executions -> [Sinks -> Requests \cup {None}]],
         \A n : Carried(e, s, n)' <=> Carried(e, s, n),
         \A r \in Sinks \ {s} : sink'[e][r] = sink[e][r],
         \A x \in Executions \ {e} : sink'[x] = sink[x],
         UNCHANGED <<unsorted, sorted, caller, worker, output>>
  PROVE  Whole'
<1>1. TypeInv /\ Sunk(e) /\ Sorting(e) /\ Drained(e)
  BY DEF Whole
<1>2. TypeInv' /\ OthersWhole(e)
  BY <1>1 DEF TypeInv, OthersWhole
<1>3. \A n : Logged(e, n)' <=> Logged(e, n)
  BY DEF Logged
<1>4. \A n : \A r \in Sinks : Carried(e, r, n)' <=> Carried(e, r, n)
  BY DEF Carried
<1>5. Sunk(e)'
  BY <1>1, <1>3, <1>4 DEF Sunk
<1>6. Sorting(e)' /\ Drained(e)'
  BY <1>1 DEF Sorting, Drained
<1> QED BY <1>2, <1>5, <1>6, OneCallWhole

LEMMA ProcessWhole ==
  ASSUME Whole, Inv, NEW e \in Executions, NEW s \in Sinks, Process(e, s)
  PROVE  Whole'
<1>1. TypeInv /\ Sunk(e) /\ Sorting(e) /\ Drained(e)
  BY DEF Whole
<1>2. /\ sink[e][s] # None /\ sink[e][s].stage = "loaded"
      /\ Stages(e, s, "stored")
      /\ UNCHANGED <<sorted, caller, worker, output>>
  BY DEF Process, Stages
<1>3. /\ sink' \in [Executions -> [Sinks -> Requests \cup {None}]]
      /\ sink'[e][s] # None /\ sink'[e][s].stage = "stored" /\ sink'[e][s].index = sink[e][s].index
      /\ \A r \in Sinks \ {s} : sink'[e][r] = sink[e][r]
      /\ \A x \in Executions \ {e} : sink'[x] = sink[x]
  BY <1>1, <1>2, RequestStaged
<1>4. sink[e][s].index \in 1..Batches
  <2>1. sink[e][s] \in Requests
    BY <1>1, <1>2 DEF TypeInv
  <2> QED BY <2>1 DEF Requests
<1> DEFINE n == sink[e][s].index
           x == [index |-> n, by |-> Implementation]
<1>5. unsorted' = [unsorted EXCEPT ![e] = Append(@, x)]
  BY DEF Process
<1>6. x \in Entries /\ x.index = n
  BY <1>4 DEF Entries
<1>7. n \in 1..Batches /\ Carried(e, s, n) /\ \A m : Carried(e, s, m) => m = n
  BY <1>2, <1>4 DEF Carried
<1>8. \A m : ~Carried(e, s, m)'
  BY <1>3 DEF Carried
<1> HIDE DEF n, x
<1>9. unsorted[e] \in Seq(Entries) /\ unsorted \in [Executions -> Seq(Entries)]
  BY <1>1 DEF TypeInv
<1>10. /\ Append(unsorted[e], x) \in Seq(Entries) /\ Len(unsorted[e]) \in Nat
      /\ DOMAIN Append(unsorted[e], x) = DOMAIN unsorted[e] \cup {Len(unsorted[e]) + 1}
      /\ Len(unsorted[e]) + 1 \notin DOMAIN unsorted[e]
      /\ \A i \in DOMAIN unsorted[e] : Append(unsorted[e], x)[i] = unsorted[e][i]
      /\ Append(unsorted[e], x)[Len(unsorted[e]) + 1] = x
  BY <1>6, <1>9, AddEntry
<1>11. /\ unsorted' \in [Executions -> Seq(Entries)] /\ unsorted'[e] = Append(unsorted[e], x)
      /\ \A y \in Executions \ {e} : unsorted'[y] = unsorted[y]
  BY <1>5, <1>9, <1>10
<1>12. TypeInv'
  BY <1>1, <1>2, <1>3, <1>11 DEF TypeInv
<1>13. OthersWhole(e)
  BY <1>2, <1>3, <1>11 DEF OthersWhole
<1>14. caller[e].pc \in {"sink", "failing"}
  BY <1>2 DEF Inv, SinksQuiet
<1>15. ASSUME NEW m PROVE Logged(e, m)' <=> Logged(e, m) \/ m = n
  BY <1>6, <1>10, <1>11 DEF Logged
<1>16. \A m : \A r \in Sinks : r # s => (Carried(e, r, m)' <=> Carried(e, r, m))
  BY <1>3 DEF Carried
<1>17. ASSUME caller[e].pc = "sink" PROVE Sunk(e)'
  <2>1. /\ \A m \in 1..caller[e].dealt : Logged(e, m) \/ \E r \in Sinks : Carried(e, r, m)
        /\ \A m \in 1..Batches : Logged(e, m) => m <= caller[e].dealt
        /\ \A r \in Sinks, m \in 1..Batches : Carried(e, r, m) =>
             m <= caller[e].dealt /\ ~Logged(e, m) /\ \A q \in Sinks : Carried(e, q, m) => q = r
        /\ \A i, j \in DOMAIN unsorted[e] : unsorted[e][i].index = unsorted[e][j].index => i = j
        /\ sorted[e] = <<>>
    BY <1>1, <1>17 DEF Sunk
  <2>2. \A m \in 1..caller[e].dealt : Logged(e, m)' \/ \E r \in Sinks : Carried(e, r, m)'
    BY <1>7, <1>15, <1>16, <2>1
  <2>3. n <= caller[e].dealt /\ ~Logged(e, n) /\ \A q \in Sinks : Carried(e, q, n) => q = s
    BY <1>7, <2>1
  <2>4. \A m \in 1..Batches : Logged(e, m)' => m <= caller[e].dealt
    BY <1>15, <2>1, <2>3
  <2>5. \A r \in Sinks, m \in 1..Batches : Carried(e, r, m)' =>
          m <= caller[e].dealt /\ ~Logged(e, m)' /\ \A q \in Sinks : Carried(e, q, m)' => q = r
    BY <1>8, <1>15, <1>16, <2>1, <2>3
  <2>6. \A i \in DOMAIN unsorted[e] : unsorted[e][i].index # n
    BY <2>3 DEF Logged
  <2>7. \A i, j \in DOMAIN unsorted'[e] : unsorted'[e][i].index = unsorted'[e][j].index => i = j
    BY <1>6, <1>10, <1>11, <2>1, <2>6
  <2> QED BY <1>2, <1>17, <2>1, <2>2, <2>4, <2>5, <2>7 DEF Sunk
<1>18. Sunk(e)'
  <2>1. CASE caller[e].pc = "failing"
    BY <1>2, <2>1 DEF Sunk
  <2> QED BY <1>14, <1>17, <2>1
<1>19. Sorting(e)' /\ Drained(e)'
  BY <1>1, <1>2 DEF Sorting, Drained
<1> QED BY <1>12, <1>13, <1>18, <1>19, OneCallWhole

LEMMA SinkStepsWhole ==
  ASSUME Whole, Inv, NEW e \in Executions, SinkStep(e)
  PROVE  Whole'
<1> PICK s \in Sinks :
       Send(e, s) \/ ProcessLoad(e, s) \/ Process(e, s) \/ ProcessAnswered(e, s) \/ ProcessFails(e, s)
  BY DEF SinkStep
<1>1. TypeInv
  BY DEF Whole
<1>2. None \in Requests \cup {None}
  OBVIOUS
<1>3. CASE Send(e, s)
  BY <1>3, SendWhole
<1>4. CASE ProcessLoad(e, s)
  <2>1. e \in initRow
    BY <1>4 DEF ProcessLoad, Inv, SinksQuiet, RowStays, Needing
  <2>2. /\ sink[e][s] # None /\ sink[e][s].stage = "sent"
        /\ Stages(e, s, "loaded")
        /\ UNCHANGED <<unsorted, sorted, caller, worker, output>>
    BY <1>4, <2>1 DEF ProcessLoad, Known, storage, Stages
  <2>3. /\ sink' \in [Executions -> [Sinks -> Requests \cup {None}]]
        /\ sink'[e][s] # None /\ sink'[e][s].stage = "loaded" /\ sink'[e][s].index = sink[e][s].index
        /\ \A r \in Sinks \ {s} : sink'[e][r] = sink[e][r]
        /\ \A x \in Executions \ {e} : sink'[x] = sink[x]
    BY <1>1, <2>2, RequestStaged
  <2>4. \A n : Carried(e, s, n)' <=> Carried(e, s, n)
    BY <2>2, <2>3 DEF Carried
  <2> QED BY <2>2, <2>3, <2>4, QuietSinkWhole
<1>5. CASE Process(e, s)
  BY <1>5, ProcessWhole
<1>6. CASE ProcessAnswered(e, s)
  <2>1. /\ sink' \in [Executions -> [Sinks -> Requests \cup {None}]] /\ sink'[e][s] = None
        /\ \A r \in Sinks \ {s} : sink'[e][r] = sink[e][r]
        /\ \A x \in Executions \ {e} : sink'[x] = sink[x]
    BY <1>1, <1>2, <1>6, SinkSet DEF ProcessAnswered, Puts
  <2>2. \A n : Carried(e, s, n)' <=> Carried(e, s, n)
    BY <1>6, <2>1 DEF ProcessAnswered, Carried
  <2> QED BY <1>6, <2>1, <2>2, QuietSinkWhole DEF ProcessAnswered, storage
<1>7. CASE ProcessFails(e, s)
  <2>1. /\ sink' \in [Executions -> [Sinks -> Requests \cup {None}]]
        /\ \A x \in Executions \ {e} : sink'[x] = sink[x]
    BY <1>1, <1>2, <1>7, SinkSet DEF ProcessFails, Puts
  <2>2. Goto(e, "failing") /\ UNCHANGED <<unsorted, sorted, worker, output>>
    BY <1>7 DEF ProcessFails, Failing, Goto, storage
  <2> QED BY <1>1, <2>1, <2>2, LeavingWhole DEF TypeInv
<1> QED BY <1>3, <1>4, <1>5, <1>6, <1>7

-----------------------------------------------------------------------------
\* When no sink has a request left, the log has every batch once.
LEMMA CombineScanWhole ==
  ASSUME Whole, Inv, NEW e \in Executions, CombineScan(e)
  PROVE  Whole'
<1>1. TypeInv /\ Sunk(e) /\ Sorting(e) /\ Drained(e)
  BY DEF Whole
<1>2. e \in initRow /\ caller[e].pc = "sink" /\ AllSunk(e)
  BY DEF CombineScan, At, Inv, RowStays, Needing
<1>3. /\ worker' = [worker EXCEPT ![e] = InOrder(unsorted[e])] /\ Goto(e, "combine")
      /\ UNCHANGED <<unsorted, sorted, sink, output>>
  BY <1>2 DEF CombineScan, Known, storage
<1>4. unsorted[e] \in Seq(Entries)
  BY <1>1 DEF TypeInv
<1>5. /\ \A n \in 1..Batches : \E i \in DOMAIN unsorted[e] : unsorted[e][i].index = n
      /\ \A i, j \in DOMAIN unsorted[e] : unsorted[e][i].index = unsorted[e][j].index => i = j
      /\ sorted[e] = <<>>
  <2>1. \A s \in Sinks : \A n : ~Carried(e, s, n)
    BY <1>2 DEF AllSunk, Carried
  <2> QED BY <1>1, <1>2, <2>1 DEF Sunk, AllSunk, Logged
<1>6. /\ InOrder(unsorted[e]) \in Seq(Entries) /\ Len(InOrder(unsorted[e])) = Batches
      /\ \A i \in DOMAIN InOrder(unsorted[e]) : InOrder(unsorted[e])[i].index = i
  BY <1>4, <1>5, OrderIs
<1>7. "combine" \in PCs
  BY DEF PCs
<1>8. /\ caller' \in [Executions -> Callers] /\ caller'[e].pc = "combine"
      /\ caller'[e].after = caller[e].after
      /\ \A x \in Executions \ {e} : caller'[x] = caller[x]
  BY <1>1, <1>3, <1>7, Moved
<1>9. /\ DOMAIN worker' = Executions /\ worker'[e] = InOrder(unsorted[e])
      /\ \A x \in Executions \ {e} : worker'[x] = worker[x]
  BY <1>1, <1>3 DEF TypeInv
<1>10. TypeInv' /\ OthersWhole(e)
  BY <1>1, <1>3, <1>8, <1>9 DEF TypeInv, Callers, OthersWhole
<1>11. Sunk(e)' /\ Drained(e)'
  BY <1>1, <1>3, <1>8 DEF Sunk, Drained
<1>12. Sorting(e)'
  <2>1. worker'[e] \in Seq(Entries) /\ Len(sorted'[e]) = 0 /\ Len(worker'[e]) = Batches
    BY <1>3, <1>5, <1>6, <1>9
  <2>2. \A i \in DOMAIN worker'[e] : worker'[e][i].index = i /\ i \in Nat
    BY <1>6, <1>9, <2>1
  <2>3. \A i \in DOMAIN sorted'[e] : FALSE
    BY <1>3, <1>5
  <2>4. Len(sorted'[e]) + Len(worker'[e]) = Batches
    BY <2>1, BatchesAre
  <2>5. \A i \in DOMAIN worker'[e] : worker'[e][i].index = Len(sorted'[e]) + i
    BY <2>1, <2>2
  <2> QED BY <1>8, <2>1, <2>3, <2>4, <2>5 DEF Sorting
<1> QED BY <1>10, <1>11, <1>12, OneCallWhole

LEMMA CombineAppendWhole ==
  ASSUME Whole, NEW e \in Executions, CombineAppend(e)
  PROVE  Whole'
<1> DEFINE w == worker[e]
           t == sorted[e]
<1>1. TypeInv /\ Sunk(e) /\ Sorting(e) /\ Drained(e)
  BY DEF Whole
<1>2. /\ caller[e].pc = "combine" /\ w # <<>>
      /\ sorted' = [sorted EXCEPT ![e] = Append(t, Head(w))]
      /\ worker' = [worker EXCEPT ![e] = Tail(w)]
      /\ UNCHANGED <<unsorted, caller, sink, output>>
  BY DEF CombineAppend, At
<1>3. /\ w \in Seq(Entries) /\ Len(t) + Len(w) = Batches
      /\ \A i \in DOMAIN w : w[i].index = Len(t) + i
      /\ \A i \in DOMAIN t : t[i].index = i
  BY <1>1, <1>2 DEF Sorting
<1>4. t \in Seq(Entries) /\ sorted \in [Executions -> Seq(Entries)] /\ DOMAIN worker = Executions
  BY <1>1 DEF TypeInv
<1> HIDE DEF w, t
<1>5. /\ Head(w) \in Entries /\ Tail(w) \in Seq(Entries) /\ Len(Tail(w)) = Len(w) - 1
      /\ Len(w) \in Nat /\ 1 \in DOMAIN w /\ Head(w) = w[1]
      /\ \A i \in DOMAIN Tail(w) : i \in Nat /\ i + 1 \in DOMAIN w /\ Tail(w)[i] = w[i + 1]
  BY <1>2, <1>3, TakeEntry
<1>6. /\ Append(t, Head(w)) \in Seq(Entries) /\ Len(Append(t, Head(w))) = Len(t) + 1 /\ Len(t) \in Nat
      /\ DOMAIN Append(t, Head(w)) = DOMAIN t \cup {Len(t) + 1} /\ Len(t) + 1 \notin DOMAIN t
      /\ \A i \in DOMAIN t : Append(t, Head(w))[i] = t[i]
      /\ Append(t, Head(w))[Len(t) + 1] = Head(w)
  BY <1>4, <1>5, AddEntry
<1>7. /\ sorted' \in [Executions -> Seq(Entries)] /\ sorted'[e] = Append(t, Head(w))
      /\ \A x \in Executions \ {e} : sorted'[x] = sorted[x]
      /\ DOMAIN worker' = Executions /\ worker'[e] = Tail(w)
      /\ \A x \in Executions \ {e} : worker'[x] = worker[x]
  BY <1>2, <1>4, <1>6
<1>8. TypeInv' /\ OthersWhole(e)
  BY <1>1, <1>2, <1>7 DEF TypeInv, OthersWhole
<1>9. Sunk(e)' /\ Drained(e)'
  BY <1>1, <1>2 DEF Sunk, Drained
<1>10. Sorting(e)'
  <2>1. Len(sorted'[e]) = Len(t) + 1 /\ Len(worker'[e]) = Len(w) - 1
    BY <1>5, <1>6, <1>7
  <2>2. Len(sorted'[e]) + Len(worker'[e]) = Batches
    <3>1. \A m, n \in Nat : (m + 1) + (n - 1) = m + n
      OBVIOUS
    <3>2. Len(t) \in Nat /\ Len(w) \in Nat /\ Len(t) + Len(w) = Batches
      BY <1>3, <1>5, <1>6
    <3>3. (Len(t) + 1) + (Len(w) - 1) = Batches
      BY <3>1, <3>2
    <3> QED BY <2>1, <3>3
  <2>3. \A i \in DOMAIN sorted'[e] : sorted'[e][i].index = i
    <3>1. w[1].index = Len(t) + 1
      BY <1>3, <1>5
    <3> QED BY <1>3, <1>5, <1>6, <1>7, <3>1
  <2>4. \A i \in DOMAIN worker'[e] : worker'[e][i].index = Len(sorted'[e]) + i
    <3>1. \A i \in DOMAIN Tail(w) : Tail(w)[i].index = Len(t) + (i + 1) /\ i \in Nat
      BY <1>3, <1>5
    <3>2. \A i \in Nat : Len(t) + (i + 1) = (Len(t) + 1) + i
      BY <1>6
    <3>3. \A i \in DOMAIN Tail(w) : Tail(w)[i].index = (Len(t) + 1) + i
      BY <3>1, <3>2
    <3> QED BY <1>7, <2>1, <3>3
  <2> QED BY <1>2, <1>5, <1>7, <2>2, <2>3, <2>4 DEF Sorting
<1> QED BY <1>8, <1>9, <1>10, OneCallWhole

LEMMA CombineStepsWhole ==
  ASSUME Whole, Inv, NEW e \in Executions,
         \/ InputFails(e) \/ CombineScan(e) \/ CombineAppend(e) \/ CombineAnswered(e) \/ CombineFails(e)
  PROVE  Whole'
<1>1. TypeInv /\ Sunk(e) /\ Sorting(e) /\ Drained(e)
  BY DEF Whole
<1>2. sink \in [Executions -> [Sinks -> Requests \cup {None}]] /\ DOMAIN worker = Executions
  BY <1>1 DEF TypeInv
<1>3. CASE InputFails(e)
  <2>1. Goto(e, "failing") /\ UNCHANGED <<unsorted, sorted, sink, worker, output>>
    BY <1>3 DEF InputFails, Failing, Goto, storage
  <2> QED BY <1>2, <2>1, LeavingWhole
<1>4. CASE CombineScan(e)
  BY <1>4, CombineScanWhole
<1>5. CASE CombineAppend(e)
  BY <1>5, CombineAppendWhole
<1>6. CASE CombineAnswered(e)
  <2>1. /\ caller[e].pc = "combine" /\ worker[e] = <<>> /\ Goto(e, "finalize")
        /\ worker' = [worker EXCEPT ![e] = None] /\ UNCHANGED <<unsorted, sorted, sink, output>>
    BY <1>6 DEF CombineAnswered, At, storage
  <2>2. "finalize" \in PCs
    BY DEF PCs
  <2>3. /\ caller' \in [Executions -> Callers] /\ caller'[e].pc = "finalize"
        /\ caller'[e].after = caller[e].after
        /\ \A x \in Executions \ {e} : caller'[x] = caller[x]
    BY <1>1, <2>1, <2>2, Moved
  <2>4. DOMAIN worker' = Executions /\ \A x \in Executions \ {e} : worker'[x] = worker[x]
    BY <1>2, <2>1
  <2>5. TypeInv' /\ OthersWhole(e)
    BY <1>1, <2>1, <2>3, <2>4 DEF TypeInv, Callers, OthersWhole
  <2>6. Sunk(e)' /\ Drained(e)'
    BY <1>1, <2>1, <2>3 DEF Sunk, Drained
  <2>7. Len(sorted[e]) = Batches /\ \A i \in DOMAIN sorted[e] : sorted[e][i].index = i
    <3>1. Len(sorted[e]) \in Nat
      BY <1>1 DEF TypeInv
    <3>2. Len(sorted[e]) + Len(worker[e]) = Batches /\ \A i \in DOMAIN sorted[e] : sorted[e][i].index = i
      BY <1>1, <2>1 DEF Sorting
    <3>3. Len(worker[e]) = 0
      BY <2>1
    <3> QED BY <3>1, <3>2, <3>3
  <2>8. Sorting(e)'
    BY <2>1, <2>3, <2>7 DEF Sorting
  <2> QED BY <2>5, <2>6, <2>8, OneCallWhole
<1>7. CASE CombineFails(e)
  <2>1. Goto(e, "failing") /\ UNCHANGED <<unsorted, sorted, sink, output>>
        /\ worker' = [worker EXCEPT ![e] = None]
    BY <1>7 DEF CombineFails, Failing, Goto, storage
  <2>2. DOMAIN worker' = Executions /\ \A x \in Executions \ {e} : worker'[x] = worker[x]
    BY <1>2, <2>1
  <2> QED BY <1>2, <2>1, <2>2, LeavingWhole
<1> QED BY <1>3, <1>4, <1>5, <1>6, <1>7

-----------------------------------------------------------------------------
LEMMA TickWhole ==
  ASSUME Whole, Inv, NEW e \in Executions, Tick(e)
  PROVE  Whole'
<1> DEFINE a == caller[e].after
           t == sorted[e]
           o == output[e]
<1>1. TypeInv /\ Sunk(e) /\ Sorting(e) /\ Drained(e)
  BY DEF Whole
<1>2. e \in initRow /\ caller[e].pc = "finalize" /\ UNCHANGED <<unsorted, sorted, sink, worker>>
  BY DEF Tick, At, storage, Inv, RowStays, Needing
<1>3. /\ caller[e] \in Callers /\ caller \in [Executions -> Callers] /\ a \in 0..Batches
      /\ t \in Seq(Entries) /\ o \in Seq(Entries) /\ output \in [Executions -> Seq(Entries)]
  BY <1>1 DEF TypeInv, Callers
<1>4. Len(t) = Batches /\ \A i \in DOMAIN t : t[i].index = i
  BY <1>1, <1>2 DEF Sorting
<1>5. Len(o) = a /\ \A i \in DOMAIN o : o[i].index = i
  BY <1>1 DEF Drained
<1>6. CASE a < Len(t)
  <2> DEFINE c == [caller[e] EXCEPT !.pc = "yielded", !.after = a + 1]
  <2>1. output' = [output EXCEPT ![e] = Append(o, t[a + 1])] /\ caller' = [caller EXCEPT ![e] = c]
    BY <1>2, <1>3, <1>6 DEF Tick, Known, Advanced
  <2>2. a + 1 \in 1..Batches /\ a + 1 \in 0..Batches /\ a + 1 \in DOMAIN t
    BY <1>3, <1>4, <1>6, BatchesAre
  <2>3. c \in Callers /\ c.pc = "yielded" /\ c.after = a + 1
    <3>1. "yielded" \in PCs
      BY DEF PCs
    <3> QED BY <1>3, <2>2, <3>1 DEF Callers
  <2> HIDE DEF c
  <2>4. t[a + 1] \in Entries /\ t[a + 1].index = a + 1
    BY <1>3, <1>4, <2>2
  <2> DEFINE x == t[a + 1]
  <2>5. x \in Entries /\ x.index = a + 1 /\ output' = [output EXCEPT ![e] = Append(o, x)]
    BY <2>1, <2>4
  <2> HIDE DEF a, o, t, x
  <2>6. /\ Append(o, x) \in Seq(Entries) /\ Len(Append(o, x)) = Len(o) + 1
        /\ DOMAIN Append(o, x) = DOMAIN o \cup {Len(o) + 1}
        /\ \A i \in DOMAIN o : Append(o, x)[i] = o[i] /\ i # Len(o) + 1
        /\ Append(o, x)[Len(o) + 1] = x
    BY <1>3, <2>5, AddEntry
  <2>7. /\ output' \in [Executions -> Seq(Entries)] /\ output'[e] = Append(o, x)
        /\ \A y \in Executions \ {e} : output'[y] = output[y]
        /\ caller' \in [Executions -> Callers] /\ caller'[e].pc = "yielded" /\ caller'[e].after = a + 1
        /\ \A y \in Executions \ {e} : caller'[y] = caller[y]
    BY <1>3, <2>1, <2>3, <2>5, <2>6
  <2>8. TypeInv'
    BY <1>1, <1>2, <2>7 DEF TypeInv, Callers
  <2>9. OthersWhole(e)
    BY <1>2, <2>7 DEF OthersWhole
  <2>10. Sunk(e)'
    BY <2>7 DEF Sunk
  <2>11. Sorting(e)'
    BY <1>2, <1>4, <2>7 DEF Sorting, t
  <2>12. Drained(e)'
    <3>1. Len(output'[e]) = caller'[e].after
      BY <1>5, <2>6, <2>7
    <3>2. \A i \in DOMAIN output'[e] : output'[e][i].index = i
      BY <1>5, <2>5, <2>6, <2>7
    <3> QED BY <2>7, <3>1, <3>2 DEF Drained
  <2> QED BY <2>8, <2>9, <2>10, <2>11, <2>12, OneCallWhole
<1>7. CASE ~(a < Len(t))
  <2>1. Goto(e, "drained") /\ UNCHANGED output
    BY <1>2, <1>7 DEF Tick, Known
  <2>2. "drained" \in PCs
    BY DEF PCs
  <2>3. /\ caller' \in [Executions -> Callers] /\ caller'[e].pc = "drained" /\ caller'[e].after = a
        /\ \A x \in Executions \ {e} : caller'[x] = caller[x]
    BY <1>1, <2>1, <2>2, Moved
  <2>4. a = Batches
    BY <1>3, <1>4, <1>7, BatchesAre
  <2>5. TypeInv' /\ OthersWhole(e)
    BY <1>1, <1>2, <2>1, <2>3 DEF TypeInv, Callers, OthersWhole
  <2>6. Sunk(e)' /\ Sorting(e)'
    BY <1>2, <1>4, <2>3 DEF Sunk, Sorting
  <2>7. Drained(e)'
    BY <1>5, <2>1, <2>3, <2>4 DEF Drained
  <2> QED BY <2>5, <2>6, <2>7, OneCallWhole
<1> QED BY <1>6, <1>7

LEMMA FinalizeStepsWhole ==
  ASSUME Whole, Inv, NEW e \in Executions, Tick(e) \/ Resume(e) \/ Abandon(e) \/ TickFails(e)
  PROVE  Whole'
<1>1. TypeInv /\ Sunk(e) /\ Sorting(e) /\ Drained(e)
  BY DEF Whole
<1>2. sink \in [Executions -> [Sinks -> Requests \cup {None}]] /\ DOMAIN worker = Executions
  BY <1>1 DEF TypeInv
<1>3. CASE Tick(e)
  BY <1>3, TickWhole
<1>4. CASE Resume(e)
  <2>1. /\ caller[e].pc = "yielded" /\ Goto(e, "finalize")
        /\ UNCHANGED <<unsorted, sorted, sink, worker, output>>
    BY <1>4 DEF Resume, At, storage
  <2>2. "finalize" \in PCs
    BY DEF PCs
  <2>3. /\ caller' \in [Executions -> Callers] /\ caller'[e].pc = "finalize"
        /\ caller'[e].after = caller[e].after
        /\ \A x \in Executions \ {e} : caller'[x] = caller[x]
    BY <1>1, <2>1, <2>2, Moved
  <2>4. TypeInv' /\ OthersWhole(e)
    BY <1>1, <2>1, <2>3 DEF TypeInv, Callers, OthersWhole
  <2>5. Sunk(e)' /\ Sorting(e)' /\ Drained(e)'
    BY <1>1, <2>1, <2>3 DEF Sunk, Sorting, Drained
  <2> QED BY <2>4, <2>5, OneCallWhole
<1>5. CASE Abandon(e) \/ TickFails(e)
  <2>1. Goto(e, "failing") /\ UNCHANGED <<unsorted, sorted, sink, worker, output>>
    BY <1>5 DEF Abandon, TickFails, Failing, Goto, storage
  <2> QED BY <1>2, <2>1, LeavingWhole
<1> QED BY <1>3, <1>4, <1>5

LEMMA DestroyStepsWhole ==
  ASSUME Whole, NEW e \in Executions, Destroy(e) \/ DestroyFails(e)
  PROVE  Whole'
<1>1. TypeInv /\ Sunk(e) /\ Sorting(e) /\ Drained(e)
  BY DEF Whole
<1>2. CASE Destroy(e)
  <2>1. /\ Goto(e, Ending(e)) /\ unsorted' = [unsorted EXCEPT ![e] = <<>>]
        /\ sorted' = [sorted EXCEPT ![e] = <<>>] /\ UNCHANGED <<sink, worker, output>>
    BY <1>2 DEF Destroy
  <2>2. /\ Ending(e) \in PCs /\ Ending(e) \in {"complete", "failed"}
        /\ Ending(e) = "complete" => caller[e].pc = "drained"
    BY DEF Ending, PCs, At
  <2>3. /\ caller' \in [Executions -> Callers] /\ caller'[e].pc = Ending(e)
        /\ caller'[e].after = caller[e].after
        /\ \A x \in Executions \ {e} : caller'[x] = caller[x]
    BY <1>1, <2>1, <2>2, Moved
  <2>4. <<>> \in Seq(Entries)
    OBVIOUS
  <2>5. /\ unsorted' \in [Executions -> Seq(Entries)] /\ sorted' \in [Executions -> Seq(Entries)]
        /\ \A x \in Executions \ {e} : unsorted'[x] = unsorted[x] /\ sorted'[x] = sorted[x]
    BY <1>1, <2>1, <2>4 DEF TypeInv
  <2>6. TypeInv' /\ OthersWhole(e)
    BY <1>1, <2>1, <2>3, <2>5 DEF TypeInv, Callers, OthersWhole
  <2>7. Sunk(e)' /\ Sorting(e)'
    BY <2>2, <2>3 DEF Sunk, Sorting
  <2>8. Drained(e)'
    BY <1>1, <2>1, <2>2, <2>3 DEF Drained
  <2> QED BY <2>6, <2>7, <2>8, OneCallWhole
<1>3. CASE DestroyFails(e)
  <2>1. Goto(e, "lost") /\ UNCHANGED <<unsorted, sorted, sink, worker, output>>
    BY <1>3 DEF DestroyFails, storage
  <2> QED BY <1>1, <2>1, LeavingWhole DEF TypeInv
<1> QED BY <1>2, <1>3

-----------------------------------------------------------------------------
LEMMA NextWhole == Inv /\ Whole /\ [Next]_vars => Whole'
<1> SUFFICES ASSUME Inv, Whole, [Next]_vars PROVE Whole'
  OBVIOUS
<1>1. CASE Next
  BY <1>1, InitStepsWhole, SinkStepsWhole, CombineStepsWhole, FinalizeStepsWhole, DestroyStepsWhole DEF Next
<1>2. CASE UNCHANGED vars
  <2>1. UNCHANGED <<unsorted, sorted, caller, sink, worker, output>>
    BY <1>2 DEF vars, storage
  <2>2. TypeInv'
    BY <2>1 DEF Whole, TypeInv
  <2>3. ASSUME NEW e \in Executions PROVE Sunk(e)' /\ Sorting(e)' /\ Drained(e)'
    <3>1. Sunk(e) /\ Sorting(e) /\ Drained(e)
      BY DEF Whole
    <3>2. Sunk(e)'
      BY <2>1, <3>1 DEF Sunk, Logged, Carried
    <3> QED BY <2>1, <3>1, <3>2 DEF Sorting, Drained
  <2> QED BY <2>2, <2>3 DEF Whole
<1> QED BY <1>1, <1>2

\* A consumer reads the batches in the order of the input, none twice and none
\* skipped, and all of them if the call completes, whichever sinks had them and
\* in whatever order they were logged (BatchIndexBufferInputFunction).
THEOREM OutputsAreWhole == Spec => []OutputIsWhole
<1>1. Whole => OutputIsWhole
  <2> SUFFICES ASSUME Whole, NEW e \in Executions
               PROVE  /\ \A i \in DOMAIN output[e] : output[e][i].index = i
                      /\ At(e, "complete") => Len(output[e]) = Batches
    BY DEF OutputIsWhole
  <2>1. Drained(e)
    BY DEF Whole
  <2> QED BY <2>1 DEF Drained, At
<1> QED BY <1>1, InitInv, NextInv, InitWhole, NextWhole, PTL DEF Spec
=============================================================================
