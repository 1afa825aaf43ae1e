------------------------- MODULE ClientFanOutProofs -------------------------
(***************************************************************************)
(* Proofs about ClientFanOut for any number of connections, calls, batches *)
(* and failures.                                                           *)
(*                                                                         *)
(* The calling thread only counts results.  Those it has taken and those   *)
(* that are queued are together as many as the batches answered and the    *)
(* threads that have ended; a batch is dealt to one thread, is in its      *)
(* queue once and until it is sent, and is answered once.  So when as many *)
(* results are in as there are batches dealt and threads started, none is  *)
(* missing and nothing is left on the queue.                               *)
(***************************************************************************)
EXTENDS ClientFanOut, FiniteSetTheorems, SequenceTheorems, TLAPS

Outputs == {Output(b, n) : b \in Batches, n \in Nat}
Entries == Outputs \cup {Done, Failed}

Mains == [pc : {"idle", "init", "deal", "collect", "yield", "finalize"}, call : 0..Calls,
          sent : 0..MaxBatches, received : Nat, outcome : {"none", "ok", "failed", "abandoned"}]

States == [pc : {"none", "init", "get", "wait", "exit"}, queue : Seq(0..MaxBatches),
           item : 0..MaxBatches, outputs : Nat]

TypeInv ==
  /\ main \in Mains
  /\ thread \in [Threads -> States]
  /\ \A t \in Threads : thread[t].pc = "wait" => thread[t].item \in Batches
  /\ results \in Seq(Entries)
  /\ made \in [1..Calls -> [Batches -> Nat]]
  /\ answered \subseteq (1..Calls) \X Batches
  /\ handed \in [Batches -> Nat]

\* The current call has not ended and may still take results.
Running == main.pc \in {"init", "deal", "collect", "yield"}

Called ==
  /\ main.pc # "idle" => main.call > 0 /\ main.outcome = "none"
  /\ main.pc = "init" => /\ main.sent = 0 /\ main.received = 0 /\ results = <<>>
                         /\ \A b \in Batches : handed[b] = 0

\* Calls that are still to come have left no trace.
Later ==
  \A k \in 1..Calls : k > main.call \/ (k = main.call /\ main.pc = "init") =>
    /\ \A t \in Threads : t[1] = k => thread[t] = NotStarted
    /\ \A b \in Batches : made[k][b] = 0 /\ <<k, b>> \notin answered

Bounded == main.call > 0 => \A b \in Batches : handed[b] <= made[main.call][b]

Owner(b) == (b - 1) % MaxWorkers

\* Batch b of the current call is dealt and not yet answered, by thread t.
Pending(t, b) ==
  b \in 1..main.sent /\ Owner(b) = t[2] /\ <<main.call, b>> \notin answered

\* What a thread of the current call has been dealt.
DealtTo(t) ==
  \A b \in Batches :
    /\ \A i \in DOMAIN thread[t].queue : thread[t].queue[i] = b =>
         /\ Pending(t, b) /\ made[main.call][b] = 0
         /\ thread[t].pc = "wait" => thread[t].item # b
         /\ \A j \in DOMAIN thread[t].queue : thread[t].queue[j] = b => i = j
    /\ thread[t].pc = "wait" /\ thread[t].item = b =>
         Pending(t, b) /\ made[main.call][b] = thread[t].outputs

Dealt == Running =>
  /\ \A t \in Threads : t[1] = main.call => DealtTo(t)
  /\ \A b \in Batches : b > main.sent => made[main.call][b] = 0 /\ <<main.call, b>> \notin answered

\* The output of a batch is on the queue, or with the consumer, once.
Shown == Running =>
  /\ \A i \in DOMAIN results, b \in Batches, n \in Nat : results[i] = Output(b, n) =>
       <<main.call, b>> \in answered /\ handed[b] = 0 /\ n = made[main.call][b]
  /\ \A i, j \in DOMAIN results : results[i] = results[j] /\ results[i] \in Outputs => i = j
  /\ \A b \in Batches : <<main.call, b>> \in answered /\ handed[b] # made[main.call][b] =>
       \E i \in DOMAIN results : results[i] = Output(b, made[main.call][b])
  /\ \A b \in Batches : <<main.call, b>> \notin answered => handed[b] = 0

AnsweredOf(k) == {b \in Batches : <<k, b>> \in answered}
Exited(k) == {t \in Threads : t[1] = k /\ thread[t].pc = "exit"}

Counted == Running =>
  main.received + Len(results) = Cardinality(AnsweredOf(main.call)) + Cardinality(Exited(main.call))

\* A call that has all its results.
Complete == main.pc = "finalize" \/ (main.pc = "idle" /\ main.outcome = "ok") =>
  /\ main.call > 0
  /\ \A b \in 1..main.sent : <<main.call, b>> \in answered /\ handed[b] = made[main.call][b]
  /\ \A t \in Started(main.call) : thread[t].pc = "exit"
  /\ additional = {}

Inv == TypeInv /\ Called /\ Later /\ Bounded /\ Dealt /\ Shown /\ Counted /\ Complete

-----------------------------------------------------------------------------
(* Data.                                                                   *)

LEMMA ParametersAre ==
  /\ MaxWorkers \in Nat \ {0} /\ Calls \in Nat \ {0} /\ MaxBatches \in Nat \ {0}
  /\ MaxOutputs \in Nat \ {0} /\ MaxFailures \in Nat
  BY Parameters

LEMMA EntriesApart ==
  /\ Done \in Entries /\ Failed \in Entries
  /\ Done \notin Outputs /\ Failed \notin Outputs /\ Done # Failed
  /\ \A b \in Batches, n \in Nat :
       /\ Output(b, n) \in Outputs /\ Output(b, n) \in Entries
       /\ Output(b, n).kind = "batch" /\ Output(b, n).batch = b /\ Output(b, n).outputs = n
       /\ \A c \in Batches, m \in Nat : Output(b, n) = Output(c, m) => b = c /\ n = m
  /\ \A r \in Entries : r.kind = "batch" =>
       /\ r.batch \in Batches /\ r.outputs \in Nat /\ r = Output(r.batch, r.outputs)
<1>1. /\ Done.kind = "done" /\ Failed.kind = "failed"
      /\ \A b, n : /\ Output(b, n).kind = "batch" /\ Output(b, n).batch = b
                   /\ Output(b, n).outputs = n
  BY DEF Done, Failed, Output
<1>2. \A r \in Outputs : \E b \in Batches, n \in Nat : r = Output(b, n)
  BY DEF Outputs
<1>3. \A b \in Batches, n \in Nat : Output(b, n) \in Outputs
  BY DEF Outputs
<1>4. \A r \in Outputs : /\ r.kind = "batch" /\ r.batch \in Batches /\ r.outputs \in Nat
                         /\ r = Output(r.batch, r.outputs)
  BY <1>1, <1>2
<1> HIDE DEF Outputs
<1> QED BY <1>1, <1>3, <1>4 DEF Entries

LEMMA BatchesFinite == IsFiniteSet(Batches) /\ Cardinality(Batches) = MaxBatches /\ Batches \subseteq Nat \ {0}
  BY ParametersAre, FS_Interval DEF Batches

LEMMA IntervalIs ==
  ASSUME NEW n \in Nat
  PROVE  IsFiniteSet(1..n) /\ Cardinality(1..n) = n
<1>1. IsFiniteSet(1..n) /\ Cardinality(1..n) = IF 1 > n THEN 0 ELSE n - 1 + 1
  BY FS_Interval
<1> QED BY <1>1

LEMMA ThreadsFinite == IsFiniteSet(Threads)
<1>1. IsFiniteSet(1..Calls) /\ IsFiniteSet(Index)
  BY ParametersAre, FS_Interval DEF Index
<1> QED BY <1>1, FS_Product DEF Threads

LEMMA OwnersAre == \A n \in Nat : n % MaxWorkers \in Index
  BY ParametersAre DEF Index

LEMMA ThreadIs ==
  /\ \A t \in Threads : t[1] \in 1..Calls /\ t[2] \in Index /\ t = <<t[1], t[2]>>
  /\ \A k \in 1..Calls, i \in Index : <<k, i>> \in Threads
  /\ \A t, u \in Threads : t[1] = u[1] /\ t[2] = u[2] => t = u
  BY DEF Threads

\* Sets that are counted.
LEMMA CountsAre ==
  /\ \A k : IsFiniteSet(AnsweredOf(k)) /\ Cardinality(AnsweredOf(k)) \in Nat
  /\ \A k : IsFiniteSet(Exited(k)) /\ Cardinality(Exited(k)) \in Nat
  /\ \A k : IsFiniteSet(Started(k)) /\ Cardinality(Started(k)) \in Nat
<1>1. \A k : /\ AnsweredOf(k) \in SUBSET Batches /\ Exited(k) \in SUBSET Threads
             /\ Started(k) \in SUBSET Threads
  BY DEF AnsweredOf, Exited, Started
<1>2. \A k : /\ IsFiniteSet(AnsweredOf(k)) /\ IsFiniteSet(Exited(k)) /\ IsFiniteSet(Started(k))
  BY <1>1, BatchesFinite, ThreadsFinite, FS_Subset
<1> QED BY <1>2, FS_CardinalityType

\* An entry is added to a queue, and taken from it.
LEMMA AddEntry ==
  ASSUME NEW S, NEW s \in Seq(S), NEW e \in S
  PROVE  /\ Append(s, e) \in Seq(S) /\ Len(Append(s, e)) = Len(s) + 1 /\ Len(s) \in Nat
         /\ DOMAIN Append(s, e) = DOMAIN s \cup {Len(s) + 1} /\ Len(s) + 1 \notin DOMAIN s
         /\ \A i \in DOMAIN s : Append(s, e)[i] = s[i]
         /\ Append(s, e)[Len(s) + 1] = e
  OBVIOUS

LEMMA TakeEntry ==
  ASSUME NEW S, NEW s \in Seq(S), s # <<>>
  PROVE  /\ Head(s) \in S /\ Tail(s) \in Seq(S) /\ Len(Tail(s)) = Len(s) - 1
         /\ Len(s) \in Nat /\ 1 \in DOMAIN s /\ Head(s) = s[1]
         /\ \A i \in DOMAIN Tail(s) : i \in Nat /\ i + 1 \in DOMAIN s /\ i + 1 # 1 /\ Tail(s)[i] = s[i + 1]
         /\ \A i \in DOMAIN s : i # 1 => i - 1 \in DOMAIN Tail(s) /\ Tail(s)[i - 1] = s[i]
<1>1. /\ Head(s) \in S /\ Tail(s) \in Seq(S) /\ Len(Tail(s)) = Len(s) - 1
      /\ \A i \in 1..Len(Tail(s)) : Tail(s)[i] = s[i + 1]
  BY HeadTailProperties
<1>2. Len(s) \in Nat \ {0} /\ DOMAIN s = 1..Len(s) /\ DOMAIN Tail(s) = 1..(Len(s) - 1)
  BY <1>1, LenProperties
<1>3. Head(s) = s[1]
  BY <1>2
<1> QED BY <1>1, <1>2, <1>3

-----------------------------------------------------------------------------
LEMMA InitInv == Init => Inv
<1> SUFFICES ASSUME Init PROVE Inv
  OBVIOUS
<1>1. TypeInv
  <2>1. main \in Mains
    BY ParametersAre DEF Init, Mains
  <2>2. NotStarted \in States
    BY ParametersAre DEF NotStarted, States, None
  <2>3. thread \in [Threads -> States] /\ \A t \in Threads : thread[t].pc # "wait"
    BY <2>2 DEF Init, NotStarted
  <2> QED BY <2>1, <2>3 DEF Init, TypeInv
<1>2. ~Running /\ main.pc = "idle" /\ main.call = 0 /\ main.outcome = "none"
  BY DEF Init, Running
<1>3. Later
  BY DEF Init, Later
<1> QED BY <1>1, <1>2, <1>3 DEF Inv, Called, Bounded, Dealt, Shown, Counted, Complete

-----------------------------------------------------------------------------
(* The calling thread.                                                     *)

\* Whatever the calling thread does to the threads of its own call, the calls
\* to come are untouched.
LEMMA LaterStays ==
  ASSUME Inv, TypeInv', main'.call = main.call, main'.pc # "init", UNCHANGED <<made, answered>>,
         \A t \in Threads : t[1] # main.call => thread'[t] = thread[t]
  PROVE  Later'
<1>1. ASSUME NEW k \in 1..Calls, k > main.call PROVE k # main.call
  BY <1>1 DEF Inv, TypeInv, Mains
<1> QED BY <1>1 DEF Inv, Later

\* A call that ends by an exception, or is given up.
LEMMA LeavingInv ==
  ASSUME Inv, TypeInv', NEW o \in {"failed", "abandoned"}, Leave(o),
         UNCHANGED <<made, answered, handed>>,
         \A t \in Threads : t[1] # main.call => thread'[t] = thread[t]
  PROVE  Inv'
<1>1. main'.pc = "idle" /\ main'.call = main.call /\ main'.outcome = o
  BY DEF Leave, Inv, TypeInv, Mains
<1>2. Later'
  BY <1>1, LaterStays
<1>3. ~Running' /\ Called' /\ Bounded'
  BY <1>1 DEF Running, Called, Bounded, Inv
<1>4. Dealt' /\ Shown' /\ Counted' /\ Complete'
  BY <1>1, <1>3 DEF Dealt, Shown, Counted, Complete
<1> QED BY <1>2, <1>3, <1>4 DEF Inv

LEMMA SentinelsAre ==
  ASSUME TypeInv, NEW k
  PROVE  /\ Sentinels(k) \in [Threads -> States]
         /\ \A t \in Threads :
              /\ t[1] # k => Sentinels(k)[t] = thread[t]
              /\ Sentinels(k)[t].pc = thread[t].pc /\ Sentinels(k)[t].item = thread[t].item
              /\ Sentinels(k)[t].outputs = thread[t].outputs
              /\ Sentinels(k)[t].queue \in {thread[t].queue, Append(thread[t].queue, None)}
<1>1. None \in 0..MaxBatches
  BY ParametersAre DEF None
<1>2. ASSUME NEW t \in Threads, NEW f, f = [thread[t] EXCEPT !.queue = Append(@, None)]
      PROVE  /\ f \in States
             /\ f.pc = thread[t].pc /\ f.item = thread[t].item /\ f.outputs = thread[t].outputs
             /\ f.queue = Append(thread[t].queue, None)
  <2>1. thread[t] \in States /\ Append(thread[t].queue, None) \in Seq(0..MaxBatches)
    BY <1>1, AddEntry DEF TypeInv, States
  <2> QED BY <1>2, <2>1 DEF States
<1>3. \A t \in Threads : Sentinels(k)[t] = IF t \in Started(k)
                                          THEN [thread[t] EXCEPT !.queue = Append(@, None)]
                                          ELSE thread[t]
  BY DEF Sentinels
<1>4. Sentinels(k) \in [Threads -> States]
  <2>1. \A t \in Threads : Sentinels(k)[t] \in States
    BY <1>2, <1>3 DEF TypeInv
  <2> QED BY <2>1 DEF Sentinels
<1>5. ASSUME NEW t \in Threads
      PROVE  /\ t[1] # k => Sentinels(k)[t] = thread[t]
             /\ Sentinels(k)[t].pc = thread[t].pc /\ Sentinels(k)[t].item = thread[t].item
             /\ Sentinels(k)[t].outputs = thread[t].outputs
             /\ Sentinels(k)[t].queue \in {thread[t].queue, Append(thread[t].queue, None)}
  <2>1. CASE t \in Started(k)
    BY <1>2, <1>3, <2>1 DEF Started
  <2>2. CASE t \notin Started(k)
    BY <1>3, <2>2
  <2> QED BY <2>1, <2>2
<1> QED BY <1>4, <1>5

LEMMA EndingInv ==
  ASSUME Inv, InitFails \/ DealingFails \/ CollectFailure \/ Abandon
  PROVE  Inv'
<1>1. main \in Mains /\ \A o \in {"failed", "abandoned"} : Leave(o) => main' \in Mains
  BY DEF Inv, TypeInv, Mains, Leave
<1>2. CASE InitFails \/ Abandon
  <2>1. TypeInv'
    BY <1>1, <1>2 DEF InitFails, Abandon, Inv, TypeInv
  <2> QED BY <1>2, <2>1, LeavingInv DEF InitFails, Abandon
<1>3. CASE DealingFails
  <2>1. /\ thread' \in [Threads -> States]
        /\ \A t \in Threads : t[1] # main.call => thread'[t] = thread[t]
        /\ \A t \in Threads : thread'[t].pc = thread[t].pc /\ thread'[t].item = thread[t].item
    BY <1>3, SentinelsAre DEF DealingFails, AfterDealingFailed, Inv
  <2>2. TypeInv'
    BY <1>1, <1>3, <2>1 DEF DealingFails, Inv, TypeInv
  <2> QED BY <1>3, <2>1, <2>2, LeavingInv DEF DealingFails
<1>4. CASE CollectFailure
  <2>1. results' \in Seq(Entries)
    BY <1>4, TakeEntry DEF CollectFailure, Inv, TypeInv
  <2>2. TypeInv'
    BY <1>1, <1>4, <2>1 DEF CollectFailure, Inv, TypeInv
  <2> QED BY <1>4, <2>2, LeavingInv DEF CollectFailure
<1> QED BY <1>2, <1>3, <1>4

\* What is known of a call that has not started.
LEMMA FreshCall ==
  ASSUME Inv, NEW k \in 1..Calls, k > main.call \/ (k = main.call /\ main.pc = "init")
  PROVE  /\ \A t \in Threads : t[1] = k =>
              thread[t] \in States /\ thread[t].pc = "none" /\ thread[t].queue = <<>>
         /\ \A b \in Batches : made[k][b] = 0 /\ <<k, b>> \notin answered
         /\ AnsweredOf(k) = {} /\ Exited(k) = {}
<1>1. /\ \A t \in Threads : t[1] = k => thread[t] = NotStarted
      /\ \A b \in Batches : made[k][b] = 0 /\ <<k, b>> \notin answered
  BY DEF Inv, Later
<1>2. \A t \in Threads : t[1] = k =>
        thread[t] \in States /\ thread[t].pc = "none" /\ thread[t].queue = <<>>
  BY <1>1 DEF NotStarted, Inv, TypeInv
<1>3. AnsweredOf(k) = {} /\ Exited(k) = {}
  BY <1>1, <1>2 DEF AnsweredOf, Exited
<1> QED BY <1>1, <1>2, <1>3

LEMMA BeginCallInv ==
  ASSUME Inv, BeginCall
  PROVE  Inv'
<1> DEFINE k == main.call + 1
<1>1. /\ k \in 1..Calls /\ k > main.call /\ main' \in Mains /\ main'.call = k /\ main'.pc = "init"
      /\ main'.sent = 0 /\ main'.received = 0 /\ main'.outcome = "none"
  BY ParametersAre DEF BeginCall, Inv, TypeInv, Mains
<1>2. TypeInv'
  BY <1>1 DEF BeginCall, Inv, TypeInv
<1>3. /\ \A t \in Threads : t[1] = k => thread[t].pc = "none" /\ thread[t].queue = <<>>
      /\ \A b \in Batches : made[k][b] = 0 /\ <<k, b>> \notin answered
      /\ AnsweredOf(k) = {} /\ Exited(k) = {}
  BY <1>1, FreshCall
<1>4. Later'
  <2>1. \A j \in 1..Calls : j > k \/ j = k => j > main.call
    BY <1>1 DEF Inv, TypeInv, Mains
  <2> QED BY <1>1, <2>1 DEF BeginCall, Inv, Later
<1>5. Called' /\ Bounded'
  <2>1. results' = <<>> /\ made' = made /\ \A b \in Batches : handed'[b] = 0
    BY DEF BeginCall
  <2>2. \A b \in Batches : made'[main'.call][b] = 0
    BY <1>1, <1>3, <2>1
  <2>3. Bounded'
    BY <2>1, <2>2 DEF Bounded
  <2>4. Called'
    BY <1>1, <2>1 DEF Called
  <2> QED BY <2>3, <2>4
<1>6. Dealt'
  BY <1>1, <1>3 DEF BeginCall, Dealt, DealtTo
<1>7. Shown'
  BY <1>1, <1>3 DEF BeginCall, Shown
<1>8. Counted'
  <2>1. thread' = thread /\ answered' = answered /\ results' = <<>>
    BY DEF BeginCall
  <2>2. AnsweredOf(main.call)' = {} /\ Exited(main.call)' = {}
    BY <1>1, <1>3, <2>1 DEF AnsweredOf, Exited
  <2> QED BY <1>1, <2>1, <2>2, FS_EmptySet DEF Counted
<1>9. Complete'
  BY <1>1 DEF Complete
<1> QED BY <1>2, <1>4, <1>5, <1>6, <1>7, <1>8, <1>9 DEF Inv

LEMMA InitAnsweredInv ==
  ASSUME Inv, InitAnswered
  PROVE  Inv'
<1> DEFINE k == main.call
           t0 == <<k, 0>>
<1>1. /\ k \in 1..Calls /\ main' \in Mains /\ main'.call = k /\ main'.pc = "deal" /\ main.pc = "init"
      /\ main'.sent = 0 /\ main'.received = 0 /\ main'.outcome = "none"
      /\ results = <<>> /\ results' = <<>>
  BY DEF InitAnswered, Inv, TypeInv, Mains, Called
<1>2. t0 \in Threads /\ t0[1] = k
  BY <1>1, ParametersAre DEF Threads, Index
<1>3. /\ \A t \in Threads : t[1] = k =>
           thread[t] \in States /\ thread[t].pc = "none" /\ thread[t].queue = <<>>
      /\ \A b \in Batches : made[k][b] = 0 /\ <<k, b>> \notin answered
      /\ AnsweredOf(k) = {} /\ Exited(k) = {}
  BY <1>1, FreshCall
<1>4. /\ thread' \in [Threads -> States]
      /\ \A t \in Threads : t # t0 => thread'[t] = thread[t]
      /\ thread'[t0].pc = "get" /\ thread'[t0].queue = <<>>
  BY <1>2, <1>3 DEF InitAnswered, Inv, TypeInv, States
<1>5. TypeInv'
  BY <1>1, <1>4 DEF InitAnswered, Inv, TypeInv
<1>6. Later'
  BY <1>1, <1>2, <1>4, <1>5, LaterStays DEF InitAnswered
<1>7. Called' /\ Bounded' /\ Complete'
  BY <1>1 DEF InitAnswered, Called, Bounded, Complete, Inv
<1>8. \A t \in Threads : t[1] = k => thread'[t].pc \in {"none", "get"} /\ thread'[t].queue = <<>>
  BY <1>3, <1>4
<1>9. Dealt'
  BY <1>1, <1>3, <1>8 DEF InitAnswered, Dealt, DealtTo
<1>10. Shown'
  BY <1>1, <1>3 DEF InitAnswered, Shown, Called, Inv
<1>11. Counted'
  <2>1. AnsweredOf(main.call)' = {} /\ Exited(main.call)' = {}
    BY <1>1, <1>3, <1>8 DEF InitAnswered, AnsweredOf, Exited
  <2> QED BY <1>1, <2>1, FS_EmptySet DEF Counted
<1> QED BY <1>5, <1>6, <1>7, <1>9, <1>10, <1>11 DEF Inv

LEMMA DealingInv ==
  ASSUME Inv, Deal, NEW n, n = main.sent + 1, NEW t0, t0 = <<main.call, Target>>
  PROVE  Inv'
<1> DEFINE k == main.call
<1>1. /\ k \in 1..Calls /\ main' \in Mains /\ main'.call = k /\ main'.pc = "deal" /\ main.pc = "deal"
      /\ main'.sent = n /\ main'.received = main.received /\ main'.outcome = "none"
      /\ main.sent \in Nat /\ n \in Batches
  <2>1. main \in Mains /\ main.pc = "deal" /\ main.sent < MaxBatches /\ main' = [main EXCEPT !.sent = @ + 1]
        /\ main.call > 0 /\ main.outcome = "none"
    BY DEF Deal, Inv, TypeInv, Called
  <2>2. main.sent \in 0..MaxBatches /\ n \in 0..MaxBatches /\ n \in Batches /\ main.call \in 1..Calls
    BY <2>1, ParametersAre DEF Mains, Batches
  <2> QED BY <2>1, <2>2 DEF Mains
<1>2. t0 \in Threads /\ t0[1] = k /\ t0[2] = Owner(n)
  <2>1. Target \in Index /\ Owner(n) = Target
    BY <1>1, OwnersAre DEF Owner, Target
  <2> QED BY <1>1, <2>1 DEF Threads
<1>3. thread[t0] \in States /\ n \in 0..MaxBatches
  BY <1>1, <1>2, ParametersAre DEF Inv, TypeInv, Batches
<1>4. /\ thread' \in [Threads -> States]
      /\ \A t \in Threads : t # t0 => thread'[t] = thread[t]
      /\ thread'[t0].pc = IF thread[t0].pc = "none" THEN "init" ELSE thread[t0].pc
      /\ thread'[t0].queue = Append(thread[t0].queue, n)
      /\ thread'[t0].item = thread[t0].item /\ thread'[t0].outputs = thread[t0].outputs
  <2>1. Append(thread[t0].queue, n) \in Seq(0..MaxBatches)
    BY <1>3, AddEntry DEF States
  <2>2. thread' = [thread EXCEPT ![t0].pc = IF thread[t0].pc = "none" THEN "init" ELSE @,
                                 ![t0].queue = Append(@, n)]
    BY DEF Deal, NeedsConnection
  <2> QED BY <1>2, <1>3, <2>1, <2>2 DEF Inv, TypeInv, States
<1>5. TypeInv'
  <2>1. \A t \in Threads : thread'[t].pc = "wait" => thread'[t].item \in Batches
    BY <1>2, <1>4 DEF Inv, TypeInv
  <2> QED BY <1>1, <1>4, <2>1 DEF Deal, Inv, TypeInv
<1>6. Later'
  BY <1>1, <1>2, <1>4, <1>5, LaterStays DEF Deal
<1>7. Called' /\ Bounded' /\ Complete'
  BY <1>1 DEF Deal, Called, Bounded, Complete, Inv
<1>8. UNCHANGED <<made, answered, results, handed>>
  BY DEF Deal
<1>9. Running /\ Running' /\ Dealt
  BY <1>1 DEF Running, Inv
<1>10. made[k][n] = 0 /\ <<k, n>> \notin answered
  BY <1>1, <1>9 DEF Dealt
<1>11. \A t \in Threads, b \in Batches : Pending(t, b) => Pending(t, b)' /\ b # n
  BY <1>1, <1>8 DEF Pending
<1>12. Pending(t0, n)'
  BY <1>1, <1>2, <1>8, <1>10, BatchesFinite DEF Pending
<1>13. ASSUME NEW t \in Threads, t[1] = k PROVE DealtTo(t)'
  <2>1. DealtTo(t) /\ thread[t] \in States
    BY <1>9, <1>13 DEF Dealt, Inv, TypeInv
  <2>2. CASE t # t0
    BY <1>1, <1>4, <1>8, <1>11, <2>1, <2>2 DEF DealtTo
  <2>3. CASE t = t0
    <3> DEFINE q == thread[t].queue
               r == thread'[t].queue
    <3>1. /\ q \in Seq(0..MaxBatches) /\ DOMAIN r = DOMAIN q \cup {Len(q) + 1} /\ Len(q) + 1 \notin DOMAIN q
          /\ \A i \in DOMAIN q : r[i] = q[i]
          /\ r[Len(q) + 1] = n
      <4>1. q \in Seq(0..MaxBatches) /\ r = Append(q, n)
        BY <1>4, <2>1, <2>3 DEF States
      <4> HIDE DEF q, r
      <4> QED BY <1>3, <4>1, AddEntry
    <3>2. /\ thread'[t].pc = "wait" => thread[t].pc = "wait"
          /\ thread'[t].item = thread[t].item /\ thread'[t].outputs = thread[t].outputs
      BY <1>4, <2>3
    <3> SUFFICES ASSUME NEW b \in Batches
                 PROVE  /\ \A i \in DOMAIN r : r[i] = b =>
                             /\ Pending(t, b)' /\ made'[k][b] = 0
                             /\ thread'[t].pc = "wait" => thread'[t].item # b
                             /\ \A j \in DOMAIN r : r[j] = b => i = j
                        /\ thread'[t].pc = "wait" /\ thread'[t].item = b =>
                             Pending(t, b)' /\ made'[k][b] = thread'[t].outputs
      BY <1>1 DEF DealtTo
    <3>3. \A i \in DOMAIN q : q[i] = b =>
            /\ Pending(t, b)' /\ b # n /\ made[k][b] = 0
            /\ thread[t].pc = "wait" => thread[t].item # b
            /\ \A j \in DOMAIN q : q[j] = b => i = j
      BY <1>11, <2>1 DEF DealtTo
    <3>4. thread[t].pc = "wait" /\ thread[t].item = b =>
            Pending(t, b)' /\ b # n /\ made[k][b] = thread[t].outputs
      BY <1>11, <2>1 DEF DealtTo
    <3> HIDE DEF q, r
    <3>5. CASE b = n
      BY <1>8, <1>10, <1>12, <2>3, <3>1, <3>2, <3>3, <3>4, <3>5
    <3>6. CASE b # n
      BY <1>8, <3>1, <3>2, <3>3, <3>4, <3>6
    <3> QED BY <3>5, <3>6
  <2> QED BY <2>2, <2>3
<1>14. \A b \in Batches : b > n => made[k][b] = 0 /\ <<k, b>> \notin answered
  BY <1>1, <1>9, BatchesFinite DEF Dealt
<1>15. Dealt'
  BY <1>1, <1>8, <1>13, <1>14 DEF Dealt
<1>16. Shown'
  BY <1>1, <1>8, <1>9 DEF Shown, Inv
<1>17. Counted'
  <2>1. Exited(main.call)' = Exited(main.call) /\ AnsweredOf(main.call)' = AnsweredOf(main.call)
    BY <1>1, <1>2, <1>4, <1>8 DEF Exited, AnsweredOf
  <2> QED BY <1>1, <1>8, <1>9, <2>1 DEF Counted, Inv
<1> QED BY <1>5, <1>6, <1>7, <1>15, <1>16, <1>17 DEF Inv

LEMMA DealInv == Inv /\ Deal => Inv'
<1> SUFFICES ASSUME Inv, Deal PROVE Inv'
  OBVIOUS
<1> QED BY DealingInv

LEMMA InputEndsInv ==
  ASSUME Inv, InputEnds
  PROVE  Inv'
<1> DEFINE k == main.call
<1>1. /\ k \in 1..Calls /\ main' \in Mains /\ main'.call = k /\ main'.pc = "collect" /\ main.pc = "deal"
      /\ main'.sent = main.sent /\ main'.received = main.received /\ main'.outcome = "none"
  BY DEF InputEnds, Inv, TypeInv, Mains, Called
<1>2. /\ thread' \in [Threads -> States]
      /\ \A t \in Threads :
           /\ t[1] # k => thread'[t] = thread[t]
           /\ thread'[t].pc = thread[t].pc /\ thread'[t].item = thread[t].item
           /\ thread'[t].outputs = thread[t].outputs
           /\ thread'[t].queue \in {thread[t].queue, Append(thread[t].queue, None)}
  BY SentinelsAre DEF InputEnds, Inv
<1>3. UNCHANGED <<made, answered, results, handed>>
  BY DEF InputEnds
<1>4. TypeInv'
  BY <1>1, <1>2, <1>3 DEF Inv, TypeInv
<1>5. Later'
  BY <1>1, <1>2, <1>3, <1>4, LaterStays
<1>6. Called' /\ Bounded' /\ Complete'
  BY <1>1, <1>3 DEF Called, Bounded, Complete, Inv
<1>7. Running /\ Running' /\ Dealt
  BY <1>1 DEF Running, Inv
<1>8. \A t \in Threads, b \in Batches : Pending(t, b)' <=> Pending(t, b)
  BY <1>1, <1>3 DEF Pending
<1>9. ASSUME NEW t \in Threads, t[1] = k PROVE DealtTo(t)'
  <2> DEFINE q == thread[t].queue
             r == thread'[t].queue
  <2>1. DealtTo(t) /\ thread[t] \in States
    BY <1>7, <1>9 DEF Dealt, Inv, TypeInv
  <2>2. q \in Seq(0..MaxBatches) /\ None \in 0..MaxBatches /\ None \notin Batches
    BY <2>1, ParametersAre DEF States, None, Batches
  <2>3. \A i \in DOMAIN r : r[i] \in Batches => i \in DOMAIN q /\ r[i] = q[i]
    <3>1. CASE r = q
      BY <3>1
    <3>2. CASE r = Append(q, None)
      <4> HIDE DEF q
      <4> QED BY <2>2, <3>2, AddEntry
    <3> QED BY <1>2, <3>1, <3>2
  <2>4. \A b \in Batches :
          /\ \A i \in DOMAIN q : q[i] = b =>
               /\ Pending(t, b)' /\ made'[k][b] = 0
               /\ thread'[t].pc = "wait" => thread'[t].item # b
               /\ \A j \in DOMAIN q : q[j] = b => i = j
          /\ thread'[t].pc = "wait" /\ thread'[t].item = b =>
               Pending(t, b)' /\ made'[k][b] = thread'[t].outputs
    BY <1>2, <1>3, <1>8, <2>1 DEF DealtTo
  <2> HIDE DEF q
  <2>5. \A b \in Batches :
          \A i \in DOMAIN r : r[i] = b =>
               /\ Pending(t, b)' /\ made'[k][b] = 0
               /\ thread'[t].pc = "wait" => thread'[t].item # b
               /\ \A j \in DOMAIN r : r[j] = b => i = j
    BY <2>3, <2>4
  <2> QED BY <1>1, <2>4, <2>5 DEF DealtTo
<1>10. Dealt'
  BY <1>1, <1>3, <1>7, <1>9 DEF Dealt
<1>11. Shown'
  BY <1>1, <1>3, <1>7 DEF Shown, Inv
<1>12. Counted'
  <2>1. Exited(main.call)' = Exited(main.call) /\ AnsweredOf(main.call)' = AnsweredOf(main.call)
    BY <1>1, <1>2, <1>3 DEF Exited, AnsweredOf
  <2> QED BY <1>1, <1>3, <1>7, <2>1 DEF Counted, Inv
<1> QED BY <1>4, <1>5, <1>6, <1>10, <1>11, <1>12 DEF Inv

\* A step that leaves the threads and what they made alone.
LEMMA ThreadsStay ==
  ASSUME Inv, Running, main.pc # "init", main'.call = main.call, main'.sent = main.sent,
         UNCHANGED <<thread, made, answered>>
  PROVE  /\ Dealt'
         /\ Exited(main.call)' = Exited(main.call) /\ AnsweredOf(main.call)' = AnsweredOf(main.call)
<1>1. \A t \in Threads, b \in Batches : Pending(t, b)' <=> Pending(t, b)
  BY DEF Pending
<1>2. \A t \in Threads : DealtTo(t) => DealtTo(t)'
  BY <1>1 DEF DealtTo
<1>3. Dealt'
  BY <1>2 DEF Dealt, Inv
<1> QED BY <1>3 DEF Exited, AnsweredOf

LEMMA CollectBatchInv ==
  ASSUME Inv, CollectBatch
  PROVE  Inv'
<1> DEFINE k == main.call
<1>1. /\ k \in 1..Calls /\ main' \in Mains /\ main'.call = k /\ main'.pc = "yield" /\ main.pc = "collect"
      /\ main'.sent = main.sent /\ main'.received = main.received + 1 /\ main'.outcome = "none"
      /\ main.received \in Nat
  <2>1. /\ main \in Mains /\ main.pc = "collect" /\ main.call > 0 /\ main.outcome = "none"
        /\ main' = [main EXCEPT !.pc = "yield", !.received = @ + 1]
    BY DEF CollectBatch, Collecting, Inv, TypeInv, Called
  <2>2. main.received \in Nat /\ main.received + 1 \in Nat /\ main.call \in 1..Calls
    BY <2>1 DEF Mains
  <2> QED BY <2>1, <2>2 DEF Mains
<1>2. UNCHANGED <<thread, made, answered>> /\ results' = Tail(results) /\ results # <<>>
  BY DEF CollectBatch
<1>3. results \in Seq(Entries) /\ handed \in [Batches -> Nat] /\ made \in [1..Calls -> [Batches -> Nat]]
  BY DEF Inv, TypeInv
<1>4. /\ Head(results) \in Entries /\ results' \in Seq(Entries) /\ Len(results') = Len(results) - 1
      /\ Len(results) \in Nat /\ 1 \in DOMAIN results /\ Head(results) = results[1]
      /\ \A i \in DOMAIN results' : i \in Nat /\ i + 1 \in DOMAIN results /\ i + 1 # 1 /\ results'[i] = results[i + 1]
      /\ \A i \in DOMAIN results : i # 1 => i - 1 \in DOMAIN results' /\ results'[i - 1] = results[i]
  BY <1>2, <1>3, TakeEntry
<1>5. PICK b \in Batches, n \in Nat : Head(results) = Output(b, n)
  <2>1. Head(results).kind = "batch"
    BY DEF CollectBatch
  <2> QED BY <1>4, <2>1, EntriesApart
<1>6. Head(results).batch = b /\ Head(results).outputs = n
  BY <1>5, EntriesApart
<1>7. Running /\ Running' /\ Shown
  BY <1>1 DEF Running, Inv
<1>8. <<k, b>> \in answered /\ handed[b] = 0 /\ n = made[k][b]
  <2>1. \A i \in DOMAIN results, c \in Batches, m \in Nat : results[i] = Output(c, m) =>
          <<k, c>> \in answered /\ handed[c] = 0 /\ m = made[k][c]
    BY <1>7 DEF Shown
  <2>2. 1 \in DOMAIN results /\ results[1] = Output(b, n)
    BY <1>4, <1>5
  <2> QED BY <2>1, <2>2
<1>9. handed' \in [Batches -> Nat] /\ handed'[b] = made[k][b] /\ \A c \in Batches : c # b => handed'[c] = handed[c]
  <2>1. handed' = [handed EXCEPT ![b] = handed[b] + n]
    BY <1>6 DEF CollectBatch
  <2> QED BY <1>3, <1>8, <2>1
<1>10. TypeInv'
  BY <1>1, <1>2, <1>4, <1>9 DEF Inv, TypeInv
<1>11. Later'
  BY <1>1, <1>2, <1>10, LaterStays
<1>12. Called' /\ Complete'
  BY <1>1 DEF Called, Complete
<1>13. Bounded'
  <2>1. \A c \in Batches : made[k][c] \in Nat /\ handed[c] <= made[k][c]
    BY <1>1, <1>3 DEF Inv, Bounded
  <2>2. \A c \in Batches : handed'[c] <= made[k][c]
    BY <1>9, <2>1
  <2> QED BY <1>1, <1>2, <2>2 DEF Bounded
<1>14. Shown'
  <2>1. ASSUME NEW i \in DOMAIN results', NEW c \in Batches, NEW m \in Nat, results'[i] = Output(c, m)
        PROVE  <<k, c>> \in answered /\ handed'[c] = 0 /\ m = made[k][c]
    <3>1. i + 1 \in DOMAIN results /\ results[i + 1] = Output(c, m) /\ i + 1 # 1
      BY <1>4, <2>1
    <3>2. <<k, c>> \in answered /\ handed[c] = 0 /\ m = made[k][c]
      BY <1>7, <3>1 DEF Shown
    <3>3. c # b
      BY <1>4, <1>5, <1>7, <1>8, <3>1, <3>2, EntriesApart DEF Shown
    <3> QED BY <1>9, <3>2, <3>3
  <2>2. ASSUME NEW i \in DOMAIN results', NEW j \in DOMAIN results', results'[i] = results'[j],
               results'[i] \in Outputs
        PROVE  i = j
    <3>1. /\ i \in Nat /\ j \in Nat /\ i + 1 \in DOMAIN results /\ j + 1 \in DOMAIN results
          /\ results[i + 1] = results[j + 1] /\ results[i + 1] \in Outputs
      BY <1>4, <2>2
    <3>2. i + 1 = j + 1
      BY <1>7, <3>1 DEF Shown
    <3> QED BY <3>1, <3>2
  <2>3. ASSUME NEW c \in Batches, <<k, c>> \in answered, handed'[c] # made[k][c]
        PROVE  \E i \in DOMAIN results' : results'[i] = Output(c, made[k][c])
    <3>1. c # b /\ handed[c] # made[k][c]
      BY <1>9, <2>3
    <3>2. PICK i \in DOMAIN results : results[i] = Output(c, made[k][c])
      BY <1>7, <2>3, <3>1 DEF Shown
    <3>3. made[k][c] \in Nat
      BY <1>1, <1>3
    <3>4. i # 1
      BY <1>4, <1>5, <3>1, <3>2, <3>3, EntriesApart
    <3> QED BY <1>4, <3>2, <3>4
  <2>4. ASSUME NEW c \in Batches, <<k, c>> \notin answered PROVE handed'[c] = 0
    BY <1>7, <1>8, <1>9, <2>4 DEF Shown
  <2> QED BY <1>1, <1>2, <2>1, <2>2, <2>3, <2>4 DEF Shown
<1>15. Dealt' /\ Counted'
  <2>1. /\ Dealt'
        /\ Exited(main.call)' = Exited(main.call) /\ AnsweredOf(main.call)' = AnsweredOf(main.call)
    BY <1>1, <1>2, <1>7, ThreadsStay
  <2> QED BY <1>1, <1>4, <1>7, <2>1 DEF Counted, Inv
<1> QED BY <1>10, <1>11, <1>12, <1>13, <1>14, <1>15 DEF Inv

LEMMA CollectDoneInv ==
  ASSUME Inv, CollectDone
  PROVE  Inv'
<1> DEFINE k == main.call
<1>1. /\ k \in 1..Calls /\ main' \in Mains /\ main'.call = k /\ main'.pc = "collect" /\ main.pc = "collect"
      /\ main'.sent = main.sent /\ main'.received = main.received + 1 /\ main'.outcome = "none"
      /\ main.received \in Nat
  <2>1. /\ main \in Mains /\ main.pc = "collect" /\ main.call > 0 /\ main.outcome = "none"
        /\ main' = [main EXCEPT !.received = @ + 1]
    BY DEF CollectDone, Collecting, Inv, TypeInv, Called
  <2>2. main.received \in Nat /\ main.received + 1 \in Nat /\ main.call \in 1..Calls
    BY <2>1 DEF Mains
  <2> QED BY <2>1, <2>2 DEF Mains
<1>2. UNCHANGED <<thread, made, answered, handed>> /\ results' = Tail(results) /\ results # <<>>
  BY DEF CollectDone
<1>3. results \in Seq(Entries) /\ handed \in [Batches -> Nat] /\ made \in [1..Calls -> [Batches -> Nat]]
  BY DEF Inv, TypeInv
<1>4. /\ results' \in Seq(Entries) /\ Len(results') = Len(results) - 1
      /\ Len(results) \in Nat /\ 1 \in DOMAIN results /\ Done = results[1]
      /\ \A i \in DOMAIN results' : i \in Nat /\ i + 1 \in DOMAIN results /\ i + 1 # 1 /\ results'[i] = results[i + 1]
      /\ \A i \in DOMAIN results : i # 1 => i - 1 \in DOMAIN results' /\ results'[i - 1] = results[i]
  BY <1>2, <1>3, TakeEntry DEF CollectDone
<1>5. Running /\ Running' /\ Shown
  BY <1>1 DEF Running, Inv
<1>6. TypeInv'
  BY <1>1, <1>2, <1>4 DEF Inv, TypeInv
<1>7. Later'
  BY <1>1, <1>2, <1>6, LaterStays
<1>8. Called' /\ Complete' /\ Bounded'
  BY <1>1, <1>2 DEF Called, Complete, Bounded, Inv
<1>9. Shown'
  <2>1. \A i \in DOMAIN results', c \in Batches, m \in Nat : results'[i] = Output(c, m) =>
          <<k, c>> \in answered /\ handed[c] = 0 /\ m = made[k][c]
    <3>1. \A i \in DOMAIN results, c \in Batches, m \in Nat : results[i] = Output(c, m) =>
            <<k, c>> \in answered /\ handed[c] = 0 /\ m = made[k][c]
      BY <1>5 DEF Shown
    <3> QED BY <1>4, <3>1
  <2>2. ASSUME NEW i \in DOMAIN results', NEW j \in DOMAIN results', results'[i] = results'[j],
               results'[i] \in Outputs
        PROVE  i = j
    <3>1. /\ i \in Nat /\ j \in Nat /\ i + 1 \in DOMAIN results /\ j + 1 \in DOMAIN results
          /\ results[i + 1] = results[j + 1] /\ results[i + 1] \in Outputs
      BY <1>4, <2>2
    <3>2. i + 1 = j + 1
      BY <1>5, <3>1 DEF Shown
    <3> QED BY <3>1, <3>2
  <2>3. ASSUME NEW c \in Batches, <<k, c>> \in answered, handed[c] # made[k][c]
        PROVE  \E i \in DOMAIN results' : results'[i] = Output(c, made[k][c])
    <3>1. PICK i \in DOMAIN results : results[i] = Output(c, made[k][c])
      BY <1>5, <2>3 DEF Shown
    <3>2. made[k][c] \in Nat
      BY <1>1, <1>3
    <3>3. i # 1
      BY <1>4, <3>1, <3>2, EntriesApart
    <3> QED BY <1>4, <3>1, <3>3
  <2> QED BY <1>1, <1>2, <1>5, <2>1, <2>2, <2>3 DEF Shown
<1>10. Dealt' /\ Counted'
  <2>1. /\ Dealt'
        /\ Exited(main.call)' = Exited(main.call) /\ AnsweredOf(main.call)' = AnsweredOf(main.call)
    BY <1>1, <1>2, <1>5, ThreadsStay
  <2> QED BY <1>1, <1>4, <1>5, <2>1 DEF Counted, Inv
<1> QED BY <1>6, <1>7, <1>8, <1>9, <1>10 DEF Inv

LEMMA ResumeInv ==
  ASSUME Inv, Resume
  PROVE  Inv'
<1>1. /\ main' \in Mains /\ main'.call = main.call /\ main'.pc = "collect" /\ main.pc = "yield"
      /\ main'.sent = main.sent /\ main'.received = main.received /\ main'.outcome = main.outcome
      /\ main.call > 0 /\ main.outcome = "none"
  BY DEF Resume, Inv, TypeInv, Mains, Called
<1>2. UNCHANGED <<thread, made, answered, handed, results, additional>>
  BY DEF Resume
<1>3. TypeInv' /\ Running /\ Running'
  BY <1>1, <1>2 DEF Inv, TypeInv, Running
<1>4. Later'
  BY <1>1, <1>2, <1>3, LaterStays
<1>5. Called' /\ Complete' /\ Bounded' /\ Shown'
  BY <1>1, <1>2, <1>3 DEF Called, Complete, Bounded, Shown, Inv
<1>6. Dealt' /\ Counted'
  <2>1. /\ Dealt'
        /\ Exited(main.call)' = Exited(main.call) /\ AnsweredOf(main.call)' = AnsweredOf(main.call)
    BY <1>1, <1>2, <1>3, ThreadsStay
  <2> QED BY <1>1, <1>2, <1>3, <2>1 DEF Counted, Inv
<1> QED BY <1>3, <1>4, <1>5, <1>6 DEF Inv

\* As many results as batches and threads: no batch is unanswered, no thread
\* is left, and nothing is queued.
LEMMA AllIn ==
  ASSUME Inv, main.pc = "collect", main.received = Expected
  PROVE  /\ \A b \in 1..main.sent : <<main.call, b>> \in answered /\ handed[b] = made[main.call][b]
         /\ \A t \in Started(main.call) : thread[t].pc = "exit"
<1> DEFINE k == main.call
           A == AnsweredOf(k)
           X == Exited(k)
<1>1. /\ main.sent \in 0..MaxBatches /\ main.received \in Nat /\ results \in Seq(Entries)
      /\ Len(results) \in Nat /\ main.sent \in Nat /\ Running
  BY ParametersAre DEF Inv, TypeInv, Mains, Running
<1>2. A \in SUBSET (1..main.sent)
  BY <1>1, BatchesFinite DEF Inv, Dealt, AnsweredOf, Batches
<1>3. X \in SUBSET Started(k)
  BY DEF Exited, Started
<1>4. IsFiniteSet(1..main.sent) /\ Cardinality(1..main.sent) = main.sent
  BY <1>1, IntervalIs
<1>5. /\ Cardinality(A) \in Nat /\ Cardinality(X) \in Nat
      /\ IsFiniteSet(Started(k)) /\ Cardinality(Started(k)) \in Nat
  BY CountsAre
<1>6. Cardinality(A) <= main.sent /\ (Cardinality(A) = main.sent => A = 1..main.sent)
  BY <1>2, <1>4, FS_Subset
<1>7. /\ Cardinality(X) <= Cardinality(Started(k))
      /\ Cardinality(X) = Cardinality(Started(k)) => X = Started(k)
  BY <1>3, <1>5, FS_Subset
<1>8. /\ main.received + Len(results) = Cardinality(A) + Cardinality(X)
      /\ main.received = main.sent + Cardinality(Started(k))
  BY <1>1 DEF Inv, Counted, Expected
<1>9. A = 1..main.sent /\ X = Started(k) /\ Len(results) = 0
  <2> HIDE DEF A, X
  <2> QED BY <1>1, <1>5, <1>6, <1>7, <1>8
<1>10. DOMAIN results = {}
  BY <1>1, <1>9
<1>11. \A b \in 1..main.sent : b \in Batches /\ <<k, b>> \in answered
  BY <1>9 DEF AnsweredOf
<1>12. \A b \in 1..main.sent : handed[b] = made[k][b]
  BY <1>1, <1>10, <1>11 DEF Inv, Shown
<1>13. \A t \in Started(k) : thread[t].pc = "exit"
  BY <1>9 DEF Exited
<1> QED BY <1>11, <1>12, <1>13

LEMMA ClosingInv ==
  ASSUME Inv, CloseStreams \/ Finalize
  PROVE  Inv'
<1> DEFINE k == main.call
<1>1. /\ k > 0 /\ main' \in Mains /\ main'.call = k /\ main'.pc \in {"finalize", "idle"}
      /\ main'.sent = main.sent
      /\ main'.pc # "idle" => main'.outcome = "none"
      /\ main'.pc # "init"
  BY DEF CloseStreams, Finalize, Leave, Inv, TypeInv, Mains, Called
<1>2. UNCHANGED <<thread, made, answered, handed, results>>
  BY DEF CloseStreams, Finalize
<1>3. TypeInv'
  BY <1>1, <1>2 DEF Inv, TypeInv
<1>4. Later'
  BY <1>1, <1>2, <1>3, LaterStays
<1>5. Called' /\ Bounded'
  BY <1>1, <1>2 DEF Called, Bounded, Inv
<1>6. ~Running'
  BY <1>1 DEF Running
<1>7. Dealt' /\ Shown' /\ Counted'
  BY <1>6 DEF Dealt, Shown, Counted
<1>8. /\ \A b \in 1..main.sent : <<k, b>> \in answered /\ handed[b] = made[k][b]
      /\ \A t \in Started(k) : thread[t].pc = "exit"
  <2>1. CASE CloseStreams
    BY <2>1, AllIn DEF CloseStreams
  <2>2. CASE Finalize
    BY <2>2 DEF Finalize, Inv, Complete
  <2> QED BY <2>1, <2>2
<1>9. additional' = {}
  BY DEF CloseStreams, Finalize, Inv, Complete
<1>10. Complete'
  BY <1>1, <1>2, <1>8, <1>9 DEF Complete, Started
<1> QED BY <1>3, <1>4, <1>5, <1>7, <1>10 DEF Inv

-----------------------------------------------------------------------------
(* The worker threads.                                                     *)

\* What a step of thread t may change.
Moves(t) ==
  /\ UNCHANGED <<main, handed, additional>>
  /\ thread[t].pc \notin {"none", "exit"}
  /\ \A u \in Threads : u # t => thread'[u] = thread[u]
  /\ \A k \in 1..Calls, b \in Batches : k # t[1] =>
       /\ made'[k][b] = made[k][b]
       /\ <<k, b>> \in answered' <=> <<k, b>> \in answered
  /\ \A b \in Batches : made[t[1]][b] <= made'[t[1]][b]
  /\ results' = results \/ (t[1] = main.call /\ main.pc # "idle")

\* The counts of the current call stay when nothing of it is answered or ends.
LEMMA MovedAside ==
  ASSUME Inv, NEW t \in Threads, Moves(t), TypeInv'
  PROVE  /\ Called' /\ Later' /\ Bounded' /\ Complete'
         /\ ~(t[1] = main.call /\ Running) => Inv'
<1> DEFINE k == main.call
<1>1. /\ main' = main /\ handed' = handed /\ additional' = additional
      /\ \A u \in Threads : u # t => thread'[u] = thread[u]
      /\ t[1] \in 1..Calls /\ main.call \in 0..Calls
  BY ThreadIs DEF Moves, Inv, TypeInv, Mains
<1>2. ~(t[1] > k \/ (t[1] = k /\ main.pc = "init"))
  BY <1>1, FreshCall DEF Moves
<1>3. Called'
  BY <1>1, <1>2 DEF Called, Inv, Moves
<1>4. Later'
  <2>1. ASSUME NEW j \in 1..Calls, j > k \/ (j = k /\ main.pc = "init")
        PROVE  /\ \A u \in Threads : u[1] = j => thread'[u] = NotStarted
               /\ \A b \in Batches : made'[j][b] = 0 /\ <<j, b>> \notin answered'
    <3>1. j # t[1]
      BY <1>2, <2>1
    <3>2. /\ \A u \in Threads : u[1] = j => thread[u] = NotStarted
          /\ \A b \in Batches : made[j][b] = 0 /\ <<j, b>> \notin answered
      BY <2>1 DEF Inv, Later
    <3> QED BY <1>1, <3>1, <3>2 DEF Moves
  <2> QED BY <1>1, <2>1 DEF Later
<1>5. Bounded'
  <2>1. ASSUME k > 0, NEW b \in Batches PROVE handed[b] <= made'[k][b]
    <3>1. k \in 1..Calls /\ handed[b] \in Nat /\ made[k][b] \in Nat /\ made'[k][b] \in Nat
      BY <1>1, <2>1 DEF Inv, TypeInv
    <3>2. made[k][b] <= made'[k][b]
      <4>1. t[1] = k => made[k][b] <= made'[k][b]
        BY DEF Moves
      <4>2. t[1] # k => made'[k][b] = made[k][b]
        BY <3>1 DEF Moves
      <4> QED BY <3>1, <4>1, <4>2
    <3>3. handed[b] <= made[k][b]
      BY <2>1 DEF Inv, Bounded
    <3> QED BY <3>1, <3>2, <3>3
  <2> QED BY <1>1, <2>1 DEF Bounded
<1>6. ASSUME k > 0, t[1] # k
      PROVE  /\ \A b \in Batches : made'[k][b] = made[k][b] /\ (<<k, b>> \in answered' <=> <<k, b>> \in answered)
             /\ \A u \in Threads : u[1] = k => thread'[u] = thread[u]
             /\ results' = results
  BY <1>1, <1>6 DEF Moves
<1>7. Complete'
  <2> SUFFICES ASSUME main.pc = "finalize" \/ (main.pc = "idle" /\ main.outcome = "ok")
               PROVE  Complete'
    BY <1>1 DEF Complete
  <2>1. /\ k > 0 /\ \A b \in 1..main.sent : <<k, b>> \in answered /\ handed[b] = made[k][b]
        /\ \A u \in Threads : u[1] = k => thread[u].pc \in {"none", "exit"}
        /\ additional = {}
    BY DEF Inv, Complete, Started
  <2>2. t[1] # k
    BY <2>1 DEF Moves
  <2>3. \A b \in 1..main.sent : b \in Batches
    BY ParametersAre DEF Inv, TypeInv, Mains, Batches
  <2>4. \A b \in 1..main.sent : <<k, b>> \in answered' /\ handed'[b] = made'[k][b]
    BY <1>1, <1>6, <2>1, <2>2, <2>3
  <2>5. \A u \in Started(k)' : u[1] = k /\ u \in Threads /\ thread'[u] = thread[u] /\ thread'[u].pc = "exit"
    BY <1>1, <1>6, <2>1, <2>2 DEF Started
  <2> QED BY <1>1, <2>1, <2>4, <2>5 DEF Complete
<1>8. ASSUME ~(t[1] = k /\ Running) PROVE Dealt' /\ Shown' /\ Counted'
  <2>1. CASE ~Running
    BY <1>1, <2>1 DEF Running, Dealt, Shown, Counted
  <2>2. CASE Running /\ t[1] # k
    <3>1. k \in 1..Calls
      BY <1>1, <2>2 DEF Running, Inv, Called
    <3>2. Dealt'
      <4>1. \A u \in Threads, b \in Batches : u[1] = k => (Pending(u, b)' <=> Pending(u, b))
        BY <1>1, <1>6, <2>2, <3>1 DEF Pending
      <4>2. ASSUME NEW u \in Threads, u[1] = k, DealtTo(u) PROVE DealtTo(u)'
        <5>1. k > 0
          BY <3>1
        <5>2. thread'[u] = thread[u] /\ \A b \in Batches : made'[k][b] = made[k][b]
          BY <1>6, <2>2, <4>2, <5>1
        <5>3. \A b \in Batches : Pending(u, b)' <=> Pending(u, b)
          BY <4>1, <4>2
        <5> QED BY <1>1, <4>2, <5>2, <5>3 DEF DealtTo
      <4>3. \A u \in Threads : u[1] = k => DealtTo(u)
        BY <2>2 DEF Inv, Dealt
      <4>4. \A b \in Batches : b > main.sent => made'[k][b] = 0 /\ <<k, b>> \notin answered'
        BY <1>6, <2>2, <3>1 DEF Inv, Dealt
      <4> QED BY <1>1, <4>2, <4>3, <4>4 DEF Dealt
    <3>3. Shown'
      <4>1. Shown /\ Running
        BY <2>2 DEF Inv
      <4>2. /\ results' = results /\ k > 0
            /\ \A b \in Batches : made'[k][b] = made[k][b] /\ (<<k, b>> \in answered' <=> <<k, b>> \in answered)
        BY <1>6, <2>2, <3>1
      <4> QED BY <1>1, <4>1, <4>2 DEF Shown
    <3>4. Counted'
      <4>1. AnsweredOf(main.call)' = AnsweredOf(main.call) /\ Exited(main.call)' = Exited(main.call)
        BY <1>1, <1>6, <2>2, <3>1 DEF AnsweredOf, Exited
      <4> QED BY <1>1, <1>6, <2>2, <3>1, <4>1 DEF Inv, Counted, Running
    <3> QED BY <3>2, <3>3, <3>4
  <2> QED BY <1>8, <2>1, <2>2
<1> QED BY <1>3, <1>4, <1>5, <1>7, <1>8 DEF Inv

\* In a step of thread t of the current call, what the others were dealt stays.
LEMMA OthersStay ==
  ASSUME Inv, NEW t \in Threads, Moves(t), t[1] = main.call, Running,
         \A b \in Batches : Owner(b) # t[2] =>
           /\ made'[main.call][b] = made[main.call][b]
           /\ <<main.call, b>> \in answered' <=> <<main.call, b>> \in answered,
         NEW u \in Threads, u # t, u[1] = main.call
  PROVE  DealtTo(u)'
<1>1. u[2] # t[2] /\ main' = main /\ thread'[u] = thread[u]
  BY ThreadIs DEF Moves
<1>2. \A b \in Batches : Pending(u, b) => Pending(u, b)' /\ made'[main.call][b] = made[main.call][b]
  BY <1>1 DEF Pending
<1>3. DealtTo(u)
  BY DEF Inv, Dealt
<1> QED BY <1>1, <1>2, <1>3 DEF DealtTo

\* A thread that ends has nothing in hand, and its queue has nothing new.
LEMMA QueueShrinks ==
  ASSUME NEW t \in Threads, DealtTo(t), thread[t] \in States, thread'[t].pc # "wait",
         UNCHANGED <<main, made, answered>>,
         \/ thread'[t].queue = thread[t].queue
         \/ thread[t].queue # <<>> /\ thread'[t].queue = Tail(thread[t].queue)
  PROVE  DealtTo(t)'
<1> DEFINE q == thread[t].queue
           r == thread'[t].queue
<1>1. \A b \in Batches : Pending(t, b)' <=> Pending(t, b)
  BY DEF Pending
<1>2. \A b \in Batches, i \in DOMAIN q : q[i] = b =>
        Pending(t, b)' /\ made'[main.call][b] = 0 /\ \A j \in DOMAIN q : q[j] = b => i = j
  BY <1>1 DEF DealtTo
<1>3. \A b \in Batches, i \in DOMAIN r : r[i] = b =>
        Pending(t, b)' /\ made'[main.call][b] = 0 /\ \A j \in DOMAIN r : r[j] = b => i = j
  <2>1. CASE r = q
    BY <1>2, <2>1
  <2>2. CASE q # <<>> /\ r = Tail(q)
    <3>1. q \in Seq(0..MaxBatches)
      BY DEF States
    <3>2. \A i \in DOMAIN r : i \in Nat /\ i + 1 \in DOMAIN q /\ r[i] = q[i + 1]
      <4> HIDE DEF q, r
      <4> QED BY <2>2, <3>1, TakeEntry
    <3> HIDE DEF q, r
    <3>3. ASSUME NEW b \in Batches, NEW i \in DOMAIN r, r[i] = b
          PROVE  Pending(t, b)' /\ made'[main.call][b] = 0
      BY <1>2, <3>2, <3>3
    <3>4. ASSUME NEW b \in Batches, NEW i \in DOMAIN r, r[i] = b, NEW j \in DOMAIN r, r[j] = b
          PROVE  i = j
      <4>1. i + 1 = j + 1
        BY <1>2, <3>2, <3>4
      <4> QED BY <3>2, <4>1
    <3> QED BY <3>3, <3>4
  <2> QED BY <2>1, <2>2
<1> QED BY <1>3 DEF DealtTo

\* A thread that ends puts one signal on the queue.
LEMMA EndsInv ==
  ASSUME Inv, NEW t \in Threads, NEW e \in {Done, Failed},
         thread' \in [Threads -> States], thread[t].pc \notin {"none", "exit"}, thread'[t].pc = "exit",
         \A u \in Threads : u # t => thread'[u] = thread[u],
         \/ thread'[t].queue = thread[t].queue
         \/ thread[t].queue # <<>> /\ thread'[t].queue = Tail(thread[t].queue),
         Put(t, e), UNCHANGED <<main, additional, made, answered, handed>>
  PROVE  Inv'
<1> DEFINE k == main.call
<1>1. Moves(t)
  BY ThreadIs DEF Moves, Put, Inv, TypeInv
<1>2. e \in Entries /\ results \in Seq(Entries)
  BY EntriesApart DEF Inv, TypeInv
<1>3. results' \in Seq(Entries)
  BY <1>2, AddEntry DEF Put
<1>4. TypeInv'
  <2>1. \A u \in Threads : thread'[u].pc = "wait" => thread'[u].item \in Batches
    BY DEF Inv, TypeInv
  <2> QED BY <1>3, <2>1 DEF Inv, TypeInv
<1>5. CASE ~(t[1] = k /\ Running)
  BY <1>1, <1>4, <1>5, MovedAside
<1>6. CASE t[1] = k /\ Running
  <2>1. /\ results' = Append(results, e) /\ Len(results') = Len(results) + 1 /\ Len(results) \in Nat
        /\ DOMAIN results' = DOMAIN results \cup {Len(results) + 1} /\ Len(results) + 1 \notin DOMAIN results
        /\ \A i \in DOMAIN results : results'[i] = results[i]
        /\ results'[Len(results) + 1] = e
    <3>1. results' = Append(results, e)
      BY <1>6 DEF Put, Running
    <3> QED BY <1>2, <3>1, AddEntry
  <2>2. Running' /\ Shown /\ Dealt /\ Counted
    BY <1>6 DEF Running, Inv
  <2>3. Dealt'
    <3>1. DealtTo(t) /\ thread[t] \in States
      BY <1>6, <2>2 DEF Dealt, Inv, TypeInv
    <3>2. DealtTo(t)'
      BY <3>1, QueueShrinks
    <3>3. \A u \in Threads : u # t /\ u[1] = k => DealtTo(u)'
      BY <1>1, <1>6, OthersStay
    <3>4. \A b \in Batches : b > main.sent => made[k][b] = 0 /\ <<k, b>> \notin answered
      BY <1>6, <2>2 DEF Dealt
    <3> QED BY <3>2, <3>3, <3>4 DEF Dealt
  <2>4. Shown'
    <3>1. e \notin Outputs /\ \A b \in Batches, n \in Nat : Output(b, n) \in Outputs
      BY EntriesApart
    <3>2. \A i \in DOMAIN results' : results'[i] \in Outputs => i \in DOMAIN results /\ results'[i] = results[i]
      BY <2>1, <3>1
    <3>3. \A i \in DOMAIN results', b \in Batches, n \in Nat : results'[i] = Output(b, n) =>
            <<k, b>> \in answered /\ handed[b] = 0 /\ n = made[k][b]
      BY <1>6, <2>2, <3>1, <3>2 DEF Shown
    <3>4. \A i, j \in DOMAIN results' : results'[i] = results'[j] /\ results'[i] \in Outputs => i = j
      BY <1>6, <2>2, <3>2 DEF Shown
    <3>5. \A b \in Batches : <<k, b>> \in answered /\ handed[b] # made[k][b] =>
            \E i \in DOMAIN results' : results'[i] = Output(b, made[k][b])
      <4>1. ASSUME NEW b \in Batches, <<k, b>> \in answered, handed[b] # made[k][b]
            PROVE  \E i \in DOMAIN results' : results'[i] = Output(b, made[k][b])
        <5>1. PICK i \in DOMAIN results : results[i] = Output(b, made[k][b])
          BY <1>6, <2>2, <4>1 DEF Shown
        <5> QED BY <2>1, <5>1
      <4> QED BY <4>1
    <3>6. \A b \in Batches : <<k, b>> \notin answered => handed[b] = 0
      BY <1>6, <2>2 DEF Shown
    <3> QED BY <3>3, <3>4, <3>5, <3>6 DEF Shown
  <2>5. Counted'
    <3>1. Exited(k)' = Exited(k) \cup {t} /\ t \notin Exited(k)
      BY <1>6 DEF Exited
    <3>2. Cardinality(Exited(k)') = Cardinality(Exited(k)) + 1
      BY <3>1, CountsAre, FS_AddElement
    <3>3. AnsweredOf(k)' = AnsweredOf(k)
      BY DEF AnsweredOf
    <3>4. /\ main.received \in Nat
          /\ main.received + Len(results) = Cardinality(AnsweredOf(k)) + Cardinality(Exited(k))
      BY <1>6, <2>2 DEF Counted, Inv, TypeInv, Mains
    <3>5. /\ main.received + Len(results') = Cardinality(AnsweredOf(k)) + (Cardinality(Exited(k)) + 1)
      <4>1. \A a, b, c, d \in Nat : a + b = c + d => a + (b + 1) = c + (d + 1)
        OBVIOUS
      <4>2. Cardinality(AnsweredOf(k)) \in Nat /\ Cardinality(Exited(k)) \in Nat
        BY CountsAre
      <4>3. Len(results') = Len(results) + 1 /\ Len(results) \in Nat
        BY <2>1
      <4>4. main.received + (Len(results) + 1) = Cardinality(AnsweredOf(k)) + (Cardinality(Exited(k)) + 1)
        BY <3>4, <4>1, <4>2, <4>3
      <4> QED BY <4>3, <4>4
    <3> QED BY <3>2, <3>3, <3>5 DEF Counted
  <2> QED BY <1>1, <1>4, <2>3, <2>4, <2>5, MovedAside DEF Inv
<1> QED BY <1>5, <1>6

LEMMA EndingThreadInv ==
  ASSUME Inv, NEW t \in Threads, RpcFails(t) \/ NoStream(t) \/ EndOfInput(t)
  PROVE  Inv'
<1>1. thread[t] \in States /\ thread \in [Threads -> States] /\ UNCHANGED <<main, additional, made, answered, handed>>
  BY DEF RpcFails, NoStream, EndOfInput, Inv, TypeInv
<1>2. CASE RpcFails(t) \/ NoStream(t)
  <2>1. thread' = [thread EXCEPT ![t].pc = "exit"] /\ Put(t, Failed) /\ thread[t].pc \notin {"none", "exit"}
    BY <1>2 DEF RpcFails, NoStream, Fail, HasItem
  <2>2. /\ thread' \in [Threads -> States] /\ thread'[t].pc = "exit"
        /\ thread'[t].queue = thread[t].queue /\ \A u \in Threads : u # t => thread'[u] = thread[u]
    BY <1>1, <2>1 DEF States
  <2> QED BY <1>1, <2>1, <2>2, EndsInv
<1>3. CASE EndOfInput(t)
  <2>1. /\ thread[t].pc = "get" /\ thread[t].queue # <<>> /\ Put(t, Done)
        /\ thread' = [thread EXCEPT ![t].pc = "exit", ![t].queue = Tail(@)]
    BY <1>3 DEF EndOfInput, HasItem
  <2>2. Tail(thread[t].queue) \in Seq(0..MaxBatches)
    BY <1>1, <2>1, TakeEntry DEF States
  <2>3. /\ thread' \in [Threads -> States] /\ thread'[t].pc = "exit"
        /\ thread'[t].queue = Tail(thread[t].queue) /\ \A u \in Threads : u # t => thread'[u] = thread[u]
    BY <1>1, <2>1, <2>2 DEF States
  <2> QED BY <1>1, <2>1, <2>3, EndsInv
<1> QED BY <1>2, <1>3

\* A thread goes on without an answer: with a stream, or with the next batch.
LEMMA GoesOnInv ==
  ASSUME Inv, NEW t \in Threads, Moves(t), TypeInv', thread'[t].pc \in {"get", "wait"},
         UNCHANGED <<made, answered, results>>,
         DealtTo(t) => DealtTo(t)'
  PROVE  Inv'
<1> DEFINE k == main.call
<1>1. CASE ~(t[1] = k /\ Running)
  BY <1>1, MovedAside
<1>2. CASE t[1] = k /\ Running
  <2>1. Running' /\ Shown /\ Dealt /\ Counted /\ main' = main /\ handed' = handed
    BY <1>2 DEF Running, Inv, Moves
  <2>2. DealtTo(t)'
    BY <1>2, <2>1 DEF Dealt
  <2>3. \A u \in Threads : u # t /\ u[1] = k => DealtTo(u)'
    BY <1>2, OthersStay
  <2>4. Dealt'
    BY <1>2, <2>1, <2>2, <2>3 DEF Dealt
  <2>5. Shown'
    BY <1>2, <2>1 DEF Shown
  <2>6. Exited(k)' = Exited(k) /\ AnsweredOf(k)' = AnsweredOf(k)
    BY <2>1 DEF Exited, AnsweredOf, Moves
  <2>7. Counted'
    BY <1>2, <2>1, <2>6 DEF Counted
  <2> QED BY <2>4, <2>5, <2>7, MovedAside DEF Inv
<1> QED BY <1>1, <1>2

LEMMA InitSecondaryInv ==
  ASSUME Inv, NEW t \in Threads, InitSecondary(t)
  PROVE  Inv'
<1>1. thread[t] \in States /\ thread \in [Threads -> States]
  BY DEF Inv, TypeInv
<1>2. /\ thread' \in [Threads -> States] /\ thread'[t].pc = "get" /\ thread[t].pc = "init"
      /\ thread'[t].queue = thread[t].queue /\ \A u \in Threads : u # t => thread'[u] = thread[u]
      /\ UNCHANGED <<main, results, additional, made, answered, handed>>
  BY <1>1 DEF InitSecondary, States
<1>3. TypeInv' /\ Moves(t)
  <2>1. \A u \in Threads : thread'[u].pc = "wait" => thread'[u].item \in Batches
    BY <1>2 DEF Inv, TypeInv
  <2> QED BY <1>2, <2>1, ThreadIs DEF Inv, TypeInv, Moves
<1>4. DealtTo(t) => DealtTo(t)'
  BY <1>1, <1>2, QueueShrinks
<1> QED BY <1>2, <1>3, <1>4, GoesOnInv

LEMMA SendBatchInv ==
  ASSUME Inv, NEW t \in Threads, SendBatch(t)
  PROVE  Inv'
<1> DEFINE q == thread[t].queue
           r == thread'[t].queue
<1>1. /\ thread[t] \in States /\ thread \in [Threads -> States] /\ thread[t].pc = "get" /\ q # <<>>
      /\ UNCHANGED <<main, results, additional, made, answered, handed>>
      /\ q \in Seq(0..MaxBatches)
  BY DEF SendBatch, HasItem, Inv, TypeInv, States
<1>2. /\ Head(q) \in 0..MaxBatches /\ Tail(q) \in Seq(0..MaxBatches)
      /\ 1 \in DOMAIN q /\ Head(q) = q[1]
      /\ \A i \in DOMAIN Tail(q) : i \in Nat /\ i + 1 \in DOMAIN q /\ i + 1 # 1 /\ Tail(q)[i] = q[i + 1]
  <2> HIDE DEF q
  <2> QED BY <1>1, TakeEntry
<1>3. Head(q) \in Batches
  BY <1>2, ParametersAre DEF SendBatch, Item, None, Batches
<1>4. /\ thread' \in [Threads -> States] /\ thread'[t].pc = "wait" /\ r = Tail(q)
      /\ thread'[t].item = Head(q) /\ thread'[t].outputs = 0
      /\ \A u \in Threads : u # t => thread'[u] = thread[u]
  <2>1. thread' = [thread EXCEPT ![t] = [pc |-> "wait", queue |-> Tail(q), item |-> Head(q), outputs |-> 0]]
    BY DEF SendBatch, Item
  <2>2. [pc |-> "wait", queue |-> Tail(q), item |-> Head(q), outputs |-> 0] \in States
    BY <1>2 DEF States
  <2> QED BY <1>1, <2>1, <2>2
<1>5. TypeInv' /\ Moves(t)
  <2>1. \A u \in Threads : thread'[u].pc = "wait" => thread'[u].item \in Batches
    BY <1>3, <1>4 DEF Inv, TypeInv
  <2> QED BY <1>1, <1>4, <2>1, ThreadIs DEF Inv, TypeInv, Moves
<1>6. ASSUME DealtTo(t) PROVE DealtTo(t)'
  <2>1. \A b \in Batches : Pending(t, b)' <=> Pending(t, b)
    BY <1>1 DEF Pending
  <2>2. \A b \in Batches : \A i \in DOMAIN q : q[i] = b =>
          /\ Pending(t, b)' /\ made[main.call][b] = 0
          /\ \A j \in DOMAIN q : q[j] = b => i = j
    BY <1>6, <2>1 DEF DealtTo
  <2> SUFFICES ASSUME NEW b \in Batches
               PROVE  /\ \A i \in DOMAIN r : r[i] = b =>
                           /\ Pending(t, b)' /\ made'[main.call][b] = 0
                           /\ thread'[t].item # b
                           /\ \A j \in DOMAIN r : r[j] = b => i = j
                      /\ thread'[t].item = b =>
                           Pending(t, b)' /\ made'[main.call][b] = thread'[t].outputs
    BY <1>1 DEF DealtTo
  <2> HIDE DEF q, r
  <2>3. ASSUME NEW i \in DOMAIN r, r[i] = b
        PROVE  /\ Pending(t, b)' /\ made'[main.call][b] = 0
               /\ thread'[t].item # b
    BY <1>1, <1>2, <1>4, <2>2, <2>3
  <2>4. ASSUME NEW i \in DOMAIN r, r[i] = b, NEW j \in DOMAIN r, r[j] = b PROVE i = j
    <3>1. i + 1 = j + 1
      BY <1>2, <1>4, <2>2, <2>4
    <3> QED BY <1>2, <1>4, <3>1
  <2>5. ASSUME thread'[t].item = b PROVE Pending(t, b)' /\ made'[main.call][b] = thread'[t].outputs
    BY <1>1, <1>2, <1>4, <2>2, <2>5
  <2> QED BY <2>3, <2>4, <2>5
<1> QED BY <1>1, <1>4, <1>5, <1>6, GoesOnInv

\* An answer with more to come.
LEMMA AnswerMoreInv ==
  ASSUME Inv, NEW t \in Threads, Answer(t), answered' = answered, results' = results,
         thread' = [thread EXCEPT ![t].outputs = thread[t].outputs + 1],
         made' = [made EXCEPT ![t[1]][thread[t].item] = @ + 1]
  PROVE  Inv'
<1> DEFINE k == main.call
<1>1. /\ thread[t] \in States /\ thread \in [Threads -> States] /\ thread[t].pc = "wait"
      /\ made \in [1..Calls -> [Batches -> Nat]] /\ t[1] \in 1..Calls
      /\ thread[t].item \in Batches /\ UNCHANGED <<main, additional, handed>>
  BY ThreadIs DEF Answer, Inv, TypeInv
<1>2. /\ thread' \in [Threads -> States] /\ thread'[t].pc = "wait" /\ thread'[t].queue = thread[t].queue
      /\ thread'[t].item = thread[t].item /\ thread'[t].outputs = thread[t].outputs + 1
      /\ \A u \in Threads : u # t => thread'[u] = thread[u]
  <2>1. thread'[t] = [thread[t] EXCEPT !.outputs = thread[t].outputs + 1]
    BY <1>1
  <2>2. thread[t].outputs + 1 \in Nat
    BY <1>1 DEF States
  <2>3. /\ thread'[t] \in States /\ thread'[t].pc = "wait" /\ thread'[t].queue = thread[t].queue
        /\ thread'[t].item = thread[t].item /\ thread'[t].outputs = thread[t].outputs + 1
    BY <1>1, <2>1, <2>2 DEF States
  <2> QED BY <1>1, <2>3
<1>3. /\ made' \in [1..Calls -> [Batches -> Nat]]
      /\ made'[t[1]][thread[t].item] = made[t[1]][thread[t].item] + 1
      /\ \A b \in Batches : b # thread[t].item => made'[t[1]][b] = made[t[1]][b]
      /\ \A j \in 1..Calls : j # t[1] => made'[j] = made[j]
  BY <1>1
<1>4. TypeInv'
  <2>1. \A u \in Threads : thread'[u].pc = "wait" => thread'[u].item \in Batches
    BY <1>1, <1>2 DEF Inv, TypeInv
  <2> QED BY <1>1, <1>2, <1>3, <2>1 DEF Inv, TypeInv
<1>5. Moves(t)
  <2>1. \A b \in Batches : made[t[1]][b] <= made'[t[1]][b]
    <3>1. \A b \in Batches : made[t[1]][b] \in Nat
      BY <1>1
    <3> QED BY <1>3, <3>1
  <2> QED BY <1>1, <1>2, <1>3, <2>1 DEF Moves
<1>6. CASE ~(t[1] = k /\ Running)
  BY <1>4, <1>5, <1>6, MovedAside
<1>7. CASE t[1] = k /\ Running
  <2>1. Running' /\ Shown /\ Dealt /\ Counted /\ main' = main /\ handed' = handed /\ k \in 1..Calls
    BY <1>1, <1>7 DEF Running, Inv
  <2>2. DealtTo(t) /\ Pending(t, thread[t].item) /\ made[k][thread[t].item] = thread[t].outputs
    BY <1>1, <1>7, <2>1 DEF Dealt, DealtTo
  <2>3. \A b \in Batches : Pending(t, b)' <=> Pending(t, b)
    BY <2>1 DEF Pending
  <2>4. DealtTo(t)'
    <3>1. \A b \in Batches, i \in DOMAIN thread[t].queue : thread[t].queue[i] = b =>
            /\ Pending(t, b) /\ made[k][b] = 0 /\ thread[t].item # b
            /\ \A j \in DOMAIN thread[t].queue : thread[t].queue[j] = b => i = j
      BY <1>1, <2>2 DEF DealtTo
    <3>2. \A b \in Batches, i \in DOMAIN thread'[t].queue : thread'[t].queue[i] = b =>
            /\ Pending(t, b)' /\ made'[k][b] = 0 /\ thread'[t].item # b
            /\ \A j \in DOMAIN thread'[t].queue : thread'[t].queue[j] = b => i = j
      BY <1>2, <1>3, <1>7, <2>3, <3>1
    <3>3. \A b \in Batches : thread'[t].item = b => Pending(t, b)' /\ made'[k][b] = thread'[t].outputs
      BY <1>2, <1>3, <1>7, <2>2, <2>3
    <3> QED BY <2>1, <3>2, <3>3 DEF DealtTo
  <2>5. \A b \in Batches : Owner(b) # t[2] => made'[k][b] = made[k][b]
    BY <1>3, <1>7, <2>2 DEF Pending
  <2>6. \A u \in Threads : u # t /\ u[1] = k => DealtTo(u)'
    BY <1>5, <1>7, <2>5, OthersStay
  <2>7. Dealt'
    <3>1. \A b \in Batches : b > main.sent => b # thread[t].item /\ made[k][b] = 0 /\ <<k, b>> \notin answered
      BY <1>7, <2>1, <2>2, BatchesFinite DEF Dealt, Pending, Inv, TypeInv, Mains
    <3>2. \A b \in Batches : b > main.sent => made'[k][b] = 0 /\ <<k, b>> \notin answered'
      BY <1>3, <1>7, <3>1
    <3> QED BY <2>1, <2>4, <2>6, <3>2 DEF Dealt
  <2>8. Shown'
    <3>1. \A b \in Batches : <<k, b>> \in answered => made'[k][b] = made[k][b]
      BY <1>3, <1>7, <2>2 DEF Pending
    <3>2. /\ \A i \in DOMAIN results, b \in Batches, n \in Nat : results[i] = Output(b, n) =>
               <<k, b>> \in answered /\ handed[b] = 0 /\ n = made'[k][b]
          /\ \A b \in Batches : <<k, b>> \in answered /\ handed[b] # made'[k][b] =>
               \E i \in DOMAIN results : results[i] = Output(b, made'[k][b])
      BY <1>7, <2>1, <3>1 DEF Shown
    <3>3. /\ \A i, j \in DOMAIN results : results[i] = results[j] /\ results[i] \in Outputs => i = j
          /\ \A b \in Batches : <<k, b>> \notin answered => handed[b] = 0
      BY <1>7, <2>1 DEF Shown
    <3> QED BY <2>1, <3>2, <3>3 DEF Shown
  <2>9. Counted'
    <3>1. Exited(k)' = Exited(k) /\ AnsweredOf(k)' = AnsweredOf(k)
      BY <1>1, <1>2, <2>1 DEF Exited, AnsweredOf
    <3> QED BY <1>7, <2>1, <3>1 DEF Counted
  <2> QED BY <1>4, <1>5, <2>7, <2>8, <2>9, MovedAside DEF Inv
<1> QED BY <1>6, <1>7

\* The last answer to a batch puts its output on the queue.
LEMMA AnswerLastInv ==
  ASSUME Inv, NEW t \in Threads, Answer(t), NEW b, b = thread[t].item, NEW n, n = thread[t].outputs + 1,
         answered' = answered \cup {<<t[1], b>>}, Put(t, Output(b, n)),
         thread' = [thread EXCEPT ![t].pc = "get", ![t].outputs = 0],
         made' = [made EXCEPT ![t[1]][b] = @ + 1]
  PROVE  Inv'
<1> DEFINE k == main.call
<1>1. /\ thread[t] \in States /\ thread \in [Threads -> States] /\ thread[t].pc = "wait"
      /\ made \in [1..Calls -> [Batches -> Nat]] /\ t[1] \in 1..Calls
      /\ b \in Batches /\ UNCHANGED <<main, additional, handed>>
      /\ thread[t].outputs \in Nat /\ n \in Nat
  BY ThreadIs DEF Answer, Inv, TypeInv, States
<1>2. /\ thread' \in [Threads -> States] /\ thread'[t].pc = "get" /\ thread'[t].queue = thread[t].queue
      /\ \A u \in Threads : u # t => thread'[u] = thread[u]
  <2>1. thread'[t] = [thread[t] EXCEPT !.pc = "get", !.outputs = 0]
    BY <1>1
  <2>2. thread'[t] \in States /\ thread'[t].pc = "get" /\ thread'[t].queue = thread[t].queue
    BY <1>1, <2>1 DEF States
  <2> QED BY <1>1, <2>2
<1>3. /\ made' \in [1..Calls -> [Batches -> Nat]]
      /\ made'[t[1]][b] = made[t[1]][b] + 1
      /\ \A c \in Batches : c # b => made'[t[1]][c] = made[t[1]][c]
      /\ \A j \in 1..Calls : j # t[1] => made'[j] = made[j]
  BY <1>1
<1>4. Output(b, n) \in Entries /\ Output(b, n) \in Outputs /\ results \in Seq(Entries)
  BY <1>1, EntriesApart DEF Inv, TypeInv
<1>5. TypeInv'
  <2>1. \A u \in Threads : thread'[u].pc = "wait" => thread'[u].item \in Batches
    BY <1>1, <1>2 DEF Inv, TypeInv
  <2>2. results' \in Seq(Entries)
    BY <1>4, AddEntry DEF Put
  <2>3. answered' \subseteq (1..Calls) \X Batches
    BY <1>1 DEF Inv, TypeInv
  <2> QED BY <1>1, <1>2, <1>3, <2>1, <2>2, <2>3 DEF Inv, TypeInv
<1>6. Moves(t)
  <2>1. \A c \in Batches : made[t[1]][c] <= made'[t[1]][c]
    <3>1. \A c \in Batches : made[t[1]][c] \in Nat
      BY <1>1
    <3> QED BY <1>3, <3>1
  <2>2. results' = results \/ (t[1] = main.call /\ main.pc # "idle")
    BY DEF Put
  <2>3. \A j \in 1..Calls, c \in Batches : j # t[1] => (<<j, c>> \in answered' <=> <<j, c>> \in answered)
    OBVIOUS
  <2> QED BY <1>1, <1>2, <1>3, <2>1, <2>2, <2>3 DEF Moves
<1>7. CASE ~(t[1] = k /\ Running)
  BY <1>5, <1>6, <1>7, MovedAside
<1>8. CASE t[1] = k /\ Running
  <2>1. Running' /\ Shown /\ Dealt /\ Counted /\ main' = main /\ handed' = handed /\ k \in 1..Calls
    BY <1>1, <1>8 DEF Running, Inv
  <2>2. DealtTo(t) /\ Pending(t, b) /\ made[k][b] = thread[t].outputs
    BY <1>1, <1>8, <2>1 DEF Dealt, DealtTo
  <2>3. /\ <<k, b>> \notin answered /\ <<k, b>> \in answered' /\ made'[k][b] = n /\ b \in 1..main.sent
        /\ \A c \in Batches : c # b => (<<k, c>> \in answered' <=> <<k, c>> \in answered) /\ made'[k][c] = made[k][c]
        /\ handed[b] = 0
    BY <1>1, <1>3, <1>8, <2>1, <2>2 DEF Pending, Shown
  <2>4. /\ results' = Append(results, Output(b, n)) /\ Len(results') = Len(results) + 1 /\ Len(results) \in Nat
        /\ DOMAIN results' = DOMAIN results \cup {Len(results) + 1} /\ Len(results) + 1 \notin DOMAIN results
        /\ \A i \in DOMAIN results : results'[i] = results[i]
        /\ results'[Len(results) + 1] = Output(b, n)
    <3>1. results' = Append(results, Output(b, n))
      BY <1>8 DEF Put, Running
    <3> QED BY <1>4, <3>1, AddEntry
  <2>5. \A c \in Batches : c # b => (Pending(t, c)' <=> Pending(t, c))
    BY <2>1, <2>3 DEF Pending
  <2>6. DealtTo(t)'
    <3>1. \A c \in Batches, i \in DOMAIN thread[t].queue : thread[t].queue[i] = c =>
            /\ Pending(t, c) /\ made[k][c] = 0 /\ c # b
            /\ \A j \in DOMAIN thread[t].queue : thread[t].queue[j] = c => i = j
      BY <1>1, <2>2 DEF DealtTo
    <3>2. \A c \in Batches, i \in DOMAIN thread'[t].queue : thread'[t].queue[i] = c =>
            /\ Pending(t, c)' /\ made'[k][c] = 0
            /\ \A j \in DOMAIN thread'[t].queue : thread'[t].queue[j] = c => i = j
      BY <1>2, <2>3, <2>5, <3>1
    <3> QED BY <1>2, <2>1, <3>2 DEF DealtTo
  <2>7. \A c \in Batches : Owner(c) # t[2] =>
          made'[k][c] = made[k][c] /\ (<<k, c>> \in answered' <=> <<k, c>> \in answered)
    BY <2>2, <2>3 DEF Pending
  <2>8. \A u \in Threads : u # t /\ u[1] = k => DealtTo(u)'
    BY <1>6, <1>8, <2>7, OthersStay
  <2>9. Dealt'
    <3>1. \A c \in Batches : c > main.sent => c # b /\ made[k][c] = 0 /\ <<k, c>> \notin answered
      BY <1>8, <2>1, <2>3, BatchesFinite DEF Dealt, Inv, TypeInv, Mains
    <3>2. \A c \in Batches : c > main.sent => made'[k][c] = 0 /\ <<k, c>> \notin answered'
      BY <2>3, <3>1
    <3> QED BY <2>1, <2>6, <2>8, <3>2 DEF Dealt
  <2>10. Shown'
    <3>1. /\ \A i \in DOMAIN results, c \in Batches, m \in Nat : results[i] = Output(c, m) =>
               <<k, c>> \in answered /\ handed[c] = 0 /\ m = made[k][c]
          /\ \A i, j \in DOMAIN results : results[i] = results[j] /\ results[i] \in Outputs => i = j
          /\ \A c \in Batches : <<k, c>> \in answered /\ handed[c] # made[k][c] =>
               \E i \in DOMAIN results : results[i] = Output(c, made[k][c])
          /\ \A c \in Batches : <<k, c>> \notin answered => handed[c] = 0
      BY <1>8, <2>1 DEF Shown
    <3>2. ASSUME NEW i \in DOMAIN results', NEW c \in Batches, NEW m \in Nat, results'[i] = Output(c, m)
          PROVE  <<k, c>> \in answered' /\ handed[c] = 0 /\ m = made'[k][c]
      <4>1. CASE i = Len(results) + 1
        <5>1. c = b /\ m = n
          BY <1>1, <2>4, <3>2, <4>1, EntriesApart
        <5> QED BY <2>3, <5>1
      <4>2. CASE i \in DOMAIN results
        <5>1. <<k, c>> \in answered /\ handed[c] = 0 /\ m = made[k][c]
          BY <2>4, <3>1, <3>2, <4>2
        <5> QED BY <2>3, <5>1
      <4> QED BY <2>4, <4>1, <4>2
    <3>3. \A i \in DOMAIN results : results[i] # Output(b, n)
      BY <1>1, <2>3, <3>1
    <3>4. ASSUME NEW i \in DOMAIN results', NEW j \in DOMAIN results', results'[i] = results'[j],
                 results'[i] \in Outputs
          PROVE  i = j
      BY <2>4, <3>1, <3>3, <3>4
    <3>5. ASSUME NEW c \in Batches, <<k, c>> \in answered', handed[c] # made'[k][c]
          PROVE  \E i \in DOMAIN results' : results'[i] = Output(c, made'[k][c])
      <4>1. CASE c = b
        BY <2>3, <2>4, <4>1
      <4>2. CASE c # b
        <5>1. PICK i \in DOMAIN results : results[i] = Output(c, made[k][c])
          BY <2>3, <3>1, <3>5, <4>2
        <5>2. i \in DOMAIN results' /\ results'[i] = Output(c, made'[k][c])
          BY <2>3, <2>4, <4>2, <5>1
        <5> QED BY <5>2
      <4> QED BY <4>1, <4>2
    <3>6. \A c \in Batches : <<k, c>> \notin answered' => handed[c] = 0
      BY <2>3, <3>1
    <3> QED BY <2>1, <3>2, <3>4, <3>5, <3>6 DEF Shown
  <2>11. Counted'
    <3>1. Exited(k)' = Exited(k)
      BY <1>1, <1>2, <2>1 DEF Exited
    <3>2. AnsweredOf(k)' = AnsweredOf(k) \cup {b} /\ b \notin AnsweredOf(k)
      <4>1. \A c \in Batches : <<k, c>> \in answered' <=> <<k, c>> \in answered \/ c = b
        BY <1>8, <2>3
      <4>2. k' = k /\ b \in Batches
        BY <1>1, <2>1
      <4> QED BY <2>3, <4>1, <4>2 DEF AnsweredOf
    <3>3. Cardinality(AnsweredOf(k)') = Cardinality(AnsweredOf(k)) + 1
      BY <3>2, CountsAre, FS_AddElement
    <3>4. /\ main.received \in Nat
          /\ main.received + Len(results) = Cardinality(AnsweredOf(k)) + Cardinality(Exited(k))
      BY <1>8, <2>1 DEF Counted, Inv, TypeInv, Mains
    <3>5. main.received + Len(results') = (Cardinality(AnsweredOf(k)) + 1) + Cardinality(Exited(k))
      <4>1. \A p, q, r, s \in Nat : p + q = r + s => p + (q + 1) = (r + 1) + s
        OBVIOUS
      <4>2. Cardinality(AnsweredOf(k)) \in Nat /\ Cardinality(Exited(k)) \in Nat
        BY CountsAre
      <4>3. Len(results') = Len(results) + 1 /\ Len(results) \in Nat
        BY <2>4
      <4>4. main.received + (Len(results) + 1) = (Cardinality(AnsweredOf(k)) + 1) + Cardinality(Exited(k))
        <5> DEFINE x == main.received
                   y == Len(results)
                   z == Cardinality(AnsweredOf(k))
                   w == Cardinality(Exited(k))
        <5>1. x \in Nat /\ y \in Nat /\ z \in Nat /\ w \in Nat /\ x + y = z + w
          BY <3>4, <4>2, <4>3
        <5> HIDE DEF x, y, z, w
        <5>2. x + (y + 1) = (z + 1) + w
          BY <4>1, <5>1
        <5> QED BY <5>2 DEF x, y, z, w
      <4> QED BY <4>3, <4>4
    <3> QED BY <2>1, <3>1, <3>3, <3>5 DEF Counted
  <2> QED BY <1>5, <1>6, <2>9, <2>10, <2>11, MovedAside DEF Inv
<1> QED BY <1>7, <1>8

LEMMA AnswerInv ==
  ASSUME Inv, NEW t \in Threads, Answer(t)
  PROVE  Inv'
<1>1. PICK more \in BOOLEAN :
        /\ made' = [made EXCEPT ![t[1]][thread[t].item] = @ + 1]
        /\ answered' = IF more THEN answered ELSE answered \cup {<<t[1], thread[t].item>>}
        /\ IF ~more
           THEN /\ thread' = [thread EXCEPT ![t].pc = "get", ![t].outputs = 0]
                /\ Put(t, Output(thread[t].item, thread[t].outputs + 1))
           ELSE /\ thread' = [thread EXCEPT ![t].outputs = thread[t].outputs + 1]
                /\ UNCHANGED results
  BY DEF Answer, LastReply
<1>2. CASE more
  BY <1>1, <1>2, AnswerMoreInv
<1>3. CASE ~more
  BY <1>1, <1>3, AnswerLastInv
<1> QED BY <1>2, <1>3

-----------------------------------------------------------------------------
LEMMA NextInv == Inv /\ [Next]_vars => Inv'
<1> SUFFICES ASSUME Inv, [Next]_vars PROVE Inv'
  OBVIOUS
<1>1. CASE BeginCall
  BY <1>1, BeginCallInv
<1>2. CASE Calling
  BY <1>2, InitAnsweredInv, EndingInv, DealInv, InputEndsInv, CollectBatchInv, CollectDoneInv, ResumeInv,
     ClosingInv DEF Calling
<1>3. ASSUME NEW t \in Threads, Working(t) PROVE Inv'
  BY <1>3, InitSecondaryInv, EndingThreadInv, SendBatchInv, AnswerInv DEF Working
<1>4. CASE UNCHANGED vars
  BY <1>4 DEF vars, Inv, TypeInv, Called, Later, Bounded, Dealt, DealtTo, Pending, Running, Shown, Counted,
              AnsweredOf, Exited, Complete, Started
<1> QED BY <1>1, <1>2, <1>3, <1>4 DEF Next

LEMMA Invariance == Spec => []Inv
  BY InitInv, NextInv, PTL DEF Spec

\* A call that returns without an exception gave its consumer every output of
\* every batch it was fed, and no output is given twice (DeliversEverything),
\* although threads of a failed call may still be at work.
THEOREM CallsAreWhole == Spec => []DeliversEverything
<1>1. Inv => DeliversEverything
  BY DEF Inv, Bounded, Called, Complete, DeliversEverything
<1> QED BY <1>1, Invariance, PTL

\* FINALIZE is sent only when every batch dealt is answered and no thread of
\* the call can touch a connection again (FinalizeComesLast).
THEOREM FinalizesComeLast == Spec => []FinalizeComesLast
<1>1. Inv => FinalizeComesLast
  BY DEF Inv, Complete, FinalizeComesLast
<1> QED BY <1>1, Invariance, PTL

\* A call that ends normally has closed every secondary connection, those that
\* earlier calls left open included (SecondariesClosed).
THEOREM CallsCloseSecondaries == Spec => []SecondariesClosed
<1>1. Inv => SecondariesClosed
  BY DEF Inv, Complete, SecondariesClosed
<1> QED BY <1>1, Invariance, PTL
=============================================================================
