------------------------- MODULE ParallelScanProofs -------------------------
(***************************************************************************)
(* Proofs about ParallelScan for any number of connections, batches and    *)
(* failures.                                                               *)
(*                                                                         *)
(* The signals on the queue do not say who sent them, so that a complete   *)
(* scan is a matter of counting: while the consumer collects, the signals  *)
(* it has taken and those still queued are together as many as the readers *)
(* whose stream has ended, and a batch that is still queued has a signal   *)
(* behind it once its reader is gone.  All signals taken and none queued   *)
(* then leaves no batch behind.                                            *)
(***************************************************************************)
EXTENDS ParallelScan, FiniteSetTheorems, SequenceTheorems, TLAPS

Positions(s, x) == {i \in DOMAIN s : s[i] = x}
Count(s, x) == Cardinality(Positions(s, x))

Entries == {Rows(w) : w \in Workers} \cup {Done, Failed}

\* The readers that signalled: their streams have ended.
Ended == {w \in Workers : reader[w] = "exit" /\ ~open[w]}

Mains == [pc : {"spawn", "init", "collect", "yield", "join", "close", "secondaries", "end"},
          at : Workers, finished : Nat,
          outcome : {"none", "refused", "ok", "failed", "abandoned"}]

TypeInv ==
  /\ main \in Mains
  /\ reader \in [Workers -> {"none", "init", "ready", "refused",
                             "read", "wait", "check", "cancel", "exit"}]
  /\ results \in Seq(Entries)
  /\ stop \in BOOLEAN
  /\ open \in [Workers -> BOOLEAN]
  /\ additional \subseteq Workers /\ killed \subseteq Workers
  /\ produced \in [Workers -> Nat] /\ yielded \in [Workers -> Nat]
  /\ failures \in Nat

Collecting == main.pc \in {"collect", "yield"}

\* Before the readers start, and when they never do.
Starting ==
  /\ main.outcome = "refused" => main.pc = "end"
  /\ main.pc \in {"spawn", "init"} \/ main.outcome = "refused" =>
       \A w \in Workers : reader[w] \in {"none", "init", "ready", "refused"}
  /\ main.pc \notin {"spawn", "init"} => \A w \in Workers : reader[w] # "init"
  /\ main.pc \in {"spawn", "init"} => main.finished = 0 /\ results = <<>>
  /\ main.pc = "spawn" => open[Primary] /\ \A w \in Workers : reader[w] = "none"
  /\ main.pc = "init" => \A w \in Workers : reader[w] = "ready" => open[w]
  /\ main.pc \in {"spawn", "init", "collect", "yield"} => main.outcome = "none"

\* While the consumer collects: a reader at work has its stream, and every
\* stream that ended is a signal taken or queued.
Counted == Collecting =>
  /\ \A w \in Workers : Running(w) => open[w]
  /\ \A w \in Workers : Running(w) \/ reader[w] = "exit"
  /\ main.finished + Count(results, Done) = Cardinality(Ended)

\* A queued batch whose reader is gone has the reader's signal behind it.
Followed == Collecting =>
  \A i \in DOMAIN results : \A w \in Ended : results[i] = Rows(w) =>
    \E j \in DOMAIN results : j > i /\ results[j] = Done

\* No batch is lost between a worker and the consumer.
Delivered == \A w \in Workers : yielded[w] + Count(results, Rows(w)) = produced[w]

\* What the consumer has gone past when it closes the streams.
IsPassed(w) ==
  \/ main.pc = "close" /\ w < main.at
  \/ main.pc \in {"secondaries", "end"}

NobodyBlocked == Direct =>
  \A w \in Workers : Running(w) /\ IsPassed(w) => w \in killed

Inv ==
  /\ TypeInv /\ Starting /\ Counted /\ Followed /\ Delivered
  /\ NobodyBlocked /\ ScanIsComplete

-----------------------------------------------------------------------------
(* Occurrences in a queue.                                                 *)

LEMMA CountType ==
  ASSUME NEW s \in Seq(Entries), NEW x
  PROVE  /\ IsFiniteSet(Positions(s, x))
         /\ Count(s, x) \in Nat
         /\ Count(s, x) = 0 <=> Positions(s, x) = {}
<1>1. IsFiniteSet(DOMAIN s) /\ Positions(s, x) \subseteq DOMAIN s
  BY FS_Interval DEF Positions
<1>2. IsFiniteSet(Positions(s, x))
  BY <1>1, FS_Subset
<1> QED BY <1>2, FS_CardinalityType, FS_EmptySet DEF Count

LEMMA CountEmpty == ASSUME NEW x PROVE Count(<<>>, x) = 0
<1>1. Positions(<<>>, x) = {}
  BY DEF Positions
<1> QED BY <1>1, FS_EmptySet DEF Count

LEMMA CountAppend ==
  ASSUME NEW s \in Seq(Entries), NEW e \in Entries, NEW x
  PROVE  Count(Append(s, e), x) = IF e = x THEN Count(s, x) + 1 ELSE Count(s, x)
<1> DEFINE n == Len(s) + 1
<1>1. n \notin Positions(s, x)
  BY DEF Positions
<1>2. Positions(Append(s, e), x) = IF e = x THEN Positions(s, x) \cup {n} ELSE Positions(s, x)
  BY DEF Positions
<1> QED BY <1>1, <1>2, CountType, FS_AddElement DEF Count

LEMMA CountTail ==
  ASSUME NEW s \in Seq(Entries), s # <<>>, NEW x
  PROVE  Count(s, x) = IF Head(s) = x THEN Count(Tail(s), x) + 1 ELSE Count(Tail(s), x)
<1> DEFINE P == Positions(Tail(s), x)
           Q == Positions(s, x) \ {1}
           f == [i \in P |-> i + 1]
<1>1. /\ Tail(s) \in Seq(Entries) /\ Len(s) \in Nat \ {0} /\ Len(Tail(s)) = Len(s) - 1
      /\ \A i \in 1..(Len(s) - 1) : Tail(s)[i] = s[i + 1]
  BY HeadTailProperties, LenProperties
<1>2. \A i \in P : i \in Nat /\ i + 1 \in Q
  BY <1>1 DEF Positions
<1>3. \A j \in Q : j - 1 \in P /\ j \in Nat
  BY <1>1 DEF Positions
<1>4. f \in Bijection(P, Q)
  <2>1. f \in [P -> Q] /\ \A a, b \in P : f[a] = f[b] => a = b
    BY <1>2
  <2>2. \A j \in Q : \E i \in P : f[i] = j
    <3>1. ASSUME NEW j \in Q PROVE j - 1 \in P /\ f[j - 1] = j
      BY <1>3
    <3> QED BY <3>1
  <2> QED BY <2>1, <2>2 DEF Bijection, Injection, IsInjective, Surjection
<1>5. Cardinality(Q) = Cardinality(P)
  BY <1>1, <1>4, CountType, FS_Bijection DEF ExistsBijection
<1>6. 1 \in Positions(s, x) <=> Head(s) = x
  BY <1>1 DEF Positions
<1>7. IsFiniteSet(Positions(s, x)) /\ Count(s, x) \in Nat /\ Count(Tail(s), x) \in Nat
  BY <1>1, CountType
<1>8. Cardinality(Q) = IF Head(s) = x THEN Count(s, x) - 1 ELSE Count(s, x)
  BY <1>6, <1>7, FS_RemoveElement DEF Count
<1>9. Cardinality(Q) = Count(Tail(s), x)
  BY <1>5 DEF Count
<1> QED BY <1>7, <1>8, <1>9

-----------------------------------------------------------------------------
LEMMA EntriesApart ==
  /\ Done \in Entries /\ Failed \in Entries /\ Done # Failed
  /\ \A w \in Workers : /\ Rows(w) \in Entries /\ Rows(w) # Done /\ Rows(w) # Failed
                        /\ \A v \in Workers : Rows(v) = Rows(w) => v = w
  BY DEF Entries, Done, Failed, Rows

LEMMA WorkersFinite ==
  /\ IsFiniteSet(Workers) /\ Cardinality(Workers) = NumWorkers
  /\ Workers \subseteq Nat /\ Primary \in Workers
  BY Parameters, FS_Interval DEF Workers, Primary

LEMMA InitInv == Init => Inv
<1> SUFFICES ASSUME Init PROVE Inv
  OBVIOUS
<1>1. TypeInv
  BY WorkersFinite DEF Init, TypeInv, Primary, Mains
<1>2. Starting /\ Counted /\ Followed /\ NobodyBlocked /\ ScanIsComplete
  BY WorkersFinite
  DEF Init, Starting, Counted, Followed, NobodyBlocked, IsPassed, ScanIsComplete, Collecting, Running
<1>3. Delivered
  BY CountEmpty DEF Init, Delivered
<1> QED BY <1>1, <1>2, <1>3 DEF Inv

-----------------------------------------------------------------------------
\* No batches and signals come or go.
LEMMA QueueStays ==
  ASSUME Inv, UNCHANGED <<results, produced, yielded>>
  PROVE  Delivered'
  BY DEF Inv, Delivered

LEMMA OpeningStepsInv ==
  ASSUME Inv, Spawn \/ InitJoined \/ \E w \in Workers : InitSecondary(w)
  PROVE  Inv'
<1>1. CASE Spawn
  <2>1. /\ main \in Mains /\ main' \in Mains /\ main'.pc = "init"
        /\ main'.finished = main.finished /\ main'.outcome = main.outcome
    BY <1>1 DEF Spawn, Inv, TypeInv, Mains
  <2>2. TypeInv'
    BY <1>1, <2>1 DEF Spawn, Inv, TypeInv
  <2>3. Starting' /\ Counted' /\ Followed' /\ NobodyBlocked' /\ ScanIsComplete'
    BY <1>1, <2>1 DEF Spawn, Inv, TypeInv, Starting, Counted, Followed, NobodyBlocked, IsPassed,
                      ScanIsComplete, Collecting
  <2> QED BY <1>1, <2>2, <2>3, QueueStays DEF Inv, Spawn
<1>2. ASSUME NEW w \in Workers, InitSecondary(w) PROVE Inv'
  <2>1. TypeInv'
    <3>1. failures' \in Nat
      BY <1>2 DEF InitSecondary, Inv, TypeInv
    <3>2. reader' \in [Workers -> {"none", "init", "ready", "refused", "read", "wait", "check",
                                   "cancel", "exit"}]
      BY <1>2 DEF InitSecondary, Inv, TypeInv
    <3>3. open' \in [Workers -> BOOLEAN]
      BY <1>2 DEF InitSecondary, Inv, TypeInv
    <3> QED BY <1>2, <3>1, <3>2, <3>3 DEF InitSecondary, Inv, TypeInv
  <2>2. main.pc = "init"
    BY <1>2 DEF InitSecondary, Inv, Starting, TypeInv
  <2>3. Starting' /\ Counted' /\ Followed' /\ NobodyBlocked' /\ ScanIsComplete'
    BY <1>2, <2>2, ZenonT(40) DEF InitSecondary, Inv, TypeInv, Starting, Counted, Followed,
        NobodyBlocked, IsPassed,
                      Running, ScanIsComplete, Collecting
  <2> QED BY <1>2, <2>1, <2>3, QueueStays DEF Inv, InitSecondary
<1>3. CASE InitJoined
  <2>1. TypeInv'
    <3>1. main' \in Mains
      BY <1>3, ZenonT(40) DEF InitJoined, Inv, TypeInv, Mains
    <3> QED BY <1>3, <3>1 DEF InitJoined, Inv, TypeInv
  <2>2. CASE \A w \in Workers : reader[w] = "ready"
    <3>1. /\ main' = [main EXCEPT !.pc = "collect"]
          /\ reader' = [w \in Workers |-> "read"] /\ UNCHANGED <<results, open>>
          /\ main.pc = "init" /\ results = <<>> /\ main.finished = 0 /\ main.outcome = "none"
          /\ \A w \in Workers : open[w]
      BY <1>3, <2>2 DEF InitJoined, Inv, Starting
    <3>2. Ended' = {} /\ main'.pc = "collect" /\ main'.finished = 0 /\ main'.outcome = "none"
      BY <3>1 DEF Ended, Inv, TypeInv
    <3>3. Starting' /\ Followed' /\ NobodyBlocked' /\ ScanIsComplete'
      BY <3>1, <3>2 DEF Starting, Followed, NobodyBlocked, IsPassed, ScanIsComplete
    <3>4. Counted'
      BY <3>1, <3>2, CountEmpty, FS_EmptySet DEF Counted, Running
    <3> QED BY <1>3, <2>1, <3>3, <3>4, QueueStays DEF Inv, InitJoined
  <2>3. CASE ~\A w \in Workers : reader[w] = "ready"
    <3>1. /\ main'.pc = "end" /\ main'.outcome = "refused" /\ main.pc = "init"
          /\ UNCHANGED <<reader, results, open>>
      BY <1>3, <2>3 DEF InitJoined, Inv, TypeInv, Mains
    <3>2. \A w \in Workers : reader[w] \in {"none", "ready", "refused"} /\ ~Running(w)'
      BY <1>3, <3>1 DEF InitJoined, Inv, Starting, Running
    <3>3. Starting' /\ Counted' /\ Followed' /\ NobodyBlocked' /\ ScanIsComplete'
      BY <3>1, <3>2 DEF Starting, Counted, Followed, NobodyBlocked, ScanIsComplete, Collecting
    <3> QED BY <1>3, <2>1, <3>3, QueueStays DEF Inv, InitJoined
  <2> QED BY <2>2, <2>3
<1> QED BY <1>1, <1>2, <1>3

-----------------------------------------------------------------------------
\* A reader at work: the scan was neither refused nor completed.
LEMMA AtWork ==
  ASSUME Inv, NEW w \in Workers, Running(w)
  PROVE  main.pc \notin {"spawn", "init"} /\ main.outcome \notin {"refused", "ok"}
  BY DEF Inv, Starting, ScanIsComplete, Running

\* A step of a reader that stays at work.
LEMMA GoesOn ==
  ASSUME Inv, NEW w \in Workers, Running(w), Running(w)',
         reader' = [reader EXCEPT ![w] = reader'[w]],
         UNCHANGED <<main, open, killed>>
  PROVE  /\ Starting' /\ NobodyBlocked' /\ ScanIsComplete'
         /\ Ended' = Ended
         /\ \A v \in Workers : /\ Running(v)' <=> Running(v)
                               /\ reader'[v] = "exit" <=> reader[v] = "exit"
<1>1. \A v \in Workers : v # w => reader'[v] = reader[v]
  BY DEF Inv, TypeInv
<1>2. reader[w] # "exit" /\ reader'[w] # "exit" /\ reader'[w] # "init"
  BY DEF Running
<1>3. Ended' = Ended
  BY <1>1, <1>2 DEF Ended
<1>4. \A v \in Workers : /\ Running(v)' <=> Running(v)
                         /\ reader'[v] = "exit" <=> reader[v] = "exit"
  BY <1>1, <1>2 DEF Running
<1>5. Starting' /\ ScanIsComplete'
  BY <1>1, <1>2, AtWork DEF Inv, Starting, ScanIsComplete
<1>6. NobodyBlocked'
  BY <1>4 DEF Inv, NobodyBlocked, IsPassed
<1> QED BY <1>3, <1>4, <1>5, <1>6

\* A step of a reader that ends, with its signal or its exception.
LEMMA Leaves ==
  ASSUME Inv, NEW w \in Workers, Running(w),
         reader' = [reader EXCEPT ![w] = "exit"],
         UNCHANGED <<main, killed, produced, yielded>>, TypeInv',
         \/ open' = [open EXCEPT ![w] = FALSE] /\ results' = Append(results, Done)
         \/ open' = open /\ results' = Append(results, Failed)
  PROVE  Inv'
<1> USE EntriesApart
<1>0. results \in Seq(Entries) /\ Len(results) \in Nat
  BY DEF Inv, TypeInv
<1>1. \A v \in Workers : v # w => reader'[v] = reader[v] /\ open'[v] = open[v]
  BY DEF Inv, TypeInv
<1>2. reader'[w] = "exit" /\ reader[w] # "exit" /\ ~Running(w)'
  BY DEF Running, Inv, TypeInv
<1>3. \A v \in Workers : Running(v)' => Running(v) /\ v # w
  BY <1>1, <1>2 DEF Running
<1>4. Starting' /\ ScanIsComplete'
  BY <1>1, <1>2, AtWork DEF Inv, Starting, ScanIsComplete
<1>5. NobodyBlocked'
  BY <1>3 DEF Inv, NobodyBlocked, IsPassed
<1>6. Delivered'
  <2>1. ASSUME NEW v \in Workers PROVE Count(results', Rows(v)) = Count(results, Rows(v))
    <3>1. Rows(v) # Done /\ Rows(v) # Failed
      OBVIOUS
    <3>2. Count(Append(results, Done), Rows(v)) = Count(results, Rows(v))
      BY <1>0, <3>1, CountAppend
    <3>3. Count(Append(results, Failed), Rows(v)) = Count(results, Rows(v))
      BY <1>0, <3>1, CountAppend
    <3> QED BY <3>2, <3>3
  <2> QED BY <2>1 DEF Inv, Delivered
<1>7. ASSUME Collecting' PROVE Counted' /\ Followed'
  <2>1. Collecting /\ open[w]
    BY <1>7 DEF Collecting, Inv, Counted
  <2>2. \A v \in Workers : /\ Running(v)' => open'[v]
                           /\ Running(v)' \/ reader'[v] = "exit"
    BY <1>1, <1>2, <1>3, <2>1 DEF Inv, Counted, Running
  <2>3. w \notin Ended /\ IsFiniteSet(Ended) /\ Cardinality(Ended) \in Nat
    BY <1>2, WorkersFinite, FS_Subset, FS_CardinalityType DEF Ended
  <2>4. main.finished \in Nat /\ Count(results, Done) \in Nat
    BY <1>0, CountType DEF Inv, TypeInv, Mains
  <2>5. CASE open' = [open EXCEPT ![w] = FALSE] /\ results' = Append(results, Done)
    <3>1. Ended' = Ended \cup {w}
      BY <1>1, <1>2, <2>5 DEF Ended, Inv, TypeInv
    <3>2. Cardinality(Ended') = Cardinality(Ended) + 1
      BY <2>3, <3>1, FS_AddElement
    <3>3. Count(results', Done) = Count(results, Done) + 1
      BY <1>0, <2>5, CountAppend
    <3>4. main.finished + Count(results', Done) = Cardinality(Ended')
      BY <2>1, <2>3, <2>4, <3>2, <3>3 DEF Inv, Counted
    <3>5. Followed'
      <4>1. \A i \in DOMAIN results' : i <= Len(results) \/ results'[i] = Done
        BY <1>0, <2>5
      <4>2. Len(results) + 1 \in DOMAIN results' /\ results'[Len(results) + 1] = Done
        BY <1>0, <2>5
      <4>3. \A i \in DOMAIN results' : i \in Nat
        BY <1>0, <2>5
      <4> QED BY <1>0, <4>1, <4>2, <4>3 DEF Followed, Ended
    <3> QED BY <2>2, <3>4, <3>5 DEF Counted
  <2>6. CASE open' = open /\ results' = Append(results, Failed)
    <3>1. Ended' = Ended
      BY <1>1, <1>2, <2>1, <2>6 DEF Ended
    <3>2. Count(results', Done) = Count(results, Done)
      BY <1>0, <2>6, CountAppend
    <3>3. \A i \in DOMAIN results' :
            (i \in DOMAIN results /\ results'[i] = results[i]) \/ results'[i] = Failed
      BY <1>0, <2>6
    <3>4. \A i \in DOMAIN results : i \in DOMAIN results' /\ results'[i] = results[i]
      BY <1>0, <2>6
    <3>5. Followed'
      BY <2>1, <3>1, <3>3, <3>4 DEF Followed, Inv, Ended
    <3> QED BY <2>1, <2>2, <3>1, <3>2, <3>5 DEF Counted, Inv
  <2> QED BY <2>5, <2>6
<1>8. Counted' /\ Followed'
  BY <1>7 DEF Counted, Followed
<1> QED BY <1>4, <1>5, <1>6, <1>8 DEF Inv

LEMMA ReaderStepsInv ==
  ASSUME Inv, NEW w \in Workers,
         Ask(w) \/ ReplyBatch(w) \/ ReplyEnd(w) \/ ReadFails(w) \/ CheckStop(w) \/ Cancel(w)
  PROVE  Inv'
<1> USE EntriesApart
<1>0. results \in Seq(Entries) /\ Len(results) \in Nat
  BY DEF Inv, TypeInv
<1>1. CASE Ask(w) \/ CheckStop(w)
  <2>1. TypeInv'
    BY <1>1 DEF Ask, CheckStop, Inv, TypeInv
  <2>2. /\ Running(w) /\ Running(w)' /\ reader' = [reader EXCEPT ![w] = reader'[w]]
        /\ UNCHANGED <<main, open, killed, results, produced, yielded>>
    BY <1>1 DEF Ask, CheckStop, Running, Inv, TypeInv
  <2>3. Starting' /\ NobodyBlocked' /\ ScanIsComplete' /\ Delivered'
    BY <2>2, GoesOn, QueueStays
  <2>4. Counted' /\ Followed'
    BY <2>2, GoesOn DEF Counted, Followed, Inv, Collecting
  <2> QED BY <2>1, <2>3, <2>4 DEF Inv
<1>2. CASE ReplyBatch(w)
  <2>1. /\ Running(w) /\ Running(w)' /\ reader' = [reader EXCEPT ![w] = reader'[w]]
        /\ UNCHANGED <<main, open, killed, stop, additional, yielded, failures>>
    BY <1>2 DEF ReplyBatch, Running, Inv, TypeInv
  <2>2. reader' \in [Workers -> {"none", "init", "ready", "refused", "read", "wait", "check",
                                 "cancel", "exit"}]
    BY <1>2 DEF ReplyBatch, Inv, TypeInv
  <2>3. CASE UNCHANGED <<produced, results>>
    <3>1. TypeInv'
      BY <2>1, <2>2, <2>3 DEF Inv, TypeInv
    <3>2. Starting' /\ NobodyBlocked' /\ ScanIsComplete' /\ Delivered'
      BY <2>1, <2>3, GoesOn, QueueStays
    <3>3. Counted' /\ Followed'
      BY <2>1, <2>3, GoesOn DEF Counted, Followed, Inv, Collecting
    <3> QED BY <3>1, <3>2, <3>3 DEF Inv
  <2>4. CASE produced' = [produced EXCEPT ![w] = @ + 1] /\ results' = Append(results, Rows(w))
    <3>1. results' \in Seq(Entries) /\ produced' \in [Workers -> Nat]
      BY <1>0, <2>4 DEF Inv, TypeInv
    <3>2. TypeInv'
      BY <2>1, <2>2, <3>1 DEF Inv, TypeInv
    <3>3. Starting' /\ NobodyBlocked'
      BY <2>1, GoesOn DEF Inv, Starting, NobodyBlocked, IsPassed
    <3>4. ScanIsComplete'
      BY <2>1, AtWork DEF ScanIsComplete
    <3>5. Delivered'
      <4>1. ASSUME NEW v \in Workers PROVE yielded'[v] + Count(results', Rows(v)) = produced'[v]
        <5>1. Count(results', Rows(v)) = IF v = w THEN Count(results, Rows(v)) + 1
                                                  ELSE Count(results, Rows(v))
          <6>1. Rows(w) = Rows(v) <=> v = w
            OBVIOUS
          <6> QED BY <1>0, <2>4, <6>1, CountAppend
        <5>2. Count(results, Rows(v)) \in Nat /\ yielded[v] \in Nat /\ produced[v] \in Nat
          BY <1>0, CountType DEF Inv, TypeInv
        <5>3. yielded'[v] = yielded[v] /\ produced'[v] = IF v = w THEN produced[v] + 1 ELSE produced[v]
          BY <2>1, <2>4 DEF Inv, TypeInv
        <5>4. yielded[v] + Count(results, Rows(v)) = produced[v]
          BY DEF Inv, Delivered
        <5> QED BY <5>1, <5>2, <5>3, <5>4
      <4> QED BY <4>1 DEF Delivered
    <3>6. Counted'
      <4>1. Count(results', Done) = Count(results, Done)
        BY <1>0, <2>4, CountAppend
      <4> QED BY <2>1, <4>1, GoesOn DEF Counted, Inv, Collecting
    <3>7. Followed'
      <4>1. ASSUME Collecting, NEW i \in DOMAIN results', NEW v \in Ended, results'[i] = Rows(v)
            PROVE  \E j \in DOMAIN results' : j > i /\ results'[j] = Done
        <5>1. v # w /\ v \in Workers
          BY <2>1, <4>1 DEF Ended, Running
        <5>2. i \in DOMAIN results /\ results[i] = Rows(v)
          BY <1>0, <2>4, <4>1, <5>1
        <5>3. PICK j \in DOMAIN results : j > i /\ results[j] = Done
          BY <4>1, <5>2 DEF Inv, Followed
        <5>4. j \in DOMAIN results' /\ results'[j] = Done
          BY <1>0, <2>4, <5>3
        <5> QED BY <5>3, <5>4
      <4> QED BY <2>1, <4>1, GoesOn DEF Followed, Collecting
    <3> QED BY <3>2, <3>3, <3>4, <3>5, <3>6, <3>7 DEF Inv
  <2> QED BY <1>2, <2>3, <2>4 DEF ReplyBatch
<1>3. ASSUME Running(w), reader' = [reader EXCEPT ![w] = "exit"],
             UNCHANGED <<main, killed, produced, yielded, stop, additional>>, failures' \in Nat,
             \/ open' = [open EXCEPT ![w] = FALSE] /\ results' = Append(results, Done)
             \/ open' = open /\ results' = Append(results, Failed)
      PROVE  Inv'
  <2>1. results' \in Seq(Entries)
    BY <1>0, <1>3
  <2>2. open' \in [Workers -> BOOLEAN] /\
        reader' \in [Workers -> {"none", "init", "ready", "refused", "read", "wait", "check",
                                 "cancel", "exit"}]
    BY <1>3 DEF Inv, TypeInv
  <2>3. TypeInv'
    BY <1>3, <2>1, <2>2 DEF Inv, TypeInv
  <2> QED BY <1>3, <2>3, Leaves
<1>4. CASE ReplyEnd(w)
  <2>1. results \o <<Done>> = Append(results, Done)
    BY <1>0
  <2> QED BY <1>3, <1>4, <2>1 DEF ReplyEnd, EndSignal, Running, Inv, TypeInv
<1>5. CASE ReadFails(w)
  <2>1. failures' \in Nat
    BY <1>5 DEF ReadFails, Inv, TypeInv
  <2> QED BY <1>3, <1>5, <2>1 DEF ReadFails, Running
<1>6. CASE Cancel(w)
  BY <1>3, <1>6 DEF Cancel, Running, Inv, TypeInv
<1> QED BY <1>1, <1>2, <1>4, <1>5, <1>6

-----------------------------------------------------------------------------
LEMMA CollectStepsInv ==
  ASSUME Inv,
         \/ CollectRows \/ CollectDone \/ CollectFailure \/ Resume \/ Abandon \/ Complete
  PROVE  Inv'
<1> USE EntriesApart
<1>0. results \in Seq(Entries) /\ Len(results) \in Nat
  BY DEF Inv, TypeInv
\* The head is taken.
<1>1. ASSUME results # <<>>, results' = Tail(results)
      PROVE  /\ results' \in Seq(Entries)
             /\ \A x : Count(results, x) = IF Head(results) = x THEN Count(results', x) + 1
                                                                ELSE Count(results', x)
             /\ \A x : Count(results', x) \in Nat
             /\ \A i \in DOMAIN results' : i + 1 \in DOMAIN results /\ results'[i] = results[i + 1]
             /\ \A j \in DOMAIN results : j > 1 => j - 1 \in DOMAIN results' /\ results'[j - 1] = results[j]
  <2>1. /\ results' \in Seq(Entries) /\ Len(results') = Len(results) - 1
        /\ \A i \in 1..Len(results') : results'[i] = results[i + 1]
    BY <1>0, <1>1, HeadTailProperties
  <2>2. DOMAIN results' = 1..Len(results') /\ DOMAIN results = 1..Len(results)
    BY <1>0, <2>1
  <2>3. \A i \in DOMAIN results' : i + 1 \in DOMAIN results /\ results'[i] = results[i + 1]
    BY <1>0, <2>1, <2>2
  <2>4. \A j \in DOMAIN results : j > 1 => j - 1 \in DOMAIN results' /\ results'[j - 1] = results[j]
    BY <1>0, <2>1, <2>2
  <2>5. \A x : Count(results, x) = IF Head(results) = x THEN Count(results', x) + 1
                                                        ELSE Count(results', x)
    BY <1>0, <1>1, CountTail
  <2> QED BY <2>1, <2>3, <2>4, <2>5, CountType
<1>2. ASSUME results # <<>>, results' = Tail(results), UNCHANGED <<reader, open>>,
             Collecting
      PROVE  Followed'
  <2>1. ASSUME NEW i \in DOMAIN results', NEW v \in Ended, results'[i] = Rows(v)
        PROVE  \E j \in DOMAIN results' : j > i /\ results'[j] = Done
    <3>1. i + 1 \in DOMAIN results /\ results[i + 1] = Rows(v) /\ i \in Nat /\ i > 0
      BY <1>0, <1>1, <1>2, <2>1
    <3>2. PICK j \in DOMAIN results : j > i + 1 /\ results[j] = Done
      BY <1>2, <3>1 DEF Inv, Followed
    <3>3. j - 1 \in DOMAIN results' /\ results'[j - 1] = Done /\ j - 1 > i
      BY <1>0, <1>1, <1>2, <3>1, <3>2
    <3> QED BY <3>3
  <2>2. Ended' = Ended
    BY <1>2 DEF Ended
  <2> QED BY <2>1, <2>2 DEF Followed
<1>3. ASSUME UNCHANGED <<reader, open, killed>>, main'.pc \notin {"spawn", "init", "close", "secondaries", "end"},
             Collecting, main'.outcome \in {"none", "failed", "abandoned"},
             Collecting' => main'.outcome = "none"
      PROVE  Starting' /\ NobodyBlocked' /\ ScanIsComplete'
  BY <1>3 DEF Inv, Starting, NobodyBlocked, IsPassed, ScanIsComplete, Collecting
<1>4. CASE CollectRows
  <2> DEFINE w == Head(results).worker
  <2>1. w \in Workers /\ Head(results) = Rows(w)
    <3>1. Head(results) \in Entries
      BY <1>0, <1>4, HeadTailProperties DEF CollectRows
    <3> QED BY <1>4, <3>1 DEF CollectRows, Entries, Rows, Done, Failed
  <2>2. /\ results # <<>> /\ results' = Tail(results) /\ UNCHANGED <<reader, open, killed>>
        /\ Collecting /\ main'.pc = "yield" /\ main'.outcome = main.outcome
        /\ main'.finished = main.finished /\ main' \in Mains /\ main.outcome = "none"
    BY <1>4 DEF CollectRows, Collecting, Inv, TypeInv, Mains, Starting
  <2>3. yielded' = [yielded EXCEPT ![w] = @ + 1] /\ yielded' \in [Workers -> Nat]
    BY <1>4, <2>1 DEF CollectRows, Inv, TypeInv
  <2>4. TypeInv'
    BY <1>1, <1>4, <2>2, <2>3 DEF CollectRows, Inv, TypeInv
  <2>5. Starting' /\ NobodyBlocked' /\ ScanIsComplete' /\ Followed'
    BY <1>2, <1>3, <2>2
  <2>6. Delivered'
    <3>1. ASSUME NEW v \in Workers PROVE yielded'[v] + Count(results', Rows(v)) = produced'[v]
      <4>1. /\ Count(results, Rows(v)) = IF v = w THEN Count(results', Rows(v)) + 1
                                                 ELSE Count(results', Rows(v))
            /\ Count(results', Rows(v)) \in Nat
        BY <1>1, <2>1, <2>2
      <4>2. /\ yielded[v] \in Nat /\ produced[v] \in Nat /\ produced' = produced
            /\ yielded'[v] = IF v = w THEN yielded[v] + 1 ELSE yielded[v]
        BY <1>4, <2>3 DEF CollectRows, Inv, TypeInv
      <4>3. yielded[v] + Count(results, Rows(v)) = produced[v]
        BY DEF Inv, Delivered
      <4> QED BY <4>1, <4>2, <4>3
    <3> QED BY <3>1 DEF Delivered
  <2>7. Counted'
    <3>1. Count(results', Done) = Count(results, Done)
      BY <1>1, <2>1, <2>2
    <3> QED BY <2>2, <3>1 DEF Counted, Inv, Running, Ended
  <2> QED BY <2>4, <2>5, <2>6, <2>7 DEF Inv
<1>5. CASE CollectDone
  <2>1. /\ results # <<>> /\ results' = Tail(results) /\ UNCHANGED <<reader, open, killed>>
        /\ Collecting /\ main'.pc = "collect" /\ main'.outcome = main.outcome
        /\ main'.finished = main.finished + 1 /\ main' \in Mains /\ main.finished \in Nat
        /\ Head(results) = Done /\ main.outcome = "none"
    <3>1. main \in Mains /\ main.finished \in Nat /\ main.pc = "collect" /\ main.outcome = "none"
      BY <1>5 DEF CollectDone, Inv, TypeInv, Mains, Starting
    <3>2. main' = [main EXCEPT !.finished = main.finished + 1]
      BY <1>5 DEF CollectDone
    <3>3. /\ main' \in Mains /\ main'.pc = main.pc /\ main'.outcome = main.outcome
          /\ main'.finished = main.finished + 1
      BY <3>1, <3>2 DEF Mains
    <3> QED BY <1>5, <3>1, <3>3 DEF CollectDone, Collecting
  <2>2. TypeInv'
    BY <1>1, <1>5, <2>1 DEF CollectDone, Inv, TypeInv
  <2>3. Starting' /\ NobodyBlocked' /\ ScanIsComplete' /\ Followed'
    BY <1>2, <1>3, <2>1
  <2>4. Delivered'
    BY <1>1, <1>5, <2>1 DEF CollectDone, Inv, Delivered
  <2>5. Counted'
    <3>1. Count(results, Done) = Count(results', Done) + 1 /\ Count(results', Done) \in Nat
      BY <1>1, <2>1
    <3>2. main'.finished + Count(results', Done) = main.finished + Count(results, Done)
      BY <2>1, <3>1
    <3> QED BY <2>1, <3>2 DEF Counted, Inv, Running, Ended
  <2> QED BY <2>2, <2>3, <2>4, <2>5 DEF Inv
<1>6. CASE CollectFailure
  <2>1. /\ results # <<>> /\ results' = Tail(results) /\ UNCHANGED <<reader, open, killed>>
        /\ Collecting /\ main'.pc = "join" /\ main'.outcome = "failed"
        /\ main' \in Mains /\ Head(results) = Failed
    BY <1>6, WorkersFinite DEF CollectFailure, Take, Collecting, Inv, TypeInv, Mains, Primary
  <2>2. TypeInv'
    BY <1>1, <1>6, <2>1 DEF CollectFailure, Take, Inv, TypeInv
  <2>3. Starting' /\ NobodyBlocked' /\ ScanIsComplete'
    BY <1>3, <2>1 DEF Collecting
  <2>4. Delivered'
    BY <1>1, <1>6, <2>1 DEF CollectFailure, Inv, Delivered
  <2> QED BY <2>1, <2>2, <2>3, <2>4 DEF Inv, Counted, Followed, Collecting
<1>7. CASE Resume
  <2>1. /\ UNCHANGED <<reader, open, killed, results, produced, yielded>>
        /\ Collecting /\ main'.pc = "collect" /\ main'.outcome = main.outcome
        /\ main'.finished = main.finished /\ main' \in Mains /\ main.outcome = "none"
    BY <1>7 DEF Resume, Collecting, Inv, TypeInv, Mains, Starting
  <2>2. TypeInv' /\ Delivered'
    BY <1>7, <2>1, QueueStays DEF Resume, Inv, TypeInv
  <2>3. Starting' /\ NobodyBlocked' /\ ScanIsComplete'
    BY <1>3, <2>1
  <2>4. Counted' /\ Followed'
    BY <2>1 DEF Inv, Counted, Followed, Running, Ended
  <2> QED BY <2>2, <2>3, <2>4 DEF Inv
<1>8. CASE Abandon
  <2>1. /\ UNCHANGED <<reader, open, killed, results, produced, yielded>>
        /\ Collecting /\ main'.pc = "join" /\ main'.outcome = "abandoned" /\ main' \in Mains
    BY <1>8, WorkersFinite DEF Abandon, Take, Collecting, Inv, TypeInv, Mains, Primary
  <2>2. TypeInv' /\ Delivered'
    BY <1>8, <2>1, QueueStays DEF Abandon, Take, Inv, TypeInv
  <2>3. Starting' /\ NobodyBlocked' /\ ScanIsComplete'
    BY <1>3, <2>1 DEF Collecting
  <2> QED BY <2>1, <2>2, <2>3 DEF Inv, Counted, Followed, Collecting
<1>9. CASE Complete
  <2>1. /\ UNCHANGED <<reader, open, killed, results, produced, yielded>>
        /\ Collecting /\ main'.pc = "join" /\ main'.outcome = "ok" /\ main' \in Mains
        /\ main.finished = NumWorkers /\ main.outcome = "none"
    BY <1>9, WorkersFinite
    DEF Complete, Take, AllFinished, Collecting, Inv, TypeInv, Mains, Primary, Starting
  <2>2. TypeInv' /\ Delivered'
    BY <1>9, <2>1, QueueStays DEF Complete, Take, Inv, TypeInv
  <2>3. Ended = Workers /\ Count(results, Done) = 0
    <3>1. Ended \subseteq Workers /\ Cardinality(Ended) \in Nat /\ Cardinality(Ended) <= NumWorkers
          /\ (Cardinality(Ended) = NumWorkers => Ended = Workers)
      BY WorkersFinite, FS_Subset, FS_CardinalityType DEF Ended
    <3>2. NumWorkers + Count(results, Done) = Cardinality(Ended) /\ Count(results, Done) \in Nat
      BY <1>0, <2>1, CountType DEF Inv, Counted
    <3> QED BY <3>1, <3>2, Parameters
  <2>4. \A i \in DOMAIN results : results[i] # Done
    BY <1>0, <2>3, CountType DEF Positions
  <2>5. ASSUME NEW v \in Workers PROVE yielded[v] = produced[v]
    <3>1. Positions(results, Rows(v)) = {}
      BY <2>1, <2>3, <2>4 DEF Inv, Followed, Positions
    <3>2. Count(results, Rows(v)) = 0
      BY <1>0, <3>1, CountType
    <3> QED BY <3>2 DEF Inv, Delivered, TypeInv
  <2>6. yielded = produced
    BY <2>5 DEF Inv, TypeInv
  <2>7. ScanIsComplete'
    BY <2>1, <2>3, <2>6 DEF ScanIsComplete, Ended
  <2>8. Starting' /\ NobodyBlocked'
    BY <2>1 DEF Inv, Starting, NobodyBlocked, IsPassed, Collecting
  <2> QED BY <2>1, <2>2, <2>7, <2>8 DEF Inv, Counted, Followed, Collecting
<1> QED BY <1>4, <1>5, <1>6, <1>7, <1>8, <1>9

-----------------------------------------------------------------------------
LEMMA ClosingStepsInv ==
  ASSUME Inv, Join \/ Close \/ CloseSecondaries
  PROVE  Inv'
<1>0. /\ main \in Mains /\ main.at \in Nat /\ NumWorkers \in Nat
      /\ Workers = 0..(NumWorkers - 1) /\ 0 \in Workers
  BY Parameters DEF Inv, TypeInv, Mains, Workers
<1>1. /\ UNCHANGED <<reader, results, produced, yielded>>
      /\ main.pc \in {"join", "close", "secondaries"}
      /\ main'.pc \in {"join", "close", "secondaries", "end"}
      /\ main'.outcome = main.outcome /\ main' \in Mains
  <2>1. CASE main.at = NumWorkers - 1
    BY <1>0, <2>1 DEF Join, Close, CloseSecondaries, Mains
  <2>2. CASE main.at # NumWorkers - 1
    <3>1. main.at + 1 \in Workers
      BY <1>0, <2>2 DEF Mains
    <3> QED BY <1>0, <2>2, <3>1 DEF Join, Close, CloseSecondaries, Mains
  <2> QED BY <2>1, <2>2
<1>2. TypeInv'
  <2>1. main.at \in Workers
    BY <1>0 DEF Mains
  <2>2. open' \in [Workers -> BOOLEAN]
    BY DEF Join, Close, CloseSecondaries, Inv, TypeInv
  <2>3. killed' \subseteq Workers /\ additional' \subseteq Workers
    BY <2>1 DEF Join, Close, CloseSecondaries, Kills, Inv, TypeInv
  <2> QED BY <1>1, <2>2, <2>3 DEF Join, Close, CloseSecondaries, Inv, TypeInv
<1>3. Starting' /\ Delivered'
  BY <1>1, QueueStays DEF Inv, Starting
<1>4. Counted' /\ Followed'
  BY <1>1 DEF Counted, Followed, Collecting
<1>5. ScanIsComplete'
  BY <1>1 DEF Join, Close, CloseSecondaries, Inv, ScanIsComplete, TypeInv
<1>6. NobodyBlocked'
  <2>1. \A w \in Workers : Running(w)' <=> Running(w)
    BY <1>1 DEF Running
  <2>2. CASE Join
    BY <1>0, <2>1, <2>2 DEF Join, NobodyBlocked, IsPassed, Mains
  <2>3. CASE Close
    <3>1. Direct => killed \subseteq killed' /\ (Running(main.at) => main.at \in killed')
      BY <2>3 DEF Close, Kills
    <3>2. \A w \in Workers : IsPassed(w)' => IsPassed(w) \/ w = main.at
      BY <1>0, <2>3 DEF Close, IsPassed, Mains
    <3> QED BY <2>1, <3>1, <3>2 DEF Inv, NobodyBlocked
  <2>4. CASE CloseSecondaries
    BY <2>1, <2>4 DEF CloseSecondaries, Inv, NobodyBlocked, IsPassed
  <2> QED BY <2>2, <2>3, <2>4
<1> QED BY <1>2, <1>3, <1>4, <1>5, <1>6 DEF Inv

LEMMA NextInv == Inv /\ [Next]_vars => Inv'
<1> SUFFICES ASSUME Inv, [Next]_vars PROVE Inv'
  OBVIOUS
<1>1. CASE Spawn \/ InitJoined \/ \E w \in Workers : InitSecondary(w)
  BY <1>1, OpeningStepsInv
<1>2. CASE \E w \in Workers : \/ Ask(w) \/ ReplyBatch(w) \/ ReplyEnd(w) \/ ReadFails(w)
                              \/ CheckStop(w) \/ Cancel(w)
  BY <1>2, ReaderStepsInv
<1>3. CASE CollectRows \/ CollectDone \/ CollectFailure \/ Resume \/ Abandon \/ Complete
  BY <1>3, CollectStepsInv
<1>4. CASE Join \/ Close \/ CloseSecondaries
  BY <1>4, ClosingStepsInv
<1>5. CASE UNCHANGED vars
  BY <1>5 DEF vars, Inv, TypeInv, Starting, Counted, Followed, Delivered, NobodyBlocked, ScanIsComplete,
              Collecting, Ended, Running, IsPassed
<1> QED BY <1>1, <1>2, <1>3, <1>4, <1>5 DEF Next, Consumer, Reader

-----------------------------------------------------------------------------
\* A parallel scan that returns normally gave its consumer every batch of
\* every worker, and every stream had ended by itself (ScanIsComplete), though
\* the completion signals on the queue are only counted.
THEOREM ScansAreComplete == Spec => []ScanIsComplete
<1>1. Inv => ScanIsComplete
  BY DEF Inv
<1> QED BY <1>1, InitInv, NextInv, PTL DEF Spec

\* Over direct subprocesses, no reader is left blocked on the pipe of a living
\* worker when the scan is over, however it ended (NoReaderLeftBlocked).
THEOREM ReadersAreReleased == Direct => (Spec => []NoReaderLeftBlocked)
<1> SUFFICES ASSUME Direct PROVE Spec => []NoReaderLeftBlocked
  OBVIOUS
<1>1. Inv => NoReaderLeftBlocked
  BY DEF Inv, NobodyBlocked, IsPassed, NoReaderLeftBlocked
<1> QED BY <1>1, InitInv, NextInv, PTL DEF Spec
=============================================================================
