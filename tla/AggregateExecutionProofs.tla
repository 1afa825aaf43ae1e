---------------------- MODULE AggregateExecutionProofs ----------------------
(***************************************************************************)
(* Proofs about AggregateExecution, in three parts, one per plan: streamed *)
(* sessions, grouped calls and windowed calls.  Each has an invariant of   *)
(* its own: a step of one plan leaves the state of the others alone.       *)
(*                                                                         *)
(* Sessions are proved for any pool, any number of chunks, any worker for  *)
(* each call and any number of workers that die.  A worker that caches the *)
(* session has served it, and the one that served last caches nothing but  *)
(* what is stored.  So a chunk that comes to a worker with an older state  *)
(* comes back to it, which is what the property excuses.                   *)
(***************************************************************************)
EXTENDS AggregateExecution, SequenceTheorems, TLAPS

SessionTypeInv ==
  /\ cache \in [Workers -> Sessions]
  /\ stored \in Sessions
  /\ call \in Calls \cup {None}
  /\ sent \in 0..MaxChunks
  /\ client \in {"opening", "open", "failed", "closed"}

\* The chunks the client has an answer to.
Answered == DOMAIN answers

\* Worker w served one of the calls 0..n; it did, and the session left it.
Served(w, n) == \E i \in 0..n : servers[i] = w
Left(w, n) == \E i, j \in 0..n : i < j /\ servers[i] = w /\ servers[j] # w

\* n chunks are answered, and only workers that served them cache the session.
ServedBy(others, n) ==
  /\ servers \in [0..n -> Workers]
  /\ \A w \in others : cache[w] # None => Served(w, n)

\* What is stored has every chunk, and the last worker hides nothing of it.
UpToDate(n) == stored = 1..n /\ cache[servers[n]] \in {None, 1..n}

Opening ==
  /\ client = "opening" =>
       /\ sent = 0
       /\ call # None => call.op = "open"
       /\ \A w \in Workers : cache[w] # None => (call # None /\ call.worker = w)
  /\ (call # None /\ call.op = "open") =>
       client = "opening" /\ (call.step = "persist" => cache[call.worker] = {})

Ready == client = "open" /\ call = None =>
  ServedBy(Workers, sent) /\ (Returned(sent) \/ UpToDate(sent))

\* The state a chunk works on, before and after it is folded.
Current(w, n) ==
  cache[w] # None /\ (Returned(sent - 1) \/ Left(w, sent - 1) \/ cache[w] = 1..n)

Chunking == (call # None /\ call.op = "chunk") =>
  /\ client = "open" /\ sent > 0 /\ Answered \subseteq 1..(sent - 1)
  /\ ServedBy(Workers \ {call.worker}, sent - 1)
  /\ call.step = "load" =>
       ServedBy(Workers, sent - 1) /\ (Returned(sent - 1) \/ UpToDate(sent - 1))
  /\ call.step = "fold" => Current(call.worker, sent - 1)
  /\ call.step = "persist" => Current(call.worker, sent)

SessionInv ==
  /\ SessionTypeInv /\ Answered \subseteq 1..sent
  /\ Opening /\ Ready /\ Chunking /\ MissesOnlyOnReturn

-----------------------------------------------------------------------------
LEMMA AtCall ==
  ASSUME NEW w, NEW op, NEW step, At(w, op, step)
  PROVE  call # None /\ call.worker = w /\ call.op = op /\ call.step = step
  BY DEF At

LEMMA SessionInitInv == SessionInit => SessionInv
<1> SUFFICES ASSUME SessionInit PROVE SessionInv
  OBVIOUS
<1>1. SessionTypeInv
  BY SessionParameters DEF SessionInit, SessionTypeInv, Sessions
<1>2. Answered = {}
  BY DEF SessionInit, Answered
<1>3. Opening /\ Ready /\ Chunking
  BY DEF SessionInit, Opening, Ready, Chunking
<1>4. MissesOnlyOnReturn
  BY <1>2 DEF MissesOnlyOnReturn, Answered
<1> QED BY <1>1, <1>2, <1>3, <1>4 DEF SessionInv

\* The servers and the answers stay: so does all that is said of them.
LEMMA HistoryKept ==
  ASSUME UNCHANGED <<answers, servers>>
  PROVE  /\ Answered' = Answered /\ (MissesOnlyOnReturn => MissesOnlyOnReturn')
         /\ \A n : (Returned(n) <=> Returned(n)')
         /\ \A w, n : (Served(w, n) <=> Served(w, n)') /\ (Left(w, n) <=> Left(w, n)')
  BY DEF Answered, MissesOnlyOnReturn, Returned, Served, Left

\* By call n of a session that workers s served, it came back to a worker, or
\* had been served by w, or had left it.
CameBack(s, n) == \E i, j, l \in 0..n : i < j /\ j < l /\ s[i] = s[l] /\ s[j] # s[i]
ServedIn(s, w, n) == \E i \in 0..n : s[i] = w
LeftIn(s, w, n) == \E i, j \in 0..n : i < j /\ s[i] = w /\ s[j] # w

\* One more call is answered, by worker w.
Extended(s, n, w) == [k \in DOMAIN s \cup {n + 1} |-> IF k = n + 1 THEN w ELSE s[k]]

LEMMA ServerAdded ==
  ASSUME NEW n \in Nat, NEW w \in Workers, NEW s \in [0..n -> Workers]
  PROVE  LET z == Extended(s, n, w) IN
         /\ z \in [0..(n + 1) -> Workers] /\ z[n + 1] = w
         /\ \A k \in 0..n : (CameBack(s, k) <=> CameBack(z, k))
         /\ CameBack(s, n) \/ LeftIn(s, w, n) => CameBack(z, n + 1)
         /\ \A v : ServedIn(s, v, n) => ServedIn(z, v, n + 1)
         /\ ServedIn(z, w, n + 1)
<1> DEFINE z == Extended(s, n, w)
<1>1. z \in [0..(n + 1) -> Workers] /\ z[n + 1] = w /\ \A k \in 0..n : z[k] = s[k]
  BY DEF Extended
<1> HIDE DEF z
<1>2. ASSUME NEW k \in 0..n PROVE CameBack(s, k) <=> CameBack(z, k)
  <2>1. \A i \in 0..k : z[i] = s[i]
    BY <1>1
  <2>2. ASSUME CameBack(s, k) PROVE CameBack(z, k)
    <3>1. PICK i \in 0..k, j \in 0..k, l \in 0..k : i < j /\ j < l /\ s[i] = s[l] /\ s[j] # s[i]
      BY <2>2 DEF CameBack
    <3>2. z[i] = z[l] /\ z[j] # z[i]
      BY <2>1, <3>1
    <3> QED BY <3>1, <3>2 DEF CameBack
  <2>3. ASSUME CameBack(z, k) PROVE CameBack(s, k)
    <3>1. PICK i \in 0..k, j \in 0..k, l \in 0..k : i < j /\ j < l /\ z[i] = z[l] /\ z[j] # z[i]
      BY <2>3 DEF CameBack
    <3>2. s[i] = s[l] /\ s[j] # s[i]
      BY <2>1, <3>1
    <3> QED BY <3>1, <3>2 DEF CameBack
  <2> QED BY <2>2, <2>3
<1>3. ASSUME CameBack(s, n) PROVE CameBack(z, n + 1)
  <2>1. PICK i \in 0..n, j \in 0..n, l \in 0..n : i < j /\ j < l /\ s[i] = s[l] /\ s[j] # s[i]
    BY <1>3 DEF CameBack
  <2>2. /\ i \in 0..(n + 1) /\ j \in 0..(n + 1) /\ l \in 0..(n + 1)
        /\ z[i] = z[l] /\ z[j] # z[i]
    BY <1>1, <2>1
  <2> QED BY <2>1, <2>2 DEF CameBack
<1>4. ASSUME LeftIn(s, w, n) PROVE CameBack(z, n + 1)
  <2>1. PICK i \in 0..n, j \in 0..n : i < j /\ s[i] = w /\ s[j] # w
    BY <1>4 DEF LeftIn
  <2>2. /\ i \in 0..(n + 1) /\ j \in 0..(n + 1) /\ n + 1 \in 0..(n + 1) /\ i < j /\ j < n + 1
        /\ z[i] = z[n + 1] /\ z[j] # z[i]
    BY <1>1, <2>1
  <2> QED BY <2>2 DEF CameBack
<1>5. ASSUME NEW v, ServedIn(s, v, n) PROVE ServedIn(z, v, n + 1)
  BY <1>1, <1>5 DEF ServedIn
<1>6. ServedIn(z, w, n + 1)
  <2>1. n + 1 \in 0..(n + 1)
    OBVIOUS
  <2> QED BY <1>1, <2>1 DEF ServedIn
<1> QED BY <1>1, <1>2, <1>3, <1>4, <1>5, <1>6 DEF z

-----------------------------------------------------------------------------
\* A request comes to a worker.
LEMMA Requested ==
  ASSUME NEW w \in Workers, NEW op \in {"open", "chunk", "close"},
         NEW step \in {"cache", "load", "pop"}, Request(w, op, step)
  PROVE  /\ call = None
         /\ call' \in Calls /\ call' # None
         /\ call'.worker = w /\ call'.op = op /\ call'.step = step
<1>1. call' = [worker |-> w, op |-> op, step |-> step]
  BY DEF Request
<1>2. call' \in Calls
  BY <1>1 DEF Calls
<1> QED BY <1>1, <1>2, SessionsAreApart DEF Request

\* A call goes on, or is over.
LEMMA Stepped ==
  ASSUME call \in Calls, NEW step \in {"fold", "persist", "delete"}, call' = [call EXCEPT !.step = step]
  PROVE  /\ call' \in Calls /\ call' # None
         /\ call'.worker = call.worker /\ call'.op = call.op /\ call'.step = step
<1>1. call' \in Calls /\ call'.worker = call.worker /\ call'.op = call.op /\ call'.step = step
  BY DEF Calls
<1> QED BY <1>1, SessionsAreApart

LEMMA OpenStepsInv ==
  ASSUME SessionInv, NEW w \in Workers, Open(w) \/ OpenCache(w) \/ OpenPersist(w)
  PROVE  SessionInv'
<1> USE SessionsAreApart, SessionParameters
<1>0. ASSUME NEW step, At(w, "open", step)
      PROVE  /\ call # None /\ call \in Calls /\ call.worker = w /\ call.op = "open" /\ call.step = step
             /\ client = "opening" /\ sent = 0
             /\ \A v \in Workers : cache[v] # None => v = w
  <2>1. call # None /\ call.worker = w /\ call.op = "open" /\ call.step = step
    BY <1>0, AtCall
  <2>2. client = "opening" /\ call \in Calls
    BY <2>1 DEF SessionInv, SessionTypeInv, Opening
  <2> QED BY <2>1, <2>2 DEF SessionInv, Opening
<1>1. CASE Open(w)
  <2>1. SessionTypeInv' /\ (Answered \subseteq 1..sent)' /\ MissesOnlyOnReturn'
    BY <1>1, Requested, HistoryKept DEF Open, SessionInv, SessionTypeInv
  <2>2. Opening'
    BY <1>1, Requested DEF Open, SessionInv, Opening
  <2>3. Ready' /\ Chunking'
    BY <1>1, Requested DEF Open, Ready, Chunking
  <2> QED BY <2>1, <2>2, <2>3 DEF SessionInv
<1>2. CASE OpenCache(w)
  <2>1. /\ call # None /\ call \in Calls /\ call.worker = w /\ call.op = "open"
        /\ client = "opening" /\ sent = 0 /\ \A v \in Workers : cache[v] # None => v = w
    BY <1>0, <1>2 DEF OpenCache
  <2>2. /\ call' \in Calls /\ call' # None /\ call'.worker = w /\ call'.op = "open" /\ call'.step = "persist"
        /\ UNCHANGED <<stored, sent, client, answers, servers>>
    BY <1>2, <2>1, Stepped DEF OpenCache
  <2>3. cache' \in [Workers -> Sessions] /\ cache'[w] = {} /\ \A v \in Workers : cache'[v] # None => v = w
    BY <1>2, <2>1 DEF OpenCache, SessionInv, SessionTypeInv, Sessions
  <2>4. SessionTypeInv' /\ (Answered \subseteq 1..sent)' /\ MissesOnlyOnReturn'
    BY <2>2, <2>3, HistoryKept DEF SessionInv, SessionTypeInv
  <2>5. Opening' /\ Ready' /\ Chunking'
    BY <2>1, <2>2, <2>3 DEF Opening, Ready, Chunking
  <2> QED BY <2>4, <2>5 DEF SessionInv
<1>3. CASE OpenPersist(w)
  <2>1. /\ call.worker = w /\ cache[w] = {} /\ client = "opening" /\ sent = 0
        /\ \A v \in Workers : cache[v] # None => v = w
    BY <1>0, <1>3 DEF OpenPersist, SessionInv, Opening
  <2>2. /\ stored' = {} /\ call' = None /\ client' = "open" /\ sent' = 0 /\ cache' = cache
        /\ servers' = [k \in {0} |-> w] /\ answers' = answers
    BY <1>3, <2>1 DEF OpenPersist, Return
  <2>3. {} = 1..0 /\ 0..0 = {0}
    OBVIOUS
  <2>4. Answered = {} /\ Answered' = {}
    BY <2>1, <2>2, <2>3 DEF SessionInv, Answered
  <2>5. SessionTypeInv' /\ (Answered \subseteq 1..sent)' /\ MissesOnlyOnReturn'
    BY <2>2, <2>4 DEF SessionInv, SessionTypeInv, Sessions, MissesOnlyOnReturn, Answered
  <2>6. servers' \in [0..sent' -> Workers] /\ servers'[sent'] = w /\ Served(w, sent)'
    BY <2>2, <2>3 DEF Served
  <2>7. Ready'
    BY <2>1, <2>2, <2>3, <2>6 DEF Ready, ServedBy, UpToDate
  <2>8. Opening' /\ Chunking'
    BY <2>2 DEF Opening, Chunking
  <2> QED BY <2>5, <2>7, <2>8 DEF SessionInv
<1> QED BY <1>1, <1>2, <1>3

-----------------------------------------------------------------------------
LEMMA UpTo == ASSUME NEW n \in Nat, n > 0 PROVE 1..(n - 1) \cup {n} = 1..n
  OBVIOUS

LEMMA ChunkStepsInv ==
  ASSUME SessionInv, NEW w \in Workers,
         Chunk(w) \/ ChunkLoad(w) \/ ChunkFold(w) \/ ChunkPersist(w) \/ ChunkRaises(w)
  PROVE  SessionInv'
<1> USE SessionsAreApart, SessionParameters
<1>0. ASSUME NEW step, At(w, "chunk", step)
      PROVE  /\ call # None /\ call \in Calls /\ call.worker = w /\ call.op = "chunk" /\ call.step = step
             /\ client = "open" /\ sent > 0 /\ sent \in Nat /\ sent - 1 \in Nat
             /\ Answered \subseteq 1..(sent - 1) /\ ServedBy(Workers \ {w}, sent - 1)
  BY <1>0, AtCall DEF SessionInv, SessionTypeInv, Chunking
<1>1. CASE Chunk(w)
  <2>1. /\ ServedBy(Workers, sent) /\ (Returned(sent) \/ UpToDate(sent))
        /\ sent' = sent + 1 /\ sent \in Nat /\ sent' \in 0..MaxChunks /\ sent' - 1 = sent
        /\ client = "open" /\ UNCHANGED <<cache, stored, client, answers, servers>>
    BY <1>1 DEF Chunk, Request, SessionInv, Ready, SessionTypeInv
  <2>2. call' \in Calls /\ call' # None /\ call'.worker = w /\ call'.op = "chunk" /\ call'.step = "load"
    BY <1>1, Requested DEF Chunk
  <2>3. SessionTypeInv' /\ (Answered \subseteq 1..sent)' /\ MissesOnlyOnReturn'
    BY <2>1, <2>2, HistoryKept DEF SessionInv, SessionTypeInv
  <2>4. Opening' /\ Ready'
    BY <2>1, <2>2 DEF Opening, Ready
  <2>5. Chunking'
    <3>1. (ServedBy(Workers, sent - 1))' /\ (Returned(sent - 1) \/ UpToDate(sent - 1))'
      BY <2>1, HistoryKept DEF ServedBy, UpToDate, Served, Returned
    <3>2. (ServedBy(Workers \ {call.worker}, sent - 1))'
      BY <3>1 DEF ServedBy
    <3>3. (Answered \subseteq 1..(sent - 1))'
      BY <2>1, HistoryKept DEF SessionInv
    <3> QED BY <2>1, <2>2, <3>1, <3>2, <3>3 DEF Chunking
  <2> QED BY <2>3, <2>4, <2>5 DEF SessionInv
<1>2. CASE ChunkLoad(w)
  <2>0. /\ At(w, "chunk", "load") /\ UNCHANGED <<stored, sent, answers, servers>>
    BY <1>2 DEF ChunkLoad
  <2>1. ServedBy(Workers, sent - 1) /\ (Returned(sent - 1) \/ UpToDate(sent - 1))
    BY <1>0, <2>0 DEF SessionInv, Chunking
  <2>2. CASE Session(w) = None
    <3>1. call' = None /\ client' = "failed" /\ cache' = cache
      BY <1>2, <2>2 DEF ChunkLoad, Return
    <3>2. SessionTypeInv' /\ (Answered \subseteq 1..sent)' /\ MissesOnlyOnReturn'
      BY <2>0, <3>1, HistoryKept DEF SessionInv, SessionTypeInv
    <3> QED BY <3>1, <3>2 DEF SessionInv, Opening, Ready, Chunking
  <2>3. CASE Session(w) # None
    <3>1. /\ cache' = [cache EXCEPT ![w] = Session(w)] /\ client' = client
          /\ call' = [call EXCEPT !.step = "fold"]
      BY <1>2, <2>3 DEF ChunkLoad
    <3>2. call' \in Calls /\ call' # None /\ call'.worker = w /\ call'.op = "chunk" /\ call'.step = "fold"
      BY <1>0, <2>0, <3>1, Stepped
    <3>3. /\ cache' \in [Workers -> Sessions] /\ cache'[w] = Session(w)
          /\ \A v \in Workers \ {w} : cache'[v] = cache[v]
      BY <3>1 DEF SessionInv, SessionTypeInv, Session
    <3>0. cache'[w] # None
      BY <2>3, <3>3
    <3>4. Returned(sent - 1) \/ Left(w, sent - 1) \/ Session(w) = 1..(sent - 1)
      <4> SUFFICES ASSUME UpToDate(sent - 1) PROVE Left(w, sent - 1) \/ Session(w) = 1..(sent - 1)
        BY <2>1
      <4>1. CASE cache[w] = None
        BY <4>1 DEF UpToDate, Session
      <4>2. CASE cache[w] # None /\ servers[sent - 1] = w
        BY <4>2 DEF UpToDate, Session
      <4>3. CASE cache[w] # None /\ servers[sent - 1] # w
        <5>1. PICK i \in 0..(sent - 1) : servers[i] = w
          BY <2>1, <4>3 DEF ServedBy, Served
        <5>2. i < sent - 1 /\ sent - 1 \in 0..(sent - 1)
          BY <1>0, <2>0, <4>3, <5>1
        <5> QED BY <4>3, <5>1, <5>2 DEF Left
      <4> QED BY <4>1, <4>2, <4>3
    <3>5. SessionTypeInv' /\ (Answered \subseteq 1..sent)' /\ MissesOnlyOnReturn'
      BY <2>0, <3>1, <3>2, <3>3, HistoryKept DEF SessionInv, SessionTypeInv
    <3>6. (Current(w, sent - 1))' /\ (ServedBy(Workers \ {w}, sent - 1))'
      BY <2>0, <2>1, <3>0, <3>3, <3>4 DEF Current, ServedBy, Served, Left, Returned
    <3>7. (Answered \subseteq 1..(sent - 1))'
      BY <1>0, <2>0, HistoryKept
    <3>8. Chunking'
      BY <1>0, <2>0, <3>1, <3>2, <3>6, <3>7 DEF Chunking
    <3>9. Opening' /\ Ready'
      BY <1>0, <2>0, <3>1, <3>2 DEF Opening, Ready
    <3> QED BY <3>5, <3>8, <3>9 DEF SessionInv
  <2> QED BY <2>2, <2>3
<1>3. CASE ChunkFold(w)
  <2>0. /\ At(w, "chunk", "fold") /\ UNCHANGED <<stored, sent, client, answers, servers>>
        /\ cache' = [cache EXCEPT ![w] = cache[w] \cup {sent}] /\ call' = [call EXCEPT !.step = "persist"]
    BY <1>3 DEF ChunkFold
  <2>1. call' \in Calls /\ call' # None /\ call'.worker = w /\ call'.op = "chunk" /\ call'.step = "persist"
    BY <1>0, <2>0, Stepped
  <2>2. Current(w, sent - 1) /\ cache[w] # None /\ sent \in Chunks
    BY <1>0, <2>0 DEF SessionInv, Chunking, Current, SessionTypeInv, Chunks
  <2>3. /\ cache' \in [Workers -> Sessions] /\ \A v \in Workers \ {w} : cache'[v] = cache[v]
        /\ cache'[w] = cache[w] \cup {sent}
    BY <2>0, <2>2 DEF SessionInv, SessionTypeInv, Sessions
  <2>4. cache[w] = 1..(sent - 1) => cache'[w] = 1..sent
    BY <1>0, <2>0, <2>3, UpTo
  <2>5. (Current(w, sent))' /\ (ServedBy(Workers \ {w}, sent - 1))'
    <3>1. cache'[w] # None
      <4>1. cache[w] \in SUBSET Chunks
        BY <2>2 DEF SessionInv, SessionTypeInv, Sessions
      <4> QED BY <2>2, <2>3, <4>1
    <3>2. (Returned(sent - 1) <=> Returned(sent - 1)') /\ (Left(w, sent - 1) <=> Left(w, sent - 1)')
      BY <2>0 DEF Returned, Left
    <3>3. (Current(w, sent))'
      BY <2>0, <2>2, <2>4, <3>1, <3>2 DEF Current
    <3>4. (ServedBy(Workers \ {w}, sent - 1))'
      BY <1>0, <2>0, <2>3 DEF ServedBy, Served
    <3> QED BY <3>3, <3>4
  <2>6. SessionTypeInv' /\ (Answered \subseteq 1..sent)' /\ (Answered \subseteq 1..(sent - 1))'
        /\ MissesOnlyOnReturn'
    BY <1>0, <2>0, <2>1, <2>3, HistoryKept DEF SessionInv, SessionTypeInv
  <2>7. Opening' /\ Ready' /\ Chunking'
    BY <1>0, <2>0, <2>1, <2>5, <2>6 DEF Opening, Ready, Chunking
  <2> QED BY <2>6, <2>7 DEF SessionInv
<1>4. CASE ChunkPersist(w)
  <2>0. /\ At(w, "chunk", "persist") /\ stored' = cache[w] /\ call' = None /\ client' = "open"
        /\ answers' = [k \in DOMAIN answers \cup {sent} |-> IF k = sent THEN cache[w] ELSE answers[k]]
        /\ servers' = [k \in DOMAIN servers \cup {sent} |-> IF k = sent THEN w ELSE servers[k]]
        /\ UNCHANGED <<cache, sent>>
    BY <1>4 DEF ChunkPersist, Return
  <2> PICK n \in Int : n = sent - 1
    BY <1>0, <2>0
  <2>1. /\ n \in Nat /\ n + 1 = sent /\ Answered \subseteq 1..n /\ ServedBy(Workers \ {w}, n)
        /\ Current(w, sent) /\ servers \in [0..n -> Workers]
    BY <1>0, <2>0 DEF SessionInv, Chunking, ServedBy
  <2>2. /\ servers' \in [0..sent -> Workers] /\ servers'[sent] = w
        /\ \A k \in 0..n : (Returned(k) <=> Returned(k)')
        /\ Returned(n) \/ Left(w, n) => Returned(n + 1)'
        /\ \A v : Served(v, n) => Served(v, n + 1)'
        /\ Served(w, n + 1)'
    <3>1. servers' = Extended(servers, n, w)
      BY <2>0, <2>1 DEF Extended
    <3>2. /\ servers' \in [0..(n + 1) -> Workers] /\ servers'[n + 1] = w
          /\ \A k \in 0..n : (CameBack(servers, k) <=> CameBack(servers', k))
          /\ CameBack(servers, n) \/ LeftIn(servers, w, n) => CameBack(servers', n + 1)
          /\ \A v : ServedIn(servers, v, n) => ServedIn(servers', v, n + 1)
          /\ ServedIn(servers', w, n + 1)
      BY <2>1, <3>1, ServerAdded
    <3>3. /\ \A k : (Returned(k) <=> CameBack(servers, k)) /\ (Returned(k)' <=> CameBack(servers', k))
          /\ \A v, k : Left(v, k) <=> LeftIn(servers, v, k)
          /\ \A v, k : /\ Served(v, k) <=> ServedIn(servers, v, k)
                       /\ Served(v, k)' <=> ServedIn(servers', v, k)
      BY Zenon DEF Returned, CameBack, Left, LeftIn, Served, ServedIn
    <3> QED BY <2>1, <3>2, <3>3
  <2>3. Returned(n + 1)' \/ cache[w] = 1..sent
    BY <2>1, <2>2 DEF Current
  <2>4. /\ Answered' = Answered \cup {sent} /\ answers'[sent] = cache[w]
        /\ \A k \in Answered : k # sent /\ k \in 0..n /\ answers'[k] = answers[k]
    BY <2>0, <2>1 DEF Answered
  <2>5. SessionTypeInv' /\ (Answered \subseteq 1..sent)'
    BY <1>0, <2>0, <2>4 DEF SessionInv, SessionTypeInv
  <2>6. MissesOnlyOnReturn'
    <3> SUFFICES ASSUME NEW k \in Answered' PROVE answers'[k] = 1..k \/ Returned(k)'
      BY DEF MissesOnlyOnReturn, Answered
    <3>1. CASE k = sent
      BY <2>1, <2>3, <2>4, <3>1
    <3>2. CASE k \in Answered
      BY <2>2, <2>4, <3>2 DEF SessionInv, MissesOnlyOnReturn, Answered
    <3> QED BY <2>4, <3>1, <3>2
  <2>7. Ready'
    <3>1. \A v \in Workers : cache[v] # None => Served(v, n + 1)'
      BY <2>1, <2>2 DEF ServedBy
    <3>2. (ServedBy(Workers, sent))'
      BY <2>0, <2>1, <2>2, <3>1 DEF ServedBy
    <3>3. (Returned(sent) \/ UpToDate(sent))'
      BY <2>0, <2>1, <2>2, <2>3 DEF UpToDate
    <3> QED BY <3>2, <3>3 DEF Ready
  <2>8. Opening' /\ Chunking'
    BY <2>0 DEF Opening, Chunking
  <2> QED BY <2>5, <2>6, <2>7, <2>8 DEF SessionInv
<1>5. CASE ChunkRaises(w)
  <2>1. call' = None /\ client' = "failed" /\ UNCHANGED <<cache, stored, sent, answers, servers>>
    BY <1>5 DEF ChunkRaises, Return
  <2>2. SessionTypeInv' /\ (Answered \subseteq 1..sent)' /\ MissesOnlyOnReturn'
    BY <2>1, HistoryKept DEF SessionInv, SessionTypeInv
  <2> QED BY <2>1, <2>2 DEF SessionInv, Opening, Ready, Chunking
<1> QED BY <1>1, <1>2, <1>3, <1>4, <1>5

-----------------------------------------------------------------------------
\* A close touches neither the answers nor who gave them.
LEMMA CloseStepsInv ==
  ASSUME SessionInv, NEW w \in Workers,
         Close(w) \/ ClosePop(w) \/ CloseLoad(w) \/ CloseDelete(w)
  PROVE  SessionInv'
<1> USE SessionsAreApart
<1>1. UNCHANGED <<sent, answers, servers>> /\ cache' \in [Workers -> Sessions] /\ stored' \in Sessions
  BY DEF Close, ClosePop, CloseLoad, CloseDelete, SessionInv, SessionTypeInv, Sessions
<1>2. \/ call' = None /\ client' = "closed"
      \/ /\ call' \in Calls /\ call' # None /\ call'.op = "close"
         /\ client' = client /\ client # "opening"
  <2>1. CASE Close(w)
    BY <2>1, Requested DEF Close
  <2>2. CASE CloseDelete(w)
    BY <2>2 DEF CloseDelete, Return
  <2>3. CASE ClosePop(w) \/ CloseLoad(w)
    <3>0. At(w, "close", "pop")
      BY <2>3 DEF ClosePop, CloseLoad
    <3>1. call # None /\ call \in Calls /\ call.op = "close" /\ client # "opening"
      BY <3>0, AtCall DEF SessionInv, SessionTypeInv, Opening
    <3>2. \/ call' = None /\ client' = "closed"
          \/ call' = [call EXCEPT !.step = "delete"] /\ client' = client
      BY <2>3 DEF ClosePop, CloseLoad, Return
    <3> QED BY <3>1, <3>2, Stepped
  <2> QED BY <2>1, <2>2, <2>3
<1>3. SessionTypeInv' /\ (Answered \subseteq 1..sent)' /\ MissesOnlyOnReturn'
  BY <1>1, <1>2, HistoryKept DEF SessionInv, SessionTypeInv
<1>4. Opening' /\ Ready' /\ Chunking'
  BY <1>2 DEF Opening, Ready, Chunking
<1> QED BY <1>3, <1>4 DEF SessionInv

-----------------------------------------------------------------------------
\* A worker that dies empties its cache, which hides nothing that is stored.
LEMMA CrashInv ==
  ASSUME SessionInv, NEW w \in Workers, Crash(w)
  PROVE  SessionInv'
<1> USE SessionsAreApart, SessionParameters
<1>1. /\ cache' \in [Workers -> Sessions]
      /\ \A v \in Workers : cache'[v] \in {None, cache[v]} /\ (v # w => cache'[v] = cache[v])
      /\ UNCHANGED <<stored, sent, answers, servers>>
  BY DEF Crash, SessionInv, SessionTypeInv, Sessions
<1>2. (Answered \subseteq 1..sent)' /\ MissesOnlyOnReturn'
  BY <1>1, HistoryKept DEF SessionInv
<1>3. CASE Serving(w)
  <2>1. call' = None /\ client' \in {"failed", "closed"}
    BY <1>3 DEF Crash, Return
  <2>2. SessionTypeInv' /\ Opening' /\ Ready' /\ Chunking'
    BY <1>1, <2>1 DEF SessionInv, SessionTypeInv, Opening, Ready, Chunking
  <2> QED BY <1>2, <2>2 DEF SessionInv
<1>4. CASE ~Serving(w)
  <2>1. UNCHANGED <<call, client>> /\ (call # None => call.worker # w /\ call.worker \in Workers)
    BY <1>4 DEF Serving, Crash, SessionInv, SessionTypeInv, Calls
  <2>2. call # None => cache'[call.worker] = cache[call.worker]
    BY <1>1, <2>1
  <2>3. SessionTypeInv' /\ Opening'
    BY <1>1, <2>1, <2>2 DEF SessionInv, SessionTypeInv, Opening
  <2>4. ASSUME NEW others \in SUBSET Workers, NEW n, ServedBy(others, n) PROVE ServedBy(others, n)'
    BY <1>1, <2>4 DEF ServedBy, Served
  <2>5. ASSUME NEW n \in Nat, ServedBy(Workers, n), Returned(n) \/ UpToDate(n)
        PROVE  (Returned(n) \/ UpToDate(n))'
    <3>1. cache'[servers[n]] \in {None, cache[servers[n]]}
      BY <1>1, <2>5 DEF ServedBy
    <3> QED BY <1>1, <2>5, <3>1 DEF UpToDate, Returned
  <2>6. Ready'
    BY <1>1, <2>1, <2>4, <2>5 DEF SessionInv, Ready, SessionTypeInv
  <2>7. Chunking'
    <3> SUFFICES ASSUME call # None, call.op = "chunk" PROVE Chunking'
      BY <2>1 DEF Chunking
    <3>1. sent \in Nat /\ sent > 0 /\ sent - 1 \in Nat /\ Chunking
      BY DEF SessionInv, SessionTypeInv, Chunking
    <3>2. (ServedBy(Workers \ {call.worker}, sent - 1))'
      BY <1>1, <2>1, <2>4, <3>1 DEF Chunking, ServedBy, Served
    <3>3. call.step = "load" =>
            (ServedBy(Workers, sent - 1))' /\ (Returned(sent - 1) \/ UpToDate(sent - 1))'
      BY <1>1, <2>4, <2>5, <3>1 DEF Chunking, ServedBy, Served, UpToDate, Returned
    <3>4. ASSUME NEW n, Current(call.worker, n) PROVE Current(call.worker, n)'
      BY <1>1, <2>1, <2>2, <3>4 DEF Current, Returned, Left
    <3>5. (Answered \subseteq 1..(sent - 1))'
      BY <1>1, <3>1, HistoryKept DEF Chunking
    <3> QED BY <1>1, <2>1, <3>1, <3>2, <3>3, <3>4, <3>5 DEF Chunking
  <2> QED BY <1>2, <2>3, <2>6, <2>7 DEF SessionInv
<1> QED BY <1>3, <1>4

LEMMA SessionNextInv == ASSUME SessionInv, [SessionNext]_sessionVars PROVE SessionInv'
<1>1. CASE SessionNext
  BY <1>1, OpenStepsInv, ChunkStepsInv, CloseStepsInv, CrashInv DEF SessionNext, Step
<1>2. CASE UNCHANGED sessionVars
  <2>1. SessionTypeInv' /\ (Answered \subseteq 1..sent)' /\ MissesOnlyOnReturn'
    BY <1>2, HistoryKept DEF sessionVars, SessionInv, SessionTypeInv
  <2>2. Opening' /\ Ready' /\ Chunking'
    BY <1>2 DEF sessionVars, SessionInv, Opening, Ready, Chunking, ServedBy, UpToDate, Current,
                Served, Left, Returned, Answered
  <2> QED BY <2>1, <2>2 DEF SessionInv
<1> QED BY <1>1, <1>2

-----------------------------------------------------------------------------
\* Only a streamed call steps a session.
LEMMA StepsASession == ASSUME [Next]_vars PROVE [SessionNext]_sessionVars
<1>1. CASE UNCHANGED vars
  BY <1>1 DEF vars, sessionVars
<1>2. CASE Streamed
  BY <1>2 DEF Streamed
<1>3. ASSUME NEW t \in Threads,
             \/ \E b \in Batch : UpdateLoad(t, b)
             \/ UpdateStore(t) \/ UpdateFails(t) \/ CombinePairs(t)
      PROVE  UNCHANGED sessionVars
  BY <1>3 DEF UpdateLoad, UpdateStore, UpdateFails, CombinePairs, sessionVars
<1>4. ASSUME \/ \E from \in SUBSET Threads : CombineLoad(from)
             \/ CombineStore \/ CombineFails \/ \E chunk \in SUBSET Keys : Finalize(chunk)
      PROVE  UNCHANGED sessionVars
  BY <1>4 DEF CombineLoad, CombineStore, CombineFails, Finalize, sessionVars
<1>5. ASSUME NEW w \in Workers, NEW p \in Partitions,
             WindowInit(w, p) \/ WindowCached(w, p) \/ WindowLoaded(w, p) \/ WindowDestroy(w, p)
      PROVE  UNCHANGED sessionVars
  BY <1>5 DEF WindowInit, WindowCached, WindowLoaded, WindowDestroy, sessionVars
<1>6. ASSUME NEW p \in Partitions, WindowInitFails(p) \/ WindowDestroyFails(p)
      PROVE  UNCHANGED sessionVars
  BY <1>6 DEF WindowInitFails, WindowDestroyFails, sessionVars
<1>7. ASSUME NEW w \in Workers, Restart(w) \/ DestroyOn(w)
      PROVE  UNCHANGED sessionVars
  BY <1>7 DEF Restart, DestroyOn, Destroy, sessionVars
<1>8. ASSUME CallerFails \/ DestroyGroups
      PROVE  UNCHANGED sessionVars
  BY <1>8 DEF CallerFails, DestroyGroups, Destroy, sessionVars
<1> QED BY <1>1, <1>2, <1>3, <1>4, <1>5, <1>6, <1>7, <1>8 DEF Next

\* Whichever workers serve the calls and die, a chunk misses no earlier chunk
\* before the session has returned to a worker it had left
\* (aggregate_streaming_open, aggregate_streaming_chunk).
THEOREM ChunksMissOnlyOnReturn == Spec => []MissesOnlyOnReturn
<1>1. Init => SessionInv
  BY SessionInitInv DEF Init
<1>2. SessionInv /\ [Next]_vars => SessionInv'
  BY SessionNextInv, StepsASession
<1>3. SessionInv => MissesOnlyOnReturn
  BY DEF SessionInv
<1> QED BY <1>1, <1>2, <1>3, PTL DEF Spec

-----------------------------------------------------------------------------
(* Grouped calls.                                                          *)

\* The saved rows of some threads for a key, and the stored state they make.
RowsOf(threads, k) == {r \in Saved(k) : r[1] \in threads}
StateOf(rows) == IF rows = {} THEN None ELSE SetToBag(rows)

GroupTypes ==
  /\ team \subseteq Threads /\ merged \subseteq team
  /\ fed \in [Threads -> 0..Batches] /\ met \in [Threads -> SUBSET Keys]
  /\ groupRow \in [Owners \X Keys -> States \cup {None}]
  /\ update \in [Threads -> [Keys -> States \cup {None}] \cup {None}]
  /\ folded \in [Keys -> SUBSET Rows] /\ assigned \in [Keys -> SUBSET Rows]
  /\ merge # None =>
       merge \in [from : SUBSET team, left : SUBSET team, states : [Owners \X Keys -> States \cup {None}]]

\* A thread folds no row twice, and assigns a state after folding a row.
RowsAreFed ==
  \A k \in Keys :
    assigned[k] \subseteq folded[k] /\ \A r \in folded[k] : r[1] \in team /\ r[2] <= fed[r[1]]

\* A thread's groups are stored, or about to be.
StoredOrPending(t, k) ==
  LET whole == StateOf(RowsOf({t}, k))
  IN  IF update[t] = None \/ update[t][k] = None THEN groupRow[Group(t, k)] = whole
      ELSE update[t][k] = whole

\* The target of a key holds the rows of the merged threads.
TargetsHoldMerged == \A k \in Keys : groupRow[Group(None, k)] = StateOf(RowsOf(merged, k))

\* A combine holds whole groups, and the targets what it has merged of them.
CombineHolds ==
  merge # None =>
    /\ merge.from \cap merged = {} /\ merge.left \subseteq merge.from
    /\ \A t \in merge.from : update[t] = None
    /\ \A t \in merge.left, k \in Keys : merge.states[Group(t, k)] = StateOf(RowsOf({t}, k))
    /\ \A k \in Keys : merge.states[Group(None, k)]
                        = StateOf(RowsOf(merged \cup (merge.from \ merge.left), k))

GroupsInv ==
  /\ GroupTypes /\ RowsAreFed /\ CombineHolds /\ GroupsAreWhole
  /\ Running("grouped") => TargetsHoldMerged /\ \A t \in team, k \in Keys : StoredOrPending(t, k)

-----------------------------------------------------------------------------
LEMMA StateOfTypes ==
  ASSUME NEW rows \in SUBSET Rows
  PROVE  StateOf(rows) \in States \cup {None} /\ (StateOf(rows) = None <=> rows = {})
  BY NoneIsApart DEF StateOf, States

LEMMA SeedOfState ==
  ASSUME NEW rows \in SUBSET Rows PROVE Seed(StateOf(rows)) = SetToBag(rows)
  BY StateOfTypes DEF Seed, StateOf, EmptyBag

LEMMA UnionOfBags ==
  ASSUME NEW S, NEW T, S \cap T = {} PROVE SetToBag(S) (+) SetToBag(T) = SetToBag(S \cup T)
  BY DEF SetToBag, (+)

LEMMA CombinedStates ==
  ASSUME NEW S \in SUBSET Rows, NEW T \in SUBSET Rows, S \cap T = {}
  PROVE  Combined(StateOf(S), StateOf(T)) = StateOf(S \cup T)
<1>1. CASE S = {} /\ T = {}
  BY <1>1 DEF Combined, StateOf
<1>2. CASE ~(S = {} /\ T = {})
  <2>1. Combined(StateOf(S), StateOf(T)) = Seed(StateOf(S)) (+) Seed(StateOf(T))
    BY <1>2, StateOfTypes DEF Combined
  <2>2. @ = SetToBag(S \cup T)
    BY SeedOfState, UnionOfBags
  <2> QED BY <1>2, <2>1, <2>2 DEF StateOf
<1> QED BY <1>1, <1>2

LEMMA RowsOfThreads ==
  ASSUME GroupTypes, NEW A, NEW B, NEW k \in Keys
  PROVE  /\ RowsOf(A, k) \in SUBSET Rows
         /\ RowsOf(A, k) \cup RowsOf(B, k) = RowsOf(A \cup B, k)
         /\ A \cap B = {} => RowsOf(A, k) \cap RowsOf(B, k) = {}
  BY DEF GroupTypes, RowsOf, Saved

\* Groups of different owners are different groups.
LEMMA GroupsDiffer ==
  /\ \A t, u \in Owners, k, l \in Keys : Group(t, k) = Group(u, l) <=> t = u /\ k = l
  /\ \A t \in Owners, k \in Keys :
       Group(t, k) \in Owners \X Keys /\ Group(t, k)[1] = t /\ Group(t, k)[2] = k
  /\ \A g \in Owners \X Keys : g[1] \in Owners /\ g[2] \in Keys /\ g = Group(g[1], g[2])
  BY DEF Group, Owners

LEMMA GroupsInitInv == Init => GroupsInv
<1> SUFFICES ASSUME Init PROVE GroupsInv
  OBVIOUS
<1> USE NoneIsApart, Parameters
<1>1. \A threads, k : k \in Keys => RowsOf(threads, k) = {}
  BY DEF Init, RowsOf, Saved
<1>2. GroupTypes /\ RowsAreFed /\ CombineHolds /\ GroupsAreWhole
  <2>1. team \subseteq Threads /\ merged \subseteq team /\ merge = None
    BY DEF Init
  <2>2. fed \in [Threads -> 0..Batches] /\ update \in [Threads -> [Keys -> States \cup {None}] \cup {None}]
        /\ groupRow \in [Owners \X Keys -> States \cup {None}] /\ folded \in [Keys -> SUBSET Rows]
        /\ assigned \in [Keys -> SUBSET Rows]
    BY DEF Init, Absent
  <2>3. met \in [Threads -> SUBSET Keys]
    BY DEF Init
  <2>4. RowsAreFed /\ CombineHolds /\ GroupsAreWhole
    BY DEF Init, RowsAreFed, CombineHolds, GroupsAreWhole, Whole, Saved
  <2> QED BY <2>1, <2>2, <2>3, <2>4 DEF GroupTypes
<1>3. ASSUME NEW t \in Owners, NEW k \in Keys PROVE groupRow[Group(t, k)] = None
  BY <1>3, GroupsDiffer DEF Init, Absent
<1>4. TargetsHoldMerged
  BY <1>1, <1>3 DEF TargetsHoldMerged, StateOf, Owners
<1>5. \A t \in team, k \in Keys : StoredOrPending(t, k)
  BY <1>1, <1>2, <1>3 DEF Init, StoredOrPending, StateOf, Owners, GroupTypes
<1> QED BY <1>2, <1>4, <1>5 DEF GroupsInv

\* The rows that were fed stay: so does all that is said of them.
LEMMA RowsKept ==
  ASSUME UNCHANGED <<folded, assigned>>
  PROVE  /\ \A k : Saved(k)' = Saved(k)
         /\ \A threads, k : RowsOf(threads, k)' = RowsOf(threads, k)
         /\ UNCHANGED output => (GroupsAreWhole <=> GroupsAreWhole')
         /\ UNCHANGED <<team, fed>> => (RowsAreFed <=> RowsAreFed')
<1>1. \A k : Saved(k)' = Saved(k)
  BY DEF Saved
<1>2. \A threads, k : RowsOf(threads, k)' = RowsOf(threads, k)
  BY <1>1 DEF RowsOf
<1>3. UNCHANGED output => (GroupsAreWhole <=> GroupsAreWhole')
  BY <1>1 DEF GroupsAreWhole, Whole
<1>4. UNCHANGED <<team, fed>> => (RowsAreFed <=> RowsAreFed')
  BY DEF RowsAreFed
<1> QED BY <1>1, <1>2, <1>3, <1>4

\* A step that leaves the groups alone, or clears them.
LEMMA GroupsKept ==
  ASSUME GroupsInv, UNCHANGED <<plan, groups>>,
         pc' = pc \/ (pc = "running" /\ pc' = "failing")
  PROVE  GroupsInv'
<1>1. UNCHANGED <<team, fed, met, groupRow, update, merge, merged, output, folded, assigned>>
  BY DEF groups
<1>2. GroupTypes' /\ RowsAreFed' /\ GroupsAreWhole'
  BY <1>1, RowsKept DEF GroupsInv, GroupTypes
<1>3. CombineHolds' /\ (TargetsHoldMerged => TargetsHoldMerged')
  BY <1>1 DEF GroupsInv, CombineHolds, TargetsHoldMerged, RowsOf, Saved
<1>4. Running("grouped")' => Running("grouped") /\ \A t \in team', k \in Keys : StoredOrPending(t, k)'
  BY <1>1 DEF GroupsInv, Running, StoredOrPending, RowsOf, Saved
<1> QED BY <1>2, <1>3, <1>4 DEF GroupsInv

LEMMA DestroyGroupsInv ==
  ASSUME GroupsInv, NEW emptied, Destroy(emptied)
  PROVE  GroupsInv'
<1>1. /\ pc' = "destroyed" /\ merge = None /\ groupRow' \in [Owners \X Keys -> States \cup {None}]
      /\ UNCHANGED <<plan, team, fed, met, update, merge, merged, output, folded, assigned>>
  BY DEF Destroy, MayDestroy, Absent
<1>2. GroupTypes' /\ RowsAreFed' /\ CombineHolds' /\ GroupsAreWhole'
  BY <1>1 DEF GroupsInv, GroupTypes, RowsAreFed, CombineHolds, GroupsAreWhole, Whole, Saved
<1> QED BY <1>1, <1>2 DEF GroupsInv, Running

-----------------------------------------------------------------------------
LEMMA BatchNumbers == (1..Batches \subseteq Nat) /\ \A n \in Nat : n + 1 \in Nat /\ n <= n
  BY Parameters

LEMMA NextIsLater ==
  ASSUME NEW m \in Nat, NEW n \in Nat, n <= m
  PROVE  n <= m + 1 /\ ~(m + 1 <= n)
  OBVIOUS

\* The row a thread feeds next is new; it is saved if the user's code assigns
\* the state, or has done so for a row before it.
LEMMA RowFed ==
  ASSUME GroupTypes, RowsAreFed, NEW t \in Threads, fed[t] \in Nat, NEW k \in Keys, NEW did,
         folded'[k] = IF did \in {"in place", "assigned"} THEN folded[k] \cup {Row(t)} ELSE folded[k],
         assigned'[k] = IF did = "assigned" THEN assigned[k] \cup {Row(t)} ELSE assigned[k]
  PROVE  /\ Row(t) \notin Saved(k)
         /\ Saved(k)' = IF did = "assigned" \/ (did = "in place" /\ RowsOf({t}, k) # {})
                        THEN Saved(k) \cup {Row(t)} ELSE Saved(k)
<1> DEFINE row == Row(t)
           from(as, r) == \E a \in as : a[1] = r[1] /\ a[2] <= r[2]
<1>1. row[1] = t /\ row[2] = fed[t] + 1
  BY DEF Row
<1>2. /\ assigned[k] \subseteq folded[k]
      /\ \A r \in folded[k] : r[2] \in Nat /\ (r[1] = t => r[2] <= fed[t])
  <2>1. assigned[k] \subseteq folded[k] /\ \A r \in folded[k] : r[1] \in team /\ r[2] <= fed[r[1]]
    BY DEF RowsAreFed
  <2>2. \A r \in folded[k] : r \in Threads \X (1..Batches)
    BY DEF GroupTypes, Rows
  <2>3. \A r \in folded[k] : r[2] \in 1..Batches
    BY <2>2
  <2> QED BY <2>1, <2>3, BatchNumbers
<1>3. ASSUME NEW r \in folded[k], r[1] = t PROVE r[2] <= row[2] /\ ~(row[2] <= r[2])
  <2>1. r[2] \in Nat /\ r[2] <= fed[t]
    BY <1>2, <1>3
  <2> QED BY <1>1, <2>1, NextIsLater
<1>4. row \notin folded[k]
  <2> SUFFICES ASSUME row \in folded[k] PROVE FALSE
    OBVIOUS
  <2> QED BY <1>1, <1>3
<1>5. row[2] <= row[2] /\ \A r \in folded[k] : r[2] <= r[2]
  <2>1. row[2] \in Nat
    BY <1>1, BatchNumbers
  <2> HIDE DEF row
  <2> QED BY <1>2, <2>1, BatchNumbers
<1>6. Saved(k) = {r \in folded[k] : from(assigned[k], r)} /\ Saved(k)' = {r \in folded'[k] : from(assigned'[k], r)}
  BY DEF Saved
<1>7. /\ folded'[k] = IF did \in {"in place", "assigned"} THEN folded[k] \cup {row} ELSE folded[k]
      /\ assigned'[k] = IF did = "assigned" THEN assigned[k] \cup {row} ELSE assigned[k]
  OBVIOUS
<1> HIDE DEF row
<1>8. ASSUME NEW r \in folded[k] PROVE from(assigned'[k], r) <=> from(assigned[k], r)
  <2>1. CASE did = "assigned"
    <3>1. ~(row[1] = r[1] /\ row[2] <= r[2])
      BY <1>1, <1>3
    <3>2. assigned'[k] = assigned[k] \cup {row}
      BY <1>7, <2>1
    <3> QED BY <3>1, <3>2
  <2>2. CASE did # "assigned"
    BY <1>7, <2>2
  <2> QED BY <2>1, <2>2
<1>9. from(assigned[k], row) <=> \E a \in assigned[k] : a[1] = t
  BY <1>1, <1>2, <1>3
<1>10. (\E a \in assigned[k] : a[1] = t) <=> RowsOf({t}, k) # {}
  <2>1. ASSUME NEW a \in assigned[k], a[1] = t PROVE a \in RowsOf({t}, k)
    BY <1>2, <1>5, <2>1 DEF RowsOf, Saved
  <2>2. ASSUME NEW r \in RowsOf({t}, k) PROVE \E a \in assigned[k] : a[1] = t
    BY DEF RowsOf, Saved
  <2> QED BY <2>1, <2>2
<1>11. did = "assigned" => from(assigned'[k], row)
  BY <1>5, <1>7
<1>12. did # "assigned" => assigned'[k] = assigned[k]
  BY <1>7
<1> HIDE DEF from
<1>13. CASE did \in {"in place", "assigned"}
  <2>1. folded'[k] = folded[k] \cup {row}
    BY <1>7, <1>13
  <2>2. from(assigned'[k], row) <=> did = "assigned" \/ RowsOf({t}, k) # {}
    BY <1>9, <1>10, <1>11, <1>12
  <2>3. Saved(k)' = IF did = "assigned" \/ RowsOf({t}, k) # {} THEN Saved(k) \cup {row} ELSE Saved(k)
    BY <1>4, <1>6, <1>8, <2>1, <2>2
  <2> QED BY <1>4, <1>6, <1>13, <2>3 DEF row
<1>14. CASE did \notin {"in place", "assigned"}
  <2>1. folded'[k] = folded[k]
    BY <1>7, <1>14
  <2> QED BY <1>4, <1>6, <1>8, <1>14, <2>1 DEF row
<1> QED BY <1>13, <1>14

LEMMA UpdateLoadInv ==
  ASSUME GroupsInv, NEW t \in Threads, NEW b \in Batch, UpdateLoad(t, b)
  PROVE  GroupsInv'
<1> USE NoneIsApart, Parameters
<1>1. /\ Running("grouped") /\ t \in team /\ update[t] = None /\ t \notin merged
      /\ merge # None => t \notin merge.from
      /\ DOMAIN output = {} /\ fed[t] < Batches /\ fed[t] \in Nat /\ GroupTypes
      /\ UNCHANGED <<plan, pc, team, groupRow, merge, merged, output>>
  <2>1. GroupTypes /\ fed[t] \in Nat
    BY DEF GroupsInv, GroupTypes
  <2> QED BY <2>1 DEF UpdateLoad
<1>2. Row(t) \in Rows /\ Row(t)[1] = t /\ Row(t)[2] = fed[t] + 1
  BY <1>1 DEF Row, Rows
<1>3. ASSUME NEW k \in Keys
      PROVE  /\ folded'[k] = IF b[k] \in {"in place", "assigned"} THEN folded[k] \cup {Row(t)} ELSE folded[k]
             /\ assigned'[k] = IF b[k] = "assigned" THEN assigned[k] \cup {Row(t)} ELSE assigned[k]
             /\ assigned[k] \subseteq folded[k]
  BY DEF UpdateLoad, GroupsInv, RowsAreFed
<1>0. ASSUME NEW k \in Keys
      PROVE  /\ Row(t) \notin Saved(k)
             /\ Saved(k)' = IF b[k] = "assigned" \/ (b[k] = "in place" /\ RowsOf({t}, k) # {})
                            THEN Saved(k) \cup {Row(t)} ELSE Saved(k)
  BY <1>1, <1>3, RowFed DEF GroupsInv
<1>4. ASSUME NEW threads, t \notin threads, NEW k \in Keys
      PROVE  RowsOf(threads, k)' = RowsOf(threads, k)
  BY <1>0, <1>2, <1>4 DEF RowsOf
<1> DEFINE counts(k) == b[k] = "assigned" \/ (b[k] = "in place" /\ RowsOf({t}, k) # {})
<1>5. ASSUME NEW k \in Keys
      PROVE  RowsOf({t}, k)' = IF counts(k) THEN RowsOf({t}, k) \cup {Row(t)} ELSE RowsOf({t}, k)
  BY <1>0, <1>2 DEF RowsOf
<1>6. ASSUME NEW k \in Keys
      PROVE  /\ groupRow[Group(t, k)] = StateOf(RowsOf({t}, k))
             /\ RowsOf({t}, k) \in SUBSET Rows /\ Row(t) \notin RowsOf({t}, k)
  <2>1. RowsOf({t}, k) \in SUBSET Rows /\ Row(t) \notin RowsOf({t}, k)
    BY <1>0, <1>1, RowsOfThreads DEF RowsOf
  <2> QED BY <1>1, <2>1 DEF GroupsInv, StoredOrPending
<1>7. ASSUME NEW k \in Keys, counts(k)
      PROVE  Persisted(t, b, k) /\ Folded(t, b, k) = StateOf(RowsOf({t}, k)')
  <2>1. Folded(t, b, k) = Seed(groupRow[Group(t, k)]) (+) SetToBag({Row(t)})
    BY <1>7 DEF Folded
  <2>2. @ = SetToBag(RowsOf({t}, k) \cup {Row(t)})
    BY <1>6, SeedOfState, UnionOfBags
  <2>3. @ = StateOf(RowsOf({t}, k)')
    BY <1>5, <1>7 DEF StateOf
  <2>4. Persisted(t, b, k)
    BY <1>6, <1>7, StateOfTypes DEF Persisted, HasRows
  <2> QED BY <2>1, <2>2, <2>3, <2>4
<1>8. ASSUME NEW k \in Keys, ~counts(k), Persisted(t, b, k)
      PROVE  Folded(t, b, k) = StateOf(RowsOf({t}, k)')
  <2>1. groupRow[Group(t, k)] # None /\ b[k] # "assigned"
    BY <1>8 DEF Persisted
  <2>2. b[k] # "in place"
    BY <1>6, <1>8, <2>1, StateOfTypes
  <2> QED BY <1>5, <1>6, <1>8, <2>1, <2>2 DEF Folded, Seed
<1>9. ASSUME NEW k \in Keys
      PROVE  LET pending == IF Persisted(t, b, k) THEN Folded(t, b, k) ELSE None
             IN  /\ pending \in States \cup {None}
                 /\ IF pending = None THEN groupRow[Group(t, k)] = StateOf(RowsOf({t}, k)')
                    ELSE pending = StateOf(RowsOf({t}, k)')
  <2>0. RowsOf({t}, k)' \in SUBSET Rows
    BY <1>2, <1>5, <1>6
  <2>1. StateOf(RowsOf({t}, k)') \in States \cup {None}
    BY <2>0, StateOfTypes
  <2>2. ~counts(k) => StateOf(RowsOf({t}, k)') = groupRow[Group(t, k)]
    BY <1>5, <1>6
  <2>3. counts(k) => StateOf(RowsOf({t}, k)') # None
    <3> SUFFICES ASSUME counts(k) PROVE StateOf(RowsOf({t}, k)') # None
      OBVIOUS
    <3>1. RowsOf({t}, k)' # {}
      BY <1>5
    <3> QED BY <2>0, <3>1, StateOfTypes
  <2> HIDE DEF counts
  <2> QED BY <1>7, <1>8, <2>1, <2>2, <2>3
<1> HIDE DEF counts
<1>10. update' = [update EXCEPT ![t] =
                   [k \in Keys |-> IF Persisted(t, b, k) THEN Folded(t, b, k) ELSE None]]
  BY DEF UpdateLoad
<1>11. /\ update'[t] \in [Keys -> States \cup {None}] /\ update'[t] # None
       /\ \A u : u # t => update'[u] = update[u]
  BY <1>1, <1>9, <1>10 DEF GroupTypes
<1>12. GroupTypes'
  <2>1. fed' = [fed EXCEPT ![t] = fed[t] + 1] /\ fed[t] + 1 \in 0..Batches
    <3>1. fed' = [fed EXCEPT ![t] = fed[t] + 1]
      BY DEF UpdateLoad
    <3>2. \A n \in Nat : n < Batches => n + 1 \in 0..Batches
      BY Parameters
    <3> QED BY <1>1, <3>1, <3>2
  <2>2. met' \in [Threads -> SUBSET Keys]
    <3>1. met' = [met EXCEPT ![t] = met[t] \cup HasRows(b)] /\ HasRows(b) \subseteq Keys
      BY DEF UpdateLoad, HasRows
    <3> QED BY <1>1, <3>1 DEF GroupTypes
  <2>3. folded' \in [Keys -> SUBSET Rows] /\ assigned' \in [Keys -> SUBSET Rows]
    BY <1>1, <1>2 DEF UpdateLoad, GroupTypes
  <2>4. update' \in [Threads -> [Keys -> States \cup {None}] \cup {None}]
    BY <1>1, <1>10, <1>11 DEF GroupTypes
  <2> QED BY <1>1, <2>1, <2>2, <2>3, <2>4 DEF GroupTypes
<1>13. RowsAreFed'
  <2>1. fed'[t] = fed[t] + 1 /\ \A u \in Threads \ {t} : fed'[u] = fed[u]
    BY <1>1 DEF UpdateLoad, GroupTypes
  <2>2. \A u \in team : fed[u] \in Nat /\ fed'[u] \in Nat /\ fed[u] <= fed'[u]
    <3>1. \A u \in Threads : fed[u] \in Nat
      BY <1>1 DEF GroupTypes
    <3>2. \A n \in Nat : n + 1 \in Nat /\ n <= n + 1 /\ n <= n
      OBVIOUS
    <3> QED BY <1>1, <2>1, <3>1, <3>2 DEF GroupTypes
  <2> SUFFICES ASSUME NEW k \in Keys, NEW r \in folded'[k]
               PROVE  r[1] \in team /\ r[2] <= fed'[r[1]]
    BY <1>1, <1>3 DEF RowsAreFed
  <2>3. CASE r = Row(t)
    BY <1>1, <1>2, <2>1, <2>2, <2>3
  <2>4. CASE r \in folded[k]
    <3>1. r[1] \in team /\ r[2] <= fed[r[1]] /\ r[2] \in Nat
      BY <1>1, <2>4 DEF GroupsInv, RowsAreFed, GroupTypes, Rows
    <3> QED BY <2>2, <3>1
  <2> QED BY <1>3, <2>3, <2>4
<1>14. GroupsAreWhole'
  BY <1>1 DEF GroupsAreWhole, Whole, Saved
<1>15. TargetsHoldMerged'
  BY <1>1, <1>4 DEF GroupsInv, TargetsHoldMerged, Running
<1>16. CombineHolds'
  <2>1. CASE merge = None
    BY <1>1, <2>1 DEF CombineHolds
  <2>2. CASE merge # None
    <3>1. t \notin merge.from /\ merge.left \subseteq merge.from /\ CombineHolds
      BY <1>1, <2>2 DEF GroupsInv, CombineHolds
    <3>2. \A u \in merge.from : update'[u] = None
      BY <1>11, <2>2, <3>1 DEF CombineHolds
    <3>3. \A u \in merge.left, k \in Keys : RowsOf({u}, k)' = RowsOf({u}, k)
      BY <1>4, <3>1
    <3>4. \A k \in Keys : RowsOf(merged \cup (merge.from \ merge.left), k)'
                          = RowsOf(merged \cup (merge.from \ merge.left), k)
      BY <1>1, <1>4, <3>1
    <3>5. /\ \A u \in merge.left, k \in Keys : merge.states[Group(u, k)] = StateOf(RowsOf({u}, k)')
          /\ \A k \in Keys : merge.states[Group(None, k)]
                             = StateOf(RowsOf(merged \cup (merge.from \ merge.left), k)')
      BY <2>2, <3>1, <3>3, <3>4 DEF CombineHolds
    <3>6. merge' = merge /\ merged' = merged /\ merge.from \cap merged = {}
      BY <1>1, <2>2, <3>1 DEF CombineHolds
    <3> QED BY <3>1, <3>2, <3>5, <3>6 DEF CombineHolds, RowsOf, Saved
  <2> QED BY <2>1, <2>2
<1>17. \A u \in team', k \in Keys : StoredOrPending(u, k)'
  <2>1. ASSUME NEW k \in Keys PROVE StoredOrPending(t, k)'
    BY <1>1, <1>9, <1>10, <1>11 DEF StoredOrPending, GroupTypes
  <2>2. ASSUME NEW u \in team \ {t}, NEW k \in Keys PROVE StoredOrPending(u, k)'
    <3>1. update'[u] = update[u] /\ RowsOf({u}, k)' = RowsOf({u}, k)
      BY <1>4, <1>11
    <3>2. StoredOrPending(u, k) /\ groupRow' = groupRow
      BY <1>1 DEF GroupsInv
    <3> QED BY <3>1, <3>2 DEF StoredOrPending
  <2> QED BY <1>1, <2>1, <2>2
<1> QED BY <1>12, <1>13, <1>14, <1>15, <1>16, <1>17 DEF GroupsInv

LEMMA UpdateStoreInv ==
  ASSUME GroupsInv, NEW t \in Threads, UpdateStore(t)
  PROVE  GroupsInv'
<1> USE NoneIsApart
<1>1. /\ update[t] \in [Keys -> States \cup {None}] /\ GroupTypes
      /\ update' = [update EXCEPT ![t] = None]
      /\ UNCHANGED <<plan, pc, team, fed, met, merge, merged, output, folded, assigned>>
  BY DEF UpdateStore, GroupsInv, GroupTypes
<1>2. ASSUME NEW u \in Owners, NEW k \in Keys
      PROVE  groupRow'[Group(u, k)] = IF u = t /\ update[t][k] # None THEN update[t][k]
                                      ELSE groupRow[Group(u, k)]
  BY GroupsDiffer DEF UpdateStore, Owners
<1>3. GroupTypes'
  <2>1. groupRow' \in [Owners \X Keys -> States \cup {None}]
    BY <1>1 DEF UpdateStore, GroupTypes
  <2> QED BY <1>1, <2>1 DEF GroupTypes
<1>4. RowsAreFed' /\ GroupsAreWhole'
  BY <1>1 DEF GroupsInv, RowsAreFed, GroupsAreWhole, Whole, Saved
<1>5. CombineHolds'
  BY <1>1 DEF GroupsInv, CombineHolds, GroupTypes, RowsOf, Saved
<1>6. Running("grouped")' => TargetsHoldMerged'
  BY <1>1, <1>2 DEF GroupsInv, Running, TargetsHoldMerged, RowsOf, Saved, Owners
<1>7. Running("grouped")' => \A u \in team', k \in Keys : StoredOrPending(u, k)'
  <2> SUFFICES ASSUME Running("grouped")', NEW u \in team, NEW k \in Keys
               PROVE  StoredOrPending(u, k)'
    BY <1>1
  <2>1. StoredOrPending(u, k) /\ u \in Owners /\ u \in Threads
    BY <1>1 DEF GroupsInv, Running, Owners, GroupTypes
  <2>2. RowsOf({u}, k)' = RowsOf({u}, k)
    BY <1>1 DEF RowsOf, Saved
  <2>3. CASE u = t
    <3>1. update[t] # None /\ update'[t] = None
      BY <1>1 DEF UpdateStore, GroupTypes
    <3> QED BY <1>2, <2>1, <2>2, <2>3, <3>1 DEF StoredOrPending
  <2>4. CASE u # t
    BY <1>1, <1>2, <2>1, <2>2, <2>4 DEF StoredOrPending, GroupTypes
  <2> QED BY <2>3, <2>4
<1> QED BY <1>3, <1>4, <1>5, <1>6, <1>7 DEF GroupsInv

-----------------------------------------------------------------------------
\* A request or a combine that fails stores nothing, and fails the call.
LEMMA GroupFailuresInv ==
  ASSUME GroupsInv, (\E t \in Threads : UpdateFails(t)) \/ CombineFails
  PROVE  GroupsInv'
<1>1. CASE \E t \in Threads : UpdateFails(t)
  <2> PICK t \in Threads : UpdateFails(t)
    BY <1>1
  <2>1. /\ update' = [update EXCEPT ![t] = None] /\ pc' = "failing"
        /\ UNCHANGED <<plan, team, fed, met, groupRow, merge, merged, output, folded, assigned>>
    BY DEF UpdateFails
  <2>2. GroupTypes' /\ RowsAreFed' /\ GroupsAreWhole'
    BY <2>1 DEF GroupsInv, GroupTypes, RowsAreFed, GroupsAreWhole, Whole, Saved
  <2>3. CombineHolds'
    BY <2>1 DEF GroupsInv, CombineHolds, GroupTypes, RowsOf, Saved
  <2> QED BY <2>1, <2>2, <2>3 DEF GroupsInv, Running
<1>2. CASE CombineFails
  <2>1. /\ merge' = None /\ pc' = "failing"
        /\ UNCHANGED <<plan, team, fed, met, groupRow, update, merged, output, folded, assigned>>
    BY <1>2 DEF CombineFails
  <2> QED BY <2>1 DEF GroupsInv, Running, GroupTypes, RowsAreFed, CombineHolds, GroupsAreWhole, Whole, Saved
<1> QED BY <1>1, <1>2

LEMMA CombineLoadInv ==
  ASSUME GroupsInv, NEW from \in SUBSET Threads, CombineLoad(from)
  PROVE  GroupsInv'
<1>1. /\ Running("grouped") /\ from \subseteq team /\ from \cap merged = {}
      /\ \A t \in from : update[t] = None
      /\ merge' = [from |-> from, left |-> from, states |-> groupRow]
      /\ UNCHANGED <<plan, pc, team, fed, met, groupRow, update, merged, output, folded, assigned>>
  BY DEF CombineLoad, GroupsInv, GroupTypes
<1>2. GroupTypes' /\ RowsAreFed' /\ GroupsAreWhole'
  BY <1>1 DEF GroupsInv, GroupTypes, RowsAreFed, GroupsAreWhole, Whole, Saved
<1>3. CombineHolds'
  <2>1. \A t \in from, k \in Keys : groupRow[Group(t, k)] = StateOf(RowsOf({t}, k))
    BY <1>1 DEF GroupsInv, StoredOrPending
  <2>2. \A k \in Keys : groupRow[Group(None, k)] = StateOf(RowsOf(merged \cup (from \ from), k))
    <3>1. merged \cup (from \ from) = merged
      OBVIOUS
    <3> QED BY <1>1, <3>1 DEF GroupsInv, TargetsHoldMerged
  <2> QED BY <1>1, <2>1, <2>2 DEF CombineHolds, RowsOf, Saved
<1>4. Running("grouped")' => TargetsHoldMerged' /\ \A t \in team', k \in Keys : StoredOrPending(t, k)'
  BY <1>1 DEF GroupsInv, Running, TargetsHoldMerged, StoredOrPending, RowsOf, Saved
<1> QED BY <1>2, <1>3, <1>4 DEF GroupsInv

LEMMA CombinePairsInv ==
  ASSUME GroupsInv, NEW t \in Threads, CombinePairs(t)
  PROVE  GroupsInv'
<1>1. /\ merge # None /\ t \in merge.left /\ GroupTypes /\ CombineHolds
      /\ UNCHANGED <<plan, pc, team, fed, met, groupRow, update, merged, output, folded, assigned>>
  BY DEF CombinePairs, GroupsInv
<1>2. /\ merge \in [from : SUBSET team, left : SUBSET team, states : [Owners \X Keys -> States \cup {None}]]
      /\ merge.from \cap merged = {} /\ merge.left \subseteq merge.from
  BY <1>1 DEF GroupTypes, CombineHolds
<1> DEFINE done == merged \cup (merge.from \ merge.left)
           after == [g \in Owners \X Keys |->
                       IF g[1] = None THEN Combined(merge.states[Group(t, g[2])], merge.states[g])
                       ELSE merge.states[g]]
<1>3. merge' = [from |-> merge.from, left |-> merge.left \ {t}, states |-> after]
  BY <1>1, <1>2 DEF CombinePairs
<1>4. ASSUME NEW k \in Keys
      PROVE  after[Group(None, k)] = StateOf(RowsOf(done \cup {t}, k))
  <2>1. after[Group(None, k)] = Combined(merge.states[Group(t, k)], merge.states[Group(None, k)])
    <3>1. Group(None, k) \in Owners \X Keys /\ Group(None, k)[1] = None /\ Group(None, k)[2] = k
      BY GroupsDiffer DEF Owners
    <3> QED BY <3>1
  <2>2. @ = Combined(StateOf(RowsOf({t}, k)), StateOf(RowsOf(done, k)))
    BY <1>1 DEF CombineHolds
  <2>3. {t} \cap done = {} /\ {t} \cup done = done \cup {t}
    BY <1>1, <1>2
  <2>4. RowsOf({t}, k) \cup RowsOf(done, k) = RowsOf(done \cup {t}, k)
        /\ RowsOf({t}, k) \cap RowsOf(done, k) = {}
        /\ RowsOf({t}, k) \in SUBSET Rows /\ RowsOf(done, k) \in SUBSET Rows
    <3> HIDE DEF done
    <3> QED BY <1>1, <2>3, RowsOfThreads
  <2> QED BY <2>1, <2>2, <2>4, CombinedStates
<1>5. ASSUME NEW u \in Threads, NEW k \in Keys
      PROVE  after[Group(u, k)] = merge.states[Group(u, k)]
  BY <1>5, GroupsDiffer, NoneIsApart DEF Owners
<1>6. after \in [Owners \X Keys -> States \cup {None}]
  <2> SUFFICES ASSUME NEW g \in Owners \X Keys PROVE after[g] \in States \cup {None}
    OBVIOUS
  <2>1. CASE g[1] = None
    <3>1. g = Group(None, g[2]) /\ g[2] \in Keys
      BY <2>1, GroupsDiffer
    <3> HIDE DEF after, done
    <3> QED BY <1>1, <1>4, <3>1, RowsOfThreads, StateOfTypes
  <2>2. CASE g[1] # None
    BY <1>2, <2>2
  <2> QED BY <2>1, <2>2
<1> HIDE DEF after
<1>7. GroupTypes' /\ RowsAreFed' /\ GroupsAreWhole'
  BY <1>1, <1>2, <1>3, <1>6 DEF GroupsInv, GroupTypes, RowsAreFed, GroupsAreWhole, Whole, Saved
<1>8. CombineHolds'
  <2>1. merged \cup (merge.from \ (merge.left \ {t})) = done \cup {t}
    BY <1>1, <1>2
  <2>2. \A u \in merge.left \ {t}, k \in Keys : after[Group(u, k)] = StateOf(RowsOf({u}, k))
    BY <1>1, <1>2, <1>5 DEF CombineHolds, GroupTypes
  <2>3. \A k \in Keys : after[Group(None, k)]
                        = StateOf(RowsOf(merged \cup (merge.from \ (merge.left \ {t})), k))
    BY <1>4, <2>1
  <2>4. \A u \in merge.from : update[u] = None
    BY <1>1 DEF CombineHolds
  <2> HIDE DEF done
  <2> QED BY <1>1, <1>2, <1>3, <2>2, <2>3, <2>4 DEF CombineHolds, RowsOf, Saved
<1>9. Running("grouped")' => TargetsHoldMerged' /\ \A u \in team', k \in Keys : StoredOrPending(u, k)'
  BY <1>1 DEF GroupsInv, Running, TargetsHoldMerged, StoredOrPending, RowsOf, Saved
<1> QED BY <1>7, <1>8, <1>9 DEF GroupsInv

\* The targets hold the threads of the combine as well.
LEMMA CombineStoreInv ==
  ASSUME GroupsInv, CombineStore
  PROVE  GroupsInv'
<1>1. /\ merge # None /\ merge.left = {} /\ GroupTypes /\ CombineHolds
      /\ merge' = None /\ merged' = merged \cup merge.from
      /\ UNCHANGED <<plan, pc, team, fed, met, update, output, folded, assigned>>
  BY DEF CombineStore, GroupsInv
<1>2. merge \in [from : SUBSET team, left : SUBSET team, states : [Owners \X Keys -> States \cup {None}]]
  BY <1>1 DEF GroupTypes
<1>3. GroupTypes'
  <2>1. groupRow' \in [Owners \X Keys -> States \cup {None}]
    BY <1>1, <1>2 DEF CombineStore, GroupTypes
  <2> QED BY <1>1, <1>2, <2>1 DEF GroupTypes
<1>4. RowsAreFed' /\ GroupsAreWhole' /\ CombineHolds'
  BY <1>1 DEF GroupsInv, RowsAreFed, GroupsAreWhole, Whole, Saved, CombineHolds
<1>5. ASSUME NEW t \in Threads, NEW k \in Keys
      PROVE  groupRow'[Group(t, k)] = groupRow[Group(t, k)]
  BY GroupsDiffer, NoneIsApart DEF CombineStore, Owners
<1>6. ASSUME Running("grouped"), NEW k \in Keys
      PROVE  groupRow'[Group(None, k)] = StateOf(RowsOf(merged \cup merge.from, k))
  <2>1. Group(None, k) \in Owners \X Keys /\ Group(None, k)[1] = None
    BY GroupsDiffer DEF Owners
  <2>2. merge.states[Group(None, k)] = StateOf(RowsOf(merged \cup merge.from, k))
    <3>1. merge.from \ merge.left = merge.from
      BY <1>1
    <3> QED BY <1>1, <3>1 DEF CombineHolds
  <2>3. groupRow[Group(None, k)] = StateOf(RowsOf(merged, k))
    BY <1>6 DEF GroupsInv, TargetsHoldMerged
  <2>4. /\ RowsOf(merged, k) \subseteq RowsOf(merged \cup merge.from, k)
        /\ RowsOf(merged \cup merge.from, k) \in SUBSET Rows
    BY <1>1, RowsOfThreads
  <2>5. CASE merge.states[Group(None, k)] = None
    <3>1. RowsOf(merged \cup merge.from, k) = {} /\ RowsOf(merged, k) = {}
      BY <2>2, <2>4, <2>5, StateOfTypes
    <3> QED BY <2>1, <2>2, <2>3, <2>5, <3>1 DEF CombineStore
  <2>6. CASE merge.states[Group(None, k)] # None
    BY <2>1, <2>2, <2>6 DEF CombineStore
  <2> QED BY <2>5, <2>6
<1>7. Running("grouped")' => TargetsHoldMerged'
  BY <1>1, <1>6 DEF Running, TargetsHoldMerged, RowsOf, Saved
<1>8. Running("grouped")' => \A t \in team', k \in Keys : StoredOrPending(t, k)'
  <2> SUFFICES ASSUME Running("grouped")', NEW t \in team, NEW k \in Keys PROVE StoredOrPending(t, k)'
    BY <1>1
  <2>1. StoredOrPending(t, k) /\ t \in Threads
    BY <1>1 DEF GroupsInv, GroupTypes, Running
  <2>2. RowsOf({t}, k)' = RowsOf({t}, k) /\ groupRow'[Group(t, k)] = groupRow[Group(t, k)]
    BY <1>1, <1>5, <2>1 DEF RowsOf, Saved
  <2> QED BY <1>1, <2>1, <2>2 DEF StoredOrPending
<1> QED BY <1>3, <1>4, <1>7, <1>8 DEF GroupsInv

\* A thread that feeds a call alone has the result in its own groups.
LEMMA FinalizeInv ==
  ASSUME GroupsInv, NEW chunk \in SUBSET Keys, Finalize(chunk)
  PROVE  GroupsInv'
<1>1. /\ Running("grouped") /\ GroupTypes /\ RowsAreFed
      /\ output' = [k \in DOMAIN output \cup chunk |-> IF k \in chunk THEN groupRow[Result(k)] ELSE output[k]]
      /\ UNCHANGED <<plan, pc, team, fed, met, groupRow, update, merge, merged, folded, assigned>>
  BY DEF Finalize, GroupsInv
<1>2. ASSUME NEW k \in Keys PROVE RowsOf(team, k) = Saved(k)
  BY <1>1 DEF RowsAreFed, RowsOf, Saved
<1>3. ASSUME NEW k \in chunk PROVE groupRow[Result(k)] = StateOf(Saved(k))
  <2>1. CASE Merges
    <3>1. merged = team /\ Result(k) = Group(None, k)
      BY <2>1 DEF Finalize, Result
    <3> QED BY <1>1, <1>2, <3>1 DEF GroupsInv, TargetsHoldMerged
  <2>2. CASE ~Merges
    <3>1. team # {}
      BY DEF Finalize, Met
    <3> DEFINE t == CHOOSE u \in team : TRUE
    <3>2. t \in team /\ team = {t} /\ update[t] = None /\ Result(k) = Group(t, k)
      BY <2>2, <3>1 DEF Merges, Finalize, Result
    <3> HIDE DEF t
    <3> QED BY <1>1, <1>2, <3>2 DEF GroupsInv, StoredOrPending
  <2> QED BY <2>1, <2>2
<1>4. GroupsAreWhole'
  BY <1>1, <1>3 DEF GroupsInv, GroupsAreWhole, Whole, Saved, StateOf
<1>5. GroupTypes' /\ RowsAreFed' /\ CombineHolds'
  <2>1. GroupTypes' /\ RowsAreFed'
    BY <1>1, RowsKept DEF GroupTypes
  <2>2. CombineHolds'
    BY <1>1 DEF GroupsInv, CombineHolds, RowsOf, Saved
  <2> QED BY <2>1, <2>2
<1>6. Running("grouped")' => TargetsHoldMerged' /\ \A t \in team', k \in Keys : StoredOrPending(t, k)'
  BY <1>1 DEF GroupsInv, Running, TargetsHoldMerged, StoredOrPending, RowsOf, Saved
<1> QED BY <1>4, <1>5, <1>6 DEF GroupsInv

LEMMA GroupsNextInv == ASSUME GroupsInv, [Next]_vars PROVE GroupsInv'
<1>1. CASE UNCHANGED vars
  BY <1>1, GroupsKept DEF vars, execution
<1>2. CASE Streamed
  BY <1>2, GroupsKept DEF Streamed, execution
<1>3. ASSUME NEW t \in Threads,
             \/ \E b \in Batch : UpdateLoad(t, b)
             \/ UpdateStore(t) \/ UpdateFails(t) \/ CombinePairs(t)
      PROVE  GroupsInv'
  BY <1>3, UpdateLoadInv, UpdateStoreInv, GroupFailuresInv, CombinePairsInv
<1>4. CASE \/ \E from \in SUBSET Threads : CombineLoad(from)
           \/ CombineStore \/ CombineFails \/ \E chunk \in SUBSET Keys : Finalize(chunk)
  BY <1>4, CombineLoadInv, CombineStoreInv, GroupFailuresInv, FinalizeInv
<1>5. ASSUME NEW w \in Workers, NEW p \in Partitions,
             WindowInit(w, p) \/ WindowCached(w, p) \/ WindowLoaded(w, p) \/ WindowDestroy(w, p)
      PROVE  GroupsInv'
  <2>1. UNCHANGED <<plan, groups>> /\ (pc' = pc \/ (pc = "running" /\ pc' = "failing"))
    BY <1>5 DEF WindowInit, WindowCached, WindowLoaded, WindowDestroy, Running
  <2> QED BY <2>1, GroupsKept
<1>6. ASSUME NEW p \in Partitions, WindowInitFails(p) \/ WindowDestroyFails(p)
      PROVE  GroupsInv'
  <2>1. UNCHANGED <<plan, groups>> /\ (pc' = pc \/ (pc = "running" /\ pc' = "failing"))
    BY <1>6 DEF WindowInitFails, WindowDestroyFails, Running
  <2> QED BY <2>1, GroupsKept
<1>7. ASSUME NEW w \in Workers, Restart(w) \/ DestroyOn(w)
      PROVE  GroupsInv'
  <2>1. CASE Restart(w)
    BY <2>1, GroupsKept DEF Restart
  <2>2. CASE DestroyOn(w)
    BY <2>2, DestroyGroupsInv DEF DestroyOn
  <2> QED BY <1>7, <2>1, <2>2
<1>8. CASE CallerFails
  BY <1>8, GroupsKept DEF CallerFails
<1>9. CASE DestroyGroups
  BY <1>9, DestroyGroupsInv DEF DestroyGroups
<1> QED BY <1>1, <1>2, <1>3, <1>4, <1>5, <1>6, <1>7, <1>8, <1>9 DEF Next

\* The result of a key is made of every row that is saved for it, each once,
\* whatever threads fed them and in whatever portions they were
\* merged (aggregate_update, aggregate_combine, aggregate_finalize).
THEOREM ResultsAreWhole == Spec => []GroupsAreWhole
<1>1. GroupsInv /\ [Next]_vars => GroupsInv'
  BY GroupsNextInv
<1>2. GroupsInv => GroupsAreWhole
  BY DEF GroupsInv
<1> QED BY <1>1, <1>2, GroupsInitInv, PTL DEF Spec

-----------------------------------------------------------------------------
(* Windowed calls.                                                         *)

Entries == [id : Partitions, build : Nat \ {0}]

\* An id has one entry in a cache.
OneEntryEach(c) == \A i, j \in DOMAIN c : c[i].id = c[j].id => i = j

WindowTypes ==
  /\ pool \subseteq Workers /\ live \subseteq Partitions
  /\ builds \in [Partitions -> Nat]
  /\ partitionRow \in [Partitions -> Nat \cup {None}]
  /\ cached \in [Workers -> Seq(Entries)]
  /\ \A w \in Workers : OneEntryEach(cached[w])

\* Every cache of the pool has the partition that was shipped last, ...
CachesAreCurrent ==
  \A w \in pool : \A i \in DOMAIN cached[w] : cached[w][i].build = builds[cached[w][i].id]

\* ... and so has the storage, until the partition is destroyed.
RowsAreCurrent == \A p \in live : builds[p] # 0 /\ partitionRow[p] = builds[p]

WindowsInv ==
  /\ WindowTypes /\ WindowsReadTheirPartition
  /\ Running("windowed") => CachesAreCurrent /\ RowsAreCurrent

-----------------------------------------------------------------------------
\* Without takes one entry out and keeps the others in their order.
LEMMA WithoutEntries ==
  ASSUME NEW c \in Seq(Entries), OneEntryEach(c), NEW p
  PROVE  /\ Without(c, p) \in Seq(Entries) /\ OneEntryEach(Without(c, p))
         /\ \A i \in DOMAIN Without(c, p) :
              \E j \in DOMAIN c : Without(c, p)[i] = c[j] /\ c[j].id # p
<1>0. Len(c) \in Nat /\ DOMAIN c = 1..Len(c) /\ \A i \in 1..Len(c) : c[i] \in Entries
  BY LenProperties, ElementOfSeq
<1>1. CASE p \notin Ids(c)
  <2>1. Without(c, p) = c /\ \A j \in DOMAIN c : c[j].id # p
    BY <1>1 DEF Without, Ids
  <2> QED BY <2>1
<1>2. CASE p \in Ids(c)
  <2> DEFINE n == Len(c) - 1
             gap == Place(c, p)
             from(i) == IF i < gap THEN i ELSE i + 1
             rest == [i \in 1..n |-> c[from(i)]]
  <2>1. gap \in 1..Len(c) /\ c[gap].id = p
    BY <1>0, <1>2 DEF Ids, Place
  <2>2. n \in Nat
    BY <1>0, <2>1
  <2>3. Without(c, p) = rest
    BY <1>2 DEF Without
  <2> HIDE DEF gap, n
  <2>4. ASSUME NEW i \in 1..n PROVE from(i) \in 1..Len(c) /\ from(i) # gap
    BY <1>0, <2>1, <2>2 DEF n
  <2>5. ASSUME NEW i \in 1..n, NEW j \in 1..n, from(i) = from(j) PROVE i = j
    BY <2>1, <2>2, <2>5
  <2> HIDE DEF from
  <2>6. rest \in Seq(Entries) /\ DOMAIN rest = 1..n
    <3>1. rest \in [1..n -> Entries]
      BY <1>0, <2>4
    <3> QED BY <2>2, <3>1, SeqDef
  <2>7. OneEntryEach(rest)
    BY <1>0, <2>4, <2>5 DEF OneEntryEach
  <2>8. \A i \in DOMAIN rest : \E j \in DOMAIN c : rest[i] = c[j] /\ c[j].id # p
    BY <1>0, <2>1, <2>4 DEF OneEntryEach
  <2> QED BY <2>3, <2>6, <2>7, <2>8
<1> QED BY <1>1, <1>2

\* Put adds its entry, replaces the one with its id, and adds no other.
LEMMA PutEntries ==
  ASSUME NEW c \in Seq(Entries), OneEntryEach(c), NEW e \in Entries
  PROVE  /\ Put(c, e) \in Seq(Entries) /\ OneEntryEach(Put(c, e))
         /\ \A i \in DOMAIN Put(c, e) :
              \/ Put(c, e)[i] = e
              \/ \E j \in DOMAIN c : Put(c, e)[i] = c[j] /\ c[j].id # e.id
<1> DEFINE rest == Without(c, e.id)
           longer == Append(rest, e)
<1>1. /\ rest \in Seq(Entries) /\ OneEntryEach(rest)
      /\ \A i \in DOMAIN rest : \E j \in DOMAIN c : rest[i] = c[j] /\ c[j].id # e.id
  BY WithoutEntries
<1>2. Put(c, e) = IF Len(longer) > CacheMax THEN Tail(longer) ELSE longer
  BY DEF Put
<1> HIDE DEF rest
<1>3. /\ longer \in Seq(Entries) /\ Len(rest) \in Nat /\ Len(longer) = Len(rest) + 1
      /\ DOMAIN rest = 1..Len(rest) /\ DOMAIN longer = 1..(Len(rest) + 1)
      /\ longer[Len(rest) + 1] = e /\ \A i \in 1..Len(rest) : longer[i] = rest[i]
  BY <1>1, LenProperties, AppendProperties
<1> HIDE DEF longer
<1>4. ASSUME NEW i \in DOMAIN longer
      PROVE  \/ i = Len(rest) + 1 /\ longer[i] = e
             \/ i \in DOMAIN rest /\ longer[i] = rest[i]
  BY <1>3
<1>5. \A i \in DOMAIN longer :
        longer[i] = e \/ \E j \in DOMAIN c : longer[i] = c[j] /\ c[j].id # e.id
  BY <1>1, <1>4
<1>6. OneEntryEach(longer)
  <2> SUFFICES ASSUME NEW i \in DOMAIN longer, NEW j \in DOMAIN longer, longer[i].id = longer[j].id
               PROVE  i = j
    BY DEF OneEntryEach
  <2>1. \A m \in DOMAIN rest : rest[m].id # e.id
    BY <1>1
  <2> QED BY <1>1, <1>4, <2>1 DEF OneEntryEach
<1>7. CASE Len(longer) > CacheMax
  <2>1. longer # <<>>
    BY <1>3
  <2>2. /\ Tail(longer) \in Seq(Entries) /\ DOMAIN Tail(longer) = 1..Len(rest)
        /\ \A i \in 1..Len(rest) : Tail(longer)[i] = longer[i + 1] /\ i + 1 \in DOMAIN longer
    BY <1>3, <2>1, HeadTailProperties, LenProperties
  <2>3. OneEntryEach(Tail(longer))
    BY <1>3, <1>6, <2>2 DEF OneEntryEach
  <2> QED BY <1>2, <1>5, <1>7, <2>2, <2>3
<1>8. CASE ~(Len(longer) > CacheMax)
  BY <1>2, <1>3, <1>5, <1>6, <1>8
<1> QED BY <1>7, <1>8

-----------------------------------------------------------------------------
LEMMA WindowsInitInv == Init => WindowsInv
<1> SUFFICES ASSUME Init PROVE WindowsInv
  OBVIOUS
<1>1. /\ pool \subseteq Workers /\ live = {} /\ served = {}
      /\ builds = [p \in Partitions |-> 0] /\ partitionRow = [p \in Partitions |-> None]
      /\ cached = [w \in Workers |-> <<>>]
  BY DEF Init
<1>2. <<>> \in Seq(Entries) /\ OneEntryEach(<<>>) /\ DOMAIN <<>> = {}
  BY EmptySeq, LenProperties DEF OneEntryEach
<1>3. WindowTypes
  BY <1>1, <1>2 DEF WindowTypes
<1>4. CachesAreCurrent /\ RowsAreCurrent /\ WindowsReadTheirPartition
  BY <1>1, <1>2 DEF CachesAreCurrent, RowsAreCurrent, WindowsReadTheirPartition
<1> QED BY <1>3, <1>4 DEF WindowsInv

LEMMA WindowsKept ==
  ASSUME WindowsInv, UNCHANGED <<plan, windows>>,
         pc' = pc \/ (pc = "running" /\ pc' = "failing")
  PROVE  WindowsInv'
  BY DEF WindowsInv, windows, Running, WindowTypes, WindowsReadTheirPartition,
         CachesAreCurrent, RowsAreCurrent

\* A step that touches groups only.
LEMMA GroupedKeepsWindows ==
  ASSUME WindowsInv,
         \/ \E t \in Threads : \/ \E b \in Batch : UpdateLoad(t, b)
                               \/ UpdateStore(t) \/ UpdateFails(t) \/ CombinePairs(t)
         \/ \E from \in SUBSET Threads : CombineLoad(from)
         \/ CombineStore \/ CombineFails \/ \E chunk \in SUBSET Keys : Finalize(chunk)
  PROVE  WindowsInv'
<1>1. CASE (\E t \in Threads : UpdateFails(t)) \/ CombineFails
  <2>1. UNCHANGED <<plan, windows>> /\ pc' = "failing" /\ plan = "grouped"
    BY <1>1 DEF UpdateFails, CombineFails
  <2> QED BY <2>1 DEF WindowsInv, windows, Running, WindowTypes, WindowsReadTheirPartition
<1>2. CASE ~((\E t \in Threads : UpdateFails(t)) \/ CombineFails)
  <2>1. UNCHANGED <<plan, pc, windows>>
    BY <1>2 DEF UpdateLoad, UpdateStore, CombinePairs, CombineLoad, CombineStore, Finalize
  <2> QED BY <2>1, WindowsKept
<1> QED BY <1>1, <1>2

LEMMA EntriesOf ==
  ASSUME WindowTypes, NEW w \in pool PROVE \A i \in DOMAIN cached[w] : cached[w][i] \in Entries
<1>1. cached[w] \in Seq(Entries)
  BY DEF WindowTypes
<1> QED BY <1>1, LenProperties, ElementOfSeq

\* A partition that is shipped replaces the one its worker caches under the
\* id; no other worker caches one.
LEMMA WindowInitInv ==
  ASSUME WindowsInv, ~Rebuilds, NEW w \in Workers, NEW p \in Partitions, WindowInit(w, p)
  PROVE  WindowsInv'
<1> DEFINE e == [id |-> p, build |-> builds[p] + 1]
<1>1. /\ Running("windowed") /\ w \in pool
      /\ builds[p] = 0 \/ pool = {w}
      /\ WindowTypes /\ CachesAreCurrent /\ RowsAreCurrent /\ builds[p] \in Nat
      /\ UNCHANGED <<plan, pc, pool, served>>
  BY DEF WindowInit, MayBuild, WindowsInv, WindowTypes
<1>2. /\ builds' = [builds EXCEPT ![p] = builds[p] + 1]
      /\ builds'[p] = builds[p] + 1 /\ e \in Entries
  BY <1>1 DEF WindowInit, WindowTypes, Entries
<1>3. /\ partitionRow' = [partitionRow EXCEPT ![p] = builds[p] + 1]
      /\ cached' = [cached EXCEPT ![w] = Put(cached[w], e)] /\ live' = live \cup {p}
  BY <1>1, <1>2 DEF WindowInit, CachedIn
<1> HIDE DEF e
<1>4. /\ Put(cached[w], e) \in Seq(Entries) /\ OneEntryEach(Put(cached[w], e))
      /\ \A i \in DOMAIN Put(cached[w], e) :
           \/ Put(cached[w], e)[i] = e
           \/ \E j \in DOMAIN cached[w] : Put(cached[w], e)[i] = cached[w][j] /\ cached[w][j].id # e.id
  BY <1>1, <1>2, PutEntries DEF WindowTypes
<1>5. WindowTypes'
  BY <1>1, <1>2, <1>3, <1>4 DEF WindowTypes
<1>6. CachesAreCurrent'
  <2> SUFFICES ASSUME NEW v \in pool, NEW i \in DOMAIN cached'[v]
               PROVE  cached'[v][i].build = builds'[cached'[v][i].id]
    BY <1>1 DEF CachesAreCurrent
  <2>1. ASSUME NEW u \in pool, NEW j \in DOMAIN cached[u], cached[u][j].id # p
        PROVE  cached[u][j].build = builds'[cached[u][j].id]
    <3>1. cached[u][j].build = builds[cached[u][j].id] /\ cached[u][j].id \in Partitions
      BY <1>1, EntriesOf DEF CachesAreCurrent, Entries
    <3> QED BY <1>1, <1>2, <2>1, <3>1 DEF WindowTypes
  <2>2. CASE v = w
    <3>1. cached'[v] = Put(cached[w], e)
      BY <1>1, <1>3, <2>2 DEF WindowTypes
    <3>2. e.id = p /\ e.build = builds'[p]
      BY <1>2 DEF e
    <3> QED BY <1>1, <1>4, <2>1, <3>1, <3>2
  <2>3. CASE v # w
    <3>1. cached'[v] = cached[v] /\ builds[p] = 0
      BY <1>1, <1>3, <2>3 DEF WindowTypes
    <3>2. cached[v][i].build = builds[cached[v][i].id] /\ cached[v][i].build # 0
      BY <1>1, <3>1, EntriesOf DEF CachesAreCurrent, Entries
    <3>3. cached[v][i].id # p
      BY <3>1, <3>2
    <3> QED BY <2>1, <3>1, <3>3
  <2> QED BY <2>2, <2>3
<1>7. RowsAreCurrent'
  BY <1>1, <1>2, <1>3 DEF RowsAreCurrent, WindowTypes
<1>8. WindowsReadTheirPartition'
  BY <1>1 DEF WindowsInv, WindowsReadTheirPartition
<1> QED BY <1>5, <1>6, <1>7, <1>8 DEF WindowsInv

\* A worker caches, or caches again, the partition that was shipped last.
LEMMA CachedAgain ==
  ASSUME WindowTypes, CachesAreCurrent, NEW w \in pool, NEW e \in Entries, e.build = builds[e.id],
         cached' = [cached EXCEPT ![w] = Put(cached[w], e)],
         UNCHANGED <<pool, live, builds, partitionRow>>
  PROVE  WindowTypes' /\ CachesAreCurrent'
<1>1. /\ Put(cached[w], e) \in Seq(Entries) /\ OneEntryEach(Put(cached[w], e))
      /\ \A i \in DOMAIN Put(cached[w], e) :
           \/ Put(cached[w], e)[i] = e
           \/ \E j \in DOMAIN cached[w] : Put(cached[w], e)[i] = cached[w][j] /\ cached[w][j].id # e.id
  BY PutEntries DEF WindowTypes
<1>2. WindowTypes'
  BY <1>1 DEF WindowTypes
<1>3. CachesAreCurrent'
  <2>1. \A i \in DOMAIN Put(cached[w], e) : Put(cached[w], e)[i].build = builds[Put(cached[w], e)[i].id]
    BY <1>1 DEF CachesAreCurrent
  <2> QED BY <2>1 DEF CachesAreCurrent, WindowTypes
<1> QED BY <1>2, <1>3

LEMMA WindowAnswersInv ==
  ASSUME WindowsInv, NEW w \in Workers, NEW p \in Partitions, WindowCached(w, p) \/ WindowLoaded(w, p)
  PROVE  WindowsInv'
<1>1. /\ Running("windowed") /\ w \in pool /\ p \in live
      /\ WindowTypes /\ CachesAreCurrent /\ RowsAreCurrent /\ builds[p] \in Nat \ {0}
      /\ UNCHANGED <<plan, pool, live, builds, partitionRow>>
  BY DEF WindowCached, WindowLoaded, WindowsInv, WindowTypes, RowsAreCurrent
<1>2. CASE WindowCached(w, p)
  <2> PICK e \in Hits(cached[w], p) :
        /\ cached' = [cached EXCEPT ![w] = Put(cached[w], e)]
        /\ served' = served \cup {[wanted |-> builds[p], used |-> e.build]}
    BY <1>1, <1>2 DEF WindowCached
  <2>1. e \in Entries /\ e.id = p /\ e.build = builds[p]
    BY <1>1, EntriesOf DEF Hits, CachesAreCurrent
  <2>2. WindowTypes' /\ CachesAreCurrent'
    BY <1>1, <2>1, CachedAgain
  <2>3. RowsAreCurrent' /\ WindowsReadTheirPartition'
    BY <1>1, <2>1 DEF RowsAreCurrent, WindowsInv, WindowsReadTheirPartition
  <2> QED BY <2>2, <2>3 DEF WindowsInv
<1>3. CASE WindowLoaded(w, p)
  <2> DEFINE e == [id |-> p, build |-> builds[p]]
  <2>1. partitionRow[p] = builds[p] /\ partitionRow[p] # None
    BY <1>1, NoneIsApart DEF RowsAreCurrent
  <2>2. /\ cached' = [cached EXCEPT ![w] = Put(cached[w], e)]
        /\ served' = served \cup {[wanted |-> builds[p], used |-> builds[p]]}
    BY <1>1, <1>3, <2>1 DEF WindowLoaded
  <2>3. e \in Entries /\ e.build = builds[e.id]
    BY <1>1 DEF Entries
  <2> HIDE DEF e
  <2>4. WindowTypes' /\ CachesAreCurrent'
    BY <1>1, <2>2, <2>3, CachedAgain
  <2>5. RowsAreCurrent' /\ WindowsReadTheirPartition'
    BY <1>1, <2>2 DEF RowsAreCurrent, WindowsInv, WindowsReadTheirPartition
  <2> QED BY <2>4, <2>5 DEF WindowsInv
<1> QED BY <1>2, <1>3

\* A cache that forgets is still current.
LEMMA Forgets ==
  ASSUME WindowTypes, NEW w \in Workers, NEW c \in Seq(Entries), OneEntryEach(c),
         \A i \in DOMAIN c : \E j \in DOMAIN cached[w] : c[i] = cached[w][j],
         cached' = [cached EXCEPT ![w] = c], UNCHANGED <<pool, builds>>,
         live' \subseteq Partitions, partitionRow' \in [Partitions -> Nat \cup {None}]
  PROVE  WindowTypes' /\ (CachesAreCurrent => CachesAreCurrent')
  BY DEF WindowTypes, CachesAreCurrent

LEMMA WindowDestroyInv ==
  ASSUME WindowsInv, NEW w \in Workers, NEW p \in Partitions, WindowDestroy(w, p)
  PROVE  WindowsInv'
<1>1. /\ WindowTypes /\ CachesAreCurrent /\ RowsAreCurrent
      /\ partitionRow' = [partitionRow EXCEPT ![p] = None]
      /\ cached' = [cached EXCEPT ![w] = Without(cached[w], p)] /\ live' = live \ {p}
      /\ UNCHANGED <<plan, pc, pool, builds, served>>
  BY DEF WindowDestroy, WindowsInv
<1>2. /\ Without(cached[w], p) \in Seq(Entries) /\ OneEntryEach(Without(cached[w], p))
      /\ \A i \in DOMAIN Without(cached[w], p) :
           \E j \in DOMAIN cached[w] : Without(cached[w], p)[i] = cached[w][j]
  BY <1>1, WithoutEntries DEF WindowTypes
<1>3. live' \subseteq Partitions /\ partitionRow' \in [Partitions -> Nat \cup {None}]
  BY <1>1 DEF WindowTypes
<1>4. WindowTypes' /\ CachesAreCurrent'
  BY <1>1, <1>2, <1>3, Forgets
<1>5. RowsAreCurrent' /\ WindowsReadTheirPartition'
  BY <1>1 DEF RowsAreCurrent, WindowTypes, WindowsInv, WindowsReadTheirPartition
<1> QED BY <1>4, <1>5 DEF WindowsInv

LEMMA RestartInv ==
  ASSUME WindowsInv, NEW w \in Workers, Restart(w)
  PROVE  WindowsInv'
<1>1. /\ WindowTypes /\ cached' = [cached EXCEPT ![w] = <<>>]
      /\ UNCHANGED <<plan, pc, pool, partitionRow, builds, live, served>>
  BY DEF Restart, WindowsInv
<1>2. <<>> \in Seq(Entries) /\ OneEntryEach(<<>>) /\ DOMAIN <<>> = {}
  BY EmptySeq, LenProperties DEF OneEntryEach
<1>3. WindowTypes' /\ (CachesAreCurrent => CachesAreCurrent')
  BY <1>1, <1>2, Forgets DEF WindowTypes
<1>4. WindowsReadTheirPartition' /\ (RowsAreCurrent => RowsAreCurrent')
  BY <1>1 DEF RowsAreCurrent, WindowsInv, WindowsReadTheirPartition
<1> QED BY <1>1, <1>3, <1>4 DEF WindowsInv, Running

\* A request that fails may leave a row behind: the call fails, or does not
\* use the id again before it has shipped another partition.
LEMMA WindowFailuresInv ==
  ASSUME WindowsInv, NEW p \in Partitions, WindowInitFails(p) \/ WindowDestroyFails(p)
  PROVE  WindowsInv'
<1>1. CASE WindowInitFails(p)
  <2>1. /\ WindowTypes /\ builds[p] \in Nat /\ pc' = "failing"
        /\ builds' = [builds EXCEPT ![p] = builds[p] + 1] /\ builds'[p] \in Nat
        /\ partitionRow' = partitionRow \/ partitionRow' = [partitionRow EXCEPT ![p] = builds'[p]]
        /\ UNCHANGED <<plan, pool, cached, live, served>>
    BY <1>1 DEF WindowInitFails, WindowsInv, WindowTypes
  <2>2. WindowTypes'
    BY <2>1 DEF WindowTypes
  <2>3. WindowsReadTheirPartition'
    BY <2>1 DEF WindowsInv, WindowsReadTheirPartition
  <2> QED BY <2>1, <2>2, <2>3 DEF WindowsInv, Running
<1>2. CASE WindowDestroyFails(p)
  <2>1. live' = live \ {p} /\ UNCHANGED <<plan, pc, pool, partitionRow, cached, builds, served>>
    BY <1>2 DEF WindowDestroyFails
  <2> QED BY <2>1 DEF WindowsInv, Running, WindowTypes, WindowsReadTheirPartition,
                      CachesAreCurrent, RowsAreCurrent
<1> QED BY <1>1, <1>2

LEMMA DestroyWindowsInv ==
  ASSUME WindowsInv, (\E w \in Workers : DestroyOn(w)) \/ DestroyGroups
  PROVE  WindowsInv'
<1>1. /\ pc' = "destroyed" /\ partitionRow' = [p \in Partitions |-> None]
      /\ cached' = cached \/ \E w \in Workers : cached' = [cached EXCEPT ![w] = <<>>]
      /\ UNCHANGED <<plan, pool, builds, live, served>>
  BY DEF DestroyOn, DestroyGroups, Destroy
<1>2. <<>> \in Seq(Entries) /\ OneEntryEach(<<>>)
  BY EmptySeq, LenProperties DEF OneEntryEach
<1>3. WindowTypes'
  BY <1>1, <1>2 DEF WindowsInv, WindowTypes
<1>4. WindowsReadTheirPartition'
  BY <1>1 DEF WindowsInv, WindowsReadTheirPartition
<1> QED BY <1>1, <1>3, <1>4 DEF WindowsInv, Running

LEMMA WindowsNextInv == ASSUME WindowsInv, ~Rebuilds, [Next]_vars PROVE WindowsInv'
<1>1. CASE UNCHANGED vars
  BY <1>1, WindowsKept DEF vars, execution
<1>2. CASE Streamed
  BY <1>2, WindowsKept DEF Streamed, execution
<1>3. ASSUME NEW t \in Threads,
             \/ \E b \in Batch : UpdateLoad(t, b)
             \/ UpdateStore(t) \/ UpdateFails(t) \/ CombinePairs(t)
      PROVE  WindowsInv'
  BY <1>3, GroupedKeepsWindows
<1>4. CASE \/ \E from \in SUBSET Threads : CombineLoad(from)
           \/ CombineStore \/ CombineFails \/ \E chunk \in SUBSET Keys : Finalize(chunk)
  BY <1>4, GroupedKeepsWindows
<1>5. ASSUME NEW w \in Workers, NEW p \in Partitions,
             WindowInit(w, p) \/ WindowCached(w, p) \/ WindowLoaded(w, p) \/ WindowDestroy(w, p)
      PROVE  WindowsInv'
  BY <1>5, WindowInitInv, WindowAnswersInv, WindowDestroyInv
<1>6. ASSUME NEW p \in Partitions, WindowInitFails(p) \/ WindowDestroyFails(p)
      PROVE  WindowsInv'
  BY <1>6, WindowFailuresInv
<1>7. ASSUME NEW w \in Workers, Restart(w) \/ DestroyOn(w)
      PROVE  WindowsInv'
  BY <1>7, RestartInv, DestroyWindowsInv
<1>8. CASE CallerFails
  BY <1>8, WindowsKept DEF CallerFails
<1>9. CASE DestroyGroups
  BY <1>9, DestroyWindowsInv
<1> QED BY <1>1, <1>2, <1>3, <1>4, <1>5, <1>6, <1>7, <1>8, <1>9 DEF Next

\* Across evictions, restarts, failures and workers, a windowed answer is
\* computed over the partition shipped last under its id, and none is
\* refused, where an id is reused only in a call that one worker serves
\* (aggregate_window_init, _window_batch, _window_destructor).
THEOREM AnswersReadTheirPartition ==
  ASSUME ~Rebuilds PROVE Spec => []WindowsReadTheirPartition
<1>1. WindowsInv /\ [Next]_vars => WindowsInv'
  BY WindowsNextInv
<1>2. WindowsInv => WindowsReadTheirPartition
  BY DEF WindowsInv
<1> QED BY <1>1, <1>2, WindowsInitInv, PTL DEF Spec
=============================================================================
