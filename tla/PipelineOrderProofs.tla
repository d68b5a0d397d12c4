------------------------- MODULE PipelineOrderProofs -------------------------
(***************************************************************************)
(* The order in which the engine gets a request's points of one table      *)
(* (InOrder), for every number of requests and tables and every batch size.*)
(***************************************************************************)
EXTENDS PipelineProofs

(***************************************************************************)
(* The order of a request's points of one table.  The chunks in the engine *)
(* come before those being written, these before the queue, this before    *)
(* the chunk a request is submitting, and this before what the request     *)
(* still holds.                                                            *)
(***************************************************************************)
Ordered(c, d) ==
  c.h = d.h /\ c.t = d.t => \A p \in Range(c.pts), q \in Range(d.pts) : p < q

Ahead(s, c) == \A i \in DOMAIN s : Ordered(s[i], c)

Precedes(s, r) == \A j \in DOMAIN r : Ahead(s, r[j])

Sorted(s) == \A i, j \in DOMAIN s : i < j => Ordered(s[i], s[j])

Ascending(s) == \A i, j \in DOMAIN s : i < j => s[i] < s[j]

\* The points of a chunk are in order, and were decoded before the next one.
Fresh(c, n) == Ascending(c.pts) /\ \A p \in Range(c.pts) : p < n

AllFresh(s, n) == \A i \in DOMAIN s : Fresh(s[i], n)

AheadAll(c) == Ahead(stored, c) /\ Ahead(taken, c) /\ Ahead(buf, c)

HeldChunk(h, t) == [h |-> h, t |-> t, pts |-> Held(req[h], t)]

QueueOrder ==
  /\ Sorted(stored) /\ Sorted(taken) /\ Sorted(buf)
  /\ Precedes(stored, taken) /\ Precedes(stored, buf) /\ Precedes(taken, buf)
  /\ AllFresh(stored, nextPoint) /\ AllFresh(taken, nextPoint) /\ AllFresh(buf, nextPoint)

RequestOrder(h) ==
  /\ \A t \in Tables : AheadAll(HeldChunk(h, t)) /\ Fresh(HeldChunk(h, t), nextPoint)
  /\ hpc[h] \in {"submit", "parked"} =>
       /\ AheadAll(req[h].chunk) /\ Fresh(req[h].chunk, nextPoint)
       /\ \A t \in Tables : Ordered(req[h].chunk, HeldChunk(h, t))

OrderInv == QueueOrder /\ \A h \in Handlers : RequestOrder(h)

(***************************************************************************)
(* Chunks, parts of chunks, and sequences of them.                         *)
(***************************************************************************)
Part(x, c) == x.h = c.h /\ x.t = c.t /\ Range(x.pts) \subseteq Range(c.pts)

\* Parts of chunks are ordered as the chunks are.
LEMMA PartOrdered ==
  ASSUME NEW c, NEW d, NEW x, NEW y, Ordered(c, d), Part(x, c), Part(y, d)
  PROVE  Ordered(x, y)
BY DEF Ordered, Part

\* A chunk is a part of itself.
LEMMA PartSelf ==
  ASSUME NEW c
  PROVE  Part(c, c)
BY DEF Part

\* Part of a fresh chunk is fresh when it is in order.
LEMMA PartFresh ==
  ASSUME NEW c, NEW x, NEW n, Part(x, c), Fresh(c, n), Ascending(x.pts)
  PROVE  Fresh(x, n)
BY DEF Part, Fresh

\* Nothing is in order, and ahead of everything.
LEMMA EmptyOrder ==
  ASSUME NEW s
  PROVE  /\ Sorted(<<>>) /\ Precedes(<<>>, s) /\ Precedes(s, <<>>)
         /\ \A n : AllFresh(<<>>, n)
         /\ \A c : Ahead(<<>>, c)
BY DEF Sorted, Precedes, AllFresh, Ahead

\* A chunk appended behind those it follows.
LEMMA AppendOrder ==
  ASSUME NEW s \in Seq(Chunk), NEW c \in Chunk
  PROVE  LET a == Append(s, c) IN
         /\ Sorted(s) /\ Ahead(s, c) => Sorted(a)
         /\ \A r : Precedes(r, s) /\ Ahead(r, c) => Precedes(r, a)
         /\ \A n : AllFresh(s, n) /\ Fresh(c, n) => AllFresh(a, n)
         /\ \A d : Ahead(s, d) /\ Ordered(c, d) => Ahead(a, d)
<1> DEFINE a == Append(s, c)
           n == Len(s) + 1
<1>1. /\ DOMAIN a = DOMAIN s \cup {n} /\ a[n] = c /\ DOMAIN s = 1 .. Len(s) /\ Len(s) \in Nat
      /\ \A i \in DOMAIN s : a[i] = s[i] /\ i < n /\ ~(n < i)
  OBVIOUS
<1>2. ~(n < n)
  BY <1>1
<1> HIDE DEF a, n
<1>3. Sorted(s) /\ Ahead(s, c) => Sorted(a)
  BY <1>1, <1>2 DEF Sorted, Ahead
<1>4. \A r : Precedes(r, s) /\ Ahead(r, c) => Precedes(r, a)
  BY <1>1 DEF Precedes
<1>5. \A m : AllFresh(s, m) /\ Fresh(c, m) => AllFresh(a, m)
  BY <1>1 DEF AllFresh
<1>6. \A d : Ahead(s, d) /\ Ordered(c, d) => Ahead(a, d)
  BY <1>1 DEF Ahead
<1> QED BY <1>3, <1>4, <1>5, <1>6 DEF a

\* What the engine is given next comes before the rest of the batch, and both are parts of it.
LEMMA TakeOrder ==
  ASSUME NEW s \in Seq(Chunk), s # <<>>, Sorted(s), \A i \in DOMAIN s : Ascending(s[i].pts)
  PROVE  LET a == takeFirst(s)[1]
             b == takeFirst(s)[2]
         IN /\ \E i \in DOMAIN s : Part(a, s[i])
            /\ \A j \in DOMAIN b : \E i \in DOMAIN s : Part(b[j], s[i])
            /\ \A j \in DOMAIN b : Ordered(a, b[j])
            /\ Sorted(b) /\ Ascending(a.pts) /\ \A j \in DOMAIN b : Ascending(b[j].pts)
<1> DEFINE a == takeFirst(s)[1]
           b == takeFirst(s)[2]
<1>0. s[1] \in Chunk /\ DOMAIN s = 1 .. Len(s) /\ Len(s) \in Nat \ {0} /\ 1 \in DOMAIN s
  OBVIOUS
<1>1. CASE Len(Head(s).pts) <= batchSize
  <2>1. a = s[1] /\ b = Tail(s)
    BY <1>1, TakeWhole
  <2>2. DOMAIN b = 1 .. Len(s) - 1 /\ \A j \in DOMAIN b : b[j] = s[j + 1] /\ j + 1 \in DOMAIN s /\ 1 < j + 1
    BY <1>0, <2>1
  <2>3. \A i, j \in DOMAIN b : i < j => i + 1 < j + 1
    BY <2>2
  <2> HIDE DEF a, b
  <2>4. Part(a, s[1]) /\ \A j \in DOMAIN b : Part(b[j], s[j + 1])
    BY <2>1, <2>2, PartSelf
  <2>5. \A j \in DOMAIN b : Ordered(a, b[j])
    BY <1>0, <2>1, <2>2 DEF Sorted
  <2>6. Sorted(b)
    BY <2>2, <2>3 DEF Sorted
  <2>7. \E i \in DOMAIN s : Part(a, s[i])
    BY <1>0, <2>4
  <2>8. \A j \in DOMAIN b : \E i \in DOMAIN s : Part(b[j], s[i])
    BY <2>2, <2>4
  <2>9. Ascending(a.pts) /\ \A j \in DOMAIN b : Ascending(b[j].pts)
    BY <1>0, <2>1, <2>2
  <2> QED BY <2>5, <2>6, <2>7, <2>8, <2>9 DEF a, b
<1>2. CASE ~(Len(Head(s).pts) <= batchSize)
  <2> DEFINE n == Len(s[1].pts)
             m == batchSize
  <2>1. /\ a \in Chunk /\ a.h = s[1].h /\ a.t = s[1].t
        /\ n \in Nat /\ n > m /\ m \in Nat \ {0}
        /\ Len(a.pts) = m /\ \A i \in 1 .. m : a.pts[i] = s[1].pts[i]
        /\ b \in Seq(Chunk) /\ Len(b) = Len(s)
        /\ \A i \in 2 .. Len(s) : b[i] = s[i]
        /\ b[1].h = s[1].h /\ b[1].t = s[1].t
        /\ Len(b[1].pts) = n - m
        /\ \A i \in 1 .. n - m : b[1].pts[i] = s[1].pts[i + m]
    BY <1>2, TakePart
  <2> HIDE DEF a, b
  <2>2. DOMAIN b = 1 .. Len(s) /\ b[1] \in Chunk /\ DOMAIN s[1].pts = 1 .. n
    BY <1>0, <2>1, ChunkPts
  <2>3. DOMAIN a.pts = 1 .. m /\ DOMAIN b[1].pts = 1 .. n - m
    <3>1. DOMAIN a.pts = 1 .. Len(a.pts) /\ DOMAIN b[1].pts = 1 .. Len(b[1].pts)
      BY <2>1, <2>2, ChunkPts
    <3> QED BY <2>1, <3>1
  <2> HIDE DEF n, m
  <2>4. Ascending(s[1].pts)
    BY <1>0
  <2>5. \A i \in DOMAIN a.pts : i \in DOMAIN s[1].pts /\ a.pts[i] = s[1].pts[i]
    BY <2>1, <2>2, <2>3
  <2>6. \A i \in DOMAIN b[1].pts : i + m \in DOMAIN s[1].pts /\ b[1].pts[i] = s[1].pts[i + m]
    BY <2>1, <2>2, <2>3
  <2>7. Part(a, s[1]) /\ Part(b[1], s[1])
    BY <2>1, <2>5, <2>6 DEF Part, Range
  <2>8. \A i \in DOMAIN a.pts, j \in DOMAIN b[1].pts : a.pts[i] < b[1].pts[j]
    <3>1. \A i \in DOMAIN a.pts, j \in DOMAIN b[1].pts : i < j + m
      BY <2>1, <2>3
    <3> QED BY <2>4, <2>5, <2>6, <3>1 DEF Ascending
  <2>9. Ordered(a, b[1])
    BY <2>8 DEF Ordered, Range
  <2>10. Ascending(a.pts)
    BY <2>4, <2>5 DEF Ascending
  <2>11. Ascending(b[1].pts)
    <3>1. \A i, j \in DOMAIN b[1].pts : i < j => i + m < j + m
      BY <2>1, <2>3
    <3> QED BY <2>4, <2>6, <3>1 DEF Ascending
  <2>12. \A j \in DOMAIN b : j # 1 => j \in DOMAIN s /\ b[j] = s[j] /\ 1 < j
    BY <1>0, <2>1, <2>2
  <2>13. \A j \in DOMAIN b : Part(b[j], s[j]) /\ j \in DOMAIN s
    BY <1>0, <2>2, <2>7, <2>12, PartSelf
  <2>14. \A j \in DOMAIN b : Ordered(a, b[j])
    <3> TAKE j \in DOMAIN b
    <3>1. CASE j # 1
      BY <1>0, <2>7, <2>12, <2>13, <3>1, PartOrdered DEF Sorted
    <3> QED BY <2>9, <3>1
  <2>15. Sorted(b)
    BY <2>13, PartOrdered DEF Sorted
  <2>16. \A j \in DOMAIN b : Ascending(b[j].pts)
    BY <2>11, <2>12
  <2>17. \E i \in DOMAIN s : Part(a, s[i])
    BY <1>0, <2>7
  <2> QED BY <2>10, <2>13, <2>14, <2>15, <2>16, <2>17 DEF a, b
<1> QED BY <1>1, <1>2

(***************************************************************************)
(* The steps.                                                              *)
(***************************************************************************)

\* Nothing moves between a request, the queue and the engine.
LEMMA QuietOrder ==
  ASSUME OrderInv, UNCHANGED <<stored, taken, buf, nextPoint>>,
         \A h \in Handlers, t \in Tables : Held(req'[h], t) = Held(req[h], t),
         \A h \in Handlers : hpc'[h] \in {"submit", "parked"} =>
                               hpc[h] \in {"submit", "parked"} /\ req'[h].chunk = req[h].chunk
  PROVE  OrderInv'
<1>1. QueueOrder'
  BY DEF OrderInv, QueueOrder
<1>2. \A h \in Handlers : \A t \in Tables : HeldChunk(h, t)' = HeldChunk(h, t)
  BY DEF HeldChunk
<1>3. ASSUME NEW h \in Handlers PROVE RequestOrder(h)'
  <2>1. RequestOrder(h)
    BY DEF OrderInv
  <2>2. \A t \in Tables : HeldChunk(h, t)' = HeldChunk(h, t)
    BY <1>2
  <2>3. \A t \in Tables : (AheadAll(HeldChunk(h, t)) /\ Fresh(HeldChunk(h, t), nextPoint))'
    BY <2>1, <2>2 DEF RequestOrder, AheadAll
  <2>4. hpc'[h] \in {"submit", "parked"} =>
          /\ (AheadAll(req[h].chunk) /\ Fresh(req[h].chunk, nextPoint))'
          /\ \A t \in Tables : Ordered(req[h].chunk, HeldChunk(h, t))'
    BY <2>1, <2>2 DEF RequestOrder, AheadAll
  <2> QED BY <2>3, <2>4 DEF RequestOrder
<1> QED BY <1>1, <1>3 DEF OrderInv

\* The loop and the engine move chunks and no request moves.
LEMMA LoopOrder ==
  ASSUME OrderInv, req' = req, hpc' = hpc, nextPoint' = nextPoint, QueueOrder',
         \A c : AheadAll(c) => Ahead(stored', c) /\ Ahead(taken', c) /\ Ahead(buf', c)
  PROVE  OrderInv'
<1>1. ASSUME NEW h \in Handlers PROVE RequestOrder(h)'
  <2>1. RequestOrder(h)
    BY DEF OrderInv
  <2>2. \A t \in Tables : HeldChunk(h, t)' = HeldChunk(h, t)
    BY DEF HeldChunk
  <2>3. \A t \in Tables : (AheadAll(HeldChunk(h, t)) /\ Fresh(HeldChunk(h, t), nextPoint))'
    BY <2>1, <2>2 DEF RequestOrder, AheadAll
  <2>4. hpc'[h] \in {"submit", "parked"} =>
          /\ (AheadAll(req[h].chunk) /\ Fresh(req[h].chunk, nextPoint))'
          /\ \A t \in Tables : Ordered(req[h].chunk, HeldChunk(h, t))'
    BY <2>1, <2>2 DEF RequestOrder, AheadAll
  <2> QED BY <2>3, <2>4 DEF RequestOrder
<1> QED BY <1>1 DEF OrderInv

\* RunFlush: the queue becomes the batch; the last one was written to its end.
LEMMA FlushOrder ==
  ASSUME PInv, OrderInv, RunFlush, count # 0
  PROVE  OrderInv'
<1>1. /\ taken' = buf /\ buf' = <<>> /\ stored' = stored /\ rpc = "select"
      /\ req' = req /\ hpc' = hpc /\ nextPoint' = nextPoint
  BY DEF RunFlush
<1>2. taken = <<>>
  BY <1>1 DEF PInv, LoopInv
<1>3. QueueOrder'
  BY <1>1, EmptyOrder DEF OrderInv, QueueOrder
<1>4. \A c : AheadAll(c) => Ahead(stored', c) /\ Ahead(taken', c) /\ Ahead(buf', c)
  BY <1>1, EmptyOrder DEF AheadAll
<1> QED BY <1>1, <1>3, <1>4, LoopOrder

\* RunWrite: the engine gets the first part of the batch, or the batch is dropped.
LEMMA WriteOrder ==
  ASSUME PInv, OrderInv, RunWrite
  PROVE  OrderInv'
<1>0. buf \in Seq(Chunk) /\ taken \in Seq(Chunk) /\ stored \in Seq(Chunk)
  BY DEF PInv, Types, QueueTypes
<1>1. taken # <<>> /\ buf' = buf /\ req' = req /\ hpc' = hpc /\ nextPoint' = nextPoint
  BY DEF RunWrite, queue
<1>2. CASE taken' = <<>> /\ stored' = stored
  <2>1. QueueOrder'
    BY <1>1, <1>2, EmptyOrder DEF OrderInv, QueueOrder
  <2>2. \A c : AheadAll(c) => Ahead(stored', c) /\ Ahead(taken', c) /\ Ahead(buf', c)
    BY <1>1, <1>2, EmptyOrder DEF AheadAll
  <2> QED BY <1>1, <2>1, <2>2, LoopOrder
<1>3. CASE stored' = Append(stored, takeFirst(taken)[1]) /\ taken' = takeFirst(taken)[2]
  <2> DEFINE a == takeFirst(taken)[1]
             b == takeFirst(taken)[2]
  <2>1. a \in Chunk /\ b \in Seq(Chunk)
    BY <1>0, <1>1, TakeTypes
  <2>2. /\ Sorted(taken) /\ Sorted(stored) /\ Sorted(buf)
        /\ Precedes(stored, taken) /\ Precedes(stored, buf) /\ Precedes(taken, buf)
        /\ AllFresh(stored, nextPoint) /\ AllFresh(taken, nextPoint) /\ AllFresh(buf, nextPoint)
    BY DEF OrderInv, QueueOrder
  <2>3. \A i \in DOMAIN taken : Ascending(taken[i].pts)
    BY <2>2 DEF AllFresh, Fresh
  <2>4. /\ \E i \in DOMAIN taken : Part(a, taken[i])
        /\ \A j \in DOMAIN b : \E i \in DOMAIN taken : Part(b[j], taken[i])
        /\ \A j \in DOMAIN b : Ordered(a, b[j])
        /\ Sorted(b) /\ Ascending(a.pts) /\ \A j \in DOMAIN b : Ascending(b[j].pts)
    BY <1>0, <1>1, <2>2, <2>3, TakeOrder
  <2> HIDE DEF a, b
  <2>5. \A c : Ahead(taken, c) => Ordered(a, c) /\ Ahead(b, c)
    <3> TAKE c
    <3> HAVE Ahead(taken, c)
    <3>1. \A i \in DOMAIN taken : Ordered(taken[i], c)
      BY DEF Ahead
    <3>2. Part(c, c)
      BY PartSelf
    <3>3. Ordered(a, c)
      BY <2>4, <3>1, <3>2, PartOrdered
    <3>4. \A j \in DOMAIN b : Ordered(b[j], c)
      BY <2>4, <3>1, <3>2, PartOrdered
    <3> QED BY <3>3, <3>4 DEF Ahead
  <2>6. Ahead(stored, a) /\ Precedes(stored, b)
    <3>1. \A k \in DOMAIN stored, i \in DOMAIN taken : Ordered(stored[k], taken[i])
      BY <2>2 DEF Precedes, Ahead
    <3>2. \A k \in DOMAIN stored : Part(stored[k], stored[k])
      BY PartSelf
    <3>3. \A k \in DOMAIN stored : Ordered(stored[k], a)
      BY <2>4, <3>1, <3>2, PartOrdered
    <3>4. \A j \in DOMAIN b : \A k \in DOMAIN stored : Ordered(stored[k], b[j])
      BY <2>4, <3>1, <3>2, PartOrdered
    <3> QED BY <3>3, <3>4 DEF Precedes, Ahead
  <2>7. Fresh(a, nextPoint) /\ AllFresh(b, nextPoint)
    BY <2>2, <2>4, PartFresh DEF AllFresh
  <2>8. Sorted(stored') /\ AllFresh(stored', nextPoint)
    BY <1>0, <1>3, <2>1, <2>2, <2>6, <2>7, AppendOrder DEF a
  <2>9. \A d : Ahead(stored, d) /\ Ordered(a, d) => Ahead(stored', d)
    BY <1>0, <1>3, <2>1, AppendOrder DEF a
  <2>10. Precedes(stored', b)
    BY <2>4, <2>6, <2>9 DEF Precedes
  <2>11. Precedes(stored', buf) /\ Precedes(b, buf)
    BY <2>2, <2>5, <2>9 DEF Precedes
  <2>12. QueueOrder'
    BY <1>1, <1>3, <2>2, <2>4, <2>7, <2>8, <2>10, <2>11 DEF QueueOrder, b
  <2>13. \A c : AheadAll(c) => Ahead(stored', c) /\ Ahead(taken', c) /\ Ahead(buf', c)
    BY <1>1, <1>3, <2>5, <2>9 DEF AheadAll, b
  <2> QED BY <1>1, <2>12, <2>13, LoopOrder
<1> QED BY <1>2, <1>3 DEF RunWrite

\* The fields of what a request holds for a table.
LEMMA HeldIs ==
  ASSUME NEW h, NEW t
  PROVE  HeldChunk(h, t).h = h /\ HeldChunk(h, t).t = t /\ HeldChunk(h, t).pts = Held(req[h], t)
BY DEF HeldChunk

\* Chunks of two requests, or of two tables, are in any order.
LEMMA OtherOrder ==
  ASSUME NEW c, NEW d, c.h # d.h \/ c.t # d.t
  PROVE  Ordered(c, d)
BY DEF Ordered

\* The other requests keep what they hold.
LEMMA OthersHeld ==
  ASSUME PInv, NEW h \in Handlers, OneRequest(h), NEW k \in Handlers, k # h
  PROVE  req'[k] = req[k] /\ hpc'[k] = hpc[k] /\ \A t : HeldChunk(k, t)' = HeldChunk(k, t)
<1>1. req'[k] = req[k] /\ hpc'[k] = hpc[k]
  BY DEF OneRequest, PInv, RequestInv
<1> QED BY <1>1 DEF HeldChunk

\* Submit: the chunk joins the queue.
LEMMA SubmitOrder ==
  ASSUME PInv, OrderInv, NEW h \in Handlers, Submit(h)
  PROVE  OrderInv'
<1> DEFINE c == req[h].chunk
<1>0. buf \in Seq(Chunk) /\ taken \in Seq(Chunk) /\ stored \in Seq(Chunk)
  BY DEF PInv, Types, QueueTypes
<1>1. /\ OneRequest(h) /\ hpc[h] = "submit" /\ c \in Chunk /\ c.h = h
      /\ \A u \in Tables : Held(req'[h], u) = Held(req[h], u)
      /\ UNCHANGED <<stored, taken, nextPoint>>
  BY SubmitEffect DEF Submit, loop
<1>2. CASE hpc'[h] = "parked" /\ req' = req /\ buf' = buf
  <2>1. \A k \in Handlers : k # h => hpc'[k] = hpc[k]
    BY <1>1, OthersHeld
  <2> QED BY <1>1, <1>2, <2>1, QuietOrder
<1>3. CASE hpc'[h] \in {"signal", "flush"} /\ buf' = Append(buf, c)
  <2>1. QueueOrder /\ RequestOrder(h)
    BY DEF OrderInv
  <2>2. /\ AheadAll(c) /\ Fresh(c, nextPoint)
        /\ \A t \in Tables : Ordered(c, HeldChunk(h, t))
    BY <1>1, <2>1 DEF RequestOrder
  <2> HIDE DEF c
  <2>3. QueueOrder'
    BY <1>0, <1>1, <1>3, <2>1, <2>2, AppendOrder DEF QueueOrder, AheadAll
  <2>4. \A d : Ahead(buf, d) /\ Ordered(c, d) => Ahead(buf', d)
    BY <1>0, <1>1, <1>3, AppendOrder
  <2>5. \A t \in Tables : HeldChunk(h, t)' = HeldChunk(h, t)
    BY <1>1 DEF HeldChunk
  <2>6. ASSUME NEW k \in Handlers PROVE RequestOrder(k)'
    <3>1. RequestOrder(k)
      BY DEF OrderInv
    <3>2. CASE k = h
      <4>1. \A t \in Tables : (AheadAll(HeldChunk(h, t)) /\ Fresh(HeldChunk(h, t), nextPoint))'
        BY <1>1, <2>1, <2>2, <2>4, <2>5 DEF RequestOrder, AheadAll
      <4> QED BY <1>3, <3>2, <4>1 DEF RequestOrder
    <3>3. CASE k # h
      <4>1. req'[k] = req[k] /\ hpc'[k] = hpc[k] /\ \A t : HeldChunk(k, t)' = HeldChunk(k, t)
        BY <1>1, <3>3, OthersHeld
      <4>2. \A t \in Tables : Ordered(c, HeldChunk(k, t))
        BY <1>1, <3>3, HeldIs, OtherOrder
      <4>3. \A t \in Tables : (AheadAll(HeldChunk(k, t)) /\ Fresh(HeldChunk(k, t), nextPoint))'
        BY <1>1, <2>4, <3>1, <4>1, <4>2 DEF RequestOrder, AheadAll
      <4>4. ASSUME hpc'[k] \in {"submit", "parked"}
            PROVE  /\ (AheadAll(req[k].chunk) /\ Fresh(req[k].chunk, nextPoint))'
                   /\ \A t \in Tables : Ordered(req[k].chunk, HeldChunk(k, t))'
        <5>1. req[k].chunk.h = k
          BY <4>1, <4>4 DEF PInv, RequestInv, RequestOk
        <5>2. Ordered(c, req[k].chunk)
          BY <1>1, <3>3, <5>1, OtherOrder
        <5> QED BY <1>1, <2>4, <3>1, <4>1, <4>4, <5>2 DEF RequestOrder, AheadAll
      <4> QED BY <4>3, <4>4 DEF RequestOrder
    <3> QED BY <3>2, <3>3
  <2> QED BY <2>3, <2>6 DEF OrderInv
<1> QED BY <1>2, <1>3, SubmitEffect

\* What a request hands over was all it held for the table: it comes after everything on its way,
\* and before all that will be held.
LEMMA HandOrder ==
  ASSUME PInv, OrderInv, NEW h \in Handlers, OneRequest(h), NEW c, HandsOver(h, c)
  PROVE  /\ AheadAll(c) /\ Fresh(c, nextPoint)
         /\ \A k \in Handlers, t \in Tables :
              /\ Ordered(c, HeldChunk(k, t)')
              /\ Part(HeldChunk(k, t)', HeldChunk(k, t))
              /\ Ascending((HeldChunk(k, t)').pts)
<1> DEFINE H == HeldChunk(h, c.t)
<1>1. c \in Chunk /\ c.h = h /\ c.pts = Held(req[h], c.t) /\ c.t \in Tables
  BY DEF HandsOver, Chunk
<1>2. H.h = h /\ H.t = c.t /\ H.pts = c.pts
  BY <1>1, HeldIs
<1>3. AheadAll(H) /\ Fresh(H, nextPoint)
  BY <1>1 DEF OrderInv, RequestOrder
<1> HIDE DEF H
<1>4. \A x : Ordered(x, H) => Ordered(x, c)
  BY <1>1, <1>2 DEF Ordered
<1>5. AheadAll(c) /\ Fresh(c, nextPoint)
  BY <1>2, <1>3, <1>4 DEF AheadAll, Ahead, Fresh
<1>6. ASSUME NEW k \in Handlers, NEW t \in Tables
      PROVE  /\ Ordered(c, HeldChunk(k, t)')
             /\ Part(HeldChunk(k, t)', HeldChunk(k, t))
             /\ Ascending((HeldChunk(k, t)').pts)
  <2> DEFINE G == HeldChunk(k, t)'
  <2>1. G.h = k /\ G.t = t /\ G.pts = Held(req'[k], t)
    BY DEF HeldChunk
  <2> HIDE DEF G
  <2>2. Ascending(HeldChunk(k, t).pts)
    BY DEF OrderInv, RequestOrder, Fresh
  <2>3. CASE k # h
    <3>1. G = HeldChunk(k, t)
      BY <2>3, OthersHeld DEF G
    <3>2. Ordered(c, G)
      BY <1>1, <2>1, <2>3, OtherOrder
    <3> QED BY <2>2, <3>1, <3>2, PartSelf DEF G
  <2>4. CASE k = h /\ t # c.t
    <3>1. Held(req'[k], t) = Held(req[k], t)
      BY <2>4 DEF HandsOver
    <3>2. G = HeldChunk(k, t)
      BY <3>1 DEF G, HeldChunk
    <3>3. Ordered(c, G)
      BY <2>1, <2>4, OtherOrder
    <3> QED BY <2>2, <3>2, <3>3, PartSelf DEF G
  <2>5. CASE k = h /\ t = c.t
    <3>1. G.pts = <<>>
      BY <2>1, <2>5 DEF HandsOver
    <3>2. Range(G.pts) = {} /\ Ascending(G.pts)
      BY <3>1 DEF Range, Ascending
    <3>3. Ordered(c, G)
      BY <3>2 DEF Ordered
    <3>4. Part(G, HeldChunk(k, t))
      BY <2>1, <3>2, HeldIs DEF Part
    <3> QED BY <3>2, <3>3, <3>4 DEF G
  <2> QED BY <2>3, <2>4, <2>5
<1> QED BY <1>5, <1>6

\* IngestSubmit: the chunk leaves what is held for the call of Submit.
LEMMA IngestOrder ==
  ASSUME PInv, OrderInv, NEW h \in Handlers, IngestSubmit(h)
  PROVE  OrderInv'
<1> DEFINE c == req'[h].chunk
<1>1. OneRequest(h) /\ HandsOver(h, c) /\ UNCHANGED <<stored, taken, buf, nextPoint>>
  BY IngestEffect DEF IngestSubmit, queue, loop
<1>2. /\ AheadAll(c) /\ Fresh(c, nextPoint)
      /\ \A k \in Handlers, t \in Tables :
           /\ Ordered(c, HeldChunk(k, t)')
           /\ Part(HeldChunk(k, t)', HeldChunk(k, t))
           /\ Ascending((HeldChunk(k, t)').pts)
  BY <1>1, HandOrder
<1>3. QueueOrder'
  BY <1>1 DEF OrderInv, QueueOrder
<1>4. ASSUME NEW k \in Handlers PROVE RequestOrder(k)'
  <2>1. RequestOrder(k)
    BY DEF OrderInv
  <2>2. ASSUME NEW t \in Tables
        PROVE  (AheadAll(HeldChunk(k, t)) /\ Fresh(HeldChunk(k, t), nextPoint))'
    <3> DEFINE G == HeldChunk(k, t)'
               H == HeldChunk(k, t)
    <3>1. Part(G, H) /\ Ascending(G.pts) /\ AheadAll(H) /\ Fresh(H, nextPoint)
      BY <1>2, <2>1 DEF RequestOrder
    <3> HIDE DEF G, H
    <3>2. \A x : Ordered(x, H) => Ordered(x, G)
      BY <3>1, PartSelf, PartOrdered
    <3>3. Ahead(stored, G) /\ Ahead(taken, G) /\ Ahead(buf, G)
      BY <3>1, <3>2 DEF AheadAll, Ahead
    <3>4. Fresh(G, nextPoint)
      BY <3>1, PartFresh
    <3> QED BY <1>1, <3>3, <3>4 DEF AheadAll, G
  <2>3. CASE k = h
    BY <1>1, <1>2, <2>2, <2>3 DEF RequestOrder, AheadAll
  <2>4. CASE k # h
    <3>1. req'[k] = req[k] /\ hpc'[k] = hpc[k] /\ \A t : HeldChunk(k, t)' = HeldChunk(k, t)
      BY <1>1, <2>4, OthersHeld
    <3> QED BY <1>1, <2>1, <2>2, <3>1 DEF RequestOrder, AheadAll
  <2> QED BY <2>3, <2>4
<1> QED BY <1>3, <1>4 DEF OrderInv

\* IngestDirect: without the pipeline the chunk goes to the engine at once.
LEMMA DirectOrder ==
  ASSUME PInv, OrderInv, NEW h \in Handlers, IngestDirect(h)
  PROVE  OrderInv'
<1>0. stored \in Seq(Chunk)
  BY DEF PInv, Types, QueueTypes
<1>1. OneRequest(h) /\ UNCHANGED <<taken, buf, nextPoint>> /\ ~pipelined /\ hpc'[h] \in {"flush", "failed"}
  BY DirectEffect DEF IngestDirect, queue, loop
<1>2. /\ buf = <<>> /\ taken = <<>>
      /\ \A k \in Handlers : hpc[k] \notin {"submit", "parked"}
  BY <1>1 DEF PInv, LoopInv
<1>3. \A k \in Handlers : hpc'[k] \notin {"submit", "parked"}
  <2>1. \A k \in Handlers : k # h => hpc'[k] = hpc[k]
    BY <1>1, OthersHeld
  <2> QED BY <1>1, <1>2, <2>1
<1>4. CASE req' = req /\ stored' = stored
  BY <1>1, <1>3, <1>4, QuietOrder
<1>5. ASSUME NEW c \in Chunk, HandsOver(h, c), stored' = Append(stored, c)
      PROVE  OrderInv'
  <2>1. /\ AheadAll(c) /\ Fresh(c, nextPoint)
        /\ \A k \in Handlers, t \in Tables :
             /\ Ordered(c, HeldChunk(k, t)')
             /\ Part(HeldChunk(k, t)', HeldChunk(k, t))
             /\ Ascending((HeldChunk(k, t)').pts)
    BY <1>1, <1>5, HandOrder
  <2>2. /\ Sorted(stored') /\ AllFresh(stored', nextPoint)
        /\ \A d : Ahead(stored, d) /\ Ordered(c, d) => Ahead(stored', d)
    BY <1>0, <1>5, <2>1, AppendOrder DEF OrderInv, QueueOrder, AheadAll
  <2>3. QueueOrder'
    BY <1>1, <1>2, <2>2, EmptyOrder DEF QueueOrder
  <2>4. ASSUME NEW k \in Handlers PROVE RequestOrder(k)'
    <3>1. RequestOrder(k)
      BY DEF OrderInv
    <3>2. ASSUME NEW t \in Tables
          PROVE  (AheadAll(HeldChunk(k, t)) /\ Fresh(HeldChunk(k, t), nextPoint))'
      <4> DEFINE G == HeldChunk(k, t)'
                 H == HeldChunk(k, t)
      <4>1. Part(G, H) /\ Ascending(G.pts) /\ AheadAll(H) /\ Fresh(H, nextPoint) /\ Ordered(c, G)
        BY <2>1, <3>1 DEF RequestOrder
      <4> HIDE DEF G, H
      <4>2. \A x : Ordered(x, H) => Ordered(x, G)
        BY <4>1, PartSelf, PartOrdered
      <4>3. Ahead(stored, G)
        BY <4>1, <4>2 DEF AheadAll, Ahead
      <4>4. Ahead(stored', G) /\ Ahead(taken', G) /\ Ahead(buf', G)
        BY <1>1, <1>2, <2>2, <4>1, <4>3, EmptyOrder
      <4>5. Fresh(G, nextPoint)
        BY <4>1, PartFresh
      <4> QED BY <1>1, <4>4, <4>5 DEF AheadAll, G
    <3> QED BY <1>3, <3>2 DEF RequestOrder
  <2> QED BY <2>3, <2>4 DEF OrderInv
<1> QED BY <1>4, <1>5, DirectEffect

\* Add: the new point comes after every other.
LEMMA AddOrder ==
  ASSUME PInv, OrderInv, NEW h \in Handlers, Add(h)
  PROVE  OrderInv'
<1> DEFINE n == nextPoint
<1>1. /\ OneRequest(h) /\ UNCHANGED <<stored, taken, buf>> /\ n \in Nat /\ nextPoint' = n + 1
      /\ hpc'[h] \in {"decode", "flush"}
  BY AddEffect DEF Add, queue, loop, PInv, RequestInv
<1>2. PICK t \in Tables : \A u \in Tables :
        Held(req'[h], u) = IF u = t THEN Append(Held(req[h], t), nextPoint) ELSE Held(req[h], u)
  BY AddEffect
<1>0. buf \in Seq(Chunk) /\ taken \in Seq(Chunk) /\ stored \in Seq(Chunk)
  BY DEF PInv, Types, QueueTypes
<1>3. \A c : c.pts \in Seq(Nat) /\ Fresh(c, n) => Fresh(c, n + 1)
  <2> TAKE c
  <2> HAVE c.pts \in Seq(Nat) /\ Fresh(c, n)
  <2>1. Range(c.pts) \subseteq Nat
    BY DEF Range
  <2> QED BY <1>1, <2>1 DEF Fresh
<1>4. \A s \in Seq(Chunk) : AllFresh(s, n) => AllFresh(s, n + 1)
  <2> TAKE s \in Seq(Chunk)
  <2> HAVE AllFresh(s, n)
  <2>1. \A i \in DOMAIN s : s[i].pts \in Seq(Nat)
    <3>1. \A i \in DOMAIN s : s[i] \in Chunk
      OBVIOUS
    <3> QED BY <3>1, ChunkPts
  <2> QED BY <1>3, <2>1 DEF AllFresh
<1>5. QueueOrder'
  BY <1>0, <1>1, <1>4 DEF OrderInv, QueueOrder
<1>6. ASSUME NEW k \in Handlers, k # h PROVE RequestOrder(k)'
  <2>1. RequestOrder(k)
    BY DEF OrderInv
  <2>2. req'[k] = req[k] /\ hpc'[k] = hpc[k] /\ \A u : HeldChunk(k, u)' = HeldChunk(k, u)
    BY <1>1, <1>6, OthersHeld
  <2>3. \A u \in Tables : HeldChunk(k, u).pts \in Seq(Nat)
    <3>1. req[k] \in Request
      BY DEF PInv, RequestInv
    <3> QED BY <3>1, HeldType, HeldIs DEF Points
  <2>4. \A u \in Tables : (AheadAll(HeldChunk(k, u)) /\ Fresh(HeldChunk(k, u), nextPoint))'
    BY <1>1, <1>3, <2>1, <2>2, <2>3 DEF RequestOrder, AheadAll
  <2>5. ASSUME hpc'[k] \in {"submit", "parked"}
        PROVE  /\ (AheadAll(req[k].chunk) /\ Fresh(req[k].chunk, nextPoint))'
               /\ \A u \in Tables : Ordered(req[k].chunk, HeldChunk(k, u))'
    <3>1. req[k].chunk \in Chunk
      BY <2>2, <2>5 DEF PInv, RequestInv, RequestOk
    <3>2. req[k].chunk.pts \in Seq(Nat)
      BY <3>1, ChunkPts
    <3> QED BY <1>1, <1>3, <2>1, <2>2, <2>5, <3>2 DEF RequestOrder, AheadAll
  <2> QED BY <2>4, <2>5 DEF RequestOrder
<1>7. RequestOrder(h)'
  <2>1. ASSUME NEW u \in Tables
        PROVE  (AheadAll(HeldChunk(h, u)) /\ Fresh(HeldChunk(h, u), nextPoint))'
    <3> DEFINE G == HeldChunk(h, u)'
               H == HeldChunk(h, u)
               o == Held(req[h], u)
    <3>1. AheadAll(H) /\ Fresh(H, n) /\ H.h = h /\ H.t = u /\ H.pts = o
      BY HeldIs DEF OrderInv, RequestOrder
    <3>2. G.h = h /\ G.t = u /\ G.pts = Held(req'[h], u)
      BY DEF HeldChunk
    <3>3. o \in Seq(Nat)
      <4>1. req[h] \in Request
        BY DEF PInv, RequestInv
      <4> QED BY <4>1, HeldType DEF Points
    <3>4. CASE u # t
      <4>1. Held(req'[h], u) = Held(req[h], u)
        BY <1>2, <3>4
      <4>2. G = H
        BY <4>1 DEF HeldChunk
      <4>3. Fresh(H, n + 1)
        BY <1>3, <3>1, <3>3
      <4> QED BY <1>1, <3>1, <4>2, <4>3 DEF AheadAll
    <3>5. CASE u = t
      <4>1. G.pts = Append(o, n)
        BY <1>2, <3>2, <3>5
      <4> HIDE DEF G, H, o, n
      <4>2. /\ DOMAIN G.pts = DOMAIN o \cup {Len(o) + 1} /\ G.pts[Len(o) + 1] = n
            /\ \A i \in DOMAIN o : G.pts[i] = o[i] /\ i < Len(o) + 1 /\ ~(Len(o) + 1 < i)
            /\ ~(Len(o) + 1 < Len(o) + 1)
        BY <1>1, <3>3, <4>1
      <4>3. Range(G.pts) = Range(o) \cup {n}
        BY <4>2 DEF Range
      <4>4. Ascending(o) /\ \A p \in Range(o) : p < n /\ p \in Nat
        BY <3>1, <3>3 DEF Fresh, Range
      <4>5. Ascending(G.pts)
        <5>1. \A i \in DOMAIN o : o[i] < n
          BY <4>4 DEF Range
        <5> QED BY <4>2, <4>4, <5>1 DEF Ascending
      <4>6. \A p \in Range(G.pts) : p < n + 1
        BY <1>1, <4>3, <4>4
      <4>7. \A x : Ordered(x, H) /\ (\A p \in Range(x.pts) : p < n) => Ordered(x, G)
        BY <3>1, <3>2, <4>3 DEF Ordered
      <4>8. \A s : Ahead(s, H) /\ AllFresh(s, n) => Ahead(s, G)
        BY <4>7 DEF Ahead, AllFresh, Fresh
      <4>9. AllFresh(stored, n) /\ AllFresh(taken, n) /\ AllFresh(buf, n)
        BY DEF OrderInv, QueueOrder, n
      <4>10. Ahead(stored, G) /\ Ahead(taken, G) /\ Ahead(buf, G)
        BY <3>1, <4>8, <4>9 DEF AheadAll
      <4> QED BY <1>1, <4>5, <4>6, <4>10 DEF AheadAll, Fresh, G
    <3> QED BY <3>4, <3>5
  <2> QED BY <1>1, <2>1 DEF RequestOrder
<1> QED BY <1>5, <1>6, <1>7 DEF OrderInv

\* OrderInv is inductive under PInv.
LEMMA OrderStep ==
  ASSUME PInv, OrderInv, [Next]_vars
  PROVE  OrderInv'
<1>1. ASSUME NEW h \in Handlers, Finish(h) \/ SubmitSignal(h) \/ FlushedAll(h)
      PROVE  OrderInv'
  <2>1. UNCHANGED <<stored, taken, buf, nextPoint>>
    BY <1>1 DEF Finish, SubmitSignal, FlushedAll, queue, loop
  <2>2. OneRequest(h) /\ hpc'[h] \notin {"submit", "parked"}
    BY <1>1, FinishEffect, SignalEffect, FlushedEffect
  <2>3. \A t \in Tables : Held(req'[h], t) = Held(req[h], t)
    BY <1>1, FinishEffect, SignalEffect, FlushedEffect
  <2>4. \A k \in Handlers : k # h => req'[k] = req[k] /\ hpc'[k] = hpc[k]
    BY <2>2, OthersHeld
  <2>5. \A k \in Handlers, t \in Tables : Held(req'[k], t) = Held(req[k], t)
    BY <2>3, <2>4
  <2>6. \A k \in Handlers : hpc'[k] \in {"submit", "parked"} =>
                              hpc[k] \in {"submit", "parked"} /\ req'[k].chunk = req[k].chunk
    BY <2>2, <2>4
  <2> QED BY <2>1, <2>5, <2>6, QuietOrder
<1>2. CASE OtherStep /\ UNCHANGED <<stored, taken, buf>>
  <2>1. \A k \in Handlers : hpc'[k] \in {"submit", "parked"} => hpc[k] \in {"submit", "parked"}
    BY <1>2 DEF OtherStep, Waked
  <2> QED BY <1>2, <2>1, QuietOrder DEF OtherStep
<1>3. CASE RunFlush
  <2>1. CASE count = 0
    <3>1. UNCHANGED <<stored, taken, buf>>
      BY <1>3, <2>1 DEF RunFlush
    <3>2. OtherStep
      BY <1>3, OtherSteps DEF Run
    <3> QED BY <1>2, <3>1, <3>2
  <2> QED BY <1>3, <2>1, FlushOrder
<1>4. CASE \/ RunQuit \/ RunBroadcast \/ RunEnd \/ RunEndBroadcast \/ Close \/ Closing \/ UNCHANGED vars
           \/ \E f \in Flushers : FlushCall(f) \/ Flush(f)
  <2>1. UNCHANGED <<stored, taken, buf>>
    BY <1>4 DEF RunQuit, RunBroadcast, RunEnd, RunEndBroadcast, Close, Closing, CloseWait, CloseBroadcast,
                CloseStop, CloseJoin, vars, FlushCall, Flush, queue, loop
  <2>2. OtherStep
    BY <1>4, OtherSteps DEF Run
  <2> QED BY <1>2, <2>1, <2>2
<1>5. CASE RunWrite
  BY <1>5, WriteOrder
<1>6. ASSUME NEW h \in Handlers, Add(h) \/ IngestDirect(h) \/ IngestSubmit(h) \/ Submit(h)
      PROVE  OrderInv'
  BY <1>6, AddOrder, DirectOrder, IngestOrder, SubmitOrder
<1> QED BY <1>1, <1>3, <1>4, <1>5, <1>6 DEF Next, Handler, Run

\* Before the first request nothing is out of order.
LEMMA OrderInit ==
  Init => OrderInv
<1> SUFFICES ASSUME Init PROVE OrderInv
  OBVIOUS
<1>1. stored = <<>> /\ taken = <<>> /\ buf = <<>>
  BY DEF Init
<1>2. QueueOrder
  BY <1>1, EmptyOrder DEF QueueOrder
<1>3. ASSUME NEW h \in Handlers PROVE RequestOrder(h)
  <2>1. req[h] = NewRequest /\ hpc[h] = "decode"
    BY DEF Init
  <2>2. \A t \in Tables : HeldChunk(h, t).pts = <<>>
    BY <2>1, InitHeld, HeldIs
  <2>3. \A t \in Tables : Fresh(HeldChunk(h, t), nextPoint)
    BY <2>2 DEF Fresh, Ascending, Range
  <2> QED BY <1>1, <2>1, <2>3, EmptyOrder DEF RequestOrder, AheadAll
<1> QED BY <1>2, <1>3 DEF OrderInv

\* Two sequences of chunks one after the other.
LEMMA JoinOrder ==
  ASSUME NEW s \in Seq(Chunk), NEW r \in Seq(Chunk), Sorted(s), Sorted(r), Precedes(s, r)
  PROVE  /\ s \o r \in Seq(Chunk) /\ Sorted(s \o r)
         /\ \A q : Precedes(s, q) /\ Precedes(r, q) => Precedes(s \o r, q)
<1> DEFINE a == s \o r
           m == Len(s)
<1>1. /\ a \in Seq(Chunk) /\ DOMAIN a = 1 .. (m + Len(r)) /\ m \in Nat /\ Len(r) \in Nat
      /\ DOMAIN s = 1 .. m /\ DOMAIN r = 1 .. Len(r)
  OBVIOUS
<1>2. /\ \A i \in 1 .. m : a[i] = s[i]
      /\ \A i \in 1 .. Len(r) : a[m + i] = r[i]
  OBVIOUS
<1> HIDE DEF a, m
<1>3. \A i \in DOMAIN a : \/ i \in DOMAIN s /\ a[i] = s[i]
                          \/ ~(i \in DOMAIN s) /\ i - m \in DOMAIN r /\ a[i] = r[i - m]
  <2> TAKE i \in DOMAIN a
  <2>1. CASE i \in 1 .. m
    BY <1>1, <1>2, <2>1
  <2>2. CASE ~(i \in 1 .. m)
    <3>1. i - m \in 1 .. Len(r) /\ m + (i - m) = i
      BY <1>1, <2>2
    <3> QED BY <1>1, <1>2, <2>2, <3>1
  <2> QED BY <2>1, <2>2
<1>4. \A i, j \in DOMAIN a : i < j => Ordered(a[i], a[j])
  <2> TAKE i, j \in DOMAIN a
  <2> HAVE i < j
  <2>1. CASE i \in DOMAIN s /\ j \in DOMAIN s
    BY <1>3, <2>1 DEF Sorted
  <2>2. CASE i \in DOMAIN s /\ ~(j \in DOMAIN s)
    BY <1>3, <2>2 DEF Precedes, Ahead
  <2>3. CASE ~(i \in DOMAIN s)
    <3>1. ~(j \in DOMAIN s) /\ i - m < j - m
      BY <1>1, <2>3
    <3> QED BY <1>3, <2>3, <3>1 DEF Sorted
  <2> QED BY <2>1, <2>2, <2>3
<1>5. \A q : Precedes(s, q) /\ Precedes(r, q) => Precedes(a, q)
  BY <1>3 DEF Precedes, Ahead
<1> QED BY <1>1, <1>4, <1>5 DEF a, Sorted

\* The engine gets a request's points of one table in the order they were decoded (flush in
\* ingest.go, writeChunks in writer.go), whatever else is submitted, taken, split or dropped.
THEOREM PointsInOrder == Spec => []InOrder
<1>1. PInv /\ OrderInv /\ [Next]_vars => OrderInv'
  BY OrderStep
<1>2. PInv /\ OrderInv => InOrder
  <2> SUFFICES ASSUME PInv, OrderInv PROVE InOrder
    OBVIOUS
  <2>1. buf \in Seq(Chunk) /\ taken \in Seq(Chunk) /\ stored \in Seq(Chunk)
    BY DEF PInv, Types, QueueTypes
  <2>2. /\ Sorted(stored) /\ Sorted(taken) /\ Sorted(buf)
        /\ Precedes(stored, taken) /\ Precedes(stored, buf) /\ Precedes(taken, buf)
    BY DEF OrderInv, QueueOrder
  <2> DEFINE st == stored \o taken
             all == stored \o taken \o buf
  <2>3. st \in Seq(Chunk) /\ Sorted(st) /\ Precedes(st, buf)
    BY <2>1, <2>2, JoinOrder
  <2> HIDE DEF st
  <2>4. Sorted(st \o buf)
    BY <2>1, <2>2, <2>3, JoinOrder
  <2>5. Sorted(all)
    BY <2>4 DEF st
  <2> HIDE DEF all
  <2>6. \A i, j \in DOMAIN all : i < j /\ all[i].h = all[j].h /\ all[i].t = all[j].t
          => \A p \in Range(all[i].pts), q \in Range(all[j].pts) : p < q
    BY <2>5 DEF Sorted, Ordered
  <2> QED BY <2>6 DEF InOrder, all
<1> QED BY PipelineInvariance, OrderInit, <1>1, <1>2, PTL DEF Spec
=============================================================================
