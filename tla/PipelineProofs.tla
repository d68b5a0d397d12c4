---------------------------- MODULE PipelineProofs ----------------------------
(***************************************************************************)
(* Proofs about Pipeline for every number of requests, flushers and tables *)
(* and every batch size: a response counts what was handed over, a Flush   *)
(* sees what was submitted before it, and the engine gets the points of a  *)
(* request in order.                                                       *)
(***************************************************************************)
EXTENDS Pipeline, FiniteSetTheorems, SequenceTheorems, TLAPS

(***************************************************************************)
(* Types.                                                                  *)
(***************************************************************************)
Points == Seq(Nat)

Chunk == [h : Handlers, t : Tables, pts : Points \ {<<>>}]

Request == [pending : [Tables -> Points], lastValid : BOOLEAN,
            lastTable : Tables \cup {CHOOSE t \in Tables : TRUE}, lastPts : Points,
            pendingN : Int, written : Int, visit : SUBSET Tables, last : BOOLEAN,
            chunk : Chunk \cup {NoChunk}, decoded : Int]

QueueTypes ==
  /\ buf \in Seq(Chunk) /\ taken \in Seq(Chunk) /\ stored \in Seq(Chunk)
  /\ count \in Nat /\ busy \in {0, 1}
  /\ rpc \in {"select", "bcast", "write", "bcastEnd", "exited"}
  /\ failed \in BOOLEAN /\ err \in BOOLEAN /\ quit \in BOOLEAN /\ pipelined \in BOOLEAN

CallTypes ==
  /\ fpc \in [Flushers -> {"idle", "call", "parked", "done", "error"}]
  /\ before \in [Flushers -> SUBSET Nat]

Types == QueueTypes /\ CallTypes

(***************************************************************************)
(* What an ingestor holds.  While it flushes, the table last added to has  *)
(* been written back and every table with points is still to be visited;   *)
(* pendingN counts the points held, and what was decoded has been handed   *)
(* over or is held.                                                        *)
(***************************************************************************)
Flushing(pc) == pc \in {"flush", "submit", "parked", "signal"}

HeldPoints(r) == UNION {{t} \X (1 .. Len(Held(r, t))) : t \in Tables}

Counted(r) ==
  /\ r.lastValid => r.lastTable \in Tables
  /\ r.decoded = r.written + r.pendingN
  /\ IsFiniteSet(HeldPoints(r)) /\ r.pendingN = Cardinality(HeldPoints(r))

WrittenBack(r) ==
  /\ r.visit = {t \in Tables : r.pending[t] # <<>>}
  /\ r.lastValid => r.lastPts = r.pending[r.lastTable]

RequestOk(pc, r, h) ==
  /\ r \in Request /\ pc \in {"decode", "flush", "submit", "parked", "signal", "done", "failed"}
  /\ Counted(r)
  /\ Flushing(pc) => WrittenBack(r)
  /\ pc = "done" => HeldPoints(r) = {}
  /\ IF pc \in {"submit", "parked"} THEN r.chunk \in Chunk /\ r.chunk.h = h
                                    ELSE r.chunk = NoChunk

RequestInv ==
  /\ hpc \in [Handlers -> {"decode", "flush", "submit", "parked", "signal", "done", "failed"}]
  /\ req \in [Handlers -> Request]
  /\ nextPoint \in Nat
  /\ \A h \in Handlers : RequestOk(hpc[h], req[h], h)

(***************************************************************************)
(* The writer.  busy is one while the loop has a batch; without a batch    *)
(* and without points there is nothing on its way to the engine.           *)
(***************************************************************************)
LoopInv ==
  /\ busy = 1 <=> rpc \in {"bcast", "write"}
  /\ taken # <<>> => rpc \in {"bcast", "write"}
  /\ count = 0 <=> buf = <<>>
  /\ failed => err \/ (rpc = "write" /\ taken = <<>>)
  /\ ~pipelined => /\ buf = <<>> /\ taken = <<>>
                   /\ \A h \in Handlers : hpc[h] \notin {"submit", "parked", "signal"}

PInv == Types /\ LoopInv /\ RequestInv

USE PipelineAssumption

(***************************************************************************)
(* The ingestor's operators.                                               *)
(***************************************************************************)

\* What a request holds for a table is a sequence of points.
LEMMA HeldType ==
  ASSUME NEW r \in Request, NEW t \in Tables
  PROVE  Held(r, t) \in Points /\ Len(Held(r, t)) \in Nat
BY DEF Request, Held, Points

\* Switching to a table moves points between pending and lastPts and keeps them all.
LEMMA SwitchHeld ==
  ASSUME NEW r \in Request, r.lastValid => r.lastTable \in Tables, NEW t \in Tables
  PROVE  LET s == pendingSlice(r, t) IN
         /\ s \in Request /\ s.lastValid /\ s.lastTable = t
         /\ s.pendingN = r.pendingN /\ s.written = r.written /\ s.decoded = r.decoded
         /\ s.chunk = r.chunk
         /\ \A u \in Tables : Held(s, u) = Held(r, u)
<1>1. CASE r.lastValid /\ t = r.lastTable
  BY <1>1 DEF pendingSlice
<1>2. CASE ~(r.lastValid /\ t = r.lastTable)
  <2> DEFINE p == writtenBack(r, t)
             s == [r EXCEPT !.pending = p, !.lastTable = t, !.lastPts = p[t], !.lastValid = TRUE]
  <2>1. p \in [Tables -> Points] /\ \A u \in Tables : p[u] = Held(r, u)
    BY DEF writtenBack, Request, Held
  <2>2. p[t] \in Points /\ p[t] = Held(r, t)
    BY <2>1
  <2> HIDE DEF p
  <2>3. /\ s \in Request /\ s.lastValid /\ s.lastTable = t /\ s.pending = p /\ s.lastPts = p[t]
        /\ s.pendingN = r.pendingN /\ s.written = r.written /\ s.decoded = r.decoded
        /\ s.chunk = r.chunk
    BY <2>1, <2>2 DEF Request
  <2>4. \A u \in Tables : Held(s, u) = Held(r, u)
    BY <2>1, <2>2, <2>3 DEF Held
  <2>5. pendingSlice(r, t) = s
    BY <1>2 DEF pendingSlice, p
  <2> QED BY <2>3, <2>4, <2>5
<1> QED BY <1>1, <1>2

\* Starting a flush writes the last table back and lists the tables with points.
LEMMA FlushHeld ==
  ASSUME NEW r \in Request, r.lastValid => r.lastTable \in Tables, NEW final \in BOOLEAN
  PROVE  LET s == startFlush(r, final) IN
         /\ s \in Request /\ s.lastValid = r.lastValid /\ s.lastTable = r.lastTable
         /\ s.pendingN = r.pendingN /\ s.written = r.written /\ s.decoded = r.decoded
         /\ s.chunk = r.chunk
         /\ \A u \in Tables : Held(s, u) = Held(r, u)
         /\ WrittenBack(s)
<1> DEFINE p == writtenBack(r, r.lastTable)
           s == [r EXCEPT !.pending = p, !.visit = {t \in Tables : p[t] # <<>>}, !.last = final]
<1>1. p \in [Tables -> Points] /\ \A u \in Tables : p[u] = Held(r, u)
  BY DEF writtenBack, Request, Held
<1> HIDE DEF p
<1>2. /\ s \in Request /\ s.lastValid = r.lastValid /\ s.lastTable = r.lastTable /\ s.pending = p
      /\ s.lastPts = r.lastPts /\ s.visit = {t \in Tables : p[t] # <<>>}
      /\ s.pendingN = r.pendingN /\ s.written = r.written /\ s.decoded = r.decoded
      /\ s.chunk = r.chunk
  BY <1>1 DEF Request
<1>3. r.lastValid => p[r.lastTable] = r.lastPts
  BY <1>1 DEF Held
<1>4. \A u \in Tables : Held(s, u) = Held(r, u)
  BY <1>1, <1>2, <1>3 DEF Held
<1>5. WrittenBack(s)
  BY <1>2, <1>3 DEF WrittenBack
<1>6. startFlush(r, final) = s
  BY DEF startFlush, p
<1> QED BY <1>2, <1>4, <1>5, <1>6

\* Handing a table over empties it and counts its points as written.
LEMMA HandHeld ==
  ASSUME NEW r \in Request, r.lastValid => r.lastTable \in Tables, WrittenBack(r), NEW t \in Tables
  PROVE  LET s == handedOver(r, t) IN
         /\ s \in Request /\ s.lastValid = r.lastValid /\ s.lastTable = r.lastTable
         /\ s.pendingN = r.pendingN - Len(r.pending[t]) /\ s.written = r.written + Len(r.pending[t])
         /\ s.decoded = r.decoded /\ s.chunk = r.chunk
         /\ Held(r, t) = r.pending[t]
         /\ \A u \in Tables : Held(s, u) = IF u = t THEN <<>> ELSE Held(r, u)
         /\ WrittenBack(s)
<1> DEFINE p == [r.pending EXCEPT ![t] = <<>>]
           l == IF r.lastValid /\ t = r.lastTable THEN <<>> ELSE r.lastPts
           s == handedOver(r, t)
<1>1. /\ p \in [Tables -> Points] /\ l \in Points
      /\ \A u \in Tables : p[u] = IF u = t THEN <<>> ELSE r.pending[u]
      /\ Len(r.pending[t]) \in Nat
  BY DEF Request, Points
<1>2. /\ s \in Request /\ s.lastValid = r.lastValid /\ s.lastTable = r.lastTable
      /\ s.pending = p /\ s.lastPts = l /\ s.visit = r.visit \ {t}
      /\ s.pendingN = r.pendingN - Len(r.pending[t]) /\ s.written = r.written + Len(r.pending[t])
      /\ s.decoded = r.decoded /\ s.chunk = r.chunk
  <2> DEFINE n == Len(r.pending[t])
             w == r.written + n
             d == r.pendingN - n
             v == r.visit \ {t}
  <2>1. s = [r EXCEPT !.written = w, !.pendingN = d, !.pending = p, !.visit = v, !.lastPts = l]
    BY DEF handedOver
  <2>2. w \in Int /\ d \in Int /\ v \in SUBSET Tables
    BY <1>1 DEF Request
  <2> HIDE DEF w, d, v, p, l, s
  <2>3. /\ s \in Request /\ s.lastValid = r.lastValid /\ s.lastTable = r.lastTable
        /\ s.pending = p /\ s.lastPts = l /\ s.visit = v /\ s.pendingN = d /\ s.written = w
        /\ s.decoded = r.decoded /\ s.chunk = r.chunk
    BY <1>1, <2>1, <2>2 DEF Request
  <2> QED BY <2>3 DEF w, d, v, p, l
<1> HIDE DEF s
<1>3. \A u \in Tables : Held(r, u) = r.pending[u]
  BY DEF Held, WrittenBack
<1>4. \A u \in Tables : Held(s, u) = IF u = t THEN <<>> ELSE Held(r, u)
  BY <1>1, <1>2, <1>3 DEF Held
<1>5. WrittenBack(s)
  BY <1>1, <1>2 DEF WrittenBack
<1> QED BY <1>2, <1>3, <1>4, <1>5 DEF s

\* The points an ingestor holds for one table are counted by their number.
LEMMA HeldOf ==
  ASSUME NEW r \in Request, NEW t \in Tables
  PROVE  /\ {t} \X (1 .. Len(Held(r, t))) \subseteq HeldPoints(r)
         /\ IsFiniteSet({t} \X (1 .. Len(Held(r, t))))
         /\ Cardinality({t} \X (1 .. Len(Held(r, t)))) = Len(Held(r, t))
<1> DEFINE n == Len(Held(r, t))
           I == 1 .. n
<1>1. n \in Nat /\ n \in Int /\ 1 \in Int
  BY HeldType
<1>2. IsFiniteSet(I) /\ Cardinality(I) = IF 1 > n THEN 0 ELSE n - 1 + 1
  <2> HIDE DEF n
  <2> QED BY <1>1, FS_Interval
<1>3. IsFiniteSet({t}) /\ Cardinality({t}) = 1
  BY FS_Singleton
<1>4. Cardinality(I) = n
  BY <1>1, <1>2
<1>5. {t} \X I \subseteq HeldPoints(r)
  BY DEF HeldPoints
<1> HIDE DEF I, n
<1>6. IsFiniteSet({t} \X I) /\ Cardinality({t} \X I) = Cardinality({t}) * Cardinality(I)
  BY <1>2, <1>3, FS_Product, ZenonT(30)
<1>7. Cardinality({t} \X I) = n
  BY <1>1, <1>3, <1>4, <1>6
<1> QED BY <1>5, <1>6, <1>7 DEF I, n

\* The count of a request follows one more point.
LEMMA CountAdd ==
  ASSUME NEW r \in Request, NEW s \in Request, Counted(r), NEW t \in Tables, NEW x \in Nat,
         s.lastValid => s.lastTable \in Tables,
         s.decoded = r.decoded + 1, s.written = r.written, s.pendingN = r.pendingN + 1,
         \A u \in Tables : Held(s, u) = IF u = t THEN Append(Held(r, t), x) ELSE Held(r, u)
  PROVE  Counted(s)
<1> DEFINE new == <<t, Len(Held(r, t)) + 1>>
<1>1. \A u \in Tables : /\ Len(Held(r, u)) \in Nat
                        /\ Len(Held(s, u)) = IF u = t THEN Len(Held(r, u)) + 1 ELSE Len(Held(r, u))
  BY HeldType DEF Points
<1>2. \A p : p \in HeldPoints(r) <=> \E u \in Tables : p \in {u} \X (1 .. Len(Held(r, u)))
  BY DEF HeldPoints
<1>3. \A p : p \in HeldPoints(s) <=> \E u \in Tables : p \in {u} \X (1 .. Len(Held(s, u)))
  BY DEF HeldPoints
<1>4. new \notin HeldPoints(r)
  BY <1>1, <1>2
<1>5. \A u \in Tables : {u} \X (1 .. Len(Held(s, u)))
                          = ({u} \X (1 .. Len(Held(r, u)))) \cup (IF u = t THEN {new} ELSE {})
  <2> TAKE u \in Tables
  <2>1. 1 .. Len(Held(s, u)) = (1 .. Len(Held(r, u))) \cup (IF u = t THEN {Len(Held(r, t)) + 1} ELSE {})
    BY <1>1
  <2> QED BY <2>1
<1>6. HeldPoints(s) \subseteq HeldPoints(r) \cup {new} /\ HeldPoints(r) \cup {new} \subseteq HeldPoints(s)
  BY <1>2, <1>3, <1>5
<1> HIDE DEF new
<1>7. HeldPoints(s) = HeldPoints(r) \cup {new}
  BY <1>6
<1>8. /\ IsFiniteSet(HeldPoints(r)) /\ r.pendingN = Cardinality(HeldPoints(r))
      /\ r.decoded = r.written + r.pendingN /\ r.written \in Int /\ r.pendingN \in Int
  BY DEF Counted, Request
<1>9. IsFiniteSet(HeldPoints(s)) /\ Cardinality(HeldPoints(s)) = Cardinality(HeldPoints(r)) + 1
  BY <1>4, <1>7, <1>8, FS_AddElement
<1>10. s.pendingN = Cardinality(HeldPoints(s))
  BY <1>8, <1>9
<1>11. s.decoded = s.written + s.pendingN
  <2>1. s.decoded = (r.written + r.pendingN) + 1 /\ s.written = r.written /\ s.pendingN = r.pendingN + 1
    BY <1>8
  <2>2. \A m, n \in Int : (m + n) + 1 = m + (n + 1)
    OBVIOUS
  <2> QED BY <1>8, <2>1, <2>2, Zenon
<1> QED BY <1>9, <1>10, <1>11 DEF Counted

\* It follows a table handed over.
LEMMA CountTake ==
  ASSUME NEW r \in Request, NEW s \in Request, Counted(r), NEW t \in Tables,
         s.lastValid => s.lastTable \in Tables,
         s.decoded = r.decoded, s.written = r.written + Len(Held(r, t)),
         s.pendingN = r.pendingN - Len(Held(r, t)),
         \A u \in Tables : Held(s, u) = IF u = t THEN <<>> ELSE Held(r, u)
  PROVE  Counted(s)
<1> DEFINE Out == {t} \X (1 .. Len(Held(r, t)))
<1>1. HeldPoints(s) = HeldPoints(r) \ Out
  <2>1. \A u \in Tables : 1 .. Len(Held(s, u)) = IF u = t THEN {} ELSE 1 .. Len(Held(r, u))
    OBVIOUS
  <2> QED BY <2>1 DEF HeldPoints
<1>2. Out \subseteq HeldPoints(r) /\ IsFiniteSet(Out) /\ Cardinality(Out) = Len(Held(r, t)) /\ Len(Held(r, t)) \in Nat
  BY HeldOf, HeldType
<1> HIDE DEF Out
<1>3. HeldPoints(r) \cap Out = Out
  BY <1>2
<1>4. /\ IsFiniteSet(HeldPoints(r)) /\ r.pendingN = Cardinality(HeldPoints(r))
      /\ r.decoded = r.written + r.pendingN /\ r.written \in Int /\ r.pendingN \in Int
  BY DEF Counted, Request
<1>5. IsFiniteSet(HeldPoints(s)) /\ Cardinality(HeldPoints(s)) = Cardinality(HeldPoints(r)) - Len(Held(r, t))
  <2>1. /\ IsFiniteSet(HeldPoints(r) \ Out)
        /\ Cardinality(HeldPoints(r) \ Out) = Cardinality(HeldPoints(r)) - Cardinality(HeldPoints(r) \cap Out)
    BY <1>2, <1>4, FS_Difference
  <2> QED BY <1>1, <1>2, <1>3, <2>1
<1>6. s.pendingN = Cardinality(HeldPoints(s)) /\ s.decoded = s.written + s.pendingN
  BY <1>2, <1>4, <1>5
<1> QED BY <1>5, <1>6 DEF Counted

\* It is kept when the points are only moved.
LEMMA CountSame ==
  ASSUME NEW r \in Request, NEW s \in Request, Counted(r),
         s.lastValid => s.lastTable \in Tables,
         s.decoded = r.decoded, s.written = r.written, s.pendingN = r.pendingN,
         \A u \in Tables : Held(s, u) = Held(r, u)
  PROVE  Counted(s) /\ HeldPoints(s) = HeldPoints(r)
<1>1. HeldPoints(s) = HeldPoints(r)
  BY DEF HeldPoints
<1> QED BY <1>1 DEF Counted

\* Init: nothing is held, and nothing is counted.
LEMMA InitHeld ==
  /\ NewRequest \in Request /\ ~NewRequest.lastValid /\ NewRequest.chunk = NoChunk
  /\ \A t \in Tables : Held(NewRequest, t) = <<>>
  /\ HeldPoints(NewRequest) = {} /\ Counted(NewRequest)
<1>1. /\ NewRequest \in Request /\ ~NewRequest.lastValid /\ NewRequest.chunk = NoChunk
      /\ \A t \in Tables : Held(NewRequest, t) = <<>>
      /\ NewRequest.decoded = 0 /\ NewRequest.written = 0 /\ NewRequest.pendingN = 0
  BY DEF NewRequest, Request, Points, Held
<1>2. HeldPoints(NewRequest) = {}
  BY <1>1 DEF HeldPoints
<1>3. IsFiniteSet(HeldPoints(NewRequest)) /\ Cardinality(HeldPoints(NewRequest)) = 0
  BY <1>2, FS_EmptySet
<1> QED BY <1>1, <1>2, <1>3 DEF Counted

(***************************************************************************)
(* One step of a request: what it does to what the request holds.          *)
(***************************************************************************)
OneRequest(h) ==
  /\ req' = [req EXCEPT ![h] = req'[h]] /\ hpc' = [hpc EXCEPT ![h] = hpc'[h]]
  /\ RequestOk(hpc'[h], req'[h], h)

\* Add: the new point goes behind those held for its table.
LEMMA AddEffect ==
  ASSUME PInv, NEW h \in Handlers, Add(h)
  PROVE  /\ OneRequest(h) /\ hpc[h] = "decode" /\ hpc'[h] \in {"decode", "flush"}
         /\ \E t \in Tables : \A u \in Tables :
              Held(req'[h], u) = IF u = t THEN Append(Held(req[h], t), nextPoint) ELSE Held(req[h], u)
<1> DEFINE r == req[h]
<1>1. r \in Request /\ RequestOk(hpc[h], r, h) /\ Counted(r) /\ nextPoint \in Nat
  BY DEF PInv, RequestInv, RequestOk
<1>2. hpc \in [Handlers -> {"decode", "flush", "submit", "parked", "signal", "done", "failed"}]
      /\ req \in [Handlers -> Request]
  BY DEF PInv, RequestInv
<1>3. PICK t \in Tables :
        LET s == pendingSlice(r, t)
            a == [s EXCEPT !.lastPts = Append(@, nextPoint), !.pendingN = @ + 1, !.decoded = @ + 1]
            full == a.pendingN >= streamBatchSize
        IN /\ hpc[h] = "decode"
           /\ req' = [req EXCEPT ![h] = IF full THEN startFlush(a, FALSE) ELSE a]
           /\ hpc' = [hpc EXCEPT ![h] = IF full THEN "flush" ELSE "decode"]
  BY DEF Add
<1> DEFINE s == pendingSlice(r, t)
           a == [s EXCEPT !.lastPts = Append(s.lastPts, nextPoint), !.pendingN = s.pendingN + 1,
                          !.decoded = s.decoded + 1]
           full == a.pendingN >= streamBatchSize
           f == startFlush(a, FALSE)
<1>4. hpc[h] = "decode" /\ req'[h] = (IF full THEN f ELSE a) /\ hpc'[h] = (IF full THEN "flush" ELSE "decode")
      /\ req' = [req EXCEPT ![h] = req'[h]] /\ hpc' = [hpc EXCEPT ![h] = hpc'[h]]
  BY <1>2, <1>3
<1>5. r.chunk = NoChunk /\ (r.lastValid => r.lastTable \in Tables)
  BY <1>1, <1>4 DEF RequestOk, Counted
<1>6. /\ s \in Request /\ s.lastValid /\ s.lastTable = t
      /\ s.pendingN = r.pendingN /\ s.written = r.written /\ s.decoded = r.decoded
      /\ s.chunk = r.chunk
      /\ \A u \in Tables : Held(s, u) = Held(r, u)
  BY <1>1, <1>5, SwitchHeld
<1> HIDE DEF s
<1>7. s.lastPts \in Points /\ Append(s.lastPts, nextPoint) \in Points /\ s.pendingN \in Int /\ s.decoded \in Int
  BY <1>1, <1>6 DEF Request, Points
<1>8. /\ a \in Request /\ a.lastValid /\ a.lastTable = t /\ a.lastPts = Append(s.lastPts, nextPoint)
      /\ a.pending = s.pending /\ a.pendingN = r.pendingN + 1 /\ a.written = r.written
      /\ a.decoded = r.decoded + 1 /\ a.chunk = NoChunk
  <2> DEFINE l == Append(s.lastPts, nextPoint)
             n == s.pendingN + 1
             d == s.decoded + 1
  <2>1. a = [s EXCEPT !.lastPts = l, !.pendingN = n, !.decoded = d] /\ l \in Points /\ n \in Int /\ d \in Int
    BY <1>7
  <2> HIDE DEF a, l, n, d
  <2>2. /\ a \in Request /\ a.lastValid = s.lastValid /\ a.lastTable = s.lastTable /\ a.lastPts = l
        /\ a.pending = s.pending /\ a.pendingN = n /\ a.written = s.written
        /\ a.decoded = d /\ a.chunk = s.chunk
    BY <1>6, <2>1 DEF Request
  <2> QED BY <1>5, <1>6, <2>2 DEF l, n, d
<1> HIDE DEF a, r
<1>9. \A u \in Tables : Held(a, u) = IF u = t THEN Append(Held(r, t), nextPoint) ELSE Held(r, u)
  <2>1. Held(s, t) = s.lastPts /\ Held(a, t) = a.lastPts /\ Held(s, t) = Held(r, t)
    BY <1>6, <1>8 DEF Held
  <2>2. \A u \in Tables : u # t => Held(a, u) = Held(s, u)
    BY <1>6, <1>8 DEF Held
  <2> QED BY <1>6, <1>8, <2>1, <2>2
<1>10. Counted(a)
  BY <1>1, <1>8, <1>9, CountAdd
<1>11. /\ f \in Request /\ Counted(f) /\ WrittenBack(f) /\ f.chunk = NoChunk
       /\ \A u \in Tables : Held(f, u) = Held(a, u)
  <2>1. /\ f \in Request /\ f.lastValid = a.lastValid /\ f.lastTable = a.lastTable
        /\ f.pendingN = a.pendingN /\ f.written = a.written /\ f.decoded = a.decoded
        /\ f.chunk = a.chunk
        /\ \A u \in Tables : Held(f, u) = Held(a, u)
        /\ WrittenBack(f)
    BY <1>8, FlushHeld
  <2> HIDE DEF f
  <2>2. Counted(f)
    BY <1>8, <1>10, <2>1, CountSame
  <2> QED BY <1>8, <2>1, <2>2
<1> HIDE DEF f, full
<1>12. RequestOk(hpc'[h], req'[h], h)
  BY <1>4, <1>8, <1>10, <1>11 DEF RequestOk, Flushing
<1>13. \A u \in Tables : Held(req'[h], u) = IF u = t THEN Append(Held(r, t), nextPoint) ELSE Held(r, u)
  BY <1>4, <1>9, <1>11
<1>14. \E v \in Tables : \A u \in Tables :
         Held(req'[h], u) = IF u = v THEN Append(Held(r, v), nextPoint) ELSE Held(r, u)
  BY <1>13
<1> QED BY <1>4, <1>12, <1>14 DEF OneRequest, r

\* Finish: the points held stay held, and are now all to be visited.
LEMMA FinishEffect ==
  ASSUME PInv, NEW h \in Handlers, Finish(h)
  PROVE  /\ OneRequest(h) /\ hpc[h] = "decode" /\ hpc'[h] = "flush"
         /\ \A u \in Tables : Held(req'[h], u) = Held(req[h], u)
<1> DEFINE r == req[h]
           f == startFlush(r, TRUE)
<1>1. r \in Request /\ RequestOk(hpc[h], r, h) /\ Counted(r)
  BY DEF PInv, RequestInv, RequestOk
<1>2. hpc \in [Handlers -> {"decode", "flush", "submit", "parked", "signal", "done", "failed"}]
      /\ req \in [Handlers -> Request]
  BY DEF PInv, RequestInv
<1>3. hpc[h] = "decode" /\ req'[h] = f /\ hpc'[h] = "flush"
      /\ req' = [req EXCEPT ![h] = req'[h]] /\ hpc' = [hpc EXCEPT ![h] = hpc'[h]]
  BY <1>2 DEF Finish
<1>4. r.chunk = NoChunk /\ (r.lastValid => r.lastTable \in Tables)
  BY <1>1, <1>3 DEF RequestOk, Counted
<1>5. /\ f \in Request /\ f.lastValid = r.lastValid /\ f.lastTable = r.lastTable
      /\ f.pendingN = r.pendingN /\ f.written = r.written /\ f.decoded = r.decoded
      /\ f.chunk = r.chunk
      /\ \A u \in Tables : Held(f, u) = Held(r, u)
      /\ WrittenBack(f)
  BY <1>1, <1>4, FlushHeld
<1> HIDE DEF f, r
<1>6. Counted(f)
  BY <1>1, <1>4, <1>5, CountSame
<1>7. RequestOk(hpc'[h], req'[h], h)
  BY <1>3, <1>4, <1>5, <1>6 DEF RequestOk, Flushing
<1> QED BY <1>3, <1>5, <1>7 DEF OneRequest, r

\* The flush hands over what it holds for one of the tables: a chunk, without which it goes on.
LEMMA HandEffect ==
  ASSUME PInv, NEW h \in Handlers, hpc[h] = "flush", NEW t \in req[h].visit
  PROVE  LET s == handedOver(req[h], t)
             c == chunkOf(h, t)
         IN /\ t \in Tables /\ s \in Request /\ Counted(s) /\ WrittenBack(s) /\ s.chunk = NoChunk
            /\ \A u \in Tables : Held(s, u) = IF u = t THEN <<>> ELSE Held(req[h], u)
            /\ c \in Chunk /\ c.h = h /\ c.t = t /\ c.pts = Held(req[h], t)
<1> DEFINE r == req[h]
           s == handedOver(r, t)
           c == chunkOf(h, t)
<1>1. r \in Request /\ RequestOk(hpc[h], r, h) /\ Counted(r)
  BY DEF PInv, RequestInv, RequestOk
<1>2. WrittenBack(r) /\ r.chunk = NoChunk /\ (r.lastValid => r.lastTable \in Tables)
  BY <1>1 DEF RequestOk, Counted, Flushing
<1>3. t \in Tables /\ r.pending[t] # <<>> /\ r.pending[t] \in Points
  BY <1>1, <1>2 DEF WrittenBack, Request
<1>4. /\ s \in Request /\ s.lastValid = r.lastValid /\ s.lastTable = r.lastTable
      /\ s.pendingN = r.pendingN - Len(r.pending[t]) /\ s.written = r.written + Len(r.pending[t])
      /\ s.decoded = r.decoded /\ s.chunk = r.chunk
      /\ Held(r, t) = r.pending[t]
      /\ \A u \in Tables : Held(s, u) = IF u = t THEN <<>> ELSE Held(r, u)
      /\ WrittenBack(s)
  BY <1>1, <1>2, <1>3, HandHeld
<1>5. c = [h |-> h, t |-> t, pts |-> Held(r, t)] /\ Held(r, t) \in Points \ {<<>>}
  BY <1>3, <1>4 DEF chunkOf
<1> HIDE DEF s, r, c
<1>6. Counted(s)
  BY <1>1, <1>2, <1>3, <1>4, CountTake
<1>7. c \in Chunk /\ c.h = h /\ c.t = t /\ c.pts = Held(r, t)
  BY <1>3, <1>5 DEF Chunk
<1> QED BY <1>2, <1>3, <1>4, <1>6, <1>7 DEF s, r, c

\* FlushedAll: nothing is held any more.
LEMMA FlushedEffect ==
  ASSUME PInv, NEW h \in Handlers, FlushedAll(h)
  PROVE  /\ OneRequest(h) /\ hpc[h] = "flush" /\ hpc'[h] \in {"done", "decode"}
         /\ \A u \in Tables : Held(req'[h], u) = <<>> /\ Held(req[h], u) = <<>>
<1> DEFINE r == req[h]
           s == [r EXCEPT !.lastValid = FALSE]
<1>1. r \in Request /\ RequestOk(hpc[h], r, h) /\ Counted(r)
  BY DEF PInv, RequestInv, RequestOk
<1>2. hpc \in [Handlers -> {"decode", "flush", "submit", "parked", "signal", "done", "failed"}]
      /\ req \in [Handlers -> Request]
  BY DEF PInv, RequestInv
<1>3. /\ hpc[h] = "flush" /\ req'[h] = s /\ hpc'[h] \in {"done", "decode"} /\ r.visit = {}
      /\ req' = [req EXCEPT ![h] = req'[h]] /\ hpc' = [hpc EXCEPT ![h] = hpc'[h]]
  BY <1>2 DEF FlushedAll
<1>4. WrittenBack(r) /\ r.chunk = NoChunk /\ (r.lastValid => r.lastTable \in Tables)
  BY <1>1, <1>3 DEF RequestOk, Counted, Flushing
<1>5. /\ s \in Request /\ ~s.lastValid /\ s.pending = r.pending /\ s.pendingN = r.pendingN
      /\ s.written = r.written /\ s.decoded = r.decoded /\ s.chunk = r.chunk
  BY <1>1 DEF Request
<1> HIDE DEF s, r
<1>6. \A u \in Tables : r.pending[u] = <<>>
  BY <1>3, <1>4 DEF WrittenBack
<1>7. \A u \in Tables : Held(s, u) = <<>> /\ Held(r, u) = <<>>
  BY <1>4, <1>5, <1>6 DEF Held, WrittenBack
<1>8. \A u \in Tables : Held(s, u) = Held(r, u)
  BY <1>7
<1>9. Counted(s)
  BY <1>1, <1>4, <1>5, <1>8, CountSame
<1>10. HeldPoints(s) = {}
  BY <1>7 DEF HeldPoints
<1>11. RequestOk(hpc'[h], req'[h], h)
  BY <1>3, <1>4, <1>5, <1>9, <1>10 DEF RequestOk, Flushing
<1> QED BY <1>3, <1>7, <1>11 DEF OneRequest, r

\* What a request holds after handing over the chunk c, which is new on its way.
HandsOver(h, c) ==
  /\ c \in Chunk /\ c.h = h /\ c.pts = Held(req[h], c.t)
  /\ \A u \in Tables : Held(req'[h], u) = IF u = c.t THEN <<>> ELSE Held(req[h], u)

\* IngestDirect: the engine gets one table's points, or the write fails and the request ends.
LEMMA DirectEffect ==
  ASSUME PInv, NEW h \in Handlers, IngestDirect(h)
  PROVE  /\ OneRequest(h) /\ hpc[h] = "flush" /\ hpc'[h] \in {"flush", "failed"} /\ ~pipelined
         /\ \/ \E c \in Chunk : HandsOver(h, c) /\ stored' = Append(stored, c)
            \/ req' = req /\ stored' = stored
<1>1. RequestOk(hpc[h], req[h], h) /\ hpc[h] = "flush" /\ ~pipelined
  BY DEF PInv, RequestInv, IngestDirect
<1>2. hpc \in [Handlers -> {"decode", "flush", "submit", "parked", "signal", "done", "failed"}]
      /\ req \in [Handlers -> Request]
  BY DEF PInv, RequestInv
<1>3. PICK t \in req[h].visit :
        \/ /\ stored' = Append(stored, chunkOf(h, t))
           /\ req' = [req EXCEPT ![h] = handedOver(req[h], t)]
           /\ hpc' = hpc
        \/ /\ hpc' = [hpc EXCEPT ![h] = "failed"]
           /\ stored' = stored /\ req' = req
  BY DEF IngestDirect
<1> DEFINE s == handedOver(req[h], t)
           c == chunkOf(h, t)
<1>4. /\ t \in Tables /\ s \in Request /\ Counted(s) /\ WrittenBack(s) /\ s.chunk = NoChunk
      /\ \A u \in Tables : Held(s, u) = IF u = t THEN <<>> ELSE Held(req[h], u)
      /\ c \in Chunk /\ c.h = h /\ c.t = t /\ c.pts = Held(req[h], t)
  BY <1>1, HandEffect
<1> HIDE DEF s, c
<1>5. CASE stored' = Append(stored, c) /\ req' = [req EXCEPT ![h] = s] /\ hpc' = hpc
  <2>1. req'[h] = s /\ hpc'[h] = "flush" /\ req' = [req EXCEPT ![h] = req'[h]]
        /\ hpc' = [hpc EXCEPT ![h] = hpc'[h]]
    BY <1>1, <1>2, <1>5
  <2>2. RequestOk(hpc'[h], req'[h], h)
    BY <1>4, <2>1 DEF RequestOk, Flushing
  <2>3. HandsOver(h, c)
    BY <1>4, <2>1 DEF HandsOver
  <2> QED BY <1>1, <1>4, <1>5, <2>1, <2>2, <2>3 DEF OneRequest
<1>6. CASE hpc' = [hpc EXCEPT ![h] = "failed"] /\ stored' = stored /\ req' = req
  <2>1. req'[h] = req[h] /\ hpc'[h] = "failed" /\ req' = [req EXCEPT ![h] = req'[h]]
        /\ hpc' = [hpc EXCEPT ![h] = hpc'[h]]
    BY <1>1, <1>2, <1>6
  <2>2. RequestOk(hpc'[h], req'[h], h)
    BY <1>1, <2>1 DEF RequestOk, Flushing
  <2> QED BY <1>1, <1>6, <2>1, <2>2 DEF OneRequest
<1> QED BY <1>3, <1>5, <1>6 DEF s, c

\* IngestSubmit: the chunk is in the call of Submit.
LEMMA IngestEffect ==
  ASSUME PInv, NEW h \in Handlers, IngestSubmit(h)
  PROVE  /\ OneRequest(h) /\ hpc[h] = "flush" /\ hpc'[h] = "submit" /\ pipelined
         /\ HandsOver(h, req'[h].chunk)
<1>1. RequestOk(hpc[h], req[h], h) /\ hpc[h] = "flush" /\ pipelined
  BY DEF PInv, RequestInv, IngestSubmit
<1>2. hpc \in [Handlers -> {"decode", "flush", "submit", "parked", "signal", "done", "failed"}]
      /\ req \in [Handlers -> Request]
  BY DEF PInv, RequestInv
<1>3. PICK t \in req[h].visit :
        req' = [req EXCEPT ![h] = [handedOver(req[h], t) EXCEPT !.chunk = chunkOf(h, t)]]
  BY DEF IngestSubmit
<1> DEFINE s == handedOver(req[h], t)
           c == chunkOf(h, t)
           w == [s EXCEPT !.chunk = c]
<1>4. /\ t \in Tables /\ s \in Request /\ Counted(s) /\ WrittenBack(s) /\ s.chunk = NoChunk
      /\ \A u \in Tables : Held(s, u) = IF u = t THEN <<>> ELSE Held(req[h], u)
      /\ c \in Chunk /\ c.h = h /\ c.t = t /\ c.pts = Held(req[h], t)
  BY <1>1, HandEffect
<1>5. req'[h] = w /\ hpc'[h] = "submit" /\ req' = [req EXCEPT ![h] = req'[h]]
      /\ hpc' = [hpc EXCEPT ![h] = hpc'[h]]
  BY <1>2, <1>3 DEF IngestSubmit
<1> HIDE DEF s, c
<1>6. /\ w \in Request /\ w.chunk = c /\ w.lastValid = s.lastValid /\ w.lastTable = s.lastTable
      /\ w.pending = s.pending /\ w.lastPts = s.lastPts /\ w.pendingN = s.pendingN
      /\ w.written = s.written /\ w.decoded = s.decoded /\ w.visit = s.visit
  BY <1>4 DEF Request
<1> HIDE DEF w
<1>7. \A u \in Tables : Held(w, u) = Held(s, u)
  BY <1>6 DEF Held
<1>8. Counted(w) /\ WrittenBack(w)
  <2>1. Counted(w)
    <3>1. s.lastValid => s.lastTable \in Tables
      BY <1>4 DEF Counted
    <3> QED BY <1>4, <1>6, <1>7, <3>1, CountSame
  <2>2. WrittenBack(w)
    BY <1>4, <1>6 DEF WrittenBack
  <2> QED BY <2>1, <2>2
<1>9. RequestOk(hpc'[h], req'[h], h)
  BY <1>4, <1>5, <1>6, <1>8 DEF RequestOk, Flushing
<1>10. HandsOver(h, req'[h].chunk)
  BY <1>4, <1>5, <1>6, <1>7 DEF HandsOver
<1> QED BY <1>1, <1>5, <1>9, <1>10 DEF OneRequest

\* Submit: the chunk goes to the end of the queue, or the request waits with it.
LEMMA SubmitEffect ==
  ASSUME PInv, NEW h \in Handlers, Submit(h)
  PROVE  /\ OneRequest(h) /\ hpc[h] = "submit" /\ req[h].chunk \in Chunk /\ req[h].chunk.h = h
         /\ \A u \in Tables : Held(req'[h], u) = Held(req[h], u)
         /\ \/ hpc'[h] = "parked" /\ req' = req /\ buf' = buf /\ count' = count
            \/ /\ hpc'[h] \in {"signal", "flush"} /\ ~MustWait
               /\ buf' = Append(buf, req[h].chunk) /\ count' = count + Len(req[h].chunk.pts)
<1>1. RequestOk(hpc[h], req[h], h) /\ hpc[h] = "submit" /\ req[h] \in Request
  BY DEF PInv, RequestInv, RequestOk, Submit
<1>2. hpc \in [Handlers -> {"decode", "flush", "submit", "parked", "signal", "done", "failed"}]
      /\ req \in [Handlers -> Request]
  BY DEF PInv, RequestInv
<1>3. req[h].chunk \in Chunk /\ req[h].chunk.h = h /\ Counted(req[h]) /\ WrittenBack(req[h])
  BY <1>1 DEF RequestOk, Flushing
<1>4. CASE MustWait
  <2>1. hpc' = [hpc EXCEPT ![h] = "parked"] /\ req' = req /\ buf' = buf /\ count' = count
    BY <1>4 DEF Submit
  <2>2. req'[h] = req[h] /\ hpc'[h] = "parked" /\ req' = [req EXCEPT ![h] = req'[h]]
        /\ hpc' = [hpc EXCEPT ![h] = hpc'[h]]
    BY <1>2, <2>1
  <2>3. RequestOk(hpc'[h], req'[h], h)
    BY <1>1, <1>3, <2>2 DEF RequestOk, Flushing
  <2> QED BY <1>1, <1>3, <2>1, <2>2, <2>3 DEF OneRequest
<1>5. CASE ~MustWait
  <2> DEFINE w == [req[h] EXCEPT !.chunk = NoChunk]
  <2>1. /\ buf' = Append(buf, req[h].chunk) /\ count' = count + Len(req[h].chunk.pts)
        /\ hpc' = [hpc EXCEPT ![h] = IF count' >= batchSize THEN "signal" ELSE "flush"]
        /\ req' = [req EXCEPT ![h].chunk = NoChunk]
    BY <1>5 DEF Submit
  <2>2. req'[h] = w /\ hpc'[h] \in {"signal", "flush"} /\ req' = [req EXCEPT ![h] = req'[h]]
        /\ hpc' = [hpc EXCEPT ![h] = hpc'[h]]
    BY <1>2, <2>1
  <2>3. /\ w \in Request /\ w.chunk = NoChunk /\ w.lastValid = req[h].lastValid
        /\ w.lastTable = req[h].lastTable /\ w.pending = req[h].pending /\ w.lastPts = req[h].lastPts
        /\ w.pendingN = req[h].pendingN /\ w.written = req[h].written
        /\ w.decoded = req[h].decoded /\ w.visit = req[h].visit
    BY <1>1 DEF Request
  <2> HIDE DEF w
  <2>4. \A u \in Tables : Held(w, u) = Held(req[h], u)
    BY <2>3 DEF Held
  <2>5. Counted(w)
    <3>1. req[h].lastValid => req[h].lastTable \in Tables
      BY <1>3 DEF Counted
    <3> QED BY <1>1, <1>3, <2>3, <2>4, <3>1, CountSame
  <2>6. WrittenBack(w)
    BY <1>3, <2>3 DEF WrittenBack
  <2>7. RequestOk(hpc'[h], req'[h], h)
    BY <2>2, <2>3, <2>5, <2>6 DEF RequestOk, Flushing
  <2> QED BY <1>1, <1>3, <1>5, <2>1, <2>2, <2>4, <2>7 DEF OneRequest
<1> QED BY <1>4, <1>5

\* SubmitSignal only moves the request on.
LEMMA SignalEffect ==
  ASSUME PInv, NEW h \in Handlers, SubmitSignal(h)
  PROVE  OneRequest(h) /\ hpc[h] = "signal" /\ hpc'[h] = "flush" /\ req' = req
<1>1. RequestOk(hpc[h], req[h], h) /\ hpc[h] = "signal"
  BY DEF PInv, RequestInv, SubmitSignal
<1>2. req'[h] = req[h] /\ hpc'[h] = "flush" /\ req' = [req EXCEPT ![h] = req'[h]]
      /\ hpc' = [hpc EXCEPT ![h] = hpc'[h]] /\ req' = req
  BY DEF SubmitSignal, PInv, RequestInv
<1>3. RequestOk(hpc'[h], req'[h], h)
  BY <1>1, <1>2 DEF RequestOk, Flushing
<1> QED BY <1>1, <1>2, <1>3 DEF OneRequest

(***************************************************************************)
(* The invariant of the requests.                                          *)
(***************************************************************************)
LEMMA OneRequestKeeps ==
  ASSUME PInv, NEW h \in Handlers, OneRequest(h), nextPoint' \in Nat
  PROVE  RequestInv'
<1>1. \A k \in Handlers : k # h => req'[k] = req[k] /\ hpc'[k] = hpc[k]
  BY DEF OneRequest, PInv, RequestInv
<1>2. \A k \in Handlers : RequestOk(hpc'[k], req'[k], k)
  BY <1>1 DEF OneRequest, PInv, RequestInv
<1>3. req'[h] \in Request /\ hpc'[h] \in {"decode", "flush", "submit", "parked", "signal", "done", "failed"}
  BY DEF OneRequest, RequestOk
<1>4. req' \in [Handlers -> Request]
  BY <1>3 DEF OneRequest, PInv, RequestInv
<1>5. hpc' \in [Handlers -> {"decode", "flush", "submit", "parked", "signal", "done", "failed"}]
  BY <1>3 DEF OneRequest, PInv, RequestInv
<1> QED BY <1>2, <1>4, <1>5 DEF RequestInv

\* The parked requests are woken, or no request moves.
Waked == hpc' = [h \in Handlers |-> IF hpc[h] = "parked" THEN "submit" ELSE hpc[h]]

\* The others leave the requests as they are, or wake the parked ones.
LEMMA OthersKeep ==
  ASSUME PInv, req' = req, nextPoint' = nextPoint, hpc' = hpc \/ Waked
  PROVE  RequestInv'
<1>1. CASE hpc' = hpc
  BY <1>1 DEF PInv, RequestInv
<1>2. CASE Waked
  <2>1. hpc' \in [Handlers -> {"decode", "flush", "submit", "parked", "signal", "done", "failed"}]
    BY <1>2 DEF Waked, PInv, RequestInv
  <2>2. \A h \in Handlers : RequestOk(hpc'[h], req'[h], h)
    <3> TAKE h \in Handlers
    <3>1. hpc'[h] = (IF hpc[h] = "parked" THEN "submit" ELSE hpc[h]) /\ RequestOk(hpc[h], req[h], h)
      BY <1>2 DEF Waked, PInv, RequestInv
    <3> QED BY <3>1 DEF RequestOk, Flushing
  <2> QED BY <2>1, <2>2 DEF PInv, RequestInv
<1> QED BY <1>1, <1>2

\* A step that is no request's.
OtherStep ==
  /\ req' = req /\ nextPoint' = nextPoint /\ (hpc' = hpc \/ Waked)

\* The loop's steps, Flush and Close are such steps.
LEMMA OtherSteps ==
  ASSUME \/ Run \/ Closing \/ Close \/ UNCHANGED vars
         \/ \E f \in Flushers : FlushCall(f) \/ Flush(f)
  PROVE  OtherStep
<1>1. CASE Run
  BY <1>1 DEF OtherStep, Waked, Run, RunQuit, RunFlush, RunBroadcast, RunWrite, RunEnd, RunEndBroadcast,
              Broadcast, endBroadcast, woken
<1>2. CASE Closing
  BY <1>2 DEF OtherStep, Waked, Closing, CloseWait, CloseBroadcast, CloseStop, CloseJoin, woken
<1>3. CASE Close \/ UNCHANGED vars \/ \E f \in Flushers : FlushCall(f) \/ Flush(f)
  BY <1>3 DEF OtherStep, Close, vars, FlushCall, Flush
<1> QED BY <1>1, <1>2, <1>3

\* Every step keeps the invariant of the requests.
LEMMA RequestStep ==
  ASSUME PInv, [Next]_vars
  PROVE  RequestInv'
<1>1. ASSUME NEW h \in Handlers, Add(h) PROVE RequestInv'
  <2>1. OneRequest(h)
    BY <1>1, AddEffect
  <2>2. nextPoint' \in Nat
    BY <1>1 DEF Add, PInv, RequestInv
  <2> QED BY <1>1, <2>1, <2>2, OneRequestKeeps
<1>2. ASSUME NEW h \in Handlers, Handler(h) PROVE RequestInv'
  <2>1. nextPoint' = nextPoint /\ nextPoint \in Nat
    BY <1>2 DEF Handler, Finish, IngestDirect, IngestSubmit, Submit, SubmitSignal, FlushedAll,
                PInv, RequestInv
  <2>2. OneRequest(h)
    BY <1>2, FinishEffect, DirectEffect, IngestEffect, SubmitEffect, SignalEffect, FlushedEffect
       DEF Handler
  <2> QED BY <1>2, <2>1, <2>2, OneRequestKeeps
<1>3. CASE \/ Run \/ Closing \/ Close \/ UNCHANGED vars
           \/ \E f \in Flushers : FlushCall(f) \/ Flush(f)
  BY <1>3, OtherSteps, OthersKeep DEF OtherStep
<1> QED BY <1>1, <1>2, <1>3 DEF Next

(***************************************************************************)
(* What the engine is given: the first chunk or its first batchSize points.*)
(***************************************************************************)
LEMMA TakeWhole ==
  ASSUME NEW s \in Seq(Chunk), s # <<>>, Len(Head(s).pts) <= batchSize
  PROVE  /\ takeFirst(s)[1] = s[1] /\ takeFirst(s)[1] \in Chunk
         /\ takeFirst(s)[2] = Tail(s) /\ takeFirst(s)[2] \in Seq(Chunk)
BY DEF takeFirst

\* A sequence of points split at place m.
LEMMA SplitPoints ==
  ASSUME NEW v \in Seq(Nat), NEW m \in Nat \ {0}, m < Len(v)
  PROVE  LET p == SubSeq(v, 1, m)
             q == SubSeq(v, m + 1, Len(v))
         IN /\ p \in Seq(Nat) /\ Len(p) = m /\ p # <<>>
            /\ \A i \in 1 .. m : p[i] = v[i]
            /\ q \in Seq(Nat) /\ Len(q) = Len(v) - m /\ q # <<>>
            /\ \A i \in 1 .. Len(v) - m : q[i] = v[i + m]
<1> DEFINE n == Len(v)
           p == SubSeq(v, 1, m)
           q == SubSeq(v, m + 1, n)
<1>1. n \in Int /\ m \in Int /\ 1 \in Int /\ m + 1 \in Int /\ n \in Nat /\ 1 <= m /\ m < n
  OBVIOUS
<1>2. \A i \in 1 .. n : v[i] \in Nat
  OBVIOUS
<1> HIDE DEF n
<1>3. (\A i \in 1 .. m : v[i] \in Nat) /\ \A i \in m + 1 .. n : v[i] \in Nat
  BY <1>1, <1>2
<1>4. /\ p \in Seq(Nat)
      /\ Len(p) = IF 1 <= m THEN m - 1 + 1 ELSE 0
      /\ \A i \in 1 .. m - 1 + 1 : p[i] = v[1 + i - 1]
  BY <1>1, <1>3, SubSeqProperties
<1>5. /\ q \in Seq(Nat)
      /\ Len(q) = IF m + 1 <= n THEN n - (m + 1) + 1 ELSE 0
      /\ \A i \in 1 .. n - (m + 1) + 1 : q[i] = v[(m + 1) + i - 1]
  BY <1>1, <1>3, SubSeqProperties
<1> HIDE DEF p, q
<1>6. Len(p) = m /\ \A i \in 1 .. m : p[i] = v[i]
  <2>1. Len(p) = m /\ m - 1 + 1 = m
    BY <1>1, <1>4
  <2>2. \A i \in 1 .. m : 1 + i - 1 = i
    BY <1>1
  <2> QED BY <1>4, <2>1, <2>2
<1>7. Len(q) = n - m /\ \A i \in 1 .. n - m : q[i] = v[i + m]
  <2>1. Len(q) = n - m /\ n - (m + 1) + 1 = n - m
    BY <1>1, <1>5
  <2>2. \A i \in 1 .. n - m : (m + 1) + i - 1 = i + m
    BY <1>1
  <2> QED BY <1>5, <2>1, <2>2
<1>8. p # <<>> /\ q # <<>>
  <2>1. Len(p) # 0 /\ Len(q) # 0
    BY <1>1, <1>6, <1>7
  <2> QED BY <2>1
<1> QED BY <1>4, <1>5, <1>6, <1>7, <1>8 DEF p, q, n

\* A chunk too large for one write is split at batchSize points.
LEMMA TakePart ==
  ASSUME NEW s \in Seq(Chunk), s # <<>>, ~(Len(Head(s).pts) <= batchSize)
  PROVE  LET a == takeFirst(s)[1]
             b == takeFirst(s)[2]
             n == Len(s[1].pts)
         IN /\ a \in Chunk /\ a.h = s[1].h /\ a.t = s[1].t
            /\ n \in Nat /\ n > batchSize /\ batchSize \in Nat \ {0}
            /\ Len(a.pts) = batchSize /\ \A i \in 1 .. batchSize : a.pts[i] = s[1].pts[i]
            /\ b \in Seq(Chunk) /\ Len(b) = Len(s)
            /\ \A i \in 2 .. Len(s) : b[i] = s[i]
            /\ b[1].h = s[1].h /\ b[1].t = s[1].t
            /\ Len(b[1].pts) = n - batchSize
            /\ \A i \in 1 .. n - batchSize : b[1].pts[i] = s[1].pts[i + batchSize]
<1> DEFINE c == s[1]
           n == Len(c.pts)
           p == SubSeq(c.pts, 1, batchSize)
           q == SubSeq(c.pts, batchSize + 1, n)
           a == [c EXCEPT !.pts = p]
           d == [c EXCEPT !.pts = q]
           b == <<d>> \o Tail(s)
<1>1. c = Head(s) /\ c \in Chunk /\ Len(s) \in Nat \ {0} /\ Tail(s) \in Seq(Chunk) /\ Len(Tail(s)) = Len(s) - 1
      /\ \A i \in 1 .. Len(s) - 1 : Tail(s)[i] = s[i + 1]
  OBVIOUS
<1>2. c.pts \in Seq(Nat) /\ n \in Nat /\ n > batchSize /\ batchSize \in Nat \ {0}
      /\ c.h \in Handlers /\ c.t \in Tables
  BY <1>1 DEF Chunk, Points
<1>3. takeFirst(s) = <<a, b>>
  BY <1>1 DEF takeFirst, piece, rest
<1>4. /\ p \in Seq(Nat) /\ Len(p) = batchSize /\ p # <<>>
      /\ \A i \in 1 .. batchSize : p[i] = c.pts[i]
  BY <1>2, SplitPoints
<1>5. /\ q \in Seq(Nat) /\ Len(q) = n - batchSize /\ q # <<>>
      /\ \A i \in 1 .. n - batchSize : q[i] = c.pts[i + batchSize]
  BY <1>2, SplitPoints
<1> HIDE DEF p, q
<1>6. a \in Chunk /\ a.h = c.h /\ a.t = c.t /\ a.pts = p
  BY <1>1, <1>4 DEF Chunk, Points
<1>7. d \in Chunk /\ d.h = c.h /\ d.t = c.t /\ d.pts = q
  BY <1>1, <1>5 DEF Chunk, Points
<1> HIDE DEF a, d, c
<1>8. <<d>> \in Seq(Chunk) /\ Len(<<d>>) = 1 /\ <<d>>[1] = d
  BY <1>7
<1>9. b \in Seq(Chunk) /\ Len(b) = Len(s) /\ b[1] = d /\ \A i \in 2 .. Len(s) : b[i] = s[i]
  <2>1. b \in Seq(Chunk) /\ Len(b) = Len(s)
    BY <1>1, <1>8
  <2>2. b[1] = d
    BY <1>1, <1>8
  <2>3. \A i \in 2 .. Len(s) : b[i] = Tail(s)[i - 1]
    BY <1>1, <1>8
  <2>4. \A i \in 2 .. Len(s) : Tail(s)[i - 1] = s[i]
    BY <1>1
  <2> QED BY <2>1, <2>2, <2>3, <2>4
<1> HIDE DEF b
<1>10. takeFirst(s)[1] = a /\ takeFirst(s)[2] = b
  BY <1>3
<1>11. /\ Len(a.pts) = batchSize /\ \A i \in 1 .. batchSize : a.pts[i] = c.pts[i]
  BY <1>4, <1>6
<1>12. /\ Len(b[1].pts) = n - batchSize
       /\ \A i \in 1 .. n - batchSize : b[1].pts[i] = c.pts[i + batchSize]
  BY <1>5, <1>7, <1>9
<1> HIDE DEF n
<1>13. /\ b \in Seq(Chunk) /\ Len(b) = Len(s)
       /\ \A i \in 2 .. Len(s) : b[i] = s[i]
       /\ b[1].h = c.h /\ b[1].t = c.t
  BY <1>7, <1>9
<1> QED BY <1>2, <1>6, <1>10, <1>11, <1>12, <1>13 DEF c, n

\* What is submitted keeps its type through the loop and the engine.
LEMMA TakeTypes ==
  ASSUME NEW s \in Seq(Chunk), s # <<>>
  PROVE  takeFirst(s)[1] \in Chunk /\ takeFirst(s)[2] \in Seq(Chunk)
BY TakeWhole, TakePart

\* Points are numbers.
LEMMA PointsNat ==
  ASSUME NEW s \in Seq(Chunk)
  PROVE  PointsOf(s) \subseteq Nat
<1>1. \A i \in DOMAIN s : s[i].pts \in Seq(Nat)
  <2>1. \A i \in DOMAIN s : s[i] \in Chunk
    OBVIOUS
  <2> QED BY <2>1 DEF Chunk, Points
<1>2. \A i \in DOMAIN s : Range(s[i].pts) \subseteq Nat
  BY <1>1 DEF Range
<1> QED BY <1>2 DEF PointsOf

(***************************************************************************)
(* The queue and the loop.                                                 *)
(***************************************************************************)
QueueInv == QueueTypes /\ LoopInv

QueueKept == UNCHANGED <<buf, taken, stored, count, busy, rpc, failed, err, quit, pipelined>>

\* A chunk has points.
LEMMA ChunkPts ==
  ASSUME NEW c \in Chunk
  PROVE  c.pts \in Seq(Nat) /\ DOMAIN c.pts = 1 .. Len(c.pts) /\ Len(c.pts) \in Nat \ {0}
<1>1. c.pts \in Seq(Nat) /\ c.pts # <<>>
  BY DEF Chunk, Points
<1> QED BY <1>1

\* The pipeline's states of a request are entered with the pipeline only.
LEMMA KeptQueue ==
  ASSUME PInv, QueueKept,
         ~pipelined => \A h \in Handlers : hpc'[h] \notin {"submit", "parked", "signal"}
  PROVE  QueueInv'
BY DEF PInv, Types, QueueTypes, QueueInv, LoopInv, QueueKept

\* A request that moves with or without the pipeline.
LEMMA NoPipe ==
  ASSUME PInv, NEW h \in Handlers, OneRequest(h),
         pipelined \/ hpc'[h] \notin {"submit", "parked", "signal"}
  PROVE  ~pipelined => \A k \in Handlers : hpc'[k] \notin {"submit", "parked", "signal"}
BY DEF PInv, LoopInv, RequestInv, OneRequest

\* The steps of the others do not enter the pipeline's states either.
LEMMA NoPipeOthers ==
  ASSUME PInv, hpc' = hpc \/ Waked
  PROVE  ~pipelined => \A k \in Handlers : hpc'[k] \notin {"submit", "parked", "signal"}
BY DEF PInv, LoopInv, RequestInv, Waked

\* The steps of a request keep the invariant of the queue and the loop.
LEMMA RequestQueue ==
  ASSUME PInv, NEW h \in Handlers, Add(h) \/ Handler(h)
  PROVE  QueueInv'
<1>1. CASE Add(h)
  <2>1. OneRequest(h) /\ hpc'[h] \in {"decode", "flush"}
    BY <1>1, AddEffect
  <2>2. QueueKept
    BY <1>1 DEF Add, QueueKept, queue, loop
  <2> QED BY <2>1, <2>2, NoPipe, KeptQueue
<1>2. CASE Finish(h)
  <2>1. OneRequest(h) /\ hpc'[h] = "flush"
    BY <1>2, FinishEffect
  <2>2. QueueKept
    BY <1>2 DEF Finish, QueueKept, queue, loop
  <2> QED BY <2>1, <2>2, NoPipe, KeptQueue
<1>3. CASE IngestSubmit(h)
  <2>1. OneRequest(h) /\ pipelined
    BY <1>3, IngestEffect
  <2>2. QueueKept
    BY <1>3 DEF IngestSubmit, QueueKept, queue, loop
  <2> QED BY <2>1, <2>2, NoPipe, KeptQueue
<1>4. CASE SubmitSignal(h)
  <2>1. OneRequest(h) /\ hpc'[h] = "flush"
    BY <1>4, SignalEffect
  <2>2. QueueKept
    BY <1>4 DEF SubmitSignal, QueueKept, queue, loop
  <2> QED BY <2>1, <2>2, NoPipe, KeptQueue
<1>5. CASE FlushedAll(h)
  <2>1. OneRequest(h) /\ hpc'[h] \in {"done", "decode"}
    BY <1>5, FlushedEffect
  <2>2. QueueKept
    BY <1>5 DEF FlushedAll, QueueKept, queue, loop
  <2> QED BY <2>1, <2>2, NoPipe, KeptQueue
<1>6. CASE IngestDirect(h)
  <2>1. OneRequest(h) /\ hpc'[h] \in {"flush", "failed"}
    BY <1>6, DirectEffect
  <2>2. UNCHANGED <<buf, taken, count, busy, rpc, failed, err, quit, pipelined>>
    BY <1>6 DEF IngestDirect, queue, loop
  <2>3. (\E c \in Chunk : stored' = Append(stored, c)) \/ stored' = stored
    BY <1>6, DirectEffect
  <2>4. stored' \in Seq(Chunk)
    <3>1. stored \in Seq(Chunk)
      BY DEF PInv, Types, QueueTypes
    <3> QED BY <2>3, <3>1
  <2>5. ~pipelined => \A k \in Handlers : hpc'[k] \notin {"submit", "parked", "signal"}
    BY <2>1, NoPipe
  <2> QED BY <2>2, <2>4, <2>5 DEF PInv, Types, QueueTypes, QueueInv, LoopInv
<1>7. CASE Submit(h)
  <2> DEFINE c == req[h].chunk
  <2>1. OneRequest(h) /\ hpc[h] = "submit" /\ c \in Chunk
    BY <1>7, SubmitEffect
  <2>2. UNCHANGED <<taken, stored, busy, rpc, failed, err, quit, pipelined>>
    BY <1>7 DEF Submit, loop
  <2>3. \/ buf' = buf /\ count' = count
        \/ buf' = Append(buf, c) /\ count' = count + Len(c.pts)
    BY <1>7, SubmitEffect
  <2>4. Len(c.pts) \in Nat \ {0}
    BY <2>1, ChunkPts
  <2>5. pipelined
    BY <2>1 DEF PInv, LoopInv
  <2> HIDE DEF c
  <2>6. buf' \in Seq(Chunk) /\ count' \in Nat /\ (count' = 0 <=> buf' = <<>>)
    <3>1. buf \in Seq(Chunk) /\ count \in Nat /\ (count = 0 <=> buf = <<>>)
      BY DEF PInv, Types, QueueTypes, LoopInv
    <3>2. CASE buf' = buf /\ count' = count
      BY <3>1, <3>2
    <3>3. CASE buf' = Append(buf, c) /\ count' = count + Len(c.pts)
      <4>1. buf' \in Seq(Chunk) /\ buf' # <<>>
        BY <2>1, <3>1, <3>3
      <4>2. count' \in Nat /\ count' # 0
        BY <2>4, <3>1, <3>3
      <4> QED BY <4>1, <4>2
    <3> QED BY <2>3, <3>2, <3>3
  <2> QED BY <2>2, <2>5, <2>6 DEF PInv, Types, QueueTypes, QueueInv, LoopInv
<1> QED BY <1>1, <1>2, <1>3, <1>4, <1>5, <1>6, <1>7 DEF Handler

\* So do the loop's steps (run, flush and writeChunks in writer.go).
LEMMA RunQueue ==
  ASSUME PInv, Run
  PROVE  QueueInv'
<1>1. ~pipelined => \A k \in Handlers : hpc'[k] \notin {"submit", "parked", "signal"}
  BY OtherSteps, NoPipeOthers DEF OtherStep
<1>2. /\ buf \in Seq(Chunk) /\ taken \in Seq(Chunk) /\ stored \in Seq(Chunk)
      /\ count \in Nat /\ busy \in {0, 1} /\ failed \in BOOLEAN /\ err \in BOOLEAN
      /\ quit \in BOOLEAN /\ pipelined \in BOOLEAN
  BY DEF PInv, Types, QueueTypes
<1>3. CASE RunQuit
  <2>1. UNCHANGED <<buf, taken, stored, count, busy, failed, err, quit, pipelined>> /\ rpc = "select" /\ rpc' = "exited"
    BY <1>3 DEF RunQuit, queue
  <2> QED BY <1>1, <1>2, <2>1 DEF PInv, QueueInv, QueueTypes, LoopInv
<1>4. CASE RunFlush
  <2>1. UNCHANGED <<stored, err, quit, pipelined>> /\ rpc = "select" /\ pipelined
    BY <1>4 DEF RunFlush
  <2>2. CASE count = 0
    <3>1. UNCHANGED <<rpc, taken, failed, buf, count, busy>>
      BY <1>4, <2>2 DEF RunFlush
    <3> QED BY <1>1, <2>1, <3>1, KeptQueue DEF QueueKept
  <2>3. CASE count # 0
    <3>1. taken' = buf /\ buf' = <<>> /\ count' = 0 /\ busy' = busy + 1 /\ rpc' = "bcast" /\ failed' = FALSE
      BY <1>4, <2>3 DEF RunFlush
    <3>2. busy = 0
      BY <1>2, <2>1 DEF PInv, LoopInv
    <3>3. <<>> \in Seq(Chunk) /\ buf' \in Seq(Chunk) /\ taken' \in Seq(Chunk) /\ busy' = 1
      BY <1>2, <3>1, <3>2
    <3>4. QueueTypes'
      BY <1>2, <2>1, <3>1, <3>3 DEF QueueTypes
    <3>5. LoopInv'
      BY <2>1, <3>1, <3>3 DEF LoopInv
    <3> QED BY <3>4, <3>5 DEF QueueInv
  <2> QED BY <2>2, <2>3
<1>5. CASE RunBroadcast
  <2>1. UNCHANGED <<buf, taken, stored, count, busy, failed, err, quit, pipelined>> /\ rpc = "bcast" /\ rpc' = "write"
    BY <1>5 DEF RunBroadcast, queue
  <2> QED BY <1>1, <1>2, <2>1 DEF PInv, QueueInv, QueueTypes, LoopInv
<1>6. CASE RunWrite
  <2>1. UNCHANGED <<buf, count, busy, rpc, err, quit, pipelined>> /\ rpc = "write" /\ taken # <<>>
    BY <1>6 DEF RunWrite, queue
  <2>2. \/ stored' = Append(stored, takeFirst(taken)[1]) /\ taken' = takeFirst(taken)[2] /\ failed' = failed
        \/ taken' = <<>> /\ failed' = TRUE /\ stored' = stored
    BY <1>6 DEF RunWrite
  <2>3. takeFirst(taken)[1] \in Chunk /\ takeFirst(taken)[2] \in Seq(Chunk)
    BY <1>2, <2>1, TakeTypes
  <2>4. stored' \in Seq(Chunk) /\ taken' \in Seq(Chunk) /\ failed' \in BOOLEAN
    <3>1. <<>> \in Seq(Chunk) /\ Append(stored, takeFirst(taken)[1]) \in Seq(Chunk)
      BY <1>2, <2>3
    <3> QED BY <1>2, <2>2, <2>3, <3>1
  <2>5. pipelined /\ (failed => err)
    BY <2>1 DEF PInv, LoopInv
  <2>6. failed' => err' \/ (rpc' = "write" /\ taken' = <<>>)
    BY <2>1, <2>2, <2>5
  <2> QED BY <1>2, <2>1, <2>4, <2>5, <2>6 DEF PInv, QueueInv, QueueTypes, LoopInv
<1>7. CASE RunEnd
  <2>1. /\ UNCHANGED <<buf, taken, stored, count, failed, quit, pipelined>> /\ rpc = "write" /\ taken = <<>>
        /\ rpc' = "bcastEnd" /\ busy' = busy - 1 /\ err' = (err \/ failed)
    BY <1>7 DEF RunEnd
  <2>2. busy = 1
    BY <2>1 DEF PInv, LoopInv
  <2>3. err' \in BOOLEAN /\ (failed' => err')
    BY <1>2, <2>1
  <2> QED BY <1>1, <1>2, <2>1, <2>2, <2>3 DEF PInv, QueueInv, QueueTypes, LoopInv
<1>8. CASE RunEndBroadcast
  <2>1. /\ UNCHANGED <<buf, taken, stored, count, busy, failed, err, quit, pipelined>>
        /\ rpc = "bcastEnd" /\ rpc' = "select"
    BY <1>8 DEF RunEndBroadcast, queue
  <2> QED BY <1>1, <1>2, <2>1 DEF PInv, QueueInv, QueueTypes, LoopInv
<1> QED BY <1>3, <1>4, <1>5, <1>6, <1>7, <1>8 DEF Run

\* And the steps of Flush and Close.
LEMMA CallQueue ==
  ASSUME PInv, \/ Closing \/ Close \/ UNCHANGED vars \/ \E f \in Flushers : FlushCall(f) \/ Flush(f)
  PROVE  QueueInv'
<1>1. ~pipelined => \A k \in Handlers : hpc'[k] \notin {"submit", "parked", "signal"}
  BY OtherSteps, NoPipeOthers DEF OtherStep
<1>2. CASE Closing \/ UNCHANGED vars \/ \E f \in Flushers : FlushCall(f) \/ Flush(f)
  <2>1. QueueKept
    BY <1>2 DEF Closing, CloseWait, CloseBroadcast, CloseStop, CloseJoin, vars, FlushCall, Flush, queue, loop,
                QueueKept
  <2> QED BY <1>1, <2>1, KeptQueue
<1>3. CASE Close
  <2>1. UNCHANGED <<buf, taken, stored, count, busy, rpc, failed, err, pipelined>> /\ quit' = TRUE
    BY <1>3 DEF Close, loop
  <2> QED BY <1>1, <2>1 DEF PInv, Types, QueueTypes, QueueInv, LoopInv
<1> QED BY <1>2, <1>3

\* Flush callers.
LEMMA CallStep ==
  ASSUME PInv, [Next]_vars
  PROVE  CallTypes'
<1>1. fpc \in [Flushers -> {"idle", "call", "parked", "done", "error"}] /\ before \in [Flushers -> SUBSET Nat]
  BY DEF PInv, Types, CallTypes
<1>2. CASE \E h \in Handlers : Add(h) \/ Handler(h)
  BY <1>1, <1>2 DEF CallTypes, Add, Handler, Finish, IngestDirect, IngestSubmit, Submit, SubmitSignal, FlushedAll
<1>3. CASE Run \/ Closing \/ Close \/ UNCHANGED vars
  <2>1. before' = before
    BY <1>3 DEF Run, RunQuit, RunFlush, RunBroadcast, RunWrite, RunEnd, RunEndBroadcast, Closing, CloseWait,
                CloseBroadcast, CloseStop, CloseJoin, Close, vars
  <2>2. fpc' = fpc \/ fpc' = [f \in Flushers |-> IF fpc[f] = "parked" THEN "call" ELSE fpc[f]]
    BY <1>3 DEF Run, RunQuit, RunFlush, RunBroadcast, RunWrite, RunEnd, RunEndBroadcast, Closing, CloseWait,
                CloseBroadcast, CloseStop, CloseJoin, Close, vars, Broadcast, endBroadcast, woken
  <2> QED BY <1>1, <2>1, <2>2 DEF CallTypes
<1>4. ASSUME NEW f \in Flushers, FlushCall(f) PROVE CallTypes'
  <2>1. Submitted \in SUBSET Nat
    <3>1. buf \in Seq(Chunk) /\ taken \in Seq(Chunk) /\ stored \in Seq(Chunk)
      BY DEF PInv, Types, QueueTypes
    <3> QED BY <3>1, PointsNat DEF Submitted
  <2>2. fpc' = [fpc EXCEPT ![f] = "call"] /\ before' = [before EXCEPT ![f] = Submitted]
    BY <1>4 DEF FlushCall
  <2> QED BY <1>1, <2>1, <2>2 DEF CallTypes
<1>5. ASSUME NEW f \in Flushers, Flush(f) PROVE CallTypes'
  BY <1>1, <1>5 DEF Flush, CallTypes
<1> QED BY <1>2, <1>3, <1>4, <1>5 DEF Next

\* PInv is inductive.
LEMMA PStep ==
  ASSUME PInv, [Next]_vars
  PROVE  PInv'
<1>1. QueueInv'
  BY RequestQueue, RunQueue, CallQueue DEF Next
<1>2. RequestInv'
  BY RequestStep
<1>3. CallTypes'
  BY CallStep
<1> QED BY <1>1, <1>2, <1>3 DEF PInv, Types, QueueInv

\* It holds before the first request.
LEMMA PInit ==
  Init => PInv
<1> SUFFICES ASSUME Init PROVE PInv
  OBVIOUS
<1>1. QueueTypes /\ LoopInv
  <2>1. <<>> \in Seq(Chunk)
    OBVIOUS
  <2>2. QueueTypes
    BY <2>1 DEF Init, QueueTypes
  <2>3. \A h \in Handlers : hpc[h] \notin {"submit", "parked", "signal"}
    BY DEF Init
  <2>4. LoopInv
    BY <2>3 DEF Init, LoopInv
  <2> QED BY <2>2, <2>4
<1>2. CallTypes
  BY DEF Init, CallTypes
<1>3. RequestInv
  <2>1. \A h \in Handlers : hpc[h] = "decode" /\ req[h] = NewRequest
    BY DEF Init
  <2>2. \A h \in Handlers : RequestOk(hpc[h], req[h], h)
    BY <2>1, InitHeld DEF RequestOk, Flushing
  <2>3. req \in [Handlers -> Request]
    BY InitHeld DEF Init
  <2> QED BY <2>2, <2>3 DEF Init, RequestInv
<1> QED BY <1>1, <1>2, <1>3 DEF PInv, Types

\* The invariant of the requests, the queue and the loop (ingest.go, writer.go) holds always.
THEOREM PipelineInvariance == Spec => []PInv
<1>1. PInv /\ [Next]_vars => PInv'
  BY PStep
<1> QED BY PInit, <1>1, PTL DEF Spec

\* The count a response reports is the points the request decoded (Finish, ingest.go): what was
\* handed over is all of it, for any number of requests and tables and any batch size.
THEOREM ResponseExact == Spec => []ResponseCounts
<1>1. PInv => ResponseCounts
  <2> SUFFICES ASSUME PInv, NEW h \in Handlers, hpc[h] = "done"
               PROVE  req[h].written = req[h].decoded /\ req[h].pendingN = 0
    BY DEF ResponseCounts
  <2>1. HeldPoints(req[h]) = {} /\ Counted(req[h]) /\ req[h] \in Request
    BY DEF PInv, RequestInv, RequestOk
  <2>2. Cardinality(HeldPoints(req[h])) = 0
    BY <2>1, FS_EmptySet
  <2>3. req[h].pendingN = 0
    BY <2>1, <2>2 DEF Counted
  <2>4. req[h].decoded = req[h].written + 0 /\ req[h].written \in Int
    BY <2>1, <2>3 DEF Counted, Request
  <2> QED BY <2>3, <2>4
<1> QED BY PipelineInvariance, <1>1, PTL

(***************************************************************************)
(* What a Flush sees: until an error is kept, no submitted point is lost   *)
(* on its way to the engine.                                               *)
(***************************************************************************)
FlushInv ==
  \A f \in Flushers :
    /\ fpc[f] \in {"call", "parked"} => err \/ failed \/ before[f] \subseteq Submitted
    /\ fpc[f] = "done" => before[f] \subseteq PointsOf(stored)

\* A point of a sequence of chunks is at some place of some chunk.
LEMMA PointsIn ==
  ASSUME NEW s, NEW p
  PROVE  p \in PointsOf(s) <=> \E i \in DOMAIN s : \E k \in DOMAIN s[i].pts : p = s[i].pts[k]
<1>1. \A i \in DOMAIN s : p \in Range(s[i].pts) <=> \E k \in DOMAIN s[i].pts : p = s[i].pts[k]
  BY DEF Range
<1> QED BY <1>1 DEF PointsOf

\* An empty queue has no points.
LEMMA PointsEmpty ==
  PointsOf(<<>>) = {}
BY DEF PointsOf

\* An appended chunk adds its points.
LEMMA PointsAppend ==
  ASSUME NEW s \in Seq(Chunk), NEW c \in Chunk
  PROVE  PointsOf(Append(s, c)) = PointsOf(s) \cup Range(c.pts)
<1> DEFINE a == Append(s, c)
<1>1. /\ DOMAIN a = DOMAIN s \cup {Len(s) + 1} /\ a[Len(s) + 1] = c
      /\ \A i \in DOMAIN s : a[i] = s[i]
  OBVIOUS
<1> HIDE DEF a
<1>2. PointsOf(a) = PointsOf(s) \cup Range(c.pts)
  BY <1>1 DEF PointsOf
<1> QED BY <1>2 DEF a

\* Nothing of the batch is lost between the engine and the rest of the batch.
LEMMA PointsTake ==
  ASSUME NEW s \in Seq(Chunk), s # <<>>
  PROVE  PointsOf(s) \subseteq Range(takeFirst(s)[1].pts) \cup PointsOf(takeFirst(s)[2])
<1> DEFINE a == takeFirst(s)[1]
           b == takeFirst(s)[2]
<1> SUFFICES ASSUME NEW p \in PointsOf(s) PROVE p \in Range(a.pts) \cup PointsOf(b)
  OBVIOUS
<1>1. PICK i \in DOMAIN s : \E k \in DOMAIN s[i].pts : p = s[i].pts[k]
  BY PointsIn
<1>2. PICK k \in DOMAIN s[i].pts : p = s[i].pts[k]
  BY <1>1
<1>3. s[1] = Head(s) /\ s[1] \in Chunk /\ s[1].pts \in Seq(Nat) /\ DOMAIN s = 1 .. Len(s) /\ Len(s) \in Nat
  <2>1. s[1] = Head(s) /\ s[1] \in Chunk /\ DOMAIN s = 1 .. Len(s) /\ Len(s) \in Nat
    OBVIOUS
  <2> QED BY <2>1, ChunkPts
<1>4. CASE Len(Head(s).pts) <= batchSize
  <2>1. a = s[1] /\ b = Tail(s)
    BY <1>4, TakeWhole
  <2>2. CASE i = 1
    BY <1>2, <2>1, <2>2 DEF Range
  <2>3. CASE i # 1
    <3>1. i - 1 \in DOMAIN Tail(s) /\ Tail(s)[i - 1] = s[i]
      BY <1>1, <1>3, <2>3
    <3> QED BY <1>2, <2>1, <3>1, PointsIn
  <2> QED BY <2>2, <2>3
<1>5. CASE ~(Len(Head(s).pts) <= batchSize)
  <2> DEFINE n == Len(s[1].pts)
  <2>1. /\ a \in Chunk /\ n \in Nat /\ n > batchSize /\ batchSize \in Nat \ {0}
        /\ Len(a.pts) = batchSize /\ \A j \in 1 .. batchSize : a.pts[j] = s[1].pts[j]
        /\ b \in Seq(Chunk) /\ Len(b) = Len(s)
        /\ \A j \in 2 .. Len(s) : b[j] = s[j]
        /\ Len(b[1].pts) = n - batchSize
        /\ \A j \in 1 .. n - batchSize : b[1].pts[j] = s[1].pts[j + batchSize]
    BY <1>5, TakePart
  <2> HIDE DEF a, b
  <2>2. DOMAIN b = 1 .. Len(s) /\ b[1] \in Chunk
    BY <1>1, <1>3, <2>1
  <2>3. DOMAIN a.pts = 1 .. batchSize /\ DOMAIN b[1].pts = 1 .. n - batchSize
    <3>1. DOMAIN a.pts = 1 .. Len(a.pts) /\ DOMAIN b[1].pts = 1 .. Len(b[1].pts)
      BY <2>1, <2>2, ChunkPts
    <3> QED BY <2>1, <3>1
  <2>4. CASE i # 1
    <3>1. i \in DOMAIN b /\ b[i] = s[i]
      BY <1>1, <1>3, <2>1, <2>2, <2>4
    <3> QED BY <1>2, <3>1, PointsIn
  <2>5. CASE i = 1 /\ k <= batchSize
    <3>1. k \in DOMAIN a.pts /\ a.pts[k] = p
      <4>1. k \in 1 .. n /\ p = s[1].pts[k]
        BY <1>2, <1>3, <2>5
      <4>2. k \in 1 .. batchSize
        BY <2>1, <2>5, <4>1
      <4> QED BY <2>1, <2>3, <4>1, <4>2
    <3> QED BY <3>1 DEF Range
  <2>6. CASE i = 1 /\ ~(k <= batchSize)
    <3>1. k - batchSize \in DOMAIN b[1].pts /\ b[1].pts[k - batchSize] = p /\ 1 \in DOMAIN b
      <4>1. k \in 1 .. n /\ p = s[1].pts[k] /\ 1 \in DOMAIN b
        BY <1>1, <1>2, <1>3, <2>2, <2>6
      <4> DEFINE j == k - batchSize
      <4>2. j \in 1 .. n - batchSize /\ j + batchSize = k
        BY <2>1, <2>6, <4>1
      <4> HIDE DEF j
      <4>3. b[1].pts[j] = p /\ j \in DOMAIN b[1].pts
        BY <2>1, <2>3, <4>1, <4>2
      <4> QED BY <4>1, <4>3 DEF j
    <3> QED BY <3>1, PointsIn
  <2> QED BY <2>4, <2>5, <2>6
<1> QED BY <1>4, <1>5

\* Each step keeps what is submitted, or a write has failed.
Grows ==
  /\ PointsOf(stored) \subseteq PointsOf(stored')
  /\ \/ failed'
     \/ Submitted \subseteq Submitted' /\ (err \/ failed => err' \/ failed')

\* It does when the queue, the batch and the engine are left alone.
LEMMA KeptGrows ==
  ASSUME QueueKept
  PROVE  Grows
BY DEF QueueKept, Grows, Submitted, PointsOf

\* Every step does: only a failed write drops points, and it is remembered.
LEMMA SubmittedGrows ==
  ASSUME PInv, [Next]_vars
  PROVE  Grows
<1>0. buf \in Seq(Chunk) /\ taken \in Seq(Chunk) /\ stored \in Seq(Chunk)
  BY DEF PInv, Types, QueueTypes
<1>1. ASSUME NEW h \in Handlers, Add(h) \/ Finish(h) \/ IngestSubmit(h) \/ SubmitSignal(h) \/ FlushedAll(h)
      PROVE  Grows
  <2>1. QueueKept
    BY <1>1 DEF Add, Finish, IngestSubmit, SubmitSignal, FlushedAll, QueueKept, queue, loop
  <2> QED BY <2>1, KeptGrows
<1>2. ASSUME NEW h \in Handlers, IngestDirect(h) PROVE Grows
  <2>1. UNCHANGED <<buf, taken, failed, err>>
    BY <1>2 DEF IngestDirect, queue, loop
  <2>2. (\E c \in Chunk : stored' = Append(stored, c)) \/ stored' = stored
    BY <1>2, DirectEffect
  <2>3. PointsOf(stored) \subseteq PointsOf(stored')
    BY <1>0, <2>2, PointsAppend
  <2> QED BY <2>1, <2>3 DEF Grows, Submitted
<1>3. ASSUME NEW h \in Handlers, Submit(h) PROVE Grows
  <2>1. UNCHANGED <<stored, taken, failed, err>>
    BY <1>3 DEF Submit, loop
  <2>2. (\E c \in Chunk : buf' = Append(buf, c)) \/ buf' = buf
    BY <1>3, SubmitEffect
  <2>3. PointsOf(buf) \subseteq PointsOf(buf')
    BY <1>0, <2>2, PointsAppend
  <2> QED BY <2>1, <2>3 DEF Grows, Submitted
<1>4. CASE RunFlush
  <2>1. stored' = stored /\ err' = err /\ rpc = "select"
    BY <1>4 DEF RunFlush
  <2>2. taken = <<>> /\ (failed => err)
    BY <2>1 DEF PInv, LoopInv
  <2>3. CASE count = 0
    <3>1. buf' = buf /\ taken' = taken
      BY <1>4, <2>3 DEF RunFlush
    <3> QED BY <2>1, <2>2, <3>1 DEF Grows, Submitted
  <2>4. CASE count # 0
    <3>1. taken' = buf
      BY <1>4, <2>4 DEF RunFlush
    <3> QED BY <2>1, <2>2, <3>1, PointsEmpty DEF Grows, Submitted
  <2> QED BY <2>3, <2>4
<1>5. CASE RunWrite
  <2>1. buf' = buf /\ err' = err /\ taken # <<>>
    BY <1>5 DEF RunWrite, queue
  <2>2. CASE stored' = Append(stored, takeFirst(taken)[1]) /\ taken' = takeFirst(taken)[2] /\ failed' = failed
    <3>1. PointsOf(stored') = PointsOf(stored) \cup Range(takeFirst(taken)[1].pts)
      BY <1>0, <2>1, <2>2, TakeTypes, PointsAppend
    <3>2. PointsOf(taken) \subseteq Range(takeFirst(taken)[1].pts) \cup PointsOf(taken')
      BY <1>0, <2>1, <2>2, PointsTake
    <3> QED BY <2>1, <2>2, <3>1, <3>2 DEF Grows, Submitted
  <2>3. CASE failed' = TRUE /\ stored' = stored
    BY <2>3 DEF Grows
  <2> QED BY <1>5, <2>2, <2>3 DEF RunWrite
<1>6. CASE RunEnd
  <2>1. UNCHANGED <<buf, taken, stored, failed>> /\ err' = (err \/ failed)
    BY <1>6 DEF RunEnd
  <2> QED BY <2>1 DEF Grows, Submitted
<1>7. CASE \/ RunQuit \/ RunBroadcast \/ RunEndBroadcast \/ Close \/ Closing \/ UNCHANGED vars
           \/ \E f \in Flushers : FlushCall(f) \/ Flush(f)
  <2>1. UNCHANGED <<buf, taken, stored, failed, err>>
    BY <1>7 DEF RunQuit, RunBroadcast, RunEndBroadcast, Close, Closing, CloseWait, CloseBroadcast, CloseStop,
                CloseJoin, vars, FlushCall, Flush, queue, loop
  <2> QED BY <2>1 DEF Grows, Submitted
<1> QED BY <1>1, <1>2, <1>3, <1>4, <1>5, <1>6, <1>7 DEF Next, Handler, Run

\* FlushInv is inductive under PInv.
LEMMA FlushStep ==
  ASSUME PInv, FlushInv, [Next]_vars
  PROVE  FlushInv'
<1> SUFFICES ASSUME NEW g \in Flushers
             PROVE  /\ fpc'[g] \in {"call", "parked"} => err' \/ failed' \/ before'[g] \subseteq Submitted'
                    /\ fpc'[g] = "done" => before'[g] \subseteq PointsOf(stored')
  BY DEF FlushInv
<1>1. Grows
  BY SubmittedGrows
<1>2. /\ fpc[g] \in {"call", "parked"} => err \/ failed \/ before[g] \subseteq Submitted
      /\ fpc[g] = "done" => before[g] \subseteq PointsOf(stored)
  BY DEF FlushInv
<1>3. fpc \in [Flushers -> {"idle", "call", "parked", "done", "error"}] /\ before \in [Flushers -> SUBSET Nat]
  BY DEF PInv, Types, CallTypes
<1>4. CASE /\ before'[g] = before[g]
           /\ (fpc'[g] \in {"call", "parked"} => fpc[g] \in {"call", "parked"})
           /\ (fpc'[g] = "done" => fpc[g] = "done")
  BY <1>1, <1>2, <1>4 DEF Grows
<1>5. CASE \E h \in Handlers : Add(h) \/ Handler(h)
  <2>1. fpc' = fpc /\ before' = before
    BY <1>5 DEF Add, Handler, Finish, IngestDirect, IngestSubmit, Submit, SubmitSignal, FlushedAll
  <2> QED BY <1>4, <2>1
<1>6. CASE Run \/ Closing \/ Close \/ UNCHANGED vars
  <2>1. before' = before
    BY <1>6 DEF Run, RunQuit, RunFlush, RunBroadcast, RunWrite, RunEnd, RunEndBroadcast, Closing, CloseWait,
                CloseBroadcast, CloseStop, CloseJoin, Close, vars
  <2>2. fpc' = fpc \/ fpc' = [f \in Flushers |-> IF fpc[f] = "parked" THEN "call" ELSE fpc[f]]
    BY <1>6 DEF Run, RunQuit, RunFlush, RunBroadcast, RunWrite, RunEnd, RunEndBroadcast, Closing, CloseWait,
                CloseBroadcast, CloseStop, CloseJoin, Close, vars, Broadcast, endBroadcast, woken
  <2>3. fpc'[g] = fpc[g] \/ (fpc[g] = "parked" /\ fpc'[g] = "call")
    BY <2>2
  <2> QED BY <1>4, <2>1, <2>3
<1>7. ASSUME NEW f \in Flushers, FlushCall(f)
      PROVE  /\ fpc'[g] \in {"call", "parked"} => err' \/ failed' \/ before'[g] \subseteq Submitted'
             /\ fpc'[g] = "done" => before'[g] \subseteq PointsOf(stored')
  <2>1. /\ fpc' = [fpc EXCEPT ![f] = "call"] /\ before' = [before EXCEPT ![f] = Submitted]
        /\ UNCHANGED <<buf, taken, stored>>
    BY <1>7 DEF FlushCall, queue, loop
  <2>2. CASE g = f
    <3>1. fpc'[g] = "call" /\ before'[g] = Submitted
      BY <1>3, <2>1, <2>2
    <3>2. Submitted' = Submitted
      BY <2>1 DEF Submitted
    <3> QED BY <3>1, <3>2
  <2>3. CASE g # f
    BY <1>4, <2>1, <2>3
  <2> QED BY <2>2, <2>3
<1>8. ASSUME NEW f \in Flushers, Flush(f)
      PROVE  /\ fpc'[g] \in {"call", "parked"} => err' \/ failed' \/ before'[g] \subseteq Submitted'
             /\ fpc'[g] = "done" => before'[g] \subseteq PointsOf(stored')
  <2>1. /\ fpc[f] = "call" /\ before' = before /\ stored' = stored
        /\ fpc' = [fpc EXCEPT ![f] = IF ~Drained THEN "parked" ELSE IF err THEN "error" ELSE "done"]
    BY <1>8 DEF Flush
  <2>2. CASE g # f
    BY <1>4, <2>1, <2>2
  <2>3. CASE g = f /\ ~(Drained /\ ~err)
    BY <1>3, <1>4, <2>1, <2>3
  <2>4. CASE g = f /\ Drained /\ ~err
    <3>1. fpc'[g] = "done" /\ fpc[g] = "call"
      BY <1>3, <2>1, <2>4
    <3>2. buf = <<>> /\ taken = <<>> /\ ~failed
      BY <2>4 DEF Drained, PInv, LoopInv
    <3>3. Submitted = PointsOf(stored)
      BY <3>2, PointsEmpty DEF Submitted
    <3> QED BY <1>2, <2>1, <2>4, <3>1, <3>2, <3>3
  <2> QED BY <2>2, <2>3, <2>4
<1> QED BY <1>5, <1>6, <1>7, <1>8 DEF Next

\* A Flush that returns without an error has seen all that was submitted before the call reach
\* the engine (Flush, writer.go), whatever was submitted, taken or failed meanwhile.
THEOREM FlushSound == Spec => []FlushSees
<1>1. Init => FlushInv
  BY DEF Init, FlushInv
<1>2. PInv /\ FlushInv /\ [Next]_vars => FlushInv'
  BY FlushStep
<1>3. FlushInv => FlushSees
  BY DEF FlushInv, FlushSees
<1> QED BY PipelineInvariance, <1>1, <1>2, <1>3, PTL DEF Spec

(***************************************************************************)
(* What count counts, and the bound it keeps.                              *)
(***************************************************************************)
CountInv ==
  /\ IsFiniteSet(Places(PtsOf(buf))) /\ count = TotalLen(PtsOf(buf))
  /\ QueueBound

\* A chunk appended adds its points to the places of the queue.
LEMMA PlacesAppend ==
  ASSUME NEW s \in Seq(Chunk), NEW c \in Chunk, IsFiniteSet(Places(PtsOf(s)))
  PROVE  /\ IsFiniteSet(Places(PtsOf(Append(s, c))))
         /\ TotalLen(PtsOf(Append(s, c))) = TotalLen(PtsOf(s)) + Len(c.pts)
<1> DEFINE n == Len(s) + 1
           I == 1 .. Len(c.pts)
           P == Places(PtsOf(s))
           Q == {n} \X I
           a == Append(s, c)
<1>1. /\ DOMAIN a = DOMAIN s \cup {n} /\ a[n] = c /\ n \notin DOMAIN s
      /\ \A i \in DOMAIN s : a[i] = s[i]
  OBVIOUS
<1>2. Len(c.pts) \in Nat /\ Len(c.pts) \in Int /\ 1 \in Int
  BY ChunkPts
<1> HIDE DEF n, a
<1>3. /\ DOMAIN PtsOf(a) = DOMAIN s \cup {n} /\ PtsOf(a)[n] = c.pts /\ DOMAIN PtsOf(s) = DOMAIN s
      /\ \A i \in DOMAIN s : PtsOf(a)[i] = PtsOf(s)[i]
  BY <1>1 DEF PtsOf
<1>4. Places(PtsOf(a)) = P \cup Q
  BY <1>3 DEF Places
<1>5. P \cap Q = {}
  <2>1. \A x \in P : \E i \in DOMAIN s : x \in {i} \X (1 .. Len(PtsOf(s)[i]))
    BY <1>3 DEF Places
  <2> QED BY <1>1, <2>1
<1>6. IsFiniteSet(I) /\ Cardinality(I) = Len(c.pts)
  <2> DEFINE m == Len(c.pts)
  <2> HIDE DEF m
  <2>1. IsFiniteSet(1 .. m) /\ Cardinality(1 .. m) = IF 1 > m THEN 0 ELSE m - 1 + 1
    <3>1. m \in Int /\ 1 \in Int
      BY <1>2 DEF m
    <3> QED BY <3>1, FS_Interval
  <2>2. m \in Nat
    BY <1>2 DEF m
  <2>3. Cardinality(1 .. m) = m
    BY <2>1, <2>2
  <2> QED BY <2>1, <2>3 DEF m
<1>7. IsFiniteSet({n}) /\ Cardinality({n}) = 1
  BY FS_Singleton
<1> HIDE DEF I, P
<1>8. IsFiniteSet(Q) /\ Cardinality(Q) = Cardinality({n}) * Cardinality(I)
  BY <1>6, <1>7, FS_Product, ZenonT(30)
<1>9. Cardinality(Q) = Len(c.pts)
  BY <1>2, <1>6, <1>7, <1>8
<1> HIDE DEF Q
<1>10. /\ IsFiniteSet(P \cup Q)
       /\ Cardinality(P \cup Q) = Cardinality(P) + Cardinality(Q) - Cardinality(P \cap Q)
  BY <1>8, FS_Union DEF P
<1>11. Cardinality(P \cap Q) = 0
  BY <1>5, FS_EmptySet
<1>12. Cardinality(P) \in Nat
  BY FS_CardinalityType DEF P
<1>13. Cardinality(P \cup Q) = Cardinality(P) + Len(c.pts)
  BY <1>2, <1>9, <1>10, <1>11, <1>12
<1> QED BY <1>4, <1>10, <1>13 DEF a, P, TotalLen

\* An empty queue counts none.
LEMMA PlacesEmpty ==
  IsFiniteSet(Places(PtsOf(<<>>))) /\ TotalLen(PtsOf(<<>>)) = 0
<1>1. Places(PtsOf(<<>>)) = {}
  BY DEF Places, PtsOf
<1> QED BY <1>1, FS_EmptySet DEF TotalLen

\* CountInv is inductive under PInv.
LEMMA CountStep ==
  ASSUME PInv, CountInv, [Next]_vars
  PROVE  CountInv'
<1>0. buf \in Seq(Chunk) /\ count \in Nat /\ quit \in BOOLEAN /\ maxQueue \in Nat
  BY DEF PInv, Types, QueueTypes, maxQueue
<1>1. CASE buf' = buf /\ count' = count /\ (quit' = quit \/ quit')
  BY <1>1 DEF CountInv, QueueBound
<1>2. ASSUME NEW h \in Handlers, Add(h) \/ Handler(h), ~Submit(h) PROVE CountInv'
  <2>1. buf' = buf /\ count' = count /\ quit' = quit
    BY <1>2 DEF Add, Handler, Finish, IngestDirect, IngestSubmit, SubmitSignal, FlushedAll, queue
  <2> QED BY <1>1, <2>1
<1>3. ASSUME NEW h \in Handlers, Submit(h) PROVE CountInv'
  <2> DEFINE c == req[h].chunk
  <2>1. /\ quit' = quit /\ c \in Chunk
        /\ \/ buf' = buf /\ count' = count
           \/ ~MustWait /\ buf' = Append(buf, c) /\ count' = count + Len(c.pts)
    BY <1>3, SubmitEffect DEF Submit
  <2> HIDE DEF c
  <2>2. CASE ~MustWait /\ buf' = Append(buf, c) /\ count' = count + Len(c.pts)
    <3>1. IsFiniteSet(Places(PtsOf(buf'))) /\ TotalLen(PtsOf(buf')) = TotalLen(PtsOf(buf)) + Len(c.pts)
      BY <1>0, <2>1, <2>2, PlacesAppend DEF CountInv
    <3>2. count' = TotalLen(PtsOf(buf'))
      BY <2>2, <3>1 DEF CountInv
    <3>3. Front(buf') = buf
      BY <1>0, <2>1, <2>2, AppendProperties DEF Front
    <3>4. ~quit => TotalLen(PtsOf(buf)) < maxQueue
      BY <1>0, <2>2 DEF MustWait, CountInv
    <3>5. QueueBound'
      BY <2>1, <3>3, <3>4 DEF QueueBound
    <3> QED BY <3>1, <3>2, <3>5 DEF CountInv
  <2> QED BY <1>1, <2>1, <2>2
<1>4. CASE RunFlush
  <2>1. CASE count = 0
    BY <1>1, <1>4, <2>1 DEF RunFlush
  <2>2. CASE count # 0
    <3>1. buf' = <<>> /\ count' = 0
      BY <1>4, <2>2 DEF RunFlush
    <3> QED BY <3>1, PlacesEmpty DEF CountInv, QueueBound
  <2> QED BY <2>1, <2>2
<1>5. CASE Run /\ ~RunFlush
  BY <1>1, <1>5 DEF Run, RunQuit, RunBroadcast, RunWrite, RunEnd, RunEndBroadcast, queue
<1>6. CASE Close \/ Closing \/ UNCHANGED vars \/ \E f \in Flushers : FlushCall(f) \/ Flush(f)
  BY <1>1, <1>6 DEF Close, Closing, CloseWait, CloseBroadcast, CloseStop, CloseJoin, vars, FlushCall, Flush,
                    queue
<1> QED BY <1>2, <1>3, <1>4, <1>5, <1>6 DEF Next, Handler

\* count is the number of points queued (writer.go), and the queue is bounded, always.
THEOREM CountInvariance == Spec => []CountInv
<1>1. Init => CountInv
  BY PlacesEmpty DEF Init, CountInv, QueueBound
<1>2. PInv /\ CountInv /\ [Next]_vars => CountInv'
  BY CountStep
<1> QED BY PipelineInvariance, <1>1, <1>2, PTL DEF Spec

\* Submit's backpressure (writer.go) bounds the queue, whatever batchSize and the number of
\* requests woken at once: without its last chunk it is below the limit.
THEOREM QueueBounded == Spec => []QueueBound
<1>1. CountInv => QueueBound
  BY DEF CountInv
<1> QED BY CountInvariance, <1>1, PTL

\* The counters the writer and the ingestor decide by (count, busy, pendingN) say what they count.
THEOREM TypeCorrect == Spec => []TypeOK
<1>1. PInv /\ CountInv => TypeOK
  <2> SUFFICES ASSUME PInv, CountInv PROVE TypeOK
    OBVIOUS
  <2>1. count = TotalLen(PtsOf(buf)) /\ busy \in 0 .. 1 /\ (busy = 1 <=> rpc \in {"bcast", "write"})
    BY DEF PInv, CountInv, LoopInv, Types, QueueTypes
  <2>2. ASSUME NEW h \in Handlers
        PROVE  req[h].pendingN = TotalLen([t \in Tables |-> Held(req[h], t)])
    <3>1. Places([t \in Tables |-> Held(req[h], t)]) = HeldPoints(req[h])
      BY DEF Places, HeldPoints
    <3> QED BY <3>1 DEF PInv, RequestInv, RequestOk, Counted, TotalLen
  <2> QED BY <2>1, <2>2 DEF TypeOK
<1> QED BY PipelineInvariance, CountInvariance, <1>1, PTL
=============================================================================
