------------------------------ MODULE Pipeline ------------------------------
(***************************************************************************)
(* The server's write path: streaming requests that decode points into per *)
(* table buffers (server/ingest.go), and the pipelined writer that takes   *)
(* full buffers and writes them to the engine in the background            *)
(* (server/writer.go).  Queries and single writes call Flush first; the    *)
(* shutdown calls Close.                                                   *)
(*                                                                         *)
(* Sections under the writer's mutex are one step.  Broadcasts and signals *)
(* sent after the mutex is released are steps of their own.  A thread woken*)
(* by a broadcast competes for the mutex with everyone else.               *)
(***************************************************************************)
EXTENDS Integers, Sequences, FiniteSets, SequencesExt

CONSTANTS
  Handlers,      \* write requests
  Flushers,      \* requests that call Flush
  Tables,
  streamBatchSize,  \* points that trigger a request's flush
  batchSize,     \* points that wake the writer
  QueueFactor,   \* batches the queue holds before Submit blocks (32 in the code)
  MaxPoints,     \* bound: points decoded
  MaxFails       \* bound: engine writes that fail

ASSUME PipelineAssumption ==
  /\ {streamBatchSize, batchSize, QueueFactor} \subseteq Nat \ {0}
  /\ {MaxPoints, MaxFails} \subseteq Nat

maxQueue == batchSize * QueueFactor

VARIABLES
  pipelined,  \* WriteBufferMs > 0: requests submit to the writer
  hpc,        \* per handler: decode, flush, submit, parked, signal, done, failed
  req,        \* per handler: its StreamIngestor
  buf,        \* the writer's queue of chunks
  count, busy, quit, err,
  work,       \* the work channel holds a signal
  quitClosed, \* quitCh is closed
  rpc,        \* the background loop: select, bcast, write, end, bcastEnd, exited
  taken,      \* the chunks it is writing
  failed,     \* and whether one of them has failed
  fpc,        \* per flusher: idle, call, parked, done, error
  cpc,        \* Close: idle, call, parked, bcast, stop, join, done
  stored,     \* history: chunks in the engine
  before,     \* history, per flusher: points submitted when Flush was called
  nextPoint, fails

vars == <<pipelined, hpc, req, buf, count, busy, quit, err, work, quitClosed, rpc, taken,
          failed, fpc, cpc, stored, before, nextPoint, fails>>
queue == <<buf, count, busy, quit, err>>
loop == <<rpc, taken, failed>>

\* A chunk of one table's points, submitted by handler h.
NoChunk == [h |-> "none", t |-> "none", pts |-> <<>>]

\* StreamIngestor: the points decoded and not handed over, per table, with the table
\* last added to kept apart (lastTable, lastPts); what the response will count; the
\* tables the flush has still to visit; the chunk being submitted.
NewRequest == [pending |-> [t \in Tables |-> <<>>], lastValid |-> FALSE,
               lastTable |-> CHOOSE t \in Tables : TRUE, lastPts |-> <<>>,
               pendingN |-> 0, written |-> 0, visit |-> {}, last |-> FALSE,
               chunk |-> NoChunk, decoded |-> 0]

Init ==
  /\ pipelined \in BOOLEAN
  /\ hpc = [h \in Handlers |-> "decode"] /\ req = [h \in Handlers |-> NewRequest]
  /\ buf = <<>> /\ count = 0 /\ busy = 0 /\ quit = FALSE /\ err = FALSE
  /\ work = FALSE /\ quitClosed = FALSE
  /\ rpc = "select" /\ taken = <<>> /\ failed = FALSE
  /\ fpc = [f \in Flushers |-> "idle"] /\ cpc = "idle"
  /\ stored = <<>> /\ before = [f \in Flushers |-> {}]
  /\ nextPoint = 1 /\ fails = 0

PointsOf(chunks) == UNION {Range(chunks[i].pts) : i \in DOMAIN chunks}

(***************************************************************************)
(* A write request                                                         *)
(***************************************************************************)

\* Slip: the table switched from is not written back.
switchedLoses(r, t) == r.pending

\* pendingSlice: on a switch of table the last one's points are written back.
writtenBack(r, t) ==
  IF r.lastValid THEN [r.pending EXCEPT ![r.lastTable] = r.lastPts] ELSE r.pending

pendingSlice(r, t) ==
  IF r.lastValid /\ t = r.lastTable THEN r
  ELSE LET p == writtenBack(r, t)
       IN [r EXCEPT !.pending = p, !.lastTable = t, !.lastPts = p[t], !.lastValid = TRUE]

\* flush: the last table is written back, then every table with points is visited.
startFlush(r, final) ==
  LET p == writtenBack(r, r.lastTable)
  IN [r EXCEPT !.pending = p, !.visit = {t \in Tables : p[t] # <<>>}, !.last = final]

\* Add one decoded point; enough of them are flushed.
Add(h) ==
  \E t \in Tables :
    LET s == pendingSlice(req[h], t)
        a == [s EXCEPT !.lastPts = Append(@, nextPoint), !.pendingN = @ + 1, !.decoded = @ + 1]
        full == a.pendingN >= streamBatchSize
    IN /\ hpc[h] = "decode" /\ nextPoint <= MaxPoints
       /\ nextPoint' = nextPoint + 1
       /\ req' = [req EXCEPT ![h] = IF full THEN startFlush(a, FALSE) ELSE a]
       /\ hpc' = [hpc EXCEPT ![h] = IF full THEN "flush" ELSE "decode"]
       /\ UNCHANGED <<pipelined, queue, work, quitClosed, loop, fpc, cpc, stored, before, fails>>

\* The body ends: Finish flushes what is left.
Finish(h) ==
  /\ hpc[h] = "decode"
  /\ req' = [req EXCEPT ![h] = startFlush(@, TRUE)]
  /\ hpc' = [hpc EXCEPT ![h] = "flush"]
  /\ UNCHANGED <<pipelined, queue, work, quitClosed, loop, fpc, cpc, stored, before, nextPoint,
                 fails>>

\* The flush hands one table's points over, and takes an empty buffer for the table.
handedOver(r, t) ==
  [r EXCEPT !.written = @ + Len(r.pending[t]), !.pendingN = @ - Len(r.pending[t]),
            !.pending[t] = <<>>, !.visit = @ \ {t},
            !.lastPts = IF r.lastValid /\ t = r.lastTable THEN <<>> ELSE @]

chunkOf(h, t) == [h |-> h, t |-> t, pts |-> req[h].pending[t]]

\* ingest without the pipeline: WriteBatch to the engine.
IngestDirect(h) ==
  \E t \in req[h].visit :
    /\ hpc[h] = "flush" /\ ~pipelined
    /\ \/ /\ stored' = Append(stored, chunkOf(h, t))
          /\ req' = [req EXCEPT ![h] = handedOver(@, t)]
          /\ UNCHANGED <<hpc, fails>>
       \/ /\ fails < MaxFails /\ fails' = fails + 1
          /\ hpc' = [hpc EXCEPT ![h] = "failed"]
          /\ UNCHANGED <<stored, req>>
    /\ UNCHANGED <<pipelined, queue, work, quitClosed, loop, fpc, cpc, before, nextPoint>>

\* ingest with the pipeline: Submit is called with the table's points.
IngestSubmit(h) ==
  \E t \in req[h].visit :
    /\ hpc[h] = "flush" /\ pipelined /\ ~quit
    /\ req' = [req EXCEPT ![h] = [handedOver(@, t) EXCEPT !.chunk = chunkOf(h, t)]]
    /\ hpc' = [hpc EXCEPT ![h] = "submit"]
    /\ UNCHANGED <<pipelined, queue, work, quitClosed, loop, fpc, cpc, stored, before,
                   nextPoint, fails>>

\* Slip: a Submit may enter a full queue.
NeverMustWait == FALSE

MustWait == ~quit /\ count >= maxQueue

\* Submit under the mutex: park while the queue is full, else append the chunk.
Submit(h) ==
  /\ hpc[h] = "submit"
  /\ IF MustWait
     THEN /\ hpc' = [hpc EXCEPT ![h] = "parked"]
          /\ UNCHANGED <<req, buf, count>>
     ELSE /\ buf' = Append(buf, req[h].chunk)
          /\ count' = count + Len(req[h].chunk.pts)
          /\ hpc' = [hpc EXCEPT ![h] = IF count' >= batchSize THEN "signal" ELSE "flush"]
          /\ req' = [req EXCEPT ![h].chunk = NoChunk]
  /\ UNCHANGED <<pipelined, busy, quit, err, work, quitClosed, loop, fpc, cpc, stored, before,
                 nextPoint, fails>>

\* signalWork, after the mutex is released.
SubmitSignal(h) ==
  /\ hpc[h] = "signal"
  /\ work' = TRUE
  /\ hpc' = [hpc EXCEPT ![h] = "flush"]
  /\ UNCHANGED <<pipelined, req, queue, quitClosed, loop, fpc, cpc, stored, before, nextPoint, fails>>

\* Every table is handed over: go on decoding, or answer.
FlushedAll(h) ==
  /\ hpc[h] = "flush" /\ req[h].visit = {}
  /\ req' = [req EXCEPT ![h].lastValid = FALSE]
  /\ hpc' = [hpc EXCEPT ![h] = IF req[h].last THEN "done" ELSE "decode"]
  /\ UNCHANGED <<pipelined, queue, work, quitClosed, loop, fpc, cpc, stored, before, nextPoint,
                 fails>>

(***************************************************************************)
(* The background loop                                                     *)
(***************************************************************************)

\* Slip: only the Flush callers are woken.
wokenFlushers == /\ UNCHANGED hpc
                 /\ fpc' = [f \in Flushers |-> IF fpc[f] = "parked" THEN "call" ELSE fpc[f]]

\* Broadcast wakes every parked thread; each takes the mutex and looks again.
woken == /\ hpc' = [h \in Handlers |-> IF hpc[h] = "parked" THEN "submit" ELSE hpc[h]]
         /\ fpc' = [f \in Flushers |-> IF fpc[f] = "parked" THEN "call" ELSE fpc[f]]

\* Slip: the end of a write wakes nobody.
wakesNobody == UNCHANGED <<hpc, fpc, cpc>>

Broadcast == woken /\ cpc' = IF cpc = "parked" THEN "call" ELSE cpc

\* select finds quitCh closed (it may choose another ready case first).
RunQuit ==
  /\ rpc = "select" /\ quitClosed
  /\ rpc' = "exited"
  /\ UNCHANGED <<pipelined, hpc, req, queue, work, quitClosed, taken, failed, fpc, cpc, stored,
                 before, nextPoint, fails>>

\* A signal, or the ticker: flush takes the whole queue.
RunFlush ==
  /\ rpc = "select" /\ pipelined
  /\ work' = FALSE
  /\ IF count = 0 THEN UNCHANGED <<rpc, taken, failed, buf, count, busy>>
     ELSE /\ taken' = buf /\ buf' = <<>> /\ count' = 0 /\ busy' = busy + 1
          /\ rpc' = "bcast" /\ failed' = FALSE
  /\ UNCHANGED <<pipelined, hpc, req, quit, err, quitClosed, fpc, cpc, stored, before, nextPoint,
                 fails>>

RunBroadcast ==
  /\ rpc = "bcast"
  /\ Broadcast /\ rpc' = "write"
  /\ UNCHANGED <<pipelined, req, queue, work, quitClosed, taken, failed, stored, before, nextPoint,
                 fails>>

\* The first n points of a chunk, and those after them.
piece(c, n) == [c EXCEPT !.pts = SubSeq(@, 1, n)]
rest(c, n) == [c EXCEPT !.pts = SubSeq(@, n + 1, Len(@))]

\* Slip: a chunk too large for one batch is written from its end.
takeFromEnd(chunks) ==
  LET c == Head(chunks)
  IN IF Len(c.pts) <= batchSize THEN <<c, Tail(chunks)>>
     ELSE <<rest(c, batchSize), <<piece(c, batchSize)>> \o Tail(chunks)>>

\* What one WriteBatch gets, at most batchSize points of the first chunk, and what is left.
takeFirst(chunks) ==
  LET c == Head(chunks)
  IN IF Len(c.pts) <= batchSize THEN <<c, Tail(chunks)>>
     ELSE <<piece(c, batchSize), <<rest(c, batchSize)>> \o Tail(chunks)>>

\* writeChunks: one piece after the other to the engine; the first error ends it and
\* drops the rest.
RunWrite ==
  /\ rpc = "write" /\ taken # <<>>
  /\ \/ /\ stored' = Append(stored, takeFirst(taken)[1])
        /\ taken' = takeFirst(taken)[2]
        /\ UNCHANGED <<failed, fails>>
     \/ /\ fails < MaxFails /\ fails' = fails + 1
        /\ taken' = <<>> /\ failed' = TRUE
        /\ UNCHANGED stored
  /\ UNCHANGED <<pipelined, hpc, req, queue, work, quitClosed, rpc, fpc, cpc, before, nextPoint>>

\* The batch is written: busy goes down and the first error is kept.
RunEnd ==
  /\ rpc = "write" /\ taken = <<>>
  /\ busy' = busy - 1 /\ err' = (err \/ failed)
  /\ rpc' = "bcastEnd"
  /\ UNCHANGED <<pipelined, hpc, req, buf, count, quit, work, quitClosed, taken, failed, fpc, cpc,
                 stored, before, nextPoint, fails>>

endBroadcast == Broadcast

RunEndBroadcast ==
  /\ rpc = "bcastEnd"
  /\ endBroadcast /\ rpc' = "select"
  /\ UNCHANGED <<pipelined, req, queue, work, quitClosed, taken, failed, stored, before, nextPoint,
                 fails>>

(***************************************************************************)
(* Flush and Close                                                         *)
(***************************************************************************)

\* Points whose Submit has returned.
Submitted == PointsOf(buf) \cup PointsOf(taken) \cup PointsOf(stored)

FlushCall(f) ==
  /\ fpc[f] = "idle" /\ pipelined /\ cpc = "idle"
  /\ fpc' = [fpc EXCEPT ![f] = "call"] /\ before' = [before EXCEPT ![f] = Submitted]
  /\ UNCHANGED <<pipelined, hpc, req, queue, work, quitClosed, loop, cpc, stored, nextPoint, fails>>

\* Slip: a Flush does not wait for the batch being written.
drainedNotBusy == count = 0

Drained == count = 0 /\ busy = 0

Flush(f) ==
  /\ fpc[f] = "call"
  /\ fpc' = [fpc EXCEPT ![f] = IF ~Drained THEN "parked" ELSE IF err THEN "error" ELSE "done"]
  /\ UNCHANGED <<pipelined, hpc, req, queue, work, quitClosed, loop, cpc, stored, before, nextPoint,
                 fails>>

Answered(h) == hpc[h] \in {"done", "failed"}

\* Close starts: quit is set, the loop is signalled.  Server.Shutdown calls it when the
\* HTTP server has waited for the requests.
Close ==
  /\ cpc = "idle" /\ pipelined
  /\ \A h \in Handlers : Answered(h)
  /\ \A f \in Flushers : fpc[f] \in {"idle", "done", "error"}
  /\ quit' = TRUE /\ work' = TRUE /\ cpc' = "call"
  /\ UNCHANGED <<pipelined, hpc, req, buf, count, busy, err, quitClosed, loop, fpc, stored, before,
                 nextPoint, fails>>

CloseWait ==
  /\ cpc = "call"
  /\ cpc' = IF Drained THEN "bcast" ELSE "parked"
  /\ UNCHANGED <<pipelined, hpc, req, queue, work, quitClosed, loop, fpc, stored, before, nextPoint,
                 fails>>

CloseBroadcast ==
  /\ cpc = "bcast"
  /\ woken /\ cpc' = "stop"
  /\ UNCHANGED <<pipelined, req, queue, work, quitClosed, loop, stored, before, nextPoint, fails>>

CloseStop ==
  /\ cpc = "stop"
  /\ quitClosed' = TRUE /\ cpc' = "join"
  /\ UNCHANGED <<pipelined, hpc, req, queue, work, loop, fpc, stored, before, nextPoint, fails>>

CloseJoin ==
  /\ cpc = "join" /\ rpc = "exited"
  /\ cpc' = "done"
  /\ UNCHANGED <<pipelined, hpc, req, queue, work, quitClosed, loop, fpc, stored, before, nextPoint,
                 fails>>

Handler(h) ==
  \/ Finish(h) \/ IngestDirect(h) \/ IngestSubmit(h) \/ Submit(h) \/ SubmitSignal(h)
  \/ FlushedAll(h)
Run == \/ RunQuit \/ RunFlush \/ RunBroadcast \/ RunWrite \/ RunEnd \/ RunEndBroadcast
Closing == CloseWait \/ CloseBroadcast \/ CloseStop \/ CloseJoin

Next ==
  \/ \E h \in Handlers : Add(h) \/ Handler(h)
  \/ \E f \in Flushers : FlushCall(f) \/ Flush(f)
  \/ Run \/ Close \/ Closing

Spec == Init /\ [][Next]_vars
\* Every thread keeps running, and the ticker keeps firing.
FairSpec ==
  /\ Spec /\ WF_vars(Run) /\ WF_vars(Closing)
  /\ \A h \in Handlers : WF_vars(Handler(h))
  /\ \A f \in Flushers : WF_vars(Flush(f))

(***************************************************************************)
(* Properties                                                              *)
(***************************************************************************)

\* What the ingestor holds for table t: the last table's points are in lastPts.
Held(r, t) == IF r.lastValid /\ r.lastTable = t THEN r.lastPts ELSE r.pending[t]

\* The places of the points in a family of sequences, and how many points there are.
Places(seqs) == UNION {{i} \X (1 .. Len(seqs[i])) : i \in DOMAIN seqs}
TotalLen(seqs) == Cardinality(Places(seqs))
PtsOf(chunks) == [i \in DOMAIN chunks |-> chunks[i].pts]

\* Types; the counters say what they count: count the points of the queue, pendingN the
\* points an ingestor holds, and busy the batch being written.
TypeOK ==
  /\ count = TotalLen(PtsOf(buf)) /\ busy \in 0 .. 1
  /\ busy = 1 <=> rpc \in {"bcast", "write"}
  /\ \A h \in Handlers : req[h].pendingN = TotalLen([t \in Tables |-> Held(req[h], t)])

\* Every point a request decoded and answers for ("written" in the response) was handed
\* over, none twice and none left behind in the ingestor.
ResponseCounts ==
  \A h \in Handlers : hpc[h] = "done" => req[h].written = req[h].decoded /\ req[h].pendingN = 0

\* The engine gets a request's points of one table in the order they were decoded, and
\* no point twice, whoever else submits and whenever the queue is taken.
InOrder ==
  LET all == stored \o taken \o buf
  IN \A i, j \in DOMAIN all : i < j /\ all[i].h = all[j].h /\ all[i].t = all[j].t
       => \A p \in Range(all[i].pts), q \in Range(all[j].pts) : p < q

\* Submit's backpressure bounds the queue while the writer is open, however many requests
\* are woken at once: without its last chunk the queue is below the limit.
QueueBound == ~quit /\ buf # <<>> => TotalLen(PtsOf(Front(buf))) < maxQueue

\* "Submit 的数据在 Flush 之后立即可见": when Flush returns without an error, all that
\* was submitted before the call is in the engine.
FlushSees == \A f \in Flushers : fpc[f] = "done" => before[f] \subseteq PointsOf(stored)

\* A request blocked by backpressure is woken and answered in the end.
RequestReturns == \A h \in Handlers : hpc[h] = "parked" ~> Answered(h)

\* A Flush called while batches are queued or being written returns.
FlushReturns == \A f \in Flushers : fpc[f] = "call" ~> fpc[f] \in {"done", "error"}

\* Close drains the queue, stops the loop and returns.
CloseReturns == cpc = "call" ~> cpc = "done"
=============================================================================
