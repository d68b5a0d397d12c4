---------------------------- MODULE TableBatcher ----------------------------
(***************************************************************************)
(* The bounded, sharded MemTable in front of one table's WAL               *)
(* (tsdb/write_batcher.go, tsdb/write_batcher_buffer.go).                  *)
(*                                                                         *)
(* Threads: Writers call add/addBatch, Flushers call Flush (every query    *)
(* does), Closers call Close; one trigger goroutine and one worker         *)
(* goroutine belong to the batcher.  Every step below is one critical      *)
(* section, one atomic operation or one channel operation of the code.     *)
(*                                                                         *)
(* A point is abstracted to its position in the acceptance order of its    *)
(* shard (1, 2, 3, ...); tag, timestamp and value are decided by the       *)
(* WAL, not here.  The hash of the tag picks the shard.  The per-tag       *)
(* slices of one ingestBuffer are abstracted to one sequence per           *)
(* (shard, buffer id).                                                     *)
(***************************************************************************)
EXTENDS Integers, Sequences, FiniteSets

CONSTANTS
  Writers,        \* callers of add / addBatch
  Flushers,       \* callers of Flush
  Closers,        \* callers of Close
  Trigger,        \* the runTrigger goroutine
  None,           \* nobody holds the mutex
  NumShards,      \* config.Shards
  QueueSize,      \* config.QueueSize, capacity of the frozen-batch queue
  MaxBatchSize,   \* config.MaxBatchSize, the signalling threshold
  MaxAddBatch,    \* bound: points per addBatch call (1 is add)
  MaxAdds,        \* bound: points each writer may try to add
  MaxFlushes,     \* bound: Flush calls per flusher
  CommitMayFail   \* may commitRawWriteBatch return an error

Callers == Flushers \cup Closers \cup {Trigger}

ASSUME ConstantsAssumption ==
  /\ NumShards \in Nat \ {0}
  /\ QueueSize \in Nat \ {0}
  /\ MaxBatchSize \in Nat \ {0}
  /\ MaxAddBatch \in Nat \ {0}
  /\ MaxAdds \in Nat
  /\ MaxFlushes \in Nat
  /\ CommitMayFail \in BOOLEAN
  /\ None \notin Callers
  /\ None \notin Writers
  /\ Flushers \cap Closers = {}
  /\ Trigger \notin Flushers \cup Closers

ASSUME WritersFinite == IsFiniteSet(Writers)

Shard == 1 .. NumShards

\* The slots of a shard: the active buffer, the worker's, one per queued batch
\* and the one of a trigger blocked on a full queue.
\* Slip: no slot for the blocked trigger.
HeadroomTooSmall == 2

ingestBufferHeadroom == 3
buffersPerShard == QueueSize + ingestBufferHeadroom
BufId == 0 .. buffersPerShard - 1
NoBuf == -1

\* The emergency memory bound; the saturation at 2^62 is out of reach of any
\* configured batch size.
overloadPointLimit == 2 * MaxBatchSize

VARIABLES
  active,        \* shard.active.id
  free,          \* shard.free, a stack: taken from and returned to its end
  buf,           \* the points of each ingest buffer of each shard
  activeCount,   \* shard.activeCount
  activePoints,  \* b.activePoints
  closed,        \* b.closed
  err,           \* b.err holds an error
  signal,        \* elements in the signal channel (capacity one)
  stopTrigger,   \* the stopTrigger channel is closed
  queue,         \* ids of the batches in the queue channel
  queueOpen,     \* the queue channel has not been closed
  batches,       \* every published batch; its id is its publication order
  last,          \* b.last, 0 when nil
  freezeMu,      \* holder of freezeMu
  fz,            \* where the holder is in freezeAndEnqueue
  fidx,          \* loop index of the freeze
  fshards,       \* batch.shards of the batch being built
  fcount,        \* batch.count of the batch being built
  waitMu,        \* holder of waitMu
  waiters,       \* b.waiters
  wpc,           \* control state of each writer
  left,          \* points a writer may still try to add
  todo,          \* points of the current addBatch not yet appended
  observed,      \* the activePoints value the last append returned
  mine,          \* points appended by the writer's call in progress
  cpc,           \* control state of each caller of freezeAndEnqueue
  target,        \* the batch freezeAndEnqueue returned, 0 when nil
  flushes,       \* Flush calls a flusher may still make
  snap,          \* points accepted per shard when Flush / Close was called
  res,           \* result of the caller's last Flush / Close
  kpc,           \* control state of the worker
  wb,            \* the worker's current batch
  kidx,          \* loop index of the worker's recycleBatch
  panicked,      \* a send on a closed channel has ended the process
  accepted,      \* history: number of points accepted per shard
  acked,         \* history: points whose add returned nil
  log,           \* history: points handed to commitRawWriteBatch, per shard
  lost           \* history: points of failed commits that were not written

shardVars  == <<active, free, buf, activeCount, activePoints, accepted>>
chanVars   == <<signal, stopTrigger, queue, queueOpen, batches, last>>
freezeVars == <<freezeMu, fz, fidx, fshards, fcount>>
writerVars == <<wpc, left, todo, observed, mine, acked>>
callerVars == <<cpc, target, flushes, snap, res>>
workerVars == <<kpc, wb, kidx, log, lost>>
vars == <<shardVars, chanVars, freezeVars, writerVars, callerVars, workerVars,
          waitMu, waiters, closed, err, panicked>>

Batch == [shards : [Shard -> BufId \cup {NoBuf}], done : BOOLEAN, err : BOOLEAN]

ShardType ==
  /\ active \in [Shard -> BufId]
  /\ free \in [Shard -> Seq(BufId)]
  /\ buf \in [Shard -> [BufId -> Seq(Nat)]]
  /\ activeCount \in [Shard -> Nat]
  /\ activePoints \in Int
  /\ accepted \in [Shard -> Nat]

ChanType ==
  /\ signal \in {0, 1}
  /\ stopTrigger \in BOOLEAN /\ queueOpen \in BOOLEAN
  /\ closed \in BOOLEAN /\ err \in BOOLEAN /\ panicked \in BOOLEAN
  /\ waitMu \in Writers \cup {None}
  /\ waiters \in Int

BatchType ==
  /\ queue \in Seq(Nat)
  /\ batches \in Seq(Batch)
  /\ last \in 0 .. Len(batches)
  /\ wb \in 0 .. Len(batches)
  /\ target \in [Callers -> 0 .. Len(batches)]

FreezeType ==
  /\ freezeMu \in Callers \cup {None}
  /\ fz \in {"idle", "load", "swap", "count", "notify", "bcast", "send"}
  /\ fidx \in Nat
  /\ fshards \in [Shard -> BufId \cup {NoBuf}]
  /\ fcount \in Nat

WriterType ==
  /\ wpc \in [Writers -> {"idle", "append", "signal", "lock", "check", "load",
                          "wait", "asleep", "relock"}]
  /\ left \in [Writers -> Nat]
  /\ todo \in [Writers -> Nat]
  /\ observed \in [Writers -> Int]
  /\ mine \in [Writers -> SUBSET (Shard \X Nat)]
  /\ acked \in SUBSET (Shard \X Nat)

CallerType ==
  /\ cpc \in [Callers -> {"idle", "enter", "freezing", "target", "exit", "notify",
                          "bcast", "stop", "trigger", "worker"}]
  /\ flushes \in [Callers -> Nat]
  /\ snap \in [Callers -> [Shard -> Nat]]
  /\ res \in [Callers -> {"none", "nil", "err"}]

WorkerType ==
  /\ kpc \in {"recv", "commit", "setError", "notify", "bcast", "recycle", "done",
              "exit"}
  /\ kidx \in Nat
  /\ log \in [Shard -> Seq(Nat)]
  /\ lost \in [Shard -> SUBSET Nat]

TypeOK ==
  /\ ShardType /\ ChanType /\ BatchType /\ FreezeType
  /\ WriterType /\ CallerType /\ WorkerType

Init ==
  /\ active = [s \in Shard |-> 0]
  /\ free = [s \in Shard |-> [i \in 1 .. buffersPerShard - 1 |-> i]]
  /\ buf = [s \in Shard |-> [b \in BufId |-> <<>>]]
  /\ activeCount = [s \in Shard |-> 0]
  /\ activePoints = 0
  /\ closed = FALSE /\ err = FALSE /\ panicked = FALSE
  /\ signal = 0 /\ stopTrigger = FALSE
  /\ queue = <<>> /\ queueOpen = TRUE
  /\ batches = <<>> /\ last = 0
  /\ freezeMu = None /\ fz = "idle" /\ fidx = 1 /\ fcount = 0
  /\ fshards = [s \in Shard |-> NoBuf]
  /\ waitMu = None /\ waiters = 0
  /\ wpc = [w \in Writers |-> "idle"]
  /\ left = [w \in Writers |-> MaxAdds]
  /\ todo = [w \in Writers |-> 0]
  /\ observed = [w \in Writers |-> 0]
  /\ mine = [w \in Writers |-> {}]
  /\ cpc = [c \in Callers |-> "idle"]
  /\ target = [c \in Callers |-> 0]
  /\ flushes = [c \in Callers |-> MaxFlushes]
  /\ snap = [c \in Callers |-> [s \in Shard |-> 0]]
  /\ res = [c \in Callers |-> "none"]
  /\ kpc = "recv" /\ wb = 0 /\ kidx = 1
  /\ accepted = [s \in Shard |-> 0]
  /\ acked = {}
  /\ log = [s \in Shard |-> <<>>]
  /\ lost = [s \in Shard |-> {}]

terminalError == closed \/ err

(***************************************************************************)
(* Writers: add, addBatch                                                  *)
(***************************************************************************)

\* The call begins with the terminalError check; a rejected call changes
\* nothing.  k = 1 is add, k > 1 is addBatch.
AddStart(w) ==
  /\ wpc[w] = "idle"
  /\ \E k \in 1 .. MaxAddBatch :
       /\ k <= left[w]
       /\ left' = [left EXCEPT ![w] = @ - k]
       /\ todo' = [todo EXCEPT ![w] = IF terminalError THEN 0 ELSE k]
  /\ wpc' = [wpc EXCEPT ![w] = IF terminalError THEN "idle" ELSE "append"]
  /\ UNCHANGED <<shardVars, chanVars, freezeVars, callerVars, workerVars, observed,
                 mine, acked, waitMu, waiters, closed, err, panicked>>

\* The shard's critical section, the only mutation path of a point.
appendPoint(w, s) ==
  /\ wpc[w] = "append"
  /\ accepted' = [accepted EXCEPT ![s] = @ + 1]
  /\ buf' = [buf EXCEPT ![s][active[s]] = Append(@, accepted[s] + 1)]
  /\ activeCount' = [activeCount EXCEPT ![s] = @ + 1]
  /\ activePoints' = activePoints + 1
  /\ observed' = [observed EXCEPT ![w] = activePoints + 1]
  /\ mine' = [mine EXCEPT ![w] = @ \cup {<<s, accepted[s] + 1>>}]
  /\ todo' = [todo EXCEPT ![w] = @ - 1]
  /\ wpc' = [wpc EXCEPT ![w] = IF todo[w] <= 1 THEN "signal" ELSE "append"]
  /\ UNCHANGED <<active, free, chanVars, freezeVars, callerVars, workerVars, left,
                 acked, waitMu, waiters, closed, err, panicked>>

\* The call returns: nil acknowledges every point it appended.
Return(w, ok) ==
  /\ acked' = IF ok THEN acked \cup mine[w] ELSE acked
  /\ mine' = [mine EXCEPT ![w] = {}]
  /\ observed' = [observed EXCEPT ![w] = 0]

\* Slip: the bound is never seen to be exceeded.
NeverOverloaded(n) == FALSE

Overloaded(n) == n > overloadPointLimit

\* maybeSignal's non-blocking send, then waitIfOverloaded's first comparison.
maybeSignal(w) ==
  /\ wpc[w] = "signal"
  /\ signal' = IF observed[w] < MaxBatchSize THEN signal ELSE 1
  /\ IF Overloaded(observed[w])
       THEN /\ wpc' = [wpc EXCEPT ![w] = "lock"]
            /\ UNCHANGED <<mine, acked, observed>>
       ELSE /\ wpc' = [wpc EXCEPT ![w] = "idle"]
            /\ Return(w, TRUE)
  /\ UNCHANGED <<shardVars, stopTrigger, queue, queueOpen, batches, last, freezeVars,
                 callerVars, workerVars, left, todo, waitMu, waiters, closed, err,
                 panicked>>

WaitLock(w) ==
  /\ wpc[w] = "lock"
  /\ waitMu = None
  /\ waitMu' = w
  /\ waiters' = waiters + 1
  /\ wpc' = [wpc EXCEPT ![w] = "check"]
  /\ UNCHANGED <<shardVars, chanVars, freezeVars, callerVars, workerVars, left, todo,
                 observed, mine, acked, closed, err, panicked>>

\* The deferred function of waitIfOverloaded.
WaitReturn(w, ok) ==
  /\ waiters' = waiters - 1
  /\ waitMu' = None
  /\ wpc' = [wpc EXCEPT ![w] = "idle"]
  /\ Return(w, ok)

WaitCheckError(w) ==
  /\ wpc[w] = "check"
  /\ IF terminalError
       THEN WaitReturn(w, FALSE)
       ELSE /\ wpc' = [wpc EXCEPT ![w] = "load"]
            /\ UNCHANGED <<waiters, waitMu, mine, acked, observed>>
  /\ UNCHANGED <<shardVars, chanVars, freezeVars, callerVars, workerVars, left, todo,
                 closed, err, panicked>>

WaitCheckSpace(w) ==
  /\ wpc[w] = "load"
  /\ IF Overloaded(activePoints)
       THEN /\ wpc' = [wpc EXCEPT ![w] = "wait"]
            /\ UNCHANGED <<waiters, waitMu, mine, acked, observed>>
       ELSE WaitReturn(w, TRUE)
  /\ UNCHANGED <<shardVars, chanVars, freezeVars, callerVars, workerVars, left, todo,
                 closed, err, panicked>>

\* spaceCond.Wait joins the wait list and releases waitMu.
CondWait(w) ==
  /\ wpc[w] = "wait"
  /\ waitMu' = None
  /\ wpc' = [wpc EXCEPT ![w] = "asleep"]
  /\ UNCHANGED <<shardVars, chanVars, freezeVars, callerVars, workerVars, left, todo,
                 observed, mine, acked, waiters, closed, err, panicked>>

\* Woken by a Broadcast, Wait takes waitMu again before it returns.
WaitRelock(w) ==
  /\ wpc[w] = "relock"
  /\ waitMu = None
  /\ waitMu' = w
  /\ wpc' = [wpc EXCEPT ![w] = "check"]
  /\ UNCHANGED <<shardVars, chanVars, freezeVars, callerVars, workerVars, left, todo,
                 observed, mine, acked, waiters, closed, err, panicked>>

\* Slip: Broadcast does not take waitMu.
BroadcastUnlocked == TRUE

\* notifyWaiters in two steps: the unlocked waiters.Load, which skips the rest
\* when it reads zero, and Broadcast under waitMu.
notifyNeeded == waiters # 0
BroadcastLocked == waitMu = None

Broadcast ==
  /\ BroadcastLocked
  /\ wpc' = [w \in Writers |-> IF wpc[w] = "asleep" THEN "relock" ELSE wpc[w]]
  /\ UNCHANGED <<left, todo, observed, mine, acked, waitMu, waiters>>

(***************************************************************************)
(* freezeAndEnqueue, run by whichever caller holds freezeMu                *)
(***************************************************************************)

FreezeLock(c) ==
  /\ cpc[c] = "enter"
  /\ freezeMu = None
  /\ freezeMu' = c
  /\ cpc' = [cpc EXCEPT ![c] = "freezing"]
  /\ fz' = "load"
  /\ UNCHANGED <<shardVars, chanVars, fidx, fshards, fcount, writerVars, target,
                 flushes, snap, res, workerVars, waitMu, waiters, closed, err,
                 panicked>>

\* Return batch id b to the caller and release freezeMu; the locals are gone.
FreezeReturn(b) ==
  /\ fidx' = 1
  /\ fcount' = 0
  /\ target' = [target EXCEPT ![freezeMu] = b]
  /\ cpc' = [cpc EXCEPT ![freezeMu] = "target"]
  /\ freezeMu' = None
  /\ fz' = "idle"

\* Slips: a single point counts as idle; the idle path returns nil, not last.
nearlyIdle == activePoints < 2
noBarrier == 0

idle == activePoints = 0
idleBarrier == last

FreezeLoad ==
  /\ fz = "load"
  /\ IF idle
       THEN FreezeReturn(idleBarrier)
       ELSE /\ fz' = "swap"
            /\ fidx' = 1
            /\ fcount' = 0
            /\ UNCHANGED <<target, cpc, freezeMu>>
  /\ UNCHANGED <<shardVars, chanVars, fshards, writerVars, flushes, snap, res,
                 workerVars, waitMu, waiters, closed, err, panicked>>

\* Slip: the free list is not shortened.
popFreeKeeps(stack) == stack

popFree(stack) == SubSeq(stack, 1, Len(stack) - 1)
countAdded(n, s) == n + activeCount[s]
activeRemaining == activePoints - fcount

\* Under the lock of shard fidx: the active buffer joins the batch and the end
\* of the free list becomes active.  The code indexes the list unchecked;
\* SwapHasBuffer says that it is never empty here.
FreezeSwap ==
  /\ fz = "swap"
  /\ free[fidx] # <<>>
  /\ fshards' = [fshards EXCEPT ![fidx] = active[fidx]]
  /\ fcount' = countAdded(fcount, fidx)
  /\ active' = [active EXCEPT ![fidx] = free[fidx][Len(free[fidx])]]
  /\ free' = [free EXCEPT ![fidx] = popFree(@)]
  /\ activeCount' = [activeCount EXCEPT ![fidx] = 0]
  /\ fidx' = fidx + 1
  /\ fz' = IF fidx = NumShards THEN "count" ELSE "swap"
  /\ UNCHANGED <<buf, activePoints, accepted, chanVars, freezeMu, writerVars,
                 callerVars, workerVars, waitMu, waiters, closed, err, panicked>>

\* An empty batch is recycled and last returned (never taken, for the shared
\* counter and the shards' counts never drift apart); otherwise the frozen points
\* leave the active count.
FreezeCount ==
  /\ fz = "count"
  /\ IF fcount = 0
       THEN /\ buf' = [s \in Shard |-> [buf[s] EXCEPT ![fshards[s]] = <<>>]]
            /\ free' = [s \in Shard |-> Append(free[s], fshards[s])]
            /\ fshards' = [s \in Shard |-> NoBuf]
            /\ FreezeReturn(idleBarrier)
            /\ UNCHANGED activePoints
       ELSE /\ activePoints' = activeRemaining
            /\ fz' = "notify"
            /\ UNCHANGED <<buf, free, fidx, fcount, fshards, target, cpc, freezeMu>>
  /\ UNCHANGED <<active, activeCount, accepted, chanVars, writerVars, flushes,
                 snap, res, workerVars, waitMu, waiters, closed, err,
                 panicked>>

FreezeNotify ==
  /\ fz = "notify"
  /\ fz' = IF notifyNeeded THEN "bcast" ELSE "send"
  /\ UNCHANGED <<shardVars, chanVars, freezeMu, fidx, fshards, fcount, writerVars,
                 callerVars, workerVars, waitMu, waiters, closed, err, panicked>>

FreezeBroadcast ==
  /\ fz = "bcast"
  /\ Broadcast
  /\ fz' = "send"
  /\ UNCHANGED <<shardVars, chanVars, freezeMu, fidx, fshards, fcount, callerVars,
                 workerVars, closed, err, panicked>>

\* The blocking send that is the normal backpressure.  freezeMu is held until
\* last is assigned.
FreezeSend ==
  /\ fz = "send"
  /\ queueOpen
  /\ Len(queue) < QueueSize
  /\ batches' = Append(batches, [shards |-> fshards, done |-> FALSE, err |-> FALSE])
  /\ queue' = Append(queue, Len(batches) + 1)
  /\ last' = Len(batches) + 1
  /\ fshards' = [s \in Shard |-> NoBuf]
  /\ FreezeReturn(Len(batches) + 1)
  /\ UNCHANGED <<shardVars, signal, stopTrigger, queueOpen, writerVars, flushes,
                 snap, res, workerVars, waitMu, waiters, closed, err,
                 panicked>>

\* A send on the closed queue, blocked or not, panics.
FreezeSendPanic ==
  /\ fz = "send"
  /\ ~queueOpen
  /\ panicked' = TRUE
  /\ UNCHANGED <<shardVars, chanVars, freezeVars, writerVars, callerVars, workerVars,
                 waitMu, waiters, closed, err>>

(***************************************************************************)
(* runTrigger                                                              *)
(***************************************************************************)

TriggerSignal ==
  /\ cpc[Trigger] = "idle"
  /\ signal = 1
  /\ signal' = 0
  /\ cpc' = [cpc EXCEPT ![Trigger] = "enter"]
  /\ UNCHANGED <<shardVars, stopTrigger, queue, queueOpen, batches, last, freezeVars,
                 writerVars, target, flushes, snap, res, workerVars, waitMu, waiters,
                 closed, err, panicked>>

TriggerTick ==
  /\ cpc[Trigger] = "idle"
  /\ cpc' = [cpc EXCEPT ![Trigger] = "enter"]
  /\ UNCHANGED <<shardVars, chanVars, freezeVars, writerVars, target, flushes, snap,
                 res, workerVars, waitMu, waiters, closed, err, panicked>>

TriggerReturn ==
  /\ cpc[Trigger] = "target"
  /\ cpc' = [cpc EXCEPT ![Trigger] = "idle"]
  /\ target' = [target EXCEPT ![Trigger] = 0]
  /\ UNCHANGED <<shardVars, chanVars, freezeVars, writerVars, flushes, snap,
                 res, workerVars, waitMu, waiters, closed, err, panicked>>

TriggerStop ==
  /\ cpc[Trigger] = "idle"
  /\ stopTrigger
  /\ cpc' = [cpc EXCEPT ![Trigger] = "exit"]
  /\ UNCHANGED <<shardVars, chanVars, freezeVars, writerVars, target, flushes, snap,
                 res, workerVars, waitMu, waiters, closed, err, panicked>>

(***************************************************************************)
(* Flush and Close                                                         *)
(***************************************************************************)

Done(b) == b # 0 => batches[b].done

FlushStart(f) ==
  /\ cpc[f] = "idle"
  /\ flushes[f] > 0
  /\ flushes' = [flushes EXCEPT ![f] = @ - 1]
  /\ snap' = [snap EXCEPT ![f] = accepted]
  /\ res' = [res EXCEPT ![f] = "none"]
  /\ cpc' = [cpc EXCEPT ![f] = "enter"]
  /\ UNCHANGED <<shardVars, chanVars, freezeVars, writerVars, target, workerVars,
                 waitMu, waiters, closed, err, panicked>>

\* <-target.done, then target.err, then getError.
FlushReturn(f) ==
  /\ cpc[f] = "target"
  /\ Done(target[f])
  /\ res' = [res EXCEPT ![f] =
               IF (target[f] # 0 /\ batches[target[f]].err) \/ err THEN "err" ELSE "nil"]
  /\ cpc' = [cpc EXCEPT ![f] = "idle"]
  /\ target' = [target EXCEPT ![f] = 0]
  /\ UNCHANGED <<shardVars, chanVars, freezeVars, writerVars, flushes, snap,
                 workerVars, waitMu, waiters, closed, err, panicked>>

\* The CAS on closed: a second Close returns at once.
CloseStart(c) ==
  /\ cpc[c] = "idle"
  /\ closed' = TRUE
  /\ snap' = [snap EXCEPT ![c] = accepted]
  /\ cpc' = [cpc EXCEPT ![c] = IF closed THEN "exit" ELSE "notify"]
  /\ UNCHANGED <<shardVars, chanVars, freezeVars, writerVars, target, flushes, res,
                 workerVars, waitMu, waiters, err, panicked>>

CloseNotify(c) ==
  /\ cpc[c] = "notify"
  /\ cpc' = [cpc EXCEPT ![c] = IF notifyNeeded THEN "bcast" ELSE "stop"]
  /\ UNCHANGED <<shardVars, chanVars, freezeVars, writerVars, target, flushes, snap,
                 res, workerVars, waitMu, waiters, closed, err, panicked>>

CloseBroadcast(c) ==
  /\ cpc[c] = "bcast"
  /\ Broadcast
  /\ cpc' = [cpc EXCEPT ![c] = "stop"]
  /\ UNCHANGED <<shardVars, chanVars, freezeVars, target, flushes, snap, res,
                 workerVars, closed, err, panicked>>

\* Slip: Close waits for the trigger without stopping it.
stopNotClosed == stopTrigger

stopClosed == TRUE

CloseStop(c) ==
  /\ cpc[c] = "stop"
  /\ stopTrigger' = stopClosed
  /\ cpc' = [cpc EXCEPT ![c] = "trigger"]
  /\ UNCHANGED <<shardVars, signal, queue, queueOpen, batches, last, freezeVars,
                 writerVars, target, flushes, snap, res, workerVars, waitMu, waiters,
                 closed, err, panicked>>

\* <-triggerDone, then the final freeze.
CloseTriggerDone(c) ==
  /\ cpc[c] = "trigger"
  /\ cpc[Trigger] = "exit"
  /\ cpc' = [cpc EXCEPT ![c] = "enter"]
  /\ UNCHANGED <<shardVars, chanVars, freezeVars, writerVars, target, flushes, snap,
                 res, workerVars, waitMu, waiters, closed, err, panicked>>

CloseQueue(c) ==
  /\ cpc[c] = "target"
  /\ Done(target[c])
  /\ queueOpen' = FALSE
  /\ cpc' = [cpc EXCEPT ![c] = "worker"]
  /\ target' = [target EXCEPT ![c] = 0]
  /\ UNCHANGED <<shardVars, signal, stopTrigger, queue, batches, last, freezeVars,
                 writerVars, flushes, snap, res, workerVars, waitMu, waiters,
                 closed, err, panicked>>

CloseReturn(c) ==
  /\ cpc[c] = "worker"
  /\ kpc = "exit"
  /\ res' = [res EXCEPT ![c] = IF err THEN "err" ELSE "nil"]
  /\ cpc' = [cpc EXCEPT ![c] = "exit"]
  /\ UNCHANGED <<shardVars, chanVars, freezeVars, writerVars, target, flushes, snap,
                 workerVars, waitMu, waiters, closed, err, panicked>>

(***************************************************************************)
(* runWorker                                                               *)
(***************************************************************************)

\* for batch := range b.queue
WorkerReceive ==
  /\ kpc = "recv"
  /\ queue # <<>>
  /\ wb' = Head(queue)
  /\ queue' = Tail(queue)
  /\ kpc' = "commit"
  /\ UNCHANGED <<shardVars, signal, stopTrigger, queueOpen, batches, last, freezeVars,
                 writerVars, callerVars, kidx, log, lost, waitMu, waiters, closed,
                 err, panicked>>

WorkerExit ==
  /\ kpc = "recv"
  /\ queue = <<>>
  /\ ~queueOpen
  /\ kpc' = "exit"
  /\ UNCHANGED <<shardVars, chanVars, freezeVars, writerVars, callerVars, wb, kidx,
                 log, lost, waitMu, waiters, closed, err, panicked>>

\* The points of shard s in the worker's batch.
Frozen(s) == buf[s][batches[wb].shards[s]]

CommitLog == log' = [s \in Shard |-> log[s] \o Frozen(s)]

commitOK ==
  /\ kpc = "commit"
  /\ CommitLog
  /\ kpc' = "recycle"
  /\ UNCHANGED <<shardVars, chanVars, freezeVars, writerVars, callerVars, wb, kidx, lost,
                 waitMu, waiters, closed, err, panicked>>

\* A failed commit leaves a prefix of the runs in the WAL.
commitFail ==
  /\ kpc = "commit"
  /\ CommitMayFail
  /\ CommitLog
  /\ \E k \in 0 .. NumShards :
       lost' = [s \in Shard |->
                  IF s > k THEN lost[s] \cup {Frozen(s)[i] : i \in 1 .. Len(Frozen(s))}
                           ELSE lost[s]]
  /\ batches' = [batches EXCEPT ![wb].err = TRUE]
  /\ kpc' = "setError"
  /\ UNCHANGED <<shardVars, signal, stopTrigger, queue, queueOpen, last, freezeVars,
                 writerVars, callerVars, wb, kidx, waitMu, waiters, closed, err,
                 panicked>>

\* Only the first error is kept; the model has one error value.
setError ==
  /\ kpc = "setError"
  /\ err' = TRUE
  /\ kpc' = "notify"
  /\ UNCHANGED <<shardVars, chanVars, freezeVars, writerVars, callerVars, wb, kidx,
                 log, lost, waitMu, waiters, closed, panicked>>

WorkerNotify ==
  /\ kpc = "notify"
  /\ kpc' = IF notifyNeeded THEN "bcast" ELSE "recycle"
  /\ UNCHANGED <<shardVars, chanVars, freezeVars, writerVars, callerVars, wb, kidx, log,
                 lost, waitMu, waiters, closed, err, panicked>>

WorkerBroadcast ==
  /\ kpc = "bcast"
  /\ Broadcast
  /\ kpc' = "recycle"
  /\ UNCHANGED <<shardVars, chanVars, freezeVars, callerVars, wb, kidx, log, lost,
                 closed, err, panicked>>

\* Slips: the points of a recycled buffer are kept; batch.shards is dropped before
\* its buffers are returned.
resetKeeps(points) == points
returnsNothing(b) == NoBuf

resetPoints(points) == <<>>
returned(b) == b

\* One shard of recycleBatch: reset the buffer, push it on the free list.
recycleBatch ==
  LET b == batches[wb].shards[kidx] IN
  /\ kpc = "recycle"
  /\ buf' = [buf EXCEPT ![kidx][b] = resetPoints(@)]
  /\ free' = [free EXCEPT ![kidx] = Append(@, returned(b))]
  /\ batches' = [batches EXCEPT ![wb].shards[kidx] = NoBuf]
  /\ kidx' = kidx + 1
  /\ kpc' = IF kidx = NumShards THEN "done" ELSE "recycle"
  /\ UNCHANGED <<active, activeCount, activePoints, accepted, signal, stopTrigger,
                 queue, queueOpen, last, freezeVars, writerVars, callerVars, wb, log,
                 lost, waitMu, waiters, closed, err, panicked>>

\* Slip: done is not closed.
doneNotClosed(b) == b.done

doneClosed(b) == TRUE

\* close(batch.done)
WorkerDone ==
  /\ kpc = "done"
  /\ batches' = [batches EXCEPT ![wb].done = doneClosed(batches[wb])]
  /\ kpc' = "recv"
  /\ wb' = 0
  /\ kidx' = 1
  /\ UNCHANGED <<shardVars, signal, stopTrigger, queue, queueOpen, last, freezeVars,
                 writerVars, callerVars, log, lost, waitMu, waiters, closed,
                 err, panicked>>

(***************************************************************************)
(* Next-state relation                                                     *)
(***************************************************************************)

WriterStep(w) ==
  \/ AddStart(w)
  \/ \E s \in Shard : appendPoint(w, s)
  \/ maybeSignal(w)
  \/ WaitLock(w)
  \/ WaitCheckError(w)
  \/ WaitCheckSpace(w)
  \/ CondWait(w)
  \/ WaitRelock(w)

FreezeStep ==
  FreezeLoad \/ FreezeSwap \/ FreezeCount \/ FreezeNotify \/ FreezeBroadcast
             \/ FreezeSend \/ FreezeSendPanic

TriggerStep == TriggerSignal \/ TriggerTick \/ TriggerReturn \/ TriggerStop

FlusherStep(f) == FlushStart(f) \/ FlushReturn(f)

CloserStep(c) ==
  CloseStart(c) \/ CloseNotify(c) \/ CloseBroadcast(c) \/ CloseStop(c)
                \/ CloseTriggerDone(c) \/ CloseQueue(c) \/ CloseReturn(c)

WorkerStep ==
  WorkerReceive \/ WorkerExit \/ commitOK \/ commitFail \/ setError \/ WorkerNotify
                \/ WorkerBroadcast \/ recycleBatch \/ WorkerDone

\* Everything has returned, or the process is gone.
Terminated ==
  /\ \/ panicked
     \/ /\ \A w \in Writers : wpc[w] = "idle" /\ left[w] = 0
        /\ \A f \in Flushers : cpc[f] = "idle" /\ flushes[f] = 0
        /\ \A c \in Closers \cup {Trigger} : cpc[c] = "exit"
        /\ kpc = "exit"
  /\ UNCHANGED vars

Next ==
  \/ /\ ~panicked
     /\ \/ \E w \in Writers : WriterStep(w)
        \/ \E c \in Callers : FreezeLock(c)
        \/ FreezeStep
        \/ TriggerStep
        \/ \E f \in Flushers : FlusherStep(f)
        \/ \E c \in Closers : CloserStep(c)
        \/ WorkerStep
  \/ Terminated

Spec == Init /\ [][Next]_vars

(***************************************************************************)
(* Fairness: a goroutine that can run does run.  Acquiring freezeMu is     *)
(* strongly fair (Go's mutex hands over to a starved waiter), and so is    *)
(* the trigger's choice of a closed stopTrigger or a pending signal        *)
(* (select is random among the ready cases, and the ticker is one of them).*)
(***************************************************************************)
WriterProgress(w) ==
  \/ \E s \in Shard : appendPoint(w, s)
  \/ maybeSignal(w) \/ WaitLock(w) \/ WaitCheckError(w) \/ WaitCheckSpace(w)
  \/ CondWait(w) \/ WaitRelock(w)

Fairness ==
  /\ \A w \in Writers : WF_vars(~panicked /\ WriterProgress(w))
  /\ \A c \in Callers : SF_vars(~panicked /\ FreezeLock(c))
  /\ WF_vars(~panicked /\ FreezeStep)
  /\ WF_vars(~panicked /\ TriggerStep)
  /\ SF_vars(~panicked /\ TriggerStop)
  /\ \A f \in Flushers : WF_vars(~panicked /\ FlushReturn(f))
  /\ \A c \in Closers : WF_vars(~panicked /\ cpc[c] # "idle" /\ CloserStep(c))
  /\ WF_vars(~panicked /\ WorkerStep)

FairSpec == Spec /\ Fairness

(***************************************************************************)
(* Properties                                                              *)
(***************************************************************************)

\* freezeAndEnqueue indexes shard.free[len-1] unchecked (write_batcher.go:449):
\* with QueueSize + 3 buffers per shard the list is never empty there, whatever
\* the queue, the worker and a blocked trigger hold.
SwapHasBuffer == fz = "swap" => free[fidx] # <<>>

\* No ingest buffer has two owners: of the ids in a shard, the active one, the
\* free ones, the one in the batch being frozen and the ones in published,
\* unrecycled batches are pairwise different.  Appending, committing and
\* recycling touch buffers outside each other's locks and rely on it.
NoAliasing ==
  \A s \in Shard :
    /\ \A i, j \in DOMAIN free[s] : free[s][i] = free[s][j] => i = j
    /\ \A i \in DOMAIN free[s] : free[s][i] # active[s] /\ free[s][i] # fshards[s]
    /\ fshards[s] # active[s]
    /\ \A k \in DOMAIN batches : batches[k].shards[s] # NoBuf =>
         /\ batches[k].shards[s] \notin {active[s], fshards[s]}
         /\ \A i \in DOMAIN free[s] : free[s][i] # batches[k].shards[s]
         /\ \A j \in DOMAIN batches :
              batches[j].shards[s] = batches[k].shards[s] => j = k

\* The single worker hands the points of a shard to the WAL in acceptance order,
\* without gap and without duplicate.
CommitInOrder == \A s \in Shard : \A i \in DOMAIN log[s] : log[s][i] = i

\* The points a buffer id of shard s holds.
Held(s, b) == IF b = NoBuf THEN {} ELSE {buf[s][b][i] : i \in DOMAIN buf[s][b]}

\* An accepted point is in the active buffer, in a frozen batch or has been
\* handed to the WAL: no interleaving of append, swap and recycle drops one.
NoPointDropped ==
  \A s \in Shard : \A n \in 1 .. accepted[s] :
    \/ n \in {log[s][i] : i \in DOMAIN log[s]}
    \/ n \in Held(s, active[s])
    \/ n \in Held(s, fshards[s])
    \/ \E k \in DOMAIN batches : n \in Held(s, batches[k].shards[s])

\* Flush and Close are the visibility barriers: when one returns nil, every point
\* accepted before it was called is in the WAL.
Barrier ==
  \A c \in Callers : res[c] = "nil" =>
    \A s \in Shard : /\ Len(log[s]) >= snap[c][s]
                     /\ \A n \in 1 .. snap[c][s] : n \notin lost[s]

\* A writer sleeps on spaceCond only while it must, or while the thread that
\* ended its reason to sleep is still on its way to Broadcast (the unlocked
\* waiters.Load in notifyWaiters misses nobody).
NoLostWakeup ==
  \A w \in Writers : wpc[w] = "asleep" =>
    /\ activePoints <= overloadPointLimit => fz \in {"notify", "bcast"}
    /\ err => kpc \in {"notify", "bcast"}
    /\ closed => \E c \in Closers : cpc[c] \in {"notify", "bcast"}

\* waitIfOverloaded bounds memory: beyond two batches the active buffers hold at
\* most the one call each writer had under way.
MemoryBound ==
  activePoints <= overloadPointLimit + Cardinality(Writers) * MaxAddBatch

\* What "returning nil still means that exact point will be drained"
\* (write_batcher.go:249) promises once the worker has stopped.
AckedDrained ==
  kpc = "exit" => \A p \in acked : p[2] <= Len(log[p[1]])

\* A Flush that was called returns (unless the process panicked).
FlushReturns ==
  \A f \in Flushers : cpc[f] # "idle" ~> (cpc[f] = "idle" \/ panicked)

\* A Close that was called returns (unless the process panicked).
CloseReturns ==
  \A c \in Closers : cpc[c] # "idle" ~> (cpc[c] = "exit" \/ panicked)

\* Until Close, every accepted point is handed to the WAL even if nobody adds,
\* queries or flushes again: the interval timer drains it.
PointsDrained ==
  \A s \in Shard : []<>(Len(log[s]) = accepted[s] \/ closed)

\* write_batcher.go's promise to add, addBatch, Flush and Close: every step of the
\* batcher is a step of one FIFO log per shard, or changes nothing a caller can see
\* (swaps, sends, recycling, wakeups).
WL == INSTANCE WriteLog WITH Shards <- Shard, Calls <- Callers, since <- snap, answer <- res
ImplementsWriteLog == WL!Spec
=============================================================================
