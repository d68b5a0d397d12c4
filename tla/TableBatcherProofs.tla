------------------------- MODULE TableBatcherProofs -------------------------
(***************************************************************************)
(* Proofs about TableBatcher for every number of writers, flushers,        *)
(* closers and shards and every queue size: type correctness, and a free   *)
(* list that never runs dry.                                               *)
(***************************************************************************)
EXTENDS TableBatcher, SequenceTheorems, TLAPS

(***************************************************************************)
(* The inductive invariant.  FreezeInv ties the holder of freezeMu, the    *)
(* loop index and the buffers collected so far together; QueueInv says     *)
(* that the queue holds the most recent batches, that the worker's batch   *)
(* is the one just before them and that exactly those still own buffers;   *)
(* CountInv accounts for every buffer of a shard.                          *)
(***************************************************************************)
CollectedAll == fz \in {"count", "notify", "bcast", "send"}

Collected(s) == CollectedAll \/ (fz = "swap" /\ s < fidx)

FreezeInv ==
  /\ fz = "idle" <=> freezeMu = None
  /\ fz = "swap" => fidx \in Shard
  /\ \A s \in Shard : fshards[s] # NoBuf <=> Collected(s)

WorkerIdle == kpc \in {"recv", "exit"}

WorkerHoldsAll == kpc \in {"commit", "setError", "notify", "bcast"}

WorkerHolds(s) == WorkerHoldsAll \/ (kpc = "recycle" /\ s >= kidx)

FirstQueued == Len(batches) - Len(queue) + 1

QueueInv ==
  /\ Len(queue) <= QueueSize
  /\ Len(queue) <= Len(batches)
  /\ \A i \in 1 .. Len(queue) : queue[i] = FirstQueued + i - 1
  /\ WorkerIdle => wb = 0
  /\ ~WorkerIdle => wb = FirstQueued - 1 /\ wb >= 1
  /\ WorkerIdle \/ WorkerHoldsAll => kidx = 1
  /\ kpc = "recycle" => kidx \in Shard
  /\ \A k \in 1 .. Len(batches) : \A s \in Shard :
       batches[k].shards[s] # NoBuf <=> (k >= FirstQueued \/ (k = wb /\ WorkerHolds(s)))

InFreeze(s) == IF Collected(s) THEN 1 ELSE 0

InWorker(s) == IF WorkerHolds(s) THEN 1 ELSE 0

CountInv ==
  \A s \in Shard :
    Len(free[s]) + 1 + Len(queue) + InFreeze(s) + InWorker(s) = buffersPerShard

TodoInv == \A w \in Writers : wpc[w] = "append" => todo[w] >= 1

IInv == TypeOK /\ FreezeInv /\ QueueInv /\ CountInv /\ TodoInv

USE ConstantsAssumption DEF NoBuf

(***************************************************************************)
(* Frames: a part of the type invariant is kept by a step that leaves its  *)
(* variables alone.                                                        *)
(***************************************************************************)

\* ShardType only depends on its own variables.
LEMMA ShardFrame ==
  ASSUME ShardType, UNCHANGED <<active, free, buf, activeCount, activePoints, accepted>>
  PROVE  ShardType'
BY DEF ShardType

\* ChanType only depends on its own variables.
LEMMA ChanFrame ==
  ASSUME ChanType, UNCHANGED <<signal, stopTrigger, queueOpen, closed, err, panicked, waitMu, waiters>>
  PROVE  ChanType'
BY DEF ChanType

\* BatchType only depends on its own variables.
LEMMA BatchFrame ==
  ASSUME BatchType, UNCHANGED <<queue, batches, last, wb, target>>
  PROVE  BatchType'
BY DEF BatchType

\* FreezeType only depends on its own variables.
LEMMA FreezeFrame ==
  ASSUME FreezeType, UNCHANGED <<freezeMu, fz, fidx, fshards, fcount>>
  PROVE  FreezeType'
BY DEF FreezeType

\* WriterType only depends on its own variables.
LEMMA WriterFrame ==
  ASSUME WriterType, UNCHANGED <<wpc, left, todo, observed, mine, acked>>
  PROVE  WriterType'
BY DEF WriterType

\* CallerType only depends on its own variables.
LEMMA CallerFrame ==
  ASSUME CallerType, UNCHANGED <<cpc, flushes, snap, res>>
  PROVE  CallerType'
BY DEF CallerType

\* WorkerType only depends on its own variables.
LEMMA WorkerFrame ==
  ASSUME WorkerType, UNCHANGED <<kpc, kidx, log, lost>>
  PROVE  WorkerType'
BY DEF WorkerType

(***************************************************************************)
(* Type correctness, one action at a time.                                 *)
(***************************************************************************)

\* A writer's steps keep the types.
LEMMA WriterStepType ==
  ASSUME IInv, NEW w \in Writers, WriterStep(w)
  PROVE  TypeOK'
<1> USE DEF IInv, TypeOK
<1>1. CASE AddStart(w)
  <2>1. ShardType' /\ ChanType' /\ BatchType' /\ FreezeType' /\ CallerType' /\ WorkerType'
    BY <1>1, ShardFrame, ChanFrame, BatchFrame, FreezeFrame, CallerFrame, WorkerFrame
    DEF AddStart, shardVars, chanVars, freezeVars, writerVars, callerVars, workerVars
  <2>2. WriterType'
    BY <1>1 DEF AddStart, terminalError, shardVars, chanVars, freezeVars, writerVars, callerVars, workerVars, WriterType
  <2> QED BY <2>1, <2>2
<1>2. ASSUME NEW s \in Shard, appendPoint(w, s) PROVE TypeOK'
  <2>1. ChanType' /\ BatchType' /\ FreezeType' /\ CallerType' /\ WorkerType'
    BY <1>2, ChanFrame, BatchFrame, FreezeFrame, CallerFrame, WorkerFrame
    DEF appendPoint, shardVars, chanVars, freezeVars, writerVars, callerVars, workerVars
  <2>2. ShardType'
    BY <1>2 DEF appendPoint, TodoInv, shardVars, chanVars, freezeVars, writerVars, callerVars, workerVars, ShardType
  <2>3. WriterType'
    <3>1. accepted[s] + 1 \in Nat /\ todo[w] - 1 \in Nat
      BY <1>2 DEF appendPoint, TodoInv, ShardType, WriterType
    <3>2. mine' \in [Writers -> SUBSET (Shard \X Nat)]
      BY <1>2, <3>1 DEF appendPoint, WriterType
    <3>3. todo' \in [Writers -> Nat] /\ observed' \in [Writers -> Int]
      BY <1>2, <3>1 DEF appendPoint, ShardType, WriterType
    <3> QED BY <1>2, <3>2, <3>3 DEF appendPoint, WriterType
  <2> QED BY <2>1, <2>2, <2>3
<1>3. CASE maybeSignal(w)
  <2>1. ShardType' /\ BatchType' /\ FreezeType' /\ CallerType' /\ WorkerType'
    BY <1>3, ShardFrame, BatchFrame, FreezeFrame, CallerFrame, WorkerFrame
    DEF maybeSignal, Return, shardVars, chanVars, freezeVars, writerVars, callerVars, workerVars
  <2>2. ChanType'
    BY <1>3 DEF maybeSignal, Return, Overloaded, shardVars, chanVars, freezeVars, writerVars, callerVars, workerVars, ChanType
  <2>3. WriterType'
    BY <1>3 DEF maybeSignal, Return, Overloaded, shardVars, chanVars, freezeVars, writerVars, callerVars, workerVars, WriterType
  <2> QED BY <2>1, <2>2, <2>3
<1>4. CASE WaitLock(w)
  <2>1. ShardType' /\ BatchType' /\ FreezeType' /\ CallerType' /\ WorkerType'
    BY <1>4, ShardFrame, BatchFrame, FreezeFrame, CallerFrame, WorkerFrame
    DEF WaitLock, shardVars, chanVars, freezeVars, writerVars, callerVars, workerVars
  <2>2. ChanType'
    BY <1>4 DEF WaitLock, shardVars, chanVars, freezeVars, writerVars, callerVars, workerVars, ChanType
  <2>3. WriterType'
    BY <1>4 DEF WaitLock, shardVars, chanVars, freezeVars, writerVars, callerVars, workerVars, WriterType
  <2> QED BY <2>1, <2>2, <2>3
<1>5. CASE WaitCheckError(w)
  <2>1. ShardType' /\ BatchType' /\ FreezeType' /\ CallerType' /\ WorkerType'
    BY <1>5, ShardFrame, BatchFrame, FreezeFrame, CallerFrame, WorkerFrame
    DEF WaitCheckError, WaitReturn, Return, shardVars, chanVars, freezeVars, writerVars, callerVars, workerVars
  <2>2. ChanType'
    BY <1>5 DEF WaitCheckError, WaitReturn, Return, terminalError, shardVars, chanVars, freezeVars, writerVars, callerVars, workerVars, ChanType
  <2>3. WriterType'
    BY <1>5 DEF WaitCheckError, WaitReturn, Return, terminalError, shardVars, chanVars, freezeVars, writerVars, callerVars, workerVars, WriterType
  <2> QED BY <2>1, <2>2, <2>3
<1>6. CASE WaitCheckSpace(w)
  <2>1. ShardType' /\ BatchType' /\ FreezeType' /\ CallerType' /\ WorkerType'
    BY <1>6, ShardFrame, BatchFrame, FreezeFrame, CallerFrame, WorkerFrame
    DEF WaitCheckSpace, WaitReturn, Return, shardVars, chanVars, freezeVars, writerVars, callerVars, workerVars
  <2>2. ChanType'
    BY <1>6 DEF WaitCheckSpace, WaitReturn, Return, Overloaded, shardVars, chanVars, freezeVars, writerVars, callerVars, workerVars, ChanType
  <2>3. WriterType'
    BY <1>6 DEF WaitCheckSpace, WaitReturn, Return, Overloaded, shardVars, chanVars, freezeVars, writerVars, callerVars, workerVars, WriterType
  <2> QED BY <2>1, <2>2, <2>3
<1>7. CASE CondWait(w)
  <2>1. ShardType' /\ BatchType' /\ FreezeType' /\ CallerType' /\ WorkerType'
    BY <1>7, ShardFrame, BatchFrame, FreezeFrame, CallerFrame, WorkerFrame
    DEF CondWait, shardVars, chanVars, freezeVars, writerVars, callerVars, workerVars
  <2>2. ChanType'
    BY <1>7 DEF CondWait, shardVars, chanVars, freezeVars, writerVars, callerVars, workerVars, ChanType
  <2>3. WriterType'
    BY <1>7 DEF CondWait, shardVars, chanVars, freezeVars, writerVars, callerVars, workerVars, WriterType
  <2> QED BY <2>1, <2>2, <2>3
<1>8. CASE WaitRelock(w)
  <2>1. ShardType' /\ BatchType' /\ FreezeType' /\ CallerType' /\ WorkerType'
    BY <1>8, ShardFrame, BatchFrame, FreezeFrame, CallerFrame, WorkerFrame
    DEF WaitRelock, shardVars, chanVars, freezeVars, writerVars, callerVars, workerVars
  <2>2. ChanType'
    BY <1>8 DEF WaitRelock, shardVars, chanVars, freezeVars, writerVars, callerVars, workerVars, ChanType
  <2>3. WriterType'
    BY <1>8 DEF WaitRelock, shardVars, chanVars, freezeVars, writerVars, callerVars, workerVars, WriterType
  <2> QED BY <2>1, <2>2, <2>3
<1> QED BY <1>1, <1>2, <1>3, <1>4, <1>5, <1>6, <1>7, <1>8 DEF WriterStep

\* The steps of freezeAndEnqueue keep the types.
LEMMA FreezeStepType ==
  ASSUME IInv, FreezeStep \/ \E c \in Callers : FreezeLock(c)
  PROVE  TypeOK'
<1> USE DEF IInv, TypeOK
<1>1. ASSUME NEW c \in Callers, FreezeLock(c) PROVE TypeOK'
  <2>1. ShardType' /\ ChanType' /\ BatchType' /\ WriterType' /\ WorkerType'
    BY <1>1, ShardFrame, ChanFrame, BatchFrame, WriterFrame, WorkerFrame
    DEF FreezeLock, shardVars, chanVars, freezeVars, writerVars, callerVars, workerVars
  <2>2. FreezeType'
    BY <1>1 DEF FreezeLock, Callers, shardVars, chanVars, freezeVars, writerVars, callerVars, workerVars, FreezeType
  <2>3. CallerType'
    BY <1>1 DEF FreezeLock, Callers, shardVars, chanVars, freezeVars, writerVars, callerVars, workerVars, CallerType
  <2> QED BY <2>1, <2>2, <2>3
<1>2. CASE FreezeLoad
  <2>1. ShardType' /\ ChanType' /\ WriterType' /\ WorkerType'
    BY <1>2, ShardFrame, ChanFrame, WriterFrame, WorkerFrame
    DEF FreezeLoad, FreezeReturn, shardVars, chanVars, freezeVars, writerVars, callerVars, workerVars
  <2>2. FreezeType'
    BY <1>2 DEF FreezeLoad, FreezeReturn, idle, idleBarrier, FreezeInv, shardVars, chanVars, freezeVars, writerVars, callerVars, workerVars, FreezeType
  <2>3. CallerType'
    BY <1>2 DEF FreezeLoad, FreezeReturn, idle, idleBarrier, FreezeInv, shardVars, chanVars, freezeVars, writerVars, callerVars, workerVars, CallerType
  <2>4. BatchType'
    BY <1>2 DEF FreezeLoad, FreezeReturn, idle, idleBarrier, FreezeInv, shardVars, chanVars, freezeVars, writerVars, callerVars, workerVars, BatchType
  <2> QED BY <2>1, <2>2, <2>3, <2>4
<1>3. CASE FreezeSwap
  <2>1. ChanType' /\ BatchType' /\ WriterType' /\ CallerType' /\ WorkerType'
    BY <1>3, ChanFrame, BatchFrame, WriterFrame, CallerFrame, WorkerFrame
    DEF FreezeSwap, shardVars, chanVars, freezeVars, writerVars, callerVars, workerVars
  <2>2. ShardType'
    BY <1>3 DEF FreezeSwap, countAdded, popFree, FreezeInv, shardVars, chanVars, freezeVars, writerVars, callerVars, workerVars, ShardType
  <2>3. FreezeType'
    BY <1>3 DEF FreezeSwap, countAdded, popFree, FreezeInv, ShardType, shardVars, chanVars, freezeVars, writerVars, callerVars, workerVars, FreezeType
  <2> QED BY <2>1, <2>2, <2>3
<1>4. CASE FreezeCount
  <2>1. ChanType' /\ WriterType' /\ WorkerType'
    BY <1>4, ChanFrame, WriterFrame, WorkerFrame
    DEF FreezeCount, FreezeReturn, shardVars, chanVars, freezeVars, writerVars, callerVars, workerVars
  <2>2. ShardType'
    <3>1. CASE fcount = 0
      <4>1. \A s \in Shard : fshards[s] \in BufId
        BY <1>4 DEF FreezeCount, FreezeInv, Collected, CollectedAll, FreezeType
      <4>2. free' = [s \in Shard |-> Append(free[s], fshards[s])]
        BY <1>4, <3>1 DEF FreezeCount
      <4>3. free' \in [Shard -> Seq(BufId)]
        BY <4>1, <4>2 DEF ShardType
      <4>4. buf' = [s \in Shard |-> [buf[s] EXCEPT ![fshards[s]] = <<>>]]
        BY <1>4, <3>1 DEF FreezeCount
      <4>5. buf' \in [Shard -> [BufId -> Seq(Nat)]]
        <5>1. \A s \in Shard : [buf[s] EXCEPT ![fshards[s]] = <<>>] \in [BufId -> Seq(Nat)]
          <6>1. <<>> \in Seq(Nat)
            BY EmptySeq
          <6>2. \A s \in Shard : buf[s] \in [BufId -> Seq(Nat)]
            BY DEF ShardType
          <6> QED BY <4>1, <6>1, <6>2
        <5> QED BY <4>4, <5>1
      <4> QED BY <1>4, <3>1, <4>3, <4>5 DEF FreezeCount, ShardType
    <3>2. CASE fcount # 0
      BY <1>4, <3>2 DEF FreezeCount, activeRemaining, FreezeType, ShardType
    <3> QED BY <3>1, <3>2
  <2>3. FreezeType'
    BY <1>4 DEF FreezeCount, FreezeReturn, idleBarrier, activeRemaining, FreezeInv, Collected, CollectedAll, shardVars, chanVars, freezeVars, writerVars, callerVars, workerVars, FreezeType
  <2>4. CallerType'
    BY <1>4 DEF FreezeCount, FreezeReturn, idleBarrier, activeRemaining, FreezeInv, Collected, CollectedAll, FreezeType, shardVars, chanVars, freezeVars, writerVars, callerVars, workerVars, CallerType
  <2>5. BatchType'
    BY <1>4 DEF FreezeCount, FreezeReturn, idleBarrier, activeRemaining, FreezeInv, Collected, CollectedAll, FreezeType, shardVars, chanVars, freezeVars, writerVars, callerVars, workerVars, BatchType
  <2> QED BY <2>1, <2>2, <2>3, <2>4, <2>5
<1>5. CASE FreezeNotify
  <2>1. ShardType' /\ ChanType' /\ BatchType' /\ WriterType' /\ CallerType' /\ WorkerType'
    BY <1>5, ShardFrame, ChanFrame, BatchFrame, WriterFrame, CallerFrame, WorkerFrame
    DEF FreezeNotify, shardVars, chanVars, freezeVars, writerVars, callerVars, workerVars
  <2>2. FreezeType'
    BY <1>5 DEF FreezeNotify, notifyNeeded, shardVars, chanVars, freezeVars, writerVars, callerVars, workerVars, FreezeType
  <2> QED BY <2>1, <2>2
<1>6. CASE FreezeBroadcast
  <2>1. ShardType' /\ ChanType' /\ BatchType' /\ CallerType' /\ WorkerType'
    BY <1>6, ShardFrame, ChanFrame, BatchFrame, CallerFrame, WorkerFrame
    DEF FreezeBroadcast, Broadcast, shardVars, chanVars, freezeVars, writerVars, callerVars, workerVars
  <2>2. FreezeType'
    BY <1>6 DEF FreezeBroadcast, Broadcast, shardVars, chanVars, freezeVars, writerVars, callerVars, workerVars, FreezeType
  <2>3. WriterType'
    BY <1>6 DEF FreezeBroadcast, Broadcast, shardVars, chanVars, freezeVars, writerVars, callerVars, workerVars, WriterType
  <2> QED BY <2>1, <2>2, <2>3
<1>7. CASE FreezeSend
  <2>1. ShardType' /\ ChanType' /\ WriterType' /\ WorkerType'
    BY <1>7, ShardFrame, ChanFrame, WriterFrame, WorkerFrame
    DEF FreezeSend, FreezeReturn, shardVars, chanVars, freezeVars, writerVars, callerVars, workerVars
  <2>2. BatchType'
    <3>1. [shards |-> fshards, done |-> FALSE, err |-> FALSE] \in Batch
      BY DEF FreezeType, Batch
    <3>2. batches' \in Seq(Batch) /\ Len(batches') = Len(batches) + 1
      BY <1>7, <3>1 DEF FreezeSend, BatchType
    <3>3. queue' \in Seq(Nat) /\ last' \in 0 .. Len(batches')
      BY <1>7, <3>2 DEF FreezeSend, BatchType
    <3>4. target' \in [Callers -> 0 .. Len(batches')]
      <4>1. Len(batches) \in Nat
        BY DEF BatchType
      <4>2. target \in [Callers -> 0 .. Len(batches')]
        BY <3>2, <4>1 DEF BatchType
      <4>3. Len(batches) + 1 \in 0 .. Len(batches')
        BY <3>2, <4>1
      <4> QED BY <1>7, <4>2, <4>3 DEF FreezeSend, FreezeReturn
    <3>5. wb' \in 0 .. Len(batches')
      BY <1>7, <3>2 DEF FreezeSend, BatchType, workerVars
    <3> QED BY <3>2, <3>3, <3>4, <3>5 DEF BatchType
  <2>3. FreezeType'
    BY <1>7 DEF FreezeSend, FreezeReturn, Batch, FreezeInv, shardVars, chanVars, freezeVars, writerVars, callerVars, workerVars, FreezeType
  <2>4. CallerType'
    BY <1>7 DEF FreezeSend, FreezeReturn, Batch, FreezeInv, shardVars, chanVars, freezeVars, writerVars, callerVars, workerVars, CallerType
  <2> QED BY <2>1, <2>2, <2>3, <2>4
<1>8. CASE FreezeSendPanic
  <2>1. ShardType' /\ BatchType' /\ FreezeType' /\ WriterType' /\ CallerType' /\ WorkerType'
    BY <1>8, ShardFrame, BatchFrame, FreezeFrame, WriterFrame, CallerFrame, WorkerFrame
    DEF FreezeSendPanic, shardVars, chanVars, freezeVars, writerVars, callerVars, workerVars
  <2>2. ChanType'
    BY <1>8 DEF FreezeSendPanic, shardVars, chanVars, freezeVars, writerVars, callerVars, workerVars, ChanType
  <2> QED BY <2>1, <2>2
<1> QED BY <1>1, <1>2, <1>3, <1>4, <1>5, <1>6, <1>7, <1>8 DEF FreezeStep

\* The steps of the trigger, of Flush and of Close keep the types.
LEMMA CallerStepType ==
  ASSUME IInv, TriggerStep \/ (\E f \in Flushers : FlusherStep(f)) \/ (\E c \in Closers : CloserStep(c))
  PROVE  TypeOK'
<1> USE DEF IInv, TypeOK
<1>1. CASE TriggerSignal
  <2>1. ShardType' /\ BatchType' /\ FreezeType' /\ WriterType' /\ WorkerType'
    BY <1>1, ShardFrame, BatchFrame, FreezeFrame, WriterFrame, WorkerFrame
    DEF TriggerSignal, shardVars, chanVars, freezeVars, writerVars, callerVars, workerVars
  <2>2. ChanType'
    BY <1>1 DEF TriggerSignal, Callers, shardVars, chanVars, freezeVars, writerVars, callerVars, workerVars, ChanType
  <2>3. CallerType'
    BY <1>1 DEF TriggerSignal, Callers, shardVars, chanVars, freezeVars, writerVars, callerVars, workerVars, CallerType
  <2> QED BY <2>1, <2>2, <2>3
<1>2. CASE TriggerTick
  <2>1. ShardType' /\ ChanType' /\ BatchType' /\ FreezeType' /\ WriterType' /\ WorkerType'
    BY <1>2, ShardFrame, ChanFrame, BatchFrame, FreezeFrame, WriterFrame, WorkerFrame
    DEF TriggerTick, shardVars, chanVars, freezeVars, writerVars, callerVars, workerVars
  <2>2. CallerType'
    BY <1>2 DEF TriggerTick, Callers, shardVars, chanVars, freezeVars, writerVars, callerVars, workerVars, CallerType
  <2> QED BY <2>1, <2>2
<1>3. CASE TriggerReturn
  <2>1. ShardType' /\ ChanType' /\ FreezeType' /\ WriterType' /\ WorkerType'
    BY <1>3, ShardFrame, ChanFrame, FreezeFrame, WriterFrame, WorkerFrame
    DEF TriggerReturn, shardVars, chanVars, freezeVars, writerVars, callerVars, workerVars
  <2>2. CallerType'
    BY <1>3 DEF TriggerReturn, Callers, shardVars, chanVars, freezeVars, writerVars, callerVars, workerVars, CallerType
  <2>3. BatchType'
    BY <1>3 DEF TriggerReturn, Callers, shardVars, chanVars, freezeVars, writerVars, callerVars, workerVars, BatchType
  <2> QED BY <2>1, <2>2, <2>3
<1>4. CASE TriggerStop
  <2>1. ShardType' /\ ChanType' /\ BatchType' /\ FreezeType' /\ WriterType' /\ WorkerType'
    BY <1>4, ShardFrame, ChanFrame, BatchFrame, FreezeFrame, WriterFrame, WorkerFrame
    DEF TriggerStop, shardVars, chanVars, freezeVars, writerVars, callerVars, workerVars
  <2>2. CallerType'
    BY <1>4 DEF TriggerStop, Callers, shardVars, chanVars, freezeVars, writerVars, callerVars, workerVars, CallerType
  <2> QED BY <2>1, <2>2
<1>5. ASSUME NEW f \in Flushers, FlushStart(f) PROVE TypeOK'
  <2>1. ShardType' /\ ChanType' /\ BatchType' /\ FreezeType' /\ WriterType' /\ WorkerType'
    BY <1>5, ShardFrame, ChanFrame, BatchFrame, FreezeFrame, WriterFrame, WorkerFrame
    DEF FlushStart, shardVars, chanVars, freezeVars, writerVars, callerVars, workerVars
  <2>2. CallerType'
    BY <1>5 DEF FlushStart, Callers, ShardType, shardVars, chanVars, freezeVars, writerVars, callerVars, workerVars, CallerType
  <2> QED BY <2>1, <2>2
<1>6. ASSUME NEW f \in Flushers, FlushReturn(f) PROVE TypeOK'
  <2>1. ShardType' /\ ChanType' /\ FreezeType' /\ WriterType' /\ WorkerType'
    BY <1>6, ShardFrame, ChanFrame, FreezeFrame, WriterFrame, WorkerFrame
    DEF FlushReturn, shardVars, chanVars, freezeVars, writerVars, callerVars, workerVars
  <2>2. CallerType'
    BY <1>6 DEF FlushReturn, Callers, shardVars, chanVars, freezeVars, writerVars, callerVars, workerVars, CallerType
  <2>3. BatchType'
    BY <1>6 DEF FlushReturn, Callers, shardVars, chanVars, freezeVars, writerVars, callerVars, workerVars, BatchType
  <2> QED BY <2>1, <2>2, <2>3
<1>7. ASSUME NEW c \in Closers, CloseStart(c) PROVE TypeOK'
  <2>1. ShardType' /\ BatchType' /\ FreezeType' /\ WriterType' /\ WorkerType'
    BY <1>7, ShardFrame, BatchFrame, FreezeFrame, WriterFrame, WorkerFrame
    DEF CloseStart, shardVars, chanVars, freezeVars, writerVars, callerVars, workerVars
  <2>2. ChanType'
    BY <1>7 DEF CloseStart, Callers, ShardType, shardVars, chanVars, freezeVars, writerVars, callerVars, workerVars, ChanType
  <2>3. CallerType'
    BY <1>7 DEF CloseStart, Callers, ShardType, shardVars, chanVars, freezeVars, writerVars, callerVars, workerVars, CallerType
  <2> QED BY <2>1, <2>2, <2>3
<1>8. ASSUME NEW c \in Closers, CloseNotify(c) PROVE TypeOK'
  <2>1. ShardType' /\ ChanType' /\ BatchType' /\ FreezeType' /\ WriterType' /\ WorkerType'
    BY <1>8, ShardFrame, ChanFrame, BatchFrame, FreezeFrame, WriterFrame, WorkerFrame
    DEF CloseNotify, shardVars, chanVars, freezeVars, writerVars, callerVars, workerVars
  <2>2. CallerType'
    BY <1>8 DEF CloseNotify, shardVars, chanVars, freezeVars, writerVars, callerVars, workerVars, CallerType
  <2> QED BY <2>1, <2>2
<1>9. ASSUME NEW c \in Closers, CloseBroadcast(c) PROVE TypeOK'
  <2>1. ShardType' /\ ChanType' /\ BatchType' /\ FreezeType' /\ WorkerType'
    BY <1>9, ShardFrame, ChanFrame, BatchFrame, FreezeFrame, WorkerFrame
    DEF CloseBroadcast, Broadcast, shardVars, chanVars, freezeVars, writerVars, callerVars, workerVars
  <2>2. CallerType'
    BY <1>9 DEF CloseBroadcast, Broadcast, shardVars, chanVars, freezeVars, writerVars, callerVars, workerVars, CallerType
  <2>3. WriterType'
    BY <1>9 DEF CloseBroadcast, Broadcast, shardVars, chanVars, freezeVars, writerVars, callerVars, workerVars, WriterType
  <2> QED BY <2>1, <2>2, <2>3
<1>10. ASSUME NEW c \in Closers, CloseStop(c) PROVE TypeOK'
  <2>1. ShardType' /\ BatchType' /\ FreezeType' /\ WriterType' /\ WorkerType'
    BY <1>10, ShardFrame, BatchFrame, FreezeFrame, WriterFrame, WorkerFrame
    DEF CloseStop, shardVars, chanVars, freezeVars, writerVars, callerVars, workerVars
  <2>2. ChanType'
    BY <1>10 DEF CloseStop, stopClosed, shardVars, chanVars, freezeVars, writerVars, callerVars, workerVars, ChanType
  <2>3. CallerType'
    BY <1>10 DEF CloseStop, stopClosed, shardVars, chanVars, freezeVars, writerVars, callerVars, workerVars, CallerType
  <2> QED BY <2>1, <2>2, <2>3
<1>11. ASSUME NEW c \in Closers, CloseTriggerDone(c) PROVE TypeOK'
  <2>1. ShardType' /\ ChanType' /\ BatchType' /\ FreezeType' /\ WriterType' /\ WorkerType'
    BY <1>11, ShardFrame, ChanFrame, BatchFrame, FreezeFrame, WriterFrame, WorkerFrame
    DEF CloseTriggerDone, shardVars, chanVars, freezeVars, writerVars, callerVars, workerVars
  <2>2. CallerType'
    BY <1>11 DEF CloseTriggerDone, shardVars, chanVars, freezeVars, writerVars, callerVars, workerVars, CallerType
  <2> QED BY <2>1, <2>2
<1>12. ASSUME NEW c \in Closers, CloseQueue(c) PROVE TypeOK'
  <2>1. ShardType' /\ FreezeType' /\ WriterType' /\ WorkerType'
    BY <1>12, ShardFrame, FreezeFrame, WriterFrame, WorkerFrame
    DEF CloseQueue, shardVars, chanVars, freezeVars, writerVars, callerVars, workerVars
  <2>2. ChanType'
    BY <1>12 DEF CloseQueue, Callers, shardVars, chanVars, freezeVars, writerVars, callerVars, workerVars, ChanType
  <2>3. CallerType'
    BY <1>12 DEF CloseQueue, Callers, shardVars, chanVars, freezeVars, writerVars, callerVars, workerVars, CallerType
  <2>4. BatchType'
    BY <1>12 DEF CloseQueue, Callers, shardVars, chanVars, freezeVars, writerVars, callerVars, workerVars, BatchType
  <2> QED BY <2>1, <2>2, <2>3, <2>4
<1>13. ASSUME NEW c \in Closers, CloseReturn(c) PROVE TypeOK'
  <2>1. ShardType' /\ ChanType' /\ BatchType' /\ FreezeType' /\ WriterType' /\ WorkerType'
    BY <1>13, ShardFrame, ChanFrame, BatchFrame, FreezeFrame, WriterFrame, WorkerFrame
    DEF CloseReturn, shardVars, chanVars, freezeVars, writerVars, callerVars, workerVars
  <2>2. CallerType'
    BY <1>13 DEF CloseReturn, shardVars, chanVars, freezeVars, writerVars, callerVars, workerVars, CallerType
  <2> QED BY <2>1, <2>2
<1> QED BY <1>1, <1>2, <1>3, <1>4, <1>5, <1>6, <1>7, <1>8, <1>9, <1>10, <1>11, <1>12, <1>13 DEF TriggerStep, FlusherStep, CloserStep

\* The worker's steps keep the types.
LEMMA WorkerStepType ==
  ASSUME IInv, WorkerStep
  PROVE  TypeOK'
<1> USE DEF IInv, TypeOK
<1>1. CASE WorkerReceive
  <2>1. ShardType' /\ ChanType' /\ FreezeType' /\ WriterType' /\ CallerType'
    BY <1>1, ShardFrame, ChanFrame, FreezeFrame, WriterFrame, CallerFrame
    DEF WorkerReceive, shardVars, chanVars, freezeVars, writerVars, callerVars, workerVars
  <2>2. BatchType'
    <3>1. queue \in Seq(Nat) /\ queue # <<>> /\ Len(batches) \in Nat
      BY <1>1 DEF WorkerReceive, BatchType
    <3>2. Len(queue) \in Nat /\ Len(queue) >= 1
      BY <3>1, EmptySeq
    <3>3. Head(queue) = queue[1] /\ Tail(queue) \in Seq(Nat)
      BY <3>1, HeadTailProperties
    <3>4. queue[1] \in 0 .. Len(batches)
      BY <3>1, <3>2 DEF QueueInv, FirstQueued
    <3> QED BY <1>1, <3>3, <3>4 DEF WorkerReceive, BatchType, callerVars
  <2>3. WorkerType'
    BY <1>1 DEF WorkerReceive, QueueInv, FirstQueued, shardVars, chanVars, freezeVars, writerVars, callerVars, workerVars, WorkerType
  <2> QED BY <2>1, <2>2, <2>3
<1>2. CASE WorkerExit
  <2>1. ShardType' /\ ChanType' /\ BatchType' /\ FreezeType' /\ WriterType' /\ CallerType'
    BY <1>2, ShardFrame, ChanFrame, BatchFrame, FreezeFrame, WriterFrame, CallerFrame
    DEF WorkerExit, shardVars, chanVars, freezeVars, writerVars, callerVars, workerVars
  <2>2. WorkerType'
    BY <1>2 DEF WorkerExit, shardVars, chanVars, freezeVars, writerVars, callerVars, workerVars, WorkerType
  <2> QED BY <2>1, <2>2
<1>3. CASE commitOK
  <2>1. ShardType' /\ ChanType' /\ BatchType' /\ FreezeType' /\ WriterType' /\ CallerType'
    BY <1>3, ShardFrame, ChanFrame, BatchFrame, FreezeFrame, WriterFrame, CallerFrame
    DEF commitOK, shardVars, chanVars, freezeVars, writerVars, callerVars, workerVars
  <2>2. WorkerType'
    <3>1. wb \in 1 .. Len(batches) /\ batches[wb] \in Batch
      BY <1>3 DEF commitOK, QueueInv, WorkerIdle, FirstQueued, BatchType
    <3>2. \A s \in Shard : batches[wb].shards[s] \in BufId
      BY <1>3, <3>1 DEF commitOK, QueueInv, WorkerHolds, WorkerHoldsAll, Batch
    <3>3. \A s \in Shard : Frozen(s) \in Seq(Nat)
      BY <3>2 DEF Frozen, ShardType
    <3> QED BY <1>3, <3>3 DEF commitOK, CommitLog, WorkerType
  <2> QED BY <2>1, <2>2
<1>4. CASE commitFail
  <2>1. ShardType' /\ ChanType' /\ FreezeType' /\ WriterType' /\ CallerType'
    BY <1>4, ShardFrame, ChanFrame, FreezeFrame, WriterFrame, CallerFrame
    DEF commitFail, shardVars, chanVars, freezeVars, writerVars, callerVars, workerVars
  <2>2. WorkerType'
    <3>1. wb \in 1 .. Len(batches) /\ batches[wb] \in Batch
      BY <1>4 DEF commitFail, QueueInv, WorkerIdle, FirstQueued, BatchType
    <3>2. \A s \in Shard : batches[wb].shards[s] \in BufId
      BY <1>4, <3>1 DEF commitFail, QueueInv, WorkerHolds, WorkerHoldsAll, Batch
    <3>3. \A s \in Shard : Frozen(s) \in Seq(Nat)
      BY <3>2 DEF Frozen, ShardType
    <3>4. log' \in [Shard -> Seq(Nat)]
      BY <1>4, <3>3 DEF commitFail, CommitLog, WorkerType
    <3>5. lost' \in [Shard -> SUBSET Nat]
      BY <1>4, <3>3 DEF commitFail, WorkerType
    <3> QED BY <1>4, <3>4, <3>5 DEF commitFail, WorkerType
  <2>3. BatchType'
    <3>1. wb \in 1 .. Len(batches) /\ batches[wb] \in Batch
      BY <1>4 DEF commitFail, QueueInv, WorkerIdle, FirstQueued, BatchType
    <3>2. [batches[wb] EXCEPT !.err = TRUE] \in Batch
      BY <1>4, <3>1 DEF Batch, QueueInv, commitFail
    <3>3. batches' \in Seq(Batch) /\ Len(batches') = Len(batches)
      BY <1>4, <3>1, <3>2 DEF commitFail, BatchType
    <3> QED BY <1>4, <3>3 DEF commitFail, BatchType, callerVars
  <2> QED BY <2>1, <2>2, <2>3
<1>5. CASE setError
  <2>1. ShardType' /\ BatchType' /\ FreezeType' /\ WriterType' /\ CallerType'
    BY <1>5, ShardFrame, BatchFrame, FreezeFrame, WriterFrame, CallerFrame
    DEF setError, shardVars, chanVars, freezeVars, writerVars, callerVars, workerVars
  <2>2. ChanType'
    BY <1>5 DEF setError, shardVars, chanVars, freezeVars, writerVars, callerVars, workerVars, ChanType
  <2>3. WorkerType'
    BY <1>5 DEF setError, shardVars, chanVars, freezeVars, writerVars, callerVars, workerVars, WorkerType
  <2> QED BY <2>1, <2>2, <2>3
<1>6. CASE WorkerNotify
  <2>1. ShardType' /\ ChanType' /\ BatchType' /\ FreezeType' /\ WriterType' /\ CallerType'
    BY <1>6, ShardFrame, ChanFrame, BatchFrame, FreezeFrame, WriterFrame, CallerFrame
    DEF WorkerNotify, shardVars, chanVars, freezeVars, writerVars, callerVars, workerVars
  <2>2. WorkerType'
    BY <1>6 DEF WorkerNotify, notifyNeeded, shardVars, chanVars, freezeVars, writerVars, callerVars, workerVars, WorkerType
  <2> QED BY <2>1, <2>2
<1>7. CASE WorkerBroadcast
  <2>1. ShardType' /\ ChanType' /\ BatchType' /\ FreezeType' /\ CallerType'
    BY <1>7, ShardFrame, ChanFrame, BatchFrame, FreezeFrame, CallerFrame
    DEF WorkerBroadcast, Broadcast, shardVars, chanVars, freezeVars, writerVars, callerVars, workerVars
  <2>2. WorkerType'
    BY <1>7 DEF WorkerBroadcast, Broadcast, shardVars, chanVars, freezeVars, writerVars, callerVars, workerVars, WorkerType
  <2>3. WriterType'
    BY <1>7 DEF WorkerBroadcast, Broadcast, shardVars, chanVars, freezeVars, writerVars, callerVars, workerVars, WriterType
  <2> QED BY <2>1, <2>2, <2>3
<1>8. CASE recycleBatch
  <2>1. ChanType' /\ FreezeType' /\ WriterType' /\ CallerType'
    BY <1>8, ChanFrame, FreezeFrame, WriterFrame, CallerFrame
    DEF recycleBatch, shardVars, chanVars, freezeVars, writerVars, callerVars, workerVars
  <2>2. ShardType'
    <3>1. wb \in 1 .. Len(batches) /\ batches[wb] \in Batch
      BY <1>8 DEF recycleBatch, QueueInv, WorkerIdle, FirstQueued, BatchType
    <3>2. kidx \in Shard /\ batches[wb].shards[kidx] \in BufId
      BY <1>8, <3>1 DEF recycleBatch, QueueInv, WorkerHolds, WorkerHoldsAll, Batch, Shard
    <3>3. buf' \in [Shard -> [BufId -> Seq(Nat)]]
      <4>1. <<>> \in Seq(Nat)
        OBVIOUS
      <4>2. [buf[kidx] EXCEPT ![batches[wb].shards[kidx]] = <<>>] \in [BufId -> Seq(Nat)]
        BY <3>2, <4>1 DEF ShardType
      <4> QED BY <1>8, <3>2, <4>2 DEF recycleBatch, resetPoints, ShardType
    <3>4. free' \in [Shard -> Seq(BufId)]
      <4>1. Append(free[kidx], batches[wb].shards[kidx]) \in Seq(BufId)
        BY <3>2 DEF ShardType
      <4> QED BY <1>8, <3>2, <4>1 DEF recycleBatch, returned, ShardType
    <3> QED BY <1>8, <3>3, <3>4 DEF recycleBatch, ShardType
  <2>3. BatchType'
    <3>1. wb \in 1 .. Len(batches) /\ batches[wb] \in Batch
      BY <1>8 DEF recycleBatch, QueueInv, WorkerIdle, FirstQueued, BatchType
    <3>2. [batches[wb] EXCEPT !.shards[kidx] = NoBuf] \in Batch
      BY <1>8, <3>1 DEF Batch, QueueInv, recycleBatch
    <3>3. batches' \in Seq(Batch) /\ Len(batches') = Len(batches)
      BY <1>8, <3>1, <3>2 DEF recycleBatch, BatchType
    <3> QED BY <1>8, <3>3 DEF recycleBatch, BatchType, callerVars
  <2>4. WorkerType'
    BY <1>8 DEF recycleBatch, resetPoints, returned, QueueInv, WorkerIdle, WorkerHolds, WorkerHoldsAll, Batch, BatchType, shardVars, chanVars, freezeVars, writerVars, callerVars, workerVars, WorkerType
  <2> QED BY <2>1, <2>2, <2>3, <2>4
<1>9. CASE WorkerDone
  <2>1. ShardType' /\ ChanType' /\ FreezeType' /\ WriterType' /\ CallerType'
    BY <1>9, ShardFrame, ChanFrame, FreezeFrame, WriterFrame, CallerFrame
    DEF WorkerDone, shardVars, chanVars, freezeVars, writerVars, callerVars, workerVars
  <2>2. BatchType'
    <3>1. wb \in 1 .. Len(batches) /\ batches[wb] \in Batch
      BY <1>9 DEF WorkerDone, QueueInv, WorkerIdle, FirstQueued, BatchType
    <3>2. [batches[wb] EXCEPT !.done = TRUE] \in Batch
      BY <1>9, <3>1 DEF Batch, QueueInv, WorkerDone
    <3>3. batches' \in Seq(Batch) /\ Len(batches') = Len(batches)
      BY <1>9, <3>1, <3>2 DEF WorkerDone, doneClosed, BatchType
    <3> QED BY <1>9, <3>3 DEF WorkerDone, BatchType, callerVars
  <2>3. WorkerType'
    BY <1>9 DEF WorkerDone, doneClosed, QueueInv, WorkerIdle, Batch, shardVars, chanVars, freezeVars, writerVars, callerVars, workerVars, WorkerType
  <2> QED BY <2>1, <2>2, <2>3
<1> QED BY <1>1, <1>2, <1>3, <1>4, <1>5, <1>6, <1>7, <1>8, <1>9 DEF WorkerStep
(***************************************************************************)
(* The writers' loop counter.                                              *)
(***************************************************************************)

\* A writer that is about to append has a point left.
LEMMA TodoStep ==
  ASSUME IInv, Next
  PROVE  TodoInv'
<1> USE DEF IInv, TypeOK, TodoInv, WriterType
<1>1. ASSUME NEW w \in Writers, WriterStep(w) PROVE TodoInv'
  <2>1. CASE AddStart(w)
    BY <2>1 DEF AddStart
  <2>2. ASSUME NEW s \in Shard, appendPoint(w, s) PROVE TodoInv'
    BY <2>2 DEF appendPoint
  <2>3. CASE maybeSignal(w)
    BY <2>3 DEF maybeSignal
  <2>4. CASE WaitLock(w) \/ CondWait(w) \/ WaitRelock(w)
    BY <2>4 DEF WaitLock, CondWait, WaitRelock
  <2>5. CASE WaitCheckError(w) \/ WaitCheckSpace(w)
    BY <2>5 DEF WaitCheckError, WaitCheckSpace, WaitReturn
  <2> QED BY <1>1, <2>1, <2>2, <2>3, <2>4, <2>5 DEF WriterStep
<1>2. CASE UNCHANGED <<wpc, todo>>
  BY <1>2
<1>3. CASE Broadcast
  BY <1>3 DEF Broadcast
<1>4. CASE FreezeStep
  BY <1>2, <1>3, <1>4 DEF FreezeStep, FreezeLoad, FreezeSwap, FreezeCount, FreezeNotify,
     FreezeBroadcast, FreezeSend, FreezeSendPanic, writerVars
<1>5. ASSUME NEW c \in Callers, FreezeLock(c) PROVE TodoInv'
  BY <1>2, <1>5 DEF FreezeLock, writerVars
<1>6. CASE TriggerStep
  BY <1>2, <1>6 DEF TriggerStep, TriggerSignal, TriggerTick, TriggerReturn, TriggerStop,
     writerVars
<1>7. ASSUME NEW f \in Flushers, FlusherStep(f) PROVE TodoInv'
  BY <1>2, <1>7 DEF FlusherStep, FlushStart, FlushReturn, writerVars
<1>8. ASSUME NEW c \in Closers, CloserStep(c) PROVE TodoInv'
  BY <1>2, <1>3, <1>8 DEF CloserStep, CloseStart, CloseNotify, CloseBroadcast, CloseStop,
     CloseTriggerDone, CloseQueue, CloseReturn, writerVars
<1>9. CASE WorkerStep
  BY <1>2, <1>3, <1>9 DEF WorkerStep, WorkerReceive, WorkerExit, commitOK, commitFail,
     setError, WorkerNotify, WorkerBroadcast, recycleBatch, WorkerDone, writerVars
<1>10. CASE Terminated
  BY <1>2, <1>10 DEF Terminated, vars, writerVars
<1> QED BY <1>1, <1>4, <1>5, <1>6, <1>7, <1>8, <1>9, <1>10 DEF Next

(***************************************************************************)
(* Accounting for the buffers of a shard.                                  *)
(***************************************************************************)

Owners == FreezeInv /\ QueueInv /\ CountInv

\* What the freeze and the worker hold of a shard decides the accounting.
LEMMA CountFrame ==
  ASSUME CountInv,
         UNCHANGED <<free, queue>>,
         \A s \in Shard : Collected(s)' <=> Collected(s),
         \A s \in Shard : WorkerHolds(s)' <=> WorkerHolds(s)
  PROVE  CountInv'
BY DEF CountInv, InFreeze, InWorker

\* QueueInv only depends on the batches, the queue and the worker.
LEMMA QueueFrame ==
  ASSUME QueueInv, UNCHANGED <<queue, batches, wb, kpc, kidx>>
  PROVE  QueueInv'
<1>1. \A s \in Shard : WorkerHolds(s)' <=> WorkerHolds(s)
  BY DEF WorkerHolds, WorkerHoldsAll
<1> QED BY <1>1 DEF QueueInv, WorkerIdle, WorkerHoldsAll, FirstQueued

\* What a step has to leave alone to keep every buffer's owner.
LEMMA OwnersFrame ==
  ASSUME Owners,
         UNCHANGED <<free, freezeMu, fz, fidx, fshards, queue, batches, wb, kpc, kidx>>
  PROVE  Owners'
<1>1. \A s \in Shard : Collected(s)' <=> Collected(s)
  BY DEF Collected, CollectedAll
<1>2. \A s \in Shard : WorkerHolds(s)' <=> WorkerHolds(s)
  BY DEF WorkerHolds, WorkerHoldsAll
<1>3. FreezeInv'
  BY <1>1 DEF Owners, FreezeInv
<1>4. QueueInv'
  BY QueueFrame DEF Owners
<1>5. CountInv'
  BY <1>1, <1>2, CountFrame DEF Owners
<1> QED BY <1>3, <1>4, <1>5 DEF Owners

\* A freeze that has not begun to swap, or has collected everything, moves on
\* without moving a buffer.
LEMMA OwnersFreezeControl ==
  ASSUME Owners,
         UNCHANGED <<free, fshards, queue, batches, wb, kpc, kidx>>,
         \A s \in Shard : Collected(s)' <=> Collected(s),
         fz' = "idle" <=> freezeMu' = None,
         fz' = "swap" => fidx' \in Shard
  PROVE  Owners'
<1>1. FreezeInv'
  BY DEF Owners, FreezeInv
<1>2. QueueInv'
  BY QueueFrame DEF Owners
<1>3. \A s \in Shard : WorkerHolds(s)' <=> WorkerHolds(s)
  BY DEF WorkerHolds, WorkerHoldsAll
<1>4. CountInv'
  BY <1>3, CountFrame DEF Owners
<1> QED BY <1>1, <1>2, <1>4 DEF Owners

\* A worker that has its whole batch moves on without moving a buffer; the batch's
\* shards stay what they are.
LEMMA OwnersWorkerControl ==
  ASSUME TypeOK, Owners,
         UNCHANGED <<free, freezeMu, fz, fidx, fshards, queue, wb, kidx>>,
         WorkerHoldsAll, WorkerHoldsAll' \/ kpc' = "recycle",
         Len(batches') = Len(batches),
         \A k \in 1 .. Len(batches) : batches'[k].shards = batches[k].shards
  PROVE  Owners'
<1>1. \A s \in Shard : Collected(s)' <=> Collected(s)
  BY DEF Collected, CollectedAll
<1>2. kidx = 1 /\ \A s \in Shard : s >= kidx
  BY DEF Owners, QueueInv, Shard
<1>3. \A s \in Shard : WorkerHolds(s)' <=> WorkerHolds(s)
  BY <1>2 DEF WorkerHolds, WorkerHoldsAll
<1>4. FreezeInv'
  BY <1>1 DEF Owners, FreezeInv
<1>5. CountInv'
  BY <1>1, <1>3, CountFrame DEF Owners
<1>6. ~WorkerIdle /\ ~WorkerIdle'
  BY DEF WorkerIdle, WorkerHoldsAll
<1>7. 1 \in Shard
  BY DEF Shard
<1>8. QueueInv'
  BY <1>2, <1>3, <1>6, <1>7 DEF Owners, QueueInv, FirstQueued
<1> QED BY <1>4, <1>5, <1>8 DEF Owners

\* freezeAndEnqueue's swap of one shard.
LEMMA OwnersSwap ==
  ASSUME TypeOK, Owners, FreezeSwap
  PROVE  Owners'
<1>0. PICK f \in Shard : f = fidx
  BY DEF FreezeSwap, Owners, FreezeInv
<1>1. fz = "swap" /\ f \in Nat /\ NumShards \in Nat
  BY DEF FreezeSwap, Shard
<1>2. free[f] \in Seq(BufId) /\ active[f] \in BufId /\ Len(free[f]) \in Nat
  BY <1>1 DEF TypeOK, ShardType
<1>3. Len(free[f]) >= 1
  <2>1. free[f] # <<>>
    BY <1>0 DEF FreezeSwap
  <2> QED BY <1>2, <2>1, EmptySeq
<1>4. /\ free' = [free EXCEPT ![f] = SubSeq(free[f], 1, Len(free[f]) - 1)]
      /\ fshards' = [fshards EXCEPT ![f] = active[f]]
      /\ fidx' = f + 1
      /\ fz' = IF f = NumShards THEN "count" ELSE "swap"
      /\ UNCHANGED <<freezeMu, queue, batches, wb, kpc, kidx>>
  BY <1>0 DEF FreezeSwap, popFree, chanVars, workerVars
<1>5. \A s \in Shard : Collected(s)' <=> (Collected(s) \/ s = f)
  <2>1. CASE f = NumShards
    <3>1. CollectedAll'
      BY <1>4, <2>1 DEF CollectedAll
    <3>2. \A s \in Shard : s < f \/ s = f
      BY <2>1 DEF Shard
    <3> QED BY <1>0, <1>1, <3>1, <3>2 DEF Collected
  <2>2. CASE f # NumShards
    <3>1. ~CollectedAll' /\ ~CollectedAll /\ fz' = "swap"
      BY <1>1, <1>4, <2>2 DEF CollectedAll
    <3>2. \A s \in Shard : s < f + 1 <=> (s < f \/ s = f)
      BY <1>1 DEF Shard
    <3> QED BY <1>0, <1>1, <1>4, <3>1, <3>2 DEF Collected
  <2> QED BY <2>1, <2>2
<1>6. ~Collected(f)
  BY <1>0, <1>1 DEF Collected, CollectedAll
<1>7. FreezeInv'
  <2>1. fz' = "swap" => fidx' \in Shard
    BY <1>1, <1>4 DEF Shard
  <2>2. \A s \in Shard : fshards'[s] = IF s = f THEN active[f] ELSE fshards[s]
    BY <1>1, <1>4 DEF TypeOK, FreezeType
  <2>3. active[f] # NoBuf
    BY <1>2 DEF BufId, buffersPerShard, ingestBufferHeadroom
  <2>4. \A s \in Shard : fshards'[s] # NoBuf <=> Collected(s)'
    BY <1>5, <2>2, <2>3 DEF Owners, FreezeInv
  <2>5. fz' = "idle" <=> freezeMu' = None
    BY <1>1, <1>4 DEF Owners, FreezeInv
  <2> QED BY <2>1, <2>4, <2>5 DEF FreezeInv
<1>8. QueueInv'
  BY <1>4, QueueFrame DEF Owners
<1>9. CountInv'
  <2>1. \A s \in Shard : InWorker(s)' = InWorker(s) /\ InWorker(s) \in Nat
    BY <1>4 DEF InWorker, WorkerHolds, WorkerHoldsAll
  <2>2. /\ \A s \in Shard : s # f => InFreeze(s)' = InFreeze(s) /\ InFreeze(s) \in Nat
        /\ InFreeze(f)' = 1 /\ InFreeze(f) = 0
    BY <1>1, <1>5, <1>6 DEF InFreeze
  <2>3. (\A s \in Shard : Len(free[s]) \in Nat) /\ Len(queue) \in Nat /\ queue' = queue
    BY <1>4 DEF TypeOK, ShardType, BatchType
  <2>4. \A s \in Shard : s # f => free'[s] = free[s]
    BY <1>1, <1>4 DEF TypeOK, ShardType
  <2>5. Len(free'[f]) = Len(free[f]) - 1
    <3>1. free'[f] = SubSeq(free[f], 1, Len(free[f]) - 1)
      BY <1>1, <1>4 DEF TypeOK, ShardType
    <3> QED BY <1>2, <1>3, <3>1
  <2>6. Len(free[f]) + 1 + Len(queue) + 0 + InWorker(f) = buffersPerShard
    BY <1>1, <2>2 DEF Owners, CountInv
  <2>7. Len(free'[f]) + 1 + Len(queue') + InFreeze(f)' + InWorker(f)' = buffersPerShard
    BY <1>1, <1>2, <2>1, <2>2, <2>3, <2>5, <2>6
  <2>8. ASSUME NEW s \in Shard, s # f
        PROVE  Len(free'[s]) + 1 + Len(queue') + InFreeze(s)' + InWorker(s)' = buffersPerShard
    BY <2>1, <2>2, <2>3, <2>4, <2>8 DEF Owners, CountInv
  <2> QED BY <2>7, <2>8 DEF CountInv
<1> QED BY <1>7, <1>8, <1>9 DEF Owners

\* freezeAndEnqueue's count: an empty batch goes back to the free lists, any
\* other is kept for the send.
LEMMA OwnersFreezeCount ==
  ASSUME TypeOK, Owners, FreezeCount
  PROVE  Owners'
<1>1. CollectedAll /\ \A s \in Shard : Collected(s)
  BY DEF FreezeCount, Collected, CollectedAll
<1>2. CASE fcount # 0
  <2>1. fz' = "notify" /\ UNCHANGED <<free, freezeMu, fshards, queue, batches, wb, kpc, kidx>>
    BY <1>2 DEF FreezeCount, chanVars, workerVars
  <2>2. \A s \in Shard : Collected(s)'
    BY <2>1 DEF Collected, CollectedAll
  <2>3. freezeMu' # None
    BY <2>1 DEF FreezeCount, Owners, FreezeInv
  <2> QED BY <1>1, <2>1, <2>2, <2>3, OwnersFreezeControl
<1>3. CASE fcount = 0
  <2>1. /\ free' = [s \in Shard |-> Append(free[s], fshards[s])]
        /\ fshards' = [s \in Shard |-> NoBuf]
        /\ fz' = "idle" /\ freezeMu' = None
        /\ UNCHANGED <<queue, batches, wb, kpc, kidx>>
    BY <1>3 DEF FreezeCount, FreezeReturn, chanVars, workerVars
  <2>2. \A s \in Shard : ~Collected(s)'
    BY <2>1 DEF Collected, CollectedAll
  <2>3. FreezeInv'
    BY <2>1, <2>2 DEF FreezeInv
  <2>4. QueueInv'
    BY <2>1, QueueFrame DEF Owners
  <2>5. \A s \in Shard : /\ InWorker(s)' = InWorker(s) /\ InWorker(s) \in Nat
                         /\ InFreeze(s)' = 0 /\ InFreeze(s) = 1
    BY <1>1, <2>1, <2>2 DEF InFreeze, InWorker, WorkerHolds, WorkerHoldsAll
  <2>6. \A s \in Shard : Len(free[s]) \in Nat /\ Len(free'[s]) = Len(free[s]) + 1
    <3> SUFFICES ASSUME NEW s \in Shard
                 PROVE  Len(free[s]) \in Nat /\ Len(free'[s]) = Len(free[s]) + 1
      OBVIOUS
    <3>1. free[s] \in Seq(BufId)
      BY DEF TypeOK, ShardType
    <3>2. fshards[s] \in BufId
      BY <1>1 DEF TypeOK, FreezeType, Owners, FreezeInv
    <3> QED BY <2>1, <3>1, <3>2
  <2>7. CountInv'
    <3>1. Len(queue) \in Nat /\ queue' = queue
      BY <2>1 DEF TypeOK, BatchType
    <3> QED BY <2>5, <2>6, <3>1 DEF Owners, CountInv
  <2> QED BY <2>3, <2>4, <2>7 DEF Owners
<1> QED BY <1>2, <1>3

\* The send hands the collected buffers from the freeze to the queue.
LEMMA OwnersSend ==
  ASSUME TypeOK, Owners, FreezeSend
  PROVE  Owners'
<1> DEFINE new == [shards |-> fshards, done |-> FALSE, err |-> FALSE]
<1>1. /\ fz = "send" /\ Len(queue) < QueueSize
      /\ batches' = Append(batches, new)
      /\ queue' = Append(queue, Len(batches) + 1)
      /\ fshards' = [s \in Shard |-> NoBuf]
      /\ fz' = "idle" /\ freezeMu' = None
      /\ UNCHANGED <<free, wb, kpc, kidx>>
  BY DEF FreezeSend, FreezeReturn, shardVars, workerVars
<1>2. \A s \in Shard : Collected(s) /\ ~Collected(s)'
  BY <1>1 DEF Collected, CollectedAll
<1>3. \A s \in Shard : WorkerHolds(s)' <=> WorkerHolds(s)
  BY <1>1 DEF WorkerHolds, WorkerHoldsAll
<1>4. /\ batches \in Seq(Batch) /\ queue \in Seq(Nat)
      /\ Len(batches) \in Nat /\ Len(queue) \in Nat
      /\ wb \in 0 .. Len(batches)
  BY DEF TypeOK, BatchType
<1>5. /\ Len(queue') = Len(queue) + 1 /\ queue'[Len(queue) + 1] = Len(batches) + 1
      /\ \A i \in 1 .. Len(queue) : queue'[i] = queue[i]
  BY <1>1, <1>4
<1>6. new \in Batch
  BY DEF TypeOK, FreezeType, Batch
<1>7. /\ Len(batches') = Len(batches) + 1 /\ batches'[Len(batches) + 1] = new
      /\ \A k \in 1 .. Len(batches) : batches'[k] = batches[k]
  <2> HIDE DEF new
  <2> QED BY <1>1, <1>4, <1>6
<1>8. FirstQueued' = FirstQueued /\ FirstQueued \in Int /\ FirstQueued <= Len(batches) + 1
  BY <1>4, <1>5, <1>7 DEF FirstQueued
<1>9. FreezeInv'
  BY <1>1, <1>2 DEF FreezeInv
<1>10. CountInv'
  <2>1. \A s \in Shard : Len(free[s]) \in Nat
    BY DEF TypeOK, ShardType
  <2>2. \A s \in Shard : /\ InWorker(s)' = InWorker(s) /\ InWorker(s) \in Nat
                         /\ InFreeze(s)' = 0 /\ InFreeze(s) = 1
    BY <1>2, <1>3 DEF InFreeze, InWorker
  <2> SUFFICES ASSUME NEW s \in Shard
               PROVE  Len(free'[s]) + 1 + Len(queue') + InFreeze(s)' + InWorker(s)'
                        = buffersPerShard
    BY DEF CountInv
  <2>3. Len(free[s]) + 1 + Len(queue) + 1 + InWorker(s) = buffersPerShard
    BY <2>2 DEF Owners, CountInv
  <2>4. free' = free /\ Len(queue') = Len(queue) + 1
    BY <1>1, <1>5
  <2>5. InFreeze(s)' = 0 /\ InWorker(s)' = InWorker(s) /\ InWorker(s) \in Nat
    BY <2>2
  <2>6. Len(free'[s]) = Len(free[s]) /\ Len(free[s]) \in Nat
    BY <2>1, <2>4
  <2>7. Len(free[s]) + 1 + (Len(queue) + 1) + 0 + InWorker(s) = buffersPerShard
    <3>1. Len(queue) \in Nat
      BY <1>4
    <3>2. PICK a \in Nat, q \in Nat, w \in Nat : a = Len(free[s]) /\ q = Len(queue) /\ w = InWorker(s)
      BY <2>5, <2>6, <3>1
    <3>3. a + 1 + q + 1 + w = buffersPerShard
      BY <2>3, <3>2
    <3>4. a + 1 + (q + 1) + 0 + w = a + 1 + q + 1 + w
      OBVIOUS
    <3>5. a + 1 + (q + 1) + 0 + w = buffersPerShard
      BY <3>3, <3>4
    <3> QED BY <3>2, <3>5
  <2> QED BY <2>4, <2>5, <2>6, <2>7
<1>11. QueueInv'
  <2>1. Len(queue') <= QueueSize /\ Len(queue') <= Len(batches')
    BY <1>1, <1>4, <1>5, <1>7 DEF Owners, QueueInv
  <2>2. \A i \in 1 .. Len(queue') : queue'[i] = FirstQueued' + i - 1
    <3> SUFFICES ASSUME NEW i \in 1 .. Len(queue')
                 PROVE  queue'[i] = FirstQueued' + i - 1
      OBVIOUS
    <3>1. CASE i = Len(queue) + 1
      BY <1>4, <1>5, <1>8, <3>1 DEF FirstQueued
    <3>2. CASE i # Len(queue) + 1
      <4>1. i \in 1 .. Len(queue)
        BY <1>4, <1>5, <3>2
      <4> QED BY <1>5, <1>8, <4>1 DEF Owners, QueueInv
    <3> QED BY <3>1, <3>2
  <2>3. /\ WorkerIdle' => wb' = 0
        /\ ~WorkerIdle' => wb' = FirstQueued' - 1 /\ wb' >= 1
        /\ WorkerIdle' \/ WorkerHoldsAll' => kidx' = 1
        /\ kpc' = "recycle" => kidx' \in Shard
    BY <1>1, <1>8 DEF Owners, QueueInv, WorkerIdle, WorkerHoldsAll
  <2>4. ASSUME NEW k \in 1 .. Len(batches'), NEW s \in Shard
        PROVE  batches'[k].shards[s] # NoBuf
                 <=> (k >= FirstQueued' \/ (k = wb' /\ WorkerHolds(s)'))
    <3>1. CASE k = Len(batches) + 1
      <4>1. batches'[k].shards[s] = fshards[s]
        BY <1>7, <3>1
      <4>2. fshards[s] # NoBuf
        BY <1>2 DEF Owners, FreezeInv
      <4> QED BY <1>8, <3>1, <4>1, <4>2
    <3>2. CASE k # Len(batches) + 1
      <4>1. k \in 1 .. Len(batches)
        BY <1>4, <1>7, <3>2
      <4> QED BY <1>1, <1>3, <1>7, <1>8, <4>1 DEF Owners, QueueInv
    <3> QED BY <3>1, <3>2
  <2> QED BY <2>1, <2>2, <2>3, <2>4 DEF QueueInv
<1> QED BY <1>9, <1>10, <1>11 DEF Owners

\* The worker takes the oldest batch from the queue.
LEMMA OwnersReceive ==
  ASSUME TypeOK, Owners, WorkerReceive
  PROVE  Owners'
<1>1. /\ kpc = "recv" /\ kpc' = "commit" /\ queue # <<>>
      /\ wb' = Head(queue) /\ queue' = Tail(queue)
      /\ UNCHANGED <<free, batches, freezeMu, fz, fidx, fshards, kidx>>
  BY DEF WorkerReceive, shardVars, freezeVars
<1>2. /\ queue \in Seq(Nat) /\ batches \in Seq(Batch)
      /\ Len(batches) \in Nat /\ Len(queue) \in Nat /\ kidx \in Nat
  BY DEF TypeOK, BatchType, WorkerType
<1>3. Len(queue) >= 1
  BY <1>1, <1>2, EmptySeq
<1>4. /\ Head(queue) = queue[1] /\ Len(queue') = Len(queue) - 1
      /\ \A i \in 1 .. Len(queue') : queue'[i] = queue[i + 1]
  BY <1>1, <1>2, HeadTailProperties
<1>5. FirstQueued' = FirstQueued + 1 /\ FirstQueued \in Nat /\ FirstQueued >= 1
  BY <1>1, <1>2, <1>3, <1>4 DEF FirstQueued, Owners, QueueInv
<1>6. wb' = FirstQueued
  BY <1>1, <1>2, <1>3, <1>4, <1>5 DEF Owners, QueueInv
<1>7. \A s \in Shard : Collected(s)' <=> Collected(s)
  BY <1>1 DEF Collected, CollectedAll
<1>8. FreezeInv'
  BY <1>1, <1>7 DEF Owners, FreezeInv
<1>9. \A s \in Shard : ~WorkerHolds(s) /\ WorkerHolds(s)'
  BY <1>1 DEF WorkerHolds, WorkerHoldsAll
<1>10. CountInv'
  <2>1. \A s \in Shard : Len(free[s]) \in Nat
    BY DEF TypeOK, ShardType
  <2>2. \A s \in Shard : /\ InFreeze(s)' = InFreeze(s) /\ InFreeze(s) \in Nat
                         /\ InWorker(s)' = 1 /\ InWorker(s) = 0
    BY <1>7, <1>9 DEF InFreeze, InWorker
  <2> QED BY <1>1, <1>2, <1>4, <2>1, <2>2 DEF Owners, CountInv
<1>11. QueueInv'
  <2>1. Len(queue') <= QueueSize /\ Len(queue') <= Len(batches')
    BY <1>1, <1>2, <1>4 DEF Owners, QueueInv
  <2>2. \A i \in 1 .. Len(queue') : queue'[i] = FirstQueued' + i - 1
    <3> SUFFICES ASSUME NEW i \in 1 .. Len(queue')
                 PROVE  queue'[i] = FirstQueued' + i - 1
      OBVIOUS
    <3>1. i + 1 \in 1 .. Len(queue) /\ queue'[i] = queue[i + 1]
      BY <1>2, <1>4
    <3>2. queue[i + 1] = FirstQueued + (i + 1) - 1
      BY <3>1 DEF Owners, QueueInv
    <3> QED BY <1>5, <3>1, <3>2
  <2>3. ~WorkerIdle' /\ kpc' # "recycle" /\ WorkerIdle
    BY <1>1 DEF WorkerIdle
  <2>4. kidx' = 1
    BY <1>1, <2>3 DEF Owners, QueueInv
  <2>5. ASSUME NEW k \in 1 .. Len(batches'), NEW s \in Shard
        PROVE  batches'[k].shards[s] # NoBuf
                 <=> (k >= FirstQueued' \/ (k = wb' /\ WorkerHolds(s)'))
    <3>1. k \in 1 .. Len(batches) /\ k \in Nat
      BY <1>1, <1>2
    <3>2. batches[k].shards[s] # NoBuf <=> k >= FirstQueued
      BY <1>9, <3>1 DEF Owners, QueueInv
    <3> QED BY <1>1, <1>5, <1>6, <1>9, <3>1, <3>2
  <2> QED BY <1>5, <1>6, <2>1, <2>2, <2>3, <2>4, <2>5 DEF QueueInv
<1> QED BY <1>8, <1>10, <1>11 DEF Owners

\* The worker exits: it holds nothing before or after.
LEMMA OwnersExit ==
  ASSUME TypeOK, Owners, WorkerExit
  PROVE  Owners'
<1>1. /\ kpc = "recv" /\ kpc' = "exit"
      /\ UNCHANGED <<free, queue, batches, freezeMu, fz, fidx, fshards, wb, kidx>>
  BY DEF WorkerExit, shardVars, chanVars, freezeVars
<1>2. \A s \in Shard : Collected(s)' <=> Collected(s)
  BY <1>1 DEF Collected, CollectedAll
<1>3. \A s \in Shard : WorkerHolds(s)' <=> WorkerHolds(s)
  BY <1>1 DEF WorkerHolds, WorkerHoldsAll
<1>4. FreezeInv'
  BY <1>1, <1>2 DEF Owners, FreezeInv
<1>5. CountInv'
  BY <1>1, <1>2, <1>3, CountFrame DEF Owners
<1>6. WorkerIdle /\ WorkerIdle' /\ ~WorkerHoldsAll' /\ kpc' # "recycle"
  BY <1>1 DEF WorkerIdle, WorkerHoldsAll
<1>7. FirstQueued' = FirstQueued
  BY <1>1 DEF FirstQueued
<1>8. QueueInv'
  BY <1>1, <1>3, <1>6, <1>7 DEF Owners, QueueInv
<1> QED BY <1>4, <1>5, <1>8 DEF Owners

\* recycleBatch gives one buffer of the worker's batch back to its shard.
LEMMA OwnersRecycle ==
  ASSUME TypeOK, Owners, recycleBatch
  PROVE  Owners'
<1>1. PICK k0 \in Nat : k0 = kidx
  BY DEF TypeOK, WorkerType
<1>2. PICK w0 \in Nat : w0 = wb
  BY DEF TypeOK, BatchType
<1>3. /\ kpc = "recycle" /\ k0 \in Shard /\ k0 <= NumShards
      /\ w0 = FirstQueued - 1 /\ w0 >= 1
  BY <1>1, <1>2 DEF recycleBatch, Owners, QueueInv, WorkerIdle, Shard
<1>4. /\ free' = [free EXCEPT ![k0] = Append(free[k0], batches[w0].shards[k0])]
      /\ batches' = [batches EXCEPT ![w0].shards[k0] = NoBuf]
      /\ kidx' = k0 + 1
      /\ kpc' = IF k0 = NumShards THEN "done" ELSE "recycle"
      /\ UNCHANGED <<queue, freezeMu, fz, fidx, fshards, wb>>
  BY <1>1, <1>2 DEF recycleBatch, returned, freezeVars
<1>5. /\ batches \in Seq(Batch) /\ queue \in Seq(Nat)
      /\ Len(batches) \in Nat /\ Len(queue) \in Nat
  BY DEF TypeOK, BatchType
<1>6. w0 \in 1 .. Len(batches)
  BY <1>2, <1>3, <1>5 DEF FirstQueued, Owners, QueueInv
<1>7. /\ Len(batches') = Len(batches)
      /\ \A k \in 1 .. Len(batches) : k # w0 => batches'[k] = batches[k]
      /\ batches'[w0] = [batches[w0] EXCEPT !.shards[k0] = NoBuf]
  <2> DEFINE nb == [batches[w0] EXCEPT !.shards[k0] = NoBuf]
  <2>1. batches[w0] \in Batch
    BY <1>5, <1>6
  <2>2. nb \in Batch
    BY <1>3, <2>1 DEF Batch
  <2>3. batches' = [batches EXCEPT ![w0] = nb]
    BY <1>4
  <2> HIDE DEF nb
  <2>4. /\ Len(batches') = Len(batches)
        /\ \A k \in 1 .. Len(batches) : batches'[k] = IF k = w0 THEN nb ELSE batches[k]
    BY <1>5, <1>6, <2>2, <2>3, ExceptSeq
  <2> QED BY <1>6, <2>4 DEF nb
<1>8. batches[w0] \in Batch
  BY <1>5, <1>6
<1>9. \A s \in Shard : batches'[w0].shards[s] = IF s = k0 THEN NoBuf ELSE batches[w0].shards[s]
  BY <1>7, <1>8 DEF Batch
<1>10. \A s \in Shard : WorkerHolds(s) <=> s >= k0
  BY <1>1, <1>3 DEF WorkerHolds, WorkerHoldsAll
<1>11. \A s \in Shard : WorkerHolds(s)' <=> s >= k0 /\ s # k0
  <2>1. CASE k0 = NumShards
    <3>1. \A s \in Shard : ~WorkerHolds(s)'
      BY <1>4, <2>1 DEF WorkerHolds, WorkerHoldsAll
    <3>2. \A s \in Shard : ~(s >= k0 /\ s # k0)
      BY <2>1 DEF Shard
    <3> QED BY <3>1, <3>2
  <2>2. CASE k0 # NumShards
    <3>1. \A s \in Shard : WorkerHolds(s)' <=> s >= k0 + 1
      BY <1>4, <2>2 DEF WorkerHolds, WorkerHoldsAll
    <3> QED BY <3>1 DEF Shard
  <2> QED BY <2>1, <2>2
<1>12. \A s \in Shard : Collected(s)' <=> Collected(s)
  BY <1>4 DEF Collected, CollectedAll
<1>13. FreezeInv'
  BY <1>4, <1>12 DEF Owners, FreezeInv
<1>14. k0 >= k0 /\ batches[w0].shards[k0] \in BufId
  <2>1. batches[w0].shards[k0] \in BufId \cup {NoBuf}
    BY <1>3, <1>8 DEF Batch
  <2>2. batches[w0].shards[k0] # NoBuf
    BY <1>2, <1>3, <1>6, <1>10 DEF Owners, QueueInv
  <2> QED BY <2>1, <2>2
<1>15. CountInv'
  <2>1. \A s \in Shard : Len(free[s]) \in Nat /\ free[s] \in Seq(BufId)
    BY DEF TypeOK, ShardType
  <2>2. /\ \A s \in Shard : s # k0 => free'[s] = free[s]
        /\ free'[k0] = Append(free[k0], batches[w0].shards[k0])
    BY <1>3, <1>4 DEF TypeOK, ShardType
  <2>3. Len(free'[k0]) = Len(free[k0]) + 1
    BY <1>3, <1>14, <2>1, <2>2
  <2>4. \A s \in Shard : InFreeze(s)' = InFreeze(s) /\ InFreeze(s) \in Nat
    BY <1>12 DEF InFreeze
  <2>5. /\ \A s \in Shard : s # k0 => InWorker(s)' = InWorker(s) /\ InWorker(s) \in Nat
        /\ InWorker(k0)' = 0 /\ InWorker(k0) = 1
    BY <1>3, <1>10, <1>11, <1>14 DEF InWorker
  <2>6. Len(free[k0]) + 1 + Len(queue) + InFreeze(k0) + 1 = buffersPerShard
    BY <1>3, <2>5 DEF Owners, CountInv
  <2>7. Len(free'[k0]) + 1 + Len(queue') + InFreeze(k0)' + InWorker(k0)' = buffersPerShard
    BY <1>3, <1>4, <1>5, <2>1, <2>3, <2>4, <2>5, <2>6
  <2>8. ASSUME NEW s \in Shard, s # k0
        PROVE  Len(free'[s]) + 1 + Len(queue') + InFreeze(s)' + InWorker(s)' = buffersPerShard
    BY <1>4, <2>2, <2>4, <2>5, <2>8 DEF Owners, CountInv
  <2> QED BY <2>7, <2>8 DEF CountInv
<1>16. FirstQueued' = FirstQueued
  BY <1>4, <1>7 DEF FirstQueued
<1>17. QueueInv'
  <2>1. ~WorkerIdle /\ ~WorkerIdle' /\ ~WorkerHoldsAll'
    BY <1>3, <1>4 DEF WorkerIdle, WorkerHoldsAll
  <2>2. kpc' = "recycle" => kidx' \in Shard
    BY <1>3, <1>4 DEF Shard
  <2>3. ASSUME NEW k \in 1 .. Len(batches'), NEW s \in Shard
        PROVE  batches'[k].shards[s] # NoBuf
                 <=> (k >= FirstQueued' \/ (k = wb' /\ WorkerHolds(s)'))
    <3>0. /\ k \in 1 .. Len(batches) /\ wb' = w0
          /\ batches[k].shards[s] # NoBuf <=> (k >= FirstQueued \/ (k = w0 /\ s >= k0))
      BY <1>2, <1>4, <1>7, <1>10 DEF Owners, QueueInv
    <3>1. CASE k = w0
      <4>1. ~(k >= FirstQueued)
        BY <1>3, <1>5, <3>1 DEF FirstQueued
      <4> QED BY <1>9, <1>11, <1>16, <3>0, <3>1, <4>1
    <3>2. CASE k # w0
      BY <1>7, <1>16, <3>0, <3>2
    <3> QED BY <3>1, <3>2
  <2>4. /\ Len(queue') <= QueueSize /\ Len(queue') <= Len(batches')
        /\ \A i \in 1 .. Len(queue') : queue'[i] = FirstQueued' + i - 1
        /\ wb' = FirstQueued' - 1 /\ wb' >= 1
    BY <1>4, <1>7, <1>16, <2>1 DEF Owners, QueueInv
  <2> QED BY <2>1, <2>2, <2>3, <2>4 DEF QueueInv
<1> QED BY <1>13, <1>15, <1>17 DEF Owners

\* Closing done ends the worker's hold on its batch, which is empty by then.
LEMMA OwnersDone ==
  ASSUME TypeOK, Owners, WorkerDone
  PROVE  Owners'
<1>1. PICK w0 \in Nat : w0 = wb
  BY DEF TypeOK, BatchType
<1>2. /\ kpc = "done" /\ kpc' = "recv" /\ wb' = 0 /\ kidx' = 1
      /\ batches' = [batches EXCEPT ![w0].done = TRUE]
      /\ UNCHANGED <<free, queue, freezeMu, fz, fidx, fshards>>
  BY <1>1 DEF WorkerDone, doneClosed, shardVars, freezeVars
<1>3. batches \in Seq(Batch) /\ Len(batches) \in Nat /\ Len(queue) \in Nat
  BY DEF TypeOK, BatchType
<1>4. w0 \in 1 .. Len(batches)
  BY <1>1, <1>2, <1>3 DEF FirstQueued, Owners, QueueInv, WorkerIdle
<1>5. /\ Len(batches') = Len(batches)
      /\ \A k \in 1 .. Len(batches) : k # w0 => batches'[k] = batches[k]
      /\ batches'[w0] = [batches[w0] EXCEPT !.done = TRUE]
  <2> DEFINE nb == [batches[w0] EXCEPT !.done = TRUE]
  <2>1. batches[w0] \in Batch
    BY <1>3, <1>4
  <2>2. nb \in Batch
    BY <2>1 DEF Batch
  <2>3. batches' = [batches EXCEPT ![w0] = nb]
    BY <1>2
  <2> HIDE DEF nb
  <2>4. /\ Len(batches') = Len(batches)
        /\ \A k \in 1 .. Len(batches) : batches'[k] = IF k = w0 THEN nb ELSE batches[k]
    BY <1>3, <1>4, <2>2, <2>3, ExceptSeq
  <2> QED BY <1>4, <2>4 DEF nb
<1>6. \A k \in 1 .. Len(batches) : batches'[k].shards = batches[k].shards
  <2>1. batches'[w0].shards = batches[w0].shards
    BY <1>3, <1>4, <1>5 DEF Batch
  <2> QED BY <1>5, <2>1
<1>7. \A s \in Shard : ~WorkerHolds(s) /\ ~WorkerHolds(s)'
  BY <1>2 DEF WorkerHolds, WorkerHoldsAll
<1>8. \A s \in Shard : Collected(s)' <=> Collected(s)
  BY <1>2 DEF Collected, CollectedAll
<1>9. FreezeInv'
  BY <1>2, <1>8 DEF Owners, FreezeInv
<1>10. CountInv'
  BY <1>2, <1>7, <1>8, CountFrame DEF Owners
<1>11. WorkerIdle' /\ ~WorkerHoldsAll' /\ kpc' # "recycle" /\ FirstQueued' = FirstQueued
  BY <1>2, <1>5 DEF WorkerIdle, WorkerHoldsAll, FirstQueued
<1>12. QueueInv'
  BY <1>2, <1>5, <1>6, <1>7, <1>11 DEF Owners, QueueInv
<1> QED BY <1>9, <1>10, <1>12 DEF Owners

\* A step of any process keeps the accounting.
LEMMA OwnersStep ==
  ASSUME IInv, Next
  PROVE  Owners'
<1>0. TypeOK /\ Owners
  BY DEF IInv, Owners
<1>1. CASE UNCHANGED <<free, freezeMu, fz, fidx, fshards, queue, batches, wb, kpc, kidx>>
  BY <1>0, <1>1, OwnersFrame
<1>2. ASSUME NEW w \in Writers, WriterStep(w) PROVE Owners'
  BY <1>1, <1>2 DEF WriterStep, AddStart, appendPoint, maybeSignal, WaitLock,
     WaitCheckError, WaitCheckSpace, CondWait, WaitRelock, shardVars, chanVars, freezeVars,
     workerVars
<1>3. ASSUME NEW c \in Callers, FreezeLock(c) PROVE Owners'
  <2>1. /\ freezeMu = None /\ freezeMu' = c /\ fz' = "load"
        /\ UNCHANGED <<free, fshards, queue, batches, wb, kpc, kidx>>
    BY <1>3 DEF FreezeLock, shardVars, chanVars, workerVars
  <2>2. fz = "idle"
    BY <1>0, <2>1 DEF Owners, FreezeInv
  <2>3. \A s \in Shard : Collected(s)' <=> Collected(s)
    BY <2>1, <2>2 DEF Collected, CollectedAll
  <2>4. freezeMu' # None
    BY <2>1
  <2> QED BY <1>0, <2>1, <2>3, <2>4, OwnersFreezeControl
<1>4. CASE FreezeLoad
  <2>1. /\ fz = "load" /\ UNCHANGED <<free, fshards, queue, batches, wb, kpc, kidx>>
    BY <1>4 DEF FreezeLoad, shardVars, chanVars, workerVars
  <2>2. \/ fz' = "idle" /\ freezeMu' = None
        \/ fz' = "swap" /\ fidx' = 1 /\ freezeMu' = freezeMu
    BY <1>4 DEF FreezeLoad, FreezeReturn
  <2>3. \A s \in Shard : Collected(s)' <=> Collected(s)
    BY <2>1, <2>2 DEF Collected, CollectedAll, Shard
  <2>4. freezeMu # None /\ 1 \in Shard
    BY <1>0, <2>1 DEF Owners, FreezeInv, Shard
  <2>5. (fz' = "idle" <=> freezeMu' = None) /\ (fz' = "swap" => fidx' \in Shard)
    BY <2>2, <2>4
  <2> QED BY <1>0, <2>1, <2>3, <2>5, OwnersFreezeControl
<1>5. CASE FreezeNotify \/ FreezeBroadcast
  <2>1. /\ fz \in {"notify", "bcast"} /\ fz' \in {"bcast", "send"}
        /\ UNCHANGED <<free, freezeMu, fshards, queue, batches, wb, kpc, kidx>>
    BY <1>5 DEF FreezeNotify, FreezeBroadcast, shardVars, chanVars, workerVars
  <2>2. \A s \in Shard : Collected(s)' <=> Collected(s)
    BY <2>1 DEF Collected, CollectedAll
  <2>3. freezeMu' # None
    BY <1>0, <2>1 DEF Owners, FreezeInv
  <2> QED BY <1>0, <2>1, <2>2, <2>3, OwnersFreezeControl
<1>6. CASE FreezeSendPanic
  BY <1>1, <1>6 DEF FreezeSendPanic, shardVars, chanVars, freezeVars, workerVars
<1>7. CASE FreezeStep
  BY <1>0, <1>4, <1>5, <1>6, <1>7, OwnersSwap, OwnersFreezeCount, OwnersSend DEF FreezeStep
<1>8. CASE TriggerStep
  BY <1>1, <1>8 DEF TriggerStep, TriggerSignal, TriggerTick, TriggerReturn, TriggerStop,
     shardVars, chanVars, freezeVars, workerVars
<1>9. ASSUME NEW f \in Flushers, FlusherStep(f) PROVE Owners'
  BY <1>1, <1>9 DEF FlusherStep, FlushStart, FlushReturn, shardVars, chanVars, freezeVars,
     workerVars
<1>10. ASSUME NEW c \in Closers, CloserStep(c) PROVE Owners'
  BY <1>1, <1>10 DEF CloserStep, CloseStart, CloseNotify, CloseBroadcast, CloseStop,
     CloseTriggerDone, CloseQueue, CloseReturn, shardVars, chanVars, freezeVars, workerVars
<1>11. CASE commitOK \/ setError \/ WorkerNotify \/ WorkerBroadcast
  <2>1. /\ WorkerHoldsAll /\ (WorkerHoldsAll' \/ kpc' = "recycle")
        /\ UNCHANGED <<free, freezeMu, fz, fidx, fshards, queue, batches, wb, kidx>>
    BY <1>11 DEF commitOK, setError, WorkerNotify, WorkerBroadcast, WorkerHoldsAll,
       shardVars, chanVars, freezeVars
  <2> QED BY <1>0, <2>1, OwnersWorkerControl
<1>12. CASE commitFail
  <2>1. /\ WorkerHoldsAll /\ WorkerHoldsAll' /\ ~WorkerIdle
        /\ batches' = [batches EXCEPT ![wb].err = TRUE]
        /\ UNCHANGED <<free, freezeMu, fz, fidx, fshards, queue, wb, kidx>>
    BY <1>12 DEF commitFail, WorkerHoldsAll, WorkerIdle, shardVars, chanVars, freezeVars
  <2>2. batches \in Seq(Batch) /\ wb \in 1 .. Len(batches) /\ batches[wb] \in Batch
    BY <1>0, <2>1 DEF TypeOK, BatchType, Owners, QueueInv
  <2> DEFINE nb == [batches[wb] EXCEPT !.err = TRUE]
  <2>3. nb \in Batch /\ nb.shards = batches[wb].shards
    BY <2>2 DEF Batch
  <2>4. batches' = [batches EXCEPT ![wb] = nb]
    BY <2>1
  <2> HIDE DEF nb
  <2>5. /\ Len(batches') = Len(batches)
        /\ \A k \in 1 .. Len(batches) : batches'[k] = IF k = wb THEN nb ELSE batches[k]
    BY <2>2, <2>3, <2>4, ExceptSeq
  <2>6. \A k \in 1 .. Len(batches) : batches'[k].shards = batches[k].shards
    BY <2>3, <2>5
  <2> QED BY <1>0, <2>1, <2>5, <2>6, OwnersWorkerControl
<1>13. CASE WorkerStep
  BY <1>0, <1>11, <1>12, <1>13, OwnersReceive, OwnersExit, OwnersRecycle, OwnersDone
  DEF WorkerStep
<1>14. CASE Terminated
  BY <1>1, <1>14 DEF Terminated, vars, shardVars, chanVars, freezeVars, workerVars
<1> QED BY <1>2, <1>3, <1>7, <1>8, <1>9, <1>10, <1>13, <1>14 DEF Next

(***************************************************************************)
(* The theorems.                                                           *)
(***************************************************************************)

\* The first state: every buffer but the active one is free.
LEMMA InitInv ==
  ASSUME Init
  PROVE  IInv
<1>1. buffersPerShard \in Nat /\ buffersPerShard >= 4
  BY DEF buffersPerShard, ingestBufferHeadroom
<1>2. ShardType
  <2>1. 0 \in BufId /\ 1 .. buffersPerShard - 1 \subseteq BufId
    BY <1>1 DEF BufId
  <2>2. [i \in 1 .. buffersPerShard - 1 |-> i] \in Seq(BufId)
    BY <1>1, <2>1
  <2>3. [b \in BufId |-> <<>>] \in [BufId -> Seq(Nat)]
    BY EmptySeq
  <2>4. active \in [Shard -> BufId] /\ activeCount \in [Shard -> Nat]
    BY <2>1 DEF Init
  <2>5. free \in [Shard -> Seq(BufId)]
    BY <2>2 DEF Init
  <2>6. buf \in [Shard -> [BufId -> Seq(Nat)]]
    BY <2>3 DEF Init
  <2> QED BY <2>4, <2>5, <2>6 DEF Init, ShardType
<1>3. ChanType /\ FreezeType
  <2>1. ChanType
    <3>1. signal \in {0, 1} /\ waiters \in Int /\ waitMu \in Writers \cup {None}
      BY DEF Init
    <3>2. /\ stopTrigger \in BOOLEAN /\ queueOpen \in BOOLEAN
          /\ closed \in BOOLEAN /\ err \in BOOLEAN /\ panicked \in BOOLEAN
      BY Zenon DEF Init
    <3> QED BY <3>1, <3>2 DEF ChanType
  <2>2. FreezeType
    BY DEF Init, FreezeType
  <2> QED BY <2>1, <2>2
<1>4. batches = <<>> /\ queue = <<>> /\ Len(batches) = 0 /\ Len(queue) = 0
  BY EmptySeq DEF Init
<1>5. BatchType
  <2>1. batches \in Seq(Batch) /\ queue \in Seq(Nat)
    BY <1>4, EmptySeq
  <2> QED BY <1>4, <2>1 DEF Init, BatchType
<1>6. WriterType
  BY DEF Init, WriterType
<1>7. CallerType
  BY DEF Init, CallerType
<1>8. WorkerType
  BY EmptySeq DEF Init, WorkerType
<1>9. FreezeInv
  BY DEF Init, FreezeInv, Collected, CollectedAll
<1>10. QueueInv
  BY <1>4 DEF Init, QueueInv, WorkerIdle, WorkerHoldsAll
<1>11. CountInv
  <2>1. \A s \in Shard : Len(free[s]) = buffersPerShard - 1
    BY <1>1 DEF Init
  <2>2. \A s \in Shard : InFreeze(s) = 0 /\ InWorker(s) = 0
    BY DEF Init, InFreeze, InWorker, Collected, CollectedAll, WorkerHolds, WorkerHoldsAll
  <2> QED BY <1>1, <1>4, <2>1, <2>2 DEF CountInv
<1>12. TodoInv
  BY DEF Init, TodoInv
<1> QED BY <1>2, <1>3, <1>5, <1>6, <1>7, <1>8, <1>9, <1>10, <1>11, <1>12 DEF IInv, TypeOK

\* Every step keeps the inductive invariant.
LEMMA StepInv ==
  ASSUME IInv, [Next]_vars
  PROVE  IInv'
<1>1. CASE UNCHANGED vars
  <2>1. TypeOK'
    BY <1>1, ShardFrame, ChanFrame, BatchFrame, FreezeFrame, WriterFrame, CallerFrame,
       WorkerFrame
    DEF IInv, TypeOK, vars, shardVars, chanVars, freezeVars, writerVars, callerVars,
        workerVars
  <2>2. Owners'
    BY <1>1, OwnersFrame DEF IInv, Owners, vars, shardVars, chanVars, freezeVars, workerVars
  <2>3. TodoInv'
    BY <1>1 DEF IInv, TodoInv, vars, writerVars
  <2> QED BY <2>1, <2>2, <2>3 DEF IInv, Owners
<1>2. CASE Terminated
  BY <1>1, <1>2 DEF Terminated
<1>3. CASE Next
  <2>1. TypeOK' \/ Terminated
    BY <1>3, WriterStepType, FreezeStepType, CallerStepType, WorkerStepType DEF Next
  <2>2. Owners'
    BY <1>3, OwnersStep
  <2>3. TodoInv'
    BY <1>3, TodoStep
  <2> QED BY <1>2, <2>1, <2>2, <2>3 DEF IInv, Owners
<1> QED BY <1>1, <1>3

\* The free list is not empty where the freeze pops it: the shard's QueueSize + 3
\* buffers exceed what the queue, the worker and the active slot can hold.
LEMMA InvSwap ==
  ASSUME IInv
  PROVE  SwapHasBuffer
<1> SUFFICES ASSUME fz = "swap", free[fidx] = <<>>
             PROVE  FALSE
  BY DEF SwapHasBuffer
<1>1. fidx \in Shard /\ fidx \in Nat
  BY DEF IInv, FreezeInv, Shard
<1>2. Len(free[fidx]) = 0
  BY EmptySeq
<1>3. InFreeze(fidx) = 0
  BY <1>1 DEF InFreeze, Collected, CollectedAll
<1>4. InWorker(fidx) \in {0, 1}
  BY DEF InWorker
<1>5. Len(queue) \in Nat /\ Len(queue) <= QueueSize
  BY DEF IInv, TypeOK, BatchType, QueueInv
<1>6. 0 + 1 + Len(queue) + 0 + InWorker(fidx) = buffersPerShard
  BY <1>1, <1>2, <1>3 DEF IInv, CountInv
<1> QED BY <1>4, <1>5, <1>6 DEF buffersPerShard, ingestBufferHeadroom

\* The inductive invariant holds in every reachable state.
THEOREM Invariance == Spec => []IInv
<1>1. Init => IInv
  BY InitInv
<1>2. IInv /\ [Next]_vars => IInv'
  BY StepInv
<1> QED BY <1>1, <1>2, PTL DEF Spec

\* Type correctness of the batcher.
THEOREM TypeCorrect == Spec => []TypeOK
<1>1. IInv => TypeOK
  BY DEF IInv
<1> QED BY <1>1, Invariance, PTL

\* freezeAndEnqueue never indexes an empty free list (write_batcher.go:449), for
\* every number of shards and every queue size.
THEOREM SwapSafe == Spec => []SwapHasBuffer
<1>1. IInv => SwapHasBuffer
  BY InvSwap
<1> QED BY <1>1, Invariance, PTL

(***************************************************************************)
(* The freeze is run by the one caller that holds freezeMu.                *)
(***************************************************************************)
FreezeHolder == \A c \in Callers : cpc[c] = "freezing" <=> freezeMu = c

\* freezeMu is taken on the way into freezeAndEnqueue and released on the way out.
LEMMA HolderStep ==
  ASSUME IInv, FreezeHolder, [Next]_vars
  PROVE  FreezeHolder'
<1> USE DEF IInv, TypeOK, FreezeType, CallerType, FreezeInv, FreezeHolder
<1>1. ASSUME NEW c \in Callers, FreezeLock(c) PROVE FreezeHolder'
  BY <1>1 DEF FreezeLock
<1>2. CASE UNCHANGED <<cpc, freezeMu>>
  BY <1>2
<1>3. CASE FreezeStep
  <2>1. CASE freezeMu \in Callers /\ cpc' = [cpc EXCEPT ![freezeMu] = "target"] /\ freezeMu' = None
    BY <2>1
  <2> QED BY <1>2, <1>3, <2>1 DEF FreezeStep, FreezeLoad, FreezeSwap, FreezeCount, FreezeNotify,
     FreezeBroadcast, FreezeSend, FreezeSendPanic, FreezeReturn, callerVars, freezeVars
<1>4. CASE \E w \in Writers : WriterStep(w)
  BY <1>2, <1>4 DEF WriterStep, AddStart, appendPoint, maybeSignal, WaitLock, WaitCheckError,
     WaitCheckSpace, CondWait, WaitRelock, callerVars, freezeVars
<1>5. CASE WorkerStep
  BY <1>2, <1>5 DEF WorkerStep, WorkerReceive, WorkerExit, commitOK, commitFail, setError,
     WorkerNotify, WorkerBroadcast, recycleBatch, WorkerDone, callerVars, freezeVars
<1>6. CASE TriggerStep
  <2>1. Trigger \in Callers
    BY DEF Callers
  <2> QED BY <1>6, <2>1 DEF TriggerStep, TriggerSignal, TriggerTick, TriggerReturn, TriggerStop,
     freezeVars
<1>7. ASSUME NEW f \in Flushers, FlusherStep(f) PROVE FreezeHolder'
  BY <1>7 DEF FlusherStep, FlushStart, FlushReturn, freezeVars, Callers
<1>8. ASSUME NEW c \in Closers, CloserStep(c) PROVE FreezeHolder'
  <2>1. c \in Callers
    BY DEF Callers
  <2> QED BY <1>8, <2>1 DEF CloserStep, CloseStart, CloseNotify, CloseBroadcast, CloseStop,
     CloseTriggerDone, CloseQueue, CloseReturn, freezeVars
<1>9. CASE UNCHANGED vars
  BY <1>2, <1>9 DEF vars, callerVars, freezeVars
<1> QED BY <1>1, <1>3, <1>4, <1>5, <1>6, <1>7, <1>8, <1>9 DEF Next, Terminated
=============================================================================
