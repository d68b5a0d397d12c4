----------------------- MODULE TableBatcherOrderProofs ----------------------
(***************************************************************************)
(* Proofs about the points in TableBatcher's buffers, for every number of  *)
(* writers, flushers, closers and shards and every queue size: no buffer   *)
(* has two owners, points reach the log in acceptance order and without a  *)
(* gap, Flush and Close are barriers, and the batcher implements WriteLog. *)
(***************************************************************************)
EXTENDS TableBatcherProofs, FiniteSetTheorems

USE ConstantsAssumption DEF NoBuf

(***************************************************************************)
(* The slots of a shard in the order the worker will commit them: the      *)
(* published batches, the batch being frozen, the active buffer.           *)
(***************************************************************************)
Frozing == Len(batches) + 1
Filling == Len(batches) + 2

Slot(s, k) == IF k <= Len(batches) THEN batches[k].shards[s]
              ELSE IF k = Frozing THEN fshards[s] ELSE active[s]

Points(s, k) == IF Slot(s, k) = NoBuf THEN <<>> ELSE buf[s][Slot(s, k)]

\* The oldest slot whose points are not in the log.
FirstPending == IF kpc = "commit" THEN FirstQueued - 1 ELSE FirstQueued

Pending == FirstPending .. Filling

(***************************************************************************)
(* The inductive invariant.  A free buffer is empty; the counters agree    *)
(* with the buffers; the pending slots hold, in order, exactly the points  *)
(* after the log.                                                          *)
(***************************************************************************)
FreeEmpty == \A s \in Shard : \A i \in DOMAIN free[s] : buf[s][free[s][i]] = <<>>

CountsActive == \A s \in Shard : activeCount[s] = Len(buf[s][active[s]])

CountsFrozen ==
  fz \in {"swap", "count"} /\ fcount = 0 => \A s \in Shard : Points(s, Frozing) = <<>>

ActivePoints == UNION {{s} \X (1 .. activeCount[s]) : s \in Shard}

CountsAll ==
  /\ IsFiniteSet(ActivePoints)
  /\ activePoints = Cardinality(ActivePoints) + (IF fz \in {"swap", "count"} THEN fcount ELSE 0)

LogOrdered ==
  \A s \in Shard : Len(log[s]) <= accepted[s] /\ \A i \in DOMAIN log[s] : log[s][i] = i

\* The points of a pending slot are consecutive and not in the log yet.
SlotOrdered(s) ==
  \A k \in Pending : \A i \in DOMAIN Points(s, k) :
    /\ Points(s, k)[i] = Points(s, k)[1] + i - 1
    /\ Points(s, k)[i] \in Len(log[s]) + 1 .. accepted[s]

SlotsOrdered(s) ==
  \A k, l \in Pending : k < l =>
    \A i \in DOMAIN Points(s, k), j \in DOMAIN Points(s, l) : Points(s, k)[i] < Points(s, l)[j]

Covered(s) ==
  \A n \in Len(log[s]) + 1 .. accepted[s] :
    \E k \in Pending : \E i \in DOMAIN Points(s, k) : Points(s, k)[i] = n

Chain(s) == SlotOrdered(s) /\ SlotsOrdered(s) /\ Covered(s)

PointsInv == FreeEmpty /\ CountsActive /\ CountsFrozen /\ CountsAll
             /\ LogOrdered /\ \A s \in Shard : Chain(s)

(***************************************************************************)
(* The barrier.  What a caller must wait for was accepted before its call, *)
(* so it is in a slot up to the batch it waits for.                        *)
(***************************************************************************)
FirstOpen == IF kpc \in {"commit", "setError"} THEN FirstQueued - 1 ELSE FirstQueued

LastIsNewest == last = Len(batches)

DoneCommitted == \A k \in 1 .. Len(batches) : batches[k].done => k < FirstQueued /\ k # wb

LostKnown ==
  \A s \in Shard :
    /\ lost[s] \subseteq 1 .. Len(log[s])
    /\ lost[s] # {} => \/ err
                       \/ kpc = "setError" /\ lost[s] \subseteq {Points(s, wb)[i] : i \in DOMAIN Points(s, wb)}

SnapAccepted == \A c \in Callers : \A s \in Shard : snap[c][s] <= accepted[s]

\* The points of slot k came after the call of c.
After(c, s, k) == \A i \in DOMAIN Points(s, k) : Points(s, k)[i] > snap[c][s]

FreezeCovers == \A c \in Callers : \A s \in Shard :
  freezeMu = c /\ Collected(s) => After(c, s, Filling)

TargetCovers == \A c \in Callers : cpc[c] = "target" =>
  \A s \in Shard : \A k \in FirstOpen .. Filling : k > target[c] => After(c, s, k)

Written(c, s) == snap[c][s] <= Len(log[s]) /\ \A n \in 1 .. snap[c][s] : n \notin lost[s]

CloseWritten == \A c \in Callers : cpc[c] = "worker" =>
  \A s \in Shard : snap[c][s] <= Len(log[s]) /\ (err \/ Written(c, s))

NoneYet ==
  \A c \in Callers : /\ cpc[c] \notin {"idle", "exit"} => res[c] = "none"
                     /\ cpc[c] = "idle" /\ c \notin Flushers => res[c] = "none"

BarrierInv == FreezeHolder /\ LastIsNewest /\ DoneCommitted /\ LostKnown /\ SnapAccepted
              /\ FreezeCovers /\ TargetCovers /\ CloseWritten /\ NoneYet /\ Barrier

OInv == IInv /\ NoAliasing /\ PointsInv /\ BarrierInv


(***************************************************************************)
(* Buffers and their owners.                                               *)
(***************************************************************************)

\* The owners of a shard's buffers, one shard at a time.
FreeDistinct(s) ==
  /\ \A i, j \in DOMAIN free[s] : free[s][i] = free[s][j] => i = j
  /\ \A i \in DOMAIN free[s] : free[s][i] # active[s] /\ free[s][i] # fshards[s]
  /\ fshards[s] # active[s]

BatchDistinct(s) ==
  \A k \in DOMAIN batches : batches[k].shards[s] # NoBuf =>
    /\ batches[k].shards[s] \notin {active[s], fshards[s]}
    /\ \A i \in DOMAIN free[s] : free[s][i] # batches[k].shards[s]
    /\ \A j \in DOMAIN batches : batches[j].shards[s] = batches[k].shards[s] => j = k

\* NoAliasing is that of every shard.
LEMMA AliasingByShard == NoAliasing <=> \A s \in Shard : FreeDistinct(s) /\ BatchDistinct(s)
BY DEF NoAliasing, FreeDistinct, BatchDistinct

\* The types of what owns buffers.
LEMMA OwnerTypes ==
  ASSUME IInv, NEW s \in Shard
  PROVE  /\ active[s] \in BufId /\ fshards[s] \in BufId \cup {NoBuf}
         /\ free[s] \in Seq(BufId) /\ Len(free[s]) \in Nat /\ DOMAIN free[s] = 1 .. Len(free[s])
         /\ \A i \in DOMAIN free[s] : free[s][i] \in BufId
         /\ Len(batches) \in Nat /\ DOMAIN batches = 1 .. Len(batches)
         /\ \A k \in DOMAIN batches : batches[k].shards[s] \in BufId \cup {NoBuf}
         /\ NoBuf \notin BufId
<1>1. free[s] \in Seq(BufId) /\ batches \in Seq(Batch)
  BY DEF IInv, TypeOK, ShardType, BatchType
<1>2. \A k \in DOMAIN batches : batches[k] \in Batch
  BY <1>1
<1>3. \A k \in DOMAIN batches : batches[k].shards[s] \in BufId \cup {NoBuf}
  BY <1>2 DEF Batch
<1>4. Len(free[s]) \in Nat /\ DOMAIN free[s] = 1 .. Len(free[s]) /\ \A i \in DOMAIN free[s] : free[s][i] \in BufId
  BY <1>1
<1>5. Len(batches) \in Nat /\ DOMAIN batches = 1 .. Len(batches)
  BY <1>1
<1>6. NoBuf \notin BufId
  BY DEF BufId, buffersPerShard, ingestBufferHeadroom
<1> QED BY <1>1, <1>3, <1>4, <1>5, <1>6 DEF IInv, TypeOK, ShardType, FreezeType

\* A step that moves no buffer of a shard keeps its owners apart.
LEMMA AliasFrame ==
  ASSUME NEW s \in Shard, FreeDistinct(s) /\ BatchDistinct(s),
         active'[s] = active[s], free'[s] = free[s], fshards'[s] = fshards[s],
         DOMAIN batches' = DOMAIN batches,
         \A k \in DOMAIN batches : batches'[k].shards[s] = batches[k].shards[s]
  PROVE  (FreeDistinct(s) /\ BatchDistinct(s))'
BY DEF FreeDistinct, BatchDistinct

\* FreezeSwap moves the active buffer into the batch and the end of the free list
\* into its place.
LEMMA AliasSwap ==
  ASSUME IInv, NoAliasing, FreezeSwap
  PROVE  NoAliasing'
<1> SUFFICES ASSUME NEW s \in Shard PROVE (FreeDistinct(s) /\ BatchDistinct(s))'
  BY DEF NoAliasing, FreeDistinct, BatchDistinct
<1>1. fidx \in Shard /\ fshards[fidx] = NoBuf
  BY DEF FreezeSwap, IInv, FreezeInv, Collected, CollectedAll, Shard
<1>2. FreeDistinct(s) /\ BatchDistinct(s)
  BY AliasingByShard
<1>3. batches' = batches
  BY DEF FreezeSwap, chanVars
<1>4. CASE s # fidx
  <2>1. active'[s] = active[s] /\ free'[s] = free[s] /\ fshards'[s] = fshards[s]
    BY <1>1, <1>4 DEF FreezeSwap, IInv, TypeOK, ShardType, FreezeType
  <2> QED BY <1>2, <1>3, <2>1, AliasFrame
<1>5. CASE s = fidx
  <2> DEFINE n == Len(free[s])
  <2>1. n \in Nat \ {0}
    BY <1>5, OwnerTypes, EmptySeq DEF FreezeSwap
  <2>2. /\ active'[s] = free[s][n]
        /\ fshards'[s] = active[s]
        /\ free'[s] = SubSeq(free[s], 1, n - 1)
    BY <1>1, <1>5 DEF FreezeSwap, popFree, IInv, TypeOK, ShardType, FreezeType
  <2>3. DOMAIN free'[s] = 1 .. n - 1 /\ \A i \in 1 .. n - 1 : free'[s][i] = free[s][i]
    BY <2>1, <2>2, OwnerTypes
  <2>4. FreeDistinct(s)'
    BY <1>2, <1>5, <2>1, <2>2, <2>3, OwnerTypes DEF FreeDistinct
  <2>5. BatchDistinct(s)'
    BY <1>2, <1>3, <1>5, <2>1, <2>2, <2>3, OwnerTypes DEF BatchDistinct
  <2> QED BY <2>4, <2>5
<1> QED BY <1>4, <1>5

\* FreezeCount returns the buffers of an empty batch to the free lists.
LEMMA AliasCount ==
  ASSUME IInv, NoAliasing, FreezeCount
  PROVE  NoAliasing'
<1> SUFFICES ASSUME NEW s \in Shard PROVE (FreeDistinct(s) /\ BatchDistinct(s))'
  BY DEF NoAliasing, FreeDistinct, BatchDistinct
<1>1. FreeDistinct(s) /\ BatchDistinct(s)
  BY AliasingByShard
<1>2. batches' = batches /\ active' = active
  BY DEF FreezeCount, chanVars
<1>3. CASE fcount # 0
  BY <1>1, <1>2, <1>3, AliasFrame DEF FreezeCount
<1>4. CASE fcount = 0
  <2>1. fshards[s] \in BufId
    BY OwnerTypes DEF FreezeCount, IInv, FreezeInv, Collected, CollectedAll
  <2>2. free'[s] = Append(free[s], fshards[s]) /\ fshards'[s] = NoBuf
    BY <1>4 DEF FreezeCount
  <2>3. /\ DOMAIN free'[s] = 1 .. Len(free[s]) + 1
        /\ \A i \in 1 .. Len(free[s]) : free'[s][i] = free[s][i]
        /\ free'[s][Len(free[s]) + 1] = fshards[s]
    BY <2>1, <2>2, OwnerTypes
  <2>4. FreeDistinct(s)'
    BY <1>1, <1>2, <2>1, <2>2, <2>3, OwnerTypes DEF FreeDistinct
  <2>5. BatchDistinct(s)'
    BY <1>1, <1>2, <2>1, <2>2, <2>3, OwnerTypes DEF BatchDistinct
  <2> QED BY <2>4, <2>5
<1> QED BY <1>3, <1>4

\* FreezeSend hands the buffers of the batch over to the queue.
LEMMA AliasSend ==
  ASSUME IInv, NoAliasing, FreezeSend
  PROVE  NoAliasing'
<1> SUFFICES ASSUME NEW s \in Shard PROVE (FreeDistinct(s) /\ BatchDistinct(s))'
  BY DEF NoAliasing, FreeDistinct, BatchDistinct
<1>1. FreeDistinct(s) /\ BatchDistinct(s)
  BY AliasingByShard
<1>2. active' = active /\ free' = free /\ fshards'[s] = NoBuf
  BY DEF FreezeSend, shardVars
<1>3. /\ DOMAIN batches' = 1 .. Len(batches) + 1
      /\ \A k \in 1 .. Len(batches) : batches'[k] = batches[k]
      /\ batches'[Len(batches) + 1].shards = fshards
  BY DEF FreezeSend, IInv, TypeOK, BatchType
<1>4. FreeDistinct(s)'
  BY <1>1, <1>2, OwnerTypes DEF FreeDistinct
<1>5. BatchDistinct(s)'
  <2> SUFFICES ASSUME NEW k \in 1 .. Len(batches) + 1, batches'[k].shards[s] # NoBuf
               PROVE  /\ batches'[k].shards[s] \notin {active[s], NoBuf}
                      /\ \A i \in DOMAIN free[s] : free[s][i] # batches'[k].shards[s]
                      /\ \A j \in 1 .. Len(batches) + 1 :
                           batches'[j].shards[s] = batches'[k].shards[s] => j = k
    BY <1>2, <1>3 DEF BatchDistinct
  <2>1. CASE k \in 1 .. Len(batches)
    BY <1>1, <1>3, <2>1, OwnerTypes DEF BatchDistinct, FreeDistinct
  <2>2. CASE k = Len(batches) + 1
    BY <1>1, <1>3, <2>2, OwnerTypes DEF BatchDistinct, FreeDistinct
  <2> QED BY <2>1, <2>2, OwnerTypes
<1> QED BY <1>4, <1>5

\* What recycling one shard of the worker's batch does to that shard.
LEMMA RecycleEffect ==
  ASSUME IInv, recycleBatch
  PROVE  /\ kidx \in Shard /\ wb \in DOMAIN batches
         /\ batches[wb].shards[kidx] \in BufId
         /\ DOMAIN batches' = DOMAIN batches
         /\ \A k \in DOMAIN batches, s \in Shard :
              batches'[k].shards[s] = IF k = wb /\ s = kidx THEN NoBuf ELSE batches[k].shards[s]
         /\ \A s \in Shard : free'[s] = IF s = kidx THEN Append(free[s], batches[wb].shards[s]) ELSE free[s]
         /\ \A s \in Shard, b \in BufId :
              buf'[s][b] = IF s = kidx /\ b = batches[wb].shards[s] THEN <<>> ELSE buf[s][b]
<1>1. kidx \in Shard /\ wb \in 1 .. Len(batches)
  BY DEF recycleBatch, IInv, TypeOK, BatchType, QueueInv, WorkerIdle, FirstQueued
<1>2. wb \in DOMAIN batches /\ batches \in Seq(Batch)
  BY <1>1 DEF IInv, TypeOK, BatchType
<1>3. batches[wb].shards[kidx] \in BufId
  <2>1. batches[wb].shards[kidx] # NoBuf
    BY <1>1 DEF recycleBatch, IInv, QueueInv, WorkerHolds, Shard
  <2> QED BY <1>1, <1>2, <2>1, OwnerTypes
<1>4. batches[wb] \in Batch
  BY <1>2
<1>5. batches' = [batches EXCEPT ![wb] = [batches[wb] EXCEPT !.shards = [batches[wb].shards EXCEPT ![kidx] = NoBuf]]]
  BY DEF recycleBatch
<1>6. \A s \in Shard : [batches[wb].shards EXCEPT ![kidx] = NoBuf][s] = IF s = kidx THEN NoBuf ELSE batches[wb].shards[s]
  BY <1>1, <1>4 DEF Batch
<1>7. \A k \in DOMAIN batches : batches'[k] = IF k = wb
         THEN [batches[wb] EXCEPT !.shards = [batches[wb].shards EXCEPT ![kidx] = NoBuf]] ELSE batches[k]
  BY <1>2, <1>5
<1>8. [batches[wb] EXCEPT !.shards = [batches[wb].shards EXCEPT ![kidx] = NoBuf]].shards
        = [batches[wb].shards EXCEPT ![kidx] = NoBuf]
  BY <1>4 DEF Batch
<1>9. \A k \in DOMAIN batches, s \in Shard :
         batches'[k].shards[s] = IF k = wb /\ s = kidx THEN NoBuf ELSE batches[k].shards[s]
  BY <1>6, <1>7, <1>8
<1>10. \A s \in Shard : free'[s] = IF s = kidx THEN Append(free[s], batches[wb].shards[s]) ELSE free[s]
  BY <1>1 DEF recycleBatch, returned, IInv, TypeOK, ShardType
<1>11. \A s \in Shard, b \in BufId :
         buf'[s][b] = IF s = kidx /\ b = batches[wb].shards[s] THEN <<>> ELSE buf[s][b]
  BY <1>1, <1>3 DEF recycleBatch, resetPoints, IInv, TypeOK, ShardType
<1> QED BY <1>1, <1>2, <1>3, <1>5, <1>9, <1>10, <1>11

\* recycleBatch moves one buffer of the worker's batch to the free list.
LEMMA AliasRecycle ==
  ASSUME IInv, NoAliasing, recycleBatch
  PROVE  NoAliasing'
<1> SUFFICES ASSUME NEW s \in Shard PROVE (FreeDistinct(s) /\ BatchDistinct(s))'
  BY DEF NoAliasing, FreeDistinct, BatchDistinct
<1>1. FreeDistinct(s) /\ BatchDistinct(s)
  BY AliasingByShard
<1>2. active' = active /\ fshards' = fshards
  BY DEF recycleBatch, freezeVars
<1>3. CASE s # kidx
  BY <1>1, <1>2, <1>3, RecycleEffect, AliasFrame
<1>4. CASE s = kidx
  <2> DEFINE b == batches[wb].shards[s]
  <2>1. b \in BufId /\ wb \in DOMAIN batches /\ batches[wb].shards[s] = b
    BY <1>4, RecycleEffect
  <2>2. free'[s] = Append(free[s], b)
    BY <1>4, RecycleEffect
  <2>3. /\ DOMAIN free'[s] = 1 .. Len(free[s]) + 1
        /\ \A i \in 1 .. Len(free[s]) : free'[s][i] = free[s][i]
        /\ free'[s][Len(free[s]) + 1] = b
    BY <2>1, <2>2, OwnerTypes
  <2>0. Len(free[s]) \in Nat /\ DOMAIN free[s] = 1 .. Len(free[s]) /\ b # NoBuf
    BY <2>1, OwnerTypes
  <2>4. b \notin {active[s], fshards[s]} /\ \A i \in DOMAIN free[s] : free[s][i] # b
    BY <1>1, <2>1, OwnerTypes DEF BatchDistinct
  <2> HIDE DEF b
  <2>5. FreeDistinct(s)'
    <3>1. \A i \in 1 .. Len(free[s]) : free[s][i] # b
      BY <2>4, OwnerTypes
    <3>2. \A i, j \in DOMAIN free'[s] : free'[s][i] = free'[s][j] => i = j
      <4>1. \A i, j \in 1 .. Len(free[s]) : free[s][i] = free[s][j] => i = j
        BY <1>1, <2>0 DEF FreeDistinct
      <4>2. DOMAIN free'[s] = (1 .. Len(free[s])) \cup {Len(free[s]) + 1}
        BY <2>0, <2>3
      <4> QED BY <2>3, <3>1, <4>1, <4>2
    <3>3. \A i \in DOMAIN free'[s] : free'[s][i] # active[s] /\ free'[s][i] # fshards[s]
      BY <1>1, <2>3, <2>4, OwnerTypes DEF FreeDistinct
    <3> QED BY <1>1, <1>2, <3>2, <3>3 DEF FreeDistinct
  <2>6. /\ DOMAIN batches' = DOMAIN batches
        /\ \A k \in DOMAIN batches : batches'[k].shards[s] = IF k = wb THEN NoBuf ELSE batches[k].shards[s]
    BY <1>4, RecycleEffect
  <2>7. \A k \in DOMAIN batches : batches[k].shards[s] = b => k = wb
    BY <1>1, <2>0, <2>1 DEF BatchDistinct
  <2>8. BatchDistinct(s)'
    <3> SUFFICES ASSUME NEW k \in DOMAIN batches, batches'[k].shards[s] # NoBuf
                 PROVE  /\ batches'[k].shards[s] \notin {active[s], fshards[s]}
                        /\ \A i \in DOMAIN free'[s] : free'[s][i] # batches'[k].shards[s]
                        /\ \A j \in DOMAIN batches :
                             batches'[j].shards[s] = batches'[k].shards[s] => j = k
      BY <1>2, <2>6 DEF BatchDistinct
    <3>1. k # wb /\ batches'[k].shards[s] = batches[k].shards[s] /\ batches[k].shards[s] # b
      BY <2>6, <2>7
    <3>2. \A i \in DOMAIN free'[s] : free'[s][i] # batches[k].shards[s]
      BY <1>1, <2>0, <2>3, <3>1 DEF BatchDistinct
    <3> QED BY <1>1, <2>6, <3>1, <3>2 DEF BatchDistinct
  <2> QED BY <2>5, <2>8
<1> QED BY <1>3, <1>4


\* The steps that move buffers between owners.
Moves == FreezeSwap \/ FreezeCount \/ FreezeSend \/ recycleBatch

\* Setting a batch's err or done leaves its buffers alone.
LEMMA BatchFlags ==
  ASSUME IInv, commitFail \/ WorkerDone
  PROVE  /\ DOMAIN batches' = DOMAIN batches /\ Len(batches') = Len(batches)
         /\ \A k \in DOMAIN batches : batches'[k].shards = batches[k].shards
         /\ commitFail => \A k \in DOMAIN batches : batches'[k].done = batches[k].done
         /\ WorkerDone => \A k \in DOMAIN batches : batches'[k].done => batches[k].done \/ k = wb
<1>1. batches \in Seq(Batch) /\ wb \in DOMAIN batches /\ batches[wb] \in Batch
  BY DEF commitFail, WorkerDone, IInv, TypeOK, BatchType, QueueInv, WorkerIdle, FirstQueued
<1>2. CASE commitFail
  <2>1. batches' = [batches EXCEPT ![wb] = [batches[wb] EXCEPT !.err = TRUE]]
    BY <1>2 DEF commitFail
  <2>2. /\ [batches[wb] EXCEPT !.err = TRUE].shards = batches[wb].shards
        /\ [batches[wb] EXCEPT !.err = TRUE].done = batches[wb].done
    BY <1>1 DEF Batch
  <2>3. \A k \in DOMAIN batches : batches'[k].shards = batches[k].shards /\ batches'[k].done = batches[k].done
    BY <1>1, <2>1, <2>2
  <2>4. DOMAIN batches' = DOMAIN batches /\ Len(batches') = Len(batches)
    BY <1>1, <2>1
  <2> QED BY <1>2, <2>3, <2>4 DEF commitFail, WorkerDone
<1>3. CASE WorkerDone
  <2>1. batches' = [batches EXCEPT ![wb] = [batches[wb] EXCEPT !.done = TRUE]]
    BY <1>3 DEF WorkerDone, doneClosed
  <2>2. [batches[wb] EXCEPT !.done = TRUE].shards = batches[wb].shards
    BY <1>1 DEF Batch
  <2>3. \A k \in DOMAIN batches : /\ batches'[k].shards = batches[k].shards
                                  /\ k # wb => batches'[k] = batches[k]
    BY <1>1, <2>1, <2>2
  <2>4. DOMAIN batches' = DOMAIN batches /\ Len(batches') = Len(batches)
    BY <1>1, <2>1
  <2> QED BY <1>3, <2>3, <2>4 DEF commitFail, WorkerDone
<1> QED BY <1>2, <1>3

\* Every other step leaves each buffer with its owner.
LEMMA OwnersKept ==
  ASSUME IInv, [Next]_vars, ~Moves
  PROVE  /\ active' = active /\ free' = free /\ fshards' = fshards
         /\ Len(batches') = Len(batches) /\ DOMAIN batches' = DOMAIN batches
         /\ \A k \in DOMAIN batches : batches'[k].shards = batches[k].shards
<1>1. active' = active /\ free' = free /\ fshards' = fshards
  BY DEF Moves, Next, WriterStep, AddStart, appendPoint, maybeSignal, WaitLock, WaitCheckError,
     WaitCheckSpace, CondWait, WaitRelock, FreezeStep, FreezeLoad, FreezeNotify, FreezeBroadcast,
     FreezeSendPanic, FreezeLock, TriggerStep, TriggerSignal, TriggerTick, TriggerReturn,
     TriggerStop, FlusherStep, FlushStart, FlushReturn, CloserStep, CloseStart, CloseNotify,
     CloseBroadcast, CloseStop, CloseTriggerDone, CloseQueue, CloseReturn, WorkerStep,
     WorkerReceive, WorkerExit, commitOK, commitFail, setError, WorkerNotify, WorkerBroadcast,
     WorkerDone, Terminated, vars, shardVars, freezeVars
<1>2. batches' = batches \/ commitFail \/ WorkerDone
  BY DEF Moves, Next, WriterStep, AddStart, appendPoint, maybeSignal, WaitLock, WaitCheckError,
     WaitCheckSpace, CondWait, WaitRelock, FreezeStep, FreezeLoad, FreezeNotify, FreezeBroadcast,
     FreezeSendPanic, FreezeLock, TriggerStep, TriggerSignal, TriggerTick, TriggerReturn,
     TriggerStop, FlusherStep, FlushStart, FlushReturn, CloserStep, CloseStart, CloseNotify,
     CloseBroadcast, CloseStop, CloseTriggerDone, CloseQueue, CloseReturn, WorkerStep,
     WorkerReceive, WorkerExit, commitOK, setError, WorkerNotify, WorkerBroadcast,
     Terminated, vars, chanVars
<1> QED BY <1>1, <1>2, BatchFlags

\* No step gives a buffer a second owner.
LEMMA AliasStep ==
  ASSUME IInv, NoAliasing, [Next]_vars
  PROVE  NoAliasing'
<1>1. CASE Moves
  BY <1>1, AliasSwap, AliasCount, AliasSend, AliasRecycle DEF Moves
<1>2. CASE ~Moves
  <2> SUFFICES ASSUME NEW s \in Shard PROVE (FreeDistinct(s) /\ BatchDistinct(s))'
    BY DEF NoAliasing, FreeDistinct, BatchDistinct
  <2>1. FreeDistinct(s) /\ BatchDistinct(s)
    BY AliasingByShard
  <2> QED BY <1>2, <2>1, OwnersKept, AliasFrame
<1> QED BY <1>1, <1>2


(***************************************************************************)
(* The chain of slots.                                                     *)
(***************************************************************************)

\* The pending slots are slots.
LEMMA PendingType ==
  ASSUME IInv
  PROVE  /\ Len(batches) \in Nat /\ Len(queue) \in Nat
         /\ FirstQueued \in Nat /\ FirstQueued >= 1 /\ FirstQueued <= Frozing
         /\ FirstPending \in Nat /\ FirstPending >= 1 /\ FirstPending <= FirstQueued
         /\ Frozing = Len(batches) + 1 /\ Filling = Len(batches) + 2
         /\ Pending \subseteq 1 .. Filling
         /\ kpc = "commit" => FirstPending = wb /\ wb = FirstQueued - 1
<1>1. Len(batches) \in Nat /\ Len(queue) \in Nat /\ Len(queue) <= Len(batches)
  BY DEF IInv, TypeOK, BatchType, QueueInv
<1>2. FirstQueued \in Nat /\ FirstQueued >= 1 /\ FirstQueued <= Len(batches) + 1
  BY <1>1 DEF FirstQueued
<1>3. kpc = "commit" => wb = FirstQueued - 1 /\ wb >= 1
  BY DEF IInv, QueueInv, WorkerIdle
<1>4. FirstPending \in Nat /\ FirstPending >= 1 /\ FirstPending <= FirstQueued
  BY <1>2, <1>3 DEF FirstPending
<1> QED BY <1>1, <1>2, <1>3, <1>4 DEF Pending, Frozing, Filling, FirstPending

\* A slot holds a buffer or none, and its points are a sequence of numbers.
LEMMA PointsType ==
  ASSUME IInv, NEW s \in Shard, NEW k \in 1 .. Filling
  PROVE  /\ Slot(s, k) \in BufId \cup {NoBuf}
         /\ Points(s, k) \in Seq(Nat)
         /\ Len(Points(s, k)) \in Nat
         /\ DOMAIN Points(s, k) = 1 .. Len(Points(s, k))
         /\ \A i \in DOMAIN Points(s, k) : Points(s, k)[i] \in Nat
<1>1. Slot(s, k) \in BufId \cup {NoBuf}
  BY OwnerTypes, PendingType DEF Slot
<1>2. Points(s, k) \in Seq(Nat)
  <2>1. CASE Slot(s, k) = NoBuf
    BY <2>1 DEF Points
  <2>2. CASE Slot(s, k) \in BufId
    BY <2>2, OwnerTypes DEF Points, IInv, TypeOK, ShardType
  <2> QED BY <1>1, <2>1, <2>2
<1> QED BY <1>1, <1>2

\* Different slots hold different buffers.
LEMMA SlotsDistinct ==
  ASSUME IInv, NoAliasing, NEW s \in Shard, NEW k \in 1 .. Filling, NEW l \in 1 .. Filling,
         Slot(s, k) = Slot(s, l), Slot(s, k) # NoBuf
  PROVE  k = l
<1>1. FreeDistinct(s) /\ BatchDistinct(s)
  BY AliasingByShard
<1>2. Len(batches) \in Nat /\ DOMAIN batches = 1 .. Len(batches)
  BY OwnerTypes
<1>3. CASE k <= Len(batches) /\ l <= Len(batches)
  BY <1>1, <1>2, <1>3 DEF Slot, BatchDistinct
<1>4. CASE k <= Len(batches) /\ l > Len(batches)
  BY <1>1, <1>2, <1>4 DEF Slot, BatchDistinct
<1>5. CASE k > Len(batches) /\ l <= Len(batches)
  BY <1>1, <1>2, <1>5 DEF Slot, BatchDistinct
<1>6. CASE k > Len(batches) /\ l > Len(batches)
  BY <1>1, <1>2, <1>6 DEF Slot, FreeDistinct, Filling, Frozing
<1> QED BY <1>2, <1>3, <1>4, <1>5, <1>6 DEF Filling

\* A free buffer is in no slot.
LEMMA FreeNotInSlot ==
  ASSUME IInv, NoAliasing, NEW s \in Shard, NEW k \in 1 .. Filling, NEW i \in DOMAIN free[s]
  PROVE  Slot(s, k) # free[s][i]
<1>1. FreeDistinct(s) /\ BatchDistinct(s)
  BY AliasingByShard
<1>2. Len(batches) \in Nat /\ DOMAIN batches = 1 .. Len(batches)
  BY OwnerTypes
<1>3. CASE k <= Len(batches)
  <2>1. free[s][i] # NoBuf
    BY OwnerTypes
  <2> QED BY <1>1, <1>2, <1>3, <2>1 DEF Slot, BatchDistinct
<1>4. CASE k > Len(batches)
  BY <1>1, <1>2, <1>4 DEF Slot, FreeDistinct
<1> QED BY <1>2, <1>3, <1>4

\* Slots that stay as they are keep the chain.
LEMMA ChainSame ==
  ASSUME NEW s \in Shard, Chain(s), log'[s] = log[s], accepted'[s] = accepted[s],
         Pending' = Pending, \A k \in Pending : Points(s, k)' = Points(s, k)
  PROVE  Chain(s)'
<1>1. SlotOrdered(s)'
  BY DEF Chain, SlotOrdered
<1>2. SlotsOrdered(s)'
  BY DEF Chain, SlotsOrdered
<1>3. Covered(s)'
  BY DEF Chain, Covered
<1> QED BY <1>1, <1>2, <1>3 DEF Chain

\* A step that moves no buffer and writes none leaves the slots as they are.
LEMMA SlotsKept ==
  ASSUME IInv, [Next]_vars, ~Moves
  PROVE  /\ Filling' = Filling /\ Frozing' = Frozing
         /\ \A s \in Shard, k \in 1 .. Filling :
              /\ Slot(s, k)' = Slot(s, k)
              /\ (\A b \in BufId : b = Slot(s, k) => buf'[s][b] = buf[s][b])
                   => Points(s, k)' = Points(s, k)
<1>1. Filling' = Filling /\ Frozing' = Frozing
  BY OwnersKept DEF Filling, Frozing
<1> SUFFICES ASSUME NEW s \in Shard, NEW k \in 1 .. Filling
             PROVE  /\ Slot(s, k)' = Slot(s, k)
                    /\ (\A b \in BufId : b = Slot(s, k) => buf'[s][b] = buf[s][b])
                         => Points(s, k)' = Points(s, k)
  BY <1>1
<1>2. Slot(s, k)' = Slot(s, k)
  BY <1>1, OwnersKept, OwnerTypes DEF Slot
<1> QED BY <1>2, PointsType DEF Points

\* The worker's receive moves the front of the queue into its hands: the same slots
\* are pending.
LEMMA PendingKept ==
  ASSUME IInv, [Next]_vars, ~Moves, ~commitOK, ~commitFail
  PROVE  Pending' = Pending
<1>1. Len(batches') = Len(batches) /\ Len(batches) \in Nat /\ Len(queue) \in Nat
  BY OwnersKept, PendingType
<1>2. CASE WorkerReceive
  <2>1. Len(queue') = Len(queue) - 1
    BY <1>2 DEF WorkerReceive, IInv, TypeOK, BatchType
  <2> QED BY <1>1, <1>2, <2>1 DEF WorkerReceive, Pending, FirstPending, FirstQueued, Filling
<1>3. CASE queue' = queue /\ (kpc' = "commit" <=> kpc = "commit")
  <2>1. FirstPending' = FirstPending /\ Filling' = Filling
    BY <1>1, <1>3 DEF FirstPending, FirstQueued, Filling
  <2> QED BY <2>1 DEF Pending
<1>4. WorkerReceive \/ (queue' = queue /\ (kpc' = "commit" <=> kpc = "commit"))
  <2>1. WorkerReceive \/ queue' = queue
    BY DEF Moves, Next, WriterStep, AddStart, appendPoint, maybeSignal, WaitLock, WaitCheckError,
     WaitCheckSpace, CondWait, WaitRelock, FreezeStep, FreezeLoad, FreezeNotify, FreezeBroadcast,
     FreezeSendPanic, FreezeLock, TriggerStep, TriggerSignal, TriggerTick, TriggerReturn,
     TriggerStop, FlusherStep, FlushStart, FlushReturn, CloserStep, CloseStart, CloseNotify,
     CloseBroadcast, CloseStop, CloseTriggerDone, CloseQueue, CloseReturn, WorkerStep,
     WorkerExit, setError, WorkerNotify, WorkerBroadcast, WorkerDone, Terminated, vars, chanVars
  <2>2. WorkerReceive \/ (kpc' = "commit" <=> kpc = "commit")
    BY DEF Moves, Next, WriterStep, AddStart, appendPoint, maybeSignal, WaitLock, WaitCheckError,
     WaitCheckSpace, CondWait, WaitRelock, FreezeStep, FreezeLoad, FreezeNotify, FreezeBroadcast,
     FreezeSendPanic, FreezeLock, TriggerStep, TriggerSignal, TriggerTick, TriggerReturn,
     TriggerStop, FlusherStep, FlushStart, FlushReturn, CloserStep, CloseStart, CloseNotify,
     CloseBroadcast, CloseStop, CloseTriggerDone, CloseQueue, CloseReturn, WorkerStep,
     WorkerExit, setError, WorkerNotify, WorkerBroadcast, WorkerDone, Terminated, vars, workerVars
  <2> QED BY <2>1, <2>2
<1> QED BY <1>2, <1>3, <1>4


\* appendPoint writes to the youngest slot of one shard.
LEMMA AppendEffect ==
  ASSUME IInv, NoAliasing, NEW w \in Writers, NEW t \in Shard, appendPoint(w, t), ~panicked
  PROVE  /\ ~Moves /\ [Next]_vars /\ ~commitOK /\ ~commitFail
         /\ log' = log
         /\ \A s \in Shard, b \in BufId :
              buf'[s][b] = IF s = t /\ b = active[t] THEN Append(buf[t][active[t]], accepted[t] + 1)
                                                     ELSE buf[s][b]
         /\ \A s \in Shard, k \in 1 .. Filling :
              Points(s, k)' = IF s = t /\ k = Filling THEN Append(Points(s, k), accepted[t] + 1)
                                                      ELSE Points(s, k)
<1>1. /\ [Next]_vars /\ log' = log /\ kpc' = kpc
  BY DEF appendPoint, Next, WriterStep, workerVars
<1>2. ~Moves /\ ~commitOK /\ ~commitFail
  <2>1. accepted'[t] = accepted[t] + 1 /\ accepted[t] \in Nat
    BY DEF appendPoint, IInv, TypeOK, ShardType
  <2> QED BY <2>1 DEF Moves, FreezeSwap, FreezeCount, FreezeSend, recycleBatch, commitOK, commitFail,
        shardVars
<1>3. \A s \in Shard, b \in BufId :
        buf'[s][b] = IF s = t /\ b = active[t] THEN Append(buf[t][active[t]], accepted[t] + 1)
                                               ELSE buf[s][b]
  BY DEF appendPoint, IInv, TypeOK, ShardType
<1>4. Slot(t, Filling) = active[t] /\ active[t] \in BufId /\ active[t] # NoBuf /\ Filling \in 1 .. Filling
  BY PendingType, OwnerTypes DEF Slot, Filling, Frozing
<1>5. ASSUME NEW k \in 1 .. Filling, k = Filling
      PROVE  Points(t, k)' = Append(Points(t, k), accepted[t] + 1)
  <2>1. Slot(t, k)' = active[t] /\ Slot(t, k) = active[t]
    BY <1>1, <1>2, <1>4, <1>5, SlotsKept
  <2> QED BY <1>3, <1>4, <2>1 DEF Points
<1>6. ASSUME NEW s \in Shard, NEW k \in 1 .. Filling, s # t \/ k # Filling
      PROVE  Points(s, k)' = Points(s, k)
  <2>1. s = t => Slot(s, k) # active[t]
    BY <1>4, <1>6, SlotsDistinct
  <2>2. \A b \in BufId : b = Slot(s, k) => buf'[s][b] = buf[s][b]
    BY <1>3, <2>1
  <2> QED BY <1>1, <1>2, <2>2, SlotsKept
<1> QED BY <1>1, <1>2, <1>3, <1>5, <1>6

\* The new point follows the youngest one of its shard.
LEMMA AppendChain ==
  ASSUME IInv, NoAliasing, PointsInv, ~panicked,
         NEW w \in Writers, NEW t \in Shard, appendPoint(w, t)
  PROVE  LogOrdered' /\ \A s \in Shard : Chain(s)'
<1>1. Pending' = Pending /\ Pending \subseteq 1 .. Filling /\ log' = log
  BY AppendEffect, PendingKept, PendingType
<1>2. /\ \A s \in Shard : accepted[s] \in Nat /\ accepted'[s] = IF s = t THEN accepted[s] + 1 ELSE accepted[s]
      /\ \A s \in Shard : log[s] \in Seq(Nat)
  BY DEF appendPoint, IInv, TypeOK, ShardType, WorkerType
<1>3. LogOrdered'
  BY <1>1, <1>2 DEF PointsInv, LogOrdered
<1>4. ASSUME NEW s \in Shard, s # t PROVE Chain(s)'
  BY <1>1, <1>2, <1>4, AppendEffect, ChainSame DEF PointsInv
<1>5. Chain(t)'
  <2>0. PICK f \in Pending : f = Filling
    BY PendingType DEF Pending
  <2> DEFINE P == Points(t, f)
             n == Len(P)
             A == accepted[t]
             L == Len(log[t])
  <2>1. /\ P \in Seq(Nat) /\ n \in Nat /\ f \in Nat
        /\ A \in Nat /\ L \in Nat /\ L <= A /\ DOMAIN P = 1 .. n
    <3>1. f \in 1 .. Filling
      BY PendingType
    <3>2. P \in Seq(Nat)
      BY <3>1, PointsType
    <3>3. L \in Nat /\ A \in Nat /\ L <= A
      BY <1>2 DEF PointsInv, LogOrdered
    <3> QED BY <3>1, <3>2, <3>3
  <2>2. /\ \A k \in Pending : k # f => Points(t, k)' = Points(t, k)
        /\ Points(t, f)' = Append(P, A + 1)
    BY <1>1, <2>0, AppendEffect
  <2>3. /\ DOMAIN Points(t, f)' = 1 .. n + 1
        /\ \A i \in 1 .. n : Points(t, f)'[i] = P[i]
        /\ Points(t, f)'[n + 1] = A + 1
    BY <2>1, <2>2
  <2>4. /\ \A k \in Pending : k <= f /\ k \in Nat
        /\ \A k \in Pending : \A i \in DOMAIN Points(t, k) :
             Points(t, k)[i] = Points(t, k)[1] + i - 1 /\ Points(t, k)[i] \in L + 1 .. A
    BY <1>1, <2>0, PendingType DEF PointsInv, Chain, SlotOrdered
  <2>10. \A i \in 1 .. n : P[i] \in Nat /\ P[i] = P[1] + i - 1 /\ L + 1 <= P[i] /\ P[i] <= A
    <3>1. \A i \in DOMAIN P : P[i] = P[1] + i - 1 /\ P[i] \in L + 1 .. A
      BY <2>4
    <3> HIDE DEF P, n, A, L
    <3> QED BY <2>1, <3>1
  <2> HIDE DEF P, n, A, L
  <2>5. n > 0 => P[n] = A /\ P[1] = A - n + 1
    <3> SUFFICES ASSUME n > 0 PROVE P[n] = A
      BY <2>1, <2>10
    <3>1. 1 \in DOMAIN P /\ n \in DOMAIN P
      BY <2>1
    <3>2. A \in L + 1 .. A
      BY <2>1, <2>10
    <3>3. PICK k \in Pending : \E i \in DOMAIN Points(t, k) : Points(t, k)[i] = A
      BY <3>2 DEF PointsInv, Chain, Covered, L, A
    <3>4. PICK i \in DOMAIN Points(t, k) : Points(t, k)[i] = A
      BY <3>3
    <3>5. k = f
      <4>1. k < f => A < P[1]
        BY <2>1, <3>1, <3>4 DEF PointsInv, Chain, SlotsOrdered, P
      <4> QED BY <2>1, <2>4, <2>10, <4>1
    <3>6. i \in 1 .. n /\ P[i] = A /\ P[i] = P[1] + i - 1 /\ P[n] = P[1] + n - 1 /\ P[n] <= A
      BY <2>1, <2>10, <3>4, <3>5 DEF P
    <3>7. P[1] \in Nat
      BY <2>1, <3>1
    <3> QED BY <2>1, <3>6, <3>7
  <2>6. Len(log'[t]) = L /\ accepted'[t] = A + 1
    BY <1>1, <1>2 DEF L, A
  <2>7. SlotOrdered(t)'
    <3> SUFFICES ASSUME NEW k \in Pending, NEW i \in DOMAIN Points(t, k)'
                 PROVE  /\ Points(t, k)'[i] = Points(t, k)'[1] + i - 1
                        /\ Points(t, k)'[i] \in L + 1 .. A + 1
      BY <1>1, <2>6 DEF SlotOrdered
    <3>1. CASE k # f
      BY <2>1, <2>2, <2>4, <3>1
    <3>2. CASE k = f
      <4>1. CASE n = 0
        BY <2>1, <2>3, <3>2, <4>1
      <4>2. CASE n > 0
        <5>1. CASE i = n + 1
          BY <2>1, <2>3, <2>5, <2>10, <3>2, <4>2, <5>1
        <5>2. CASE i \in 1 .. n
          BY <2>1, <2>3, <2>10, <3>2, <4>2, <5>2
        <5> QED BY <2>1, <2>3, <3>2, <5>1, <5>2
      <4> QED BY <2>1, <4>1, <4>2
    <3> QED BY <3>1, <3>2
  <2>8. SlotsOrdered(t)'
    <3> SUFFICES ASSUME NEW k \in Pending, NEW l \in Pending, k < l,
                        NEW i \in DOMAIN Points(t, k)', NEW j \in DOMAIN Points(t, l)'
                 PROVE  Points(t, k)'[i] < Points(t, l)'[j]
      BY <1>1 DEF SlotsOrdered
    <3>1. k # f /\ Points(t, k)' = Points(t, k) /\ i \in DOMAIN Points(t, k)
      BY <2>2, <2>4
    <3>2. Points(t, k)[i] <= A /\ Points(t, k)[i] \in Int
      BY <2>1, <2>4, <3>1
    <3>3. CASE l # f
      BY <2>2, <3>1, <3>3 DEF PointsInv, Chain, SlotsOrdered
    <3>4. CASE l = f
      <4>1. \A m \in 1 .. n : Points(t, k)[i] < P[m]
        BY <2>1, <3>1, <3>4 DEF PointsInv, Chain, SlotsOrdered, P
      <4> QED BY <2>1, <2>3, <3>1, <3>2, <3>4, <4>1
    <3> QED BY <3>3, <3>4
  <2>9. Covered(t)'
    <3> SUFFICES ASSUME NEW m \in L + 1 .. A + 1
                 PROVE  \E k \in Pending : \E i \in DOMAIN Points(t, k)' : Points(t, k)'[i] = m
      BY <1>1, <2>6 DEF Covered
    <3>1. CASE m = A + 1
      BY <2>1, <2>3, <3>1
    <3>2. CASE m \in L + 1 .. A
      <4>1. PICK k \in Pending : \E i \in DOMAIN Points(t, k) : Points(t, k)[i] = m
        BY <3>2 DEF PointsInv, Chain, Covered, L, A
      <4>2. PICK i \in DOMAIN Points(t, k) : Points(t, k)[i] = m
        BY <4>1
      <4>3. CASE k # f
        BY <2>2, <4>2, <4>3
      <4>4. CASE k = f
        <5>1. i \in 1 .. n /\ P[i] = m
          BY <2>1, <4>2, <4>4 DEF P
        <5> QED BY <2>1, <2>3, <5>1
      <4> QED BY <4>3, <4>4
    <3> QED BY <2>1, <3>1, <3>2
  <2> QED BY <2>7, <2>8, <2>9 DEF Chain
<1> QED BY <1>3, <1>4, <1>5


\* What a commit takes: the oldest pending slot of each shard, whose points are the
\* ones right after the log.
LEMMA CommitEffect ==
  ASSUME IInv, NoAliasing, PointsInv, commitOK \/ commitFail, ~panicked
  PROVE  /\ ~Moves /\ [Next]_vars /\ wb \in Pending /\ FirstQueued' = FirstQueued
         /\ accepted' = accepted /\ kpc = "commit" /\ kpc' # "commit"
         /\ \A s \in Shard, k \in 1 .. Filling : Points(s, k)' = Points(s, k)
         /\ \A s \in Shard : Points(s, wb) = Frozen(s)
         /\ \A s \in Shard : log'[s] = log[s] \o Points(s, wb)
<1>1. /\ [Next]_vars /\ accepted' = accepted /\ buf' = buf /\ kpc = "commit" /\ queue' = queue
      /\ kpc' \in {"recycle", "setError"}
  BY DEF commitOK, commitFail, Next, WorkerStep, shardVars, chanVars
<1>2. ~Moves
  <2>1. fz' = fz /\ free' = free
    BY DEF commitOK, commitFail, freezeVars, shardVars
  <2>2. fz = "swap" => fshards[fidx] = NoBuf /\ fidx \in Shard
    BY DEF IInv, FreezeInv, Collected, CollectedAll, Shard
  <2>3. ~FreezeSwap /\ ~FreezeCount /\ ~FreezeSend
    BY <1>1 DEF FreezeSwap, FreezeCount, FreezeSend, workerVars
  <2> QED BY <1>1, <2>3 DEF Moves, recycleBatch
<1>3. wb \in Pending /\ wb \in 1 .. Len(batches)
  BY <1>1, PendingType DEF Pending, FirstQueued, FirstPending, Filling
<1>4. FirstQueued' = FirstQueued
  BY <1>1, <1>2, OwnersKept DEF FirstQueued
<1>5. \A s \in Shard, k \in 1 .. Filling : Points(s, k)' = Points(s, k)
  BY <1>1, <1>2, SlotsKept
<1>6. ASSUME NEW s \in Shard PROVE Points(s, wb) = Frozen(s)
  <2>1. batches[wb].shards[s] # NoBuf
    BY <1>1, <1>3 DEF IInv, QueueInv, WorkerHolds, WorkerHoldsAll
  <2> QED BY <1>3, <2>1 DEF Points, Slot, Frozen
<1>7. \A s \in Shard : log'[s] = log[s] \o Frozen(s)
  BY DEF commitOK, commitFail, CommitLog
<1> QED BY <1>1, <1>2, <1>3, <1>4, <1>5, <1>6, <1>7

\* The points of the worker's batch are the next ones of the log.
LEMMA CommitNext ==
  ASSUME IInv, NoAliasing, PointsInv, commitOK \/ commitFail, ~panicked, NEW s \in Shard
  PROVE  /\ Points(s, wb) \in Seq(Nat)
         /\ \A i \in 1 .. Len(Points(s, wb)) : Points(s, wb)[i] = Len(log[s]) + i
         /\ Len(log[s]) + Len(Points(s, wb)) <= accepted[s]
<1> DEFINE P == Points(s, wb)
           n == Len(P)
           A == accepted[s]
           L == Len(log[s])
<1>1. wb \in Pending /\ Pending \subseteq 1 .. Filling /\ wb \in 1 .. Filling
  BY CommitEffect, PendingType
<1>2. P \in Seq(Nat) /\ n \in Nat /\ DOMAIN P = 1 .. n
  BY <1>1, PointsType
<1>3. A \in Nat /\ L \in Nat /\ L <= A
  BY DEF PointsInv, LogOrdered, IInv, TypeOK, ShardType, WorkerType
<1>4. \A i \in DOMAIN P : P[i] = P[1] + i - 1 /\ P[i] \in L + 1 .. A
  BY <1>1 DEF PointsInv, Chain, SlotOrdered
<1>5. \A k \in Pending : wb <= k /\ k \in Nat /\ wb \in Nat
  BY <1>1, CommitEffect, PendingType DEF Pending
<1>6. n > 0 => P[1] = L + 1
  <2> SUFFICES ASSUME n > 0 PROVE P[1] = L + 1
    OBVIOUS
  <2>1. 1 \in DOMAIN P /\ P[1] \in L + 1 .. A
    BY <1>2, <1>4
  <2>2. L + 1 \in L + 1 .. A
    BY <1>3, <2>1
  <2>3. PICK k \in Pending : \E i \in DOMAIN Points(s, k) : Points(s, k)[i] = L + 1
    BY <2>2 DEF PointsInv, Chain, Covered
  <2>4. PICK i \in DOMAIN Points(s, k) : Points(s, k)[i] = L + 1
    BY <2>3
  <2>5. k = wb
    <3>1. wb < k => P[1] < L + 1
      BY <1>1, <2>1, <2>4 DEF PointsInv, Chain, SlotsOrdered
    <3> QED BY <1>3, <1>5, <2>1, <3>1
  <2>6. i \in 1 .. n /\ P[i] = L + 1
    BY <1>2, <2>4, <2>5
  <2> HIDE DEF P, n, A, L
  <2> QED BY <1>2, <1>3, <1>4, <2>1, <2>6
<1> HIDE DEF P, n, A, L
<1>7. ASSUME NEW i \in 1 .. n PROVE P[i] = L + i
  <2>1. n > 0 /\ i \in DOMAIN P
    BY <1>2
  <2>2. P[i] = P[1] + i - 1 /\ P[1] = L + 1
    BY <1>4, <1>6, <2>1
  <2> QED BY <1>3, <2>2
<1>8. L + n <= A
  <2>1. CASE n = 0
    BY <1>3, <2>1
  <2>2. CASE n > 0
    <3>1. n \in DOMAIN P /\ P[n] = L + n
      BY <1>2, <1>7, <2>2
    <3> QED BY <1>2, <1>3, <1>4, <3>1
  <2> QED BY <1>2, <2>1, <2>2
<1>9. \A i \in 1 .. n : P[i] = L + i
  BY <1>7
<1> QED BY <1>2, <1>8, <1>9 DEF P, n, A, L

\* A commit keeps the log in acceptance order and the rest of the chain behind it.
LEMMA CommitChain ==
  ASSUME IInv, NoAliasing, PointsInv, commitOK \/ commitFail, ~panicked
  PROVE  LogOrdered' /\ \A s \in Shard : Chain(s)'
<1> SUFFICES ASSUME NEW s \in Shard
             PROVE  /\ Len(log'[s]) <= accepted'[s] /\ \A i \in DOMAIN log'[s] : log'[s][i] = i
                    /\ Chain(s)'
  BY DEF LogOrdered
<1> DEFINE P == Points(s, wb)
           n == Len(P)
           A == accepted[s]
           L == Len(log[s])
<1>1. /\ wb \in Pending /\ Pending \subseteq 1 .. Filling
      /\ accepted'[s] = A /\ log'[s] = log[s] \o P
      /\ \A k \in Pending : Points(s, k)' = Points(s, k)
  BY CommitEffect, PendingType
<1>2. /\ P \in Seq(Nat) /\ n \in Nat /\ DOMAIN P = 1 .. n
      /\ \A i \in 1 .. n : P[i] = L + i
      /\ L + n <= A
  <2>1. P \in Seq(Nat) /\ (\A i \in 1 .. n : P[i] = L + i) /\ L + n <= A
    BY CommitNext
  <2> HIDE DEF P
  <2> QED BY <2>1
<1>3. A \in Nat /\ L \in Nat /\ log[s] \in Seq(Nat) /\ \A i \in DOMAIN log[s] : log[s][i] = i
  BY DEF PointsInv, LogOrdered, IInv, TypeOK, ShardType, WorkerType
<1>4. Pending' = Pending \ {wb} /\ \A k \in Pending' : wb < k
  <2>1. Filling' = Filling
    BY CommitEffect, SlotsKept
  <2>2. FirstPending' = FirstQueued /\ FirstPending = wb /\ wb = FirstQueued - 1
    BY CommitEffect, PendingType DEF FirstPending
  <2> QED BY <2>1, <2>2, PendingType DEF Pending
<1> HIDE DEF P, n, A, L
<1>5. Len(log'[s]) = L + n /\ DOMAIN log'[s] = 1 .. L + n
  BY <1>1, <1>2, <1>3 DEF L, n
<1>6. \A i \in DOMAIN log'[s] : log'[s][i] = i
  <2> SUFFICES ASSUME NEW i \in 1 .. L + n PROVE log'[s][i] = i
    BY <1>5
  <2>1. CASE i <= L
    BY <1>1, <1>2, <1>3, <2>1 DEF L
  <2>2. CASE i > L
    <3>1. log'[s][i] = P[i - L]
      BY <1>1, <1>2, <1>3, <2>2 DEF L, n
    <3> QED BY <1>2, <1>3, <2>2, <3>1
  <2> QED BY <1>3, <2>1, <2>2
<1>7. SlotOrdered(s)'
  <2> SUFFICES ASSUME NEW k \in Pending, wb < k, NEW i \in DOMAIN Points(s, k)
               PROVE  /\ Points(s, k)[i] = Points(s, k)[1] + i - 1
                      /\ Points(s, k)[i] \in L + n + 1 .. A
    BY <1>1, <1>4, <1>5 DEF SlotOrdered, A
  <2>1. Points(s, k)[i] = Points(s, k)[1] + i - 1 /\ Points(s, k)[i] \in L + 1 .. A
    BY DEF PointsInv, Chain, SlotOrdered, L, A
  <2>2. n > 0 => L + n < Points(s, k)[i]
    <3> SUFFICES ASSUME n > 0 PROVE L + n < Points(s, k)[i]
      OBVIOUS
    <3>1. n \in DOMAIN P /\ P[n] = L + n
      BY <1>2
    <3>2. P[n] < Points(s, k)[i]
      BY <1>1, <3>1 DEF PointsInv, Chain, SlotsOrdered, P
    <3> QED BY <3>1, <3>2
  <2> QED BY <1>2, <1>3, <2>1, <2>2
<1>8. SlotsOrdered(s)'
  BY <1>1, <1>4 DEF PointsInv, Chain, SlotsOrdered
<1>9. Covered(s)'
  <2> SUFFICES ASSUME NEW m \in L + n + 1 .. A
               PROVE  \E k \in Pending' : \E i \in DOMAIN Points(s, k) : Points(s, k)[i] = m
    BY <1>1, <1>4, <1>5 DEF Covered, A
  <2>1. m \in L + 1 .. A
    BY <1>2, <1>3
  <2>2. PICK k \in Pending : \E i \in DOMAIN Points(s, k) : Points(s, k)[i] = m
    BY <2>1 DEF PointsInv, Chain, Covered, L, A
  <2>3. k # wb
    <3> SUFFICES ASSUME k = wb PROVE FALSE
      OBVIOUS
    <3>1. PICK i \in 1 .. n : P[i] = m
      BY <1>2, <2>2 DEF P
    <3> QED BY <1>2, <1>3, <3>1
  <2> QED BY <1>4, <2>2, <2>3
<1> QED BY <1>1, <1>2, <1>5, <1>6, <1>7, <1>8, <1>9 DEF Chain


\* What FreezeSwap does to the slots of its shard: the active buffer becomes the one
\* being frozen, an empty buffer takes its place.
LEMMA SwapEffect ==
  ASSUME IInv, NoAliasing, FreeEmpty, FreezeSwap, NEW s \in Shard
  PROVE  /\ Filling' = Filling /\ Frozing' = Frozing /\ Pending' = Pending
         /\ \A k \in 1 .. Filling :
              Points(s, k)' = IF s # fidx \/ k <= Len(batches) THEN Points(s, k)
                              ELSE IF k = Filling THEN <<>> ELSE Points(s, Filling)
         /\ s = fidx => Points(s, Frozing) = <<>> /\ fshards[s] = NoBuf
         /\ active'[s] = IF s = fidx THEN free[s][Len(free[s])] ELSE active[s]
         /\ fshards'[s] = IF s = fidx THEN active[s] ELSE fshards[s]
         /\ s = fidx => Len(free[s]) \in DOMAIN free[s]
         /\ free'[s] = IF s = fidx THEN SubSeq(free[s], 1, Len(free[s]) - 1) ELSE free[s]
         /\ fidx \in Shard
<1>1. fidx \in Shard /\ fshards[fidx] = NoBuf
  BY DEF FreezeSwap, IInv, FreezeInv, Collected, CollectedAll, Shard
<1>2. batches' = batches /\ queue' = queue /\ kpc' = kpc /\ buf' = buf
  BY DEF FreezeSwap, chanVars, workerVars
<1>3. Filling' = Filling /\ Frozing' = Frozing /\ Pending' = Pending
  BY <1>2 DEF Filling, Frozing, Pending, FirstPending, FirstQueued
<1>4. /\ active'[s] = IF s = fidx THEN free[s][Len(free[s])] ELSE active[s]
      /\ fshards'[s] = IF s = fidx THEN active[s] ELSE fshards[s]
      /\ free'[s] = IF s = fidx THEN SubSeq(free[s], 1, Len(free[s]) - 1) ELSE free[s]
  BY <1>1 DEF FreezeSwap, popFree, IInv, TypeOK, ShardType, FreezeType
<1>5. s = fidx => Len(free[s]) \in DOMAIN free[s]
  <2>1. s = fidx => free[s] # <<>>
    BY DEF FreezeSwap
  <2> QED BY <2>1, OwnerTypes, EmptySeq
<1>6. s = fidx => active'[s] # NoBuf /\ buf[s][active'[s]] = <<>>
  BY <1>4, <1>5, OwnerTypes DEF FreeEmpty
<1>7. /\ Len(batches) \in Nat /\ Frozing = Len(batches) + 1 /\ Filling = Len(batches) + 2
      /\ active[s] # NoBuf
  BY PendingType, OwnerTypes
<1>8. Points(s, Filling) = buf[s][active[s]] /\ (s = fidx => Points(s, Frozing) = <<>>)
  BY <1>1, <1>7 DEF Points, Slot
<1>9. ASSUME NEW k \in 1 .. Filling
      PROVE  Points(s, k)' = IF s # fidx \/ k <= Len(batches) THEN Points(s, k)
                             ELSE IF k = Filling THEN <<>> ELSE Points(s, Filling)
  <2>1. CASE s # fidx \/ k <= Len(batches)
    BY <1>2, <1>3, <1>4, <2>1 DEF Points, Slot
  <2>2. CASE s = fidx /\ k = Filling
    BY <1>2, <1>3, <1>6, <1>7, <2>2 DEF Points, Slot
  <2>3. CASE s = fidx /\ k = Frozing
    BY <1>2, <1>3, <1>4, <1>7, <1>8, <2>3 DEF Points, Slot
  <2> QED BY <1>7, <2>1, <2>2, <2>3
<1> QED BY <1>1, <1>3, <1>4, <1>5, <1>8, <1>9

\* The points of the youngest slot move to the empty slot before it.
LEMMA SwapChain ==
  ASSUME IInv, NoAliasing, PointsInv, FreezeSwap, NEW s \in Shard
  PROVE  Chain(s)'
<1>1. log' = log /\ accepted' = accepted
  BY DEF FreezeSwap, workerVars
<1>2. FreeEmpty /\ Chain(s)
  BY DEF PointsInv
<1>3. CASE s # fidx
  <2>1. Pending' = Pending /\ \A k \in Pending : Points(s, k)' = Points(s, k)
    BY <1>2, <1>3, SwapEffect, PendingType
  <2> QED BY <1>1, <1>2, <2>1, ChainSame
<1>4. CASE s = fidx
  <2>1. PICK f \in Pending, g \in Pending : f = Frozing /\ g = Filling /\ f < g
    BY PendingType DEF Pending
  <2>2. /\ Pending' = Pending
        /\ Points(s, f) = <<>> /\ Points(s, f)' = Points(s, g) /\ Points(s, g)' = <<>>
        /\ \A k \in Pending : k # f /\ k # g => Points(s, k)' = Points(s, k) /\ k < f
        /\ f \in Nat /\ g = f + 1 /\ \A k \in Pending : k \in Nat /\ k <= g
    <3>1. \A k \in Pending : k \in 1 .. Filling /\ k \in Nat /\ k <= g
      BY <2>1, PendingType
    <3>2. Len(batches) \in Nat /\ f = Len(batches) + 1 /\ g = Len(batches) + 2
      BY <2>1, PendingType
    <3>3. Points(s, f)' = Points(s, g) /\ Points(s, g)' = <<>> /\ Points(s, f) = <<>> /\ Pending' = Pending
      BY <1>2, <1>4, <2>1, <3>1, <3>2, SwapEffect
    <3>4. ASSUME NEW k \in Pending, k # f, k # g PROVE Points(s, k)' = Points(s, k) /\ k < f
      <4>1. k <= Len(batches)
        BY <3>1, <3>2, <3>4
      <4> QED BY <1>2, <3>1, <3>2, <4>1, SwapEffect
    <3> QED BY <3>1, <3>2, <3>3, <3>4
  <2>3. DOMAIN <<>> = {}
    OBVIOUS
  <2>4. SlotOrdered(s)'
    BY <1>1, <1>2, <2>2, <2>3 DEF Chain, SlotOrdered
  <2>5. SlotsOrdered(s)'
    <3> SUFFICES ASSUME NEW k \in Pending, NEW l \in Pending, k < l,
                        NEW i \in DOMAIN Points(s, k)', NEW j \in DOMAIN Points(s, l)'
                 PROVE  Points(s, k)'[i] < Points(s, l)'[j]
      BY <2>2 DEF SlotsOrdered
    <3>1. k # g /\ l # g
      BY <2>2, <2>3
    <3>2. k # f /\ Points(s, k)' = Points(s, k)
      BY <2>2, <3>1
    <3>3. CASE l = f
      BY <1>2, <2>2, <3>2, <3>3 DEF Chain, SlotsOrdered
    <3>4. CASE l # f
      BY <1>2, <2>2, <3>1, <3>2, <3>4 DEF Chain, SlotsOrdered
    <3> QED BY <3>3, <3>4
  <2>6. Covered(s)'
    <3> SUFFICES ASSUME NEW m \in Len(log[s]) + 1 .. accepted[s]
                 PROVE  \E k \in Pending : \E i \in DOMAIN Points(s, k)' : Points(s, k)'[i] = m
      BY <1>1, <2>2 DEF Covered
    <3>1. PICK k \in Pending : \E i \in DOMAIN Points(s, k) : Points(s, k)[i] = m
      BY <1>2 DEF Chain, Covered
    <3>2. CASE k = g
      BY <2>2, <3>1, <3>2
    <3>3. CASE k # g
      <4>1. k # f
        BY <2>2, <2>3, <3>1
      <4> QED BY <2>2, <3>1, <3>3, <4>1
    <3> QED BY <3>2, <3>3
  <2> QED BY <2>4, <2>5, <2>6 DEF Chain
<1> QED BY <1>3, <1>4

\* FreezeCount leaves the points alone; an empty batch has none.
LEMMA CountEffect ==
  ASSUME IInv, NoAliasing, CountsFrozen, FreezeCount, NEW s \in Shard
  PROVE  /\ Filling' = Filling /\ Frozing' = Frozing /\ Pending' = Pending
         /\ \A k \in 1 .. Filling : Points(s, k)' = Points(s, k)
         /\ fcount = 0 => Points(s, Frozing) = <<>> /\ fshards[s] \in BufId
<1>1. batches' = batches /\ queue' = queue /\ kpc' = kpc /\ active' = active
  BY DEF FreezeCount, chanVars, workerVars
<1>2. Filling' = Filling /\ Frozing' = Frozing /\ Pending' = Pending
  BY <1>1 DEF Filling, Frozing, Pending, FirstPending, FirstQueued
<1>3. fshards[s] \in BufId /\ (fcount = 0 => Points(s, Frozing) = <<>>)
  BY OwnerTypes DEF FreezeCount, IInv, FreezeInv, Collected, CollectedAll, CountsFrozen
<1>4. ASSUME NEW k \in 1 .. Filling PROVE Points(s, k)' = Points(s, k)
  <2>1. CASE fcount # 0
    BY <1>1, <1>2, <2>1 DEF FreezeCount, Points, Slot
  <2>2. CASE fcount = 0
    <3>1. /\ buf'[s] = [buf[s] EXCEPT ![fshards[s]] = <<>>] /\ fshards'[s] = NoBuf
      BY <2>2 DEF FreezeCount
    <3>2. \A b \in BufId : b # fshards[s] => buf'[s][b] = buf[s][b]
      BY <3>1 DEF IInv, TypeOK, ShardType
    <3>3. CASE k = Frozing
      <4>1. Points(s, k)' = <<>>
        BY <1>1, <1>2, <3>1, <3>3, PendingType DEF Points, Slot
      <4> QED BY <1>3, <2>2, <3>3, <4>1
    <3>4. CASE k # Frozing
      <4>1. Slot(s, k)' = Slot(s, k)
        BY <1>1, <1>2, <3>4 DEF Slot
      <4>2. Slot(s, k) # fshards[s]
        <5>1. Frozing \in 1 .. Filling /\ Slot(s, Frozing) = fshards[s] /\ fshards[s] # NoBuf
          BY <1>3, PendingType, OwnerTypes DEF Slot
        <5> QED BY <3>4, <5>1, SlotsDistinct
      <4> QED BY <3>2, <4>1, <4>2, PointsType DEF Points
    <3> QED BY <3>3, <3>4
  <2> QED BY <2>1, <2>2
<1> QED BY <1>2, <1>3, <1>4

\* FreezeSend puts a new slot behind the batch it publishes.
LEMMA SendEffect ==
  ASSUME IInv, FreezeSend, NEW s \in Shard
  PROVE  /\ Len(batches') = Len(batches) + 1 /\ Filling' = Filling + 1 /\ Frozing' = Filling
         /\ FirstPending' = FirstPending /\ FirstQueued' = FirstQueued
         /\ Pending' = Pending \cup {Filling + 1}
         /\ \A k \in 1 .. Filling + 1 :
              Points(s, k)' = IF k <= Frozing THEN Points(s, k)
                              ELSE IF k = Filling THEN <<>> ELSE Points(s, Filling)
<1>1. /\ batches \in Seq(Batch) /\ queue \in Seq(Nat) /\ active' = active /\ buf' = buf /\ kpc' = kpc
      /\ batches' = Append(batches, [shards |-> fshards, done |-> FALSE, err |-> FALSE])
      /\ queue' = Append(queue, Len(batches) + 1)
  BY DEF FreezeSend, IInv, TypeOK, BatchType, shardVars, workerVars
<1>2. /\ Len(batches') = Len(batches) + 1 /\ Len(queue') = Len(queue) + 1
      /\ \A k \in 1 .. Len(batches) : batches'[k] = batches[k]
      /\ batches'[Len(batches) + 1] = [shards |-> fshards, done |-> FALSE, err |-> FALSE]
  BY <1>1
<1>3. Len(batches) \in Nat /\ Len(queue) \in Nat /\ Frozing = Len(batches) + 1 /\ Filling = Len(batches) + 2
  BY PendingType
<1>4. Filling' = Filling + 1 /\ Frozing' = Filling /\ FirstQueued' = FirstQueued
  BY <1>2, <1>3 DEF Filling, Frozing, FirstQueued
<1>5. FirstPending' = FirstPending
  BY <1>1, <1>4 DEF FirstPending
<1>6. Pending' = Pending \cup {Filling + 1}
  BY <1>3, <1>4, <1>5, PendingType DEF Pending
<1>7. fshards'[s] = NoBuf /\ active[s] # NoBuf
  BY OwnerTypes DEF FreezeSend
<1>8. ASSUME NEW k \in 1 .. Filling + 1
      PROVE  Points(s, k)' = IF k <= Frozing THEN Points(s, k)
                             ELSE IF k = Filling THEN <<>> ELSE Points(s, Filling)
  <2>1. CASE k <= Len(batches)
    BY <1>1, <1>2, <1>3, <2>1 DEF Points, Slot
  <2>2. CASE k = Frozing
    BY <1>1, <1>2, <1>3, <2>2 DEF Points, Slot
  <2>3. CASE k = Filling
    BY <1>2, <1>3, <1>4, <1>7, <2>3 DEF Points, Slot
  <2>4. CASE k = Filling + 1
    BY <1>1, <1>2, <1>3, <1>4, <1>7, <2>4 DEF Points, Slot
  <2> QED BY <1>3, <2>1, <2>2, <2>3, <2>4
<1> QED BY <1>2, <1>4, <1>5, <1>6, <1>8


\* The chain over the slots of a published batch.
LEMMA SendChain ==
  ASSUME IInv, PointsInv, FreezeSend, NEW s \in Shard
  PROVE  Chain(s)'
<1>1. log' = log /\ accepted' = accepted
  BY DEF FreezeSend, workerVars, shardVars
<1>2. Chain(s)
  BY DEF PointsInv
<1>3. PICK g \in Pending : g = Filling
  BY PendingType DEF Pending
<1>4. /\ Pending' = Pending \cup {g + 1}
      /\ Points(s, g)' = <<>> /\ Points(s, g + 1)' = Points(s, g)
      /\ \A k \in Pending : k # g => Points(s, k)' = Points(s, k)
      /\ g \in Nat /\ \A k \in Pending : k \in Nat /\ k <= g
  <2>1. \A k \in Pending : k \in 1 .. Filling /\ k \in Nat /\ k <= g
    BY <1>3, PendingType
  <2>2. Frozing \in Nat /\ g = Frozing + 1
    BY <1>3, PendingType
  <2>3. Points(s, g)' = <<>> /\ Points(s, g + 1)' = Points(s, g) /\ Pending' = Pending \cup {g + 1}
    BY <1>3, <2>1, <2>2, SendEffect
  <2>4. ASSUME NEW k \in Pending, k # g PROVE Points(s, k)' = Points(s, k)
    <3>1. k <= Frozing
      BY <2>1, <2>2, <2>4
    <3> QED BY <1>3, <2>1, <2>2, <3>1, SendEffect
  <2> QED BY <2>1, <2>2, <2>3, <2>4
<1>5. DOMAIN <<>> = {}
  OBVIOUS
<1>6. SlotOrdered(s)'
  <2> SUFFICES ASSUME NEW k \in Pending', NEW i \in DOMAIN Points(s, k)'
               PROVE  /\ Points(s, k)'[i] = Points(s, k)'[1] + i - 1
                      /\ Points(s, k)'[i] \in Len(log[s]) + 1 .. accepted[s]
    BY <1>1 DEF SlotOrdered
  <2>1. CASE k = g + 1
    BY <1>2, <1>4, <2>1 DEF Chain, SlotOrdered
  <2>2. CASE k # g + 1
    BY <1>2, <1>4, <1>5, <2>2 DEF Chain, SlotOrdered
  <2> QED BY <2>1, <2>2
<1>7. SlotsOrdered(s)'
  <2> SUFFICES ASSUME NEW k \in Pending', NEW l \in Pending', k < l,
                      NEW i \in DOMAIN Points(s, k)', NEW j \in DOMAIN Points(s, l)'
               PROVE  Points(s, k)'[i] < Points(s, l)'[j]
    BY DEF SlotsOrdered
  <2>1. k # g /\ l # g
    BY <1>4, <1>5
  <2>2. k # g + 1 /\ k \in Pending /\ Points(s, k)' = Points(s, k) /\ k < g
    BY <1>4, <2>1
  <2>3. CASE l = g + 1
    BY <1>2, <1>4, <2>2, <2>3 DEF Chain, SlotsOrdered
  <2>4. CASE l # g + 1
    BY <1>2, <1>4, <2>1, <2>2, <2>4 DEF Chain, SlotsOrdered
  <2> QED BY <2>3, <2>4
<1>8. Covered(s)'
  <2> SUFFICES ASSUME NEW m \in Len(log[s]) + 1 .. accepted[s]
               PROVE  \E k \in Pending' : \E i \in DOMAIN Points(s, k)' : Points(s, k)'[i] = m
    BY <1>1 DEF Covered
  <2>1. PICK k \in Pending : \E i \in DOMAIN Points(s, k) : Points(s, k)[i] = m
    BY <1>2 DEF Chain, Covered
  <2>2. CASE k = g
    BY <1>4, <2>1, <2>2
  <2>3. CASE k # g
    BY <1>4, <2>1, <2>3
  <2> QED BY <2>2, <2>3
<1> QED BY <1>6, <1>7, <1>8 DEF Chain

\* Recycling touches no slot but the worker's, which is not pending any more.
LEMMA RecycleSlots ==
  ASSUME IInv, NoAliasing, recycleBatch, NEW s \in Shard
  PROVE  /\ Filling' = Filling /\ Frozing' = Frozing /\ Pending' = Pending
         /\ FirstQueued' = FirstQueued
         /\ \A k \in 1 .. Filling : k # wb => Points(s, k)' = Points(s, k)
         /\ \A k \in Pending : k # wb
<1>1. /\ kpc = "recycle" /\ kpc' # "commit" /\ queue' = queue
      /\ active' = active /\ fshards' = fshards
  BY DEF recycleBatch, freezeVars
<1>2. /\ Len(batches') = Len(batches) /\ Len(batches) \in Nat /\ wb \in DOMAIN batches
      /\ DOMAIN batches = 1 .. Len(batches)
  <2>1. batches \in Seq(Batch) /\ DOMAIN batches' = DOMAIN batches /\ wb \in DOMAIN batches
    BY RecycleEffect DEF IInv, TypeOK, BatchType
  <2>2. batches' = [batches EXCEPT ![wb] = [batches[wb] EXCEPT !.shards = [batches[wb].shards EXCEPT ![kidx] = NoBuf]]]
    BY DEF recycleBatch
  <2> QED BY <2>1, <2>2
<1>3. Filling' = Filling /\ Frozing' = Frozing /\ Pending' = Pending /\ FirstQueued' = FirstQueued
  BY <1>1, <1>2 DEF Filling, Frozing, Pending, FirstPending, FirstQueued
<1>4. \A k \in Pending : k # wb
  BY <1>1, PendingType DEF Pending, FirstPending, IInv, QueueInv, WorkerIdle
<1>5. ASSUME NEW k \in 1 .. Filling, k # wb PROVE Points(s, k)' = Points(s, k)
  <2>1. Slot(s, k)' = Slot(s, k)
    BY <1>1, <1>2, <1>3, <1>5, RecycleEffect DEF Slot
  <2>2. s = kidx => Slot(s, k) # batches[wb].shards[s]
    <3>1. wb \in 1 .. Filling /\ Slot(s, wb) = batches[wb].shards[s]
      BY <1>2 DEF Slot, Filling
    <3>2. s = kidx => batches[wb].shards[s] # NoBuf
      BY RecycleEffect, OwnerTypes
    <3> QED BY <1>5, <3>1, <3>2, SlotsDistinct
  <2>3. \A b \in BufId : b = Slot(s, k) => buf'[s][b] = buf[s][b]
    BY <2>2, RecycleEffect
  <2> QED BY <2>1, <2>3, PointsType DEF Points
<1> QED BY <1>3, <1>4, <1>5

Commits == commitOK \/ commitFail

Appends == \E w \in Writers, s \in Shard : appendPoint(w, s)

\* Every other step leaves the points alone.
LEMMA PointsKept ==
  ASSUME IInv, [Next]_vars, ~Moves, ~Appends
  PROVE  /\ buf' = buf /\ activeCount' = activeCount /\ accepted' = accepted
         /\ activePoints' = activePoints
         /\ (log' = log /\ lost' = lost) \/ Commits
         /\ \A s \in Shard, k \in 1 .. Filling : Points(s, k)' = Points(s, k)
<1>1. buf' = buf /\ activeCount' = activeCount /\ accepted' = accepted /\ activePoints' = activePoints
  BY DEF Moves, Appends, Next, WriterStep, AddStart, maybeSignal, WaitLock, WaitCheckError,
     WaitCheckSpace, CondWait, WaitRelock, FreezeStep, FreezeLoad, FreezeNotify, FreezeBroadcast,
     FreezeSendPanic, FreezeLock, TriggerStep, TriggerSignal, TriggerTick, TriggerReturn,
     TriggerStop, FlusherStep, FlushStart, FlushReturn, CloserStep, CloseStart, CloseNotify,
     CloseBroadcast, CloseStop, CloseTriggerDone, CloseQueue, CloseReturn, WorkerStep,
     WorkerReceive, WorkerExit, setError, WorkerNotify, WorkerBroadcast, WorkerDone, Terminated,
     vars, commitOK, commitFail, shardVars
<1>2. (log' = log /\ lost' = lost) \/ Commits
  BY DEF Moves, Appends, Commits, Next, WriterStep, AddStart, maybeSignal, WaitLock, WaitCheckError,
     WaitCheckSpace, CondWait, WaitRelock, FreezeStep, FreezeLoad, FreezeNotify, FreezeBroadcast,
     FreezeSendPanic, FreezeLock, TriggerStep, TriggerSignal, TriggerTick, TriggerReturn,
     TriggerStop, FlusherStep, FlushStart, FlushReturn, CloserStep, CloseStart, CloseNotify,
     CloseBroadcast, CloseStop, CloseTriggerDone, CloseQueue, CloseReturn, WorkerStep,
     WorkerReceive, WorkerExit, setError, WorkerNotify, WorkerBroadcast, WorkerDone, Terminated,
     vars, workerVars
<1> QED BY <1>1, <1>2, SlotsKept

\* Every step of the process keeps the log and the chain.
LEMMA ChainStep ==
  ASSUME IInv, NoAliasing, PointsInv, [Next]_vars
  PROVE  LogOrdered' /\ \A s \in Shard : Chain(s)'
<1>1. CASE Terminated \/ UNCHANGED vars
  <2>1. UNCHANGED vars
    BY <1>1 DEF Terminated
  <2>2. ~Moves /\ ~Appends /\ ~Commits
    <3>1. fidx' = fidx /\ fz' = fz /\ kidx' = kidx /\ kpc' = kpc /\ accepted' = accepted
      BY <2>1 DEF vars, freezeVars, workerVars, shardVars
    <3>2. ~FreezeSwap /\ ~recycleBatch
      BY <3>1 DEF FreezeSwap, recycleBatch, IInv, FreezeInv, QueueInv, Shard
    <3>3. ~FreezeCount /\ ~FreezeSend /\ ~Commits
      BY <3>1 DEF FreezeCount, FreezeSend, FreezeReturn, Commits, commitOK, commitFail
    <3>4. ~Appends
      BY <3>1 DEF Appends, appendPoint, IInv, TypeOK, ShardType
    <3> QED BY <3>2, <3>3, <3>4 DEF Moves
  <2>3. log' = log /\ accepted' = accepted
    BY <2>1 DEF vars, shardVars, workerVars
  <2>4. Pending' = Pending /\ Pending \subseteq 1 .. Filling
    BY <2>2, PendingKept, PendingType DEF Commits
  <2> QED BY <2>2, <2>3, <2>4, PointsKept, ChainSame DEF PointsInv, LogOrdered
<1>2. CASE ~panicked /\ Next
  <2>1. CASE Appends
    BY <1>2, <2>1, AppendChain DEF Appends
  <2>2. CASE Commits
    BY <1>2, <2>2, CommitChain DEF Commits
  <2>3. CASE Moves
    <3>1. log' = log /\ accepted' = accepted
      BY <2>3 DEF Moves, FreezeSwap, FreezeCount, FreezeSend, recycleBatch, shardVars, workerVars
    <3>2. LogOrdered'
      BY <3>1 DEF PointsInv, LogOrdered
    <3>3. ASSUME NEW s \in Shard PROVE Chain(s)'
      <4>1. Pending \subseteq 1 .. Filling /\ Chain(s) /\ CountsFrozen
        BY PendingType DEF PointsInv
      <4>2. CASE FreezeCount
        BY <3>1, <4>1, <4>2, CountEffect, ChainSame
      <4>3. CASE recycleBatch
        <5>1. Pending' = Pending /\ \A k \in Pending : Points(s, k)' = Points(s, k)
          BY <4>1, <4>3, RecycleSlots
        <5> QED BY <3>1, <4>1, <5>1, ChainSame
      <4> QED BY <2>3, <4>2, <4>3, SwapChain, SendChain DEF Moves
    <3> QED BY <3>2, <3>3
  <2>4. CASE ~Appends /\ ~Commits /\ ~Moves
    <3>1. log' = log /\ accepted' = accepted
      BY <2>4, PointsKept
    <3>2. Pending' = Pending /\ Pending \subseteq 1 .. Filling
      BY <2>4, PendingKept, PendingType DEF Commits
    <3> QED BY <2>4, <3>1, <3>2, PointsKept, ChainSame DEF PointsInv, LogOrdered
  <2> QED BY <2>1, <2>2, <2>3, <2>4
<1> QED BY <1>1, <1>2 DEF Next


(***************************************************************************)
(* Free buffers and counters.                                              *)
(***************************************************************************)

\* A free buffer is empty: recycling resets it, and only the active one is filled.
LEMMA FreeEmptyStep ==
  ASSUME IInv, NoAliasing, PointsInv, [Next]_vars, ~panicked \/ ~Appends
  PROVE  FreeEmpty'
<1> SUFFICES ASSUME NEW s \in Shard, NEW i \in DOMAIN free'[s] PROVE buf'[s][free'[s][i]] = <<>>
  BY DEF FreeEmpty
<1>1. /\ \A j \in DOMAIN free[s] : buf[s][free[s][j]] = <<>> /\ free[s][j] \in BufId
      /\ Len(free[s]) \in Nat /\ DOMAIN free[s] = 1 .. Len(free[s]) /\ free[s] \in Seq(BufId)
  BY OwnerTypes DEF PointsInv, FreeEmpty
<1>2. CASE FreezeSwap
  <2>1. buf' = buf /\ FreeEmpty
    BY <1>2 DEF FreezeSwap, PointsInv
  <2>2. free'[s] = free[s] \/ (Len(free[s]) >= 1 /\ free'[s] = SubSeq(free[s], 1, Len(free[s]) - 1))
    <3>1. CASE s # fidx
      BY <1>2, <2>1, <3>1, SwapEffect
    <3>2. CASE s = fidx
      <4>1. Len(free[s]) \in DOMAIN free[s] /\ free'[s] = SubSeq(free[s], 1, Len(free[s]) - 1)
        BY <1>2, <2>1, <3>2, SwapEffect
      <4> QED BY <1>1, <4>1
    <3> QED BY <3>1, <3>2
  <2>3. i \in DOMAIN free[s] /\ free'[s][i] = free[s][i]
    BY <1>1, <2>2
  <2> QED BY <1>1, <2>1, <2>3
<1>3. CASE FreezeCount
  <2>1. CASE fcount # 0
    BY <1>1, <1>3, <2>1 DEF FreezeCount
  <2>2. CASE fcount = 0
    <3>1. /\ buf'[s] = [buf[s] EXCEPT ![fshards[s]] = <<>>]
          /\ free'[s] = Append(free[s], fshards[s])
      BY <1>3, <2>2 DEF FreezeCount
    <3>2. fshards[s] \in BufId
      BY <1>3, <2>2, CountEffect DEF PointsInv
    <3>3. \A b \in BufId : buf'[s][b] = IF b = fshards[s] THEN <<>> ELSE buf[s][b]
      BY <3>1, <3>2 DEF IInv, TypeOK, ShardType
    <3> QED BY <1>1, <3>1, <3>2, <3>3
  <2> QED BY <2>1, <2>2
<1>4. CASE FreezeSend
  BY <1>1, <1>4 DEF FreezeSend, shardVars
<1>5. CASE recycleBatch
  <2>1. CASE s # kidx
    BY <1>1, <1>5, <2>1, RecycleEffect
  <2>2. CASE s = kidx
    <3>1. /\ free'[s] = Append(free[s], batches[wb].shards[s]) /\ batches[wb].shards[s] \in BufId
          /\ \A b \in BufId : buf'[s][b] = IF b = batches[wb].shards[s] THEN <<>> ELSE buf[s][b]
      BY <1>5, <2>2, RecycleEffect
    <3> QED BY <1>1, <3>1
  <2> QED BY <2>1, <2>2
<1>6. CASE Appends
  <2>1. PICK w \in Writers, t \in Shard : appendPoint(w, t)
    BY <1>6 DEF Appends
  <2>2. free' = free
    BY <2>1 DEF appendPoint
  <2>3. s = t => free[s][i] # active[t]
    BY <2>2, AliasingByShard DEF FreeDistinct
  <2>4. ~panicked
    BY <1>6
  <2> QED BY <1>1, <2>1, <2>2, <2>3, <2>4, AppendEffect
<1>7. CASE ~Moves /\ ~Appends
  BY <1>1, <1>7, OwnersKept, PointsKept
<1> QED BY <1>2, <1>3, <1>4, <1>5, <1>6, <1>7 DEF Moves

\* activeCount is the length of the active buffer.
LEMMA CountsActiveStep ==
  ASSUME IInv, NoAliasing, PointsInv, [Next]_vars, ~panicked \/ ~Appends
  PROVE  CountsActive'
<1> SUFFICES ASSUME NEW s \in Shard PROVE activeCount'[s] = Len(buf'[s][active'[s]])
  BY DEF CountsActive
<1>1. activeCount[s] = Len(buf[s][active[s]]) /\ active[s] \in BufId /\ active[s] # fshards[s]
  BY OwnerTypes, AliasingByShard DEF PointsInv, CountsActive, FreeDistinct
<1>2. CASE FreezeSwap
  <2>1. buf' = buf /\ FreeEmpty
    BY <1>2 DEF FreezeSwap, PointsInv
  <2>2. activeCount'[s] = IF s = fidx THEN 0 ELSE activeCount[s]
    BY <1>2 DEF FreezeSwap, IInv, TypeOK, ShardType
  <2>3. CASE s # fidx
    BY <1>1, <1>2, <2>1, <2>2, <2>3, SwapEffect
  <2>4. CASE s = fidx
    <3>1. buf[s][active'[s]] = <<>>
      BY <1>2, <2>1, <2>4, SwapEffect DEF FreeEmpty
    <3> QED BY <2>1, <2>2, <2>4, <3>1
  <2> QED BY <2>3, <2>4
<1>3. CASE FreezeCount
  <2>1. active' = active /\ activeCount' = activeCount
    BY <1>3 DEF FreezeCount
  <2>2. buf'[s][active[s]] = buf[s][active[s]]
    <3>1. CASE fcount # 0
      BY <1>3, <3>1 DEF FreezeCount
    <3>2. CASE fcount = 0
      <4>1. buf'[s] = [buf[s] EXCEPT ![fshards[s]] = <<>>]
        BY <1>3, <3>2 DEF FreezeCount
      <4> QED BY <1>1, <4>1 DEF IInv, TypeOK, ShardType
    <3> QED BY <3>1, <3>2
  <2> QED BY <1>1, <2>1, <2>2
<1>4. CASE FreezeSend
  BY <1>1, <1>4 DEF FreezeSend, shardVars
<1>5. CASE recycleBatch
  <2>1. active' = active /\ activeCount' = activeCount
    BY <1>5 DEF recycleBatch
  <2>2. s = kidx => batches[wb].shards[s] # active[s]
    BY <1>5, RecycleEffect, OwnerTypes, AliasingByShard DEF BatchDistinct
  <2> QED BY <1>1, <1>5, <2>1, <2>2, RecycleEffect
<1>6. CASE Appends
  <2>1. PICK w \in Writers, t \in Shard : appendPoint(w, t)
    BY <1>6 DEF Appends
  <2>2. active' = active /\ activeCount'[s] = IF s = t THEN activeCount[s] + 1 ELSE activeCount[s]
    BY <2>1 DEF appendPoint, IInv, TypeOK, ShardType
  <2>3. ~panicked
    BY <1>6
  <2>4. buf'[s][active[s]] = IF s = t THEN Append(buf[s][active[s]], accepted[s] + 1) ELSE buf[s][active[s]]
    BY <1>1, <2>1, <2>3, AppendEffect
  <2>5. buf[s][active[s]] \in Seq(Nat) /\ accepted[s] + 1 \in Nat
    BY <1>1 DEF IInv, TypeOK, ShardType
  <2> QED BY <1>1, <2>2, <2>4, <2>5
<1>7. CASE ~Moves /\ ~Appends
  BY <1>1, <1>7, OwnersKept, PointsKept
<1> QED BY <1>2, <1>3, <1>4, <1>5, <1>6, <1>7 DEF Moves

\* A freeze that has counted nothing has collected nothing.
LEMMA CountsFrozenStep ==
  ASSUME IInv, NoAliasing, PointsInv, [Next]_vars, ~panicked \/ ~Appends
  PROVE  CountsFrozen'
<1> SUFFICES ASSUME fz' \in {"swap", "count"}, fcount' = 0, NEW s \in Shard
             PROVE  Points(s, Frozing)' = <<>>
  BY DEF CountsFrozen
<1>1. PICK f \in 1 .. Filling : f = Frozing
  BY PendingType
<1>2. fz \in {"swap", "count"} /\ fcount = 0 => Points(s, f) = <<>>
  BY <1>1 DEF PointsInv, CountsFrozen
<1>3. CASE FreezeSwap
  <2>1. /\ fcount' = fcount + activeCount[fidx] /\ fz = "swap" /\ fidx \in Shard
        /\ fcount \in Nat /\ activeCount[fidx] \in Nat
    BY <1>3 DEF FreezeSwap, countAdded, IInv, TypeOK, ShardType, FreezeType, FreezeInv
  <2>2. fcount = 0 /\ activeCount[fidx] = 0
    BY <2>1
  <2>3. FreeEmpty
    BY DEF PointsInv
  <2>4. CASE s # fidx
    BY <1>1, <1>2, <1>3, <2>1, <2>2, <2>3, <2>4, SwapEffect
  <2>5. CASE s = fidx
    <3>1. Points(s, Filling) = buf[s][active[s]]
      BY PendingType, OwnerTypes DEF Points, Slot
    <3>2. buf[s][active[s]] = <<>>
      <4>1. buf[s][active[s]] \in Seq(Nat) /\ Len(buf[s][active[s]]) = 0
        BY <2>2, <2>5, OwnerTypes DEF PointsInv, CountsActive, IInv, TypeOK, ShardType
      <4> QED BY <4>1, EmptySeq
    <3>3. f > Len(batches) /\ f # Filling /\ ~(f <= Len(batches))
      BY <1>1, PendingType
    <3>4. Points(s, f)' = <<>>
      BY <1>3, <2>3, <2>5, <3>1, <3>2, <3>3, SwapEffect
    <3> QED BY <1>1, <1>3, <2>3, <3>4, SwapEffect
  <2> QED BY <2>4, <2>5
<1>4. CASE FreezeCount \/ FreezeSend
  BY <1>4 DEF FreezeCount, FreezeSend, FreezeReturn
<1>5. CASE FreezeLoad
  <2>1. Points(s, f) = <<>>
    <3>1. fshards[s] = NoBuf
      BY <1>5 DEF FreezeLoad, IInv, FreezeInv, Collected, CollectedAll
    <3> QED BY <1>1, <3>1, PendingType DEF Points, Slot
  <2>2. ~Moves /\ ~Appends
    <3>1. shardVars' = shardVars /\ kpc' = kpc /\ batches' = batches
      BY <1>5 DEF FreezeLoad, workerVars, chanVars
    <3>2. ~FreezeSwap /\ ~FreezeCount /\ ~FreezeSend
      BY <1>5 DEF FreezeLoad, FreezeSwap, FreezeCount, FreezeSend
    <3>3. ~recycleBatch
      <4>1. kidx' = kidx /\ kidx \in Nat
        BY <1>5 DEF FreezeLoad, workerVars, IInv, TypeOK, WorkerType
      <4> QED BY <4>1 DEF recycleBatch
    <3>4. ~Appends
      BY <3>1 DEF Appends, appendPoint, shardVars, IInv, TypeOK, ShardType
    <3> QED BY <3>2, <3>3, <3>4 DEF Moves
  <2> QED BY <1>1, <2>1, <2>2, PointsKept, SlotsKept
<1>6. CASE recycleBatch
  <2>1. fz' = fz /\ fcount' = fcount
    BY <1>6 DEF recycleBatch, freezeVars
  <2>2. wb # f
    BY <1>1, PendingType, RecycleEffect, OwnerTypes, <1>6
  <2> QED BY <1>1, <1>2, <1>6, <2>1, <2>2, RecycleSlots
<1>7. CASE Appends
  <2>1. PICK w \in Writers, t \in Shard : appendPoint(w, t)
    BY <1>7 DEF Appends
  <2>2. fz' = fz /\ fcount' = fcount
    BY <2>1 DEF appendPoint, freezeVars
  <2>3. ~panicked /\ f # Filling
    BY <1>1, <1>7, PendingType
  <2>4. Points(s, f)' = Points(s, f)
    BY <2>1, <2>3, AppendEffect
  <2>5. Frozing' = Frozing
    BY <2>1, <2>3, AppendEffect, SlotsKept
  <2> QED BY <1>1, <1>2, <2>2, <2>4, <2>5
<1>8. CASE ~Moves /\ ~Appends /\ ~FreezeLoad
  <2>1. fcount' = fcount /\ (fz' \in {"swap", "count"} => fz' = fz)
    BY <1>8 DEF Moves, Next, WriterStep, AddStart, maybeSignal, WaitLock, WaitCheckError,
     WaitCheckSpace, CondWait, WaitRelock, FreezeStep, FreezeNotify, FreezeBroadcast,
     FreezeSendPanic, FreezeLock, TriggerStep, TriggerSignal, TriggerTick, TriggerReturn,
     TriggerStop, FlusherStep, FlushStart, FlushReturn, CloserStep, CloseStart, CloseNotify,
     CloseBroadcast, CloseStop, CloseTriggerDone, CloseQueue, CloseReturn, WorkerStep,
     WorkerReceive, WorkerExit, setError, WorkerNotify, WorkerBroadcast, WorkerDone, Terminated,
     vars, commitOK, commitFail, Appends, freezeVars
  <2>2. Points(s, f)' = Points(s, f) /\ Frozing' = Frozing
    BY <1>8, PointsKept, SlotsKept
  <2> QED BY <1>1, <1>2, <2>1, <2>2
<1> QED BY <1>3, <1>4, <1>5, <1>6, <1>7, <1>8 DEF Moves

\* The active points of one shard are among all of them and counted by activeCount.
LEMMA ActiveOf ==
  ASSUME IInv, NEW s \in Shard
  PROVE  /\ activeCount[s] \in Nat
         /\ {s} \X (1 .. activeCount[s]) \subseteq ActivePoints
         /\ IsFiniteSet({s} \X (1 .. activeCount[s]))
         /\ Cardinality({s} \X (1 .. activeCount[s])) = activeCount[s]
<1>1. activeCount[s] \in Nat
  BY DEF IInv, TypeOK, ShardType
<1>2. IsFiniteSet(1 .. activeCount[s]) /\ Cardinality(1 .. activeCount[s]) = activeCount[s]
  <2>1. 1 \in Int /\ activeCount[s] \in Int
    BY <1>1
  <2>2. /\ IsFiniteSet(1 .. activeCount[s])
        /\ Cardinality(1 .. activeCount[s]) = IF 1 > activeCount[s] THEN 0 ELSE activeCount[s] - 1 + 1
    BY <2>1, FS_Interval, ZenonT(30)
  <2> QED BY <1>1, <2>2
<1>3. IsFiniteSet({s}) /\ Cardinality({s}) = 1
  BY FS_Singleton
<1>4. /\ IsFiniteSet({s} \X (1 .. activeCount[s]))
      /\ Cardinality({s} \X (1 .. activeCount[s])) = 1 * activeCount[s]
  <2> DEFINE I == 1 .. activeCount[s]
  <2>1. IsFiniteSet(I) /\ Cardinality(I) = activeCount[s]
    BY <1>2
  <2> HIDE DEF I
  <2>2. IsFiniteSet({s} \X I) /\ Cardinality({s} \X I) = Cardinality({s}) * Cardinality(I)
    BY <1>3, <2>1, FS_Product, ZenonT(30)
  <2>3. IsFiniteSet({s} \X I) /\ Cardinality({s} \X I) = 1 * activeCount[s]
    BY <1>3, <2>1, <2>2
  <2> QED BY <2>3 DEF I
<1>5. {s} \X (1 .. activeCount[s]) \subseteq ActivePoints
  BY DEF ActivePoints
<1> QED BY <1>1, <1>4, <1>5

\* activePoints counts the points in the active buffers, and those a freeze under way
\* has collected and not yet subtracted.
LEMMA CountsAllStep ==
  ASSUME IInv, NoAliasing, PointsInv, [Next]_vars, ~panicked \/ ~Appends
  PROVE  CountsAll'
<1> DEFINE Freezing == IF fz \in {"swap", "count"} THEN fcount ELSE 0
<1>1. /\ IsFiniteSet(ActivePoints) /\ activePoints = Cardinality(ActivePoints) + Freezing
      /\ fcount \in Nat /\ Cardinality(ActivePoints) \in Nat /\ activePoints \in Int
  BY FS_CardinalityType DEF PointsInv, CountsAll, IInv, TypeOK, ShardType, FreezeType
<1>2. CASE FreezeSwap
  <2> DEFINE Taken == {fidx} \X (1 .. activeCount[fidx])
  <2>1. fidx \in Shard /\ fz = "swap"
    BY <1>2 DEF FreezeSwap, IInv, FreezeInv
  <2>2. \A s \in Shard : activeCount'[s] = IF s = fidx THEN 0 ELSE activeCount[s]
    BY <1>2, <2>1 DEF FreezeSwap, IInv, TypeOK, ShardType
  <2>3. ActivePoints' = ActivePoints \ Taken
    BY <2>1, <2>2 DEF ActivePoints
  <2>4. /\ Taken \subseteq ActivePoints /\ IsFiniteSet(Taken) /\ Cardinality(Taken) = activeCount[fidx]
        /\ activeCount[fidx] \in Nat
    BY <2>1, ActiveOf
  <2> HIDE DEF Taken
  <2>5. ActivePoints \cap Taken = Taken
    BY <2>4
  <2>6. /\ IsFiniteSet(ActivePoints')
        /\ Cardinality(ActivePoints') = Cardinality(ActivePoints) - activeCount[fidx]
    BY <1>1, <2>3, <2>4, <2>5, FS_Difference
  <2>7. activePoints' = activePoints /\ fcount' = fcount + activeCount[fidx] /\ fz' \in {"swap", "count"}
    BY <1>2 DEF FreezeSwap, countAdded
  <2> QED BY <1>1, <2>1, <2>4, <2>6, <2>7 DEF CountsAll
<1>3. CASE FreezeCount
  <2>1. ActivePoints' = ActivePoints /\ fz = "count"
    BY <1>3 DEF FreezeCount, ActivePoints
  <2>2. CASE fcount = 0
    <3>1. activePoints' = activePoints /\ fz' = "idle"
      BY <1>3, <2>2 DEF FreezeCount, FreezeReturn
    <3> QED BY <1>1, <2>1, <2>2, <3>1 DEF CountsAll
  <2>3. CASE fcount # 0
    <3>1. activePoints' = activePoints - fcount /\ fz' = "notify"
      BY <1>3, <2>3 DEF FreezeCount, activeRemaining
    <3> QED BY <1>1, <2>1, <3>1 DEF CountsAll
  <2> QED BY <2>2, <2>3
<1>4. CASE FreezeSend
  <2>1. ActivePoints' = ActivePoints /\ activePoints' = activePoints
    BY <1>4 DEF FreezeSend, ActivePoints, shardVars
  <2>2. fz = "send" /\ fz' = "idle"
    BY <1>4 DEF FreezeSend, FreezeReturn
  <2> QED BY <1>1, <2>1, <2>2 DEF CountsAll
<1>5. CASE recycleBatch
  <2>1. ActivePoints' = ActivePoints /\ activePoints' = activePoints /\ fz' = fz /\ fcount' = fcount
    BY <1>5 DEF recycleBatch, ActivePoints, freezeVars
  <2> QED BY <1>1, <2>1 DEF CountsAll
<1>6. CASE Appends
  <2>1. PICK w \in Writers, t \in Shard : appendPoint(w, t)
    BY <1>6 DEF Appends
  <2> DEFINE new == <<t, activeCount[t] + 1>>
  <2>2. \A s \in Shard : /\ activeCount[s] \in Nat
                         /\ activeCount'[s] = IF s = t THEN activeCount[s] + 1 ELSE activeCount[s]
    BY <2>1 DEF appendPoint, IInv, TypeOK, ShardType
  <2>3. ActivePoints' = ActivePoints \cup {new} /\ new \notin ActivePoints
    <3>1. \A p : p \in ActivePoints <=> \E s \in Shard : p \in {s} \X (1 .. activeCount[s])
      BY DEF ActivePoints
    <3>2. \A p : p \in ActivePoints' <=> \E s \in Shard : p \in {s} \X (1 .. activeCount'[s])
      BY DEF ActivePoints
    <3>3. new \notin ActivePoints
      BY <2>2, <3>1
    <3>4. \A s \in Shard : {s} \X (1 .. activeCount'[s])
                             = ({s} \X (1 .. activeCount[s])) \cup (IF s = t THEN {new} ELSE {})
      <4> TAKE s \in Shard
      <4>1. 1 .. activeCount'[s] = (1 .. activeCount[s]) \cup (IF s = t THEN {activeCount[s] + 1} ELSE {})
        BY <2>2
      <4> QED BY <4>1
    <3>5. ActivePoints' \subseteq ActivePoints \cup {new}
      BY <3>1, <3>2, <3>4
    <3>6. ActivePoints \cup {new} \subseteq ActivePoints'
      BY <3>1, <3>2, <3>4
    <3> QED BY <3>3, <3>5, <3>6
  <2> HIDE DEF new
  <2>4. IsFiniteSet(ActivePoints') /\ Cardinality(ActivePoints') = Cardinality(ActivePoints) + 1
    BY <1>1, <2>3, FS_AddElement
  <2>5. activePoints' = activePoints + 1 /\ fz' = fz /\ fcount' = fcount
    BY <2>1 DEF appendPoint, freezeVars
  <2> QED BY <1>1, <2>4, <2>5 DEF CountsAll
<1>7. CASE ~Moves /\ ~Appends
  <2>1. ActivePoints' = ActivePoints /\ activePoints' = activePoints
    BY <1>7, PointsKept DEF ActivePoints
  <2>2. \/ fcount' = fcount /\ (fz' \in {"swap", "count"} <=> fz \in {"swap", "count"})
        \/ fcount' = 0 /\ fz \notin {"swap", "count"}
    BY <1>7 DEF IInv, FreezeInv, Moves, Next, WriterStep, AddStart, maybeSignal, WaitLock, WaitCheckError,
     WaitCheckSpace, CondWait, WaitRelock, FreezeStep, FreezeNotify, FreezeBroadcast, FreezeLoad,
     FreezeReturn,
     FreezeSendPanic, FreezeLock, TriggerStep, TriggerSignal, TriggerTick, TriggerReturn,
     TriggerStop, FlusherStep, FlushStart, FlushReturn, CloserStep, CloseStart, CloseNotify,
     CloseBroadcast, CloseStop, CloseTriggerDone, CloseQueue, CloseReturn, WorkerStep,
     WorkerReceive, WorkerExit, setError, WorkerNotify, WorkerBroadcast, WorkerDone, Terminated,
     vars, commitOK, commitFail, Appends, freezeVars
  <2> QED BY <1>1, <2>1, <2>2 DEF CountsAll
<1> QED BY <1>2, <1>3, <1>4, <1>5, <1>6, <1>7 DEF Moves

\* Nothing is appended once the process is gone.
LEMMA AppendAlive ==
  ASSUME IInv, [Next]_vars
  PROVE  ~panicked \/ ~Appends
<1>1. CASE Terminated \/ UNCHANGED vars
  <2>1. accepted' = accepted
    BY <1>1 DEF Terminated, vars, shardVars
  <2> QED BY <2>1 DEF Appends, appendPoint, IInv, TypeOK, ShardType
<1> QED BY <1>1 DEF Next

\* Every step keeps the points in place.
LEMMA PointsStep ==
  ASSUME IInv, NoAliasing, PointsInv, [Next]_vars
  PROVE  PointsInv'
<1>1. ~panicked \/ ~Appends
  BY AppendAlive
<1>2. FreeEmpty' /\ CountsActive' /\ CountsFrozen' /\ CountsAll'
  BY <1>1, FreeEmptyStep, CountsActiveStep, CountsFrozenStep, CountsAllStep
<1>3. LogOrdered' /\ \A s \in Shard : Chain(s)'
  BY ChainStep
<1> QED BY <1>2, <1>3 DEF PointsInv

\* At the start every buffer is empty and has one owner.
LEMMA InitPoints ==
  ASSUME Init
  PROVE  NoAliasing /\ PointsInv
<1>1. IInv
  BY InitInv
<1>2. 0 \in BufId /\ buffersPerShard \in Nat /\ buffersPerShard >= 4
  BY DEF BufId, buffersPerShard, ingestBufferHeadroom
<1>3. \A s \in Shard : /\ active[s] = 0 /\ fshards[s] = NoBuf
                       /\ DOMAIN free[s] = 1 .. buffersPerShard - 1
                       /\ \A i \in DOMAIN free[s] : free[s][i] = i /\ i \in BufId
  BY <1>2 DEF Init, BufId
<1>4. \A s \in Shard, b \in BufId : buf[s][b] = <<>>
  BY DEF Init
<1>5. batches = <<>> /\ queue = <<>> /\ Len(batches) = 0 /\ Len(queue) = 0 /\ DOMAIN batches = {}
  BY DEF Init
<1>6. NoAliasing
  <2> SUFFICES ASSUME NEW s \in Shard PROVE FreeDistinct(s) /\ BatchDistinct(s)
    BY AliasingByShard
  <2>1. FreeDistinct(s)
    BY <1>2, <1>3 DEF FreeDistinct
  <2>2. BatchDistinct(s)
    BY <1>5 DEF BatchDistinct
  <2> QED BY <2>1, <2>2
<1>7. FreeEmpty
  BY <1>3, <1>4 DEF FreeEmpty
<1>8. CountsActive
  BY <1>2, <1>3, <1>4 DEF CountsActive, Init
<1>9. CountsFrozen
  BY DEF CountsFrozen, Init
<1>10. CountsAll
  <2>1. ActivePoints = {}
    <3>1. \A s \in Shard : 1 .. activeCount[s] = {}
      BY DEF Init
    <3> QED BY <3>1 DEF ActivePoints
  <2>2. IsFiniteSet({}) /\ Cardinality({}) = 0
    BY FS_EmptySet
  <2> QED BY <2>1, <2>2 DEF CountsAll, Init
<1>11. LogOrdered
  BY DEF LogOrdered, Init
<1>12. ASSUME NEW s \in Shard PROVE Chain(s)
  <2>1. Frozing = 1 /\ Filling = 2
    BY <1>5 DEF Frozing, Filling
  <2>2. Pending \subseteq 1 .. 2
    BY <1>1, <2>1, PendingType
  <2>3. \A k \in Pending : Points(s, k) = <<>>
    <3>1. Slot(s, 1) = NoBuf /\ Slot(s, 2) = 0
      BY <1>3, <1>5, <2>1 DEF Slot
    <3>2. Points(s, 1) = <<>> /\ Points(s, 2) = buf[s][0]
      BY <3>1 DEF Points
    <3>3. \A k \in Pending : k = 1 \/ k = 2
      BY <2>2
    <3> QED BY <1>2, <1>4, <3>2, <3>3
  <2>4. Len(log[s]) = 0 /\ accepted[s] = 0
    BY DEF Init
  <2> QED BY <2>3, <2>4 DEF Chain, SlotOrdered, SlotsOrdered, Covered
<1> QED BY <1>6, <1>7, <1>8, <1>9, <1>10, <1>11, <1>12 DEF PointsInv

\* The owners of buffers and the points in them, in every reachable state.
THEOREM PointsInvariance == Spec => [](NoAliasing /\ PointsInv)
<1>1. Init => NoAliasing /\ PointsInv
  BY InitPoints
<1>2. IInv /\ NoAliasing /\ PointsInv /\ [Next]_vars => NoAliasing' /\ PointsInv'
  BY AliasStep, PointsStep
<1> QED BY <1>1, <1>2, Invariance, PTL DEF Spec

\* No ingest buffer ever has two owners: what append, commit and recycle touch outside
\* each other's locks is disjoint (write_batcher_buffer.go).
THEOREM BuffersDistinct == Spec => []NoAliasing
BY PointsInvariance, PTL

\* The worker hands the points of every shard to the WAL in acceptance order, without
\* gap and without duplicate.
THEOREM CommittedInOrder == Spec => []CommitInOrder
<1>1. PointsInv => CommitInOrder
  BY DEF PointsInv, LogOrdered, CommitInOrder
<1> QED BY <1>1, PointsInvariance, PTL

\* No accepted point is dropped by any interleaving of append, freeze, commit and recycle.
THEOREM PointsKeptSafe == Spec => []NoPointDropped
<1>1. IInv /\ PointsInv => NoPointDropped
  <2> SUFFICES ASSUME IInv, PointsInv, NEW s \in Shard, NEW n \in 1 .. accepted[s]
               PROVE  \/ n \in {log[s][i] : i \in DOMAIN log[s]}
                      \/ n \in Held(s, active[s])
                      \/ n \in Held(s, fshards[s])
                      \/ \E k \in DOMAIN batches : n \in Held(s, batches[k].shards[s])
    BY DEF NoPointDropped
  <2>1. accepted[s] \in Nat /\ log[s] \in Seq(Nat) /\ Len(log[s]) \in Nat /\ DOMAIN log[s] = 1 .. Len(log[s])
    BY DEF IInv, TypeOK, ShardType, WorkerType
  <2>2. CASE n <= Len(log[s])
    BY <2>1, <2>2 DEF PointsInv, LogOrdered
  <2>3. CASE n > Len(log[s])
    <3>1. PICK k \in Pending : \E i \in DOMAIN Points(s, k) : Points(s, k)[i] = n
      <4>1. n \in Len(log[s]) + 1 .. accepted[s]
        BY <2>1, <2>3
      <4>2. Covered(s)
        BY DEF PointsInv, Chain
      <4> QED BY <4>1, <4>2 DEF Covered
    <3>2. Slot(s, k) # NoBuf /\ Points(s, k) = buf[s][Slot(s, k)]
      BY <3>1 DEF Points
    <3>3. n \in Held(s, Slot(s, k))
      BY <3>1, <3>2 DEF Held
    <3>4. \/ k \in DOMAIN batches /\ Slot(s, k) = batches[k].shards[s]
          \/ Slot(s, k) = fshards[s]
          \/ Slot(s, k) = active[s]
      <4>1. k \in Nat /\ k >= 1 /\ DOMAIN batches = 1 .. Len(batches) /\ Len(batches) \in Nat
        BY PendingType, OwnerTypes
      <4> QED BY <4>1 DEF Slot
    <3> QED BY <3>3, <3>4
  <2> QED BY <2>1, <2>2, <2>3
<1> QED BY <1>1, Invariance, PointsInvariance, PTL

(***************************************************************************)
(* Flush and Close.                                                        *)
(***************************************************************************)

\* Nothing happens to a call.
CallKept(c) ==
  cpc'[c] = cpc[c] /\ snap'[c] = snap[c] /\ res'[c] = res[c] /\ target'[c] = target[c]

\* The call begins: it answers for what is accepted now.
CallStarts(c) ==
  /\ cpc[c] = "idle" /\ cpc'[c] \in {"enter", "notify", "exit"} /\ snap'[c] = accepted
  /\ (c \in Flushers /\ res'[c] = "none") \/ (c \in Closers /\ res'[c] = res[c])

\* The call leaves the freeze and goes on to wait for a batch.
CallFrozen(c) ==
  /\ FreezeLoad \/ FreezeCount \/ FreezeSend
  /\ freezeMu = c /\ freezeMu' = None /\ cpc[c] = "freezing" /\ cpc'[c] = "target"
  /\ snap'[c] = snap[c] /\ res'[c] = res[c]

\* The call returns from its wait, or Close from waiting for the worker.
CallAnswers(c) ==
  (c \in Flushers /\ FlushReturn(c)) \/ (c \in Closers /\ (CloseQueue(c) \/ CloseReturn(c)))

\* The call, or the trigger, takes another step on its way to the freeze or out of it.
CallMoves(c) ==
  /\ snap'[c] = snap[c] /\ res'[c] = res[c]
  /\ cpc[c] # "worker" /\ cpc'[c] \notin {"target", "worker"}
  /\ cpc[c] = "idle" \/ cpc'[c] = "idle" => c = Trigger
  /\ cpc[c] # "exit" /\ (cpc'[c] = "idle" => cpc[c] = "target")

\* What a step does to a caller.
LEMMA CallerMoves ==
  ASSUME IInv, FreezeHolder, [Next]_vars, NEW c \in Callers
  PROVE  CallKept(c) \/ CallStarts(c) \/ CallFrozen(c) \/ CallAnswers(c) \/ CallMoves(c)
<1> USE DEF IInv, TypeOK, CallerType, BatchType
<1>1. CASE UNCHANGED callerVars
  BY <1>1 DEF callerVars, CallKept
<1>2. CASE \E w \in Writers : WriterStep(w)
  BY <1>1, <1>2 DEF WriterStep, AddStart, appendPoint, maybeSignal, WaitLock, WaitCheckError,
     WaitCheckSpace, CondWait, WaitRelock
<1>3. CASE WorkerStep
  BY <1>1, <1>3 DEF WorkerStep, WorkerReceive, WorkerExit, commitOK, commitFail, setError,
     WorkerNotify, WorkerBroadcast, recycleBatch, WorkerDone
<1>4. ASSUME NEW d \in Callers, FreezeLock(d)
      PROVE  CallKept(c) \/ CallMoves(c)
  BY <1>4 DEF FreezeLock, CallKept, CallMoves
<1>5. CASE FreezeStep
  <2>1. freezeMu \in Callers \cup {None}
    BY DEF FreezeType
  <2>2. CASE /\ FreezeLoad \/ FreezeCount \/ FreezeSend
             /\ freezeMu' = None /\ cpc' = [cpc EXCEPT ![freezeMu] = "target"]
             /\ snap' = snap /\ res' = res /\ \E b : target' = [target EXCEPT ![freezeMu] = b]
    BY <2>1, <2>2 DEF CallKept, CallFrozen, FreezeHolder
  <2>3. CASE FreezeLoad
    BY <1>1, <2>2, <2>3 DEF FreezeLoad, FreezeReturn, callerVars
  <2>4. CASE FreezeCount
    BY <1>1, <2>2, <2>4 DEF FreezeCount, FreezeReturn, callerVars
  <2>5. CASE FreezeSend
    BY <1>1, <2>2, <2>5 DEF FreezeSend, FreezeReturn, callerVars
  <2> QED BY <1>1, <1>5, <2>3, <2>4, <2>5 DEF FreezeStep, FreezeSwap, FreezeNotify,
     FreezeBroadcast, FreezeSendPanic
<1>6. CASE TriggerStep
  <2>1. Trigger \in Callers
    BY DEF Callers
  <2> QED BY <1>6, <2>1 DEF TriggerStep, TriggerSignal, TriggerTick, TriggerReturn, TriggerStop,
     CallKept, CallMoves
<1>7. ASSUME NEW f \in Flushers, FlusherStep(f)
      PROVE  CallKept(c) \/ CallStarts(c) \/ CallAnswers(c)
  <2>1. f \in Callers
    BY DEF Callers
  <2>2. CASE FlushStart(f)
    BY <2>1, <2>2 DEF FlushStart, CallKept, CallStarts
  <2>3. CASE FlushReturn(f)
    <3>1. CASE f = c
      BY <2>3, <3>1 DEF CallAnswers
    <3>2. CASE f # c
      BY <2>1, <2>3, <3>2 DEF FlushReturn, CallKept
    <3> QED BY <3>1, <3>2
  <2> QED BY <1>7, <2>2, <2>3 DEF FlusherStep
<1>8. ASSUME NEW d \in Closers, CloserStep(d)
      PROVE  CallKept(c) \/ CallStarts(c) \/ CallAnswers(c) \/ CallMoves(c)
  <2>1. d \in Callers /\ d # Trigger
    BY DEF Callers
  <2>2. CASE CloseStart(d)
    BY <2>1, <2>2 DEF CloseStart, CallKept, CallStarts
  <2>3. CASE CloseQueue(d) \/ CloseReturn(d)
    <3>1. CASE d = c
      BY <2>3, <3>1 DEF CallAnswers
    <3>2. CASE d # c
      BY <2>1, <2>3, <3>2 DEF CloseQueue, CloseReturn, CallKept
    <3> QED BY <3>1, <3>2
  <2>4. CASE CloseNotify(d) \/ CloseBroadcast(d) \/ CloseStop(d) \/ CloseTriggerDone(d)
    BY <2>1, <2>4 DEF CloseNotify, CloseBroadcast, CloseStop, CloseTriggerDone, CallKept, CallMoves
  <2> QED BY <1>8, <2>2, <2>3, <2>4 DEF CloserStep
<1>9. CASE UNCHANGED vars
  BY <1>1, <1>9 DEF vars
<1> QED BY <1>2, <1>3, <1>4, <1>5, <1>6, <1>7, <1>8, <1>9 DEF Next, Terminated

\* Nothing is committed once the process is gone.
LEMMA CommitAlive ==
  ASSUME [Next]_vars, Commits
  PROVE  ~panicked
<1>1. CASE Terminated \/ UNCHANGED vars
  BY <1>1 DEF Terminated, vars, workerVars, Commits, commitOK, commitFail
<1> QED BY <1>1 DEF Next

\* A commit moves the oldest points of every shard to the log; one that fails may lose
\* those of a shard.
LEMMA CommitLost ==
  ASSUME IInv, NoAliasing, PointsInv, Commits, ~panicked, NEW s \in Shard
  PROVE  /\ Len(log[s]) \in Nat /\ Len(log'[s]) \in Nat
         /\ Len(log[s]) <= Len(log'[s]) /\ Len(log'[s]) <= accepted[s]
         /\ log'[s] = log[s] \o [i \in 1 .. Len(log'[s]) - Len(log[s]) |-> Len(log[s]) + i]
         /\ {Points(s, wb)[i] : i \in DOMAIN Points(s, wb)} = Len(log[s]) + 1 .. Len(log'[s])
         /\ lost'[s] \in {lost[s], lost[s] \cup (Len(log[s]) + 1 .. Len(log'[s]))}
         /\ commitOK => lost' = lost
<1> DEFINE p == Points(s, wb)
<1>1. p \in Seq(Nat) /\ (\A i \in 1 .. Len(p) : p[i] = Len(log[s]) + i) /\ Len(log[s]) + Len(p) <= accepted[s]
  BY CommitNext DEF Commits
<1>2. log'[s] = log[s] \o p /\ p = Frozen(s)
  BY CommitEffect DEF Commits
<1> HIDE DEF p
<1>3. log[s] \in Seq(Nat) /\ Len(log[s]) \in Nat
  BY DEF IInv, TypeOK, WorkerType
<1>4. Len(p) \in Nat /\ DOMAIN p = 1 .. Len(p)
  BY <1>1
<1>5. Len(log'[s]) = Len(log[s]) + Len(p)
  BY <1>1, <1>2, <1>3
<1>6. p = [i \in 1 .. Len(p) |-> Len(log[s]) + i]
  BY <1>1, <1>4
<1>7. {p[i] : i \in 1 .. Len(p)} = Len(log[s]) + 1 .. Len(log[s]) + Len(p)
  <2>1. ASSUME NEW n \in Len(log[s]) + 1 .. Len(log[s]) + Len(p)
        PROVE  n \in {p[i] : i \in 1 .. Len(p)}
    <3>1. n - Len(log[s]) \in 1 .. Len(p) /\ p[n - Len(log[s])] = n
      BY <1>1, <1>3, <1>4
    <3> QED BY <3>1
  <2>2. ASSUME NEW i \in 1 .. Len(p)
        PROVE  p[i] \in Len(log[s]) + 1 .. Len(log[s]) + Len(p)
    BY <1>1, <1>3, <1>4
  <2> QED BY <2>1, <2>2
<1>8. lost'[s] \in {lost[s], lost[s] \cup {p[i] : i \in 1 .. Len(p)}} /\ (commitOK => lost' = lost)
  BY <1>2 DEF Commits, commitOK, commitFail
<1>9. Len(log'[s]) - Len(log[s]) = Len(p)
  BY <1>3, <1>4, <1>5
<1>10. {Points(s, wb)[i] : i \in DOMAIN Points(s, wb)} = {p[i] : i \in 1 .. Len(p)}
  BY <1>4 DEF p
<1>11. {p[i] : i \in 1 .. Len(p)} = Len(log[s]) + 1 .. Len(log'[s])
  BY <1>5, <1>7
<1>12. log'[s] = log[s] \o [i \in 1 .. Len(log'[s]) - Len(log[s]) |-> Len(log[s]) + i]
  BY <1>2, <1>6, <1>9
<1>13. lost'[s] \in {lost[s], lost[s] \cup (Len(log[s]) + 1 .. Len(log'[s]))} /\ (commitOK => lost' = lost)
  BY <1>8, <1>11
<1>14. Len(log'[s]) \in Nat /\ Len(log[s]) <= Len(log'[s]) /\ Len(log'[s]) <= accepted[s]
  BY <1>1, <1>3, <1>4, <1>5
<1> QED BY <1>3, <1>10, <1>11, <1>12, <1>13, <1>14

\* Only a commit changes the log or what is lost, and only beyond the log's end.
LEMMA LogGrows ==
  ASSUME IInv, NoAliasing, PointsInv, [Next]_vars, NEW s \in Shard
  PROVE  /\ Len(log[s]) \in Nat /\ Len(log'[s]) \in Nat /\ Len(log[s]) <= Len(log'[s])
         /\ \A n \in lost'[s] : n \in lost[s] \/ n > Len(log[s])
         /\ ~Commits => log' = log /\ lost' = lost
         /\ accepted[s] \in Nat /\ accepted'[s] \in Nat /\ accepted[s] <= accepted'[s]
         /\ err => err'
<1>1. Len(log[s]) \in Nat /\ accepted[s] \in Nat
  BY DEF IInv, TypeOK, WorkerType, ShardType
<1>2. ~Commits => log' = log /\ lost' = lost
  BY DEF Commits, Next, WriterStep, AddStart, appendPoint, maybeSignal, WaitLock, WaitCheckError,
     WaitCheckSpace, CondWait, WaitRelock, FreezeStep, FreezeLoad, FreezeSwap, FreezeCount,
     FreezeNotify, FreezeBroadcast, FreezeSend,
     FreezeSendPanic, FreezeLock, TriggerStep, TriggerSignal, TriggerTick, TriggerReturn,
     TriggerStop, FlusherStep, FlushStart, FlushReturn, CloserStep, CloseStart, CloseNotify,
     CloseBroadcast, CloseStop, CloseTriggerDone, CloseQueue, CloseReturn, WorkerStep,
     WorkerReceive, WorkerExit, setError, WorkerNotify, WorkerBroadcast, WorkerDone, recycleBatch,
     Terminated, vars, workerVars
<1>3. accepted' = accepted \/ Appends
  BY DEF Appends, Next, WriterStep, AddStart, maybeSignal, WaitLock, WaitCheckError,
     WaitCheckSpace, CondWait, WaitRelock, FreezeStep, FreezeLoad, FreezeSwap, FreezeCount,
     FreezeNotify, FreezeBroadcast, FreezeSend, commitOK, commitFail,
     FreezeSendPanic, FreezeLock, TriggerStep, TriggerSignal, TriggerTick, TriggerReturn,
     TriggerStop, FlusherStep, FlushStart, FlushReturn, CloserStep, CloseStart, CloseNotify,
     CloseBroadcast, CloseStop, CloseTriggerDone, CloseQueue, CloseReturn, WorkerStep,
     WorkerReceive, WorkerExit, setError, WorkerNotify, WorkerBroadcast, WorkerDone, recycleBatch,
     Terminated, vars, shardVars
<1>4. err => err'
  BY DEF Next, WriterStep, AddStart, appendPoint, maybeSignal, WaitLock, WaitCheckError,
     WaitCheckSpace, CondWait, WaitRelock, FreezeStep, FreezeLoad, FreezeSwap, FreezeCount,
     FreezeNotify, FreezeBroadcast, FreezeSend, commitOK, commitFail,
     FreezeSendPanic, FreezeLock, TriggerStep, TriggerSignal, TriggerTick, TriggerReturn,
     TriggerStop, FlusherStep, FlushStart, FlushReturn, CloserStep, CloseStart, CloseNotify,
     CloseBroadcast, CloseStop, CloseTriggerDone, CloseQueue, CloseReturn, WorkerStep,
     WorkerReceive, WorkerExit, setError, WorkerNotify, WorkerBroadcast, WorkerDone, recycleBatch,
     Terminated, vars
<1>5. accepted'[s] \in Nat /\ accepted[s] <= accepted'[s]
  <2>1. CASE Appends
    BY <1>1, <2>1 DEF Appends, appendPoint, IInv, TypeOK, ShardType
  <2> QED BY <1>1, <1>3, <2>1
<1>6. CASE Commits
  <2>1. ~panicked
    BY <1>6, CommitAlive
  <2>2. /\ Len(log'[s]) \in Nat /\ Len(log[s]) <= Len(log'[s])
        /\ lost'[s] \in {lost[s], lost[s] \cup (Len(log[s]) + 1 .. Len(log'[s]))}
    BY <1>6, <2>1, CommitLost
  <2>3. \A n \in lost'[s] : n \in lost[s] \/ n > Len(log[s])
    BY <1>1, <2>2
  <2> QED BY <1>1, <1>4, <1>5, <1>6, <2>2, <2>3
<1>7. CASE ~Commits
  BY <1>1, <1>2, <1>4, <1>5, <1>7
<1> QED BY <1>6, <1>7

\* Only the worker and the send of a freeze touch the queue, the published batches and
\* the worker's state.
LEMMA WorkerMoves ==
  ASSUME IInv, [Next]_vars
  PROVE  \/ kpc' = kpc /\ wb' = wb /\ queue' = queue /\ batches' = batches /\ last' = last /\ err' = err
         \/ FreezeSend
         \/ WorkerStep /\ ~panicked
<1> USE DEF workerVars, chanVars
<1>1. CASE \E w \in Writers : WriterStep(w)
  <2>1. PICK w \in Writers : WriterStep(w)
    BY <1>1
  <2>2. CASE maybeSignal(w)
    BY <2>2 DEF maybeSignal
  <2> QED BY <2>1, <2>2 DEF WriterStep, AddStart, appendPoint, WaitLock, WaitCheckError,
     WaitCheckSpace, CondWait, WaitRelock
<1>2. CASE FreezeStep
  BY <1>2 DEF FreezeStep, FreezeLoad, FreezeSwap, FreezeCount, FreezeNotify, FreezeBroadcast,
     FreezeSendPanic
<1>3. CASE TriggerStep \/ \E c \in Callers : FreezeLock(c)
  BY <1>3 DEF TriggerStep, TriggerSignal, TriggerTick, TriggerReturn, TriggerStop, FreezeLock
<1>4. CASE (\E f \in Flushers : FlusherStep(f)) \/ \E c \in Closers : CloserStep(c)
  BY <1>4 DEF FlusherStep, FlushStart, FlushReturn, CloserStep, CloseStart, CloseNotify,
     CloseBroadcast, CloseStop, CloseTriggerDone, CloseQueue, CloseReturn
<1>5. CASE UNCHANGED vars
  BY <1>5 DEF vars
<1> QED BY <1>1, <1>2, <1>3, <1>4, <1>5 DEF Next, Terminated

\* Recycling leaves the published batches and what is done of them.
LEMMA RecycleDone ==
  ASSUME IInv, recycleBatch
  PROVE  /\ Len(batches') = Len(batches) /\ queue' = queue /\ wb' = wb
         /\ \A k \in DOMAIN batches : batches'[k].done = batches[k].done
<1>1. batches \in Seq(Batch) /\ wb \in DOMAIN batches /\ batches[wb] \in Batch
  BY RecycleEffect DEF IInv, TypeOK, BatchType
<1>2. batches' = [batches EXCEPT ![wb] = [batches[wb] EXCEPT !.shards = [batches[wb].shards EXCEPT ![kidx] = NoBuf]]]
  BY DEF recycleBatch
<1>3. [batches[wb] EXCEPT !.shards = [batches[wb].shards EXCEPT ![kidx] = NoBuf]].done = batches[wb].done
  BY <1>1 DEF Batch
<1> QED BY <1>1, <1>2, <1>3 DEF recycleBatch

\* The published batches, the one at the end of the queue and the worker's, after a step
\* of the worker.
LEMMA WorkerEffect ==
  ASSUME IInv, [Next]_vars, WorkerStep
  PROVE  /\ Len(batches') = Len(batches) /\ last' = last
         /\ kpc' = "setError" => commitFail
         /\ \/ WorkerReceive /\ wb' = FirstQueued /\ FirstQueued' = FirstQueued + 1
            \/ WorkerDone /\ wb' = 0 /\ FirstQueued' = FirstQueued
            \/ wb' = wb /\ FirstQueued' = FirstQueued /\ ~WorkerDone
         /\ \A k \in DOMAIN batches :
              batches'[k].done => batches[k].done \/ (WorkerDone /\ k = wb)
<1>1. Len(batches) \in Nat /\ Len(queue) \in Nat /\ DOMAIN batches = 1 .. Len(batches)
  BY PendingType DEF IInv, TypeOK, BatchType
<1>2. CASE WorkerReceive
  <2>1. Len(queue) >= 1 /\ Head(queue) = queue[1] /\ Len(queue') = Len(queue) - 1
    BY <1>1, <1>2, EmptySeq DEF WorkerReceive, IInv, TypeOK, BatchType
  <2>2. queue[1] = FirstQueued
    BY <1>1, <2>1, PendingType DEF IInv, QueueInv
  <2>3. batches' = batches /\ last' = last /\ wb' = FirstQueued
    BY <1>2, <2>1, <2>2 DEF WorkerReceive
  <2>4. FirstQueued' = FirstQueued + 1
    BY <1>1, <2>1, <2>3 DEF FirstQueued
  <2> QED BY <1>2, <2>3, <2>4 DEF WorkerReceive
<1>3. CASE WorkerDone
  <2>1. /\ Len(batches') = Len(batches)
        /\ \A k \in DOMAIN batches : batches'[k].done => batches[k].done \/ k = wb
    BY <1>3, BatchFlags
  <2>2. queue' = queue /\ last' = last /\ wb' = 0 /\ kpc' = "recv"
    BY <1>3 DEF WorkerDone
  <2> QED BY <1>3, <2>1, <2>2 DEF FirstQueued
<1>4. CASE commitFail
  <2>1. /\ Len(batches') = Len(batches)
        /\ \A k \in DOMAIN batches : batches'[k].done = batches[k].done
    BY <1>4, BatchFlags
  <2>2. queue' = queue /\ last' = last /\ wb' = wb /\ ~WorkerDone
    BY <1>4 DEF commitFail, WorkerDone
  <2> QED BY <1>4, <2>1, <2>2 DEF FirstQueued
<1>5. CASE recycleBatch
  <2>1. last' = last /\ kpc' # "setError" /\ ~WorkerDone
    BY <1>5 DEF recycleBatch, WorkerDone
  <2> QED BY <1>5, <2>1, RecycleDone DEF FirstQueued
<1>6. CASE WorkerExit \/ commitOK \/ setError \/ WorkerNotify \/ WorkerBroadcast
  <2>1. batches' = batches /\ queue' = queue /\ last' = last /\ wb' = wb /\ kpc' # "setError"
    BY <1>6 DEF WorkerExit, commitOK, setError, WorkerNotify, WorkerBroadcast, chanVars
  <2>2. ~WorkerDone
    BY <1>6 DEF WorkerExit, commitOK, setError, WorkerNotify, WorkerBroadcast, WorkerDone
  <2> QED BY <2>1, <2>2 DEF FirstQueued
<1> QED BY <1>2, <1>3, <1>4, <1>5, <1>6 DEF WorkerStep

\* last is the newest batch, and a batch is done once the worker has left it.
LEMMA DoneStep ==
  ASSUME IInv, LastIsNewest, DoneCommitted, [Next]_vars
  PROVE  LastIsNewest' /\ DoneCommitted'
<1>1. /\ Len(batches) \in Nat /\ FirstQueued \in Nat /\ DOMAIN batches = 1 .. Len(batches)
      /\ FirstQueued >= 1
  BY PendingType DEF IInv, TypeOK, BatchType
<1>2. CASE batches' = batches /\ queue' = queue /\ wb' = wb /\ last' = last
  BY <1>2 DEF LastIsNewest, DoneCommitted, FirstQueued
<1>3. CASE FreezeSend
  <2>1. last' = Len(batches) + 1 /\ wb' = wb /\ 1 \in Shard
    BY <1>3 DEF FreezeSend, workerVars, Shard
  <2>2. Len(batches') = Len(batches) + 1 /\ FirstQueued' = FirstQueued
    BY <1>3, <2>1, SendEffect
  <2>3. /\ \A k \in 1 .. Len(batches) : batches'[k] = batches[k]
        /\ batches'[Len(batches) + 1].done = FALSE
    BY <1>1, <1>3 DEF FreezeSend, IInv, TypeOK, BatchType
  <2> QED BY <1>1, <2>1, <2>2, <2>3 DEF LastIsNewest, DoneCommitted
<1>4. CASE WorkerStep
  <2>1. Len(batches') = Len(batches) /\ last' = last
    BY <1>4, WorkerEffect
  <2>2. \A k \in 1 .. Len(batches) :
          batches'[k].done => batches[k].done \/ (WorkerDone /\ k = wb)
    BY <1>1, <1>4, WorkerEffect
  <2>3. CASE WorkerDone
    <3>1. wb < FirstQueued
      BY <1>1, <2>3 DEF WorkerDone, IInv, QueueInv, WorkerIdle
    <3>2. wb' = 0 /\ FirstQueued' = FirstQueued
      <4>1. wb' = 0 /\ queue' = queue
        BY <2>3 DEF WorkerDone
      <4> QED BY <2>1, <4>1 DEF FirstQueued
    <3> QED BY <1>1, <2>1, <2>2, <3>1, <3>2 DEF LastIsNewest, DoneCommitted
  <2>4. CASE ~WorkerDone
    <3>1. \/ wb' = FirstQueued /\ FirstQueued' = FirstQueued + 1
          \/ wb' = wb /\ FirstQueued' = FirstQueued
      BY <1>4, <2>4, WorkerEffect
    <3> QED BY <1>1, <2>1, <2>2, <2>4, <3>1 DEF LastIsNewest, DoneCommitted
  <2> QED BY <2>3, <2>4
<1> QED BY <1>2, <1>3, <1>4, WorkerMoves

\* The points of a published batch stay until it is recycled.
LEMMA BatchPoints ==
  ASSUME IInv, NoAliasing, PointsInv, [Next]_vars, ~recycleBatch,
         NEW s \in Shard, NEW k \in 1 .. Len(batches)
  PROVE  Points(s, k)' = Points(s, k)
<1>1. Len(batches) \in Nat /\ k \in 1 .. Filling /\ k # Filling /\ k <= Frozing /\ k \in 1 .. Filling + 1
  BY PendingType
<1>2. CASE FreezeSwap
  BY <1>1, <1>2, SwapEffect DEF PointsInv
<1>3. CASE FreezeCount
  BY <1>1, <1>3, CountEffect DEF PointsInv
<1>4. CASE FreezeSend
  BY <1>1, <1>4, SendEffect
<1>5. CASE Appends
  <2>1. PICK w \in Writers, t \in Shard : appendPoint(w, t)
    BY <1>5 DEF Appends
  <2>2. ~panicked
    BY <1>5, AppendAlive
  <2> QED BY <1>1, <2>1, <2>2, AppendEffect
<1>6. CASE ~Moves /\ ~Appends
  BY <1>1, <1>6, PointsKept
<1> QED BY <1>2, <1>3, <1>4, <1>5, <1>6 DEF Moves

\* What is lost is known: setError stores the error before anything else is committed.
LEMMA LostStep ==
  ASSUME IInv, NoAliasing, PointsInv, LostKnown, [Next]_vars
  PROVE  LostKnown'
<1> SUFFICES ASSUME NEW s \in Shard
             PROVE  /\ lost'[s] \subseteq 1 .. Len(log'[s])
                    /\ lost'[s] # {} => \/ err'
                                        \/ kpc' = "setError" /\ lost'[s] \subseteq {Points(s, wb)[i] : i \in DOMAIN Points(s, wb)}'
  BY DEF LostKnown
<1>1. PICK k \in 0 .. Len(batches) : k = wb
  BY DEF IInv, TypeOK, BatchType
<1>2. /\ lost[s] \subseteq 1 .. Len(log[s])
      /\ lost[s] # {} => \/ err
                         \/ kpc = "setError" /\ lost[s] \subseteq {Points(s, k)[i] : i \in DOMAIN Points(s, k)}
  BY <1>1 DEF LostKnown
<1>3. CASE Commits
  <2>1. ~panicked
    BY <1>3, CommitAlive
  <2>2. /\ Len(log[s]) \in Nat /\ Len(log'[s]) \in Nat /\ Len(log[s]) <= Len(log'[s])
        /\ {Points(s, k)[i] : i \in DOMAIN Points(s, k)} = Len(log[s]) + 1 .. Len(log'[s])
        /\ lost'[s] \in {lost[s], lost[s] \cup (Len(log[s]) + 1 .. Len(log'[s]))}
        /\ commitOK => lost' = lost
    BY <1>1, <1>3, <2>1, CommitLost
  <2>3. kpc = "commit" /\ wb' = wb /\ ~recycleBatch /\ (err => err')
    BY <1>3, LogGrows DEF Commits, commitOK, commitFail, recycleBatch
  <2>4. lost'[s] \subseteq 1 .. Len(log'[s])
    BY <1>2, <2>2
  <2>5. CASE err
    BY <2>3, <2>4, <2>5
  <2>6. CASE ~err
    <3>1. lost[s] = {}
      BY <1>2, <2>3, <2>6
    <3>2. CASE commitOK
      BY <2>2, <2>4, <3>1, <3>2
    <3>3. CASE commitFail
      <4>1. kpc' = "setError" /\ k >= 1
        BY <1>1, <3>3 DEF commitFail, IInv, QueueInv, WorkerIdle
      <4>2. Points(s, k)' = Points(s, k)
        BY <2>3, <4>1, BatchPoints
      <4>3. lost'[s] \subseteq {Points(s, k)[i] : i \in DOMAIN Points(s, k)}
        BY <2>2, <3>1
      <4>4. {Points(s, wb)[i] : i \in DOMAIN Points(s, wb)}' = {Points(s, k)[i] : i \in DOMAIN Points(s, k)}
        BY <1>1, <2>3, <4>2
      <4> QED BY <2>4, <4>1, <4>3, <4>4
    <3> QED BY <1>3, <3>2, <3>3 DEF Commits
  <2> QED BY <2>5, <2>6
<1>4. CASE ~Commits
  <2>1. log' = log /\ lost' = lost /\ (err => err')
    BY <1>4, LogGrows
  <2>2. CASE lost[s] = {} \/ err
    BY <1>2, <2>1, <2>2
  <2>3. CASE lost[s] # {} /\ ~err
    <3>1. kpc = "setError" /\ lost[s] \subseteq {Points(s, k)[i] : i \in DOMAIN Points(s, k)}
      BY <1>2, <2>3
    <3>2. err' \/ (kpc' = "setError" /\ wb' = wb /\ ~recycleBatch)
      <4>1. ~recycleBatch
        BY <3>1 DEF recycleBatch
      <4>2. CASE WorkerStep
        BY <3>1, <4>2 DEF WorkerStep, WorkerReceive, WorkerExit, commitOK, commitFail, setError,
          WorkerNotify, WorkerBroadcast, recycleBatch, WorkerDone
      <4>3. CASE FreezeSend
        BY <3>1, <4>1, <4>3 DEF FreezeSend, workerVars
      <4> QED BY <3>1, <4>1, <4>2, <4>3, WorkerMoves
    <3>3. CASE err'
      BY <1>2, <2>1, <3>3
    <3>4. CASE kpc' = "setError" /\ wb' = wb /\ ~recycleBatch
      <4>1. k >= 1
        BY <1>1, <3>1 DEF IInv, QueueInv, WorkerIdle
      <4>2. Points(s, k)' = Points(s, k)
        BY <3>4, <4>1, BatchPoints
      <4>3. {Points(s, wb)[i] : i \in DOMAIN Points(s, wb)}' = {Points(s, k)[i] : i \in DOMAIN Points(s, k)}
        BY <1>1, <3>4, <4>2
      <4> QED BY <1>2, <2>1, <3>1, <3>4, <4>3
    <3> QED BY <3>2, <3>3, <3>4
  <2> QED BY <2>2, <2>3
<1> QED BY <1>3, <1>4

\* A call answers for points accepted before it.
LEMMA SnapStep ==
  ASSUME IInv, NoAliasing, PointsInv, FreezeHolder, SnapAccepted, [Next]_vars
  PROVE  SnapAccepted'
<1> SUFFICES ASSUME NEW c \in Callers, NEW s \in Shard PROVE snap'[c][s] <= accepted'[s]
  BY DEF SnapAccepted
<1>1. accepted[s] \in Nat /\ accepted'[s] \in Nat /\ accepted[s] <= accepted'[s]
  BY LogGrows
<1>2. snap[c][s] <= accepted[s] /\ snap[c][s] \in Nat
  BY DEF SnapAccepted, IInv, TypeOK, CallerType
<1>3. snap'[c] = snap[c] \/ snap'[c] = accepted
  BY CallerMoves DEF CallKept, CallStarts, CallFrozen, CallAnswers, CallMoves, FlushReturn,
     CloseQueue, CloseReturn, IInv, TypeOK, CallerType
<1> QED BY <1>1, <1>2, <1>3

\* A call under way has no answer yet.
LEMMA NoneStep ==
  ASSUME IInv, FreezeHolder, NoneYet, [Next]_vars
  PROVE  NoneYet'
<1> SUFFICES ASSUME NEW c \in Callers
             PROVE  /\ cpc'[c] \notin {"idle", "exit"} => res'[c] = "none"
                    /\ cpc'[c] = "idle" /\ c \notin Flushers => res'[c] = "none"
  BY DEF NoneYet
<1>1. /\ cpc[c] \notin {"idle", "exit"} => res[c] = "none"
      /\ cpc[c] = "idle" /\ c \notin Flushers => res[c] = "none"
      /\ c \in Closers => c \notin Flushers /\ c # Trigger
      /\ Trigger \notin Flushers
  BY DEF NoneYet
<1>2. CASE CallAnswers(c)
  BY <1>1, <1>2 DEF CallAnswers, FlushReturn, CloseQueue, CloseReturn, IInv, TypeOK, CallerType
<1>3. CASE CallMoves(c)
  BY <1>1, <1>3 DEF CallMoves
<1>4. CASE CallKept(c) \/ CallStarts(c) \/ CallFrozen(c)
  BY <1>1, <1>4 DEF CallKept, CallStarts, CallFrozen
<1> QED BY <1>2, <1>3, <1>4, CallerMoves

\* The worker only moves forward through the slots.
LEMMA OpenGrows ==
  ASSUME IInv, [Next]_vars
  PROVE  /\ FirstOpen \in Nat /\ FirstOpen' \in Int /\ FirstOpen <= FirstOpen'
         /\ 1 <= FirstOpen /\ FirstOpen <= FirstQueued /\ FirstOpen <= FirstPending
<1>1. FirstQueued \in Nat /\ FirstQueued >= 1 /\ 1 \in Shard
  BY PendingType DEF Shard
<1>2. kpc \in {"commit", "setError"} => FirstQueued - 1 >= 1
  BY <1>1 DEF IInv, QueueInv, WorkerIdle
<1>3. FirstOpen \in Nat /\ 1 <= FirstOpen /\ FirstOpen <= FirstQueued /\ FirstOpen <= FirstPending
  BY <1>1, <1>2 DEF FirstOpen, FirstPending
<1>4. CASE kpc' = kpc /\ FirstQueued' = FirstQueued
  BY <1>1, <1>3, <1>4 DEF FirstOpen
<1>5. CASE WorkerStep
  <2>1. CASE WorkerReceive
    <3>1. FirstQueued' = FirstQueued + 1 /\ kpc = "recv" /\ kpc' = "commit"
      <4>1. ~WorkerDone /\ kpc = "recv" /\ kpc' = "commit" /\ wb = 0 /\ wb' # 0
        <5>1. kpc = "recv" /\ kpc' = "commit" /\ wb = 0
          BY <2>1 DEF WorkerReceive, IInv, QueueInv, WorkerIdle
        <5>2. Head(queue) = queue[1] /\ Len(queue) >= 1
          BY <2>1, EmptySeq, PendingType DEF WorkerReceive, IInv, TypeOK, BatchType
        <5>3. wb' = FirstQueued
          BY <1>1, <2>1, <5>2, PendingType DEF WorkerReceive, IInv, QueueInv
        <5> QED BY <1>1, <5>1, <5>3 DEF WorkerDone
      <4> QED BY <1>1, <1>5, <4>1, WorkerEffect
    <3> QED BY <1>1, <1>3, <3>1 DEF FirstOpen
  <2>2. CASE ~WorkerReceive
    <3>1. FirstQueued' = FirstQueued
      BY <1>5, <2>2, WorkerEffect
    <3>2. kpc' \in {"commit", "setError"} => kpc \in {"commit", "setError"}
      BY <1>5, <2>2 DEF WorkerStep, WorkerExit, commitOK, commitFail, setError,
         WorkerNotify, WorkerBroadcast, recycleBatch, WorkerDone
    <3> QED BY <1>1, <1>3, <3>1, <3>2 DEF FirstOpen
  <2> QED BY <2>1, <2>2
<1>6. CASE FreezeSend
  <2>1. kpc' = kpc /\ FirstQueued' = FirstQueued
    BY <1>1, <1>6, SendEffect DEF FreezeSend, workerVars
  <2> QED BY <1>4, <2>1
<1>7. CASE kpc' = kpc /\ queue' = queue /\ batches' = batches
  BY <1>4, <1>7 DEF FirstQueued
<1> QED BY <1>5, <1>6, <1>7, WorkerMoves

\* Once what a call waits for is in the slots up to t, no step puts it behind them.
LEMMA AfterStep ==
  ASSUME IInv, NoAliasing, PointsInv, SnapAccepted, [Next]_vars,
         NEW c \in Callers, NEW s \in Shard, NEW t \in 0 .. Frozing, snap'[c] = snap[c],
         \A k \in FirstOpen .. Filling : k > t => After(c, s, k)
  PROVE  \A k \in FirstOpen' .. Filling' : k > t => After(c, s, k)'
<1>1. /\ Len(batches) \in Nat /\ Filling = Len(batches) + 2 /\ Frozing = Len(batches) + 1
      /\ FirstOpen \in Nat /\ 1 <= FirstOpen /\ FirstOpen <= Frozing
      /\ FirstOpen' \in Int /\ FirstOpen <= FirstOpen'
  BY PendingType, OpenGrows
<1>2. PICK f \in 1 .. Filling : f = Filling
  BY <1>1
<1>3. After(c, s, f) /\ f > t
  BY <1>1, <1>2
<1>4. CASE Filling' = Filling /\ \A k \in FirstOpen' .. Filling : Points(s, k)' = Points(s, k)
  BY <1>1, <1>4 DEF After
<1>5. CASE FreezeSwap
  <2>1. Filling' = Filling
    BY <1>5, SwapEffect DEF PointsInv
  <2>2. \A k \in 1 .. Filling : Points(s, k)' \in {Points(s, k), Points(s, f), <<>>}
    BY <1>2, <1>5, SwapEffect DEF PointsInv
  <2>3. ASSUME NEW k \in FirstOpen' .. Filling', k > t PROVE After(c, s, k)'
    <3>1. k \in 1 .. Filling /\ k \in FirstOpen .. Filling
      BY <1>1, <2>1
    <3>2. After(c, s, k)
      BY <2>3, <3>1
    <3> QED BY <1>3, <2>2, <3>1, <3>2 DEF After
  <2> QED BY <2>3
<1>6. CASE FreezeCount
  <2>1. Filling' = Filling /\ \A k \in 1 .. Filling : Points(s, k)' = Points(s, k)
    BY <1>6, CountEffect DEF PointsInv
  <2> QED BY <1>1, <1>4, <2>1
<1>7. CASE FreezeSend
  <2>1. /\ Filling' = Filling + 1
        /\ \A k \in 1 .. Filling + 1 :
             Points(s, k)' = IF k <= Frozing THEN Points(s, k) ELSE IF k = Filling THEN <<>> ELSE Points(s, f)
    BY <1>2, <1>7, SendEffect
  <2>2. ASSUME NEW k \in FirstOpen' .. Filling', k > t PROVE After(c, s, k)'
    <3>1. k \in 1 .. Filling + 1 /\ (k <= Frozing => k \in FirstOpen .. Filling)
      BY <1>1, <2>1
    <3>2. k <= Frozing => After(c, s, k)
      BY <2>2, <3>1
    <3> QED BY <1>3, <2>1, <3>1, <3>2 DEF After
  <2> QED BY <2>2
<1>8. CASE recycleBatch
  <2>1. Filling' = Filling /\ \A k \in 1 .. Filling : k # wb => Points(s, k)' = Points(s, k)
    BY <1>8, RecycleSlots
  <2>2. wb < FirstOpen'
    <3>1. kpc = "recycle" /\ kpc' \in {"recycle", "done"} /\ FirstQueued' = FirstQueued
      BY <1>8, RecycleSlots DEF recycleBatch
    <3>2. wb < FirstQueued /\ FirstQueued \in Nat
      BY <3>1, PendingType DEF IInv, QueueInv, WorkerIdle
    <3> QED BY <3>1, <3>2 DEF FirstOpen
  <2>3. \A k \in FirstOpen' .. Filling : k \in 1 .. Filling /\ k # wb
    <3>1. wb \in Nat
      BY DEF IInv, TypeOK, BatchType
    <3> QED BY <1>1, <2>2, <3>1
  <2> QED BY <1>4, <2>1, <2>3
<1>9. CASE Appends
  <2>1. PICK w \in Writers, u \in Shard : appendPoint(w, u)
    BY <1>9 DEF Appends
  <2>2. ~panicked
    BY <1>9, AppendAlive
  <2>3. /\ ~Moves
        /\ \A k \in 1 .. Filling : Points(s, k)' = IF s = u /\ k = Filling THEN Append(Points(s, k), accepted[u] + 1)
                                                   ELSE Points(s, k)
    BY <2>1, <2>2, AppendEffect
  <2>4. Filling' = Filling
    BY <2>3, SlotsKept
  <2>5. snap[c][s] \in Nat /\ accepted[s] \in Nat /\ snap[c][s] < accepted[s] + 1
    BY DEF SnapAccepted, IInv, TypeOK, CallerType, ShardType
  <2>6. ASSUME NEW k \in FirstOpen' .. Filling', k > t PROVE After(c, s, k)'
    <3>1. k \in 1 .. Filling /\ k \in FirstOpen .. Filling
      BY <1>1, <2>4
    <3>2. After(c, s, k)
      BY <2>6, <3>1
    <3>3. Points(s, k) \in Seq(Nat)
      BY <3>1, PointsType
    <3>4. CASE Points(s, k)' = Points(s, k)
      BY <3>2, <3>4 DEF After
    <3>5. CASE Points(s, k)' = Append(Points(s, k), accepted[s] + 1)
      <4>1. ASSUME NEW i \in DOMAIN Points(s, k)'
            PROVE  Points(s, k)'[i] > snap[c][s]
        <5>1. Points(s, k)'[i] = accepted[s] + 1 \/ (i \in DOMAIN Points(s, k) /\ Points(s, k)'[i] = Points(s, k)[i])
          BY <2>5, <3>3, <3>5
        <5> QED BY <2>5, <3>2, <5>1 DEF After
      <4> QED BY <4>1 DEF After
    <3> QED BY <2>3, <3>1, <3>4, <3>5
  <2> QED BY <2>6
<1>10. CASE ~Moves /\ ~Appends
  <2>1. Filling' = Filling /\ \A k \in 1 .. Filling : Points(s, k)' = Points(s, k)
    BY <1>10, PointsKept, SlotsKept
  <2> QED BY <1>1, <1>4, <2>1
<1> QED BY <1>5, <1>6, <1>7, <1>8, <1>9, <1>10 DEF Moves

\* The active slot is always open.
LEMMA FillingOpen == IInv => FirstOpen \in Nat /\ Filling \in Nat /\ FirstOpen <= Filling
<1> SUFFICES ASSUME IInv PROVE FirstOpen \in Nat /\ Filling \in Nat /\ FirstOpen <= Filling
  OBVIOUS
<1>1. /\ FirstQueued \in Nat /\ FirstQueued >= 1 /\ FirstQueued <= Frozing /\ Filling \in Nat
      /\ Frozing \in Nat /\ Frozing < Filling
  BY PendingType
<1> QED BY <1>1 DEF FirstOpen

\* While the freeze of a call is past a shard, what is in the active buffer came after
\* the call.
LEMMA CoversStep ==
  ASSUME IInv, NoAliasing, PointsInv, FreezeHolder, SnapAccepted, FreezeCovers, [Next]_vars
  PROVE  FreezeCovers'
<1> SUFFICES ASSUME NEW c \in Callers, NEW s \in Shard, freezeMu' = c, Collected(s)'
             PROVE  After(c, s, Filling)'
  BY DEF FreezeCovers
<1>1. freezeMu = c /\ (Collected(s) \/ (FreezeSwap /\ s = fidx))
  <2>1. CASE FreezeStep
    <3>1. c # None
      BY DEF Callers
    <3> QED BY <2>1, <3>1 DEF FreezeStep, FreezeLoad, FreezeSwap, FreezeCount, FreezeNotify,
       FreezeBroadcast, FreezeSend, FreezeSendPanic, FreezeReturn, freezeVars, Collected,
       CollectedAll, IInv, TypeOK, FreezeType, FreezeInv, Shard
  <2>2. CASE \E d \in Callers : FreezeLock(d)
    BY <2>2 DEF FreezeLock, Collected, CollectedAll
  <2>3. CASE freezeVars' = freezeVars
    BY <2>3 DEF freezeVars, Collected, CollectedAll
  <2>4. FreezeStep \/ (\E d \in Callers : FreezeLock(d)) \/ freezeVars' = freezeVars
    BY DEF Next, WriterStep, AddStart, appendPoint, maybeSignal, WaitLock, WaitCheckError,
     WaitCheckSpace, CondWait, WaitRelock, TriggerStep, TriggerSignal, TriggerTick, TriggerReturn,
     TriggerStop, FlusherStep, FlushStart, FlushReturn, CloserStep, CloseStart, CloseNotify,
     CloseBroadcast, CloseStop, CloseTriggerDone, CloseQueue, CloseReturn, WorkerStep,
     WorkerReceive, WorkerExit, commitOK, commitFail, setError, WorkerNotify, WorkerBroadcast,
     recycleBatch, WorkerDone, Terminated, vars
  <2> QED BY <2>1, <2>2, <2>3, <2>4
<1>2. snap'[c] = snap[c]
  <2>1. cpc[c] = "freezing" /\ freezeMu' # None
    BY <1>1 DEF FreezeHolder, Callers
  <2> QED BY <2>1, CallerMoves DEF CallKept, CallStarts, CallFrozen, CallAnswers, CallMoves,
     FlushReturn, CloseQueue, CloseReturn
<1>3. CASE FreezeSwap /\ s = fidx
  <2>1. PICK f \in 1 .. Filling : f = Filling /\ ~(f <= Len(batches))
    BY PendingType
  <2>2. Filling' = f /\ Points(s, f)' = <<>>
    BY <1>3, <2>1, SwapEffect DEF PointsInv
  <2> QED BY <2>2 DEF After
<1>4. CASE Collected(s)
  <2>1. After(c, s, Filling)
    BY <1>1, <1>4 DEF FreezeCovers
  <2>2. /\ Frozing \in 0 .. Frozing /\ FirstOpen \in Nat /\ Filling = Frozing + 1 /\ Frozing \in Nat
    BY FillingOpen, PendingType
  <2>3. PICK t \in 0 .. Frozing : t = Frozing
    BY <2>2
  <2>4. \A k \in FirstOpen .. Filling : k > t => After(c, s, k)
    BY <2>1, <2>2, <2>3
  <2>5. \A k \in FirstOpen' .. Filling' : k > t => After(c, s, k)'
    BY <1>2, <2>4, AfterStep
  <2>6. IInv'
    BY StepInv
  <2>7. FirstOpen' \in Nat /\ Filling' \in Nat /\ FirstOpen' <= Filling'
    <3>1. (FirstOpen \in Nat /\ Filling \in Nat /\ FirstOpen <= Filling)'
      BY <2>6, FillingOpen, PTL
    <3> QED BY <3>1
  <2>8. Filling' >= Filling
    <3>1. CASE Moves
      BY <2>2, <3>1, SwapEffect, CountEffect, SendEffect, RecycleSlots DEF Moves, PointsInv
    <3> QED BY <2>2, <3>1, SlotsKept
  <2>9. PICK k \in FirstOpen' .. Filling' : k = Filling'
    BY <2>7
  <2>10. k > t
    BY <2>2, <2>3, <2>7, <2>8, <2>9
  <2>11. After(c, s, k)'
    BY <2>5, <2>10
  <2> QED BY <2>9, <2>11
<1> QED BY <1>1, <1>3, <1>4

\* When a call leaves the freeze, everything beyond the batch it will wait for came
\* after it: an idle batcher has nothing beyond last.
LEMMA FrozenCovers ==
  ASSUME IInv, NoAliasing, PointsInv, FreezeHolder, LastIsNewest, FreezeCovers, [Next]_vars,
         NEW c \in Callers, CallFrozen(c), NEW s \in Shard
  PROVE  \A k \in FirstOpen' .. Filling' : k > target'[c] => After(c, s, k)'
<1>1. freezeMu = c /\ freezeMu' = None /\ c # None /\ snap'[c] = snap[c]
  BY DEF CallFrozen, Callers
<1>2. /\ Len(batches) \in Nat /\ Filling = Len(batches) + 2 /\ Frozing = Len(batches) + 1
  BY PendingType
<1>3. PICK f \in 1 .. Filling : f = Filling
  BY <1>2
<1>4. PICK g \in 1 .. Filling : g = Frozing
  BY <1>2
<1>5. FirstOpen' \in Int /\ target \in [Callers -> 0 .. Len(batches)]
  BY OpenGrows DEF IInv, TypeOK, BatchType
<1>6. CASE FreezeLoad
  <2>1. idle /\ target'[c] = Len(batches)
    BY <1>1, <1>5, <1>6 DEF FreezeLoad, FreezeReturn, idleBarrier, LastIsNewest
  <2>2. fshards[s] = NoBuf
    BY <1>6 DEF FreezeLoad, IInv, FreezeInv, Collected, CollectedAll
  <2>3. buf[s][active[s]] = <<>>
    <3>1. activePoints = Cardinality(ActivePoints) /\ IsFiniteSet(ActivePoints)
      <4>1. Cardinality(ActivePoints) \in Nat
        BY FS_CardinalityType DEF PointsInv, CountsAll
      <4> QED BY <1>6, <4>1 DEF FreezeLoad, PointsInv, CountsAll
    <3>2. ActivePoints = {}
      BY <2>1, <3>1, FS_EmptySet DEF idle
    <3>3. activeCount[s] = 0
      <4>1. {s} \X (1 .. activeCount[s]) = {}
        BY <3>2, ActiveOf
      <4> QED BY <4>1, ActiveOf, FS_EmptySet
    <3>4. buf[s][active[s]] \in Seq(Nat) /\ Len(buf[s][active[s]]) = 0
      BY <3>3, OwnerTypes DEF PointsInv, CountsActive, IInv, TypeOK, ShardType
    <3> QED BY <3>4, EmptySeq
  <2>4. Len(batches') = Len(batches) /\ fshards' = fshards /\ active' = active /\ buf' = buf
    BY <1>6 DEF FreezeLoad, shardVars, chanVars
  <2>5. Filling' = Filling /\ Frozing' = Frozing
    BY <2>4 DEF Filling, Frozing
  <2>6. Points(s, f)' = <<>> /\ Points(s, g)' = <<>>
    BY <1>2, <1>3, <1>4, <2>2, <2>3, <2>4, <2>5 DEF Points, Slot
  <2>7. \A k \in FirstOpen' .. Filling' : k > target'[c] => k = f \/ k = g
    BY <1>2, <1>3, <1>4, <1>5, <2>1, <2>5
  <2> QED BY <2>6, <2>7 DEF After
<1>7. CASE FreezeCount
  <2>1. fcount = 0 /\ target'[c] = Len(batches)
    BY <1>1, <1>5, <1>7 DEF FreezeCount, FreezeReturn, idleBarrier, LastIsNewest
  <2>2. /\ Filling' = Filling /\ Points(s, f)' = Points(s, f)
        /\ Points(s, g)' = Points(s, g) /\ Points(s, g) = <<>>
    BY <1>3, <1>4, <1>7, <2>1, CountEffect DEF PointsInv
  <2>3. After(c, s, f)
    BY <1>1, <1>3, <1>7 DEF FreezeCovers, FreezeCount, Collected, CollectedAll
  <2>4. \A k \in FirstOpen' .. Filling' : k > target'[c] => k = f \/ k = g
    BY <1>2, <1>3, <1>4, <1>5, <2>1, <2>2
  <2> QED BY <1>1, <2>2, <2>3, <2>4 DEF After
<1>8. CASE FreezeSend
  <2>1. target'[c] = Frozing
    BY <1>1, <1>2, <1>5, <1>8 DEF FreezeSend, FreezeReturn
  <2>2. /\ Filling' = Filling + 1
        /\ \A k \in 1 .. Filling + 1 :
             Points(s, k)' = IF k <= Frozing THEN Points(s, k) ELSE IF k = Filling THEN <<>> ELSE Points(s, f)
    BY <1>3, <1>8, SendEffect
  <2>3. After(c, s, f)
    BY <1>1, <1>3, <1>8 DEF FreezeCovers, FreezeSend, Collected, CollectedAll
  <2>4. \A k \in FirstOpen' .. Filling' : k > target'[c] => k \in 1 .. Filling + 1 /\ ~(k <= Frozing)
    BY <1>2, <1>5, <2>1, <2>2
  <2> QED BY <1>1, <2>2, <2>3, <2>4 DEF After
<1> QED BY <1>6, <1>7, <1>8 DEF CallFrozen

\* What a call waits for stays in the slots up to its batch.
LEMMA TargetStep ==
  ASSUME IInv, NoAliasing, PointsInv, FreezeHolder, LastIsNewest, SnapAccepted, FreezeCovers,
         TargetCovers, [Next]_vars
  PROVE  TargetCovers'
<1> SUFFICES ASSUME NEW c \in Callers, cpc'[c] = "target", NEW s \in Shard
             PROVE  \A k \in FirstOpen' .. Filling' : k > target'[c] => After(c, s, k)'
  BY DEF TargetCovers
<1>1. CASE CallFrozen(c)
  BY <1>1, FrozenCovers
<1>2. CASE CallKept(c)
  <2>1. cpc[c] = "target" /\ snap'[c] = snap[c] /\ target'[c] = target[c]
    BY <1>2 DEF CallKept
  <2>2. PICK t \in 0 .. Frozing : t = target[c]
    BY PendingType DEF IInv, TypeOK, BatchType
  <2>3. \A k \in FirstOpen .. Filling : k > t => After(c, s, k)
    BY <2>1, <2>2 DEF TargetCovers
  <2> QED BY <2>1, <2>2, <2>3, AfterStep
<1>3. CallFrozen(c) \/ CallKept(c)
  BY CallerMoves DEF CallStarts, CallAnswers, CallMoves, FlushReturn, CloseQueue, CloseReturn,
     IInv, TypeOK, CallerType
<1> QED BY <1>1, <1>2, <1>3

\* When the batch a call waits for is done, what was accepted before the call is in the
\* log, and none of it was lost unless an error is stored.
LEMMA AnswerWritten ==
  ASSUME IInv, PointsInv, DoneCommitted, LostKnown, SnapAccepted, TargetCovers,
         NEW c \in Callers, cpc[c] = "target", Done(target[c]), NEW s \in Shard
  PROVE  snap[c][s] <= Len(log[s]) /\ (err \/ Written(c, s))
<1>1. /\ FirstQueued \in Nat /\ FirstQueued >= 1 /\ FirstQueued <= Frozing /\ Frozing < Filling
      /\ Filling \in Nat /\ Frozing \in Nat /\ Len(batches) \in Nat /\ Frozing = Len(batches) + 1
  BY PendingType
<1>2. /\ target[c] \in 0 .. Len(batches) /\ snap[c][s] \in Nat /\ accepted[s] \in Nat
      /\ log[s] \in Seq(Nat) /\ Len(log[s]) \in Nat /\ snap[c][s] <= accepted[s]
  BY DEF SnapAccepted, IInv, TypeOK, BatchType, CallerType, ShardType, WorkerType
<1>3. target[c] < FirstQueued /\ (target[c] # 0 => target[c] # wb)
  <2>1. CASE target[c] = 0
    BY <1>1, <2>1
  <2>2. CASE target[c] # 0
    BY <1>2, <2>2 DEF Done, DoneCommitted
  <2> QED BY <2>1, <2>2
<1>4. \A k \in FirstOpen .. Filling : k > target[c] => After(c, s, k)
  BY DEF TargetCovers
<1>5. kpc \in {"commit", "setError"} => /\ wb = FirstQueued - 1 /\ FirstOpen = wb /\ wb >= 1 /\ wb > target[c]
                                        /\ wb <= Len(batches)
  <2>1. kpc \in {"commit", "setError"} => wb = FirstQueued - 1 /\ wb >= 1
    BY DEF IInv, QueueInv, WorkerIdle
  <2> QED BY <1>1, <1>2, <1>3, <2>1 DEF FirstOpen
<1>6. snap[c][s] <= Len(log[s])
  <2> SUFFICES ASSUME snap[c][s] > Len(log[s]) PROVE FALSE
    BY <1>2
  <2>1. snap[c][s] \in Len(log[s]) + 1 .. accepted[s] /\ Covered(s)
    BY <1>2 DEF PointsInv, Chain
  <2>2. PICK k \in Pending : \E i \in DOMAIN Points(s, k) : Points(s, k)[i] = snap[c][s]
    BY <2>1 DEF Covered
  <2>3. k > target[c] /\ k \in FirstOpen .. Filling
    <3>1. CASE kpc = "commit"
      BY <1>1, <1>2, <1>5, <3>1 DEF Pending, FirstPending
    <3>2. CASE kpc # "commit"
      <4>1. FirstOpen \in Nat /\ FirstOpen <= FirstQueued
        BY <1>1, <1>5 DEF FirstOpen
      <4>2. k \in FirstQueued .. Filling
        BY <3>2 DEF Pending, FirstPending
      <4> QED BY <1>1, <1>2, <1>3, <4>1, <4>2
    <3> QED BY <3>1, <3>2
  <2>4. k \in 1 .. Filling
    BY PendingType
  <2>5. \A i \in DOMAIN Points(s, k) : Points(s, k)[i] > snap[c][s] /\ Points(s, k)[i] \in Nat
    BY <1>4, <2>3, <2>4, PointsType DEF After
  <2> QED BY <1>2, <2>2, <2>5
<1>7. err \/ \A n \in 1 .. snap[c][s] : n \notin lost[s]
  <2> SUFFICES ASSUME ~err, NEW n \in 1 .. snap[c][s], n \in lost[s] PROVE FALSE
    OBVIOUS
  <2>1. kpc = "setError" /\ n \in {Points(s, wb)[i] : i \in DOMAIN Points(s, wb)}
    BY DEF LostKnown
  <2>2. wb \in 1 .. Filling /\ wb \in FirstOpen .. Filling /\ wb > target[c]
    BY <1>1, <1>2, <1>5, <2>1
  <2>3. \A i \in DOMAIN Points(s, wb) : Points(s, wb)[i] > snap[c][s] /\ Points(s, wb)[i] \in Nat
    BY <1>4, <2>2, PointsType DEF After
  <2> QED BY <1>2, <2>1, <2>3
<1> QED BY <1>6, <1>7 DEF Written

\* What is in the log stays there, and a later failure loses none of it.
LEMMA WrittenKept ==
  ASSUME IInv, NoAliasing, PointsInv, [Next]_vars,
         NEW c \in Callers, NEW s \in Shard, snap'[c] = snap[c], snap[c][s] <= Len(log[s])
  PROVE  snap'[c][s] <= Len(log'[s]) /\ (Written(c, s) => Written(c, s)')
<1>1. /\ Len(log[s]) \in Nat /\ Len(log'[s]) \in Nat /\ Len(log[s]) <= Len(log'[s])
      /\ \A n \in lost'[s] : n \in lost[s] \/ n > Len(log[s])
      /\ snap[c][s] \in Nat
  BY LogGrows DEF IInv, TypeOK, CallerType
<1> QED BY <1>1 DEF Written

\* Flush and Close answer without an error only for what is in the log.
LEMMA BarrierStep ==
  ASSUME IInv, NoAliasing, PointsInv, FreezeHolder, DoneCommitted, LostKnown, SnapAccepted,
         TargetCovers, CloseWritten, NoneYet, Barrier, [Next]_vars
  PROVE  CloseWritten' /\ Barrier'
<1>1. err => err'
  BY LogGrows DEF Shard
<1>2. CloseWritten'
  <2> SUFFICES ASSUME NEW c \in Callers, cpc'[c] = "worker", NEW s \in Shard
               PROVE  snap'[c][s] <= Len(log'[s]) /\ (err' \/ Written(c, s)')
    BY DEF CloseWritten
  <2>1. CASE CallKept(c)
    <3>1. snap'[c] = snap[c] /\ snap[c][s] <= Len(log[s]) /\ (err \/ Written(c, s))
      BY <2>1 DEF CallKept, CloseWritten
    <3> QED BY <1>1, <3>1, WrittenKept
  <2>2. CASE CallAnswers(c)
    <3>1. snap' = snap /\ cpc[c] = "target" /\ Done(target[c])
      BY <2>2 DEF CallAnswers, FlushReturn, CloseQueue, CloseReturn, IInv, TypeOK, CallerType
    <3>2. snap[c][s] <= Len(log[s]) /\ (err \/ Written(c, s))
      BY <3>1, AnswerWritten
    <3> QED BY <1>1, <3>1, <3>2, WrittenKept
  <2> QED BY <2>1, <2>2, CallerMoves DEF CallStarts, CallFrozen, CallMoves
<1>3. Barrier'
  <2> SUFFICES ASSUME NEW c \in Callers, res'[c] = "nil", NEW s \in Shard PROVE Written(c, s)'
    BY LogGrows DEF Barrier, Written, IInv, TypeOK, CallerType
  <2>1. snap'[c] = snap[c] /\ Written(c, s)
    <3>1. CASE res[c] = "nil" /\ snap'[c] = snap[c]
      <4>1. Len(log[s]) >= snap[c][s] /\ \A n \in 1 .. snap[c][s] : n \notin lost[s]
        BY <3>1 DEF Barrier
      <4>2. Len(log[s]) \in Nat /\ snap[c][s] \in Nat
        BY DEF IInv, TypeOK, CallerType, WorkerType
      <4> QED BY <3>1, <4>1, <4>2 DEF Written
    <3>2. CASE CallKept(c) \/ CallFrozen(c) \/ CallMoves(c)
      BY <3>1, <3>2 DEF CallKept, CallFrozen, CallMoves
    <3>3. ~CallStarts(c)
      BY DEF CallStarts, NoneYet
    <3>4. CASE CallAnswers(c)
      <4>1. CASE c \in Flushers /\ FlushReturn(c)
        <5>1. cpc[c] = "target" /\ Done(target[c]) /\ snap' = snap /\ ~err
          BY <4>1 DEF FlushReturn, IInv, TypeOK, CallerType
        <5> QED BY <5>1, AnswerWritten
      <4>2. CASE c \in Closers /\ CloseQueue(c)
        BY <4>2 DEF CloseQueue, NoneYet
      <4>3. CASE c \in Closers /\ CloseReturn(c)
        <5>1. cpc[c] = "worker" /\ snap' = snap /\ ~err
          BY <4>3 DEF CloseReturn, IInv, TypeOK, CallerType
        <5> QED BY <5>1 DEF CloseWritten
      <4> QED BY <3>4, <4>1, <4>2, <4>3 DEF CallAnswers
    <3> QED BY <3>2, <3>3, <3>4, CallerMoves
  <2> QED BY <2>1, WrittenKept DEF Written
<1> QED BY <1>2, <1>3

\* The barrier's invariant is inductive.
LEMMA BarrierInvStep ==
  ASSUME IInv, NoAliasing, PointsInv, BarrierInv, [Next]_vars
  PROVE  BarrierInv'
<1> USE DEF BarrierInv
<1>1. FreezeHolder'
  BY HolderStep
<1>2. LastIsNewest' /\ DoneCommitted'
  BY DoneStep
<1>3. LostKnown' /\ SnapAccepted' /\ NoneYet'
  BY LostStep, SnapStep, NoneStep
<1>4. FreezeCovers' /\ TargetCovers'
  BY CoversStep, TargetStep
<1>5. CloseWritten' /\ Barrier'
  BY BarrierStep
<1> QED BY <1>1, <1>2, <1>3, <1>4, <1>5

\* At the start nobody waits.
LEMMA InitBarrier == Init => BarrierInv
<1> SUFFICES ASSUME Init PROVE BarrierInv
  OBVIOUS
<1>1. FreezeHolder /\ LastIsNewest /\ DoneCommitted /\ LostKnown
  BY DEF Init, FreezeHolder, LastIsNewest, DoneCommitted, LostKnown, Callers
<1>2. SnapAccepted /\ FreezeCovers /\ TargetCovers
  BY DEF Init, SnapAccepted, FreezeCovers, TargetCovers, Callers
<1>3. CloseWritten /\ NoneYet /\ Barrier
  BY DEF Init, CloseWritten, NoneYet, Barrier
<1> QED BY <1>1, <1>2, <1>3 DEF BarrierInv

\* The inductive invariant of this module holds in every reachable state.
THEOREM OrderInvariance == Spec => []OInv
<1>1. Init => BarrierInv
  BY InitBarrier
<1>2. IInv /\ NoAliasing /\ PointsInv /\ BarrierInv /\ [Next]_vars => BarrierInv'
  BY BarrierInvStep
<1>3. IInv /\ NoAliasing /\ PointsInv /\ BarrierInv => OInv
  BY DEF OInv
<1> QED BY <1>1, <1>2, <1>3, Invariance, PointsInvariance, PTL DEF Spec

\* When Flush or Close returns nil, every point accepted before it was called is in the
\* log and none of them was lost (write_batcher.go, Flush and Close).
THEOREM BarrierSafe == Spec => []Barrier
<1>1. OInv => Barrier
  BY DEF OInv, BarrierInv
<1> QED BY <1>1, OrderInvariance, PTL

(***************************************************************************)
(* The batcher implements WriteLog: commits, appends and the calls' begins *)
(* and answers are its steps, and everything else is invisible.            *)
(***************************************************************************)

CallBegins == (\E f \in Flushers : FlushStart(f)) \/ \E c \in Closers : CloseStart(c)

CallEnds == (\E f \in Flushers : FlushReturn(f)) \/ \E c \in Closers : CloseReturn(c)

\* Every other step changes nothing WriteLog sees.
LEMMA Invisible ==
  ASSUME IInv, NoAliasing, PointsInv, [Next]_vars, ~Commits, ~Appends, ~CallBegins, ~CallEnds
  PROVE  UNCHANGED WL!vars
<1>1. 1 \in Shard
  BY DEF Shard
<1>2. log' = log /\ lost' = lost
  BY <1>1, LogGrows
<1>3. snap' = snap /\ res' = res /\ accepted' = accepted
  BY DEF Appends, Commits, CallBegins, CallEnds, Next, WriterStep, AddStart, maybeSignal, WaitLock,
     WaitCheckError, WaitCheckSpace, CondWait, WaitRelock, FreezeStep, FreezeLoad, FreezeSwap,
     FreezeCount, FreezeNotify, FreezeBroadcast, FreezeSend, FreezeSendPanic, FreezeLock,
     TriggerStep, TriggerSignal, TriggerTick, TriggerReturn, TriggerStop, FlusherStep, CloserStep,
     CloseNotify, CloseBroadcast, CloseStop, CloseTriggerDone, CloseQueue, WorkerStep,
     WorkerReceive, WorkerExit, setError, WorkerNotify, WorkerBroadcast, WorkerDone, recycleBatch,
     Terminated, vars, shardVars, callerVars
<1> QED BY <1>2, <1>3 DEF WL!vars

\* A commit of the worker is WriteLog's.
LEMMA CommitRefines ==
  ASSUME IInv, NoAliasing, PointsInv, Commits, ~panicked
  PROVE  WL!Commit
<1>1. DOMAIN log' = Shard /\ DOMAIN lost' = Shard
  <2>1. log' = [s \in Shard |-> log[s] \o Frozen(s)]
    BY DEF Commits, commitOK, commitFail, CommitLog
  <2>2. CASE commitOK
    BY <2>1, <2>2 DEF commitOK, IInv, TypeOK, WorkerType
  <2>3. CASE commitFail
    BY <2>1, <2>3 DEF commitFail
  <2> QED BY <2>2, <2>3 DEF Commits
<1>2. ASSUME NEW s \in Shard
      PROVE  \E n \in Len(log[s]) .. accepted[s] :
               /\ log'[s] = log[s] \o WL!Oldest(s, n)
               /\ lost'[s] \in {lost[s], lost[s] \cup (Len(log[s]) + 1 .. n)}
  <2> DEFINE m == Len(log'[s])
  <2>1. /\ Len(log[s]) \in Nat /\ m \in Nat /\ Len(log[s]) <= m /\ m <= accepted[s]
        /\ log'[s] = log[s] \o [i \in 1 .. m - Len(log[s]) |-> Len(log[s]) + i]
        /\ lost'[s] \in {lost[s], lost[s] \cup (Len(log[s]) + 1 .. m)}
    BY CommitLost
  <2>2. accepted[s] \in Nat
    BY DEF IInv, TypeOK, ShardType
  <2> HIDE DEF m
  <2>3. m \in Len(log[s]) .. accepted[s]
    BY <2>1, <2>2
  <2>4. log'[s] = log[s] \o WL!Oldest(s, m)
    BY <2>1 DEF WL!Oldest
  <2> QED BY <2>1, <2>3, <2>4
<1>3. UNCHANGED <<accepted, snap, res>>
  BY DEF Commits, commitOK, commitFail, shardVars, callerVars
<1> QED BY <1>1, <1>2, <1>3 DEF WL!Commit

\* Flush and Close are called: WriteLog's call.
LEMMA CallRefines ==
  ASSUME IInv, NoneYet, CallBegins
  PROVE  \E c \in Callers : WL!Call(c)
<1>1. ASSUME NEW f \in Flushers, FlushStart(f) PROVE WL!Call(f) /\ f \in Callers
  BY <1>1 DEF FlushStart, WL!Call, Callers, shardVars, workerVars
<1>2. ASSUME NEW c \in Closers, CloseStart(c) PROVE WL!Call(c) /\ c \in Callers
  <2>1. c \in Callers /\ c \notin Flushers
    BY DEF Callers
  <2>2. res[c] = "none" /\ res \in [Callers -> {"none", "nil", "err"}]
    BY <1>2, <2>1 DEF CloseStart, NoneYet, IInv, TypeOK, CallerType
  <2>3. res' = [res EXCEPT ![c] = "none"]
    BY <1>2, <2>1, <2>2 DEF CloseStart
  <2> QED BY <1>2, <2>1, <2>3 DEF CloseStart, WL!Call, shardVars, workerVars
<1> QED BY <1>1, <1>2 DEF CallBegins

\* They return: WriteLog's answer, which needs what was accepted before to be written.
LEMMA AnswerRefines ==
  ASSUME IInv, PointsInv, BarrierInv, CallEnds
  PROVE  \E c \in Callers : WL!Answer(c)
<1> USE DEF BarrierInv
<1>1. ASSUME NEW c \in Callers, \A s \in Shard : Written(c, s) PROVE WL!Written(c)
  <2>1. \A s \in Shard : snap[c][s] \in Nat /\ Len(log[s]) \in Nat
    BY DEF IInv, TypeOK, CallerType, WorkerType
  <2> QED BY <1>1, <2>1 DEF Written, WL!Written
<1>2. ASSUME NEW f \in Flushers, FlushReturn(f) PROVE f \in Callers /\ WL!Answer(f)
  <2>1. f \in Callers /\ cpc[f] = "target" /\ Done(target[f])
    BY <1>2 DEF FlushReturn, Callers
  <2>2. res[f] = "none"
    BY <2>1 DEF NoneYet
  <2>3. err \/ WL!Written(f)
    BY <1>1, <2>1, AnswerWritten
  <2>4. res' = [res EXCEPT ![f] = "err"] \/ (~err /\ res' = [res EXCEPT ![f] = "nil"])
    BY <1>2 DEF FlushReturn
  <2>5. UNCHANGED <<accepted, log, lost, snap>>
    BY <1>2 DEF FlushReturn, shardVars, workerVars
  <2> QED BY <2>1, <2>2, <2>3, <2>4, <2>5 DEF WL!Answer
<1>3. ASSUME NEW c \in Closers, CloseReturn(c) PROVE c \in Callers /\ WL!Answer(c)
  <2>1. c \in Callers /\ cpc[c] = "worker"
    BY <1>3 DEF CloseReturn, Callers
  <2>2. res[c] = "none"
    BY <2>1 DEF NoneYet
  <2>3. err \/ WL!Written(c)
    BY <1>1, <2>1 DEF CloseWritten
  <2>4. res' = [res EXCEPT ![c] = "err"] \/ (~err /\ res' = [res EXCEPT ![c] = "nil"])
    BY <1>3 DEF CloseReturn
  <2>5. UNCHANGED <<accepted, log, lost, snap>>
    BY <1>3 DEF CloseReturn, shardVars, workerVars
  <2> QED BY <2>1, <2>2, <2>3, <2>4, <2>5 DEF WL!Answer
<1> QED BY <1>2, <1>3 DEF CallEnds

\* Every step of the batcher is one of WriteLog or changes nothing it sees.
LEMMA StepRefines ==
  ASSUME OInv, [Next]_vars
  PROVE  [WL!Next]_(WL!vars)
<1> USE DEF OInv
<1>1. CASE Commits
  BY <1>1, CommitAlive, CommitRefines DEF WL!Next
<1>2. CASE Appends
  <2>1. PICK w \in Writers, s \in Shard : appendPoint(w, s)
    BY <1>2 DEF Appends
  <2>2. WL!Accept(s)
    BY <2>1 DEF appendPoint, WL!Accept, workerVars, callerVars
  <2> QED BY <2>2 DEF WL!Next
<1>3. CASE CallBegins
  BY <1>3, CallRefines DEF WL!Next, BarrierInv
<1>4. CASE CallEnds
  BY <1>4, AnswerRefines DEF WL!Next
<1>5. CASE ~Commits /\ ~Appends /\ ~CallBegins /\ ~CallEnds
  BY <1>5, Invisible
<1> QED BY <1>1, <1>2, <1>3, <1>4, <1>5

\* The batcher keeps write_batcher.go's promise to add, addBatch, Flush and Close: it
\* implements one FIFO log per shard whose barriers are Flush and Close.
THEOREM Refinement == Spec => ImplementsWriteLog
<1>1. Init => WL!Init
  BY DEF Init, WL!Init
<1>2. OInv /\ [Next]_vars => [WL!Next]_(WL!vars)
  BY StepRefines
<1> QED BY <1>1, <1>2, OrderInvariance, PTL DEF Spec, ImplementsWriteLog, WL!Spec
=============================================================================
