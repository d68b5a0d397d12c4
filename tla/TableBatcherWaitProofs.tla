----------------------- MODULE TableBatcherWaitProofs -----------------------
(***************************************************************************)
(* Proofs about the overload wait of TableBatcher (waitIfOverloaded,       *)
(* notifyWaiters) for every finite set of writers: no wakeup is lost, and  *)
(* the active buffers stay within the memory bound.                        *)
(***************************************************************************)
EXTENDS TableBatcherProofs, FiniteSetTheorems

USE ConstantsAssumption DEF NoBuf

(***************************************************************************)
(* The inductive invariant of the wait.  notifyWaiters reads waiters       *)
(* without waitMu: the counter must cover every writer that could go to    *)
(* sleep after the read, and a writer that has looked at the reason to     *)
(* sleep must keep waitMu until it sleeps.                                 *)
(***************************************************************************)
InWait == {w \in Writers : wpc[w] \in {"check", "load", "wait", "asleep", "relock"}}

WaitersCounted == waiters = Cardinality(InWait)

WaitMuHeld == \A w \in Writers : wpc[w] \in {"check", "load", "wait"} <=> waitMu = w

ErrWakes ==
  \A w \in Writers : wpc[w] \in {"load", "wait", "asleep"} /\ err => kpc \in {"notify", "bcast"}

CloseWakes ==
  \A w \in Writers : wpc[w] \in {"load", "wait", "asleep"} /\ closed =>
    \E c \in Closers : cpc[c] \in {"notify", "bcast"}

SpaceWakes ==
  \A w \in Writers : wpc[w] \in {"wait", "asleep"} /\ activePoints <= overloadPointLimit =>
    fz \in {"notify", "bcast"}

WaitInv ==
  WaitersCounted /\ WaitMuHeld /\ FreezeHolder /\ ErrWakes /\ CloseWakes /\ SpaceWakes

(***************************************************************************)
(* The inductive invariant of the memory bound.  A writer is charged for   *)
(* the points of its call from its start until it has seen the active      *)
(* count within the limit; after a terminal error nobody can start a call  *)
(* and everybody stays charged.  Every active point above the limit is one *)
(* of the points the charged writers have appended.                        *)
(***************************************************************************)
Charged(w) ==
  \/ terminalError
  \/ wpc[w] # "idle" /\ (wpc[w] = "signal" => Overloaded(observed[w]))

Spent == {p \in Writers \X (1 .. MaxAddBatch) : Charged(p[1]) /\ p[2] > todo[p[1]]}

TodoBound ==
  \A w \in Writers : todo[w] <= MaxAddBatch /\ (wpc[w] # "append" => todo[w] = 0)

ExcessCharged == activePoints <= overloadPointLimit + Cardinality(Spent)

MemInv == TodoBound /\ ExcessCharged

WInv == IInv /\ WaitInv /\ MemInv

(***************************************************************************)
(* What a step may do to the writers' control.                             *)
(***************************************************************************)

\* A step that is not a writer's leaves the writers' control alone, or wakes the
\* sleepers with waitMu free.
LEMMA OthersWriters ==
  ASSUME Next
  PROVE  \/ \E w \in Writers : WriterStep(w)
         \/ UNCHANGED <<wpc, todo, observed, waiters, waitMu>>
         \/ Broadcast
<1>1. CASE FreezeStep
  BY <1>1 DEF FreezeStep, FreezeLoad, FreezeSwap, FreezeCount, FreezeNotify,
     FreezeBroadcast, FreezeSend, FreezeSendPanic, writerVars
<1>2. CASE \E c \in Callers : FreezeLock(c)
  BY <1>2 DEF FreezeLock, writerVars
<1>3. CASE TriggerStep
  BY <1>3 DEF TriggerStep, TriggerSignal, TriggerTick, TriggerReturn, TriggerStop, writerVars
<1>4. CASE \E f \in Flushers : FlusherStep(f)
  BY <1>4 DEF FlusherStep, FlushStart, FlushReturn, writerVars
<1>5. CASE \E c \in Closers : CloserStep(c)
  BY <1>5 DEF CloserStep, CloseStart, CloseNotify, CloseBroadcast, CloseStop,
     CloseTriggerDone, CloseQueue, CloseReturn, writerVars
<1>6. CASE WorkerStep
  BY <1>6 DEF WorkerStep, WorkerReceive, WorkerExit, commitOK, commitFail, setError,
     WorkerNotify, WorkerBroadcast, recycleBatch, WorkerDone, writerVars
<1>7. CASE Terminated
  BY <1>7 DEF Terminated, vars, writerVars
<1> QED BY <1>1, <1>2, <1>3, <1>4, <1>5, <1>6, <1>7 DEF Next

\* The writer that changes its control state joins the wait, stays or leaves.
LEMMA WaitersStep ==
  ASSUME IInv, WaitersCounted, Next
  PROVE  WaitersCounted'
<1> USE DEF IInv, TypeOK, WriterType, ChanType
<1>1. IsFiniteSet(InWait)
  BY WritersFinite, FS_Subset DEF InWait
<1>2. ASSUME NEW w \in Writers, WriterStep(w) PROVE WaitersCounted'
  <2>1. CASE InWait' = InWait /\ waiters' = waiters
    BY <2>1 DEF WaitersCounted
  <2>2. CASE w \notin InWait /\ InWait' = InWait \cup {w} /\ waiters' = waiters + 1
    BY <1>1, <2>2, FS_AddElement DEF WaitersCounted
  <2>3. CASE w \in InWait /\ InWait' = InWait \ {w} /\ waiters' = waiters - 1
    BY <1>1, <2>3, FS_RemoveElement DEF WaitersCounted
  <2>4. CASE AddStart(w) \/ \E s \in Shard : appendPoint(w, s)
    BY <2>1, <2>4 DEF AddStart, appendPoint, InWait
  <2>5. CASE maybeSignal(w)
    BY <2>1, <2>5 DEF maybeSignal, InWait
  <2>6. CASE WaitLock(w)
    BY <2>2, <2>6 DEF WaitLock, InWait
  <2>7. CASE WaitCheckError(w) \/ WaitCheckSpace(w)
    <3>1. CASE wpc' = [wpc EXCEPT ![w] = "idle"] /\ waiters' = waiters - 1
      BY <2>3, <2>7, <3>1 DEF WaitCheckError, WaitCheckSpace, InWait
    <3>2. CASE wpc' \in {[wpc EXCEPT ![w] = "load"], [wpc EXCEPT ![w] = "wait"]} /\ waiters' = waiters
      BY <2>1, <2>7, <3>2 DEF WaitCheckError, WaitCheckSpace, InWait
    <3> QED BY <2>7, <3>1, <3>2 DEF WaitCheckError, WaitCheckSpace, WaitReturn
  <2>8. CASE CondWait(w) \/ WaitRelock(w)
    BY <2>1, <2>8 DEF CondWait, WaitRelock, InWait
  <2> QED BY <1>2, <2>4, <2>5, <2>6, <2>7, <2>8 DEF WriterStep
<1>3. CASE UNCHANGED <<wpc, waiters>>
  BY <1>3 DEF WaitersCounted, InWait
<1>4. CASE Broadcast
  <2>1. InWait' = InWait
    BY <1>4 DEF Broadcast, InWait
  <2> QED BY <1>4, <2>1 DEF Broadcast, WaitersCounted
<1> QED BY <1>2, <1>3, <1>4, OthersWriters

\* Only the holder of waitMu is between taking it and going to sleep.
LEMMA WaitMuStep ==
  ASSUME IInv, WaitMuHeld, Next
  PROVE  WaitMuHeld'
<1> USE DEF IInv, TypeOK, WriterType, ChanType, WaitMuHeld
<1>1. ASSUME NEW w \in Writers, WriterStep(w) PROVE WaitMuHeld'
  <2>1. CASE AddStart(w) \/ \E s \in Shard : appendPoint(w, s)
    BY <2>1 DEF AddStart, appendPoint
  <2>2. CASE maybeSignal(w)
    BY <2>2 DEF maybeSignal
  <2>3. CASE WaitLock(w) \/ WaitRelock(w)
    BY <2>3 DEF WaitLock, WaitRelock
  <2>4. CASE WaitCheckError(w) \/ WaitCheckSpace(w)
    BY <2>4 DEF WaitCheckError, WaitCheckSpace, WaitReturn
  <2>5. CASE CondWait(w)
    BY <2>5 DEF CondWait
  <2> QED BY <1>1, <2>1, <2>2, <2>3, <2>4, <2>5 DEF WriterStep
<1>2. CASE UNCHANGED <<wpc, waitMu>>
  BY <1>2
<1>3. CASE Broadcast
  BY <1>3 DEF Broadcast
<1> QED BY <1>1, <1>2, <1>3, OthersWriters

\* The three reasons to sleep that can end: an error, Close, space.  A writer enters
\* "load" only with no terminal error, "wait" only with the batcher overloaded.
LEMMA WriterWakes ==
  ASSUME IInv, WaitInv, NEW w \in Writers, WriterStep(w)
  PROVE  ErrWakes' /\ CloseWakes' /\ SpaceWakes'
<1> USE DEF IInv, TypeOK, WriterType, ShardType
<1>1. UNCHANGED <<err, kpc, closed, cpc, fz>>
  BY DEF WriterStep, AddStart, appendPoint, maybeSignal, WaitLock, WaitCheckError,
     WaitCheckSpace, CondWait, WaitRelock, callerVars, freezeVars, workerVars
<1>2. /\ activePoints' \in Int /\ activePoints' >= activePoints
      /\ overloadPointLimit \in Int
  <2>1. activePoints' = activePoints \/ activePoints' = activePoints + 1
    BY DEF WriterStep, AddStart, appendPoint, maybeSignal, WaitLock, WaitCheckError,
       WaitCheckSpace, CondWait, WaitRelock, shardVars
  <2> QED BY <2>1 DEF overloadPointLimit
<1>3. /\ \A v \in Writers \ {w} : wpc'[v] = wpc[v]
      /\ wpc'[w] = "load" => ~terminalError
      /\ wpc'[w] = "wait" => wpc[w] = "load" /\ activePoints > overloadPointLimit
      /\ wpc'[w] = "asleep" => wpc[w] = "wait"
  <2>1. CASE AddStart(w) \/ \E s \in Shard : appendPoint(w, s)
    BY <2>1 DEF AddStart, appendPoint
  <2>2. CASE maybeSignal(w)
    BY <2>2 DEF maybeSignal
  <2>3. CASE WaitLock(w) \/ WaitRelock(w) \/ CondWait(w)
    BY <2>3 DEF WaitLock, WaitRelock, CondWait
  <2>4. CASE WaitCheckError(w) \/ WaitCheckSpace(w)
    BY <2>4 DEF WaitCheckError, WaitCheckSpace, WaitReturn, Overloaded
  <2> QED BY <2>1, <2>2, <2>3, <2>4 DEF WriterStep
<1>4. ErrWakes'
  BY <1>1, <1>3 DEF WaitInv, ErrWakes, terminalError
<1>5. CloseWakes'
  BY <1>1, <1>3 DEF WaitInv, CloseWakes, terminalError
<1>6. SpaceWakes'
  BY <1>1, <1>2, <1>3 DEF WaitInv, SpaceWakes, overloadPointLimit
<1> QED BY <1>4, <1>5, <1>6

\* With waitMu free nobody is between its last look and its sleep, so Broadcast
\* leaves no writer that could miss it.
LEMMA BroadcastWakes ==
  ASSUME IInv, WaitMuHeld, Broadcast
  PROVE  /\ \A w \in Writers : wpc'[w] \notin {"load", "wait", "asleep"}
         /\ ErrWakes' /\ CloseWakes' /\ SpaceWakes'
<1>1. \A w \in Writers : wpc[w] \notin {"check", "load", "wait"}
  BY DEF WaitMuHeld, Broadcast, BroadcastLocked
<1>2. \A w \in Writers : wpc'[w] \notin {"load", "wait", "asleep"}
  BY <1>1 DEF Broadcast
<1> QED BY <1>2 DEF ErrWakes, CloseWakes, SpaceWakes

\* The unlocked read of waiters sees every writer that is in the wait.
LEMMA NotifySees ==
  ASSUME IInv, WaitersCounted, NEW w \in Writers,
         wpc[w] \in {"check", "load", "wait", "asleep", "relock"}
  PROVE  notifyNeeded
<1>1. IsFiniteSet(InWait) /\ w \in InWait
  BY WritersFinite, FS_Subset DEF InWait
<1>2. Cardinality(InWait) # 0
  BY <1>1, FS_EmptySet
<1> QED BY <1>2 DEF notifyNeeded, WaitersCounted

\* Steps of the freeze: only FreezeCount takes points off the active count, and it
\* goes on to notify.
LEMMA FreezeWakes ==
  ASSUME IInv, WaitInv, FreezeStep
  PROVE  ErrWakes' /\ CloseWakes' /\ SpaceWakes'
<1> USE DEF IInv, TypeOK, ShardType, FreezeType, CallerType
<1>1. CASE FreezeBroadcast
  BY <1>1, BroadcastWakes DEF FreezeBroadcast, WaitInv
<1>2. CASE ~FreezeBroadcast
  <2>1. UNCHANGED <<wpc, err, kpc, closed>>
    BY <1>2 DEF FreezeStep, FreezeLoad, FreezeSwap, FreezeCount, FreezeNotify, FreezeSend,
       FreezeSendPanic, writerVars, workerVars
  <2>2. \A c \in Closers : cpc[c] \in {"notify", "bcast"} => cpc'[c] = cpc[c]
    <3>1. CASE UNCHANGED cpc
      BY <3>1
    <3>2. CASE cpc' = [cpc EXCEPT ![freezeMu] = "target"] /\ fz # "idle"
      <4>1. freezeMu \in Callers /\ cpc[freezeMu] = "freezing"
        BY <3>2 DEF WaitInv, FreezeHolder, FreezeInv
      <4> QED BY <3>2, <4>1 DEF Callers
    <3> QED BY <1>2, <3>1, <3>2 DEF FreezeStep, FreezeLoad, FreezeSwap, FreezeCount,
       FreezeNotify, FreezeSend, FreezeSendPanic, FreezeReturn, callerVars
  <2>3. SpaceWakes'
    <3>1. CASE FreezeNotify
      <4>1. ASSUME NEW w \in Writers, wpc[w] \in {"wait", "asleep"} PROVE fz' = "bcast"
        BY <3>1, <4>1, NotifySees DEF FreezeNotify, WaitInv
      <4> QED BY <2>1, <4>1 DEF SpaceWakes
    <3>2. CASE fz \notin {"notify", "bcast"} /\ activePoints' = activePoints
      BY <2>1, <3>2 DEF WaitInv, SpaceWakes, overloadPointLimit
    <3>3. CASE fz' = "notify"
      BY <3>3 DEF SpaceWakes
    <3>4. CASE UNCHANGED <<fz, activePoints>>
      BY <2>1, <3>4 DEF WaitInv, SpaceWakes, overloadPointLimit
    <3> QED BY <1>2, <3>1, <3>2, <3>3, <3>4 DEF FreezeStep, FreezeLoad, FreezeSwap, FreezeCount,
       FreezeSend, FreezeSendPanic, shardVars, freezeVars
  <2>4. ErrWakes'
    BY <2>1 DEF WaitInv, ErrWakes
  <2>5. CloseWakes'
    BY <2>1, <2>2 DEF WaitInv, CloseWakes
  <2> QED BY <2>3, <2>4, <2>5
<1> QED BY <1>1, <1>2

\* Steps of the worker: only setError sets the error, and it goes on to notify.
LEMMA WorkerWakes ==
  ASSUME IInv, WaitInv, WorkerStep
  PROVE  ErrWakes' /\ CloseWakes' /\ SpaceWakes'
<1>1. CASE WorkerBroadcast
  BY <1>1, BroadcastWakes DEF WorkerBroadcast, WaitInv
<1>2. CASE ~WorkerBroadcast
  <2>1. UNCHANGED <<wpc, closed, cpc, fz, activePoints>>
    BY <1>2 DEF WorkerStep, WorkerReceive, WorkerExit, commitOK, commitFail, setError,
       WorkerNotify, recycleBatch, WorkerDone, shardVars, writerVars, freezeVars, callerVars
  <2>2. ErrWakes'
    <3>1. CASE WorkerNotify
      <4>1. ASSUME NEW w \in Writers, wpc[w] \in {"load", "wait", "asleep"} PROVE kpc' = "bcast"
        BY <3>1, <4>1, NotifySees DEF WorkerNotify, WaitInv
      <4> QED BY <2>1, <4>1 DEF ErrWakes
    <3>2. CASE setError
      BY <3>2 DEF setError, ErrWakes
    <3>3. CASE kpc \notin {"notify", "bcast"} /\ err' = err
      BY <2>1, <3>3 DEF WaitInv, ErrWakes
    <3> QED BY <1>2, <3>1, <3>2, <3>3 DEF WorkerStep, WorkerReceive, WorkerExit, commitOK,
       commitFail, recycleBatch, WorkerDone
  <2>3. CloseWakes' /\ SpaceWakes'
    BY <2>1 DEF WaitInv, CloseWakes, SpaceWakes, overloadPointLimit
  <2> QED BY <2>2, <2>3
<1> QED BY <1>1, <1>2

\* Steps of the callers: only CloseStart sets closed, and it goes on to notify.
LEMMA CallerWakes ==
  ASSUME IInv, WaitInv,
         \/ \E c \in Callers : FreezeLock(c)
         \/ TriggerStep
         \/ \E f \in Flushers : FlusherStep(f)
         \/ \E c \in Closers : CloserStep(c)
  PROVE  ErrWakes' /\ CloseWakes' /\ SpaceWakes'
<1> USE DEF IInv, TypeOK, CallerType, ChanType
<1>1. CASE \E c \in Closers : CloseBroadcast(c)
  BY <1>1, BroadcastWakes DEF CloseBroadcast, WaitInv
<1>2. CASE ~ \E c \in Closers : CloseBroadcast(c)
  <2>1. UNCHANGED <<wpc, err, kpc, activePoints>>
    BY <1>2 DEF FreezeLock, TriggerStep, TriggerSignal, TriggerTick, TriggerReturn, TriggerStop,
       FlusherStep, FlushStart, FlushReturn, CloserStep, CloseStart, CloseNotify, CloseStop,
       CloseTriggerDone, CloseQueue, CloseReturn, shardVars, writerVars, workerVars
  <2>2. fz \in {"notify", "bcast"} => fz' = fz
    BY DEF FreezeLock, TriggerStep, TriggerSignal, TriggerTick, TriggerReturn, TriggerStop,
       FlusherStep, FlushStart, FlushReturn, CloserStep, CloseStart, CloseNotify, CloseBroadcast,
       CloseStop, CloseTriggerDone, CloseQueue, CloseReturn, freezeVars, FreezeInv, FreezeType
  <2>3. ErrWakes' /\ SpaceWakes'
    BY <2>1, <2>2 DEF WaitInv, ErrWakes, SpaceWakes, overloadPointLimit
  <2>4. CloseWakes'
    <3>1. CASE closed' = closed /\ \A c \in Closers : cpc[c] \in {"notify", "bcast"} => cpc'[c] = cpc[c]
      BY <2>1, <3>1 DEF WaitInv, CloseWakes
    <3>2. ASSUME NEW c \in Callers, FreezeLock(c) PROVE CloseWakes'
      BY <3>1, <3>2 DEF FreezeLock
    <3>3. CASE TriggerStep
      <4>1. Trigger \in Callers /\ Trigger \notin Closers
        BY DEF Callers
      <4>2. closed' = closed /\ \A d \in Callers \ {Trigger} : cpc'[d] = cpc[d]
        BY <3>3, <4>1 DEF TriggerStep, TriggerSignal, TriggerTick, TriggerReturn, TriggerStop
      <4> QED BY <3>1, <4>1, <4>2 DEF Callers
    <3>4. ASSUME NEW f \in Flushers, FlusherStep(f) PROVE CloseWakes'
      <4>1. f \in Callers /\ f \notin Closers
        BY DEF Callers
      <4>2. closed' = closed /\ \A d \in Callers \ {f} : cpc'[d] = cpc[d]
        BY <3>4, <4>1 DEF FlusherStep, FlushStart, FlushReturn
      <4> QED BY <3>1, <4>1, <4>2 DEF Callers
    <3>5. ASSUME NEW c \in Closers, CloserStep(c) PROVE CloseWakes'
      <4>1. c \in Callers
        BY DEF Callers
      <4>2. CASE CloseStart(c)
        <5>1. \A d \in Closers : cpc[d] \in {"notify", "bcast"} => cpc'[d] = cpc[d]
          BY <4>1, <4>2 DEF CloseStart
        <5>2. ~closed => cpc'[c] = "notify"
          BY <4>1, <4>2 DEF CloseStart
        <5> QED BY <2>1, <5>1, <5>2 DEF WaitInv, CloseWakes
      <4>3. CASE CloseNotify(c)
        <5>1. ASSUME NEW w \in Writers, wpc[w] \in {"load", "wait", "asleep"}
              PROVE  cpc'[c] = "bcast"
          BY <4>1, <4>3, <5>1, NotifySees DEF CloseNotify, WaitInv
        <5> QED BY <2>1, <5>1 DEF CloseWakes
      <4>4. CASE CloseStop(c) \/ CloseTriggerDone(c) \/ CloseQueue(c) \/ CloseReturn(c)
        <5>1. /\ closed' = closed
              /\ \A d \in Callers \ {c} : cpc'[d] = cpc[d]
              /\ cpc[c] \notin {"notify", "bcast"}
          BY <4>1, <4>4 DEF CloseStop, CloseTriggerDone, CloseQueue, CloseReturn
        <5> QED BY <3>1, <5>1 DEF Callers
      <4> QED BY <1>2, <3>5, <4>2, <4>3, <4>4 DEF CloserStep
    <3> QED BY <3>2, <3>3, <3>4, <3>5
  <2> QED BY <2>3, <2>4
<1> QED BY <1>1, <1>2

\* Every step keeps the invariant of the wait.
LEMMA WaitStep ==
  ASSUME IInv, WaitInv, [Next]_vars
  PROVE  WaitInv'
<1>1. CASE UNCHANGED vars
  BY <1>1 DEF WaitInv, WaitersCounted, WaitMuHeld, FreezeHolder, ErrWakes, CloseWakes, SpaceWakes,
     InWait, overloadPointLimit, vars, shardVars, freezeVars, writerVars, callerVars, workerVars
<1>2. CASE Next
  <2>1. WaitersCounted' /\ WaitMuHeld' /\ FreezeHolder'
    BY <1>2, WaitersStep, WaitMuStep, HolderStep DEF WaitInv
  <2>2. (ErrWakes' /\ CloseWakes' /\ SpaceWakes') \/ Terminated
    BY <1>2, WriterWakes, FreezeWakes, WorkerWakes, CallerWakes DEF Next
  <2> QED BY <1>1, <2>1, <2>2 DEF WaitInv, Terminated
<1> QED BY <1>1, <1>2

(***************************************************************************)
(* The memory bound.                                                       *)
(***************************************************************************)

\* There are at most MaxAddBatch points per writer to be charged for.
LEMMA SpentFinite ==
  /\ IsFiniteSet(Spent)
  /\ Cardinality(Spent) \in Nat
  /\ Cardinality(Spent) <= Cardinality(Writers) * MaxAddBatch
<1>1. /\ IsFiniteSet(1 .. MaxAddBatch)
      /\ Cardinality(1 .. MaxAddBatch) = MaxAddBatch
  BY FS_Interval
<1>2. /\ IsFiniteSet(Writers \X (1 .. MaxAddBatch))
      /\ Cardinality(Writers \X (1 .. MaxAddBatch)) = Cardinality(Writers) * MaxAddBatch
  BY <1>1, WritersFinite, FS_Product
<1>3. Spent \in SUBSET (Writers \X (1 .. MaxAddBatch))
  BY DEF Spent
<1>4. IsFiniteSet(Spent) /\ Cardinality(Spent) <= Cardinality(Writers \X (1 .. MaxAddBatch))
  BY <1>2, <1>3, FS_Subset
<1>5. Cardinality(Spent) \in Nat
  BY <1>4, FS_CardinalityType
<1> QED BY <1>2, <1>4, <1>5

\* A step that adds no active point and takes no charge back keeps the bound.
LEMMA ExcessKept ==
  ASSUME IInv, ExcessCharged, Spent \subseteq Spent',
         activePoints' \in Int, activePoints' <= activePoints
  PROVE  ExcessCharged'
<1>1. IsFiniteSet(Spent) /\ Cardinality(Spent) \in Nat
  BY SpentFinite
<1>2. IsFiniteSet(Spent)' /\ (Cardinality(Spent) \in Nat)'
  BY SpentFinite, PTL
<1>3. Cardinality(Spent) <= Cardinality(Spent')
  BY <1>2, FS_Subset
<1> QED BY <1>1, <1>2, <1>3 DEF ExcessCharged, overloadPointLimit, IInv, TypeOK, ShardType

\* A step that leaves the active count within the limit needs no charge.
LEMMA ExcessNone ==
  ASSUME activePoints' \in Int, activePoints' <= overloadPointLimit
  PROVE  ExcessCharged'
<1>1. (Cardinality(Spent) \in Nat)'
  BY SpentFinite, PTL
<1> QED BY <1>1 DEF ExcessCharged, overloadPointLimit

\* Steps of a writer.
LEMMA WriterMem ==
  ASSUME IInv, MemInv, NEW w \in Writers, WriterStep(w)
  PROVE  MemInv'
<1> USE DEF IInv, TypeOK, WriterType, ShardType, MemInv
<1>1. terminalError' = terminalError
  <2>1. closed' = closed /\ err' = err
    BY DEF WriterStep, AddStart, appendPoint, maybeSignal, WaitLock, WaitCheckError,
       WaitCheckSpace, CondWait, WaitRelock
  <2> QED BY <2>1 DEF terminalError
<1>2. CASE AddStart(w)
  <2>1. PICK k \in 1 .. MaxAddBatch : todo' = [todo EXCEPT ![w] = IF terminalError THEN 0 ELSE k]
    BY <1>2 DEF AddStart
  <2>2. TodoBound'
    BY <1>2, <2>1 DEF AddStart, TodoBound
  <2>3. \A p \in Writers \X (1 .. MaxAddBatch) : p \in Spent => p[1] # w \/ terminalError
    BY <1>2 DEF AddStart, Spent, Charged
  <2>4. \A v \in Writers \ {w} : Charged(v) => Charged(v)'
    BY <1>1, <1>2 DEF AddStart, Charged, Overloaded, overloadPointLimit
  <2>5. Spent \subseteq Spent'
    <3> SUFFICES ASSUME NEW p \in Spent PROVE p \in Spent'
      OBVIOUS
    <3>1. p \in Writers \X (1 .. MaxAddBatch) /\ Charged(p[1]) /\ p[2] > todo[p[1]]
      BY DEF Spent
    <3>2. CASE p[1] # w
      BY <2>1, <2>4, <3>1, <3>2 DEF Spent
    <3>3. CASE p[1] = w
      <4>1. terminalError
        BY <2>3, <3>1, <3>3
      <4>2. Charged(w)' /\ todo'[w] = 0
        BY <1>1, <2>1, <4>1 DEF Charged
      <4> QED BY <3>1, <3>3, <4>2 DEF Spent
    <3> QED BY <3>2, <3>3
  <2>6. ExcessCharged'
    BY <1>2, <2>5, ExcessKept DEF AddStart, shardVars
  <2> QED BY <2>2, <2>6
<1>3. ASSUME NEW s \in Shard, appendPoint(w, s) PROVE MemInv'
  <2>1. todo[w] \in 1 .. MaxAddBatch /\ todo' = [todo EXCEPT ![w] = @ - 1] /\ wpc[w] = "append"
    BY <1>3 DEF appendPoint, TodoBound, TodoInv
  <2>2. TodoBound'
    BY <1>3, <2>1 DEF appendPoint, TodoBound
  <2>3. activePoints' = activePoints + 1 /\ activePoints' \in Int
    BY <1>3 DEF appendPoint
  <2>4. CASE activePoints' <= overloadPointLimit
    BY <2>2, <2>3, <2>4, ExcessNone
  <2>5. CASE activePoints' > overloadPointLimit
    <3>1. Charged(w) /\ Charged(w)'
      BY <1>1, <1>3, <2>1, <2>3, <2>5 DEF appendPoint, Charged, Overloaded, overloadPointLimit
    <3>2. \A v \in Writers \ {w} : Charged(v)' <=> Charged(v)
      BY <1>1, <1>3 DEF appendPoint, Charged, Overloaded, overloadPointLimit
    <3>3. \A v \in Writers \ {w} : todo'[v] = todo[v]
      BY <2>1
    <3>4. Spent' = Spent \cup {<<w, todo[w]>>}
      <4>1. ASSUME NEW v \in Writers, NEW i \in 1 .. MaxAddBatch
            PROVE  <<v, i>> \in Spent' <=> <<v, i>> \in Spent \/ <<v, i>> = <<w, todo[w]>>
        <5>1. CASE v = w
          BY <2>1, <3>1, <5>1 DEF Spent
        <5>2. CASE v # w
          BY <3>2, <3>3, <5>2 DEF Spent
        <5> QED BY <5>1, <5>2
      <4>2. Spent \subseteq Writers \X (1 .. MaxAddBatch) /\ Spent' \subseteq Writers \X (1 .. MaxAddBatch)
        BY DEF Spent
      <4> QED BY <2>1, <4>1, <4>2
    <3>5. <<w, todo[w]>> \notin Spent
      BY DEF Spent
    <3>6. IsFiniteSet(Spent) /\ Cardinality(Spent) \in Nat
      BY SpentFinite
    <3>7. Cardinality(Spent') = Cardinality(Spent) + 1
      BY <3>4, <3>5, <3>6, FS_AddElement
    <3>8. ExcessCharged'
      BY <2>3, <3>6, <3>7 DEF ExcessCharged, overloadPointLimit
    <3> QED BY <2>2, <3>8
  <2> QED BY <2>3, <2>4, <2>5 DEF overloadPointLimit
<1>4. ASSUME todo' = todo, activePoints' = activePoints, wpc[w] # "append", wpc'[w] # "append",
             \A v \in Writers \ {w} : wpc'[v] = wpc[v] /\ observed'[v] = observed[v],
             Charged(w) => Charged(w)'
      PROVE  MemInv'
  <2>1. TodoBound'
    BY <1>4 DEF TodoBound
  <2>2. \A v \in Writers : Charged(v) => Charged(v)'
    BY <1>1, <1>4 DEF Charged, Overloaded, overloadPointLimit
  <2>3. Spent \subseteq Spent'
    BY <1>4, <2>2 DEF Spent
  <2> QED BY <1>4, <2>1, <2>3, ExcessKept
<1>5. CASE maybeSignal(w)
  <2>1. Charged(w) => Charged(w)'
    BY <1>1, <1>5 DEF maybeSignal, Charged
  <2> QED BY <1>4, <1>5, <2>1 DEF maybeSignal, Return, shardVars
<1>6. CASE WaitLock(w) \/ CondWait(w) \/ WaitRelock(w)
  <2>1. Charged(w)'
    BY <1>6 DEF WaitLock, CondWait, WaitRelock, Charged
  <2> QED BY <1>4, <1>6, <2>1 DEF WaitLock, CondWait, WaitRelock, shardVars
<1>7. CASE WaitCheckError(w)
  <2>1. Charged(w)'
    BY <1>1, <1>7 DEF WaitCheckError, Charged
  <2> QED BY <1>4, <1>7, <2>1 DEF WaitCheckError, WaitReturn, Return, shardVars
<1>8. CASE WaitCheckSpace(w)
  <2>1. CASE Overloaded(activePoints)
    <3>1. Charged(w)'
      BY <1>8, <2>1 DEF WaitCheckSpace, Charged
    <3> QED BY <1>4, <1>8, <2>1, <3>1 DEF WaitCheckSpace, shardVars
  <2>2. CASE ~Overloaded(activePoints)
    <3>1. activePoints' \in Int /\ activePoints' <= overloadPointLimit
      BY <1>8, <2>2 DEF WaitCheckSpace, Overloaded, overloadPointLimit, shardVars
    <3>2. TodoBound'
      BY <1>8, <2>2 DEF WaitCheckSpace, WaitReturn, TodoBound
    <3> QED BY <3>1, <3>2, ExcessNone
  <2> QED BY <2>1, <2>2
<1> QED BY <1>2, <1>3, <1>5, <1>6, <1>7, <1>8 DEF WriterStep

\* Every step keeps the invariant of the memory bound.
LEMMA MemStep ==
  ASSUME IInv, MemInv, [Next]_vars
  PROVE  MemInv'
<1> USE DEF IInv, TypeOK, WriterType, ShardType, FreezeType, ChanType, MemInv
<1>1. ASSUME todo' = todo, observed' = observed, activePoints' \in Int,
             activePoints' <= activePoints, terminalError => terminalError',
             \A v \in Writers : \/ wpc'[v] = wpc[v]
                                \/ wpc[v] = "asleep" /\ wpc'[v] = "relock"
      PROVE  MemInv'
  <2>1. TodoBound'
    BY <1>1 DEF TodoBound
  <2>2. \A v \in Writers : Charged(v) => Charged(v)'
    BY <1>1 DEF Charged, Overloaded, overloadPointLimit
  <2>3. Spent \subseteq Spent'
    BY <1>1, <2>2 DEF Spent
  <2> QED BY <1>1, <2>1, <2>3, ExcessKept
<1>2. CASE Next /\ ~ \E w \in Writers : WriterStep(w)
  <2>1. /\ todo' = todo /\ observed' = observed
        /\ \A v \in Writers : \/ wpc'[v] = wpc[v]
                              \/ wpc[v] = "asleep" /\ wpc'[v] = "relock"
    BY <1>2, OthersWriters DEF Broadcast
  <2>2. activePoints' \in Int /\ activePoints' <= activePoints
    <3>1. activePoints' = activePoints \/ activePoints' = activePoints - fcount
      BY <1>2 DEF Next, FreezeStep, FreezeLoad, FreezeSwap, FreezeCount, FreezeNotify,
         FreezeBroadcast, FreezeSend, FreezeSendPanic, FreezeLock, TriggerStep, TriggerSignal,
         TriggerTick, TriggerReturn, TriggerStop, FlusherStep, FlushStart, FlushReturn, CloserStep,
         CloseStart, CloseNotify, CloseBroadcast, CloseStop, CloseTriggerDone, CloseQueue,
         CloseReturn, WorkerStep, WorkerReceive, WorkerExit, commitOK, commitFail, setError,
         WorkerNotify, WorkerBroadcast, recycleBatch, WorkerDone, Terminated, vars, shardVars,
         activeRemaining
    <3> QED BY <3>1
  <2>3. terminalError => terminalError'
    BY <1>2 DEF Next, FreezeStep, FreezeLoad, FreezeSwap, FreezeCount, FreezeNotify, FreezeBroadcast,
       FreezeSend, FreezeSendPanic, FreezeLock, TriggerStep, TriggerSignal, TriggerTick,
       TriggerReturn, TriggerStop, FlusherStep, FlushStart, FlushReturn, CloserStep, CloseStart,
       CloseNotify, CloseBroadcast, CloseStop, CloseTriggerDone, CloseQueue, CloseReturn,
       WorkerStep, WorkerReceive, WorkerExit, commitOK, commitFail, setError, WorkerNotify,
       WorkerBroadcast, recycleBatch, WorkerDone, Terminated, vars, terminalError
  <2> QED BY <1>1, <2>1, <2>2, <2>3
<1>3. CASE UNCHANGED vars
  BY <1>1, <1>3 DEF vars, shardVars, writerVars, terminalError
<1> QED BY <1>2, <1>3, WriterMem

(***************************************************************************)
(* The theorems.                                                           *)
(***************************************************************************)

\* WInv is inductive.
LEMMA WaitInvariance == Spec => []WInv
<1>1. Init => WInv
  <2> SUFFICES ASSUME Init PROVE WInv
    OBVIOUS
  <2>1. IInv
    BY InitInv
  <2>2. WaitInv
    <3>1. InWait = {}
      BY DEF Init, InWait
    <3>2. WaitersCounted
      BY <3>1, FS_EmptySet DEF Init, WaitersCounted
    <3> QED BY <3>2 DEF Init, WaitInv, WaitMuHeld, FreezeHolder, ErrWakes, CloseWakes, SpaceWakes
  <2>3. MemInv
    <3>1. ExcessCharged
      BY SpentFinite DEF Init, ExcessCharged, overloadPointLimit
    <3> QED BY <3>1 DEF Init, MemInv, TodoBound
  <2> QED BY <2>1, <2>2, <2>3 DEF WInv
<1>2. WInv /\ [Next]_vars => WInv'
  BY StepInv, WaitStep, MemStep DEF WInv
<1> QED BY <1>1, <1>2, PTL DEF Spec

\* notifyWaiters misses nobody (write_batcher.go): a writer asleep on spaceCond still
\* has its reason to sleep, or the thread that ended it is on its way to Broadcast.
THEOREM WakeupsKept == Spec => []NoLostWakeup
<1>1. WInv => NoLostWakeup
  BY DEF WInv, WaitInv, ErrWakes, CloseWakes, SpaceWakes, NoLostWakeup
<1> QED BY <1>1, WaitInvariance, PTL

\* waitIfOverloaded bounds the active points for any number of writers and any call
\* size, also after Close or an error.
THEOREM MemoryBounded == Spec => []MemoryBound
<1>1. WInv => MemoryBound
  <2> SUFFICES ASSUME WInv PROVE MemoryBound
    OBVIOUS
  <2>1. Cardinality(Writers) \in Nat
    BY WritersFinite, FS_CardinalityType
  <2>2. Cardinality(Writers) * MaxAddBatch \in Int
    BY <2>1
  <2>3. activePoints \in Int /\ overloadPointLimit \in Int
    BY DEF WInv, IInv, TypeOK, ShardType, overloadPointLimit
  <2> QED BY <2>2, <2>3, SpentFinite DEF WInv, MemInv, ExcessCharged, MemoryBound
<1> QED BY <1>1, WaitInvariance, PTL
=============================================================================
