------------------------------ MODULE WriteLog ------------------------------
(***************************************************************************)
(* What a table's write batcher promises its callers, without buffers,     *)
(* locks, channels or goroutines: one first-in first-out log per shard.    *)
(* A point is its position in the order its shard accepts points.  A       *)
(* commit moves the oldest points of every shard to the log together, and  *)
(* one that fails may lose them.  Flush and Close are barriers: they       *)
(* answer without an error only when all that was accepted before the call *)
(* is in the log and none of it was lost.                                  *)
(***************************************************************************)
EXTENDS Integers, Sequences

CONSTANTS Shards, Calls  \* the shards; the callers of Flush and Close

VARIABLES
  accepted,  \* per shard: points accepted
  log,       \* per shard: points handed to the WAL, oldest first
  lost,      \* per shard: those a failed commit did not write
  since,     \* per caller: points accepted in each shard when it called
  answer     \* per caller: none while the call runs, nil, err

vars == <<accepted, log, lost, since, answer>>

Init ==
  /\ accepted = [s \in Shards |-> 0]
  /\ log = [s \in Shards |-> <<>>]
  /\ lost = [s \in Shards |-> {}]
  /\ since = [c \in Calls |-> [s \in Shards |-> 0]]
  /\ answer = [c \in Calls |-> "none"]

Accept(s) ==
  /\ accepted' = [accepted EXCEPT ![s] = @ + 1]
  /\ UNCHANGED <<log, lost, since, answer>>

\* The points of shard s after the ones in the log, up to the n-th accepted.
Oldest(s, n) == [i \in 1 .. n - Len(log[s]) |-> Len(log[s]) + i]

Commit ==
  /\ {DOMAIN log', DOMAIN lost'} = {Shards}
  /\ \A s \in Shards : \E n \in Len(log[s]) .. accepted[s] :
       /\ log'[s] = log[s] \o Oldest(s, n)
       /\ lost'[s] \in {lost[s], lost[s] \cup (Len(log[s]) + 1 .. n)}
  /\ UNCHANGED <<accepted, since, answer>>

\* Flush or Close is called: it answers for all that is accepted now.
Call(c) ==
  /\ since' = [since EXCEPT ![c] = accepted]
  /\ answer' = [answer EXCEPT ![c] = "none"]
  /\ UNCHANGED <<accepted, log, lost>>

Written(c) ==
  \A s \in Shards : Len(log[s]) >= since[c][s] /\ lost[s] \cap (1 .. since[c][s]) = {}

Answer(c) ==
  /\ answer[c] = "none"
  /\ \/ Written(c) /\ answer' = [answer EXCEPT ![c] = "nil"]
     \/ answer' = [answer EXCEPT ![c] = "err"]
  /\ UNCHANGED <<accepted, log, lost, since>>

Next ==
  \/ \E s \in Shards : Accept(s)
  \/ Commit
  \/ \E c \in Calls : Call(c) \/ Answer(c)

Spec == Init /\ [][Next]_vars
=============================================================================
