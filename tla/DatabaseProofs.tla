---------------------------- MODULE DatabaseProofs ----------------------------
(***************************************************************************)
(* Proofs about Database for any names, callers, slots and budget: a table *)
(* whose creation was reported is served by every database that opens, and *)
(* no log takes more than its part of the budget.                          *)
(***************************************************************************)
EXTENDS Database, FiniteSetTheorems, WellFoundedInduction, TLAPS

(***************************************************************************)
(* Types, while no two creations have overlapped.                          *)
(***************************************************************************)
Steps == {"idle", "append", "open", "store", "create", "write", "load", "cache"}

Call == [pc : Steps, name : Names, use : BOOLEAN, infos : Seq(Names), obj : Nat, max : Nat]

File == [state : {"absent", "empty", "broken", "whole"}, names : Seq(Names)]

Types ==
  /\ up \in BOOLEAN /\ tableInfos \in Seq(Names) /\ caller \in [Callers -> Call] /\ file \in File
  /\ acked \subseteq Names /\ opened \in Nat
  /\ \A n \in DOMAIN ssTables : ssTables[n] \in Nat

(***************************************************************************)
(* One creation at a time, so what it read is still true when it uses it.  *)
(***************************************************************************)
InCreation == {"append", "open", "store", "create", "write"}

OneCreation ==
  \A c, d \in Callers : caller[c].pc \in InCreation /\ caller[d].pc \in InCreation => c = d

\* What a caller knows at each of its steps.
CallOk(w) ==
  /\ w.pc = "append" => w.infos = tableInfos /\ w.name \notin Range(tableInfos)
  /\ w.pc \in {"open", "store"} =>
       /\ w.name \in Range(tableInfos) /\ w.name \notin DOMAIN ssTables
       /\ w.max * (Cardinality(DOMAIN ssTables) + 1) <= 2 * budget
  /\ w.pc \in {"create", "write", "load", "cache"} => w.name \in DOMAIN ssTables
  /\ w.pc = "write" => w.infos = tableInfos /\ file = truncated
  /\ w.pc = "cache" => w.obj = ssTables[w.name]

Down ==
  /\ tableInfos = <<>> /\ ssTables = Empty /\ tableCache = Empty
  /\ \A c \in Callers : caller[c] = Idle

\* The tables reported are open while the process lives, and listed in a file that can be read.
Kept ==
  /\ DOMAIN ssTables \subseteq Range(tableInfos)
  /\ up => acked \subseteq DOMAIN ssTables
  /\ readable(file) => acked \subseteq Range(file.names)

CacheOk ==
  \A s \in DOMAIN tableCache :
    /\ tableCache[s].key \in DOMAIN ssTables
    /\ tableCache[s].val = ssTables[tableCache[s].key]

Shares ==
  \A n \in DOMAIN ssTables : /\ ssTables[n] \in DOMAIN share /\ share[ssTables[n]] \in Nat
                             /\ share[ssTables[n]] * Cardinality(DOMAIN ssTables) <= 2 * budget

Serial ==
  /\ Types /\ OneCreation /\ (~up => Down) /\ Kept /\ CacheOk /\ Shares
  /\ \A c \in Callers : CallOk(caller[c])

DInv == ~raced => Serial

USE DatabaseAssumption

(***************************************************************************)
(* Operators.                                                              *)
(***************************************************************************)

\* A list of names has at most as many different names as entries.
LEMMA RangeCard ==
  ASSUME NEW s \in Seq(Names)
  PROVE  IsFiniteSet(Range(s)) /\ Cardinality(Range(s)) <= Len(s)
<1> DEFINE R == Range(s)
           I == 1 .. Len(s)
<1>1. s \in [I -> R] /\ \A t \in R : \E i \in I : s[i] = t
  BY DEF Range
<1>2. s \in Surjection(I, R)
  BY <1>1 DEF Surjection
<1>3. Len(s) \in Int /\ 1 \in Int /\ Len(s) \in Nat
  OBVIOUS
<1>4. IsFiniteSet(I) /\ Cardinality(I) = IF 1 > Len(s) THEN 0 ELSE Len(s) - 1 + 1
  BY <1>3, FS_Interval
<1>5. Cardinality(I) = Len(s)
  BY <1>3, <1>4
<1> HIDE DEF R, I
<1>6. IsFiniteSet(R) /\ Cardinality(R) <= Cardinality(I)
  BY <1>2, <1>4, FS_Surjection
<1> QED BY <1>5, <1>6 DEF R

\* The tables are no more than the names listed.
LEMMA TablesCard ==
  ASSUME NEW s \in Seq(Names), NEW D, D \subseteq Range(s)
  PROVE  IsFiniteSet(D) /\ Cardinality(D) \in Nat /\ Cardinality(D) <= Len(s)
<1>1. IsFiniteSet(Range(s)) /\ Cardinality(Range(s)) <= Len(s)
  BY RangeCard
<1>2. IsFiniteSet(D) /\ Cardinality(D) <= Cardinality(Range(s))
  BY <1>1, FS_Subset
<1>3. Cardinality(D) \in Nat /\ Cardinality(Range(s)) \in Nat /\ Len(s) \in Nat
  BY <1>1, <1>2, FS_CardinalityType
<1> QED BY <1>1, <1>2, <1>3

\* A share counted for k tables, given to one more, is within twice the budget.
LEMMA ShareBound ==
  ASSUME NEW k \in Nat, NEW N \in Nat, N <= k + 1
  PROVE  walShare(k) \in Nat /\ walShare(k) * N <= 2 * budget
<1>1. budget \in Nat /\ budget > 0
  OBVIOUS
<1>2. CASE k = 0
  <2>1. walShare(k) = budget /\ (N = 0 \/ N = 1)
    BY <1>2 DEF walShare
  <2> QED BY <1>1, <2>1
<1>3. CASE k > 0
  <2> DEFINE q == budget \div k
  <2>1. q \in Nat /\ k * q <= budget
    BY <1>1, <1>3
  <2>2. walShare(k) = q
    BY <1>3 DEF walShare
  <2> HIDE DEF q
  <2>3. q <= k * q
    BY <1>3, <2>1
  <2>4. q * N <= q * (k + 1)
    BY <2>1
  <2>5. q * (k + 1) = k * q + q
    BY <2>1
  <2>6. q * N \in Nat /\ k * q \in Nat
    BY <2>1
  <2> QED BY <1>1, <2>1, <2>2, <2>3, <2>4, <2>5, <2>6
<1> QED BY <1>2, <1>3

\* The last entry of a name in the list.
LEMMA LastIn ==
  ASSUME NEW s \in Seq(Names), NEW n \in Range(s)
  PROVE  Max({i \in DOMAIN s : s[i] = n}) \in DOMAIN s
<1> DEFINE L == Len(s)
           S == {i \in DOMAIN s : s[i] = n}
           T == {k \in Nat : k <= L /\ L - k \in S}
           R == OpToRel(<, Nat)
<1>1. L \in Nat /\ DOMAIN s = 1 .. L
  OBVIOUS
<1>2. PICK i \in DOMAIN s : s[i] = n
  BY DEF Range
<1>3. L - i \in T
  BY <1>1, <1>2
<1>4. IsWellFoundedOn(R, Nat)
  BY NatLessThanWellFounded
<1>5. PICK x \in T : \A y \in T : ~(<<y, x>> \in R)
  <2>1. T \subseteq Nat /\ T # {}
    BY <1>3
  <2> HIDE DEF T, R
  <2> QED BY <1>4, <2>1, WFMin
<1>6. \A y \in T : x <= y
  <2> TAKE y \in T
  <2>1. x \in Nat /\ y \in Nat
    OBVIOUS
  <2>2. ~(y < x)
    BY <1>5, <2>1 DEF OpToRel
  <2> QED BY <2>1, <2>2
<1>7. L - x \in S /\ \A j \in S : L - x >= j
  <2>1. x \in Nat /\ L - x \in S
    OBVIOUS
  <2>2. ASSUME NEW j \in S PROVE L - x >= j
    <3>1. j \in Nat /\ j <= L
      BY <1>1
    <3>2. L - j \in T
      BY <1>1, <3>1
    <3>3. x <= L - j
      BY <1>6, <3>2
    <3> QED BY <1>1, <2>1, <3>1, <3>3
  <2> QED BY <2>1, <2>2
<1>8. Max(S) \in S
  <2> HIDE DEF S
  <2>1. \E m \in S : \A j \in S : m >= j
    BY <1>7
  <2> QED BY <2>1 DEF Max
<1> QED BY <1>8

(***************************************************************************)
(* One step of a caller.                                                   *)
(***************************************************************************)

\* A record of a caller with some fields changed.
LEMMA CallTypes ==
  /\ Idle \in Call /\ Idle.pc = "idle"
  /\ \A w \in Call, pc \in Steps : LET v == [w EXCEPT !.pc = pc] IN
       v \in Call /\ v.pc = pc /\ v.name = w.name /\ v.infos = w.infos /\ v.obj = w.obj /\ v.max = w.max
<1>1. <<>> \in Seq(Names) /\ Default \in Names /\ "idle" \in Steps /\ 0 \in Nat
  BY DEF Steps
<1>2. Idle \in Call /\ Idle.pc = "idle"
  BY <1>1 DEF Call, Idle
<1>3. \A w \in Call, pc \in Steps : LET v == [w EXCEPT !.pc = pc] IN
        v \in Call /\ v.pc = pc /\ v.name = w.name /\ v.infos = w.infos /\ v.obj = w.obj /\ v.max = w.max
  BY DEF Call
<1> QED BY <1>2, <1>3

\* The caller c moves to a step of a creation only in a creation, or when there is none.
Moves(c) ==
  /\ caller' = [caller EXCEPT ![c] = caller'[c]] /\ caller'[c] \in Call
  /\ caller'[c].pc \in InCreation =>
       caller[c].pc \in InCreation \/ \A d \in Callers : caller[d].pc \notin InCreation

\* One creation stays one creation.
LEMMA MovesKeep ==
  ASSUME Serial, NEW c \in Callers, Moves(c)
  PROVE  /\ OneCreation' /\ caller' \in [Callers -> Call]
         /\ \A d \in Callers : d # c => caller'[d] = caller[d]
<1>1. caller \in [Callers -> Call]
  BY DEF Serial, Types
<1>2. caller' \in [Callers -> Call] /\ \A d \in Callers : d # c => caller'[d] = caller[d]
  BY <1>1 DEF Moves
<1>3. \A d \in Callers : caller'[d].pc \in InCreation => d = c \/ caller[d].pc \in InCreation
  BY <1>2
<1>4. \A d, e \in Callers : caller'[d].pc \in InCreation /\ caller'[e].pc \in InCreation => d = e
  <2> TAKE d, e \in Callers
  <2> HAVE caller'[d].pc \in InCreation /\ caller'[e].pc \in InCreation
  <2>1. CASE d = c /\ e = c
    BY <2>1
  <2>2. CASE d # c /\ e # c
    BY <1>2, <2>2 DEF Serial, OneCreation
  <2>3. CASE d = c /\ e # c
    <3>1. caller'[c].pc \in InCreation /\ caller[e].pc \in InCreation
      BY <1>2, <2>3
    <3> QED BY <3>1, <2>3 DEF Moves, Serial, OneCreation
  <2>4. CASE d # c /\ e = c
    <3>1. caller'[c].pc \in InCreation /\ caller[d].pc \in InCreation
      BY <1>2, <2>4
    <3> QED BY <3>1, <2>4 DEF Moves, Serial, OneCreation
  <2> QED BY <2>1, <2>2, <2>3, <2>4
<1> QED BY <1>2, <1>4 DEF OneCreation

\* What the others know stays true while one caller creates a table.
LEMMA OthersKnow ==
  ASSUME Serial, NEW c \in Callers, Moves(c), caller[c].pc \in InCreation,
         DOMAIN ssTables \subseteq DOMAIN ssTables',
         \A n \in DOMAIN ssTables : ssTables'[n] = ssTables[n]
  PROVE  \A d \in Callers : d # c => CallOk(caller[d])'
<1> SUFFICES ASSUME NEW d \in Callers, d # c PROVE CallOk(caller[d])'
  OBVIOUS
<1>1. caller'[d] = caller[d] /\ CallOk(caller[d])
  BY MovesKeep DEF Serial
<1>2. caller[d].pc \notin InCreation
  BY DEF Serial, OneCreation
<1> QED BY <1>1, <1>2 DEF CallOk, InCreation

\* What the others know stays true when nothing shared changes.
LEMMA AllKnow ==
  ASSUME Serial, NEW c \in Callers, Moves(c), UNCHANGED <<tableInfos, ssTables, file>>
  PROVE  \A d \in Callers : d # c => CallOk(caller[d])'
<1> SUFFICES ASSUME NEW d \in Callers, d # c PROVE CallOk(caller[d])'
  OBVIOUS
<1>1. caller'[d] = caller[d] /\ CallOk(caller[d])
  BY MovesKeep DEF Serial
<1> QED BY <1>1 DEF CallOk

\* A caller that is not idle runs in a database that is up.
LEMMA Running ==
  ASSUME Serial, NEW c \in Callers, caller[c].pc # "idle"
  PROVE  up
BY CallTypes DEF Serial, Down

\* The steps that touch neither the list, the tables nor the file.
LEMMA CallerStep ==
  ASSUME Serial, NEW c \in Callers, Moves(c), up,
         UNCHANGED <<up, tableInfos, ssTables, share, file, acked>>,
         opened' \in Nat, CacheOk', CallOk(caller[c])'
  PROVE  Serial'
<1>1. OneCreation' /\ caller' \in [Callers -> Call]
  BY MovesKeep
<1>2. \A d \in Callers : CallOk(caller[d])'
  BY AllKnow
<1>3. Types'
  BY <1>1 DEF Serial, Types
<1>4. Kept' /\ Shares'
  BY DEF Serial, Kept, Shares
<1> QED BY <1>1, <1>2, <1>3, <1>4 DEF Serial

(***************************************************************************)
(* CreateTable, step by step.                                              *)
(***************************************************************************)

\* The name is not listed, and nobody else creates a table.
LEMMA CheckSerial ==
  ASSUME Serial, NEW c \in Callers, NEW n \in Names, NEW use \in BOOLEAN, Check(c, n, use), ~raced'
  PROVE  Serial'
<1> DEFINE v == [Idle EXCEPT !.pc = "append", !.name = n, !.use = use, !.infos = tableInfos]
<1>1. /\ up /\ n \notin Range(tableInfos) /\ Creating = {}
      /\ UNCHANGED <<up, tableInfos, ssTables, tableCache, share, opened, file, acked>>
      /\ caller' = [caller EXCEPT ![c] = v]
  BY DEF Check, Do
<1>2. /\ tableInfos \in Seq(Names) /\ caller \in [Callers -> Call] /\ opened \in Nat
  BY DEF Serial, Types
<1>3. v \in Call /\ v.pc = "append" /\ v.name = n /\ v.infos = tableInfos
  BY <1>2, CallTypes DEF Call, Steps
<1> HIDE DEF v
<1>4. \A d \in Callers : caller[d].pc \notin InCreation
  BY <1>1 DEF Creating, InCreation
<1>5. caller'[c] = v /\ Moves(c)
  BY <1>1, <1>2, <1>3, <1>4 DEF Moves
<1>6. CallOk(caller[c])'
  BY <1>1, <1>3, <1>5 DEF CallOk
<1>7. CacheOk'
  BY <1>1 DEF Serial, CacheOk
<1> QED BY <1>1, <1>2, <1>5, <1>6, <1>7, CallerStep

\* The name is listed, and the share counted without it.
LEMMA AppendSerial ==
  ASSUME Serial, NEW c \in Callers, AppendInfo(c)
  PROVE  Serial'
<1> DEFINE w == caller[c]
           k == Len(tableInfos)
           v == [w EXCEPT !.pc = "open", !.max = walShare(k)]
<1>1. /\ tableInfos \in Seq(Names) /\ caller \in [Callers -> Call] /\ opened \in Nat
      /\ w \in Call /\ w.name \in Names /\ CallOk(w) /\ k \in Nat
  BY DEF Serial, Types, Call
<1>2. w.pc = "append" /\ w.infos = tableInfos /\ w.name \notin Range(tableInfos)
  BY <1>1 DEF AppendInfo, CallOk
<1>3. /\ tableInfos' = Append(tableInfos, w.name) /\ caller' = [caller EXCEPT ![c] = v]
      /\ UNCHANGED <<up, ssTables, tableCache, share, opened, file, acked>>
  BY <1>2 DEF AppendInfo, Do
<1>4. up
  BY <1>2, Running
<1>5. Range(tableInfos') = Range(tableInfos) \cup {w.name} /\ tableInfos' \in Seq(Names)
  <2>1. /\ DOMAIN tableInfos' = DOMAIN tableInfos \cup {k + 1} /\ tableInfos'[k + 1] = w.name
        /\ \A i \in DOMAIN tableInfos : tableInfos'[i] = tableInfos[i]
        /\ tableInfos' \in Seq(Names)
    BY <1>1, <1>3
  <2> QED BY <2>1 DEF Range
<1> DEFINE D == DOMAIN ssTables
<1>6. D \subseteq Range(tableInfos)
  BY DEF Serial, Kept
<1>7. Cardinality(D) \in Nat /\ Cardinality(D) <= k
  BY <1>1, <1>6, TablesCard
<1>8. walShare(k) \in Nat /\ walShare(k) * (Cardinality(D) + 1) <= 2 * budget
  BY <1>1, <1>7, ShareBound
<1>9. v \in Call /\ v.pc = "open" /\ v.name = w.name /\ v.max = walShare(k)
  <2> DEFINE m == walShare(k)
  <2>1. m \in Nat
    BY <1>8
  <2> HIDE DEF m
  <2>2. [w EXCEPT !.pc = "open", !.max = m] \in Call
    BY <1>1, <2>1 DEF Call, Steps
  <2> QED BY <1>1, <2>2 DEF m, Call
<1> HIDE DEF v, D, k
<1>10. caller'[c] = v /\ Moves(c)
  BY <1>1, <1>2, <1>3, <1>9 DEF Moves, InCreation
<1>11. OneCreation' /\ caller' \in [Callers -> Call]
  BY <1>10, MovesKeep
<1>12. CallOk(caller[c])'
  BY <1>2, <1>3, <1>5, <1>6, <1>8, <1>9, <1>10 DEF CallOk, D
<1>13. \A d \in Callers : CallOk(caller[d])'
  BY <1>2, <1>3, <1>10, <1>12, OthersKnow DEF InCreation
<1>14. Types'
  BY <1>3, <1>5, <1>11 DEF Serial, Types
<1>15. Kept' /\ CacheOk' /\ Shares'
  BY <1>3, <1>5 DEF Serial, Kept, CacheOk, Shares
<1> QED BY <1>3, <1>4, <1>11, <1>13, <1>14, <1>15 DEF Serial

\* The table is opened, or the creation ends.
LEMMA OpenSerial ==
  ASSUME Serial, NEW c \in Callers, OpenTable(c)
  PROVE  Serial'
<1> DEFINE w == caller[c]
           v == [w EXCEPT !.pc = "store", !.obj = opened + 1]
<1>1. /\ caller \in [Callers -> Call] /\ opened \in Nat /\ w \in Call /\ CallOk(w) /\ w.pc = "open"
  BY DEF Serial, Types, OpenTable
<1>2. /\ UNCHANGED <<up, tableInfos, ssTables, tableCache, share, file, acked>>
      /\ \/ opened' = opened + 1 /\ caller' = [caller EXCEPT ![c] = v]
         \/ opened' = opened /\ caller' = [caller EXCEPT ![c] = Idle]
  BY DEF OpenTable, Do
<1>3. v \in Call /\ v.pc = "store" /\ v.name = w.name /\ v.max = w.max
  <2> DEFINE m == opened + 1
  <2>1. m \in Nat
    BY <1>1
  <2> HIDE DEF m
  <2>2. [w EXCEPT !.pc = "store", !.obj = m] \in Call
    BY <1>1, <2>1 DEF Call, Steps
  <2> QED BY <1>1, <2>2 DEF m, Call
<1> HIDE DEF v
<1>4. opened' \in Nat /\ up
  BY <1>1, <1>2, Running
<1>5. (caller'[c] = v \/ caller'[c] = Idle) /\ Moves(c)
  BY <1>1, <1>2, <1>3, CallTypes DEF Moves, InCreation
<1>6. CallOk(caller[c])'
  BY <1>1, <1>2, <1>3, <1>5, CallTypes DEF CallOk
<1>7. CacheOk'
  BY <1>2 DEF Serial, CacheOk
<1> QED BY <1>2, <1>4, <1>5, <1>6, <1>7, CallerStep

\* The table is served, and every table has the new share.
LEMMA StoreSerial ==
  ASSUME Serial, NEW c \in Callers, StoreTable(c)
  PROVE  Serial'
<1> DEFINE w == caller[c]
           v == [w EXCEPT !.pc = "create"]
           tables == Set(ssTables, w.name, w.obj)
           D == DOMAIN ssTables
<1>1. /\ caller \in [Callers -> Call] /\ opened \in Nat /\ w \in Call /\ CallOk(w) /\ w.pc = "store"
      /\ w.obj \in Nat /\ w.max \in Nat /\ tableInfos \in Seq(Names)
  BY DEF Serial, Types, StoreTable, Call
<1>2. /\ UNCHANGED <<up, tableInfos, tableCache, opened, file, acked>>
      /\ ssTables' = tables /\ share' = updateWalConfig(share, tables, w.obj, w.max)
      /\ caller' = [caller EXCEPT ![c] = v]
  BY DEF StoreTable, Do
<1>3. v \in Call /\ v.pc = "create" /\ v.name = w.name
  BY <1>1, CallTypes DEF Steps
<1>4. /\ w.name \in Range(tableInfos) /\ w.name \notin D
      /\ w.max * (Cardinality(D) + 1) <= 2 * budget
  BY <1>1 DEF CallOk
<1>5. /\ DOMAIN tables = D \cup {w.name} /\ tables[w.name] = w.obj
      /\ \A n \in D : tables[n] = ssTables[n]
  <2>1. w.name \notin DOMAIN ssTables
    BY <1>4
  <2> QED BY <2>1 DEF Set
<1> HIDE DEF v, tables, D
<1>6. up
  BY <1>1, Running
<1>7. caller'[c] = v /\ Moves(c)
  BY <1>1, <1>2, <1>3 DEF Moves, InCreation
<1>8. OneCreation' /\ caller' \in [Callers -> Call]
  BY <1>7, MovesKeep
<1>9. CallOk(caller[c])'
  BY <1>2, <1>3, <1>5, <1>7 DEF CallOk
<1>10. \A d \in Callers : CallOk(caller[d])'
  BY <1>1, <1>2, <1>5, <1>7, <1>9, OthersKnow DEF InCreation, D
<1>11. Types'
  BY <1>1, <1>2, <1>5, <1>8 DEF Serial, Types, D
<1>12. Kept' /\ CacheOk'
  BY <1>2, <1>4, <1>5 DEF Serial, Kept, CacheOk, D
<1>13. Shares'
  <2>1. D \subseteq Range(tableInfos)
    BY DEF Serial, Kept, D
  <2>2. IsFiniteSet(D) /\ Cardinality(D) \in Nat
    BY <1>1, <2>1, TablesCard
  <2>3. Cardinality(DOMAIN ssTables') = Cardinality(D) + 1
    BY <1>2, <1>4, <1>5, <2>2, FS_AddElement
  <2>4. \A n \in DOMAIN ssTables' : ssTables'[n] \in Range(tables)
    BY <1>2 DEF Range
  <2>5. \A x \in Range(tables) : x \in DOMAIN share \cup {w.obj} => share'[x] = w.max
    BY <1>2 DEF updateWalConfig
  <2>6. \A n \in DOMAIN ssTables' : ssTables'[n] \in DOMAIN share \cup {w.obj}
    <3>1. \A n \in D : ssTables[n] \in DOMAIN share
      BY DEF Serial, Shares, D
    <3> QED BY <1>2, <1>5, <3>1
  <2>8. DOMAIN share' = DOMAIN share \cup {w.obj}
    BY <1>2 DEF updateWalConfig
  <2>7. \A n \in DOMAIN ssTables' : share'[ssTables'[n]] = w.max
    BY <2>4, <2>5, <2>6
  <2> QED BY <1>1, <1>4, <2>3, <2>6, <2>7, <2>8 DEF Shares
<1> QED BY <1>2, <1>6, <1>8, <1>10, <1>11, <1>12, <1>13 DEF Serial

\* The file is emptied; as it is, it cannot be read.
LEMMA CreateSerial ==
  ASSUME Serial, NEW c \in Callers, CreateFile(c)
  PROVE  Serial'
<1> DEFINE w == caller[c]
           v == [w EXCEPT !.pc = "write", !.infos = tableInfos]
<1>1. /\ caller \in [Callers -> Call] /\ opened \in Nat /\ w \in Call /\ CallOk(w) /\ w.pc = "create"
      /\ tableInfos \in Seq(Names)
  BY DEF Serial, Types, CreateFile
<1>2. /\ UNCHANGED <<up, tableInfos, ssTables, tableCache, share, opened, acked>>
      /\ \/ file' = truncated /\ caller' = [caller EXCEPT ![c] = v]
         \/ file' = file /\ caller' = [caller EXCEPT ![c] = Idle]
  BY DEF CreateFile, Do
<1>3. v \in Call /\ v.pc = "write" /\ v.name = w.name /\ v.infos = tableInfos
  BY <1>1 DEF Call, Steps
<1> HIDE DEF v
<1>4. up
  BY <1>1, Running
<1>5. (caller'[c] = v \/ caller'[c] = Idle) /\ Moves(c)
  BY <1>1, <1>2, <1>3, CallTypes DEF Moves, InCreation
<1>6. OneCreation' /\ caller' \in [Callers -> Call]
  BY <1>5, MovesKeep
<1>7. CallOk(caller[c])'
  <2>1. CASE file' = truncated /\ caller'[c] = v
    BY <1>1, <1>2, <1>3, <2>1 DEF CallOk
  <2>2. CASE caller'[c] = Idle
    BY <2>2, CallTypes DEF CallOk
  <2>3. (file' = truncated /\ caller'[c] = v) \/ caller'[c] = Idle
    BY <1>1, <1>2
  <2> QED BY <2>1, <2>2, <2>3
<1>8. \A d \in Callers : CallOk(caller[d])'
  BY <1>1, <1>2, <1>5, <1>7, OthersKnow DEF InCreation
<1>9. file' \in File /\ (readable(file') => file' = file)
  <2>1. <<>> \in Seq(Names) /\ file \in File
    BY DEF Serial, Types
  <2>2. truncated \in File /\ ~readable(truncated)
    BY <2>1 DEF truncated, File, readable
  <2> QED BY <1>2, <2>1, <2>2
<1>10. Types'
  BY <1>2, <1>6, <1>9 DEF Serial, Types
<1>11. Kept' /\ CacheOk' /\ Shares'
  BY <1>2, <1>9 DEF Serial, Kept, CacheOk, Shares
<1> QED BY <1>2, <1>4, <1>6, <1>8, <1>10, <1>11 DEF Serial

\* The whole list is written, and the creation reported; or the file is left empty or cut.
LEMMA WriteSerial ==
  ASSUME Serial, NEW c \in Callers, WriteFile(c)
  PROVE  Serial'
<1> DEFINE w == caller[c]
           v == [w EXCEPT !.pc = "load"]
<1>1. /\ caller \in [Callers -> Call] /\ opened \in Nat /\ w \in Call /\ CallOk(w) /\ w.pc = "write"
      /\ tableInfos \in Seq(Names) /\ w.name \in Names
  BY DEF Serial, Types, WriteFile, Call
<1>2. w.infos = tableInfos /\ file = truncated /\ w.name \in DOMAIN ssTables
  BY <1>1 DEF CallOk
<1>3. Overwritten(file, w.infos) = {Whole(tableInfos)}
  BY <1>2 DEF Overwritten, truncated
<1>4. /\ UNCHANGED <<up, tableInfos, ssTables, tableCache, share, opened>>
      /\ \/ /\ file' = Whole(tableInfos) /\ acked' = acked \cup {w.name}
            /\ caller' = [caller EXCEPT ![c] = IF w.use THEN v ELSE Idle]
         \/ /\ file' \in {truncated, broken} /\ acked' = acked
            /\ caller' = [caller EXCEPT ![c] = Idle]
  BY <1>2, <1>3 DEF WriteFile, Do
<1>5. v \in Call /\ v.pc = "load" /\ v.name = w.name
  BY <1>1, CallTypes DEF Steps
<1> HIDE DEF v
<1>6. up
  BY <1>1, Running
<1>7. (caller'[c] = v \/ caller'[c] = Idle) /\ Moves(c)
  BY <1>1, <1>4, <1>5, CallTypes DEF Moves, InCreation
<1>8. OneCreation' /\ caller' \in [Callers -> Call]
  BY <1>7, MovesKeep
<1>9. CallOk(caller[c])'
  BY <1>2, <1>4, <1>5, <1>7, CallTypes DEF CallOk
<1>10. \A d \in Callers : CallOk(caller[d])'
  BY <1>1, <1>4, <1>7, <1>9, OthersKnow DEF InCreation
<1>11. acked' \subseteq Names /\ acked' \subseteq DOMAIN ssTables /\ DOMAIN ssTables \subseteq Range(tableInfos)
  BY <1>1, <1>2, <1>4, <1>6 DEF Serial, Types, Kept
<1>12. file' \in File /\ (readable(file') => file'.names = tableInfos)
  <2>1. Whole(tableInfos) \in File /\ Whole(tableInfos).names = tableInfos
    BY <1>1 DEF Whole, File
  <2>2. truncated \in File /\ broken \in File /\ ~readable(truncated) /\ ~readable(broken)
    BY DEF truncated, broken, File, readable
  <2> QED BY <1>4, <2>1, <2>2
<1>13. Types'
  BY <1>4, <1>8, <1>11, <1>12 DEF Serial, Types
<1>14. Kept'
  BY <1>4, <1>11, <1>12 DEF Kept
<1>15. CacheOk' /\ Shares'
  BY <1>4 DEF Serial, CacheOk, Shares
<1> QED BY <1>4, <1>6, <1>8, <1>10, <1>13, <1>14, <1>15 DEF Serial

(***************************************************************************)
(* getTable, Open and Stop.                                                *)
(***************************************************************************)

\* A caller takes a table from the map, at once or after the creation.
LEMMA GetSerial ==
  ASSUME Serial, NEW c \in Callers, (\E n \in Names : GetTable(c, n)) \/ LoadCreated(c)
  PROVE  Serial'
<1>1. /\ caller \in [Callers -> Call] /\ opened \in Nat /\ caller[c] \in Call /\ CallOk(caller[c])
      /\ \A n \in DOMAIN ssTables : ssTables[n] \in Nat
  BY DEF Serial, Types
<1>2. UNCHANGED <<up, tableInfos, ssTables, tableCache, share, opened, file, acked>>
  BY DEF GetTable, LoadCreated
<1>3. CacheOk'
  BY <1>2 DEF Serial, CacheOk
<1>4. ASSUME NEW n \in Names, GetTable(c, n) PROVE Serial'
  <2> DEFINE o == ssTables[n]
             v == [Idle EXCEPT !.pc = "cache", !.name = n, !.obj = o]
  <2>1. up /\ n \in DOMAIN ssTables /\ caller' = [caller EXCEPT ![c] = v] /\ o \in Nat
    BY <1>1, <1>4 DEF GetTable, Do
  <2> HIDE DEF o
  <2>2. v \in Call /\ v.pc = "cache" /\ v.name = n /\ v.obj = o
    BY <2>1, CallTypes DEF Call, Steps
  <2> HIDE DEF v
  <2>3. caller'[c] = v /\ Moves(c)
    BY <1>1, <2>1, <2>2 DEF Moves, InCreation
  <2>4. CallOk(caller[c])'
    BY <1>2, <2>1, <2>2, <2>3 DEF CallOk, o
  <2> QED BY <1>1, <1>2, <1>3, <2>1, <2>3, <2>4, CallerStep
<1>5. CASE LoadCreated(c)
  <2> DEFINE w == caller[c]
             o == ssTables[w.name]
             v == [w EXCEPT !.pc = "cache", !.obj = o]
  <2>1. w.pc = "load" /\ caller' = [caller EXCEPT ![c] = v]
    BY <1>5 DEF LoadCreated, Do
  <2>2. w.name \in DOMAIN ssTables /\ o \in Nat /\ up
    <3>1. w.name \in DOMAIN ssTables
      BY <1>1, <2>1 DEF CallOk
    <3> QED BY <1>1, <2>1, <3>1, Running
  <2> HIDE DEF o
  <2>3. v \in Call /\ v.pc = "cache" /\ v.name = w.name /\ v.obj = o
    BY <1>1, <2>2 DEF Call, Steps
  <2> HIDE DEF v
  <2>4. caller'[c] = v /\ Moves(c)
    BY <1>1, <2>1, <2>3 DEF Moves, InCreation
  <2>5. CallOk(caller[c])'
    BY <1>2, <2>2, <2>3, <2>4 DEF CallOk, o
  <2> QED BY <1>1, <1>2, <1>3, <2>2, <2>4, <2>5, CallerStep
<1> QED BY <1>4, <1>5

\* The slot of the name holds the table the map has.
LEMMA CacheSerial ==
  ASSUME Serial, NEW c \in Callers, StoreCache(c)
  PROVE  Serial'
<1> DEFINE w == caller[c]
           s == Slot[w.name]
           e == [key |-> w.name, val |-> w.obj]
<1>1. /\ caller \in [Callers -> Call] /\ opened \in Nat /\ CallOk(w) /\ w.pc = "cache"
  BY DEF Serial, Types, StoreCache
<1>2. /\ UNCHANGED <<up, tableInfos, ssTables, share, opened, file, acked>>
      /\ caller' = [caller EXCEPT ![c] = Idle] /\ tableCache' = Set(tableCache, s, e)
  BY DEF StoreCache, Do
<1>3. up
  BY <1>1, Running
<1>4. caller'[c] = Idle /\ Moves(c)
  BY <1>1, <1>2, CallTypes DEF Moves, InCreation
<1>5. CallOk(caller[c])'
  BY <1>4, CallTypes DEF CallOk
<1>6. e.key = w.name /\ e.val = w.obj /\ w.name \in DOMAIN ssTables /\ w.obj = ssTables[w.name]
  BY <1>1 DEF CallOk
<1> HIDE DEF e, s
<1>7. /\ DOMAIN tableCache' = DOMAIN tableCache \cup {s}
      /\ \A y \in DOMAIN tableCache' : tableCache'[y] = IF y = s THEN e ELSE tableCache[y]
  BY <1>2 DEF Set
<1>8. CacheOk'
  BY <1>2, <1>6, <1>7 DEF Serial, CacheOk
<1> QED BY <1>1, <1>2, <1>3, <1>4, <1>5, <1>8, CallerStep

\* Open: a table for every name of a file that can be read.
LEMMA StartSerial ==
  ASSUME Serial, Open
  PROVE  Serial'
<1> DEFINE names == file.names
           last(n) == Max({i \in DOMAIN names : names[i] = n})
           k == Len(names)
<1>1. /\ ~up /\ readable(file) /\ up' = TRUE /\ tableInfos' = names
      /\ ssTables' = [n \in Range(names) |-> last(n)]
      /\ share' = [i \in DOMAIN names |-> walShare(k)] /\ opened' = k
      /\ UNCHANGED <<tableCache, file, caller, acked>>
  BY DEF Open
<1>2. /\ names \in Seq(Names) /\ k \in Nat /\ DOMAIN names = 1 .. k /\ acked \subseteq Range(names)
      /\ tableCache = Empty /\ \A c \in Callers : caller[c] = Idle
  <2>1. names \in Seq(Names)
    BY DEF Serial, Types, File
  <2> QED BY <1>1, <2>1 DEF Serial, Down, Kept
<1>3. \A n \in Range(names) : last(n) \in DOMAIN names
  BY <1>2, LastIn
<1> HIDE DEF names, last
<1>4. DOMAIN ssTables' = Range(names) /\ \A n \in Range(names) : ssTables'[n] \in DOMAIN names
  BY <1>1, <1>3
<1>5. Types'
  <2>1. \A n \in DOMAIN ssTables' : ssTables'[n] \in Nat
    BY <1>2, <1>4
  <2> QED BY <1>1, <1>2, <2>1 DEF Serial, Types
<1>6. OneCreation'
  BY <1>1 DEF Serial, OneCreation
<1>7. Kept' /\ CacheOk'
  BY <1>1, <1>2, <1>4 DEF Serial, Kept, CacheOk, Empty, names
<1>8. Shares'
  <2>1. Cardinality(Range(names)) \in Nat /\ Cardinality(Range(names)) <= k
    BY <1>2, TablesCard
  <2>2. walShare(k) \in Nat /\ walShare(k) * Cardinality(Range(names)) <= 2 * budget
    <3>1. Cardinality(Range(names)) <= k + 1
      BY <1>2, <2>1
    <3> QED BY <1>2, <2>1, <3>1, ShareBound
  <2>3. \A n \in DOMAIN ssTables' : ssTables'[n] \in DOMAIN share' /\ share'[ssTables'[n]] = walShare(k)
    BY <1>1, <1>4
  <2> QED BY <1>4, <2>2, <2>3 DEF Shares
<1>9. \A c \in Callers : CallOk(caller[c])'
  <2>1. \A c \in Callers : caller'[c].pc = "idle"
    BY <1>1, <1>2, CallTypes
  <2> QED BY <2>1 DEF CallOk
<1> QED BY <1>1, <1>5, <1>6, <1>7, <1>8, <1>9 DEF Serial

\* Stop: nothing but the file is left.
LEMMA StopSerial ==
  ASSUME Serial, Stop
  PROVE  Serial'
<1>1. /\ up' = FALSE /\ tableInfos' = <<>> /\ ssTables' = Empty /\ tableCache' = Empty /\ share' = Empty
      /\ opened' = 0 /\ caller' = [c \in Callers |-> Idle] /\ file' = file /\ acked' = acked
  BY DEF Stop
<1>2. <<>> \in Seq(Names) /\ caller' \in [Callers -> Call] /\ \A c \in Callers : caller'[c] = Idle
  BY <1>1, CallTypes
<1>3. DOMAIN ssTables' = {} /\ DOMAIN tableCache' = {}
  BY <1>1 DEF Empty
<1>4. Types'
  BY <1>1, <1>2, <1>3 DEF Serial, Types
<1>5. OneCreation' /\ Down' /\ \A c \in Callers : CallOk(caller[c])'
  BY <1>1, <1>2, CallTypes DEF OneCreation, InCreation, Down, CallOk
<1>6. Kept' /\ CacheOk' /\ Shares'
  BY <1>1, <1>3 DEF Serial, Kept, CacheOk, Shares
<1> QED BY <1>4, <1>5, <1>6 DEF Serial

(***************************************************************************)
(* The theorems.                                                           *)
(***************************************************************************)

\* DInv is inductive: overlapping creations are remembered.
LEMMA DStep ==
  ASSUME DInv, [Next]_vars
  PROVE  DInv'
<1> SUFFICES ASSUME ~raced' PROVE Serial'
  BY DEF DInv
<1>1. ~raced
  BY DEF Next, Open, Stop, Check, GetTable, AppendInfo, OpenTable, StoreTable, CreateFile, WriteFile,
         EnsureDefaultTable, LoadCreated, StoreCache, vars
<1>2. Serial
  BY <1>1 DEF DInv
<1>3. CASE UNCHANGED vars
  BY <1>2, <1>3 DEF vars, Serial, Types, OneCreation, Down, Kept, CacheOk, Shares, CallOk
<1>4. ASSUME NEW c \in Callers, EnsureDefaultTable(c) PROVE Serial'
  BY <1>2, <1>4, CheckSerial DEF EnsureDefaultTable
<1>5. ASSUME NEW c \in Callers, NEW n \in Names, Check(c, n, FALSE) PROVE Serial'
  BY <1>2, <1>5, CheckSerial
<1> QED BY <1>2, <1>3, <1>4, <1>5, StartSerial, StopSerial, AppendSerial, OpenSerial, StoreSerial,
           CreateSerial, WriteSerial, GetSerial, CacheSerial DEF Next

\* Nothing is created yet.
LEMMA DInit ==
  Init => DInv
<1> SUFFICES ASSUME Init PROVE Serial
  BY DEF DInv
<1>1. <<>> \in Seq(Names) /\ caller \in [Callers -> Call] /\ \A c \in Callers : caller[c] = Idle
  BY CallTypes DEF Init
<1>2. DOMAIN ssTables = {} /\ DOMAIN tableCache = {}
  BY DEF Init, Empty
<1>3. Types
  BY <1>1, <1>2 DEF Init, Types, absent, File
<1>4. OneCreation /\ Down /\ \A c \in Callers : CallOk(caller[c])
  BY <1>1, CallTypes DEF Init, OneCreation, InCreation, Down, CallOk
<1>5. Kept /\ CacheOk /\ Shares
  BY <1>2 DEF Init, Kept, CacheOk, Shares
<1> QED BY <1>3, <1>4, <1>5 DEF Serial

\* While creations do not overlap (CreateTable in db.go has no lock of its own), the list, the
\* tables, the cache, the file and the shares agree, whatever fails or crashes.
THEOREM DatabaseInvariance == Spec => []DInv
<1>1. DInv /\ [Next]_vars => DInv'
  BY DStep
<1> QED BY DInit, <1>1, PTL DEF Spec

\* A table whose creation was reported is served by every database that opens, and the cache in
\* front of the map answers with the map's table (Open, CreateTable and getTable in db.go).
THEOREM TablesKept == Spec => []TablesServed
<1>1. DInv => TablesServed
  BY DEF DInv, Serial, Kept, CacheOk, TablesServed
<1> QED BY DatabaseInvariance, <1>1, PTL

\* No log takes more than its part of twice the budget (CreateTable and BuildTable in db.go), for
\* any budget and any number of tables.
THEOREM SharesBounded == Spec => []WalShare
<1>1. DInv => WalShare
  BY DEF DInv, Serial, Shares, WalShare
<1> QED BY DatabaseInvariance, <1>1, PTL
=============================================================================
