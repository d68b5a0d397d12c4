---------------------------- MODULE TableProofs ----------------------------
(***************************************************************************)
(* Proofs about Table: its types, that a code is on disk before a record   *)
(* of the log names it, that the retry after flushBlocking finds room,     *)
(* that an acknowledged point stays in the log or the segments, that the   *)
(* sampling policy holds through restarts, that a flush feeds a column in  *)
(* time order, and that a query finds an accepted point and finds it once. *)
(*                                                                         *)
(* TInv is the inductive invariant, DurableInv adds what durability needs, *)
(* PolicyInv what the policies leave in the log, FeedsInv what a flush     *)
(* makes of it, SeesInv where each accepted point is.                      *)
(* The batch is written and the log is recovered record by record, and the *)
(* log files are joined one by one: what that preserves is shown by        *)
(* induction, as the absence of a least counterexample.                    *)
(***************************************************************************)
EXTENDS Table, FiniteSetTheorems, WellFoundedInduction, TLAPS

Record == [id : Nat, code : Nat \ {0}, tms : Times, v : conf.vals]
LogFile == [recs : Seq(Record), needsSort : BOOLEAN]

\* A function on 1 .. n.
IsSeq(s, n) == s = [c \in 1 .. n |-> s[c]]

\* Every code is one of the first n of the dictionary.
Upto(recs, n) == \A k \in DOMAIN recs : recs[k].code <= n

Types ==
  /\ conf \in Configs
  /\ meta \in Nat /\ metaDisk \in 0 .. meta
  /\ files \in Seq(LogFile) /\ files # <<>>
  /\ IsSeq(tagState, meta) /\ IsSeq(cols, meta)
  /\ pc \in {"idle", "meta", "wal", "full", "blocked", "retry", "trigger", "inline"}
  /\ fpc \in {"off", "start", "encode", "commit", "remove"}
  /\ flushMute \in {"free", "worker", "async"}
  /\ fcount \in Nat /\ nextId \in Nat \ {0}

\* The worker's batch and the points accepted were given identifiers.
Numbered ==
  /\ batch \in Seq(Record)
  /\ Ids(batch) \subseteq 1 .. nextId - 1 /\ acked \subseteq 1 .. nextId - 1

\* The flush runs while flushMute is held, and holds back fewer files than there are.
Locks ==
  /\ fpc # "off" <=> flushMute # "free"
  /\ pc \in {"blocked", "inline"} <=> flushMute = "worker"
  /\ fpc \in {"encode", "commit", "remove"} => fcount < Len(files)

\* The codes in the log are on disk, and those of the batch once it is past Meta.FlushPending.
Codes ==
  /\ \A i \in DOMAIN files : Upto(files[i].recs, metaDisk)
  /\ Upto(batch, IF pc = "meta" THEN meta ELSE metaDisk)

\* The retry finds one log file, the last.
Room ==
  /\ pc = "retry" => Len(files) = 1
  /\ werr # "cacheFull"

TInv == Types /\ Numbered /\ Locks /\ Codes /\ Room

\* With values of one type: no column rejects a pair.
Plain ==
  /\ \A c \in 1 .. meta : cols[c] \in [buf : Seq(Record), pre : {NoRec}]
  /\ stream \in Seq(Record) /\ tx \in Seq(Record) /\ segs \in Seq(Record)

\* The points of the files a flush will remove.
Covered(S) == \A i \in 1 .. fcount : Ids(files[i].recs) \subseteq S

Buffered == UNION {Ids(cols[c].buf) : c \in flushTouched}

\* They are on their way into the segments: still to be encoded or in a column's buffer,
\* then in the transaction, then in the segments.
Flushed ==
  /\ fpc = "encode" => /\ tx = <<>> /\ flushTouched \subseteq 1 .. meta
                       /\ Covered(Ids(stream) \cup Buffered)
  /\ fpc = "commit" => Covered(Ids(tx))
  /\ fpc = "remove" => Covered(Ids(segs))

USE TableAssumption

\* A non-empty set of naturals has a least element.
LEMMA Least ==
  ASSUME NEW T \in SUBSET Nat, T # {}
  PROVE  \E x \in T : \A y \in T : x <= y
<1> DEFINE R == {ss \in Nat \X Nat : ss[1] < ss[2]}
<1>1. IsWellFoundedOn(R, Nat)
  BY NatLessThanWellFounded, Zenon DEF OpToRel
<1>2. PICK x \in T : \A y \in T : ~(<<y, x>> \in R)
  <2> HIDE DEF R
  <2> QED BY <1>1, WFMin
<1>3. ASSUME NEW y \in T PROVE x <= y
  <2>1. <<y, x>> \in Nat \X Nat /\ <<y, x>>[1] = y /\ <<y, x>>[2] = x OBVIOUS
  <2>2. ~(y < x) BY <1>2, <2>1
  <2> QED BY <2>2
<1> QED BY <1>3

\* Induction over a set of naturals.
LEMMA SetInduction ==
  ASSUME NEW S, 0 \in S, \A n \in Nat : n \in S => n + 1 \in S
  PROVE  Nat \subseteq S
<1> SUFFICES ASSUME Nat \ S # {} PROVE FALSE OBVIOUS
<1>1. PICK x \in Nat \ S : \A y \in Nat \ S : x <= y BY Least
<1>2. x - 1 \in Nat /\ x - 1 \in S BY <1>1
<1> QED BY <1>2

\* The batch is written point by point: the recursion behind Written is well-defined.
LEMMA WrittenSteps ==
  ASSUME NEW n \in Nat, NEW runs, Len(runs) = n
  PROVE  \E acc : /\ DOMAIN acc = 0 .. n
                  /\ acc[0] = [file |-> Last(files), ts |-> tagState]
                  /\ \A i \in 1 .. n : acc[i] = writePoint(acc[i - 1], runs[i])
                  /\ Written(runs) = acc[n]
<1> DEFINE base == [file |-> Last(files), ts |-> tagState]
           F(g) == [i \in 0 .. n |-> IF i = 0 THEN base ELSE writePoint(g[i - 1], runs[i])]
           Fn(g) == g = [i \in 0 .. n |-> g[i]]
           Ok(g, m) == /\ Fn(g) /\ g[0] = base
                       /\ \A i \in 1 .. n : i <= m => g[i] = writePoint(g[i - 1], runs[i])
           G == {m \in Nat : \E g : Ok(g, m)}
<1> HIDE DEF base, Fn
<1>1. 0 \in G
  <2>1. Ok([i \in 0 .. n |-> base], 0) BY DEF Fn
  <2> HIDE DEF Ok
  <2> QED BY <2>1
<1>2. ASSUME NEW m \in Nat, m \in G PROVE m + 1 \in G
  <2>1. PICK f : Ok(f, m) BY <1>2
  <2> DEFINE g == [i \in 0 .. n |-> IF i = m + 1 THEN writePoint(f[i - 1], runs[i]) ELSE f[i]]
  <2>2. Fn(g) /\ g[0] = base BY <2>1 DEF Fn
  <2>3. ASSUME NEW i \in 1 .. n, i <= m + 1 PROVE g[i] = writePoint(g[i - 1], runs[i])
    <3>1. i - 1 \in 0 .. n /\ i \in 0 .. n /\ i - 1 # m + 1 BY <2>3
    <3>2. g[i - 1] = f[i - 1] BY <3>1
    <3>3. CASE i = m + 1 BY <3>1, <3>2, <3>3
    <3>4. CASE i <= m BY <2>1, <3>1, <3>2, <3>4
    <3> QED BY <2>3, <3>3, <3>4
  <2> HIDE DEF g
  <2>4. Ok(g, m + 1) BY <2>2, <2>3
  <2> HIDE DEF Ok
  <2> QED BY <2>4
<1>3. n \in G
  <2> HIDE DEF G
  <2> QED BY <1>1, <1>2, SetInduction
<1>4. PICK g : Ok(g, n) BY <1>3
<1>5. g = F(g)
  <2>1. \A i \in 0 .. n : g[i] = F(g)[i]
    <3>1. g[0] = base /\ \A i \in 1 .. n : g[i] = writePoint(g[i - 1], runs[i]) BY <1>4
    <3> QED BY <3>1
  <2>2. g = [i \in 0 .. n |-> g[i]] BY <1>4 DEF Fn
  <2> QED BY <2>1, <2>2
<1> DEFINE acc == CHOOSE h : h = F(h)
<1>6. acc = F(acc) BY <1>5
<1>7. Written(runs) = acc[n] BY DEF Written, base
<1> HIDE DEF acc
<1>8. DOMAIN acc = 0 .. n /\ acc[0] = base BY <1>6
<1>9. \A i \in 1 .. n : acc[i] = writePoint(acc[i - 1], runs[i]) BY <1>6
<1> QED BY <1>7, <1>8, <1>9 DEF base

\* Functions on 1 .. n are sequences of that length.
LEMMA SeqLen ==
  ASSUME NEW s, NEW n \in Nat, IsSeq(s, n)
  PROVE  s \in Seq({s[c] : c \in 1 .. n}) /\ Len(s) = n /\ DOMAIN s = 1 .. n
<1> DEFINE S == {s[c] : c \in 1 .. n}
<1>1. s \in [1 .. n -> S]
  <2>1. [c \in 1 .. n |-> s[c]] \in [1 .. n -> S] OBVIOUS
  <2> HIDE DEF S
  <2> QED BY <2>1 DEF IsSeq
<1> HIDE DEF S
<1>2. s \in Seq(S) /\ Len(s) = n /\ DOMAIN s = 1 .. n BY <1>1
<1> QED BY <1>2 DEF S

\* What a sequence is.
LEMMA SeqIs ==
  ASSUME NEW S, NEW s \in Seq(S)
  PROVE  IsSeq(s, Len(s))
BY DEF IsSeq

\* An entry replaced.
LEMMA SeqExcept ==
  ASSUME NEW s, NEW n \in Nat, IsSeq(s, n), NEW c, NEW x
  PROVE  IsSeq([s EXCEPT ![c] = x], n)
<1>1. DOMAIN s = 1 .. n BY DEF IsSeq
<1> QED BY <1>1 DEF IsSeq

\* Entries added.
LEMMA SeqConcat ==
  ASSUME NEW s, NEW n \in Nat, IsSeq(s, n), NEW t, NEW k \in Nat, IsSeq(t, k)
  PROVE  IsSeq(s \o t, n + k)
<1> DEFINE S == {s[c] : c \in 1 .. n} \cup {t[c] : c \in 1 .. k}
<1>1. s \in Seq({s[c] : c \in 1 .. n}) /\ Len(s) = n BY SeqLen
<1>2. t \in Seq({t[c] : c \in 1 .. k}) /\ Len(t) = k BY SeqLen
<1>3. s \in Seq(S)
  <2>1. {s[c] : c \in 1 .. n} \subseteq S OBVIOUS
  <2> QED BY <1>1, <2>1
<1>4. t \in Seq(S)
  <2>1. {t[c] : c \in 1 .. k} \subseteq S OBVIOUS
  <2> QED BY <1>2, <2>1
<1> HIDE DEF S
<1>5. s \o t \in Seq(S) /\ Len(s \o t) = n + k
  <2>1. s \o t \in Seq(S) BY <1>3, <1>4
  <2>2. Len(s \o t) = Len(s) + Len(t) BY <1>3, <1>4
  <2> QED BY <1>1, <1>2, <2>1, <2>2
<1> QED BY <1>5, SeqIs

\* A bounded non-empty set of naturals has a greatest element.
LEMMA Greatest ==
  ASSUME NEW B \in Nat, NEW T \in SUBSET (0 .. B), T # {}
  PROVE  \E x \in T : \A y \in T : y <= x
<1> DEFINE D == {d \in Nat : B - d \in T}
<1>1. D # {}
  <2>1. PICK x \in T : TRUE OBVIOUS
  <2>2. B - x \in Nat /\ B - (B - x) = x BY <2>1
  <2> QED BY <2>1, <2>2
<1>2. PICK d \in D : \A e \in D : d <= e BY <1>1, Least
<1>3. ASSUME NEW y \in T PROVE y <= B - d
  <2>1. B - y \in Nat /\ B - (B - y) = y OBVIOUS
  <2>2. B - y \in D BY <2>1
  <2>3. d <= B - y BY <1>2, <2>2
  <2> QED BY <2>3
<1> QED BY <1>2, <1>3

\* One point is appended to the file or dropped.
LEMMA WritePointOk ==
  ASSUME NEW a, NEW m \in Nat, NEW n \in Nat, NEW r \in Record, r.code <= m,
         a.file \in LogFile, Upto(a.file.recs, m), IsSeq(a.ts, n)
  PROVE  LET w == writePoint(a, r) IN
         /\ w.file \in LogFile /\ Upto(w.file.recs, m) /\ IsSeq(w.ts, n)
         /\ Ids(a.file.recs) \subseteq Ids(w.file.recs)
<1> DEFINE w == writePoint(a, r)
<1>1. CASE Rejected(a.ts, r) BY <1>1 DEF writePoint
<1>2. CASE ~Rejected(a.ts, r)
  <2> DEFINE recs == Append(a.file.recs, r)
             l == a.file.needsSort \/ late(a.ts, r)
  <2>1. w.file = [recs |-> recs, needsSort |-> l] BY <1>2 DEF writePoint
  <2>2. a.file.recs \in Seq(Record) BY DEF LogFile
  <2>3. recs \in Seq(Record) /\ l \in BOOLEAN BY <2>2
  <2>4. Upto(recs, m) /\ Ids(a.file.recs) \subseteq Ids(recs)
    <3>1. PICK q \in Seq(Record) : q = a.file.recs BY <2>2
    <3>2. recs = Append(q, r) BY <3>1
    <3> HIDE DEF recs
    <3>3. DOMAIN recs = 1 .. Len(q) + 1 /\ recs[Len(q) + 1] = r
            /\ \A k \in 1 .. Len(q) : recs[k] = q[k]
      BY <3>2
    <3>4. \A k \in 1 .. Len(q) : q[k].code <= m BY <3>1 DEF Upto
    <3>5. \A k \in 1 .. Len(q) + 1 : k = Len(q) + 1 \/ k \in 1 .. Len(q) OBVIOUS
    <3>6. DOMAIN q = 1 .. Len(q) OBVIOUS
    <3>7. Ids(q) \subseteq Ids(recs) BY <3>3, <3>5, <3>6 DEF Ids
    <3> QED BY <3>1, <3>3, <3>4, <3>5, <3>7 DEF Upto
  <2> HIDE DEF recs, l
  <2>5. w.file \in LogFile /\ w.file.recs = recs BY <2>1, <2>3 DEF LogFile
  <2>6. IsSeq(w.ts, n)
    <3> DEFINE x == [tms |-> r.tms, v |-> r.v]
    <3>1. w.ts \in {a.ts, [a.ts EXCEPT ![r.code] = x]} BY <1>2 DEF writePoint
    <3> HIDE DEF x, w
    <3>2. IsSeq([a.ts EXCEPT ![r.code] = x], n) BY SeqExcept
    <3> QED BY <3>1, <3>2
  <2> QED BY <2>4, <2>5, <2>6
<1> QED BY <1>1, <1>2

\* A batch, or what a crash leaves of it, adds only its own codes to the last file.
LEMMA WrittenOk ==
  ASSUME NEW runs \in Seq(Record), NEW m \in Nat, NEW n \in Nat, Upto(runs, m),
         files \in Seq(LogFile), files # <<>>, Upto(Last(files).recs, m), IsSeq(tagState, n)
  PROVE  LET w == Written(runs) IN
         /\ w.file \in LogFile /\ Upto(w.file.recs, m) /\ IsSeq(w.ts, n)
         /\ Ids(Last(files).recs) \subseteq Ids(w.file.recs)
<1> DEFINE N == Len(runs)
           P(a) == /\ a.file \in LogFile /\ Upto(a.file.recs, m) /\ IsSeq(a.ts, n)
                   /\ Ids(Last(files).recs) \subseteq Ids(a.file.recs)
<1>1. N \in Nat OBVIOUS
<1>2. PICK acc : /\ DOMAIN acc = 0 .. N
                 /\ acc[0] = [file |-> Last(files), ts |-> tagState]
                 /\ \A i \in 1 .. N : acc[i] = writePoint(acc[i - 1], runs[i])
                 /\ Written(runs) = acc[N]
  BY <1>1, WrittenSteps
<1> DEFINE G == {i \in Nat : i <= N => P(acc[i])}
<1>3. 0 \in G
  <2>1. Last(files) \in LogFile BY DEF Last
  <2>2. P(acc[0]) BY <1>2, <2>1
  <2> HIDE DEF P
  <2> QED BY <2>2
<1>4. ASSUME NEW i \in Nat, i \in G PROVE i + 1 \in G
  <2> SUFFICES ASSUME i + 1 <= N PROVE P(acc[i + 1])
    <3> HIDE DEF P
    <3> QED OBVIOUS
  <2>1. P(acc[i]) BY <1>1, <1>4
  <2>2. i + 1 \in 1 .. N /\ (i + 1) - 1 = i BY <1>1
  <2>3. acc[i + 1] = writePoint(acc[i], runs[i + 1]) BY <1>2, <2>2
  <2>4. runs[i + 1] \in Record /\ runs[i + 1].code <= m BY <2>2 DEF Upto
  <2> QED BY <2>1, <2>3, <2>4, WritePointOk
<1>5. N \in G
  <2> HIDE DEF G
  <2> QED BY <1>1, <1>3, <1>4, SetInduction, ZenonT(60)
<1>6. P(acc[N]) BY <1>1, <1>5
<1> QED BY <1>2, <1>6

\* A log whose codes are among the first m.
LogOk(fs, m) ==
  fs \in Seq(LogFile) /\ fs # <<>> /\ \A i \in DOMAIN fs : Upto(fs[i].recs, m)

\* The last file replaced by one with the same codes on disk.
LEMMA LastReplaced ==
  ASSUME NEW fs, NEW m \in Nat, LogOk(fs, m), NEW f \in LogFile, Upto(f.recs, m)
  PROVE  LET g == [fs EXCEPT ![Len(fs)] = f] IN
         /\ LogOk(g, m) /\ Len(g) = Len(fs) /\ g[Len(fs)] = f
         /\ \A i \in 1 .. Len(fs) - 1 : g[i] = fs[i]
<1> DEFINE g == [fs EXCEPT ![Len(fs)] = f]
<1>1. fs \in Seq(LogFile) /\ Len(fs) \in Nat \ {0} /\ DOMAIN fs = 1 .. Len(fs) BY DEF LogOk
<1>2. g \in Seq(LogFile) /\ Len(g) = Len(fs) /\ DOMAIN g = DOMAIN fs BY <1>1
<1>3. \A i \in DOMAIN fs : g[i] \in {f, fs[i]} BY <1>1
<1>a. g[Len(fs)] = f /\ \A i \in 1 .. Len(fs) - 1 : g[i] = fs[i] BY <1>1
<1> HIDE DEF g
<1>4. \A i \in DOMAIN g : Upto(g[i].recs, m) BY <1>2, <1>3 DEF LogOk
<1>5. g # <<>> BY <1>1, <1>2
<1> QED BY <1>2, <1>4, <1>5, <1>a, ZenonT(60) DEF LogOk, g

\* A file added after a full one is empty.
LEMMA RotateOk ==
  ASSUME NEW fs, NEW m \in Nat, LogOk(fs, m)
  PROVE  LET g == rotateIfFull(fs) IN
         LogOk(g, m) /\ Len(fs) <= Len(g) /\ \A i \in 1 .. Len(fs) : g[i] = fs[i]
<1>1. fs \in Seq(LogFile) /\ Len(fs) \in Nat /\ DOMAIN fs = 1 .. Len(fs) BY DEF LogOk
<1>2. CASE rotateIfFull(fs) = fs BY <1>1, <1>2
<1>3. CASE rotateIfFull(fs) = Append(fs, EmptyFile)
  <2> DEFINE g == Append(fs, EmptyFile)
  <2>1. EmptyFile \in LogFile
    <3>1. <<>> \in Seq(Record) OBVIOUS
    <3> QED BY <3>1 DEF EmptyFile, LogFile
  <2>2. Upto(EmptyFile.recs, m) BY DEF EmptyFile, Upto
  <2>3. /\ g \in Seq(LogFile) /\ Len(g) = Len(fs) + 1 /\ DOMAIN g = 1 .. Len(fs) + 1
        /\ g[Len(fs) + 1] = EmptyFile /\ \A i \in 1 .. Len(fs) : g[i] = fs[i]
    BY <1>1, <2>1
  <2> HIDE DEF g
  <2>4. \A i \in 1 .. Len(fs) + 1 : i = Len(fs) + 1 \/ i \in 1 .. Len(fs) BY <1>1
  <2>5. \A i \in DOMAIN g : Upto(g[i].recs, m) BY <1>1, <2>2, <2>3, <2>4 DEF LogOk
  <2>6. g # <<>> BY <1>1, <2>3
  <2>7. LogOk(g, m) BY <2>3, <2>5, <2>6 DEF LogOk
  <2> QED BY <1>1, <1>3, <2>3, <2>7 DEF g
<1> QED BY <1>2, <1>3 DEF rotateIfFull

\* The files after the first n, when there are more.
LEMMA SuffixOk ==
  ASSUME NEW fs, NEW m \in Nat, LogOk(fs, m), NEW n \in 0 .. Len(fs) - 1
  PROVE  LET g == SubSeq(fs, n + 1, Len(fs)) IN
         /\ LogOk(g, m) /\ Len(g) = Len(fs) - n
         /\ \A i \in 1 .. Len(fs) - n : g[i] = fs[n + i]
<1> DEFINE g == SubSeq(fs, n + 1, Len(fs))
<1>1. fs \in Seq(LogFile) /\ Len(fs) \in Nat \ {0} /\ DOMAIN fs = 1 .. Len(fs) BY DEF LogOk
<1>2. /\ g \in Seq(LogFile) /\ Len(g) = Len(fs) - n
      /\ \A i \in 1 .. Len(fs) - n : g[i] = fs[n + i]
  <2>1. PICK k \in Nat : k = Len(fs) /\ n \in 0 .. k - 1 BY <1>1
  <2>2. n + 1 \in Nat /\ k - n \in Nat BY <2>1
  <2>3. g \in Seq(LogFile) BY <1>1, <2>1, <2>2
  <2>4. Len(g) = k - n BY <1>1, <2>1, <2>2
  <2>5. \A i \in 1 .. k - n : g[i] = fs[n + i] BY <1>1, <2>1, <2>2
  <2> QED BY <2>1, <2>3, <2>4, <2>5, SMTT(40)
<1>3. DOMAIN g = 1 .. Len(fs) - n BY <1>2
<1> HIDE DEF g
<1>4. \A i \in 1 .. Len(fs) - n : n + i \in DOMAIN fs BY <1>1
<1>5. \A i \in DOMAIN g : Upto(g[i].recs, m) BY <1>2, <1>3, <1>4 DEF LogOk
<1>6. g # <<>> BY <1>1, <1>2
<1> QED BY <1>2, <1>5, <1>6 DEF LogOk, g

\* Recovery keeps the records of each file.
LEMMA RecoverOk ==
  ASSUME NEW fs, NEW m \in Nat, LogOk(fs, m), NEW codes
  PROVE  LET g == NewWalFile(fs, codes).files IN
         LogOk(g, m) /\ Len(g) = Len(fs) /\ \A i \in 1 .. Len(fs) : g[i].recs = fs[i].recs
<1> DEFINE g == NewWalFile(fs, codes).files
<1>1. fs \in Seq(LogFile) /\ Len(fs) \in Nat \ {0} /\ DOMAIN fs = 1 .. Len(fs) BY DEF LogOk
<1>2. PICK mark : /\ \A i \in 1 .. Len(fs) : mark[i] \in BOOLEAN
                  /\ g = [i \in 1 .. Len(fs) |-> [recs |-> fs[i].recs, needsSort |-> mark[i]]]
  <2> DEFINE before == CHOOSE b : b = [i \in 1 .. Len(fs) + 1 |->
                         IF i = 1 THEN [c \in codes |-> NoState]
                         ELSE recoverFile(b[i - 1], fs[i - 1].recs)[Len(fs[i - 1].recs)]]
             marked(recs, ts) == \E k \in DOMAIN recs : late(recoverFile(ts, recs)[k - 1], recs[k])
             mark == [i \in 1 .. Len(fs) |-> marked(fs[i].recs, before[i])]
  <2>1. g = [i \in 1 .. Len(fs) |->
               [recs |-> fs[i].recs, needsSort |-> marked(fs[i].recs, before[i])]]
    BY DEF NewWalFile
  <2>2. \A i \in 1 .. Len(fs) : marked(fs[i].recs, before[i]) \in BOOLEAN OBVIOUS
  <2> HIDE DEF marked, before, g
  <2>3. \A i \in 1 .. Len(fs) : mark[i] = marked(fs[i].recs, before[i]) OBVIOUS
  <2>4. g = [i \in 1 .. Len(fs) |-> [recs |-> fs[i].recs, needsSort |-> mark[i]]]
    BY <2>1, <2>3
  <2>5. \A i \in 1 .. Len(fs) : mark[i] \in BOOLEAN BY <2>2, <2>3
  <2> HIDE DEF mark
  <2> QED BY <2>4, <2>5
<1> HIDE DEF g
<1>3. \A i \in 1 .. Len(fs) : fs[i].recs \in Seq(Record) /\ Upto(fs[i].recs, m)
  <2>1. \A i \in 1 .. Len(fs) : fs[i] \in LogFile BY <1>1
  <2> QED BY <1>1, <2>1 DEF LogOk, LogFile
<1>4. g \in [1 .. Len(fs) -> LogFile]
  BY <1>2, <1>3 DEF LogFile
<1>5. g \in Seq(LogFile) /\ Len(g) = Len(fs) /\ DOMAIN g = 1 .. Len(fs) BY <1>1, <1>4
<1>6. \A i \in DOMAIN g : Upto(g[i].recs, m) BY <1>2, <1>3, <1>5
<1>7. g # <<>> BY <1>1, <1>5
<1>8. \A i \in 1 .. Len(fs) : g[i].recs = fs[i].recs BY <1>2
<1> QED BY <1>5, <1>6, <1>7, <1>8 DEF LogOk, g

\* Types' for a step that leaves the log, the dictionary and the columns alone.
LEMMA TypesKept ==
  ASSUME TInv, UNCHANGED <<conf, meta, files, tagState>>,
         metaDisk' \in 0 .. meta, IsSeq(cols', meta),
         pc' \in {"idle", "meta", "wal", "full", "blocked", "retry", "trigger", "inline"},
         fpc' \in {"off", "start", "encode", "commit", "remove"},
         flushMute' \in {"free", "worker", "async"},
         fcount' \in Nat, nextId' = nextId
  PROVE  Types'
BY DEF TInv, Types, Record, LogFile, IsSeq

\* Numbered' for a step that empties the batch or leaves it alone.
LEMMA NumberedKept ==
  ASSUME TInv, UNCHANGED <<conf, nextId, acked>>, batch' \in {batch, <<>>}
  PROVE  Numbered'
<1>1. CASE batch' = batch BY <1>1 DEF TInv, Numbered, Record, Ids
<1>2. CASE batch' = <<>> BY <1>2 DEF TInv, Numbered, Record, Ids
<1> QED BY <1>1, <1>2

\* The dictionary's buffered entries reach the disk.
LEMMA MetaFlushInv == TInv /\ MetaFlush => TInv'
<1> SUFFICES ASSUME TInv, MetaFlush PROVE TInv' OBVIOUS
<1> USE DEF MetaFlush, flushPending, walVars, flusher
<1>0. meta \in Nat /\ metaDisk \in 0 .. meta /\ IsSeq(cols, meta) BY DEF TInv, Types
<1>1. Types' BY <1>0, TypesKept DEF TInv, Types
<1>2. Numbered' BY NumberedKept
<1>3. Locks' BY DEF TInv, Locks
<1>4. Codes'
  <2>1. \A i \in DOMAIN files : Upto(files[i].recs, meta)
    <3>1. ASSUME NEW i \in DOMAIN files, NEW k \in DOMAIN files[i].recs
          PROVE  files[i].recs[k].code <= meta
      <4>1. files[i].recs[k].code <= metaDisk BY DEF TInv, Codes, Upto
      <4>2. files[i].recs[k].code \in Nat
        <5>1. files[i] \in LogFile BY DEF TInv, Types
        <5>2. files[i].recs \in Seq(Record) BY <5>1 DEF LogFile
        <5>3. files[i].recs[k] \in Record BY <5>2
        <5> QED BY <5>3 DEF Record
      <4> QED BY <1>0, <4>1, <4>2
    <3> QED BY <3>1 DEF Upto
  <2> QED BY <2>1 DEF TInv, Codes, Upto
<1>5. Room' BY DEF TInv, Room
<1> QED BY <1>1, <1>2, <1>3, <1>4, <1>5 DEF TInv

\* Nothing to flush.
LEMMA NoFlushInv == TInv /\ NoFlush => TInv'
<1> SUFFICES ASSUME TInv, NoFlush PROVE TInv' OBVIOUS
<1> USE DEF NoFlush, walVars, flusher
<1>1. Types' BY TypesKept DEF TInv, Types
<1>2. Numbered' BY NumberedKept
<1>3. Locks' BY DEF TInv, Locks
<1>4. Codes' BY DEF TInv, Codes, Upto
<1>5. Room' BY DEF TInv, Room
<1> QED BY <1>1, <1>2, <1>3, <1>4, <1>5 DEF TInv

\* A flush after a commit.
LEMMA StartFlushInv == TInv /\ StartFlush => TInv'
<1> SUFFICES ASSUME TInv, StartFlush PROVE TInv' OBVIOUS
<1> USE DEF StartFlush, walVars
<1>1. Types' BY TypesKept DEF TInv, Types
<1>2. Numbered' BY NumberedKept
<1>3. Locks' BY DEF TInv, Locks
<1>4. Codes' BY DEF TInv, Codes, Upto
<1>5. Room' BY DEF TInv, Room
<1> QED BY <1>1, <1>2, <1>3, <1>4, <1>5 DEF TInv

\* A full log: with one file left the worker retries, otherwise it flushes first.
LEMMA LockFlushInv == TInv /\ LockFlush => TInv'
<1> SUFFICES ASSUME TInv, LockFlush PROVE TInv' OBVIOUS
<1> USE DEF LockFlush, walVars
<1>0. Len(files) \in Nat \ {0} BY DEF TInv, Types
<1>1. Types' BY TypesKept DEF TInv, Types
<1>2. Numbered' BY NumberedKept
<1>3. Locks' BY DEF TInv, Locks
<1>4. Codes' BY DEF TInv, Codes, Upto
<1>5. Room'
  <2>1. werr' = werr /\ files' = files /\ werr # "cacheFull" BY DEF TInv, Room
  <2>2. CASE NeedFlush BY <2>1, <2>2 DEF Room
  <2>3. CASE ~NeedFlush
    <3>1. ~(Len(files) > 1) BY <2>3 DEF NeedFlush
    <3>2. \A n \in Nat \ {0} : ~(n > 1) => n = 1 OBVIOUS
    <3>3. Len(files) = 1
      <4> HIDE DEF LockFlush
      <4> QED BY <1>0, <3>1, <3>2
    <3> QED BY <2>1, <3>3 DEF Room
  <2> QED BY <2>2, <2>3
<1> QED BY <1>1, <1>2, <1>3, <1>4, <1>5 DEF TInv

\* The flush takes all files but the last.
LEMMA FlushStartInv == TInv /\ FlushStart => TInv'
<1> SUFFICES ASSUME TInv, FlushStart PROVE TInv' OBVIOUS
<1>0. /\ fpc = "start" /\ fcount' = Len(files) - 1 /\ fpc' = "encode"
      /\ UNCHANGED <<conf, meta, metaDisk, walVars, segs, worker, flushMute, cols, asyncErr,
                     readers, nextId, acked, crashes, fails>>
  BY DEF FlushStart
<1>a. Len(files) \in Nat \ {0} BY DEF TInv, Types
<1> USE DEF walVars, worker
<1>1. Types' BY <1>0, <1>a, TypesKept DEF TInv, Types
<1>2. Numbered' BY <1>0, NumberedKept
<1>3. Locks' BY <1>0, <1>a DEF TInv, Locks
<1>4. Codes' BY <1>0 DEF TInv, Codes, Upto
<1>5. Room' BY <1>0, SMTT(40) DEF TInv, Room
<1> QED BY <1>1, <1>2, <1>3, <1>4, <1>5 DEF TInv

\* One record is encoded.
LEMMA EncodeInv == TInv /\ Encode => TInv'
<1> SUFFICES ASSUME TInv, Encode PROVE TInv' OBVIOUS
<1>0. /\ UNCHANGED <<conf, meta, metaDisk, walVars, segs, worker, flushMute, fpc, fcount,
                     asyncErr, readers, nextId, acked, crashes, fails>>
      /\ \E c, x : cols' = [cols EXCEPT ![c] = x]
  BY DEF Encode
<1>a. IsSeq(cols', meta)
  <2>1. PICK c, x : cols' = [cols EXCEPT ![c] = x] BY <1>0
  <2>2. IsSeq(cols, meta) /\ meta \in Nat BY DEF TInv, Types
  <2> QED BY <2>1, <2>2, SeqExcept
<1> USE DEF walVars, worker
<1>1. Types' BY <1>0, <1>a, TypesKept DEF TInv, Types
<1>2. Numbered' BY <1>0, NumberedKept
<1>3. Locks' BY <1>0 DEF TInv, Locks
<1>4. Codes' BY <1>0 DEF TInv, Codes, Upto
<1>5. Room' BY <1>0 DEF TInv, Room
<1> QED BY <1>1, <1>2, <1>3, <1>4, <1>5 DEF TInv

\* The rest of the buffers is written.
LEMMA EncodeRestInv == TInv /\ EncodeRest => TInv'
<1> SUFFICES ASSUME TInv, EncodeRest PROVE TInv' OBVIOUS
<1>0. /\ UNCHANGED <<conf, meta, metaDisk, walVars, segs, worker, flushMute, fcount,
                     asyncErr, readers, nextId, acked, crashes, fails>>
      /\ cols' = [c \in DOMAIN cols |-> IF c \in flushTouched THEN glowWrite(cols[c]) ELSE cols[c]]
      /\ fpc = "encode" /\ fpc' \in {"remove", "commit"}
  BY DEF EncodeRest
<1>a. IsSeq(cols', meta)
  <2>1. DOMAIN cols = 1 .. meta BY DEF TInv, Types, IsSeq
  <2> QED BY <1>0, <2>1 DEF IsSeq
<1> USE DEF walVars, worker
<1>1. Types' BY <1>0, <1>a, TypesKept DEF TInv, Types
<1>2. Numbered' BY <1>0, NumberedKept
<1>3. Locks' BY <1>0 DEF TInv, Locks
<1>4. Codes' BY <1>0 DEF TInv, Codes, Upto
<1>5. Room' BY <1>0 DEF TInv, Room
<1> QED BY <1>1, <1>2, <1>3, <1>4, <1>5 DEF TInv

\* The transaction is committed.
LEMMA CommitTransactionInv == TInv /\ CommitTransaction => TInv'
<1> SUFFICES ASSUME TInv, CommitTransaction PROVE TInv' OBVIOUS
<1> USE DEF CommitTransaction, walVars, worker
<1>1. Types' BY TypesKept DEF TInv, Types
<1>2. Numbered' BY NumberedKept
<1>3. Locks' BY DEF TInv, Locks
<1>4. Codes' BY DEF TInv, Codes, Upto
<1>5. Room' BY DEF TInv, Room
<1> QED BY <1>1, <1>2, <1>3, <1>4, <1>5 DEF TInv

\* The consumed files are removed: the last one stays.
LEMMA TruncatedInv == TInv /\ Truncated => TInv'
<1> SUFFICES ASSUME TInv, Truncated PROVE TInv' OBVIOUS
<1> DEFINE fs == truncate(files, fcount)
           again == Len(fs) > 1 /\ pc # "inline"
<1>0. /\ fpc = "remove" /\ files' = fs
      /\ fpc' = IF again THEN "start" ELSE "off"
      /\ flushMute' = IF again THEN flushMute ELSE "free"
      /\ pc' = CASE flushMute = "async" \/ again -> pc
                 [] flushMute = "worker" /\ ~again -> IF pc = "inline" THEN "idle" ELSE "retry"
      /\ fcount' = 0
      /\ UNCHANGED <<conf, meta, metaDisk, tagState, segs, batch, werr, stream, tx, cols,
                     asyncErr, readers, nextId, acked, crashes, fails>>
  BY DEF Truncated, unlocked
<1>a. LogOk(fs, metaDisk) /\ Len(fs) = Len(files) - fcount
  <2>1. LogOk(files, metaDisk) /\ metaDisk \in Nat /\ fcount \in Nat /\ Len(files) \in Nat
    BY DEF TInv, Types, Codes, LogOk
  <2>2. fcount < Len(files) BY <1>0 DEF TInv, Locks
  <2>3. fcount \in 0 .. Len(files) - 1 BY <2>1, <2>2
  <2>4. ~(fcount >= Len(files)) BY <2>1, <2>2
  <2>5. fs = SubSeq(files, fcount + 1, Len(files)) BY <2>4 DEF truncate
  <2> QED BY <2>1, <2>3, <2>5, SuffixOk
<1>b. Len(fs) \in Nat \ {0} BY <1>a DEF LogOk
<1> HIDE DEF fs
<1>c. /\ flushMute \in {"worker", "async"}
      /\ flushMute = "worker" <=> pc \in {"blocked", "inline"}
  BY <1>0 DEF TInv, Types, Locks
<1>d. pc' = pc \/ (pc \in {"blocked", "inline"} /\ pc' \in {"idle", "retry"})
  <2> HIDE DEF again
  <2>1. CASE flushMute = "async" \/ again
    <3>1. ~(flushMute = "worker" /\ ~again) BY <2>1
    <3> QED BY <1>0, <2>1, <3>1
  <2>2. CASE flushMute = "worker" /\ ~again BY <1>0, <1>c, <2>2
  <2> QED BY <1>c, <2>1, <2>2
<1>1. Types'
  <2>1. pc' \in {"idle", "meta", "wal", "full", "blocked", "retry", "trigger", "inline"}
    BY <1>d DEF TInv, Types
  <2>2. files' \in Seq(LogFile)' /\ files' # <<>> BY <1>0, <1>a DEF LogOk, LogFile, Record
  <2>3. flushMute' \in {"free", "worker", "async"} /\ fpc' \in {"off", "start"}
    BY <1>0 DEF TInv, Types
  <2> QED BY <1>0, <2>1, <2>2, <2>3 DEF TInv, Types, IsSeq
<1>2. Numbered' BY <1>0, NumberedKept
<1>3. Locks' BY <1>0, <1>c DEF TInv, Types, Locks
<1>4. Codes'
  <2>1. \A i \in DOMAIN files' : Upto(files'[i].recs, metaDisk') BY <1>0, <1>a DEF LogOk
  <2>2. (pc' = "meta") = (pc = "meta") BY <1>d
  <2> QED BY <1>0, <2>1, <2>2 DEF TInv, Codes, Upto
<1>5. Room'
  <2>1. ASSUME pc' = "retry" PROVE Len(files') = 1
    <3>1. CASE pc = "retry"
      <4>1. Len(files) = 1 BY <3>1 DEF TInv, Room
      <4>2. fcount \in Nat BY DEF TInv, Types
      <4>3. \A n \in Nat \ {0} : n = 1 - fcount => n = 1 BY <4>2
      <4>4. Len(fs) = 1 - fcount BY <1>a, <4>1
      <4> QED BY <1>0, <1>b, <4>3, <4>4
    <3>2. CASE pc # "retry"
      <4>1. ~again /\ pc # "inline"
        <5> HIDE DEF again
        <5> QED BY <1>0, <1>c, <2>1, <3>2
      <4>2. ~(Len(fs) > 1) BY <4>1
      <4>3. \A n \in Nat \ {0} : ~(n > 1) => n = 1 OBVIOUS
      <4> QED BY <1>0, <1>b, <4>2, <4>3
    <3> QED BY <3>1, <3>2
  <2> QED BY <1>0, <2>1 DEF TInv, Room
<1> QED BY <1>1, <1>2, <1>3, <1>4, <1>5 DEF TInv

\* A flush fails: the log stays, and the worker ends or asyncErr is set.
LEMMA FlushFailInv == TInv /\ FlushFail => TInv'
<1> SUFFICES ASSUME TInv, FlushFail PROVE TInv' OBVIOUS
<1>0. /\ UNCHANGED <<conf, meta, metaDisk, walVars, segs, readers, nextId, acked, crashes>>
      /\ cols' = [c \in DOMAIN cols |->
                    IF c \in flushTouched THEN columnReset(cols[c]) ELSE cols[c]]
      /\ fpc' = "off" /\ flushMute' = "free" /\ fcount' = 0
      /\ \/ flushMute = "async" /\ UNCHANGED worker
         \/ flushMute # "async" /\ pc' = "idle" /\ werr' = "flushErr" /\ batch' = <<>>
      /\ fpc \in {"encode", "commit"}
  BY DEF FlushFail
<1>a. IsSeq(cols', meta)
  <2>1. DOMAIN cols = 1 .. meta BY DEF TInv, Types, IsSeq
  <2> QED BY <1>0, <2>1 DEF IsSeq
<1> USE DEF walVars, worker
<1>1. Types' BY <1>0, <1>a, TypesKept DEF TInv, Types
<1>2. Numbered' BY <1>0, NumberedKept
<1>3. Locks' BY <1>0 DEF TInv, Locks
<1>4. Codes' BY <1>0 DEF TInv, Codes, Upto
<1>5. Room' BY <1>0 DEF TInv, Room
<1> QED BY <1>1, <1>2, <1>3, <1>4, <1>5 DEF TInv

\* Iterators come and go.
LEMMA IterInv == TInv /\ (OpenIter \/ CloseIter) => TInv'
<1> SUFFICES ASSUME TInv, OpenIter \/ CloseIter PROVE TInv' OBVIOUS
<1>0. UNCHANGED <<conf, meta, metaDisk, files, tagState, pc, batch, werr, flushMute, fpc,
                  fcount, cols, nextId, acked>>
  BY DEF OpenIter, CloseIter, walVars, worker, flusher
<1>1. Types' BY <1>0, TypesKept DEF TInv, Types
<1>2. Numbered' BY <1>0, NumberedKept
<1>3. Locks' BY <1>0 DEF TInv, Locks
<1>4. Codes' BY <1>0 DEF TInv, Codes, Upto
<1>5. Room' BY <1>0 DEF TInv, Room
<1> QED BY <1>1, <1>2, <1>3, <1>4, <1>5 DEF TInv

\* A full log is met the first time only: the retry has one file, and a log of one file
\* is not full.
LEMMA WalFullInv == TInv /\ WalFull => TInv'
<1> SUFFICES ASSUME TInv, WalFull PROVE TInv' OBVIOUS
<1> USE DEF walVars, flusher
<1>a. pc = "wal"
  <2> SUFFICES ASSUME pc = "retry" PROVE FALSE BY DEF WalFull
  <2>1. Len(files) = 1 BY DEF TInv, Room
  <2>2. conf.maxFiles > 0 /\ Len(files) >= conf.maxFiles BY DEF WalFull, Full
  <2>3. conf.maxFiles \in Nat \ {1} BY DEF TInv, Types
  <2> QED BY <2>1, <2>2, <2>3
<1>0. /\ UNCHANGED <<conf, meta, metaDisk, walVars, flushMute, flusher, nextId, acked>>
      /\ \/ pc' = "idle" /\ batch' = <<>> /\ werr' = "asyncErr"
         \/ pc' = "full" /\ UNCHANGED <<batch, werr>>
  BY <1>a DEF WalFull
<1>1. Types' BY <1>0, TypesKept DEF TInv, Types
<1>2. Numbered' BY <1>0, NumberedKept
<1>3. Locks' BY <1>a, <1>0 DEF TInv, Locks
<1>4. Codes' BY <1>a, <1>0 DEF TInv, Codes, Upto
<1>5. Room' BY <1>0 DEF TInv, Room
<1> QED BY <1>1, <1>2, <1>3, <1>4, <1>5 DEF TInv

\* The batch is written: its codes are on disk.
LEMMA WriteRunsInv == TInv /\ WriteRuns => TInv'
<1> SUFFICES ASSUME TInv, WriteRuns PROVE TInv' OBVIOUS
<1> DEFINE w == Written(batch)
           torn == [files EXCEPT ![Len(files)] = w.file]
<1>0. /\ pc \in {"wal", "retry"} /\ files' = rotateIfFull(torn) /\ tagState' = w.ts
      /\ acked' = acked \cup (Ids(batch) \cap Ids(w.file.recs))
      /\ pc' = "trigger" /\ batch' = <<>>
      /\ UNCHANGED <<conf, meta, metaDisk, segs, werr, flushMute, flusher, asyncErr,
                     readers, nextId, crashes, fails>>
  BY DEF WriteRuns
<1>a. LogOk(files, metaDisk) /\ metaDisk \in Nat /\ meta \in Nat BY DEF TInv, Types, Codes, LogOk
<1>b. Upto(Last(files).recs, metaDisk)
  <2>1. Last(files) = files[Len(files)] BY DEF Last
  <2>2. Len(files) \in DOMAIN files BY <1>a DEF LogOk
  <2> QED BY <1>a, <2>1, <2>2 DEF LogOk
<1>c. w.file \in LogFile /\ Upto(w.file.recs, metaDisk) /\ IsSeq(w.ts, meta)
  <2>1. batch \in Seq(Record) /\ files \in Seq(LogFile) /\ files # <<>> /\ IsSeq(tagState, meta)
    BY DEF TInv, Types, Numbered
  <2>2. Upto(batch, metaDisk) BY <1>0 DEF TInv, Codes
  <2> QED BY <1>a, <1>b, <2>1, <2>2, WrittenOk
<1> HIDE DEF w
<1>d. LogOk(torn, metaDisk) /\ Len(torn) = Len(files) BY <1>a, <1>c, LastReplaced
<1> HIDE DEF torn
<1>e. LogOk(files', metaDisk) /\ Len(files) <= Len(files') BY <1>0, <1>a, <1>d, RotateOk
<1> USE DEF flusher
<1>1. Types'
  <2>1. files' \in Seq(LogFile)' /\ files' # <<>> BY <1>0, <1>e DEF LogOk, LogFile, Record
  <2> QED BY <1>0, <1>c, <2>1 DEF TInv, Types, IsSeq
<1>2. Numbered'
  <2>1. acked' \subseteq 1 .. nextId - 1 BY <1>0 DEF TInv, Numbered
  <2>2. Ids(<<>>) = {} BY DEF Ids
  <2> QED BY <1>0, <2>1, <2>2 DEF Numbered
<1>3. Locks'
  <2>1. Len(files) \in Nat /\ Len(files') \in Nat /\ fcount \in Nat
    BY <1>a, <1>e DEF LogOk, TInv, Types
  <2>2. fcount < Len(files) => fcount < Len(files') BY <1>e, <2>1
  <2> QED BY <1>0, <2>2 DEF TInv, Locks
<1>4. Codes'
  <2>1. Upto(<<>>, metaDisk) BY DEF Upto
  <2> QED BY <1>0, <1>e, <2>1 DEF Codes, LogOk, Upto
<1>5. Room' BY <1>0 DEF TInv, Room
<1> QED BY <1>1, <1>2, <1>3, <1>4, <1>5 DEF TInv

\* The greatest code of the dictionary and the batch.
Top(n, b) == CHOOSE c \in {meta} \cup {b[i].code : i \in 1 .. n} :
               \A i \in 1 .. n : meta <= c /\ b[i].code <= c

\* Prepare makes the dictionary reach the batch's codes.
LEMMA TopOk ==
  ASSUME NEW n \in 1 .. MaxBatch, NEW b \in [1 .. n -> Points], meta \in Nat
  PROVE  LET top == Top(n, b) IN
         top \in Nat /\ meta <= top /\ \A i \in 1 .. n : b[i].code <= top
<1> DEFINE top == Top(n, b)
<1>n. n \in Nat \ {0} /\ MaxTags \in Nat OBVIOUS
<1>p. \A i \in 1 .. n : b[i].code \in 1 .. MaxTags BY DEF Points
<1> DEFINE T == {meta} \cup {b[i].code : i \in 1 .. n}
<1>1. T \in SUBSET (0 .. meta + MaxTags) /\ T # {}
  <2>1. \A i \in 1 .. n : b[i].code \in 0 .. meta + MaxTags BY <1>n, <1>p
  <2> QED BY <1>n, <2>1
<1>2. meta + MaxTags \in Nat BY <1>n
<1>3. PICK x \in T : \A y \in T : y <= x
  <2> HIDE DEF T
  <2> QED BY <1>1, <1>2, Greatest
<1>4. \E c \in T : \A i \in 1 .. n : meta <= c /\ b[i].code <= c
  <2>1. \A i \in 1 .. n : meta <= x /\ b[i].code <= x BY <1>3
  <2> QED BY <1>3, <2>1
<1>5. top \in T /\ \A i \in 1 .. n : meta <= top /\ b[i].code <= top
  BY <1>4 DEF Top
<1>6. 1 \in 1 .. n BY <1>n
<1>7. top \in Nat
  <2> HIDE DEF top, T
  <2> QED BY <1>1, <1>2, <1>5
<1> HIDE DEF top
<1> QED BY <1>5, <1>6, <1>7 DEF top

\* A batch is prepared: the dictionary grows to its greatest code, and the new codes
\* are not in the log.
LEMMA PrepareInv == TInv /\ Prepare => TInv'
<1> SUFFICES ASSUME TInv, Prepare PROVE TInv' OBVIOUS
<1> DEFINE step(n, b) ==
             /\ pc = "idle" /\ werr = "none"
             /\ meta' = Top(n, b)
             /\ cols' = cols \o [c \in 1 .. Top(n, b) - meta |-> EmptyCol]
             /\ tagState' = tagState \o [c \in 1 .. Top(n, b) - meta |-> NoState]
             /\ batch' = [i \in 1 .. n |-> [id |-> nextId + i - 1, code |-> b[i].code,
                                            tms |-> b[i].tms, v |-> b[i].v]]
             /\ nextId' = nextId + n /\ pc' = "meta"
             /\ UNCHANGED <<conf, metaDisk, files, segs, werr, flushMute, fpc, fcount, stream,
                            flushTouched, tx, asyncErr, readers, acked, crashes, fails>>
<1>a. PICK n \in 1 .. MaxBatch : \E b \in [1 .. n -> Points] : step(n, b)
  BY ZenonT(60) DEF Prepare, Top
<1>1. PICK b \in [1 .. n -> Points] : step(n, b) BY <1>a
<1> DEFINE top == Top(n, b)
<1>n. n \in Nat \ {0} /\ nextId \in Nat \ {0} /\ meta \in Nat /\ MaxTags \in Nat
      /\ metaDisk \in 0 .. meta
  BY DEF TInv, Types
<1>p. \A i \in 1 .. n : b[i].code \in 1 .. MaxTags /\ b[i].tms \in Times /\ b[i].v \in conf.vals
  BY DEF Points
<1>2. top \in Nat /\ meta <= top /\ \A i \in 1 .. n : b[i].code <= top BY <1>n, TopOk
<1>3. batch' \in Seq(Record) /\ Len(batch') = n /\ \A i \in 1 .. n :
        batch'[i].id = nextId + i - 1 /\ batch'[i].code = b[i].code
  <2> DEFINE r(i) == [id |-> nextId + i - 1, code |-> b[i].code, tms |-> b[i].tms, v |-> b[i].v]
  <2>1. \A i \in 1 .. n : r(i) \in Record
    <3>1. \A i \in 1 .. n : nextId + i - 1 \in Nat /\ b[i].code \in Nat \ {0} BY <1>n, <1>p, SMTT(40)
    <3> QED BY <1>p, <3>1 DEF Record
  <2>2. \A i \in 1 .. n : r(i).id = nextId + i - 1 /\ r(i).code = b[i].code OBVIOUS
  <2>3. batch' = [i \in 1 .. n |-> r(i)] BY <1>1
  <2> HIDE DEF r
  <2>4. batch' \in [1 .. n -> Record] BY <2>1, <2>3
  <2> QED BY <1>n, <2>2, <2>3, <2>4
<1>4. Types'
  <2>1. IsSeq(cols', top) /\ IsSeq(tagState', top)
    <3> DEFINE k == top - meta
    <3>1. k \in Nat /\ meta + k = top BY <1>n, <1>2
    <3> HIDE DEF k
    <3>2. IsSeq([c \in 1 .. k |-> EmptyCol], k) /\ IsSeq([c \in 1 .. k |-> NoState], k)
      BY DEF IsSeq
    <3>3. IsSeq(cols, meta) /\ IsSeq(tagState, meta) BY DEF TInv, Types
    <3>4. IsSeq(cols \o [c \in 1 .. k |-> EmptyCol], top)
          /\ IsSeq(tagState \o [c \in 1 .. k |-> NoState], top)
      BY <1>n, <3>1, <3>2, <3>3, SeqConcat
    <3> QED BY <1>1, <3>4 DEF k
  <2>2. files' \in Seq(LogFile)' /\ files' # <<>> BY <1>1 DEF TInv, Types, LogFile, Record
  <2>3. metaDisk' \in 0 .. top /\ nextId' \in Nat \ {0} /\ meta' = top
    BY <1>n, <1>1, <1>2
  <2> HIDE DEF top
  <2> QED BY <1>1, <1>2, <2>1, <2>2, <2>3 DEF TInv, Types, IsSeq
<1>5. Numbered'
  <2>1. batch' \in Seq(Record)' BY <1>1, <1>3 DEF Record
  <2>2. ASSUME NEW i \in DOMAIN batch' PROVE batch'[i].id \in 1 .. nextId' - 1
    <3>1. i \in 1 .. n BY <1>3
    <3> QED BY <1>n, <1>1, <1>3, <3>1, SMTT(40)
  <2>3. acked' \subseteq 1 .. nextId' - 1
    <3>1. acked' \subseteq 1 .. nextId - 1 BY <1>1 DEF TInv, Numbered
    <3>2. \A x \in 1 .. nextId - 1 : x \in 1 .. nextId' - 1 BY <1>n, <1>1
    <3> HIDE DEF step
    <3> QED BY <3>1, <3>2
  <2> QED BY <2>1, <2>2, <2>3 DEF Numbered, Ids
<1>6. Locks' BY <1>1 DEF TInv, Locks
<1>7. Codes'
  <2>1. \A i \in DOMAIN batch' : batch'[i].code <= meta' BY <1>1, <1>2, <1>3
  <2> QED BY <1>1, <2>1 DEF TInv, Codes, Upto
<1>8. Room' BY <1>1 DEF TInv, Room
<1> QED BY <1>4, <1>5, <1>6, <1>7, <1>8, SMTT(40) DEF TInv

\* The log a crash leaves: k records of the batch are in the last file, g files are gone.
Torn(k) == [files EXCEPT ![Len(files)] = Written(SubSeq(batch, 1, k)).file]
Left(k, g) == SubSeq(Torn(k), g + 1, Len(Torn(k)))

\* What a crash and the next opening of the table make of the state.
CrashTo(m, k, g, found) ==
  /\ metaDisk' = m /\ meta' = m
  /\ files' = NewWalFile(Left(k, g), 1 .. meta).files
  /\ tagState' = [c \in 1 .. m |-> SetLastPoint(NewWalFile(Left(k, g), 1 .. meta).ts, c, found)]
  /\ cols' = [c \in 1 .. m |-> EmptyCol]

\* How far each write under way had come.
LEMMA CrashParts ==
  ASSUME Crash
  PROVE  \E m \in readEntries, k \in getAllData,
            g \in 0 .. (IF fpc = "remove" THEN fcount ELSE 0), found \in SUBSET (1 .. meta) :
           CrashTo(m, k, g, found)
BY ZenonT(240) DEF Crash, Torn, Left, CrashTo

\* Part of the transaction may be in the segments.
LEMMA CrashSegs ==
  ASSUME Crash
  PROVE  \E j \in 0 .. (IF Holding THEN Len(tx) ELSE 0) : segs' = segs \o SubSeq(tx, 1, j)
BY ZenonT(90) DEF Crash

\* What the next opening resets.
LEMMA CrashResets ==
  ASSUME Crash
  PROVE  /\ pc' = "idle" /\ batch' = <<>> /\ werr' = "none" /\ flushMute' = "free"
         /\ fpc' = "off" /\ fcount' = 0 /\ stream' = <<>> /\ tx' = <<>>
         /\ UNCHANGED <<conf, nextId, acked>>
BY DEF Crash

\* Whatever part of the batch and of the removal of files a crash leaves, the log
\* recovered holds only codes that were on disk before, and all records of the files left.
LEMMA CrashLog ==
  ASSUME TInv, NEW k \in getAllData, NEW g \in 0 .. (IF fpc = "remove" THEN fcount ELSE 0)
  PROVE  LET fs == NewWalFile(Left(k, g), 1 .. meta).files IN
         /\ LogOk(fs, metaDisk) /\ g \in 0 .. Len(files) - 1 /\ Len(fs) = Len(files) - g
         /\ \A i \in 1 .. Len(files) - g : Ids(files[g + i].recs) \subseteq Ids(fs[i].recs)
<1> DEFINE fs == NewWalFile(Left(k, g), 1 .. meta).files
<1>a. LogOk(files, metaDisk) /\ metaDisk \in Nat /\ meta \in Nat BY DEF TInv, Types, Codes, LogOk
<1>l. Len(files) \in Nat \ {0} /\ DOMAIN files = 1 .. Len(files) BY <1>a DEF LogOk
<1>z. Last(files) = files[Len(files)] BY DEF Last
<1>b. Upto(Last(files).recs, metaDisk)
  <2>1. Len(files) \in DOMAIN files BY <1>l
  <2> QED BY <1>a, <1>z, <2>1 DEF LogOk
<1>c. SubSeq(batch, 1, k) \in Seq(Record) /\ Upto(SubSeq(batch, 1, k), metaDisk)
  <2>1. batch \in Seq(Record) BY DEF TInv, Numbered
  <2>2. CASE k = 0
    <3>1. SubSeq(batch, 1, k) = <<>> BY <2>1, <2>2
    <3>2. <<>> \in Seq(Record) /\ Upto(<<>>, metaDisk) BY DEF Upto
    <3> QED BY <3>1, <3>2
  <2>3. CASE k # 0
    <3>1. pc \in {"wal", "retry"} /\ k \in 1 .. Len(batch) BY <2>1, <2>3 DEF getAllData
    <3>2. Upto(batch, metaDisk) BY <3>1 DEF TInv, Codes
    <3> DEFINE s == SubSeq(batch, 1, k)
    <3>3. s \in Seq(Record) /\ Len(s) = k /\ \A i \in 1 .. k : s[i] = batch[i] BY <2>1, <3>1
    <3>4. DOMAIN s = 1 .. k /\ \A i \in 1 .. k : i \in DOMAIN batch BY <2>1, <3>1, <3>3
    <3> HIDE DEF s
    <3>5. Upto(s, metaDisk) BY <3>2, <3>3, <3>4 DEF Upto
    <3> QED BY <3>3, <3>5 DEF s
  <2> QED BY <2>2, <2>3
<1>d. /\ LogOk(Torn(k), metaDisk) /\ Len(Torn(k)) = Len(files)
      /\ \A i \in 1 .. Len(files) : Ids(files[i].recs) \subseteq Ids(Torn(k)[i].recs)
  <2> DEFINE f == Written(SubSeq(batch, 1, k)).file
             t == [files EXCEPT ![Len(files)] = f]
  <2>1. files \in Seq(LogFile) /\ files # <<>> /\ IsSeq(tagState, meta) BY DEF TInv, Types
  <2>2. f \in LogFile /\ Upto(f.recs, metaDisk) /\ Ids(Last(files).recs) \subseteq Ids(f.recs)
    BY <1>a, <1>b, <1>c, <2>1, WrittenOk
  <2>3. Torn(k) = t BY DEF Torn
  <2> HIDE DEF f
  <2>4. /\ LogOk(t, metaDisk) /\ Len(t) = Len(files) /\ t[Len(files)] = f
        /\ \A i \in 1 .. Len(files) - 1 : t[i] = files[i]
    BY <1>a, <2>2, LastReplaced
  <2> HIDE DEF t
  <2>5. ASSUME NEW i \in 1 .. Len(files) PROVE Ids(files[i].recs) \subseteq Ids(t[i].recs)
    <3>1. CASE i = Len(files) BY <1>z, <2>2, <2>4, <3>1
    <3>2. CASE i # Len(files)
      <4>0. \A x \in Nat \ {0} : \A y \in 1 .. x : y # x => y \in 1 .. x - 1 OBVIOUS
      <4>1. i \in 1 .. Len(files) - 1 BY <1>l, <3>2, <4>0
      <4> QED BY <2>4, <4>1
    <3> QED BY <3>1, <3>2
  <2> QED BY <2>3, <2>4, <2>5
<1>g. g \in 0 .. Len(files) - 1
  <2>1. fcount \in Nat BY DEF TInv, Types
  <2>2. fpc = "remove" => fcount < Len(files) BY DEF TInv, Locks
  <2> QED BY <1>l, <2>1, <2>2
<1>e. /\ LogOk(Left(k, g), metaDisk) /\ Len(Left(k, g)) = Len(files) - g
      /\ \A i \in 1 .. Len(files) - g : Left(k, g)[i] = Torn(k)[g + i]
  BY <1>a, <1>d, <1>g, SuffixOk DEF Left
<1>f. /\ LogOk(fs, metaDisk) /\ Len(fs) = Len(Left(k, g))
      /\ \A i \in 1 .. Len(Left(k, g)) : fs[i].recs = Left(k, g)[i].recs
  <2> DEFINE L == Left(k, g)
             C == 1 .. meta
  <2>1. LogOk(L, metaDisk) BY <1>e
  <2> HIDE DEF L, C
  <2>2. LET q == NewWalFile(L, C).files IN
        LogOk(q, metaDisk) /\ Len(q) = Len(L) /\ \A i \in 1 .. Len(L) : q[i].recs = L[i].recs
    BY <1>a, <2>1, RecoverOk, SMTT(40)
  <2> QED BY <2>2 DEF L, C
<1> HIDE DEF fs
<1>h. ASSUME NEW i \in 1 .. Len(files) - g PROVE Ids(files[g + i].recs) \subseteq Ids(fs[i].recs)
  <2>1. g + i \in 1 .. Len(files) BY <1>g, <1>l
  <2>2. fs[i].recs = Torn(k)[g + i].recs BY <1>e, <1>f
  <2> QED BY <1>d, <2>1, <2>2
<1> QED BY <1>e, <1>f, <1>g, <1>h DEF fs

\* A crash: the codes of the log stay on disk.
LEMMA CrashInv == TInv /\ Crash => TInv'
<1> SUFFICES ASSUME TInv, Crash PROVE TInv' OBVIOUS
<1>1. PICK m \in readEntries, k \in getAllData,
           g \in 0 .. (IF fpc = "remove" THEN fcount ELSE 0), found \in SUBSET (1 .. meta) :
        CrashTo(m, k, g, found)
  BY CrashParts
<1>2. /\ metaDisk' = m /\ meta' = m /\ files' = NewWalFile(Left(k, g), 1 .. meta).files
      /\ tagState' = [c \in 1 .. m |-> SetLastPoint(NewWalFile(Left(k, g), 1 .. meta).ts, c, found)]
      /\ cols' = [c \in 1 .. m |-> EmptyCol]
  BY <1>1 DEF CrashTo
<1>3. /\ pc' = "idle" /\ batch' = <<>> /\ werr' = "none"
      /\ flushMute' = "free" /\ fpc' = "off" /\ fcount' = 0 /\ UNCHANGED <<conf, nextId, acked>>
  BY CrashResets
<1>m. metaDisk \in Nat /\ m \in Nat /\ metaDisk <= m
  <2>1. meta >= metaDisk /\ meta \in Nat /\ metaDisk \in Nat BY DEF TInv, Types
  <2> QED BY <2>1 DEF readEntries
<1>f. LogOk(files', metaDisk) BY <1>2, CrashLog
<1>4. Types'
  <2>1. files' \in Seq(LogFile)' /\ files' # <<>> BY <1>3, <1>f DEF LogOk, LogFile, Record
  <2>2. IsSeq(tagState', m) /\ IsSeq(cols', m) BY <1>2 DEF IsSeq
  <2> QED BY <1>2, <1>3, <1>m, <2>1, <2>2 DEF TInv, Types, IsSeq
<1>5. Numbered' BY <1>3, NumberedKept
<1>6. Locks' BY <1>3 DEF Locks
<1>7. Codes'
  <2>1. ASSUME NEW i \in DOMAIN files', NEW x \in DOMAIN files'[i].recs
        PROVE  files'[i].recs[x].code <= m
    <3>1. files'[i].recs[x].code <= metaDisk BY <1>f DEF LogOk, Upto
    <3>2. files'[i].recs[x].code \in Nat
      <4>1. files'[i] \in LogFile BY <1>f DEF LogOk
      <4>2. files'[i].recs \in Seq(Record) BY <4>1 DEF LogFile
      <4>3. files'[i].recs[x] \in Record BY <4>2
      <4> QED BY <4>3 DEF Record
    <3> QED BY <1>m, <3>1, <3>2
  <2> QED BY <1>2, <1>3, <2>1 DEF Codes, Upto
<1>8. Room' BY <1>3 DEF Room
<1> QED BY <1>4, <1>5, <1>6, <1>7, <1>8 DEF TInv

\* The table starts empty.
LEMMA InitInv == Init => TInv
<1> SUFFICES ASSUME Init PROVE TInv OBVIOUS
<1> USE DEF Init
<1>1. EmptyFile \in LogFile
  <2>1. <<>> \in Seq(Record) OBVIOUS
  <2> QED BY <2>1 DEF EmptyFile, LogFile
<1>2. /\ files \in Seq(LogFile) /\ files # <<>> /\ Len(files) = 1
      /\ files[1] = EmptyFile /\ DOMAIN files = 1 .. 1
  BY <1>1
<1>3. Types
  <2>1. IsSeq(<<>>, 0) BY DEF IsSeq
  <2> QED BY <1>2, <2>1 DEF Types
<1>4. Numbered
  <2>1. <<>> \in Seq(Record) /\ Ids(<<>>) = {} BY DEF Ids
  <2> QED BY <2>1 DEF Numbered
<1>5. Locks BY DEF Locks
<1>6. Codes
  <2>1. \A i \in DOMAIN files : files[i].recs = <<>> BY <1>2 DEF EmptyFile
  <2> QED BY <2>1 DEF Codes, Upto
<1>7. Room BY DEF Room
<1> QED BY <1>3, <1>4, <1>5, <1>6, <1>7 DEF TInv

\* Every step keeps TInv.
LEMMA NextInv == TInv /\ [Next]_vars => TInv'
<1> SUFFICES ASSUME TInv, [Next]_vars PROVE TInv' OBVIOUS
<1>1. CASE UNCHANGED vars
  <2>0. UNCHANGED <<conf, meta, metaDisk, files, tagState, pc, batch, werr, flushMute, fpc,
                    fcount, cols, nextId, acked>>
    BY <1>1 DEF vars, walVars, worker, flusher
  <2>1. Types' BY <2>0, TypesKept DEF TInv, Types
  <2>2. Numbered' BY <2>0, NumberedKept
  <2>3. Locks' BY <2>0 DEF TInv, Locks
  <2>4. Codes' BY <2>0 DEF TInv, Codes, Upto
  <2>5. Room' BY <2>0 DEF TInv, Room
  <2> QED BY <2>1, <2>2, <2>3, <2>4, <2>5 DEF TInv
<1>2. CASE Worker
  BY <1>2, MetaFlushInv, WriteRunsInv, WalFullInv, LockFlushInv, NoFlushInv, StartFlushInv
  DEF Worker
<1>3. CASE Flush
  BY <1>3, FlushStartInv, EncodeInv, EncodeRestInv, CommitTransactionInv, TruncatedInv,
     FlushFailInv
  DEF Flush
<1>4. CASE Prepare \/ OpenIter \/ CloseIter \/ Crash
  BY <1>4, PrepareInv, IterInv, CrashInv
<1> QED BY <1>1, <1>2, <1>3, <1>4 DEF Next

\* The inductive invariant of the table: types, numbering, the lock's holder, the codes
\* in the log and the room a retry finds.
THEOREM TableInvariance == Spec => []TInv
<1>1. Init => TInv BY InitInv
<1>2. TInv /\ [Next]_vars => TInv' BY NextInv
<1> QED BY <1>1, <1>2, PTL DEF Spec

\* Types, and the flush runs exactly while flushMute is held, by the worker while it is
\* blocked in flushBlocking or flushes inline, and by no one else.
THEOREM TypeCorrect == Spec => []TypeOK
<1>1. TInv => TypeOK
  <2> SUFFICES ASSUME TInv PROVE TypeOK OBVIOUS
  <2>1. Len(cols) = meta /\ Len(tagState) = meta BY SeqLen DEF TInv, Types
  <2>2. \A i \in DOMAIN files : files[i].needsSort \in BOOLEAN
    <3>1. \A i \in DOMAIN files : files[i] \in LogFile BY DEF TInv, Types
    <3> QED BY <3>1 DEF LogFile
  <2> QED BY <2>1, <2>2 DEF TInv, Types, Numbered, Locks, TypeOK
<1> QED BY <1>1, TableInvariance, PTL

\* The code of every record in the log is in the dictionary on disk, in every state and
\* after every crash, torn batch and interrupted removal of log files: commitRawWriteBatch
\* flushes the dictionary before WriteRuns.
THEOREM MetaFirst == Spec => []MetaBeforeWal
<1>1. TInv => MetaBeforeWal BY DEF TInv, Codes, Upto, MetaBeforeWal
<1> QED BY <1>1, TableInvariance, PTL

\* After flushBlocking the retry of a batch never finds the log full, for every limit on
\* the number of log files but one: the worker is never stopped by ErrorWALCacheFull.
THEOREM RetryFits == Spec => []Backpressure
<1>1. TInv => Backpressure BY DEF TInv, Room, Backpressure
<1> QED BY <1>1, TableInvariance, PTL

\* SetToSeq lists every element of a finite set.
LEMMA SetToSeqOnto ==
  ASSUME NEW S, IsFiniteSet(S)
  PROVE  /\ Cardinality(S) \in Nat /\ SetToSeq(S) \in [1 .. Cardinality(S) -> S]
         /\ \A x \in S : \E i \in 1 .. Cardinality(S) : SetToSeq(S)[i] = x
         /\ \A i, j \in 1 .. Cardinality(S) : SetToSeq(S)[i] = SetToSeq(S)[j] => i = j
<1> DEFINE n == Cardinality(S)
           I == 1 .. n
<1>1. n \in Nat /\ ExistsBijection(1 .. n, S) BY FS_CardinalityType
<1>2. IsFiniteSet(I) /\ Cardinality(I) = n
  <2> HIDE DEF n
  <2>1. 1 \in Int /\ n \in Int BY <1>1
  <2>2. IsFiniteSet(1 .. n) /\ Cardinality(1 .. n) = IF 1 > n THEN 0 ELSE n - 1 + 1
    BY <2>1, FS_Interval
  <2> QED BY <1>1, <2>2
<1>3. \E f \in [I -> S] : IsInjective(f)
  BY <1>1 DEF ExistsBijection, Bijection, Injection, IsInjective
<1>4. SetToSeq(S) \in [I -> S] /\ IsInjective(SetToSeq(S)) BY <1>3 DEF SetToSeq
<1> HIDE DEF I, n
<1>5. SetToSeq(S) \in Injection(I, S) BY <1>4 DEF Injection
<1>6. SetToSeq(S) \in Surjection(I, S)
  BY <1>2, <1>5, FS_Injection DEF n
<1>7. \A x \in S : \E i \in I : SetToSeq(S)[i] = x BY <1>6 DEF Surjection
<1>8. \A i, j \in I : SetToSeq(S)[i] = SetToSeq(S)[j] => i = j BY <1>4 DEF IsInjective
<1> QED BY <1>1, <1>4, <1>7, <1>8 DEF I, n

\* f[i] joins the first i of the n sequences of s.
Joins(f, s, n) == f[1] = s[1] /\ \A i \in 2 .. n : f[i] = f[i - 1] \o s[i]

\* The sequences are joined one by one: the recursion behind FlattenSeq is well-defined.
LEMMA FlattenSteps ==
  ASSUME NEW n \in Nat \ {0}, NEW s, Len(s) = n
  PROVE  \E f : Joins(f, s, n) /\ FlattenSeq(s) = f[n]
<1> DEFINE F(g) == [i \in 1 .. n |-> IF i = 1 THEN s[i] ELSE g[i - 1] \o s[i]]
           Fn(g) == g = [i \in 1 .. n |-> g[i]]
           Ok(g, m) == /\ Fn(g) /\ g[1] = s[1]
                       /\ \A i \in 2 .. n : i <= m => g[i] = g[i - 1] \o s[i]
           G == {m \in Nat : \E g : Ok(g, m)}
<1> HIDE DEF Fn
<1>0. 1 \in 1 .. n OBVIOUS
<1>1. 0 \in G
  <2>0. \A i \in 2 .. n : ~(i <= 0) OBVIOUS
  <2>1. Ok([i \in 1 .. n |-> s[1]], 0) BY <1>0, <2>0 DEF Fn
  <2> HIDE DEF Ok
  <2> QED BY <2>1
<1>2. ASSUME NEW m \in Nat, m \in G PROVE m + 1 \in G
  <2>1. PICK f : Ok(f, m) BY <1>2
  <2>2. CASE m = 0
    <3>1. \A i \in 2 .. n : ~(i <= m + 1) BY <2>2
    <3>2. Ok(f, m + 1) BY <2>1, <3>1
    <3> HIDE DEF Ok
    <3> QED BY <3>2
  <2>3. CASE m # 0
    <3> DEFINE g == [i \in 1 .. n |-> IF i = m + 1 THEN f[i - 1] \o s[i] ELSE f[i]]
    <3>1. Fn(g) /\ g[1] = s[1] BY <1>0, <2>1, <2>3 DEF Fn
    <3>2. ASSUME NEW i \in 2 .. n, i <= m + 1 PROVE g[i] = g[i - 1] \o s[i]
      <4>1. i - 1 \in 1 .. n /\ i \in 1 .. n /\ i - 1 # m + 1 BY <3>2
      <4>2. g[i - 1] = f[i - 1] BY <4>1
      <4>3. CASE i = m + 1 BY <4>1, <4>2, <4>3
      <4>4. CASE i <= m BY <2>1, <4>1, <4>2, <4>4
      <4>5. i = m + 1 \/ i <= m
        <5> HIDE DEF g, Ok
        <5> QED BY <3>2
      <4> QED BY <4>3, <4>4, <4>5
    <3> HIDE DEF g
    <3>3. Ok(g, m + 1) BY <3>1, <3>2
    <3> HIDE DEF Ok
    <3> QED BY <3>3
  <2> QED BY <2>2, <2>3
<1>3. n \in G
  <2> HIDE DEF G
  <2> QED BY <1>1, <1>2, SetInduction
<1>4. PICK g : Ok(g, n) BY <1>3
<1>5. g = F(g)
  <2>1. \A i \in 1 .. n : g[i] = F(g)[i]
    <3>0. \A i \in 2 .. n : i <= n OBVIOUS
    <3>1. g[1] = s[1] /\ \A i \in 2 .. n : g[i] = g[i - 1] \o s[i] BY <1>4, <3>0, ZenonT(60)
    <3>2. \A i \in 1 .. n : i = 1 \/ i \in 2 .. n OBVIOUS
    <3> QED BY <3>1, <3>2
  <2>2. g = [i \in 1 .. n |-> g[i]] BY <1>4 DEF Fn
  <2> QED BY <2>1, <2>2
<1> DEFINE f == CHOOSE h : h = F(h)
<1>6. f = F(f) BY <1>5, ZenonT(60)
<1>7. FlattenSeq(s) = f[n] BY DEF FlattenSeq
<1> HIDE DEF f
<1>8. f[1] = s[1] BY <1>0, <1>6
<1>9. \A i \in 2 .. n : f[i] = f[i - 1] \o s[i]
  <2>1. \A i \in 2 .. n : i \in 1 .. n /\ i # 1 OBVIOUS
  <2> QED BY <1>6, <2>1
<1> QED BY <1>7, <1>8, <1>9 DEF Joins

\* The identifiers of a concatenation.
LEMMA ConcatIds ==
  ASSUME NEW s \in Seq(Record), NEW t \in Seq(Record)
  PROVE  s \o t \in Seq(Record) /\ Ids(s \o t) = Ids(s) \cup Ids(t)
<1> DEFINE u == s \o t
<1>1. /\ u \in Seq(Record) /\ Len(u) = Len(s) + Len(t)
      /\ \A k \in 1 .. Len(s) : u[k] = s[k]
      /\ \A k \in 1 .. Len(t) : u[Len(s) + k] = t[k]
  OBVIOUS
<1>2. DOMAIN u = 1 .. Len(s) + Len(t) /\ DOMAIN s = 1 .. Len(s) /\ DOMAIN t = 1 .. Len(t)
  BY <1>1
<1> HIDE DEF u
<1>3. ASSUME NEW x \in Ids(u) PROVE x \in Ids(s) \cup Ids(t)
  <2>1. PICK k \in 1 .. Len(s) + Len(t) : u[k].id = x BY <1>2, <1>3 DEF Ids
  <2>2. CASE k <= Len(s)
    <3>1. k \in 1 .. Len(s) BY <2>2
    <3> QED BY <1>1, <1>2, <2>1, <3>1 DEF Ids
  <2>3. CASE k > Len(s)
    <3>1. k - Len(s) \in 1 .. Len(t) /\ k = Len(s) + (k - Len(s)) BY <2>3
    <3>2. u[k] = t[k - Len(s)] BY <1>1, <3>1
    <3> QED BY <1>2, <2>1, <3>1, <3>2 DEF Ids
  <2> QED BY <2>2, <2>3
<1>4. ASSUME NEW x \in Ids(s) PROVE x \in Ids(u)
  <2>1. PICK k \in 1 .. Len(s) : s[k].id = x BY <1>2, <1>4 DEF Ids
  <2>2. k \in 1 .. Len(s) + Len(t) OBVIOUS
  <2> QED BY <1>1, <1>2, <2>1, <2>2 DEF Ids
<1>5. ASSUME NEW x \in Ids(t) PROVE x \in Ids(u)
  <2>1. PICK k \in 1 .. Len(t) : t[k].id = x BY <1>2, <1>5 DEF Ids
  <2>2. Len(s) + k \in 1 .. Len(s) + Len(t) OBVIOUS
  <2> QED BY <1>1, <1>2, <2>1, <2>2 DEF Ids
<1> QED BY <1>1, <1>3, <1>4, <1>5 DEF u

\* FlattenSeq holds what its parts hold.
LEMMA FlattenIds ==
  ASSUME NEW n \in Nat, NEW s, IsSeq(s, n), \A i \in 1 .. n : s[i] \in Seq(Record)
  PROVE  /\ FlattenSeq(s) \in Seq(Record)
         /\ \A i \in 1 .. n : Ids(s[i]) \subseteq Ids(FlattenSeq(s))
<1>1. Len(s) = n BY SeqLen
<1>2. CASE n = 0
  <2>1. FlattenSeq(s) = s BY <1>1, <1>2 DEF FlattenSeq
  <2>2. s \in Seq({s[c] : c \in 1 .. n}) BY SeqLen
  <2>3. s = <<>> BY <1>1, <1>2, <2>2
  <2>4. <<>> \in Seq(Record) /\ 1 .. 0 = {} OBVIOUS
  <2> QED BY <1>2, <2>1, <2>3, <2>4
<1>3. CASE n # 0
  <2>0. n \in Nat \ {0} BY <1>3
  <2>a. PICK f : Joins(f, s, n) /\ FlattenSeq(s) = f[n] BY <1>1, <2>0, FlattenSteps
  <2>1. /\ f[1] = s[1] /\ FlattenSeq(s) = f[n]
        /\ \A i \in 2 .. n : f[i] = f[i - 1] \o s[i]
    BY <2>a DEF Joins
  <2> DEFINE P(m) == f[m] \in Seq(Record) /\ \A i \in 1 .. m : Ids(s[i]) \subseteq Ids(f[m])
             G == {m \in Nat : m \in 1 .. n => P(m)}
  <2>2. 0 \in G
    <3>1. 0 \notin 1 .. n OBVIOUS
    <3> HIDE DEF P
    <3> QED BY <3>1
  <2>3. ASSUME NEW m \in Nat, m \in G PROVE m + 1 \in G
    <3> SUFFICES ASSUME m + 1 \in 1 .. n PROVE P(m + 1)
      <4> HIDE DEF P
      <4> QED OBVIOUS
    <3>1. CASE m = 0
      <4>1. f[m + 1] = s[1] /\ 1 \in 1 .. n BY <1>3, <2>1, <3>1
      <4>2. \A i \in 1 .. m + 1 : i = 1 BY <3>1
      <4> QED BY <4>1, <4>2
    <3>2. CASE m # 0
      <4>1. m \in 1 .. n /\ m + 1 \in 2 .. n /\ (m + 1) - 1 = m BY <3>2
      <4>2. P(m)
        <5> HIDE DEF P
        <5> QED BY <2>3, <4>1
      <4>3. f[m + 1] = f[m] \o s[m + 1] /\ s[m + 1] \in Seq(Record) BY <2>1, <4>1
      <4>4. f[m + 1] \in Seq(Record) /\ Ids(f[m + 1]) = Ids(f[m]) \cup Ids(s[m + 1])
        BY <4>2, <4>3, ConcatIds, SMTT(40)
      <4>5. \A i \in 1 .. m + 1 : i = m + 1 \/ i \in 1 .. m OBVIOUS
      <4> QED BY <4>2, <4>4, <4>5
    <3> QED BY <3>1, <3>2
  <2>4. n \in G
    <3> HIDE DEF G
    <3> QED BY <2>2, <2>3, SetInduction
  <2>5. P(n)
    <3>1. n \in 1 .. n BY <1>3
    <3> HIDE DEF P
    <3> QED BY <2>4, <3>1
  <2> QED BY <2>1, <2>5
<1> QED BY <1>2, <1>3

\* Two records of one tag are in time order.
Ascends(r, s) == r.code = s.code => r.tms <= s.tms

\* Each tag's records are.
Sorted(s) == \A i, j \in DOMAIN s : i < j => Ascends(s[i], s[j])

\* The places of t hold records from different places of s.
Drawn(t, s) ==
  \A i, j \in DOMAIN t : \E k, l \in DOMAIN s : t[i] = s[k] /\ t[j] = s[l] /\ (i # j => k # l)

\* The sort loses no record and doubles none, a record's rank is its place, and no two
\* records share one; and it puts each tag's records in time order.
LEMMA SortIds ==
  ASSUME NEW recs \in Seq(Record)
  PROVE  /\ sortEntries(recs) \in Seq(Record) /\ Ids(recs) \subseteq Ids(sortEntries(recs))
         /\ Sorted(sortEntries(recs)) /\ Drawn(sortEntries(recs), recs)
<1> DEFINE n == Len(recs)
           D == 1 .. n
           prec(j, k) ==
             \/ recs[j].code < recs[k].code
             \/ recs[j].code = recs[k].code /\ recs[j].tms < recs[k].tms
             \/ recs[j].code = recs[k].code /\ recs[j].tms = recs[k].tms /\ j < k
           before(k) == {j \in D : prec(j, k)}
           rank(k) == Cardinality(before(k)) + 1
           sorted == [i \in D |-> recs[CHOOSE k \in D : rank(k) = i]]
<1>1. n \in Nat /\ DOMAIN recs = D OBVIOUS
<1>2. sortEntries(recs) = sorted BY <1>1 DEF sortEntries
<1>3. \A k \in D : recs[k].code \in Nat /\ recs[k].tms \in Nat /\ k \in Nat
  <2>1. \A k \in D : recs[k] \in Record BY <1>1
  <2>2. \A r \in Record : r.code \in Nat /\ r.tms \in Times BY DEF Record
  <2>3. \A k \in D : k \in Nat BY <1>1
  <2> QED BY <2>1, <2>2, <2>3
<1>4. ASSUME NEW j \in D, NEW k \in D
      PROVE  ~prec(k, k) /\ (j = k \/ prec(j, k) \/ prec(k, j))
  <2> DEFINE a == recs[j].code
             b == recs[k].code
             s == recs[j].tms
             t == recs[k].tms
  <2>1. a \in Nat /\ b \in Nat /\ s \in Nat /\ t \in Nat /\ j \in Nat /\ k \in Nat BY <1>3
  <2> HIDE DEF a, b, s, t
  <2>2. ~(b < b \/ (b = b /\ t < t) \/ (b = b /\ t = t /\ k < k)) BY <2>1
  <2>3. \/ j = k
        \/ a < b \/ (a = b /\ s < t) \/ (a = b /\ s = t /\ j < k)
        \/ b < a \/ (b = a /\ t < s) \/ (b = a /\ t = s /\ k < j)
    BY <2>1
  <2> QED BY <2>2, <2>3 DEF a, b, s, t
<1>5. ASSUME NEW i \in D, NEW j \in D, NEW k \in D, prec(i, j), prec(j, k)
      PROVE  prec(i, k)
  <2> DEFINE a == recs[i].code
             b == recs[j].code
             c == recs[k].code
             s == recs[i].tms
             t == recs[j].tms
             u == recs[k].tms
  <2>1. /\ a \in Nat /\ b \in Nat /\ c \in Nat /\ s \in Nat /\ t \in Nat /\ u \in Nat
        /\ i \in Nat /\ j \in Nat /\ k \in Nat
    BY <1>3
  <2>2. a < b \/ (a = b /\ s < t) \/ (a = b /\ s = t /\ i < j) BY <1>5
  <2>3. b < c \/ (b = c /\ t < u) \/ (b = c /\ t = u /\ j < k) BY <1>5
  <2> HIDE DEF a, b, c, s, t, u
  <2>4. a < c \/ (a = c /\ s < u) \/ (a = c /\ s = u /\ i < k)
    <3> HIDE DEF prec
    <3> QED BY <2>1, <2>2, <2>3
  <2> QED BY <2>4 DEF a, c, s, u
<1> HIDE DEF prec
<1>6. IsFiniteSet(D) /\ Cardinality(D) = n
  <2> HIDE DEF n
  <2>1. 1 \in Int /\ n \in Int BY <1>1
  <2>2. IsFiniteSet(1 .. n) /\ Cardinality(1 .. n) = IF 1 > n THEN 0 ELSE n - 1 + 1
    BY <2>1, FS_Interval
  <2> QED BY <1>1, <2>2
<1> HIDE DEF n
<1>7. ASSUME NEW k \in D PROVE /\ IsFiniteSet(before(k)) /\ Cardinality(before(k)) \in Nat
                               /\ rank(k) \in D
  <2>1. before(k) \in SUBSET (D \ {k}) BY <1>4
  <2> HIDE DEF before, D, rank, sorted
  <2>2. IsFiniteSet(D \ {k}) /\ Cardinality(D \ {k}) = n - 1 BY <1>6, FS_RemoveElement
  <2> USE DEF rank
  <2>3. IsFiniteSet(before(k)) /\ Cardinality(before(k)) <= Cardinality(D \ {k})
    BY <2>1, <2>2, FS_Subset
  <2>4. Cardinality(before(k)) \in Nat BY <2>3, FS_CardinalityType
  <2>5. rank(k) \in 1 .. n BY <1>1, <2>2, <2>3, <2>4
  <2> QED BY <2>3, <2>4, <2>5 DEF D
<1>8. ASSUME NEW j \in D, NEW k \in D, prec(j, k) PROVE rank(j) < rank(k)
  <2>1. before(j) \in SUBSET before(k) BY <1>5, <1>8
  <2>2. j \in before(k) /\ j \notin before(j) BY <1>4, <1>8
  <2> HIDE DEF before
  <2>3. /\ Cardinality(before(j)) # Cardinality(before(k))
        /\ Cardinality(before(j)) <= Cardinality(before(k))
    BY <1>7, <2>1, <2>2, FS_Subset
  <2> QED BY <1>7, <2>3, SMTT(40)
<1>9. \A j, k \in D : rank(j) = rank(k) => j = k
  <2>0. \A x \in D : x \in Nat BY <1>1
  <2> HIDE DEF rank, D
  <2>1. \A k \in D : rank(k) \in Nat BY <1>7, <2>0
  <2> SUFFICES ASSUME NEW j \in D, NEW k \in D, rank(j) = rank(k), j # k PROVE FALSE OBVIOUS
  <2>2. prec(j, k) \/ prec(k, j) BY <1>4
  <2>3. rank(j) < rank(k) \/ rank(k) < rank(j) BY <1>8, <2>2
  <2> QED BY <2>1, <2>3
<1>10. \A i \in D : \E k \in D : rank(k) = i
  <2> DEFINE r == [k \in D |-> rank(k)]
  <2>1. r \in [D -> D] BY <1>7
  <2>2. \A k \in D : r[k] = rank(k) OBVIOUS
  <2> HIDE DEF r, rank
  <2>3. IsInjective(r) BY <1>9, <2>1, <2>2 DEF IsInjective
  <2>4. r \in Injection(D, D) BY <2>1, <2>3 DEF Injection
  <2> HIDE DEF D
  <2>5. r \in Surjection(D, D) BY <1>6, <2>4, FS_Injection
  <2> QED BY <2>2, <2>5 DEF Surjection
<1> HIDE DEF rank
<1>11. sorted \in Seq(Record)
  <2>1. \A i \in D : recs[CHOOSE k \in D : rank(k) = i] \in Record
    <3>1. \A i \in D : (CHOOSE k \in D : rank(k) = i) \in D BY <1>10
    <3>2. \A q \in D : recs[q] \in Record BY <1>1
    <3> QED BY <3>1, <3>2
  <2>2. sorted \in [D -> Record] BY <2>1
  <2> HIDE DEF sorted
  <2>3. \A f \in [1 .. n -> Record] : f \in Seq(Record) BY <1>1
  <2> QED BY <2>2, <2>3
<1>12. ASSUME NEW k \in D PROVE \E i \in D : sorted[i] = recs[k]
  <2>1. rank(k) \in D BY <1>7
  <2>2. (CHOOSE q \in D : rank(q) = rank(k)) = k BY <1>9
  <2> QED BY <2>1, <2>2
<1>13. DOMAIN sorted = D OBVIOUS
<1>15. Sorted(sorted)
  <2> SUFFICES ASSUME NEW i \in D, NEW j \in D, i < j, sorted[i].code = sorted[j].code
               PROVE  sorted[i].tms <= sorted[j].tms
    <3> HIDE DEF sorted
    <3> QED BY <1>13 DEF Sorted, Ascends
  <2>1. PICK k \in D : rank(k) = i /\ sorted[i] = recs[k] BY <1>10
  <2>2. PICK l \in D : rank(l) = j /\ sorted[j] = recs[l] BY <1>10
  <2> HIDE DEF sorted
  <2>3. i \in Nat /\ j \in Nat BY <1>1
  <2>4. k # l /\ ~prec(l, k) BY <1>8, <2>1, <2>2, <2>3, SMTT(40)
  <2>5. prec(k, l) BY <1>4, <2>4
  <2>6. PICK a \in Nat, b \in Nat : a = recs[k].tms /\ b = recs[l].tms BY <1>3
  <2>7. PICK c \in Nat : c = recs[k].code /\ c = recs[l].code BY <1>3, <2>1, <2>2
  <2>8. c < c \/ a < b \/ a = b BY <2>5, <2>6, <2>7 DEF prec
  <2>9. a \in Nat /\ b \in Nat /\ c \in Nat => (c < c \/ a < b \/ a = b => a <= b) OBVIOUS
  <2>10. a <= b BY <2>8, <2>9
  <2> QED BY <2>1, <2>2, <2>6, <2>10
<1>16. Drawn(sorted, recs)
  <2> SUFFICES ASSUME NEW i \in D, NEW j \in D
               PROVE  \E k, l \in D : sorted[i] = recs[k] /\ sorted[j] = recs[l] /\ (i # j => k # l)
    <3> HIDE DEF sorted, D
    <3> QED BY <1>1, <1>13 DEF Drawn
  <2>1. PICK k \in D : rank(k) = i /\ sorted[i] = recs[k] BY <1>10
  <2>2. PICK l \in D : rank(l) = j /\ sorted[j] = recs[l] BY <1>10
  <2> HIDE DEF sorted, D
  <2> QED BY <2>1, <2>2
<1> HIDE DEF sorted, D
<1>14. Ids(recs) \subseteq Ids(sorted)
  <2>1. Ids(recs) = {recs[k].id : k \in D} BY <1>1 DEF Ids
  <2>2. Ids(sorted) = {sorted[k].id : k \in D} BY <1>13 DEF Ids
  <2> QED BY <1>12, <2>1, <2>2
<1> QED BY <1>2, <1>11, <1>14, <1>15, <1>16

\* The durability of a table with values of one type, with what it rests on.
OneTypeInv == OneType /\ Plain /\ Flushed /\ acked \subseteq WalIds \cup Ids(segs)
DurableInv == OneType => OneTypeInv

\* The files before the last do not change while a flush has them.
LEMMA CoveredKept ==
  ASSUME NEW S, NEW T, Covered(S), S \subseteq T, fcount' = fcount,
         \A i \in 1 .. fcount : files'[i] = files[i]
  PROVE  \A i \in 1 .. fcount' : Ids(files'[i].recs) \subseteq T
BY DEF Covered

\* Steps of the worker and the queries that touch neither the log nor the flush's data.
LEMMA ApartKept ==
  ASSUME OneTypeInv, fpc' \in {fpc, "start"},
         UNCHANGED <<conf, meta, files, segs, fcount, stream, flushTouched, tx, cols, acked>>
  PROVE  OneTypeInv'
<1>1. OneType' BY DEF OneTypeInv, OneType
<1>2. Plain' BY DEF OneTypeInv, Plain, Record
<1>3. Flushed'
  <2>1. Buffered' = Buffered BY DEF Buffered
  <2>2. \A S : Covered(S) => \A i \in 1 .. fcount' : Ids(files'[i].recs) \subseteq S
    BY CoveredKept
  <2>3. CASE fpc' = "start" BY <2>3 DEF Flushed
  <2>4. CASE fpc' = fpc BY <2>1, <2>2, <2>4 DEF OneTypeInv, Flushed, Covered
  <2> QED BY <2>3, <2>4
<1>4. (acked \subseteq WalIds \cup Ids(segs))' BY DEF OneTypeInv, WalIds
<1> QED BY <1>1, <1>2, <1>3, <1>4 DEF OneTypeInv

\* New tags get empty columns.
LEMMA PrepareKept ==
  ASSUME TInv, OneTypeInv, Prepare, TInv'
  PROVE  OneTypeInv'
<1>0. UNCHANGED <<conf, files, segs, fpc, fcount, stream, flushTouched, tx, acked>>
  BY DEF Prepare
<1>1. PICK k \in Nat : cols' = cols \o [c \in 1 .. k |-> EmptyCol] /\ meta' = meta + k
  <2> DEFINE step(n, b) == /\ meta' = Top(n, b)
                           /\ cols' = cols \o [c \in 1 .. Top(n, b) - meta |-> EmptyCol]
  <2>1. PICK n \in 1 .. MaxBatch : \E b \in [1 .. n -> Points] : step(n, b)
  BY ZenonT(60) DEF Prepare, Top
  <2>2. PICK b \in [1 .. n -> Points] : step(n, b) BY <2>1
  <2>3. cols' = cols \o [c \in 1 .. meta' - meta |-> EmptyCol] BY <2>2
  <2> HIDE DEF step
  <2>4. meta \in Nat /\ meta' \in Nat /\ IsSeq(cols, meta) /\ IsSeq(cols', meta')
    BY DEF TInv, Types, IsSeq
  <2>5. meta <= meta'
    <3>1. meta' = Top(n, b) BY <2>2 DEF step
    <3> QED BY <2>4, <3>1, TopOk
  <2>6. meta' - meta \in Nat /\ meta' = meta + (meta' - meta)
    <3>1. \A x, y \in Nat : x <= y => y - x \in Nat /\ y = x + (y - x) OBVIOUS
    <3> QED BY <2>4, <2>5, <3>1
  <2> QED BY <2>3, <2>6
<1>2. OneType' BY <1>0 DEF OneTypeInv, OneType
<1>3. /\ \A c \in 1 .. meta : cols'[c] = cols[c]
      /\ \A c \in meta + 1 .. meta + k : cols'[c] = EmptyCol
  <2> DEFINE e == [c \in 1 .. k |-> EmptyCol]
             S == {cols[c] : c \in 1 .. meta} \cup {EmptyCol}
  <2>1. meta \in Nat /\ IsSeq(cols, meta) BY DEF TInv, Types
  <2>2. cols \in Seq({cols[c] : c \in 1 .. meta}) /\ Len(cols) = meta BY <2>1, SeqLen
  <2>3. cols \in Seq(S)
    <3>1. {cols[c] : c \in 1 .. meta} \subseteq S OBVIOUS
    <3> QED BY <2>2, <3>1
  <2>4. e \in Seq(S) /\ Len(e) = k /\ \A c \in 1 .. k : e[c] = EmptyCol
    <3>1. e \in [1 .. k -> S] OBVIOUS
    <3> HIDE DEF S
    <3> QED BY <3>1
  <2> HIDE DEF e, S
  <2>5. /\ \A c \in 1 .. meta : (cols \o e)[c] = cols[c]
        /\ \A c \in 1 .. k : (cols \o e)[meta + c] = e[c]
    BY <2>1, <2>2, <2>3, <2>4, SMTT(40)
  <2>6. \A c \in meta + 1 .. meta + k : c - meta \in 1 .. k /\ c = meta + (c - meta) BY <2>1
  <2>7. cols' = cols \o e BY <1>1 DEF e
  <2> QED BY <2>4, <2>5, <2>6, <2>7
<1>4. Plain'
  <2>1. EmptyCol \in [buf : Seq(Record), pre : {NoRec}]
    <3>1. <<>> \in Seq(Record) OBVIOUS
    <3> QED BY <3>1 DEF EmptyCol
  <2>2. \A c \in 1 .. meta + k : c \in 1 .. meta \/ c \in meta + 1 .. meta + k
    BY SMTT(40) DEF TInv, Types
  <2>3. \A c \in 1 .. meta + k : cols'[c] \in [buf : Seq(Record), pre : {NoRec}]
    BY <1>3, <2>1, <2>2 DEF OneTypeInv, Plain
  <2>4. Record' = Record BY <1>0 DEF Record
  <2> QED BY <1>0, <1>1, <2>3, <2>4 DEF OneTypeInv, Plain
<1>5. Flushed'
  <2>1. ASSUME fpc = "encode" PROVE flushTouched \subseteq 1 .. meta' /\ Buffered' = Buffered
    <3>1. flushTouched \subseteq 1 .. meta BY <2>1 DEF OneTypeInv, Flushed
    <3>2. \A c \in flushTouched : cols'[c] = cols[c] BY <1>3, <3>1
    <3>3. 1 .. meta \subseteq 1 .. meta + k BY DEF TInv, Types
    <3>4. Buffered' = UNION {Ids(cols'[c].buf) : c \in flushTouched} BY <1>0 DEF Buffered, Ids
    <3> QED BY <1>1, <3>1, <3>2, <3>3, <3>4 DEF Buffered
  <2>2. \A S : Covered(S) => \A i \in 1 .. fcount' : Ids(files'[i].recs) \subseteq S
    BY <1>0, CoveredKept
  <2>3. fpc = "encode" => Covered(Ids(stream) \cup Buffered)'
    <3> SUFFICES ASSUME fpc = "encode" PROVE Covered(Ids(stream) \cup Buffered)' OBVIOUS
    <3>1. Covered(Ids(stream) \cup Buffered) BY DEF OneTypeInv, Flushed
    <3> QED BY <1>0, <2>1, <2>2, <3>1 DEF Covered
  <2>4. fpc = "commit" => Covered(Ids(tx))' BY <1>0, <2>2 DEF OneTypeInv, Flushed, Covered
  <2>5. fpc = "remove" => Covered(Ids(segs))' BY <1>0, <2>2 DEF OneTypeInv, Flushed, Covered
  <2> QED BY <1>0, <2>1, <2>3, <2>4, <2>5 DEF OneTypeInv, Flushed
<1>6. (acked \subseteq WalIds \cup Ids(segs))' BY <1>0 DEF OneTypeInv, WalIds
<1> QED BY <1>2, <1>4, <1>5, <1>6, SMTT(40) DEF OneTypeInv

\* The batch goes to the last file, which no flush removes.
LEMMA WriteRunsKept ==
  ASSUME TInv, OneTypeInv, WriteRuns
  PROVE  OneTypeInv'
<1> DEFINE w == Written(batch)
           torn == [files EXCEPT ![Len(files)] = w.file]
<1>0. /\ pc \in {"wal", "retry"} /\ files' = rotateIfFull(torn)
      /\ acked' = acked \cup (Ids(batch) \cap Ids(w.file.recs))
      /\ UNCHANGED <<conf, meta, segs, fpc, fcount, stream, flushTouched, tx, cols>>
  BY DEF WriteRuns, flusher
<1>a. LogOk(files, metaDisk) /\ metaDisk \in Nat /\ meta \in Nat BY DEF TInv, Types, Codes, LogOk
<1>l. Len(files) \in Nat \ {0} /\ DOMAIN files = 1 .. Len(files) BY <1>a DEF LogOk
<1>z. Last(files) = files[Len(files)] BY DEF Last
<1>b. Upto(Last(files).recs, metaDisk)
  <2>1. Len(files) \in DOMAIN files BY <1>l
  <2> QED BY <1>a, <1>z, <2>1 DEF LogOk
<1>c. /\ w.file \in LogFile /\ Upto(w.file.recs, metaDisk)
      /\ Ids(Last(files).recs) \subseteq Ids(w.file.recs)
  <2>1. batch \in Seq(Record) /\ files \in Seq(LogFile) /\ files # <<>> /\ IsSeq(tagState, meta)
    BY DEF TInv, Types, Numbered
  <2>2. Upto(batch, metaDisk) BY <1>0 DEF TInv, Codes
  <2> QED BY <1>a, <1>b, <2>1, <2>2, WrittenOk
<1> HIDE DEF w
<1>d. /\ LogOk(torn, metaDisk) /\ Len(torn) = Len(files) /\ torn[Len(files)] = w.file
      /\ \A i \in 1 .. Len(files) - 1 : torn[i] = files[i]
  BY <1>a, <1>c, LastReplaced
<1> HIDE DEF torn
<1>e. /\ LogOk(files', metaDisk) /\ Len(files) <= Len(files')
      /\ \A i \in 1 .. Len(files) : files'[i] = torn[i]
  BY <1>0, <1>a, <1>d, RotateOk
<1>f. \A i \in 1 .. Len(files) : i \in DOMAIN files'
  <2>1. Len(files') \in Nat /\ DOMAIN files' = 1 .. Len(files') BY <1>e DEF LogOk
  <2> QED BY <1>e, <1>l, <2>1
<1>g. WalIds \cup Ids(w.file.recs) \subseteq WalIds'
  <2>1. ASSUME NEW i \in 1 .. Len(files) PROVE Ids(files[i].recs) \subseteq Ids(files'[i].recs)
    <3>1. CASE i = Len(files) BY <1>c, <1>d, <1>e, <1>z, <3>1
    <3>2. CASE i # Len(files)
      <4>0. PICK n \in Nat : n = Len(files) BY <1>l
      <4>1. i \in 1 .. Len(files) - 1 BY <3>2, <4>0
      <4> QED BY <1>d, <1>e, <4>1, SMTT(40)
    <3> QED BY <3>1, <3>2
  <2>2. Len(files) \in 1 .. Len(files) BY <1>l
  <2>3. Ids(w.file.recs) \subseteq WalIds' BY <1>d, <1>e, <1>f, <2>2 DEF WalIds
  <2>4. WalIds \subseteq WalIds' BY <1>f, <1>l, <2>1 DEF WalIds
  <2> QED BY <2>3, <2>4
<1>1. OneType' BY <1>0 DEF OneTypeInv, OneType
<1>2. Plain' BY <1>0 DEF OneTypeInv, Plain, Record
<1>3. Flushed'
  <2>1. Buffered' = Buffered BY <1>0 DEF Buffered
  <2>2. ASSUME NEW S, Covered(S), fpc \in {"encode", "commit", "remove"}
        PROVE  \A i \in 1 .. fcount' : Ids(files'[i].recs) \subseteq S
    <3>1. fcount < Len(files) /\ fcount \in Nat BY <2>2 DEF TInv, Locks, Types
    <3>2. \A i \in 1 .. fcount : i \in 1 .. Len(files) - 1 /\ i \in 1 .. Len(files)
      BY <1>l, <3>1
    <3>3. \A i \in 1 .. fcount : files'[i] = files[i] BY <1>d, <1>e, <3>2
    <3> QED BY <1>0, <2>2, <3>3, CoveredKept
  <2>3. CASE fpc \in {"encode", "commit", "remove"}
    BY <1>0, <2>1, <2>2, <2>3 DEF OneTypeInv, Flushed, Covered
  <2>4. CASE fpc \notin {"encode", "commit", "remove"} BY <1>0, <2>4 DEF Flushed
  <2> QED BY <2>3, <2>4
<1>4. (acked \subseteq WalIds \cup Ids(segs))' BY <1>0, <1>g DEF OneTypeInv
<1> QED BY <1>1, <1>2, <1>3, <1>4 DEF OneTypeInv

\* All records of the complete files are to be encoded, in file order or sorted.
LEMMA FlushStartKept ==
  ASSUME TInv, OneTypeInv, FlushStart
  PROVE  OneTypeInv'
<1> DEFINE n == Len(files) - 1
           parts == [i \in 1 .. n |-> files[i].recs]
           recs == FlattenSeq(parts)
<1>0. /\ fcount' = n /\ stream' \in {sortEntries(recs), recs}
      /\ flushTouched' = {} /\ tx' = <<>> /\ fpc' = "encode"
      /\ UNCHANGED <<conf, meta, files, segs, cols, acked>>
  BY DEF FlushStart, walVars
<1>a. n \in Nat /\ \A i \in 1 .. n : files[i].recs \in Seq(Record)
  <2>1. Len(files) \in Nat \ {0} /\ files \in Seq(LogFile) BY DEF TInv, Types
  <2>2. n \in Nat /\ \A i \in 1 .. n : i \in 1 .. Len(files) BY <2>1
  <2>3. \A i \in 1 .. n : files[i] \in LogFile BY <2>1, <2>2
  <2> QED BY <2>2, <2>3 DEF LogFile
<1> HIDE DEF n
<1>b. /\ recs \in Seq(Record)
      /\ \A i \in 1 .. n : Ids(files[i].recs) \subseteq Ids(recs)
  <2>1. IsSeq(parts, n) BY DEF IsSeq
  <2>2. \A i \in 1 .. n : parts[i] = files[i].recs OBVIOUS
  <2> HIDE DEF parts
  <2>3. \A i \in 1 .. n : parts[i] \in Seq(Record) BY <1>a, <2>2
  <2>4. /\ FlattenSeq(parts) \in Seq(Record)
        /\ \A i \in 1 .. n : Ids(parts[i]) \subseteq Ids(FlattenSeq(parts))
    BY <1>a, <2>1, <2>3, FlattenIds
  <2> QED BY <2>2, <2>4
<1> HIDE DEF recs
<1>c. stream' \in Seq(Record) /\ Ids(recs) \subseteq Ids(stream') BY <1>0, <1>b, SortIds
<1>1. OneType' BY <1>0 DEF OneTypeInv, OneType
<1>2. Plain'
  <2>1. Record' = Record BY <1>0 DEF Record
  <2>2. tx' \in Seq(Record) BY <1>0
  <2> QED BY <1>0, <1>c, <2>1, <2>2 DEF OneTypeInv, Plain
<1>3. Flushed'
  <2>1. \A i \in 1 .. fcount' : Ids(files'[i].recs) \subseteq Ids(stream') BY <1>0, <1>b, <1>c
  <2>2. Covered(Ids(stream) \cup Buffered)' BY <2>1 DEF Covered
  <2> QED BY <1>0, <2>2 DEF Flushed
<1>4. (acked \subseteq WalIds \cup Ids(segs))' BY <1>0 DEF OneTypeInv, WalIds
<1> QED BY <1>1, <1>2, <1>3, <1>4 DEF OneTypeInv

\* With one type of value the column takes every pair.
LEMMA ColumnTakes ==
  ASSUME OneType, conf \in Configs, NEW col \in [buf : Seq(Record), pre : {NoRec}], NEW r \in Record
  PROVE  columnWrite(col, r) = [col |-> [buf |-> Append(col.buf, r), pre |-> NoRec], ok |-> TRUE]
<1>1. PICK v : conf.vals = {v} BY FS_Singleton DEF OneType
<1>2. \A q \in Record : q.v = v BY <1>1 DEF Record
<1>3. accepts(col.buf, r)
  <2>1. col.buf \in Seq(Record) OBVIOUS
  <2>2. CASE col.buf # <<>>
    <3>1. col.buf[1] \in Record BY <2>1, <2>2
    <3> QED BY <1>2, <3>1 DEF accepts
  <2> QED BY <2>2 DEF accepts
<1>4. col.pre = NoRec OBVIOUS
<1> QED BY <1>3, <1>4 DEF columnWrite

\* With one type of value the head of the stream goes into its column's buffer.
LEMMA EncodeTakes ==
  ASSUME TInv, OneType, Plain, Encode
  PROVE  LET r == Head(stream)
             col == cols[r.code]
         IN /\ stream # <<>> /\ r \in Record /\ r.code \in 1 .. meta
            /\ meta \in Nat /\ DOMAIN cols = 1 .. meta
            /\ col \in [buf : Seq(Record), pre : {NoRec}]
            /\ fpc = "encode" /\ stream' = Tail(stream)
            /\ flushTouched' = flushTouched \cup {r.code}
            /\ cols' = [cols EXCEPT ![r.code] = [buf |-> Append(col.buf, r), pre |-> NoRec]]
            /\ tx' = tx
            /\ UNCHANGED <<conf, meta, files, segs, fpc, fcount, acked>>
<1> DEFINE r == Head(stream)
           col == cols[r.code]
           new == [buf |-> Append(col.buf, r), pre |-> NoRec]
<1>a. stream \in Seq(Record) /\ stream # <<>> BY DEF Plain, Encode
<1>b. r \in Record BY <1>a
<1>c. r.code \in 1 .. meta /\ meta \in Nat /\ DOMAIN cols = 1 .. meta
  <2>1. meta \in Nat /\ Len(cols) = meta /\ DOMAIN cols = 1 .. meta BY SeqLen DEF TInv, Types
  <2>2. r.code <= Len(cols) BY DEF Encode
  <2>3. r.code \in Nat \ {0} BY <1>b DEF Record
  <2> QED BY <2>1, <2>2, <2>3
<1>d. col \in [buf : Seq(Record), pre : {NoRec}] BY <1>c DEF Plain
<1>e. columnWrite(col, r) = [col |-> new, ok |-> TRUE]
  <2>1. OneType /\ conf \in Configs BY DEF TInv, Types
  <2> HIDE DEF col, r
  <2> QED BY <1>b, <1>d, <2>1, ColumnTakes
<1>0. /\ fpc = "encode" /\ stream' = Tail(stream) /\ flushTouched' = flushTouched \cup {r.code}
      /\ cols' = [cols EXCEPT ![r.code] = new] /\ tx' = tx
      /\ UNCHANGED <<conf, meta, files, segs, fpc, fcount, acked>>
  <2> DEFINE w == columnWrite(col, r)
  <2>1. /\ fpc = "encode" /\ stream' = Tail(stream) /\ flushTouched' = flushTouched \cup {r.code}
        /\ cols' = [cols EXCEPT ![r.code] = IF w.ok THEN w.col ELSE glowWrite(w.col)]
        /\ tx' = IF w.ok THEN tx ELSE tx \o w.col.buf
        /\ UNCHANGED <<conf, meta, files, segs, fpc, fcount, acked>>
    BY DEF Encode, walVars
  <2> HIDE DEF new, r, col
  <2>2. w.ok = TRUE /\ w.col = new BY <1>e
  <2> HIDE DEF w
  <2> QED BY <2>1, <2>2
<1> HIDE DEF new, r, col
<1>f. /\ stream # <<>> /\ r \in Record /\ r.code \in 1 .. meta
      /\ meta \in Nat /\ DOMAIN cols = 1 .. meta
      /\ col \in [buf : Seq(Record), pre : {NoRec}]
  BY <1>a, <1>b, <1>c, <1>d, SMTT(40)
<1> QED BY <1>0, <1>f, SMTT(40) DEF new, r, col

\* A record goes from the stream into its column's buffer.
LEMMA EncodeKept ==
  ASSUME TInv, OneTypeInv, Encode
  PROVE  OneTypeInv'
<1> DEFINE r == Head(stream)
           col == cols[r.code]
           new == [buf |-> Append(col.buf, r), pre |-> NoRec]
<1>a. stream \in Seq(Record) /\ stream # <<>> BY DEF OneTypeInv, Plain, Encode
<1>b. r \in Record /\ Tail(stream) \in Seq(Record) /\ Ids(stream) = Ids(Tail(stream)) \cup {r.id}
  <2>1. r \in Record /\ Tail(stream) \in Seq(Record) /\ r = stream[1] BY <1>a
  <2>2. /\ Len(stream) \in Nat \ {0} /\ DOMAIN stream = 1 .. Len(stream)
        /\ DOMAIN Tail(stream) = 1 .. Len(stream) - 1
        /\ \A k \in 1 .. Len(stream) - 1 : Tail(stream)[k] = stream[k + 1]
    BY <1>a
  <2> DEFINE s == Tail(stream)
  <2> HIDE DEF s, r
  <2>3. \A k \in 1 .. Len(stream) : k = 1 \/ (k - 1 \in 1 .. Len(stream) - 1 /\ k = (k - 1) + 1)
    BY <2>2
  <2>4. \A k \in 1 .. Len(stream) : k = 1 \/ stream[k] = s[k - 1] BY <2>2, <2>3 DEF s
  <2>5. 1 \in 1 .. Len(stream) /\ \A k \in 1 .. Len(stream) - 1 : k + 1 \in 1 .. Len(stream)
    BY <2>2
  <2>6. Ids(stream) \subseteq Ids(s) \cup {r.id}
    <3>1. ASSUME NEW k \in 1 .. Len(stream) PROVE stream[k].id \in Ids(s) \cup {r.id}
      <4>1. CASE k = 1 BY <2>1, <4>1
      <4>2. CASE k # 1
        <5>1. stream[k] = s[k - 1] /\ k - 1 \in DOMAIN s BY <2>2, <2>3, <2>4, <4>2 DEF s
        <5> QED BY <5>1 DEF Ids
      <4> QED BY <4>1, <4>2
    <3> QED BY <2>2, <3>1 DEF Ids
  <2>7. Ids(s) \cup {r.id} \subseteq Ids(stream) BY <2>1, <2>2, <2>5, SMTT(40) DEF Ids, s
  <2> QED BY <2>1, <2>6, <2>7 DEF s
<1>e. OneType /\ Plain BY DEF OneTypeInv
<1>c. r.code \in 1 .. meta /\ meta \in Nat /\ DOMAIN cols = 1 .. meta BY <1>e, EncodeTakes
<1>d. col \in [buf : Seq(Record), pre : {NoRec}] BY <1>e, EncodeTakes
<1>0. /\ fpc = "encode" /\ stream' = Tail(stream) /\ flushTouched' = flushTouched \cup {r.code}
      /\ cols' = [cols EXCEPT ![r.code] = new] /\ tx' = tx
      /\ UNCHANGED <<conf, meta, files, segs, fpc, fcount, acked>>
  BY <1>e, EncodeTakes
<1>f. new \in [buf : Seq(Record), pre : {NoRec}] /\ Ids(col.buf) \cup {r.id} \subseteq Ids(new.buf)
  <2>1. col.buf \in Seq(Record) BY <1>d
  <2>2. PICK q \in Seq(Record) : q = col.buf BY <2>1
  <2> DEFINE s == Append(q, r)
  <2>3. new.buf = s BY <2>2
  <2> HIDE DEF col, r
  <2>4. /\ s \in Seq(Record) /\ DOMAIN s = 1 .. Len(q) + 1 /\ s[Len(q) + 1] = r
        /\ \A k \in 1 .. Len(q) : s[k] = q[k]
    BY <1>b
  <2> HIDE DEF s
  <2>5. DOMAIN q = 1 .. Len(q) /\ Len(q) + 1 \in 1 .. Len(q) + 1
        /\ \A k \in 1 .. Len(q) : k \in 1 .. Len(q) + 1
    OBVIOUS
  <2>6. Ids(q) \cup {r.id} \subseteq Ids(s) BY <2>4, <2>5 DEF Ids
  <2> QED BY <2>2, <2>3, <2>4, <2>6
<1>g. \A c \in 1 .. meta : cols'[c] = IF c = r.code THEN new ELSE cols[c] BY <1>0, <1>c
<1> HIDE DEF new, r, col
<1>1. OneType' BY <1>0 DEF OneTypeInv, OneType
<1>2. Plain'
  <2>1. Record' = Record BY <1>0 DEF Record
  <2>2. \A c \in 1 .. meta : cols'[c] \in [buf : Seq(Record), pre : {NoRec}]
    BY <1>f, <1>g DEF OneTypeInv, Plain
  <2> QED BY <1>0, <1>b, <2>1, <2>2 DEF OneTypeInv, Plain
<1>3. Flushed'
  <2>1. tx = <<>> /\ flushTouched \subseteq 1 .. meta /\ Covered(Ids(stream) \cup Buffered)
    BY <1>0 DEF OneTypeInv, Flushed
  <2>2. Ids(stream) \cup Buffered \subseteq Ids(stream') \cup Buffered'
    <3>1. ASSUME NEW c \in flushTouched PROVE Ids(cols[c].buf) \subseteq Buffered'
      <4>1. Ids(cols[c].buf) \subseteq Ids(cols'[c].buf) BY <1>f, <1>g, <2>1 DEF col
      <4> QED BY <1>0, <4>1 DEF Buffered
    <3>2. Ids(new.buf) \subseteq Buffered'
      <4>1. cols'[r.code] = new BY <1>c, <1>g
      <4> QED BY <1>0, <4>1 DEF Buffered
    <3>3. Buffered \subseteq Buffered' BY <3>1 DEF Buffered
    <3> QED BY <1>0, <1>b, <1>f, <3>2, <3>3
  <2>3. \A i \in 1 .. fcount' : Ids(files'[i].recs) \subseteq Ids(stream') \cup Buffered'
    BY <1>0, <2>1, <2>2, CoveredKept
  <2>4. Covered(Ids(stream) \cup Buffered)' BY <2>3 DEF Covered
  <2> QED BY <1>0, <1>c, <2>1, <2>4 DEF Flushed
<1>4. (acked \subseteq WalIds \cup Ids(segs))' BY <1>0 DEF OneTypeInv, WalIds
<1> QED BY <1>1, <1>2, <1>3, <1>4 DEF OneTypeInv

\* The buffers of the touched columns go into the transaction.
LEMMA EncodeRestKept ==
  ASSUME TInv, OneTypeInv, EncodeRest
  PROVE  OneTypeInv'
<1> DEFINE n == Cardinality(flushTouched)
           order == SetToSeq(flushTouched)
           parts == [i \in 1 .. n |-> cols[order[i]].buf]
<1>0. /\ fpc = "encode" /\ stream = <<>>
      /\ tx' = tx \o FlattenSeq(parts)
      /\ cols' = [c \in DOMAIN cols |-> IF c \in flushTouched THEN glowWrite(cols[c]) ELSE cols[c]]
      /\ fpc' = IF flushTouched = {} THEN "remove" ELSE "commit"
      /\ UNCHANGED <<conf, meta, files, segs, fcount, stream, acked>>
  BY DEF EncodeRest, walVars
<1>a. tx = <<>> /\ flushTouched \subseteq 1 .. meta /\ Covered(Ids(stream) \cup Buffered)
  BY <1>0 DEF OneTypeInv, Flushed
<1>b. /\ n \in Nat /\ order \in [1 .. n -> flushTouched]
      /\ \A c \in flushTouched : \E i \in 1 .. n : order[i] = c
  <2>1. IsFiniteSet(1 .. meta) BY FS_Interval DEF TInv, Types
  <2>2. IsFiniteSet(flushTouched) BY <1>a, <2>1, FS_Subset
  <2> QED BY <2>2, SetToSeqOnto
<1> HIDE DEF n, order
<1>c. \A c \in 1 .. meta : cols[c] \in [buf : Seq(Record), pre : {NoRec}] BY DEF OneTypeInv, Plain
<1>d. /\ FlattenSeq(parts) \in Seq(Record)
      /\ \A c \in flushTouched : Ids(cols[c].buf) \subseteq Ids(FlattenSeq(parts))
  <2>1. IsSeq(parts, n) BY DEF IsSeq
  <2>2. \A i \in 1 .. n : parts[i] = cols[order[i]].buf OBVIOUS
  <2>3. \A i \in 1 .. n : order[i] \in 1 .. meta BY <1>a, <1>b
  <2> HIDE DEF parts
  <2>4. \A i \in 1 .. n : parts[i] \in Seq(Record) BY <1>c, <2>2, <2>3
  <2>5. /\ FlattenSeq(parts) \in Seq(Record)
        /\ \A i \in 1 .. n : Ids(parts[i]) \subseteq Ids(FlattenSeq(parts))
    BY <1>b, <2>1, <2>4, FlattenIds
  <2> QED BY <1>b, <2>2, <2>5
<1> HIDE DEF parts
<1>e. tx' \in Seq(Record) /\ Ids(FlattenSeq(parts)) \subseteq Ids(tx')
  <2>1. tx \in Seq(Record) BY <1>a
  <2> QED BY <1>0, <1>d, <2>1, ConcatIds
<1>1. OneType' BY <1>0 DEF OneTypeInv, OneType
<1>2. Plain'
  <2>1. Record' = Record BY <1>0 DEF Record
  <2>2. DOMAIN cols = 1 .. meta BY DEF TInv, Types, IsSeq
  <2>3. \A c \in 1 .. meta : cols'[c] \in [buf : Seq(Record), pre : {NoRec}]
    <3>1. <<>> \in Seq(Record) OBVIOUS
    <3>2. \A col \in [buf : Seq(Record), pre : {NoRec}] :
            glowWrite(col) \in [buf : Seq(Record), pre : {NoRec}]
      BY <3>1 DEF glowWrite
    <3>3. \A c \in 1 .. meta : cols'[c] \in {glowWrite(cols[c]), cols[c]} BY <1>0, <2>2
    <3> QED BY <1>c, <3>2, <3>3
  <2> QED BY <1>0, <1>e, <2>1, <2>3 DEF OneTypeInv, Plain
<1>3. Flushed'
  <2>1. Ids(stream) = {} BY <1>0 DEF Ids
  <2>2. Ids(stream) \cup Buffered \subseteq Ids(tx') BY <1>d, <1>e, <2>1 DEF Buffered
  <2>3. CASE flushTouched # {}
    <3>1. \A i \in 1 .. fcount' : Ids(files'[i].recs) \subseteq Ids(tx')
      BY <1>0, <1>a, <2>2, CoveredKept
    <3>2. Covered(Ids(tx))' BY <3>1 DEF Covered
    <3> QED BY <1>0, <2>3, <3>2 DEF Flushed
  <2>4. CASE flushTouched = {}
    <3>1. Ids(stream) \cup Buffered \subseteq Ids(segs') BY <2>1, <2>4 DEF Buffered
    <3>2. \A i \in 1 .. fcount' : Ids(files'[i].recs) \subseteq Ids(segs')
      BY <1>0, <1>a, <3>1, CoveredKept
    <3>3. Covered(Ids(segs))' BY <3>2 DEF Covered
    <3> QED BY <1>0, <2>4, <3>3 DEF Flushed
  <2> QED BY <2>3, <2>4
<1>4. (acked \subseteq WalIds \cup Ids(segs))' BY <1>0 DEF OneTypeInv, WalIds
<1> QED BY <1>1, <1>2, <1>3, <1>4 DEF OneTypeInv

\* The transaction's records are in the segments.
LEMMA CommitTransactionKept ==
  ASSUME TInv, OneTypeInv, CommitTransaction
  PROVE  OneTypeInv'
<1>0. /\ fpc = "commit" /\ fpc' = "remove" /\ segs' = segs \o tx /\ tx' = <<>>
      /\ UNCHANGED <<conf, meta, files, fcount, stream, flushTouched, cols, acked>>
  BY DEF CommitTransaction, walVars
<1>a. segs' \in Seq(Record) /\ Ids(segs') = Ids(segs) \cup Ids(tx)
  BY <1>0, ConcatIds DEF OneTypeInv, Plain
<1>1. OneType' BY <1>0 DEF OneTypeInv, OneType
<1>2. Plain'
  <2>1. Record' = Record /\ <<>> \in Seq(Record) BY <1>0 DEF Record
  <2> QED BY <1>0, <1>a, <2>1 DEF OneTypeInv, Plain
<1>3. Flushed'
  <2>1. Covered(Ids(tx)) /\ Ids(tx) \subseteq Ids(segs') BY <1>0, <1>a DEF OneTypeInv, Flushed
  <2>2. \A i \in 1 .. fcount' : Ids(files'[i].recs) \subseteq Ids(segs')
    BY <1>0, <2>1, CoveredKept
  <2>3. Covered(Ids(segs))' BY <2>2 DEF Covered
  <2> QED BY <1>0, <2>3 DEF Flushed
<1>4. (acked \subseteq WalIds \cup Ids(segs))' BY <1>0, <1>a DEF OneTypeInv, WalIds
<1> QED BY <1>1, <1>2, <1>3, <1>4 DEF OneTypeInv

\* The removed files are covered by the segments.
LEMMA TruncatedKept ==
  ASSUME TInv, OneTypeInv, Truncated
  PROVE  OneTypeInv'
<1>0. /\ fpc = "remove" /\ files' = truncate(files, fcount) /\ fpc' \in {"start", "off"}
      /\ UNCHANGED <<conf, meta, segs, stream, tx, cols, acked>>
  BY DEF Truncated
<1>a. /\ Len(files') = Len(files) - fcount /\ files' \in Seq(LogFile)
      /\ \A i \in 1 .. Len(files) - fcount : files'[i] = files[fcount + i]
  <2>1. LogOk(files, metaDisk) /\ metaDisk \in Nat /\ fcount \in Nat /\ Len(files) \in Nat
    BY DEF TInv, Types, Codes, LogOk
  <2>2. fcount < Len(files) BY <1>0 DEF TInv, Locks
  <2>3. fcount \in 0 .. Len(files) - 1 /\ ~(fcount >= Len(files)) BY <2>1, <2>2
  <2>4. files' = SubSeq(files, fcount + 1, Len(files)) BY <1>0, <2>3 DEF truncate
  <2> QED BY <2>1, <2>3, <2>4, SuffixOk, SMTT(40) DEF LogOk
<1>b. Covered(Ids(segs)) BY <1>0 DEF OneTypeInv, Flushed
<1>c. WalIds \subseteq WalIds' \cup Ids(segs)
  <2>1. fcount \in Nat /\ Len(files) \in Nat /\ DOMAIN files = 1 .. Len(files)
        /\ DOMAIN files' = 1 .. Len(files) - fcount
    BY <1>a DEF TInv, Types
  <2>2. ASSUME NEW i \in DOMAIN files PROVE Ids(files[i].recs) \subseteq WalIds' \cup Ids(segs)
    <3>1. CASE i <= fcount
      <4>1. i \in 1 .. fcount BY <2>1, <3>1
      <4> QED BY <1>b, <4>1 DEF Covered
    <3>2. CASE i > fcount
      <4>1. i - fcount \in 1 .. Len(files) - fcount /\ fcount + (i - fcount) = i BY <2>1, <3>2
      <4>2. files'[i - fcount] = files[i] BY <1>a, <4>1
      <4> QED BY <2>1, <4>1, <4>2 DEF WalIds
    <3> QED BY <2>1, <3>1, <3>2
  <2> QED BY <2>2 DEF WalIds
<1>1. OneType' BY <1>0 DEF OneTypeInv, OneType
<1>2. Plain' BY <1>0 DEF OneTypeInv, Plain, Record
<1>3. Flushed' BY <1>0 DEF Flushed
<1>4. (acked \subseteq WalIds \cup Ids(segs))' BY <1>0, <1>c DEF OneTypeInv
<1> QED BY <1>1, <1>2, <1>3, <1>4 DEF OneTypeInv

\* A flush that fails leaves its files where they were.
LEMMA FlushFailKept ==
  ASSUME TInv, OneTypeInv, FlushFail
  PROVE  OneTypeInv'
<1>0. /\ cols' = [c \in DOMAIN cols |->
                    IF c \in flushTouched THEN columnReset(cols[c]) ELSE cols[c]]
      /\ fpc' = "off" /\ tx' = <<>> /\ stream' = <<>>
      /\ UNCHANGED <<conf, meta, files, segs, acked>>
  BY DEF FlushFail, walVars
<1>1. OneType' BY <1>0 DEF OneTypeInv, OneType
<1>2. Plain'
  <2>1. Record' = Record /\ <<>> \in Seq(Record) BY <1>0 DEF Record
  <2>2. DOMAIN cols = 1 .. meta BY DEF TInv, Types, IsSeq
  <2>3. ASSUME NEW c \in 1 .. meta PROVE cols'[c] \in [buf : Seq(Record), pre : {NoRec}]
    <3>1. cols[c] \in [buf : Seq(Record), pre : {NoRec}] BY DEF OneTypeInv, Plain
    <3>2. cols'[c] = cols[c] \/ cols'[c] = columnReset(cols[c]) BY <1>0, <2>2
    <3>3. columnReset(cols[c]) \in [buf : Seq(Record), pre : {NoRec}]
      BY <2>1, <3>1 DEF columnReset, EmptyCol
    <3> QED BY <3>1, <3>2, <3>3
  <2> QED BY <1>0, <2>1, <2>3 DEF OneTypeInv, Plain
<1>3. Flushed' BY <1>0 DEF Flushed
<1>4. (acked \subseteq WalIds \cup Ids(segs))' BY <1>0 DEF OneTypeInv, WalIds
<1> QED BY <1>1, <1>2, <1>3, <1>4 DEF OneTypeInv

\* A crash loses no file a flush has not removed, and the removed ones are covered.
LEMMA CrashKept ==
  ASSUME TInv, OneTypeInv, Crash
  PROVE  OneTypeInv'
<1>1. PICK m \in readEntries, k \in getAllData,
           g \in 0 .. (IF fpc = "remove" THEN fcount ELSE 0), found \in SUBSET (1 .. meta) :
        CrashTo(m, k, g, found)
  BY CrashParts
<1>2. /\ meta' = m /\ files' = NewWalFile(Left(k, g), 1 .. meta).files
      /\ cols' = [c \in 1 .. m |-> EmptyCol]
  BY <1>1 DEF CrashTo
<1>3. fpc' = "off" /\ stream' = <<>> /\ tx' = <<>> /\ UNCHANGED <<conf, acked>>
  BY CrashResets
<1>4. PICK j \in 0 .. (IF Holding THEN Len(tx) ELSE 0) : segs' = segs \o SubSeq(tx, 1, j)
  BY CrashSegs
<1>a. segs' \in Seq(Record) /\ Ids(segs) \subseteq Ids(segs')
  <2>1. tx \in Seq(Record) /\ segs \in Seq(Record) BY DEF OneTypeInv, Plain
  <2>2. j \in 0 .. Len(tx) BY <1>4, <2>1
  <2>3. SubSeq(tx, 1, j) \in Seq(Record) BY <2>1, <2>2
  <2> QED BY <1>4, <2>1, <2>3, ConcatIds
<1>l. /\ LogOk(files', metaDisk) /\ g \in 0 .. Len(files) - 1 /\ Len(files') = Len(files) - g
      /\ \A i \in 1 .. Len(files) - g : Ids(files[g + i].recs) \subseteq Ids(files'[i].recs)
  BY <1>2, CrashLog
<1>b. WalIds \subseteq WalIds' \cup Ids(segs)
  <2>1. fcount \in Nat /\ Len(files) \in Nat /\ DOMAIN files = 1 .. Len(files)
    BY DEF TInv, Types
  <2>2. DOMAIN files' = 1 .. Len(files) - g BY <1>l DEF LogOk
  <2>3. ASSUME NEW i \in DOMAIN files PROVE Ids(files[i].recs) \subseteq WalIds' \cup Ids(segs)
    <3>1. CASE i <= g
      <4>1. fpc = "remove" /\ i \in 1 .. fcount BY <1>l, <2>1, <3>1
      <4>2. Covered(Ids(segs)) BY <4>1 DEF OneTypeInv, Flushed
      <4> QED BY <4>1, <4>2 DEF Covered
    <3>2. CASE i > g
      <4>1. i - g \in 1 .. Len(files) - g /\ g + (i - g) = i BY <1>l, <2>1, <3>2, SMTT(40)
      <4>2. Ids(files[i].recs) \subseteq Ids(files'[i - g].recs) BY <1>l, <4>1
      <4> QED BY <2>2, <4>1, <4>2 DEF WalIds
    <3> QED BY <1>l, <2>1, <3>1, <3>2, SMTT(40)
  <2> QED BY <2>3 DEF WalIds
<1>5. OneType' BY <1>3 DEF OneTypeInv, OneType
<1>6. Plain'
  <2>1. Record' = Record /\ <<>> \in Seq(Record) BY <1>3 DEF Record
  <2>2. \A c \in 1 .. m : cols'[c] \in [buf : Seq(Record), pre : {NoRec}]
    BY <1>2, <2>1 DEF EmptyCol
  <2> QED BY <1>2, <1>3, <1>a, <2>1, <2>2 DEF Plain
<1>7. Flushed' BY <1>3 DEF Flushed
<1>8. (acked \subseteq WalIds \cup Ids(segs))' BY <1>3, <1>a, <1>b DEF OneTypeInv
<1> QED BY <1>5, <1>6, <1>7, <1>8 DEF OneTypeInv

\* The configuration is fixed.
LEMMA ConfKept == [Next]_vars => conf' = conf
<1> SUFFICES ASSUME [Next]_vars PROVE conf' = conf OBVIOUS
<1>1. CASE UNCHANGED vars BY <1>1 DEF vars
<1>2. CASE Prepare BY <1>2 DEF Prepare
<1>3. CASE Worker
  BY <1>3, SMTT(40) DEF Worker, MetaFlush, WriteRuns, WalFull, LockFlush, NoFlush, StartFlush
<1>4. CASE Flush
  BY <1>4, ZenonT(60) DEF Flush, FlushStart, Encode, EncodeRest, CommitTransaction, Truncated, FlushFail
<1>5. CASE OpenIter \/ CloseIter BY <1>5 DEF OpenIter, CloseIter
<1>6. CASE Crash BY <1>6, CrashResets
<1> QED BY <1>1, <1>2, <1>3, <1>4, <1>5, <1>6 DEF Next

\* Every step keeps it: what the worker writes is in the log, what a flush removes from
\* the log is in the segments.
LEMMA NextKept == TInv /\ TInv' /\ DurableInv /\ [Next]_vars => DurableInv'
<1> SUFFICES ASSUME TInv, TInv', DurableInv, [Next]_vars, OneType' PROVE OneTypeInv'
  BY DEF DurableInv
<1>0. conf' = conf BY ConfKept
<1>1. OneTypeInv BY <1>0 DEF DurableInv, OneType
<1>2. CASE UNCHANGED vars BY <1>1, <1>2, ApartKept DEF vars, walVars, flusher
<1>3. CASE Worker
  <2>1. CASE WriteRuns BY <1>1, <2>1, WriteRunsKept
  <2>2. CASE MetaFlush \/ WalFull \/ NoFlush
    <3>1. UNCHANGED <<conf, meta, walVars, segs, flusher, acked>>
      BY <2>2 DEF MetaFlush, WalFull, NoFlush
    <3> QED BY <1>1, <3>1, ApartKept DEF walVars, flusher
  <2>3. CASE LockFlush \/ StartFlush
    <3>1. /\ UNCHANGED <<conf, meta, walVars, segs, fcount, stream, flushTouched, tx, cols, acked>>
          /\ fpc' \in {fpc, "start"}
      BY <2>3 DEF LockFlush, StartFlush
    <3> QED BY <1>1, <3>1, ApartKept DEF walVars
  <2> QED BY <1>3, <2>1, <2>2, <2>3 DEF Worker
<1>4. CASE Flush
  BY <1>1, <1>4, FlushStartKept, EncodeKept, EncodeRestKept, CommitTransactionKept,
     TruncatedKept, FlushFailKept
  DEF Flush
<1>5. CASE OpenIter \/ CloseIter
  <2>1. UNCHANGED <<conf, meta, walVars, segs, flusher, acked>>
    BY <1>5 DEF OpenIter, CloseIter
  <2> QED BY <1>1, <2>1, ApartKept DEF walVars, flusher
<1>6. CASE Prepare \/ Crash BY <1>1, <1>6, PrepareKept, CrashKept
<1> QED BY <1>2, <1>3, <1>4, <1>5, <1>6 DEF Next

\* An empty table.
LEMMA InitDurable == Init => DurableInv
<1> SUFFICES ASSUME Init, OneType PROVE OneTypeInv BY DEF DurableInv
<1>1. <<>> \in Seq(Record) OBVIOUS
<1>2. Plain BY <1>1 DEF Init, Plain
<1>3. Flushed BY DEF Init, Flushed
<1>4. acked = {} BY DEF Init
<1> QED BY <1>2, <1>3, <1>4 DEF OneTypeInv

\* With values of one type, a point the worker acknowledged is in the log or in the
\* segments: through flushes, failed flushes and crashes between any two of their steps,
\* the removal of log files included (table.go flushCache, commit).
THEOREM AckedDurable == Spec => []Durable
<1>1. Init => DurableInv BY InitDurable
<1>2. TInv /\ TInv' /\ DurableInv /\ [Next]_vars => DurableInv' BY NextKept
<1>3. DurableInv => Durable BY DEF DurableInv, OneTypeInv, Durable
<1> QED BY <1>1, <1>2, <1>3, TableInvariance, PTL DEF Spec

\* What the flush moves, with values of any type.
Data ==
  /\ \A c \in 1 .. meta : cols[c] \in [buf : Seq(Record), pre : Record \cup {NoRec}]
  /\ stream \in Seq(Record) /\ tx \in Seq(Record) /\ segs \in Seq(Record)

Recs(s) == {s[k] : k \in DOMAIN s}

\* The records of the files before the j-th.
Older(fs, j) == UNION {Recs(fs[i].recs) : i \in 1 .. j - 1}

\* Two records of one tag, r before s in the log, are minInterval apart.
Gap(r, s) ==
  conf.minInterval > 0 /\ r.code = s.code => s.tms - r.tms >= conf.minInterval

\* A file after the records of O: what the policy keeps apart, and in time order unless
\* the file is marked.
GapFits(O, recs) ==
  /\ \A r \in O : \A l \in DOMAIN recs : Gap(r, recs[l])
  /\ \A k, l \in DOMAIN recs : k < l => Gap(recs[k], recs[l])
TimeFits(O, recs) ==
  /\ \A r \in O : \A l \in DOMAIN recs : Ascends(r, recs[l])
  /\ \A k, l \in DOMAIN recs : k < l => Ascends(recs[k], recs[l])

LogSpaced(fs) == \A j \in DOMAIN fs : GapFits(Older(fs, j), fs[j].recs)
LogSorted(fs) == \A j \in DOMAIN fs : fs[j].needsSort \/ TimeFits(Older(fs, j), fs[j].recs)

\* The state of a tag is no older than the record.
Reached(ts, r) == Known(ts, r.code) /\ r.tms <= ts[r.code].tms
LogReached(fs, ts) == \A i \in DOMAIN fs : \A r \in Recs(fs[i].recs) : Reached(ts, r)

\* The log under the policies, and the state of the tags they look at.
Policy ==
  /\ \A c \in 1 .. meta : tagState[c].tms \in Nat
  /\ LogSpaced(files) /\ LogSorted(files) /\ LogReached(files, tagState)

\* A column's buffer is in time order, and no record still to be encoded goes before it.
Fed(c) ==
  LET buf == cols[c].buf IN
  /\ \A i, j \in DOMAIN buf : i < j => buf[i].tms <= buf[j].tms
  /\ \A i \in DOMAIN buf : \A j \in DOMAIN stream : stream[j].code = c => buf[i].tms <= stream[j].tms
  /\ c \notin flushTouched => buf = <<>>

Feeds ==
  /\ fpc = "encode" => Sorted(stream) /\ \A c \in 1 .. meta : Fed(c)
  /\ fpc # "encode" => \A c \in 1 .. meta : cols[c].buf = <<>>

\* Only columns of known tags are touched.
Touched == flushTouched \subseteq 1 .. meta

Column == [buf : Seq(Record), pre : Record \cup {NoRec}]

\* k entries e added to the n of s.
Pad(s, e, k) == s \o [i \in 1 .. k |-> e]
Added(u, s, n, e, k) == (\A c \in 1 .. n : u[c] = s[c]) /\ \A c \in 1 .. k : u[n + c] = e

\* What padding gives.
LEMMA Padded ==
  ASSUME NEW s, NEW e, NEW n \in Nat, NEW k \in Nat, IsSeq(s, n)
  PROVE  Added(Pad(s, e, k), s, n, e, k)
<1> DEFINE t == [i \in 1 .. k |-> e]
           S == {s[c] : c \in 1 .. n} \cup {e}
<1>1. s \in Seq({s[c] : c \in 1 .. n}) /\ Len(s) = n BY SeqLen
<1>2. s \in Seq(S)
  <2>1. {s[c] : c \in 1 .. n} \subseteq S OBVIOUS
  <2> QED BY <1>1, <2>1
<1>3. t \in Seq(S) /\ Len(t) = k /\ \A c \in 1 .. k : t[c] = e
  <2>1. t \in [1 .. k -> S] OBVIOUS
  <2> HIDE DEF S
  <2> QED BY <2>1
<1> HIDE DEF t, S
<1>4. /\ \A c \in 1 .. n : (s \o t)[c] = s[c]
      /\ \A c \in 1 .. k : (s \o t)[n + c] = t[c]
  BY <1>1, <1>2, <1>3
<1>5. /\ \A c \in 1 .. n : (s \o t)[c] = s[c]
      /\ \A c \in 1 .. k : (s \o t)[n + c] = e
  BY <1>3, <1>4
<1> QED BY <1>5 DEF t, Pad, Added

\* Prepare adds empty columns and tags without a state.
LEMMA PrepareAdds ==
  ASSUME TInv, Prepare, TInv'
  PROVE  /\ \A c \in 1 .. meta : cols'[c] = cols[c] /\ tagState'[c] = tagState[c]
         /\ \A c \in meta + 1 .. meta' : cols'[c] = EmptyCol /\ tagState'[c] = NoState
         /\ meta <= meta'
<1> DEFINE step(n, b) == /\ meta' = Top(n, b)
                         /\ cols' = cols \o [c \in 1 .. Top(n, b) - meta |-> EmptyCol]
                         /\ tagState' = tagState \o [c \in 1 .. Top(n, b) - meta |-> NoState]
<1>1. PICK n \in 1 .. MaxBatch : \E b \in [1 .. n -> Points] : step(n, b)
  BY ZenonT(60) DEF Prepare, Top
<1>2. PICK b \in [1 .. n -> Points] : step(n, b) BY <1>1
<1>3. /\ cols' = cols \o [c \in 1 .. meta' - meta |-> EmptyCol]
      /\ tagState' = tagState \o [c \in 1 .. meta' - meta |-> NoState]
  BY <1>2
<1>4. meta \in Nat /\ meta' \in Nat /\ IsSeq(cols, meta) /\ IsSeq(tagState, meta)
  BY DEF TInv, Types, IsSeq
<1>5. meta <= meta'
  <2>1. meta' = Top(n, b) BY <1>2
  <2> HIDE DEF step
  <2> QED BY <1>4, <2>1, TopOk
<1> HIDE DEF step
<1>6. PICK k \in Nat : meta' = meta + k
  <2>1. \A x, y \in Nat : x <= y => y - x \in Nat /\ y = x + (y - x) OBVIOUS
  <2> QED BY <1>4, <1>5, <2>1
<1>7. /\ cols' = Pad(cols, EmptyCol, k)
      /\ tagState' = Pad(tagState, NoState, k)
  <2>1. meta' - meta = k BY <1>4, <1>6
  <2> QED BY <1>3, <2>1 DEF Pad
<1>8. /\ \A c \in 1 .. meta : cols'[c] = cols[c]
      /\ \A c \in 1 .. k : cols'[meta + c] = EmptyCol
  <2>1. Added(Pad(cols, EmptyCol, k), cols, meta, EmptyCol, k) BY <1>4, Padded
  <2> QED BY <1>7, <2>1 DEF Added
<1>9. /\ \A c \in 1 .. meta : tagState'[c] = tagState[c]
      /\ \A c \in 1 .. k : tagState'[meta + c] = NoState
  <2>1. Added(Pad(tagState, NoState, k), tagState, meta, NoState, k) BY <1>4, Padded
  <2> QED BY <1>7, <2>1 DEF Added
<1>10. \A c \in meta + 1 .. meta' : c - meta \in 1 .. k /\ c = meta + (c - meta)
  BY <1>4, <1>6, SMTT(40)
<1> QED BY <1>5, <1>8, <1>9, <1>10, SMTT(40)

\* What a column holds after a Write.
LEMMA ColumnTyped ==
  ASSUME NEW col \in Column, NEW r \in Record
  PROVE  columnWrite(col, r).col \in Column
<1> DEFINE hasPre == col.pre # NoRec
           buf == IF hasPre THEN Append(col.buf, col.pre) ELSE col.buf
<1>1. col.buf \in Seq(Record) /\ col.pre \in Record \cup {NoRec} BY DEF Column
<1>2. buf \in Seq(Record) BY <1>1
<1>3. Append(buf, r) \in Seq(Record) BY <1>2
<1> HIDE DEF buf
<1>4. columnWrite(col, r).col \in
        {col, [buf |-> Append(buf, r), pre |-> NoRec], [buf |-> buf, pre |-> r]}
  BY DEF columnWrite, buf
<1>5. [buf |-> Append(buf, r), pre |-> NoRec] \in Column BY <1>3 DEF Column
<1>6. [buf |-> buf, pre |-> r] \in Column BY <1>2 DEF Column
<1> QED BY <1>4, <1>5, <1>6

\* A column written out keeps the pair it has kept back.
LEMMA Glowed ==
  ASSUME NEW col \in Column
  PROVE  /\ glowWrite(col) \in Column /\ col.buf \in Seq(Record)
         /\ glowWrite(col).buf = <<>> /\ glowWrite(col).pre = col.pre
<1>1. col.buf \in Seq(Record) /\ col.pre \in Record \cup {NoRec} BY DEF Column
<1>2. glowWrite(col) = [buf |-> <<>>, pre |-> col.pre] BY DEF glowWrite, Column
<1>3. <<>> \in Seq(Record) OBVIOUS
<1>4. [buf |-> <<>>, pre |-> col.pre] \in Column BY <1>1, <1>3 DEF Column
<1> QED BY <1>1, <1>2, <1>4

\* Steps that leave the columns and the flush's data alone.
LEMMA DataSame ==
  ASSUME Data, UNCHANGED <<conf, meta, cols, stream, tx, segs>>
  PROVE  Data'
BY DEF Data, Record

\* FlushStart moves records.
LEMMA FlushStartData ==
  ASSUME TInv, Data, FlushStart
  PROVE  Data'
<1> DEFINE n == Len(files) - 1
           parts == [i \in 1 .. n |-> files[i].recs]
           recs == FlattenSeq(parts)
<1>0. /\ stream' \in {sortEntries(recs), recs} /\ tx' = <<>>
      /\ UNCHANGED <<conf, meta, segs, cols>>
  BY DEF FlushStart
<1>a. n \in Nat /\ \A i \in 1 .. n : files[i].recs \in Seq(Record)
  <2>1. Len(files) \in Nat \ {0} /\ files \in Seq(LogFile) BY DEF TInv, Types
  <2>2. n \in Nat /\ \A i \in 1 .. n : i \in 1 .. Len(files) BY <2>1
  <2>3. \A i \in 1 .. n : files[i] \in LogFile BY <2>1, <2>2
  <2> QED BY <2>2, <2>3 DEF LogFile
<1> HIDE DEF n
<1>b. recs \in Seq(Record)
  <2>1. IsSeq(parts, n) BY DEF IsSeq
  <2>2. \A i \in 1 .. n : parts[i] = files[i].recs OBVIOUS
  <2> HIDE DEF parts
  <2>3. \A i \in 1 .. n : parts[i] \in Seq(Record) BY <1>a, <2>2
  <2> QED BY <1>a, <2>1, <2>3, FlattenIds
<1> HIDE DEF recs
<1>c. stream' \in Seq(Record) BY <1>0, <1>b, SortIds
<1>d. Record' = Record /\ <<>> \in Seq(Record) BY <1>0 DEF Record
<1> QED BY <1>0, <1>c, <1>d DEF Data

\* So does Encode, whether or not the column takes the pair.
LEMMA EncodeData ==
  ASSUME TInv, Data, Encode
  PROVE  Data'
<1> DEFINE r == Head(stream)
           w == columnWrite(cols[r.code], r)
<1>0. /\ stream # <<>> /\ stream' = Tail(stream) /\ r.code <= Len(cols)
      /\ cols' = [cols EXCEPT ![r.code] = IF w.ok THEN w.col ELSE glowWrite(w.col)]
      /\ tx' = IF w.ok THEN tx ELSE tx \o w.col.buf
      /\ UNCHANGED <<conf, meta, segs>>
  BY DEF Encode
<1>a. r \in Record /\ Tail(stream) \in Seq(Record)
  <2>1. stream \in Seq(Record) /\ stream # <<>> BY <1>0, SMTT(40) DEF Data
  <2> QED BY <2>1, SMTT(40)
<1>c. r.code \in 1 .. meta /\ DOMAIN cols = 1 .. meta
  <2>1. meta \in Nat /\ Len(cols) = meta /\ DOMAIN cols = 1 .. meta BY SeqLen DEF TInv, Types
  <2>3. r.code \in Nat \ {0} BY <1>a DEF Record
  <2> QED BY <1>0, <2>1, <2>3
<1>d. w.col \in Column
  <2>1. cols[r.code] \in Column BY <1>c, SMTT(40) DEF Data, Column
  <2> HIDE DEF r
  <2> QED BY <1>a, <2>1, ColumnTyped
<1>r. Record' = Record BY <1>0 DEF Record
<1> HIDE DEF r, w
<1>e. glowWrite(w.col) \in Column /\ w.col.buf \in Seq(Record) BY <1>d, Glowed
<1>f. \A c \in 1 .. meta : cols'[c] \in {cols[c], w.col, glowWrite(w.col)} BY <1>0, <1>c
<1>g. \A c \in 1 .. meta : cols'[c] \in Column BY <1>d, <1>e, <1>f DEF Data, Column
<1>h. tx' \in Seq(Record)
  <2>1. tx \in Seq(Record) BY DEF Data
  <2>2. tx \o w.col.buf \in Seq(Record) BY <1>e, <2>1
  <2> QED BY <1>0, <2>1, <2>2
<1> QED BY <1>0, <1>a, <1>g, <1>h, <1>r DEF Data, Column

\* So does EncodeRest.
LEMMA EncodeRestData ==
  ASSUME TInv, Data, flushTouched \subseteq 1 .. meta, EncodeRest
  PROVE  Data'
<1> DEFINE n == Cardinality(flushTouched)
           order == SetToSeq(flushTouched)
           parts == [i \in 1 .. n |-> cols[order[i]].buf]
<1>0. /\ tx' = tx \o FlattenSeq(parts)
      /\ cols' = [c \in DOMAIN cols |-> IF c \in flushTouched THEN glowWrite(cols[c]) ELSE cols[c]]
      /\ UNCHANGED <<conf, meta, segs, stream>>
  BY DEF EncodeRest
<1>b. n \in Nat /\ order \in [1 .. n -> flushTouched]
  <2>1. IsFiniteSet(1 .. meta) BY FS_Interval DEF TInv, Types
  <2>2. IsFiniteSet(flushTouched) BY <2>1, FS_Subset
  <2> QED BY <2>2, SetToSeqOnto
<1> HIDE DEF n, order
<1>c. \A c \in 1 .. meta : cols[c] \in Column BY DEF Data, Column
<1>d. FlattenSeq(parts) \in Seq(Record)
  <2>1. IsSeq(parts, n) BY DEF IsSeq
  <2>2. \A i \in 1 .. n : parts[i] = cols[order[i]].buf OBVIOUS
  <2>3. \A i \in 1 .. n : order[i] \in 1 .. meta BY <1>b
  <2> HIDE DEF parts
  <2>4. \A i \in 1 .. n : parts[i] \in Seq(Record) BY <1>c, <2>2, <2>3 DEF Column
  <2> QED BY <1>b, <2>1, <2>4, FlattenIds
<1> HIDE DEF parts
<1>e. tx' \in Seq(Record)
  <2>1. tx \in Seq(Record) BY DEF Data
  <2> QED BY <1>0, <1>d, <2>1, ConcatIds
<1>r. Record' = Record BY <1>0 DEF Record
<1>f. DOMAIN cols = 1 .. meta BY DEF TInv, Types, IsSeq
<1>g. \A c \in 1 .. meta : cols'[c] \in Column
  <2>1. <<>> \in Seq(Record) OBVIOUS
  <2>2. \A col \in Column : glowWrite(col) \in Column BY Glowed
  <2>3. \A c \in 1 .. meta : cols'[c] \in {glowWrite(cols[c]), cols[c]} BY <1>0, <1>f
  <2> QED BY <1>c, <2>2, <2>3
<1> QED BY <1>0, <1>e, <1>g, <1>r DEF Data, Column

\* A failed flush drops them.
LEMMA FlushFailData ==
  ASSUME TInv, Data, FlushFail
  PROVE  Data'
<1>0. /\ cols' = [c \in DOMAIN cols |->
                    IF c \in flushTouched THEN columnReset(cols[c]) ELSE cols[c]]
      /\ tx' = <<>> /\ stream' = <<>> /\ UNCHANGED <<conf, meta, segs>>
  BY DEF FlushFail
<1>1. Record' = Record /\ <<>> \in Seq(Record) BY <1>0 DEF Record
<1>2. DOMAIN cols = 1 .. meta BY DEF TInv, Types, IsSeq
<1>3. EmptyCol \in Column BY <1>1 DEF EmptyCol, Column
<1>4. \A c \in 1 .. meta : cols'[c] \in {cols[c], EmptyCol} BY <1>0, <1>2 DEF columnReset
<1>5. \A c \in 1 .. meta : cols'[c] \in Column BY <1>3, <1>4 DEF Data, Column
<1> QED BY <1>0, <1>1, <1>5 DEF Data, Column

\* A crash commits some of them and drops the rest.
LEMMA CrashData ==
  ASSUME TInv, Data, Crash
  PROVE  Data'
<1>1. PICK m \in readEntries, k \in getAllData,
           g \in 0 .. (IF fpc = "remove" THEN fcount ELSE 0), found \in SUBSET (1 .. meta) :
        CrashTo(m, k, g, found)
  BY CrashParts
<1>2. meta' = m /\ cols' = [c \in 1 .. m |-> EmptyCol] BY <1>1 DEF CrashTo
<1>3. stream' = <<>> /\ tx' = <<>> /\ conf' = conf BY CrashResets
<1>4. PICK j \in 0 .. (IF Holding THEN Len(tx) ELSE 0) : segs' = segs \o SubSeq(tx, 1, j)
  BY CrashSegs
<1>5. segs' \in Seq(Record)
  <2>1. tx \in Seq(Record) /\ segs \in Seq(Record) BY DEF Data
  <2>2. j \in 0 .. Len(tx) BY <1>4, <2>1
  <2>3. SubSeq(tx, 1, j) \in Seq(Record) BY <2>1, <2>2
  <2> QED BY <1>4, <2>1, <2>3, ConcatIds
<1>6. Record' = Record /\ <<>> \in Seq(Record) BY <1>3 DEF Record
<1>7. EmptyCol \in Column BY <1>6 DEF EmptyCol, Column
<1> QED BY <1>2, <1>3, <1>5, <1>6, <1>7 DEF Data, Column

\* Every step keeps the types of what the flush moves.
LEMMA NextData == TInv /\ TInv' /\ Data /\ Touched /\ [Next]_vars => Data' /\ Touched'
<1> SUFFICES ASSUME TInv, TInv', Data, Touched, [Next]_vars PROVE Data' /\ Touched' OBVIOUS
<1>1. CASE UNCHANGED vars BY <1>1, DataSame DEF vars, walVars, flusher, Touched
<1>2. CASE Worker
  <2>1. UNCHANGED <<conf, meta, cols, stream, tx, segs, flushTouched>>
    BY <1>2 DEF Worker, MetaFlush, WriteRuns, WalFull, LockFlush, NoFlush, StartFlush, flusher
  <2> QED BY <2>1, DataSame DEF Touched
<1>3. CASE OpenIter \/ CloseIter
  <2>1. UNCHANGED <<conf, meta, cols, stream, tx, segs, flushTouched>>
    BY <1>3 DEF OpenIter, CloseIter, flusher
  <2> QED BY <2>1, DataSame DEF Touched
<1>4. CASE Truncated
  <2>1. UNCHANGED <<conf, meta, cols, stream, tx, segs>> /\ flushTouched' = {}
    BY <1>4 DEF Truncated
  <2> QED BY <2>1, DataSame DEF Touched
<1>5. CASE CommitTransaction
  <2>1. segs' = segs \o tx /\ tx' = <<>> /\ UNCHANGED <<conf, meta, cols, stream, flushTouched>>
    BY <1>5 DEF CommitTransaction
  <2>2. segs' \in Seq(Record) BY <2>1, ConcatIds DEF Data
  <2>3. Record' = Record /\ <<>> \in Seq(Record) BY <2>1 DEF Record
  <2> QED BY <2>1, <2>2, <2>3 DEF Data, Touched
<1>6. CASE FlushStart
  <2>1. flushTouched' = {} BY <1>6 DEF FlushStart
  <2> QED BY <1>6, <2>1, FlushStartData DEF Touched
<1>7. CASE Encode
  <2>1. /\ flushTouched' = flushTouched \cup {Head(stream).code} /\ meta' = meta
        /\ stream # <<>> /\ Head(stream).code <= Len(cols)
    BY <1>7 DEF Encode
  <2>2. Head(stream) \in Record BY <2>1 DEF Data
  <2>3. meta \in Nat /\ Len(cols) = meta BY SeqLen DEF TInv, Types
  <2>4. Head(stream).code \in 1 .. meta BY <2>1, <2>2, <2>3 DEF Record
  <2> QED BY <1>7, <2>1, <2>4, EncodeData DEF Touched
<1>8. CASE EncodeRest
  <2>1. UNCHANGED <<flushTouched, meta>> BY <1>8 DEF EncodeRest
  <2> QED BY <1>8, <2>1, EncodeRestData DEF Touched
<1>9. CASE FlushFail
  <2>1. flushTouched' = {} BY <1>9 DEF FlushFail
  <2> QED BY <1>9, <2>1, FlushFailData DEF Touched
<1>10. CASE Crash
  <2>1. flushTouched' = {} BY <1>10 DEF Crash
  <2> QED BY <1>10, <2>1, CrashData DEF Touched
<1>11. CASE Prepare
  <2>1. UNCHANGED <<conf, stream, tx, segs, flushTouched>> BY <1>11 DEF Prepare
  <2>2. meta \in Nat /\ meta' \in Nat /\ meta <= meta' BY <1>11, PrepareAdds DEF TInv, Types
  <2>3. \A c \in 1 .. meta' : c \in 1 .. meta \/ c \in meta + 1 .. meta' BY <2>2
  <2>4. Record' = Record /\ <<>> \in Seq(Record) BY <2>1 DEF Record
  <2>5. EmptyCol \in Column BY <2>4 DEF EmptyCol, Column
  <2>6. \A c \in 1 .. meta' : cols'[c] \in Column
    BY <1>11, <2>3, <2>5, PrepareAdds DEF Data, Column
  <2>7. 1 .. meta \subseteq 1 .. meta' BY <2>2
  <2> QED BY <2>1, <2>4, <2>6, <2>7 DEF Data, Column, Touched
<1> QED BY <1>1, <1>2, <1>3, <1>4, <1>5, <1>6, <1>7, <1>8, <1>9, <1>10, <1>11 DEF Next, Flush

\* Records whose tag has a state.
Coded == {r \in Record : r.code <= meta}

\* What such a record is.
LEMMA CodedIs ==
  ASSUME meta \in Nat, NEW x \in Coded
  PROVE  x \in Record /\ x.code \in 1 .. meta /\ x.tms \in Nat /\ x.v \in conf.vals
<1>1. x \in Record /\ x.code <= meta BY DEF Coded
<1>2. x.code \in Nat \ {0} /\ x.tms \in Times /\ x.v \in conf.vals BY <1>1 DEF Record
<1>3. \A u, v \in Nat : u # 0 /\ u <= v => u \in 1 .. v OBVIOUS
<1>4. x.code \in 1 .. meta BY <1>1, <1>2, <1>3
<1>5. x.tms \in Nat BY <1>2
<1> QED BY <1>1, <1>2, <1>4, <1>5

\* The file being written and the tags' state, after the records of O.
PointsKept(O, a) ==
  /\ GapFits(O, a.file.recs) /\ (a.file.needsSort \/ TimeFits(O, a.file.recs))
  /\ \A x \in O \cup Recs(a.file.recs) : Reached(a.ts, x)
  /\ \A c \in 1 .. meta : a.ts[c].tms \in Nat

\* A record after those of O and of the file.
LEMMA FitsAppend ==
  ASSUME NEW O, NEW recs \in Seq(Record), NEW r \in Record, GapFits(O, recs),
         \A x \in O \cup Recs(recs) : Gap(x, r)
  PROVE  /\ GapFits(O, Append(recs, r)) /\ Recs(Append(recs, r)) = Recs(recs) \cup {r}
         /\ TimeFits(O, recs) /\ (\A x \in O \cup Recs(recs) : Ascends(x, r))
              => TimeFits(O, Append(recs, r))
<1> DEFINE s == Append(recs, r)
           n == Len(recs)
<1>1. /\ n \in Nat /\ DOMAIN recs = 1 .. n /\ DOMAIN s = 1 .. n + 1 /\ s[n + 1] = r
      /\ \A k \in 1 .. n : s[k] = recs[k]
  OBVIOUS
<1> HIDE DEF s, n
<1>2. \A k \in 1 .. n + 1 : k = n + 1 \/ k \in 1 .. n BY <1>1
<1>3. n + 1 \in 1 .. n + 1 /\ \A k \in 1 .. n : k \in 1 .. n + 1 BY <1>1
<1>4. \A k, l \in 1 .. n + 1 : k < l => k \in 1 .. n /\ (l = n + 1 \/ l \in 1 .. n) BY <1>1
<1>5. \A k \in 1 .. n : recs[k] \in Recs(recs) BY <1>1 DEF Recs
<1>6. Recs(s) = Recs(recs) \cup {r} BY <1>1, <1>2, <1>3, ZenonT(60) DEF Recs
<1>7. GapFits(O, s)
  <2>1. ASSUME NEW x \in O, NEW l \in DOMAIN s PROVE Gap(x, s[l])
    <3>1. CASE l = n + 1 BY <1>1, <3>1
    <3>2. CASE l \in 1 .. n BY <1>1, <3>2 DEF GapFits
    <3> QED BY <1>1, <1>2, <3>1, <3>2
  <2>2. ASSUME NEW k \in DOMAIN s, NEW l \in DOMAIN s, k < l PROVE Gap(s[k], s[l])
    <3>0. k \in 1 .. n BY <1>1, <1>4, <2>2
    <3>1. CASE l = n + 1 BY <1>1, <1>5, <3>0, <3>1
    <3>2. CASE l \in 1 .. n BY <1>1, <2>2, <3>0, <3>2 DEF GapFits
    <3> QED BY <1>1, <1>2, <3>1, <3>2
  <2> QED BY <2>1, <2>2 DEF GapFits
<1>8. ASSUME TimeFits(O, recs), \A x \in O \cup Recs(recs) : Ascends(x, r) PROVE TimeFits(O, s)
  <2>1. ASSUME NEW x \in O, NEW l \in DOMAIN s PROVE Ascends(x, s[l])
    <3>1. CASE l = n + 1 BY <1>1, <1>8, <3>1
    <3>2. CASE l \in 1 .. n BY <1>1, <1>8, <3>2 DEF TimeFits
    <3> QED BY <1>1, <1>2, <3>1, <3>2
  <2>2. ASSUME NEW k \in DOMAIN s, NEW l \in DOMAIN s, k < l PROVE Ascends(s[k], s[l])
    <3>0. k \in 1 .. n BY <1>1, <1>4, <2>2
    <3>1. CASE l = n + 1 BY <1>1, <1>5, <1>8, <3>0, <3>1
    <3>2. CASE l \in 1 .. n BY <1>1, <1>8, <2>2, <3>0, <3>2 DEF TimeFits
    <3> QED BY <1>1, <1>2, <3>1, <3>2
  <2> QED BY <2>1, <2>2 DEF TimeFits
<1> QED BY <1>6, <1>7, <1>8 DEF s

\* A point the policies accept is minInterval after the tag's state, and the state moves on.
LEMMA PointKept ==
  ASSUME conf \in Configs, meta \in Nat, NEW O \in SUBSET Coded, NEW a, NEW r \in Coded,
         a.file \in LogFile, Recs(a.file.recs) \subseteq Coded, IsSeq(a.ts, meta),
         PointsKept(O, a)
  PROVE  PointsKept(O, writePoint(a, r))
<1> DEFINE w == writePoint(a, r)
           A == O \cup Recs(a.file.recs)
           m == a.ts[r.code]
           t == [tms |-> r.tms, v |-> r.v]
<1>1. CASE Rejected(a.ts, r) BY <1>1 DEF writePoint
<1>2. CASE ~Rejected(a.ts, r)
  <2>0. \A x \in Coded : /\ x \in Record /\ x.code \in 1 .. meta /\ x.tms \in Nat
                         /\ x.v \in conf.vals
    BY CodedIs
  <2>1. /\ w.file.recs = Append(a.file.recs, r)
        /\ w.file.needsSort = (a.file.needsSort \/ late(a.ts, r))
        /\ w.ts = IF late(a.ts, r) THEN a.ts ELSE [a.ts EXCEPT ![r.code] = t]
    BY <1>2 DEF writePoint, late
  <2>2. m.tms \in Nat /\ conf.minInterval \in Int /\ "none" \notin conf.vals
    BY <2>0 DEF PointsKept
  <2>3. ASSUME NEW x \in A, x.code = r.code
        PROVE  /\ Known(a.ts, r.code) /\ x.tms <= m.tms /\ x.tms \in Nat
               /\ conf.minInterval > 0 => r.tms - x.tms >= conf.minInterval
               /\ ~late(a.ts, r) => x.tms <= r.tms
    <3>1. Reached(a.ts, x) /\ x \in Coded BY DEF PointsKept
    <3>2. Known(a.ts, r.code) /\ x.tms <= m.tms /\ x.tms \in Nat /\ r.tms \in Nat
      BY <2>0, <2>3, <3>1 DEF Reached
    <3>3. conf.minInterval > 0 => ~(r.tms < m.tms) /\ ~(r.tms - m.tms < conf.minInterval)
      BY <1>2, <2>2, <3>2 DEF Rejected
    <3>4. \A p, q, u \in Nat, g \in Int :
            p <= q => (~(u < q) => p <= u) /\ (~(u - q < g) => u - p >= g)
      OBVIOUS
    <3>5. conf.minInterval > 0 => r.tms - x.tms >= conf.minInterval BY <2>2, <3>2, <3>3, <3>4
    <3>6. ~late(a.ts, r) => x.tms <= r.tms BY <2>2, <3>2, <3>4 DEF late
    <3> QED BY <3>2, <3>5, <3>6
  <2>4. \A x \in A : Gap(x, r) BY <2>3 DEF Gap
  <2>5. ~late(a.ts, r) => \A x \in A : Ascends(x, r) BY <2>3 DEF Ascends
  <2>6. a.file.recs \in Seq(Record) /\ r \in Record BY <2>0 DEF LogFile
  <2>7. /\ GapFits(O, w.file.recs) /\ Recs(w.file.recs) = Recs(a.file.recs) \cup {r}
        /\ TimeFits(O, a.file.recs) /\ (\A x \in A : Ascends(x, r))
             => TimeFits(O, w.file.recs)
    BY <2>1, <2>4, <2>6, FitsAppend, SMTT(40) DEF PointsKept
  <2>8. w.file.needsSort \/ TimeFits(O, w.file.recs) BY <2>1, <2>5, <2>7 DEF PointsKept
  <2>d. DOMAIN a.ts = 1 .. meta /\ r.code \in 1 .. meta /\ r.tms \in Nat
    BY <2>0 DEF IsSeq
  <2>9. CASE late(a.ts, r)
    <3>1. w.ts = a.ts BY <2>1, <2>9
    <3>2. Reached(a.ts, r) BY <2>2, <2>9, <2>d, SMTT(40) DEF late, Reached
    <3> QED BY <2>7, <2>8, <3>1, <3>2 DEF PointsKept
  <2>10. CASE ~late(a.ts, r)
    <3>1. \A c \in 1 .. meta : w.ts[c] = IF c = r.code THEN t ELSE a.ts[c]
      BY <2>1, <2>10, <2>d
    <3>2. t.tms = r.tms /\ t.v = r.v /\ r.v # "none" BY <2>0, <2>2
    <3> HIDE DEF t, w, m
    <3>3. \A c \in 1 .. meta : w.ts[c].tms \in Nat BY <2>d, <3>1, <3>2 DEF PointsKept
    <3>4. Reached(w.ts, r) BY <2>d, <3>1, <3>2 DEF Reached, Known
    <3>5. ASSUME NEW x \in A PROVE Reached(w.ts, x)
      <4>0. x \in Coded /\ Reached(a.ts, x) BY DEF PointsKept
      <4>1. CASE x.code = r.code
        <5>1. x.tms <= r.tms BY <2>3, <2>10, <4>1
        <5> QED BY <2>d, <3>1, <3>2, <4>1, <5>1 DEF Reached, Known
      <4>2. CASE x.code # r.code
        <5>1. w.ts[x.code] = a.ts[x.code] BY <2>0, <3>1, <4>0, <4>2
        <5> QED BY <4>0, <5>1 DEF Reached, Known
      <4> QED BY <4>1, <4>2
    <3>6. \A x \in O \cup Recs(w.file.recs) : Reached(w.ts, x) BY <2>7, <3>4, <3>5
    <3>7. PointsKept(O, w) BY <2>7, <2>8, <3>3, <3>6 DEF PointsKept
    <3> QED BY <3>7 DEF w
  <2> QED BY <2>9, <2>10
<1> QED BY <1>1, <1>2

LogKept(fs, ts) == LogSpaced(fs) /\ LogSorted(fs) /\ LogReached(fs, ts)

\* The records of a file whose codes the dictionary has.
LEMMA RecsCoded ==
  ASSUME meta \in Nat, NEW recs \in Seq(Record), NEW m \in 0 .. meta, Upto(recs, m)
  PROVE  Recs(recs) \subseteq Coded
<1> SUFFICES ASSUME NEW k \in DOMAIN recs PROVE recs[k] \in Coded BY DEF Recs
<1>1. recs[k] \in Record /\ recs[k].code <= m BY DEF Upto
<1>2. recs[k].code \in Nat BY <1>1 DEF Record
<1>3. \A u, v, w \in Nat : u <= v /\ v <= w => u <= w OBVIOUS
<1>4. recs[k].code <= meta BY <1>1, <1>2, <1>3
<1> QED BY <1>1, <1>4 DEF Coded

\* All records of the log.
LEMMA LogCoded ==
  ASSUME meta \in Nat, NEW m \in 0 .. meta, NEW fs, LogOk(fs, m)
  PROVE  /\ \A i \in DOMAIN fs : Recs(fs[i].recs) \subseteq Coded /\ fs[i].recs \in Seq(Record)
         /\ \A j \in DOMAIN fs : Older(fs, j) \subseteq Coded
<1>1. ASSUME NEW i \in DOMAIN fs PROVE Recs(fs[i].recs) \subseteq Coded /\ fs[i].recs \in Seq(Record)
  <2>1. fs[i] \in LogFile /\ Upto(fs[i].recs, m) BY DEF LogOk
  <2>2. fs[i].recs \in Seq(Record) BY <2>1 DEF LogFile
  <2> QED BY <2>1, <2>2, RecsCoded
<1>2. ASSUME NEW j \in DOMAIN fs PROVE Older(fs, j) \subseteq Coded
  <2>1. DOMAIN fs = 1 .. Len(fs) /\ Len(fs) \in Nat BY DEF LogOk
  <2>2. \A i \in 1 .. j - 1 : i \in DOMAIN fs BY <2>1
  <2> QED BY <1>1, <2>2 DEF Older
<1> QED BY <1>1, <1>2

\* A batch, or what a crash leaves of it, written point by point.
LEMMA WrittenKept ==
  ASSUME conf \in Configs, meta \in Nat, NEW runs \in Seq(Record), Upto(runs, meta),
         files \in Seq(LogFile), files # <<>>, Upto(Last(files).recs, meta),
         IsSeq(tagState, meta), NEW O \in SUBSET Coded,
         PointsKept(O, [file |-> Last(files), ts |-> tagState])
  PROVE  PointsKept(O, Written(runs))
<1> DEFINE N == Len(runs)
           P(a) == /\ a.file \in LogFile /\ Upto(a.file.recs, meta) /\ IsSeq(a.ts, meta)
                   /\ PointsKept(O, a)
<1>1. N \in Nat OBVIOUS
<1>2. PICK acc : /\ DOMAIN acc = 0 .. N
                 /\ acc[0] = [file |-> Last(files), ts |-> tagState]
                 /\ \A i \in 1 .. N : acc[i] = writePoint(acc[i - 1], runs[i])
                 /\ Written(runs) = acc[N]
  BY <1>1, WrittenSteps
<1> DEFINE G == {i \in Nat : i <= N => P(acc[i])}
<1>3. 0 \in G
  <2>1. Last(files) \in LogFile BY DEF Last
  <2>2. P(acc[0]) BY <1>2, <2>1
  <2> HIDE DEF P
  <2> QED BY <2>2
<1>4. ASSUME NEW i \in Nat, i \in G PROVE i + 1 \in G
  <2> SUFFICES ASSUME i + 1 <= N PROVE P(acc[i + 1])
    <3> HIDE DEF P
    <3> QED BY SMTT(40)
  <2>1. P(acc[i]) BY <1>1, <1>4
  <2>2. i + 1 \in 1 .. N /\ (i + 1) - 1 = i BY <1>1, SMTT(40)
  <2>3. acc[i + 1] = writePoint(acc[i], runs[i + 1]) BY <1>2, <2>2
  <2>4. runs[i + 1] \in Record /\ runs[i + 1].code <= meta BY <2>2 DEF Upto
  <2>5. runs[i + 1] \in Coded BY <2>4 DEF Coded
  <2>6. Recs(acc[i].file.recs) \subseteq Coded
    <3>1. acc[i].file.recs \in Seq(Record) /\ Upto(acc[i].file.recs, meta) BY <2>1 DEF LogFile
    <3>2. meta \in 0 .. meta OBVIOUS
    <3> QED BY <3>1, <3>2, RecsCoded
  <2>7. PointsKept(O, acc[i + 1]) BY <2>1, <2>3, <2>5, <2>6, PointKept, SMTT(40)
  <2>8. /\ acc[i + 1].file \in LogFile /\ Upto(acc[i + 1].file.recs, meta)
        /\ IsSeq(acc[i + 1].ts, meta)
    BY <2>1, <2>3, <2>4, WritePointOk
  <2> QED BY <2>7, <2>8
<1>5. N \in G
  <2> HIDE DEF G
  <2> QED BY <1>1, <1>3, <1>4, SetInduction, SMTT(40)
<1>6. P(acc[N]) BY <1>1, <1>5
<1> QED BY <1>2, <1>6

\* The older records depend on the files before.
LEMMA OlderSame ==
  ASSUME NEW f, NEW g, NEW j, \A i \in 1 .. j - 1 : g[i].recs = f[i].recs
  PROVE  Older(g, j) = Older(f, j)
BY DEF Older

\* The last file replaced by what a batch makes of it.
LEMMA TornKept ==
  ASSUME TInv, Policy, NEW runs \in Seq(Record), Upto(runs, metaDisk)
  PROVE  LET w == Written(runs)
             t == [files EXCEPT ![Len(files)] = w.file]
         IN /\ LogKept(t, w.ts) /\ LogOk(t, metaDisk) /\ Len(t) = Len(files)
            /\ IsSeq(w.ts, meta) /\ \A c \in 1 .. meta : w.ts[c].tms \in Nat
<1> DEFINE w == Written(runs)
           n == Len(files)
           t == [files EXCEPT ![n] = w.file]
           O == Older(files, n)
<1>a. /\ LogOk(files, metaDisk) /\ metaDisk \in 0 .. meta /\ metaDisk \in Nat /\ meta \in Nat
      /\ conf \in Configs /\ files \in Seq(LogFile) /\ files # <<>> /\ IsSeq(tagState, meta)
  BY DEF TInv, Types, Codes, LogOk
<1>l. n \in Nat \ {0} /\ DOMAIN files = 1 .. n /\ n \in DOMAIN files BY <1>a DEF LogOk
<1>z. Last(files) = files[n] BY DEF Last
<1>b. Upto(Last(files).recs, metaDisk) BY <1>a, <1>z, <1>l DEF LogOk
<1>u. \A s \in Seq(Record) : Upto(s, metaDisk) => Upto(s, meta)
  <2>1. SUFFICES ASSUME NEW s \in Seq(Record), Upto(s, metaDisk), NEW k \in DOMAIN s
                 PROVE  s[k].code <= meta
    BY DEF Upto
  <2>2. s[k] \in Record /\ s[k].code <= metaDisk BY <2>1 DEF Upto
  <2>3. s[k].code \in Nat BY <2>2 DEF Record
  <2>4. \A x, y, q \in Nat : x <= y /\ y <= q => x <= q OBVIOUS
  <2> QED BY <1>a, <2>2, <2>3, <2>4
<1>c. w.file \in LogFile /\ Upto(w.file.recs, metaDisk) /\ IsSeq(w.ts, meta)
  BY <1>a, <1>b, WrittenOk
<1>d. O \subseteq Coded /\ files[n].recs \in Seq(Record) BY <1>a, <1>l, LogCoded
<1>e. PointsKept(O, [file |-> Last(files), ts |-> tagState])
  <2> DEFINE a == [file |-> files[n], ts |-> tagState]
  <2>1. a.file = files[n] /\ a.ts = tagState OBVIOUS
  <2> HIDE DEF a
  <2>2. GapFits(O, files[n].recs) /\ (files[n].needsSort \/ TimeFits(O, files[n].recs))
    BY <1>l DEF Policy, LogSpaced, LogSorted
  <2>3. \A i \in 1 .. n - 1 : i \in DOMAIN files BY <1>l
  <2>4. \A x \in O \cup Recs(files[n].recs) : Reached(tagState, x)
    BY <1>l, <2>3 DEF Policy, LogReached, Older
  <2>5. PointsKept(O, a) BY <2>1, <2>2, <2>4 DEF PointsKept, Policy
  <2> QED BY <1>z, <2>5 DEF a
<1>f. PointsKept(O, w)
  <2>1. Upto(runs, meta) /\ Upto(Last(files).recs, meta) BY <1>b, <1>d, <1>u, <1>z
  <2> QED BY <1>a, <1>d, <1>e, <2>1, WrittenKept
<1> HIDE DEF w
<1>g. /\ LogOk(t, metaDisk) /\ Len(t) = n /\ t[n] = w.file
      /\ \A i \in 1 .. n - 1 : t[i] = files[i]
  BY <1>a, <1>c, LastReplaced, SMTT(40)
<1>h. DOMAIN t = 1 .. n BY <1>l
<1> HIDE DEF t
<1>i. \A j \in 1 .. n : Older(t, j) = Older(files, j)
  <2>1. ASSUME NEW j \in 1 .. n PROVE \A i \in 1 .. j - 1 : t[i].recs = files[i].recs
    <3>1. \A i \in 1 .. j - 1 : i \in 1 .. n - 1 BY <1>l, SMTT(40)
    <3> QED BY <1>g, <3>1, SMTT(40)
  <2> QED BY <2>1, OlderSame
<1>j. \A j \in 1 .. n : j = n \/ j \in 1 .. n - 1
  <2>1. \A x \in Nat \ {0} : \A y \in 1 .. x : y = x \/ y \in 1 .. x - 1 OBVIOUS
  <2> QED BY <1>l, <2>1, ZenonT(60)
<1>k. LogSpaced(t) /\ LogSorted(t)
  <2>1. ASSUME NEW j \in 1 .. n
        PROVE  GapFits(Older(t, j), t[j].recs) /\ (t[j].needsSort \/ TimeFits(Older(t, j), t[j].recs))
    <3>1. CASE j = n BY <1>f, <1>g, <1>i, <1>l, <3>1 DEF PointsKept
    <3>2. CASE j # n
      <4>1. t[j] = files[j] /\ Older(t, j) = Older(files, j) BY <1>g, <1>i, <1>j, <3>2
      <4> QED BY <1>l, <4>1 DEF Policy, LogSpaced, LogSorted
    <3> QED BY <3>1, <3>2
  <2> QED BY <1>h, <2>1 DEF LogSpaced, LogSorted
<1>m. LogReached(t, w.ts)
  <2>1. ASSUME NEW i \in 1 .. n, NEW x \in Recs(t[i].recs) PROVE Reached(w.ts, x)
    <3>1. CASE i = n BY <1>f, <1>g, <2>1, <3>1 DEF PointsKept
    <3>2. CASE i # n
      <4>1. i \in 1 .. n - 1 /\ t[i] = files[i] BY <1>g, <1>j, <3>2
      <4>2. x \in O BY <2>1, <4>1 DEF Older
      <4> QED BY <1>f, <4>2 DEF PointsKept
    <3> QED BY <3>1, <3>2
  <2> QED BY <1>h, <2>1 DEF LogReached
<1> QED BY <1>c, <1>f, <1>g, <1>k, <1>m, ZenonT(60) DEF LogKept, PointsKept, t, w

\* An empty file added.
LEMMA RotateKept ==
  ASSUME NEW fs, NEW m \in Nat, LogOk(fs, m), NEW ts, LogKept(fs, ts)
  PROVE  LogKept(rotateIfFull(fs), ts)
<1>1. fs \in Seq(LogFile) /\ Len(fs) \in Nat /\ DOMAIN fs = 1 .. Len(fs) BY DEF LogOk
<1>2. CASE rotateIfFull(fs) = fs BY <1>2
<1>3. CASE rotateIfFull(fs) = Append(fs, EmptyFile)
  <2> DEFINE g == Append(fs, EmptyFile)
             n == Len(fs)
  <2>1. EmptyFile \in LogFile
    <3>1. <<>> \in Seq(Record) OBVIOUS
    <3> QED BY <3>1 DEF EmptyFile, LogFile
  <2>2. /\ DOMAIN g = 1 .. n + 1 /\ g[n + 1] = EmptyFile /\ \A i \in 1 .. n : g[i] = fs[i]
    BY <1>1, <2>1
  <2> HIDE DEF g
  <2>3. DOMAIN EmptyFile.recs = {} BY DEF EmptyFile
  <2>4. \A i \in 1 .. n + 1 : i = n + 1 \/ i \in 1 .. n BY <1>1
  <2>5. \A j \in 1 .. n : Older(g, j) = Older(fs, j)
    <3>1. ASSUME NEW j \in 1 .. n PROVE \A i \in 1 .. j - 1 : g[i].recs = fs[i].recs
      <4>1. \A i \in 1 .. j - 1 : i \in 1 .. n BY <1>1
      <4> QED BY <2>2, <4>1
    <3> QED BY <3>1, OlderSame
  <2>6. \A O : GapFits(O, EmptyFile.recs) /\ TimeFits(O, EmptyFile.recs) /\ Recs(EmptyFile.recs) = {}
    BY <2>3 DEF GapFits, TimeFits, Recs
  <2>7. ASSUME NEW j \in 1 .. n + 1
        PROVE  /\ GapFits(Older(g, j), g[j].recs)
               /\ g[j].needsSort \/ TimeFits(Older(g, j), g[j].recs)
               /\ \A x \in Recs(g[j].recs) : Reached(ts, x)
    <3>1. CASE j = n + 1
      <4>1. g[j] = EmptyFile BY <2>2, <3>1
      <4> QED BY <2>6, <4>1, Zenon
    <3>2. CASE j \in 1 .. n
      BY <1>1, <2>2, <2>5, <3>2 DEF LogKept, LogSpaced, LogSorted, LogReached
    <3> QED BY <2>4, <3>1, <3>2
  <2>8. LogKept(g, ts) BY <2>2, <2>7 DEF LogKept, LogSpaced, LogSorted, LogReached
  <2> QED BY <1>3, <2>8 DEF g
<1> QED BY <1>2, <1>3 DEF rotateIfFull

\* The first n files removed.
LEMMA SuffixKept ==
  ASSUME NEW fs, NEW m \in Nat, LogOk(fs, m), NEW n \in 0 .. Len(fs) - 1, NEW ts, LogKept(fs, ts)
  PROVE  LogKept(SubSeq(fs, n + 1, Len(fs)), ts)
<1> DEFINE g == SubSeq(fs, n + 1, Len(fs))
           l == Len(fs) - n
<1>1. Len(fs) \in Nat /\ DOMAIN fs = 1 .. Len(fs) BY DEF LogOk
<1>2. LogOk(g, m) /\ Len(g) = l /\ \A i \in 1 .. l : g[i] = fs[n + i] BY SuffixOk
<1>3. DOMAIN g = 1 .. l BY <1>2 DEF LogOk
<1> HIDE DEF g
<1>4. ASSUME NEW j \in 1 .. l
      PROVE  /\ GapFits(Older(g, j), g[j].recs)
             /\ g[j].needsSort \/ TimeFits(Older(g, j), g[j].recs)
             /\ \A x \in Recs(g[j].recs) : Reached(ts, x)
  <2>1. n + j \in DOMAIN fs BY <1>1
  <2>2. Older(g, j) \subseteq Older(fs, n + j)
    <3>1. \A i \in 1 .. j - 1 : i \in 1 .. l /\ n + i \in 1 .. (n + j) - 1 BY <1>1, SMTT(40)
    <3> QED BY <1>2, <3>1, ZenonT(60) DEF Older
  <2>3. g[j] = fs[n + j] BY <1>2
  <2> QED BY <2>1, <2>2, <2>3
          DEF LogKept, LogSpaced, LogSorted, LogReached, GapFits, TimeFits
<1> QED BY <1>3, <1>4 DEF LogKept, LogSpaced, LogSorted, LogReached, g

\* The tags' state: one entry per code.
StateOk(ts) == IsSeq(ts, meta) /\ \A c \in 1 .. meta : ts[c].tms \in Nat

\* The records of a file are met one by one: the recursion behind recoverFile is well-defined.
LEMMA RecoverSteps ==
  ASSUME NEW n \in Nat, NEW recs, Len(recs) = n, NEW ts
  PROVE  \E s : /\ recoverFile(ts, recs) = s /\ s[0] = ts
                /\ \A k \in 1 .. n : s[k] = recoverRec(s[k - 1], recs[k])
<1> DEFINE F(g) == [i \in 0 .. n |-> IF i = 0 THEN ts ELSE recoverRec(g[i - 1], recs[i])]
           Fn(g) == g = [i \in 0 .. n |-> g[i]]
           Ok(g, m) == /\ Fn(g) /\ g[0] = ts
                       /\ \A i \in 1 .. n : i <= m => g[i] = recoverRec(g[i - 1], recs[i])
           G == {m \in Nat : \E g : Ok(g, m)}
<1> HIDE DEF Fn
<1>1. 0 \in G
  <2>1. Ok([i \in 0 .. n |-> ts], 0) BY DEF Fn
  <2> HIDE DEF Ok
  <2> QED BY <2>1
<1>2. ASSUME NEW m \in Nat, m \in G PROVE m + 1 \in G
  <2>1. PICK f : Ok(f, m) BY <1>2
  <2> DEFINE g == [i \in 0 .. n |-> IF i = m + 1 THEN recoverRec(f[i - 1], recs[i]) ELSE f[i]]
  <2>2. Fn(g) /\ g[0] = ts BY <2>1 DEF Fn
  <2>3. ASSUME NEW i \in 1 .. n, i <= m + 1 PROVE g[i] = recoverRec(g[i - 1], recs[i])
    <3>1. i - 1 \in 0 .. n /\ i \in 0 .. n /\ i - 1 # m + 1 BY <2>3
    <3>2. g[i - 1] = f[i - 1] BY <3>1
    <3>3. CASE i = m + 1 BY <3>1, <3>2, <3>3
    <3>4. CASE i <= m BY <2>1, <3>1, <3>2, <3>4
    <3> QED BY <2>3, <3>3, <3>4
  <2> HIDE DEF g
  <2>4. Ok(g, m + 1) BY <2>2, <2>3
  <2> HIDE DEF Ok
  <2> QED BY <2>4
<1>3. n \in G
  <2> HIDE DEF G
  <2> QED BY <1>1, <1>2, SetInduction
<1>4. PICK g : Ok(g, n) BY <1>3
<1>5. g = F(g)
  <2>1. \A i \in 0 .. n : g[i] = F(g)[i]
    <3>1. g[0] = ts /\ \A i \in 1 .. n : g[i] = recoverRec(g[i - 1], recs[i]) BY <1>4
    <3> QED BY <3>1
  <2>2. g = [i \in 0 .. n |-> g[i]] BY <1>4 DEF Fn
  <2> QED BY <2>1, <2>2
<1> DEFINE s == CHOOSE h : h = F(h)
<1>6. s = F(s) BY <1>5
<1>7. recoverFile(ts, recs) = s BY DEF recoverFile
<1> HIDE DEF s
<1>8. s[0] = ts BY <1>6
<1>9. \A k \in 1 .. n : s[k] = recoverRec(s[k - 1], recs[k]) BY <1>6
<1> QED BY <1>7, <1>8, <1>9

\* A record raises its tag's state to its own time at least, and lowers none.
LEMMA RecoverRecKept ==
  ASSUME conf \in Configs, meta \in Nat, NEW ts, StateOk(ts), NEW r \in Coded
  PROVE  LET t == recoverRec(ts, r) IN
         /\ StateOk(t) /\ Reached(t, r)
         /\ \A x \in Coded : Reached(ts, x) => Reached(t, x)
<1> DEFINE t == recoverRec(ts, r)
           e == [tms |-> r.tms, v |-> r.v]
<1>0. \A x \in Coded : x.code \in 1 .. meta /\ x.tms \in Nat /\ x.v \in conf.vals BY CodedIs
<1>1. "none" \notin conf.vals /\ ts[r.code].tms \in Nat BY <1>0 DEF StateOk
<1>2. CASE ~(~Known(ts, r.code) \/ r.tms > ts[r.code].tms)
  <2>1. t = ts BY <1>2 DEF recoverRec
  <2>2. Reached(ts, r)
    <3>1. r.tms \in Nat BY <1>0
    <3>2. \A u, v \in Nat : ~(u > v) => u <= v OBVIOUS
    <3> QED BY <1>1, <1>2, <3>1, <3>2 DEF Reached
  <2> QED BY <2>1, <2>2
<1>3. CASE ~Known(ts, r.code) \/ r.tms > ts[r.code].tms
  <2>0. DOMAIN ts = 1 .. meta BY DEF StateOk, IsSeq
  <2>1. t = [ts EXCEPT ![r.code] = e] BY <1>3 DEF recoverRec
  <2>2. IsSeq(t, meta)
    <3> HIDE DEF t, e
    <3>1. IsSeq([ts EXCEPT ![r.code] = e], meta) BY SeqExcept DEF StateOk
    <3> QED BY <2>1, <3>1
  <2>3. \A c \in 1 .. meta : t[c] = IF c = r.code THEN e ELSE ts[c] BY <2>0, <2>1
  <2>4. e.tms = r.tms /\ e.v # "none" /\ r.tms \in Nat /\ r.code \in 1 .. meta BY <1>0, <1>1
  <2> HIDE DEF t, e
  <2>5. StateOk(t) BY <2>2, <2>3, <2>4 DEF StateOk
  <2>6. Reached(t, r) BY <2>3, <2>4 DEF Reached, Known
  <2>7. ASSUME NEW x \in Coded, Reached(ts, x) PROVE Reached(t, x)
    <3>1. CASE x.code = r.code
      <4>1. Known(ts, r.code) /\ x.tms <= ts[r.code].tms /\ x.tms \in Nat
        BY <1>0, <2>7, <3>1 DEF Reached
      <4>2. r.tms > ts[r.code].tms BY <1>3, <4>1
      <4>3. x.tms <= r.tms BY <1>1, <2>4, <4>1, <4>2
      <4> QED BY <2>3, <2>4, <3>1, <4>3 DEF Reached, Known
    <3>2. CASE x.code # r.code
      <4>1. t[x.code] = ts[x.code] BY <1>0, <2>3, <3>2
      <4> QED BY <2>7, <4>1 DEF Reached, Known
    <3> QED BY <3>1, <3>2
  <2> QED BY <2>5, <2>6, <2>7 DEF t
<1> QED BY <1>2, <1>3

\* A file met after the records of O: the state reaches them all, and without a late
\* record the file is in time order.
LEMMA RecoverFileKept ==
  ASSUME conf \in Configs, meta \in Nat, NEW recs \in Seq(Record), Recs(recs) \subseteq Coded,
         NEW ts, StateOk(ts), NEW O \in SUBSET Coded, \A x \in O : Reached(ts, x)
  PROVE  LET s == recoverFile(ts, recs) IN
         /\ StateOk(s[Len(recs)]) /\ \A x \in O \cup Recs(recs) : Reached(s[Len(recs)], x)
         /\ (\A k \in DOMAIN recs : ~late(s[k - 1], recs[k])) => TimeFits(O, recs)
<1> DEFINE n == Len(recs)
<1>1. n \in Nat /\ DOMAIN recs = 1 .. n OBVIOUS
<1>2. PICK s : /\ recoverFile(ts, recs) = s /\ s[0] = ts
               /\ \A k \in 1 .. n : s[k] = recoverRec(s[k - 1], recs[k])
  BY <1>1, RecoverSteps, SMTT(40)
<1> HIDE DEF n
<1>3. \A k \in 1 .. n : recs[k] \in Coded BY <1>1 DEF Recs
<1> DEFINE P(k) == /\ StateOk(s[k]) /\ \A x \in O : Reached(s[k], x)
                   /\ \A i \in 1 .. n : i <= k => Reached(s[k], recs[i])
           G == {k \in Nat : k <= n => P(k)}
<1>4. 0 \in G
  <2>1. \A i \in 1 .. n : ~(i <= 0) BY <1>1
  <2>2. P(0) BY <1>2, <2>1
  <2> HIDE DEF P
  <2> QED BY <2>2
<1>5. ASSUME NEW k \in Nat, k \in G PROVE k + 1 \in G
  <2> SUFFICES ASSUME k + 1 <= n PROVE P(k + 1)
    <3> HIDE DEF P
    <3> QED OBVIOUS
  <2>1. P(k)
    <3> HIDE DEF P
    <3> QED BY <1>1, <1>5
  <2>2. k + 1 \in 1 .. n /\ (k + 1) - 1 = k BY <1>1
  <2>3. s[k + 1] = recoverRec(s[k], recs[k + 1]) BY <1>2, <2>2
  <2>4. recs[k + 1] \in Coded BY <1>3, <2>2
  <2>5. /\ StateOk(s[k + 1]) /\ Reached(s[k + 1], recs[k + 1])
        /\ \A x \in Coded : Reached(s[k], x) => Reached(s[k + 1], x)
    BY <2>1, <2>3, <2>4, RecoverRecKept
  <2>6. \A i \in 1 .. n : i <= k + 1 => i = k + 1 \/ i <= k BY <1>1
  <2>7. \A i \in 1 .. n : i <= k + 1 => Reached(s[k + 1], recs[i])
    BY <1>3, <2>1, <2>5, <2>6
  <2>8. \A x \in O : Reached(s[k + 1], x) BY <2>1, <2>5
  <2> QED BY <2>5, <2>7, <2>8
<1>6. Nat \subseteq G
  <2> HIDE DEF G
  <2> QED BY <1>4, <1>5, SetInduction
<1>7. ASSUME NEW k \in 0 .. n PROVE P(k)
  <2>1. k \in Nat /\ k <= n BY <1>1
  <2> HIDE DEF P
  <2> QED BY <1>6, <2>1
<1>8. P(n)
  <2>1. n \in 0 .. n BY <1>1
  <2> HIDE DEF P
  <2> QED BY <1>7, <2>1
<1>9. \A x \in O \cup Recs(recs) : Reached(s[n], x)
  <2>1. \A i \in 1 .. n : i <= n BY <1>1
  <2>2. \A i \in 1 .. n : Reached(s[n], recs[i]) BY <1>8, <2>1
  <2> QED BY <1>1, <1>8, <2>2 DEF Recs
<1>10. ASSUME \A k \in DOMAIN recs : ~late(s[k - 1], recs[k]) PROVE TimeFits(O, recs)
  <2>1. ASSUME NEW l \in 1 .. n, NEW x \in Coded, Reached(s[l - 1], x) PROVE Ascends(x, recs[l])
    <3> SUFFICES ASSUME x.code = recs[l].code PROVE x.tms <= recs[l].tms BY DEF Ascends
    <3> DEFINE q == s[l - 1][x.code].tms
    <3>1. l - 1 \in 0 .. n BY <1>1
    <3>2. x.code \in 1 .. meta /\ x.tms \in Nat /\ recs[l].tms \in Nat BY <1>3, CodedIs
    <3>3. q \in Nat
      <4>1. StateOk(s[l - 1]) BY <1>7, <3>1
      <4> QED BY <3>2, <4>1 DEF StateOk
    <3>4. x.tms <= q /\ ~(recs[l].tms < q) BY <1>1, <1>10, <2>1 DEF Reached, late
    <3> HIDE DEF q
    <3> QED BY <3>2, <3>3, <3>4, SMTT(40)
  <2>2. ASSUME NEW x \in O, NEW l \in DOMAIN recs PROVE Ascends(x, recs[l])
    <3>1. l \in 1 .. n /\ l - 1 \in 0 .. n BY <1>1
    <3>2. Reached(s[l - 1], x) BY <1>7, <3>1
    <3> QED BY <2>1, <3>1, <3>2
  <2>3. ASSUME NEW k \in DOMAIN recs, NEW l \in DOMAIN recs, k < l PROVE Ascends(recs[k], recs[l])
    <3>1. l \in 1 .. n /\ l - 1 \in 0 .. n /\ k \in 1 .. n /\ k <= l - 1 BY <1>1, <2>3
    <3>2. Reached(s[l - 1], recs[k]) BY <1>7, <3>1
    <3> QED BY <1>3, <2>1, <3>1, <3>2
  <2> QED BY <2>2, <2>3 DEF TimeFits
<1> QED BY <1>2, <1>8, <1>9, <1>10 DEF n

\* The files are met one by one: the recursion behind NewWalFile is well-defined.
After(ts, recs) == recoverFile(ts, recs)[Len(recs)]
Marked(recs, ts) == \E k \in DOMAIN recs : late(recoverFile(ts, recs)[k - 1], recs[k])
Fresh(codes) == [c \in codes |-> NoState]
Meets(b, fs, n, codes) ==
  b[1] = Fresh(codes) /\ \A i \in 1 .. n : b[i + 1] = After(b[i], fs[i].recs)

SameRecs(g, fs, n) == \A i \in 1 .. n : g[i].recs = fs[i].recs
MarksLate(g, fs, n, b) == \A i \in 1 .. n : Marked(fs[i].recs, b[i]) => g[i].needsSort

\* What recovery has done before each file.
LEMMA BeforeSteps ==
  ASSUME NEW n \in Nat, NEW fs, Len(fs) = n, NEW codes
  PROVE  \E b : /\ Meets(b, fs, n, codes) /\ NewWalFile(fs, codes).ts = b[n + 1]
                /\ SameRecs(NewWalFile(fs, codes).files, fs, n)
                /\ MarksLate(NewWalFile(fs, codes).files, fs, n, b)
<1> DEFINE base == Fresh(codes)
           F(g) == [i \in 1 .. n + 1 |-> IF i = 1 THEN base ELSE After(g[i - 1], fs[i - 1].recs)]
           Fn(g) == g = [i \in 1 .. n + 1 |-> g[i]]
           Ok(g, m) == /\ Fn(g) /\ g[1] = base
                       /\ \A i \in 1 .. n : i <= m => g[i + 1] = After(g[i], fs[i].recs)
           G == {m \in Nat : \E g : Ok(g, m)}
<1> HIDE DEF Fn, base
<1>0. 1 \in 1 .. n + 1 /\ \A i \in 1 .. n : i \in 1 .. n + 1 /\ i + 1 \in 1 .. n + 1 OBVIOUS
<1>1. 0 \in G
  <2>0. \A i \in 1 .. n : ~(i <= 0) OBVIOUS
  <2>1. Ok([i \in 1 .. n + 1 |-> base], 0) BY <1>0, <2>0 DEF Fn
  <2> HIDE DEF Ok
  <2> QED BY <2>1
<1>2. ASSUME NEW m \in Nat, m \in G PROVE m + 1 \in G
  <2>1. PICK f : Ok(f, m) BY <1>2
  <2> DEFINE g == [i \in 1 .. n + 1 |-> IF i = m + 2 THEN After(f[i - 1], fs[i - 1].recs) ELSE f[i]]
  <2>2. Fn(g) /\ g[1] = base
    <3>1. 1 # m + 2 OBVIOUS
    <3>2. g[1] = f[1] BY <1>0, <3>1
    <3> QED BY <2>1, <3>2 DEF Fn
  <2>3. ASSUME NEW i \in 1 .. n, i <= m + 1 PROVE g[i + 1] = After(g[i], fs[i].recs)
    <3>1. i \in 1 .. n + 1 /\ i + 1 \in 1 .. n + 1 /\ i # m + 2 /\ (i + 1) - 1 = i BY <2>3
    <3>2. g[i] = f[i] BY <3>1
    <3>3. CASE i = m + 1
      <4>1. i + 1 = m + 2 BY <3>3
      <4>2. g[i + 1] = After(f[(i + 1) - 1], fs[(i + 1) - 1].recs) BY <3>1, <4>1
      <4> QED BY <3>1, <3>2, <4>2
    <3>4. CASE i <= m
      <4>1. i + 1 # m + 2 BY <3>4
      <4>2. g[i + 1] = f[i + 1] BY <3>1, <4>1
      <4> QED BY <2>1, <3>2, <3>4, <4>2
    <3>5. i = m + 1 \/ i <= m
      <4> HIDE DEF g, Ok
      <4> QED BY <2>3
    <3> QED BY <3>3, <3>4, <3>5
  <2> HIDE DEF g
  <2>4. Ok(g, m + 1) BY <2>2, <2>3
  <2> HIDE DEF Ok
  <2> QED BY <2>4
<1>3. n \in G
  <2> HIDE DEF G
  <2> QED BY <1>1, <1>2, SetInduction
<1>4. PICK g : Ok(g, n) BY <1>3
<1>5. g = F(g)
  <2>0. \A i \in 1 .. n : i <= n OBVIOUS
  <2>1. \A i \in 1 .. n : g[i + 1] = After(g[i], fs[i].recs) BY <1>4, <2>0
  <2>2. ASSUME NEW i \in 1 .. n + 1 PROVE g[i] = F(g)[i]
    <3>1. CASE i = 1 BY <1>4, <3>1
    <3>2. CASE i # 1
      <4>1. i - 1 \in 1 .. n /\ (i - 1) + 1 = i BY <3>2
      <4>2. g[i] = After(g[i - 1], fs[i - 1].recs) BY <2>1, <4>1
      <4> QED BY <3>2, <4>2
    <3> QED BY <3>1, <3>2
  <2>3. g = [i \in 1 .. n + 1 |-> g[i]] BY <1>4 DEF Fn
  <2> QED BY <2>2, <2>3
<1> DEFINE K(h) == [i \in 1 .. Len(fs) + 1 |->
                     IF i = 1 THEN [c \in codes |-> NoState]
                     ELSE recoverFile(h[i - 1], fs[i - 1].recs)[Len(fs[i - 1].recs)]]
           b == CHOOSE h : h = K(h)
<1>k. \A h : K(h) = F(h) BY SMTT(40) DEF base, Fresh, After
<1>6. b = F(b)
  <2>1. g = K(g) BY <1>5, <1>k
  <2> HIDE DEF F
  <2>2. b = K(b) BY <2>1, ZenonT(60)
  <2> QED BY <1>k, <2>2, ZenonT(60)
<1>7. /\ NewWalFile(fs, codes).ts = b[n + 1]
      /\ NewWalFile(fs, codes).files = [i \in 1 .. n |->
           [recs |-> fs[i].recs, needsSort |-> Marked(fs[i].recs, b[i])]]
  <2>1. NewWalFile(fs, codes).ts = b[Len(fs) + 1] BY DEF NewWalFile
  <2>2. NewWalFile(fs, codes).files = [i \in 1 .. Len(fs) |->
          [recs |-> fs[i].recs, needsSort |-> Marked(fs[i].recs, b[i])]]
    BY DEF NewWalFile, Marked
  <2> HIDE DEF b
  <2> QED BY <2>1, <2>2
<1> HIDE DEF b
<1>8. b[1] = base BY <1>0, <1>6
<1>9. ASSUME NEW i \in 1 .. n PROVE b[i + 1] = After(b[i], fs[i].recs)
  <2>1. i + 1 \in 1 .. n + 1 /\ i + 1 # 1 /\ (i + 1) - 1 = i OBVIOUS
  <2>2. b[i + 1] = After(b[(i + 1) - 1], fs[(i + 1) - 1].recs) BY <1>6, <2>1
  <2> QED BY <2>1, <2>2
<1> HIDE DEF F
<1>10. Meets(b, fs, n, codes) BY <1>8, <1>9 DEF Meets, base
<1>11. SameRecs(NewWalFile(fs, codes).files, fs, n) BY <1>7 DEF SameRecs
<1>12. MarksLate(NewWalFile(fs, codes).files, fs, n, b) BY <1>7 DEF MarksLate
<1> QED BY <1>7, <1>10, <1>11, <1>12

\* The log as NewWalFile finds it: marked where it is out of order, and the tags' state
\* reaches every record.
LEMMA RecoverKept ==
  ASSUME conf \in Configs, meta \in Nat, NEW m \in 0 .. meta, NEW fs, LogOk(fs, m), LogSpaced(fs)
  PROVE  LET w == NewWalFile(fs, 1 .. meta) IN LogKept(w.files, w.ts) /\ StateOk(w.ts)
<1> DEFINE w == NewWalFile(fs, 1 .. meta)
           n == Len(fs)
<1>1. n \in Nat /\ DOMAIN fs = 1 .. n BY DEF LogOk
<1>2. PICK b : /\ Meets(b, fs, n, 1 .. meta) /\ w.ts = b[n + 1]
               /\ SameRecs(w.files, fs, n) /\ MarksLate(w.files, fs, n, b)
  <2> DEFINE C == 1 .. meta
  <2> HIDE DEF C, n
  <2>1. n = Len(fs) BY DEF n
  <2>2. \E b : /\ Meets(b, fs, n, C) /\ NewWalFile(fs, C).ts = b[n + 1]
              /\ SameRecs(NewWalFile(fs, C).files, fs, n)
              /\ MarksLate(NewWalFile(fs, C).files, fs, n, b)
    BY <1>1, <2>1, BeforeSteps
  <2> QED BY <2>2 DEF C
<1>3. LogOk(w.files, m) /\ Len(w.files) = n BY RecoverOk
<1>4. DOMAIN w.files = 1 .. n BY <1>3 DEF LogOk
<1>5. /\ \A i \in 1 .. n : Recs(fs[i].recs) \subseteq Coded /\ fs[i].recs \in Seq(Record)
      /\ \A j \in 1 .. n : Older(fs, j) \subseteq Coded
  BY <1>1, LogCoded
<1> HIDE DEF w, n
<1> DEFINE P(i) == StateOk(b[i]) /\ \A x \in Older(fs, i) : Reached(b[i], x)
           G == {i \in Nat : i <= n => P(i + 1)}
<1>6. 0 \in G
  <2>1. b[1] = [c \in 1 .. meta |-> NoState] BY <1>2 DEF Meets, Fresh
  <2>2. StateOk(b[1])
    <3>1. NoState.tms \in Nat BY DEF NoState
    <3>2. \A c \in 1 .. meta : b[1][c] = NoState BY <2>1
    <3>3. IsSeq(b[1], meta) BY <2>1 DEF IsSeq
    <3> QED BY <3>1, <3>2, <3>3 DEF StateOk
  <2>3. Older(fs, 1) = {}
    <3>1. 1 .. 1 - 1 = {} OBVIOUS
    <3> QED BY <3>1 DEF Older
  <2>4. P(1) BY <2>2, <2>3
  <2> HIDE DEF P
  <2> QED BY <2>4
<1>7. ASSUME NEW i \in 1 .. n, P(i)
      PROVE  /\ P(i + 1)
             /\ Marked(fs[i].recs, b[i]) \/ TimeFits(Older(fs, i), fs[i].recs)
  <2> DEFINE O == Older(fs, i)
             r == fs[i].recs
             s == recoverFile(b[i], r)
  <2>1. b[i + 1] = s[Len(r)] BY <1>2 DEF Meets, After
  <2>2. O \in SUBSET Coded /\ r \in Seq(Record) /\ Recs(r) \subseteq Coded BY <1>5
  <2>3. StateOk(b[i]) /\ \A x \in O : Reached(b[i], x) BY <1>7
  <2> HIDE DEF O, r
  <2>4. /\ StateOk(s[Len(r)]) /\ \A x \in O \cup Recs(r) : Reached(s[Len(r)], x)
        /\ (\A k \in DOMAIN r : ~late(s[k - 1], r[k])) => TimeFits(O, r)
    BY <2>2, <2>3, RecoverFileKept
  <2>5. Older(fs, i + 1) = O \cup Recs(r)
    <3>1. 1 .. (i + 1) - 1 = 1 .. i /\ i \in 1 .. i /\ \A j \in 1 .. i : j = i \/ j \in 1 .. i - 1
      OBVIOUS
    <3>2. \A j \in 1 .. i - 1 : j \in 1 .. i OBVIOUS
    <3> QED BY <3>1, <3>2 DEF Older, O, r
  <2>6. P(i + 1) BY <2>1, <2>4, <2>5
  <2>7. Marked(r, b[i]) \/ TimeFits(O, r) BY <2>4 DEF Marked
  <2> QED BY <2>6, <2>7 DEF O, r
<1>8. ASSUME NEW i \in Nat, i \in G PROVE i + 1 \in G
  <2> SUFFICES ASSUME i + 1 <= n PROVE P((i + 1) + 1)
    <3> HIDE DEF P
    <3> QED OBVIOUS
  <2>1. i + 1 \in 1 .. n /\ i <= n BY <1>1
  <2> HIDE DEF P
  <2>2. P(i + 1) BY <1>8, <2>1
  <2> QED BY <1>7, <2>1, <2>2
<1>9. Nat \subseteq G
  <2> HIDE DEF G
  <2> QED BY <1>6, <1>8, SetInduction
<1>10. ASSUME NEW i \in 1 .. n + 1 PROVE P(i)
  <2>1. i - 1 \in Nat /\ i - 1 <= n /\ (i - 1) + 1 = i BY <1>1
  <2> HIDE DEF P
  <2>2. P((i - 1) + 1) BY <1>9, <2>1
  <2> QED BY <2>1, <2>2
<1>11. P(n + 1)
  <2>1. n + 1 \in 1 .. n + 1 BY <1>1
  <2> HIDE DEF P
  <2> QED BY <1>10, <2>1
<1>12. \A i \in 1 .. n : Marked(fs[i].recs, b[i]) \/ TimeFits(Older(fs, i), fs[i].recs)
  <2>1. \A i \in 1 .. n : i \in 1 .. n + 1 BY <1>1
  <2> HIDE DEF P
  <2> QED BY <1>7, <1>10, <2>1
<1>13. \A i \in 1 .. n : w.files[i].recs = fs[i].recs BY <1>2 DEF SameRecs
<1>18. \A i \in 1 .. n : Marked(fs[i].recs, b[i]) => w.files[i].needsSort BY <1>2 DEF MarksLate
<1>14. \A j \in 1 .. n : Older(w.files, j) = Older(fs, j)
  <2>1. ASSUME NEW j \in 1 .. n PROVE \A i \in 1 .. j - 1 : w.files[i].recs = fs[i].recs
    <3>1. \A i \in 1 .. j - 1 : i \in 1 .. n BY <1>1
    <3> QED BY <1>13, <3>1
  <2> QED BY <2>1, OlderSame
<1>15. LogSpaced(w.files) BY <1>1, <1>4, <1>13, <1>14 DEF LogSpaced
<1>16. LogSorted(w.files) BY <1>4, <1>12, <1>13, <1>14, <1>18 DEF LogSorted
<1>17. LogReached(w.files, w.ts)
  <2>1. ASSUME NEW i \in 1 .. n, NEW x \in Recs(fs[i].recs) PROVE Reached(w.ts, x)
    <3>1. x \in Older(fs, n + 1)
      <4>1. i \in 1 .. (n + 1) - 1 BY <1>1
      <4> QED BY <2>1, <4>1 DEF Older
    <3> QED BY <1>2, <1>11, <3>1
  <2> QED BY <1>4, <1>13, <2>1 DEF LogReached
<1> QED BY <1>2, <1>11, <1>15, <1>16, <1>17 DEF LogKept, w

\* The times of finitely many records are bounded.
LEMMA TimesBounded ==
  ASSUME NEW s \in Seq(Record)
  PROVE  \E B \in Nat : \A i \in DOMAIN s : s[i].tms <= B
<1> DEFINE n == Len(s)
           Below(B, m) == \A i \in 1 .. n : i <= m => s[i].tms <= B
           G == {m \in Nat : \E B \in Nat : Below(B, m)}
<1>1. n \in Nat /\ DOMAIN s = 1 .. n OBVIOUS
<1>2. \A i \in 1 .. n : s[i].tms \in Nat
  <2>1. \A i \in 1 .. n : s[i] \in Record BY <1>1
  <2>2. \A r \in Record : r.tms \in Times BY DEF Record
  <2> QED BY <2>1, <2>2
<1> HIDE DEF n
<1>3. 0 \in G
  <2>1. \A i \in 1 .. n : ~(i <= 0) BY <1>1
  <2> QED BY <2>1
<1>4. ASSUME NEW m \in Nat, m \in G PROVE m + 1 \in G
  <2>1. PICK B \in Nat : Below(B, m) BY <1>4
  <2>2. PICK C \in Nat : B <= C /\ (m + 1 \in 1 .. n => s[m + 1].tms <= C)
    <3>1. CASE m + 1 \in 1 .. n
      <4>1. PICK x \in Nat : x = s[m + 1].tms BY <1>2, <3>1
      <4>2. B + x \in Nat /\ B <= B + x /\ x <= B + x OBVIOUS
      <4> QED BY <4>1, <4>2
    <3>2. CASE m + 1 \notin 1 .. n
      <4>1. B <= B OBVIOUS
      <4> QED BY <3>2, <4>1
    <3> QED BY <3>1, <3>2
  <2>3. ASSUME NEW i \in 1 .. n, i <= m + 1 PROVE s[i].tms <= C
    <3>1. i = m + 1 \/ i <= m BY <1>1, <2>3
    <3>2. CASE i = m + 1 BY <2>2, <3>2
    <3>3. CASE i <= m
      <4>1. PICK x \in Nat : x = s[i].tms BY <1>2
      <4>2. x <= B /\ B <= C BY <2>1, <2>2, <3>3, <4>1
      <4>3. x <= C BY <4>2
      <4> QED BY <4>1, <4>3
    <3> QED BY <3>1, <3>2, <3>3
  <2>4. Below(C, m + 1) BY <2>3
  <2> HIDE DEF Below
  <2> QED BY <2>4
<1>5. n \in G
  <2> HIDE DEF G
  <2> QED BY <1>1, <1>3, <1>4, SetInduction
<1>6. \A i \in 1 .. n : i <= n BY <1>1
<1> QED BY <1>1, <1>5, <1>6

\* The last point found in the segments replaces an older state only.
LEMMA LastPointKept ==
  ASSUME conf \in Configs, meta \in Nat, segs \in Seq(Record), NEW ts, StateOk(ts),
         NEW c \in 1 .. meta, NEW found
  PROVE  LET e == SetLastPoint(ts, c, found) IN
         /\ e.tms \in Nat
         /\ Known(ts, c) => e.v # "none" /\ ts[c].tms <= e.tms
<1> DEFINE I == {j \in DOMAIN segs : segs[j].code = c}
           T == {segs[i].tms : i \in I}
           top == CHOOSE t \in T : \A u \in T : u <= t
           last == CHOOSE i \in DOMAIN segs : segs[i].code = c /\ segs[i].tms = top
           e == SetLastPoint(ts, c, found)
<1>0. ts[c].tms \in Nat BY DEF StateOk
<1>1. e = IF c \in found /\ T # {} /\ (~Known(ts, c) \/ top > ts[c].tms)
          THEN [tms |-> top, v |-> segs[last].v] ELSE ts[c]
  BY DEF SetLastPoint
<1> HIDE DEF e
<1>2. CASE ~(c \in found /\ T # {} /\ (~Known(ts, c) \/ top > ts[c].tms))
  <2>1. e = ts[c] BY <1>1, <1>2
  <2>2. ts[c].tms <= ts[c].tms BY <1>0, SMTT(40)
  <2> QED BY <1>0, <2>1, <2>2, SMTT(40) DEF Known, e
<1>3. CASE c \in found /\ T # {} /\ (~Known(ts, c) \/ top > ts[c].tms)
  <2>1. e = [tms |-> top, v |-> segs[last].v] BY <1>1, <1>3
  <2>2. \A i \in DOMAIN segs : segs[i].tms \in Nat /\ segs[i].v \in conf.vals
    <3>1. \A i \in DOMAIN segs : segs[i] \in Record OBVIOUS
    <3>2. \A r \in Record : r.tms \in Times /\ r.v \in conf.vals BY DEF Record
    <3> QED BY <3>1, <3>2
  <2>3. PICK B \in Nat : \A i \in DOMAIN segs : segs[i].tms <= B BY TimesBounded
  <2>4. T \in SUBSET (0 .. B) BY <2>2, <2>3
  <2> HIDE DEF T
  <2>5. \E t \in T : \A u \in T : u <= t BY <1>3, <2>4, Greatest
  <2>6. top \in T BY <2>5
  <2> HIDE DEF top
  <2>7. \E i \in DOMAIN segs : segs[i].code = c /\ segs[i].tms = top BY <2>6 DEF T
  <2>8. last \in DOMAIN segs BY <2>7
  <2> HIDE DEF last
  <2>9. top \in Nat /\ segs[last].v # "none" BY <2>2, <2>4, <2>6, <2>8
  <2>10. e.tms = top /\ e.v = segs[last].v BY <2>1
  <2>11. Known(ts, c) => ts[c].tms <= top BY <1>0, <1>3, <2>9
  <2> QED BY <2>9, <2>10, <2>11 DEF e
<1> QED BY <1>2, <1>3

\* The part of the batch a crash leaves.
LEMMA TornBatch ==
  ASSUME TInv, NEW k \in getAllData
  PROVE  SubSeq(batch, 1, k) \in Seq(Record) /\ Upto(SubSeq(batch, 1, k), metaDisk)
<1>1. batch \in Seq(Record) BY DEF TInv, Numbered
<1>2. CASE k = 0
  <2>1. SubSeq(batch, 1, k) = <<>> BY <1>1, <1>2
  <2>2. <<>> \in Seq(Record) /\ Upto(<<>>, metaDisk) BY DEF Upto
  <2> QED BY <2>1, <2>2
<1>3. CASE k # 0
  <2>1. pc \in {"wal", "retry"} /\ k \in 1 .. Len(batch) BY <1>1, <1>3 DEF getAllData
  <2>2. Upto(batch, metaDisk) BY <2>1 DEF TInv, Codes
  <2> DEFINE s == SubSeq(batch, 1, k)
  <2>3. s \in Seq(Record) /\ Len(s) = k /\ \A i \in 1 .. k : s[i] = batch[i] BY <1>1, <2>1
  <2>4. DOMAIN s = 1 .. k /\ \A i \in 1 .. k : i \in DOMAIN batch BY <1>1, <2>1, <2>3
  <2> HIDE DEF s
  <2>5. Upto(s, metaDisk) BY <2>2, <2>3, <2>4 DEF Upto
  <2> QED BY <2>3, <2>5 DEF s
<1> QED BY <1>2, <1>3

\* A crash: the log recovered is in order or marked, and the tags' state reaches it.
LEMMA CrashPolicy ==
  ASSUME TInv, Policy, segs \in Seq(Record), Crash
  PROVE  Policy'
<1>1. PICK m \in readEntries, k \in getAllData,
           g \in 0 .. (IF fpc = "remove" THEN fcount ELSE 0), found \in SUBSET (1 .. meta) :
        CrashTo(m, k, g, found)
  BY CrashParts
<1> DEFINE w == NewWalFile(Left(k, g), 1 .. meta)
<1>2. /\ meta' = m /\ files' = w.files
      /\ tagState' = [c \in 1 .. m |-> SetLastPoint(w.ts, c, found)]
  BY <1>1 DEF CrashTo
<1>3. conf' = conf BY CrashResets
<1>m. /\ metaDisk \in 0 .. meta /\ metaDisk \in Nat /\ meta \in Nat /\ conf \in Configs
      /\ m \in metaDisk .. meta
  <2>1. meta \in Nat /\ metaDisk \in 0 .. meta /\ conf \in Configs BY DEF TInv, Types
  <2>2. m \in metaDisk .. meta BY <2>1 DEF readEntries
  <2> QED BY <2>1, <2>2
<1>4. \E ts : LogKept(Torn(k), ts) /\ LogOk(Torn(k), metaDisk) /\ Len(Torn(k)) = Len(files)
  <2> DEFINE s == SubSeq(batch, 1, k)
  <2>1. s \in Seq(Record) /\ Upto(s, metaDisk) BY TornBatch
  <2>2. Torn(k) = [files EXCEPT ![Len(files)] = Written(s).file] BY DEF Torn
  <2> HIDE DEF s
  <2>3. LET t == [files EXCEPT ![Len(files)] = Written(s).file]
        IN LogKept(t, Written(s).ts) /\ LogOk(t, metaDisk) /\ Len(t) = Len(files)
    BY <2>1, TornKept
  <2> QED BY <2>2, <2>3
<1>5. LogOk(w.files, metaDisk) /\ g \in 0 .. Len(files) - 1 BY CrashLog
<1>6. \E ts : LogKept(Left(k, g), ts) /\ LogOk(Left(k, g), metaDisk)
  <2>1. PICK ts : LogKept(Torn(k), ts) /\ LogOk(Torn(k), metaDisk) /\ Len(Torn(k)) = Len(files)
    BY <1>4
  <2>2. LogKept(SubSeq(Torn(k), g + 1, Len(Torn(k))), ts) BY <1>5, <1>m, <2>1, SuffixKept
  <2>3. LogOk(SubSeq(Torn(k), g + 1, Len(Torn(k))), metaDisk) BY <1>5, <1>m, <2>1, SuffixOk
  <2> QED BY <2>2, <2>3 DEF Left
<1>7. LogKept(w.files, w.ts) /\ StateOk(w.ts)
  <2> DEFINE L == Left(k, g)
  <2>1. LogOk(L, metaDisk) /\ LogSpaced(L) BY <1>6 DEF LogKept
  <2> HIDE DEF L
  <2>2. LET q == NewWalFile(L, 1 .. meta) IN LogKept(q.files, q.ts) /\ StateOk(q.ts)
    BY <1>m, <2>1, RecoverKept
  <2> QED BY <2>2 DEF L
<1> HIDE DEF w
<1>8. ASSUME NEW c \in 1 .. m
      PROVE  /\ tagState'[c].tms \in Nat
             /\ Known(w.ts, c) => Known(tagState', c) /\ w.ts[c].tms <= tagState'[c].tms
  <2> DEFINE e == SetLastPoint(w.ts, c, found)
  <2>1. c \in 1 .. meta BY <1>m
  <2>2. tagState'[c] = e BY <1>2
  <2>3. e.tms \in Nat /\ (Known(w.ts, c) => e.v # "none" /\ w.ts[c].tms <= e.tms)
    BY <1>7, <1>m, <2>1, LastPointKept
  <2> HIDE DEF e
  <2> QED BY <2>2, <2>3 DEF Known
<1>9. LogReached(w.files, tagState')
  <2>1. ASSUME NEW i \in DOMAIN w.files, NEW x \in Recs(w.files[i].recs) PROVE Reached(tagState', x)
    <3>1. Reached(w.ts, x) BY <1>7, <2>1 DEF LogKept, LogReached
    <3>2. x \in Record /\ x.code <= metaDisk
      <4>1. w.files[i] \in LogFile /\ Upto(w.files[i].recs, metaDisk) BY <1>5 DEF LogOk
      <4>2. w.files[i].recs \in Seq(Record) BY <4>1 DEF LogFile
      <4> QED BY <2>1, <4>1, <4>2 DEF Recs, Upto
    <3>3. x.code \in Nat \ {0} /\ x.tms \in Times BY <3>2 DEF Record
    <3>4. \A u, v \in Nat : u # 0 /\ u <= v => \A y \in v .. meta : u \in 1 .. y BY <1>m, SMTT(40)
    <3>5. x.code \in 1 .. m /\ x.code \in 1 .. meta BY <1>m, <3>2, <3>3, <3>4
    <3>6. x.tms \in Nat /\ w.ts[x.code].tms \in Nat BY <1>7, <3>3, <3>5 DEF StateOk
    <3>7. \A p, q, r \in Nat : p <= q /\ q <= r => p <= r BY SMTT(40)
    <3> QED BY <1>8, <3>1, <3>5, <3>6, <3>7 DEF Reached
  <2> QED BY <2>1 DEF LogReached
<1>10. LogSpaced(files)' /\ LogSorted(files)'
  <2>1. LogSpaced(w.files) /\ LogSorted(w.files) BY <1>7 DEF LogKept
  <2> QED BY <1>2, <1>3, <2>1, SMTT(40)
          DEF LogSpaced, LogSorted, GapFits, TimeFits, Gap, Ascends, Older, Recs
<1>11. LogReached(files, tagState)' BY <1>2, <1>9, SMTT(40) DEF LogReached, Reached, Known, Recs
<1> QED BY <1>2, <1>8, <1>10, <1>11 DEF Policy

\* Policy' from the next log and the next state of the tags.
LEMMA PolicyNext ==
  ASSUME conf' = conf, LogKept(files', tagState'), \A c \in 1 .. meta' : tagState'[c].tms \in Nat
  PROVE  Policy'
<1>1. LogSpaced(files') /\ LogSorted(files') /\ LogReached(files', tagState') BY DEF LogKept
<1>2. LogSpaced(files)' /\ LogSorted(files)'
  BY <1>1 DEF LogSpaced, LogSorted, GapFits, TimeFits, Gap, Ascends, Older, Recs
<1>3. LogReached(files, tagState)' BY <1>1 DEF LogReached, Reached, Known, Recs
<1> QED BY <1>2, <1>3 DEF Policy

\* New tags have no state yet.
LEMMA PreparePolicy ==
  ASSUME TInv, TInv', Policy, Prepare
  PROVE  Policy'
<1>1. conf' = conf /\ files' = files BY DEF Prepare
<1>2. /\ \A c \in 1 .. meta : tagState'[c] = tagState[c]
      /\ \A c \in meta + 1 .. meta' : tagState'[c] = NoState
      /\ meta <= meta' /\ meta \in Nat /\ meta' \in Nat
  BY PrepareAdds DEF TInv, Types
<1>3. \A c \in 1 .. meta' : c \in 1 .. meta \/ c \in meta + 1 .. meta' BY <1>2
<1>4. NoState.tms \in Nat BY DEF NoState
<1>5. \A c \in 1 .. meta' : tagState'[c].tms \in Nat BY <1>2, <1>3, <1>4 DEF Policy
<1>6. LogReached(files, tagState')
  <2>1. ASSUME NEW i \in DOMAIN files, NEW x \in Recs(files[i].recs) PROVE Reached(tagState', x)
    <3>1. LogOk(files, metaDisk) /\ metaDisk \in 0 .. meta BY DEF TInv, Types, Codes, LogOk
    <3>2. x \in Coded BY <1>2, <2>1, <3>1, LogCoded
    <3>3. x.code \in 1 .. meta BY <1>2, <3>2, CodedIs
    <3>4. tagState'[x.code] = tagState[x.code] BY <1>2, <3>3
    <3>5. Reached(tagState, x) BY <2>1 DEF Policy, LogReached
    <3> QED BY <3>4, <3>5 DEF Reached, Known
  <2> QED BY <2>1 DEF LogReached
<1>7. LogKept(files', tagState') BY <1>1, <1>6 DEF Policy, LogKept
<1> QED BY <1>1, <1>5, <1>7, PolicyNext

\* The batch is written, point by point, and a full file is followed by an empty one.
LEMMA WriteRunsPolicy ==
  ASSUME TInv, Policy, WriteRuns
  PROVE  Policy'
<1> DEFINE w == Written(batch)
           t == [files EXCEPT ![Len(files)] = w.file]
<1>1. /\ pc \in {"wal", "retry"} /\ files' = rotateIfFull(t) /\ tagState' = w.ts
      /\ conf' = conf /\ meta' = meta
  BY DEF WriteRuns
<1>2. batch \in Seq(Record) /\ Upto(batch, metaDisk) /\ metaDisk \in Nat
  BY <1>1 DEF TInv, Types, Numbered, Codes
<1>3. /\ LogKept(t, w.ts) /\ LogOk(t, metaDisk)
      /\ \A c \in 1 .. meta : w.ts[c].tms \in Nat
  BY <1>2, TornKept
<1> HIDE DEF t, w
<1>4. LogKept(rotateIfFull(t), w.ts) BY <1>2, <1>3, RotateKept
<1> QED BY <1>1, <1>3, <1>4, PolicyNext

\* The flushed files are removed.
LEMMA TruncatedPolicy ==
  ASSUME TInv, Policy, Truncated
  PROVE  Policy'
<1>1. /\ fpc = "remove" /\ files' = truncate(files, fcount)
      /\ UNCHANGED <<conf, meta, tagState>>
  BY DEF Truncated
<1>2. LogOk(files, metaDisk) /\ metaDisk \in Nat /\ fcount \in Nat /\ Len(files) \in Nat
  BY DEF TInv, Types, Codes, LogOk
<1>3. fcount < Len(files) BY <1>1 DEF TInv, Locks
<1>4. fcount \in 0 .. Len(files) - 1 /\ ~(fcount >= Len(files)) BY <1>2, <1>3
<1>5. files' = SubSeq(files, fcount + 1, Len(files)) BY <1>1, <1>4 DEF truncate
<1>6. LogKept(files, tagState) BY DEF Policy, LogKept
<1>7. LogKept(files', tagState') BY <1>1, <1>2, <1>4, <1>5, <1>6, SuffixKept
<1>8. \A c \in 1 .. meta' : tagState'[c].tms \in Nat BY <1>1 DEF Policy
<1> QED BY <1>1, <1>7, <1>8, PolicyNext

\* Every step keeps the log under the policies.
LEMMA NextPolicy == TInv /\ TInv' /\ Data /\ Policy /\ [Next]_vars => Policy'
<1> SUFFICES ASSUME TInv, TInv', Data, Policy, [Next]_vars PROVE Policy' OBVIOUS
<1>0. ASSUME UNCHANGED <<conf, meta, files, tagState>> PROVE Policy'
  <2>1. LogKept(files', tagState') BY <1>0 DEF Policy, LogKept
  <2>2. \A c \in 1 .. meta' : tagState'[c].tms \in Nat BY <1>0 DEF Policy
  <2> QED BY <1>0, <2>1, <2>2, PolicyNext
<1>1. CASE UNCHANGED vars BY <1>0, <1>1 DEF vars, walVars
<1>2. CASE Worker
  <2>1. CASE WriteRuns BY <2>1, WriteRunsPolicy
  <2>2. CASE ~WriteRuns
    BY <1>0, <1>2, <2>2, SMTT(40)
    DEF Worker, MetaFlush, WalFull, LockFlush, NoFlush, StartFlush, walVars
  <2> QED BY <2>1, <2>2
<1>3. CASE Flush
  <2>1. CASE Truncated BY <2>1, TruncatedPolicy
  <2>2. CASE ~Truncated
    BY <1>0, <1>3, <2>2, ZenonT(60)
    DEF Flush, FlushStart, Encode, EncodeRest, CommitTransaction, FlushFail, walVars
  <2> QED BY <2>1, <2>2
<1>4. CASE OpenIter \/ CloseIter BY <1>0, <1>4 DEF OpenIter, CloseIter, walVars
<1>5. CASE Prepare BY <1>5, PreparePolicy
<1>6. CASE Crash BY <1>6, CrashPolicy DEF Data
<1> QED BY <1>1, <1>2, <1>3, <1>4, <1>5, <1>6 DEF Next

\* The table starts empty.
LEMMA InitPolicy == Init => Data /\ Touched /\ Policy
<1> SUFFICES ASSUME Init PROVE Data /\ Touched /\ Policy OBVIOUS
<1> USE DEF Init
<1>1. <<>> \in Seq(Record) /\ 1 .. 0 = {} OBVIOUS
<1>2. Data BY <1>1 DEF Data
<1>3. DOMAIN files = 1 .. 1 /\ files[1] = EmptyFile OBVIOUS
<1>4. DOMAIN EmptyFile.recs = {} BY DEF EmptyFile
<1>5. \A i \in DOMAIN files : DOMAIN files[i].recs = {} /\ Recs(files[i].recs) = {}
  BY <1>3, <1>4 DEF Recs
<1>6. LogSpaced(files) BY <1>5 DEF LogSpaced, GapFits
<1>7. LogSorted(files) BY <1>5 DEF LogSorted, TimeFits
<1>8. LogReached(files, tagState) BY <1>5 DEF LogReached
<1> QED BY <1>1, <1>2, <1>6, <1>7, <1>8 DEF Policy, Touched

\* Where the records of joined sequences come from.
From(r, s, n) == \E i \in 1 .. n : \E k \in DOMAIN s[i] : r = s[i][k]
InTurn(q, r, s, n) ==
  \E i, j \in 1 .. n : \E k \in DOMAIN s[i], l \in DOMAIN s[j] :
    q = s[i][k] /\ r = s[j][l] /\ (i < j \/ (i = j /\ k < l))
Turns(f, s, n) ==
  /\ \A p \in DOMAIN f : From(f[p], s, n)
  /\ \A p, q \in DOMAIN f : p < q => InTurn(f[p], f[q], s, n)

\* Two elements of different sequences are in turn.
LEMMA TurnMade ==
  ASSUME NEW s, NEW N \in Nat, NEW i \in 1 .. N, NEW j \in 1 .. N, i < j,
         NEW q, NEW r, NEW k \in DOMAIN s[i], NEW l \in DOMAIN s[j], q = s[i][k], r = s[j][l]
  PROVE  InTurn(q, r, s, N)
<1>1. \E l1 \in DOMAIN s[j] : q = s[i][k] /\ r = s[j][l1] /\ (i < j \/ (i = j /\ k < l1)) OBVIOUS
<1>2. \E k1 \in DOMAIN s[i], l1 \in DOMAIN s[j] :
        q = s[i][k1] /\ r = s[j][l1] /\ (i < j \/ (i = j /\ k1 < l1))
  BY <1>1
<1> QED BY <1>2, Zenon DEF InTurn

\* One more sequence is joined.
LEMMA JoinTurns ==
  ASSUME NEW n \in Nat, NEW s, NEW f \in Seq(Record), s[n + 1] \in Seq(Record), Turns(f, s, n)
  PROVE  Turns(f \o s[n + 1], s, n + 1)
<1>0. PICK t \in Seq(Record) : t = s[n + 1] OBVIOUS
<1> DEFINE u == f \o t
           a == Len(f)
           b == Len(t)
<1>1. /\ a \in Nat /\ b \in Nat /\ DOMAIN f = 1 .. a /\ DOMAIN t = 1 .. b
      /\ DOMAIN u = 1 .. a + b
      /\ \A k \in 1 .. a : u[k] = f[k]
      /\ \A k \in 1 .. b : u[a + k] = t[k]
  OBVIOUS
<1> HIDE DEF u, a, b
<1>2. \A p \in 1 .. a + b : p \in 1 .. a \/ (p - a \in 1 .. b /\ p = a + (p - a)) BY <1>1
<1>3. n + 1 \in 1 .. n + 1 /\ \A i \in 1 .. n : i \in 1 .. n + 1 /\ i < n + 1 OBVIOUS
<1>4. \A r : From(r, s, n) => From(r, s, n + 1) BY <1>3 DEF From
<1>5. \A q, r : InTurn(q, r, s, n) => InTurn(q, r, s, n + 1) BY <1>3 DEF InTurn
<1>6. ASSUME NEW p \in DOMAIN u PROVE From(u[p], s, n + 1)
  <2>1. CASE p \in 1 .. a
    <3>1. From(f[p], s, n) BY <1>1, <2>1 DEF Turns
    <3> QED BY <1>1, <1>4, <2>1, <3>1
  <2>2. CASE p - a \in 1 .. b /\ p = a + (p - a)
    <3>1. u[p] = t[p - a] BY <1>1, <2>2
    <3> QED BY <1>0, <1>1, <1>3, <2>2, <3>1 DEF From
  <2> QED BY <1>1, <1>2, <2>1, <2>2
<1>7. ASSUME NEW p \in DOMAIN u, NEW q \in DOMAIN u, p < q PROVE InTurn(u[p], u[q], s, n + 1)
  <2>0. p \in Nat /\ q \in Nat BY <1>1, SMTT(40)
  <2>1. CASE q \in 1 .. a
    <3>1. p \in 1 .. a BY <1>1, <1>7, <2>1, SMTT(40)
    <3>2. InTurn(f[p], f[q], s, n) BY <1>1, <1>7, <2>1, <3>1 DEF Turns
    <3> QED BY <1>1, <1>5, <2>1, <3>1, <3>2
  <2>2. CASE q - a \in 1 .. b /\ q = a + (q - a)
    <3>1. u[q] = t[q - a] BY <1>1, <2>2
    <3>2. CASE p \in 1 .. a
      <4>1. From(f[p], s, n) BY <1>1, <3>2 DEF Turns
      <4>2. PICK i \in 1 .. n : \E k \in DOMAIN s[i] : f[p] = s[i][k] BY <4>1 DEF From
      <4>3. PICK k \in DOMAIN s[i] : f[p] = s[i][k] BY <4>2
      <4>4. u[p] = s[i][k] BY <1>1, <3>2, <4>3
      <4>5. PICK l \in DOMAIN s[n + 1] : u[q] = s[n + 1][l] BY <1>0, <1>1, <2>2, <3>1
      <4>6. i \in 1 .. n + 1 /\ i < n + 1 BY <1>3
      <4>7. PICK N \in Nat : N = n + 1 OBVIOUS
      <4>8. i \in 1 .. N /\ N \in 1 .. N /\ i < N BY <1>3, <4>6, <4>7
      <4>9. l \in DOMAIN s[N] /\ u[q] = s[N][l] BY <4>5, <4>7
      <4>10. k \in DOMAIN s[i] BY <4>3
      <4>11. InTurn(u[p], u[q], s, N) BY <4>4, <4>8, <4>9, <4>10, TurnMade
      <4> QED BY <4>7, <4>11
    <3>3. CASE p - a \in 1 .. b /\ p = a + (p - a)
      <4>1. u[p] = s[n + 1][p - a] /\ p - a \in DOMAIN s[n + 1] BY <1>0, <1>1, <3>3
      <4>2. u[q] = s[n + 1][q - a] /\ q - a \in DOMAIN s[n + 1] BY <1>0, <1>1, <2>2, <3>1
      <4>3. p - a < q - a BY <1>1, <1>7, <2>0, SMTT(40)
      <4>4. PICK j \in 1 .. n + 1 : j = n + 1 BY <1>3
      <4>5. PICK k, l \in DOMAIN s[j] : u[p] = s[j][k] /\ u[q] = s[j][l] /\ k < l
        BY <4>1, <4>2, <4>3, <4>4
      <4> QED BY <4>5 DEF InTurn
    <3> QED BY <1>1, <1>2, <3>2, <3>3
  <2> QED BY <1>1, <1>2, <2>1, <2>2
<1>8. Turns(u, s, n + 1) BY <1>6, <1>7 DEF Turns
<1> QED BY <1>0, <1>8 DEF u

\* FlattenSeq keeps the order of its parts and within them.
LEMMA FlattenTurns ==
  ASSUME NEW n \in Nat, NEW s, IsSeq(s, n), \A i \in 1 .. n : s[i] \in Seq(Record)
  PROVE  Turns(FlattenSeq(s), s, n) /\ FlattenSeq(s) \in Seq(Record)
<1>0. FlattenSeq(s) \in Seq(Record) BY FlattenIds
<1>1. Len(s) = n BY SeqLen
<1>2. CASE n = 0
  <2>1. FlattenSeq(s) = s BY <1>1, <1>2 DEF FlattenSeq
  <2>2. DOMAIN s = {} BY <1>2 DEF IsSeq
  <2>3. Turns(s, s, n) BY <2>2 DEF Turns
  <2> QED BY <1>0, <2>1, <2>3
<1>3. CASE n # 0
  <2>0. n \in Nat \ {0} BY <1>3
  <2>a. PICK f : Joins(f, s, n) /\ FlattenSeq(s) = f[n] BY <1>1, <2>0, FlattenSteps
  <2>1. f[1] = s[1] /\ \A i \in 2 .. n : f[i] = f[i - 1] \o s[i] BY <2>a DEF Joins
  <2> DEFINE P(m) == f[m] \in Seq(Record) /\ Turns(f[m], s, m)
             G == {m \in Nat : m \in 1 .. n => P(m)}
  <2>2. 0 \in G
    <3>1. 0 \notin 1 .. n OBVIOUS
    <3> HIDE DEF P
    <3> QED BY <3>1
  <2>3. ASSUME NEW m \in Nat, m \in G PROVE m + 1 \in G
    <3> SUFFICES ASSUME m + 1 \in 1 .. n PROVE P(m + 1)
      <4> HIDE DEF P
      <4> QED OBVIOUS
    <3>1. CASE m = 0
      <4>1. f[1] = s[1] /\ 1 \in 1 .. n /\ m + 1 = 1 BY <1>3, <2>1, <3>1
      <4>2. f[1] \in Seq(Record) BY <4>1
      <4>3. 1 \in 1 .. 1 OBVIOUS
      <4>4. Turns(f[1], s, 1) BY <4>1, <4>3 DEF Turns, From, InTurn
      <4> QED BY <4>1, <4>2, <4>4
    <3>2. CASE m # 0
      <4>1. m \in 1 .. n /\ m + 1 \in 2 .. n /\ (m + 1) - 1 = m BY <3>2
      <4>2. P(m)
        <5> HIDE DEF P
        <5> QED BY <2>3, <4>1
      <4>3. f[m + 1] = f[m] \o s[m + 1] /\ s[m + 1] \in Seq(Record) BY <2>1, <4>1
      <4>4. f[m + 1] \in Seq(Record) BY <4>2, <4>3, ConcatIds
      <4>5. Turns(f[m] \o s[m + 1], s, m + 1) BY <4>2, <4>3, JoinTurns
      <4> QED BY <4>3, <4>4, <4>5
    <3> QED BY <3>1, <3>2
  <2>4. n \in G
    <3> HIDE DEF G
    <3> QED BY <2>2, <2>3, SetInduction
  <2>5. P(n)
    <3>1. n \in 1 .. n BY <1>3
    <3> HIDE DEF P
    <3> QED BY <2>4, <3>1
  <2> QED BY <1>0, <2>a, <2>5
<1> QED BY <1>2, <1>3

\* The state, typed, and the log under the policies.
PolicyInv == TInv /\ Data /\ Touched /\ Policy

\* A step keeps it.
LEMMA PolicyStep == PolicyInv /\ [Next]_vars => PolicyInv'
<1> SUFFICES ASSUME PolicyInv, [Next]_vars PROVE PolicyInv' OBVIOUS
<1>1. TInv' BY NextInv DEF PolicyInv
<1>2. Data' /\ Touched' BY <1>1, NextData DEF PolicyInv
<1>3. Policy' BY <1>1, NextPolicy DEF PolicyInv
<1> QED BY <1>1, <1>2, <1>3 DEF PolicyInv

\* It holds in every state.
LEMMA PolicyInvariance == Spec => []PolicyInv
<1>1. Init => PolicyInv BY InitInv, InitPolicy DEF PolicyInv
<1>2. PolicyInv /\ [Next]_vars => PolicyInv' BY PolicyStep
<1> QED BY <1>1, <1>2, PTL DEF Spec

\* Two records of the log, the one before the other, are minInterval apart.
LEMMA TurnSpaced ==
  ASSUME Types, LogSpaced(files), NEW s, NEW n \in Nat, DOMAIN files = 1 .. n,
         \A i \in 1 .. n : s[i] = files[i].recs,
         NEW q, NEW r, InTurn(q, r, s, n)
  PROVE  Gap(q, r)
<1>1. PICK i, j \in 1 .. n : \E k \in DOMAIN s[i], l \in DOMAIN s[j] :
        q = s[i][k] /\ r = s[j][l] /\ (i < j \/ (i = j /\ k < l))
  BY DEF InTurn
<1>2. PICK k \in DOMAIN s[i], l \in DOMAIN s[j] :
        q = s[i][k] /\ r = s[j][l] /\ (i < j \/ (i = j /\ k < l))
  BY <1>1
<1>3. GapFits(Older(files, j), files[j].recs) BY DEF LogSpaced
<1>4. s[j] = files[j].recs /\ s[i] = files[i].recs OBVIOUS
<1>5. CASE i < j
  <2>1. i \in 1 .. j - 1 BY <1>5
  <2>2. q \in Recs(files[i].recs) BY <1>2, <1>4 DEF Recs
  <2>3. q \in Older(files, j) BY <2>1, <2>2 DEF Older
  <2> QED BY <1>2, <1>3, <1>4, <2>3 DEF GapFits
<1>6. CASE i = j /\ k < l
  <2>1. k \in DOMAIN files[j].recs /\ l \in DOMAIN files[j].recs BY <1>2, <1>4, <1>6
  <2>2. Gap(files[j].recs[k], files[j].recs[l]) BY <1>3, <1>6, <2>1 DEF GapFits
  <2> QED BY <1>2, <1>4, <1>6, <2>2
<1> QED BY <1>2, <1>5, <1>6

\* Whatever the worker writes, a torn batch and a restart leave in the log, and however
\* its files rotate and are removed, walFile.WritePoint's sampling policy holds between
\* any two points of a tag.
THEOREM PointsSpaced == Spec => []Spaced
<1>1. PolicyInv => Spaced
  <2> SUFFICES ASSUME PolicyInv, conf.minInterval > 0
               PROVE  LET recs == FlattenSeq([i \in DOMAIN files |-> files[i].recs])
                      IN \A i, j \in DOMAIN recs : i < j /\ recs[i].code = recs[j].code
                           => recs[j].tms - recs[i].tms >= conf.minInterval
    BY DEF Spaced
  <2>1. Types /\ LogSpaced(files) BY DEF PolicyInv, TInv, Policy
  <2>2. PICK n \in Nat : n = Len(files) /\ DOMAIN files = 1 .. n BY <2>1 DEF Types
  <2> DEFINE s == [i \in DOMAIN files |-> files[i].recs]
  <2>a. \A i \in 1 .. n : files[i].recs \in Seq(Record)
    <3>1. files \in Seq(LogFile) BY <2>1 DEF Types
    <3>2. \A i \in 1 .. n : files[i] \in LogFile BY <2>2, <3>1
    <3> QED BY <3>2 DEF LogFile
  <2>b. IsSeq(s, n) BY <2>2 DEF IsSeq
  <2>c. \A i \in 1 .. n : s[i] = files[i].recs BY <2>2
  <2>3. /\ \A i \in 1 .. n : s[i] = files[i].recs /\ s[i] \in Seq(Record)
        /\ IsSeq(s, n)
    <3> HIDE DEF s
    <3> QED BY <2>a, <2>b, <2>c
  <2> HIDE DEF s
  <2>4. Turns(FlattenSeq(s), s, n) BY <2>3, FlattenTurns
  <2>5. PICK f : f = FlattenSeq(s) OBVIOUS
  <2>6. ASSUME NEW i \in DOMAIN f, NEW j \in DOMAIN f, i < j, f[i].code = f[j].code
        PROVE  f[j].tms - f[i].tms >= conf.minInterval
    <3>1. InTurn(f[i], f[j], s, n) BY <2>4, <2>5, <2>6 DEF Turns
    <3>2. Gap(f[i], f[j]) BY <2>1, <2>2, <2>3, <3>1, TurnSpaced
    <3> QED BY <2>6, <3>2 DEF Gap
  <2> QED BY <2>5, <2>6 DEF s
<1> QED BY <1>1, PolicyInvariance, PTL

\* Nothing the encoder reads or writes has changed.
LEMMA FeedsSame ==
  ASSUME Feeds, UNCHANGED <<meta, cols, stream, flushTouched>>,
         fpc' = fpc \/ (fpc # "encode" /\ fpc' # "encode")
  PROVE  Feeds'
<1>1. Sorted(stream') <=> Sorted(stream) BY Zenon
<1>2. \A c : Fed(c)' <=> Fed(c) BY DEF Fed
<1>3. CASE fpc' = fpc BY <1>1, <1>2, <1>3 DEF Feeds
<1>4. CASE fpc # "encode" /\ fpc' # "encode" BY <1>4 DEF Feeds
<1> QED BY <1>3, <1>4

\* All buffers are empty.
LEMMA EmptyFeeds ==
  ASSUME \A c \in 1 .. meta' : cols'[c].buf = <<>>, fpc' = "encode" => Sorted(stream')
  PROVE  Feeds'
<1>1. ASSUME NEW c \in 1 .. meta' PROVE Fed(c)'
  <2>1. cols'[c].buf = <<>> /\ DOMAIN <<>> = {} OBVIOUS
  <2> QED BY <2>1 DEF Fed
<1> QED BY <1>1 DEF Feeds

\* The files of a flush that are not marked are in time order, one after the other.
LEMMA TurnSorted ==
  ASSUME LogSorted(files), NEW s, NEW n \in Nat, 1 .. n \subseteq DOMAIN files,
         \A i \in 1 .. n : s[i] = files[i].recs /\ ~files[i].needsSort,
         NEW q, NEW r, InTurn(q, r, s, n)
  PROVE  Ascends(q, r)
<1>1. PICK i, j \in 1 .. n : \E k \in DOMAIN s[i], l \in DOMAIN s[j] :
        q = s[i][k] /\ r = s[j][l] /\ (i < j \/ (i = j /\ k < l))
  BY DEF InTurn
<1>2. PICK k \in DOMAIN s[i], l \in DOMAIN s[j] :
        q = s[i][k] /\ r = s[j][l] /\ (i < j \/ (i = j /\ k < l))
  BY <1>1
<1>3. TimeFits(Older(files, j), files[j].recs) BY DEF LogSorted
<1>4. s[j] = files[j].recs /\ s[i] = files[i].recs OBVIOUS
<1>5. CASE i < j
  <2>1. i \in 1 .. j - 1 BY <1>5
  <2>2. q \in Recs(files[i].recs) BY <1>2, <1>4 DEF Recs
  <2>3. q \in Older(files, j) BY <2>1, <2>2 DEF Older
  <2> QED BY <1>2, <1>3, <1>4, <2>3 DEF TimeFits
<1>6. CASE i = j /\ k < l
  <2>1. k \in DOMAIN files[j].recs /\ l \in DOMAIN files[j].recs BY <1>2, <1>4, <1>6
  <2>2. Ascends(files[j].recs[k], files[j].recs[l]) BY <1>3, <1>6, <2>1 DEF TimeFits
  <2> QED BY <1>2, <1>4, <1>6, <2>2
<1> QED BY <1>2, <1>5, <1>6

\* The stream of a flush is in time order, tag by tag: sorted when a file is marked, and
\* as written when none is.
LEMMA FlushStartSorted ==
  ASSUME TInv, Policy, FlushStart
  PROVE  Sorted(stream')
<1> DEFINE n == Len(files) - 1
           s == [i \in 1 .. n |-> files[i].recs]
           recs == FlattenSeq(s)
<1>0. stream' = IF \E i \in 1 .. n : files[i].needsSort THEN sortEntries(recs) ELSE recs
  BY DEF FlushStart
<1>1. /\ n \in Nat /\ 1 .. n \subseteq DOMAIN files
      /\ \A i \in 1 .. n : files[i].recs \in Seq(Record)
  <2>1. Len(files) \in Nat \ {0} /\ files \in Seq(LogFile) BY DEF TInv, Types
  <2>2. n \in Nat /\ 1 .. n \subseteq DOMAIN files BY <2>1
  <2>3. \A i \in 1 .. n : files[i] \in LogFile BY <2>1, <2>2
  <2> QED BY <2>2, <2>3 DEF LogFile
<1> HIDE DEF n
<1>2. IsSeq(s, n) BY DEF IsSeq
<1>3. \A i \in 1 .. n : s[i] = files[i].recs OBVIOUS
<1> HIDE DEF s
<1>4. \A i \in 1 .. n : s[i] \in Seq(Record) BY <1>1, <1>3
<1>5. recs \in Seq(Record) /\ Turns(recs, s, n) BY <1>1, <1>2, <1>4, FlattenTurns
<1> HIDE DEF recs
<1>6. CASE \E i \in 1 .. n : files[i].needsSort
  <2>1. stream' = sortEntries(recs) BY <1>0, <1>6
  <2>2. Sorted(sortEntries(recs)) BY <1>5, SortIds
  <2> QED BY <2>1, <2>2
<1>7. CASE ~\E i \in 1 .. n : files[i].needsSort
  <2>1. stream' = recs BY <1>0, <1>7
  <2>2. LogSorted(files) BY DEF Policy
  <2>3. \A i \in 1 .. n : s[i] = files[i].recs /\ ~files[i].needsSort BY <1>3, <1>7
  <2>4. ASSUME NEW i \in DOMAIN recs, NEW j \in DOMAIN recs, i < j PROVE Ascends(recs[i], recs[j])
    <3>1. InTurn(recs[i], recs[j], s, n) BY <1>5, <2>4 DEF Turns
    <3> QED BY <1>1, <2>2, <2>3, <3>1, TurnSorted
  <2>5. Sorted(recs) BY <2>4 DEF Sorted
  <2> QED BY <2>1, <2>5
<1> QED BY <1>6, <1>7

\* The head of the stream goes to the end of its column's buffer.
LEMMA EncodeFeeds ==
  ASSUME TInv, OneType, Plain, Feeds, Encode
  PROVE  Feeds'
<1> DEFINE r == Head(stream)
           rest == Tail(stream)
<1>0. /\ stream # <<>> /\ r \in Record /\ r.code \in 1 .. meta
      /\ DOMAIN cols = 1 .. meta
      /\ cols[r.code] \in [buf : Seq(Record), pre : {NoRec}]
      /\ fpc = "encode" /\ stream' = rest
      /\ flushTouched' = flushTouched \cup {r.code}
      /\ cols' = [cols EXCEPT ![r.code] = [buf |-> Append(cols[r.code].buf, r), pre |-> NoRec]]
      /\ meta' = meta /\ fpc' = fpc
  BY EncodeTakes
<1>1. stream \in Seq(Record) BY DEF Plain
<1>2. /\ 1 \in DOMAIN stream /\ stream[1] = r
      /\ \A k \in DOMAIN rest : /\ k \in Nat /\ k + 1 \in DOMAIN stream /\ 1 < k + 1
                                /\ rest[k] = stream[k + 1]
  BY <1>0, <1>1, SMTT(40)
<1> HIDE DEF r, rest
<1>3. Sorted(stream) /\ \A c \in 1 .. meta : Fed(c) BY <1>0 DEF Feeds
<1>4. Sorted(rest)
  <2>1. \A j, k \in DOMAIN rest : j < k => j + 1 < k + 1 BY <1>2
  <2> QED BY <1>2, <1>3, <2>1 DEF Sorted
<1>5. ASSUME NEW c \in 1 .. meta, c # r.code PROVE Fed(c)'
  <2>1. cols'[c] = cols[c] BY <1>0, <1>5
  <2>2. Fed(c) BY <1>3
  <2>3. c \notin flushTouched' => c \notin flushTouched BY <1>0
  <2> QED BY <1>0, <1>2, <2>1, <2>2, <2>3, SMTT(40) DEF Fed
<1>6. PICK c \in 1 .. meta : c = r.code BY <1>0
<1>7. PICK b \in Seq(Record) : b = cols[c].buf BY <1>0, <1>6
<1>8. cols'[c].buf = Append(b, r) BY <1>0, <1>6, <1>7
<1>9. PICK n \in Nat : n = Len(b) /\ DOMAIN b = 1 .. n BY <1>7
<1>10. PICK d : d = Append(b, r) OBVIOUS
<1>11. /\ DOMAIN d = 1 .. n + 1 /\ d[n + 1] = r
       /\ \A k \in 1 .. n : d[k] = b[k]
       /\ \A k \in 1 .. n + 1 : k \in 1 .. n \/ k = n + 1
  BY <1>0, <1>9, <1>10, SMTT(40)
<1>12. /\ \A i, j \in 1 .. n : i < j => b[i].tms <= b[j].tms
       /\ \A i \in 1 .. n : \A j \in DOMAIN stream : stream[j].code = c => b[i].tms <= stream[j].tms
  <2>1. Fed(c) BY <1>3
  <2> QED BY <1>7, <1>9, <2>1, ZenonT(60) DEF Fed
<1>13. ASSUME NEW i \in DOMAIN d, NEW j \in DOMAIN d, i < j PROVE d[i].tms <= d[j].tms
  <2>1. i \in 1 .. n BY <1>11, <1>13, SMTT(40)
  <2>2. CASE j \in 1 .. n BY <1>11, <1>12, <1>13, <2>1, <2>2
  <2>3. CASE j = n + 1
    <3>1. d[i] = b[i] /\ d[j] = r BY <1>11, <2>1, <2>3
    <3> QED BY <1>2, <1>6, <1>12, <2>1, <3>1
  <2> QED BY <1>11, <2>2, <2>3
<1>14. ASSUME NEW i \in DOMAIN d, NEW j \in DOMAIN rest, rest[j].code = c
       PROVE  d[i].tms <= rest[j].tms
  <2>1. CASE i \in 1 .. n BY <1>2, <1>11, <1>12, <1>14, <2>1
  <2>2. CASE i = n + 1
    <3>1. Ascends(stream[1], stream[j + 1]) BY <1>2, <1>3 DEF Sorted
    <3>2. stream[1] = r /\ stream[j + 1] = rest[j] BY <1>2
    <3> QED BY <1>6, <1>11, <1>14, <2>2, <3>1, <3>2 DEF Ascends
  <2> QED BY <1>11, <2>1, <2>2
<1>15. Fed(c)'
  <2>1. cols'[c].buf = d BY <1>8, <1>10
  <2>2. c \in flushTouched' BY <1>0, <1>6
  <2>3. stream' = rest BY <1>0
  <2>4. \A i, j \in DOMAIN d : i < j => d[i].tms <= d[j].tms BY <1>13
  <2>5. \A i \in DOMAIN d : \A j \in DOMAIN rest : rest[j].code = c => d[i].tms <= rest[j].tms
    BY <1>14
  <2> QED BY <2>1, <2>2, <2>3, <2>4, <2>5, Zenon DEF Fed
<1>16. \A x \in 1 .. meta : Fed(x)' BY <1>5, <1>6, <1>15
<1>17. Sorted(stream') BY <1>0, <1>4
<1> QED BY <1>0, <1>16, <1>17 DEF Feeds

\* EncodeRest and FlushFail empty the columns that were touched; the others were empty.
LEMMA EmptyRest ==
  ASSUME TInv, Data, Feeds, EncodeRest \/ FlushFail
  PROVE  Feeds'
<1>1. DOMAIN cols = 1 .. meta BY DEF TInv, Types, IsSeq
<1>2. /\ meta' = meta /\ fpc' # "encode"
      /\ \A c \in 1 .. meta : c \notin flushTouched => cols'[c] = cols[c]
  BY <1>1 DEF EncodeRest, FlushFail
<1>3. ASSUME NEW c \in 1 .. meta, c \in flushTouched PROVE cols'[c].buf = <<>>
  <2>1. CASE EncodeRest
    <3>1. cols'[c] = glowWrite(cols[c]) BY <1>1, <1>3, <2>1 DEF EncodeRest
    <3>2. cols[c] \in Column BY DEF Data, Column
    <3>3. glowWrite(cols[c]).buf = <<>> BY <3>2, Glowed
    <3> QED BY <3>1, <3>3
  <2>2. CASE FlushFail
    <3>1. cols'[c] = columnReset(cols[c]) BY <1>1, <1>3, <2>2 DEF FlushFail
    <3> QED BY <3>1 DEF columnReset, EmptyCol
  <2> QED BY <2>1, <2>2
<1>4. ASSUME NEW c \in 1 .. meta, c \notin flushTouched PROVE cols'[c].buf = <<>>
  <2>1. CASE fpc = "encode"
    <3>1. Fed(c) BY <2>1 DEF Feeds
    <3> QED BY <1>2, <1>4, <3>1 DEF Fed
  <2>2. CASE fpc # "encode" BY <1>2, <1>4, <2>2 DEF Feeds
  <2> QED BY <2>1, <2>2
<1> QED BY <1>2, <1>3, <1>4, EmptyFeeds

\* One step of the table, with values of one type.
LEMMA NextFeeds ==
  ASSUME TInv, TInv', Data, Policy, OneType, Plain, Feeds, [Next]_vars
  PROVE  Feeds'
<1>1. CASE UNCHANGED vars BY <1>1, FeedsSame DEF vars, walVars, flusher
<1>2. CASE Worker \/ OpenIter \/ CloseIter \/ CommitTransaction
  <2>1. /\ UNCHANGED <<meta, cols, stream, flushTouched>>
        /\ fpc' = fpc \/ (fpc # "encode" /\ fpc' # "encode")
    <3>1. CASE MetaFlush \/ WriteRuns \/ WalFull \/ NoFlush
      BY <3>1 DEF MetaFlush, WriteRuns, WalFull, NoFlush, flusher
    <3>2. CASE LockFlush \/ StartFlush
      <4>1. /\ UNCHANGED <<meta, cols, stream, flushTouched>> /\ fpc' \in {fpc, "start"}
            /\ fpc' # fpc => flushMute = "free"
        BY <3>2 DEF LockFlush, StartFlush
      <4>2. flushMute = "free" => fpc = "off" BY DEF TInv, Locks
      <4> QED BY <4>1, <4>2
    <3>3. CASE OpenIter \/ CloseIter BY <3>3 DEF OpenIter, CloseIter, flusher
    <3>4. CASE CommitTransaction BY <3>4 DEF CommitTransaction
    <3> QED BY <1>2, <3>1, <3>2, <3>3, <3>4 DEF Worker
  <2> QED BY <2>1, FeedsSame
<1>3. CASE Truncated
  <2>1. /\ fpc # "encode" /\ fpc' # "encode" /\ UNCHANGED <<meta, cols>> BY <1>3 DEF Truncated
  <2> QED BY <2>1 DEF Feeds
<1>4. CASE FlushStart
  <2>1. /\ fpc = "start" /\ UNCHANGED <<meta, cols>> BY <1>4 DEF FlushStart
  <2>2. \A c \in 1 .. meta' : cols'[c].buf = <<>> BY <2>1 DEF Feeds
  <2>3. Sorted(stream') BY <1>4, FlushStartSorted
  <2> QED BY <2>2, <2>3, EmptyFeeds
<1>5. CASE Encode BY <1>5, EncodeFeeds
<1>6. CASE EncodeRest \/ FlushFail BY <1>6, EmptyRest
<1>7. CASE Crash
  <2>1. /\ fpc' = "off" /\ \A c \in 1 .. meta' : cols'[c] = EmptyCol BY <1>7 DEF Crash
  <2>2. \A c \in 1 .. meta' : cols'[c].buf = <<>> BY <2>1, SMTT(40) DEF EmptyCol
  <2> QED BY <2>1, <2>2, EmptyFeeds
<1>8. CASE Prepare
  <2>1. /\ meta \in Nat /\ meta' \in Nat /\ UNCHANGED <<stream, flushTouched, fpc>>
    BY <1>8 DEF TInv, Types, Prepare
  <2>2. \A c \in 1 .. meta' : c \in 1 .. meta \/ c \in meta + 1 .. meta' BY <2>1
  <2>3. \A c \in 1 .. meta : cols'[c] = cols[c] BY <1>8, PrepareAdds
  <2>4. \A c \in meta + 1 .. meta' : cols'[c] = EmptyCol BY <1>8, PrepareAdds
  <2>5. \A c \in meta + 1 .. meta' : cols'[c].buf = <<>> BY <2>4 DEF EmptyCol
  <2>6. CASE fpc = "encode"
    <3>1. Sorted(stream') BY <2>1, <2>6 DEF Feeds
    <3>2. ASSUME NEW c \in 1 .. meta PROVE Fed(c)'
      <4>1. Fed(c) BY <2>6 DEF Feeds
      <4>2. cols'[c] = cols[c] BY <2>3
      <4> QED BY <2>1, <4>1, <4>2 DEF Fed
    <3>3. ASSUME NEW c \in meta + 1 .. meta' PROVE Fed(c)'
      <4>1. cols'[c].buf = <<>> /\ DOMAIN <<>> = {} BY <2>5
      <4> QED BY <4>1 DEF Fed
    <3>4. \A c \in 1 .. meta' : Fed(c)' BY <2>2, <3>2, <3>3
    <3> QED BY <2>1, <2>6, <3>1, <3>4 DEF Feeds
  <2>7. CASE fpc # "encode"
    <3>1. \A c \in 1 .. meta' : cols'[c].buf = <<>> BY <2>2, <2>3, <2>5, <2>7 DEF Feeds
    <3> QED BY <2>1, <2>7, <3>1, EmptyFeeds
  <2> QED BY <2>6, <2>7, SMTT(40)
<1> QED BY <1>1, <1>2, <1>3, <1>4, <1>5, <1>6, <1>7, <1>8 DEF Next, Flush

\* The invariant of the encoder's columns.
FeedsInv == PolicyInv /\ DurableInv /\ (OneType => Feeds)

\* It holds at first.
LEMMA FeedsInit == Init => FeedsInv
<1> SUFFICES ASSUME Init PROVE FeedsInv OBVIOUS
<1>1. PolicyInv BY InitInv, InitPolicy DEF PolicyInv
<1>2. DurableInv BY InitDurable
<1>3. meta = 0 /\ fpc = "off" /\ 1 .. 0 = {} BY DEF Init
<1>4. Feeds BY <1>3 DEF Feeds
<1> QED BY <1>1, <1>2, <1>4 DEF FeedsInv

\* A step keeps it.
LEMMA FeedsStep == FeedsInv /\ [Next]_vars => FeedsInv'
<1> SUFFICES ASSUME FeedsInv, [Next]_vars PROVE FeedsInv' OBVIOUS
<1>1. PolicyInv /\ TInv /\ Data /\ Policy /\ DurableInv BY DEF FeedsInv, PolicyInv
<1>2. PolicyInv' BY <1>1, PolicyStep
<1>3. TInv' BY <1>2 DEF PolicyInv
<1>4. DurableInv' BY <1>1, <1>3, NextKept
<1>5. OneType' => OneType BY <1>1, ConfKept DEF OneType
<1>6. ASSUME OneType PROVE Feeds'
  <2>1. Plain /\ Feeds BY <1>1, <1>6 DEF DurableInv, OneTypeInv, FeedsInv
  <2> QED BY <1>1, <1>3, <1>6, <2>1, NextFeeds
<1> QED BY <1>2, <1>4, <1>5, <1>6 DEF FeedsInv

\* With values of one type a column takes its points in time order, whatever files the
\* flush reads and however late points, crashes and failed flushes came between
\* (needSort, sortEntries, processEntry).
THEOREM ColumnsOrdered == Spec => []StreamOrdered
<1>1. Init => FeedsInv BY FeedsInit
<1>2. FeedsInv /\ [Next]_vars => FeedsInv' BY FeedsStep
<1>3. FeedsInv => StreamOrdered
  <2> SUFFICES ASSUME FeedsInv, OneType, NEW c \in DOMAIN cols,
                      NEW i \in 1 .. Len(cols[c].buf) - 1
               PROVE  cols[c].buf[i].tms <= cols[c].buf[i + 1].tms
    BY DEF StreamOrdered
  <2>1. TInv /\ Feeds /\ Plain BY DEF FeedsInv, PolicyInv, DurableInv, OneTypeInv
  <2>2. c \in 1 .. meta BY <2>1 DEF TInv, Types, IsSeq
  <2>3. PICK b \in Seq(Record) : b = cols[c].buf BY <2>1, <2>2 DEF Plain
  <2>4. i \in DOMAIN b /\ i + 1 \in DOMAIN b /\ i < i + 1 BY <2>3
  <2>5. b # <<>> BY <2>3, <2>4
  <2>6. Fed(c) BY <2>1, <2>2, <2>3, <2>5 DEF Feeds
  <2> QED BY <2>3, <2>4, <2>6 DEF Fed
<1> QED BY <1>1, <1>2, <1>3, PTL DEF Spec

\* No identifier is in a sequence twice.
Once(s) == \A i, j \in DOMAIN s : s[i].id = s[j].id => i = j

\* The files a flush under way has taken, the identifiers in them and in the other files.
Taken == IF fpc \in {"encode", "commit", "remove"} THEN fcount ELSE 0
RestIds == UNION {Ids(files[i].recs) : i \in Taken + 1 .. Len(files)}
TakenIds == UNION {Ids(files[i].recs) : i \in 1 .. Taken}

\* What the columns hold.
HeldIds(c) == Ids(cols[c].buf) \cup ({cols[c].pre.id} \ {0})
Pool == UNION {HeldIds(c) : c \in 1 .. meta}

\* A log whose files hold each record once, in one of them.
LogOnce(fs) ==
  /\ \A i \in DOMAIN fs : Once(fs[i].recs)
  /\ \A i, j \in DOMAIN fs : i # j => Ids(fs[i].recs) \cap Ids(fs[j].recs) = {}

\* Columns that hold each record once, in one of them; a pair is kept back only by a column
\* without a buffer, and a column with a buffer is one the flush under way touched.
ColOnce(c) ==
  /\ Once(cols[c].buf)
  /\ cols[c].pre # NoRec => cols[c].buf = <<>> /\ cols[c].pre.id # 0
  /\ cols[c].buf # <<>> => c \in flushTouched
ColsOnce ==
  /\ \A c \in 1 .. meta : ColOnce(c)
  /\ \A c, d \in 1 .. meta : c # d => HeldIds(c) \cap HeldIds(d) = {}

\* No record is in two of the places a query or a flush reads.
Spread(A, B, C, D, E) ==
  /\ A \cap B = {} /\ A \cap C = {} /\ A \cap D = {} /\ A \cap E = {}
  /\ B \cap C = {} /\ B \cap D = {} /\ B \cap E = {}
  /\ C \cap D = {} /\ C \cap E = {} /\ D \cap E = {}

\* The identifiers given to points that are no longer in the batch.
Spent == (1 .. nextId - 1) \ Ids(batch)

\* The identifiers in some place.
Everywhere == WalIds \cup Ids(stream) \cup Pool \cup Ids(tx) \cup Ids(segs)

\* What each step of a flush has emptied.
Phases ==
  /\ fpc # "encode" => stream = <<>> /\ \A c \in 1 .. meta : cols[c].buf = <<>>
  /\ fpc \notin {"encode", "commit"} \/ (fpc = "encode" /\ flushTouched = {}) => tx = <<>>
  /\ Upto(stream, meta)

\* Every accepted point is in one place and there once.
Placed ==
  /\ LogOnce(files) /\ ColsOnce
  /\ Once(stream) /\ Once(tx) /\ Once(segs) /\ Once(batch)
  /\ Everywhere \subseteq Spent
  /\ Spread(RestIds, Ids(stream), Pool, Ids(tx), Ids(segs))
  /\ fpc \in {"encode", "commit"} => TakenIds \cap Ids(segs) = {}
  /\ acked \subseteq RestIds \cup Ids(stream) \cup Pool \cup Ids(tx) \cup Ids(segs)
  /\ Phases

\* The states QuerySees is about.
Calm == crashes = 0 /\ (OneType \/ fails = 0)
SeesInv == crashes \in Nat /\ fails \in Nat /\ (Calm => Placed)

\* Drawing keeps identifiers single.
LEMMA OnceDrawn ==
  ASSUME NEW t, NEW s, Drawn(t, s), Once(s)
  PROVE  Once(t) /\ Ids(t) \subseteq Ids(s)
<1>1. ASSUME NEW i \in DOMAIN t, NEW j \in DOMAIN t, t[i].id = t[j].id PROVE i = j
  <2>1. PICK k, l \in DOMAIN s : t[i] = s[k] /\ t[j] = s[l] /\ (i # j => k # l) BY DEF Drawn
  <2> QED BY <1>1, <2>1 DEF Once
<1>2. ASSUME NEW i \in DOMAIN t PROVE t[i].id \in Ids(s)
  <2>1. PICK k \in DOMAIN s : t[i] = s[k] BY DEF Drawn
  <2> QED BY <2>1 DEF Ids
<1> QED BY <1>1, <1>2 DEF Once, Ids

\* The rest of a stream.
LEMMA OnceTail ==
  ASSUME NEW s \in Seq(Record), s # <<>>, Once(s)
  PROVE  /\ Head(s) \in Record /\ Tail(s) \in Seq(Record) /\ Once(Tail(s))
         /\ Ids(s) = Ids(Tail(s)) \cup {Head(s).id} /\ Head(s).id \notin Ids(Tail(s))
<1>1. PICK n \in Nat : n = Len(s) /\ n > 0 OBVIOUS
<1>2. PICK t : t = Tail(s) OBVIOUS
<1>3. PICK r : r = Head(s) OBVIOUS
<1>4. /\ r \in Record /\ t \in Seq(Record) /\ DOMAIN s = 1 .. n /\ DOMAIN t = 1 .. n - 1
      /\ r = s[1] /\ \A k \in 1 .. n - 1 : t[k] = s[k + 1]
  BY <1>1, <1>2, <1>3
<1>5. /\ 1 \in 1 .. n /\ \A k \in 1 .. n - 1 : k \in Nat /\ k + 1 \in 1 .. n /\ k + 1 # 1
      /\ \A k \in 1 .. n : k = 1 \/ (k - 1 \in 1 .. n - 1 /\ k = (k - 1) + 1)
      /\ \A j, k \in 1 .. n - 1 : j + 1 = k + 1 => j = k
  BY <1>1
<1>a. \A k \in 1 .. n - 1 : \E p \in 1 .. n : p = k + 1 /\ p # 1 /\ t[k] = s[p] BY <1>4, <1>5
<1>b. \A p, q \in 1 .. n : s[p].id = s[q].id => p = q BY <1>4 DEF Once
<1>6. Once(t)
  <2>1. ASSUME NEW j \in 1 .. n - 1, NEW k \in 1 .. n - 1, t[j].id = t[k].id PROVE j = k
    <3>1. PICK p \in 1 .. n : p = j + 1 /\ t[j] = s[p] BY <1>a
    <3>2. PICK q \in 1 .. n : q = k + 1 /\ t[k] = s[q] BY <1>a
    <3>3. p = q BY <1>b, <2>1, <3>1, <3>2
    <3> QED BY <1>5, <3>1, <3>2, <3>3
  <2> QED BY <1>4, <2>1 DEF Once
<1>7. r.id \notin Ids(t)
  <2>1. ASSUME NEW k \in 1 .. n - 1, t[k].id = r.id PROVE FALSE
    <3>1. PICK p \in 1 .. n : p # 1 /\ t[k] = s[p] BY <1>a
    <3> QED BY <1>4, <1>5, <1>b, <2>1, <3>1
  <2> QED BY <1>4, <2>1 DEF Ids
<1>8. Ids(t) \cup {r.id} \subseteq Ids(s)
  <2>1. ASSUME NEW k \in 1 .. n - 1 PROVE t[k].id \in Ids(s)
    <3>1. PICK p \in 1 .. n : t[k] = s[p] BY <1>a
    <3> QED BY <1>4, <3>1 DEF Ids
  <2>2. r.id \in Ids(s) BY <1>4, <1>5 DEF Ids
  <2> QED BY <1>4, <2>1, <2>2 DEF Ids
<1>9. ASSUME NEW k \in 1 .. n PROVE s[k].id \in Ids(t) \cup {r.id}
  <2>1. CASE k = 1 BY <1>4, <2>1
  <2>2. CASE k # 1
    <3>1. PICK j \in 1 .. n - 1 : k = j + 1 BY <1>5, <2>2
    <3> QED BY <1>4, <3>1 DEF Ids
  <2> QED BY <2>1, <2>2
<1>10. Ids(s) \subseteq Ids(t) \cup {r.id} BY <1>4, <1>9 DEF Ids
<1> QED BY <1>2, <1>3, <1>4, <1>6, <1>7, <1>8, <1>10

\* Two sequences without a common identifier.
LEMMA OnceConcat ==
  ASSUME NEW s \in Seq(Record), NEW t \in Seq(Record), Once(s), Once(t), Ids(s) \cap Ids(t) = {}
  PROVE  Once(s \o t)
<1> DEFINE u == s \o t
           a == Len(s)
           b == Len(t)
<1>1. /\ a \in Nat /\ b \in Nat /\ DOMAIN s = 1 .. a /\ DOMAIN t = 1 .. b
      /\ DOMAIN u = 1 .. a + b
      /\ \A k \in 1 .. a : u[k] = s[k]
      /\ \A k \in 1 .. b : u[a + k] = t[k]
  OBVIOUS
<1> HIDE DEF u, a, b
<1>2. \A p \in 1 .. a + b : p \in 1 .. a \/ (p - a \in 1 .. b /\ p = a + (p - a)) BY <1>1
<1>3. \A p \in 1 .. a + b : p \in 1 .. a \/ \E k \in 1 .. b : p = a + k BY <1>2
<1>4. ASSUME NEW p \in 1 .. a + b, NEW q \in 1 .. a + b, u[p].id = u[q].id PROVE p = q
  <2>1. CASE p \in 1 .. a /\ q \in 1 .. a BY <1>1, <1>4, <2>1, ZenonT(60) DEF Once
  <2>2. ASSUME p \in 1 .. a, NEW k \in 1 .. b, q = a + k PROVE FALSE
    <3>1. s[p].id = t[k].id BY <1>1, <1>4, <2>2
    <3>2. s[p].id \in Ids(s) BY <1>1, <2>2 DEF Ids
    <3>3. t[k].id \in Ids(t) BY <1>1 DEF Ids
    <3> QED BY <3>1, <3>2, <3>3
  <2>3. ASSUME q \in 1 .. a, NEW k \in 1 .. b, p = a + k PROVE FALSE
    <3>1. s[q].id = t[k].id BY <1>1, <1>4, <2>3
    <3>2. s[q].id \in Ids(s) BY <1>1, <2>3 DEF Ids
    <3>3. t[k].id \in Ids(t) BY <1>1 DEF Ids
    <3> QED BY <3>1, <3>2, <3>3
  <2>4. ASSUME NEW k \in 1 .. b, p = a + k, NEW l \in 1 .. b, q = a + l PROVE p = q
    <3>1. t[k].id = t[l].id BY <1>1, <1>4, <2>4
    <3>2. k = l BY <1>1, <3>1 DEF Once
    <3> QED BY <2>4, <3>2
  <2> QED BY <1>3, <2>1, <2>2, <2>3, <2>4
<1>5. Once(u) BY <1>1, <1>4 DEF Once
<1> QED BY <1>5 DEF u

\* A sequence of one record.
LEMMA OnceAppend ==
  ASSUME NEW s \in Seq(Record), NEW r \in Record, Once(s), r.id \notin Ids(s)
  PROVE  /\ Append(s, r) \in Seq(Record) /\ Once(Append(s, r))
         /\ Ids(Append(s, r)) = Ids(s) \cup {r.id}
<1>1. PICK t : t = <<r>> OBVIOUS
<1>2. t \in Seq(Record) /\ DOMAIN t = {1} /\ t[1] = r BY <1>1
<1>3. Once(t) /\ Ids(t) = {r.id} BY <1>2 DEF Once, Ids
<1>4. Append(s, r) = s \o t BY <1>1
<1>5. Ids(s) \cap Ids(t) = {} BY <1>3
<1>6. Once(s \o t) BY <1>2, <1>3, <1>5, OnceConcat
<1>7. s \o t \in Seq(Record) /\ Ids(s \o t) = Ids(s) \cup Ids(t) BY <1>2, ConcatIds
<1> QED BY <1>3, <1>4, <1>6, <1>7

\* Sequences joined, no two with a common identifier.
LEMMA OnceFlatten ==
  ASSUME NEW n \in Nat, NEW s, IsSeq(s, n), \A i \in 1 .. n : s[i] \in Seq(Record) /\ Once(s[i]),
         \A i, j \in 1 .. n : i # j => Ids(s[i]) \cap Ids(s[j]) = {}
  PROVE  /\ FlattenSeq(s) \in Seq(Record) /\ Once(FlattenSeq(s))
         /\ Ids(FlattenSeq(s)) = UNION {Ids(s[i]) : i \in 1 .. n}
<1>1. PICK f : f = FlattenSeq(s) OBVIOUS
<1>2. f \in Seq(Record) /\ Turns(f, s, n) BY <1>1, FlattenTurns
<1>3. \A i \in 1 .. n : Ids(s[i]) \subseteq Ids(f) BY <1>1, FlattenIds
<1>4. ASSUME NEW p \in DOMAIN f PROVE f[p].id \in UNION {Ids(s[i]) : i \in 1 .. n}
  <2>1. From(f[p], s, n) BY <1>2 DEF Turns
  <2>2. PICK i \in 1 .. n : \E k \in DOMAIN s[i] : f[p] = s[i][k] BY <2>1 DEF From
  <2>3. f[p].id \in Ids(s[i]) BY <2>2 DEF Ids
  <2> QED BY <2>3
<1>5. Ids(f) \subseteq UNION {Ids(s[i]) : i \in 1 .. n} BY <1>4 DEF Ids
<1>6. ASSUME NEW p \in DOMAIN f, NEW q \in DOMAIN f, p < q PROVE f[p].id # f[q].id
  <2>1. InTurn(f[p], f[q], s, n) BY <1>2, <1>6 DEF Turns
  <2>2. PICK i, j \in 1 .. n : \E k \in DOMAIN s[i], l \in DOMAIN s[j] :
          f[p] = s[i][k] /\ f[q] = s[j][l] /\ (i < j \/ (i = j /\ k < l))
    BY <2>1 DEF InTurn
  <2>3. PICK k \in DOMAIN s[i], l \in DOMAIN s[j] :
          f[p] = s[i][k] /\ f[q] = s[j][l] /\ (i < j \/ (i = j /\ k < l))
    BY <2>2
  <2>4. CASE i # j
    <3>1. f[p].id \in Ids(s[i]) /\ f[q].id \in Ids(s[j]) BY <2>3 DEF Ids
    <3> QED BY <2>4, <3>1
  <2>5. CASE i = j
    <3>1. k < l /\ k \in Nat BY <2>3, <2>5
    <3>2. k # l BY <3>1
    <3>3. Once(s[i]) OBVIOUS
    <3>4. s[i][k].id # s[i][l].id BY <2>3, <2>5, <3>2, <3>3 DEF Once
    <3> QED BY <2>3, <2>5, <3>4
  <2> QED BY <2>4, <2>5
<1>7. Once(f)
  <2>1. \A p, q \in DOMAIN f : p < q \/ q < p \/ p = q BY <1>2
  <2> QED BY <1>6, <2>1 DEF Once
<1> QED BY <1>1, <1>2, <1>3, <1>5, <1>7

\* Writing the batch doubles no record.
LEMMA WrittenOnce ==
  ASSUME NEW runs \in Seq(Record), NEW m \in Nat, NEW n \in Nat, Upto(runs, m),
         files \in Seq(LogFile), files # <<>>, Upto(Last(files).recs, m), IsSeq(tagState, n),
         Once(runs), Once(Last(files).recs), Ids(Last(files).recs) \cap Ids(runs) = {}
  PROVE  LET w == Written(runs) IN
         Once(w.file.recs) /\ Ids(w.file.recs) \subseteq Ids(Last(files).recs) \cup Ids(runs)
<1> DEFINE N == Len(runs)
           old == Ids(Last(files).recs)
           first(i) == {runs[k].id : k \in 1 .. i}
           P(i, a) == /\ a.file \in LogFile /\ Upto(a.file.recs, m) /\ IsSeq(a.ts, n)
                      /\ Once(a.file.recs) /\ Ids(a.file.recs) \subseteq old \cup first(i)
<1>1. N \in Nat /\ DOMAIN runs = 1 .. N OBVIOUS
<1>2. PICK acc : /\ DOMAIN acc = 0 .. N
                 /\ acc[0] = [file |-> Last(files), ts |-> tagState]
                 /\ \A i \in 1 .. N : acc[i] = writePoint(acc[i - 1], runs[i])
                 /\ Written(runs) = acc[N]
  BY <1>1, WrittenSteps
<1> DEFINE G == {i \in Nat : i <= N => P(i, acc[i])}
<1>3. 0 \in G
  <2>1. Last(files) \in LogFile BY DEF Last
  <2>2. P(0, acc[0]) BY <1>2, <2>1
  <2> HIDE DEF P
  <2> QED BY <2>2
<1>4. ASSUME NEW i \in Nat, i \in G PROVE i + 1 \in G
  <2> SUFFICES ASSUME i + 1 <= N PROVE P(i + 1, acc[i + 1])
    <3> HIDE DEF P
    <3> QED OBVIOUS
  <2>1. P(i, acc[i])
    <3> HIDE DEF P
    <3> QED BY <1>1, <1>4
  <2>2. i + 1 \in 1 .. N /\ (i + 1) - 1 = i BY <1>1
  <2>3. PICK r \in Record : r = runs[i + 1] /\ r.code <= m BY <2>2 DEF Upto
  <2>4. PICK a : a = acc[i] OBVIOUS
  <2>5. acc[i + 1] = writePoint(a, r) BY <1>2, <2>2, <2>3, <2>4
  <2>6. /\ a.file \in LogFile /\ Upto(a.file.recs, m) /\ IsSeq(a.ts, n)
        /\ Once(a.file.recs) /\ Ids(a.file.recs) \subseteq old \cup first(i)
    BY <2>1, <2>4
  <2>7. /\ writePoint(a, r).file \in LogFile /\ Upto(writePoint(a, r).file.recs, m)
        /\ IsSeq(writePoint(a, r).ts, n)
    BY <2>3, <2>6, WritePointOk
  <2>8. first(i + 1) = first(i) \cup {r.id}
    <3>1. 1 .. i + 1 = (1 .. i) \cup {i + 1} OBVIOUS
    <3> QED BY <2>3, <3>1
  <2>9. r.id \notin old \cup first(i)
    <3>1. r.id \in Ids(runs) BY <1>1, <2>2, <2>3 DEF Ids
    <3>2. ASSUME NEW k \in 1 .. i PROVE runs[k].id # r.id
      <4>1. k \in 1 .. N /\ k # i + 1 BY <1>1, <2>2
      <4> QED BY <1>1, <2>2, <2>3, <4>1 DEF Once
    <3> QED BY <3>1, <3>2
  <2>10. Once(writePoint(a, r).file.recs) /\ Ids(writePoint(a, r).file.recs) \subseteq old \cup first(i + 1)
    <3> HIDE DEF old, first
    <3>1. CASE Rejected(a.ts, r) BY <2>6, <2>8, <3>1 DEF writePoint
    <3>2. CASE ~Rejected(a.ts, r)
      <4>1. a.file.recs \in Seq(Record) BY <2>6 DEF LogFile
      <4>2. PICK s \in Seq(Record) : s = a.file.recs BY <4>1
      <4>3. writePoint(a, r).file.recs = Append(s, r) BY <3>2, <4>2 DEF writePoint
      <4>4. Once(s) /\ r.id \notin Ids(s) BY <2>6, <2>9, <4>2
      <4>5. Once(Append(s, r)) /\ Ids(Append(s, r)) = Ids(s) \cup {r.id} BY <4>4, OnceAppend
      <4> QED BY <2>6, <2>8, <4>2, <4>3, <4>5
    <3> QED BY <3>1, <3>2
  <2> HIDE DEF old, first
  <2> QED BY <2>5, <2>7, <2>10
<1>5. N \in G
  <2> HIDE DEF G
  <2> QED BY <1>1, <1>3, <1>4, SetInduction
<1>6. P(N, acc[N])
  <2> HIDE DEF P
  <2> QED BY <1>1, <1>5
<1>7. first(N) = Ids(runs) BY <1>1 DEF Ids
<1> QED BY <1>2, <1>6, <1>7

\* Nothing moves; the flush may begin, and the batch may be dropped.
LEMMA PlacedSame ==
  ASSUME Placed, UNCHANGED <<meta, files, stream, cols, tx, segs, acked, nextId, flushTouched, fcount>>,
         batch' \in {batch, <<>>}, fpc' = fpc \/ (fpc = "off" /\ fpc' = "start")
  PROVE  Placed'
<1>1. /\ Taken' = Taken BY DEF Taken
<1>2. RestIds' = RestIds /\ TakenIds' = TakenIds BY <1>1 DEF RestIds, TakenIds
<1>3. \A c : HeldIds(c)' = HeldIds(c) /\ (ColOnce(c)' <=> ColOnce(c)) BY DEF HeldIds, ColOnce
<1>4. Pool' = Pool BY <1>3 DEF Pool
<1>5. ColsOnce' BY <1>3 DEF Placed, ColsOnce
<1>6. Once(batch') /\ Ids(batch') \subseteq Ids(batch)
  <2>1. DOMAIN <<>> = {} OBVIOUS
  <2> QED BY <2>1 DEF Placed, Once, Ids
<1>7. Spent \subseteq Spent' /\ Everywhere' = Everywhere BY <1>4, <1>6 DEF Spent, Everywhere, WalIds
<1>8. Phases' BY DEF Placed, Phases, Upto
<1>9. fpc' \in {"encode", "commit"} => fpc \in {"encode", "commit"} OBVIOUS
<1> QED BY <1>2, <1>4, <1>5, <1>6, <1>7, <1>8, <1>9 DEF Placed

\* The transaction goes into the segments.
LEMMA PlacedCommit ==
  ASSUME TInv, Data, Placed, CommitTransaction
  PROVE  Placed'
<1>0. /\ fpc = "commit" /\ fpc' = "remove" /\ segs' = segs \o tx /\ tx' = <<>>
      /\ UNCHANGED <<meta, files, stream, cols, acked, nextId, flushTouched, fcount, batch>>
  BY DEF CommitTransaction, walVars, worker
<1>1. segs \in Seq(Record) /\ tx \in Seq(Record) BY DEF Data
<1>2. PICK S \in Seq(Record) : S = segs \o tx /\ Ids(S) = Ids(segs) \cup Ids(tx) BY <1>1, ConcatIds
<1>3. Ids(segs) \cap Ids(tx) = {} BY DEF Placed, Spread
<1>4. Once(segs \o tx) BY <1>1, <1>3, OnceConcat DEF Placed
<1>5. Once(segs') /\ Ids(segs') = Ids(segs) \cup Ids(tx) BY <1>0, <1>2, <1>4
<1>6. Once(tx') /\ Ids(tx') = {}
  <2>1. DOMAIN <<>> = {} OBVIOUS
  <2> QED BY <1>0, <2>1 DEF Once, Ids
<1>7. RestIds' = RestIds BY <1>0 DEF Taken, RestIds
<1>8. \A c : HeldIds(c)' = HeldIds(c) /\ (ColOnce(c)' <=> ColOnce(c)) BY <1>0 DEF HeldIds, ColOnce
<1>9. Pool' = Pool BY <1>0, <1>8 DEF Pool
<1>10. ColsOnce' BY <1>0, <1>8 DEF Placed, ColsOnce
<1>11. Everywhere' = Everywhere /\ Spent' = Spent
  BY <1>0, <1>5, <1>6, <1>9 DEF Everywhere, Spent, WalIds
<1>12. Phases' BY <1>0 DEF Placed, Phases, Upto
<1>13. Spread(RestIds, Ids(stream), Pool, Ids(tx), Ids(segs))'
  BY <1>0, <1>5, <1>6, <1>7, <1>9 DEF Placed, Spread
<1>14. acked' \subseteq RestIds' \cup Ids(stream') \cup Pool' \cup Ids(tx') \cup Ids(segs')
  BY <1>0, <1>5, <1>6, <1>7, <1>9 DEF Placed
<1> QED BY <1>0, <1>5, <1>6, <1>10, <1>11, <1>12, <1>13, <1>14 DEF Placed

\* A new batch gets identifiers that no point has.
LEMMA PrepareNew ==
  ASSUME TInv, Prepare
  PROVE  /\ Once(batch') /\ nextId' \in Nat /\ nextId <= nextId'
         /\ Ids(batch') \cap (1 .. nextId - 1) = {}
         /\ UNCHANGED <<files, segs, stream, flushTouched, tx, acked, fpc, fcount>>
<1> DEFINE step(n) ==
             /\ \E b : batch' = [i \in 1 .. n |-> [id |-> nextId + i - 1, code |-> b[i].code,
                                                   tms |-> b[i].tms, v |-> b[i].v]]
             /\ nextId' = nextId + n
             /\ UNCHANGED <<files, segs, stream, flushTouched, tx, acked, fpc, fcount>>
<1>1. PICK n \in 1 .. MaxBatch : step(n) BY ZenonT(60) DEF Prepare
<1>2. nextId \in Nat \ {0} /\ n \in Nat BY DEF TInv, Types
<1>3. DOMAIN batch' = 1 .. n /\ \A i \in 1 .. n : batch'[i].id = nextId + i - 1
  <2>1. PICK b : batch' = [i \in 1 .. n |-> [id |-> nextId + i - 1, code |-> b[i].code,
                                             tms |-> b[i].tms, v |-> b[i].v]]
    BY <1>1
  <2> QED BY <2>1
<1>4. Once(batch') BY <1>2, <1>3, SMTT(40) DEF Once
<1>5. \A i \in 1 .. n : nextId + i - 1 \notin 1 .. nextId - 1 BY <1>2
<1>6. Ids(batch') \cap (1 .. nextId - 1) = {} BY <1>3, <1>5 DEF Ids
<1> QED BY <1>1, <1>2, <1>4, <1>6, SMTT(40)

\* New columns are empty.
LEMMA PlacedPrepare ==
  ASSUME TInv, TInv', Data, Placed, Prepare
  PROVE  Placed'
<1>0. /\ Once(batch') /\ nextId' \in Nat /\ nextId <= nextId'
      /\ Ids(batch') \cap (1 .. nextId - 1) = {}
      /\ UNCHANGED <<files, segs, stream, flushTouched, tx, acked, fpc, fcount>>
  BY PrepareNew
<1>1. meta \in Nat /\ meta' \in Nat /\ meta <= meta' /\ nextId \in Nat BY PrepareAdds DEF TInv, Types
<1>2. /\ \A c \in 1 .. meta' : c \in 1 .. meta \/ c \in meta + 1 .. meta'
      /\ \A c \in 1 .. meta : c \in 1 .. meta'
  BY <1>1
<1>3. \A c \in 1 .. meta : cols'[c] = cols[c] BY PrepareAdds
<1>4. \A c \in meta + 1 .. meta' : cols'[c] = EmptyCol BY PrepareAdds
<1>5. EmptyCol.buf = <<>> /\ EmptyCol.pre = NoRec /\ NoRec.id = 0 /\ DOMAIN <<>> = {}
  BY DEF EmptyCol, NoRec
<1>6. \A c \in 1 .. meta : HeldIds(c)' = HeldIds(c) /\ (ColOnce(c)' <=> ColOnce(c))
  BY <1>0, <1>3 DEF HeldIds, ColOnce
<1>7. ASSUME NEW c \in meta + 1 .. meta' PROVE HeldIds(c)' = {} /\ ColOnce(c)'
  <2>1. cols'[c].buf = <<>> /\ cols'[c].pre = NoRec BY <1>4, <1>5
  <2>2. Ids(<<>>) = {} /\ Once(<<>>) BY <1>5 DEF Ids, Once
  <2> QED BY <1>5, <2>1, <2>2 DEF HeldIds, ColOnce
<1>8. Pool' = Pool
  <2>1. \A c \in 1 .. meta' : HeldIds(c)' \subseteq Pool BY <1>2, <1>6, <1>7 DEF Pool
  <2>2. \A c \in 1 .. meta : HeldIds(c) \subseteq Pool' BY <1>2, <1>6 DEF Pool
  <2> QED BY <2>1, <2>2 DEF Pool
<1>9. ColsOnce'
  <2>1. \A c \in 1 .. meta' : ColOnce(c)' BY <1>2, <1>6, <1>7 DEF Placed, ColsOnce
  <2>2. ASSUME NEW c \in 1 .. meta', NEW d \in 1 .. meta', c # d PROVE HeldIds(c)' \cap HeldIds(d)' = {}
    <3>1. CASE c \in 1 .. meta /\ d \in 1 .. meta BY <1>6, <2>2, <3>1 DEF Placed, ColsOnce
    <3>2. CASE c \in meta + 1 .. meta' BY <1>7, <3>2
    <3>3. CASE d \in meta + 1 .. meta' BY <1>7, <3>3
    <3> QED BY <1>2, <3>1, <3>2, <3>3
  <2> QED BY <2>1, <2>2 DEF ColsOnce
<1>10. RestIds' = RestIds /\ TakenIds' = TakenIds BY <1>0 DEF Taken, RestIds, TakenIds
<1>11. Everywhere' = Everywhere BY <1>0, <1>8 DEF Everywhere, WalIds
<1>12. Spent \subseteq Spent'
  <2>1. 1 .. nextId - 1 \subseteq 1 .. nextId' - 1 BY <1>0, <1>1
  <2> QED BY <1>0, <2>1 DEF Spent
<1>13. Phases'
  <2>1. \A c \in 1 .. meta' : fpc # "encode" => cols'[c].buf = <<>>
    BY <1>2, <1>3, <1>4, <1>5 DEF Placed, Phases
  <2>2. Upto(stream, meta')
    <3>1. ASSUME NEW k \in DOMAIN stream, stream[k].code <= meta, stream[k].code \in Nat
          PROVE  stream[k].code <= meta'
      BY <1>1, <3>1
    <3>2. \A k \in DOMAIN stream : stream[k] \in Record BY DEF Data
    <3>3. \A r \in Record : r.code \in Nat BY DEF Record
    <3> QED BY <3>1, <3>2, <3>3 DEF Placed, Phases, Upto
  <2> QED BY <1>0, <2>1, <2>2 DEF Placed, Phases
<1>14. Spread(RestIds, Ids(stream), Pool, Ids(tx), Ids(segs))'
  BY <1>0, <1>8, <1>10 DEF Placed, Spread
<1> QED BY <1>0, <1>8, <1>9, <1>10, <1>11, <1>12, <1>13, <1>14 DEF Placed

\* rotateIfFull adds at most an empty file.
LEMMA RotateAdds ==
  ASSUME NEW fs, NEW n \in Nat, fs \in Seq(LogFile), Len(fs) = n
  PROVE  LET g == rotateIfFull(fs) IN \A i \in n + 1 .. Len(g) : g[i].recs = <<>>
<1>1. CASE rotateIfFull(fs) = fs
  <2>1. n + 1 .. Len(fs) = {} OBVIOUS
  <2> QED BY <1>1, <2>1
<1>2. CASE rotateIfFull(fs) = Append(fs, EmptyFile)
  <2>1. PICK g : g = Append(fs, EmptyFile) OBVIOUS
  <2>2. Len(g) = n + 1 /\ g[n + 1] = EmptyFile BY <2>1
  <2>3. \A i \in n + 1 .. n + 1 : i = n + 1 OBVIOUS
  <2>4. EmptyFile.recs = <<>> BY DEF EmptyFile
  <2> QED BY <1>2, <2>1, <2>2, <2>3, <2>4
<1> QED BY <1>1, <1>2 DEF rotateIfFull

\* The log after a batch: its records are in what was the last file.
LEMMA WriteRunsFiles ==
  ASSUME TInv, Placed, WriteRuns
  PROVE  LET L == Len(files)
             M == Len(files') IN
         /\ L \in Nat \ {0} /\ M \in Nat /\ L <= M /\ DOMAIN files = 1 .. L /\ DOMAIN files' = 1 .. M
         /\ \A i \in 1 .. L - 1 : files'[i] = files[i]
         /\ Once(files'[L].recs)
         /\ Ids(files[L].recs) \subseteq Ids(files'[L].recs)
         /\ Ids(files'[L].recs) \subseteq Ids(files[L].recs) \cup Ids(batch)
         /\ \A i \in L + 1 .. M : files'[i].recs = <<>>
         /\ acked' = acked \cup (Ids(batch) \cap Ids(files'[L].recs))
         /\ batch' = <<>>
         /\ UNCHANGED <<meta, stream, cols, tx, segs, nextId, flushTouched, fpc, fcount>>
<1> DEFINE w == Written(batch)
           torn == [files EXCEPT ![Len(files)] = w.file]
<1>0. /\ pc \in {"wal", "retry"} /\ files' = rotateIfFull(torn)
      /\ acked' = acked \cup (Ids(batch) \cap Ids(w.file.recs)) /\ batch' = <<>>
      /\ UNCHANGED <<meta, stream, cols, tx, segs, nextId, flushTouched, fpc, fcount>>
  BY DEF WriteRuns, flusher
<1>a. LogOk(files, metaDisk) /\ metaDisk \in Nat /\ meta \in Nat BY DEF TInv, Types, Codes, LogOk
<1>l. Len(files) \in Nat \ {0} /\ DOMAIN files = 1 .. Len(files) BY <1>a DEF LogOk
<1>z. Last(files) = files[Len(files)] /\ Len(files) \in DOMAIN files BY <1>l DEF Last
<1>b. Upto(Last(files).recs, metaDisk) BY <1>a, <1>z DEF LogOk
<1>c. batch \in Seq(Record) /\ files \in Seq(LogFile) /\ files # <<>> /\ IsSeq(tagState, meta)
  BY DEF TInv, Types, Numbered
<1>d. Upto(batch, metaDisk) BY <1>0 DEF TInv, Codes
<1>e. Once(batch) /\ Once(Last(files).recs) /\ Ids(Last(files).recs) \cap Ids(batch) = {}
  <2>1. Ids(Last(files).recs) \subseteq Spent BY <1>z DEF Placed, Everywhere, WalIds
  <2> QED BY <1>z, <2>1 DEF Placed, LogOnce, Spent
<1>f. /\ w.file \in LogFile /\ Upto(w.file.recs, metaDisk)
      /\ Ids(Last(files).recs) \subseteq Ids(w.file.recs)
  BY <1>a, <1>b, <1>c, <1>d, WrittenOk
<1>g. Once(w.file.recs) /\ Ids(w.file.recs) \subseteq Ids(Last(files).recs) \cup Ids(batch)
  BY <1>a, <1>b, <1>c, <1>d, <1>e, WrittenOnce
<1> HIDE DEF w
<1>h. /\ LogOk(torn, metaDisk) /\ Len(torn) = Len(files) /\ torn[Len(files)] = w.file
      /\ \A i \in 1 .. Len(files) - 1 : torn[i] = files[i]
  BY <1>a, <1>f, LastReplaced
<1> HIDE DEF torn
<1>i. /\ LogOk(files', metaDisk) /\ Len(files) <= Len(files')
      /\ \A i \in 1 .. Len(files) : files'[i] = torn[i]
  BY <1>0, <1>a, <1>h, RotateOk
<1>j. \A i \in Len(files) + 1 .. Len(files') : files'[i].recs = <<>>
  BY <1>0, <1>h, <1>l, RotateAdds DEF LogOk
<1>k. Len(files') \in Nat /\ DOMAIN files' = 1 .. Len(files') BY <1>i DEF LogOk
<1>m. PICK L \in Nat \ {0} : L = Len(files) BY <1>l
<1>n. \A i \in 1 .. L - 1 : i \in 1 .. L BY <1>m
<1>o. \A i \in 1 .. L - 1 : files'[i] = files[i] BY <1>h, <1>i, <1>m, <1>n
<1>p. L \in 1 .. L /\ files'[L] = w.file BY <1>h, <1>i, <1>m
<1> QED BY <1>0, <1>f, <1>g, <1>i, <1>j, <1>k, <1>l, <1>m, <1>o, <1>p, <1>z

\* The batch is in the log.
LEMMA PlacedWriteRuns ==
  ASSUME TInv, Placed, WriteRuns
  PROVE  Placed'
<1>1. PICK L \in Nat \ {0}, M \in Nat :
         /\ L = Len(files) /\ M = Len(files') /\ L <= M
         /\ DOMAIN files = 1 .. L /\ DOMAIN files' = 1 .. M
         /\ \A i \in 1 .. L - 1 : files'[i] = files[i]
         /\ Once(files'[L].recs)
         /\ Ids(files[L].recs) \subseteq Ids(files'[L].recs)
         /\ Ids(files'[L].recs) \subseteq Ids(files[L].recs) \cup Ids(batch)
         /\ \A i \in L + 1 .. M : files'[i].recs = <<>>
         /\ acked' = acked \cup (Ids(batch) \cap Ids(files'[L].recs))
         /\ batch' = <<>>
         /\ UNCHANGED <<meta, stream, cols, tx, segs, nextId, flushTouched, fpc, fcount>>
  BY WriteRunsFiles, ZenonT(60)
<1>2. Ids(<<>>) = {} /\ Once(<<>>)
  <2>1. DOMAIN <<>> = {} OBVIOUS
  <2> QED BY <2>1 DEF Ids, Once
<1> DEFINE W == Ids(files'[L].recs)
<1>3. /\ L \in 1 .. L /\ L \in 1 .. M /\ \A i \in 1 .. L : i \in 1 .. M
      /\ \A i \in 1 .. M : i \in 1 .. L - 1 \/ i = L \/ i \in L + 1 .. M
      /\ \A i \in 1 .. L : i \in 1 .. L - 1 \/ i = L
      /\ \A i \in 1 .. L - 1 : i \in 1 .. L /\ i # L
  BY <1>1, SMTT(40)
<1>4. \A i \in 1 .. L : Ids(files[i].recs) \subseteq Spent BY <1>1 DEF Placed, Everywhere, WalIds
<1>5. Spent \cap Ids(batch) = {} /\ Ids(batch) \subseteq 1 .. nextId - 1 BY DEF Spent, TInv, Numbered
<1>6. \A i \in 1 .. L - 1 : Ids(files[i].recs) \cap W = {}
  <2>1. \A i \in 1 .. L - 1 : Ids(files[i].recs) \cap Ids(files[L].recs) = {}
    BY <1>1, <1>3 DEF Placed, LogOnce
  <2>2. \A i \in 1 .. L - 1 : Ids(files[i].recs) \cap Ids(batch) = {} BY <1>3, <1>4, <1>5
  <2> QED BY <1>1, <2>1, <2>2
<1>7. \A i \in L + 1 .. M : Ids(files'[i].recs) = {} /\ Once(files'[i].recs) BY <1>1, <1>2
<1> HIDE DEF W
<1>8. LogOnce(files')
  <2>1. ASSUME NEW i \in 1 .. M PROVE Once(files'[i].recs)
    <3>1. CASE i \in 1 .. L - 1 BY <1>1, <1>3, <3>1 DEF Placed, LogOnce
    <3> QED BY <1>1, <1>3, <1>7, <3>1
  <2>2. ASSUME NEW i \in 1 .. M, NEW j \in 1 .. M, i # j
        PROVE  Ids(files'[i].recs) \cap Ids(files'[j].recs) = {}
    <3>1. CASE i \in 1 .. L - 1 /\ j \in 1 .. L - 1
      BY <1>1, <1>3, <2>2, <3>1, ZenonT(60) DEF Placed, LogOnce
    <3>2. CASE i \in L + 1 .. M \/ j \in L + 1 .. M BY <1>7, <3>2
    <3>3. CASE i \in 1 .. L - 1 /\ j = L BY <1>1, <1>6, <3>3 DEF W
    <3>4. CASE j \in 1 .. L - 1 /\ i = L BY <1>1, <1>6, <3>4 DEF W
    <3> QED BY <1>3, <2>2, <3>1, <3>2, <3>3, <3>4
  <2> QED BY <1>1, <2>1, <2>2 DEF LogOnce
<1>9. Taken' = Taken /\ Taken \in 0 .. L - 1
  <2>1. fpc \in {"encode", "commit", "remove"} => fcount \in 0 .. L - 1
    BY <1>1 DEF TInv, Types, Locks
  <2> QED BY <1>1, <2>1 DEF Taken
<1>10. TakenIds' = TakenIds
  <2>1. \A i \in 1 .. Taken : files'[i] = files[i] BY <1>1, <1>9, SMTT(40)
  <2> QED BY <1>9, <2>1 DEF TakenIds
<1>11. RestIds' = RestIds \cup W
  <2>0. /\ L \in Taken + 1 .. L /\ L \in Taken + 1 .. M
        /\ \A i \in Taken + 1 .. L : i \in Taken + 1 .. M /\ (i \in 1 .. L - 1 \/ i = L)
        /\ \A i \in Taken + 1 .. M : i \in L + 1 .. M \/ i = L \/ (i \in 1 .. L - 1 /\ i \in Taken + 1 .. L)
    BY <1>1, <1>9, SMTT(40)
  <2>1. ASSUME NEW i \in Taken + 1 .. M PROVE Ids(files'[i].recs) \subseteq RestIds \cup W
    <3>1. CASE i \in L + 1 .. M BY <1>7, <3>1
    <3>2. CASE i = L BY <3>2 DEF W
    <3>3. CASE i \in 1 .. L - 1 /\ i \in Taken + 1 .. L
      <4>1. files'[i] = files[i] BY <1>1, <3>3
      <4>2. Ids(files[i].recs) \subseteq RestIds BY <1>1, <3>3 DEF RestIds
      <4> QED BY <4>1, <4>2
    <3> QED BY <2>0, <3>1, <3>2, <3>3
  <2>2. W \subseteq RestIds' BY <1>1, <1>9, <2>0, SMTT(40) DEF RestIds, W
  <2>3. \A i \in Taken + 1 .. L : Ids(files[i].recs) \subseteq RestIds'
    <3>1. \A i \in Taken + 1 .. L : Ids(files[i].recs) \subseteq Ids(files'[i].recs) BY <1>1, <2>0
    <3> QED BY <1>1, <1>9, <2>0, <3>1, SMTT(40) DEF RestIds
  <2>4. RestIds \subseteq RestIds' BY <1>1, <2>3, ZenonT(60) DEF RestIds
  <2>5. RestIds' \subseteq RestIds \cup W BY <1>1, <1>9, <2>1, SMTT(40) DEF RestIds
  <2> QED BY <2>2, <2>4, <2>5
<1>12. W \subseteq RestIds \cup Ids(batch)
  <2>1. L \in Taken + 1 .. L BY <1>9
  <2>2. Ids(files[L].recs) \subseteq RestIds BY <1>1, <2>1 DEF RestIds
  <2> QED BY <1>1, <2>2 DEF W
<1>13. \A c : HeldIds(c)' = HeldIds(c) /\ (ColOnce(c)' <=> ColOnce(c)) BY <1>1 DEF HeldIds, ColOnce
<1>14. Pool' = Pool BY <1>1, <1>13 DEF Pool
<1>15. ColsOnce' BY <1>1, <1>13 DEF Placed, ColsOnce
<1>16. Spent' = 1 .. nextId - 1 BY <1>1, <1>2 DEF Spent
<1>17. Everywhere' \subseteq Spent'
  <2>1. \A i \in 1 .. M : Ids(files'[i].recs) \subseteq WalIds \cup W
    BY <1>1, <1>3, <1>7, SMTT(40) DEF WalIds, W
  <2>2. WalIds' \subseteq WalIds \cup W BY <1>1, <2>1 DEF WalIds
  <2>3. W \subseteq 1 .. nextId - 1 BY <1>1, <1>3, <1>4, <1>5 DEF W, Spent
  <2>4. Everywhere \subseteq 1 .. nextId - 1 BY DEF Placed, Spent
  <2> QED BY <1>1, <1>14, <1>16, <2>2, <2>3, <2>4, ZenonT(60) DEF Everywhere
<1>18. Phases' BY <1>1 DEF Placed, Phases, Upto
<1>19. Spread(RestIds, Ids(stream), Pool, Ids(tx), Ids(segs))'
  <2>1. (Ids(stream) \cup Pool \cup Ids(tx) \cup Ids(segs)) \cap Ids(batch) = {}
    BY <1>5 DEF Placed, Everywhere
  <2> QED BY <1>1, <1>11, <1>12, <1>14, <2>1 DEF Placed, Spread
<1>20. acked' \subseteq RestIds' \cup Ids(stream') \cup Pool' \cup Ids(tx') \cup Ids(segs')
  BY <1>1, <1>11, <1>14 DEF Placed, W
<1> QED BY <1>1, <1>2, <1>8, <1>10, <1>15, <1>17, <1>18, <1>19, <1>20, SMTT(40) DEF Placed

\* The files of the flush are removed: their records are in the segments or in a column.
LEMMA PlacedTruncated ==
  ASSUME TInv, Placed, Truncated
  PROVE  Placed'
<1>0. /\ fpc = "remove" /\ files' = truncate(files, fcount) /\ fpc' \in {"start", "off"}
      /\ flushTouched' = {}
      /\ UNCHANGED <<meta, segs, stream, tx, cols, acked, nextId, batch>>
  BY DEF Truncated
<1>1. PICK L \in Nat, n \in Nat : L = Len(files) /\ n = fcount /\ n < L /\ DOMAIN files = 1 .. L
  BY <1>0 DEF TInv, Types, Locks
<1>2. /\ Len(files') = L - n /\ DOMAIN files' = 1 .. L - n
      /\ \A i \in 1 .. L - n : files'[i] = files[n + i]
  <2>1. LogOk(files, metaDisk) /\ metaDisk \in Nat BY DEF TInv, Types, Codes, LogOk
  <2>2. n \in 0 .. Len(files) - 1 /\ ~(n >= Len(files)) BY <1>1
  <2>3. files' = SubSeq(files, n + 1, Len(files)) BY <1>0, <1>1, <2>2 DEF truncate
  <2>4. LogOk(files', metaDisk) /\ Len(files') = L - n /\ \A i \in 1 .. L - n : files'[i] = files[n + i]
    BY <1>1, <2>1, <2>2, <2>3, SuffixOk, SMTT(40)
  <2> QED BY <2>4 DEF LogOk
<1>3. /\ \A i \in 1 .. L - n : \E j \in n + 1 .. L : j = n + i
      /\ \A j \in n + 1 .. L : \E i \in 1 .. L - n : j = n + i
      /\ \A i, j \in 1 .. L - n : i # j => n + i # n + j
      /\ \A j \in n + 1 .. L : j \in 1 .. L
  <2>1. \A j \in n + 1 .. L : j - n \in 1 .. L - n /\ j = n + (j - n) BY <1>1
  <2>2. \A i \in 1 .. L - n : n + i \in n + 1 .. L BY <1>1
  <2> QED BY <1>1, <2>1, <2>2
<1>4. LogOnce(files')
  <2>1. \A i \in 1 .. L - n : n + i \in DOMAIN files BY <1>1
  <2>2. ASSUME NEW i \in 1 .. L - n PROVE Once(files'[i].recs)
    <3>1. PICK p \in DOMAIN files : files'[i] = files[p] BY <1>2, <2>1
    <3> QED BY <3>1 DEF Placed, LogOnce
  <2>3. ASSUME NEW i \in 1 .. L - n, NEW j \in 1 .. L - n, i # j
        PROVE  Ids(files'[i].recs) \cap Ids(files'[j].recs) = {}
    <3>1. PICK p \in DOMAIN files : p = n + i /\ files'[i] = files[p] BY <1>2, <2>1
    <3>2. PICK q \in DOMAIN files : q = n + j /\ files'[j] = files[q] BY <1>2, <2>1
    <3>3. p # q BY <1>3, <2>3, <3>1, <3>2
    <3> QED BY <3>1, <3>2, <3>3 DEF Placed, LogOnce
  <2> QED BY <1>2, <2>2, <2>3 DEF LogOnce
<1>5. Taken = n /\ Taken' = 0 BY <1>0, <1>1 DEF Taken
<1>6. RestIds' = RestIds
  <2>1. RestIds = UNION {Ids(files[j].recs) : j \in n + 1 .. L} BY <1>1, <1>5 DEF RestIds
  <2>2. 0 + 1 .. L - n = 1 .. L - n OBVIOUS
  <2>3. RestIds' = UNION {Ids(files'[i].recs) : i \in 1 .. L - n} BY <1>2, <1>5, <2>2 DEF RestIds
  <2>4. ASSUME NEW i \in 1 .. L - n PROVE Ids(files'[i].recs) \subseteq RestIds
    <3>1. PICK j \in n + 1 .. L : files'[i] = files[j] BY <1>2, <1>3
    <3> QED BY <2>1, <3>1
  <2>5. ASSUME NEW j \in n + 1 .. L PROVE Ids(files[j].recs) \subseteq RestIds'
    <3>1. PICK i \in 1 .. L - n : files'[i] = files[j] BY <1>2, <1>3, ZenonT(60)
    <3> QED BY <2>3, <3>1
  <2> QED BY <2>1, <2>3, <2>4, <2>5, SMTT(40)
<1>7. WalIds' \subseteq WalIds
  <2>1. WalIds' = RestIds'
    <3>1. 0 + 1 .. L - n = 1 .. L - n OBVIOUS
    <3> QED BY <1>2, <1>5, <3>1 DEF RestIds, WalIds
  <2>2. RestIds \subseteq WalIds BY <1>1, <1>3, <1>5 DEF RestIds, WalIds
  <2> QED BY <1>6, <2>1, <2>2
<1>8. \A c \in 1 .. meta : cols[c].buf = <<>> BY <1>0 DEF Placed, Phases
<1>9. \A c \in 1 .. meta : HeldIds(c)' = HeldIds(c) /\ ColOnce(c)'
  BY <1>0, <1>8 DEF Placed, ColsOnce, HeldIds, ColOnce
<1>10. Pool' = Pool BY <1>0, <1>9 DEF Pool
<1>11. ColsOnce' BY <1>0, <1>9 DEF Placed, ColsOnce
<1>12. Everywhere' \subseteq Everywhere /\ Spent' = Spent
  BY <1>0, <1>7, <1>10 DEF Everywhere, Spent
<1>13. Phases' BY <1>0 DEF Placed, Phases, Upto
<1>14. Spread(RestIds, Ids(stream), Pool, Ids(tx), Ids(segs))'
  BY <1>0, <1>6, <1>10 DEF Placed, Spread
<1> QED BY <1>0, <1>4, <1>6, <1>10, <1>11, <1>12, <1>13, <1>14 DEF Placed

\* With values of one type a failed flush drops only copies of records of its files.
LEMMA PlacedFail ==
  ASSUME TInv, TInv', Placed, Feeds, Feeds', OneTypeInv, OneTypeInv', FlushFail
  PROVE  Placed'
<1>0. /\ fpc \in {"encode", "commit"} /\ fpc' = "off" /\ tx' = <<>> /\ stream' = <<>>
      /\ flushTouched' = {} /\ batch' \in {batch, <<>>}
      /\ UNCHANGED <<meta, segs, files, acked, nextId>>
  BY DEF FlushFail, walVars, worker
<1>1. DOMAIN <<>> = {} /\ Ids(<<>>) = {} /\ Once(<<>>)
  <2>1. DOMAIN <<>> = {} OBVIOUS
  <2> QED BY <2>1 DEF Ids, Once
<1>2. \A c \in 1 .. meta : cols'[c].buf = <<>> /\ cols'[c].pre = NoRec
  <2>1. \A c \in 1 .. meta : cols'[c].buf = <<>> BY <1>0 DEF Feeds
  <2>2. \A c \in 1 .. meta : cols'[c].pre = NoRec
    <3>1. \A c \in 1 .. meta' : cols'[c].pre \in {NoRec} BY DEF OneTypeInv, Plain
    <3> QED BY <1>0, <3>1
  <2> QED BY <2>1, <2>2
<1>3. \A c \in 1 .. meta : HeldIds(c)' = {} /\ ColOnce(c)'
  <2>1. NoRec.id = 0 BY DEF NoRec
  <2> QED BY <1>1, <1>2, <2>1 DEF HeldIds, ColOnce
<1>4. Pool' = {} BY <1>0, <1>3 DEF Pool
<1>5. ColsOnce' BY <1>0, <1>3 DEF ColsOnce
<1>6. PICK L \in Nat, n \in Nat : L = Len(files) /\ n = fcount /\ n < L /\ DOMAIN files = 1 .. L
  BY <1>0 DEF TInv, Types, Locks
<1>7. Taken = n /\ Taken' = 0 BY <1>0, <1>6 DEF Taken
<1>8. RestIds' = WalIds
  <2>1. 0 + 1 .. L = 1 .. L OBVIOUS
  <2> QED BY <1>0, <1>6, <1>7, <2>1 DEF RestIds, WalIds
<1>9. WalIds = TakenIds \cup RestIds
  <2>1. 1 .. L = (1 .. n) \cup (n + 1 .. L) BY <1>6
  <2> QED BY <1>6, <1>7, <2>1, SMTT(40) DEF WalIds, TakenIds, RestIds
<1>10. WalIds \cap Ids(segs) = {} BY <1>0, <1>9 DEF Placed, Spread
<1>11. Once(batch') /\ Ids(batch') \subseteq Ids(batch) BY <1>0, <1>1 DEF Placed
<1>12. Everywhere' \subseteq Everywhere /\ Spent \subseteq Spent'
  BY <1>0, <1>1, <1>4, <1>11 DEF Everywhere, Spent, WalIds
<1>13. Phases' BY <1>0, <1>1, <1>2 DEF Phases, Upto
<1>14. Spread(RestIds, Ids(stream), Pool, Ids(tx), Ids(segs))'
  BY <1>0, <1>1, <1>4, <1>8, <1>10 DEF Spread
<1>15. acked \subseteq WalIds \cup Ids(segs) BY DEF OneTypeInv
<1>16. acked' \subseteq RestIds' \cup Ids(stream') \cup Pool' \cup Ids(tx') \cup Ids(segs')
  BY <1>0, <1>8, <1>15
<1>17. Once(stream') /\ Once(tx') BY <1>0, <1>1
<1> QED BY <1>0, <1>5, <1>11, <1>12, <1>13, <1>14, <1>16, <1>17 DEF Placed

\* The records of the complete files, read in file order or sorted, each once.
LEMMA StreamOnce ==
  ASSUME TInv, LogOnce(files), FlushStart
  PROVE  LET n == Len(files) - 1 IN
         /\ Once(stream') /\ Ids(stream') = UNION {Ids(files[i].recs) : i \in 1 .. n}
         /\ Upto(stream', meta)
<1> DEFINE n == Len(files) - 1
           s == [i \in 1 .. n |-> files[i].recs]
           recs == FlattenSeq(s)
<1>0. stream' \in {sortEntries(recs), recs} BY DEF FlushStart
<1>1. /\ n \in Nat /\ 1 .. n \subseteq DOMAIN files
      /\ \A i \in 1 .. n : files[i].recs \in Seq(Record)
  <2>1. Len(files) \in Nat \ {0} /\ files \in Seq(LogFile) BY DEF TInv, Types
  <2>2. n \in Nat /\ 1 .. n \subseteq DOMAIN files BY <2>1
  <2>3. \A i \in 1 .. n : files[i] \in LogFile BY <2>1, <2>2
  <2> QED BY <2>2, <2>3 DEF LogFile
<1> HIDE DEF n
<1>2. IsSeq(s, n) BY DEF IsSeq
<1>3. \A i \in 1 .. n : s[i] = files[i].recs OBVIOUS
<1> HIDE DEF s
<1>4. \A i \in 1 .. n : s[i] \in Seq(Record) /\ Once(s[i]) BY <1>1, <1>3 DEF LogOnce
<1>5. \A i, j \in 1 .. n : i # j => Ids(s[i]) \cap Ids(s[j]) = {} BY <1>1, <1>3 DEF LogOnce
<1>6. /\ recs \in Seq(Record) /\ Once(recs)
      /\ Ids(recs) = UNION {Ids(s[i]) : i \in 1 .. n}
  BY <1>1, <1>2, <1>4, <1>5, OnceFlatten
<1>7. Turns(recs, s, n) BY <1>1, <1>2, <1>4, FlattenTurns
<1> HIDE DEF recs
<1>8. UNION {Ids(s[i]) : i \in 1 .. n} = UNION {Ids(files[i].recs) : i \in 1 .. n} BY <1>3
<1>9. ASSUME NEW k \in DOMAIN recs PROVE recs[k].code <= meta
  <2>1. From(recs[k], s, n) BY <1>7 DEF Turns
  <2>2. PICK i \in 1 .. n : \E q \in DOMAIN s[i] : recs[k] = s[i][q] BY <2>1 DEF From
  <2>3. PICK q \in DOMAIN files[i].recs : recs[k] = files[i].recs[q] BY <1>3, <2>2
  <2>4. recs[k].code <= metaDisk BY <1>1, <2>3 DEF TInv, Codes, Upto
  <2>5. recs[k].code \in Nat
    <3>1. recs[k] \in Record BY <1>6
    <3> QED BY <3>1 DEF Record
  <2>6. meta \in Nat /\ metaDisk \in 0 .. meta BY DEF TInv, Types
  <2> QED BY <2>4, <2>5, <2>6
<1>10. CASE stream' = recs BY <1>6, <1>8, <1>9, <1>10 DEF Upto, n
<1>11. CASE stream' = sortEntries(recs)
  <2>1. PICK t : t = sortEntries(recs) OBVIOUS
  <2>2. Drawn(t, recs) /\ Ids(recs) \subseteq Ids(t) BY <1>6, <2>1, SortIds
  <2>3. Once(t) /\ Ids(t) \subseteq Ids(recs) BY <1>6, <2>2, OnceDrawn
  <2>4. \A k \in DOMAIN t : t[k].code <= meta BY <1>9, <2>2 DEF Drawn
  <2> QED BY <1>6, <1>8, <1>11, <2>1, <2>2, <2>3, <2>4 DEF Upto, n
<1> QED BY <1>0, <1>10, <1>11

\* A flush takes the complete files.
LEMMA PlacedStart ==
  ASSUME TInv, Placed, FlushStart
  PROVE  Placed'
<1>0. /\ fpc = "start" /\ fpc' = "encode" /\ fcount' = Len(files) - 1 /\ tx' = <<>> /\ flushTouched' = {}
      /\ UNCHANGED <<meta, files, segs, cols, acked, nextId, batch>>
  BY DEF FlushStart, walVars, worker
<1>1. PICK n \in Nat : n = Len(files) - 1 /\ Len(files) = n + 1 /\ DOMAIN files = 1 .. n + 1
  BY SMTT(40) DEF TInv, Types
<1>2. /\ Once(stream') /\ Ids(stream') = UNION {Ids(files[i].recs) : i \in 1 .. n}
      /\ Upto(stream', meta)
  BY <1>1, StreamOnce DEF Placed
<1>3. DOMAIN <<>> = {} /\ Ids(<<>>) = {} /\ Once(<<>>)
  <2>1. DOMAIN <<>> = {} OBVIOUS
  <2> QED BY <2>1 DEF Ids, Once
<1>4. stream = <<>> /\ tx = <<>> /\ \A c \in 1 .. meta : cols[c].buf = <<>>
  BY <1>0 DEF Placed, Phases
<1>5. Taken = 0 /\ Taken' = n BY <1>0, <1>1 DEF Taken
<1>6. RestIds = WalIds
  <2>1. 0 + 1 .. n + 1 = 1 .. n + 1 OBVIOUS
  <2> QED BY <1>1, <1>5, <2>1 DEF RestIds, WalIds
<1>7. TakenIds' = Ids(stream') BY <1>0, <1>2, <1>5 DEF TakenIds
<1>8. RestIds' = Ids(files[n + 1].recs)
  <2>1. n + 1 .. n + 1 = {n + 1} OBVIOUS
  <2> QED BY <1>0, <1>1, <1>5, <2>1 DEF RestIds
<1>9. WalIds = Ids(stream') \cup RestIds'
  <2>1. 1 .. n + 1 = (1 .. n) \cup {n + 1} OBVIOUS
  <2> QED BY <1>1, <1>2, <1>8, <2>1 DEF WalIds
<1>10. RestIds' \cap Ids(stream') = {}
  <2>1. \A i \in 1 .. n : i \in 1 .. n + 1 /\ i # n + 1 BY <1>1
  <2>2. n + 1 \in 1 .. n + 1 OBVIOUS
  <2>3. \A i \in 1 .. n : Ids(files[i].recs) \cap Ids(files[n + 1].recs) = {}
    BY <1>1, <2>1, <2>2 DEF Placed, LogOnce
  <2> QED BY <1>2, <1>8, <2>3
<1>11. \A c \in 1 .. meta : HeldIds(c)' = HeldIds(c) /\ ColOnce(c)'
  BY <1>0, <1>4 DEF Placed, ColsOnce, HeldIds, ColOnce
<1>12. Pool' = Pool BY <1>0, <1>11 DEF Pool
<1>13. ColsOnce' BY <1>0, <1>11 DEF Placed, ColsOnce
<1>14. WalIds' = WalIds BY <1>0 DEF WalIds
<1>15. Everywhere' \subseteq Everywhere /\ Spent' = Spent
  BY <1>0, <1>3, <1>9, <1>12, <1>14 DEF Everywhere, Spent
<1>16. Phases' BY <1>0, <1>2 DEF Phases
<1>17. Spread(RestIds, Ids(stream), Pool, Ids(tx), Ids(segs))'
  BY <1>0, <1>3, <1>6, <1>9, <1>10, <1>12 DEF Placed, Spread
<1>18. TakenIds' \cap Ids(segs') = {} BY <1>0, <1>6, <1>7, <1>9 DEF Placed, Spread
<1>19. acked' \subseteq RestIds' \cup Ids(stream') \cup Pool' \cup Ids(tx') \cup Ids(segs')
  BY <1>0, <1>3, <1>4, <1>6, <1>9, <1>12 DEF Placed
<1>20. Once(tx') BY <1>0, <1>3
<1> QED BY <1>0, <1>2, <1>13, <1>15, <1>16, <1>17, <1>18, <1>19, <1>20 DEF Placed

\* What one column holds.
Held(col) == Ids(col.buf) \cup ({col.pre.id} \ {0})

\* The column and the transaction after a pair: the pair is in the column, and what the
\* column held is in it or in the block written out, each record in one place.
Moved(col, r, new, out) ==
  /\ new \in Column /\ out \in Seq(Record) /\ Once(new.buf) /\ Once(out)
  /\ new.pre # NoRec => new.buf = <<>> /\ new.pre.id # 0
  /\ Held(new) \cup Ids(out) = Held(col) \cup {r.id} /\ Held(new) \cap Ids(out) = {}

\* The pair a column kept back goes first into its buffer, which is empty then.
LEMMA ColumnMoves ==
  ASSUME NEW col \in Column, NEW r \in Record, r.id # 0, Once(col.buf),
         col.pre # NoRec => col.buf = <<>> /\ col.pre.id # 0, r.id \notin Held(col)
  PROVE  LET w == columnWrite(col, r) IN
         /\ w.ok \in BOOLEAN
         /\ w.ok => Moved(col, r, w.col, <<>>)
         /\ ~w.ok => Moved(col, r, glowWrite(w.col), w.col.buf)
<1> DEFINE hasPre == col.pre # NoRec
           base == IF hasPre THEN Append(col.buf, col.pre) ELSE col.buf
<1>1. col.buf \in Seq(Record) /\ col.pre \in Record \cup {NoRec} BY DEF Column
<1>2. NoRec.id = 0 BY DEF NoRec
<1>3. Ids(<<>>) = {} /\ Once(<<>>) /\ <<>> \in Seq(Record)
  <2>1. DOMAIN <<>> = {} OBVIOUS
  <2> QED BY <2>1 DEF Ids, Once
<1>4. base \in Seq(Record) /\ Once(base) /\ Ids(base) = Held(col)
  <2>1. CASE hasPre
    <3>1. col.buf = <<>> /\ col.pre \in Record /\ col.pre.id # 0 BY <1>1, <2>1
    <3>2. PICK p \in Record : p = col.pre BY <3>1
    <3>3. base = Append(<<>>, p) BY <2>1, <3>1, <3>2
    <3>4. /\ Append(<<>>, p) \in Seq(Record) /\ Once(Append(<<>>, p))
          /\ Ids(Append(<<>>, p)) = Ids(<<>>) \cup {p.id}
      BY <1>3, OnceAppend
    <3>5. Held(col) = {p.id} BY <1>3, <3>1, <3>2 DEF Held
    <3> QED BY <1>3, <3>3, <3>4, <3>5
  <2>2. CASE ~hasPre
    <3>1. base = col.buf /\ col.pre.id = 0 BY <1>2, <2>2
    <3> QED BY <1>1, <3>1 DEF Held
  <2> QED BY <2>1, <2>2
<1>5. ~(hasPre /\ ~accepts(col.buf, col.pre)) BY DEF accepts
<1>6. columnWrite(col, r) = IF accepts(base, r)
                            THEN [col |-> [buf |-> Append(base, r), pre |-> NoRec], ok |-> TRUE]
                            ELSE [col |-> [buf |-> base, pre |-> r], ok |-> FALSE]
  BY <1>5 DEF columnWrite
<1> HIDE DEF base, hasPre
<1>7. CASE accepts(base, r)
  <2>1. PICK d : d = Append(base, r) OBVIOUS
  <2>2. d \in Seq(Record) /\ Once(d) /\ Ids(d) = Ids(base) \cup {r.id} BY <1>4, <2>1, OnceAppend
  <2>3. PICK new : new = [buf |-> d, pre |-> NoRec] OBVIOUS
  <2>4. columnWrite(col, r) = [col |-> new, ok |-> TRUE] BY <1>6, <1>7, <2>1, <2>3
  <2>5. new \in Column /\ new.buf = d /\ new.pre = NoRec BY <2>2, <2>3 DEF Column
  <2>6. Held(new) = Held(col) \cup {r.id} BY <1>2, <1>4, <2>2, <2>5 DEF Held
  <2>7. Moved(col, r, new, <<>>) BY <1>3, <2>2, <2>5, <2>6 DEF Moved
  <2>8. columnWrite(col, r).ok = TRUE /\ columnWrite(col, r).col = new BY <2>4
  <2> QED BY <2>7, <2>8
<1>8. CASE ~accepts(base, r)
  <2>1. PICK c : c = [buf |-> base, pre |-> r] OBVIOUS
  <2>2. columnWrite(col, r) = [col |-> c, ok |-> FALSE] BY <1>6, <1>8, <2>1
  <2>3. c \in Column /\ c.buf = base /\ c.pre = r BY <1>4, <2>1 DEF Column
  <2>4. PICK g : g = glowWrite(c) OBVIOUS
  <2>5. g \in Column /\ g.buf = <<>> /\ g.pre = r BY <2>3, <2>4, Glowed
  <2>6. Held(g) = {r.id} BY <1>3, <2>5 DEF Held
  <2>7. Moved(col, r, g, base) BY <1>3, <1>4, <2>5, <2>6 DEF Moved
  <2>8. columnWrite(col, r).ok = FALSE /\ columnWrite(col, r).col = c BY <2>2
  <2> QED BY <2>3, <2>4, <2>7, <2>8
<1> QED BY <1>7, <1>8

\* The step of processEntry.
Encoded(r, c, new, out) ==
  /\ c = r.code /\ Ids(stream) = Ids(stream') \cup {r.id} /\ r.id \notin Ids(stream')
  /\ Once(stream') /\ Upto(stream', meta)
  /\ Moved(cols[c], r, new, out)
  /\ \A d \in 1 .. meta : cols'[d] = IF d = c THEN new ELSE cols[d]
  /\ Once(tx') /\ Ids(tx') = Ids(tx) \cup Ids(out)
  /\ fpc = "encode" /\ flushTouched' = flushTouched \cup {c}
  /\ UNCHANGED <<meta, files, segs, batch, fpc, fcount, nextId, acked>>

\* It moves the head of the stream into its column, and a rejected pair's
\* predecessors into the transaction.
LEMMA EncodeMoves ==
  ASSUME TInv, Data, Placed, Encode
  PROVE  \E r \in Record, c \in 1 .. meta : \E new, out : Encoded(r, c, new, out)
<1> DEFINE r == Head(stream)
           c == r.code
           w == columnWrite(cols[c], r)
           new == IF w.ok THEN w.col ELSE glowWrite(w.col)
           out == IF w.ok THEN <<>> ELSE w.col.buf
<1>0. /\ fpc = "encode" /\ stream # <<>> /\ c <= Len(cols) /\ stream' = Tail(stream)
      /\ flushTouched' = flushTouched \cup {c}
      /\ cols' = [cols EXCEPT ![c] = new]
      /\ tx' = IF w.ok THEN tx ELSE tx \o w.col.buf
      /\ UNCHANGED <<meta, files, segs, batch, fpc, fcount, nextId, acked>>
  BY DEF Encode, walVars, worker
<1>1. stream \in Seq(Record) /\ tx \in Seq(Record) BY SMTT(40) DEF Data
<1>2. /\ r \in Record /\ Once(Tail(stream))
      /\ Ids(stream) = Ids(Tail(stream)) \cup {r.id} /\ r.id \notin Ids(Tail(stream))
  BY <1>0, <1>1, OnceTail DEF Placed
<1>3. Upto(Tail(stream), meta)
  <2>1. \A k \in DOMAIN Tail(stream) : \E l \in DOMAIN stream : Tail(stream)[k] = stream[l]
    <3>1. PICK n \in Nat : n = Len(stream) /\ n > 0 BY <1>0, <1>1, SMTT(40)
    <3>2. DOMAIN stream = 1 .. n /\ DOMAIN Tail(stream) = 1 .. n - 1
          /\ \A k \in 1 .. n - 1 : Tail(stream)[k] = stream[k + 1]
      BY <1>0, <1>1, <3>1
    <3>3. \A k \in 1 .. n - 1 : k + 1 \in 1 .. n BY <3>1, SMTT(40)
    <3> QED BY <3>2, <3>3, SMTT(40)
  <2> QED BY <2>1 DEF Placed, Phases, Upto
<1> HIDE DEF r
<1>4. c \in 1 .. meta /\ DOMAIN cols = 1 .. meta
  <2>1. meta \in Nat /\ Len(cols) = meta /\ DOMAIN cols = 1 .. meta BY SeqLen DEF TInv, Types
  <2>2. c \in Nat \ {0} BY <1>2 DEF Record
  <2> QED BY <1>0, <2>1, <2>2
<1> HIDE DEF c
<1>5. PICK col \in Column : col = cols[c] BY <1>4 DEF Data, Column
<1>6. /\ Once(col.buf) /\ (col.pre # NoRec => col.buf = <<>> /\ col.pre.id # 0)
  BY <1>4, <1>5 DEF Placed, ColsOnce, ColOnce
<1>7. r.id # 0 /\ r.id \notin Held(col)
  <2>1. r.id \in Spent /\ r.id \in Ids(stream) BY <1>2 DEF Placed, Everywhere
  <2>2. Held(col) = HeldIds(c) BY <1>5 DEF Held, HeldIds
  <2>3. Held(col) \subseteq Pool BY <1>4, <2>2 DEF Pool
  <2> QED BY <2>1, <2>3 DEF Placed, Spread, Spent
<1>8. /\ w.ok \in BOOLEAN /\ (w.ok => Moved(col, r, w.col, <<>>))
      /\ (~w.ok => Moved(col, r, glowWrite(w.col), w.col.buf))
  BY <1>2, <1>5, <1>6, <1>7, ColumnMoves
<1> HIDE DEF w
<1>9. Moved(cols[c], r, new, out) BY <1>5, <1>8
<1>10. Once(tx') /\ Ids(tx') = Ids(tx) \cup Ids(out)
  <2>1. CASE w.ok
    <3>1. DOMAIN <<>> = {} /\ tx' = tx /\ out = <<>> BY <1>0, <2>1
    <3>2. Ids(out) = {} BY <3>1 DEF Ids
    <3> QED BY <3>1, <3>2 DEF Placed
  <2>2. CASE ~w.ok
    <3>1. tx' = tx \o out BY <1>0, <2>2
    <3> HIDE DEF out, new
    <3>2. out \in Seq(Record) /\ Once(out) /\ Ids(out) \subseteq Held(col) \cup {r.id}
      BY <1>5, <1>9 DEF Moved
    <3>3. Ids(tx) \cap Ids(out) = {}
      <4>1. Held(col) \subseteq Pool BY <1>4, <1>5 DEF Pool, Held, HeldIds
      <4>2. r.id \in Ids(stream) BY <1>2
      <4> QED BY <3>2, <4>1, <4>2 DEF Placed, Spread
    <3>4. Once(tx \o out) BY <1>1, <3>2, <3>3, OnceConcat DEF Placed
    <3>5. Ids(tx \o out) = Ids(tx) \cup Ids(out) BY <1>1, <3>2, ConcatIds
    <3> QED BY <3>1, <3>4, <3>5
  <2> QED BY <2>1, <2>2
<1> HIDE DEF new, out
<1>11. \A d \in 1 .. meta : cols'[d] = IF d = c THEN new ELSE cols[d] BY <1>0, <1>4
<1>12. c = r.code BY DEF c
<1>13. /\ Ids(stream) = Ids(stream') \cup {r.id} /\ r.id \notin Ids(stream')
       /\ Once(stream') /\ Upto(stream', meta)
  BY <1>0, <1>2, <1>3
<1>14. /\ fpc = "encode" /\ flushTouched' = flushTouched \cup {c}
       /\ UNCHANGED <<meta, files, segs, batch, fpc, fcount, nextId, acked>>
  BY <1>0
<1>15. Encoded(r, c, new, out)
  BY <1>9, <1>10, <1>11, <1>12, <1>13, <1>14 DEF Encoded
<1>16. \E n, o : Encoded(r, c, n, o) BY <1>15
<1> QED BY <1>2, <1>4, <1>16, SMTT(40)

\* The places after it.
LEMMA PlacedEncode ==
  ASSUME TInv, Data, Placed, Encode
  PROVE  Placed'
<1>0. PICK r \in Record, c \in 1 .. meta : \E new, out : Encoded(r, c, new, out) BY EncodeMoves
<1>1. PICK new, out : Encoded(r, c, new, out) BY <1>0
<1> USE DEF Encoded
<1>2. /\ Once(new.buf) /\ (new.pre # NoRec => new.buf = <<>> /\ new.pre.id # 0)
      /\ Held(new) \cup Ids(out) = HeldIds(c) \cup {r.id} /\ Held(new) \cap Ids(out) = {}
  BY <1>1 DEF Moved, Held, HeldIds
<1>3. HeldIds(c)' = Held(new) /\ \A d \in 1 .. meta : d # c => HeldIds(d)' = HeldIds(d)
  BY <1>1 DEF HeldIds, Held
<1>4. r.id \notin Pool /\ \A d \in 1 .. meta : HeldIds(d) \subseteq Pool
  <2>1. r.id \in Ids(stream) BY <1>1
  <2> QED BY <2>1 DEF Placed, Spread, Pool
<1>5. \A d \in 1 .. meta : d # c => HeldIds(d) \cap (HeldIds(c) \cup {r.id}) = {}
  BY <1>4 DEF Placed, ColsOnce
<1>6. ColsOnce'
  <2>1. ASSUME NEW d \in 1 .. meta PROVE ColOnce(d)'
    <3>1. CASE d = c
      <4>1. cols'[d] = new /\ d \in flushTouched' BY <1>1, <3>1
      <4> QED BY <1>2, <4>1 DEF ColOnce
    <3>2. CASE d # c
      <4>1. cols'[d] = cols[d] /\ (d \in flushTouched => d \in flushTouched') BY <1>1, <3>2
      <4> QED BY <4>1 DEF Placed, ColsOnce, ColOnce
    <3> QED BY <3>1, <3>2
  <2>2. ASSUME NEW d \in 1 .. meta, NEW e \in 1 .. meta, d # e PROVE HeldIds(d)' \cap HeldIds(e)' = {}
    <3>1. CASE d = c BY <1>2, <1>3, <1>5, <2>2, <3>1
    <3>2. CASE e = c BY <1>2, <1>3, <1>5, <2>2, <3>2
    <3>3. CASE d # c /\ e # c BY <1>3, <2>2, <3>3 DEF Placed, ColsOnce
    <3> QED BY <3>1, <3>2, <3>3
  <2> QED BY <1>1, <2>1, <2>2 DEF ColsOnce
<1>7. Pool' \cup Ids(out) = Pool \cup {r.id}
  <2>1. ASSUME NEW d \in 1 .. meta PROVE HeldIds(d)' \subseteq Pool \cup {r.id}
    BY <1>2, <1>3, <1>4
  <2>2. Pool' = UNION {HeldIds(d)' : d \in 1 .. meta} BY <1>1 DEF Pool
  <2>3. Pool' \cup Ids(out) \subseteq Pool \cup {r.id} BY <1>2, <1>4, <2>1, <2>2
  <2>4. Held(new) \subseteq Pool' BY <1>3, <2>2
  <2>5. ASSUME NEW d \in 1 .. meta PROVE HeldIds(d) \subseteq Pool' \cup Ids(out)
    <3>1. CASE d = c BY <1>2, <2>4, <3>1
    <3>2. CASE d # c BY <1>3, <2>2, <3>2
    <3> QED BY <3>1, <3>2
  <2>6. r.id \in Pool' \cup Ids(out) BY <1>2, <2>4
  <2>7. Pool \subseteq Pool' \cup Ids(out) BY <2>5 DEF Pool
  <2> QED BY <2>3, <2>6, <2>7
<1>8. Pool' \cap Ids(out) = {}
  <2>1. ASSUME NEW d \in 1 .. meta PROVE HeldIds(d)' \cap Ids(out) = {}
    <3>1. CASE d = c BY <1>2, <1>3, <3>1
    <3>2. CASE d # c BY <1>2, <1>3, <1>5, <3>2
    <3> QED BY <3>1, <3>2
  <2>2. Pool' = UNION {HeldIds(d)' : d \in 1 .. meta} BY <1>1 DEF Pool
  <2> QED BY <2>1, <2>2
<1>9. RestIds' = RestIds /\ TakenIds' = TakenIds BY <1>1 DEF Taken, RestIds, TakenIds
<1>10. Everywhere' \subseteq Everywhere /\ Spent' = Spent
  BY <1>1, <1>7 DEF Everywhere, Spent, WalIds
<1>11. Phases' BY <1>1 DEF Phases
<1>12. Spread(RestIds, Ids(stream), Pool, Ids(tx), Ids(segs))'
  BY <1>1, <1>7, <1>8, <1>9 DEF Placed, Spread
<1>13. acked' \subseteq RestIds' \cup Ids(stream') \cup Pool' \cup Ids(tx') \cup Ids(segs')
  BY <1>1, <1>7, <1>9 DEF Placed
<1> QED BY <1>1, <1>6, <1>9, <1>10, <1>11, <1>12, <1>13 DEF Placed

\* The buffers of the touched columns, one after the other.
LEMMA BuffersOnce ==
  ASSUME TInv, Data, Touched, ColsOnce
  PROVE  LET parts == [i \in 1 .. Cardinality(flushTouched) |-> cols[SetToSeq(flushTouched)[i]].buf] IN
         /\ FlattenSeq(parts) \in Seq(Record) /\ Once(FlattenSeq(parts))
         /\ Ids(FlattenSeq(parts)) = UNION {Ids(cols[c].buf) : c \in 1 .. meta}
<1> DEFINE n == Cardinality(flushTouched)
           order == SetToSeq(flushTouched)
           parts == [i \in 1 .. n |-> cols[order[i]].buf]
<1>1. /\ n \in Nat /\ order \in [1 .. n -> flushTouched]
      /\ \A c \in flushTouched : \E i \in 1 .. n : order[i] = c
      /\ \A i, j \in 1 .. n : order[i] = order[j] => i = j
  <2>1. IsFiniteSet(1 .. meta) BY FS_Interval DEF TInv, Types
  <2>2. IsFiniteSet(flushTouched) BY <2>1, FS_Subset DEF Touched
  <2> QED BY <2>2, SetToSeqOnto
<1> HIDE DEF n, order
<1>2. IsSeq(parts, n) BY DEF IsSeq
<1>3. \A i \in 1 .. n : parts[i] = cols[order[i]].buf OBVIOUS
<1>4. \A i \in 1 .. n : order[i] \in flushTouched /\ order[i] \in 1 .. meta BY <1>1 DEF Touched
<1> HIDE DEF parts
<1>5. \A c \in 1 .. meta : cols[c].buf \in Seq(Record) BY DEF Data
<1>6. \A i \in 1 .. n : parts[i] \in Seq(Record) /\ Once(parts[i])
  BY <1>3, <1>4, <1>5 DEF ColsOnce, ColOnce
<1>7. ASSUME NEW i \in 1 .. n, NEW j \in 1 .. n, i # j PROVE Ids(parts[i]) \cap Ids(parts[j]) = {}
  <2>1. PICK c \in 1 .. meta, d \in 1 .. meta : c = order[i] /\ d = order[j] /\ c # d
    BY <1>1, <1>4, <1>7
  <2>2. HeldIds(c) \cap HeldIds(d) = {} BY <2>1 DEF ColsOnce
  <2> QED BY <1>3, <2>1, <2>2 DEF HeldIds
<1>8. /\ FlattenSeq(parts) \in Seq(Record) /\ Once(FlattenSeq(parts))
      /\ Ids(FlattenSeq(parts)) = UNION {Ids(parts[i]) : i \in 1 .. n}
  BY <1>1, <1>2, <1>6, <1>7, OnceFlatten, ZenonT(60)
<1>9. UNION {Ids(parts[i]) : i \in 1 .. n} = UNION {Ids(cols[c].buf) : c \in 1 .. meta}
  <2>1. ASSUME NEW i \in 1 .. n PROVE Ids(parts[i]) \subseteq UNION {Ids(cols[c].buf) : c \in 1 .. meta}
    BY <1>3, <1>4
  <2>2. ASSUME NEW c \in 1 .. meta PROVE Ids(cols[c].buf) \subseteq UNION {Ids(parts[i]) : i \in 1 .. n}
    <3>1. CASE cols[c].buf = <<>>
      <4>1. DOMAIN <<>> = {} OBVIOUS
      <4>2. Ids(cols[c].buf) = {} BY <3>1, <4>1 DEF Ids
      <4> QED BY <4>2
    <3>2. CASE cols[c].buf # <<>>
      <4>1. c \in flushTouched BY <3>2 DEF ColsOnce, ColOnce
      <4>2. PICK i \in 1 .. n : order[i] = c BY <1>1, <4>1
      <4> QED BY <1>3, <4>2
    <3> QED BY <3>1, <3>2
  <2> QED BY <2>1, <2>2
<1> QED BY <1>8, <1>9 DEF parts, n, order

\* The buffers go into the transaction; what the columns kept back stays there.
LEMMA PlacedRest ==
  ASSUME TInv, Data, Touched, Placed, EncodeRest
  PROVE  Placed'
<1> DEFINE out == FlattenSeq([i \in 1 .. Cardinality(flushTouched) |->
                                cols[SetToSeq(flushTouched)[i]].buf])
           Bufs == UNION {Ids(cols[c].buf) : c \in 1 .. meta}
<1>0. /\ fpc = "encode" /\ stream = <<>> /\ tx' = tx \o out /\ fpc' \in {"remove", "commit"}
      /\ fpc' = "remove" => flushTouched = {}
      /\ cols' = [c \in DOMAIN cols |-> IF c \in flushTouched THEN glowWrite(cols[c]) ELSE cols[c]]
      /\ UNCHANGED <<meta, files, segs, batch, fcount, stream, flushTouched, nextId, acked>>
  BY DEF EncodeRest, walVars, worker
<1>1. out \in Seq(Record) /\ Once(out) /\ Ids(out) = Bufs BY BuffersOnce DEF Placed
<1> HIDE DEF out, Bufs
<1>2. DOMAIN cols = 1 .. meta BY DEF TInv, Types, IsSeq
<1>3. DOMAIN <<>> = {} /\ Ids(<<>>) = {} /\ Once(<<>>) /\ NoRec.id = 0
  <2>1. DOMAIN <<>> = {} OBVIOUS
  <2> QED BY <2>1 DEF Ids, Once, NoRec
<1>4. ASSUME NEW c \in 1 .. meta PROVE cols'[c].buf = <<>> /\ cols'[c].pre = cols[c].pre
  <2>1. CASE c \in flushTouched
    <3>1. cols'[c] = glowWrite(cols[c]) /\ cols[c] \in Column BY <1>0, <1>2, <2>1 DEF Data, Column
    <3> QED BY <3>1, Glowed
  <2>2. CASE c \notin flushTouched
    <3>1. cols'[c] = cols[c] BY <1>0, <1>2, <2>2
    <3>2. cols[c].buf = <<>> BY <2>2 DEF Placed, ColsOnce, ColOnce
    <3> QED BY <3>1, <3>2
  <2> QED BY <2>1, <2>2
<1>5. \A c \in 1 .. meta : HeldIds(c)' = {cols[c].pre.id} \ {0} BY <1>3, <1>4 DEF HeldIds
<1>6. \A c \in 1 .. meta : HeldIds(c) = HeldIds(c)' \cup Ids(cols[c].buf) BY <1>5 DEF HeldIds
<1>7. \A c \in 1 .. meta : HeldIds(c)' \cap Ids(cols[c].buf) = {}
  <2>1. ASSUME NEW c \in 1 .. meta PROVE HeldIds(c)' \cap Ids(cols[c].buf) = {}
    <3>1. CASE cols[c].pre = NoRec BY <1>3, <1>5, <3>1
    <3>2. CASE cols[c].pre # NoRec
      <4>1. cols[c].buf = <<>> BY <3>2 DEF Placed, ColsOnce, ColOnce
      <4> QED BY <1>3, <4>1
    <3> QED BY <3>1, <3>2
  <2> QED BY <2>1
<1>8. Pool' = UNION {HeldIds(c)' : c \in 1 .. meta} BY <1>0 DEF Pool
<1>9. Pool = Pool' \cup Bufs
  <2>1. Pool \subseteq Pool' \cup Bufs BY <1>6, <1>8 DEF Pool, Bufs
  <2>2. Pool' \subseteq Pool BY <1>6, <1>8 DEF Pool
  <2>3. Bufs \subseteq Pool BY <1>6 DEF Pool, Bufs
  <2> QED BY <2>1, <2>2, <2>3
<1>10. Pool' \cap Bufs = {}
  <2>1. ASSUME NEW c \in 1 .. meta, NEW d \in 1 .. meta PROVE HeldIds(c)' \cap Ids(cols[d].buf) = {}
    <3>1. CASE c = d BY <1>7, <3>1
    <3>2. CASE c # d
      <4>1. HeldIds(c) \cap HeldIds(d) = {} BY <3>2 DEF Placed, ColsOnce
      <4> QED BY <1>6, <4>1
    <3> QED BY <3>1, <3>2
  <2> QED BY <1>8, <2>1 DEF Bufs
<1>11. ColsOnce'
  <2>1. ASSUME NEW c \in 1 .. meta PROVE ColOnce(c)'
    <3>1. cols[c].pre # NoRec => cols[c].pre.id # 0 BY DEF Placed, ColsOnce, ColOnce
    <3> QED BY <1>3, <1>4, <3>1 DEF ColOnce
  <2>2. ASSUME NEW c \in 1 .. meta, NEW d \in 1 .. meta, c # d PROVE HeldIds(c)' \cap HeldIds(d)' = {}
    <3>1. HeldIds(c) \cap HeldIds(d) = {} BY <2>2 DEF Placed, ColsOnce
    <3> QED BY <1>6, <3>1
  <2> QED BY <1>0, <2>1, <2>2 DEF ColsOnce
<1>12. tx \in Seq(Record) /\ Ids(tx) \cap Ids(out) = {} BY <1>1, <1>9 DEF Data, Placed, Spread
<1>13. Once(tx') /\ Ids(tx') = Ids(tx) \cup Bufs
  <2>1. Once(tx \o out) BY <1>1, <1>12, OnceConcat DEF Placed
  <2>2. Ids(tx \o out) = Ids(tx) \cup Ids(out) BY <1>1, <1>12, ConcatIds
  <2> QED BY <1>0, <1>1, <2>1, <2>2
<1>14. RestIds' = RestIds /\ TakenIds' = TakenIds BY <1>0 DEF Taken, RestIds, TakenIds
<1>15. Everywhere' = Everywhere /\ Spent' = Spent
  BY <1>0, <1>9, <1>13 DEF Everywhere, Spent, WalIds
<1>16. Phases'
  <2>1. \A c \in 1 .. meta : cols'[c].buf = <<>> BY <1>4
  <2>2. ASSUME fpc' # "commit" PROVE tx' = <<>>
    <3>1. fpc' = "remove" /\ flushTouched = {} BY <1>0, <2>2
    <3>2. tx = <<>> BY <1>0, <3>1 DEF Placed, Phases
    <3>3. Bufs = {}
      <4>1. \A c \in 1 .. meta : cols[c].buf = <<>> BY <3>1 DEF Placed, ColsOnce, ColOnce
      <4> QED BY <1>3, <4>1 DEF Bufs
    <3>4. DOMAIN out = {} BY <1>1, <3>3 DEF Ids
    <3>5. out = <<>> BY <1>1, <3>4
    <3>6. <<>> \o <<>> = <<>> OBVIOUS
    <3> QED BY <1>0, <3>2, <3>5, <3>6
  <2>3. Upto(stream', meta') BY <1>0 DEF Placed, Phases
  <2>4. fpc' # "encode" BY <1>0
  <2> QED BY <1>0, <2>1, <2>2, <2>3, <2>4 DEF Phases
<1>17. Spread(RestIds, Ids(stream), Pool, Ids(tx), Ids(segs))'
  BY <1>0, <1>9, <1>10, <1>13, <1>14 DEF Placed, Spread
<1>18. acked' \subseteq RestIds' \cup Ids(stream') \cup Pool' \cup Ids(tx') \cup Ids(segs')
  BY <1>0, <1>9, <1>13, <1>14 DEF Placed
<1> QED BY <1>0, <1>11, <1>13, <1>14, <1>15, <1>16, <1>17, <1>18 DEF Placed

\* One step of the table while it has not crashed.
LEMMA NextPlaced ==
  ASSUME FeedsInv, FeedsInv', SeesInv, [Next]_vars
  PROVE  SeesInv'
<1>1. /\ TInv /\ TInv' /\ Data /\ Touched BY DEF FeedsInv, PolicyInv
<1>2. crashes \in Nat /\ fails \in Nat BY DEF SeesInv
<1>3. CASE Crash
  <2>1. crashes' = crashes + 1 /\ fails' = fails BY <1>3 DEF Crash
  <2>2. crashes' \in Nat /\ crashes' # 0 BY <1>2, <2>1
  <2> QED BY <1>2, <2>1, <2>2 DEF SeesInv, Calm
<1>4. CASE FlushFail
  <2>1. crashes' = crashes /\ conf' = conf /\ fails' = (IF fails < MaxFails THEN fails + 1 ELSE fails)
        /\ (fails < MaxFails \/ (stream # <<>> /\ Head(stream).code > Len(cols)))
    BY <1>4 DEF FlushFail
  <2>2. fails' \in Nat /\ (fails' = 0 => fails = 0 /\ ~(fails < MaxFails)) BY <1>2, <2>1
  <2>3. ASSUME Calm' PROVE Placed'
    <3>1. Calm BY <2>1, <2>2, <2>3 DEF Calm, OneType
    <3>2. Placed BY <3>1 DEF SeesInv
    <3>3. CASE OneType
      <4>1. OneTypeInv /\ Feeds BY <3>3 DEF FeedsInv, DurableInv
      <4>2. OneType' BY <2>1, <3>3 DEF OneType
      <4>3. OneTypeInv' /\ Feeds' BY <4>2 DEF FeedsInv, DurableInv
      <4> QED BY <1>1, <1>4, <3>2, <4>1, <4>3, PlacedFail
    <3>4. CASE ~OneType
      <4>1. fails' = 0 BY <2>1, <2>3, <3>4 DEF Calm, OneType
      <4>2. stream # <<>> /\ Head(stream).code > Len(cols) BY <2>1, <2>2, <4>1
      <4>3. stream \in Seq(Record) /\ Upto(stream, meta) BY <1>1, <3>2 DEF Data, Placed, Phases
      <4>4. 1 \in DOMAIN stream /\ Head(stream) = stream[1] /\ stream[1] \in Record BY <4>2, <4>3
      <4>5. Head(stream).code <= meta /\ Head(stream).code \in Nat BY <4>3, <4>4 DEF Upto, Record
      <4>6. meta \in Nat /\ Len(cols) = meta BY <1>1, SeqLen DEF TInv, Types
      <4> QED BY <4>2, <4>5, <4>6
    <3> QED BY <3>3, <3>4
  <2> QED BY <1>2, <2>1, <2>2, <2>3 DEF SeesInv
<1>5. CASE UNCHANGED vars \/ Prepare \/ Worker \/ OpenIter \/ CloseIter \/ FlushStart \/ Encode
           \/ EncodeRest \/ CommitTransaction \/ Truncated
  <2>1. UNCHANGED <<conf, crashes, fails>>
    <3>1. CASE UNCHANGED vars BY <3>1, SMTT(40) DEF vars
    <3>2. CASE Prepare BY <3>2 DEF Prepare
    <3>3. CASE Worker
      BY <3>3 DEF Worker, MetaFlush, WriteRuns, WalFull, LockFlush, NoFlush, StartFlush
    <3>4. CASE OpenIter \/ CloseIter BY <3>4, SMTT(40) DEF OpenIter, CloseIter
    <3>5. CASE FlushStart \/ Encode \/ EncodeRest \/ CommitTransaction \/ Truncated
      BY <3>5, ZenonT(60) DEF FlushStart, Encode, EncodeRest, CommitTransaction, Truncated
    <3> QED BY <1>5, <3>1, <3>2, <3>3, <3>4, <3>5
  <2> SUFFICES ASSUME Calm' PROVE Placed' BY <1>2, <2>1 DEF SeesInv
  <2>2. Calm BY <2>1 DEF Calm, OneType
  <2>3. Placed BY <2>2 DEF SeesInv
  <2>4. CASE UNCHANGED vars \/ OpenIter \/ CloseIter \/ MetaFlush \/ WalFull \/ NoFlush \/ LockFlush
             \/ StartFlush
    <3>1. UNCHANGED <<meta, files, stream, cols, tx, segs, acked, nextId, flushTouched, fcount>>
      BY <2>4 DEF vars, walVars, worker, flusher, OpenIter, CloseIter, MetaFlush, WalFull, NoFlush,
                  LockFlush, StartFlush
    <3>2. batch' \in {batch, <<>>}
      BY <2>4 DEF vars, walVars, worker, flusher, OpenIter, CloseIter, MetaFlush, WalFull, NoFlush,
                  LockFlush, StartFlush
    <3>3. fpc' = fpc \/ (fpc = "off" /\ fpc' = "start")
      <4>1. CASE LockFlush \/ StartFlush
        <5>1. fpc' \in {fpc, "start"} /\ (fpc' # fpc => flushMute = "free")
          BY <4>1 DEF LockFlush, StartFlush
        <5>2. flushMute = "free" => fpc = "off" BY <1>1 DEF TInv, Locks
        <5> QED BY <5>1, <5>2
      <4>2. CASE ~(LockFlush \/ StartFlush)
        BY <2>4, <4>2 DEF vars, flusher, OpenIter, CloseIter, MetaFlush, WalFull, NoFlush
      <4> QED BY <4>1, <4>2
    <3> QED BY <2>3, <3>1, <3>2, <3>3, PlacedSame
  <2>5. CASE Prepare BY <1>1, <2>3, <2>5, PlacedPrepare
  <2>6. CASE WriteRuns BY <1>1, <2>3, <2>6, PlacedWriteRuns
  <2>7. CASE FlushStart BY <1>1, <2>3, <2>7, PlacedStart
  <2>8. CASE Encode BY <1>1, <2>3, <2>8, PlacedEncode
  <2>9. CASE EncodeRest BY <1>1, <2>3, <2>9, PlacedRest
  <2>10. CASE CommitTransaction BY <1>1, <2>3, <2>10, PlacedCommit
  <2>11. CASE Truncated BY <1>1, <2>3, <2>11, PlacedTruncated
  <2> QED BY <1>5, <2>4, <2>5, <2>6, <2>7, <2>8, <2>9, <2>10, <2>11 DEF Worker
<1> QED BY <1>3, <1>4, <1>5 DEF Next, Flush

\* An empty table holds nothing.
LEMMA InitPlaced == Init => SeesInv
<1> SUFFICES ASSUME Init PROVE SeesInv OBVIOUS
<1>1. DOMAIN <<>> = {} /\ Ids(<<>>) = {} /\ Once(<<>>)
  <2>1. DOMAIN <<>> = {} OBVIOUS
  <2> QED BY <2>1 DEF Ids, Once
<1>2. /\ stream = <<>> /\ tx = <<>> /\ segs = <<>> /\ batch = <<>> /\ files = <<EmptyFile>>
      /\ meta = 0 /\ acked = {} /\ fpc = "off" /\ 1 .. 0 = {} /\ crashes = 0 /\ fails = 0
  BY DEF Init
<1>3. DOMAIN files = {1} /\ Len(files) = 1 /\ files[1].recs = <<>> BY <1>2 DEF EmptyFile
<1>4. WalIds = {} BY <1>1, <1>3 DEF WalIds
<1>5. RestIds = {}
  <2>1. 0 + 1 .. 1 = {1} OBVIOUS
  <2> QED BY <1>1, <1>2, <1>3, <2>1 DEF RestIds, Taken
<1>6. Pool = {} BY <1>2 DEF Pool
<1>7. LogOnce(files) BY <1>1, <1>3 DEF LogOnce
<1>8. ColsOnce BY <1>2 DEF ColsOnce
<1>9. Everywhere = {} BY <1>1, <1>2, <1>4, <1>6 DEF Everywhere
<1>10. Phases BY <1>1, <1>2 DEF Phases, Upto
<1>11. Spread(RestIds, Ids(stream), Pool, Ids(tx), Ids(segs)) BY <1>1, <1>2, <1>5, <1>6 DEF Spread
<1>12. Placed BY <1>1, <1>2, <1>7, <1>8, <1>9, <1>10, <1>11 DEF Placed
<1> QED BY <1>2, <1>12 DEF SeesInv

\* While no flush holds queryMute an accepted point is in the log, in the segments or kept
\* back by its column, not both in the log and in the segments, and in the segments once:
\* a query neither misses a point nor returns it twice.
THEOREM SeenOnce == Spec => []QuerySees
<1>1. Init => FeedsInv /\ SeesInv BY FeedsInit, InitPlaced
<1>2. FeedsInv /\ SeesInv /\ [Next]_vars => FeedsInv' /\ SeesInv' BY FeedsStep, NextPlaced
<1>3. FeedsInv /\ SeesInv => QuerySees
  <2> SUFFICES ASSUME FeedsInv, SeesInv, ~Holding, crashes = 0, OneType \/ fails = 0, NEW id \in acked
               PROVE  /\ id \in WalIds \cup Ids(segs) \cup PreIds
                      /\ ~(id \in WalIds /\ id \in Ids(segs))
                      /\ Cardinality({i \in DOMAIN segs : segs[i].id = id}) <= 1
    BY DEF QuerySees
  <2>1. TInv /\ Data /\ Placed BY DEF FeedsInv, PolicyInv, SeesInv, Calm
  <2>2. fpc \in {"off", "start"} BY DEF Holding
  <2>3. /\ stream = <<>> /\ tx = <<>> /\ \A c \in 1 .. meta : cols[c].buf = <<>>
    BY <2>1, <2>2 DEF Placed, Phases
  <2>4. Ids(<<>>) = {}
    <3>1. DOMAIN <<>> = {} OBVIOUS
    <3> QED BY <3>1 DEF Ids
  <2>5. RestIds = WalIds
    <3>1. Len(files) \in Nat /\ DOMAIN files = 1 .. Len(files) BY <2>1 DEF TInv, Types
    <3>2. Taken = 0 BY <2>2 DEF Taken
    <3>3. 0 + 1 = 1 OBVIOUS
    <3> QED BY <3>1, <3>2, <3>3 DEF RestIds, WalIds
  <2>6. Pool \subseteq PreIds
    <3>1. DOMAIN cols = 1 .. meta BY <2>1 DEF TInv, Types, IsSeq
    <3>2. \A c \in 1 .. meta : HeldIds(c) \subseteq PreIds BY <2>3, <2>4, <3>1 DEF HeldIds, PreIds
    <3> QED BY <3>2 DEF Pool
  <2>7. id \in WalIds \cup Ids(segs) \cup PreIds BY <2>1, <2>3, <2>4, <2>5, <2>6 DEF Placed
  <2>8. ~(id \in WalIds /\ id \in Ids(segs)) BY <2>1, <2>5 DEF Placed, Spread
  <2>9. Cardinality({i \in DOMAIN segs : segs[i].id = id}) <= 1
    <3> DEFINE S == {i \in DOMAIN segs : segs[i].id = id}
    <3>1. CASE S = {} BY <3>1, FS_EmptySet
    <3>2. CASE S # {}
      <4>1. PICK i \in S : TRUE BY <3>2
      <4>2. \A j \in S : j = i BY <2>1, <4>1 DEF Placed, Once
      <4>3. S = {i} BY <4>1, <4>2
      <4>4. Cardinality({i}) = 1 BY FS_Singleton
      <4>5. Cardinality(S) = 1
        <5> HIDE DEF S
        <5> QED BY <4>3, <4>4
      <4>6. 1 <= 1 OBVIOUS
      <4> QED BY <4>5, <4>6, Zenon
    <3> QED BY <3>1, <3>2
  <2> QED BY <2>7, <2>8, <2>9
<1> QED BY <1>1, <1>2, <1>3, PTL DEF Spec
=============================================================================
