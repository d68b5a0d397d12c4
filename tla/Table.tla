------------------------------- MODULE Table -------------------------------
(***************************************************************************)
(* One table behind its write batcher: the worker's commit of a batch, the *)
(* tag dictionary, the write-ahead log, and the flush of complete log      *)
(* files into the segments (tsdb/table.go, tsdb/table_meta.go,             *)
(* tsdb/file_wal.go, tsdb/column.go).                                      *)
(*                                                                         *)
(* The worker and an asynchronous flush run concurrently: the worker       *)
(* appends to the last log file while the flush encodes the files before   *)
(* it.  A query iterator holds queryMute for reading, a flush holds it for *)
(* writing.  The process may die at any point; the log, the dictionary and *)
(* the segments are what is on disk.                                       *)
(*                                                                         *)
(* The segments are modelled by what a transaction promises: committed     *)
(* blocks stay, an interrupted transaction may leave a prefix of its       *)
(* blocks.  BlockFile shows how far one file keeps the promise.            *)
(* A log file's length counts records.                                     *)
(***************************************************************************)
EXTENDS Integers, Sequences, FiniteSets, SequencesExt

CONSTANTS
  MaxTags,        \* bound: tags
  Times,          \* timestamps
  Configs,        \* table configurations to start with
  MaxFileSize,    \* records that fill a log file
  MaxBatch,       \* bound: points of a batch
  MaxReaders,     \* bound: open query iterators
  MaxCrashes,     \* bound: crashes
  MaxFails        \* bound: flushes that fail

ASSUME TableAssumption ==
  /\ Times \subseteq Nat
  /\ {MaxTags, MaxReaders, MaxCrashes, MaxFails} \subseteq Nat
  /\ {MaxFileSize, MaxBatch} \subseteq Nat \ {0}
  /\ \A c \in Configs : c.maxFiles \in Nat \ {1}
       \* one file alone is never complete, and a full log would stay full
  /\ \A c \in Configs : IsFiniteSet(c.vals) /\ "none" \notin c.vals
       \* "none" is the value of a tag that has none yet
  /\ \A c \in Configs : c.minInterval \in Int

VARIABLES
  conf,      \* async: asyncFlush; vals: the value types written;
             \* minInterval, dedupWindow: the sampling policies, 0 is off;
             \* maxFiles: MaxFileNumber, log files allowed, 0 is no limit;
             \* maxPoints: bound, points ever written
  meta,      \* tags in the dictionary in memory; codes are given from 1 on
  metaDisk,  \* how many of its entries are on disk
  files,     \* the log files: records, needsSort
  tagState,  \* per code: the greatest timestamp and its value
  segs,      \* records in committed segment blocks, in file order
  tx,        \* records written in the open segment transaction
  cols,      \* per code: the encoder's buffer, and the pair a type change rejected
  pc,        \* the worker: idle, meta, wal, full, blocked, retry, trigger, inline
  batch,     \* its prepared runs
  werr,      \* the error that stopped it
  flushMute, \* holder: free, worker, async
  fpc,       \* the flush: off, start, encode, commit, remove
  fcount,    \* its completeCount
  stream,    \* records it has still to encode
  flushTouched,
  asyncErr,  \* an asynchronous flush has failed
  readers,   \* open query iterators
  nextId, acked,
  crashes, fails

worker == <<pc, batch, werr>>
flusher == <<fpc, fcount, stream, flushTouched, tx, cols>>
walVars == <<files, tagState>>
vars == <<conf, meta, metaDisk, walVars, segs, worker, flushMute, flusher, asyncErr,
          readers, nextId, acked, crashes, fails>>

NoRec == [id |-> 0, code |-> 0, tms |-> 0, v |-> "none"]
EmptyFile == [recs |-> <<>>, needsSort |-> FALSE]
EmptyCol == [buf |-> <<>>, pre |-> NoRec]
Ids(recs) == {recs[i].id : i \in DOMAIN recs}

Init ==
  /\ conf \in Configs
  /\ meta = 0 /\ metaDisk = 0
  /\ files = <<EmptyFile>> /\ tagState = <<>>
  /\ segs = <<>> /\ tx = <<>> /\ cols = <<>>
  /\ pc = "idle" /\ batch = <<>> /\ werr = "none"
  /\ flushMute = "free"
  /\ fpc = "off" /\ fcount = 0 /\ stream = <<>> /\ flushTouched = {}
  /\ asyncErr = FALSE
  /\ readers = 0 /\ nextId = 1 /\ acked = {}
  /\ crashes = 0 /\ fails = 0

(***************************************************************************)
(* The write-ahead log                                                     *)
(***************************************************************************)

\* Slip: off by one in the number of complete files.
NeedFlushLate == Len(files) > 2

NeedFlush == Len(files) > 1

Full == /\ conf.maxFiles > 0
        /\ Len(Last(files).recs) >= MaxFileSize
        /\ Len(files) >= conf.maxFiles

Known(ts, c) == ts[c].v # "none"
NoState == [tms |-> 0, v |-> "none"]

\* Slip: under a policy, late points are kept.
RejectedUnlessLate(ts, r) ==
  LET m == ts[r.code] IN
  /\ Known(ts, r.code) /\ r.tms >= m.tms
  /\ \/ conf.minInterval > 0 /\ r.tms - m.tms < conf.minInterval
     \/ conf.dedupWindow > 0 /\ r.tms - m.tms <= conf.dedupWindow /\ m.v = r.v

\* dedupRuns: the point is dropped under a sampling policy.
Rejected(ts, r) ==
  LET m == ts[r.code] IN
  /\ Known(ts, r.code)
  /\ \/ r.tms < m.tms /\ (conf.minInterval > 0 \/ conf.dedupWindow > 0)
     \/ r.tms >= m.tms /\ conf.minInterval > 0 /\ r.tms - m.tms < conf.minInterval
     \/ r.tms >= m.tms /\ conf.dedupWindow > 0 /\ r.tms - m.tms <= conf.dedupWindow
                       /\ m.v = r.v

\* Slip: late points are kept without marking the file.
lateUnmarked(ts, r) == FALSE

late(ts, r) == Known(ts, r.code) /\ r.tms < ts[r.code].tms

\* One point of WriteRuns or WriteBatch: the file's record and sort mark, the tag's state.
writePoint(acc, r) ==
  IF Rejected(acc.ts, r) THEN acc
  ELSE [file |-> [recs |-> Append(acc.file.recs, r),
                  needsSort |-> acc.file.needsSort \/ late(acc.ts, r)],
        ts |-> IF Known(acc.ts, r.code) /\ r.tms < acc.ts[r.code].tms THEN acc.ts
               ELSE [acc.ts EXCEPT ![r.code] = [tms |-> r.tms, v |-> r.v]]]

Written(runs) ==
  LET acc[i \in 0 .. Len(runs)] == IF i = 0 THEN [file |-> Last(files), ts |-> tagState]
                                   ELSE writePoint(acc[i - 1], runs[i])
  IN acc[Len(runs)]

\* rotateIfFull, addWalFile.
rotateIfFull(fs) ==
  IF /\ Len(Last(fs).recs) >= MaxFileSize
     /\ ~(conf.maxFiles > 0 /\ Len(fs) >= conf.maxFiles)
  THEN Append(fs, EmptyFile) ELSE fs

\* Slip: the complete files are counted again when they are removed.
truncateAll(fs, n) == <<Last(fs)>>

\* truncate keeps the last file whatever n is.
truncate(fs, n) == SubSeq(fs, (IF n >= Len(fs) THEN Len(fs) - 1 ELSE n) + 1, Len(fs))

\* One record met by NewWalFile.  Only a greater timestamp replaces the tag's state.
recoverRec(ts, r) ==
  IF ~Known(ts, r.code) \/ r.tms > ts[r.code].tms
  THEN [ts EXCEPT ![r.code] = [tms |-> r.tms, v |-> r.v]] ELSE ts

\* The tags' state after the first k records of a file, from the state ts before it.
recoverFile(ts, recs) ==
  LET state[k \in 0 .. Len(recs)] == IF k = 0 THEN ts ELSE recoverRec(state[k - 1], recs[k])
  IN state

\* The files in order.  A record older than its tag's state marks its file.
NewWalFile(fs, codes) ==
  LET before[i \in 1 .. Len(fs) + 1] ==
        IF i = 1 THEN [c \in codes |-> NoState]
        ELSE LET recs == fs[i - 1].recs IN recoverFile(before[i - 1], recs)[Len(recs)]
      marked(recs, ts) == \E k \in DOMAIN recs : late(recoverFile(ts, recs)[k - 1], recs[k])
  IN [files |-> [i \in 1 .. Len(fs) |->
                   [recs |-> fs[i].recs, needsSort |-> marked(fs[i].recs, before[i])]],
      ts |-> before[Len(fs) + 1]]

(***************************************************************************)
(* The worker: commitRawWriteBatch                                         *)
(***************************************************************************)

Points == [code : 1 .. MaxTags, tms : Times, v : conf.vals]

\* A batch holds one run per tag, each in time order; tags it is the first to name get
\* the next codes, in the order of the runs.
IsBatch(b) ==
  /\ \A i, j \in DOMAIN b : i < j /\ b[i].code = b[j].code
       => b[i].tms <= b[j].tms /\ \A k \in i .. j : b[k].code = b[i].code
  /\ \A i \in DOMAIN b : b[i].code > meta + 1 => \E j \in 1 .. i - 1 : b[j].code = b[i].code - 1

\* prepareRawWriteBatch: tags are resolved, and the new ones created under flushMute.
\* The dictionary entries are buffered, the columns exist at once.
Prepare ==
  \E n \in 1 .. MaxBatch : \E b \in [1 .. n -> Points] :
    LET top == CHOOSE c \in {meta} \cup {b[i].code : i \in 1 .. n} :
                 \A i \in 1 .. n : meta <= c /\ b[i].code <= c
    IN /\ pc = "idle" /\ werr = "none" /\ IsBatch(b)
       /\ nextId + n - 1 <= conf.maxPoints
       /\ top > meta => flushMute = "free"
       /\ meta' = top
       /\ cols' = cols \o [c \in 1 .. top - meta |-> EmptyCol]
       /\ tagState' = tagState \o [c \in 1 .. top - meta |-> NoState]
       /\ batch' = [i \in 1 .. n |-> [id |-> nextId + i - 1, code |-> b[i].code,
                                      tms |-> b[i].tms, v |-> b[i].v]]
       /\ nextId' = nextId + n /\ pc' = "meta"
       /\ UNCHANGED <<conf, metaDisk, files, segs, werr, flushMute, fpc, fcount, stream,
                      flushTouched, tx, asyncErr, readers, acked, crashes, fails>>

\* Slip: new dictionary entries stay buffered.
metaBuffered(m, onDisk) == onDisk

\* Meta.FlushPending writes and syncs the buffered entries.
flushPending(m, onDisk) == m

MetaFlush ==
  /\ pc = "meta"
  /\ metaDisk' = flushPending(meta, metaDisk) /\ pc' = "wal"
  /\ UNCHANGED <<conf, meta, walVars, segs, batch, werr, flushMute, flusher, asyncErr,
                 readers, nextId, acked, crashes, fails>>

\* WriteRuns accepts the batch.
WriteRuns ==
  LET w == Written(batch) IN
  /\ pc \in {"wal", "retry"} /\ ~Full
  /\ files' = rotateIfFull([files EXCEPT ![Len(files)] = w.file])
  /\ tagState' = w.ts
  /\ acked' = acked \cup (Ids(batch) \cap Ids(w.file.recs))
  /\ pc' = "trigger" /\ batch' = <<>>
  /\ UNCHANGED <<conf, meta, metaDisk, segs, werr, flushMute, flusher, asyncErr,
                 readers, nextId, crashes, fails>>

\* ErrorWALCacheFull: flushBlocking the first time, the end of the worker the second.
\* flushBlocking gives up at once when an asynchronous flush ever failed.
WalFull ==
  /\ pc \in {"wal", "retry"} /\ Full
  /\ IF pc = "retry" \/ asyncErr
     THEN /\ pc' = "idle" /\ batch' = <<>>
          /\ werr' = IF pc = "retry" THEN "cacheFull" ELSE "asyncErr"
     ELSE pc' = "full" /\ UNCHANGED <<batch, werr>>
  /\ UNCHANGED <<conf, meta, metaDisk, walVars, segs, flushMute, flusher, asyncErr,
                 readers, nextId, acked, crashes, fails>>

\* flushBlocking has flushMute: flush while there are complete files, then retry.
LockFlush ==
  /\ pc = "full" /\ flushMute = "free"
  /\ IF NeedFlush THEN flushMute' = "worker" /\ fpc' = "start" /\ pc' = "blocked"
                  ELSE pc' = "retry" /\ UNCHANGED <<flushMute, fpc>>
  /\ UNCHANGED <<conf, meta, metaDisk, walVars, segs, batch, werr, fcount, stream, flushTouched,
                 tx, cols, asyncErr, readers, nextId, acked, crashes, fails>>

\* maybeFlush: nothing to flush, or a flush under way (TryLock fails).
NoFlush ==
  /\ pc = "trigger" /\ (~NeedFlush \/ flushMute # "free")
  /\ pc' = "idle"
  /\ UNCHANGED <<conf, meta, metaDisk, walVars, segs, batch, werr, flushMute, flusher, asyncErr,
                 readers, nextId, acked, crashes, fails>>

\* maybeFlush: inline, or in a goroutine of its own.
StartFlush ==
  /\ pc = "trigger" /\ NeedFlush /\ flushMute = "free"
  /\ flushMute' = IF conf.async THEN "async" ELSE "worker"
  /\ pc' = IF conf.async THEN "idle" ELSE "inline"
  /\ fpc' = "start"
  /\ UNCHANGED <<conf, meta, metaDisk, walVars, segs, batch, werr, fcount, stream, flushTouched,
                 tx, cols, asyncErr, readers, nextId, acked, crashes, fails>>

(***************************************************************************)
(* The flush: flushCache, under flushMute                                  *)
(***************************************************************************)

Holding == fpc \notin {"off", "start"}   \* queryMute is locked for writing

\* sort.SliceStable: by tag and time, in the order of the log among equals.  A record
\* goes after those that precede it.
sortEntries(recs) ==
  LET precedes(j, k) ==
        \/ recs[j].code < recs[k].code
        \/ recs[j].code = recs[k].code /\ recs[j].tms < recs[k].tms
        \/ recs[j].code = recs[k].code /\ recs[j].tms = recs[k].tms /\ j < k
      rank(k) == Cardinality({j \in DOMAIN recs : precedes(j, k)}) + 1
  IN [i \in DOMAIN recs |-> recs[CHOOSE k \in DOMAIN recs : rank(k) = i]]

\* flushCache takes queryMute and the complete files; they are encoded in file
\* order, or sorted by tag and time when one of them holds late points.
FlushStart ==
  LET n == Len(files) - 1
      recs == FlattenSeq([i \in 1 .. n |-> files[i].recs])
  IN /\ fpc = "start" /\ readers = 0
     /\ fcount' = n
     /\ stream' = IF \E i \in 1 .. n : files[i].needsSort THEN sortEntries(recs) ELSE recs
     /\ flushTouched' = {} /\ tx' = <<>> /\ fpc' = "encode"
     /\ UNCHANGED <<conf, meta, metaDisk, walVars, segs, worker, flushMute, cols, asyncErr,
                    readers, nextId, acked, crashes, fails>>

\* The adaptive encoder takes one type of value between two resets.
accepts(buf, r) == buf = <<>> \/ buf[1].v = r.v

\* ssColumn.Write: a pair rejected before goes first.  A rejected pair is kept for the
\* next Write; the new pair is dropped when the kept one is rejected again.
columnWrite(col, r) ==
  LET hasPre == col.pre # NoRec
      buf == IF hasPre THEN Append(col.buf, col.pre) ELSE col.buf
  IN CASE hasPre /\ ~accepts(col.buf, col.pre) -> [col |-> col, ok |-> FALSE]
       [] ~(hasPre /\ ~accepts(col.buf, col.pre)) /\ accepts(buf, r) ->
            [col |-> [buf |-> Append(buf, r), pre |-> NoRec], ok |-> TRUE]
       [] ~(hasPre /\ ~accepts(col.buf, col.pre)) /\ ~accepts(buf, r) ->
            [col |-> [buf |-> buf, pre |-> r], ok |-> FALSE]

\* glowWrite writes the column's buffer to the segment as one block.
glowWrite(col) == [col EXCEPT !.buf = <<>>]

\* processEntry: the column takes the pair; when it rejects it, glowWrite writes the
\* buffer out as a segment block.
Encode ==
  LET r == Head(stream)
      w == columnWrite(cols[r.code], r)
  IN /\ fpc = "encode" /\ stream # <<>> /\ r.code <= Len(cols)
     /\ stream' = Tail(stream)
     /\ flushTouched' = flushTouched \cup {r.code}
     /\ cols' = [cols EXCEPT ![r.code] = IF w.ok THEN w.col ELSE glowWrite(w.col)]
     /\ tx' = IF w.ok THEN tx ELSE tx \o w.col.buf
     /\ UNCHANGED <<conf, meta, metaDisk, walVars, segs, worker, flushMute, fpc, fcount,
                    asyncErr, readers, nextId, acked, crashes, fails>>

\* All is encoded: the touched columns write their buffers out, in the order they were
\* first touched (any order here).  With nothing touched there is nothing to commit.
EncodeRest ==
  /\ fpc = "encode" /\ stream = <<>>
  /\ tx' = tx \o FlattenSeq([i \in 1 .. Cardinality(flushTouched) |->
                              cols[SetToSeq(flushTouched)[i]].buf])
  /\ cols' = [c \in DOMAIN cols |-> IF c \in flushTouched THEN glowWrite(cols[c]) ELSE cols[c]]
  /\ fpc' = IF flushTouched = {} THEN "remove" ELSE "commit"
  /\ UNCHANGED <<conf, meta, metaDisk, walVars, segs, worker, flushMute, fcount, stream,
                 flushTouched, asyncErr, readers, nextId, acked, crashes, fails>>

CommitTransaction ==
  /\ fpc = "commit"
  /\ segs' = segs \o tx /\ tx' = <<>> /\ fpc' = "remove"
  /\ UNCHANGED <<conf, meta, metaDisk, walVars, worker, flushMute, fcount, stream, flushTouched,
                 cols, asyncErr, readers, nextId, acked, crashes, fails>>

\* Slip: flushMute stays locked when the flush ends.
lockKept(again) == flushMute

unlocked(again) == IF again THEN flushMute ELSE "free"

\* The consumed files go, queryMute is released, and the loops around flushAndCleanup
\* decide: flushBlocking and the asynchronous flush go on while there are complete
\* files, an inline flush runs once.
Truncated ==
  LET fs == truncate(files, fcount)
      again == Len(fs) > 1 /\ pc # "inline"
  IN /\ fpc = "remove"
     /\ files' = fs
     /\ fpc' = IF again THEN "start" ELSE "off"
     /\ flushMute' = unlocked(again)
     /\ pc' = CASE flushMute = "async" \/ again -> pc
                [] flushMute = "worker" /\ ~again -> IF pc = "inline" THEN "idle" ELSE "retry"
     /\ fcount' = 0 /\ flushTouched' = {}
     /\ UNCHANGED <<conf, meta, metaDisk, tagState, segs, batch, werr, stream, tx, cols,
                    asyncErr, readers, nextId, acked, crashes, fails>>

\* Column.Reset leaves a column alone when its buffer is empty, its rejected pair too.
columnReset(col) == IF col.buf = <<>> THEN col ELSE EmptyCol

\* An I/O error, an encoding error or an unknown code: the transaction is rolled back
\* and the log files stay.  The error goes to the worker, or into asyncErr.
FlushFail ==
  /\ fpc \in {"encode", "commit"}
  /\ fails < MaxFails \/ (stream # <<>> /\ Head(stream).code > Len(cols))
  /\ fails' = IF fails < MaxFails THEN fails + 1 ELSE fails
  /\ cols' = [c \in DOMAIN cols |-> IF c \in flushTouched THEN columnReset(cols[c]) ELSE cols[c]]
  /\ tx' = <<>> /\ stream' = <<>> /\ fcount' = 0 /\ flushTouched' = {}
  /\ fpc' = "off" /\ flushMute' = "free"
  /\ IF flushMute = "async" THEN /\ asyncErr' = TRUE
                                 /\ UNCHANGED worker
                            ELSE /\ pc' = "idle" /\ werr' = "flushErr" /\ batch' = <<>>
                                 /\ UNCHANGED asyncErr
  /\ UNCHANGED <<conf, meta, metaDisk, walVars, segs, readers, nextId, acked, crashes>>

(***************************************************************************)
(* Queries, crashes                                                        *)
(***************************************************************************)

\* A waiting writer keeps new readers out (sync.RWMutex).
OpenIter ==
  /\ fpc = "off" /\ readers < MaxReaders
  /\ readers' = readers + 1
  /\ UNCHANGED <<conf, meta, metaDisk, walVars, segs, worker, flushMute, flusher, asyncErr,
                 nextId, acked, crashes, fails>>

CloseIter ==
  /\ readers > 0
  /\ readers' = readers - 1
  /\ UNCHANGED <<conf, meta, metaDisk, walVars, segs, worker, flushMute, flusher, asyncErr,
                 nextId, acked, crashes, fails>>

\* SetLastPoint for the tags found in the last segment.
SetLastPoint(ts, c, found) ==
  LET tms == {segs[i].tms : i \in {j \in DOMAIN segs : segs[j].code = c}}
      top == CHOOSE t \in tms : \A u \in tms : u <= t
      last == CHOOSE i \in DOMAIN segs : segs[i].code = c /\ segs[i].tms = top
  IN IF c \in found /\ tms # {} /\ (~Known(ts, c) \/ top > ts[c].tms)
     THEN [tms |-> top, v |-> segs[last].v] ELSE ts[c]

\* How many dictionary entries can be read back: a torn one is cut off.
readEntries == metaDisk .. (IF pc = "meta" THEN meta ELSE metaDisk)

\* How many records of the batch being written can be read back: a torn one is cut off.
getAllData == 0 .. (IF pc \in {"wal", "retry"} /\ ~Full THEN Len(batch) ELSE 0)

\* The process dies and the table is opened again.  What was being written may be
\* there in part: dictionary entries, the batch in the log, segment blocks, and the
\* removal of log files.
Crash ==
  \E m \in readEntries,
     k \in getAllData,
     j \in 0 .. (IF Holding THEN Len(tx) ELSE 0),
     g \in 0 .. (IF fpc = "remove" THEN fcount ELSE 0),
     found \in SUBSET (1 .. meta) :
    LET torn == [files EXCEPT ![Len(files)] = Written(SubSeq(batch, 1, k)).file]
        \* Records whose code is not in the dictionary keep it: the state covers them.
        codes == 1 .. meta
        w == NewWalFile(SubSeq(torn, g + 1, Len(torn)), codes)
    IN /\ crashes < MaxCrashes /\ crashes' = crashes + 1
       /\ found \subseteq {segs[i].code : i \in DOMAIN segs}
       /\ metaDisk' = m /\ meta' = m
       /\ files' = w.files
       /\ segs' = segs \o SubSeq(tx, 1, j)
       /\ tagState' = [c \in 1 .. m |-> SetLastPoint(w.ts, c, found)]
       /\ cols' = [c \in 1 .. m |-> EmptyCol]
       /\ pc' = "idle" /\ batch' = <<>> /\ werr' = "none"
       /\ flushMute' = "free" /\ fpc' = "off" /\ fcount' = 0 /\ stream' = <<>>
       /\ flushTouched' = {} /\ tx' = <<>> /\ asyncErr' = FALSE
       /\ readers' = 0
       /\ UNCHANGED <<conf, nextId, acked, fails>>

Worker == \/ MetaFlush \/ WriteRuns \/ WalFull \/ LockFlush \/ NoFlush \/ StartFlush
Flush == \/ FlushStart \/ Encode \/ EncodeRest \/ CommitTransaction \/ Truncated \/ FlushFail
Next == Prepare \/ Worker \/ Flush \/ OpenIter \/ CloseIter \/ Crash

Spec == Init /\ [][Next]_vars
\* The worker and the flush keep running, and an iterator is closed in the end.
FairSpec == Spec /\ WF_vars(Worker) /\ WF_vars(Flush) /\ WF_vars(CloseIter)

(***************************************************************************)
(* Properties                                                              *)
(***************************************************************************)

WalIds == UNION {Ids(files[i].recs) : i \in DOMAIN files}
PreIds == {cols[c].pre.id : c \in DOMAIN cols} \ {0}
OneType == Cardinality(conf.vals) = 1

\* Types; the flush runs exactly while flushMute is held.
TypeOK ==
  /\ metaDisk \in 0 .. meta /\ Len(cols) = meta /\ Len(tagState) = meta
  /\ files # <<>> /\ \A i \in DOMAIN files : files[i].needsSort \in BOOLEAN
  /\ pc \in {"idle", "meta", "wal", "full", "blocked", "retry", "trigger", "inline"}
  /\ fpc \in {"off", "start", "encode", "commit", "remove"}
  /\ fpc # "off" <=> flushMute # "free"
  /\ pc \in {"blocked", "inline"} <=> flushMute = "worker"
  /\ acked \subseteq 1 .. nextId - 1

\* "codes created by prepareRawWriteBatch must be fsynced before the WAL bytes that
\* reference them": whenever the process dies, every code in the log is in the
\* dictionary on disk.
MetaBeforeWal ==
  \A i \in DOMAIN files : \A k \in DOMAIN files[i].recs : files[i].recs[k].code <= metaDisk

\* flushBlocking is "backpressure when the WAL is full instead of returning
\* ErrorWALCacheFull to the caller": after it the retry always finds room, whatever
\* the flush in the background, a crash or a failed flush has left of the log, so the
\* batcher's worker never stops on a full log.  (With a log of two files or more.)
Backpressure == werr # "cacheFull"

\* A query, which runs only while no flush holds queryMute, finds every accepted point
\* once: in the log or in the segments, except a pair a column has kept back.  (While
\* the process has not crashed; with values of two types, while no flush has failed.)
QuerySees ==
  ~Holding /\ crashes = 0 /\ (OneType \/ fails = 0) =>
    \A id \in acked :
      /\ id \in WalIds \cup Ids(segs) \cup PreIds
      /\ ~(id \in WalIds /\ id \in Ids(segs))
      /\ Cardinality({i \in DOMAIN segs : segs[i].id = id}) <= 1

\* Accepted points of one type survive any crash: they are in the log or the segments.
Durable == OneType => acked \subseteq WalIds \cup Ids(segs)

\* Each column's encoder is fed one flush's points in time order: from the log as they
\* are when no file is marked, sorted when one is, and also after a recovery.
StreamOrdered ==
  OneType => \A c \in DOMAIN cols :
    LET seen == cols[c].buf
    IN \A i \in 1 .. Len(seen) - 1 : seen[i].tms <= seen[i + 1].tms

\* Under a sampling policy one tag's points in the log are at least minInterval apart.
Spaced ==
  conf.minInterval > 0 =>
    LET recs == FlattenSeq([i \in DOMAIN files |-> files[i].recs])
    IN \A i, j \in DOMAIN recs : i < j /\ recs[i].code = recs[j].code
         => recs[j].tms - recs[i].tms >= conf.minInterval

\* A batch the worker has taken is committed or refused in the end: the worker, the
\* flush and the queries never wait for each other for ever.
BatchReturns == pc # "idle" ~> pc = "idle"
=============================================================================
