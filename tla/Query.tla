------------------------------- MODULE Query --------------------------------
(***************************************************************************)
(* The read path of a table (tsdb/point_iter.go) over the segment list and *)
(* its indexes (segment.go, segment_index.go, column.go), the per-query    *)
(* readers and their cache (segment_reader.go, reader_cache.go) and the    *)
(* log's read buffers (file_wal.go).                                       *)
(*                                                                         *)
(* A flush holds queryMute exclusively from its first read of the log to   *)
(* the truncation, and flushMute: to queries and to the cleanup it is one  *)
(* step (Table models its inside).  A query holds queryMute shared from    *)
(* Open to Close; its steps interleave with writes to the log, with the    *)
(* cleanup of expired segments and with the other queries.                 *)
(*                                                                         *)
(* A point is its number; a block is the run of one tag's points that one  *)
(* flush writes.  Offsets count blocks.  Timestamps are above zero, which  *)
(* the code reserves for "unset".  A file is named by the order in which   *)
(* it was created.                                                         *)
(***************************************************************************)
EXTENDS Integers, Sequences, FiniteSets, SequencesExt, TLC

CONSTANTS
  Readers,      \* callers of QueryIter
  Tags, Times,
  Requests,     \* the queries asked: [tag, lo, hi, least, limit, offset, old]
  walFileSize,  \* points that fill a log file whatever their size
  chunkCap,     \* points of a read chunk
  minIndexed,   \* minIndexedChunkEntries
  segmentSize,  \* blocks that fill a segment (maxSegmentSize)
  segmentSpan,  \* maxSegmentTimeInterval, 0 is off
  maxReaders,   \* readers the cache keeps
  values,       \* the value of each point
  Texts,        \* the points whose value is not a number
  WindowSizes,  \* the windows asked of QueryWindow
  QueryLimits,  \* the settings of MaxQueryPoints considered, 0 is off
  MaxPoints, MaxQueries,  \* bounds
  MaxFaults     \* bound: failed flushes, cleanups and restarts

ASSUME QueryAssumption ==
  /\ {walFileSize, chunkCap, minIndexed, segmentSize, maxReaders}
      \subseteq Nat \ {0}
  /\ {segmentSpan, MaxPoints, MaxQueries, MaxFaults} \subseteq Nat
  /\ values \in [1 .. MaxPoints -> Int] /\ Texts \subseteq 1 .. MaxPoints
  /\ Times \cup Tags \cup WindowSizes \subseteq Nat \ {0} /\ QueryLimits \subseteq Nat

VARIABLES
  wal,      \* log files: points, needsSort, and per chunk the keys its tag index was
            \* built from
  spare,    \* the chunk indexes of the spare read buffer
  tagState, \* per tag: largest timestamp known, 0 when none
  disk,     \* the data files that exist: their blocks
  idxFile,  \* the .idx files that exist
  segs,     \* the segment list: path and index in memory
  cache,    \* the reader cache: a handle per path
  qs,       \* per reader: its query
  points,   \* history: every accepted point
  faults, queries

vars == <<wal, spare, tagState, disk, idxFile, segs, cache, qs, points, faults, queries>>

NoHandle == [path |-> 0, blocks |-> <<>>]
EmptyFile == [recs |-> <<>>, needsSort |-> FALSE, idx |-> <<>>]
newFileIndex == [min |-> 0, max |-> 0, ents |-> <<>>]
Without(f, keys) == [k \in DOMAIN f \ keys |-> f[k]]

\* A query: its request; the segments and the log of its snapshot; whether the first of
\* them is bound, how it is read, and the blocks or the offset to read next; the reader's
\* path and open file; what it has returned, and how much of it came from segments.
\* History: the points it has to return, whether the segments and indexes it was given
\* are sound, whether it has read a block of another file.
NoAsk == [tag |-> 1, lo |-> 1, hi |-> 1, least |-> 0, limit |-> 0, offset |-> 0, old |-> FALSE]
Idle == [pc |-> "idle", ask |-> NoAsk, segs |-> <<>>, wal |-> <<>>,
         bound |-> FALSE, scan |-> FALSE, todo |-> <<>>, off |-> 0, opened |-> FALSE,
         filePath |-> 0, bf |-> NoHandle, skipped |-> 0, out |-> <<>>, fromDisk |-> 0,
         due |-> {}, trusted |-> TRUE, misread |-> FALSE]

Init ==
  /\ wal = <<EmptyFile>> /\ spare = <<>> /\ tagState = [t \in Tags |-> 0]
  /\ disk = <<>> /\ idxFile = <<>> /\ segs = <<>> /\ cache = <<>>
  /\ qs = [r \in Readers |-> Idle] /\ points = <<>>
  /\ faults = 0 /\ queries = 0

NoQuery == \A r \in Readers : qs[r].pc = "idle"
Tms(p) == points[p].tms
Tag(p) == points[p].tag
evalCond(p, q) == values[p] >= q.least
InTime(seq, q) == SelectSeq(seq, LAMBDA p : Tms(p) >= q.lo /\ Tms(p) <= q.hi)

(***************************************************************************)
(* The log                                                                 *)
(***************************************************************************)

\* One accepted point: appendValue, the sort mark, the tag's state; rotateIfFull, whose
\* new file takes the spare read buffer.
Write ==
  \E t \in Tags, tm \in Times :
    LET p == Len(points) + 1
        f == [Last(wal) EXCEPT !.recs = Append(@, p), !.needsSort = @ \/ tm < tagState[t]]
        files == Append(Front(wal), f)
    IN \E full \in BOOLEAN :
       /\ p <= MaxPoints /\ (Len(f.recs) >= walFileSize => full)
       /\ points' = Append(points, [tag |-> t, tms |-> tm])
       /\ wal' = IF full THEN Append(files, [EmptyFile EXCEPT !.idx = spare]) ELSE files
       /\ spare' = IF full THEN <<>> ELSE spare
       /\ tagState' = [tagState EXCEPT ![t] = IF tm >= @ THEN tm ELSE @]
       /\ UNCHANGED <<disk, idxFile, segs, cache, qs, faults, queries>>

(***************************************************************************)
(* Segments                                                                *)
(***************************************************************************)

NextPath == 1 + Max({0} \cup DOMAIN disk \cup {segs[i].path : i \in DOMAIN segs})
newFileSegment(path) == [path |-> path, index |-> newFileIndex]

\* appendBlock, and the span of the index.
withBlock(index, e) ==
  [min |-> IF index.min = 0 \/ e.min < index.min THEN e.min ELSE index.min,
   max |-> IF e.max > index.max THEN e.max ELSE index.max,
   ents |-> Append(index.ents, e)]

segmentTimeExceeded(index) == segmentSpan > 0 /\ index.max - index.min >= segmentSpan

\* AddTransactionSegment, and OpenTransaction on an empty list.
addSegment(a) ==
  [a EXCEPT !.segs = Append(@, newFileSegment(a.path)), !.disk = a.path :> <<>> @@ @,
            !.path = @ + 1]

entryOf(block, off) ==
  [tag |-> Tag(Head(block)), min |-> Tms(Head(block)), max |-> Tms(Last(block)), off |-> off]

\* glowWrite: one column's block at the end of the last segment, its entry in the
\* segment's index, and a new segment when this one is full or spans too much.
glowWrite(a, block) ==
  LET seg == Last(a.segs)
      index == withBlock(seg.index, entryOf(block, Len(a.disk[seg.path])))
      b == [a EXCEPT !.segs = Append(Front(@), [seg EXCEPT !.index = index]),
                     !.disk[seg.path] = Append(@, block)]
  IN IF Len(b.disk[seg.path]) >= segmentSize \/ segmentTimeExceeded(index)
     THEN addSegment([b EXCEPT !.idxFile = seg.path :> index @@ @]) ELSE b

\* What flushCache feeds the columns, in order: the complete files, sorted by tag and
\* time when one of them kept late points; then the blocks of the columns touched.
Complete == Front(wal)
Entries ==
  LET recs == FlattenSeq([i \in DOMAIN Complete |-> Complete[i].recs])
  IN IF \E i \in DOMAIN Complete : Complete[i].needsSort
     THEN SortSeq(recs, LAMBDA p, q : \/ Tag(p) < Tag(q)
                                      \/ Tag(p) = Tag(q) /\ Tms(p) < Tms(q)
                                      \/ Tag(p) = Tag(q) /\ Tms(p) = Tms(q) /\ p < q)
     ELSE recs
Touched == LET ts == [i \in DOMAIN Entries |-> Tag(Entries[i])]
           IN SelectSeq([i \in DOMAIN ts |-> IF ts[i] \in {ts[j] : j \in 1 .. i - 1} THEN 0
                                             ELSE ts[i]], LAMBDA t : t # 0)
Blocks == [i \in DOMAIN Touched |-> SelectSeq(Entries, LAMBDA p : Tag(p) = Touched[i])]

OpenTransaction ==
  LET a == [segs |-> segs, disk |-> disk, idxFile |-> idxFile, path |-> NextPath]
  IN IF segs = <<>> THEN addSegment(a) ELSE a

\* Slip: the cached readers of the files written are kept.
evictNone(paths) == cache

evict(paths) == Without(cache, paths)

\* The files a transaction has written: the last one at its start, and the new ones.
Written(a) == {a.segs[i].path : i \in Len(OpenTransaction.segs) .. Len(a.segs)}

\* resetForReuse drops the chunk indexes of a read buffer.
resetForReuse(f) == <<>>

\* flushCache commits: CommitTransactionFileSegment, then truncate, which makes the
\* newest consumed buffer the spare one.
Flush ==
  LET a == FoldLeft(glowWrite, OpenTransaction, Blocks)
  IN /\ NoQuery /\ Len(wal) > 1
     /\ segs' = a.segs /\ disk' = a.disk /\ idxFile' = a.idxFile
     /\ cache' = evict(Written(a))
     /\ wal' = <<Last(wal)>>
     /\ spare' = resetForReuse(Last(Complete))
     /\ UNCHANGED <<tagState, qs, points, faults, queries>>

\* A write or the commit fails after n blocks: RollbackLastCommitTransaction truncates
\* the first file, whose index keeps the entries of the blocks taken back, and removes
\* the segments added with their files.
FlushFails ==
  \E n \in 0 .. Len(Blocks) :
    LET s == OpenTransaction
        a == FoldLeft(glowWrite, s, SubSeq(Blocks, 1, n))
        k == Len(s.segs)
    IN /\ NoQuery /\ Len(wal) > 1
       /\ faults < MaxFaults /\ faults' = faults + 1
       /\ segs' = SubSeq(a.segs, 1, k)
       /\ disk' = s.disk
       /\ idxFile' = Without(a.idxFile, {a.segs[i].path : i \in k + 1 .. Len(a.segs)})
       /\ cache' = evict(Written(a))
       /\ UNCHANGED <<wal, spare, tagState, qs, points, queries>>

\* cleanupExpired, Remove: drops the oldest segments, never the last, while queries run.
RemoveExpired ==
  \E cut \in 1 .. Len(segs) - 1 :
    LET gone == {segs[i].path : i \in 1 .. cut}
    IN /\ faults < MaxFaults /\ faults' = faults + 1
       /\ segs' = SubSeq(segs, cut + 1, Len(segs))
       /\ disk' = Without(disk, gone) /\ idxFile' = Without(idxFile, gone)
       /\ cache' = evict(gone)
       /\ qs' = [r \in Readers |-> [qs[r] EXCEPT !.trusted = @ /\ \A i \in DOMAIN qs[r].segs :
                                                        qs[r].segs[i].path \notin gone]]
       /\ UNCHANGED <<wal, spare, tagState, points, queries>>

\* The largest timestamp per tag found in a sequence of points.
latest(state, seq) ==
  [t \in Tags |-> Max({state[t]} \cup {Tms(seq[i]) : i \in {j \in DOMAIN seq : Tag(seq[j]) = t}})]

\* The sort mark NewWalFile recomputes: a point older than one of its tag met before.
recovered(i) ==
  LET before == FlattenSeq([k \in 1 .. i - 1 |-> wal[k].recs])
      recs == wal[i].recs
  IN [recs |-> recs, idx |-> <<>>,
      needsSort |-> \E k \in DOMAIN recs : \E p \in Range(before \o SubSeq(recs, 1, k - 1)) :
                      Tag(p) = Tag(recs[k]) /\ Tms(recs[k]) < Tms(p)]

\* Slip: the last segment is not inspected.
latestOfLog(state, blocks) == state

latestOfFile(state, blocks) == latest(state, FlattenSeq(blocks))

\* PersistIndex writes the index of a segment that has blocks.
persisted(clean) ==
  LET indexed == {s \in Range(segs) : clean /\ s.index.ents # <<>>}
  IN [p \in {s.path : s \in indexed} |-> (CHOOSE s \in indexed : s.path = p).index] @@ idxFile

\* The process stops (Close persists every index; a crash does not) and starts again:
\* BuildFragmentation lists the data files there are, with the index file or an empty
\* index, NewWalFile reads the log, and the last segment is inspected for the latest
\* points (the index this rebuilds is dropped, one being loaded already).
Restart ==
  \E clean \in BOOLEAN :
    LET kept == persisted(clean)
        paths == SetToSortSeq(DOMAIN disk, <)
        inLog == latest([t \in Tags |-> 0], FlattenSeq([i \in DOMAIN wal |-> wal[i].recs]))
    IN /\ faults < MaxFaults /\ faults' = faults + 1
       /\ idxFile' = kept
       /\ segs' = [i \in DOMAIN paths |->
                    [path |-> paths[i],
                     index |-> IF paths[i] \in DOMAIN kept THEN kept[paths[i]] ELSE newFileIndex]]
       /\ wal' = [i \in DOMAIN wal |-> recovered(i)]
       /\ tagState' = IF paths = <<>> THEN inLog ELSE latestOfFile(inLog, disk[Last(paths)])
       /\ spare' = <<>> /\ cache' = <<>>
       /\ qs' = [r \in Readers |-> Idle]
       /\ UNCHANGED <<disk, points, queries>>

(***************************************************************************)
(* Finding blocks                                                          *)
(***************************************************************************)

\* sort.Search on 0 .. n - 1, for a predicate given as a set of indices.
Search(n, holds) ==
  LET search[i, j \in 0 .. n] ==
        IF i >= j THEN i
        ELSE LET h == (i + j) \div 2 IN IF h \in holds THEN search[i, h] ELSE search[h + 1, j]
  IN search[0, n]

\* Slip: a block that ends where the range starts is left out.
reachesPast(e, q) == e.max > q.lo

reaches(e, q) == e.max >= q.lo

\* matchingBlockPositions: the entries of the tag, by two binary searches when they are
\* in time order, else by comparing each of them.
matching(index, q) ==
  LET ents == SelectSeq(index.ents, LAMBDA e : e.tag = q.tag)
      n == Len(ents)
      unsorted == \E i \in 2 .. n : ents[i].min < ents[i - 1].min \/ ents[i].max < ents[i - 1].max
      first == Search(n, {i \in 0 .. n - 1 : reaches(ents[i + 1], q)})
      last == Search(n - first, {i \in 0 .. n - first - 1 : ents[first + i + 1].min > q.hi})
  IN IF unsorted THEN SelectSeq(ents, LAMBDA e : q.lo <= e.max /\ q.hi >= e.min)
     ELSE SubSeq(ents, first + 1, first + last)

\* RangeFromTime: a binary search by largest timestamp, one step back, then forward to
\* the first segment that starts after the range.  A segment without an index is
\* compared by its creation time, which the ranges marked old end before.
RangeFromTime(q) ==
  LET n == Len(segs)
      ix(i) == segs[i].index
      first == Search(n, {i \in 0 .. n - 1 : ix(i + 1).max = 0 \/ ix(i + 1).max >= q.lo})
      from == IF first > 0 THEN first ELSE 1
      skip(i) == ix(i).min # 0 /\ ix(i).max < q.lo
      stop(i) == IF ix(i).min # 0 THEN ~skip(i) /\ ix(i).min > q.hi ELSE q.old
      seen == {i \in from .. n : ~skip(i) /\ \A k \in from .. i : ~stop(k)}
  IN LET at == SetToSortSeq(seen, <) IN [i \in DOMAIN at |-> segs[at[i]]]

(***************************************************************************)
(* A query                                                                 *)
(***************************************************************************)

\* Every committed point: in the log or, once, in the file of a segment.
Stored == {p \in DOMAIN points : \/ \E i \in DOMAIN wal : p \in Range(wal[i].recs)
                                 \/ \E f \in DOMAIN disk : p \in Range(FlattenSeq(disk[f]))}

\* What a segment's index says is what its file holds.
IndexTrue(seg) ==
  LET file == disk[seg.path]
  IN seg.index = FoldLeft(withBlock, newFileIndex, [i \in DOMAIN file |-> entryOf(file[i], i - 1)])

\* The segments follow each other in time, and one without an index is the last.
InTimeOrder ==
  \A i, j \in DOMAIN segs :
    LET a == segs[i].index
        b == segs[j].index
    IN i < j /\ b.min # 0 => a.min # 0 /\ a.max <= b.max /\ a.min <= b.min

\* The log as a query keeps it: the length of each file and its mark.
snapshotTagTime ==
  [i \in DOMAIN wal |-> [len |-> Len(wal[i].recs), needsSort |-> wal[i].needsSort]]

\* queryIter: under queryMute, the segments of the range and the log as it is.
Open(r) ==
  \E q \in Requests :
    /\ qs[r].pc = "idle" /\ queries < MaxQueries /\ queries' = queries + 1
    /\ qs' = [qs EXCEPT ![r] =
         [Idle EXCEPT !.pc = "disk", !.ask = q, !.segs = RangeFromTime(q),
            !.wal = snapshotTagTime,
            !.due = {p \in Stored : Tag(p) = q.tag /\ Tms(p) >= q.lo /\ Tms(p) <= q.hi
                                 /\ evalCond(p, q)},
            !.trusted = InTimeOrder /\ \A i \in DOMAIN segs : IndexTrue(segs[i])]]
    /\ UNCHANGED <<wal, spare, tagState, disk, idxFile, segs, cache, points, faults>>

\* bindSegment: the mode for the segment; FALSE when it has nothing for the range.
overlaps(index, q) == q.lo <= index.max /\ q.hi >= index.min
binds(index, q) == index.ents = <<>> \/ (overlaps(index, q) /\ matching(index, q) # <<>>)
byIndex(index, q) ==
  /\ index.ents # <<>>
  /\ LET n == Len(matching(index, q)) IN n <= Len(index.ents) \div 2 /\ n <= 100

\* nextSegment: the next segment of the snapshot is bound or passed over; the reader is
\* given the path, its open file stays.
Bind(r) ==
  LET s == qs[r]
      seg == Head(s.segs)
      idx == byIndex(seg.index, s.ask)
  IN /\ s.pc = "disk" /\ ~s.bound /\ s.segs # <<>>
     /\ qs' = [qs EXCEPT ![r] =
          IF binds(seg.index, s.ask)
          THEN [s EXCEPT !.bound = TRUE, !.filePath = seg.path, !.scan = ~idx, !.off = 0,
                         !.opened = FALSE,
                         !.todo = IF idx THEN matching(seg.index, s.ask) ELSE <<>>]
          ELSE [s EXCEPT !.segs = Tail(@)]]
     /\ UNCHANGED <<wal, spare, tagState, disk, idxFile, segs, cache, points, faults, queries>>

endSegment(s) == [s EXCEPT !.bound = FALSE, !.segs = Tail(@), !.todo = <<>>]

\* OpenBlockFile, Rebind: the blocks the file has now; a missing file is created.
opened(path) == [path |-> path, blocks |-> IF path \in DOMAIN disk THEN disk[path] ELSE <<>>]
diskWith(path) == IF path \in DOMAIN disk THEN disk ELSE path :> <<>> @@ disk

\* A reader without a file takes the idle one of the cache, or opens the path.
acquired(path) == IF path \in DOMAIN cache THEN cache[path] ELSE opened(path)

\* OpenReader rebinds a file that is not the path's; ReadAt keeps the file it has.
OpenReader(s) ==
  IF s.bf = NoHandle THEN acquired(s.filePath)
  ELSE IF s.bf.path # s.filePath THEN opened(s.filePath) ELSE s.bf
ReadAtFile(s) == IF s.bf = NoHandle THEN acquired(s.filePath) ELSE s.bf

\* The reader's file becomes h.
UseFile(s, h) ==
  /\ cache' = IF s.bf = NoHandle THEN Without(cache, {s.filePath}) ELSE cache
  /\ disk' = IF s.bf # h /\ ~(s.bf = NoHandle /\ s.filePath \in DOMAIN cache)
             THEN diskWith(s.filePath) ELSE disk

\* Points that meet the condition go to the caller after the offset, up to the limit,
\* which ends the query.
emit(s, found) ==
  LET pts == SelectSeq(found, LAMBDA p : evalCond(p, s.ask))
      drop == IF s.ask.offset - s.skipped < Len(pts) THEN s.ask.offset - s.skipped ELSE Len(pts)
      rest == SubSeq(pts, drop + 1, Len(pts))
      room == s.ask.limit - Len(s.out)
      out == s.out \o (IF s.ask.limit > 0 /\ room < Len(rest) THEN SubSeq(rest, 1, room) ELSE rest)
  IN [s EXCEPT !.skipped = @ + drop, !.out = out,
               !.pc = IF s.ask.limit > 0 /\ Len(out) >= s.ask.limit THEN "done" ELSE @]

fromDisk(s, pts) == LET t == emit(s, pts) IN [t EXCEPT !.fromDisk = Len(t.out)]

\* The filter of NextReadFilter on a block's header.
accepts(block, q) ==
  Tag(Head(block)) = q.tag /\ Tms(Last(block)) >= q.lo /\ Tms(Head(block)) <= q.hi

\* nextBlock in scan mode: the file is opened when the segment is new; the next block the
\* filter accepts, or the end of the segment.
Scan(r) ==
  LET s == qs[r]
      h == IF s.opened THEN s.bf ELSE OpenReader(s)
      next == {i \in s.off + 1 .. Len(h.blocks) : accepts(h.blocks[i], s.ask)}
      t == [s EXCEPT !.opened = TRUE, !.bf = h, !.misread = @ \/ h.path # s.filePath]
  IN /\ s.pc = "disk" /\ s.bound /\ s.scan
     /\ IF s.opened THEN UNCHANGED <<cache, disk>> ELSE UseFile(s, h)
     /\ qs' = [qs EXCEPT ![r] =
          IF next = {} THEN endSegment(t)
          ELSE fromDisk([t EXCEPT !.off = Min(next)], InTime(h.blocks[Min(next)], s.ask))]
     /\ UNCHANGED <<wal, spare, tagState, idxFile, segs, points, faults, queries>>

\* nextBlock in index mode: ReadAt the offset of the next entry.  The block found there is
\* taken as it is; past the end of the file the query fails.
ReadAt(r) ==
  LET s == qs[r]
      h == ReadAtFile(s)
      off == Head(s.todo).off
      t == [s EXCEPT !.bf = h, !.todo = Tail(@), !.misread = @ \/ h.path # s.filePath]
  IN /\ s.pc = "disk" /\ s.bound /\ ~s.scan
     /\ IF s.todo = <<>>
        THEN UNCHANGED <<cache, disk>> /\ qs' = [qs EXCEPT ![r] = endSegment(s)]
        ELSE /\ UseFile(s, h)
             /\ qs' = [qs EXCEPT ![r] = IF off < Len(h.blocks)
                                        THEN fromDisk(t, InTime(h.blocks[off + 1], s.ask))
                                        ELSE [t EXCEPT !.pc = "error"]]
     /\ UNCHANGED <<wal, spare, tagState, idxFile, segs, points, faults, queries>>

(***************************************************************************)
(* The log's part of a query                                               *)
(***************************************************************************)

chunks(recs) == [c \in 1 .. (Len(recs) + chunkCap - 1) \div chunkCap |->
                   SubSeq(recs, (c - 1) * chunkCap + 1,
                          IF c * chunkCap < Len(recs) THEN c * chunkCap ELSE Len(recs))]

indexable(n) == n - 1

Keys(chunk) == [j \in DOMAIN chunk |-> Tag(chunk[j])]
HasIndex(f, c) == c \in DOMAIN f.idx /\ f.idx[c] # <<>>

\* tagIndex, for file f and the chunks of a snapshot: an index is built once, from the
\* keys the first query to need it sees.
tagIndex(f, cs) ==
  LET built == {c \in 1 .. indexable(Len(cs)) : ~HasIndex(f, c) /\ Len(cs[c]) >= minIndexed}
      n == Max({Len(f.idx)} \cup built)
  IN [c \in 1 .. n |-> IF c \in built THEN Keys(cs[c])
                       ELSE IF c \in DOMAIN f.idx THEN f.idx[c] ELSE <<>>]

UsesIndex(f, cs, c) == c <= indexable(Len(cs)) /\ HasIndex(f, c)

\* The positions of the tag in a chunk: by the index, else by a scan.
tagPoints(f, cs, c, tag) ==
  LET keys == IF UsesIndex(f, cs, c) THEN f.idx[c] ELSE Keys(cs[c])
      at == SetToSortSeq({j \in DOMAIN keys \cap DOMAIN cs[c] : keys[j] = tag}, <)
  IN [k \in DOMAIN at |-> cs[c][at[k]]]

\* An ordered chunk read by its index is left at the first point after the range.
upTo(pts, hi) ==
  LET past == {k \in DOMAIN pts : Tms(pts[k]) > hi}
  IN IF past = {} THEN pts ELSE SubSeq(pts, 1, Min(past) - 1)

anyNeedsSort(s) == \E i \in DOMAIN s.wal : s.wal[i].needsSort

\* What a file adds to the stream, and to the buffer that is sorted.
nextBufferedFile(s, f, cs) ==
  FlattenSeq([c \in DOMAIN cs |->
    LET found == tagPoints(f, cs, c, s.ask.tag)
    IN InTime(IF UsesIndex(f, cs, c) THEN upTo(found, s.ask.hi) ELSE found, s.ask)])
appendSortedChunks(s, f, cs) ==
  FlattenSeq([c \in DOMAIN cs |-> InTime(tagPoints(f, cs, c, s.ask.tag), s.ask)])

\* walPointIter, on the files, lengths and marks of the snapshot; it touches nothing
\* that changes, so that it is one step.
ReadWal(r) ==
  LET s == qs[r]
      cs == [i \in DOMAIN s.wal |-> chunks(SubSeq(wal[i].recs, 1, s.wal[i].len))]
      fs == [i \in DOMAIN s.wal |-> [wal[i] EXCEPT !.idx = tagIndex(wal[i], cs[i])]]
      sort == anyNeedsSort(s)
      pts == FlattenSeq([i \in DOMAIN s.wal |-> IF sort THEN appendSortedChunks(s, fs[i], cs[i])
                                                ELSE nextBufferedFile(s, fs[i], cs[i])])
      t == emit(s, IF sort THEN SortSeq(pts, LAMBDA p, q : \/ Tms(p) < Tms(q)
                                                           \/ Tms(p) = Tms(q) /\ p < q)
                   ELSE pts)
  IN /\ s.pc = "disk" /\ s.segs = <<>>
     /\ wal' = [i \in DOMAIN wal |-> IF i \in DOMAIN fs THEN fs[i] ELSE wal[i]]
     /\ qs' = [qs EXCEPT ![r] = [t EXCEPT !.pc = "done"]]
     /\ UNCHANGED <<spare, tagState, disk, idxFile, segs, cache, points, faults, queries>>

\* The context of the query is cancelled or its timeout passes.
Cancel(r) ==
  /\ qs[r].pc = "disk"
  /\ qs' = [qs EXCEPT ![r].pc = "error"]
  /\ UNCHANGED <<wal, spare, tagState, disk, idxFile, segs, cache, points, faults, queries>>

\* release: a file goes to the cache, where it replaces another of its path; a full cache
\* drops any one first.
released(path, h) ==
  IF Cardinality(DOMAIN cache) < maxReaders THEN {path :> h @@ cache}
  ELSE {path :> h @@ Without(cache, {victim}) : victim \in DOMAIN cache}

\* close: the reader's file is released under the reader's path.
Close(r) ==
  LET s == qs[r] IN
  /\ s.pc # "idle"
  /\ qs' = [qs EXCEPT ![r] = Idle]
  /\ cache' \in IF s.bf = NoHandle THEN {cache} ELSE released(s.filePath, s.bf)
  /\ UNCHANGED <<wal, spare, tagState, disk, idxFile, segs, points, faults, queries>>

(***************************************************************************)
(* QueryWindow                                                             *)
(***************************************************************************)

Quo(a, b) == IF a >= 0 THEN a \div b ELSE -((-a) \div b)
mean(a, b, n) == a + Quo(b - a, n)

\* A window: its first timestamp, the result so far, the points counted, the first of them
\* and where it stands in the stream.
resetWindow(p, i) ==
  [lastTms |-> Tms(p), tms |-> Tms(p), v |-> values[p], n |-> 1, first |-> p, from |-> i]

\* A point joins the window, by fusion.
fused(w, p, fusion) ==
  CASE fusion = "min" -> IF w.v > values[p] THEN [w EXCEPT !.v = values[p], !.tms = Tms(p)] ELSE w
    [] fusion = "max" -> IF w.v > values[p] THEN w ELSE [w EXCEPT !.v = values[p], !.tms = Tms(p)]
    [] OTHER -> [w EXCEPT !.n = @ + 1, !.tms = mean(@, Tms(p), w.n + 1),
                          !.v = mean(@, values[p], w.n + 1)]

\* Texts do not join: the window keeps its first value, or passes over them.
joined(w, p, fusion) ==
  IF {w.first, p} \cap Texts # {} THEN w ELSE fused(w, p, fusion)

\* Slip: the last point of a window is one too late.
beyondLate(w, p, size) == Tms(p) - w.lastTms > size

beyond(w, p, size) == Tms(p) - w.lastTms >= size

\* QueryWindow over a stream: windows and, when there are more than allowed, the error.
QueryWindow(stream, size, maxQueryPoints, fusion) ==
  LET step(a, i) ==
        LET p == stream[i]
        IN IF a.err THEN a
           ELSE IF a.open.n = 0 THEN [a EXCEPT !.open = resetWindow(p, i)]
           ELSE IF beyond(a.open, p, size)
           THEN IF maxQueryPoints > 0 /\ Len(a.windows) + 1 >= maxQueryPoints
                THEN [a EXCEPT !.windows = Append(@, a.open), !.err = TRUE]
                ELSE [a EXCEPT !.windows = Append(@, a.open), !.open = resetWindow(p, i)]
           ELSE [a EXCEPT !.open = joined(@, p, fusion)]
      none == [lastTms |-> 0, tms |-> 0, v |-> 0, n |-> 0, first |-> 0, from |-> 0]
      a == FoldLeft(step, [windows |-> <<>>, open |-> none, err |-> FALSE],
                    [i \in DOMAIN stream |-> i])
  IN [windows |-> IF a.err \/ a.open.n = 0 THEN a.windows ELSE Append(a.windows, a.open),
      err |-> a.err]

QueryStep(r) == Open(r) \/ Bind(r) \/ Scan(r) \/ ReadAt(r) \/ ReadWal(r) \/ Cancel(r) \/ Close(r)

Next ==
  \/ Write \/ Flush \/ FlushFails \/ RemoveExpired \/ Restart
  \/ \E r \in Readers : QueryStep(r)

Spec == Init /\ [][Next]_vars

(***************************************************************************)
(* Properties                                                              *)
(***************************************************************************)

Sound(r) == qs[r].trusted /\ ~qs[r].misread

\* A query that ends returns the points of its tag and range that were accepted when it
\* started and meet the condition, each once: whatever is written meanwhile or was flushed
\* before, by index or by scan, from cached readers or fresh ones, and limit and offset cut
\* that.
\* The log's points come in time order.  (Where the segments are in time order, their
\* indexes are true and none was removed, and every block came from the file asked for:
\* the code does not check these.)
QueryExact ==
  \A r \in Readers : qs[r].pc = "done" /\ Sound(r) =>
    LET s == qs[r]
        n == Max({0, Cardinality(s.due) - s.ask.offset})
    IN /\ Range(s.out) \subseteq s.due /\ Cardinality(Range(s.out)) = Len(s.out)
       /\ Len(s.out) = IF s.ask.limit > 0 /\ s.ask.limit < n THEN s.ask.limit ELSE n
       /\ \A i, j \in s.fromDisk + 1 .. Len(s.out) : i < j => Tms(s.out[i]) <= Tms(s.out[j])

\* "OpenReader 下次会 rebind 到新文件" (endSegment): when the cursor has moved on, the
\* reader is bound to the new segment's file before a block is read.  ReadAt does not
\* rebind: in index mode the offsets of the new segment are read from the old file.
ReadsBoundFile == \A r \in Readers : ~qs[r].misread

\* "Evict cached reader for this segment — the file has new data": a reader kept for a
\* listed segment knows all the blocks its file has, so that no query misses what was
\* committed before it started.
CacheFresh ==
  \A i \in DOMAIN segs : LET p == segs[i].path IN
    p \in DOMAIN cache /\ cache[p].path = p => cache[p].blocks = disk[p]

\* QueryLatest knows every point of the log and of the last segment, also after a
\* restart; only then may it miss points of older segments, which are not read.
LatestFound ==
  \A p \in DOMAIN points :
    (\/ \E i \in DOMAIN wal : p \in Range(wal[i].recs)
     \/ segs # <<>> /\ p \in Range(FlattenSeq(disk[Last(segs).path])))
      => tagState[Tag(p)] >= Tms(p)

\* QueryWindow cuts the stream into consecutive windows shorter than its size that start
\* at least that far apart, across the border of segments and log; the time and the
\* value of a window lie between those of its points; more windows than allowed, and only
\* then, are an error.
WindowsRight ==
  \A r \in Readers, size \in WindowSizes, max \in QueryLimits,
     fusion \in {"avg", "min", "max"} : qs[r].pc = "done" =>
    LET out == qs[r].out
        res == QueryWindow(out, size, max, fusion)
        w == res.windows
        end(k) == IF k < Len(w) THEN w[k + 1].from - 1 ELSE Len(out)
        all(k) == {out[i] : i \in w[k].from .. end(k)}
        between(x, S) == \E a, b \in S : a <= x /\ x <= b
    IN IF res.err THEN Len(w) = max
       ELSE /\ (max > 0 => Len(w) <= max) /\ (out # <<>> => w # <<>> /\ w[1].from = 1)
            /\ \A k \in DOMAIN w :
                 /\ \A p \in all(k) : Tms(p) - Tms(out[w[k].from]) < size
                 /\ k > 1 => Tms(out[w[k].from]) - Tms(out[w[k - 1].from]) >= size
                 /\ between(w[k].tms, {Tms(p) : p \in all(k)})
                 /\ between(w[k].v, {values[p] : p \in all(k)})
=============================================================================
