----------------------------- MODULE BlockFile -----------------------------
(***************************************************************************)
(* One compressed segment file and the transactions written to it          *)
(* (tsdb/block_file.go, tsdb/segment_writer.go, and the inspection of the  *)
(* last segment when a table is opened, tsdb/segment.go).                  *)
(*                                                                         *)
(* The logical content is a sequence of units.  glowWrite writes a segment *)
(* block as a header and a payload, here the units 2r-1 and 2r, so that a  *)
(* compressed block can end between them.  On disk the file is its header  *)
(* and a sequence of cells: address 0 is the header, a compressed block is *)
(* one cell and so is an index.  Compression and checksums are abstracted: *)
(* an index entry keeps the units its block must decode to.                *)
(*                                                                         *)
(* The process may die between any two writes to the file; what was        *)
(* written before is on disk.  Reordering by the operating system is not   *)
(* modelled.                                                               *)
(***************************************************************************)
EXTENDS Integers, Sequences, FiniteSets

CONSTANTS
  BlockSize,    \* units that fill a block (64 KiB in the code)
  MaxUnits,     \* bound: units ever written
  MaxCrashes,   \* bound: crashes
  MaxFails,     \* bound: transactions that fail
  MaxRestarts   \* bound: clean restarts

ASSUME BlockFileAssumption ==
  /\ BlockSize \in Nat \ {0}
  /\ {MaxUnits, MaxCrashes, MaxFails, MaxRestarts} \subseteq Nat

HeaderSize == 1
NoUnit == 0

VARIABLES
  disk,       \* the file: header, and cells from address HeaderSize on
  mem,        \* the writer's BlockFile; meaningless when none is open
  state,      \* "closed" (no handle), "tx" (in a transaction), "idle" (soft-committed),
              \* "rotated" (closed inside a transaction), "sealed" (rotated and
              \* committed), "down" (process not running), "inspect"
  todo,       \* what the call in progress has still to do, one file write at a time
  lastOpenWrtOffset,  \* the rollback point of the transaction
  effective,  \* InspectBlockIndex's effectiveSize
  nextUnit,   \* units written so far, plus one
  committed,  \* history: the units of committed transactions
  pending,    \* history: the units of the transaction in progress
  crashes, fails, restarts

vars == <<disk, mem, state, todo, lastOpenWrtOffset, effective, nextUnit, committed,
          pending, crashes, fails, restarts>>

(***************************************************************************)
(* The file                                                                *)
(***************************************************************************)

NoHeader == [tx |-> "none", total |-> 0, dataEnd |-> 0, index |-> 0]
Cell(kind, units, ents) == [kind |-> kind, units |-> units, ents |-> ents]
Torn == Cell("torn", <<>>, <<>>)

\* A write at address p, over what is there or at the end of the file.
WriteCell(d, p, c) ==
  [d EXCEPT !.cells = [i \in 1 .. (IF p > Len(@) THEN p ELSE Len(@)) |->
                         IF i = p THEN c ELSE IF i <= Len(@) THEN @[i] ELSE Torn]]

\* The last entry that starts at or before offset off; 0 when there is none.
findBlock(idx, off) == Cardinality({i \in DOMAIN idx : idx[i].raw <= off})

\* The unit at logical offset off, NoUnit when the read fails: no entry, a cell
\* that is not the block the entry's checksum was taken of, or past its end.
readAt(d, idx, off) ==
  LET i == findBlock(idx, off)
      start == off - idx[i].raw + 1
  IN IF /\ i > 0
        /\ idx[i].comp \in DOMAIN d.cells
        /\ d.cells[idx[i].comp].kind = "block"
        /\ d.cells[idx[i].comp].units = idx[i].crc
        /\ start <= Len(idx[i].crc)
     THEN idx[i].crc[start] ELSE NoUnit

\* The units a sequential read from offset 0 up to n delivers.
ReadUpTo(d, idx, n) ==
  LET stop == {k \in 0 .. n - 1 : readAt(d, idx, k) = NoUnit}
      len == IF stop = {} THEN n ELSE CHOOSE k \in stop : \A j \in stop : k <= j
  IN [k \in 1 .. len |-> readAt(d, idx, k - 1)]

Blocks(d, dataEnd) ==
  {p \in 1 .. dataEnd - 1 : \A q \in 1 .. p : q \in DOMAIN d.cells /\ d.cells[q].kind = "block"}

RawOff(d, p) ==
  Cardinality({u \in (1 .. p - 1) \X (1 .. BlockSize) : u[2] <= Len(d.cells[u[1]].units)})

\* rebuildIndex scans the blocks from the file header to DataEnd.
rebuildIndex(d, dataEnd) ==
  [p \in 1 .. Cardinality(Blocks(d, dataEnd)) |->
     [raw |-> RawOff(d, p), comp |-> p, crc |-> d.cells[p].units]]

\* A BlockFile in memory.
Handle(hdr, idx, wpos, size) ==
  [hdr |-> hdr, idx |-> idx, buf |-> <<>>, wpos |-> wpos, size |-> size]

\* A transaction that was active is cut back to DataEnd.
CutTail(d) == [d EXCEPT !.cells = SubSeq(@, 1, d.hdr.dataEnd - 1)]

\* OpenBlockFile: initNew, loadAndRecover.  The result is the file and the handle.
\* When the index cannot be read loadAndRecover returns early, with the index
\* rebuilt but dataWritePos and totalSize still zero.
OpenBlockFile(d) ==
  LET h == d.hdr IN
  CASE h = NoHeader ->
         LET n == [tx |-> "done", total |-> 0, dataEnd |-> HeaderSize, index |-> 0]
         IN <<[d EXCEPT !.hdr = n], Handle(n, <<>>, HeaderSize, 0)>>
    [] h.tx = "active" ->
         LET c == CutTail(d)
             idx == rebuildIndex(c, h.dataEnd)
             total == RawOff(c, Len(idx) + 1)
             n == [tx |-> "done", total |-> total, dataEnd |-> Len(idx) + 1, index |-> 0]
         IN <<[c EXCEPT !.hdr = n], Handle(n, idx, n.dataEnd, total)>>
    [] h.tx = "done" /\ h.index > 0 /\ h.index <= Len(d.cells)
                     /\ d.cells[h.index].kind = "index" ->
         <<d, Handle(h, d.cells[h.index].ents, h.dataEnd, h.total)>>
    [] h.tx = "done" /\ h.index > 0 /\ (h.index > Len(d.cells)
                                        \/ d.cells[h.index].kind # "index") ->
         LET idx == rebuildIndex(d, h.dataEnd)
             n == [h EXCEPT !.total = RawOff(d, Len(idx) + 1), !.dataEnd = Len(idx) + 1,
                            !.index = 0]
         IN <<[d EXCEPT !.hdr = n], Handle(n, idx, 0, 0)>>
    [] h.tx = "done" /\ h.index = 0 ->
         <<d, Handle(h, <<>>, h.dataEnd, h.total)>>

\* writeIndexLocked, in two writes: the index at DataEnd, then the header.
WithIndex(d, m) == WriteCell(d, m.hdr.dataEnd, Cell("index", <<>>, m.idx))
IndexedHeader(m) == [m.hdr EXCEPT !.index = m.hdr.dataEnd, !.tx = "done"]

\* Truncate to n units with an empty buffer, the only way the program calls it.  The
\* block that holds unit n becomes the last one, trimmed to it; nothing happens
\* when the index is empty, n is not below the size, or no block holds unit n.
Truncate(d, m, n) ==
  LET i == findBlock(m.idx, n - 1)
      inBlock == n - m.idx[i].raw < Len(m.idx[i].crc)
      keep == SubSeq(m.idx[i].crc, 1, n - m.idx[i].raw)
      trimmed == [d EXCEPT !.cells = Append(SubSeq(@, 1, m.idx[i].comp - 1),
                                            Cell("block", keep, <<>>))]
      h == [m.hdr EXCEPT !.total = n, !.dataEnd = m.idx[i].comp + 1]
      m2 == [m EXCEPT !.hdr = h, !.size = n, !.wpos = h.dataEnd,
               !.idx = [SubSeq(@, 1, i) EXCEPT ![i].crc = IF inBlock THEN keep ELSE @]]
      m3 == [m2 EXCEPT !.hdr = IndexedHeader(m2)]
      d2 == WithIndex(IF inBlock THEN trimmed ELSE d, m2)
      h0 == [m.hdr EXCEPT !.total = 0]
      empty == [tx |-> "done", total |-> 0, dataEnd |-> HeaderSize, index |-> 0]
  IN CASE m.idx = <<>> /\ n = 0 ->
            <<[d EXCEPT !.hdr = h0], [m EXCEPT !.hdr = h0, !.size = 0]>>
       [] m.idx # <<>> /\ n = 0 ->
            <<[hdr |-> empty, cells |-> <<>>], Handle(empty, <<>>, HeaderSize, 0)>>
       [] n > 0 /\ (m.idx = <<>> \/ n >= m.size \/ i = 0) -> <<d, m>>
       [] n > 0 /\ m.idx # <<>> /\ n < m.size /\ i > 0 ->
            <<[d2 EXCEPT !.hdr = m3.hdr], m3>>

\* Close, with an empty buffer: the index and the header.
CloseOn(d, m) == [WithIndex(d, m) EXCEPT !.hdr = IndexedHeader(m)]

(***************************************************************************)
(* The writer                                                              *)
(***************************************************************************)

history == <<nextUnit, committed, pending>>
counters == <<crashes, fails, restarts>>
NoHandle == Handle(NoHeader, <<>>, 0, 0)

\* The segment list has just created the empty file.
Init ==
  /\ disk = [hdr |-> NoHeader, cells |-> <<>>]
  /\ mem = NoHandle
  /\ state = "closed" /\ todo = <<>>
  /\ lastOpenWrtOffset = 0 /\ effective = 0
  /\ nextUnit = 1 /\ committed = <<>> /\ pending = <<>>
  /\ crashes = 0 /\ fails = 0 /\ restarts = 0

\* OpenWriter at the start of a transaction.  A file that a soft commit left open
\* stays open; its size is the rollback point.
OpenWriter ==
  LET opened == IF state = "idle" THEN <<disk, mem>> ELSE OpenBlockFile(disk) IN
  /\ state \in {"closed", "idle"} /\ todo = <<>>
  /\ disk' = opened[1] /\ mem' = opened[2]
  /\ lastOpenWrtOffset' = opened[2].size
  /\ state' = "tx"
  /\ UNCHANGED <<todo, effective, history, counters>>

\* flushBlock writes the length prefix, then the block, at dataWritePos.
flushBlock(m) == IF m.buf = <<>> THEN <<>> ELSE <<"prefix", "data">>

\* A unit goes into the buffer.
AppendUnit(m) == [m EXCEPT !.buf = Append(@, nextUnit), !.size = @ + 1]

\* Write one unit: into the buffer when it has room; a full buffer is flushed first.
\* The transaction's first flush sets TxActive in memory, and puts it on disk only
\* after the block is written.
Write ==
  /\ state = "tx" /\ todo = <<>> /\ nextUnit <= MaxUnits
  /\ IF Len(mem.buf) < BlockSize
     THEN /\ mem' = AppendUnit(mem)
          /\ pending' = Append(pending, nextUnit) /\ nextUnit' = nextUnit + 1
          /\ UNCHANGED todo
     ELSE /\ mem' = [mem EXCEPT !.hdr.tx = "active"]
          /\ todo' = flushBlock(mem) \o (IF mem.hdr.tx = "done" THEN <<"header">> ELSE <<>>)
                                    \o <<"append">>
          /\ UNCHANGED <<pending, nextUnit>>
  /\ UNCHANGED <<disk, state, lastOpenWrtOffset, effective, committed, counters>>

\* A segment block is a header and a payload: a transaction ends after a payload.
WholeBlocks == Len(pending) % 2 = 0

\* Commit keeps the file open.
Commit ==
  /\ state = "tx" /\ todo = <<>> /\ WholeBlocks
  /\ todo' = flushBlock(mem) \o <<"index", "header", "commit">>
  /\ UNCHANGED <<disk, mem, state, lastOpenWrtOffset, effective, history, counters>>

\* Cleanup closes the file: in a transaction when the segment is full, between
\* transactions when the table is closed.
Cleanup ==
  /\ state \in {"tx", "idle"} /\ todo = <<>> /\ WholeBlocks
  /\ todo' = flushBlock(mem) \o <<"index", "header", "close">>
  /\ UNCHANGED <<disk, mem, state, lastOpenWrtOffset, effective, history, counters>>

\* Slip: the buffer is not emptied.
flushKeepsBuf(m) ==
  [m EXCEPT !.idx = Append(@, [raw |-> m.hdr.total, comp |-> m.wpos, crc |-> m.buf]),
            !.hdr.total = @ + Len(m.buf), !.hdr.dataEnd = m.wpos + 1, !.wpos = @ + 1]

\* Slip: the file is written where the last index was, whatever has been flushed.
dataKeepsPos(m) ==
  [m EXCEPT !.idx = Append(@, [raw |-> m.hdr.total, comp |-> m.wpos, crc |-> m.buf]),
            !.hdr.total = @ + Len(m.buf), !.hdr.dataEnd = m.wpos + 1, !.buf = <<>>]

\* The end of flushBlock: the index entry, and the positions moved past the block.
flushed(m) ==
  [m EXCEPT !.idx = Append(@, [raw |-> m.hdr.total, comp |-> m.wpos, crc |-> m.buf]),
            !.hdr.total = @ + Len(m.buf), !.hdr.dataEnd = m.wpos + 1,
            !.wpos = @ + 1, !.buf = <<>>]

WritePrefix ==
  /\ todo # <<>> /\ Head(todo) = "prefix"
  /\ disk' = WriteCell(disk, mem.wpos, Torn)
  /\ todo' = Tail(todo)
  /\ UNCHANGED <<mem, state, lastOpenWrtOffset, effective, history, counters>>

WriteData ==
  /\ todo # <<>> /\ Head(todo) = "data"
  /\ disk' = WriteCell(disk, mem.wpos, Cell("block", mem.buf, <<>>))
  /\ mem' = flushed(mem)
  /\ todo' = Tail(todo)
  /\ UNCHANGED <<state, lastOpenWrtOffset, effective, history, counters>>

WriteIndex ==
  /\ todo # <<>> /\ Head(todo) = "index"
  /\ disk' = WithIndex(disk, mem)
  /\ mem' = [mem EXCEPT !.hdr = IndexedHeader(mem)]
  /\ todo' = Tail(todo)
  /\ UNCHANGED <<state, lastOpenWrtOffset, effective, history, counters>>

WriteHeader ==
  /\ todo # <<>> /\ Head(todo) = "header"
  /\ disk' = [disk EXCEPT !.hdr = mem.hdr]
  /\ todo' = Tail(todo)
  /\ UNCHANGED <<mem, state, lastOpenWrtOffset, effective, history, counters>>

\* Write's loop comes round to the room the flush has made.
WriteRest ==
  /\ todo = <<"append">>
  /\ mem' = AppendUnit(mem) /\ todo' = <<>>
  /\ pending' = Append(pending, nextUnit) /\ nextUnit' = nextUnit + 1
  /\ UNCHANGED <<disk, state, lastOpenWrtOffset, effective, committed, counters>>

CommitDone ==
  /\ todo = <<"commit">>
  /\ state' = "idle" /\ todo' = <<>>
  /\ committed' = committed \o pending /\ pending' = <<>>
  /\ UNCHANGED <<disk, mem, lastOpenWrtOffset, effective, nextUnit, counters>>

CloseDone ==
  /\ todo = <<"close">>
  /\ state' = IF state = "tx" THEN "rotated" ELSE "closed"
  /\ todo' = <<>> /\ mem' = NoHandle
  /\ UNCHANGED <<disk, lastOpenWrtOffset, effective, history, counters>>

\* The transaction of a segment that was full commits in the segments after it.
CommitRotated ==
  /\ state = "rotated"
  /\ state' = "sealed"
  /\ committed' = committed \o pending /\ pending' = <<>>
  /\ UNCHANGED <<disk, mem, todo, lastOpenWrtOffset, effective, nextUnit, counters>>

\* Slip: the rollback keeps what the transaction has flushed.
rolledBackKeeps(d) == LET o == OpenBlockFile(d) IN CloseOn(o[1], o[2])

\* RollbackLastCommit: the handle is dropped, the file opened (and recovered),
\* truncated to the rollback point and closed.
rolledBack(d) ==
  LET o == OpenBlockFile(d)
      t == Truncate(o[1], o[2], lastOpenWrtOffset)
  IN CloseOn(t[1], t[2])

\* An I/O or encoding error anywhere in a transaction, or another file's commit failing.
Rollback ==
  /\ state \in {"tx", "rotated"} /\ fails < MaxFails
  /\ disk' = rolledBack(disk)
  /\ mem' = NoHandle /\ state' = "closed" /\ todo' = <<>>
  /\ pending' = <<>> /\ fails' = fails + 1
  /\ UNCHANGED <<lastOpenWrtOffset, effective, nextUnit, committed, crashes, restarts>>

(***************************************************************************)
(* Stopping and starting                                                   *)
(***************************************************************************)

Stopped ==
  /\ state' = "down" /\ mem' = NoHandle /\ todo' = <<>> /\ pending' = <<>>
  /\ UNCHANGED <<disk, lastOpenWrtOffset, effective, nextUnit, committed, fails>>

\* The process dies: what was written to the file stays.
Crash ==
  /\ state \notin {"down", "sealed"} /\ crashes < MaxCrashes
  /\ crashes' = crashes + 1 /\ UNCHANGED restarts
  /\ Stopped

Shutdown ==
  /\ state = "closed" /\ disk.hdr # NoHeader /\ restarts < MaxRestarts
  /\ restarts' = restarts + 1 /\ UNCHANGED crashes
  /\ Stopped

\* Slip: the scan that opens the file is skipped.
NoScan(d) == <<d, NoHandle>>

ScanOpen(d) == OpenBlockFile(d)

\* InspectBlockIndex of the last segment when the table is opened: a reader is
\* opened and reads the segment blocks up to the first it cannot read.
InspectRead ==
  LET o == ScanOpen(disk) IN
  /\ state = "down"
  /\ disk' = o[1] /\ effective' = Len(ReadUpTo(o[1], o[2].idx, o[2].size))
  /\ state' = "inspect"
  /\ UNCHANGED <<mem, todo, lastOpenWrtOffset, history, counters>>

\* Then the file is opened a second time, cut to what could be read, and closed.
InspectTruncate ==
  LET o == OpenBlockFile(disk)
      t == IF effective < o[2].size THEN Truncate(o[1], o[2], effective) ELSE o
  IN /\ state = "inspect"
     /\ disk' = IF effective > 0 THEN CloseOn(t[1], t[2]) ELSE disk
     /\ state' = "closed"
     /\ UNCHANGED <<mem, todo, lastOpenWrtOffset, effective, history, counters>>

Next ==
  \/ OpenWriter \/ Write \/ Commit \/ Cleanup
  \/ WritePrefix \/ WriteData \/ WriteIndex \/ WriteHeader \/ WriteRest
  \/ CommitDone \/ CloseDone \/ CommitRotated \/ Rollback
  \/ Crash \/ Shutdown \/ InspectRead \/ InspectTruncate

Spec == Init /\ [][Next]_vars

(***************************************************************************)
(* Properties                                                              *)
(***************************************************************************)

HeaderType == [tx : {"none", "active", "done"}, total : Nat, dataEnd : Nat, index : Nat]
IndexOK(idx) == \A i \in DOMAIN idx : idx[i].raw \in Nat /\ idx[i].comp \in Nat

\* Types, and what flushBlock and writeIndexLocked keep in step: no block is longer
\* than the block size, and the buffer is what Size counts beyond the header.
TypeOK ==
  /\ disk.hdr \in HeaderType /\ mem.hdr \in HeaderType
  /\ \A p \in DOMAIN disk.cells : Len(disk.cells[p].units) <= BlockSize
  /\ IndexOK(mem.idx) /\ Len(mem.buf) <= BlockSize
  /\ mem.size = mem.hdr.total + Len(mem.buf)
  /\ state \in {"closed", "tx", "idle", "rotated", "sealed", "down", "inspect"}
  /\ lastOpenWrtOffset \in Nat /\ effective \in Nat

\* What a query that opens the file now would read.
Readable == LET o == OpenBlockFile(disk) IN ReadUpTo(o[1], o[2].idx, o[2].size)

\* While the process has not died, whenever no transaction is under way a reader that
\* opens the file sees exactly the committed transactions, whatever transactions
\* failed and were rolled back before.
TxReadable ==
  crashes = 0 /\ todo = <<>> /\ state \in {"closed", "idle", "sealed", "down", "inspect"}
    => Readable = committed

\* At every instant, crashes included, each unit of a committed transaction is still in
\* a block below the DataEnd of the header on disk: no write, recovery or
\* truncation destroys it.
BlocksKept ==
  \A i \in DOMAIN committed :
    \E p \in DOMAIN disk.cells :
      /\ p < disk.hdr.dataEnd /\ disk.cells[p].kind = "block"
      /\ \E k \in DOMAIN disk.cells[p].units : disk.cells[p].units[k] = committed[i]

\* A block is never written over the file header: loadAndRecover can return with
\* dataWritePos zero, and a handle left so must not reach a transaction.
NeverOverHeader == state = "tx" => mem.wpos >= HeaderSize

\* "handling compression/decompression and crash recovery automatically": what was
\* committed can still be read once a restarted process has inspected the file.
CommittedReadable ==
  state = "closed" /\ crashes > 0
    => LET r == Readable IN Len(r) >= Len(committed) /\ SubSeq(r, 1, Len(committed)) = committed
=============================================================================
