-------------------------- MODULE BlockFileProofs --------------------------
(***************************************************************************)
(* Proofs about BlockFile: whatever crashes, failed transactions and       *)
(* recoveries came before, a transaction never starts with a handle that   *)
(* would write over the file header, the handle's positions agree with the *)
(* file, no committed unit is ever lost from the blocks, and without a     *)
(* crash a reader reads exactly what was committed.                        *)
(***************************************************************************)
EXTENDS BlockFile, FiniteSetTheorems, WellFoundedInduction, TLAPS

Block == {u \in Seq(Nat) : Len(u) <= BlockSize}
Entry == [raw : Nat, comp : Nat, crc : Block]
Cells == [kind : {"torn", "block", "index"}, units : Block, ents : Seq(Entry)]
File == [hdr : HeaderType, cells : Seq(Cells)]
Memory == [hdr : HeaderType, idx : Seq(Entry), buf : Block, wpos : Nat, size : Nat]

\* The entries of an index are in file order and lie before address n.
Below(idx, n) ==
  /\ \A j \in DOMAIN idx : idx[j].comp \in 1 .. n - 1
  /\ \A j, k \in DOMAIN idx : j < k => idx[j].comp < idx[k].comp

\* A header describes blocks that are there, and an index behind them or none.
HeaderOk(h, cells) ==
  /\ h.tx \in {"active", "done"}
  /\ h.dataEnd \in 1 .. Len(cells) + 1
  /\ h.index <= h.dataEnd

FileOk(d) ==
  /\ d \in File
  /\ \A p \in DOMAIN d.cells : Below(d.cells[p].ents, p)
  /\ d.hdr # NoHeader => HeaderOk(d.hdr, d.cells)

\* No transaction is under way in the file, and its index can be read.
Indexed(h, cells) ==
  h.tx = "done" /\ (h.index > 0 => h.index <= Len(cells) /\ cells[h.index].kind = "index")

Clean(d) == d.hdr # NoHeader => Indexed(d.hdr, d.cells)

HandleOk(m, d) == m \in Memory /\ HeaderOk(m.hdr, d.cells) /\ Below(m.idx, m.hdr.dataEnd)

\* What is still to be done is the rest of a Write, of a Commit or of a Close.
InWrite == {<<"append">>, <<"header", "append">>, <<"data", "append">>,
            <<"data", "header", "append">>, <<"prefix", "data", "append">>,
            <<"prefix", "data", "header", "append">>}
Ends == {"commit", "close"}
InEnd == {<<e>> : e \in Ends} \cup {<<"header", e>> : e \in Ends}
           \cup {<<"index", "header", e>> : e \in Ends}
           \cup {<<"data", "index", "header", e>> : e \in Ends}
           \cup {<<"prefix", "data", "index", "header", e>> : e \in Ends}

Forms == {<<>>} \cup InWrite \cup InEnd

TodoOk ==
  /\ todo \in Forms
  /\ todo \in {<<"append">>, <<"header", "append">>} => mem.buf = <<>>
  /\ todo \in {<<"header", e>> : e \in Ends} \cup {<<e>> : e \in Ends} =>
       /\ mem.hdr.index = mem.hdr.dataEnd /\ Indexed(mem.hdr, disk.cells)
  /\ todo \in {<<e>> : e \in Ends} => disk.hdr = mem.hdr

OpenOk ==
  /\ HandleOk(mem, disk)
  /\ mem.wpos = mem.hdr.dataEnd
  /\ mem.size = mem.hdr.total + Len(mem.buf)
  /\ TodoOk

BInv ==
  /\ FileOk(disk) /\ lastOpenWrtOffset \in Nat /\ effective \in Nat /\ nextUnit \in Nat
  /\ state \in {"closed", "tx", "idle", "rotated", "sealed", "down", "inspect"}
  /\ IF state \in {"tx", "idle"} THEN OpenOk ELSE mem = NoHandle /\ todo = <<>>
  /\ state \in {"closed", "inspect"} => Clean(disk)

USE BlockFileAssumption DEF HeaderSize

\* A non-empty set of naturals has a least element.
LEMMA Least ==
  ASSUME NEW T \in SUBSET Nat, T # {}
  PROVE  \E x \in T : \A y \in T : x <= y
<1> DEFINE R == {ss \in Nat \X Nat : ss[1] < ss[2]}
<1>1. IsWellFoundedOn(R, Nat)
  BY NatLessThanWellFounded, Zenon DEF OpToRel
<1>2. PICK x \in T : \A y \in T : ~(<<y, x>> \in R)
  <2> HIDE DEF R
  <2> QED BY <1>1, WFMin
<1>3. ASSUME NEW y \in T PROVE x <= y
  <2>1. <<y, x>> \in Nat \X Nat /\ <<y, x>>[1] = y /\ <<y, x>>[2] = x OBVIOUS
  <2>2. ~(y < x) BY <1>2, <2>1
  <2> QED BY <2>2
<1> QED BY <1>3

\* A sequential read delivers a number of units.
LEMMA ReadLength ==
  ASSUME NEW d, NEW idx, NEW n \in Nat
  PROVE  Len(ReadUpTo(d, idx, n)) \in Nat
<1> DEFINE stop == {k \in 0 .. n - 1 : readAt(d, idx, k) = NoUnit}
           len == IF stop = {} THEN n ELSE CHOOSE k \in stop : \A j \in stop : k <= j
<1>1. len \in Nat
  <2>1. stop \in SUBSET Nat OBVIOUS
  <2> HIDE DEF stop
  <2>2. stop # {} => (CHOOSE k \in stop : \A j \in stop : k <= j) \in stop BY <2>1, Least
  <2> QED BY <2>1, <2>2
<1> HIDE DEF len
<1>2. Len([k \in 1 .. len |-> readAt(d, idx, k - 1)]) = len BY <1>1
<1> QED BY <1>1, <1>2 DEF ReadUpTo, len

\* RawOff counts a finite set.
LEMMA RawOffNat ==
  ASSUME NEW d, NEW p \in Int
  PROVE  RawOff(d, p) \in Nat
<1> DEFINE P == (1 .. p - 1) \X (1 .. BlockSize)
           U == {u \in P : u[2] <= Len(d.cells[u[1]].units)}
<1>1. IsFiniteSet(P)
  <2>0. 1 \in Int /\ p - 1 \in Int /\ BlockSize \in Int OBVIOUS
  <2>1. IsFiniteSet(1 .. p - 1) /\ IsFiniteSet(1 .. BlockSize) BY <2>0, FS_Interval
  <2> QED BY <2>1, FS_Product
<1>2. U \subseteq P OBVIOUS
<1>3. IsFiniteSet(U) BY <1>1, <1>2, FS_Subset
<1> QED BY <1>3, FS_CardinalityType DEF RawOff

\* rebuildIndex finds no more blocks than there are cells below DataEnd.
LEMMA BlocksBound ==
  ASSUME NEW d \in File, NEW e \in Nat \ {0}
  PROVE  /\ Cardinality(Blocks(d, e)) \in 0 .. Len(d.cells)
         /\ Cardinality(Blocks(d, e)) <= e - 1
<1>0. d.cells \in Seq(Cells) BY DEF File
<1>1. Blocks(d, e) \subseteq 1 .. Len(d.cells) BY <1>0 DEF Blocks
<1>2. Blocks(d, e) \subseteq 1 .. e - 1 BY DEF Blocks
<1>3. /\ IsFiniteSet(1 .. Len(d.cells)) /\ Cardinality(1 .. Len(d.cells)) = Len(d.cells)
      /\ IsFiniteSet(1 .. e - 1) /\ Cardinality(1 .. e - 1) = e - 1
  <2>1. Len(d.cells) \in Int /\ e - 1 \in Int /\ 1 \in Int /\ Len(d.cells) >= 0 BY <1>0
  <2>2. /\ IsFiniteSet(1 .. Len(d.cells)) /\ Cardinality(1 .. Len(d.cells)) =
              IF 1 > Len(d.cells) THEN 0 ELSE Len(d.cells) - 1 + 1
        /\ IsFiniteSet(1 .. e - 1) /\ Cardinality(1 .. e - 1) = IF 1 > e - 1 THEN 0 ELSE e - 1 - 1 + 1
    BY <2>1, FS_Interval
  <2> QED BY <2>1, <2>2
<1>4. Cardinality(Blocks(d, e)) <= Len(d.cells) /\ IsFiniteSet(Blocks(d, e))
  BY <1>1, <1>3, FS_Subset
<1>5. Cardinality(Blocks(d, e)) <= e - 1 BY <1>2, <1>3, FS_Subset
<1> QED BY <1>4, <1>5, <1>0, FS_CardinalityType

\* A cell written inside the file or at its end.
LEMMA WriteCellOk ==
  ASSUME NEW d \in File, NEW p \in 1 .. Len(d.cells) + 1, NEW c \in Cells,
         \A q \in DOMAIN d.cells : Below(d.cells[q].ents, q), Below(c.ents, p)
  PROVE  LET w == WriteCell(d, p, c) IN
         /\ w \in File /\ w.hdr = d.hdr /\ w.cells[p] = c
         /\ p <= Len(w.cells) /\ Len(d.cells) <= Len(w.cells)
         /\ \A q \in DOMAIN w.cells : Below(w.cells[q].ents, q)
         /\ \A q \in DOMAIN d.cells : q # p => w.cells[q] = d.cells[q]
<1> DEFINE s == d.cells
           n == IF p > Len(s) THEN p ELSE Len(s)
           t == [i \in 1 .. n |-> IF i = p THEN c ELSE IF i <= Len(s) THEN s[i] ELSE Torn]
<1>1. s \in Seq(Cells) /\ d.hdr \in HeaderType BY DEF File
<1>2. n \in Nat /\ Len(s) \in Nat /\ p \in 1 .. n /\ Len(s) <= n BY <1>1
<1>3. \A i \in 1 .. n : i # p => i \in 1 .. Len(s) BY <1>1
<1>4. \A i \in 1 .. Len(s) : s[i] \in Cells BY <1>1
<1> HIDE DEF s, n
<1>5. \A i \in 1 .. n : t[i] = IF i = p THEN c ELSE s[i] BY <1>2, <1>3
<1>6. t \in Seq(Cells) /\ Len(t) = n
  <2>1. t \in [1 .. n -> Cells] BY <1>2, <1>3, <1>4
  <2> QED BY <2>1, <1>2
<1>7. WriteCell(d, p, c) = [d EXCEPT !.cells = t] BY DEF WriteCell, s, n
<1>8. \A q \in 1 .. n : Below(t[q].ents, q) BY <1>1, <1>3, <1>5 DEF s
<1> HIDE DEF t
<1>9. [d EXCEPT !.cells = t] \in File /\ [d EXCEPT !.cells = t].hdr = d.hdr
        /\ [d EXCEPT !.cells = t].cells = t
  BY <1>6 DEF File
<1>10. DOMAIN t = 1 .. n /\ DOMAIN s = 1 .. Len(s) BY <1>1, <1>6
<1> QED BY <1>1, <1>2, <1>5, <1>6, <1>7, <1>8, <1>9, <1>10 DEF s

\* The index rebuilt by a scan lists cells that are there.
LEMMA RebuildOk ==
  ASSUME NEW d \in File, NEW e \in Nat \ {0}
  PROVE  LET idx == rebuildIndex(d, e) IN
         /\ idx \in Seq(Entry) /\ Len(idx) \in 0 .. Len(d.cells) /\ Len(idx) <= e - 1
         /\ Below(idx, Len(idx) + 1) /\ RawOff(d, Len(idx) + 1) \in Nat
<1> DEFINE n == Cardinality(Blocks(d, e))
           idx == [p \in 1 .. n |-> [raw |-> RawOff(d, p), comp |-> p, crc |-> d.cells[p].units]]
<1>1. n \in 0 .. Len(d.cells) /\ n <= e - 1 BY BlocksBound
<1>2. d.cells \in Seq(Cells) BY DEF File
<1> HIDE DEF n
<1>3. idx \in [1 .. n -> Entry]
  <2> SUFFICES ASSUME NEW p \in 1 .. n
               PROVE  [raw |-> RawOff(d, p), comp |-> p, crc |-> d.cells[p].units] \in Entry
    OBVIOUS
  <2>1. RawOff(d, p) \in Nat BY RawOffNat
  <2>2. d.cells[p] \in Cells BY <1>1, <1>2
  <2>3. d.cells[p].units \in Block BY <2>2 DEF Cells
  <2> QED BY <2>1, <2>3 DEF Entry
<1>4. idx \in Seq(Entry) /\ Len(idx) = n BY <1>1, <1>3
<1>5. Below(idx, n + 1) BY <1>1 DEF Below
<1>6. RawOff(d, n + 1) \in Nat BY <1>1, RawOffNat
<1> HIDE DEF idx
<1> QED BY <1>1, <1>4, <1>5, <1>6 DEF rebuildIndex, n, idx

\* Cutting the tail keeps the cells below DataEnd.
LEMMA CutTailOk ==
  ASSUME NEW d, FileOk(d), d.hdr # NoHeader
  PROVE  LET c == CutTail(d) IN
         /\ c \in File /\ c.hdr = d.hdr /\ Len(c.cells) = d.hdr.dataEnd - 1
         /\ \A q \in DOMAIN c.cells : q \in DOMAIN d.cells /\ c.cells[q] = d.cells[q]
         /\ \A q \in DOMAIN c.cells : Below(c.cells[q].ents, q)
<1> DEFINE s == d.cells
           e == d.hdr.dataEnd
           t == SubSeq(s, 1, e - 1)
<1>1. s \in Seq(Cells) /\ d.hdr \in HeaderType /\ e \in 1 .. Len(s) + 1
  BY DEF FileOk, HeaderOk, File
<1>2. t \in Seq(Cells) /\ Len(t) = e - 1 /\ \A q \in 1 .. e - 1 : t[q] = s[q]
  <2> HIDE DEF s, e
  <2> QED BY <1>1
<1>3. DOMAIN t = 1 .. e - 1 /\ DOMAIN s = 1 .. Len(s) BY <1>1, <1>2
<1>4. \A q \in 1 .. e - 1 : q \in 1 .. Len(s) BY <1>1
<1>5. \A q \in DOMAIN s : Below(s[q].ents, q) BY DEF FileOk
<1>6. CutTail(d) = [d EXCEPT !.cells = t] BY DEF CutTail
<1> HIDE DEF t
<1>7. [d EXCEPT !.cells = t] \in File /\ [d EXCEPT !.cells = t].hdr = d.hdr
        /\ [d EXCEPT !.cells = t].cells = t
  BY <1>2 DEF File, FileOk
<1> QED BY <1>2, <1>3, <1>4, <1>5, <1>6, <1>7

\* The empty sequences of the model.
LEMMA Empties ==
  <<>> \in Block /\ <<>> \in Seq(Entry) /\ <<>> \in Seq(Cells) /\ Torn \in Cells
<1>1. <<>> \in Seq(Entry) OBVIOUS
<1>2. <<>> \in Seq(Cells) OBVIOUS
<1>3. <<>> \in Seq(Nat) /\ Len(<<>>) = 0 OBVIOUS
<1>4. <<>> \in Block BY <1>3 DEF Block
<1> QED BY <1>1, <1>2, <1>4 DEF Torn, Cell, Cells

\* A handle is a record of its parts.
LEMMA HandleType ==
  ASSUME NEW h \in HeaderType, NEW idx \in Seq(Entry), NEW w \in Nat, NEW n \in Nat
  PROVE  LET m == Handle(h, idx, w, n) IN
         /\ m \in Memory /\ m.hdr = h /\ m.idx = idx /\ m.buf = <<>> /\ m.wpos = w /\ m.size = n
BY Empties DEF Handle, Memory

\* What OpenBlockFile returns: a file without a transaction whose index can be read, and
\* a handle that agrees with it.  The positions are set unless the index was unreadable.
Opened(d, o) ==
  /\ FileOk(o[1]) /\ Clean(o[1]) /\ o[1].hdr = o[2].hdr
  /\ HandleOk(o[2], o[1]) /\ o[2].hdr.tx = "done" /\ o[2].buf = <<>>
  /\ Clean(d) => o[2].wpos = o[2].hdr.dataEnd /\ o[2].size = o[2].hdr.total

\* A header made by OpenBlockFile.
LEMMA NewHeader ==
  ASSUME NEW n \in Nat, NEW e \in Nat
  PROVE  LET h == [tx |-> "done", total |-> n, dataEnd |-> e, index |-> 0] IN
         h \in HeaderType /\ h # NoHeader /\ h.tx = "done" /\ h.total = n /\ h.dataEnd = e
           /\ h.index = 0
BY DEF HeaderType, NoHeader

\* A file with such a header, and a handle on it.
LEMMA OpenedFresh ==
  ASSUME NEW d, NEW c \in File, \A q \in DOMAIN c.cells : Below(c.cells[q].ents, q),
         NEW idx \in Seq(Entry), Below(idx, Len(idx) + 1), Len(idx) <= Len(c.cells),
         NEW n \in Nat, NEW w \in Nat, NEW z \in Nat,
         Clean(d) => w = Len(idx) + 1 /\ z = n
  PROVE  LET h == [tx |-> "done", total |-> n, dataEnd |-> Len(idx) + 1, index |-> 0] IN
         Opened(d, <<[c EXCEPT !.hdr = h], Handle(h, idx, w, z)>>)
<1> DEFINE h == [tx |-> "done", total |-> n, dataEnd |-> Len(idx) + 1, index |-> 0]
           f == [c EXCEPT !.hdr = h]
           m == Handle(h, idx, w, z)
<1>0. c.cells \in Seq(Cells) /\ Len(idx) \in Nat /\ Len(c.cells) \in Nat BY DEF File
<1>1. h \in HeaderType /\ h # NoHeader /\ h.tx = "done" /\ h.total = n
        /\ h.dataEnd = Len(idx) + 1 /\ h.index = 0
  BY <1>0, NewHeader
<1> HIDE DEF h
<1>2. f \in File /\ f.hdr = h /\ f.cells = c.cells BY <1>1 DEF File
<1>3. m \in Memory /\ m.hdr = h /\ m.idx = idx /\ m.buf = <<>> /\ m.wpos = w /\ m.size = z
  BY <1>1, HandleType
<1> HIDE DEF f, m
<1>4. HeaderOk(h, c.cells) BY <1>0, <1>1 DEF HeaderOk
<1>5. FileOk(f) BY <1>2, <1>4 DEF FileOk
<1>6. Clean(f) BY <1>1, <1>2 DEF Clean, Indexed
<1>7. HandleOk(m, f) BY <1>1, <1>2, <1>3, <1>4 DEF HandleOk
<1>8. Clean(d) => m.wpos = m.hdr.dataEnd /\ m.size = m.hdr.total BY <1>1, <1>3
<1>9. Opened(d, <<f, m>>) BY <1>1, <1>2, <1>3, <1>5, <1>6, <1>7, <1>8 DEF Opened
<1> QED BY <1>9 DEF f, m, h

\* A file that is already as a commit left it, and a handle on it.
LEMMA OpenedAsIs ==
  ASSUME NEW d, FileOk(d), d.hdr # NoHeader, Indexed(d.hdr, d.cells),
         NEW idx \in Seq(Entry), Below(idx, d.hdr.dataEnd)
  PROVE  Opened(d, <<d, Handle(d.hdr, idx, d.hdr.dataEnd, d.hdr.total)>>)
<1> DEFINE h == d.hdr
           m == Handle(h, idx, h.dataEnd, h.total)
<1>1. h \in HeaderType /\ h.dataEnd \in Nat /\ h.total \in Nat BY DEF FileOk, File, HeaderType
<1>2. m \in Memory /\ m.hdr = h /\ m.idx = idx /\ m.buf = <<>> /\ m.wpos = h.dataEnd
        /\ m.size = h.total
  <2> HIDE DEF h
  <2> QED BY <1>1, HandleType
<1> HIDE DEF m
<1>3. HeaderOk(h, d.cells) BY DEF FileOk
<1>4. HandleOk(m, d) BY <1>2, <1>3 DEF HandleOk
<1>5. Clean(d) BY DEF Clean
<1>6. Opened(d, <<d, m>>) BY <1>2, <1>4, <1>5 DEF Opened, Indexed
<1> QED BY <1>6 DEF m

\* loadAndRecover: after any crash the file is clean and the handle agrees with it.
LEMMA OpenBlockFileOk ==
  ASSUME NEW d, FileOk(d)
  PROVE  Opened(d, OpenBlockFile(d))
<1> DEFINE h == d.hdr
<1>1. d \in File /\ d.cells \in Seq(Cells) /\ h \in HeaderType BY DEF FileOk, File
<1>2. \A q \in DOMAIN d.cells : Below(d.cells[q].ents, q) BY DEF FileOk
<1>3. CASE h = NoHeader
  <2>1. PICK idx : idx = <<>> OBVIOUS
  <2> DEFINE n == [tx |-> "done", total |-> 0, dataEnd |-> Len(idx) + 1, index |-> 0]
             k == [tx |-> "done", total |-> 0, dataEnd |-> 1, index |-> 0]
  <2>2. idx \in Seq(Entry) /\ Below(idx, Len(idx) + 1) /\ Len(idx) <= Len(d.cells)
    BY <1>1, <2>1 DEF Below
  <2>3. Len(idx) + 1 = 1 BY <2>1
  <2>4. Opened(d, <<[d EXCEPT !.hdr = n], Handle(n, idx, 1, 0)>>)
    BY <1>1, <1>2, <2>2, <2>3, OpenedFresh
  <2>5. n = k BY <2>3
  <2>6. OpenBlockFile(d) = <<[d EXCEPT !.hdr = k], Handle(k, <<>>, 1, 0)>>
    <3>1. h.tx # "active" /\ h.tx # "done" BY <1>3 DEF NoHeader
    <3> QED BY <1>3, <3>1 DEF OpenBlockFile
  <2> HIDE DEF n, k
  <2> QED BY <2>1, <2>4, <2>5, <2>6
<1>4. CASE h # NoHeader /\ h.tx = "active"
  <2> DEFINE c == CutTail(d)
             idx == rebuildIndex(c, h.dataEnd)
             total == RawOff(c, Len(idx) + 1)
             n == [tx |-> "done", total |-> total, dataEnd |-> Len(idx) + 1, index |-> 0]
  <2>1. c \in File /\ \A q \in DOMAIN c.cells : Below(c.cells[q].ents, q) BY <1>4, CutTailOk
  <2>2. h.dataEnd \in Nat \ {0} BY <1>1, <1>4 DEF FileOk, HeaderOk
  <2>3. /\ idx \in Seq(Entry) /\ Len(idx) <= Len(c.cells) /\ Below(idx, Len(idx) + 1)
        /\ total \in Nat
    <3> HIDE DEF c
    <3> QED BY <2>1, <2>2, RebuildOk
  <2>4. ~Clean(d) BY <1>4 DEF Clean, Indexed
  <2>5. OpenBlockFile(d) = <<[c EXCEPT !.hdr = n], Handle(n, idx, n.dataEnd, total)>>
    BY <1>4 DEF OpenBlockFile
  <2> HIDE DEF c, idx, total
  <2>6. n.dataEnd = Len(idx) + 1 OBVIOUS
  <2>7. Len(idx) + 1 \in Nat BY <2>3
  <2>8. Opened(d, <<[c EXCEPT !.hdr = n], Handle(n, idx, Len(idx) + 1, total)>>)
    BY <2>1, <2>3, <2>4, <2>7, OpenedFresh
  <2> QED BY <2>5, <2>6, <2>8
<1>5. CASE h # NoHeader /\ h.tx = "done" /\ h.index > 0 /\ h.index <= Len(d.cells)
             /\ d.cells[h.index].kind = "index"
  <2> DEFINE idx == d.cells[h.index].ents
  <2>1. h.index \in 1 .. Len(d.cells) /\ h.index <= h.dataEnd /\ h.dataEnd \in Nat
    BY <1>1, <1>5 DEF FileOk, HeaderOk, HeaderType
  <2>2. idx \in Seq(Entry)
    <3>1. d.cells[h.index] \in Cells
      <4> HIDE DEF h
      <4> QED BY <1>1, <2>1
    <3> QED BY <3>1 DEF Cells
  <2>3. Below(idx, h.index) BY <1>1, <1>2, <2>1
  <2>4. Below(idx, h.dataEnd)
    <3> HIDE DEF idx
    <3> QED BY <2>1, <2>3 DEF Below
  <2>5. Indexed(h, d.cells) BY <1>5 DEF Indexed
  <2>6. OpenBlockFile(d) = <<d, Handle(h, idx, h.dataEnd, h.total)>>
    <3>1. h.tx # "active" /\ h.index # 0 BY <1>1, <1>5
    <3> QED BY <1>1, <1>5, <2>1, <3>1 DEF OpenBlockFile
  <2> HIDE DEF idx
  <2> QED BY <1>5, <2>2, <2>4, <2>5, <2>6, OpenedAsIs
<1>6. CASE h # NoHeader /\ h.tx = "done" /\ h.index > 0
             /\ (h.index > Len(d.cells) \/ d.cells[h.index].kind # "index")
  <2> DEFINE idx == rebuildIndex(d, h.dataEnd)
             total == RawOff(d, Len(idx) + 1)
             n == [tx |-> "done", total |-> total, dataEnd |-> Len(idx) + 1, index |-> 0]
             g == [h EXCEPT !.total = total, !.dataEnd = Len(idx) + 1, !.index = 0]
  <2>2. h.dataEnd \in Nat \ {0} /\ h.index \in Nat
    BY <1>1, <1>6 DEF FileOk, HeaderOk, HeaderType
  <2>3. /\ idx \in Seq(Entry) /\ Len(idx) <= Len(d.cells) /\ Below(idx, Len(idx) + 1)
        /\ total \in Nat
    BY <1>1, <2>2, RebuildOk
  <2>4. ~Clean(d) BY <1>1, <1>6, <2>2 DEF Clean, Indexed
  <2>5. OpenBlockFile(d) = <<[d EXCEPT !.hdr = g], Handle(g, idx, 0, 0)>>
    <3>1. h.tx # "active" /\ h.index # 0 BY <1>1, <1>6, <2>2
    <3> QED BY <1>1, <1>6, <2>2, <3>1 DEF OpenBlockFile
  <2> HIDE DEF idx, total
  <2>6. g = n
    <3>1. Len(idx) + 1 \in Nat BY <2>3
    <3>2. g \in HeaderType /\ n \in HeaderType BY <1>1, <2>3, <3>1 DEF HeaderType
    <3>3. g.tx = n.tx /\ g.total = n.total /\ g.dataEnd = n.dataEnd /\ g.index = n.index
      BY <1>1, <1>6 DEF HeaderType
    <3> HIDE DEF g, n
    <3> QED BY <3>2, <3>3 DEF HeaderType
  <2>8. Opened(d, <<[d EXCEPT !.hdr = n], Handle(n, idx, 0, 0)>>)
    BY <1>1, <1>2, <2>3, <2>4, OpenedFresh
  <2> QED BY <2>5, <2>6, <2>8
<1>7. CASE h # NoHeader /\ h.tx = "done" /\ h.index = 0
  <2>1. OpenBlockFile(d) = <<d, Handle(h, <<>>, h.dataEnd, h.total)>>
    <3>1. h.tx # "active" /\ ~(h.index > 0) BY <1>1, <1>7
    <3> QED BY <1>1, <1>7, <3>1 DEF OpenBlockFile
  <2>2. Indexed(h, d.cells) BY <1>7 DEF Indexed
  <2>3. Below(<<>>, h.dataEnd) BY DEF Below
  <2> QED BY <1>7, <2>1, <2>2, <2>3, Empties, OpenedAsIs
<1>8. h # NoHeader => h.tx \in {"active", "done"} /\ h.index \in Nat
  BY <1>1 DEF FileOk, HeaderOk, HeaderType
<1>9. Len(d.cells) \in Nat BY <1>1
<1> QED BY <1>3, <1>4, <1>5, <1>6, <1>7, <1>8, <1>9

\* writeIndexLocked: the index behind the last block, and the header that points to it.
LEMMA WithIndexOk ==
  ASSUME NEW d \in File, \A q \in DOMAIN d.cells : Below(d.cells[q].ents, q),
         NEW m \in Memory, m.hdr.dataEnd \in 1 .. Len(d.cells) + 1, Below(m.idx, m.hdr.dataEnd)
  PROVE  LET w == WithIndex(d, m)
             g == IndexedHeader(m)
         IN /\ w \in File /\ \A q \in DOMAIN w.cells : Below(w.cells[q].ents, q)
            /\ w.hdr = d.hdr /\ Len(d.cells) <= Len(w.cells)
            /\ g \in HeaderType /\ g # NoHeader /\ g.index = g.dataEnd
            /\ g.dataEnd = m.hdr.dataEnd /\ g.total = m.hdr.total
            /\ HeaderOk(g, w.cells) /\ Indexed(g, w.cells)
<1> DEFINE e == m.hdr.dataEnd
           c == Cell("index", <<>>, m.idx)
           w == WithIndex(d, m)
           g == IndexedHeader(m)
<1>1. m.hdr \in HeaderType /\ m.idx \in Seq(Entry) /\ d.cells \in Seq(Cells)
  BY DEF Memory, File
<1>2. e \in 1 .. Len(d.cells) + 1 /\ Below(m.idx, e) OBVIOUS
<1>3. c \in Cells /\ c.ents = m.idx /\ c.kind = "index" BY <1>1, Empties DEF Cell, Cells
<1>4. w = WriteCell(d, e, c) BY DEF WithIndex
<1> HIDE DEF c, e, w
<1>5. /\ w \in File /\ w.hdr = d.hdr /\ w.cells[e] = c
      /\ e <= Len(w.cells) /\ Len(d.cells) <= Len(w.cells)
      /\ \A q \in DOMAIN w.cells : Below(w.cells[q].ents, q)
  BY <1>2, <1>3, <1>4, WriteCellOk
<1>6. g \in HeaderType /\ g.tx = "done" /\ g.index = e /\ g.dataEnd = e /\ g.total = m.hdr.total
  BY <1>1 DEF IndexedHeader, HeaderType, e
<1> HIDE DEF g
<1>7. g # NoHeader BY <1>6 DEF NoHeader
<1>8. w.cells \in Seq(Cells) /\ Len(w.cells) \in Nat BY <1>5 DEF File
<1>9. e \in Nat /\ e >= 1 BY <1>2
<1>10. HeaderOk(g, w.cells) BY <1>5, <1>6, <1>8, <1>9 DEF HeaderOk
<1>11. Indexed(g, w.cells) BY <1>3, <1>5, <1>6 DEF Indexed
<1> QED BY <1>5, <1>6, <1>7, <1>10, <1>11 DEF w, g, e

\* Close leaves a clean file.
LEMMA CloseOnOk ==
  ASSUME NEW d, FileOk(d), NEW m, HandleOk(m, d)
  PROVE  FileOk(CloseOn(d, m)) /\ Clean(CloseOn(d, m))
<1> DEFINE w == WithIndex(d, m)
           g == IndexedHeader(m)
           f == [w EXCEPT !.hdr = g]
<1>1. /\ w \in File /\ \A q \in DOMAIN w.cells : Below(w.cells[q].ents, q)
      /\ g \in HeaderType /\ HeaderOk(g, w.cells) /\ Indexed(g, w.cells)
  BY WithIndexOk DEF FileOk, HandleOk, HeaderOk
<1> HIDE DEF w, g
<1>2. f \in File /\ f.hdr = g /\ f.cells = w.cells BY <1>1 DEF File
<1>3. CloseOn(d, m) = f BY DEF CloseOn, w, g
<1> QED BY <1>1, <1>2, <1>3 DEF FileOk, Clean

\* findBlock is a place of the index, or zero.
LEMMA FindBlockOk ==
  ASSUME NEW idx \in Seq(Entry), NEW off
  PROVE  findBlock(idx, off) \in 0 .. Len(idx)
<1> DEFINE S == {i \in DOMAIN idx : idx[i].raw <= off}
           n == Len(idx)
<1>1. n \in Nat /\ DOMAIN idx = 1 .. n OBVIOUS
<1>2. 1 \in Int /\ n \in Int BY <1>1
<1>3. S \subseteq 1 .. n BY <1>1
<1> HIDE DEF S, n
<1>4. IsFiniteSet(1 .. n) /\ Cardinality(1 .. n) = IF 1 > n THEN 0 ELSE n - 1 + 1
  BY <1>2, FS_Interval
<1>5. IsFiniteSet(S) /\ Cardinality(S) <= Cardinality(1 .. n) BY <1>3, <1>4, FS_Subset
<1>6. Cardinality(S) \in Nat BY <1>5, FS_CardinalityType
<1>7. Cardinality(S) \in 0 .. n BY <1>1, <1>4, <1>5, <1>6
<1> QED BY <1>7 DEF findBlock, S, n

\* The trimmed block: a prefix of a block is a block.
LEMMA PrefixBlock ==
  ASSUME NEW u \in Block, NEW k \in Int, k < Len(u)
  PROVE  SubSeq(u, 1, k) \in Block
<1>1. u \in Seq(Nat) /\ Len(u) <= BlockSize /\ Len(u) \in Nat BY DEF Block
<1>2. SubSeq(u, 1, k) \in Seq(Nat) BY <1>1
<1>3. Len(SubSeq(u, 1, k)) = IF k < 1 THEN 0 ELSE k
  <2>1. CASE k < 1 BY <1>1, <2>1
  <2>2. CASE k >= 1 BY <1>1, <2>2
  <2> QED BY <2>1, <2>2
<1>4. Len(SubSeq(u, 1, k)) <= BlockSize BY <1>1, <1>3
<1> QED BY <1>2, <1>4 DEF Block

\* The file cut to a trimmed block.
LEMMA TrimmedOk ==
  ASSUME NEW d \in File, \A q \in DOMAIN d.cells : Below(d.cells[q].ents, q),
         NEW p \in 1 .. Len(d.cells), NEW u \in Block
  PROVE  LET t == [d EXCEPT !.cells = Append(SubSeq(@, 1, p - 1), Cell("block", u, <<>>))] IN
         /\ t \in File /\ \A q \in DOMAIN t.cells : Below(t.cells[q].ents, q)
         /\ Len(t.cells) = p
<1> DEFINE s == d.cells
           c == Cell("block", u, <<>>)
           a == SubSeq(s, 1, p - 1)
           b == Append(a, c)
           t == [d EXCEPT !.cells = b]
<1>1. s \in Seq(Cells) /\ d.hdr \in HeaderType BY DEF File
<1>2. c \in Cells /\ c.ents = <<>> BY Empties DEF Cell, Cells
<1>3. a \in Seq(Cells) /\ Len(a) = p - 1 /\ \A q \in 1 .. p - 1 : a[q] = s[q]
  <2> HIDE DEF s
  <2> QED BY <1>1 DEF s
<1>4. DOMAIN s = 1 .. Len(s) BY <1>1
<1> HIDE DEF a, c
<1>5. b \in Seq(Cells) /\ Len(b) = p /\ b[p] = c /\ \A q \in 1 .. p - 1 : b[q] = a[q]
  BY <1>2, <1>3
<1>6. ASSUME NEW q \in 1 .. p PROVE Below(b[q].ents, q)
  <2>1. CASE q = p
    <3>1. b[q].ents = <<>> BY <1>2, <1>5, <2>1
    <3> HIDE DEF b
    <3> QED BY <3>1 DEF Below
  <2>2. CASE q # p
    <3>1. q \in 1 .. p - 1 /\ q \in DOMAIN s BY <1>4, <2>2
    <3>2. b[q] = s[q] BY <1>3, <1>5, <3>1
    <3> QED BY <3>1, <3>2
  <2> QED BY <2>1, <2>2
<1>7. DOMAIN b = 1 .. p BY <1>5
<1> HIDE DEF b
<1>8. t \in File /\ t.cells = b BY <1>1, <1>5 DEF File
<1> QED BY <1>5, <1>6, <1>7, <1>8 DEF b, a, c

\* The index cut to its i-th entry, with a new checksum for it.
LEMMA CutIndexOk ==
  ASSUME NEW idx \in Seq(Entry), NEW n \in Nat, Below(idx, n), NEW i \in 1 .. Len(idx), NEW u \in Block
  PROVE  LET y == [SubSeq(idx, 1, i) EXCEPT ![i].crc = u] IN
         y \in Seq(Entry) /\ Below(y, idx[i].comp + 1)
<1> DEFINE x == SubSeq(idx, 1, i)
           y == [x EXCEPT ![i].crc = u]
<1>1. x \in Seq(Entry) /\ Len(x) = i /\ \A j \in 1 .. i : x[j] = idx[j] OBVIOUS
<1> HIDE DEF x
<1>2. DOMAIN x = 1 .. i /\ x \in [1 .. i -> Entry] BY <1>1
<1>3. \A j \in 1 .. i : x[j] \in Entry /\ x[j].comp \in Nat BY <1>2 DEF Entry
<1>4. [x[i] EXCEPT !.crc = u] \in Entry /\ [x[i] EXCEPT !.crc = u].comp = x[i].comp
  <2>1. PICK z : z = x[i] OBVIOUS
  <2>2. z \in Entry BY <1>3, <2>1
  <2>3. [z EXCEPT !.crc = u] \in Entry /\ [z EXCEPT !.crc = u].comp = z.comp BY <2>2 DEF Entry
  <2> QED BY <2>1, <2>3
<1>5. y = [x EXCEPT ![i] = [x[i] EXCEPT !.crc = u]] BY <1>2
<1>6. y \in [1 .. i -> Entry] /\ \A j \in 1 .. i : y[j].comp = x[j].comp
  <2> DEFINE r == [x[i] EXCEPT !.crc = u]
  <2> HIDE DEF r, y
  <2>1. r \in Entry /\ r.comp = x[i].comp BY <1>4 DEF r
  <2>2. y = [x EXCEPT ![i] = r] BY <1>5 DEF r
  <2> QED BY <1>2, <2>1, <2>2
<1> HIDE DEF y
<1>7. y \in Seq(Entry) /\ DOMAIN y = 1 .. i BY <1>6
<1>8. \A j \in 1 .. i : y[j].comp = idx[j].comp /\ idx[j].comp \in Nat BY <1>1, <1>3, <1>6
<1>9. \A j \in 1 .. i : j \in DOMAIN idx OBVIOUS
<1>10. \A j \in 1 .. i : idx[j].comp \in 1 .. (idx[i].comp + 1) - 1
  <2> SUFFICES ASSUME NEW j \in 1 .. i PROVE idx[j].comp \in 1 .. (idx[i].comp + 1) - 1 OBVIOUS
  <2>1. idx[j].comp \in Nat /\ idx[i].comp \in Nat /\ idx[j].comp >= 1 BY <1>8, <1>9 DEF Below
  <2>2. j = i \/ idx[j].comp < idx[i].comp BY <1>9 DEF Below
  <2> QED BY <2>1, <2>2
<1>11. Below(y, idx[i].comp + 1)
  <2>1. \A j \in 1 .. i : y[j].comp \in 1 .. (idx[i].comp + 1) - 1 BY <1>8, <1>10
  <2>2. ASSUME NEW j \in 1 .. i, NEW k \in 1 .. i, j < k PROVE y[j].comp < y[k].comp
    <3>1. idx[j].comp < idx[k].comp BY <1>9, <2>2 DEF Below
    <3> QED BY <1>8, <3>1
  <2> QED BY <1>7, <2>1, <2>2 DEF Below
<1> QED BY <1>7, <1>11 DEF y, x

\* Truncate keeps the file and the handle in agreement.
LEMMA TruncateOk ==
  ASSUME NEW d, FileOk(d), NEW m, HandleOk(m, d), NEW n \in Nat
  PROVE  LET t == Truncate(d, m, n) IN FileOk(t[1]) /\ HandleOk(t[2], t[1])
<1>1. /\ d \in File /\ d.cells \in Seq(Cells) /\ d.hdr \in HeaderType
      /\ \A q \in DOMAIN d.cells : Below(d.cells[q].ents, q)
  BY DEF FileOk, File
<1>2. /\ m \in Memory /\ m.hdr \in HeaderType /\ m.idx \in Seq(Entry)
      /\ HeaderOk(m.hdr, d.cells) /\ Below(m.idx, m.hdr.dataEnd) /\ m.hdr.dataEnd \in Nat
  BY DEF HandleOk, Memory, HeaderType
<1>3. CASE m.idx = <<>> /\ n = 0
  <2> DEFINE h == [m.hdr EXCEPT !.total = 0]
             f == [d EXCEPT !.hdr = h]
             k == [m EXCEPT !.hdr = h, !.size = 0]
  <2>1. h \in HeaderType /\ h.tx = m.hdr.tx /\ h.dataEnd = m.hdr.dataEnd /\ h.index = m.hdr.index
    BY <1>2 DEF HeaderType
  <2>2. Truncate(d, m, n) = <<f, k>> BY <1>3 DEF Truncate
  <2> HIDE DEF h
  <2>3. f \in File /\ f.hdr = h /\ f.cells = d.cells BY <1>1, <2>1 DEF File
  <2>4. k \in Memory /\ k.hdr = h /\ k.idx = m.idx BY <1>2, <2>1 DEF Memory
  <2> HIDE DEF f, k
  <2>5. HeaderOk(h, d.cells) BY <1>2, <2>1 DEF HeaderOk
  <2>6. FileOk(f) BY <1>1, <2>3, <2>5 DEF FileOk
  <2>7. HandleOk(k, f) BY <1>2, <2>1, <2>3, <2>4, <2>5 DEF HandleOk
  <2> QED BY <2>2, <2>6, <2>7
<1>4. CASE m.idx # <<>> /\ n = 0
  <2> DEFINE e == [tx |-> "done", total |-> 0, dataEnd |-> 1, index |-> 0]
             f == [hdr |-> e, cells |-> <<>>]
             k == Handle(e, <<>>, 1, 0)
  <2>1. e \in HeaderType /\ e.tx = "done" /\ e.dataEnd = 1 /\ e.index = 0
    BY NewHeader
  <2>2. Truncate(d, m, n) = <<f, k>> BY <1>4 DEF Truncate
  <2> HIDE DEF e
  <2>3. f \in File /\ f.hdr = e /\ f.cells = <<>> BY <2>1, Empties DEF File
  <2>4. k \in Memory /\ k.hdr = e /\ k.idx = <<>> BY <2>1, Empties DEF Handle, Memory
  <2> HIDE DEF f, k
  <2>5. HeaderOk(e, <<>>) BY <2>1 DEF HeaderOk
  <2>6. FileOk(f) BY <2>3, <2>5 DEF FileOk
  <2>7. Below(<<>>, e.dataEnd) BY DEF Below
  <2>8. HandleOk(k, f) BY <2>3, <2>4, <2>5, <2>7 DEF HandleOk
  <2> QED BY <2>2, <2>6, <2>8
<1> DEFINE i == findBlock(m.idx, n - 1)
<1>5. CASE n > 0 /\ (m.idx = <<>> \/ n >= m.size \/ i = 0)
  <2>1. Truncate(d, m, n) = <<d, m>>
    <3>1. n # 0 BY <1>5
    <3>2. ~(m.idx # <<>> /\ n < m.size /\ i > 0)
      <4>1. i \in Nat BY <1>2, FindBlockOk
      <4>2. m.size \in Nat BY <1>2 DEF Memory
      <4> QED BY <1>5, <4>1, <4>2
    <3> QED BY <1>5, <3>1, <3>2 DEF Truncate
  <2> QED BY <2>1
<1>6. CASE n > 0 /\ m.idx # <<>> /\ n < m.size /\ i > 0
  <2> DEFINE r == m.idx[i]
             inBlock == n - r.raw < Len(r.crc)
             keep == SubSeq(r.crc, 1, n - r.raw)
             trimmed == [d EXCEPT !.cells = Append(SubSeq(@, 1, r.comp - 1),
                                                   Cell("block", keep, <<>>))]
             b == IF inBlock THEN trimmed ELSE d
             h == [m.hdr EXCEPT !.total = n, !.dataEnd = r.comp + 1]
             y == [SubSeq(m.idx, 1, i) EXCEPT ![i].crc = IF inBlock THEN keep ELSE @]
             m2 == [m EXCEPT !.hdr = h, !.size = n, !.wpos = h.dataEnd, !.idx = y]
             g == IndexedHeader(m2)
             m3 == [m2 EXCEPT !.hdr = g]
             w == WithIndex(b, m2)
             f == [w EXCEPT !.hdr = g]
  <2>1. i \in 1 .. Len(m.idx) BY <1>2, <1>6, FindBlockOk
  <2>0. Truncate(d, m, n) = <<f, m3>>
    <3>1. n # 0 /\ ~(n >= m.size) /\ ~(i = 0)
      <4>1. m.size \in Nat BY <1>2 DEF Memory
      <4> HIDE DEF i
      <4> QED BY <1>6, <2>1, <4>1
    <3> DEFINE h0 == [m.hdr EXCEPT !.total = 0]
               empty == [tx |-> "done", total |-> 0, dataEnd |-> HeaderSize, index |-> 0]
               t1 == <<[d EXCEPT !.hdr = h0], [m EXCEPT !.hdr = h0, !.size = 0]>>
               t2 == <<[hdr |-> empty, cells |-> <<>>], Handle(empty, <<>>, HeaderSize, 0)>>
               t4 == <<[w EXCEPT !.hdr = m3.hdr], m3>>
    <3>2. Truncate(d, m, n) = CASE m.idx = <<>> /\ n = 0 -> t1
                                [] m.idx # <<>> /\ n = 0 -> t2
                                [] n > 0 /\ (m.idx = <<>> \/ n >= m.size \/ i = 0) -> <<d, m>>
                                [] n > 0 /\ m.idx # <<>> /\ n < m.size /\ i > 0 -> t4
      BY DEF Truncate
    <3>3. m3.hdr = g
      <4> HIDE DEF g, h, y
      <4> QED BY <1>2 DEF Memory
    <3> HIDE DEF i, t1, t2, t4
    <3>4. Truncate(d, m, n) = t4 BY <1>6, <3>1, <3>2
    <3> QED BY <3>3, <3>4 DEF t4
  <2> HIDE DEF i
  <2>2. r \in Entry /\ r.comp \in 1 .. m.hdr.dataEnd - 1 BY <1>2, <2>1 DEF Below
  <2>3. r.raw \in Nat /\ r.comp \in Nat /\ r.crc \in Block /\ Len(r.crc) \in Nat
    BY <2>2 DEF Entry, Block
  <2>4. r.comp \in 1 .. Len(d.cells)
    <3>1. m.hdr.dataEnd \in 1 .. Len(d.cells) + 1 BY <1>2 DEF HeaderOk
    <3>2. Len(d.cells) \in Nat BY <1>1
    <3> HIDE DEF r
    <3> QED BY <2>2, <2>3, <3>1, <3>2
  <2>5. inBlock => keep \in Block BY <2>3, PrefixBlock
  <2>6. /\ b \in File /\ \A q \in DOMAIN b.cells : Below(b.cells[q].ents, q)
        /\ r.comp <= Len(b.cells)
    <3>1. CASE inBlock
      <4> HIDE DEF keep, inBlock, r
      <4>1. /\ trimmed \in File /\ \A q \in DOMAIN trimmed.cells : Below(trimmed.cells[q].ents, q)
            /\ Len(trimmed.cells) = r.comp
        BY <1>1, <2>4, <2>5, <3>1, TrimmedOk
      <4> HIDE DEF trimmed
      <4> QED BY <2>3, <3>1, <4>1
    <3>2. CASE ~inBlock BY <1>1, <2>4, <3>2
    <3> QED BY <3>1, <3>2
  <2>7. y \in Seq(Entry) /\ Below(y, r.comp + 1)
    <3> DEFINE u == IF inBlock THEN keep ELSE r.crc
    <3>1. u \in Block BY <2>3, <2>5
    <3>2. y = [SubSeq(m.idx, 1, i) EXCEPT ![i].crc = u]
      <4>1. SubSeq(m.idx, 1, i)[i] = m.idx[i] BY <1>2, <2>1
      <4> QED BY <4>1
    <3> HIDE DEF u, y
    <3> QED BY <1>2, <2>1, <3>1, <3>2, CutIndexOk DEF r
  <2> HIDE DEF b, y, r
  <2>8. h \in HeaderType /\ h.tx = m.hdr.tx /\ h.dataEnd = r.comp + 1 /\ h.index = m.hdr.index
    <3>1. r.comp + 1 \in Nat BY <2>3
    <3> QED BY <1>2, <3>1 DEF HeaderType
  <2> HIDE DEF h
  <2>9. m2 \in Memory /\ m2.hdr = h /\ m2.idx = y
    <3>1. h.dataEnd \in Nat BY <2>8 DEF HeaderType
    <3> QED BY <1>2, <2>7, <2>8, <3>1 DEF Memory
  <2> HIDE DEF m2
  <2>10. h.dataEnd \in 1 .. Len(b.cells) + 1 BY <2>3, <2>4, <2>6, <2>8 DEF File
  <2>11. /\ w \in File /\ \A q \in DOMAIN w.cells : Below(w.cells[q].ents, q)
         /\ g \in HeaderType /\ g.dataEnd = h.dataEnd
         /\ HeaderOk(g, w.cells)
    BY <2>6, <2>7, <2>8, <2>9, <2>10, WithIndexOk
  <2> HIDE DEF w, g
  <2>12. f \in File /\ f.hdr = g /\ f.cells = w.cells BY <2>11 DEF File
  <2>13. m3 \in Memory /\ m3.hdr = g /\ m3.idx = y BY <2>9, <2>11 DEF Memory
  <2> HIDE DEF f, m3
  <2>15. FileOk(f) BY <2>11, <2>12 DEF FileOk
  <2>16. HandleOk(m3, f) BY <2>7, <2>8, <2>11, <2>12, <2>13 DEF HandleOk
  <2> QED BY <2>0, <2>15, <2>16
<1>7. i \in Nat /\ m.size \in Nat BY <1>2, FindBlockOk DEF Memory
<1> HIDE DEF i
<1> QED BY <1>3, <1>4, <1>5, <1>6, <1>7 DEF i

\* The rests of the calls, one file write at a time.
LEMMA TodoSteps ==
  ASSUME NEW t \in Forms, t # <<>>
  PROVE  /\ Head(t) = "prefix" =>
              \/ Tail(t) \in {<<"data", "append">>, <<"data", "header", "append">>}
              \/ \E e \in Ends : Tail(t) = <<"data", "index", "header", e>>
         /\ Head(t) = "data" =>
              \/ Tail(t) \in {<<"append">>, <<"header", "append">>}
              \/ \E e \in Ends : Tail(t) = <<"index", "header", e>>
         /\ Head(t) = "index" => \E e \in Ends : Tail(t) = <<"header", e>>
         /\ Head(t) = "header" =>
              \/ t = <<"header", "append">> /\ Tail(t) = <<"append">>
              \/ \E e \in Ends : t = <<"header", e>> /\ Tail(t) = <<e>>
<1>1. CASE t \in InWrite
  <2>1. CASE t = <<"append">> BY <2>1
  <2>2. CASE t = <<"header", "append">> BY <2>2
  <2>3. CASE t = <<"data", "append">> BY <2>3
  <2>4. CASE t = <<"data", "header", "append">> BY <2>4
  <2>5. CASE t = <<"prefix", "data", "append">> BY <2>5
  <2>6. CASE t = <<"prefix", "data", "header", "append">> BY <2>6
  <2> QED BY <1>1, <2>1, <2>2, <2>3, <2>4, <2>5, <2>6 DEF InWrite
<1>2. CASE t \in InEnd
  <2>1. PICK e \in Ends : t \in {<<e>>, <<"header", e>>, <<"index", "header", e>>,
              <<"data", "index", "header", e>>, <<"prefix", "data", "index", "header", e>>}
    BY <1>2 DEF InEnd
  <2>2. CASE t = <<e>> BY <2>2 DEF Ends
  <2>3. CASE t = <<"header", e>> BY <2>3
  <2>4. CASE t = <<"index", "header", e>> BY <2>4
  <2>5. CASE t = <<"data", "index", "header", e>> BY <2>5
  <2>6. CASE t = <<"prefix", "data", "index", "header", e>> BY <2>6
  <2> QED BY <2>1, <2>2, <2>3, <2>4, <2>5, <2>6
<1> QED BY <1>1, <1>2 DEF Forms

\* What TodoOk asks at each place.
LEMMA TodoPlaces ==
  ASSUME NEW t
  PROVE  /\ t \in {<<"data", "append">>, <<"data", "header", "append">>} \cup {<<>>}
              \/ (\E e \in Ends : t = <<"data", "index", "header", e>>)
              \/ (\E e \in Ends : t = <<"index", "header", e>>)
            => /\ t \notin {<<"append">>, <<"header", "append">>}
               /\ t \notin {<<"header", e>> : e \in Ends} \cup {<<e>> : e \in Ends}
         /\ t \in {<<"append">>, <<"header", "append">>}
              => t \notin {<<"header", e>> : e \in Ends} \cup {<<e>> : e \in Ends}
         /\ (\E e \in Ends : t = <<"header", e>>)
              => t \notin {<<"append">>, <<"header", "append">>} \cup {<<e>> : e \in Ends}
         /\ (\E e \in Ends : t = <<e>>) => t \notin {<<"append">>, <<"header", "append">>}
BY DEF Ends

\* A file that grows keeps what a header says of it.
LEMMA HeaderGrows ==
  ASSUME NEW h \in HeaderType, NEW c \in Seq(Cells), NEW b \in Seq(Cells), HeaderOk(h, c),
         Len(c) <= Len(b)
  PROVE  HeaderOk(h, b)
BY DEF HeaderOk, HeaderType

\* Nothing is left to do.
LEMMA TodoNone ==
  ASSUME todo' = <<>>
  PROVE  TodoOk'
<1>1. <<>> \in Forms BY DEF Forms
<1> QED BY <1>1, TodoPlaces DEF TodoOk

\* A block or its prefix is written where the handle stands.
LEMMA CellWritten ==
  ASSUME BInv, state \in {"tx", "idle"}, NEW c \in Cells, c.ents = <<>>,
         disk' = WriteCell(disk, mem.wpos, c)
  PROVE  /\ FileOk(disk') /\ mem.wpos \in 1 .. Len(disk'.cells)
         /\ disk'.cells \in Seq(Cells) /\ Len(disk.cells) <= Len(disk'.cells)
         /\ HandleOk(mem, disk')
<1>1. FileOk(disk) /\ HandleOk(mem, disk) /\ mem.wpos = mem.hdr.dataEnd BY DEF BInv, OpenOk
<1>2. disk \in File /\ mem.wpos \in 1 .. Len(disk.cells) + 1 BY <1>1 DEF FileOk, HandleOk, HeaderOk
<1>3. disk.cells \in Seq(Cells) /\ disk.hdr \in HeaderType BY <1>2 DEF File
<1>4. Below(c.ents, mem.wpos) BY DEF Below
<1>5. /\ disk' \in File /\ disk'.hdr = disk.hdr /\ mem.wpos <= Len(disk'.cells)
      /\ Len(disk.cells) <= Len(disk'.cells)
      /\ \A q \in DOMAIN disk'.cells : Below(disk'.cells[q].ents, q)
  BY <1>1, <1>2, <1>4, WriteCellOk DEF FileOk
<1>6. disk'.cells \in Seq(Cells) BY <1>5 DEF File
<1>7. FileOk(disk') BY <1>1, <1>3, <1>5, <1>6, HeaderGrows DEF FileOk
<1>8. HandleOk(mem, disk')
  <2>1. mem.hdr \in HeaderType BY <1>1 DEF HandleOk, Memory
  <2> QED BY <1>1, <1>3, <1>5, <1>6, <2>1, HeaderGrows DEF HandleOk
<1>9. Len(disk'.cells) \in Nat BY <1>6
<1> QED BY <1>2, <1>5, <1>6, <1>7, <1>8, <1>9

\* A block's prefix is written: a torn cell at the position the handle keeps.
LEMMA WritePrefixInv == ASSUME BInv, WritePrefix PROVE BInv'
<1> USE DEF WritePrefix
<1>1. state \in {"tx", "idle"} BY DEF BInv
<1>2. FileOk(disk') /\ HandleOk(mem, disk') BY <1>1, Empties, CellWritten DEF Torn, Cell
<1>3. todo \in Forms BY <1>1 DEF BInv, OpenOk, TodoOk
<1>4. \/ todo' \in {<<"data", "append">>, <<"data", "header", "append">>}
      \/ \E e \in Ends : todo' = <<"data", "index", "header", e>>
  BY <1>3, TodoSteps
<1>5. todo' \in Forms BY <1>4 DEF Forms, InWrite, InEnd
<1>6. TodoOk' BY <1>4, <1>5, TodoPlaces DEF TodoOk
<1>7. OpenOk' BY <1>1, <1>2, <1>6 DEF BInv, OpenOk
<1> QED BY <1>1, <1>2, <1>7 DEF BInv, history

\* The entry of the block just written is the last of the index.
LEMMA EntryAdded ==
  ASSUME NEW idx \in Seq(Entry), NEW n \in Nat \ {0}, Below(idx, n),
         NEW r \in Entry, r.comp = n
  PROVE  Append(idx, r) \in Seq(Entry) /\ Below(Append(idx, r), n + 1)
<1> DEFINE y == Append(idx, r)
           k == Len(idx)
<1>1. y \in Seq(Entry) /\ Len(y) = k + 1 /\ k \in Nat OBVIOUS
<1>2. DOMAIN y = 1 .. k + 1 BY <1>1
<1>3. DOMAIN idx = 1 .. k OBVIOUS
<1>4. y[k + 1] = r /\ \A j \in 1 .. k : y[j] = idx[j] OBVIOUS
<1>5. \A j \in 1 .. k : idx[j].comp \in Nat
  <2>1. \A j \in 1 .. k : idx[j] \in Entry OBVIOUS
  <2> QED BY <2>1 DEF Entry
<1> HIDE DEF y, k
<1>6. ASSUME NEW j \in 1 .. k + 1 PROVE y[j].comp \in 1 .. (n + 1) - 1
  <2>1. CASE j = k + 1 BY <1>4, <2>1
  <2>2. CASE j \in 1 .. k
    <3>1. y[j] = idx[j] /\ idx[j].comp \in 1 .. n - 1 BY <1>3, <1>4, <2>2 DEF Below
    <3> QED BY <3>1
  <2> QED BY <1>1, <2>1, <2>2
<1>7. ASSUME NEW i \in 1 .. k + 1, NEW j \in 1 .. k + 1, i < j PROVE y[i].comp < y[j].comp
  <2>1. i \in 1 .. k /\ y[i] = idx[i] BY <1>1, <1>4, <1>7
  <2>2. CASE j = k + 1
    <3>1. idx[i].comp \in 1 .. n - 1 BY <1>3, <2>1 DEF Below
    <3> QED BY <1>4, <2>1, <2>2, <3>1
  <2>3. CASE j \in 1 .. k
    <3>1. y[j] = idx[j] /\ idx[i].comp < idx[j].comp BY <1>3, <1>4, <1>7, <2>1, <2>3 DEF Below
    <3> QED BY <2>1, <3>1
  <2> QED BY <1>1, <2>2, <2>3
<1>8. Below(y, n + 1) BY <1>2, <1>6, <1>7 DEF Below
<1> QED BY <1>1, <1>8 DEF y

\* The end of flushBlock.
LEMMA FlushedOk ==
  ASSUME NEW m \in Memory, NEW c \in Seq(Cells), Below(m.idx, m.hdr.dataEnd), m.hdr.tx \in {"active", "done"},
         m.wpos = m.hdr.dataEnd, m.wpos \in 1 .. Len(c), m.hdr.index <= m.hdr.dataEnd,
         m.size = m.hdr.total + Len(m.buf)
  PROVE  LET f == flushed(m) IN
         /\ f \in Memory /\ HeaderOk(f.hdr, c) /\ Below(f.idx, f.hdr.dataEnd)
         /\ f.wpos = f.hdr.dataEnd /\ f.buf = <<>> /\ f.size = f.hdr.total + Len(f.buf)
<1> DEFINE r == [raw |-> m.hdr.total, comp |-> m.wpos, crc |-> m.buf]
           y == Append(m.idx, r)
           h == [m.hdr EXCEPT !.total = @ + Len(m.buf), !.dataEnd = m.wpos + 1]
           g == [m EXCEPT !.idx = y, !.hdr = h, !.wpos = m.wpos + 1, !.buf = <<>>]
<1>1. /\ m.hdr \in HeaderType /\ m.idx \in Seq(Entry) /\ m.buf \in Block /\ m.wpos \in Nat
      /\ m.size \in Nat
  BY DEF Memory
<1>2. m.hdr.total \in Nat /\ m.hdr.index \in Nat /\ m.hdr.dataEnd \in Nat BY <1>1 DEF HeaderType
<1>3. r \in Entry /\ r.comp = m.wpos BY <1>1, <1>2 DEF Entry
<1>4. m.wpos \in Nat \ {0} OBVIOUS
<1> HIDE DEF r
<1>5. y \in Seq(Entry) /\ Below(y, m.wpos + 1) BY <1>1, <1>3, <1>4, EntryAdded
<1>6. Len(m.buf) \in Nat BY <1>1 DEF Block
<1>7. m.hdr.total + Len(m.buf) \in Nat /\ m.wpos + 1 \in Nat BY <1>1, <1>2, <1>6
<1>8. /\ h \in HeaderType /\ h.tx = m.hdr.tx /\ h.index = m.hdr.index
      /\ h.total = m.hdr.total + Len(m.buf) /\ h.dataEnd = m.wpos + 1
  BY <1>1, <1>7 DEF HeaderType
<1> HIDE DEF y, h
<1>9. /\ g \in Memory /\ g.hdr = h /\ g.idx = y /\ g.wpos = m.wpos + 1 /\ g.buf = <<>>
      /\ g.size = m.size
  BY <1>1, <1>5, <1>7, <1>8, Empties DEF Memory
<1>10. flushed(m) = g BY <1>1 DEF flushed, y, r, h, Memory, HeaderType
<1> HIDE DEF g
<1>11. HeaderOk(h, c) BY <1>2, <1>8 DEF HeaderOk
<1>12. g.size = h.total + Len(g.buf) BY <1>1, <1>7, <1>8, <1>9
<1> QED BY <1>5, <1>8, <1>9, <1>10, <1>11, <1>12

\* The block's data follows: the block is in the handle's index.
LEMMA WriteDataInv == ASSUME BInv, WriteData PROVE BInv'
<1> USE DEF WriteData
<1>1. state \in {"tx", "idle"} BY DEF BInv
<1>2. /\ HandleOk(mem, disk) /\ mem.wpos = mem.hdr.dataEnd
      /\ mem.size = mem.hdr.total + Len(mem.buf) /\ todo \in Forms
  BY <1>1 DEF BInv, OpenOk, TodoOk
<1>3. mem \in Memory /\ mem.buf \in Block BY <1>2 DEF HandleOk, Memory
<1>4. Cell("block", mem.buf, <<>>) \in Cells /\ Cell("block", mem.buf, <<>>).ents = <<>>
  BY <1>3, Empties DEF Cell, Cells
<1>5. FileOk(disk') /\ mem.wpos \in 1 .. Len(disk'.cells) /\ disk'.cells \in Seq(Cells)
  BY <1>1, <1>4, CellWritten
<1>6. /\ Below(mem.idx, mem.hdr.dataEnd) /\ mem.hdr.tx \in {"active", "done"}
      /\ mem.hdr.index <= mem.hdr.dataEnd
  BY <1>2 DEF HandleOk, HeaderOk
<1>7. /\ mem' \in Memory /\ HeaderOk(mem'.hdr, disk'.cells) /\ Below(mem'.idx, mem'.hdr.dataEnd)
      /\ mem'.wpos = mem'.hdr.dataEnd /\ mem'.buf = <<>>
      /\ mem'.size = mem'.hdr.total + Len(mem'.buf)
  BY <1>2, <1>3, <1>5, <1>6, FlushedOk
<1>8. \/ todo' \in {<<"append">>, <<"header", "append">>}
      \/ \E e \in Ends : todo' = <<"index", "header", e>>
  BY <1>2, TodoSteps
<1>9. todo' \in Forms BY <1>8 DEF Forms, InWrite, InEnd
<1>10. TodoOk' BY <1>7, <1>8, <1>9, TodoPlaces DEF TodoOk
<1>11. OpenOk' BY <1>7, <1>10 DEF OpenOk, HandleOk
<1> QED BY <1>1, <1>5, <1>11 DEF BInv, history

\* The index is written where the data ends.
LEMMA WriteIndexInv == ASSUME BInv, WriteIndex PROVE BInv'
<1> USE DEF WriteIndex
<1> DEFINE g == IndexedHeader(mem)
<1>1. state \in {"tx", "idle"} BY DEF BInv
<1>2. /\ FileOk(disk) /\ HandleOk(mem, disk) /\ mem.wpos = mem.hdr.dataEnd
      /\ mem.size = mem.hdr.total + Len(mem.buf) /\ todo \in Forms
  BY <1>1 DEF BInv, OpenOk, TodoOk
<1>3. mem \in Memory BY <1>2 DEF HandleOk
<1>4. /\ disk' \in File /\ \A q \in DOMAIN disk'.cells : Below(disk'.cells[q].ents, q)
      /\ disk'.hdr = disk.hdr /\ Len(disk.cells) <= Len(disk'.cells)
      /\ g \in HeaderType /\ g.index = g.dataEnd
      /\ g.dataEnd = mem.hdr.dataEnd /\ g.total = mem.hdr.total
      /\ HeaderOk(g, disk'.cells) /\ Indexed(g, disk'.cells)
  BY <1>2, <1>3, WithIndexOk DEF FileOk, HandleOk, HeaderOk
<1> HIDE DEF g
<1>5. FileOk(disk')
  <2>1. disk.hdr \in HeaderType /\ disk.cells \in Seq(Cells) /\ disk'.cells \in Seq(Cells)
    BY <1>2, <1>4 DEF FileOk, File
  <2> QED BY <1>2, <1>4, <2>1, HeaderGrows DEF FileOk
<1>6. /\ mem' \in Memory /\ mem'.hdr = g /\ mem'.idx = mem.idx /\ mem'.buf = mem.buf
      /\ mem'.wpos = mem.wpos /\ mem'.size = mem.size
  BY <1>3, <1>4 DEF Memory, g
<1>7. \E e \in Ends : todo' = <<"header", e>> BY <1>2, TodoSteps
<1>8. todo' \in Forms BY <1>7 DEF Forms, InWrite, InEnd
<1>9. TodoOk' BY <1>4, <1>6, <1>7, <1>8, TodoPlaces DEF TodoOk
<1>10. OpenOk' BY <1>2, <1>4, <1>6, <1>9 DEF OpenOk, HandleOk
<1> QED BY <1>1, <1>5, <1>10 DEF BInv, history

\* The header on disk is the handle's.
LEMMA WriteHeaderInv == ASSUME BInv, WriteHeader PROVE BInv'
<1> USE DEF WriteHeader
<1>1. state \in {"tx", "idle"} BY DEF BInv
<1>2. FileOk(disk) /\ OpenOk /\ TodoOk /\ HandleOk(mem, disk) /\ todo \in Forms
  BY <1>1 DEF BInv, OpenOk, TodoOk
<1>3. mem.hdr \in HeaderType /\ HeaderOk(mem.hdr, disk.cells) /\ disk \in File
  BY <1>2 DEF HandleOk, Memory, FileOk
<1>4. disk' \in File /\ disk'.hdr = mem.hdr /\ disk'.cells = disk.cells BY <1>3 DEF File
<1>5. FileOk(disk') BY <1>2, <1>3, <1>4 DEF FileOk
<1>6. \/ todo = <<"header", "append">> /\ todo' = <<"append">>
      \/ \E e \in Ends : todo = <<"header", e>> /\ todo' = <<e>>
  BY <1>2, TodoSteps
<1>7. todo' \in Forms BY <1>6 DEF Forms, InWrite, InEnd
<1>8. TodoOk' BY <1>2, <1>4, <1>6, <1>7, TodoPlaces DEF TodoOk
<1>9. OpenOk' BY <1>2, <1>4, <1>8 DEF OpenOk, HandleOk
<1> QED BY <1>1, <1>5, <1>9 DEF BInv, history

\* A unit in the buffer is counted in the size.
LEMMA UnitAdded ==
  ASSUME NEW m \in Memory, Len(m.buf) < BlockSize, nextUnit \in Nat,
         m.size = m.hdr.total + Len(m.buf)
  PROVE  LET a == AppendUnit(m) IN
         /\ a \in Memory /\ a.hdr = m.hdr /\ a.idx = m.idx /\ a.wpos = m.wpos
         /\ a.size = a.hdr.total + Len(a.buf)
<1> DEFINE b == Append(m.buf, nextUnit)
           a == [m EXCEPT !.buf = b, !.size = m.size + 1]
<1>1. m.buf \in Block /\ m.hdr \in HeaderType /\ m.size \in Nat BY DEF Memory
<1>2. m.buf \in Seq(Nat) /\ m.hdr.total \in Nat BY <1>1 DEF Block, HeaderType
<1>3. b \in Seq(Nat) /\ Len(b) = Len(m.buf) + 1 /\ Len(m.buf) \in Nat BY <1>2
<1>4. b \in Block BY <1>3 DEF Block
<1>5. AppendUnit(m) = a BY DEF AppendUnit, Memory
<1> HIDE DEF b
<1>6. /\ a \in Memory /\ a.hdr = m.hdr /\ a.idx = m.idx /\ a.wpos = m.wpos
      /\ a.buf = b /\ a.size = m.size + 1
  <2>1. m.size + 1 \in Nat BY <1>1
  <2> QED BY <1>1, <1>4, <2>1 DEF Memory
<1> HIDE DEF a
<1>7. a.size = a.hdr.total + Len(a.buf)
  <2>1. PICK t \in Nat, l \in Nat : t = m.hdr.total /\ l = Len(m.buf) BY <1>2, <1>3
  <2>2. m.size = t + l BY <2>1
  <2>3. PICK z \in Nat : z = m.size BY <1>1
  <2>4. z + 1 = t + (l + 1) BY <2>2, <2>3
  <2> QED BY <1>3, <1>6, <2>1, <2>3, <2>4
<1> QED BY <1>5, <1>6, <1>7

\* A unit goes into the buffer, or the full buffer is to be flushed first.
LEMMA WriteInv == ASSUME BInv, Write PROVE BInv'
<1> USE DEF Write
<1>1. state = "tx" /\ OpenOk /\ nextUnit \in Nat /\ FileOk(disk) BY DEF BInv
<1>2. /\ mem \in Memory /\ HeaderOk(mem.hdr, disk.cells) /\ Below(mem.idx, mem.hdr.dataEnd)
      /\ mem.wpos = mem.hdr.dataEnd /\ mem.size = mem.hdr.total + Len(mem.buf)
  BY <1>1 DEF OpenOk, HandleOk
<1>3. CASE Len(mem.buf) < BlockSize
  <2>1. mem' = AppendUnit(mem) /\ todo' = <<>> /\ nextUnit' \in Nat BY <1>1, <1>3
  <2>2. /\ mem' \in Memory /\ mem'.hdr = mem.hdr /\ mem'.idx = mem.idx /\ mem'.wpos = mem.wpos
        /\ mem'.size = mem'.hdr.total + Len(mem'.buf)
    BY <1>1, <1>2, <1>3, <2>1, UnitAdded
  <2>3. OpenOk' BY <1>2, <2>1, <2>2, TodoNone DEF OpenOk, HandleOk
  <2> QED BY <1>1, <2>1, <2>3 DEF BInv
<1>4. CASE ~(Len(mem.buf) < BlockSize)
  <2> DEFINE h == [mem.hdr EXCEPT !.tx = "active"]
  <2>1. mem' = [mem EXCEPT !.hdr.tx = "active"] /\ nextUnit' = nextUnit BY <1>4
  <2>2. mem.hdr \in HeaderType /\ mem.buf \in Block BY <1>2 DEF Memory
  <2>3. /\ h \in HeaderType /\ h.tx = "active" /\ h.total = mem.hdr.total
        /\ h.dataEnd = mem.hdr.dataEnd /\ h.index = mem.hdr.index
    BY <2>2 DEF HeaderType
  <2>4. mem' = [mem EXCEPT !.hdr = h] BY <1>2, <2>1 DEF Memory
  <2> HIDE DEF h
  <2>5. /\ mem' \in Memory /\ mem'.hdr = h /\ mem'.idx = mem.idx /\ mem'.wpos = mem.wpos
        /\ mem'.buf = mem.buf /\ mem'.size = mem.size
    BY <1>2, <2>3, <2>4 DEF Memory
  <2>6. mem.buf # <<>> BY <1>4
  <2>7. todo' \in {<<"prefix", "data", "append">>, <<"prefix", "data", "header", "append">>}
    <3>1. flushBlock(mem) = <<"prefix", "data">> BY <2>6 DEF flushBlock
    <3>2. CASE mem.hdr.tx = "done" BY <1>4, <3>1, <3>2
    <3>3. CASE mem.hdr.tx # "done" BY <1>4, <3>1, <3>3
    <3> QED BY <3>2, <3>3
  <2>8. todo' \in Forms BY <2>7 DEF Forms, InWrite
  <2>9. /\ todo' \notin {<<"append">>, <<"header", "append">>}
        /\ todo' \notin {<<"header", e>> : e \in Ends} \cup {<<e>> : e \in Ends}
    BY <2>7 DEF Ends
  <2>10. TodoOk' BY <2>8, <2>9 DEF TodoOk
  <2>11. HeaderOk(h, disk.cells) BY <1>2, <2>3 DEF HeaderOk
  <2>12. OpenOk' BY <1>2, <2>3, <2>5, <2>10, <2>11 DEF OpenOk, HandleOk
  <2> QED BY <1>1, <2>1, <2>12 DEF BInv
<1> QED BY <1>3, <1>4

\* The unit goes into the buffer the flush has emptied.
LEMMA WriteRestInv == ASSUME BInv, WriteRest PROVE BInv'
<1> USE DEF WriteRest
<1>0. todo # <<>> OBVIOUS
<1>1. state \in {"tx", "idle"} /\ OpenOk /\ nextUnit \in Nat /\ FileOk(disk) BY <1>0 DEF BInv
<1>2. /\ mem \in Memory /\ HeaderOk(mem.hdr, disk.cells) /\ Below(mem.idx, mem.hdr.dataEnd)
      /\ mem.wpos = mem.hdr.dataEnd /\ mem.size = mem.hdr.total + Len(mem.buf)
      /\ mem.buf = <<>>
  BY <1>1 DEF OpenOk, HandleOk, TodoOk
<1>3. Len(mem.buf) < BlockSize BY <1>2
<1>4. /\ mem' \in Memory /\ mem'.hdr = mem.hdr /\ mem'.idx = mem.idx /\ mem'.wpos = mem.wpos
      /\ mem'.size = mem'.hdr.total + Len(mem'.buf)
  BY <1>1, <1>2, <1>3, UnitAdded
<1>5. OpenOk' BY <1>2, <1>4, TodoNone DEF OpenOk, HandleOk
<1> QED BY <1>1, <1>5 DEF BInv

\* A Commit or a Close has begun.
LEMMA EndBegun ==
  ASSUME BInv, state \in {"tx", "idle"}, NEW e \in Ends,
         todo' = flushBlock(mem) \o <<"index", "header", e>>,
         UNCHANGED <<disk, mem, state, lastOpenWrtOffset, effective, nextUnit>>
  PROVE  BInv'
<1>1. todo' \in {<<"index", "header", e>>, <<"prefix", "data", "index", "header", e>>}
  <2>1. CASE mem.buf = <<>> BY <2>1 DEF flushBlock
  <2>2. CASE mem.buf # <<>>
    <3>1. todo' = <<"prefix", "data">> \o <<"index", "header", e>> BY <2>2 DEF flushBlock
    <3> DEFINE s == <<"prefix", "data">> \o <<"index", "header", e>>
    <3>2. /\ Len(s) = 5 /\ s[1] = "prefix" /\ s[2] = "data" /\ s[3] = "index"
          /\ s[4] = "header" /\ s[5] = e /\ s \in Seq({"prefix", "data", "index", "header", e})
      OBVIOUS
    <3> HIDE DEF s
    <3>3. s = <<"prefix", "data", "index", "header", e>> BY <3>2
    <3> QED BY <3>1, <3>3 DEF s
  <2> QED BY <2>1, <2>2
<1>2. todo' \in Forms BY <1>1 DEF Forms, InEnd
<1>3. /\ todo' \notin {<<"append">>, <<"header", "append">>}
      /\ todo' \notin {<<"header", x>> : x \in Ends} \cup {<<x>> : x \in Ends}
  BY <1>1 DEF Ends
<1>4. TodoOk' BY <1>2, <1>3 DEF TodoOk
<1>5. OpenOk' BY <1>4 DEF BInv, OpenOk
<1> QED BY <1>5 DEF BInv

\* Commit will flush the buffer, then write the index and the header.
LEMMA CommitInv == ASSUME BInv, Commit PROVE BInv'
BY EndBegun DEF Commit, Ends, history

\* Cleanup does as Commit, then closes the file.
LEMMA CleanupInv == ASSUME BInv, Cleanup PROVE BInv'
BY EndBegun DEF Cleanup, Ends, history

\* The commit is complete: the file is clean.
LEMMA CommitDoneInv == ASSUME BInv, CommitDone PROVE BInv'
<1>1. OpenOk /\ todo' = <<>> BY DEF BInv, CommitDone
<1>2. OpenOk' BY <1>1, TodoNone DEF OpenOk, CommitDone
<1> QED BY <1>2 DEF BInv, CommitDone

\* A file closed between two transactions is clean.
LEMMA CloseDoneInv == ASSUME BInv, CloseDone PROVE BInv'
<1>1. todo = <<"close">> /\ todo' = <<>> /\ mem' = NoHandle /\ disk' = disk
        /\ state' \in {"rotated", "closed"}
  BY DEF CloseDone
<1>2. OpenOk BY <1>1 DEF BInv
<1>3. disk.hdr = mem.hdr /\ Indexed(mem.hdr, disk.cells)
  BY <1>1, <1>2 DEF OpenOk, TodoOk, Ends
<1>4. Clean(disk) BY <1>3 DEF Clean
<1> QED BY <1>1, <1>4 DEF BInv, CloseDone, history

\* A transaction begins with a handle whose positions are set.
LEMMA OpenWriterInv == ASSUME BInv, OpenWriter PROVE BInv'
<1> USE DEF OpenWriter
<1>1. CASE state = "idle"
  <2>1. OpenOk /\ disk' = disk /\ mem' = mem /\ todo' = <<>> /\ state' = "tx"
          /\ lastOpenWrtOffset' = mem.size
    BY <1>1 DEF BInv
  <2>2. mem.size \in Nat BY <2>1 DEF OpenOk, HandleOk, Memory
  <2>3. OpenOk' BY <2>1, TodoNone DEF OpenOk
  <2> QED BY <2>1, <2>2, <2>3 DEF BInv, history
<1>2. CASE state # "idle"
  <2> DEFINE o == OpenBlockFile(disk)
  <2>1. disk' = o[1] /\ mem' = o[2] /\ todo' = <<>> /\ state' = "tx"
          /\ lastOpenWrtOffset' = o[2].size /\ Clean(disk) /\ FileOk(disk)
    BY <1>2 DEF BInv
  <2>2. Opened(disk, o) BY <2>1, OpenBlockFileOk
  <2> HIDE DEF o
  <2>3. /\ FileOk(disk') /\ HandleOk(mem', disk') /\ mem'.buf = <<>>
        /\ mem'.wpos = mem'.hdr.dataEnd /\ mem'.size = mem'.hdr.total
    BY <2>1, <2>2 DEF Opened
  <2>4. mem'.hdr.total \in Nat /\ mem'.size \in Nat
    BY <2>3 DEF HandleOk, Memory, HeaderType
  <2>5. mem'.size = mem'.hdr.total + Len(mem'.buf) BY <2>3, <2>4
  <2>6. OpenOk' BY <2>1, <2>3, <2>5, TodoNone DEF OpenOk
  <2> QED BY <2>1, <2>3, <2>4, <2>6 DEF BInv, history
<1> QED BY <1>1, <1>2

\* The commit of a full segment changes no file.
LEMMA CommitRotatedInv == ASSUME BInv, CommitRotated PROVE BInv'
BY DEF BInv, CommitRotated

\* Opening a file, cutting it and closing it leaves it clean, whatever it was before.
LEMMA ReopenedClean ==
  ASSUME NEW d, FileOk(d), NEW n \in Nat
  PROVE  LET o == OpenBlockFile(d)
             t == Truncate(o[1], o[2], n)
         IN /\ FileOk(CloseOn(t[1], t[2])) /\ Clean(CloseOn(t[1], t[2]))
            /\ FileOk(CloseOn(o[1], o[2])) /\ Clean(CloseOn(o[1], o[2]))
<1> DEFINE o == OpenBlockFile(d)
           t == Truncate(o[1], o[2], n)
<1>1. FileOk(o[1]) /\ HandleOk(o[2], o[1]) BY OpenBlockFileOk DEF Opened
<1> HIDE DEF o
<1>2. FileOk(t[1]) /\ HandleOk(t[2], t[1]) BY <1>1, TruncateOk
<1> HIDE DEF t
<1>3. FileOk(CloseOn(t[1], t[2])) /\ Clean(CloseOn(t[1], t[2])) BY <1>2, CloseOnOk
<1>4. FileOk(CloseOn(o[1], o[2])) /\ Clean(CloseOn(o[1], o[2])) BY <1>1, CloseOnOk
<1> QED BY <1>3, <1>4 DEF t, o

\* A rollback opens, recovers, truncates and closes: the file it leaves is clean.
LEMMA RollbackInv == ASSUME BInv, Rollback PROVE BInv'
<1>1. FileOk(disk) /\ lastOpenWrtOffset \in Nat BY DEF BInv
<1>2. FileOk(disk') /\ Clean(disk') BY <1>1, ReopenedClean DEF Rollback, rolledBack
<1> QED BY <1>2 DEF BInv, Rollback

\* The process stops: the file stays as it is.
LEMMA StoppedInv == ASSUME BInv, Stopped PROVE BInv'
BY DEF BInv, Stopped

\* Inspection opens a reader, which recovers the file.
LEMMA InspectReadInv == ASSUME BInv, InspectRead PROVE BInv'
<1> DEFINE o == OpenBlockFile(disk)
<1>1. FileOk(disk) /\ mem = NoHandle /\ todo = <<>> BY DEF BInv, InspectRead
<1>2. Opened(disk, o) BY <1>1, OpenBlockFileOk
<1>3. disk' = o[1] /\ effective' = Len(ReadUpTo(o[1], o[2].idx, o[2].size))
  BY DEF InspectRead, ScanOpen
<1> HIDE DEF o
<1>4. FileOk(disk') /\ Clean(disk') /\ o[2].size \in Nat
  BY <1>2, <1>3 DEF Opened, HandleOk, Memory
<1>5. effective' \in Nat BY <1>3, <1>4, ReadLength
<1> QED BY <1>1, <1>4, <1>5 DEF BInv, InspectRead, history

\* Inspection cuts the file to what could be read, and closes it.
LEMMA InspectTruncateInv == ASSUME BInv, InspectTruncate PROVE BInv'
<1> DEFINE o == OpenBlockFile(disk)
           t == Truncate(o[1], o[2], effective)
<1>1. FileOk(disk) /\ Clean(disk) /\ effective \in Nat /\ mem = NoHandle /\ todo = <<>>
  BY DEF BInv, InspectTruncate
<1>2. /\ FileOk(CloseOn(t[1], t[2])) /\ Clean(CloseOn(t[1], t[2]))
      /\ FileOk(CloseOn(o[1], o[2])) /\ Clean(CloseOn(o[1], o[2]))
  BY <1>1, ReopenedClean
<1>3. disk' \in {disk, CloseOn(t[1], t[2]), CloseOn(o[1], o[2])} BY DEF InspectTruncate
<1> HIDE DEF o, t
<1>4. FileOk(disk') /\ Clean(disk') BY <1>1, <1>2, <1>3
<1> QED BY <1>1, <1>4 DEF BInv, InspectTruncate, history

\* The new file is empty and no handle is open.
LEMMA InitInv == Init => BInv
<1> SUFFICES ASSUME Init PROVE BInv OBVIOUS
<1>1. NoHeader \in HeaderType BY DEF NoHeader, HeaderType
<1>2. disk \in File BY <1>1, Empties DEF Init, File
<1>3. disk.hdr = NoHeader /\ disk.cells = <<>> BY DEF Init
<1>4. FileOk(disk) BY <1>2, <1>3 DEF FileOk
<1>5. Clean(disk) BY <1>3 DEF Clean
<1> QED BY <1>4, <1>5 DEF Init, BInv

\* BInv is inductive: one step per action.
LEMMA NextInv == BInv /\ [Next]_vars => BInv'
<1> SUFFICES ASSUME BInv, [Next]_vars PROVE BInv' OBVIOUS
<1>1. CASE OpenWriter BY <1>1, OpenWriterInv
<1>2. CASE Write BY <1>2, WriteInv
<1>3. CASE Commit BY <1>3, CommitInv
<1>4. CASE Cleanup BY <1>4, CleanupInv
<1>5. CASE WritePrefix BY <1>5, WritePrefixInv
<1>6. CASE WriteData BY <1>6, WriteDataInv
<1>7. CASE WriteIndex BY <1>7, WriteIndexInv
<1>8. CASE WriteHeader BY <1>8, WriteHeaderInv
<1>9. CASE WriteRest BY <1>9, WriteRestInv
<1>10. CASE CommitDone BY <1>10, CommitDoneInv
<1>11. CASE CloseDone BY <1>11, CloseDoneInv
<1>12. CASE CommitRotated BY <1>12, CommitRotatedInv
<1>13. CASE Rollback BY <1>13, RollbackInv
<1>14. CASE Crash BY <1>14, StoppedInv DEF Crash
<1>15. CASE Shutdown BY <1>15, StoppedInv DEF Shutdown
<1>16. CASE InspectRead BY <1>16, InspectReadInv
<1>17. CASE InspectTruncate BY <1>17, InspectTruncateInv
<1>18. CASE UNCHANGED vars
  <2>1. TodoOk' = TodoOk BY <1>18 DEF vars, TodoOk
  <2>2. OpenOk' = OpenOk BY <1>18, <2>1 DEF vars, OpenOk
  <2> QED BY <1>18, <2>2 DEF vars, BInv
<1> QED BY <1>1, <1>2, <1>3, <1>4, <1>5, <1>6, <1>7, <1>8, <1>9, <1>10, <1>11, <1>12, <1>13,
           <1>14, <1>15, <1>16, <1>17, <1>18 DEF Next

\* The file, its index cells and the handle agree at every instant, through crashes at any
\* write, rollbacks and recoveries.
THEOREM FileInvariance == Spec => []BInv
BY InitInv, NextInv, PTL DEF Spec

\* A block is never written over the file header: no transaction starts on the handle that
\* loadAndRecover leaves unpositioned when the index could not be read.
THEOREM HeaderSafe == Spec => []NeverOverHeader
<1>1. BInv => NeverOverHeader
  <2> SUFFICES ASSUME BInv, state = "tx" PROVE mem.wpos >= 1 BY DEF NeverOverHeader
  <2>1. HandleOk(mem, disk) /\ mem.wpos = mem.hdr.dataEnd BY DEF BInv, OpenOk
  <2>2. mem.hdr.dataEnd \in 1 .. Len(disk.cells) + 1 BY <2>1 DEF HandleOk, HeaderOk
  <2> QED BY <2>1, <2>2
<1> QED BY FileInvariance, <1>1, PTL

\* Types: blocks within the block size, and a size that counts the blocks and the buffer.
THEOREM TypeCorrect == Spec => []TypeOK
<1>1. BInv => TypeOK
  <2> SUFFICES ASSUME BInv PROVE TypeOK OBVIOUS
  <2>1. disk \in File /\ disk.hdr \in HeaderType /\ disk.cells \in Seq(Cells)
    BY DEF BInv, FileOk, File
  <2>2. \A p \in DOMAIN disk.cells : Len(disk.cells[p].units) <= BlockSize
    <3> SUFFICES ASSUME NEW p \in DOMAIN disk.cells
                 PROVE  Len(disk.cells[p].units) <= BlockSize
      OBVIOUS
    <3>1. disk.cells[p] \in Cells BY <2>1
    <3> QED BY <3>1 DEF Cells, Block
  <2>3. /\ mem.hdr \in HeaderType /\ IndexOK(mem.idx) /\ Len(mem.buf) <= BlockSize
        /\ mem.size = mem.hdr.total + Len(mem.buf)
    <3>1. CASE state \in {"tx", "idle"}
      <4>1. mem \in Memory /\ mem.size = mem.hdr.total + Len(mem.buf)
        BY <3>1 DEF BInv, OpenOk, HandleOk
      <4>2. mem.hdr \in HeaderType /\ mem.idx \in Seq(Entry) /\ mem.buf \in Block
        BY <4>1 DEF Memory
      <4>3. \A i \in DOMAIN mem.idx : mem.idx[i] \in Entry BY <4>2
      <4>4. IndexOK(mem.idx) BY <4>3 DEF IndexOK, Entry
      <4> QED BY <4>1, <4>2, <4>4 DEF Block
    <3>2. CASE state \notin {"tx", "idle"}
      <4>1. mem = NoHandle BY <3>2 DEF BInv
      <4> QED BY <4>1 DEF NoHandle, Handle, NoHeader, HeaderType, IndexOK
    <3> QED BY <3>1, <3>2
  <2> QED BY <2>1, <2>2, <2>3 DEF TypeOK, BInv
<1> QED BY FileInvariance, <1>1, PTL

(***************************************************************************)
(* The committed units.  KInv says where each of them is: below DataEnd    *)
(* every cell is a block, an index lists the last blocks there, and a      *)
(* rollback point is a block boundary that no committed unit is above.     *)
(* Exact adds, while nothing has crashed, that the blocks hold the         *)
(* committed units in order and nothing else.                              *)
(***************************************************************************)

\* The units that RawOff counts.
Before(d, p) == {u \in (1 .. p - 1) \X (1 .. BlockSize) : u[2] <= Len(d.cells[u[1]].units)}

\* They are finitely many.
LEMMA BeforeFinite ==
  ASSUME NEW d, NEW p \in Int
  PROVE  IsFiniteSet(Before(d, p)) /\ RawOff(d, p) = Cardinality(Before(d, p))
<1> DEFINE P == (1 .. p - 1) \X (1 .. BlockSize)
<1>1. IsFiniteSet(P)
  <2>0. 1 \in Int /\ p - 1 \in Int /\ BlockSize \in Int OBVIOUS
  <2>1. IsFiniteSet(1 .. p - 1) /\ IsFiniteSet(1 .. BlockSize) BY <2>0, FS_Interval
  <2> QED BY <2>1, FS_Product
<1>2. Before(d, p) \subseteq P BY DEF Before
<1>3. IsFiniteSet(Before(d, p)) BY <1>1, <1>2, FS_Subset
<1> QED BY <1>3 DEF RawOff, Before

\* Nothing lies before the first block.
LEMMA RawOffFirst ==
  ASSUME NEW d
  PROVE  RawOff(d, 1) = 0
<1>1. Before(d, 1) = {} BY DEF Before
<1> QED BY <1>1, BeforeFinite, FS_EmptySet

\* A block starts where the one before it ends.
LEMMA RawOffNext ==
  ASSUME NEW d, NEW p \in Nat \ {0}, d.cells[p].units \in Block
  PROVE  RawOff(d, p + 1) = RawOff(d, p) + Len(d.cells[p].units)
<1> DEFINE n == Len(d.cells[p].units)
           A == {p} \X (1 .. n)
<1>1. n \in Nat /\ n <= BlockSize BY DEF Block
<1>2. Before(d, p + 1) = Before(d, p) \cup A
  <2>1. ASSUME NEW u \in Before(d, p + 1) PROVE u \in Before(d, p) \cup A
    <3>1. u \in (1 .. p) \X (1 .. BlockSize) /\ u[2] <= Len(d.cells[u[1]].units)
      BY <2>1 DEF Before
    <3>2. CASE u[1] = p
      <4>1. u[2] \in 1 .. n BY <1>1, <3>1, <3>2
      <4>2. u = <<p, u[2]>> BY <3>1, <3>2
      <4> QED BY <4>1, <4>2
    <3>3. CASE u[1] # p
      <4>1. u[1] \in 1 .. p - 1 BY <3>1, <3>3
      <4> QED BY <3>1, <4>1 DEF Before
    <3> QED BY <3>2, <3>3
  <2>2. ASSUME NEW u \in Before(d, p) PROVE u \in Before(d, p + 1)
    <3>1. 1 .. p - 1 \subseteq 1 .. p /\ p + 1 - 1 = p OBVIOUS
    <3> QED BY <2>2, <3>1 DEF Before
  <2>3. ASSUME NEW u \in A PROVE u \in Before(d, p + 1)
    <3>1. u[1] = p /\ u[2] \in 1 .. n /\ u = <<u[1], u[2]>> BY <2>3
    <3>2. p \in 1 .. p + 1 - 1 /\ u[2] \in 1 .. BlockSize /\ u[2] <= n BY <1>1, <3>1
    <3> QED BY <3>1, <3>2 DEF Before
  <2> QED BY <2>1, <2>2, <2>3
<1>3. Before(d, p) \cap A = {}
  <2>1. \A u \in Before(d, p) : u[1] # p BY DEF Before
  <2>2. \A u \in A : u[1] = p OBVIOUS
  <2> QED BY <2>1, <2>2
<1>4. IsFiniteSet(A) /\ Cardinality(A) = n
  <2>1. IsFiniteSet({p}) /\ Cardinality({p}) = 1 BY FS_Singleton
  <2>2. IsFiniteSet(1 .. n) /\ Cardinality(1 .. n) = n
    <3>1. 1 \in Int /\ n \in Int BY <1>1
    <3> HIDE DEF n
    <3>2. IsFiniteSet(1 .. n) /\ Cardinality(1 .. n) = IF 1 > n THEN 0 ELSE n - 1 + 1
      BY <3>1, FS_Interval
    <3>3. n \in Nat BY <1>1
    <3> QED BY <3>2, <3>3
  <2>3. IsFiniteSet(A) /\ Cardinality(A) = Cardinality({p}) * Cardinality(1 .. n)
    BY <2>1, <2>2, FS_Product
  <2> QED BY <1>1, <2>1, <2>2, <2>3
<1> HIDE DEF A, n
<1>5. IsFiniteSet(Before(d, p)) /\ p + 1 \in Int BY BeforeFinite
<1>6. Cardinality(Before(d, p) \cup A) =
        Cardinality(Before(d, p)) + Cardinality(A) - Cardinality(Before(d, p) \cap A)
  BY <1>4, <1>5, FS_Union
<1>7. Cardinality(Before(d, p) \cap A) = 0 BY <1>3, FS_EmptySet
<1>8. Cardinality(Before(d, p)) \in Nat BY <1>5, FS_CardinalityType
<1>9. RawOff(d, p + 1) = Cardinality(Before(d, p + 1)) /\ RawOff(d, p) = Cardinality(Before(d, p))
  BY <1>5, BeforeFinite
<1>10. RawOff(d, p + 1) = Cardinality(Before(d, p) \cup A) BY <1>2, <1>9
<1>11. RawOff(d, p + 1) = RawOff(d, p) + n
  <2> DEFINE a == RawOff(d, p)
             b == RawOff(d, p + 1)
  <2>1. b = a + n - 0 /\ a \in Nat BY <1>4, <1>6, <1>7, <1>8, <1>9, <1>10
  <2> HIDE DEF a, b
  <2>2. b = a + n BY <1>1, <2>1
  <2> QED BY <2>2 DEF a, b
<1> QED BY <1>11 DEF n

\* Later blocks start later.
LEMMA RawOffGrows ==
  ASSUME NEW d, NEW p \in Nat, NEW q \in Nat, p <= q
  PROVE  RawOff(d, p) <= RawOff(d, q)
<1>1. Before(d, p) \subseteq Before(d, q)
  <2>1. 1 .. p - 1 \subseteq 1 .. q - 1 OBVIOUS
  <2> QED BY <2>1 DEF Before
<1>2. /\ IsFiniteSet(Before(d, q)) /\ RawOff(d, q) = Cardinality(Before(d, q))
      /\ RawOff(d, p) = Cardinality(Before(d, p))
  BY BeforeFinite
<1> QED BY <1>1, <1>2, FS_Subset

\* Below address e there are blocks, each with units in it.
Solid(d, e) ==
  \A p \in 1 .. e - 1 :
    /\ p \in DOMAIN d.cells /\ d.cells[p].kind = "block" /\ d.cells[p].units \in Block
    /\ Len(d.cells[p].units) > 0
    /\ \A j \in DOMAIN d.cells[p].units : d.cells[p].units[j] # NoUnit

\* The entry of the block at address p.
EntryOf(d, p) == [raw |-> RawOff(d, p), comp |-> p, crc |-> d.cells[p].units]

\* An index lists the last blocks below address e.
Lists(d, idx, e) ==
  Len(idx) < e /\ \A i \in DOMAIN idx : idx[i] = EntryOf(d, e - 1 - Len(idx) + i)

\* What a header says of the blocks.
Counted(d, h) == Solid(d, h.dataEnd) /\ h.total = RawOff(d, h.dataEnd)

\* A unit is in a block below address e.
Stored(d, e, u) ==
  \E p \in 1 .. e - 1 : \E j \in DOMAIN d.cells[p].units : d.cells[p].units[j] = u
StoredAll(d, e, s) == \A i \in DOMAIN s : Stored(d, e, s[i])

\* The blocks below address e are a prefix of s.
Holds(d, e, s) ==
  \A p \in 1 .. e - 1 : \A j \in DOMAIN d.cells[p].units :
    RawOff(d, p) + j \in DOMAIN s /\ d.cells[p].units[j] = s[RawOff(d, p) + j]

\* Two files have the same cells below address e.
Agree(a, b, e) ==
  \A p \in 1 .. e - 1 :
    p \in DOMAIN a.cells /\ p \in DOMAIN b.cells /\ a.cells[p] = b.cells[p]

\* RawOff depends on the cells before its block only.
LEMMA RawOffSame ==
  ASSUME NEW a, NEW b, NEW e \in Nat, Agree(a, b, e), NEW p \in 0 .. e
  PROVE  RawOff(a, p) = RawOff(b, p)
<1>1. \A q \in 1 .. p - 1 : a.cells[q] = b.cells[q]
  <2>1. 1 .. p - 1 \subseteq 1 .. e - 1 OBVIOUS
  <2> QED BY <2>1 DEF Agree
<1>2. Before(a, p) = Before(b, p)
  <2>1. \A u \in (1 .. p - 1) \X (1 .. BlockSize) : a.cells[u[1]] = b.cells[u[1]] BY <1>1
  <2> QED BY <2>1 DEF Before
<1> QED BY <1>2, BeforeFinite

\* So do all statements about the blocks below an address.
LEMMA SameBelow ==
  ASSUME NEW a, NEW b, NEW e \in Nat \ {0}, Agree(a, b, e)
  PROVE  /\ RawOff(a, e) = RawOff(b, e)
         /\ Solid(b, e) => Solid(a, e)
         /\ \A idx \in Seq(Entry) : Lists(b, idx, e) => Lists(a, idx, e)
         /\ \A s : StoredAll(b, e, s) => StoredAll(a, e, s)
         /\ \A s : Holds(b, e, s) => Holds(a, e, s)
<1>0. ASSUME NEW p \in 1 .. e - 1
      PROVE  /\ p \in DOMAIN a.cells /\ a.cells[p] = b.cells[p] /\ RawOff(a, p) = RawOff(b, p)
             /\ EntryOf(a, p) = EntryOf(b, p)
  <2>1. p \in 0 .. e OBVIOUS
  <2>2. RawOff(a, p) = RawOff(b, p) BY <2>1, RawOffSame
  <2>3. p \in DOMAIN a.cells /\ a.cells[p] = b.cells[p] BY DEF Agree
  <2> QED BY <2>2, <2>3 DEF EntryOf
<1>1. RawOff(a, e) = RawOff(b, e)
  <2>1. e \in 0 .. e OBVIOUS
  <2> QED BY <2>1, RawOffSame
<1>2. Solid(b, e) => Solid(a, e) BY <1>0 DEF Solid
<1>3. ASSUME NEW idx \in Seq(Entry), Lists(b, idx, e) PROVE Lists(a, idx, e)
  <2>1. \A i \in DOMAIN idx : e - 1 - Len(idx) + i \in 1 .. e - 1
    <3>1. Len(idx) \in Nat /\ DOMAIN idx = 1 .. Len(idx) /\ Len(idx) < e BY <1>3 DEF Lists
    <3> QED BY <3>1
  <2> QED BY <1>0, <1>3, <2>1 DEF Lists
<1>4. ASSUME NEW s, StoredAll(b, e, s) PROVE StoredAll(a, e, s)
  BY <1>0, <1>4 DEF StoredAll, Stored
<1>5. ASSUME NEW s, Holds(b, e, s) PROVE Holds(a, e, s)
  BY <1>0, <1>5 DEF Holds
<1> QED BY <1>1, <1>2, <1>3, <1>4, <1>5

\* Blocks with units in them start strictly later, at least by their length.
LEMMA RawOffStrict ==
  ASSUME NEW d, NEW e \in Nat \ {0}, Solid(d, e), NEW p \in 1 .. e, NEW q \in 1 .. e, p < q
  PROVE  /\ RawOff(d, p + 1) = RawOff(d, p) + Len(d.cells[p].units)
         /\ RawOff(d, p) + Len(d.cells[p].units) <= RawOff(d, q)
         /\ RawOff(d, p) < RawOff(d, q)
         /\ Len(d.cells[p].units) \in Nat \ {0}
         /\ RawOff(d, p) \in Nat /\ RawOff(d, q) \in Nat
<1>1. p \in 1 .. e - 1 /\ p \in Nat \ {0} /\ p + 1 \in Nat /\ q \in Nat /\ p + 1 <= q OBVIOUS
<1>2. d.cells[p].units \in Block /\ Len(d.cells[p].units) > 0 BY <1>1 DEF Solid
<1>3. Len(d.cells[p].units) \in Nat BY <1>2 DEF Block
<1>4. RawOff(d, p + 1) = RawOff(d, p) + Len(d.cells[p].units) BY <1>1, <1>2, RawOffNext
<1>5. RawOff(d, p + 1) <= RawOff(d, q) BY <1>1, RawOffGrows
<1>6. RawOff(d, p) \in Nat /\ RawOff(d, q) \in Nat BY RawOffNat
<1> QED BY <1>2, <1>3, <1>4, <1>5, <1>6

\* findBlock finds the last block that starts at or before an offset, when the block
\* after it (or the end) starts behind the offset.
LEMMA FindBlockAt ==
  ASSUME NEW d, NEW e \in Nat \ {0}, Solid(d, e), NEW idx \in Seq(Entry), Lists(d, idx, e),
         NEW off \in Int, NEW q \in (e - Len(idx)) .. e, RawOff(d, q) > off,
         q > e - Len(idx) => RawOff(d, q - 1) <= off
  PROVE  findBlock(idx, off) = q - (e - Len(idx))
<1> DEFINE n == Len(idx)
           f == e - n
           S == {i \in DOMAIN idx : idx[i].raw <= off}
<1>1. n \in Nat /\ DOMAIN idx = 1 .. n /\ n < e /\ f \in Nat \ {0} BY DEF Lists
<1>q. q \in f .. e OBVIOUS
<1>h. RawOff(d, q) > off /\ (q > f => RawOff(d, q - 1) <= off) OBVIOUS
<1>f. f = e - n OBVIOUS
<1> HIDE DEF f, n
<1>2. ASSUME NEW i \in 1 .. n
      PROVE  idx[i].raw = RawOff(d, f - 1 + i) /\ f - 1 + i \in 1 .. e
  <2>1. e - 1 - n + i = f - 1 + i /\ f - 1 + i \in 1 .. e BY <1>1, <1>f
  <2>2. idx[i] = EntryOf(d, e - 1 - n + i) BY <1>1 DEF Lists, n
  <2> QED BY <2>1, <2>2 DEF EntryOf
<1>3. S \subseteq 1 .. q - f /\ 1 .. q - f \subseteq S
  <2>1. ASSUME NEW i \in S PROVE i \in 1 .. q - f
    <3>1. i \in 1 .. n /\ RawOff(d, f - 1 + i) <= off /\ f - 1 + i \in 1 .. e BY <1>1, <1>2, <2>1
    <3>2. RawOff(d, f - 1 + i) \in Nat /\ RawOff(d, q) \in Nat /\ q \in Nat
      <4>1. f - 1 + i \in Int /\ q \in Nat BY <1>1, <1>q, <3>1
      <4> QED BY <4>1, RawOffNat
    <3>3. ~(q <= f - 1 + i)
      <4>1. q <= f - 1 + i => RawOff(d, q) <= RawOff(d, f - 1 + i) BY <3>1, <3>2, RawOffGrows
      <4> QED BY <1>h, <3>1, <3>2, <4>1
    <3> QED BY <1>1, <1>q, <3>1, <3>3
  <2>2. ASSUME NEW i \in 1 .. q - f PROVE i \in S
    <3>1. i \in 1 .. n
      <4>1. q - f <= n BY <1>1, <1>q, <1>f
      <4> QED BY <1>1, <1>q, <4>1
    <3>2. idx[i].raw = RawOff(d, f - 1 + i) /\ f - 1 + i \in 1 .. e BY <1>2, <3>1
    <3>3. f - 1 + i <= q - 1 /\ q - 1 \in Nat /\ f - 1 + i \in Nat /\ q > f
      <4> QED BY <1>1, <1>q, <3>1
    <3>4. RawOff(d, f - 1 + i) <= RawOff(d, q - 1) BY <3>3, RawOffGrows
    <3>5. RawOff(d, f - 1 + i) \in Nat /\ RawOff(d, q - 1) \in Nat BY <3>3, RawOffNat
    <3>6. RawOff(d, f - 1 + i) <= off
      <4> QED BY <1>h, <3>3, <3>4, <3>5
    <3> QED BY <1>1, <3>1, <3>2, <3>6
  <2> QED BY <2>1, <2>2
<1>4. Cardinality(1 .. q - f) = q - f
  <2>1. q - f \in Nat BY <1>1, <1>q
  <2>2. 1 \in Int /\ q - f \in Int BY <2>1
  <2>3. Cardinality(1 .. q - f) = IF 1 > q - f THEN 0 ELSE q - f - 1 + 1 BY <2>2, FS_Interval
  <2> QED BY <2>1, <2>3
<1>5. S = 1 .. q - f BY <1>3
<1> QED BY <1>4, <1>5 DEF findBlock, f, n

\* A read below the end, with an index that lists all blocks, finds the unit at its place.
LEMMA ReadAtOk ==
  ASSUME NEW d, NEW e \in Nat \ {0}, Solid(d, e), NEW idx \in Seq(Entry), Lists(d, idx, e),
         Len(idx) = e - 1, NEW off \in 0 .. RawOff(d, e) - 1
  PROVE  \E p \in 1 .. e - 1 : \E j \in DOMAIN d.cells[p].units :
            RawOff(d, p) + j = off + 1 /\ readAt(d, idx, off) = d.cells[p].units[j]
              /\ readAt(d, idx, off) # NoUnit
<1> DEFINE T == {q \in 1 .. e : RawOff(d, q) > off}
<1>0. RawOff(d, e) \in Nat BY RawOffNat
<1>1. T \in SUBSET Nat /\ e \in T BY <1>0
<1>2. PICK q \in T : \A y \in T : q <= y BY <1>1, Least
<1>3. q \in 1 .. e /\ RawOff(d, q) > off BY <1>2
<1>4. q # 1 BY <1>3, RawOffFirst
<1> DEFINE p == q - 1
<1>5. p \in 1 .. e - 1 /\ p \in 1 .. e /\ p < q /\ p + 1 = q BY <1>3, <1>4
<1>6. RawOff(d, p) <= off
  <2>1. p \notin T BY <1>2, <1>5
  <2>2. RawOff(d, p) \in Nat BY <1>5, RawOffNat
  <2>3. ~(RawOff(d, p) > off) BY <1>5, <2>1
  <2> QED BY <2>2, <2>3
<1>7. findBlock(idx, off) = p
  <2>1. e - Len(idx) = 1 OBVIOUS
  <2>2. findBlock(idx, off) = q - (e - Len(idx)) BY <1>3, <1>6, <2>1, FindBlockAt
  <2> QED BY <2>1, <2>2
<1> HIDE DEF p
<1>8. idx[p] = EntryOf(d, p) /\ p \in DOMAIN idx
  <2>1. DOMAIN idx = 1 .. e - 1 /\ e - 1 - Len(idx) + p = p BY <1>5
  <2> QED BY <1>5, <2>1 DEF Lists
<1>9. /\ p \in DOMAIN d.cells /\ d.cells[p].kind = "block"
      /\ d.cells[p].units \in Block
      /\ \A j \in DOMAIN d.cells[p].units : d.cells[p].units[j] # NoUnit
  BY <1>5 DEF Solid
<1>10. RawOff(d, q) = RawOff(d, p) + Len(d.cells[p].units) /\ RawOff(d, p) \in Nat
  BY <1>3, <1>5, RawOffStrict
<1> DEFINE j == off - RawOff(d, p) + 1
<1>11. j \in 1 .. Len(d.cells[p].units)
  <2>1. Len(d.cells[p].units) \in Nat BY <1>9 DEF Block
  <2>2. \A o, s, k \in Nat : s <= o /\ o < s + k => o - s + 1 \in 1 .. k OBVIOUS
  <2>3. off \in Nat /\ off < RawOff(d, p) + Len(d.cells[p].units)
    <3>1. off \in Nat BY <1>0
    <3> QED BY <3>1, <1>3, <1>10, <2>1
  <2> QED BY <2>1, <2>2, <2>3, <1>6, <1>10
<1>12. DOMAIN d.cells[p].units = 1 .. Len(d.cells[p].units) BY <1>9 DEF Block
<1>13. idx[p].raw = RawOff(d, p) /\ idx[p].comp = p /\ idx[p].crc = d.cells[p].units
  BY <1>8 DEF EntryOf
<1>14. readAt(d, idx, off) = d.cells[p].units[j]
  <2>1. p > 0 /\ j <= Len(d.cells[p].units) BY <1>5, <1>11
  <2> QED BY <1>7, <1>9, <1>13, <2>1 DEF readAt
<1>15. RawOff(d, p) + j = off + 1 BY <1>10
<1> QED BY <1>5, <1>9, <1>11, <1>12, <1>14, <1>15

\* A sequential read with an index that lists all blocks delivers everything.
LEMMA ReadAllOk ==
  ASSUME NEW d, NEW e \in Nat \ {0}, Solid(d, e), NEW idx \in Seq(Entry), Lists(d, idx, e),
         Len(idx) = e - 1
  PROVE  /\ Len(ReadUpTo(d, idx, RawOff(d, e))) = RawOff(d, e)
         /\ \A s \in Seq(Nat) : Holds(d, e, s) /\ Len(s) = RawOff(d, e)
              => ReadUpTo(d, idx, RawOff(d, e)) = s
<1> DEFINE n == RawOff(d, e)
           stop == {k \in 0 .. n - 1 : readAt(d, idx, k) = NoUnit}
           r == [k \in 1 .. n |-> readAt(d, idx, k - 1)]
<1>1. n \in Nat BY RawOffNat
<1>2. stop = {}
  <2>1. \A k \in 0 .. n - 1 : readAt(d, idx, k) # NoUnit BY ReadAtOk
  <2> QED BY <2>1
<1>3. ReadUpTo(d, idx, n) = r BY <1>2 DEF ReadUpTo
<1>4. ASSUME NEW s \in Seq(Nat), Holds(d, e, s), Len(s) = n PROVE r = s
  <2>1. ASSUME NEW k \in 1 .. n PROVE r[k] = s[k]
    <3>1. k - 1 \in 0 .. n - 1 /\ k - 1 + 1 = k BY <1>1
    <3>2. PICK p \in 1 .. e - 1 : \E j \in DOMAIN d.cells[p].units :
            RawOff(d, p) + j = k - 1 + 1 /\ readAt(d, idx, k - 1) = d.cells[p].units[j]
      BY <3>1, ReadAtOk
    <3>3. PICK j \in DOMAIN d.cells[p].units :
            RawOff(d, p) + j = k /\ readAt(d, idx, k - 1) = d.cells[p].units[j]
      BY <3>1, <3>2
    <3>4. d.cells[p].units[j] = s[k] BY <1>4, <3>3 DEF Holds
    <3> QED BY <3>3, <3>4
  <2>2. s = [k \in 1 .. n |-> s[k]] BY <1>1, <1>4
  <2> HIDE DEF n
  <2> QED BY <2>1, <2>2
<1>5. Len(r) = n
  <2> HIDE DEF n
  <2> QED BY <1>1
<1> HIDE DEF r
<1> QED BY <1>3, <1>4, <1>5

\* With any index a sequential read delivers everything or nothing.
LEMMA ReadSome ==
  ASSUME NEW d, NEW e \in Nat \ {0}, Solid(d, e), NEW idx \in Seq(Entry), Lists(d, idx, e),
         NEW n \in {0, RawOff(d, e)}
  PROVE  Len(ReadUpTo(d, idx, n)) \in {0, RawOff(d, e)}
<1> DEFINE stop == {k \in 0 .. n - 1 : readAt(d, idx, k) = NoUnit}
           len == IF stop = {} THEN n ELSE CHOOSE k \in stop : \A j \in stop : k <= j
<1>0. RawOff(d, e) \in Nat /\ n \in Nat BY RawOffNat
<1>l. Len(idx) \in Nat /\ Len(idx) < e BY DEF Lists
<1>1. CASE n = 0
  <2>1. stop = {} BY <1>1
  <2>2. len = 0 BY <1>1, <2>1
  <2> HIDE DEF stop, len
  <2>3. Len([k \in 1 .. len |-> readAt(d, idx, k - 1)]) = len BY <2>2
  <2> QED BY <2>2, <2>3 DEF ReadUpTo, stop, len
<1>2. CASE n # 0 /\ Len(idx) = e - 1
  <2>1. n = RawOff(d, e) BY <1>2
  <2> QED BY <1>2, <2>1, ReadAllOk
<1>3. CASE n # 0 /\ Len(idx) # e - 1
  <2> DEFINE q == e - Len(idx)
  <2>1. q \in 1 .. e /\ 1 \in 1 .. e /\ 1 < q /\ q \in q .. e BY <1>3, <1>l
  <2>2. RawOff(d, q) > 0 BY <2>1, RawOffStrict, RawOffFirst
  <2>3. findBlock(idx, 0) = q - q BY <2>1, <2>2, FindBlockAt
  <2>4. findBlock(idx, 0) = 0 BY <2>1, <2>3
  <2>5. readAt(d, idx, 0) = NoUnit BY <2>4 DEF readAt
  <2>6. 0 \in stop BY <1>0, <1>3, <2>5
  <2>7. len = 0
    <3>1. stop \subseteq Nat OBVIOUS
    <3> HIDE DEF stop
    <3>2. PICK c : c = CHOOSE k \in stop : \A j \in stop : k <= j OBVIOUS
    <3>3. \E k \in stop : \A j \in stop : k <= j BY <2>6, <3>1
    <3>4. c \in stop /\ \A j \in stop : c <= j BY <3>2, <3>3
    <3>5. c <= 0 /\ c \in Nat BY <2>6, <3>1, <3>4
    <3> QED BY <2>6, <3>2, <3>5
  <2> HIDE DEF stop, len
  <2>8. Len([k \in 1 .. len |-> readAt(d, idx, k - 1)]) = len BY <2>7
  <2> QED BY <2>7, <2>8 DEF ReadUpTo, stop, len
<1> QED BY <1>1, <1>2, <1>3

\* The index on disk can be read, and what it lists; nothing when it cannot be read.
HasIndex(d) ==
  d.hdr.tx = "done" /\ d.hdr.index > 0 /\ d.hdr.index <= Len(d.cells)
    /\ d.cells[d.hdr.index].kind = "index"
Listed(d) == IF HasIndex(d) THEN d.cells[d.hdr.index].ents ELSE <<>>

\* A header agrees with the blocks and, when it points to an index, with the index.
DiskGood(d) ==
  d.hdr # NoHeader =>
    /\ Counted(d, d.hdr) /\ Lists(d, Listed(d), d.hdr.dataEnd)
    /\ d.hdr.tx = "done" /\ d.hdr.index > 0 => d.hdr.index = d.hdr.dataEnd

\* A scan of blocks lists them all.
LEMMA RebuildAll ==
  ASSUME NEW d \in File, NEW e \in Nat \ {0}, Solid(d, e)
  PROVE  LET idx == rebuildIndex(d, e) IN
         idx \in Seq(Entry) /\ Len(idx) = e - 1 /\ Lists(d, idx, e)
<1>1. Blocks(d, e) = 1 .. e - 1
  <2>1. ASSUME NEW p \in 1 .. e - 1, NEW q \in 1 .. p
        PROVE  q \in DOMAIN d.cells /\ d.cells[q].kind = "block"
    <3>1. q \in 1 .. e - 1 OBVIOUS
    <3> QED BY <3>1 DEF Solid
  <2> QED BY <2>1 DEF Blocks
<1>2. Cardinality(1 .. e - 1) = e - 1
  <2>1. 1 \in Int /\ e - 1 \in Int OBVIOUS
  <2>2. Cardinality(1 .. e - 1) = IF 1 > e - 1 THEN 0 ELSE e - 1 - 1 + 1 BY <2>1, FS_Interval
  <2> QED BY <2>2
<1>3. rebuildIndex(d, e) = [p \in 1 .. e - 1 |-> EntryOf(d, p)]
  BY <1>1, <1>2 DEF rebuildIndex, EntryOf
<1>4. rebuildIndex(d, e) \in Seq(Entry) BY RebuildOk
<1> DEFINE idx == [p \in 1 .. e - 1 |-> EntryOf(d, p)]
<1>5. Len(idx) = e - 1 /\ DOMAIN idx = 1 .. e - 1 OBVIOUS
<1>6. \A i \in 1 .. e - 1 : idx[i] = EntryOf(d, i) OBVIOUS
<1> HIDE DEF idx
<1>7. \A i \in 1 .. e - 1 : e - 1 - Len(idx) + i = i BY <1>5
<1>8. Lists(d, idx, e) BY <1>5, <1>6, <1>7 DEF Lists
<1> QED BY <1>3, <1>4, <1>5, <1>8 DEF idx

\* The four ways to open a file that has a header.
LEMMA OpenCases ==
  ASSUME NEW d, FileOk(d), d.hdr # NoHeader
  PROVE  LET h == d.hdr
             c == CutTail(d)
             i1 == rebuildIndex(c, h.dataEnd)
             n1 == [tx |-> "done", total |-> RawOff(c, Len(i1) + 1), dataEnd |-> Len(i1) + 1,
                    index |-> 0]
             i2 == rebuildIndex(d, h.dataEnd)
             n2 == [h EXCEPT !.total = RawOff(d, Len(i2) + 1), !.dataEnd = Len(i2) + 1, !.index = 0]
         IN \/ h.tx = "active"
               /\ OpenBlockFile(d) = <<[c EXCEPT !.hdr = n1],
                                       Handle(n1, i1, n1.dataEnd, RawOff(c, Len(i1) + 1))>>
            \/ HasIndex(d) /\ OpenBlockFile(d) = <<d, Handle(h, Listed(d), h.dataEnd, h.total)>>
            \/ h.tx = "done" /\ h.index > 0 /\ ~HasIndex(d)
               /\ OpenBlockFile(d) = <<[d EXCEPT !.hdr = n2], Handle(n2, i2, 0, 0)>>
            \/ h.tx = "done" /\ h.index = 0 /\ ~HasIndex(d)
               /\ OpenBlockFile(d) = <<d, Handle(h, Listed(d), h.dataEnd, h.total)>>
<1>1. d.hdr.tx \in {"active", "done"} /\ d.hdr.index \in Nat /\ Len(d.cells) \in Nat
  BY DEF FileOk, HeaderOk, HeaderType, File
<1>2. CASE d.hdr.tx = "active" BY <1>2 DEF OpenBlockFile
<1>3. CASE HasIndex(d)
  <2>1. d.hdr.tx # "active" /\ d.hdr.index # 0 /\ ~(d.hdr.index > Len(d.cells))
    BY <1>1, <1>3 DEF HasIndex
  <2>2. OpenBlockFile(d) = <<d, Handle(d.hdr, d.cells[d.hdr.index].ents, d.hdr.dataEnd, d.hdr.total)>>
    BY <1>3, <2>1 DEF OpenBlockFile, HasIndex
  <2> QED BY <1>3, <2>2 DEF Listed
<1>4. CASE d.hdr.tx = "done" /\ d.hdr.index > 0 /\ ~HasIndex(d)
  <2>1. /\ d.hdr.tx # "active" /\ d.hdr.index # 0
        /\ (d.hdr.index > Len(d.cells) \/ d.cells[d.hdr.index].kind # "index")
        /\ ~(d.hdr.index <= Len(d.cells) /\ d.cells[d.hdr.index].kind = "index")
    BY <1>1, <1>4 DEF HasIndex
  <2> QED BY <1>4, <2>1 DEF OpenBlockFile
<1>5. CASE d.hdr.tx = "done" /\ d.hdr.index = 0
  <2>1. d.hdr.tx # "active" /\ ~(d.hdr.index > 0) /\ ~HasIndex(d) BY <1>1, <1>5 DEF HasIndex
  <2>2. OpenBlockFile(d) = <<d, Handle(d.hdr, <<>>, d.hdr.dataEnd, d.hdr.total)>>
    BY <1>5, <2>1 DEF OpenBlockFile
  <2> QED BY <1>5, <2>1, <2>2 DEF Listed
<1>6. d.hdr.index > 0 \/ d.hdr.index = 0 BY <1>1
<1> QED BY <1>1, <1>2, <1>3, <1>4, <1>5, <1>6

\* An index of no entries lists nothing.
LEMMA ListsNone ==
  ASSUME NEW d, NEW e \in Nat \ {0}
  PROVE  Lists(d, <<>>, e)
BY DEF Lists

\* A file agrees with itself as far as it has cells, and agreement looks at cells only.
LEMMA AgreeSelf ==
  ASSUME NEW d, NEW f, f.cells = d.cells, NEW e, Solid(d, e)
  PROVE  Agree(f, d, e)
BY DEF Agree, Solid

\* loadAndRecover keeps the blocks below DataEnd, and its handle agrees with them.  A
\* file that was closed keeps the index it has; otherwise all blocks are listed again.
LEMMA OpenGood ==
  ASSUME NEW d, FileOk(d), d.hdr # NoHeader, DiskGood(d)
  PROVE  LET o == OpenBlockFile(d) IN
         /\ Agree(o[1], d, d.hdr.dataEnd) /\ o[2].hdr.dataEnd = d.hdr.dataEnd
         /\ o[2].hdr.total = d.hdr.total /\ Counted(o[1], o[2].hdr) /\ DiskGood(o[1])
         /\ o[2].idx \in Seq(Entry) /\ Lists(o[1], o[2].idx, d.hdr.dataEnd)
         /\ \/ /\ o[1] = d /\ o[2].idx = Listed(d) /\ o[2].size = d.hdr.total
               /\ d.hdr.tx = "done" /\ (HasIndex(d) \/ d.hdr.index = 0)
            \/ /\ Len(o[2].idx) = d.hdr.dataEnd - 1 /\ o[2].size \in {0, d.hdr.total}
               /\ d.hdr.tx = "active" => o[2].size = d.hdr.total
               /\ d.hdr.tx = "done" => d.hdr.index > 0 /\ ~HasIndex(d)
<1> DEFINE h == d.hdr
           e == h.dataEnd
<1>1. d \in File /\ h \in HeaderType /\ d.cells \in Seq(Cells) /\ e \in Nat \ {0} /\ h.total \in Nat
  BY DEF FileOk, HeaderOk, File, HeaderType
<1>2. Solid(d, e) /\ h.total = RawOff(d, e) /\ Lists(d, Listed(d), e) BY DEF DiskGood, Counted
<1>3. ASSUME NEW c \in File, Agree(c, d, e),
             NEW n \in HeaderType, n.total = RawOff(c, Len(rebuildIndex(c, e)) + 1),
             n.dataEnd = Len(rebuildIndex(c, e)) + 1, n.index = 0, NEW w, NEW z \in {0, h.total}
      PROVE  LET f == [c EXCEPT !.hdr = n]
                 m == Handle(n, rebuildIndex(c, e), w, z)
             IN /\ Agree(f, d, e) /\ m.hdr.dataEnd = e /\ m.hdr.total = h.total
                /\ Counted(f, m.hdr) /\ DiskGood(f)
                /\ m.idx \in Seq(Entry) /\ Lists(f, m.idx, e) /\ Len(m.idx) = e - 1
                /\ m.size = z
  <2> DEFINE f == [c EXCEPT !.hdr = n]
             idx == rebuildIndex(c, e)
             m == Handle(n, idx, w, z)
  <2> HIDE DEF h, e
  <2>1. Solid(c, e) /\ RawOff(c, e) = RawOff(d, e) BY <1>1, <1>2, <1>3, SameBelow
  <2>2. idx \in Seq(Entry) /\ Len(idx) = e - 1 /\ Lists(c, idx, e)
    BY <1>1, <2>1, RebuildAll
  <2>n. n.total = RawOff(c, Len(idx) + 1) /\ n.dataEnd = Len(idx) + 1 BY <1>3
  <2> HIDE DEF idx
  <2>3. Len(idx) + 1 = e BY <1>1, <2>2
  <2>4. n.dataEnd = e /\ n.total = h.total BY <1>2, <2>1, <2>3, <2>n
  <2>5. f.cells = c.cells /\ f.hdr = n BY DEF File
  <2>6. m.hdr = n /\ m.idx = idx /\ m.size = z BY DEF Handle
  <2> HIDE DEF f, m
  <2>7. Agree(f, d, e) BY <1>3, <2>5 DEF Agree
  <2>8. Agree(f, c, e) BY <2>1, <2>5, AgreeSelf
  <2>9. Solid(f, e) /\ RawOff(f, e) = RawOff(c, e) /\ Lists(f, idx, e)
    BY <1>1, <2>1, <2>2, <2>8, SameBelow
  <2>10. Counted(f, n) BY <1>2, <2>1, <2>4, <2>9 DEF Counted
  <2>11. ~HasIndex(f) BY <1>3, <2>5 DEF HasIndex
  <2>12. Lists(f, Listed(f), e) BY <1>1, <2>11, ListsNone DEF Listed
  <2>13. DiskGood(f)
    <3>1. ~(f.hdr.index > 0) BY <1>3, <2>5
    <3> QED BY <2>4, <2>5, <2>10, <2>12, <3>1 DEF DiskGood
  <2>14. /\ Agree(f, d, e) /\ m.hdr.dataEnd = e /\ m.hdr.total = h.total
         /\ Counted(f, m.hdr) /\ DiskGood(f)
         /\ m.idx \in Seq(Entry) /\ Lists(f, m.idx, e) /\ Len(m.idx) = e - 1 /\ m.size = z
    BY <2>2, <2>4, <2>6, <2>7, <2>9, <2>10, <2>13
  <2> QED BY <2>14 DEF f, m, idx
<1>4. ASSUME h.tx = "done", HasIndex(d) \/ h.index = 0,
             OpenBlockFile(d) = <<d, Handle(h, Listed(d), e, h.total)>>
      PROVE  LET o == OpenBlockFile(d) IN
         /\ Agree(o[1], d, e) /\ o[2].hdr.dataEnd = e
         /\ o[2].hdr.total = h.total /\ Counted(o[1], o[2].hdr) /\ DiskGood(o[1])
         /\ o[2].idx \in Seq(Entry) /\ Lists(o[1], o[2].idx, e)
         /\ o[1] = d /\ o[2].idx = Listed(d) /\ o[2].size = h.total
  <2> DEFINE m == Handle(h, Listed(d), e, h.total)
  <2>1. m.hdr = h /\ m.idx = Listed(d) /\ m.size = h.total BY DEF Handle
  <2> HIDE DEF m
  <2>2. Agree(d, d, e) BY <1>2, AgreeSelf
  <2>3. Listed(d) \in Seq(Entry)
    <3>1. CASE HasIndex(d)
      <4>1. h.index \in 1 .. Len(d.cells) BY <1>1, <3>1 DEF HasIndex, HeaderType
      <4>2. d.cells[h.index] \in Cells
        <5> HIDE DEF h
        <5> QED BY <1>1, <4>1
      <4> QED BY <3>1, <4>2 DEF Listed, Cells
    <3>2. CASE ~HasIndex(d) BY <3>2, Empties DEF Listed
    <3> QED BY <3>1, <3>2
  <2>4. OpenBlockFile(d) = <<d, m>> BY <1>4 DEF m
  <2>5. Counted(d, h) BY <1>2 DEF Counted
  <2> QED BY <1>2, <2>1, <2>2, <2>3, <2>4, <2>5
<1> DEFINE c == CutTail(d)
           i1 == rebuildIndex(c, e)
           n1 == [tx |-> "done", total |-> RawOff(c, Len(i1) + 1), dataEnd |-> Len(i1) + 1,
                  index |-> 0]
           i2 == rebuildIndex(d, e)
           n2 == [h EXCEPT !.total = RawOff(d, Len(i2) + 1), !.dataEnd = Len(i2) + 1, !.index = 0]
<1>5. CASE h.tx = "active" /\ OpenBlockFile(d) = <<[c EXCEPT !.hdr = n1],
                                       Handle(n1, i1, n1.dataEnd, RawOff(c, Len(i1) + 1))>>
  <2>1. /\ c \in File /\ Len(c.cells) = e - 1
        /\ \A q \in DOMAIN c.cells : q \in DOMAIN d.cells /\ c.cells[q] = d.cells[q]
    BY CutTailOk
  <2>2. Agree(c, d, e)
    <3>1. DOMAIN c.cells = 1 .. e - 1 BY <2>1 DEF File
    <3> QED BY <2>1, <3>1 DEF Agree
  <2>h. h.tx = "active" /\ OpenBlockFile(d) = <<[c EXCEPT !.hdr = n1],
                                       Handle(n1, i1, n1.dataEnd, RawOff(c, Len(i1) + 1))>>
    BY <1>5
  <2> HIDE DEF c, h, e
  <2>3. i1 \in Seq(Entry) /\ Len(i1) = e - 1
    <3>1. Solid(c, e) BY <1>1, <1>2, <2>2, SameBelow
    <3> QED BY <1>1, <2>1, <3>1, RebuildAll
  <2> HIDE DEF i1
  <2>4. Len(i1) + 1 \in Nat /\ RawOff(c, Len(i1) + 1) \in Nat /\ Len(i1) + 1 = e
    BY <1>1, <2>3, RawOffNat
  <2>5. RawOff(c, Len(i1) + 1) = h.total
    <3>1. RawOff(c, e) = RawOff(d, e) BY <1>1, <2>2, SameBelow
    <3> QED BY <1>2, <2>4, <3>1
  <2>6. /\ n1 \in HeaderType /\ n1.total = RawOff(c, Len(i1) + 1)
        /\ n1.dataEnd = Len(i1) + 1 /\ n1.index = 0
    BY <2>4, NewHeader
  <2> HIDE DEF n1
  <2> DEFINE z == RawOff(c, Len(i1) + 1)
             w == n1.dataEnd
  <2>z. z \in {0, h.total} /\ z = h.total BY <2>5
  <2> HIDE DEF z, w
  <2>7. LET f == [c EXCEPT !.hdr = n1]
            m == Handle(n1, i1, w, z)
        IN /\ Agree(f, d, e) /\ m.hdr.dataEnd = e /\ m.hdr.total = h.total
           /\ Counted(f, m.hdr) /\ DiskGood(f)
           /\ m.idx \in Seq(Entry) /\ Lists(f, m.idx, e) /\ Len(m.idx) = e - 1 /\ m.size = z
    BY <1>3, <2>1, <2>2, <2>6, <2>z DEF i1
  <2>8. OpenBlockFile(d) = <<[c EXCEPT !.hdr = n1], Handle(n1, i1, w, z)>> BY <2>h DEF z, w
  <2>9. d.hdr.tx = "active" BY <2>h DEF h
  <2> QED BY <2>7, <2>8, <2>9, <2>z DEF e, h
<1>6. CASE h.tx = "done" /\ h.index > 0 /\ ~HasIndex(d)
             /\ OpenBlockFile(d) = <<[d EXCEPT !.hdr = n2], Handle(n2, i2, 0, 0)>>
  <2>h. h.tx = "done" /\ h.index > 0 /\ ~HasIndex(d)
          /\ OpenBlockFile(d) = <<[d EXCEPT !.hdr = n2], Handle(n2, i2, 0, 0)>>
    BY <1>6
  <2>2. Agree(d, d, e) BY <1>2, AgreeSelf
  <2> HIDE DEF h, e
  <2>3. i2 \in Seq(Entry) /\ Len(i2) = e - 1 BY <1>1, <1>2, RebuildAll
  <2> HIDE DEF i2
  <2>4. Len(i2) + 1 \in Nat /\ RawOff(d, Len(i2) + 1) \in Nat BY <2>3, RawOffNat
  <2>6. /\ n2 \in HeaderType /\ n2.total = RawOff(d, Len(i2) + 1)
        /\ n2.dataEnd = Len(i2) + 1 /\ n2.index = 0
    BY <1>1, <2>4 DEF HeaderType
  <2> HIDE DEF n2
  <2>7. LET f == [d EXCEPT !.hdr = n2]
            m == Handle(n2, i2, 0, 0)
        IN /\ Agree(f, d, e) /\ m.hdr.dataEnd = e /\ m.hdr.total = h.total
           /\ Counted(f, m.hdr) /\ DiskGood(f)
           /\ m.idx \in Seq(Entry) /\ Lists(f, m.idx, e) /\ Len(m.idx) = e - 1 /\ m.size = 0
    BY <1>1, <1>3, <2>2, <2>6 DEF i2
  <2>9. d.hdr.tx = "done" /\ d.hdr.index > 0 BY <2>h DEF h
  <2> QED BY <2>7, <2>9, <2>h DEF e, h
<1>7. HasIndex(d) => h.tx = "done" BY DEF HasIndex
<1> HIDE DEF c, i1, n1, i2, n2
<1>8. \/ h.tx = "active" /\ OpenBlockFile(d) = <<[c EXCEPT !.hdr = n1],
                                       Handle(n1, i1, n1.dataEnd, RawOff(c, Len(i1) + 1))>>
      \/ HasIndex(d) /\ OpenBlockFile(d) = <<d, Handle(h, Listed(d), e, h.total)>>
      \/ h.tx = "done" /\ h.index > 0 /\ ~HasIndex(d)
           /\ OpenBlockFile(d) = <<[d EXCEPT !.hdr = n2], Handle(n2, i2, 0, 0)>>
      \/ h.tx = "done" /\ h.index = 0 /\ OpenBlockFile(d) = <<d, Handle(h, Listed(d), e, h.total)>>
  BY OpenCases DEF c, i1, n1, i2, n2
<1> QED BY <1>4, <1>5, <1>6, <1>7, <1>8

\* A write leaves the cells before it alone.
LEMMA WriteAgree ==
  ASSUME NEW d \in File, NEW p \in 1 .. Len(d.cells) + 1, NEW c \in Cells,
         \A q \in DOMAIN d.cells : Below(d.cells[q].ents, q), Below(c.ents, p)
  PROVE  Agree(WriteCell(d, p, c), d, p) /\ WriteCell(d, p, c).cells[p] = c
<1> DEFINE w == WriteCell(d, p, c)
<1>1. /\ w \in File /\ w.cells[p] = c /\ p <= Len(w.cells)
      /\ \A q \in DOMAIN d.cells : q # p => w.cells[q] = d.cells[q]
  BY WriteCellOk
<1>2. d.cells \in Seq(Cells) /\ w.cells \in Seq(Cells) BY <1>1 DEF File
<1> HIDE DEF w
<1>3. \A q \in 1 .. p - 1 : q \in DOMAIN d.cells /\ q \in DOMAIN w.cells /\ q # p BY <1>1, <1>2
<1>4. Agree(w, d, p) BY <1>1, <1>3 DEF Agree
<1> QED BY <1>1, <1>4 DEF w

\* The index of a handle, written behind the blocks it lists.
LEMMA IndexAgree ==
  ASSUME NEW d \in File, \A q \in DOMAIN d.cells : Below(d.cells[q].ents, q),
         NEW m \in Memory, m.hdr.dataEnd \in 1 .. Len(d.cells) + 1, Below(m.idx, m.hdr.dataEnd)
  PROVE  LET w == WithIndex(d, m)
             e == m.hdr.dataEnd
         IN Agree(w, d, e) /\ w.cells[e].kind = "index" /\ w.cells[e].ents = m.idx
              /\ e \in DOMAIN w.cells
<1> DEFINE e == m.hdr.dataEnd
           c == Cell("index", <<>>, m.idx)
<1>1. /\ d \in File /\ e \in 1 .. Len(d.cells) + 1 /\ m.idx \in Seq(Entry) /\ Below(m.idx, e)
      /\ \A q \in DOMAIN d.cells : Below(d.cells[q].ents, q)
  BY DEF Memory
<1>2. c \in Cells /\ c.ents = m.idx /\ c.kind = "index" BY <1>1, Empties DEF Cell, Cells
<1>3. WithIndex(d, m) = WriteCell(d, e, c) BY DEF WithIndex
<1> HIDE DEF c, e
<1>4. Agree(WriteCell(d, e, c), d, e) /\ WriteCell(d, e, c).cells[e] = c
  BY <1>1, <1>2, WriteAgree
<1>5. WriteCell(d, e, c) \in File /\ e <= Len(WriteCell(d, e, c).cells)
  BY <1>1, <1>2, WriteCellOk
<1>6. e \in DOMAIN WriteCell(d, e, c).cells
  <2>1. WriteCell(d, e, c).cells \in Seq(Cells) BY <1>5 DEF File
  <2> QED BY <1>1, <1>5, <2>1
<1> QED BY <1>2, <1>3, <1>4, <1>6 DEF e

\* Close leaves the blocks, and the handle's index behind them.
LEMMA CloseGood ==
  ASSUME NEW d, FileOk(d), NEW m, HandleOk(m, d), Counted(d, m.hdr), Lists(d, m.idx, m.hdr.dataEnd)
  PROVE  LET f == CloseOn(d, m) IN
         /\ Agree(f, d, m.hdr.dataEnd) /\ f.hdr.dataEnd = m.hdr.dataEnd
         /\ f.hdr.total = m.hdr.total /\ f.hdr.tx = "done" /\ f.hdr # NoHeader
         /\ HasIndex(f) /\ Listed(f) = m.idx /\ DiskGood(f)
<1> DEFINE w == WithIndex(d, m)
           g == IndexedHeader(m)
           f == [w EXCEPT !.hdr = g]
           e == m.hdr.dataEnd
<1>2. /\ m \in Memory /\ m.hdr \in HeaderType /\ m.idx \in Seq(Entry) /\ d \in File
      /\ \A q \in DOMAIN d.cells : Below(d.cells[q].ents, q)
      /\ e \in 1 .. Len(d.cells) + 1 /\ Below(m.idx, e)
  BY DEF HandleOk, HeaderOk, Memory, FileOk
<1>1. Agree(w, d, e) /\ w.cells[e].kind = "index" /\ w.cells[e].ents = m.idx /\ e \in DOMAIN w.cells
  BY <1>2, IndexAgree
<1>3. w \in File /\ g \in HeaderType /\ g # NoHeader BY <1>2, WithIndexOk
<1>4. g.tx = "done" /\ g.index = e /\ g.dataEnd = e /\ g.total = m.hdr.total
  BY <1>2 DEF IndexedHeader, HeaderType
<1>5. e \in 1 .. Len(w.cells) /\ e \in Nat \ {0} BY <1>1, <1>2, <1>3 DEF File
<1> HIDE DEF w, g
<1>6. f.hdr = g /\ f.cells = w.cells BY <1>3 DEF File
<1>7. CloseOn(d, m) = f BY DEF CloseOn, w, g
<1> HIDE DEF f
<1>8. HasIndex(f) /\ Listed(f) = m.idx BY <1>1, <1>4, <1>5, <1>6 DEF HasIndex, Listed
<1>9. Agree(f, d, e) BY <1>1, <1>6 DEF Agree
<1>10. Solid(d, e) /\ m.hdr.total = RawOff(d, e) /\ Lists(d, m.idx, e) BY DEF Counted
<1>11. Solid(f, e) /\ RawOff(f, e) = RawOff(d, e) /\ Lists(f, m.idx, e)
  <2> HIDE DEF e
  <2> QED BY <1>2, <1>5, <1>9, <1>10, SameBelow
<1>12. DiskGood(f) BY <1>4, <1>6, <1>8, <1>10, <1>11 DEF DiskGood, Counted
<1> QED BY <1>3, <1>4, <1>6, <1>7, <1>8, <1>9, <1>12

\* Truncate to the start of the block at address b, as RollbackLastCommit calls it: the
\* blocks before b stay, and the file ends there unless its index lists none of them or
\* the handle does not know its size.
LEMMA TruncateGood ==
  ASSUME NEW d, FileOk(d), NEW m, HandleOk(m, d), Counted(d, m.hdr),
         Lists(d, m.idx, m.hdr.dataEnd), NEW b \in 1 .. m.hdr.dataEnd,
         m.hdr.dataEnd - Len(m.idx) <= b, m.size \in {0, m.hdr.total}
  PROVE  LET t == Truncate(d, m, RawOff(d, b))
             e == t[2].hdr.dataEnd
         IN /\ e \in b .. m.hdr.dataEnd /\ Agree(t[1], d, b) /\ Counted(t[1], t[2].hdr)
            /\ Lists(t[1], t[2].idx, e)
            /\ m.size = m.hdr.total /\ Len(m.idx) = m.hdr.dataEnd - 1 =>
                 e = b /\ Len(t[2].idx) = e - 1
            /\ m.hdr.dataEnd = b /\ Len(m.idx) = b - 1 => e = b /\ Len(t[2].idx) = e - 1
<1> DEFINE n == RawOff(d, b)
           a == m.hdr.dataEnd
           i == findBlock(m.idx, n - 1)
<1>1. /\ m \in Memory /\ m.hdr \in HeaderType /\ m.idx \in Seq(Entry) /\ d \in File
      /\ a \in Nat \ {0} /\ a \in 1 .. Len(d.cells) + 1
      /\ d.cells \in Seq(Cells) /\ Len(m.idx) \in Nat /\ m.size \in Nat
  BY DEF HandleOk, HeaderOk, HeaderType, Memory, FileOk, File
<1>2. Solid(d, a) /\ m.hdr.total = RawOff(d, a) /\ Lists(d, m.idx, a) /\ Len(m.idx) < a
  BY DEF Counted, Lists
<1>3. n \in Nat /\ RawOff(d, a) \in Nat /\ b \in Nat \ {0} BY <1>1, RawOffNat
<1>4. Agree(d, d, b)
  <2>1. Solid(d, b)
    <3>1. 1 .. b - 1 \subseteq 1 .. a - 1 BY <1>1
    <3> QED BY <1>2, <3>1 DEF Solid
  <2> QED BY <2>1, AgreeSelf
<1>5. b # 1 => n > 0 /\ n > RawOff(d, b - 1) /\ n = RawOff(d, b - 1) + Len(d.cells[b - 1].units)
  <2> SUFFICES ASSUME b # 1 PROVE n > 0 /\ n > RawOff(d, b - 1)
                                   /\ n = RawOff(d, b - 1) + Len(d.cells[b - 1].units)
    OBVIOUS
  <2>1. b - 1 \in 1 .. a /\ b \in 1 .. a /\ b - 1 < b /\ b - 1 + 1 = b BY <1>1, <1>3
  <2>2. /\ RawOff(d, b) = RawOff(d, b - 1) + Len(d.cells[b - 1].units)
        /\ RawOff(d, b - 1) < RawOff(d, b) /\ RawOff(d, b - 1) \in Nat
    BY <1>1, <1>2, <2>1, RawOffStrict
  <2> QED BY <1>3, <2>2
<1>6. b = 1 => n = 0 BY RawOffFirst
<1>7. b # a => n < RawOff(d, a)
  <2>1. b # a => b < a /\ a \in 1 .. a /\ b \in 1 .. a BY <1>1, <1>3
  <2> QED BY <1>1, <1>2, <2>1, RawOffStrict
<1>i. n > 0 => i = b - (a - Len(m.idx))
  <2> SUFFICES ASSUME n > 0 PROVE i = b - (a - Len(m.idx)) OBVIOUS
  <2>1. b # 1 BY <1>6
  <2>2. n - 1 \in Int /\ n > n - 1 /\ RawOff(d, b - 1) <= n - 1
    <3>1. RawOff(d, b - 1) \in Nat BY <1>3, RawOffNat
    <3> HIDE DEF n
    <3> QED BY <1>3, <1>5, <2>1, <3>1
  <2>3. b \in (a - Len(m.idx)) .. a BY <1>1, <1>3
  <2> QED BY <1>1, <1>2, <2>2, <2>3, FindBlockAt
<1>8. CASE m.idx = <<>> /\ n = 0
  <2> DEFINE h == [m.hdr EXCEPT !.total = 0]
             f == [d EXCEPT !.hdr = h]
             k == [m EXCEPT !.hdr = h, !.size = 0]
  <2>1. h.total = 0 /\ h.dataEnd = a BY <1>1 DEF HeaderType
  <2>2. Truncate(d, m, n) = <<f, k>> BY <1>8 DEF Truncate
  <2> HIDE DEF h
  <2>3. f.cells = d.cells BY <1>1 DEF File
  <2>4. k.hdr = h /\ k.idx = m.idx BY <1>1 DEF Memory
  <2>5. b = 1
    <3> HIDE DEF n
    <3> QED BY <1>3, <1>5, <1>8
  <2>6. Len(m.idx) = 0 /\ a = 1 BY <1>1, <1>8, <2>5
  <2> HIDE DEF f, k
  <2>7. Agree(f, d, 1) /\ Solid(f, 1) BY DEF Agree, Solid
  <2>8. RawOff(f, 1) = 0 BY RawOffFirst
  <2>9. Counted(f, h) BY <2>1, <2>6, <2>7, <2>8 DEF Counted
  <2>10. Lists(f, m.idx, 1) BY <1>8, ListsNone
  <2> QED BY <1>3, <2>1, <2>2, <2>4, <2>5, <2>6, <2>7, <2>9, <2>10
<1>9. CASE m.idx # <<>> /\ n = 0
  <2> DEFINE g == [tx |-> "done", total |-> 0, dataEnd |-> 1, index |-> 0]
             f == [hdr |-> g, cells |-> <<>>]
             k == Handle(g, <<>>, 1, 0)
  <2>1. g.total = 0 /\ g.dataEnd = 1 OBVIOUS
  <2>2. Truncate(d, m, n) = <<f, k>> BY <1>9 DEF Truncate
  <2> HIDE DEF g
  <2>4. k.hdr = g /\ k.idx = <<>> BY DEF Handle
  <2>5. b = 1
    <3> HIDE DEF n
    <3> QED BY <1>3, <1>5, <1>9
  <2> HIDE DEF f, k
  <2>7. Agree(f, d, 1) /\ Solid(f, 1) BY DEF Agree, Solid
  <2>8. RawOff(f, 1) = 0 BY RawOffFirst
  <2>9. Counted(f, g) BY <2>1, <2>7, <2>8 DEF Counted
  <2>10. Lists(f, <<>>, 1) BY ListsNone
  <2>11. Len(<<>>) = 1 - 1 /\ 1 \in b .. a BY <1>1, <2>5
  <2> QED BY <2>1, <2>2, <2>4, <2>5, <2>7, <2>9, <2>10, <2>11
<1>10. CASE n > 0 /\ (m.idx = <<>> \/ n >= m.size \/ i = 0)
  <2>1. Truncate(d, m, n) = <<d, m>>
    <3>1. n # 0 BY <1>10
    <3>2. ~(m.idx # <<>> /\ n < m.size /\ i > 0)
      <4>1. i \in Nat BY <1>1, FindBlockOk
      <4> HIDE DEF i, n
      <4> QED BY <1>1, <1>3, <1>10, <4>1
    <3> QED BY <1>10, <3>1, <3>2 DEF Truncate
  <2>2. b # 1 BY <1>6, <1>10
  <2>3. ASSUME m.size = m.hdr.total, Len(m.idx) = a - 1 PROVE a = b
    <3>1. m.idx # <<>>
      <4>1. a # 1 BY <1>1, <1>3, <2>2
      <4> QED BY <1>1, <2>3, <4>1
    <3>2. i # 0
      <4>1. i = b - 1 BY <1>1, <1>10, <1>i, <2>3
      <4> HIDE DEF i
      <4> QED BY <1>3, <2>2, <4>1
    <3>3. n >= RawOff(d, a) BY <1>2, <1>10, <2>3, <3>1, <3>2
    <3> HIDE DEF n
    <3> QED BY <1>3, <1>7, <3>3
  <2>4. a \in b .. a BY <1>1, <1>3
  <2> HIDE DEF n
  <2> QED BY <1>2, <1>4, <2>1, <2>3, <2>4 DEF n
<1>11. CASE n > 0 /\ m.idx # <<>> /\ n < m.size /\ i > 0
  <2> DEFINE r == m.idx[i]
             inBlock == n - r.raw < Len(r.crc)
             keep == SubSeq(r.crc, 1, n - r.raw)
             trimmed == [d EXCEPT !.cells = Append(SubSeq(@, 1, r.comp - 1),
                                                   Cell("block", keep, <<>>))]
             y == [SubSeq(m.idx, 1, i) EXCEPT ![i].crc = IF inBlock THEN keep ELSE @]
             x == SubSeq(m.idx, 1, i)
             h == [m.hdr EXCEPT !.total = n, !.dataEnd = r.comp + 1]
             m2 == [m EXCEPT !.hdr = h, !.size = n, !.wpos = h.dataEnd, !.idx = y]
             g == IndexedHeader(m2)
             m3 == [m2 EXCEPT !.hdr = g]
             w == WithIndex(IF inBlock THEN trimmed ELSE d, m2)
             f == [w EXCEPT !.hdr = g]
  <2>1. i \in 1 .. Len(m.idx) /\ i = b - (a - Len(m.idx)) BY <1>1, <1>11, <1>i, FindBlockOk
  <2>0. Truncate(d, m, n) = <<f, m3>>
    <3>1. n # 0 /\ ~(n >= m.size) /\ ~(i = 0)
      <4> HIDE DEF i, n
      <4> QED BY <1>1, <1>3, <1>11, <2>1
    <3> DEFINE h0 == [m.hdr EXCEPT !.total = 0]
               empty == [tx |-> "done", total |-> 0, dataEnd |-> HeaderSize, index |-> 0]
               t1 == <<[d EXCEPT !.hdr = h0], [m EXCEPT !.hdr = h0, !.size = 0]>>
               t2 == <<[hdr |-> empty, cells |-> <<>>], Handle(empty, <<>>, HeaderSize, 0)>>
               t4 == <<[w EXCEPT !.hdr = m3.hdr], m3>>
    <3>2. Truncate(d, m, n) = CASE m.idx = <<>> /\ n = 0 -> t1
                                [] m.idx # <<>> /\ n = 0 -> t2
                                [] n > 0 /\ (m.idx = <<>> \/ n >= m.size \/ i = 0) -> <<d, m>>
                                [] n > 0 /\ m.idx # <<>> /\ n < m.size /\ i > 0 -> t4
      BY DEF Truncate
    <3>3. m3.hdr = g
      <4> HIDE DEF g, h, y, n
      <4> QED BY <1>1 DEF Memory
    <3> HIDE DEF i, t1, t2, t4, n
    <3>4. Truncate(d, m, n) = t4 BY <1>11, <3>1, <3>2
    <3> QED BY <3>3, <3>4 DEF t4
  <2>2. b # 1 BY <1>6, <1>11
  <2>s. n < RawOff(d, a) /\ b # a
    <3>1. m.size = RawOff(d, a)
      <4> HIDE DEF n
      <4> QED BY <1>2, <1>3, <1>11
    <3>2. n < RawOff(d, a) BY <1>11, <3>1
    <3> HIDE DEF n
    <3>3. b = a => n = RawOff(d, a) BY DEF n
    <3> QED BY <1>3, <3>2, <3>3
  <2> HIDE DEF i
  <2>a. i \in Nat /\ i >= 1 /\ i <= Len(m.idx) /\ Len(m.idx) \in Nat /\ a \in Nat /\ b \in Nat
    <3>1. Len(m.idx) \in Nat /\ a \in Nat BY <1>1
    <3> QED BY <1>3, <2>1, <3>1
  <2>b. a - 1 - Len(m.idx) + i = b - 1
    <3>1. \A u, v, l, k \in Nat : k = v - (u - l) => u - 1 - l + k = v - 1 OBVIOUS
    <3>2. i = b - (a - Len(m.idx)) BY <2>1
    <3> DEFINE l == Len(m.idx)
    <3>3. a \in Nat /\ b \in Nat /\ l \in Nat /\ i \in Nat /\ i = b - (a - l) BY <2>a, <3>2
    <3> HIDE DEF a, l
    <3>4. a - 1 - l + i = b - 1 BY <3>1, <3>3
    <3> QED BY <3>4 DEF l
  <2>3. r = EntryOf(d, b - 1)
    <3>0. i \in DOMAIN m.idx BY <1>1, <2>1
    <3>1. m.idx[i] = EntryOf(d, a - 1 - Len(m.idx) + i) BY <3>0, <1>2 DEF Lists
    <3> QED BY <2>b, <3>1
  <2>4. r.raw = RawOff(d, b - 1) /\ r.comp = b - 1 /\ r.crc = d.cells[b - 1].units
    <3> HIDE DEF r
    <3> QED BY <2>3 DEF EntryOf
  <2>5. ~inBlock
    <3>1. d.cells[b - 1].units \in Block
      <4>1. b - 1 \in 1 .. a - 1 BY <1>1, <1>3, <2>2
      <4> QED BY <1>2, <4>1 DEF Solid
    <3>2. Len(r.crc) \in Nat /\ r.raw \in Nat BY <1>3, <2>4, <3>1, RawOffNat DEF Block
    <3>3. n = r.raw + Len(r.crc) BY <1>5, <2>2, <2>4
    <3> HIDE DEF n, r
    <3> QED BY <3>2, <3>3
  <2> HIDE DEF inBlock, keep, trimmed
  <2>6. x \in Seq(Entry) /\ Len(x) = i /\ i \in Nat /\ \A j \in 1 .. i : x[j] = m.idx[j]
    <3>1. \A s \in Seq(Entry) : \A k \in 1 .. Len(s) :
            /\ SubSeq(s, 1, k) \in Seq(Entry) /\ Len(SubSeq(s, 1, k)) = k
            /\ \A j \in 1 .. k : SubSeq(s, 1, k)[j] = s[j]
      OBVIOUS
    <3>2. m.idx \in Seq(Entry) BY <1>1
    <3> QED BY <2>1, <2>a, <3>1, <3>2
  <2>7. y = x
    <3>1. x \in [1 .. i -> Entry]
      <4> HIDE DEF x
      <4> QED BY <2>6
    <3>2. y = [x EXCEPT ![i].crc = x[i].crc] BY <2>5
    <3>3. i \in 1 .. i /\ x[i] \in Entry
      <4> HIDE DEF x
      <4> QED BY <2>a, <3>1
    <3>4. [x[i] EXCEPT !.crc = x[i].crc] = x[i] BY <3>3 DEF Entry
    <3>5. y = [x EXCEPT ![i] = [x[i] EXCEPT !.crc = x[i].crc]] BY <3>1, <3>2
    <3> HIDE DEF x, y
    <3> QED BY <3>1, <3>3, <3>4, <3>5
  <2>8. Below(x, b)
    <3>1. Below(m.idx, a) BY DEF HandleOk
    <3>2. r.crc \in Block
      <4>1. \A s \in Seq(Entry) : \A k \in 1 .. Len(s) : s[k] \in Entry OBVIOUS
      <4>2. r \in Entry BY <1>1, <2>1, <4>1
      <4> QED BY <4>2 DEF Entry
    <3>3. Below([x EXCEPT ![i].crc = r.crc], r.comp + 1) BY <1>1, <2>1, <3>1, <3>2, CutIndexOk
    <3>4. y = [x EXCEPT ![i].crc = r.crc]
      <4>1. x[i] = r BY <2>1, <2>6
      <4> QED BY <2>5, <4>1
    <3>5. r.comp + 1 = b BY <1>3, <2>4
    <3> QED BY <2>7, <3>3, <3>4, <3>5
  <2> HIDE DEF x, y, r, n
  <2>9. h \in HeaderType /\ h.dataEnd = b /\ h.total = n
    <3>1. r.comp + 1 = b BY <1>3, <2>4
    <3> QED BY <1>1, <1>3, <3>1 DEF HeaderType
  <2> HIDE DEF h
  <2>10. m2 \in Memory /\ m2.hdr = h /\ m2.idx = x
    <3>1. h.dataEnd \in Nat BY <1>3, <2>9
    <3> QED BY <1>1, <1>3, <2>6, <2>7, <2>9, <3>1 DEF Memory
  <2> HIDE DEF m2
  <2>11. w = WithIndex(d, m2) BY <2>5
  <2>12. b \in 1 .. Len(d.cells) + 1 /\ \A q \in DOMAIN d.cells : Below(d.cells[q].ents, q)
    <3>1. Len(d.cells) \in Nat BY <1>1
    <3> QED BY <1>1, <1>3, <3>1 DEF FileOk
  <2>13. Agree(w, d, b) BY <1>1, <2>8, <2>9, <2>10, <2>11, <2>12, IndexAgree
  <2>14. w \in File /\ g.dataEnd = b /\ g.total = n
    BY <1>1, <2>8, <2>9, <2>10, <2>11, <2>12, WithIndexOk
  <2> HIDE DEF w, g
  <2>15. f.cells = w.cells BY <2>14 DEF File
  <2>16. m3.hdr = g /\ m3.idx = x BY <2>10 DEF Memory
  <2> HIDE DEF f, m3
  <2>17. Agree(f, d, b) BY <2>13, <2>15 DEF Agree
  <2>18. Solid(d, b)
    <3>1. 1 .. b - 1 \subseteq 1 .. a - 1 BY <1>1
    <3> QED BY <1>2, <3>1 DEF Solid
  <2>19. Lists(d, x, b)
    <3>1. i < b BY <1>1, <1>2, <1>3, <2>1
    <3>0. \A v, c, k \in Int : c + k = v => v - k = c OBVIOUS
    <3>5. b - 1 \in Int /\ a - 1 - Len(m.idx) \in Int /\ i \in Int BY <2>a
    <3>4. b - 1 - i = a - 1 - Len(m.idx) BY <2>b, <3>0, <3>5
    <3>2. ASSUME NEW j \in 1 .. i PROVE x[j] = EntryOf(d, b - 1 - Len(x) + j)
      <4>1. j \in DOMAIN m.idx BY <1>1, <2>1
      <4>2. m.idx[j] = EntryOf(d, a - 1 - Len(m.idx) + j) BY <1>2, <4>1 DEF Lists
      <4>4. b - 1 - i + j = a - 1 - Len(m.idx) + j BY <3>4
      <4> QED BY <2>6, <4>2, <4>4
    <3>3. DOMAIN x = 1 .. i BY <2>6
    <3> QED BY <2>6, <3>1, <3>2, <3>3 DEF Lists
  <2>20. Solid(f, b) /\ RawOff(f, b) = n /\ Lists(f, x, b)
    BY <1>3, <2>6, <2>17, <2>18, <2>19, SameBelow DEF n
  <2>21. Counted(f, g) BY <2>14, <2>20 DEF Counted
  <2>22. Len(m.idx) = a - 1 => Len(x) = b - 1
    <3>1. \A u, v, l \in Nat : l = u - 1 => v - (u - l) = v - 1 OBVIOUS
    <3>2. Len(x) = b - (a - Len(m.idx)) BY <2>1, <2>6
    <3> HIDE DEF a, x
    <3> QED BY <2>a, <3>1, <3>2
  <2>23. b \in b .. a BY <1>1, <1>3
  <2>24. LET t == <<f, m3>>
             e == t[2].hdr.dataEnd
         IN /\ e \in b .. a /\ Agree(t[1], d, b) /\ Counted(t[1], t[2].hdr)
            /\ Lists(t[1], t[2].idx, e) /\ e = b
            /\ Len(m.idx) = a - 1 => Len(t[2].idx) = e - 1
    BY <2>14, <2>16, <2>17, <2>20, <2>21, <2>22, <2>23
  <2> QED BY <2>0, <2>24, <2>s DEF n
<1>12. i \in Nat /\ (n > 0 \/ n = 0) BY <1>1, <1>3, FindBlockOk
<1> HIDE DEF i, n
<1> QED BY <1>1, <1>3, <1>8, <1>9, <1>10, <1>11, <1>12

\* The call in progress is about to write the buffer.
Flushing == todo # <<>> /\ Head(todo) \in {"prefix", "data"}

\* The open handle agrees with the blocks written, and the header on disk lags behind it.
MemGood ==
  /\ Counted(disk, mem.hdr) /\ Lists(disk, mem.idx, mem.hdr.dataEnd)
  /\ disk.hdr.dataEnd <= mem.hdr.dataEnd
  /\ \A j \in DOMAIN mem.buf : mem.buf[j] # NoUnit
  /\ todo # <<>> => (Flushing <=> mem.buf # <<>>)
  /\ todo \in InWrite => mem.hdr.tx = "active"
  /\ (\E x \in Ends : todo = <<"header", x>>) => disk.cells[mem.hdr.dataEnd].ents = mem.idx
  /\ state = "idle" => /\ mem.buf = <<>> /\ disk.hdr.dataEnd = mem.hdr.dataEnd
                       /\ disk.hdr.tx = "done" /\ mem.hdr.tx = "done"

\* The header of the transaction's end is on disk.
Closing == state = "rotated" \/ \E x \in Ends : todo = <<x>>

\* The transaction's rollback point is the start of the block at address e: all committed
\* units are before it, and an index on disk lists the blocks from there on at least.
RollAt(e) ==
  /\ e \in 1 .. disk.hdr.dataEnd /\ RawOff(disk, e) = lastOpenWrtOffset
  /\ StoredAll(disk, e, committed)
  /\ disk.hdr.tx = "done" =>
       \/ disk.hdr.dataEnd = e
       \/ Closing /\ HasIndex(disk) /\ disk.hdr.dataEnd - Len(Listed(disk)) <= e
  /\ state = "tx" => mem.hdr.dataEnd - Len(mem.idx) <= e

\* The units of the transaction in progress are in blocks or in the buffer.
PendingKept ==
  state = "tx" => \A i \in DOMAIN pending :
    \/ Stored(disk, mem.hdr.dataEnd, pending[i])
    \/ \E j \in DOMAIN mem.buf : mem.buf[j] = pending[i]

\* What was committed lies below the rollback point, or below DataEnd.
CommittedKept ==
  IF state \in {"tx", "rotated"} THEN \E e \in Nat : RollAt(e)
  ELSE pending = <<>> /\ StoredAll(disk, disk.hdr.dataEnd, committed)

UnitsOk == nextUnit # NoUnit /\ committed \in Seq(Nat) /\ pending \in Seq(Nat)

\* Every committed unit is in a block that no write, recovery or truncation will touch.
KInv ==
  /\ UnitsOk /\ DiskGood(disk)
  /\ disk.hdr = NoHeader => committed = <<>> /\ state \in {"closed", "down"}
  /\ state \in {"tx", "idle"} => MemGood
  /\ CommittedKept /\ PendingKept
  /\ state = "rotated" => StoredAll(disk, disk.hdr.dataEnd, pending) /\ disk.hdr.tx = "done"
  /\ state = "inspect" => effective \in {0, disk.hdr.total}

\* The handle's part of Exact.
MemExact ==
  /\ Holds(disk, mem.hdr.dataEnd, committed \o pending)
  /\ Len(committed \o pending) = mem.size /\ Len(mem.idx) = mem.hdr.dataEnd - 1
  /\ \A j \in DOMAIN mem.buf : mem.buf[j] = (committed \o pending)[mem.hdr.total + j]

\* The index on disk lists every block.
Full(d) ==
  d.hdr.tx = "done" => IF HasIndex(d) THEN Len(Listed(d)) = d.hdr.dataEnd - 1
                       ELSE d.hdr.index = 0 => d.hdr.dataEnd \in {0, 1}

\* While nothing has crashed: the file holds the committed units and those of the
\* transaction, in order, and every index lists all blocks.
Exact ==
  /\ Full(disk) /\ Holds(disk, disk.hdr.dataEnd, committed \o pending)
  /\ state \in {"tx", "rotated"} => lastOpenWrtOffset = Len(committed)
  /\ state # "tx" => Clean(disk) /\ Len(committed \o pending) = disk.hdr.total
  /\ state \in {"tx", "idle"} => MemExact

\* Where a call goes from each of its places.
LEMMA TodoCall ==
  ASSUME NEW t \in Forms, t # <<>>
  PROVE  /\ Head(t) \in {"prefix", "data", "index", "header"} => Tail(t) # <<>>
         /\ Tail(t) \in InWrite => t \in InWrite
         /\ Head(t) = "prefix" => Head(Tail(t)) = "data"
         /\ Head(t) \in {"data", "index", "header"} => Head(Tail(t)) \notin {"prefix", "data"}
         /\ Head(t) \in {"prefix", "data", "index"} => \A x \in Ends : Tail(t) # <<x>>
         /\ Head(t) \in {"prefix", "data", "header"} => \A x \in Ends : Tail(t) # <<"header", x>>
         /\ Head(t) = "header" => t \in InWrite \/ \E x \in Ends : t = <<"header", x>>
<1>1. CASE t \in InWrite
  <2>1. CASE t = <<"append">> BY <1>1, <2>1 DEF Ends
  <2>2. CASE t = <<"header", "append">> BY <1>1, <2>2 DEF Ends
  <2>3. CASE t = <<"data", "append">> BY <1>1, <2>3 DEF Ends
  <2>4. CASE t = <<"data", "header", "append">> BY <1>1, <2>4 DEF Ends
  <2>5. CASE t = <<"prefix", "data", "append">> BY <1>1, <2>5 DEF Ends
  <2>6. CASE t = <<"prefix", "data", "header", "append">> BY <1>1, <2>6 DEF Ends
  <2> QED BY <1>1, <2>1, <2>2, <2>3, <2>4, <2>5, <2>6 DEF InWrite
<1>2. CASE t \in InEnd
  <2>1. PICK e \in Ends : t \in {<<e>>, <<"header", e>>, <<"index", "header", e>>,
              <<"data", "index", "header", e>>, <<"prefix", "data", "index", "header", e>>}
    BY <1>2 DEF InEnd
  <2>2. CASE t = <<e>> BY <2>2 DEF Ends, InWrite
  <2>3. CASE t = <<"header", e>> BY <2>3 DEF Ends, InWrite
  <2>4. CASE t = <<"index", "header", e>> BY <2>4 DEF Ends, InWrite
  <2>5. CASE t = <<"data", "index", "header", e>> BY <2>5 DEF Ends, InWrite
  <2>6. CASE t = <<"prefix", "data", "index", "header", e>> BY <2>6 DEF Ends, InWrite
  <2> QED BY <2>1, <2>2, <2>3, <2>4, <2>5, <2>6
<1> QED BY <1>1, <1>2 DEF Forms

\* Files that agree up to an address agree up to a lower one.
LEMMA AgreeLess ==
  ASSUME NEW a, NEW b, NEW e \in Nat, NEW f \in Nat, f <= e, Agree(a, b, e)
  PROVE  Agree(a, b, f)
BY DEF Agree

\* What is stored below an address is stored below a higher one.
LEMMA StoredMore ==
  ASSUME NEW d, NEW e \in Nat, NEW f \in Nat, e <= f
  PROVE  /\ \A u : Stored(d, e, u) => Stored(d, f, u)
         /\ \A s : StoredAll(d, e, s) => StoredAll(d, f, s)
<1>1. (1 .. e - 1) \subseteq (1 .. f - 1) OBVIOUS
<1>2. ASSUME NEW u, Stored(d, e, u) PROVE Stored(d, f, u) BY <1>1, <1>2, Zenon DEF Stored
<1> QED BY <1>2, Zenon DEF StoredAll

\* Between two stored units nothing is lost when files agree.
LEMMA StoredSame ==
  ASSUME NEW a, NEW b, NEW e \in Nat, Agree(a, b, e), NEW u, Stored(b, e, u)
  PROVE  Stored(a, e, u)
BY DEF Agree, Stored

\* What is known of an open handle.
LEMMA HandleFacts ==
  ASSUME BInv, KInv, state \in {"tx", "idle"}
  PROVE  /\ disk \in File /\ FileOk(disk) /\ HandleOk(mem, disk) /\ MemGood
         /\ \A q \in DOMAIN disk.cells : Below(disk.cells[q].ents, q)
         /\ mem \in Memory /\ mem.hdr \in HeaderType /\ disk.hdr \in HeaderType
         /\ mem.idx \in Seq(Entry) /\ mem.buf \in Block
         /\ mem.hdr.dataEnd \in Nat \ {0} /\ mem.hdr.dataEnd \in 1 .. Len(disk.cells) + 1
         /\ mem.wpos = mem.hdr.dataEnd /\ Below(mem.idx, mem.hdr.dataEnd)
         /\ disk.hdr # NoHeader /\ disk.hdr.dataEnd \in 1 .. mem.hdr.dataEnd
         /\ todo \in Forms /\ disk.cells \in Seq(Cells) /\ TodoOk
         /\ mem.size = mem.hdr.total + Len(mem.buf)
<1>1. FileOk(disk) /\ HandleOk(mem, disk) /\ mem.wpos = mem.hdr.dataEnd /\ TodoOk
      /\ mem.size = mem.hdr.total + Len(mem.buf)
  BY DEF BInv, OpenOk
<1>2. MemGood /\ disk.hdr # NoHeader BY DEF KInv
<1>3. disk \in File /\ \A q \in DOMAIN disk.cells : Below(disk.cells[q].ents, q)
  BY <1>1 DEF FileOk
<1>4. disk.cells \in Seq(Cells) /\ disk.hdr \in HeaderType BY <1>3 DEF File
<1>5. HeaderOk(disk.hdr, disk.cells) BY <1>1, <1>2 DEF FileOk
<1>6. mem \in Memory /\ HeaderOk(mem.hdr, disk.cells) /\ Below(mem.idx, mem.hdr.dataEnd)
  BY <1>1 DEF HandleOk
<1>7. mem.hdr \in HeaderType /\ mem.idx \in Seq(Entry) /\ mem.buf \in Block BY <1>6 DEF Memory
<1>8. Len(disk.cells) \in Nat BY <1>4
<1>9. mem.hdr.dataEnd \in 1 .. Len(disk.cells) + 1 BY <1>6 DEF HeaderOk
<1>10. mem.hdr.dataEnd \in Nat \ {0} BY <1>8, <1>9
<1>11. disk.hdr.dataEnd \in 1 .. mem.hdr.dataEnd
  <2>1. disk.hdr.dataEnd \in 1 .. Len(disk.cells) + 1 BY <1>5 DEF HeaderOk
  <2>2. disk.hdr.dataEnd <= mem.hdr.dataEnd BY <1>2 DEF MemGood
  <2> QED BY <2>1, <2>2, <1>8, <1>10
<1>12. todo \in Forms BY <1>1 DEF TodoOk
<1> QED BY <1>1, <1>2, <1>3, <1>4, <1>6, <1>7, <1>9, <1>10, <1>11, <1>12

\* A cell written where the handle stands leaves every block below alone.
LEMMA CellGood ==
  ASSUME BInv, KInv, state \in {"tx", "idle"}, NEW c \in Cells, Below(c.ents, mem.wpos),
         c.kind # "index" \/ c.ents = mem.idx
  PROVE  LET w == WriteCell(disk, mem.wpos, c)
             e == mem.hdr.dataEnd
         IN /\ Agree(w, disk, e) /\ w.hdr = disk.hdr /\ w.cells[e] = c /\ e \in DOMAIN w.cells
            /\ DiskGood(w) /\ Counted(w, mem.hdr) /\ Lists(w, mem.idx, e)
            /\ Full(disk) /\ Len(mem.idx) = e - 1 => Full(w)
<1> DEFINE w == WriteCell(disk, mem.wpos, c)
           e == mem.hdr.dataEnd
           b == disk.hdr.dataEnd
<1>1. /\ disk \in File /\ FileOk(disk) /\ HandleOk(mem, disk) /\ MemGood
      /\ \A q \in DOMAIN disk.cells : Below(disk.cells[q].ents, q)
      /\ mem.idx \in Seq(Entry) /\ e \in Nat \ {0} /\ e \in 1 .. Len(disk.cells) + 1
      /\ mem.wpos = e /\ disk.hdr # NoHeader /\ b \in 1 .. e
      /\ disk.cells \in Seq(Cells) /\ disk.hdr \in HeaderType
  BY HandleFacts
<1>2. Agree(w, disk, e) /\ w.cells[e] = c BY <1>1, WriteAgree
<1>3. w \in File /\ w.hdr = disk.hdr /\ e <= Len(w.cells) /\ Len(disk.cells) <= Len(w.cells)
      /\ \A q \in DOMAIN disk.cells : q # e => w.cells[q] = disk.cells[q]
  BY <1>1, WriteCellOk
<1>4. w.cells \in Seq(Cells) BY <1>3 DEF File
<1> HIDE DEF w
<1>5. e \in DOMAIN w.cells BY <1>1, <1>3, <1>4
<1>6. Counted(w, mem.hdr) /\ Lists(w, mem.idx, e)
  BY <1>1, <1>2, SameBelow DEF MemGood, Counted
<1>7. b \in Nat \ {0} /\ b <= e BY <1>1
<1>8. Agree(w, disk, b) BY <1>1, <1>2, <1>7, AgreeLess
<1>9. DiskGood(disk) BY DEF KInv
<1>10. Counted(w, w.hdr) BY <1>1, <1>3, <1>7, <1>8, <1>9, SameBelow DEF DiskGood, Counted
<1>11. w.hdr.tx = "done" /\ w.hdr.index > 0 => w.hdr.index = b
  BY <1>1, <1>3, <1>9 DEF DiskGood
<1>12. CASE HasIndex(w) /\ b # e
  <2>1. w.hdr.index = b BY <1>11, <1>12 DEF HasIndex
  <2>2. b \in DOMAIN disk.cells /\ w.cells[b] = disk.cells[b]
    <3>1. b \in 1 .. Len(disk.cells) BY <1>1, <1>12
    <3>2. DOMAIN disk.cells = 1 .. Len(disk.cells) BY <1>1
    <3>3. b \in DOMAIN disk.cells BY <3>1, <3>2
    <3> HIDE DEF b
    <3> QED BY <3>3, <1>3, <1>12
  <2>3. b <= Len(disk.cells) BY <2>2, <1>1
  <2>4. HasIndex(disk) /\ Listed(disk) = Listed(w)
    BY <1>3, <1>12, <2>1, <2>2, <2>3 DEF HasIndex, Listed
  <2>5. Listed(disk) \in Seq(Entry)
    <3>1. disk.cells[b] \in Cells BY <2>2, <1>1
    <3>2. Listed(disk) = disk.cells[b].ents BY <2>1, <2>4, <1>3 DEF Listed
    <3> QED BY <3>1, <3>2 DEF Cells
  <2>6. Lists(w, Listed(w), b)
    BY <1>1, <1>7, <1>8, <1>9, <2>4, <2>5, SameBelow DEF DiskGood
  <2>7. Full(disk) => Full(w) BY <2>4, <1>3, <1>12 DEF Full, HasIndex
  <2> QED BY <2>6, <2>7, <1>2, <1>3, <1>5, <1>6, <1>10, <1>11 DEF DiskGood, w
<1>13. CASE HasIndex(w) /\ b = e
  <2>1. w.hdr.index = e BY <1>11, <1>13 DEF HasIndex
  <2>2. c.kind = "index" BY <2>1, <1>2, <1>13 DEF HasIndex
  <2>3. Listed(w) = mem.idx BY <2>1, <2>2, <1>2, <1>13 DEF Listed
  <2>4. Lists(w, Listed(w), b) BY <2>3, <1>6, <1>13
  <2>5. Len(mem.idx) = e - 1 => Full(w) BY <2>3, <1>3, <1>13 DEF Full
  <2> QED BY <2>4, <2>5, <1>2, <1>3, <1>5, <1>6, <1>10, <1>11 DEF DiskGood, w
<1>14. CASE ~HasIndex(w)
  <2>1. Listed(w) = <<>> BY <1>14 DEF Listed
  <2>2. Lists(w, Listed(w), b) BY <2>1, <1>7, ListsNone
  <2>3. Full(disk) => Full(w)
    <3>1. w.hdr.tx = "done" /\ w.hdr.index = 0 => ~HasIndex(disk)
      BY <1>3, <1>1 DEF HasIndex, HeaderType
    <3> QED BY <3>1, <1>3, <1>14 DEF Full
  <2> QED BY <2>2, <2>3, <1>2, <1>3, <1>5, <1>6, <1>10, <1>11 DEF DiskGood, w
<1> QED BY <1>12, <1>13, <1>14

\* A cell written where the handle stands keeps the rollback point.
LEMMA CellKept ==
  ASSUME BInv, KInv, state \in {"tx", "idle"}, \A x \in Ends : todo # <<x>>,
         Agree(disk', disk, mem.hdr.dataEnd), disk'.hdr = disk.hdr,
         UNCHANGED <<state, lastOpenWrtOffset, committed, pending>>,
         mem'.hdr.dataEnd - Len(mem'.idx) = mem.hdr.dataEnd - Len(mem.idx)
  PROVE  CommittedKept'
<1> DEFINE b == disk.hdr.dataEnd
           e == mem.hdr.dataEnd
<1>1. b \in 1 .. e /\ e \in Nat \ {0} BY HandleFacts
<1>2. CASE state = "tx"
  <2>1. PICK r \in Nat : RollAt(r) BY <1>2 DEF KInv, CommittedKept
  <2>2. r \in 1 .. b /\ RawOff(disk, r) = lastOpenWrtOffset /\ StoredAll(disk, r, committed)
        /\ e - Len(mem.idx) <= r
    BY <1>2, <2>1 DEF RollAt
  <2>3. disk.hdr.tx = "done" => b = r BY <1>2, <2>1 DEF RollAt, Closing
  <2>4. r \in Nat \ {0} /\ r <= e BY <1>1, <2>2
  <2>5. Agree(disk', disk, r) BY <1>1, <2>4, AgreeLess
  <2>6. RawOff(disk', r) = lastOpenWrtOffset /\ StoredAll(disk', r, committed)
    BY <2>2, <2>4, <2>5, SameBelow
  <2>7. RollAt(r)' BY <2>2, <2>3, <2>6 DEF RollAt
  <2> QED BY <2>1, <2>7, <1>2 DEF CommittedKept
<1>3. CASE state = "idle"
  <2>1. pending = <<>> /\ StoredAll(disk, b, committed) BY <1>3 DEF KInv, CommittedKept
  <2>2. b \in Nat \ {0} /\ b <= e BY <1>1
  <2>3. Agree(disk', disk, b) BY <1>1, <2>2, AgreeLess
  <2>4. StoredAll(disk', b, committed) BY <2>1, <2>2, <2>3, SameBelow
  <2> QED BY <2>1, <2>4, <1>3 DEF CommittedKept
<1> QED BY <1>2, <1>3

\* A block's prefix is written: only what lies past the blocks changes.
LEMMA WritePrefixKept == ASSUME BInv, KInv, WritePrefix PROVE KInv' /\ (Exact => Exact')
<1> DEFINE e == mem.hdr.dataEnd
           b == disk.hdr.dataEnd
<1>1. state \in {"tx", "idle"} BY DEF BInv, WritePrefix
<1>2. /\ MemGood /\ todo \in Forms /\ mem.wpos = e /\ e \in Nat \ {0} /\ b \in 1 .. e
      /\ disk.hdr # NoHeader
  BY <1>1, HandleFacts
<1>3. Head(todo) = "prefix" /\ todo # <<>> /\ todo' = Tail(todo)
  BY DEF WritePrefix
<1>4. /\ todo' # <<>> /\ Head(todo') = "data" /\ (todo' \in InWrite => todo \in InWrite)
      /\ \A x \in Ends : todo' # <<x>> /\ todo' # <<"header", x>>
  BY <1>2, <1>3, TodoCall
<1>5. Torn \in Cells /\ Below(Torn.ents, mem.wpos) /\ Torn.kind # "index"
  BY Empties DEF Torn, Cell, Below
<1>6. /\ Agree(disk', disk, e) /\ disk'.hdr = disk.hdr /\ DiskGood(disk')
      /\ Counted(disk', mem.hdr) /\ Lists(disk', mem.idx, e)
      /\ Full(disk) /\ Len(mem.idx) = e - 1 => Full(disk')
  BY <1>1, <1>5, CellGood DEF WritePrefix
<1>7. \A x \in Ends : todo # <<x>> BY <1>3 DEF Ends
<1>8. CommittedKept' BY <1>1, <1>6, <1>7, CellKept DEF WritePrefix, history
<1>9. state = "tx"
  <2>1. mem.buf # <<>> BY <1>2, <1>3 DEF MemGood, Flushing
  <2> QED BY <1>1, <1>2, <2>1 DEF MemGood
<1>10. UNCHANGED <<mem, state, lastOpenWrtOffset, effective, nextUnit, committed, pending, crashes>>
  BY DEF WritePrefix, history, counters
<1>11. MemGood' BY <1>2, <1>3, <1>4, <1>6, <1>9, <1>10 DEF MemGood, Flushing
<1>12. PendingKept'
  <2>1. ASSUME NEW u, Stored(disk, e, u) PROVE Stored(disk', e, u)
    BY <1>2, <1>6, <2>1, StoredSame
  <2>2. PendingKept BY DEF KInv
  <2> QED BY <2>1, <2>2, <1>10 DEF PendingKept
<1>13. UnitsOk' BY <1>10 DEF KInv, UnitsOk
<1>14. KInv' BY <1>2, <1>6, <1>8, <1>9, <1>10, <1>11, <1>12, <1>13 DEF KInv
<1>15. ASSUME Exact PROVE Exact'
  <2>1. \A s : /\ Holds(disk, b, s) => Holds(disk', b, s)
               /\ Holds(disk, e, s) => Holds(disk', e, s)
    <3>1. b \in Nat \ {0} /\ b <= e BY <1>2
    <3>2. Agree(disk', disk, b) BY <1>2, <1>6, <3>1, AgreeLess
    <3> QED BY <1>2, <1>6, <3>1, <3>2, SameBelow
  <2>2. MemExact BY <1>9, <1>15 DEF Exact
  <2>3. MemExact' BY <2>1, <2>2, <1>10 DEF MemExact
  <2>4. Full(disk') BY <1>6, <1>15, <2>2 DEF Exact, MemExact
  <2> QED BY <2>1, <2>3, <2>4, <1>6, <1>9, <1>10, <1>15 DEF Exact
<1> QED BY <1>14, <1>15

\* A flushed block is one more block below DataEnd, and one more entry of the index.
LEMMA FlushGood ==
  ASSUME NEW w, NEW m \in Memory, NEW e \in Nat \ {0}, m.hdr.dataEnd = e, m.wpos = e,
         Counted(w, m.hdr), Lists(w, m.idx, e), e \in DOMAIN w.cells,
         w.cells[e] = Cell("block", m.buf, <<>>), m.buf # <<>>,
         \A j \in DOMAIN m.buf : m.buf[j] # NoUnit
  PROVE  LET f == flushed(m) IN
         /\ f.hdr.dataEnd = e + 1 /\ f.buf = <<>> /\ f.hdr.tx = m.hdr.tx /\ f.size = m.size
         /\ Len(f.idx) = Len(m.idx) + 1 /\ Len(m.idx) \in Nat
         /\ Counted(w, f.hdr) /\ Lists(w, f.idx, e + 1) /\ f.hdr.total = m.hdr.total + Len(m.buf)
         /\ \A j \in DOMAIN m.buf : Stored(w, e + 1, m.buf[j])
         /\ \A s \in Seq(Nat) :
              /\ Holds(w, e, s) /\ Len(s) = m.hdr.total + Len(m.buf)
              /\ \A j \in DOMAIN m.buf : m.buf[j] = s[m.hdr.total + j]
              => Holds(w, e + 1, s)
<1> DEFINE r == [raw |-> m.hdr.total, comp |-> m.wpos, crc |-> m.buf]
           h == [m.hdr EXCEPT !.total = @ + Len(m.buf), !.dataEnd = m.wpos + 1]
           f == flushed(m)
           U == w.cells[e].units
<1>1. /\ m.hdr \in HeaderType /\ m.idx \in Seq(Entry) /\ m.buf \in Block /\ m.wpos \in Nat
      /\ m.size \in Nat
  BY DEF Memory
<1>2. /\ f.idx = Append(m.idx, r) /\ f.buf = <<>> /\ f.hdr = h /\ f.size = m.size
  BY <1>1 DEF flushed, Memory
<1>3. h.total = m.hdr.total + Len(m.buf) /\ h.dataEnd = e + 1 /\ h.tx = m.hdr.tx
  BY <1>1 DEF HeaderType
<1> HIDE DEF f
<1>4. U = m.buf /\ w.cells[e].kind = "block" BY DEF Cell
<1>5. m.buf \in Seq(Nat) /\ Len(m.buf) \in Nat /\ DOMAIN m.buf = 1 .. Len(m.buf) /\ Len(m.buf) > 0
  BY <1>1 DEF Block
<1>6. RawOff(w, e + 1) = RawOff(w, e) + Len(m.buf) BY <1>1, <1>4, RawOffNext
<1>7. RawOff(w, e) = m.hdr.total /\ m.hdr.total \in Nat BY <1>1 DEF Counted, HeaderType
<1>8. 1 .. (e + 1) - 1 = (1 .. e - 1) \cup {e} OBVIOUS
<1>9. Solid(w, e + 1)
  <2>1. Solid(w, e) BY DEF Counted
  <2> HIDE DEF U
  <2> QED BY <2>1, <1>1, <1>4, <1>5, <1>8 DEF Solid, U
<1>10. Counted(w, f.hdr) BY <1>2, <1>3, <1>6, <1>7, <1>9 DEF Counted
<1>11. r \in Entry BY <1>1, <1>7 DEF Entry
<1>12. /\ Len(f.idx) = Len(m.idx) + 1 /\ Len(m.idx) \in Nat /\ f.idx \in Seq(Entry)
       /\ f.idx[Len(m.idx) + 1] = r /\ \A i \in 1 .. Len(m.idx) : f.idx[i] = m.idx[i]
  <2> HIDE DEF r
  <2> QED BY <1>1, <1>2, <1>11
<1>13. Lists(w, f.idx, e + 1)
  <2>1. Len(m.idx) < e BY DEF Lists
  <2>2. ASSUME NEW i \in DOMAIN f.idx PROVE f.idx[i] = EntryOf(w, (e + 1) - 1 - Len(f.idx) + i)
    <3>0. i \in 1 .. Len(m.idx) + 1 BY <1>12, <2>2
    <3>1. CASE i = Len(m.idx) + 1
      <4>0. \A x, n \in Nat : (x + 1) - 1 - (n + 1) + (n + 1) = x OBVIOUS
      <4>1. (e + 1) - 1 - Len(f.idx) + i = e BY <4>0, <1>12, <3>1
      <4>2. EntryOf(w, e) = r BY <1>4, <1>7 DEF EntryOf
      <4> QED BY <4>1, <4>2, <3>1, <1>12
    <3>2. CASE i \in 1 .. Len(m.idx)
      <4>0. \A x, n \in Nat : \A k \in 1 .. n : (x + 1) - 1 - (n + 1) + k = x - 1 - n + k
        OBVIOUS
      <4>9. Len(f.idx) = Len(m.idx) + 1 /\ Len(m.idx) \in Nat /\ e \in Nat BY <1>12
      <4>1. (e + 1) - 1 - (Len(m.idx) + 1) + i = e - 1 - Len(m.idx) + i BY <4>0, <4>9, <3>2, Zenon
      <4>2. i \in DOMAIN m.idx BY <1>1, <3>2
      <4>3. m.idx[i] = EntryOf(w, e - 1 - Len(m.idx) + i) BY <4>2 DEF Lists
      <4> QED BY <4>1, <4>3, <4>9, <3>2, <1>12
    <3> QED BY <3>0, <3>1, <3>2, <1>12
  <2> QED BY <2>1, <2>2, <1>12 DEF Lists
<1>14. \A j \in DOMAIN m.buf : Stored(w, e + 1, m.buf[j])
  <2>1. e \in 1 .. (e + 1) - 1 OBVIOUS
  <2> QED BY <2>1, <1>4 DEF Stored
<1>15. ASSUME NEW s \in Seq(Nat), Holds(w, e, s), Len(s) = m.hdr.total + Len(m.buf),
              \A j \in DOMAIN m.buf : m.buf[j] = s[m.hdr.total + j]
       PROVE  Holds(w, e + 1, s)
  <2>1. ASSUME NEW j \in DOMAIN U
        PROVE  RawOff(w, e) + j \in DOMAIN s /\ U[j] = s[RawOff(w, e) + j]
    <3>1. j \in 1 .. Len(m.buf) BY <1>4, <1>5, <2>1
    <3>2. \A x, n \in Nat : \A k \in 1 .. n : x + k \in 1 .. x + n OBVIOUS
    <3>3. m.hdr.total + j \in 1 .. Len(s) BY <3>1, <3>2, <1>5, <1>7, <1>15
    <3>4. DOMAIN s = 1 .. Len(s) BY <1>15
    <3>5. m.buf[j] = s[m.hdr.total + j] BY <3>1, <1>5, <1>15
    <3> QED BY <3>3, <3>4, <3>5, <1>4, <1>7
  <2> HIDE DEF U
  <2> QED BY <2>1, <1>8, <1>15 DEF Holds, U
<1> HIDE DEF h, r
<1> QED BY <1>2, <1>3, <1>10, <1>12, <1>13, <1>14, <1>15 DEF f

\* The buffer is written as a block.
LEMMA WriteDataKept == ASSUME BInv, KInv, WriteData PROVE KInv' /\ (Exact => Exact')
<1> DEFINE e == mem.hdr.dataEnd
           b == disk.hdr.dataEnd
           c == Cell("block", mem.buf, <<>>)
           all == committed \o pending
<1>1. state \in {"tx", "idle"} BY DEF BInv, WriteData
<1>2. /\ MemGood /\ todo \in Forms /\ mem.wpos = e /\ e \in Nat \ {0} /\ b \in 1 .. e
      /\ disk.hdr # NoHeader /\ mem \in Memory /\ mem.buf \in Block
      /\ mem.size = mem.hdr.total + Len(mem.buf)
  BY <1>1, HandleFacts
<1>3. Head(todo) = "data" /\ todo # <<>> /\ todo' = Tail(todo) /\ mem' = flushed(mem)
      /\ disk' = WriteCell(disk, mem.wpos, c)
  BY DEF WriteData
<1>4. /\ todo' # <<>> /\ Head(todo') \notin {"prefix", "data"}
      /\ (todo' \in InWrite => todo \in InWrite)
      /\ \A x \in Ends : todo' # <<x>> /\ todo' # <<"header", x>>
  BY <1>2, <1>3, TodoCall
<1>5. c \in Cells /\ Below(c.ents, mem.wpos) /\ c.kind # "index"
  BY <1>2, Empties DEF Cell, Cells, Below
<1> HIDE DEF c
<1>6. /\ Agree(disk', disk, e) /\ disk'.hdr = disk.hdr /\ DiskGood(disk')
      /\ Counted(disk', mem.hdr) /\ Lists(disk', mem.idx, e)
      /\ disk'.cells[e] = c /\ e \in DOMAIN disk'.cells
      /\ Full(disk) /\ Len(mem.idx) = e - 1 => Full(disk')
  BY <1>1, <1>3, <1>5, CellGood
<1>7. mem.buf # <<>> /\ \A j \in DOMAIN mem.buf : mem.buf[j] # NoUnit
  BY <1>2, <1>3 DEF MemGood, Flushing
<1>8. /\ mem'.hdr.dataEnd = e + 1 /\ mem'.buf = <<>> /\ mem'.hdr.tx = mem.hdr.tx
      /\ mem'.size = mem.size
      /\ Len(mem'.idx) = Len(mem.idx) + 1 /\ Len(mem.idx) \in Nat
      /\ Counted(disk', mem'.hdr) /\ Lists(disk', mem'.idx, e + 1)
      /\ \A j \in DOMAIN mem.buf : Stored(disk', e + 1, mem.buf[j])
      /\ \A s \in Seq(Nat) :
           /\ Holds(disk', e, s) /\ Len(s) = mem.hdr.total + Len(mem.buf)
           /\ \A j \in DOMAIN mem.buf : mem.buf[j] = s[mem.hdr.total + j]
           => Holds(disk', e + 1, s)
  <2> HIDE DEF e
  <2> QED BY <1>2, <1>3, <1>6, <1>7, FlushGood DEF c, e
<1>9. state = "tx" BY <1>1, <1>2, <1>7 DEF MemGood
<1>10. UNCHANGED <<state, lastOpenWrtOffset, effective, nextUnit, committed, pending, crashes>>
  BY DEF WriteData, history, counters
<1>11. \A x \in Ends : todo # <<x>> BY <1>3 DEF Ends
<1>12. CommittedKept'
  <2>0. \A x, n \in Nat : (x + 1) - (n + 1) = x - n OBVIOUS
  <2>1. mem'.hdr.dataEnd - Len(mem'.idx) = e - Len(mem.idx) BY <2>0, <1>2, <1>8
  <2> QED BY <2>1, <1>1, <1>6, <1>10, <1>11, CellKept
<1>13. MemGood'
  <2>1. disk'.hdr.dataEnd <= mem'.hdr.dataEnd BY <1>2, <1>6, <1>8
  <2>2. todo' \in InWrite => mem'.hdr.tx = "active" BY <1>2, <1>4, <1>8 DEF MemGood
  <2> QED BY <2>1, <2>2, <1>4, <1>8, <1>9, <1>10 DEF MemGood, Flushing
<1>14. PendingKept'
  <2>0. e <= e + 1 /\ e + 1 \in Nat BY <1>2
  <2>1. ASSUME NEW u, Stored(disk, e, u) PROVE Stored(disk', e + 1, u)
    <3>1. Stored(disk', e, u) BY <1>2, <1>6, <2>1, StoredSame
    <3> QED BY <3>1, <1>2, <2>0, StoredMore
  <2>2. PendingKept BY DEF KInv
  <2> QED BY <2>1, <2>2, <1>8, <1>9, <1>10 DEF PendingKept
<1>15. UnitsOk' BY <1>10 DEF KInv, UnitsOk
<1>16. KInv' BY <1>2, <1>6, <1>9, <1>10, <1>12, <1>13, <1>14, <1>15 DEF KInv
<1>17. ASSUME Exact PROVE Exact'
  <2>1. \A s : /\ Holds(disk, b, s) => Holds(disk', b, s)
               /\ Holds(disk, e, s) => Holds(disk', e, s)
    <3>1. b \in Nat \ {0} /\ b <= e BY <1>2
    <3>2. Agree(disk', disk, b) BY <1>2, <1>6, <3>1, AgreeLess
    <3> QED BY <1>2, <1>6, <3>1, <3>2, SameBelow
  <2>2. MemExact BY <1>9, <1>17 DEF Exact
  <2>3. MemExact'
    <3>1. all \in Seq(Nat) BY DEF KInv, UnitsOk
    <3>2. /\ Holds(disk', e, all) /\ Len(all) = mem.hdr.total + Len(mem.buf)
          /\ \A j \in DOMAIN mem.buf : mem.buf[j] = all[mem.hdr.total + j]
      BY <2>1, <2>2, <1>2 DEF MemExact
    <3>3. Holds(disk', e + 1, all) BY <3>1, <3>2, <1>8
    <3>4. Len(mem'.idx) = mem'.hdr.dataEnd - 1 BY <2>2, <1>2, <1>8 DEF MemExact
    <3>5. all' = all BY <1>10
    <3>6. Len(all) = mem'.size BY <2>2, <1>8 DEF MemExact
    <3> QED BY <3>3, <3>4, <3>5, <3>6, <1>8 DEF MemExact
  <2>4. Full(disk') BY <1>6, <1>17, <2>2 DEF Exact, MemExact
  <2> QED BY <2>1, <2>3, <2>4, <1>6, <1>9, <1>10, <1>17 DEF Exact
<1> QED BY <1>16, <1>17

\* The index is written past the last block.
LEMMA WriteIndexKept == ASSUME BInv, KInv, WriteIndex PROVE KInv' /\ (Exact => Exact')
<1> DEFINE e == mem.hdr.dataEnd
           b == disk.hdr.dataEnd
           c == Cell("index", <<>>, mem.idx)
<1>1. state \in {"tx", "idle"} BY DEF BInv, WriteIndex
<1>2. /\ MemGood /\ todo \in Forms /\ mem.wpos = e /\ e \in Nat \ {0} /\ b \in 1 .. e
      /\ disk.hdr # NoHeader /\ mem \in Memory /\ mem.hdr \in HeaderType
      /\ mem.idx \in Seq(Entry) /\ Below(mem.idx, e) /\ disk.hdr \in HeaderType
  BY <1>1, HandleFacts
<1>3. Head(todo) = "index" /\ todo # <<>> /\ todo' = Tail(todo)
      /\ mem' = [mem EXCEPT !.hdr = IndexedHeader(mem)]
      /\ disk' = WriteCell(disk, mem.wpos, c)
  BY <1>2 DEF WriteIndex, WithIndex
<1>4. /\ todo' # <<>> /\ Head(todo') \notin {"prefix", "data"}
      /\ (todo' \in InWrite => todo \in InWrite) /\ todo' \notin InWrite
      /\ \A x \in Ends : todo' # <<x>>
  <2>1. PICK x \in Ends : todo' = <<"header", x>> BY <1>2, <1>3, TodoSteps
  <2>2. todo' \notin InWrite BY <2>1 DEF Ends, InWrite
  <2> QED BY <2>2, <1>2, <1>3, TodoCall
<1>5. c \in Cells /\ Below(c.ents, mem.wpos) /\ c.ents = mem.idx /\ c.kind = "index"
  BY <1>2, Empties DEF Cell, Cells
<1> HIDE DEF c
<1>6. /\ Agree(disk', disk, e) /\ disk'.hdr = disk.hdr /\ DiskGood(disk')
      /\ Counted(disk', mem.hdr) /\ Lists(disk', mem.idx, e)
      /\ disk'.cells[e] = c /\ e \in DOMAIN disk'.cells
      /\ Full(disk) /\ Len(mem.idx) = e - 1 => Full(disk')
  BY <1>1, <1>3, <1>5, CellGood
<1>7. mem.buf = <<>> BY <1>2, <1>3 DEF MemGood, Flushing
<1>8. /\ mem'.hdr.dataEnd = e /\ mem'.hdr.total = mem.hdr.total /\ mem'.hdr.tx = "done"
      /\ mem'.buf = mem.buf /\ mem'.idx = mem.idx /\ mem'.size = mem.size
  BY <1>2, <1>3 DEF IndexedHeader, Memory, HeaderType
<1>9. UNCHANGED <<state, lastOpenWrtOffset, effective, nextUnit, committed, pending, crashes>>
  BY DEF WriteIndex, history, counters
<1>10. \A x \in Ends : todo # <<x>> BY <1>3 DEF Ends
<1>11. CommittedKept' BY <1>1, <1>6, <1>8, <1>9, <1>10, CellKept
<1>12. MemGood'
  <2>1. Counted(disk', mem'.hdr) BY <1>6, <1>8 DEF Counted
  <2> QED BY <2>1, <1>2, <1>4, <1>5, <1>6, <1>7, <1>8, <1>9 DEF MemGood, Flushing
<1>13. PendingKept'
  <2>1. ASSUME NEW u, Stored(disk, e, u) PROVE Stored(disk', e, u)
    BY <1>2, <1>6, <2>1, StoredSame
  <2>2. PendingKept BY DEF KInv
  <2> QED BY <2>1, <2>2, <1>8, <1>9 DEF PendingKept
<1>14. UnitsOk' BY <1>9 DEF KInv, UnitsOk
<1>15. KInv' BY <1>1, <1>2, <1>6, <1>9, <1>11, <1>12, <1>13, <1>14 DEF KInv
<1>16. ASSUME Exact PROVE Exact'
  <2>1. \A s : /\ Holds(disk, b, s) => Holds(disk', b, s)
               /\ Holds(disk, e, s) => Holds(disk', e, s)
    <3>1. b \in Nat \ {0} /\ b <= e BY <1>2
    <3>2. Agree(disk', disk, b) BY <1>2, <1>6, <3>1, AgreeLess
    <3> QED BY <1>2, <1>6, <3>1, <3>2, SameBelow
  <2>2. MemExact BY <1>1, <1>16 DEF Exact
  <2>3. MemExact' BY <2>1, <2>2, <1>8, <1>9 DEF MemExact
  <2>4. Full(disk') BY <1>6, <1>16, <2>2 DEF Exact, MemExact
  <2>5. state = "idle" => Clean(disk')
    <3>1. CASE state = "idle"
      <4>1. disk'.hdr.tx = "done" /\ b = e BY <3>1, <1>2, <1>6 DEF MemGood
      <4>2. disk'.hdr.index > 0 => disk'.hdr.index = e
        BY <4>1, <1>2, <1>6 DEF DiskGood
      <4>3. disk'.cells \in Seq(Cells)
        <5>1. FileOk(disk') BY WriteIndexInv DEF BInv
        <5> QED BY <5>1 DEF FileOk, File
      <4>4. e <= Len(disk'.cells) BY <4>3, <1>6
      <4> QED BY <4>1, <4>2, <4>4, <1>5, <1>6 DEF Clean, Indexed
    <3> QED BY <3>1
  <2> QED BY <2>1, <2>3, <2>4, <2>5, <1>1, <1>6, <1>9, <1>16 DEF Exact
<1> QED BY <1>15, <1>16

\* The header is written: after the transaction's first block, or at its end.
LEMMA WriteHeaderKept == ASSUME BInv, KInv, WriteHeader PROVE KInv' /\ (Exact => Exact')
<1> DEFINE e == mem.hdr.dataEnd
           b == disk.hdr.dataEnd
<1>1. state \in {"tx", "idle"} BY DEF BInv, WriteHeader
<1>2. /\ MemGood /\ todo \in Forms /\ e \in Nat \ {0} /\ b \in 1 .. e /\ disk \in File
      /\ disk.hdr # NoHeader /\ mem.hdr \in HeaderType /\ HandleOk(mem, disk) /\ TodoOk
      /\ mem.idx \in Seq(Entry) /\ mem.size = mem.hdr.total + Len(mem.buf)
  BY <1>1, HandleFacts
<1>3. Head(todo) = "header" /\ todo # <<>> /\ todo' = Tail(todo)
      /\ disk' = [disk EXCEPT !.hdr = mem.hdr]
  BY DEF WriteHeader
<1>4. /\ todo' # <<>> /\ Head(todo') \notin {"prefix", "data"}
      /\ (todo' \in InWrite => todo \in InWrite)
      /\ \A x \in Ends : todo' # <<"header", x>>
  BY <1>2, <1>3, TodoCall
<1>5. disk'.hdr = mem.hdr /\ disk'.cells = disk.cells BY <1>2, <1>3 DEF File
<1>6. UNCHANGED <<mem, state, lastOpenWrtOffset, effective, nextUnit, committed, pending, crashes>>
  BY DEF WriteHeader, history, counters
<1>7. mem.hdr.tx \in {"active", "done"} /\ mem.hdr # NoHeader
  BY <1>2 DEF HandleOk, HeaderOk, NoHeader
<1>8. Solid(disk, e) /\ Lists(disk, mem.idx, e) BY <1>2 DEF MemGood, Counted
<1>9. Agree(disk', disk, e) BY <1>5, <1>8, AgreeSelf
<1>10. Counted(disk', mem.hdr) /\ Lists(disk', mem.idx, e)
  BY <1>2, <1>8, <1>9, SameBelow DEF MemGood, Counted
<1>11. mem.buf = <<>> BY <1>2, <1>3 DEF MemGood, Flushing
<1>12. MemGood'
  BY <1>2, <1>4, <1>5, <1>6, <1>10, <1>11 DEF MemGood, Flushing
<1>13. PendingKept'
  <2>1. ASSUME NEW u, Stored(disk, e, u) PROVE Stored(disk', e, u)
    BY <1>2, <1>9, <2>1, StoredSame
  <2>2. PendingKept BY DEF KInv
  <2> QED BY <2>1, <2>2, <1>6 DEF PendingKept
<1>14. UnitsOk' BY <1>6 DEF KInv, UnitsOk
<1>15. \A r \in 1 .. b : /\ RawOff(disk', r) = RawOff(disk, r) /\ r \in 1 .. e
                         /\ StoredAll(disk, r, committed) => StoredAll(disk', r, committed)
  <2>1. TAKE r \in 1 .. b
  <2>2. r \in Nat \ {0} /\ r <= e /\ r \in 1 .. e BY <1>2
  <2>3. Agree(disk', disk, r) BY <1>2, <1>9, <2>2, AgreeLess
  <2> QED BY <2>2, <2>3, SameBelow
<1>16. CASE todo \in InWrite
  <2>1. mem.hdr.tx = "active" /\ state = "tx" BY <1>1, <1>2, <1>16 DEF MemGood
  <2>2. ~HasIndex(disk') /\ Listed(disk') = <<>> BY <2>1, <1>5 DEF HasIndex, Listed
  <2>3. DiskGood(disk') BY <2>1, <2>2, <1>2, <1>5, <1>10, ListsNone DEF DiskGood
  <2>4. PICK r \in Nat : RollAt(r) BY <2>1 DEF KInv, CommittedKept
  <2>5. RollAt(r)'
    <3>1. r \in 1 .. b /\ RawOff(disk, r) = lastOpenWrtOffset /\ StoredAll(disk, r, committed)
          /\ e - Len(mem.idx) <= r
      BY <2>1, <2>4 DEF RollAt
    <3>2. r \in 1 .. e /\ RawOff(disk', r) = lastOpenWrtOffset /\ StoredAll(disk', r, committed)
      BY <3>1, <1>15
    <3> QED BY <3>1, <3>2, <2>1, <1>5, <1>6 DEF RollAt
  <2>6. CommittedKept' BY <2>1, <2>4, <2>5, <1>6 DEF CommittedKept
  <2>7. KInv' BY <2>1, <2>3, <2>6, <1>5, <1>6, <1>7, <1>12, <1>13, <1>14 DEF KInv
  <2>8. ASSUME Exact PROVE Exact'
    <3>1. MemExact BY <1>1, <2>8 DEF Exact
    <3>2. \A s : Holds(disk, e, s) => Holds(disk', e, s) BY <1>2, <1>9, SameBelow
    <3>3. MemExact' BY <3>1, <3>2, <1>6 DEF MemExact
    <3>4. Full(disk') BY <2>1, <1>5 DEF Full
    <3> QED BY <3>1, <3>2, <3>3, <3>4, <2>1, <2>8, <1>5, <1>6 DEF Exact, MemExact
  <2> QED BY <2>7, <2>8
<1>17. CASE \E x \in Ends : todo = <<"header", x>>
  <2>1. PICK x \in Ends : todo = <<"header", x>> BY <1>17
  <2>2. todo' = <<x>> BY <2>1, <1>3
  <2>3. Closing' BY <2>2 DEF Closing
  <2>4. mem.hdr.index = e /\ Indexed(mem.hdr, disk.cells) BY <2>1, <1>2 DEF TodoOk
  <2>5. disk.cells[e].ents = mem.idx BY <2>1, <1>2 DEF MemGood
  <2>6. HasIndex(disk') /\ Listed(disk') = mem.idx
    BY <2>4, <2>5, <1>2, <1>5 DEF HasIndex, Listed, Indexed
  <2>7. DiskGood(disk') BY <2>4, <2>6, <1>5, <1>10 DEF DiskGood
  <2>8. CommittedKept'
    <3>1. CASE state = "tx"
      <4>1. PICK r \in Nat : RollAt(r) BY <3>1 DEF KInv, CommittedKept
      <4>2. RollAt(r)'
        <5>1. r \in 1 .. b /\ RawOff(disk, r) = lastOpenWrtOffset
              /\ StoredAll(disk, r, committed) /\ e - Len(mem.idx) <= r
          BY <3>1, <4>1 DEF RollAt
        <5>2. r \in 1 .. e /\ RawOff(disk', r) = lastOpenWrtOffset
              /\ StoredAll(disk', r, committed)
          BY <5>1, <1>15
        <5> QED BY <5>1, <5>2, <2>3, <2>6, <1>5, <1>6 DEF RollAt
      <4> QED BY <3>1, <4>1, <4>2, <1>6 DEF CommittedKept
    <3>2. CASE state = "idle"
      <4>1. b = e /\ b \in 1 .. b BY <3>2, <1>2 DEF MemGood
      <4>2. pending = <<>> /\ StoredAll(disk, b, committed) BY <3>2 DEF KInv, CommittedKept
      <4>3. StoredAll(disk', b, committed) BY <4>1, <4>2, <1>15
      <4> QED BY <3>2, <4>1, <4>2, <4>3, <1>5, <1>6 DEF CommittedKept
    <3> QED BY <1>1, <3>1, <3>2
  <2>9. KInv' BY <2>7, <2>8, <1>1, <1>5, <1>6, <1>7, <1>12, <1>13, <1>14 DEF KInv
  <2>10. ASSUME Exact PROVE Exact'
    <3>1. MemExact BY <1>1, <2>10 DEF Exact
    <3>2. \A s : Holds(disk, e, s) => Holds(disk', e, s) BY <1>2, <1>9, SameBelow
    <3>3. MemExact' BY <3>1, <3>2, <1>6 DEF MemExact
    <3>4. Full(disk') BY <3>1, <2>6, <1>5 DEF Full, MemExact
    <3>5. Clean(disk') BY <2>4, <1>5 DEF Clean
    <3>6. Len(committed \o pending) = disk'.hdr.total
      <4>1. mem.hdr.total \in Nat BY <1>2 DEF HeaderType
      <4>2. Len(mem.buf) = 0 BY <1>11
      <4> QED BY <4>1, <4>2, <3>1, <1>2, <1>5 DEF MemExact
    <3> QED BY <3>1, <3>2, <3>3, <3>4, <3>5, <3>6, <2>10, <1>1, <1>5, <1>6 DEF Exact, MemExact
  <2> QED BY <2>9, <2>10
<1>18. todo \in InWrite \/ \E x \in Ends : todo = <<"header", x>> BY <1>2, <1>3, TodoCall
<1> QED BY <1>16, <1>17, <1>18

\* A call has begun: the file and the blocks of the handle are as before.
LEMMA CallBegun ==
  ASSUME BInv, KInv, state \in {"tx", "idle"}, todo = <<>>, todo' # <<>>,
         Head(todo') \in {"prefix", "data"} <=> mem.buf # <<>>,
         todo' \in InWrite => mem'.hdr.tx = "active" /\ state = "tx",
         \A x \in Ends : todo' # <<x>> /\ todo' # <<"header", x>>,
         mem'.hdr.dataEnd = mem.hdr.dataEnd, mem'.hdr.total = mem.hdr.total,
         mem'.idx = mem.idx, mem'.buf = mem.buf, mem'.size = mem.size,
         mem.hdr.tx = mem'.hdr.tx \/ state = "tx",
         UNCHANGED <<disk, state, lastOpenWrtOffset, effective, nextUnit, committed, pending>>
  PROVE  KInv' /\ (Exact => Exact')
<1>1. MemGood /\ disk.hdr # NoHeader BY HandleFacts
<1>2. MemGood' BY <1>1 DEF MemGood, Flushing, Counted
<1>3. \A x \in Ends : todo # <<x>> OBVIOUS
<1>4. CommittedKept'
  <2>1. CASE state = "tx"
    <3>1. PICK r \in Nat : RollAt(r) BY <2>1 DEF KInv, CommittedKept
    <3>2. RollAt(r)' BY <2>1, <3>1, <1>3 DEF RollAt, Closing
    <3> QED BY <2>1, <3>1, <3>2 DEF CommittedKept
  <2>2. CASE state = "idle" BY <2>2 DEF KInv, CommittedKept
  <2> QED BY <2>1, <2>2
<1>5. PendingKept' BY DEF KInv, PendingKept
<1>6. UnitsOk' BY DEF KInv, UnitsOk
<1>7. KInv' BY <1>1, <1>2, <1>4, <1>5, <1>6 DEF KInv
<1>8. Exact => Exact' BY DEF Exact, MemExact
<1> QED BY <1>7, <1>8

\* The places where the end of a transaction begins.
LEMMA EndPlaces ==
  ASSUME NEW e \in Ends, NEW t
  PROVE  /\ t = <<"index", "header", e>> =>
              /\ t # <<>> /\ Head(t) = "index" /\ t \notin InWrite
              /\ \A x \in Ends : t # <<x>> /\ t # <<"header", x>>
         /\ t = <<"prefix", "data", "index", "header", e>> =>
              /\ t # <<>> /\ Head(t) = "prefix" /\ t \notin InWrite
              /\ \A x \in Ends : t # <<x>> /\ t # <<"header", x>>
<1>1. e # "append" BY DEF Ends
<1>2. <<"index", "header", e>> \notin InWrite BY <1>1 DEF InWrite
<1>3. <<"prefix", "data", "index", "header", e>> \notin InWrite BY <1>1 DEF InWrite
<1>4. \A x : /\ <<"index", "header", e>> # <<x>> /\ <<"index", "header", e>> # <<"header", x>>
            /\ <<"prefix", "data", "index", "header", e>> # <<x>>
            /\ <<"prefix", "data", "index", "header", e>> # <<"header", x>>
  OBVIOUS
<1>5. /\ <<"index", "header", e>> # <<>> /\ Head(<<"index", "header", e>>) = "index"
      /\ <<"prefix", "data", "index", "header", e>> # <<>>
      /\ Head(<<"prefix", "data", "index", "header", e>>) = "prefix"
  OBVIOUS
<1> QED BY <1>2, <1>3, <1>4, <1>5, Zenon

\* A Commit or a Close begins.
LEMMA EndKept ==
  ASSUME BInv, KInv, state \in {"tx", "idle"}, todo = <<>>, NEW e \in Ends,
         todo' = flushBlock(mem) \o <<"index", "header", e>>,
         UNCHANGED <<disk, mem, state, lastOpenWrtOffset, effective, nextUnit, committed, pending>>
  PROVE  KInv' /\ (Exact => Exact')
<1>1. CASE mem.buf = <<>>
  <2>1. todo' = <<"index", "header", e>> BY <1>1 DEF flushBlock
  <2>2. /\ todo' # <<>> /\ Head(todo') = "index" /\ todo' \notin InWrite
        /\ \A x \in Ends : todo' # <<x>> /\ todo' # <<"header", x>>
    BY <2>1, EndPlaces
  <2> QED BY <1>1, <2>2, CallBegun
<1>2. CASE mem.buf # <<>>
  <2> DEFINE s == <<"prefix", "data">> \o <<"index", "header", e>>
  <2>1. todo' = s BY <1>2 DEF flushBlock
  <2>2. /\ Len(s) = 5 /\ s[1] = "prefix" /\ s[2] = "data" /\ s[3] = "index"
        /\ s[4] = "header" /\ s[5] = e /\ s \in Seq({"prefix", "data", "index", "header", e})
    OBVIOUS
  <2> HIDE DEF s
  <2>3. s = <<"prefix", "data", "index", "header", e>> BY <2>2
  <2>4. todo' = <<"prefix", "data", "index", "header", e>> BY <2>1, <2>3
  <2>5. /\ todo' # <<>> /\ Head(todo') = "prefix" /\ todo' \notin InWrite
        /\ \A x \in Ends : todo' # <<x>> /\ todo' # <<"header", x>>
    BY <2>4, EndPlaces
  <2> QED BY <1>2, <2>5, CallBegun
<1> QED BY <1>1, <1>2

\* Commit changes nothing yet.
LEMMA CommitKept == ASSUME BInv, KInv, Commit PROVE KInv' /\ (Exact => Exact')
BY EndKept DEF Commit, Ends, history

\* Cleanup changes nothing yet.
LEMMA CleanupKept == ASSUME BInv, KInv, Cleanup PROVE KInv' /\ (Exact => Exact')
BY EndKept DEF Cleanup, Ends, history

\* A unit is put in the buffer.
LEMMA UnitKept ==
  ASSUME BInv, KInv, state = "tx", \A x \in Ends : todo # <<x>>, Len(mem.buf) < BlockSize,
         mem' = AppendUnit(mem), todo' = <<>>, pending' = Append(pending, nextUnit),
         nextUnit' = nextUnit + 1,
         UNCHANGED <<disk, state, lastOpenWrtOffset, effective, committed>>
  PROVE  KInv' /\ (Exact => Exact')
<1> DEFINE e == mem.hdr.dataEnd
           n == Len(mem.buf)
           all == committed \o pending
<1>1. /\ MemGood /\ disk.hdr # NoHeader /\ mem \in Memory /\ mem.hdr \in HeaderType
      /\ mem.buf \in Block /\ mem.size = mem.hdr.total + Len(mem.buf)
  BY HandleFacts
<1>2. nextUnit \in Nat /\ nextUnit # NoUnit /\ committed \in Seq(Nat) /\ pending \in Seq(Nat)
  BY DEF BInv, KInv, UnitsOk
<1>3. /\ mem'.hdr = mem.hdr /\ mem'.idx = mem.idx /\ mem'.buf = Append(mem.buf, nextUnit)
      /\ mem'.size = mem.size + 1
  BY <1>1 DEF AppendUnit, Memory
<1>4. mem.buf \in Seq(Nat) /\ n \in Nat BY <1>1 DEF Block
<1>5. /\ DOMAIN mem'.buf = 1 .. n + 1 /\ DOMAIN mem.buf = 1 .. n
      /\ mem'.buf[n + 1] = nextUnit /\ \A j \in 1 .. n : mem'.buf[j] = mem.buf[j]
  BY <1>2, <1>3, <1>4
<1>51. n + 1 \in 1 .. n + 1 /\ (1 .. n) \subseteq (1 .. n + 1)
       /\ \A j \in 1 .. n + 1 : j \in 1 .. n \/ j = n + 1
  <2> HIDE DEF n
  <2> QED BY <1>4
<1> HIDE DEF n
<1>6. MemGood'
  <2>1. \A j \in DOMAIN mem'.buf : mem'.buf[j] # NoUnit BY <1>1, <1>2, <1>5, <1>51 DEF MemGood
  <2>2. <<>> \notin InWrite /\ \A x \in Ends : <<>> # <<"header", x>> BY DEF InWrite
  <2> QED BY <2>1, <2>2, <1>1, <1>3 DEF MemGood
<1>7. CommittedKept'
  <2>1. PICK r \in Nat : RollAt(r) BY DEF KInv, CommittedKept
  <2>2. RollAt(r)' BY <2>1, <1>3 DEF RollAt, Closing
  <2> QED BY <2>1, <2>2 DEF CommittedKept
<1>8. PendingKept'
  <2>1. ASSUME NEW i \in DOMAIN pending'
        PROVE  \/ Stored(disk, e, pending'[i])
               \/ \E j \in DOMAIN mem'.buf : mem'.buf[j] = pending'[i]
    <3>1. i \in 1 .. Len(pending) + 1 /\ Len(pending) \in Nat BY <1>2
    <3>2. CASE i = Len(pending) + 1
      <4>1. pending'[i] = nextUnit BY <3>2, <1>2
      <4> QED BY <4>1, <1>5, <1>51
    <3>3. CASE i \in 1 .. Len(pending)
      <4>1. pending'[i] = pending[i] /\ i \in DOMAIN pending BY <3>3, <1>2
      <4>2. Stored(disk, e, pending[i]) \/ \E j \in DOMAIN mem.buf : mem.buf[j] = pending[i]
        BY <4>1 DEF KInv, PendingKept
      <4> QED BY <4>1, <4>2, <1>5, <1>51
    <3> QED BY <3>1, <3>2, <3>3
  <2> QED BY <2>1, <1>3 DEF PendingKept
<1>9. UnitsOk' BY <1>2 DEF UnitsOk, NoUnit
<1>10. KInv' BY <1>1, <1>6, <1>7, <1>8, <1>9 DEF KInv
<1>11. ASSUME Exact PROVE Exact'
  <2>1. MemExact BY <1>11 DEF Exact
  <2>2. all \in Seq(Nat) /\ all' \in Seq(Nat) /\ Len(all) \in Nat /\ Len(all') = Len(all) + 1
        /\ all'[Len(all) + 1] = nextUnit
        /\ \A k \in 1 .. Len(all) : all'[k] = all[k]
    BY <1>2
  <2> HIDE DEF all
  <2>3. DOMAIN all = 1 .. Len(all) /\ DOMAIN all' = 1 .. Len(all) + 1 BY <2>2
  <2>4. \A k \in DOMAIN all : k \in DOMAIN all' /\ all'[k] = all[k] BY <2>2, <2>3
  <2>5. \A x : Holds(disk, x, all) => Holds(disk, x, all')
    <3> HIDE DEF all
    <3> QED BY <2>4 DEF Holds
  <2>6. \A j \in DOMAIN mem'.buf : mem'.buf[j] = all'[mem'.hdr.total + j]
    <3>1. Len(all) = mem.hdr.total + n /\ mem.hdr.total \in Nat
      BY <2>1, <1>1 DEF MemExact, HeaderType, all, n
    <3>2. ASSUME NEW j \in 1 .. n PROVE mem.buf[j] = all'[mem.hdr.total + j]
      <4>1. mem.buf[j] = all[mem.hdr.total + j] BY <2>1, <1>5 DEF MemExact, all
      <4>0. \A a, k \in Nat : \A i \in 1 .. k : a + i \in 1 .. a + k OBVIOUS
      <4>2. mem.hdr.total + j \in 1 .. Len(all) BY <4>0, <3>1, <1>4
      <4> QED BY <4>1, <4>2, <2>2
    <3>3. all'[mem.hdr.total + (n + 1)] = nextUnit
      <4>1. \A a, k \in Nat : a + (k + 1) = (a + k) + 1 OBVIOUS
      <4>2. mem.hdr.total + (n + 1) = Len(all) + 1 BY <4>1, <3>1, <1>4
      <4> QED BY <4>2, <2>2
    <3> QED BY <3>2, <3>3, <1>3, <1>5, <1>51
  <2>7. MemExact' BY <2>1, <2>2, <2>5, <2>6, <1>3 DEF MemExact, all
  <2> QED BY <2>5, <2>7, <1>11 DEF Exact, all
<1> QED BY <1>10, <1>11

\* The places where the flush of a full buffer begins.
LEMMA FlushPlaces ==
  /\ (<<"prefix", "data">> \o <<"header">>) \o <<"append">>
       = <<"prefix", "data", "header", "append">>
  /\ (<<"prefix", "data">> \o <<>>) \o <<"append">> = <<"prefix", "data", "append">>
<1> DEFINE S == {"prefix", "data", "header", "append"}
           s == (<<"prefix", "data">> \o <<"header">>) \o <<"append">>
           v == (<<"prefix", "data">> \o <<>>) \o <<"append">>
<1>1. s \in Seq(S) /\ Len(s) = 4 /\ s[1] = "prefix" /\ s[2] = "data" /\ s[3] = "header"
      /\ s[4] = "append"
  OBVIOUS
<1>2. v \in Seq(S) /\ Len(v) = 3 /\ v[1] = "prefix" /\ v[2] = "data" /\ v[3] = "append"
  OBVIOUS
<1> HIDE DEF s, v
<1>3. s = <<"prefix", "data", "header", "append">> BY <1>1
<1>4. v = <<"prefix", "data", "append">> BY <1>2
<1> QED BY <1>3, <1>4 DEF s, v

\* Write puts a unit in the buffer, or begins to flush the full buffer.
LEMMA WriteKept == ASSUME BInv, KInv, Write PROVE KInv' /\ (Exact => Exact')
<1>1. /\ state = "tx" /\ todo = <<>>
      /\ UNCHANGED <<disk, state, lastOpenWrtOffset, effective, committed>>
  BY DEF Write
<1>2. CASE Len(mem.buf) < BlockSize BY <1>1, <1>2, UnitKept DEF Write
<1>3. CASE ~(Len(mem.buf) < BlockSize)
  <2>1. mem \in Memory /\ mem.hdr \in HeaderType BY <1>1, HandleFacts
  <2>2. /\ mem' = [mem EXCEPT !.hdr.tx = "active"] /\ pending' = pending /\ nextUnit' = nextUnit
        /\ todo' = flushBlock(mem) \o (IF mem.hdr.tx = "done" THEN <<"header">> ELSE <<>>)
                                   \o <<"append">>
    BY <1>3 DEF Write
  <2>3. /\ mem'.hdr.dataEnd = mem.hdr.dataEnd /\ mem'.hdr.total = mem.hdr.total
        /\ mem'.idx = mem.idx /\ mem'.buf = mem.buf /\ mem'.size = mem.size
        /\ mem'.hdr.tx = "active"
    BY <2>1, <2>2 DEF Memory, HeaderType
  <2>4. mem.buf # <<>> BY <1>3
  <2>5. todo' \in {<<"prefix", "data", "append">>, <<"prefix", "data", "header", "append">>}
    <3>1. flushBlock(mem) = <<"prefix", "data">> BY <2>4 DEF flushBlock
    <3>0. todo' = <<"prefix", "data">> \o (IF mem.hdr.tx = "done" THEN <<"header">> ELSE <<>>)
                                      \o <<"append">>
      BY <2>2, <3>1
    <3>2. CASE mem.hdr.tx = "done" BY <3>0, <3>2, FlushPlaces
    <3>3. CASE mem.hdr.tx # "done" BY <3>0, <3>3, FlushPlaces
    <3> QED BY <3>2, <3>3
  <2>6. /\ todo' # <<>> /\ Head(todo') = "prefix"
        /\ \A x \in Ends : todo' # <<x>> /\ todo' # <<"header", x>>
    BY <2>5
  <2> QED BY <1>1, <2>2, <2>3, <2>4, <2>6, CallBegun
<1> QED BY <1>2, <1>3

\* The loop of Write puts the unit in the emptied buffer.
LEMMA WriteRestKept == ASSUME BInv, KInv, WriteRest PROVE KInv' /\ (Exact => Exact')
<1>1. todo = <<"append">> /\ todo # <<>> BY DEF WriteRest
<1>2. state \in {"tx", "idle"} BY <1>1 DEF BInv
<1>3. MemGood /\ TodoOk BY <1>2, HandleFacts
<1>4. mem.buf = <<>> BY <1>1, <1>3 DEF TodoOk
<1>5. todo \in InWrite BY <1>1 DEF InWrite
<1>6. state = "tx" BY <1>2, <1>3, <1>5 DEF MemGood
<1>7. \A x \in Ends : todo # <<x>> BY <1>1 DEF Ends
<1>8. Len(mem.buf) < BlockSize BY <1>4
<1> QED BY <1>6, <1>7, <1>8, UnitKept DEF WriteRest

\* What was appended is stored when both parts are.
LEMMA StoredBoth ==
  ASSUME NEW d, NEW e, NEW s \in Seq(Nat), NEW v \in Seq(Nat),
         StoredAll(d, e, s), StoredAll(d, e, v)
  PROVE  StoredAll(d, e, s \o v)
<1>1. ASSUME NEW i \in DOMAIN (s \o v) PROVE Stored(d, e, (s \o v)[i])
  <2>1. i \in 1 .. Len(s) + Len(v) /\ Len(s) \in Nat /\ Len(v) \in Nat OBVIOUS
  <2>2. CASE i <= Len(s)
    <3>1. (s \o v)[i] = s[i] /\ i \in DOMAIN s BY <2>1, <2>2
    <3> QED BY <3>1 DEF StoredAll
  <2>3. CASE i > Len(s)
    <3>1. (s \o v)[i] = v[i - Len(s)] /\ i - Len(s) \in DOMAIN v BY <2>1, <2>3
    <3> QED BY <3>1 DEF StoredAll
  <2> QED BY <2>1, <2>2, <2>3
<1> QED BY <1>1 DEF StoredAll

\* The transaction's last header is on disk: everything is below DataEnd.
LEMMA EndReached ==
  ASSUME BInv, KInv, state \in {"tx", "idle"}, NEW x \in Ends, todo = <<x>>
  PROVE  /\ mem.buf = <<>> /\ disk.hdr = mem.hdr /\ disk.hdr.tx = "done" /\ Clean(disk)
         /\ StoredAll(disk, disk.hdr.dataEnd, committed)
         /\ StoredAll(disk, disk.hdr.dataEnd, pending)
<1>1. MemGood /\ TodoOk /\ todo \in Forms /\ mem.hdr.dataEnd \in Nat \ {0} BY HandleFacts
<1>2. disk.hdr = mem.hdr /\ Indexed(mem.hdr, disk.cells) BY <1>1 DEF TodoOk
<1>3. Head(todo) \notin {"prefix", "data"} /\ todo # <<>> BY DEF Ends
<1>4. mem.buf = <<>> BY <1>1, <1>3 DEF MemGood, Flushing
<1>5. disk.hdr.tx = "done" /\ Clean(disk) BY <1>2 DEF Clean, Indexed
<1>6. CASE state = "tx"
  <2>1. PICK r \in Nat : RollAt(r) BY <1>6 DEF KInv, CommittedKept
  <2>2. r \in 1 .. disk.hdr.dataEnd /\ StoredAll(disk, r, committed) BY <2>1 DEF RollAt
  <2>3. StoredAll(disk, disk.hdr.dataEnd, committed) BY <2>2, <1>1, <1>2, StoredMore
  <2>4. StoredAll(disk, disk.hdr.dataEnd, pending)
    BY <1>2, <1>4, <1>6 DEF KInv, PendingKept, StoredAll
  <2> QED BY <2>3, <2>4, <1>2, <1>4, <1>5
<1>7. CASE state = "idle" BY <1>2, <1>4, <1>5, <1>7 DEF KInv, CommittedKept, StoredAll
<1> QED BY <1>6, <1>7

\* The commit is complete.
LEMMA CommitDoneKept == ASSUME BInv, KInv, CommitDone PROVE KInv' /\ (Exact => Exact')
<1> DEFINE all == committed \o pending
<1>1. /\ todo = <<"commit">> /\ state' = "idle" /\ todo' = <<>> /\ committed' = all
      /\ pending' = <<>> /\ UNCHANGED <<disk, mem, lastOpenWrtOffset, effective, nextUnit, crashes>>
  BY DEF CommitDone, counters
<1>2. todo # <<>> /\ state \in {"tx", "idle"} BY <1>1 DEF BInv
<1>3. /\ mem.buf = <<>> /\ disk.hdr = mem.hdr /\ disk.hdr.tx = "done" /\ Clean(disk)
      /\ StoredAll(disk, disk.hdr.dataEnd, committed)
      /\ StoredAll(disk, disk.hdr.dataEnd, pending)
  BY <1>1, <1>2, EndReached DEF Ends
<1>4. UnitsOk BY DEF KInv
<1>5. all \in Seq(Nat) /\ <<>> \in Seq(Nat) BY <1>4 DEF UnitsOk
<1>6. StoredAll(disk, disk.hdr.dataEnd, all) BY <1>3, <1>4, StoredBoth DEF UnitsOk
<1>7. MemGood /\ disk.hdr # NoHeader BY <1>2, HandleFacts
<1>8. mem.hdr.dataEnd \in Nat BY <1>2, HandleFacts
<1>9. MemGood'
  <2>1. <<>> \notin InWrite /\ \A x \in Ends : <<>> # <<"header", x>> BY DEF InWrite
  <2> QED BY <2>1, <1>1, <1>3, <1>7, <1>8 DEF MemGood
<1> HIDE DEF all
<1>10. CommittedKept' BY <1>1, <1>6 DEF CommittedKept
<1>11. PendingKept' /\ UnitsOk' BY <1>1, <1>4, <1>5 DEF PendingKept, UnitsOk
<1>12. KInv' BY <1>1, <1>7, <1>9, <1>10, <1>11 DEF KInv
<1>13. ASSUME Exact PROVE Exact'
  <2>1. committed' \o pending' = all BY <1>1, <1>5
  <2>2. MemExact /\ Full(disk) /\ Holds(disk, disk.hdr.dataEnd, all)
    BY <1>2, <1>13 DEF Exact, all
  <2>3. MemExact' BY <2>1, <2>2, <1>1 DEF MemExact, all
  <2>4. Len(all) = disk.hdr.total
    <3>1. mem.size = mem.hdr.total + Len(mem.buf) /\ mem.hdr.total \in Nat
      BY <1>2, HandleFacts DEF HeaderType
    <3>2. Len(mem.buf) = 0 BY <1>3
    <3> QED BY <3>1, <3>2, <2>2, <1>3 DEF MemExact, all
  <2> QED BY <2>1, <2>2, <2>3, <2>4, <1>1, <1>3 DEF Exact
<1> QED BY <1>12, <1>13

\* The close is complete: in a transaction the file waits for the others to commit.
LEMMA CloseDoneKept == ASSUME BInv, KInv, CloseDone PROVE KInv' /\ (Exact => Exact')
<1> DEFINE all == committed \o pending
<1>1. /\ todo = <<"close">> /\ todo' = <<>>
      /\ state' = IF state = "tx" THEN "rotated" ELSE "closed"
      /\ UNCHANGED <<disk, lastOpenWrtOffset, effective, nextUnit, committed, pending, crashes>>
  BY DEF CloseDone, counters, history
<1>2. todo # <<>> /\ state \in {"tx", "idle"} BY <1>1 DEF BInv
<1>3. /\ mem.buf = <<>> /\ disk.hdr = mem.hdr /\ disk.hdr.tx = "done" /\ Clean(disk)
      /\ StoredAll(disk, disk.hdr.dataEnd, committed)
      /\ StoredAll(disk, disk.hdr.dataEnd, pending)
  BY <1>1, <1>2, EndReached DEF Ends
<1>4. disk.hdr # NoHeader BY <1>2, HandleFacts
<1>5. UnitsOk' /\ PendingKept' BY <1>1 DEF KInv, UnitsOk, PendingKept
<1>6. CommittedKept'
  <2>1. CASE state = "tx"
    <3>1. PICK r \in Nat : RollAt(r) BY <2>1 DEF KInv, CommittedKept
    <3>2. RollAt(r)' BY <2>1, <3>1, <1>1 DEF RollAt, Closing
    <3> QED BY <2>1, <3>1, <3>2, <1>1 DEF CommittedKept
  <2>2. CASE state = "idle" BY <2>2, <1>1 DEF KInv, CommittedKept
  <2> QED BY <2>1, <2>2, <1>2
<1>7. KInv' BY <1>1, <1>2, <1>3, <1>4, <1>5, <1>6 DEF KInv
<1>8. ASSUME Exact PROVE Exact'
  <2>1. MemExact BY <1>2, <1>8 DEF Exact
  <2>2. Len(all) = disk.hdr.total
    <3>1. mem.size = mem.hdr.total + Len(mem.buf) /\ mem.hdr.total \in Nat
      BY <1>2, HandleFacts DEF HeaderType
    <3>2. Len(mem.buf) = 0 BY <1>3
    <3> QED BY <3>1, <3>2, <2>1, <1>3 DEF MemExact
  <2> QED BY <2>2, <1>1, <1>2, <1>3, <1>8 DEF Exact
<1> QED BY <1>7, <1>8

\* The committed units are below DataEnd whatever the state.
LEMMA BelowEnd ==
  ASSUME BInv, KInv
  PROVE  StoredAll(disk, disk.hdr.dataEnd, committed)
<1>1. CASE state \in {"tx", "rotated"}
  <2>1. PICK r \in Nat : RollAt(r) BY <1>1 DEF KInv, CommittedKept
  <2>2. r \in 1 .. disk.hdr.dataEnd /\ StoredAll(disk, r, committed) BY <2>1 DEF RollAt
  <2>3. disk.hdr.dataEnd \in Nat BY DEF BInv, FileOk, File, HeaderType
  <2> QED BY <2>2, <2>3, StoredMore
<1>2. CASE state \notin {"tx", "rotated"} BY <1>2 DEF KInv, CommittedKept
<1> QED BY <1>1, <1>2

\* The other segments have committed.
LEMMA CommitRotatedKept == ASSUME BInv, KInv, CommitRotated PROVE KInv' /\ (Exact => Exact')
<1> DEFINE all == committed \o pending
<1>1. /\ state = "rotated" /\ state' = "sealed" /\ committed' = all /\ pending' = <<>>
      /\ UNCHANGED <<disk, mem, todo, lastOpenWrtOffset, effective, nextUnit, crashes>>
  BY DEF CommitRotated, counters
<1>2. UnitsOk BY DEF KInv
<1>3. all \in Seq(Nat) /\ <<>> \in Seq(Nat) BY <1>2 DEF UnitsOk
<1>4. StoredAll(disk, disk.hdr.dataEnd, all) BY <1>1, <1>2, BelowEnd, StoredBoth DEF KInv, UnitsOk
<1> HIDE DEF all
<1>5. CommittedKept' BY <1>1, <1>4 DEF CommittedKept
<1>6. UnitsOk' /\ PendingKept' BY <1>1, <1>2, <1>3 DEF UnitsOk, PendingKept
<1>7. KInv' BY <1>1, <1>5, <1>6 DEF KInv
<1>8. ASSUME Exact PROVE Exact'
  <2>1. committed' \o pending' = all BY <1>1, <1>3
  <2> QED BY <2>1, <1>1, <1>8 DEF Exact, all
<1> QED BY <1>7, <1>8

\* The process stops: the committed units are on disk.
LEMMA StoppedKept ==
  ASSUME BInv, KInv, Stopped
  PROVE  KInv' /\ (Exact /\ state = "closed" => Exact')
<1>1. /\ state' = "down" /\ pending' = <<>>
      /\ UNCHANGED <<disk, lastOpenWrtOffset, effective, nextUnit, committed>>
  BY DEF Stopped
<1>2. CommittedKept' BY <1>1, BelowEnd DEF CommittedKept
<1>3. <<>> \in Seq(Nat) OBVIOUS
<1>4. UnitsOk' /\ PendingKept' BY <1>1, <1>3 DEF KInv, UnitsOk, PendingKept
<1>5. KInv' BY <1>1, <1>2, <1>4 DEF KInv
<1>6. ASSUME Exact, state = "closed" PROVE Exact'
  <2>1. pending = <<>> BY <1>6 DEF KInv, CommittedKept
  <2> QED BY <2>1, <1>1, <1>6 DEF Exact
<1> QED BY <1>5, <1>6

\* A clean file is opened as it is, or given its first header.
LEMMA Reopened ==
  ASSUME NEW d, FileOk(d), DiskGood(d), Clean(d)
  PROVE  LET o == OpenBlockFile(d)
             f == o[1]
         IN /\ f.hdr = o[2].hdr /\ f.hdr # NoHeader /\ f.hdr.tx = "done" /\ o[2].buf = <<>>
            /\ FileOk(f) /\ HandleOk(o[2], f) /\ Clean(f) /\ DiskGood(f)
            /\ Counted(f, f.hdr) /\ Lists(f, o[2].idx, f.hdr.dataEnd)
            /\ o[2].size = f.hdr.total /\ o[2].idx = Listed(f)
            /\ d.hdr # NoHeader => f = d
            /\ d.hdr = NoHeader => f.hdr.dataEnd = 1 /\ f.hdr.total = 0 /\ f.hdr.index = 0
<1> DEFINE o == OpenBlockFile(d)
           f == o[1]
<1>1. /\ FileOk(f) /\ Clean(f) /\ f.hdr = o[2].hdr /\ HandleOk(o[2], f)
      /\ o[2].hdr.tx = "done" /\ o[2].buf = <<>> /\ o[2].size = o[2].hdr.total
  BY OpenBlockFileOk DEF Opened
<1>2. f.hdr # NoHeader BY <1>1 DEF NoHeader
<1>3. CASE d.hdr # NoHeader
  <2>1. d.hdr.tx = "done" /\ (d.hdr.index > 0 => HasIndex(d))
    BY <1>3 DEF Clean, Indexed, HasIndex
  <2>2. o[1] = d /\ o[2].idx = Listed(d) BY <1>3, <2>1, OpenGood
  <2> HIDE DEF o
  <2>3. Counted(d, d.hdr) /\ Lists(d, Listed(d), d.hdr.dataEnd) BY <1>3 DEF DiskGood
  <2> QED BY <2>2, <2>3, <1>1, <1>2, <1>3 DEF o
<1>4. CASE d.hdr = NoHeader
  <2> DEFINE n == [tx |-> "done", total |-> 0, dataEnd |-> HeaderSize, index |-> 0]
  <2>0. d.hdr.tx # "active" /\ d.hdr.tx # "done" BY <1>4 DEF NoHeader
  <2>1. o = <<[d EXCEPT !.hdr = n], Handle(n, <<>>, HeaderSize, 0)>>
    BY <1>4, <2>0 DEF OpenBlockFile
  <2>2. o[2].hdr = n /\ o[2].idx = <<>> BY <2>1 DEF Handle
  <2> HIDE DEF o
  <2>3. f.hdr.dataEnd = 1 /\ f.hdr.total = 0 /\ f.hdr.index = 0 BY <2>2, <1>1
  <2>4. ~HasIndex(f) /\ Listed(f) = <<>> BY <2>3 DEF HasIndex, Listed
  <2>5. Solid(f, 1) BY DEF Solid
  <2>6. Counted(f, f.hdr) BY <2>3, <2>5, RawOffFirst DEF Counted
  <2>7. Lists(f, <<>>, 1) BY ListsNone
  <2>8. DiskGood(f) BY <2>3, <2>4, <2>6, <2>7 DEF DiskGood
  <2> QED BY <2>2, <2>3, <2>4, <2>6, <2>7, <2>8, <1>1, <1>2, <1>4 DEF o
<1> QED BY <1>3, <1>4

\* The index of a clean file lists every block when it is full.
LEMMA FullListed ==
  ASSUME NEW d, FileOk(d), Clean(d), Full(d), d.hdr # NoHeader
  PROVE  Len(Listed(d)) = d.hdr.dataEnd - 1
<1>1. d.hdr.tx = "done" /\ (d.hdr.index > 0 => HasIndex(d)) BY DEF Clean, Indexed, HasIndex
<1>2. d.hdr \in HeaderType /\ HeaderOk(d.hdr, d.cells) /\ d.cells \in Seq(Cells)
  BY DEF FileOk, File
<1>3. CASE HasIndex(d) BY <1>1, <1>3 DEF Full
<1>4. CASE ~HasIndex(d)
  <2>1. d.hdr.index = 0 BY <1>1, <1>2, <1>4 DEF HeaderType
  <2>2. d.hdr.dataEnd \in {0, 1} /\ d.hdr.dataEnd \in 1 .. Len(d.cells) + 1
    BY <2>1, <1>1, <1>2, <1>4 DEF Full, HeaderOk
  <2>3. d.hdr.dataEnd = 1 BY <2>2, <1>2
  <2>4. Listed(d) = <<>> BY <1>4 DEF Listed
  <2> QED BY <2>3, <2>4
<1> QED BY <1>3, <1>4

\* An empty file holds the empty sequence.
LEMMA HoldsNone ==
  ASSUME NEW d, NEW s
  PROVE  Holds(d, 1, s)
BY DEF Holds

\* A transaction begins at a block boundary, above everything committed.
LEMMA OpenWriterKept == ASSUME BInv, KInv, OpenWriter PROVE KInv' /\ (Exact => Exact')
<1>1. /\ state \in {"closed", "idle"} /\ todo = <<>> /\ todo' = <<>> /\ state' = "tx"
      /\ UNCHANGED <<effective, nextUnit, committed, pending, crashes>>
  BY DEF OpenWriter, history, counters
<1>2. pending = <<>> /\ StoredAll(disk, disk.hdr.dataEnd, committed)
  BY <1>1 DEF KInv, CommittedKept
<1>3. UnitsOk' /\ PendingKept' BY <1>1, <1>2 DEF KInv, UnitsOk, PendingKept
<1>4. <<>> \notin InWrite /\ \A x \in Ends : <<>> # <<"header", x>> BY DEF InWrite
<1>5. UnitsOk BY DEF KInv
<1>6. committed \o pending = committed BY <1>2, <1>5 DEF UnitsOk
<1>7. CASE state = "idle"
  <2>1. disk' = disk /\ mem' = mem /\ lastOpenWrtOffset' = mem.size BY <1>7 DEF OpenWriter
  <2>2. /\ MemGood /\ disk.hdr # NoHeader /\ mem.hdr.dataEnd \in Nat \ {0}
        /\ mem.idx \in Seq(Entry) /\ mem.hdr \in HeaderType
        /\ mem.size = mem.hdr.total + Len(mem.buf) /\ disk.hdr.dataEnd \in 1 .. mem.hdr.dataEnd
    BY <1>7, HandleFacts
  <2>3. mem.buf = <<>> /\ disk.hdr.dataEnd = mem.hdr.dataEnd BY <1>7, <2>2 DEF MemGood
  <2>4. mem.size = mem.hdr.total
    <3>1. Len(mem.buf) = 0 /\ mem.hdr.total \in Nat BY <2>2, <2>3 DEF HeaderType
    <3> QED BY <3>1, <2>2
  <2>5. RawOff(disk, disk.hdr.dataEnd) = mem.size BY <2>2, <2>3, <2>4 DEF MemGood, Counted
  <2>6. mem.hdr.dataEnd - Len(mem.idx) <= mem.hdr.dataEnd
    <3>1. Len(mem.idx) \in Nat BY <2>2
    <3> QED BY <3>1, <2>2
  <2>7. RollAt(disk.hdr.dataEnd)'
    <3>1. disk.hdr.dataEnd \in 1 .. disk.hdr.dataEnd BY <2>2
    <3> QED BY <3>1, <2>1, <2>3, <2>5, <2>6, <1>1, <1>2 DEF RollAt
  <2>8. CommittedKept'
    <3>1. disk'.hdr.dataEnd \in Nat BY <2>1, <2>2
    <3> QED BY <3>1, <2>1, <2>7, <1>1 DEF CommittedKept
  <2>9. MemGood' BY <2>1, <2>2, <1>1, <1>4 DEF MemGood, Flushing
  <2>10. KInv' BY <2>1, <2>2, <2>8, <2>9, <1>1, <1>3 DEF KInv
  <2>11. Exact => Exact' BY <2>1, <1>1, <1>2, <1>6, <1>7 DEF Exact, MemExact
  <2> QED BY <2>10, <2>11
<1>8. CASE state = "closed"
  <2> DEFINE o == OpenBlockFile(disk)
  <2>1. disk' = o[1] /\ mem' = o[2] /\ lastOpenWrtOffset' = mem'.size BY <1>8 DEF OpenWriter
  <2>2. FileOk(disk) /\ DiskGood(disk) /\ Clean(disk) BY <1>8 DEF BInv, KInv
  <2> HIDE DEF o
  <2>3. /\ disk'.hdr = mem'.hdr /\ disk'.hdr # NoHeader /\ disk'.hdr.tx = "done"
        /\ mem'.buf = <<>> /\ FileOk(disk') /\ HandleOk(mem', disk') /\ Clean(disk')
        /\ DiskGood(disk') /\ Counted(disk', disk'.hdr)
        /\ Lists(disk', mem'.idx, disk'.hdr.dataEnd)
        /\ mem'.size = disk'.hdr.total /\ mem'.idx = Listed(disk')
        /\ disk.hdr # NoHeader => disk' = disk
        /\ disk.hdr = NoHeader =>
             disk'.hdr.dataEnd = 1 /\ disk'.hdr.total = 0 /\ disk'.hdr.index = 0
    BY <2>1, <2>2, Reopened DEF o
  <2>4. disk'.hdr \in HeaderType /\ HeaderOk(disk'.hdr, disk'.cells) /\ disk'.cells \in Seq(Cells)
    BY <2>3 DEF FileOk, File
  <2>5. disk'.hdr.dataEnd \in Nat \ {0} BY <2>4 DEF HeaderOk, HeaderType
  <2>6. StoredAll(disk', disk'.hdr.dataEnd, committed)
    <3>1. CASE disk.hdr # NoHeader BY <3>1, <2>3, <1>2
    <3>2. CASE disk.hdr = NoHeader BY <3>2 DEF KInv, StoredAll
    <3> QED BY <3>1, <3>2
  <2>7. RollAt(disk.hdr.dataEnd)'
    <3>1. RawOff(disk', disk'.hdr.dataEnd) = lastOpenWrtOffset' BY <2>1, <2>3 DEF Counted
    <3>2. mem'.idx \in Seq(Entry) BY <2>3 DEF HandleOk, Memory
    <3>3. Len(mem'.idx) \in Nat BY <3>2
    <3>4. mem'.hdr.dataEnd - Len(mem'.idx) <= disk'.hdr.dataEnd BY <3>3, <2>3, <2>5
    <3>5. disk'.hdr.dataEnd \in 1 .. disk'.hdr.dataEnd BY <2>5
    <3> QED BY <3>1, <3>4, <3>5, <2>6, <1>1 DEF RollAt
  <2>8. CommittedKept' BY <2>5, <2>7, <1>1 DEF CommittedKept
  <2>9. MemGood' BY <2>3, <2>5, <1>1, <1>4 DEF MemGood, Flushing
  <2>10. KInv' BY <2>3, <2>8, <2>9, <1>1, <1>3 DEF KInv
  <2>11. ASSUME Exact PROVE Exact'
    <3>1. Full(disk') /\ Holds(disk', disk'.hdr.dataEnd, committed)
          /\ Len(committed) = disk'.hdr.total
      <4>1. CASE disk.hdr # NoHeader BY <4>1, <2>3, <2>11, <1>6, <1>8 DEF Exact
      <4>2. CASE disk.hdr = NoHeader
        <5>1. Full(disk') BY <4>2, <2>3 DEF Full, HasIndex
        <5>2. Len(committed) = 0 BY <4>2 DEF KInv
        <5> QED BY <4>2, <5>1, <5>2, <2>3, HoldsNone
      <4> QED BY <4>1, <4>2
    <3>2. Len(mem'.idx) = disk'.hdr.dataEnd - 1 BY <3>1, <2>3, FullListed
    <3>3. MemExact' BY <3>1, <3>2, <2>3, <1>1, <1>6 DEF MemExact
    <3> QED BY <3>1, <3>3, <2>1, <2>3, <1>1, <1>6 DEF Exact
  <2> QED BY <2>10, <2>11
<1> QED BY <1>1, <1>7, <1>8

\* The inspection reads everything or nothing.
LEMMA InspectReadKept == ASSUME BInv, KInv, InspectRead PROVE KInv' /\ (Exact => Exact')
<1> DEFINE o == OpenBlockFile(disk)
<1>1. /\ state = "down" /\ disk' = o[1] /\ state' = "inspect"
      /\ effective' = Len(ReadUpTo(disk', o[2].idx, o[2].size))
      /\ UNCHANGED <<nextUnit, committed, pending, crashes>>
  BY DEF InspectRead, ScanOpen, history, counters
<1>2. pending = <<>> /\ StoredAll(disk, disk.hdr.dataEnd, committed) /\ UnitsOk
  BY <1>1 DEF KInv, CommittedKept
<1>3. UnitsOk' /\ PendingKept' BY <1>1, <1>2 DEF UnitsOk, PendingKept
<1>4. FileOk(disk) /\ DiskGood(disk) BY DEF BInv, KInv
<1>5. committed \o pending = committed BY <1>2 DEF UnitsOk
<1>6. FileOk(o[1]) /\ o[1].hdr = o[2].hdr /\ HandleOk(o[2], o[1]) /\ o[2].hdr.tx = "done"
  BY <1>4, OpenBlockFileOk DEF Opened
<1> HIDE DEF o
<1>7. disk'.hdr # NoHeader BY <1>1, <1>6 DEF NoHeader
<1>8. disk'.hdr.dataEnd \in Nat \ {0}
  BY <1>1, <1>6, <1>7 DEF FileOk, File, HeaderType, HeaderOk
<1>9. o[2].idx \in Seq(Entry) BY <1>6 DEF HandleOk, Memory
<1>10. /\ DiskGood(disk') /\ Counted(disk', disk'.hdr)
       /\ Lists(disk', o[2].idx, disk'.hdr.dataEnd) /\ o[2].size \in {0, disk'.hdr.total}
       /\ StoredAll(disk', disk'.hdr.dataEnd, committed)
  <2>1. CASE disk.hdr # NoHeader
    <3>1. /\ Agree(disk', disk, disk.hdr.dataEnd) /\ disk'.hdr.dataEnd = disk.hdr.dataEnd
          /\ disk'.hdr.total = disk.hdr.total /\ DiskGood(disk') /\ Counted(disk', disk'.hdr)
          /\ Lists(disk', o[2].idx, disk'.hdr.dataEnd) /\ o[2].size \in {0, disk'.hdr.total}
      BY <2>1, <1>1, <1>4, <1>6, OpenGood DEF o
    <3>2. StoredAll(disk', disk'.hdr.dataEnd, committed) BY <3>1, <1>2, <1>8, SameBelow
    <3> QED BY <3>1, <3>2
  <2>2. CASE disk.hdr = NoHeader
    <3>1. Clean(disk) BY <2>2 DEF Clean
    <3>2. /\ DiskGood(disk') /\ Counted(disk', disk'.hdr) /\ o[2].size = disk'.hdr.total
          /\ Lists(disk', o[2].idx, disk'.hdr.dataEnd)
      BY <3>1, <1>1, <1>4, Reopened DEF o
    <3>3. StoredAll(disk', disk'.hdr.dataEnd, committed) BY <2>2 DEF KInv, StoredAll
    <3> QED BY <3>2, <3>3
  <2> QED BY <2>1, <2>2
<1>11. effective' \in {0, disk'.hdr.total}
  <2>1. Solid(disk', disk'.hdr.dataEnd) /\ disk'.hdr.total = RawOff(disk', disk'.hdr.dataEnd)
    BY <1>10 DEF Counted
  <2>2. Len(ReadUpTo(disk', o[2].idx, o[2].size)) \in {0, RawOff(disk', disk'.hdr.dataEnd)}
    BY <2>1, <1>8, <1>9, <1>10, ReadSome
  <2> QED BY <2>1, <2>2, <1>1
<1>12. CommittedKept' BY <1>1, <1>2, <1>10 DEF CommittedKept
<1>13. KInv' BY <1>1, <1>3, <1>7, <1>10, <1>11, <1>12 DEF KInv
<1>14. ASSUME Exact PROVE Exact'
  <2>1. Clean(disk) BY <1>1, <1>14 DEF Exact
  <2>2. /\ disk.hdr # NoHeader => disk' = disk
        /\ disk.hdr = NoHeader =>
             disk'.hdr.dataEnd = 1 /\ disk'.hdr.total = 0 /\ disk'.hdr.index = 0
        /\ Clean(disk')
    BY <2>1, <1>1, <1>4, Reopened DEF o
  <2>3. Full(disk') /\ Holds(disk', disk'.hdr.dataEnd, committed)
        /\ Len(committed) = disk'.hdr.total
    <3>1. CASE disk.hdr # NoHeader BY <3>1, <2>2, <1>1, <1>5, <1>14 DEF Exact
    <3>2. CASE disk.hdr = NoHeader
      <4>1. Full(disk') BY <3>2, <2>2 DEF Full, HasIndex
      <4>2. Len(committed) = 0 BY <3>2 DEF KInv
      <4> QED BY <3>2, <4>1, <4>2, <2>2, HoldsNone
    <3> QED BY <3>1, <3>2
  <2> QED BY <2>2, <2>3, <1>1, <1>5 DEF Exact
<1> QED BY <1>13, <1>14

\* The inspection closes the file again and cuts nothing.
LEMMA InspectTruncateKept ==
  ASSUME BInv, KInv, InspectTruncate
  PROVE  KInv' /\ (Exact => Exact')
<1> DEFINE o == OpenBlockFile(disk)
           e == disk.hdr.dataEnd
<1>1. /\ state = "inspect" /\ state' = "closed"
      /\ UNCHANGED <<nextUnit, committed, pending, crashes>>
  BY DEF InspectTruncate, history, counters
<1>2. pending = <<>> /\ StoredAll(disk, e, committed) /\ UnitsOk /\ disk.hdr # NoHeader
      /\ effective \in {0, disk.hdr.total}
  BY <1>1 DEF KInv, CommittedKept
<1>3. FileOk(disk) /\ DiskGood(disk) /\ Clean(disk) /\ effective \in Nat BY <1>1 DEF BInv, KInv
<1>4. /\ o[1] = disk /\ HandleOk(o[2], disk) /\ o[2].hdr = disk.hdr /\ o[2].size = disk.hdr.total
      /\ Counted(disk, disk.hdr) /\ Lists(disk, o[2].idx, e) /\ o[2].idx = Listed(disk)
  BY <1>2, <1>3, Reopened
<1>5. CASE effective > 0
  <2>1. disk' = CloseOn(disk, o[2])
    <3>1. effective = o[2].size /\ o[2].size \in Nat BY <1>2, <1>3, <1>4, <1>5
    <3>2. ~(effective < o[2].size) BY <3>1
    <3> HIDE DEF o
    <3> QED BY <3>2, <1>4, <1>5 DEF InspectTruncate, o
  <2> HIDE DEF o
  <2>2. /\ Agree(disk', disk, e) /\ disk'.hdr.dataEnd = e /\ disk'.hdr.total = disk.hdr.total
        /\ disk'.hdr.tx = "done" /\ disk'.hdr # NoHeader /\ HasIndex(disk')
        /\ Listed(disk') = o[2].idx /\ DiskGood(disk')
    BY <2>1, <1>3, <1>4, CloseGood
  <2>3. e \in Nat \ {0} BY <1>2, <1>3 DEF FileOk, File, HeaderType, HeaderOk
  <2>4. StoredAll(disk', e, committed) BY <2>2, <2>3, <1>2, SameBelow
  <2>5. CommittedKept' BY <2>2, <2>4, <1>1, <1>2 DEF CommittedKept
  <2>6. UnitsOk' /\ PendingKept' BY <1>1, <1>2 DEF UnitsOk, PendingKept
  <2>7. KInv' BY <2>2, <2>5, <2>6, <1>1 DEF KInv
  <2>8. ASSUME Exact PROVE Exact'
    <3>1. Full(disk) /\ Holds(disk, e, committed \o pending) BY <2>8 DEF Exact
    <3>2. Len(Listed(disk)) = e - 1 BY <3>1, <1>2, <1>3, FullListed
    <3>3. Full(disk') BY <3>2, <2>2, <1>4 DEF Full
    <3>4. Holds(disk', e, committed \o pending) BY <3>1, <2>2, <2>3, SameBelow
    <3>5. Clean(disk') BY <2>1, <1>3, <1>4, CloseOnOk
    <3> QED BY <3>3, <3>4, <3>5, <2>2, <2>8, <1>1 DEF Exact
  <2> QED BY <2>7, <2>8
<1>6. CASE ~(effective > 0)
  <2>1. disk' = disk BY <1>6 DEF InspectTruncate
  <2>2. CommittedKept' BY <2>1, <1>1, <1>2 DEF CommittedKept
  <2>3. UnitsOk' /\ PendingKept' BY <1>1, <1>2 DEF UnitsOk, PendingKept
  <2>4. KInv' BY <2>1, <2>2, <2>3, <1>1, <1>2, <1>3 DEF KInv
  <2>5. Exact => Exact' BY <2>1, <1>1 DEF Exact
  <2> QED BY <2>4, <2>5
<1> QED BY <1>5, <1>6

\* The blocks before a boundary hold the units up to it.
LEMMA HoldsPrefix ==
  ASSUME NEW d, NEW e \in Nat \ {0}, Solid(d, e), NEW r \in 1 .. e, NEW s \in Seq(Nat),
         NEW v \in Seq(Nat), Holds(d, e, s \o v), RawOff(d, r) = Len(s)
  PROVE  Holds(d, r, s)
<1>1. ASSUME NEW p \in 1 .. r - 1, NEW j \in DOMAIN d.cells[p].units
      PROVE  RawOff(d, p) + j \in DOMAIN s /\ d.cells[p].units[j] = s[RawOff(d, p) + j]
  <2> DEFINE n == Len(d.cells[p].units)
             k == RawOff(d, p) + j
  <2>1. p \in 1 .. e - 1 /\ p \in 1 .. e /\ p < r BY <1>1
  <2>2. RawOff(d, p) + n <= RawOff(d, r) /\ RawOff(d, p) \in Nat /\ n \in Nat
    BY <2>1, RawOffStrict
  <2>3. d.cells[p].units \in Block BY <2>1 DEF Solid
  <2>4. j \in 1 .. n
    <3>1. d.cells[p].units \in Seq(Nat) BY <2>3 DEF Block
    <3>2. DOMAIN d.cells[p].units = 1 .. n BY <3>1
    <3> QED BY <3>2
  <2>5. k \in DOMAIN (s \o v) /\ d.cells[p].units[j] = (s \o v)[k] BY <1>1, <2>1 DEF Holds
  <2>6. k \in 1 .. Len(s)
    <3>1. \A a, b, c \in Nat : \A i \in 1 .. b : a + b <= c => a + i \in 1 .. c OBVIOUS
    <3>2. Len(s) \in Nat OBVIOUS
    <3> HIDE DEF n
    <3> QED BY <3>1, <3>2, <2>2, <2>4
  <2> HIDE DEF k
  <2>7. (s \o v)[k] = s[k] /\ k \in DOMAIN s BY <2>6
  <2> QED BY <2>5, <2>7 DEF k
<1> QED BY <1>1 DEF Holds

\* A rollback opens the file with an index that reaches down to the rollback point.
LEMMA RollbackOpens ==
  ASSUME BInv, KInv, NEW r \in Nat, RollAt(r), disk.hdr # NoHeader
  PROVE  LET o == OpenBlockFile(disk)
             b == disk.hdr.dataEnd
         IN /\ b - Len(o[2].idx) <= r
            /\ Full(disk) => Len(o[2].idx) = b - 1 /\ (o[2].size = o[2].hdr.total \/ b = r)
<1> DEFINE o == OpenBlockFile(disk)
           b == disk.hdr.dataEnd
<1>1. FileOk(disk) /\ DiskGood(disk) BY DEF BInv, KInv
<1>2. b \in Nat \ {0} /\ disk.hdr \in HeaderType BY <1>1 DEF FileOk, File, HeaderType, HeaderOk
<1>3. /\ r \in 1 .. b
      /\ disk.hdr.tx = "done" =>
           b = r \/ (HasIndex(disk) /\ b - Len(Listed(disk)) <= r)
  BY DEF RollAt
<1>4. /\ o[2].idx \in Seq(Entry) /\ o[2].hdr.total = disk.hdr.total
      /\ \/ /\ o[1] = disk /\ o[2].idx = Listed(disk) /\ o[2].size = disk.hdr.total
            /\ disk.hdr.tx = "done" /\ (HasIndex(disk) \/ disk.hdr.index = 0)
         \/ /\ Len(o[2].idx) = b - 1 /\ o[2].size \in {0, disk.hdr.total}
            /\ disk.hdr.tx = "active" => o[2].size = disk.hdr.total
            /\ disk.hdr.tx = "done" => disk.hdr.index > 0 /\ ~HasIndex(disk)
  BY <1>1, OpenGood
<1> HIDE DEF o
<1>5. Len(o[2].idx) \in Nat BY <1>4
<1>6. CASE o[2].idx = Listed(disk) /\ o[2].size = disk.hdr.total /\ disk.hdr.tx = "done"
           /\ (HasIndex(disk) \/ disk.hdr.index = 0)
  <2>1. b - Len(o[2].idx) <= r
    <3>1. CASE b = r BY <3>1, <1>2, <1>5
    <3>2. CASE b # r BY <3>2, <1>3, <1>6
    <3> QED BY <3>1, <3>2
  <2>2. Full(disk) => Len(o[2].idx) = b - 1
    <3>1. Clean(disk) BY <1>6, <1>2 DEF Clean, Indexed, HasIndex, HeaderType
    <3> QED BY <3>1, <1>1, <1>6, FullListed
  <2> QED BY <2>1, <2>2, <1>4, <1>6 DEF o
<1>7. CASE /\ Len(o[2].idx) = b - 1
           /\ disk.hdr.tx = "active" => o[2].size = disk.hdr.total
           /\ disk.hdr.tx = "done" => ~HasIndex(disk)
  <2>1. b - Len(o[2].idx) <= r BY <1>2, <1>3, <1>7
  <2>2. o[2].size = o[2].hdr.total \/ b = r
    <3>1. disk.hdr.tx \in {"active", "done"} BY <1>1 DEF FileOk, HeaderOk
    <3> QED BY <3>1, <1>3, <1>4, <1>7
  <2> QED BY <2>1, <2>2, <1>7 DEF o
<1> QED BY <1>4, <1>6, <1>7

\* A rollback truncates at a block boundary, above everything committed.
LEMMA RollbackKept == ASSUME BInv, KInv, Rollback PROVE KInv' /\ (Exact => Exact')
<1> DEFINE o == OpenBlockFile(disk)
           t == Truncate(o[1], o[2], lastOpenWrtOffset)
           b == disk.hdr.dataEnd
           z == t[2].hdr.dataEnd
<1>1. /\ state \in {"tx", "rotated"} /\ state' = "closed" /\ pending' = <<>>
      /\ disk' = CloseOn(t[1], t[2])
      /\ UNCHANGED <<effective, nextUnit, committed, crashes>>
  BY DEF Rollback, rolledBack
<1>2. disk.hdr # NoHeader /\ FileOk(disk) /\ DiskGood(disk) /\ UnitsOk BY <1>1 DEF BInv, KInv
<1>3. PICK r \in Nat : RollAt(r) BY <1>1 DEF KInv, CommittedKept
<1>4. r \in 1 .. b /\ RawOff(disk, r) = lastOpenWrtOffset /\ StoredAll(disk, r, committed)
  BY <1>3 DEF RollAt
<1>5. b \in Nat \ {0} /\ r \in Nat \ {0} /\ r <= b
  <2>1. b \in Nat \ {0} BY <1>2 DEF FileOk, File, HeaderType, HeaderOk
  <2> QED BY <2>1, <1>4
<1>6. FileOk(o[1]) /\ HandleOk(o[2], o[1]) BY <1>2, OpenBlockFileOk DEF Opened
<1>7. /\ Agree(o[1], disk, b) /\ o[2].hdr.dataEnd = b /\ Counted(o[1], o[2].hdr)
      /\ Lists(o[1], o[2].idx, b) /\ o[2].size \in {0, o[2].hdr.total}
  BY <1>2, OpenGood
<1>8. /\ b - Len(o[2].idx) <= r
      /\ Full(disk) => Len(o[2].idx) = b - 1 /\ (o[2].size = o[2].hdr.total \/ b = r)
  BY <1>2, <1>3, RollbackOpens
<1> HIDE DEF o
<1>9. Agree(o[1], disk, r) BY <1>5, <1>7, AgreeLess
<1>10. RawOff(o[1], r) = lastOpenWrtOffset BY <1>4, <1>5, <1>9, SameBelow
<1>11. /\ z \in r .. b /\ Agree(t[1], o[1], r)
       /\ Counted(t[1], t[2].hdr) /\ Lists(t[1], t[2].idx, z)
       /\ o[2].size = o[2].hdr.total /\ Len(o[2].idx) = b - 1 => z = r /\ Len(t[2].idx) = z - 1
       /\ b = r /\ Len(o[2].idx) = r - 1 => z = r /\ Len(t[2].idx) = z - 1
  <2>1. t = Truncate(o[1], o[2], RawOff(o[1], r)) BY <1>10
  <2>2. r \in 1 .. o[2].hdr.dataEnd /\ o[2].hdr.dataEnd - Len(o[2].idx) <= r
        /\ Lists(o[1], o[2].idx, o[2].hdr.dataEnd)
    BY <1>4, <1>7, <1>8
  <2> DEFINE m == o[2]
             x == Truncate(o[1], m, RawOff(o[1], r))
  <2>3. /\ x[2].hdr.dataEnd \in r .. m.hdr.dataEnd /\ Agree(x[1], o[1], r)
        /\ Counted(x[1], x[2].hdr) /\ Lists(x[1], x[2].idx, x[2].hdr.dataEnd)
        /\ m.size = m.hdr.total /\ Len(m.idx) = m.hdr.dataEnd - 1 =>
             x[2].hdr.dataEnd = r /\ Len(x[2].idx) = x[2].hdr.dataEnd - 1
        /\ m.hdr.dataEnd = r /\ Len(m.idx) = r - 1 =>
             x[2].hdr.dataEnd = r /\ Len(x[2].idx) = x[2].hdr.dataEnd - 1
    <3>1. FileOk(o[1]) /\ HandleOk(m, o[1]) /\ Counted(o[1], m.hdr) BY <1>6, <1>7
    <3>2. Lists(o[1], m.idx, m.hdr.dataEnd) /\ m.hdr.dataEnd - Len(m.idx) <= r
          /\ r \in 1 .. m.hdr.dataEnd
      BY <2>2
    <3>3. m.size \in {0, m.hdr.total} BY <1>7
    <3> HIDE DEF m
    <3> QED BY <3>1, <3>2, <3>3, TruncateGood
  <2> HIDE DEF x, t
  <2> QED BY <2>1, <2>3, <1>7 DEF x
<1>12. FileOk(t[1]) /\ HandleOk(t[2], t[1])
  <2>1. lastOpenWrtOffset \in Nat BY DEF BInv
  <2> QED BY <2>1, <1>6, TruncateOk
<1> HIDE DEF t
<1>13. /\ Agree(disk', t[1], z) /\ disk'.hdr.dataEnd = z /\ disk'.hdr.total = t[2].hdr.total
       /\ disk'.hdr.tx = "done" /\ disk'.hdr # NoHeader /\ HasIndex(disk')
       /\ Listed(disk') = t[2].idx /\ DiskGood(disk')
  BY <1>1, <1>11, <1>12, CloseGood
<1>14. z \in Nat \ {0} /\ r <= z BY <1>5, <1>11
<1>15. Agree(disk', disk, r)
  <2>1. Agree(disk', t[1], r) BY <1>5, <1>13, <1>14, AgreeLess
  <2> QED BY <2>1, <1>9, <1>11 DEF Agree
<1>16. StoredAll(disk', z, committed)
  <2>1. StoredAll(disk', r, committed) BY <1>4, <1>5, <1>15, SameBelow
  <2> QED BY <2>1, <1>5, <1>14, StoredMore
<1>17. CommittedKept' BY <1>1, <1>13, <1>16 DEF CommittedKept
<1>18. <<>> \in Seq(Nat) OBVIOUS
<1>19. UnitsOk' /\ PendingKept' BY <1>1, <1>2, <1>18 DEF UnitsOk, PendingKept
<1>20. KInv' BY <1>1, <1>13, <1>17, <1>19 DEF KInv
<1>21. ASSUME Exact PROVE Exact'
  <2>1. Full(disk) /\ Holds(disk, b, committed \o pending) /\ lastOpenWrtOffset = Len(committed)
    BY <1>1, <1>21 DEF Exact
  <2>2. z = r /\ Len(t[2].idx) = z - 1 BY <2>1, <1>8, <1>11
  <2>3. Full(disk') BY <2>2, <1>13 DEF Full
  <2>4. Solid(disk, b) BY <1>2 DEF DiskGood, Counted
  <2>5. Holds(disk, r, committed) BY <2>1, <2>4, <1>2, <1>4, <1>5, HoldsPrefix DEF UnitsOk
  <2>6. Holds(disk', r, committed) BY <2>5, <1>5, <1>15, SameBelow
  <2>7. Len(committed) = disk'.hdr.total
    <3>1. RawOff(t[1], r) = RawOff(o[1], r) BY <1>5, <1>11, SameBelow
    <3> QED BY <3>1, <2>1, <2>2, <1>10, <1>11, <1>13 DEF Counted
  <2>8. committed' \o pending' = committed BY <1>1, <1>2 DEF UnitsOk
  <2>9. Clean(disk') BY <1>1, <1>12, CloseOnOk
  <2> QED BY <2>2, <2>3, <2>6, <2>7, <2>8, <2>9, <1>1, <1>13 DEF Exact
<1> QED BY <1>20, <1>21

\* What both theorems rest on.
Kept == BInv /\ KInv /\ crashes \in Nat /\ (crashes = 0 => Exact)

\* The new file.
LEMMA InitKept == Init => Kept
<1> SUFFICES ASSUME Init PROVE Kept OBVIOUS
<1>1. BInv BY InitInv
<1>2. /\ disk = [hdr |-> NoHeader, cells |-> <<>>] /\ state = "closed" /\ todo = <<>>
      /\ nextUnit = 1 /\ committed = <<>> /\ pending = <<>>
  BY DEF Init
<1>3. disk.hdr = NoHeader /\ NoHeader.dataEnd = 0 /\ NoHeader.total = 0 /\ NoHeader.tx = "none"
  BY <1>2 DEF NoHeader
<1>4. UnitsOk BY <1>2 DEF UnitsOk, NoUnit
<1>5. CommittedKept /\ PendingKept BY <1>2 DEF CommittedKept, PendingKept, StoredAll
<1>6. KInv BY <1>2, <1>3, <1>4, <1>5 DEF KInv, DiskGood
<1>7. committed \o pending = <<>> BY <1>2
<1>8. Holds(disk, disk.hdr.dataEnd, committed \o pending)
  <2>1. 1 .. disk.hdr.dataEnd - 1 = {} BY <1>3
  <2> QED BY <2>1 DEF Holds
<1>9. Full(disk) /\ Clean(disk) BY <1>3 DEF Full, Clean
<1>10. Exact BY <1>2, <1>3, <1>7, <1>8, <1>9 DEF Exact
<1> QED BY <1>1, <1>6, <1>10 DEF Kept, Init

\* Every step keeps it.
LEMMA NextKept == Kept /\ [Next]_vars => Kept'
<1> SUFFICES ASSUME Kept, [Next]_vars PROVE Kept' OBVIOUS
<1> USE DEF Kept
<1>0. BInv' BY NextInv
<1>1. CASE OpenWriter BY <1>0, <1>1, OpenWriterKept DEF OpenWriter, counters
<1>2. CASE Write BY <1>0, <1>2, WriteKept DEF Write, counters
<1>3. CASE Commit BY <1>0, <1>3, CommitKept DEF Commit, counters
<1>4. CASE Cleanup BY <1>0, <1>4, CleanupKept DEF Cleanup, counters
<1>5. CASE WritePrefix BY <1>0, <1>5, WritePrefixKept DEF WritePrefix, counters
<1>6. CASE WriteData BY <1>0, <1>6, WriteDataKept DEF WriteData, counters
<1>7. CASE WriteIndex BY <1>0, <1>7, WriteIndexKept DEF WriteIndex, counters
<1>8. CASE WriteHeader BY <1>0, <1>8, WriteHeaderKept DEF WriteHeader, counters
<1>9. CASE WriteRest BY <1>0, <1>9, WriteRestKept DEF WriteRest, counters
<1>10. CASE CommitDone BY <1>0, <1>10, CommitDoneKept DEF CommitDone, counters
<1>11. CASE CloseDone BY <1>0, <1>11, CloseDoneKept DEF CloseDone, counters
<1>12. CASE CommitRotated BY <1>0, <1>12, CommitRotatedKept DEF CommitRotated, counters
<1>13. CASE Rollback BY <1>0, <1>13, RollbackKept DEF Rollback
<1>14. CASE Crash
  <2>1. KInv' BY <1>14, StoppedKept DEF Crash
  <2>2. crashes' \in Nat /\ crashes' # 0 BY <1>14 DEF Crash
  <2> QED BY <1>0, <2>1, <2>2
<1>15. CASE Shutdown BY <1>0, <1>15, StoppedKept DEF Shutdown
<1>16. CASE InspectRead BY <1>0, <1>16, InspectReadKept DEF InspectRead, counters
<1>17. CASE InspectTruncate BY <1>0, <1>17, InspectTruncateKept DEF InspectTruncate, counters
<1>18. CASE UNCHANGED vars
  <2>1. UNCHANGED <<disk, mem, state, todo, lastOpenWrtOffset, effective, nextUnit, committed,
                    pending, crashes>>
    BY <1>18 DEF vars
  <2>2. MemGood' <=> MemGood BY <2>1 DEF MemGood, Flushing
  <2>3. \A e : RollAt(e)' <=> RollAt(e) BY <2>1 DEF RollAt, Closing
  <2>4. CommittedKept' <=> CommittedKept BY <2>1, <2>3 DEF CommittedKept
  <2>5. (PendingKept' <=> PendingKept) /\ (UnitsOk' <=> UnitsOk) BY <2>1 DEF PendingKept, UnitsOk
  <2>6. KInv' BY <2>1, <2>2, <2>4, <2>5 DEF KInv
  <2>7. (MemExact' <=> MemExact) /\ (Exact => Exact') BY <2>1 DEF MemExact, Exact
  <2> QED BY <1>0, <2>1, <2>6, <2>7
<1> QED BY <1>1, <1>2, <1>3, <1>4, <1>5, <1>6, <1>7, <1>8, <1>9, <1>10, <1>11, <1>12, <1>13,
           <1>14, <1>15, <1>16, <1>17, <1>18 DEF Next

\* At every instant, through crashes at any write, failed transactions, recoveries and the
\* inspection at start, each unit of a committed transaction is in a block below DataEnd.
THEOREM BlocksSafe == Spec => []BlocksKept
<1>1. Kept => BlocksKept
  <2> SUFFICES ASSUME Kept, NEW i \in DOMAIN committed
               PROVE  \E p \in DOMAIN disk.cells :
                        /\ p < disk.hdr.dataEnd /\ disk.cells[p].kind = "block"
                        /\ \E k \in DOMAIN disk.cells[p].units :
                             disk.cells[p].units[k] = committed[i]
    BY DEF BlocksKept
  <2>1. BInv /\ KInv BY DEF Kept
  <2>2. StoredAll(disk, disk.hdr.dataEnd, committed) BY <2>1, BelowEnd
  <2>3. PICK p \in 1 .. disk.hdr.dataEnd - 1 :
          \E j \in DOMAIN disk.cells[p].units : disk.cells[p].units[j] = committed[i]
    BY <2>2 DEF StoredAll, Stored
  <2>4. disk.hdr # NoHeader BY <2>1 DEF KInv
  <2>5. Solid(disk, disk.hdr.dataEnd) BY <2>1, <2>4 DEF KInv, DiskGood, Counted
  <2>6. p \in DOMAIN disk.cells /\ disk.cells[p].kind = "block" BY <2>5 DEF Solid
  <2>7. disk.hdr.dataEnd \in Nat BY <2>1 DEF BInv, FileOk, File, HeaderType
  <2>8. p < disk.hdr.dataEnd BY <2>7
  <2> QED BY <2>3, <2>6, <2>8
<1> QED BY InitKept, NextKept, <1>1, PTL DEF Spec

\* Without a crash, a reader that opens the file between transactions reads exactly the
\* committed units in order, whatever transactions failed and were rolled back.
THEOREM CommittedRead == Spec => []TxReadable
<1>1. Kept => TxReadable
  <2> SUFFICES ASSUME Kept, crashes = 0, todo = <<>>,
                      state \in {"closed", "idle", "sealed", "down", "inspect"}
               PROVE  Readable = committed
    BY DEF TxReadable
  <2> DEFINE o == OpenBlockFile(disk)
             f == o[1]
             e == f.hdr.dataEnd
  <2>1. BInv /\ KInv /\ Exact BY DEF Kept
  <2>2. FileOk(disk) /\ DiskGood(disk) /\ Clean(disk) /\ UnitsOk /\ pending = <<>>
    BY <2>1 DEF BInv, KInv, Exact, CommittedKept
  <2>3. committed \in Seq(Nat) /\ committed \o pending = committed BY <2>2 DEF UnitsOk
  <2>4. /\ FileOk(f) /\ Clean(f) /\ f.hdr # NoHeader /\ Counted(f, f.hdr)
        /\ Lists(f, o[2].idx, e) /\ o[2].size = f.hdr.total /\ o[2].idx = Listed(f)
        /\ HandleOk(o[2], f)
        /\ disk.hdr # NoHeader => f = disk
        /\ disk.hdr = NoHeader => e = 1 /\ f.hdr.total = 0 /\ f.hdr.index = 0
    BY <2>2, Reopened
  <2> HIDE DEF o
  <2>5. Full(f) /\ Holds(f, e, committed) /\ Len(committed) = f.hdr.total
    <3>1. CASE disk.hdr # NoHeader BY <3>1, <2>1, <2>3, <2>4 DEF Exact
    <3>2. CASE disk.hdr = NoHeader
      <4>1. Full(f) BY <3>2, <2>4 DEF Full, HasIndex
      <4>2. Len(committed) = 0 BY <3>2, <2>1 DEF KInv
      <4> QED BY <3>2, <4>1, <4>2, <2>4, HoldsNone
    <3> QED BY <3>1, <3>2
  <2>6. Len(o[2].idx) = e - 1 BY <2>4, <2>5, FullListed
  <2>7. Solid(f, e) /\ o[2].size = RawOff(f, e) /\ Len(committed) = RawOff(f, e)
    BY <2>4, <2>5 DEF Counted
  <2>8. e \in Nat \ {0} BY <2>4 DEF FileOk, File, HeaderType, HeaderOk
  <2>9. o[2].idx \in Seq(Entry) BY <2>4 DEF HandleOk, Memory
  <2>10. ReadUpTo(f, o[2].idx, RawOff(f, e)) = committed
    BY <2>3, <2>4, <2>5, <2>6, <2>7, <2>8, <2>9, ReadAllOk
  <2> QED BY <2>7, <2>10 DEF Readable, o
<1> QED BY InitKept, NextKept, <1>1, PTL DEF Spec
=============================================================================
