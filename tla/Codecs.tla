------------------------------- MODULE Codecs -------------------------------
(***************************************************************************)
(* The encodings of a column (tsdb/segment_compression*.go): the encoders  *)
(* a column keeps and resets from block to block, and the decoders that    *)
(* queries take from pools and put back as they are (tsdb/point.go).       *)
(*                                                                         *)
(* A value is its type and a number: 0 and 1 for booleans, a name for      *)
(* strings (0 is the empty one); a map has a value per column.  Integers   *)
(* have Width bits.  Encoded bytes are a marker and a sequence of words, a *)
(* word a sequence of numbers.  simple8b and snappy are external: they     *)
(* give back what they were given; simple8b refuses more than MaxValue     *)
(* and puts up to perWord numbers in a word.  Floats and JSON are left     *)
(* out, and maps inside maps.                                              *)
(***************************************************************************)
EXTENDS Integers, Sequences, FiniteSets, SequencesExt, FiniteSetsExt

CONSTANTS
  Width, MaxValue, perWord,
  Base, MaxExp,    \* scales of timestamps (10 and 12 in the code)
  byteBits,        \* bits of a byte
  maxDictEntries,
  Columns          \* the columns considered: [kind, gaps, values, rows], with the rows
                   \* that bound a block

ASSUME CodecsAssumption ==
  /\ {perWord, Base, byteBits, maxDictEntries} \subseteq Nat \ {0}
  /\ {Width, MaxValue, MaxExp} \subseteq Nat

VARIABLES
  col,    \* the column: its kind and the inputs considered
  rows,   \* history: the points written since the last block
  tenc,   \* tmsCompressor: its timestamps
  venc,   \* valueCompressor
  block,  \* the last block written, and its points; NoBlock when a new one has begun
  pool,   \* the decoders in the pools: none, or one of each that the last read put back
  got     \* the last read of the block

vars == <<col, rows, tenc, venc, block, pool, got>>

NoBlock == [t |-> <<>>, v |-> <<>>, pts |-> <<>>]
NoRead == [lo |-> 0, hi |-> 0, k |-> 0, reused |-> FALSE, out |-> <<>>]
emptyVariant == [type |-> "empty", n |-> 0]

\* int64 and uint64 of Width bits.
Int64(x) == ((x + 2 ^ (Width - 1)) % 2 ^ Width) - 2 ^ (Width - 1)
UInt64(x) == x % 2 ^ Width

ZigZagEncode(x) == IF x >= 0 THEN 2 * x ELSE -2 * x - 1
ZigZagDecode(u) == IF u % 2 = 0 THEN u \div 2 ELSE -((u + 1) \div 2)

\* simple8b.EncodeAll: words of up to perWord numbers.
EncodeAll(seq) ==
  [w \in 1 .. (Len(seq) + perWord - 1) \div perWord |->
     SubSeq(seq, (w - 1) * perWord + 1,
            IF w * perWord < Len(seq) THEN w * perWord ELSE Len(seq))]

Each(seq) == [i \in DOMAIN seq |-> <<seq[i]>>]

(***************************************************************************)
(* IntegerEncoder, IntegerDecoder                                          *)
(***************************************************************************)

NewInteger == [prev |-> 0, rle |-> TRUE, values |-> <<>>, err |-> FALSE]

\* Slip: Reset keeps the last value, from which the next block's first delta is taken.
ResetIntegerKeeps(e) == [NewInteger EXCEPT !.prev = e.prev]

ResetInteger(e) == NewInteger

\* A value that is no number fails the block.
WriteInteger(e, v) ==
  LET enc == ZigZagEncode(Int64(v.n - e.prev))
  IN IF v.type = "string" THEN [e EXCEPT !.err = TRUE]
     ELSE [e EXCEPT !.prev = v.n, !.values = Append(@, enc),
                    !.rle = Len(e.values) > 1 => @ /\ Last(e.values) = enc]

BytesInteger(e) ==
  IF e.rle /\ Len(e.values) > 2
  THEN [marker |-> "intRLE", words |-> Each(<<e.values[1], e.values[2], Len(e.values) - 1>>)]
  ELSE IF \E i \in DOMAIN e.values : e.values[i] > MaxValue
  THEN [marker |-> "intUncompressed", words |-> Each(e.values)]
  ELSE [marker |-> "intSimple", words |-> <<<<e.values[1]>>>> \o EncodeAll(Tail(e.values))]

NewIntegerDecoder ==
  [encoding |-> "none", words |-> <<>>, i |-> 0, n |-> 0, values |-> <<>>, prev |-> 0,
   rleFirst |-> 0, rleDelta |-> 0]

SetBytesInteger(d, b) ==
  [NewIntegerDecoder EXCEPT !.encoding = b.marker, !.words = b.words, !.values = d.values]

\* The next word, or the whole run, when the numbers at hand are used up.
refillInteger(d) ==
  IF d.words = <<>> THEN d
  ELSE IF d.encoding = "intRLE"
  THEN [d EXCEPT !.rleFirst = d.words[1][1], !.rleDelta = d.words[2][1],
                 !.n = d.words[3][1] + 1, !.i = 0, !.words = <<>>]
  ELSE [d EXCEPT !.values = Head(d.words), !.n = Len(Head(d.words)), !.i = 0, !.words = Tail(@)]

NextInteger(d) ==
  LET e == [d EXCEPT !.i = @ + 1]
  IN IF d.i >= d.n /\ d.words = <<>> THEN d ELSE IF e.i >= e.n THEN refillInteger(e) ELSE e

HasInteger(d) == d.i < d.n

ValueInteger(d) ==
  IF d.encoding = "intRLE"
  THEN Int64(ZigZagDecode(d.rleFirst) + d.i * ZigZagDecode(d.rleDelta))
  ELSE Int64(ZigZagDecode(d.values[d.i + 1]) + d.prev)

\* Read moves the sum on, but in a run.
ReadInteger(d) == IF d.encoding = "intRLE" THEN d ELSE [d EXCEPT !.prev = ValueInteger(d)]

(***************************************************************************)
(* TimeEncoder, TimeDecoder                                                *)
(***************************************************************************)

\* reduce: the first timestamp, then the differences, in place.
reduce(ts) == [i \in DOMAIN ts |-> IF i = 1 THEN UInt64(ts[1]) ELSE UInt64(ts[i] - ts[i - 1])]
Deltas(dts) == {dts[i] : i \in 2 .. Len(dts)}

\* The exponent of the largest scale that divides every difference.
scale(dts) == Max({k \in 0 .. MaxExp : \A v \in Deltas(dts) : v % Base ^ k = 0})

BytesTime(ts) ==
  LET dts == reduce(ts)
      k == scale(dts)
      scaled == [i \in 1 .. Len(dts) - 1 |-> dts[i + 1] \div Base ^ k]
  IN IF Cardinality(Deltas(dts)) <= 1 /\ Len(ts) > 1
     THEN [marker |-> "timeRLE", words |-> Each(<<k, dts[1], scaled[1], Len(ts)>>)]
     ELSE IF \E v \in Deltas(dts) : v > MaxValue
     THEN [marker |-> "timeUncompressed", words |-> Each(dts)]
     ELSE [marker |-> "timeSimple", words |-> <<<<k>>, <<dts[1]>>>> \o EncodeAll(scaled)]

NewTimeDecoder ==
  [encoding |-> "none", v |-> 0, i |-> 0, n |-> 0, ts |-> <<>>, rleDelta |-> 0]

\* The sums of the differences, scaled back up.
prefixSums(first, deltas, factor) ==
  LET sum[i \in 0 .. Len(deltas)] ==
        IF i = 0 THEN first ELSE UInt64(sum[i - 1] + deltas[i] * factor)
  IN [i \in 1 .. Len(deltas) + 1 |-> sum[i - 1]]

\* Init; a run starts one difference before its first timestamp, at position -1.
InitTime(d, b) ==
  LET e == [d EXCEPT !.encoding = b.marker, !.v = 0, !.i = 0, !.ts = <<>>]
      delta == UInt64(b.words[3][1] * Base ^ b.words[1][1])
  IN CASE b.marker = "timeRLE" ->
            [e EXCEPT !.v = Int64(b.words[2][1] - delta), !.rleDelta = Int64(delta),
                      !.i = -1, !.n = b.words[4][1]]
       [] b.marker = "timeUncompressed" ->
            [e EXCEPT !.ts = prefixSums(b.words[1][1], FlattenSeq(Tail(b.words)), 1)]
       [] OTHER ->
            [e EXCEPT !.ts = prefixSums(b.words[2][1], FlattenSeq(SubSeq(b.words, 3, Len(b.words))),
                                        Base ^ b.words[1][1])]

NextTime(d) ==
  LET run == d.encoding = "timeRLE"
      e == IF run THEN [d EXCEPT !.i = @ + 1, !.v = Int64(@ + d.rleDelta)]
           ELSE [d EXCEPT !.i = @ + 1, !.v = Int64(d.ts[d.i + 1])]
  IN IF d.i >= (IF run THEN d.n ELSE Len(d.ts)) THEN [d |-> d, ok |-> FALSE]
     ELSE [d |-> e, ok |-> run => e.i < e.n]

(***************************************************************************)
(* BooleanEncoder, BooleanDecoder                                          *)
(***************************************************************************)

NewBoolean == [bytes |-> <<>>, b |-> 0, i |-> 0, rle |-> FALSE, lastBool |-> 0, number |-> 0]

\* Reset leaves rle and lastBool to the first Write.
ResetBoolean(e) == [NewBoolean EXCEPT !.rle = e.rle, !.lastBool = e.lastBool]

\* The first value that differs turns the run into packed bits.
unroll(e) ==
  [e EXCEPT !.rle = FALSE, !.i = e.number % byteBits,
            !.b = e.lastBool * (2 ^ (e.number % byteBits) - 1),
            !.bytes = [k \in 1 .. e.number \div byteBits |-> e.lastBool * (2 ^ byteBits - 1)]]

packBit(e, bit) ==
  LET b == (2 * e.b + bit) % 2 ^ byteBits
  IN IF e.i + 1 >= byteBits THEN [e EXCEPT !.bytes = Append(@, b), !.b = 0, !.i = 0]
     ELSE [e EXCEPT !.b = b, !.i = @ + 1]

WriteBoolean(e, v) ==
  LET begun == IF e.number = 0 THEN [e EXCEPT !.lastBool = v.n, !.rle = TRUE] ELSE e
      ready == IF begun.rle /\ begun.lastBool # v.n THEN unroll(begun) ELSE begun
      packed == IF ready.rle THEN ready ELSE packBit(ready, v.n)
  IN [packed EXCEPT !.number = @ + 1]

BytesBoolean(e) ==
  IF e.rle THEN [marker |-> IF e.lastBool = 1 THEN "boolRLETrue" ELSE "boolRLEFalse",
                 words |-> <<<<e.number>>>>]
  ELSE [marker |-> "boolBitPacked",
        words |-> <<<<e.number>>, e.bytes \o (IF e.i > 0 THEN <<e.b * 2 ^ (byteBits - e.i)>>
                                             ELSE <<>>)>>]

NewBooleanDecoder == [rle |-> FALSE, number |-> 0, lastBool |-> 0, b |-> <<>>, i |-> 0]

\* The position is not set back.
SetBytesBoolean(d, b) ==
  LET e == [d EXCEPT !.number = b.words[1][1], !.rle = b.marker # "boolBitPacked"]
  IN IF e.rle THEN [e EXCEPT !.lastBool = IF b.marker = "boolRLETrue" THEN 1 ELSE 0]
     ELSE [e EXCEPT !.b = b.words[2]]

HasBoolean(d) == d.i <= d.number

ValueBoolean(d) ==
  LET index == d.i - 1
  IN IF d.rle THEN d.lastBool
     ELSE (d.b[1 + index \div byteBits] \div 2 ^ (byteBits - 1 - (index % byteBits))) % 2

(***************************************************************************)
(* StringEncoder, StringDecoder                                            *)
(***************************************************************************)

NewString == [bytes |-> <<>>, order |-> <<>>, idx |-> <<>>, dictFull |-> FALSE]

\* The dictionary is given up by the first string it has no room for.
WriteString(e, v) ==
  LET w == [e EXCEPT !.bytes = Append(@, v.n)]
      at == SelectInSeq(e.order, LAMBDA n : n = v.n)
  IN IF e.dictFull THEN w
     ELSE IF at > 0 THEN [w EXCEPT !.idx = Append(@, at)]
     ELSE IF Len(e.order) < maxDictEntries
     THEN [w EXCEPT !.order = Append(@, v.n), !.idx = Append(@, Len(e.order) + 1)]
     ELSE [w EXCEPT !.dictFull = TRUE]

\* The smaller of the two encodings.
BytesString(e, dictSmaller) ==
  IF ~e.dictFull /\ dictSmaller
  THEN [marker |-> "stringDict", words |-> <<e.order, e.idx>>]
  ELSE [marker |-> "stringSnappy", words |-> <<e.bytes>>]

NewStringDecoder == [list |-> <<>>, i |-> 0]

SetBytesString(d, b) ==
  [list |-> IF b.marker = "stringSnappy" THEN b.words[1]
            ELSE [i \in DOMAIN b.words[2] |-> b.words[1][b.words[2][i]]], i |-> 0]

(***************************************************************************)
(* One encoder or decoder of any scalar type                               *)
(***************************************************************************)

\* adaptiveEncoder, findColumnEncoder
NewScalar(kind) ==
  [kind |-> kind, st |-> CASE kind = "int" -> NewInteger [] kind = "bool" -> NewBoolean
                           [] kind = "string" -> NewString]

ResetScalar(e) ==
  [e EXCEPT !.st = CASE e.kind = "int" -> ResetInteger(@) [] e.kind = "bool" -> ResetBoolean(@)
                     [] e.kind = "string" -> NewString]

WriteScalar(e, v) ==
  [e EXCEPT !.st = CASE e.kind = "int" -> WriteInteger(@, v)
                     [] e.kind = "bool" -> WriteBoolean(@, v)
                     [] e.kind = "string" -> WriteString(@, v)]

BytesScalar(e, dictSmaller) ==
  CASE e.kind = "int" -> BytesInteger(e.st) [] e.kind = "bool" -> BytesBoolean(e.st)
    [] e.kind = "string" -> BytesString(e.st, dictSmaller)

FailedScalar(e) == e.kind = "int" /\ e.st.err

\* decoderForMarker
NewDecoder(kind) ==
  [kind |-> kind, st |-> CASE kind = "int" -> NewIntegerDecoder
                           [] kind = "bool" -> NewBooleanDecoder
                           [] kind = "string" -> NewStringDecoder]

SetBytesScalar(d, b) ==
  [d EXCEPT !.st = CASE d.kind = "int" -> SetBytesInteger(@, b)
                     [] d.kind = "bool" -> SetBytesBoolean(@, b)
                     [] d.kind = "string" -> SetBytesString(@, b)]

NextScalar(d) ==
  [d EXCEPT !.st = CASE d.kind = "int" -> NextInteger(@)
                     [] OTHER -> [@ EXCEPT !.i = @ + 1]]

HasScalar(d) ==
  CASE d.kind = "int" -> HasInteger(d.st) [] d.kind = "bool" -> HasBoolean(d.st)
    [] d.kind = "string" -> d.st.i <= Len(d.st.list)

ValueScalar(d) ==
  [type |-> d.kind, n |-> CASE d.kind = "int" -> ValueInteger(d.st)
                            [] d.kind = "bool" -> ValueBoolean(d.st)
                            [] d.kind = "string" -> d.st.list[d.st.i]]

ReadScalar(d) == IF d.kind = "int" THEN [d EXCEPT !.st = ReadInteger(@)] ELSE d

(***************************************************************************)
(* AdaptColumnEncoder, AdaptColumnDecoder                                  *)
(***************************************************************************)

NoEncoder == [kind |-> "none", st |-> <<>>]
NewAdapt == [isNotStruct |-> FALSE, length |-> 0, cols |-> <<>>, encoder |-> NoEncoder,
             spare |-> NoEncoder]

\* A scalar encoder is kept for the next block.
ResetAdapt(e) ==
  [NewAdapt EXCEPT !.spare = IF e.isNotStruct THEN ResetScalar(e.encoder) ELSE e.spare]

incompatibleType(old, new) == old # new

\* takeNonStructEncoder: the spare one when it has the type.
writeNonStruct(e, v) ==
  IF e.encoder = NoEncoder
  THEN LET reuse == e.spare.kind = v.type
           encoder == IF reuse THEN e.spare ELSE NewScalar(v.type)
       IN [ok |-> TRUE,
           e |-> [e EXCEPT !.encoder = WriteScalar(encoder, v), !.length = @ + 1,
                           !.spare = IF reuse THEN NoEncoder ELSE @]]
  ELSE IF incompatibleType(e.encoder.kind, v.type) THEN [ok |-> FALSE, e |-> e]
  ELSE [ok |-> TRUE, e |-> [e EXCEPT !.encoder = WriteScalar(@, v), !.length = @ + 1]]

\* Slip: a column that appears late starts with its first value.
backfillNone(encoder, n) == encoder

backfill(encoder, n) ==
  FoldLeft(LAMBDA x, i : WriteScalar(x, emptyVariant), encoder, [i \in 1 .. n |-> i])

\* A row of columns: all types are checked before the first column is written; a new
\* column is filled up for the rows before it, a missing one is given the empty value.
writeStruct(e, v) ==
  LET old == DOMAIN e.cols
      write(c) == IF c \notin DOMAIN v.cols THEN WriteScalar(e.cols[c], emptyVariant)
                  ELSE IF c \in old THEN WriteScalar(e.cols[c], v.cols[c])
                  ELSE WriteScalar(backfill(NewScalar(v.cols[c].type), e.length), v.cols[c])
  IN IF \E c \in old \cap DOMAIN v.cols : incompatibleType(e.cols[c].kind, v.cols[c].type)
     THEN [ok |-> FALSE, e |-> e]
     ELSE [ok |-> TRUE, e |-> [e EXCEPT !.length = @ + 1,
                                        !.cols = [c \in old \cup DOMAIN v.cols |-> write(c)]]]

WriteAdapt(e, v) ==
  IF v.type = "map" /\ ~e.isNotStruct THEN writeStruct(e, v)
  ELSE IF v.type = "map" \/ (~e.isNotStruct /\ e.length > 0) THEN [ok |-> FALSE, e |-> e]
  ELSE writeNonStruct([e EXCEPT !.isNotStruct = TRUE], v)

BytesAdapt(e, dictSmaller) ==
  IF e.isNotStruct
  THEN [marker |-> "adaptScalar", data |-> BytesScalar(e.encoder, dictSmaller)]
  ELSE [marker |-> "adaptStruct",
        data |-> [c \in DOMAIN e.cols |-> BytesScalar(e.cols[c], dictSmaller)]]

KindOf(b) ==
  CASE b.marker \in {"intUncompressed", "intSimple", "intRLE"} -> "int"
    [] b.marker \in {"boolBitPacked", "boolRLETrue", "boolRLEFalse"} -> "bool"
    [] b.marker \in {"stringSnappy", "stringDict"} -> "string"
    [] OTHER -> "adapt"

NewAdaptDecoder == [isNotStruct |-> FALSE, cols |-> <<>>, decoder |-> NoEncoder]
decoderFor(b) == SetBytesScalar(NewDecoder(KindOf(b)), b)

SetBytesAdapt(d, b) ==
  IF b.marker = "adaptScalar"
  THEN [d EXCEPT !.isNotStruct = TRUE, !.decoder = decoderFor(b.data)]
  ELSE [d EXCEPT !.isNotStruct = FALSE,
                 !.cols = [c \in DOMAIN b.data |-> decoderFor(b.data[c])]]

(***************************************************************************)
(* The column's encoder and the decoders of a query                        *)
(***************************************************************************)

NewEncoder(kind) == IF kind = "adapt" THEN [kind |-> kind, st |-> NewAdapt] ELSE NewScalar(kind)

ResetEncoder(e) == IF e.kind = "adapt" THEN [e EXCEPT !.st = ResetAdapt(@)] ELSE ResetScalar(e)

WriteEncoder(e, v) ==
  IF e.kind = "adapt"
  THEN LET w == WriteAdapt(e.st, v) IN [ok |-> w.ok, e |-> [e EXCEPT !.st = w.e]]
  ELSE [ok |-> TRUE, e |-> WriteScalar(e, v)]

NewValueDecoder(kind) ==
  IF kind = "adapt" THEN [kind |-> kind, st |-> NewAdaptDecoder] ELSE NewDecoder(kind)

SetBytesValue(d, b) ==
  IF d.kind = "adapt" THEN [d EXCEPT !.st = SetBytesAdapt(@, b)] ELSE SetBytesScalar(d, b)

\* f on every decoder d consists of.
OfDecoders(f(_), d) ==
  IF d.kind # "adapt" THEN f(d)
  ELSE IF d.st.isNotStruct THEN [d EXCEPT !.st.decoder = f(@)]
  ELSE [d EXCEPT !.st.cols = [c \in DOMAIN @ |-> f(@[c])]]

HasValue(d) ==
  IF d.kind # "adapt" THEN HasScalar(d)
  ELSE IF d.st.isNotStruct THEN HasScalar(d.st.decoder)
  ELSE d.st.cols # <<>> /\ \A c \in DOMAIN d.st.cols : HasScalar(d.st.cols[c])

ValueOf(d) ==
  IF d.kind # "adapt" THEN ValueScalar(d)
  ELSE IF d.st.isNotStruct THEN ValueScalar(d.st.decoder)
  ELSE [type |-> "map", cols |-> [c \in DOMAIN d.st.cols |-> ValueScalar(d.st.cols[c])]]

\* PointDiskPack.Next and Read until k points of the range are read or the block ends:
\* both decoders move on together, and the value of a point left out is read too.
Decoded(td, vd, lo, hi, k) ==
  LET step(a) ==
        LET t == NextTime(a.td)
            v == OfDecoders(NextScalar, a.vd)
            b == [a EXCEPT !.td = t.d, !.vd = v]
            in == t.d.v >= lo /\ t.d.v <= hi
        IN IF Len(a.out) >= k \/ a.end THEN a
           ELSE IF ~t.ok \/ ~HasValue(v) THEN [b EXCEPT !.end = TRUE]
           ELSE [b EXCEPT !.vd = OfDecoders(ReadScalar, v),
                          !.out = IF in THEN Append(@, [tms |-> t.d.v, v |-> ValueOf(v)]) ELSE @]
  IN FoldLeft(LAMBDA a, i : step(a), [td |-> td, vd |-> vd, out |-> <<>>, end |-> FALSE],
              [i \in 1 .. col.rows + 1 |-> i])

(***************************************************************************)
(* Actions                                                                 *)
(***************************************************************************)

Init ==
  /\ col \in Columns
  /\ rows = <<>> /\ tenc = <<>> /\ venc = NewEncoder(col.kind)
  /\ block = NoBlock /\ pool = {} /\ got = NoRead

\* ssColumn.Write: a value the encoder rejects changes nothing here (what the column does
\* with it is in Table).
Write ==
  \E gap \in col.gaps, v \in col.values :
    LET t == gap + (IF rows = <<>> THEN 0 ELSE Last(rows).tms)
        w == WriteEncoder(venc, v)
    IN /\ Len(rows) < col.rows /\ t < 2 ^ (Width - 1) /\ w.ok
       /\ rows' = Append(rows, [tms |-> t, v |-> v])
       /\ tenc' = Append(tenc, t) /\ venc' = w.e
       /\ block' = NoBlock /\ got' = NoRead
       /\ UNCHANGED <<col, pool>>

\* glowWrite: the block, and both encoders reset; an encoder that fails, and the column is
\* reset by the rollback.
Glow ==
  /\ rows # <<>>
  /\ rows' = <<>> /\ tenc' = <<>> /\ venc' = ResetEncoder(venc)
  /\ IF FailedScalar(venc) THEN block' = NoBlock
     ELSE \E dictSmaller \in BOOLEAN :
            block' = [t |-> BytesTime(tenc), pts |-> rows,
                      v |-> IF venc.kind = "adapt" THEN BytesAdapt(venc.st, dictSmaller)
                            ELSE BytesScalar(venc, dictSmaller)]
  /\ got' = NoRead
  /\ UNCHANGED <<col, pool>>

\* A query reads the block: AddSegment with decoders of the pools or new ones, then points
\* until the query has enough, then Reset, which puts the decoders back as they are.  The
\* query asks for all of a range, or takes one point of the whole and stops.  (Bound: a
\* decoder is reused once; a sync.Pool may drop what it holds at any time.)
Query ==
  \E dec \in pool \cup {[t |-> NewTimeDecoder, v |-> NewValueDecoder(col.kind)]},
     i, j \in DOMAIN block.pts, k \in {1, col.rows} :
    LET lo == block.pts[i].tms
        hi == block.pts[j].tms
        d == Decoded(InitTime(dec.t, block.t), SetBytesValue(dec.v, block.v), lo, hi, k)
    IN /\ block # NoBlock /\ i <= j /\ (k = 1 => i = 1 /\ j = Len(block.pts))
       /\ got' = [lo |-> lo, hi |-> hi, k |-> k, reused |-> dec \in pool, out |-> d.out]
       /\ pool' = IF dec \in pool THEN {} ELSE {[t |-> d.td, v |-> d.vd]}
       /\ UNCHANGED <<col, rows, tenc, venc, block>>

Next == Write \/ Glow \/ Query

Spec == Init /\ [][Next]_vars

(***************************************************************************)
(* Properties                                                              *)
(***************************************************************************)

\* The rows of a block as they are read back: every row has every column of the block, the
\* ones it was written without as the zero of the column's type.
Filled(pts) ==
  LET maps == {i \in DOMAIN pts : pts[i].v.type = "map"}
      names == UNION {DOMAIN pts[i].v.cols : i \in maps}
      type(c) == (CHOOSE x \in {pts[i].v.cols[c].type : i \in {m \in maps : c \in DOMAIN pts[m].v.cols}} :
                    TRUE)
  IN [i \in DOMAIN pts |->
       IF i \notin maps THEN pts[i]
       ELSE [pts[i] EXCEPT !.v.cols = [c \in names |-> IF c \in DOMAIN @ THEN @[c]
                                                      ELSE [type |-> type(c), n |-> 0]]]]

Due == LET all == SelectSeq(Filled(block.pts), LAMBDA p : p.tms >= got.lo /\ p.tms <= got.hi)
       IN SubSeq(all, 1, IF got.k < Len(all) THEN got.k ELSE Len(all))

OfMaps == block # NoBlock /\ block.pts[1].v.type = "map"

\* Whatever was encoded before with the same encoders and decoded before with the same
\* pooled decoders, and wherever an earlier read stopped, a block gives back its timestamps
\* and values: integers that overflow in the difference, runs and single values,
\* timestamps of any common scale, a full dictionary.  (A boolean decoder has to be new:
\* see PooledDecoders.)
RoundTrip ==
  got # NoRead /\ ~OfMaps /\ ~(col.kind = "bool" /\ got.reused) => got.out = Due

\* "It automatically discovers columns from incoming Map variants and backfills missing
\* rows": columns that come and go stay in step with the timestamps.
RowsAligned == got # NoRead /\ OfMaps => got.out = Due

\* "RLE: empty (count alone determines output)": what a boolean block gives depends on the
\* block alone, not on what its decoder has read before.  SetBytes does not set the
\* decoder's position back and the pool does not either.
PooledDecoders == got # NoRead => got.out = Due
=============================================================================
