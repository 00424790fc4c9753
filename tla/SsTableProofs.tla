--------------------------- MODULE SsTableProofs ----------------------------
(***************************************************************************)
(* A table file that has its final name can be opened and read back        *)
(* exactly, for any entries, block size and filter.  While create runs,    *)
(* the keys are split into the written ones, each in the range of one row  *)
(* of the index, those of the block under construction and those to come,  *)
(* in ascending order; every row leads to the one block written for it,    *)
(* which has exactly the entries of its range.  The last part joins this   *)
(* with the proof of the merge: a compaction as a whole.                   *)
(***************************************************************************)
EXTENDS CompactTables, MergeProofs

RowKeys(i) == {k \in DOMAIN source : index[i].first <= k /\ k <= index[i].last}
RowBlock(i) == [at |-> index[i].offset, length |-> index[i].length,
                entries |-> [k \in RowKeys(i) |-> source[k]]]

SsTypeOK ==
    /\ source \in Table /\ todo \in SUBSET DOMAIN source
    /\ bufLen \in Nat /\ first \in Nat /\ last \in Nat /\ offset \in Nat
    /\ index \in Seq(IndexEntry)
    /\ durable \in BOOLEAN /\ published \in BOOLEAN

(* The block under construction.                                           *)
BlockOK ==
    /\ DOMAIN block \subseteq DOMAIN source
    /\ block = [k \in DOMAIN block |-> source[k]]
    /\ DOMAIN block = {} => first = EmptyKey /\ last = EmptyKey
    /\ DOMAIN block # {} =>
          /\ first \in DOMAIN block /\ last \in DOMAIN block
          /\ \A k \in DOMAIN block : first <= k /\ k <= last
    /\ \A k \in DOMAIN block, l \in todo : k < l

(* The rows of the index, and the keys that have none yet.                 *)
RowsOK ==
    /\ \A i \in DOMAIN index :
          \/ /\ index[i].first \in DOMAIN source /\ index[i].last \in DOMAIN source
             /\ index[i].first <= index[i].last
          \/ /\ DOMAIN source = {} /\ Len(index) = 1
             /\ index[i].first = EmptyKey /\ index[i].last = EmptyKey
    /\ \A i, j \in DOMAIN index : i < j => index[i].last < index[j].first
    /\ \A i \in DOMAIN index : \A k \in DOMAIN block \union todo : index[i].last < k
    /\ \A k \in DOMAIN source :
          k \in DOMAIN block \/ k \in todo \/ \E i \in DOMAIN index : k \in RowKeys(i)

(* The blocks in the file are those of the rows, one after the other.      *)
BlocksOK ==
    /\ file = [len |-> file.len, blocks |-> file.blocks, indexes |-> file.indexes,
               filters |-> file.filters, footers |-> file.footers]
    /\ file.blocks = {RowBlock(i) : i \in DOMAIN index}
    /\ \A i, j \in DOMAIN index : i < j => index[i].offset < index[j].offset
    /\ \A i \in DOMAIN index : index[i].offset < offset

NoTail == /\ file.len = offset
          /\ file.indexes = {} /\ file.filters = {} /\ file.footers = {}

Tail48 ==
    LET f  == FilterOf(DOMAIN source)
        il == IndexLen(index)
        fl == FilterLen(f)
    IN  /\ file.len = offset + il + fl + FooterLen
        /\ file.indexes = {[at |-> offset, length |-> il, index |-> index]}
        /\ file.filters = {[at |-> offset + il, length |-> fl, filter |-> f]}
        /\ file.footers = {[at |-> offset + il + fl, indexAt |-> offset, indexLen |-> il,
                            filterAt |-> offset + il, filterLen |-> fl]}

AllWritten == todo = {} /\ DOMAIN block = {} /\ index # <<>>

Whole == RowsOK /\ BlocksOK /\ AllWritten /\ Tail48

SsInv ==
    /\ SsTypeOK
    /\ bpc = "idle" => CreateInit
    /\ bpc \in {"entries", "tail"} => BlockOK /\ RowsOK /\ BlocksOK /\ NoTail
    /\ bpc = "tail" => AllWritten
    /\ bpc = "sync" \/ durable => Whole
    /\ bpc \in {"idle", "entries", "tail", "sync"} => ~ durable
    /\ bpc \in {"rename", "dir"} => durable
    /\ published => durable

-----------------------------------------------------------------------------
(* A filter never denies a key that was inserted.                          *)
LEMMA NoFalseNegative ==
    ASSUME NEW S, NEW k \in S
    PROVE  MightContain(FilterOf(S), k)
<1> DEFINE bits == UNION {Probes(NewFilter, j) : j \in S}
<1>1. FilterOf(S) = [hashes |-> HashCount, bytes |-> FilterBytes, bits |-> bits]
  <2>1. FilterOf(S) = [NewFilter EXCEPT !.bits = bits]
    BY DEF FilterOf
  <2> HIDE DEF bits
  <2> QED BY <2>1 DEF NewFilter
<1>2. Probes(FilterOf(S), k) = Probes(NewFilter, k)
  BY <1>1 DEF Probes, Probe, NewFilter
<1>3. Probes(NewFilter, k) \subseteq FilterOf(S).bits /\ FilterOf(S).bytes = FilterBytes
  BY <1>1
<1>4. FilterBytes > 0
  BY BloomAssumption
<1> QED BY <1>2, <1>3, <1>4 DEF MightContain

LEMMA SourceKeys ==
    ASSUME source \in Table
    PROVE  DOMAIN source \subseteq Keys /\ DOMAIN source \subseteq Nat
           /\ \A k \in DOMAIN source : k > 0
BY TableFunction, KeysAssumption

LEMMA RowType ==
    ASSUME SsTypeOK, NEW i \in DOMAIN index
    PROVE  index[i] \in IndexEntry /\ index[i].first \in Nat /\ index[i].last \in Nat
           /\ index[i].offset \in Nat /\ index[i].length \in Nat
<1>1. index[i] \in IndexEntry
  BY DEF SsTypeOK
<1> QED BY <1>1 DEF IndexEntry

(* flush_data_block with the entries of B, the smallest keys that have no  *)
(* row yet.                                                                *)
LEMMA FlushOK ==
    ASSUME SsTypeOK, RowsOK, BlocksOK, NoTail,
           UNCHANGED <<source, durable, published>>,
           todo' \in SUBSET DOMAIN source,
           NEW B \in SUBSET DOMAIN source, NEW len \in Nat, NEW fst \in Nat, NEW lst \in Nat,
           \A i \in DOMAIN index : \A k \in B \union todo' : index[i].last < k,
           \A k \in B, l \in todo' : k < l,
           \A k \in DOMAIN source :
              k \in B \/ k \in todo' \/ \E i \in DOMAIN index : k \in RowKeys(i),
           \/ fst \in B /\ lst \in B /\ \A k \in B : fst <= k /\ k <= lst
           \/ DOMAIN source = {} /\ index = <<>> /\ fst = EmptyKey /\ lst = EmptyKey,
           FlushBlock([k \in B |-> source[k]], len, fst, lst)
    PROVE  SsTypeOK' /\ BlockOK' /\ RowsOK' /\ BlocksOK' /\ NoTail' /\ index' # <<>>
<1>0. PICK n : n = Len(index) + 1
  OBVIOUS
<1> DEFINE row == [first |-> fst, last |-> lst, offset |-> offset, length |-> 8 + len]
<1>1. index \in Seq(IndexEntry) /\ offset \in Nat /\ Len(index) \in Nat
      /\ DOMAIN index = 1 .. Len(index)
  BY DEF SsTypeOK
<1>2. index' = Append(index, row) /\ row \in IndexEntry
  BY <1>1 DEF FlushBlock, IndexEntry
<1>3. index' \in Seq(IndexEntry) /\ DOMAIN index' = 1 .. n /\ Len(index') = n
      /\ index'[n] = row /\ \A i \in DOMAIN index : index'[i] = index[i]
  <2> HIDE DEF row
  <2> QED BY <1>0, <1>1, <1>2
<1>4. \A i \in DOMAIN index' : i \in DOMAIN index \/ i = n
  BY <1>0, <1>1, <1>3
<1>5. SsTypeOK'
  BY <1>1, <1>3 DEF SsTypeOK, FlushBlock, EmptyKey
<1>6. BlockOK'
  BY DEF BlockOK, FlushBlock, EmptyTable
<1>7. \A i \in DOMAIN index : RowKeys(i)' = RowKeys(i)
  BY <1>3 DEF RowKeys
<1>8. DOMAIN source \subseteq Nat /\ \A k \in DOMAIN source : k > 0
  BY SourceKeys DEF SsTypeOK
<1>9. RowKeys(n)' = B
  <2>1. RowKeys(n)' = {k \in DOMAIN source : fst <= k /\ k <= lst}
    BY <1>3 DEF RowKeys
  <2>2. ASSUME NEW k \in B PROVE fst <= k /\ k <= lst
    OBVIOUS
  <2>3. ASSUME NEW k \in DOMAIN source, fst <= k, k <= lst, k \notin B PROVE FALSE
    <3>1. fst \in B /\ lst \in B /\ k \in Nat
      BY <1>8
    <3>2. k \notin todo'
      BY <1>8, <2>3, <3>1
    <3>3. PICK i \in DOMAIN index : k \in RowKeys(i)
      BY <2>3, <3>2
    <3>4. index[i].last \in Nat /\ k <= index[i].last /\ index[i].last < fst
      BY <3>1, <3>3, RowType DEF RowKeys
    <3> QED BY <2>3, <3>1, <3>4
  <2> QED BY <2>1, <2>2, <2>3
<1>10. RowsOK'
  <2>1. ASSUME NEW i \in DOMAIN index'
        PROVE  (\/ /\ index[i].first \in DOMAIN source /\ index[i].last \in DOMAIN source
                   /\ index[i].first <= index[i].last
                \/ /\ DOMAIN source = {} /\ Len(index) = 1
                   /\ index[i].first = EmptyKey /\ index[i].last = EmptyKey)'
    <3>1. CASE i = n /\ fst \in B /\ lst \in B
      BY <1>3, <3>1
    <3>2. CASE i = n /\ DOMAIN source = {} /\ index = <<>> /\ fst = EmptyKey /\ lst = EmptyKey
      BY <1>0, <1>3, <3>2
    <3>3. CASE i \in DOMAIN index
      <4>1. DOMAIN source # {}
        BY <1>0, <1>1, <3>3 DEF RowsOK
      <4> QED BY <1>3, <3>3, <4>1 DEF RowsOK
    <3> QED BY <1>4, <3>1, <3>2, <3>3
  <2>2. ASSUME NEW i \in DOMAIN index', NEW j \in DOMAIN index', i < j
        PROVE  index'[i].last < index'[j].first
    <3>1. CASE j \in DOMAIN index
      BY <1>0, <1>1, <1>3, <2>2, <3>1 DEF RowsOK
    <3>2. CASE j = n
      <4>1. i \in DOMAIN index
        BY <1>0, <1>1, <1>3, <2>2, <3>2
      <4>2. fst \in B
        BY <1>0, <1>1, <4>1
      <4> QED BY <1>3, <3>2, <4>1, <4>2
    <3> QED BY <1>4, <3>1, <3>2
  <2>3. ASSUME NEW i \in DOMAIN index', NEW k \in todo' PROVE index'[i].last < k
    <3>1. CASE i \in DOMAIN index
      BY <1>3, <3>1
    <3>2. CASE i = n
      BY <1>3, <1>8, <3>2
    <3> QED BY <1>4, <3>1, <3>2
  <2>4. DOMAIN block' = {}
    BY DEF FlushBlock, EmptyTable
  <2>5. ASSUME NEW k \in DOMAIN source
        PROVE  k \in todo' \/ \E i \in DOMAIN index' : k \in RowKeys(i)'
    BY <1>0, <1>1, <1>3, <1>7, <1>9
  <2> QED BY <2>1, <2>2, <2>3, <2>4, <2>5 DEF RowsOK
<1>11. /\ file'.len = file.len + (8 + len)
       /\ file'.blocks = file.blocks \union {[at |-> file.len, length |-> 8 + len,
                                              entries |-> [k \in B |-> source[k]]]}
       /\ file'.indexes = file.indexes /\ file'.filters = file.filters
       /\ file'.footers = file.footers
       /\ file' = [len |-> file'.len, blocks |-> file'.blocks, indexes |-> file'.indexes,
                   filters |-> file'.filters, footers |-> file'.footers]
  BY DEF FlushBlock, BlocksOK
<1>12. file.len = offset /\ offset' = offset + (8 + len)
  BY DEF FlushBlock, NoTail
<1>13. NoTail'
  BY <1>11, <1>12 DEF NoTail
<1>14. BlocksOK'
  <2>1. \A i \in DOMAIN index : RowBlock(i)' = RowBlock(i)
    BY <1>3, <1>7 DEF RowBlock
  <2>2. RowBlock(n)' = [at |-> offset, length |-> 8 + len, entries |-> [k \in B |-> source[k]]]
    BY <1>3, <1>9 DEF RowBlock
  <2>3. file'.blocks = {RowBlock(i) : i \in DOMAIN index} \union {RowBlock(n)'}
    BY <1>11, <1>12, <2>2 DEF BlocksOK
  <2>4. DOMAIN index' = DOMAIN index \union {n}
    BY <1>0, <1>1, <1>3
  <2>5. file'.blocks = {RowBlock(i)' : i \in DOMAIN index'}
    BY <2>1, <2>3, <2>4
  <2>6. \A i, j \in DOMAIN index' : i < j => index'[i].offset < index'[j].offset
    BY <1>0, <1>1, <1>3, <1>4 DEF BlocksOK
  <2>7. \A i \in DOMAIN index' : index'[i].offset < offset'
    <3>1. \A i \in DOMAIN index : index[i].offset \in Nat /\ index[i].offset < offset
      BY RowType DEF BlocksOK
    <3>2. offset < offset'
      BY <1>0, <1>1, <1>12
    <3> QED BY <1>0, <1>1, <1>3, <1>4, <1>12, <3>1, <3>2
  <2> QED BY <1>11, <2>5, <2>6, <2>7 DEF BlocksOK
<1>15. index' # <<>>
  BY <1>0, <1>1, <1>3
<1> QED BY <1>5, <1>6, <1>10, <1>13, <1>14, <1>15

-----------------------------------------------------------------------------
LEMMA SsInitOK == CreateInit => SsInv
<1> SUFFICES ASSUME CreateInit PROVE SsInv
  OBVIOUS
<1>0. <<>> \in Seq(IndexEntry) /\ {} \in SUBSET DOMAIN EmptyTable
  OBVIOUS
<1>1. SsTypeOK
  BY <1>0, EmptyTableType, Zenon DEF CreateInit, SsTypeOK, EmptyKey
<1> QED BY <1>1 DEF CreateInit, SsInv

LEMMA StartCreateOK ==
    ASSUME SsInv, NEW t \in Table, CreateStart(t)
    PROVE  SsInv'
<1>1. CreateInit
  BY DEF SsInv, CreateStart
<1>2. SsTypeOK'
  <2>1. <<>> \in Seq(IndexEntry) /\ DOMAIN t \in SUBSET DOMAIN t
    OBVIOUS
  <2> QED BY <1>1, <2>1 DEF CreateInit, SsTypeOK, CreateStart, EmptyKey
<1>3. DOMAIN block' = {} /\ index' = <<>> /\ DOMAIN index' = {}
  BY <1>1 DEF CreateInit, CreateStart, EmptyTable
<1>4. BlockOK'
  BY <1>1, <1>3 DEF CreateInit, CreateStart, BlockOK, EmptyTable
<1>5. RowsOK'
  BY <1>3 DEF RowsOK, CreateStart
<1>6. BlocksOK' /\ NoTail'
  BY <1>1, <1>3 DEF BlocksOK, NoTail, CreateInit, CreateStart, EmptyFile
<1>7. bpc' = "entries" /\ durable' = FALSE /\ published' = FALSE
  BY <1>1 DEF CreateInit, CreateStart
<1> QED BY <1>2, <1>4, <1>5, <1>6, <1>7 DEF SsInv

(* The next entry of the source.                                           *)
LEMMA SmallestTodo ==
    ASSUME SsTypeOK, todo # {}
    PROVE  Min(todo) \in todo /\ \A l \in todo : Min(todo) <= l
<1>1. todo \in SUBSET Keys
  BY SourceKeys DEF SsTypeOK
<1>2. IsFiniteSet(todo)
  BY <1>1, KeysAssumption, FS_Subset
<1>3. todo \in SUBSET Int
  BY <1>1, KeysAssumption
<1> QED BY <1>2, <1>3, MinInt

LEMMA EntryLenType == \A e : EntryLen(e) \in Nat
BY DEF EntryLen

LEMMA AddEntryOK == ASSUME SsInv, AddEntry PROVE SsInv'
<1>0. PICK k : k = Min(todo)
  OBVIOUS
<1> DEFINE B == DOMAIN block \union {k}
           len == bufLen + EntryLen(source[k])
           fst == IF first = EmptyKey THEN k ELSE first
<1>1. SsTypeOK /\ BlockOK /\ RowsOK /\ BlocksOK /\ NoTail /\ bpc = "entries" /\ ~ durable
      /\ ~ published
  BY DEF SsInv, AddEntry
<1>2. k \in todo /\ (\A l \in todo : k <= l) /\ k \in DOMAIN source /\ todo \subseteq DOMAIN source
  BY <1>0, <1>1, SmallestTodo DEF AddEntry, SsTypeOK
<1>3. DOMAIN source \subseteq Nat /\ \A l \in DOMAIN source : l > 0
  BY <1>1, SourceKeys DEF SsTypeOK
<1>4. todo' = todo \ {k} /\ UNCHANGED <<source, durable, published, bpc>>
  BY <1>0 DEF AddEntry
<1>5. Insert(block, k, source[k]) = [j \in B |-> source[j]]
  BY <1>1 DEF Insert, BlockOK
<1>6. B \in SUBSET DOMAIN source /\ len \in Nat /\ fst \in Nat
  BY <1>1, <1>2, <1>3, EntryLenType DEF BlockOK, SsTypeOK
<1>7. \A i \in DOMAIN index : \A j \in B \union todo' : index[i].last < j
  BY <1>1, <1>2, <1>4 DEF RowsOK
<1>8. \A j \in B, l \in todo' : j < l
  <2> SUFFICES ASSUME NEW j \in B, NEW l \in todo' PROVE j < l
    OBVIOUS
  <2>1. l \in todo /\ l # k /\ k <= l /\ l \in Nat /\ k \in Nat /\ j \in Nat
    BY <1>2, <1>3, <1>4, <1>6
  <2>2. CASE j = k
    BY <2>1, <2>2
  <2>3. CASE j \in DOMAIN block
    BY <1>1, <2>1, <2>3 DEF BlockOK
  <2> QED BY <2>2, <2>3
<1>9. \A j \in DOMAIN source : j \in B \/ j \in todo' \/ \E i \in DOMAIN index : j \in RowKeys(i)
  BY <1>1, <1>4 DEF RowsOK
<1>10. fst \in B /\ k \in B /\ \A j \in B : fst <= j /\ j <= k
  <2>1. \A j \in DOMAIN block : j < k /\ j \in Nat
    BY <1>1, <1>2, <1>3 DEF BlockOK
  <2>2. CASE DOMAIN block = {}
    BY <1>1, <1>2, <1>3, <2>2 DEF BlockOK
  <2>3. CASE DOMAIN block # {}
    <3>1. first \in DOMAIN block /\ first # EmptyKey /\ \A j \in DOMAIN block : first <= j
      BY <1>1, <1>3, <2>3 DEF BlockOK, EmptyKey
    <3> QED BY <1>2, <1>3, <2>1, <3>1
  <2> QED BY <2>2, <2>3
<1>11. todo' \in SUBSET DOMAIN source /\ k \in Nat
  BY <1>2, <1>3, <1>4
<1>12. CASE len >= BlockSize
  <2>1. FlushBlock([j \in B |-> source[j]], len, fst, k)
    BY <1>0, <1>5, <1>12 DEF AddEntry
  <2>2. SsTypeOK' /\ BlockOK' /\ RowsOK' /\ BlocksOK' /\ NoTail'
    <3> HIDE DEF B, len, fst
    <3> QED BY <1>1, <1>4, <1>6, <1>7, <1>8, <1>9, <1>10, <1>11, <2>1, FlushOK
  <2> QED BY <1>1, <1>4, <2>2 DEF SsInv
<1>13. CASE ~(len >= BlockSize)
  <2>1. block' = [j \in B |-> source[j]] /\ bufLen' = len /\ first' = fst /\ last' = k
        /\ UNCHANGED <<index, offset, file>>
    BY <1>0, <1>5, <1>13 DEF AddEntry
  <2>2. DOMAIN block' = B
    BY <2>1
  <2> HIDE DEF B, len, fst
  <2>3. SsTypeOK'
    BY <1>1, <1>4, <1>6, <1>11, <2>1 DEF SsTypeOK
  <2>4. BlockOK'
    BY <1>4, <1>6, <1>8, <1>10, <2>1, <2>2 DEF BlockOK
  <2>5. \A i : RowKeys(i)' = RowKeys(i) /\ RowBlock(i)' = RowBlock(i)
    BY <1>4, <2>1 DEF RowKeys, RowBlock
  <2>6. RowsOK'
    BY <1>1, <1>4, <1>7, <1>9, <2>1, <2>2, <2>5 DEF RowsOK
  <2>7. BlocksOK' /\ NoTail'
    BY <1>1, <2>1, <2>5 DEF BlocksOK, NoTail
  <2> QED BY <1>1, <1>4, <2>3, <2>4, <2>6, <2>7 DEF SsInv
<1> QED BY <1>12, <1>13

LEMMA SameRows ==
    ASSUME UNCHANGED <<source, index>>
    PROVE  \A i : RowKeys(i)' = RowKeys(i) /\ RowBlock(i)' = RowBlock(i)
BY DEF RowKeys, RowBlock

LEMMA FinishBlocksOK == ASSUME SsInv, FinishBlocks PROVE SsInv'
<1>1. SsTypeOK /\ BlockOK /\ RowsOK /\ BlocksOK /\ NoTail /\ bpc = "entries" /\ ~ durable
      /\ ~ published /\ todo = {} /\ UNCHANGED <<source, todo, durable, published>> /\ bpc' = "tail"
  BY DEF SsInv, FinishBlocks
<1>2. CASE DOMAIN block # {} \/ index = <<>>
  <2> DEFINE B == DOMAIN block
  <2>1. FlushBlock(block, bufLen, first, last)
    BY <1>2 DEF FinishBlocks
  <2>2. block = [k \in B |-> source[k]] /\ B \in SUBSET DOMAIN source
    BY <1>1 DEF BlockOK
  <2>3. FlushBlock([k \in B |-> source[k]], bufLen, first, last)
    BY <2>1, <2>2
  <2>4. \/ first \in B /\ last \in B /\ \A k \in B : first <= k /\ k <= last
        \/ DOMAIN source = {} /\ index = <<>> /\ first = EmptyKey /\ last = EmptyKey
    <3>1. CASE B # {}
      BY <1>1, <3>1 DEF BlockOK
    <3>2. CASE B = {}
      <4>1. index = <<>> /\ DOMAIN index = {}
        BY <1>2, <3>2
      <4>2. DOMAIN source = {}
        BY <1>1, <3>2, <4>1 DEF RowsOK
      <4> QED BY <1>1, <3>2, <4>1, <4>2 DEF BlockOK
    <3> QED BY <3>1, <3>2
  <2>5. /\ \A i \in DOMAIN index : \A k \in B \union todo' : index[i].last < k
        /\ \A k \in DOMAIN source :
              k \in B \/ k \in todo' \/ \E i \in DOMAIN index : k \in RowKeys(i)
    BY <1>1 DEF RowsOK
  <2>6. todo' = {} /\ todo' \in SUBSET DOMAIN source /\ bufLen \in Nat /\ first \in Nat /\ last \in Nat
    BY <1>1 DEF SsTypeOK
  <2>7. DOMAIN block' = {}
    BY <2>1 DEF FlushBlock, EmptyTable
  <2>8. SsTypeOK' /\ BlockOK' /\ RowsOK' /\ BlocksOK' /\ NoTail' /\ index' # <<>>
    <3> HIDE DEF B
    <3> QED BY <1>1, <2>2, <2>3, <2>4, <2>5, <2>6, FlushOK
  <2> QED BY <1>1, <2>6, <2>7, <2>8 DEF SsInv, AllWritten
<1>3. CASE ~(DOMAIN block # {} \/ index = <<>>)
  <2>1. UNCHANGED <<block, bufLen, first, last, index, offset, file>>
    BY <1>3 DEF FinishBlocks
  <2>2. SsTypeOK' /\ BlockOK' /\ NoTail'
    BY <1>1, <2>1 DEF SsTypeOK, BlockOK, NoTail
  <2>3. RowsOK' /\ BlocksOK'
    BY <1>1, <2>1, SameRows DEF RowsOK, BlocksOK
  <2>4. AllWritten'
    BY <1>1, <1>3, <2>1 DEF AllWritten
  <2> QED BY <1>1, <2>2, <2>3, <2>4 DEF SsInv
<1> QED BY <1>2, <1>3

LEMMA TailLengths ==
    ASSUME SsTypeOK
    PROVE  /\ IndexLen(index) \in Nat
           /\ FilterLen(FilterOf(DOMAIN source)) \in Nat
           /\ FooterLen \in Nat /\ offset \in Nat
<1>1. Len(index) \in Nat /\ offset \in Nat
  BY DEF SsTypeOK
<1>2. FilterOf(DOMAIN source).bytes = FilterBytes
  BY DEF FilterOf, NewFilter
<1> QED BY <1>1, <1>2, BloomAssumption DEF IndexLen, FilterLen, FooterLen

LEMMA WriteTailOK == ASSUME SsInv, WriteTail PROVE SsInv'
<1>1. SsTypeOK /\ BlockOK /\ RowsOK /\ BlocksOK /\ NoTail /\ AllWritten /\ ~ durable /\ ~ published
      /\ bpc' = "sync"
      /\ UNCHANGED <<source, todo, block, bufLen, first, last, index, offset, durable, published>>
  BY DEF SsInv, WriteTail
<1>2. SsTypeOK' /\ AllWritten'
  BY <1>1 DEF SsTypeOK, AllWritten
<1>3. RowsOK'
  BY <1>1, SameRows DEF RowsOK
<1> DEFINE f == FilterOf(DOMAIN source)
           il == IndexLen(index)
           fl == FilterLen(f)
<1>4. file' = [file EXCEPT
             !.len = @ + il + fl + FooterLen,
             !.indexes = @ \union {[at |-> file.len, length |-> il, index |-> index]},
             !.filters = @ \union {[at |-> file.len + il, length |-> fl, filter |-> f]},
             !.footers = @ \union {[at |-> file.len + il + fl,
                                    indexAt |-> offset, indexLen |-> il,
                                    filterAt |-> offset + il, filterLen |-> fl]}]
  BY DEF WriteTail
<1>5. /\ file'.len = offset + il + fl + FooterLen
      /\ file'.blocks = file.blocks
      /\ file'.indexes = {[at |-> offset, length |-> il, index |-> index]}
      /\ file'.filters = {[at |-> offset + il, length |-> fl, filter |-> f]}
      /\ file'.footers = {[at |-> offset + il + fl, indexAt |-> offset, indexLen |-> il,
                           filterAt |-> offset + il, filterLen |-> fl]}
      /\ file' = [len |-> file'.len, blocks |-> file'.blocks, indexes |-> file'.indexes,
                  filters |-> file'.filters, footers |-> file'.footers]
  <2> HIDE DEF f, il, fl
  <2> QED BY <1>1, <1>4 DEF BlocksOK, NoTail
<1>6. BlocksOK'
  BY <1>1, <1>5, SameRows DEF BlocksOK
<1>7. Tail48'
  BY <1>1, <1>5 DEF Tail48
<1> QED BY <1>1, <1>2, <1>3, <1>6, <1>7 DEF SsInv, Whole

(* The steps after the writing, and the failures, keep what is written or  *)
(* leave a file that never gets its name.                                  *)
LEMMA LaterOK ==
    ASSUME SsInv, SyncFile \/ Rename \/ CreateReturns \/ CreateFails \/ PowerLoss \/ UNCHANGED ssVars
    PROVE  SsInv'
<1>1. UNCHANGED <<source, todo, block, bufLen, first, last, index, offset>>
  BY DEF SyncFile, Rename, CreateReturns, CreateFails, PowerLoss, ssVars
<1>2. SsTypeOK'
  BY <1>1 DEF SsInv, SsTypeOK, SyncFile, Rename, CreateReturns, CreateFails, PowerLoss, ssVars
<1>3. ASSUME UNCHANGED file PROVE /\ BlocksOK' <=> BlocksOK
                                  /\ NoTail' <=> NoTail
                                  /\ Tail48' <=> Tail48
  BY <1>1, <1>3, SameRows DEF BlocksOK, NoTail, Tail48
<1>4. (RowsOK' <=> RowsOK) /\ (BlockOK' <=> BlockOK) /\ (AllWritten' <=> AllWritten)
  BY <1>1, SameRows DEF RowsOK, BlockOK, AllWritten
<1>5. ASSUME UNCHANGED file PROVE Whole' <=> Whole
  BY <1>3, <1>4, <1>5 DEF Whole
<1>6. CASE SyncFile
  BY <1>2, <1>5, <1>6 DEF SyncFile, SsInv
<1>7. CASE Rename
  BY <1>2, <1>5, <1>7 DEF Rename, SsInv
<1>8. CASE CreateReturns
  BY <1>2, <1>5, <1>8 DEF CreateReturns, SsInv
<1>9. CASE CreateFails
  BY <1>2, <1>5, <1>9 DEF CreateFails, SsInv
<1>10. CASE PowerLoss
  <2>1. durable => UNCHANGED file
    BY <1>10 DEF PowerLoss, CrashImages
  <2>2. durable' = durable /\ bpc' = "crashed" /\ published' \in {published, FALSE}
    BY <1>10 DEF PowerLoss
  <2>3. published' => published
    BY <2>2, Zenon
  <2> QED BY <1>2, <1>5, <2>1, <2>2, <2>3 DEF SsInv
<1>11. CASE UNCHANGED ssVars
  BY <1>1, <1>2, <1>3, <1>4, <1>5, <1>11 DEF ssVars, SsInv, CreateInit
<1> QED BY <1>6, <1>7, <1>8, <1>9, <1>10, <1>11

-----------------------------------------------------------------------------
(* Reading a whole file.                                                   *)

(* With everything written every key is in the range of a row.             *)
LEMMA KeyHasRow ==
    ASSUME Whole, NEW k \in DOMAIN source
    PROVE  \E i \in DOMAIN index : k \in RowKeys(i)
BY DEF Whole, RowsOK, AllWritten

(* open takes the smallest and the largest key from the ends of the index. *)
LEMMA EndsOfIndex ==
    ASSUME SsTypeOK, Whole
    PROVE  /\ Len(index) \in Nat \ {0} /\ DOMAIN index = 1 .. Len(index)
           /\ index[1].first = Smallest(source) /\ index[Len(index)].last = Largest(source)
<1>1. Len(index) \in Nat \ {0} /\ DOMAIN index = 1 .. Len(index)
  BY DEF SsTypeOK, Whole, AllWritten
<1>2. 1 \in DOMAIN index /\ Len(index) \in DOMAIN index
  BY <1>1
<1>3. CASE DOMAIN source = {}
  BY <1>2, <1>3 DEF Whole, RowsOK, Smallest, Largest
<1>4. CASE DOMAIN source # {}
  <2> DEFINE S == DOMAIN source
  <2>1. \A i \in DOMAIN index : index[i].first \in S /\ index[i].last \in S
                                /\ index[i].first <= index[i].last
    BY <1>4 DEF Whole, RowsOK
  <2>2. S \in SUBSET Int /\ IsFiniteSet(S) /\ S \in SUBSET Nat
    <3>1. S \in SUBSET Keys /\ S \in SUBSET Nat
      BY SourceKeys DEF SsTypeOK
    <3>2. IsFiniteSet(S)
      BY <3>1, KeysAssumption, FS_Subset
    <3> QED BY <3>1, <3>2
  <2>3. Min(S) \in S /\ (\A k \in S : Min(S) <= k) /\ Max(S) \in S /\ \A k \in S : k <= Max(S)
    <3>1. S # {}
      BY <1>4
    <3> HIDE DEF S
    <3> QED BY <2>2, <3>1, MinInt, MaxInt
  <2>4. index[1].first <= Min(S)
    <3>1. PICK i \in DOMAIN index : index[i].first <= Min(S)
      BY <2>3, KeyHasRow DEF RowKeys
    <3>2. CASE i = 1
      BY <3>1, <3>2
    <3>3. CASE i # 1
      <4>1. index[1].last < index[i].first
        BY <1>1, <1>2, <3>3 DEF Whole, RowsOK
      <4> QED BY <1>2, <2>1, <2>2, <2>3, <3>1, <4>1
    <3> QED BY <3>2, <3>3
  <2>5. Max(S) <= index[Len(index)].last
    <3>1. PICK i \in DOMAIN index : Max(S) <= index[i].last
      BY <2>3, KeyHasRow DEF RowKeys
    <3>2. CASE i = Len(index)
      BY <3>1, <3>2
    <3>3. CASE i # Len(index)
      <4>1. index[i].last < index[Len(index)].first
        BY <1>1, <1>2, <3>3 DEF Whole, RowsOK
      <4> QED BY <1>2, <2>1, <2>2, <2>3, <3>1, <4>1
    <3> QED BY <3>2, <3>3
  <2>6. index[1].first = Min(S) /\ index[Len(index)].last = Max(S)
    BY <1>2, <2>1, <2>2, <2>3, <2>4, <2>5
  <2> QED BY <1>1, <1>4, <2>6 DEF Smallest, Largest
<1> QED BY <1>1, <1>3, <1>4

(* open finds the one footer, and through it the index and the filter.     *)
LEMMA OpensAsCreated == ASSUME SsTypeOK, Whole PROVE OpenedTables(file) = {CreatedTable}
<1> DEFINE f == FilterOf(DOMAIN source)
           il == IndexLen(index)
           fl == FilterLen(f)
           x == [at |-> offset + il + fl, indexAt |-> offset, indexLen |-> il,
                 filterAt |-> offset + il, filterLen |-> fl]
           i == [at |-> offset, length |-> il, index |-> index]
           y == [at |-> offset + il, length |-> fl, filter |-> f]
           T(a, b) == [index |-> a.index, filter |-> b.filter,
                       small |-> a.index[1].first, large |-> a.index[Len(a.index)].last]
           I(g) == {j \in file.indexes : j.at = g.indexAt /\ j.length = g.indexLen}
           Y(g) == {z \in file.filters : z.at = g.filterAt /\ z.length = g.filterLen
                                            /\ Decodable(z.filter)}
<1>1. file.footers = {x} /\ file.indexes = {i} /\ file.filters = {y}
      /\ file.len = offset + il + fl + FooterLen
  BY DEF Whole, Tail48
<1>2. il \in Nat /\ fl \in Nat /\ FooterLen \in Nat /\ offset \in Nat
  BY TailLengths
<1>3. Footers(file) = {x}
  <2> HIDE DEF il, fl
  <2> QED BY <1>1, <1>2 DEF Footers
<1>4. f.hashes = HashCount
  BY DEF FilterOf, NewFilter
<1>5. Decodable(f)
  BY <1>4, BloomAssumption DEF Decodable
<1>6. I(x) = {i} /\ Y(x) = {y}
  <2> HIDE DEF f, il, fl
  <2> QED BY <1>1, <1>5
<1>7. T(i, y) = CreatedTable
  BY EndsOfIndex DEF CreatedTable
<1>8. OpenedTables(file) = UNION {{T(a, b) : a \in I(g), b \in Y(g)} : g \in Footers(file)}
  BY DEF OpenedTables, IndexesAt, FiltersAt
<1> HIDE DEF x, i, y, T, I, Y
<1>9. ASSUME NEW e \in OpenedTables(file) PROVE e = T(i, y)
  <2>1. PICK g \in Footers(file) : e \in {T(a, b) : a \in I(g), b \in Y(g)}
    BY <1>8
  <2>2. g = x
    BY <1>3, <2>1
  <2>3. PICK a \in I(x), b \in Y(x) : e = T(a, b)
    BY <2>1, <2>2
  <2> QED BY <1>6, <2>3
<1>10. T(i, y) \in OpenedTables(file)
  <2>1. x \in Footers(file) /\ i \in I(x) /\ y \in Y(x)
    BY <1>3, <1>6
  <2>2. T(i, y) \in {T(a, b) : a \in I(x), b \in Y(x)}
    BY <2>1
  <2> QED BY <1>8, <2>1, <2>2
<1> QED BY <1>7, <1>9, <1>10

(* A row leads to its own block, whatever else is in the file.             *)
LEMMA RowFindsBlock ==
    ASSUME SsTypeOK, Whole, NEW i \in DOMAIN index
    PROVE  ReadBlock(file, index[i]) = {[k \in RowKeys(i) |-> source[k]]}
<1>1. file.blocks = {RowBlock(j) : j \in DOMAIN index}
  BY DEF Whole, BlocksOK
<1>2. \A j \in DOMAIN index : RowBlock(j).at = index[j].offset /\ RowBlock(j).length = index[j].length
                              /\ RowBlock(j).entries = [k \in RowKeys(j) |-> source[k]]
  BY DEF RowBlock
<1>3. \A j \in DOMAIN index : index[j].offset = index[i].offset => j = i
  <2> SUFFICES ASSUME NEW j \in DOMAIN index, j # i PROVE index[j].offset # index[i].offset
    OBVIOUS
  <2>1. index[j].offset \in Nat /\ index[i].offset \in Nat
    BY RowType
  <2>2. i \in Nat /\ j \in Nat
    BY DEF SsTypeOK
  <2>3. i < j \/ j < i
    BY <2>2
  <2> QED BY <2>1, <2>3 DEF Whole, BlocksOK
<1>4. {c \in file.blocks : c.at = index[i].offset /\ c.length = index[i].length} = {RowBlock(i)}
  <2>1. ASSUME NEW c \in file.blocks, c.at = index[i].offset PROVE c = RowBlock(i)
    <3>1. PICK j \in DOMAIN index : c = RowBlock(j)
      BY <1>1
    <3> QED BY <1>2, <1>3, <2>1, <3>1
  <2>2. RowBlock(i) \in file.blocks /\ RowBlock(i).at = index[i].offset
        /\ RowBlock(i).length = index[i].length
    BY <1>1, <1>2
  <2> QED BY <2>1, <2>2
<1>5. ReadBlock(file, index[i]) = {b.entries : b \in {RowBlock(i)}}
  BY <1>4 DEF ReadBlock
<1>6. {b.entries : b \in {RowBlock(i)}} = {RowBlock(i).entries}
  OBVIOUS
<1> QED BY <1>2, <1>5, <1>6

LEMMA GetFinds ==
    ASSUME SsTypeOK, Whole, NEW k \in Keys
    PROVE  SsGet(CreatedTable, file, k) = IF k \in DOMAIN source THEN {source[k]} ELSE {}
<1> DEFINE t == CreatedTable
           R == UNION {ReadBlock(file, t.index[i]) : i \in BlocksFor(t, k)}
           C == {c \in R : k \in DOMAIN c}
<1>1. t.index = index /\ t.filter = FilterOf(DOMAIN source)
      /\ t.small = Smallest(source) /\ t.large = Largest(source)
  BY DEF CreatedTable
<1>2. \A c \in C : k \in DOMAIN source /\ c[k] = source[k]
  <2> SUFFICES ASSUME NEW c \in R, k \in DOMAIN c PROVE k \in DOMAIN source /\ c[k] = source[k]
    OBVIOUS
  <2>1. PICK i \in BlocksFor(t, k) : c \in ReadBlock(file, t.index[i])
    OBVIOUS
  <2>2. i \in DOMAIN index
    BY <1>1, <2>1 DEF BlocksFor
  <2>3. c = [j \in RowKeys(i) |-> source[j]]
    BY <1>1, <2>1, <2>2, RowFindsBlock
  <2> QED BY <2>3 DEF RowKeys
<1>3. CASE k \in DOMAIN source
  <2>1. PICK i \in DOMAIN index : k \in RowKeys(i)
    BY <1>3, KeyHasRow
  <2>2. i \in BlocksFor(t, k)
    BY <1>1, <2>1 DEF BlocksFor, RowKeys
  <2>3. [j \in RowKeys(i) |-> source[j]] \in C
    <3>1. [j \in RowKeys(i) |-> source[j]] \in ReadBlock(file, t.index[i])
      BY <1>1, RowFindsBlock
    <3> QED BY <2>1, <2>2, <3>1
  <2>4. {b[k] : b \in C} = {source[k]}
    <3> HIDE DEF C
    <3> QED BY <1>2, <2>3
  <2>5. MightContain(t.filter, k)
    BY <1>1, <1>3, NoFalseNegative
  <2>6. InRange(t, k)
    <3> DEFINE S == DOMAIN source
    <3>1. S \in SUBSET Keys /\ S \in SUBSET Nat /\ \A j \in S : j > 0
      BY SourceKeys DEF SsTypeOK
    <3>2. S \in SUBSET Int /\ IsFiniteSet(S)
      <4>1. IsFiniteSet(S)
        BY <3>1, KeysAssumption, FS_Subset
      <4> QED BY <3>1, <4>1
    <3>3. Min(S) \in S /\ Min(S) <= k /\ k <= Max(S)
      <4> HIDE DEF S
      <4>1. k \in S
        BY <1>3 DEF S
      <4> QED BY <3>2, <4>1, MinInt, MaxInt
    <3>4. t.small = Min(S) /\ t.large = Max(S) /\ Min(S) # EmptyKey
      BY <1>1, <1>3, <3>1, <3>3 DEF Smallest, Largest, EmptyKey
    <3> QED BY <3>3, <3>4 DEF InRange
  <2> QED BY <1>3, <2>4, <2>5, <2>6 DEF SsGet
<1>4. CASE k \notin DOMAIN source
  <2>1. C = {}
    BY <1>2, <1>4
  <2>2. {b[k] : b \in C} = {}
    <3> HIDE DEF C
    <3> QED BY <2>1
  <2> QED BY <1>4, <2>2 DEF SsGet
<1> QED BY <1>3, <1>4

LEMMA WholeIsExact == ASSUME SsInv PROVE PublishedExact
<1> SUFFICES ASSUME published PROVE
        /\ OpenedTables(file) = {CreatedTable}
        /\ Ascending(CreatedTable)
        /\ \A k \in Keys : SsGet(CreatedTable, file, k) =
                             IF k \in DOMAIN source THEN {source[k]} ELSE {}
        /\ \A i \in DOMAIN index : ReadBlock(file, index[i]) = {[k \in RowKeys(i) |-> source[k]]}
        /\ \A k \in DOMAIN source : \E i \in DOMAIN index : k \in RowKeys(i)
  BY DEF PublishedExact, RowKeys
<1>1. SsTypeOK /\ Whole
  BY DEF SsInv
<1>2. Ascending(CreatedTable)
  BY <1>1 DEF Whole, RowsOK, Ascending, CreatedTable
<1> QED BY <1>1, <1>2, OpensAsCreated, GetFinds, RowFindsBlock, KeyHasRow

(* A table file under its final name, after create has returned, failed or *)
(* lost power, opens as what create returned; every get and every walk     *)
(* over its blocks finds exactly the entries that were written: for any    *)
(* entries, block size, filter size and hash functions.                    *)
THEOREM PublishedCorrect == SsTableSpec => []PublishedExact
<1>1. CreateInit => SsInv
  BY SsInitOK
<1>2. SsInv /\ [(\E t \in Table : CreateStart(t)) \/ BuildNext]_ssVars => SsInv'
  BY StartCreateOK, AddEntryOK, FinishBlocksOK, WriteTailOK, LaterOK DEF BuildNext
<1>3. SsInv => PublishedExact
  BY WholeIsExact
<1> QED BY <1>1, <1>2, <1>3, PTL DEF SsTableSpec

-----------------------------------------------------------------------------
(* compact: the merge first, then the file with its result.                *)

CompactInv ==
    /\ MergeInv /\ SsInv
    /\ bpc # "idle" => mpc = "done" /\ source = OutTable

LEMMA OutTableType == ASSUME MergeTypeOK PROVE OutTable \in Table
<1>1. out \in Seq(Keys \X Entry)
  BY DEF MergeTypeOK
<1>2. \A i \in DOMAIN out : out[i][1] \in Keys /\ out[i][2] \in Entry
  BY <1>1
<1>3. OutKeys \in SUBSET Keys
  BY <1>2 DEF OutKeys
<1>4. ASSUME NEW k \in OutKeys PROVE out[CHOOSE i \in DOMAIN out : out[i][1] = k][2] \in Entry
  <2>1. \E i \in DOMAIN out : out[i][1] = k
    BY DEF OutKeys
  <2>2. (CHOOSE i \in DOMAIN out : out[i][1] = k) \in DOMAIN out
    BY <2>1
  <2> QED BY <1>2, <2>2
<1>5. OutTable \in [OutKeys -> Entry]
  BY <1>4 DEF OutTable
<1> QED BY <1>3, <1>5 DEF Table

LEMMA CompactInitOK == CompactInit => CompactInv
<1> SUFFICES ASSUME CompactInit PROVE CompactInv
  OBVIOUS
<1>1. PICK n \in 0 .. MaxInputs, drop \in BOOLEAN : \E ins \in [1 .. n -> Table] : MergeInit(ins, drop)
  BY DEF CompactInit
<1>2. PICK ins \in [1 .. n -> Table] : MergeInit(ins, drop)
  BY <1>1
<1>3. n \in Nat
  BY MaxInputsAssumption
<1>4. ins \in Seq(Table)
  BY <1>3
<1>5. MergeInv
  BY <1>2, <1>4, InitHolds
<1> QED BY <1>5, SsInitOK DEF CompactInv, CompactInit, CreateInit

LEMMA CompactNextOK == ASSUME CompactInv, [CompactNext]_compactVars PROVE CompactInv'
<1>1. MergeInv /\ SsInv
  BY DEF CompactInv
<1>2. CASE MergePart
  <2>1. mpc # "done" /\ MergeNext /\ UNCHANGED ssVars
    BY <1>2 DEF MergePart, MergeNext, LoadHeads, MergeStep, MergeReturns, MergeFails
  <2>2. bpc = "idle" /\ bpc' = "idle"
    BY <2>1 DEF CompactInv, ssVars
  <2>3. MergeInv' /\ SsInv'
    BY <1>1, <2>1, NextHolds, LaterOK
  <2> QED BY <2>2, <2>3 DEF CompactInv
<1>3. CASE CreatePart
  <2>1. mpc = "done" /\ UNCHANGED mergeVars /\ (CreateStart(OutTable) \/ BuildNext)
    BY <1>3 DEF CreatePart
  <2>2. MergeInv' /\ mpc' = "done" /\ OutTable' = OutTable
    <3>1. MergeInv'
      BY <1>1, <2>1, NextHolds
    <3>2. mpc' = mpc /\ out' = out
      BY <2>1 DEF mergeVars
    <3>3. OutTable' = OutTable
      BY <3>2 DEF OutTable, OutKeys
    <3> QED BY <2>1, <3>1, <3>2, <3>3
  <2>3. CASE CreateStart(OutTable)
    <3>1. OutTable \in Table
      BY <1>1, OutTableType DEF MergeInv
    <3>2. SsInv'
      BY <1>1, <2>3, <3>1, StartCreateOK
    <3> QED BY <2>2, <2>3, <3>2 DEF CompactInv, CreateStart
  <2>4. CASE BuildNext
    <3>1. SsInv'
      BY <1>1, <2>4, AddEntryOK, FinishBlocksOK, WriteTailOK, LaterOK DEF BuildNext
    <3>2. bpc # "idle" /\ source' = source
      BY <2>4 DEF BuildNext, AddEntry, FinishBlocks, WriteTail, SyncFile, Rename,
                  CreateReturns, CreateFails, PowerLoss
    <3> QED BY <2>2, <3>1, <3>2 DEF CompactInv
  <2> QED BY <2>1, <2>3, <2>4
<1>4. CASE UNCHANGED compactVars
  <2>1. UNCHANGED mergeVars /\ UNCHANGED ssVars
    BY <1>4 DEF compactVars, mergeVars, ssVars
  <2>2. MergeInv' /\ SsInv'
    BY <1>1, <2>1, NextHolds, LaterOK
  <2>3. mpc' = mpc /\ out' = out /\ bpc' = bpc /\ source' = source
    BY <1>4 DEF compactVars
  <2>4. OutTable' = OutTable
    BY <2>3 DEF OutTable, OutKeys
  <2> QED BY <2>2, <2>3, <2>4 DEF CompactInv
<1> QED BY <1>2, <1>3, <1>4 DEF CompactNext

LEMMA CompactInvExact == ASSUME CompactInv PROVE CompactExact
<1> SUFFICES ASSUME published, NEW t \in OpenedTables(file), NEW k \in Keys
             PROVE  SsGet(t, file, k) =
                      IF k \in DOMAIN Merge(InputHandles, inputs, dropping)
                      THEN {Merge(InputHandles, inputs, dropping)[k]} ELSE {}
  BY DEF CompactExact
<1>1. bpc # "idle"
  BY DEF CompactInv, SsInv, CreateInit
<1>2. mpc = "done" /\ source = OutTable
  BY <1>1 DEF CompactInv
<1>3. OutTable = Merge(InputHandles, inputs, dropping)
  BY <1>2, MergeComputed DEF CompactInv, MergeExact
<1>4. /\ OpenedTables(file) = {CreatedTable}
      /\ SsGet(CreatedTable, file, k) = IF k \in DOMAIN source THEN {source[k]} ELSE {}
  BY WholeIsExact DEF CompactInv, PublishedExact
<1> QED BY <1>2, <1>3, <1>4

(* The file that a compaction publishes answers every get with the newest  *)
(* entry among the inputs, for any inputs, block size and filter, also     *)
(* when create is cut short by an error or a power loss (compact,          *)
(* merge_tables, SsTable::create, open and get together).                  *)
THEOREM CompactCorrect == CompactSpec => []CompactExact
<1>1. CompactInit => CompactInv
  BY CompactInitOK
<1>2. CompactInv /\ [CompactNext]_compactVars => CompactInv'
  BY CompactNextOK
<1>3. CompactInv => CompactExact
  BY CompactInvExact
<1> QED BY <1>1, <1>2, <1>3, PTL DEF CompactSpec
=============================================================================
