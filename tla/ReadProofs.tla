----------------------------- MODULE ReadProofs -----------------------------
(***************************************************************************)
(* get returns the newest entry, whatever block size, cache size, readers  *)
(* and versions.  The invariant says of a reader on its way that the       *)
(* tables it has left still decide as the whole version did, that the      *)
(* block it looks for is one that would hold its key, and that the block   *)
(* in its hands, or in the cache, is the one in the file.                  *)
(***************************************************************************)
EXTENDS ReadPath, TableProofs, SequenceTheorems

ReadState == [pc : {"idle", "table", "cache", "load", "insert", "returned", "failed"},
              key : Nat, rest : Seq(Nat), start : Nat, block : Table,
              expect : Entry, got : Entry]

(* Ids are given out in order, so a new file replaces none.                *)
FilesOK ==
    /\ \E n \in Nat : DOMAIN files = 1 .. n
    /\ \A i \in DOMAIN files : files[i] \in File
    /\ version \in Seq(DOMAIN files)

ReaderOK(r) ==
    /\ Reading(r) => /\ rd[r].rest \in Seq(DOMAIN files)
                     /\ rd[r].expect = Newest(rd[r].rest, rd[r].key)
    /\ rd[r].pc \in {"cache", "load", "insert"} =>
          rd[r].rest # <<>> /\ rd[r].start \in BlockFor(Current(r), rd[r].key)
    /\ rd[r].pc = "insert" => rd[r].block = BlockAt(Current(r), rd[r].start)
    /\ rd[r].pc = "returned" => rd[r].got = rd[r].expect

ReadInv ==
    /\ rd \in [Readers -> ReadState]
    /\ FilesOK /\ CacheSound
    /\ \A r \in Readers : ReaderOK(r)

-----------------------------------------------------------------------------
LEMMA FileKeys ==
    ASSUME NEW f \in File
    PROVE  /\ f.content \in Table /\ DOMAIN f.content \subseteq Keys
           /\ f.content \in [DOMAIN f.content -> Entry]
           /\ f.starts \in SUBSET Keys
           /\ DOMAIN f.content \subseteq Nat /\ f.starts \subseteq Nat
<1>1. f.content \in Table /\ f.starts \in SUBSET Keys
  BY DEF File
<1> QED BY <1>1, TableFunction, KeysAssumption

(* The start of the block of k is the largest start up to k.               *)
LEMMA StartBeforeLargest ==
    ASSUME NEW f \in File, NEW k \in Nat, NEW s \in f.starts, s <= k
    PROVE  /\ StartBefore(f, k) \in f.starts /\ StartBefore(f, k) <= k
           /\ \A t \in f.starts : t <= k => t <= StartBefore(f, k)
<1> DEFINE S == {t \in f.starts : t <= k}
<1>1. S \in SUBSET Keys
  BY FileKeys
<1>2. S \in SUBSET Int /\ IsFiniteSet(S) /\ S # {}
  BY <1>1, KeysAssumption, FS_Subset
<1>3. Max(S) \in S /\ \A t \in S : t <= Max(S)
  <2> HIDE DEF S
  <2> QED BY <1>2, MaxInt
<1> QED BY <1>3 DEF StartBefore

(* The block the index leads to has the key if the table has it.           *)
LEMMA BlockHasKey ==
    ASSUME NEW f \in File, NEW k \in Nat, NEW s \in BlockFor(f, k)
    PROVE  /\ DOMAIN BlockAt(f, s) \subseteq DOMAIN f.content
           /\ k \in DOMAIN BlockAt(f, s) <=> k \in DOMAIN f.content
           /\ \A j \in DOMAIN BlockAt(f, s) : BlockAt(f, s)[j] = f.content[j]
           /\ BlockAt(f, s) \in Table /\ s \in Nat
<1>1. s \in f.starts /\ s <= k /\ s \in Nat
  BY FileKeys DEF BlockFor
<1>2. PICK l \in BlockKeys(f, s) : k <= l
  BY DEF BlockFor
<1>3. l \in Nat /\ s <= l /\ StartBefore(f, l) = s
  BY <1>2, FileKeys DEF BlockKeys
<1>4. StartBefore(f, k) = s
  <2>1. StartBefore(f, k) \in f.starts /\ StartBefore(f, k) <= k /\ s <= StartBefore(f, k)
    BY <1>1, StartBeforeLargest
  <2>2. StartBefore(f, k) \in Nat
    BY <2>1, FileKeys
  <2>3. StartBefore(f, k) <= l
    BY <1>2, <1>3, <2>1, <2>2
  <2>4. StartBefore(f, k) <= s
    BY <1>1, <1>3, <2>1, <2>3, StartBeforeLargest
  <2> QED BY <1>1, <2>1, <2>2, <2>4
<1>5. BlockKeys(f, s) \subseteq DOMAIN f.content
  BY DEF BlockKeys
<1>6. k \in DOMAIN f.content => k \in BlockKeys(f, s)
  BY <1>1, <1>4 DEF BlockKeys
<1>7. BlockAt(f, s) \in Table
  <2>1. BlockKeys(f, s) \in SUBSET Keys
    BY <1>5, FileKeys
  <2>2. BlockAt(f, s) \in [BlockKeys(f, s) -> Entry]
    BY <1>5, FileKeys DEF BlockAt
  <2> QED BY <2>1, <2>2 DEF Table
<1> QED BY <1>1, <1>5, <1>6, <1>7 DEF BlockAt

-----------------------------------------------------------------------------
(* Newest over the tables that are left.                                   *)
LEMMA HoldingFinite ==
    ASSUME NEW S, NEW s \in Seq(S), NEW k
    PROVE  Holding(s, k) \in SUBSET (1 .. Len(s)) /\ IsFiniteSet(Holding(s, k))
           /\ Holding(s, k) \in SUBSET Int
<1>1. Holding(s, k) \in SUBSET (1 .. Len(s)) /\ Len(s) \in Nat
  BY DEF Holding
<1>2. IsFiniteSet(1 .. Len(s)) /\ 1 .. Len(s) \in SUBSET Int
  BY <1>1, FS_Interval
<1>3. IsFiniteSet(Holding(s, k))
  BY <1>1, <1>2, FS_Subset
<1> QED BY <1>1, <1>2, <1>3

LEMMA NewestType ==
    ASSUME FilesOK, NEW s \in Seq(DOMAIN files), NEW k
    PROVE  Newest(s, k) \in Entry
<1>1. CASE Holding(s, k) = {}
  BY <1>1 DEF Newest, Entry
<1>2. CASE Holding(s, k) # {}
  <2>1. Min(Holding(s, k)) \in Holding(s, k)
    BY <1>2, HoldingFinite, MinInt
  <2>2. PICK i \in DOMAIN s : i = Min(Holding(s, k)) /\ k \in DOMAIN files[s[i]].content
    BY <2>1 DEF Holding
  <2>3. files[s[i]] \in File
    BY DEF FilesOK
  <2> QED BY <1>2, <2>2, <2>3, FileKeys DEF Newest
<1> QED BY <1>1, <1>2

(* The first table has the key: it decides.                                *)
LEMMA NewestHead ==
    ASSUME NEW S, NEW s \in Seq(S), s # <<>>, NEW k,
           k \in DOMAIN files[Head(s)].content
    PROVE  Newest(s, k) = files[Head(s)].content[k]
<1>1. 1 \in Holding(s, k) /\ s[1] = Head(s)
  BY DEF Holding
<1>2. Min(Holding(s, k)) = 1
  <2>1. Min(Holding(s, k)) \in Holding(s, k) /\ Min(Holding(s, k)) <= 1
    BY <1>1, HoldingFinite, MinInt
  <2>2. Min(Holding(s, k)) \in 1 .. Len(s)
    BY <2>1, HoldingFinite
  <2> QED BY <2>1, <2>2
<1> QED BY <1>1, <1>2 DEF Newest

(* It does not: the others decide.                                         *)
LEMMA NewestTail ==
    ASSUME NEW S, NEW s \in Seq(S), s # <<>>, NEW k,
           k \notin DOMAIN files[Head(s)].content
    PROVE  Newest(Tail(s), k) = Newest(s, k)
<1> DEFINE H == Holding(s, k)
           T == Holding(Tail(s), k)
<1>1. Tail(s) \in Seq(S) /\ Len(s) \in Nat /\ Len(Tail(s)) = Len(s) - 1
      /\ \A i \in 1 .. Len(s) - 1 : Tail(s)[i] = s[i + 1]
  OBVIOUS
<1>2. 1 \notin H
  BY DEF Holding
<1>3. \A i \in H : i \in Nat /\ i - 1 \in T
  BY <1>1, <1>2 DEF Holding
<1>4. \A i \in T : i \in Nat /\ i + 1 \in H
  BY <1>1 DEF Holding
<1>5. H = {} <=> T = {}
  <2> HIDE DEF H, T
  <2> QED BY <1>3, <1>4
<1>6. CASE H # {}
  <2>1. Min(H) \in H /\ \A y \in H : Min(H) <= y
    BY <1>6, HoldingFinite, MinInt
  <2>2. Min(T) \in T /\ \A y \in T : Min(T) <= y
    BY <1>1, <1>5, <1>6, HoldingFinite, MinInt
  <2>3. Min(H) = Min(T) + 1
    <3> HIDE DEF H, T
    <3>1. Min(H) \in Nat /\ Min(T) \in Nat /\ Min(H) - 1 \in T /\ Min(T) + 1 \in H
      BY <1>3, <1>4, <2>1, <2>2
    <3>2. Min(T) <= Min(H) - 1 /\ Min(H) <= Min(T) + 1
      BY <2>1, <2>2, <3>1
    <3> QED BY <3>1, <3>2
  <2>4. Min(T) \in 1 .. Len(s) - 1
    <3>1. T \in SUBSET (1 .. Len(Tail(s)))
      BY <1>1, HoldingFinite
    <3> HIDE DEF T
    <3> QED BY <1>1, <2>2, <3>1
  <2>5. Tail(s)[Min(T)] = s[Min(H)]
    <3> HIDE DEF H, T
    <3> QED BY <1>1, <2>3, <2>4
  <2>6. Newest(s, k) = files[s[Min(H)]].content[k] /\ Newest(Tail(s), k) = files[Tail(s)[Min(T)]].content[k]
    BY <1>5, <1>6 DEF Newest
  <2> HIDE DEF H, T
  <2> QED BY <2>5, <2>6
<1> QED BY <1>5, <1>6 DEF Newest

-----------------------------------------------------------------------------
(* The cache only forgets blocks, and takes the one it is given.           *)
LEMMA EvictRestricts ==
    ASSUME NEW c
    PROVE  /\ DOMAIN EvictToFit(c).map \subseteq DOMAIN c.map
           /\ \A b \in DOMAIN EvictToFit(c).map : EvictToFit(c).map[b] = c.map[b]
BY DEF EvictToFit

LEMMA InsertMap ==
    ASSUME NEW c, NEW key, NEW block, NEW b \in DOMAIN CacheInsert(c, key, block).map
    PROVE  \/ b = key /\ CacheInsert(c, key, block).map[b] = block
           \/ b # key /\ b \in DOMAIN c.map /\ CacheInsert(c, key, block).map[b] = c.map[b]
<1>1. PICK d : CacheInsert(c, key, block) = EvictToFit(d) /\ d.map = WithBlock(c, key, block)
  BY DEF CacheInsert
<1>2. b \in DOMAIN d.map /\ CacheInsert(c, key, block).map[b] = d.map[b]
  BY <1>1, EvictRestricts
<1> QED BY <1>1, <1>2 DEF WithBlock

(* A step of reader r that leaves the files alone.                         *)
LEMMA ReaderStep ==
    ASSUME ReadInv, NEW r \in Readers, NEW x \in ReadState, rd' = [rd EXCEPT ![r] = x],
           UNCHANGED <<files, version>>, CacheSound', ReaderOK(r)'
    PROVE  ReadInv'
<1>1. rd' \in [Readers -> ReadState]
  BY DEF ReadInv
<1>2. FilesOK'
  BY DEF ReadInv, FilesOK
<1>3. ASSUME NEW q \in Readers, q # r PROVE ReaderOK(q)'
  <2>1. rd'[q] = rd[q]
    BY <1>3 DEF ReadInv
  <2>2. ReaderOK(q)
    BY DEF ReadInv
  <2>3. \A s, k : Newest(s, k)' = Newest(s, k)
    BY DEF Newest, Holding
  <2>4. Current(q)' = Current(q)
    BY <2>1 DEF Current
  <2> QED BY <2>1, <2>2, <2>3, <2>4 DEF ReaderOK, Reading
<1> QED BY <1>1, <1>2, <1>3 DEF ReadInv

LEMMA SameCache ==
    ASSUME ReadInv, UNCHANGED <<files, version, cache>>
    PROVE  CacheSound'
BY DEF ReadInv, CacheSound

LEMMA NoReadType == NoRead \in ReadState
BY EmptyTableType DEF NoRead, ReadState, EmptyKey, Entry

LEMMA InitOK == ReadInit => ReadInv
<1> SUFFICES ASSUME ReadInit PROVE ReadInv
  OBVIOUS
<1>1. rd \in [Readers -> ReadState] /\ \A r \in Readers : rd[r].pc = "idle"
  BY NoReadType DEF ReadInit, NoRead
<1>2. FilesOK
  <2>1. DOMAIN files = {} /\ {} = 1 .. 0 /\ 0 \in Nat /\ version = <<>>
    BY DEF ReadInit
  <2> QED BY <2>1 DEF FilesOK
<1>3. CacheSound
  BY DEF ReadInit, NewCache, CacheSound
<1> QED BY <1>1, <1>2, <1>3 DEF ReadInv, ReaderOK, Reading

-----------------------------------------------------------------------------
LEMMA RetainedType ==
    ASSUME NEW S, NEW v \in Seq(S), NEW drop, NEW kept \in Retained(v, drop)
    PROVE  kept \in Seq(S)
<1> DEFINE keep == {i \in DOMAIN v : v[i] \notin drop}
<1>1. PICK g \in [1 .. Cardinality(keep) -> keep] : kept = [n \in DOMAIN g |-> v[g[n]]]
  BY DEF Retained
<1>2. IsFiniteSet(keep)
  <2>1. keep \in SUBSET (1 .. Len(v)) /\ Len(v) \in Nat
    OBVIOUS
  <2> HIDE DEF keep
  <2>2. IsFiniteSet(1 .. Len(v))
    BY <2>1, FS_Interval
  <2> QED BY <2>1, <2>2, FS_Subset
<1>3. Cardinality(keep) \in Nat
  <2> HIDE DEF keep
  <2> QED BY <1>2, FS_CardinalityType
<1>4. \A i \in keep : v[i] \in S
  OBVIOUS
<1>5. kept \in [1 .. Cardinality(keep) -> S]
  <2> HIDE DEF keep
  <2> QED BY <1>1, <1>4
<1> HIDE DEF keep
<1> QED BY <1>3, <1>5

LEMMA InstallOK == ASSUME ReadInv, Install PROVE ReadInv'
<1> DEFINE id == Cardinality(DOMAIN files) + 1
<1>1. PICK f \in File, drop \in SUBSET DOMAIN files :
        /\ files' = [i \in DOMAIN files \union {id} |-> IF i = id THEN f ELSE files[i]]
        /\ \E kept \in Retained(version, drop) : \E p \in 0 .. Len(kept) :
              version' = SubSeq(kept, 1, p) \o <<id>> \o SubSeq(kept, p + 1, Len(kept))
  BY DEF Install
<1>2. PICK n \in Nat : DOMAIN files = 1 .. n
  BY DEF ReadInv, FilesOK
<1>3. id = n + 1
  <2>1. Cardinality(1 .. n) = IF 1 > n THEN 0 ELSE n - 1 + 1
    BY FS_Interval
  <2>2. Cardinality(1 .. n) = n
    BY <2>1
  <2> QED BY <1>2, <2>2
<1>4. DOMAIN files' = 1 .. n + 1 /\ n + 1 \in Nat /\ DOMAIN files \subseteq DOMAIN files'
  BY <1>1, <1>2, <1>3
<1>5. \A i \in DOMAIN files : files'[i] = files[i]
  BY <1>1, <1>2, <1>3
<1>6. \A i \in DOMAIN files' : files'[i] \in File
  BY <1>1 DEF ReadInv, FilesOK
<1>7. version' \in Seq(DOMAIN files')
  <2>1. PICK kept \in Retained(version, drop) : \E p \in 0 .. Len(kept) :
          version' = SubSeq(kept, 1, p) \o <<id>> \o SubSeq(kept, p + 1, Len(kept))
    BY <1>1
  <2>2. kept \in Seq(DOMAIN files)
    BY RetainedType DEF ReadInv, FilesOK
  <2>3. kept \in Seq(DOMAIN files')
    BY <1>4, <2>2
  <2>4. id \in DOMAIN files'
    BY <1>2, <1>3, <1>4
  <2>5. PICK p \in 0 .. Len(kept) :
          version' = SubSeq(kept, 1, p) \o <<id>> \o SubSeq(kept, p + 1, Len(kept))
    BY <2>1
  <2>6. SubSeq(kept, 1, p) \in Seq(DOMAIN files') /\ SubSeq(kept, p + 1, Len(kept)) \in Seq(DOMAIN files')
    BY <2>3
  <2> HIDE DEF id
  <2> QED BY <2>4, <2>5, <2>6
<1>8. FilesOK'
  BY <1>4, <1>6, <1>7 DEF FilesOK
<1>9. CacheSound'
  BY <1>4, <1>5 DEF ReadInv, CacheSound, Install
<1>10. rd' = rd /\ \A r \in Readers : ~ Reading(r) /\ ReaderOK(r)
  BY DEF Install, ReadInv
<1>11. \A r \in Readers : ReaderOK(r)'
  BY <1>10 DEF ReaderOK, Reading
<1> QED BY <1>8, <1>9, <1>10, <1>11 DEF ReadInv

LEMMA StartOK ==
    ASSUME ReadInv, NEW r \in Readers, NEW k \in Lookups, StartRead(r, k)
    PROVE  ReadInv'
<1> DEFINE x == [NoRead EXCEPT !.pc = "table", !.key = k, !.rest = version,
                               !.expect = Newest(version, k)]
<1>1. version \in Seq(DOMAIN files) /\ version \in Seq(Nat) /\ k \in Nat
  BY ReadBoundsAssumption DEF ReadInv, FilesOK
<1>2. Newest(version, k) \in Entry
  BY <1>1, NewestType DEF ReadInv
<1>3. x \in ReadState /\ x.pc = "table" /\ x.key = k /\ x.rest = version /\ x.expect = Newest(version, k)
  BY <1>1, <1>2, NoReadType DEF ReadState
<1>4. rd' = [rd EXCEPT ![r] = x] /\ UNCHANGED <<files, version, cache>>
  BY DEF StartRead
<1>5. rd'[r] = x
  BY <1>4 DEF ReadInv
<1>6. Newest(version, k)' = Newest(version, k)
  BY <1>4 DEF Newest, Holding
<1>7. ReaderOK(r)'
  <2> HIDE DEF x
  <2> QED BY <1>1, <1>3, <1>4, <1>5, <1>6 DEF ReaderOK, Reading
<1>8. CacheSound'
  BY <1>4, SameCache
<1> HIDE DEF x
<1> QED BY <1>3, <1>4, <1>7, <1>8, ReaderStep

-----------------------------------------------------------------------------
(* What a reader on its way to a table has in its hands.                   *)
LEMMA HeadTail ==
    ASSUME NEW S, NEW s \in Seq(S), s # <<>>
    PROVE  Head(s) \in S /\ Tail(s) \in Seq(S)
OBVIOUS

LEMMA WiderSeq ==
    ASSUME NEW S, NEW T, S \subseteq T, NEW s \in Seq(S)
    PROVE  s \in Seq(T)
OBVIOUS

LEMMA ReaderFacts ==
    ASSUME ReadInv, NEW r \in Readers
    PROVE  /\ rd[r] \in ReadState
           /\ ReaderOK(r)
           /\ Reading(r) /\ rd[r].rest # <<>> =>
                 /\ Head(rd[r].rest) \in DOMAIN files
                 /\ Current(r) \in File
                 /\ Tail(rd[r].rest) \in Seq(DOMAIN files)
                 /\ Tail(rd[r].rest) \in Seq(Nat)
<1>1. rd[r] \in ReadState /\ ReaderOK(r)
  BY DEF ReadInv
<1>2. ASSUME Reading(r), rd[r].rest # <<>>
      PROVE  /\ Head(rd[r].rest) \in DOMAIN files
             /\ Tail(rd[r].rest) \in Seq(DOMAIN files)
  <2>1. rd[r].rest \in Seq(DOMAIN files)
    BY <1>1, <1>2 DEF ReaderOK
  <2> QED BY <1>2, <2>1, HeadTail
<1>3. DOMAIN files \subseteq Nat /\ \A i \in DOMAIN files : files[i] \in File
  BY DEF ReadInv, FilesOK
<1>4. ASSUME Reading(r), rd[r].rest # <<>>
      PROVE  Tail(rd[r].rest) \in Seq(Nat)
  BY <1>2, <1>3, <1>4, WiderSeq
<1> QED BY <1>1, <1>2, <1>3, <1>4 DEF Current

LEMMA NewestUnchanged == ASSUME UNCHANGED files PROVE \A s, k : Newest(s, k)' = Newest(s, k)
BY DEF Newest, Holding

LEMMA EndOK == ASSUME ReadInv, NEW r \in Readers, EndOfTables(r) PROVE ReadInv'
<1> DEFINE x == [rd[r] EXCEPT !.pc = "returned", !.got = Tombstone]
<1>1. rd[r] \in ReadState /\ ReaderOK(r)
  BY ReaderFacts
<1>2. x \in ReadState /\ x.pc = "returned" /\ x.got = Tombstone /\ x.expect = rd[r].expect
  BY <1>1 DEF ReadState, Entry
<1>3. rd' = [rd EXCEPT ![r] = x] /\ UNCHANGED <<files, version, cache>>
  BY DEF EndOfTables
<1>4. rd'[r] = x
  BY <1>3 DEF ReadInv
<1>5. rd[r].expect = Newest(<<>>, rd[r].key)
  BY <1>1 DEF EndOfTables, ReaderOK, Reading
<1>6. Newest(<<>>, rd[r].key) = Tombstone
  BY DEF Newest, Holding
<1>7. ReaderOK(r)'
  <2> HIDE DEF x
  <2> QED BY <1>2, <1>4, <1>5, <1>6 DEF ReaderOK, Reading
<1>8. CacheSound'
  BY <1>3, SameCache
<1> HIDE DEF x
<1> QED BY <1>2, <1>3, <1>7, <1>8, ReaderStep

LEMMA SkipOK == ASSUME ReadInv, NEW r \in Readers, SkipTable(r) PROVE ReadInv'
<1> DEFINE x == [rd[r] EXCEPT !.rest = Tail(@)]
<1>1. rd[r] \in ReadState /\ ReaderOK(r) /\ rd[r].pc = "table" /\ Reading(r) /\ rd[r].rest # <<>>
  BY ReaderFacts DEF SkipTable, Reading
<1>2. Tail(rd[r].rest) \in Seq(DOMAIN files) /\ Tail(rd[r].rest) \in Seq(Nat)
  BY <1>1, ReaderFacts
<1>3. x \in ReadState /\ x.pc = "table" /\ x.rest = Tail(rd[r].rest) /\ x.key = rd[r].key
      /\ x.expect = rd[r].expect
  BY <1>1, <1>2 DEF ReadState
<1>4. rd' = [rd EXCEPT ![r] = x] /\ UNCHANGED <<files, version, cache>>
  BY DEF SkipTable
<1>5. rd'[r] = x
  BY <1>4 DEF ReadInv
<1>6. rd[r].rest \in Seq(DOMAIN files) /\ rd[r].expect = Newest(rd[r].rest, rd[r].key)
  BY <1>1 DEF ReaderOK
<1>7. Newest(Tail(rd[r].rest), rd[r].key) = rd[r].expect
  BY <1>1, <1>6, NewestTail DEF SkipTable, Current
<1>8. ReaderOK(r)'
  <2> HIDE DEF x
  <2> QED BY <1>2, <1>3, <1>4, <1>5, <1>7, NewestUnchanged DEF ReaderOK, Reading
<1>9. CacheSound'
  BY <1>4, SameCache
<1> HIDE DEF x
<1> QED BY <1>3, <1>4, <1>8, <1>9, ReaderStep

(* Steps that keep the key, the tables left and the expectation.           *)
LEMMA OnTheWay ==
    ASSUME ReadInv, NEW r \in Readers, Reading(r), rd[r].rest # <<>>,
           UNCHANGED <<files, version, cache>>,
           NEW x \in ReadState, rd' = [rd EXCEPT ![r] = x],
           x.pc \in {"cache", "load", "insert", "failed"},
           x.key = rd[r].key, x.rest = rd[r].rest, x.expect = rd[r].expect,
           x.pc # "failed" => x.start \in BlockFor(Current(r), rd[r].key),
           x.pc = "insert" => x.block = BlockAt(Current(r), x.start)
    PROVE  ReadInv'
<1>1. rd'[r] = x
  BY DEF ReadInv
<1>2. ReaderOK(r)
  BY ReaderFacts
<1>3. Current(r)' = Current(r)
  BY <1>1 DEF Current
<1>4. ReaderOK(r)'
  BY <1>1, <1>2, <1>3, NewestUnchanged DEF ReaderOK, Reading
<1>5. CacheSound'
  BY SameCache
<1> QED BY <1>4, <1>5, ReaderStep

LEMMA SearchTableOK == ASSUME ReadInv, NEW r \in Readers, SearchTable(r) PROVE ReadInv'
<1>1. PICK s \in BlockFor(Current(r), rd[r].key) :
        rd' = [rd EXCEPT ![r].pc = "cache", ![r].start = s]
  BY DEF SearchTable
<1>2. rd[r] \in ReadState /\ Reading(r) /\ rd[r].rest # <<>>
  BY ReaderFacts DEF SearchTable, Reading
<1>3. rd[r].key \in Nat
  BY <1>2 DEF ReadState
<1>4. s \in Nat
  BY <1>2, <1>3, ReaderFacts, BlockHasKey
<1> DEFINE x == [rd[r] EXCEPT !.pc = "cache", !.start = s]
<1>5. x \in ReadState /\ x.pc = "cache" /\ x.key = rd[r].key /\ x.rest = rd[r].rest
      /\ x.expect = rd[r].expect /\ x.start = s
  BY <1>2, <1>4 DEF ReadState
<1>6. rd' = [rd EXCEPT ![r] = x]
  BY <1>1
<1> HIDE DEF x
<1> QED BY <1>2, <1>5, <1>6, OnTheWay DEF SearchTable

LEMMA LoadingOK ==
    ASSUME ReadInv, NEW r \in Readers, MissCached(r) \/ LoadBlock(r) \/ LoadFails(r)
    PROVE  ReadInv'
<1>1. rd[r] \in ReadState /\ ReaderOK(r) /\ Reading(r) /\ rd[r].pc \in {"cache", "load"}
  BY ReaderFacts DEF MissCached, LoadBlock, LoadFails, Reading
<1>2. rd[r].rest # <<>> /\ rd[r].start \in BlockFor(Current(r), rd[r].key) /\ rd[r].key \in Nat
  BY <1>1 DEF ReaderOK, ReadState
<1>3. BlockAt(Current(r), rd[r].start) \in Table
  BY <1>1, <1>2, ReaderFacts, BlockHasKey
<1>4. CASE MissCached(r)
  <2> DEFINE x == [rd[r] EXCEPT !.pc = "load"]
  <2>1. x \in ReadState /\ x.pc = "load" /\ x.key = rd[r].key /\ x.rest = rd[r].rest
        /\ x.expect = rd[r].expect /\ x.start = rd[r].start
    BY <1>1 DEF ReadState
  <2>2. rd' = [rd EXCEPT ![r] = x]
    BY <1>4 DEF MissCached
  <2> HIDE DEF x
  <2> QED BY <1>1, <1>2, <1>4, <2>1, <2>2, OnTheWay DEF MissCached
<1>5. CASE LoadBlock(r)
  <2> DEFINE x == [rd[r] EXCEPT !.pc = "insert", !.block = BlockAt(Current(r), rd[r].start)]
  <2>1. x \in ReadState /\ x.pc = "insert" /\ x.key = rd[r].key /\ x.rest = rd[r].rest
        /\ x.expect = rd[r].expect /\ x.start = rd[r].start
        /\ x.block = BlockAt(Current(r), rd[r].start)
    BY <1>1, <1>3 DEF ReadState
  <2>2. rd' = [rd EXCEPT ![r] = x]
    BY <1>5 DEF LoadBlock
  <2> HIDE DEF x
  <2> QED BY ZenonT(40), <1>1, <1>2, <1>5, <2>1, <2>2, OnTheWay DEF LoadBlock
<1>6. CASE LoadFails(r)
  <2> DEFINE x == [rd[r] EXCEPT !.pc = "failed"]
  <2>1. x \in ReadState /\ x.pc = "failed" /\ x.key = rd[r].key /\ x.rest = rd[r].rest
        /\ x.expect = rd[r].expect
    BY <1>1 DEF ReadState
  <2>2. rd' = [rd EXCEPT ![r] = x]
    BY <1>6 DEF LoadFails
  <2> HIDE DEF x
  <2> QED BY <1>1, <1>2, <1>6, <2>1, <2>2, OnTheWay DEF LoadFails
<1> QED BY <1>4, <1>5, <1>6

-----------------------------------------------------------------------------
(* A reader searches the block it was looking for, from the cache or from  *)
(* the file.                                                               *)
LEMMA SearchOK ==
    ASSUME ReadInv, NEW r \in Readers, rd[r].pc \in {"cache", "insert"},
           NEW block, block = BlockAt(Current(r), rd[r].start), Search(r, block),
           UNCHANGED <<files, version>>, CacheSound'
    PROVE  ReadInv'
<1>1. rd[r] \in ReadState /\ ReaderOK(r) /\ Reading(r) /\ rd[r].rest # <<>>
      /\ rd[r].rest \in Seq(DOMAIN files)
  BY ReaderFacts DEF ReaderOK, Reading
<1>2. rd[r].expect = Newest(rd[r].rest, rd[r].key) /\ rd[r].start \in BlockFor(Current(r), rd[r].key)
      /\ rd[r].key \in Nat
  BY <1>1 DEF ReaderOK, ReadState
<1>3. Current(r) \in File /\ Tail(rd[r].rest) \in Seq(DOMAIN files) /\ Tail(rd[r].rest) \in Seq(Nat)
  BY <1>1, ReaderFacts
<1>4. /\ rd[r].key \in DOMAIN block <=> rd[r].key \in DOMAIN Current(r).content
      /\ \A j \in DOMAIN block : block[j] = Current(r).content[j]
      /\ DOMAIN block \subseteq DOMAIN Current(r).content
  BY <1>2, <1>3, BlockHasKey
<1>5. CASE rd[r].key \in DOMAIN block
  <2> DEFINE x == [rd[r] EXCEPT !.pc = "returned", !.got = block[rd[r].key]]
  <2>1. block[rd[r].key] = Current(r).content[rd[r].key] /\ block[rd[r].key] \in Entry
    BY <1>3, <1>4, <1>5, FileKeys
  <2>2. x \in ReadState /\ x.pc = "returned" /\ x.got = block[rd[r].key] /\ x.expect = rd[r].expect
    BY <1>1, <2>1 DEF ReadState
  <2>3. rd' = [rd EXCEPT ![r] = x]
    BY <1>5 DEF Search
  <2>4. rd'[r] = x
    BY <2>3 DEF ReadInv
  <2>5. rd[r].expect = block[rd[r].key]
    BY ZenonT(40), <1>1, <1>2, <1>4, <1>5, <2>1, NewestHead DEF Current
  <2>6. ReaderOK(r)'
    <3> HIDE DEF x
    <3> QED BY <2>2, <2>4, <2>5 DEF ReaderOK, Reading
  <2> HIDE DEF x
  <2> QED BY <2>2, <2>3, <2>6, ReaderStep
<1>6. CASE rd[r].key \notin DOMAIN block
  <2> DEFINE x == [rd[r] EXCEPT !.pc = "table", !.rest = Tail(@)]
  <2>1. x \in ReadState /\ x.pc = "table" /\ x.rest = Tail(rd[r].rest) /\ x.key = rd[r].key
        /\ x.expect = rd[r].expect
    BY <1>1, <1>3 DEF ReadState
  <2>2. rd' = [rd EXCEPT ![r] = x]
    BY <1>6 DEF Search
  <2>3. rd'[r] = x
    BY <2>2 DEF ReadInv
  <2>4. Newest(Tail(rd[r].rest), rd[r].key) = rd[r].expect
    BY <1>1, <1>2, <1>4, <1>6, NewestTail DEF Current
  <2>5. ReaderOK(r)'
    <3> HIDE DEF x
    <3> QED BY <1>3, <2>1, <2>3, <2>4, NewestUnchanged DEF ReaderOK, Reading
  <2> HIDE DEF x
  <2> QED BY <2>1, <2>2, <2>5, ReaderStep
<1> QED BY <1>5, <1>6

LEMMA FindCachedOK == ASSUME ReadInv, NEW r \in Readers, FindCached(r) PROVE ReadInv'
<1> DEFINE b == WantedBlock(r)
<1>1. b \in DOMAIN cache.map /\ b = <<Head(rd[r].rest), rd[r].start>>
  BY DEF FindCached, Cached, WantedBlock, BlockKey
<1>2. cache.map[b] = BlockAt(Current(r), rd[r].start)
  BY <1>1 DEF ReadInv, CacheSound, Current
<1>3. cache'.map = cache.map
  BY DEF FindCached, CacheHit
<1>4. CacheSound'
  BY <1>3 DEF ReadInv, CacheSound, FindCached
<1> QED BY <1>2, <1>4, SearchOK DEF FindCached

LEMMA InsertBlockOK == ASSUME ReadInv, NEW r \in Readers, InsertBlock(r) PROVE ReadInv'
<1> DEFINE b == WantedBlock(r)
<1>1. ReaderOK(r) /\ rd[r].pc = "insert" /\ Reading(r) /\ rd[r].rest # <<>>
  BY ReaderFacts DEF InsertBlock, ReaderOK, Reading
<1>2. rd[r].block = BlockAt(Current(r), rd[r].start)
  BY <1>1 DEF ReaderOK
<1>3. b[1] = Head(rd[r].rest) /\ b[2] = rd[r].start /\ b[1] \in DOMAIN files
  BY <1>1, ReaderFacts DEF WantedBlock, BlockKey
<1>4. \A c \in DOMAIN cache'.map :
         \/ c = b /\ cache'.map[c] = rd[r].block
         \/ c \in DOMAIN cache.map /\ cache'.map[c] = cache.map[c]
  BY InsertMap DEF InsertBlock
<1>5. CacheSound'
  <2> SUFFICES ASSUME NEW c \in DOMAIN cache'.map
               PROVE  c[1] \in DOMAIN files /\ cache'.map[c] = BlockAt(files[c[1]], c[2])
    BY DEF CacheSound, InsertBlock
  <2>1. CASE c = b /\ cache'.map[c] = rd[r].block
    BY <1>2, <1>3, <2>1 DEF Current
  <2>2. CASE c \in DOMAIN cache.map /\ cache'.map[c] = cache.map[c]
    BY <2>2 DEF ReadInv, CacheSound
  <2> QED BY <1>4, <2>1, <2>2
<1> QED BY <1>1, <1>2, <1>5, SearchOK DEF InsertBlock

LEMMA UnchangedOK == ASSUME ReadInv, UNCHANGED readVars PROVE ReadInv'
<1>1. rd' = rd /\ UNCHANGED <<files, version, cache>>
  BY DEF readVars
<1>2. CacheSound' /\ FilesOK'
  BY <1>1, SameCache DEF ReadInv, FilesOK
<1>3. \A r \in Readers : ReaderOK(r)'
  BY <1>1, NewestUnchanged DEF ReadInv, ReaderOK, Reading, Current
<1> QED BY <1>1, <1>2, <1>3 DEF ReadInv

(* Whatever the readers of a version share through the cache, get returns  *)
(* the newest entry of the version it locked, and every cached block is    *)
(* the block its key names: for any tables, blocks, readers and any size   *)
(* of the cache (get_from_tables, SsTable::get, BlockCache).               *)
THEOREM ReadsCorrect == ReadSpec => [](ReadExact /\ CacheSound)
<1>1. ReadInit => ReadInv
  BY InitOK
<1>2. ReadInv /\ [ReadNext]_readVars => ReadInv'
  BY InstallOK, StartOK, EndOK, SkipOK, SearchTableOK, LoadingOK, FindCachedOK, InsertBlockOK,
     UnchangedOK DEF ReadNext, ReaderSteps
<1>3. ReadInv => ReadExact /\ CacheSound
  BY DEF ReadInv, ReaderOK, ReadExact
<1> QED BY <1>1, <1>2, <1>3, PTL DEF ReadSpec
=============================================================================
