----------------------------- MODULE TableProofs -----------------------------
(***************************************************************************)
(* Facts about the data operators of Tables.  Minima over finite sets are  *)
(* obtained from the well-foundedness of strict inclusion, without an      *)
(* induction of our own.                                                   *)
(***************************************************************************)
EXTENDS Tables, FiniteSetTheorems, TLAPS

Below(x, R, V) == {y \in V : <<y, x>> \in R}

(* A finite non-empty set has a minimal element for any strict order.      *)
LEMMA FiniteMinimal ==
    ASSUME NEW V, IsFiniteSet(V), V # {}, NEW R,
           \A x \in V : <<x, x>> \notin R,
           \A x, y, z \in V : <<x, y>> \in R /\ <<y, z>> \in R => <<x, z>> \in R
    PROVE  \E x \in V : \A y \in V : <<y, x>> \notin R
<1> DEFINE T == {Below(x, R, V) : x \in V}
<1>1. T # {} /\ T \subseteq FiniteSubsetsOf(V)
  <2>1. FiniteSubsetsOf(V) = SUBSET V
    BY FS_FiniteSubsetsOfFinite
  <2>2. \A x \in V : Below(x, R, V) \in SUBSET V
    BY DEF Below
  <2> QED BY <2>1, <2>2
<1>2. IsWellFoundedOn(StrictSubsetOrdering(V), FiniteSubsetsOf(V))
  BY FS_StrictSubsetOrderingWellFounded
<1>3. PICK B \in T : \A C \in T : ~ (<<C, B>> \in StrictSubsetOrdering(V))
  <2> HIDE DEF T
  <2> QED BY <1>1, <1>2, WFMin, Zenon
<1>4. PICK x \in V : B = Below(x, R, V)
  OBVIOUS
<1>5. SUFFICES ASSUME NEW y \in V, <<y, x>> \in R PROVE FALSE
  OBVIOUS
<1>6. Below(y, R, V) \subseteq B /\ y \in B /\ y \notin Below(y, R, V)
  BY <1>4, <1>5 DEF Below
<1>7. Below(y, R, V) \in T /\ Below(y, R, V) \in SUBSET V /\ B \in SUBSET V
  BY <1>4 DEF Below
<1>8. <<Below(y, R, V), B>> \in StrictSubsetOrdering(V)
  BY <1>6, <1>7 DEF StrictSubsetOrdering
<1> QED BY <1>3, <1>7, <1>8

(* Max and Min of a finite non-empty set of integers are what they say.    *)
LEMMA MinInt ==
    ASSUME NEW S \in SUBSET Int, IsFiniteSet(S), S # {}
    PROVE  Min(S) \in S /\ \A y \in S : Min(S) <= y
<1> DEFINE R == {p \in Int \X Int : p[1] < p[2]}
<1>1. \A x, y \in S : <<x, y>> \in R <=> x < y
  OBVIOUS
<1>2. \E x \in S : \A y \in S : <<y, x>> \notin R
  <2>1. \A x \in S : <<x, x>> \notin R
    BY <1>1
  <2>2. \A x, y, z \in S : <<x, y>> \in R /\ <<y, z>> \in R => <<x, z>> \in R
    BY <1>1
  <2> HIDE DEF R
  <2> QED BY <2>1, <2>2, FiniteMinimal, Zenon
<1>3. \E x \in S : \A y \in S : x =< y
  <2>1. PICK x \in S : \A y \in S : <<y, x>> \notin R
    BY <1>2
  <2> HIDE DEF R
  <2>2. \A y \in S : ~ (y < x)
    BY <1>1, <2>1, Zenon
  <2>3. \A y \in S : x \in Int /\ y \in Int
    OBVIOUS
  <2>4. \A y \in S : x =< y
    BY <2>2, <2>3
  <2> QED BY <2>4
<1> QED BY <1>3 DEF Min

LEMMA MaxInt ==
    ASSUME NEW S \in SUBSET Int, IsFiniteSet(S), S # {}
    PROVE  Max(S) \in S /\ \A y \in S : y <= Max(S)
<1> DEFINE R == {p \in Int \X Int : p[1] > p[2]}
<1>1. \A x, y \in S : <<x, y>> \in R <=> x > y
  OBVIOUS
<1>2. \E x \in S : \A y \in S : <<y, x>> \notin R
  <2>1. \A x \in S : <<x, x>> \notin R
    BY <1>1
  <2>2. \A x, y, z \in S : <<x, y>> \in R /\ <<y, z>> \in R => <<x, z>> \in R
    BY <1>1
  <2> HIDE DEF R
  <2> QED BY <2>1, <2>2, FiniteMinimal, Zenon
<1>3. \E x \in S : \A y \in S : x >= y
  <2>1. PICK x \in S : \A y \in S : <<y, x>> \notin R
    BY <1>2
  <2> HIDE DEF R
  <2>2. \A y \in S : ~ (y > x)
    BY <1>1, <2>1, Zenon
  <2>3. \A y \in S : x \in Int /\ y \in Int
    OBVIOUS
  <2>4. \A y \in S : x >= y
    BY <2>2, <2>3
  <2> QED BY <2>4
<1>4. Max(S) \in S /\ \A y \in S : Max(S) >= y
  BY <1>3 DEF Max
<1> QED BY <1>4

(* The table searched first exists, whatever the handles.                  *)
LEMMA FirstExists ==
    ASSUME NEW V \in SUBSET Handle, IsFiniteSet(V), V # {}
    PROVE  First(V) \in V /\ \A g \in V : ~ Before(g, First(V))
<1> DEFINE R == {p \in Handle \X Handle : Before(p[1], p[2])}
<1>1. \A x, y \in V : <<x, y>> \in R <=> Before(x, y)
  OBVIOUS
<1>2. \A x \in V : ~ Before(x, x)
  BY DEF Before, Handle
<1>3. \A x, y, z \in V : Before(x, y) /\ Before(y, z) => Before(x, z)
  BY DEF Before, Handle
<1>4. \E x \in V : \A y \in V : <<y, x>> \notin R
  <2>1. \A x \in V : <<x, x>> \notin R
    BY <1>1, <1>2
  <2>2. \A x, y, z \in V : <<x, y>> \in R /\ <<y, z>> \in R => <<x, z>> \in R
    BY <1>1, <1>3, Zenon
  <2> HIDE DEF R
  <2> QED BY <2>1, <2>2, FiniteMinimal, Zenon
<1>5. \E x \in V : \A y \in V : ~ Before(y, x)
  BY <1>1, <1>4, Zenon
<1> QED BY <1>5 DEF First

-----------------------------------------------------------------------------
(* Contents *)

(* A table is a map from some of the keys to entries.                      *)
LEMMA TableFunction ==
    \A t : t \in Table <=> (DOMAIN t \subseteq Keys /\ t \in [DOMAIN t -> Entry])
BY DEF Table

LEMMA EmptyTableType == EmptyTable \in Table
BY DEF Table, EmptyTable

(* apply keeps a memtable a memtable.                                      *)
LEMMA InsertType ==
    ASSUME NEW m \in Table, NEW k \in Keys, NEW e \in Entry
    PROVE  Insert(m, k, e) \in Table
<1>1. DOMAIN m \subseteq Keys /\ m \in [DOMAIN m -> Entry]
  BY TableFunction
<1>2. Insert(m, k, e) \in [DOMAIN m \union {k} -> Entry]
  BY <1>1 DEF Insert
<1>3. DOMAIN m \union {k} \in SUBSET Keys
  BY <1>1
<1> QED BY <1>2, <1>3 DEF Table

(* The keys of a table are finitely many, so its smallest and largest keys *)
(* and its size are numbers.                                               *)
LEMMA HandleType ==
    ASSUME NEW t \in Table, NEW id \in Nat, NEW level \in Nat, NEW stamp \in Int
    PROVE  HandleOf(id, t, level, stamp) \in Handle
<1> DEFINE D == DOMAIN t
           N == {k \in D : t[k] # Tombstone}
<1>1. D \in SUBSET Keys
  BY TableFunction
<1>2. IsFiniteSet(D) /\ D \in SUBSET Nat
  BY <1>1, KeysAssumption, FS_Subset
<1>3. Smallest(t) \in Nat
  <2>1. CASE D = {}
    BY <2>1 DEF Smallest, EmptyKey
  <2>2. CASE D # {}
    <3>1. Min(D) \in D
      BY <1>2, <2>2, MinInt
    <3> QED BY <1>2, <2>2, <3>1 DEF Smallest
  <2> QED BY <2>1, <2>2
<1>4. Largest(t) \in Nat
  <2>1. CASE D = {}
    BY <2>1 DEF Largest, EmptyKey
  <2>2. CASE D # {}
    <3>1. Max(D) \in D
      BY <1>2, <2>2, MaxInt
    <3> QED BY <1>2, <2>2, <3>1 DEF Largest
  <2> QED BY <2>1, <2>2
<1>5. Cardinality(D) \in Nat
  BY <1>2, FS_CardinalityType
<1>6. Cardinality(N) \in Nat
  <2>1. N \in SUBSET D
    OBVIOUS
  <2> HIDE DEF N, D
  <2>2. IsFiniteSet(N)
    BY <1>2, <2>1, FS_Subset
  <2> QED BY <2>2, FS_CardinalityType
<1>7. 1 + ApproximateSize(t) \in Nat
  BY <1>5, <1>6 DEF ApproximateSize
<1> QED BY <1>3, <1>4, <1>7 DEF HandleOf, Handle

-----------------------------------------------------------------------------
(* Versions *)

(* FS_Image for the one function it is needed for here.                    *)
LEMMA StampsFinite ==
    ASSUME NEW V \in SUBSET Handle, IsFiniteSet(V)
    PROVE  IsFiniteSet({h.stamp : h \in V}) /\ {h.stamp : h \in V} \in SUBSET Int
<1> DEFINE T == {h.stamp : h \in V}
           f == [h \in V |-> h.stamp]
<1>1. f \in Surjection(V, T)
  BY DEF Surjection
<1>2. IsFiniteSet(T)
  <2> HIDE DEF f, T
  <2> QED BY <1>1, FS_Surjection
<1> QED BY <1>2 DEF Handle

LEMMA LevelFinite ==
    ASSUME NEW V \in SUBSET Handle, IsFiniteSet(V), NEW l
    PROVE  Level(V, l) \in SUBSET V /\ IsFiniteSet(Level(V, l))
<1>1. Level(V, l) \in SUBSET V
  BY DEF Level
<1> QED BY <1>1, FS_Subset

(* The stamps given to new tables are numbers.                             *)
LEMMA StampTypes ==
    ASSUME NEW V \in SUBSET Handle, IsFiniteSet(V), NEW l
    PROVE  FrontStamp(V) \in Int /\ BackStamp(V, l) \in Int
<1> DEFINE S(m) == {h.stamp : h \in Level(V, m)}
<1>1. \A m : Level(V, m) # {} => Min(S(m)) \in Int /\ Max(S(m)) \in Int
  <2> SUFFICES ASSUME NEW m, Level(V, m) # {}
               PROVE  Min(S(m)) \in Int /\ Max(S(m)) \in Int
    OBVIOUS
  <2>1. Level(V, m) \in SUBSET Handle /\ IsFiniteSet(Level(V, m))
    BY LevelFinite
  <2>2. IsFiniteSet(S(m)) /\ S(m) \in SUBSET Int
    BY <2>1, StampsFinite
  <2>3. S(m) # {}
    OBVIOUS
  <2> HIDE DEF S
  <2>4. Min(S(m)) \in S(m) /\ Max(S(m)) \in S(m)
    BY <2>2, <2>3, MinInt, MaxInt
  <2> QED BY <2>2, <2>4
<1>2. FrontStamp(V) = IF Level(V, 0) = {} THEN 1 ELSE 1 + Max(S(0))
  BY DEF FrontStamp
<1>3. BackStamp(V, l) = IF Level(V, l) = {} THEN 1
                        ELSE IF l = 0 THEN Min(S(l)) - 1 ELSE Max(S(l)) + 1
  BY DEF BackStamp
<1> HIDE DEF S
<1>4. FrontStamp(V) \in Int
  BY <1>1, <1>2
<1>5. BackStamp(V, l) \in Int
  BY <1>1, <1>3
<1> QED BY <1>4, <1>5

(* Every source of a compaction comes from the snapshot, and its output    *)
(* level is a level.                                                       *)
LEMMA PickType ==
    ASSUME NEW V \in SUBSET Handle, IsFiniteSet(V), NEW m \in Nat \ {0}
    PROVE  /\ PickCompaction(V, m).inputs \in SUBSET V
           /\ PickCompaction(V, m).level \in Nat
<1>1. \A top \in SUBSET V, l \in Nat : WithOverlapping(V, top, l) \in SUBSET V
  BY DEF WithOverlapping, Level
<1>2. CASE Cardinality(Level(V, 0)) >= L0CompactionTrigger
  <2>1. Min({1, m - 1}) \in {1, m - 1}
    <3>1. {1, m - 1} \in SUBSET Int /\ {1, m - 1} \in SUBSET (0 .. m) /\ {1, m - 1} # {}
      OBVIOUS
    <3>2. IsFiniteSet(0 .. m)
      BY FS_Interval
    <3>3. IsFiniteSet({1, m - 1})
      BY <3>1, <3>2, FS_Subset
    <3> QED BY <3>1, <3>3, MinInt
  <2>2. Level(V, 0) \in SUBSET V
    BY DEF Level
  <2> QED BY <1>1, <1>2, <2>1, <2>2 DEF PickCompaction
<1>3. CASE ~ (Cardinality(Level(V, 0)) >= L0CompactionTrigger)
           /\ OverfullLevels(V, m) = {}
  BY <1>3 DEF PickCompaction, NoCompaction
<1>4. CASE ~ (Cardinality(Level(V, 0)) >= L0CompactionTrigger)
           /\ OverfullLevels(V, m) # {}
  <2> DEFINE l == Min(OverfullLevels(V, m))
  <2>1. OverfullLevels(V, m) \in SUBSET (1 .. m - 2)
    BY DEF OverfullLevels
  <2>2. IsFiniteSet(OverfullLevels(V, m))
    <3>1. IsFiniteSet(1 .. m - 2)
      BY FS_Interval
    <3> QED BY <2>1, <3>1, FS_Subset
  <2>3. l \in OverfullLevels(V, m)
    BY <1>4, <2>1, <2>2, MinInt
  <2>4. l \in Nat /\ Level(V, l) # {}
    BY SMTT(30), <2>1, <2>3 DEF OverfullLevels
  <2>5. First(Level(V, l)) \in Level(V, l)
    <3>1. Level(V, l) \in SUBSET Handle /\ IsFiniteSet(Level(V, l))
      BY LevelFinite
    <3> QED BY <2>4, <3>1, FirstExists
  <2>6. {First(Level(V, l))} \in SUBSET V
    BY <2>5 DEF Level
  <2>7. WithOverlapping(V, {First(Level(V, l))}, l + 1) \in SUBSET V
    BY <1>1, <2>4, <2>6
  <2> QED BY <1>4, <2>4, <2>7 DEF PickCompaction
<1> QED BY <1>2, <1>3, <1>4

(* The output of a merge is a table when every input is.                   *)
LEMMA MergeType ==
    ASSUME NEW I \in SUBSET Handle, IsFiniteSet(I), NEW fs, NEW drop,
           \A h \in I : fs[h.id] \in Table
    PROVE  Merge(I, fs, drop) \in Table
<1> DEFINE keys == UNION {DOMAIN fs[h.id] : h \in I}
           H(k) == {h \in I : k \in DOMAIN fs[h.id]}
           newest == [k \in keys |-> fs[First(H(k)).id][k]]
           kept == {j \in keys : drop => newest[j] # Tombstone}
<1>1. \A h \in I : DOMAIN fs[h.id] \subseteq Keys /\ fs[h.id] \in [DOMAIN fs[h.id] -> Entry]
  BY TableFunction
<1>2. \A k \in keys : newest[k] \in Entry
  <2> SUFFICES ASSUME NEW k \in keys PROVE fs[First(H(k)).id][k] \in Entry
    OBVIOUS
  <2>1. H(k) \in SUBSET Handle /\ H(k) \in SUBSET I /\ H(k) # {}
    OBVIOUS
  <2>2. IsFiniteSet(H(k))
    BY <2>1, FS_Subset
  <2>3. First(H(k)) \in H(k)
    <3> HIDE DEF H
    <3> QED BY <2>1, <2>2, FirstExists
  <2>4. First(H(k)) \in I /\ k \in DOMAIN fs[First(H(k)).id]
    BY <2>3
  <2> QED BY <1>1, <2>4
<1>3. keys \subseteq Keys /\ kept \in SUBSET keys
  BY <1>1
<1>4. Merge(I, fs, drop) = [k \in kept |-> newest[k]]
  BY DEF Merge
<1> HIDE DEF newest, keys, kept
<1>5. [k \in kept |-> newest[k]] \in [kept -> Entry]
  BY <1>2, <1>3
<1> QED BY <1>3, <1>4, <1>5 DEF Table
=============================================================================
