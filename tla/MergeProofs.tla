---------------------------- MODULE MergeProofs -----------------------------
(***************************************************************************)
(* The merge loop computes the newest-wins merge, for any number of inputs *)
(* and any contents.  The invariant splits the keys of every input into    *)
(* the pending ones, which its head and its iterator still have, and the   *)
(* passed ones: everything passed is below everything pending, and `out'   *)
(* has exactly the passed keys, each with its newest entry.                *)
(***************************************************************************)
EXTENDS MergeTables, TableProofs

Pending(i) == rest[i] \union ({heads[i]} \ {EmptyKey})
Passed(i) == DOMAIN inputs[i] \ Pending(i)
HoldersOf(k) == {i \in DOMAIN inputs : k \in DOMAIN inputs[i]}
NewestOf(k) == inputs[Min(HoldersOf(k))][k]
Wanted(k) == dropping => NewestOf(k) # Tombstone

(* Nothing has been read.                                                  *)
Loading ==
    mpc = "load" =>
        out = <<>> /\ \A i \in DOMAIN inputs : rest[i] = DOMAIN inputs[i]

(* The head of an input is the smallest of its pending keys.               *)
HeadsFirst ==
    mpc \in {"merge", "done"} => \A i \in DOMAIN inputs :
        /\ Pending(i) \subseteq DOMAIN inputs[i]
        /\ heads[i] = EmptyKey => rest[i] = {}
        /\ \A k \in rest[i] : heads[i] < k

PassedBelow ==
    mpc \in {"merge", "done"} => \A i, j \in DOMAIN inputs :
        \A k \in Passed(i), l \in Pending(j) : k < l

OutExact ==
    mpc \in {"merge", "done"} =>
        /\ \A n \in DOMAIN out :
              /\ \E i \in DOMAIN inputs : out[n][1] \in Passed(i)
              /\ out[n][2] = NewestOf(out[n][1]) /\ Wanted(out[n][1])
        /\ \A i \in DOMAIN inputs : \A k \in Passed(i) :
              Wanted(k) => \E n \in DOMAIN out : out[n][1] = k

OutAscends == \A m, n \in DOMAIN out : m < n => out[m][1] < out[n][1]

AllRead == mpc = "done" => heap = {}

HeapHeads ==
    mpc \in {"merge", "done"} =>
        heap = {<<heads[i], i>> : i \in {j \in DOMAIN inputs : heads[j] # EmptyKey}}

MergeInv ==
    /\ MergeTypeOK
    /\ Loading /\ HeapHeads /\ HeadsFirst /\ PassedBelow /\ OutExact /\ OutAscends /\ AllRead

-----------------------------------------------------------------------------
LEMMA KeysPositive == Keys \subseteq Nat /\ EmptyKey \notin Keys /\ \A k \in Keys : EmptyKey < k
BY KeysAssumption DEF EmptyKey

LEMMA KeySetFinite ==
    ASSUME NEW S \in SUBSET Keys
    PROVE  IsFiniteSet(S) /\ S \in SUBSET Int
<1>1. IsFiniteSet(S)
  BY KeysAssumption, FS_Subset
<1>2. S \in SUBSET Int
  BY KeysPositive
<1> QED BY <1>1, <1>2

(* The iterator of a table yields the smallest key it has left.            *)
LEMMA NextKeySmallest ==
    ASSUME NEW S \in SUBSET Keys
    PROVE  /\ S = {} => NextKey(S) = EmptyKey
           /\ S # {} => NextKey(S) \in S /\ \A k \in S : NextKey(S) <= k
           /\ NextKey(S) \in Keys \union {EmptyKey}
<1>1. IsFiniteSet(S) /\ S \in SUBSET Int
  BY KeySetFinite
<1>2. S # {} => Min(S) \in S /\ \A k \in S : Min(S) <= k
  BY <1>1, MinInt
<1> QED BY <1>2 DEF NextKey

(* The top of the heap is the smallest head.                               *)
LEMMA TopOfHeap ==
    ASSUME MergeTypeOK, HeapHeads, mpc = "merge", heap # {}
    PROVE  /\ SmallestKey \in Keys
           /\ \E i \in DOMAIN inputs : heads[i] = SmallestKey
           /\ \A j \in DOMAIN inputs : heads[j] # EmptyKey => SmallestKey <= heads[j]
<1> DEFINE S == {p[1] : p \in heap}
           live == {j \in DOMAIN inputs : heads[j] # EmptyKey}
<1>1. heads \in [DOMAIN inputs -> Keys \union {EmptyKey}]
  BY DEF MergeTypeOK
<1>2. heap = {<<heads[i], i>> : i \in live}
  BY DEF HeapHeads
<1>3. S = {heads[i] : i \in live}
  <2>1. ASSUME NEW p \in heap PROVE \E i \in live : p[1] = heads[i]
    BY <1>2
  <2>2. ASSUME NEW i \in live PROVE \E p \in heap : p[1] = heads[i]
    <3>1. <<heads[i], i>> \in heap /\ <<heads[i], i>>[1] = heads[i]
      BY <1>2
    <3> QED BY <3>1
  <2> HIDE DEF live
  <2> QED BY <2>1, <2>2
<1>4. S \in SUBSET Keys /\ S # {}
  BY <1>1, <1>2, <1>3
<1>5. IsFiniteSet(S) /\ S \in SUBSET Int
  <2> HIDE DEF S
  <2> QED BY <1>4, KeySetFinite
<1>6. Min(S) \in S /\ \A y \in S : Min(S) <= y
  <2> HIDE DEF S
  <2> QED BY <1>4, <1>5, MinInt
<1>7. SmallestKey = Min(S)
  BY DEF SmallestKey
<1> HIDE DEF S
<1> QED BY <1>3, <1>4, <1>6, <1>7

LEMMA InitHolds == ASSUME NEW ins \in Seq(Table), NEW drop \in BOOLEAN, MergeInit(ins, drop)
                   PROVE  MergeInv
<1>1. inputs \in Seq(Table) /\ \A i \in DOMAIN inputs : inputs[i] \in Table
  BY DEF MergeInit
<1>2. \A i \in DOMAIN inputs : DOMAIN inputs[i] \in SUBSET Keys
  BY <1>1, TableFunction
<1>3. MergeTypeOK
  BY <1>1, <1>2 DEF MergeInit, MergeTypeOK
<1>4. Loading /\ HeapHeads /\ HeadsFirst /\ PassedBelow /\ OutExact /\ OutAscends /\ AllRead
  BY DEF MergeInit, Loading, HeapHeads, HeadsFirst, PassedBelow, OutExact, OutAscends, AllRead
<1> QED BY <1>3, <1>4 DEF MergeInv

(* After the first heads are loaded every key is pending.                  *)
LEMMA LoadHolds == ASSUME MergeInv, LoadHeads PROVE MergeInv'
<1> DEFINE D == DOMAIN inputs
<1>1. /\ mpc = "load" /\ mpc' = "merge" /\ inputs' = inputs /\ dropping' = dropping
      /\ out' = <<>> /\ out = <<>>
      /\ heads' = [i \in D |-> NextKey(rest[i])]
      /\ rest' = [i \in D |-> rest[i] \ {NextKey(rest[i])}]
      /\ heap' = {<<NextKey(rest[i]), i>> : i \in {j \in D : rest[j] # {}}}
  BY DEF MergeInv, Loading, LoadHeads
<1>2. /\ inputs \in Seq(Table) /\ dropping \in BOOLEAN
      /\ \A i \in D : rest[i] \in SUBSET Keys /\ rest[i] = DOMAIN inputs[i]
  BY <1>1 DEF MergeInv, MergeTypeOK, Loading
<1>3. \A i \in D : /\ rest[i] = {} => NextKey(rest[i]) = EmptyKey
                   /\ rest[i] # {} => NextKey(rest[i]) \in rest[i]
                   /\ \A k \in rest[i] : NextKey(rest[i]) <= k
                   /\ NextKey(rest[i]) \in Keys \union {EmptyKey}
  BY <1>2, NextKeySmallest
<1>4. \A i \in D : heads'[i] = NextKey(rest[i]) /\ rest'[i] = rest[i] \ {NextKey(rest[i])}
  BY <1>1
<1>5. \A i \in D : Pending(i)' = DOMAIN inputs[i]
  <2> SUFFICES ASSUME NEW i \in D PROVE Pending(i)' = DOMAIN inputs[i]
    OBVIOUS
  <2>1. Pending(i)' = (rest[i] \ {NextKey(rest[i])}) \union ({NextKey(rest[i])} \ {EmptyKey})
    BY <1>4 DEF Pending
  <2>2. CASE rest[i] = {}
    BY <1>2, <1>3, <2>1, <2>2
  <2>3. CASE rest[i] # {}
    <3>1. NextKey(rest[i]) \in rest[i] /\ NextKey(rest[i]) # EmptyKey
      BY <1>2, <1>3, <2>3, KeysPositive
    <3> QED BY <1>2, <2>1, <3>1
  <2> QED BY <2>2, <2>3
<1>6. MergeTypeOK'
  <2>1. heap' \in SUBSET (Keys \X D)
    BY <1>1, <1>2, <1>3
  <2> QED BY <1>1, <1>2, <1>3, <2>1 DEF MergeTypeOK
<1>7. HeapHeads'
  <2>1. {j \in D : rest[j] # {}} = {j \in D : heads'[j] # EmptyKey}
    BY <1>2, <1>3, <1>4, KeysPositive
  <2>2. heap' = {<<heads'[i], i>> : i \in {j \in D : heads'[j] # EmptyKey}}
    BY <1>1, <1>4, <2>1
  <2> QED BY <1>1, <2>2 DEF HeapHeads
<1>8. HeadsFirst'
  <2>1. ASSUME NEW i \in D, NEW k \in rest'[i] PROVE heads'[i] < k
    <3>1. k \in rest[i] /\ k # NextKey(rest[i]) /\ heads'[i] = NextKey(rest[i])
      BY <1>4
    <3>2. NextKey(rest[i]) \in Nat /\ k \in Nat /\ NextKey(rest[i]) <= k
      BY <1>2, <1>3, <3>1, KeysPositive
    <3> QED BY <3>1, <3>2
  <2>2. \A i \in D : heads'[i] = EmptyKey => rest'[i] = {}
    BY <1>2, <1>3, <1>4, KeysPositive
  <2> QED BY <1>1, <1>5, <2>1, <2>2 DEF HeadsFirst
<1>9. \A i \in D : Passed(i)' = {}
  BY <1>1, <1>5 DEF Passed
<1> QED
  BY <1>1, <1>6, <1>7, <1>8, <1>9 DEF MergeInv, Loading, PassedBelow, OutExact, OutAscends, AllRead

(* One turn of the loop: the key K leaves the pending keys of all inputs.  *)
LEMMA StepHolds == ASSUME MergeInv, MergeStep PROVE MergeInv'
<1> DEFINE D == DOMAIN inputs
           K == SmallestKey
<1>1. /\ mpc = "merge" /\ mpc' = "merge" /\ heap # {}
      /\ inputs' = inputs /\ dropping' = dropping
      /\ Advance(K)
      /\ out' = IF dropping /\ Winner(K) = Tombstone THEN out ELSE Append(out, <<K, Winner(K)>>)
  BY DEF MergeStep
<1>2. /\ inputs \in Seq(Table) /\ dropping \in BOOLEAN
      /\ out \in Seq(Keys \X Entry) /\ heap \in SUBSET (Keys \X D)
      /\ \A i \in D : rest[i] \in SUBSET Keys /\ heads[i] \in Keys \union {EmptyKey}
  BY DEF MergeInv, MergeTypeOK
<1>3. /\ K \in Keys
      /\ \E i \in D : heads[i] = K
      /\ \A j \in D : heads[j] # EmptyKey => K <= heads[j]
  BY <1>1, TopOfHeap DEF MergeInv
<1> HIDE DEF K
<1>4. \A i \in D : /\ Pending(i) \subseteq DOMAIN inputs[i]
                   /\ heads[i] = EmptyKey => rest[i] = {}
                   /\ \A k \in rest[i] : heads[i] < k
  BY <1>1 DEF MergeInv, HeadsFirst
<1>5. \A i, j \in D : \A k \in Passed(i), l \in Pending(j) : k < l
  BY <1>1 DEF MergeInv, PassedBelow
<1>6. \A i \in D : /\ rest[i] = {} => NextKey(rest[i]) = EmptyKey
                   /\ rest[i] # {} => NextKey(rest[i]) \in rest[i]
                   /\ \A k \in rest[i] : NextKey(rest[i]) <= k
                   /\ NextKey(rest[i]) \in Keys \union {EmptyKey}
  BY <1>2, NextKeySmallest
<1>7. \A i \in D : \A l \in Pending(i) : l \in Keys /\ K <= l /\ (l \in rest[i] => K < l)
  <2> SUFFICES ASSUME NEW i \in D, NEW l \in Pending(i)
               PROVE  l \in Keys /\ K <= l /\ (l \in rest[i] => K < l)
    OBVIOUS
  <2>1. heads[i] # EmptyKey /\ (l = heads[i] \/ l \in rest[i])
    BY <1>4 DEF Pending
  <2>2. heads[i] \in Keys /\ K <= heads[i] /\ l \in Keys
    BY <1>2, <1>3, <2>1
  <2>3. K \in Nat /\ heads[i] \in Nat /\ l \in Nat
    BY <1>3, <2>2, KeysPositive
  <2>4. l \in rest[i] => heads[i] < l
    BY <1>4
  <2> QED BY <2>1, <2>2, <2>3, <2>4
<1>8. \A i \in D : K \in Pending(i) <=> heads[i] = K
  <2> SUFFICES ASSUME NEW i \in D PROVE K \in Pending(i) <=> heads[i] = K
    OBVIOUS
  <2>1. K \in Nat /\ K # EmptyKey /\ ~ (K < K)
    BY <1>3, KeysPositive
  <2>2. K \in Pending(i) => K \notin rest[i]
    BY <1>7, <2>1
  <2> QED BY <2>1, <2>2 DEF Pending
<1>9. /\ heads' = [i \in D |-> IF heads[i] = K THEN NextKey(rest[i]) ELSE heads[i]]
      /\ rest' = [i \in D |-> IF heads[i] = K THEN rest[i] \ {NextKey(rest[i])} ELSE rest[i]]
      /\ heap' = {p \in heap : p[1] # K} \union
                   {<<NextKey(rest[i]), i>> : i \in {j \in D : heads[j] = K /\ rest[j] # {}}}
  BY <1>1 DEF Advance, Sitting
<1>10. \A i \in D : Pending(i)' = Pending(i) \ {K}
  BY <1>2, <1>3, <1>4, <1>6, <1>9, KeysPositive DEF Pending
<1>11. \A i \in D : Passed(i)' = Passed(i) \union ({K} \intersect DOMAIN inputs[i])
  BY <1>1, <1>4, <1>10 DEF Passed
<1>12. Sitting(K) = HoldersOf(K)
  <2>1. ASSUME NEW i \in D, K \in DOMAIN inputs[i] PROVE heads[i] = K
    <3>1. PICK j \in D : heads[j] = K
      BY <1>3
    <3>2. K \in Pending(j)
      BY <1>8, <3>1
    <3>3. K \in Passed(i) => K < K
      BY <1>5, <3>2
    <3>4. K \in Pending(i)
      BY <1>3, <2>1, <3>3, KeysPositive DEF Passed
    <3> QED BY <1>8, <3>4
  <2>2. \A i \in D : heads[i] = K => K \in DOMAIN inputs[i]
    BY <1>4, <1>8
  <2> QED BY <2>1, <2>2 DEF Sitting, HoldersOf
<1>13. Winner(K) = NewestOf(K)
  BY <1>12 DEF Winner, NewestOf
<1>14. Winner(K) \in Entry
  <2>1. Sitting(K) \in SUBSET D /\ Sitting(K) # {}
    BY <1>3 DEF Sitting
  <2>2. D = 1 .. Len(inputs) /\ Len(inputs) \in Nat
    BY <1>2
  <2>3. IsFiniteSet(D) /\ D \in SUBSET Int
    BY <2>2, FS_Interval
  <2>4. Min(Sitting(K)) \in Sitting(K)
    BY <2>1, <2>3, MinInt, FS_Subset
  <2>5. Min(Sitting(K)) \in D /\ K \in DOMAIN inputs[Min(Sitting(K))]
    BY <1>12, <2>4 DEF HoldersOf
  <2>6. inputs[Min(Sitting(K))] \in Table
    BY <1>2, <2>5
  <2> QED BY <2>5, <2>6, TableFunction DEF Winner
<1>15. MergeTypeOK'
  <2>1. out' \in Seq(Keys \X Entry)
    BY <1>1, <1>2, <1>3, <1>14
  <2>2. heads' \in [D -> Keys \union {EmptyKey}] /\ rest' \in [D -> SUBSET Keys]
    BY <1>2, <1>6, <1>9
  <2>3. heap' \in SUBSET (Keys \X D)
    BY <1>2, <1>6, <1>9
  <2> QED BY <1>1, <1>2, <2>1, <2>2, <2>3 DEF MergeTypeOK
<1>16. HeapHeads'
  <2>1. heap = {<<heads[i], i>> : i \in {j \in D : heads[j] # EmptyKey}}
    BY <1>1 DEF MergeInv, HeapHeads
  <2>2. \A p : p \in heap' <=> \E i \in D : heads'[i] # EmptyKey /\ p = <<heads'[i], i>>
    <3>1. ASSUME NEW p \in heap' PROVE \E i \in D : heads'[i] # EmptyKey /\ p = <<heads'[i], i>>
      BY <1>2, <1>6, <1>9, <2>1, KeysPositive
    <3>2. ASSUME NEW i \in D, heads'[i] # EmptyKey PROVE <<heads'[i], i>> \in heap'
      <4>1. CASE heads[i] = K
        BY <1>6, <1>9, <3>2, <4>1
      <4>2. CASE heads[i] # K
        <5>1. heads'[i] = heads[i]
          BY <1>9, <4>2
        <5>2. <<heads[i], i>> \in heap
          BY <2>1, <3>2, <5>1
        <5>3. <<heads[i], i>>[1] # K
          BY <4>2
        <5> QED BY <1>9, <5>1, <5>2, <5>3
      <4> QED BY <4>1, <4>2
    <3> QED BY <3>1, <3>2
  <2>3. heap' = {<<heads'[i], i>> : i \in {j \in D : heads'[j] # EmptyKey}}
    BY <2>2
  <2> QED BY <1>1, <2>3 DEF HeapHeads
<1>17. HeadsFirst'
  <2>1. \A i \in D : heads'[i] = EmptyKey => rest'[i] = {}
    BY <1>2, <1>3, <1>4, <1>6, <1>9, KeysPositive
  <2>2. ASSUME NEW i \in D, NEW k \in rest'[i] PROVE heads'[i] < k
    <3>1. CASE heads[i] = K
      <4>1. k \in rest[i] /\ k # NextKey(rest[i]) /\ heads'[i] = NextKey(rest[i])
        BY <1>9, <3>1
      <4>2. NextKey(rest[i]) \in Nat /\ k \in Nat /\ NextKey(rest[i]) <= k
        BY <1>2, <1>6, <4>1, KeysPositive
      <4> QED BY <4>1, <4>2
    <3>2. CASE heads[i] # K
      BY <1>4, <1>9, <3>2
    <3> QED BY <3>1, <3>2
  <2>3. \A i \in D : Pending(i)' \subseteq DOMAIN inputs[i]
    BY <1>4, <1>10
  <2> QED BY <1>1, <2>1, <2>2, <2>3 DEF HeadsFirst
<1>18. PassedBelow'
  <2>1. ASSUME NEW i \in D, NEW j \in D, NEW k \in Passed(i)', NEW l \in Pending(j)' PROVE k < l
    <3>1. l \in Pending(j) /\ l # K /\ K <= l /\ l \in Keys
      BY <1>7, <1>10
    <3>2. K \in Nat /\ l \in Nat
      BY <1>3, <3>1, KeysPositive
    <3>3. CASE k \in Passed(i)
      BY <1>5, <3>1, <3>3
    <3>4. CASE k = K
      BY <3>1, <3>2, <3>4
    <3> QED BY <1>11, <3>3, <3>4
  <2> QED BY <1>1, <2>1 DEF PassedBelow
<1>19. /\ \A k : NewestOf(k)' = NewestOf(k)
       /\ \A k : Wanted(k)' = Wanted(k)
  BY <1>1 DEF NewestOf, HoldersOf, Wanted
<1>20. \A n \in DOMAIN out :
          /\ \E i \in D : out[n][1] \in Passed(i)
          /\ out[n][2] = NewestOf(out[n][1]) /\ Wanted(out[n][1])
  BY <1>1 DEF MergeInv, OutExact
<1>21. \A i \in D : \A k \in Passed(i) : Wanted(k) => \E n \in DOMAIN out : out[n][1] = k
  BY <1>1 DEF MergeInv, OutExact
<1>22. Wanted(K) <=> ~ (dropping /\ Winner(K) = Tombstone)
  BY <1>13 DEF Wanted
<1>23. PICK h \in D : K \in Passed(h)'
  BY <1>3, <1>4, <1>8, <1>11
<1>24. CASE Wanted(K)
  <2>1. out' = Append(out, <<K, Winner(K)>>)
    BY <1>1, <1>22, <1>24
  <2>2. /\ Len(out) \in Nat /\ DOMAIN out = 1 .. Len(out)
        /\ DOMAIN out' = 1 .. Len(out) + 1
        /\ \A n \in DOMAIN out : out'[n] = out[n]
        /\ out'[Len(out) + 1] = <<K, Winner(K)>>
    BY <1>2, <1>3, <1>14, <2>1
  <2>3. OutExact'
    <3>1. ASSUME NEW n \in DOMAIN out'
          PROVE  /\ \E i \in D : out'[n][1] \in Passed(i)'
                 /\ out'[n][2] = NewestOf(out'[n][1]) /\ Wanted(out'[n][1])
      <4>1. CASE n \in DOMAIN out
        BY <1>11, <1>20, <2>2, <4>1
      <4>2. CASE n = Len(out) + 1
        BY <1>13, <1>23, <1>24, <2>2, <4>2
      <4> QED BY <2>2, <4>1, <4>2
    <3>2. ASSUME NEW i \in D, NEW k \in Passed(i)', Wanted(k)
          PROVE  \E n \in DOMAIN out' : out'[n][1] = k
      <4>1. CASE k = K
        BY <2>2, <4>1
      <4>2. CASE k # K
        <5>1. PICK n \in DOMAIN out : out[n][1] = k
          BY <1>11, <1>21, <3>2, <4>2
        <5> QED BY <2>2, <5>1
      <4> QED BY <4>1, <4>2
    <3> QED BY <1>1, <1>19, <3>1, <3>2 DEF OutExact
  <2>4. OutAscends'
    <3>1. \A n \in DOMAIN out : out[n][1] < K
      BY <1>3, <1>5, <1>8, <1>20
    <3>2. ASSUME NEW m \in DOMAIN out', NEW n \in DOMAIN out', m < n
          PROVE  out'[m][1] < out'[n][1]
      <4>1. m \in DOMAIN out
        BY <2>2, <3>2
      <4>2. CASE n \in DOMAIN out
        BY <2>2, <3>2, <4>1, <4>2 DEF MergeInv, OutAscends
      <4>3. CASE n = Len(out) + 1
        BY <2>2, <3>1, <4>1, <4>3
      <4> QED BY <2>2, <4>2, <4>3
    <3> QED BY <3>2 DEF OutAscends
  <2> QED BY <1>1, <1>15, <1>16, <1>17, <1>18, <2>3, <2>4 DEF MergeInv, Loading, AllRead
<1>25. CASE ~ Wanted(K)
  <2>1. out' = out
    BY <1>1, <1>22, <1>25
  <2>2. OutExact'
    <3>1. \A n \in DOMAIN out : \E i \in D : out[n][1] \in Passed(i)'
      BY <1>11, <1>20
    <3>2. ASSUME NEW i \in D, NEW k \in Passed(i)', Wanted(k)
          PROVE  \E n \in DOMAIN out : out[n][1] = k
      BY <1>11, <1>21, <1>25, <3>2
    <3> QED BY <1>1, <1>19, <1>20, <2>1, <3>1, <3>2 DEF OutExact
  <2>3. OutAscends'
    BY <2>1 DEF MergeInv, OutAscends
  <2> QED BY <1>1, <1>15, <1>16, <1>17, <1>18, <2>2, <2>3 DEF MergeInv, Loading, AllRead
<1> QED BY <1>24, <1>25

(* A step that leaves the iterators, the heads and `out' alone.            *)
LEMMA SameState ==
    ASSUME MergeInv, UNCHANGED <<inputs, dropping, rest, heads, heap, out>>,
           \/ mpc' = mpc
           \/ mpc = "merge" /\ heap = {} /\ mpc' = "done"
           \/ mpc' = "failed"
    PROVE  MergeInv'
<1>1. \A i : Pending(i)' = Pending(i) /\ Passed(i)' = Passed(i)
  BY DEF Pending, Passed
<1>2. \A k : NewestOf(k)' = NewestOf(k) /\ (Wanted(k)' <=> Wanted(k))
  BY DEF NewestOf, HoldersOf, Wanted
<1>3. MergeTypeOK' /\ Loading' /\ HeapHeads' /\ AllRead' /\ OutAscends'
  BY DEF MergeInv, MergeTypeOK, Loading, HeapHeads, AllRead, OutAscends
<1>4. HeadsFirst' /\ PassedBelow'
  BY <1>1 DEF MergeInv, HeadsFirst, PassedBelow
<1>5. OutExact'
  BY <1>1, <1>2 DEF MergeInv, OutExact
<1> QED BY <1>3, <1>4, <1>5 DEF MergeInv

LEMMA NextHolds == ASSUME MergeInv, [MergeNext]_mergeVars PROVE MergeInv'
BY LoadHolds, StepHolds, SameState DEF MergeNext, MergeReturns, MergeFails, mergeVars

(* In the order of a version the newest input is the one with the smallest *)
(* number.                                                                 *)
LEMMA FirstIsNewest ==
    ASSUME inputs \in Seq(Table), NEW k, HoldersOf(k) # {}
    PROVE  LET H == {h \in InputHandles : k \in DOMAIN inputs[h.id]}
           IN  First(H).id = Min(HoldersOf(k))
<1> DEFINE H == {h \in InputHandles : k \in DOMAIN inputs[h.id]}
           D == DOMAIN inputs
           S == HoldersOf(k)
           G(i) == HandleOf(i, inputs[i], 0, -i)
<1>1. D = 1 .. Len(inputs) /\ Len(inputs) \in Nat
  OBVIOUS
<1>2. IsFiniteSet(D) /\ D \in SUBSET Int /\ D \in SUBSET Nat
  BY <1>1, FS_Interval
<1>3. \A i \in D : G(i) \in Handle /\ G(i).id = i /\ G(i).level = 0 /\ G(i).stamp = -i
  <2> SUFFICES ASSUME NEW i \in D
               PROVE  G(i) \in Handle /\ G(i).id = i /\ G(i).level = 0 /\ G(i).stamp = -i
    OBVIOUS
  <2>1. inputs[i] \in Table /\ i \in Nat /\ 0 \in Nat /\ -i \in Int
    BY <1>2
  <2>2. G(i) \in Handle
    BY <2>1, HandleType
  <2> QED BY <2>2 DEF HandleOf
<1>4. H = {G(i) : i \in S}
  <2>1. InputHandles = {G(i) : i \in D}
    BY DEF InputHandles
  <2>2. S = {i \in D : k \in DOMAIN inputs[i]}
    BY DEF HoldersOf
  <2> HIDE DEF G, D
  <2> QED BY <1>3, <2>1, <2>2
<1>5. S \in SUBSET D /\ IsFiniteSet(S) /\ S # {}
  <2>1. S \in SUBSET D
    BY DEF HoldersOf
  <2> QED BY <1>2, <2>1, FS_Subset
<1>6. H \in SUBSET Handle /\ H # {}
  <2> HIDE DEF H, S, D, G
  <2> QED BY <1>3, <1>4, <1>5
<1>7. IsFiniteSet(H)
  <2> DEFINE f == [i \in S |-> G(i)]
  <2>1. f \in Surjection(S, H)
    <3> HIDE DEF H, S, G
    <3> QED BY <1>4 DEF Surjection
  <2> HIDE DEF f, H, S
  <2> QED BY <1>5, <2>1, FS_Surjection
<1>8. First(H) \in H /\ \A g \in H : ~ Before(g, First(H))
  <2> HIDE DEF H
  <2> QED BY <1>6, <1>7, FirstExists
<1>9. PICK i \in S : First(H) = G(i)
  <2> HIDE DEF H, S, G
  <2> QED BY <1>4, <1>8
<1>10. \A j \in S : i <= j
  <2> SUFFICES ASSUME NEW j \in S PROVE i <= j
    OBVIOUS
  <2>1. G(j) \in H
    <3> HIDE DEF H, S, G
    <3> QED BY <1>4
  <2>2. ~ Before(G(j), G(i))
    <3> HIDE DEF H, S, G
    <3> QED BY <1>8, <1>9, <2>1
  <2>3. G(i).level = 0 /\ G(j).level = 0 /\ G(i).stamp = -i /\ G(j).stamp = -j /\ i \in Nat /\ j \in Nat
    <3> HIDE DEF H, S, G, D
    <3> QED BY <1>2, <1>3, <1>5
  <2> HIDE DEF G
  <2> QED BY <2>2, <2>3 DEF Before
<1>11. Min(S) \in S /\ \A y \in S : Min(S) <= y
  <2> HIDE DEF S, D
  <2> QED BY <1>2, <1>5, MinInt
<1>12. Min(S) = i
  <2>1. Min(S) \in Nat /\ i \in Nat /\ Min(S) <= i /\ i <= Min(S)
    <3> HIDE DEF S, D
    <3> QED BY <1>2, <1>5, <1>10, <1>11
  <2> QED BY <2>1
<1>13. First(H).id = i
  <2> HIDE DEF H, S, G, D
  <2> QED BY <1>3, <1>5, <1>9
<1> QED BY <1>12, <1>13

(* At the end of the loop everything is passed, so `out' is the merge.     *)
LEMMA MergeComputed == ASSUME MergeInv PROVE MergeExact
<1> SUFFICES ASSUME mpc = "done"
             PROVE  OutAscends /\ OutTable = Merge(InputHandles, inputs, dropping)
  BY DEF MergeExact, OutAscends
<1> DEFINE D == DOMAIN inputs
           keys == UNION {DOMAIN inputs[h.id] : h \in InputHandles}
           newest == [k \in keys |-> inputs[First({h \in InputHandles : k \in DOMAIN inputs[h.id]}).id][k]]
           kept == {j \in keys : dropping => newest[j] # Tombstone}
<1>1. inputs \in Seq(Table) /\ out \in Seq(Keys \X Entry)
  BY DEF MergeInv, MergeTypeOK
<1>2. \A i \in D : Passed(i) = DOMAIN inputs[i]
  <2>1. \A i \in D : heads[i] = EmptyKey
    BY DEF MergeInv, AllRead, HeapHeads
  <2>2. \A i \in D : rest[i] = {}
    BY <2>1 DEF MergeInv, HeadsFirst
  <2> QED BY <2>1, <2>2 DEF Passed, Pending
<1>3. \A k : k \in keys <=> \E i \in D : k \in DOMAIN inputs[i]
  <2> DEFINE G(i) == HandleOf(i, inputs[i], 0, -i)
  <2>1. \A i \in D : G(i).id = i
    BY DEF HandleOf
  <2>2. InputHandles = {G(i) : i \in D}
    BY DEF InputHandles
  <2> HIDE DEF G, D
  <2>3. \A k : (\E h \in InputHandles : k \in DOMAIN inputs[h.id])
                 <=> \E i \in D : k \in DOMAIN inputs[i]
    BY <2>1, <2>2
  <2> QED BY <2>3
<1>4. \A k \in keys : HoldersOf(k) # {}
  <2> HIDE DEF keys
  <2> QED BY <1>3 DEF HoldersOf
<1>5. \A k \in keys : newest[k] = NewestOf(k)
  BY <1>1, <1>4, FirstIsNewest DEF NewestOf
<1>6. kept = {k \in keys : Wanted(k)}
  <2> HIDE DEF newest, keys
  <2> QED BY <1>5 DEF Wanted
<1>7. OutKeys = kept
  <2>1. ASSUME NEW n \in DOMAIN out PROVE out[n][1] \in kept
    <3>1. PICK i \in D : out[n][1] \in DOMAIN inputs[i]
      BY <1>2 DEF MergeInv, OutExact
    <3>2. out[n][1] \in keys
      <4> HIDE DEF keys
      <4> QED BY <1>3, <3>1
    <3>3. Wanted(out[n][1])
      BY DEF MergeInv, OutExact
    <3> HIDE DEF kept, keys
    <3> QED BY <1>6, <3>2, <3>3
  <2>2. ASSUME NEW k \in kept PROVE \E n \in DOMAIN out : out[n][1] = k
    <3> HIDE DEF keys, kept
    <3>1. Wanted(k) /\ \E i \in D : k \in DOMAIN inputs[i]
      BY <1>3, <1>6
    <3> QED BY <1>2, <3>1 DEF MergeInv, OutExact
  <2> HIDE DEF kept
  <2> QED BY <2>1, <2>2 DEF OutKeys
<1>8. \A k \in kept : out[CHOOSE n \in DOMAIN out : out[n][1] = k][2] = newest[k]
  <2> SUFFICES ASSUME NEW k \in kept
               PROVE  out[CHOOSE n \in DOMAIN out : out[n][1] = k][2] = newest[k]
    OBVIOUS
  <2>1. \E n \in DOMAIN out : out[n][1] = k
    <3> HIDE DEF kept
    <3> QED BY <1>7 DEF OutKeys
  <2>2. PICK n : n = CHOOSE m \in DOMAIN out : out[m][1] = k
    OBVIOUS
  <2>3. n \in DOMAIN out /\ out[n][1] = k
    BY <2>1, <2>2
  <2>4. out[n][2] = NewestOf(k)
    BY <2>3 DEF MergeInv, OutExact
  <2>5. k \in keys
    OBVIOUS
  <2> HIDE DEF newest, keys, kept
  <2> QED BY <1>5, <2>2, <2>4, <2>5
<1>9. Merge(InputHandles, inputs, dropping) = [k \in kept |-> newest[k]]
  BY DEF Merge
<1>10. OutTable = [k \in kept |-> newest[k]]
  <2> HIDE DEF kept, newest
  <2> QED BY <1>7, <1>8 DEF OutTable
<1> QED BY <1>9, <1>10 DEF MergeInv

(* merge_tables returns the newest entry of every key of its inputs, once, *)
(* in key order, without the tombstones if it was told to drop them: for   *)
(* any number of inputs and any contents.                                  *)
THEOREM MergeCorrect == MergeSpec => []MergeExact
<1>1. (\E ins \in Seq(Table), drop \in BOOLEAN : MergeInit(ins, drop)) => MergeInv
  BY InitHolds
<1>2. MergeInv /\ [MergeNext]_mergeVars => MergeInv'
  BY NextHolds
<1>3. MergeInv => MergeExact
  BY MergeComputed
<1> QED BY <1>1, <1>2, <1>3, PTL DEF MergeSpec
=============================================================================
