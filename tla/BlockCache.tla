----------------------------- MODULE BlockCache -----------------------------
(***************************************************************************)
(* The LRU cache of decoded blocks.  One mutex guards it, so each          *)
(* operation is a function from a cache to the next one.  The hit and miss *)
(* counters are left out.                                                  *)
(***************************************************************************)
EXTENDS Tables, SequencesExt

CONSTANT MaxBytes     \* Options::cache_size_bytes, at least one

ASSUME MaxBytesAssumption == MaxBytes \in Nat \ {0}

(* map, the order of use with the oldest in front, current_bytes.          *)
NewCache == [map |-> [b \in {} |-> EmptyTable], order |-> <<>>, bytes |-> 0]

(* block_size: the bytes of keys and values, at least one.                 *)
BlockBytes(b) == IF ApproximateSize(b) = 0 THEN 1 ELSE ApproximateSize(b)

Cached(c, key) == key \in DOMAIN c.map

Touch_Keep(order, key) == order
Touch(order, key) == Append(RemoveFirst(order, key), key)

(* get of a block that is cached; a miss changes nothing.                  *)
CacheHit(c, key) == [c EXCEPT !.order = Touch(@, key)]

(* evict_to_fit: the shortest prefix of the order whose blocks have to go. *)
BytesOf(c, keys) ==
    LET size(k) == BlockBytes(c.map[k]) IN MapThenSumSet(size, keys)
Oldest(c, n) == {c.order[i] : i \in 1 .. n}
Fits(c, n) == c.bytes - BytesOf(c, Oldest(c, n)) <= MaxBytes
EvictToFit(c) ==
    LET n == Min({i \in 0 .. Len(c.order) : i = Len(c.order) \/ Fits(c, i)})
        kept == DOMAIN c.map \ Oldest(c, n)
    IN  [map |-> [k \in kept |-> c.map[k]],
         order |-> SubSeq(c.order, n + 1, Len(c.order)),
         bytes |-> c.bytes - BytesOf(c, Oldest(c, n))]

WithBlock(c, key, block) ==
    [k \in DOMAIN c.map \union {key} |-> IF k = key THEN block ELSE c.map[k]]

(* insert: a second reader may have put the block there in the meantime.   *)
CacheInsert_IgnorePrevious(c, key, block) ==
    EvictToFit([map |-> WithBlock(c, key, block),
                order |-> Touch(c.order, key),
                bytes |-> c.bytes + BlockBytes(block)])
CacheInsert(c, key, block) ==
    EvictToFit(
      IF Cached(c, key)
      THEN [map |-> WithBlock(c, key, block),
            order |-> Touch(c.order, key),
            bytes |-> c.bytes - BlockBytes(c.map[key]) + BlockBytes(block)]
      ELSE [map |-> WithBlock(c, key, block),
            order |-> Append(c.order, key),
            bytes |-> c.bytes + BlockBytes(block)])
=============================================================================
