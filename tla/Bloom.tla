------------------------------- MODULE Bloom --------------------------------
(***************************************************************************)
(* The Bloom filter of a table: a bit array, and for every key a number of *)
(* probes derived from two hashes of the key in wrapping 64-bit            *)
(* arithmetic.  The hashes are arbitrary functions and the size is         *)
(* arbitrary within the limits the code clamps it to, as the formulas that *)
(* choose it use floating-point logarithms.                                *)
(***************************************************************************)
EXTENDS Tables

CONSTANTS
    Hash1, Hash2,    \* the two halves of hash_pair
    WordSize,        \* 2^64
    FilterBytes,     \* byte_count as BloomFilter::new computes it
    HashCount        \* hash_count as BloomFilter::new computes it

ASSUME BloomAssumption ==
    /\ WordSize \in Nat \ {0}
    /\ Hash1 \in [Keys -> 0 .. WordSize - 1]
    /\ Hash2 \in [Keys -> 0 .. WordSize - 1]
    /\ FilterBytes \in Nat /\ FilterBytes >= 8
    /\ HashCount \in 1 .. 16

Filter == [hashes : Nat, bytes : Nat, bits : SUBSET Nat]

(* The bits that insert sets and might_contain looks at.                   *)
Probe(f, k, i) ==
    ((Hash1[k] + ((i * Hash2[k]) % WordSize)) % WordSize) % (8 * f.bytes)
Probes(f, k) == {Probe(f, k, i) : i \in 0 .. f.hashes - 1}

NewFilter == [hashes |-> HashCount, bytes |-> FilterBytes, bits |-> {}]

(* new, then insert of every key of S.                                     *)
FilterOf(S) == [NewFilter EXCEPT !.bits = UNION {Probes(NewFilter, k) : k \in S}]

MightContain(f, k) == f.bytes > 0 /\ Probes(f, k) \subseteq f.bits

(* decode refuses a filter with an implausible number of hashes; the       *)
(* lengths and the checksum are those encode wrote.                        *)
Decodable(f) == f.hashes \in 1 .. 16
=============================================================================
