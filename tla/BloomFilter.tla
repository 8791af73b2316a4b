----------------------------- MODULE BloomFilter -----------------------------
(***************************************************************************)
(* The filter of bloom_filter.go as a value: the set of the bits that are   *)
(* set among bitCount, and how many items were new when they were added.    *)
(* The logarithms that size a filter are left out: it has a given number of *)
(* bits and of hash functions.                                              *)
(***************************************************************************)
EXTENDS CountMinSketch

NewBloomFilter(bitCount, hashCount) ==
    [bits |-> {}, bitCount |-> bitCount, hashCount |-> hashCount,
     words |-> (bitCount + 63) \div 64, count |-> 0]

Positions(f, item) == {Hash[item][i] % f.bitCount : i \in 0 .. f.hashCount - 1}

exists(f, item) == Positions(f, item) \subseteq f.bits

\* Faulty: an item that collides is taken for one that is there.
addUnlessCollides(f, item) ==
    IF Positions(f, item) \cap f.bits # {} THEN f
    ELSE [f EXCEPT !.bits = @ \union Positions(f, item), !.count = @ + 1]

add(f, item) ==
    [f EXCEPT !.bits = @ \union Positions(f, item),
              !.count = IF exists(f, item) THEN @ ELSE @ + 1]
==============================================================================
