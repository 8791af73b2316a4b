------------------------------ MODULE Eviction ------------------------------
(***************************************************************************)
(* The eviction policies of internal/storage as operators on the value of   *)
(* a policy: NewPolicy, OnInsert, OnAccess, OnRemove and the set of keys     *)
(* Victim may return.                                                       *)
(*                                                                          *)
(*   "lru"     the linked list, as the place of each key in it: 1 is the    *)
(*             front, the most recently used key; the back is the victim    *)
(*   "lfu"     use count and last-use stamp per key, and the stamp counter; *)
(*             the victim is the least frequent of an arbitrary sample      *)
(*   "random"  the set of keys; any of them is a victim                     *)
(*   "none"    the nil policy: nothing is tracked, nothing is evicted       *)
(*                                                                          *)
(* Every method holds the mutex of the policy for its whole body, so each   *)
(* is one step of whoever calls it.                                         *)
(***************************************************************************)
EXTENDS Integers, FiniteSets

CONSTANT SampleSize   \* evictionSampleSize

ASSUME EvictionAssumption == SampleSize \in Nat \ {0}

PolicyNames == {"lru", "lfu", "random", "none"}

NewPolicy(name) ==
    [name    |-> name,
     place   |-> [k \in {} |-> 0],    \* lru
     entries |-> [k \in {} |-> 0],    \* lfu
     seq     |-> 0,                   \* lfu
     keys    |-> {}]                  \* random

Tracked(p) == CASE p.name = "lru"    -> DOMAIN p.place
                [] p.name = "lfu"    -> DOMAIN p.entries
                [] p.name = "random" -> p.keys
                [] p.name = "none"   -> {}

\* p is the value of a policy that tracks some of the keys K.
IsPolicy(p, K) ==
    /\ p.name \in PolicyNames
    /\ p = [name |-> p.name, place |-> p.place, entries |-> p.entries,
            seq |-> p.seq, keys |-> p.keys]
    /\ p.place \in [DOMAIN p.place -> Nat] /\ DOMAIN p.place \subseteq K
    /\ p.entries \in [DOMAIN p.entries -> [freq : Nat, last : Nat]]
    /\ DOMAIN p.entries \subseteq K
    /\ p.seq \in Nat /\ p.keys \subseteq K

-----------------------------------------------------------------------------
(* lru: order.MoveToFront or order.PushFront, order.Remove, order.Back       *)

\* Faulty: a key that is in the list already is not moved to the front.
touchOnce(place, k) ==
    IF k \in DOMAIN place THEN place
    ELSE [x \in DOMAIN place \union {k} |-> IF x = k THEN 1 ELSE place[x] + 1]

touchLocked(place, k) ==
    [x \in DOMAIN place \union {k} |->
        IF x = k THEN 1
        ELSE IF k \notin DOMAIN place \/ place[x] < place[k]
             THEN place[x] + 1
             ELSE place[x]]

\* Faulty: the key stays in the list.
LruRemoveNothing(place, k) == place

LruRemove(place, k) ==
    [x \in DOMAIN place \ {k} |->
        IF k \in DOMAIN place /\ place[x] > place[k] THEN place[x] - 1
                                                     ELSE place[x]]

LruBack(place) ==
    {v \in DOMAIN place : \A x \in DOMAIN place : place[x] <= place[v]}

-----------------------------------------------------------------------------
(* lfu: entries of a use count and the stamp of the last use                 *)

LfuPut(p, k, freq) ==
    [p EXCEPT !.seq = @ + 1,
              !.entries = [x \in DOMAIN @ \union {k} |->
                              IF x = k THEN [freq |-> freq, last |-> p.seq + 1]
                                       ELSE p.entries[x]]]

LfuFreq(p, k) == IF k \in DOMAIN p.entries THEN p.entries[k].freq ELSE 0

\* Faulty: ties in frequency are not broken by age.
lessFrequentOnly(a, b) == a.freq < b.freq
lessFrequent(a, b) == \/ a.freq < b.freq
                      \/ a.freq = b.freq /\ a.last < b.last

\* Map iteration starts anywhere, so the sample is any SampleSize of the keys.
Samples(K) == {S \in SUBSET K :
                  Cardinality(S) = IF Cardinality(K) < SampleSize
                                   THEN Cardinality(K) ELSE SampleSize}

LfuVictims(entries) ==
    {v \in DOMAIN entries :
        \E S \in Samples(DOMAIN entries) :
            /\ v \in S
            /\ \A x \in S : ~ lessFrequent(entries[x], entries[v])}

-----------------------------------------------------------------------------
(* The interface a Store calls.                                              *)

OnInsert(p, k) ==
    CASE p.name = "lru"    -> [p EXCEPT !.place = touchLocked(@, k)]
      [] p.name = "lfu"    -> LfuPut(p, k, 1)
      [] p.name = "random" -> [p EXCEPT !.keys = @ \union {k}]
      [] p.name = "none"   -> p

OnAccess(p, k) ==
    CASE p.name = "lru"    -> [p EXCEPT !.place = touchLocked(@, k)]
      [] p.name = "lfu"    -> LfuPut(p, k, LfuFreq(p, k) + 1)
      [] p.name = "random" -> [p EXCEPT !.keys = @ \union {k}]
      [] p.name = "none"   -> p

OnRemove(p, k) ==
    CASE p.name = "lru"    -> [p EXCEPT !.place = LruRemove(@, k)]
      [] p.name = "lfu"    -> [p EXCEPT !.entries =
                                      [x \in DOMAIN @ \ {k} |-> p.entries[x]]]
      [] p.name = "random" -> [p EXCEPT !.keys = @ \ {k}]
      [] p.name = "none"   -> p

Victims(p) == CASE p.name = "lru"    -> LruBack(p.place)
                [] p.name = "lfu"    -> LfuVictims(p.entries)
                [] p.name = "random" -> p.keys
                [] p.name = "none"   -> {}
=============================================================================
