-------------------------- MODULE EvictionProofs --------------------------
(***************************************************************************)
(* What a Store relies on in every eviction policy: the methods keep the    *)
(* shape of the policy, OnInsert and OnAccess track the key, OnRemove       *)
(* forgets it, and a victim is a key that is tracked.                        *)
(***************************************************************************)
EXTENDS Eviction, FiniteSetTheorems, WellFoundedInduction, TLAPS

LEMMA TouchShape ==
    ASSUME NEW place, place \in [DOMAIN place -> Nat], NEW k
    PROVE  /\ DOMAIN touchLocked(place, k) = DOMAIN place \union {k}
           /\ touchLocked(place, k) \in [DOMAIN place \union {k} -> Nat]
<1> \A x \in DOMAIN place : place[x] \in Nat
  OBVIOUS
<1> QED  BY SMT DEF touchLocked

LEMMA LruRemoveShape ==
    ASSUME NEW place, place \in [DOMAIN place -> Nat], NEW k
    PROVE  /\ DOMAIN LruRemove(place, k) = DOMAIN place \ {k}
           /\ LruRemove(place, k) \in [DOMAIN place \ {k} -> Nat]
<1> \A x \in DOMAIN place : place[x] \in Nat
  OBVIOUS
<1> QED  BY SMT DEF LruRemove

LEMMA LfuPutShape ==
    ASSUME NEW K, NEW p, IsPolicy(p, K), NEW k \in K, NEW n \in Nat
    PROVE  /\ IsPolicy(LfuPut(p, k, n), K) /\ LfuPut(p, k, n).name = p.name
           /\ DOMAIN LfuPut(p, k, n).entries = DOMAIN p.entries \union {k}
<1> DEFINE e == [x \in DOMAIN p.entries \union {k} |->
                    IF x = k THEN [freq |-> n, last |-> p.seq + 1] ELSE p.entries[x]]
<1>1. e \in [DOMAIN e -> [freq : Nat, last : Nat]] /\ DOMAIN e = DOMAIN p.entries \union {k}
  <2>1. \A x \in DOMAIN p.entries : p.entries[x] \in [freq : Nat, last : Nat]
    BY DEF IsPolicy
  <2>2. [freq |-> n, last |-> p.seq + 1] \in [freq : Nat, last : Nat]
    BY SMT DEF IsPolicy
  <2> QED  BY <2>1, <2>2
<1>2. LfuPut(p, k, n) = [name |-> p.name, place |-> p.place, entries |-> e, seq |-> p.seq + 1, keys |-> p.keys]
  <2>1. LfuPut(p, k, n) = [p EXCEPT !.seq = p.seq + 1, !.entries = e]
    BY DEF LfuPut
  <2> HIDE DEF e
  <2> QED  BY <2>1 DEF IsPolicy
<1>3. p.seq + 1 \in Nat
  BY SMT DEF IsPolicy
<1> HIDE DEF e
<1> QED  BY <1>1, <1>2, <1>3 DEF IsPolicy

\* A new policy tracks nothing.
LEMMA NewPolicyShape ==
    ASSUME NEW K, NEW n \in PolicyNames
    PROVE  IsPolicy(NewPolicy(n), K) /\ Tracked(NewPolicy(n)) = {}
BY DEF IsPolicy, NewPolicy, Tracked, PolicyNames

\* OnAccess tracks the key, whether or not it was tracked.
LEMMA OnAccessShape ==
    ASSUME NEW K, NEW p, IsPolicy(p, K), NEW k \in K
    PROVE  /\ IsPolicy(OnAccess(p, k), K) /\ OnAccess(p, k).name = p.name
           /\ p.name # "none" => Tracked(OnAccess(p, k)) = Tracked(p) \union {k}
<1>1. CASE p.name = "lru"
  <2> DEFINE t == touchLocked(p.place, k)
  <2>1. DOMAIN t = DOMAIN p.place \union {k} /\ t \in [DOMAIN t -> Nat]
    BY TouchShape DEF IsPolicy
  <2>2. OnAccess(p, k) = [name |-> p.name, place |-> t, entries |-> p.entries, seq |-> p.seq, keys |-> p.keys]
    BY <1>1 DEF OnAccess, IsPolicy
  <2> HIDE DEF t
  <2> QED  BY <1>1, <2>1, <2>2 DEF IsPolicy, Tracked
<1>2. CASE p.name = "lfu"
  <2>1. LfuFreq(p, k) \in Nat
    BY SMT DEF LfuFreq, IsPolicy
  <2>2. LfuFreq(p, k) + 1 \in Nat
    BY <2>1, SMT
  <2>3. OnAccess(p, k) = LfuPut(p, k, LfuFreq(p, k) + 1)
    BY <1>2 DEF OnAccess
  <2> QED  BY <1>2, <2>2, <2>3, LfuPutShape DEF Tracked
<1>3. CASE p.name = "random"
  <2>1. OnAccess(p, k) = [name |-> p.name, place |-> p.place, entries |-> p.entries, seq |-> p.seq,
                          keys |-> p.keys \union {k}]
    BY <1>3 DEF OnAccess, IsPolicy
  <2> QED  BY <1>3, <2>1 DEF IsPolicy, Tracked
<1>4. CASE p.name = "none"
  BY <1>4 DEF OnAccess
<1> QED  BY <1>1, <1>2, <1>3, <1>4 DEF IsPolicy, PolicyNames

LEMMA OnInsertShape ==
    ASSUME NEW K, NEW p, IsPolicy(p, K), NEW k \in K
    PROVE  /\ IsPolicy(OnInsert(p, k), K) /\ OnInsert(p, k).name = p.name
           /\ p.name # "none" => Tracked(OnInsert(p, k)) = Tracked(p) \union {k}
<1>1. CASE p.name = "lfu"
  BY <1>1, LfuPutShape, SMT DEF OnInsert, Tracked
<1>2. CASE p.name # "lfu"
  <2>1. OnInsert(p, k) = OnAccess(p, k)
    BY <1>2 DEF OnInsert, OnAccess, IsPolicy, PolicyNames
  <2> QED  BY <2>1, OnAccessShape
<1> QED  BY <1>1, <1>2

\* OnRemove forgets the key.
LEMMA OnRemoveShape ==
    ASSUME NEW K, NEW p, IsPolicy(p, K), NEW k \in K
    PROVE  /\ IsPolicy(OnRemove(p, k), K) /\ OnRemove(p, k).name = p.name
           /\ Tracked(OnRemove(p, k)) = Tracked(p) \ {k}
<1>1. CASE p.name = "lru"
  <2> DEFINE t == LruRemove(p.place, k)
  <2>1. DOMAIN t = DOMAIN p.place \ {k} /\ t \in [DOMAIN t -> Nat]
    BY LruRemoveShape DEF IsPolicy
  <2>2. OnRemove(p, k) = [name |-> p.name, place |-> t, entries |-> p.entries, seq |-> p.seq, keys |-> p.keys]
    BY <1>1 DEF OnRemove, IsPolicy
  <2> HIDE DEF t
  <2> QED  BY <1>1, <2>1, <2>2 DEF IsPolicy, Tracked
<1>2. CASE p.name = "lfu"
  <2> DEFINE e == [x \in DOMAIN p.entries \ {k} |-> p.entries[x]]
  <2>1. DOMAIN e = DOMAIN p.entries \ {k} /\ e \in [DOMAIN e -> [freq : Nat, last : Nat]]
    BY DEF IsPolicy
  <2>2. OnRemove(p, k) = [name |-> p.name, place |-> p.place, entries |-> e, seq |-> p.seq, keys |-> p.keys]
    BY <1>2 DEF OnRemove, IsPolicy
  <2> HIDE DEF e
  <2> QED  BY <1>2, <2>1, <2>2 DEF IsPolicy, Tracked
<1>3. CASE p.name = "random"
  <2>1. OnRemove(p, k) = [name |-> p.name, place |-> p.place, entries |-> p.entries, seq |-> p.seq,
                          keys |-> p.keys \ {k}]
    BY <1>3 DEF OnRemove, IsPolicy
  <2> QED  BY <1>3, <2>1 DEF IsPolicy, Tracked
<1>4. CASE p.name = "none"
  BY <1>4 DEF OnRemove, Tracked
<1> QED  BY <1>1, <1>2, <1>3, <1>4 DEF IsPolicy, PolicyNames

\* A victim is a key the policy tracks.
LEMMA VictimTracked ==
    ASSUME NEW K, NEW p, IsPolicy(p, K)
    PROVE  Victims(p) \subseteq Tracked(p)
BY DEF Victims, Tracked, LruBack, LfuVictims, IsPolicy, PolicyNames

-----------------------------------------------------------------------------
(* A policy that tracks a key has a victim.                                  *)

\* A set of things with a number each has one with the smallest.
LEMMA Smallest ==
    ASSUME NEW S, S # {}, NEW f \in [S -> Nat]
    PROVE  \E x \in S : \A y \in S : f[x] <= f[y]
<1> DEFINE V == {f[x] : x \in S}
<1>1. V \in SUBSET Nat /\ V # {}
  OBVIOUS
<1>2. IsWellFoundedOn(OpToRel(<, Nat), Nat)
  BY NatLessThanWellFounded
<1> HIDE DEF V
<1>3. PICK n \in V : \A m \in V : ~ (<<m, n>> \in OpToRel(<, Nat))
  BY <1>1, <1>2, WFMin
<1>4. \A m \in V : ~ (m < n)
  BY <1>1, <1>3, Zenon DEF OpToRel
<1>5. PICK x \in S : f[x] = n
  BY DEF V
<1>6. ASSUME NEW y \in S PROVE f[x] <= f[y]
  <2>1. f[y] \in V
    BY DEF V
  <2>2. f[y] \in Nat /\ f[x] \in Nat /\ ~ (f[y] < f[x])
    BY <1>4, <1>5, <2>1
  <2> QED  BY <2>2, SMT
<1> QED  BY <1>6

LEMMA SampleExists ==
    ASSUME NEW K, IsFiniteSet(K), K # {}
    PROVE  \E S \in Samples(K) : S # {}
<1>1. Cardinality(K) \in Nat /\ Cardinality(K) # 0 /\ SampleSize \in Nat \ {0}
  BY FS_CardinalityType, FS_EmptySet, EvictionAssumption
<1>2. CASE Cardinality(K) < SampleSize
  BY <1>2 DEF Samples
<1>3. CASE ~ (Cardinality(K) < SampleSize)
  <2> DEFINE Big == {T \in SUBSET K : Cardinality(T) >= SampleSize}
             size == [T \in Big |-> Cardinality(T)]
  <2>1. \A T \in SUBSET K : IsFiniteSet(T) /\ Cardinality(T) \in Nat
    BY FS_Subset, FS_CardinalityType
  <2>2. K \in Big
    BY <1>1, <1>3, SMT
  <2>3. \A T \in Big : size[T] = Cardinality(T) /\ T \in SUBSET K /\ Cardinality(T) >= SampleSize
    OBVIOUS
  <2>4. size \in [Big -> Nat]
    BY <2>1
  <2>5. \A T \in SUBSET K : Cardinality(T) >= SampleSize => T \in Big
    OBVIOUS
  <2> HIDE DEF Big, size
  <2>6. PICK S \in Big : \A T \in Big : size[S] <= size[T]
    BY <2>2, <2>4, Smallest
  <2>7. S \in SUBSET K /\ IsFiniteSet(S) /\ Cardinality(S) \in Nat /\ Cardinality(S) >= SampleSize
    BY <2>1, <2>3
  <2>8. S # {}
    BY <1>1, <2>7, FS_EmptySet, SMT
  <2>9. Cardinality(S) = SampleSize
    <3>1. SUFFICES ASSUME Cardinality(S) # SampleSize PROVE FALSE
      OBVIOUS
    <3>2. PICK x \in S : TRUE
      BY <2>8
    <3>3. Cardinality(S \ {x}) = Cardinality(S) - 1
      BY <2>7, FS_RemoveElement
    <3>4. Cardinality(S \ {x}) >= SampleSize /\ S \ {x} \in SUBSET K
      BY <1>1, <2>7, <3>1, <3>3, SMT
    <3>5. Cardinality(S) <= Cardinality(S \ {x})
      BY <2>3, <2>5, <2>6, <3>4
    <3> QED  BY <2>7, <3>3, <3>5, SMT
  <2> QED  BY <1>3, <2>7, <2>8, <2>9 DEF Samples
<1> QED  BY <1>2, <1>3

\* The back of a list: the key with the fewest keys behind it has none.
LEMMA LruBackExists ==
    ASSUME NEW place, IsFiniteSet(DOMAIN place), DOMAIN place # {},
           place \in [DOMAIN place -> Nat]
    PROVE  LruBack(place) # {}
<1> DEFINE D == DOMAIN place
           Behind(x) == {y \in D : place[y] > place[x]}
           n == [x \in D |-> Cardinality(Behind(x))]
<1>1. \A x \in D : IsFiniteSet(Behind(x)) /\ Cardinality(Behind(x)) \in Nat
  BY FS_Subset, FS_CardinalityType
<1>2. \A x \in D : n[x] = Cardinality(Behind(x))
  OBVIOUS
<1>3. n \in [D -> Nat]
  BY <1>1
<1> HIDE DEF n
<1>4. PICK v \in D : \A x \in D : n[v] <= n[x]
  BY <1>3, Smallest
<1>5. ASSUME NEW x \in D PROVE place[x] <= place[v]
  <2>1. place[x] \in Nat /\ place[v] \in Nat
    OBVIOUS
  <2>2. SUFFICES ASSUME place[x] > place[v] PROVE FALSE
    BY <2>1, SMT
  <2>3. Behind(x) \subseteq Behind(v)
    <3>1. \A y \in D : place[y] \in Nat
      OBVIOUS
    <3> QED  BY <2>1, <2>2, <3>1, SMT
  <2>4. x \in Behind(v) /\ x \notin Behind(x)
    BY <2>1, <2>2, SMT
  <2>5. Cardinality(Behind(x)) <= Cardinality(Behind(v))
        /\ Cardinality(Behind(x)) # Cardinality(Behind(v))
    BY <1>1, <2>3, <2>4, FS_Subset
  <2>6. Cardinality(Behind(v)) <= Cardinality(Behind(x))
    BY <1>2, <1>4
  <2> HIDE DEF Behind
  <2> QED  BY <1>1, <2>5, <2>6, SMT
<1> QED  BY <1>5 DEF LruBack

\* The rarest of a sample: of its fewest uses, the oldest.
LEMMA LfuVictimExists ==
    ASSUME NEW e, IsFiniteSet(DOMAIN e), DOMAIN e # {},
           e \in [DOMAIN e -> [freq : Nat, last : Nat]]
    PROVE  LfuVictims(e) # {}
<1>1. PICK S \in Samples(DOMAIN e) : S # {}
  BY SampleExists
<1>2. S \subseteq DOMAIN e /\ (\A x \in S : e[x].freq \in Nat /\ e[x].last \in Nat)
  <2>1. \A x \in DOMAIN e : e[x] \in [freq : Nat, last : Nat]
    OBVIOUS
  <2> QED  BY <2>1 DEF Samples
<1> DEFINE n == [x \in S |-> e[x].freq]
<1>3. PICK r \in S : \A y \in S : e[r].freq <= e[y].freq
  <2>1. n \in [S -> Nat] /\ \A x \in S : n[x] = e[x].freq
    BY <1>2
  <2> HIDE DEF n
  <2>2. \E x \in S : \A y \in S : n[x] <= n[y]
    BY <1>1, <2>1, Smallest
  <2> QED  BY <2>1, <2>2
<1> DEFINE Rare == {x \in S : e[x].freq = e[r].freq}
           t == [x \in Rare |-> e[x].last]
<1>4. PICK v \in Rare : \A y \in Rare : e[v].last <= e[y].last
  <2>1. t \in [Rare -> Nat] /\ Rare # {} /\ \A x \in Rare : t[x] = e[x].last
    BY <1>2, <1>3
  <2> HIDE DEF t, Rare
  <2>2. \E x \in Rare : \A y \in Rare : t[x] <= t[y]
    BY <2>1, Smallest
  <2> QED  BY <2>1, <2>2
<1>5. v \in S /\ v \in DOMAIN e /\ e[v].freq = e[r].freq
  BY <1>2, <1>4
<1>6. ASSUME NEW x \in S PROVE ~ lessFrequent(e[x], e[v])
  <2>1. /\ e[x].freq \in Nat /\ e[v].freq \in Nat /\ e[x].last \in Nat /\ e[v].last \in Nat
        /\ e[v].freq <= e[x].freq
    BY <1>2, <1>3, <1>5
  <2>2. e[x].freq = e[v].freq => e[v].last <= e[x].last
    BY <1>4, <1>5
  <2> QED  BY <2>1, <2>2, SMT DEF lessFrequent
<1>7. v \in LfuVictims(e)
  BY <1>5, <1>6 DEF LfuVictims
<1> QED  BY <1>7

LEMMA VictimExists ==
    ASSUME NEW K, IsFiniteSet(K), NEW p, IsPolicy(p, K), Tracked(p) # {}
    PROVE  Victims(p) # {}
<1>1. CASE p.name = "lru"
  <2>1. IsFiniteSet(DOMAIN p.place)
    BY FS_Subset DEF IsPolicy
  <2> QED  BY <1>1, <2>1, LruBackExists DEF IsPolicy, Tracked, Victims
<1>2. CASE p.name = "lfu"
  <2>1. IsFiniteSet(DOMAIN p.entries)
    BY FS_Subset DEF IsPolicy
  <2> QED  BY <1>2, <2>1, LfuVictimExists DEF IsPolicy, Tracked, Victims
<1>3. CASE p.name = "random"
  BY <1>3 DEF Tracked, Victims
<1>4. CASE p.name = "none"
  BY <1>4 DEF Tracked
<1> QED  BY <1>1, <1>2, <1>3, <1>4 DEF IsPolicy, PolicyNames

-----------------------------------------------------------------------------
(* The LRU's list: nobody shares a place, and the key touched is in front.   *)

InList(place) ==
    /\ \A x \in DOMAIN place : place[x] \in Nat \ {0}
    /\ \A x, y \in DOMAIN place : place[x] = place[y] => x = y

Front(place, k) == \A x \in DOMAIN place \ {k} : place[k] < place[x]

LEMMA TouchInList ==
    ASSUME NEW place, InList(place), NEW k
    PROVE  InList(touchLocked(place, k)) /\ Front(touchLocked(place, k), k)
<1> DEFINE D == DOMAIN place
           t == touchLocked(place, k)
<1>1. /\ DOMAIN t = D \union {k} /\ t[k] = 1
      /\ \A x \in D \ {k} : t[x] = IF k \notin D \/ place[x] < place[k] THEN place[x] + 1
                                                                       ELSE place[x]
  BY DEF touchLocked
<1>2. /\ \A x \in D : place[x] \in Nat /\ place[x] # 0
      /\ \A x, y \in D : place[x] = place[y] => x = y
  BY DEF InList
<1> HIDE DEF D, t
<1>3. ASSUME NEW x \in D \ {k} PROVE t[x] \in Nat /\ t[x] > 1
  <2>1. k \in D => place[x] # place[k] /\ place[k] \in Nat /\ place[k] # 0
    BY <1>2
  <2>2. place[x] \in Nat /\ place[x] # 0
    BY <1>2
  <2> QED  BY <1>1, <2>1, <2>2, SMT
<1>4. ASSUME NEW x \in D \ {k}, NEW y \in D \ {k}, t[x] = t[y] PROVE x = y
  <2>1. k \in D => /\ place[x] # place[k] /\ place[y] # place[k] /\ place[k] \in Nat
    BY <1>2
  <2>2. place[x] \in Nat /\ place[y] \in Nat
    BY <1>2
  <2>3. place[x] = place[y]
    BY <1>1, <1>4, <2>1, <2>2, SMT
  <2> QED  BY <1>2, <2>3
<1>5. Front(t, k)
  <2>1. \A x \in DOMAIN t \ {k} : t[k] < t[x]
    BY <1>1, <1>3, SMT
  <2> QED  BY <2>1 DEF Front
<1>6. InList(t)
  <2>1. \A x \in DOMAIN t : t[x] \in Nat \ {0}
    BY <1>1, <1>3, SMT
  <2>2. \A x \in D \ {k} : t[x] # t[k]
    BY <1>1, <1>3, SMT
  <2>3. \A x, y \in DOMAIN t : t[x] = t[y] => x = y
    BY <1>1, <1>4, <2>2
  <2> QED  BY <2>1, <2>3 DEF InList
<1> QED  BY <1>5, <1>6 DEF t

\* Removing another key leaves the one in front there.
LEMMA LruRemoveInList ==
    ASSUME NEW place, InList(place), NEW v
    PROVE  /\ InList(LruRemove(place, v))
           /\ \A k \in DOMAIN place \ {v} : Front(place, k) => Front(LruRemove(place, v), k)
<1> DEFINE D == DOMAIN place
           t == LruRemove(place, v)
<1>1. /\ DOMAIN t = D \ {v}
      /\ \A x \in D \ {v} : t[x] = IF v \in D /\ place[x] > place[v] THEN place[x] - 1
                                                                    ELSE place[x]
  BY DEF LruRemove
<1>2. /\ \A x \in D : place[x] \in Nat /\ place[x] # 0
      /\ \A x, y \in D : place[x] = place[y] => x = y
  BY DEF InList
<1> HIDE DEF D, t
<1>3. ASSUME NEW x \in D \ {v}, NEW y \in D \ {v}
      PROVE  /\ t[x] \in Nat \ {0}
             /\ t[x] = t[y] => place[x] = place[y]
             /\ place[x] < place[y] => t[x] < t[y]
  <2>1. v \in D => /\ place[x] # place[v] /\ place[y] # place[v]
                   /\ place[v] \in Nat /\ place[v] # 0
    BY <1>2
  <2>2. place[x] \in Nat /\ place[y] \in Nat /\ place[x] # 0
    BY <1>2
  <2> QED  BY <1>1, <2>1, <2>2, SMT
<1>4. InList(t)
  BY <1>1, <1>2, <1>3 DEF InList
<1>5. ASSUME NEW k \in D \ {v}, Front(place, k) PROVE Front(t, k)
  <2>1. \A x \in D \ {k} : place[k] < place[x]
    BY <1>5 DEF Front, D
  <2> QED  BY <1>1, <1>3, <2>1 DEF Front
<1> QED  BY <1>4, <1>5 DEF D, t
=============================================================================
