---------------------------- MODULE StoreProofs ----------------------------
(***************************************************************************)
(* First the agreement of the three parts of a Store, the map, the memory   *)
(* counter and the eviction policy, with its types and the discipline of    *)
(* its lock: the parts agree in every state, so each helper of stats.go is  *)
(* shown to keep them so, and each action is a use of helpers. Then what a  *)
(* Store promises, whatever its callers do: it is within its limits when    *)
(* nobody holds the lock; under LRU making room never costs the key that    *)
(* was just written while another one is left; each GET is counted once; a  *)
(* live record leaves the map only when a command names it or an eviction   *)
(* is counted; and the Store implements ExpiringMap: each step is one of    *)
(* the map's, seen through View and Pending, or changes nothing that can be *)
(* seen.                                                                    *)
(***************************************************************************)
EXTENDS StoreProperties, EvictionProofs

(* Sizes: the size of a record is a natural number, and replacing the record *)
(* of one key changes what a map occupies by the difference of the sizes.    *)

RecordMap == [Keys -> Record \union {Absent}]
Size(k, r) == IF r = Absent THEN 0 ELSE recordSize(k, r)

LEMMA FiniteUnion ==
    ASSUME NEW S, IsFiniteSet(S), NEW f, \A x \in S : IsFiniteSet(f[x])
    PROVE  IsFiniteSet(UNION {f[x] : x \in S})
<1> DEFINE T == {f[x] : x \in S}
           g == [x \in S |-> f[x]]
<1>1. g \in Surjection(S, T)
  BY DEF Surjection
<1>2. IsFiniteSet(T)
  BY <1>1, FS_Surjection
<1> QED  BY <1>2, FS_UNION

LEMMA MemberBytesFinite == \A S \in SUBSET Members : IsFiniteSet(MemberBytes(S))
<1> SUFFICES ASSUME NEW S \in SUBSET Members PROVE IsFiniteSet(MemberBytes(S))
  OBVIOUS
<1> DEFINE f == [m \in S |-> {m} \X (1 .. MemberLen[m])]
<1>1. IsFiniteSet(S)
  BY RecordsAssumption, FS_Subset
<1>2. \A m \in S : IsFiniteSet(f[m])
  <2> SUFFICES ASSUME NEW m \in S PROVE IsFiniteSet({m} \X (1 .. MemberLen[m]))
    OBVIOUS
  <2>1. MemberLen[m] \in Nat
    BY RecordsAssumption
  <2>2. 1 \in Int /\ MemberLen[m] \in Int
    BY <2>1, SMT
  <2>3. IsFiniteSet(1 .. MemberLen[m])
    BY <2>2, FS_Interval
  <2>4. IsFiniteSet({m})
    BY FS_Singleton
  <2> QED  BY <2>3, <2>4, FS_Product
<1> HIDE DEF f
<1>3. IsFiniteSet(UNION {f[m] : m \in S})
  BY <1>1, <1>2, FiniteUnion
<1> QED  BY <1>3 DEF MemberBytes, f

\* Members that are not in a set yet add their own length to its size.
LEMMA MembersSplit ==
    ASSUME NEW A \in SUBSET Members, NEW B \in SUBSET Members
    PROVE  /\ membersSize(A) \in Nat /\ membersSize(B \ A) \in Nat
           /\ membersSize(A \union B) = membersSize(A) + membersSize(B \ A)
<1>1. IsFiniteSet(MemberBytes(A)) /\ IsFiniteSet(MemberBytes(B \ A))
  <2>1. B \ A \in SUBSET Members
    OBVIOUS
  <2> QED  BY <2>1, MemberBytesFinite
<1>2. Cardinality(MemberBytes(A)) \in Nat /\ Cardinality(MemberBytes(B \ A)) \in Nat
  BY <1>1, FS_CardinalityType
<1>3. MemberBytes(A) \cap MemberBytes(B \ A) = {}
  BY DEF MemberBytes
<1>4. MemberBytes(A \union B) = MemberBytes(A) \union MemberBytes(B \ A)
  BY DEF MemberBytes
<1>5. Cardinality(MemberBytes(A) \union MemberBytes(B \ A))
        = Cardinality(MemberBytes(A)) + Cardinality(MemberBytes(B \ A)) - Cardinality({})
  BY <1>1, <1>3, FS_Union
<1>6. membersSize(A \union B)
        = Cardinality(MemberBytes(A)) + Cardinality(MemberBytes(B \ A)) - 0
  BY <1>4, <1>5, FS_EmptySet DEF membersSize
<1> QED  BY <1>2, <1>6, SMT DEF membersSize

LEMMA SizeIsNat == \A k \in Keys, r \in Record : recordSize(k, r) \in Nat
<1> SUFFICES ASSUME NEW k \in Keys, NEW r \in Record PROVE recordSize(k, r) \in Nat
  OBVIOUS
<1>1. CASE r \in StringRecord
  BY <1>1, RecordsAssumption, SMT DEF StringRecord, recordSize, valueSize
<1>2. CASE r \in SetRecord
  <2>1. r.members \in SUBSET Members /\ r.type = "set"
    BY <1>2 DEF SetRecord
  <2>2. membersSize(r.members) \in Nat
    BY <2>1, MemberBytesFinite, FS_CardinalityType DEF membersSize
  <2> QED  BY <2>1, <2>2, RecordsAssumption, SMT DEF recordSize, valueSize
<1> QED  BY <1>1, <1>2 DEF Record

LEMMA BytesSize ==
    \A k \in Keys, r \in Record \union {Absent} :
        /\ Size(k, r) \in Nat
        /\ IsFiniteSet(Bytes(k, r)) /\ Cardinality(Bytes(k, r)) = Size(k, r)
<1> SUFFICES ASSUME NEW k \in Keys, NEW r \in Record \union {Absent}
             PROVE  /\ Size(k, r) \in Nat
                    /\ IsFiniteSet(Bytes(k, r)) /\ Cardinality(Bytes(k, r)) = Size(k, r)
  OBVIOUS
<1>1. CASE r = Absent
  BY <1>1, FS_EmptySet DEF Bytes, Size
<1>2. CASE r # Absent
  <2> DEFINE n == recordSize(k, r)
  <2>1. n \in Nat
    BY <1>2, SizeIsNat
  <2> HIDE DEF n
  <2>2. IsFiniteSet(1 .. n) /\ Cardinality(1 .. n) = n
    BY <2>1, FS_Interval, SMT
  <2>3. IsFiniteSet({k}) /\ Cardinality({k}) = 1
    BY FS_Singleton
  <2>4. IsFiniteSet({k} \X (1 .. n)) /\ Cardinality({k} \X (1 .. n)) = 1 * n
    BY <2>2, <2>3, FS_Product, ZenonT(40)
  <2>5. Bytes(k, r) = {k} \X (1 .. n) /\ Size(k, r) = n
    BY <1>2 DEF Bytes, Size, n
  <2> QED  BY <2>1, <2>4, <2>5, SMT
<1> QED  BY <1>1, <1>2

\* The footprint is the bytes of one key and, apart from them, those of the rest.
LEMMA FootprintSplit ==
    ASSUME NEW d \in RecordMap, NEW k \in Keys
    PROVE  LET rest == UNION {Bytes(x, d[x]) : x \in Keys \ {k}} IN
           /\ IsFiniteSet(rest)
           /\ Cardinality(Footprint(d)) = Cardinality(rest) + Size(k, d[k])
           /\ IsFiniteSet(Footprint(d))
<1> DEFINE rest == UNION {Bytes(x, d[x]) : x \in Keys \ {k}}
           f == [x \in Keys \ {k} |-> Bytes(x, d[x])]
<1>1. \A x \in Keys : d[x] \in Record \union {Absent}
  BY DEF RecordMap
<1>2. IsFiniteSet(rest)
  <2>1. IsFiniteSet(Keys \ {k})
    BY RecordsAssumption, FS_Subset
  <2>2. \A x \in Keys \ {k} : IsFiniteSet(f[x])
    BY <1>1, BytesSize
  <2> HIDE DEF f
  <2>3. IsFiniteSet(UNION {f[x] : x \in Keys \ {k}})
    BY <2>1, <2>2, FiniteUnion
  <2> QED  BY <2>3 DEF f
<1>3. Footprint(d) = rest \union Bytes(k, d[k])
  BY DEF Footprint
<1>4. rest \cap Bytes(k, d[k]) = {}
  BY DEF Bytes
<1>5. IsFiniteSet(Bytes(k, d[k])) /\ Cardinality(Bytes(k, d[k])) = Size(k, d[k])
      /\ Size(k, d[k]) \in Nat
  BY <1>1, BytesSize
<1>6. Cardinality(rest) \in Nat
  BY <1>2, FS_CardinalityType
<1>7. IsFiniteSet(Footprint(d))
      /\ Cardinality(Footprint(d)) = Cardinality(rest) + Size(k, d[k]) - Cardinality({})
  BY <1>2, <1>3, <1>4, <1>5, FS_Union
<1> QED  BY <1>2, <1>5, <1>6, <1>7, FS_EmptySet, SMT

\* Replacing one record: the footprint changes by the difference of the sizes.
LEMMA FootprintUpdate ==
    ASSUME NEW d \in RecordMap, NEW k \in Keys, NEW r \in Record \union {Absent}
    PROVE  /\ [d EXCEPT ![k] = r] \in RecordMap
           /\ Cardinality(Footprint([d EXCEPT ![k] = r]))
                = Cardinality(Footprint(d)) - Size(k, d[k]) + Size(k, r)
           /\ Cardinality(Footprint(d)) \in Nat
<1> DEFINE e == [d EXCEPT ![k] = r]
           rest == UNION {Bytes(x, d[x]) : x \in Keys \ {k}}
           rest2 == UNION {Bytes(x, e[x]) : x \in Keys \ {k}}
<1>1. e \in RecordMap /\ e[k] = r /\ \A x \in Keys \ {k} : e[x] = d[x]
  BY DEF RecordMap
<1>2. rest2 = rest
  BY <1>1
<1>3. IsFiniteSet(rest) /\ Cardinality(Footprint(d)) = Cardinality(rest) + Size(k, d[k])
      /\ IsFiniteSet(Footprint(d))
  BY FootprintSplit
<1>4. Cardinality(Footprint(e)) = Cardinality(rest2) + Size(k, e[k])
  BY <1>1, FootprintSplit
<1>5. Cardinality(rest) \in Nat /\ Cardinality(Footprint(d)) \in Nat
  BY <1>3, FS_CardinalityType
<1>6. Size(k, d[k]) \in Nat /\ Size(k, r) \in Nat
  BY BytesSize DEF RecordMap
<1> HIDE DEF e, rest, rest2
<1>7. Cardinality(Footprint(e)) = Cardinality(Footprint(d)) - Size(k, d[k]) + Size(k, r)
  BY <1>1, <1>2, <1>3, <1>4, <1>5, <1>6, SMT
<1> QED  BY <1>1, <1>5, <1>7 DEF e

-----------------------------------------------------------------------------

\* The parts of one store value agree.
Good(s) ==
    /\ IsStore(s)
    /\ s.usedMemory = Cardinality(Footprint(s.data))
    /\ s.policy.name # "none" => Tracked(s.policy) = Present(s)

\* The inductive invariant.
IInv == /\ TypeOK /\ LockOK /\ MemoryExact /\ PolicyTracksData

LEMMA IInvGood == IInv => Good(store)
BY DEF IInv, Good, TypeOK, MemoryExact, PolicyTracksData

-----------------------------------------------------------------------------
(* Store values.                                                             *)

\* A store is the record of its seven fields.
StoreOf(d, p, m, h, i, x, e) ==
    [data |-> d, policy |-> p, usedMemory |-> m, hits |-> h, misses |-> i,
     expiredKeys |-> x, evictedKeys |-> e]

LEMMA StoreParts ==
    ASSUME NEW s, IsStore(s)
    PROVE  /\ s = StoreOf(s.data, s.policy, s.usedMemory, s.hits, s.misses,
                          s.expiredKeys, s.evictedKeys)
           /\ s.data \in RecordMap /\ IsPolicy(s.policy, Keys)
           /\ s.usedMemory \in Int /\ s.hits \in Nat /\ s.misses \in Nat
           /\ s.expiredKeys \in Nat /\ s.evictedKeys \in Nat
BY DEF IsStore, StoreOf, RecordMap

LEMMA StoreOfIsStore ==
    ASSUME NEW d \in RecordMap, NEW p, IsPolicy(p, Keys), NEW m \in Int, NEW h \in Nat,
           NEW i \in Nat, NEW x \in Nat, NEW e \in Nat
    PROVE  IsStore(StoreOf(d, p, m, h, i, x, e))
BY DEF IsStore, StoreOf, RecordMap

\* What a value needs to be a good store: each lemma below builds one of these.
LEMMA StoreOfGood ==
    ASSUME NEW d \in RecordMap, NEW p, IsPolicy(p, Keys), NEW m, NEW h \in Nat,
           NEW i \in Nat, NEW x \in Nat, NEW e \in Nat,
           m = Cardinality(Footprint(d)), m \in Int,
           p.name # "none" => Tracked(p) = {k \in Keys : d[k] # Absent}
    PROVE  Good(StoreOf(d, p, m, h, i, x, e))
<1>1. IsStore(StoreOf(d, p, m, h, i, x, e))
  BY StoreOfIsStore
<1> QED  BY <1>1 DEF Good, StoreOf, Present

\* The helpers of stats.go, field by field.
LEMMA PutOf ==
    ASSUME NEW d, NEW p, NEW m, NEW h, NEW i, NEW x, NEW e, NEW k, NEW r
    PROVE  Put(StoreOf(d, p, m, h, i, x, e), k, r) = StoreOf([d EXCEPT ![k] = r], p, m, h, i, x, e)
BY DEF StoreOf, Put

LEMMA UnsetOf ==
    ASSUME NEW d, NEW p, NEW m, NEW h, NEW i, NEW x, NEW e, NEW k
    PROVE  Unset(StoreOf(d, p, m, h, i, x, e), k) = StoreOf([d EXCEPT ![k] = Absent], p, m, h, i, x, e)
BY DEF StoreOf, Unset

LEMMA InsertOf ==
    ASSUME NEW d, NEW p, NEW m, NEW h, NEW i, NEW x, NEW e, NEW k
    PROVE  notifyInsert(StoreOf(d, p, m, h, i, x, e), k) = StoreOf(d, OnInsert(p, k), m, h, i, x, e)
BY DEF StoreOf, notifyInsert

LEMMA AccessOf ==
    ASSUME NEW d, NEW p, NEW m, NEW h, NEW i, NEW x, NEW e, NEW k
    PROVE  notifyAccess(StoreOf(d, p, m, h, i, x, e), k) = StoreOf(d, OnAccess(p, k), m, h, i, x, e)
BY DEF StoreOf, notifyAccess

LEMMA RemoveOf ==
    ASSUME NEW d, NEW p, NEW m, NEW h, NEW i, NEW x, NEW e, NEW k
    PROVE  notifyRemove(StoreOf(d, p, m, h, i, x, e), k) = StoreOf(d, OnRemove(p, k), m, h, i, x, e)
BY DEF StoreOf, notifyRemove

LEMMA AccountOf ==
    ASSUME NEW d, NEW p, NEW m, NEW h, NEW i, NEW x, NEW e, NEW n
    PROVE  accountMemory(StoreOf(d, p, m, h, i, x, e), n) = StoreOf(d, p, m + n, h, i, x, e)
BY DEF StoreOf, accountMemory

LEMMA ExpiredOf ==
    ASSUME NEW d, NEW p, NEW m, NEW h, NEW i, NEW x, NEW e, NEW k
    PROVE  DropExpired(StoreOf(d, p, m, h, i, x, e), k) = StoreOf([d EXCEPT ![k] = Absent], p, m, h, i, x + 1, e)
<1>1. Unset(StoreOf(d, p, m, h, i, x, e), k) = StoreOf([d EXCEPT ![k] = Absent], p, m, h, i, x, e)
  BY UnsetOf
<1> DEFINE f == [d EXCEPT ![k] = Absent]
<1> HIDE DEF f
<1>2. [StoreOf(f, p, m, h, i, x, e) EXCEPT !.expiredKeys = @ + 1] = StoreOf(f, p, m, h, i, x + 1, e)
  BY DEF StoreOf
<1> QED  BY <1>1, <1>2 DEF DropExpired, f

LEMMA EvictedOf ==
    ASSUME NEW d, NEW p, NEW m, NEW h, NEW i, NEW x, NEW e
    PROVE  CountEvicted(StoreOf(d, p, m, h, i, x, e)) = StoreOf(d, p, m, h, i, x, e + 1)
BY DEF StoreOf, CountEvicted

LEMMA HitOf ==
    ASSUME NEW d, NEW p, NEW m, NEW h, NEW i, NEW x, NEW e
    PROVE  Hit(StoreOf(d, p, m, h, i, x, e)) = StoreOf(d, p, m, h + 1, i, x, e)
BY DEF StoreOf, Hit

LEMMA MissOf ==
    ASSUME NEW d, NEW p, NEW m, NEW h, NEW i, NEW x, NEW e
    PROVE  Miss(StoreOf(d, p, m, h, i, x, e)) = StoreOf(d, p, m, h, i + 1, x, e)
BY DEF StoreOf, Miss

LEMMA AbsentIsNoRecord == Absent \notin Record
BY AbsentAssumption DEF Record, StringRecord, SetRecord

LEMMA NewGood ==
    ASSUME NEW n \in Policies
    PROVE  Good(New(n))
<1>1. IsPolicy(NewPolicy(n), Keys) /\ Tracked(NewPolicy(n)) = {}
  BY NewPolicyShape, StoreAssumption
<1> DEFINE d == [k \in Keys |-> Absent]
<1>2. Footprint(d) = {}
  BY DEF Footprint, Bytes
<1>3. d \in RecordMap /\ {k \in Keys : d[k] # Absent} = {}
  BY DEF RecordMap
<1>4. New(n) = StoreOf(d, NewPolicy(n), 0, 0, 0, 0, 0)
  BY DEF New, StoreOf
<1> HIDE DEF d
<1> QED  BY <1>1, <1>2, <1>3, <1>4, FS_EmptySet, StoreOfGood

\* A key that is not in the map is inserted.
LEMMA InsertGood ==
    ASSUME NEW s, Good(s), NEW k \in Keys, NEW r \in Record, s.data[k] = Absent
    PROVE  Good(trackInsert(Put(s, k, r), k, r))
<1> DEFINE d == [s.data EXCEPT ![k] = r]
           p == OnInsert(s.policy, k)
           m == s.usedMemory + recordSize(k, r)
<1>1. IsStore(s)
  BY DEF Good
<1>2. d \in RecordMap /\ d[k] = r /\ \A x \in Keys \ {k} : d[x] = s.data[x]
  BY <1>1, StoreParts DEF RecordMap
<1>3. IsPolicy(p, Keys) /\ p.name = s.policy.name
      /\ (s.policy.name # "none" => Tracked(p) = Tracked(s.policy) \union {k})
  BY <1>1, StoreParts, OnInsertShape
<1>4. p.name # "none" => Tracked(p) = {x \in Keys : d[x] # Absent}
  BY <1>2, <1>3, AbsentIsNoRecord DEF Good, Present
<1>5. m = Cardinality(Footprint(d)) /\ m \in Int
  <2>1. Cardinality(Footprint(d)) = Cardinality(Footprint(s.data)) - Size(k, s.data[k]) + Size(k, r)
        /\ Cardinality(Footprint(s.data)) \in Nat
    BY <1>1, StoreParts, FootprintUpdate
  <2>2. Size(k, s.data[k]) = 0 /\ Size(k, r) = recordSize(k, r) /\ recordSize(k, r) \in Nat
    BY AbsentIsNoRecord, SizeIsNat DEF Size
  <2>3. s.usedMemory = Cardinality(Footprint(s.data))
    BY DEF Good
  <2> HIDE DEF d
  <2> QED  BY <2>1, <2>2, <2>3, SMT
<1>6. trackInsert(Put(s, k, r), k, r)
        = StoreOf(d, p, m, s.hits, s.misses, s.expiredKeys, s.evictedKeys)
  BY <1>1, StoreParts, PutOf, AccountOf, InsertOf DEF trackInsert
<1> HIDE DEF d, p, m
<1> QED  BY <1>1, <1>2, <1>3, <1>4, <1>5, <1>6, StoreParts, StoreOfGood

\* A key that is in the map takes another record and the difference is charged.
LEMMA ReplaceGood ==
    ASSUME NEW s, Good(s), NEW k \in Keys, NEW r \in Record, s.data[k] # Absent,
           NEW n, n = recordSize(k, r) - recordSize(k, s.data[k])
    PROVE  LET t == accountMemory(Put(s, k, r), n) IN Good(t) /\ t.data[k] = r
<1> DEFINE d == [s.data EXCEPT ![k] = r]
           m == s.usedMemory + n
<1>1. IsStore(s)
  BY DEF Good
<1>2. d \in RecordMap /\ d[k] = r /\ \A x \in Keys \ {k} : d[x] = s.data[x]
  BY <1>1, StoreParts DEF RecordMap
<1>3. s.policy.name # "none" => Tracked(s.policy) = {x \in Keys : d[x] # Absent}
  BY <1>2, AbsentIsNoRecord DEF Good, Present
<1>4. m = Cardinality(Footprint(d)) /\ m \in Int
  <2>1. Cardinality(Footprint(d)) = Cardinality(Footprint(s.data)) - Size(k, s.data[k]) + Size(k, r)
        /\ Cardinality(Footprint(s.data)) \in Nat
    BY <1>1, StoreParts, FootprintUpdate
  <2>2. s.data[k] \in Record
    BY <1>1, StoreParts DEF RecordMap
  <2>3. Size(k, s.data[k]) = recordSize(k, s.data[k]) /\ Size(k, r) = recordSize(k, r)
        /\ recordSize(k, r) \in Nat /\ recordSize(k, s.data[k]) \in Nat
    BY <2>2, AbsentIsNoRecord, SizeIsNat DEF Size
  <2>4. s.usedMemory = Cardinality(Footprint(s.data))
    BY DEF Good
  <2> HIDE DEF d
  <2> QED  BY <2>1, <2>3, <2>4, SMT
<1>5. accountMemory(Put(s, k, r), n)
        = StoreOf(d, s.policy, m, s.hits, s.misses, s.expiredKeys, s.evictedKeys)
  BY <1>1, StoreParts, PutOf, AccountOf
<1> HIDE DEF d, m
<1>6. Good(StoreOf(d, s.policy, m, s.hits, s.misses, s.expiredKeys, s.evictedKeys))
  BY <1>1, <1>2, <1>3, <1>4, StoreParts, StoreOfGood
<1>7. accountMemory(Put(s, k, r), n).data = d
  BY <1>5 DEF StoreOf
<1> QED  BY <1>2, <1>5, <1>6, <1>7

\* A reader may report an access only to a key that is in the map.
LEMMA NotifyGood ==
    ASSUME NEW s, Good(s), NEW k \in Keys, s.data[k] # Absent
    PROVE  Good(notifyAccess(s, k))
<1>1. IsStore(s)
  BY DEF Good
<1> DEFINE p == OnAccess(s.policy, k)
<1>2. notifyAccess(s, k) = StoreOf(s.data, p, s.usedMemory, s.hits, s.misses,
                                   s.expiredKeys, s.evictedKeys)
  BY <1>1, StoreParts, AccessOf
<1>3. IsPolicy(p, Keys) /\ p.name = s.policy.name
      /\ (s.policy.name # "none" => Tracked(p) = Tracked(s.policy) \union {k})
  BY <1>1, StoreParts, OnAccessShape
<1>4. p.name # "none" => Tracked(p) = {y \in Keys : s.data[y] # Absent}
  BY <1>3 DEF Good, Present
<1>5. s.usedMemory = Cardinality(Footprint(s.data))
  BY DEF Good
<1> HIDE DEF p
<1> QED  BY <1>1, <1>2, <1>3, <1>4, <1>5, StoreParts, StoreOfGood

\* A write to a key that is in the map: the difference is charged, the policy told.
LEMMA OverwriteGood ==
    ASSUME NEW s, Good(s), NEW k \in Keys, NEW r \in Record, s.data[k] # Absent
    PROVE  Good(trackOverwrite(Put(s, k, r), k, s.data[k], r))
<1> DEFINE n == recordSize(k, r) - recordSize(k, s.data[k])
           t == accountMemory(Put(s, k, r), n)
<1>1. Good(t) /\ t.data[k] # Absent
  BY ReplaceGood, AbsentIsNoRecord
<1>2. trackOverwrite(Put(s, k, r), k, s.data[k], r) = notifyAccess(t, k)
  BY DEF trackOverwrite
<1> HIDE DEF t
<1> QED  BY <1>1, <1>2, NotifyGood

\* A key leaves the map, whatever counter counts it.
LEMMA RemovalGood ==
    ASSUME NEW s, Good(s), NEW k \in Keys, s.data[k] # Absent, NEW x \in Nat, NEW e \in Nat
    PROVE  LET d == [s.data EXCEPT ![k] = Absent] IN
           Good(StoreOf(d, OnRemove(s.policy, k), s.usedMemory + -recordSize(k, s.data[k]),
                        s.hits, s.misses, x, e))
<1> DEFINE d == [s.data EXCEPT ![k] = Absent]
           p == OnRemove(s.policy, k)
           m == s.usedMemory + -recordSize(k, s.data[k])
<1>1. IsStore(s)
  BY DEF Good
<1>2. d \in RecordMap /\ d[k] = Absent /\ \A y \in Keys \ {k} : d[y] = s.data[y]
  BY <1>1, StoreParts DEF RecordMap
<1>3. IsPolicy(p, Keys) /\ p.name = s.policy.name /\ Tracked(p) = Tracked(s.policy) \ {k}
  BY <1>1, StoreParts, OnRemoveShape
<1>4. p.name # "none" => Tracked(p) = {y \in Keys : d[y] # Absent}
  BY <1>2, <1>3 DEF Good, Present
<1>5. m = Cardinality(Footprint(d)) /\ m \in Int
  <2>1. Cardinality(Footprint(d)) = Cardinality(Footprint(s.data)) - Size(k, s.data[k]) + Size(k, Absent)
        /\ Cardinality(Footprint(s.data)) \in Nat
    BY <1>1, StoreParts, FootprintUpdate
  <2>2. s.data[k] \in Record
    BY <1>1, StoreParts DEF RecordMap
  <2>3. Size(k, s.data[k]) = recordSize(k, s.data[k]) /\ Size(k, Absent) = 0
        /\ recordSize(k, s.data[k]) \in Nat
    BY <2>2, AbsentIsNoRecord, SizeIsNat DEF Size
  <2>4. s.usedMemory = Cardinality(Footprint(s.data))
    BY DEF Good
  <2> HIDE DEF d
  <2> QED  BY <2>1, <2>3, <2>4, SMT
<1> HIDE DEF d, p, m
<1>6. Good(StoreOf(d, p, m, s.hits, s.misses, x, e))
  BY <1>1, <1>2, <1>3, <1>4, <1>5, StoreParts, StoreOfGood
<1> QED  BY <1>6 DEF d, p, m

LEMMA RemoveGood ==
    ASSUME NEW s, Good(s), NEW k \in Keys, s.data[k] # Absent
    PROVE  Good(Remove(s, k)) /\ Good(CountEvicted(Remove(s, k)))
<1> DEFINE d == [s.data EXCEPT ![k] = Absent]
           p == OnRemove(s.policy, k)
           m == s.usedMemory + -recordSize(k, s.data[k])
<1>1. Remove(s, k) = StoreOf(d, p, m, s.hits, s.misses, s.expiredKeys, s.evictedKeys)
  BY StoreParts, UnsetOf, AccountOf, RemoveOf DEF Good, Remove, trackRemove
<1>2. s.expiredKeys \in Nat /\ s.evictedKeys \in Nat
  BY StoreParts DEF Good
<1>3. s.evictedKeys + 1 \in Nat
  BY <1>2, SMT
<1>4. Good(StoreOf(d, p, m, s.hits, s.misses, s.expiredKeys, s.evictedKeys))
  BY <1>2, RemovalGood
<1>5. Good(StoreOf(d, p, m, s.hits, s.misses, s.expiredKeys, s.evictedKeys + 1))
  BY <1>2, <1>3, RemovalGood
<1> HIDE DEF d, p, m
<1> QED  BY <1>1, <1>4, <1>5, EvictedOf

LEMMA RemoveExpiredGood ==
    ASSUME NEW s, Good(s), NEW k \in Keys, s.data[k] # Absent
    PROVE  /\ Good(removeExpired(s, k))
           /\ removeExpired(s, k).data = [s.data EXCEPT ![k] = Absent]
<1> DEFINE d == [s.data EXCEPT ![k] = Absent]
           p == OnRemove(s.policy, k)
           m == s.usedMemory + -recordSize(k, s.data[k])
<1>1. removeExpired(s, k) = StoreOf(d, p, m, s.hits, s.misses, s.expiredKeys + 1, s.evictedKeys)
  BY StoreParts, ExpiredOf, AccountOf, RemoveOf DEF Good, removeExpired, trackRemove
<1>2. s.expiredKeys + 1 \in Nat /\ s.evictedKeys \in Nat
  <2>1. s.expiredKeys \in Nat /\ s.evictedKeys \in Nat
    BY StoreParts DEF Good
  <2> QED  BY <2>1, SMT
<1>3. Good(StoreOf(d, p, m, s.hits, s.misses, s.expiredKeys + 1, s.evictedKeys))
  BY <1>2, RemovalGood
<1> HIDE DEF d, p, m
<1>4. removeExpired(s, k).data = d
  BY <1>1 DEF StoreOf
<1> QED  BY <1>1, <1>3, <1>4 DEF d

LEMMA DeleteIfExpiredGood ==
    ASSUME NEW s, Good(s), NEW k \in Keys
    PROVE  Good(deleteIfExpired(s, k))
BY RemoveExpiredGood DEF deleteIfExpired

LEMMA WriteGood ==
    ASSUME NEW s, Good(s), NEW k \in Keys, NEW r \in Record
    PROVE  Good(Write(s, k, r))
<1> DEFINE t == deleteIfExpired(s, k)
<1>1. Good(t)
  BY DeleteIfExpiredGood
<1>2. Write(s, k, r) = IF t.data[k] = Absent THEN trackInsert(Put(t, k, r), k, r)
                       ELSE trackOverwrite(Put(t, k, r), k, t.data[k], r)
  BY DEF Write
<1> HIDE DEF t
<1> QED  BY <1>1, <1>2, InsertGood, OverwriteGood

\* SADD and SREM: what is charged is the change in size of the set.
LEMMA AddMembersGood ==
    ASSUME NEW s, Good(s), NEW k \in Keys, NEW S \in SUBSET Members, ~ WrongType(s.data[k])
    PROVE  Good(AddMembers(s, k, S))
<1>1. CASE s.data[k] = Absent
  <2>1. SetValue(S, 0) \in Record
    BY DEF SetValue, SetRecord, Record
  <2> QED  BY <1>1, <2>1, InsertGood DEF AddMembers
<1>2. CASE s.data[k] # Absent
  <2> DEFINE q == s.data[k]
             r == [q EXCEPT !.members = q.members \union S]
             n == membersSize(S \ q.members)
             t == accountMemory(Put(s, k, r), n)
  <2>1. q \in SetRecord
    BY <1>2, StoreParts DEF Good, RecordMap, WrongType, Record, StringRecord, SetRecord
  <2>2. q.members \in SUBSET Members /\ q.type = "set"
    BY <2>1 DEF SetRecord
  <2>3. r \in Record /\ r.members = q.members \union S /\ r.type = "set"
    BY <2>1, <2>2 DEF SetRecord, Record
  <2>4. n = recordSize(k, r) - recordSize(k, q)
    <3>1. membersSize(q.members) \in Nat /\ n \in Nat
          /\ membersSize(q.members \union S) = membersSize(q.members) + n
      BY <2>2, MembersSplit
    <3>2. recordSize(k, r) = KeyLen[k] + membersSize(q.members \union S)
          /\ recordSize(k, q) = KeyLen[k] + membersSize(q.members)
      BY <2>2, <2>3 DEF recordSize, valueSize
    <3>3. KeyLen[k] \in Nat
      BY RecordsAssumption
    <3> HIDE DEF n, r, q
    <3> QED  BY <3>1, <3>2, <3>3, SMT
  <2>5. AddMembers(s, k, S) = notifyAccess(t, k)
    BY <1>2 DEF AddMembers
  <2> HIDE DEF n, r
  <2>6. Good(t) /\ t.data[k] = r
    BY <1>2, <2>3, <2>4, ReplaceGood
  <2>7. t.data[k] # Absent
    BY <2>3, <2>6, AbsentIsNoRecord
  <2> HIDE DEF t
  <2> QED  BY <2>5, <2>6, <2>7, NotifyGood
<1> QED  BY <1>1, <1>2

LEMMA TakeMembersGood ==
    ASSUME NEW s, Good(s), NEW k \in Keys, NEW S \in SUBSET Members,
           s.data[k] # Absent, ~ WrongType(s.data[k])
    PROVE  Good(TakeMembers(s, k, S)) /\ TakeMembers(s, k, S).data[k] # Absent
<1> DEFINE q == s.data[k]
           r == [q EXCEPT !.members = q.members \ S]
           n == -membersSize(q.members \cap S)
           t == accountMemory(Put(s, k, r), n)
<1>1. q \in SetRecord
  BY StoreParts DEF Good, RecordMap, WrongType, Record, StringRecord, SetRecord
<1>2. q.members \in SUBSET Members /\ q.type = "set"
  BY <1>1 DEF SetRecord
<1>3. r \in Record /\ r.members = q.members \ S /\ r.type = "set"
  BY <1>1, <1>2 DEF SetRecord, Record
<1>4. n = recordSize(k, r) - recordSize(k, q)
  <2> DEFINE A == q.members \ S
             B == q.members
  <2>1. B \ A = q.members \cap S /\ A \union B = q.members
        /\ A \in SUBSET Members /\ B \in SUBSET Members
    BY <1>2
  <2>2. membersSize(A) \in Nat /\ membersSize(B \ A) \in Nat
        /\ membersSize(A \union B) = membersSize(A) + membersSize(B \ A)
    BY <2>1, MembersSplit
  <2>3. recordSize(k, r) = KeyLen[k] + membersSize(A)
        /\ recordSize(k, q) = KeyLen[k] + membersSize(A \union B)
    BY <1>2, <1>3, <2>1 DEF recordSize, valueSize
  <2>4. KeyLen[k] \in Nat /\ n = -membersSize(B \ A)
    BY <2>1, RecordsAssumption
  <2> HIDE DEF n, r, q, A, B
  <2> QED  BY <2>2, <2>3, <2>4, SMT
<1>5. TakeMembers(s, k, S) = t
  BY DEF TakeMembers
<1> HIDE DEF n, r
<1>6. Good(t) /\ t.data[k] = r
  BY <1>3, <1>4, ReplaceGood
<1>7. t.data[k] # Absent
  BY <1>3, <1>6, AbsentIsNoRecord
<1> HIDE DEF t
<1> QED  BY <1>5, <1>6, <1>7

LEMMA RemoveMembersGood ==
    ASSUME NEW s, Good(s), NEW k \in Keys, NEW S \in SUBSET Members,
           s.data[k] # Absent, ~ WrongType(s.data[k])
    PROVE  Good(RemoveMembers(s, k, S))
<1> DEFINE t == TakeMembers(s, k, S)
<1>1. Good(t) /\ t.data[k] # Absent
  BY TakeMembersGood
<1>2. RemoveMembers(s, k, S) = Remove(t, k) \/ RemoveMembers(s, k, S) = notifyAccess(t, k)
  BY DEF RemoveMembers
<1> HIDE DEF t
<1> QED  BY <1>1, <1>2, NotifyGood, RemoveGood

LEMMA EvictKeyGood ==
    ASSUME NEW s, Good(s), NEW v \in Victims(s.policy)
    PROVE  Good(EvictKey(s, v))
<1>1. s.policy.name # "none"
  BY DEF Victims
<1>2. v \in Keys /\ s.data[v] # Absent
  BY <1>1, VictimTracked, StoreParts DEF Good, Present
<1> QED  BY <1>2, RemoveGood DEF EvictKey

\* The counters of GET leave the three parts alone.
LEMMA CountersGood ==
    ASSUME NEW s, Good(s)
    PROVE  Good(Hit(s)) /\ Good(Miss(s)) /\ Hit(s).data = s.data
<1>1. IsStore(s) /\ s.hits + 1 \in Nat /\ s.misses + 1 \in Nat
  <2>1. s.hits \in Nat /\ s.misses \in Nat /\ IsStore(s)
    BY StoreParts DEF Good
  <2> QED  BY <2>1, SMT
<1>2. s.policy.name # "none" => Tracked(s.policy) = {k \in Keys : s.data[k] # Absent}
  BY DEF Good, Present
<1>3. Hit(s) = StoreOf(s.data, s.policy, s.usedMemory, s.hits + 1, s.misses,
                       s.expiredKeys, s.evictedKeys)
  BY <1>1, StoreParts, HitOf
<1>4. Miss(s) = StoreOf(s.data, s.policy, s.usedMemory, s.hits, s.misses + 1,
                        s.expiredKeys, s.evictedKeys)
  BY <1>1, StoreParts, MissOf
<1>5. s.usedMemory = Cardinality(Footprint(s.data))
  BY DEF Good
<1>51. /\ s.data \in RecordMap /\ IsPolicy(s.policy, Keys) /\ s.usedMemory \in Int
       /\ s.hits \in Nat /\ s.misses \in Nat /\ s.expiredKeys \in Nat /\ s.evictedKeys \in Nat
  BY <1>1, StoreParts
<1>6. Good(Hit(s))
  <2>1. Good(StoreOf(s.data, s.policy, s.usedMemory, s.hits + 1, s.misses,
                     s.expiredKeys, s.evictedKeys))
    BY <1>1, <1>2, <1>5, <1>51, StoreOfGood
  <2> QED  BY <1>3, <2>1, Zenon
<1>7. Good(Miss(s))
  <2>1. Good(StoreOf(s.data, s.policy, s.usedMemory, s.hits, s.misses + 1,
                     s.expiredKeys, s.evictedKeys))
    BY <1>1, <1>2, <1>5, <1>51, StoreOfGood
  <2> QED  BY <1>4, <2>1, Zenon
<1>8. Hit(s).data = s.data
  BY <1>3 DEF StoreOf
<1> QED  BY <1>6, <1>7, <1>8

\* A new deadline changes neither the size of a record nor the policy.
LEMMA DeadlineGood ==
    ASSUME NEW s, Good(s), NEW k \in Keys, s.data[k] # Absent, NEW t \in Nat
    PROVE  Good([s EXCEPT !.data[k].ttl = t]) /\ [s EXCEPT !.data[k].ttl = t].data[k] # Absent
<1> DEFINE r == [s.data[k] EXCEPT !.ttl = t]
           d == [s.data EXCEPT ![k] = r]
<1>1. IsStore(s) /\ s.data \in RecordMap
  BY StoreParts DEF Good
<1>2. s.data[k] \in Record
  BY <1>1 DEF RecordMap
<1>3. r \in Record /\ recordSize(k, r) = recordSize(k, s.data[k])
  <2>1. CASE s.data[k] \in StringRecord
    BY <2>1 DEF Record, StringRecord, recordSize, valueSize
  <2>2. CASE s.data[k] \in SetRecord
    BY <2>2 DEF Record, SetRecord, recordSize, valueSize
  <2> QED  BY <1>2, <2>1, <2>2 DEF Record
<1>4. r # Absent
  BY <1>3, AbsentIsNoRecord
<1> HIDE DEF r
<1>5. d \in RecordMap /\ d[k] = r /\ \A y \in Keys \ {k} : d[y] = s.data[y]
  BY <1>1, <1>3 DEF RecordMap
<1>6. [s EXCEPT !.data[k].ttl = t] = StoreOf(d, s.policy, s.usedMemory, s.hits, s.misses,
                                             s.expiredKeys, s.evictedKeys)
  <2>1. [s EXCEPT !.data[k].ttl = t] = Put(s, k, r)
    BY DEF Put, r
  <2> QED  BY <1>1, <2>1, StoreParts, PutOf
<1>7. s.policy.name # "none" => Tracked(s.policy) = {y \in Keys : d[y] # Absent}
  BY <1>4, <1>5 DEF Good, Present
<1>8. s.usedMemory = Cardinality(Footprint(d))
  <2>1. Cardinality(Footprint(d)) = Cardinality(Footprint(s.data)) - Size(k, s.data[k]) + Size(k, r)
        /\ Cardinality(Footprint(s.data)) \in Nat
    BY <1>1, <1>3, FootprintUpdate
  <2>2. Size(k, s.data[k]) = Size(k, r) /\ Size(k, r) \in Nat
    BY <1>2, <1>3, <1>4, SizeIsNat DEF Size
  <2>3. s.usedMemory = Cardinality(Footprint(s.data))
    BY DEF Good
  <2> HIDE DEF d
  <2> QED  BY <2>1, <2>2, <2>3, SMT
<1> HIDE DEF d
<1>9. Good(StoreOf(d, s.policy, s.usedMemory, s.hits, s.misses, s.expiredKeys, s.evictedKeys))
  BY <1>1, <1>5, <1>7, <1>8, StoreParts, StoreOfGood
<1>10. [s EXCEPT !.data[k].ttl = t].data = d
  BY <1>6 DEF StoreOf
<1> QED  BY <1>4, <1>5, <1>6, <1>9, <1>10

-----------------------------------------------------------------------------
(* What the actions build.                                                   *)

LEMMA FrameParts ==
    ASSUME NEW f \in Frames
    PROVE  /\ f.at = "set" => f.key \in Keys /\ f.record \in StringRecord
           /\ f.at \in {"expire", "ttl"} => f.key \in Keys /\ f.ttl \in Nat
           /\ f.at = "lazy" => /\ f.key \in Keys /\ f.cmd \in {"GET", "TTL", "EXISTS", "SISMEMBER", "SMEMBERS"}
                               /\ f.rest \in Seq(Keys) /\ f.count \in Nat
           /\ f.at \in {"exists", "delete"} => f.rest \in Seq(Keys) /\ f.count \in Nat
           /\ f.at = "sweep" => f.rest \in SUBSET Keys
           /\ f.at = "evict" => f.key \in Keys \union {NoKey}
           /\ f.at = "stats" => f.count \in Nat
BY DEF Frames, Idle

LEMMA ExpiresAtIsNat ==
    ASSUME now \in Nat, NEW ttl \in TTLs
    PROVE  expiresAt(ttl) \in Nat /\ (ttl > 0 => now + ttl \in Nat)
BY StoreAssumption, SMT DEF expiresAt

LEMMA IncrementIsInt == \A i \in Ints : Increment(i) \in Ints
BY RecordsAssumption, SMT DEF Ints, Increment

LEMMA StringValueIsRecord ==
    ASSUME NEW v \in Strings, NEW t \in Nat
    PROVE  StringValue(v, t) \in StringRecord /\ StringValue(v, t) \in Record
BY DEF StringValue, StringRecord, Record

\* INCR writes a record.
LEMMA IncrRecord ==
    ASSUME NEW s, Good(s), NEW k \in Keys, NEW n, n # NotANumber,
           n = IF s.data[k] = Absent THEN 0
               ELSE IF s.data[k].type = "string" THEN ParseInt[s.data[k].text] ELSE NotANumber
    PROVE  StringValue(FormatInt[Increment(n)],
                       IF s.data[k] = Absent THEN 0 ELSE s.data[k].ttl) \in Record
<1>1. s.data[k] \in Record \union {Absent}
  BY StoreParts DEF Good, RecordMap
<1>2. n \in Ints
  <2>1. CASE s.data[k] = Absent
    BY <2>1, RecordsAssumption, SMT DEF Ints
  <2>2. CASE s.data[k] # Absent
    <3>1. s.data[k].type = "string"
      BY <2>2
    <3>2. s.data[k].text \in Strings
      BY <1>1, <2>2, <3>1 DEF Record, StringRecord, SetRecord
    <3> QED  BY <2>2, <3>1, <3>2, RecordsAssumption
  <2> QED  BY <2>1, <2>2
<1>3. FormatInt[Increment(n)] \in Strings
  BY <1>2, IncrementIsInt, RecordsAssumption
<1>4. (IF s.data[k] = Absent THEN 0 ELSE s.data[k].ttl) \in Nat
  BY <1>1 DEF Record, StringRecord, SetRecord
<1> QED  BY <1>3, <1>4, StringValueIsRecord

-----------------------------------------------------------------------------
(* Every step keeps the three parts of the store in agreement.               *)

LEMMA StoreStep == IInv /\ [Next]_vars => Good(store')
<1> SUFFICES ASSUME IInv, [Next]_vars PROVE Good(store')
  OBVIOUS
<1>0. /\ Good(store) /\ now \in Nat
      /\ \A p \in Procs : frame[p] \in Frames
  BY IInvGood DEF IInv, TypeOK
<1>1. ASSUME NEW p \in Clients, Set(p) PROVE Good(store')
  BY <1>0, <1>1 DEF Set
<1>2. ASSUME NEW p \in Clients, SetLocked(p) PROVE Good(store')
  <2>1. frame[p].key \in Keys /\ frame[p].record \in Record
    BY <1>0, <1>2, FrameParts DEF SetLocked, Continue, Procs, Record
  <2>2. store' = Write(store, frame[p].key, frame[p].record)
    BY <1>2 DEF SetLocked
  <2> QED  BY <1>0, <2>1, <2>2, WriteGood
<1>3. ASSUME NEW p \in Clients, Get(p) PROVE Good(store')
  <2>1. PICK k \in Keys : \/ store' = Miss(store)
                          \/ store' = store
                          \/ IsString(k) /\ store' = notifyAccess(Hit(store), k)
    BY <1>3 DEF Get
  <2>2. CASE store' = Miss(store)
    BY <1>0, <2>2, CountersGood
  <2>3. CASE IsString(k) /\ store' = notifyAccess(Hit(store), k)
    <3>1. Good(Hit(store)) /\ Hit(store).data[k] # Absent
      BY <1>0, <2>3, CountersGood DEF IsString, Live
    <3> QED  BY <2>3, <3>1, NotifyGood
  <2> QED  BY <1>0, <2>1, <2>2, <2>3
<1>4. ASSUME NEW p \in Clients, LazyDelete(p) PROVE Good(store')
  <2>1. frame[p].key \in Keys
    BY <1>0, <1>4, FrameParts DEF LazyDelete, Continue, Procs
  <2>2. Good(deleteIfExpired(store, frame[p].key))
    BY <1>0, <2>1, DeleteIfExpiredGood
  <2>3. store' \in {Miss(deleteIfExpired(store, frame[p].key)),
                    deleteIfExpired(store, frame[p].key)}
    BY <1>4 DEF LazyDelete
  <2> QED  BY <2>2, <2>3, CountersGood
<1>5. ASSUME NEW p \in Clients, Incr(p) PROVE Good(store')
  <2>1. PICK k \in Keys :
          LET s == deleteIfExpired(store, k)
              r == s.data[k]
              n == IF r = Absent THEN 0
                   ELSE IF r.type = "string" THEN ParseInt[r.text] ELSE NotANumber
              next == FormatInt[Increment(n)]
          IN \/ store' = s
             \/ /\ n # NotANumber
                /\ store' = Write(s, k, StringValue(next, IF r = Absent THEN 0 ELSE r.ttl))
    BY <1>5 DEF Incr
  <2> DEFINE s == deleteIfExpired(store, k)
             n == IF s.data[k] = Absent THEN 0
                  ELSE IF s.data[k].type = "string" THEN ParseInt[s.data[k].text] ELSE NotANumber
             r == StringValue(FormatInt[Increment(n)],
                              IF s.data[k] = Absent THEN 0 ELSE s.data[k].ttl)
  <2>2. Good(s)
    BY <1>0, DeleteIfExpiredGood
  <2>3. store' = s \/ (n # NotANumber /\ store' = Write(s, k, r))
    BY <2>1
  <2> HIDE DEF s
  <2>4. n # NotANumber => r \in Record
    BY <2>2, IncrRecord
  <2> HIDE DEF n, r
  <2> QED  BY <2>2, <2>3, <2>4, WriteGood
<1>6. ASSUME NEW p \in Clients, Expire(p) PROVE Good(store')
  BY <1>0, <1>6 DEF Expire
<1>7. ASSUME NEW p \in Clients, ExpireLocked(p) PROVE Good(store')
  <2> DEFINE k == frame[p].key
             s == deleteIfExpired(store, k)
  <2>1. k \in Keys /\ frame[p].ttl \in Nat
    BY <1>0, <1>7, FrameParts DEF ExpireLocked, Continue, Procs
  <2>2. Good(s)
    BY <1>0, <2>1, DeleteIfExpiredGood
  <2>3. \/ store' = s
        \/ s.data[k] # Absent /\ store' = notifyAccess([s EXCEPT !.data[k].ttl = frame[p].ttl], k)
    BY <1>7 DEF ExpireLocked
  <2> HIDE DEF k, s
  <2> QED  BY <2>1, <2>2, <2>3, DeadlineGood, NotifyGood
<1>8. ASSUME NEW p \in Clients, TTL(p) PROVE Good(store')
  BY <1>0, <1>8 DEF TTL
<1>9. ASSUME NEW p \in Procs, TTLRemaining(p) PROVE Good(store')
  BY <1>0, <1>9 DEF TTLRemaining
<1>10. ASSUME NEW p \in Clients, Delete(p) \/ Exists(p) \/ ExistsKey(p) \/ ExistsDone(p)
       PROVE  Good(store')
  BY <1>0, <1>10 DEF Delete, Exists, ExistsKey, ExistsDone
<1>11. ASSUME NEW p \in Procs, DeleteKey(p) PROVE Good(store')
  <2>1. frame[p].rest \in Seq(Keys) /\ frame[p].rest # <<>>
    BY <1>0, <1>11, FrameParts DEF DeleteKey, Continue
  <2>2. Head(frame[p].rest) \in Keys
    BY <2>1
  <2>3. \/ store' = store
        \/ /\ store.data[Head(frame[p].rest)] # Absent
           /\ store' = Remove(store, Head(frame[p].rest))
    BY <1>11 DEF DeleteKey
  <2> QED  BY <1>0, <2>2, <2>3, RemoveGood
<1>12. ASSUME NEW p \in Procs, DeleteDone(p) \/ EvictDone(p) \/ StatsCounters(p)
       PROVE  Good(store')
  BY <1>0, <1>12 DEF DeleteDone, EvictDone, StatsCounters
<1>13. ASSUME NEW p \in Clients, Evict(p) \/ Stats(p) PROVE Good(store')
  BY <1>0, <1>13 DEF Evict, Stats
<1>14. ASSUME NEW p \in Procs, EvictStep(p) PROVE Good(store')
  <2>1. PICK v \in Victims(store.policy) : store' = EvictKey(store, v)
    BY <1>14 DEF EvictStep
  <2> QED  BY <1>0, <2>1, EvictKeyGood
<1>15. ASSUME Sweep \/ SweepDone \/ Tick PROVE Good(store')
  BY <1>0, <1>15 DEF Sweep, SweepDone, Tick
<1>16. ASSUME SweepKey PROVE Good(store')
  <2>1. frame[Sweeper].rest \in SUBSET Keys
    BY <1>0, <1>16, FrameParts DEF SweepKey, Continue, Procs
  <2>2. PICK k \in Keys : store' = deleteIfExpired(store, k)
    BY <1>16, <2>1 DEF SweepKey
  <2> QED  BY <1>0, <2>2, DeleteIfExpiredGood
<1>17. ASSUME NEW p \in Clients, SAdd(p) PROVE Good(store')
  <2>1. PICK k \in Keys, S \in SUBSET Members :
          LET s == deleteIfExpired(store, k)
          IN store' = s \/ (~ WrongType(s.data[k]) /\ store' = AddMembers(s, k, S))
    BY <1>17 DEF SAdd
  <2> DEFINE s == deleteIfExpired(store, k)
  <2>2. Good(s)
    BY <1>0, DeleteIfExpiredGood
  <2>3. store' = s \/ (~ WrongType(s.data[k]) /\ store' = AddMembers(s, k, S))
    BY <2>1
  <2> HIDE DEF s
  <2> QED  BY <2>2, <2>3, AddMembersGood
<1>18. ASSUME NEW p \in Clients, SRem(p) PROVE Good(store')
  <2>1. PICK k \in Keys, S \in SUBSET Members :
          LET s == deleteIfExpired(store, k)
          IN \/ store' = s
             \/ /\ s.data[k] # Absent /\ ~ WrongType(s.data[k])
                /\ store' = RemoveMembers(s, k, S)
    BY <1>18 DEF SRem
  <2> DEFINE s == deleteIfExpired(store, k)
  <2>2. Good(s)
    BY <1>0, DeleteIfExpiredGood
  <2>3. \/ store' = s
        \/ /\ s.data[k] # Absent /\ ~ WrongType(s.data[k])
           /\ store' = RemoveMembers(s, k, S)
    BY <2>1
  <2> HIDE DEF s
  <2> QED  BY <2>2, <2>3, RemoveMembersGood
<1>19. ASSUME NEW p \in Clients, SIsMember(p) \/ SMembers(p) PROVE Good(store')
  <2>1. PICK k \in Keys : store' = store \/ (IsSet(k) /\ store' = notifyAccess(store, k))
    BY <1>19 DEF SIsMember, SMembers
  <2> QED  BY <1>0, <2>1, NotifyGood DEF IsSet, Live
<1>20. CASE UNCHANGED vars
  BY <1>0, <1>20 DEF vars
<1> QED
  BY <1>1, <1>2, <1>3, <1>4, <1>5, <1>6, <1>7, <1>8, <1>9, <1>10, <1>11, <1>12, <1>13,
     <1>14, <1>15, <1>16, <1>17, <1>18, <1>19, <1>20
  DEF Next, Begin, Waiting, Holding, Sweeping

-----------------------------------------------------------------------------
(* Every step leaves the clock, the lock and the calls well-typed.           *)

CallsTyped ==
    /\ now \in Nat /\ writer \in Procs \union {NoProc} /\ readers \in SUBSET Procs
    /\ frame \in [Procs -> Frames]
    /\ issued \in Nat /\ gets \in Nat

\* The frames the actions build.
LEMMA FramesBuilt ==
    /\ Idle \in Frames
    /\ \A k \in Keys, r \in StringRecord : [at |-> "set", key |-> k, record |-> r] \in Frames
    /\ \A k \in Keys, t \in Nat : /\ [at |-> "expire", key |-> k, ttl |-> t] \in Frames
                                  /\ [at |-> "ttl", key |-> k, ttl |-> t] \in Frames
    /\ \A k \in Keys, keys \in Seq(Keys), n \in Nat :
          [at |-> "lazy", key |-> k, cmd |-> "EXISTS", rest |-> keys, count |-> n] \in Frames
    /\ \A k \in Keys, c \in {"GET", "TTL", "SISMEMBER", "SMEMBERS"} : Lazy(k, c) \in Frames
    /\ \A keys \in Seq(Keys), n \in Nat : /\ KeyLoop("delete", keys, n) \in Frames
                                          /\ KeyLoop("exists", keys, n) \in Frames
    /\ \A S \in SUBSET Keys : [at |-> "sweep", rest |-> S] \in Frames
    /\ \A k \in Keys \union {NoKey} : Evicting(k) \in Frames
    /\ \A n \in Nat : [at |-> "stats", count |-> n] \in Frames
<1>1. Idle \in Frames
  BY DEF Frames
<1>2. \A k \in Keys, r \in StringRecord : [at |-> "set", key |-> k, record |-> r] \in Frames
  BY DEF Frames
<1>3. \A k \in Keys, t \in Nat : /\ [at |-> "expire", key |-> k, ttl |-> t] \in Frames
                                 /\ [at |-> "ttl", key |-> k, ttl |-> t] \in Frames
  BY DEF Frames
<1>4. \A k \in Keys, keys \in Seq(Keys), n \in Nat :
         [at |-> "lazy", key |-> k, cmd |-> "EXISTS", rest |-> keys, count |-> n] \in Frames
  BY DEF Frames
<1>5. \A k \in Keys, c \in {"GET", "TTL", "SISMEMBER", "SMEMBERS"} : Lazy(k, c) \in Frames
  <2>1. <<>> \in Seq(Keys) /\ 0 \in Nat
    OBVIOUS
  <2> QED  BY <2>1 DEF Frames, Lazy
<1>6. \A keys \in Seq(Keys), n \in Nat : /\ KeyLoop("delete", keys, n) \in Frames
                                         /\ KeyLoop("exists", keys, n) \in Frames
  BY DEF Frames, KeyLoop
<1>7. \A S \in SUBSET Keys : [at |-> "sweep", rest |-> S] \in Frames
  BY DEF Frames
<1>8. \A k \in Keys \union {NoKey} : Evicting(k) \in Frames
  BY DEF Frames, Evicting
<1>9. \A n \in Nat : [at |-> "stats", count |-> n] \in Frames
  BY DEF Frames
<1> QED  BY <1>1, <1>2, <1>3, <1>4, <1>5, <1>6, <1>7, <1>8, <1>9

LEMMA GotoTyped ==
    ASSUME frame \in [Procs -> Frames], NEW p \in Procs, NEW f \in Frames, Goto(p, f)
    PROVE  frame' \in [Procs -> Frames]
BY DEF Goto

LEMMA LockTyped ==
    ASSUME CallsTyped, NEW p \in Procs,
           \/ SameLock \/ Lock(p) \/ Unlock(p)
           \/ readers' = readers \union {p} /\ UNCHANGED writer
           \/ readers' = readers \ {p} /\ UNCHANGED writer
    PROVE  writer' \in Procs \union {NoProc} /\ readers' \in SUBSET Procs
BY DEF CallsTyped, SameLock, Lock, Unlock

LEMMA CountersTyped ==
    ASSUME CallsTyped, NEW p,
           \/ \E c \in Commands : Call(p, c)
           \/ UNCHANGED <<now, issued, gets>>
    PROVE  now' \in Nat /\ issued' \in Nat /\ gets' \in Nat
BY SMT DEF CallsTyped, Call

LEMMA PresentIsFinite == ASSUME NEW s PROVE Cardinality(Present(s)) \in Nat
BY RecordsAssumption, FS_Subset, FS_CardinalityType DEF Present

\* A step of goroutine p that moves it to frame f.
Moves(p, f) ==
    /\ Goto(p, f)
    /\ \/ SameLock \/ Lock(p) \/ Unlock(p)
       \/ readers' = readers \union {p} /\ UNCHANGED writer
       \/ readers' = readers \ {p} /\ UNCHANGED writer
    /\ (\E c \in Commands : Call(p, c)) \/ UNCHANGED <<now, issued, gets>>

LEMMA MovesTyped ==
    ASSUME CallsTyped, NEW p \in Procs, NEW f \in Frames, Moves(p, f)
    PROVE  CallsTyped'
<1>1. frame' \in [Procs -> Frames]
  BY GotoTyped DEF CallsTyped, Moves
<1>2. writer' \in Procs \union {NoProc} /\ readers' \in SUBSET Procs
  BY LockTyped DEF Moves
<1>3. now' \in Nat /\ issued' \in Nat /\ gets' \in Nat
  BY CountersTyped DEF Moves
<1> QED  BY <1>1, <1>2, <1>3 DEF CallsTyped

LEMMA CallsStep == IInv /\ [Next]_vars => CallsTyped'
<1> SUFFICES ASSUME IInv, CallsTyped, [Next]_vars PROVE CallsTyped'
  BY DEF IInv, TypeOK, CallsTyped
<1>0. now \in Nat /\ Clients \subseteq Procs /\ Sweeper \in Procs
      /\ \A p \in Procs : frame[p] \in Frames
  BY DEF CallsTyped, Procs
<1>1. ASSUME NEW p \in Clients, Set(p) PROVE CallsTyped'
  <2>1. PICK k \in Keys, v \in Strings, ttl \in TTLs :
          /\ Call(p, "SET") /\ SameLock
          /\ Goto(p, [at |-> "set", key |-> k, record |-> StringValue(v, expiresAt(ttl))])
    BY <1>1 DEF Set, Answer
  <2>2. StringValue(v, expiresAt(ttl)) \in StringRecord
    BY <1>0, ExpiresAtIsNat, StringValueIsRecord
  <2> QED  BY <1>0, <2>1, <2>2, FramesBuilt, MovesTyped DEF Moves, Call
<1>2. ASSUME NEW p \in Clients, SetLocked(p) PROVE CallsTyped'
  <2>1. frame[p].key \in Keys
    BY <1>0, <1>2, FrameParts DEF SetLocked, Continue
  <2>2. Evicting(frame[p].key) \in Frames
    BY <2>1, FramesBuilt
  <2>3. Moves(p, Evicting(frame[p].key))
    BY <1>2 DEF SetLocked, Continue, Moves
  <2> QED  BY <1>0, <2>2, <2>3, MovesTyped
<1>3. ASSUME NEW p \in Clients, Get(p) PROVE CallsTyped'
  <2>1. PICK k \in Keys : /\ Call(p, "GET") /\ SameLock
                          /\ Goto(p, Idle) \/ Goto(p, Lazy(k, "GET"))
    BY <1>3 DEF Get, Answer, Return
  <2> QED  BY <1>0, <2>1, FramesBuilt, MovesTyped DEF Moves, Call
<1>4. ASSUME NEW p \in Clients, LazyDelete(p) PROVE CallsTyped'
  <2>1. frame[p].rest \in Seq(Keys) /\ frame[p].count \in Nat
    BY <1>0, <1>4, FrameParts DEF LazyDelete, Continue
  <2>2. Moves(p, Idle) \/ Moves(p, KeyLoop("exists", frame[p].rest, frame[p].count))
    BY <1>4 DEF LazyDelete, Continue, Moves
  <2> QED  BY <1>0, <2>1, <2>2, FramesBuilt, MovesTyped
<1>5. ASSUME NEW p \in Clients, Incr(p) PROVE CallsTyped'
  <2>1. PICK k \in Keys : /\ Call(p, "INCR")
                          /\ SameLock \/ Lock(p)
                          /\ Goto(p, Idle) \/ Goto(p, Evicting(k))
    BY <1>5 DEF Incr, Answer, Return
  <2>2. Moves(p, Idle) \/ Moves(p, Evicting(k))
    BY <2>1 DEF Moves, Call
  <2> QED  BY <1>0, <2>2, FramesBuilt, MovesTyped
<1>6. ASSUME NEW p \in Clients, Expire(p) PROVE CallsTyped'
  <2>1. PICK k \in Keys, ttl \in TTLs :
          /\ Call(p, "EXPIRE")
          /\ SameLock \/ Lock(p)
          /\ \/ Goto(p, KeyLoop("delete", <<k>>, 0))
             \/ ttl > 0 /\ Goto(p, [at |-> "expire", key |-> k, ttl |-> now + ttl])
    BY <1>6 DEF Expire, Answer
  <2>2. ASSUME NEW f, Goto(p, f) PROVE Moves(p, f)
    BY <2>1, <2>2 DEF Moves, Call
  <2>3. CASE Goto(p, KeyLoop("delete", <<k>>, 0))
    <3>1. <<k>> \in Seq(Keys) /\ 0 \in Nat
      OBVIOUS
    <3> QED  BY <1>0, <2>2, <2>3, <3>1, FramesBuilt, MovesTyped
  <2>4. CASE ttl > 0 /\ Goto(p, [at |-> "expire", key |-> k, ttl |-> now + ttl])
    <3>1. now + ttl \in Nat
      BY <1>0, <2>4, ExpiresAtIsNat
    <3> DEFINE f == [at |-> "expire", key |-> k, ttl |-> now + ttl]
    <3>2. f \in Frames
      BY <3>1, FramesBuilt
    <3>3. Moves(p, f)
      BY <2>2, <2>4
    <3> QED  BY <1>0, <3>2, <3>3, MovesTyped
  <2> QED  BY <2>1, <2>3, <2>4
<1>7. ASSUME NEW p \in Clients, ExpireLocked(p) PROVE CallsTyped'
  <2>1. Moves(p, Idle)
    BY <1>7 DEF ExpireLocked, Return, Answer, Continue, Moves
  <2> QED  BY <1>0, <2>1, FramesBuilt, MovesTyped
<1>8. ASSUME NEW p \in Clients, TTL(p) PROVE CallsTyped'
  <2>1. PICK k \in Keys :
          /\ Call(p, "TTL")
          /\ SameLock \/ (readers' = readers \union {p} /\ UNCHANGED writer)
          /\ \/ Goto(p, Idle)
             \/ Goto(p, Lazy(k, "TTL"))
             \/ Live(k) /\ Goto(p, [at |-> "ttl", key |-> k, ttl |-> store.data[k].ttl])
    BY <1>8 DEF TTL, Answer, Return
  <2>2. ASSUME NEW f, Goto(p, f) PROVE Moves(p, f)
    BY <2>1, <2>2 DEF Moves, Call
  <2>3. CASE Goto(p, Idle) \/ Goto(p, Lazy(k, "TTL"))
    BY <1>0, <2>2, <2>3, FramesBuilt, MovesTyped
  <2>4. CASE Live(k) /\ Goto(p, [at |-> "ttl", key |-> k, ttl |-> store.data[k].ttl])
    <3>1. store.data[k] \in Record
      BY <2>4, IInvGood, StoreParts DEF Good, RecordMap, Live
    <3>2. store.data[k].ttl \in Nat
      BY <3>1 DEF Record, StringRecord, SetRecord
    <3> DEFINE f == [at |-> "ttl", key |-> k, ttl |-> store.data[k].ttl]
    <3>3. f \in Frames
      BY <3>2, FramesBuilt
    <3>4. Moves(p, f)
      BY <2>2, <2>4
    <3> QED  BY <1>0, <3>3, <3>4, MovesTyped
  <2> QED  BY <2>1, <2>3, <2>4
<1>9. ASSUME NEW p \in Procs, TTLRemaining(p) PROVE CallsTyped'
  <2>1. frame[p].key \in Keys
    BY <1>0, <1>9, FrameParts DEF TTLRemaining, Continue
  <2>2. Moves(p, Idle) \/ Moves(p, Lazy(frame[p].key, "TTL"))
    BY <1>9 DEF TTLRemaining, Answer, Return, Continue, Moves
  <2> QED  BY <2>1, <2>2, FramesBuilt, MovesTyped
<1>10. ASSUME NEW p \in Clients, Delete(p) \/ Exists(p) PROVE CallsTyped'
  <2>1. PICK keys \in KeyLists : \/ Moves(p, KeyLoop("delete", keys, 0))
                                 \/ Moves(p, KeyLoop("exists", keys, 0))
    BY <1>10 DEF Delete, Exists, Answer, Moves, Call
  <2>2. keys \in Seq(Keys) /\ 0 \in Nat
    BY StoreAssumption
  <2> QED  BY <1>0, <2>1, <2>2, FramesBuilt, MovesTyped
<1>11. ASSUME NEW p \in Procs, DeleteKey(p) PROVE CallsTyped'
  <2> DEFINE f == frame[p]
  <2>1. f.rest \in Seq(Keys) /\ f.rest # <<>> /\ f.count \in Nat
    BY <1>0, <1>11, FrameParts DEF DeleteKey, Continue
  <2>2. Tail(f.rest) \in Seq(Keys) /\ f.count + 1 \in Nat
    BY <2>1, SMT
  <2>3. \/ Moves(p, KeyLoop("delete", Tail(f.rest), f.count))
        \/ Moves(p, KeyLoop("delete", Tail(f.rest), f.count + 1))
    BY <1>11 DEF DeleteKey, Continue, Moves
  <2> HIDE DEF f
  <2> QED  BY <2>1, <2>2, <2>3, FramesBuilt, MovesTyped
<1>12. ASSUME NEW p \in Clients, ExistsKey(p) PROVE CallsTyped'
  <2> DEFINE f == frame[p]
             k == Head(f.rest)
             g == [at |-> "lazy", key |-> k, cmd |-> "EXISTS", rest |-> Tail(f.rest),
                   count |-> f.count]
  <2>1. f.rest \in Seq(Keys) /\ f.rest # <<>> /\ f.count \in Nat
    BY <1>0, <1>12, FrameParts DEF ExistsKey, Continue
  <2>2. Tail(f.rest) \in Seq(Keys) /\ f.count + 1 \in Nat /\ k \in Keys
    BY <2>1, SMT
  <2>3. g \in Frames
    BY <2>1, <2>2, FramesBuilt
  <2>4. \/ Moves(p, KeyLoop("exists", Tail(f.rest), f.count))
        \/ Moves(p, KeyLoop("exists", Tail(f.rest), f.count + 1))
        \/ Moves(p, g)
    BY <1>12 DEF ExistsKey, Continue, Moves
  <2> HIDE DEF f, g
  <2> QED  BY <1>0, <2>1, <2>2, <2>3, <2>4, FramesBuilt, MovesTyped
<1>13. ASSUME NEW p \in Procs, DeleteDone(p) \/ EvictDone(p) \/ StatsCounters(p)
       PROVE  CallsTyped'
  <2>1. Moves(p, Idle)
    BY <1>13 DEF DeleteDone, EvictDone, StatsCounters, Return, Answer, Continue, Moves
  <2> QED  BY <2>1, FramesBuilt, MovesTyped
<1>14. ASSUME NEW p \in Clients, ExistsDone(p) PROVE CallsTyped'
  <2>1. Moves(p, Idle)
    BY <1>14 DEF ExistsDone, Return, Answer, Continue, Moves
  <2> QED  BY <1>0, <2>1, FramesBuilt, MovesTyped
<1>15. ASSUME NEW p \in Clients, Evict(p) PROVE CallsTyped'
  <2>1. Moves(p, Evicting(NoKey))
    BY <1>15 DEF Evict, Answer, Moves, Call
  <2> QED  BY <1>0, <2>1, FramesBuilt, MovesTyped
<1>16. ASSUME NEW p \in Clients, Stats(p) PROVE CallsTyped'
  <2>1. Moves(p, [at |-> "stats", count |-> Cardinality(Present(store))])
    BY <1>16 DEF Stats, Answer, Moves, Call
  <2>2. [at |-> "stats", count |-> Cardinality(Present(store))] \in Frames
    BY PresentIsFinite, FramesBuilt
  <2> QED  BY <1>0, <2>1, <2>2, MovesTyped
<1>17. ASSUME NEW p \in Procs, EvictStep(p) PROVE CallsTyped'
  BY <1>17 DEF EvictStep, Continue, SameLock, CallsTyped
<1>18. ASSUME Sweep PROVE CallsTyped'
  <2>1. Moves(Sweeper, [at |-> "sweep", rest |-> Present(store)])
    BY <1>18 DEF Sweep, Moves
  <2>2. [at |-> "sweep", rest |-> Present(store)] \in Frames
    BY FramesBuilt DEF Present
  <2> QED  BY <1>0, <2>1, <2>2, MovesTyped
<1>19. ASSUME SweepKey PROVE CallsTyped'
  <2>1. frame[Sweeper].rest \in SUBSET Keys
    BY <1>0, <1>19, FrameParts DEF SweepKey, Continue
  <2>2. PICK k \in Keys : Moves(Sweeper, [at |-> "sweep", rest |-> frame[Sweeper].rest \ {k}])
    BY <1>19, <2>1 DEF SweepKey, Continue, Moves
  <2>3. [at |-> "sweep", rest |-> frame[Sweeper].rest \ {k}] \in Frames
    BY <2>1, FramesBuilt
  <2> QED  BY <1>0, <2>2, <2>3, MovesTyped
<1>20. ASSUME SweepDone PROVE CallsTyped'
  <2>1. Moves(Sweeper, Evicting(NoKey))
    BY <1>20 DEF SweepDone, Continue, Moves
  <2> QED  BY <1>0, <2>1, FramesBuilt, MovesTyped
<1>21. ASSUME Tick PROVE CallsTyped'
  BY <1>0, <1>21, SMT DEF Tick, CallsTyped
<1>22. ASSUME NEW p \in Clients, SAdd(p) PROVE CallsTyped'
  <2>1. PICK k \in Keys : Moves(p, Idle) \/ Moves(p, Evicting(k))
    BY <1>22 DEF SAdd, Answer, Return, Moves, Call
  <2> QED  BY <1>0, <2>1, FramesBuilt, MovesTyped
<1>23. ASSUME NEW p \in Clients, SRem(p) PROVE CallsTyped'
  <2>1. Moves(p, Idle)
    BY <1>23 DEF SRem, Answer, Return, Moves, Call
  <2> QED  BY <1>0, <2>1, FramesBuilt, MovesTyped
<1>24. ASSUME NEW p \in Clients, SIsMember(p) \/ SMembers(p) PROVE CallsTyped'
  <2>1. PICK k \in Keys, c \in {"SISMEMBER", "SMEMBERS"} :
          Moves(p, Idle) \/ Moves(p, Lazy(k, c))
    BY <1>24 DEF SIsMember, SMembers, Answer, Return, Moves, Call
  <2> QED  BY <1>0, <2>1, FramesBuilt, MovesTyped
<1>25. CASE UNCHANGED vars
  BY <1>25 DEF vars, CallsTyped
<1> QED
  BY <1>1, <1>2, <1>3, <1>4, <1>5, <1>6, <1>7, <1>8, <1>9, <1>10, <1>11, <1>12, <1>13,
     <1>14, <1>15, <1>16, <1>17, <1>18, <1>19, <1>20, <1>21, <1>22, <1>23, <1>24, <1>25
  DEF Next, Begin, Waiting, Holding, Sweeping

-----------------------------------------------------------------------------
(* Every step keeps the lock with the goroutines that are inside a section.  *)

Exclusive == {"delete", "sweep", "evict"}

\* How a goroutine may move between sections: within the same kind of section,
\* into an exclusive one, out of it, into the shared one, out of it.
Keeps(p, f)  == /\ SameLock /\ (f.at \in Exclusive <=> frame[p].at \in Exclusive)
                /\ (f.at = "ttl" <=> frame[p].at = "ttl")
Takes(p, f)  == Lock(p) /\ f.at \in Exclusive
Gives(p, f)  == /\ Unlock(p) /\ frame[p].at \in Exclusive
                /\ f.at \notin Exclusive /\ f.at # "ttl"
Shares(p, f) == /\ CanRLock /\ readers' = readers \union {p} /\ UNCHANGED writer
                /\ f.at = "ttl"
Leaves(p, f) == /\ readers' = readers \ {p} /\ UNCHANGED writer /\ frame[p].at = "ttl"
                /\ f.at \notin Exclusive /\ f.at # "ttl"

LEMMA LockMoves ==
    ASSUME LockOK, CallsTyped, NEW p \in Procs, NEW f, Goto(p, f),
           Keeps(p, f) \/ Takes(p, f) \/ Gives(p, f) \/ Shares(p, f) \/ Leaves(p, f)
    PROVE  LockOK'
<1>1. frame'[p] = f /\ \A q \in Procs \ {p} : frame'[q] = frame[q]
  BY DEF Goto, CallsTyped
<1>2. NoProc \notin Procs
  BY StoreAssumption
<1>3. CASE Keeps(p, f)
  BY <1>1, <1>3 DEF LockOK, Keeps, SameLock, Exclusive
<1>4. CASE Takes(p, f)
  <2>1. writer = NoProc /\ readers = {} /\ writer' = p /\ readers' = {}
        /\ f.at \in {"delete", "sweep", "evict"}
    BY <1>4 DEF Takes, Lock, CanLock, Exclusive
  <2>2. \A q \in Procs : frame[q].at \notin {"delete", "sweep", "evict", "ttl"}
    BY <1>2, <2>1 DEF LockOK
  <2> QED  BY <1>1, <2>1, <2>2 DEF LockOK
<1>5. CASE Gives(p, f)
  <2>1. writer = p /\ readers = {} /\ writer' = NoProc /\ readers' = {}
        /\ f.at \notin {"delete", "sweep", "evict", "ttl"}
    BY <1>2, <1>5 DEF Gives, Unlock, LockOK, Exclusive
  <2>2. \A q \in Procs \ {p} : frame[q].at \notin {"delete", "sweep", "evict", "ttl"}
    BY <2>1 DEF LockOK
  <2> QED  BY <1>1, <1>2, <2>1, <2>2 DEF LockOK
<1>6. CASE Shares(p, f)
  <2>1. writer = NoProc /\ writer' = NoProc /\ readers' = readers \union {p} /\ f.at = "ttl"
    BY <1>6 DEF Shares, CanRLock
  <2> QED  BY <1>1, <1>2, <2>1 DEF LockOK
<1>7. CASE Leaves(p, f)
  <2>1. writer' = writer /\ readers' = readers \ {p} /\ frame[p].at = "ttl"
        /\ f.at \notin {"delete", "sweep", "evict", "ttl"}
    BY <1>7 DEF Leaves, Exclusive
  <2> QED  BY <1>1, <1>2, <2>1 DEF LockOK
<1> QED  BY <1>3, <1>4, <1>5, <1>6, <1>7

LEMMA LockStep == IInv /\ [Next]_vars => LockOK'
<1> SUFFICES ASSUME LockOK, CallsTyped, [Next]_vars PROVE LockOK'
  BY DEF IInv, TypeOK, CallsTyped
<1>0. Clients \subseteq Procs /\ Sweeper \in Procs
  BY DEF Procs
<1>1. ASSUME NEW p \in Clients, Set(p) PROVE LockOK'
  <2>1. PICK k \in Keys, v \in Strings, t \in TTLs :
          /\ Goto(p, [at |-> "set", key |-> k, record |-> StringValue(v, expiresAt(t))])
          /\ frame[p] = Idle /\ SameLock
    BY <1>1 DEF Set, Answer, Call
  <2> DEFINE f == [at |-> "set", key |-> k, record |-> StringValue(v, expiresAt(t))]
  <2>2. Keeps(p, f)
    BY <2>1 DEF Keeps, Idle, Exclusive
  <2>3. Goto(p, f)
    BY <2>1
  <2> HIDE DEF f
  <2> QED  BY <1>0, <2>2, <2>3, LockMoves
<1>2. ASSUME NEW p \in Clients, SetLocked(p) PROVE LockOK'
  <2> DEFINE f == Evicting(frame[p].key)
  <2>1. Goto(p, f) /\ Takes(p, f)
    BY <1>2 DEF SetLocked, Takes, Evicting, Exclusive
  <2> HIDE DEF f
  <2> QED  BY <1>0, <2>1, LockMoves
<1>3. ASSUME NEW p \in Clients, Get(p) PROVE LockOK'
  <2>1. PICK f : Goto(p, f) /\ f.at \in {"idle", "lazy"} /\ SameLock /\ frame[p] = Idle
    BY <1>3 DEF Get, Answer, Return, Call, Idle, Lazy
  <2>2. Keeps(p, f)
    BY <2>1 DEF Keeps, Idle, Exclusive
  <2> QED  BY <1>0, <2>1, <2>2, LockMoves
<1>4. ASSUME NEW p \in Clients, LazyDelete(p) PROVE LockOK'
  <2>1. PICK f : Goto(p, f) /\ f.at \in {"idle", "exists"} /\ SameLock /\ frame[p].at = "lazy"
    BY <1>4 DEF LazyDelete, Continue, Idle, KeyLoop
  <2>2. Keeps(p, f)
    BY <2>1 DEF Keeps, Exclusive
  <2> QED  BY <1>0, <2>1, <2>2, LockMoves
<1>5. ASSUME NEW p \in Clients, Incr(p) PROVE LockOK'
  <2>1. PICK f : /\ Goto(p, f) /\ frame[p] = Idle
                 /\ \/ SameLock /\ f.at = "idle"
                    \/ Lock(p) /\ f.at = "evict"
    BY <1>5 DEF Incr, Answer, Return, Call, Idle, Evicting
  <2>2. Keeps(p, f) \/ Takes(p, f)
    BY <2>1 DEF Keeps, Takes, Idle, Exclusive
  <2> QED  BY <1>0, <2>1, <2>2, LockMoves
<1>6. ASSUME NEW p \in Clients, Expire(p) PROVE LockOK'
  <2>1. PICK f : /\ Goto(p, f) /\ frame[p] = Idle
                 /\ \/ SameLock /\ f.at = "expire"
                    \/ Lock(p) /\ f.at = "delete"
    BY <1>6 DEF Expire, Answer, Call, KeyLoop
  <2>2. Keeps(p, f) \/ Takes(p, f)
    BY <2>1 DEF Keeps, Takes, Idle, Exclusive
  <2> QED  BY <1>0, <2>1, <2>2, LockMoves
<1>7. ASSUME NEW p \in Clients, TTL(p) PROVE LockOK'
  <2>1. PICK f : /\ Goto(p, f) /\ frame[p] = Idle /\ CanRLock
                 /\ \/ SameLock /\ f.at \in {"idle", "lazy"}
                    \/ readers' = readers \union {p} /\ UNCHANGED writer /\ f.at = "ttl"
    BY <1>7 DEF TTL, Answer, Return, Call, Lazy, Idle
  <2>2. Keeps(p, f) \/ Shares(p, f)
    BY <2>1 DEF Keeps, Shares, Idle, Exclusive
  <2> QED  BY <1>0, <2>1, <2>2, LockMoves
<1>8. ASSUME NEW p \in Procs, TTLRemaining(p) PROVE LockOK'
  <2>1. PICK f : /\ Goto(p, f) /\ frame[p].at = "ttl" /\ f.at \in {"idle", "lazy"}
                 /\ readers' = readers \ {p} /\ UNCHANGED writer
    BY <1>8 DEF TTLRemaining, Continue, Answer, Return, Lazy, Idle
  <2>2. Leaves(p, f)
    BY <2>1 DEF Leaves, Exclusive
  <2> QED  BY <2>1, <2>2, LockMoves
\* The steps that stay outside any section.
<1>9. ASSUME NEW p \in Procs, NEW f, Goto(p, f), SameLock,
             frame[p].at \in {"idle", "expire", "exists", "stats"},
             f.at \in {"idle", "exists", "lazy", "stats"}
      PROVE  LockOK'
  <2>1. Keeps(p, f)
    BY <1>9 DEF Keeps, Exclusive
  <2> QED  BY <1>9, <2>1, LockMoves
<1>10. ASSUME NEW p \in Clients, ExpireLocked(p) \/ ExistsDone(p) PROVE LockOK'
  <2>1. Goto(p, Idle) /\ SameLock /\ frame[p].at \in {"expire", "exists"}
    BY <1>10 DEF ExpireLocked, ExistsDone, Continue, Return, Answer
  <2> QED  BY <1>0, <1>9, <2>1 DEF Idle
<1>11. ASSUME NEW p \in Procs, StatsCounters(p) PROVE LockOK'
  <2>1. Goto(p, Idle) /\ SameLock /\ frame[p].at = "stats"
    BY <1>11 DEF StatsCounters, Continue, Return, Answer
  <2> QED  BY <1>9, <2>1 DEF Idle
<1>12. ASSUME NEW p \in Clients, Exists(p) \/ Stats(p) PROVE LockOK'
  <2>1. CASE Exists(p)
    <3>1. PICK keys \in KeyLists :
            Goto(p, KeyLoop("exists", keys, 0)) /\ SameLock /\ frame[p] = Idle
      BY <2>1 DEF Exists, Answer, Call
    <3> DEFINE f == KeyLoop("exists", keys, 0)
    <3>2. f.at = "exists" /\ Goto(p, f)
      BY <3>1 DEF KeyLoop
    <3> HIDE DEF f
    <3> QED  BY <1>0, <1>9, <3>1, <3>2 DEF Idle
  <2>2. CASE Stats(p)
    <3> DEFINE f == [at |-> "stats", count |-> Cardinality(Present(store))]
    <3>1. f.at = "stats" /\ Goto(p, f) /\ SameLock /\ frame[p] = Idle
      BY <2>2 DEF Stats, Answer, Call
    <3> HIDE DEF f
    <3> QED  BY <1>0, <1>9, <3>1 DEF Idle
  <2> QED  BY <1>12, <2>1, <2>2
<1>13. ASSUME NEW p \in Clients, ExistsKey(p) PROVE LockOK'
  <2>1. PICK f : Goto(p, f) /\ SameLock /\ frame[p].at = "exists" /\ f.at \in {"exists", "lazy"}
    BY <1>13 DEF ExistsKey, Continue, KeyLoop
  <2> QED  BY <1>0, <1>9, <2>1
<1>14. ASSUME NEW p \in Clients, Delete(p) \/ Evict(p) PROVE LockOK'
  <2>1. CASE Delete(p)
    <3>1. PICK keys \in KeyLists : Goto(p, KeyLoop("delete", keys, 0)) /\ Lock(p)
      BY <2>1 DEF Delete, Answer
    <3>2. Takes(p, KeyLoop("delete", keys, 0))
      BY <3>1 DEF Takes, Exclusive, KeyLoop
    <3> QED  BY <1>0, <3>1, <3>2, LockMoves
  <2>2. CASE Evict(p)
    <3>1. Goto(p, Evicting(NoKey)) /\ Takes(p, Evicting(NoKey))
      BY <2>2 DEF Evict, Answer, Takes, Exclusive, Evicting
    <3> QED  BY <1>0, <3>1, LockMoves
  <2> QED  BY <1>14, <2>1, <2>2
<1>15. ASSUME NEW p \in Procs, DeleteKey(p) PROVE LockOK'
  <2>1. PICK f : Goto(p, f) /\ SameLock /\ frame[p].at = "delete" /\ f.at = "delete"
    BY <1>15 DEF DeleteKey, Continue, KeyLoop
  <2>2. Keeps(p, f)
    BY <2>1 DEF Keeps, Exclusive
  <2> QED  BY <2>1, <2>2, LockMoves
<1>16. ASSUME NEW p \in Procs, DeleteDone(p) \/ EvictDone(p) PROVE LockOK'
  <2>1. Goto(p, Idle) /\ Unlock(p) /\ frame[p].at \in {"delete", "evict"}
    BY <1>16 DEF DeleteDone, EvictDone, Continue, Return, Answer
  <2>2. Gives(p, Idle)
    BY <2>1 DEF Gives, Exclusive, Idle
  <2> QED  BY <2>1, <2>2, LockMoves
<1>17. ASSUME NEW p \in Procs, EvictStep(p) PROVE LockOK'
  BY <1>17 DEF EvictStep, SameLock, LockOK
<1>18. ASSUME Sweep PROVE LockOK'
  <2>1. PICK f : Goto(Sweeper, f) /\ Lock(Sweeper) /\ f.at = "sweep"
    BY <1>18 DEF Sweep
  <2>2. Takes(Sweeper, f)
    BY <2>1 DEF Takes, Exclusive
  <2> QED  BY <1>0, <2>1, <2>2, LockMoves
<1>19. ASSUME SweepKey PROVE LockOK'
  <2>1. PICK k \in frame[Sweeper].rest :
          /\ Goto(Sweeper, [at |-> "sweep", rest |-> frame[Sweeper].rest \ {k}])
          /\ SameLock /\ frame[Sweeper].at = "sweep"
    BY <1>19 DEF SweepKey, Continue
  <2> DEFINE f == [at |-> "sweep", rest |-> frame[Sweeper].rest \ {k}]
  <2>2. Keeps(Sweeper, f) /\ Goto(Sweeper, f)
    BY <2>1 DEF Keeps, Exclusive
  <2> HIDE DEF f
  <2> QED  BY <1>0, <2>2, LockMoves
<1>20. ASSUME SweepDone PROVE LockOK'
  <2>1. Keeps(Sweeper, Evicting(NoKey)) /\ Goto(Sweeper, Evicting(NoKey))
    BY <1>20 DEF SweepDone, Continue, Evicting, Keeps, Exclusive
  <2> QED  BY <1>0, <2>1, LockMoves
<1>21. ASSUME Tick PROVE LockOK'
  BY <1>21 DEF Tick, LockOK
<1>22. ASSUME NEW p \in Clients, SAdd(p) PROVE LockOK'
  <2>1. PICK f : /\ Goto(p, f) /\ frame[p] = Idle
                 /\ \/ SameLock /\ f.at = "idle"
                    \/ Lock(p) /\ f.at = "evict"
    BY <1>22 DEF SAdd, Answer, Return, Call, Idle, Evicting
  <2>2. Keeps(p, f) \/ Takes(p, f)
    BY <2>1 DEF Keeps, Takes, Idle, Exclusive
  <2> QED  BY <1>0, <2>1, <2>2, LockMoves
<1>23. ASSUME NEW p \in Clients, SRem(p) PROVE LockOK'
  <2>1. Goto(p, Idle) /\ SameLock /\ frame[p] = Idle
    BY <1>23 DEF SRem, Answer, Return, Call
  <2> QED  BY <1>0, <1>9, <2>1 DEF Idle
<1>24. ASSUME NEW p \in Clients, SIsMember(p) \/ SMembers(p) PROVE LockOK'
  <2>1. PICK f : Goto(p, f) /\ f.at \in {"idle", "lazy"} /\ SameLock /\ frame[p] = Idle
    BY <1>24 DEF SIsMember, SMembers, Answer, Return, Call, Idle, Lazy
  <2> QED  BY <1>0, <1>9, <2>1 DEF Idle
<1>25. CASE UNCHANGED vars
  BY <1>25 DEF vars, LockOK
<1> QED
  BY <1>1, <1>2, <1>3, <1>4, <1>5, <1>6, <1>7, <1>8, <1>10, <1>11, <1>12, <1>13, <1>14,
     <1>15, <1>16, <1>17, <1>18, <1>19, <1>20, <1>21, <1>22, <1>23, <1>24, <1>25
  DEF Next, Begin, Waiting, Holding, Sweeping

-----------------------------------------------------------------------------
(* The inductive invariant and what follows from it.                         *)

LEMMA GoodStore ==
    Good(store) /\ CallsTyped /\ LockOK => IInv
BY DEF IInv, Good, CallsTyped, TypeOK, MemoryExact, PolicyTracksData

LEMMA InitInvariant == Init => IInv
<1> SUFFICES ASSUME Init PROVE IInv
  OBVIOUS
<1>1. Good(store)
  BY NewGood DEF Init
<1>2. CallsTyped
  BY FramesBuilt DEF Init, CallsTyped
<1>3. LockOK
  BY StoreAssumption DEF Init, LockOK, Idle
<1> QED  BY <1>1, <1>2, <1>3, GoodStore

LEMMA StepInvariant == IInv /\ [Next]_vars => IInv'
<1> SUFFICES ASSUME IInv, [Next]_vars PROVE IInv'
  OBVIOUS
<1>1. Good(store') /\ CallsTyped' /\ LockOK'
  BY StoreStep, CallsStep, LockStep
<1> QED
  BY <1>1 DEF IInv, Good, CallsTyped, TypeOK, MemoryExact, PolicyTracksData

\* The store, its lock and the calls in progress agree in every reachable state.
THEOREM Invariance == Spec => []IInv
BY InitInvariant, StepInvariant, PTL DEF Spec

\* Every variable has its type, for any keys, clients, limits and policy.
THEOREM StoreTypes == Spec => []TypeOK
<1>1. IInv => TypeOK
  BY DEF IInv
<1> QED  BY <1>1, Invariance, PTL

\* The lock is held exclusively exactly in the loops of DEL, Sweep and
\* evictLocked and shared exactly between the two clock reads of TTL.
THEOREM LockHeldInSections == Spec => []LockOK
<1>1. IInv => LockOK
  BY DEF IInv
<1> QED  BY <1>1, Invariance, PTL

\* usedMemory is the size of what the map holds, whatever the interleaving of
\* writes, expiries, deletions, evictions and sweeps.
THEOREM MemoryIsExact == Spec => []MemoryExact
<1>1. IInv => MemoryExact
  BY DEF IInv
<1> QED  BY <1>1, Invariance, PTL

\* The eviction policy, whichever it is, tracks exactly the keys of the map.
THEOREM PolicyIsExact == Spec => []PolicyTracksData
<1>1. IInv => PolicyTracksData
  BY DEF IInv
<1> QED  BY <1>1, Invariance, PTL

-----------------------------------------------------------------------------
(* The limits: a step is looked at by what it does to the eviction loop.     *)

ListOK(s) == s.policy.name = "lru" => InList(s.policy.place)

\* t holds no more than s.
Less(t, s) ==
    /\ Present(t) \subseteq Present(s) /\ t.usedMemory <= s.usedMemory
    /\ t.policy.name = s.policy.name
    /\ ListOK(s) => ListOK(t)

\* t is s after a write of k.
Wrote(t, s, k) ==
    /\ t.policy.name = s.policy.name /\ t.data[k] # Absent
    /\ ListOK(s) => ListOK(t)
    /\ s.policy.name = "lru" /\ ListOK(s) => Front(t.policy.place, k)

LEMMA OnAccessList ==
    ASSUME NEW p, IsPolicy(p, Keys), p.name = "lru", InList(p.place), NEW k
    PROVE  /\ InList(OnAccess(p, k).place) /\ Front(OnAccess(p, k).place, k)
           /\ InList(OnInsert(p, k).place) /\ Front(OnInsert(p, k).place, k)
<1>1. OnAccess(p, k) = [p EXCEPT !.place = touchLocked(@, k)]
      /\ OnInsert(p, k) = [p EXCEPT !.place = touchLocked(@, k)]
  BY DEF OnAccess, OnInsert
<1>2. OnAccess(p, k).place = touchLocked(p.place, k)
      /\ OnInsert(p, k).place = touchLocked(p.place, k)
  BY <1>1 DEF IsPolicy
<1> QED  BY <1>2, TouchInList

LEMMA OnRemoveList ==
    ASSUME NEW p, IsPolicy(p, Keys), p.name = "lru", InList(p.place), NEW v
    PROVE  /\ InList(OnRemove(p, v).place)
           /\ \A k \in DOMAIN p.place \ {v} : Front(p.place, k) => Front(OnRemove(p, v).place, k)
<1>1. OnRemove(p, v) = [p EXCEPT !.place = LruRemove(@, v)]
  BY DEF OnRemove
<1>2. OnRemove(p, v).place = LruRemove(p.place, v)
  BY <1>1 DEF IsPolicy
<1> QED  BY <1>2, LruRemoveInList

-----------------------------------------------------------------------------
(* What the helpers do to the size of a store.                               *)

LEMMA LessRefl == ASSUME NEW s, Good(s) PROVE Less(s, s)
<1>1. s.usedMemory \in Int
  BY StoreParts DEF Good
<1> QED  BY <1>1, SMT DEF Less

LEMMA LessTrans ==
    ASSUME NEW s, NEW t, NEW u, Good(s), Good(t), Good(u), Less(t, s), Less(u, t)
    PROVE  Less(u, s)
<1>1. s.usedMemory \in Int /\ t.usedMemory \in Int /\ u.usedMemory \in Int
  BY StoreParts DEF Good
<1>2. u.usedMemory <= s.usedMemory
  BY <1>1, SMT DEF Less
<1> QED  BY <1>2 DEF Less

\* A store that holds no more is over its limits only if the first one was.
LEMMA LessCapacity ==
    ASSUME NEW s, NEW t, Good(s), Good(t), Less(t, s), overCapacity(t)
    PROVE  overCapacity(s)
<1>1. s.usedMemory \in Int /\ t.usedMemory \in Int
  BY StoreParts DEF Good
<1>2. Cardinality(Present(s)) \in Nat /\ Cardinality(Present(t)) \in Nat
  BY PresentIsFinite
<1>3. Cardinality(Present(t)) <= Cardinality(Present(s))
  <2>1. IsFiniteSet(Present(s))
    BY RecordsAssumption, FS_Subset DEF Present
  <2> QED  BY <2>1, FS_Subset DEF Less
<1>4. t.usedMemory <= s.usedMemory /\ MaxEntries \in Nat /\ MaxMemory \in Nat
  BY LimitsAssumption DEF Less
<1> QED  BY <1>1, <1>2, <1>3, <1>4, SMT DEF overCapacity

LEMMA NotifyLess ==
    ASSUME NEW s, Good(s), NEW k \in Keys
    PROVE  Less(notifyAccess(s, k), s) /\ notifyAccess(s, k).data = s.data
<1>1. IsStore(s)
  BY DEF Good
<1>2. notifyAccess(s, k) = StoreOf(s.data, OnAccess(s.policy, k), s.usedMemory, s.hits,
                                   s.misses, s.expiredKeys, s.evictedKeys)
  BY <1>1, StoreParts, AccessOf
<1> DEFINE t == notifyAccess(s, k)
<1>3. t.data = s.data /\ t.policy = OnAccess(s.policy, k) /\ t.usedMemory = s.usedMemory
  BY <1>2 DEF StoreOf
<1>4. IsPolicy(s.policy, Keys) /\ t.policy.name = s.policy.name /\ s.usedMemory \in Int
  BY <1>1, <1>3, StoreParts, OnAccessShape
<1> HIDE DEF t
<1>5. ListOK(s) => ListOK(t)
  BY <1>3, <1>4, OnAccessList DEF ListOK
<1>6. Present(t) = Present(s)
  BY <1>3 DEF Present
<1>7. t.usedMemory <= s.usedMemory
  BY <1>3, <1>4, SMT
<1> QED  BY <1>3, <1>4, <1>5, <1>6, <1>7 DEF Less, t

\* A key leaves, whatever counter counts it.
LEMMA RemovalLess ==
    ASSUME NEW s, Good(s), NEW k \in Keys, s.data[k] # Absent, NEW x, NEW e, NEW t,
           t = StoreOf([s.data EXCEPT ![k] = Absent], OnRemove(s.policy, k),
                       s.usedMemory + -recordSize(k, s.data[k]), s.hits, s.misses, x, e)
    PROVE  Less(t, s)
<1>1. IsStore(s)
  BY DEF Good
<1>2. /\ t.data = [s.data EXCEPT ![k] = Absent] /\ t.policy = OnRemove(s.policy, k)
      /\ t.usedMemory = s.usedMemory + -recordSize(k, s.data[k])
  BY DEF StoreOf
<1>3. IsPolicy(s.policy, Keys) /\ t.policy.name = s.policy.name /\ s.usedMemory \in Int
      /\ s.data \in RecordMap
  BY <1>1, <1>2, StoreParts, OnRemoveShape
<1>4. ListOK(s) => ListOK(t)
  BY <1>2, <1>3, OnRemoveList, ZenonT(40) DEF ListOK
<1>5. Present(t) \subseteq Present(s)
  BY <1>2, <1>3 DEF Present, RecordMap
<1>6. recordSize(k, s.data[k]) \in Nat
  <2>1. s.data[k] \in Record
    BY <1>3 DEF RecordMap
  <2> QED  BY <2>1, SizeIsNat
<1>7. t.usedMemory <= s.usedMemory
  BY <1>2, <1>3, <1>6, SMT
<1> QED  BY <1>3, <1>4, <1>5, <1>7 DEF Less

LEMMA RemoveLess ==
    ASSUME NEW s, Good(s), NEW k \in Keys, s.data[k] # Absent
    PROVE  /\ Less(Remove(s, k), s) /\ Less(removeExpired(s, k), s)
           /\ Remove(s, k).policy = OnRemove(s.policy, k)
           /\ Remove(s, k).data = [s.data EXCEPT ![k] = Absent]
<1> DEFINE d == [s.data EXCEPT ![k] = Absent]
           p == OnRemove(s.policy, k)
           m == s.usedMemory + -recordSize(k, s.data[k])
<1>1. Remove(s, k) = StoreOf(d, p, m, s.hits, s.misses, s.expiredKeys, s.evictedKeys)
  BY StoreParts, UnsetOf, AccountOf, RemoveOf DEF Good, Remove, trackRemove
<1>2. removeExpired(s, k) = StoreOf(d, p, m, s.hits, s.misses, s.expiredKeys + 1, s.evictedKeys)
  BY StoreParts, ExpiredOf, AccountOf, RemoveOf DEF Good, removeExpired, trackRemove
<1>3. Less(Remove(s, k), s) /\ Less(removeExpired(s, k), s)
  BY <1>1, <1>2, RemovalLess
<1> HIDE DEF d, p, m
<1>4. Remove(s, k).policy = p /\ Remove(s, k).data = d
  BY <1>1 DEF StoreOf
<1> QED  BY <1>3, <1>4 DEF d, p

LEMMA DeleteIfExpiredLess ==
    ASSUME NEW s, Good(s), NEW k \in Keys
    PROVE  Less(deleteIfExpired(s, k), s)
BY RemoveLess, LessRefl DEF deleteIfExpired

LEMMA CountersLess ==
    ASSUME NEW s, Good(s)
    PROVE  Less(Hit(s), s) /\ Less(Miss(s), s)
<1>1. IsStore(s) /\ s.usedMemory \in Int
  BY StoreParts DEF Good
<1>2. /\ Hit(s) = StoreOf(s.data, s.policy, s.usedMemory, s.hits + 1, s.misses,
                          s.expiredKeys, s.evictedKeys)
      /\ Miss(s) = StoreOf(s.data, s.policy, s.usedMemory, s.hits, s.misses + 1,
                           s.expiredKeys, s.evictedKeys)
  BY <1>1, StoreParts, HitOf, MissOf
<1>3. /\ Hit(s).data = s.data /\ Hit(s).policy = s.policy /\ Hit(s).usedMemory = s.usedMemory
      /\ Miss(s).data = s.data /\ Miss(s).policy = s.policy /\ Miss(s).usedMemory = s.usedMemory
  BY <1>2 DEF StoreOf
<1>4. s.usedMemory <= s.usedMemory
  BY <1>1, SMT
<1> QED  BY <1>3, <1>4 DEF Less, Present, ListOK

\* Another record in the place of one, charged with what it is longer.
LEMMA ReplaceLess ==
    ASSUME NEW s, Good(s), NEW k \in Keys, NEW r, s.data[k] # Absent, NEW n \in Int, n <= 0
    PROVE  Less(accountMemory(Put(s, k, r), n), s)
<1>1. IsStore(s)
  BY DEF Good
<1> DEFINE t == accountMemory(Put(s, k, r), n)
<1>2. t = StoreOf([s.data EXCEPT ![k] = r], s.policy, s.usedMemory + n, s.hits, s.misses,
                  s.expiredKeys, s.evictedKeys)
  BY <1>1, StoreParts, PutOf, AccountOf
<1>3. t.data = [s.data EXCEPT ![k] = r] /\ t.policy = s.policy
      /\ t.usedMemory = s.usedMemory + n
  BY <1>2 DEF StoreOf
<1>4. s.data \in RecordMap /\ s.usedMemory \in Int
  BY <1>1, StoreParts
<1> HIDE DEF t
<1>5. Present(t) \subseteq Present(s)
  BY <1>3, <1>4 DEF Present, RecordMap
<1>6. t.usedMemory <= s.usedMemory
  BY <1>3, <1>4, SMT
<1> QED  BY <1>3, <1>5, <1>6 DEF Less, ListOK, t

LEMMA DeadlineLess ==
    ASSUME NEW s, Good(s), NEW k \in Keys, s.data[k] # Absent, NEW n \in Nat
    PROVE  Less([s EXCEPT !.data[k].ttl = n], s)
<1> DEFINE r == [s.data[k] EXCEPT !.ttl = n]
           t == [s EXCEPT !.data[k].ttl = n]
<1>1. t = Put(s, k, r)
  BY DEF Put
<1> HIDE DEF r, t
<1>2. IsStore(s) /\ s.data \in RecordMap /\ s.usedMemory \in Int
  BY StoreParts DEF Good
<1>3. t = StoreOf([s.data EXCEPT ![k] = r], s.policy, s.usedMemory, s.hits, s.misses,
                  s.expiredKeys, s.evictedKeys)
  BY <1>1, <1>2, StoreParts, PutOf
<1>4. t.data = [s.data EXCEPT ![k] = r] /\ t.policy = s.policy /\ t.usedMemory = s.usedMemory
  BY <1>3 DEF StoreOf
<1>5. Present(t) \subseteq Present(s)
  BY <1>2, <1>4 DEF Present, RecordMap
<1>6. t.usedMemory <= s.usedMemory
  BY <1>2, <1>4, SMT
<1> QED  BY <1>4, <1>5, <1>6 DEF Less, ListOK, t

LEMMA RemoveMembersLess ==
    ASSUME NEW s, Good(s), NEW k \in Keys, NEW S \in SUBSET Members,
           s.data[k] # Absent, ~ WrongType(s.data[k])
    PROVE  Less(RemoveMembers(s, k, S), s)
<1> DEFINE q == s.data[k]
           n == -membersSize(q.members \cap S)
           t == TakeMembers(s, k, S)
<1>1. Good(t) /\ t.data[k] # Absent
  BY TakeMembersGood
<1>2. n \in Int /\ n <= 0
  <2>1. membersSize(q.members \cap S) \in Nat
    <3>1. q.members \cap S \in SUBSET Members
      OBVIOUS
    <3> QED  BY <3>1, MemberBytesFinite, FS_CardinalityType DEF membersSize
  <2> QED  BY <2>1, SMT
<1> HIDE DEF n
<1>3. t = accountMemory(Put(s, k, [q EXCEPT !.members = q.members \ S]), n)
  BY DEF TakeMembers, n
<1>4. RemoveMembers(s, k, S) = Remove(t, k) \/ RemoveMembers(s, k, S) = notifyAccess(t, k)
  BY DEF RemoveMembers
<1> HIDE DEF t, q
<1>5. Less(t, s)
  BY <1>2, <1>3, ReplaceLess
<1>6. Less(RemoveMembers(s, k, S), t)
  <2>1. Less(Remove(t, k), t)
    BY <1>1, RemoveLess
  <2>2. Less(notifyAccess(t, k), t)
    BY <1>1, NotifyLess
  <2> QED  BY <1>4, <2>1, <2>2
<1> QED  BY <1>1, <1>5, <1>6, LessTrans, RemoveMembersGood

-----------------------------------------------------------------------------
(* What a write does.                                                        *)

LEMMA PolicyWrote ==
    ASSUME NEW s, Good(s), NEW t, NEW k \in Keys, t.data[k] # Absent,
           t.policy = OnInsert(s.policy, k) \/ t.policy = OnAccess(s.policy, k)
    PROVE  Wrote(t, s, k)
<1>1. IsPolicy(s.policy, Keys)
  BY StoreParts DEF Good
<1>2. t.policy.name = s.policy.name
  BY <1>1, OnInsertShape, OnAccessShape
<1>3. s.policy.name = "lru" /\ ListOK(s) => InList(t.policy.place) /\ Front(t.policy.place, k)
  BY <1>1, OnAccessList DEF ListOK
<1> QED  BY <1>2, <1>3 DEF Wrote, ListOK

LEMMA LessWrote ==
    ASSUME NEW s, NEW t, NEW u, NEW k, Less(t, s), Wrote(u, t, k)
    PROVE  Wrote(u, s, k)
BY DEF Less, Wrote

LEMMA InsertWrote ==
    ASSUME NEW s, Good(s), NEW k \in Keys, NEW r \in Record
    PROVE  Wrote(trackInsert(Put(s, k, r), k, r), s, k)
<1> DEFINE t == trackInsert(Put(s, k, r), k, r)
<1>1. t = StoreOf([s.data EXCEPT ![k] = r], OnInsert(s.policy, k),
                  s.usedMemory + recordSize(k, r), s.hits, s.misses,
                  s.expiredKeys, s.evictedKeys)
  BY StoreParts, PutOf, AccountOf, InsertOf DEF Good, trackInsert
<1>2. t.data = [s.data EXCEPT ![k] = r] /\ t.policy = OnInsert(s.policy, k)
  BY <1>1 DEF StoreOf
<1>3. t.data[k] # Absent
  BY <1>2, StoreParts, AbsentIsNoRecord DEF Good, RecordMap
<1> HIDE DEF t
<1>4. Wrote(t, s, k)
  BY <1>2, <1>3, PolicyWrote
<1> QED  BY <1>4 DEF t

LEMMA ReplaceWrote ==
    ASSUME NEW s, Good(s), NEW k \in Keys, NEW r \in Record, NEW n
    PROVE  Wrote(notifyAccess(accountMemory(Put(s, k, r), n), k), s, k)
<1> DEFINE t == notifyAccess(accountMemory(Put(s, k, r), n), k)
<1>1. t = StoreOf([s.data EXCEPT ![k] = r], OnAccess(s.policy, k), s.usedMemory + n,
                  s.hits, s.misses, s.expiredKeys, s.evictedKeys)
  BY StoreParts, PutOf, AccountOf, AccessOf DEF Good
<1>2. t.data = [s.data EXCEPT ![k] = r] /\ t.policy = OnAccess(s.policy, k)
  BY <1>1 DEF StoreOf
<1>3. t.data[k] # Absent
  BY <1>2, StoreParts, AbsentIsNoRecord DEF Good, RecordMap
<1> HIDE DEF t
<1>4. Wrote(t, s, k)
  BY <1>2, <1>3, PolicyWrote
<1> QED  BY <1>4 DEF t

LEMMA WriteWrote ==
    ASSUME NEW s, Good(s), NEW k \in Keys, NEW r \in Record
    PROVE  Wrote(Write(s, k, r), s, k)
<1> DEFINE t == deleteIfExpired(s, k)
<1>1. Good(t) /\ Less(t, s)
  BY DeleteIfExpiredGood, DeleteIfExpiredLess
<1>2. Write(s, k, r) = IF t.data[k] = Absent THEN trackInsert(Put(t, k, r), k, r)
                       ELSE trackOverwrite(Put(t, k, r), k, t.data[k], r)
  BY DEF Write
<1> HIDE DEF t
<1>3. Wrote(Write(s, k, r), t, k)
  BY <1>1, <1>2, InsertWrote, ReplaceWrote DEF trackOverwrite
<1> QED  BY <1>1, <1>3, LessWrote

LEMMA AddMembersWrote ==
    ASSUME NEW s, Good(s), NEW k \in Keys, NEW S \in SUBSET Members, ~ WrongType(s.data[k])
    PROVE  Wrote(AddMembers(s, k, S), s, k)
<1>1. CASE s.data[k] = Absent
  <2>1. SetValue(S, 0) \in Record
    BY DEF SetValue, SetRecord, Record
  <2> QED  BY <1>1, <2>1, InsertWrote DEF AddMembers
<1>2. CASE s.data[k] # Absent
  <2> DEFINE q == s.data[k]
             r == [q EXCEPT !.members = q.members \union S]
  <2>1. q \in SetRecord
    BY <1>2, StoreParts DEF Good, RecordMap, WrongType, Record, StringRecord, SetRecord
  <2>2. r \in Record
    BY <2>1 DEF SetRecord, Record
  <2>3. AddMembers(s, k, S) = notifyAccess(accountMemory(Put(s, k, r), membersSize(S \ q.members)), k)
    BY <1>2 DEF AddMembers
  <2> HIDE DEF r
  <2> QED  BY <2>2, <2>3, ReplaceWrote
<1> QED  BY <1>1, <1>2

-----------------------------------------------------------------------------
(* Every step is of one of five kinds.                                       *)

\* No goroutine leaves the eviction loop, and none enters it after a write.
Calm == \A q \in Procs :
    /\ frame[q].at = "evict" => frame'[q] = frame[q]
    /\ frame'[q].at = "evict" /\ frame'[q].key \in Keys => frame'[q] = frame[q]

NoEviction == \A q \in Procs : frame[q].at # "evict"

Shrinks == Calm /\ NoEviction /\ Less(store', store)
Writes  == /\ NoEviction
           /\ \E p \in Procs, k \in Keys : Goto(p, Evicting(k)) /\ Wrote(store', store, k)
Evicts  == /\ UNCHANGED frame
           /\ \E p \in Procs : frame[p].at = "evict"
           /\ \E v \in Victims(store.policy) : store' = EvictKey(store, v)
Kinds == \/ Calm /\ UNCHANGED store
         \/ Shrinks \/ Writes \/ Evicts
         \/ \E p \in Procs : EvictDone(p)

LEMMA MoveCalm ==
    ASSUME IInv, NEW p \in Procs, NEW f, Goto(p, f), frame[p].at # "evict",
           f.at # "evict" \/ f = Evicting(NoKey)
    PROVE  Calm
<1>1. frame \in [Procs -> Frames] /\ NoKey \notin Keys
  BY StoreAssumption DEF IInv, TypeOK
<1>2. frame'[p] = f /\ \A q \in Procs \ {p} : frame'[q] = frame[q]
  BY <1>1 DEF Goto
<1>3. f.at = "evict" => f.key \notin Keys
  BY <1>1 DEF Evicting
<1> QED  BY <1>2, <1>3 DEF Calm

LEMMA OutsideNoEviction ==
    ASSUME IInv
    PROVE  /\ CanRLock => NoEviction /\ \A p \in Procs : frame[p].at \notin {"delete", "sweep"}
           /\ \A p \in Procs : frame[p].at \in {"delete", "sweep"} => NoEviction
<1>1. NoProc \notin Procs
  BY StoreAssumption
<1> QED  BY <1>1 DEF IInv, LockOK, NoEviction, CanRLock

LEMMA StepKinds == IInv /\ [Next]_vars => Kinds
<1> SUFFICES ASSUME IInv, [Next]_vars PROVE Kinds
  OBVIOUS
<1>0. /\ Good(store) /\ Clients \subseteq Procs /\ Sweeper \in Procs
      /\ \A p \in Procs : frame[p] \in Frames
  BY IInvGood DEF IInv, TypeOK, Procs
\* A step that leaves the store alone and keeps out of the loop.
<1>1. ASSUME NEW p \in Procs, NEW f, Goto(p, f), frame[p].at # "evict",
             f.at # "evict" \/ f = Evicting(NoKey), UNCHANGED store
      PROVE  Kinds
  BY <1>1, MoveCalm DEF Kinds
\* One that makes the store smaller, outside the loop.
<1>2. ASSUME NEW p \in Procs, NEW f, Goto(p, f), f.at # "evict", NoEviction,
             Less(store', store)
      PROVE  Kinds
  BY <1>2, MoveCalm DEF Kinds, Shrinks, NoEviction
<1>3. ASSUME NEW p \in Clients, Set(p) PROVE Kinds
  <2>1. PICK f : Goto(p, f) /\ f.at = "set" /\ frame[p].at = "idle" /\ UNCHANGED store
    BY <1>3 DEF Set, Answer, Call, Idle
  <2> QED  BY <1>0, <1>1, <2>1
<1>4. ASSUME NEW p \in Clients, SetLocked(p) PROVE Kinds
  <2>1. frame[p].key \in Keys /\ frame[p].record \in Record
    BY <1>0, <1>4, FrameParts DEF SetLocked, Continue, Record
  <2>2. store' = Write(store, frame[p].key, frame[p].record) /\ CanRLock
        /\ Goto(p, Evicting(frame[p].key))
    BY <1>4 DEF SetLocked, Lock, CanLock, CanRLock
  <2>3. Wrote(store', store, frame[p].key) /\ NoEviction
    BY <1>0, <2>1, <2>2, WriteWrote, OutsideNoEviction
  <2> QED  BY <1>0, <2>1, <2>2, <2>3 DEF Kinds, Writes
<1>5. ASSUME NEW p \in Clients, Get(p) PROVE Kinds
  <2>1. PICK k \in Keys : \/ store' = Miss(store)
                          \/ store' = store
                          \/ IsString(k) /\ store' = notifyAccess(Hit(store), k)
    BY <1>5 DEF Get
  <2>2. PICK f : Goto(p, f) /\ f.at \in {"idle", "lazy"} /\ CanRLock
    BY <1>5 DEF Get, Answer, Return, Call, Idle, Lazy
  <2>3. Less(store', store)
    <3>1. Less(store, store) /\ Less(Miss(store), store) /\ Less(Hit(store), store) /\ Good(Hit(store))
      BY <1>0, LessRefl, CountersLess, CountersGood
    <3>2. IsString(k) => Good(notifyAccess(Hit(store), k))
      BY <1>0, <3>1, CountersGood, NotifyGood DEF IsString, Live
    <3>3. Less(notifyAccess(Hit(store), k), Hit(store))
      BY <3>1, NotifyLess
    <3>4. IsString(k) => Less(notifyAccess(Hit(store), k), store)
      BY <1>0, <3>1, <3>2, <3>3, LessTrans
    <3> QED  BY <2>1, <3>1, <3>4
  <2> QED  BY <1>0, <1>2, <2>2, <2>3, OutsideNoEviction
<1>6. ASSUME NEW p \in Clients, LazyDelete(p) PROVE Kinds
  <2> DEFINE s == deleteIfExpired(store, frame[p].key)
  <2>1. frame[p].key \in Keys
    BY <1>0, <1>6, FrameParts DEF LazyDelete, Continue
  <2>2. Good(s) /\ Less(s, store)
    BY <1>0, <2>1, DeleteIfExpiredGood, DeleteIfExpiredLess
  <2>3. store' \in {Miss(s), s} /\ CanRLock
    BY <1>6 DEF LazyDelete, CanLock, CanRLock
  <2>4. PICK f : Goto(p, f) /\ f.at \in {"idle", "exists"}
    BY <1>6 DEF LazyDelete, Idle, KeyLoop
  <2> HIDE DEF s
  <2>5. Good(Miss(s)) /\ Less(Miss(s), s)
    BY <2>2, CountersGood, CountersLess
  <2>6. Less(store', store)
    BY <1>0, <2>2, <2>3, <2>5, LessTrans
  <2> QED  BY <1>0, <1>2, <2>3, <2>4, <2>6, OutsideNoEviction
<1>7. ASSUME NEW p \in Clients, Incr(p) PROVE Kinds
  <2>1. PICK k \in Keys :
          LET s == deleteIfExpired(store, k)
              r == s.data[k]
              n == IF r = Absent THEN 0
                   ELSE IF r.type = "string" THEN ParseInt[r.text] ELSE NotANumber
              next == FormatInt[Increment(n)]
          IN \/ store' = s /\ CanRLock /\ Goto(p, Idle)
             \/ /\ n # NotANumber /\ CanRLock /\ Goto(p, Evicting(k))
                /\ store' = Write(s, k, StringValue(next, IF r = Absent THEN 0 ELSE r.ttl))
    BY <1>7 DEF Incr, Lock, CanLock, CanRLock, Return, Answer
  <2> DEFINE s == deleteIfExpired(store, k)
             n == IF s.data[k] = Absent THEN 0
                  ELSE IF s.data[k].type = "string" THEN ParseInt[s.data[k].text] ELSE NotANumber
             r == StringValue(FormatInt[Increment(n)],
                              IF s.data[k] = Absent THEN 0 ELSE s.data[k].ttl)
  <2>2. Good(s) /\ Less(s, store)
    BY <1>0, DeleteIfExpiredGood, DeleteIfExpiredLess
  <2>3. \/ store' = s /\ CanRLock /\ Goto(p, Idle)
        \/ n # NotANumber /\ CanRLock /\ Goto(p, Evicting(k)) /\ store' = Write(s, k, r)
    BY <2>1
  <2> HIDE DEF s
  <2>4. n # NotANumber => r \in Record
    BY <2>2, IncrRecord
  <2> HIDE DEF n, r
  <2>5. NoEviction
    BY <2>3, OutsideNoEviction
  <2>6. CASE store' = s /\ CanRLock /\ Goto(p, Idle)
    BY <1>0, <1>2, <2>2, <2>5, <2>6 DEF Idle
  <2>7. CASE n # NotANumber /\ CanRLock /\ Goto(p, Evicting(k)) /\ store' = Write(s, k, r)
    <3>1. Wrote(store', s, k)
      BY <2>2, <2>4, <2>7, WriteWrote
    <3>2. Wrote(store', store, k)
      BY <2>2, <3>1, LessWrote
    <3> QED  BY <1>0, <2>5, <2>7, <3>2 DEF Kinds, Writes
  <2> QED  BY <2>3, <2>6, <2>7
<1>8. ASSUME NEW p \in Clients, Expire(p) \/ Delete(p) PROVE Kinds
  <2>1. PICK f : /\ Goto(p, f) /\ f.at \in {"delete", "expire"} /\ frame[p].at = "idle"
                 /\ UNCHANGED store
    <3>1. ASSUME Expire(p)
          PROVE  \E f : /\ Goto(p, f) /\ f.at \in {"delete", "expire"} /\ frame[p].at = "idle"
                        /\ UNCHANGED store
      BY <3>1 DEF Expire, Answer, Call, KeyLoop, Idle
    <3>2. ASSUME Delete(p)
          PROVE  \E f : /\ Goto(p, f) /\ f.at \in {"delete", "expire"} /\ frame[p].at = "idle"
                        /\ UNCHANGED store
      BY <3>2 DEF Delete, Answer, Call, KeyLoop, Idle
    <3> QED  BY <1>8, <3>1, <3>2
  <2> QED  BY <1>0, <1>1, <2>1
<1>9. ASSUME NEW p \in Clients, ExpireLocked(p) PROVE Kinds
  <2> DEFINE k == frame[p].key
             s == deleteIfExpired(store, k)
             t == [s EXCEPT !.data[k].ttl = frame[p].ttl]
  <2>1. k \in Keys /\ frame[p].ttl \in Nat
    BY <1>0, <1>9, FrameParts DEF ExpireLocked, Continue
  <2>2. Good(s) /\ Less(s, store)
    BY <1>0, <2>1, DeleteIfExpiredGood, DeleteIfExpiredLess
  <2>3. /\ \/ store' = s
           \/ s.data[k] # Absent /\ store' = notifyAccess(t, k)
        /\ CanRLock /\ Goto(p, Idle)
    BY <1>9 DEF ExpireLocked, CanLock, CanRLock, Return, Answer
  <2> HIDE DEF s, k
  <2>4. s.data[k] # Absent => Good(t) /\ t.data[k] # Absent /\ Less(t, s)
    BY <2>1, <2>2, DeadlineGood, DeadlineLess
  <2> HIDE DEF t
  <2>5. s.data[k] # Absent => Good(notifyAccess(t, k)) /\ Less(notifyAccess(t, k), t)
    BY <2>1, <2>4, NotifyGood, NotifyLess
  <2>6. s.data[k] # Absent => Less(notifyAccess(t, k), s)
    BY <2>2, <2>4, <2>5, LessTrans
  <2>7. Less(store', store)
    BY <1>0, <2>2, <2>3, <2>5, <2>6, LessTrans
  <2> QED  BY <1>0, <1>2, <2>3, <2>7, OutsideNoEviction DEF Idle
<1>10. ASSUME NEW p \in Clients, TTL(p) PROVE Kinds
  <2>1. PICK f : /\ Goto(p, f) /\ frame[p].at = "idle" /\ f.at \in {"idle", "lazy", "ttl"}
                 /\ UNCHANGED store
    BY <1>10 DEF TTL, Answer, Return, Call, Lazy, Idle
  <2> QED  BY <1>0, <1>1, <2>1
<1>11. ASSUME NEW p \in Procs, TTLRemaining(p) \/ StatsCounters(p) \/ DeleteDone(p) PROVE Kinds
  <2>1. PICK f : /\ Goto(p, f) /\ frame[p].at \in {"ttl", "stats", "delete"}
                 /\ f.at \in {"idle", "lazy"} /\ UNCHANGED store
    BY <1>11 DEF TTLRemaining, StatsCounters, DeleteDone, Continue, Answer, Return, Lazy, Idle
  <2> QED  BY <1>1, <2>1
<1>12. ASSUME NEW p \in Clients, Exists(p) \/ Stats(p) PROVE Kinds
  <2>1. PICK f : /\ Goto(p, f) /\ frame[p].at = "idle" /\ f.at \in {"exists", "stats"}
                 /\ UNCHANGED store
    <3>1. ASSUME Exists(p)
          PROVE  \E f : /\ Goto(p, f) /\ frame[p].at = "idle" /\ f.at \in {"exists", "stats"}
                        /\ UNCHANGED store
      BY <3>1 DEF Exists, Answer, Call, KeyLoop, Idle
    <3>2. ASSUME Stats(p)
          PROVE  \E f : /\ Goto(p, f) /\ frame[p].at = "idle" /\ f.at \in {"exists", "stats"}
                        /\ UNCHANGED store
      <4> DEFINE f == [at |-> "stats", count |-> Cardinality(Present(store))]
      <4>1. Goto(p, f) /\ f.at = "stats" /\ frame[p].at = "idle" /\ UNCHANGED store
        BY <3>2 DEF Stats, Answer, Call, Idle
      <4> HIDE DEF f
      <4> QED  BY <4>1
    <3> QED  BY <1>12, <3>1, <3>2
  <2> QED  BY <1>0, <1>1, <2>1
<1>13. ASSUME NEW p \in Clients, ExistsKey(p) \/ ExistsDone(p) PROVE Kinds
  <2>1. PICK f : /\ Goto(p, f) /\ frame[p].at = "exists" /\ f.at \in {"exists", "lazy", "idle"}
                 /\ UNCHANGED store
    BY <1>13 DEF ExistsKey, ExistsDone, Continue, Answer, Return, KeyLoop, Idle
  <2> QED  BY <1>0, <1>1, <2>1
<1>14. ASSUME NEW p \in Procs, DeleteKey(p) PROVE Kinds
  <2>1. frame[p].rest \in Seq(Keys) /\ frame[p].rest # <<>> /\ frame[p].at = "delete"
    BY <1>0, <1>14, FrameParts DEF DeleteKey, Continue
  <2>2. Head(frame[p].rest) \in Keys
    BY <2>1
  <2>3. \/ store' = store
        \/ /\ store.data[Head(frame[p].rest)] # Absent
           /\ store' = Remove(store, Head(frame[p].rest))
    BY <1>14 DEF DeleteKey
  <2>4. PICK f : Goto(p, f) /\ f.at = "delete"
    BY <1>14 DEF DeleteKey, KeyLoop
  <2>5. Less(store', store) /\ NoEviction
    BY <1>0, <2>1, <2>2, <2>3, LessRefl, RemoveLess, OutsideNoEviction
  <2> QED  BY <1>2, <2>4, <2>5
<1>15. ASSUME NEW p \in Clients, Evict(p) PROVE Kinds
  <2>1. Goto(p, Evicting(NoKey)) /\ frame[p].at = "idle" /\ UNCHANGED store
    BY <1>15 DEF Evict, Answer, Call, Idle
  <2> QED  BY <1>0, <1>1, <2>1
<1>16. ASSUME NEW p \in Procs, EvictStep(p) PROVE Kinds
  BY <1>16 DEF EvictStep, Continue, Kinds, Evicts
<1>17. ASSUME NEW p \in Procs, EvictDone(p) PROVE Kinds
  BY <1>17 DEF Kinds
<1>18. ASSUME Sweep \/ SweepDone PROVE Kinds
  <2>1. PICK f : /\ Goto(Sweeper, f) /\ frame[Sweeper].at \in {"idle", "sweep"}
                 /\ f.at = "sweep" \/ f = Evicting(NoKey)
                 /\ UNCHANGED store
    BY <1>18 DEF Sweep, SweepDone, Continue, Idle
  <2> QED  BY <1>0, <1>1, <2>1
<1>19. ASSUME SweepKey PROVE Kinds
  <2>1. frame[Sweeper].rest \in SUBSET Keys /\ frame[Sweeper].at = "sweep"
    BY <1>0, <1>19, FrameParts DEF SweepKey, Continue
  <2>2. PICK k \in Keys : /\ store' = deleteIfExpired(store, k)
                          /\ Goto(Sweeper, [at |-> "sweep", rest |-> frame[Sweeper].rest \ {k}])
    BY <1>19, <2>1 DEF SweepKey
  <2>3. PICK f : Goto(Sweeper, f) /\ f.at = "sweep"
    BY <2>2
  <2>4. Less(store', store) /\ NoEviction
    BY <1>0, <2>1, <2>2, DeleteIfExpiredLess, OutsideNoEviction
  <2> QED  BY <1>0, <1>2, <2>3, <2>4
<1>20. ASSUME Tick \/ UNCHANGED vars PROVE Kinds
  <2>1. UNCHANGED <<store, frame>>
    BY <1>20 DEF Tick, vars
  <2> QED  BY <2>1 DEF Kinds, Calm
<1>21. ASSUME NEW p \in Clients, SAdd(p) PROVE Kinds
  <2>1. PICK k \in Keys, S \in SUBSET Members :
          LET s == deleteIfExpired(store, k)
          IN /\ CanRLock
             /\ \/ store' = s /\ Goto(p, Idle)
                \/ ~ WrongType(s.data[k]) /\ store' = AddMembers(s, k, S) /\ Goto(p, Evicting(k))
    BY <1>21 DEF SAdd, Lock, CanLock, CanRLock, Return, Answer
  <2> DEFINE s == deleteIfExpired(store, k)
  <2>2. Good(s) /\ Less(s, store)
    BY <1>0, DeleteIfExpiredGood, DeleteIfExpiredLess
  <2>3. /\ CanRLock
        /\ \/ store' = s /\ Goto(p, Idle)
           \/ ~ WrongType(s.data[k]) /\ store' = AddMembers(s, k, S) /\ Goto(p, Evicting(k))
    BY <2>1
  <2> HIDE DEF s
  <2>4. NoEviction
    BY <2>3, OutsideNoEviction
  <2>5. CASE store' = s /\ Goto(p, Idle)
    BY <1>0, <1>2, <2>2, <2>4, <2>5 DEF Idle
  <2>6. CASE ~ WrongType(s.data[k]) /\ store' = AddMembers(s, k, S) /\ Goto(p, Evicting(k))
    <3>1. Wrote(store', store, k)
      BY <2>2, <2>6, AddMembersWrote, LessWrote
    <3> QED  BY <1>0, <2>4, <2>6, <3>1 DEF Kinds, Writes
  <2> QED  BY <2>3, <2>5, <2>6
<1>22. ASSUME NEW p \in Clients, SRem(p) PROVE Kinds
  <2>1. PICK k \in Keys, S \in SUBSET Members :
          LET s == deleteIfExpired(store, k)
          IN /\ CanRLock /\ Goto(p, Idle)
             /\ \/ store' = s
                \/ /\ s.data[k] # Absent /\ ~ WrongType(s.data[k])
                   /\ store' = RemoveMembers(s, k, S)
    BY <1>22 DEF SRem, CanLock, CanRLock, Return, Answer
  <2> DEFINE s == deleteIfExpired(store, k)
  <2>2. Good(s) /\ Less(s, store)
    BY <1>0, DeleteIfExpiredGood, DeleteIfExpiredLess
  <2>3. /\ CanRLock /\ Goto(p, Idle)
        /\ \/ store' = s
           \/ /\ s.data[k] # Absent /\ ~ WrongType(s.data[k])
              /\ store' = RemoveMembers(s, k, S)
    BY <2>1
  <2> HIDE DEF s
  <2>4. s.data[k] # Absent /\ ~ WrongType(s.data[k])
          => Good(RemoveMembers(s, k, S)) /\ Less(RemoveMembers(s, k, S), s)
    BY <2>2, RemoveMembersGood, RemoveMembersLess
  <2>5. Less(store', store)
    BY <1>0, <2>2, <2>3, <2>4, LessTrans
  <2> QED  BY <1>0, <1>2, <2>3, <2>5, OutsideNoEviction DEF Idle
<1>23. ASSUME NEW p \in Clients, SIsMember(p) \/ SMembers(p) PROVE Kinds
  <2>1. PICK k \in Keys : store' = store \/ (IsSet(k) /\ store' = notifyAccess(store, k))
    BY <1>23 DEF SIsMember, SMembers
  <2>2. PICK f : Goto(p, f) /\ f.at \in {"idle", "lazy"} /\ CanRLock
    BY <1>23 DEF SIsMember, SMembers, Answer, Return, Idle, Lazy
  <2>3. Less(store', store)
    BY <1>0, <2>1, LessRefl, NotifyLess
  <2> QED  BY <1>0, <1>2, <2>2, <2>3, OutsideNoEviction
<1> QED
  BY <1>3, <1>4, <1>5, <1>6, <1>7, <1>8, <1>9, <1>10, <1>11, <1>12, <1>13, <1>14, <1>15,
     <1>16, <1>17, <1>18, <1>19, <1>20, <1>21, <1>22, <1>23
  DEF Next, Begin, Waiting, Holding, Sweeping

-----------------------------------------------------------------------------
(* Within the limits                                                         *)

\* Over its limits, a store is being evicted from. Inductive with IInv.
OverOnlyEvicting ==
    store.policy.name # "none" /\ overCapacity(store) => ~ NoEviction

LEMMA EmptyIsWithin ==
    ASSUME NEW s, Good(s), Present(s) = {}
    PROVE  ~ overCapacity(s)
<1>1. Footprint(s.data) = {}
  BY DEF Present, Footprint, Bytes
<1>2. s.usedMemory = 0 /\ Cardinality(Present(s)) = 0
  BY <1>1, FS_EmptySet DEF Good
<1> QED  BY <1>2, LimitsAssumption, SMT DEF overCapacity

\* The loop that stops has made room, or there is nothing left.
LEMMA DoneIsWithin ==
    ASSUME NEW s, Good(s), s.policy.name # "none", Victims(s.policy) = {}
    PROVE  ~ overCapacity(s)
<1>1. IsPolicy(s.policy, Keys) /\ Tracked(s.policy) = Present(s)
  BY StoreParts DEF Good
<1>2. Present(s) = {}
  BY <1>1, VictimExists, RecordsAssumption
<1> QED  BY <1>2, EmptyIsWithin

LEMMA OverStep == IInv /\ OverOnlyEvicting /\ [Next]_vars => OverOnlyEvicting'
<1> SUFFICES ASSUME IInv, OverOnlyEvicting, Kinds, Good(store) /\ Good(store')
             PROVE  OverOnlyEvicting'
  BY StepKinds, StoreStep, IInvGood
<1>0. frame \in [Procs -> Frames]
  BY DEF IInv, TypeOK
<1>1. CASE Calm /\ UNCHANGED store
  BY <1>1 DEF Calm, OverOnlyEvicting, NoEviction
<1>2. CASE Shrinks
  <2>1. overCapacity(store') => overCapacity(store)
    BY <1>2, LessCapacity DEF Shrinks
  <2> QED  BY <1>2, <2>1 DEF Shrinks, Less, OverOnlyEvicting
<1>3. CASE Writes
  <2>1. PICK p \in Procs, k \in Keys : Goto(p, Evicting(k))
    BY <1>3 DEF Writes
  <2>2. frame'[p].at = "evict"
    BY <1>0, <2>1 DEF Goto, Evicting
  <2> QED  BY <2>2 DEF OverOnlyEvicting, NoEviction
<1>4. CASE Evicts
  BY <1>4 DEF Evicts, OverOnlyEvicting, NoEviction
<1>5. ASSUME NEW p \in Procs, EvictDone(p) PROVE OverOnlyEvicting'
  <2>1. store' = store /\ (~ overCapacity(store) \/ Victims(store.policy) = {})
    BY <1>5 DEF EvictDone
  <2>2. store.policy.name # "none" => ~ overCapacity(store)
    BY <2>1, DoneIsWithin
  <2> QED  BY <2>1, <2>2 DEF OverOnlyEvicting
<1> QED  BY <1>1, <1>2, <1>3, <1>4, <1>5 DEF Kinds

\* Whoever takes the lock finds the store within its limits, however many
\* writes, evictions and sweeps came before.
THEOREM StoreIsWithinCapacity == Spec => []WithinCapacity
<1>1. Init => OverOnlyEvicting
  <2> SUFFICES ASSUME Init PROVE ~ overCapacity(store)
    BY DEF OverOnlyEvicting
  <2>1. Good(store) /\ Present(store) = {}
    BY NewGood DEF Init, New, Present
  <2> QED  BY <2>1, EmptyIsWithin
<1>2. IInv /\ OverOnlyEvicting => WithinCapacity
  BY OutsideNoEviction DEF WithinCapacity, OverOnlyEvicting, CanRLock
<1> QED  BY <1>1, <1>2, OverStep, Invariance, PTL DEF Spec

-----------------------------------------------------------------------------
(* The key just written                                                      *)

Kept(s, k) == Present(s) = {} \/ (s.data[k] # Absent /\ Front(s.policy.place, k))

\* The key a write left the loop with is in front of the list. Inductive with IInv.
WrittenInFront ==
    /\ ListOK(store)
    /\ store.policy.name = "lru" =>
          \A p \in Procs : frame[p].at = "evict" /\ frame[p].key \in Keys
                             => Kept(store, frame[p].key)

LEMMA EvictKeepsFront ==
    ASSUME NEW s, Good(s), s.policy.name = "lru", ListOK(s), NEW v \in Victims(s.policy)
    PROVE  /\ ListOK(EvictKey(s, v)) /\ EvictKey(s, v).policy.name = "lru"
           /\ \A k \in Keys : Kept(s, k) => Kept(EvictKey(s, v), k)
<1>1. IsPolicy(s.policy, Keys) /\ Tracked(s.policy) = Present(s) /\ s.data \in RecordMap
  BY StoreParts DEF Good
<1>2. DOMAIN s.policy.place = Present(s)
  BY <1>1 DEF Tracked
<1>3. v \in Present(s) /\ \A x \in Present(s) : s.policy.place[x] <= s.policy.place[v]
  BY <1>2 DEF Victims, LruBack
<1>4. v \in Keys /\ s.data[v] # Absent
  BY <1>3 DEF Present
<1> DEFINE t == EvictKey(s, v)
<1>5. t = CountEvicted(Remove(s, v))
  BY <1>4 DEF EvictKey
<1>6. t.policy = OnRemove(s.policy, v) /\ t.data = [s.data EXCEPT ![v] = Absent]
  <2>1. Good(Remove(s, v))
    BY <1>4, RemoveGood
  <2>2. t.policy = Remove(s, v).policy /\ t.data = Remove(s, v).data
    <3> DEFINE u == Remove(s, v)
    <3>1. u = StoreOf(u.data, u.policy, u.usedMemory, u.hits, u.misses, u.expiredKeys,
                      u.evictedKeys)
      BY <2>1, StoreParts DEF Good
    <3> HIDE DEF u
    <3>2. CountEvicted(u) = StoreOf(u.data, u.policy, u.usedMemory, u.hits, u.misses,
                                    u.expiredKeys, u.evictedKeys + 1)
      BY <3>1, EvictedOf
    <3>3. CountEvicted(u).policy = u.policy /\ CountEvicted(u).data = u.data
      BY <3>2 DEF StoreOf
    <3> QED  BY <1>5, <3>3 DEF u
  <2> QED  BY <1>4, <2>2, RemoveLess
<1> HIDE DEF t
<1>7. t.policy.name = "lru"
  BY <1>1, <1>4, <1>6, OnRemoveShape
<1>8. /\ InList(t.policy.place)
      /\ \A k \in DOMAIN s.policy.place \ {v} :
            Front(s.policy.place, k) => Front(t.policy.place, k)
  BY <1>1, <1>6, OnRemoveList DEF ListOK
<1>9. ASSUME NEW k \in Keys, Kept(s, k) PROVE Kept(t, k)
  <2>1. s.data[k] # Absent /\ Front(s.policy.place, k) /\ k \in Present(s)
    BY <1>3, <1>9 DEF Kept, Present
  <2>2. CASE k = v
    <3>1. \A x \in Present(s) : s.policy.place[x] \in Nat
      BY <1>1, <1>2 DEF IsPolicy
    <3>2. \A x \in Present(s) \ {k} : s.policy.place[k] < s.policy.place[x]
      BY <1>2, <2>1 DEF Front
    <3>3. Present(s) \subseteq {k}
      BY <1>3, <2>2, <3>1, <3>2, SMT
    <3>4. Present(t) = {}
      BY <1>1, <1>6, <2>2, <3>3 DEF Present, RecordMap
    <3> QED  BY <3>4 DEF Kept
  <2>3. CASE k # v
    <3>1. t.data[k] # Absent
      BY <1>1, <1>6, <2>1, <2>3 DEF RecordMap
    <3> QED  BY <1>2, <1>8, <2>1, <2>3, <3>1 DEF Kept
  <2> QED  BY <2>2, <2>3
<1> QED  BY <1>7, <1>8, <1>9 DEF ListOK, t

LEMMA FrontStep == IInv /\ WrittenInFront /\ [Next]_vars => WrittenInFront'
<1> SUFFICES ASSUME IInv, WrittenInFront, Kinds, Good(store)
             PROVE  WrittenInFront'
  BY StepKinds, IInvGood
<1>0. frame \in [Procs -> Frames]
  BY DEF IInv, TypeOK
<1>1. CASE Calm /\ UNCHANGED store
  BY <1>1, Zenon DEF Calm, WrittenInFront
<1>2. CASE Shrinks
  <2>1. \A p \in Procs : ~ (frame'[p].at = "evict" /\ frame'[p].key \in Keys)
    BY <1>2 DEF Shrinks, Calm, NoEviction
  <2>2. ListOK(store')
    BY <1>2 DEF Shrinks, Less, WrittenInFront
  <2> QED  BY <2>1, <2>2 DEF WrittenInFront
<1>3. CASE Writes
  <2>1. PICK p \in Procs, k \in Keys : Goto(p, Evicting(k)) /\ Wrote(store', store, k)
    BY <1>3 DEF Writes
  <2>2. frame'[p] = Evicting(k) /\ \A q \in Procs \ {p} : frame'[q] = frame[q]
    BY <1>0, <2>1 DEF Goto
  <2>3. \A q \in Procs : frame'[q].at = "evict" => q = p /\ frame'[q].key = k
    BY <1>3, <2>2 DEF Writes, NoEviction, Evicting
  <2>4. ListOK(store') /\ (store'.policy.name = "lru" => Kept(store', k))
    BY <2>1 DEF Wrote, WrittenInFront, Kept
  <2> QED  BY <2>3, <2>4 DEF WrittenInFront
<1>4. CASE Evicts
  <2>1. PICK v \in Victims(store.policy) : store' = EvictKey(store, v)
    BY <1>4 DEF Evicts
  <2>2. UNCHANGED frame
    BY <1>4 DEF Evicts
  <2>3. CASE store.policy.name = "lru"
    <3>1. ListOK(store') /\ \A k \in Keys : Kept(store, k) => Kept(store', k)
      BY <2>1, <2>3, EvictKeepsFront DEF WrittenInFront
    <3> QED  BY <2>2, <2>3, <3>1 DEF WrittenInFront
  <2>4. CASE store.policy.name # "lru"
    <3>1. v \in Keys /\ store.data[v] # Absent
      <4>1. store.policy.name # "none"
        BY <2>1 DEF Victims
      <4> QED  BY <4>1, VictimTracked, StoreParts DEF Good, Present
    <3>2. store'.policy.name = store.policy.name
      <4> DEFINE u == Remove(store, v)
      <4>1. Good(u) /\ u.policy.name = store.policy.name
        BY <3>1, RemoveGood, RemoveLess DEF Less
      <4>2. store' = CountEvicted(u)
        BY <2>1, <3>1 DEF EvictKey
      <4> HIDE DEF u
      <4>3. u = StoreOf(u.data, u.policy, u.usedMemory, u.hits, u.misses, u.expiredKeys,
                        u.evictedKeys)
        BY <4>1, StoreParts DEF Good
      <4>4. store' = StoreOf(u.data, u.policy, u.usedMemory, u.hits, u.misses,
                             u.expiredKeys, u.evictedKeys + 1)
        BY <4>2, <4>3, EvictedOf
      <4> QED  BY <4>1, <4>4 DEF StoreOf
    <3> QED  BY <2>4, <3>2 DEF WrittenInFront, ListOK
  <2> QED  BY <2>3, <2>4
<1>5. ASSUME NEW p \in Procs, EvictDone(p) PROVE WrittenInFront'
  <2>1. store' = store /\ Goto(p, Idle)
    BY <1>5 DEF EvictDone
  <2>2. \A q \in Procs : frame'[q].at = "evict" => frame'[q] = frame[q]
    BY <1>0, <2>1 DEF Goto, Idle
  <2> QED  BY <2>1, <2>2, Zenon DEF WrittenInFront
<1> QED  BY <1>1, <1>2, <1>3, <1>4, <1>5 DEF Kinds

\* Under LRU the write that makes the store too big does not cost the key it
\* wrote, unless that key alone is too big.
THEOREM LRUKeepsWritten == Spec => []LRUKeepsWrittenKey
<1>1. Init => WrittenInFront
  <2> SUFFICES ASSUME Init PROVE WrittenInFront
    OBVIOUS
  <2>1. PICK n \in Policies : store = New(n)
    BY DEF Init
  <2>2. store.policy.place = [k \in {} |-> 0]
    BY <2>1 DEF New, NewPolicy
  <2>3. ListOK(store)
    BY <2>2 DEF ListOK, InList
  <2>4. \A p \in Procs : frame[p].at = "idle"
    BY DEF Init, Idle
  <2> QED  BY <2>3, <2>4 DEF WrittenInFront
<1>2. WrittenInFront => LRUKeepsWrittenKey
  BY DEF WrittenInFront, LRUKeepsWrittenKey, Kept
<1> QED  BY <1>1, <1>2, FrontStep, Invariance, PTL DEF Spec

-----------------------------------------------------------------------------
(* The counters of GET                                                       *)

SameCounts(t, s) == t.hits = s.hits /\ t.misses = s.misses

\* The fields that count hits and misses are those of the store it was made from.
LEMMA CountsOf ==
    ASSUME NEW d, NEW p, NEW m, NEW h, NEW i, NEW x, NEW e, NEW s,
           s.hits = h, s.misses = i
    PROVE  SameCounts(StoreOf(d, p, m, h, i, x, e), s)
BY DEF StoreOf, SameCounts

LEMMA RemovalCounts ==
    ASSUME NEW s, Good(s), NEW k
    PROVE  /\ SameCounts(Remove(s, k), s) /\ SameCounts(removeExpired(s, k), s)
           /\ SameCounts(CountEvicted(Remove(s, k)), s)
<1> DEFINE d == [s.data EXCEPT ![k] = Absent]
           p == OnRemove(s.policy, k)
           m == s.usedMemory + -recordSize(k, s.data[k])
<1>1. Remove(s, k) = StoreOf(d, p, m, s.hits, s.misses, s.expiredKeys, s.evictedKeys)
  BY StoreParts, UnsetOf, AccountOf, RemoveOf DEF Good, Remove, trackRemove
<1>2. removeExpired(s, k) = StoreOf(d, p, m, s.hits, s.misses, s.expiredKeys + 1, s.evictedKeys)
  BY StoreParts, ExpiredOf, AccountOf, RemoveOf DEF Good, removeExpired, trackRemove
<1> HIDE DEF d, p, m
<1>3. CountEvicted(Remove(s, k))
        = StoreOf(d, p, m, s.hits, s.misses, s.expiredKeys, s.evictedKeys + 1)
  BY <1>1, EvictedOf
<1> QED  BY <1>1, <1>2, <1>3, CountsOf

LEMMA DeleteIfExpiredCounts ==
    ASSUME NEW s, Good(s), NEW k
    PROVE  SameCounts(deleteIfExpired(s, k), s)
BY RemovalCounts DEF deleteIfExpired, SameCounts

LEMMA NotifyCounts ==
    ASSUME NEW s, Good(s), NEW k
    PROVE  SameCounts(notifyAccess(s, k), s)
<1>1. notifyAccess(s, k) = StoreOf(s.data, OnAccess(s.policy, k), s.usedMemory, s.hits,
                                   s.misses, s.expiredKeys, s.evictedKeys)
  BY StoreParts, AccessOf DEF Good
<1> QED  BY <1>1, CountsOf

LEMMA ReplaceCounts ==
    ASSUME NEW s, Good(s), NEW k, NEW r, NEW n
    PROVE  /\ SameCounts(Put(s, k, r), s)
           /\ SameCounts(trackInsert(Put(s, k, r), k, r), s)
           /\ SameCounts(accountMemory(Put(s, k, r), n), s)
           /\ SameCounts(notifyAccess(accountMemory(Put(s, k, r), n), k), s)
<1> DEFINE d == [s.data EXCEPT ![k] = r]
<1>1. Put(s, k, r) = StoreOf(d, s.policy, s.usedMemory, s.hits, s.misses,
                             s.expiredKeys, s.evictedKeys)
  BY StoreParts, PutOf DEF Good
<1> HIDE DEF d
<1>2. /\ accountMemory(Put(s, k, r), n)
           = StoreOf(d, s.policy, s.usedMemory + n, s.hits, s.misses, s.expiredKeys, s.evictedKeys)
      /\ trackInsert(Put(s, k, r), k, r)
           = StoreOf(d, OnInsert(s.policy, k), s.usedMemory + recordSize(k, r), s.hits, s.misses,
                     s.expiredKeys, s.evictedKeys)
  BY <1>1, AccountOf, InsertOf DEF trackInsert
<1>3. notifyAccess(accountMemory(Put(s, k, r), n), k)
        = StoreOf(d, OnAccess(s.policy, k), s.usedMemory + n, s.hits, s.misses,
                  s.expiredKeys, s.evictedKeys)
  BY <1>2, AccessOf
<1> QED  BY <1>1, <1>2, <1>3, CountsOf

LEMMA WriteCounts ==
    ASSUME NEW s, Good(s), NEW k \in Keys, NEW r
    PROVE  SameCounts(Write(s, k, r), s)
<1> DEFINE t == deleteIfExpired(s, k)
<1>1. Good(t) /\ SameCounts(t, s)
  BY DeleteIfExpiredGood, DeleteIfExpiredCounts
<1>2. Write(s, k, r) = IF t.data[k] = Absent THEN trackInsert(Put(t, k, r), k, r)
                       ELSE trackOverwrite(Put(t, k, r), k, t.data[k], r)
  BY DEF Write
<1> HIDE DEF t
<1>3. SameCounts(Write(s, k, r), t)
  BY <1>1, <1>2, ReplaceCounts DEF trackOverwrite
<1> QED  BY <1>1, <1>3 DEF SameCounts

LEMMA AddMembersCounts ==
    ASSUME NEW s, Good(s), NEW k, NEW S
    PROVE  SameCounts(AddMembers(s, k, S), s)
<1>1. CASE s.data[k] = Absent
  BY <1>1, ReplaceCounts DEF AddMembers
<1>2. CASE s.data[k] # Absent
  <2> DEFINE q == s.data[k]
             r == [q EXCEPT !.members = q.members \union S]
  <2>1. AddMembers(s, k, S) = notifyAccess(accountMemory(Put(s, k, r), membersSize(S \ q.members)), k)
    BY <1>2 DEF AddMembers
  <2> HIDE DEF r
  <2> QED  BY <2>1, ReplaceCounts
<1> QED  BY <1>1, <1>2

LEMMA RemoveMembersCounts ==
    ASSUME NEW s, Good(s), NEW k \in Keys, NEW S \in SUBSET Members,
           s.data[k] # Absent, ~ WrongType(s.data[k])
    PROVE  SameCounts(RemoveMembers(s, k, S), s)
<1> DEFINE q == s.data[k]
           r == [q EXCEPT !.members = q.members \ S]
           t == TakeMembers(s, k, S)
<1>1. t = accountMemory(Put(s, k, r), -membersSize(q.members \cap S))
  BY DEF TakeMembers
<1>2. Good(t)
  BY TakeMembersGood
<1>3. RemoveMembers(s, k, S) = Remove(t, k) \/ RemoveMembers(s, k, S) = notifyAccess(t, k)
  BY DEF RemoveMembers
<1> HIDE DEF t, r
<1>4. SameCounts(t, s)
  BY <1>1, ReplaceCounts
<1>5. SameCounts(Remove(t, k), t) /\ SameCounts(notifyAccess(t, k), t)
  BY <1>2, RemovalCounts, NotifyCounts
<1> QED  BY <1>3, <1>4, <1>5 DEF SameCounts

LEMMA DeadlineCounts ==
    ASSUME NEW s, Good(s), NEW k, NEW n
    PROVE  SameCounts([s EXCEPT !.data[k].ttl = n], s)
<1> DEFINE r == [s.data[k] EXCEPT !.ttl = n]
<1>1. [s EXCEPT !.data[k].ttl = n] = Put(s, k, r)
  BY DEF Put
<1> HIDE DEF r
<1> QED  BY <1>1, ReplaceCounts

LEMMA HitMissCounts ==
    ASSUME NEW s, Good(s)
    PROVE  /\ Hit(s).hits = s.hits + 1 /\ Hit(s).misses = s.misses
           /\ Miss(s).hits = s.hits /\ Miss(s).misses = s.misses + 1
<1>1. /\ Hit(s) = StoreOf(s.data, s.policy, s.usedMemory, s.hits + 1, s.misses,
                          s.expiredKeys, s.evictedKeys)
      /\ Miss(s) = StoreOf(s.data, s.policy, s.usedMemory, s.hits, s.misses + 1,
                           s.expiredKeys, s.evictedKeys)
  BY StoreParts, HitOf, MissOf DEF Good
<1> QED  BY <1>1 DEF StoreOf

\* A frame of a GET that is not yet counted.
Owing(f) == f.at = "lazy" /\ f.cmd = "GET"
Owed == {p \in Clients : Owing(frame[p])}

LEMMA OwedIsFinite == IsFiniteSet(Owed) /\ Cardinality(Owed) \in Nat
BY StoreAssumption, FS_Subset, FS_CardinalityType DEF Owed

\* A step that is no step of a GET.
LEMMA OtherCounts ==
    ASSUME IInv, GetsCounted, NEW p \in Procs, NEW f, Goto(p, f),
           ~ Owing(frame[p]), ~ Owing(f), SameCounts(store', store), gets' = gets
    PROVE  GetsCounted'
<1>1. frame \in [Procs -> Frames] /\ Clients \subseteq Procs
  BY DEF IInv, TypeOK, Procs
<1>2. \A q \in Procs : Owing(frame'[q]) <=> Owing(frame[q])
  BY <1>1 DEF Goto
<1>3. Owed' = Owed
  BY <1>1, <1>2 DEF Owed
<1> QED  BY <1>3 DEF GetsCounted, Owed, Owing, SameCounts

LEMMA GetCounts ==
    ASSUME IInv, GetsCounted, NEW p \in Clients, Get(p)
    PROVE  GetsCounted'
<1>0. /\ Good(store) /\ frame \in [Procs -> Frames] /\ p \in Procs /\ Clients \subseteq Procs
      /\ gets \in Nat /\ store.hits \in Nat /\ store.misses \in Nat
  BY IInvGood, StoreParts DEF IInv, TypeOK, Procs, Good
<1>1. frame[p].at = "idle" /\ gets' = gets + 1 /\ ~ Owing(frame[p])
  BY DEF Get, Call, Idle, Owing
<1>2. PICK k \in Keys :
         \/ store' = Miss(store) /\ Goto(p, Idle)
         \/ store' = store /\ Goto(p, Lazy(k, "GET"))
         \/ /\ IsString(k) /\ store' = notifyAccess(Hit(store), k) /\ Goto(p, Idle)
  BY DEF Get, Answer, Return
<1>3. store.hits + store.misses + Cardinality(Owed) = gets
  BY DEF GetsCounted, Owed, Owing
<1>4. CASE \/ store' = Miss(store) /\ Goto(p, Idle)
           \/ store' = notifyAccess(Hit(store), k) /\ Goto(p, Idle)
  <2>1. Owed' = Owed
    <3>1. \A q \in Procs : Owing(frame'[q]) <=> Owing(frame[q])
      BY <1>0, <1>1, <1>4 DEF Goto, Owing, Idle
    <3> QED  BY <1>0, <3>1 DEF Owed
  <2>2. store'.hits + store'.misses = store.hits + store.misses + 1
    <3>1. Good(Hit(store))
      BY <1>0, CountersGood
    <3>2. SameCounts(notifyAccess(Hit(store), k), Hit(store))
      BY <3>1, NotifyCounts
    <3>3. \/ store'.hits = store.hits + 1 /\ store'.misses = store.misses
          \/ store'.hits = store.hits /\ store'.misses = store.misses + 1
      BY <1>0, <1>4, <3>2, HitMissCounts DEF SameCounts
    <3> QED  BY <1>0, <3>3, SMT
  <2>3. store'.hits + store'.misses + Cardinality(Owed') = gets'
    BY <1>0, <1>1, <1>3, <2>1, <2>2, OwedIsFinite, SMT
  <2> QED  BY <2>3 DEF GetsCounted, Owed, Owing
<1>5. CASE store' = store /\ Goto(p, Lazy(k, "GET"))
  <2>1. Owing(frame'[p]) /\ \A q \in Procs \ {p} : frame'[q] = frame[q]
    BY <1>0, <1>5 DEF Goto, Owing, Lazy
  <2>2. Owed' = Owed \union {p} /\ p \notin Owed
    BY <1>0, <1>1, <2>1 DEF Owed
  <2>3. Cardinality(Owed') = Cardinality(Owed) + 1
    BY <2>2, OwedIsFinite, FS_AddElement
  <2>4. store'.hits + store'.misses + Cardinality(Owed') = gets'
    BY <1>0, <1>1, <1>3, <1>5, <2>3, OwedIsFinite, SMT
  <2> QED  BY <2>4 DEF GetsCounted, Owed, Owing
<1> QED  BY <1>2, <1>4, <1>5

LEMMA LazyCounts ==
    ASSUME IInv, GetsCounted, NEW p \in Clients, LazyDelete(p)
    PROVE  GetsCounted'
<1> DEFINE s == deleteIfExpired(store, frame[p].key)
<1>0. /\ Good(store) /\ frame \in [Procs -> Frames] /\ p \in Procs /\ Clients \subseteq Procs
      /\ gets \in Nat /\ store.hits \in Nat /\ store.misses \in Nat
  BY IInvGood, StoreParts DEF IInv, TypeOK, Procs, Good
<1>1. frame[p].at = "lazy" /\ gets' = gets /\ frame[p].key \in Keys
  BY <1>0, FrameParts DEF LazyDelete, Continue
<1>2. Good(s) /\ SameCounts(s, store)
  BY <1>0, <1>1, DeleteIfExpiredGood, DeleteIfExpiredCounts
<1>3. store' = IF frame[p].cmd = "GET" THEN Miss(s) ELSE s
  BY DEF LazyDelete
<1>4. PICK f : Goto(p, f) /\ ~ Owing(f)
  BY DEF LazyDelete, Owing, Idle, KeyLoop
<1> HIDE DEF s
<1>5. CASE frame[p].cmd # "GET"
  BY <1>0, <1>1, <1>2, <1>3, <1>4, <1>5, OtherCounts DEF Owing
<1>6. CASE frame[p].cmd = "GET"
  <2>1. Owing(frame[p]) /\ ~ Owing(frame'[p]) /\ \A q \in Procs \ {p} : frame'[q] = frame[q]
    BY <1>0, <1>1, <1>4, <1>6 DEF Goto, Owing
  <2>2. Owed' = Owed \ {p} /\ p \in Owed
    BY <1>0, <2>1 DEF Owed
  <2>3. Cardinality(Owed') = Cardinality(Owed) - 1
    BY <2>2, OwedIsFinite, FS_RemoveElement
  <2>4. store'.hits = store.hits /\ store'.misses = store.misses + 1
    BY <1>2, <1>3, <1>6, HitMissCounts DEF SameCounts
  <2>5. store.hits + store.misses + Cardinality(Owed) = gets
    BY DEF GetsCounted, Owed, Owing
  <2>6. store'.hits + store'.misses + Cardinality(Owed') = gets'
    BY <1>0, <1>1, <2>3, <2>4, <2>5, OwedIsFinite, SMT
  <2> QED  BY <2>6 DEF GetsCounted, Owed, Owing
<1> QED  BY <1>5, <1>6

\* f is a frame of no GET that is still to be counted.
Other(f) == f.at # "lazy" \/ f.cmd # "GET"

LEMMA CountStep == IInv /\ GetsCounted /\ [Next]_vars => GetsCounted'
<1> SUFFICES ASSUME IInv, GetsCounted, [Next]_vars PROVE GetsCounted'
  OBVIOUS
<1>0. /\ Good(store) /\ Clients \subseteq Procs /\ Sweeper \in Procs
      /\ \A p \in Procs : frame[p] \in Frames
  BY IInvGood DEF IInv, TypeOK, Procs
<1>1. ASSUME NEW p \in Procs, NEW f, Goto(p, f), frame[p].at # "lazy", Other(f),
             SameCounts(store', store), gets' = gets
      PROVE  GetsCounted'
  BY <1>1, OtherCounts DEF Owing, Other
<1>2. SameCounts(store, store)
  BY DEF SameCounts
<1>3. ASSUME NEW p \in Clients, Set(p) PROVE GetsCounted'
  <2>1. PICK f : /\ Goto(p, f) /\ f.at = "set" /\ frame[p].at = "idle" /\ UNCHANGED store
                 /\ gets' = gets
    BY <1>3 DEF Set, Answer, Call, Idle
  <2> QED  BY <1>0, <1>1, <1>2, <2>1 DEF Other
<1>4. ASSUME NEW p \in Clients, SetLocked(p) PROVE GetsCounted'
  <2>1. frame[p].key \in Keys /\ frame[p].at = "set"
    BY <1>0, <1>4, FrameParts DEF SetLocked, Continue
  <2>2. PICK f : Goto(p, f) /\ f.at = "evict" /\ gets' = gets
    BY <1>4 DEF SetLocked, Continue, Evicting
  <2>3. SameCounts(store', store)
    BY <1>0, <1>4, <2>1, WriteCounts DEF SetLocked
  <2> QED  BY <1>0, <1>1, <2>1, <2>2, <2>3 DEF Other
<1>5. ASSUME NEW p \in Clients, Incr(p) PROVE GetsCounted'
  <2>0. PICK k \in Keys :
          \/ store' = deleteIfExpired(store, k)
          \/ \E r : store' = Write(deleteIfExpired(store, k), k, r)
    BY <1>5 DEF Incr
  <2>1. PICK r : \/ store' = deleteIfExpired(store, k)
                \/ store' = Write(deleteIfExpired(store, k), k, r)
    BY <2>0
  <2>2. PICK f : Goto(p, f) /\ f.at \in {"idle", "evict"} /\ frame[p].at = "idle" /\ gets' = gets
    BY <1>5 DEF Incr, Call, Return, Answer, Idle, Evicting
  <2> DEFINE s == deleteIfExpired(store, k)
  <2>3. Good(s) /\ SameCounts(s, store)
    BY <1>0, DeleteIfExpiredGood, DeleteIfExpiredCounts
  <2> HIDE DEF s
  <2>4. SameCounts(Write(s, k, r), s)
    BY <2>3, WriteCounts
  <2>5. SameCounts(store', store)
    BY <2>1, <2>3, <2>4 DEF SameCounts, s
  <2> QED  BY <1>0, <1>1, <2>2, <2>5 DEF Other
<1>6. ASSUME NEW p \in Clients, Expire(p) PROVE GetsCounted'
  <2>1. PICK f : /\ Goto(p, f) /\ f.at \in {"delete", "expire"} /\ frame[p].at = "idle"
                 /\ UNCHANGED store /\ gets' = gets
    BY <1>6 DEF Expire, Answer, Call, KeyLoop, Idle
  <2> QED  BY <1>0, <1>1, <1>2, <2>1 DEF Other
<1>7. ASSUME NEW p \in Clients, Delete(p) \/ Exists(p) PROVE GetsCounted'
  <2>1. ASSUME NEW l \in {"delete", "exists"}, NEW keys, Goto(p, KeyLoop(l, keys, 0)),
               frame[p].at = "idle", UNCHANGED store, gets' = gets
        PROVE  GetsCounted'
    <3>1. Other(KeyLoop(l, keys, 0))
      BY DEF KeyLoop, Other
    <3> QED  BY <1>0, <1>1, <1>2, <2>1, <3>1
  <2>2. ASSUME Delete(p) PROVE GetsCounted'
    <3>1. PICK keys : /\ Goto(p, KeyLoop("delete", keys, 0)) /\ frame[p].at = "idle"
                      /\ UNCHANGED store /\ gets' = gets
      BY <2>2 DEF Delete, Answer, Call, Idle
    <3> QED  BY <2>1, <3>1
  <2>3. ASSUME Exists(p) PROVE GetsCounted'
    <3>1. PICK keys : /\ Goto(p, KeyLoop("exists", keys, 0)) /\ frame[p].at = "idle"
                      /\ UNCHANGED store /\ gets' = gets
      BY <2>3 DEF Exists, Answer, Call, Idle
    <3> QED  BY <2>1, <3>1
  <2> QED  BY <1>7, <2>2, <2>3
<1>8. ASSUME NEW p \in Clients, Stats(p) PROVE GetsCounted'
  <2> DEFINE f == [at |-> "stats", count |-> Cardinality(Present(store))]
  <2>1. Goto(p, f) /\ f.at = "stats" /\ frame[p].at = "idle" /\ UNCHANGED store /\ gets' = gets
    BY <1>8 DEF Stats, Answer, Call, Idle
  <2> HIDE DEF f
  <2> QED  BY <1>0, <1>1, <1>2, <2>1 DEF Other
<1>9. ASSUME NEW p \in Clients, ExpireLocked(p) PROVE GetsCounted'
  <2> DEFINE k == frame[p].key
             s == deleteIfExpired(store, k)
             t == [s EXCEPT !.data[k].ttl = frame[p].ttl]
  <2>1. k \in Keys /\ frame[p].ttl \in Nat /\ frame[p].at = "expire"
    BY <1>0, <1>9, FrameParts DEF ExpireLocked, Continue
  <2>2. Good(s) /\ SameCounts(s, store)
    BY <1>0, <2>1, DeleteIfExpiredGood, DeleteIfExpiredCounts
  <2>3. /\ \/ store' = s
           \/ s.data[k] # Absent /\ store' = notifyAccess(t, k)
        /\ Goto(p, Idle) /\ gets' = gets
    BY <1>9 DEF ExpireLocked, Continue, Return, Answer
  <2> HIDE DEF s, k
  <2>4. s.data[k] # Absent => Good(t) /\ SameCounts(t, s)
    BY <2>1, <2>2, DeadlineGood, DeadlineCounts
  <2> HIDE DEF t
  <2>5. s.data[k] # Absent => SameCounts(notifyAccess(t, k), t)
    BY <2>4, NotifyCounts
  <2>6. SameCounts(store', store)
    BY <2>2, <2>3, <2>4, <2>5 DEF SameCounts
  <2> QED  BY <1>0, <1>1, <2>1, <2>3, <2>6 DEF Idle, Other
<1>10. ASSUME NEW p \in Clients, TTL(p) PROVE GetsCounted'
  <2>1. PICK f : /\ Goto(p, f) /\ frame[p].at = "idle" /\ Other(f)
                 /\ UNCHANGED store /\ gets' = gets
    BY <1>10 DEF TTL, Answer, Return, Call, Lazy, Idle, Other
  <2> QED  BY <1>0, <1>1, <1>2, <2>1
<1>11. ASSUME NEW p \in Procs, TTLRemaining(p) \/ StatsCounters(p) \/ DeleteDone(p) \/ EvictDone(p)
       PROVE  GetsCounted'
  <2>1. PICK f : /\ Goto(p, f) /\ frame[p].at \in {"ttl", "stats", "delete", "evict"}
                 /\ Other(f) /\ UNCHANGED store /\ gets' = gets
    BY <1>11 DEF TTLRemaining, StatsCounters, DeleteDone, EvictDone, Continue, Answer, Return,
                 Lazy, Idle, Other
  <2> QED  BY <1>1, <1>2, <2>1
<1>12. ASSUME NEW p \in Clients, ExistsKey(p) \/ ExistsDone(p) PROVE GetsCounted'
  <2>1. PICK f : /\ Goto(p, f) /\ frame[p].at = "exists" /\ Other(f)
                 /\ UNCHANGED store /\ gets' = gets
    BY <1>12 DEF ExistsKey, ExistsDone, Continue, Answer, Return, KeyLoop, Idle, Other
  <2> QED  BY <1>0, <1>1, <1>2, <2>1
<1>13. ASSUME NEW p \in Procs, DeleteKey(p) PROVE GetsCounted'
  <2>1. PICK f : Goto(p, f) /\ f.at = "delete" /\ frame[p].at = "delete" /\ gets' = gets
    BY <1>13 DEF DeleteKey, Continue, KeyLoop
  <2>2. SameCounts(store', store)
    BY <1>0, <1>2, <1>13, RemovalCounts DEF DeleteKey
  <2> QED  BY <1>1, <2>1, <2>2 DEF Other
<1>14. ASSUME NEW p \in Clients, Evict(p) PROVE GetsCounted'
  <2>1. Goto(p, Evicting(NoKey)) /\ frame[p].at = "idle" /\ UNCHANGED store /\ gets' = gets
    BY <1>14 DEF Evict, Answer, Call, Idle
  <2> QED  BY <1>0, <1>1, <1>2, <2>1 DEF Evicting, Other
<1>15. ASSUME NEW p \in Procs, EvictStep(p) PROVE GetsCounted'
  <2>1. PICK v \in Victims(store.policy) : store' = EvictKey(store, v)
    BY <1>15 DEF EvictStep
  <2>2. v \in Keys /\ store.data[v] # Absent
    <3>1. store.policy.name # "none"
      BY <2>1 DEF Victims
    <3> QED  BY <1>0, <3>1, VictimTracked, StoreParts DEF Good, Present
  <2>3. SameCounts(store', store)
    BY <1>0, <2>1, <2>2, RemovalCounts DEF EvictKey
  <2>4. UNCHANGED <<frame, gets>>
    BY <1>15 DEF EvictStep, Continue
  <2> QED  BY <2>3, <2>4 DEF GetsCounted, SameCounts
<1>16. ASSUME Sweep \/ SweepDone PROVE GetsCounted'
  <2>1. PICK f : /\ Goto(Sweeper, f) /\ frame[Sweeper].at \in {"idle", "sweep"}
                 /\ f.at = "sweep" \/ f = Evicting(NoKey)
                 /\ UNCHANGED store /\ gets' = gets
    BY <1>16 DEF Sweep, SweepDone, Continue, Idle
  <2> QED  BY <1>0, <1>1, <1>2, <2>1 DEF Other, Evicting
<1>17. ASSUME SweepKey PROVE GetsCounted'
  <2>1. PICK k : /\ store' = deleteIfExpired(store, k) /\ gets' = gets
                 /\ frame[Sweeper].at = "sweep"
                 /\ Goto(Sweeper, [at |-> "sweep", rest |-> frame[Sweeper].rest \ {k}])
    BY <1>17 DEF SweepKey, Continue
  <2>2. PICK f : Goto(Sweeper, f) /\ f.at = "sweep"
    BY <2>1
  <2>3. SameCounts(store', store)
    BY <1>0, <2>1, DeleteIfExpiredCounts
  <2> QED  BY <1>0, <1>1, <2>1, <2>2, <2>3 DEF Other
<1>18. ASSUME Tick \/ UNCHANGED vars PROVE GetsCounted'
  <2>1. UNCHANGED <<store, frame, gets>>
    BY <1>18 DEF Tick, vars
  <2> QED  BY <2>1 DEF GetsCounted
<1>19. ASSUME NEW p \in Clients, SAdd(p) PROVE GetsCounted'
  <2>1. PICK k \in Keys, S \in SUBSET Members :
          LET s == deleteIfExpired(store, k)
          IN store' = s \/ store' = AddMembers(s, k, S)
    BY <1>19 DEF SAdd
  <2>2. PICK f : Goto(p, f) /\ f.at \in {"idle", "evict"} /\ frame[p].at = "idle" /\ gets' = gets
    BY <1>19 DEF SAdd, Call, Return, Answer, Idle, Evicting
  <2> DEFINE s == deleteIfExpired(store, k)
  <2>3. Good(s) /\ SameCounts(s, store) /\ (store' = s \/ store' = AddMembers(s, k, S))
    BY <1>0, <2>1, DeleteIfExpiredGood, DeleteIfExpiredCounts
  <2> HIDE DEF s
  <2>4. SameCounts(store', store)
    BY <2>3, AddMembersCounts DEF SameCounts
  <2> QED  BY <1>0, <1>1, <2>2, <2>4 DEF Other
<1>20. ASSUME NEW p \in Clients, SRem(p) PROVE GetsCounted'
  <2>1. PICK k \in Keys, S \in SUBSET Members :
          LET s == deleteIfExpired(store, k)
          IN \/ store' = s
             \/ /\ s.data[k] # Absent /\ ~ WrongType(s.data[k])
                /\ store' = RemoveMembers(s, k, S)
    BY <1>20 DEF SRem
  <2>2. Goto(p, Idle) /\ frame[p].at = "idle" /\ gets' = gets
    BY <1>20 DEF SRem, Call, Return, Answer, Idle
  <2> DEFINE s == deleteIfExpired(store, k)
  <2>3. /\ Good(s) /\ SameCounts(s, store)
        /\ \/ store' = s
           \/ /\ s.data[k] # Absent /\ ~ WrongType(s.data[k])
              /\ store' = RemoveMembers(s, k, S)
    BY <1>0, <2>1, DeleteIfExpiredGood, DeleteIfExpiredCounts
  <2> HIDE DEF s
  <2>4. SameCounts(store', store)
    BY <2>3, RemoveMembersCounts DEF SameCounts
  <2> QED  BY <1>0, <1>1, <2>2, <2>4 DEF Idle, Other
<1>21. ASSUME NEW p \in Clients, SIsMember(p) \/ SMembers(p) PROVE GetsCounted'
  <2>1. PICK k \in Keys : store' = store \/ store' = notifyAccess(store, k)
    BY <1>21 DEF SIsMember, SMembers
  <2>2. PICK f : Goto(p, f) /\ Other(f) /\ frame[p].at = "idle" /\ gets' = gets
    <3>1. ASSUME SIsMember(p)
          PROVE  \E f : Goto(p, f) /\ Other(f) /\ frame[p].at = "idle" /\ gets' = gets
      BY <3>1 DEF SIsMember, Call, Answer, Return, Idle, Lazy, Other
    <3>2. ASSUME SMembers(p)
          PROVE  \E f : Goto(p, f) /\ Other(f) /\ frame[p].at = "idle" /\ gets' = gets
      BY <3>2 DEF SMembers, Call, Answer, Return, Idle, Lazy, Other
    <3> QED  BY <1>21, <3>1, <3>2
  <2>3. SameCounts(store', store)
    BY <1>0, <1>2, <2>1, NotifyCounts
  <2> QED  BY <1>0, <1>1, <2>2, <2>3
<1> QED
  BY <1>3, <1>4, <1>5, <1>6, <1>7, <1>8, <1>9, <1>10, <1>11, <1>12, <1>13, <1>14, <1>15,
     <1>16, <1>17, <1>18, <1>19, <1>20, <1>21, GetCounts, LazyCounts
  DEF Next, Begin, Waiting, Holding, Sweeping

\* Hits and misses add up to the GETs, but for those that met an expired record
\* and have yet to take the lock.
THEOREM GetsAreCounted == Spec => []GetsCounted
<1>1. Init => GetsCounted
  <2> SUFFICES ASSUME Init PROVE GetsCounted
    OBVIOUS
  <2>1. store.hits = 0 /\ store.misses = 0 /\ gets = 0
    BY DEF Init, New
  <2>2. Owed = {}
    BY DEF Init, Owed, Owing, Idle, Procs
  <2>3. Cardinality(Owed) = 0
    BY <2>2, FS_EmptySet
  <2> QED  BY <2>1, <2>3, SMT DEF GetsCounted, Owed, Owing
<1> QED  BY <1>1, CountStep, Invariance, PTL DEF Spec

-----------------------------------------------------------------------------
(* What leaves the map, and why                                              *)

\* The records of s that are live are there in t; k excepted.
Spared(t, s, k) == \A x \in Keys \ {k} :
                      s.data[x] # Absent /\ ~ isExpired(s.data[x]) => t.data[x] # Absent
AllSpared(t, s) == \A x \in Keys :
                      s.data[x] # Absent /\ ~ isExpired(s.data[x]) => t.data[x] # Absent

LEMMA DataOf ==
    ASSUME NEW d, NEW p, NEW m, NEW h, NEW i, NEW x, NEW e
    PROVE  /\ StoreOf(d, p, m, h, i, x, e).data = d
           /\ StoreOf(d, p, m, h, i, x, e).expiredKeys = x
           /\ StoreOf(d, p, m, h, i, x, e).evictedKeys = e
BY DEF StoreOf

LEMMA RemovalData ==
    ASSUME NEW s, Good(s), NEW k \in Keys
    PROVE  /\ Remove(s, k).data = [s.data EXCEPT ![k] = Absent]
           /\ Remove(s, k).expiredKeys = s.expiredKeys
           /\ CountEvicted(Remove(s, k)).data = [s.data EXCEPT ![k] = Absent]
           /\ CountEvicted(Remove(s, k)).evictedKeys = s.evictedKeys + 1
<1> DEFINE d == [s.data EXCEPT ![k] = Absent]
           p == OnRemove(s.policy, k)
           m == s.usedMemory + -recordSize(k, s.data[k])
<1>1. Remove(s, k) = StoreOf(d, p, m, s.hits, s.misses, s.expiredKeys, s.evictedKeys)
  BY StoreParts, UnsetOf, AccountOf, RemoveOf DEF Good, Remove, trackRemove
<1> HIDE DEF d, p, m
<1>2. CountEvicted(Remove(s, k))
        = StoreOf(d, p, m, s.hits, s.misses, s.expiredKeys, s.evictedKeys + 1)
  BY <1>1, EvictedOf
<1> QED  BY <1>1, <1>2, DataOf DEF d

LEMMA NotifyData ==
    ASSUME NEW s, Good(s), NEW k
    PROVE  notifyAccess(s, k).data = s.data /\ notifyAccess(s, k).expiredKeys = s.expiredKeys
<1>1. notifyAccess(s, k) = StoreOf(s.data, OnAccess(s.policy, k), s.usedMemory, s.hits,
                                   s.misses, s.expiredKeys, s.evictedKeys)
  BY StoreParts, AccessOf DEF Good
<1> QED  BY <1>1, DataOf

LEMMA ReplaceData ==
    ASSUME NEW s, Good(s), NEW k \in Keys, NEW r, NEW n, NEW t,
           t \in {Put(s, k, r), trackInsert(Put(s, k, r), k, r),
                  accountMemory(Put(s, k, r), n),
                  notifyAccess(accountMemory(Put(s, k, r), n), k)}
    PROVE  t.data = [s.data EXCEPT ![k] = r] /\ t.expiredKeys = s.expiredKeys
<1> DEFINE d == [s.data EXCEPT ![k] = r]
<1>1. Put(s, k, r) = StoreOf(d, s.policy, s.usedMemory, s.hits, s.misses,
                             s.expiredKeys, s.evictedKeys)
  BY StoreParts, PutOf DEF Good
<1> HIDE DEF d
<1>2. /\ accountMemory(Put(s, k, r), n)
           = StoreOf(d, s.policy, s.usedMemory + n, s.hits, s.misses, s.expiredKeys, s.evictedKeys)
      /\ trackInsert(Put(s, k, r), k, r)
           = StoreOf(d, OnInsert(s.policy, k), s.usedMemory + recordSize(k, r), s.hits, s.misses,
                     s.expiredKeys, s.evictedKeys)
  BY <1>1, AccountOf, InsertOf DEF trackInsert
<1>3. notifyAccess(accountMemory(Put(s, k, r), n), k)
        = StoreOf(d, OnAccess(s.policy, k), s.usedMemory + n, s.hits, s.misses,
                  s.expiredKeys, s.evictedKeys)
  BY <1>2, AccessOf
<1> QED  BY <1>1, <1>2, <1>3, DataOf DEF d

\* A record that is not expired is still the same after deleteIfExpired.
LEMMA DeleteIfExpiredData ==
    ASSUME NEW s, Good(s), NEW k \in Keys, NEW x \in Keys,
           s.data[x] # Absent, ~ isExpired(s.data[x])
    PROVE  /\ deleteIfExpired(s, k).data[x] = s.data[x]
           /\ x = k => deleteIfExpired(s, k) = s
<1>1. CASE s.data[k] # Absent /\ isExpired(s.data[k])
  <2>1. removeExpired(s, k).data = [s.data EXCEPT ![k] = Absent] /\ x # k
    BY <1>1, RemoveExpiredGood
  <2>2. s.data \in RecordMap
    BY StoreParts DEF Good
  <2> QED  BY <1>1, <2>1, <2>2 DEF deleteIfExpired, RecordMap
<1>2. CASE ~ (s.data[k] # Absent /\ isExpired(s.data[k]))
  BY <1>2 DEF deleteIfExpired
<1> QED  BY <1>1, <1>2

LEMMA PutSpares ==
    ASSUME NEW s, Good(s), NEW k \in Keys, NEW r, r # Absent, NEW t,
           t.data = [s.data EXCEPT ![k] = r]
    PROVE  AllSpared(t, s)
<1>1. s.data \in RecordMap
  BY StoreParts DEF Good
<1> QED  BY <1>1 DEF AllSpared, RecordMap

\* What comes after deleteIfExpired spares what it spares.
LEMMA AfterExpiry ==
    ASSUME NEW s, Good(s), NEW k \in Keys, NEW t, AllSpared(t, deleteIfExpired(s, k))
    PROVE  AllSpared(t, s)
BY DeleteIfExpiredData DEF AllSpared

LEMMA WriteSpares ==
    ASSUME NEW s, Good(s), NEW k \in Keys, NEW r \in Record
    PROVE  AllSpared(Write(s, k, r), s)
<1> DEFINE t == deleteIfExpired(s, k)
<1>1. Good(t)
  BY DeleteIfExpiredGood
<1>2. Write(s, k, r) = IF t.data[k] = Absent THEN trackInsert(Put(t, k, r), k, r)
                       ELSE trackOverwrite(Put(t, k, r), k, t.data[k], r)
  BY DEF Write
<1> HIDE DEF t
<1>3. Write(s, k, r).data = [t.data EXCEPT ![k] = r]
  BY <1>1, <1>2, ReplaceData DEF trackOverwrite
<1>4. AllSpared(Write(s, k, r), t)
  BY <1>1, <1>3, PutSpares, AbsentIsNoRecord
<1> QED  BY <1>4, AfterExpiry DEF t

LEMMA AddMembersSpares ==
    ASSUME NEW s, Good(s), NEW k \in Keys, NEW S \in SUBSET Members, ~ WrongType(s.data[k])
    PROVE  AllSpared(AddMembers(s, k, S), s)
<1>1. CASE s.data[k] = Absent
  <2>1. SetValue(S, 0) # Absent
    BY AbsentIsNoRecord DEF SetValue, SetRecord, Record
  <2>2. AddMembers(s, k, S).data = [s.data EXCEPT ![k] = SetValue(S, 0)]
    BY <1>1, ReplaceData DEF AddMembers
  <2> QED  BY <2>1, <2>2, PutSpares
<1>2. CASE s.data[k] # Absent
  <2> DEFINE q == s.data[k]
             r == [q EXCEPT !.members = q.members \union S]
  <2>1. q \in SetRecord
    BY <1>2, StoreParts DEF Good, RecordMap, WrongType, Record, StringRecord, SetRecord
  <2>2. r # Absent
    BY <2>1, AbsentIsNoRecord DEF SetRecord, Record
  <2>3. AddMembers(s, k, S) = notifyAccess(accountMemory(Put(s, k, r), membersSize(S \ q.members)), k)
    BY <1>2 DEF AddMembers
  <2> HIDE DEF r
  <2>4. AddMembers(s, k, S).data = [s.data EXCEPT ![k] = r]
    BY <2>3, ReplaceData
  <2> QED  BY <2>2, <2>4, PutSpares
<1> QED  BY <1>1, <1>2

LEMMA RemoveMembersSpares ==
    ASSUME NEW s, Good(s), NEW k \in Keys, NEW S \in SUBSET Members,
           s.data[k] # Absent, ~ WrongType(s.data[k])
    PROVE  /\ Spared(RemoveMembers(s, k, S), s, k)
           /\ RemoveMembers(s, k, S).expiredKeys = s.expiredKeys
<1> DEFINE q == s.data[k]
           r == [q EXCEPT !.members = q.members \ S]
           t == TakeMembers(s, k, S)
<1>1. t = accountMemory(Put(s, k, r), -membersSize(q.members \cap S))
  BY DEF TakeMembers
<1>2. Good(t)
  BY TakeMembersGood
<1>3. RemoveMembers(s, k, S) = Remove(t, k) \/ RemoveMembers(s, k, S) = notifyAccess(t, k)
  BY DEF RemoveMembers
<1> HIDE DEF t, r
<1>4. t.data = [s.data EXCEPT ![k] = r] /\ t.expiredKeys = s.expiredKeys
  BY <1>1, ReplaceData
<1>5. /\ Remove(t, k).data = [t.data EXCEPT ![k] = Absent]
      /\ Remove(t, k).expiredKeys = t.expiredKeys
      /\ notifyAccess(t, k).data = t.data /\ notifyAccess(t, k).expiredKeys = t.expiredKeys
  BY <1>2, RemovalData, NotifyData
<1>6. s.data \in RecordMap /\ t.data \in RecordMap
  BY <1>2, StoreParts DEF Good
<1> QED  BY <1>3, <1>4, <1>5, <1>6, SMT DEF Spared, RecordMap

\* Why a live key may leave the map: the three causes of NoSilentLoss.
Cause(k) ==
    \/ /\ writer # NoProc /\ frame[writer].at = "delete"
       /\ frame[writer].rest # <<>> /\ Head(frame[writer].rest) = k
       /\ store'.expiredKeys = store.expiredKeys
    \/ /\ issued' # issued /\ store'.expiredKeys = store.expiredKeys
       /\ \E p \in Clients : reply'[p].cmd = "SREM" /\ reply'[p].key = k
    \/ store'.evictedKeys = store.evictedKeys + 1

Justified == \A k \in Keys : Live(k) /\ store.data[k] # Absent /\ store'.data[k] = Absent => Cause(k)

LEMMA SparedIsJustified == ASSUME AllSpared(store', store) PROVE Justified
BY DEF AllSpared, Justified, Live

LEMMA SameDataIsJustified == ASSUME store'.data = store.data PROVE Justified
BY DEF Justified

\* Answers go to goroutines, so that the answer of SREM is its caller's.
RepliesTyped == DOMAIN reply = Procs

LEMMA ReplyStep == RepliesTyped /\ [Next]_vars => RepliesTyped'
<1> SUFFICES ASSUME RepliesTyped, [Next]_vars PROVE RepliesTyped'
  OBVIOUS
<1>1. ASSUME NEW p, NEW r, NEW f, Answer(p, r, f) PROVE RepliesTyped'
  BY <1>1 DEF Answer, RepliesTyped
<1>2. ASSUME NEW p, NEW r, Return(p, r) PROVE RepliesTyped'
  BY <1>1, <1>2 DEF Return
<1>3. ASSUME NEW p, Set(p) \/ Get(p) \/ Incr(p) \/ Expire(p) \/ TTL(p) PROVE RepliesTyped'
  BY <1>1, <1>2, <1>3 DEF Set, Get, Incr, Expire, TTL
<1>4. ASSUME NEW p, SAdd(p) \/ SRem(p) \/ SIsMember(p) \/ SMembers(p) PROVE RepliesTyped'
  BY <1>1, <1>2, <1>4 DEF SAdd, SRem, SIsMember, SMembers
<1>5. ASSUME NEW p, Delete(p) \/ Exists(p) \/ Evict(p) \/ Stats(p) PROVE RepliesTyped'
  BY <1>1, <1>2, <1>5 DEF Delete, Exists, Evict, Stats
<1>6. ASSUME NEW p, SetLocked(p) \/ ExpireLocked(p) \/ LazyDelete(p) \/ ExistsKey(p) \/ ExistsDone(p)
      PROVE  RepliesTyped'
  BY <1>1, <1>2, <1>6 DEF SetLocked, ExpireLocked, LazyDelete, ExistsKey, ExistsDone, RepliesTyped
<1>7. ASSUME NEW p, Holding(p) PROVE RepliesTyped'
  BY <1>1, <1>2, <1>7 DEF Holding, TTLRemaining, DeleteKey, DeleteDone, EvictStep, EvictDone,
     StatsCounters, RepliesTyped
<1>8. CASE Sweep \/ Sweeping \/ Tick \/ UNCHANGED vars
  BY <1>8 DEF Sweep, Sweeping, SweepKey, SweepDone, Tick, vars, RepliesTyped
<1> QED
  BY <1>3, <1>4, <1>5, <1>6, <1>7, <1>8 DEF Next, Begin, Waiting

LEMMA LossStep == IInv /\ RepliesTyped /\ [Next]_vars => Justified
<1> SUFFICES ASSUME IInv, RepliesTyped, [Next]_vars PROVE Justified
  OBVIOUS
<1>0. /\ Good(store) /\ now \in Nat /\ store.data \in RecordMap
      /\ \A p \in Procs : frame[p] \in Frames
  BY IInvGood, StoreParts DEF IInv, TypeOK, Good
<1>a. CASE store' = store
  BY <1>a, SameDataIsJustified
<1>1. ASSUME NEW k \in Keys, AllSpared(store', deleteIfExpired(store, k)) PROVE Justified
  BY <1>0, <1>1, AfterExpiry, SparedIsJustified
<1>2. ASSUME NEW k \in Keys, store' = deleteIfExpired(store, k) PROVE Justified
  BY <1>1, <1>2 DEF AllSpared
<1>3. ASSUME NEW p \in Clients, SetLocked(p) PROVE Justified
  <2>1. frame[p].key \in Keys /\ frame[p].record \in Record
    BY <1>0, <1>3, FrameParts DEF SetLocked, Continue, Procs, Record
  <2>2. store' = Write(store, frame[p].key, frame[p].record)
    BY <1>3 DEF SetLocked
  <2> QED  BY <1>0, <2>1, <2>2, WriteSpares, SparedIsJustified
<1>4. ASSUME NEW p \in Clients, Get(p) PROVE Justified
  <2>1. PICK k \in Keys : \/ store' = Miss(store)
                          \/ store' = store
                          \/ store' = notifyAccess(Hit(store), k)
    BY <1>4 DEF Get
  <2>2. Good(Hit(store)) /\ Hit(store).data = store.data /\ Miss(store).data = store.data
    BY <1>0, CountersGood, StoreParts, MissOf, DataOf DEF Good
  <2>3. store'.data = store.data
    BY <2>1, <2>2, NotifyData
  <2> QED  BY <2>3, SameDataIsJustified
<1>5. ASSUME NEW p \in Clients, LazyDelete(p) PROVE Justified
  <2> DEFINE s == deleteIfExpired(store, frame[p].key)
  <2>1. frame[p].key \in Keys
    BY <1>0, <1>5, FrameParts DEF LazyDelete, Continue, Procs
  <2>2. store' = Miss(s) \/ store' = s
    BY <1>5 DEF LazyDelete
  <2>3. Good(s)
    BY <1>0, <2>1, DeleteIfExpiredGood
  <2>a. ASSUME NEW x, Good(x) PROVE Miss(x).data = x.data
    BY <2>a, StoreParts, MissOf, DataOf DEF Good
  <2> HIDE DEF s
  <2>4. store'.data = s.data
    BY <2>2, <2>3, <2>a
  <2>5. AllSpared(store', s)
    BY <2>4 DEF AllSpared
  <2> QED  BY <1>1, <2>1, <2>5 DEF s
<1>6. ASSUME NEW p \in Clients, Incr(p) PROVE Justified
  <2>1. PICK k \in Keys :
          LET s == deleteIfExpired(store, k)
              r == s.data[k]
              n == IF r = Absent THEN 0
                   ELSE IF r.type = "string" THEN ParseInt[r.text] ELSE NotANumber
              next == FormatInt[Increment(n)]
          IN \/ store' = s
             \/ /\ n # NotANumber
                /\ store' = Write(s, k, StringValue(next, IF r = Absent THEN 0 ELSE r.ttl))
    BY <1>6 DEF Incr
  <2> DEFINE s == deleteIfExpired(store, k)
             n == IF s.data[k] = Absent THEN 0
                  ELSE IF s.data[k].type = "string" THEN ParseInt[s.data[k].text] ELSE NotANumber
             r == StringValue(FormatInt[Increment(n)],
                              IF s.data[k] = Absent THEN 0 ELSE s.data[k].ttl)
  <2>2. Good(s)
    BY <1>0, DeleteIfExpiredGood
  <2>3. store' = s \/ (n # NotANumber /\ store' = Write(s, k, r))
    BY <2>1
  <2>s. s = deleteIfExpired(store, k)
    OBVIOUS
  <2> HIDE DEF s
  <2>4. n # NotANumber => r \in Record
    BY <2>2, IncrRecord
  <2> HIDE DEF n, r
  <2>5. CASE store' = Write(s, k, r) /\ r \in Record
    BY <1>1, <2>2, <2>5, <2>s, WriteSpares
  <2> QED  BY <1>2, <2>3, <2>4, <2>5, <2>s
<1>7. ASSUME NEW p \in Clients, ExpireLocked(p) PROVE Justified
  <2> DEFINE k == frame[p].key
             s == deleteIfExpired(store, k)
             t == [s EXCEPT !.data[k].ttl = frame[p].ttl]
  <2>1. k \in Keys /\ frame[p].ttl \in Nat
    BY <1>0, <1>7, FrameParts DEF ExpireLocked, Continue, Procs
  <2>2. Good(s)
    BY <1>0, <2>1, DeleteIfExpiredGood
  <2>3. store' = s \/ (s.data[k] # Absent /\ store' = notifyAccess(t, k))
    BY <1>7 DEF ExpireLocked
  <2>s. s = deleteIfExpired(store, k)
    OBVIOUS
  <2> HIDE DEF k, s
  <2>4. CASE s.data[k] # Absent /\ store' = notifyAccess(t, k)
    <3> DEFINE r == [s.data[k] EXCEPT !.ttl = frame[p].ttl]
    <3>1. Good(t) /\ t.data[k] # Absent
      BY <2>1, <2>2, <2>4, DeadlineGood
    <3>2. t = Put(s, k, r)
      BY DEF Put
    <3> HIDE DEF t, r
    <3>3. t.data = [s.data EXCEPT ![k] = r] /\ s.data \in RecordMap
      BY <2>1, <2>2, <3>2, ReplaceData, StoreParts DEF Good
    <3>4. r # Absent
      BY <2>1, <3>1, <3>3 DEF RecordMap
    <3>5. store'.data = [s.data EXCEPT ![k] = r]
      BY <2>4, <3>1, <3>3, NotifyData
    <3>6. AllSpared(store', s)
      BY <2>1, <2>2, <3>4, <3>5, PutSpares
    <3> QED  BY <1>1, <2>1, <2>s, <3>6
  <2> QED  BY <1>2, <2>1, <2>3, <2>4, <2>s
<1>8. ASSUME NEW p \in Procs, DeleteKey(p) PROVE Justified
  <2> DEFINE k == Head(frame[p].rest)
  <2>1. frame[p].rest \in Seq(Keys) /\ frame[p].rest # <<>> /\ frame[p].at = "delete"
    BY <1>0, <1>8, FrameParts DEF DeleteKey, Continue
  <2>2. k \in Keys /\ writer = p /\ p # NoProc
    BY <2>1, StoreAssumption DEF IInv, LockOK, Procs
  <2>3. store' = store \/ store' = Remove(store, k)
    BY <1>8 DEF DeleteKey
  <2>4. CASE store' = Remove(store, k)
    <3>1. store'.data = [store.data EXCEPT ![k] = Absent] /\ store'.expiredKeys = store.expiredKeys
      BY <1>0, <2>2, <2>4, RemovalData
    <3>2. Cause(k)
      BY <2>1, <2>2, <3>1 DEF Cause
    <3> HIDE DEF k
    <3> QED  BY <1>0, <3>1, <3>2 DEF Justified, RecordMap
  <2> QED  BY <1>a, <2>3, <2>4
<1>9. ASSUME NEW p \in Procs, EvictStep(p) PROVE Justified
  <2>1. PICK v \in Victims(store.policy) : store' = EvictKey(store, v)
    BY <1>9 DEF EvictStep
  <2>2. v \in Keys /\ store.data[v] # Absent
    BY <1>0, VictimTracked, StoreParts DEF Good, Present, Victims
  <2>3. store'.evictedKeys = store.evictedKeys + 1
    BY <1>0, <2>1, <2>2, RemovalData DEF EvictKey
  <2> QED  BY <2>3 DEF Justified, Cause
<1>10. ASSUME SweepKey PROVE Justified
  <2>1. frame[Sweeper].rest \in SUBSET Keys
    BY <1>0, <1>10, FrameParts DEF SweepKey, Continue, Procs
  <2>2. PICK k \in Keys : store' = deleteIfExpired(store, k)
    BY <1>10, <2>1 DEF SweepKey
  <2> QED  BY <1>2, <2>2
<1>11. ASSUME NEW p \in Clients, SAdd(p) PROVE Justified
  <2>1. PICK k \in Keys, S \in SUBSET Members :
          LET s == deleteIfExpired(store, k)
          IN store' = s \/ (~ WrongType(s.data[k]) /\ store' = AddMembers(s, k, S))
    BY <1>11 DEF SAdd
  <2> DEFINE s == deleteIfExpired(store, k)
  <2>2. Good(s)
    BY <1>0, DeleteIfExpiredGood
  <2>3. store' = s \/ (~ WrongType(s.data[k]) /\ store' = AddMembers(s, k, S))
    BY <2>1
  <2>s. s = deleteIfExpired(store, k)
    OBVIOUS
  <2> HIDE DEF s
  <2>4. CASE ~ WrongType(s.data[k]) /\ store' = AddMembers(s, k, S)
    BY <1>1, <2>2, <2>4, <2>s, AddMembersSpares
  <2> QED  BY <1>2, <2>3, <2>4, <2>s
<1>12. ASSUME NEW p \in Clients, SRem(p) PROVE Justified
  <2>1. PICK k \in Keys, S \in SUBSET Members :
          LET s == deleteIfExpired(store, k)
          IN /\ issued' = issued + 1
             /\ \/ store' = s
                \/ /\ s.data[k] # Absent /\ ~ WrongType(s.data[k])
                   /\ store' = RemoveMembers(s, k, S)
                   /\ \E n : reply' = [reply EXCEPT ![p] = SetReply("SREM", k, S, n)]
    BY <1>12 DEF SRem, Call, Return, Answer
  <2> DEFINE s == deleteIfExpired(store, k)
  <2>2. Good(s)
    BY <1>0, DeleteIfExpiredGood
  <2>3. \/ store' = s
        \/ /\ s.data[k] # Absent /\ ~ WrongType(s.data[k])
           /\ store' = RemoveMembers(s, k, S)
           /\ \E n : reply' = [reply EXCEPT ![p] = SetReply("SREM", k, S, n)]
    BY <2>1
  <2>s. s = deleteIfExpired(store, k)
    OBVIOUS
  <2> HIDE DEF s
  <2>4. ASSUME s.data[k] # Absent, ~ WrongType(s.data[k]), store' = RemoveMembers(s, k, S),
               NEW n, reply' = [reply EXCEPT ![p] = SetReply("SREM", k, S, n)]
        PROVE  Justified
    <3>1. Spared(store', s, k) /\ store'.expiredKeys = s.expiredKeys
      BY <2>2, <2>4, RemoveMembersSpares
    <3>2. reply'[p].cmd = "SREM" /\ reply'[p].key = k
      BY <2>4 DEF RepliesTyped, SetReply, Procs
    <3>3. issued' # issued
      BY <2>1, SMT DEF IInv, TypeOK
    <3>4. ASSUME NEW x \in Keys, Live(x), store'.data[x] = Absent PROVE Cause(x)
      <4>1. s.data[x] = store.data[x] /\ (x = k => s = store)
        BY <1>0, <2>s, <3>4, DeleteIfExpiredData DEF Live
      <4>2. x = k
        BY <3>1, <3>4, <4>1 DEF Spared, Live
      <4> QED  BY <3>1, <3>2, <3>3, <4>1, <4>2 DEF Cause
    <3> QED  BY <3>4 DEF Justified
  <2> QED  BY <1>2, <2>3, <2>4, <2>s
<1>13. ASSUME NEW p \in Clients, SIsMember(p) \/ SMembers(p) PROVE Justified
  <2>1. PICK k \in Keys : store' = store \/ store' = notifyAccess(store, k)
    BY <1>13 DEF SIsMember, SMembers
  <2>2. store'.data = store.data
    BY <1>0, <2>1, NotifyData
  <2> QED  BY <2>2, SameDataIsJustified
<1>14. ASSUME NEW p, \/ Set(p) \/ Expire(p) \/ TTL(p) \/ TTLRemaining(p) \/ Delete(p)
                     \/ Exists(p) \/ ExistsKey(p) \/ ExistsDone(p) \/ DeleteDone(p)
                     \/ EvictDone(p) \/ StatsCounters(p) \/ Evict(p) \/ Stats(p)
       PROVE  Justified
  BY <1>a, <1>14 DEF Set, Expire, TTL, TTLRemaining, Delete, Exists, ExistsKey, ExistsDone,
     DeleteDone, EvictDone, StatsCounters, Evict, Stats
<1>15. CASE Sweep \/ SweepDone \/ Tick \/ UNCHANGED vars
  BY <1>a, <1>15 DEF Sweep, SweepDone, Tick, vars
<1> QED
  BY <1>3, <1>4, <1>5, <1>6, <1>7, <1>8, <1>9, <1>10, <1>11, <1>12, <1>13, <1>14, <1>15
  DEF Next, Begin, Waiting, Holding, Sweeping

\* A live key leaves the map only because DEL, EXPIRE or SREM names it or as a
\* counted eviction, never as an expiry: the second look at the deadline under
\* the lock makes it so, whatever was written since the first (string_value.go:199).
THEOREM NothingIsLostSilently == Spec => NoSilentLoss
<1>1. Init => RepliesTyped
  BY DEF Init, RepliesTyped
<1>2. Spec => []RepliesTyped
  BY <1>1, ReplyStep, PTL DEF Spec
<1>3. IInv /\ RepliesTyped /\ [Next]_vars =>
        [\A k \in Keys : Live(k) /\ store.data[k] # Absent /\ store'.data[k] = Absent =>
          \/ /\ writer # NoProc /\ frame[writer].at = "delete"
             /\ frame[writer].rest # <<>> /\ Head(frame[writer].rest) = k
             /\ store'.expiredKeys = store.expiredKeys
          \/ /\ issued' # issued /\ store'.expiredKeys = store.expiredKeys
             /\ \E p \in Clients : reply'[p].cmd = "SREM" /\ reply'[p].key = k
          \/ store'.evictedKeys = store.evictedKeys + 1]_vars
  BY LossStep DEF Justified, Cause
<1> QED  BY <1>2, <1>3, Invariance, PTL DEF Spec, NoSilentLoss

-----------------------------------------------------------------------------
(* The map the callers see                                                   *)

\* What a lookup sees of a record, what a map of records looks like, and what a
\* frame has asked for.
See(r) == IF r = Absent \/ isExpired(r) THEN Absent ELSE r
Seen(d) == [k \in Keys |-> See(d[k])]
Asked(f) == IF f.at \in {"set", "expire", "delete"} THEN f ELSE Idle

LEMMA ViewIs == View = Seen(store.data)
BY DEF View, Seen, See, Live

LEMMA ViewNext == ASSUME now' = now PROVE View' = Seen(store'.data)
BY DEF View, Seen, See, Live, isExpired

LEMMA PendingIs == ASSUME NEW p \in Procs PROVE Pending[p] = Asked(frame[p])
BY DEF Pending, Asked

LEMMA PendingNext ==
    ASSUME IInv, NEW p \in Procs, NEW f, Goto(p, f)
    PROVE  Pending' = [Pending EXCEPT ![p] = Asked(f)]
<1>1. \A q \in Procs : frame'[q] = IF q = p THEN f ELSE frame[q]
  BY DEF Goto, IInv, TypeOK
<1> QED  BY <1>1 DEF Pending, Asked

\* A write of one record shows at its key, and nowhere else.
LEMMA SeenPut ==
    ASSUME NEW d \in RecordMap, NEW k \in Keys, NEW r
    PROVE  Seen([d EXCEPT ![k] = r]) = [Seen(d) EXCEPT ![k] = See(r)]
BY DEF Seen, RecordMap

\* The removal of an expired record does not show at all.
LEMMA SeenAfterExpiry ==
    ASSUME NEW s, Good(s), NEW k \in Keys
    PROVE  Seen(deleteIfExpired(s, k).data) = Seen(s.data)
<1>1. CASE s.data[k] # Absent /\ isExpired(s.data[k])
  <2>1. removeExpired(s, k).data = [s.data EXCEPT ![k] = Absent] /\ s.data \in RecordMap
    BY <1>1, RemoveExpiredGood, StoreParts DEF Good
  <2>2. deleteIfExpired(s, k).data = [s.data EXCEPT ![k] = Absent]
    BY <1>1, <2>1 DEF deleteIfExpired
  <2>3. Seen(s.data)[k] = Absent /\ See(Absent) = Absent
    BY <1>1 DEF Seen, See
  <2> QED  BY <2>1, <2>2, <2>3, SeenPut DEF Seen
<1>2. CASE ~ (s.data[k] # Absent /\ isExpired(s.data[k]))
  BY <1>2 DEF deleteIfExpired
<1> QED  BY <1>1, <1>2

\* Once it is removed the map has what is seen of the key.
LEMMA LookAfterExpiry ==
    ASSUME NEW s, Good(s), NEW k \in Keys
    PROVE  deleteIfExpired(s, k).data[k] = See(s.data[k])
<1>1. CASE s.data[k] # Absent /\ isExpired(s.data[k])
  <2>1. removeExpired(s, k).data = [s.data EXCEPT ![k] = Absent] /\ s.data \in RecordMap
    BY <1>1, RemoveExpiredGood, StoreParts DEF Good
  <2> QED  BY <1>1, <2>1 DEF deleteIfExpired, See, RecordMap
<1>2. CASE ~ (s.data[k] # Absent /\ isExpired(s.data[k]))
  BY <1>2 DEF deleteIfExpired, See
<1> QED  BY <1>1, <1>2

\* A step nobody can see.
Unseen == Seen(store'.data) = Seen(store.data) /\ now' = now

LEMMA UnseenIs == ASSUME Unseen PROVE View' = View
BY ViewIs, ViewNext DEF Unseen

LEMMA Silent ==
    ASSUME IInv, NEW p \in Procs, NEW f, Goto(p, f), Asked(f) = Asked(frame[p]), Unseen,
           reply' = reply
    PROVE  UNCHANGED Map!avars
<1>1. Pending' = [Pending EXCEPT ![p] = Asked(f)]
  BY PendingNext
<1>2. Pending' = Pending
  <2>1. Asked(f) = Pending[p]
    BY PendingIs
  <2>2. Pending = [Pending EXCEPT ![p] = Pending[p]]
    BY Zenon DEF Pending
  <2> QED  BY <1>1, <2>1, <2>2
<1> QED  BY <1>2, UnseenIs DEF Map!avars, Unseen

\* A call that begins.
LEMMA Begins ==
    ASSUME IInv, NEW p \in Procs, NEW f, Answer(p, NoReply, f), Asked(frame[p]) = Idle,
           Unseen
    PROVE  Map!Ask(p)
<1>1. Pending' = [Pending EXCEPT ![p] = Asked(f)] /\ Pending[p] = Idle
  BY PendingNext, PendingIs DEF Answer
<1>2. Pending'[p] = Asked(f) /\ Asked(f).at \in {"idle", "set", "expire", "delete"}
  BY <1>1 DEF Pending, Asked, Idle
<1> QED
  BY <1>1, <1>2, UnseenIs DEF Map!Ask, Map!Pends, Map!Says, Map!None, Map!NoAnswer, Idle, NoReply,
     Answer, Unseen

\* A read that answers at once, or leaves only an expired record to delete.
LEMMA Reading ==
    ASSUME IInv, NEW p \in Procs, NEW r, NEW f, Answer(p, r, f), Asked(frame[p]) = Idle,
           Asked(f) = Idle, Unseen
    PROVE  Pending[p] = Map!None /\ Map!Reads /\ Map!Says(p, r)
<1>1. Pending' = [Pending EXCEPT ![p] = Asked(f)] /\ Pending[p] = Idle
  BY PendingNext, PendingIs DEF Answer
<1>2. Pending' = Pending
  BY <1>1 DEF Pending
<1> QED
  BY <1>1, <1>2, UnseenIs DEF Map!Reads, Map!Says, Map!None, Idle, Answer, Unseen

LEMMA SameData == ASSUME store'.data = store.data, now' = now PROVE Unseen
BY DEF Unseen

\* A record whose deadline TTL has read is still there when TTL reads the clock:
\* it holds the lock shared, and every change of the map needs it exclusively.
TTLHeld ==
    \A p \in Procs : frame[p].at = "ttl" =>
        /\ frame[p].ttl # 0 /\ store.data[frame[p].key] # Absent
        /\ store.data[frame[p].key].ttl = frame[p].ttl

\* A goroutine that moves to a point other than that between TTL's clock reads.
Moved(p) == \E f : Goto(p, f) /\ f.at # "ttl"

LEMMA HeldStep ==
    ASSUME IInv, TTLHeld, NEW p \in Procs, Moved(p),
           store'.data = store.data \/ \A q \in Procs : frame[q].at # "ttl"
    PROVE  TTLHeld'
<1>1. PICK f : Goto(p, f) /\ f.at # "ttl"
  BY DEF Moved
<1>2. \A q \in Procs : frame'[q] = IF q = p THEN f ELSE frame[q]
  BY <1>1 DEF Goto, IInv, TypeOK
<1>3. \A q \in Procs : frame'[q].at = "ttl" => frame'[q] = frame[q] /\ store'.data = store.data
  BY <1>1, <1>2
<1> QED  BY <1>3 DEF TTLHeld

\* Nobody is between TTL's clock reads when the lock is held exclusively.
LEMMA ExclusiveAlone ==
    ASSUME IInv, CanLock \/ \E p \in Procs : frame[p].at \in {"delete", "sweep", "evict"}
    PROVE  \A q \in Procs : frame[q].at # "ttl"
<1>1. readers = {}
  BY StoreAssumption DEF IInv, LockOK, CanLock, Procs
<1> QED  BY <1>1 DEF IInv, LockOK

LEMMA TTLHeldStep == IInv /\ TTLHeld /\ [Next]_vars => TTLHeld'
<1> SUFFICES ASSUME IInv, TTLHeld, [Next]_vars PROVE TTLHeld'
  OBVIOUS
<1>0. Good(store) /\ Clients \subseteq Procs /\ Sweeper \in Procs
  BY IInvGood DEF Procs
<1>1. ASSUME NEW p, NEW f, Answer(p, NoReply, f) \/ Goto(p, f), f.at # "ttl" PROVE Moved(p)
  BY <1>1 DEF Moved, Answer
<1>2. ASSUME NEW p, NEW r, Return(p, r) PROVE Moved(p)
  BY <1>2 DEF Moved, Return, Answer, Idle
<1>3. ASSUME NEW p, NEW r, NEW f, Answer(p, r, f), f.at # "ttl" PROVE Moved(p)
  BY <1>3 DEF Moved, Answer
<1>4. \A k, c : Lazy(k, c).at = "lazy" /\ Evicting(k).at = "evict"
  BY DEF Lazy, Evicting
<1>5. \A k, n : /\ KeyLoop("delete", k, n).at = "delete" /\ KeyLoop("exists", k, n).at = "exists"
  BY DEF KeyLoop
<1>6. ASSUME NEW p \in Clients, Set(p) \/ Expire(p) \/ Delete(p) \/ Exists(p) \/ Evict(p) \/ Stats(p)
      PROVE  TTLHeld'
  <2>1. Moved(p)
    BY <1>3, <1>4, <1>5, <1>6 DEF Set, Expire, Delete, Exists, Evict, Stats
  <2>2. store' = store
    BY <1>6 DEF Set, Expire, Delete, Exists, Evict, Stats
  <2> QED  BY <1>0, <2>1, <2>2, HeldStep
<1>7. ASSUME NEW p \in Clients, Get(p) \/ SIsMember(p) \/ SMembers(p) PROVE TTLHeld'
  <2>1. Moved(p)
    BY <1>2, <1>3, <1>4, <1>7 DEF Get, SIsMember, SMembers
  <2>2. store' = store \/ store' = Miss(store) \/ \E k : store' = notifyAccess(Hit(store), k)
        \/ \E x : store' = notifyAccess(store, x)
    BY <1>7 DEF Get, SIsMember, SMembers
  <2>3. Good(Hit(store)) /\ Hit(store).data = store.data /\ Miss(store).data = store.data
    BY <1>0, CountersGood, StoreParts, MissOf, DataOf DEF Good
  <2>4. store'.data = store.data
    BY <1>0, <2>2, <2>3, NotifyData
  <2> QED  BY <1>0, <2>1, <2>4, HeldStep
<1>8. ASSUME NEW p \in Clients, Incr(p) \/ SAdd(p) \/ SRem(p) \/ SetLocked(p) PROVE TTLHeld'
  <2>1. Moved(p)
    BY <1>1, <1>2, <1>3, <1>4, <1>8 DEF Incr, SAdd, SRem, SetLocked
  <2>2. CanLock
    BY <1>8 DEF Incr, SAdd, SRem, SetLocked, Lock
  <2> QED  BY <1>0, <2>1, <2>2, HeldStep, ExclusiveAlone
<1>9. ASSUME NEW p \in Clients, LazyDelete(p) \/ ExpireLocked(p) PROVE TTLHeld'
  <2>1. Moved(p)
    <3>1. Idle.at # "ttl"
      BY DEF Idle
    <3>2. \A n, l : KeyLoop("exists", l, n).at # "ttl"
      BY <1>5
    <3> QED  BY <1>1, <1>2, <1>9, <3>1, <3>2 DEF LazyDelete, ExpireLocked
  <2>2. CanLock
    BY <1>9 DEF LazyDelete, ExpireLocked
  <2> QED  BY <1>0, <2>1, <2>2, HeldStep, ExclusiveAlone
<1>10. ASSUME NEW p \in Clients, TTL(p) PROVE TTLHeld'
  <2>1. store' = store
    BY <1>10 DEF TTL
  <2>2. PICK k \in Keys :
           \/ Moved(p)
           \/ Live(k) /\ store.data[k].ttl # 0
              /\ Goto(p, [at |-> "ttl", key |-> k, ttl |-> store.data[k].ttl])
    BY <1>2, <1>3, <1>4, <1>10 DEF TTL, Answer
  <2>3. CASE Live(k) /\ store.data[k].ttl # 0
             /\ Goto(p, [at |-> "ttl", key |-> k, ttl |-> store.data[k].ttl])
    <3> DEFINE f == [at |-> "ttl", key |-> k, ttl |-> store.data[k].ttl]
    <3>1. \A q \in Procs : frame'[q] = IF q = p THEN f ELSE frame[q]
      BY <2>3 DEF Goto, IInv, TypeOK
    <3>2. f.key = k /\ f.ttl = store.data[k].ttl
      OBVIOUS
    <3> HIDE DEF f
    <3> QED  BY <2>1, <2>3, <3>1, <3>2 DEF TTLHeld, Live
  <2> QED  BY <1>0, <2>1, <2>2, <2>3, HeldStep
<1>11. ASSUME NEW p \in Procs, TTLRemaining(p) \/ DeleteDone(p) \/ EvictDone(p) \/ StatsCounters(p)
       PROVE  TTLHeld'
  <2>1. Moved(p)
    <3>1. Idle.at # "ttl"
      BY DEF Idle
    <3> QED  BY <1>1, <1>2, <1>3, <1>4, <1>11, <3>1 DEF TTLRemaining, DeleteDone, EvictDone, StatsCounters
  <2>2. store' = store
    BY <1>11 DEF TTLRemaining, DeleteDone, EvictDone, StatsCounters
  <2> QED  BY <2>1, <2>2, HeldStep
<1>12. ASSUME NEW p \in Clients, ExistsKey(p) \/ ExistsDone(p) PROVE TTLHeld'
  <2>1. Moved(p)
    BY <1>1, <1>2, <1>5, <1>12 DEF ExistsKey, ExistsDone
  <2>2. store' = store
    BY <1>12 DEF ExistsKey, ExistsDone
  <2> QED  BY <1>0, <2>1, <2>2, HeldStep
<1>13. ASSUME NEW p \in Procs, DeleteKey(p) \/ EvictStep(p) PROVE TTLHeld'
  <2>1. frame[p].at \in {"delete", "evict"}
    BY <1>13 DEF DeleteKey, EvictStep, Continue
  <2>2. CASE DeleteKey(p)
    <3>1. Moved(p)
      BY <1>1, <1>5, <2>2 DEF DeleteKey
    <3> QED  BY <2>1, <3>1, HeldStep, ExclusiveAlone
  <2>3. CASE EvictStep(p)
    <3>1. frame' = frame
      BY <2>3 DEF EvictStep
    <3> QED  BY <2>1, <3>1, ExclusiveAlone DEF TTLHeld
  <2> QED  BY <1>13, <2>2, <2>3
<1>14. CASE Sweep
  <2>1. Moved(Sweeper) /\ store' = store
    BY <1>1, <1>14 DEF Sweep
  <2> QED  BY <1>0, <2>1, HeldStep
<1>15. CASE SweepKey \/ SweepDone
  <2>1. frame[Sweeper].at = "sweep"
    BY <1>15 DEF SweepKey, SweepDone, Continue
  <2>2. ASSUME SweepKey PROVE Moved(Sweeper)
    <3>1. PICK k : Goto(Sweeper, [at |-> "sweep", rest |-> frame[Sweeper].rest \ {k}])
      BY <2>2 DEF SweepKey
    <3> DEFINE f == [at |-> "sweep", rest |-> frame[Sweeper].rest \ {k}]
    <3>2. f.at # "ttl"
      OBVIOUS
    <3> HIDE DEF f
    <3> QED  BY <3>1, <3>2 DEF Moved, f
  <2>3. ASSUME SweepDone PROVE Moved(Sweeper)
    BY <1>1, <1>4, <2>3 DEF SweepDone
  <2> QED  BY <1>0, <1>15, <2>1, <2>2, <2>3, HeldStep, ExclusiveAlone
<1>16. CASE Tick \/ UNCHANGED vars
  BY <1>16 DEF Tick, vars, TTLHeld
<1> QED
  BY <1>6, <1>7, <1>8, <1>9, <1>10, <1>11, <1>12, <1>13, <1>14, <1>15, <1>16
  DEF Next, Begin, Waiting, Holding, Sweeping

\* What a step of the store is to the callers: a step of their map, or nothing.
Matched == Map!ANext \/ UNCHANGED Map!avars

\* What a reply or a frame says, field by field.
LEMMA AskedParts ==
    /\ Asked(Idle) = Idle
    /\ \A k, c : Asked(Lazy(k, c)) = Idle
    /\ \A k : Asked(Evicting(k)) = Idle
    /\ \A l, n : Asked(KeyLoop("exists", l, n)) = Idle
    /\ \A l, n : Asked(KeyLoop("delete", l, n)) = KeyLoop("delete", l, n)
BY DEF Asked, Idle, Lazy, Evicting, KeyLoop

LEMMA IdleAsked ==
    ASSUME NEW p \in Procs, NEW c, Call(p, c)
    PROVE  Asked(frame[p]) = Idle /\ now' = now
BY DEF Call, Asked, Idle

\* The calls that only note their arguments, and those that only look.
LEMMA BeginStep ==
    ASSUME IInv, NEW p \in Clients,
           Set(p) \/ Expire(p) \/ Delete(p) \/ Exists(p) \/ Evict(p) \/ Stats(p)
    PROVE  Map!Ask(p)
<1>1. /\ Asked(frame[p]) = Idle /\ now' = now /\ store' = store
      /\ \E f : Answer(p, NoReply, f)
  BY IdleAsked DEF Set, Expire, Delete, Exists, Evict, Stats, Procs
<1> QED  BY <1>1, Begins, SameData DEF Procs

LEMMA GetStep == ASSUME IInv, NEW p \in Clients, Get(p) PROVE Map!GetNow(p)
<1>0. Good(store) /\ p \in Procs
  BY IInvGood DEF Procs
<1>1. PICK k \in Keys :
        \/ /\ ~ Expired(k) /\ ~ IsString(k)
           /\ store' = Miss(store)
           /\ Return(p, GetReply(k, Absent))
        \/ /\ Expired(k)
           /\ Answer(p, GetReply(k, Absent), Lazy(k, "GET"))
           /\ store' = store
        \/ /\ IsString(k)
           /\ store' = notifyAccess(Hit(store), k)
           /\ Return(p, GetReply(k, store.data[k].text))
  BY DEF Get
<1>2. Good(Hit(store)) /\ Hit(store).data = store.data /\ Miss(store).data = store.data
  BY <1>0, CountersGood, StoreParts, MissOf, DataOf DEF Good
<1>3. Asked(frame[p]) = Idle /\ now' = now
  BY <1>0, IdleAsked DEF Get
<1>4. Unseen
  BY <1>1, <1>2, <1>3, NotifyData, SameData
<1> DEFINE text == IF View[k] # Absent /\ View[k].type = "string" THEN View[k].text ELSE Absent
<1>5. \E f : Answer(p, GetReply(k, text), f) /\ Asked(f) = Idle
  <2>1. CASE IsString(k) /\ Return(p, GetReply(k, store.data[k].text))
    BY <2>1, AskedParts DEF Return, View, IsString, Live
  <2>2. CASE ~ IsString(k) /\ \E f : Answer(p, GetReply(k, Absent), f) /\ Asked(f) = Idle
    BY <2>2 DEF View, IsString, Live
  <2> QED  BY <1>1, <2>1, <2>2, AskedParts DEF Return, IsString, Live, Expired
<1>6. Pending[p] = Map!None /\ Map!Reads /\ Map!Says(p, GetReply(k, text))
  BY <1>0, <1>3, <1>4, <1>5, Reading
<1> QED  BY <1>6 DEF Map!GetNow, GetReply

LEMMA MembersStep == ASSUME IInv, NEW p \in Clients, SMembers(p) PROVE Map!MembersNow(p)
<1>0. Good(store) /\ p \in Procs
  BY IInvGood DEF Procs
<1>1. PICK k \in Keys :
        \/ /\ store.data[k] = Absent
           /\ Return(p, MembersReply(k, {})) /\ store' = store
        \/ /\ Expired(k)
           /\ Answer(p, MembersReply(k, {}), Lazy(k, "SMEMBERS")) /\ store' = store
        \/ /\ Live(k) /\ ~ IsSet(k)
           /\ Return(p, MembersReply(k, Absent)) /\ store' = store
        \/ /\ IsSet(k)
           /\ Return(p, MembersReply(k, store.data[k].members))
           /\ store' = notifyAccess(store, k)
  BY DEF SMembers
<1>3. Asked(frame[p]) = Idle /\ now' = now
  BY <1>0, IdleAsked DEF SMembers
<1>4. Unseen
  BY <1>0, <1>1, <1>3, NotifyData, SameData
<1> DEFINE S == IF Map!WrongType(View[k]) THEN Absent ELSE Map!MembersOf(View[k])
<1>5. \E f : Answer(p, MembersReply(k, S), f) /\ Asked(f) = Idle
  <2>1. CASE ~ Live(k) /\ \E f : Answer(p, MembersReply(k, {}), f) /\ Asked(f) = Idle
    BY <2>1 DEF View, Map!WrongType, Map!MembersOf
  <2>2. CASE Live(k) /\ ~ IsSet(k) /\ Return(p, MembersReply(k, Absent))
    BY <2>2, AskedParts DEF View, Map!WrongType, IsSet, Live, Return
  <2>3. CASE IsSet(k) /\ Return(p, MembersReply(k, store.data[k].members))
    BY <2>3, AskedParts DEF View, Map!WrongType, Map!MembersOf, IsSet, Live, Return
  <2> QED  BY <1>1, <2>1, <2>2, <2>3, AskedParts DEF Return, IsSet, Live, Expired
<1>6. Pending[p] = Map!None /\ Map!Reads /\ Map!Says(p, MembersReply(k, S))
  BY <1>0, <1>3, <1>4, <1>5, Reading
<1> QED  BY <1>6 DEF Map!MembersNow, MembersReply

LEMMA SameCardinality == \A S : Map!Cardinality(S) = Cardinality(S)
BY DEF Map!Cardinality, Cardinality

\* The four things a set command can do to the map.
LEMMA FoundNow ==
    ASSUME NEW p, NEW k \in Keys, NEW S \in (SUBSET Members) \ {{}}, ~ Map!WrongType(View[k]),
           Pending[p] = Map!None, now' = now, Pending' = Pending, View' = View,
           Map!SetAnswer(p, "SISMEMBER", k, S, Cardinality(S \cap Map!MembersOf(View[k])))
    PROVE  Map!SetCommandNow(p)
<1> USE DEF Map!SetCommandNow
<1> WITNESS k \in Keys, S \in (SUBSET Members) \ {{}}
<1> QED  BY SameCardinality

LEMMA RefusedNow ==
    ASSUME NEW p, NEW k \in Keys, NEW S \in (SUBSET Members) \ {{}}, Map!WrongType(View[k]),
           Pending[p] = Map!None, now' = now, Pending' = Pending, View' = View,
           NEW c \in {"SADD", "SREM", "SISMEMBER"}, Map!SetAnswer(p, c, k, S, Absent)
    PROVE  Map!SetCommandNow(p)
<1> USE DEF Map!SetCommandNow
<1> WITNESS k \in Keys, S \in (SUBSET Members) \ {{}}
<1> QED  OBVIOUS

\* The record a set command leaves when the members become T.
BecomesSet(T, r) == IF T = {} THEN Absent ELSE SetValue(T, IF r = Absent THEN 0 ELSE r.ttl)

LEMMA AddedNow ==
    ASSUME NEW p, NEW k \in Keys, NEW S \in (SUBSET Members) \ {{}}, ~ Map!WrongType(View[k]),
           Pending[p] = Map!None, now' = now, Pending' = Pending,
           View' = [View EXCEPT ![k] = BecomesSet(Map!MembersOf(View[k]) \union S, View[k])],
           Map!SetAnswer(p, "SADD", k, S, Cardinality(S \ Map!MembersOf(View[k])))
    PROVE  Map!SetCommandNow(p)
<1> USE DEF Map!SetCommandNow
<1> WITNESS k \in Keys, S \in (SUBSET Members) \ {{}}
<1> QED  BY SameCardinality DEF BecomesSet, Map!SetValue, SetValue

LEMMA RemovedNow ==
    ASSUME NEW p, NEW k \in Keys, NEW S \in (SUBSET Members) \ {{}}, ~ Map!WrongType(View[k]),
           Pending[p] = Map!None, now' = now, Pending' = Pending,
           View' = [View EXCEPT ![k] = BecomesSet(Map!MembersOf(View[k]) \ S, View[k])],
           Map!SetAnswer(p, "SREM", k, S, Cardinality(S \cap Map!MembersOf(View[k])))
    PROVE  Map!SetCommandNow(p)
<1> USE DEF Map!SetCommandNow
<1> WITNESS k \in Keys, S \in (SUBSET Members) \ {{}}
<1> QED  BY SameCardinality DEF BecomesSet, Map!SetValue, SetValue

LEMMA IsMemberStep == ASSUME IInv, NEW p \in Clients, SIsMember(p) PROVE Map!SetCommandNow(p)
<1>0. Good(store) /\ p \in Procs
  BY IInvGood DEF Procs
<1>1. PICK k \in Keys, m \in Members :
        \/ /\ store.data[k] = Absent
           /\ Return(p, SetReply("SISMEMBER", k, {m}, 0)) /\ store' = store
        \/ /\ Expired(k)
           /\ Answer(p, SetReply("SISMEMBER", k, {m}, 0), Lazy(k, "SISMEMBER")) /\ store' = store
        \/ /\ Live(k) /\ ~ IsSet(k)
           /\ Return(p, SetReply("SISMEMBER", k, {m}, Absent)) /\ store' = store
        \/ /\ IsSet(k)
           /\ Return(p, SetReply("SISMEMBER", k, {m}, IF m \in store.data[k].members THEN 1 ELSE 0))
           /\ store' = notifyAccess(store, k)
  BY DEF SIsMember
<1>3. Asked(frame[p]) = Idle /\ now' = now
  BY <1>0, IdleAsked DEF SIsMember
<1>4. Unseen
  BY <1>0, <1>1, <1>3, NotifyData, SameData
<1> DEFINE old == Map!MembersOf(View[k])
           n == IF Map!WrongType(View[k]) THEN Absent ELSE Cardinality({m} \cap old)
<1>5. Cardinality({m} \cap old) = IF m \in old THEN 1 ELSE 0
  <2>1. CASE m \in old
    <3>1. {m} \cap old = {m}
      BY <2>1
    <3> QED  BY <2>1, <3>1, FS_Singleton
  <2>2. CASE m \notin old
    <3>1. {m} \cap old = {}
      BY <2>2
    <3> QED  BY <2>2, <3>1, FS_EmptySet
  <2> QED  BY <2>1, <2>2
<1>6. \E f : Answer(p, SetReply("SISMEMBER", k, {m}, n), f) /\ Asked(f) = Idle
  <2>1. CASE ~ Live(k) /\ \E f : Answer(p, SetReply("SISMEMBER", k, {m}, 0), f) /\ Asked(f) = Idle
    <3>1. View[k] = Absent
      BY <2>1 DEF View
    <3>2. n = 0
      BY <1>5, <3>1 DEF Map!WrongType, Map!MembersOf
    <3> HIDE DEF n
    <3> QED  BY <2>1, <3>2
  <2>2. CASE Live(k) /\ ~ IsSet(k) /\ Return(p, SetReply("SISMEMBER", k, {m}, Absent))
    <3>1. n = Absent
      BY <2>2 DEF View, Map!WrongType, IsSet, Live
    <3> HIDE DEF n
    <3> QED  BY <2>2, <3>1, AskedParts DEF Return
  <2>3. CASE IsSet(k) /\ Return(p, SetReply("SISMEMBER", k, {m}, IF m \in store.data[k].members THEN 1 ELSE 0))
    <3>1. n = IF m \in store.data[k].members THEN 1 ELSE 0
      BY <1>5, <2>3 DEF View, Map!WrongType, Map!MembersOf, IsSet, Live
    <3> HIDE DEF n
    <3> QED  BY <2>3, <3>1, AskedParts DEF Return
  <2> QED  BY <1>1, <2>1, <2>2, <2>3, AskedParts DEF Return, IsSet, Live, Expired
<1>7. Pending[p] = Map!None /\ Map!Reads /\ Map!Says(p, SetReply("SISMEMBER", k, {m}, n))
  BY <1>0, <1>3, <1>4, <1>6, Reading
<1>8. {m} \in (SUBSET Members) \ {{}}
  OBVIOUS
<1>9. Map!SetAnswer(p, "SISMEMBER", k, {m}, n) /\ View' = View /\ now' = now /\ Pending' = Pending
  BY <1>7 DEF Map!SetAnswer, SetReply, Map!Reads
<1>10. CASE Map!WrongType(View[k])
  <2>1. Map!SetAnswer(p, "SISMEMBER", k, {m}, Absent)
    BY <1>9, <1>10
  <2> QED  BY <1>7, <1>8, <1>9, <1>10, <2>1, Zenon DEF Map!SetCommandNow
<1>11. CASE ~ Map!WrongType(View[k])
  <2>1. Map!SetAnswer(p, "SISMEMBER", k, {m}, Cardinality({m} \cap Map!MembersOf(View[k])))
    BY <1>9, <1>11
  <2> QED  BY <1>7, <1>8, <1>9, <1>11, <2>1, FoundNow
<1> QED  BY <1>10, <1>11

\* How the map changes with the writes.
LEMMA WriteData ==
    ASSUME NEW s, Good(s), NEW k \in Keys, NEW r
    PROVE  Write(s, k, r).data = [deleteIfExpired(s, k).data EXCEPT ![k] = r]
<1> DEFINE t == deleteIfExpired(s, k)
<1>1. Good(t)
  BY DeleteIfExpiredGood
<1>2. Write(s, k, r) = IF t.data[k] = Absent THEN trackInsert(Put(t, k, r), k, r)
                       ELSE trackOverwrite(Put(t, k, r), k, t.data[k], r)
  BY DEF Write
<1> HIDE DEF t
<1> QED  BY <1>1, <1>2, ReplaceData DEF trackOverwrite, t

LEMMA ChangedAt ==
    ASSUME NEW k \in Keys, NEW r, NEW s, Good(s), Seen(s.data) = Seen(store.data),
           store'.data = [s.data EXCEPT ![k] = r], now' = now
    PROVE  View' = [View EXCEPT ![k] = See(r)]
<1>1. s.data \in RecordMap
  BY StoreParts DEF Good
<1>2. Seen(store'.data) = [Seen(s.data) EXCEPT ![k] = See(r)]
  BY <1>1, SeenPut
<1> QED  BY <1>2, ViewIs, ViewNext

\* A record with the deadline of what was seen there is seen.
LEMMA SeeKept ==
    ASSUME NEW k \in Keys, NEW r, r.ttl = IF View[k] = Absent THEN 0 ELSE View[k].ttl
    PROVE  See(r) = r
<1>1. View[k] # Absent => ~ isExpired(View[k])
  BY DEF View, Live
<1> QED  BY <1>1 DEF See, isExpired

LEMMA AddMembersData ==
    ASSUME NEW s, Good(s), NEW k \in Keys, NEW S \in (SUBSET Members) \ {{}},
           ~ WrongType(s.data[k])
    PROVE  AddMembers(s, k, S).data
             = [s.data EXCEPT ![k] = BecomesSet(Map!MembersOf(s.data[k]) \union S, s.data[k])]
<1> DEFINE q == s.data[k]
<1>0. ~ (Map!MembersOf(q) \union S = {})
  OBVIOUS
<1>1. CASE q = Absent
  <2>1. AddMembers(s, k, S) = trackInsert(Put(s, k, SetValue(S, 0)), k, SetValue(S, 0))
    BY <1>1 DEF AddMembers
  <2>2. AddMembers(s, k, S).data = [s.data EXCEPT ![k] = SetValue(S, 0)]
    BY <2>1, ReplaceData
  <2>3. BecomesSet(Map!MembersOf(q) \union S, q) = SetValue(S, 0)
    BY <1>0, <1>1 DEF BecomesSet, Map!MembersOf
  <2> QED  BY <2>2, <2>3
<1>2. CASE q # Absent
  <2> DEFINE r == [q EXCEPT !.members = q.members \union S]
  <2>1. q \in SetRecord
    BY <1>2, StoreParts DEF Good, RecordMap, WrongType, Record, StringRecord, SetRecord
  <2>2. r = BecomesSet(Map!MembersOf(q) \union S, q)
    BY <1>0, <1>2, <2>1 DEF BecomesSet, Map!MembersOf, SetRecord, SetValue
  <2>3. AddMembers(s, k, S) = notifyAccess(accountMemory(Put(s, k, r), membersSize(S \ q.members)), k)
    BY <1>2 DEF AddMembers
  <2> HIDE DEF r
  <2>4. AddMembers(s, k, S).data = [s.data EXCEPT ![k] = r]
    BY <2>3, ReplaceData
  <2> QED  BY <2>2, <2>4
<1> QED  BY <1>1, <1>2

LEMMA RemoveMembersData ==
    ASSUME NEW s, Good(s), NEW k \in Keys, NEW S \in SUBSET Members,
           s.data[k] # Absent, ~ WrongType(s.data[k])
    PROVE  RemoveMembers(s, k, S).data
             = [s.data EXCEPT ![k] = BecomesSet(s.data[k].members \ S, s.data[k])]
<1> DEFINE q == s.data[k]
           r == [q EXCEPT !.members = q.members \ S]
           t == TakeMembers(s, k, S)
<1>1. q \in SetRecord /\ s.data \in RecordMap
  BY StoreParts DEF Good, RecordMap, WrongType, Record, StringRecord, SetRecord
<1>2. r.members = q.members \ S /\ r = SetValue(q.members \ S, q.ttl)
  BY <1>1 DEF SetRecord, SetValue
<1>3. t = accountMemory(Put(s, k, r), -membersSize(q.members \cap S)) /\ Good(t)
  BY TakeMembersGood DEF TakeMembers
<1>4. RemoveMembers(s, k, S) = IF t.data[k].members = {} THEN Remove(t, k) ELSE notifyAccess(t, k)
  BY DEF RemoveMembers
<1> HIDE DEF t, r
<1>5. t.data = [s.data EXCEPT ![k] = r]
  BY <1>3, ReplaceData
<1>6. t.data[k] = r
  BY <1>1, <1>5 DEF RecordMap
<1>7. CASE q.members \ S = {}
  <2>1. RemoveMembers(s, k, S).data = [t.data EXCEPT ![k] = Absent]
    <3>1. t.data[k].members = {}
      BY <1>2, <1>6, <1>7
    <3>2. RemoveMembers(s, k, S) = Remove(t, k)
      BY <1>4, <3>1
    <3> QED  BY <1>3, <3>2, RemovalData, SMTT(30)
  <2> QED  BY <1>1, <1>5, <1>7, <2>1 DEF BecomesSet, RecordMap
<1>8. CASE q.members \ S # {}
  <2>1. RemoveMembers(s, k, S).data = t.data
    <3>1. t.data[k].members # {}
      BY <1>2, <1>6, <1>8
    <3>2. RemoveMembers(s, k, S) = notifyAccess(t, k)
      BY <1>4, <3>1
    <3> QED  BY <1>3, <3>2, NotifyData
  <2> QED  BY <1>2, <1>5, <1>8, <2>1 DEF BecomesSet
<1> QED  BY <1>7, <1>8

\* A call that changes the map and answers in one step.
LEMMA Answers ==
    ASSUME IInv, NEW p \in Procs, NEW r, NEW f, Answer(p, r, f), Asked(frame[p]) = Idle,
           Asked(f) = Idle
    PROVE  Pending[p] = Map!None /\ Pending' = Pending /\ Map!Says(p, r)
<1>1. Pending' = [Pending EXCEPT ![p] = Asked(f)] /\ Pending[p] = Idle
  BY PendingNext, PendingIs DEF Answer
<1>2. Pending' = Pending
  BY <1>1 DEF Pending
<1> QED  BY <1>1, <1>2 DEF Map!Says, Map!None, Idle, Answer

LEMMA AddStep == ASSUME IInv, NEW p \in Clients, SAdd(p) PROVE Map!SetCommandNow(p)
<1>0. Good(store) /\ p \in Procs
  BY IInvGood DEF Procs
<1>1. PICK k \in Keys, S \in SUBSET Members :
        LET s == deleteIfExpired(store, k)
            r == s.data[k]
            old == IF r = Absent THEN {} ELSE r.members
        IN /\ S # {}
           /\ \/ /\ WrongType(r)
                 /\ store' = s
                 /\ Return(p, SetReply("SADD", k, S, Absent))
              \/ /\ ~ WrongType(r)
                 /\ store' = AddMembers(s, k, S)
                 /\ Answer(p, SetReply("SADD", k, S, Cardinality(S \ old)), Evicting(k))
  BY DEF SAdd
<1> DEFINE s == deleteIfExpired(store, k)
           r == s.data[k]
           old == Map!MembersOf(r)
<1>2. Good(s) /\ r = View[k] /\ Seen(s.data) = Seen(store.data)
  BY <1>0, DeleteIfExpiredGood, SeenAfterExpiry, LookAfterExpiry, ViewIs DEF Seen
<1>3. Asked(frame[p]) = Idle /\ now' = now /\ S \in (SUBSET Members) \ {{}}
  BY <1>0, <1>1, IdleAsked DEF SAdd
<1>4. \/ /\ WrongType(r)
         /\ store' = s
         /\ Return(p, SetReply("SADD", k, S, Absent))
      \/ /\ ~ WrongType(r)
         /\ store' = AddMembers(s, k, S)
         /\ Answer(p, SetReply("SADD", k, S, Cardinality(S \ old)), Evicting(k))
  BY <1>1 DEF Map!MembersOf
<1> HIDE DEF s
<1>5. CASE /\ WrongType(r)
           /\ store' = s
           /\ Return(p, SetReply("SADD", k, S, Absent))
  <2>1. View' = View
    BY <1>2, <1>3, <1>5, UnseenIs DEF Unseen
  <2>2. Pending[p] = Map!None /\ Pending' = Pending /\ Map!Says(p, SetReply("SADD", k, S, Absent))
    BY <1>0, <1>3, <1>5, Answers, AskedParts DEF Return
  <2>3. Map!SetAnswer(p, "SADD", k, S, Absent)
    BY <2>2 DEF Map!SetAnswer, SetReply
  <2>4. Map!WrongType(View[k])
    BY <1>2, <1>5 DEF WrongType, Map!WrongType
  <2> QED  BY <1>3, <2>1, <2>2, <2>3, <2>4, RefusedNow
<1>6. CASE /\ ~ WrongType(r)
           /\ store' = AddMembers(s, k, S)
           /\ Answer(p, SetReply("SADD", k, S, Cardinality(S \ old)), Evicting(k))
  <2> DEFINE q == BecomesSet(old \union S, r)
  <2>1. store'.data = [s.data EXCEPT ![k] = q]
    BY <1>2, <1>3, <1>6, AddMembersData
  <2>2. q.ttl = IF View[k] = Absent THEN 0 ELSE View[k].ttl
    BY <1>2, <1>3 DEF BecomesSet, SetValue
  <2> HIDE DEF q
  <2>3. View' = [View EXCEPT ![k] = q]
    BY <1>2, <1>3, <2>1, <2>2, ChangedAt, SeeKept
  <2>4. Pending[p] = Map!None /\ Pending' = Pending
        /\ Map!Says(p, SetReply("SADD", k, S, Cardinality(S \ old)))
    BY <1>0, <1>3, <1>6, Answers, AskedParts
  <2>5. Map!SetAnswer(p, "SADD", k, S, Cardinality(S \ old))
    BY <2>4 DEF Map!SetAnswer, SetReply
  <2>6. ~ Map!WrongType(View[k])
    BY <1>2, <1>6 DEF WrongType, Map!WrongType
  <2> QED  BY <1>2, <1>3, <2>3, <2>4, <2>5, <2>6, AddedNow DEF q
<1> QED  BY <1>4, <1>5, <1>6

LEMMA RemStep == ASSUME IInv, NEW p \in Clients, SRem(p) PROVE Map!SetCommandNow(p)
<1>0. Good(store) /\ p \in Procs
  BY IInvGood DEF Procs
<1>1. PICK k \in Keys, S \in SUBSET Members :
        LET s == deleteIfExpired(store, k)
            r == s.data[k]
        IN /\ S # {}
           /\ \/ /\ r = Absent
                 /\ store' = s
                 /\ Return(p, SetReply("SREM", k, S, 0))
              \/ /\ WrongType(r)
                 /\ store' = s
                 /\ Return(p, SetReply("SREM", k, S, Absent))
              \/ /\ r # Absent /\ ~ WrongType(r)
                 /\ store' = RemoveMembers(s, k, S)
                 /\ Return(p, SetReply("SREM", k, S, Cardinality(S \cap r.members)))
  BY DEF SRem
<1> DEFINE s == deleteIfExpired(store, k)
           r == s.data[k]
           old == Map!MembersOf(r)
<1>2. Good(s) /\ r = View[k] /\ Seen(s.data) = Seen(store.data)
  BY <1>0, DeleteIfExpiredGood, SeenAfterExpiry, LookAfterExpiry, ViewIs DEF Seen
<1>3. Asked(frame[p]) = Idle /\ now' = now /\ S \in (SUBSET Members) \ {{}}
  BY <1>0, <1>1, IdleAsked DEF SRem
<1>4. \/ /\ r = Absent
         /\ store' = s
         /\ Return(p, SetReply("SREM", k, S, 0))
      \/ /\ WrongType(r)
         /\ store' = s
         /\ Return(p, SetReply("SREM", k, S, Absent))
      \/ /\ r # Absent /\ ~ WrongType(r)
         /\ store' = RemoveMembers(s, k, S)
         /\ Return(p, SetReply("SREM", k, S, Cardinality(S \cap r.members)))
  BY <1>1
<1> HIDE DEF s
<1>5. CASE /\ WrongType(r)
           /\ store' = s
           /\ Return(p, SetReply("SREM", k, S, Absent))
  <2>1. View' = View
    BY <1>2, <1>3, <1>5, UnseenIs DEF Unseen
  <2>2. Pending[p] = Map!None /\ Pending' = Pending /\ Map!Says(p, SetReply("SREM", k, S, Absent))
    BY <1>0, <1>3, <1>5, Answers, AskedParts DEF Return
  <2>3. Map!SetAnswer(p, "SREM", k, S, Absent)
    BY <2>2 DEF Map!SetAnswer, SetReply
  <2>4. Map!WrongType(View[k])
    BY <1>2, <1>5 DEF WrongType, Map!WrongType
  <2> QED  BY <1>3, <2>1, <2>2, <2>3, <2>4, RefusedNow
<1>6. CASE /\ r = Absent
           /\ store' = s
           /\ Return(p, SetReply("SREM", k, S, 0))
  <2>1. View' = View /\ View[k] = Absent
    BY <1>2, <1>3, <1>6, UnseenIs DEF Unseen
  <2>2. old = {} /\ BecomesSet(old \ S, r) = Absent /\ Cardinality(S \cap old) = 0
    BY <1>6, FS_EmptySet DEF Map!MembersOf, BecomesSet
  <2>3. View' = [View EXCEPT ![k] = BecomesSet(old \ S, r)]
    BY <2>1, <2>2 DEF View
  <2>4. Pending[p] = Map!None /\ Pending' = Pending /\ Map!Says(p, SetReply("SREM", k, S, 0))
    BY <1>0, <1>3, <1>6, Answers, AskedParts DEF Return
  <2>5. Map!SetAnswer(p, "SREM", k, S, Cardinality(S \cap old))
    BY <2>2, <2>4 DEF Map!SetAnswer, SetReply
  <2>6. ~ Map!WrongType(View[k])
    BY <2>1 DEF Map!WrongType
  <2> QED  BY <1>2, <1>3, <2>3, <2>4, <2>5, <2>6, RemovedNow
<1>7. CASE /\ r # Absent /\ ~ WrongType(r)
           /\ store' = RemoveMembers(s, k, S)
           /\ Return(p, SetReply("SREM", k, S, Cardinality(S \cap r.members)))
  <2> DEFINE q == BecomesSet(old \ S, r)
  <2>0. old = r.members
    BY <1>7 DEF Map!MembersOf
  <2>1. store'.data = [s.data EXCEPT ![k] = q]
    <3>1. q = BecomesSet(r.members \ S, r)
      BY <2>0
    <3>2. RemoveMembers(s, k, S).data
            = [s.data EXCEPT ![k] = BecomesSet(s.data[k].members \ S, s.data[k])]
      <4>1. Good(s) /\ S \in SUBSET Members /\ s.data[k] # Absent /\ ~ WrongType(s.data[k])
        BY <1>2, <1>3, <1>7
      <4> QED  BY <4>1, RemoveMembersData
    <3> QED  BY <1>7, <3>1, <3>2
  <2>2. See(q) = q
    <3>1. CASE old \ S = {}
      BY <3>1 DEF BecomesSet, See
    <3>2. CASE old \ S # {}
      <4>1. q.ttl = IF View[k] = Absent THEN 0 ELSE View[k].ttl
        BY <1>2, <3>2 DEF BecomesSet, SetValue
      <4> HIDE DEF q
      <4> QED  BY <4>1, SeeKept
    <3> QED  BY <3>1, <3>2
  <2> HIDE DEF q
  <2>3. View' = [View EXCEPT ![k] = q]
    BY <1>2, <1>3, <2>1, <2>2, ChangedAt
  <2>4. Pending[p] = Map!None /\ Pending' = Pending
        /\ Map!Says(p, SetReply("SREM", k, S, Cardinality(S \cap old)))
    BY <1>0, <1>3, <1>7, <2>0, Answers, AskedParts DEF Return
  <2>5. Map!SetAnswer(p, "SREM", k, S, Cardinality(S \cap old))
    BY <2>4 DEF Map!SetAnswer, SetReply
  <2>6. ~ Map!WrongType(View[k])
    BY <1>2, <1>7 DEF WrongType, Map!WrongType
  <2> QED  BY <1>2, <1>3, <2>3, <2>4, <2>5, <2>6, RemovedNow DEF q
<1> QED  BY <1>4, <1>5, <1>6, <1>7

LEMMA IncrStep == ASSUME IInv, NEW p \in Clients, Incr(p) PROVE Map!IncrNow(p)
<1>0. Good(store) /\ p \in Procs
  BY IInvGood DEF Procs
<1>1. PICK k \in Keys :
        LET s == deleteIfExpired(store, k)
            r == s.data[k]
            n == IF r = Absent THEN 0
                 ELSE IF r.type = "string" THEN ParseInt[r.text] ELSE NotANumber
            next == FormatInt[Increment(n)]
        IN \/ /\ n = NotANumber
              /\ store' = s
              /\ Return(p, IncrReply(k, Absent))
           \/ /\ n # NotANumber
              /\ store' = Write(s, k, StringValue(next, IF r = Absent THEN 0 ELSE r.ttl))
              /\ Answer(p, IncrReply(k, next), Evicting(k))
  BY DEF Incr
<1> DEFINE s == deleteIfExpired(store, k)
           v == View[k]
           n == IF v = Absent THEN 0
                ELSE IF v.type # "string" THEN NotANumber ELSE ParseInt[v.text]
           next == FormatInt[Increment(n)]
           q == StringValue(next, IF v = Absent THEN 0 ELSE v.ttl)
<1>2. Good(s) /\ s.data[k] = v /\ Seen(s.data) = Seen(store.data)
  BY <1>0, DeleteIfExpiredGood, SeenAfterExpiry, LookAfterExpiry, ViewIs DEF Seen
<1>3. Asked(frame[p]) = Idle /\ now' = now
  BY <1>0, IdleAsked DEF Incr
<1>4. \/ /\ n = NotANumber
         /\ store' = s
         /\ Return(p, IncrReply(k, Absent))
      \/ /\ n # NotANumber
         /\ store' = Write(s, k, q)
         /\ Answer(p, IncrReply(k, next), Evicting(k))
  BY <1>1, <1>2
<1> HIDE DEF s
<1>5. CASE /\ n = NotANumber
           /\ store' = s
           /\ Return(p, IncrReply(k, Absent))
  <2>1. View' = View
    BY <1>2, <1>3, <1>5, UnseenIs DEF Unseen
  <2>2. Pending[p] = Map!None /\ Pending' = Pending /\ Map!Says(p, IncrReply(k, Absent))
    BY <1>0, <1>3, <1>5, Answers, AskedParts DEF Return
  <2>3. Map!Says(p, [cmd |-> "INCR", key |-> k, text |-> Absent])
    BY <2>2 DEF IncrReply
  <2> USE DEF Map!IncrNow
  <2> WITNESS k \in Keys
  <2> QED  BY <1>3, <1>5, <2>1, <2>2, <2>3
<1>6. CASE /\ n # NotANumber
           /\ store' = Write(s, k, q)
           /\ Answer(p, IncrReply(k, next), Evicting(k))
  <2>1. Good(deleteIfExpired(s, k)) /\ Seen(deleteIfExpired(s, k).data) = Seen(store.data)
    BY <1>2, DeleteIfExpiredGood, SeenAfterExpiry
  <2>2. store'.data = [deleteIfExpired(s, k).data EXCEPT ![k] = q]
    BY <1>2, <1>6, WriteData
  <2>3. See(q) = q
    <3>1. q.ttl = IF View[k] = Absent THEN 0 ELSE View[k].ttl
      BY DEF StringValue
    <3> HIDE DEF q
    <3> QED  BY <3>1, SeeKept
  <2> HIDE DEF q
  <2>4. View' = [View EXCEPT ![k] = q]
    BY <1>3, <2>1, <2>2, <2>3, ChangedAt
  <2>5. Pending[p] = Map!None /\ Pending' = Pending /\ Map!Says(p, IncrReply(k, next))
    BY <1>0, <1>3, <1>6, Answers, AskedParts
  <2>6. Map!Says(p, [cmd |-> "INCR", key |-> k, text |-> next])
    BY <2>5 DEF IncrReply
  <2>7. View' = [View EXCEPT ![k] = Map!StringValue(next, IF @ = Absent THEN 0 ELSE @.ttl)]
    BY <2>4 DEF q, Map!StringValue, StringValue
  <2>8. next = FormatInt[Map!Increment(n)]
    BY DEF Map!Increment, Increment
  <2> HIDE DEF next
  <2> USE DEF Map!IncrNow
  <2> WITNESS k \in Keys
  <2> QED  BY <1>3, <1>6, <2>5, <2>6, <2>7, <2>8
<1> QED  BY <1>4, <1>5, <1>6

\* The steps that change the map as their frame asks.
LEMMA PutStep == ASSUME IInv, NEW p \in Clients, SetLocked(p) PROVE Map!PutNow(p)
<1>0. Good(store) /\ p \in Procs /\ frame[p] \in Frames
  BY IInvGood DEF Procs, IInv, TypeOK
<1> DEFINE k == frame[p].key
           r == frame[p].record
<1>1. /\ frame[p].at = "set" /\ now' = now /\ reply' = reply
      /\ store' = Write(store, k, r) /\ Goto(p, Evicting(k))
  BY DEF SetLocked, Continue
<1>2. k \in Keys
  BY <1>0, <1>1, FrameParts
<1>3. Pending[p] = frame[p] /\ Pending' = [Pending EXCEPT ![p] = Idle]
  BY <1>0, <1>1, PendingIs, PendingNext, AskedParts DEF Asked
<1>4. Good(deleteIfExpired(store, k)) /\ Seen(deleteIfExpired(store, k).data) = Seen(store.data)
      /\ store'.data = [deleteIfExpired(store, k).data EXCEPT ![k] = r]
  BY <1>0, <1>1, <1>2, DeleteIfExpiredGood, SeenAfterExpiry, WriteData
<1>5. View' = [View EXCEPT ![k] = See(r)]
  BY <1>1, <1>2, <1>4, ChangedAt
<1>6. See(r) = Map!Visible(r)
  BY DEF See, isExpired, Map!Visible, Map!Lapsed
<1> QED  BY <1>1, <1>3, <1>5, <1>6 DEF Map!PutNow, Map!Pends, Map!None, Idle

LEMMA ExpireStep == ASSUME IInv, NEW p \in Clients, ExpireLocked(p) PROVE Map!ExpireNow(p)
<1>0. Good(store) /\ p \in Procs /\ frame[p] \in Frames
  BY IInvGood DEF Procs, IInv, TypeOK
<1> DEFINE k == frame[p].key
           s == deleteIfExpired(store, k)
           t == [s EXCEPT !.data[k].ttl = frame[p].ttl]
<1>1. /\ frame[p].at = "expire" /\ now' = now
      /\ \/ s.data[k] = Absent /\ store' = s /\ Return(p, CountReply(0))
         \/ s.data[k] # Absent /\ store' = notifyAccess(t, k) /\ Return(p, CountReply(1))
  BY DEF ExpireLocked, Continue
<1>2. k \in Keys /\ frame[p].ttl \in Nat
  BY <1>0, <1>1, FrameParts
<1>3. Pending[p] = frame[p] /\ (Goto(p, Idle) => Pending' = [Pending EXCEPT ![p] = Idle])
  BY <1>0, <1>1, PendingIs, PendingNext, AskedParts DEF Asked
<1>4. Good(s) /\ s.data[k] = View[k] /\ Seen(s.data) = Seen(store.data)
  BY <1>0, <1>2, DeleteIfExpiredGood, SeenAfterExpiry, LookAfterExpiry, ViewIs DEF Seen
<1>s. s = deleteIfExpired(store, k)
  OBVIOUS
<1> HIDE DEF s
<1>5. CASE s.data[k] = Absent /\ store' = s /\ Return(p, CountReply(0))
  <2>1. View' = View
    BY <1>1, <1>4, <1>5, UnseenIs DEF Unseen
  <2> QED
    BY <1>1, <1>3, <1>4, <1>5, <2>1
    DEF Map!ExpireNow, Map!Pends, Map!Says, Map!None, Idle, Return, Answer, CountReply
<1>6. CASE s.data[k] # Absent /\ store' = notifyAccess(t, k) /\ Return(p, CountReply(1))
  <2> DEFINE r == [s.data[k] EXCEPT !.ttl = frame[p].ttl]
  <2>1. Good(t)
    BY <1>2, <1>4, <1>6, DeadlineGood
  <2>2. t = Put(s, k, r)
    BY DEF Put
  <2> HIDE DEF t
  <2>3. t.data = [s.data EXCEPT ![k] = r]
    BY <1>2, <1>4, <2>2, ReplaceData
  <2>4. store'.data = [s.data EXCEPT ![k] = r]
    BY <1>6, <2>1, <2>3, NotifyData
  <2>5. r = [View[k] EXCEPT !.ttl = frame[p].ttl]
    BY <1>4
  <2> HIDE DEF r
  <2>6. View' = [View EXCEPT ![k] = See(r)]
    BY <1>1, <1>2, <1>4, <2>4, ChangedAt
  <2>7. See(r) = Map!Visible([View[k] EXCEPT !.ttl = frame[p].ttl])
    BY <2>5 DEF See, isExpired, Map!Visible, Map!Lapsed
  <2>8. View' = [View EXCEPT ![k] = Map!Visible([@ EXCEPT !.ttl = frame[p].ttl])]
    BY <2>6, <2>7
  <2> QED
    BY <1>1, <1>3, <1>4, <1>6, <2>8
    DEF Map!ExpireNow, Map!Pends, Map!Says, Map!None, Idle, Return, Answer, CountReply
<1> QED  BY <1>1, <1>5, <1>6

\* DEL takes the keys of its list one by one; an expired record counts as well.
LEMMA DeleteStep == ASSUME IInv, NEW p \in Procs, DeleteKey(p) PROVE Map!DeleteNow(p)
<1> DEFINE f == frame[p]
           k == Head(f.rest)
           c == IF store.data[k] = Absent THEN 0 ELSE 1
           g == KeyLoop("delete", Tail(f.rest), f.count + c)
<1>0. Good(store) /\ f \in Frames
  BY IInvGood DEF IInv, TypeOK
<1>1. /\ f.at = "delete" /\ f.rest # <<>> /\ now' = now /\ reply' = reply
      /\ \/ /\ store.data[k] = Absent
            /\ Goto(p, KeyLoop("delete", Tail(f.rest), f.count))
            /\ store' = store
         \/ /\ store.data[k] # Absent
            /\ Goto(p, KeyLoop("delete", Tail(f.rest), f.count + 1))
            /\ store' = Remove(store, k)
  BY DEF DeleteKey, Continue
<1>2. f \in [at : {"exists", "delete"}, rest : Seq(Keys), count : Nat]
  BY <1>0, <1>1 DEF Frames, Idle
<1>3. k \in Keys /\ f.count \in Nat
  BY <1>1, <1>2
<1>4. Goto(p, g) /\ c \in Int
  <2>1. CASE store.data[k] = Absent
    <3>1. f.count + 0 = f.count /\ c = 0
      BY <1>3, <2>1
    <3> QED  BY <1>1, <2>1, <3>1
  <2>2. CASE store.data[k] # Absent
    <3>1. c = 1
      BY <2>2
    <3> QED  BY <1>1, <2>2, <3>1
  <2> QED  BY <2>1, <2>2
<1>5. g = [f EXCEPT !.rest = Tail(@), !.count = @ + c] /\ g.count = f.count + c /\ Asked(g) = g
  <2> DEFINE l == Tail(f.rest)
             i == f.count + c
  <2> HIDE DEF c, f, l, i
  <2>1. f = KeyLoop("delete", f.rest, f.count)
    BY <1>1, <1>2 DEF KeyLoop
  <2> DEFINE r == f.rest
             n == f.count
  <2>s. f = KeyLoop("delete", r, n)
    BY <2>1
  <2> HIDE DEF r, n
  <2>2. /\ [f EXCEPT !.rest = l, !.count = i] = KeyLoop("delete", l, i)
        /\ KeyLoop("delete", l, i).at = "delete" /\ KeyLoop("delete", l, i).count = i
    <3>1. [f EXCEPT !.rest = l] = KeyLoop("delete", l, n)
      BY <2>s DEF KeyLoop
    <3>2. [KeyLoop("delete", l, n) EXCEPT !.count = i] = KeyLoop("delete", l, i)
      BY DEF KeyLoop
    <3>3. KeyLoop("delete", l, i).at = "delete" /\ KeyLoop("delete", l, i).count = i
      BY DEF KeyLoop
    <3> QED  BY <3>1, <3>2, <3>3
  <2>3. g = KeyLoop("delete", l, i)
    BY DEF l, i
  <2> HIDE DEF g
  <2> QED  BY <2>2, <2>3 DEF Asked, l, i
<1> HIDE DEF g
<1>6. Pending[p] = f /\ Pending' = [Pending EXCEPT ![p] = g]
  BY <1>1, <1>4, <1>5, PendingIs, PendingNext DEF Asked
<1>7. Pending'[p] = g
  BY <1>6 DEF Pending
<1>8. c = Pending'[p].count - Pending[p].count
  <2>1. Pending'[p].count = f.count + c
    BY <1>5, <1>7
  <2>2. Pending[p].count = f.count
    BY <1>6
  <2> HIDE DEF c, f
  <2> QED  BY <1>3, <1>4, <2>1, <2>2
<1>9. View' = [View EXCEPT ![k] = Absent]
  <2>1. CASE store.data[k] = Absent
    <3>1. View' = View
      BY <1>1, <2>1, SameData, UnseenIs
    <3>2. View[k] = Absent
      BY <1>3, <2>1 DEF View, Live
    <3> QED  BY <3>1, <3>2 DEF View
  <2>2. CASE store.data[k] # Absent
    <3>1. store'.data = [store.data EXCEPT ![k] = Absent]
      <4>1. store' = Remove(store, k)
        BY <1>1, <2>2
      <4>2. Remove(store, k).data = [store.data EXCEPT ![k] = Absent]
        BY <1>0, <1>3, RemovalData
      <4> QED  BY <4>1, <4>2
    <3>2. View' = [View EXCEPT ![k] = See(Absent)]
      BY <1>0, <1>1, <1>3, <3>1, ChangedAt
    <3> QED  BY <3>2 DEF See
  <2> QED  BY <2>1, <2>2
<1>10. c \in IF View[k] = Absent THEN {0, 1} ELSE {1}
  BY <1>3 DEF View, Live
<1>11. Pending' = [Pending EXCEPT ![p] = [f EXCEPT !.rest = Tail(@), !.count = @ + c]]
  BY <1>5, <1>6
<1> HIDE DEF c
<1> QED
  BY <1>1, <1>6, <1>8, <1>9, <1>10, <1>11 DEF Map!DeleteNow, Map!Pends

LEMMA DeleteDoneStep == ASSUME IInv, NEW p \in Procs, DeleteDone(p) PROVE Map!DeleteAnswer(p)
<1>1. /\ frame[p].at = "delete" /\ frame[p].rest = <<>> /\ now' = now /\ store' = store
      /\ Answer(p, CountReply(frame[p].count), Idle)
  BY DEF DeleteDone, Continue, Return
<1>2. Pending[p] = frame[p] /\ Pending' = [Pending EXCEPT ![p] = Idle]
  BY <1>1, PendingIs, PendingNext, AskedParts DEF Asked, Answer
<1>3. View' = View
  BY <1>1, SameData, UnseenIs
<1> QED
  BY <1>1, <1>2, <1>3
  DEF Map!DeleteAnswer, Map!Pends, Map!Says, Map!None, Idle, Answer, CountReply

\* TTL answers at once, or notes the deadline and reads the clock again.
LEMMA DeadlineStep == ASSUME IInv, NEW p \in Clients, TTL(p) PROVE Map!TTLNow(p) \/ Map!Ask(p)
<1>0. p \in Procs
  BY DEF Procs
<1>1. PICK k \in Keys :
        LET ttl == store.data[k].ttl IN
        \/ /\ store.data[k] = Absent
           /\ Return(p, TTLReply(k, -2))
        \/ /\ Expired(k)
           /\ Answer(p, TTLReply(k, -2), Lazy(k, "TTL"))
        \/ /\ Live(k) /\ ttl = 0
           /\ Return(p, TTLReply(k, -1))
        \/ /\ Live(k) /\ ttl # 0
           /\ Answer(p, NoReply, [at |-> "ttl", key |-> k, ttl |-> ttl])
  BY DEF TTL
<1>2. Asked(frame[p]) = Idle /\ now' = now /\ store' = store
  BY <1>0, IdleAsked DEF TTL
<1>3. Unseen
  BY <1>2, SameData
<1> DEFINE Tells(n) == Pending[p] = Map!None /\ Map!Reads /\ Map!Says(p, TTLReply(k, n))
<1>4. CASE ~ Live(k) /\ \E f : Answer(p, TTLReply(k, -2), f) /\ Asked(f) = Idle
  <2>1. Tells(-2)
    BY <1>0, <1>2, <1>3, <1>4, Reading
  <2>2. View[k] = Absent
    BY <1>4 DEF View
  <2> QED  BY <2>1, <2>2 DEF Map!TTLNow, TTLReply
<1>5. CASE Live(k) /\ store.data[k].ttl = 0 /\ Return(p, TTLReply(k, -1))
  <2>1. Tells(-1)
    BY <1>0, <1>2, <1>3, <1>5, Reading, AskedParts DEF Return
  <2>2. View[k] # Absent /\ View[k].ttl = 0
    BY <1>5 DEF View, Live
  <2> QED  BY <2>1, <2>2 DEF Map!TTLNow, TTLReply
<1>6. CASE \E n : Answer(p, NoReply, [at |-> "ttl", key |-> k, ttl |-> n])
  BY <1>0, <1>2, <1>3, <1>6, Begins
<1> QED  BY <1>1, <1>4, <1>5, <1>6, AskedParts DEF Return, Live, Expired

LEMMA RemainingStep ==
    ASSUME IInv, TTLHeld, NEW p \in Procs, TTLRemaining(p)
    PROVE  Map!TTLNow(p)
<1> DEFINE k == frame[p].key
           left == frame[p].ttl - now
           n == IF left <= 0 THEN -2 ELSE left \div TimeUnit
<1>0. Good(store) /\ frame[p] \in Frames /\ now \in Nat
  BY IInvGood DEF IInv, TypeOK
<1>1. /\ frame[p].at = "ttl" /\ now' = now /\ store' = store
      /\ \/ left <= 0 /\ Answer(p, TTLReply(k, -2), Lazy(k, "TTL"))
         \/ left > 0 /\ Return(p, TTLReply(k, left \div TimeUnit))
  BY DEF TTLRemaining, Continue
<1>2. k \in Keys /\ frame[p].ttl \in Nat
  BY <1>0, <1>1, FrameParts
<1>3. \E f : Answer(p, TTLReply(k, n), f) /\ Asked(f) = Idle
  BY <1>0, <1>1, <1>2, AskedParts DEF Return
<1>4. Asked(frame[p]) = Idle
  BY <1>1 DEF Asked
<1>5. Pending[p] = Map!None /\ Map!Reads /\ Map!Says(p, TTLReply(k, n))
  BY <1>1, <1>3, <1>4, SameData, Reading
<1>6. frame[p].ttl # 0 /\ store.data[k] # Absent /\ store.data[k].ttl = frame[p].ttl
  BY <1>1 DEF TTLHeld
<1>7. n = IF View[k] = Absent THEN -2
          ELSE IF View[k].ttl = 0 THEN -1
          ELSE IF View[k].ttl = now THEN -2 ELSE (View[k].ttl - now) \div TimeUnit
  <2>1. CASE now > frame[p].ttl
    <3>1. View[k] = Absent
      BY <1>2, <1>6, <2>1 DEF View, Live, isExpired
    <3> QED  BY <1>0, <1>2, <2>1, <3>1
  <2>2. CASE ~ (now > frame[p].ttl)
    <3>1. View[k] # Absent /\ View[k].ttl = frame[p].ttl
      BY <1>2, <1>6, <2>2 DEF View, Live, isExpired
    <3> HIDE DEF k
    <3> QED  BY <1>0, <1>2, <1>6, <2>2, <3>1
  <2> QED  BY <2>1, <2>2
<1> HIDE DEF n
<1> QED  BY <1>2, <1>5, <1>7 DEF Map!TTLNow, TTLReply

\* EXISTS and Stats answer from what they counted on the way.
LEMMA SummaryStep ==
    ASSUME IInv, RepliesTyped, NEW p \in Procs,
           ExistsDone(p) \/ StatsCounters(p)
    PROVE  Map!SummaryNow(p)
<1>1. /\ frame[p].at \in {"exists", "stats"} /\ now' = now /\ store' = store
      /\ \/ Return(p, CountReply(frame[p].count))
         \/ Return(p, StatsReply(frame[p].count, store.usedMemory))
  BY DEF ExistsDone, StatsCounters, Continue
<1>2. PICK r : Answer(p, r, Idle) /\ r.cmd \in {"COUNT", "STATS"}
  BY <1>1 DEF Return, CountReply, StatsReply
<1>3. Asked(frame[p]) = Idle
  BY <1>1 DEF Asked
<1>4. Pending[p] = Map!None /\ Map!Reads /\ Map!Says(p, r)
  BY <1>1, <1>2, <1>3, SameData, Reading, AskedParts
<1>5. reply'[p] = r
  BY <1>2 DEF Answer, RepliesTyped
<1> QED  BY <1>2, <1>4, <1>5 DEF Map!SummaryNow

\* An eviction is a key forgotten, by a store that has a limit.
LEMMA ForgetStep == ASSUME IInv, NEW p \in Procs, EvictStep(p) PROVE Map!Forget
<1>0. Good(store)
  BY IInvGood
<1>1. PICK v \in Victims(store.policy) : store' = EvictKey(store, v)
  BY DEF EvictStep
<1>2. /\ now' = now /\ frame' = frame /\ reply' = reply
      /\ MaxEntries > 0 \/ MaxMemory > 0
  BY DEF EvictStep, Continue, overCapacity
<1>3. v \in Keys /\ store.data[v] # Absent
  BY <1>0, VictimTracked, StoreParts DEF Good, Present, Victims
<1>4. store'.data = [store.data EXCEPT ![v] = Absent]
  BY <1>0, <1>1, <1>3, RemovalData DEF EvictKey
<1>5. View' = [View EXCEPT ![v] = See(Absent)] /\ See(Absent) = Absent
  BY <1>0, <1>2, <1>3, <1>4, ChangedAt DEF See
<1>6. Pending' = Pending
  BY <1>2 DEF Pending
<1> QED  BY <1>2, <1>3, <1>5, <1>6 DEF Map!Forget

\* When the clock moves, what it overtakes can no longer be seen.
LEMMA LapseStep == ASSUME IInv, Tick PROVE Map!Lapse
<1>0. Good(store) /\ now \in Nat
  BY IInvGood DEF IInv, TypeOK
<1>1. now' = now + 1 /\ store' = store /\ frame' = frame /\ reply' = reply
  BY DEF Tick
<1>2. Pending' = Pending
  BY <1>1 DEF Pending
<1>3. ASSUME NEW k \in Keys
      PROVE  View'[k] = IF View[k] # Absent /\ View[k].ttl # 0 /\ now' > View[k].ttl
                        THEN Absent ELSE View[k]
  <2> DEFINE r == store.data[k]
  <2>1. r \in Record \union {Absent} /\ store'.data[k] = r
    BY <1>0, <1>1, StoreParts DEF Good, RecordMap
  <2>2. r # Absent => r.ttl \in Nat
    BY <2>1 DEF Record, StringRecord, SetRecord
  <2>3. View[k] = IF r # Absent /\ ~ (r.ttl # 0 /\ now > r.ttl) THEN r ELSE Absent
    BY DEF View, Live, isExpired
  <2>4. View'[k] = IF r # Absent /\ ~ (r.ttl # 0 /\ now' > r.ttl) THEN r ELSE Absent
    BY <2>1 DEF View, Live, isExpired
  <2> HIDE DEF r
  <2> QED  BY <1>0, <1>1, <2>2, <2>3, <2>4
<1>4. View' = [k \in Keys |-> IF View[k] # Absent /\ View[k].ttl # 0 /\ now' > View[k].ttl
                              THEN Absent ELSE View[k]]
  BY <1>3 DEF View
<1> QED  BY <1>1, <1>2, <1>4 DEF Map!Lapse

\* Lazy deletion, sweeping, and the steps of the loops that change no entry.
LEMMA SilentStep ==
    ASSUME IInv,
           \/ \E p \in Clients : LazyDelete(p) \/ ExistsKey(p)
           \/ \E p \in Procs : EvictDone(p)
           \/ Sweep \/ SweepKey \/ SweepDone
    PROVE  UNCHANGED Map!avars
<1>0. Good(store) /\ Clients \subseteq Procs /\ Sweeper \in Procs
      /\ \A p \in Procs : frame[p] \in Frames
  BY IInvGood DEF Procs, IInv, TypeOK
<1>1. ASSUME NEW p \in Clients, LazyDelete(p) PROVE UNCHANGED Map!avars
  <2> DEFINE k == frame[p].key
             s == deleteIfExpired(store, k)
  <2>1. /\ frame[p].at = "lazy" /\ now' = now /\ reply' = reply
        /\ store' = s \/ store' = Miss(s)
        /\ \E f : Goto(p, f) /\ Asked(f) = Idle
    BY <1>1, AskedParts DEF LazyDelete, Continue
  <2>2. k \in Keys
    BY <1>0, <2>1, FrameParts
  <2>3. Good(s) /\ Seen(s.data) = Seen(store.data)
    BY <1>0, <2>2, DeleteIfExpiredGood, SeenAfterExpiry
  <2>4. Miss(s).data = s.data
    BY <2>3, StoreParts, MissOf, DataOf DEF Good
  <2> HIDE DEF s
  <2>5. Asked(frame[p]) = Idle
    BY <2>1 DEF Asked
  <2> QED  BY <1>0, <2>1, <2>3, <2>4, <2>5, Silent DEF Unseen
<1>2. ASSUME NEW p \in Procs, NEW f, Goto(p, f), Asked(f) = Idle, reply' = reply, now' = now,
             store' = store, Asked(frame[p]) = Idle
      PROVE  UNCHANGED Map!avars
  BY <1>2, SameData, Silent
<1>3. ASSUME NEW p \in Clients, ExistsKey(p) PROVE UNCHANGED Map!avars
  <2>1. /\ frame[p].at = "exists" /\ now' = now /\ reply' = reply /\ store' = store
        /\ \E f : Goto(p, f) /\ Asked(f) = Idle
    BY <1>3, AskedParts DEF ExistsKey, Continue, Asked
  <2> QED  BY <1>0, <1>2, <2>1 DEF Asked
<1>4. ASSUME NEW p \in Procs, EvictDone(p) PROVE UNCHANGED Map!avars
  <2>1. /\ frame[p].at = "evict" /\ now' = now /\ reply' = reply /\ store' = store
        /\ Goto(p, Idle)
    BY <1>4 DEF EvictDone, Continue
  <2> QED  BY <1>2, <2>1, AskedParts DEF Asked
<1>5. CASE Sweep \/ SweepDone
  <2>1. /\ frame[Sweeper].at \in {"idle", "sweep"} /\ now' = now /\ reply' = reply /\ store' = store
        /\ \E f : Goto(Sweeper, f) /\ Asked(f) = Idle
    BY <1>5, AskedParts DEF Sweep, SweepDone, Continue, Asked, Idle
  <2>2. Asked(frame[Sweeper]) = Idle
    BY <2>1 DEF Asked
  <2> QED  BY <1>0, <1>2, <2>1, <2>2
<1>6. CASE SweepKey
  <2>1. PICK k \in frame[Sweeper].rest :
          /\ store' = deleteIfExpired(store, k)
          /\ Goto(Sweeper, [at |-> "sweep", rest |-> frame[Sweeper].rest \ {k}])
    BY <1>6 DEF SweepKey
  <2>2. frame[Sweeper].at = "sweep" /\ now' = now /\ reply' = reply
    BY <1>6 DEF SweepKey, Continue
  <2>3. k \in Keys
    BY <1>0, <2>1, <2>2, FrameParts
  <2>4. Unseen
    BY <1>0, <2>1, <2>2, <2>3, SeenAfterExpiry DEF Unseen
  <2> DEFINE f == [at |-> "sweep", rest |-> frame[Sweeper].rest \ {k}]
  <2>5. Asked(frame[Sweeper]) = Idle /\ Asked(f) = Idle
    BY <2>2 DEF Asked
  <2> HIDE DEF f
  <2> QED  BY <1>0, <2>1, <2>2, <2>4, <2>5, Silent DEF f
<1> QED  BY <1>1, <1>3, <1>4, <1>5, <1>6

LEMMA StepMatched == IInv /\ RepliesTyped /\ TTLHeld /\ [Next]_vars => Matched
<1> SUFFICES ASSUME IInv, RepliesTyped, TTLHeld, [Next]_vars PROVE Matched
  OBVIOUS
<1>0. Clients \subseteq Procs
  BY DEF Procs
<1>1. ASSUME NEW p \in Clients, Begin(p) PROVE Matched
  <2>1. \/ Map!Ask(p) \/ Map!GetNow(p) \/ Map!MembersNow(p) \/ Map!SetCommandNow(p)
        \/ Map!IncrNow(p) \/ Map!TTLNow(p)
    BY <1>1, BeginStep, GetStep, MembersStep, IsMemberStep, AddStep, RemStep, IncrStep,
       DeadlineStep DEF Begin
  <2> QED  BY <1>0, <2>1 DEF Matched, Map!ANext
<1>2. ASSUME NEW p \in Clients, Waiting(p) PROVE Matched
  <2>1. \/ Map!PutNow(p) \/ Map!ExpireNow(p) \/ Map!SummaryNow(p) \/ UNCHANGED Map!avars
    BY <1>0, <1>2, PutStep, ExpireStep, SummaryStep, SilentStep DEF Waiting
  <2> QED  BY <1>0, <2>1 DEF Matched, Map!ANext
<1>3. ASSUME NEW p \in Procs, Holding(p) PROVE Matched
  <2>1. \/ Map!TTLNow(p) \/ Map!DeleteNow(p) \/ Map!DeleteAnswer(p) \/ Map!SummaryNow(p)
        \/ Map!Forget \/ UNCHANGED Map!avars
    BY <1>3, RemainingStep, DeleteStep, DeleteDoneStep, SummaryStep, ForgetStep, SilentStep
    DEF Holding
  <2> QED  BY <2>1 DEF Matched, Map!ANext
<1>4. CASE Sweep \/ Sweeping
  BY <1>4, SilentStep DEF Sweeping, Matched
<1>5. CASE Tick
  BY <1>5, LapseStep DEF Matched, Map!ANext
<1>6. CASE UNCHANGED vars
  BY <1>6 DEF vars, Matched, Map!avars, View, Pending, Live, isExpired
<1> QED  BY <1>1, <1>2, <1>3, <1>4, <1>5, <1>6 DEF Next

LEMMA StartMatched == Init => Map!AInit
<1> SUFFICES ASSUME Init PROVE Map!AInit
  OBVIOUS
<1>1. store.data = [k \in Keys |-> Absent]
  BY DEF Init, New
<1>2. View = [k \in Keys |-> Absent]
  BY <1>1 DEF View, Live
<1>3. Pending = [p \in Procs |-> Idle]
  BY DEF Init, Pending, Idle
<1> QED
  BY <1>2, <1>3 DEF Map!AInit, Map!None, Map!NoAnswer, Init, Idle, NoReply

\* To its callers a Store is the map of ExpiringMap: lazy deletion, sweeping, the
\* lock and the policy cannot be told from outside, and every call takes effect
\* or reads at one instant between its start and its answer (store.go:51).
THEOREM StoreImplementsMap == Spec => ImplementsMap
<1>1. Init => TTLHeld /\ RepliesTyped
  BY DEF Init, TTLHeld, RepliesTyped, Idle
<1>2. Spec => [](TTLHeld /\ RepliesTyped)
  BY <1>1, Invariance, TTLHeldStep, ReplyStep, PTL DEF Spec
<1>3. IInv /\ RepliesTyped /\ TTLHeld /\ [Next]_vars => [Map!ANext]_(Map!avars)
  BY StepMatched DEF Matched
<1> QED  BY <1>2, <1>3, StartMatched, Invariance, PTL DEF Spec, ImplementsMap, Map!ASpec
=============================================================================
