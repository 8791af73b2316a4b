-------------------------- MODULE PolicyUseProofs --------------------------
(***************************************************************************)
(* For any finite set of keys and any number of uses: the victims of the    *)
(* policies are the keys their names promise. The link from a policy to the *)
(* history it should remember: a place in the LRU's list goes by last use,  *)
(* and the LFU's entries are the uses and the last use of each key.         *)
(***************************************************************************)
EXTENDS PolicyUse, EvictionProofs

Types == /\ IsPolicy(policy, Keys) /\ policy.name \in Policies
         /\ uses \in [Keys -> Nat] /\ lastUse \in [Keys -> Nat] /\ calls \in Nat

TracksThere == policy.name # "none" => Tracked(policy) = There

\* No two keys that are there were last used at the same time.
Stamps == \A k \in There : /\ lastUse[k] <= calls
                           /\ \A j \in There : lastUse[j] = lastUse[k] => j = k

LruOrder ==
    policy.name = "lru" =>
        \A k \in There :
            /\ policy.place[k] >= 1
            /\ \A j \in There : lastUse[j] < lastUse[k] <=> policy.place[k] < policy.place[j]

LfuCounts ==
    policy.name = "lfu" =>
        /\ policy.seq = calls
        /\ \A k \in There : policy.entries[k] = [freq |-> uses[k], last |-> lastUse[k]]

IInv == Types /\ TracksThere /\ Stamps /\ LruOrder /\ LfuCounts

LEMMA InitIInv == Init => IInv
<1> SUFFICES ASSUME Init PROVE IInv
  OBVIOUS
<1>1. PICK n \in Policies : policy = NewPolicy(n)
  BY DEF Init
<1>2. n \in PolicyNames
  BY PolicyUseAssumption
<1>3. IsPolicy(policy, Keys) /\ Tracked(policy) = {}
  BY <1>1, <1>2, NewPolicyShape
<1>4. policy.name = n /\ policy.seq = 0
  BY <1>1 DEF NewPolicy
<1>5. There = {}
  BY SMT DEF Init, There
<1>6. Types
  BY <1>3, <1>4 DEF Init, Types
<1> QED
  BY <1>3, <1>4, <1>5, <1>6 DEF Init, IInv, TracksThere, Stamps, LruOrder, LfuCounts

-----------------------------------------------------------------------------
(* A use of a key: Insert or Access                                          *)

LEMMA UseStamps ==
    ASSUME IInv, NEW k \in Keys, Used(k)
    PROVE  /\ uses' \in [Keys -> Nat] /\ lastUse' \in [Keys -> Nat] /\ calls' \in Nat
           /\ calls' = calls + 1 /\ There' = There \union {k}
           /\ uses'[k] = uses[k] + 1 /\ lastUse'[k] = calls'
           /\ \A x \in Keys \ {k} : uses'[x] = uses[x] /\ lastUse'[x] = lastUse[x]
           /\ \A x \in There : lastUse[x] < calls'
           /\ Stamps'
<1>1. /\ calls' = calls + 1 /\ calls \in Nat
      /\ uses \in [Keys -> Nat] /\ lastUse \in [Keys -> Nat]
      /\ uses' = [uses EXCEPT ![k] = @ + 1]
      /\ lastUse' = [lastUse EXCEPT ![k] = calls + 1]
  BY DEF IInv, Types, Used
<1>2. /\ uses' \in [Keys -> Nat] /\ lastUse' \in [Keys -> Nat] /\ calls' \in Nat
      /\ uses'[k] = uses[k] + 1 /\ lastUse'[k] = calls'
      /\ \A x \in Keys \ {k} : uses'[x] = uses[x] /\ lastUse'[x] = lastUse[x]
  BY <1>1, SMT
<1>3. There' = There \union {k}
  BY <1>1, <1>2, SMT DEF There
<1>4. \A x \in There : x \in Keys /\ lastUse[x] <= calls
  BY DEF IInv, Stamps, There
<1>5. \A x \in There : lastUse[x] < calls'
  BY <1>1, <1>4, SMT
<1>6. ASSUME NEW a \in There', NEW j \in There'
      PROVE  lastUse'[a] <= calls' /\ (lastUse'[j] = lastUse'[a] => j = a)
  <2>1. /\ a = k \/ (a # k /\ a \in There /\ lastUse'[a] = lastUse[a] /\ lastUse[a] < calls')
        /\ j = k \/ (j # k /\ j \in There /\ lastUse'[j] = lastUse[j] /\ lastUse[j] < calls')
    BY <1>2, <1>3, <1>4, <1>5
  <2>2. a \in There /\ j \in There => (lastUse[j] = lastUse[a] => j = a)
    BY DEF IInv, Stamps
  <2>3. lastUse'[a] \in Nat /\ lastUse'[j] \in Nat /\ calls' \in Nat /\ lastUse'[k] = calls'
    BY <1>2, <1>3, <1>4
  <2> QED  BY <2>1, <2>2, <2>3, SMT
<1> QED  BY <1>1, <1>2, <1>3, <1>5, <1>6, Zenon DEF Stamps

\* The key in front, the order of the others as it was.
LEMMA UseLru ==
    ASSUME IInv, NEW k \in Keys, Used(k), policy.name = "lru",
           policy' = [policy EXCEPT !.place = touchLocked(@, k)]
    PROVE  LruOrder'
<1> DEFINE pl == policy.place
<1>1. /\ DOMAIN pl = There /\ pl \in [There -> Nat]
      /\ policy'.place = touchLocked(pl, k) /\ There \subseteq Keys
  BY DEF IInv, Types, TracksThere, Tracked, IsPolicy, There
<1>2. /\ calls' \in Nat /\ There' = There \union {k} /\ lastUse'[k] = calls'
      /\ \A x \in Keys \ {k} : lastUse'[x] = lastUse[x]
      /\ \A x \in There : lastUse[x] < calls'
      /\ lastUse' \in [Keys -> Nat] /\ lastUse \in [Keys -> Nat]
  BY UseStamps DEF IInv, Types
<1>3. \A x \in There : pl[x] >= 1 /\ pl[x] \in Nat
  BY <1>1 DEF IInv, LruOrder
<1>4. \A x, y \in There : /\ lastUse[y] < lastUse[x] <=> pl[x] < pl[y]
                          /\ lastUse[y] = lastUse[x] => x = y
  BY DEF IInv, LruOrder, Stamps
<1>5. policy'.place = [x \in There \union {k} |->
                         IF x = k THEN 1
                         ELSE IF k \notin There \/ pl[x] < pl[k] THEN pl[x] + 1 ELSE pl[x]]
  BY <1>1 DEF touchLocked
<1>6. policy'.place[k] = 1
  BY <1>5
<1>7. \A x \in There \ {k} :
         policy'.place[x] = IF k \notin There \/ pl[x] < pl[k] THEN pl[x] + 1 ELSE pl[x]
  BY <1>5
<1> HIDE DEF pl
<1>8. ASSUME NEW x \in There \ {k}
      PROVE  policy'.place[x] \in Nat /\ policy'.place[x] > 1
  <2>1. k \in There => pl[x] # pl[k] /\ pl[k] >= 1 /\ pl[k] \in Nat
    <3>1. SUFFICES ASSUME k \in There PROVE pl[x] # pl[k]
      BY <1>3
    <3>2. lastUse[x] \in Nat /\ lastUse[k] \in Nat
      BY <1>1, <1>2
    <3> QED  BY <1>3, <1>4, <3>1, <3>2, SMT
  <2> QED  BY <1>3, <1>7, <2>1, SMT
<1>9. ASSUME NEW x \in There \ {k}, NEW y \in There \ {k}
      PROVE  policy'.place[x] < policy'.place[y] <=> pl[x] < pl[y]
  <2>1. k \in There => /\ pl[k] \in Nat
                       /\ lastUse[x] # lastUse[k] /\ lastUse[y] # lastUse[k]
    BY <1>3, <1>4
  <2>2. lastUse[x] \in Nat /\ lastUse[y] \in Nat /\ (k \in There => lastUse[k] \in Nat)
    BY <1>1, <1>2
  <2>3. k \in There => pl[x] # pl[k] /\ pl[y] # pl[k]
    BY <1>3, <1>4, <2>1, <2>2, SMT
  <2> QED  BY <1>3, <1>7, <2>1, <2>3, SMT
<1>10. ASSUME NEW x \in There', NEW y \in There'
       PROVE  /\ policy'.place[x] >= 1
              /\ lastUse'[y] < lastUse'[x] <=> policy'.place[x] < policy'.place[y]
  <2>1. (x = k \/ x \in There \ {k}) /\ (y = k \/ y \in There \ {k})
    BY <1>2
  <2>2. CASE x = k /\ y = k
    BY <1>2, <1>6, <2>2, SMT
  <2>3. CASE x = k /\ y \in There \ {k}
    <3>1. lastUse'[y] < lastUse'[x]
      BY <1>1, <1>2, <2>3
    <3> QED  BY <1>6, <1>8, <2>3, <3>1, SMT
  <2>4. CASE x \in There \ {k} /\ y = k
    <3>1. lastUse'[x] < lastUse'[y] /\ lastUse'[x] \in Nat /\ lastUse'[y] \in Nat
      BY <1>1, <1>2, <2>4
    <3> QED  BY <1>6, <1>8, <2>4, <3>1, SMT
  <2>5. CASE x \in There \ {k} /\ y \in There \ {k}
    <3>1. lastUse'[x] = lastUse[x] /\ lastUse'[y] = lastUse[y]
      BY <1>1, <1>2, <2>5
    <3>2. policy'.place[x] \in Nat /\ policy'.place[x] > 1
      BY <1>8, <2>5
    <3>3. policy'.place[x] < policy'.place[y] <=> pl[x] < pl[y]
      BY <1>9, <2>5
    <3>4. lastUse[y] < lastUse[x] <=> pl[x] < pl[y]
      BY <1>4, <2>5
    <3> QED  BY <3>1, <3>2, <3>3, <3>4, SMT
  <2> QED  BY <2>1, <2>2, <2>3, <2>4, <2>5
<1> QED  BY <1>10 DEF LruOrder

\* An entry has what is known of the key's uses.
LEMMA UseLfu ==
    ASSUME IInv, NEW k \in Keys, Used(k), policy.name = "lfu",
           NEW n, n = uses[k] + 1, policy' = LfuPut(policy, k, n)
    PROVE  LfuCounts'
<1>1. /\ DOMAIN policy.entries = There /\ There \subseteq Keys
      /\ policy'.seq = policy.seq + 1
      /\ policy'.entries = [x \in There \union {k} |->
                              IF x = k THEN [freq |-> n, last |-> policy.seq + 1]
                                       ELSE policy.entries[x]]
  BY DEF IInv, Types, TracksThere, Tracked, IsPolicy, There, LfuPut
<1>2. /\ policy.seq = calls
      /\ \A x \in There : policy.entries[x] = [freq |-> uses[x], last |-> lastUse[x]]
  BY DEF IInv, LfuCounts
<1>3. /\ calls' = calls + 1 /\ There' = There \union {k}
      /\ uses'[k] = n /\ lastUse'[k] = calls'
      /\ \A x \in Keys \ {k} : uses'[x] = uses[x] /\ lastUse'[x] = lastUse[x]
  BY UseStamps
<1>4. ASSUME NEW x \in There'
      PROVE  policy'.entries[x] = [freq |-> uses'[x], last |-> lastUse'[x]]
  <2>1. CASE x = k
    BY <1>1, <1>2, <1>3, <2>1
  <2>2. CASE x # k
    <3>1. x \in There /\ x \in Keys \ {k}
      BY <1>1, <1>3, <2>2
    <3> QED  BY <1>1, <1>2, <1>3, <2>2, <3>1
  <2> QED  BY <2>1, <2>2
<1> QED  BY <1>1, <1>2, <1>3, <1>4 DEF LfuCounts

LEMMA UseIInv ==
    ASSUME IInv, NEW k \in Keys, Used(k),
           \/ policy' = OnInsert(policy, k) /\ k \notin There
           \/ policy' = OnAccess(policy, k) /\ k \in There
    PROVE  IInv'
<1>1. IsPolicy(policy, Keys) /\ policy.name \in Policies
  BY DEF IInv, Types
<1>2. /\ IsPolicy(policy', Keys) /\ policy'.name = policy.name
      /\ policy.name # "none" => Tracked(policy') = Tracked(policy) \union {k}
  BY <1>1, OnInsertShape, OnAccessShape
<1>3. /\ uses' \in [Keys -> Nat] /\ lastUse' \in [Keys -> Nat] /\ calls' \in Nat
      /\ There' = There \union {k} /\ Stamps'
  BY UseStamps
<1>4. Types'
  BY <1>1, <1>2, <1>3 DEF Types
<1>5. TracksThere'
  BY <1>2, <1>3 DEF IInv, TracksThere
<1>6. LruOrder'
  <2>1. policy.name # "lru" => LruOrder'
    BY <1>2 DEF LruOrder
  <2>2. policy.name = "lru" => policy' = [policy EXCEPT !.place = touchLocked(@, k)]
    BY DEF OnInsert, OnAccess
  <2> QED  BY <2>1, <2>2, UseLru
<1>7. LfuCounts'
  <2>1. policy.name # "lfu" => LfuCounts'
    BY <1>2 DEF LfuCounts
  <2>2. ASSUME policy.name = "lfu" PROVE LfuCounts'
    <3>1. DOMAIN policy.entries = There /\ uses[k] \in Nat
      BY <2>2 DEF IInv, Types, TracksThere, Tracked
    <3>2. k \in There => LfuFreq(policy, k) = uses[k]
      <4> SUFFICES ASSUME k \in There PROVE LfuFreq(policy, k) = uses[k]
        OBVIOUS
      <4>1. policy.entries[k] = [freq |-> uses[k], last |-> lastUse[k]]
        BY <2>2 DEF IInv, LfuCounts
      <4>2. LfuFreq(policy, k) = policy.entries[k].freq
        BY <3>1 DEF LfuFreq
      <4> QED  BY <4>1, <4>2
    <3>3. k \notin There => uses[k] = 0
      BY <3>1, SMT DEF There
    <3>4. policy' = LfuPut(policy, k, uses[k] + 1)
      <4>1. CASE policy' = OnInsert(policy, k) /\ k \notin There
        <5>1. uses[k] + 1 = 1
          BY <3>3, <4>1
        <5> QED  BY <2>2, <4>1, <5>1 DEF OnInsert
      <4>2. CASE policy' = OnAccess(policy, k) /\ k \in There
        BY <2>2, <3>2, <4>2 DEF OnAccess
      <4> QED  BY <4>1, <4>2
    <3> QED  BY <2>2, <3>4, UseLfu
  <2> QED  BY <2>1, <2>2
<1> QED  BY <1>3, <1>4, <1>5, <1>6, <1>7 DEF IInv

-----------------------------------------------------------------------------
(* A key leaves: removed by name, or as a victim                             *)

LEMMA GoneStamps ==
    ASSUME IInv, NEW k \in There, Gone(k)
    PROVE  /\ uses' \in [Keys -> Nat] /\ lastUse' \in [Keys -> Nat] /\ calls' = calls
           /\ There' = There \ {k}
           /\ \A x \in There' : uses'[x] = uses[x] /\ lastUse'[x] = lastUse[x]
           /\ Stamps'
<1>1. /\ calls' = calls /\ k \in Keys
      /\ uses \in [Keys -> Nat] /\ lastUse \in [Keys -> Nat]
      /\ uses' = [uses EXCEPT ![k] = 0] /\ lastUse' = [lastUse EXCEPT ![k] = 0]
  BY DEF IInv, Types, Gone, There
<1>2. /\ uses' \in [Keys -> Nat] /\ lastUse' \in [Keys -> Nat] /\ uses'[k] = 0
      /\ \A x \in Keys \ {k} : uses'[x] = uses[x] /\ lastUse'[x] = lastUse[x]
  BY <1>1, SMT
<1>3. There' = There \ {k}
  BY <1>1, <1>2, SMT DEF There
<1>4. \A x \in There' : uses'[x] = uses[x] /\ lastUse'[x] = lastUse[x] /\ x \in There
  BY <1>2, <1>3 DEF There
<1> QED  BY <1>1, <1>2, <1>3, <1>4 DEF IInv, Stamps

\* The places behind the key move up by one, the order as it was.
LEMMA GoneLru ==
    ASSUME IInv, NEW k \in There, Gone(k), policy.name = "lru"
    PROVE  LruOrder'
<1> DEFINE pl == policy.place
<1>1. /\ DOMAIN pl = There /\ pl \in [There -> Nat] /\ There \subseteq Keys
      /\ policy'.place = LruRemove(pl, k)
  <2>1. policy' = [policy EXCEPT !.place = LruRemove(@, k)]
    BY DEF Gone, OnRemove
  <2>2. IsPolicy(policy, Keys) /\ Tracked(policy) = DOMAIN policy.place
    BY DEF IInv, Types, Tracked
  <2> QED  BY <2>1, <2>2 DEF IInv, TracksThere, IsPolicy, There
<1>2. There' = There \ {k} /\ \A x \in There' : lastUse'[x] = lastUse[x]
  BY GoneStamps
<1>3. \A x \in There : pl[x] >= 1 /\ pl[x] \in Nat /\ lastUse[x] \in Nat
  BY <1>1 DEF IInv, Types, LruOrder
<1>4. \A x, y \in There : /\ lastUse[y] < lastUse[x] <=> pl[x] < pl[y]
                          /\ lastUse[y] = lastUse[x] => x = y
  BY DEF IInv, LruOrder, Stamps
<1>5. \A x \in There' : policy'.place[x] = IF pl[x] > pl[k] THEN pl[x] - 1 ELSE pl[x]
  BY <1>1, <1>2 DEF LruRemove
<1> HIDE DEF pl
<1>6. \A x \in There' : pl[x] # pl[k]
  BY <1>2, <1>3, <1>4, SMT
<1>7. ASSUME NEW x \in There', NEW y \in There'
      PROVE  /\ policy'.place[x] >= 1
             /\ lastUse'[y] < lastUse'[x] <=> policy'.place[x] < policy'.place[y]
  <2>1. /\ lastUse'[x] = lastUse[x] /\ lastUse'[y] = lastUse[y]
        /\ x \in There /\ y \in There
    BY <1>2
  <2>2. lastUse[y] < lastUse[x] <=> pl[x] < pl[y]
    BY <1>4, <2>1
  <2>3. /\ pl[x] \in Nat /\ pl[y] \in Nat /\ pl[k] \in Nat
        /\ pl[x] >= 1 /\ pl[k] >= 1 /\ pl[x] # pl[k] /\ pl[y] # pl[k]
    BY <1>3, <1>6, <2>1
  <2>4. /\ policy'.place[x] = IF pl[x] > pl[k] THEN pl[x] - 1 ELSE pl[x]
        /\ policy'.place[y] = IF pl[y] > pl[k] THEN pl[y] - 1 ELSE pl[y]
    BY <1>5
  <2> QED  BY <2>1, <2>2, <2>3, <2>4, SMT
<1> QED  BY <1>7 DEF LruOrder

LEMMA GoneIInv ==
    ASSUME IInv, NEW k \in There, Gone(k)
    PROVE  IInv'
<1>1. IsPolicy(policy, Keys) /\ policy.name \in Policies /\ k \in Keys
  BY DEF IInv, Types, There
<1>2. policy' = OnRemove(policy, k)
  BY DEF Gone
<1>3. /\ IsPolicy(policy', Keys) /\ policy'.name = policy.name
      /\ Tracked(policy') = Tracked(policy) \ {k}
  BY <1>1, <1>2, OnRemoveShape
<1>4. /\ uses' \in [Keys -> Nat] /\ lastUse' \in [Keys -> Nat] /\ calls' = calls
      /\ There' = There \ {k} /\ Stamps'
      /\ \A x \in There' : uses'[x] = uses[x] /\ lastUse'[x] = lastUse[x]
  BY GoneStamps
<1>5. Types'
  BY <1>1, <1>3, <1>4 DEF IInv, Types
<1>6. TracksThere'
  BY <1>3, <1>4 DEF IInv, TracksThere
<1>7. LruOrder'
  <2>1. policy.name # "lru" => LruOrder'
    BY <1>3 DEF LruOrder
  <2> QED  BY <2>1, GoneLru
<1>8. LfuCounts'
  <2>1. policy.name # "lfu" => LfuCounts'
    BY <1>3 DEF LfuCounts
  <2>2. ASSUME policy.name = "lfu" PROVE LfuCounts'
    <3>1. policy' = [policy EXCEPT !.entries = [x \in DOMAIN @ \ {k} |-> policy.entries[x]]]
      BY <1>2, <2>2 DEF OnRemove
    <3>2. /\ policy'.seq = policy.seq
          /\ policy'.entries = [x \in DOMAIN policy.entries \ {k} |-> policy.entries[x]]
      BY <1>1, <3>1 DEF IsPolicy
    <3>3. DOMAIN policy.entries = There
      BY <2>2 DEF IInv, TracksThere, Tracked
    <3>4. \A x \in There' : policy'.entries[x] = policy.entries[x] /\ x \in There
      BY <1>4, <3>2, <3>3
    <3> QED  BY <1>4, <2>2, <3>2, <3>4 DEF IInv, LfuCounts
  <2> QED  BY <2>1, <2>2
<1> QED  BY <1>4, <1>5, <1>6, <1>7, <1>8 DEF IInv

LEMMA NextIInv == IInv /\ [Next]_vars => IInv'
<1> SUFFICES ASSUME IInv, [Next]_vars PROVE IInv'
  OBVIOUS
<1>1. ASSUME NEW k \in Keys, Insert(k) PROVE IInv'
  BY <1>1, UseIInv DEF Insert
<1>2. ASSUME NEW k \in Keys, Access(k) PROVE IInv'
  BY <1>2, UseIInv DEF Access
<1>3. ASSUME NEW k \in There, Gone(k) PROVE IInv'
  BY <1>3, GoneIInv
<1>4. Victims(policy) \subseteq There
  <2>1. Victims(policy) \subseteq Tracked(policy)
    BY VictimTracked DEF IInv, Types
  <2>2. policy.name = "none" => Victims(policy) = {}
    BY DEF Victims
  <2> QED  BY <2>1, <2>2 DEF IInv, TracksThere
<1>5. ASSUME UNCHANGED vars PROVE IInv'
  BY <1>5 DEF vars, IInv, Types, TracksThere, Stamps, LruOrder, LfuCounts, There
<1> QED  BY <1>1, <1>2, <1>3, <1>4, <1>5 DEF Next

LEMMA Invariance == Spec => []IInv
<1> QED  BY InitIInv, NextIInv, PTL DEF Spec

-----------------------------------------------------------------------------
(* LRU                                                                       *)

LEMMA LruVictims ==
    ASSUME IInv, policy.name = "lru"
    PROVE  Victims(policy) = {v \in There : \A k \in There : lastUse[v] <= lastUse[k]}
<1>1. /\ DOMAIN policy.place = There
      /\ \A x \in There : policy.place[x] \in Nat /\ lastUse[x] \in Nat
  BY DEF IInv, Types, TracksThere, Tracked, IsPolicy, There
<1>2. Victims(policy) = {v \in There : \A x \in There : policy.place[x] <= policy.place[v]}
  BY <1>1 DEF Victims, LruBack
<1>3. \A v, x \in There : policy.place[x] <= policy.place[v] <=> lastUse[v] <= lastUse[x]
  <2>1. \A v, x \in There : lastUse[x] < lastUse[v] <=> policy.place[v] < policy.place[x]
    BY DEF IInv, LruOrder
  <2> QED  BY <1>1, <2>1, SMT
<1> QED  BY <1>2, <1>3

\* The back of the list is the key that was not used for longest.
THEOREM LRUEvictsOldest == Spec => []LRUVictimIsOldest
<1>1. IInv => LRUVictimIsOldest
  BY LruVictims DEF LRUVictimIsOldest
<1> QED  BY <1>1, Invariance, PTL

-----------------------------------------------------------------------------
(* LFU                                                                       *)

LEMMA LfuRarer ==
    ASSUME IInv, policy.name = "lfu"
    PROVE  /\ DOMAIN policy.entries = There
           /\ \A x, v \in There : lessFrequent(policy.entries[x], policy.entries[v])
                <=> (uses[x] < uses[v] \/ (uses[x] = uses[v] /\ lastUse[x] < lastUse[v]))
<1>1. DOMAIN policy.entries = There
  BY DEF IInv, TracksThere, Tracked
<1>2. \A x \in There : policy.entries[x].freq = uses[x] /\ policy.entries[x].last = lastUse[x]
  <2> SUFFICES ASSUME NEW x \in There
               PROVE  policy.entries[x].freq = uses[x] /\ policy.entries[x].last = lastUse[x]
    OBVIOUS
  <2>1. policy.entries[x] = [freq |-> uses[x], last |-> lastUse[x]]
    BY DEF IInv, LfuCounts
  <2> QED  BY <2>1
<1> QED  BY <1>1, <1>2 DEF lessFrequent

LEMMA ThereFinite == IsFiniteSet(There)
BY PolicyUseAssumption, FS_Subset DEF There

\* No key of the sample a victim was taken from comes before the victim, and a
\* sample has SampleSize keys if there are as many.
THEOREM LFUEvictsRare == Spec => []LFUVictimAmongRarest
<1>1. ASSUME IInv, policy.name = "lfu", NEW v \in Victims(policy)
      PROVE  Cardinality({k \in There : \/ uses[k] < uses[v]
                                        \/ uses[k] = uses[v] /\ lastUse[k] < lastUse[v]})
               <= IF Cardinality(There) < SampleSize THEN 0
                  ELSE Cardinality(There) - SampleSize
  <2> DEFINE R == {k \in There : \/ uses[k] < uses[v]
                                 \/ uses[k] = uses[v] /\ lastUse[k] < lastUse[v]}
  <2>1. v \in LfuVictims(policy.entries)
    BY <1>1 DEF Victims
  <2>2. PICK S \in Samples(There) :
           v \in S /\ \A x \in S : ~ lessFrequent(policy.entries[x], policy.entries[v])
    BY <1>1, <2>1, LfuRarer DEF LfuVictims
  <2>3. /\ S \subseteq There
        /\ Cardinality(S) = IF Cardinality(There) < SampleSize
                            THEN Cardinality(There) ELSE SampleSize
    BY DEF Samples
  <2>4. \A x \in S : x \notin R
    BY <1>1, <2>2, <2>3, LfuRarer
  <2>5. R \subseteq There \ S
    BY <2>4
  <2> HIDE DEF R
  <2>6. /\ Cardinality(There) \in Nat /\ IsFiniteSet(There \ S)
        /\ Cardinality(There \ S) = Cardinality(There) - Cardinality(S)
    <3>1. There \cap S = S
      BY <2>3
    <3> QED  BY <3>1, ThereFinite, FS_CardinalityType, FS_Difference
  <2>7. Cardinality(R) <= Cardinality(There \ S) /\ Cardinality(R) \in Nat
    BY <2>5, <2>6, FS_Subset, FS_CardinalityType
  <2>8. SampleSize \in Nat
    BY EvictionAssumption
  <2>9. Cardinality(R) <= IF Cardinality(There) < SampleSize THEN 0
                          ELSE Cardinality(There) - SampleSize
    BY <2>3, <2>6, <2>7, <2>8, SMT
  <2> QED  BY <2>9 DEF R
<1>2. IInv => LFUVictimAmongRarest
  BY <1>1 DEF LFUVictimAmongRarest
<1> QED  BY <1>2, Invariance, PTL

-----------------------------------------------------------------------------
(* There is a victim                                                         *)

\* A policy tracks the keys that are there and has a victim whenever there is
\* one of them: evictLocked stops for want of memory to free, never too early.
THEOREM VictimsExist == Spec => []VictimWhileTracked
<1>1. ASSUME IInv PROVE VictimWhileTracked
  <2>1. policy.name \in PolicyNames /\ IsPolicy(policy, Keys)
    BY <1>1 DEF IInv, Types, IsPolicy
  <2>2. policy.name # "none" => Tracked(policy) = There
    BY <1>1 DEF IInv, TracksThere
  <2>3. Victims(policy) \subseteq Tracked(policy)
    BY <2>1, VictimTracked
  <2>4. Tracked(policy) # {} => Victims(policy) # {}
    BY <2>1, PolicyUseAssumption, VictimExists
  <2> QED  BY <2>2, <2>3, <2>4 DEF VictimWhileTracked
<1> QED  BY <1>1, Invariance, PTL
=============================================================================
