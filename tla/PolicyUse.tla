----------------------------- MODULE PolicyUse -----------------------------
(***************************************************************************)
(* The eviction policies against the history of uses they are meant to      *)
(* remember: a Store inserts keys, accesses tracked ones, and removes keys  *)
(* by name or because Victim returned them, in any order.                   *)
(***************************************************************************)
EXTENDS Eviction

CONSTANTS
    Keys,
    Policies,   \* the policies to be looked at
    MaxUses     \* bound: the uses of keys

ASSUME PolicyUseAssumption ==
    IsFiniteSet(Keys) /\ Policies \subseteq PolicyNames /\ MaxUses \in Nat

VARIABLES
    policy,
    uses,      \* uses of each key since it was last inserted, 0: not there
    lastUse,   \* when it was last used
    calls

vars == <<policy, uses, lastUse, calls>>

Init == /\ \E name \in Policies : policy = NewPolicy(name)
        /\ calls = 0
        /\ uses = [k \in Keys |-> 0] /\ lastUse = [k \in Keys |-> 0]

There == {k \in Keys : uses[k] > 0}

Used(k) == /\ calls < MaxUses /\ calls' = calls + 1
           /\ uses' = [uses EXCEPT ![k] = @ + 1]
           /\ lastUse' = [lastUse EXCEPT ![k] = calls + 1]

Insert(k) == k \notin There /\ policy' = OnInsert(policy, k) /\ Used(k)
Access(k) == k \in There /\ policy' = OnAccess(policy, k) /\ Used(k)
Gone(k)   == /\ policy' = OnRemove(policy, k)
             /\ uses' = [uses EXCEPT ![k] = 0]
             /\ lastUse' = [lastUse EXCEPT ![k] = 0]
             /\ UNCHANGED calls

Next == \/ \E k \in Keys : Insert(k) \/ Access(k) \/ (k \in There /\ Gone(k))
        \/ \E k \in Victims(policy) : Gone(k)

Spec == Init /\ [][Next]_vars

-----------------------------------------------------------------------------
\* The policy tracks the keys that are there, and has a victim exactly when
\* there is one: evictLocked never gives up with keys left to evict.
VictimWhileTracked ==
    /\ policy.name # "none" => Tracked(policy) = There
    /\ Victims(policy) = {} <=> Tracked(policy) = {}

\* The LRU victim is the key whose last use is the oldest.
LRUVictimIsOldest ==
    policy.name = "lru" =>
        Victims(policy) = {v \in There : \A k \in There : lastUse[v] <= lastUse[k]}

\* An LFU victim has the fewest uses, ties to the older, of a whole sample: at
\* most |There| - SampleSize keys come before it.
LFUVictimAmongRarest ==
    policy.name = "lfu" =>
        \A v \in Victims(policy) :
            Cardinality({k \in There :
                            \/ uses[k] < uses[v]
                            \/ uses[k] = uses[v] /\ lastUse[k] < lastUse[v]})
              <= IF Cardinality(There) < SampleSize THEN 0
                 ELSE Cardinality(There) - SampleSize
=============================================================================
