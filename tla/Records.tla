------------------------------ MODULE Records ------------------------------
(***************************************************************************)
(* The records a Store keeps per key, and the memory it charges for them.   *)
(*                                                                          *)
(* A record is a type, a value and an absolute expiry instant (0: never).   *)
(* The dynamic type of the Go value decides which field carries it:         *)
(*   "string": text, one of Strings                                         *)
(*   "set":    members, a set of Members                                    *)
(*   "zset":   scores, a map of members to scores                           *)
(*   "cms", "bloom": sketch, filter                                         *)
(* The values of the last three are those of Containers.                    *)
(* A string is opaque; what the commands do with one is parse it as a       *)
(* number (ParseInt), print a number (FormatInt) and take its length.       *)
(***************************************************************************)
EXTENDS Integers, FiniteSets

CONSTANTS
    Keys,        \* key names
    KeyLen,      \* length of each key name in bytes
    Strings,     \* string values
    StrLen,      \* length of each string value in bytes
    MaxInt,      \* the largest integer of the machine word (2^63 - 1 in Go)
    ParseInt,    \* strconv.ParseInt(v, 10, 64), NotANumber where it fails
    FormatInt,   \* strconv.FormatInt(i, 10)
    NotANumber,
    Members,     \* set members
    MemberLen,   \* length of each member in bytes
    Absent       \* the map has no entry

\* The integers of the machine word and its wrapping increment.
Ints == -MaxInt - 1 .. MaxInt
Increment(i) == IF i = MaxInt THEN -MaxInt - 1 ELSE i + 1

ASSUME RecordsAssumption ==
    /\ IsFiniteSet(Keys) /\ KeyLen \in [Keys -> Nat]
    /\ StrLen \in [Strings -> Nat]
    /\ MaxInt \in Nat
    /\ ParseInt \in [Strings -> Ints \union {NotANumber}]
    /\ FormatInt \in [Ints -> Strings]
    /\ \A i \in Ints : ParseInt[FormatInt[i]] = i
    /\ NotANumber \notin Ints
    /\ IsFiniteSet(Members) /\ MemberLen \in [Members -> Nat]

ASSUME AbsentAssumption ==
    /\ Absent \notin [type : {"string"}, text : Strings, ttl : Nat]
    /\ Absent \notin [type : {"set"}, members : SUBSET Members, ttl : Nat]
    /\ Absent \notin Strings

StringRecord == [type : {"string"}, text : Strings, ttl : Nat]
SetRecord    == [type : {"set"}, members : SUBSET Members, ttl : Nat]
Record       == StringRecord \union SetRecord

StringValue(v, ttl) == [type |-> "string", text |-> v, ttl |-> ttl]
SetValue(S, ttl)    == [type |-> "set", members |-> S, ttl |-> ttl]

\* One pair per byte of the members of S: the sum of the member lengths is
\* the number of pairs.
MemberBytes(S) == UNION {{m} \X (1 .. MemberLen[m]) : m \in S}

membersSize(S) == Cardinality(MemberBytes(S))

\* A member of a sorted set is charged its name and sortedSetEntryOverhead.
scoredSize(S) == membersSize(S) + 8 * Cardinality(S)

valueSize(r) == CASE r.type = "string" -> StrLen[r.text]
                  [] r.type = "set"    -> membersSize(r.members)
                  [] r.type = "zset"   -> scoredSize(DOMAIN r.scores)
                  [] r.type = "cms"    -> r.sketch.width * r.sketch.depth * 8
                  [] r.type = "bloom"  -> r.filter.words * 8

recordSize(k, r) == KeyLen[k] + valueSize(r)

\* What a map of records occupies: one pair per byte of its keys and values.
Bytes(k, r) == IF r = Absent THEN {} ELSE {k} \X (1 .. recordSize(k, r))
Footprint(data) == UNION {Bytes(k, data[k]) : k \in Keys}
=============================================================================
