---------------------------- MODULE ExpiringMap ----------------------------
(***************************************************************************)
(* What a Store promises its callers: a map whose entries vanish the        *)
(* instant after their deadline, and on which every call takes effect, or   *)
(* reads, at one instant between its start and its answer. There is no      *)
(* lock, no lazy deletion, no sweep and no policy here; a store with a      *)
(* capacity may forget any entry at any time.                               *)
(***************************************************************************)
EXTENDS Records, Sequences

CONSTANTS
    Procs,
    Bounded,   \* the store has a capacity
    TimeUnit   \* clock units in the second that TTL counts

VARIABLES
    view,      \* the live record of each key, or Absent
    now,
    pending,   \* the write each process has asked for and not yet got
    reply      \* the last answer of each process

avars == <<view, now, pending, reply>>

None == [at |-> "idle"]
NoAnswer == [cmd |-> "none"]

Lapsed(r) == r.ttl # 0 /\ now > r.ttl
Visible(r) == IF r = Absent \/ Lapsed(r) THEN Absent ELSE r

AInit == /\ view = [k \in Keys |-> Absent] /\ now = 0
         /\ pending = [p \in Procs |-> None] /\ reply = [p \in Procs |-> NoAnswer]

Says(p, r) == reply' = [reply EXCEPT ![p] = r]
Pends(p, c) == pending' = [pending EXCEPT ![p] = c]
Reads == UNCHANGED <<view, now, pending>>

\* Time passes: what it overtakes is gone at once.
Lapse == /\ now' = now + 1
         /\ view' = [k \in Keys |->
                       IF view[k] # Absent /\ view[k].ttl # 0 /\ now' > view[k].ttl
                       THEN Absent ELSE view[k]]
         /\ UNCHANGED <<pending, reply>>

\* A call begins; the instant of its effect is still open.
Ask(p) == /\ pending[p] = None
          /\ pending'[p].at \in {"idle", "set", "expire", "delete"}
          /\ Pends(p, pending'[p])
          /\ Says(p, NoAnswer)
          /\ UNCHANGED <<view, now>>

PutNow(p) == /\ pending[p].at = "set"
             /\ view' = [view EXCEPT ![pending[p].key] = Visible(pending[p].record)]
             /\ Pends(p, None)
             /\ UNCHANGED <<now, reply>>

\* The deadline of a live entry moves; an entry that lapsed stays gone.
ExpireNow(p) ==
    LET k == pending[p].key IN
    /\ pending[p].at = "expire"
    /\ \/ /\ view[k] = Absent
          /\ Says(p, [cmd |-> "COUNT", count |-> 0])
          /\ UNCHANGED view
       \/ /\ view[k] # Absent
          /\ Says(p, [cmd |-> "COUNT", count |-> 1])
          /\ view' = [view EXCEPT ![k] = Visible([@ EXCEPT !.ttl = pending[p].ttl])]
    /\ Pends(p, None)
    /\ UNCHANGED now

\* A live key counts once; one that lapsed may still be counted.
DeleteNow(p) ==
    LET k == Head(pending[p].rest)
        c == pending'[p].count - pending[p].count
    IN /\ pending[p].at = "delete" /\ pending[p].rest # <<>>
       /\ Pends(p, [pending[p] EXCEPT !.rest = Tail(@), !.count = @ + c])
       /\ c \in IF view[k] = Absent THEN {0, 1} ELSE {1}
       /\ view' = [view EXCEPT ![k] = Absent]
       /\ UNCHANGED <<now, reply>>

DeleteAnswer(p) == /\ pending[p].at = "delete" /\ pending[p].rest = <<>>
                   /\ Says(p, [cmd |-> "COUNT", count |-> pending[p].count])
                   /\ Pends(p, None)
                   /\ UNCHANGED <<view, now>>

\* An update in place: the entry changes and the answer says how.
IncrNow(p) ==
    \E k \in Keys :
        LET n == IF view[k] = Absent THEN 0
                 ELSE IF view[k].type # "string" THEN NotANumber
                 ELSE ParseInt[view[k].text]
            next == FormatInt[Increment(n)]
        IN /\ pending[p] = None
           /\ \/ /\ n = NotANumber
                 /\ Says(p, [cmd |-> "INCR", key |-> k, text |-> Absent])
                 /\ UNCHANGED view
              \/ /\ n # NotANumber
                 /\ Says(p, [cmd |-> "INCR", key |-> k, text |-> next])
                 /\ view' = [view EXCEPT ![k] =
                        StringValue(next, IF @ = Absent THEN 0 ELSE @.ttl)]
           /\ UNCHANGED <<now, pending>>

WrongType(r) == r # Absent /\ r.type # "set"
MembersOf(r) == IF r = Absent THEN {} ELSE r.members

\* A set command answers how many members it adds, removes or finds.
SetAnswer(p, c, k, S, n) == Says(p, [cmd |-> c, key |-> k, members |-> S, count |-> n])

SetCommandNow(p) ==
    \E k \in Keys, S \in (SUBSET Members) \ {{}} :
        LET r == view[k]
            old == MembersOf(r)
            Becomes(T) == view' = [view EXCEPT ![k] =
                IF T = {} THEN Absent ELSE SetValue(T, IF r = Absent THEN 0 ELSE r.ttl)]
        IN /\ pending[p] = None /\ UNCHANGED <<now, pending>>
           /\ \/ /\ WrongType(r) /\ UNCHANGED view
                 /\ \E c \in {"SADD", "SREM", "SISMEMBER"} : SetAnswer(p, c, k, S, Absent)
              \/ /\ ~ WrongType(r)
                 /\ SetAnswer(p, "SADD", k, S, Cardinality(S \ old))
                 /\ Becomes(old \union S)
              \/ /\ ~ WrongType(r)
                 /\ SetAnswer(p, "SREM", k, S, Cardinality(S \cap old))
                 /\ Becomes(old \ S)
              \/ /\ ~ WrongType(r) /\ UNCHANGED view
                 /\ SetAnswer(p, "SISMEMBER", k, S, Cardinality(S \cap old))

MembersNow(p) ==
    \E k \in Keys :
        /\ pending[p] = None /\ Reads
        /\ Says(p, [cmd |-> "SMEMBERS", key |-> k,
                    members |-> IF WrongType(view[k]) THEN Absent ELSE MembersOf(view[k])])

GetNow(p) ==
    \E k \in Keys :
        /\ pending[p] = None /\ Reads
        /\ Says(p, [cmd |-> "GET", key |-> k,
                    text |-> IF view[k] # Absent /\ view[k].type = "string"
                             THEN view[k].text ELSE Absent])

\* -2: no live entry, or it is at its deadline; -1: no deadline; else the
\* whole seconds left.
TTLNow(p) ==
    \E k \in Keys :
        LET r == view[k]
            left == IF r = Absent THEN -2
                    ELSE IF r.ttl = 0 THEN -1
                    ELSE IF r.ttl = now THEN -2 ELSE (r.ttl - now) \div TimeUnit
        IN pending[p] = None /\ Reads /\ Says(p, [cmd |-> "TTL", key |-> k, seconds |-> left])

\* EXISTS and Stats look at several instants: only their answers' form is promised.
SummaryNow(p) == /\ pending[p] = None /\ Reads
                 /\ Says(p, reply'[p]) /\ reply'[p].cmd \in {"COUNT", "STATS"}

Forget == /\ Bounded
          /\ \E k \in Keys : view' = [view EXCEPT ![k] = Absent]
          /\ UNCHANGED <<now, pending, reply>>

ANext ==
    \/ Lapse \/ Forget
    \/ \E p \in Procs :
          \/ Ask(p) \/ PutNow(p) \/ ExpireNow(p) \/ DeleteNow(p) \/ DeleteAnswer(p)
          \/ IncrNow(p) \/ SetCommandNow(p) \/ MembersNow(p) \/ GetNow(p) \/ TTLNow(p) \/ SummaryNow(p)

ASpec == AInit /\ [][ANext]_avars
=============================================================================
