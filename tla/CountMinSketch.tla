--------------------------- MODULE CountMinSketch ---------------------------
(***************************************************************************)
(* The sketch of count_min_sketch.go as a value: depth rows of width        *)
(* counters and the count of everything added, all words of 0 .. MaxUint.   *)
(* hashItem is FNV-1a over the item and the row; here it is any function.   *)
(***************************************************************************)
EXTENDS Integers, FiniteSetsExt

CONSTANTS
    Items,     \* what callers count, and what they put into filters
    MaxRow,    \* the last row, or function of a filter, that is hashed for
    Hash,      \* hashItem and hashBloomItem: Hash[item][row]
    MaxUint    \* math.MaxUint64

ASSUME SketchAssumption ==
    /\ MaxRow \in Nat /\ Hash \in [Items -> [0 .. MaxRow -> Nat]]
    /\ MaxUint \in Nat \ {0}

Word == 0 .. MaxUint
Rows(s) == 0 .. s.depth - 1
Columns(s) == 0 .. s.width - 1

\* The arithmetic of uint64.
Plus(a, b)  == (a + b) % (MaxUint + 1)
Times(a, b) == (a * b) % (MaxUint + 1)

NewCountMinSketch(width, depth) ==
    [width |-> width, depth |-> depth, count |-> 0,
     counters |-> [row \in 0 .. depth - 1 |-> [column \in 0 .. width - 1 |-> 0]]]

Column(s, item, row) == Hash[item][row] % s.width
Counter(s, item, row) == s.counters[row][Column(s, item, row)]

query(s, item) == Min({Counter(s, item, row) : row \in Rows(s)})

IncrOverflows(s, item, value) ==
    \/ MaxUint - s.count < value
    \/ \E row \in Rows(s) : MaxUint - Counter(s, item, row) < value

Incr(s, item, value) ==
    [s EXCEPT !.counters = [row \in Rows(s) |->
                  [s.counters[row] EXCEPT ![Column(s, item, row)] = Plus(@, value)]],
              !.count = Plus(@, value)]

-----------------------------------------------------------------------------
(* CMSMerge: the sources are added, with their weights, to a new sketch.     *)

\* Adding weight times a to b, both words, does not fit a word. Faulty: the
\* product is computed before anybody asks whether it fits.
WrapsOnSum(a, weight, b) == MaxUint - b < Times(a, weight)
Wraps(a, weight, b) == \/ a # 0 /\ weight > MaxUint \div a
                       \/ MaxUint - b < Times(a, weight)

SameShape(s, t) == s.width = t.width /\ s.depth = t.depth

MergeOverflows(merged, source, weight) ==
    \/ Wraps(source.count, weight, merged.count)
    \/ \E row \in Rows(merged), column \in Columns(merged) :
          Wraps(source.counters[row][column], weight, merged.counters[row][column])

\* Faulty: the counters are added without their weight.
AddUnweighted(merged, source, weight) ==
    [merged EXCEPT
        !.counters = [row \in Rows(merged) |-> [column \in Columns(merged) |->
            Plus(@[row][column], source.counters[row][column])]],
        !.count = Plus(@, Times(source.count, weight))]
AddWeighted(merged, source, weight) ==
    [merged EXCEPT
        !.counters = [row \in Rows(merged) |-> [column \in Columns(merged) |->
            Plus(@[row][column], Times(source.counters[row][column], weight))]],
        !.count = Plus(@, Times(source.count, weight))]
=============================================================================
